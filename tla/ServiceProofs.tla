--------------------------- MODULE ServiceProofs ----------------------------
(*****************************************************************************)
(* Proofs about the components of the services, each for itself: Toggle,     *)
(* Transactor, Shuffle, BlockSearch, Spawner, Flipside and MetadataServer.   *)
(*****************************************************************************)
EXTENDS Toggle, Transactor, Shuffle, BlockSearch, Spawner, Flipside, MetadataServer,
        WellFoundedInduction, TLAPS

-----------------------------------------------------------------------------

(*****************************************************************************)
(* Proofs about Toggle for any set of goroutines.  TypeOK, LockInv and       *)
(* ItemConserved are inductive together: whether an item exists can only     *)
(* be related to the state because the mutex orders the Set()s.              *)
(*****************************************************************************)

\* The inductive invariant of the Toggle.
IInv == TypeOK /\ LockInv /\ ItemConserved

\* No goroutine is called NoOne, and the initial state satisfies the invariant.
LEMMA InitIInv == Init => IInv
  <1> USE NoOneAssumption
  <1> SUFFICES ASSUME Init PROVE IInv
    OBVIOUS
  <1>1. TypeOK
    <2>1. "idle" \in PCs
      BY DEF PCs, RestPCs
    <2>2. mu = NoOne /\ panicked = NoOne /\ buf \in 0..SignalCap /\ done \subseteq Goroutines
      BY DEF Init, SignalCap
    <2>3. state \in BOOLEAN /\ closed \in BOOLEAN
      BY DEF Init
    <2>4. pc \in [Goroutines -> PCs]
      BY <2>1 DEF Init
    <2> QED
      BY <2>2, <2>3, <2>4 DEF TypeOK
  <1>2. LockInv
    BY DEF Init, LockInv
  <1>3. ItemConserved
    BY DEF Init, ItemConserved, HasItem, Holders, Settled
  <1> QED
    BY <1>1, <1>2, <1>3 DEF IInv

\* Every step keeps the types.
LEMMA NextTypeOK == TypeOK /\ [Next]_vars => TypeOK'
  <1> USE DEF TypeOK, PCs, RestPCs, WaitPCs, SetPCs, ClosePCs, SignalCap,
              Goto, Call, WaitResult, Panic
  <1> SUFFICES ASSUME TypeOK, [Next]_vars PROVE TypeOK'
    OBVIOUS
  <1>1. ASSUME NEW g \in Goroutines, WaitCall(g) \/ CtxDone(g)
        PROVE  TypeOK'
    BY <1>1 DEF WaitCall, CtxDone
  <1>2. ASSUME NEW g \in Goroutines, Wait(g)
        PROVE  TypeOK'
    BY <1>2 DEF Wait, WaitSigChan, WaitCtxErr, WaitRecv, WaitRecvClosed,
                WaitReturn, WaitReturnPanic
  <1>3. ASSUME NEW g \in Goroutines, SetCall(g) \/ Set(g)
        PROVE  TypeOK'
    <2>1. CASE SetCall(g) \/ SetSame(g)
      BY <2>1 DEF SetCall, SetSame
    <2>2. CASE SetStore(g)
      BY <2>2 DEF SetStore
    <2>3. CASE SetSend(g) \/ SetSendPanic(g)
      BY <2>3 DEF SetSend, SetSendPanic
    <2>4. CASE SetRecv(g)
      BY <2>4 DEF SetRecv
    <2> QED
      BY <1>3, <2>1, <2>2, <2>3, <2>4 DEF Set
  <1>4. ASSUME NEW g \in Goroutines, CloseCall(g) \/ Close(g)
        PROVE  TypeOK'
    BY <1>4 DEF CloseCall, Close, CloseSigChan, CloseClose, ClosePanic
  <1>5. CASE UNCHANGED vars \/ Ended
    BY <1>5 DEF vars, Ended
  <1> QED
    BY <1>1, <1>2, <1>3, <1>4, <1>5 DEF Next

\* The mutex is held around the channel operation of a Set() and by nobody else.
LEMMA NextLockInv == TypeOK /\ LockInv /\ [Next]_vars => LockInv'
  <1> USE NoOneAssumption DEF TypeOK, LockInv, RestPCs, WaitPCs,
                              Goto, Call, WaitResult, Panic
  <1> SUFFICES ASSUME TypeOK, LockInv, [Next]_vars PROVE LockInv'
    OBVIOUS
  <1>1. ASSUME NEW g \in Goroutines, WaitCall(g) \/ CtxDone(g)
        PROVE  LockInv'
    BY <1>1 DEF WaitCall, CtxDone
  <1>2. ASSUME NEW g \in Goroutines, Wait(g)
        PROVE  LockInv'
    BY <1>2 DEF Wait, WaitSigChan, WaitCtxErr, WaitRecv, WaitRecvClosed,
                WaitReturn, WaitReturnPanic
  <1>3. ASSUME NEW g \in Goroutines, SetCall(g) \/ Set(g)
        PROVE  LockInv'
    <2>1. CASE SetCall(g) \/ SetSame(g)
      BY <2>1 DEF SetCall, SetSame
    <2>2. CASE SetStore(g)
      BY <2>2 DEF SetStore
    <2>3. CASE SetSend(g) \/ SetSendPanic(g)
      BY <2>3 DEF SetSend, SetSendPanic
    <2>4. CASE SetRecv(g)
      BY <2>4 DEF SetRecv
    <2> QED
      BY <1>3, <2>1, <2>2, <2>3, <2>4 DEF Set
  <1>4. ASSUME NEW g \in Goroutines, CloseCall(g) \/ Close(g)
        PROVE  LockInv'
    BY <1>4 DEF CloseCall, Close, CloseSigChan, CloseClose, ClosePanic
  <1>5. CASE UNCHANGED vars \/ Ended
    BY <1>5 DEF vars, Ended
  <1> QED
    BY <1>1, <1>2, <1>3, <1>4, <1>5 DEF Next

\* Every step keeps the one item of a Toggle that is on.
LEMMA NextItemConserved ==
        TypeOK /\ LockInv /\ ItemConserved /\ [Next]_vars => ItemConserved'
  <1> USE NoOneAssumption DEF TypeOK, LockInv, ItemConserved, HasItem, Holders,
          Settled, SignalCap, RestPCs, WaitPCs, Goto, Call, WaitResult, Panic
  <1> SUFFICES ASSUME TypeOK, LockInv, ItemConserved, [Next]_vars
               PROVE  ItemConserved'
    OBVIOUS
  <1>1. ASSUME NEW g \in Goroutines, WaitCall(g) \/ CtxDone(g)
        PROVE  ItemConserved'
    BY <1>1 DEF WaitCall, CtxDone
  <1>2. ASSUME NEW g \in Goroutines, Wait(g)
        PROVE  ItemConserved'
    <2>1. CASE WaitSigChan(g) \/ WaitCtxErr(g)
      BY <2>1 DEF WaitSigChan, WaitCtxErr
    <2>2. CASE WaitRecv(g)
      BY <2>2 DEF WaitRecv
    <2>3. CASE WaitReturn(g)
      BY <2>3 DEF WaitReturn
    <2>4. CASE WaitRecvClosed(g) \/ WaitReturnPanic(g)
      BY <2>4 DEF WaitRecvClosed, WaitReturnPanic
    <2> QED
      BY <1>2, <2>1, <2>2, <2>3, <2>4 DEF Wait
  <1>3. ASSUME NEW g \in Goroutines, SetCall(g) \/ Set(g)
        PROVE  ItemConserved'
    <2>1. CASE SetCall(g) \/ SetSame(g)
      BY <2>1 DEF SetCall, SetSame
    <2>2. CASE SetStore(g)
      BY <2>2 DEF SetStore
    <2>3. CASE SetSend(g)
      BY <2>3 DEF SetSend
    <2>4. CASE SetRecv(g)
      BY <2>4 DEF SetRecv
    <2>5. CASE SetSendPanic(g)
      BY <2>5 DEF SetSendPanic
    <2> QED
      BY <1>3, <2>1, <2>2, <2>3, <2>4, <2>5 DEF Set
  <1>4. ASSUME NEW g \in Goroutines, CloseCall(g) \/ Close(g)
        PROVE  ItemConserved'
    BY <1>4 DEF CloseCall, Close, CloseSigChan, CloseClose, ClosePanic
  <1>5. CASE UNCHANGED vars \/ Ended
    BY <1>5 DEF vars, Ended
  <1> QED
    BY <1>1, <1>2, <1>3, <1>4, <1>5 DEF Next

(***************************************************************************)
(* Wait() and Set() neither lose nor double the item, for any number of    *)
(* goroutines: TypeOK, LockInv and ItemConserved hold of every state of    *)
(* every behaviour of toggle.go.                                           *)
(***************************************************************************)
THEOREM ItemIsConserved == Spec => [](TypeOK /\ LockInv /\ ItemConserved)
  <1>1. IInv /\ [Next]_vars => IInv'
    BY NextTypeOK, NextLockInv, NextItemConserved DEF IInv
  <1>2. Spec => []IInv
    BY InitIInv, <1>1, PTL DEF Spec
  <1> QED
    BY <1>2, PTL DEF IInv

(***************************************************************************)
(* Wait() lets nobody pass a Toggle that is off: the item that a Wait()    *)
(* receives exists only while the Toggle is on, or a Set(false) has yet to *)
(* take it.                                                                *)
(***************************************************************************)
THEOREM NoPassWhenOff == Spec => PassOnlyWhenOn
  <1> DEFINE Passes(g) == pc[g] = "wait.select" /\ pc'[g] = "wait.return"
             Allowed == closed \/ state \/ \E h \in Goroutines : pc[h] = "set.recv"
  <1>1. ASSUME IInv, Next, NEW g \in Goroutines, Passes(g) PROVE Allowed
    <2>1. buf > 0 /\ panicked = NoOne
      BY <1>1 DEF Next, WaitCall, CtxDone, Wait, WaitSigChan, WaitCtxErr, WaitRecv,
           WaitRecvClosed, WaitReturn, WaitReturnPanic, SetCall, Set, SetSame,
           SetStore, SetSend, SetSendPanic, SetRecv, CloseCall, Close,
           CloseSigChan, CloseClose, ClosePanic, Ended, vars, Goto, Call,
           WaitResult, Panic, IInv, TypeOK
    <2>2. closed \/ Settled
      BY <1>1, <2>1 DEF IInv, ItemConserved, HasItem
    <2> QED
      BY <1>1, <2>1, <2>2, NoOneAssumption DEF IInv, TypeOK, LockInv, Settled
  <1>2. IInv /\ [Next]_vars => [\A g \in Goroutines : Passes(g) => Allowed]_vars
    BY <1>1
  <1>3. Spec => []IInv
    BY ItemIsConserved, PTL DEF IInv
  <1> QED
    BY <1>2, <1>3, PTL DEF Spec, PassOnlyWhenOn

(***************************************************************************)
(* Close() on a Toggle that is off, with no Set(true) on its way, keeps    *)
(* its doc's promise for ever: no later Wait() passes and none panics.     *)
(***************************************************************************)
THEOREM ClosedOffIsStable == Spec => ClosedOffStays
  <1> DEFINE Stays == ClosedOff => /\ ClosedOff'
                                   /\ panicked' # NoOne => pc[panicked'] = "close.close"
  <1>1. ASSUME IInv, Next, ClosedOff, ~UNCHANGED vars PROVE Stays
    <2> USE DEF ClosedOff, HasItem, Holders, IInv, TypeOK, SignalCap, RestPCs,
                Goto, Call, WaitResult, Panic
    <2>1. ASSUME NEW g \in Goroutines, WaitCall(g) \/ CtxDone(g) \/ CloseCall(g)
          PROVE  Stays
      BY <1>1, <2>1 DEF WaitCall, CtxDone, CloseCall
    <2>2. ASSUME NEW g \in Goroutines, Wait(g)
          PROVE  Stays
      BY <1>1, <2>2 DEF Wait, WaitSigChan, WaitCtxErr, WaitRecv, WaitRecvClosed,
                   WaitReturn, WaitReturnPanic
    <2>3. ASSUME NEW g \in Goroutines, SetCall(g) \/ Set(g)
          PROVE  Stays
      BY <1>1, <2>3 DEF SetCall, Set, SetSame, SetStore, SetSend, SetSendPanic, SetRecv
    <2>4. ASSUME NEW g \in Goroutines, Close(g)
          PROVE  Stays
      BY <1>1, <2>4 DEF Close, CloseSigChan, CloseClose, ClosePanic
    <2> QED
      BY <1>1, <2>1, <2>2, <2>3, <2>4 DEF Next, Ended
  <1>2. IInv /\ [Next]_vars => [Stays]_vars
    BY <1>1
  <1>3. Spec => []IInv
    BY ItemIsConserved, PTL DEF IInv
  <1> QED
    BY <1>2, <1>3, PTL DEF Spec, ClosedOffStays

(***************************************************************************)
(* The Toggle implements the Gate: although Wait() takes the item away and *)
(* Set(false) has to wait for its return, callers cannot tell it from a    *)
(* gate that is passed atomically.                                         *)
(***************************************************************************)
THEOREM ToggleImplementsGate == Spec => ImplementsGate
  <1>1. Init => G!GateInit
    BY DEF Init, G!GateInit, HasItem, Holders, GateStatus
  <1>2. ASSUME IInv, [Next]_vars PROVE [G!GateNext]_(G!gateVars)
    <2> USE NoOneAssumption DEF IInv, TypeOK, SignalCap, RestPCs, WaitPCs, SetPCs,
            ClosePCs, PCs, HasItem, Holders, GateStatus, Goto, Call, WaitResult, Panic
    <2>1. ASSUME NEW g \in Goroutines, WaitCall(g)
          PROVE  G!Enter(g)
      BY <1>2, <2>1 DEF WaitCall, G!Enter
    <2>2. ASSUME NEW g \in Goroutines, WaitRecv(g)
          PROVE  G!Pass(g)
      BY <1>2, <2>2 DEF WaitRecv, G!Pass
    <2>3. ASSUME NEW g \in Goroutines, WaitCtxErr(g)
          PROVE  G!GiveUp(g)
      BY <1>2, <2>3 DEF WaitCtxErr, G!GiveUp
    <2>4. ASSUME NEW g \in Goroutines, WaitRecvClosed(g)
          PROVE  G!Refuse(g)
      BY <1>2, <2>4 DEF WaitRecvClosed, G!Refuse
    <2>5. ASSUME NEW g \in Goroutines, SetCall(g) \/ CloseCall(g)
          PROVE  G!Leave(g) \/ UNCHANGED G!gateVars
      BY <1>2, <2>5 DEF SetCall, CloseCall, G!Leave, G!Ended, G!gateVars
    <2>6. ASSUME NEW g \in Goroutines, SetSend(g)
          PROVE  G!Flip
      <3>1. ~HasItem /\ HasItem'
        BY <1>2, <2>6 DEF SetSend, ItemConserved, LockInv, Settled
      <3>2. UNCHANGED <<closed, GateStatus>> /\ ~closed
        BY <1>2, <2>6 DEF SetSend
      <3> QED
        BY <3>1, <3>2 DEF G!Flip
    <2>7. ASSUME NEW g \in Goroutines, SetRecv(g)
          PROVE  G!Flip \/ UNCHANGED G!gateVars
      <3>1. UNCHANGED <<closed, GateStatus>>
        BY <1>2, <2>7 DEF SetRecv
      <3>2. CASE buf > 0 /\ ~closed
        BY <1>2, <2>7, <3>1, <3>2 DEF SetRecv, ItemConserved, G!Flip
      <3>3. CASE buf > 0 /\ closed
        BY <1>2, <2>7, <3>1, <3>3 DEF SetRecv, G!Flip, G!gateVars
      <3>4. CASE ~(buf > 0)
        BY <1>2, <2>7, <3>1, <3>4 DEF SetRecv, G!gateVars
      <3> QED
        BY <3>2, <3>3, <3>4
    <2>8. ASSUME NEW g \in Goroutines, CloseClose(g)
          PROVE  G!Shut
      BY <1>2, <2>8 DEF CloseClose, G!Shut
    <2>9. ASSUME NEW g \in Goroutines,
                 \/ CtxDone(g) \/ WaitSigChan(g) \/ WaitReturnPanic(g)
                 \/ SetSame(g) \/ SetStore(g) \/ SetSendPanic(g)
                 \/ CloseSigChan(g) \/ ClosePanic(g)
          PROVE  UNCHANGED G!gateVars
      BY <1>2, <2>9 DEF CtxDone, WaitSigChan, WaitReturnPanic, SetSame, SetStore,
                        SetSendPanic, CloseSigChan, ClosePanic, G!gateVars
    <2>10. ASSUME NEW g \in Goroutines, WaitReturn(g)
           PROVE  UNCHANGED G!gateVars
      BY <1>2, <2>10 DEF WaitReturn, G!gateVars
    <2>11. CASE UNCHANGED vars
      BY <2>11 DEF vars, G!gateVars
    <2>12. CASE Ended
      BY <2>11, <2>12 DEF Ended
    <2> QED
      BY <1>2, <2>1, <2>2, <2>3, <2>4, <2>5, <2>6, <2>7, <2>8, <2>9, <2>10,
         <2>11, <2>12 DEF Next, Wait, Set, Close, G!GateNext
  <1>3. Spec => []IInv
    BY ItemIsConserved, PTL DEF IInv
  <1> QED
    BY <1>1, <1>2, <1>3, PTL DEF Spec, ImplementsGate, G!GateSpec

-----------------------------------------------------------------------------

(*****************************************************************************)
(* Proofs about Transactor: DoIsTransactional is an inductive invariant      *)
(* together with the types, for any number of callers, locks and Funcs.      *)
(*****************************************************************************)

\* The inductive invariant of Do().
TransactorInv == TransactorTypeOK /\ DoIsTransactional

\* The step of one caller.
DoStep(p) ==
    \/ \E n \in 0..MaxFuncs : DoCall(p, n)
    \/ BeginTx(p) \/ DoReturnsNil(p)
    \/ \E lock \in Locks : PgTxLock(p, lock) \/ TryPgTxLock(p, lock)
    \/ LockGranted(p) \/ LockFails(p)
    \/ CommitOK(p) \/ CommitFails(p)
    \/ FuncFails(p) \/ FuncPanics(p) \/ ContextDone(p)

-----------------------------------------------------------------------------

\* Nothing is held and nothing applied before the first Do().
LEMMA InitTransactorInv == TransactorInit => TransactorInv
<1> SUFFICES ASSUME TransactorInit PROVE TransactorInv
    OBVIOUS
<1>1. TransactorTypeOK
    BY TransactorAssumption DEF TransactorInit, TransactorTypeOK
<1>2. LocksExclude /\ LocksEndWithTx
    BY DEF TransactorInit, LocksExclude, LocksEndWithTx
<1>3. AppliedIsPrefix
    BY DEF TransactorInit, AppliedIsPrefix
<1> QED BY <1>1, <1>2, <1>3 DEF TransactorInv, DoIsTransactional

\* The types are kept: a Func is begun only while fewer than nFuncs have been
\* committed, so neither count exceeds MaxFuncs.
LEMMA NextTransactorTypeOK ==
    ASSUME TransactorInv, NEW p \in Callers, DoStep(p)
    PROVE  TransactorTypeOK'
<1> USE TransactorAssumption DEF TransactorInv, TransactorTypeOK
<1>1. ASSUME NEW n \in 0..MaxFuncs, DoCall(p, n) PROVE TransactorTypeOK'
    BY <1>1 DEF DoCall
<1>2. CASE BeginTx(p)
    BY <1>2 DEF BeginTx
<1>3. CASE DoReturnsNil(p)
    BY <1>3 DEF DoReturnsNil
<1>4. ASSUME NEW lock \in Locks, PgTxLock(p, lock) PROVE TransactorTypeOK'
    BY <1>4 DEF PgTxLock
<1>5. ASSUME NEW lock \in Locks, TryPgTxLock(p, lock) PROVE TransactorTypeOK'
    BY <1>5 DEF TryPgTxLock
<1>6. CASE LockGranted(p)
    BY <1>6 DEF LockGranted
<1>7. CASE LockFails(p)
    BY <1>7 DEF LockFails
<1>8. CASE CommitOK(p)
    BY <1>8 DEF CommitOK, EndTx, DoIsTransactional, AppliedIsPrefix
<1>9. CASE CommitFails(p)
    BY <1>9 DEF CommitFails, EndTx, DoIsTransactional, AppliedIsPrefix
<1>10. CASE FuncFails(p)
    BY <1>10 DEF FuncFails, EndTx
<1>11. CASE FuncPanics(p)
    BY <1>11 DEF FuncPanics
<1>12. CASE ContextDone(p)
    BY <1>12 DEF ContextDone, EndTx
<1> QED
    BY <1>1, <1>2, <1>3, <1>4, <1>5, <1>6, <1>7, <1>8, <1>9, <1>10, <1>11, <1>12
    DEF DoStep

\* Locks are granted by PgTxLock() and TryPgTxLock() only when they do not
\* conflict, and otherwise only given up, all at once.
LEMMA NextLocksExclude ==
    ASSUME TransactorInv, NEW p \in Callers, DoStep(p)
    PROVE  LocksExclude'
<1> USE DEF TransactorInv, TransactorTypeOK, DoIsTransactional, LocksExclude
<1>1. ASSUME UNCHANGED held PROVE LocksExclude'
    BY <1>1
<1>2. ASSUME EndTx(p) PROVE LocksExclude'
    BY <1>2 DEF EndTx
<1>3. ASSUME NEW lock \in Locks, Compatible(p, lock), held' = [held EXCEPT ![p] = @ \cup {lock}]
      PROVE  LocksExclude'
    <2> SUFFICES ASSUME NEW a \in Callers, NEW b \in Callers, a # b,
                        NEW l \in held'[a], NEW k \in held'[b], l.key = k.key
                 PROVE  l.mode = "Shared" /\ k.mode = "Shared"
        OBVIOUS
    <2>1. CASE a # p /\ b # p
        BY <1>3, <2>1
    <2>2. CASE a = p
        BY <1>3, <2>2 DEF Compatible
    <2>3. CASE b = p
        BY <1>3, <2>3 DEF Compatible
    <2> QED BY <2>1, <2>2, <2>3
<1>4. CASE LockGranted(p)
    BY <1>4, <1>3 DEF LockGranted
<1>5. ASSUME NEW lock \in Locks, TryPgTxLock(p, lock) PROVE LocksExclude'
    <2>1. \/ UNCHANGED held
          \/ Compatible(p, lock) /\ held' = [held EXCEPT ![p] = @ \cup {lock}]
        BY <1>5 DEF TryPgTxLock
    <2> QED BY <2>1, <1>1, <1>3
<1>6. CASE CommitOK(p) \/ CommitFails(p) \/ FuncFails(p) \/ ContextDone(p)
    BY <1>6, <1>2 DEF CommitOK, CommitFails, FuncFails, ContextDone
<1>7. CASE \/ \E n \in 0..MaxFuncs : DoCall(p, n)
           \/ BeginTx(p) \/ DoReturnsNil(p)
           \/ \E lock \in Locks : PgTxLock(p, lock)
           \/ LockFails(p) \/ FuncPanics(p)
    BY <1>7, <1>1 DEF DoCall, BeginTx, DoReturnsNil, PgTxLock, LockFails, FuncPanics
<1> QED
    BY <1>4, <1>5, <1>6, <1>7 DEF DoStep

\* Do() leaves a transaction only by Commit(), Rollback() or a panic: the first
\* two give up its locks, and after the last it is still open.
LEMMA NextLocksEndWithTx ==
    ASSUME TransactorInv, NEW p \in Callers, DoStep(p)
    PROVE  LocksEndWithTx'
<1> USE DEF TransactorInv, TransactorTypeOK, DoIsTransactional, LocksEndWithTx
<1>1. ASSUME UNCHANGED held,
             \/ txAt[p] \notin {"func", "locking", "panicked"}
             \/ txAt'[p] \in {"func", "locking", "panicked"},
             \A o \in Callers \ {p} : txAt'[o] = txAt[o]
      PROVE  LocksEndWithTx'
    BY <1>1
<1>2. ASSUME EndTx(p), \A o \in Callers \ {p} : txAt'[o] = txAt[o]
      PROVE  LocksEndWithTx'
    BY <1>2 DEF EndTx
<1>3. CASE LockGranted(p)
    BY <1>3 DEF LockGranted
<1>4. ASSUME NEW lock \in Locks, TryPgTxLock(p, lock) PROVE LocksEndWithTx'
    BY <1>4 DEF TryPgTxLock
<1>5. CASE CommitOK(p) \/ CommitFails(p) \/ FuncFails(p) \/ ContextDone(p)
    BY <1>5, <1>2 DEF CommitOK, CommitFails, FuncFails, ContextDone
<1>6. ASSUME NEW n \in 0..MaxFuncs, DoCall(p, n) PROVE LocksEndWithTx'
    BY <1>6, <1>1 DEF DoCall
<1>7. ASSUME NEW lock \in Locks, PgTxLock(p, lock) PROVE LocksEndWithTx'
    BY <1>7, <1>1 DEF PgTxLock
<1>8. CASE BeginTx(p) \/ DoReturnsNil(p) \/ LockFails(p) \/ FuncPanics(p)
    BY <1>8, <1>1 DEF BeginTx, DoReturnsNil, LockFails, FuncPanics
<1> QED
    BY <1>3, <1>4, <1>5, <1>6, <1>7, <1>8 DEF DoStep

\* The counts of Do(): a commit adds to both, and only a commit that failed can
\* have added to one of them.
LEMMA NextAppliedIsPrefix ==
    ASSUME TransactorInv, NEW p \in Callers, DoStep(p)
    PROVE  AppliedIsPrefix'
<1> USE TransactorAssumption DEF TransactorInv, TransactorTypeOK, DoIsTransactional, AppliedIsPrefix
<1>1. ASSUME NEW n \in 0..MaxFuncs, DoCall(p, n) PROVE AppliedIsPrefix'
    BY <1>1 DEF DoCall
<1>2. CASE BeginTx(p)
    BY <1>2 DEF BeginTx
<1>3. CASE DoReturnsNil(p)
    BY <1>3 DEF DoReturnsNil
<1>4. ASSUME NEW lock \in Locks, PgTxLock(p, lock) PROVE AppliedIsPrefix'
    BY <1>4 DEF PgTxLock
<1>5. ASSUME NEW lock \in Locks, TryPgTxLock(p, lock) PROVE AppliedIsPrefix'
    BY <1>5 DEF TryPgTxLock
<1>6. CASE LockGranted(p) \/ LockFails(p)
    BY <1>6 DEF LockGranted, LockFails
<1>7. CASE CommitOK(p)
    BY <1>7 DEF CommitOK
<1>8. CASE CommitFails(p)
    BY <1>8 DEF CommitFails
<1>9. CASE FuncFails(p) \/ FuncPanics(p) \/ ContextDone(p)
    BY <1>9 DEF FuncFails, FuncPanics, ContextDone
<1> QED
    BY <1>1, <1>2, <1>3, <1>4, <1>5, <1>6, <1>7, <1>8, <1>9 DEF DoStep

\* Do() of go/dbtx, called by any number of goroutines: advisory locks exclude
\* each other and end with their transaction, and what took effect is a prefix
\* of the Funcs, all of them when Do() returns nil.
THEOREM DoIsAlwaysTransactional == TransactorSpec => []DoIsTransactional
<1>1. TransactorInv /\ [TransactorNext]_txVars => TransactorInv'
    <2> SUFFICES ASSUME TransactorInv, [TransactorNext]_txVars PROVE TransactorInv'
        OBVIOUS
    <2>1. ASSUME NEW p \in Callers, DoStep(p) PROVE TransactorInv'
        BY <2>1, NextTransactorTypeOK, NextLocksExclude, NextLocksEndWithTx, NextAppliedIsPrefix
           DEF TransactorInv, DoIsTransactional
    <2>2. CASE UNCHANGED txVars
        BY <2>2 DEF txVars, TransactorInv, TransactorTypeOK, DoIsTransactional,
                    LocksExclude, LocksEndWithTx, AppliedIsPrefix
    <2>3. TransactorNext => \E p \in Callers : DoStep(p)
        BY DEF TransactorNext, DoStep
    <2> QED BY <2>1, <2>2, <2>3
<1>2. TransactorInv => DoIsTransactional
    BY DEF TransactorInv
<1> QED
    BY InitTransactorInv, <1>1, <1>2, PTL DEF TransactorSpec

-----------------------------------------------------------------------------

(*****************************************************************************)
(* Proofs about Shuffle: the pool of a FisherYates is a permutation at       *)
(* every moment, and what has been drawn from it is final.                   *)
(*****************************************************************************)

\* The inductive invariant of the pool.
ShuffleInv == ShuffleTypeOK /\ PoolIsPermutation

-----------------------------------------------------------------------------

\* Permute() swaps two positions of the pool.  A swap keeps it a permutation.
LEMMA SwapKeepsPermutation ==
    ASSUME ShuffleInv, NEW a \in 0..size-1, NEW b \in 0..size-1,
           NEW p, p = swap(a, b)
    PROVE  /\ p \in [0..size-1 -> 0..size-1]
           /\ \A i, j \in 0..size-1 : p[i] = p[j] => i = j
           /\ \A i \in 0..size-1 : i # a /\ i # b => p[i] = perm[i]
BY DEF ShuffleInv, ShuffleTypeOK, PoolIsPermutation, swap

\* NewFisherYates() returns the identity, with nothing drawn.
LEMMA InitShuffleInv == ShuffleInit => ShuffleInv
<1> SUFFICES ASSUME ShuffleInit PROVE ShuffleInv
    OBVIOUS
<1>1. size \in Nat /\ perm = [i \in 0..size-1 |-> i]
    BY MaxPoolAssumption DEF ShuffleInit, Identity
<1>2. /\ perm \in [0..size-1 -> 0..size-1]
      /\ \A i \in 0..size-1 : perm[i] \in 0..size-1
      /\ \A i, j \in 0..size-1 : perm[i] = perm[j] => i = j
    BY <1>1
<1>3. permuting \in BOOLEAN /\ ~permuting
    BY DEF ShuffleInit
<1>4. shuffled \in Nat /\ step \in Nat /\ max \in Nat /\ shuffled <= size
    BY <1>1 DEF ShuffleInit
<1> QED BY <1>1, <1>2, <1>3, <1>4, Zenon DEF ShuffleInv, ShuffleTypeOK, PoolIsPermutation

\* Every operation leaves the pool a permutation, and Permute() its bounds.
LEMMA NextShuffleInv == ShuffleInv /\ [ShuffleNext]_shuffleVars => ShuffleInv'
<1> SUFFICES ASSUME ShuffleInv, [ShuffleNext]_shuffleVars PROVE ShuffleInv'
    OBVIOUS
<1> USE DEF ShuffleInv, ShuffleTypeOK, PoolIsPermutation
<1>1. ASSUME NEW n \in 0..MaxPool, PermuteStart(n) PROVE ShuffleInv'
    BY <1>1, MaxPoolAssumption DEF PermuteStart, Remaining
<1>2. ASSUME NEW n \in 0..MaxPool, PermuteUpTo(n) PROVE ShuffleInv'
    <2> DEFINE k == IF n > Remaining THEN Remaining ELSE n
    <2>1. k \in Nat /\ k <= Remaining
        BY MaxPoolAssumption DEF Remaining
    <2>2. PermuteStart(k)
        BY <1>2 DEF PermuteUpTo
    <2> HIDE DEF k
    <2> QED BY <2>1, <2>2 DEF PermuteStart, Remaining
<1>3. CASE PermuteStep
    <2>1. /\ permuting /\ step < max /\ step \in 0..size-1
          /\ step' = step + 1
          /\ UNCHANGED <<size, shuffled, max, permuting>>
        BY <1>3 DEF PermuteStep
    <2>2. PICK r \in 0..(size - step - 1) : perm' = swap(step, r + step)
        BY <1>3 DEF PermuteStep
    <2>3. r + step \in 0..size-1
        BY <2>1, <2>2
    <2>4. /\ perm' \in [0..size-1 -> 0..size-1]
          /\ \A i, j \in 0..size-1 : perm'[i] = perm'[j] => i = j
        <3> HIDE DEF ShuffleInv
        <3> QED BY <2>1, <2>2, <2>3, SwapKeepsPermutation
    <2>5. step' \in Nat /\ shuffled <= step' /\ step' <= max
        BY <2>1
    <2> QED BY <2>1, <2>4, <2>5
<1>4. CASE PermuteReturn
    BY <1>4 DEF PermuteReturn
<1>5. ASSUME NEW n \in Nat, Grow(n) PROVE ShuffleInv'
    BY <1>5 DEF Grow
<1>6. ASSUME NEW n \in 0..MaxPool, GrowTo(n) PROVE ShuffleInv'
    <2>1. CASE n >= size /\ Grow(n - size)
        BY <2>1, <1>5, MaxPoolAssumption
    <2>2. CASE UNCHANGED shuffleVars
        BY <2>2 DEF shuffleVars
    <2> QED BY <1>6, <2>1, <2>2 DEF GrowTo
<1>7. CASE UNCHANGED shuffleVars
    BY <1>7 DEF shuffleVars
<1>8. ASSUME NEW n \in 0..MaxPool, PermuteTooMany(n) PROVE ShuffleInv'
    BY <1>8, <1>7 DEF PermuteTooMany
<1>9. ASSUME NEW n \in 0..MaxPool, Grow(n) PROVE ShuffleInv'
    BY <1>9, <1>5, MaxPoolAssumption
<1> QED
    BY <1>1, <1>2, <1>3, <1>4, <1>6, <1>7, <1>8, <1>9 DEF ShuffleNext

\* The pool of a FisherYates holds every index exactly once, whatever was
\* drawn and however it was grown (NewFisherYates(), Permute(), Grow()).
THEOREM PoolIsAlwaysPermutation == ShuffleSpec => []PoolIsPermutation
<1>1. ShuffleInv => PoolIsPermutation
    BY DEF ShuffleInv
<1> QED
    BY InitShuffleInv, NextShuffleInv, <1>1, PTL DEF ShuffleSpec

-----------------------------------------------------------------------------

\* One step of PermutedIsFinal: no operation changes what has been drawn.
LEMMA StepKeepsPermuted ==
    ASSUME ShuffleInv, ShuffleNext
    PROVE  /\ shuffled <= shuffled'
           /\ \A i \in 0..shuffled-1 : perm'[i] = perm[i]
<1> USE DEF ShuffleInv, ShuffleTypeOK
<1> DEFINE Goal == shuffled <= shuffled' /\ \A i \in 0..shuffled-1 : perm'[i] = perm[i]
<1>1. ASSUME UNCHANGED <<perm, shuffled>> PROVE Goal
    BY <1>1
<1>2. CASE PermuteStep
    <2>1. /\ permuting /\ step < max /\ step \in 0..size-1 /\ shuffled <= step
          /\ shuffled' = shuffled
        BY <1>2 DEF PermuteStep
    <2>2. PICK r \in 0..(size - step - 1) : perm' = swap(step, r + step)
        BY <1>2 DEF PermuteStep
    <2>3. r + step \in 0..size-1
        BY <2>1, <2>2
    <2>4. \A i \in 0..size-1 : i # step /\ i # r + step => perm'[i] = perm[i]
        <3> HIDE DEF ShuffleInv
        <3> QED BY <2>1, <2>2, <2>3, SwapKeepsPermutation
    <2> QED BY <2>1, <2>2, <2>4
<1>3. CASE PermuteReturn
    BY <1>3 DEF PermuteReturn
<1>4. ASSUME NEW n \in Nat, Grow(n) PROVE Goal
    BY <1>4 DEF Grow
<1>5. ASSUME NEW n \in 0..MaxPool, GrowTo(n) PROVE Goal
    <2>1. CASE n >= size /\ Grow(n - size)
        BY <2>1, <1>4, MaxPoolAssumption
    <2>2. CASE UNCHANGED shuffleVars
        BY <2>2, <1>1 DEF shuffleVars
    <2> QED BY <1>5, <2>1, <2>2 DEF GrowTo
<1>6. ASSUME NEW n \in 0..MaxPool, PermuteStart(n) \/ PermuteTooMany(n) \/ PermuteUpTo(n)
      PROVE  Goal
    BY <1>6, <1>1 DEF PermuteStart, PermuteTooMany, PermuteUpTo, shuffleVars
<1>7. ASSUME NEW n \in 0..MaxPool, Grow(n) PROVE Goal
    BY <1>7, <1>4, MaxPoolAssumption
<1> QED
    BY <1>2, <1>3, <1>5, <1>6, <1>7 DEF ShuffleNext

\* What Permutation() has returned is a prefix of what it returns later, also
\* after Grow().
THEOREM DrawnIsFinal == ShuffleSpec => PermutedIsFinal
<1> DEFINE Step == /\ shuffled <= shuffled'
                   /\ \A i \in 0..shuffled-1 : perm'[i] = perm[i]
<1>1. ShuffleInv /\ [ShuffleNext]_shuffleVars => [Step]_shuffleVars
    BY StepKeepsPermuted
<1> QED
    BY InitShuffleInv, NextShuffleInv, <1>1, PTL DEF ShuffleSpec, PermutedIsFinal

-----------------------------------------------------------------------------

(*****************************************************************************)
(* Proofs about BlockSearch: what LastBlockBy() returns is right, for any    *)
(* chain and any range, however the chain grows during the search.           *)
(*****************************************************************************)

\* Timestamps do not decrease.
Monotonic == \A m, n \in 0..head : m <= n => time[m] <= time[n]

\* The search has had the number of the latest block.
Searched == searchAt \in {"search", "found", "notFound", "broken"}

\* The blocks below lo were mined by the time, and block hi was not, unless it
\* is out of the range; a range that is no range has not been searched.
Bracket ==
    /\ IF first <= last + 1 THEN lo <= hi ELSE lo = 0 /\ hi < 0
    /\ hi <= last - first + 1
    /\ lo > 0 => first + lo - 1 <= head /\ time[first + lo - 1] <= minedBy
    /\ first <= last /\ hi < last - first + 1 =>
          first + hi <= head /\ time[first + hi] > minedBy

\* `result' is the first block that was probed with the timestamp of the last
\* one that was early enough.
ResultIsRight ==
    IF lo = 0 THEN result = NoBlock
    ELSE /\ result \in first..(first + lo - 1)
         /\ time[result] = time[first + lo - 1]

\* What the checks after the search have established.
Verdict ==
    /\ searchAt \in {"found", "notFound", "broken"} => lo >= hi
    /\ searchAt = "found" => result # NoBlock /\ result = first + lo - 1
    /\ searchAt = "notFound" => result = NoBlock
    /\ searchAt = "broken" => result # NoBlock /\ result # first + lo - 1

\* The inductive invariant of the search.
SearchInv ==
    /\ SearchTypeOK /\ Monotonic
    /\ Searched => Bracket /\ ResultIsRight /\ Verdict

-----------------------------------------------------------------------------

\* sort.Search() probes between its bounds.
LEMMA ProbedIsBetween ==
    ASSUME lo \in Nat, hi \in Int, lo < hi
    PROVE  Probed \in Nat /\ lo <= Probed /\ Probed < hi
BY DEF Probed

\* LastBlockBy() has not been called.
LEMMA InitSearchInv == SearchInit => SearchInv
<1> SUFFICES ASSUME SearchInit PROVE SearchInv
    OBVIOUS
<1>1. SearchTypeOK /\ Monotonic
    BY DEF SearchInit, SearchTypeOK, Monotonic, NoBlock
<1>2. ~Searched
    BY DEF SearchInit, Searched
<1> QED BY <1>1, <1>2 DEF SearchInv

\* Types, and that timestamps do not decrease, are kept by every step.
LEMMA NextSearchTypeOK ==
    ASSUME SearchInv, SearchNext
    PROVE  SearchTypeOK' /\ Monotonic'
<1> USE SearchAssumption DEF SearchInv, SearchTypeOK, Monotonic, Returned, NoBlock
<1>1. CASE Mine
    <2>1. PICK t \in time[head]..MaxTime :
              time' = [n \in 0..head+1 |-> IF n = head + 1 THEN t ELSE time[n]]
        BY <1>1 DEF Mine
    <2>2. head' = head + 1 /\ UNCHANGED <<searchAt, minedBy, first, last, lo, hi, result>>
        BY <1>1 DEF Mine, callVars
    <2>3. t \in Nat /\ \A n \in 0..head : time[n] <= t
        BY <2>1
    <2>4. time' \in [0..head' -> Nat]
        BY <2>1, <2>2, <2>3
    <2>5. Monotonic'
        BY <2>1, <2>2, <2>3
    <2> QED BY <2>2, <2>4, <2>5
<1>2. CASE CallWithHint
    BY <1>2 DEF CallWithHint, Search
<1>3. CASE CallToLatest
    BY <1>3 DEF CallToLatest, Search
<1>4. CASE CallFails \/ ProbeFails \/ SearchReturn
    BY <1>4 DEF CallFails, ProbeFails, SearchReturn, callVars
<1>5. CASE Probe
    <2>1. lo < hi /\ UNCHANGED <<head, time, searchAt, minedBy, first, last>>
        BY <1>5 DEF Probe
    <2>2. Probed \in Nat /\ lo <= Probed /\ Probed < hi
        BY <2>1, ProbedIsBetween
    <2>3. lo' \in Nat /\ hi' \in Int /\ result' \in Nat \cup {NoBlock}
        BY <1>5, <2>2 DEF Probe
    <2> QED BY <2>1, <2>3
<1> QED
    BY <1>1, <1>2, <1>3, <1>4, <1>5 DEF SearchNext

\* The bracket of the binary search is kept, also when the chain grows.
LEMMA NextBracket ==
    ASSUME SearchInv, SearchNext
    PROVE  Searched' => Bracket' /\ ResultIsRight' /\ Verdict'
<1> USE SearchAssumption DEF SearchInv, SearchTypeOK
<1>1. CASE Mine
    <2>1. /\ \A n \in 0..head : time'[n] = time[n]
          /\ head' = head + 1
          /\ UNCHANGED <<searchAt, minedBy, first, last, lo, hi, result>>
        BY <1>1 DEF Mine, callVars
    <2> SUFFICES ASSUME Searched PROVE Bracket' /\ ResultIsRight' /\ Verdict'
        BY <2>1 DEF Searched
    <2>2. Bracket'
        BY <2>1 DEF Bracket
    <2>3. ResultIsRight'
        BY <2>1 DEF Bracket, ResultIsRight
    <2>4. Verdict'
        BY <2>1 DEF Verdict
    <2> QED BY <2>2, <2>3, <2>4
<1>2. ASSUME NEW f \in Nat, NEW l \in Nat, NEW by \in Nat, Search(f, l, by)
      PROVE  Bracket' /\ ResultIsRight' /\ Verdict'
    BY <1>2 DEF Search, Bracket, ResultIsRight, Verdict, NoBlock
<1>3. CASE CallWithHint \/ CallToLatest
    <2>1. \E f \in Nat, l \in Nat, by \in Nat : Search(f, l, by)
        BY <1>3 DEF CallWithHint, CallToLatest
    <2> QED BY <2>1, <1>2
<1>4. CASE CallFails \/ ProbeFails
    BY <1>4 DEF CallFails, ProbeFails, Searched
<1>5. CASE SearchReturn
    <2>1. /\ searchAt = "search" /\ lo >= hi
          /\ UNCHANGED <<head, time, minedBy, first, last, lo, hi, result>>
          /\ searchAt' = CASE result = NoBlock -> "notFound"
                           [] result # NoBlock /\ result # first + lo - 1 -> "broken"
                           [] OTHER -> "found"
        BY <1>5 DEF SearchReturn, callVars
    <2>2. Bracket /\ ResultIsRight
        BY <2>1 DEF Searched
    <2>3. Bracket' /\ ResultIsRight'
        BY <2>1, <2>2 DEF Bracket, ResultIsRight
    <2>4. Verdict'
        BY <2>1 DEF Verdict
    <2> QED BY <2>3, <2>4
<1>6. CASE Probe
    <2> DEFINE n == first + Probed
    <2>1. /\ searchAt = "search" /\ lo < hi /\ n <= head
          /\ UNCHANGED <<head, time, searchAt, minedBy, first, last>>
        BY <1>6 DEF Probe
    <2>2. Probed \in Nat /\ lo <= Probed /\ Probed < hi
        BY <2>1, ProbedIsBetween
    <2>3. Bracket /\ ResultIsRight
        BY <2>1 DEF Searched
    <2>4. first <= last /\ n \in 0..head
        BY <2>1, <2>2, <2>3 DEF Bracket
    <2>5. Verdict'
        BY <2>1 DEF Verdict
    <2>6. CASE /\ time[n] <= minedBy
               /\ result' = IF result = NoBlock \/ time[result] < time[n] THEN n ELSE result
               /\ lo' = Probed + 1 /\ hi' = hi
        <3>1. Bracket'
            BY <2>1, <2>2, <2>3, <2>4, <2>6 DEF Bracket
        <3>2. ASSUME result = NoBlock \/ time[result] < time[n] PROVE ResultIsRight'
            BY <3>2, <2>1, <2>2, <2>4, <2>6 DEF ResultIsRight
        <3>3. ASSUME result # NoBlock, ~(time[result] < time[n]) PROVE ResultIsRight'
            <4>1. result \in 0..head /\ result <= n /\ result >= first /\ lo > 0
                BY <3>3, <2>1, <2>2, <2>3, <2>4 DEF Bracket, ResultIsRight
            <4>2. time[result] = time[n]
                BY <4>1, <3>3, <2>4 DEF Monotonic
            <4> QED BY <3>3, <4>1, <4>2, <2>1, <2>2, <2>4, <2>6 DEF ResultIsRight
        <3> QED BY <3>1, <3>2, <3>3, <2>5
    <2>7. CASE time[n] > minedBy /\ hi' = Probed /\ UNCHANGED <<lo, result>>
        <3>1. Bracket'
            BY <2>1, <2>2, <2>3, <2>4, <2>7 DEF Bracket
        <3>2. ResultIsRight'
            BY <2>1, <2>3, <2>7 DEF ResultIsRight
        <3> QED BY <3>1, <3>2, <2>5
    <2> QED BY <1>6, <2>6, <2>7 DEF Probe
<1> QED
    BY <1>1, <1>3, <1>4, <1>5, <1>6 DEF SearchNext

\* The invariant says what LastBlockBy() may return.
LEMMA SearchInvIsRight == SearchInv => SearchIsRight
<1> SUFFICES ASSUME SearchInv PROVE SearchIsRight
    OBVIOUS
<1> USE DEF SearchInv, SearchTypeOK
<1>1. FoundIsLast
    BY DEF Searched, Bracket, ResultIsRight, Verdict, FoundIsLast, NoBlock
<1>2. NotFoundIsTooLate
    BY DEF Searched, Bracket, ResultIsRight, Verdict, NotFoundIsTooLate, NoBlock
<1>3. BrokenOnlyByTies
    <2> SUFFICES ASSUME searchAt = "broken" PROVE ~StrictTimes
        BY DEF BrokenOnlyByTies
    <2>1. Bracket /\ ResultIsRight /\ Verdict
        BY DEF Searched
    <2> DEFINE n == first + lo - 1
    <2>2. /\ result \in first..last /\ n \in first..last /\ result < n /\ n <= head
          /\ time[result] = time[n]
        BY <2>1 DEF Bracket, ResultIsRight, Verdict
    <2>3. time[n] \in Nat
        BY <2>2
    <2> QED BY <2>2, <2>3 DEF StrictTimes
<1> QED BY <1>1, <1>2, <1>3 DEF SearchIsRight

\* LastBlockBy(): a block it returns is the last of the range mined by the
\* time, ErrBlockNotFound means that there is none, and only blocks that share
\* a timestamp break what it calls an invariant.
THEOREM SearchIsAlwaysRight == SearchSpec => []SearchIsRight
<1>1. SearchInv /\ [SearchNext]_searchVars => SearchInv'
    <2> SUFFICES ASSUME SearchInv, [SearchNext]_searchVars PROVE SearchInv'
        OBVIOUS
    <2>1. CASE SearchNext
        BY <2>1, NextSearchTypeOK, NextBracket DEF SearchInv
    <2>2. CASE UNCHANGED searchVars
        BY <2>2 DEF searchVars, SearchInv, SearchTypeOK, Monotonic, Searched, Bracket,
                    ResultIsRight, Verdict
    <2> QED BY <2>1, <2>2
<1> QED
    BY InitSearchInv, <1>1, SearchInvIsRight, PTL DEF SearchSpec

-----------------------------------------------------------------------------

(*****************************************************************************)
(* Spawner and Flipside: types and program counters are all that their       *)
(* properties need to be inductive.                                          *)
(*****************************************************************************)

\* The inductive invariant of the Spawner: what is in the map of resources was
\* returned to a caller, and what was rejected never had a container.
SpawnerInv ==
    /\ spawnAt \in [Spawns -> SpawnSteps]
    /\ container \in [Spawns -> {"none", "running", "gone"}]
    /\ resources \subseteq Spawns /\ killed \subseteq resources
    /\ resourceMu \in resources \cup {NoKill}
    /\ \A s \in resources : spawnAt[s] = "returned"
    /\ \A s \in Spawns : spawnAt[s] \in {"idle", "invalid"} => container[s] = "none"
    /\ SpawnsAreTracked

\* For any number of concurrent Spawn() and Kill(): a running container can be
\* killed by its caller unless its Spawn() is still at work or failed, and what
\* was killed is gone, in spite of the TTL and of calls to Docker that fail.
THEOREM NothingIsLeaked == SpawnerSpec => []SpawnsAreTracked
<1> USE SpawnsAssumption DEF SpawnerInv, SpawnsAreTracked, RunningIsTracked, KilledIsGone, SpawnSteps
<1>1. SpawnerInit => SpawnerInv
    BY DEF SpawnerInit
<1>2. ASSUME SpawnerInv, NEW s \in Spawns PROVE SpawnRefused(s) \/ LaunchPostgres(s) => SpawnerInv'
    BY <1>2 DEF SpawnRefused, LaunchPostgres
<1>3. ASSUME SpawnerInv, NEW s \in Spawns PROVE Connected(s) \/ ConnectFails(s) => SpawnerInv'
    BY <1>3 DEF Connected, ConnectFails
<1>4. ASSUME SpawnerInv, NEW s \in Spawns PROVE NoUUID(s) => SpawnerInv'
    BY <1>4 DEF NoUUID, PurgeOK
<1>5. ASSUME SpawnerInv, NEW s \in Spawns PROVE SpawnReturns(s) => SpawnerInv'
    BY <1>5 DEF SpawnReturns
<1>6. ASSUME SpawnerInv, NEW s \in Spawns PROVE KillStart(s) \/ KillFails(s) => SpawnerInv'
    BY <1>6 DEF KillStart, KillFails
<1>7. ASSUME SpawnerInv, NEW s \in Spawns PROVE KillOK(s) \/ TTLExpires(s) => SpawnerInv'
    BY <1>7 DEF KillOK, TTLExpires, PurgeOK
<1>8. SpawnerInv /\ UNCHANGED spawnVars => SpawnerInv'
    BY DEF spawnVars
<1>9. SpawnerInv /\ [SpawnerNext]_spawnVars => SpawnerInv'
    BY <1>2, <1>3, <1>4, <1>5, <1>6, <1>7, <1>8 DEF SpawnerNext, KillNotFound
<1> QED
    <2>1. SpawnerInv => SpawnsAreTracked
        OBVIOUS
    <2> QED BY <1>1, <1>9, <2>1, PTL DEF SpawnerSpec

-----------------------------------------------------------------------------

\* The inductive invariant of FetchQueryResults(): the pages fetched so far are
\* the first ones, and the number of pages is known once the first has arrived.
FlipInv ==
    /\ totalPages \in 0..MaxPages /\ page \in Nat /\ numPages \in Nat
    /\ runState = "none" => flipAt \in {"idle", "error"}
    /\ flipAt \in {"fetch", "done"} =>
          /\ runState = "QUERY_STATE_SUCCESS" /\ page > 0
          /\ pages = [i \in 1..page-1 |-> i]
          /\ numPages = IF page = 1 THEN 1 ELSE totalPages
          /\ page > 1 => page <= (IF totalPages = 0 THEN 1 ELSE totalPages) + 1
    /\ flipAt \in {"idle", "poll", "backoff"} => pages = <<>>
    /\ flipAt = "done" => page > numPages

\* For any number of pages FetchQueryResults() returns all of them, in order and
\* once each, and only those of a query that succeeded.
THEOREM AllPagesAreFetched == FlipSpec => []PagesAreComplete
<1> USE MaxPagesAssumption DEF FlipInv, Terminal
<1>1. FlipInit => FlipInv
    BY DEF FlipInit
<1>2. FlipInv /\ CreateQueryRun => FlipInv'
    BY DEF CreateQueryRun
<1>3. FlipInv /\ GetQueryRun => FlipInv'
    BY DEF GetQueryRun
<1>4. FlipInv /\ (BackoffEnds \/ RequestFails) => FlipInv'
    BY DEF BackoffEnds, RequestFails
<1>5. ASSUME FlipInv, GetQueryRunResults PROVE FlipInv'
    <2>1. pages' = [i \in 1..page'-1 |-> i]
      <3>1. pages = [i \in 1..page-1 |-> i] /\ page \in Nat /\ page > 0
        BY <1>5 DEF GetQueryRunResults
      <3>2. Len(pages) = page - 1 /\ pages \in Seq(Nat)
        BY <3>1
      <3>3. pages' = Append(pages, page) /\ page' = page + 1
        BY <1>5 DEF GetQueryRunResults
      <3>4. /\ pages' \in Seq(Nat) /\ Len(pages') = page
            /\ \A i \in 1..page-1 : pages'[i] = i
            /\ pages'[page] = page
        BY <3>1, <3>2, <3>3
      <3> QED BY <3>1, <3>3, <3>4
    <2> QED BY <1>5, <2>1 DEF GetQueryRunResults
<1>6. FlipInv /\ FetchReturns => FlipInv'
    BY DEF FetchReturns
<1>7. FlipInv /\ QueryEnds => FlipInv'
    BY DEF QueryEnds
<1>8. FlipInv /\ (FlipContextDone \/ UNCHANGED flipVars) => FlipInv'
    BY DEF FlipContextDone, flipVars
<1>9. FlipInv /\ [FlipNext]_flipVars => FlipInv'
    BY <1>2, <1>3, <1>4, <1>5, <1>6, <1>7, <1>8 DEF FlipNext
<1>10. FlipInv => PagesAreComplete
    BY DEF PagesAreComplete
<1> QED BY <1>1, <1>9, <1>10, PTL DEF FlipSpec

-----------------------------------------------------------------------------

(*****************************************************************************)
(* MetadataServer.  Responses are right because of what was checked when the *)
(* request was routed: the token existed at some time since it came, which   *)
(* a burning in between cannot undo, and its server keeps its definition and *)
(* its contract from the moment that it is attached.                         *)
(*****************************************************************************)

\* What handlers return as metadata.
Objects == {MetadataOf[t] : t \in TokenIDs}

\* Bodies with the data of a token.
Served == {"data", "dataThenHash"}

\* A request with its response.
Requests ==
    [at : {"idle", "check", "handle", "copy", "responded"}, prefix : Nat, kind : Kinds \cup {"none"},
     raw : RawIDs, existed : BOOLEAN, code : Nat,
     body : Served \cup {"none", "hash", "notMinted", "unsupported", "dropped", "nilError"},
     img : TokenIDs \cup {NoImage}]

\* The types of what proofs refer to.
ServerShape ==
    /\ servers \in [PathPrefixes -> ServerDefs \cup {NoServer}]
    /\ paths \in [ServerDefs -> Seq(PathPrefixes)]
    /\ contract \subseteq PathPrefixes
    /\ attaching \subseteq PathPrefixes /\ mux \subseteq PathPrefixes
    /\ minted \subseteq TokenIDs
    /\ reqs \in [Clients -> Requests]

\* What is attached, or is about to be, is registered; nothing is attached twice.
AttachedAreRegistered ==
    /\ attaching \cap mux = {}
    /\ \A p \in attaching \cup mux : servers[p] # NoServer

\* An object that has an image has that of one of its own tokens, and no animation.
FilledIn ==
    /\ image \in [Objects -> TokenIDs \cup {NoImage}]
    /\ \A o \in Objects : image[o] # NoImage => MetadataOf[image[o]] = o /\ o \notin Animated

\* What ErrorsAreObfuscated says of one request.
IsObfuscated(r) ==
    /\ r.body \in {"notMinted", "nilError", "unsupported"} <=> r.code \in {400, 404}
    /\ r.body = "hash" <=> r.code = 500
    /\ r.body \in Served <=> r.code = 200
    /\ r.body = "notMinted" => r.prefix \in contract

\* What ImagesAreOwn says of the image img in the metadata of one request.
IsOwn(r, img) ==
    LET o == MetadataOf[TokenOf(r.raw)]
    IN \/ img \in TokenIDs /\ MetadataOf[img] = o /\ o \notin Animated
       \/ img = NoImage /\ (o \in Animated \/ servers[r.prefix] \notin ImageServers)

\* What has to be known of a request: a token that exists when it is checked is
\* recorded, and what was checked stays known until the response.
GoodRequest(r) ==
    /\ r \in Requests
    /\ r.at # "idle" => r.prefix \in mux
    /\ r.at # "responded" => r.body = "none"
    /\ r.at = "check" /\ TokenOf(r.raw) \in minted => r.existed
    /\ r.at \in {"handle", "copy"} \/ r.body \in Served =>
          /\ r.raw \in -1..IDs-1
          /\ r.prefix \in contract => r.existed
    /\ (r.at = "copy" \/ r.body \in Served) /\ r.kind = "Metadata" => IsOwn(r, r.img)
    /\ r.at = "responded" => IsObfuscated(r)

\* All requests are good.
RequestsAreGood == \A c \in Clients : GoodRequest(reqs[c])

\* The inductive invariant of the server.
ERC721Inv ==
    ServerShape /\ AttachedAreRegistered /\ FilledIn /\ RequestsAreGood /\ PathsArePrefixed

\* It says what the property says.
LEMMA InvServesOnlyMinted == ERC721Inv => ServesOnlyMinted
<1> SUFFICES ASSUME ERC721Inv PROVE ServesOnlyMinted
    OBVIOUS
<1>1. HandlesOnlyMinted
    BY DEF ERC721Inv, RequestsAreGood, GoodRequest, HandlesOnlyMinted, Served
<1>2. ErrorsAreObfuscated
    BY DEF ERC721Inv, RequestsAreGood, GoodRequest, IsObfuscated, ErrorsAreObfuscated, Served
<1>3. ImagesAreOwn
    BY DEF ERC721Inv, RequestsAreGood, GoodRequest, IsOwn, ImagesAreOwn, Served
<1> QED BY <1>1, <1>2, <1>3 DEF ERC721Inv, ServesOnlyMinted

\* Every raw ID stands for a token.
LEMMA TokenOfRaw == \A raw \in RawIDs : TokenOf(raw) \in TokenIDs
BY ERC721Assumption DEF TokenOf, RawIDs, TokenIDs

\* The first of the prefixes that match is one of them.
LEMMA FirstIsMember ==
    ASSUME NEW S \in SUBSET Nat, S # {} PROVE First(S) \in S
<1>1. PICK n \in S : \A m \in S : ~(<<m, n>> \in OpToRel(<, Nat))
    BY NatLessThanWellFounded, WFMin
<1>2. \A m \in S : ~(m < n)
    BY <1>1 DEF OpToRel
<1>3. \A m \in S : n <= m
    BY <1>2
<1> QED BY <1>3 DEF First

\* A client that is not asking is a good one.
LEMMA NoRequestIsGood ==
    NoRequest \in Requests /\ NoRequest.at = "idle" /\ NoRequest.body = "none" /\ GoodRequest(NoRequest)
<1>1. NoRequest \in Requests /\ NoRequest.at = "idle" /\ NoRequest.body = "none"
    BY ERC721Assumption DEF NoRequest, Requests, RawIDs, TokenIDs
<1> QED BY <1>1 DEF GoodRequest, Served

\* No server is registered at first, and nobody has asked.
LEMMA InitERC721Inv == ServerInit721 => ERC721Inv
<1> SUFFICES ASSUME ServerInit721 PROVE ERC721Inv
    OBVIOUS
<1>1. FilledIn
    BY DEF ServerInit721, Objects, FilledIn
<1>2. servers \in [PathPrefixes -> ServerDefs \cup {NoServer}] /\ reqs \in [Clients -> Requests]
    BY NoRequestIsGood DEF ServerInit721
<1>3. paths \in [ServerDefs -> Seq(PathPrefixes)]
    BY DEF ServerInit721
<1>4. ServerShape /\ AttachedAreRegistered
    BY <1>2, <1>3 DEF ServerShape, AttachedAreRegistered, ServerInit721
<1>5. RequestsAreGood
    BY NoRequestIsGood DEF RequestsAreGood, ServerInit721
<1>6. PathsArePrefixed
    BY ERC721Assumption DEF PathsArePrefixed, ServerInit721
<1> QED BY <1>1, <1>4, <1>5, <1>6 DEF ERC721Inv

\* A good request stays one when attached servers keep what they have and no
\* token is minted.
LEMMA GoodStays ==
    ASSUME NEW r, GoodRequest(r), mux \subseteq mux', minted' \subseteq minted,
           \A p \in mux : servers'[p] = servers[p] /\ (p \in contract' <=> p \in contract)
    PROVE  GoodRequest(r)'
<1>1. r.at \in {"idle", "check", "handle", "copy", "responded"}
    BY DEF GoodRequest, Requests
<1>2. CASE r.at = "idle"
    BY <1>2 DEF GoodRequest, Served
<1>3. CASE r.at # "idle"
    <2>1. r.prefix \in mux
        BY <1>3 DEF GoodRequest
    <2>2. IsOwn(r, r.img) => IsOwn(r, r.img)'
        BY <2>1 DEF IsOwn
    <2>3. IsObfuscated(r) => IsObfuscated(r)'
        BY <2>1 DEF IsObfuscated
    <2> QED BY <2>1, <2>2, <2>3 DEF GoodRequest
<1> QED BY <1>2, <1>3

\* A step that leaves the requests alone.
LEMMA RequestsStay ==
    ASSUME RequestsAreGood, reqs' = reqs, mux \subseteq mux', minted' \subseteq minted,
           \A p \in mux : servers'[p] = servers[p] /\ (p \in contract' <=> p \in contract)
    PROVE  RequestsAreGood'
<1>1. ASSUME NEW c \in Clients PROVE GoodRequest(reqs[c])'
    <2>1. PICK r : r = reqs[c]
        OBVIOUS
    <2>2. GoodRequest(r)'
        BY <2>1, GoodStays DEF RequestsAreGood
    <2>3. r = reqs'[c]
        BY <2>1
    <2> QED BY <2>2, <2>3 DEF GoodRequest, IsOwn, IsObfuscated
<1> QED BY <1>1 DEF RequestsAreGood

\* registerServer() puts the prefix in front of the paths.
LEMMA RegisterKeepsInv ==
    ASSUME ERC721Inv, NEW p \in PathPrefixes, NEW d \in ServerDefs, registerServer(p, d)
    PROVE  ERC721Inv'
<1> USE DEF ERC721Inv
<1>1. /\ UNCHANGED <<contract, attaching, mux, minted, image, reqs>>
      /\ paths' = [paths EXCEPT ![d] = <<p>> \o paths[d]]
      /\ servers[p] = NoServer
      /\ servers' = [servers EXCEPT ![p] = d]
    BY DEF registerServer
<1>2. paths[d] \in Seq(PathPrefixes)
    BY DEF ServerShape
<1>3. PICK ps : ps = <<p>> \o paths[d]
    OBVIOUS
<1>4. /\ ps \in Seq(PathPrefixes)
      /\ DOMAIN ps = 1..(1 + Len(paths[d]))
      /\ ps[1] = p
      /\ \A i \in DOMAIN paths[d] : i + 1 \in DOMAIN ps /\ ps[i + 1] = paths[d][i]
      /\ \A i \in DOMAIN ps : i # 1 => i - 1 \in DOMAIN paths[d] /\ ps[i] = paths[d][i - 1]
    BY <1>2, <1>3
<1>5. /\ paths' = [paths EXCEPT ![d] = ps]
      /\ \A e \in ServerDefs : paths'[e] = IF e = d THEN ps ELSE paths[e]
      /\ \A r \in PathPrefixes : servers'[r] = IF r = p THEN d ELSE servers[r]
    BY <1>1, <1>3 DEF ServerShape
<1>6. ServerShape'
    BY <1>1, <1>4, <1>5 DEF ServerShape
<1>7. AttachedAreRegistered'
    BY <1>1, <1>5, ERC721Assumption DEF AttachedAreRegistered, ServerShape
<1>8. FilledIn' /\ RequestsAreGood'
    <2>1. \A r \in mux : servers'[r] = servers[r]
        BY <1>1, <1>5 DEF AttachedAreRegistered, ServerShape
    <2> QED BY <1>1, <2>1, RequestsStay DEF FilledIn
<1>9. PathsArePrefixed'
    <2>1. \A e \in ServerDefs : ~ \E i \in DOMAIN paths[e] : paths[e][i] = p
        BY <1>1, ERC721Assumption DEF PathsArePrefixed
    <2>2. ASSUME NEW i \in DOMAIN ps, NEW j \in DOMAIN ps, ps[i] = ps[j] PROVE i = j
        <3>1. CASE i = 1 /\ j # 1
            BY <1>4, <2>1, <2>2, <3>1
        <3>2. CASE i # 1 /\ j = 1
            BY <1>4, <2>1, <2>2, <3>2
        <3>3. CASE i # 1 /\ j # 1
            <4>1. /\ i - 1 \in DOMAIN paths[d] /\ j - 1 \in DOMAIN paths[d]
                  /\ paths[d][i - 1] = paths[d][j - 1]
                BY <1>4, <2>2, <3>3
            <4>2. i - 1 = j - 1
                BY <4>1 DEF PathsArePrefixed
            <4> QED BY <1>2, <1>4, <4>2
        <3> QED BY <3>1, <3>2, <3>3
    <2>3. ASSUME NEW r \in PathPrefixes
          PROVE  servers'[r] = d <=> \E i \in DOMAIN ps : ps[i] = r
        <3>1. CASE r = p
            <4>1. 1 \in DOMAIN ps
                BY <1>2, <1>4
            <4> QED BY <1>4, <1>5, <3>1, <4>1
        <3>2. CASE r # p
            <4>1. servers'[r] = d <=> \E i \in DOMAIN paths[d] : paths[d][i] = r
                BY <1>5, <3>2 DEF PathsArePrefixed
            <4>2. (\E i \in DOMAIN paths[d] : paths[d][i] = r) <=> \E i \in DOMAIN ps : ps[i] = r
                BY <1>4, <3>2
            <4> QED BY <4>1, <4>2
        <3> QED BY <3>1, <3>2
    <2>4. ASSUME NEW e \in ServerDefs, e # d, NEW r \in PathPrefixes
          PROVE  servers'[r] = e <=> \E i \in DOMAIN paths[e] : paths[e][i] = r
        BY <1>5, <2>1, <2>4 DEF PathsArePrefixed
    <2>5. ASSUME NEW e \in ServerDefs
          PROVE  /\ \A i, j \in DOMAIN paths'[e] : paths'[e][i] = paths'[e][j] => i = j
                 /\ \A r \in PathPrefixes : servers'[r] = e <=> \E i \in DOMAIN paths'[e] : paths'[e][i] = r
        <3>1. CASE e = d
            BY <1>5, <2>2, <2>3, <3>1
        <3>2. CASE e # d
            BY <1>5, <2>4, <3>2 DEF PathsArePrefixed
        <3> QED BY <3>1, <3>2
    <2> QED BY <2>5 DEF PathsArePrefixed
<1> QED BY <1>6, <1>7, <1>8, <1>9

\* AttachServers() and its iterations do not touch a contract that requests
\* have reached.
LEMMA AttachKeepsInv ==
    ASSUME ERC721Inv, AttachServers \/ \E o \in {"none", "bound", "notERC721", "failed"} : AttachNext(o)
    PROVE  ERC721Inv'
<1> USE DEF ERC721Inv
<1>1. UNCHANGED <<servers, paths, minted, image, reqs>>
    BY DEF AttachServers, AttachNext
<1>2. /\ attaching' \subseteq PathPrefixes /\ mux' \subseteq PathPrefixes /\ mux \subseteq mux'
      /\ contract' \subseteq PathPrefixes
      /\ attaching' \cap mux' = {}
      /\ \A p \in attaching' \cup mux' : servers[p] # NoServer
      /\ \A p \in mux : p \in contract' <=> p \in contract
    <2>1. CASE AttachServers
        BY <2>1 DEF AttachServers, ServerShape, AttachedAreRegistered
    <2>2. CASE \E o \in {"none", "bound", "notERC721", "failed"} : AttachNext(o)
        <3>1. PICK o \in {"none", "bound", "notERC721", "failed"} : AttachNext(o)
            BY <2>2
        <3>2. attaching # {} /\ attaching \in SUBSET Nat
            BY <3>1, ERC721Assumption DEF AttachNext, ServerShape
        <3>3. PICK p : p = First(attaching)
            OBVIOUS
        <3>4. p \in attaching
            BY <3>2, <3>3, FirstIsMember
        <3>5. /\ contract' \in {contract, contract \cup {p}}
              /\ \/ attaching' = attaching \ {p} /\ mux' = mux \cup {p}
                 \/ attaching' = {} /\ mux' = mux
            BY <3>1, <3>3 DEF AttachNext
        <3> QED BY <3>4, <3>5 DEF ServerShape, AttachedAreRegistered
    <2> QED BY <2>1, <2>2
<1>3. ServerShape' /\ AttachedAreRegistered' /\ FilledIn'
    BY <1>1, <1>2 DEF ServerShape, AttachedAreRegistered, FilledIn
<1>4. RequestsAreGood'
    BY <1>1, <1>2, RequestsStay
<1>5. PathsArePrefixed'
    BY <1>1 DEF PathsArePrefixed
<1> QED BY <1>3, <1>4, <1>5

\* The contract's tokens come and go; a request that is being checked for one
\* takes note of it.
LEMMA MintKeepsInv ==
    ASSUME ERC721Inv, NEW t \in TokenIDs, MintToken(t) \/ BurnToken(t)
    PROVE  ERC721Inv'
<1> USE DEF ERC721Inv
<1>1. /\ UNCHANGED <<servers, paths, contract, attaching, mux, image>>
      /\ minted' \subseteq TokenIDs
    BY DEF MintToken, BurnToken, registrationVars, ServerShape
<1>2. AttachedAreRegistered' /\ FilledIn' /\ PathsArePrefixed'
    BY <1>1 DEF AttachedAreRegistered, FilledIn, PathsArePrefixed
<1>3. CASE BurnToken(t)
    <2>1. reqs' = reqs /\ minted' \subseteq minted
        BY <1>3 DEF BurnToken
    <2>2. RequestsAreGood'
        BY <1>1, <2>1, RequestsStay
    <2>3. ServerShape'
        BY <1>1, <2>1 DEF ServerShape
    <2> QED BY <1>2, <2>2, <2>3
<1>4. CASE MintToken(t)
    <2>1. minted' = minted \cup {t}
        BY <1>4 DEF MintToken
    <2>2. ASSUME NEW c \in Clients PROVE reqs'[c] \in Requests /\ GoodRequest(reqs[c])'
        <3>1. PICK r : r = reqs[c]
            OBVIOUS
        <3>2. GoodRequest(r) /\ r \in Requests
            BY <3>1 DEF RequestsAreGood, GoodRequest
        <3>3. PICK s : s = reqs'[c]
            OBVIOUS
        <3>4. s = IF r.at = "check" /\ TokenOf(r.raw) = t THEN [r EXCEPT !.existed = TRUE] ELSE r
            BY <1>4, <3>1, <3>3 DEF MintToken
        <3>5. /\ s \in Requests /\ s.at = r.at /\ s.prefix = r.prefix /\ s.kind = r.kind /\ s.raw = r.raw
              /\ s.code = r.code /\ s.body = r.body /\ s.img = r.img
              /\ r.existed => s.existed
              /\ s.at = "check" /\ TokenOf(s.raw) = t => s.existed
            BY <3>2, <3>4 DEF Requests
        <3>6. IsOwn(r, r.img) => IsOwn(s, s.img)'
            BY <1>1, <3>5 DEF IsOwn
        <3>7. IsObfuscated(r) => IsObfuscated(s)'
            BY <1>1, <3>5 DEF IsObfuscated
        <3>8. GoodRequest(s)'
            BY <1>1, <2>1, <3>2, <3>5, <3>6, <3>7 DEF GoodRequest
        <3> QED BY <3>3, <3>5, <3>8 DEF GoodRequest, IsOwn, IsObfuscated
    <2>3. reqs' \in [Clients -> Requests]
        BY <1>4, <2>2 DEF MintToken
    <2> QED BY <1>1, <1>2, <2>2, <2>3 DEF ServerShape, RequestsAreGood
<1> QED BY <1>3, <1>4

\* A step that only changes one request.
LEMMA OneRequestKeepsInv ==
    ASSUME ERC721Inv, UNCHANGED <<registrationVars, minted>>,
           NEW c \in Clients, NEW r, reqs' = [reqs EXCEPT ![c] = r], GoodRequest(r), FilledIn'
    PROVE  ERC721Inv'
<1>1. UNCHANGED <<servers, paths, contract, attaching, mux, minted>>
    BY DEF registrationVars
<1>2. ServerShape' /\ AttachedAreRegistered' /\ PathsArePrefixed'
    BY <1>1 DEF ERC721Inv, ServerShape, GoodRequest, AttachedAreRegistered, PathsArePrefixed
<1>3. \A d \in Clients : reqs'[d] = IF d = c THEN r ELSE reqs[d]
    BY DEF ERC721Inv, ServerShape
<1>4. ASSUME NEW d \in Clients PROVE GoodRequest(reqs[d])'
    <2>1. PICK s : s = reqs'[d]
        OBVIOUS
    <2>2. GoodRequest(s)
        BY <1>3, <2>1 DEF ERC721Inv, RequestsAreGood
    <2>3. GoodRequest(s)'
        BY <1>1, <2>2, GoodStays
    <2> QED BY <2>1, <2>3 DEF GoodRequest, IsOwn, IsObfuscated
<1> QED BY <1>2, <1>4 DEF ERC721Inv, RequestsAreGood

\* A request is routed to an attached server, and a response is read.
LEMMA RequestKeepsInv ==
    ASSUME ERC721Inv, NEW c \in Clients,
           \/ \E p \in PathPrefixes, k \in Kinds, raw \in RawIDs : Request(c, p, k, raw)
           \/ RequestDone(c)
    PROVE  ERC721Inv'
<1>1. UNCHANGED <<registrationVars, minted, image>>
    BY DEF Request, RequestDone
<1>2. FilledIn'
    BY <1>1 DEF ERC721Inv, FilledIn
<1>3. CASE RequestDone(c)
    <2>1. reqs' = [reqs EXCEPT ![c] = NoRequest]
        BY <1>3 DEF RequestDone
    <2> QED BY <1>1, <1>2, <2>1, NoRequestIsGood, OneRequestKeepsInv
<1>4. ASSUME NEW p \in PathPrefixes, NEW k \in Kinds, NEW raw \in RawIDs, Request(c, p, k, raw)
      PROVE  ERC721Inv'
    <2>1. PICK e \in BOOLEAN : (e <=> TokenOf(raw) \in minted) /\ e = (TokenOf(raw) \in minted)
        <3>1. CASE TokenOf(raw) \in minted
            BY <3>1
        <3>2. CASE TokenOf(raw) \notin minted
            <4>1. (FALSE <=> TokenOf(raw) \in minted) /\ FALSE = (TokenOf(raw) \in minted)
                BY <3>2
            <4>2. FALSE \in BOOLEAN
                OBVIOUS
            <4> QED BY <4>1, <4>2, Zenon
        <3> QED BY <3>1, <3>2
    <2>2. PICK r : r = [NoRequest EXCEPT !.at = "check", !.prefix = p, !.kind = k, !.raw = raw, !.existed = e]
        OBVIOUS
    <2>3. p \in mux /\ reqs' = [reqs EXCEPT ![c] = r]
        BY <1>4, <2>1, <2>2 DEF Request
    <2>4. r \in Requests /\ r.at = "check" /\ r.prefix = p /\ r.body = "none" /\ r.raw = raw /\ r.existed = e
        BY <2>2, NoRequestIsGood, ERC721Assumption DEF Requests, NoRequest
    <2>5. GoodRequest(r)
        BY <2>1, <2>3, <2>4 DEF GoodRequest, Served
    <2> QED BY <1>1, <1>2, <2>3, <2>5, OneRequestKeepsInv
<1> QED BY <1>3, <1>4

\* What can be responded, and with which codes.
Responses ==
    {<<400, "unsupported">>, <<404, "notMinted">>, <<404, "nilError">>, <<500, "hash">>,
     <<200, "data">>, <<200, "dataThenHash">>, <<0, "dropped">>}

\* A request after Respond().
Response(r, code, body) == [r EXCEPT !.at = "responded", !.code = code, !.body = body]

\* A response is right when it tells what the client may know: data has been
\* handled, and only a contract denies a token.
LEMMA ResponseIsGood ==
    ASSUME NEW r, GoodRequest(r), r.at \in {"check", "handle", "copy"},
           NEW code, NEW body, <<code, body>> \in Responses,
           body = "notMinted" => r.prefix \in contract,
           body \in Served => r.at = "copy"
    PROVE  GoodRequest(Response(r, code, body))
<1>1. PICK s : s = Response(r, code, body)
    OBVIOUS
<1>2. r \in Requests /\ r.prefix \in mux
    BY DEF GoodRequest
<1>3. /\ code \in Nat
      /\ body \in Served \cup {"none", "hash", "notMinted", "unsupported", "dropped", "nilError"}
      /\ body \in {"notMinted", "nilError", "unsupported"} <=> code \in {400, 404}
      /\ body = "hash" <=> code = 500
      /\ body \in Served <=> code = 200
    BY DEF Responses, Served
<1>4. r = [at |-> r.at, prefix |-> r.prefix, kind |-> r.kind, raw |-> r.raw, existed |-> r.existed,
           code |-> r.code, body |-> r.body, img |-> r.img]
    BY <1>2 DEF Requests
<1>5. s = [at |-> "responded", prefix |-> r.prefix, kind |-> r.kind, raw |-> r.raw, existed |-> r.existed,
           code |-> code, body |-> body, img |-> r.img]
    BY <1>1, <1>4 DEF Response
<1>6. s \in Requests
    BY <1>2, <1>3, <1>5 DEF Requests
<1>7. IsOwn(r, r.img) => IsOwn(s, s.img)
    BY <1>5 DEF IsOwn
<1>8. IsObfuscated(s)
    BY <1>3, <1>5 DEF IsObfuscated
<1>9. GoodRequest(s)
    BY <1>2, <1>5, <1>6, <1>7, <1>8 DEF GoodRequest
<1> QED BY <1>1, <1>9

\* So every step that responds keeps the invariant.
LEMMA RespondKeepsInv ==
    ASSUME ERC721Inv, NEW c \in Clients, reqs[c].at \in {"check", "handle", "copy"},
           UNCHANGED <<registrationVars, minted, image>>,
           NEW code, NEW body, <<code, body>> \in Responses, Respond(c, code, body),
           body = "notMinted" => reqs[c].prefix \in contract,
           body \in Served => reqs[c].at = "copy"
    PROVE  ERC721Inv'
<1>1. PICK r : r = reqs[c]
    OBVIOUS
<1>2. GoodRequest(r) /\ reqs \in [Clients -> Requests] /\ FilledIn'
    BY <1>1 DEF ERC721Inv, RequestsAreGood, ServerShape, FilledIn
<1>3. GoodRequest(Response(r, code, body))
    BY <1>1, <1>2, ResponseIsGood
<1>4. reqs' = [reqs EXCEPT ![c] = Response(r, code, body)]
    BY <1>1, <1>2 DEF Respond, Response
<1> QED BY <1>2, <1>3, <1>4, OneRequestKeepsInv

\* tokenID() lets through only IDs in range, of tokens that have existed.
LEMMA TokenIDKeepsInv ==
    ASSUME ERC721Inv, NEW c \in Clients, tokenID(c)
    PROVE  ERC721Inv'
<1>1. PICK r : r = reqs[c]
    OBVIOUS
<1>2. GoodRequest(r) /\ r.at = "check" /\ reqs \in [Clients -> Requests] /\ r \in Requests
    BY <1>1 DEF ERC721Inv, RequestsAreGood, tokenID, ServerShape, GoodRequest
<1>3. UNCHANGED <<registrationVars, minted, image>> /\ FilledIn'
    BY DEF tokenID, ERC721Inv, FilledIn
<1>4. \/ Respond(c, 500, "hash")
      \/ r.prefix \in contract /\ Respond(c, 404, "notMinted")
      \/ /\ r.raw # BadID /\ ~Overflows(r.raw) /\ (r.prefix \notin contract \/ TokenOf(r.raw) \in minted)
         /\ reqs' = [reqs EXCEPT ![c] = [r EXCEPT !.at = "handle"]]
    BY <1>1, <1>2 DEF tokenID
<1>5. CASE Respond(c, 500, "hash")
    <2>1. <<500, "hash">> \in Responses /\ "hash" \notin Served /\ "hash" # "notMinted"
        BY DEF Responses, Served
    <2> QED BY <1>1, <1>2, <1>3, <1>5, <2>1, RespondKeepsInv
<1>6. CASE r.prefix \in contract /\ Respond(c, 404, "notMinted")
    <2>1. <<404, "notMinted">> \in Responses /\ "notMinted" \notin Served
        BY DEF Responses, Served
    <2> QED BY <1>1, <1>2, <1>3, <1>6, <2>1, RespondKeepsInv
<1>7. CASE /\ r.raw # BadID /\ ~Overflows(r.raw) /\ (r.prefix \notin contract \/ TokenOf(r.raw) \in minted)
           /\ reqs' = [reqs EXCEPT ![c] = [r EXCEPT !.at = "handle"]]
    <2>1. r.raw \in RawIDs /\ r.body = "none"
        BY <1>2 DEF GoodRequest, Requests
    <2>2. r.raw \in -1..IDs-1
        BY <1>7, <2>1, ERC721Assumption DEF RawIDs, BadID, Overflows
    <2>3. PICK s : s = [r EXCEPT !.at = "handle"]
        OBVIOUS
    <2>4. /\ s \in Requests /\ s.at = "handle" /\ s.prefix = r.prefix /\ s.raw = r.raw
          /\ s.body = "none" /\ s.existed = r.existed
        BY <1>2, <2>1, <2>3 DEF Requests
    <2>5. r.prefix \in mux /\ (r.prefix \in contract => r.existed)
        BY <1>2, <1>7 DEF GoodRequest
    <2>6. GoodRequest(s)
        BY <2>2, <2>4, <2>5 DEF GoodRequest, Served
    <2> QED BY <1>3, <1>7, <2>3, <2>6, OneRequestKeepsInv
<1> QED BY <1>4, <1>5, <1>6, <1>7

\* An image goes to be copied as it is, and metadata with an image of its own.
LEMMA CopyingIsGood ==
    ASSUME NEW r, GoodRequest(r), r.at = "handle", NEW i \in TokenIDs \cup {NoImage},
           r.kind = "Metadata" => IsOwn(r, i)
    PROVE  GoodRequest([r EXCEPT !.at = "copy", !.img = i])
<1>1. PICK s : s = [r EXCEPT !.at = "copy", !.img = i]
    OBVIOUS
<1>2. r \in Requests /\ r.prefix \in mux /\ r.body = "none" /\ r.raw \in -1..IDs-1
      /\ (r.prefix \in contract => r.existed)
    BY DEF GoodRequest
<1>3. r = [at |-> r.at, prefix |-> r.prefix, kind |-> r.kind, raw |-> r.raw, existed |-> r.existed,
           code |-> r.code, body |-> r.body, img |-> r.img]
    BY <1>2 DEF Requests
<1>4. s = [at |-> "copy", prefix |-> r.prefix, kind |-> r.kind, raw |-> r.raw, existed |-> r.existed,
           code |-> r.code, body |-> r.body, img |-> i]
    BY <1>1, <1>3
<1>5. s \in Requests
    BY <1>2, <1>4 DEF Requests
<1>6. IsOwn(r, i) => IsOwn(s, s.img)
    BY <1>4 DEF IsOwn
<1>7. GoodRequest(s)
    BY <1>2, <1>4, <1>5, <1>6 DEF GoodRequest, Served
<1> QED BY <1>1, <1>7

\* metadata() fills in the Image of an object only for a token of that object.
LEMMA MetadataKeepsInv ==
    ASSUME ERC721Inv, NEW c \in Clients, MetadataHandled(c)
    PROVE  ERC721Inv'
<1>1. PICK r : r = reqs[c]
    OBVIOUS
<1>2. /\ GoodRequest(r) /\ r.at = "handle" /\ r.kind = "Metadata"
      /\ r \in Requests /\ reqs \in [Clients -> Requests]
      /\ FilledIn
    BY <1>1 DEF ERC721Inv, RequestsAreGood, ServerShape, GoodRequest, MetadataHandled
<1>3. PICK t : t = TokenOf(r.raw)
    OBVIOUS
<1>4. t \in TokenIDs
    BY <1>2, <1>3, TokenOfRaw DEF Requests
<1>5. PICK o : o = MetadataOf[t]
    OBVIOUS
<1>6. o \in Objects
    BY <1>4, <1>5 DEF Objects
<1>7. UNCHANGED <<registrationVars, minted>>
    BY DEF MetadataHandled
<1>8. PICK fill \in BOOLEAN :
          fill <=> image[o] = NoImage /\ servers[r.prefix] \in ImageServers /\ o \notin Animated
    OBVIOUS
<1>9. /\ image' = [image EXCEPT ![o] = IF fill THEN t ELSE image[o]]
      /\ reqs' = [reqs EXCEPT ![c] = [r EXCEPT !.at = "copy", !.img = image'[o]]]
    BY <1>1, <1>2, <1>3, <1>5, <1>8 DEF MetadataHandled
<1>10. PICK i : i = image'[o]
    OBVIOUS
<1>11. i = IF fill THEN t ELSE image[o]
    BY <1>2, <1>6, <1>9, <1>10 DEF FilledIn
<1>12. i \in TokenIDs \cup {NoImage} /\ IsOwn(r, i)
    BY <1>2, <1>3, <1>4, <1>5, <1>6, <1>8, <1>11 DEF FilledIn, IsOwn
<1>13. FilledIn'
    <2>1. image' \in [Objects -> TokenIDs \cup {NoImage}]
        BY <1>2, <1>4, <1>6, <1>9 DEF FilledIn
    <2>2. ASSUME NEW p \in Objects, image'[p] # NoImage
          PROVE  MetadataOf[image'[p]] = p /\ p \notin Animated
        <3>1. CASE p = o /\ fill
            BY <1>5, <1>8, <1>10, <1>11, <3>1
        <3>2. CASE ~(p = o /\ fill)
            <4>1. image'[p] = image[p]
                BY <1>2, <1>6, <1>9, <3>2 DEF FilledIn
            <4> QED BY <1>2, <2>2, <4>1 DEF FilledIn
        <3> QED BY <3>1, <3>2
    <2> QED BY <2>1, <2>2 DEF FilledIn
<1>14. GoodRequest([r EXCEPT !.at = "copy", !.img = i])
    BY <1>2, <1>12, CopyingIsGood
<1>15. reqs' = [reqs EXCEPT ![c] = [r EXCEPT !.at = "copy", !.img = i]]
    BY <1>9, <1>10
<1> QED BY <1>7, <1>13, <1>14, <1>15, OneRequestKeepsInv

\* Everything else that answers a request, or copies an image.
LEMMA HandlerKeepsInv ==
    ASSUME ERC721Inv, NEW c \in Clients,
           \/ UnsupportedMethod(c) \/ HandlerFails(c) \/ MetadataNil(c)
           \/ \E code \in {200, 302, 404, 500} : ImageHandled(c, code)
           \/ Copied(c) \/ CopyFails(c)
    PROVE  ERC721Inv'
<1>1. PICK r : r = reqs[c]
    OBVIOUS
<1>2. UNCHANGED <<registrationVars, minted, image>> /\ FilledIn'
    BY DEF UnsupportedMethod, HandlerFails, MetadataNil, ImageHandled, Copied, CopyFails, ERC721Inv, FilledIn
<1>3. \/ /\ reqs[c].at \in {"check", "handle", "copy"}
         /\ \E rs \in Responses :
               /\ Respond(c, rs[1], rs[2]) /\ rs[2] # "notMinted"
               /\ rs[2] \in Served => reqs[c].at = "copy"
      \/ reqs[c].at = "handle" /\ reqs[c].kind = "Image" /\ reqs' = [reqs EXCEPT ![c].at = "copy"]
    <2>1. CASE UnsupportedMethod(c)
        BY <2>1 DEF UnsupportedMethod, Responses, Served
    <2>2. CASE HandlerFails(c) \/ MetadataNil(c)
        BY <2>2 DEF HandlerFails, MetadataNil, Responses, Served
    <2>3. CASE \E code \in {200, 302, 404, 500} : ImageHandled(c, code)
        BY <2>3 DEF ImageHandled, Responses, Served
    <2>4. CASE Copied(c) \/ CopyFails(c)
        BY <2>4 DEF Copied, CopyFails, Responses, Served
    <2> QED BY <2>1, <2>2, <2>3, <2>4
<1>4. ASSUME reqs[c].at \in {"check", "handle", "copy"}, NEW rs \in Responses,
             Respond(c, rs[1], rs[2]), rs[2] # "notMinted", rs[2] \in Served => reqs[c].at = "copy"
      PROVE  ERC721Inv'
    <2>1. <<rs[1], rs[2]>> \in Responses
        BY <1>4 DEF Responses
    <2> QED BY <1>2, <1>4, <2>1, RespondKeepsInv
<1>5. ASSUME reqs[c].at = "handle", reqs[c].kind = "Image", reqs' = [reqs EXCEPT ![c].at = "copy"]
      PROVE  ERC721Inv'
    <2>1. GoodRequest(r) /\ r \in Requests /\ reqs \in [Clients -> Requests]
        BY <1>1 DEF ERC721Inv, RequestsAreGood, ServerShape, GoodRequest
    <2>2. r.img \in TokenIDs \cup {NoImage} /\ r.at = "handle" /\ r.kind = "Image"
        BY <1>1, <1>5, <2>1 DEF Requests
    <2>3. GoodRequest([r EXCEPT !.at = "copy", !.img = r.img])
        BY <2>1, <2>2, CopyingIsGood
    <2>4. [r EXCEPT !.at = "copy", !.img = r.img] = [r EXCEPT !.at = "copy"]
        BY <2>1 DEF Requests
    <2>5. reqs' = [reqs EXCEPT ![c] = [r EXCEPT !.at = "copy", !.img = r.img]]
        BY <1>1, <1>5, <2>4
    <2> QED BY <1>2, <2>3, <2>5, OneRequestKeepsInv
<1> QED BY <1>3, <1>4, <1>5

\* Every step keeps the invariant.
LEMMA NextERC721Inv == ERC721Inv /\ [ERC721Next]_erc721Vars => ERC721Inv'
<1>1. ASSUME ERC721Inv, UNCHANGED erc721Vars PROVE ERC721Inv'
    <2>1. UNCHANGED <<servers, paths, contract, attaching, mux, minted, image, reqs>>
        BY <1>1 DEF erc721Vars, registrationVars
    <2>2. ServerShape' /\ AttachedAreRegistered' /\ FilledIn' /\ PathsArePrefixed'
        BY <1>1, <2>1 DEF ERC721Inv, ServerShape, AttachedAreRegistered, FilledIn, PathsArePrefixed
    <2>3. RequestsAreGood'
        BY <1>1, <2>1, RequestsStay DEF ERC721Inv
    <2> QED BY <2>2, <2>3 DEF ERC721Inv
<1> QED
    BY <1>1, RegisterKeepsInv, AttachKeepsInv, MintKeepsInv, RequestKeepsInv, TokenIDKeepsInv,
       HandlerKeepsInv, MetadataKeepsInv DEF ERC721Next

\* For any servers, tokens and concurrent clients, whenever tokens are minted or
\* burned: the handlers of a server with a contract are asked only for tokens
\* that existed while the request was checked, metadata has the image of its own
\* token or of one that shares its object, unless it is animated or there are no
\* images, messages come with 400 and 404 only and hashes with 500 unless data
\* was sent before, and paths have each prefix of their server once.
THEOREM OnlyMintedIsServed == ERC721Spec => []ServesOnlyMinted
BY InitERC721Inv, NextERC721Inv, InvServesOnlyMinted, PTL DEF ERC721Spec

=============================================================================
