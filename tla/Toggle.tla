------------------------------- MODULE Toggle -------------------------------
(***************************************************************************)
(* go/sync/toggle.go: a boolean that goroutines can wait on.  The Toggle   *)
(* is a mutex, the last value given to Set, and a channel with a one-item  *)
(* buffer: Set(true) puts an item into the channel, Set(false) takes it    *)
(* out, and Wait takes the item and immediately puts it back.              *)
(*                                                                         *)
(* Every goroutine may call Wait, Set and Close, one call after another.   *)
(* The steps of a call are the places where it can block or be preempted   *)
(* with an effect visible to the others: locking the mutex, a channel      *)
(* operation, close().  A short critical section that cannot block is one  *)
(* step.  A panic (send on a closed channel, close of a closed channel)    *)
(* ends the process.                                                       *)
(***************************************************************************)
EXTENDS Naturals, FiniteSets

CONSTANTS
    Goroutines,   \* the goroutines that share the Toggle
    NoOne         \* not a goroutine

ASSUME NoOneAssumption == NoOne \notin Goroutines

VARIABLES
    mu,        \* Toggle.mu: the goroutine that holds it, or NoOne
    state,     \* Toggle.state
    buf,       \* the number of items in the buffer of Toggle.signal
    closed,    \* whether Toggle.signal is closed
    pc,        \* where each goroutine is; after a Wait(), what it returned
    done,      \* the goroutines that are in a Wait() whose ctx is done
    panicked   \* the goroutine whose panic ended the process, or NoOne

vars == <<mu, state, buf, closed, pc, done, panicked>>

\* make(chan struct{}, 1)
SignalCap == 1

WaitPCs == {"wait.sigChan", "wait.select", "wait.return"}
SetPCs == {"set.true", "set.false", "set.send", "set.recv"}
ClosePCs == {"close.sigChan", "close.close"}

\* Outside of any call; the last three right after a Wait() that returned nil,
\* ctx.Err() or ErrToggleClosed.
RestPCs == {"idle", "nil", "ctxErr", "ErrToggleClosed"}

PCs == RestPCs \cup WaitPCs \cup SetPCs \cup ClosePCs

TypeOK ==
    /\ mu \in Goroutines \cup {NoOne}
    /\ state \in BOOLEAN
    /\ buf \in 0..SignalCap
    /\ closed \in BOOLEAN
    /\ pc \in [Goroutines -> PCs]
    /\ done \subseteq Goroutines
    /\ panicked \in Goroutines \cup {NoOne}

Init ==
    /\ mu = NoOne
    /\ state = FALSE
    /\ buf = 0
    /\ closed = FALSE
    /\ pc = [g \in Goroutines |-> "idle"]
    /\ done = {}
    /\ panicked = NoOne

-----------------------------------------------------------------------------

\* The process is still running and g goes from one point to another.
Goto(g, from, to) ==
    /\ panicked = NoOne
    /\ pc[g] = from
    /\ pc' = [pc EXCEPT ![g] = to]

\* The process is still running and g begins a call.
Call(g, to) ==
    /\ panicked = NoOne
    /\ pc[g] \in RestPCs
    /\ pc' = [pc EXCEPT ![g] = to]

\* g returns from Wait() with the given result; its Context is forgotten.
WaitResult(g, from, result) ==
    /\ Goto(g, from, result)
    /\ done' = done \ {g}

\* The process is still running and g panics where it is.
Panic(g, at) ==
    /\ panicked = NoOne
    /\ pc[g] = at
    /\ panicked' = g
    /\ UNCHANGED pc

(***************************************************************************)
(* Wait(ctx).  The Context may be done already when Wait is called, or be  *)
(* cancelled while it waits.                                               *)
(***************************************************************************)
WaitCall(g) ==
    /\ Call(g, "wait.sigChan")
    /\ done' \in {done, done \cup {g}}
    /\ UNCHANGED <<mu, state, buf, closed, panicked>>

CtxDone(g) ==
    /\ panicked = NoOne
    /\ pc[g] \in WaitPCs
    /\ g \notin done
    /\ done' = done \cup {g}
    /\ UNCHANGED <<mu, state, buf, closed, pc, panicked>>

\* ch := t.sigChan(), which locks and unlocks the mutex.
WaitSigChan(g) ==
    /\ Goto(g, "wait.sigChan", "wait.select")
    /\ mu = NoOne
    /\ UNCHANGED <<mu, state, buf, closed, done, panicked>>

\* case <-ctx.Done()
WaitCtxErr(g) ==
    /\ WaitResult(g, "wait.select", "ctxErr")
    /\ g \in done
    /\ UNCHANGED <<mu, state, buf, closed, panicked>>

\* case x, ok := <-ch with ok: a buffered item is received even if the channel
\* has been closed since.
WaitRecv(g) ==
    /\ Goto(g, "wait.select", "wait.return")
    /\ buf > 0
    /\ buf' = buf - 1
    /\ UNCHANGED <<mu, state, closed, done, panicked>>

\* Mutant of WaitRecvClosed: the missing check of ok.
WaitRecvClosedNoOk(g) ==
    /\ Goto(g, "wait.select", "wait.return")
    /\ buf = 0
    /\ closed
    /\ UNCHANGED <<mu, state, buf, closed, done, panicked>>

\* case x, ok := <-ch with !ok
WaitRecvClosed(g) ==
    /\ WaitResult(g, "wait.select", "ErrToggleClosed")
    /\ buf = 0
    /\ closed
    /\ UNCHANGED <<mu, state, buf, closed, panicked>>

\* Mutant of WaitReturn: the item is not put back if ctx is done by now.
WaitReturnUnlessDone(g) ==
    /\ WaitResult(g, "wait.return", IF g \in done THEN "ctxErr" ELSE "nil")
    /\ ~closed
    /\ buf < SignalCap
    /\ buf' = IF g \in done THEN buf ELSE buf + 1
    /\ UNCHANGED <<mu, state, closed, panicked>>

\* ch <- x; return nil
WaitReturn(g) ==
    /\ WaitResult(g, "wait.return", "nil")
    /\ ~closed
    /\ buf < SignalCap
    /\ buf' = buf + 1
    /\ UNCHANGED <<mu, state, closed, panicked>>

\* ch <- x on a closed channel
WaitReturnPanic(g) ==
    /\ Panic(g, "wait.return")
    /\ closed
    /\ UNCHANGED <<mu, state, buf, closed, done>>

(***************************************************************************)
(* Set(b).  Its doc leaves calls on a closed Toggle undefined, so none is  *)
(* made; a call made before may still meet a Close on its way.             *)
(***************************************************************************)
SetCall(g) ==
    /\ ~closed
    /\ \E to \in {"set.true", "set.false"} : Call(g, to)
    /\ UNCHANGED <<mu, state, buf, closed, done, panicked>>

\* if state == t.state { return }, with the mutex locked around it.
SetSame(g) ==
    /\ Goto(g, IF state THEN "set.true" ELSE "set.false", "idle")
    /\ mu = NoOne
    /\ UNCHANGED <<mu, state, buf, closed, done, panicked>>

\* Mutant of SetStore: Set() is not idempotent.
SetStoreAlways(g) ==
    /\ \/ Goto(g, "set.true", "set.send") /\ state' = TRUE
       \/ Goto(g, "set.false", "set.recv") /\ state' = FALSE
    /\ mu = NoOne
    /\ mu' = g
    /\ UNCHANGED <<buf, closed, done, panicked>>

\* t.state = state, on the way to the channel operation, the mutex locked.
SetStore(g) ==
    /\ \/ ~state /\ Goto(g, "set.true", "set.send")
       \/ state /\ Goto(g, "set.false", "set.recv")
    /\ mu = NoOne
    /\ mu' = g
    /\ state' = ~state
    /\ UNCHANGED <<buf, closed, done, panicked>>

\* ch <- struct{}{}
SetSend(g) ==
    /\ Goto(g, "set.send", "idle")
    /\ ~closed
    /\ buf < SignalCap
    /\ buf' = buf + 1
    /\ mu' = NoOne
    /\ UNCHANGED <<state, closed, done, panicked>>

\* ch <- struct{}{} on a closed channel; the deferred Unlock still runs.
SetSendPanic(g) ==
    /\ Panic(g, "set.send")
    /\ closed
    /\ mu' = NoOne
    /\ UNCHANGED <<state, buf, closed, done>>

\* <-ch, which returns at once from a closed and empty channel.
SetRecv(g) ==
    /\ Goto(g, "set.recv", "idle")
    /\ buf > 0 \/ closed
    /\ buf' = IF buf > 0 THEN buf - 1 ELSE buf
    /\ mu' = NoOne
    /\ UNCHANGED <<state, closed, done, panicked>>

(***************************************************************************)
(* Close().  The mutex protects only the creation of the channel, not its  *)
(* closing.                                                                *)
(***************************************************************************)
CloseCall(g) ==
    /\ Call(g, "close.sigChan")
    /\ UNCHANGED <<mu, state, buf, closed, done, panicked>>

CloseSigChan(g) ==
    /\ Goto(g, "close.sigChan", "close.close")
    /\ mu = NoOne
    /\ UNCHANGED <<mu, state, buf, closed, done, panicked>>

CloseClose(g) ==
    /\ Goto(g, "close.close", "idle")
    /\ ~closed
    /\ closed' = TRUE
    /\ UNCHANGED <<mu, state, buf, done, panicked>>

ClosePanic(g) ==
    /\ Panic(g, "close.close")
    /\ closed
    /\ UNCHANGED <<mu, state, buf, closed, done>>

-----------------------------------------------------------------------------

Wait(g) ==
    \/ WaitSigChan(g) \/ WaitCtxErr(g) \/ WaitRecv(g) \/ WaitRecvClosed(g)
    \/ WaitReturn(g) \/ WaitReturnPanic(g)

Set(g) ==
    SetSame(g) \/ SetStore(g) \/ SetSend(g) \/ SetSendPanic(g) \/ SetRecv(g)

Close(g) ==
    CloseSigChan(g) \/ CloseClose(g) \/ ClosePanic(g)

\* The process has ended.
Ended == panicked # NoOne /\ UNCHANGED vars

Next ==
    \/ \E g \in Goroutines :
         \/ WaitCall(g) \/ CtxDone(g) \/ Wait(g)
         \/ SetCall(g) \/ Set(g)
         \/ CloseCall(g) \/ Close(g)
    \/ Ended

Spec == Init /\ [][Next]_vars

(***************************************************************************)
(* The Go runtime runs every goroutine that can run.  Goroutines blocked   *)
(* on a channel are queued and served first come, first served, and a      *)
(* sync.Mutex in starvation mode is handed to the longest waiter: an       *)
(* operation that is enabled again and again is eventually done.  Nobody   *)
(* has to call anything, nor has a Context to be cancelled.                *)
(***************************************************************************)
Fairness ==
    \A g \in Goroutines :
        /\ SF_vars(Wait(g))
        /\ SF_vars(Set(g))
        /\ SF_vars(Close(g))

FairSpec == Spec /\ Fairness

-----------------------------------------------------------------------------

\* The goroutines that have taken the item out and not yet put it back.
Holders == {g \in Goroutines : pc[g] = "wait.return"}

\* Whether an item exists, in the buffer or in the hands of a Wait().
HasItem == buf > 0 \/ Holders # {}

\* The value that Set() had established before the one in progress, if any.
Settled ==
    IF mu # NoOne /\ pc[mu] \in {"set.send", "set.recv"} THEN ~state ELSE state

(***************************************************************************)
(* Until the Toggle is closed there is one item if it is on and none if it *)
(* is off, wherever the item is and however Wait()s and Set()s interleave; *)
(* a Set() takes effect with its channel operation.  In particular no item *)
(* is lost or doubled and `ch <- x` in Wait() always finds the buffer      *)
(* empty, so that it never blocks.                                         *)
(***************************************************************************)
ItemConserved ==
    ~closed => /\ HasItem <=> Settled
               /\ buf > 0 => Holders = {}
               /\ \A g, h \in Holders : g = h

\* The mutex is held exactly by a Set() that is at its channel operation, with
\* the new state stored.
LockInv ==
    panicked = NoOne => \A g \in Goroutines :
        /\ mu = g <=> pc[g] \in {"set.send", "set.recv"}
        /\ pc[g] = "set.send" => state
        /\ pc[g] = "set.recv" => ~state

(***************************************************************************)
(* Wait() lets a goroutine pass only if the Toggle is on, or a Set(false)  *)
(* is still in progress, or it has been closed.                            *)
(***************************************************************************)
PassOnlyWhenOn ==
    [][\A g \in Goroutines :
          pc[g] = "wait.select" /\ pc'[g] = "wait.return" =>
              closed \/ state \/ \E h \in Goroutines : pc[h] = "set.recv"]_vars

\* Closed without an item, and without a Set(true) on its way.
ClosedOff ==
    /\ closed
    /\ ~HasItem
    /\ \A g \in Goroutines : pc[g] \notin {"set.true", "set.send"}

(***************************************************************************)
(* A Toggle that is off when it is closed keeps the promise of Close():    *)
(* from then on no Wait() passes and none panics; only another Close()     *)
(* can.                                                                    *)
(***************************************************************************)
ClosedOffStays ==
    [][ClosedOff => /\ ClosedOff'
                    /\ panicked' # NoOne => pc[panicked'] = "close.close"]_vars

SetReturns ==
    \A g \in Goroutines :
        pc[g] \in SetPCs ~> (pc[g] \in RestPCs \/ panicked # NoOne)

WaitReturns ==
    <>[](state \/ closed) =>
        \A g \in Goroutines :
            pc[g] \in WaitPCs ~> (pc[g] \in RestPCs \/ panicked # NoOne)

(***************************************************************************)
(* Every Set() returns, although Set(false) has to wait, with the mutex    *)
(* locked, for the item that a Wait() may be holding, and others may be    *)
(* queueing for the same item.  If the Toggle stays on, or is closed,      *)
(* every Wait() returns, current or future.                                *)
(***************************************************************************)
CallsReturn == SetReturns /\ WaitReturns

(***************************************************************************)
(* The doc of Close(): "All Wait()ers, current and future, unblock and     *)
(* return ErrToggleClosed."  No Wait() may therefore panic.                *)
(***************************************************************************)
WaitersUnblockOnClose ==
    panicked # NoOne => pc[panicked] \notin WaitPCs

(***************************************************************************)
(* Seen from outside, the Toggle is a Gate that is on while an item        *)
(* exists: taking the item and putting it back is one atomic pass.         *)
(***************************************************************************)
GateStatus ==
    [g \in Goroutines |->
        CASE pc[g] \in {"wait.sigChan", "wait.select"} -> "waiting"
          [] pc[g] \in {"wait.return", "nil"} -> "passed"
          [] pc[g] = "ctxErr" -> "gaveUp"
          [] pc[g] = "ErrToggleClosed" -> "refused"
          [] OTHER -> "out"]

G == INSTANCE Gate WITH on <- HasItem, shut <- closed, status <- GateStatus

\* Wait, Set and Close implement the Gate.
ImplementsGate == G!GateSpec

=============================================================================
