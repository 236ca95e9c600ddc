--------------------------- MODULE ContractProofs ---------------------------
(*****************************************************************************)
(* Proofs about four components around the contracts: the loop that triggers *)
(* callbacks (EntropyTrigger), the migrations of a proxy (Migrations), the   *)
(* coverage collector (Coverage), and the server that signs the blocks of    *)
(* the entropy oracle (EntropyServer).                                       *)
(*****************************************************************************)
EXTENDS EntropyTrigger, Migrations, Coverage, EntropyServer, FoldTheorems

-----------------------------------------------------------------------------

(*****************************************************************************)
(* EntropyTrigger.  The invariant has to cover the states that the EVM goes  *)
(* back to: a callback that a loop has noted as successful must be accepted  *)
(* still when any of the calls around it is undone.                          *)
(*****************************************************************************)

\* A state that the EVM may have to go back to: NoneLost holds in it too.
States ==
    {s \in [callbacks : Seq(LoopCallbacks), consumed : [LoopCallbacks -> Nat]] :
        /\ IsInjective(s.callbacks)
        /\ \A c \in LoopCallbacks : s.consumed[c] = 0 => c \in ToSet(s.callbacks)}

\* A running _triggerCallbacks() with its local variables, and the states that
\* the EVM goes back to when it reverts.
Frames ==
    [n : Nat, i : Nat, successful : Seq(LoopCallbacks), called : Seq(LoopCallbacks),
     calling : LoopCallbacks \cup {NoCallback}, atStart : States, atCall : States]

\* The types, and which frames are waiting for a consumer to return.
TriggerShape ==
    /\ reentrant \subseteq LoopCallbacks
    /\ State \in States
    /\ stack \in Seq(Frames)
    /\ \A k \in DOMAIN stack : k > 1 => stack[k].calling # NoCallback

\* What loop f has noted as successful was accepted, as of these consumers.
Accepted(f, consumers) == \A c \in ToSet(f.successful) : consumers[c] # 0

\* And is so still if the loop's call, or any call inside of it, is undone.
SuccessIsAccepted ==
    \A k \in DOMAIN stack :
        /\ Accepted(stack[k], consumed)
        /\ \A j \in 1..k :
             /\ stack[j].calling # NoCallback => Accepted(stack[k], stack[j].atCall.consumed)
             /\ j < k => Accepted(stack[k], stack[j].atStart.consumed)

\* A loop without re-entrant consumers.
Undisturbed(f) ==
    /\ callbacks = f.atStart.callbacks
    /\ f.i <= f.n /\ f.n <= Len(callbacks)
    /\ f.calling # NoCallback => f.i < f.n /\ f.calling = callbacks[f.i + 1] /\ f.atCall = State
    /\ Len(f.called) = f.i + (IF f.calling = NoCallback THEN 0 ELSE 1)
    /\ \A j \in DOMAIN f.called : f.called[j] = callbacks[j]
    /\ \A c \in ToSet(f.successful) : \E j \in 1..f.i : c = callbacks[j]
    /\ consumed = [c \in LoopCallbacks |->
                      f.atStart.consumed[c] + (IF c \in ToSet(f.successful) THEN 1 ELSE 0)]

\* Without re-entrant consumers there is one loop at most, and nothing disturbs
\* it.
LoopsUndisturbed ==
    reentrant = {} => Len(stack) <= 1 /\ \A k \in DOMAIN stack : Undisturbed(stack[k])

\* The inductive invariant of the loop.
TriggerInv == TriggerShape /\ SuccessIsAccepted /\ LoopsUndisturbed

-----------------------------------------------------------------------------

\* The callbacks of a block as EnumerableSet keeps them: a list without
\* duplicates.
CallbackLists == {s \in Seq(LoopCallbacks) : IsInjective(s)}

\* EnumerableSet.remove() removes one element and keeps the others.
LEMMA SwapRemoveRemoves ==
    ASSUME NEW s \in CallbackLists, NEW c
    PROVE  SwapRemove(s, c) \in CallbackLists /\ ToSet(SwapRemove(s, c)) = ToSet(s) \ {c}
<1>0. s \in Seq(LoopCallbacks) /\ IsInjective(s) /\ DOMAIN s = 1..Len(s) /\ Len(s) \in Nat
    BY DEF CallbackLists
<1>1. CASE c \notin ToSet(s)
    BY <1>1 DEF SwapRemove
<1>2. CASE c \in ToSet(s)
    <2> DEFINE k == CHOOSE k \in DOMAIN s : s[k] = c
               m == Len(s)
               e == [s EXCEPT ![k] = s[m]]
               r == SubSeq(e, 1, m - 1)
    <2>1. k \in 1..m /\ s[k] = c
        <3>1. \E j \in DOMAIN s : s[j] = c
            BY <1>2 DEF ToSet
        <3> QED BY <1>0, <3>1
    <2>2. SwapRemove(s, c) = r
        BY <1>2 DEF SwapRemove, Front, Last
    <2> HIDE DEF k
    <2>3. e \in Seq(LoopCallbacks) /\ Len(e) = m /\ \A i \in 1..m : e[i] = IF i = k THEN s[m] ELSE s[i]
        BY <1>0, <2>1
    <2> HIDE DEF e
    <2>4. r \in Seq(LoopCallbacks) /\ Len(r) = m - 1 /\ \A i \in 1..(m - 1) : r[i] = e[i]
        BY <1>0, <2>1, <2>3
    <2> HIDE DEF r
    <2>5. DOMAIN r = 1..(m - 1)
        BY <2>4
    <2>6. \A i \in 1..(m - 1) : r[i] = IF i = k THEN s[m] ELSE s[i]
        BY <2>3, <2>4
    <2>7. \A i, j \in 1..m : s[i] = s[j] => i = j
        BY <1>0 DEF IsInjective
    <2>8. IsInjective(r)
        BY <1>0, <2>1, <2>5, <2>6, <2>7 DEF IsInjective
    <2>9. ASSUME NEW x PROVE x \in ToSet(r) <=> x \in ToSet(s) /\ x # c
        <3>1. ASSUME NEW i \in 1..(m - 1), x = r[i] PROVE x \in ToSet(s) /\ x # c
            BY <1>0, <2>1, <2>6, <2>7, <3>1 DEF ToSet
        <3>2. ASSUME NEW i \in 1..m, x = s[i], x # c PROVE x \in ToSet(r)
            <4>1. CASE i = m
                BY <1>0, <2>1, <2>5, <2>6, <3>2, <4>1 DEF ToSet
            <4>2. CASE i # m
                <5>1. i \in 1..(m - 1) /\ i # k
                    <6>1. m \in Nat /\ i \in 1..m
                        BY <1>0
                    <6>2. i # k
                        BY <2>1, <3>2
                    <6> HIDE DEF m
                    <6> QED BY <4>2, <6>1, <6>2
                <5>2. r[i] = x
                    BY <2>6, <3>2, <5>1
                <5> QED BY <2>5, <5>1, <5>2 DEF ToSet
            <4> QED BY <4>1, <4>2
        <3> QED BY <1>0, <2>5, <3>1, <3>2 DEF ToSet
    <2>10. ToSet(r) = ToSet(s) \ {c}
        BY <2>9
    <2> QED BY <2>2, <2>4, <2>8, <2>10 DEF CallbackLists
<1> QED BY <1>1, <1>2

\* What FoldLeft(SwapRemove, s, cs) is defined by.
IsRemoval(s, cs, h) ==
    h = [t \in SUBSET DOMAIN cs |->
            IF t = {} THEN s ELSE SwapRemove(h[t \ {Max(t)}], cs[Max(t)])]

\* The recursive function by which the successful callbacks are removed exists.
LEMMA RemovalExists ==
    ASSUME NEW s \in CallbackLists, NEW cs \in Seq(LoopCallbacks)
    PROVE  \E h : IsRemoval(s, cs, h)
<1> DEFINE o == [i \in 1..Len(cs) |-> [v \in CallbackLists |-> SwapRemove(v, cs[i])]]
<1>1. o \in [1..Len(cs) -> [CallbackLists -> CallbackLists]]
    BY SwapRemoveRemoves
<1>2. Len(cs) \in Nat /\ DOMAIN cs = 1..Len(cs)
    OBVIOUS
<1>3. PICK h \in [SUBSET (1..Len(cs)) -> CallbackLists] : IsFoldLeft(Len(cs), s, o, h)
    <2> HIDE DEF o
    <2> QED BY <1>1, <1>2, FoldLeftExists
<1>4. ASSUME NEW t \in SUBSET (1..Len(cs))
      PROVE  h[t] = IF t = {} THEN s ELSE SwapRemove(h[t \ {Max(t)}], cs[Max(t)])
    <2>1. h[t] = IF t = {} THEN s ELSE o[Max(t)][h[t \ {Max(t)}]]
        BY <1>3 DEF IsFoldLeft
    <2>2. t # {} => Max(t) \in 1..Len(cs)
        <3>1. t \in SUBSET (0..Len(cs))
            BY <1>2
        <3> QED BY <1>2, <3>1, MaxOfBounded
    <2>3. h[t \ {Max(t)}] \in CallbackLists
        OBVIOUS
    <2> QED BY <2>1, <2>2, <2>3
<1>5. IsRemoval(s, cs, h)
    BY <1>2, <1>3, <1>4 DEF IsRemoval
<1> QED BY <1>5

\* The end of _triggerCallbacks() removes exactly the successful callbacks.
LEMMA RemoveAll ==
    ASSUME NEW s \in CallbackLists, NEW cs \in Seq(LoopCallbacks)
    PROVE  /\ FoldLeft(SwapRemove, s, cs) \in CallbackLists
           /\ ToSet(FoldLeft(SwapRemove, s, cs)) = ToSet(s) \ ToSet(cs)
<1> DEFINE h == CHOOSE h : IsRemoval(s, cs, h)
           m == Len(cs)
           T == {k \in Nat : k <= m => /\ h[1..k] \in CallbackLists
                                       /\ ToSet(h[1..k]) = ToSet(s) \ {cs[i] : i \in 1..k}}
<1>1. FoldLeft(SwapRemove, s, cs) = h[DOMAIN cs]
    BY DEF FoldLeft, MapThenFoldSet, IsRemoval
<1>2. IsRemoval(s, cs, h)
    <2> HIDE DEF IsRemoval
    <2> QED BY RemovalExists
<1>3. m \in Nat /\ DOMAIN cs = 1..m
    OBVIOUS
<1>4. \A t \in SUBSET (1..m) :
          h[t] = IF t = {} THEN s ELSE SwapRemove(h[t \ {Max(t)}], cs[Max(t)])
    <2> HIDE DEF h
    <2> QED BY <1>2, <1>3 DEF IsRemoval
<1> HIDE DEF h
<1>5. 0 \in T
    <2>1. 1..0 = {}
        OBVIOUS
    <2>2. h[{}] = s
        BY <1>4
    <2> QED BY <2>1, <2>2
<1>6. ASSUME NEW k \in T PROVE k + 1 \in T
    <2>1. k \in Nat /\ k + 1 \in Nat /\ k + 1 # 0
        OBVIOUS
    <2> SUFFICES ASSUME k + 1 <= m
                 PROVE  /\ h[1..(k + 1)] \in CallbackLists
                        /\ ToSet(h[1..(k + 1)]) = ToSet(s) \ {cs[i] : i \in 1..(k + 1)}
        BY <2>1
    <2>2. /\ Max(1..(k + 1)) = k + 1 /\ (1..(k + 1)) \ {Max(1..(k + 1))} = 1..k
          /\ 1..(k + 1) # {}
        <3>1. (k + 1) - 1 = k
            BY <2>1
        <3> QED BY <2>1, <3>1, MaxOfInterval
    <2>3. h[1..(k + 1)] = SwapRemove(h[1..k], cs[k + 1])
        <3>1. 1..(k + 1) \in SUBSET (1..m)
            BY <2>1, <1>3
        <3>2. h[1..(k + 1)] = SwapRemove(h[(1..(k + 1)) \ {Max(1..(k + 1))}], cs[Max(1..(k + 1))])
            BY <1>4, <2>2, <3>1
        <3> QED BY <2>2, <3>2
    <2>4. h[1..k] \in CallbackLists /\ ToSet(h[1..k]) = ToSet(s) \ {cs[i] : i \in 1..k}
        BY <2>1, <1>3
    <2>5. /\ h[1..(k + 1)] \in CallbackLists
          /\ ToSet(h[1..(k + 1)]) = ToSet(h[1..k]) \ {cs[k + 1]}
        BY <2>3, <2>4, SwapRemoveRemoves
    <2>6. {cs[i] : i \in 1..(k + 1)} = {cs[i] : i \in 1..k} \cup {cs[k + 1]}
        BY <2>1
    <2> QED BY <2>4, <2>5, <2>6
<1>7. \A k \in Nat : k \in T
    <2> HIDE DEF T
    <2>1. T \in SUBSET Nat
        BY DEF T
    <2> QED BY <1>5, <1>6, <2>1, SetInduction
<1>8. m \in T
    BY <1>3, <1>7
<1>9. h[1..m] \in CallbackLists /\ ToSet(h[1..m]) = ToSet(s) \ {cs[i] : i \in 1..m}
    BY <1>3, <1>8
<1> QED BY <1>1, <1>3, <1>9 DEF ToSet

-----------------------------------------------------------------------------

\* The callbacks are registered in some order, all of them.
LEMMA InitTriggerInv == TriggerInit => TriggerInv
<1> SUFFICES ASSUME TriggerInit PROVE TriggerInv
    OBVIOUS
<1> DEFINE N == Cardinality(LoopCallbacks)
<1>1. N \in Nat /\ IsFiniteSet(LoopCallbacks)
    BY EntropyTriggerAssumption, FS_CardinalityType
<1>2. /\ callbacks \in [1..N -> LoopCallbacks]
      /\ \A i, j \in 1..N : callbacks[i] = callbacks[j] => i = j
    BY DEF TriggerInit, SetToSeqs
<1>3. callbacks \in Seq(LoopCallbacks) /\ IsInjective(callbacks)
    BY <1>1, <1>2 DEF IsInjective
<1>4. ASSUME NEW c \in LoopCallbacks, c \notin ToSet(callbacks) PROVE FALSE
    <2> DEFINE R == LoopCallbacks \ {c}
    <2>1. IsFiniteSet(R) /\ Cardinality(R) = N - 1
        BY <1>1, FS_RemoveElement
    <2>2. IsFiniteSet(1..N) /\ Cardinality(1..N) = N
        BY <1>1, FS_Interval
    <2>3. callbacks \in [1..N -> R]
        BY <1>2, <1>4 DEF ToSet
    <2>4. Cardinality(R) < Cardinality(1..N)
        BY <1>1, <2>1, <2>2
    <2>5. \E i, j \in 1..N : i # j /\ callbacks[i] = callbacks[j]
        <3> HIDE DEF R, N
        <3> QED BY <2>1, <2>2, <2>3, <2>4, FS_PigeonHole
    <2> QED BY <1>2, <2>5
<1>5. State \in States
    BY <1>3, <1>4 DEF State, States, TriggerInit
<1> QED
    BY <1>5 DEF TriggerInv, TriggerShape, SuccessIsAccepted, LoopsUndisturbed, TriggerInit

\* The innermost loop.
LEMMA TopIsFrame ==
    ASSUME TriggerInv, stack # <<>>
    PROVE  /\ Len(stack) \in Nat \ {0} /\ DOMAIN stack = 1..Len(stack)
           /\ top = stack[1] /\ top \in Frames
           /\ top.atStart \in States /\ top.atCall \in States
           /\ top.successful \in Seq(LoopCallbacks) /\ top.called \in Seq(LoopCallbacks)
           /\ top.calling \in LoopCallbacks \cup {NoCallback} /\ top.i \in Nat /\ top.n \in Nat
<1>1. stack \in Seq(Frames)
    BY DEF TriggerInv, TriggerShape
<1>2. Len(stack) \in Nat \ {0} /\ DOMAIN stack = 1..Len(stack) /\ top = stack[1] /\ top \in Frames
    <2> HIDE DEF Frames
    <2> QED BY <1>1 DEF top
<1> QED BY <1>2 DEF Frames

\* A step of the innermost loop, from `top' to f, leaves the others alone.
LEMMA TopChanges ==
    ASSUME TriggerInv, stack # <<>>, NEW f \in Frames, NEW s, s = [stack EXCEPT ![1] = f]
    PROVE  /\ s \in Seq(Frames) /\ DOMAIN s = DOMAIN stack /\ Len(s) = Len(stack)
           /\ s[1] = f /\ \A k \in DOMAIN stack : k > 1 => s[k] = stack[k]
BY DEF TriggerInv, TriggerShape

\* A loop starts, for a transaction or for a consumer.
LEMMA LoopIsFrame ==
    ASSUME TriggerInv, NEW max \in 1..Len(callbacks)
    PROVE  /\ Loop(max) \in Frames /\ Loop(max).successful = <<>> /\ Loop(max).called = <<>>
           /\ Loop(max).calling = NoCallback /\ Loop(max).i = 0
           /\ Loop(max).n <= Len(callbacks) /\ Loop(max).atStart = State
<1>1. State \in States /\ callbacks \in Seq(LoopCallbacks)
    BY DEF TriggerInv, TriggerShape, State, States
<1>2. Len(callbacks) \in Nat
    BY <1>1
<1>3. <<>> \in Seq(LoopCallbacks)
    OBVIOUS
<1> QED BY <1>1, <1>2, <1>3 DEF Loop, Frames

\* A loop starts, perhaps inside of a consumer.
LEMMA TriggerKeepsInv ==
    ASSUME TriggerInv, NEW max \in 1..Len(callbacks), Trigger(max)
    PROVE  TriggerInv'
<1>1. PICK f : f = Loop(max)
    OBVIOUS
<1>2. /\ f \in Frames /\ f.successful = <<>> /\ f.called = <<>>
      /\ f.calling = NoCallback /\ f.i = 0 /\ f.n <= Len(callbacks) /\ f.atStart = State
    BY <1>1, LoopIsFrame
<1>3. stack' = <<f>> /\ UNCHANGED <<reentrant, callbacks, consumed>>
    BY <1>1 DEF Trigger
<1>4. stack' \in Seq(Frames) /\ DOMAIN stack' = {1} /\ stack'[1] = f /\ Len(stack') = 1
    BY <1>2, <1>3
<1>5. TriggerShape'
    BY <1>3, <1>4 DEF TriggerInv, TriggerShape, State
<1>6. SuccessIsAccepted'
    BY <1>2, <1>4 DEF SuccessIsAccepted, Accepted, ToSet
<1>7. LoopsUndisturbed'
    <2>1. consumed \in [LoopCallbacks -> Nat] /\ f.n \in Nat
        BY <1>2 DEF TriggerInv, TriggerShape, State, States, Frames
    <2>2. Undisturbed(f)'
        BY <1>2, <1>3, <2>1 DEF Undisturbed, State, ToSet
    <2> QED BY <1>4, <2>2 DEF LoopsUndisturbed
<1> QED BY <1>5, <1>6, <1>7 DEF TriggerInv

\* A consumer re-enters: the new loop has accepted nothing yet.
LEMMA ReenterKeepsInv ==
    ASSUME TriggerInv, NEW max \in 1..Len(callbacks), Reenter(max)
    PROVE  TriggerInv'
<1>1. PICK f : f = Loop(max)
    OBVIOUS
<1>2. f \in Frames /\ f.successful = <<>> /\ f.calling = NoCallback /\ f.atStart = State
    BY <1>1, LoopIsFrame
<1>3. /\ stack # <<>> /\ top.calling \in reentrant
      /\ stack' = <<f>> \o stack /\ UNCHANGED <<reentrant, callbacks, consumed>>
    BY <1>1 DEF Reenter
<1>4. stack \in Seq(Frames) /\ DOMAIN stack = 1..Len(stack) /\ Len(stack) \in Nat
    BY <1>3, TopIsFrame DEF TriggerInv, TriggerShape
<1>5. /\ stack' \in Seq(Frames) /\ Len(stack') = Len(stack) + 1
      /\ DOMAIN stack' = 1..(Len(stack) + 1)
      /\ stack'[1] = f /\ \A k \in 2..(Len(stack) + 1) : stack'[k] = stack[k - 1]
    <2> HIDE DEF Frames
    <2> QED BY <1>2, <1>3, <1>4
<1>6. TriggerShape'
    <2>1. ASSUME NEW k \in DOMAIN stack', k > 1 PROVE stack'[k].calling # NoCallback
        <3>1. k - 1 \in DOMAIN stack /\ stack'[k] = stack[k - 1]
            BY <1>4, <1>5, <2>1
        <3>2. CASE k - 1 > 1
            BY <3>1, <3>2 DEF TriggerInv, TriggerShape
        <3>3. CASE k - 1 = 1
            <4>1. stack'[k] = top
                BY <1>3, <3>1, <3>3, TopIsFrame
            <4>2. top.calling \in LoopCallbacks
                BY <1>3 DEF TriggerInv, TriggerShape
            <4> QED BY <4>1, <4>2, EntropyTriggerAssumption
        <3> QED BY <2>1, <1>5, <1>4, <3>2, <3>3
    <2> QED BY <1>3, <1>5, <2>1 DEF TriggerInv, TriggerShape, State
<1>7. SuccessIsAccepted'
    <2> SUFFICES ASSUME NEW k \in DOMAIN stack', NEW j \in 1..k
                 PROVE  /\ Accepted(stack'[k], consumed')
                        /\ stack'[j].calling # NoCallback => Accepted(stack'[k], stack'[j].atCall.consumed)
                        /\ j < k => Accepted(stack'[k], stack'[j].atStart.consumed)
        <3>1. \A k \in DOMAIN stack' : k \in 1..k
            BY <1>4, <1>5
        <3> QED BY <3>1 DEF SuccessIsAccepted, Accepted
    <2>1. CASE k = 1
        BY <1>2, <1>5, <2>1 DEF Accepted, ToSet
    <2>2. CASE k # 1
        <3>1. k - 1 \in DOMAIN stack /\ stack'[k] = stack[k - 1]
            BY <1>4, <1>5, <2>2
        <3>2. Accepted(stack'[k], consumed)
            BY <3>1 DEF TriggerInv, SuccessIsAccepted
        <3>3. CASE j = 1
            <4>1. stack'[j].atStart.consumed = consumed
                BY <1>2, <1>5, <3>3 DEF State
            <4> QED BY <1>2, <1>3, <1>5, <3>2, <3>3, <4>1
        <3>4. CASE j # 1
            <4>1. j - 1 \in 1..(k - 1) /\ stack'[j] = stack[j - 1] /\ (j < k => j - 1 < k - 1)
                BY <1>4, <1>5, <3>4
            <4> QED BY <1>3, <3>1, <3>2, <4>1 DEF TriggerInv, SuccessIsAccepted
        <3> QED BY <3>3, <3>4
    <2> QED BY <2>1, <2>2
<1> QED BY <1>3, <1>6, <1>7 DEF TriggerInv, LoopsUndisturbed

\* SuccessIsAccepted after a step of the innermost loop.
LEMMA TopStepIsAccepted ==
    ASSUME TriggerInv, stack # <<>>, NEW f \in Frames, stack' = [stack EXCEPT ![1] = f],
           Accepted(f, consumed'),
           f.calling # NoCallback => Accepted(f, f.atCall.consumed),
           f.atStart = top.atStart,
           \A k \in DOMAIN stack : k > 1 =>
               /\ Accepted(stack[k], consumed')
               /\ f.calling # NoCallback => Accepted(stack[k], f.atCall.consumed)
    PROVE  SuccessIsAccepted'
<1>1. /\ stack' \in Seq(Frames) /\ DOMAIN stack' = DOMAIN stack
      /\ stack'[1] = f /\ \A k \in DOMAIN stack : k > 1 => stack'[k] = stack[k]
    BY TopChanges
<1>2. DOMAIN stack = 1..Len(stack) /\ Len(stack) \in Nat /\ top = stack[1]
    BY TopIsFrame
<1>3. ASSUME NEW k \in DOMAIN stack, NEW j \in 1..k
      PROVE  /\ Accepted(stack'[k], consumed')
             /\ stack'[j].calling # NoCallback => Accepted(stack'[k], stack'[j].atCall.consumed)
             /\ j < k => Accepted(stack'[k], stack'[j].atStart.consumed)
    <2>1. CASE k = 1
        BY <1>1, <1>2, <2>1
    <2>2. CASE k > 1 /\ j = 1
        <3>1. Accepted(stack[k], stack[1].atStart.consumed)
            BY <1>2, <2>2 DEF TriggerInv, SuccessIsAccepted
        <3> QED BY <1>1, <1>2, <2>2, <3>1
    <2>3. CASE k > 1 /\ j > 1
        <3>1. j \in DOMAIN stack
            BY <1>2
        <3>2. stack'[k] = stack[k] /\ stack'[j] = stack[j]
            BY <1>1, <2>3, <3>1
        <3>3. /\ stack[j].calling # NoCallback => Accepted(stack[k], stack[j].atCall.consumed)
              /\ j < k => Accepted(stack[k], stack[j].atStart.consumed)
            BY DEF TriggerInv, SuccessIsAccepted
        <3> QED BY <2>3, <3>2, <3>3
    <2> QED BY <1>2, <2>1, <2>2, <2>3
<1>4. \A k \in DOMAIN stack : k \in 1..k
    BY <1>2
<1> QED BY <1>1, <1>3, <1>4 DEF SuccessIsAccepted, Accepted

\* Append() adds one element.
LEMMA ToSetAppend ==
    ASSUME NEW S, NEW s \in Seq(S), NEW c \in S
    PROVE  ToSet(Append(s, c)) = ToSet(s) \cup {c}
<1>1. /\ DOMAIN s = 1..Len(s) /\ Len(s) \in Nat /\ DOMAIN Append(s, c) = 1..(Len(s) + 1)
      /\ Append(s, c)[Len(s) + 1] = c /\ \A i \in 1..Len(s) : Append(s, c)[i] = s[i]
    OBVIOUS
<1>2. 1..(Len(s) + 1) = 1..Len(s) \cup {Len(s) + 1}
    BY <1>1
<1> QED BY <1>1, <1>2 DEF ToSet

\* Reverse() keeps the elements.
LEMMA ReverseKeepsElements ==
    ASSUME NEW S, NEW s \in Seq(S)
    PROVE  Reverse(s) \in Seq(S) /\ ToSet(Reverse(s)) = ToSet(s)
<1> DEFINE n == Len(s)
<1>1. n \in Nat /\ DOMAIN s = 1..n /\ \A i \in 1..n : s[i] \in S
    OBVIOUS
<1> HIDE DEF n
<1>2. \A i \in 1..n : (n - i) + 1 \in 1..n /\ (n - ((n - i) + 1)) + 1 = i
    BY <1>1
<1>3. Reverse(s) = [i \in 1..n |-> s[(n - i) + 1]]
    BY DEF Reverse, n
<1>4. Reverse(s) \in [1..n -> S]
    BY <1>1, <1>2, <1>3
<1>5. Reverse(s) \in Seq(S)
    BY <1>1, <1>4
<1>6. ASSUME NEW i \in 1..n PROVE s[i] \in ToSet(Reverse(s)) /\ Reverse(s)[i] \in ToSet(s)
    BY <1>1, <1>2, <1>3, <1>4, <1>6 DEF ToSet
<1> QED BY <1>1, <1>4, <1>5, <1>6 DEF ToSet

\* TriggerShape after a step of the innermost loop.
LEMMA TopStepKeepsShape ==
    ASSUME TriggerInv, stack # <<>>, NEW f \in Frames, stack' = [stack EXCEPT ![1] = f],
           State' \in States, UNCHANGED reentrant
    PROVE  TriggerShape'
BY TopChanges DEF TriggerInv, TriggerShape

\* LoopsUndisturbed after a step of the innermost loop.
LEMMA TopStepUndisturbed ==
    ASSUME TriggerInv, stack # <<>>, NEW f \in Frames, stack' = [stack EXCEPT ![1] = f],
           UNCHANGED reentrant, reentrant = {} => Undisturbed(f)'
    PROVE  LoopsUndisturbed'
<1>1. /\ DOMAIN stack' = DOMAIN stack /\ Len(stack') = Len(stack) /\ stack'[1] = f
      /\ DOMAIN stack = 1..Len(stack) /\ Len(stack) \in Nat
    BY TopChanges, TopIsFrame
<1> SUFFICES ASSUME reentrant = {} PROVE Len(stack') <= 1 /\ \A k \in DOMAIN stack' : Undisturbed(stack[k])'
    BY DEF LoopsUndisturbed
<1>2. Len(stack) <= 1
    BY DEF TriggerInv, LoopsUndisturbed
<1>3. \A k \in DOMAIN stack' : k = 1
    BY <1>1, <1>2
<1> QED BY <1>1, <1>2, <1>3

\* What LoopsUndisturbed says of the innermost loop.
LEMMA TopUndisturbed ==
    ASSUME TriggerInv, stack # <<>>, reentrant = {}
    PROVE  Undisturbed(top) /\ callbacks \in Seq(LoopCallbacks) /\ IsInjective(callbacks)
BY TopIsFrame DEF TriggerInv, TriggerShape, LoopsUndisturbed, State, States

\* The loop calls the next consumer.
LEMMA CallConsumerKeepsInv ==
    ASSUME TriggerInv, CallConsumer
    PROVE  TriggerInv'
<1>1. PICK t : t = top
    OBVIOUS
<1>2. PICK c : c = callbacks[top.i + 1]
    OBVIOUS
<1>3. PICK s : s = State
    OBVIOUS
<1>4. PICK f : f = [t EXCEPT !.calling = c, !.called = Append(t.called, c), !.atCall = s]
    OBVIOUS
<1>5. /\ stack # <<>> /\ t.calling = NoCallback /\ t.i < t.n /\ t.i < Len(callbacks)
      /\ UNCHANGED <<reentrant, callbacks, consumed>>
    BY <1>1 DEF CallConsumer
<1>6. t \in Frames /\ t = stack[1] /\ 1 \in DOMAIN stack
    BY <1>1, <1>5, TopIsFrame
<1>7. stack' = [stack EXCEPT ![1] = f]
    BY <1>1, <1>2, <1>3, <1>4, <1>6 DEF CallConsumer
<1>8. s \in States /\ callbacks \in Seq(LoopCallbacks) /\ s' = State' /\ s.consumed = consumed
    BY <1>3, <1>5 DEF TriggerInv, TriggerShape, State, States
<1>9. c \in LoopCallbacks
    BY <1>1, <1>2, <1>5, <1>6, <1>8 DEF Frames
<1>10. /\ f \in Frames /\ f.calling = c /\ f.called = Append(t.called, c) /\ f.atCall = s
       /\ f.successful = t.successful /\ f.atStart = t.atStart /\ f.i = t.i /\ f.n = t.n
    <2>1. Append(t.called, c) \in Seq(LoopCallbacks)
        BY <1>6, <1>9 DEF Frames
    <2> QED BY <1>4, <1>6, <1>8, <1>9, <2>1 DEF Frames
<1>11. TriggerShape'
    BY <1>5, <1>7, <1>8, <1>10, TopStepKeepsShape
<1>12. \A k \in DOMAIN stack : Accepted(stack[k], consumed)
    BY DEF TriggerInv, SuccessIsAccepted
<1>13. Accepted(f, consumed)
    BY <1>6, <1>10, <1>12 DEF Accepted
<1>14. SuccessIsAccepted'
    BY <1>1, <1>5, <1>7, <1>8, <1>10, <1>12, <1>13, TopStepIsAccepted
<1>15. ASSUME reentrant = {} PROVE Undisturbed(f)'
    <2>1. Undisturbed(t) /\ callbacks \in Seq(LoopCallbacks)
        BY <1>1, <1>5, <1>15, TopUndisturbed
    <2>2. t.called \in Seq(LoopCallbacks) /\ t.i \in Nat
        BY <1>6 DEF Frames
    <2>3. Len(f.called) = f.i + 1 /\ \A j \in DOMAIN f.called : f.called[j] = callbacks[j]
        BY <1>1, <1>2, <1>5, <1>9, <1>10, <2>1, <2>2 DEF Undisturbed
    <2>4. c # NoCallback
        BY <1>9, EntropyTriggerAssumption
    <2> QED BY <1>1, <1>2, <1>5, <1>8, <1>10, <2>1, <2>3, <2>4 DEF Undisturbed
<1>16. LoopsUndisturbed'
    BY <1>5, <1>7, <1>10, <1>15, TopStepUndisturbed
<1> QED BY <1>11, <1>14, <1>16 DEF TriggerInv

\* A consumer accepts, and the loop may end and remove what was successful.
LEMMA ConsumerReturnsKeepsInv ==
    ASSUME TriggerInv, ConsumerReturns
    PROVE  TriggerInv'
<1>1. PICK t : t = top
    OBVIOUS
<1>2. PICK f : f = [t EXCEPT !.successful = Append(t.successful, t.calling), !.calling = NoCallback,
                           !.i = t.i + 1]
    OBVIOUS
<1>3. /\ stack # <<>> /\ t.calling # NoCallback
      /\ consumed' = [consumed EXCEPT ![t.calling] = @ + 1]
      /\ UNCHANGED <<reentrant, callbacks>>
    BY <1>1 DEF ConsumerReturns
<1>4. t \in Frames /\ t = stack[1] /\ 1 \in DOMAIN stack
    BY <1>1, <1>3, TopIsFrame
<1>5. stack' = [stack EXCEPT ![1] = f]
    BY <1>1, <1>2, <1>4 DEF ConsumerReturns
<1>6. t.calling \in LoopCallbacks /\ t.successful \in Seq(LoopCallbacks) /\ t.i \in Nat
    BY <1>3, <1>4 DEF Frames
<1>7. /\ f \in Frames /\ f.calling = NoCallback /\ f.successful = Append(t.successful, t.calling)
      /\ f.called = t.called /\ f.atStart = t.atStart /\ f.i = t.i + 1 /\ f.n = t.n
    <2>1. Append(t.successful, t.calling) \in Seq(LoopCallbacks) /\ t.i + 1 \in Nat
        BY <1>6
    <2> QED BY <1>2, <1>4, <2>1 DEF Frames
<1>8. ToSet(f.successful) = ToSet(t.successful) \cup {t.calling}
    BY <1>6, <1>7, ToSetAppend
<1>9. /\ consumed \in [LoopCallbacks -> Nat] /\ consumed' \in [LoopCallbacks -> Nat]
      /\ consumed'[t.calling] # 0
      /\ \A c \in LoopCallbacks : consumed'[c] = 0 => consumed[c] = 0
      /\ \A c \in LoopCallbacks : consumed'[c] = IF c = t.calling THEN consumed[c] + 1 ELSE consumed[c]
    BY <1>3, <1>6 DEF TriggerInv, TriggerShape, State, States
<1>10. TriggerShape'
    <2>1. State' \in States
        BY <1>3, <1>9 DEF TriggerInv, TriggerShape, State, States
    <2> QED BY <1>3, <1>5, <1>7, <2>1, TopStepKeepsShape
<1>11. SuccessIsAccepted'
    <2>1. \A k \in DOMAIN stack : Accepted(stack[k], consumed)
        BY DEF TriggerInv, SuccessIsAccepted
    <2>2. \A k \in DOMAIN stack : \A c \in ToSet(stack[k].successful) : c \in LoopCallbacks
        <3>1. \A k \in DOMAIN stack : stack[k] \in Frames
            BY <1>3, TopIsFrame DEF TriggerInv, TriggerShape
        <3>2. \A k \in DOMAIN stack : stack[k].successful \in Seq(LoopCallbacks)
            BY <3>1 DEF Frames
        <3> QED BY <3>2 DEF ToSet
    <2>3. \A k \in DOMAIN stack : Accepted(stack[k], consumed')
        BY <1>9, <2>1, <2>2 DEF Accepted
    <2>4. Accepted(f, consumed')
        BY <1>4, <1>8, <1>9, <2>3 DEF Accepted
    <2> QED BY <1>1, <1>3, <1>5, <1>7, <2>3, <2>4, TopStepIsAccepted
<1>12. ASSUME reentrant = {} PROVE Undisturbed(f)'
    <2>1. Undisturbed(t) /\ callbacks \in Seq(LoopCallbacks) /\ IsInjective(callbacks)
        BY <1>1, <1>3, <1>12, TopUndisturbed
    <2>2. t.calling = callbacks[t.i + 1] /\ t.i < t.n /\ t.n <= Len(callbacks) /\ t.n \in Nat
        BY <1>3, <1>4, <2>1 DEF Undisturbed, Frames
    <2>3. t.calling \notin ToSet(t.successful)
        <3>1. \A c \in ToSet(t.successful) : \E j \in 1..t.i : c = callbacks[j]
            BY <2>1 DEF Undisturbed
        <3>2. \A j \in 1..t.i : j \in DOMAIN callbacks /\ t.i + 1 \in DOMAIN callbacks /\ j # t.i + 1
            BY <1>6, <2>1, <2>2
        <3> QED BY <2>1, <2>2, <3>1, <3>2 DEF IsInjective
    <2>4. \A c \in ToSet(f.successful) : \E j \in 1..f.i : c = callbacks[j]
        <3>1. \A c \in ToSet(t.successful) : \E j \in 1..t.i : c = callbacks[j]
            BY <2>1 DEF Undisturbed
        <3>2. 1..f.i = 1..t.i \cup {t.i + 1}
            BY <1>6, <1>7
        <3> QED BY <1>8, <2>2, <3>1, <3>2
    <2>5. consumed' = [c \in LoopCallbacks |->
                          f.atStart.consumed[c] + (IF c \in ToSet(f.successful) THEN 1 ELSE 0)]
        <3>1. consumed = [c \in LoopCallbacks |->
                             t.atStart.consumed[c] + (IF c \in ToSet(t.successful) THEN 1 ELSE 0)]
            BY <2>1 DEF Undisturbed
        <3>2. t.atStart.consumed \in [LoopCallbacks -> Nat]
            BY <1>4 DEF Frames, States
        <3> QED BY <1>7, <1>8, <1>9, <2>3, <3>1, <3>2
    <2>6. Len(f.called) = f.i /\ \A j \in DOMAIN f.called : f.called[j] = callbacks[j]
        BY <1>3, <1>6, <1>7, <2>1 DEF Undisturbed
    <2>7. callbacks' = callbacks /\ callbacks' = f.atStart.callbacks
        BY <1>3, <1>7, <2>1 DEF Undisturbed
    <2>8. f.i <= f.n /\ f.n <= Len(callbacks')
        BY <1>6, <1>7, <2>2, <2>7
    <2>9. f.calling = NoCallback
        BY <1>7
    <2>10. Len(f.called) = f.i + (IF f.calling = NoCallback THEN 0 ELSE 1)
        BY <1>6, <1>7, <2>6, <2>9
    <2> QED BY <2>4, <2>5, <2>6, <2>7, <2>8, <2>9, <2>10 DEF Undisturbed
<1>13. LoopsUndisturbed'
    BY <1>3, <1>5, <1>7, <1>12, TopStepUndisturbed
<1> QED BY <1>10, <1>11, <1>13 DEF TriggerInv

\* A consumer reverts: all that happened in its call is undone.
LEMMA ConsumerRevertsKeepsInv ==
    ASSUME TriggerInv, ConsumerReverts
    PROVE  TriggerInv'
<1>1. PICK t : t = top
    OBVIOUS
<1>2. PICK f : f = [t EXCEPT !.calling = NoCallback, !.i = t.i + 1]
    OBVIOUS
<1>3. /\ stack # <<>> /\ t.calling # NoCallback
      /\ callbacks' = t.atCall.callbacks /\ consumed' = t.atCall.consumed /\ UNCHANGED reentrant
    BY <1>1 DEF ConsumerReverts, Restore
<1>4. t \in Frames /\ t = stack[1] /\ DOMAIN stack = 1..Len(stack) /\ Len(stack) \in Nat \ {0}
    BY <1>1, <1>3, TopIsFrame
<1>5. stack' = [stack EXCEPT ![1] = f]
    BY <1>1, <1>2, <1>4 DEF ConsumerReverts
<1>6. t.i \in Nat /\ t.atCall \in States
    BY <1>4 DEF Frames
<1>7. /\ f \in Frames /\ f.calling = NoCallback /\ f.successful = t.successful
      /\ f.called = t.called /\ f.atStart = t.atStart /\ f.i = t.i + 1 /\ f.n = t.n
    <2>1. t.i + 1 \in Nat
        BY <1>6
    <2> QED BY <1>2, <1>4, <2>1 DEF Frames
<1>8. TriggerShape'
    <2>1. State' \in States
        BY <1>3, <1>6 DEF State, States
    <2> QED BY <1>3, <1>5, <1>7, <2>1, TopStepKeepsShape
<1>9. SuccessIsAccepted'
    <2>1. \A k \in DOMAIN stack : Accepted(stack[k], consumed')
        <3>1. \A k \in DOMAIN stack : 1 \in 1..k
            BY <1>4
        <3> QED BY <1>3, <1>4, <3>1 DEF TriggerInv, SuccessIsAccepted
    <2>2. Accepted(f, consumed')
        BY <1>4, <1>7, <2>1 DEF Accepted
    <2> QED BY <1>1, <1>3, <1>5, <1>7, <2>1, <2>2, TopStepIsAccepted
<1>10. ASSUME reentrant = {} PROVE Undisturbed(f)'
    <2>1. Undisturbed(t)
        BY <1>1, <1>3, <1>10, TopUndisturbed
    <2>2. t.atCall = State /\ t.i < t.n /\ t.n \in Nat
        BY <1>3, <1>4, <2>1 DEF Undisturbed, Frames
    <2>3. UNCHANGED <<callbacks, consumed>>
        BY <1>3, <2>2 DEF State
    <2>4. \A c \in ToSet(f.successful) : \E j \in 1..f.i : c = callbacks[j]
        <3>1. \A j \in 1..t.i : j \in 1..f.i
            BY <1>6, <1>7
        <3> QED BY <1>7, <2>1, <3>1 DEF Undisturbed
    <2>5. Len(f.called) = f.i /\ \A j \in DOMAIN f.called : f.called[j] = callbacks[j]
        BY <1>3, <1>6, <1>7, <2>1 DEF Undisturbed
    <2> QED BY <1>3, <1>6, <1>7, <2>1, <2>2, <2>3, <2>4, <2>5 DEF Undisturbed
<1>11. LoopsUndisturbed'
    BY <1>3, <1>5, <1>7, <1>10, TopStepUndisturbed
<1> QED BY <1>8, <1>9, <1>11 DEF TriggerInv

\* The invariant after the innermost loop has returned or reverted.
LEMMA LoopLeavesInv ==
    ASSUME TriggerInv, stack # <<>>, stack' = Tail(stack), UNCHANGED reentrant,
           State' \in States,
           \A k \in DOMAIN stack : k > 1 => Accepted(stack[k], consumed')
    PROVE  TriggerInv'
<1>1. stack \in Seq(Frames) /\ DOMAIN stack = 1..Len(stack) /\ Len(stack) \in Nat \ {0}
    BY TopIsFrame DEF TriggerInv, TriggerShape
<1>2. /\ stack' \in Seq(Frames) /\ Len(stack') = Len(stack) - 1
      /\ DOMAIN stack' = 1..(Len(stack) - 1)
      /\ \A k \in 1..(Len(stack) - 1) : stack'[k] = stack[k + 1]
    <2> HIDE DEF Frames
    <2> QED BY <1>1
<1>3. \A k \in DOMAIN stack' : k + 1 \in DOMAIN stack /\ k + 1 > 1 /\ stack'[k] = stack[k + 1]
    BY <1>1, <1>2
<1>4. TriggerShape'
    BY <1>2, <1>3 DEF TriggerInv, TriggerShape
<1>5. SuccessIsAccepted'
    <2> SUFFICES ASSUME NEW k \in DOMAIN stack', NEW j \in 1..k
                 PROVE  /\ Accepted(stack'[k], consumed')
                        /\ stack'[j].calling # NoCallback => Accepted(stack'[k], stack'[j].atCall.consumed)
                        /\ j < k => Accepted(stack'[k], stack'[j].atStart.consumed)
        <3>1. \A k \in DOMAIN stack' : k \in 1..k
            BY <1>1, <1>2
        <3> QED BY <3>1 DEF SuccessIsAccepted, Accepted
    <2>1. j \in DOMAIN stack' /\ j + 1 \in 1..(k + 1) /\ (j < k => j + 1 < k + 1)
        BY <1>1, <1>2
    <2>2. stack'[k] = stack[k + 1] /\ stack'[j] = stack[j + 1] /\ k + 1 \in DOMAIN stack /\ k + 1 > 1
        BY <1>3, <2>1
    <2> QED BY <2>1, <2>2 DEF TriggerInv, SuccessIsAccepted
<1>6. LoopsUndisturbed'
    BY <1>1, <1>2 DEF TriggerInv, LoopsUndisturbed
<1> QED BY <1>4, <1>5, <1>6 DEF TriggerInv

\* A loop whose list got shorter below it reverts, and all that it did is
\* undone.
LEMMA IndexOutOfBoundsKeepsInv ==
    ASSUME TriggerInv, IndexOutOfBounds
    PROVE  TriggerInv'
<1>1. /\ stack # <<>> /\ stack' = Tail(stack) /\ UNCHANGED reentrant
      /\ callbacks' = top.atStart.callbacks /\ consumed' = top.atStart.consumed
    BY DEF IndexOutOfBounds, Restore
<1>2. top = stack[1] /\ top.atStart \in States /\ DOMAIN stack = 1..Len(stack)
    BY <1>1, TopIsFrame
<1>3. State' \in States
    BY <1>1, <1>2 DEF State, States
<1>4. ASSUME NEW k \in DOMAIN stack, k > 1 PROVE Accepted(stack[k], consumed')
    <2>1. 1 \in 1..k /\ 1 < k
        BY <1>2, <1>4
    <2> QED BY <1>1, <1>2, <2>1 DEF TriggerInv, SuccessIsAccepted
<1> QED BY <1>1, <1>3, <1>4, LoopLeavesInv

\* The loop ends: those it removes were accepted, so none is lost.
LEMMA FinishKeepsInv ==
    ASSUME TriggerInv, Finish
    PROVE  TriggerInv' /\ ToSet(callbacks') = ToSet(callbacks) \ ToSet(top.successful)
<1>1. /\ stack # <<>> /\ stack' = Tail(stack) /\ UNCHANGED <<reentrant, consumed>>
      /\ callbacks' = FoldLeft(SwapRemove, callbacks, Reverse(top.successful))
    BY DEF Finish
<1>2. top = stack[1] /\ 1 \in DOMAIN stack /\ top.successful \in Seq(LoopCallbacks)
    BY <1>1, TopIsFrame
<1>3. /\ Reverse(top.successful) \in Seq(LoopCallbacks)
      /\ ToSet(Reverse(top.successful)) = ToSet(top.successful)
    BY <1>2, ReverseKeepsElements
<1>4. callbacks \in CallbackLists
    BY DEF TriggerInv, TriggerShape, State, States, CallbackLists
<1>5. callbacks' \in CallbackLists /\ ToSet(callbacks') = ToSet(callbacks) \ ToSet(top.successful)
    BY <1>1, <1>3, <1>4, RemoveAll
<1>6. \A k \in DOMAIN stack : Accepted(stack[k], consumed)
    BY DEF TriggerInv, SuccessIsAccepted
<1>7. \A c \in ToSet(top.successful) : consumed[c] # 0
    BY <1>2, <1>6 DEF Accepted
<1>8. State' \in States
    BY <1>1, <1>5, <1>7 DEF TriggerInv, TriggerShape, State, States, CallbackLists
<1>9. TriggerInv'
    BY <1>1, <1>6, <1>8, LoopLeavesInv
<1> QED BY <1>5, <1>9

\* Every step keeps the invariant.
LEMMA NextTriggerInv == TriggerInv /\ [TriggerNext]_triggerVars => TriggerInv'
<1>1. ASSUME TriggerInv, UNCHANGED triggerVars PROVE TriggerInv'
    <2>1. UNCHANGED <<reentrant, callbacks, consumed, stack>>
        BY <1>1 DEF triggerVars
    <2>2. TriggerShape'
        BY <1>1, <2>1 DEF TriggerInv, TriggerShape, State
    <2>3. SuccessIsAccepted'
        BY <1>1, <2>1 DEF TriggerInv, SuccessIsAccepted
    <2>4. LoopsUndisturbed'
        <3>1. ASSUME NEW f, Undisturbed(f) PROVE Undisturbed(f)'
            BY <2>1, <3>1 DEF Undisturbed, State
        <3>2. stack' = stack /\ reentrant' = reentrant
            BY <2>1
        <3> QED BY <1>1, <3>1, <3>2 DEF TriggerInv, LoopsUndisturbed
    <2> QED BY <2>2, <2>3, <2>4 DEF TriggerInv
<1> QED
    BY <1>1, TriggerKeepsInv, ReenterKeepsInv, CallConsumerKeepsInv, ConsumerReturnsKeepsInv,
       ConsumerRevertsKeepsInv, IndexOutOfBoundsKeepsInv, FinishKeepsInv DEF TriggerNext

\* No callback is dropped that its consumer has not accepted, however deep
\* consumers re-enter _triggerCallbacks() and wherever a call is undone.
THEOREM NoCallbackIsLost == TriggerSpec => []NoneLost
<1>1. TriggerInv => NoneLost
    BY DEF TriggerInv, TriggerShape, State, States, NoneLost
<1> QED
    BY InitTriggerInv, NextTriggerInv, <1>1, PTL DEF TriggerSpec

\* Without re-entrant consumers the loop of _triggerCallbacks() calls the
\* callbacks in the order of the set, and skips none.
THEOREM LoopIsInOrder == TriggerSpec => []LoopInOrder
<1>1. ASSUME TriggerInv, reentrant = {}, NEW k \in DOMAIN stack
      PROVE  stack[k].called = SubSeq(stack[k].atStart.callbacks, 1, Len(stack[k].called))
    <2>1. PICK f : f = stack[k]
        OBVIOUS
    <2>2. Undisturbed(f) /\ f \in Frames /\ callbacks \in Seq(LoopCallbacks)
        BY <1>1, <2>1 DEF TriggerInv, TriggerShape, LoopsUndisturbed, State, States
    <2>3. f.called \in Seq(LoopCallbacks) /\ f.n \in Nat /\ f.i \in Nat
        BY <2>2 DEF Frames
    <2>4. Len(f.called) <= Len(callbacks)
        BY <2>2, <2>3 DEF Undisturbed
    <2>5. /\ SubSeq(callbacks, 1, Len(f.called)) \in Seq(LoopCallbacks)
          /\ Len(SubSeq(callbacks, 1, Len(f.called))) = Len(f.called)
          /\ \A j \in 1..Len(f.called) : SubSeq(callbacks, 1, Len(f.called))[j] = callbacks[j]
        BY <2>2, <2>3, <2>4
    <2>6. f.called = SubSeq(callbacks, 1, Len(f.called))
        BY <2>2, <2>3, <2>5, SeqEqual DEF Undisturbed
    <2> QED BY <2>1, <2>2, <2>6 DEF Undisturbed
<1>2. TriggerInv => LoopInOrder
    BY <1>1 DEF LoopInOrder
<1> QED
    BY InitTriggerInv, NextTriggerInv, <1>2, PTL DEF TriggerSpec

\* Without re-entrant consumers, all of _triggerCallbacks() is the one step
\* that EntropyOracle takes it for.
THEOREM LoopActsAtomically == TriggerSpec => ActsAtomically
<1> DEFINE Step == stack # <<>> /\ stack' = <<>> /\ reentrant = {} =>
                     LET before == top.atStart
                     IN  \E ok \in SUBSET ToSet(before.callbacks) :
                            /\ ToSet(callbacks') = ToSet(before.callbacks) \ ok
                            /\ consumed' = [c \in LoopCallbacks |->
                                  before.consumed[c] + (IF c \in ok THEN 1 ELSE 0)]
<1>1. ASSUME TriggerInv, TriggerNext, stack # <<>>, stack' = <<>>, reentrant = {}
      PROVE  \E ok \in SUBSET ToSet(top.atStart.callbacks) :
                /\ ToSet(callbacks') = ToSet(top.atStart.callbacks) \ ok
                /\ consumed' = [c \in LoopCallbacks |->
                                  top.atStart.consumed[c] + (IF c \in ok THEN 1 ELSE 0)]
    <2>1. /\ Undisturbed(top) /\ callbacks \in Seq(LoopCallbacks) /\ top.atStart \in States
          /\ top.i \in Nat /\ top.n \in Nat
        BY <1>1, TopUndisturbed, TopIsFrame
    <2>2. Len(stack) \in Nat \ {0} /\ stack \in Seq(Frames)
        BY <1>1, TopIsFrame DEF TriggerInv, TriggerShape
    <2>3. \A f : [stack EXCEPT ![1] = f] # <<>>
        BY <2>2
    <2>4. ~CallConsumer /\ ~ConsumerReturns /\ ~ConsumerReverts
        BY <1>1, <2>2 DEF CallConsumer, ConsumerReturns, ConsumerReverts
    <2>5. ASSUME NEW max PROVE ~Trigger(max) /\ ~Reenter(max)
        BY <1>1 DEF Trigger, Reenter
    <2>6. ~IndexOutOfBounds
        BY <2>1 DEF IndexOutOfBounds, Undisturbed
    <2>7. Finish
        BY <1>1, <2>4, <2>5, <2>6 DEF TriggerNext
    <2> DEFINE ok == ToSet(top.successful)
    <2>8. ToSet(callbacks') = ToSet(top.atStart.callbacks) \ ok
        BY <1>1, <2>1, <2>7, FinishKeepsInv DEF Undisturbed
    <2>9. ok \subseteq ToSet(top.atStart.callbacks)
        <3>1. \A j \in 1..top.i : j \in DOMAIN callbacks
            BY <2>1 DEF Undisturbed
        <3> QED BY <2>1, <3>1 DEF Undisturbed, ToSet
    <2>10. consumed' = [c \in LoopCallbacks |->
                          top.atStart.consumed[c] + (IF c \in ok THEN 1 ELSE 0)]
        BY <2>1, <2>7 DEF Undisturbed, Finish
    <2> HIDE DEF ok
    <2> QED BY <2>8, <2>9, <2>10
<1>2. TriggerInv /\ [TriggerNext]_triggerVars => [Step]_triggerVars
    BY <1>1
<1> QED
    BY InitTriggerInv, NextTriggerInv, <1>2, PTL DEF TriggerSpec, ActsAtomically

-----------------------------------------------------------------------------

(*****************************************************************************)
(* Migrations.  The transactions that a script has not sent yet must fit     *)
(* what is on chain, whichever of them is the last that gets through.        *)
(*****************************************************************************)

\* All that CREATE2 may put code at.
Addresses == Impls \cup {Proxy, Dummy}

\* What idempotentCreate2() makes of the first k addresses.
IsCreates(made, addrs, k) ==
    /\ made \in Seq(Addresses)
    /\ \A i \in DOMAIN made : made[i] \notin hasCode /\ \E j \in 1..k : made[i] = addrs[j]
    /\ \A i, j \in DOMAIN made : made[i] = made[j] => i = j
    /\ k > 0 /\ addrs[1] \notin hasCode => Len(made) > 0 /\ made[1] = addrs[1]

\* One create2() more.
LEMMA CreateOne ==
    ASSUME NEW addrs \in Seq(Addresses), NEW k \in Nat, k < Len(addrs),
           NEW made, IsCreates(made, addrs, k)
    PROVE  IsCreates(create2(made, addrs[k + 1]), addrs, k + 1)
<1>1. PICK a : a = addrs[k + 1]
    OBVIOUS
<1>2. a \in Addresses /\ k + 1 \in Nat
    BY <1>1
<1>3. made \in Seq(Addresses) /\ DOMAIN made = 1..Len(made) /\ Len(made) \in Nat
    BY DEF IsCreates
<1>4. \A j : j \in 1..k => j \in 1..(k + 1)
    OBVIOUS
<1>5. CASE a \in hasCode \/ Contains(made, a)
    <2>1. create2(made, a) = made
        BY <1>5 DEF create2
    <2>2. k = 0 => made = <<>>
        BY <1>3 DEF IsCreates
    <2>3. k = 0 => a \in hasCode
        BY <1>5, <2>2 DEF Contains
    <2>4. addrs[1] \notin hasCode => Len(made) > 0 /\ made[1] = addrs[1]
        BY <1>1, <2>3 DEF IsCreates
    <2> QED BY <1>1, <1>4, <2>1, <2>4 DEF IsCreates
<1>6. CASE a \notin hasCode /\ ~Contains(made, a)
    <2>1. PICK m : m = Append(made, a)
        OBVIOUS
    <2>2. create2(made, a) = m
        BY <1>6, <2>1 DEF create2
    <2>3. /\ m \in Seq(Addresses) /\ Len(m) = Len(made) + 1
          /\ DOMAIN m = 1..(Len(made) + 1)
          /\ \A i \in DOMAIN made : m[i] = made[i]
          /\ m[Len(made) + 1] = a
        BY <1>2, <1>3, <2>1
    <2>4. \A i \in DOMAIN made : made[i] # a
        BY <1>3, <1>6 DEF Contains
    <2>5. \A i \in DOMAIN m : i \in DOMAIN made \/ i = Len(made) + 1
        BY <1>3, <2>3
    <2>6. \A i \in DOMAIN m : m[i] \notin hasCode /\ \E j \in 1..(k + 1) : m[i] = addrs[j]
        <3>1. ASSUME NEW i \in DOMAIN made
              PROVE  m[i] \notin hasCode /\ \E j \in 1..(k + 1) : m[i] = addrs[j]
            BY <1>4, <2>3, <3>1 DEF IsCreates
        <3>2. k + 1 \in 1..(k + 1)
            BY <1>2
        <3>3. /\ m[Len(made) + 1] \notin hasCode
              /\ \E j \in 1..(k + 1) : m[Len(made) + 1] = addrs[j]
            BY <1>1, <1>6, <2>3, <3>2
        <3> QED BY <2>5, <3>1, <3>3
    <2>7. \A i, j \in DOMAIN m : m[i] = m[j] => i = j
        BY <2>3, <2>4, <2>5 DEF IsCreates
    <2>8. addrs[1] \notin hasCode => Len(m) > 0 /\ m[1] = addrs[1]
        <3>1. CASE k = 0
            <4>1. made = <<>>
                BY <1>3, <3>1 DEF IsCreates
            <4> QED BY <1>1, <2>3, <3>1, <4>1
        <3>2. CASE k > 0
            BY <1>3, <2>3, <3>2 DEF IsCreates
        <3> QED BY <3>1, <3>2
    <2> QED BY <1>1, <2>2, <2>3, <2>6, <2>7, <2>8 DEF IsCreates
<1> QED BY <1>1, <1>5, <1>6

\* What FoldLeft(create2, <<>>, addrs) is defined by.
IsCreation(addrs, h) ==
    h = [t \in SUBSET DOMAIN addrs |->
            IF t = {} THEN <<>> ELSE create2(h[t \ {Max(t)}], addrs[Max(t)])]

\* The recursive function by which idempotentCreate2() is defined exists.
LEMMA CreationExists ==
    ASSUME NEW addrs \in Seq(Addresses)
    PROVE  \E h : IsCreation(addrs, h)
<1> DEFINE n == Len(addrs)
           V == Seq(Addresses)
           o == [i \in 1..n |-> [v \in V |-> create2(v, addrs[i])]]
<1>1. n \in Nat /\ DOMAIN addrs = 1..n /\ <<>> \in V
    OBVIOUS
<1>2. o \in [1..n -> [V -> V]]
    <2>1. \A i \in 1..n : \A v \in V : create2(v, addrs[i]) \in V
        BY <1>1 DEF create2
    <2> QED BY <2>1
<1>3. PICK h \in [SUBSET (1..n) -> V] : IsFoldLeft(n, <<>>, o, h)
    <2> HIDE DEF o, V, n
    <2> QED BY <1>1, <1>2, FoldLeftExists
<1>4. ASSUME NEW t \in SUBSET (1..n)
      PROVE  h[t] = IF t = {} THEN <<>> ELSE create2(h[t \ {Max(t)}], addrs[Max(t)])
    <2>1. h[t] = IF t = {} THEN <<>> ELSE o[Max(t)][h[t \ {Max(t)}]]
        BY <1>3 DEF IsFoldLeft
    <2>2. t # {} => Max(t) \in 1..n
        <3>1. t \in SUBSET (0..n)
            BY <1>1
        <3> QED BY <1>1, <3>1, MaxOfBounded
    <2>3. h[t \ {Max(t)}] \in V
        OBVIOUS
    <2> QED BY <2>1, <2>2, <2>3
<1>5. IsCreation(addrs, h)
    BY <1>1, <1>3, <1>4 DEF IsCreation
<1> QED BY <1>5

\* idempotentCreate2() creates what has no code yet, and each address only once.
LEMMA CreatesAreNew ==
    ASSUME NEW addrs \in Seq(Addresses)
    PROVE  IsCreates(idempotentCreate2(addrs), addrs, Len(addrs))
<1> DEFINE h == CHOOSE h : IsCreation(addrs, h)
           m == Len(addrs)
           T == {k \in Nat : k <= m => IsCreates(h[1..k], addrs, k)}
<1>1. idempotentCreate2(addrs) = h[DOMAIN addrs]
    BY DEF idempotentCreate2, FoldLeft, MapThenFoldSet, IsCreation
<1>2. IsCreation(addrs, h)
    <2> HIDE DEF IsCreation
    <2> QED BY CreationExists
<1>3. m \in Nat /\ DOMAIN addrs = 1..m
    OBVIOUS
<1>4. \A t \in SUBSET (1..m) :
          h[t] = IF t = {} THEN <<>> ELSE create2(h[t \ {Max(t)}], addrs[Max(t)])
    <2> HIDE DEF h
    <2> QED BY <1>2, <1>3 DEF IsCreation
<1> HIDE DEF h
<1>5. 0 \in T
    <2>1. 1..0 = {}
        OBVIOUS
    <2>2. h[{}] = <<>>
        BY <1>4
    <2>3. IsCreates(<<>>, addrs, 0)
        BY DEF IsCreates
    <2> QED BY <2>1, <2>2, <2>3
<1>6. ASSUME NEW k \in T PROVE k + 1 \in T
    <2>1. k \in Nat /\ k + 1 \in Nat /\ k + 1 # 0
        OBVIOUS
    <2> SUFFICES ASSUME k + 1 <= m PROVE IsCreates(h[1..(k + 1)], addrs, k + 1)
        BY <2>1
    <2>2. /\ Max(1..(k + 1)) = k + 1 /\ (1..(k + 1)) \ {Max(1..(k + 1))} = 1..k
          /\ 1..(k + 1) # {}
        <3>1. (k + 1) - 1 = k
            BY <2>1
        <3> QED BY <2>1, <3>1, MaxOfInterval
    <2>3. h[1..(k + 1)] = create2(h[1..k], addrs[k + 1])
        <3>1. 1..(k + 1) \in SUBSET (1..m)
            BY <2>1, <1>3
        <3>2. h[1..(k + 1)] = create2(h[(1..(k + 1)) \ {Max(1..(k + 1))}], addrs[Max(1..(k + 1))])
            BY <1>4, <2>2, <3>1
        <3> QED BY <2>2, <3>2
    <2>4. IsCreates(h[1..k], addrs, k)
        BY <2>1, <1>3
    <2> QED BY <1>3, <2>1, <2>3, <2>4, CreateOne
<1>7. \A k \in Nat : k \in T
    <2> HIDE DEF T
    <2>1. T \in SUBSET Nat
        BY DEF T
    <2> QED BY <1>5, <1>6, <2>1, SetInduction
<1>8. m \in T
    BY <1>3, <1>7
<1>9. IsCreates(h[1..m], addrs, m)
    BY <1>3, <1>8
<1> QED BY <1>1, <1>3, <1>9

-----------------------------------------------------------------------------

\* What a script may have broadcast.
Transactions == [op : {"create", "upgrade", "roundtrip"}, what : Addresses]

\* Types, and that the list covers what was set up.
MigrationsShape ==
    /\ impls \in Seq(Impls) /\ setUp \in Seq(Impls)
    /\ current \in Impls \cup {NoImpl}
    /\ unsent \in Seq(Transactions)
    /\ setUp # <<>> => impls # <<>>
    /\ Unambiguous => Len(setUp) <= Len(impls)

\* A broadcast of idempotentDeployAll(): the proxy is created once, after
\* impl(0).
Deploying ==
    /\ \A i \in DOMAIN unsent : unsent[i].op = "create"
    /\ \A i \in DOMAIN unsent : unsent[i].what = Proxy =>
          /\ Proxy \notin hasCode /\ impls # <<>>
          /\ impls[1] \in hasCode \/ \E j \in 1..i-1 : unsent[j].what = impls[1]
          /\ \A j \in DOMAIN unsent : unsent[j].what = Proxy => j = i

\* One of migrate(): the versions after the current one, in order.
UpgradesAfter(k) ==
    /\ k \in 1..Len(impls) /\ current = impls[k] /\ k + Len(unsent) <= Len(impls)
    /\ \A j \in DOMAIN unsent : /\ unsent[j].op = "upgrade"
                                 /\ unsent[j].what = impls[k + j]
                                 /\ impls[k + j] \in hasCode

\* The unsent transactions are those of a migration.
Upgrading == setUp # <<>> /\ \E k \in Nat : UpgradesAfter(k)

\* One of simulateUpgrade().
Simulating ==
    /\ setUp # <<>>
    /\ \A i \in DOMAIN unsent :
          \/ unsent[i].op = "create" /\ unsent[i].what = Dummy
          \/ unsent[i].op = "roundtrip" /\ unsent[i].what = current

\* The inductive invariant: what is unsent is the rest of one script, and fits
\* what is on chain.
MigrationsInv ==
    MigrationsShape /\ MigrationsAreInOrder /\ (Deploying \/ Upgrading \/ Simulating)

\* Nothing is deployed at first.
LEMMA InitMigrationsInv == MigrationsInit => MigrationsInv
BY DEF MigrationsInit, MigrationsInv, MigrationsShape, MigrationsAreInOrder, Deploying, Range, Unambiguous

\* The list grows at its end, so what was in order still is.
LEMMA PushImplKeepsInv ==
    ASSUME MigrationsInv, NEW x \in Impls, PushImpl(x)
    PROVE  MigrationsInv'
<1>1. /\ impls' = Append(impls, x) /\ UNCHANGED <<hasCode, current, setUp, unsent>>
      /\ impls \in Seq(Impls) /\ setUp \in Seq(Impls)
    BY DEF PushImpl, MigrationsInv, MigrationsShape
<1>2. /\ impls' \in Seq(Impls) /\ Len(impls') = Len(impls) + 1 /\ impls' # <<>>
      /\ \A i \in 1..Len(impls) : impls'[i] = impls[i]
      /\ Len(impls) \in Nat /\ Len(setUp) \in Nat
    BY <1>1
<1>3. impls # <<>> => impls'[1] = impls[1]
    BY <1>1, <1>2
<1>4. MigrationsShape'
    <2>1. Unambiguous' => Unambiguous
        BY <1>1, <1>2 DEF Unambiguous
    <2> QED BY <1>1, <1>2, <2>1 DEF MigrationsInv, MigrationsShape
<1>5. (Deploying \/ Upgrading \/ Simulating)'
    <2>1. CASE Deploying
        BY <1>1, <1>2, <1>3, <2>1 DEF Deploying
    <2>2. CASE Upgrading
        <3>1. PICK k \in Nat : UpgradesAfter(k)
            BY <2>2 DEF Upgrading
        <3>2. Len(unsent) \in Nat /\ DOMAIN unsent = 1..Len(unsent)
            BY DEF MigrationsInv, MigrationsShape
        <3>3. \A j \in DOMAIN unsent : k + j \in 1..Len(impls)
            BY <1>2, <3>1, <3>2 DEF UpgradesAfter
        <3>4. \A j \in DOMAIN unsent : impls'[k + j] = impls[k + j]
            BY <1>2, <3>3
        <3>5. k \in 1..Len(impls') /\ impls'[k] = impls[k] /\ k + Len(unsent') <= Len(impls')
            BY <1>1, <1>2, <3>1, <3>2 DEF UpgradesAfter
        <3>6. UpgradesAfter(k)'
            BY <1>1, <3>1, <3>4, <3>5 DEF UpgradesAfter
        <3> QED BY <1>1, <2>2, <3>6 DEF Upgrading
    <2>3. CASE Simulating
        BY <1>1, <2>3 DEF Simulating
    <2> QED BY <2>1, <2>2, <2>3 DEF MigrationsInv
<1>6. MigrationsAreInOrder'
    <2>1. /\ current = NoImpl <=> setUp = <<>>
          /\ setUp = <<>> <=> Proxy \notin hasCode
          /\ Range(setUp) \subseteq hasCode
          /\ setUp # <<>> => impls # <<>> /\ setUp[1] = impls[1] /\ current = Last(setUp)
        BY DEF MigrationsInv, MigrationsAreInOrder, MigrationsShape
    <2>2. ASSUME NEW n \in 1..Len(setUp)-1
          PROVE  \E i \in 1..Len(impls')-1 : impls'[i] = setUp[n] /\ impls'[i + 1] = setUp[n + 1]
        <3>1. PICK i \in 1..Len(impls)-1 : impls[i] = setUp[n] /\ impls[i + 1] = setUp[n + 1]
            BY DEF MigrationsInv, MigrationsAreInOrder
        <3>2. i \in 1..Len(impls) /\ i + 1 \in 1..Len(impls) /\ i \in 1..Len(impls')-1
            BY <1>2
        <3> QED BY <1>2, <3>1, <3>2
    <2>3. Unambiguous' => setUp = SubSeq(impls', 1, Len(setUp))
        <3> SUFFICES ASSUME Unambiguous' PROVE setUp = SubSeq(impls', 1, Len(setUp))
            OBVIOUS
        <3>1. Unambiguous
            BY <1>1, <1>2 DEF Unambiguous
        <3>2. setUp = SubSeq(impls, 1, Len(setUp))
            BY <3>1 DEF MigrationsInv, MigrationsAreInOrder
        <3>3. Len(setUp) <= Len(impls)
            BY <3>1 DEF MigrationsInv, MigrationsShape
        <3> QED BY <1>1, <1>2, <3>2, <3>3
    <2> QED BY <1>1, <1>3, <2>1, <2>2, <2>3 DEF MigrationsAreInOrder
<1> QED BY <1>4, <1>5, <1>6 DEF MigrationsInv

\* A script changes nothing but what is to be broadcast.
LEMMA ScriptKeepsInv ==
    ASSUME MigrationsInv, NEW txs \in Seq(Transactions), Script(txs),
           (Deploying \/ Upgrading \/ Simulating)'
    PROVE  MigrationsInv'
<1>1. unsent' = txs /\ UNCHANGED <<impls, hasCode, current, setUp>>
    BY DEF Script
<1>2. MigrationsShape'
    BY <1>1 DEF MigrationsInv, MigrationsShape, Unambiguous
<1>3. MigrationsAreInOrder'
    BY <1>1 DEF MigrationsInv, MigrationsAreInOrder, Unambiguous
<1> QED BY <1>2, <1>3 DEF MigrationsInv

\* The transactions of a list of addresses.
LEMMA TxsType ==
    ASSUME NEW whats \in Seq(Addresses), NEW op \in {"create", "upgrade", "roundtrip"}
    PROVE  /\ Txs(op, whats) \in Seq(Transactions) /\ Len(Txs(op, whats)) = Len(whats)
           /\ DOMAIN Txs(op, whats) = DOMAIN whats
           /\ \A i \in DOMAIN whats : Txs(op, whats)[i].op = op /\ Txs(op, whats)[i].what = whats[i]
<1>1. DOMAIN whats = 1..Len(whats) /\ Len(whats) \in Nat
    OBVIOUS
<1>2. \A i \in DOMAIN whats : Tx(op, whats[i]) \in Transactions
    BY DEF Tx, Transactions
<1>3. \A i \in DOMAIN whats : Txs(op, whats)[i] = Tx(op, whats[i])
    BY DEF Txs
<1>4. Txs(op, whats) \in [1..Len(whats) -> Transactions]
    BY <1>1, <1>2 DEF Txs
<1>5. Txs(op, whats) \in Seq(Transactions) /\ Len(Txs(op, whats)) = Len(whats)
    BY <1>1, <1>4
<1> QED BY <1>1, <1>3, <1>4, <1>5 DEF Tx

\* A script that deploys all versions and the proxy.
LEMMA DeployKeepsInv ==
    ASSUME MigrationsInv, idempotentDeployAll
    PROVE  MigrationsInv'
<1>1. PICK addrs : addrs = Append(impls, Proxy)
    OBVIOUS
<1>2. PICK made : made = idempotentCreate2(addrs)
    OBVIOUS
<1>3. impls \in Seq(Impls) /\ impls # <<>> /\ Script(Txs("create", made))
    BY <1>1, <1>2 DEF idempotentDeployAll, Script, MigrationsInv, MigrationsShape
<1>4. addrs \in Seq(Addresses) /\ Len(addrs) = Len(impls) + 1 /\ addrs[1] = impls[1] /\ impls[1] \in Impls
    <2>1. impls \in Seq(Addresses) /\ Proxy \in Addresses
        BY <1>3 DEF Addresses
    <2> QED BY <1>1, <1>3, <2>1
<1>5. IsCreates(made, addrs, Len(addrs))
    BY <1>2, <1>4, CreatesAreNew
<1>6. made \in Seq(Addresses) /\ DOMAIN made = 1..Len(made) /\ Len(made) \in Nat
    BY <1>5 DEF IsCreates
<1>7. PICK txs : txs = Txs("create", made)
    OBVIOUS
<1>8. /\ txs \in Seq(Transactions) /\ DOMAIN txs = DOMAIN made
      /\ \A i \in DOMAIN made : txs[i].op = "create" /\ txs[i].what = made[i]
    BY <1>6, <1>7, TxsType
<1>9. unsent' = txs /\ UNCHANGED <<impls, hasCode, current, setUp>>
    BY <1>3, <1>7 DEF Script
<1>10. Deploying'
    <2>1. ASSUME NEW i \in DOMAIN txs, txs[i].what = Proxy
          PROVE  /\ Proxy \notin hasCode
                 /\ impls[1] \in hasCode \/ \E j \in 1..i-1 : txs[j].what = impls[1]
                 /\ \A j \in DOMAIN txs : txs[j].what = Proxy => j = i
        <3>1. made[i] = Proxy /\ i \in DOMAIN made
            BY <1>8, <2>1
        <3>2. Proxy \notin hasCode /\ \A j \in DOMAIN txs : txs[j].what = Proxy => j = i
            BY <1>5, <1>8, <3>1 DEF IsCreates
        <3>3. ASSUME impls[1] \notin hasCode PROVE \E j \in 1..i-1 : txs[j].what = impls[1]
            <4>1. Len(made) > 0 /\ made[1] = impls[1]
                BY <1>3, <1>4, <1>5, <3>3 DEF IsCreates
            <4>2. impls[1] # Proxy
                BY <1>4, MigrationsAssumption
            <4>3. 1 \in DOMAIN made /\ 1 \in 1..i-1
                BY <1>6, <3>1, <4>1, <4>2
            <4> QED BY <1>8, <4>1, <4>3
        <3> QED BY <3>2, <3>3
    <2> QED BY <1>3, <1>8, <1>9, <2>1 DEF Deploying
<1> QED BY <1>3, <1>7, <1>8, <1>10, ScriptKeepsInv

\* A script that upgrades from one version to another.
LEMMA MigrateKeepsInv ==
    ASSUME MigrationsInv, NEW from \in 0..MaxImpls-1, NEW to \in 0..MaxImpls-1, migrate(from, to)
    PROVE  MigrationsInv'
<1>0. from \in Nat /\ to \in Nat
    BY MigrationsAssumption
<1>1. /\ from <= to /\ to < Len(impls) /\ current = impls[from + 1]
      /\ \A i \in from..to : impls[i + 1] \in hasCode
      /\ Script(Txs("upgrade", Steps(from, to)))
    BY DEF migrate
<1>2. impls \in Seq(Impls) /\ Len(impls) \in Nat
    BY DEF MigrationsInv, MigrationsShape
<1>3. PICK steps : steps = Steps(from, to)
    OBVIOUS
<1>4. /\ steps \in Seq(Impls) /\ Len(steps) = to - from
      /\ \A j \in 1..Len(steps) : steps[j] = impls[from + 1 + j]
    <2>1. /\ from + 2 \in Int /\ to + 1 \in Int
          /\ \A i \in from+2..to+1 : impls[i] \in Impls
        BY <1>0, <1>1, <1>2
    <2>2. steps = SubSeq(impls, from + 2, to + 1)
        BY <1>3 DEF Steps
    <2>3. steps \in Seq(Impls)
        BY <2>1, <2>2, SubSeqProperties
    <2>4. Len(steps) = to - from
        <3>1. Len(steps) = IF from + 2 <= to + 1 THEN (to + 1) - (from + 2) + 1 ELSE 0
            BY <2>1, <2>2, SubSeqProperties
        <3> QED BY <1>0, <1>1, <3>1
    <2>5. ASSUME NEW j \in 1..Len(steps) PROVE steps[j] = impls[from + 1 + j]
        <3>1. \A i \in 1..(to + 1) - (from + 2) + 1 : steps[i] = impls[(from + 2) + i - 1]
            BY <2>1, <2>2, SubSeqProperties
        <3>2. j \in 1..(to + 1) - (from + 2) + 1 /\ (from + 2) + j - 1 = from + 1 + j
            BY <1>0, <2>4, <2>5
        <3> QED BY <3>1, <3>2
    <2> QED BY <2>3, <2>4, <2>5
<1>5. steps \in Seq(Addresses) /\ DOMAIN steps = 1..Len(steps)
    BY <1>4 DEF Addresses
<1>6. PICK txs : txs = Txs("upgrade", steps)
    OBVIOUS
<1>7. /\ txs \in Seq(Transactions) /\ DOMAIN txs = DOMAIN steps /\ Len(txs) = Len(steps)
      /\ \A i \in DOMAIN steps : txs[i].op = "upgrade" /\ txs[i].what = steps[i]
    BY <1>5, <1>6, TxsType
<1>8. unsent' = txs /\ UNCHANGED <<impls, hasCode, current, setUp>>
    BY <1>1, <1>3, <1>6 DEF Script
<1>9. setUp # <<>>
    <2>1. current \in Impls
        BY <1>0, <1>1, <1>2
    <2> QED BY <2>1, MigrationsAssumption DEF MigrationsInv, MigrationsAreInOrder
<1>10. PICK k \in Nat : k = from + 1
    BY <1>0
<1>11. \A j \in DOMAIN txs : txs[j].op = "upgrade" /\ txs[j].what = impls[k + j] /\ impls[k + j] \in hasCode
    <2> SUFFICES ASSUME NEW j \in DOMAIN txs PROVE txs[j].what = impls[k + j] /\ impls[k + j] \in hasCode
        BY <1>7
    <2>1. j \in 1..(to - from) /\ steps[j] = impls[k + j]
        BY <1>4, <1>5, <1>7, <1>10
    <2>2. from + j \in from..to /\ (from + j) + 1 = k + j
        BY <1>0, <1>10, <2>1
    <2>3. impls[(from + j) + 1] \in hasCode
        BY <1>1, <2>2
    <2> QED BY <1>7, <2>1, <2>2, <2>3
<1>12. UpgradesAfter(k)'
    BY <1>0, <1>1, <1>2, <1>4, <1>7, <1>8, <1>10, <1>11 DEF UpgradesAfter
<1>13. Upgrading'
    BY <1>8, <1>9, <1>12 DEF Upgrading
<1> QED BY <1>1, <1>3, <1>6, <1>7, <1>13, ScriptKeepsInv

\* A script that tries an upgrade and takes it back.
LEMMA SimulateKeepsInv ==
    ASSUME MigrationsInv, simulateUpgrade
    PROVE  MigrationsInv'
<1>1. PICK made : made = idempotentCreate2(<<Dummy>>)
    OBVIOUS
<1>2. <<Dummy>> \in Seq(Addresses)
    BY DEF Addresses
<1>3. IsCreates(made, <<Dummy>>, 1)
    BY <1>1, <1>2, CreatesAreNew
<1>4. made \in Seq(Addresses) /\ \A i \in DOMAIN made : made[i] = Dummy
    BY <1>3 DEF IsCreates
<1>5. PICK creates : creates = Txs("create", made)
    OBVIOUS
<1>6. /\ creates \in Seq(Transactions) /\ DOMAIN creates = DOMAIN made
      /\ \A i \in DOMAIN made : creates[i].op = "create" /\ creates[i].what = made[i]
    BY <1>4, <1>5, TxsType
<1>7. PICK last : last = Tx("roundtrip", current)
    OBVIOUS
<1>8. current \in Impls /\ setUp # <<>>
    BY DEF simulateUpgrade, MigrationsInv, MigrationsShape, MigrationsAreInOrder
<1>9. last \in Transactions /\ last.op = "roundtrip" /\ last.what = current
    BY <1>7, <1>8 DEF Tx, Transactions, Addresses
<1>10. PICK txs : txs = creates \o <<last>>
    OBVIOUS
<1>11. /\ txs \in Seq(Transactions) /\ DOMAIN txs = 1..(Len(creates) + 1)
       /\ \A i \in DOMAIN creates : txs[i] = creates[i]
       /\ txs[Len(creates) + 1] = last
    BY <1>6, <1>9, <1>10
<1>12. Script(txs) /\ unsent' = txs /\ UNCHANGED <<impls, hasCode, current, setUp>>
    BY <1>1, <1>5, <1>7, <1>10 DEF simulateUpgrade, Script
<1>13. \A i \in DOMAIN txs : i \in DOMAIN creates \/ i = Len(creates) + 1
    BY <1>6, <1>11
<1>14. Simulating'
    BY <1>4, <1>6, <1>8, <1>9, <1>11, <1>12, <1>13 DEF Simulating
<1> QED BY <1>11, <1>12, <1>14, ScriptKeepsInv
\* What is left to broadcast after the next transaction.
LEMMA TailOfUnsent ==
    ASSUME MigrationsInv, Broadcast
    PROVE  /\ unsent' \in Seq(Transactions) /\ Len(unsent') = Len(unsent) - 1 /\ Len(unsent) \in Nat
           /\ DOMAIN unsent = 1..Len(unsent) /\ 1 \in DOMAIN unsent
           /\ Head(unsent) = unsent[1] /\ unsent[1] \in Transactions
           /\ \A i \in DOMAIN unsent' : i + 1 \in DOMAIN unsent /\ unsent'[i] = unsent[i + 1]
<1>1. unsent # <<>> /\ unsent' = Tail(unsent) /\ unsent \in Seq(Transactions)
    BY DEF Broadcast, MigrationsInv, MigrationsShape
<1> QED BY <1>1

\* A create: the proxy is set up with impl(0), which has code.
LEMMA BroadcastDeploying ==
    ASSUME MigrationsInv, Broadcast, Deploying
    PROVE  MigrationsInv'
<1>1. PICK a : a = unsent[1].what
    OBVIOUS
<1>2. unsent[1].op = "create" /\ Head(unsent) = unsent[1]
    BY TailOfUnsent DEF Deploying
<1>3. /\ hasCode' = hasCode \cup {a} /\ UNCHANGED impls
      /\ IF a = Proxy THEN current' = impls[1] /\ setUp' = <<impls[1]>>
         ELSE UNCHANGED <<current, setUp>>
    BY <1>1, <1>2 DEF Broadcast
<1>4. \A i \in DOMAIN unsent' : unsent'[i].op = "create"
    BY TailOfUnsent DEF Deploying
<1>5. CASE a = Proxy
    <2>1. Proxy \notin hasCode /\ impls # <<>> /\ impls[1] \in hasCode
        <3>1. /\ Proxy \notin hasCode /\ impls # <<>>
              /\ impls[1] \in hasCode \/ \E j \in 1..1-1 : unsent[j].what = impls[1]
            BY <1>1, <1>5, TailOfUnsent DEF Deploying
        <3>2. 1..1-1 = {}
            OBVIOUS
        <3> QED BY <3>1, <3>2
    <2>2. \A i \in DOMAIN unsent' : unsent'[i].what # Proxy
        <3> SUFFICES ASSUME NEW i \in DOMAIN unsent', unsent'[i].what = Proxy PROVE FALSE
            OBVIOUS
        <3>1. i + 1 \in DOMAIN unsent /\ unsent[i + 1].what = Proxy /\ i \in Nat /\ i > 0
            BY TailOfUnsent
        <3>2. i + 1 = 1
            BY <1>1, <1>5, <3>1, TailOfUnsent DEF Deploying
        <3> QED BY <3>1, <3>2
    <2>3. Deploying'
        BY <1>4, <2>2 DEF Deploying
    <2>4. PICK x : x = impls[1]
        OBVIOUS
    <2>5. x \in Impls /\ impls \in Seq(Impls) /\ Len(impls) > 0
        BY <2>1, <2>4 DEF MigrationsInv, MigrationsShape
    <2>6. setUp' = <<x>> /\ current' = x /\ UNCHANGED impls
        BY <1>3, <1>5, <2>4
    <2>7. MigrationsShape'
        BY <2>1, <2>5, <2>6, TailOfUnsent DEF MigrationsShape
    <2>8. MigrationsAreInOrder'
        <3>1. Range(setUp') \subseteq hasCode'
            BY <1>3, <2>1, <2>4, <2>6 DEF Range
        <3>2. setUp' = SubSeq(impls', 1, Len(setUp'))
            BY <2>4, <2>5, <2>6
        <3>3. current' = Last(setUp') /\ setUp' # <<>> /\ setUp'[1] = impls'[1] /\ Len(setUp') = 1
            BY <2>4, <2>6 DEF Last
        <3>4. current' # NoImpl /\ Proxy \in hasCode'
            BY <1>3, <1>5, <2>5, <2>6, MigrationsAssumption
        <3> QED BY <3>1, <3>2, <3>3, <3>4 DEF MigrationsAreInOrder
    <2> QED BY <2>3, <2>7, <2>8 DEF MigrationsInv
<1>6. CASE a # Proxy
    <2>1. UNCHANGED <<impls, current, setUp>> /\ hasCode \subseteq hasCode'
        BY <1>3, <1>6
    <2>2. Proxy \in hasCode' <=> Proxy \in hasCode
        BY <1>3, <1>6
    <2>3. MigrationsShape'
        BY <2>1, TailOfUnsent DEF MigrationsInv, MigrationsShape, Unambiguous
    <2>4. MigrationsAreInOrder'
        BY <2>1, <2>2 DEF MigrationsInv, MigrationsAreInOrder, Unambiguous
    <2>5. ASSUME NEW i \in DOMAIN unsent', unsent'[i].what = Proxy
          PROVE  /\ Proxy \notin hasCode' /\ impls # <<>>
                 /\ impls[1] \in hasCode' \/ \E j \in 1..i-1 : unsent'[j].what = impls[1]
                 /\ \A j \in DOMAIN unsent' : unsent'[j].what = Proxy => j = i
        <3>1. i + 1 \in DOMAIN unsent /\ unsent[i + 1].what = Proxy /\ i \in Nat /\ i > 0
              /\ DOMAIN unsent' = 1..Len(unsent') /\ Len(unsent') \in Nat
            BY <2>5, TailOfUnsent
        <3>2. /\ Proxy \notin hasCode /\ impls # <<>>
              /\ impls[1] \in hasCode \/ \E j \in 1..(i + 1)-1 : unsent[j].what = impls[1]
              /\ \A j \in DOMAIN unsent : unsent[j].what = Proxy => j = i + 1
            BY <3>1 DEF Deploying
        <3>3. \A j \in DOMAIN unsent' : unsent'[j].what = Proxy => j = i
            <4>1. \A j \in DOMAIN unsent' : unsent'[j].what = Proxy => j + 1 = i + 1
                BY <3>2, TailOfUnsent
            <4> QED BY <3>1, <4>1
        <3>4. ASSUME NEW j \in 1..(i + 1)-1, unsent[j].what = impls[1], impls[1] \notin hasCode'
              PROVE  \E l \in 1..i-1 : unsent'[l].what = impls[1]
            <4>1. j # 1
                BY <1>1, <1>3, <3>4
            <4>2. j - 1 \in 1..i-1 /\ j - 1 \in DOMAIN unsent' /\ (j - 1) + 1 = j
                BY <3>1, <4>1
            <4>3. unsent'[j - 1] = unsent[(j - 1) + 1]
                BY <4>2, TailOfUnsent
            <4> QED BY <3>4, <4>2, <4>3
        <3> QED BY <2>1, <2>2, <3>2, <3>3, <3>4
    <2>6. Deploying'
        BY <1>4, <2>1, <2>5 DEF Deploying
    <2> QED BY <2>3, <2>4, <2>6 DEF MigrationsInv
<1> QED BY <1>5, <1>6

\* An upgrade: to the version after the current one, which has code.
LEMMA BroadcastUpgrading ==
    ASSUME MigrationsInv, Broadcast, Upgrading
    PROVE  MigrationsInv'
<1>1. PICK k \in Nat : UpgradesAfter(k)
    BY DEF Upgrading
<1>2. PICK x : x = impls[k + 1]
    OBVIOUS
<1>3. /\ impls \in Seq(Impls) /\ setUp \in Seq(Impls) /\ Len(impls) \in Nat /\ Len(setUp) \in Nat
      /\ setUp # <<>> /\ Len(setUp) > 0
    BY DEF MigrationsInv, MigrationsShape, Upgrading
<1>4. k \in 1..Len(impls) /\ current = impls[k] /\ k + Len(unsent) <= Len(impls) /\ Len(unsent) \in Nat
    BY <1>1, TailOfUnsent DEF UpgradesAfter
<1>5. k + 1 \in 1..Len(impls) /\ x \in Impls /\ unsent[1].op = "upgrade" /\ unsent[1].what = x /\ x \in hasCode
    <2>1. unsent[1].op = "upgrade" /\ unsent[1].what = x /\ x \in hasCode
        BY <1>1, <1>2, TailOfUnsent DEF UpgradesAfter
    <2>2. k + 1 \in 1..Len(impls)
        BY <1>3, <1>4, TailOfUnsent
    <2> QED BY <1>2, <1>3, <2>1, <2>2
<1>6. current' = x /\ setUp' = Append(setUp, x) /\ UNCHANGED <<hasCode, impls>>
    BY <1>5, TailOfUnsent DEF Broadcast
<1>7. /\ setUp' \in Seq(Impls) /\ Len(setUp') = Len(setUp) + 1 /\ setUp' # <<>>
      /\ \A i \in 1..Len(setUp) : setUp'[i] = setUp[i]
      /\ setUp'[Len(setUp) + 1] = x
    BY <1>3, <1>5, <1>6
<1>8. setUp[1] = impls[1] /\ current = setUp[Len(setUp)] /\ Range(setUp) \subseteq hasCode /\ Proxy \in hasCode
    BY <1>3 DEF MigrationsInv, MigrationsAreInOrder, Last
<1>9. ASSUME Unambiguous
      PROVE  Len(setUp) = k /\ setUp' = SubSeq(impls, 1, k + 1)
    <2>1. setUp = SubSeq(impls, 1, Len(setUp)) /\ Len(setUp) <= Len(impls)
        BY <1>9 DEF MigrationsInv, MigrationsAreInOrder, MigrationsShape
    <2>2. \A i \in 1..Len(setUp) : setUp[i] = impls[i]
        BY <1>3, <2>1
    <2>3. Len(setUp) \in DOMAIN impls /\ k \in DOMAIN impls /\ impls[Len(setUp)] = impls[k]
        BY <1>3, <1>4, <1>8, <2>1, <2>2
    <2>4. Len(setUp) = k
        BY <1>9, <2>3 DEF Unambiguous
    <2>5. \A i \in 1..(k + 1) : setUp'[i] = impls[i]
        BY <1>2, <1>7, <2>2, <2>4
    <2>6. SubSeq(impls, 1, k + 1) = [i \in 1..(k + 1) |-> impls[i]]
        BY <1>3, <1>5
    <2>7. setUp' = [i \in 1..(k + 1) |-> setUp'[i]]
        BY <1>7, <2>4
    <2> QED BY <2>4, <2>5, <2>6, <2>7
<1>10. MigrationsShape'
    <2>1. Unambiguous' => Len(setUp') <= Len(impls')
        <3>1. Unambiguous' => Unambiguous
            BY <1>6 DEF Unambiguous
        <3> QED BY <1>5, <1>6, <1>7, <1>9, <3>1
    <2> QED BY <1>3, <1>5, <1>6, <1>7, <2>1, TailOfUnsent DEF MigrationsInv, MigrationsShape
<1>11. MigrationsAreInOrder'
    <2>1. Range(setUp') \subseteq hasCode'
        <3>1. \A i \in DOMAIN setUp' : i \in 1..Len(setUp) \/ i = Len(setUp) + 1
            BY <1>3, <1>7
        <3>2. \A i \in 1..Len(setUp) : setUp[i] \in hasCode
            BY <1>3, <1>8 DEF Range
        <3> QED BY <1>5, <1>6, <1>7, <3>1, <3>2 DEF Range
    <2>2. current' = Last(setUp') /\ setUp'[1] = impls'[1]
        BY <1>3, <1>6, <1>7, <1>8 DEF Last
    <2>3. current' # NoImpl /\ Proxy \in hasCode'
        BY <1>5, <1>6, <1>8, MigrationsAssumption
    <2>4. ASSUME NEW n \in 1..Len(setUp')-1
          PROVE  \E i \in 1..Len(impls')-1 : impls'[i] = setUp'[n] /\ impls'[i + 1] = setUp'[n + 1]
        <3>1. CASE n = Len(setUp)
            <4>1. k \in 1..Len(impls')-1
                BY <1>3, <1>4, <1>5, <1>6
            <4>2. impls'[k] = setUp'[n] /\ impls'[k + 1] = setUp'[n + 1]
                BY <1>2, <1>3, <1>4, <1>6, <1>7, <1>8, <3>1
            <4> QED BY <4>1, <4>2
        <3>2. CASE n # Len(setUp)
            <4>1. n \in 1..Len(setUp)-1 /\ n \in 1..Len(setUp) /\ n + 1 \in 1..Len(setUp)
                BY <1>3, <1>7, <3>2
            <4>2. PICK i \in 1..Len(impls)-1 : impls[i] = setUp[n] /\ impls[i + 1] = setUp[n + 1]
                BY <4>1 DEF MigrationsInv, MigrationsAreInOrder
            <4> QED BY <1>6, <1>7, <4>1, <4>2
        <3> QED BY <3>1, <3>2
    <2>5. Unambiguous' => setUp' = SubSeq(impls', 1, Len(setUp'))
        <3>1. Unambiguous' => Unambiguous
            BY <1>6 DEF Unambiguous
        <3> QED BY <1>6, <1>7, <1>9, <3>1
    <2> QED BY <1>7, <2>1, <2>2, <2>3, <2>4, <2>5 DEF MigrationsAreInOrder
<1>12. UpgradesAfter(k + 1)'
    <2>1. ASSUME NEW j \in DOMAIN unsent'
          PROVE  /\ unsent'[j].op = "upgrade" /\ unsent'[j].what = impls[(k + 1) + j]
                 /\ impls[(k + 1) + j] \in hasCode
        <3>1. j + 1 \in DOMAIN unsent /\ unsent'[j] = unsent[j + 1] /\ k + (j + 1) = (k + 1) + j
            BY TailOfUnsent
        <3> QED BY <1>1, <3>1 DEF UpgradesAfter
    <2>2. (k + 1) + Len(unsent') <= Len(impls)
        BY <1>3, <1>4, TailOfUnsent
    <2> QED BY <1>2, <1>5, <1>6, <2>1, <2>2 DEF UpgradesAfter
<1>13. Upgrading'
    BY <1>7, <1>12 DEF Upgrading
<1> QED BY <1>10, <1>11, <1>13 DEF MigrationsInv

\* The roundtrip of simulateUpgrade() leaves the proxy as it was.
LEMMA BroadcastSimulating ==
    ASSUME MigrationsInv, Broadcast, Simulating
    PROVE  MigrationsInv'
<1>1. PICK tx : tx = unsent[1]
    OBVIOUS
<1>2. \/ tx.op = "create" /\ tx.what = Dummy
      \/ tx.op = "roundtrip" /\ tx.what = current
    BY <1>1, TailOfUnsent DEF Simulating
<1>3. /\ UNCHANGED <<impls, setUp, current>> /\ hasCode' \in {hasCode, hasCode \cup {Dummy}}
    BY <1>1, <1>2, TailOfUnsent DEF Broadcast, Proxy, Dummy
<1>4. Proxy \in hasCode' <=> Proxy \in hasCode
    BY <1>3 DEF Proxy, Dummy
<1>5. MigrationsShape'
    BY <1>3, TailOfUnsent DEF MigrationsInv, MigrationsShape, Unambiguous
<1>6. MigrationsAreInOrder'
    BY <1>3, <1>4 DEF MigrationsInv, MigrationsAreInOrder, Unambiguous
<1>7. Simulating'
    BY <1>3, TailOfUnsent DEF Simulating
<1> QED BY <1>5, <1>6, <1>7 DEF MigrationsInv

\* Every step keeps the invariant.
LEMMA NextMigrationsInv == MigrationsInv /\ [MigrationsNext]_migrationVars => MigrationsInv'
<1>1. ASSUME MigrationsInv, UNCHANGED migrationVars PROVE MigrationsInv'
    <2>1. UNCHANGED <<impls, hasCode, current, setUp, unsent>>
        BY <1>1 DEF migrationVars
    <2>2. MigrationsShape' /\ MigrationsAreInOrder'
        BY <1>1, <2>1 DEF MigrationsInv, MigrationsShape, MigrationsAreInOrder, Unambiguous
    <2>3. (Deploying \/ Upgrading \/ Simulating)'
        BY <1>1, <2>1 DEF MigrationsInv, Deploying, Upgrading, UpgradesAfter, Simulating
    <2> QED BY <2>2, <2>3 DEF MigrationsInv
<1>2. ASSUME MigrationsInv, BroadcastStops PROVE MigrationsInv'
    <2>1. unsent' = <<>> /\ UNCHANGED <<impls, hasCode, current, setUp>>
        BY <1>2 DEF BroadcastStops
    <2>2. MigrationsShape' /\ MigrationsAreInOrder'
        BY <1>2, <2>1 DEF MigrationsInv, MigrationsShape, MigrationsAreInOrder, Unambiguous
    <2>3. Deploying'
        BY <2>1 DEF Deploying
    <2> QED BY <2>2, <2>3 DEF MigrationsInv
<1>3. ASSUME MigrationsInv, NEW t \in 0..MaxImpls-1, migrateFromCurrent(t) PROVE MigrationsInv'
    <2>1. PICK i \in implementationIdx : migrate(i, t)
        BY <1>3 DEF migrateFromCurrent
    <2>2. i \in Nat /\ i <= t /\ i \in 0..MaxImpls-1
        BY <1>3, <2>1, MigrationsAssumption DEF implementationIdx, migrate, MigrationsInv, MigrationsShape
    <2> QED BY <1>3, <2>1, <2>2, MigrateKeepsInv
<1>4. ASSUME MigrationsInv, Broadcast PROVE MigrationsInv'
    BY <1>4, BroadcastDeploying, BroadcastUpgrading, BroadcastSimulating DEF MigrationsInv
<1> QED BY <1>1, <1>2, <1>3, <1>4, PushImplKeepsInv, DeployKeepsInv, MigrateKeepsInv, SimulateKeepsInv
        DEF MigrationsNext

\* However often a broadcast of idempotentDeployAll() or migrate() stops and is
\* repeated, for any versions and any growth of the list: the proxy is set up
\* with one version after the other in the order of the list, none is skipped,
\* and none is repeated unless it is listed twice.
THEOREM VersionsAreInOrder == MigrationsSpec => []MigrationsAreInOrder
<1>1. MigrationsInv => MigrationsAreInOrder
    BY DEF MigrationsInv
<1> QED BY InitMigrationsInv, NextMigrationsInv, <1>1, PTL DEF MigrationsSpec

-----------------------------------------------------------------------------

(*****************************************************************************)
(* Coverage.  What the tracer knows must match what the EVM runs: the stack  *)
(* of contracts, the contract of each address, and the last line counted.    *)
(*****************************************************************************)

\* The code of an address, and whether the registry could take it for nothing
\* but what it is when it was created.
Code == [contract : CovContracts \cup {NoContract}, known : BOOLEAN]

\* A call that the EVM is running.
CovFrames == [addr : CovAddresses, contract : CovContracts, known : BOOLEAN, creating : BOOLEAN]

\* The types of what proofs refer to.
CovShape ==
    /\ deployedContracts \in [CovAddresses -> CovContracts \cup {NoContract}]
    /\ codeAt \in [CovAddresses -> Code]
    /\ frames \in Seq(CovFrames)
    /\ contracts \in Seq(CovAddresses)

\* Only contracts are deployed that were registered, with all their files.
DeployedAreRegistered ==
    /\ \A a \in CovAddresses : deployedContracts[a] \in contractsByName \cup {NoContract}
    /\ \A c \in contractsByName : FilesOf(c) \subseteq sourceCode

\* Deployments that match their own contract and no other are known by their
\* address, in the code and in every frame.
KnownIsDeployed ==
    /\ \A a \in CovAddresses : codeAt[a].known => deployedContracts[a] = codeAt[a].contract
    /\ \A i \in DOMAIN frames : frames[i].known => deployedContracts[frames[i].addr] = frames[i].contract

\* While something is traced, the collector's stack is that of the EVM.
StackIsRight ==
    frames # <<>> =>
        Len(contracts) = Len(frames) /\ \A i \in DOMAIN frames : contracts[i] = frames[i].addr

\* The last Location has been counted, or has been missed before.
LastIsCounted ==
    collector = "on" /\ lastLoc.source # NoSource =>
        <<lastLoc.source, lastLoc.line>> \in lineHits.hit \cup covClashed

\* Nothing is owed, reported or remembered before there is a collector.
NothingBeforeCollector ==
    collector = "none" => covOwed = {} /\ covReport = {} /\ lastLoc.source = NoSource

\* The hits of the collector are a record of these fields.
LineHitsShape == \E fs, ks, hs : lineHits = [files |-> fs, keys |-> ks, hit |-> hs]

\* The inductive invariant of the collector.
CovInv ==
    /\ CovShape /\ LineHitsShape /\ DeployedAreRegistered /\ KnownIsDeployed /\ StackIsRight /\ LastIsCounted
    /\ NothingBeforeCollector /\ CoverageIsExact

\* Nothing is registered or deployed at first.
LEMMA InitCovInv == CovInit => CovInv
<1> SUFFICES ASSUME CovInit PROVE CovInv
    OBVIOUS
<1>1. CovShape
    BY DEF CovInit, CovShape, Code, NoCode
<1>2. DeployedAreRegistered /\ KnownIsDeployed
    BY DEF CovInit, DeployedAreRegistered, KnownIsDeployed, NoCode
<1>3. StackIsRight /\ LastIsCounted /\ NothingBeforeCollector /\ LineHitsShape
    BY DEF CovInit, StackIsRight, LastIsCounted, NothingBeforeCollector, LineHitsShape
<1>4. CoverageIsExact
    BY DEF CovInit, CoverageIsExact, ReportsAreHits, CollectorPanicsOnlyLate
<1> QED BY <1>1, <1>2, <1>3, <1>4 DEF CovInv

\* Registering source code and contracts, also late.
LEMMA RegisterKeepsCovInv ==
    ASSUME CovInv,
           \/ \E f \in CovFiles : RegisterSourceCode(f)
           \/ \E c \in CovContracts : RegisterContract(c)
    PROVE  CovInv'
<1>1. /\ sourceCode \subseteq sourceCode' /\ contractsByName \subseteq contractsByName'
      /\ UNCHANGED <<deployedContracts, collector, lineHits, contracts, lastLoc, covReport, codeAt,
                     frames, covExecuted, covOwed, covSpurious, covClashed>>
    BY DEF RegisterSourceCode, RegisterContract, truthVars, evmVars, covGhosts
<1>2. CovShape' /\ KnownIsDeployed' /\ StackIsRight'
    BY <1>1 DEF CovInv, CovShape, KnownIsDeployed, StackIsRight
<1>3. LastIsCounted' /\ NothingBeforeCollector' /\ LineHitsShape'
    BY <1>1 DEF CovInv, LastIsCounted, NothingBeforeCollector, LineHitsShape
<1>4. DeployedAreRegistered'
    <2>1. \A a \in CovAddresses : deployedContracts'[a] \in contractsByName' \cup {NoContract}
        BY <1>1 DEF CovInv, DeployedAreRegistered
    <2>2. \A c \in contractsByName' : FilesOf(c) \subseteq sourceCode'
        BY <1>1 DEF RegisterSourceCode, RegisterContract, CovInv, DeployedAreRegistered
    <2> QED BY <2>1, <2>2 DEF DeployedAreRegistered
<1>5. CoverageIsExact'
    BY <1>1 DEF CovInv, CoverageIsExact, HitsAreExecuted, ExecutedAreHits, ReportsAreHits,
                CollectorPanicsOnlyLate
<1> QED BY <1>2, <1>3, <1>4, <1>5 DEF CovInv

\* Collector() starts with the files registered so far, all of them without
\* hits.
LEMMA CollectorKeepsInv == ASSUME CovInv, Collector PROVE CovInv'
<1>1. /\ collector = "none" /\ collector' = "on" /\ lineHits'.hit = {} /\ LineHitsShape'
      /\ UNCHANGED <<sourceCode, contractsByName, deployedContracts, contracts, lastLoc, covReport, codeAt,
                     frames, covExecuted, covOwed, covSpurious, covClashed>>
    BY DEF Collector, registryVars, truthVars, evmVars, covGhosts, LineHitsShape
<1>2. CovShape' /\ KnownIsDeployed' /\ StackIsRight' /\ DeployedAreRegistered'
    BY <1>1 DEF CovInv, CovShape, KnownIsDeployed, StackIsRight, DeployedAreRegistered
<1>3. LastIsCounted' /\ NothingBeforeCollector' /\ LineHitsShape'
    BY <1>1 DEF CovInv, LastIsCounted, NothingBeforeCollector, LineHitsShape
<1>4. CoverageIsExact'
    BY <1>1 DEF CovInv, CoverageIsExact, HitsAreExecuted, ExecutedAreHits, ReportsAreHits,
                CollectorPanicsOnlyLate, NothingBeforeCollector
<1> QED BY <1>2, <1>3, <1>4 DEF CovInv

\* A report is made of the hits so far.
LEMMA lcovKeepsInv == ASSUME CovInv, lcovTraceFile PROVE CovInv'
<1>1. /\ collector = "on" /\ covReport' \subseteq {l \in lineHits.hit : l[1] \notin CovExternal}
      /\ UNCHANGED <<sourceCode, contractsByName, deployedContracts, collector, lineHits, contracts, lastLoc, codeAt,
                     frames, covExecuted, covOwed, covSpurious, covClashed>>
    BY DEF lcovTraceFile, registryVars, truthVars, evmVars, covGhosts
<1>2. CovShape' /\ KnownIsDeployed' /\ StackIsRight' /\ DeployedAreRegistered'
    BY <1>1 DEF CovInv, CovShape, KnownIsDeployed, StackIsRight, DeployedAreRegistered
<1>3. LastIsCounted' /\ NothingBeforeCollector' /\ LineHitsShape'
    BY <1>1 DEF CovInv, LastIsCounted, NothingBeforeCollector, LineHitsShape
<1>4. CoverageIsExact'
    BY <1>1 DEF CovInv, CoverageIsExact, HitsAreExecuted, ExecutedAreHits, ReportsAreHits,
                CollectorPanicsOnlyLate
<1> QED BY <1>2, <1>3, <1>4 DEF CovInv

\* Steps of the EVM that execute no instruction.
LEMMA EVMStepKeepsInv ==
    ASSUME CovInv, collector = "on", UNCHANGED <<registryVars, collector, lineHits, lastLoc, covReport, covGhosts>>,
           CovShape', KnownIsDeployed', StackIsRight',
           \A a \in CovAddresses : deployedContracts'[a] \in contractsByName \cup {NoContract}
    PROVE  CovInv'
<1>1. UNCHANGED <<sourceCode, contractsByName, collector, lineHits, lastLoc, covReport,
                  covExecuted, covOwed, covSpurious, covClashed>>
    BY DEF registryVars, covGhosts
<1>2. DeployedAreRegistered'
    BY <1>1 DEF CovInv, DeployedAreRegistered
<1>3. LastIsCounted' /\ NothingBeforeCollector' /\ LineHitsShape'
    BY <1>1 DEF CovInv, LastIsCounted, NothingBeforeCollector, LineHitsShape
<1>4. CoverageIsExact'
    BY <1>1 DEF CovInv, CoverageIsExact, HitsAreExecuted, ExecutedAreHits, ReportsAreHits,
                CollectorPanicsOnlyLate
<1> QED BY <1>2, <1>3, <1>4 DEF CovInv

\* A frame is made for code that is known only where it is deployed.
IsFrame(f, a, code) ==
    f \in CovFrames /\ f.addr = a /\ f.contract = code.contract /\ (f.known <=> code.known)

\* The call of a contract is a frame with that contract's code.
LEMMA FrameType ==
    ASSUME NEW a \in CovAddresses, NEW code \in Code, code.contract # NoContract, NEW b \in BOOLEAN
    PROVE  IsFrame(Frame(a, code, b), a, code)
BY DEF Frame, Code, CovFrames, IsFrame

\* A call, at the top or nested in another.
LEMMA StartCallKeepsInv ==
    ASSUME CovInv, NEW a \in CovAddresses, CaptureStartCall(a)
    PROVE  CovInv'
<1>1. PICK f : f = Frame(a, codeAt[a], FALSE)
    OBVIOUS
<1>2. /\ collector = "on" /\ frames' = <<f>> /\ contracts' = <<a>> /\ codeAt[a].contract # NoContract
      /\ UNCHANGED <<registryVars, deployedContracts, collector, lineHits, lastLoc, covReport, codeAt, covGhosts>>
    BY <1>1 DEF CaptureStartCall
<1>3. /\ f \in CovFrames
      /\ f.addr = a /\ f.contract = codeAt[a].contract /\ (f.known <=> codeAt[a].known)
    <2>1. codeAt[a] \in Code
        BY DEF CovInv, CovShape
    <2>2. IsFrame(f, a, codeAt[a])
        BY <1>1, <1>2, <2>1, FrameType
    <2> QED BY <2>2 DEF IsFrame
<1>4. CovShape'
    BY <1>2, <1>3 DEF CovInv, CovShape
<1>5. KnownIsDeployed' /\ StackIsRight'
    BY <1>2, <1>3 DEF CovInv, KnownIsDeployed, StackIsRight
<1> QED BY <1>2, <1>4, <1>5, EVMStepKeepsInv DEF CovInv, DeployedAreRegistered

\* A creation, with code that matches any number of contracts.
LEMMA StartCreateKeepsInv ==
    ASSUME CovInv, NEW a \in CovAddresses, NEW c \in CovContracts, NEW args \in BOOLEAN,
           CaptureStartCreate(a, c, args)
    PROVE  CovInv'
<1>1. PICK code : code = [contract |-> c, known |-> Matches(c, args) = {c}]
    OBVIOUS
<1>2. PICK f : f = Frame(a, code, TRUE)
    OBVIOUS
<1>3. /\ collector = "on" /\ frames' = <<f>> /\ contracts' = <<a>> /\ codeAt' = [codeAt EXCEPT ![a] = code]
      /\ RegisterDeployedContract(a, c, args)
      /\ codeAt[a].contract = NoContract
      /\ UNCHANGED <<registryVars, collector, lineHits, lastLoc, covReport, covGhosts>>
    BY <1>1, <1>2 DEF CaptureStartCreate, CovInv, CovShape
<1>4. code \in Code /\ code.contract = c /\ c # NoContract
    BY <1>1, CovAssumption DEF Code
<1>5. f \in CovFrames /\ f.addr = a /\ f.contract = c /\ (f.known <=> code.known)
    <2>1. IsFrame(f, a, code)
        BY <1>2, <1>4, FrameType
    <2> QED BY <1>4, <2>1 DEF IsFrame
<1>6. \/ \E m \in CovContracts \cap contractsByName :
            /\ code.known => m = c
            /\ deployedContracts' = [deployedContracts EXCEPT ![a] = m]
      \/ ~code.known /\ deployedContracts' = deployedContracts
    <2>1. code.known <=> Matches(c, args) = {c}
        BY <1>1
    <2>2. Matches(c, args) \subseteq CovContracts \cap contractsByName
        BY CovAssumption DEF Matches
    <2> QED BY <1>3, <2>1, <2>2 DEF RegisterDeployedContract
<1>7. CovShape'
    BY <1>3, <1>4, <1>5, <1>6 DEF CovInv, CovShape
<1>8. KnownIsDeployed'
    BY <1>3, <1>4, <1>5, <1>6 DEF CovInv, CovShape, KnownIsDeployed
<1>9. StackIsRight'
    BY <1>3, <1>5 DEF StackIsRight
<1>10. \A b \in CovAddresses : deployedContracts'[b] \in contractsByName \cup {NoContract}
    BY <1>6 DEF CovInv, CovShape, DeployedAreRegistered
<1> QED BY <1>3, <1>7, <1>8, <1>9, <1>10, EVMStepKeepsInv

\* A call or a creation inside one adds a frame.
LEMMA EnterKeepsInv ==
    ASSUME CovInv, NEW a \in CovAddresses,
           CaptureEnterCall(a) \/ \E c \in CovContracts : CaptureEnterCreate(a, c)
    PROVE  CovInv'
<1>1. PICK f \in CovFrames :
          /\ frames' = Append(frames, f) /\ f.addr = a
          /\ f.known => deployedContracts[a] = f.contract
    <2>1. CASE CaptureEnterCall(a)
        <3>1. codeAt[a] \in Code /\ codeAt[a].contract # NoContract
            BY <2>1 DEF CovInv, CovShape, CaptureEnterCall
        <3>2. frames' = Append(frames, Frame(a, codeAt[a], FALSE))
            BY <2>1 DEF CaptureEnterCall
        <3>3. codeAt[a].known => deployedContracts[a] = codeAt[a].contract
            BY DEF CovInv, KnownIsDeployed
        <3>4. IsFrame(Frame(a, codeAt[a], FALSE), a, codeAt[a])
            BY <3>1, FrameType
        <3> QED BY <3>2, <3>3, <3>4 DEF IsFrame
    <2>2. CASE \E c \in CovContracts : CaptureEnterCreate(a, c)
        <3>0. PICK c \in CovContracts : CaptureEnterCreate(a, c)
            BY <2>2
        <3>1. PICK code : code = [contract |-> c, known |-> FALSE]
            OBVIOUS
        <3>2. code \in Code /\ code.contract # NoContract /\ ~code.known
            BY <3>1, CovAssumption DEF Code
        <3>3. codeAt'[a] = code /\ frames' = Append(frames, Frame(a, code, TRUE))
            BY <3>0, <3>1 DEF CaptureEnterCreate, CovInv, CovShape
        <3>4. IsFrame(Frame(a, code, TRUE), a, code)
            BY <3>2, FrameType
        <3> QED BY <3>2, <3>3, <3>4 DEF IsFrame
    <2> QED BY <2>1, <2>2
<1>2. /\ collector = "on" /\ frames # <<>> /\ contracts' = Append(contracts, a)
      /\ UNCHANGED <<registryVars, deployedContracts, collector, lineHits, lastLoc, covReport, covGhosts>>
    BY DEF CaptureEnterCall, CaptureEnterCreate
<1>3. /\ codeAt' \in [CovAddresses -> Code]
      /\ \A b \in CovAddresses : codeAt'[b].known => deployedContracts[b] = codeAt'[b].contract
    <2>1. CASE CaptureEnterCall(a)
        BY <2>1 DEF CovInv, CovShape, KnownIsDeployed, CaptureEnterCall
    <2>2. ASSUME NEW c \in CovContracts, CaptureEnterCreate(a, c) PROVE <1>3
        <3>1. PICK code : code = [contract |-> c, known |-> FALSE]
            OBVIOUS
        <3>2. code \in Code /\ ~code.known
            BY <3>1 DEF Code
        <3>3. codeAt' = [codeAt EXCEPT ![a] = code]
            BY <2>2, <3>1 DEF CaptureEnterCreate
        <3> QED BY <3>2, <3>3 DEF CovInv, CovShape, KnownIsDeployed
    <2> QED BY <2>1, <2>2
<1>4. /\ frames \in Seq(CovFrames) /\ contracts \in Seq(CovAddresses)
      /\ Len(contracts) = Len(frames) /\ \A i \in DOMAIN frames : contracts[i] = frames[i].addr
    BY <1>2 DEF CovInv, CovShape, StackIsRight
<1>5. /\ frames' \in Seq(CovFrames) /\ contracts' \in Seq(CovAddresses)
      /\ Len(frames') = Len(frames) + 1 /\ Len(contracts') = Len(frames')
      /\ \A i \in DOMAIN frames : frames'[i] = frames[i] /\ contracts'[i] = contracts[i]
      /\ frames'[Len(frames) + 1] = f /\ contracts'[Len(frames) + 1] = a
      /\ \A i \in DOMAIN frames' : i \in DOMAIN frames \/ i = Len(frames) + 1
    BY <1>1, <1>2, <1>4
<1>6. CovShape'
    BY <1>2, <1>3, <1>5 DEF CovInv, CovShape
<1>7. KnownIsDeployed'
    <2>1. \A i \in DOMAIN frames' : frames'[i].known => deployedContracts[frames'[i].addr] = frames'[i].contract
        BY <1>1, <1>5 DEF CovInv, KnownIsDeployed
    <2> QED BY <1>2, <1>3, <2>1 DEF KnownIsDeployed
<1>8. StackIsRight'
    BY <1>1, <1>4, <1>5 DEF StackIsRight
<1> QED BY <1>2, <1>6, <1>7, <1>8, EVMStepKeepsInv DEF CovInv, DeployedAreRegistered

\* The innermost frame is left; a creation may leave no code.
LEMMA ExitKeepsInv ==
    ASSUME CovInv, CaptureExit
    PROVE  CovInv'
<1>1. /\ collector = "on" /\ frames # <<>> /\ frames' = SubSeq(frames, 1, Len(frames) - 1)
      /\ contracts' = IF Len(frames) = 1 THEN contracts ELSE SubSeq(contracts, 1, Len(contracts) - 1)
      /\ UNCHANGED <<registryVars, deployedContracts, collector, lineHits, lastLoc, covReport, covGhosts>>
    BY DEF CaptureExit
<1>2. /\ frames \in Seq(CovFrames) /\ contracts \in Seq(CovAddresses) /\ Len(frames) \in Nat /\ Len(frames) > 0
      /\ Len(contracts) = Len(frames) /\ \A i \in DOMAIN frames : contracts[i] = frames[i].addr
    BY <1>1 DEF CovInv, CovShape, StackIsRight
<1>3. /\ frames' \in Seq(CovFrames) /\ Len(frames') = Len(frames) - 1
      /\ \A i \in DOMAIN frames' : i \in DOMAIN frames /\ frames'[i] = frames[i]
    BY <1>1, <1>2
<1>4. /\ contracts' \in Seq(CovAddresses)
      /\ frames' # <<>> => Len(contracts') = Len(frames') /\ \A i \in DOMAIN frames' : contracts'[i] = contracts[i]
    BY <1>1, <1>2, <1>3
<1>5. /\ codeAt' \in [CovAddresses -> Code]
      /\ \A b \in CovAddresses : codeAt'[b].known => deployedContracts[b] = codeAt'[b].contract
    <2>1. CASE UNCHANGED codeAt
        BY <2>1 DEF CovInv, CovShape, KnownIsDeployed
    <2>2. CASE codeAt' = [codeAt EXCEPT ![Top(frames).addr] = NoCode]
        <3>1. NoCode \in Code /\ ~NoCode.known
            BY DEF NoCode, Code
        <3>2. PICK b : b = Top(frames).addr
            OBVIOUS
        <3>3. codeAt' = [codeAt EXCEPT ![b] = NoCode]
            BY <2>2, <3>2
        <3> QED BY <3>1, <3>3 DEF CovInv, CovShape, KnownIsDeployed
    <2> QED BY <2>1, <2>2 DEF CaptureExit
<1>6. CovShape'
    BY <1>1, <1>3, <1>4, <1>5 DEF CovInv, CovShape
<1>7. KnownIsDeployed'
    BY <1>1, <1>3, <1>5 DEF CovInv, KnownIsDeployed
<1>8. StackIsRight'
    BY <1>2, <1>3, <1>4 DEF StackIsRight
<1> QED BY <1>1, <1>6, <1>7, <1>8, EVMStepKeepsInv DEF CovInv, DeployedAreRegistered

\* A new backend with no code, but with the collector's old addresses.
LEMMA NewBackendKeepsInv == ASSUME CovInv, NewBackend PROVE CovInv'
<1>1. /\ collector = "on" /\ codeAt' = [a \in CovAddresses |-> NoCode]
      /\ UNCHANGED <<registryVars, deployedContracts, collector, lineHits, contracts, lastLoc, covReport, frames, covGhosts>>
    BY DEF NewBackend
<1>2. NoCode \in Code /\ ~NoCode.known
    BY DEF NoCode, Code
<1>3. CovShape' /\ StackIsRight'
    BY <1>1, <1>2 DEF CovInv, CovShape, StackIsRight
<1>4. KnownIsDeployed'
    BY <1>1, <1>2 DEF CovInv, KnownIsDeployed
<1> QED BY <1>1, <1>3, <1>4, EVMStepKeepsInv DEF CovInv, DeployedAreRegistered

\* An instruction: the collector looks up the contract that runs, unless that
\* is not the one deployed there; then the hit is spurious.
LEMMA StateKeepsInv ==
    ASSUME CovInv, NEW ip, CaptureState(ip)
    PROVE  CovInv'
<1>1. PICK callee : callee = Top(frames)
    OBVIOUS
<1>2. PICK c : c = TracedContract
    OBVIOUS
<1>3. collector = "on" /\ frames # <<>>
    BY DEF CaptureState
<1>4. callee \in CovFrames /\ Top(contracts) = callee.addr /\ callee = frames[Len(frames)] /\ Len(frames) \in DOMAIN frames
    BY <1>1, <1>3 DEF CovInv, CovShape, StackIsRight, Top
<1>5. c = deployedContracts[callee.addr] /\ callee.addr \in CovAddresses
    BY <1>2, <1>4 DEF TracedContract, CovFrames
<1>6. callee.known => c = callee.contract
    BY <1>4, <1>5 DEF CovInv, KnownIsDeployed
<1>7. c # NoContract => FilesOf(c) \subseteq sourceCode
    BY <1>5 DEF CovInv, DeployedAreRegistered
<1>8. UNCHANGED <<sourceCode, contractsByName, deployedContracts, contracts, covReport, codeAt, frames>>
    BY DEF CaptureState, registryVars, evmVars
<1>9. CovShape' /\ DeployedAreRegistered' /\ KnownIsDeployed' /\ StackIsRight'
    BY <1>8 DEF CovInv, CovShape, DeployedAreRegistered, KnownIsDeployed, StackIsRight
<1> DEFINE Runs(k) == k # NoContract /\ ip \in DOMAIN CovLocations[k] /\ CovSource(k, ip) # NoSource /\ CovLine(k, ip) > 0
           Key(k) == <<CovSource(k, ip), CovLine(k, ip)>>
           fresh == CovLocations[c][ip].idx # lastLoc.idx \/ CovLine(c, ip) # lastLoc.line
           truth == IF ~callee.creating /\ Runs(callee.contract) THEN {Key(callee.contract)} ELSE {}
<1>10. callee.contract # NoContract /\ callee.contract \in CovContracts
    BY <1>4, CovAssumption DEF CovFrames
<1>11. ASSUME NEW hit, NEW clashed, Observed(ip, hit, clashed)
       PROVE  /\ covExecuted' = covExecuted \cup truth
              /\ covOwed' = IF callee.known THEN covOwed \cup truth ELSE covOwed
              /\ covSpurious' = IF callee.creating \/ c # callee.contract THEN covSpurious \cup hit ELSE covSpurious
              /\ covClashed' = covClashed \cup clashed
    BY <1>1, <1>5, <1>10, <1>11 DEF Observed
<1>12. \/ /\ ~Runs(c) /\ Observed(ip, {}, {})
          /\ UNCHANGED <<lineHits, lastLoc, collector>>
       \/ /\ Runs(c) /\ fresh /\ CovSource(c, ip) \in lineHits.files
          /\ lineHits' = [lineHits EXCEPT !.keys = @ \cup {Key(c)}, !.hit = @ \cup {Key(c)}]
          /\ lastLoc' = [source |-> CovSource(c, ip), idx |-> CovLocations[c][ip].idx, line |-> CovLine(c, ip)]
          /\ Observed(ip, {Key(c)}, {})
          /\ UNCHANGED collector
       \/ /\ Runs(c) /\ fresh /\ CovSource(c, ip) \notin lineHits.files
          /\ collector' = "panicked"
          /\ UNCHANGED <<lineHits, lastLoc, covGhosts>>
       \/ /\ Runs(c) /\ ~fresh
          /\ lastLoc' = [source |-> CovSource(c, ip), idx |-> CovLocations[c][ip].idx, line |-> CovLine(c, ip)]
          /\ Observed(ip, {}, IF CovSource(c, ip) = lastLoc.source THEN {} ELSE {Key(c)})
          /\ UNCHANGED <<lineHits, collector>>
    BY <1>2 DEF CaptureState
<1> HIDE DEF Runs, Key, fresh, truth
<1>13. \A k : Runs(k) => CovSource(k, ip) \in FilesOf(k)
    BY DEF Runs, FilesOf
<1>14. /\ lineHits.hit \subseteq covExecuted \cup covSpurious
       /\ covOwed \subseteq lineHits.hit \cup covClashed
       /\ covReport \subseteq {l \in lineHits.hit : l[1] \notin CovExternal}
    BY <1>3 DEF CovInv, CoverageIsExact, HitsAreExecuted, ExecutedAreHits, ReportsAreHits
<1>15. ASSUME collector' = "on", lineHits.hit \subseteq lineHits'.hit,
              lineHits'.hit \subseteq covExecuted' \cup covSpurious',
              covOwed' \subseteq lineHits'.hit \cup covClashed',
              LastIsCounted', LineHitsShape'
       PROVE  CovInv'
    <2>1. covReport' \subseteq {l \in lineHits'.hit : l[1] \notin CovExternal}
        BY <1>8, <1>14, <1>15
    <2>2. CoverageIsExact'
        BY <1>15, <2>1 DEF CoverageIsExact, HitsAreExecuted, ExecutedAreHits, ReportsAreHits,
                           CollectorPanicsOnlyLate
    <2> QED BY <1>9, <1>15, <2>2 DEF CovInv, NothingBeforeCollector
<1>16. truth \subseteq {Key(c)} \/ ~callee.known
    BY <1>6 DEF truth
<1>17. ~Runs(c) /\ callee.known => truth = {}
    BY <1>6 DEF truth
<1>18. Runs(c) /\ ~callee.creating /\ c = callee.contract => truth = {Key(c)}
    BY DEF truth
<1>19. CASE ~Runs(c) /\ Observed(ip, {}, {}) /\ UNCHANGED <<lineHits, lastLoc, collector>>
    <2>1. /\ covExecuted \subseteq covExecuted' /\ covOwed' = covOwed
          /\ covSpurious' = covSpurious /\ covClashed' = covClashed
        BY <1>11, <1>17, <1>19
    <2>2. LastIsCounted' /\ LineHitsShape'
        BY <1>19, <2>1 DEF CovInv, LastIsCounted, LineHitsShape
    <2> QED BY <1>3, <1>14, <1>15, <1>19, <2>1, <2>2
<1>20. CASE /\ Runs(c) /\ fresh /\ CovSource(c, ip) \in lineHits.files
            /\ lineHits' = [lineHits EXCEPT !.keys = @ \cup {Key(c)}, !.hit = @ \cup {Key(c)}]
            /\ lastLoc' = [source |-> CovSource(c, ip), idx |-> CovLocations[c][ip].idx, line |-> CovLine(c, ip)]
            /\ Observed(ip, {Key(c)}, {})
            /\ UNCHANGED collector
    <2>1. lineHits'.hit = lineHits.hit \cup {Key(c)} /\ LineHitsShape'
        BY <1>20 DEF CovInv, LineHitsShape
    <2>2. /\ covExecuted' = covExecuted \cup truth
          /\ covOwed' = IF callee.known THEN covOwed \cup truth ELSE covOwed
          /\ covSpurious' = IF callee.creating \/ c # callee.contract THEN covSpurious \cup {Key(c)} ELSE covSpurious
          /\ covClashed' = covClashed
        <3>1. Observed(ip, {Key(c)}, {})
            BY <1>20
        <3>2. PICK k : k = {Key(c)}
            OBVIOUS
        <3>3. Observed(ip, k, {})
            BY <3>1, <3>2
        <3> QED BY <1>11, <3>2, <3>3
    <2>3. Key(c) \in covExecuted' \cup covSpurious'
        BY <1>18, <1>20, <2>2
    <2>4. lineHits'.hit \subseteq covExecuted' \cup covSpurious'
        BY <1>14, <2>1, <2>2, <2>3
    <2>5. covOwed' \subseteq lineHits'.hit \cup covClashed'
        BY <1>14, <1>16, <2>1, <2>2
    <2>6. LastIsCounted'
        BY <1>20, <2>1 DEF LastIsCounted, Key
    <2> QED BY <1>3, <1>15, <1>20, <2>1, <2>4, <2>5, <2>6
<1>21. CASE /\ Runs(c) /\ fresh /\ CovSource(c, ip) \notin lineHits.files
            /\ collector' = "panicked"
            /\ UNCHANGED <<lineHits, lastLoc, covGhosts>>
    <2>1. CovSource(c, ip) \in sourceCode
        BY <1>7, <1>13, <1>21 DEF Runs
    <2>2. CoverageIsExact'
        BY <1>8, <1>14, <1>21, <2>1 DEF CoverageIsExact, ReportsAreHits, CollectorPanicsOnlyLate
    <2>3. LastIsCounted' /\ NothingBeforeCollector' /\ LineHitsShape'
        BY <1>21 DEF CovInv, LastIsCounted, NothingBeforeCollector, LineHitsShape
    <2> QED BY <1>9, <2>2, <2>3 DEF CovInv
<1>22. CASE /\ Runs(c) /\ ~fresh
            /\ lastLoc' = [source |-> CovSource(c, ip), idx |-> CovLocations[c][ip].idx, line |-> CovLine(c, ip)]
            /\ Observed(ip, {}, IF CovSource(c, ip) = lastLoc.source THEN {} ELSE {Key(c)})
            /\ UNCHANGED <<lineHits, collector>>
    <2>1. /\ covExecuted \subseteq covExecuted'
          /\ covOwed' = IF callee.known THEN covOwed \cup truth ELSE covOwed
          /\ covSpurious' = covSpurious
          /\ covClashed' = covClashed \cup (IF CovSource(c, ip) = lastLoc.source THEN {} ELSE {Key(c)})
        BY <1>11, <1>22
    <2>2. Key(c) \in lineHits.hit \cup covClashed'
        <3>1. CASE CovSource(c, ip) = lastLoc.source
            <4>1. Key(c) = <<lastLoc.source, lastLoc.line>> /\ lastLoc.source # NoSource
                BY <1>22, <3>1 DEF Key, fresh, Runs
            <4> QED BY <1>3, <2>1, <4>1 DEF CovInv, LastIsCounted
        <3>2. CASE CovSource(c, ip) # lastLoc.source
            BY <2>1, <3>2
        <3> QED BY <3>1, <3>2
    <2>3. covOwed' \subseteq lineHits'.hit \cup covClashed'
        BY <1>14, <1>16, <1>22, <2>1, <2>2
    <2>4. LastIsCounted' /\ LineHitsShape'
        BY <1>22, <2>2 DEF CovInv, LastIsCounted, LineHitsShape, Key
    <2> QED BY <1>3, <1>14, <1>15, <1>22, <2>1, <2>3, <2>4
<1> QED BY <1>12, <1>19, <1>20, <1>21, <1>22

\* Every step keeps the invariant.
LEMMA NextCovInv == CovInv /\ [CovNext]_covVars => CovInv'
<1>1. ASSUME CovInv, UNCHANGED covVars PROVE CovInv'
    <2>1. UNCHANGED <<sourceCode, contractsByName, deployedContracts, collector, lineHits, contracts, lastLoc,
                      covReport, codeAt, frames, covExecuted, covOwed, covSpurious, covClashed>>
        BY <1>1 DEF covVars, registryVars, truthVars, evmVars, covGhosts
    <2>2. CovShape' /\ LineHitsShape' /\ DeployedAreRegistered' /\ KnownIsDeployed' /\ StackIsRight'
        BY <1>1, <2>1 DEF CovInv, CovShape, LineHitsShape, DeployedAreRegistered, KnownIsDeployed, StackIsRight
    <2>3. LastIsCounted' /\ NothingBeforeCollector'
        BY <1>1, <2>1 DEF CovInv, LastIsCounted, NothingBeforeCollector
    <2>4. CoverageIsExact'
        BY <1>1, <2>1 DEF CovInv, CoverageIsExact, HitsAreExecuted, ExecutedAreHits, ReportsAreHits,
                          CollectorPanicsOnlyLate
    <2> QED BY <2>2, <2>3, <2>4 DEF CovInv
<1> QED
    BY <1>1, RegisterKeepsCovInv, CollectorKeepsInv, lcovKeepsInv, NewBackendKeepsInv, StartCreateKeepsInv,
       StartCallKeepsInv, EnterKeepsInv, ExitKeepsInv, StateKeepsInv DEF CovNext

\* For any contracts, addresses, files and depth of calls: a line counts as hit
\* exactly when an instruction of it ran in a contract whose creation code
\* matches that contract alone, whichever of several matches the registry takes
\* for other code, apart from the exceptions that CoverageIsExact names;
\* reports list no other line, and the collector panics only for files that were
\* registered after it was made.
THEOREM CollectorIsExact == CovSpec => []CoverageIsExact
<1>1. CovInv => CoverageIsExact
    BY DEF CovInv
<1> QED BY InitCovInv, NextCovInv, <1>1, PTL DEF CovSpec

-----------------------------------------------------------------------------

(*****************************************************************************)
(* EntropyServer, for any number of handlers and any chain.  Signing is safe *)
(* because every block number a handler relies on, cached or fetched, was    *)
(* the head of the chain or below it when it was read, and the head only     *)
(* grows.                                                                    *)
(*****************************************************************************)

\* Neither the cache nor what a handler is about to put there is ahead of the
\* chain, and no block is signed ahead of it.
HeadBounds ==
    /\ currBlock <= head
    /\ \A h \in Handlers : curr[h] <= head /\ latest[h] <= head
    /\ SignedIsMined

IInv == TypeOK /\ HeadBounds

\* A handler that is about to swap has fetched a number that is at most the
\* lag of the node below the cached one it read.
SwapsForward ==
    \A h \in Handlers : pc[h] = "cas" => curr[h] <= latest[h] + MaxLag

\* The initial state satisfies the invariants.
LEMMA InitIInv == Init => IInv /\ SwapsForward
  <1> SUFFICES ASSUME Init PROVE IInv /\ SwapsForward
    OBVIOUS
  <1> USE EntropyServerAssumption DEF Init
  <1>1. mined \in BOOLEAN
    OBVIOUS
  <1>2. TypeOK
    BY <1>1 DEF TypeOK, AtRest, Responses, Blocks
  <1>3. HeadBounds /\ SwapsForward
    BY DEF HeadBounds, SignedIsMined, SwapsForward
  <1> QED
    BY <1>2, <1>3 DEF IInv

\* Every step keeps the types.
LEMMA NextTypeOK == TypeOK /\ [Next]_vars => TypeOK'
  <1> SUFFICES ASSUME TypeOK, [Next]_vars PROVE TypeOK'
    OBVIOUS
  <1> DEFINE Numbers == /\ head \in 0..MaxHead
                        /\ currBlock \in 0..MaxHead
                        /\ tokens \in 0..Burst
                        /\ signed \subseteq Blocks
             Locals == /\ pc \in [Handlers -> AtRest \cup Busy]
                       /\ block \in [Handlers -> Blocks]
                       /\ due \subseteq Handlers
                       /\ curr \in [Handlers -> 0..MaxHead]
                       /\ latest \in [Handlers -> 0..MaxHead]
  <1>1. mined' \in BOOLEAN
    BY DEF TypeOK, Next, Handle, vars, chainVars, Request, CacheHit, CacheMiss,
           LimiterDenies, LimiterAllows, FetchLatest, FetchError, Swap, Interval, Mine
  <1>2. Numbers /\ Locals
    BY DEF TypeOK
  <1> HIDE DEF Numbers, Locals
  <1>3. ASSUME NEW h \in Handlers, NEW from, NEW code \in AtRest, Respond(h, from, code)
        PROVE  Locals'
    BY <1>2, <1>3, EntropyServerAssumption DEF Respond, Goto, Locals, Blocks
  <1>4. ASSUME NEW h \in Handlers, NEW b \in Blocks, Request(h, b)
        PROVE  Numbers' /\ Locals'
    BY <1>2, <1>4 DEF Request, Busy, chainVars, Numbers, Locals
  <1>5. ASSUME NEW h \in Handlers, CacheHit(h) PROVE Numbers' /\ Locals'
    <2>1. Locals'
      BY <1>3, <1>5 DEF CacheHit, AtRest, Responses
    <2>2. block[h] \in Blocks
      BY <1>2 DEF Locals
    <2> QED
      BY <1>2, <1>5, <2>1, <2>2 DEF CacheHit, chainVars, Numbers
  <1>6. ASSUME NEW h \in Handlers, CacheMiss(h) PROVE Numbers' /\ Locals'
    BY <1>2, <1>6 DEF CacheMiss, Goto, Busy, chainVars, Numbers, Locals
  <1>7. ASSUME NEW h \in Handlers, LimiterDenies(h) \/ FetchError(h)
        PROVE  Numbers' /\ Locals'
    <2>1. Locals'
      BY <1>3, <1>7 DEF LimiterDenies, FetchError, AtRest, Responses
    <2> QED
      BY <1>2, <1>7, <2>1 DEF LimiterDenies, FetchError, chainVars, Numbers
  <1>8. ASSUME NEW h \in Handlers, LimiterAllows(h) PROVE Numbers' /\ Locals'
    <2>1. Locals'
      BY <1>2, <1>8 DEF LimiterAllows, Goto, Busy, Locals
    <2> QED
      BY <1>2, <1>8, <2>1, EntropyServerAssumption DEF LimiterAllows, chainVars, Numbers
  <1>9. ASSUME NEW h \in Handlers, FetchLatest(h) PROVE Numbers' /\ Locals'
    <2>1. PICK n \in 0..head : latest' = [latest EXCEPT ![h] = n]
      BY <1>9 DEF FetchLatest
    <2>2. n \in 0..MaxHead
      BY <1>2, EntropyServerAssumption DEF Numbers
    <2> QED
      BY <1>2, <1>9, <2>1, <2>2 DEF FetchLatest, Goto, Busy, chainVars, Numbers, Locals
  <1>10. ASSUME NEW h \in Handlers, Swap(h) PROVE Numbers' /\ Locals'
    <2>1. Locals'
      BY <1>3, <1>10 DEF Swap, AtRest, Responses
    <2>2. block[h] \in Blocks /\ latest[h] \in 0..MaxHead
      BY <1>2 DEF Locals
    <2> QED
      BY <1>2, <1>10, <2>1, <2>2 DEF Swap, chainVars, Numbers
  <1>11. ASSUME Interval PROVE Numbers' /\ Locals'
    BY <1>2, <1>11, EntropyServerAssumption DEF Interval, handlerVars, Numbers, Locals
  <1>12. ASSUME Mine PROVE Numbers' /\ Locals'
    BY <1>2, <1>12, EntropyServerAssumption DEF Mine, handlerVars, Numbers, Locals
  <1>13. ASSUME UNCHANGED vars PROVE Numbers' /\ Locals'
    BY <1>2, <1>13 DEF vars, chainVars, handlerVars, Numbers, Locals
  <1>14. Numbers' /\ Locals'
    BY <1>4, <1>5, <1>6, <1>7, <1>8, <1>9, <1>10, <1>11, <1>12, <1>13 DEF Next, Handle
  <1> QED
    BY <1>1, <1>14 DEF TypeOK, Numbers, Locals

\* No step takes a block number beyond the head of the chain.
LEMMA NextHeadBounds == TypeOK /\ HeadBounds /\ [Next]_vars => HeadBounds'
  <1> SUFFICES ASSUME TypeOK, HeadBounds, [Next]_vars PROVE HeadBounds'
    OBVIOUS
  <1> USE EntropyServerAssumption DEF TypeOK, HeadBounds, SignedIsMined, Blocks,
          chainVars, handlerVars, Goto, Respond
  <1>1. ASSUME NEW h \in Handlers, NEW b \in Blocks, Request(h, b) PROVE HeadBounds'
    BY <1>1 DEF Request
  <1>2. ASSUME NEW h \in Handlers, CacheHit(h) PROVE HeadBounds'
    BY <1>2 DEF CacheHit
  <1>3. ASSUME NEW h \in Handlers, CacheMiss(h) PROVE HeadBounds'
    BY <1>3 DEF CacheMiss
  <1>4. ASSUME NEW h \in Handlers, LimiterAllows(h) PROVE HeadBounds'
    BY <1>4 DEF LimiterAllows
  <1>5. ASSUME NEW h \in Handlers, FetchLatest(h) PROVE HeadBounds'
    <2>1. PICK n \in 0..head : latest' = [latest EXCEPT ![h] = n]
      BY <1>5 DEF FetchLatest
    <2>2. n <= head
      OBVIOUS
    <2>3. head' = head /\ currBlock' = currBlock /\ curr' = curr /\ signed' = signed
      BY <1>5 DEF FetchLatest
    <2> QED
      BY <2>1, <2>2, <2>3
  <1>6. ASSUME NEW h \in Handlers, Swap(h) PROVE HeadBounds'
    <2>1. head' = head /\ curr' = [curr EXCEPT ![h] = 0] /\ latest' = [latest EXCEPT ![h] = 0]
      BY <1>6 DEF Swap
    <2>2. currBlock' <= head
      BY <1>6 DEF Swap
    <2>3. \A c \in signed' : c <= head
      <3>1. CASE latest[h] >= block[h]
        <4>1. block[h] <= head
          BY <3>1
        <4> QED
          BY <1>6, <3>1, <4>1 DEF Swap
      <3>2. CASE ~(latest[h] >= block[h])
        BY <1>6, <3>2 DEF Swap
      <3> QED
        BY <3>1, <3>2
    <2> QED
      BY <2>1, <2>2, <2>3
  <1>7. ASSUME NEW h \in Handlers, LimiterDenies(h) \/ FetchError(h)
        PROVE  HeadBounds'
    <2>1. head' = head /\ currBlock' = currBlock /\ signed' = signed
      BY <1>7 DEF LimiterDenies, FetchError
    <2>2. curr' = [curr EXCEPT ![h] = 0] /\ latest' = [latest EXCEPT ![h] = 0]
      BY <1>7 DEF LimiterDenies, FetchError
    <2> QED
      BY <2>1, <2>2
  <1>8. CASE Interval
    BY <1>8 DEF Interval
  <1>9. CASE Mine
    BY <1>9 DEF Mine
  <1>10. CASE UNCHANGED vars
    BY <1>10 DEF vars
  <1> QED
    BY <1>1, <1>2, <1>3, <1>4, <1>5, <1>6, <1>7, <1>8, <1>9, <1>10 DEF Next, Handle

(***************************************************************************)
(* The server signs mined blocks only, however far the node is behind and  *)
(* however handlers race for the cache.                                    *)
(***************************************************************************)
THEOREM ServerSignsMined == Spec => [](TypeOK /\ SignedIsMined)
  <1>1. IInv /\ [Next]_vars => IInv'
    BY NextTypeOK, NextHeadBounds DEF IInv
  <1>2. Spec => []IInv
    BY InitIInv, <1>1, PTL DEF Spec
  <1>3. IInv => TypeOK /\ SignedIsMined
    BY DEF IInv, HeadBounds
  <1> QED
    BY <1>2, <1>3, PTL

\* What a handler fetches is not below what it read by more than the lag.
LEMMA NextSwapsForward == IInv /\ SwapsForward /\ [Next]_vars => SwapsForward'
  <1> SUFFICES ASSUME IInv, SwapsForward, [Next]_vars PROVE SwapsForward'
    OBVIOUS
  <1> USE EntropyServerAssumption DEF IInv, TypeOK, HeadBounds, SwapsForward, Blocks, AtRest, Responses,
          chainVars, handlerVars, Goto, Respond
  <1>1. ASSUME NEW h \in Handlers, NEW b \in Blocks, Request(h, b) PROVE SwapsForward'
    BY <1>1 DEF Request
  <1>2. ASSUME NEW h \in Handlers, CacheHit(h) \/ CacheMiss(h) PROVE SwapsForward'
    BY <1>2 DEF CacheHit, CacheMiss
  <1>3. ASSUME NEW h \in Handlers, LimiterDenies(h) \/ LimiterAllows(h)
        PROVE  SwapsForward'
    BY <1>3 DEF LimiterDenies, LimiterAllows
  <1>4. ASSUME NEW h \in Handlers, FetchLatest(h) PROVE SwapsForward'
    BY <1>4 DEF FetchLatest
  <1>5. ASSUME NEW h \in Handlers, FetchError(h) \/ Swap(h) PROVE SwapsForward'
    BY <1>5 DEF FetchError, Swap
  <1>6. CASE Interval \/ Mine \/ UNCHANGED vars
    BY <1>6 DEF Interval, Mine, vars
  <1> QED
    BY <1>1, <1>2, <1>3, <1>4, <1>5, <1>6 DEF Next, Handle

(***************************************************************************)
(* The cached block number goes back by no more than the node is behind:   *)
(* a handler that was overtaken fails its CompareAndSwap.                  *)
(***************************************************************************)
THEOREM CacheRegressionIsBounded == Spec => CacheRegressesWithinLag
  <1>1. ASSUME IInv, SwapsForward, [Next]_vars
        PROVE  [currBlock' + MaxLag >= currBlock]_vars
    <2> USE <1>1, EntropyServerAssumption DEF IInv, TypeOK, chainVars, handlerVars
    <2>1. ASSUME NEW h \in Handlers, Swap(h) PROVE currBlock' + MaxLag >= currBlock
      BY <2>1 DEF Swap, SwapsForward, Respond, Goto
    <2>2. ASSUME NEW h \in Handlers, Handle(h), ~Swap(h) PROVE currBlock' = currBlock
      BY <2>2 DEF Handle, CacheHit, CacheMiss, LimiterDenies, LimiterAllows,
                  FetchLatest, FetchError
    <2>3. ASSUME NEW h \in Handlers, NEW b \in Blocks, Request(h, b)
          PROVE  currBlock' = currBlock
      BY <2>3 DEF Request
    <2>4. ASSUME Interval \/ Mine PROVE currBlock' = currBlock
      BY <2>4 DEF Interval, Mine
    <2>5. ASSUME currBlock' = currBlock PROVE currBlock' + MaxLag >= currBlock
      BY <2>5
    <2> QED
      BY <2>1, <2>2, <2>3, <2>4, <2>5 DEF Next
  <1>2. IInv /\ SwapsForward /\ [Next]_vars => (IInv /\ SwapsForward)'
    BY NextTypeOK, NextHeadBounds, NextSwapsForward DEF IInv
  <1> QED
    BY InitIInv, <1>1, <1>2, PTL DEF Spec, CacheRegressesWithinLag

=============================================================================
