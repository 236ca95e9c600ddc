--------------------------- MODULE EntropyTrigger ---------------------------
(***************************************************************************)
(* EntropyOracleV2._triggerCallbacks, call by call, for a block that has   *)
(* entropy.  EntropyOracle takes it for one step; here the EnumerableSet   *)
(* has its order, each consumer contract is called in turn, and a consumer *)
(* may call triggerCallbacks() of the same block while it is being called, *)
(* which starts the loop anew on top of the one in progress.               *)
(*                                                                         *)
(* A call frame that reverts undoes all that was done since it began,      *)
(* including the state of consumers; a consumer that reverts does not make *)
(* the loop revert.                                                        *)
(***************************************************************************)
EXTENDS Integers, Sequences, FiniteSets, SequencesExt

CONSTANTS
    LoopCallbacks,   \* the callbacks registered for the block
    MaxDepth,    \* bound: loops on the call stack
    NoCallback         \* no callback

ASSUME EntropyTriggerAssumption ==
    /\ MaxDepth \in Nat \ {0}
    /\ NoCallback \notin LoopCallbacks
    /\ IsFiniteSet(LoopCallbacks)

VARIABLES
    reentrant,  \* the callbacks whose consumer may call triggerCallbacks()
    callbacks,  \* _callbacks[blockNumber], in the order of the EnumerableSet
    consumed,   \* how often each consumer has accepted the callback
    stack       \* the calls of _triggerCallbacks in progress, innermost first

triggerVars == <<reentrant, callbacks, consumed, stack>>

(***************************************************************************)
(* A loop in progress: its bound n, the index i, the array successful, the *)
(* callback being called if any, and the states to go back to should this  *)
(* call of the loop, or the call of the consumer, revert.  called is a     *)
(* history of the consumers called.                                        *)
(***************************************************************************)
State == [callbacks |-> callbacks, consumed |-> consumed]

Loop(max) ==
    [n |-> IF Len(callbacks) > max THEN max ELSE Len(callbacks),
     i |-> 0,
     successful |-> <<>>,
     called |-> <<>>,
     calling |-> NoCallback,
     atStart |-> State,
     atCall |-> State]

top == Head(stack)

TriggerTypeOK ==
    /\ reentrant \subseteq LoopCallbacks
    /\ callbacks \in Seq(LoopCallbacks)
    /\ IsInjective(callbacks)
    /\ consumed \in [LoopCallbacks -> Nat]
    /\ Len(stack) <= MaxDepth
    /\ \A k \in DOMAIN stack :
         /\ stack[k].i \in 0..stack[k].n
         /\ stack[k].n <= Len(stack[k].atStart.callbacks)
         /\ Len(stack[k].successful) <= stack[k].i
         /\ stack[k].calling \in LoopCallbacks \cup {NoCallback}
         /\ k > 1 => stack[k].calling # NoCallback

\* The callbacks were registered in some order, by consumers of either kind.
TriggerInit ==
    /\ reentrant \in SUBSET LoopCallbacks
    /\ callbacks \in SetToSeqs(LoopCallbacks)
    /\ consumed = [c \in LoopCallbacks |-> 0]
    /\ stack = <<>>

\* The EVM undoes what was done since state s.
Restore(s) ==
    /\ callbacks' = s.callbacks
    /\ consumed' = s.consumed
    /\ UNCHANGED reentrant

-----------------------------------------------------------------------------

\* EnumerableSet.remove: the last element takes the place of the removed one.
SwapRemove(s, c) ==
    IF c \in ToSet(s)
    THEN LET k == CHOOSE k \in DOMAIN s : s[k] = c
         IN  Front([s EXCEPT ![k] = Last(s)])
    ELSE s

\* A transaction calls triggerCallbacks(blockNumber, max) or provideEntropy().
Trigger(max) ==
    /\ stack = <<>>
    /\ stack' = <<Loop(max)>>
    /\ UNCHANGED <<reentrant, callbacks, consumed>>

\* callbacks.at(i) and the call of the consumer.
CallConsumer ==
    /\ stack # <<>> /\ top.calling = NoCallback /\ top.i < top.n
    /\ top.i < Len(callbacks)
    /\ stack' = [stack EXCEPT ![1].calling = callbacks[top.i + 1],
                              ![1].called = Append(@, callbacks[top.i + 1]),
                              ![1].atCall = State]
    /\ UNCHANGED <<reentrant, callbacks, consumed>>

\* callbacks.at(i) beyond the end of a set that has shrunk meanwhile: this
\* call of _triggerCallbacks reverts; the consumer it was made from goes on.
IndexOutOfBounds ==
    /\ stack # <<>> /\ top.calling = NoCallback /\ top.i < top.n
    /\ top.i >= Len(callbacks)
    /\ Restore(top.atStart)
    /\ stack' = Tail(stack)

\* Mutant of ConsumerReturns: the callback is removed while the loop runs, and
\* the one that takes its place is called next.
ConsumerReturnsRemove ==
    /\ stack # <<>> /\ top.calling # NoCallback
    /\ consumed' = [consumed EXCEPT ![top.calling] = @ + 1]
    /\ callbacks' = SwapRemove(callbacks, top.calling)
    /\ stack' = [stack EXCEPT ![1].calling = NoCallback, ![1].n = @ - 1]
    /\ UNCHANGED reentrant

\* The consumer returns: ok.
ConsumerReturns ==
    /\ stack # <<>> /\ top.calling # NoCallback
    /\ consumed' = [consumed EXCEPT ![top.calling] = @ + 1]
    /\ stack' = [stack EXCEPT ![1].successful = Append(@, top.calling),
                              ![1].calling = NoCallback,
                              ![1].i = @ + 1]
    /\ UNCHANGED <<reentrant, callbacks>>

\* Mutant of ConsumerReverts: whatever was called counts as successful.
ConsumerRevertsIgnored ==
    /\ stack # <<>> /\ top.calling # NoCallback
    /\ Restore(top.atCall)
    /\ stack' = [stack EXCEPT ![1].successful = Append(@, top.calling),
                              ![1].calling = NoCallback, ![1].i = @ + 1]

\* The consumer reverts, and with it all it has done: CallbackFailed.
ConsumerReverts ==
    /\ stack # <<>> /\ top.calling # NoCallback
    /\ Restore(top.atCall)
    /\ stack' = [stack EXCEPT ![1].calling = NoCallback, ![1].i = @ + 1]

\* The consumer being called calls triggerCallbacks() itself.
Reenter(max) ==
    /\ stack # <<>> /\ top.calling \in reentrant
    /\ Len(stack) < MaxDepth
    /\ stack' = <<Loop(max)>> \o stack
    /\ UNCHANGED <<reentrant, callbacks, consumed>>

\* Mutant of Finish: the loop over successful stops one short.
FinishOffByOne ==
    /\ stack # <<>> /\ top.calling = NoCallback /\ top.i = top.n
    /\ callbacks' = IF Len(top.successful) <= 1 THEN callbacks
                    ELSE FoldLeft(SwapRemove, callbacks, Reverse(Tail(top.successful)))
    /\ stack' = Tail(stack)
    /\ UNCHANGED <<reentrant, consumed>>

\* The loop is over: those in successful are removed, the last one first.
Finish ==
    /\ stack # <<>> /\ top.calling = NoCallback /\ top.i = top.n
    /\ callbacks' = FoldLeft(SwapRemove, callbacks, Reverse(top.successful))
    /\ stack' = Tail(stack)
    /\ UNCHANGED <<reentrant, consumed>>

TriggerNext ==
    \/ \E max \in 1..Len(callbacks) : Trigger(max) \/ Reenter(max)
    \/ CallConsumer
    \/ IndexOutOfBounds
    \/ ConsumerReturns
    \/ ConsumerReverts
    \/ Finish

TriggerSpec == TriggerInit /\ [][TriggerNext]_triggerVars

-----------------------------------------------------------------------------

\* No callback is dropped that its consumer has not accepted, even if consumers
\* re-enter and loops are undone half-way.
NoneLost ==
    \A c \in LoopCallbacks : consumed[c] = 0 => c \in ToSet(callbacks)

(***************************************************************************)
(* The doc of triggerCallbacks(): "Triggering of callbacks is idempotent   *)
(* [...] as long as the callback is successful."  Whatever is triggered    *)
(* and retried, after every transaction no consumer has accepted a         *)
(* callback twice.                                                         *)
(***************************************************************************)
Idempotent ==
    stack = <<>> => \A c \in LoopCallbacks : consumed[c] <= 1

(***************************************************************************)
(* Without re-entrant consumers, the loop calls the callbacks in the order *)
(* they have when it starts and skips none: removing the successful ones   *)
(* only after the loop keeps the swap in EnumerableSet.remove() from       *)
(* moving a callback behind its back.                                      *)
(***************************************************************************)
LoopInOrder ==
    reentrant = {} =>
        \A k \in DOMAIN stack :
            LET called == stack[k].called
            IN  called = SubSeq(stack[k].atStart.callbacks, 1, Len(called))

(***************************************************************************)
(* Without re-entrant consumers, all of _triggerCallbacks() is what        *)
(* EntropyOracle takes it for: some of the callbacks of the block are      *)
(* accepted, once each, and exactly those are removed.                     *)
(***************************************************************************)
ActsAtomically ==
    [][stack # <<>> /\ stack' = <<>> /\ reentrant = {} =>
          LET before == top.atStart
          IN  \E ok \in SUBSET ToSet(before.callbacks) :
                  /\ ToSet(callbacks') = ToSet(before.callbacks) \ ok
                  /\ consumed' = [c \in LoopCallbacks |->
                                     before.consumed[c] + (IF c \in ok THEN 1 ELSE 0)]]_triggerVars

=============================================================================
