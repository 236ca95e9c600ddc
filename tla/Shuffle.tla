------------------------------ MODULE Shuffle ------------------------------
(***************************************************************************)
(* FisherYates of go/shuffle: a shuffle of a pool of indices that may grow *)
(* between two draws.  The pool is perm, a function on 0..size-1; its      *)
(* first `shuffled' values have been drawn.  Permute() swaps one position  *)
(* at a time, so its loop is one step per iteration: while one runs,       *)
(* `step' is its variable i, and max its bound.                            *)
(***************************************************************************)
EXTENDS Integers

CONSTANT MaxPool    \* bound on the size of the pool

ASSUME MaxPoolAssumption == MaxPool \in Nat

VARIABLES size, perm, shuffled, step, max, permuting

shuffleVars == <<size, perm, shuffled, step, max, permuting>>

Identity(n) == [i \in 0..n-1 |-> i]

\* NewFisherYates()
ShuffleInit ==
    /\ size \in 0..MaxPool
    /\ perm = Identity(size)
    /\ shuffled = 0 /\ step = 0 /\ max = 0 /\ permuting = FALSE

Remaining == size - shuffled

\* What Permutation() returns.
Permutation == [i \in 0..shuffled-1 |-> perm[i]]

\* Permute() is entered with enough left in the pool.
PermuteStart(n) ==
    /\ ~permuting
    /\ n <= Remaining
    /\ permuting' = TRUE
    /\ step' = shuffled
    /\ max' = shuffled + n
    /\ UNCHANGED <<size, perm, shuffled>>

\* Permute() is asked for too many and returns permuteTooMany.
PermuteTooMany(n) ==
    /\ ~permuting
    /\ n > Remaining
    /\ UNCHANGED shuffleVars

\* PermuteUpTo() never asks Permute() for too many.
PermuteUpTo(n) == PermuteStart(IF n > Remaining THEN Remaining ELSE n)

\* Mutant of swap: one of the two values is lost.
swapOneWay(a, b) == [perm EXCEPT ![a] = perm[b]]

swap(a, b) == [perm EXCEPT ![a] = perm[b], ![b] = perm[a]]

\* Mutant of PermuteStep: any position of the pool may be chosen.
PermuteStepAnywhere ==
    /\ permuting /\ step < max
    /\ \E r \in 0..size-1 : perm' = swap(step, r)
    /\ step' = step + 1
    /\ UNCHANGED <<size, shuffled, max, permuting>>

\* One iteration, with any value that Intn() may return.
PermuteStep ==
    /\ permuting /\ step < max
    /\ \E r \in 0..(size - step - 1) : perm' = swap(step, r + step)
    /\ step' = step + 1
    /\ UNCHANGED <<size, shuffled, max, permuting>>

\* Permute() returns perm[shuffled:max].
PermuteReturn ==
    /\ permuting /\ step = max
    /\ shuffled' = max
    /\ permuting' = FALSE
    /\ UNCHANGED <<size, perm, step, max>>

Grow(delta) ==
    /\ ~permuting
    /\ size + delta <= MaxPool
    /\ size' = size + delta
    /\ perm' = [i \in 0..size+delta-1 |-> IF i < size THEN perm[i] ELSE i]
    /\ UNCHANGED <<shuffled, step, max, permuting>>

\* GrowTo() leaves a pool alone that has the size already.
GrowTo(n) ==
    \/ n >= size /\ Grow(n - size)
    \/ n < size /\ ~permuting /\ UNCHANGED shuffleVars

ShuffleNext ==
    \/ \E n \in 0..MaxPool : PermuteStart(n) \/ PermuteTooMany(n) \/ PermuteUpTo(n)
    \/ PermuteStep \/ PermuteReturn
    \/ \E n \in 0..MaxPool : Grow(n) \/ GrowTo(n)

ShuffleSpec == ShuffleInit /\ [][ShuffleNext]_shuffleVars

-----------------------------------------------------------------------------

ShuffleTypeOK ==
    /\ size \in Nat
    /\ perm \in [0..size-1 -> 0..size-1]
    /\ shuffled \in Nat /\ step \in Nat /\ max \in Nat
    /\ permuting \in BOOLEAN
    /\ shuffled <= size
    /\ permuting => shuffled <= step /\ step <= max /\ max <= size

(***************************************************************************)
(* The pool holds every index below its size exactly once, also half way   *)
(* through Permute() and after Grow() has extended a pool that has been    *)
(* drawn from: no index is ever drawn twice or lost.                       *)
(***************************************************************************)
PoolIsPermutation ==
    /\ \A i \in 0..size-1 : perm[i] \in 0..size-1
    /\ \A i, j \in 0..size-1 : perm[i] = perm[j] => i = j

(***************************************************************************)
(* The comment on Grow(): "It doesn't change already-permuted values in    *)
(* any way".  Neither does anything else: what Permutation() has returned  *)
(* once is a prefix of what it returns later.                              *)
(***************************************************************************)
PermutedIsFinal ==
    [][/\ shuffled <= shuffled'
       /\ \A i \in 0..shuffled-1 : perm'[i] = perm[i]]_shuffleVars

=============================================================================
