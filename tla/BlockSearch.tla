---------------------------- MODULE BlockSearch ----------------------------
(***************************************************************************)
(* LastBlockBy() of go/eth: a binary search for the last block mined by a  *)
(* given time.  Every probe of sort.Search() is a call to the node, during *)
(* which the chain may grow and which may fail.  lo and hi are the i and j *)
(* of sort.Search(), relative to first.                                    *)
(***************************************************************************)
EXTENDS Integers

CONSTANTS
    MaxHead,    \* bound on the number of the latest block
    MaxTime,    \* bound on timestamps
    MaxInt      \* the greatest int, for the check before the search

ASSUME SearchAssumption == MaxHead \in Nat /\ MaxTime \in Nat /\ MaxInt \in Nat

VARIABLES
    head,       \* the number of the latest block
    time,       \* the timestamp of every block
    searchAt,   \* where LastBlockBy() is, or how it has returned
    minedBy, first, last, lo, hi,
    result      \* the number of the block in `result', or NoBlock

searchVars == <<head, time, searchAt, minedBy, first, last, lo, hi, result>>
callVars == <<minedBy, first, last, lo, hi, result>>

NoBlock == -1

Returned == {"found", "notFound", "broken", "error"}

SearchInit ==
    /\ head = 0 /\ time = [n \in {0} |-> 0]
    /\ searchAt = "idle"
    /\ minedBy = 0 /\ first = 0 /\ last = 0 /\ lo = 0 /\ hi = 0 /\ result = NoBlock

\* A block is mined.  Timestamps never decrease; on some chains they repeat.
Mine ==
    /\ head < MaxHead
    /\ head' = head + 1
    /\ \E t \in time[head]..MaxTime :
         time' = [n \in 0..head+1 |-> IF n = head + 1 THEN t ELSE time[n]]
    /\ UNCHANGED <<searchAt, callVars>>

\* The search starts; a range that is no range leaves nothing to search.
Search(from, to, by) ==
    /\ searchAt' = "search"
    /\ minedBy' = by /\ first' = from /\ last' = to
    /\ lo' = 0 /\ hi' = to - from + 1
    /\ result' = NoBlock
    /\ UNCHANGED <<head, time>>

\* A hint with a last block.
CallWithHint ==
    /\ searchAt = "idle"
    /\ \E f \in 0..MaxHead, l \in 1..MaxHead, by \in 0..MaxTime : Search(f, l, by)

\* No hint, or one without a last block: BlockNumber() answers.
CallToLatest ==
    /\ searchAt = "idle"
    /\ head < MaxInt
    /\ \E f \in 0..MaxHead, by \in 0..MaxTime : Search(f, head, by)

\* BlockNumber() fails, or the number cannot be searched up to.
CallFails ==
    /\ searchAt = "idle"
    /\ searchAt' = "error"
    /\ UNCHANGED <<head, time, callVars>>

Probed == (lo + hi) \div 2

\* Mutant of Probe: a block mined at the very time is too late.
ProbeStrict ==
    /\ searchAt = "search" /\ lo < hi
    /\ LET n == first + Probed IN
         /\ n <= head
         /\ \/ /\ time[n] < minedBy
               /\ result' = IF result = NoBlock \/ time[result] < time[n] THEN n ELSE result
               /\ lo' = Probed + 1 /\ UNCHANGED hi
            \/ /\ time[n] >= minedBy
               /\ hi' = Probed /\ UNCHANGED <<lo, result>>
    /\ UNCHANGED <<head, time, searchAt, minedBy, first, last>>

\* One call of the function given to sort.Search().
Probe ==
    /\ searchAt = "search" /\ lo < hi
    /\ LET n == first + Probed IN
         /\ n <= head
         /\ \/ /\ time[n] <= minedBy
               /\ result' = IF result = NoBlock \/ time[result] < time[n] THEN n ELSE result
               /\ lo' = Probed + 1 /\ UNCHANGED hi
            \/ /\ time[n] > minedBy
               /\ hi' = Probed /\ UNCHANGED <<lo, result>>
    /\ UNCHANGED <<head, time, searchAt, minedBy, first, last>>

\* BlockByNumber() fails, always when there is no such block yet; the panic
\* is recovered from.
ProbeFails ==
    /\ searchAt = "search" /\ lo < hi
    /\ searchAt' = "error"
    /\ UNCHANGED <<head, time, callVars>>

\* The end of sort.Search(), and the checks after it.
SearchReturn ==
    /\ searchAt = "search" /\ lo >= hi
    /\ searchAt' = CASE result = NoBlock -> "notFound"
                     [] result # NoBlock /\ result # first + lo - 1 -> "broken"
                     [] OTHER -> "found"
    /\ UNCHANGED <<head, time, callVars>>

SearchNext ==
    \/ Mine
    \/ CallWithHint \/ CallToLatest \/ CallFails
    \/ Probe \/ ProbeFails \/ SearchReturn

SearchSpec == SearchInit /\ [][SearchNext]_searchVars

-----------------------------------------------------------------------------

SearchTypeOK ==
    /\ head \in Nat /\ time \in [0..head -> Nat]
    /\ searchAt \in {"idle", "search"} \cup Returned
    /\ minedBy \in Nat /\ first \in Nat /\ last \in Nat
    /\ lo \in Nat /\ hi \in Int
    /\ result \in Nat \cup {NoBlock}

\* No two blocks of the range share a timestamp.
StrictTimes == \A m, n \in first..last : m < n /\ n <= head => time[m] < time[n]

(***************************************************************************)
(* A block that LastBlockBy() returns was mined by the time, and the next  *)
(* one of the range was not, although the chain grew during the search and *)
(* although blocks may share a timestamp.                                  *)
(***************************************************************************)
FoundIsLast ==
    searchAt = "found" =>
        /\ result \in first..last /\ result <= head
        /\ time[result] <= minedBy
        /\ result < last => time[result + 1] > minedBy

\* ErrBlockNotFound means that the first block of the range is too late.
NotFoundIsTooLate ==
    searchAt = "notFound" => first > last \/ time[first] > minedBy

\* The "broken invariant" is not broken when timestamps are distinct.
BrokenOnlyByTies == searchAt = "broken" => ~StrictTimes

\* What the callers of LastBlockBy() rely on, whatever it returns.
SearchIsRight == FoundIsLast /\ NotFoundIsTooLate /\ BrokenOnlyByTies

=============================================================================
