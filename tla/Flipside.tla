------------------------------ MODULE Flipside ------------------------------
(***************************************************************************)
(* The client of go/flipside: a query run is created, polled with backoff  *)
(* until it ends, and its results are fetched page by page.  Every request *)
(* is one step; between two of them the query may progress and the Context *)
(* may end, after which requests fail.                                     *)
(***************************************************************************)
EXTENDS Integers, Sequences

CONSTANT MaxPages       \* bound on the pages of a result

ASSUME MaxPagesAssumption == MaxPages \in Nat

Terminal == {"QUERY_STATE_SUCCESS", "QUERY_STATE_FAILED", "QUERY_STATE_CANCELED"}

VARIABLES
    runState,       \* the state of the query run at the server
    totalPages,     \* the pages of its result
    flipCtxDone,    \* the caller's Context is done
    flipAt,         \* where FetchQueryResults() is, or how it has returned
    page,           \* the next page to get
    numPages,
    pages           \* the pages in `results'

flipVars == <<runState, totalPages, flipCtxDone, flipAt, page, numPages, pages>>

FlipInit ==
    /\ runState = "none" /\ totalPages = 0
    /\ flipCtxDone = FALSE
    /\ flipAt = "idle" /\ page = 0 /\ numPages = 0 /\ pages = <<>>

\* A request fails in submitRequest() or parseResults(): it always does once
\* the Context is done.
RequestFails ==
    /\ flipAt \in {"idle", "poll", "fetch"}
    /\ flipAt' = "error"
    /\ UNCHANGED <<runState, totalPages, flipCtxDone, page, numPages, pages>>

\* CreateQueryRun(), then FetchQueryResults().
CreateQueryRun ==
    /\ flipAt = "idle" /\ ~flipCtxDone
    /\ runState' = "QUERY_STATE_READY"
    /\ flipAt' = "poll"
    /\ UNCHANGED <<totalPages, flipCtxDone, page, numPages, pages>>

\* External: the query runs and ends; a result without rows has no pages.
QueryEnds ==
    /\ runState = "QUERY_STATE_READY"
    /\ runState' \in Terminal
    /\ totalPages' \in 0..MaxPages
    /\ UNCHANGED <<flipCtxDone, flipAt, page, numPages, pages>>

FlipContextDone ==
    /\ ~flipCtxDone
    /\ flipCtxDone' = TRUE
    /\ UNCHANGED <<runState, totalPages, flipAt, page, numPages, pages>>

\* Mutant of GetQueryRun: a run that was canceled is waited for.
GetQueryRunCanceled ==
    /\ flipAt = "poll" /\ ~flipCtxDone
    /\ \/ /\ runState = "QUERY_STATE_SUCCESS"
          /\ flipAt' = "fetch" /\ page' = 1 /\ numPages' = 1
       \/ /\ runState = "QUERY_STATE_FAILED"
          /\ flipAt' = "error" /\ UNCHANGED <<page, numPages>>
       \/ /\ runState \in {"QUERY_STATE_READY", "QUERY_STATE_CANCELED"}
          /\ flipAt' = "backoff" /\ UNCHANGED <<page, numPages>>
    /\ UNCHANGED <<runState, totalPages, flipCtxDone, pages>>

\* GetQueryRun() in AwaitQueryRunExecution(), and what AwaitQueryRunSuccess()
\* and FetchQueryResults() do when it returns.
GetQueryRun ==
    /\ flipAt = "poll" /\ ~flipCtxDone
    /\ \/ /\ runState = "QUERY_STATE_SUCCESS"
          /\ flipAt' = "fetch" /\ page' = 1 /\ numPages' = 1
       \/ /\ runState \in Terminal \ {"QUERY_STATE_SUCCESS"}
          /\ flipAt' = "error" /\ UNCHANGED <<page, numPages>>
       \/ /\ runState \notin Terminal
          /\ flipAt' = "backoff" /\ UNCHANGED <<page, numPages>>
    /\ UNCHANGED <<runState, totalPages, flipCtxDone, pages>>

\* The select: the Context is done, or the timer fires.  Both may be ready.
BackoffEnds ==
    /\ flipAt = "backoff"
    /\ \/ flipAt' = "poll"
       \/ flipCtxDone /\ flipAt' = "error"
    /\ UNCHANGED <<runState, totalPages, flipCtxDone, page, numPages, pages>>

\* Mutant of GetQueryRunResults: the number of pages is one too few.
GetQueryRunResultsShort ==
    /\ flipAt = "fetch" /\ ~flipCtxDone /\ page <= numPages
    /\ pages' = Append(pages, page)
    /\ page' = page + 1
    /\ numPages' = totalPages - 1
    /\ UNCHANGED <<runState, totalPages, flipCtxDone, flipAt>>

\* One iteration over the pages; the answer says how many there are.
GetQueryRunResults ==
    /\ flipAt = "fetch" /\ ~flipCtxDone /\ page <= numPages
    /\ pages' = Append(pages, page)
    /\ page' = page + 1
    /\ numPages' = totalPages
    /\ UNCHANGED <<runState, totalPages, flipCtxDone, flipAt>>

FetchReturns ==
    /\ flipAt = "fetch" /\ page > numPages
    /\ flipAt' = "done"
    /\ UNCHANGED <<runState, totalPages, flipCtxDone, page, numPages, pages>>

FlipNext ==
    \/ CreateQueryRun \/ GetQueryRun \/ BackoffEnds
    \/ GetQueryRunResults \/ FetchReturns \/ RequestFails
    \/ QueryEnds \/ FlipContextDone

FlipSpec == FlipInit /\ [][FlipNext]_flipVars

-----------------------------------------------------------------------------

(***************************************************************************)
(* The comment on FetchQueryResults(): it "waits until a given query       *)
(* succeeds and fetches all its results".  What it returns are all pages,  *)
(* once each and in order, of a query that succeeded; a result without     *)
(* rows is one empty page.                                                 *)
(***************************************************************************)
PagesAreComplete ==
    flipAt = "done" =>
        /\ runState = "QUERY_STATE_SUCCESS"
        /\ pages = [i \in 1..(IF totalPages = 0 THEN 1 ELSE totalPages) |-> i]

\* Once the query run has ended or the Context is done, FetchQueryResults()
\* returns: no state of the run is waited for in vain.
FetchEnds ==
    (flipAt # "idle" /\ (runState \in Terminal \/ flipCtxDone))
        ~> (flipAt \in {"done", "error"})

=============================================================================
