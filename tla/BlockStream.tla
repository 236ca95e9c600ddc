----------------------------- MODULE BlockStream -----------------------------
(***************************************************************************)
(* go/firehose: the pipeline that takes blocks from a Firehose server to a *)
(* client of the Hydrant service.  Every call of Events() is a session of  *)
(* two goroutines: the fetcher in Proxy.Blocks() receives from the gRPC    *)
(* stream and offers each block on the unbuffered channel C; the handler   *)
(* in ethHandler.events() extracts the events and sends the result to the  *)
(* client, who calls Recv() until it returns an error.  After an error the *)
(* client may start another session from the cursor of the last response,  *)
(* while goroutines of earlier sessions are still on their way out.        *)
(*                                                                         *)
(* Blocks are numbered from 1 in the order of the stream, and the cursor   *)
(* of a block is its number.                                               *)
(***************************************************************************)
EXTENDS Naturals, Sequences

CONSTANTS
    MaxBlock,     \* the requested StopBlockNum
    MaxSessions   \* bound: sessions of the client

ASSUME BlockStreamAssumption == MaxBlock \in Nat /\ MaxSessions \in Nat

Blocks == 1..MaxBlock
Sessions == 1..MaxSessions

VARIABLES
    bad,        \* the blocks with a log that does not fit its signature
    cancelled,  \* the sessions whose ctx is done
    quit,       \* the sessions whose Blocks.quit is closed
    fetcher,    \* per session: where its fetcher is
    pos,        \* per session: the last block received from the stream
    err,        \* per session: Blocks.err, "nil" until it is set
    handler,    \* per session: where its handler is
    out,        \* per session: the block the handler is sending, else 0
    result,     \* per session: ethAdaptor.err, "none" until it is set
    session,    \* the latest session of the client
    client,     \* what the client is doing: "out", "recv" or its last result
    received    \* the blocks the client has received

fetcherVars == <<fetcher, pos, err>>
handlerVars == <<handler, out, result, quit>>
clientVars == <<session, client, received>>
vars == <<bad, cancelled, fetcherVars, handlerVars, clientVars>>

Errors == {"nil", "error", "ctx"}

TypeOK ==
    /\ bad \subseteq Blocks
    /\ cancelled \subseteq Sessions
    /\ quit \subseteq Sessions
    /\ fetcher \in [Sessions -> {"none", "recv", "offer", "returning", "ended"}]
    /\ pos \in [Sessions -> 0..MaxBlock]
    /\ err \in [Sessions -> Errors]
    /\ handler \in [Sessions -> {"none", "select", "send", "returning", "ended"}]
    /\ out \in [Sessions -> 0..MaxBlock]
    /\ result \in [Sessions -> Errors \cup {"none"}]
    /\ session \in 0..MaxSessions
    /\ client \in {"out", "recv"} \cup Errors
    /\ received \in Seq(Blocks)

Init ==
    /\ bad \in SUBSET Blocks
    /\ cancelled = {}
    /\ quit = {}
    /\ fetcher = [s \in Sessions |-> "none"]
    /\ pos = [s \in Sessions |-> 0]
    /\ err = [s \in Sessions |-> "nil"]
    /\ handler = [s \in Sessions |-> "none"]
    /\ out = [s \in Sessions |-> 0]
    /\ result = [s \in Sessions |-> "none"]
    /\ session = 0
    /\ client = "out"
    /\ received = <<>>

-----------------------------------------------------------------------------

\* The Cursor of the last BlockResponse.
Cursor == IF received = <<>> THEN 0 ELSE received[Len(received)]

\* The client calls Events() with its cursor; Proxy.Blocks() opens the stream.
Open(s) ==
    /\ client # "recv" /\ client # "nil"
    /\ s = session + 1
    /\ session' = s
    /\ client' = "recv"
    /\ fetcher' = [fetcher EXCEPT ![s] = "recv"]
    /\ pos' = [pos EXCEPT ![s] = Cursor]
    /\ handler' = [handler EXCEPT ![s] = "select"]
    /\ UNCHANGED <<bad, cancelled, quit, err, out, result, received>>

\* The same, but the stream cannot be opened, or the request is invalid.
OpenFails(s) ==
    /\ client # "recv" /\ client # "nil"
    /\ s = session + 1
    /\ session' = s
    /\ client' = "recv"
    /\ fetcher' = [fetcher EXCEPT ![s] = "ended"]
    /\ handler' = [handler EXCEPT ![s] = "returning"]
    /\ result' = [result EXCEPT ![s] = "error"]
    /\ UNCHANGED <<bad, cancelled, quit, pos, err, out, received>>

\* The client cancels its Context.
Cancel(s) ==
    /\ s = session /\ client = "recv" /\ s \notin cancelled
    /\ cancelled' = cancelled \cup {s}
    /\ UNCHANGED <<bad, fetcherVars, handlerVars, clientVars>>

(***************************************************************************)
(* The goroutine of Proxy.Blocks()                                         *)
(***************************************************************************)

\* stream.Recv() returns the next block.
FetchBlock(s) ==
    /\ fetcher[s] = "recv" /\ pos[s] < MaxBlock
    /\ fetcher' = [fetcher EXCEPT ![s] = "offer"]
    /\ pos' = [pos EXCEPT ![s] = @ + 1]
    /\ UNCHANGED <<bad, cancelled, err, handlerVars, clientVars>>

\* Mutant of FetcherReturns: C is closed first, and a handler that sees it
\* reads Blocks.err before that is set.
FetcherClosesFirst(s, e) ==
    /\ fetcher' = [fetcher EXCEPT ![s] = "ended"]
    /\ UNCHANGED <<bad, cancelled, pos, err, handlerVars, clientVars>>

\* The goroutine returns e: its deferred function sets Blocks.err
FetcherReturns(s, e) ==
    /\ fetcher' = [fetcher EXCEPT ![s] = "returning"]
    /\ err' = [err EXCEPT ![s] = e]
    /\ UNCHANGED <<bad, cancelled, pos, handlerVars, clientVars>>

\* and then closes C.
FetcherCloses(s) ==
    /\ fetcher[s] = "returning"
    /\ fetcher' = [fetcher EXCEPT ![s] = "ended"]
    /\ UNCHANGED <<bad, cancelled, pos, err, handlerVars, clientVars>>

\* io.EOF after the last block.
FetchEOF(s) ==
    /\ fetcher[s] = "recv" /\ pos[s] = MaxBlock
    /\ FetcherReturns(s, "nil")

\* stream.Recv() fails, as it does once ctx is done, or its result cannot be
\* unmarshalled.
FetchError(s) ==
    /\ fetcher[s] = "recv"
    /\ FetcherReturns(s, "error")

\* Mutant of FetcherQuit: there is no such case.
FetcherNoQuit(s) == FALSE

\* case <-ret.quit
FetcherQuit(s) ==
    /\ fetcher[s] = "offer" /\ s \in quit
    /\ FetcherReturns(s, "nil")

\* case <-ctx.Done()
FetcherCtx(s) ==
    /\ fetcher[s] = "offer" /\ s \in cancelled
    /\ FetcherReturns(s, "ctx")

(***************************************************************************)
(* ethHandler.events(), and the goroutine of newETHAdaptor() around it     *)
(***************************************************************************)

\* events() returns e: blocks.Close() releases the fetcher, and a.err is set,
\* which nobody reads before the channel to the client is closed.
HandlerReturns(s, e) ==
    /\ handler' = [handler EXCEPT ![s] = "returning"]
    /\ out' = [out EXCEPT ![s] = 0]
    /\ quit' = quit \cup {s}
    /\ result' = [result EXCEPT ![s] = e]

\* The deferred close(ch).
HandlerCloses(s) ==
    /\ handler[s] = "returning"
    /\ handler' = [handler EXCEPT ![s] = "ended"]
    /\ UNCHANGED <<bad, cancelled, out, result, quit, fetcherVars, clientVars>>

\* case b, ok := <-blocks.C with a block whose events can be extracted.
HandlerTakes(s) ==
    /\ handler[s] = "select" /\ fetcher[s] = "offer" /\ pos[s] \notin bad
    /\ handler' = [handler EXCEPT ![s] = "send"]
    /\ out' = [out EXCEPT ![s] = pos[s]]
    /\ fetcher' = [fetcher EXCEPT ![s] = "recv"]
    /\ UNCHANGED <<bad, cancelled, quit, pos, err, result, clientVars>>

\* Mutant of HandlerTakesBad: the block is skipped.
HandlerSkipsBad(s) ==
    /\ handler[s] = "select" /\ fetcher[s] = "offer" /\ pos[s] \in bad
    /\ fetcher' = [fetcher EXCEPT ![s] = "recv"]
    /\ UNCHANGED <<bad, cancelled, pos, err, handlerVars, clientVars>>

\* The same with a block whose events cannot.
HandlerTakesBad(s) ==
    /\ handler[s] = "select" /\ fetcher[s] = "offer" /\ pos[s] \in bad
    /\ fetcher' = [fetcher EXCEPT ![s] = "recv"]
    /\ HandlerReturns(s, "error")
    /\ UNCHANGED <<bad, cancelled, pos, err, clientVars>>

\* Mutant of HandlerEnds: the closed channel is not noticed.
HandlerSpins(s) ==
    /\ handler[s] = "select" /\ fetcher[s] = "ended"
    /\ UNCHANGED vars

\* C is closed: return blocks.Err()
HandlerEnds(s) ==
    /\ handler[s] = "select" /\ fetcher[s] = "ended"
    /\ HandlerReturns(s, err[s])
    /\ UNCHANGED <<bad, cancelled, fetcherVars, clientVars>>

\* case <-ctx.Done(), in events() or in send().
HandlerCtx(s) ==
    /\ handler[s] \in {"select", "send"} /\ s \in cancelled
    /\ HandlerReturns(s, "ctx")
    /\ UNCHANGED <<bad, cancelled, fetcherVars, clientVars>>

\* case ch <- b meets Recv().
Deliver(s) ==
    /\ handler[s] = "send" /\ s = session /\ client = "recv"
    /\ received' = Append(received, out[s])
    /\ handler' = [handler EXCEPT ![s] = "select"]
    /\ out' = [out EXCEPT ![s] = 0]
    /\ UNCHANGED <<bad, cancelled, quit, result, fetcherVars, session, client>>

\* Recv() on the closed channel returns a.err; "nil" stands for io.EOF.
ClientEnds(s) ==
    /\ s = session /\ client = "recv" /\ handler[s] = "ended"
    /\ client' = result[s]
    /\ UNCHANGED <<bad, cancelled, fetcherVars, handlerVars, session, received>>

-----------------------------------------------------------------------------

Fetcher(s) ==
    \/ FetchBlock(s) \/ FetchEOF(s) \/ FetchError(s) \/ FetcherQuit(s) \/ FetcherCtx(s)
    \/ FetcherCloses(s)

Handler(s) ==
    \/ HandlerTakes(s) \/ HandlerTakesBad(s) \/ HandlerEnds(s) \/ HandlerCtx(s)
    \/ HandlerCloses(s) \/ Deliver(s) \/ ClientEnds(s)

\* The client wants no more.
Ended ==
    /\ client # "recv"
    /\ client = "nil" \/ session = MaxSessions
    /\ UNCHANGED vars

Next ==
    \/ \E s \in Sessions :
         Open(s) \/ OpenFails(s) \/ Cancel(s) \/ Fetcher(s) \/ Handler(s)
    \/ Ended

Spec == Init /\ [][Next]_vars

(***************************************************************************)
(* Goroutines run, and the stream always comes up with a block, its end or *)
(* an error; the client calls Recv() until it returns an error.            *)
(***************************************************************************)
Fairness ==
    \A s \in Sessions : WF_vars(Fetcher(s)) /\ WF_vars(Handler(s))

FairSpec == Spec /\ Fairness

-----------------------------------------------------------------------------

(***************************************************************************)
(* Over all of its sessions the client receives every block once and in    *)
(* order, wherever errors and cancellations hit: resuming from the cursor  *)
(* of the last response neither skips nor repeats a block that was in the  *)
(* pipeline.                                                               *)
(***************************************************************************)
ReceivesInOrder == \A i \in 1..Len(received) : received[i] = i

(***************************************************************************)
(* io.EOF means that all blocks have been received: no error, cancellation *)
(* or early end of either goroutine is mistaken for the end of the stream. *)
(***************************************************************************)
EOFMeansComplete == client = "nil" => Len(received) = MaxBlock

(***************************************************************************)
(* The comment on Recv(): an error "is proof that the goroutine has        *)
(* finished", and so it is told about the block stream: once a session is  *)
(* over for the client, its fetcher ends as well.                          *)
(***************************************************************************)
FetcherIsReleased ==
    \A s \in Sessions : handler[s] = "ended" ~> fetcher[s] = "ended"

(***************************************************************************)
(* Every session comes to an end for a client that calls Recv() until it   *)
(* fails.                                                                  *)
(***************************************************************************)
SessionEnds ==
    client = "recv" ~> client # "recv"

=============================================================================
