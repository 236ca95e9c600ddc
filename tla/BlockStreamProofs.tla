------------------------- MODULE BlockStreamProofs -------------------------
(***************************************************************************)
(* Proofs about BlockStream: the client receives every block once and in   *)
(* order over all its sessions, and io.EOF only after the last one.        *)
(***************************************************************************)
EXTENDS BlockStream, TLAPS

\* A goroutine that has returned has set its error, whether its channel is
\* closed yet or not.
Returned == {"returning", "ended"}

\* Where the blocks are between the stream and the client of session s.
Pipeline(s) ==
    /\ handler[s] = "select" =>
         /\ fetcher[s] = "recv" => pos[s] = Len(received)
         /\ fetcher[s] = "offer" => pos[s] = Len(received) + 1
         /\ fetcher[s] \in Returned /\ err[s] = "nil" => Len(received) = MaxBlock
    /\ handler[s] = "send" =>
         /\ out[s] = Len(received) + 1
         /\ fetcher[s] = "recv" => pos[s] = Len(received) + 1
         /\ fetcher[s] = "offer" => pos[s] = Len(received) + 2
         /\ fetcher[s] \in Returned /\ err[s] = "nil" => Len(received) + 1 = MaxBlock
    /\ handler[s] \in Returned /\ result[s] = "nil" => Len(received) = MaxBlock

\* The stream is told to quit only by a handler that has returned, and one
\* that has returned has set its error.
ReturnsInOrder ==
    \A s \in Sessions :
        /\ s \in quit => handler[s] \in Returned
        /\ handler[s] \in Returned => result[s] # "none"

\* Sessions to come have no goroutines yet.
Unopened == \A s \in Sessions : s > session => handler[s] = "none"

CurrentSession == client = "recv" => session \in Sessions /\ Pipeline(session)

StreamInv ==
    /\ TypeOK /\ ReturnsInOrder /\ Unopened /\ CurrentSession
    /\ ReceivesInOrder /\ EOFMeansComplete

-----------------------------------------------------------------------------

\* The cursor of the last response is the number of blocks received.
LEMMA CursorIsLen ==
    ASSUME TypeOK, ReceivesInOrder
    PROVE  Cursor = Len(received) /\ Len(received) \in 0..MaxBlock
<1>1. Len(received) \in Nat /\ \A i \in 1..Len(received) : received[i] \in Blocks
    BY DEF TypeOK
<1>2. CASE received = <<>>
    BY <1>2, BlockStreamAssumption DEF Cursor
<1>3. CASE received # <<>>
    <2>1. Len(received) \in 1..Len(received)
        BY <1>3 DEF TypeOK
    <2>2. received[Len(received)] = Len(received)
        BY <2>1 DEF ReceivesInOrder
    <2> QED BY <1>1, <1>3, <2>1, <2>2, BlockStreamAssumption DEF Cursor, Blocks
<1> QED BY <1>2, <1>3

\* No session has been opened.
LEMMA InitStreamInv == Init => StreamInv
<1> SUFFICES ASSUME Init PROVE StreamInv
    OBVIOUS
<1>1. TypeOK
    BY BlockStreamAssumption DEF Init, TypeOK, Errors
<1>2. ReturnsInOrder /\ Unopened /\ CurrentSession /\ EOFMeansComplete
    BY DEF Init, Returned, ReturnsInOrder, Unopened, CurrentSession, EOFMeansComplete
<1>3. ReceivesInOrder
    BY DEF Init, ReceivesInOrder
<1> QED BY <1>1, <1>2, <1>3 DEF StreamInv

\* A step of the fetcher of Proxy.Blocks().
LEMMA FetcherStreamInv ==
    ASSUME StreamInv, NEW s \in Sessions, Fetcher(s)
    PROVE  StreamInv'
<1> USE BlockStreamAssumption DEF StreamInv, TypeOK, Errors, Returned
<1>0. /\ UNCHANGED <<bad, cancelled, handler, out, result, quit, session, client, received>>
      /\ \A t \in Sessions : t # s =>
            fetcher'[t] = fetcher[t] /\ pos'[t] = pos[t] /\ err'[t] = err[t]
    BY DEF Fetcher, FetchBlock, FetchEOF, FetchError, FetcherQuit, FetcherCtx, FetcherReturns,
           FetcherCloses, handlerVars, clientVars
<1>1. TypeOK'
    <2>1. CASE FetchBlock(s)
        BY <1>0, <2>1 DEF FetchBlock
    <2>2. ASSUME NEW e \in Errors, FetcherReturns(s, e) PROVE TypeOK'
        BY <1>0, <2>2 DEF FetcherReturns
    <2>3. CASE FetcherCloses(s)
        BY <1>0, <2>3 DEF FetcherCloses
    <2>4. FetchBlock(s) \/ FetcherCloses(s) \/ \E e \in Errors : FetcherReturns(s, e)
        BY DEF Fetcher, FetchEOF, FetchError, FetcherQuit, FetcherCtx
    <2> QED BY <2>1, <2>2, <2>3, <2>4
<1>2. ReturnsInOrder'
    BY <1>0 DEF ReturnsInOrder
<1>3. Unopened' /\ ReceivesInOrder' /\ EOFMeansComplete'
    BY <1>0 DEF Unopened, ReceivesInOrder, EOFMeansComplete
<1>4. CurrentSession'
    <2> SUFFICES ASSUME client = "recv" PROVE session \in Sessions /\ Pipeline(session)'
        BY <1>0 DEF CurrentSession
    <2>1. session \in Sessions /\ Pipeline(session)
        BY DEF CurrentSession
    <2>2. CASE session # s
        BY <1>0, <2>1, <2>2 DEF Pipeline
    <2>3. CASE session = s /\ FetchBlock(s)
        BY <1>0, <2>1, <2>3 DEF Pipeline, FetchBlock
    <2>4. CASE session = s /\ FetchEOF(s)
        BY <1>0, <2>1, <2>4 DEF Pipeline, FetchEOF, FetcherReturns
    <2>5. CASE session = s /\ (FetchError(s) \/ FetcherCtx(s))
        BY <1>0, <2>1, <2>5 DEF Pipeline, FetchError, FetcherCtx, FetcherReturns
    <2>6. CASE session = s /\ FetcherQuit(s)
        BY <1>0, <2>1, <2>6 DEF Pipeline, FetcherQuit, FetcherReturns, ReturnsInOrder
    <2>7. CASE session = s /\ FetcherCloses(s)
        BY <1>0, <2>1, <2>7 DEF Pipeline, FetcherCloses
    <2> QED BY <2>1, <2>2, <2>3, <2>4, <2>5, <2>6, <2>7 DEF Fetcher
<1> QED BY <1>1, <1>2, <1>3, <1>4

\* events() returns e for session s, and only for it.
LEMMA HandlerReturnsStreamInv ==
    ASSUME StreamInv, NEW s \in Sessions, NEW e \in Errors,
           handler[s] # "none",
           HandlerReturns(s, e),
           UNCHANGED <<bad, cancelled, pos, err, session, client, received>>,
           fetcher' \in [Sessions -> {"none", "recv", "offer", "returning", "ended"}],
           \A t \in Sessions : t # s => fetcher'[t] = fetcher[t],
           s = session /\ client = "recv" /\ e = "nil" => Len(received) = MaxBlock
    PROVE  StreamInv'
<1> USE BlockStreamAssumption DEF StreamInv, TypeOK, HandlerReturns, Returned
<1>1. TypeOK'
    <2>1. e \in Errors /\ 0 \in 0..MaxBlock
        OBVIOUS
    <2> QED BY <2>1
<1>2. ReturnsInOrder'
    BY DEF ReturnsInOrder, Errors
<1>3. Unopened' /\ ReceivesInOrder' /\ EOFMeansComplete'
    BY DEF Unopened, ReceivesInOrder, EOFMeansComplete
<1>4. CurrentSession'
    <2> SUFFICES ASSUME client = "recv" PROVE session \in Sessions /\ Pipeline(session)'
        BY DEF CurrentSession
    <2>1. session \in Sessions /\ Pipeline(session)
        BY DEF CurrentSession
    <2>2. CASE session # s
        BY <2>1, <2>2 DEF Pipeline
    <2>3. CASE session = s
        BY <2>1, <2>3 DEF Pipeline
    <2> QED BY <2>1, <2>2, <2>3
<1> QED BY <1>1, <1>2, <1>3, <1>4

\* A step of ethHandler.events(), or of the client calling Recv().
LEMMA HandlerStreamInv ==
    ASSUME StreamInv, NEW s \in Sessions, Handler(s)
    PROVE  StreamInv'
<1> USE BlockStreamAssumption DEF StreamInv, TypeOK, Errors, Returned
<1>0. Len(received) \in 0..MaxBlock
    BY CursorIsLen
<1>1. CASE HandlerTakes(s)
    <2>1. /\ UNCHANGED <<bad, cancelled, quit, pos, err, result, session, client, received>>
          /\ handler[s] = "select" /\ fetcher[s] = "offer"
          /\ handler' = [handler EXCEPT ![s] = "send"]
          /\ out' = [out EXCEPT ![s] = pos[s]]
          /\ fetcher' = [fetcher EXCEPT ![s] = "recv"]
        BY <1>1 DEF HandlerTakes, clientVars
    <2>2. TypeOK'
        BY <2>1
    <2>3. ReturnsInOrder'
        BY <2>1 DEF ReturnsInOrder
    <2>4. Unopened' /\ ReceivesInOrder' /\ EOFMeansComplete'
        BY <2>1 DEF Unopened, ReceivesInOrder, EOFMeansComplete
    <2>5. CurrentSession'
        BY <2>1, <1>0 DEF CurrentSession, Pipeline
    <2> QED BY <2>2, <2>3, <2>4, <2>5
<1>2. CASE HandlerTakesBad(s)
    <2>1. /\ UNCHANGED <<bad, cancelled, pos, err, session, client, received>>
          /\ handler[s] # "none" /\ HandlerReturns(s, "error")
          /\ fetcher' = [fetcher EXCEPT ![s] = "recv"]
        BY <1>2 DEF HandlerTakesBad, clientVars
    <2> HIDE DEF StreamInv
    <2>2. /\ fetcher' \in [Sessions -> {"none", "recv", "offer", "returning", "ended"}]
          /\ \A t \in Sessions : t # s => fetcher'[t] = fetcher[t]
        BY <2>1 DEF StreamInv
    <2> QED BY <2>1, <2>2, HandlerReturnsStreamInv
<1>3. CASE HandlerEnds(s)
    <2>1. /\ UNCHANGED <<bad, cancelled, fetcher, pos, err, session, client, received>>
          /\ handler[s] = "select" /\ fetcher[s] = "ended" /\ HandlerReturns(s, err[s])
        BY <1>3 DEF HandlerEnds, fetcherVars, clientVars
    <2>2. err[s] \in Errors
        OBVIOUS
    <2>3. s = session /\ client = "recv" /\ err[s] = "nil" => Len(received) = MaxBlock
        BY <2>1 DEF CurrentSession, Pipeline
    <2> QED BY <2>1, <2>2, <2>3, HandlerReturnsStreamInv
<1>4. CASE HandlerCtx(s)
    <2>1. /\ UNCHANGED <<bad, cancelled, fetcher, pos, err, session, client, received>>
          /\ handler[s] # "none" /\ HandlerReturns(s, "ctx")
        BY <1>4 DEF HandlerCtx, fetcherVars, clientVars
    <2> QED BY <2>1, HandlerReturnsStreamInv
<1>5. CASE Deliver(s)
    <2>1. /\ UNCHANGED <<bad, cancelled, quit, result, fetcher, pos, err, session, client>>
          /\ handler[s] = "send" /\ s = session /\ client = "recv"
          /\ received' = Append(received, out[s])
          /\ handler' = [handler EXCEPT ![s] = "select"]
          /\ out' = [out EXCEPT ![s] = 0]
        BY <1>5 DEF Deliver, fetcherVars
    <2>2. Pipeline(s) /\ out[s] = Len(received) + 1 /\ out[s] \in Blocks
        BY <2>1, <1>0 DEF CurrentSession, Pipeline, Blocks
    <2>3. /\ received' \in Seq(Blocks) /\ Len(received') = Len(received) + 1
          /\ \A i \in 1..Len(received) : received'[i] = received[i]
          /\ received'[Len(received) + 1] = Len(received) + 1
        BY <2>1, <2>2, <1>0
    <2>4. TypeOK'
        BY <2>1, <2>3
    <2>5. ReturnsInOrder' /\ Unopened'
        BY <2>1 DEF ReturnsInOrder, Unopened
    <2>6. ReceivesInOrder'
        <3> SUFFICES ASSUME NEW i \in 1..(Len(received) + 1) PROVE received'[i] = i
            BY <2>3 DEF ReceivesInOrder
        <3>1. CASE i = Len(received) + 1
            BY <3>1, <2>3
        <3>2. CASE i \in 1..Len(received)
            BY <3>2, <2>3 DEF ReceivesInOrder
        <3> QED BY <1>0, <3>1, <3>2
    <2>7. EOFMeansComplete'
        BY <2>1 DEF EOFMeansComplete
    <2>8. CurrentSession'
        BY <2>1, <2>2, <2>3, <1>0 DEF CurrentSession, Pipeline
    <2> QED BY <2>4, <2>5, <2>6, <2>7, <2>8
<1>6. CASE ClientEnds(s)
    <2>1. /\ UNCHANGED <<bad, cancelled, quit, fetcher, pos, err, handler, out, result, session, received>>
          /\ s = session /\ client = "recv" /\ handler[s] = "ended" /\ client' = result[s]
        BY <1>6 DEF ClientEnds, fetcherVars, handlerVars
    <2>2. client' \in {"nil", "error", "ctx"} /\ (client' = "nil" => Len(received) = MaxBlock)
        BY <2>1 DEF ReturnsInOrder, CurrentSession, Pipeline
    <2>3. TypeOK'
        BY <2>1, <2>2
    <2>4. ReturnsInOrder' /\ Unopened' /\ ReceivesInOrder'
        BY <2>1 DEF ReturnsInOrder, Unopened, ReceivesInOrder
    <2>5. EOFMeansComplete' /\ CurrentSession'
        BY <2>1, <2>2 DEF EOFMeansComplete, CurrentSession
    <2> QED BY <2>3, <2>4, <2>5
<1>7. CASE HandlerCloses(s)
    <2>1. /\ UNCHANGED <<bad, cancelled, quit, fetcher, pos, err, out, result, session, client, received>>
          /\ handler[s] = "returning" /\ handler' = [handler EXCEPT ![s] = "ended"]
        BY <1>7 DEF HandlerCloses, fetcherVars, clientVars
    <2>2. TypeOK'
        BY <2>1
    <2>3. ReturnsInOrder' /\ Unopened' /\ ReceivesInOrder' /\ EOFMeansComplete'
        BY <2>1 DEF ReturnsInOrder, Unopened, ReceivesInOrder, EOFMeansComplete
    <2>4. CurrentSession'
        BY <2>1 DEF CurrentSession, Pipeline
    <2> QED BY <2>2, <2>3, <2>4
<1> QED
    BY <1>1, <1>2, <1>3, <1>4, <1>5, <1>6, <1>7 DEF Handler

\* Events() is called, with the cursor of the last response, or its Context is
\* cancelled.
LEMMA ClientStreamInv ==
    ASSUME StreamInv, NEW s \in Sessions, Open(s) \/ OpenFails(s) \/ Cancel(s)
    PROVE  StreamInv'
<1> USE BlockStreamAssumption DEF StreamInv, TypeOK, Errors, Returned
<1>0. Cursor = Len(received) /\ Len(received) \in 0..MaxBlock
    BY CursorIsLen
<1>1. CASE Open(s)
    <2>1. /\ UNCHANGED <<bad, cancelled, quit, err, out, result, received>>
          /\ session' = s /\ client' = "recv"
          /\ fetcher' = [fetcher EXCEPT ![s] = "recv"]
          /\ pos' = [pos EXCEPT ![s] = Len(received)]
          /\ handler' = [handler EXCEPT ![s] = "select"]
          /\ s = session + 1 /\ s \notin quit
        <3>1. s = session + 1 /\ session \in Nat /\ s > session
            BY <1>1 DEF Open, Sessions
        <3>2. s \notin quit
            BY <3>1 DEF Unopened, ReturnsInOrder
        <3> QED BY <1>1, <1>0, <3>1, <3>2 DEF Open
    <2>2. TypeOK'
        BY <2>1, <1>0 DEF Sessions
    <2>3. ReturnsInOrder' /\ Unopened' /\ ReceivesInOrder'
        BY <2>1 DEF ReturnsInOrder, Unopened, ReceivesInOrder, Sessions
    <2>4. EOFMeansComplete' /\ CurrentSession'
        BY <2>1 DEF EOFMeansComplete, CurrentSession, Pipeline
    <2> QED BY <2>2, <2>3, <2>4
<1>2. CASE OpenFails(s)
    <2>1. /\ UNCHANGED <<bad, cancelled, quit, pos, err, out, received>>
          /\ s = session + 1 /\ session' = s /\ client' = "recv"
          /\ fetcher' = [fetcher EXCEPT ![s] = "ended"]
          /\ handler' = [handler EXCEPT ![s] = "returning"]
          /\ result' = [result EXCEPT ![s] = "error"]
        BY <1>2 DEF OpenFails
    <2>2. TypeOK'
        BY <2>1 DEF Sessions
    <2>3. ReturnsInOrder' /\ Unopened' /\ ReceivesInOrder'
        BY <2>1 DEF ReturnsInOrder, Unopened, ReceivesInOrder, Sessions
    <2>4. EOFMeansComplete' /\ CurrentSession'
        BY <2>1 DEF EOFMeansComplete, CurrentSession, Pipeline
    <2> QED BY <2>2, <2>3, <2>4
<1>3. CASE Cancel(s)
    BY <1>3 DEF Cancel, fetcherVars, handlerVars, clientVars, ReturnsInOrder, Unopened, ReceivesInOrder,
                EOFMeansComplete, CurrentSession, Pipeline
<1> QED
    BY <1>1, <1>2, <1>3

\* Every step keeps the invariant.
LEMMA NextStreamInv == StreamInv /\ [Next]_vars => StreamInv'
<1> SUFFICES ASSUME StreamInv, [Next]_vars PROVE StreamInv'
    OBVIOUS
<1>1. CASE UNCHANGED vars
    BY <1>1 DEF vars, fetcherVars, handlerVars, clientVars, StreamInv, TypeOK, ReturnsInOrder,
                Unopened, ReceivesInOrder, EOFMeansComplete, CurrentSession, Pipeline
<1>2. ASSUME NEW s \in Sessions, Open(s) \/ OpenFails(s) \/ Cancel(s) PROVE StreamInv'
    BY <1>2, ClientStreamInv
<1>3. ASSUME NEW s \in Sessions, Fetcher(s) PROVE StreamInv'
    BY <1>3, FetcherStreamInv
<1>4. ASSUME NEW s \in Sessions, Handler(s) PROVE StreamInv'
    BY <1>4, HandlerStreamInv
<1> QED
    BY <1>1, <1>2, <1>3, <1>4 DEF Next, Ended

\* Over all sessions of a client of Events(), for any number of blocks, any
\* failures and cancellations, it receives every block once and in order.
THEOREM BlocksAreReceivedInOrder == Spec => []ReceivesInOrder
<1>1. StreamInv => ReceivesInOrder
    BY DEF StreamInv
<1> QED
    BY InitStreamInv, NextStreamInv, <1>1, PTL DEF Spec

\* Recv() returns io.EOF only after the last block has been received: no error
\* or early return of either goroutine is mistaken for the end of the stream.
THEOREM EOFOnlyAtTheEnd == Spec => []EOFMeansComplete
<1>1. StreamInv => EOFMeansComplete
    BY DEF StreamInv
<1> QED
    BY InitStreamInv, NextStreamInv, <1>1, PTL DEF Spec

=============================================================================
