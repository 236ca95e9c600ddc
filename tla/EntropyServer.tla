---------------------------- MODULE EntropyServer ----------------------------
(***************************************************************************)
(* contracts/entropy/entropyserver/main.go: the HTTP server that signs     *)
(* numbers of mined blocks; the hash of such a signature is the entropy    *)
(* that EntropyOracle accepts.  net/http runs one handler per request,     *)
(* concurrently.  The handlers share the cached number of the latest block *)
(* (an atomic) and a rate limiter, and ask an Ethereum node, which may be  *)
(* behind the head of the chain or fail.                                   *)
(***************************************************************************)
EXTENDS Naturals

CONSTANTS
    Handlers,   \* requests that may be handled at the same time
    MaxHead,    \* bound: the chain is explored up to this block
    Burst,      \* the burst of the rate limiter
    MaxLag      \* how far the node may be behind

Blocks == 0..(MaxHead + 1)

ASSUME EntropyServerAssumption ==
    /\ MaxHead \in Nat
    /\ Burst \in Nat \ {0}
    /\ MaxLag \in Nat

VARIABLES
    head,       \* the latest block of the chain
    mined,      \* whether a block was mined in this blockInterval
    currBlock,  \* source.currBlock
    tokens,     \* the tokens of source.limiter
    pc,         \* where each handler is; between requests, the last response
    due,        \* history: handlers whose block was mined when the request arrived
    block,      \* the block of its current request, else 0, as the next two
    curr,       \* its local variable curr
    latest,     \* its local variable latest
    signed      \* the blocks of which a signature has been returned

chainVars == <<head, mined>>
handlerVars == <<pc, due, block, curr, latest>>
vars == <<chainVars, currBlock, tokens, handlerVars, signed>>

\* The responses that end a request: OK, Forbidden, Internal Server Error.
\* Another method, no number or a negative one is refused before anything is
\* read or written, and not modelled.
Responses == {"200", "403", "500"}
AtRest == {"idle"} \cup Responses
Busy == {"load", "limit", "fetch", "cas"}

TypeOK ==
    /\ head \in 0..MaxHead
    /\ mined \in BOOLEAN
    /\ currBlock \in 0..MaxHead
    /\ tokens \in 0..Burst
    /\ pc \in [Handlers -> AtRest \cup Busy]
    /\ block \in [Handlers -> Blocks]
    /\ due \subseteq Handlers
    /\ curr \in [Handlers -> 0..MaxHead]
    /\ latest \in [Handlers -> 0..MaxHead]
    /\ signed \subseteq Blocks

Init ==
    /\ head = 0
    /\ mined = FALSE
    /\ currBlock = 0
    /\ tokens = Burst
    /\ pc = [h \in Handlers |-> "idle"]
    /\ block = [h \in Handlers |-> 0]
    /\ due = {}
    /\ curr = [h \in Handlers |-> 0]
    /\ latest = [h \in Handlers |-> 0]
    /\ signed = {}

-----------------------------------------------------------------------------

Goto(h, from, to) ==
    /\ pc[h] = from
    /\ pc' = [pc EXCEPT ![h] = to]

\* The handler of h responds and ends.
Respond(h, from, code) ==
    /\ Goto(h, from, code)
    /\ block' = [block EXCEPT ![h] = 0]
    /\ due' = due \ {h}
    /\ curr' = [curr EXCEPT ![h] = 0]
    /\ latest' = [latest EXCEPT ![h] = 0]

\* A GET of a block number arrives.
Request(h, b) ==
    /\ pc[h] \in AtRest
    /\ pc' = [pc EXCEPT ![h] = "load"]
    /\ block' = [block EXCEPT ![h] = b]
    /\ due' = IF b <= head THEN due \cup {h} ELSE due
    /\ UNCHANGED <<chainVars, currBlock, tokens, curr, latest, signed>>

\* Mutant of CacheHit: the comparison is off by one.
CacheHitNext(h) ==
    /\ Respond(h, "load", "200")
    /\ currBlock + 1 >= block[h]
    /\ signed' = signed \cup {block[h]}
    /\ UNCHANGED <<chainVars, currBlock, tokens>>

\* curr >= block: sign.  The key is in memory: neither signing nor writing the
\* response fails, either of which would be a 500 with no other effect.
CacheHit(h) ==
    /\ Respond(h, "load", "200")
    /\ currBlock >= block[h]
    /\ signed' = signed \cup {block[h]}
    /\ UNCHANGED <<chainVars, currBlock, tokens>>

\* curr < block: curr is kept for the CompareAndSwap.
CacheMiss(h) ==
    /\ Goto(h, "load", "limit")
    /\ currBlock < block[h]
    /\ curr' = [curr EXCEPT ![h] = currBlock]
    /\ UNCHANGED <<chainVars, currBlock, tokens, due, block, latest, signed>>

\* !limiter.Allow(): "block not yet mined".
LimiterDenies(h) ==
    /\ Respond(h, "limit", "403")
    /\ tokens = 0
    /\ UNCHANGED <<chainVars, currBlock, tokens, signed>>

\* limiter.Allow() takes a token.
LimiterAllows(h) ==
    /\ Goto(h, "limit", "fetch")
    /\ tokens > 0
    /\ tokens' = tokens - 1
    /\ UNCHANGED <<chainVars, currBlock, due, block, curr, latest, signed>>

\* s.latestBlock(ctx) is answered by a node that is at most MaxLag behind.
FetchLatest(h) ==
    /\ Goto(h, "fetch", "cas")
    /\ \E n \in 0..head : /\ n + MaxLag >= head
                          /\ latest' = [latest EXCEPT ![h] = n]
    /\ UNCHANGED <<chainVars, currBlock, tokens, due, block, curr, signed>>

\* s.latestBlock(ctx) fails.
FetchError(h) ==
    /\ Respond(h, "fetch", "500")
    /\ UNCHANGED <<chainVars, currBlock, tokens, signed>>

\* Mutant of Swap: Store instead of CompareAndSwap.
Store(h) ==
    /\ Respond(h, "cas", IF latest[h] >= block[h] THEN "200" ELSE "403")
    /\ currBlock' = latest[h]
    /\ signed' = IF latest[h] >= block[h] THEN signed \cup {block[h]} ELSE signed
    /\ UNCHANGED <<chainVars, tokens>>

\* s.currBlock.CompareAndSwap(curr, latest), then latest >= block decides.
Swap(h) ==
    /\ Respond(h, "cas", IF latest[h] >= block[h] THEN "200" ELSE "403")
    /\ currBlock' = IF currBlock = curr[h] THEN latest[h] ELSE currBlock
    /\ signed' = IF latest[h] >= block[h] THEN signed \cup {block[h]} ELSE signed
    /\ UNCHANGED <<chainVars, tokens>>

\* Mutant of Interval: the limiter is not refilled.
IntervalNoRefill ==
    /\ mined \/ tokens < Burst
    /\ mined' = FALSE
    /\ UNCHANGED <<head, currBlock, tokens, handlerVars, signed>>

\* A blockInterval goes by: the limiter gains a token.
Interval ==
    /\ mined \/ tokens < Burst
    /\ mined' = FALSE
    /\ tokens' = IF tokens < Burst THEN tokens + 1 ELSE tokens
    /\ UNCHANGED <<head, currBlock, handlerVars, signed>>

\* At most one block is mined in a blockInterval.
Mine ==
    /\ ~mined
    /\ head < MaxHead
    /\ head' = head + 1
    /\ mined' = TRUE
    /\ UNCHANGED <<currBlock, tokens, handlerVars, signed>>

Handle(h) ==
    \/ CacheHit(h) \/ CacheMiss(h) \/ LimiterDenies(h) \/ LimiterAllows(h)
    \/ FetchLatest(h) \/ FetchError(h) \/ Swap(h)

Next ==
    \/ \E h \in Handlers :
         \/ \E b \in Blocks : Request(h, b)
         \/ Handle(h)
    \/ Interval
    \/ Mine

Spec == Init /\ [][Next]_vars

(***************************************************************************)
(* Handlers run, time goes by, the node answers any handler that asks it   *)
(* again and again, and clients keep asking for every block.               *)
(***************************************************************************)
Fairness ==
    /\ \A h \in Handlers : WF_vars(Handle(h)) /\ SF_vars(FetchLatest(h))
    /\ WF_vars(Interval)
    /\ \A b \in 1..MaxHead : SF_vars(\E h \in Handlers : Request(h, b))

FairSpec == Spec /\ Fairness

-----------------------------------------------------------------------------

\* The server signs the number of a block only once it has been mined, whatever
\* the interleaving of handlers and however stale the cache.
SignedIsMined == \A b \in signed : b <= head

(***************************************************************************)
(* The cached number goes back by no more than the node is behind, and not *)
(* at all if it never is, although handlers may finish in another order    *)
(* than they asked the node: the CompareAndSwap of a handler that was      *)
(* overtaken fails.                                                        *)
(***************************************************************************)
CacheRegressesWithinLag == [][currBlock' + MaxLag >= currBlock]_vars

(***************************************************************************)
(* Retrying works: the signature of a block that every answer of the node  *)
(* includes is eventually returned, although requests for blocks not yet   *)
(* mined use up the tokens, stale answers may come first and the cache may *)
(* go back.                                                                *)
(***************************************************************************)
MinedGetsSigned ==
    \A b \in 1..MaxHead : b + MaxLag <= head ~> b \in signed

(***************************************************************************)
(* The doc of sign(): it "signs it i.f.f. the block has already been       *)
(* mined", and 403 is "reserved for blocks not yet mined".                 *)
(***************************************************************************)
ForbiddenIsNotMined ==
    [][\A h \in Handlers :
          pc[h] \in Busy /\ pc'[h] = "403" => h \notin due]_vars

=============================================================================
