----------------------------- MODULE EventLogs -----------------------------
(***************************************************************************)
(* How the Hydrant service turns the logs of a block into events: the      *)
(* ethEventExtractors of go/firehose/ethservice.go, over the signatures of *)
(* proto/eth.  A signature is a name and a sequence of arguments, each     *)
(* with a name, a type and an indexed flag.  A log is what the EVM makes   *)
(* of an event: topics and data are the raw values of the arguments.       *)
(***************************************************************************)
EXTENDS Values, Functions

\* The elements of s that are in W, in order.
Selected(s, W) ==
    LET sel[i \in 0..Len(s)] ==
            IF i = 0 THEN <<>> ELSE IF s[i] \in W THEN Append(sel[i-1], s[i]) ELSE sel[i-1]
    IN sel[Len(s)]

\* What stands for an empty name of an argument.
Unnamed == "unnamed"

Sigs == [name : STRING,
         args : Seq([name : STRING, type : STRING, indexed : BOOLEAN])]

\* The hash of a signature identifies its name and types, not what is indexed.
params(sig) == [i \in DOMAIN sig.args |-> sig.args[i].type]
EVMHash(sig) == <<sig.name, params(sig)>>

\* The positions of the arguments that are indexed, or that are not, in order.
Positions(sig, indexed) ==
    Selected([i \in DOMAIN sig.args |-> i],
             {i \in DOMAIN sig.args : sig.args[i].indexed = indexed})

ERC721TransferEvent ==
    LET arg(name, type) == [name |-> name, type |-> type, indexed |-> TRUE]
    IN [name |-> "Transfer",
        args |-> <<arg("from", "address"), arg("to", "address"), arg("tokenId", "uint256")>>]

\* withERC721TransferSig(): the signatures of the request, empty on an error.
withERC721TransferSig(sigs) == IF sigs = <<>> THEN <<ERC721TransferEvent>> ELSE <<>>

\* newEthEventExtractor() fails on a name used twice; unnamed ones differ.
newEthEventExtractorOK(sig) ==
    \A i, j \in DOMAIN sig.args :
        sig.args[i].name = sig.args[j].name => i = j \/ sig.args[i].name = Unnamed

\* The extractors of a request, by hash: a later signature replaces an earlier.
ethEventExtractors(sigs) ==
    [h \in {EVMHash(sigs[i]) : i \in DOMAIN sigs} |->
        sigs[CHOOSE i \in DOMAIN sigs :
                /\ EVMHash(sigs[i]) = h
                /\ \A j \in DOMAIN sigs : j > i => EVMHash(sigs[j]) # h]]

\* What the ABI decoder makes of a raw value, in a topic or in the data.
Dynamic(type) == type \in {"string", "bytes"}
Decoded(arg, raw) ==
    GoValue(CASE arg.indexed /\ Dynamic(arg.type) -> "common.Hash"
              [] arg.type = "address" -> "common.Address"
              [] arg.type = "bytes" -> "[]byte"
              [] arg.type = "bytes32" -> "[32]byte"
              [] arg.type = "uint256" -> "*big.Int"
              [] OTHER -> arg.type, raw)

\* setArgument() fails without a name, or when the payload cannot be set.
setArgumentOK(arg, raw) ==
    arg.name # Unnamed /\ SetPayloadOK(Payload(arg.type, 0), Decoded(arg, raw))

EventError == [ok |-> FALSE, name |-> "none", emitter |-> "none", args |-> <<>>]

\* Mutant of RawArguments: values are set in the order in which they are found.
RawArgumentsAsFound(sig, log) == Tail(log.topics) \o log.data

\* The raw value of every argument, topics and data set by argument name.
RawArguments(sig, log) ==
    LET indexed == Positions(sig, TRUE)
        nonIndexed == Positions(sig, FALSE)
    IN [i \in DOMAIN sig.args |->
          IF sig.args[i].indexed
          THEN log.topics[1 + CHOOSE k \in DOMAIN indexed : indexed[k] = i]
          ELSE log.data[CHOOSE k \in DOMAIN nonIndexed : nonIndexed[k] = i]]

asEvent(sig, log) ==
    IF \/ Len(log.topics) # Len(Positions(sig, TRUE)) + 1
       \/ Len(log.data) < Len(Positions(sig, FALSE))
       \/ \E i \in DOMAIN sig.args : ~setArgumentOK(sig.args[i], 0)
    THEN EventError
    ELSE LET raw == RawArguments(sig, log)
         IN [ok |-> TRUE, name |-> sig.name, emitter |-> log.address,
             args |-> [i \in DOMAIN sig.args |->
                 SetPayload(Payload(sig.args[i].type, 0), Decoded(sig.args[i], raw[i]))]]

\* extract(): the events of every transaction that has any; one log that
\* cannot be turned into an event fails the whole block.
extract(exs, block, contracts) ==
    LET wanted(tx) == {log \in Range(tx) : /\ log.address \in contracts
                                           /\ log.topics # <<>> /\ log.topics[1] \in DOMAIN exs}
        events(tx) == LET logs == Selected(tx, wanted(tx))
                      IN [i \in DOMAIN logs |-> asEvent(exs[logs[i].topics[1]], logs[i])]
        txs == [t \in DOMAIN block |-> events(block[t])]
    IN [ok |-> \A t \in DOMAIN txs : \A i \in DOMAIN txs[t] : txs[t][i].ok,
        txs |-> Selected(txs, Range(txs) \ {<<>>})]

-----------------------------------------------------------------------------

\* External: the log of an event that a contract emits with the given values.
LogOf(sig, emitter, values) ==
    LET pick(ps) == [k \in DOMAIN ps |-> values[ps[k]]]
    IN [address |-> emitter,
        topics |-> <<EVMHash(sig)>> \o pick(Positions(sig, TRUE)),
        data |-> pick(Positions(sig, FALSE))]

\* An event in which the service can represent every argument.
Representable(sig) ==
    \A i \in DOMAIN sig.args :
        /\ sig.args[i].name # Unnamed
        /\ sig.args[i].type \in {"address", "bool", "bytes", "string", "uint8", "uint256"}
        /\ ~(sig.args[i].indexed /\ Dynamic(sig.args[i].type))

\* Which arguments of an event are indexed.
Layout(sig) == [i \in DOMAIN sig.args |-> sig.args[i].indexed]

\* Event r is emitted event e: it has its arguments at their declared positions,
\* unless the requested signature has others indexed, but as many.
Says(r, e, requested) ==
    /\ r.name = e.sig.name /\ r.emitter = e.emitter
    /\ Layout(e.sig) = Layout(requested) => [i \in DOMAIN r.args |-> r.args[i].v] = e.values

(***************************************************************************)
(* The block that a subscriber receives says what the requested contracts  *)
(* emitted under the requested signatures, in order, each argument at its  *)
(* declared position with the emitted value, however topics and data were  *)
(* split.  When the service fails instead, a requested event cannot be     *)
(* represented or differs from its signature in what is indexed.           *)
(*                                                                         *)
(* emitted is a sequence of transactions, each one of events with their    *)
(* signature, emitter and values.                                          *)
(***************************************************************************)
ExtractInvertsEmit(sigs, contracts, emitted) ==
    LET exs == ethEventExtractors(sigs)
        block == [t \in DOMAIN emitted |-> [i \in DOMAIN emitted[t] |->
                    LogOf(emitted[t][i].sig, emitted[t][i].emitter, emitted[t][i].values)]]
        r == extract(exs, block, contracts)
        relevant(tx) == {e \in Range(tx) : e.emitter \in contracts /\ EVMHash(e.sig) \in DOMAIN exs}
        all == [t \in DOMAIN emitted |-> Selected(emitted[t], relevant(emitted[t]))]
        said == Selected(all, Range(all) \ {<<>>})
        requested(e) == exs[EVMHash(e.sig)]
    IN IF r.ok
       THEN /\ DOMAIN r.txs = DOMAIN said
            /\ \A t \in DOMAIN said :
                 /\ DOMAIN r.txs[t] = DOMAIN said[t]
                 /\ \A i \in DOMAIN said[t] :
                      Says(r.txs[t][i], said[t][i], requested(said[t][i]))
       ELSE \E t \in DOMAIN emitted : \E e \in relevant(emitted[t]) :
                ~Representable(requested(e)) \/ Layout(e.sig) # Layout(requested(e))

=============================================================================
