------------------------------ MODULE Library ------------------------------
(***************************************************************************)
(* Calls of the functions that keep no state: galois, the parsers of       *)
(* solcover, the Hydrant event extractors, the proto/eth conversions, the  *)
(* nullable types and the rarity of collections.  A state is one call with *)
(* its arguments; what it must return is a property of the arguments.      *)
(***************************************************************************)
EXTENDS Galois, SourceMap, EventLogs, Nullable, Rarity

CONSTANTS
    FieldSlices,        \* arguments of Convolve()
    ByteCodes,          \* arguments of parseCode()
    SrcMaps,            \* arguments of parseSrcMap()
    EventSigs,          \* signatures, requested and emitted
    EventContracts, EventRequested,     \* contracts that emit, and those asked for
    PayloadValues,      \* numbers in payloads and in nullable types
    Collections         \* collections of Rarity()

\* Arguments have the types of their functions.
IsSlice(xs) == Len0(xs) \in Nat \ {0} /\ xs \in [0..Len0(xs)-1 -> Nat]

ASSUME LibraryAssumption ==
    /\ \A xs \in FieldSlices : IsSlice(xs)
    /\ ByteCodes \subseteq Seq(Nat)
    /\ SrcMaps \subseteq Seq(Seq(Int))
    /\ EventSigs \subseteq Sigs
    /\ PayloadValues \subseteq Nat
    /\ \A coll \in Collections : IsCollection(coll)

VARIABLE libCall

NoCall == [op |-> "none"]

LibInit == libCall = NoCall

CallConvolve ==
    \E a, b \in FieldSlices : \E root \in ConvolutionRoot(a, b) :
        libCall' = [op |-> "Convolve", a |-> a, b |-> b, root |-> root]

\* RegisterContract() of a contract without a source map, and of its map.
CallParseCode == \E code \in ByteCodes : libCall' = [op |-> "parseCode", code |-> code]
CallParseSrcMap == \E nodes \in SrcMaps : libCall' = [op |-> "parseSrcMap", nodes |-> nodes]

\* What a contract emits, with different values in different logs.
Emitted(k) ==
    {[sig |-> s, emitter |-> c, values |-> [i \in DOMAIN s.args |-> 10 * k + i]] :
        s \in EventSigs, c \in EventContracts}
EmittedBlocks ==
    {<<<<e>>, <<f>>>> : e \in Emitted(1), f \in Emitted(2)}
        \cup {<<<<e, f>>>> : e \in Emitted(1), f \in Emitted(2)}

\* The signatures that ERC721TransferEvents() and Events() extract by.
SigRequests ==
    {withERC721TransferSig(<<>>)}
        \cup {<<s, t>> : s, t \in {u \in EventSigs : newEthEventExtractorOK(u)}}

CallExtract ==
    \E sigs \in SigRequests, block \in EmittedBlocks :
        libCall' = [op |-> "extract", sigs |-> sigs, block |-> block]

PayloadTypes == {"address", "bool", "bytes", "string", "bytes32", "uint8", "uint256"}
CallConversions ==
    \E type \in PayloadTypes, v \in PayloadValues :
        libCall' = [op |-> "conversions", payload |-> Payload(type, v)]

NullableValues == {NullableValue(0, FALSE)} \cup {NullableValue(v, TRUE) : v \in PayloadValues}
CallNullable ==
    \E kind \in {"address", "uint256"}, n \in NullableValues :
        libCall' = [op |-> "nullable", kind |-> kind, n |-> n]

CallRarity == \E coll \in Collections : libCall' = [op |-> "Rarity", coll |-> coll]

LibNext ==
    /\ libCall = NoCall
    /\ \/ CallConvolve \/ CallParseCode \/ CallParseSrcMap \/ CallExtract
       \/ CallConversions \/ CallNullable \/ CallRarity

LibSpec == LibInit /\ [][LibNext]_libCall

-----------------------------------------------------------------------------

(***************************************************************************)
(* The pure functions return what they promise: convolutions are those of  *)
(* the definition, op codes and source maps are read as solc wrote them,   *)
(* nullable values survive CSV, and JSON unless they are null, and         *)
(* rarities are made of probabilities (ConvolvesRight,                     *)
(* InstructionsNumbered, SrcMapDecompressed, NullableRoundTrips,           *)
(* RarityIsDistribution).                                                  *)
(***************************************************************************)
FunctionsAreRight ==
    /\ libCall.op = "Convolve" => ConvolvesRight(libCall.a, libCall.b, libCall.root)
    /\ libCall.op = "parseCode" => InstructionsNumbered(libCall.code)
    /\ libCall.op = "parseSrcMap" =>
          /\ SrcMapDecompressed(libCall.nodes)
          /\ \A code \in {<<0>>, <<1, 0, 2>>} :
                RegisterContractOutcome(code, libCall.nodes) = SrcMapOK =>
                    Len(libCall.nodes) <= Len(code)
    /\ libCall.op = "nullable" => NullableRoundTrips(libCall.kind, libCall.n)
    /\ libCall.op = "Rarity" => RarityIsDistribution(libCall.coll)

(***************************************************************************)
(* The comments on NullableAddress and NullableUint256: unlike a pointer,  *)
(* it "can be reliably marshalled to and from JSON and CSV".  The null of  *)
(* JSON does not come back: unmarshalJSONToString() makes the empty string *)
(* of it, which is the valid zero address, or an error for a uint256.      *)
(***************************************************************************)
NullsSurviveJSON ==
    libCall.op = "nullable" => JSONRoundTrips(libCall.kind, libCall.n)

(***************************************************************************)
(* The events that the Hydrant service sends are those that the requested  *)
(* contracts emitted (ExtractInvertsEmit), and reading their arguments     *)
(* with the conversions of proto/eth loses nothing (ConversionsAgree).     *)
(***************************************************************************)
EventsAreEmitted ==
    /\ libCall.op = "extract" =>
          ExtractInvertsEmit(libCall.sigs, EventRequested, libCall.block)
    /\ libCall.op = "conversions" => ConversionsAgree(libCall.payload)

=============================================================================
