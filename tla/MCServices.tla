----------------------------- MODULE MCServices -----------------------------
(***************************************************************************)
(* A small instance of Services: see Services.cfg for the bounds.          *)
(***************************************************************************)
EXTENDS Services

\* Slices of one to three field elements; with q = 5, Convolve() then needs
\* roots of order 1, 2, 4 and 8, of which the field has those of 2 and 4.
MCSlices == UNION {[0..n-1 -> {0, 1, 3}] : n \in 1..3}

MCByteCodes == UNION {[1..n -> 0..2] : n \in 0..5}

\* Full, partial and empty nodes; files 0 to 3 are one with contents, one
\* without, one not registered and one out of the list.
MCNodes == {<<Blank>>, <<0, 2, 0, 1, 0>>, <<3>>, <<Blank, 0>>, <<Blank, Blank, 1, 1>>,
            <<Blank, -1>>, <<Blank, Blank, 2>>, <<Blank, 1, Blank, Blank, 1>>, <<1, 1, 3, 0, 0>>}
MCSrcMaps == UNION {[1..n -> MCNodes] : n \in 1..3}
MCSourceList == <<"a.sol", "empty.sol", "unregistered.sol">>
MCFileLen == [f \in {"a.sol", "empty.sol"} |-> IF f = "a.sol" THEN 4 ELSE 0]

\* An ERC721 and an ERC20 Transfer, which have the same hash, as has one with as
\* many topics as the latter; data before and after a topic; an indexed string;
\* arguments without names.
MCArg(name, type, indexed) == [name |-> name, type |-> type, indexed |-> indexed]
MCSigs ==
    {ERC721TransferEvent,
     [ERC721TransferEvent EXCEPT !.args[3].indexed = FALSE],
     [ERC721TransferEvent EXCEPT !.args[1].indexed = FALSE],
     [name |-> "Mixed", args |-> <<MCArg("x", "uint8", FALSE), MCArg("y", "address", TRUE),
                                   MCArg("z", "string", FALSE)>>],
     [name |-> "Named", args |-> <<MCArg("s", "string", TRUE)>>],
     [name |-> "Unnamed", args |-> <<MCArg(Unnamed, "bool", FALSE), MCArg(Unnamed, "bool", TRUE)>>]}

MCAttributes == {[trait |-> t, value |-> v] : t \in {"eyes", "hat"}, v \in {"blue", "red"}}
MCCollections == [{1, 2, 3} -> UNION {[1..n -> MCAttributes] : n \in 0..2}]

\* A and B have files with the same index and a line in common; F creates B and is
\* in the same file.
MCEmbeds == [c \in CovContracts |-> IF c = "F" THEN {"B"} ELSE {}]
MCSources == [c \in CovContracts |-> IF c = "A" THEN <<"a.sol">> ELSE <<"b.sol">>]
MCLocations ==
    [c \in CovContracts |->
        CASE c = "A" -> 0 :> [idx |-> 0, line |-> 1]
          [] c = "B" -> 0 :> [idx |-> 0, line |-> 1] @@ 1 :> [idx |-> 0, line |-> 2]
          [] c = "F" -> 0 :> [idx |-> 0, line |-> 2]]

\* Tokens 0 and 2 share one metadata object.
MCMetadataOf == [t \in TokenIDs |-> IF t = 2 THEN 0 ELSE t]

=============================================================================
