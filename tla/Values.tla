------------------------------- MODULE Values -------------------------------
(***************************************************************************)
(* The Values of proto/eth: payloads of a Solidity type, set from and      *)
(* converted to the Go values that go-ethereum and the callers use.  A     *)
(* payload is its type and a value, a Go value its type in Go and a value; *)
(* values are integers whatever the type.                                  *)
(***************************************************************************)
EXTENDS Integers, Sequences

GoValue(go, v) == [go |-> go, v |-> v]
Payload(type, v) == [type |-> type, v |-> v]

ValueError == GoValue("error", 0)
Uint8Max == 255

\* The types that SetPayload() takes for each type of payload.
Settable(type) ==
    CASE type = "address" -> {"common.Address", "[]byte"}
      [] type = "bool" -> {"bool"}
      [] type = "bytes" -> {"[]byte"}
      [] type = "string" -> {"string"}
      [] type = "uint8" -> {"uint8"}
      [] type = "uint256" -> {"*uint256.Int", "*big.Int"}
      [] OTHER -> {}

\* SetPayload(), with the type of the payload as its hint; FALSE is an error.
SetPayloadOK(p, to) == to.go \in Settable(p.type)
SetPayload(p, to) == [p EXCEPT !.v = to.v]

\* AsValue() of the Go types that map to one payload only.
AsValue(g) ==
    LET type == CASE g.go = "common.Address" -> "address"
                  [] g.go = "bool" -> "bool"
                  [] g.go = "string" -> "string"
                  [] g.go = "[32]byte" -> "bytes32"
                  [] g.go = "*uint256.Int" -> "uint256"
                  [] g.go = "uint8" -> "uint8"
                  [] OTHER -> "none"
    IN Payload(type, g.v)

\* MustParseWithoutValidation(): other payloads come back as they are.
MustParseWithoutValidation(p) ==
    CASE p.type = "address" -> GoValue("common.Address", p.v)
      [] p.type = "bool" -> GoValue("bool", p.v)
      [] p.type = "string" -> GoValue("string", p.v)
      [] p.type = "bytes32" -> GoValue("[32]byte", p.v)
      [] p.type = "uint256" -> GoValue("*uint256.Int", p.v)
      [] OTHER -> GoValue("payload", p.v)

\* Convert(): only a payload of the right type is converted.
Convert(p, type, g) == IF p.type = type THEN g ELSE ValueError

AsAddress(p) == Convert(p, "address", GoValue("common.Address", p.v))
AsBig256(p) == Convert(p, "uint256", GoValue("*big.Int", p.v))
AsUint256(p) == Convert(p, "uint256", GoValue("*uint256.Int", p.v))

AsUint8(p) == Convert(p, "uint8", GoValue("uint8", p.v % (Uint8Max + 1)))

-----------------------------------------------------------------------------

\* The conversions that a caller may use, by the type that they return.
Conversions(p) == {AsAddress(p), AsBig256(p), AsUint256(p), AsUint8(p)} \ {ValueError}

(***************************************************************************)
(* What one conversion of a Value returns, SetPayload() takes and gives    *)
(* the same payload again, unless 64 bits did not fit into a uint8; and    *)
(* AsValue() undoes MustParseWithoutValidation() except for the types that *)
(* the latter does not parse.                                              *)
(***************************************************************************)
ConversionsAgree(p) ==
    /\ \A g \in Conversions(p) :
          /\ SetPayloadOK(p, g)
          /\ g.go = "uint8" => g.v <= Uint8Max
          /\ (g.go = "uint8" => p.v <= Uint8Max) => SetPayload(p, g) = p
    /\ p.type \in {"address", "bool", "string", "bytes32", "uint256"} =>
          AsValue(MustParseWithoutValidation(p)) = p

=============================================================================
