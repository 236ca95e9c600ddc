------------------------------ MODULE Nullable ------------------------------
(***************************************************************************)
(* NullableAddress and NullableUint256 of go/eth on their way to CSV or    *)
(* JSON and back.  On the wire there is a hex string, for which its number *)
(* stands, nothing at all, or the JSON null.                               *)
(***************************************************************************)
EXTENDS Integers

NothingOnWire == -1
JSONNull == -2

NullableValue(payload, valid) == [payload |-> payload, valid |-> valid, err |-> FALSE]
NullableError == [payload |-> 0, valid |-> FALSE, err |-> TRUE]

\* marshalNullable(), given what stands for null in the format.
marshalNullable(n, empty) == IF n.valid THEN n.payload ELSE empty

MarshalCSV(n) == marshalNullable(n, NothingOnWire)
MarshalJSON(n) == marshalNullable(n, JSONNull)

\* addressFromString() takes the empty string, uint256FromString() does not.
stringToPayload(kind, s) ==
    IF s # NothingOnWire THEN NullableValue(s, TRUE)
    ELSE IF kind = "address" THEN NullableValue(0, TRUE) ELSE NullableError

\* unmarshalJSONToString(): null leaves the string empty.
unmarshalJSONToString(data) == IF data = JSONNull THEN NothingOnWire ELSE data

\* unmarshalNullable(), given the data and the string that they hold.
unmarshalNullable(kind, data, s) ==
    IF data = NothingOnWire THEN NullableValue(0, FALSE) ELSE stringToPayload(kind, s)

UnmarshalCSV(kind, data) == unmarshalNullable(kind, data, data)
UnmarshalJSON(kind, data) == unmarshalNullable(kind, data, unmarshalJSONToString(data))

-----------------------------------------------------------------------------

\* What was marshalled to JSON comes back.
JSONRoundTrips(kind, n) == UnmarshalJSON(kind, MarshalJSON(n)) = n

(***************************************************************************)
(* A value survives CSV whether it is null or not, and JSON if it is not:  *)
(* marshalling is inverted by unmarshalling, for zero values too.          *)
(***************************************************************************)
NullableRoundTrips(kind, n) ==
    /\ UnmarshalCSV(kind, MarshalCSV(n)) = n
    /\ n.valid => JSONRoundTrips(kind, n)

=============================================================================
