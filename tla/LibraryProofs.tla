--------------------------- MODULE LibraryProofs ---------------------------
(***************************************************************************)
(* Proofs about the functions that keep no state: every call of Library    *)
(* returns what FunctionsAreRight and EventsAreEmitted say, for every      *)
(* argument of its type.  Each function has a lemma about its arguments;   *)
(* the loops of the code are recursive functions, which RecursionExists of *)
(* FoldTheorems shows to be well defined, and sums are those of            *)
(* FoldTheorems.                                                           *)
(***************************************************************************)
EXTENDS Library, FoldTheorems

\* The conversions of a payload with a number agree.
LEMMA ConversionsLemma ==
    ASSUME NEW v \in Nat, NEW type \in PayloadTypes
    PROVE  ConversionsAgree(Payload(type, v))
BY DEF PayloadTypes, ConversionsAgree, Payload, Conversions, AsAddress, AsBig256, AsUint256,
       AsUint8, Convert, ValueError, GoValue, SetPayload, SetPayloadOK, Settable, Uint8Max,
       AsValue, MustParseWithoutValidation

-----------------------------------------------------------------------------
(***************************************************************************)
(* The nullable types, and the op codes that solcover reads.               *)
(***************************************************************************)

\* Values that are marshalled come back, a null from CSV only.
LEMMA NullableLemma ==
    ASSUME NEW kind, NEW v \in Nat
    PROVE  /\ NullableRoundTrips(kind, NullableValue(v, TRUE))
           /\ NullableRoundTrips(kind, NullableValue(0, FALSE))
<1> USE DEF NullableValue, NothingOnWire, JSONNull, UnmarshalCSV, UnmarshalJSON, MarshalCSV,
            MarshalJSON, marshalNullable, unmarshalNullable, unmarshalJSONToString,
            stringToPayload, NullableError
<1>1. NullableRoundTrips(kind, NullableValue(v, TRUE))
    <2> DEFINE n == NullableValue(v, TRUE)
    <2>1. n.valid = TRUE /\ n.payload = v
        OBVIOUS
    <2>2. MarshalCSV(n) = v /\ MarshalJSON(n) = v
        OBVIOUS
    <2>3. UnmarshalCSV(kind, v) = n
        OBVIOUS
    <2>4. UnmarshalJSON(kind, v) = n
        <3>1. v # JSONNull /\ v # NothingOnWire
            OBVIOUS
        <3>2. unmarshalJSONToString(v) = v
            BY <3>1
        <3> HIDE DEF JSONNull, NothingOnWire, unmarshalJSONToString
        <3> QED BY <3>1, <3>2
    <2> HIDE DEF NullableValue, UnmarshalCSV, UnmarshalJSON, MarshalCSV, MarshalJSON, NullableError
    <2> HIDE DEF n
    <2>5. NullableRoundTrips(kind, n)
        BY <2>1, <2>2, <2>3, <2>4 DEF NullableRoundTrips, JSONRoundTrips
    <2> QED BY <2>5 DEF n
<1>2. NullableRoundTrips(kind, NullableValue(0, FALSE))
    <2> DEFINE n == NullableValue(0, FALSE)
    <2>1. n.valid = FALSE
        OBVIOUS
    <2>2. MarshalCSV(n) = NothingOnWire
        OBVIOUS
    <2>3. UnmarshalCSV(kind, NothingOnWire) = n
        OBVIOUS
    <2> HIDE DEF NullableValue, UnmarshalCSV, UnmarshalJSON, MarshalCSV, MarshalJSON, NullableError
    <2> HIDE DEF n
    <2>4. NullableRoundTrips(kind, n)
        BY <2>1, <2>2, <2>3 DEF NullableRoundTrips
    <2> QED BY <2>4 DEF n
<1> QED BY <1>1, <1>2

-----------------------------------------------------------------------------

\* What the loop of parseCode() works on.
CodeState == [pc : Nat, instructions : UNION {[S -> Nat] : S \in SUBSET Nat}, opCodes : Seq(Nat)]
CodeStart == [pc |-> 0, instructions |-> [p \in {} |-> 0], opCodes |-> <<>>]

\* f is the loop of parseCode().
IsCodeLoop(code, f) ==
    f = [n \in 0..Len(code) |->
            IF n = 0 THEN CodeStart ELSE ParseByte(code, f[n-1], n - 1)]

\* A step of the loop keeps the types.
LEMMA ParseByteType ==
    ASSUME NEW code \in Seq(Nat), NEW s \in CodeState, NEW at \in 0..Len(code)-1
    PROVE  ParseByte(code, s, at) \in CodeState
<1>0. at \in Nat /\ at + 1 \in 1..Len(code) /\ code[at + 1] \in Nat /\ Len(code) \in Nat
    OBVIOUS
<1>1. PICK S \in SUBSET Nat : s.instructions \in [S -> Nat]
    BY DEF CodeState
<1>2. s.pc \in Nat /\ s.opCodes \in Seq(Nat) /\ Len(s.opCodes) \in Nat
    BY DEF CodeState
<1>3. [p \in DOMAIN s.instructions \cup {at} |->
          IF p = at THEN Len(s.opCodes) ELSE s.instructions[p]] \in [S \cup {at} -> Nat]
    BY <1>0, <1>1, <1>2
<1>4. S \cup {at} \in SUBSET Nat
    BY <1>0
<1>5. NextPC(code, at) \in Nat
    BY <1>0 DEF NextPC
<1>6. Append(s.opCodes, code[at + 1]) \in Seq(Nat)
    BY <1>0, <1>2
<1> QED BY <1>3, <1>4, <1>5, <1>6 DEF ParseByte, CodeState

\* The loop of parseCode() is well defined.
LEMMA CodeLoop ==
    ASSUME NEW code \in Seq(Nat)
    PROVE  \E f \in [0..Len(code) -> CodeState] :
               IsCodeLoop(code, f) /\ parseCode(code) = f[Len(code)]
<1> DEFINE n == Len(code)
           o == [i \in 1..n |-> [s \in CodeState |-> ParseByte(code, s, i - 1)]]
<1>0. n \in Nat
    OBVIOUS
<1>1. CodeStart \in CodeState
    <2> DEFINE e == [p \in {} |-> 0]
    <2>1. e \in [{} -> Nat] /\ {} \in SUBSET Nat
        OBVIOUS
    <2> HIDE DEF e
    <2>2. e \in UNION {[S -> Nat] : S \in SUBSET Nat}
        BY <2>1
    <2>3. [pc |-> 0, instructions |-> e, opCodes |-> <<>>] \in CodeState
        BY <2>2 DEF CodeState
    <2> QED BY <2>3 DEF CodeStart, e
<1>2. o \in [1..n -> [CodeState -> CodeState]]
    <2>1. ASSUME NEW i \in 1..n, NEW s \in CodeState PROVE ParseByte(code, s, i - 1) \in CodeState
        <3>1. i - 1 \in 0..Len(code)-1
            OBVIOUS
        <3> QED BY <3>1, ParseByteType
    <2> QED BY <2>1
<1>3. \A i \in 1..n, s \in CodeState : o[i][s] = ParseByte(code, s, i - 1)
    OBVIOUS
<1> HIDE DEF o
<1>4. PICK g \in [0..n -> CodeState] : IsRecursion(n, CodeStart, o, g)
    BY <1>0, <1>1, <1>2, RecursionExists
<1>5. IsCodeLoop(code, g)
    <2>1. ASSUME NEW i \in 0..n
          PROVE  g[i] = IF i = 0 THEN CodeStart ELSE ParseByte(code, g[i-1], i - 1)
        <3>1. CASE i = 0
            BY <1>4, <3>1 DEF IsRecursion
        <3>2. CASE i # 0
            <4>1. i \in 1..n /\ i - 1 \in 0..n
                BY <3>2
            <4>2. g[i] = o[i][g[i-1]] /\ g[i-1] \in CodeState
                BY <1>4, <4>1 DEF IsRecursion
            <4> QED BY <1>3, <3>2, <4>1, <4>2
        <3> QED BY <3>1, <3>2
    <2> QED BY <2>1 DEF IsCodeLoop
<1> DEFINE F == CHOOSE f : IsCodeLoop(code, f)
<1>6. parseCode(code) = F[n]
    BY DEF parseCode, IsCodeLoop, CodeStart
<1>7. IsCodeLoop(code, F)
    BY <1>5
<1> HIDE DEF F
<1>8. \A i \in 0..n : F[i] = g[i]
    <2> DEFINE T == {i \in Nat : i <= n => F[i] = g[i]}
    <2>1. 0 \in T
        BY <1>5, <1>7 DEF IsCodeLoop
    <2>2. ASSUME NEW i \in T PROVE i + 1 \in T
        <3> SUFFICES ASSUME i + 1 <= n PROVE F[i+1] = g[i+1]
            OBVIOUS
        <3>1. i + 1 \in 0..n /\ (i + 1) - 1 = i /\ F[i] = g[i] /\ i + 1 # 0
            OBVIOUS
        <3>2. F[i+1] = ParseByte(code, F[i], i) /\ g[i+1] = ParseByte(code, g[i], i)
            BY <1>5, <1>7, <3>1 DEF IsCodeLoop
        <3> QED BY <3>1, <3>2
    <2>3. \A i \in Nat : i \in T
        <3>1. T \in SUBSET Nat
            OBVIOUS
        <3> HIDE DEF T
        <3> QED BY <2>1, <2>2, <3>1, SetInduction
    <2> QED BY <2>3
<1>9. F = g
    BY <1>7, <1>8 DEF IsCodeLoop
<1> QED BY <1>5, <1>6, <1>9


\* The loop of parseCode() before byte n: program counter pc comes next.
CodeInv(code, s, n) ==
    LET pcs == DOMAIN s.instructions IN
    /\ s.pc >= n /\ Len(s.opCodes) <= n
    /\ n = 0 => s = CodeStart
    /\ n > 0 => 0 \in pcs /\ s.instructions[0] = 0
    /\ \A p \in pcs :
         /\ p \in 0..n-1
         /\ s.instructions[p] \in 0..Len(s.opCodes)-1
         /\ s.opCodes[s.instructions[p] + 1] = code[p + 1]
         /\ \A m \in pcs : ~(p < m /\ m < NextPC(code, p))
         /\ NextPC(code, p) <= s.pc
         /\ NextPC(code, p) = s.pc => s.instructions[p] + 1 = Len(s.opCodes)
         /\ NextPC(code, p) < s.pc =>
              NextPC(code, p) \in pcs /\ s.instructions[NextPC(code, p)] = s.instructions[p] + 1

\* A byte of the code keeps the invariant of the loop.
LEMMA ParseByteInv ==
    ASSUME NEW code \in Seq(Nat), NEW n \in 0..Len(code)-1, NEW s \in CodeState,
           CodeInv(code, s, n)
    PROVE  CodeInv(code, ParseByte(code, s, n), n + 1)
<1>0. n \in Nat /\ n + 1 \in 1..Len(code) /\ code[n + 1] \in Nat /\ Len(code) \in Nat
    OBVIOUS
<1>a. PICK S \in SUBSET Nat : s.instructions \in [S -> Nat]
    BY DEF CodeState
<1>b. s.pc \in Nat /\ s.opCodes \in Seq(Nat) /\ Len(s.opCodes) \in Nat
    BY DEF CodeState
<1>c. \A p \in DOMAIN s.instructions : p \in 0..n-1
    BY DEF CodeInv
<1>1. CASE n # s.pc
    <2>1. ParseByte(code, s, n) = s
        BY <1>1 DEF ParseByte
    <2>2. n > 0
        BY <1>0, <1>1 DEF CodeInv, CodeStart
    <2>3. s.pc >= n + 1 /\ Len(s.opCodes) <= n + 1 /\ n + 1 # 0
        BY <1>0, <1>b, <1>1 DEF CodeInv
    <2>4. \A p \in DOMAIN s.instructions : p \in 0..(n + 1)-1
        BY <1>0, <1>c
    <2>5. CodeInv(code, s, n + 1)
        BY <2>2, <2>3, <2>4 DEF CodeInv
    <2> QED BY <2>1, <2>5
<1>2. CASE n = s.pc
    <2> DEFINE t == ParseByte(code, s, n)
               L == Len(s.opCodes)
               D == DOMAIN s.instructions
    <2>1. /\ t.pc = NextPC(code, n) /\ t.opCodes = Append(s.opCodes, code[n + 1])
          /\ t.instructions = [p \in D \cup {n} |-> IF p = n THEN L ELSE s.instructions[p]]
        BY <1>2 DEF ParseByte
    <2>2. \A p \in D : p \in 0..n-1 /\ p # n /\ p \in Nat /\ code[p + 1] \in Nat
        BY <1>0, <1>c
    <2>3. /\ DOMAIN t.instructions = D \cup {n}
          /\ t.instructions[n] = L /\ \A p \in D : t.instructions[p] = s.instructions[p]
        BY <2>1, <2>2
    <2>4. /\ Len(t.opCodes) = L + 1 /\ t.opCodes[L + 1] = code[n + 1]
          /\ \A i \in 1..L : t.opCodes[i] = s.opCodes[i]
        BY <1>b, <2>1
    <2>5. t.pc >= n + 1 /\ NextPC(code, n) > n /\ NextPC(code, n) = t.pc /\ t.pc \in Nat
        BY <1>0, <2>1 DEF NextPC
    <2> HIDE DEF t
    <2>6. \A p \in D : NextPC(code, p) <= n /\ NextPC(code, p) \in Nat
        BY <1>2, <2>2 DEF CodeInv, NextPC
    <2>7. ASSUME NEW p \in D
          PROVE  /\ p \in 0..(n + 1)-1
                 /\ t.instructions[p] \in 0..Len(t.opCodes)-1
                 /\ t.opCodes[t.instructions[p] + 1] = code[p + 1]
                 /\ \A m \in D \cup {n} : ~(p < m /\ m < NextPC(code, p))
                 /\ NextPC(code, p) < t.pc
                 /\ NextPC(code, p) \in D \cup {n}
                 /\ t.instructions[NextPC(code, p)] = t.instructions[p] + 1
        <3>1. p \in 0..(n + 1)-1
            BY <1>0, <2>2
        <3>2. s.instructions[p] \in 0..L-1 /\ s.opCodes[s.instructions[p] + 1] = code[p + 1]
            BY DEF CodeInv
        <3>3. t.instructions[p] \in 0..Len(t.opCodes)-1 /\ t.opCodes[t.instructions[p] + 1] = code[p + 1]
            <4>1. s.instructions[p] + 1 \in 1..L /\ t.instructions[p] = s.instructions[p]
                <5>1. t.instructions[p] = s.instructions[p]
                    BY <2>3
                <5>2. L \in Nat
                    BY <1>b
                <5> HIDE DEF L
                <5>3. s.instructions[p] + 1 \in 1..L
                    BY <3>2, <5>2
                <5> QED BY <5>1, <5>3
            <4>2. t.opCodes[s.instructions[p] + 1] = s.opCodes[s.instructions[p] + 1]
                BY <2>4, <4>1
            <4>3. s.instructions[p] \in 0..Len(t.opCodes)-1
                BY <1>b, <2>4, <3>2
            <4> QED BY <3>2, <4>1, <4>2, <4>3
        <3>4. \A m \in D \cup {n} : ~(p < m /\ m < NextPC(code, p))
            <4>1. \A m \in D : ~(p < m /\ m < NextPC(code, p))
                BY DEF CodeInv
            <4> QED BY <1>0, <4>1, <2>6
        <3>5. NextPC(code, p) < t.pc
            BY <1>0, <2>5, <2>6
        <3>6. CASE NextPC(code, p) = s.pc
            <4>1. s.instructions[p] + 1 = L
                BY <3>6 DEF CodeInv
            <4> QED BY <1>2, <2>3, <3>1, <3>3, <3>4, <3>5, <3>6, <4>1
        <3>7. CASE NextPC(code, p) # s.pc
            <4>1. NextPC(code, p) < s.pc
                BY <1>0, <1>2, <2>6, <3>7
            <4>2. NextPC(code, p) \in D /\ s.instructions[NextPC(code, p)] = s.instructions[p] + 1
                BY <4>1 DEF CodeInv
            <4> QED BY <2>3, <3>1, <3>3, <3>4, <3>5, <4>2
        <3> QED BY <3>6, <3>7
    <2>8. /\ n \in 0..(n + 1)-1
          /\ t.instructions[n] \in 0..Len(t.opCodes)-1
          /\ t.opCodes[t.instructions[n] + 1] = code[n + 1]
          /\ \A m \in D \cup {n} : ~(n < m /\ m < NextPC(code, n))
          /\ NextPC(code, n) = t.pc
          /\ t.instructions[n] + 1 = Len(t.opCodes)
        BY <1>0, <1>b, <2>2, <2>3, <2>4, <2>5
    <2>9. 0 \in D \cup {n} /\ t.instructions[0] = 0
        <3>1. CASE n = 0
            <4>1. L = 0
                BY <3>1 DEF CodeInv, CodeStart
            <4> QED BY <2>3, <3>1, <4>1
        <3>2. CASE n > 0
            BY <2>3, <3>2 DEF CodeInv
        <3> QED BY <1>0, <3>1, <3>2
    <2>10. Len(t.opCodes) <= n + 1 /\ n + 1 # 0
        BY <1>0, <1>b, <2>4 DEF CodeInv
    <2>11. \A p \in D : NextPC(code, p) \in Nat
        BY <2>6
    <2> HIDE DEF D
    <2>12. CodeInv(code, t, n + 1)
        <3>1. ASSUME NEW p \in D \cup {n}
              PROVE  /\ p \in 0..(n + 1)-1
                     /\ t.instructions[p] \in 0..Len(t.opCodes)-1
                     /\ t.opCodes[t.instructions[p] + 1] = code[p + 1]
                     /\ \A m \in D \cup {n} : ~(p < m /\ m < NextPC(code, p))
                     /\ NextPC(code, p) <= t.pc
                     /\ NextPC(code, p) = t.pc => t.instructions[p] + 1 = Len(t.opCodes)
                     /\ NextPC(code, p) < t.pc =>
                          /\ NextPC(code, p) \in D \cup {n}
                          /\ t.instructions[NextPC(code, p)] = t.instructions[p] + 1
            <4>1. CASE p \in D
                BY <2>5, <2>7, <2>11, <4>1
            <4>2. CASE p = n
                BY <2>5, <2>8, <4>2
            <4> QED BY <4>1, <4>2
        <3> QED BY <2>3, <2>5, <2>9, <2>10, <3>1 DEF CodeInv
    <2> QED BY <2>12 DEF t
<1> QED BY <1>1, <1>2

\* What the loop of parseCode() has established when it ends.
LEMMA ParseCodeInv ==
    ASSUME NEW code \in Seq(Nat)
    PROVE  parseCode(code) \in CodeState /\ CodeInv(code, parseCode(code), Len(code))
<1>0. Len(code) \in Nat
    OBVIOUS
<1>1. PICK f \in [0..Len(code) -> CodeState] :
          IsCodeLoop(code, f) /\ parseCode(code) = f[Len(code)]
    BY CodeLoop
<1> DEFINE T == {n \in Nat : n <= Len(code) => CodeInv(code, f[n], n)}
<1>2. 0 \in T
    <2>1. f[0] = CodeStart
        BY <1>0, <1>1 DEF IsCodeLoop
    <2>2. CodeInv(code, CodeStart, 0)
        BY DEF CodeInv, CodeStart
    <2> QED BY <2>1, <2>2
<1>3. ASSUME NEW n \in T PROVE n + 1 \in T
    <2> SUFFICES ASSUME n + 1 <= Len(code) PROVE CodeInv(code, f[n + 1], n + 1)
        OBVIOUS
    <2>1. n \in 0..Len(code)-1 /\ n \in 0..Len(code) /\ n + 1 \in 0..Len(code) /\ n + 1 # 0 /\ (n + 1) - 1 = n
        BY <1>0
    <2>2. f[n + 1] = ParseByte(code, f[n], n)
        BY <1>1, <2>1 DEF IsCodeLoop
    <2>3. CodeInv(code, f[n], n) /\ f[n] \in CodeState
        BY <1>0, <2>1
    <2> QED BY <2>1, <2>2, <2>3, ParseByteInv
<1>4. \A n \in Nat : n \in T
    <2>1. T \in SUBSET Nat
        OBVIOUS
    <2> HIDE DEF T
    <2> QED BY <1>2, <1>3, <2>1, SetInduction
<1> QED BY <1>0, <1>1, <1>4

\* Instructions are numbered in order, and carry their op codes.
LEMMA InstructionsNumberedLemma ==
    ASSUME NEW code \in Seq(Nat)
    PROVE  InstructionsNumbered(code) /\ Len(parseCode(code).opCodes) <= Len(code)
<1> DEFINE p == parseCode(code)
<1>1. p \in CodeState /\ CodeInv(code, p, Len(code)) /\ Len(code) \in Nat
    BY ParseCodeInv
<1> HIDE DEF p
<1>2. p.pc \in Nat
    BY <1>1 DEF CodeState
<1>3. \A pc \in DOMAIN p.instructions : pc \in Nat /\ code[pc + 1] \in Nat
    BY <1>1 DEF CodeInv
<1>4. \A pc \in DOMAIN p.instructions : NextPC(code, pc) \in Nat
    BY <1>3 DEF NextPC
<1>5. ASSUME NEW pc \in DOMAIN p.instructions
      PROVE  /\ p.opCodes[p.instructions[pc] + 1] = code[pc + 1]
             /\ \A m \in DOMAIN p.instructions : ~(pc < m /\ m < NextPC(code, pc))
             /\ NextPC(code, pc) < Len(code) =>
                  /\ NextPC(code, pc) \in DOMAIN p.instructions
                  /\ p.instructions[NextPC(code, pc)] = p.instructions[pc] + 1
    BY <1>1, <1>2, <1>4 DEF CodeInv
<1>6. Len(code) > 0 => 0 \in DOMAIN p.instructions /\ p.instructions[0] = 0
    BY <1>1 DEF CodeInv
<1>7. Len(p.opCodes) <= Len(code)
    BY <1>1 DEF CodeInv
<1>8. InstructionsNumbered(code)
    BY <1>5, <1>6 DEF InstructionsNumbered, NextPC, p
<1> QED BY <1>7, <1>8 DEF p

-----------------------------------------------------------------------------
(***************************************************************************)
(* The source maps that solcover reads.                                    *)
(***************************************************************************)

\* Quotient and remainder.
LEMMA DivMod ==
    ASSUME NEW n \in Nat, NEW d \in Nat \ {0}
    PROVE  (n \div d) * d + (n % d) = n /\ n \div d \in Nat /\ n % d \in 0..d-1
<1> DEFINE k == n \div d
           r == n % d
<1>1. n - d * k = r
    OBVIOUS
<1>2. k \in Nat /\ r \in 0..d-1
    OBVIOUS
<1> HIDE DEF k, r
<1>3. k * d + r = n
    BY <1>1, <1>2
<1> QED BY <1>2, <1>3 DEF k, r

-----------------------------------------------------------------------------

\* The fields of node i, decompressed.
Fields(nodes, i) == [j \in 1..nMappingFields |-> FieldOf(nodes, i, j)]

\* Before the first node no field has a value.
LEMMA FieldsStart ==
    ASSUME NEW nodes
    PROVE  Fields(nodes, 0) = [j \in 1..nMappingFields |-> Blank]
<1>1. ASSUME NEW j \in 1..nMappingFields PROVE FieldOf(nodes, 0, j) = Blank
    <2>1. {k \in 1..0 : j <= Len(nodes[k]) /\ nodes[k][j] # Blank} = {}
        OBVIOUS
    <2> QED BY <2>1 DEF FieldOf
<1> QED BY <1>1 DEF Fields

\* A node gives a value or leaves the one before.
LEMMA FieldOfNext ==
    ASSUME NEW nodes, NEW i \in Nat, NEW j
    PROVE  FieldOf(nodes, i + 1, j) =
               IF j <= Len(nodes[i+1]) /\ nodes[i+1][j] # Blank THEN nodes[i+1][j]
               ELSE FieldOf(nodes, i, j)
<1> DEFINE W(n) == {k \in 1..n : j <= Len(nodes[k]) /\ nodes[k][j] # Blank}
           IsLast(w) == CHOOSE k \in w : \A l \in w : l <= k
<1>1. \A n : FieldOf(nodes, n, j) = IF W(n) = {} THEN Blank ELSE nodes[IsLast(W(n))][j]
    BY DEF FieldOf
<1>2. CASE j <= Len(nodes[i+1]) /\ nodes[i+1][j] # Blank
    <2>1. i + 1 \in W(i + 1) /\ \A l \in W(i + 1) : l \in Nat /\ l <= i + 1
        BY <1>2
    <2>2. IsLast(W(i + 1)) = i + 1
        <3> DEFINE w == W(i + 1)
        <3> HIDE DEF w
        <3>1. i + 1 \in w /\ \A l \in w : l \in Nat /\ l <= i + 1
            BY <2>1 DEF w
        <3>2. IsLast(w) \in w /\ \A l \in w : l <= IsLast(w)
            BY <3>1
        <3>3. IsLast(w) = i + 1
            BY <3>1, <3>2
        <3> QED BY <3>3 DEF w
    <2> HIDE DEF W, IsLast
    <2> QED BY <1>1, <1>2, <2>1, <2>2
<1>3. CASE ~(j <= Len(nodes[i+1]) /\ nodes[i+1][j] # Blank)
    <2>1. W(i + 1) = W(i)
        BY <1>3
    <2> HIDE DEF W, IsLast
    <2> QED BY <1>1, <1>3, <2>1
<1> QED BY <1>2, <1>3

\* Decompression of a node is what FieldOf says.
LEMMA FieldsNext ==
    ASSUME NEW nodes \in Seq(Seq(Int)), NEW i \in Nat, i + 1 <= Len(nodes),
           Fields(nodes, i) \in [1..nMappingFields -> Int]
    PROVE  /\ Fields(nodes, i + 1) \in [1..nMappingFields -> Int]
           /\ Decompressed(Fields(nodes, i), CopyNode(Fields(nodes, i), nodes[i+1]))
                = [curr |-> Fields(nodes, i + 1), last |-> Fields(nodes, i + 1)]
<1> DEFINE c == CopyNode(Fields(nodes, i), nodes[i+1])
           node == [j \in 1..nMappingFields |-> IF c[j] # Blank THEN c[j] ELSE Fields(nodes, i)[j]]
<1>0. nodes[i+1] \in Seq(Int) /\ Len(nodes[i+1]) \in Nat
    OBVIOUS
<1>1. ASSUME NEW j \in 1..nMappingFields
      PROVE  node[j] = Fields(nodes, i + 1)[j] /\ Fields(nodes, i + 1)[j] \in Int
    <2>1. /\ Fields(nodes, i + 1)[j] = FieldOf(nodes, i + 1, j)
          /\ Fields(nodes, i)[j] = FieldOf(nodes, i, j) /\ FieldOf(nodes, i, j) \in Int
        BY DEF Fields
    <2>2. FieldOf(nodes, i + 1, j) =
              IF j <= Len(nodes[i+1]) /\ nodes[i+1][j] # Blank THEN nodes[i+1][j]
              ELSE FieldOf(nodes, i, j)
        BY FieldOfNext
    <2>3. c[j] = IF j <= Len(nodes[i+1]) THEN nodes[i+1][j] ELSE FieldOf(nodes, i, j)
        BY <2>1 DEF CopyNode
    <2>4. node[j] = IF c[j] # Blank THEN c[j] ELSE FieldOf(nodes, i, j)
        BY <2>1
    <2>5. j \in Nat /\ j >= 1
        BY DEF nMappingFields
    <2>6. j <= Len(nodes[i+1]) => nodes[i+1][j] \in Int
        BY <1>0, <2>5
    <2> HIDE DEF c, node
    <2> QED BY <2>1, <2>2, <2>3, <2>4, <2>6
<1>2. Fields(nodes, i + 1) = [j \in 1..nMappingFields |-> Fields(nodes, i + 1)[j]]
    BY DEF Fields
<1>3. node = Fields(nodes, i + 1)
    BY <1>1, <1>2
<1>4. Fields(nodes, i + 1) \in [1..nMappingFields -> Int]
    BY <1>1, <1>2
<1> QED BY <1>3, <1>4 DEF Decompressed

\* Fields are numbers.
LEMMA FieldsType ==
    ASSUME NEW nodes \in Seq(Seq(Int))
    PROVE  \A i \in 0..Len(nodes) : Fields(nodes, i) \in [1..nMappingFields -> Int]
<1> DEFINE T == {i \in Nat : i <= Len(nodes) => Fields(nodes, i) \in [1..nMappingFields -> Int]}
<1>1. 0 \in T
    BY FieldsStart DEF Blank
<1>2. ASSUME NEW i \in T PROVE i + 1 \in T
    <2> SUFFICES ASSUME i + 1 <= Len(nodes)
                 PROVE  Fields(nodes, i + 1) \in [1..nMappingFields -> Int]
        OBVIOUS
    <2>1. i \in Nat /\ Fields(nodes, i) \in [1..nMappingFields -> Int]
        OBVIOUS
    <2> QED BY <2>1, FieldsNext
<1>3. \A i \in Nat : i \in T
    <2>1. T \in SUBSET Nat
        OBVIOUS
    <2> HIDE DEF T
    <2> QED BY <1>1, <1>2, <2>1, SetInduction
<1> QED BY <1>3

-----------------------------------------------------------------------------

\* What the loop of parseSrcMap() works on.
MapState ==
    [how : {locationFromNode(node).how : node \in [1..nMappingFields -> Int]} \cup {SrcMapOK},
     last : [1..nMappingFields -> Int], curr : [1..nMappingFields -> Int],
     locations : Seq({locationFromNode(node).loc : node \in [1..nMappingFields -> Int]})]
MapStart ==
    LET zero == [j \in 1..nMappingFields |-> Blank]
    IN [how |-> SrcMapOK, last |-> zero, curr |-> zero, locations |-> <<>>]

\* f is the loop of parseSrcMap().
IsMapLoop(nodes, f) ==
    f = [i \in 0..Len(nodes) |-> IF i = 0 THEN MapStart ELSE ParseNode(f[i-1], nodes[i])]

\* A step of the loop keeps the types.
LEMMA ParseNodeType ==
    ASSUME NEW s \in MapState, NEW node \in Seq(Int)
    PROVE  ParseNode(s, node) \in MapState
<1> DEFINE N == [1..nMappingFields -> Int]
           copied == CopyNode(s.curr, node)
           d == Decompressed(s.last, copied)
           r == locationFromNode(d.curr)
<1>1. s.last \in N /\ s.curr \in N
    BY DEF MapState
<1>2. copied \in N
    <2>1. \A j \in 1..nMappingFields : j <= Len(node) => node[j] \in Int
        <3>1. 1..nMappingFields \subseteq Nat \ {0} /\ Len(node) \in Nat
            BY DEF nMappingFields
        <3> QED BY <3>1
    <2> QED BY <1>1, <2>1 DEF CopyNode
<1> HIDE DEF copied
<1>3. d.curr \in N /\ d.last \in N
    BY <1>1, <1>2 DEF Decompressed
<1> HIDE DEF d
<1>4. r.how \in {locationFromNode(n).how : n \in N} /\ r.loc \in {locationFromNode(n).loc : n \in N}
    BY <1>3
<1>5. s.locations \in Seq({locationFromNode(n).loc : n \in N})
    BY DEF MapState
<1> HIDE DEF r
<1>6. Append(s.locations, r.loc) \in Seq({locationFromNode(n).loc : n \in N})
    BY <1>4, <1>5
<1>7. [how |-> r.how, last |-> d.last, curr |-> d.curr, locations |-> Append(s.locations, r.loc)]
          \in MapState
    BY <1>3, <1>4, <1>6 DEF MapState
<1> QED BY <1>7 DEF ParseNode, r, d, copied

\* The loop of parseSrcMap() is well defined.
LEMMA MapLoop ==
    ASSUME NEW nodes \in Seq(Seq(Int))
    PROVE  \E f : IsMapLoop(nodes, f) /\ parseSrcMap(nodes) = f[Len(nodes)]
<1> DEFINE n == Len(nodes)
           o == [i \in 1..n |-> [s \in MapState |-> ParseNode(s, nodes[i])]]
<1>0. n \in Nat
    OBVIOUS
<1>1. MapStart \in MapState
    BY DEF MapStart, MapState, Blank
<1>2. o \in [1..n -> [MapState -> MapState]]
    BY ParseNodeType
<1>3. \A i \in 1..n, s \in MapState : o[i][s] = ParseNode(s, nodes[i])
    OBVIOUS
<1> HIDE DEF o
<1>4. PICK g \in [0..n -> MapState] : IsRecursion(n, MapStart, o, g)
    BY <1>0, <1>1, <1>2, RecursionExists
<1>5. IsMapLoop(nodes, g)
    <2>1. ASSUME NEW i \in 0..n
          PROVE  g[i] = IF i = 0 THEN MapStart ELSE ParseNode(g[i-1], nodes[i])
        <3>1. CASE i = 0
            BY <1>4, <3>1 DEF IsRecursion
        <3>2. CASE i # 0
            <4>1. i \in 1..n /\ i - 1 \in 0..n
                BY <3>2
            <4>2. g[i] = o[i][g[i-1]] /\ g[i-1] \in MapState
                BY <1>4, <4>1 DEF IsRecursion
            <4> QED BY <1>3, <3>2, <4>1, <4>2
        <3> QED BY <3>1, <3>2
    <2> QED BY <2>1 DEF IsMapLoop
<1> DEFINE F == CHOOSE f : IsMapLoop(nodes, f)
<1>6. parseSrcMap(nodes) = F[n]
    BY DEF parseSrcMap, IsMapLoop, MapStart
<1>7. IsMapLoop(nodes, F)
    BY <1>5
<1> QED BY <1>6, <1>7

\* The Locations of nodes.
Locations == {locationFromNode(node).loc : node \in [1..nMappingFields -> Int]}

\* The loop of parseSrcMap() after node i.
MapInv(nodes, s, i) ==
    /\ s.how = SrcMapOK =>
         /\ s.last = Fields(nodes, i) /\ s.curr = Fields(nodes, i)
         /\ s.locations \in Seq(Locations) /\ Len(s.locations) = i
         /\ \A k \in 1..i : /\ locationFromNode(Fields(nodes, k)).how = SrcMapOK
                            /\ s.locations[k] = locationFromNode(Fields(nodes, k)).loc
    /\ s.how # SrcMapOK =>
         \E k \in 1..i : locationFromNode(Fields(nodes, k)).how = s.how

\* A node of the source map keeps the invariant of the loop.
LEMMA ParseNodeInv ==
    ASSUME NEW nodes \in Seq(Seq(Int)), NEW i \in Nat, i + 1 <= Len(nodes), NEW s,
           MapInv(nodes, s, i)
    PROVE  MapInv(nodes, ParseNode(s, nodes[i+1]), i + 1)
<1> DEFINE t == ParseNode(s, nodes[i+1])
           F(k) == Fields(nodes, k)
           r == locationFromNode(F(i + 1))
<1>1. CASE s.how # SrcMapOK
    <2>1. t = s
        BY <1>1 DEF ParseNode
    <2>2. PICK k \in 1..i : locationFromNode(F(k)).how = s.how
        BY <1>1 DEF MapInv
    <2>3. k \in 1..(i + 1)
        OBVIOUS
    <2> HIDE DEF t
    <2>4. MapInv(nodes, t, i + 1)
        BY <1>1, <2>1, <2>2, <2>3 DEF MapInv
    <2> QED BY <2>4 DEF t
<1>2. CASE s.how = SrcMapOK
    <2>0. F(i) \in [1..nMappingFields -> Int]
        <3>1. i \in 0..Len(nodes)
            OBVIOUS
        <3> QED BY <3>1, FieldsType
    <2>1. /\ s.last = F(i) /\ s.curr = F(i) /\ s.locations \in Seq(Locations) /\ Len(s.locations) = i
          /\ \A k \in 1..i : locationFromNode(F(k)).how = SrcMapOK /\ s.locations[k] = locationFromNode(F(k)).loc
        BY <1>2 DEF MapInv
    <2>2. /\ F(i + 1) \in [1..nMappingFields -> Int]
          /\ Decompressed(F(i), CopyNode(F(i), nodes[i+1])) = [curr |-> F(i + 1), last |-> F(i + 1)]
        BY <2>0, FieldsNext
    <2> HIDE DEF F
    <2>3. t = [how |-> r.how, last |-> F(i + 1), curr |-> F(i + 1), locations |-> Append(s.locations, r.loc)]
        BY <1>2, <2>1, <2>2 DEF ParseNode
    <2>4. /\ t.how = r.how /\ t.last = F(i + 1) /\ t.curr = F(i + 1)
          /\ t.locations = Append(s.locations, r.loc)
        BY <2>3
    <2>5. r.loc \in Locations
        BY <2>2 DEF Locations
    <2> HIDE DEF t
    <2> DEFINE l == r.loc
    <2> HIDE DEF l
    <2>6. t.locations \in Seq(Locations) /\ Len(t.locations) = i + 1 /\ t.locations[i+1] = l
          /\ \A k \in 1..i : t.locations[k] = s.locations[k]
        <3>1. l \in Locations /\ t.locations = Append(s.locations, l)
            BY <2>4, <2>5 DEF l
        <3> QED BY <2>1, <3>1
    <2>7. t.how = SrcMapOK => \A k \in 1..(i + 1) :
              locationFromNode(F(k)).how = SrcMapOK /\ t.locations[k] = locationFromNode(F(k)).loc
        <3> SUFFICES ASSUME t.how = SrcMapOK, NEW k \in 1..(i + 1)
                     PROVE  locationFromNode(F(k)).how = SrcMapOK /\ t.locations[k] = locationFromNode(F(k)).loc
            OBVIOUS
        <3>1. CASE k = i + 1
            BY <2>4, <2>6, <3>1 DEF l
        <3>2. CASE k \in 1..i
            BY <2>1, <2>6, <3>2
        <3> QED BY <3>1, <3>2
    <2>8. t.how # SrcMapOK => \E k \in 1..(i + 1) : locationFromNode(F(k)).how = t.how
        <3>1. i + 1 \in 1..(i + 1)
            OBVIOUS
        <3> QED BY <2>4, <3>1
    <2>9. MapInv(nodes, t, i + 1)
        BY <2>4, <2>6, <2>7, <2>8 DEF MapInv, F
    <2> QED BY <2>9 DEF t
<1> QED BY <1>1, <1>2

\* What the loop of parseSrcMap() has established when it ends.
LEMMA ParseSrcMapInv ==
    ASSUME NEW nodes \in Seq(Seq(Int))
    PROVE  MapInv(nodes, parseSrcMap(nodes), Len(nodes))
<1>0. Len(nodes) \in Nat
    OBVIOUS
<1>1. PICK f : IsMapLoop(nodes, f) /\ parseSrcMap(nodes) = f[Len(nodes)]
    BY MapLoop
<1> DEFINE T == {i \in Nat : i <= Len(nodes) => MapInv(nodes, f[i], i)}
<1>2. 0 \in T
    <2>1. f[0] = MapStart
        BY <1>0, <1>1 DEF IsMapLoop
    <2>2. MapInv(nodes, MapStart, 0)
        BY FieldsStart DEF MapInv, MapStart
    <2> QED BY <2>1, <2>2
<1>3. ASSUME NEW i \in T PROVE i + 1 \in T
    <2> SUFFICES ASSUME i + 1 <= Len(nodes) PROVE MapInv(nodes, f[i + 1], i + 1)
        OBVIOUS
    <2>1. i \in Nat /\ i + 1 \in 0..Len(nodes) /\ i + 1 # 0 /\ (i + 1) - 1 = i
        BY <1>0
    <2>2. f[i + 1] = ParseNode(f[i], nodes[i + 1])
        BY <1>1, <2>1 DEF IsMapLoop
    <2>3. MapInv(nodes, f[i], i)
        BY <1>0, <2>1
    <2> QED BY <2>1, <2>2, <2>3, ParseNodeInv
<1>4. \A i \in Nat : i \in T
    <2>1. T \in SUBSET Nat
        OBVIOUS
    <2> HIDE DEF T
    <2> QED BY <1>2, <1>3, <2>1, SetInduction
<1> QED BY <1>0, <1>1, <1>4

\* A node with a file.
NodeHasFile(node) == node[1] >= 0 /\ node[2] >= 0 /\ node[3] \in 0..Len(SourceList)-1
NodeFile(node) == SourceList[node[3] + 1]

\* What locationFromNode() returns for a node with its fields.
NodeLocated(node, how, loc) ==
    /\ how = SrcMapPanic => NodeHasFile(node) /\ NodeFile(node) \notin DOMAIN FileLen
    /\ how = SrcMapError =>
         \/ \E j \in {1, 2, 3, 5} : node[j] = Blank
         \/ /\ NodeHasFile(node) /\ NodeFile(node) \in DOMAIN FileLen
            /\ 0 < FileLen[NodeFile(node)] /\ FileLen[NodeFile(node)] < node[1] + node[2]
    /\ how = SrcMapOK =>
         /\ (loc.source # NoFile) <=> NodeHasFile(node)
         /\ NodeHasFile(node) => loc.source = NodeFile(node)
         /\ NodeHasFile(node) /\ FileLen[NodeFile(node)] > 0 =>
              /\ node[2] > 0 => (loc.line - 1) * LineLen + loc.col - 1 = node[1]
              /\ node[2] = 0 => loc.line = 0
              /\ (loc.endLine - 1) * LineLen + loc.endCol - 1 = node[1] + node[2]

\* Lines and columns, counted from 1, give back an offset.
LEMMA OffsetOfLine ==
    ASSUME NEW offset \in Nat, NEW line, NEW col,
           line = LineOf(offset) + 1, col = ColOf(offset) + 1
    PROVE  (line - 1) * LineLen + col - 1 = offset
<1> DEFINE l == offset \div LineLen
           c == offset % LineLen
<1>1. /\ l * LineLen + c = offset
      /\ l \in Nat /\ c \in 0..LineLen-1 /\ LineLen \in Nat
    BY SourceMapAssumption, DivMod
<1>2. line = l + 1 /\ col = c + 1
    BY DEF LineOf, ColOf
<1> HIDE DEF l, c
<1> QED BY <1>1, <1>2

\* locationFromNode() translates a node.
LEMMA LocationOfNode ==
    ASSUME NEW node \in [1..nMappingFields -> Int]
    PROVE  NodeLocated(node, locationFromNode(node).how, locationFromNode(node).loc)
<1> DEFINE file == NodeFile(node)
           L == locationFromNode(node)
           end(how, loc) == [how |-> how, loc |-> loc]
<1>0. /\ node[1] \in Int /\ node[2] \in Int /\ node[3] \in Int /\ node[5] \in Int
      /\ Len(SourceList) \in Nat
    BY SourceMapAssumption DEF nMappingFields
<1>a. SrcMapOK # SrcMapPanic /\ SrcMapOK # SrcMapError /\ SrcMapPanic # SrcMapError
    BY DEF SrcMapOK, SrcMapPanic, SrcMapError
<1>b. \A how, loc : end(how, loc).how = how /\ end(how, loc).loc = loc
    OBVIOUS
<1>c. L = IF Blank \in {node[1], node[2], node[3], node[5]} THEN end(SrcMapError, NoLocation)
          ELSE IF node[1] < 0 \/ node[2] < 0 \/ node[3] < 0 \/ node[3] >= Len(SourceList)
               THEN end(SrcMapOK, NoLocation)
          ELSE IF file \notin DOMAIN FileLen THEN end(SrcMapPanic, NoLocation)
          ELSE IF FileLen[file] = 0 THEN end(SrcMapOK, [NoLocation EXCEPT !.source = file])
          ELSE IF node[1] + node[2] > FileLen[file] THEN end(SrcMapError, NoLocation)
          ELSE end(SrcMapOK, Located(file, node[1], node[2]))
    BY DEF locationFromNode, NodeFile
<1> HIDE DEF L, end
<1>1. CASE Blank \in {node[1], node[2], node[3], node[5]}
    <2>1. L.how = SrcMapError
        BY <1>b, <1>c, <1>1
    <2>2. \E j \in {1, 2, 3, 5} : node[j] = Blank
        BY <1>1
    <2> QED BY <1>a, <2>1, <2>2 DEF NodeLocated, L
<1>2. CASE /\ Blank \notin {node[1], node[2], node[3], node[5]}
           /\ node[1] < 0 \/ node[2] < 0 \/ node[3] < 0 \/ node[3] >= Len(SourceList)
    <2>1. L.how = SrcMapOK /\ L.loc = NoLocation
        BY <1>b, <1>c, <1>2
    <2>2. ~NodeHasFile(node)
        BY <1>0, <1>2 DEF NodeHasFile
    <2>3. NoLocation.source = NoFile
        BY DEF NoLocation
    <2> QED BY <1>a, <2>1, <2>2, <2>3 DEF NodeLocated, L
<1>3. CASE /\ Blank \notin {node[1], node[2], node[3], node[5]}
           /\ ~(node[1] < 0 \/ node[2] < 0 \/ node[3] < 0 \/ node[3] >= Len(SourceList))
    <2>1. NodeHasFile(node) /\ node[1] \in Nat /\ node[2] \in Nat
        BY <1>0, <1>3 DEF NodeHasFile
    <2>2. file # NoFile
        <3>1. node[3] + 1 \in DOMAIN SourceList
            BY <1>0, <2>1, SourceMapAssumption DEF NodeHasFile
        <3> QED BY <3>1, SourceMapAssumption DEF NodeFile
    <2>3. CASE file \notin DOMAIN FileLen
        BY <1>a, <1>b, <1>c, <1>3, <2>1, <2>3 DEF NodeLocated, L
    <2>4. CASE file \in DOMAIN FileLen /\ FileLen[file] = 0
        <3>1. L.how = SrcMapOK /\ L.loc = [NoLocation EXCEPT !.source = file]
            BY <1>b, <1>c, <1>3, <2>4
        <3>2. L.loc.source = file
            BY <3>1 DEF NoLocation
        <3> QED BY <1>a, <2>1, <2>2, <2>4, <3>1, <3>2 DEF NodeLocated, L
    <2>5. CASE file \in DOMAIN FileLen /\ FileLen[file] # 0 /\ node[1] + node[2] > FileLen[file]
        <3>1. L.how = SrcMapError
            BY <1>b, <1>c, <1>3, <2>5
        <3>2. 0 < FileLen[file] /\ FileLen[file] < node[1] + node[2]
            BY <2>1, <2>5, SourceMapAssumption
        <3> QED BY <1>a, <2>1, <2>5, <3>1, <3>2 DEF NodeLocated, L
    <2>6. CASE file \in DOMAIN FileLen /\ FileLen[file] # 0 /\ ~(node[1] + node[2] > FileLen[file])
        <3>1. L.how = SrcMapOK /\ L.loc = Located(file, node[1], node[2])
            BY <1>b, <1>c, <1>3, <2>6
        <3> DEFINE loc == Located(file, node[1], node[2])
        <3>2. /\ loc.source = file
              /\ node[2] > 0 => loc.line = LineOf(node[1]) + 1 /\ loc.col = ColOf(node[1]) + 1
              /\ node[2] = 0 => loc.line = 0
              /\ loc.endLine = LineOf(node[1] + node[2]) + 1
              /\ loc.endCol = ColOf(node[1] + node[2]) + 1
            BY <2>1 DEF Located
        <3>3. node[1] + node[2] \in Nat
            BY <2>1
        <3> HIDE DEF loc
        <3>4. node[2] > 0 => (loc.line - 1) * LineLen + loc.col - 1 = node[1]
            BY <2>1, <3>2, OffsetOfLine
        <3>5. (loc.endLine - 1) * LineLen + loc.endCol - 1 = node[1] + node[2]
            BY <3>2, <3>3, OffsetOfLine
        <3>6. L.loc = loc
            BY <3>1 DEF loc
        <3> QED BY <1>a, <2>1, <2>2, <3>1, <3>2, <3>4, <3>5, <3>6 DEF NodeLocated, L
    <2> QED BY <2>3, <2>4, <2>5, <2>6
<1> QED BY <1>1, <1>2, <1>3

\* Source maps are decompressed as SrcMapDecompressed says.
LEMMA SrcMapDecompressedLemma ==
    ASSUME NEW nodes \in Seq(Seq(Int))
    PROVE  SrcMapDecompressed(nodes)
<1> DEFINE r == parseSrcMap(nodes)
           F(i) == Fields(nodes, i)
<1>0. Len(nodes) \in Nat /\ DOMAIN nodes = 1..Len(nodes)
    OBVIOUS
<1>1. MapInv(nodes, r, Len(nodes))
    BY ParseSrcMapInv
<1>2. \A i \in DOMAIN nodes : F(i) \in [1..nMappingFields -> Int]
    BY <1>0, FieldsType
<1>3. \A i \in DOMAIN nodes : NodeLocated(F(i), locationFromNode(F(i)).how, locationFromNode(F(i)).loc)
    BY <1>2, LocationOfNode
<1>4. \A i : F(i)[1] = FieldOf(nodes, i, 1) /\ F(i)[2] = FieldOf(nodes, i, 2)
             /\ F(i)[3] = FieldOf(nodes, i, 3) /\ F(i)[5] = FieldOf(nodes, i, 5)
    BY DEF Fields, nMappingFields
<1> HIDE DEF F, r
<1>5. r.how = SrcMapPanic =>
          \E i \in DOMAIN nodes : NodeHasFile(F(i)) /\ NodeFile(F(i)) \notin DOMAIN FileLen
    BY <1>0, <1>1, <1>3 DEF MapInv, NodeLocated, F, SrcMapPanic, SrcMapOK
<1>6. r.how = SrcMapError =>
          \E i \in DOMAIN nodes :
              \/ \E j \in {1, 2, 3, 5} : F(i)[j] = Blank
              \/ /\ NodeHasFile(F(i)) /\ NodeFile(F(i)) \in DOMAIN FileLen
                 /\ 0 < FileLen[NodeFile(F(i))] /\ FileLen[NodeFile(F(i))] < F(i)[1] + F(i)[2]
    BY <1>0, <1>1, <1>3 DEF MapInv, NodeLocated, F, SrcMapError, SrcMapOK
<1>7. r.how = SrcMapOK => \A i \in DOMAIN nodes : NodeLocated(F(i), SrcMapOK, r.locations[i])
    BY <1>0, <1>1, <1>3 DEF MapInv, F
<1>8. \A i : /\ NodeHasFile(F(i)) <=> /\ FieldOf(nodes, i, 1) >= 0 /\ FieldOf(nodes, i, 2) >= 0
                                     /\ FieldOf(nodes, i, 3) \in 0..Len(SourceList)-1
             /\ NodeFile(F(i)) = SourceList[FieldOf(nodes, i, 3) + 1]
    BY <1>4 DEF NodeHasFile, NodeFile
<1>9. \A i : \A j \in {1, 2, 3, 5} : F(i)[j] = FieldOf(nodes, i, j)
    BY <1>4
<1> DEFINE f(i, j) == FieldOf(nodes, i, j)
           file(i) == SourceList[f(i, 3) + 1]
           hasFile(i) == f(i, 1) >= 0 /\ f(i, 2) >= 0 /\ f(i, 3) \in 0..Len(SourceList)-1
<1>10. r.how = SrcMapPanic => \E i \in DOMAIN nodes : hasFile(i) /\ file(i) \notin DOMAIN FileLen
    BY <1>5, <1>8
<1>11. r.how = SrcMapError =>
          \E i \in DOMAIN nodes :
              \/ \E j \in {1, 2, 3, 5} : f(i, j) = Blank
              \/ /\ hasFile(i) /\ file(i) \in DOMAIN FileLen
                 /\ 0 < FileLen[file(i)] /\ FileLen[file(i)] < f(i, 1) + f(i, 2)
    BY <1>4, <1>6, <1>8, <1>9
<1>12. ASSUME r.how = SrcMapOK, NEW i \in DOMAIN nodes, NEW loc, loc = r.locations[i]
       PROVE  /\ (loc.source # NoFile) <=> hasFile(i)
              /\ hasFile(i) => loc.source = file(i)
              /\ hasFile(i) /\ FileLen[file(i)] > 0 =>
                   /\ f(i, 2) > 0 => (loc.line - 1) * LineLen + loc.col - 1 = f(i, 1)
                   /\ f(i, 2) = 0 => loc.line = 0
                   /\ (loc.endLine - 1) * LineLen + loc.endCol - 1 = f(i, 1) + f(i, 2)
    <2>1. NodeLocated(F(i), SrcMapOK, loc)
        BY <1>7, <1>12
    <2>2. NodeHasFile(F(i)) <=> hasFile(i)
        BY <1>8
    <2>3. NodeFile(F(i)) = file(i)
        BY <1>8
    <2> HIDE DEF hasFile, file
    <2> QED BY <1>4, <2>1, <2>2, <2>3 DEF NodeLocated
<1> HIDE DEF f, file, hasFile
<1>13. r.how = SrcMapOK => \A i \in DOMAIN nodes :
           LET loc == r.locations[i] IN
           /\ (loc.source # NoFile) <=> hasFile(i)
           /\ hasFile(i) => loc.source = file(i)
           /\ hasFile(i) /\ FileLen[file(i)] > 0 =>
                /\ f(i, 2) > 0 => (loc.line - 1) * LineLen + loc.col - 1 = f(i, 1)
                /\ f(i, 2) = 0 => loc.line = 0
                /\ (loc.endLine - 1) * LineLen + loc.endCol - 1 = f(i, 1) + f(i, 2)
    BY <1>12
<1> QED BY <1>10, <1>11, <1>13 DEF SrcMapDecompressed, f, file, hasFile, r

-----------------------------------------------------------------------------
(***************************************************************************)
(* The rarity of collections.                                              *)
(***************************************************************************)

\* The attributes of a type, and the tokens that have one.
Of(coll, trait) == {at \in Attributes(coll) : AttributeAt(coll, at).trait = trait}
Having(coll, trait) == {id \in DOMAIN coll : AttributesOf(coll, id, trait) # {}}

\* The value that a token has for a trait type, its absence included.
ValueOf(coll, trait) ==
    [id \in DOMAIN coll |->
        IF id \in Having(coll, trait) THEN <<coll[id][Max(AttributesOf(coll, id, trait))].value>>
        ELSE NullValue]

\* An attribute is a token and an index.
LEMMA AttributeIsPair ==
    ASSUME NEW coll, NEW trait, NEW at \in Of(coll, trait)
    PROVE  /\ at[1] \in DOMAIN coll /\ at[2] \in AttributesOf(coll, at[1], trait)
           /\ at = <<at[1], at[2]>> /\ at[1] \in Having(coll, trait)
<1>0. PICK id \in DOMAIN coll : at \in {<<id, i>> : i \in DOMAIN coll[id]}
    BY DEF Of, Attributes
<1>1. PICK i \in DOMAIN coll[id] : at = <<id, i>>
    BY <1>0
<1>2. AttributeAt(coll, at).trait = trait /\ at[1] = id /\ at[2] = i
    BY <1>1 DEF Of
<1>3. i \in AttributesOf(coll, id, trait)
    BY <1>2 DEF AttributesOf, AttributeAt
<1> QED BY <1>1, <1>2, <1>3 DEF Having

\* Every index of that type is an attribute.
LEMMA PairIsAttribute ==
    ASSUME NEW coll, NEW trait, NEW id \in DOMAIN coll, NEW i \in AttributesOf(coll, id, trait)
    PROVE  <<id, i>> \in Of(coll, trait) /\ AttributeAt(coll, <<id, i>>) = coll[id][i]
<1>1. i \in DOMAIN coll[id] /\ coll[id][i].trait = trait
    BY DEF AttributesOf
<1>2. <<id, i>> \in Attributes(coll)
    BY <1>1 DEF Attributes
<1>3. AttributeAt(coll, <<id, i>>) = coll[id][i]
    BY DEF AttributeAt
<1> QED BY <1>1, <1>2, <1>3 DEF Of

\* No token has two attributes of the type.
OneOf(coll, trait) ==
    \A id \in DOMAIN coll : \A i, j \in AttributesOf(coll, id, trait) : i = j

\* The comment's condition says so.
LEMMA OneOfEachOf ==
    ASSUME NEW coll, IsCollection(coll), OneOfEach(coll), NEW trait \in TraitTypes(coll)
    PROVE  OneOf(coll, trait)
<1> SUFFICES ASSUME NEW id \in DOMAIN coll, NEW i \in AttributesOf(coll, id, trait),
                    NEW j \in AttributesOf(coll, id, trait)
             PROVE  i = j
    BY DEF OneOf
<1>1. coll[id] \in Seq([trait : STRING, value : STRING])
    BY DEF IsCollection
<1>2. DOMAIN coll[id] = 1..Len(coll[id]) /\ Len(coll[id]) \in Nat
    BY <1>1
<1>3. IsFiniteSet(1..Len(coll[id]))
    BY <1>2, FS_Interval
<1>4. AttributesOf(coll, id, trait) \in SUBSET (1..Len(coll[id]))
    BY <1>2 DEF AttributesOf
<1>5. IsFiniteSet(AttributesOf(coll, id, trait))
    BY <1>3, <1>4, FS_Subset
<1>6. Cardinality(AttributesOf(coll, id, trait)) <= 1
    BY DEF OneOfEach
<1> QED BY <1>5, <1>6, AtMostOne

\* A set of attributes of one type is as large as that of their tokens.
LEMMA CountTokens ==
    ASSUME NEW coll, IsFiniteSet(DOMAIN coll), NEW trait, OneOf(coll, trait),
           NEW W \in SUBSET Of(coll, trait), NEW S \in SUBSET DOMAIN coll,
           \A id \in DOMAIN coll : id \in S <=> \E at \in W : at[1] = id
    PROVE  IsFiniteSet(S) /\ IsFiniteSet(W) /\ Cardinality(W) = Cardinality(S)
<1> DEFINE f == [id \in S |-> CHOOSE at \in W : at[1] = id]
<1>1. IsFiniteSet(S)
    BY FS_Subset
<1>2. \A id \in S : f[id] \in W /\ f[id][1] = id
    OBVIOUS
<1>3. \A at \in W : at[1] \in S
    BY AttributeIsPair
<1>4. ASSUME NEW a \in W, NEW b \in W, a[1] = b[1] PROVE a = b
    <2>1. /\ a[1] \in DOMAIN coll /\ a[2] \in AttributesOf(coll, a[1], trait) /\ a = <<a[1], a[2]>>
          /\ b[2] \in AttributesOf(coll, a[1], trait) /\ b = <<a[1], b[2]>>
        BY <1>4, AttributeIsPair
    <2>2. a[2] = b[2]
        BY <2>1 DEF OneOf
    <2> QED BY <2>1, <2>2
<1>5. DOMAIN f = S
    OBVIOUS
<1> HIDE DEF f
<1>6. \A at \in W : at = f[at[1]]
    BY <1>2, <1>3, <1>4
<1>7. f \in [S -> W]
    <2>1. f = [id \in S |-> f[id]]
        BY <1>5 DEF f
    <2> QED BY <1>2, <2>1
<1>8. f \in Injection(S, W)
    BY <1>2, <1>7 DEF Injection, IsInjective
<1>9. f \in Surjection(S, W)
    BY <1>3, <1>6, <1>7 DEF Surjection
<1>10. ExistsBijection(S, W)
    BY <1>8, <1>9 DEF ExistsBijection, Bijection
<1> QED BY <1>1, <1>10, FS_Bijection

\* The counts of the entropy are those of the tokens with each value, absence
\* included, and the score of a token takes the count of its own value.
LEMMA EntropyCountsTokens ==
    ASSUME NEW coll, IsCollection(coll), NEW trait, OneOf(coll, trait)
    PROVE  LET k == ValueOf(coll, trait)
               D == DOMAIN coll
           IN /\ EntropyCounts(coll, trait)
                    = [x \in {k[id] : id \in D} |-> Cardinality({id \in D : k[id] = x})]
              /\ \A id \in D : /\ ScoreCount(coll, id, trait) = Cardinality({i \in D : k[i] = k[id]})
                               /\ k[id] = NullValue <=> AttributesOf(coll, id, trait) = {}
<1> DEFINE D == DOMAIN coll
           H == Having(coll, trait)
           A == Of(coll, trait)
           k == ValueOf(coll, trait)
           one(id) == Max(AttributesOf(coll, id, trait))
           val(at) == AttributeAt(coll, at).value
           dist == distribution(coll, trait)
           null == Cardinality(D) - counts(coll, trait)
<1>0. IsFiniteSet(D)
    BY DEF IsCollection
<1>1. \A id \in D : /\ AttributesOf(coll, id, trait) \in SUBSET Nat
                     /\ IsFiniteSet(AttributesOf(coll, id, trait))
    <2> TAKE id \in D
    <2>1. coll[id] \in Seq([trait : STRING, value : STRING])
        BY DEF IsCollection
    <2>2. DOMAIN coll[id] = 1..Len(coll[id]) /\ Len(coll[id]) \in Nat
        BY <2>1
    <2>3. IsFiniteSet(1..Len(coll[id]))
        BY <2>2, FS_Interval
    <2>4. AttributesOf(coll, id, trait) \in SUBSET (1..Len(coll[id]))
        BY <2>2 DEF AttributesOf
    <2> QED BY <2>2, <2>3, <2>4, FS_Subset
<1>2. \A id \in H : one(id) \in AttributesOf(coll, id, trait)
    <2> TAKE id \in H
    <2>1. id \in D /\ AttributesOf(coll, id, trait) # {}
        BY DEF Having
    <2> QED BY <1>1, <2>1, MaxOfFinite
<1>3. \A id \in H : id \in D /\ <<id, one(id)>> \in A /\ val(<<id, one(id)>>) = coll[id][one(id)].value
    <2> TAKE id \in H
    <2>1. id \in D
        BY DEF Having
    <2>2. <<id, one(id)>> \in A /\ AttributeAt(coll, <<id, one(id)>>) = coll[id][one(id)]
        BY <1>2, <2>1, PairIsAttribute
    <2> QED BY <2>1, <2>2
<1>4. \A at \in A : at[1] \in H /\ at = <<at[1], one(at[1])>>
    <2> TAKE at \in A
    <2>1. at[1] \in D /\ at[2] \in AttributesOf(coll, at[1], trait) /\ at = <<at[1], at[2]>> /\ at[1] \in H
        BY AttributeIsPair
    <2>2. at[2] = one(at[1])
        BY <1>2, <2>1 DEF OneOf
    <2> QED BY <2>1, <2>2
<1>5. /\ DOMAIN k = D
      /\ \A id \in H : k[id] = <<val(<<id, one(id)>>)>>
      /\ \A id \in D : id \notin H => k[id] = NullValue
    BY <1>3 DEF ValueOf
<1> HIDE DEF k, one, val
<1>6. \A v : <<v>> # NullValue
    BY DEF NullValue
<1>7. /\ DOMAIN dist = {val(at) : at \in A}
      /\ \A v \in DOMAIN dist : dist[v] = Cardinality({at \in A : val(at) = v})
    BY DEF distribution, Of, val
<1>8. counts(coll, trait) = Cardinality(A)
    BY DEF counts, Of
<1>9. Cardinality(A) = Cardinality(H) /\ IsFiniteSet(H)
    <2>1. A \in SUBSET Of(coll, trait) /\ H \in SUBSET D
        BY DEF Having
    <2>2. \A id \in D : id \in H <=> \E at \in A : at[1] = id
        BY <1>3, <1>4
    <2> QED BY <1>0, <2>1, <2>2, CountTokens
<1>10. null = Cardinality({id \in D : k[id] = NullValue})
    <2>1. {id \in D : k[id] = NullValue} = D \ H
        BY <1>5, <1>6
    <2>2. D \cap H = H
        BY <1>3
    <2>3. Cardinality(D \ H) = Cardinality(D) - Cardinality(H)
        BY <1>0, <2>2, FS_Difference
    <2> QED BY <1>8, <1>9, <2>1, <2>3
<1>11. \A v \in DOMAIN dist : dist[v] = Cardinality({id \in D : k[id] = <<v>>})
    <2> TAKE v \in DOMAIN dist
    <2> DEFINE W == {at \in A : val(at) = v}
               S == {id \in D : k[id] = <<v>>}
    <2>1. W \in SUBSET Of(coll, trait) /\ S \in SUBSET D
        OBVIOUS
    <2>2. ASSUME NEW id \in D PROVE id \in S <=> \E at \in W : at[1] = id
        <3>1. ASSUME id \in S PROVE \E at \in W : at[1] = id
            <4>1. id \in H /\ val(<<id, one(id)>>) = v
                BY <1>5, <1>6, <3>1
            <4>2. <<id, one(id)>> \in W /\ <<id, one(id)>>[1] = id
                BY <1>3, <4>1
            <4> QED BY <4>2
        <3>2. ASSUME NEW at \in W, at[1] = id PROVE id \in S
            BY <1>3, <1>4, <1>5, <3>2
        <3> QED BY <3>1, <3>2
    <2>3. dist[v] = Cardinality(W)
        BY <1>7
    <2> HIDE DEF W, S
    <2>4. Cardinality(W) = Cardinality(S)
        BY <1>0, <2>1, <2>2, CountTokens
    <2> QED BY <2>3, <2>4 DEF S
<1>12. \A v : v \in DOMAIN dist <=> \E id \in D : k[id] = <<v>>
    <2> TAKE v
    <2>1. ASSUME v \in DOMAIN dist PROVE \E id \in D : k[id] = <<v>>
        <3>1. PICK at \in A : val(at) = v
            BY <1>7, <2>1
        <3>2. at[1] \in H /\ at = <<at[1], one(at[1])>>
            BY <1>4
        <3> QED BY <1>3, <1>5, <3>1, <3>2
    <2>2. ASSUME NEW id \in D, k[id] = <<v>> PROVE v \in DOMAIN dist
        <3>1. id \in H /\ val(<<id, one(id)>>) = v
            BY <1>5, <1>6, <2>2
        <3> QED BY <1>3, <1>7, <3>1
    <2> QED BY <2>1, <2>2
<1>13. null # 0 <=> \E id \in D : k[id] = NullValue
    <2> DEFINE N == {id \in D : k[id] = NullValue}
    <2>1. IsFiniteSet(N)
        BY <1>0, FS_Subset
    <2>2. Cardinality(N) = 0 <=> N = {}
        <3> HIDE DEF N
        <3> QED BY <2>1, FS_EmptySet
    <2> QED BY <1>10, <2>2
<1> HIDE DEF dist, null
<1> DEFINE X == {<<v>> : v \in DOMAIN dist} \cup (IF null # 0 THEN {NullValue} ELSE {})
           R == {k[id] : id \in D}
<1>14. X = R
    <2>1. ASSUME NEW x \in X PROVE x \in R
        BY <1>12, <1>13
    <2>2. ASSUME NEW x \in R PROVE x \in X
        <3>1. PICK id \in D : x = k[id]
            OBVIOUS
        <3>2. CASE id \in H
            BY <1>5, <1>12, <3>1, <3>2
        <3>3. CASE id \notin H
            BY <1>5, <1>13, <3>1, <3>3
        <3> QED BY <3>2, <3>3
    <2> QED BY <2>1, <2>2
<1>15. EntropyCounts(coll, trait) = [x \in X |-> IF x = NullValue THEN null ELSE dist[x[1]]]
    BY DEF EntropyCounts, null, dist
<1>16. ASSUME NEW x \in X
       PROVE  (IF x = NullValue THEN null ELSE dist[x[1]]) = Cardinality({id \in D : k[id] = x})
    <2>1. CASE x = NullValue
        BY <1>10, <2>1 DEF null
    <2>2. CASE x # NullValue
        <3>1. PICK v \in DOMAIN dist : x = <<v>>
            BY <2>2
        <3>2. x[1] = v
            BY <3>1
        <3>3. dist[v] = Cardinality({id \in D : k[id] = <<v>>})
            BY <1>11 DEF dist
        <3> QED BY <2>2, <3>1, <3>2, <3>3
    <2> QED BY <2>1, <2>2
<1>17. EntropyCounts(coll, trait) = [x \in R |-> Cardinality({id \in D : k[id] = x})]
    BY <1>14, <1>15, <1>16
<1>18. ASSUME NEW id \in D
       PROVE  /\ ScoreCount(coll, id, trait) = Cardinality({i \in D : k[i] = k[id]})
              /\ k[id] = NullValue <=> AttributesOf(coll, id, trait) = {}
    <2>0. id \in H <=> AttributesOf(coll, id, trait) # {}
        BY DEF Having
    <2>1. CASE id \in H
        <3>1. ScoreCount(coll, id, trait) = dist[coll[id][one(id)].value]
            BY <2>0, <2>1 DEF ScoreCount, dist, one
        <3>2. k[id] = <<val(<<id, one(id)>>)>> /\ val(<<id, one(id)>>) = coll[id][one(id)].value
            BY <1>3, <1>5, <2>1
        <3>3. coll[id][one(id)].value \in DOMAIN dist
            BY <1>3, <1>7, <2>1, <3>2 DEF dist
        <3>4. dist[coll[id][one(id)].value] = Cardinality({i \in D : k[i] = k[id]})
            BY <1>11, <3>2, <3>3 DEF dist
        <3> QED BY <1>6, <2>0, <2>1, <3>1, <3>2, <3>4
    <2>2. CASE id \notin H
        <3>1. ScoreCount(coll, id, trait) = null
            BY <2>0, <2>2 DEF ScoreCount, null
        <3>2. k[id] = NullValue
            BY <1>5, <2>2
        <3> QED BY <1>10, <2>0, <2>2, <3>1, <3>2 DEF null
    <2> QED BY <2>1, <2>2
<1> QED BY <1>17, <1>18 DEF k

\* Rarities are made of probabilities.
LEMMA RarityLemma ==
    ASSUME NEW coll, IsCollection(coll)
    PROVE  RarityIsDistribution(coll)
<1> SUFFICES ASSUME OneOfEach(coll), NEW trait \in TraitTypes(coll)
             PROVE  LET ps == EntropyCounts(coll, trait) IN
                    /\ SumFunction(ps) = Cardinality(DOMAIN coll)
                    /\ \A id \in DOMAIN coll :
                         /\ ScoreCount(coll, id, trait) > 0
                         /\ \E x \in DOMAIN ps :
                              /\ ps[x] = ScoreCount(coll, id, trait)
                              /\ x = NullValue <=> AttributesOf(coll, id, trait) = {}
    BY DEF RarityIsDistribution
<1> DEFINE D == DOMAIN coll
           k == ValueOf(coll, trait)
           R == {k[id] : id \in D}
           ps == EntropyCounts(coll, trait)
<1>0. IsFiniteSet(D)
    BY DEF IsCollection
<1>1. OneOf(coll, trait)
    BY OneOfEachOf
<1>2. /\ ps = [x \in R |-> Cardinality({id \in D : k[id] = x})]
      /\ \A id \in D : /\ ScoreCount(coll, id, trait) = Cardinality({i \in D : k[i] = k[id]})
                       /\ k[id] = NullValue <=> AttributesOf(coll, id, trait) = {}
    BY <1>1, EntropyCountsTokens
<1>3. k \in [D -> R]
    BY DEF ValueOf
<1> HIDE DEF ps, k
<1>4. IsFiniteSet(R)
    <2>1. k \in Surjection(D, R)
        BY <1>3 DEF Surjection
    <2> HIDE DEF R
    <2> QED BY <1>0, <2>1, FS_Surjection
<1>5. SumFunction(ps) = Cardinality(D)
    <2> HIDE DEF R, D
    <2> QED BY <1>0, <1>2, <1>3, <1>4, CountGroups
<1>6. ASSUME NEW id \in D
      PROVE  /\ ScoreCount(coll, id, trait) > 0
             /\ \E x \in DOMAIN ps : /\ ps[x] = ScoreCount(coll, id, trait)
                                     /\ x = NullValue <=> AttributesOf(coll, id, trait) = {}
    <2> DEFINE S == {i \in D : k[i] = k[id]}
    <2>1. S \in SUBSET D /\ id \in S
        OBVIOUS
    <2>2. Cardinality(S) > 0
        <3> HIDE DEF S
        <3> QED BY <1>0, <2>1, FS_Subset, FS_EmptySet, FS_CardinalityType
    <2>3. k[id] \in DOMAIN ps /\ ps[k[id]] = Cardinality(S)
        BY <1>2
    <2> QED BY <1>2, <2>2, <2>3
<1> QED BY <1>5, <1>6 DEF ps

-----------------------------------------------------------------------------
(***************************************************************************)
(* The events that the Hydrant service extracts.                           *)
(***************************************************************************)

\* f is the loop of Selected().
IsSelect(s, W, f) ==
    f = [i \in 0..Len(s) |->
            IF i = 0 THEN <<>> ELSE IF s[i] \in W THEN Append(f[i-1], s[i]) ELSE f[i-1]]

\* The loop of Selected() is well defined.
LEMMA SelectLoop ==
    ASSUME NEW X, NEW s \in Seq(X), NEW W
    PROVE  \E f : IsSelect(s, W, f) /\ Selected(s, W) = f[Len(s)]
<1> DEFINE n == Len(s)
           V == Seq(X)
           o == [i \in 1..n |-> [r \in V |-> IF s[i] \in W THEN Append(r, s[i]) ELSE r]]
<1>0. n \in Nat /\ <<>> \in V
    OBVIOUS
<1>1. o \in [1..n -> [V -> V]]
    <2>1. \A i \in 1..n : s[i] \in X
        OBVIOUS
    <2>2. \A i \in 1..n, r \in V : (IF s[i] \in W THEN Append(r, s[i]) ELSE r) \in V
        BY <2>1
    <2> QED BY <2>2
<1>2. \A i \in 1..n, r \in V : o[i][r] = IF s[i] \in W THEN Append(r, s[i]) ELSE r
    OBVIOUS
<1> HIDE DEF o, V
<1>3. PICK g \in [0..n -> V] : IsRecursion(n, <<>>, o, g)
    BY <1>0, <1>1, RecursionExists
<1>4. IsSelect(s, W, g)
    <2>1. ASSUME NEW i \in 0..n
          PROVE  g[i] = IF i = 0 THEN <<>> ELSE IF s[i] \in W THEN Append(g[i-1], s[i]) ELSE g[i-1]
        <3>1. CASE i = 0
            BY <1>3, <3>1 DEF IsRecursion
        <3>2. CASE i # 0
            <4>1. i \in 1..n /\ i - 1 \in 0..n
                BY <3>2
            <4>2. g[i] = o[i][g[i-1]] /\ g[i-1] \in V
                BY <1>3, <4>1 DEF IsRecursion
            <4> QED BY <1>2, <3>2, <4>1, <4>2
        <3> QED BY <3>1, <3>2
    <2> QED BY <2>1 DEF IsSelect
<1> DEFINE F == CHOOSE f : IsSelect(s, W, f)
<1>5. Selected(s, W) = F[n]
    BY DEF Selected, IsSelect
<1>6. IsSelect(s, W, F)
    BY <1>4
<1> QED BY <1>5, <1>6

\* r are the elements of s, up to n, that are in W, in order; p are their indices.
IsPick(s, W, n, r, p) ==
    /\ \A a \in DOMAIN r : p[a] \in 1..n /\ r[a] = s[p[a]] /\ s[p[a]] \in W
    /\ \A a, b \in DOMAIN r : a < b => p[a] < p[b]
    /\ \A i \in 1..n : s[i] \in W => \E a \in DOMAIN r : p[a] = i

\* What is selected are the elements with one sequence of indices, which is the
\* same for sequences in which the same indices are selected.
LEMMA SelectedPick ==
    ASSUME NEW X, NEW s \in Seq(X), NEW W, NEW Y, NEW t \in Seq(Y), NEW V,
           Len(s) = Len(t), \A i \in 1..Len(s) : s[i] \in W <=> t[i] \in V
    PROVE  /\ Selected(s, W) \in Seq(X) /\ Selected(t, V) \in Seq(Y)
           /\ Len(Selected(s, W)) = Len(Selected(t, V))
           /\ \E p : /\ IsPick(s, W, Len(s), Selected(s, W), p)
                     /\ IsPick(t, V, Len(s), Selected(t, V), p)
<1>1. PICK f : IsSelect(s, W, f) /\ Selected(s, W) = f[Len(s)]
    BY SelectLoop
<1>2. PICK g : IsSelect(t, V, g) /\ Selected(t, V) = g[Len(t)]
    BY SelectLoop
<1> DEFINE n == Len(s)
           Good(i, p) == /\ f[i] \in Seq(X) /\ g[i] \in Seq(Y) /\ Len(f[i]) = Len(g[i])
                         /\ IsPick(s, W, i, f[i], p) /\ IsPick(t, V, i, g[i], p)
           T == {i \in Nat : i <= n => \E p : Good(i, p)}
<1>0. n \in Nat
    OBVIOUS
<1>3. 0 \in T
    <2>1. f[0] = <<>> /\ g[0] = <<>>
        BY <1>0, <1>1, <1>2 DEF IsSelect
    <2>2. Good(0, <<>>)
        BY <2>1 DEF IsPick
    <2> QED BY <2>2
<1>4. ASSUME NEW i \in T PROVE i + 1 \in T
    <2> SUFFICES ASSUME i + 1 <= n PROVE \E p : Good(i + 1, p)
        OBVIOUS
    <2>0. i \in Nat /\ i + 1 \in 1..n /\ i + 1 \in 0..n /\ i + 1 # 0 /\ (i + 1) - 1 = i
        BY <1>0
    <2>1. PICK p : Good(i, p)
        BY <1>0
    <2>2. /\ f[i+1] = IF s[i+1] \in W THEN Append(f[i], s[i+1]) ELSE f[i]
          /\ g[i+1] = IF t[i+1] \in V THEN Append(g[i], t[i+1]) ELSE g[i]
        <3>1. f[i+1] = IF s[i+1] \in W THEN Append(f[i], s[i+1]) ELSE f[i]
            BY <1>1, <2>0 DEF IsSelect
        <3>2. i + 1 \in 0..Len(t)
            BY <2>0
        <3>3. g[i+1] = IF t[i+1] \in V THEN Append(g[i], t[i+1]) ELSE g[i]
            BY <1>2, <2>0, <3>2 DEF IsSelect
        <3> QED BY <3>1, <3>3
    <2>3. s[i+1] \in X /\ t[i+1] \in Y /\ (s[i+1] \in W <=> t[i+1] \in V)
        BY <2>0
    <2> DEFINE m == Len(f[i])
    <2>4. m \in Nat /\ DOMAIN f[i] = 1..m /\ DOMAIN g[i] = 1..m
        BY <2>1
    <2>5. CASE s[i+1] \notin W
        <3>1. f[i+1] = f[i] /\ g[i+1] = g[i]
            BY <2>2, <2>3, <2>5
        <3>2. \A j \in 1..(i + 1) : j \in 1..i \/ j = i + 1
            BY <2>0
        <3>3. \A j \in 1..i : j \in 1..(i + 1)
            BY <2>0
        <3>4. IsPick(s, W, i + 1, f[i], p) /\ IsPick(t, V, i + 1, g[i], p)
            BY <2>1, <2>3, <2>5, <3>2, <3>3 DEF IsPick
        <3> QED BY <2>1, <3>1, <3>4
    <2>6. CASE s[i+1] \in W
        <3> DEFINE r == [a \in 1..(m + 1) |-> IF a = m + 1 THEN i + 1 ELSE p[a]]
        <3>1. f[i+1] = Append(f[i], s[i+1]) /\ g[i+1] = Append(g[i], t[i+1])
            BY <2>2, <2>3, <2>6
        <3>2. /\ f[i+1] \in Seq(X) /\ g[i+1] \in Seq(Y) /\ Len(f[i+1]) = Len(g[i+1])
              /\ DOMAIN f[i+1] = 1..(m + 1) /\ DOMAIN g[i+1] = 1..(m + 1)
              /\ f[i+1][m+1] = s[i+1] /\ g[i+1][m+1] = t[i+1]
              /\ \A a \in 1..m : f[i+1][a] = f[i][a] /\ g[i+1][a] = g[i][a]
            BY <2>1, <2>3, <2>4, <3>1
        <3>3. r[m+1] = i + 1 /\ \A a \in 1..m : r[a] = p[a] /\ p[a] \in 1..i
            BY <2>1, <2>4 DEF IsPick
        <3> HIDE DEF r, m
        <3>a. \A a \in 1..(m + 1) : a \in 1..m \/ a = m + 1
            BY <2>4
        <3>b. \A a \in 1..m : a \in 1..(m + 1) /\ a # m + 1
            BY <2>4
        <3>c. m + 1 \in 1..(m + 1)
            BY <2>4
        <3>4. \A a, b \in 1..(m + 1) : a < b => r[a] < r[b]
            <4> SUFFICES ASSUME NEW a \in 1..(m + 1), NEW b \in 1..(m + 1), a < b PROVE r[a] < r[b]
                OBVIOUS
            <4>1. a \in 1..m
                BY <2>4
            <4>2. CASE b = m + 1
                BY <2>0, <3>3, <4>1, <4>2
            <4>3. CASE b \in 1..m
                BY <2>1, <2>4, <3>3, <4>1, <4>3 DEF IsPick
            <4> QED BY <3>a, <4>2, <4>3
        <3>5. \A a \in 1..(m + 1) : r[a] \in 1..(i + 1)
            <4>1. \A j \in 1..i : j \in 1..(i + 1)
                BY <2>0
            <4> QED BY <2>0, <3>3, <3>a, <4>1
        <3>6. \A a \in 1..(m + 1) : /\ f[i+1][a] = s[r[a]] /\ s[r[a]] \in W
                                    /\ g[i+1][a] = t[r[a]] /\ t[r[a]] \in V
            <4> TAKE a \in 1..(m + 1)
            <4>1. CASE a = m + 1
                BY <2>3, <2>6, <3>2, <3>3, <4>1
            <4>2. CASE a \in 1..m
                <5>1. f[i][a] = s[p[a]] /\ s[p[a]] \in W /\ g[i][a] = t[p[a]] /\ t[p[a]] \in V
                    BY <2>1, <2>4, <4>2 DEF IsPick
                <5> QED BY <3>2, <3>3, <4>2, <5>1
            <4> QED BY <3>a, <4>1, <4>2
        <3>7. \A j \in 1..(i + 1) : s[j] \in W => \E a \in 1..(m + 1) : r[a] = j
            <4> SUFFICES ASSUME NEW j \in 1..(i + 1), s[j] \in W PROVE \E a \in 1..(m + 1) : r[a] = j
                OBVIOUS
            <4>1. CASE j = i + 1
                BY <3>3, <3>c, <4>1
            <4>2. CASE j \in 1..i
                <5>1. PICK a \in 1..m : p[a] = j
                    BY <2>1, <2>4, <4>2 DEF IsPick
                <5> QED BY <3>3, <3>b, <5>1
            <4> QED BY <2>0, <4>1, <4>2
        <3>8. \A j \in 1..(i + 1) : t[j] \in V => s[j] \in W
            <4>1. \A j \in 1..(i + 1) : j \in 1..n
                BY <2>0
            <4> QED BY <4>1
        <3>9. IsPick(s, W, i + 1, f[i+1], r) /\ IsPick(t, V, i + 1, g[i+1], r)
            <4> DEFINE u == f[i+1]
                       v == g[i+1]
            <4>1. DOMAIN u = 1..(m + 1) /\ DOMAIN v = 1..(m + 1)
                BY <3>2
            <4>2. \A a \in 1..(m + 1) : u[a] = s[r[a]] /\ s[r[a]] \in W /\ v[a] = t[r[a]] /\ t[r[a]] \in V
                BY <3>6
            <4> HIDE DEF u, v
            <4>3. IsPick(s, W, i + 1, u, r) /\ IsPick(t, V, i + 1, v, r)
                BY <3>4, <3>5, <3>7, <3>8, <4>1, <4>2 DEF IsPick
            <4> QED BY <4>3 DEF u, v
        <3> QED BY <3>2, <3>9
    <2> QED BY <2>5, <2>6
<1>5. \A i \in Nat : i \in T
    <2>1. T \in SUBSET Nat
        OBVIOUS
    <2> HIDE DEF T
    <2> QED BY <1>3, <1>4, <2>1, SetInduction
<1>6. PICK p : Good(n, p)
    BY <1>0, <1>5
<1> QED BY <1>1, <1>2, <1>6

-----------------------------------------------------------------------------

\* ps are the positions of the arguments that are indexed, or that are not.
ArePositions(sig, indexed, ps) ==
    /\ ps \in Seq(Nat)
    /\ \A k \in DOMAIN ps : ps[k] \in DOMAIN sig.args /\ sig.args[ps[k]].indexed = indexed
    /\ \A k, l \in DOMAIN ps : ps[k] = ps[l] => k = l
    /\ \A i \in DOMAIN sig.args : sig.args[i].indexed = indexed => \E k \in DOMAIN ps : ps[k] = i

\* Positions() are all of them, each one once.
LEMMA PositionsLemma ==
    ASSUME NEW sig \in Sigs, NEW indexed
    PROVE  ArePositions(sig, indexed, Positions(sig, indexed))
<1> DEFINE s == [i \in DOMAIN sig.args |-> i]
           W == {i \in DOMAIN sig.args : sig.args[i].indexed = indexed}
           ps == Positions(sig, indexed)
           n == Len(sig.args)
<1>0. n \in Nat /\ DOMAIN sig.args = 1..n
    BY DEF Sigs
<1>1. s \in [1..n -> Nat]
    BY <1>0
<1>2. s \in Seq(Nat) /\ Len(s) = n /\ \A i \in 1..n : s[i] = i
    <2>1. \A i \in 1..n : s[i] = i
        BY <1>0
    <2> HIDE DEF s
    <2> QED BY <1>0, <1>1, <2>1, FunctionIsSeq
<1>3. ps = Selected(s, W)
    BY DEF Positions
<1> HIDE DEF s, ps
<1>4. PICK p : IsPick(s, W, Len(s), ps, p) /\ ps \in Seq(Nat)
    <2> HIDE DEF W
    <2> QED BY <1>2, <1>3, SelectedPick
<1>5. \A k \in DOMAIN ps : ps[k] = p[k] /\ p[k] \in 1..n /\ p[k] \in W
    BY <1>2, <1>4 DEF IsPick
<1>6. \A k, l \in DOMAIN ps : ps[k] = ps[l] => k = l
    <2> SUFFICES ASSUME NEW k \in DOMAIN ps, NEW l \in DOMAIN ps, ps[k] = ps[l] PROVE k = l
        OBVIOUS
    <2>1. k \in Nat /\ l \in Nat /\ p[k] \in Nat /\ p[l] \in Nat /\ p[k] = p[l]
        BY <1>4, <1>5
    <2>2. ~(k < l) /\ ~(l < k)
        BY <1>4, <2>1 DEF IsPick
    <2> QED BY <2>1, <2>2
<1>7. \A i \in DOMAIN sig.args : sig.args[i].indexed = indexed => \E k \in DOMAIN ps : ps[k] = i
    <2> SUFFICES ASSUME NEW i \in DOMAIN sig.args, sig.args[i].indexed = indexed
                 PROVE  \E k \in DOMAIN ps : ps[k] = i
        OBVIOUS
    <2>1. i \in 1..Len(s) /\ s[i] \in W
        BY <1>0, <1>2
    <2>2. PICK k \in DOMAIN ps : p[k] = i
        BY <1>4, <2>1 DEF IsPick
    <2> QED BY <1>5, <2>2
<1>8. ArePositions(sig, indexed, ps)
    BY <1>4, <1>5, <1>6, <1>7 DEF ArePositions
<1> QED BY <1>8 DEF ps

\* Signatures of one hash have as many arguments, and of one layout the same positions.
LEMMA SameLayout ==
    ASSUME NEW sig \in Sigs, NEW req, EVMHash(req) = EVMHash(sig)
    PROVE  /\ req.name = sig.name /\ DOMAIN req.args = DOMAIN sig.args
           /\ Layout(req) = Layout(sig) =>
                \A b \in BOOLEAN : Positions(req, b) = Positions(sig, b)
<1>1. req.name = sig.name /\ params(req) = params(sig)
    BY DEF EVMHash
<1>2. DOMAIN params(req) = DOMAIN req.args /\ DOMAIN params(sig) = DOMAIN sig.args
    BY DEF params
<1>3. DOMAIN req.args = DOMAIN sig.args
    BY <1>1, <1>2
<1>4. ASSUME Layout(req) = Layout(sig), NEW b \in BOOLEAN PROVE Positions(req, b) = Positions(sig, b)
    <2>1. \A i \in DOMAIN sig.args : req.args[i].indexed = sig.args[i].indexed
        <3> TAKE i \in DOMAIN sig.args
        <3>1. Layout(req)[i] = req.args[i].indexed /\ Layout(sig)[i] = sig.args[i].indexed
            BY <1>3 DEF Layout
        <3> QED BY <1>4, <3>1
    <2>2. {i \in DOMAIN req.args : req.args[i].indexed = b}
            = {i \in DOMAIN sig.args : sig.args[i].indexed = b}
        BY <1>3, <2>1
    <2> QED BY <1>3, <2>2 DEF Positions
<1> QED BY <1>1, <1>3, <1>4

\* log has what an event emits as its topics and data.
IsLogOf(sig, emitter, values, log) ==
    LET ps == Positions(sig, TRUE)
        ns == Positions(sig, FALSE)
    IN /\ log.address = emitter /\ log.topics # <<>> /\ log.topics[1] = EVMHash(sig)
       /\ Len(log.topics) = Len(ps) + 1 /\ Len(log.data) = Len(ns)
       /\ \A k \in DOMAIN ps : log.topics[1 + k] = values[ps[k]]
       /\ \A k \in DOMAIN ns : log.data[k] = values[ns[k]]

\* Topics and data of the log of an event.
LEMMA LogOfLemma ==
    ASSUME NEW sig \in Sigs, NEW emitter, NEW values \in [DOMAIN sig.args -> Nat]
    PROVE  IsLogOf(sig, emitter, values, LogOf(sig, emitter, values))
<1> DEFINE ps == Positions(sig, TRUE)
           ns == Positions(sig, FALSE)
           h == EVMHash(sig)
           X == Nat \cup {h}
           top == [k \in DOMAIN ps |-> values[ps[k]]]
           dat == [k \in DOMAIN ns |-> values[ns[k]]]
           log == LogOf(sig, emitter, values)
<1>1. ArePositions(sig, TRUE, ps) /\ ArePositions(sig, FALSE, ns)
    BY PositionsLemma
<1> HIDE DEF ps, ns, h
<1>2. /\ Len(ps) \in Nat /\ DOMAIN ps = 1..Len(ps) /\ Len(ns) \in Nat /\ DOMAIN ns = 1..Len(ns)
      /\ \A k \in DOMAIN ps : values[ps[k]] \in Nat
      /\ \A k \in DOMAIN ns : values[ns[k]] \in Nat
    BY <1>1 DEF ArePositions
<1>3. /\ top \in [1..Len(ps) -> X] /\ \A k \in DOMAIN ps : top[k] = values[ps[k]]
      /\ dat \in [1..Len(ns) -> X] /\ \A k \in DOMAIN ns : dat[k] = values[ns[k]]
    BY <1>2
<1>4. log.address = emitter /\ log.topics = <<h>> \o top /\ log.data = dat
    BY DEF LogOf, ps, ns, h
<1> HIDE DEF top, dat, X, log
<1>5. top \in Seq(X) /\ Len(top) = Len(ps) /\ dat \in Seq(X) /\ Len(dat) = Len(ns)
    BY <1>2, <1>3, FunctionIsSeq
<1>6. <<h>> \in Seq(X) /\ Len(<<h>>) = 1 /\ <<h>>[1] = h
    BY DEF X
<1>7. /\ Len(<<h>> \o top) = Len(ps) + 1 /\ (<<h>> \o top)[1] = h
      /\ \A k \in 1..Len(ps) : (<<h>> \o top)[1 + k] = top[k]
    BY <1>2, <1>5, <1>6
<1>8. <<h>> \o top # <<>>
    <2>1. Len(<<h>> \o top) # 0
        BY <1>2, <1>7
    <2> QED BY <2>1
<1> QED BY <1>2, <1>3, <1>4, <1>5, <1>7, <1>8 DEF IsLogOf, ps, ns, h, log

\* The arguments of an event that the service can represent are set.
LEMMA RepresentableIsSet ==
    ASSUME NEW sig, Representable(sig), NEW i \in DOMAIN sig.args
    PROVE  setArgumentOK(sig.args[i], 0)
<1> DEFINE arg == sig.args[i]
<1>1. /\ arg.name # Unnamed
      /\ arg.type \in {"address", "bool", "bytes", "string", "uint8", "uint256"}
      /\ ~(arg.indexed /\ Dynamic(arg.type))
    BY DEF Representable
<1> HIDE DEF arg
<1>2. Decoded(arg, 0).go \in Settable(arg.type)
    BY <1>1 DEF Decoded, GoValue, Settable, Dynamic
<1>3. Payload(arg.type, 0).type = arg.type
    BY DEF Payload
<1> QED BY <1>1, <1>2, <1>3 DEF setArgumentOK, SetPayloadOK, arg

\* asEvent() of the log of an event, by a signature of its hash.
LEMMA AsEventLemma ==
    ASSUME NEW sig \in Sigs, NEW req, EVMHash(req) = EVMHash(sig),
           NEW emitter, NEW values \in [DOMAIN sig.args -> Nat],
           NEW e, e.sig = sig, e.emitter = emitter, e.values = values
    PROVE  LET r == asEvent(req, LogOf(sig, emitter, values))
           IN /\ r.ok => Says(r, e, req)
              /\ ~r.ok => ~Representable(req) \/ Layout(sig) # Layout(req)
<1> DEFINE log == LogOf(sig, emitter, values)
           r == asEvent(req, log)
           raw == RawArguments(req, log)
           Fails == \/ Len(log.topics) # Len(Positions(req, TRUE)) + 1
                    \/ Len(log.data) < Len(Positions(req, FALSE))
                    \/ \E i \in DOMAIN req.args : ~setArgumentOK(req.args[i], 0)
           ps == Positions(sig, TRUE)
           ns == Positions(sig, FALSE)
<1>0. \A i \in DOMAIN sig.args : sig.args[i].indexed \in BOOLEAN
    <2>1. sig.args \in Seq([name : STRING, type : STRING, indexed : BOOLEAN])
        BY DEF Sigs
    <2> DEFINE A == [name : STRING, type : STRING, indexed : BOOLEAN]
               args == sig.args
    <2>2. \A i \in DOMAIN args : args[i] \in A
        <3>1. args \in Seq(A)
            BY <2>1
        <3> HIDE DEF A, args
        <3> QED BY <3>1
    <2>3. \A a \in A : a.indexed \in BOOLEAN
        OBVIOUS
    <2> QED BY <2>2, <2>3
<1>1. IsLogOf(sig, emitter, values, log)
    BY LogOfLemma
<1>2. /\ req.name = sig.name /\ DOMAIN req.args = DOMAIN sig.args
      /\ Layout(req) = Layout(sig) => Positions(req, TRUE) = ps /\ Positions(req, FALSE) = ns
    BY SameLayout
<1>3. ArePositions(sig, TRUE, ps) /\ ArePositions(sig, FALSE, ns)
    BY PositionsLemma
<1>a. /\ log.address = emitter
      /\ Len(log.topics) = Len(ps) + 1 /\ Len(log.data) = Len(ns)
      /\ \A k \in DOMAIN ps : log.topics[1 + k] = values[ps[k]]
      /\ \A k \in DOMAIN ns : log.data[k] = values[ns[k]]
    <2> HIDE DEF log
    <2> QED BY <1>1 DEF IsLogOf
<1>4. Len(ps) \in Nat /\ Len(ns) \in Nat
    <2> HIDE DEF ps, ns
    <2> QED BY <1>3 DEF ArePositions
<1> DEFINE ev == [ok |-> TRUE, name |-> req.name, emitter |-> log.address,
                  args |-> [i \in DOMAIN req.args |->
                     SetPayload(Payload(req.args[i].type, 0), Decoded(req.args[i], raw[i]))]]
<1>5. r = IF Fails THEN EventError ELSE ev
    BY DEF asEvent
<1> HIDE DEF log, r, raw, ps, ns
<1>6. CASE Fails
    <2>1. ~r.ok
        BY <1>5, <1>6 DEF EventError
    <2>2. ASSUME Representable(req), Layout(sig) = Layout(req) PROVE FALSE
        <3>1. \A i \in DOMAIN req.args : setArgumentOK(req.args[i], 0)
            BY <2>2, RepresentableIsSet
        <3>2. Len(log.topics) = Len(Positions(req, TRUE)) + 1 /\ ~(Len(log.data) < Len(Positions(req, FALSE)))
            <4>1. Positions(req, TRUE) = ps /\ Positions(req, FALSE) = ns
                BY <1>2, <2>2
            <4>2. Len(Positions(req, TRUE)) = Len(ps) /\ Len(Positions(req, FALSE)) = Len(ns)
                BY <4>1
            <4>3. Len(log.topics) = Len(ps) + 1 /\ Len(log.data) = Len(ns)
                BY <1>a
            <4>4. \A x \in Nat : ~(x < x)
                OBVIOUS
            <4> QED BY <1>4, <4>2, <4>3, <4>4, Zenon
        <3> QED BY <1>6, <3>1, <3>2
    <2> QED BY <2>1, <2>2 DEF r, log
<1>7. CASE ~Fails
    <2> HIDE DEF Fails
    <2>1. r = ev
        BY <1>5, <1>7
    <2>2. r.ok = TRUE /\ r.name = req.name /\ r.emitter = log.address /\ r.args = ev.args
        BY <2>1
    <2>3. DOMAIN r.args = DOMAIN req.args /\ \A i \in DOMAIN req.args : r.args[i].v = raw[i]
        BY <2>2 DEF SetPayload, Payload, Decoded, GoValue
    <2>4. ASSUME Layout(sig) = Layout(req), NEW i \in DOMAIN req.args PROVE raw[i] = values[i]
        <3>0. /\ Positions(req, TRUE) = ps /\ Positions(req, FALSE) = ns
              /\ req.args[i].indexed = sig.args[i].indexed
            <4>1. Layout(req)[i] = req.args[i].indexed /\ Layout(sig)[i] = sig.args[i].indexed
                BY <1>2 DEF Layout
            <4> QED BY <1>2, <2>4, <4>1
        <3>1. raw[i] = IF req.args[i].indexed
                       THEN log.topics[1 + CHOOSE k \in DOMAIN ps : ps[k] = i]
                       ELSE log.data[CHOOSE k \in DOMAIN ns : ns[k] = i]
            <4> DEFINE qs == Positions(req, TRUE)
                       ms == Positions(req, FALSE)
            <4>1. raw[i] = IF req.args[i].indexed
                           THEN log.topics[1 + CHOOSE k \in DOMAIN qs : qs[k] = i]
                           ELSE log.data[CHOOSE k \in DOMAIN ms : ms[k] = i]
                BY DEF raw, RawArguments
            <4>2. qs = ps /\ ms = ns
                BY <3>0
            <4> HIDE DEF qs, ms
            <4> QED BY <4>1, <4>2
        <3>2. CASE req.args[i].indexed
            <4>0. sig.args[i].indexed = TRUE
                <5>1. sig.args[i].indexed \in BOOLEAN
                    BY <1>0, <1>2
                <5> QED BY <3>0, <3>2, <5>1
            <4>1. \E k \in DOMAIN ps : ps[k] = i
                BY <1>2, <1>3, <4>0 DEF ArePositions
            <4> DEFINE c == CHOOSE k \in DOMAIN ps : ps[k] = i
            <4>2. c \in DOMAIN ps /\ ps[c] = i
                BY <4>1
            <4>3. raw[i] = log.topics[1 + c]
                BY <3>1, <3>2
            <4> HIDE DEF c
            <4> QED BY <1>a, <4>2, <4>3
        <3>3. CASE ~req.args[i].indexed
            <4>0. sig.args[i].indexed = FALSE
                <5>1. sig.args[i].indexed \in BOOLEAN
                    BY <1>0, <1>2
                <5> QED BY <3>0, <3>3, <5>1
            <4>1. \E k \in DOMAIN ns : ns[k] = i
                BY <1>2, <1>3, <4>0 DEF ArePositions
            <4> DEFINE c == CHOOSE k \in DOMAIN ns : ns[k] = i
            <4>2. c \in DOMAIN ns /\ ns[c] = i
                BY <4>1
            <4>3. raw[i] = log.data[c]
                BY <3>1, <3>3
            <4> HIDE DEF c
            <4> QED BY <1>a, <4>2, <4>3
        <3> QED BY <3>2, <3>3
    <2>5. ASSUME Layout(sig) = Layout(req) PROVE [i \in DOMAIN r.args |-> r.args[i].v] = values
        <3>1. DOMAIN values = DOMAIN r.args /\ values = [i \in DOMAIN values |-> values[i]]
            BY <1>2, <2>3
        <3>2. \A i \in DOMAIN r.args : r.args[i].v = values[i]
            BY <2>3, <2>4, <2>5
        <3> QED BY <3>1, <3>2
    <2>6. Says(r, e, req)
        BY <1>a, <1>2, <2>2, <2>5 DEF Says
    <2> QED BY <2>2, <2>6 DEF r, log
<1> QED BY <1>6, <1>7

-----------------------------------------------------------------------------

\* An event that a contract emits under a signature.
IsEmitted(e) == e.sig \in Sigs /\ e.values \in [DOMAIN e.sig.args -> Nat]

\* The signatures of a request are a list.
IsList(sigs) == Len(sigs) \in Nat /\ DOMAIN sigs = 1..Len(sigs)

\* Every extractor has the hash by which it is found.
LEMMA ExtractorsLemma ==
    ASSUME NEW sigs, IsList(sigs), NEW h \in DOMAIN ethEventExtractors(sigs)
    PROVE  EVMHash(ethEventExtractors(sigs)[h]) = h
<1> DEFINE IsLast(i) == /\ EVMHash(sigs[i]) = h
                      /\ \A j \in DOMAIN sigs : j > i => EVMHash(sigs[j]) # h
           S == {i \in DOMAIN sigs : EVMHash(sigs[i]) = h}
<1>0. Len(sigs) \in Nat /\ DOMAIN sigs = 1..Len(sigs)
    BY DEF IsList
<1>1. PICK i \in DOMAIN sigs : EVMHash(sigs[i]) = h
    BY DEF ethEventExtractors
<1>2. S \in SUBSET (0..Len(sigs)) /\ S # {}
    BY <1>0, <1>1
<1>3. Max(S) \in S /\ \A y \in S : Max(S) >= y
    <2> HIDE DEF S
    <2> QED BY <1>0, <1>2, MaxOfBounded
<1>4. Max(S) \in DOMAIN sigs /\ IsLast(Max(S))
    <2> DEFINE m == Max(S)
    <2>1. m \in S /\ \A y \in S : m >= y
        BY <1>3
    <2> HIDE DEF m
    <2>2. m \in DOMAIN sigs /\ IsLast(m)
        BY <1>0, <2>1
    <2> QED BY <2>2 DEF m
<1> DEFINE c == CHOOSE k \in DOMAIN sigs : IsLast(k)
<1>5. c \in DOMAIN sigs /\ IsLast(c)
    <2> HIDE DEF IsLast
    <2> QED BY <1>4
<1>6. ethEventExtractors(sigs)[h] = sigs[c]
    BY DEF ethEventExtractors
<1>7. EVMHash(sigs[c]) = h
    <2> HIDE DEF c
    <2> QED BY <1>0, <1>5
<1> QED BY <1>6, <1>7

\* The logs of a transaction, and its logs and events that are asked for.
LogsOf(tx) == [i \in DOMAIN tx |-> LogOf(tx[i].sig, tx[i].emitter, tx[i].values)]
Wanted(exs, contracts, logs) ==
    {log \in Range(logs) : /\ log.address \in contracts
                           /\ log.topics # <<>> /\ log.topics[1] \in DOMAIN exs}
Relevant(exs, contracts, tx) ==
    {e \in Range(tx) : e.emitter \in contracts /\ EVMHash(e.sig) \in DOMAIN exs}

\* What extract() makes of a transaction, and the events that it is made of.
EventsOf(exs, contracts, tx) ==
    LET logs == Selected(LogsOf(tx), Wanted(exs, contracts, LogsOf(tx)))
    IN [i \in DOMAIN logs |-> asEvent(exs[logs[i].topics[1]], logs[i])]
SaidOf(exs, contracts, tx) == Selected(tx, Relevant(exs, contracts, tx))

\* Events r say what was emitted in said, and those that fail have a reason.
TxSays(exs, r, said) ==
    /\ DOMAIN r = DOMAIN said
    /\ \A i \in DOMAIN said :
         LET req == exs[EVMHash(said[i].sig)] IN
         /\ r[i].ok => Says(r[i], said[i], req)
         /\ ~r[i].ok => ~Representable(req) \/ Layout(said[i].sig) # Layout(req)

\* What extract() makes of a transaction is what it emitted and was asked for.
TxExtracted(exs, contracts, E, tx) ==
    /\ SaidOf(exs, contracts, tx) \in Seq(E)
    /\ \E m \in Nat : DOMAIN EventsOf(exs, contracts, tx) = 1..m
    /\ \A i \in DOMAIN SaidOf(exs, contracts, tx) :
         SaidOf(exs, contracts, tx)[i] \in Relevant(exs, contracts, tx)
    /\ TxSays(exs, EventsOf(exs, contracts, tx), SaidOf(exs, contracts, tx))

\* One transaction.
LEMMA TxLemma ==
    ASSUME NEW sigs, IsList(sigs), NEW contracts, NEW E, \A e \in E : IsEmitted(e),
           NEW tx \in Seq(E), NEW exs, exs = ethEventExtractors(sigs)
    PROVE  TxExtracted(exs, contracts, E, tx)
<1> DEFINE logs == LogsOf(tx)
           W == Wanted(exs, contracts, logs)
           R == Relevant(exs, contracts, tx)
           n == Len(tx)
           Y == {logs[i] : i \in 1..n}
           sl == Selected(logs, W)
           said == SaidOf(exs, contracts, tx)
           evs == EventsOf(exs, contracts, tx)
<1>0. n \in Nat /\ DOMAIN tx = 1..n /\ \A i \in 1..n : tx[i] \in E
    OBVIOUS
<1>1. DOMAIN logs = 1..n /\ \A i \in 1..n : logs[i] = LogOf(tx[i].sig, tx[i].emitter, tx[i].values)
    BY <1>0 DEF LogsOf
<1>2. \A i \in 1..n : IsLogOf(tx[i].sig, tx[i].emitter, tx[i].values, logs[i])
    BY <1>0, <1>1, LogOfLemma DEF IsEmitted
<1>3. \A i \in 1..n : /\ logs[i].address = tx[i].emitter /\ logs[i].topics # <<>>
                      /\ logs[i].topics[1] = EVMHash(tx[i].sig)
    BY <1>2 DEF IsLogOf
<1>4. logs \in Seq(Y) /\ Len(logs) = n
    <2>1. logs = [i \in 1..n |-> logs[i]]
        BY <1>1 DEF LogsOf
    <2>2. logs \in [1..n -> Y]
        <3> HIDE DEF logs
        <3> QED BY <2>1
    <2> HIDE DEF logs, Y
    <2> QED BY <1>0, <2>2, FunctionIsSeq
<1> HIDE DEF logs
<1>5. \A i \in 1..n : tx[i] \in R <=> logs[i] \in W
    <2>1. \A i \in 1..n : tx[i] \in Range(tx) /\ logs[i] \in Range(logs)
        BY <1>0, <1>1 DEF Range
    <2> QED BY <1>3, <2>1 DEF Relevant, Wanted
<1> HIDE DEF W, R, Y
<1>6. /\ Selected(tx, R) \in Seq(E) /\ sl \in Seq(Y) /\ Len(Selected(tx, R)) = Len(sl)
      /\ \E p : IsPick(tx, R, n, Selected(tx, R), p) /\ IsPick(logs, W, n, sl, p)
    BY <1>4, <1>5, SelectedPick
<1>7. said = Selected(tx, R)
    BY DEF SaidOf, R
<1>8. evs = [i \in DOMAIN sl |-> asEvent(exs[sl[i].topics[1]], sl[i])]
    BY DEF EventsOf, logs, W
<1> HIDE DEF said, evs, sl
<1>9. PICK p : IsPick(tx, R, n, said, p) /\ IsPick(logs, W, n, sl, p)
    BY <1>6, <1>7
<1>10. said \in Seq(E) /\ Len(said) \in Nat /\ DOMAIN said = 1..Len(said) /\ DOMAIN sl = DOMAIN said
       /\ DOMAIN evs = DOMAIN said
    BY <1>6, <1>7, <1>8
<1>11. \A i \in DOMAIN said : said[i] \in R /\ p[i] \in 1..n /\ said[i] = tx[p[i]] /\ sl[i] = logs[p[i]]
    BY <1>9, <1>10 DEF IsPick
<1>12. ASSUME NEW i \in DOMAIN said
       PROVE  LET req == exs[EVMHash(said[i].sig)] IN
              /\ evs[i].ok => Says(evs[i], said[i], req)
              /\ ~evs[i].ok => ~Representable(req) \/ Layout(said[i].sig) # Layout(req)
    <2> DEFINE e == said[i]
               h == EVMHash(e.sig)
               req == exs[h]
    <2>1. e \in R /\ e = tx[p[i]] /\ p[i] \in 1..n /\ sl[i] = logs[p[i]] /\ IsEmitted(e)
        BY <1>0, <1>11
    <2>2. h \in DOMAIN exs
        BY <2>1 DEF R, Relevant
    <2>3. EVMHash(req) = h
        <3> HIDE DEF h
        <3> QED BY <2>2, ExtractorsLemma
    <2>4. sl[i] = LogOf(e.sig, e.emitter, e.values) /\ sl[i].topics[1] = h
        BY <1>1, <1>3, <2>1
    <2>5. evs[i] = asEvent(exs[sl[i].topics[1]], sl[i])
        BY <1>8, <1>10
    <2>6. evs[i] = asEvent(req, LogOf(e.sig, e.emitter, e.values))
        <3> HIDE DEF e, h
        <3> QED BY <2>4, <2>5
    <2> HIDE DEF e, req
    <2>7. /\ evs[i].ok => Says(evs[i], e, req)
          /\ ~evs[i].ok => ~Representable(req) \/ Layout(e.sig) # Layout(req)
        BY <2>1, <2>3, <2>6, AsEventLemma DEF IsEmitted
    <2> QED BY <2>7 DEF e, req
<1>13. TxSays(exs, evs, said)
    BY <1>10, <1>12 DEF TxSays
<1> QED BY <1>10, <1>11, <1>13 DEF TxExtracted, said, evs, R

\* The sequence without elements.
LEMMA EmptyDomain ==
    ASSUME NEW X, NEW x \in Seq(X)
    PROVE  x = <<>> <=> DOMAIN x = {}
<1>1. Len(x) \in Nat /\ DOMAIN x = 1..Len(x)
    OBVIOUS
<1>2. x = <<>> <=> Len(x) = 0
    OBVIOUS
<1>3. Len(x) # 0 => 1 \in 1..Len(x)
    BY <1>1
<1>4. Len(x) = 0 => 1..Len(x) = {}
    BY <1>1
<1> QED BY <1>1, <1>2, <1>3, <1>4

\* extract() of what a block's events emit.
LEMMA ExtractLemma ==
    ASSUME NEW sigs, IsList(sigs), NEW contracts, NEW E, \A e \in E : IsEmitted(e),
           NEW emitted \in Seq(Seq(E))
    PROVE  ExtractInvertsEmit(sigs, contracts, emitted)
<1> DEFINE exs == ethEventExtractors(sigs)
           n == Len(emitted)
           block == [t \in DOMAIN emitted |-> [i \in DOMAIN emitted[t] |->
                       LogOf(emitted[t][i].sig, emitted[t][i].emitter, emitted[t][i].values)]]
           r == extract(exs, block, contracts)
           txs == [t \in DOMAIN emitted |-> EventsOf(exs, contracts, emitted[t])]
           all == [t \in DOMAIN emitted |-> SaidOf(exs, contracts, emitted[t])]
           said == Selected(all, Range(all) \ {<<>>})
           sent == Selected(txs, Range(txs) \ {<<>>})
           req(e) == exs[EVMHash(e.sig)]
<1>0. n \in Nat /\ DOMAIN emitted = 1..n /\ \A t \in 1..n : emitted[t] \in Seq(E)
    OBVIOUS
<1>1. block = [t \in DOMAIN emitted |-> LogsOf(emitted[t])]
    BY DEF LogsOf
<1>2. /\ r.ok = \A t \in DOMAIN txs : \A i \in DOMAIN txs[t] : txs[t][i].ok
      /\ r.txs = sent
    <2>1. [t \in DOMAIN block |->
              LET logs == Selected(block[t], Wanted(exs, contracts, block[t]))
              IN [i \in DOMAIN logs |-> asEvent(exs[logs[i].topics[1]], logs[i])]] = txs
        <3> HIDE DEF block, exs
        <3> QED BY <1>1 DEF EventsOf
    <2> HIDE DEF block, exs
    <2> QED BY <2>1 DEF extract, Wanted
<1>3. ASSUME NEW t \in 1..n
      PROVE  /\ all[t] \in Seq(E)
             /\ \E m \in Nat : DOMAIN txs[t] = 1..m
             /\ \A i \in DOMAIN all[t] : all[t][i] \in Relevant(exs, contracts, emitted[t])
             /\ TxSays(exs, txs[t], all[t])
    <2>1. all[t] = SaidOf(exs, contracts, emitted[t]) /\ txs[t] = EventsOf(exs, contracts, emitted[t])
        BY <1>0
    <2>2. emitted[t] \in Seq(E) /\ exs = ethEventExtractors(sigs)
        BY <1>0
    <2> DEFINE a == SaidOf(exs, contracts, emitted[t])
               x == EventsOf(exs, contracts, emitted[t])
    <2>3. /\ a \in Seq(E)
          /\ \E m \in Nat : DOMAIN x = 1..m
          /\ \A i \in DOMAIN a : a[i] \in Relevant(exs, contracts, emitted[t])
          /\ TxSays(exs, x, a)
        <3> HIDE DEF exs
        <3>1. TxExtracted(exs, contracts, E, emitted[t])
            BY <2>2, TxLemma
        <3> QED BY <3>1 DEF TxExtracted
    <2> HIDE DEF exs, txs, all, x, a
    <2>4. all[t] = a /\ txs[t] = x
        BY <2>1 DEF a, x
    <2> QED BY <2>3, <2>4
<1>4. DOMAIN txs = 1..n /\ DOMAIN all = 1..n
    BY <1>0
<1>5. ExtractInvertsEmit(sigs, contracts, emitted) <=>
          IF r.ok
          THEN /\ DOMAIN r.txs = DOMAIN said
               /\ \A t \in DOMAIN said :
                    /\ DOMAIN r.txs[t] = DOMAIN said[t]
                    /\ \A i \in DOMAIN said[t] : Says(r.txs[t][i], said[t][i], req(said[t][i]))
          ELSE \E t \in DOMAIN emitted : \E e \in Relevant(exs, contracts, emitted[t]) :
                   ~Representable(req(e)) \/ Layout(e.sig) # Layout(req(e))
    BY DEF ExtractInvertsEmit, SaidOf, Relevant
<1>6. CASE r.ok
    <2> DEFINE X == {txs[t] : t \in 1..n}
    <2>1. txs \in Seq(X) /\ Len(txs) = n /\ all \in Seq(Seq(E)) /\ Len(all) = n
        <3>1. txs = [t \in 1..n |-> txs[t]] /\ all = [t \in 1..n |-> all[t]]
            BY <1>0
        <3> HIDE DEF txs, all
        <3>2. txs \in [1..n -> X] /\ all \in [1..n -> Seq(E)]
            BY <1>3, <3>1
        <3> HIDE DEF X
        <3> QED BY <1>0, <3>2, FunctionIsSeq
    <2> HIDE DEF txs, all, X
    <2>2. ASSUME NEW t \in 1..n PROVE txs[t] \in Range(txs) \ {<<>>} <=> all[t] \in Range(all) \ {<<>>}
        <3>1. txs[t] \in Range(txs) /\ all[t] \in Range(all)
            BY <1>4 DEF Range
        <3>2. DOMAIN txs[t] = DOMAIN all[t] /\ all[t] \in Seq(E)
            BY <1>3 DEF TxSays
        <3>3. all[t] = <<>> <=> DOMAIN all[t] = {}
            BY <3>2, EmptyDomain
        <3>4. txs[t] = <<>> <=> DOMAIN txs[t] = {}
            <4> DEFINE x == txs[t]
                       Z == {x[i] : i \in DOMAIN x}
            <4>1. x = [i \in DOMAIN x |-> x[i]]
                BY <1>0 DEF txs, EventsOf
            <4>2. PICK m \in Nat : DOMAIN x = 1..m
                BY <1>3
            <4> HIDE DEF x
            <4>3. x \in [1..m -> Z]
                BY <4>1, <4>2
            <4> HIDE DEF Z
            <4>4. x \in Seq(Z)
                BY <4>3, FunctionIsSeq
            <4>5. x = <<>> <=> DOMAIN x = {}
                BY <4>4, EmptyDomain
            <4> QED BY <4>5 DEF x
        <3> QED BY <3>1, <3>2, <3>3, <3>4
    <2>3. /\ sent \in Seq(X) /\ said \in Seq(Seq(E)) /\ Len(sent) = Len(said)
          /\ \E p : /\ IsPick(txs, Range(txs) \ {<<>>}, n, sent, p)
                    /\ IsPick(all, Range(all) \ {<<>>}, n, said, p)
        <3> DEFINE W == Range(txs) \ {<<>>}
                   V == Range(all) \ {<<>>}
        <3>1. \A t \in 1..Len(txs) : txs[t] \in W <=> all[t] \in V
            BY <2>1, <2>2
        <3> HIDE DEF W, V
        <3>2. /\ Selected(txs, W) \in Seq(X) /\ Selected(all, V) \in Seq(Seq(E))
              /\ Len(Selected(txs, W)) = Len(Selected(all, V))
              /\ \E p : /\ IsPick(txs, W, Len(txs), Selected(txs, W), p)
                        /\ IsPick(all, V, Len(txs), Selected(all, V), p)
            BY <2>1, <3>1, SelectedPick
        <3> QED BY <2>1, <3>2 DEF W, V
    <2> HIDE DEF sent, said
    <2>4. PICK p : /\ IsPick(txs, Range(txs) \ {<<>>}, n, sent, p)
                   /\ IsPick(all, Range(all) \ {<<>>}, n, said, p)
        BY <2>3
    <2>5. DOMAIN sent = DOMAIN said
        BY <2>3
    <2>6. ASSUME NEW t \in DOMAIN said
          PROVE  /\ DOMAIN sent[t] = DOMAIN said[t]
                 /\ \A i \in DOMAIN said[t] : Says(sent[t][i], said[t][i], req(said[t][i]))
        <3>1. p[t] \in 1..n /\ sent[t] = txs[p[t]] /\ said[t] = all[p[t]]
            BY <2>4, <2>5 DEF IsPick
        <3>2. TxSays(exs, sent[t], said[t])
            BY <1>3, <3>1
        <3>3. \A i \in DOMAIN sent[t] : sent[t][i].ok
            BY <1>2, <1>4, <1>6, <3>1
        <3> QED BY <3>2, <3>3 DEF TxSays
    <2> HIDE DEF r, req, exs
    <2>7. r.txs = sent
        BY <1>2
    <2> QED BY <1>5, <1>6, <2>5, <2>6, <2>7
<1>7. CASE ~r.ok
    <2>1. PICK t \in 1..n : \E i \in DOMAIN txs[t] : ~txs[t][i].ok
        <3> HIDE DEF txs, r
        <3> QED BY <1>2, <1>4, <1>7
    <2>2. PICK i \in DOMAIN txs[t] : ~txs[t][i].ok
        BY <2>1
    <2> HIDE DEF txs, all, r, req, exs
    <2>3. TxSays(exs, txs[t], all[t]) /\ i \in DOMAIN all[t] /\ all[t][i] \in Relevant(exs, contracts, emitted[t])
        BY <1>3, <2>2 DEF TxSays
    <2>4. ~Representable(req(all[t][i])) \/ Layout(all[t][i].sig) # Layout(req(all[t][i]))
        BY <2>2, <2>3 DEF TxSays, req
    <2> QED BY <1>0, <1>5, <1>7, <2>3, <2>4
<1> QED BY <1>6, <1>7

-----------------------------------------------------------------------------
(***************************************************************************)
(* The field: remainders modulo q, which is prime.                         *)
(***************************************************************************)

\* Numbers that are the same element of the field.
Same(x, y) == x % q = y % q

\* Quotient and remainder.
LEMMA Remainder ==
    ASSUME NEW x \in Int, NEW d \in Nat \ {0}
    PROVE  /\ x \div d \in Int /\ x % d \in 0..d-1 /\ x % d \in Int
           /\ x = (x \div d) * d + (x % d)
OBVIOUS

\* The remainder is the only one.
LEMMA RemainderUnique ==
    ASSUME NEW d \in Nat \ {0}, NEW k \in Int, NEW r \in 0..d-1, NEW x, x = k * d + r
    PROVE  x % d = r /\ x \div d = k
OBVIOUS

\* The remainder of a number that is small already.
LEMMA SmallRemainder ==
    ASSUME NEW d \in Nat \ {0}, NEW i \in 0..d-1
    PROVE  i % d = i
OBVIOUS

\* Numbers that differ by a multiple of d have the same remainder.
LEMMA RemainderShift ==
    ASSUME NEW d \in Nat \ {0}, NEW x \in Int, NEW k \in Int, NEW y, y = x + k * d
    PROVE  y % d = x % d
<1> DEFINE c == x \div d
           r == x % d
<1>1. c \in Int /\ r \in 0..d-1 /\ x = c * d + r
    BY Remainder
<1> HIDE DEF c, r
<1>2. y = (c + k) * d + r /\ c + k \in Int
    BY <1>1
<1> DEFINE m == c + k
<1>3. y = m * d + r /\ m \in Int
    BY <1>2
<1> HIDE DEF m
<1>4. y % d = r
    BY <1>1, <1>3, RemainderUnique
<1> QED BY <1>4 DEF r

\* And the other way round.
LEMMA RemainderEqual ==
    ASSUME NEW d \in Nat \ {0}, NEW x \in Int, NEW y \in Int, x % d = y % d
    PROVE  \E k \in Int : y = x + k * d
<1> DEFINE c == x \div d
           b == y \div d
           r == x % d
<1>1. c \in Int /\ r \in 0..d-1 /\ x = c * d + r /\ b \in Int /\ y = b * d + r
    BY Remainder
<1> HIDE DEF c, r, b
<1>2. y = x + (b - c) * d /\ b - c \in Int
    BY <1>1
<1> QED BY <1>2

\* q is not zero.
LEMMA FieldOrder == q \in Nat \ {0} /\ q \in Int /\ q > 1
BY FieldAssumption

\* Numbers are the same when they differ by a multiple of q.
LEMMA SameMultiple ==
    ASSUME NEW x \in Int, NEW y \in Int
    PROVE  Same(x, y) <=> \E k \in Int : y = x + k * q
<1>1. ASSUME Same(x, y) PROVE \E k \in Int : y = x + k * q
    BY <1>1, FieldOrder, RemainderEqual DEF Same
<1>2. ASSUME NEW k \in Int, y = x + k * q PROVE Same(x, y)
    BY <1>2, FieldOrder, RemainderShift DEF Same
<1> QED BY <1>1, <1>2

\* Sums of the same.
LEMMA SameAdd ==
    ASSUME NEW a \in Int, NEW b \in Int, NEW c \in Int, NEW d \in Int, Same(a, b), Same(c, d)
    PROVE  Same(a + c, b + d)
<1>1. PICK k \in Int : b = a + k * q
    BY SameMultiple
<1>2. PICK l \in Int : d = c + l * q
    BY SameMultiple
<1>3. b + d = (a + c) + (k + l) * q /\ k + l \in Int
    BY <1>1, <1>2, FieldOrder
<1>4. a + c \in Int /\ b + d \in Int
    OBVIOUS
<1> QED BY <1>3, <1>4, SameMultiple

\* Products of the same.
LEMMA SameMul ==
    ASSUME NEW a \in Int, NEW b \in Int, NEW c \in Int, NEW d \in Int, Same(a, b), Same(c, d)
    PROVE  Same(a * c, b * d)
<1>1. PICK k \in Int : b = a + k * q
    BY SameMultiple
<1>2. PICK l \in Int : d = c + l * q
    BY SameMultiple
<1> DEFINE m == a * l + k * c + (k * l) * q
<1>3. m \in Int
    BY FieldOrder
<1>4. b * d = a * c + m * q
    <2>1. b * d = (a + k * q) * (c + l * q)
        BY <1>1, <1>2
    <2>2. (a + k * q) * (c + l * q) = a * c + (a * l + k * c + (k * l) * q) * q
        BY FieldOrder
    <2> QED BY <2>1, <2>2
<1>5. a * c \in Int /\ b * d \in Int
    OBVIOUS
<1> HIDE DEF m
<1> QED BY <1>3, <1>4, <1>5, SameMultiple

\* A number and its remainder are the same.
LEMMA SameMod ==
    ASSUME NEW x \in Int
    PROVE  x % q \in 0..q-1 /\ x % q \in Int /\ Same(x % q, x) /\ Same(x, x % q)
<1>1. x % q \in 0..q-1 /\ x % q \in Int /\ x = (x \div q) * q + (x % q) /\ x \div q \in Int
    BY FieldOrder, Remainder
<1> DEFINE r == x % q
           c == x \div q
<1>2. r \in 0..q-1 /\ r \in Int /\ x = c * q + r /\ c \in Int
    BY <1>1
<1> HIDE DEF r, c
<1>3. r = 0 * q + r /\ 0 \in Int
    BY <1>2, FieldOrder
<1>4. r % q = r /\ x % q = r
    BY <1>2, <1>3, FieldOrder, RemainderUnique
<1>5. Same(r, x) /\ Same(x, r)
    BY <1>4 DEF Same
<1> QED BY <1>2, <1>5 DEF r

\* Elements of the field that are the same are equal.
LEMMA SameEqual ==
    ASSUME NEW x \in 0..q-1, NEW y \in 0..q-1, Same(x, y)
    PROVE  x = y
<1>1. \A z \in 0..q-1 : z % q = z
    <2> TAKE z \in 0..q-1
    <2> QED BY FieldOrder
<1> QED BY <1>1 DEF Same

\* The relation is an equivalence.
LEMMA SameTrans ==
    ASSUME NEW x, NEW y, NEW z, Same(x, y), Same(y, z)
    PROVE  Same(x, z) /\ Same(z, x)
BY DEF Same

\* A number that is not a multiple of a prime q may be cancelled.
LEMMA NoZeroDivisors ==
    ASSUME NEW a \in Int, NEW b \in Int, Same(a * b, 0), ~Same(a, 0)
    PROVE  Same(b, 0)
<1> DEFINE T == {d \in Nat \ {0} : Same(d * b, 0)}
           r == a % q
<1>0. r \in 0..q-1 /\ Same(r, a)
    BY SameMod
<1>1. r \in T
    <2>1. Same(r * b, a * b)
        <3>1. r \in Int /\ Same(b, b)
            BY <1>0, FieldOrder DEF Same
        <3> QED BY <1>0, <3>1, SameMul
    <2>2. Same(r * b, 0)
        BY <2>1, SameTrans
    <2>3. r # 0
        BY <1>0 DEF Same
    <2> QED BY <1>0, <2>2, <2>3, FieldOrder
<1> HIDE DEF r
<1>2. q \in T
    <2>1. q * b \in Int /\ 0 = q * b + (-b) * q /\ -b \in Int
        BY FieldOrder
    <2>2. Same(q * b, 0)
        BY <2>1, SameMultiple
    <2> QED BY <2>2, FieldOrder
<1>3. PICK m \in T : \A d \in T : m <= d
    <2>1. T \in SUBSET Nat /\ T # {}
        BY <1>1
    <2> HIDE DEF T
    <2> QED BY <2>1, LeastNatural
<1>4. m \in Nat \ {0} /\ m \in Int /\ Same(m * b, 0)
    OBVIOUS
<1>5. ASSUME NEW d \in T PROVE d % m = 0
    <2> DEFINE k == d \div m
               s == d % m
    <2>0. d \in Int /\ Same(d * b, 0)
        OBVIOUS
    <2>1. k \in Int /\ s \in 0..m-1 /\ d = k * m + s
        BY <1>4, <2>0, Remainder
    <2> HIDE DEF k, s
    <2>2. Same(s * b, 0)
        <3>1. PICK i \in Int : 0 = d * b + i * q
            BY <2>0, SameMultiple
        <3>2. PICK j \in Int : 0 = m * b + j * q
            BY <1>4, SameMultiple
        <3>3. s * b = d * b - k * (m * b)
            BY <1>4, <2>1
        <3>4. 0 = s * b + (i - k * j) * q
            <4>1. d * b = -(i * q) /\ m * b = -(j * q) /\ i * q \in Int /\ j * q \in Int
                BY <1>4, <2>0, <3>1, <3>2, FieldOrder
            <4>2. s * b = -(i * q) - k * (-(j * q))
                BY <3>3, <4>1
            <4>3. k * (-(j * q)) = -((k * j) * q)
                BY <2>1, FieldOrder
            <4>4. (i - k * j) * q = i * q - (k * j) * q /\ (k * j) * q \in Int
                BY <2>1, FieldOrder
            <4> QED BY <4>1, <4>2, <4>3, <4>4
        <3>5. i - k * j \in Int /\ s * b \in Int
            BY <2>1, <1>4
        <3> QED BY <3>4, <3>5, SameMultiple
    <2>3. s = 0
        <3> SUFFICES ASSUME s # 0 PROVE FALSE
            OBVIOUS
        <3>1. s \in T
            BY <1>4, <2>1, <2>2
        <3> QED BY <1>3, <1>4, <2>1, <3>1
    <2> QED BY <2>3 DEF s
<1>6. m <= r /\ m < q
    BY <1>0, <1>1, <1>3, FieldOrder
<1>7. q % m = 0
    BY <1>2, <1>5
<1>8. m = 1
    <2> SUFFICES ASSUME m # 1 PROVE FALSE
        OBVIOUS
    <2>1. m \in 2..q-1
        BY <1>4, <1>6, FieldOrder
    <2> QED BY <1>7, <2>1, FieldAssumption
<1> QED BY <1>4, <1>8

\* Cancellation.
LEMMA SameCancel ==
    ASSUME NEW a \in Int, NEW b \in Int, NEW c \in Int, Same(c * a, c * b), ~Same(c, 0)
    PROVE  Same(a, b)
<1>1. PICK k \in Int : c * b = c * a + k * q
    BY SameMultiple
<1>2. c * (b - a) = k * q
    BY <1>1, FieldOrder
<1>3. 0 = c * (b - a) + (-k) * q /\ -k \in Int /\ b - a \in Int
    BY <1>2, FieldOrder
<1> DEFINE d == b - a
<1>4. d \in Int /\ c * d \in Int /\ 0 = c * d + (-k) * q
    BY <1>3
<1> HIDE DEF d
<1>5. Same(c * d, 0)
    BY <1>3, <1>4, SameMultiple
<1>6. Same(d, 0)
    BY <1>4, <1>5, NoZeroDivisors
<1>7. PICK l \in Int : 0 = d + l * q
    BY <1>4, <1>6, SameMultiple
<1>8. b = a + (-l) * q /\ -l \in Int
    BY <1>7, FieldOrder DEF d
<1> QED BY <1>8, SameMultiple

-----------------------------------------------------------------------------
(***************************************************************************)
(* Powers in the field.                                                    *)
(***************************************************************************)

\* f is the loop of Exp().
IsPower(x, y, f) == f = [i \in 0..y |-> IF i = 0 THEN 1 % q ELSE (f[i-1] * x) % q]

\* The loop of Exp() is well defined.
LEMMA ExpLoop ==
    ASSUME NEW x \in Int, NEW y \in Nat
    PROVE  \E f : IsPower(x, y, f) /\ Exp(x, y) = f[y]
<1> DEFINE o == [i \in 1..y |-> [v \in Int |-> (v * x) % q]]
<1>1. 1 % q \in Int
    BY SameMod
<1>2. o \in [1..y -> [Int -> Int]]
    <2>1. \A v \in Int : v * x \in Int
        OBVIOUS
    <2>2. \A v \in Int : (v * x) % q \in Int
        BY <2>1, SameMod
    <2> QED BY <2>2
<1>3. \A i \in 1..y, v \in Int : o[i][v] = (v * x) % q
    OBVIOUS
<1> HIDE DEF o
<1>4. PICK g \in [0..y -> Int] : IsRecursion(y, 1 % q, o, g)
    BY <1>1, <1>2, RecursionExists
<1>5. IsPower(x, y, g)
    <2>1. ASSUME NEW i \in 0..y PROVE g[i] = IF i = 0 THEN 1 % q ELSE (g[i-1] * x) % q
        <3>1. CASE i = 0
            BY <1>4, <3>1 DEF IsRecursion
        <3>2. CASE i # 0
            <4>1. i \in 1..y /\ i - 1 \in 0..y
                BY <3>2
            <4>2. g[i] = o[i][g[i-1]] /\ g[i-1] \in Int
                BY <1>4, <4>1 DEF IsRecursion
            <4> QED BY <1>3, <3>2, <4>1, <4>2
        <3> QED BY <3>1, <3>2
    <2> QED BY <2>1 DEF IsPower
<1> DEFINE F == CHOOSE f : IsPower(x, y, f)
<1>6. Exp(x, y) = F[y]
    BY DEF Exp, IsPower
<1>7. IsPower(x, y, F)
    BY <1>5
<1> QED BY <1>6, <1>7

\* Powers do not depend on how far the loop goes.
LEMMA PowerUnique ==
    ASSUME NEW x, NEW y \in Nat, NEW z \in Nat, NEW f, NEW g, IsPower(x, y, f), IsPower(x, z, g)
    PROVE  \A i \in Nat : i <= y /\ i <= z => f[i] = g[i]
<1> DEFINE T == {i \in Nat : i <= y /\ i <= z => f[i] = g[i]}
<1>1. 0 \in T
    BY DEF IsPower
<1>2. ASSUME NEW i \in T PROVE i + 1 \in T
    <2> SUFFICES ASSUME i + 1 <= y, i + 1 <= z PROVE f[i+1] = g[i+1]
        OBVIOUS
    <2>1. i + 1 \in 0..y /\ i + 1 \in 0..z /\ i + 1 # 0 /\ (i + 1) - 1 = i /\ f[i] = g[i]
        OBVIOUS
    <2>2. f[i+1] = (f[i] * x) % q /\ g[i+1] = (g[i] * x) % q
        BY <2>1 DEF IsPower
    <2> QED BY <2>1, <2>2
<1>3. \A i \in Nat : i \in T
    <2>1. T \in SUBSET Nat
        OBVIOUS
    <2> HIDE DEF T
    <2> QED BY <1>1, <1>2, <2>1, SetInduction
<1> QED BY <1>3

\* Powers, one by one.
LEMMA ExpStep ==
    ASSUME NEW x \in Int
    PROVE  /\ Exp(x, 0) = 1
           /\ \A y \in Nat : /\ Exp(x, y + 1) = (Exp(x, y) * x) % q
                             /\ Exp(x, y) \in 0..q-1 /\ Exp(x, y) \in Int
<1>0. 1 % q = 1 /\ 1 \in 0..q-1
    <2>1. 1 \in 0..q-1
        BY FieldOrder
    <2> QED BY <2>1, FieldOrder
<1>1. Exp(x, 0) = 1
    <2>1. PICK f : IsPower(x, 0, f) /\ Exp(x, 0) = f[0]
        BY ExpLoop
    <2> QED BY <1>0, <2>1 DEF IsPower
<1>2. ASSUME NEW y \in Nat PROVE Exp(x, y + 1) = (Exp(x, y) * x) % q
    <2>1. PICK f : IsPower(x, y, f) /\ Exp(x, y) = f[y]
        BY ExpLoop
    <2>2. PICK g : IsPower(x, y + 1, g) /\ Exp(x, y + 1) = g[y + 1]
        BY ExpLoop
    <2>3. f[y] = g[y]
        BY <2>1, <2>2, PowerUnique
    <2>4. y + 1 \in 0..(y + 1) /\ y + 1 # 0 /\ (y + 1) - 1 = y
        OBVIOUS
    <2>5. g[y + 1] = (g[y] * x) % q
        BY <2>2, <2>4 DEF IsPower
    <2> QED BY <2>1, <2>2, <2>3, <2>5
<1> DEFINE T == {y \in Nat : Exp(x, y) \in 0..q-1}
<1>3. \A y \in Nat : y \in T
    <2>1. 0 \in T
        BY <1>0, <1>1
    <2>2. ASSUME NEW y \in T PROVE y + 1 \in T
        <3>1. Exp(x, y) \in Int
            BY FieldOrder
        <3>2. Exp(x, y) * x \in Int
            BY <3>1
        <3>3. (Exp(x, y) * x) % q \in 0..q-1
            BY <3>2, SameMod
        <3> QED BY <1>2, <3>3
    <2>3. T \in SUBSET Nat
        OBVIOUS
    <2> HIDE DEF T
    <2> QED BY <2>1, <2>2, <2>3, SetInduction
<1>4. \A y \in Nat : Exp(x, y) \in 0..q-1 /\ Exp(x, y) \in Int
    BY <1>3, FieldOrder
<1> QED BY <1>1, <1>2, <1>4

\* The same, of the element that a power is.
LEMMA ExpNext ==
    ASSUME NEW x \in Int, NEW y \in Nat
    PROVE  Same(Exp(x, y + 1), Exp(x, y) * x)
<1>1. Exp(x, y + 1) = (Exp(x, y) * x) % q /\ Exp(x, y) * x \in Int
    BY ExpStep
<1> QED BY <1>1, SameMod

\* x^1 is x.
LEMMA ExpOne ==
    ASSUME NEW x \in 0..q-1
    PROVE  Exp(x, 1) = x
<1>0. x \in Int
    BY FieldOrder
<1>1. Exp(x, 0 + 1) = (Exp(x, 0) * x) % q /\ Exp(x, 0) = 1
    BY <1>0, ExpStep
<1>2. 0 + 1 = 1 /\ 1 * x = x
    BY <1>0
<1>3. Exp(x, 1) = x % q
    BY <1>1, <1>2
<1> QED BY <1>3, FieldOrder

\* Powers of a sum.
LEMMA ExpAdd ==
    ASSUME NEW x \in Int, NEW a \in Nat, NEW b \in Nat
    PROVE  Same(Exp(x, a + b), Exp(x, a) * Exp(x, b))
<1> DEFINE T == {y \in Nat : Same(Exp(x, a + y), Exp(x, a) * Exp(x, y))}
<1>0. \A y \in Nat : Exp(x, y) \in Int /\ Exp(x, a + y) \in Int
    BY ExpStep
<1>1. 0 \in T
    <2>1. Exp(x, 0) = 1 /\ a + 0 = a /\ Exp(x, a) * 1 = Exp(x, a)
        BY <1>0, ExpStep
    <2> QED BY <2>1 DEF Same
<1>2. ASSUME NEW y \in T PROVE y + 1 \in T
    <2> DEFINE A == Exp(x, a)
               Y == Exp(x, y)
               Z == Exp(x, a + y)
    <2>1. A \in Int /\ Y \in Int /\ Z \in Int /\ Same(Z, A * Y)
        BY <1>0
    <2>2. Same(Exp(x, y + 1), Y * x) /\ Same(Exp(x, (a + y) + 1), Z * x)
        BY ExpNext
    <2>3. a + (y + 1) = (a + y) + 1
        OBVIOUS
    <2>4. Exp(x, y + 1) \in Int
        BY <1>0
    <2> DEFINE N == Exp(x, y + 1)
               M == Exp(x, a + (y + 1))
    <2>5. N \in Int /\ Same(N, Y * x) /\ Same(M, Z * x)
        BY <2>2, <2>3, <2>4
    <2> HIDE DEF A, Y, Z, N, M
    <2>6. Same(A * N, A * (Y * x))
        <3>1. Same(A, A) /\ Y * x \in Int
            BY <2>1 DEF Same
        <3> QED BY <2>1, <2>5, <3>1, SameMul
    <2>7. Same(Z * x, (A * Y) * x)
        <3>1. Same(x, x) /\ A * Y \in Int
            BY <2>1 DEF Same
        <3> QED BY <2>1, <3>1, SameMul
    <2>8. A * (Y * x) = (A * Y) * x
        BY <2>1
    <2>9. Same(M, A * N)
        BY <2>5, <2>6, <2>7, <2>8 DEF Same
    <2> QED BY <2>9 DEF M, A, N
<1>3. \A y \in Nat : y \in T
    <2>1. T \in SUBSET Nat
        OBVIOUS
    <2> HIDE DEF T
    <2> QED BY <1>1, <1>2, <2>1, SetInduction
<1> QED BY <1>3

\* Powers of the same.
LEMMA ExpSame ==
    ASSUME NEW x \in Int, NEW z \in Int, Same(x, z), NEW b \in Nat
    PROVE  Exp(x, b) = Exp(z, b)
<1> DEFINE T == {y \in Nat : Exp(x, y) = Exp(z, y)}
<1>1. 0 \in T
    BY ExpStep
<1>2. ASSUME NEW y \in T PROVE y + 1 \in T
    <2> DEFINE Y == Exp(x, y)
    <2>1. /\ Y \in Int /\ Exp(z, y) = Y
          /\ Exp(x, y + 1) = (Y * x) % q /\ Exp(z, y + 1) = (Y * z) % q
        BY ExpStep
    <2> HIDE DEF Y
    <2>2. Same(Y * x, Y * z)
        <3>1. Same(Y, Y)
            BY DEF Same
        <3> QED BY <2>1, <3>1, SameMul
    <2> QED BY <2>1, <2>2 DEF Same
<1>3. \A y \in Nat : y \in T
    <2>1. T \in SUBSET Nat
        OBVIOUS
    <2> HIDE DEF T
    <2> QED BY <1>1, <1>2, <2>1, SetInduction
<1> QED BY <1>3

\* Powers of powers.
LEMMA ExpExp ==
    ASSUME NEW x \in Int, NEW a \in Nat, NEW b \in Nat
    PROVE  Exp(Exp(x, a), b) = Exp(x, a * b)
<1> DEFINE A == Exp(x, a)
           T == {y \in Nat : Exp(A, y) = Exp(x, a * y)}
<1>0. A \in Int /\ \A y \in Nat : Exp(x, y) \in 0..q-1 /\ Exp(A, y) \in 0..q-1
    BY ExpStep
<1>1. 0 \in T
    <2>1. a * 0 = 0
        OBVIOUS
    <2> QED BY <1>0, <2>1, ExpStep
<1>2. ASSUME NEW y \in T PROVE y + 1 \in T
    <2>1. a * (y + 1) = a * y + a /\ a * y \in Nat /\ a * (y + 1) \in Nat
        OBVIOUS
    <2>2. Same(Exp(x, a * y + a), Exp(x, a * y) * A)
        BY <2>1, ExpAdd
    <2>3. Same(Exp(A, y + 1), Exp(A, y) * A)
        BY <1>0, ExpNext
    <2>4. Exp(A, y) = Exp(x, a * y)
        OBVIOUS
    <2>5. Same(Exp(A, y + 1), Exp(x, a * (y + 1)))
        BY <2>1, <2>2, <2>3, <2>4 DEF Same
    <2>6. Exp(A, y + 1) \in 0..q-1 /\ Exp(x, a * (y + 1)) \in 0..q-1
        BY <1>0, <2>1
    <2>7. Exp(A, y + 1) = Exp(x, a * (y + 1))
        BY <2>5, <2>6, SameEqual
    <2> QED BY <2>7
<1>3. \A y \in Nat : y \in T
    <2>1. T \in SUBSET Nat
        OBVIOUS
    <2> HIDE DEF T
    <2> QED BY <1>1, <1>2, <2>1, SetInduction
<1> QED BY <1>3

\* Powers of one.
LEMMA ExpOfOne ==
    ASSUME NEW b \in Nat
    PROVE  Exp(1, b) = 1
<1> DEFINE T == {y \in Nat : Exp(1, y) = 1}
<1>1. 0 \in T
    BY ExpStep
<1>2. ASSUME NEW y \in T PROVE y + 1 \in T
    <2>1. Exp(1, y + 1) = (Exp(1, y) * 1) % q /\ Exp(1, y) = 1
        BY ExpStep
    <2>2. (1 * 1) % q = 1
        BY FieldOrder
    <2> QED BY <2>1, <2>2
<1>3. \A y \in Nat : y \in T
    <2>1. T \in SUBSET Nat
        OBVIOUS
    <2> HIDE DEF T
    <2> QED BY <1>1, <1>2, <2>1, SetInduction
<1> QED BY <1>3

\* Powers of zero.
LEMMA ExpOfZero ==
    ASSUME NEW b \in Nat \ {0}
    PROVE  Exp(0, b) = 0
<1>1. b - 1 \in Nat /\ (b - 1) + 1 = b
    OBVIOUS
<1> DEFINE Y == Exp(0, b - 1)
<1>2. Exp(0, (b - 1) + 1) = (Y * 0) % q /\ Y \in Int
    BY <1>1, ExpStep
<1> HIDE DEF Y
<1>3. Y * 0 = 0 /\ 0 % q = 0
    BY <1>2, FieldOrder
<1> QED BY <1>1, <1>2, <1>3

\* An element that is not zero, and powers of it.
LEMMA ExpNotZero ==
    ASSUME NEW x \in Int, ~Same(x, 0), NEW b \in Nat
    PROVE  ~Same(Exp(x, b), 0)
<1> DEFINE T == {y \in Nat : ~Same(Exp(x, y), 0)}
<1>1. 0 \in T
    <2>1. 1 % q = 1 /\ 0 % q = 0
        BY FieldOrder
    <2> QED BY <2>1, ExpStep DEF Same
<1>2. ASSUME NEW y \in T PROVE y + 1 \in T
    <2> SUFFICES ASSUME Same(Exp(x, y + 1), 0) PROVE FALSE
        OBVIOUS
    <2>1. Same(Exp(x, y + 1), Exp(x, y) * x) /\ Exp(x, y) \in Int
        BY ExpNext, ExpStep
    <2>2. Same(Exp(x, y) * x, 0)
        BY <2>1 DEF Same
    <2> QED BY <2>1, <2>2, NoZeroDivisors
<1>3. \A y \in Nat : y \in T
    <2>1. T \in SUBSET Nat
        OBVIOUS
    <2> HIDE DEF T
    <2> QED BY <1>1, <1>2, <2>1, SetInduction
<1> QED BY <1>3

-----------------------------------------------------------------------------
(***************************************************************************)
(* The order of an element, the least power that is 1.                     *)
(***************************************************************************)

\* The order of x in the multiplicative group.
IsOrder(x, d) == d \in Nat \ {0} /\ Exp(x, d) = 1 /\ \A e \in 1..d-1 : Exp(x, e) # 1

\* Two powers are equal only if the power of the difference is one.
LEMMA ExpDifference ==
    ASSUME NEW x \in Int, ~Same(x, 0), NEW a \in Nat, NEW b \in Nat, a <= b,
           Same(Exp(x, a), Exp(x, b))
    PROVE  b - a \in Nat /\ Exp(x, b - a) = 1
<1>1. b - a \in Nat /\ a + (b - a) = b
    OBVIOUS
<1> DEFINE c == b - a
           A == Exp(x, a)
           C == Exp(x, c)
<1>2. c \in Nat /\ a + c = b
    BY <1>1
<1> HIDE DEF c
<1>3. A \in Int /\ C \in Int /\ C \in 0..q-1 /\ 1 \in 0..q-1
    <2>1. A \in Int /\ C \in Int /\ C \in 0..q-1
        BY <1>2, ExpStep
    <2>2. 1 \in 0..q-1
        BY FieldOrder
    <2> QED BY <2>1, <2>2
<1>4. Same(Exp(x, b), A * C)
    BY <1>2, ExpAdd
<1>5. ~Same(A, 0)
    BY ExpNotZero
<1>6. Same(A, A * C)
    BY <1>4 DEF Same
<1> HIDE DEF A, C
<1>7. A * 1 = A
    BY <1>3
<1>8. Same(A * 1, A * C)
    BY <1>6, <1>7
<1>9. Same(1, C)
    BY <1>3, <1>5, <1>8, SameCancel
<1>10. C = 1
    BY <1>3, <1>9, SameEqual
<1> QED BY <1>2, <1>10 DEF c, C

\* Every element but zero has an order.
LEMMA OrderExists ==
    ASSUME NEW x \in Int, ~Same(x, 0)
    PROVE  \E d : IsOrder(x, d)
<1> DEFINE f == [j \in 0..q |-> Exp(x, j)]
           T == {d \in Nat \ {0} : Exp(x, d) = 1}
<1>1. f \in [0..q -> 0..(q-1)]
    <2>1. \A j \in 0..q : j \in Nat
        BY FieldOrder
    <2> QED BY <2>1, ExpStep
<1>2. /\ IsFiniteSet(0..q) /\ IsFiniteSet(0..(q-1))
      /\ Cardinality(0..(q-1)) < Cardinality(0..q)
    <2>1. q \in Int /\ q - 1 \in Int /\ ~(0 > q) /\ ~(0 > q - 1)
        BY FieldOrder
    <2>2. /\ IsFiniteSet(0..q) /\ Cardinality(0..q) = q - 0 + 1
          /\ IsFiniteSet(0..(q-1)) /\ Cardinality(0..(q-1)) = (q - 1) - 0 + 1
        BY <2>1, FS_Interval
    <2> QED BY <2>2, FieldOrder
<1>3. PICK y, z \in 0..q : y # z /\ f[y] = f[z]
    <2> HIDE DEF f
    <2> QED BY <1>1, <1>2, FS_PigeonHole
<1>4. y \in Nat /\ z \in Nat /\ Exp(x, y) = Exp(x, z)
    BY <1>3, FieldOrder
<1>5. PICK d \in Nat \ {0} : Exp(x, d) = 1
    <2>1. CASE y < z
        <3>1. z - y \in Nat /\ Exp(x, z - y) = 1
            BY <1>4, <2>1, ExpDifference DEF Same
        <3> QED BY <1>4, <2>1, <3>1
    <2>2. CASE z < y
        <3>1. y - z \in Nat /\ Exp(x, y - z) = 1
            BY <1>4, <2>2, ExpDifference DEF Same
        <3> QED BY <1>4, <2>2, <3>1
    <2> QED BY <1>3, <1>4, <2>1, <2>2
<1>6. PICK m \in T : \A e \in T : m <= e
    <2>1. T \in SUBSET Nat /\ T # {}
        BY <1>5
    <2> HIDE DEF T
    <2> QED BY <2>1, LeastNatural
<1>7. IsOrder(x, m)
    BY <1>6 DEF IsOrder
<1> QED BY <1>7

\* Powers below the order differ.
LEMMA OrderDistinct ==
    ASSUME NEW x \in Int, ~Same(x, 0), NEW d, IsOrder(x, d), NEW a \in 0..d-1, NEW b \in 0..d-1,
           Same(Exp(x, a), Exp(x, b))
    PROVE  a = b
<1>0. d \in Nat \ {0} /\ a \in Nat /\ b \in Nat
    BY DEF IsOrder
<1>1. CASE a < b
    <2>1. Exp(x, b - a) = 1
        BY <1>0, <1>1, ExpDifference
    <2>2. b - a \in 1..d-1
        BY <1>0, <1>1
    <2> QED BY <2>1, <2>2 DEF IsOrder
<1>2. CASE b < a
    <2>1. Exp(x, a - b) = 1
        BY <1>0, <1>2, ExpDifference DEF Same
    <2>2. a - b \in 1..d-1
        BY <1>0, <1>2
    <2> QED BY <2>1, <2>2 DEF IsOrder
<1> QED BY <1>0, <1>1, <1>2

\* A power is that of the remainder modulo the order.
LEMMA OrderRemainder ==
    ASSUME NEW x \in Int, NEW d \in Nat \ {0}, Exp(x, d) = 1, NEW m \in Nat
    PROVE  m % d \in 0..d-1 /\ Exp(x, m) = Exp(x, m % d)
<1> DEFINE k == m \div d
           r == m % d
<1>1. k \in Nat /\ r \in 0..d-1 /\ m = d * k + r /\ r \in Nat
    OBVIOUS
<1> HIDE DEF k, r
<1>2. d * k \in Nat
    BY <1>1
<1>3. Exp(x, d * k) = 1
    <2>1. Exp(Exp(x, d), k) = Exp(x, d * k)
        BY <1>1, ExpExp
    <2> QED BY <1>1, <2>1, ExpOfOne
<1>4. Same(Exp(x, d * k + r), Exp(x, d * k) * Exp(x, r))
    BY <1>1, <1>2, ExpAdd
<1>5. Exp(x, r) \in 0..q-1 /\ Exp(x, m) \in 0..q-1 /\ Exp(x, r) \in Int
    BY <1>1, ExpStep
<1>6. 1 * Exp(x, r) = Exp(x, r)
    BY <1>5
<1>7. Same(Exp(x, m), Exp(x, r))
    BY <1>1, <1>3, <1>4, <1>6
<1>8. Exp(x, m) = Exp(x, r)
    BY <1>5, <1>7, SameEqual
<1> QED BY <1>1, <1>8 DEF r

\* Only the multiples of the order lead to one.
LEMMA OrderDivides ==
    ASSUME NEW x \in Int, NEW d, IsOrder(x, d), NEW m \in Nat, Exp(x, m) = 1
    PROVE  m % d = 0
<1>0. d \in Nat \ {0} /\ Exp(x, d) = 1
    BY DEF IsOrder
<1> DEFINE r == m % d
<1>1. r \in 0..d-1 /\ Exp(x, r) = 1
    BY <1>0, OrderRemainder
<1> HIDE DEF r
<1>2. r \notin 1..d-1
    BY <1>1 DEF IsOrder
<1>3. r = 0
    BY <1>0, <1>1, <1>2
<1> QED BY <1>3 DEF r

-----------------------------------------------------------------------------
(***************************************************************************)
(* Fermat: the q-1st power of an element that is not 0 is 1.               *)
(***************************************************************************)

\* The sum of equal values.
LEMMA SumConstant ==
    ASSUME NEW D, IsFiniteSet(D), NEW f \in [D -> Int], NEW c \in Int, \A x \in D : f[x] = c
    PROVE  SumFunction(f) = c * Cardinality(D)
<1> DEFINE P == {s \in SUBSET D : SumFunctionOnSet(f, s) = c * Cardinality(s)}
<1>0. \A s \in SUBSET D : IsFiniteSet(s) /\ Cardinality(s) \in Nat
    BY FS_Subset, FS_CardinalityType
<1>1. {} \in P
    BY SumOnSet, FS_EmptySet
<1>2. ASSUME NEW s \in P, NEW x \in D \ s PROVE s \cup {x} \in P
    <2>1. SumFunctionOnSet(f, s \cup {x}) = SumFunctionOnSet(f, s) + f[x]
        BY SumOnSet
    <2>2. Cardinality(s \cup {x}) = Cardinality(s) + 1
        BY <1>0, FS_AddElement
    <2> DEFINE n == Cardinality(s)
    <2>3. n \in Nat /\ SumFunctionOnSet(f, s) = c * n /\ f[x] = c
        BY <1>0
    <2> HIDE DEF n
    <2>4. c * n + c = c * (n + 1)
        BY <2>3
    <2> QED BY <2>1, <2>2, <2>3, <2>4 DEF n
<1>3. D \in P
    <2>1. P \in SUBSET (SUBSET D)
        OBVIOUS
    <2> HIDE DEF P
    <2> QED BY <1>1, <1>2, <2>1, SubsetInduction
<1> QED BY <1>3 DEF SumFunction

\* The elements that i becomes when multiplied by powers of x.
Coset(x, i) == {(i * Exp(x, j)) % q : j \in Nat}

\* Elements that are not zero.
LEMMA Unit ==
    ASSUME NEW i \in 1..q-1
    PROVE  i \in Int /\ ~Same(i, 0) /\ i \in 0..q-1 /\ i % q = i
<1>1. i \in Int /\ i \in 0..q-1 /\ i % q = i /\ 0 % q = 0 /\ i # 0
    BY FieldOrder
<1> QED BY <1>1 DEF Same

\* Numbers that are not zero.
LEMMA UnitMod ==
    ASSUME NEW i \in Int, ~Same(i, 0)
    PROVE  i % q \in 1..q-1
<1>1. i % q \in 0..q-1 /\ i % q # 0
    <2>1. 0 % q = 0
        BY FieldOrder
    <2> QED BY <2>1, SameMod DEF Same
<1> DEFINE r == i % q
<1>2. r \in 0..q-1 /\ r # 0
    BY <1>1
<1> HIDE DEF r
<1>3. r \in 1..q-1
    BY <1>2, FieldOrder
<1> QED BY <1>3 DEF r

\* A member of a coset is not zero.
LEMMA CosetMember ==
    ASSUME NEW x \in Int, ~Same(x, 0), NEW i \in 1..q-1, NEW j \in Nat
    PROVE  /\ (i * Exp(x, j)) % q \in 1..q-1
           /\ i * Exp(x, j) \in Int /\ Same((i * Exp(x, j)) % q, i * Exp(x, j))
<1> DEFINE E == Exp(x, j)
<1>1. E \in Int /\ ~Same(E, 0) /\ i \in Int /\ ~Same(i, 0)
    BY ExpStep, ExpNotZero, Unit
<1> HIDE DEF E
<1>2. i * E \in Int /\ ~Same(i * E, 0)
    BY <1>1, NoZeroDivisors
<1>3. (i * E) % q \in 1..q-1 /\ Same((i * E) % q, i * E)
    BY <1>2, UnitMod, SameMod
<1> QED BY <1>2, <1>3 DEF E

\* The coset of a member is part of the coset.
LEMMA CosetSubset ==
    ASSUME NEW x \in Int, ~Same(x, 0), NEW i \in 1..q-1, NEW j \in Coset(x, i)
    PROVE  j \in 1..q-1 /\ Coset(x, j) \subseteq Coset(x, i)
<1>1. PICK m \in Nat : j = (i * Exp(x, m)) % q
    BY DEF Coset
<1>2. j \in 1..q-1 /\ Same(j, i * Exp(x, m))
    BY <1>1, CosetMember
<1>3. ASSUME NEW l \in Nat PROVE (j * Exp(x, l)) % q \in Coset(x, i)
    <2> DEFINE M == Exp(x, m)
               L == Exp(x, l)
               N == Exp(x, m + l)
    <2>1. M \in Int /\ L \in Int /\ N \in Int /\ i \in Int /\ j \in Int /\ Same(N, M * L)
        <3>1. m + l \in Nat
            OBVIOUS
        <3>2. M \in Int /\ L \in Int /\ N \in Int
            BY <3>1, ExpStep
        <3>3. i \in Int /\ j \in Int
            BY <1>2, Unit
        <3> QED BY <3>2, <3>3, ExpAdd
    <2>2. Same(j, i * M)
        BY <1>2
    <2> HIDE DEF M, L, N
    <2>3. Same(j * L, (i * M) * L)
        <3>1. Same(L, L) /\ i * M \in Int
            BY <2>1 DEF Same
        <3> QED BY <2>1, <2>2, <3>1, SameMul
    <2>4. Same(i * N, i * (M * L))
        <3>1. Same(i, i) /\ M * L \in Int
            BY <2>1 DEF Same
        <3> QED BY <2>1, <3>1, SameMul
    <2>5. (i * M) * L = i * (M * L)
        BY <2>1
    <2>6. (j * L) % q = (i * N) % q
        BY <2>3, <2>4, <2>5 DEF Same
    <2>7. m + l \in Nat
        OBVIOUS
    <2> QED BY <2>6, <2>7 DEF Coset, N, L
<1>4. Coset(x, j) \subseteq Coset(x, i)
    BY <1>3 DEF Coset
<1> QED BY <1>2, <1>4

\* Two cosets are equal when one is that of a member of the other.
LEMMA CosetEqual ==
    ASSUME NEW x \in Int, ~Same(x, 0), NEW d \in Nat \ {0}, Exp(x, d) = 1,
           NEW i \in 1..q-1, NEW j \in 1..q-1
    PROVE  Coset(x, j) = Coset(x, i) <=> j \in Coset(x, i)
<1>1. j \in Coset(x, j)
    <2>1. Exp(x, 0) = 1 /\ j * 1 = j /\ j % q = j
        BY ExpStep, Unit
    <2>2. (j * Exp(x, 0)) % q = j
        BY <2>1
    <2> QED BY <2>2 DEF Coset
<1>2. ASSUME j \in Coset(x, i) PROVE Coset(x, j) = Coset(x, i)
    <2>1. PICK m \in Nat : j = (i * Exp(x, m)) % q
        BY <1>2 DEF Coset
    <2>2. i \in Coset(x, j)
        <3> DEFINE l == m * (d - 1)
                   M == Exp(x, m)
                   L == Exp(x, l)
        <3>1. l \in Nat /\ m + l = m * d /\ m * d \in Nat
            OBVIOUS
        <3>2. Exp(x, m + l) = 1
            <4>1. Exp(x, d * m) = 1
                <5>1. Exp(Exp(x, d), m) = Exp(x, d * m)
                    BY ExpExp
                <5> QED BY <5>1, ExpOfOne
            <4>2. m + l = d * m
                OBVIOUS
            <4> QED BY <4>1, <4>2
        <3> HIDE DEF l
        <3>3. Same(1, M * L)
            BY <3>1, <3>2, ExpAdd
        <3>4. M \in Int /\ L \in Int /\ i \in Int /\ j \in Int /\ Same(j, i * M)
            <4>1. M \in Int /\ L \in Int
                BY <3>1, ExpStep
            <4>2. i \in Int /\ j \in Int /\ Same(j, i * M)
                BY <2>1, Unit, CosetMember
            <4> QED BY <4>1, <4>2
        <3> HIDE DEF M, L
        <3>5. Same(j * L, (i * M) * L)
            <4>1. Same(L, L) /\ i * M \in Int
                BY <3>4 DEF Same
            <4> QED BY <3>4, <4>1, SameMul
        <3>6. Same(i * 1, i * (M * L))
            <4>1. Same(i, i) /\ M * L \in Int
                BY <3>4 DEF Same
            <4> QED BY <3>3, <3>4, <4>1, SameMul
        <3>7. (i * M) * L = i * (M * L) /\ i * 1 = i /\ i % q = i
            BY <3>4, Unit
        <3>8. (j * L) % q = i
            BY <3>5, <3>6, <3>7 DEF Same
        <3> QED BY <3>1, <3>8 DEF Coset, L
    <2>3. Coset(x, j) \subseteq Coset(x, i) /\ Coset(x, i) \subseteq Coset(x, j)
        BY <1>2, <2>2, CosetSubset
    <2> QED BY <2>3
<1> QED BY <1>1, <1>2

\* A coset is as large as the order of x.
LEMMA CosetSize ==
    ASSUME NEW x \in Int, ~Same(x, 0), NEW d, IsOrder(x, d), NEW i \in 1..q-1
    PROVE  IsFiniteSet(Coset(x, i)) /\ Cardinality(Coset(x, i)) = d
<1>0. d \in Nat \ {0} /\ Exp(x, d) = 1 /\ i \in Int /\ ~Same(i, 0)
    BY Unit DEF IsOrder
<1> DEFINE f == [j \in 0..d-1 |-> (i * Exp(x, j)) % q]
           S == 0..d-1
           C == Coset(x, i)
<1>1. IsFiniteSet(S) /\ Cardinality(S) = d
    <2>1. 0 \in Int /\ d - 1 \in Int /\ ~(0 > d - 1) /\ d - 1 - 0 + 1 = d
        BY <1>0
    <2> QED BY <2>1, FS_Interval
<1>2. f \in [S -> C]
    BY <1>0 DEF Coset
<1>3. ASSUME NEW a \in S, NEW b \in S, f[a] = f[b] PROVE a = b
    <2> DEFINE A == Exp(x, a)
               B == Exp(x, b)
    <2>1. A \in Int /\ B \in Int
        <3>1. a \in Nat /\ b \in Nat
            BY <1>0
        <3> QED BY <3>1, ExpStep
    <2>2. Same(i * A, i * B)
        BY <1>3 DEF Same
    <2> HIDE DEF A, B
    <2>3. Same(A, B)
        BY <1>0, <2>1, <2>2, SameCancel
    <2> QED BY <1>0, <2>3, OrderDistinct DEF A, B
<1>4. ASSUME NEW c \in C PROVE \E j \in S : f[j] = c
    <2>1. PICK m \in Nat : c = (i * Exp(x, m)) % q
        BY DEF Coset
    <2> DEFINE r == m % d
    <2>2. r \in S /\ Exp(x, m) = Exp(x, r)
        BY <1>0, OrderRemainder
    <2> HIDE DEF r
    <2>3. f[r] = c
        BY <2>1, <2>2
    <2> QED BY <2>2, <2>3
<1>5. f \in Bijection(S, C)
    BY <1>2, <1>3, <1>4 DEF Bijection, Injection, Surjection, IsInjective
<1>6. ExistsBijection(S, C)
    BY <1>5 DEF ExistsBijection
<1> HIDE DEF S, C
<1>7. IsFiniteSet(C) /\ Cardinality(C) = d
    BY <1>1, <1>6, FS_Bijection
<1> QED BY <1>7 DEF C

\* The order of x divides q - 1.
LEMMA OrderOfGroup ==
    ASSUME NEW x \in Int, ~Same(x, 0), NEW d, IsOrder(x, d)
    PROVE  \E m \in Nat : q - 1 = d * m
<1> DEFINE D == 1..q-1
           A == {Coset(x, i) : i \in D}
           k == [i \in D |-> Coset(x, i)]
           c == [a \in A |-> Cardinality({i \in D : k[i] = a})]
<1>0. d \in Nat \ {0} /\ Exp(x, d) = 1 /\ d \in Int
    BY DEF IsOrder
<1>1. IsFiniteSet(D) /\ Cardinality(D) = q - 1
    BY FieldOrder, FS_Interval
<1>2. k \in [D -> A]
    OBVIOUS
<1>3. IsFiniteSet(A) /\ Cardinality(A) \in Nat
    <2>1. k \in Surjection(D, A)
        BY DEF Surjection
    <2> HIDE DEF D, A, k
    <2> QED BY <1>1, <2>1, FS_Surjection, FS_CardinalityType
<1>4. ASSUME NEW a \in A PROVE Cardinality({i \in D : k[i] = a}) = d
    <2>1. PICK i \in D : a = Coset(x, i)
        OBVIOUS
    <2>2. {j \in D : k[j] = a} = Coset(x, i)
        <3>1. \A j \in D : k[j] = a <=> j \in Coset(x, i)
            BY <1>0, <2>1, CosetEqual
        <3>2. \A j \in Coset(x, i) : j \in D
            BY CosetSubset
        <3> HIDE DEF k, D
        <3> QED BY <3>1, <3>2
    <2> QED BY <2>2, CosetSize
<1>5. c \in [A -> Int] /\ \A a \in A : c[a] = d
    BY <1>0, <1>4
<1>6. c = [a \in A |-> Cardinality({i \in D : k[i] = a})]
    OBVIOUS
<1> HIDE DEF A, D, k, c
<1>7. SumFunction(c) = Cardinality(D)
    BY <1>1, <1>2, <1>3, <1>6, CountGroups
<1>8. SumFunction(c) = d * Cardinality(A)
    BY <1>0, <1>3, <1>5, SumConstant
<1> QED BY <1>1, <1>3, <1>7, <1>8

\* Fermat's little theorem.
LEMMA Fermat ==
    ASSUME NEW x \in Int, ~Same(x, 0)
    PROVE  Exp(x, q - 1) = 1
<1>1. PICK d : IsOrder(x, d)
    BY OrderExists
<1>2. PICK m \in Nat : q - 1 = d * m
    BY <1>1, OrderOfGroup
<1>3. d \in Nat /\ Exp(x, d) = 1
    BY <1>1 DEF IsOrder
<1>4. Exp(x, d * m) = 1
    <2>1. Exp(Exp(x, d), m) = Exp(x, d * m)
        BY <1>3, ExpExp
    <2> QED BY <1>3, <2>1, ExpOfOne
<1> QED BY <1>2, <1>4

-----------------------------------------------------------------------------
(***************************************************************************)
(* Powers of two, and elements whose order is one.                         *)
(***************************************************************************)

\* d divides n.
LEMMA Divisor ==
    ASSUME NEW n \in Nat, NEW d \in Nat \ {0}, n % d = 0
    PROVE  n \div d \in Nat /\ n = (n \div d) * d
<1> DEFINE c == n \div d
           r == n % d
<1>1. c \in Int /\ n = c * d + r /\ r = 0
    BY Remainder
<1>2. c \in Nat
    OBVIOUS
<1> HIDE DEF c, r
<1>3. n = c * d
    BY <1>1, <1>2
<1> QED BY <1>2, <1>3 DEF c

\* And the other way round.
LEMMA Multiple ==
    ASSUME NEW c \in Int, NEW d \in Nat \ {0}, NEW n, n = c * d
    PROVE  n % d = 0 /\ n \div d = c
<1>1. 0 \in 0..d-1 /\ n = c * d + 0
    OBVIOUS
<1> QED BY <1>1, RemainderUnique

\* The only odd power of two.
LEMMA OddPowerOf2 ==
    ASSUME NEW n \in Nat, IsPowerOf2(n), n % 2 = 1
    PROVE  n = 1
<1> SUFFICES ASSUME n # 1 PROVE FALSE
    OBVIOUS
<1>1. n \in 2..n /\ n \in Nat \ {0}
    BY DEF IsPowerOf2
<1>2. n = 1 * n
    OBVIOUS
<1>3. n % n = 0
    BY <1>1, <1>2, Multiple
<1> QED BY <1>1, <1>3 DEF IsPowerOf2

\* A divisor of a power of two that is not the whole divides its half.
LEMMA DivisorOfPowerOf2 ==
    ASSUME NEW n \in Nat, IsPowerOf2(n), NEW s \in 1..n, n % s = 0, s # n
    PROVE  \E e \in Nat \ {0} : n = e * (2 * s)
<1> DEFINE c == n \div s
<1>1. c \in Nat /\ n = c * s /\ s \in Nat \ {0} /\ n > 0
    BY Divisor DEF IsPowerOf2
<1> HIDE DEF c
<1>2. n = s * c /\ s \in Int
    BY <1>1
<1>3. c # 0 /\ c # 1
    BY <1>1
<1>4. c <= n
    BY <1>1
<1>5. n % c = 0
    BY <1>1, <1>2, <1>3, Multiple
<1>6. c % 2 = 0
    BY <1>1, <1>3, <1>4, <1>5 DEF IsPowerOf2
<1>7. PICK e \in Nat : c = e * 2
    BY <1>1, <1>6, Divisor
<1>8. e # 0 /\ n = e * (2 * s)
    BY <1>1, <1>3, <1>7
<1> QED BY <1>8

\* Twice a power of two.
LEMMA DoublePowerOf2 ==
    ASSUME NEW m \in Nat, IsPowerOf2(m)
    PROVE  IsPowerOf2(2 * m)
<1>0. m > 0
    BY DEF IsPowerOf2
<1>1. ASSUME NEW d \in 2..2*m, (2 * m) % d = 0, d % 2 # 0 PROVE FALSE
    <2>0. 2 * m \in Nat /\ d \in Nat \ {0}
        OBVIOUS
    <2>1. PICK c \in Nat : 2 * m = c * d
        BY <1>1, <2>0, Divisor
    <2>2. PICK f \in Nat : d = 2 * f + 1
        <3> DEFINE f == d \div 2
                   r == d % 2
        <3>1. f \in Nat /\ r \in 0..1 /\ d = f * 2 + r /\ r # 0
            BY <1>1, <2>0
        <3> HIDE DEF f, r
        <3> QED BY <3>1
    <2>3. PICK e \in Nat : c = 2 * e
        <3> DEFINE e == c \div 2
                   r == c % 2
        <3>1. e \in Nat /\ r \in 0..1 /\ c = e * 2 + r
            BY <2>1
        <3> HIDE DEF e, r
        <3>2. CASE r = 0
            BY <3>1, <3>2
        <3>3. CASE r = 1
            <4>1. 2 * m = (e * 2 + 1) * (2 * f + 1)
                BY <2>1, <2>2, <3>1, <3>3
            <4>2. (e * 2 + 1) * (2 * f + 1) = 2 * (2 * e * f + e + f) + 1
                BY <2>2, <3>1
            <4> DEFINE g == 2 * e * f + e + f
            <4>3. g \in Nat
                BY <2>2, <3>1
            <4>4. 2 * m = 2 * g + 1
                BY <4>1, <4>2
            <4> HIDE DEF g
            <4> QED BY <4>3, <4>4
        <3> QED BY <3>1, <3>2, <3>3
    <2>4. m = e * d
        <3>1. 2 * m = (2 * e) * d
            BY <2>1, <2>3
        <3>2. (2 * e) * d = 2 * (e * d) /\ e * d \in Nat
            BY <2>0, <2>3
        <3> QED BY <3>1, <3>2
    <2>5. e # 0
        BY <1>0, <2>0, <2>4
    <2>6. d <= m
        BY <2>0, <2>3, <2>4, <2>5
    <2>7. m % d = 0
        <3>1. e \in Int
            OBVIOUS
        <3> QED BY <2>0, <2>4, <3>1, Multiple
    <2>8. d \in 2..m
        BY <2>6
    <2> QED BY <1>1, <2>7, <2>8 DEF IsPowerOf2
<1>2. 2 * m > 0
    BY <1>0
<1> QED BY <1>1, <1>2 DEF IsPowerOf2

\* There is a power of two between n and 2n.
LEMMA PowerOf2Exists ==
    ASSUME NEW n \in Nat \ {0}
    PROVE  \E p \in n..2*n : IsPowerOf2(p)
<1> DEFINE T == {m \in Nat : \E p \in (m+1)..2*(m+1) : IsPowerOf2(p)}
<1>1. 0 \in T
    <2>1. IsPowerOf2(1)
        BY DEF IsPowerOf2
    <2>2. 1 \in (0+1)..2*(0+1)
        OBVIOUS
    <2> QED BY <2>1, <2>2
<1>2. ASSUME NEW m \in T PROVE m + 1 \in T
    <2>1. PICK p \in (m+1)..2*(m+1) : IsPowerOf2(p)
        OBVIOUS
    <2>2. CASE p = m + 1
        <3>1. IsPowerOf2(2 * p)
            BY <2>1, DoublePowerOf2
        <3>2. 2 * p \in (m+1+1)..2*(m+1+1)
            BY <2>2
        <3> QED BY <3>1, <3>2
    <2>3. CASE p # m + 1
        <3>1. p \in (m+1+1)..2*(m+1+1)
            BY <2>1, <2>3
        <3> QED BY <2>1, <3>1
    <2> QED BY <2>2, <2>3
<1>3. \A m \in Nat : m \in T
    <2>1. T \in SUBSET Nat
        OBVIOUS
    <2> HIDE DEF T
    <2> QED BY <1>1, <1>2, <2>1, SetInduction
<1>4. n - 1 \in Nat /\ (n - 1) + 1 = n
    OBVIOUS
<1>5. n - 1 \in T
    BY <1>3, <1>4
<1> QED BY <1>4, <1>5

\* A slice of numbers that is not empty.
Slice(a, m) == m \in Nat \ {0} /\ a \in [0..m-1 -> Int] /\ Len0(a) = m

\* What convolutionSize() returns.
LEMMA SizeLemma ==
    ASSUME NEW a, NEW b, NEW l, NEW m, Slice(a, l), Slice(b, m)
    PROVE  /\ convolutionSize(a, b) \in Nat \ {0}
           /\ IsPowerOf2(convolutionSize(a, b))
           /\ l + m - 1 <= convolutionSize(a, b)
<1> DEFINE n == Len0(a) + Len0(b) - 1
           S == {p \in n..2*n : IsPowerOf2(p)}
<1>1. n = l + m - 1 /\ n \in Nat \ {0}
    BY DEF Slice
<1>2. convolutionSize(a, b) = Min(S)
    BY DEF convolutionSize
<1> HIDE DEF n
<1>3. S \in SUBSET Nat /\ S # {}
    BY <1>1, PowerOf2Exists
<1>4. PICK p \in S : \A x \in S : p <= x
    <2> HIDE DEF S
    <2> QED BY <1>3, LeastNatural
<1>5. Min(S) \in S
    <2> HIDE DEF S
    <2> QED BY <1>4 DEF Min
<1>6. Min(S) \in n..2*n /\ IsPowerOf2(Min(S))
    BY <1>5
<1> DEFINE N == Min(S)
<1>7. N \in n..2*n /\ IsPowerOf2(N) /\ convolutionSize(a, b) = N
    BY <1>2, <1>6
<1> HIDE DEF N
<1> QED BY <1>1, <1>7

\* A root of order n, a power of two, as ConvolutionRoot() promises.
IsRoot(n, w) ==
    n \in Nat /\ n > 1 /\ n % 2 = 0 /\ IsPowerOf2(n) /\ w \in 1..q-1 /\ IsOrder(w, n)

\* An element whose n-th power is one and whose n/2-th power is not has order n.
LEMMA OrderIsSize ==
    ASSUME NEW n \in Nat, n > 1, n % 2 = 0, IsPowerOf2(n), NEW w \in 1..q-1,
           Exp(w, n) = 1, Exp(w, n \div 2) # 1
    PROVE  IsOrder(w, n)
<1>0. w \in Int /\ ~Same(w, 0)
    BY Unit
<1>1. PICK d : IsOrder(w, d)
    BY <1>0, OrderExists
<1>2. d \in Nat \ {0} /\ Exp(w, d) = 1 /\ n % d = 0
    BY <1>0, <1>1, OrderDivides DEF IsOrder
<1>3. d \in 1..n
    <2>1. PICK c \in Nat : n = c * d
        BY <1>2, Divisor
    <2>2. c # 0
        BY <1>2, <2>1
    <2> QED BY <1>2, <2>1, <2>2
<1>4. d = n
    <2> SUFFICES ASSUME d # n PROVE FALSE
        OBVIOUS
    <2>1. PICK e \in Nat \ {0} : n = e * (2 * d)
        BY <1>2, <1>3, DivisorOfPowerOf2
    <2>2. n = (d * e) * 2 /\ d * e \in Nat /\ 2 \in Nat \ {0}
        BY <1>2, <2>1
    <2>3. n \div 2 = d * e
        BY <2>2, Multiple
    <2>4. Exp(w, d * e) = 1
        <3>1. Exp(Exp(w, d), e) = Exp(w, d * e)
            BY <1>0, <1>2, ExpExp
        <3> QED BY <1>2, <3>1, ExpOfOne
    <2> QED BY <2>3, <2>4
<1> QED BY <1>1, <1>4

\* Half way round the powers of an element that has order n is -1.
LEMMA HalfPower ==
    ASSUME NEW n \in Nat, n % 2 = 0, NEW u \in Int, Exp(u, n) = 1, Exp(u, n \div 2) # 1
    PROVE  Same(Exp(u, n \div 2), -1)
<1> DEFINE h == n \div 2
           E == Exp(u, h)
<1>1. h \in Nat /\ n = h * 2
    BY Divisor
<1> HIDE DEF h
<1>2. n = h + h
    BY <1>1
<1>3. Same(1, E * E)
    BY <1>1, <1>2, ExpAdd
<1>4. E \in 0..q-1 /\ E \in Int /\ E # 1
    <2>1. E \in 0..q-1 /\ E \in Int
        BY <1>1, ExpStep
    <2> QED BY <2>1 DEF h
<1> HIDE DEF E
<1>5. PICK k \in Int : E * E = 1 + k * q
    <2>1. E * E \in Int
        BY <1>4
    <2> QED BY <1>3, <2>1, SameMultiple
<1>6. (E - 1) * (E + 1) = k * q
    <2>1. (E - 1) * (E + 1) = E * E - 1
        BY <1>4
    <2> QED BY <1>4, <1>5, <2>1, FieldOrder
<1> DEFINE a == E - 1
           b == E + 1
<1>7. a \in Int /\ b \in Int /\ a * b = k * q
    BY <1>4, <1>6
<1>8. ~Same(a, 0)
    <2> SUFFICES ASSUME Same(a, 0) PROVE FALSE
        OBVIOUS
    <2>1. PICK l \in Int : 0 = a + l * q
        BY <1>7, SameMultiple
    <2>2. 1 = E + l * q
        BY <1>4, <2>1, FieldOrder
    <2>3. Same(E, 1)
        BY <1>4, <2>2, SameMultiple
    <2>4. 1 \in 0..q-1
        BY FieldOrder
    <2> QED BY <1>4, <2>3, <2>4, SameEqual
<1> HIDE DEF a
<1>9. Same(b, 0)
    <2> HIDE DEF b
    <2>1. 0 = a * b + (-k) * q /\ a * b \in Int /\ -k \in Int
        BY <1>7, FieldOrder
    <2>2. Same(a * b, 0)
        BY <2>1, SameMultiple
    <2> QED BY <1>7, <1>8, <2>2, NoZeroDivisors
<1>10. PICK l \in Int : 0 = b + l * q
    <2> HIDE DEF b
    <2> QED BY <1>7, <1>9, SameMultiple
<1>11. -1 = E + l * q
    BY <1>4, <1>10, FieldOrder
<1>12. Same(E, -1)
    BY <1>4, <1>11, SameMultiple
<1> QED BY <1>12 DEF E, h

-----------------------------------------------------------------------------
(***************************************************************************)
(* The roots that RootOfUnity() draws.                                     *)
(***************************************************************************)

\* A root that RootOfUnity() returns, when it fails and when it does not.
LEMMA RootLemma ==
    ASSUME NEW n \in Nat \ {0}, IsPowerOf2(n), NEW root \in RootOfUnity(n, TRUE)
    PROVE  \/ root = NoRoot /\ n = 1
           \/ root # NoRoot /\ (q - 1) % n # 0 /\ root = 1
           \/ root # NoRoot /\ (q - 1) % n = 0 /\ root = 0 /\ Exp(root, n) # 1
           \/ root # NoRoot /\ root # 0 /\ (q - 1) % n = 0 /\ IsRoot(n, root)
<1>0. q - 1 \in Nat \ {0} /\ n \in Nat /\ n % 2 \in {0, 1}
    BY FieldOrder
<1>1. CASE n % 2 = 1
    BY <1>1, OddPowerOf2 DEF RootOfUnity
<1>2. CASE n % 2 = 0 /\ (q - 1) % n # 0
    BY <1>2 DEF RootOfUnity, NoRoot
<1>3. CASE n % 2 = 0 /\ (q - 1) % n = 0
    <2> DEFINE y == (q - 1) \div n
    <2>1. PICK x \in Random : root = Exp(x, y) /\ Exp(root, n \div 2) # 1
        <3>1. root \in {r \in {Exp(x, y) : x \in Random} : ~TRUE \/ Exp(r, n \div 2) # 1}
            BY <1>3 DEF RootOfUnity
        <3> QED BY <3>1
    <2>2. y \in Nat /\ q - 1 = y * n
        BY <1>0, <1>3, Divisor
    <2> HIDE DEF y
    <2>3. y # 0
        <3>1. 0 * n = 0
            OBVIOUS
        <3> QED BY <1>0, <2>2, <3>1
    <2>4. x \in Int /\ x \in 0..q-1
        BY FieldOrder DEF Random
    <2>5. root \in 0..q-1 /\ root # NoRoot /\ root \in Int
        <3>1. root \in 0..q-1
            BY <2>1, <2>2, <2>4, ExpStep
        <3> QED BY <3>1, FieldOrder DEF NoRoot
    <2>6. CASE root = 0
        <3>1. Exp(root, n) = 0
            BY <2>6, ExpOfZero
        <3> QED BY <1>3, <2>5, <2>6, <3>1
    <2>7. CASE root # 0
        <3>1. x # 0
            BY <2>1, <2>2, <2>3, <2>7, ExpOfZero
        <3>2. x \in 1..q-1 /\ root \in 1..q-1
            BY <2>4, <2>5, <2>7, <3>1, FieldOrder
        <3>3. Exp(x, q - 1) = 1
            BY <3>2, Unit, Fermat
        <3>4. Exp(root, n) = Exp(x, y * n)
            BY <2>1, <2>2, <2>4, ExpExp
        <3>5. Exp(root, n) = 1
            BY <2>2, <3>3, <3>4
        <3>6. n > 1
            BY <1>3
        <3>7. IsOrder(root, n)
            BY <1>3, <2>1, <3>2, <3>5, <3>6, OrderIsSize
        <3>8. IsRoot(n, root)
            BY <1>3, <3>2, <3>6, <3>7 DEF IsRoot
        <3> QED BY <1>3, <2>5, <2>7, <3>8
    <2> QED BY <2>6, <2>7
<1> QED BY <1>0, <1>1, <1>2, <1>3

\* The powers of a root of order n are n elements.
LEMMA RootPowers ==
    ASSUME NEW n, NEW w, IsRoot(n, w)
    PROVE  Cardinality({Exp(w, i) : i \in 0..n-1}) = n
<1>0. n \in Nat \ {0} /\ w \in Int /\ ~Same(w, 0) /\ IsOrder(w, n)
    BY Unit DEF IsRoot
<1> DEFINE S == 0..n-1
           C == {Exp(w, i) : i \in S}
           f == [i \in S |-> Exp(w, i)]
<1>1. IsFiniteSet(S) /\ Cardinality(S) = n
    <2>1. 0 \in Int /\ n - 1 \in Int /\ ~(0 > n - 1) /\ n - 1 - 0 + 1 = n
        BY <1>0
    <2> QED BY <2>1, FS_Interval
<1>2. ASSUME NEW a \in S, NEW b \in S, f[a] = f[b] PROVE a = b
    <2>1. Same(Exp(w, a), Exp(w, b))
        BY <1>2 DEF Same
    <2> QED BY <1>0, <2>1, OrderDistinct
<1>3. f \in [S -> C] /\ \A c \in C : \E i \in S : f[i] = c
    OBVIOUS
<1>4. f \in Bijection(S, C)
    BY <1>2, <1>3 DEF Bijection, Injection, Surjection, IsInjective
<1>5. ExistsBijection(S, C)
    BY <1>4 DEF ExistsBijection
<1> HIDE DEF S, C
<1>6. Cardinality(C) = n
    BY <1>1, <1>5, FS_Bijection
<1> QED BY <1>6 DEF C, S

\* The element whose powers a transform sums.
Base(n, w, inverse) == IF inverse THEN w ELSE Exp(w, n - 1)

\* Its powers: n steps go round, half as many go to -1.
LEMMA BasePowers ==
    ASSUME NEW n, NEW w, IsRoot(n, w), NEW inverse \in BOOLEAN
    PROVE  /\ Base(n, w, inverse) \in Int
           /\ Exp(Base(n, w, inverse), n) = 1
           /\ Same(Exp(Base(n, w, inverse), n \div 2), -1)
<1> DEFINE u == Base(n, w, inverse)
           h == n \div 2
<1>0. n \in Nat \ {0} /\ n % 2 = 0 /\ w \in Int /\ ~Same(w, 0) /\ IsOrder(w, n) /\ Exp(w, n) = 1
    BY Unit DEF IsRoot, IsOrder
<1>1. h \in Nat /\ n = h * 2 /\ h \in 1..n-1 /\ n - 1 \in Nat
    <2>1. h \in Nat /\ n = h * 2
        BY <1>0, Divisor
    <2> HIDE DEF h
    <2> QED BY <1>0, <2>1
<1>2. Exp(w, h) # 1
    BY <1>0, <1>1 DEF IsOrder
<1>3. u \in Int /\ Exp(u, n) = 1 /\ Exp(u, h) # 1
    <2>1. CASE inverse
        BY <1>0, <1>2, <2>1 DEF Base
    <2>2. CASE ~inverse
        <3>1. u = Exp(w, n - 1) /\ u \in Int
            BY <1>0, <1>1, <2>2, ExpStep DEF Base
        <3>2. Exp(u, n) = 1
            <4>1. Exp(u, n) = Exp(w, (n - 1) * n)
                <5>1. Exp(Exp(w, n - 1), n) = Exp(w, (n - 1) * n)
                    BY <1>0, <1>1, ExpExp
                <5> QED BY <3>1, <5>1
            <4>2. (n - 1) * n = n * (n - 1)
                BY <1>0
            <4>3. Exp(Exp(w, n), n - 1) = Exp(w, n * (n - 1))
                BY <1>0, <1>1, ExpExp
            <4> QED BY <1>0, <1>1, <4>1, <4>2, <4>3, ExpOfOne
        <3>3. Exp(u, h) = Exp(w, (n - 1) * h)
            BY <1>0, <1>1, <3>1, ExpExp
        <3>4. Exp(w, (n - 1) * h) # 1
            <4> SUFFICES ASSUME Exp(w, (n - 1) * h) = 1 PROVE FALSE
                OBVIOUS
            <4> HIDE DEF h
            <4>1. (n - 1) * h \in Nat
                BY <1>1
            <4>2. ((n - 1) * h) % n = 0
                BY <1>0, <4>1, OrderDivides
            <4>3. (n - 1) * h = (h - 1) * n + h /\ h - 1 \in Int /\ h \in 0..n-1
                BY <1>0, <1>1
            <4>4. ((n - 1) * h) % n = h
                <5> DEFINE k == h - 1
                           x == (n - 1) * h
                <5>1. x = k * n + h /\ k \in Int
                    BY <4>3
                <5> HIDE DEF k, x
                <5>2. x % n = h
                    <6>1. h \in 0..n-1 /\ n \in Nat \ {0}
                        BY <1>0, <4>3
                    <6> QED BY <5>1, <6>1, RemainderUnique
                <5> QED BY <5>2 DEF x
            <4> QED BY <1>1, <4>2, <4>4
        <3> QED BY <3>1, <3>2, <3>3, <3>4
    <2> QED BY <2>1, <2>2
<1> HIDE DEF u
<1>4. Same(Exp(u, h), -1)
    BY <1>0, <1>3, HalfPower
<1> QED BY <1>3, <1>4 DEF u

\* The root at the index that Twiddle() computes.
LEMMA TwiddleLemma ==
    ASSUME NEW n, NEW w, IsRoot(n, w), NEW inverse \in BOOLEAN, NEW k \in Nat, NEW stride \in Nat
    PROVE  /\ Twiddle(k, stride, n, inverse) \in 0..n-1
           /\ Exp(w, Twiddle(k, stride, n, inverse)) = Exp(Base(n, w, inverse), k * stride)
<1>0. n \in Nat \ {0} /\ w \in Int /\ Exp(w, n) = 1 /\ n - 1 \in Nat
    BY Unit DEF IsRoot, IsOrder
<1> DEFINE m == k * stride
<1>1. m \in Nat
    OBVIOUS
<1> HIDE DEF m
<1>2. CASE inverse
    <2>1. Twiddle(k, stride, n, inverse) = m % n /\ Base(n, w, inverse) = w
        BY <1>2 DEF Twiddle, Base, m
    <2>2. m % n \in 0..n-1 /\ Exp(w, m) = Exp(w, m % n)
        BY <1>0, <1>1, OrderRemainder
    <2> QED BY <2>1, <2>2 DEF m
<1>3. CASE ~inverse
    <2>1. Twiddle(k, stride, n, inverse) = (-m) % n /\ Base(n, w, inverse) = Exp(w, n - 1)
        BY <1>3 DEF Twiddle, Base, m
    <2> DEFINE l == (n - 1) * m
    <2>2. l \in Nat /\ l = -m + m * n /\ -m \in Int /\ m \in Int
        BY <1>0, <1>1
    <2>3. Exp(Exp(w, n - 1), m) = Exp(w, l)
        BY <1>0, <1>1, ExpExp
    <2> HIDE DEF l
    <2>4. l % n = (-m) % n
        BY <1>0, <2>2, RemainderShift
    <2>5. l % n \in 0..n-1 /\ Exp(w, l) = Exp(w, l % n)
        BY <1>0, <2>2, OrderRemainder
    <2> QED BY <2>1, <2>3, <2>4, <2>5 DEF m
<1> QED BY <1>2, <1>3

-----------------------------------------------------------------------------
(***************************************************************************)
(* Sums, and double sums in either order.                                  *)
(***************************************************************************)

\* A sum of numbers is one.
LEMMA SumInt ==
    ASSUME NEW D, IsFiniteSet(D), NEW f \in [D -> Int]
    PROVE  SumFunction(f) \in Int
<1>1. DOMAIN f = D /\ D \in SUBSET D
    OBVIOUS
<1> QED BY <1>1, SumOnSet DEF SumFunction

\* The sum of a linear combination, in the field.
LEMMA SumLinear ==
    ASSUME NEW D, IsFiniteSet(D), NEW f \in [D -> Int], NEW g \in [D -> Int], NEW h \in [D -> Int],
           NEW c \in Int, \A x \in D : Same(h[x], f[x] + c * g[x])
    PROVE  /\ SumFunction(f) \in Int /\ SumFunction(g) \in Int /\ SumFunction(h) \in Int
           /\ Same(SumFunction(h), SumFunction(f) + c * SumFunction(g))
<1> DEFINE F(s) == SumFunctionOnSet(f, s)
           G(s) == SumFunctionOnSet(g, s)
           H(s) == SumFunctionOnSet(h, s)
           P == {s \in SUBSET D : Same(H(s), F(s) + c * G(s))}
<1>0. \A s \in SUBSET D : F(s) \in Int /\ G(s) \in Int /\ H(s) \in Int
    BY SumOnSet
<1>1. {} \in P
    <2>1. F({}) = 0 /\ G({}) = 0 /\ H({}) = 0
        BY SumOnSet
    <2>2. 0 + c * 0 = 0
        OBVIOUS
    <2>3. {} \in SUBSET D
        OBVIOUS
    <2> HIDE DEF F, G, H
    <2>4. Same(H({}), F({}) + c * G({}))
        BY <2>1, <2>2 DEF Same
    <2> QED BY <2>3, <2>4
<1>2. ASSUME NEW s \in P, NEW x \in D \ s PROVE s \cup {x} \in P
    <2>1. /\ F(s \cup {x}) = F(s) + f[x]
          /\ G(s \cup {x}) = G(s) + g[x]
          /\ H(s \cup {x}) = H(s) + h[x]
        BY SumOnSet
    <2>2. Same(H(s), F(s) + c * G(s)) /\ F(s) \in Int /\ G(s) \in Int /\ H(s) \in Int
        BY <1>0
    <2>3. f[x] \in Int /\ g[x] \in Int /\ h[x] \in Int /\ Same(h[x], f[x] + c * g[x])
        OBVIOUS
    <2> DEFINE a == F(s)
               b == G(s)
               d == H(s)
               y == f[x]
               z == g[x]
               t == h[x]
    <2>4. /\ a \in Int /\ b \in Int /\ d \in Int /\ y \in Int /\ z \in Int /\ t \in Int
          /\ Same(d, a + c * b) /\ Same(t, y + c * z)
        BY <2>2, <2>3
    <2>5. F(s \cup {x}) = a + y /\ G(s \cup {x}) = b + z /\ H(s \cup {x}) = d + t
        BY <2>1
    <2> HIDE DEF a, b, d, y, z, t, F, G, H
    <2>6. a + c * b \in Int /\ y + c * z \in Int
        BY <2>4
    <2>7. Same(d + t, (a + c * b) + (y + c * z))
        BY <2>4, <2>6, SameAdd
    <2>8. (a + c * b) + (y + c * z) = (a + y) + c * (b + z)
        BY <2>4
    <2>9. Same(d + t, (a + y) + c * (b + z))
        BY <2>7, <2>8
    <2>10. s \cup {x} \in SUBSET D
        OBVIOUS
    <2>11. Same(H(s \cup {x}), F(s \cup {x}) + c * G(s \cup {x}))
        BY <2>5, <2>9
    <2> QED BY <2>10, <2>11
<1>3. D \in P
    <2>1. P \in SUBSET (SUBSET D)
        OBVIOUS
    <2> HIDE DEF P
    <2> QED BY <1>1, <1>2, <2>1, SubsetInduction
<1>4. SumFunction(f) = F(D) /\ SumFunction(g) = G(D) /\ SumFunction(h) = H(D)
    BY DEF SumFunction
<1>5. D \in SUBSET D
    OBVIOUS
<1>6. Same(H(D), F(D) + c * G(D)) /\ F(D) \in Int /\ G(D) \in Int /\ H(D) \in Int
    BY <1>0, <1>3, <1>5
<1> HIDE DEF F, G, H, P
<1> QED BY <1>4, <1>6

\* Sums of the same.
LEMMA SumSame ==
    ASSUME NEW D, IsFiniteSet(D), NEW f \in [D -> Int], NEW h \in [D -> Int],
           \A x \in D : Same(h[x], f[x])
    PROVE  SumFunction(f) \in Int /\ SumFunction(h) \in Int /\ Same(SumFunction(h), SumFunction(f))
<1>1. \A x \in D : f[x] + 0 * f[x] = f[x]
    OBVIOUS
<1>2. \A x \in D : Same(h[x], f[x] + 0 * f[x])
    BY <1>1
<1>3. /\ SumFunction(f) \in Int /\ SumFunction(h) \in Int
      /\ Same(SumFunction(h), SumFunction(f) + 0 * SumFunction(f))
    BY <1>2, SumLinear
<1>4. SumFunction(f) + 0 * SumFunction(f) = SumFunction(f)
    BY <1>3
<1> QED BY <1>3, <1>4

\* A multiple of a sum.
LEMMA SumScale ==
    ASSUME NEW D, IsFiniteSet(D), NEW g \in [D -> Int], NEW h \in [D -> Int], NEW c \in Int,
           \A x \in D : Same(h[x], c * g[x])
    PROVE  SumFunction(g) \in Int /\ SumFunction(h) \in Int /\ Same(SumFunction(h), c * SumFunction(g))
<1> DEFINE f == [x \in D |-> 0]
<1>1. f \in [D -> Int] /\ \A x \in D : f[x] = 0
    OBVIOUS
<1>2. \A x \in D : f[x] + c * g[x] = c * g[x]
    <2> TAKE x \in D
    <2>1. g[x] \in Int /\ f[x] = 0
        OBVIOUS
    <2> HIDE DEF f
    <2> QED BY <2>1
<1> HIDE DEF f
<1>3. \A x \in D : Same(h[x], f[x] + c * g[x])
    BY <1>2
<1>4. /\ SumFunction(g) \in Int /\ SumFunction(h) \in Int
      /\ Same(SumFunction(h), SumFunction(f) + c * SumFunction(g))
    BY <1>1, <1>3, SumLinear
<1>5. SumFunction(f) = 0
    BY <1>1, SumZero
<1>6. 0 + c * SumFunction(g) = c * SumFunction(g)
    BY <1>4
<1> QED BY <1>4, <1>5, <1>6

\* Zeros may be left out of a sum.
LEMMA SumPad ==
    ASSUME NEW E, IsFiniteSet(E), NEW D \in SUBSET E, NEW f \in [E -> Int], NEW g \in [D -> Int],
           \A x \in E : f[x] = IF x \in D THEN g[x] ELSE 0
    PROVE  SumFunction(f) = SumFunction(g)
<1> DEFINE P == {s \in SUBSET E : SumFunctionOnSet(f, s) = SumFunctionOnSet(g, s \cap D)}
<1>0. IsFiniteSet(D) /\ \A s \in SUBSET E : s \cap D \in SUBSET D
    BY FS_Subset
<1>1. {} \in P
    <2>1. {} \cap D = {}
        OBVIOUS
    <2> QED BY <1>0, <2>1, SumOnSet
<1>2. ASSUME NEW s \in P, NEW x \in E \ s PROVE s \cup {x} \in P
    <2>1. SumFunctionOnSet(f, s \cup {x}) = SumFunctionOnSet(f, s) + f[x]
        BY SumOnSet
    <2>2. SumFunctionOnSet(f, s) = SumFunctionOnSet(g, s \cap D)
        OBVIOUS
    <2>3. SumFunctionOnSet(g, s \cap D) \in Int
        BY <1>0, SumOnSet
    <2>4. CASE x \in D
        <3>1. (s \cup {x}) \cap D = (s \cap D) \cup {x} /\ x \in D \ (s \cap D) /\ f[x] = g[x]
            BY <2>4
        <3>2. SumFunctionOnSet(g, (s \cap D) \cup {x}) = SumFunctionOnSet(g, s \cap D) + g[x]
            <4> DEFINE t == s \cap D
            <4>1. t \in SUBSET D /\ x \in D \ t /\ IsFiniteSet(D)
                BY <1>0, <3>1
            <4> HIDE DEF t
            <4>2. SumFunctionOnSet(g, t \cup {x}) = SumFunctionOnSet(g, t) + g[x]
                BY <4>1, SumOnSet
            <4> QED BY <4>2 DEF t
        <3> QED BY <2>1, <2>2, <3>1, <3>2
    <2>5. CASE x \notin D
        <3>1. (s \cup {x}) \cap D = s \cap D /\ f[x] = 0
            BY <2>5
        <3>2. SumFunctionOnSet(f, s \cup {x}) = SumFunctionOnSet(g, s \cap D)
            BY <2>1, <2>2, <2>3, <3>1
        <3> QED BY <3>1, <3>2
    <2> QED BY <2>4, <2>5
<1>3. E \in P
    <2>1. P \in SUBSET (SUBSET E)
        OBVIOUS
    <2> HIDE DEF P
    <2> QED BY <1>1, <1>2, <2>1, SubsetInduction
<1>4. E \cap D = D
    OBVIOUS
<1> QED BY <1>3, <1>4 DEF SumFunction

\* The inner sum of a double sum, and its weighted sum over the outer index.
Weighted(D, b, g, k) == [j \in D |-> b[j] * g[j][k]]
Column(D, c, g, j) == [k \in D |-> c[k] * g[j][k]]

\* Both are sums of numbers.
LEMMA WeightedType ==
    ASSUME NEW D, IsFiniteSet(D), NEW b \in [D -> Int], NEW g \in [D -> [D -> Int]], NEW k \in D
    PROVE  /\ SumFunction(Weighted(D, b, g, k)) \in Int /\ SumFunction(Column(D, b, g, k)) \in Int
           /\ Weighted(D, b, g, k) \in [D -> Int] /\ Column(D, b, g, k) \in [D -> Int]
<1>1. \A i, j \in D : g[i][j] \in Int
    OBVIOUS
<1>2. \A j \in D : b[j] * g[j][k] \in Int /\ b[j] * g[k][j] \in Int
    BY <1>1
<1>3. Weighted(D, b, g, k) \in [D -> Int] /\ Column(D, b, g, k) \in [D -> Int]
    BY <1>2 DEF Weighted, Column
<1> QED BY <1>3, SumInt

\* p is the outer sum of a double sum with the weights c, r that of it with the
\* weights b.
DoubleSum(D, b, c, g, p, r) ==
    /\ b \in [D -> Int] /\ c \in [D -> Int] /\ g \in [D -> [D -> Int]]
    /\ p \in [D -> Int] /\ r \in [D -> Int]
    /\ \A k \in D : Same(p[k], c[k] * SumFunction(Weighted(D, b, g, k)))
    /\ \A j \in D : r[j] = b[j] * SumFunction(Column(D, c, g, j))

\* The two sums of a double sum may change places.
LEMMA SumExchange ==
    ASSUME NEW D, IsFiniteSet(D), NEW b, NEW c, NEW g, NEW p, NEW r, DoubleSum(D, b, c, g, p, r)
    PROVE  /\ SumFunction(p) \in Int /\ SumFunction(r) \in Int
           /\ Same(SumFunction(p), SumFunction(r))
<1> USE DEF DoubleSum
<1> DEFINE W(k) == Weighted(D, b, g, k)
           C(j) == Column(D, c, g, j)
           S(s) == [k \in D |-> c[k] * SumFunctionOnSet(W(k), s)]
           P == {s \in SUBSET D : Same(SumFunction(S(s)), SumFunctionOnSet(r, s))}
<1>0. /\ \A k \in D : W(k) \in [D -> Int] /\ \A j \in D : W(k)[j] = b[j] * g[j][k]
      /\ \A j \in D : C(j) \in [D -> Int] /\ \A k \in D : C(j)[k] = c[k] * g[j][k]
    BY DEF Weighted, Column
<1>1. \A s \in SUBSET D : S(s) \in [D -> Int]
    <2> TAKE s \in SUBSET D
    <2>1. \A k \in D : SumFunctionOnSet(W(k), s) \in Int
        <3> TAKE k \in D
        <3> HIDE DEF W
        <3> QED BY <1>0, SumOnSet
    <2> HIDE DEF W
    <2> QED BY <2>1
<1>2. {} \in P
    <2>1. \A k \in D : S({})[k] = 0
        <3> TAKE k \in D
        <3>1. SumFunctionOnSet(W(k), {}) = 0
            <4> HIDE DEF W
            <4> QED BY <1>0, SumOnSet
        <3> HIDE DEF W
        <3> QED BY <3>1
    <2>2. S({}) \in [D -> Int]
        BY <1>1
    <2>3. SumFunctionOnSet(r, {}) = 0
        BY SumOnSet
    <2> HIDE DEF S
    <2>4. SumFunction(S({})) = 0
        BY <2>1, <2>2, SumZero
    <2> QED BY <2>3, <2>4 DEF Same
<1>3. ASSUME NEW s \in P, NEW j \in D \ s PROVE s \cup {j} \in P
    <2>0. s \in SUBSET D /\ s \cup {j} \in SUBSET D
        OBVIOUS
    <2>1. S(s) \in [D -> Int] /\ S(s \cup {j}) \in [D -> Int] /\ C(j) \in [D -> Int]
        BY <1>0, <1>1, <2>0
    <2>2. ASSUME NEW k \in D PROVE Same(S(s \cup {j})[k], S(s)[k] + b[j] * C(j)[k])
        <3>1. SumFunctionOnSet(W(k), s \cup {j}) = SumFunctionOnSet(W(k), s) + W(k)[j]
            <4>1. W(k) \in [D -> Int] /\ j \in D \ s
                BY <1>0
            <4> DEFINE v == W(k)
            <4> HIDE DEF v, W
            <4>2. SumFunctionOnSet(v, s \cup {j}) = SumFunctionOnSet(v, s) + v[j]
                <5>1. v \in [D -> Int]
                    BY <4>1 DEF v
                <5> QED BY <2>0, <4>1, <5>1, SumOnSet
            <4> QED BY <4>2 DEF v
        <3> DEFINE x == SumFunctionOnSet(W(k), s)
        <3>2. x \in Int
            <4> HIDE DEF W
            <4> QED BY <1>0, <2>0, SumOnSet
        <3>3. W(k)[j] = b[j] * g[j][k] /\ C(j)[k] = c[k] * g[j][k]
            BY <1>0
        <3>4. S(s \cup {j})[k] = c[k] * (x + b[j] * g[j][k]) /\ S(s)[k] = c[k] * x
            <4> HIDE DEF W
            <4> QED BY <3>1, <3>3
        <3>5. c[k] \in Int /\ b[j] \in Int /\ g[j][k] \in Int
            OBVIOUS
        <3> HIDE DEF x, W, C, S
        <3>6. c[k] * (x + b[j] * g[j][k]) = c[k] * x + b[j] * (c[k] * g[j][k])
            <4> DEFINE cc == c[k]
                       bb == b[j]
                       gg == g[j][k]
            <4>1. cc \in Int /\ bb \in Int /\ gg \in Int
                BY <3>5
            <4> HIDE DEF cc, bb, gg
            <4>2. cc * (x + bb * gg) = cc * x + bb * (cc * gg)
                BY <3>2, <4>1
            <4> QED BY <4>2 DEF cc, bb, gg
        <3> QED BY <3>3, <3>4, <3>6 DEF Same
    <2>3. b[j] \in Int
        OBVIOUS
    <2>4. Same(SumFunction(S(s \cup {j})), SumFunction(S(s)) + b[j] * SumFunction(C(j)))
        <3> HIDE DEF S, C
        <3> QED BY <2>1, <2>2, <2>3, SumLinear
    <2>5. SumFunction(S(s)) \in Int /\ SumFunction(C(j)) \in Int
        <3> HIDE DEF S, C
        <3> QED BY <2>1, <2>2, <2>3, SumLinear
    <2>6. SumFunctionOnSet(r, s \cup {j}) = SumFunctionOnSet(r, s) + b[j] * SumFunction(C(j))
        BY <2>0, SumOnSet
    <2>7. SumFunctionOnSet(r, s) \in Int /\ Same(SumFunction(S(s)), SumFunctionOnSet(r, s))
        BY <2>0, SumOnSet
    <2> DEFINE x == SumFunction(S(s))
               y == SumFunctionOnSet(r, s)
               z == b[j] * SumFunction(C(j))
    <2>8. x \in Int /\ y \in Int /\ z \in Int /\ Same(x, y)
        <3> HIDE DEF S, C
        <3> QED BY <2>3, <2>5, <2>7
    <2>9. /\ Same(SumFunction(S(s \cup {j})), x + z)
          /\ SumFunctionOnSet(r, s \cup {j}) = y + z
        BY <2>4, <2>6
    <2> HIDE DEF x, y, z
    <2>10. Same(x + z, y + z)
        <3>1. Same(z, z)
            BY DEF Same
        <3> QED BY <2>8, <3>1, SameAdd
    <2>11. Same(SumFunction(S(s \cup {j})), SumFunctionOnSet(r, s \cup {j}))
        <3> HIDE DEF S
        <3> QED BY <2>9, <2>10 DEF Same
    <2> HIDE DEF S
    <2> QED BY <2>0, <2>11
<1>4. D \in P
    <2>1. P \in SUBSET (SUBSET D)
        OBVIOUS
    <2> HIDE DEF P
    <2> QED BY <1>2, <1>3, <2>1, SubsetInduction
<1>5. S(D) \in [D -> Int] /\ \A k \in D : Same(p[k], S(D)[k])
    <2>1. \A k \in D : SumFunction(W(k)) = SumFunctionOnSet(W(k), D)
        <3> TAKE k \in D
        <3>1. DOMAIN W(k) = D
            BY DEF Weighted
        <3> QED BY <3>1 DEF SumFunction
    <2>2. \A k \in D : S(D)[k] = c[k] * SumFunction(W(k))
        <3> HIDE DEF W
        <3> QED BY <2>1
    <2>3. \A k \in D : Same(p[k], S(D)[k])
        BY <2>2
    <2>4. D \in SUBSET D
        OBVIOUS
    <2> QED BY <1>1, <2>3, <2>4
<1>6. Same(SumFunction(S(D)), SumFunctionOnSet(r, D))
    BY <1>4
<1>7. SumFunction(r) = SumFunctionOnSet(r, D) /\ SumFunction(r) \in Int
    <2>1. D \in SUBSET D /\ DOMAIN r = D
        OBVIOUS
    <2> QED BY <2>1, SumOnSet DEF SumFunction
<1> HIDE DEF S
<1>8. SumFunction(p) \in Int /\ Same(SumFunction(p), SumFunction(S(D)))
    BY <1>5, SumSame
<1> QED BY <1>6, <1>7, <1>8 DEF Same

-----------------------------------------------------------------------------
(***************************************************************************)
(* One step of Cooley and Tukey: even and odd elements.                    *)
(***************************************************************************)

\* Whole turns do not matter.
LEMMA WholeTurn ==
    ASSUME NEW n \in Nat, NEW u \in Int, Exp(u, n) = 1, NEW a \in Nat, NEW j \in Nat
    PROVE  Exp(u, a + j * n) = Exp(u, a)
<1>1. j * n = n * j /\ n * j \in Nat /\ a + n * j \in Nat
    OBVIOUS
<1>2. Exp(u, n * j) = 1
    <2>1. Exp(Exp(u, n), j) = Exp(u, n * j)
        BY ExpExp
    <2> QED BY <2>1, ExpOfOne
<1>3. Same(Exp(u, a + n * j), Exp(u, a) * Exp(u, n * j))
    BY <1>1, ExpAdd
<1>4. Exp(u, a) \in 0..q-1 /\ Exp(u, a) \in Int /\ Exp(u, a + n * j) \in 0..q-1
    BY <1>1, ExpStep
<1>5. Exp(u, a) * 1 = Exp(u, a)
    BY <1>4
<1>6. Exp(u, a + n * j) = Exp(u, a)
    BY <1>2, <1>3, <1>4, <1>5, SameEqual
<1> QED BY <1>1, <1>6

\* A half turn changes the sign.
LEMMA HalfTurn ==
    ASSUME NEW h \in Nat, NEW u \in Int, Same(Exp(u, h), -1), NEW a \in Nat
    PROVE  Same(Exp(u, a + h), -Exp(u, a))
<1> DEFINE A == Exp(u, a)
           H == Exp(u, h)
<1>1. A \in Int /\ H \in Int
    BY ExpStep
<1>2. Same(Exp(u, a + h), A * H)
    BY ExpAdd
<1>3. Same(H, -1)
    OBVIOUS
<1> HIDE DEF A, H
<1>4. Same(A * H, A * (-1))
    <2>1. Same(A, A)
        BY DEF Same
    <2> QED BY <1>1, <1>3, <2>1, SameMul
<1>5. A * (-1) = -A
    BY <1>1
<1> QED BY <1>2, <1>4, <1>5 DEF Same, A

\* An element of which n steps go round, and half as many change the sign.
Turns(n, u) == u \in Int /\ Exp(u, n) = 1 /\ Same(Exp(u, n \div 2), -1)

\* The powers of the odd elements have a factor, which changes its sign after
\* half the frequencies.
LEMMA OddTerm ==
    ASSUME NEW n \in Nat, NEW e \in Nat, NEW s \in Nat, n = e * (2 * s), NEW u, Turns(n, u),
           NEW k \in Nat, NEW j \in Nat
    PROVE  /\ Same(Exp(u, k * (2 * s * j + s)), Exp(u, k * s) * Exp(u, k * (2 * s * j)))
           /\ Same(Exp(u, (k + e) * (2 * s * j + s)), (-Exp(u, k * s)) * Exp(u, k * (2 * s * j)))
<1> DEFINE a == k * (2 * s * j)
           b == k * s
           h == e * s
           A == Exp(u, a)
           B == Exp(u, b)
           X == Exp(u, b + a)
<1>1. /\ a \in Nat /\ b \in Nat /\ h \in Nat /\ n = h * 2
      /\ k * (2 * s * j + s) = b + a
      /\ (k + e) * (2 * s * j + s) = ((b + a) + h) + j * n
    OBVIOUS
<1> HIDE DEF a, b, h
<1>2. n \div 2 = h
    BY <1>1, Multiple
<1>3. A \in Int /\ B \in Int /\ X \in Int /\ b + a \in Nat /\ (b + a) + h \in Nat
    <2>1. b + a \in Nat /\ (b + a) + h \in Nat
        BY <1>1
    <2> QED BY <1>1, <2>1, ExpStep DEF Turns
<1>4. Same(X, B * A)
    BY <1>1, ExpAdd DEF Turns
<1>5. Exp(u, ((b + a) + h) + j * n) = Exp(u, (b + a) + h)
    BY <1>3, WholeTurn DEF Turns
<1>6. Same(Exp(u, (b + a) + h), -X)
    BY <1>1, <1>2, <1>3, HalfTurn DEF Turns
<1> HIDE DEF A, B, X
<1>7. Same(-X, (-B) * A)
    <2>1. Same((-1) * X, (-1) * (B * A))
        <3>1. Same(-1, -1) /\ B * A \in Int /\ -1 \in Int
            BY <1>3 DEF Same
        <3> QED BY <1>3, <1>4, <3>1, SameMul
    <2>2. (-1) * X = -X /\ (-1) * (B * A) = (-B) * A
        BY <1>3
    <2> QED BY <2>1, <2>2
<1>8. Same(Exp(u, (k + e) * (2 * s * j + s)), (-B) * A)
    BY <1>1, <1>5, <1>6, <1>7 DEF Same
<1>9. Same(Exp(u, k * (2 * s * j + s)), B * A)
    BY <1>1, <1>4 DEF X
<1> QED BY <1>8, <1>9 DEF A, B, a, b

\* The transform of every s-th element from the first on, by definition.
PartTerm(xs, u, s, first, k, i) ==
    IF i % s = first THEN xs[i] * Exp(u, k * (i - first)) ELSE 0
Part(n, xs, u, s, first, k) ==
    SumFunction([i \in 0..n-1 |-> PartTerm(xs, u, s, first, k, i)])

\* An index is that of an even element, of an odd one, or of neither.
LEMMA EvenOdd ==
    ASSUME NEW s \in Nat \ {0}, NEW first \in 0..s-1, NEW i \in Nat
    PROVE  \/ \E j \in Nat : i = 2 * s * j + first /\ i % s = first /\ i % (2 * s) = first
           \/ \E j \in Nat : i = 2 * s * j + s + first /\ i % s = first /\ i % (2 * s) = first + s
           \/ i % s # first /\ i % (2 * s) # first /\ i % (2 * s) # first + s
<1> DEFINE t == 2 * s
           j == i \div t
           r == i % t
<1>0. t \in Nat \ {0}
    OBVIOUS
<1>1. j \in Int /\ r \in 0..t-1 /\ i = j * t + r
    <2> HIDE DEF t
    <2> QED BY <1>0, Remainder
<1>2. j \in Nat
    <2> HIDE DEF t
    <2> QED BY <1>0
<1> HIDE DEF j, r
<1>3. i = 2 * s * j + r
    BY <1>1
<1>4. CASE r < s
    <2>1. i = (2 * j) * s + r /\ 2 * j \in Int /\ r \in 0..s-1
        BY <1>1, <1>2, <1>4
    <2> DEFINE c == 2 * j
    <2>2. i = c * s + r /\ c \in Int
        BY <2>1
    <2> HIDE DEF c
    <2>3. i % s = r
        BY <2>1, <2>2, RemainderUnique
    <2>4. i % (2 * s) = r
        BY DEF r
    <2>5. CASE r = first
        BY <1>2, <1>3, <2>3, <2>4, <2>5
    <2>6. CASE r # first
        <3>1. r # first + s
            BY <1>4, <2>1
        <3> QED BY <2>3, <2>4, <2>6, <3>1
    <2> QED BY <2>5, <2>6
<1>5. CASE r >= s
    <2>1. i = (2 * j + 1) * s + (r - s) /\ 2 * j + 1 \in Int /\ r - s \in 0..s-1
        BY <1>1, <1>2, <1>5
    <2> DEFINE c == 2 * j + 1
               b == r - s
    <2>2. i = c * s + b /\ c \in Int /\ b \in 0..s-1 /\ r = b + s
        BY <1>1, <2>1
    <2> HIDE DEF c, b
    <2>3. i % s = b
        BY <2>2, RemainderUnique
    <2>4. i % (2 * s) = r
        BY DEF r
    <2>5. CASE b = first
        <3>1. r = first + s /\ 2 * s * j \in Nat /\ first \in Nat
            BY <1>2, <2>2, <2>5
        <3>2. i = 2 * s * j + s + first
            BY <1>3, <3>1
        <3>3. i % s = first /\ i % (2 * s) = first + s
            BY <2>3, <2>4, <2>5, <3>1
        <3> QED BY <1>2, <3>2, <3>3
    <2>6. CASE b # first
        <3>1. r # first /\ r # first + s
            BY <1>5, <2>2, <2>6
        <3> QED BY <2>3, <2>4, <2>6, <3>1
    <2> QED BY <2>5, <2>6
<1> QED BY <1>1, <1>4, <1>5

\* The term of an element, from those of the two halves.
LEMMA TermStep ==
    ASSUME NEW n \in Nat, NEW e \in Nat, NEW s \in Nat \ {0}, n = e * (2 * s), NEW u, Turns(n, u),
           NEW xs \in [0..n-1 -> Int], NEW first \in 0..s-1, NEW k \in Nat, NEW i \in 0..n-1
    PROVE  /\ PartTerm(xs, u, 2 * s, first, k, i) \in Int
           /\ PartTerm(xs, u, 2 * s, first + s, k, i) \in Int
           /\ PartTerm(xs, u, s, first, k, i) \in Int
           /\ PartTerm(xs, u, s, first, k + e, i) \in Int
           /\ Same(PartTerm(xs, u, s, first, k, i),
                   PartTerm(xs, u, 2 * s, first, k, i)
                     + Exp(u, k * s) * PartTerm(xs, u, 2 * s, first + s, k, i))
           /\ Same(PartTerm(xs, u, s, first, k + e, i),
                   PartTerm(xs, u, 2 * s, first, k, i)
                     + (-Exp(u, k * s)) * PartTerm(xs, u, 2 * s, first + s, k, i))
<1> DEFINE E == Exp(u, k * s)
           x == xs[i]
<1>0. u \in Int /\ E \in Int /\ x \in Int /\ i \in Nat /\ first # first + s
    <2>1. u \in Int /\ k * s \in Nat
        BY DEF Turns
    <2>2. E \in Int
        BY <2>1, ExpStep
    <2> QED BY <2>1, <2>2
<1>1. CASE \E j \in Nat : i = 2 * s * j + first /\ i % s = first /\ i % (2 * s) = first
    <2>1. PICK j \in Nat : i = 2 * s * j + first /\ i % s = first /\ i % (2 * s) = first
        BY <1>1
    <2> DEFINE y == 2 * s * j
               A == Exp(u, k * y)
    <2>2. i - first = y /\ y \in Nat /\ k * y \in Nat
        BY <2>1
    <2>3. A \in Int
        BY <1>0, <2>2, ExpStep
    <2>4. Exp(u, (k + e) * y) = A
        <3> DEFINE a == k * y
        <3>1. (k + e) * y = a + j * n /\ a \in Nat
            OBVIOUS
        <3> HIDE DEF a
        <3>2. Exp(u, a + j * n) = Exp(u, a)
            BY <3>1, WholeTurn DEF Turns
        <3> QED BY <3>1, <3>2 DEF a
    <2> HIDE DEF y
    <2>5. /\ PartTerm(xs, u, 2 * s, first, k, i) = x * A
          /\ PartTerm(xs, u, 2 * s, first + s, k, i) = 0
          /\ PartTerm(xs, u, s, first, k, i) = x * A
          /\ PartTerm(xs, u, s, first, k + e, i) = x * A
        BY <1>0, <2>1, <2>2, <2>4 DEF PartTerm
    <2> HIDE DEF E, x, A
    <2>6. x * A + E * 0 = x * A /\ x * A + (-E) * 0 = x * A /\ x * A \in Int
        BY <1>0, <2>3
    <2>7. Same(x * A, x * A)
        BY DEF Same
    <2> QED BY <2>5, <2>6, <2>7 DEF E
<1>2. CASE \E j \in Nat : i = 2 * s * j + s + first /\ i % s = first /\ i % (2 * s) = first + s
    <2>1. PICK j \in Nat : i = 2 * s * j + s + first /\ i % s = first /\ i % (2 * s) = first + s
        BY <1>2
    <2> DEFINE y == 2 * s * j
               A == Exp(u, k * y)
               B == Exp(u, k * (y + s))
               C == Exp(u, (k + e) * (y + s))
    <2>2. i - first = y + s /\ i - (first + s) = y /\ y \in Nat
        BY <2>1
    <2>3. A \in Int /\ B \in Int /\ C \in Int
        <3>1. k * y \in Nat /\ k * (y + s) \in Nat /\ (k + e) * (y + s) \in Nat
            BY <2>2
        <3> QED BY <1>0, <3>1, ExpStep
    <2>4. Same(B, E * A) /\ Same(C, (-E) * A)
        <3>1. s \in Nat
            OBVIOUS
        <3> QED BY <3>1, OddTerm
    <2> HIDE DEF y
    <2>5. /\ PartTerm(xs, u, 2 * s, first, k, i) = 0
          /\ PartTerm(xs, u, 2 * s, first + s, k, i) = x * A
          /\ PartTerm(xs, u, s, first, k, i) = x * B
          /\ PartTerm(xs, u, s, first, k + e, i) = x * C
        BY <1>0, <2>1, <2>2 DEF PartTerm
    <2> HIDE DEF E, x, A, B, C
    <2>6. Same(x * B, x * (E * A)) /\ Same(x * C, x * ((-E) * A))
        <3>1. Same(x, x) /\ E * A \in Int /\ (-E) * A \in Int
            BY <1>0, <2>3 DEF Same
        <3> QED BY <1>0, <2>3, <2>4, <3>1, SameMul
    <2>7. x * (E * A) = 0 + E * (x * A) /\ x * ((-E) * A) = 0 + (-E) * (x * A)
        BY <1>0, <2>3
    <2>8. x * A \in Int /\ x * B \in Int /\ x * C \in Int
        BY <1>0, <2>3
    <2> QED BY <2>5, <2>6, <2>7, <2>8 DEF E
<1>3. CASE i % s # first /\ i % (2 * s) # first /\ i % (2 * s) # first + s
    <2>1. /\ PartTerm(xs, u, 2 * s, first, k, i) = 0
          /\ PartTerm(xs, u, 2 * s, first + s, k, i) = 0
          /\ PartTerm(xs, u, s, first, k, i) = 0
          /\ PartTerm(xs, u, s, first, k + e, i) = 0
        BY <1>3 DEF PartTerm
    <2> HIDE DEF E
    <2>2. 0 + E * 0 = 0 /\ 0 + (-E) * 0 = 0
        BY <1>0
    <2> QED BY <2>1, <2>2 DEF Same, E
<1> QED BY <1>0, <1>1, <1>2, <1>3, EvenOdd

\* A transform, from those of its two halves.
LEMMA PartSum ==
    ASSUME NEW n \in Nat, NEW e \in Nat, NEW s \in Nat \ {0}, n = e * (2 * s), NEW u, Turns(n, u),
           NEW xs \in [0..n-1 -> Int], NEW first \in 0..s-1, NEW k \in Nat
    PROVE  /\ Part(n, xs, u, 2 * s, first, k) \in Int
           /\ Part(n, xs, u, 2 * s, first + s, k) \in Int
           /\ Part(n, xs, u, s, first, k) \in Int
           /\ Part(n, xs, u, s, first, k + e) \in Int
           /\ Same(Part(n, xs, u, s, first, k),
                   Part(n, xs, u, 2 * s, first, k)
                     + Exp(u, k * s) * Part(n, xs, u, 2 * s, first + s, k))
           /\ Same(Part(n, xs, u, s, first, k + e),
                   Part(n, xs, u, 2 * s, first, k)
                     + (-Exp(u, k * s)) * Part(n, xs, u, 2 * s, first + s, k))
<1> DEFINE D == 0..n-1
           E == Exp(u, k * s)
           f == [i \in D |-> PartTerm(xs, u, 2 * s, first, k, i)]
           g == [i \in D |-> PartTerm(xs, u, 2 * s, first + s, k, i)]
           h == [i \in D |-> PartTerm(xs, u, s, first, k, i)]
           t == [i \in D |-> PartTerm(xs, u, s, first, k + e, i)]
<1>0. E \in Int /\ -E \in Int
    <2>1. u \in Int /\ k * s \in Nat
        BY DEF Turns
    <2>2. E \in Int
        BY <2>1, ExpStep
    <2> HIDE DEF E
    <2> QED BY <2>2
<1>1. IsFiniteSet(D)
    BY FS_Interval
<1>2. f \in [D -> Int] /\ g \in [D -> Int] /\ h \in [D -> Int] /\ t \in [D -> Int]
    BY TermStep
<1>3. \A i \in D : Same(h[i], f[i] + E * g[i]) /\ Same(t[i], f[i] + (-E) * g[i])
    <2> TAKE i \in D
    <2>1. /\ h[i] = PartTerm(xs, u, s, first, k, i) /\ t[i] = PartTerm(xs, u, s, first, k + e, i)
          /\ f[i] = PartTerm(xs, u, 2 * s, first, k, i)
          /\ g[i] = PartTerm(xs, u, 2 * s, first + s, k, i)
        OBVIOUS
    <2> HIDE DEF f, g, h, t
    <2> QED BY <2>1, TermStep
<1>4. /\ Part(n, xs, u, s, first, k) = SumFunction(h)
      /\ Part(n, xs, u, s, first, k + e) = SumFunction(t)
      /\ Part(n, xs, u, 2 * s, first, k) = SumFunction(f)
      /\ Part(n, xs, u, 2 * s, first + s, k) = SumFunction(g)
    BY DEF Part
<1> HIDE DEF D, E, f, g, h, t
<1>5. /\ SumFunction(f) \in Int /\ SumFunction(g) \in Int /\ SumFunction(h) \in Int
      /\ Same(SumFunction(h), SumFunction(f) + E * SumFunction(g))
    BY <1>0, <1>1, <1>2, <1>3, SumLinear
<1>6. SumFunction(t) \in Int /\ Same(SumFunction(t), SumFunction(f) + (-E) * SumFunction(g))
    <2> DEFINE c == -E
    <2>1. c \in Int /\ \A i \in D : Same(t[i], f[i] + c * g[i])
        BY <1>0, <1>3
    <2> HIDE DEF c
    <2>2. SumFunction(t) \in Int /\ Same(SumFunction(t), SumFunction(f) + c * SumFunction(g))
        BY <1>1, <1>2, <2>1, SumLinear
    <2> QED BY <2>2 DEF c
<1> QED BY <1>4, <1>5, <1>6 DEF E

-----------------------------------------------------------------------------
(***************************************************************************)
(* cooleyTukey() computes the transform of every slice.                    *)
(***************************************************************************)

\* F holds the transforms of the slices that are s apart.
IsPart(n, xs, u, s, F) ==
    \A first \in 0..s-1, k \in 0..(n \div s)-1 :
        F[first][k] \in Int /\ Same(F[first][k], Part(n, xs, u, s, first, k))

\* What cooleyTukey() computes for slices of one element.
Single(n, xs) == [first \in 0..n-1 |-> [k \in {0} |-> xs[first]]]

\* A slice of one element is its own transform.
LEMMA PartBase ==
    ASSUME NEW n \in Nat \ {0}, NEW u \in Int, NEW xs \in [0..n-1 -> Int]
    PROVE  IsPart(n, xs, u, n, Single(n, xs))
<1> SUFFICES ASSUME NEW first \in 0..n-1, NEW k \in 0..(n \div n)-1
             PROVE  /\ Single(n, xs)[first][k] \in Int
                    /\ Same(Single(n, xs)[first][k], Part(n, xs, u, n, first, k))
    BY DEF IsPart
<1>1. n \div n = 1
    <2>1. n = 1 * n
        OBVIOUS
    <2> QED BY <2>1, Multiple
<1>2. k = 0
    BY <1>1
<1>3. Single(n, xs)[first][k] = xs[first] /\ xs[first] \in Int
    BY <1>2 DEF Single
<1> DEFINE D == 0..n-1
           f == [i \in D |-> PartTerm(xs, u, n, first, k, i)]
<1>4. ASSUME NEW i \in D PROVE f[i] = IF i = first THEN xs[i] ELSE 0
    <2>1. i % n = i
        BY SmallRemainder
    <2>2. ASSUME i = first PROVE xs[i] * Exp(u, k * (i - first)) = xs[i]
        <3>1. k * (i - first) = 0 /\ Exp(u, 0) = 1 /\ xs[i] \in Int
            <4>1. k * (i - first) = 0 /\ xs[i] \in Int
                BY <1>2, <2>2
            <4> QED BY <4>1, ExpStep
        <3> QED BY <3>1
    <2> QED BY <2>1, <2>2 DEF PartTerm
<1>5. f \in [D -> Int]
    <2>1. \A i \in D : f[i] \in Int
        <3> TAKE i \in D
        <3>1. xs[i] \in Int
            OBVIOUS
        <3> HIDE DEF f
        <3> QED BY <1>4, <3>1
    <2> QED BY <2>1
<1>6. SumFunction(f) = xs[first]
    <2>1. IsFiniteSet(D) /\ first \in D
        BY FS_Interval
    <2>2. \A i \in D : i # first => f[i] = 0
        BY <1>4
    <2>3. f[first] = xs[first]
        BY <1>4
    <2> HIDE DEF D, f
    <2> QED BY <1>5, <2>1, <2>2, <2>3, SumOne
<1>7. Part(n, xs, u, n, first, k) = xs[first]
    BY <1>6 DEF Part
<1> QED BY <1>3, <1>7 DEF Same

\* The powers of a root.
Roots(n, w) == [i \in 0..n-1 |-> Exp(w, i)]

\* n is as often divided by two as needed to come from s to 2 * s.
Halves(n, e, s) == n = e * (2 * s)

\* The roots that a level of cooleyTukey() looks up are powers of u.
LooksUp(n, w, inverse, u) ==
    \A l, s \in Nat : /\ Twiddle(l, s, n, inverse) \in 0..n-1
                      /\ Exp(w, Twiddle(l, s, n, inverse)) = Exp(u, l * s)

\* The transform and its inverse each look up the powers of one element.
LEMMA BaseLemma ==
    ASSUME NEW n, NEW w, IsRoot(n, w), NEW inverse \in BOOLEAN
    PROVE  LooksUp(n, w, inverse, Base(n, w, inverse)) /\ Turns(n, Base(n, w, inverse))
<1>1. LooksUp(n, w, inverse, Base(n, w, inverse))
    BY TwiddleLemma DEF LooksUp
<1>2. Turns(n, Base(n, w, inverse))
    BY BasePowers DEF Turns
<1> QED BY <1>1, <1>2

\* A level of cooleyTukey() on top of that of the halves.
LEMMA PartStep ==
    ASSUME NEW n \in Nat, NEW w, NEW inverse, NEW u, LooksUp(n, w, inverse, u), Turns(n, u),
           NEW xs \in [0..n-1 -> Int],
           NEW s \in Nat \ {0}, NEW e \in Nat \ {0}, Halves(n, e, s), NEW G,
           IsPart(n, xs, u, 2 * s, G)
    PROVE  IsPart(n, xs, u, s, Butterfly(Roots(n, w), inverse, n, s, G))
<1> DEFINE B == Butterfly(Roots(n, w), inverse, n, s, G)
<1>0. u \in Int
    BY DEF Turns
<1>1. n \div (2 * s) = e /\ n \div s = 2 * e
    <2>1. 2 * s \in Nat \ {0} /\ e \in Int /\ 2 * e \in Int /\ n = (2 * e) * s
        BY DEF Halves
    <2> QED BY <2>1, Multiple DEF Halves
<1> SUFFICES ASSUME NEW first \in 0..s-1, NEW k \in 0..2*e-1
             PROVE  B[first][k] \in Int /\ Same(B[first][k], Part(n, xs, u, s, first, k))
    BY <1>1 DEF IsPart
<1>2. ASSUME NEW f \in 0..2*s-1, NEW l \in 0..e-1
      PROVE  G[f][l] \in Int /\ Same(G[f][l], Part(n, xs, u, 2 * s, f, l))
    BY <1>1 DEF IsPart
<1>3. ASSUME NEW l \in 0..e-1
      PROVE  Roots(n, w)[Twiddle(l, s, n, inverse)] = Exp(u, l * s) /\ Exp(u, l * s) \in Int
    <2>1. l \in Nat /\ s \in Nat /\ l * s \in Nat
        OBVIOUS
    <2>2. /\ Twiddle(l, s, n, inverse) \in 0..n-1
          /\ Exp(w, Twiddle(l, s, n, inverse)) = Exp(u, l * s)
        BY <2>1 DEF LooksUp
    <2> QED BY <1>0, <2>1, <2>2, ExpStep DEF Roots
<1>4. ASSUME NEW l \in 0..e-1, NEW a \in Int, NEW b \in Int, NEW E \in Int, NEW P \in Int,
             NEW Q \in Int, Same(a, P), Same(b, Q)
      PROVE  /\ a + b * E \in Int /\ Same(a + b * E, P + E * Q)
             /\ a - b * E \in Int /\ Same(a - b * E, P + (-E) * Q)
    <2>1. Same(b * E, Q * E) /\ b * E \in Int /\ Q * E \in Int
        <3>1. Same(E, E)
            BY DEF Same
        <3> QED BY <1>4, <3>1, SameMul
    <2>2. Same(b * (-E), Q * (-E)) /\ b * (-E) \in Int /\ Q * (-E) \in Int
        <3>1. Same(-E, -E) /\ -E \in Int
            BY DEF Same
        <3> QED BY <1>4, <3>1, SameMul
    <2>3. Same(a + b * E, P + Q * E)
        BY <1>4, <2>1, SameAdd
    <2>4. Same(a + b * (-E), P + Q * (-E))
        BY <1>4, <2>2, SameAdd
    <2>5. P + Q * E = P + E * Q /\ a + b * (-E) = a - b * E /\ P + Q * (-E) = P + (-E) * Q
        OBVIOUS
    <2>6. a + b * E \in Int /\ a - b * E \in Int
        OBVIOUS
    <2> QED BY <2>3, <2>4, <2>5, <2>6
<1>5. first \in 0..2*s-1 /\ first + s \in 0..2*s-1
    OBVIOUS
<1>6. CASE k < e
    <2>0. k \in 0..e-1 /\ k \in Nat
        BY <1>6
    <2> DEFINE a == G[first][k]
               b == G[first + s][k]
               E == Exp(u, k * s)
               P == Part(n, xs, u, 2 * s, first, k)
               Q == Part(n, xs, u, 2 * s, first + s, k)
    <2>1. B[first][k] = a + b * E
        <3>1. B[first][k] = G[first][k] + G[first + s][k] * Roots(n, w)[Twiddle(k, s, n, inverse)]
            BY <1>1, <1>6 DEF Butterfly
        <3> QED BY <1>3, <2>0, <3>1
    <2>2. a \in Int /\ b \in Int /\ Same(a, P) /\ Same(b, Q)
        BY <1>2, <1>5, <2>0
    <2>3. P \in Int /\ Q \in Int /\ Same(Part(n, xs, u, s, first, k), P + E * Q)
        BY <1>0, <2>0, PartSum DEF Halves
    <2>4. E \in Int
        BY <1>3, <2>0
    <2> HIDE DEF a, b, E, P, Q
    <2>5. a + b * E \in Int /\ Same(a + b * E, P + E * Q)
        BY <1>4, <2>0, <2>2, <2>3, <2>4
    <2> QED BY <2>1, <2>3, <2>5 DEF Same
<1>7. CASE ~(k < e)
    <2> DEFINE l == k - e
    <2>0. l \in 0..e-1 /\ l \in Nat /\ k = l + e
        BY <1>7
    <2> DEFINE a == G[first][l]
               b == G[first + s][l]
               E == Exp(u, l * s)
               P == Part(n, xs, u, 2 * s, first, l)
               Q == Part(n, xs, u, 2 * s, first + s, l)
    <2>1. B[first][k] = a - b * E
        <3>1. B[first][k] = G[first][l] - G[first + s][l] * Roots(n, w)[Twiddle(l, s, n, inverse)]
            BY <1>1, <1>7 DEF Butterfly
        <3> QED BY <1>3, <2>0, <3>1
    <2> HIDE DEF l
    <2>2. a \in Int /\ b \in Int /\ Same(a, P) /\ Same(b, Q)
        BY <1>2, <1>5, <2>0
    <2>3. P \in Int /\ Q \in Int /\ Same(Part(n, xs, u, s, first, l + e), P + (-E) * Q)
        BY <1>0, <2>0, PartSum DEF Halves
    <2>4. E \in Int
        BY <1>3, <2>0
    <2> HIDE DEF a, b, E, P, Q
    <2>5. a - b * E \in Int /\ Same(a - b * E, P + (-E) * Q)
        BY <1>4, <2>0, <2>2, <2>3, <2>4
    <2> QED BY <2>0, <2>1, <2>3, <2>5 DEF Same
<1> QED BY <1>6, <1>7

\* The strides of cooleyTukey(), and what it computes for one from the level of
\* twice that stride.
Strides(n) == {s \in 1..n : n % s = 0}
Level(n, xs, roots, inverse, s, next) ==
    IF s = n THEN Single(n, xs) ELSE Butterfly(roots, inverse, n, s, next)
IsFreq(n, xs, roots, inverse, f) ==
    f = [s \in Strides(n) |-> Level(n, xs, roots, inverse, s, f[2*s])]

\* Twice a stride is one too.
LEMMA StrideStep ==
    ASSUME NEW n \in Nat, IsPowerOf2(n), NEW s \in Strides(n), s # n
    PROVE  /\ 2 * s \in Strides(n) /\ 2 * s > s
           /\ \E e \in Nat \ {0} : Halves(n, e, s)
<1>0. s \in 1..n /\ n % s = 0 /\ s \in Nat
    BY DEF Strides
<1>1. PICK e \in Nat \ {0} : n = e * (2 * s)
    BY <1>0, DivisorOfPowerOf2
<1> DEFINE t == 2 * s
<1>2. t \in Nat \ {0} /\ t > s /\ n = e * t
    BY <1>0, <1>1
<1> HIDE DEF t
<1>3. n % t = 0
    <2>1. e \in Int
        OBVIOUS
    <2> QED BY <1>2, <2>1, Multiple
<1>4. t \in 1..n
    BY <1>2
<1>5. t \in Strides(n) /\ t > s
    BY <1>2, <1>3, <1>4 DEF Strides
<1> QED BY <1>1, <1>5 DEF t, Halves

\* The recursion of cooleyTukey() is well defined.
LEMMA FreqExists ==
    ASSUME NEW n \in Nat, IsPowerOf2(n), NEW xs, NEW roots, NEW inverse
    PROVE  \E f : IsFreq(n, xs, roots, inverse, f)
<1> DEFINE L(s, next) == Level(n, xs, roots, inverse, s, next)
           T == {m \in Nat : \E g : \A s \in Strides(n) : s >= n - m => g[s] = L(s, g[2*s])}
<1>0. \A s \in Strides(n) : s \in Nat /\ s <= n /\ s >= 1
    BY DEF Strides
<1>00. \A next, other : L(n, next) = L(n, other)
    BY DEF Level
<1>000. \A s \in Strides(n) : s # n => 2 * s \in Strides(n) /\ 2 * s > s
    BY StrideStep
<1> HIDE DEF L
<1>1. 0 \in T
    <2> DEFINE g == [s \in Strides(n) |-> L(n, 0)]
    <2>1. ASSUME NEW s \in Strides(n), s >= n - 0 PROVE g[s] = L(s, g[2*s])
        <3>1. s = n
            BY <1>0, <2>1
        <3>2. g[s] = L(n, 0)
            OBVIOUS
        <3> QED BY <1>00, <3>1, <3>2
    <2> HIDE DEF g
    <2> QED BY <2>1
<1>2. ASSUME NEW m \in T PROVE m + 1 \in T
    <2>1. m \in Nat
        OBVIOUS
    <2>2. PICK g : \A s \in Strides(n) : s >= n - m => g[s] = L(s, g[2*s])
        OBVIOUS
    <2> DEFINE h == [s \in Strides(n) |-> IF s >= n - m THEN g[s] ELSE L(s, g[2*s])]
    <2>3. ASSUME NEW s \in Strides(n), s >= n - (m + 1) PROVE h[s] = L(s, h[2*s])
        <3>1. h[s] = L(s, g[2*s])
            BY <2>2
        <3>2. CASE s = n
            BY <1>00, <3>1, <3>2
        <3>3. CASE s # n
            <4>1. 2 * s \in Strides(n) /\ 2 * s >= n - m
                <5>1. 2 * s \in Strides(n) /\ 2 * s > s
                    BY <1>000, <3>3
                <5> QED BY <1>0, <2>1, <2>3, <5>1
            <4>2. h[2*s] = g[2*s]
                BY <4>1
            <4> QED BY <3>1, <4>2
        <3> QED BY <3>2, <3>3
    <2> HIDE DEF h
    <2>4. \E f : \A s \in Strides(n) : s >= n - (m + 1) => f[s] = L(s, f[2*s])
        BY <2>3
    <2> QED BY <2>1, <2>4
<1>3. \A m \in Nat : m \in T
    <2>1. T \in SUBSET Nat
        OBVIOUS
    <2> HIDE DEF T
    <2> QED BY <1>1, <1>2, <2>1, SetInduction
<1>4. PICK g : \A s \in Strides(n) : s >= n - n => g[s] = L(s, g[2*s])
    <2>1. n \in T
        BY <1>3
    <2> QED BY <2>1
<1> DEFINE f == [s \in Strides(n) |-> g[s]]
<1>5. ASSUME NEW s \in Strides(n) PROVE f[s] = L(s, f[2*s])
    <2>1. f[s] = L(s, g[2*s])
        BY <1>0, <1>4
    <2>2. CASE s = n
        BY <1>00, <2>1, <2>2
    <2>3. CASE s # n
        <3>1. f[2*s] = g[2*s]
            BY <1>000, <2>3
        <3> QED BY <2>1, <3>1
    <2> QED BY <2>2, <2>3
<1>6. f = [s \in Strides(n) |-> f[s]]
    OBVIOUS
<1> HIDE DEF f
<1>7. f = [s \in Strides(n) |-> L(s, f[2*s])]
    BY <1>5, <1>6
<1> QED BY <1>7 DEF IsFreq, L

\* What cooleyTukey() computes for a stride.
LEMMA FreqLemma ==
    ASSUME NEW n \in Nat \ {0}, IsPowerOf2(n), NEW xs \in [0..n-1 -> Int], NEW w, NEW inverse,
           NEW u, LooksUp(n, w, inverse, u), Turns(n, u),
           NEW f, IsFreq(n, xs, Roots(n, w), inverse, f)
    PROVE  \A s \in Strides(n) : IsPart(n, xs, u, s, f[s])
<1> DEFINE T == {m \in Nat : \A s \in Strides(n) : s >= n - m => IsPart(n, xs, u, s, f[s])}
<1>0. \A s \in Strides(n) : s \in Nat \ {0} /\ s <= n
    BY DEF Strides
<1>1. \A s \in Strides(n) : f[s] = Level(n, xs, Roots(n, w), inverse, s, f[2*s])
    BY DEF IsFreq
<1>2. IsPart(n, xs, u, n, Single(n, xs))
    BY PartBase DEF Turns
<1>3. 0 \in T
    <2>1. ASSUME NEW s \in Strides(n), s >= n - 0 PROVE IsPart(n, xs, u, s, f[s])
        <3>1. s = n
            BY <1>0, <2>1
        <3>2. f[s] = Single(n, xs)
            BY <1>1, <3>1 DEF Level
        <3> QED BY <1>2, <3>1, <3>2
    <2> QED BY <2>1
<1>4. ASSUME NEW m \in T PROVE m + 1 \in T
    <2>1. m \in Nat /\ \A s \in Strides(n) : s >= n - m => IsPart(n, xs, u, s, f[s])
        OBVIOUS
    <2>2. ASSUME NEW s \in Strides(n), s >= n - (m + 1) PROVE IsPart(n, xs, u, s, f[s])
        <3>1. CASE s = n
            BY <1>0, <2>1, <3>1
        <3>2. CASE s # n
            <4>1. 2 * s \in Strides(n) /\ 2 * s > s
                BY <3>2, StrideStep
            <4>2. PICK e \in Nat \ {0} : Halves(n, e, s)
                BY <3>2, StrideStep
            <4>3. 2 * s >= n - m
                BY <1>0, <2>1, <2>2, <4>1
            <4>4. IsPart(n, xs, u, 2 * s, f[2*s])
                BY <2>1, <4>1, <4>3
            <4>5. f[s] = Butterfly(Roots(n, w), inverse, n, s, f[2*s])
                BY <1>1, <3>2 DEF Level
            <4>6. n \in Nat /\ s \in Nat \ {0}
                BY <1>0
            <4>7. IsPart(n, xs, u, s, Butterfly(Roots(n, w), inverse, n, s, f[2*s]))
                BY <4>2, <4>4, <4>6, PartStep
            <4> QED BY <4>5, <4>7
        <3> QED BY <3>1, <3>2
    <2> QED BY <2>1, <2>2
<1>5. \A m \in Nat : m \in T
    <2>1. T \in SUBSET Nat
        OBVIOUS
    <2> HIDE DEF T
    <2> QED BY <1>3, <1>4, <2>1, SetInduction
<1>6. n \in T
    BY <1>5
<1>7. \A s \in Strides(n) : s >= n - n
    BY <1>0
<1> QED BY <1>6, <1>7

\* The transform of xs, by definition.
Transform(n, xs, u, k) == SumFunction([i \in 0..n-1 |-> xs[i] * Exp(u, k * i)])

\* cooleyTukey() computes the transform.
LEMMA CooleyTukeyLemma ==
    ASSUME NEW n \in Nat \ {0}, IsPowerOf2(n), NEW xs \in [0..n-1 -> Int], Len0(xs) = n,
           NEW w, NEW inverse, NEW u, LooksUp(n, w, inverse, u), Turns(n, u), NEW k \in 0..n-1
    PROVE  /\ cooleyTukey(xs, Roots(n, w), inverse)[k] \in Int
           /\ Same(cooleyTukey(xs, Roots(n, w), inverse)[k], Transform(n, xs, u, k))
<1> DEFINE roots == Roots(n, w)
           F == CHOOSE f : IsFreq(n, xs, roots, inverse, f)
<1>1. cooleyTukey(xs, roots, inverse) = F[1][0]
    <2> HIDE DEF roots
    <2> QED BY DEF cooleyTukey, IsFreq, Strides, Level, Single
<1>2. IsFreq(n, xs, roots, inverse, F)
    <2>1. \E f : IsFreq(n, xs, roots, inverse, f)
        BY FreqExists
    <2> HIDE DEF roots
    <2> QED BY <2>1
<1> HIDE DEF F
<1>3. IsPart(n, xs, u, 1, F[1])
    <2>1. 1 \in Strides(n)
        <3>1. n = n * 1 /\ 1 \in 1..n /\ 1 \in Nat \ {0} /\ n \in Int
            OBVIOUS
        <3>2. n % 1 = 0
            BY <3>1, Multiple
        <3> QED BY <3>1, <3>2 DEF Strides
    <2> QED BY <1>2, <2>1, FreqLemma
<1>4. n \div 1 = n /\ 0 \in 0..1-1
    OBVIOUS
<1>5. F[1][0][k] \in Int /\ Same(F[1][0][k], Part(n, xs, u, 1, 0, k))
    BY <1>3, <1>4 DEF IsPart
<1>6. Part(n, xs, u, 1, 0, k) = Transform(n, xs, u, k)
    <2>1. ASSUME NEW i \in 0..n-1 PROVE PartTerm(xs, u, 1, 0, k, i) = xs[i] * Exp(u, k * i)
        <3>1. i % 1 = 0 /\ i - 0 = i
            OBVIOUS
        <3> QED BY <3>1 DEF PartTerm
    <2>2. [i \in 0..n-1 |-> PartTerm(xs, u, 1, 0, k, i)] = [i \in 0..n-1 |-> xs[i] * Exp(u, k * i)]
        BY <2>1
    <2> QED BY <2>2 DEF Part, Transform
<1> QED BY <1>1, <1>5, <1>6

-----------------------------------------------------------------------------
(***************************************************************************)
(* The sum of the powers of a root is 0.                                   *)
(***************************************************************************)

\* The sum of a geometric series that goes round.
LEMMA GeometricSum ==
    ASSUME NEW z \in Int, NEW n \in Nat, Exp(z, n) = 1, ~Same(z, 1),
           NEW g, g = [k \in 0..n-1 |-> Exp(z, k)]
    PROVE  SumFunction(g) \in Int /\ Same(SumFunction(g), 0)
<1> DEFINE D == 0..n-1
           S(m) == SumFunctionOnSet(g, 0..m-1)
           T == {m \in Nat : m <= n => Same((z - 1) * S(m), Exp(z, m) - 1)}
<1>0. IsFiniteSet(D) /\ g \in [D -> Int] /\ \A k \in D : g[k] = Exp(z, k)
    <2>1. \A k \in D : k \in Nat
        OBVIOUS
    <2>2. \A k \in D : Exp(z, k) \in Int
        BY <2>1, ExpStep
    <2>3. 0 \in Int /\ n - 1 \in Int
        OBVIOUS
    <2>4. IsFiniteSet(D)
        BY <2>3, FS_Interval
    <2> QED BY <2>2, <2>4
<1>1. \A m \in 0..n : S(m) \in Int
    <2>1. \A m \in 0..n : 0..m-1 \in SUBSET D
        OBVIOUS
    <2> HIDE DEF D
    <2> QED BY <1>0, <2>1, SumOnSet
<1>2. 0 \in T
    <2>1. 0..0-1 = {}
        OBVIOUS
    <2>2. SumFunctionOnSet(g, {}) = 0
        <3> HIDE DEF D
        <3> QED BY <1>0, SumOnSet
    <2>3. S(0) = 0
        BY <2>1, <2>2
    <2>4. (z - 1) * 0 = 0 /\ 1 - 1 = 0 /\ Exp(z, 0) = 1
        <3>1. (z - 1) * 0 = 0 /\ 1 - 1 = 0
            OBVIOUS
        <3> QED BY <3>1, ExpStep
    <2> HIDE DEF S
    <2>5. Same((z - 1) * S(0), Exp(z, 0) - 1)
        BY <2>3, <2>4 DEF Same
    <2> QED BY <2>5
<1>3. ASSUME NEW m \in T PROVE m + 1 \in T
    <2>0. m \in Nat
        OBVIOUS
    <2> SUFFICES ASSUME m + 1 <= n PROVE Same((z - 1) * S(m + 1), Exp(z, m + 1) - 1)
        BY <2>0
    <2>1. Same((z - 1) * S(m), Exp(z, m) - 1)
        BY <2>0
    <2>2. S(m + 1) = S(m) + Exp(z, m)
        <3>1. 0..(m + 1)-1 = (0..m-1) \cup {m} /\ 0..m-1 \in SUBSET D /\ m \in D \ (0..m-1)
            BY <2>0
        <3>2. g[m] = Exp(z, m)
            BY <1>0, <3>1
        <3> DEFINE R == 0..m-1
        <3>3. R \in SUBSET D /\ m \in D \ R
            BY <3>1
        <3>4. SumFunctionOnSet(g, R \cup {m}) = SumFunctionOnSet(g, R) + g[m]
            <4>1. IsFiniteSet(D) /\ g \in [D -> Int]
                BY <1>0
            <4> HIDE DEF D, R
            <4>2. \A t \in SUBSET D : \A x \in D \ t :
                      SumFunctionOnSet(g, t \cup {x}) = SumFunctionOnSet(g, t) + g[x]
                BY <4>1, SumOnSet
            <4> QED BY <3>3, <4>2
        <3> QED BY <3>1, <3>2, <3>4
    <2>3. S(m) \in Int
        BY <1>1, <2>0
    <2> DEFINE s == S(m)
               E == Exp(z, m)
               N == Exp(z, m + 1)
    <2>4. E \in Int /\ N \in Int /\ Same(N, E * z)
        BY <2>0, ExpStep, ExpNext
    <2>5. s \in Int /\ S(m + 1) = s + E /\ Same((z - 1) * s, E - 1)
        BY <2>1, <2>2, <2>3
    <2> HIDE DEF s, E, N, S
    <2>6. Same((z - 1) * s + (z * E - E), (E - 1) + (z * E - E))
        <3>1. (z - 1) * s \in Int /\ E - 1 \in Int /\ z * E - E \in Int
            BY <2>4, <2>5
        <3>2. Same(z * E - E, z * E - E)
            BY DEF Same
        <3> QED BY <2>5, <3>1, <3>2, SameAdd
    <2>7. (z - 1) * s + (z * E - E) = (z - 1) * (s + E) /\ (E - 1) + (z * E - E) = E * z + (-1)
        BY <2>4, <2>5
    <2>8. Same(N + (-1), E * z + (-1))
        <3>1. Same(-1, -1) /\ -1 \in Int /\ E * z \in Int
            BY <2>4 DEF Same
        <3> QED BY <2>4, <3>1, SameAdd
    <2>9. N + (-1) = N - 1
        BY <2>4
    <2>10. Same((z - 1) * (s + E), N - 1)
        BY <2>6, <2>7, <2>8, <2>9 DEF Same
    <2> QED BY <2>5, <2>10 DEF N
<1>4. \A m \in Nat : m \in T
    <2>1. T \in SUBSET Nat
        OBVIOUS
    <2> HIDE DEF T
    <2> QED BY <1>2, <1>3, <2>1, SetInduction
<1>5. n \in T
    BY <1>4
<1>6. Same((z - 1) * S(n), 0)
    <2>1. Same((z - 1) * S(n), Exp(z, n) - 1)
        BY <1>5
    <2>2. 1 - 1 = 0
        OBVIOUS
    <2> HIDE DEF S
    <2> QED BY <2>1, <2>2
<1>7. ~Same(z - 1, 0) /\ z - 1 \in Int
    <2> SUFFICES ASSUME Same(z - 1, 0) PROVE FALSE
        OBVIOUS
    <2>1. Same((z - 1) + 1, 0 + 1)
        <3>1. Same(1, 1) /\ z - 1 \in Int
            BY DEF Same
        <3> QED BY <3>1, SameAdd
    <2>2. (z - 1) + 1 = z /\ 0 + 1 = 1
        OBVIOUS
    <2> QED BY <2>1, <2>2
<1>8. S(n) \in Int /\ SumFunction(g) = S(n)
    BY <1>0, <1>1 DEF SumFunction
<1> HIDE DEF S
<1>9. Same(S(n), 0)
    BY <1>6, <1>7, <1>8, NoZeroDivisors
<1> QED BY <1>8, <1>9

\* The sum of powers of one.
LEMMA OnesSum ==
    ASSUME NEW n \in Nat \ {0}, NEW g, g = [k \in 0..n-1 |-> Exp(1, k)]
    PROVE  SumFunction(g) = n
<1>1. \A k \in 0..n-1 : g[k] = 1
    BY ExpOfOne
<1>2. g \in [0..n-1 -> Int]
    BY <1>1
<1>3. IsFiniteSet(0..n-1) /\ Cardinality(0..n-1) = n
    <2>1. 0 \in Int /\ n - 1 \in Int /\ ~(0 > n - 1) /\ n - 1 - 0 + 1 = n
        OBVIOUS
    <2> QED BY <2>1, FS_Interval
<1>4. SumFunction(g) = 1 * Cardinality(0..n-1)
    BY <1>1, <1>2, <1>3, SumConstant
<1> QED BY <1>3, <1>4

\* The product of the powers that the transforms of index i and j and the inverse
\* of index m multiply.
LEMMA RootTerm ==
    ASSUME NEW n, NEW w, IsRoot(n, w), NEW v, v = Exp(w, n - 1),
           NEW m \in Nat, NEW i \in Nat, NEW j \in Nat, NEW k \in Nat
    PROVE  /\ (Exp(w, m * k) * Exp(v, k * i)) * Exp(v, k * j) \in Int
           /\ Same((Exp(w, m * k) * Exp(v, k * i)) * Exp(v, k * j),
                   Exp(Exp(w, (n - 1) * (i + j) + m), k))
<1>0. n \in Nat /\ n - 1 \in Nat /\ w \in Int /\ v \in Int
    <2>1. n \in Nat /\ n - 1 \in Nat /\ w \in Int
        BY Unit DEF IsRoot
    <2> QED BY <2>1, ExpStep
<1> DEFINE a == m * k
           b == k * i
           c == k * j
           d == (n - 1) * (b + c)
           e == (n - 1) * (i + j) + m
           A == Exp(w, a)
           B == Exp(v, b)
           C == Exp(v, c)
           X == Exp(w, d)
<1>1. a \in Nat /\ b \in Nat /\ c \in Nat /\ d \in Nat /\ e \in Nat /\ b + c \in Nat
    BY <1>0
<1>2. a + d = e * k
    BY <1>0
<1>3. Exp(v, b + c) = Exp(w, d)
    <2> HIDE DEF b, c
    <2> QED BY <1>0, <1>1, ExpExp
<1> HIDE DEF a, b, c, d, e
<1>4. A \in Int /\ B \in Int /\ C \in Int /\ X \in Int
    BY <1>0, <1>1, ExpStep
<1>5. Same(X, B * C)
    BY <1>0, <1>1, <1>3, ExpAdd
<1>6. Same(Exp(w, a + d), A * X)
    BY <1>0, <1>1, ExpAdd
<1>7. Exp(Exp(w, e), k) = Exp(w, e * k)
    BY <1>0, <1>1, ExpExp
<1> HIDE DEF A, B, C, X
<1>8. Same(A * X, A * (B * C)) /\ A * (B * C) = (A * B) * C
    <2>1. Same(A, A) /\ B * C \in Int
        BY <1>4 DEF Same
    <2> QED BY <1>4, <1>5, <2>1, SameMul
<1>9. Same((A * B) * C, Exp(Exp(w, e), k)) /\ (A * B) * C \in Int
    BY <1>2, <1>4, <1>6, <1>7, <1>8 DEF Same
<1> QED BY <1>9 DEF A, B, C, a, b, c, e

\* Those products.
Products(n, w, v, m, i, j) ==
    [k \in 0..n-1 |-> (Exp(w, m * k) * Exp(v, k * i)) * Exp(v, k * j)]

\* Sums of those products.
LEMMA Orthogonal ==
    ASSUME NEW n, NEW w, IsRoot(n, w), NEW v, v = Exp(w, n - 1),
           NEW m \in 0..n-1, NEW i \in Nat, NEW j \in Nat, i + j \in 0..n-1
    PROVE  /\ SumFunction(Products(n, w, v, m, i, j)) \in Int
           /\ Same(SumFunction(Products(n, w, v, m, i, j)), IF i + j = m THEN n ELSE 0)
<1> DEFINE f == [k \in 0..n-1 |-> (Exp(w, m * k) * Exp(v, k * i)) * Exp(v, k * j)]
<1>0. /\ n \in Nat \ {0} /\ n \in Int /\ n - 1 \in Nat /\ w \in Int /\ ~Same(w, 0) /\ m \in Nat
      /\ IsOrder(w, n) /\ Exp(w, n) = 1
    BY Unit DEF IsRoot, IsOrder
<1> DEFINE l == i + j
           e == (n - 1) * l + m
           z == Exp(w, e)
           g == [k \in 0..n-1 |-> Exp(z, k)]
<1>1. l \in 0..n-1 /\ l \in Nat /\ e \in Nat
    <2>1. l \in 0..n-1 /\ l \in Nat
        BY <1>0
    <2> HIDE DEF l
    <2> DEFINE y == (n - 1) * l
    <2>2. y \in Nat
        BY <1>0, <2>1
    <2>3. e = y + m
        OBVIOUS
    <2> HIDE DEF y, e
    <2> QED BY <1>0, <2>1, <2>2, <2>3
<1>2. z \in Int /\ z \in 0..q-1
    BY <1>0, <1>1, ExpStep
<1>3. \A k \in 0..n-1 : Exp(z, k) \in Int
    <2>1. \A k \in 0..n-1 : k \in Nat
        OBVIOUS
    <2> HIDE DEF z
    <2> QED BY <1>2, <2>1, ExpStep
<1>4. ASSUME NEW k \in 0..n-1 PROVE f[k] \in Int /\ Same(f[k], g[k])
    <2>1. k \in Nat
        OBVIOUS
    <2>2. f[k] = (Exp(w, m * k) * Exp(v, k * i)) * Exp(v, k * j) /\ g[k] = Exp(z, k)
        OBVIOUS
    <2>3. /\ (Exp(w, m * k) * Exp(v, k * i)) * Exp(v, k * j) \in Int
          /\ Same((Exp(w, m * k) * Exp(v, k * i)) * Exp(v, k * j),
                  Exp(Exp(w, (n - 1) * (i + j) + m), k))
        BY <1>0, <2>1, RootTerm
    <2> HIDE DEF g
    <2> QED BY <2>2, <2>3
<1>5. f \in [0..n-1 -> Int] /\ g \in [0..n-1 -> Int] /\ IsFiniteSet(0..n-1)
    <2>1. IsFiniteSet(0..n-1)
        BY <1>0, FS_Interval
    <2>2. g \in [0..n-1 -> Int]
        BY <1>3
    <2>3. f \in [0..n-1 -> Int]
        BY <1>4
    <2> QED BY <2>1, <2>2, <2>3
<1>6. SumFunction(f) \in Int /\ Same(SumFunction(f), SumFunction(g))
    <2> HIDE DEF g
    <2> QED BY <1>4, <1>5, SumSame
<1>7. f = Products(n, w, v, m, i, j)
    BY DEF Products
<1> HIDE DEF f
<1>8. CASE l = m
    <2>1. e = n * m
        <3> HIDE DEF l
        <3> QED BY <1>0, <1>8
    <2>2. z = 1
        <3>1. Exp(Exp(w, n), m) = Exp(w, n * m)
            BY <1>0, ExpExp
        <3> QED BY <1>0, <2>1, <3>1, ExpOfOne
    <2>3. g = [k \in 0..n-1 |-> Exp(1, k)]
        BY <2>2
    <2> HIDE DEF g
    <2>4. SumFunction(g) = n
        BY <1>0, <2>3, OnesSum
    <2> QED BY <1>6, <1>7, <1>8, <2>4
<1>9. CASE l # m
    <2>1. z # 1
        <3> SUFFICES ASSUME z = 1 PROVE FALSE
            OBVIOUS
        <3>1. e % n = 0
            <4> HIDE DEF e
            <4> QED BY <1>0, <1>1, OrderDivides
        <3>2. e = (m - l) + l * n /\ m - l \in Int /\ l \in Int
            BY <1>0, <1>1
        <3> DEFINE d == m - l
        <3>3. d \in Int /\ e = d + l * n /\ l \in Int
            BY <3>2
        <3> HIDE DEF d, e, l
        <3>4. d % n = 0
            BY <1>0, <3>1, <3>3, RemainderShift
        <3>5. d \in (1-n)..(n-1) /\ d # 0
            BY <1>0, <1>1, <1>9 DEF d
        <3>6. CASE d > 0
            <4>1. d \in 0..n-1
                BY <1>0, <3>5, <3>6
            <4> QED BY <1>0, <3>4, <3>5, <4>1, SmallRemainder
        <3>7. CASE d < 0
            <4> DEFINE r == d + n
            <4>1. r \in 0..n-1 /\ r # 0 /\ r = d + 1 * n
                BY <1>0, <3>5, <3>7
            <4> HIDE DEF r
            <4>2. r % n = r
                BY <1>0, <4>1, SmallRemainder
            <4>3. r % n = d % n
                <5>1. 1 \in Int /\ d \in Int /\ n \in Nat \ {0} /\ r = d + 1 * n
                    BY <1>0, <3>3, <4>1
                <5> QED BY <5>1, RemainderShift
            <4> QED BY <3>4, <4>1, <4>2, <4>3
        <3> QED BY <3>3, <3>5, <3>6, <3>7
    <2>2. Exp(z, n) = 1
        <3> HIDE DEF e
        <3>1. Exp(z, n) = Exp(w, e * n)
            BY <1>0, <1>1, ExpExp
        <3>2. Exp(Exp(w, n), e) = Exp(w, n * e)
            BY <1>0, <1>1, ExpExp
        <3>3. e * n = n * e
            BY <1>0, <1>1
        <3> QED BY <1>0, <1>1, <3>1, <3>2, <3>3, ExpOfOne
    <2>3. ~Same(z, 1)
        <3>1. 1 \in 0..q-1
            BY FieldOrder
        <3> HIDE DEF z
        <3> QED BY <1>2, <2>1, <3>1, SameEqual
    <2>4. g = [k \in 0..n-1 |-> Exp(z, k)] /\ n \in Nat
        BY <1>0
    <2> HIDE DEF g, z
    <2>5. Same(SumFunction(g), 0)
        BY <1>2, <2>2, <2>3, <2>4, GeometricSum
    <2> QED BY <1>6, <1>7, <1>9, <2>5 DEF Same
<1> QED BY <1>7, <1>8, <1>9

-----------------------------------------------------------------------------
(***************************************************************************)
(* FFTInverse() of a product of transforms is the convolution.             *)
(***************************************************************************)

\* F is the transform of xs, of which only the first m elements are not zero.
IsTransform(n, w, xs, m, F) ==
    /\ m \in Nat \ {0} /\ xs \in [0..n-1 -> Int] /\ F \in [0..n-1 -> Int]
    /\ \A j \in 0..n-1 : j >= m => xs[j] = 0
    /\ \A k \in 0..n-1 : Same(F[k], Transform(n, xs, Exp(w, n - 1), k))

\* The powers that a transform multiplies the elements by.
Table(n, v) == [j \in 0..n-1 |-> [k \in 0..n-1 |-> Exp(v, k * j)]]

\* A transform is a weighted sum over the table.
LEMMA TransformIsWeighted ==
    ASSUME NEW n \in Nat, NEW v \in Int, NEW xs, NEW k \in 0..n-1
    PROVE  Transform(n, xs, v, k) = SumFunction(Weighted(0..n-1, xs, Table(n, v), k))
<1>1. \A j \in 0..n-1 : Table(n, v)[j][k] = Exp(v, k * j)
    BY DEF Table
<1>2. [j \in 0..n-1 |-> xs[j] * Exp(v, k * j)] = Weighted(0..n-1, xs, Table(n, v), k)
    BY <1>1 DEF Weighted
<1> QED BY <1>2 DEF Transform

\* The table holds numbers.
LEMMA TableType ==
    ASSUME NEW n \in Nat, NEW v \in Int
    PROVE  /\ Table(n, v) \in [0..n-1 -> [0..n-1 -> Int]]
           /\ \A j, k \in 0..n-1 : Table(n, v)[j][k] = Exp(v, k * j) /\ Exp(v, k * j) \in Int
<1>1. \A j, k \in 0..n-1 : k * j \in Nat
    OBVIOUS
<1>2. \A j, k \in 0..n-1 : Exp(v, k * j) \in Int
    BY <1>1, ExpStep
<1> QED BY <1>2 DEF Table

\* The element at m - i, if there is one.
Shifted(xs, l, m, i) == IF m - i \in 0..l-1 THEN xs[m - i] ELSE 0

\* What the inverse transform of index m sums for the element i of the other.
Inner(n, w, v, F, m, i) == [k \in 0..n-1 |-> (F[k] * Exp(w, m * k)) * Exp(v, k * i)]

\* Inverting the transform of a slice, shifted by i.
LEMMA InnerSum ==
    ASSUME NEW n, NEW w, IsRoot(n, w), NEW v, v = Exp(w, n - 1), NEW xs, NEW l, NEW F,
           IsTransform(n, w, xs, l, F), NEW i \in Nat, i + l <= n, NEW m \in 0..n-1
    PROVE  /\ SumFunction(Inner(n, w, v, F, m, i)) \in Int /\ Shifted(xs, l, m, i) \in Int
           /\ Same(SumFunction(Inner(n, w, v, F, m, i)), n * Shifted(xs, l, m, i))
<1> DEFINE p == Inner(n, w, v, F, m, i)
<1>0. n \in Nat \ {0} /\ n \in Nat /\ n \in Int /\ n - 1 \in Nat /\ w \in Int /\ m \in Nat /\ v \in Int
    <2>1. n \in Nat \ {0} /\ n \in Int /\ n - 1 \in Nat /\ w \in Int /\ m \in Nat
        BY Unit DEF IsRoot
    <2> QED BY <2>1, ExpStep
<1>00. /\ l \in Nat \ {0} /\ xs \in [0..n-1 -> Int] /\ F \in [0..n-1 -> Int]
       /\ \A j \in 0..n-1 : j >= l => xs[j] = 0
       /\ \A k \in 0..n-1 : Same(F[k], Transform(n, xs, v, k))
    BY DEF IsTransform
<1> DEFINE D == 0..n-1
           g == Table(n, v)
           c == [k \in D |-> Exp(w, m * k) * Exp(v, k * i)]
           r == [j \in D |-> xs[j] * SumFunction(Column(D, c, g, j))]
           t == [j \in D |-> IF j = m - i /\ j < l THEN xs[j] * n ELSE 0]
<1>1. IsFiniteSet(D)
    BY <1>0, FS_Interval
<1>2. ASSUME NEW k \in D
      PROVE  Exp(w, m * k) \in Int /\ Exp(v, k * i) \in Int /\ c[k] \in Int
    <2>1. m * k \in Nat /\ k * i \in Nat
        BY <1>0
    <2>2. Exp(w, m * k) \in Int /\ Exp(v, k * i) \in Int
        BY <1>0, <2>1, ExpStep
    <2> QED BY <2>2
<1>3. c \in [D -> Int] /\ \A k \in D : c[k] = Exp(w, m * k) * Exp(v, k * i)
    BY <1>2
<1>4. /\ g \in [D -> [D -> Int]]
      /\ \A j, k \in D : g[j][k] = Exp(v, k * j) /\ Exp(v, k * j) \in Int
    BY <1>0, TableType
<1>5. \A k \in D : Transform(n, xs, v, k) = SumFunction(Weighted(D, xs, g, k))
    BY <1>0, TransformIsWeighted
<1> HIDE DEF c, g
<1>6. ASSUME NEW k \in D
      PROVE  p[k] \in Int /\ Same(p[k], c[k] * SumFunction(Weighted(D, xs, g, k)))
    <2> DEFINE f == F[k]
               a == Exp(w, m * k)
               b == Exp(v, k * i)
               s == SumFunction(Weighted(D, xs, g, k))
    <2>1. f \in Int /\ a \in Int /\ b \in Int /\ c[k] = a * b /\ p[k] = (f * a) * b
        BY <1>00, <1>2, <1>3 DEF Inner
    <2>2. Same(f, s)
        BY <1>00, <1>5
    <2>3. s \in Int
        BY <1>00, <1>1, <1>4, WeightedType
    <2> HIDE DEF f, a, b, s
    <2>4. Same((a * b) * f, (a * b) * s)
        <3>1. Same(a * b, a * b) /\ a * b \in Int
            BY <2>1 DEF Same
        <3> QED BY <2>1, <2>2, <2>3, <3>1, SameMul
    <2>5. (f * a) * b = (a * b) * f /\ (f * a) * b \in Int
        BY <2>1
    <2> QED BY <2>1, <2>4, <2>5 DEF s
<1>7. p \in [D -> Int]
    BY <1>6 DEF Inner
<1> HIDE DEF p
<1>8. ASSUME NEW j \in D, i + j \in D
      PROVE  /\ SumFunction(Column(D, c, g, j)) \in Int
             /\ Same(SumFunction(Column(D, c, g, j)), IF i + j = m THEN n ELSE 0)
    <2>1. Column(D, c, g, j) = Products(n, w, v, m, i, j)
        BY <1>3, <1>4 DEF Column, Products
    <2>2. j \in Nat /\ i + j \in 0..n-1
        BY <1>8
    <2> QED BY <2>1, <2>2, Orthogonal
<1>9. ASSUME NEW j \in D PROVE r[j] \in Int /\ t[j] \in Int /\ Same(r[j], t[j])
    <2> DEFINE x == xs[j]
               s == SumFunction(Column(D, c, g, j))
    <2>1. r[j] = x * s /\ x \in Int
        BY <1>00
    <2>2. CASE j < l
        <3>1. i + j \in D /\ (i + j = m <=> j = m - i)
            BY <1>0, <1>00, <2>2
        <3>2. s \in Int /\ Same(s, IF i + j = m THEN n ELSE 0)
            BY <1>8, <3>1
        <3>3. t[j] = x * (IF i + j = m THEN n ELSE 0)
            <4>1. t[j] = IF i + j = m THEN x * n ELSE 0
                BY <2>2, <3>1
            <4>2. x * 0 = 0
                BY <2>1
            <4> HIDE DEF t, x
            <4> QED BY <4>1, <4>2
        <3> DEFINE y == IF i + j = m THEN n ELSE 0
        <3>4. y \in Int
            BY <1>0
        <3>5. Same(s, y) /\ t[j] = x * y
            BY <3>2, <3>3
        <3> HIDE DEF x, s, y, r, t
        <3>6. Same(x * s, x * y)
            <4>1. Same(x, x)
                BY DEF Same
            <4> QED BY <2>1, <3>2, <3>4, <3>5, <4>1, SameMul
        <3> QED BY <2>1, <3>2, <3>4, <3>5, <3>6
    <2>3. CASE ~(j < l)
        <3>1. x = 0 /\ t[j] = 0
            BY <1>00, <2>3
        <3>2. s \in Int
            BY <1>1, <1>3, <1>4, WeightedType
        <3> HIDE DEF s, r, t
        <3>3. 0 * s = 0
            BY <3>2
        <3> QED BY <2>1, <3>1, <3>3 DEF Same
    <2> QED BY <2>2, <2>3
<1>10. r \in [D -> Int] /\ t \in [D -> Int]
    BY <1>9
<1>11. Same(SumFunction(p), SumFunction(r)) /\ SumFunction(p) \in Int /\ SumFunction(r) \in Int
    <2>1. \A j \in D : r[j] = xs[j] * SumFunction(Column(D, c, g, j))
        OBVIOUS
    <2>2. xs \in [D -> Int]
        BY <1>00
    <2>3. \A k \in D : Same(p[k], c[k] * SumFunction(Weighted(D, xs, g, k)))
        BY <1>6
    <2>4. c \in [D -> Int] /\ g \in [D -> [D -> Int]]
        BY <1>3, <1>4
    <2> HIDE DEF r, t, D
    <2>5. DoubleSum(D, xs, c, g, p, r)
        BY <1>7, <1>10, <2>1, <2>2, <2>3, <2>4 DEF DoubleSum
    <2> QED BY <1>1, <2>5, SumExchange
<1>12. Same(SumFunction(r), SumFunction(t))
    <2> HIDE DEF r, t, D
    <2> QED BY <1>1, <1>9, <1>10, SumSame
<1> DEFINE y == m - i
<1>13. SumFunction(t) = IF y \in D THEN t[y] ELSE 0
    <2>1. \A j \in D : j # y => t[j] = 0
        OBVIOUS
    <2> HIDE DEF r, t, D, y
    <2> QED BY <1>1, <1>10, <2>1, SumOne
<1>14. Shifted(xs, l, m, i) \in Int /\ SumFunction(t) = n * Shifted(xs, l, m, i)
    <2>1. CASE y \in 0..l-1
        <3>1. y \in D /\ y < l
            BY <1>0, <1>00, <2>1
        <3>2. t[y] = xs[y] * n /\ Shifted(xs, l, m, i) = xs[y] /\ xs[y] \in Int
            BY <1>00, <2>1, <3>1 DEF Shifted
        <3> HIDE DEF t, y
        <3>3. xs[y] * n = n * xs[y]
            BY <1>0, <3>2
        <3> QED BY <1>13, <3>1, <3>2, <3>3
    <2>2. CASE y \notin 0..l-1
        <3>1. y \in D => t[y] = 0
            BY <1>0, <1>00, <2>2
        <3>2. Shifted(xs, l, m, i) = 0 /\ n * 0 = 0
            BY <1>0, <2>2 DEF Shifted
        <3> HIDE DEF t, y
        <3> QED BY <1>13, <3>1, <3>2
    <2> QED BY <2>1, <2>2
<1>15. Same(SumFunction(p), n * Shifted(xs, l, m, i))
    <2> HIDE DEF r, t
    <2> QED BY <1>11, <1>12, <1>14 DEF Same
<1> HIDE DEF r, t
<1> QED BY <1>11, <1>14, <1>15 DEF p

\* The element is a number whether there is one or not.
LEMMA ShiftedType ==
    ASSUME NEW n \in Nat, NEW xs \in [0..n-1 -> Int], NEW l \in Nat, l <= n, NEW m \in Int, NEW i \in Int
    PROVE  Shifted(xs, l, m, i) \in Int
BY DEF Shifted

\* The sum that defines the convolution at m, of padded slices.
Terms(n, xs, ys, l, m) == [i \in 0..n-1 |-> xs[i] * Shifted(ys, l, m, i)]

\* The product of two transforms.
Product(n, X, Y) == [k \in 0..n-1 |-> X[k] * Y[k]]

\* Inverting the product of two transforms gives n times the convolution.
LEMMA OuterSum ==
    ASSUME NEW n, NEW w, IsRoot(n, w), NEW xs, NEW la, NEW X, IsTransform(n, w, xs, la, X),
           NEW ys, NEW lb, NEW Y, IsTransform(n, w, ys, lb, Y), la + lb - 1 <= n, NEW m \in 0..n-1
    PROVE  /\ Product(n, X, Y) \in [0..n-1 -> Int] /\ Transform(n, Product(n, X, Y), w, m) \in Int
           /\ Terms(n, xs, ys, lb, m) \in [0..n-1 -> Int]
           /\ SumFunction(Terms(n, xs, ys, lb, m)) \in Int
           /\ Same(Transform(n, Product(n, X, Y), w, m), n * SumFunction(Terms(n, xs, ys, lb, m)))
<1> DEFINE P == Product(n, X, Y)
           v == Exp(w, n - 1)
           D == 0..n-1
           g == Table(n, v)
           c == [k \in D |-> Y[k] * Exp(w, m * k)]
           p == [k \in D |-> P[k] * Exp(w, m * k)]
           r == [i \in D |-> xs[i] * SumFunction(Column(D, c, g, i))]
           t == Terms(n, xs, ys, lb, m)
<1>0. n \in Nat \ {0} /\ n \in Nat /\ n \in Int /\ n - 1 \in Nat /\ w \in Int /\ m \in Nat /\ v \in Int
    <2>1. n \in Nat \ {0} /\ n \in Int /\ n - 1 \in Nat /\ w \in Int /\ m \in Nat
        BY Unit DEF IsRoot
    <2> QED BY <2>1, ExpStep
<1>1. /\ la \in Nat \ {0} /\ xs \in [D -> Int] /\ X \in [D -> Int]
      /\ \A j \in D : j >= la => xs[j] = 0
      /\ \A k \in D : Same(X[k], Transform(n, xs, v, k))
      /\ lb \in Nat \ {0} /\ ys \in [D -> Int] /\ Y \in [D -> Int] /\ lb <= n
    <2>1. la \in Nat \ {0} /\ lb \in Nat \ {0}
        BY DEF IsTransform
    <2>2. lb <= n
        BY <1>0, <2>1
    <2> QED BY <2>1, <2>2 DEF IsTransform
<1>2. P = [k \in D |-> X[k] * Y[k]]
    BY DEF Product
<1>3. IsFiniteSet(D)
    BY <1>0, FS_Interval
<1> HIDE DEF P
<1>4. \A k \in D : Exp(w, m * k) \in Int
    <2>1. \A k \in D : m * k \in Nat
        BY <1>0
    <2> QED BY <1>0, <2>1, ExpStep
<1>5. c \in [D -> Int] /\ p \in [D -> Int] /\ P \in [D -> Int]
    <2>1. \A k \in D : X[k] * Y[k] \in Int /\ Y[k] * Exp(w, m * k) \in Int
        BY <1>1, <1>4
    <2>2. c \in [D -> Int] /\ P \in [D -> Int]
        BY <1>2, <2>1
    <2>3. \A k \in D : P[k] * Exp(w, m * k) \in Int
        BY <1>4, <2>2
    <2> QED BY <2>2, <2>3
<1>6. /\ g \in [D -> [D -> Int]]
      /\ \A j, k \in D : g[j][k] = Exp(v, k * j) /\ Exp(v, k * j) \in Int
    BY <1>0, TableType
<1>7. \A k \in D : Transform(n, xs, v, k) = SumFunction(Weighted(D, xs, g, k))
    BY <1>0, TransformIsWeighted
<1>8. Transform(n, P, w, m) = SumFunction(p)
    BY DEF Transform
<1>9. \A i \in D : Column(D, c, g, i) = Inner(n, w, v, Y, m, i)
    BY <1>6 DEF Column, Inner
<1> HIDE DEF v, g
<1>10. ASSUME NEW k \in D PROVE Same(p[k], c[k] * SumFunction(Weighted(D, xs, g, k)))
    <2> DEFINE x == X[k]
               y == Y[k]
               e == Exp(w, m * k)
               s == SumFunction(Weighted(D, xs, g, k))
    <2>1. x \in Int /\ y \in Int /\ e \in Int /\ p[k] = (x * y) * e /\ c[k] = y * e
        BY <1>1, <1>2, <1>4
    <2>2. Same(x, s) /\ s \in Int
        BY <1>1, <1>3, <1>6, <1>7, WeightedType
    <2> HIDE DEF x, y, e, s, p, c
    <2>3. Same((y * e) * x, (y * e) * s)
        <3>1. Same(y * e, y * e) /\ y * e \in Int
            BY <2>1 DEF Same
        <3> QED BY <2>1, <2>2, <3>1, SameMul
    <2>4. (x * y) * e = (y * e) * x
        BY <2>1
    <2> QED BY <2>1, <2>3, <2>4 DEF s
<1>11. \A i \in D : SumFunction(Column(D, c, g, i)) \in Int
    <2> HIDE DEF D, c
    <2> QED BY <1>3, <1>5, <1>6, WeightedType
<1>12. r \in [D -> Int]
    <2>1. \A i \in D : xs[i] * SumFunction(Column(D, c, g, i)) \in Int
        <3> HIDE DEF c, D
        <3> QED BY <1>1, <1>11
    <2> HIDE DEF c, D
    <2> QED BY <2>1
<1>13. Same(SumFunction(p), SumFunction(r)) /\ SumFunction(p) \in Int
    <2>1. \A i \in D : r[i] = xs[i] * SumFunction(Column(D, c, g, i))
        OBVIOUS
    <2>2. \A k \in D : Same(p[k], c[k] * SumFunction(Weighted(D, xs, g, k)))
        BY <1>10
    <2>3. xs \in [D -> Int] /\ g \in [D -> [D -> Int]]
        BY <1>1, <1>6
    <2> HIDE DEF r, p, c, D
    <2>4. DoubleSum(D, xs, c, g, p, r)
        BY <1>5, <1>12, <2>1, <2>2, <2>3 DEF DoubleSum
    <2> QED BY <1>3, <2>4, SumExchange
<1>14. ASSUME NEW i \in D PROVE t[i] \in Int /\ Same(r[i], n * t[i])
    <2> DEFINE x == xs[i]
               s == SumFunction(Column(D, c, g, i))
               h == Shifted(ys, lb, m, i)
    <2>1. r[i] = x * s /\ t[i] = x * h /\ x \in Int /\ s \in Int
        BY <1>1, <1>11 DEF Terms
    <2>2. h \in Int
        <3>1. m \in Int /\ i \in Int /\ lb \in Nat
            BY <1>0, <1>1
        <3> QED BY <1>0, <1>1, <3>1, ShiftedType
    <2>3. CASE i < la
        <3>1. i \in Nat /\ i + lb <= n
            BY <1>0, <1>1, <2>3
        <3>2. Same(SumFunction(Inner(n, w, v, Y, m, i)), n * h)
            BY <3>1, InnerSum DEF v
        <3>3. Same(s, n * h)
            BY <1>9, <3>2
        <3> HIDE DEF x, s, h, r, t
        <3>4. Same(x * s, x * (n * h))
            <4>1. Same(x, x) /\ n * h \in Int
                BY <1>0, <2>2 DEF Same
            <4> QED BY <2>1, <3>3, <4>1, SameMul
        <3>5. x * (n * h) = n * (x * h) /\ x * h \in Int
            BY <1>0, <2>1, <2>2
        <3> QED BY <2>1, <3>4, <3>5
    <2>4. CASE ~(i < la)
        <3>1. x = 0
            BY <1>1, <2>4
        <3> HIDE DEF x, s, h, r, t
        <3>2. 0 * s = 0 /\ 0 * h = 0 /\ n * 0 = 0
            BY <1>0, <2>1, <2>2
        <3> QED BY <2>1, <3>1, <3>2 DEF Same
    <2> QED BY <2>3, <2>4
<1>15. t \in [D -> Int]
    BY <1>14 DEF Terms
<1>16. SumFunction(t) \in Int /\ Same(SumFunction(r), n * SumFunction(t))
    <2>1. \A i \in D : Same(r[i], n * t[i])
        BY <1>14
    <2> HIDE DEF r, t, D
    <2> QED BY <1>0, <1>3, <1>12, <1>15, <2>1, SumScale
<1>17. Same(SumFunction(p), n * SumFunction(t))
    <2> HIDE DEF r, t, p
    <2> QED BY <1>13, <1>16 DEF Same
<1> HIDE DEF p, r
<1> QED BY <1>5, <1>8, <1>13, <1>15, <1>16, <1>17 DEF P

\* The length of a slice.
LEMMA LenLemma ==
    ASSUME NEW n \in Nat, NEW f, DOMAIN f = 0..n-1
    PROVE  Len0(f) = n
<1>1. 0 \in Int /\ n - 1 \in Int /\ (IF 0 > n - 1 THEN 0 ELSE n - 1 - 0 + 1) = n
    OBVIOUS
<1> QED BY <1>1, FS_Interval DEF Len0

\* A failure is not a slice of elements.
LEMMA NoFieldError ==
    ASSUME NEW n \in Nat \ {0}, NEW f, DOMAIN f = 0..n-1
    PROVE  f # FieldError
<1>1. 0 \in DOMAIN f /\ DOMAIN FieldError = {}
    BY DEF FieldError
<1> QED BY <1>1

\* What fft() returns.
LEMMA FFTLemma ==
    ASSUME NEW n, NEW w, IsRoot(n, w), NEW xs \in [0..n-1 -> Int], NEW inverse \in BOOLEAN
    PROVE  /\ fft(xs, w, inverse) \in [0..n-1 -> Int]
           /\ fft(xs, w, inverse) # FieldError
           /\ \A k \in 0..n-1 : Same(fft(xs, w, inverse)[k], Transform(n, xs, Base(n, w, inverse), k))
<1> DEFINE u == Base(n, w, inverse)
           R == Roots(n, w)
           f == cooleyTukey(xs, R, inverse)
<1>0. n \in Nat \ {0} /\ n \in Nat /\ n > 1 /\ IsPowerOf2(n) /\ w \in 1..q-1 /\ IsOrder(w, n)
    BY DEF IsRoot
<1>1. Len0(xs) = n
    BY <1>0, LenLemma
<1>2. twiddleFactors(n, w) = R
    <2>1. w # 1
        <3>1. 1 \in 1..n-1 /\ Exp(1, 1) = 1
            BY <1>0, ExpOfOne
        <3> QED BY <1>0, <3>1 DEF IsOrder
    <2>2. Exp(w, n) = 1
        BY <1>0 DEF IsOrder
    <2> QED BY <1>0, <2>1, <2>2 DEF twiddleFactors, Roots
<1>3. R # FieldError
    <2>1. DOMAIN R = 0..n-1
        BY DEF Roots
    <2> QED BY <1>0, <2>1, NoFieldError
<1>4. fft(xs, w, inverse) = [k \in 0..n-1 |-> f[k] % q]
    <2>1. DOMAIN xs = 0..n-1
        OBVIOUS
    <2> HIDE DEF R
    <2> QED BY <1>1, <1>2, <1>3, <2>1 DEF fft
<1>5. ASSUME NEW k \in 0..n-1
      PROVE  f[k] \in Int /\ Same(f[k], Transform(n, xs, u, k))
    <2>1. LooksUp(n, w, inverse, u) /\ Turns(n, u)
        BY BaseLemma
    <2> HIDE DEF u
    <2> QED BY <1>0, <1>1, <2>1, CooleyTukeyLemma
<1>6. ASSUME NEW k \in 0..n-1
      PROVE  f[k] % q \in Int /\ Same(f[k] % q, Transform(n, xs, u, k))
    <2>1. f[k] % q \in Int /\ Same(f[k] % q, f[k])
        BY <1>5, SameMod
    <2> QED BY <1>5, <2>1 DEF Same
<1> DEFINE t == [k \in 0..n-1 |-> f[k] % q]
<1>7. t \in [0..n-1 -> Int] /\ DOMAIN t = 0..n-1
    BY <1>6
<1>8. t # FieldError
    BY <1>0, <1>7, NoFieldError
<1> QED BY <1>4, <1>6, <1>7, <1>8

\* What the inverse transform sums.
LEMMA FFTInverseLemma ==
    ASSUME NEW n, NEW w, IsRoot(n, w), NEW xs \in [0..n-1 -> Int]
    PROVE  /\ fft(xs, w, TRUE) \in [0..n-1 -> Int]
           /\ fft(xs, w, TRUE) # FieldError
           /\ \A k \in 0..n-1 : Same(fft(xs, w, TRUE)[k], Transform(n, xs, w, k))
<1>1. Base(n, w, TRUE) = w
    BY DEF Base
<1>2. /\ fft(xs, w, TRUE) \in [0..n-1 -> Int] /\ fft(xs, w, TRUE) # FieldError
      /\ \A k \in 0..n-1 : Same(fft(xs, w, TRUE)[k], Transform(n, xs, Base(n, w, TRUE), k))
    BY FFTLemma
<1> QED BY <1>1, <1>2

\* The order of a root has an inverse.
LEMMA InverseLemma ==
    ASSUME NEW n, NEW w, IsRoot(n, w), (q - 1) % n = 0
    PROVE  MultInverse(n) \in Int /\ Same(n * MultInverse(n), 1)
<1>0. n \in Nat \ {0} /\ n \in Int /\ q - 1 \in Nat \ {0}
    BY FieldOrder DEF IsRoot
<1>1. n \in 1..q-1
    <2>1. PICK c \in Nat : q - 1 = c * n
        BY <1>0, Divisor
    <2>2. c # 0
        <3>1. 0 * n = 0
            BY <1>0
        <3> QED BY <1>0, <2>1, <3>1
    <2>3. n <= q - 1
        BY <1>0, <2>1, <2>2
    <2> QED BY <1>0, <2>3
<1>2. ~Same(n, 0)
    BY <1>1, Unit
<1>3. q - 2 \in Nat /\ (q - 2) + 1 = q - 1
    BY FieldOrder
<1> DEFINE E == Exp(n, q - 2)
           i == E % q
<1>4. E \in Int /\ Same(1, E * n) /\ ~Same(E, 0)
    <2>1. Exp(n, q - 1) = 1
        BY <1>0, <1>2, Fermat
    <2>2. Same(Exp(n, (q - 2) + 1), E * n)
        BY <1>0, <1>3, ExpNext
    <2>3. E \in Int /\ ~Same(E, 0)
        BY <1>0, <1>2, <1>3, ExpStep, ExpNotZero
    <2> HIDE DEF E
    <2> QED BY <1>3, <2>1, <2>2, <2>3
<1> HIDE DEF E
<1>5. i \in 1..q-1 /\ i \in Int /\ Same(i, E)
    BY <1>4, UnitMod, SameMod
<1> HIDE DEF i
<1>6. Mul(n, i) = 1
    <2>1. Same(n * i, n * E)
        <3>1. Same(n, n)
            BY DEF Same
        <3> QED BY <1>0, <1>4, <1>5, <3>1, SameMul
    <2>2. n * E = E * n /\ 1 % q = 1
        BY <1>0, <1>4, FieldOrder
    <2> QED BY <1>4, <2>1, <2>2 DEF Same, Mul
<1> DEFINE M == MultInverse(n)
<1>7. M \in 1..q-1 /\ Mul(n, M) = 1
    BY <1>5, <1>6 DEF MultInverse
<1>8. M \in Int
    <2> HIDE DEF M
    <2> QED BY <1>7, FieldOrder
<1>9. 1 % q = 1
    BY FieldOrder
<1> QED BY <1>7, <1>8, <1>9 DEF Same, Mul

\* The transform of a padded slice.
LEMMA PadLemma ==
    ASSUME NEW n, NEW w, IsRoot(n, w), NEW a, NEW l, Slice(a, l), l <= n
    PROVE  /\ IsTransform(n, w, zeroPad(a, n), l, FFT(zeroPad(a, n), w))
           /\ FFT(zeroPad(a, n), w) # FieldError
           /\ DOMAIN a = 0..l-1
           /\ \A i \in 0..n-1 : zeroPad(a, n)[i] = IF i \in 0..l-1 THEN a[i] ELSE 0
<1> DEFINE xs == zeroPad(a, n)
<1>0. n \in Nat /\ l \in Nat \ {0} /\ a \in [0..l-1 -> Int] /\ DOMAIN a = 0..l-1
    BY DEF IsRoot, Slice
<1>1. xs \in [0..n-1 -> Int] /\ \A i \in 0..n-1 : xs[i] = IF i \in 0..l-1 THEN a[i] ELSE 0
    BY <1>0 DEF zeroPad
<1> HIDE DEF xs
<1>2. \A j \in 0..n-1 : j >= l => xs[j] = 0
    BY <1>0, <1>1
<1>3. /\ fft(xs, w, FALSE) \in [0..n-1 -> Int] /\ fft(xs, w, FALSE) # FieldError
      /\ \A k \in 0..n-1 : Same(fft(xs, w, FALSE)[k], Transform(n, xs, Base(n, w, FALSE), k))
    BY <1>1, FFTLemma
<1>4. Base(n, w, FALSE) = Exp(w, n - 1) /\ FFT(xs, w) = fft(xs, w, FALSE)
    BY DEF Base, FFT
<1>5. IsTransform(n, w, xs, l, FFT(xs, w))
    BY <1>0, <1>1, <1>2, <1>3, <1>4 DEF IsTransform
<1> QED BY <1>0, <1>1, <1>3, <1>4, <1>5 DEF xs

\* With a root of order n, Convolve() returns the convolution.
LEMMA ConvolveLemma ==
    ASSUME NEW a, NEW b, NEW l, NEW m, Slice(a, l), Slice(b, m), NEW n, n = convolutionSize(a, b),
           NEW w, IsRoot(n, w), (q - 1) % n = 0
    PROVE  Convolve(a, b, w) = Convolution(a, b)
<1> DEFINE X == FFT(zeroPad(a, n), w)
           Y == FFT(zeroPad(b, n), w)
           P == Product(n, X, Y)
           F == fft(P, w, TRUE)
           N == MultInverse(n)
<1>0. /\ l \in Nat \ {0} /\ m \in Nat \ {0} /\ n \in Nat \ {0} /\ n \in Nat /\ n \in Int
      /\ l + m - 1 <= n /\ l <= n /\ m <= n /\ Len0(a) = l /\ Len0(b) = m /\ w \in Int
    <2>1. l \in Nat \ {0} /\ m \in Nat \ {0} /\ Len0(a) = l /\ Len0(b) = m /\ w \in Int
        BY Unit DEF Slice, IsRoot
    <2>2. n \in Nat \ {0} /\ l + m - 1 <= n
        BY SizeLemma
    <2> QED BY <2>1, <2>2
<1>1. /\ IsTransform(n, w, zeroPad(a, n), l, X) /\ X # FieldError
      /\ DOMAIN a = 0..l-1 /\ \A i \in 0..n-1 : zeroPad(a, n)[i] = IF i \in 0..l-1 THEN a[i] ELSE 0
    BY <1>0, PadLemma
<1>2. /\ IsTransform(n, w, zeroPad(b, n), m, Y) /\ Y # FieldError
      /\ DOMAIN b = 0..m-1 /\ \A i \in 0..n-1 : zeroPad(b, n)[i] = IF i \in 0..m-1 THEN b[i] ELSE 0
    BY <1>0, PadLemma
<1>3. N \in Int /\ Same(n * N, 1)
    BY InverseLemma
<1> DEFINE pr == FFTInverse(P, w)
           x == zeroPad(a, n)
           y == zeroPad(b, n)
<1>4. Convolve(a, b, w) = [i \in 0..(l + m - 2) |-> pr[i]]
    <2> HIDE DEF X, Y
    <2>1. FieldError \notin {X, Y}
        BY <1>1, <1>2
    <2> QED BY <1>0, <2>1 DEF Convolve, X, Y, Product
<1>5. DOMAIN P = 0..n-1
    BY DEF Product
<1>6. DOMAIN P = 0..n-1 /\ Len0(P) = n
    BY <1>0, <1>5, LenLemma
<1> HIDE DEF X, Y, P, x, y
<1>7. ASSUME NEW k \in 0..n-1
      PROVE  /\ P \in [0..n-1 -> Int] /\ Transform(n, P, w, k) \in Int
             /\ Terms(n, x, y, m, k) \in [0..n-1 -> Int] /\ SumFunction(Terms(n, x, y, m, k)) \in Int
             /\ Same(Transform(n, P, w, k), n * SumFunction(Terms(n, x, y, m, k)))
    BY <1>0, <1>1, <1>2, OuterSum DEF x, y, P
<1>8. P \in [0..n-1 -> Int]
    <2>1. 0 \in 0..n-1
        BY <1>0
    <2> QED BY <1>7, <2>1
<1>9. /\ F \in [0..n-1 -> Int] /\ F # FieldError
      /\ \A k \in 0..n-1 : Same(F[k], Transform(n, P, w, k))
    BY <1>8, FFTInverseLemma
<1> HIDE DEF F, N
<1>10. pr = [i \in 0..n-1 |-> Mul(F[i], N)]
    BY <1>6, <1>9 DEF FFTInverse, F, N
<1>11. ASSUME NEW k \in 0..(l + m - 2) PROVE pr[k] = Convolution(a, b)[k]
    <2>0. k \in 0..n-1
        BY <1>0
    <2> DEFINE t == Terms(n, x, y, m, k)
               s == SumFunction(t)
               f == F[k]
    <2>1. f \in Int /\ Same(f, n * s) /\ s \in Int /\ t \in [0..n-1 -> Int]
        <3> HIDE DEF t
        <3>1. Same(f, Transform(n, P, w, k)) /\ f \in Int
            BY <1>9, <2>0
        <3>2. Same(Transform(n, P, w, k), n * s) /\ s \in Int /\ t \in [0..n-1 -> Int]
            BY <1>7, <2>0 DEF t
        <3> QED BY <3>1, <3>2 DEF Same
    <2>2. pr[k] = (f * N) % q
        BY <1>10, <2>0 DEF Mul
    <2> HIDE DEF f, s, t
    <2>3. Same(f * N, s)
        <3>1. Same(f * N, (n * s) * N)
            <4>1. Same(N, N) /\ n * s \in Int
                BY <1>0, <2>1 DEF Same
            <4> QED BY <1>3, <2>1, <4>1, SameMul
        <3>2. Same((n * N) * s, 1 * s)
            <4>1. Same(s, s) /\ n * N \in Int /\ 1 \in Int
                BY <1>0, <1>3 DEF Same
            <4> QED BY <1>3, <2>1, <4>1, SameMul
        <3>3. (n * s) * N = (n * N) * s /\ 1 * s = s
            BY <1>0, <1>3, <2>1
        <3> QED BY <3>1, <3>2, <3>3 DEF Same
    <2>4. pr[k] = s % q
        BY <2>2, <2>3 DEF Same
    <2> DEFINE g == [i \in DOMAIN a |-> IF k - i \in DOMAIN b THEN a[i] * b[k-i] ELSE 0]
    <2>5. Convolution(a, b)[k] = SumFunction(g) % q
        BY <1>0 DEF Convolution
    <2>6. SumFunction(t) = SumFunction(g)
        <3> DEFINE E == 0..n-1
                   D == 0..l-1
        <3>1. IsFiniteSet(E) /\ D \in SUBSET E
            <4>1. D \in SUBSET E /\ 0 \in Int /\ n - 1 \in Int
                BY <1>0
            <4> QED BY <4>1, FS_Interval
        <3>2. g \in [D -> Int]
            <4>1. \A i \in 0..l-1 : a[i] \in Int
                BY DEF Slice
            <4>2. \A i \in 0..m-1 : b[i] \in Int
                BY DEF Slice
            <4>3. \A i \in D : (IF k - i \in DOMAIN b THEN a[i] * b[k-i] ELSE 0) \in Int
                BY <1>2, <4>1, <4>2
            <4> QED BY <1>1, <4>3
        <3>3. ASSUME NEW i \in E PROVE t[i] = IF i \in D THEN g[i] ELSE 0
            <4>1. t[i] = x[i] * Shifted(y, m, k, i)
                BY DEF t, Terms
            <4>2. Shifted(y, m, k, i) = IF k - i \in 0..m-1 THEN b[k - i] ELSE 0
                <5>1. ASSUME k - i \in 0..m-1 PROVE y[k - i] = b[k - i]
                    <6>1. k - i \in 0..n-1
                        BY <1>0, <5>1
                    <6> QED BY <1>2, <5>1, <6>1 DEF y
                <5> QED BY <5>1 DEF Shifted
            <4>3. x[i] = IF i \in D THEN a[i] ELSE 0
                BY <1>1 DEF x
            <4>4. i \in D => g[i] = IF k - i \in 0..m-1 THEN a[i] * b[k-i] ELSE 0
                BY <1>1, <1>2
            <4>5. i \in D => a[i] \in Int
                BY DEF Slice
            <4>6. k - i \in 0..m-1 => b[k - i] \in Int
                BY DEF Slice
            <4> DEFINE u == a[i]
                       v == b[k - i]
                       z == k - i \in 0..m-1
            <4> HIDE DEF D, g
            <4>7. CASE i \in D
                BY <4>1, <4>2, <4>3, <4>4, <4>5, <4>6, <4>7
            <4>8. CASE i \notin D
                BY <4>1, <4>2, <4>3, <4>6, <4>8
            <4> QED BY <4>7, <4>8
        <3>4. \A i \in E : t[i] = IF i \in D THEN g[i] ELSE 0
            BY <3>3
        <3>5. t \in [E -> Int]
            BY <2>1
        <3> HIDE DEF E, D, g
        <3> QED BY <3>1, <3>2, <3>4, <3>5, SumPad
    <2> HIDE DEF g
    <2> QED BY <2>4, <2>5, <2>6 DEF s
<1> HIDE DEF pr
<1>12. Convolution(a, b) = [k \in 0..(l + m - 2) |-> Convolution(a, b)[k]]
    BY <1>0 DEF Convolution
<1>13. [i \in 0..(l + m - 2) |-> pr[i]] = [k \in 0..(l + m - 2) |-> Convolution(a, b)[k]]
    BY <1>11
<1> QED BY <1>4, <1>12, <1>13

\* Without such a root it fails.
LEMMA ConvolveFails ==
    ASSUME NEW a, NEW b, NEW n \in Nat \ {0}, n = convolutionSize(a, b), NEW w, w = 1 \/ Exp(w, n) # 1
    PROVE  Convolve(a, b, w) = FieldError
<1>1. DOMAIN zeroPad(a, n) = 0..n-1
    BY DEF zeroPad
<1>2. Len0(zeroPad(a, n)) = n
    BY <1>1, LenLemma
<1>3. twiddleFactors(n, w) = FieldError
    BY DEF twiddleFactors
<1>4. FFT(zeroPad(a, n), w) = FieldError
    BY <1>2, <1>3 DEF FFT, fft
<1> QED BY <1>4 DEF Convolve

(***************************************************************************)
(* For slices of any length, in a field of any prime order, and for every  *)
(* root that ConvolutionRoot() may draw: Convolve() returns the            *)
(* convolution, or fails when the field has no root of that order or the   *)
(* draw was zero.                                                          *)
(***************************************************************************)
THEOREM ConvolutionTheorem ==
    ASSUME NEW a, NEW b, NEW l, NEW m, Slice(a, l), Slice(b, m), NEW root \in ConvolutionRoot(a, b)
    PROVE  ConvolvesRight(a, b, root)
<1> DEFINE n == convolutionSize(a, b)
<1>1. n \in Nat \ {0} /\ IsPowerOf2(n)
    BY SizeLemma
<1>2. root \in RootOfUnity(n, TRUE)
    BY DEF ConvolutionRoot
<1> HIDE DEF n
<1>3. \/ root = NoRoot /\ n = 1
      \/ root # NoRoot /\ (q - 1) % n # 0 /\ root = 1
      \/ root # NoRoot /\ (q - 1) % n = 0 /\ root = 0 /\ Exp(root, n) # 1
      \/ root # NoRoot /\ root # 0 /\ (q - 1) % n = 0 /\ IsRoot(n, root)
    BY <1>1, <1>2, RootLemma
<1>4. n = convolutionSize(a, b)
    BY DEF n
<1>5. CASE root = NoRoot /\ n = 1
    BY <1>4, <1>5 DEF ConvolvesRight
<1>6. CASE \/ root # NoRoot /\ (q - 1) % n # 0 /\ root = 1
           \/ root # NoRoot /\ (q - 1) % n = 0 /\ root = 0 /\ Exp(root, n) # 1
    <2>1. Convolve(a, b, root) = FieldError
        BY <1>1, <1>4, <1>6, ConvolveFails
    <2>2. root # NoRoot /\ (root = 0 \/ (q - 1) % n # 0)
        BY <1>6
    <2> QED BY <1>4, <2>1, <2>2 DEF ConvolvesRight
<1>7. CASE root # NoRoot /\ root # 0 /\ (q - 1) % n = 0 /\ IsRoot(n, root)
    <2>1. Convolve(a, b, root) = Convolution(a, b)
        BY <1>4, <1>7, ConvolveLemma
    <2>2. Cardinality({Exp(root, i) : i \in 0..n-1}) = n
        BY <1>7, RootPowers
    <2> QED BY <1>4, <1>7, <2>1, <2>2 DEF ConvolvesRight
<1> QED BY <1>3, <1>5, <1>6, <1>7

-----------------------------------------------------------------------------
(***************************************************************************)
(* The calls of Library.                                                   *)
(***************************************************************************)

\* A call has arguments that its caller may pass.
CallInv ==
    /\ libCall.op = "Convolve" =>
          /\ libCall.a \in FieldSlices /\ libCall.b \in FieldSlices
          /\ libCall.root \in ConvolutionRoot(libCall.a, libCall.b)
    /\ libCall.op = "parseCode" => libCall.code \in ByteCodes
    /\ libCall.op = "parseSrcMap" => libCall.nodes \in SrcMaps
    /\ libCall.op = "extract" => libCall.sigs \in SigRequests /\ libCall.block \in EmittedBlocks
    /\ libCall.op = "conversions" =>
          \E type \in PayloadTypes, v \in PayloadValues : libCall.payload = Payload(type, v)
    /\ libCall.op = "nullable" => libCall.n \in NullableValues
    /\ libCall.op = "Rarity" => libCall.coll \in Collections

\* Every call has arguments of its types.
LEMMA CallInvariant == LibSpec => []CallInv
<1>1. LibInit => CallInv
    BY DEF LibInit, NoCall, CallInv
<1>2. CallInv /\ [LibNext]_libCall => CallInv'
    <2> SUFFICES ASSUME CallInv, [LibNext]_libCall PROVE CallInv'
        OBVIOUS
    <2>1. CASE CallConvolve
        BY <2>1 DEF CallConvolve, CallInv
    <2>2. CASE CallParseCode
        BY <2>2 DEF CallParseCode, CallInv
    <2>3. CASE CallParseSrcMap
        BY <2>3 DEF CallParseSrcMap, CallInv
    <2>4. CASE CallExtract
        BY <2>4 DEF CallExtract, CallInv
    <2>5. CASE CallConversions
        BY <2>5 DEF CallConversions, CallInv
    <2>6. CASE CallNullable
        BY <2>6 DEF CallNullable, CallInv
    <2>7. CASE CallRarity
        BY <2>7 DEF CallRarity, CallInv
    <2>8. CASE UNCHANGED libCall
        BY <2>8 DEF CallInv
    <2> QED BY <2>1, <2>2, <2>3, <2>4, <2>5, <2>6, <2>7, <2>8 DEF LibNext
<1> QED BY <1>1, <1>2, PTL DEF LibSpec

\* Convolve() of the slices that callers pass.
LEMMA SliceLemma ==
    ASSUME NEW a \in FieldSlices, NEW b \in FieldSlices, NEW root \in ConvolutionRoot(a, b)
    PROVE  ConvolvesRight(a, b, root)
<1>1. ASSUME NEW xs \in FieldSlices PROVE Slice(xs, Len0(xs))
    BY LibraryAssumption DEF IsSlice, Slice
<1>2. Slice(a, Len0(a)) /\ Slice(b, Len0(b))
    BY <1>1
<1> QED BY <1>2, ConvolutionTheorem

\* RegisterContract() accepts no map with more nodes than the code has bytes.
LEMMA RegisterContractLemma ==
    ASSUME NEW code \in Seq(Nat), NEW nodes \in Seq(Seq(Int)),
           RegisterContractOutcome(code, nodes) = SrcMapOK
    PROVE  Len(nodes) <= Len(code)
<1> DEFINE k == Len(parseCode(code).opCodes)
<1>1. ~(Len(nodes) > k)
    BY DEF RegisterContractOutcome, SrcMapOK, SrcMapPanic
<1>2. k <= Len(code) /\ k \in Nat
    <2>1. parseCode(code) \in CodeState
        BY ParseCodeInv
    <2>2. parseCode(code).opCodes \in Seq(Nat)
        BY <2>1 DEF CodeState
    <2> QED BY <2>2, InstructionsNumberedLemma
<1> HIDE DEF k
<1> QED BY <1>1, <1>2

\* Tuples of elements are sequences of them.
LEMMA TupleLemma ==
    ASSUME NEW X, NEW x \in X, NEW y \in X
    PROVE  <<x>> \in Seq(X) /\ <<x, y>> \in Seq(X)
OBVIOUS

\* The blocks that CallExtract reads are sequences of events that were emitted.
LEMMA EmittedLemma ==
    ASSUME NEW sigs \in SigRequests, NEW block \in EmittedBlocks
    PROVE  ExtractInvertsEmit(sigs, EventRequested, block)
<1> DEFINE E == Emitted(1) \cup Emitted(2)
<1>1. ASSUME NEW k \in Nat, NEW e \in Emitted(k) PROVE IsEmitted(e)
    <2>1. PICK s \in EventSigs, c \in EventContracts :
             e = [sig |-> s, emitter |-> c, values |-> [i \in DOMAIN s.args |-> 10 * k + i]]
        BY DEF Emitted
    <2>2. s \in Sigs /\ e.sig = s /\ e.values = [i \in DOMAIN s.args |-> 10 * k + i]
        BY <2>1, LibraryAssumption
    <2>3. \A i \in DOMAIN s.args : i \in Nat
        BY <2>2 DEF Sigs
    <2> QED BY <2>2, <2>3 DEF IsEmitted
<1>2. \A e \in E : IsEmitted(e)
    BY <1>1
<1>3. block \in Seq(Seq(E))
    <2>1. PICK e \in E, f \in E : block = <<<<e>>, <<f>>>> \/ block = <<<<e, f>>>>
        BY DEF EmittedBlocks
    <2> HIDE DEF E
    <2>2. <<e>> \in Seq(E) /\ <<f>> \in Seq(E) /\ <<e, f>> \in Seq(E)
        BY TupleLemma
    <2>3. <<<<e>>, <<f>>>> \in Seq(Seq(E)) /\ <<<<e, f>>>> \in Seq(Seq(E))
        BY <2>2, TupleLemma
    <2> QED BY <2>1, <2>3
<1>4. IsList(sigs)
    <2>1. ASSUME NEW s, NEW t PROVE IsList(<<s>>) /\ IsList(<<s, t>>)
        BY DEF IsList
    <2>2. withERC721TransferSig(<<>>) = <<ERC721TransferEvent>>
        BY DEF withERC721TransferSig
    <2>3. CASE sigs = withERC721TransferSig(<<>>)
        BY <2>1, <2>2, <2>3
    <2>4. CASE sigs # withERC721TransferSig(<<>>)
        <3>1. PICK s \in EventSigs, t \in EventSigs : sigs = <<s, t>>
            BY <2>4 DEF SigRequests
        <3> QED BY <2>1, <3>1
    <2> QED BY <2>3, <2>4
<1> HIDE DEF E
<1> QED BY <1>2, <1>3, <1>4, ExtractLemma

(***************************************************************************)
(* The functions of galois, solcover, eth and erc721 return what they      *)
(* promise: Convolve() the convolution, parseCode() and parseSrcMap() what *)
(* solc wrote, the nullable types the value that they marshalled unless it *)
(* is a null in JSON, Rarity() a distribution.                             *)
(***************************************************************************)
THEOREM FunctionsRight == LibSpec => []FunctionsAreRight
<1>1. CallInv => FunctionsAreRight
    <2> SUFFICES ASSUME CallInv PROVE FunctionsAreRight
        OBVIOUS
    <2>1. libCall.op = "Convolve" => ConvolvesRight(libCall.a, libCall.b, libCall.root)
        BY SliceLemma DEF CallInv
    <2>2. libCall.op = "parseCode" => InstructionsNumbered(libCall.code)
        BY LibraryAssumption, InstructionsNumberedLemma DEF CallInv
    <2>3. ASSUME libCall.op = "parseSrcMap"
          PROVE  /\ SrcMapDecompressed(libCall.nodes)
                 /\ \A code \in {<<0>>, <<1, 0, 2>>} :
                       RegisterContractOutcome(code, libCall.nodes) = SrcMapOK =>
                           Len(libCall.nodes) <= Len(code)
        <3>1. libCall.nodes \in Seq(Seq(Int))
            BY <2>3, LibraryAssumption DEF CallInv
        <3>2. \A code \in {<<0>>, <<1, 0, 2>>} : code \in Seq(Nat)
            <4>1. <<0>> \in Seq(Nat)
                OBVIOUS
            <4>2. <<1, 0, 2>> \in Seq(Nat)
                OBVIOUS
            <4> QED BY <4>1, <4>2
        <3>3. SrcMapDecompressed(libCall.nodes)
            BY <3>1, SrcMapDecompressedLemma
        <3> QED BY <3>1, <3>2, <3>3, RegisterContractLemma
    <2>4. libCall.op = "nullable" => NullableRoundTrips(libCall.kind, libCall.n)
        <3>1. ASSUME libCall.n \in NullableValues PROVE NullableRoundTrips(libCall.kind, libCall.n)
            <4>1. \/ libCall.n = NullableValue(0, FALSE)
                  \/ \E v \in PayloadValues : libCall.n = NullableValue(v, TRUE)
                BY <3>1 DEF NullableValues
            <4>2. CASE libCall.n = NullableValue(0, FALSE)
                <5>1. NullableRoundTrips(libCall.kind, NullableValue(0, FALSE))
                    BY NullableLemma
                <5> QED BY <4>2, <5>1
            <4>3. CASE \E v \in PayloadValues : libCall.n = NullableValue(v, TRUE)
                <5>1. PICK v \in Nat : libCall.n = NullableValue(v, TRUE)
                    BY <4>3, LibraryAssumption
                <5>2. NullableRoundTrips(libCall.kind, NullableValue(v, TRUE))
                    BY NullableLemma
                <5> QED BY <5>1, <5>2
            <4> QED BY <4>1, <4>2, <4>3
        <3> QED BY <3>1 DEF CallInv
    <2>5. libCall.op = "Rarity" => RarityIsDistribution(libCall.coll)
        BY LibraryAssumption, RarityLemma DEF CallInv
    <2> QED BY <2>1, <2>2, <2>3, <2>4, <2>5 DEF FunctionsAreRight
<1> QED BY <1>1, CallInvariant, PTL

(***************************************************************************)
(* The events that the Hydrant service sends are those that the requested  *)
(* contracts emitted, and proto/eth loses nothing of their arguments.      *)
(***************************************************************************)
THEOREM EventsEmitted == LibSpec => []EventsAreEmitted
<1>1. CallInv => EventsAreEmitted
    <2> SUFFICES ASSUME CallInv PROVE EventsAreEmitted
        OBVIOUS
    <2>1. libCall.op = "extract" =>
              ExtractInvertsEmit(libCall.sigs, EventRequested, libCall.block)
        BY EmittedLemma DEF CallInv
    <2>2. ASSUME libCall.op = "conversions" PROVE ConversionsAgree(libCall.payload)
        <3>1. PICK type \in PayloadTypes, v \in Nat : libCall.payload = Payload(type, v)
            BY <2>2, LibraryAssumption DEF CallInv
        <3>2. ConversionsAgree(Payload(type, v))
            BY ConversionsLemma
        <3> QED BY <3>1, <3>2
    <2> QED BY <2>1, <2>2 DEF EventsAreEmitted
<1> QED BY <1>1, CallInvariant, PTL

=============================================================================
