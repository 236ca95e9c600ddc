----------------------------- MODULE SourceMap -----------------------------
(***************************************************************************)
(* How go/solcover reads the output of solc: byte code into instruction    *)
(* numbers, and a compressed source map into one Location per instruction. *)
(* A byte is the number of bytes that it pushes (0 for an op code that     *)
(* pushes none; push data are bytes as well), and a field of a source-map  *)
(* node is a number, or Blank where solc left it empty.                    *)
(***************************************************************************)
EXTENDS Integers, Sequences

CONSTANTS
    SourceList,     \* the sequence of files given to RegisterContract()
    FileLen,        \* the length of every file registered with RegisterSourceCode()
    LineLen         \* the length of a line, the same for all lines

NoFile == "none"                \* the source of a Location without one

ASSUME SourceMapAssumption ==
    /\ SourceList \in Seq(STRING) /\ \A i \in DOMAIN SourceList : SourceList[i] # NoFile
    /\ \A f \in DOMAIN FileLen : FileLen[f] \in Nat
    /\ LineLen \in Nat \ {0}

Blank == -2
nMappingFields == 5             \* s:l:f:j:m

SrcMapError == "error"          \* parseSrcMap() returns an error
SrcMapPanic == "panic"          \* parseSrcMap() panics
SrcMapOK == "ok"

NextPC(code, pc) == pc + 1 + code[pc + 1]

\* The loop of parseCode() at a byte: the next instruction, or what a push skips.
ParseByte(code, s, at) ==
    IF at # s.pc THEN s
    ELSE [pc |-> NextPC(code, at),
          instructions |-> [p \in DOMAIN s.instructions \cup {at} |->
                               IF p = at THEN Len(s.opCodes) ELSE s.instructions[p]],
          opCodes |-> Append(s.opCodes, code[at + 1])]

parseCode(code) ==
    LET start == [pc |-> 0, instructions |-> [p \in {} |-> 0], opCodes |-> <<>>]
        loop[n \in 0..Len(code)] ==
            IF n = 0 THEN start ELSE ParseByte(code, loop[n-1], n - 1)
    IN loop[Len(code)]

\* LineAndColumn() of the file's mapper, which counts from 0.
LineOf(offset) == offset \div LineLen
ColOf(offset) == offset % LineLen

NoLocation == [source |-> NoFile, line |-> 0, col |-> 0, endLine |-> 0, endCol |-> 0]

\* The Location of a node with a file, in a mapper that is not empty.  Both
\* ends are keys of one map: the later one wins when the length is zero, and
\* then the start is not set.
Located(file, start, length) ==
    [source |-> file,
     line |-> IF length = 0 THEN 0 ELSE LineOf(start) + 1,
     col |-> IF length = 0 THEN 0 ELSE ColOf(start) + 1,
     endLine |-> LineOf(start + length) + 1,
     endCol |-> ColOf(start + length) + 1]

\* locationFromNode(): how it ends, and the Location.
locationFromNode(node) ==
    LET start == node[1]
        length == node[2]
        fileIdx == node[3]
        external == start < 0 \/ length < 0 \/ fileIdx < 0 \/ fileIdx >= Len(SourceList)
        file == SourceList[fileIdx + 1]
        end(how, loc) == [how |-> how, loc |-> loc]
    IN IF Blank \in {node[1], node[2], node[3], node[5]} THEN end(SrcMapError, NoLocation)
       ELSE IF external THEN end(SrcMapOK, NoLocation)
       ELSE IF file \notin DOMAIN FileLen THEN end(SrcMapPanic, NoLocation)
       ELSE IF FileLen[file] = 0 THEN end(SrcMapOK, [NoLocation EXCEPT !.source = file])
       ELSE IF start + length > FileLen[file] THEN end(SrcMapError, NoLocation)
       ELSE end(SrcMapOK, Located(file, start, length))

\* copy(): a node with fewer fields leaves the rest of curr as it was.
CopyNode(curr, node) ==
    [j \in 1..nMappingFields |-> IF j <= Len(node) THEN node[j] ELSE curr[j]]

\* Mutant of Decompressed: blank fields stay blank in `last'.
DecompressedForgetful(last, copied) ==
    [curr |-> [j \in 1..nMappingFields |-> IF copied[j] # Blank THEN copied[j] ELSE last[j]],
     last |-> copied]

\* The two nodes after the inner loop of parseSrcMap().
Decompressed(last, copied) ==
    LET node == [j \in 1..nMappingFields |-> IF copied[j] # Blank THEN copied[j] ELSE last[j]]
    IN [curr |-> node, last |-> node]

\* The loop of parseSrcMap() at a node; it returns at the first that fails.
ParseNode(s, node) ==
    LET d == Decompressed(s.last, CopyNode(s.curr, node))
        r == locationFromNode(d.curr)
    IN IF s.how # SrcMapOK THEN s
       ELSE [how |-> r.how, last |-> d.last, curr |-> d.curr,
             locations |-> Append(s.locations, r.loc)]

parseSrcMap(nodes) ==
    LET zero == [j \in 1..nMappingFields |-> Blank]
        start == [how |-> SrcMapOK, last |-> zero, curr |-> zero, locations |-> <<>>]
        loop[i \in 0..Len(nodes)] ==
            IF i = 0 THEN start ELSE ParseNode(loop[i-1], nodes[i])
    IN loop[Len(nodes)]

\* RegisterContract() gives every Location its op code: it panics when the
\* source map has more nodes than the code has instructions.
RegisterContractOutcome(code, nodes) ==
    LET m == parseSrcMap(nodes) IN
    IF m.how # SrcMapOK THEN SrcMapPanic
    ELSE IF Len(nodes) > Len(parseCode(code).opCodes) THEN SrcMapPanic
    ELSE SrcMapOK

-----------------------------------------------------------------------------

\* The value of field j of node i: the last one written by then.
FieldOf(nodes, i, j) ==
    LET written == {k \in 1..i : j <= Len(nodes[k]) /\ nodes[k][j] # Blank}
    IN IF written = {} THEN Blank
       ELSE nodes[CHOOSE k \in written : \A l \in written : l <= k][j]

(***************************************************************************)
(* The comments on pcToInstruction and parseCode(): the program counters   *)
(* of instructions are 0 and, after each instruction, the first byte that  *)
(* it does not push; they are numbered in order and carry their op codes.  *)
(* A push at the end of the code may lack data.                            *)
(***************************************************************************)
InstructionsNumbered(code) ==
    LET p == parseCode(code)
        pcs == DOMAIN p.instructions
        NoneBetween(a, b) == \A m \in pcs : ~(a < m /\ m < b)
    IN /\ Len(code) > 0 => 0 \in pcs /\ p.instructions[0] = 0
       /\ \A pc \in pcs :
            LET next == pc + 1 + code[pc + 1] IN
            /\ p.opCodes[p.instructions[pc] + 1] = code[pc + 1]
            /\ NoneBetween(pc, next)
            /\ next < Len(code) => next \in pcs /\ p.instructions[next] = p.instructions[pc] + 1

(***************************************************************************)
(* The comment on srcMapNode: "empty values mean that the previous value   *)
(* from the last node must be copied across", across any number of nodes.  *)
(* Offsets are translated to the 1-indexed line and column that the        *)
(* comment on Location promises, except that a range of length 0 has no    *)
(* line; only an unregistered file makes parseSrcMap() panic, and only a   *)
(* field that no node has given or a range beyond its file is an error.    *)
(***************************************************************************)
SrcMapDecompressed(nodes) ==
    LET r == parseSrcMap(nodes)
        f(i, j) == FieldOf(nodes, i, j)
        file(i) == SourceList[f(i, 3) + 1]
        hasFile(i) == f(i, 1) >= 0 /\ f(i, 2) >= 0 /\ f(i, 3) \in 0..Len(SourceList)-1
    IN /\ r.how = SrcMapPanic =>
            \E i \in DOMAIN nodes : hasFile(i) /\ file(i) \notin DOMAIN FileLen
       /\ r.how = SrcMapError =>
            \E i \in DOMAIN nodes :
                \/ \E j \in {1, 2, 3, 5} : f(i, j) = Blank
                \/ /\ hasFile(i) /\ file(i) \in DOMAIN FileLen
                   /\ 0 < FileLen[file(i)] /\ FileLen[file(i)] < f(i, 1) + f(i, 2)
       /\ r.how = SrcMapOK =>
            \A i \in DOMAIN nodes :
                LET loc == r.locations[i] IN
                /\ (loc.source # NoFile) <=> hasFile(i)
                /\ hasFile(i) => loc.source = file(i)
                /\ hasFile(i) /\ FileLen[file(i)] > 0 =>
                     /\ f(i, 2) > 0 =>
                          (loc.line - 1) * LineLen + loc.col - 1 = f(i, 1)
                     /\ f(i, 2) = 0 => loc.line = 0
                     /\ (loc.endLine - 1) * LineLen + loc.endCol - 1 = f(i, 1) + f(i, 2)
=============================================================================
