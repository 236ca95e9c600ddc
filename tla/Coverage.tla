------------------------------ MODULE Coverage ------------------------------
(***************************************************************************)
(* The registry of go/solcover and its coverageCollector, driven by the    *)
(* transactions of an EVM.  A contract stands for its compiled code; the   *)
(* Location of every program counter is given, as read by SourceMap.  Of a *)
(* count of line hits only whether it is zero is kept.                     *)
(*                                                                         *)
(* codeAt and frames are the truth about the EVM (external), against which *)
(* the collector's view is compared: covExecuted are the lines that ran,   *)
(* covOwed those of them that a report should list, being of known code,   *)
(* which matches no contract but its own; covSpurious and covClashed       *)
(* record the deviations.                                                  *)
(***************************************************************************)
EXTENDS Integers, Sequences, FiniteSets

CONSTANTS
    CovFiles, CovExternal,  \* source files, and those flagged isExternal
    CovContracts,           \* compiled contracts
    WithLibrary,            \* the contracts with a library placeholder
    CovEmbeds,              \* per contract: those whose creation code its own contains
    CovSources,             \* the sourceList of every contract
    CovLocations,           \* per contract and pc, a record of idx and line
    CovAddresses,
    MaxFrames,              \* bound on nested calls
    MaxEvents               \* bound on the calls to the collector

NoContract == "noContract"
NoSource == "noSource"      \* the empty Location.Source

ASSUME CovAssumption ==
    /\ CovExternal \subseteq CovFiles /\ WithLibrary \subseteq CovContracts
    /\ \A c \in CovContracts : CovEmbeds[c] \subseteq CovContracts
    /\ \A c \in CovContracts : \A pc \in DOMAIN CovLocations[c] :
          CovLocations[c][pc].idx \in 0..Len(CovSources[c])
    /\ NoContract \notin CovContracts

VARIABLES
    sourceCode,         \* the registered files
    contractsByName,    \* the registered contracts
    deployedContracts,
    collector,          \* "none", "on" or "panicked"
    lineHits,           \* files: with an entry; keys: lines listed; hit: not zero
    contracts,          \* the collector's stack of addresses
    lastLoc,            \* its last Location
    covReport,          \* the lines last returned by lcovTraceFile()
    codeAt, frames,
    covEvents,          \* calls to the collector so far
    covExecuted, covOwed, covSpurious, covClashed

registryVars == <<sourceCode, contractsByName>>
evmVars == <<codeAt, frames>>
truthVars == <<evmVars, covEvents>>
covGhosts == <<covExecuted, covOwed, covSpurious, covClashed>>
covVars == <<registryVars, deployedContracts, collector, lineHits, contracts, lastLoc,
             covReport, truthVars, covGhosts>>

NoCode == [contract |-> NoContract, known |-> FALSE]

Top(s) == s[Len(s)]

\* Location.Source, which is empty when the index is that of no file.
CovSource(c, pc) ==
    LET idx == CovLocations[c][pc].idx
    IN IF idx < Len(CovSources[c]) THEN CovSources[c][idx + 1] ELSE NoSource
CovLine(c, pc) == CovLocations[c][pc].line
FilesOf(c) == {CovSource(c, pc) : pc \in DOMAIN CovLocations[c]} \ {NoSource}
LinesOf(c) == {<<CovSource(c, pc), CovLine(c, pc)>> :
                  pc \in {p \in DOMAIN CovLocations[c] : CovSource(c, p) # NoSource}}

CovInit ==
    /\ sourceCode = {} /\ contractsByName = {}
    /\ deployedContracts = [a \in CovAddresses |-> NoContract]
    /\ collector = "none"
    /\ lineHits = [files |-> {}, keys |-> {}, hit |-> {}]
    /\ contracts = <<>>
    /\ lastLoc = [source |-> NoSource, idx |-> 0, line |-> 0]
    /\ covReport = {}
    /\ codeAt = [a \in CovAddresses |-> NoCode]
    /\ frames = <<>> /\ covEvents = 0
    /\ covExecuted = {} /\ covOwed = {} /\ covSpurious = {} /\ covClashed = {}

RegisterSourceCode(f) ==
    /\ sourceCode' = sourceCode \cup {f}
    /\ UNCHANGED <<contractsByName, deployedContracts, collector, lineHits, contracts,
                   lastLoc, covReport, truthVars, covGhosts>>

\* RegisterContract(), after whichever way it is matched later; with a file
\* that is not registered it panics instead.
RegisterContract(c) ==
    /\ FilesOf(c) \subseteq sourceCode
    /\ contractsByName' = contractsByName \cup {c}
    /\ UNCHANGED <<sourceCode, deployedContracts, collector, lineHits, contracts,
                   lastLoc, covReport, truthVars, covGhosts>>

\* Collector()
Collector ==
    /\ collector = "none"
    /\ collector' = "on"
    /\ lineHits' = [files |-> sourceCode,
                    keys |-> UNION {LinesOf(c) : c \in contractsByName},
                    hit |-> {}]
    /\ UNCHANGED <<registryVars, deployedContracts, contracts, lastLoc, covReport,
                   truthVars, covGhosts>>

\* lcovTraceFile() while nothing is being traced.
lcovTraceFile ==
    /\ collector = "on" /\ frames = <<>>
    /\ covReport' = {l \in lineHits.hit : l[1] \in sourceCode \ CovExternal}
    /\ UNCHANGED <<registryVars, deployedContracts, collector, lineHits, contracts,
                   lastLoc, truthVars, covGhosts>>

(***************************************************************************)
(* What the creation code of c may be taken for: contractsByHash finds it  *)
(* unless constructor arguments follow; contractMatchers are searched for  *)
(* anywhere in it, in any order, and stand for contracts with a library.   *)
(* Arguments hold no creation code.                                        *)
(***************************************************************************)
Matches(c, args) ==
    IF c \in contractsByName \ WithLibrary /\ ~args THEN {c}
    ELSE contractsByName \cap WithLibrary \cap ({c} \cup CovEmbeds[c])

\* RegisterDeployedContract(): an address is only ever added.
RegisterDeployedContract(a, c, args) ==
    \/ /\ Matches(c, args) = {}
       /\ UNCHANGED deployedContracts
    \/ \E m \in Matches(c, args) :
          deployedContracts' = [deployedContracts EXCEPT ![a] = m]

Event == covEvents < MaxEvents /\ covEvents' = covEvents + 1

Frame(a, code, creating) ==
    [addr |-> a, contract |-> code.contract, known |-> code.known, creating |-> creating]

\* CaptureStart() of a transaction that creates c at an unused address.
CaptureStartCreate(a, c, args) ==
    /\ Event
    /\ collector = "on" /\ frames = <<>> /\ codeAt[a].contract = NoContract
    /\ codeAt' = [codeAt EXCEPT ![a] = [contract |-> c, known |-> Matches(c, args) = {c}]]
    /\ frames' = <<Frame(a, codeAt'[a], TRUE)>>
    /\ RegisterDeployedContract(a, c, args)
    /\ contracts' = <<a>>
    /\ UNCHANGED <<registryVars, collector, lineHits, lastLoc, covReport, covGhosts>>

\* CaptureStart() of a call.
CaptureStartCall(a) ==
    /\ Event
    /\ collector = "on" /\ frames = <<>> /\ codeAt[a].contract # NoContract
    /\ frames' = <<Frame(a, codeAt[a], FALSE)>>
    /\ contracts' = <<a>>
    /\ UNCHANGED <<registryVars, deployedContracts, collector, lineHits, lastLoc,
                   covReport, codeAt, covGhosts>>

\* CaptureEnter() of a call.
CaptureEnterCall(a) ==
    /\ Event
    /\ collector = "on" /\ frames # <<>> /\ Len(frames) < MaxFrames
    /\ codeAt[a].contract # NoContract
    /\ \A i \in DOMAIN frames : frames[i].creating => frames[i].addr # a
    /\ frames' = Append(frames, Frame(a, codeAt[a], FALSE))
    /\ contracts' = Append(contracts, a)
    /\ UNCHANGED <<registryVars, deployedContracts, collector, lineHits, lastLoc,
                   covReport, codeAt, covGhosts>>

\* CaptureEnter() of a contract that creates another, which is not registered.
CaptureEnterCreate(a, c) ==
    /\ Event
    /\ collector = "on" /\ frames # <<>> /\ Len(frames) < MaxFrames
    /\ codeAt[a].contract = NoContract
    /\ codeAt' = [codeAt EXCEPT ![a] = [contract |-> c, known |-> FALSE]]
    /\ frames' = Append(frames, Frame(a, codeAt'[a], TRUE))
    /\ contracts' = Append(contracts, a)
    /\ UNCHANGED <<registryVars, deployedContracts, collector, lineHits, lastLoc,
                   covReport, covGhosts>>

\* CaptureExit(); CaptureEnd() of the outermost frame leaves the stack alone.
\* A creation that is reverted leaves no code, but stays registered.
CaptureExit ==
    /\ collector = "on" /\ frames # <<>>
    /\ frames' = SubSeq(frames, 1, Len(frames) - 1)
    /\ contracts' = IF Len(frames) = 1 THEN contracts
                    ELSE SubSeq(contracts, 1, Len(contracts) - 1)
    /\ \/ UNCHANGED codeAt
       \/ /\ Top(frames).creating
          /\ codeAt' = [codeAt EXCEPT ![Top(frames).addr] = NoCode]
    /\ UNCHANGED <<covEvents, registryVars, deployedContracts, collector, lineHits, lastLoc,
                   covReport, covGhosts>>

\* Mutant of TracedContract: no stack, always the transaction's contract.
TracedContractBottom == deployedContracts[contracts[1]]

\* Source(): what is deployed where the collector believes to be.
TracedContract == deployedContracts[Top(contracts)]

\* The ghosts at a hit, or at a missed one, of <<file, line>>.
Observed(pc, hit, clashed) ==
    LET top == Top(frames)
        truth == IF /\ ~top.creating
                    /\ pc \in DOMAIN CovLocations[top.contract]
                    /\ CovSource(top.contract, pc) # NoSource
                    /\ CovLine(top.contract, pc) > 0
                 THEN {<<CovSource(top.contract, pc), CovLine(top.contract, pc)>>} ELSE {}
    IN /\ covExecuted' = covExecuted \cup truth
       /\ covOwed' = IF top.known THEN covOwed \cup truth ELSE covOwed
       /\ covSpurious' = IF top.creating \/ deployedContracts[top.addr] # top.contract
                         THEN covSpurious \cup hit ELSE covSpurious
       /\ covClashed' = covClashed \cup clashed

\* CaptureState() at the end of an instruction of the innermost frame.
CaptureState(pc) ==
    /\ Event
    /\ collector = "on" /\ frames # <<>>
    /\ LET c == TracedContract
           located == c # NoContract /\ pc \in DOMAIN CovLocations[c]
                      /\ CovSource(c, pc) # NoSource /\ CovLine(c, pc) > 0
           loc == [source |-> CovSource(c, pc), idx |-> CovLocations[c][pc].idx,
                   line |-> CovLine(c, pc)]
           key == {<<loc.source, loc.line>>}
           fresh == loc.idx # lastLoc.idx \/ loc.line # lastLoc.line
       IN \/ /\ ~located
             /\ Observed(pc, {}, {})
             /\ UNCHANGED <<lineHits, lastLoc, collector>>
          \/ /\ located /\ fresh /\ loc.source \in lineHits.files
             /\ lineHits' = [lineHits EXCEPT !.keys = @ \cup key, !.hit = @ \cup key]
             /\ lastLoc' = loc
             /\ Observed(pc, key, {})
             /\ UNCHANGED collector
          \/ /\ located /\ fresh /\ loc.source \notin lineHits.files
             /\ collector' = "panicked"     \* assignment to an entry of a nil map
             /\ UNCHANGED <<lineHits, lastLoc, covGhosts>>
          \/ /\ located /\ ~fresh
             /\ lastLoc' = loc
             /\ Observed(pc, {}, IF loc.source = lastLoc.source THEN {} ELSE key)
             /\ UNCHANGED <<lineHits, collector>>
    /\ UNCHANGED <<registryVars, deployedContracts, contracts, covReport, evmVars>>

\* The next test starts on a new simulated backend; the registry is global.
NewBackend ==
    /\ frames = <<>> /\ collector = "on"
    /\ codeAt' = [a \in CovAddresses |-> NoCode]
    /\ UNCHANGED <<covEvents, registryVars, deployedContracts, collector, lineHits, contracts, lastLoc,
                   covReport, frames, covGhosts>>

CovPCs == UNION {DOMAIN CovLocations[c] : c \in CovContracts}

CovNext ==
    \/ \E f \in CovFiles : RegisterSourceCode(f)
    \/ \E c \in CovContracts : RegisterContract(c)
    \/ Collector \/ lcovTraceFile \/ NewBackend
    \/ \E a \in CovAddresses, c \in CovContracts :
          \/ \E args \in BOOLEAN : CaptureStartCreate(a, c, args)
          \/ CaptureEnterCreate(a, c)
    \/ \E a \in CovAddresses : CaptureStartCall(a) \/ CaptureEnterCall(a)
    \/ CaptureExit
    \/ \E pc \in CovPCs : CaptureState(pc)

CovSpec == CovInit /\ [][CovNext]_covVars

-----------------------------------------------------------------------------

HitsAreExecuted == lineHits.hit \subseteq covExecuted \cup covSpurious
ExecutedAreHits == covOwed \subseteq lineHits.hit \cup covClashed
ReportsAreHits == covReport \subseteq {l \in lineHits.hit : l[1] \notin CovExternal}
CollectorPanicsOnlyLate == collector = "panicked" => sourceCode \ lineHits.files # {}

(***************************************************************************)
(* A line counts as hit exactly when an instruction of it was executed by  *)
(* a contract whose creation code matches it and no other registered       *)
(* contract, however calls between contracts nest and whichever backends   *)
(* came before.  Known exceptions: code that contains that of a registered *)
(* contract with a library may be taken for it, constructors run on the    *)
(* runtime's source map, an address of an earlier backend keeps its        *)
(* contract when the new one is not matched, and a line is missed when the *)
(* last instruction had the same line of another contract's file with the  *)
(* same index.  Reports list nothing else and no external file, and only a *)
(* file registered after Collector() was called makes the collector panic. *)
(***************************************************************************)
CoverageIsExact ==
    /\ collector = "on" => HitsAreExecuted /\ ExecutedAreHits
    /\ ReportsAreHits
    /\ CollectorPanicsOnlyLate

=============================================================================
