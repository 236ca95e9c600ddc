---------------------------- MODULE EntropyOracle ----------------------------
(***************************************************************************)
(* contracts/entropy: the on-chain entropy oracle, EntropyOracle.sol with  *)
(* its extension EntropyOracleV2.sol, at the granularity of transactions.  *)
(* A call that reverts changes nothing and is not a step.                  *)
(*                                                                         *)
(* The entropy of a block is the hash of the signature of its number by    *)
(* the oracle's signer; a hash stands for its signature here, and a        *)
(* signature is its signer and a salt, as a signer may sign one digest in  *)
(* more than one way.  A callback is a consumer contract and an id.  The   *)
(* order in which an EnumerableSet hands out its elements is left open, so *)
(* "the first max callbacks" may be any; EntropyTrigger has the order and  *)
(* the single calls.                                                       *)
(***************************************************************************)
EXTENDS Naturals, Functions

CONSTANTS
    MaxBlock,         \* bound: the chain is explored up to this height
    Callbacks,        \* consumer and callbackId pairs
    Requesters,       \* the callbacks whose consumer has ENTROPY_REQUESTER_ROLE
    OracleSigners,          \* addresses the steerer may set as signer
    Salts,            \* the ways of signing the same digest
    None,             \* bytes32(0), address(0)
    EntropyRequested,        \* bytes32(1)
    MaxRegistrations  \* bound: registrations of callbacks

Blocks == 1..MaxBlock
Signatures == OracleSigners \X Salts

ASSUME EntropyOracleAssumption ==
    /\ MaxBlock \in Nat
    /\ MaxRegistrations \in Nat
    /\ Requesters \subseteq Callbacks
    /\ {None, EntropyRequested} \cap Signatures = {}
    /\ None # EntropyRequested
    /\ None \notin OracleSigners

VARIABLES
    number,      \* block.number
    signer,      \* EntropyOracle.signer
    entropyOf,   \* EntropyOracle._blockEntropy
    callbacksOf,   \* EntropyOracleV2._callbacks
    override,    \* whether v1Override is set
    v1Entropy,   \* the blockEntropy of the V1 oracle that may become the override
    registered,  \* history: times each callback was added for each block
    triggered,   \* history: successful calls of it made by _triggerCallbacks
    removed,     \* history: times it was removed by the steerer
    delivered    \* history: the entropy passed to consumers for each block

contractVars == <<signer, entropyOf, callbacksOf, override>>
historyVars == <<registered, triggered, removed, delivered>>
oracleVars == <<number, contractVars, v1Entropy, historyVars>>

Counts == [Blocks -> [Callbacks -> Nat]]

OracleTypeOK ==
    /\ number \in 1..(MaxBlock + 1)
    /\ signer \in OracleSigners \cup {None}
    /\ entropyOf \in [Blocks -> Signatures \cup {None, EntropyRequested}]
    /\ callbacksOf \in [Blocks -> SUBSET Callbacks]
    /\ override \in BOOLEAN
    /\ v1Entropy \in [Blocks -> Signatures \cup {None}]
    /\ registered \in Counts
    /\ triggered \in Counts
    /\ removed \in Counts
    /\ delivered \in [Blocks -> SUBSET Signatures]

OracleInit ==
    /\ number = 1
    /\ signer = None
    /\ entropyOf = [b \in Blocks |-> None]
    /\ callbacksOf = [b \in Blocks |-> {}]
    /\ override = FALSE
    /\ v1Entropy = [b \in Blocks |-> None]
    /\ registered = [b \in Blocks |-> [c \in Callbacks |-> 0]]
    /\ triggered = [b \in Blocks |-> [c \in Callbacks |-> 0]]
    /\ removed = [b \in Blocks |-> [c \in Callbacks |-> 0]]
    /\ delivered = [b \in Blocks |-> {}]

-----------------------------------------------------------------------------

\* EntropyOracle.blockEntropy: 0 unless entropy has been provided.
OwnEntropy(b) == IF entropyOf[b] = EntropyRequested THEN None ELSE entropyOf[b]

\* Mutant of BlockEntropy: the override hides what the oracle itself has.
BlockEntropyOverrideOnly(b) == IF override THEN v1Entropy[b] ELSE OwnEntropy(b)

\* EntropyOracleV2.blockEntropy: that of the override if it has any.
BlockEntropy(b) ==
    IF override /\ v1Entropy[b] # None THEN v1Entropy[b] ELSE OwnEntropy(b)

\* Adds to a history the given number for each callback of a block.
Count(history, b, cs) ==
    [history EXCEPT ![b] = [c \in Callbacks |-> IF c \in cs THEN @[c] + 1 ELSE @[c]]]

-----------------------------------------------------------------------------

\* requestEntropy(b), from an address with the role.
RequestEntropy(b) ==
    /\ entropyOf[b] = None
    /\ entropyOf' = [entropyOf EXCEPT ![b] = EntropyRequested]
    /\ UNCHANGED <<number, signer, callbacksOf, override, v1Entropy, historyVars>>

\* requestEntropyWithCallback of a block without entropy.  Adding a callback
\* that is in the set already changes nothing.
RegisterCallback(b, c) ==
    /\ BlockEntropy(b) = None
    /\ c \in Requesters
    /\ c \notin callbacksOf[b]
    /\ SumFunction([x \in Blocks |-> SumFunction(registered[x])]) < MaxRegistrations
    /\ entropyOf' = [entropyOf EXCEPT ![b] = IF @ = None THEN EntropyRequested ELSE @]
    /\ callbacksOf' = [callbacksOf EXCEPT ![b] = @ \cup {c}]
    /\ registered' = Count(registered, b, {c})
    /\ UNCHANGED <<number, signer, override, v1Entropy, triggered, removed, delivered>>

\* requestEntropyWithCallback of a block with entropy: the consumer is called
\* back at once, whoever it is.
CallbackDirectly(b, c) ==
    /\ BlockEntropy(b) # None
    /\ delivered' = [delivered EXCEPT ![b] = @ \cup {BlockEntropy(b)}]
    /\ UNCHANGED <<number, contractVars, v1Entropy, registered, triggered, removed>>

\* Mutant of TriggerCallbacks: callbacks that revert are removed as well.
TriggerCallbacksOnce(bs, entropy, ok) ==
    /\ \A b \in bs : ok[b] \subseteq callbacksOf[b]
    /\ callbacksOf' = [b \in Blocks |-> IF b \in bs THEN {} ELSE callbacksOf[b]]
    /\ triggered' = [b \in Blocks |-> [c \in Callbacks |->
                        IF b \in bs /\ c \in ok[b] THEN triggered[b][c] + 1
                                                   ELSE triggered[b][c]]]
    /\ delivered' = [b \in Blocks |->
                        IF b \in bs /\ ok[b] # {} THEN delivered[b] \cup {entropy[b]}
                                                  ELSE delivered[b]]
    /\ UNCHANGED <<number, signer, override, v1Entropy, registered, removed>>

(***************************************************************************)
(* _triggerCallbacks for each of the blocks bs.  The callbacks in ok[b]    *)
(* are called with entropy[b], return and are removed; the others are      *)
(* beyond the caller's maximum, or revert, and stay.                       *)
(***************************************************************************)
TriggerCallbacks(bs, entropy, ok) ==
    /\ \A b \in bs : ok[b] \subseteq callbacksOf[b]
    /\ callbacksOf' = [b \in Blocks |->
                        IF b \in bs THEN callbacksOf[b] \ ok[b] ELSE callbacksOf[b]]
    /\ triggered' = [b \in Blocks |-> [c \in Callbacks |->
                        IF b \in bs /\ c \in ok[b] THEN triggered[b][c] + 1
                                                   ELSE triggered[b][c]]]
    /\ delivered' = [b \in Blocks |->
                        IF b \in bs /\ ok[b] # {} THEN delivered[b] \cup {entropy[b]}
                                                  ELSE delivered[b]]
    /\ UNCHANGED <<number, signer, override, v1Entropy, registered, removed>>

\* Mutant of ProvideEntropy: the current block is accepted.
ProvideEntropyCurrent(bs, sig, ok) ==
    /\ \A b \in bs : /\ b <= number
                     /\ sig[b][1] = signer
                     /\ BlockEntropy(b) = None
    /\ entropyOf' = [b \in Blocks |-> IF b \in bs THEN sig[b] ELSE entropyOf[b]]
    /\ TriggerCallbacks(bs, sig, ok)

\* Mutant of ProvideEntropy: the check whether entropy has been provided asks
\* only the override.
ProvideEntropyAgain(bs, sig, ok) ==
    /\ \A b \in bs : /\ b < number
                     /\ sig[b][1] = signer
                     /\ override => v1Entropy[b] = None
    /\ entropyOf' = [b \in Blocks |-> IF b \in bs THEN sig[b] ELSE entropyOf[b]]
    /\ TriggerCallbacks(bs, sig, ok)

(***************************************************************************)
(* provideEntropy for one block or for several, by anyone with valid       *)
(* signatures.  One block that is not historical, is badly signed or has   *)
(* entropy makes all of it revert.                                         *)
(***************************************************************************)
ProvideEntropy(bs, sig, ok) ==
    /\ \A b \in bs : /\ b < number
                     /\ sig[b][1] = signer
                     /\ BlockEntropy(b) = None
    /\ entropyOf' = [b \in Blocks |-> IF b \in bs THEN sig[b] ELSE entropyOf[b]]
    /\ TriggerCallbacks(bs, sig, ok)

\* triggerCallbacks(b, max)
TriggerPending(b, ok) ==
    /\ BlockEntropy(b) # None
    /\ TriggerCallbacks({b}, [x \in {b} |-> BlockEntropy(b)], [x \in {b} |-> ok])
    /\ UNCHANGED entropyOf

\* removeCallback, by the steerer.
RemoveCallback(b, c) ==
    /\ c \in callbacksOf[b]
    /\ callbacksOf' = [callbacksOf EXCEPT ![b] = @ \ {c}]
    /\ removed' = Count(removed, b, {c})
    /\ UNCHANGED <<number, signer, entropyOf, override, v1Entropy, registered, triggered,
                   delivered>>

\* setSigner, by the steerer.
SetSigner(s) ==
    /\ signer' = s
    /\ UNCHANGED <<number, entropyOf, callbacksOf, override, v1Entropy, historyVars>>

\* setOverride, by the steerer: to the V1 oracle or to address(0).  The contract
\* takes any address; there is one V1 oracle, and the steerer names no other.
SetOverride(on) ==
    /\ override' = on
    /\ UNCHANGED <<number, signer, entropyOf, callbacksOf, v1Entropy, historyVars>>

\* The V1 oracle is provided with entropy: EntropyOracle._provideEntropy there.
V1ProvideEntropy(b, sig) ==
    /\ b < number
    /\ v1Entropy[b] = None
    /\ v1Entropy' = [v1Entropy EXCEPT ![b] = sig]
    /\ UNCHANGED <<number, contractVars, historyVars>>

\* The chain grows.
Mine ==
    /\ number <= MaxBlock
    /\ number' = number + 1
    /\ UNCHANGED <<contractVars, v1Entropy, historyVars>>

OracleNext ==
    \/ \E b \in Blocks : RequestEntropy(b)
    \/ \E b \in Blocks, c \in Callbacks :
         RegisterCallback(b, c) \/ CallbackDirectly(b, c) \/ RemoveCallback(b, c)
    \/ \E bs \in SUBSET Blocks :
         \E sig \in [bs -> Signatures], ok \in [bs -> SUBSET Callbacks] :
             ProvideEntropy(bs, sig, ok)
    \/ \E b \in Blocks, ok \in SUBSET Callbacks : TriggerPending(b, ok)
    \/ \E s \in OracleSigners : SetSigner(s)
    \/ \E on \in BOOLEAN : SetOverride(on)
    \/ \E b \in Blocks, sig \in Signatures : V1ProvideEntropy(b, sig)
    \/ Mine

OracleSpec == OracleInit /\ [][OracleNext]_oracleVars

-----------------------------------------------------------------------------

RegistrationsAccounted ==
    \A b \in Blocks, c \in Callbacks :
        registered[b][c] = triggered[b][c] + removed[b][c]
                           + (IF c \in callbacksOf[b] THEN 1 ELSE 0)

PendingIsRequested ==
    \A b \in Blocks : callbacksOf[b] # {} => entropyOf[b] # None

(***************************************************************************)
(* Every registration of a callback is accounted for: it is still pending, *)
(* or led to exactly one successful call by provideEntropy() or            *)
(* triggerCallbacks(), or was removed by the steerer.  A callback that     *)
(* reverts is therefore not lost, and one that returns is not repeated,    *)
(* whatever is retried.  And a callback waits only for a block that        *)
(* entropy was requested of, so that the off-chain oracle has been told.   *)
(***************************************************************************)
CallbacksAccounted == RegistrationsAccounted /\ PendingIsRequested

(***************************************************************************)
(* Entropy exists and reaches consumers only for blocks that have been     *)
(* mined, so that a consumer that committed to a future block committed to *)
(* entropy nobody knew.                                                    *)
(***************************************************************************)
EntropyIsHistorical ==
    \A b \in Blocks :
        OwnEntropy(b) # None \/ delivered[b] # {} => b < number

(***************************************************************************)
(* What consumers were given for a block can be looked up ever after, in   *)
(* this oracle or in the V1 oracle: there are at most the two values,      *)
(* however often signer and override are changed.                          *)
(***************************************************************************)
DeliveredIsOnRecord ==
    \A b \in Blocks : delivered[b] \subseteq {OwnEntropy(b), v1Entropy[b]}

\* Entropy once provided for a block is never replaced nor withdrawn.
EntropyIsFinal ==
    [][\A b \in Blocks : OwnEntropy(b) # None => OwnEntropy(b)' = OwnEntropy(b)]_oracleVars

=============================================================================
