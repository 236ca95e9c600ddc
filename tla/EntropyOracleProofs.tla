------------------------ MODULE EntropyOracleProofs -------------------------
(***************************************************************************)
(* Proofs about EntropyOracle for any number of blocks, callbacks, signers *)
(* and registrations.  The invariants of the runs are inductive once the   *)
(* V1 oracle is known to have entropy for mined blocks only.               *)
(***************************************************************************)
EXTENDS EntropyOracle, TLAPS

\* The V1 oracle has entropy for mined blocks only.
V1IsHistorical == \A b \in Blocks : v1Entropy[b] # None => b < number

\* The steps of the specification, by which of the variables they leave alone.
LEMMA NextCases ==
  ASSUME OracleNext
  PROVE  \/ \E b \in Blocks : RequestEntropy(b)
         \/ \E b \in Blocks, c \in Callbacks : RegisterCallback(b, c)
         \/ \E b \in Blocks, c \in Callbacks : CallbackDirectly(b, c)
         \/ \E b \in Blocks, c \in Callbacks : RemoveCallback(b, c)
         \/ \E bs \in SUBSET Blocks : \E sig \in [bs -> Signatures],
                ok \in [bs -> SUBSET Callbacks] : ProvideEntropy(bs, sig, ok)
         \/ \E b \in Blocks, ok \in SUBSET Callbacks : TriggerPending(b, ok)
         \/ \E s \in OracleSigners : SetSigner(s)
         \/ \E on \in BOOLEAN : SetOverride(on)
         \/ \E b \in Blocks, sig \in Signatures : V1ProvideEntropy(b, sig)
         \/ Mine
  BY DEF OracleNext

\* What BlockEntropy returns: nothing or a signature on record.
LEMMA BlockEntropyType ==
  ASSUME OracleTypeOK, NEW b \in Blocks
  PROVE  /\ BlockEntropy(b) \in Signatures \cup {None}
         /\ OwnEntropy(b) \in Signatures \cup {None}
         /\ BlockEntropy(b) \in {OwnEntropy(b), v1Entropy[b]}
         /\ BlockEntropy(b) = None => OwnEntropy(b) = None
  BY EntropyOracleAssumption DEF OracleTypeOK, BlockEntropy, OwnEntropy

\* The initial state has the right types.
LEMMA InitTypeOK == OracleInit => OracleTypeOK
  <1> SUFFICES ASSUME OracleInit PROVE OracleTypeOK
    OBVIOUS
  <1>1. number \in 1..(MaxBlock + 1)
    BY EntropyOracleAssumption DEF OracleInit
  <1>2. override \in BOOLEAN
    BY DEF OracleInit
  <1>3. registered \in Counts /\ triggered \in Counts /\ removed \in Counts
    BY DEF OracleInit, Counts
  <1> QED
    BY <1>1, <1>2, <1>3 DEF OracleInit, OracleTypeOK

\* Every transaction keeps the types.
LEMMA NextTypeOK == OracleTypeOK /\ [OracleNext]_oracleVars => OracleTypeOK'
  <1> SUFFICES ASSUME OracleTypeOK, [OracleNext]_oracleVars PROVE OracleTypeOK'
    OBVIOUS
  <1> USE EntropyOracleAssumption DEF OracleTypeOK, contractVars, historyVars
  <1>1. ASSUME NEW b \in Blocks, RequestEntropy(b) PROVE OracleTypeOK'
    BY <1>1 DEF RequestEntropy
  <1>2. ASSUME NEW b \in Blocks, NEW c \in Callbacks, RegisterCallback(b, c)
        PROVE  OracleTypeOK'
    BY <1>2 DEF RegisterCallback, Count, Counts
  <1>3. ASSUME NEW b \in Blocks, NEW c \in Callbacks, CallbackDirectly(b, c)
        PROVE  OracleTypeOK'
    BY <1>3, BlockEntropyType DEF CallbackDirectly
  <1>4. ASSUME NEW b \in Blocks, NEW c \in Callbacks, RemoveCallback(b, c)
        PROVE  OracleTypeOK'
    BY <1>4 DEF RemoveCallback, Count, Counts
  <1>5. ASSUME NEW bs \in SUBSET Blocks, NEW sig \in [bs -> Signatures],
               NEW ok \in [bs -> SUBSET Callbacks], ProvideEntropy(bs, sig, ok)
        PROVE  OracleTypeOK'
    BY <1>5 DEF ProvideEntropy, TriggerCallbacks, Counts
  <1>6. ASSUME NEW b \in Blocks, NEW ok \in SUBSET Callbacks, TriggerPending(b, ok)
        PROVE  OracleTypeOK'
    BY <1>6, BlockEntropyType DEF TriggerPending, TriggerCallbacks, Counts
  <1>7. ASSUME NEW s \in OracleSigners, SetSigner(s) PROVE OracleTypeOK'
    BY <1>7 DEF SetSigner
  <1>8. ASSUME NEW on \in BOOLEAN, SetOverride(on) PROVE OracleTypeOK'
    BY <1>8 DEF SetOverride
  <1>9. ASSUME NEW b \in Blocks, NEW sig \in Signatures, V1ProvideEntropy(b, sig)
        PROVE  OracleTypeOK'
    BY <1>9 DEF V1ProvideEntropy
  <1>10. CASE Mine
    BY <1>10 DEF Mine
  <1>11. CASE UNCHANGED oracleVars
    BY <1>11 DEF oracleVars
  <1> QED
    BY <1>1, <1>2, <1>3, <1>4, <1>5, <1>6, <1>7, <1>8, <1>9, <1>10, <1>11, NextCases
\* Registrations, successful calls, removals and pending callbacks balance.
LEMMA NextRegistrationsAccounted == OracleTypeOK /\ RegistrationsAccounted /\ [OracleNext]_oracleVars => RegistrationsAccounted'
  <1> SUFFICES ASSUME OracleTypeOK, RegistrationsAccounted, [OracleNext]_oracleVars PROVE RegistrationsAccounted'
    OBVIOUS
  <1> USE EntropyOracleAssumption DEF OracleTypeOK, RegistrationsAccounted, contractVars, historyVars
  <1>1. ASSUME NEW b \in Blocks, RequestEntropy(b) PROVE RegistrationsAccounted'
    BY <1>1 DEF RequestEntropy
  <1>2. ASSUME NEW b \in Blocks, NEW c \in Callbacks, RegisterCallback(b, c)
        PROVE  RegistrationsAccounted'
    <2>1. registered' = [registered EXCEPT ![b] =
              [x \in Callbacks |-> IF x = c THEN registered[b][x] + 1 ELSE registered[b][x]]]
      BY <1>2 DEF RegisterCallback, Count
    <2>2. c \notin callbacksOf[b] /\ callbacksOf' = [callbacksOf EXCEPT ![b] = @ \cup {c}]
      BY <1>2 DEF RegisterCallback
    <2>3. UNCHANGED <<triggered, removed>>
      BY <1>2 DEF RegisterCallback
    <2> QED
      BY <2>1, <2>2, <2>3 DEF Counts
  <1>3. ASSUME NEW b \in Blocks, NEW c \in Callbacks, CallbackDirectly(b, c)
        PROVE  RegistrationsAccounted'
    BY <1>3, BlockEntropyType DEF CallbackDirectly
  <1>4. ASSUME NEW b \in Blocks, NEW c \in Callbacks, RemoveCallback(b, c)
        PROVE  RegistrationsAccounted'
    <2>1. removed' = [removed EXCEPT ![b] =
              [x \in Callbacks |-> IF x = c THEN removed[b][x] + 1 ELSE removed[b][x]]]
      BY <1>4 DEF RemoveCallback, Count
    <2>2. c \in callbacksOf[b] /\ callbacksOf' = [callbacksOf EXCEPT ![b] = @ \ {c}]
      BY <1>4 DEF RemoveCallback
    <2>3. UNCHANGED <<registered, triggered>>
      BY <1>4 DEF RemoveCallback
    <2> QED
      BY <2>1, <2>2, <2>3 DEF Counts
  <1>5. ASSUME NEW bs \in SUBSET Blocks, NEW sig \in [bs -> Signatures],
               NEW ok \in [bs -> SUBSET Callbacks], ProvideEntropy(bs, sig, ok)
        PROVE  RegistrationsAccounted'
    BY <1>5, BlockEntropyType DEF ProvideEntropy, TriggerCallbacks, Counts
  <1>6. ASSUME NEW b \in Blocks, NEW ok \in SUBSET Callbacks, TriggerPending(b, ok)
        PROVE  RegistrationsAccounted'
    BY <1>6, BlockEntropyType DEF TriggerPending, TriggerCallbacks, Counts
  <1>7. ASSUME NEW b \in Blocks, NEW sig \in Signatures, V1ProvideEntropy(b, sig)
        PROVE  RegistrationsAccounted'
    BY <1>7 DEF V1ProvideEntropy
  <1>8. ASSUME \/ \E s \in OracleSigners : SetSigner(s)
               \/ \E on \in BOOLEAN : SetOverride(on)
               \/ Mine
        PROVE  RegistrationsAccounted'
    BY <1>8 DEF SetSigner, SetOverride, Mine
  <1>9. CASE UNCHANGED oracleVars
    BY <1>9 DEF oracleVars
  <1> QED
    BY <1>1, <1>2, <1>3, <1>4, <1>5, <1>6, <1>7, <1>8, <1>9, NextCases

\* No step leaves a callback waiting for a block that was not requested.
LEMMA NextPendingIsRequested == OracleTypeOK /\ PendingIsRequested /\ [OracleNext]_oracleVars => PendingIsRequested'
  <1> SUFFICES ASSUME OracleTypeOK, PendingIsRequested, [OracleNext]_oracleVars PROVE PendingIsRequested'
    OBVIOUS
  <1> USE EntropyOracleAssumption DEF OracleTypeOK, PendingIsRequested, contractVars, historyVars
  <1>1. ASSUME NEW b \in Blocks, RequestEntropy(b) PROVE PendingIsRequested'
    BY <1>1 DEF RequestEntropy
  <1>2. ASSUME NEW b \in Blocks, NEW c \in Callbacks, RegisterCallback(b, c)
        PROVE  PendingIsRequested'
    BY <1>2 DEF RegisterCallback, Count, Counts
  <1>3. ASSUME NEW b \in Blocks, NEW c \in Callbacks, CallbackDirectly(b, c)
        PROVE  PendingIsRequested'
    BY <1>3, BlockEntropyType DEF CallbackDirectly
  <1>4. ASSUME NEW b \in Blocks, NEW c \in Callbacks, RemoveCallback(b, c)
        PROVE  PendingIsRequested'
    BY <1>4 DEF RemoveCallback, Count, Counts
  <1>5. ASSUME NEW bs \in SUBSET Blocks, NEW sig \in [bs -> Signatures],
               NEW ok \in [bs -> SUBSET Callbacks], ProvideEntropy(bs, sig, ok)
        PROVE  PendingIsRequested'
    BY <1>5, BlockEntropyType DEF ProvideEntropy, TriggerCallbacks, Counts
  <1>6. ASSUME NEW b \in Blocks, NEW ok \in SUBSET Callbacks, TriggerPending(b, ok)
        PROVE  PendingIsRequested'
    BY <1>6, BlockEntropyType DEF TriggerPending, TriggerCallbacks, Counts
  <1>7. ASSUME NEW b \in Blocks, NEW sig \in Signatures, V1ProvideEntropy(b, sig)
        PROVE  PendingIsRequested'
    BY <1>7 DEF V1ProvideEntropy
  <1>8. ASSUME \/ \E s \in OracleSigners : SetSigner(s)
               \/ \E on \in BOOLEAN : SetOverride(on)
               \/ Mine
        PROVE  PendingIsRequested'
    BY <1>8 DEF SetSigner, SetOverride, Mine
  <1>9. CASE UNCHANGED oracleVars
    BY <1>9 DEF oracleVars
  <1> QED
    BY <1>1, <1>2, <1>3, <1>4, <1>5, <1>6, <1>7, <1>8, <1>9, NextCases

\* The V1 oracle, too, accepts mined blocks only.
LEMMA NextV1IsHistorical == OracleTypeOK /\ V1IsHistorical /\ [OracleNext]_oracleVars => V1IsHistorical'
  <1> SUFFICES ASSUME OracleTypeOK, V1IsHistorical, [OracleNext]_oracleVars PROVE V1IsHistorical'
    OBVIOUS
  <1> USE EntropyOracleAssumption DEF OracleTypeOK, V1IsHistorical, contractVars, historyVars, Blocks
  <1>1. ASSUME NEW b \in Blocks, RequestEntropy(b) PROVE V1IsHistorical'
    BY <1>1 DEF RequestEntropy
  <1>2. ASSUME NEW b \in Blocks, NEW c \in Callbacks, RegisterCallback(b, c)
        PROVE  V1IsHistorical'
    BY <1>2 DEF RegisterCallback, Count, Counts
  <1>3. ASSUME NEW b \in Blocks, NEW c \in Callbacks, CallbackDirectly(b, c)
        PROVE  V1IsHistorical'
    BY <1>3, BlockEntropyType DEF CallbackDirectly
  <1>4. ASSUME NEW b \in Blocks, NEW c \in Callbacks, RemoveCallback(b, c)
        PROVE  V1IsHistorical'
    BY <1>4 DEF RemoveCallback, Count, Counts
  <1>5. ASSUME NEW bs \in SUBSET Blocks, NEW sig \in [bs -> Signatures],
               NEW ok \in [bs -> SUBSET Callbacks], ProvideEntropy(bs, sig, ok)
        PROVE  V1IsHistorical'
    BY <1>5, BlockEntropyType DEF ProvideEntropy, TriggerCallbacks, Counts
  <1>6. ASSUME NEW b \in Blocks, NEW ok \in SUBSET Callbacks, TriggerPending(b, ok)
        PROVE  V1IsHistorical'
    BY <1>6, BlockEntropyType DEF TriggerPending, TriggerCallbacks, Counts
  <1>7. ASSUME NEW b \in Blocks, NEW sig \in Signatures, V1ProvideEntropy(b, sig)
        PROVE  V1IsHistorical'
    BY <1>7 DEF V1ProvideEntropy
  <1>8. ASSUME \/ \E s \in OracleSigners : SetSigner(s)
               \/ \E on \in BOOLEAN : SetOverride(on)
               \/ Mine
        PROVE  V1IsHistorical'
    BY <1>8 DEF SetSigner, SetOverride, Mine
  <1>9. CASE UNCHANGED oracleVars
    BY <1>9 DEF oracleVars
  <1> QED
    BY <1>1, <1>2, <1>3, <1>4, <1>5, <1>6, <1>7, <1>8, <1>9, NextCases

\* Entropy stays a matter of mined blocks.
LEMMA NextEntropyIsHistorical == OracleTypeOK /\ V1IsHistorical /\ EntropyIsHistorical /\ [OracleNext]_oracleVars => EntropyIsHistorical'
  <1> SUFFICES ASSUME OracleTypeOK, V1IsHistorical, EntropyIsHistorical, [OracleNext]_oracleVars PROVE EntropyIsHistorical'
    OBVIOUS
  <1> USE EntropyOracleAssumption DEF OracleTypeOK, EntropyIsHistorical, contractVars, historyVars, OwnEntropy, V1IsHistorical, Blocks
  <1>1. ASSUME NEW b \in Blocks, RequestEntropy(b) PROVE EntropyIsHistorical'
    BY <1>1 DEF RequestEntropy
  <1>2. ASSUME NEW b \in Blocks, NEW c \in Callbacks, RegisterCallback(b, c)
        PROVE  EntropyIsHistorical'
    BY <1>2 DEF RegisterCallback, Count, Counts
  <1>3. ASSUME NEW b \in Blocks, NEW c \in Callbacks, CallbackDirectly(b, c)
        PROVE  EntropyIsHistorical'
    BY <1>3, BlockEntropyType DEF CallbackDirectly
  <1>4. ASSUME NEW b \in Blocks, NEW c \in Callbacks, RemoveCallback(b, c)
        PROVE  EntropyIsHistorical'
    BY <1>4 DEF RemoveCallback, Count, Counts
  <1>5. ASSUME NEW bs \in SUBSET Blocks, NEW sig \in [bs -> Signatures],
               NEW ok \in [bs -> SUBSET Callbacks], ProvideEntropy(bs, sig, ok)
        PROVE  EntropyIsHistorical'
    BY <1>5, BlockEntropyType DEF ProvideEntropy, TriggerCallbacks, Counts
  <1>6. ASSUME NEW b \in Blocks, NEW ok \in SUBSET Callbacks, TriggerPending(b, ok)
        PROVE  EntropyIsHistorical'
    BY <1>6, BlockEntropyType DEF TriggerPending, TriggerCallbacks, Counts
  <1>7. ASSUME NEW b \in Blocks, NEW sig \in Signatures, V1ProvideEntropy(b, sig)
        PROVE  EntropyIsHistorical'
    BY <1>7 DEF V1ProvideEntropy
  <1>8. ASSUME \/ \E s \in OracleSigners : SetSigner(s)
               \/ \E on \in BOOLEAN : SetOverride(on)
               \/ Mine
        PROVE  EntropyIsHistorical'
    BY <1>8 DEF SetSigner, SetOverride, Mine
  <1>9. CASE UNCHANGED oracleVars
    BY <1>9 DEF oracleVars
  <1> QED
    BY <1>1, <1>2, <1>3, <1>4, <1>5, <1>6, <1>7, <1>8, <1>9, NextCases

\* What has been delivered stays on record.
LEMMA NextDeliveredIsOnRecord == OracleTypeOK /\ DeliveredIsOnRecord /\ [OracleNext]_oracleVars => DeliveredIsOnRecord'
  <1> SUFFICES ASSUME OracleTypeOK, DeliveredIsOnRecord, [OracleNext]_oracleVars PROVE DeliveredIsOnRecord'
    OBVIOUS
  <1> USE EntropyOracleAssumption DEF OracleTypeOK, DeliveredIsOnRecord, contractVars, historyVars, OwnEntropy
  <1>1. ASSUME NEW b \in Blocks, RequestEntropy(b) PROVE DeliveredIsOnRecord'
    BY <1>1 DEF RequestEntropy
  <1>2. ASSUME NEW b \in Blocks, NEW c \in Callbacks, RegisterCallback(b, c)
        PROVE  DeliveredIsOnRecord'
    BY <1>2 DEF RegisterCallback, Count, Counts
  <1>3. ASSUME NEW b \in Blocks, NEW c \in Callbacks, CallbackDirectly(b, c)
        PROVE  DeliveredIsOnRecord'
    BY <1>3, BlockEntropyType DEF CallbackDirectly
  <1>4. ASSUME NEW b \in Blocks, NEW c \in Callbacks, RemoveCallback(b, c)
        PROVE  DeliveredIsOnRecord'
    BY <1>4 DEF RemoveCallback, Count, Counts
  <1>5. ASSUME NEW bs \in SUBSET Blocks, NEW sig \in [bs -> Signatures],
               NEW ok \in [bs -> SUBSET Callbacks], ProvideEntropy(bs, sig, ok)
        PROVE  DeliveredIsOnRecord'
    BY <1>5, BlockEntropyType DEF ProvideEntropy, TriggerCallbacks, Counts
  <1>6. ASSUME NEW b \in Blocks, NEW ok \in SUBSET Callbacks, TriggerPending(b, ok)
        PROVE  DeliveredIsOnRecord'
    BY <1>6, BlockEntropyType DEF TriggerPending, TriggerCallbacks, Counts
  <1>7. ASSUME NEW b \in Blocks, NEW sig \in Signatures, V1ProvideEntropy(b, sig)
        PROVE  DeliveredIsOnRecord'
    BY <1>7 DEF V1ProvideEntropy
  <1>8. ASSUME \/ \E s \in OracleSigners : SetSigner(s)
               \/ \E on \in BOOLEAN : SetOverride(on)
               \/ Mine
        PROVE  DeliveredIsOnRecord'
    BY <1>8 DEF SetSigner, SetOverride, Mine
  <1>9. CASE UNCHANGED oracleVars
    BY <1>9 DEF oracleVars
  <1> QED
    BY <1>1, <1>2, <1>3, <1>4, <1>5, <1>6, <1>7, <1>8, <1>9, NextCases

(***************************************************************************)
(* The invariants of the oracle: every registration accounted for, nothing *)
(* pending that was not requested, no entropy before its block is mined,   *)
(* all that was delivered on record.                                       *)
(***************************************************************************)
THEOREM OracleInvariants ==
        OracleSpec => [](/\ OracleTypeOK /\ CallbacksAccounted
                   /\ EntropyIsHistorical /\ DeliveredIsOnRecord)
  <1> DEFINE IInv == /\ OracleTypeOK /\ RegistrationsAccounted /\ PendingIsRequested
                     /\ V1IsHistorical /\ EntropyIsHistorical /\ DeliveredIsOnRecord
  <1>1. OracleInit => IInv
    BY InitTypeOK DEF OracleInit, RegistrationsAccounted, PendingIsRequested, V1IsHistorical,
                      EntropyIsHistorical, DeliveredIsOnRecord, OwnEntropy
  <1>2. IInv /\ [OracleNext]_oracleVars => IInv'
    BY NextTypeOK, NextRegistrationsAccounted, NextPendingIsRequested, NextV1IsHistorical,
       NextEntropyIsHistorical, NextDeliveredIsOnRecord
  <1>3. IInv => /\ OracleTypeOK /\ CallbacksAccounted
                /\ EntropyIsHistorical /\ DeliveredIsOnRecord
    BY DEF CallbacksAccounted
  <1> QED
    BY <1>1, <1>2, <1>3, PTL DEF OracleSpec

(***************************************************************************)
(* Whatever the signer, the override and the V1 oracle do, no entropy is   *)
(* on record or handed to a consumer before its block has been mined.      *)
(***************************************************************************)
THEOREM EntropyNeverPrecedesBlock == OracleSpec => []EntropyIsHistorical
  BY OracleInvariants, PTL

(***************************************************************************)
(* Each value that a consumer was ever given for a block is still one of   *)
(* the two that the oracles have on record for it.                         *)
(***************************************************************************)
THEOREM DeliveredEntropyIsOnRecord == OracleSpec => []DeliveredIsOnRecord
  BY OracleInvariants, PTL

(***************************************************************************)
(* Entropy once provided is final: no transaction, neither a change of the *)
(* signer nor of the override, replaces or withdraws it.                   *)
(***************************************************************************)
THEOREM ProvidedEntropyIsFinal == OracleSpec => EntropyIsFinal
  <1> DEFINE Final == \A b \in Blocks : OwnEntropy(b) # None => OwnEntropy(b)' = OwnEntropy(b)
  <1>1. ASSUME OracleTypeOK, OracleNext, NEW b \in Blocks, OwnEntropy(b) # None
        PROVE  OwnEntropy(b)' = OwnEntropy(b)
    <2> USE <1>1, EntropyOracleAssumption DEF OracleTypeOK, OwnEntropy, contractVars
    <2>1. ASSUME NEW x \in Blocks, RequestEntropy(x) PROVE entropyOf'[b] = entropyOf[b]
      BY <2>1 DEF RequestEntropy
    <2>2. ASSUME NEW x \in Blocks, NEW c \in Callbacks, RegisterCallback(x, c)
          PROVE  entropyOf'[b] = entropyOf[b]
      BY <2>2 DEF RegisterCallback
    <2>3. ASSUME NEW bs \in SUBSET Blocks, NEW sig \in [bs -> Signatures],
                 NEW ok \in [bs -> SUBSET Callbacks], ProvideEntropy(bs, sig, ok)
          PROVE  entropyOf'[b] = entropyOf[b]
      BY <2>3, BlockEntropyType DEF ProvideEntropy
    <2>4. ASSUME \/ \E x \in Blocks, c \in Callbacks :
                        CallbackDirectly(x, c) \/ RemoveCallback(x, c)
                 \/ \E x \in Blocks, ok \in SUBSET Callbacks : TriggerPending(x, ok)
                 \/ \E s \in OracleSigners : SetSigner(s)
                 \/ \E on \in BOOLEAN : SetOverride(on)
                 \/ \E x \in Blocks, sig \in Signatures : V1ProvideEntropy(x, sig)
                 \/ Mine
          PROVE  entropyOf' = entropyOf
      BY <2>4 DEF CallbackDirectly, RemoveCallback, TriggerPending, SetSigner, SetOverride,
                  V1ProvideEntropy, Mine
    <2> QED
      BY <2>1, <2>2, <2>3, <2>4, NextCases
  <1>2. OracleTypeOK /\ [OracleNext]_oracleVars => [Final]_oracleVars
    BY <1>1
  <1>3. OracleSpec => []OracleTypeOK
    BY OracleInvariants, PTL
  <1> QED
    BY <1>2, <1>3, PTL DEF OracleSpec, EntropyIsFinal

=============================================================================
