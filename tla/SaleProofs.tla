----------------------------- MODULE SaleProofs -----------------------------
(*****************************************************************************)
(* Proofs about Sale, for any accounts, sellers' limits, allowances, projects *)
(* and supplies.  The invariant relates the contracts: what the sellers      *)
(* count is what the voucher contract minted, what the redeemers give is     *)
(* what it burnt, and the pool has minted what the passes stand for.         *)
(*****************************************************************************)
EXTENDS Sale, FoldTheorems

-----------------------------------------------------------------------------

(*****************************************************************************)
(* Counting the elements of sequences.                                       *)
(*****************************************************************************)

\* The indices of B, m further.
Shifted(m, B) == {m + j : j \in B}

\* Sizes of a set of indices, and of one shifted behind it, add up.
LEMMA ShiftedUnion ==
    ASSUME NEW m \in Nat, NEW A \in SUBSET (1..m), NEW B \in SUBSET (Nat \ {0}), IsFiniteSet(B)
    PROVE  Cardinality(A \cup Shifted(m, B)) = Cardinality(A) + Cardinality(B)
<1> DEFINE C == {m + j : j \in B}
           f == [j \in B |-> m + j]
<1>1. IsFiniteSet(A) /\ IsFiniteSet(B) /\ Cardinality(A) \in Nat /\ Cardinality(B) \in Nat
    <2>1. IsFiniteSet(1..m)
        BY FS_Interval
    <2>2. IsFiniteSet(A)
        BY <2>1, FS_Subset
    <2> QED BY <2>2, FS_CardinalityType
<1>2. \A j \in B : j \in Nat /\ j >= 1
    OBVIOUS
<1>3. f \in Bijection(B, C)
    BY <1>2 DEF Bijection, Injection, Surjection, IsInjective
<1>4. IsFiniteSet(C) /\ Cardinality(C) = Cardinality(B)
    <2> HIDE DEF C, f
    <2>1. ExistsBijection(B, C)
        BY <1>3 DEF ExistsBijection
    <2> QED BY <1>1, <2>1, FS_Bijection
<1>5. A \cap C = {}
    BY <1>2
<1> HIDE DEF C
<1>6. Cardinality(A \cup C) = Cardinality(A) + Cardinality(C) - Cardinality(A \cap C)
    BY <1>1, <1>4, FS_Union
<1>7. Cardinality(A \cap C) = 0
    BY <1>5, FS_EmptySet
<1>8. Cardinality(A \cup C) = Cardinality(A) + Cardinality(B)
    BY <1>1, <1>4, <1>6, <1>7
<1> QED BY <1>8 DEF C, Shifted

\* How often x is in s.
Count(s, x) == Cardinality({i \in DOMAIN s : s[i] = x})

\* How often x occurs in a sequence is a number.
LEMMA CountType ==
    ASSUME NEW X, NEW s \in Seq(X), NEW x
    PROVE  Count(s, x) \in Nat
<1>1. {i \in DOMAIN s : s[i] = x} \in SUBSET (1..Len(s)) /\ Len(s) \in Nat
    OBVIOUS
<1>2. IsFiniteSet(1..Len(s))
    BY <1>1, FS_Interval
<1>3. IsFiniteSet({i \in DOMAIN s : s[i] = x})
    <2> DEFINE I == {i \in DOMAIN s : s[i] = x}
    <2>1. I \in SUBSET (1..Len(s))
        BY <1>1
    <2> HIDE DEF I
    <2>2. IsFiniteSet(I)
        BY <1>2, <2>1, FS_Subset
    <2> QED BY <2>2 DEF I
<1> QED BY <1>3, FS_CardinalityType DEF Count

\* Occurrences add up when sequences are concatenated.
LEMMA CountConcat ==
    ASSUME NEW X, NEW s \in Seq(X), NEW t \in Seq(X), NEW x
    PROVE  Count(s \o t, x) = Count(s, x) + Count(t, x)
<1> DEFINE A == {i \in DOMAIN s : s[i] = x}
           B == {i \in DOMAIN t : t[i] = x}
           C == {i \in DOMAIN (s \o t) : (s \o t)[i] = x}
<1>1. Len(s) \in Nat /\ Len(t) \in Nat /\ A \in SUBSET (1..Len(s)) /\ B \in SUBSET (1..Len(t))
    OBVIOUS
<1>a. B \in SUBSET (Nat \ {0}) /\ IsFiniteSet(B)
    <2>1. IsFiniteSet(1..Len(t))
        BY <1>1, FS_Interval
    <2> HIDE DEF B
    <2>2. IsFiniteSet(B)
        BY <1>1, <2>1, FS_Subset
    <2> QED BY <1>1, <2>2
<1>2. C = A \cup {Len(s) + j : j \in B}
    <2>0. /\ DOMAIN (s \o t) = 1..(Len(s) + Len(t))
          /\ \A i \in 1..(Len(s) + Len(t)) : (s \o t)[i] = IF i <= Len(s) THEN s[i] ELSE t[i - Len(s)]
          /\ DOMAIN s = 1..Len(s) /\ DOMAIN t = 1..Len(t)
        OBVIOUS
    <2>1. ASSUME NEW i \in C PROVE i \in A \cup {Len(s) + j : j \in B}
        <3>1. CASE i <= Len(s)
            BY <2>0, <3>1
        <3>2. CASE ~(i <= Len(s))
            <4>1. i - Len(s) \in B /\ i = Len(s) + (i - Len(s))
                BY <1>1, <2>0, <3>2
            <4> QED BY <4>1
        <3> QED BY <3>1, <3>2
    <2>2. ASSUME NEW i \in A PROVE i \in C
        BY <2>0
    <2>3. ASSUME NEW j \in B PROVE Len(s) + j \in C
        <3>1. Len(s) + j \in 1..(Len(s) + Len(t)) /\ ~(Len(s) + j <= Len(s)) /\ (Len(s) + j) - Len(s) = j
            BY <1>1
        <3> QED BY <2>0, <3>1
    <2> HIDE DEF A, B, C
    <2> QED BY <2>1, <2>2, <2>3
<1> HIDE DEF A, B, C
<1>3. Cardinality(A \cup Shifted(Len(s), B)) = Cardinality(A) + Cardinality(B)
    BY <1>1, <1>a, ShiftedUnion
<1>4. Cardinality(C) = Cardinality(A) + Cardinality(B)
    BY <1>2, <1>3 DEF Shifted
<1> QED BY <1>4 DEF A, B, C, Count

\* What is in a sequence without duplicates is there once.
LEMMA CountInjective ==
    ASSUME NEW X, NEW s \in Seq(X), IsInjective(s), NEW x
    PROVE  Count(s, x) = IF x \in ToSet(s) THEN 1 ELSE 0
<1>1. CASE x \in ToSet(s)
    <2>1. PICK i \in DOMAIN s : s[i] = x
        BY <1>1 DEF ToSet
    <2>2. {j \in DOMAIN s : s[j] = x} = {i}
        BY <2>1 DEF IsInjective
    <2> QED BY <1>1, <2>2, FS_Singleton DEF Count
<1>2. CASE x \notin ToSet(s)
    <2>1. {j \in DOMAIN s : s[j] = x} = {}
        BY <1>2 DEF ToSet
    <2> QED BY <1>2, <2>1, FS_EmptySet DEF Count
<1> QED BY <1>1, <1>2

\* What a sequence is not made of does not occur in it.
LEMMA CountAbsent ==
    ASSUME NEW X, NEW s \in Seq(X), NEW x, x \notin X
    PROVE  Count(s, x) = 0
<1>1. {j \in DOMAIN s : s[j] = x} = {}
    OBVIOUS
<1> QED BY <1>1, FS_EmptySet DEF Count

\* A sequence without duplicates has as many elements as its set.
LEMMA ToSetCardinality ==
    ASSUME NEW X, NEW s \in Seq(X), IsInjective(s)
    PROVE  IsFiniteSet(ToSet(s)) /\ Cardinality(ToSet(s)) = Len(s)
<1>1. Len(s) \in Nat /\ DOMAIN s = 1..Len(s)
    OBVIOUS
<1>2. IsFiniteSet(1..Len(s)) /\ Cardinality(1..Len(s)) = Len(s)
    BY <1>1, FS_Interval
<1>3. s \in Bijection(1..Len(s), ToSet(s))
    BY <1>1 DEF Bijection, Injection, Surjection, ToSet
<1>4. ExistsBijection(1..Len(s), ToSet(s))
    BY <1>3 DEF ExistsBijection
<1> QED BY <1>2, <1>4, FS_Bijection

-----------------------------------------------------------------------------

\* How many of the first n ids are p is a number.
LEMMA AmongType ==
    ASSUME NEW ids, NEW n \in Nat, NEW p
    PROVE  Among(ids, n, p) \in Nat
<1> DEFINE I == {i \in 1..n : ids[i] = p}
<1>1. I \in SUBSET (1..n) /\ IsFiniteSet(1..n)
    BY FS_Interval
<1> HIDE DEF I
<1>2. Cardinality(I) \in Nat
    BY <1>1, FS_Subset, FS_CardinalityType
<1> QED BY <1>2 DEF I, Among

\* And goes up by one with every id that is p.
LEMMA AmongNext ==
    ASSUME NEW ids, NEW n \in Nat, NEW p
    PROVE  Among(ids, n + 1, p) = Among(ids, n, p) + IF ids[n + 1] = p THEN 1 ELSE 0
<1> DEFINE I(m) == {i \in 1..m : ids[i] = p}
<1>1. I(n) \in SUBSET (1..n) /\ IsFiniteSet(1..n)
    BY FS_Interval
<1>2. n + 1 \notin I(n) /\ I(n + 1) = IF ids[n + 1] = p THEN I(n) \cup {n + 1} ELSE I(n)
    OBVIOUS
<1> HIDE DEF I
<1>3. IsFiniteSet(I(n)) /\ Cardinality(I(n)) \in Nat
    BY <1>1, FS_Subset, FS_CardinalityType
<1>4. Cardinality(I(n) \cup {n + 1}) = Cardinality(I(n)) + 1
    BY <1>2, <1>3, FS_AddElement
<1>5. Cardinality(I(n + 1)) = Cardinality(I(n)) + IF ids[n + 1] = p THEN 1 ELSE 0
    BY <1>2, <1>3, <1>4
<1> QED BY <1>5 DEF I, Among

\* The tokens of p in a purchase take the next numbers from 0, one after the
\* other.
LEMMA AmongCounts ==
    ASSUME NEW ids, NEW n \in Nat, NEW p
    PROVE  {Among(ids, i - 1, p) : i \in {j \in 1..n : ids[j] = p}} = 0..(Among(ids, n, p) - 1)
<1> DEFINE N(m) == {Among(ids, i - 1, p) : i \in {j \in 1..m : ids[j] = p}}
           T == {m \in Nat : N(m) = 0..(Among(ids, m, p) - 1)}
<1>1. 0 \in T
    <2>1. Among(ids, 0, p) = 0
        <3>1. {i \in 1..0 : ids[i] = p} = {}
            OBVIOUS
        <3> QED BY <3>1, FS_EmptySet DEF Among
    <2>2. N(0) = {}
        OBVIOUS
    <2> QED BY <2>1, <2>2
<1>2. ASSUME NEW m \in T PROVE m + 1 \in T
    <2>1. m \in Nat /\ m + 1 \in Nat /\ N(m) = 0..(Among(ids, m, p) - 1) /\ (m + 1) - 1 = m
        OBVIOUS
    <2>2. Among(ids, m + 1, p) = Among(ids, m, p) + IF ids[m + 1] = p THEN 1 ELSE 0
        BY <2>1, AmongNext
    <2>3. Among(ids, m, p) \in Nat
        BY <2>1, AmongType
    <2>4. CASE ids[m + 1] = p
        <3>1. {j \in 1..(m + 1) : ids[j] = p} = {j \in 1..m : ids[j] = p} \cup {m + 1}
            BY <2>1, <2>4
        <3>2. N(m + 1) = N(m) \cup {Among(ids, (m + 1) - 1, p)}
            BY <3>1
        <3>3. N(m + 1) = (0..(Among(ids, m, p) - 1)) \cup {Among(ids, m, p)}
            BY <2>1, <3>2, Zenon
        <3> HIDE DEF N
        <3>4. N(m + 1) = 0..(Among(ids, m + 1, p) - 1)
            <4>1. \A k \in Nat : (0..(k - 1)) \cup {k} = 0..((k + 1) - 1)
                OBVIOUS
            <4>2. Among(ids, m + 1, p) = Among(ids, m, p) + 1
                BY <2>2, <2>4
            <4> QED BY <2>3, <3>3, <4>1, <4>2
        <3> QED BY <2>1, <3>4
    <2>5. CASE ids[m + 1] # p
        <3>1. {j \in 1..(m + 1) : ids[j] = p} = {j \in 1..m : ids[j] = p}
            BY <2>1, <2>5
        <3>2. N(m + 1) = N(m)
            BY <3>1
        <3> HIDE DEF N
        <3>3. N(m + 1) = 0..(Among(ids, m + 1, p) - 1)
            BY <2>1, <2>2, <2>3, <2>5, <3>2
        <3> QED BY <2>1, <3>3
    <2> QED BY <2>4, <2>5
<1>3. T \in SUBSET Nat
    OBVIOUS
<1> HIDE DEF T
<1>4. \A m \in Nat : m \in T
    BY <1>1, <1>2, <1>3, SetInduction
<1> QED BY <1>4 DEF T

-----------------------------------------------------------------------------

(*****************************************************************************)
(* The sellers: every way to buy keeps to its limits, forwards what was      *)
(* paid, and counts exactly the tokens that it has minted.                   *)
(*****************************************************************************)

\* What the counters of the sellers add up to.
Counted ==
    SumFunction(bought) + SumFunction(purchased) + numSold
        + Cardinality(usedTokens) + numAirdropped

\* The counters of the sellers have their types and limits, and no seller keeps
\* money.
SellersInv ==
    /\ SellersTypeOK
    /\ LimitsHold
    /\ maxPerAddress <= highestLimit
    /\ \A s \in Sellers : held[s] = 0

\* The step sells to receivers.
SellsTo(receivers) ==
    /\ SellersInv'
    /\ Counted' = Counted + Len(receivers)
    /\ receivers \in Seq(Accounts)

\* A batch is a sequence that is not empty.
LEMMA BatchIsSeq ==
    ASSUME NEW S, NEW batch \in Batches(S)
    PROVE  /\ batch \in Seq(S) /\ batch # <<>>
           /\ Len(batch) \in Nat /\ DOMAIN batch = 1..Len(batch)
           /\ IsFiniteSet(DOMAIN batch)
<1>1. PICK n \in 1..MaxBatch : batch \in [1..n -> S]
    BY DEF Batches
<1>2. n \in Nat /\ n # 0
    BY SaleAssumption
<1>3. batch \in Seq(S) /\ Len(batch) = n /\ DOMAIN batch = 1..n
    BY <1>1, <1>2
<1> QED BY <1>2, <1>3, FS_Interval

\* The counters can be added up.
LEMMA CountersType ==
    SellersTypeOK => /\ SumFunction(bought) \in Nat /\ SumFunction(purchased) \in Nat
                     /\ numSold \in Nat /\ numAirdropped \in Nat
                     /\ IsFiniteSet(usedTokens) /\ Cardinality(usedTokens) \in Nat
                     /\ IsFiniteSet(Accounts) /\ IsFiniteSet(Allowances)
<1> SUFFICES ASSUME SellersTypeOK
             PROVE  /\ SumFunction(bought) \in Nat /\ SumFunction(purchased) \in Nat
                    /\ numSold \in Nat /\ numAirdropped \in Nat
                    /\ IsFiniteSet(usedTokens) /\ Cardinality(usedTokens) \in Nat
                    /\ IsFiniteSet(Accounts) /\ IsFiniteSet(Allowances)
    OBVIOUS
<1>1. IsFiniteSet(Accounts) /\ IsFiniteSet(Allowances)
    BY AccountsAssumption, SellersAssumption
<1>2. bought \in [Accounts -> Nat] /\ purchased \in [Allowances -> Nat]
    BY DEF SellersTypeOK
<1>3. usedTokens \in SUBSET (0..(GatingSupply - 1)) /\ GatingSupply \in Nat
    BY SellersAssumption DEF SellersTypeOK, GatingTokens
<1>4. IsFiniteSet(0..(GatingSupply - 1))
    BY <1>3, FS_Interval
<1>5. IsFiniteSet(usedTokens)
    BY <1>3, <1>4, FS_Subset
<1> QED BY <1>1, <1>2, <1>5, SumType, FS_CardinalityType DEF SellersTypeOK

-----------------------------------------------------------------------------

\* Repeat() yields num tokens for x.
LEMMA RepeatType ==
    ASSUME NEW x \in Accounts, NEW num \in Nat
    PROVE  Repeat(x, num) \in Seq(Accounts) /\ Len(Repeat(x, num)) = num
BY DEF Repeat

\* A seller that forwards all it was paid keeps what it had.
LEMMA ForwardAll ==
    ASSUME NEW s \in Sellers, NEW value \in Nat, Forward(s, value, value), SellersInv
    PROVE  held' = held
BY DEF Forward, SellersInv, SellersTypeOK

\* A purchase from the seller with a limit per buyer, also after the limit was
\* lowered.
LEMMA PublicSale ==
    ASSUME NEW sender \in Accounts, NEW to \in Accounts, NEW num \in Nums, NEW value \in Values,
           SellersInv, PublicPurchase(sender, to, num, value)
    PROVE  SellsTo(Repeat(to, num))
<1> USE DEF SellersInv
<1>1. num \in Nat /\ value \in Nat /\ value = Cost("public", num)
    BY SaleAssumption DEF Nums, Values, PublicPurchase
<1>2. held' = held
    BY <1>1, ForwardAll DEF PublicPurchase, Sellers
<1>3. /\ num <= maxPerAddress - bought[sender]
      /\ bought' = [bought EXCEPT ![sender] = @ + num]
      /\ UNCHANGED <<envVars, steeringVars, purchased, numSold, usedTokens, numAirdropped>>
    BY DEF PublicPurchase, WithinPerAddressLimit
<1>4. /\ bought \in [Accounts -> Nat] /\ maxPerAddress \in Nat /\ highestLimit \in Nat
      /\ maxPerAddress <= highestLimit
      /\ UNCHANGED <<maxPerAddress, highestLimit>>
    BY <1>3, SellersAssumption DEF SellersTypeOK, steeringVars
<1>5. bought' \in [Accounts -> Nat] /\ bought'[sender] <= highestLimit
    BY <1>1, <1>3, <1>4
<1>6. SellersTypeOK'
    BY <1>2, <1>3, <1>5 DEF SellersTypeOK, envVars, steeringVars
<1>7. LimitsHold'
    <2>1. \A a \in Accounts : bought'[a] <= highestLimit'
        BY <1>3, <1>4, <1>5 DEF LimitsHold
    <2> QED BY <1>3, <2>1 DEF LimitsHold
<1>8. SumFunction(bought') = SumFunction(bought) + num
    <2> DEFINE f == bought
               h == [bought EXCEPT ![sender] = @ + num]
    <2>1. /\ f \in [Accounts -> Int] /\ h \in [Accounts -> Int] /\ h[sender] = f[sender] + num
          /\ \A a \in Accounts : a # sender => h[a] = f[a]
          /\ num \in Int /\ IsFiniteSet(Accounts)
        BY <1>1, <1>4, AccountsAssumption
    <2> HIDE DEF f, h
    <2>2. SumFunction(h) = SumFunction(f) + num
        <3>1. IsUpdate(Accounts, f, h, sender, num)
            BY <2>1 DEF IsUpdate
        <3> QED BY <2>1, <3>1, SumUpdate
    <2> QED BY <1>3, <2>2 DEF f, h
<1>9. Counted' = Counted + num
    BY <1>1, <1>3, <1>8, CountersType DEF Counted
<1> QED BY <1>1, <1>2, <1>4, <1>6, <1>7, <1>9, RepeatType DEF SellsTo

\* A purchase with the tokens that gate a seller, each of them only once.
LEMMA GatedSale ==
    ASSUME NEW sender \in Accounts, NEW ids \in GatedBatches, NEW value \in Values,
           SellersInv, GatedPurchase(sender, ids, value)
    PROVE  SellsTo(Repeat(sender, Len(ids)))
<1> USE DEF SellersInv
<1>1. /\ ids \in Seq(GatingTokens) /\ Len(ids) \in Nat /\ DOMAIN ids = 1..Len(ids)
      /\ value \in Nat /\ value = Cost("gated", Len(ids))
    BY SaleAssumption, BatchIsSeq DEF GatedBatches, Values, GatedPurchase
<1>2. held' = held
    BY <1>1, ForwardAll DEF GatedPurchase, Sellers
<1>3. /\ \A i \in DOMAIN ids : ids[i] \notin usedTokens
      /\ IsInjective(ids)
      /\ usedTokens' = usedTokens \cup ToSet(ids)
      /\ UNCHANGED <<envVars, steeringVars, bought, purchased, numSold, numAirdropped>>
    BY DEF GatedPurchase
<1>4. ToSet(ids) \subseteq GatingTokens /\ usedTokens \cap ToSet(ids) = {}
    BY <1>1, <1>3 DEF ToSet
<1>5. SellersTypeOK'
    BY <1>2, <1>3, <1>4 DEF SellersTypeOK, envVars, steeringVars
<1>6. LimitsHold'
    BY <1>3 DEF LimitsHold, steeringVars
<1>7. Cardinality(usedTokens') = Cardinality(usedTokens) + Len(ids)
    <2>1. IsFiniteSet(ToSet(ids)) /\ Cardinality(ToSet(ids)) = Len(ids)
        BY <1>1, <1>3, ToSetCardinality
    <2>2. IsFiniteSet(usedTokens) /\ Cardinality(usedTokens) \in Nat
        BY CountersType
    <2>3. Cardinality(usedTokens \cup ToSet(ids))
              = Cardinality(usedTokens) + Cardinality(ToSet(ids)) - Cardinality(usedTokens \cap ToSet(ids))
        BY <2>1, <2>2, FS_Union
    <2>4. Cardinality(usedTokens \cap ToSet(ids)) = 0
        BY <1>4, FS_EmptySet
    <2> QED BY <1>1, <1>3, <2>1, <2>2, <2>3, <2>4
<1>8. Counted' = Counted + Len(ids)
    BY <1>1, <1>3, <1>7, CountersType DEF Counted
<1> QED BY <1>1, <1>2, <1>3, <1>5, <1>6, <1>8, RepeatType DEF SellsTo, steeringVars

\* An airdrop to the holders of the gating tokens.
LEMMA AirdropSale ==
    ASSUME NEW num \in Nums, SellersInv, Airdrop(num)
    PROVE  SellsTo(AirdropReceivers(num))
<1> USE DEF SellersInv
<1>1. num \in Nat /\ numAirdropped \in Nat /\ GatingSupply \in Nat /\ numAirdropped <= GatingSupply
    BY SaleAssumption, SellersAssumption DEF Nums, SellersTypeOK, LimitsHold
<1>2. /\ numAirdropped' = Min({numAirdropped + num, GatingSupply})
      /\ UNCHANGED <<envVars, steeringVars, bought, purchased, numSold, usedTokens, held>>
    BY DEF Airdrop
<1>3. Min({numAirdropped + num, GatingSupply})
          = IF numAirdropped + num <= GatingSupply THEN numAirdropped + num ELSE GatingSupply
    BY <1>1, MinOfTwo
<1> DEFINE n == Min({numAirdropped + num, GatingSupply})
<1>4. n \in Nat /\ n <= GatingSupply /\ numAirdropped <= n
    BY <1>1, <1>3
<1>5. SellersTypeOK'
    BY <1>2, <1>4 DEF SellersTypeOK, envVars, steeringVars
<1>6. LimitsHold'
    BY <1>2, <1>4 DEF LimitsHold, steeringVars
<1>7. AirdropReceivers(num) \in Seq(Accounts) /\ Len(AirdropReceivers(num)) = n - numAirdropped
    <2> DEFINE k == n - numAirdropped
    <2>1. k \in Nat
        BY <1>1, <1>4
    <2>2. \A i \in 1..k : holder[numAirdropped + i - 1] \in Accounts
        <3>1. \A i \in 1..k : numAirdropped + i - 1 \in 0..(GatingSupply - 1)
            <4> HIDE DEF n
            <4> QED BY <1>1, <1>4
        <3> QED BY <3>1 DEF SellersTypeOK, GatingTokens
    <2>3. AirdropReceivers(num) = [i \in 1..k |-> holder[numAirdropped + i - 1]]
        BY DEF AirdropReceivers
    <2> HIDE DEF k
    <2>4. AirdropReceivers(num) \in Seq(Accounts) /\ Len(AirdropReceivers(num)) = k
        BY <2>1, <2>2, <2>3
    <2> QED BY <2>4 DEF k
<1>8. Counted' = Counted + Len(AirdropReceivers(num))
    <2> HIDE DEF n
    <2>1. numAirdropped' = n
        BY <1>2 DEF n
    <2> QED BY <1>1, <1>2, <1>4, <1>7, <2>1, CountersType DEF Counted
<1> QED BY <1>2, <1>5, <1>6, <1>7, <1>8 DEF SellsTo, steeringVars

\* A batch of purchases yields a token for each of them.
LEMMA FlattenRepeat ==
    ASSUME NEW n \in Nat, n # 0, NEW r \in [1..n -> Accounts], NEW k \in [1..n -> Nat]
    PROVE  LET receivers == FlattenSeq([i \in 1..n |-> Repeat(r[i], k[i])])
           IN  receivers \in Seq(Accounts) /\ Len(receivers) = SumFunction(k)
<1> DEFINE seqs == [i \in 1..n |-> Repeat(r[i], k[i])]
<1>1. \A i \in 1..n : Repeat(r[i], k[i]) \in Seq(Accounts) /\ Len(Repeat(r[i], k[i])) = k[i]
    BY RepeatType
<1>2. seqs \in Seq(Seq(Accounts)) /\ Len(seqs) = n /\ seqs # <<>>
    <2>1. seqs \in [1..n -> Seq(Accounts)]
        BY <1>1
    <2> HIDE DEF seqs
    <2>2. seqs \in Seq(Seq(Accounts)) /\ Len(seqs) = n
        BY <2>1, FunctionIsSeq
    <2> QED BY <2>2
<1>3. \A i \in 1..n : Len(seqs[i]) = k[i]
    BY <1>1
<1> HIDE DEF seqs
<1>4. k \in [1..Len(seqs) -> Nat] /\ \A i \in 1..Len(seqs) : Len(seqs[i]) = k[i]
    BY <1>2, <1>3
<1>5. FlattenSeq(seqs) \in Seq(Accounts) /\ Len(FlattenSeq(seqs)) = SumFunction(k)
    BY <1>2, <1>4, FlattenLen
<1> QED BY <1>5 DEF seqs

\* A batch of free purchases.
LEMMA FreeSale ==
    ASSUME NEW batch \in FreeBatches, SellersInv, FreePurchase(batch)
    PROVE  SellsTo(FlattenSeq([i \in DOMAIN batch |-> Repeat(batch[i].to, batch[i].num)]))
<1> USE DEF SellersInv
<1> DEFINE n == Len(batch)
           r == [i \in 1..n |-> batch[i].to]
           k == [i \in 1..n |-> batch[i].num]
           receivers == FlattenSeq([i \in 1..n |-> Repeat(r[i], k[i])])
<1>1. /\ batch \in Seq([to : Accounts, num : Nums]) /\ batch # <<>>
      /\ n \in Nat /\ n # 0 /\ DOMAIN batch = 1..n
    BY BatchIsSeq DEF FreeBatches
<1>2. r \in [1..n -> Accounts] /\ k \in [1..n -> Nat]
    <2>1. \A i \in 1..n : batch[i] \in [to : Accounts, num : Nums]
        BY <1>1, ElementOfSeq
    <2>2. Nums \subseteq Nat
        BY SaleAssumption DEF Nums
    <2> HIDE DEF n
    <2> QED BY <2>1, <2>2
<1>3. receivers \in Seq(Accounts) /\ Len(receivers) = SumFunction(k)
    <2> HIDE DEF n, r, k
    <2> QED BY <1>1, <1>2, FlattenRepeat
<1>4. SumFunction(k) \in Nat
    <2>1. IsFiniteSet(1..n)
        BY <1>1, FS_Interval
    <2> HIDE DEF n, k
    <2> QED BY <1>2, <2>1, SumType
<1>5. [i \in DOMAIN batch |-> batch[i].num] = k
    BY <1>1
<1>6. [i \in DOMAIN batch |-> Repeat(batch[i].to, batch[i].num)] = [i \in 1..n |-> Repeat(r[i], k[i])]
    BY <1>1
<1>7. /\ numSold' = numSold + SumFunction(k) /\ numSold' <= MaxNumSellable
      /\ UNCHANGED <<envVars, steeringVars, bought, purchased, usedTokens, numAirdropped, held>>
    <2> HIDE DEF k
    <2> QED BY <1>5 DEF FreePurchase
<1> HIDE DEF k
<1>8. SellersTypeOK' /\ LimitsHold'
    BY <1>4, <1>7 DEF SellersTypeOK, LimitsHold, envVars, steeringVars
<1>9. Counted' = Counted + SumFunction(k)
    BY <1>4, <1>7, CountersType DEF Counted
<1>10. SellsTo(receivers)
    <2> HIDE DEF receivers
    <2> QED BY <1>3, <1>7, <1>8, <1>9 DEF SellsTo, steeringVars
<1> QED BY <1>6, <1>10

\* A batch of purchases with signed allowances, the same one several times
\* maybe.
LEMMA SignedSale ==
    ASSUME NEW batch \in SignedBatches, NEW value \in Values, SellersInv, SignedPurchase(batch, value)
    PROVE  SellsTo(FlattenSeq([i \in DOMAIN batch |->
                                  Repeat(batch[i].allowance.receiver, batch[i].num)]))
<1> USE DEF SellersInv
<1> DEFINE n == Len(batch)
           g == [i \in 1..n |-> batch[i].allowance]
           r == [i \in 1..n |-> batch[i].allowance.receiver]
           k == [i \in 1..n |-> batch[i].num]
           q == [a \in Allowances |-> SumFunction([i \in 1..n |-> IF g[i] = a THEN k[i] ELSE 0])]
           receivers == FlattenSeq([i \in 1..n |-> Repeat(r[i], k[i])])
<1>1. /\ batch \in Seq([allowance : Allowances, signer : Signers, num : Nums]) /\ batch # <<>>
      /\ n \in Nat /\ n # 0 /\ DOMAIN batch = 1..n /\ IsFiniteSet(1..n)
    BY BatchIsSeq DEF SignedBatches
<1>2. /\ g \in [1..n -> Allowances] /\ r \in [1..n -> Accounts] /\ k \in [1..n -> Nat]
    <2>1. \A i \in 1..n : batch[i] \in [allowance : Allowances, signer : Signers, num : Nums]
        BY <1>1, ElementOfSeq
    <2>2. Nums \subseteq Nat
        BY SaleAssumption DEF Nums
    <2>3. \A a \in Allowances : a.receiver \in Accounts
        BY SellersAssumption
    <2> HIDE DEF n
    <2> QED BY <2>1, <2>2, <2>3
<1>3. receivers \in Seq(Accounts) /\ Len(receivers) = SumFunction(k)
    <2> HIDE DEF n, r, k
    <2> QED BY <1>1, <1>2, FlattenRepeat
<1>4. SumFunction(k) \in Nat
    <2> HIDE DEF n, k
    <2> QED BY <1>1, <1>2, SumType
<1>5. \A a \in Allowances : Requested(batch, a) = q[a]
    <2>1. \A a \in Allowances : [i \in DOMAIN batch |-> IF batch[i].allowance = a THEN batch[i].num ELSE 0]
                                = [i \in 1..n |-> IF g[i] = a THEN k[i] ELSE 0]
        BY <1>1
    <2> HIDE DEF n, g, k
    <2> QED BY <2>1 DEF Requested
<1>6. [i \in DOMAIN batch |-> Repeat(batch[i].allowance.receiver, batch[i].num)]
          = [i \in 1..n |-> Repeat(r[i], k[i])]
    BY <1>1
<1>7. /\ purchased' = [a \in Allowances |-> purchased[a] + Requested(batch, a)]
      /\ \A i \in 1..n : purchased'[g[i]] <= g[i].numMax
      /\ UNCHANGED <<envVars, steeringVars, bought, numSold, usedTokens, numAirdropped>>
    BY <1>1 DEF SignedPurchase
<1>8. held' = held
    <2>1. value \in Nat /\ value = BatchCost(batch) /\ Forward("signed", value, BatchCost(batch))
        BY SaleAssumption DEF SignedPurchase, Values
    <2> QED BY <2>1, ForwardAll DEF Sellers
<1>9. IsFiniteSet(Allowances) /\ purchased \in [Allowances -> Nat]
    BY SellersAssumption DEF SellersTypeOK
<1> HIDE DEF n, g, r, k
<1>10. \A a \in Allowances : q[a] \in Nat
    <2> SUFFICES ASSUME NEW a \in Allowances PROVE q[a] \in Nat
        OBVIOUS
    <2> DEFINE f == [i \in 1..n |-> IF g[i] = a THEN k[i] ELSE 0]
    <2>1. f \in [1..n -> Nat]
        BY <1>2
    <2> HIDE DEF f
    <2>2. SumFunction(f) \in Nat
        BY <1>1, <2>1, SumType
    <2> QED BY <2>2 DEF f
<1>11. \A a \in Allowances : (\A i \in 1..n : g[i] # a) => q[a] = 0
    <2> SUFFICES ASSUME NEW a \in Allowances, \A i \in 1..n : g[i] # a PROVE q[a] = 0
        OBVIOUS
    <2> DEFINE f == [i \in 1..n |-> IF g[i] = a THEN k[i] ELSE 0]
    <2>1. f \in [1..n -> Int] /\ \A i \in 1..n : f[i] = 0
        BY <1>2
    <2> HIDE DEF f
    <2>2. SumFunction(f) = 0
        BY <1>1, <2>1, SumZero
    <2> QED BY <2>2 DEF f
<1>12. SumFunction(q) = SumFunction(k)
    <2>1. k \in [1..n -> Int]
        BY <1>2
    <2> HIDE DEF q
    <2>2. q = [a \in Allowances |-> GroupSum(1..n, g, k, a)]
        BY DEF q, GroupSum
    <2> DEFINE D == 1..n
    <2>3. /\ IsFiniteSet(D) /\ IsFiniteSet(Allowances)
          /\ g \in [D -> Allowances] /\ k \in [D -> Int]
          /\ q = [a \in Allowances |-> GroupSum(D, g, k, a)]
        BY <1>1, <1>2, <1>9, <2>1, <2>2
    <2> HIDE DEF D
    <2> QED BY <2>3, SumGroups
<1>13. q \in [Allowances -> Nat]
    BY <1>10
<1> HIDE DEF q
<1>14. purchased' \in [Allowances -> Nat] /\ \A a \in Allowances : purchased'[a] = purchased[a] + q[a]
    BY <1>5, <1>7, <1>9, <1>13
<1>15. SellersTypeOK'
    BY <1>7, <1>8, <1>14 DEF SellersTypeOK, envVars, steeringVars
<1>16. LimitsHold'
    <2>1. ASSUME NEW a \in Allowances PROVE purchased'[a] <= a.numMax
        <3>1. CASE \E i \in 1..n : g[i] = a
            BY <1>7, <3>1
        <3>2. CASE \A i \in 1..n : g[i] # a
            <4>1. purchased'[a] = purchased[a]
                BY <1>9, <1>11, <1>14, <3>2
            <4> QED BY <4>1 DEF LimitsHold
        <3> QED BY <3>1, <3>2
    <2> QED BY <1>7, <2>1 DEF LimitsHold, steeringVars
<1>17. SumFunction(purchased') = SumFunction(purchased) + SumFunction(k)
    <2> DEFINE f == purchased
               h == purchased'
    <2>1. /\ f \in [Allowances -> Int] /\ h \in [Allowances -> Int] /\ q \in [Allowances -> Int]
          /\ \A a \in Allowances : h[a] = f[a] + q[a]
        BY <1>9, <1>13, <1>14
    <2> HIDE DEF f, h
    <2>2. SumFunction(h) = SumFunction(f) + SumFunction(q)
        BY <1>9, <2>1, SumAdd
    <2> QED BY <1>12, <2>2 DEF f, h
<1>18. Counted' = Counted + SumFunction(k)
    BY <1>4, <1>7, <1>17, CountersType DEF Counted
<1>19. SellsTo(receivers)
    <2> HIDE DEF receivers
    <2> QED BY <1>3, <1>7, <1>8, <1>15, <1>16, <1>18 DEF SellsTo, steeringVars
<1> QED BY <1>6, <1>19

-----------------------------------------------------------------------------

(*****************************************************************************)
(* The pool of projects.                                                     *)
(*****************************************************************************)

\* What a purchase of the pool relies on and keeps.
PoolInv == PoolTypeOK /\ EditionsAreContiguous

\* A purchase of several projects at once, the same one several times maybe,
\* mints the next editions of each.
LEMMA PoolSale ==
    ASSUME NEW seller, NEW ids \in Seq(0..NumProjects), NEW value \in Nat,
           PoolInv, PoolHandleSale(seller, ids, value)
    PROVE  PoolInv' /\ Len(info') = Len(info) + Len(ids)
<1> DEFINE minted == Editions(ids)
           n == Len(ids)
           K(p) == Among(ids, n, p)
           Token == [projectId : Projects, edition : Nat]
<1>1. n \in Nat /\ DOMAIN ids = 1..n /\ info \in Seq(Token) /\ purchasedPer \in [Projects -> Nat]
    BY DEF PoolInv, PoolTypeOK
<1>2. /\ \A i \in 1..n : ids[i] \in Projects /\ minted[i].edition < MaxNumPerProject[ids[i]]
      /\ info' = info \o minted
      /\ purchasedPer' = [p \in Projects |-> purchasedPer[p] + K(p)]
      /\ poolBalance' = poolBalance + value
      /\ UNCHANGED poolRoleVars
    BY <1>1 DEF PoolHandleSale
<1>3. \A p \in Projects : \A i \in 0..n : Among(ids, i, p) \in Nat
    <2>1. \A i \in 0..n : i \in Nat
        BY <1>1
    <2> QED BY <2>1, AmongType
<1>4. /\ minted = [i \in 1..n |-> minted[i]]
      /\ \A i \in 1..n : minted[i] = [projectId |-> ids[i],
                           edition |-> purchasedPer[ids[i]] + Among(ids, i - 1, ids[i])]
    BY <1>1 DEF Editions
<1>5. minted \in [1..n -> Token]
    <2>1. \A i \in 1..n : minted[i] \in Token
        <3> SUFFICES ASSUME NEW i \in 1..n PROVE minted[i] \in Token
            OBVIOUS
        <3>1. i - 1 \in 0..n /\ ids[i] \in Projects
            BY <1>1, <1>2
        <3>2. purchasedPer[ids[i]] \in Nat /\ Among(ids, i - 1, ids[i]) \in Nat
            BY <1>1, <1>3, <3>1
        <3>3. purchasedPer[ids[i]] + Among(ids, i - 1, ids[i]) \in Nat
            BY <3>2
        <3> HIDE DEF minted
        <3> QED BY <1>4, <3>1, <3>3
    <2> HIDE DEF minted, Token
    <2> QED BY <1>4, <2>1
<1> HIDE DEF minted, Token
<1>6. minted \in Seq(Token) /\ Len(minted) = n
    BY <1>1, <1>5, FunctionIsSeq
<1>7. info' \in Seq(Token) /\ Len(info') = Len(info) + n
    <2>1. IsConcat(info, minted, info', Token)
        BY <1>1, <1>2, <1>6, ConcatIsConcat
    <2> QED BY <1>6, <2>1 DEF IsConcat
<1>8. n \in 0..n
    BY <1>1
<1>9. \A p \in Projects : K(p) \in Nat
    BY <1>3, <1>8
<1>10. purchasedPer' \in [Projects -> Nat]
    <2> HIDE DEF K
    <2> QED BY <1>1, <1>2, <1>9
<1>11. PoolTypeOK'
    <2>1. poolBalance' \in Nat
        BY <1>2 DEF PoolInv, PoolTypeOK
    <2>2. PoolRole!RoleTypeOK'
        BY <1>2 DEF PoolInv, PoolTypeOK, PoolRole!RoleTypeOK, poolRoleVars
    <2> QED BY <1>7, <1>10, <2>1, <2>2 DEF PoolTypeOK, Token
<1>12. ASSUME NEW p \in Projects
       PROVE  LET tokens == {t \in DOMAIN info' : info'[t].projectId = p}
              IN  /\ purchasedPer'[p] <= MaxNumPerProject[p]
                  /\ Cardinality(tokens) = purchasedPer'[p]
                  /\ {info'[t].edition : t \in tokens} = 0..(purchasedPer'[p] - 1)
    <2> DEFINE c == purchasedPer[p]
               k == K(p)
               I == {t \in DOMAIN info : info[t].projectId = p}
               J == {j \in 1..n : ids[j] = p}
               tokens == {t \in DOMAIN info' : info'[t].projectId = p}
    <2>1. c \in Nat /\ k \in Nat /\ purchasedPer'[p] = c + k
        <3> HIDE DEF K
        <3> QED BY <1>1, <1>2, <1>9
    <2>2. /\ c <= MaxNumPerProject[p] /\ Cardinality(I) = c
          /\ {info[t].edition : t \in I} = 0..(c - 1)
        BY DEF PoolInv, EditionsAreContiguous
    <2>3. Cardinality(J) = k
        BY DEF Among
    <2>4. {Among(ids, j - 1, p) : j \in J} = 0..(k - 1)
        BY <1>1, AmongCounts
    <2>5. \A j \in J : /\ minted[j].projectId = p
                       /\ minted[j].edition = c + Among(ids, j - 1, p)
        BY <1>4
    <2>6. \A j \in 1..n : minted[j].projectId = ids[j]
        BY <1>4
    <2>7. /\ Len(info) \in Nat /\ DOMAIN info = 1..Len(info) /\ DOMAIN info' = 1..(Len(info) + n)
          /\ \A t \in 1..Len(info) : info'[t] = info[t]
          /\ \A j \in 1..n : info'[Len(info) + j] = minted[j]
        <3>1. IsConcat(info, minted, info', Token)
            BY <1>1, <1>2, <1>6, ConcatIsConcat
        <3> QED BY <1>6, <3>1 DEF IsConcat
    <2>8. tokens = I \cup {Len(info) + j : j \in J}
        <3>1. ASSUME NEW t \in tokens PROVE t \in I \cup {Len(info) + j : j \in J}
            <4>1. CASE t <= Len(info)
                BY <2>7, <4>1
            <4>2. CASE ~(t <= Len(info))
                <5>1. t - Len(info) \in 1..n /\ t = Len(info) + (t - Len(info))
                    BY <1>1, <2>7, <4>2
                <5>2. ids[t - Len(info)] = p
                    BY <2>6, <2>7, <5>1
                <5> QED BY <5>1, <5>2
            <4> QED BY <4>1, <4>2
        <3>2. ASSUME NEW t \in I PROVE t \in tokens
            BY <1>1, <2>7
        <3>3. ASSUME NEW j \in J PROVE Len(info) + j \in tokens
            <4>1. Len(info) + j \in 1..(Len(info) + n)
                BY <1>1, <2>7
            <4> QED BY <2>6, <2>7, <4>1
        <3> HIDE DEF I, J, tokens
        <3> QED BY <3>1, <3>2, <3>3
    <2>9. Cardinality(tokens) = c + k
        <3>1. I \in SUBSET (1..Len(info)) /\ J \in SUBSET (1..n) /\ Len(info) \in Nat
            BY <2>7
        <3> HIDE DEF I, J, tokens, n
        <3>2. Cardinality(I \cup Shifted(Len(info), J)) = Cardinality(I) + Cardinality(J)
            <4>1. IsFiniteSet(1..n)
                BY <1>1, FS_Interval
            <4>2. IsFiniteSet(J)
                BY <3>1, <4>1, FS_Subset
            <4>3. J \in SUBSET (Nat \ {0})
                BY <3>1
            <4> QED BY <3>1, <4>2, <4>3, ShiftedUnion
        <3> QED BY <2>2, <2>3, <2>8, <3>2 DEF Shifted
    <2>10. {info'[t].edition : t \in tokens} = 0..(c + k - 1)
        <3>1. \A t \in I : info'[t].edition \in 0..(c - 1)
            <4>1. \A t \in I : info[t].edition \in {info[u].edition : u \in I} /\ t \in 1..Len(info)
                BY <2>7
            <4> HIDE DEF I
            <4> QED BY <2>2, <2>7, <4>1
        <3>2. \A m \in 0..(c - 1) : \E t \in I : info'[t].edition = m
            <4>1. \A m \in 0..(c - 1) : \E t \in I : info[t].edition = m
                <5> HIDE DEF I
                <5> QED BY <2>2
            <4>2. \A t \in I : t \in 1..Len(info)
                BY <2>7
            <4> HIDE DEF I
            <4> QED BY <2>7, <4>1, <4>2
        <3>3. \A j \in J : j \in 1..n /\ info'[Len(info) + j].edition = c + Among(ids, j - 1, p)
            BY <2>5, <2>7
        <3> HIDE DEF I, J, tokens, k, c
        <3>4. \A j \in J : Among(ids, j - 1, p) \in 0..(k - 1)
            BY <2>4
        <3>5. \A m \in 0..(k - 1) : \E j \in J : Among(ids, j - 1, p) = m
            BY <2>4
        <3>6. ASSUME NEW t \in tokens PROVE info'[t].edition \in 0..(c + k - 1)
            <4>1. CASE t \in I
                BY <2>1, <3>1, <4>1
            <4>2. CASE t \in {Len(info) + j : j \in J}
                <5>1. PICK j \in J : t = Len(info) + j
                    BY <4>2
                <5>2. info'[t].edition = c + Among(ids, j - 1, p)
                    BY <3>3, <5>1
                <5>3. Among(ids, j - 1, p) \in 0..(k - 1)
                    BY <3>4
                <5> QED BY <2>1, <5>2, <5>3
            <4> QED BY <2>8, <4>1, <4>2
        <3>7. ASSUME NEW m \in 0..(c + k - 1) PROVE \E t \in tokens : info'[t].edition = m
            <4>1. CASE m <= c - 1
                <5>1. m \in 0..(c - 1)
                    BY <2>1, <4>1
                <5> QED BY <2>8, <3>2, <5>1
            <4>2. CASE ~(m <= c - 1)
                <5>1. m - c \in 0..(k - 1) /\ c + (m - c) = m
                    BY <2>1, <4>2
                <5>2. PICK j \in J : Among(ids, j - 1, p) = m - c
                    BY <3>5, <5>1
                <5>3. info'[Len(info) + j].edition = m
                    BY <3>3, <5>1, <5>2
                <5>4. Len(info) + j \in tokens
                    BY <2>8
                <5> QED BY <5>3, <5>4
            <4> QED BY <4>1, <4>2
        <3> QED BY <3>6, <3>7
    <2>11. c + k <= MaxNumPerProject[p]
        <3>1. CASE k = 0
            BY <2>1, <2>2, <3>1
        <3>2. CASE k # 0
            <4> HIDE DEF J, k, K, c
            <4>1. k - 1 \in {Among(ids, j - 1, p) : j \in J}
                <5>1. k \in Nat /\ k # 0
                    BY <2>1, <3>2
                <5>2. k - 1 \in 0..(k - 1)
                    BY <5>1
                <5> QED BY <2>4, <5>2, Zenon
            <4>2. PICK j \in J : Among(ids, j - 1, p) = k - 1
                BY <4>1
            <4>3. j \in 1..n /\ ids[j] = p
                BY DEF J
            <4>4. minted[j].edition = c + (k - 1) /\ minted[j].edition < MaxNumPerProject[p]
                BY <1>2, <2>5, <4>2, <4>3
            <4>5. MaxNumPerProject[p] \in Nat
                BY ProjectPoolAssumption
            <4> HIDE DEF c
            <4> QED BY <2>1, <4>4, <4>5
        <3> QED BY <3>1, <3>2
    <2> HIDE DEF tokens, c, k
    <2>12. /\ purchasedPer'[p] <= MaxNumPerProject[p]
           /\ Cardinality(tokens) = purchasedPer'[p]
           /\ {info'[t].edition : t \in tokens} = 0..(purchasedPer'[p] - 1)
        BY <2>1, <2>9, <2>10, <2>11
    <2> QED BY <2>12 DEF tokens
<1>13. EditionsAreContiguous'
    BY <1>12 DEF EditionsAreContiguous
<1> QED BY <1>7, <1>11, <1>13 DEF PoolInv

-----------------------------------------------------------------------------

(*****************************************************************************)
(* The redeemers.  They keep what they give in variables of their own; the   *)
(* argument is about how often a voucher occurs in all of them together.     *)
(*****************************************************************************)

\* Whatever is given for a voucher refers to a voucher that has been minted.
GoodsTypeOK ==
    /\ owner \in Seq(Accounts \cup {Nobody})
    /\ records \in [Accounts -> Seq(DOMAIN owner)]
    /\ passOf \in Seq(DOMAIN owner)
    /\ ranked \in Seq([id : DOMAIN owner, ranking : Rankings])
    /\ burnt \in Seq(DOMAIN owner)

\* Every burnt voucher has been exchanged once, the others have not been.
OncePerBurn == \A id \in DOMAIN owner : Exchanged(id) = IF owner[id] = Nobody THEN 1 ELSE 0

\* The part of the invariant about what was given for vouchers.
GoodsInv == GoodsTypeOK /\ OncePerBurn

\* What Exchanged() adds up.
Recorded(id) == [a \in Accounts |-> Count(records[a], id)]

\* The vouchers for which a ranking was recorded.
RankedIds == [i \in DOMAIN ranked |-> ranked[i].id]

\* Exchanged() as the sum of what each redeemer's contract counts.
ExchangesAreCounted ==
    \A id : Exchanged(id) = SumFunction(Recorded(id)) + Count(passOf, id)
                            + Count(RankedIds, id) + Count(burnt, id)

\* It is that sum.
LEMMA ExchangedIsCounted == ExchangesAreCounted
<1> SUFFICES ASSUME NEW id
             PROVE  Exchanged(id) = SumFunction(Recorded(id)) + Count(passOf, id)
                                    + Count(RankedIds, id) + Count(burnt, id)
    BY DEF ExchangesAreCounted
<1>1. DOMAIN RankedIds = DOMAIN ranked /\ \A i \in DOMAIN ranked : RankedIds[i] = ranked[i].id
    BY DEF RankedIds
<1>2. {i \in DOMAIN ranked : ranked[i].id = id} = {i \in DOMAIN RankedIds : RankedIds[i] = id}
    BY <1>1
<1>3. Cardinality({i \in DOMAIN ranked : ranked[i].id = id}) = Count(RankedIds, id)
    BY <1>2, Zenon DEF Count
<1> QED BY <1>3, Zenon DEF Exchanged, Recorded, Count

\* Rankings are about minted vouchers.
LEMMA RankedIdsType ==
    ASSUME GoodsTypeOK
    PROVE  RankedIds \in Seq(DOMAIN owner)
<1>1. /\ Len(ranked) \in Nat /\ DOMAIN ranked = 1..Len(ranked)
      /\ \A i \in 1..Len(ranked) : ranked[i] \in [id : DOMAIN owner, ranking : Rankings]
    <2> DEFINE X == [id : DOMAIN owner, ranking : Rankings]
    <2>1. ranked \in Seq(X)
        BY DEF GoodsTypeOK
    <2> HIDE DEF X
    <2>2. Len(ranked) \in Nat /\ DOMAIN ranked = 1..Len(ranked) /\ \A i \in 1..Len(ranked) : ranked[i] \in X
        BY <2>1, ElementOfSeq
    <2> QED BY <2>2 DEF X
<1>2. RankedIds \in [1..Len(ranked) -> DOMAIN owner]
    BY <1>1 DEF RankedIds
<1> QED BY <1>1, <1>2, FunctionIsSeq

\* Each of the counts is a number.
LEMMA CountsType ==
    ASSUME GoodsTypeOK, NEW id
    PROVE  /\ Recorded(id) \in [Accounts -> Nat]
           /\ SumFunction(Recorded(id)) \in Nat /\ Count(passOf, id) \in Nat
           /\ Count(RankedIds, id) \in Nat /\ Count(burnt, id) \in Nat
<1>1. \A a \in Accounts : Count(records[a], id) \in Nat
    <2>1. \A a \in Accounts : records[a] \in Seq(DOMAIN owner)
        BY DEF GoodsTypeOK
    <2> QED BY <2>1, CountType
<1>2. Recorded(id) \in [Accounts -> Nat]
    BY <1>1 DEF Recorded
<1>3. SumFunction(Recorded(id)) \in Nat
    BY <1>2, AccountsAssumption, SumType
<1>4. Count(passOf, id) \in Nat
    BY CountType DEF GoodsTypeOK
<1>5. Count(RankedIds, id) \in Nat
    BY RankedIdsType, CountType
<1>6. Count(burnt, id) \in Nat
    BY CountType DEF GoodsTypeOK
<1> QED BY <1>2, <1>3, <1>4, <1>5, <1>6

\* What has not been minted has not been exchanged.
LEMMA NotMinted ==
    ASSUME GoodsTypeOK, NEW id, id \notin DOMAIN owner
    PROVE  Exchanged(id) = 0
<1>1. \A a \in Accounts : Count(records[a], id) = 0
    <2>1. \A a \in Accounts : records[a] \in Seq(DOMAIN owner)
        BY DEF GoodsTypeOK
    <2> QED BY <2>1, CountAbsent
<1>2. Recorded(id) \in [Accounts -> Int] /\ \A a \in Accounts : Recorded(id)[a] = 0
    BY <1>1 DEF Recorded
<1>3. SumFunction(Recorded(id)) = 0
    BY <1>2, AccountsAssumption, SumZero
<1>4. Count(passOf, id) = 0
    BY CountAbsent DEF GoodsTypeOK
<1>5. Count(RankedIds, id) = 0
    BY RankedIdsType, CountAbsent
<1>6. Count(burnt, id) = 0
    BY CountAbsent DEF GoodsTypeOK
<1> QED BY <1>3, <1>4, <1>5, <1>6, ExchangedIsCounted DEF ExchangesAreCounted

-----------------------------------------------------------------------------

\* The goods stay, while vouchers are minted.
LEMMA GoodsOfGrowing ==
    ASSUME GoodsTypeOK, owner' \in Seq(Accounts \cup {Nobody}), DOMAIN owner \subseteq DOMAIN owner',
           UNCHANGED goodsVars
    PROVE  GoodsTypeOK' /\ \A id : Exchanged(id)' = Exchanged(id)
<1> DEFINE D == DOMAIN owner
           E == DOMAIN owner'
<1>1. D \subseteq E
    OBVIOUS
<1>2. records \in [Accounts -> Seq(D)] /\ passOf \in Seq(D) /\ burnt \in Seq(D)
      /\ ranked \in Seq([id : D, ranking : Rankings])
    BY DEF GoodsTypeOK
<1>3. records' = records /\ passOf' = passOf /\ burnt' = burnt /\ ranked' = ranked
    BY DEF goodsVars
<1> HIDE DEF D, E
<1>4. Seq(D) \subseteq Seq(E)
    BY <1>1, SeqMonotonic
<1>5. [id : D, ranking : Rankings] \subseteq [id : E, ranking : Rankings]
    BY <1>1
<1>6. Seq([id : D, ranking : Rankings]) \subseteq Seq([id : E, ranking : Rankings])
    BY <1>5, SeqMonotonic
<1>7. /\ records' \in [Accounts -> Seq(E)] /\ passOf' \in Seq(E) /\ burnt' \in Seq(E)
      /\ ranked' \in Seq([id : E, ranking : Rankings])
    BY <1>2, <1>3, <1>4, <1>6
<1>8. GoodsTypeOK'
    BY <1>7 DEF GoodsTypeOK, E
<1>9. \A id : Exchanged(id)' = Exchanged(id)
    BY <1>3 DEF Exchanged
<1> QED BY <1>8, <1>9

\* New vouchers have not been exchanged for anything.
LEMMA GoodsOfSale ==
    ASSUME GoodsInv, NEW receivers \in Seq(Accounts), owner' = owner \o receivers,
           UNCHANGED goodsVars
    PROVE  GoodsInv' /\ Len(owner') = Len(owner) + Len(receivers)
<1> DEFINE X == Accounts \cup {Nobody}
<1>1. owner \in Seq(X) /\ receivers \in Seq(X)
    <2>1. Seq(Accounts) \subseteq Seq(X)
        BY SeqMonotonic
    <2> QED BY <2>1 DEF GoodsInv, GoodsTypeOK
<1>2. IsConcat(owner, receivers, owner', X)
    <2> HIDE DEF X
    <2> QED BY <1>1, ConcatIsConcat
<1>3. owner' \in Seq(X) /\ DOMAIN owner \subseteq DOMAIN owner' /\ Len(owner') = Len(owner) + Len(receivers)
    BY <1>2 DEF IsConcat
<1>4. GoodsTypeOK' /\ \A id : Exchanged(id)' = Exchanged(id)
    BY <1>3, GoodsOfGrowing DEF GoodsInv
<1>5. ASSUME NEW id \in DOMAIN owner' PROVE Exchanged(id)' = IF owner'[id] = Nobody THEN 1 ELSE 0
    <2>1. CASE id \in DOMAIN owner
        <3>1. owner'[id] = owner[id]
            BY <1>2, <2>1 DEF IsConcat
        <3>2. Exchanged(id) = IF owner[id] = Nobody THEN 1 ELSE 0
            BY <2>1 DEF GoodsInv, OncePerBurn
        <3> QED BY <1>4, <3>1, <3>2
    <2>2. CASE id \notin DOMAIN owner
        <3>1. /\ Len(owner) \in Nat /\ Len(receivers) \in Nat /\ DOMAIN owner = 1..Len(owner)
              /\ DOMAIN owner' = 1..(Len(owner) + Len(receivers))
              /\ \A j \in 1..Len(receivers) : owner'[Len(owner) + j] = receivers[j]
            BY <1>2 DEF IsConcat
        <3>2. PICK j \in 1..Len(receivers) : id = Len(owner) + j
            <4>1. id - Len(owner) \in 1..Len(receivers) /\ id = Len(owner) + (id - Len(owner))
                BY <2>2, <3>1
            <4> QED BY <4>1
        <3>3. owner'[id] = receivers[j] /\ receivers[j] \in Accounts
            BY <3>1, <3>2, ElementOfSeq
        <3>4. owner'[id] # Nobody
            BY <3>3, VoucherAssumption
        <3>5. Exchanged(id) = 0
            BY <2>2, NotMinted DEF GoodsInv
        <3> QED BY <1>4, <3>4, <3>5
    <2> QED BY <2>1, <2>2
<1>6. OncePerBurn'
    BY <1>5 DEF OncePerBurn
<1> QED BY <1>3, <1>4, <1>6 DEF GoodsInv

\* A transfer neither burns nor exchanges a voucher.
LEMMA GoodsOfTransfer ==
    ASSUME GoodsInv, NEW id \in DOMAIN owner, NEW to \in Accounts, Transfer(id, to),
           UNCHANGED goodsVars
    PROVE  GoodsInv' /\ Len(owner') = Len(owner)
<1>1. /\ owner' = [owner EXCEPT ![id] = to] /\ owner[id] # Nobody
    BY DEF Transfer, Exists
<1>2. owner \in Seq(Accounts \cup {Nobody})
    BY DEF GoodsInv, GoodsTypeOK
<1>3. /\ owner' \in Seq(Accounts \cup {Nobody}) /\ DOMAIN owner' = DOMAIN owner /\ Len(owner') = Len(owner)
    BY <1>1, <1>2, ExceptSeq
<1>4. GoodsTypeOK' /\ \A x : Exchanged(x)' = Exchanged(x)
    BY <1>3, GoodsOfGrowing DEF GoodsInv
<1>5. \A x \in DOMAIN owner : (owner'[x] = Nobody) <=> (owner[x] = Nobody)
    BY <1>1, <1>2, VoucherAssumption
<1>6. OncePerBurn'
    BY <1>3, <1>4, <1>5 DEF OncePerBurn, GoodsInv
<1> QED BY <1>3, <1>4, <1>6 DEF GoodsInv

\* Steps of the other contracts do not touch vouchers or goods.
LEMMA GoodsUnchanged ==
    ASSUME GoodsInv, owner' = owner, UNCHANGED goodsVars
    PROVE  GoodsInv' /\ Len(owner') = Len(owner)
<1>1. owner' \in Seq(Accounts \cup {Nobody}) /\ DOMAIN owner \subseteq DOMAIN owner'
    BY DEF GoodsInv, GoodsTypeOK
<1>2. GoodsTypeOK' /\ \A x : Exchanged(x)' = Exchanged(x)
    BY <1>1, GoodsOfGrowing DEF GoodsInv
<1> QED BY <1>2 DEF GoodsInv, OncePerBurn

-----------------------------------------------------------------------------

\* The vouchers ids, of which none is listed twice, are burnt in a step.
Burns(ids) ==
    /\ ids \in Seq(DOMAIN owner)
    /\ IsInjective(ids)
    /\ \A i \in DOMAIN ids : owner[ids[i]] # Nobody
    /\ owner' = [id \in DOMAIN owner |-> IF id \in ToSet(ids) THEN Nobody ELSE owner[id]]

\* Something has been given for each of ids.
Gives(ids) == \A id : Exchanged(id)' = Exchanged(id) + Count(ids, id)

\* Burning keeps the numbering of the vouchers.
LEMMA BurnKeepsOwners ==
    ASSUME owner \in Seq(Accounts \cup {Nobody}), NEW ids, Burns(ids)
    PROVE  owner' \in Seq(Accounts \cup {Nobody}) /\ DOMAIN owner' = DOMAIN owner /\ Len(owner') = Len(owner)
<1>1. Len(owner) \in Nat /\ DOMAIN owner = 1..Len(owner)
    OBVIOUS
<1>2. \A id \in DOMAIN owner : owner[id] \in Accounts \cup {Nobody}
    OBVIOUS
<1>3. owner' \in [1..Len(owner) -> Accounts \cup {Nobody}] /\ DOMAIN owner' = DOMAIN owner
    BY <1>1, <1>2 DEF Burns
<1> QED BY <1>1, <1>3, FunctionIsSeq

\* One redemption of several vouchers that burns each of them and gives one good
\* for each keeps the goods in line with the burns.
LEMMA GoodsOfBurn ==
    ASSUME GoodsInv, NEW ids, Burns(ids), Gives(ids), GoodsTypeOK'
    PROVE  GoodsInv'
<1>1. DOMAIN owner' = DOMAIN owner
    BY BurnKeepsOwners DEF GoodsInv, GoodsTypeOK
<1>2. ASSUME NEW id \in DOMAIN owner PROVE Exchanged(id)' = IF owner'[id] = Nobody THEN 1 ELSE 0
    <2>1. Count(ids, id) = IF id \in ToSet(ids) THEN 1 ELSE 0
        BY CountInjective DEF Burns
    <2>2. Exchanged(id)' = Exchanged(id) + Count(ids, id)
        BY DEF Gives
    <2>3. Exchanged(id) = IF owner[id] = Nobody THEN 1 ELSE 0
        BY DEF GoodsInv, OncePerBurn
    <2>4. CASE id \in ToSet(ids)
        <3>1. owner[id] # Nobody /\ owner'[id] = Nobody
            BY <2>4 DEF Burns, ToSet
        <3> QED BY <2>1, <2>2, <2>3, <2>4, <3>1
    <2>5. CASE id \notin ToSet(ids)
        <3>1. owner'[id] = owner[id]
            BY <2>5 DEF Burns
        <3> QED BY <2>1, <2>2, <2>3, <2>5, <3>1
    <2> QED BY <2>4, <2>5
<1>3. OncePerBurn'
    BY <1>1, <1>2 DEF OncePerBurn
<1> QED BY <1>3 DEF GoodsInv

\* Redeeming for mint passes.
LEMMA GoodsOfMintPass ==
    ASSUME GoodsInv, NEW ids, Burns(ids), passOf' = passOf \o ids, UNCHANGED <<records, ranked, burnt>>
    PROVE  GoodsInv' /\ Len(owner') = Len(owner) /\ Len(passOf') = Len(passOf) + Len(ids)
<1> DEFINE D == DOMAIN owner
<1>1. owner' \in Seq(Accounts \cup {Nobody}) /\ DOMAIN owner' = D /\ Len(owner') = Len(owner)
    BY BurnKeepsOwners DEF GoodsInv, GoodsTypeOK
<1>2. passOf \in Seq(D) /\ ids \in Seq(D)
    BY DEF GoodsInv, GoodsTypeOK, Burns
<1>3. passOf' \in Seq(D) /\ Len(passOf') = Len(passOf) + Len(ids)
    <2> HIDE DEF D
    <2> QED BY <1>2, ConcatProperties
<1>4. GoodsTypeOK'
    BY <1>1, <1>3 DEF GoodsInv, GoodsTypeOK
<1>5. ExchangesAreCounted'
    BY ExchangedIsCounted, PTL
<1>6. ASSUME NEW id PROVE Exchanged(id)' = Exchanged(id) + Count(ids, id)
    <2>1. Count(passOf', id) = Count(passOf, id) + Count(ids, id)
        BY <1>2, CountConcat
    <2>2. Recorded(id)' = Recorded(id) /\ RankedIds' = RankedIds /\ burnt' = burnt
        BY DEF Recorded, RankedIds
    <2>3. Exchanged(id)' = SumFunction(Recorded(id)) + Count(passOf', id)
                           + Count(RankedIds, id) + Count(burnt, id)
        BY <1>5, <2>2 DEF ExchangesAreCounted
    <2>4. Exchanged(id) = SumFunction(Recorded(id)) + Count(passOf, id)
                          + Count(RankedIds, id) + Count(burnt, id)
        BY ExchangedIsCounted DEF ExchangesAreCounted
    <2>5. /\ SumFunction(Recorded(id)) \in Nat /\ Count(passOf, id) \in Nat
          /\ Count(RankedIds, id) \in Nat /\ Count(burnt, id) \in Nat
        BY CountsType DEF GoodsInv
    <2>6. Count(ids, id) \in Nat
        BY <1>2, CountType
    <2> QED BY <2>1, <2>3, <2>4, <2>5, <2>6
<1>7. Gives(ids)
    BY <1>6 DEF Gives
<1> QED BY <1>1, <1>3, <1>4, <1>7, GoodsOfBurn

\* Redeeming with the redeemer that only burns.
LEMMA GoodsOfBurner ==
    ASSUME GoodsInv, NEW ids, Burns(ids), burnt' = burnt \o ids, UNCHANGED <<records, passOf, ranked>>
    PROVE  GoodsInv' /\ Len(owner') = Len(owner)
<1> DEFINE D == DOMAIN owner
<1>1. owner' \in Seq(Accounts \cup {Nobody}) /\ DOMAIN owner' = D /\ Len(owner') = Len(owner)
    BY BurnKeepsOwners DEF GoodsInv, GoodsTypeOK
<1>2. burnt \in Seq(D) /\ ids \in Seq(D)
    BY DEF GoodsInv, GoodsTypeOK, Burns
<1>3. burnt' \in Seq(D)
    <2> HIDE DEF D
    <2> QED BY <1>2, ConcatProperties
<1>4. GoodsTypeOK'
    BY <1>1, <1>3 DEF GoodsInv, GoodsTypeOK
<1>5. ExchangesAreCounted'
    BY ExchangedIsCounted, PTL
<1>6. ASSUME NEW id PROVE Exchanged(id)' = Exchanged(id) + Count(ids, id)
    <2>1. Count(burnt', id) = Count(burnt, id) + Count(ids, id)
        BY <1>2, CountConcat
    <2>2. Recorded(id)' = Recorded(id) /\ RankedIds' = RankedIds /\ passOf' = passOf
        BY DEF Recorded, RankedIds
    <2>3. Exchanged(id)' = SumFunction(Recorded(id)) + Count(passOf, id)
                           + Count(RankedIds, id) + Count(burnt', id)
        BY <1>5, <2>2 DEF ExchangesAreCounted
    <2>4. Exchanged(id) = SumFunction(Recorded(id)) + Count(passOf, id)
                          + Count(RankedIds, id) + Count(burnt, id)
        BY ExchangedIsCounted DEF ExchangesAreCounted
    <2>5. /\ SumFunction(Recorded(id)) \in Nat /\ Count(passOf, id) \in Nat
          /\ Count(RankedIds, id) \in Nat /\ Count(burnt, id) \in Nat
        BY CountsType DEF GoodsInv
    <2>6. Count(ids, id) \in Nat
        BY <1>2, CountType
    <2> QED BY <2>1, <2>3, <2>4, <2>5, <2>6
<1>7. Gives(ids)
    BY <1>6 DEF Gives
<1> QED BY <1>1, <1>4, <1>7, GoodsOfBurn

\* Redeeming with a ranking of choices.
LEMMA GoodsOfRanking ==
    ASSUME GoodsInv, NEW ids, Burns(ids), NEW rankings \in [DOMAIN ids -> AcceptedRankings],
           ranked' = ranked \o [i \in DOMAIN ids |-> [id |-> ids[i], ranking |-> rankings[i]]],
           UNCHANGED <<records, passOf, burnt>>
    PROVE  GoodsInv' /\ Len(owner') = Len(owner)
<1> DEFINE D == DOMAIN owner
           X == [id : D, ranking : Rankings]
           new == [i \in DOMAIN ids |-> [id |-> ids[i], ranking |-> rankings[i]]]
<1>1. owner' \in Seq(Accounts \cup {Nobody}) /\ DOMAIN owner' = D /\ Len(owner') = Len(owner)
    BY BurnKeepsOwners DEF GoodsInv, GoodsTypeOK
<1>2. ranked \in Seq(X) /\ ids \in Seq(D) /\ Len(ids) \in Nat /\ DOMAIN ids = 1..Len(ids)
    BY DEF GoodsInv, GoodsTypeOK, Burns
<1>3. new \in Seq(X) /\ Len(new) = Len(ids)
    <2>1. \A i \in 1..Len(ids) : ids[i] \in D /\ rankings[i] \in Rankings
        BY <1>2 DEF AcceptedRankings
    <2>2. new \in [1..Len(ids) -> X]
        <3> HIDE DEF D
        <3> QED BY <1>2, <2>1
    <2> HIDE DEF new, X
    <2> QED BY <1>2, <2>2, FunctionIsSeq
<1>4. \A i \in 1..Len(ids) : new[i].id = ids[i]
    BY <1>2
<1>5. IsConcat(ranked, new, ranked', X)
    <2> HIDE DEF X, new
    <2>1. ranked' = ranked \o new
        BY DEF new
    <2> QED BY <1>2, <1>3, <2>1, ConcatIsConcat
<1>6. RankedIds \in Seq(D) /\ DOMAIN RankedIds = DOMAIN ranked
    BY RankedIdsType DEF GoodsInv, RankedIds
<1> HIDE DEF new
<1>7. RankedIds' = RankedIds \o ids
    <2> DEFINE R == RankedIds
               m == Len(ranked)
               n == Len(ids)
    <2>1. IsConcat(R, ids, R \o ids, D)
        <3> HIDE DEF D
        <3> QED BY <1>2, <1>6, ConcatIsConcat
    <2>2. /\ m \in Nat /\ n \in Nat /\ DOMAIN ranked = 1..m /\ DOMAIN ranked' = 1..(m + n)
          /\ \A i \in 1..m : ranked'[i] = ranked[i]
          /\ \A j \in 1..n : ranked'[m + j] = new[j]
        BY <1>3, <1>5 DEF IsConcat
    <2>3. Len(R) = m
        BY <1>6, <2>2, LenProperties
    <2>4. /\ DOMAIN (R \o ids) = 1..(m + n)
          /\ \A i \in 1..m : (R \o ids)[i] = ranked[i].id
          /\ \A j \in 1..n : (R \o ids)[m + j] = ids[j]
        <3>1. \A i \in 1..m : R[i] = ranked[i].id
            BY <2>2 DEF RankedIds
        <3> HIDE DEF R
        <3> QED BY <2>1, <2>3, <3>1 DEF IsConcat
    <2>5. RankedIds' = [i \in 1..(m + n) |-> ranked'[i].id]
        BY <2>2 DEF RankedIds
    <2>6. ASSUME NEW i \in 1..(m + n) PROVE (R \o ids)[i] = ranked'[i].id
        <3>1. CASE i \in 1..m
            BY <2>2, <2>4, <3>1
        <3>2. CASE i \notin 1..m
            <4>1. PICK j \in 1..n : i = m + j
                <5>1. i - m \in 1..n /\ i = m + (i - m)
                    BY <2>2, <3>2
                <5> QED BY <5>1
            <4> QED BY <1>4, <2>2, <2>4, <4>1
        <3> QED BY <3>1, <3>2
    <2>7. R \o ids = [i \in 1..(m + n) |-> (R \o ids)[i]]
        <3>1. R \o ids \in Seq(D)
            BY <2>1 DEF IsConcat
        <3> DEFINE u == R \o ids
                   k == m + n
        <3>2. u \in Seq(D) /\ DOMAIN u = 1..k
            BY <2>4, <3>1
        <3> HIDE DEF D, u, k
        <3>3. u = [i \in 1..k |-> u[i]]
            BY <3>2
        <3> QED BY <3>3 DEF u, k
    <2> HIDE DEF m, n
    <2>8. R \o ids = [i \in 1..(m + n) |-> ranked'[i].id]
        <3> HIDE DEF R
        <3> QED BY <2>6, <2>7
    <2> QED BY <2>5, <2>8
<1>8. GoodsTypeOK'
    <2>1. ranked' \in Seq(X)
        BY <1>5 DEF IsConcat
    <2> QED BY <1>1, <2>1 DEF GoodsInv, GoodsTypeOK
<1>9. ExchangesAreCounted'
    BY ExchangedIsCounted, PTL
<1>10. ASSUME NEW id PROVE Exchanged(id)' = Exchanged(id) + Count(ids, id)
    <2>1. Count(RankedIds \o ids, id) = Count(RankedIds, id) + Count(ids, id)
        BY <1>2, <1>6, CountConcat
    <2>2. Recorded(id)' = Recorded(id) /\ burnt' = burnt /\ passOf' = passOf
        BY DEF Recorded
    <2>3. Exchanged(id)' = SumFunction(Recorded(id)) + Count(passOf, id)
                           + Count(RankedIds \o ids, id) + Count(burnt, id)
        BY <1>7, <1>9, <2>2 DEF ExchangesAreCounted
    <2>4. Exchanged(id) = SumFunction(Recorded(id)) + Count(passOf, id)
                          + Count(RankedIds, id) + Count(burnt, id)
        BY ExchangedIsCounted DEF ExchangesAreCounted
    <2>5. /\ SumFunction(Recorded(id)) \in Nat /\ Count(passOf, id) \in Nat
          /\ Count(RankedIds, id) \in Nat /\ Count(burnt, id) \in Nat
        BY CountsType DEF GoodsInv
    <2>6. Count(ids, id) \in Nat
        BY <1>2, CountType
    <2> QED BY <2>1, <2>3, <2>4, <2>5, <2>6
<1>11. Gives(ids)
    BY <1>10 DEF Gives
<1> QED BY <1>1, <1>8, <1>11, GoodsOfBurn

\* Redeeming with the redeemer that records who redeemed which voucher.
LEMMA GoodsOfRecord ==
    ASSUME GoodsInv, NEW sender \in Accounts, NEW v \in DOMAIN owner, Burns(<<v>>),
           records' = [records EXCEPT ![sender] = Append(@, v)], UNCHANGED <<passOf, ranked, burnt>>
    PROVE  GoodsInv' /\ Len(owner') = Len(owner)
<1> DEFINE D == DOMAIN owner
<1>1. owner' \in Seq(Accounts \cup {Nobody}) /\ DOMAIN owner' = D /\ Len(owner') = Len(owner)
    BY BurnKeepsOwners DEF GoodsInv, GoodsTypeOK
<1>2. records \in [Accounts -> Seq(D)] /\ v \in D
    BY DEF GoodsInv, GoodsTypeOK
<1>3. \A s \in Seq(D) : Append(s, v) \in Seq(D) /\ Append(s, v) = s \o <<v>> /\ <<v>> \in Seq(D)
    <2> HIDE DEF D
    <2> QED BY <1>2
<1>4. records' \in [Accounts -> Seq(D)]
    <2> HIDE DEF D
    <2> QED BY <1>2, <1>3
<1>5. GoodsTypeOK'
    BY <1>1, <1>4 DEF GoodsInv, GoodsTypeOK
<1>6. ExchangesAreCounted'
    BY ExchangedIsCounted, PTL
<1>7. ASSUME NEW id PROVE Exchanged(id)' = Exchanged(id) + Count(<<v>>, id)
    <2> DEFINE f == Recorded(id)
               h == [a \in Accounts |-> Count(records'[a], id)]
               d == Count(<<v>>, id)
    <2>1. /\ f \in [Accounts -> Nat]
          /\ SumFunction(f) \in Nat /\ Count(passOf, id) \in Nat
          /\ Count(RankedIds, id) \in Nat /\ Count(burnt, id) \in Nat
        BY CountsType DEF GoodsInv
    <2>2. d \in Nat
        BY <1>2, <1>3, CountType
    <2>3. Count(records'[sender], id) = Count(records[sender], id) + d
        <3>1. records'[sender] = records[sender] \o <<v>> /\ records[sender] \in Seq(D) /\ <<v>> \in Seq(D)
            BY <1>2, <1>3
        <3> HIDE DEF D
        <3>2. Count(records[sender] \o <<v>>, id) = Count(records[sender], id) + Count(<<v>>, id)
            BY <3>1, CountConcat
        <3> QED BY <3>1, <3>2
    <2>4. \A a \in Accounts : a # sender => records'[a] = records[a]
        BY <1>2
    <2>5. \A a \in Accounts : f[a] = Count(records[a], id) /\ h[a] = Count(records'[a], id)
        BY DEF Recorded
    <2>6. h[sender] = f[sender] + d /\ \A a \in Accounts : a # sender => h[a] = f[a]
        BY <2>3, <2>4, <2>5
    <2>7. h \in [Accounts -> Int]
        <3>1. \A a \in Accounts : h[a] \in Int
            BY <2>1, <2>2, <2>6
        <3> QED BY <3>1
    <2>8. Recorded(id)' = h
        BY DEF Recorded
    <2> HIDE DEF f, h, d
    <2>9. SumFunction(h) = SumFunction(f) + d
        <3>1. /\ f \in [Accounts -> Int] /\ h \in [Accounts -> Int] /\ h[sender] = f[sender] + d
              /\ \A a \in Accounts : a # sender => h[a] = f[a]
              /\ d \in Int /\ IsFiniteSet(Accounts)
            BY <2>1, <2>2, <2>6, <2>7, AccountsAssumption
        <3>2. IsUpdate(Accounts, f, h, sender, d)
            BY <3>1 DEF IsUpdate
        <3> QED BY <3>1, <3>2, SumUpdate
    <2>10. RankedIds' = RankedIds /\ burnt' = burnt /\ passOf' = passOf
        BY DEF RankedIds
    <2>11. Exchanged(id)' = SumFunction(h) + Count(passOf, id) + Count(RankedIds, id) + Count(burnt, id)
        BY <1>6, <2>8, <2>10 DEF ExchangesAreCounted
    <2>12. Exchanged(id) = SumFunction(f) + Count(passOf, id) + Count(RankedIds, id) + Count(burnt, id)
        BY ExchangedIsCounted DEF ExchangesAreCounted, f
    <2>13. Exchanged(id)' = Exchanged(id) + d
        BY <2>1, <2>2, <2>9, <2>11, <2>12
    <2> QED BY <2>13 DEF d
<1>8. Gives(<<v>>)
    BY <1>7 DEF Gives
<1> QED BY <1>1, <1>5, <1>8, GoodsOfBurn

-----------------------------------------------------------------------------

(***************************************************************************)
(* The invariant of the sale.                                              *)
(***************************************************************************)
SaleInv ==
    /\ SellersInv /\ GoodsInv /\ PoolInv /\ VoucherTypeOK
    /\ Len(owner) = Counted
    /\ Len(passOf) = Len(info)
    /\ changes \in 0..MaxChanges

\* The invariant is strong enough for the properties of the sale.
LEMMA SaleInvImplies ==
    SaleInv => LimitsHold /\ MintedIsSold /\ GoodsMatchBurns /\ EditionsAreContiguous
BY Zenon DEF SaleInv, SellersInv, GoodsInv, PoolInv, MintedIsSold, GoodsMatchBurns, Counted, OncePerBurn

\* It holds after the deployment of the contracts.
LEMMA SaleStart == SaleInit => SaleInv
<1> SUFFICES ASSUME SaleInit PROVE SaleInv
    OBVIOUS
<1>1. SellersInit /\ VoucherInit /\ PoolInit
    BY DEF SaleInit
<1>2. SellersTypeOK
    BY <1>1, SellersAssumption DEF SellersInit, SellersTypeOK, Priced, GatingTokens
<1>3. LimitsHold
    <2>1. \A a \in Allowances : a.numMax \in Nat
        BY SellersAssumption
    <2> QED BY <1>1, <2>1, SellersAssumption DEF SellersInit, LimitsHold
<1>4. SellersInv
    BY <1>1, <1>2, <1>3, SellersAssumption DEF SellersInit, SellersInv
<1>5. Counted = 0
    <2>1. SumFunction(bought) = 0
        <3>1. bought \in [Accounts -> Int] /\ \A a \in Accounts : bought[a] = 0
            BY <1>1 DEF SellersInit
        <3> QED BY <3>1, AccountsAssumption, SumZero
    <2>2. SumFunction(purchased) = 0
        <3>1. purchased \in [Allowances -> Int] /\ \A a \in Allowances : purchased[a] = 0
            BY <1>1 DEF SellersInit
        <3> QED BY <3>1, SellersAssumption, SumZero
    <2> QED BY <1>1, <2>1, <2>2, FS_EmptySet DEF SellersInit, Counted
<1>6. GoodsInv
    <2>1. owner = <<>> /\ DOMAIN owner = {}
        BY <1>1 DEF VoucherInit
    <2>2. owner \in Seq(Accounts \cup {Nobody})
        BY <2>1
    <2>3. GoodsTypeOK
        BY <2>1, <2>2 DEF SaleInit, GoodsTypeOK
    <2> QED BY <2>1, <2>3 DEF GoodsInv, OncePerBurn
<1>7. VoucherTypeOK
    <2>1. owner \in Seq(Accounts \cup {Nobody})
        BY <1>6 DEF GoodsInv, GoodsTypeOK
    <2>2. SellerRole!RoleTypeOK /\ RedeemerRole!RoleTypeOK
        BY <1>1, Zenon DEF VoucherInit, SellerRole!RoleTypeOK, RedeemerRole!RoleTypeOK
    <2>3. restriction \in Restrictions /\ balance \in Nat
        BY <1>1 DEF VoucherInit, Restrictions
    <2>4. restrictionLocked \in BOOLEAN
        BY <1>1, Zenon DEF VoucherInit
    <2> QED BY <2>1, <2>2, <2>3, <2>4 DEF VoucherTypeOK
<1>8. PoolInv
    <2>1. PoolTypeOK
        <3>1. info \in Seq([projectId : Projects, edition : Nat])
            <4> DEFINE X == [projectId : Projects, edition : Nat]
            <4> HIDE DEF X
            <4>1. info \in Seq(X)
                BY <1>1 DEF PoolInit
            <4> QED BY <4>1 DEF X
        <3>2. PoolRole!RoleTypeOK
            BY <1>1, Zenon DEF PoolInit, PoolRole!RoleTypeOK
        <3>3. purchasedPer \in [Projects -> Nat] /\ poolBalance \in Nat
            BY <1>1 DEF PoolInit
        <3> QED BY <3>1, <3>2, <3>3 DEF PoolTypeOK
    <2>2. ASSUME NEW p \in Projects
          PROVE  LET tokens == {t \in DOMAIN info : info[t].projectId = p}
                 IN  /\ purchasedPer[p] <= MaxNumPerProject[p]
                     /\ Cardinality(tokens) = purchasedPer[p]
                     /\ {info[t].edition : t \in tokens} = 0..(purchasedPer[p] - 1)
        <3> DEFINE tokens == {t \in DOMAIN info : info[t].projectId = p}
        <3>1. tokens = {} /\ purchasedPer[p] = 0
            BY <1>1 DEF PoolInit
        <3>2. MaxNumPerProject[p] \in Nat
            BY ProjectPoolAssumption
        <3> HIDE DEF tokens
        <3>3. /\ purchasedPer[p] <= MaxNumPerProject[p]
              /\ Cardinality(tokens) = purchasedPer[p]
              /\ {info[t].edition : t \in tokens} = 0..(purchasedPer[p] - 1)
            BY <3>1, <3>2, FS_EmptySet
        <3> QED BY <3>3 DEF tokens
    <2>3. EditionsAreContiguous
        BY <2>2 DEF EditionsAreContiguous
    <2> QED BY <2>1, <2>3 DEF PoolInv
<1>9. Len(owner) = 0 /\ Len(passOf) = 0 /\ Len(info) = 0 /\ changes \in 0..MaxChanges
    BY <1>1, SaleAssumption DEF SaleInit, VoucherInit, PoolInit
<1> QED BY <1>4, <1>5, <1>6, <1>7, <1>8, <1>9 DEF SaleInv

-----------------------------------------------------------------------------

\* Steps of the vouchers and sellers leave the pool as it is.
LEMMA PoolUnchanged ==
    ASSUME PoolInv, UNCHANGED poolVars
    PROVE  PoolInv' /\ info' = info
BY DEF PoolInv, PoolTypeOK, PoolRole!RoleTypeOK, EditionsAreContiguous, poolVars, poolRoleVars

\* Steps of the vouchers, redeemers and roles leave the counters as they are.
LEMMA SellersUnchanged ==
    ASSUME SellersInv, UNCHANGED sellerVars
    PROVE  SellersInv' /\ Counted' = Counted
<1>1. UNCHANGED <<now, holder, price, maxPerAddress, highestLimit, signers, bought, purchased, numSold,
                  usedTokens, numAirdropped, held>>
    BY DEF sellerVars, envVars, steeringVars, counterVars
<1>2. SellersTypeOK'
    BY <1>1 DEF SellersInv, SellersTypeOK
<1>3. LimitsHold'
    BY <1>1 DEF SellersInv, LimitsHold
<1> QED BY <1>1, <1>2, <1>3 DEF SellersInv, Counted

\* What a sale does to the rest.
LEMMA SellStep ==
    ASSUME SaleInv, NEW seller, NEW receivers, NEW cost \in Nat,
           SellsTo(receivers), Sell(seller, receivers, cost)
    PROVE  SaleInv'
<1>1. /\ owner' = owner \o receivers /\ balance' = balance + cost
      /\ UNCHANGED <<restrictionVars, roleVars, poolVars, goodsVars, changes>>
    BY DEF Sell, HandleSale
<1>2. SellersInv' /\ Counted' = Counted + Len(receivers) /\ receivers \in Seq(Accounts)
    BY DEF SellsTo
<1>3. GoodsInv' /\ Len(owner') = Len(owner) + Len(receivers)
    BY <1>1, <1>2, GoodsOfSale DEF SaleInv
<1>4. PoolInv' /\ info' = info
    BY <1>1, PoolUnchanged DEF SaleInv
<1>5. VoucherTypeOK'
    <2>1. owner' \in Seq(Accounts \cup {Nobody})
        BY <1>3 DEF GoodsInv, GoodsTypeOK
    <2>2. balance' \in Nat
        BY <1>1 DEF SaleInv, VoucherTypeOK
    <2> QED BY <1>1, <2>1, <2>2 DEF SaleInv, VoucherTypeOK, restrictionVars, roleVars,
               SellerRole!RoleTypeOK, RedeemerRole!RoleTypeOK
<1>6. passOf' = passOf /\ changes' = changes
    BY <1>1 DEF goodsVars
<1> QED BY <1>2, <1>3, <1>4, <1>5, <1>6 DEF SaleInv

\* A purchase from any of the sellers mints as many vouchers as it counts.
LEMMA PurchaseStep ==
    ASSUME SaleInv, Purchase
    PROVE  SaleInv'
<1>0. SellersInv
    BY DEF SaleInv
<1>1. ASSUME NEW sender \in Accounts, NEW to \in Accounts, NEW num \in Nums, NEW value \in Values,
             SellPublic(sender, to, num, value)
      PROVE  SaleInv'
    <2>1. /\ PublicPurchase(sender, to, num, value)
          /\ Sell("public", Repeat(to, num), Cost("public", num))
        BY <1>1 DEF SellPublic
    <2>2. Cost("public", num) \in Nat
        BY <2>1, SaleAssumption DEF PublicPurchase, Values
    <2>3. SellsTo(Repeat(to, num))
        BY <1>0, <2>1, PublicSale
    <2> QED BY <2>1, <2>2, <2>3, SellStep
<1>2. ASSUME NEW batch \in SignedBatches, NEW value \in Values, SellSigned(batch, value)
      PROVE  SaleInv'
    <2> DEFINE receivers == FlattenSeq([i \in DOMAIN batch |->
                                Repeat(batch[i].allowance.receiver, batch[i].num)])
    <2>1. SignedPurchase(batch, value) /\ Sell("signed", receivers, BatchCost(batch))
        BY <1>2 DEF SellSigned
    <2>2. BatchCost(batch) \in Nat
        BY <2>1, SaleAssumption DEF SignedPurchase, Values
    <2>3. SellsTo(receivers)
        BY <1>0, <2>1, SignedSale
    <2> HIDE DEF receivers
    <2> QED BY <2>1, <2>2, <2>3, SellStep
<1>3. ASSUME NEW batch \in FreeBatches, SellFree(batch)
      PROVE  SaleInv'
    <2> DEFINE receivers == FlattenSeq([i \in DOMAIN batch |-> Repeat(batch[i].to, batch[i].num)])
    <2>1. FreePurchase(batch) /\ Sell("free", receivers, 0)
        BY <1>3 DEF SellFree, FreePurchaseWithGuardRails
    <2>2. SellsTo(receivers)
        BY <1>0, <2>1, FreeSale
    <2> HIDE DEF receivers
    <2> QED BY <2>1, <2>2, SellStep
<1>4. ASSUME NEW sender \in Accounts, NEW ids \in GatedBatches, NEW value \in Values,
             SellGated(sender, ids, value)
      PROVE  SaleInv'
    <2>1. /\ GatedPurchase(sender, ids, value)
          /\ Sell("gated", Repeat(sender, Len(ids)), Cost("gated", Len(ids)))
        BY <1>4 DEF SellGated
    <2>2. Cost("gated", Len(ids)) \in Nat
        BY <2>1, SaleAssumption DEF GatedPurchase, Values
    <2>3. SellsTo(Repeat(sender, Len(ids)))
        BY <1>0, <2>1, GatedSale
    <2> QED BY <2>1, <2>2, <2>3, SellStep
<1>5. ASSUME NEW num \in Nums, SellAirdrop(num) PROVE SaleInv'
    <2>1. Airdrop(num) /\ Sell("airdrop", AirdropReceivers(num), 0)
        BY <1>5 DEF SellAirdrop
    <2>2. SellsTo(AirdropReceivers(num))
        BY <1>0, <2>1, AirdropSale
    <2> QED BY <2>1, <2>2, SellStep
<1> QED BY <1>1, <1>2, <1>3, <1>4, <1>5 DEF Purchase

-----------------------------------------------------------------------------

\* What is left of VoucherTypeOK when vouchers are burnt or traded.
LEMMA VoucherKept ==
    ASSUME VoucherTypeOK, owner' \in Seq(Accounts \cup {Nobody}),
           UNCHANGED <<restrictionVars, roleVars, balance>>
    PROVE  VoucherTypeOK'
BY DEF VoucherTypeOK, restrictionVars, roleVars, SellerRole!RoleTypeOK, RedeemerRole!RoleTypeOK

\* A redemption burns each of its vouchers, which were not burnt, and none
\* twice.
LEMMA RedeemBurns ==
    ASSUME NEW redeemer, NEW sender, NEW ids \in Seq(DOMAIN owner), RedeemAll(redeemer, sender, ids)
    PROVE  Burns(ids)
BY DEF RedeemAll, Burns, IsSenderAllowedToSpend, Exists

\* A redemption burns vouchers and gives something for each of them.
LEMMA RedemptionStep ==
    ASSUME SaleInv, Redemption
    PROVE  SaleInv'
<1> USE DEF SaleInv
<1>1. ASSUME NEW sender \in Accounts, NEW value \in Values,
             NEW redemptions \in Batches([passId : DOMAIN owner, projectId : 0..NumProjects]),
             RedeemMintPass(sender, redemptions, value)
      PROVE  SaleInv'
    <2> DEFINE ids == [i \in DOMAIN redemptions |-> redemptions[i].passId]
               projects == [i \in DOMAIN redemptions |-> redemptions[i].projectId]
               cost == Len(redemptions) * PassPrice
               n == Len(redemptions)
    <2>1. /\ RedeemAll("mintPass", sender, ids) /\ value = cost
          /\ Forward("mintPass", value, cost)
          /\ PoolHandleSale("mintPass", projects, cost)
          /\ passOf' = passOf \o ids
          /\ UNCHANGED <<envVars, steeringVars, counterVars, records, ranked, burnt, changes>>
        BY <1>1 DEF RedeemMintPass
    <2>2. value \in Nat
        BY SaleAssumption DEF Values
    <2>3. /\ n \in Nat /\ DOMAIN redemptions = 1..n
          /\ \A i \in 1..n : redemptions[i] \in [passId : DOMAIN owner, projectId : 0..NumProjects]
        <3> DEFINE X == [passId : DOMAIN owner, projectId : 0..NumProjects]
        <3> HIDE DEF X
        <3>1. redemptions \in Batches(X)
            BY DEF X
        <3>2. redemptions \in Seq(X) /\ Len(redemptions) \in Nat /\ DOMAIN redemptions = 1..Len(redemptions)
            BY <3>1, BatchIsSeq
        <3>3. \A i \in 1..n : redemptions[i] \in X
            BY <3>2, ElementOfSeq
        <3> QED BY <3>2, <3>3 DEF X
    <2>4. ids \in Seq(DOMAIN owner) /\ Len(ids) = n
        <3>1. ids \in [1..n -> DOMAIN owner]
            BY <2>3
        <3> HIDE DEF ids
        <3> QED BY <2>3, <3>1, FunctionIsSeq
    <2>5. projects \in Seq(0..NumProjects) /\ Len(projects) = n
        <3>1. projects \in [1..n -> 0..NumProjects]
            BY <2>3
        <3> HIDE DEF projects
        <3> QED BY <2>3, <3>1, FunctionIsSeq
    <2> HIDE DEF ids, projects, cost, n
    <2>6. Burns(ids)
        BY <2>1, <2>4, RedeemBurns
    <2>7. GoodsInv' /\ Len(owner') = Len(owner) /\ Len(passOf') = Len(passOf) + Len(ids)
        BY <2>1, <2>6, GoodsOfMintPass
    <2>8. PoolInv' /\ Len(info') = Len(info) + Len(projects)
        BY <2>1, <2>2, <2>5, PoolSale
    <2>9. UNCHANGED sellerVars
        <3>1. held' = held
            BY <2>1, <2>2, ForwardAll DEF Sellers
        <3> QED BY <2>1, <3>1 DEF sellerVars
    <2>10. SellersInv' /\ Counted' = Counted
        BY <2>9, SellersUnchanged
    <2>11. VoucherTypeOK'
        BY <2>1, <2>7, VoucherKept DEF GoodsInv, GoodsTypeOK, RedeemAll
    <2>12. changes' = changes
        BY <2>1
    <2> QED BY <2>4, <2>5, <2>7, <2>8, <2>10, <2>11, <2>12
<1>2. ASSUME NEW sender \in Accounts, NEW id \in DOMAIN owner, RedeemRecorded(sender, id)
      PROVE  SaleInv'
    <2>1. /\ records' = [records EXCEPT ![sender] = Append(@, id)]
          /\ RedeemAll("recorded", sender, <<id>>)
          /\ UNCHANGED <<sellerVars, poolVars, passOf, ranked, burnt, changes>>
        BY <1>2 DEF RedeemRecorded
    <2>2. Burns(<<id>>)
        <3>1. <<id>> \in Seq(DOMAIN owner)
            OBVIOUS
        <3> QED BY <2>1, <3>1, RedeemBurns
    <2>3. GoodsInv' /\ Len(owner') = Len(owner)
        BY <2>1, <2>2, GoodsOfRecord
    <2>4. PoolInv' /\ info' = info
        BY <2>1, PoolUnchanged
    <2>5. SellersInv' /\ Counted' = Counted
        BY <2>1, SellersUnchanged
    <2>6. VoucherTypeOK'
        BY <2>1, <2>3, VoucherKept DEF GoodsInv, GoodsTypeOK, RedeemAll
    <2> QED BY <2>1, <2>3, <2>4, <2>5, <2>6
<1>3. ASSUME NEW sender \in Accounts, NEW ids \in Batches(DOMAIN owner), RedeemRanking(sender, ids)
      PROVE  SaleInv'
    <2>1. /\ RedeemAll("ranking", sender, ids)
          /\ UNCHANGED <<sellerVars, poolVars, records, passOf, burnt, changes>>
        BY <1>3 DEF RedeemRanking
    <2>2. PICK rankings \in [DOMAIN ids -> AcceptedRankings] :
              ranked' = ranked \o [i \in DOMAIN ids |-> [id |-> ids[i], ranking |-> rankings[i]]]
        BY <1>3 DEF RedeemRanking
    <2>3. Burns(ids)
        BY <2>1, BatchIsSeq, RedeemBurns
    <2>4. GoodsInv' /\ Len(owner') = Len(owner)
        BY <2>1, <2>2, <2>3, GoodsOfRanking
    <2>5. PoolInv' /\ info' = info
        BY <2>1, PoolUnchanged
    <2>6. SellersInv' /\ Counted' = Counted
        BY <2>1, SellersUnchanged
    <2>7. VoucherTypeOK'
        BY <2>1, <2>4, VoucherKept DEF GoodsInv, GoodsTypeOK, RedeemAll
    <2> QED BY <2>1, <2>4, <2>5, <2>6, <2>7
<1>4. ASSUME NEW ids \in Batches(DOMAIN owner), Burn(ids)
      PROVE  SaleInv'
    <2>1. /\ burnt' = burnt \o ids
          /\ UNCHANGED <<sellerVars, restrictionVars, roleVars, balance, poolVars,
                         records, passOf, ranked, changes>>
        BY <1>4 DEF Burn
    <2>2. Burns(ids)
        BY <1>4, BatchIsSeq DEF Burn, Burns, Exists
    <2>3. GoodsInv' /\ Len(owner') = Len(owner)
        BY <2>1, <2>2, GoodsOfBurner
    <2>4. PoolInv' /\ info' = info
        BY <2>1, PoolUnchanged
    <2>5. SellersInv' /\ Counted' = Counted
        BY <2>1, SellersUnchanged
    <2>6. VoucherTypeOK'
        BY <2>1, <2>3, VoucherKept DEF GoodsInv, GoodsTypeOK
    <2> QED BY <2>1, <2>3, <2>4, <2>5, <2>6
<1> QED BY <1>1, <1>2, <1>3, <1>4 DEF Redemption

-----------------------------------------------------------------------------

\* A transfer keeps the invariant.
LEMMA TransferStep ==
    ASSUME SaleInv, NEW id \in DOMAIN owner, NEW to \in Accounts, TransferVoucher(id, to)
    PROVE  SaleInv'
<1> USE DEF SaleInv
<1>1. Transfer(id, to) /\ UNCHANGED <<sellerVars, poolVars, goodsVars, changes>>
    BY DEF TransferVoucher
<1>2. GoodsInv' /\ Len(owner') = Len(owner)
    BY <1>1, GoodsOfTransfer
<1>3. PoolInv' /\ info' = info
    BY <1>1, PoolUnchanged
<1>4. SellersInv' /\ Counted' = Counted
    BY <1>1, SellersUnchanged
<1>5. VoucherTypeOK'
    BY <1>1, <1>2, VoucherKept DEF GoodsInv, GoodsTypeOK, Transfer
<1> QED BY <1>1, <1>2, <1>3, <1>4, <1>5 DEF goodsVars

\* Prices, limits, signers, time and gating tokens may change, counters not.
LEMMA SellersSteered ==
    ASSUME SellersInv, UNCHANGED <<counterVars, held>>,
           now' \in 0..MaxTime, holder' \in [GatingTokens -> Accounts],
           price' \in [Priced -> Prices], signers' \subseteq Signers,
           maxPerAddress' \in Limits, highestLimit' \in Limits,
           highestLimit <= highestLimit', maxPerAddress' <= highestLimit'
    PROVE  SellersInv' /\ Counted' = Counted
<1>1. UNCHANGED <<bought, purchased, numSold, usedTokens, numAirdropped, held>>
    BY DEF counterVars
<1>2. SellersTypeOK'
    BY <1>1 DEF SellersInv, SellersTypeOK
<1>3. LimitsHold'
    <2>1. bought \in [Accounts -> Nat] /\ highestLimit \in Nat /\ highestLimit' \in Nat
        BY SellersAssumption DEF SellersInv, SellersTypeOK
    <2>2. \A a \in Accounts : bought'[a] <= highestLimit'
        BY <1>1, <2>1 DEF SellersInv, LimitsHold
    <2> QED BY <1>1, <2>2 DEF SellersInv, LimitsHold
<1> QED BY <1>1, <1>2, <1>3 DEF SellersInv, Counted

\* So do changes of limits, roles, locks and transfer restrictions.
LEMMA ChangeStep ==
    ASSUME SaleInv, Change
    PROVE  SaleInv'
<1> USE DEF SaleInv
<1>0. /\ UNCHANGED goodsVars /\ changes' <= MaxChanges
      /\ changes' \in {changes + 1, changes + 2}
    BY DEF Change
<1>1. changes' \in 0..MaxChanges
    BY <1>0, SaleAssumption
<1>2. passOf' = passOf
    BY <1>0 DEF goodsVars
<1>3. CASE UNCHANGED <<voucherVars, poolVars>> /\ SellersInv' /\ Counted' = Counted
    <2>1. owner' = owner /\ VoucherTypeOK'
        <3>1. owner' = owner /\ UNCHANGED <<restrictionVars, roleVars, balance>>
            BY <1>3 DEF voucherVars
        <3>2. owner' \in Seq(Accounts \cup {Nobody})
            BY <3>1 DEF VoucherTypeOK
        <3> QED BY <3>1, <3>2, VoucherKept
    <2>2. GoodsInv' /\ Len(owner') = Len(owner)
        BY <1>0, <2>1, GoodsUnchanged
    <2>3. PoolInv' /\ info' = info
        BY <1>3, PoolUnchanged
    <2> QED BY <1>1, <1>2, <1>3, <2>1, <2>2, <2>3
<1>4. CASE SteerSellers
    <2>1. /\ SellersTypeOK /\ maxPerAddress <= highestLimit
          /\ maxPerAddress \in Nat /\ highestLimit \in Nat /\ Limits \subseteq Nat
        BY SellersAssumption DEF SellersInv, SellersTypeOK
    <2>2. SellersInv' /\ Counted' = Counted
        <3>1. ASSUME NEW s \in Priced, NEW p \in Prices, SetPrice(s, p)
              PROVE  SellersInv' /\ Counted' = Counted
            <4>1. UNCHANGED <<now, holder, maxPerAddress, highestLimit, signers, counterVars, held>>
                BY <3>1 DEF SetPrice, envVars
            <4>2. price' \in [Priced -> Prices]
                BY <2>1, <3>1 DEF SetPrice, SellersTypeOK
            <4> QED BY <2>1, <4>1, <4>2, SellersSteered DEF SellersTypeOK
        <3>2. ASSUME NEW m \in Limits, SetMaxPerAddress(m)
              PROVE  SellersInv' /\ Counted' = Counted
            BY <2>1, <3>2, SellersSteered DEF SetMaxPerAddress, SellersTypeOK, envVars
        <3>3. ASSUME NEW rm \in SUBSET Signers, NEW add \in SUBSET Signers,
                     ChangeAllowlistSigners(rm, add)
              PROVE  SellersInv' /\ Counted' = Counted
            BY <2>1, <3>3, SellersSteered DEF ChangeAllowlistSigners, SellersTypeOK, envVars
        <3> QED BY <1>4, <3>1, <3>2, <3>3 DEF SteerSellers
    <2> QED BY <1>3, <1>4, <2>2 DEF SteerSellers
<1>5. CASE SteerVoucher
    <2>1. UNCHANGED <<sellerVars, poolVars>>
        BY <1>5 DEF SteerVoucher
    <2>2. owner' = owner /\ VoucherTypeOK'
        <3>1. ASSUME NEW r \in Restrictions, SetTransferRestriction(r) \/ LockTransferRestriction(r)
              PROVE  owner' = owner /\ VoucherTypeOK'
            BY <3>1 DEF SetTransferRestriction, LockTransferRestriction, VoucherTypeOK, roleVars,
                        SellerRole!RoleTypeOK, RedeemerRole!RoleTypeOK
        <3>2. CASE SellerRole!Steer /\ UNCHANGED <<owner, restrictionVars, redeemers, redeemersLocked, balance>>
            BY <3>2 DEF SellerRole!Steer, SellerRole!Lock, SellerRole!Grant, SellerRole!Revoke,
                        VoucherTypeOK, restrictionVars, SellerRole!RoleTypeOK, RedeemerRole!RoleTypeOK
        <3>3. CASE RedeemerRole!Steer /\ UNCHANGED <<owner, restrictionVars, sellers, sellersLocked, balance>>
            BY <3>3 DEF RedeemerRole!Steer, RedeemerRole!Lock, RedeemerRole!Grant, RedeemerRole!Revoke,
                        VoucherTypeOK, restrictionVars, SellerRole!RoleTypeOK, RedeemerRole!RoleTypeOK
        <3> QED BY <1>5, <3>1, <3>2, <3>3 DEF SteerVoucher, SteerRoles
    <2>3. GoodsInv' /\ Len(owner') = Len(owner)
        BY <1>0, <2>2, GoodsUnchanged
    <2>4. PoolInv' /\ info' = info
        BY <2>1, PoolUnchanged
    <2>5. SellersInv' /\ Counted' = Counted
        BY <2>1, SellersUnchanged
    <2> QED BY <1>1, <1>2, <2>2, <2>3, <2>4, <2>5
<1>6. CASE SteerPool /\ UNCHANGED <<sellerVars, voucherVars>>
    <2>1. owner' = owner /\ VoucherTypeOK'
        <3>1. owner' = owner /\ UNCHANGED <<restrictionVars, roleVars, balance>>
            BY <1>6 DEF voucherVars
        <3>2. owner' \in Seq(Accounts \cup {Nobody})
            BY <3>1 DEF VoucherTypeOK
        <3> QED BY <3>1, <3>2, VoucherKept
    <2>2. GoodsInv' /\ Len(owner') = Len(owner)
        BY <1>0, <2>1, GoodsUnchanged
    <2>3. SellersInv' /\ Counted' = Counted
        BY <1>6, SellersUnchanged
    <2>4. UNCHANGED <<info, purchasedPer, poolBalance>>
        BY <1>6 DEF SteerPool
    <2>5. PoolRole!RoleTypeOK'
        BY <1>6 DEF SteerPool, PoolRole!Steer, PoolRole!Lock, PoolRole!Grant, PoolRole!Revoke,
                    PoolInv, PoolTypeOK, PoolRole!RoleTypeOK
    <2>6. PoolInv'
        BY <2>4, <2>5 DEF PoolInv, PoolTypeOK, EditionsAreContiguous
    <2> QED BY <1>1, <1>2, <2>1, <2>2, <2>3, <2>4, <2>6
<1>7. CASE (Tick \/ \E t \in GatingTokens, to \in Accounts : TransferGatingToken(t, to))
           /\ UNCHANGED <<voucherVars, poolVars>>
    <2>1. /\ SellersTypeOK /\ maxPerAddress <= highestLimit
          /\ maxPerAddress \in Nat /\ highestLimit \in Nat
        BY SellersAssumption DEF SellersInv, SellersTypeOK
    <2>2. CASE Tick
        <3>1. /\ now' \in 0..MaxTime
              /\ UNCHANGED <<holder, price, maxPerAddress, highestLimit, signers, counterVars, held>>
            BY <2>1, <2>2, SellersAssumption DEF Tick, SellersTypeOK, steeringVars
        <3>2. SellersInv' /\ Counted' = Counted
            BY <2>1, <3>1, SellersSteered DEF SellersTypeOK
        <3> QED BY <1>3, <1>7, <3>2
    <2>3. ASSUME NEW t \in GatingTokens, NEW to \in Accounts, TransferGatingToken(t, to)
          PROVE  SaleInv'
        <3>1. UNCHANGED <<now, price, maxPerAddress, highestLimit, signers, counterVars, held>>
            BY <2>3 DEF TransferGatingToken, steeringVars
        <3>2. holder' \in [GatingTokens -> Accounts]
            BY <2>1, <2>3 DEF TransferGatingToken, SellersTypeOK
        <3>3. SellersInv' /\ Counted' = Counted
            BY <2>1, <3>1, <3>2, SellersSteered DEF SellersTypeOK
        <3> QED BY <1>3, <1>7, <3>3
    <2> QED BY <1>7, <2>2, <2>3
<1> QED BY <1>4, <1>5, <1>6, <1>7 DEF Change

\* The invariant of the sale is inductive.
LEMMA SaleInvHolds == SaleSpec => []SaleInv
<1>1. SaleInit => SaleInv
    BY SaleStart
<1>2. SaleInv /\ [SaleNext]_saleVars => SaleInv'
    <2> SUFFICES ASSUME SaleInv, [SaleNext]_saleVars PROVE SaleInv'
        OBVIOUS
    <2>1. CASE Purchase
        BY <2>1, PurchaseStep
    <2>2. CASE Redemption
        BY <2>2, RedemptionStep
    <2>3. ASSUME NEW id \in DOMAIN owner, NEW to \in Accounts, TransferVoucher(id, to)
          PROVE  SaleInv'
        BY <2>3, TransferStep
    <2>4. CASE Change
        BY <2>4, ChangeStep
    <2>5. CASE UNCHANGED saleVars
        <3>1. UNCHANGED <<sellerVars, voucherVars, poolVars, goodsVars, changes>>
            BY <2>5 DEF saleVars
        <3>2. owner' = owner /\ UNCHANGED <<restrictionVars, roleVars, balance>>
            BY <3>1 DEF voucherVars
        <3>3. owner' \in Seq(Accounts \cup {Nobody})
            BY <3>2 DEF SaleInv, VoucherTypeOK
        <3>4. VoucherTypeOK'
            BY <3>2, <3>3, VoucherKept DEF SaleInv
        <3>5. GoodsInv' /\ Len(owner') = Len(owner)
            BY <3>1, <3>2, GoodsUnchanged DEF SaleInv
        <3>6. PoolInv' /\ info' = info
            BY <3>1, PoolUnchanged DEF SaleInv
        <3>7. SellersInv' /\ Counted' = Counted
            BY <3>1, SellersUnchanged DEF SaleInv
        <3> QED BY <3>1, <3>4, <3>5, <3>6, <3>7 DEF SaleInv, goodsVars
    <2> QED BY <2>1, <2>2, <2>3, <2>4, <2>5 DEF SaleNext
<1> QED BY <1>1, <1>2, PTL DEF SaleSpec

\* No counter of a seller goes beyond its limit, for any accounts, limits,
\* allowances and supplies, whatever the batches and the changes of limits.
THEOREM NoLimitIsExceeded == SaleSpec => []LimitsHold
BY SaleInvHolds, SaleInvImplies, PTL

\* Every voucher that was minted counts against the limit of exactly one seller,
\* and no seller keeps any of the money it is paid.
THEOREM EveryVoucherIsSold == SaleSpec => []MintedIsSold
BY SaleInvHolds, SaleInvImplies, PTL

\* Each burnt voucher has been exchanged exactly once, whichever redeemer burnt
\* it and in whatever batch, and no other voucher has been exchanged; the pool
\* has a token for each pass.
THEOREM NoDoubleSpending == SaleSpec => []GoodsMatchBurns
BY SaleInvHolds, SaleInvImplies, PTL

\* The editions of each project are numbered from 0 without gaps or repetitions
\* and stay within the project's maximum, for any projects and batches.
THEOREM EditionsAreNumbered == SaleSpec => []EditionsAreContiguous
BY SaleInvHolds, SaleInvImplies, PTL

-----------------------------------------------------------------------------

\* What a locked restriction lets a step do to the vouchers.
Locked ==
    /\ sellersLocked => sellers' = sellers
    /\ redeemersLocked => redeemers' = redeemers
    /\ poolSellersLocked => poolSellers' = poolSellers
    /\ restrictionLocked => restriction' = restriction
    /\ restrictionLocked /\ restriction = "Frozen" => owner' = owner
    /\ restrictionLocked /\ restriction = "OnlyBurn" =>
         /\ DOMAIN owner' = DOMAIN owner
         /\ \A id \in DOMAIN owner : owner'[id] \in {owner[id], Nobody}

\* What has been locked stays: the members of locked roles, and the restriction
\* of transfers with what it forbids.
THEOREM LocksAreKept == SaleSpec => LocksHold
<1>1. [SaleNext]_saleVars => Locked
    <2> SUFFICES ASSUME [SaleNext]_saleVars PROVE Locked
        OBVIOUS
    <2>1. ASSUME MayMint, UNCHANGED <<restrictionVars, roleVars, poolRoleVars>> PROVE Locked
        BY <2>1 DEF MayMint, Locked, restrictionVars, roleVars, poolRoleVars
    <2>2. ASSUME MayBurn, UNCHANGED <<restrictionVars, roleVars, poolRoleVars>>,
                 NEW S, owner' = [id \in DOMAIN owner |-> IF id \in S THEN Nobody ELSE owner[id]]
          PROVE  Locked
        BY <2>2 DEF MayBurn, Locked, restrictionVars, roleVars, poolRoleVars
    <2>3. ASSUME UNCHANGED <<owner, roleVars, restrictionVars, poolRoleVars>> PROVE Locked
        BY <2>3 DEF Locked, restrictionVars, roleVars, poolRoleVars
    <2>4. CASE Purchase
        <3>1. ASSUME NEW s, NEW r, NEW c, Sell(s, r, c) PROVE Locked
            BY <2>1, <3>1 DEF Sell, HandleSale, poolVars
        <3> QED BY <2>4, <3>1 DEF Purchase, SellPublic, SellSigned, SellFree, SellGated, SellAirdrop
    <2>5. CASE Redemption
        <3>1. ASSUME NEW r, NEW s, NEW ids, RedeemAll(r, s, ids), UNCHANGED poolRoleVars PROVE Locked
            BY <2>2, <3>1 DEF RedeemAll
        <3>2. ASSUME NEW ids, Burn(ids) PROVE Locked
            BY <2>2, <3>2 DEF Burn, poolVars
        <3> QED BY <2>5, <3>1, <3>2 DEF Redemption, RedeemMintPass, RedeemRecorded, RedeemRanking,
                    PoolHandleSale, poolVars
    <2>6. ASSUME NEW id \in DOMAIN owner, NEW to \in Accounts, TransferVoucher(id, to) PROVE Locked
        BY <2>6 DEF TransferVoucher, Transfer, MayTransfer, Locked, restrictionVars, roleVars,
                    poolVars, poolRoleVars
    <2>7. CASE Change
        <3>1. CASE UNCHANGED <<voucherVars, poolVars>>
            BY <2>3, <3>1 DEF voucherVars, poolVars
        <3>2. CASE SteerVoucher
            <4>1. UNCHANGED poolRoleVars
                BY <3>2 DEF SteerVoucher, poolVars
            <4>2. ASSUME NEW r \in Restrictions, SetTransferRestriction(r) \/ LockTransferRestriction(r)
                  PROVE  Locked
                BY <4>1, <4>2 DEF SetTransferRestriction, LockTransferRestriction, Locked, roleVars, poolRoleVars
            <4>3. CASE SellerRole!Steer /\ UNCHANGED <<owner, restrictionVars, redeemers, redeemersLocked, balance>>
                BY <4>1, <4>3 DEF SellerRole!Steer, SellerRole!Lock, SellerRole!Grant, SellerRole!Revoke,
                                  Locked, restrictionVars, poolRoleVars
            <4>4. CASE RedeemerRole!Steer /\ UNCHANGED <<owner, restrictionVars, sellers, sellersLocked, balance>>
                BY <4>1, <4>4 DEF RedeemerRole!Steer, RedeemerRole!Lock, RedeemerRole!Grant, RedeemerRole!Revoke,
                                  Locked, restrictionVars, poolRoleVars
            <4> QED BY <3>2, <4>2, <4>3, <4>4 DEF SteerVoucher, SteerRoles
        <3>3. CASE SteerPool /\ UNCHANGED <<sellerVars, voucherVars>>
            BY <3>3 DEF SteerPool, PoolRole!Steer, PoolRole!Lock, PoolRole!Grant, PoolRole!Revoke,
                        Locked, voucherVars, restrictionVars, roleVars
        <3> QED BY <2>7, <3>1, <3>2, <3>3 DEF Change, SteerSellers
    <2>8. CASE UNCHANGED saleVars
        BY <2>3, <2>8 DEF saleVars, voucherVars, poolVars
    <2> QED BY <2>4, <2>5, <2>6, <2>7, <2>8 DEF SaleNext
<1>2. [SaleNext]_saleVars => [Locked]_saleVars
    BY <1>1
<1> QED BY <1>2, PTL DEF SaleSpec, LocksHold, Locked

=============================================================================
