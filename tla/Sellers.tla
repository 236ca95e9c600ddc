------------------------------ MODULE Sellers ------------------------------
(***************************************************************************)
(* contracts/sellers: seller contracts, each with its own limits and       *)
(* prices, that sell the same sellable token.  All of them run             *)
(* Seller._purchase(): the hooks check the purchase, then count it, and    *)
(* then the sellable is called with the cost.  An action here is what one  *)
(* transaction does to the sellers; the module Sale adds what the sellable *)
(* does in the same transaction.  A transaction that reverts is an action  *)
(* that is not enabled.                                                    *)
(*                                                                         *)
(*   "public"   PublicLimitedExactFixedPrice                               *)
(*   "signed"   SignatureGatedExact                                        *)
(*   "free"     RoleGatedFreeOfCharge                                      *)
(*   "gated"    DelegatedTokenGatedSettablePrice                           *)
(*   "airdrop"  TokenHolderAirdropper                                      *)
(*   "mintPass" FixedPricedMintPassForProjectIDRedeemer, which sells tokens *)
(*              of another sellable and has no state but its balance       *)
(***************************************************************************)
EXTENDS Accounts, Integers, Sequences, FiniteSets, FiniteSetsExt, Functions, SequencesExt

CONSTANTS
    Prices,           \* the prices the steerer sets
    Limits,           \* the per-address limits the steerer sets
    InitialPrice,     \* the price of every priced seller at deployment
    InitialLimit,     \* the per-address limit at deployment
    Allowances,       \* the allowances that have been signed
    Signers,          \* signers of allowances
    MaxNumSellable,   \* the supply of the "free" seller
    GatingSupply,     \* totalSupply() of the token of "gated" and "airdrop"
    InitialHolder,    \* the account that has all of these at first
    MaxTime           \* bound: the last timestamp

Sellers == {"public", "signed", "free", "gated", "airdrop", "mintPass"}
Priced == {"public", "gated"}
GatingTokens == 0..(GatingSupply - 1)

ASSUME SellersAssumption ==
    /\ Prices \subseteq Nat /\ InitialPrice \in Prices
    /\ Limits \subseteq Nat /\ InitialLimit \in Limits
    /\ Allowances \subseteq [receiver : Accounts, numMax : Nat, price : Nat,
                             from : Nat, until : Nat]
    /\ IsFiniteSet(Allowances)
    /\ InitialHolder \in Accounts
    /\ MaxNumSellable \in Nat /\ GatingSupply \in Nat /\ MaxTime \in Nat

VARIABLES
    now,             \* block.timestamp
    holder,          \* the owners of the gating token
    price,           \* _price, per priced seller
    maxPerAddress,   \* _maxPerAddress of "public"
    highestLimit,    \* history: the largest that it has been
    bought,          \* _bought of "public"
    signers,         \* _signers of "signed"
    purchased,       \* _numPurchasesByAllowanceDigest of "signed"
    numSold,         \* _numSold of "free"
    usedTokens,      \* _usedTokens of "gated"
    numAirdropped,   \* numAirdropped of "airdrop"
    held             \* the balance of each seller contract

envVars == <<now, holder>>
steeringVars == <<price, maxPerAddress, highestLimit, signers>>
counterVars == <<bought, purchased, numSold, usedTokens, numAirdropped>>
sellerVars == <<envVars, steeringVars, counterVars, held>>

SellersTypeOK ==
    /\ now \in 0..MaxTime
    /\ holder \in [GatingTokens -> Accounts]
    /\ price \in [Priced -> Prices]
    /\ maxPerAddress \in Limits /\ highestLimit \in Limits
    /\ bought \in [Accounts -> Nat]
    /\ signers \subseteq Signers
    /\ purchased \in [Allowances -> Nat]
    /\ numSold \in Nat
    /\ usedTokens \subseteq GatingTokens
    /\ numAirdropped \in Nat
    /\ held \in [Sellers -> Nat]

\* The sellers have been deployed.
SellersInit ==
    /\ now = 0
    /\ holder = [t \in GatingTokens |-> InitialHolder]
    /\ price = [s \in Priced |-> InitialPrice]
    /\ maxPerAddress = InitialLimit /\ highestLimit = InitialLimit
    /\ bought = [a \in Accounts |-> 0]
    /\ signers = Signers
    /\ purchased = [a \in Allowances |-> 0]
    /\ numSold = 0
    /\ usedTokens = {}
    /\ numAirdropped = 0
    /\ held = [s \in Sellers |-> 0]

-----------------------------------------------------------------------------

\* _cost() of a seller with an internal price.
Cost(s, num) == num * price[s]

\* The seller receives msg.value and calls handleSale{value: cost}, which fails
\* if it has less.
Forward(s, value, cost) ==
    /\ held[s] + value >= cost
    /\ held' = [held EXCEPT ![s] = @ + value - cost]

\* PerAddressLimited: the numbers are compared as signed integers, since the
\* limit may have been lowered below what was bought.
WithinPerAddressLimit(sender, num) == num <= maxPerAddress - bought[sender]

\* Public.purchase(): the limit is that of the caller, not of the receiver.
PublicPurchase(sender, to, num, value) ==
    LET cost == Cost("public", num)
    IN  /\ value = cost
        /\ WithinPerAddressLimit(sender, num)
        /\ bought' = [bought EXCEPT ![sender] = @ + num]
        /\ Forward("public", value, cost)
        /\ UNCHANGED <<envVars, steeringVars, purchased, numSold, usedTokens, numAirdropped>>

\* The number of purchases that a batch makes with allowance a.
Requested(batch, a) ==
    SumFunction([i \in DOMAIN batch |-> IF batch[i].allowance = a THEN batch[i].num ELSE 0])

BatchCost(batch) ==
    SumFunction([i \in DOMAIN batch |-> batch[i].allowance.price * batch[i].num])

\* The allowance is active, and its signature is of one of the signers.
Valid(p) == p.allowance.from <= now /\ now < p.allowance.until /\ p.signer \in signers

\* Mutant of SignedPurchase: the purchases are counted after the whole batch
\* has been checked.
SignedPurchaseCountLast(batch, value) ==
    /\ value = BatchCost(batch)
    /\ \A i \in DOMAIN batch :
         /\ Valid(batch[i])
         /\ batch[i].num <= batch[i].allowance.numMax - purchased[batch[i].allowance]
    /\ purchased' = [a \in Allowances |-> purchased[a] + Requested(batch, a)]
    /\ Forward("signed", value, BatchCost(batch))
    /\ UNCHANGED <<envVars, steeringVars, bought, numSold, usedTokens, numAirdropped>>

(***************************************************************************)
(* SignatureGatedExact.purchase(), by anyone: msg.value pays for all of    *)
(* the batch; its purchases are checked and counted one after the other,   *)
(* so that one allowance may appear several times.                         *)
(***************************************************************************)
SignedPurchase(batch, value) ==
    /\ \A i \in DOMAIN batch : Valid(batch[i])
    /\ value = BatchCost(batch)
    /\ purchased' = [a \in Allowances |-> purchased[a] + Requested(batch, a)]
    /\ \A i \in DOMAIN batch : purchased'[batch[i].allowance] <= batch[i].allowance.numMax
    /\ Forward("signed", value, BatchCost(batch))
    /\ UNCHANGED <<envVars, steeringVars, bought, numSold, usedTokens, numAirdropped>>

\* RoleGatedFreeOfCharge.purchase() by the steerer: each receiver of the batch
\* is checked against what the earlier ones have left of the supply.
FreePurchase(batch) ==
    /\ numSold' = numSold + SumFunction([i \in DOMAIN batch |-> batch[i].num])
    /\ numSold' <= MaxNumSellable
    /\ UNCHANGED <<envVars, steeringVars, bought, purchased, usedTokens, numAirdropped, held>>

\* purchaseWithGuardRails()
FreePurchaseWithGuardRails(batch, expectedNumSoldAfter) ==
    /\ FreePurchase(batch)
    /\ numSold' = expectedNumSoldAfter

\* The owner, a delegate or an approved operator.
IsAllowedToPurchaseWithToken(operator, t) ==
    operator = holder[t] \/ operator \in Operators[holder[t]]

\* Mutant of GatedPurchase: the tokens are marked after all have been checked.
GatedPurchaseMarkLast(sender, ids, value) ==
    LET cost == Cost("gated", Len(ids))
    IN  /\ \A i \in DOMAIN ids :
             IsAllowedToPurchaseWithToken(sender, ids[i]) /\ ids[i] \notin usedTokens
        /\ usedTokens' = usedTokens \cup ToSet(ids)
        /\ value = cost
        /\ Forward("gated", value, cost)
        /\ UNCHANGED <<envVars, steeringVars, bought, purchased, numSold, numAirdropped>>

(***************************************************************************)
(* TokenGated.purchase(): one purchase per token; each is marked as it is  *)
(* checked, so that a token listed twice reverts.                          *)
(***************************************************************************)
GatedPurchase(sender, ids, value) ==
    LET cost == Cost("gated", Len(ids))
    IN  /\ \A i \in DOMAIN ids :
             IsAllowedToPurchaseWithToken(sender, ids[i]) /\ ids[i] \notin usedTokens
        /\ IsInjective(ids)
        /\ usedTokens' = usedTokens \cup ToSet(ids)
        /\ value = cost
        /\ Forward("gated", value, cost)
        /\ UNCHANGED <<envVars, steeringVars, bought, purchased, numSold, numAirdropped>>

\* The holders that airdrop(num) reaches, from where the previous call stopped.
AirdropReceivers(num) ==
    [i \in 1..(Min({numAirdropped + num, GatingSupply}) - numAirdropped) |->
        holder[numAirdropped + i - 1]]

\* TokenHolderAirdropper.airdrop(), by anyone.
Airdrop(num) ==
    /\ numAirdropped' = Min({numAirdropped + num, GatingSupply})
    /\ UNCHANGED <<envVars, steeringVars, bought, purchased, numSold, usedTokens, held>>

-----------------------------------------------------------------------------

SetPrice(s, p) ==
    /\ p # price[s]
    /\ price' = [price EXCEPT ![s] = p]
    /\ UNCHANGED <<envVars, maxPerAddress, highestLimit, signers, counterVars, held>>

SetMaxPerAddress(m) ==
    /\ m # maxPerAddress
    /\ maxPerAddress' = m
    /\ highestLimit' = IF m > highestLimit THEN m ELSE highestLimit
    /\ UNCHANGED <<envVars, price, signers, counterVars, held>>

\* A signer in both lists ends up authorised.
ChangeAllowlistSigners(rm, add) ==
    /\ signers' = (signers \ rm) \cup add
    /\ signers' # signers
    /\ UNCHANGED <<envVars, price, maxPerAddress, highestLimit, counterVars, held>>

\* Time passes.
Tick ==
    /\ now < MaxTime
    /\ now' = now + 1
    /\ UNCHANGED <<holder, steeringVars, counterVars, held>>

\* A gating token changes hands.
TransferGatingToken(t, to) ==
    /\ to # holder[t]
    /\ holder' = [holder EXCEPT ![t] = to]
    /\ UNCHANGED <<now, steeringVars, counterVars, held>>
=============================================================================
