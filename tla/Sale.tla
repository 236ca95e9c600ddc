-------------------------------- MODULE Sale --------------------------------
(***************************************************************************)
(* Vouchers sold by several sellers, traded, and redeemed by several       *)
(* redeemers, one of which mints tokens of a project pool: the contracts   *)
(* of contracts/sellers, contracts/redemption and contracts/presets        *)
(* working together.  An action is a transaction, over all of the          *)
(* contracts it reaches.                                                   *)
(*                                                                         *)
(*   "mintPass"  FixedPricedMintPassForProjectIDRedeemer                   *)
(*   "recorded"  BasicSingleRecordedRedeemer                               *)
(*   "ranking"   RankingRedeemer                                           *)
(*   "burner"    MintPassBurner or RoleGatedBurningRedeemer                *)
(***************************************************************************)
EXTENDS Sellers, Voucher, ProjectPool

CONSTANTS
    PassPrice,    \* the price of a redemption of "mintPass"
    NumChoices,   \* _numChoices of "ranking"
    MaxBatch,     \* bound: the length of a batch
    MaxNum,       \* bound: tokens per entry of a batch
    MaxValue,     \* bound: msg.value
    MaxChanges    \* bound: changes around the trade of vouchers

ASSUME SaleAssumption ==
    /\ PassPrice \in Nat /\ NumChoices \in Nat
    /\ MaxBatch \in Nat /\ MaxNum \in Nat /\ MaxValue \in Nat /\ MaxChanges \in Nat

VARIABLES
    records,   \* _redeemedVouchers of "recorded", per account
    passOf,    \* history: the voucher that each token of the pool was minted for
    ranked,    \* history: events of "ranking", vouchers with their rankings
    burnt,     \* history: the vouchers redeemed by "burner"
    changes    \* history: how many changes there have been, for the bound

goodsVars == <<records, passOf, ranked, burnt>>
saleVars == <<sellerVars, voucherVars, poolVars, goodsVars, changes>>

SaleTypeOK ==
    /\ SellersTypeOK /\ VoucherTypeOK /\ PoolTypeOK
    /\ records \in [Accounts -> Seq(Nat)]
    /\ passOf \in Seq(Nat)
    /\ changes \in 0..MaxChanges

SaleInit ==
    /\ SellersInit /\ VoucherInit /\ PoolInit
    /\ records = [a \in Accounts |-> <<>>]
    /\ passOf = <<>>
    /\ ranked = <<>>
    /\ burnt = <<>>
    /\ changes = 0

-----------------------------------------------------------------------------

Nums == 1..MaxNum
Values == 0..MaxValue
Batches(S) == UNION {[1..n -> S] : n \in 1..MaxBatch}

\* num times x.
Repeat(x, num) == [i \in 1..num |-> x]

\* The seller calls the voucher to mint, and the sale is all that happens.
Sell(seller, receivers, cost) ==
    /\ HandleSale(seller, receivers, cost)
    /\ UNCHANGED <<poolVars, goodsVars, changes>>

SellPublic(sender, to, num, value) ==
    /\ PublicPurchase(sender, to, num, value)
    /\ Sell("public", Repeat(to, num), Cost("public", num))

SellSigned(batch, value) ==
    /\ SignedPurchase(batch, value)
    /\ Sell("signed",
            FlattenSeq([i \in DOMAIN batch |-> Repeat(batch[i].allowance.receiver, batch[i].num)]),
            BatchCost(batch))

\* With guard rails, or without.
SellFree(batch) ==
    /\ FreePurchase(batch) \/ FreePurchaseWithGuardRails(batch, MaxNumSellable)
    /\ Sell("free", FlattenSeq([i \in DOMAIN batch |-> Repeat(batch[i].to, batch[i].num)]), 0)

SellGated(sender, ids, value) ==
    /\ GatedPurchase(sender, ids, value)
    /\ Sell("gated", Repeat(sender, Len(ids)), Cost("gated", Len(ids)))

SellAirdrop(num) ==
    /\ Airdrop(num)
    /\ Sell("airdrop", AirdropReceivers(num), 0)

-----------------------------------------------------------------------------

(***************************************************************************)
(* redeem() of "mintPass": all passes are redeemed, then as many tokens    *)
(* are bought from the pool, for the fee that must have been sent.  If the *)
(* pool reverts, no pass has been redeemed.                                *)
(***************************************************************************)
RedeemMintPass(sender, redemptions, value) ==
    LET ids == [i \in DOMAIN redemptions |-> redemptions[i].passId]
        cost == Len(redemptions) * PassPrice
    IN  /\ RedeemAll("mintPass", sender, ids)
        /\ value = cost
        /\ Forward("mintPass", value, cost)
        /\ PoolHandleSale("mintPass", [i \in DOMAIN redemptions |-> redemptions[i].projectId], cost)
        /\ passOf' = passOf \o ids
        /\ UNCHANGED <<envVars, steeringVars, counterVars, records, ranked, burnt, changes>>

\* redeem() of "recorded"; the record goes if the voucher reverts.
RedeemRecorded(sender, id) ==
    /\ records' = [records EXCEPT ![sender] = Append(@, id)]
    /\ RedeemAll("recorded", sender, <<id>>)
    /\ UNCHANGED <<sellerVars, poolVars, passOf, ranked, burnt, changes>>

\* The length is right and the bitmask of the choices has all bits set.
IsRanking(ranking) ==
    Len(ranking) = NumChoices /\ ToSet(ranking) = 0..(NumChoices - 1)

Rankings == UNION {[1..n -> 0..NumChoices] : n \in 0..(NumChoices + 1)}
AcceptedRankings == {ranking \in Rankings : IsRanking(ranking)}

\* redeem() of "ranking": an invalid ranking makes all of the batch revert.
RedeemRanking(sender, ids) ==
    /\ RedeemAll("ranking", sender, ids)
    /\ \E rankings \in [DOMAIN ids -> AcceptedRankings] :
         ranked' = ranked \o [i \in DOMAIN ids |-> [id |-> ids[i], ranking |-> rankings[i]]]
    /\ UNCHANGED <<sellerVars, poolVars, records, passOf, burnt, changes>>

\* burn() of "burner", in the name of the owners.
Burn(ids) ==
    /\ \A i \in DOMAIN ids : Exists(ids[i])
    /\ IsInjective(ids)
    /\ MayBurn
    /\ "burner" \in redeemers
    /\ owner' = [id \in DOMAIN owner |-> IF id \in ToSet(ids) THEN Nobody ELSE owner[id]]
    /\ burnt' = burnt \o ids
    /\ UNCHANGED <<sellerVars, restrictionVars, roleVars, balance, poolVars,
                   records, passOf, ranked, changes>>

-----------------------------------------------------------------------------

\* Transactions of the steerer.
SteerSellers ==
    /\ \/ \E s \in Priced, p \in Prices : SetPrice(s, p)
       \/ \E m \in Limits : SetMaxPerAddress(m)
       \/ \E rm, add \in SUBSET Signers : ChangeAllowlistSigners(rm, add)
    /\ UNCHANGED <<voucherVars, poolVars>>

SteerVoucher ==
    /\ \/ \E r \in Restrictions : SetTransferRestriction(r) \/ LockTransferRestriction(r)
       \/ SteerRoles
    /\ UNCHANGED <<sellerVars, poolVars>>

(***************************************************************************)
(* Changes around the trade, by the steerer, by time, and by holders of    *)
(* the gating token; one of a seller's parameters counts as two.           *)
(***************************************************************************)
Change ==
    /\ \/ changes' = changes + 2 /\ SteerSellers
       \/ changes' = changes + 1 /\ SteerVoucher
       \/ changes' = changes + 1 /\ SteerPool /\ UNCHANGED <<sellerVars, voucherVars>>
       \/ /\ changes' = changes + 1
          /\ Tick \/ \E t \in GatingTokens, to \in Accounts : TransferGatingToken(t, to)
          /\ UNCHANGED <<voucherVars, poolVars>>
    /\ changes' <= MaxChanges
    /\ UNCHANGED goodsVars

\* Holders trade their vouchers.
TransferVoucher(id, to) ==
    /\ Transfer(id, to)
    /\ UNCHANGED <<sellerVars, poolVars, goodsVars, changes>>

SignedBatches == Batches([allowance : Allowances, signer : Signers, num : Nums])
FreeBatches == Batches([to : Accounts, num : Nums])
GatedBatches == Batches(GatingTokens)

\* A purchase of vouchers from one of the sellers.
Purchase ==
    /\ Len(owner) < MaxVouchers
    /\ \/ \E sender, to \in Accounts, num \in Nums, value \in Values :
            SellPublic(sender, to, num, value)
       \/ \E batch \in SignedBatches, value \in Values : SellSigned(batch, value)
       \/ \E batch \in FreeBatches : SellFree(batch)
       \/ \E sender \in Accounts, ids \in GatedBatches, value \in Values :
            SellGated(sender, ids, value)
       \/ \E num \in Nums : SellAirdrop(num)

\* A redemption of vouchers by one of the redeemers.
Redemption ==
    \/ \E sender \in Accounts, value \in Values,
          redemptions \in Batches([passId : DOMAIN owner, projectId : 0..NumProjects]) :
         RedeemMintPass(sender, redemptions, value)
    \/ \E sender \in Accounts, id \in DOMAIN owner : RedeemRecorded(sender, id)
    \/ \E sender \in Accounts, ids \in Batches(DOMAIN owner) : RedeemRanking(sender, ids)
    \/ \E ids \in Batches(DOMAIN owner) : Burn(ids)

SaleNext ==
    \/ Purchase
    \/ Redemption
    \/ \E id \in DOMAIN owner, to \in Accounts : TransferVoucher(id, to)
    \/ Change

SaleSpec == SaleInit /\ [][SaleNext]_saleVars

-----------------------------------------------------------------------------

(***************************************************************************)
(* No counter goes beyond its limit, also within a batch that uses an      *)
(* allowance several times or after a limit was lowered below what has     *)
(* been bought: for each buyer the largest public limit that there has     *)
(* been so far, allowances, the supply of the free seller, and one airdrop *)
(* per holder's token.                                                     *)
(***************************************************************************)
LimitsHold ==
    /\ \A a \in Accounts : bought[a] <= highestLimit
    /\ \A a \in Allowances : purchased[a] <= a.numMax
    /\ numSold <= MaxNumSellable
    /\ numAirdropped <= GatingSupply

(***************************************************************************)
(* The comment on _maxPerAddress: 0 "means this limit will be ignored", so *)
(* that it refuses nobody.                                                 *)
(***************************************************************************)
ZeroMeansNoLimit ==
    maxPerAddress = 0 =>
        \A a \in Accounts, num \in Nums : WithinPerAddressLimit(a, num)

(***************************************************************************)
(* Every voucher ever minted counts against the limit of one seller, and   *)
(* sellers forward all they are paid: the exact-price checks of the        *)
(* different mechanics leave nothing behind in a contract that could not   *)
(* pay it out, and none sells with what another buyer paid.                *)
(***************************************************************************)
MintedIsSold ==
    /\ Len(owner) = SumFunction(bought) + SumFunction(purchased) + numSold
                    + Cardinality(usedTokens) + numAirdropped
    /\ \A s \in Sellers : held[s] = 0

\* How often voucher id has been exchanged for something.
Exchanged(id) ==
    SumFunction([a \in Accounts |-> Cardinality({i \in DOMAIN records[a] : records[a][i] = id})])
    + Cardinality({i \in DOMAIN passOf : passOf[i] = id})
    + Cardinality({i \in DOMAIN ranked : ranked[i].id = id})
    + Cardinality({i \in DOMAIN burnt : burnt[i] = id})

(***************************************************************************)
(* "The responsibility of vouchers is to [...] prevent double spending":   *)
(* whatever the redeemers, each burnt voucher has been exchanged once, the *)
(* others have not, and the pool has a token for each redeemed pass.       *)
(***************************************************************************)
GoodsMatchBurns ==
    /\ \A id \in DOMAIN owner : Exchanged(id) = IF owner[id] = Nobody THEN 1 ELSE 0
    /\ Len(passOf) = Len(info)

(***************************************************************************)
(* What is locked stays: the members of locked roles, and the stage of the *)
(* soft expiry, in which vouchers can only be redeemed (OnlyBurn) or do    *)
(* not change any more (Frozen).                                           *)
(***************************************************************************)
LocksHold ==
    [][/\ sellersLocked => sellers' = sellers
       /\ redeemersLocked => redeemers' = redeemers
       /\ poolSellersLocked => poolSellers' = poolSellers
       /\ restrictionLocked => restriction' = restriction
       /\ restrictionLocked /\ restriction = "Frozen" => owner' = owner
       /\ restrictionLocked /\ restriction = "OnlyBurn" =>
            /\ DOMAIN owner' = DOMAIN owner
            /\ \A id \in DOMAIN owner : owner'[id] \in {owner[id], Nobody}]_saleVars
=============================================================================
