------------------------------ MODULE Voucher ------------------------------
(***************************************************************************)
(* SellableRedeemableRestrictableERC721: a voucher that authorised sellers *)
(* mint and authorised redeemers burn, with transfer restrictions.  Tokens *)
(* are numbered from 1 in the order of minting.                            *)
(***************************************************************************)
EXTENDS Accounts, Naturals, Sequences, FiniteSets, Functions, SequencesExt

CONSTANTS
    SellerContracts,     \* contracts that may be made sellers of the voucher
    RedeemerContracts,   \* contracts that may be made redeemers
    Steered,             \* bound: contracts whose roles are changed
    Nobody,              \* the owner of a burnt voucher
    MaxVouchers          \* bound: vouchers minted

ASSUME VoucherAssumption == Nobody \notin Accounts /\ MaxVouchers \in Nat

Restrictions == {"None", "OnlyMint", "OnlyBurn", "Frozen"}

VARIABLES
    owner,               \* the owners of all vouchers ever minted
    restriction,         \* _transferRestriction
    restrictionLocked,   \* _locked
    sellers,             \* AUTHORISED_SELLER_ROLE
    sellersLocked,
    redeemers,           \* REDEEMER_ROLE
    redeemersLocked,
    balance              \* what sales have paid

restrictionVars == <<restriction, restrictionLocked>>
roleVars == <<sellers, sellersLocked, redeemers, redeemersLocked>>
voucherVars == <<owner, restrictionVars, roleVars, balance>>

SellerRole == INSTANCE LockableRole WITH
                  Contracts <- SellerContracts, members <- sellers, locked <- sellersLocked
RedeemerRole == INSTANCE LockableRole WITH
                  Contracts <- RedeemerContracts, members <- redeemers, locked <- redeemersLocked

VoucherTypeOK ==
    /\ owner \in Seq(Accounts \cup {Nobody})
    /\ restriction \in Restrictions
    /\ restrictionLocked \in BOOLEAN
    /\ SellerRole!RoleTypeOK /\ RedeemerRole!RoleTypeOK
    /\ balance \in Nat

\* The voucher has been deployed, and its sellers and redeemers authorised.
VoucherInit ==
    /\ owner = <<>>
    /\ restriction = "None" /\ restrictionLocked = FALSE
    /\ sellers = SellerContracts /\ sellersLocked = FALSE
    /\ redeemers = RedeemerContracts /\ redeemersLocked = FALSE
    /\ balance = 0

-----------------------------------------------------------------------------

MayMint == restriction \in {"None", "OnlyMint"}
MayBurn == restriction \in {"None", "OnlyBurn"}
MayTransfer == restriction = "None"

(***************************************************************************)
(* handleSale(), possibly several calls in one transaction: a voucher for  *)
(* each entry of receivers.  ERC721A refuses to mint none.                 *)
(***************************************************************************)
HandleSale(seller, receivers, value) ==
    /\ seller \in sellers
    /\ receivers # <<>>
    /\ MayMint
    /\ Len(owner) + Len(receivers) <= MaxVouchers
    /\ owner' = owner \o receivers
    /\ balance' = balance + value
    /\ UNCHANGED <<restrictionVars, roleVars>>

Exists(id) == id \in DOMAIN owner /\ owner[id] # Nobody

IsSenderAllowedToSpend(sender, id) ==
    Exists(id) /\ (sender = owner[id] \/ sender \in Operators[owner[id]])

\* Mutant of RedeemAll: a voucher may be listed twice.
RedeemAllChecked(redeemer, sender, ids) ==
    /\ redeemer \in redeemers
    /\ \A i \in DOMAIN ids : IsSenderAllowedToSpend(sender, ids[i])
    /\ MayBurn
    /\ owner' = [id \in DOMAIN owner |-> IF id \in ToSet(ids) THEN Nobody ELSE owner[id]]
    /\ UNCHANGED <<restrictionVars, roleVars, balance>>

(***************************************************************************)
(* redeem() for one voucher after the other.  ownerOf() of a burnt voucher *)
(* reverts, so that none may be listed twice.                              *)
(***************************************************************************)
RedeemAll(redeemer, sender, ids) ==
    /\ redeemer \in redeemers
    /\ \A i \in DOMAIN ids : IsSenderAllowedToSpend(sender, ids[i])
    /\ IsInjective(ids)
    /\ MayBurn
    /\ owner' = [id \in DOMAIN owner |-> IF id \in ToSet(ids) THEN Nobody ELSE owner[id]]
    /\ UNCHANGED <<restrictionVars, roleVars, balance>>

\* transferFrom() by the owner or an operator.
Transfer(id, to) ==
    /\ Exists(id)
    /\ to # owner[id]
    /\ MayTransfer
    /\ owner' = [owner EXCEPT ![id] = to]
    /\ UNCHANGED <<restrictionVars, roleVars, balance>>

\* Mutant of SetTransferRestriction: the lock is not looked at.
SetTransferRestrictionAlways(r) ==
    /\ r # restriction
    /\ restriction' = r
    /\ UNCHANGED <<owner, restrictionLocked, roleVars, balance>>

SetTransferRestriction(r) ==
    /\ ~restrictionLocked
    /\ r # restriction
    /\ restriction' = r
    /\ UNCHANGED <<owner, restrictionLocked, roleVars, balance>>

LockTransferRestriction(r) ==
    /\ r = restriction
    /\ ~restrictionLocked
    /\ restrictionLocked' = TRUE
    /\ UNCHANGED <<owner, restriction, roleVars, balance>>

\* Steering of the roles.
SteerRoles ==
    \/ SellerRole!Steer /\ UNCHANGED <<owner, restrictionVars, redeemers, redeemersLocked, balance>>
    \/ RedeemerRole!Steer /\ UNCHANGED <<owner, restrictionVars, sellers, sellersLocked, balance>>
=============================================================================
