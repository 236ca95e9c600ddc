---------------------------- MODULE LockableRole ----------------------------
(***************************************************************************)
(* A role of a sellable or redeemable token, AUTHORISED_SELLER_ROLE or     *)
(* REDEEMER_ROLE.  Its admin is the steerer until it is locked: then it is *)
(* _NOOP_ROLE, which has no members and administers itself.                *)
(***************************************************************************)
CONSTANTS
    Contracts,   \* the contracts that may have the role
    Steered      \* bound: those that it is granted to and revoked from

VARIABLES
    members,   \* those that have the role
    locked     \* whether the admin of the role is _NOOP_ROLE

RoleTypeOK == members \subseteq Contracts /\ locked \in BOOLEAN

\* grantRole(), which is onlyRole(getRoleAdmin(role)).
Grant(c) ==
    /\ ~locked
    /\ c \notin members
    /\ members' = members \cup {c}
    /\ UNCHANGED locked

\* revokeRole(), likewise.  Members are sellers and redeemers of this repository,
\* none of which calls renounceRole().
Revoke(c) ==
    /\ ~locked
    /\ c \in members
    /\ members' = members \ {c}
    /\ UNCHANGED locked

\* lockSellers() or lockRedeemers(); repeating it changes nothing.
Lock ==
    /\ ~locked
    /\ locked' = TRUE
    /\ UNCHANGED members

Steer == Lock \/ \E c \in Contracts \cap Steered : Grant(c) \/ Revoke(c)
=============================================================================
