---------------------------- MODULE ProjectPool ----------------------------
(***************************************************************************)
(* ProjectPoolSellable: a sellable token of which every purchase names the *)
(* projects of the tokens that are minted.  Tokens are numbered from 1 in  *)
(* the order of minting, projects and editions from 0.                     *)
(***************************************************************************)
EXTENDS Naturals, Sequences, FiniteSets

CONSTANTS
    PoolContracts,      \* contracts that may be made sellers of the pool
    NumProjects,        \* _numProjects()
    MaxNumPerProject    \* _maxNumPerProject(), per project

Projects == 0..(NumProjects - 1)

ASSUME ProjectPoolAssumption ==
    NumProjects \in Nat /\ MaxNumPerProject \in [Projects -> Nat]

VARIABLES
    info,              \* _infos: project and edition of every token
    purchasedPer,      \* _numPurchasedPerProject
    poolSellers,       \* AUTHORISED_SELLER_ROLE of the pool
    poolSellersLocked,
    poolBalance        \* what sales have paid

poolRoleVars == <<poolSellers, poolSellersLocked>>
poolVars == <<info, purchasedPer, poolRoleVars, poolBalance>>

PoolRole == INSTANCE LockableRole WITH
                Contracts <- PoolContracts, Steered <- PoolContracts,
                members <- poolSellers, locked <- poolSellersLocked

PoolTypeOK ==
    /\ info \in Seq([projectId : Projects, edition : Nat])
    /\ purchasedPer \in [Projects -> Nat]
    /\ PoolRole!RoleTypeOK
    /\ poolBalance \in Nat

PoolInit ==
    /\ info = <<>>
    /\ purchasedPer = [p \in Projects |-> 0]
    /\ poolSellers = PoolContracts /\ poolSellersLocked = FALSE
    /\ poolBalance = 0

-----------------------------------------------------------------------------

\* The tokens of project p among the first n of a purchase.
Among(projectIds, n, p) == Cardinality({i \in 1..n : projectIds[i] = p})

\* Mutant of Editions: the counter is increased after the loop.
EditionsStale(projectIds) ==
    [i \in DOMAIN projectIds |->
        [projectId |-> projectIds[i], edition |-> purchasedPer[projectIds[i]]]]

\* The infos of the tokens of a purchase: each takes the next edition.
Editions(projectIds) ==
    [i \in DOMAIN projectIds |->
        [projectId |-> projectIds[i],
         edition |-> purchasedPer[projectIds[i]] + Among(projectIds, i - 1, projectIds[i])]]

(***************************************************************************)
(* handleSale() with the projects in its data.  A project that does not    *)
(* exist or is exhausted makes all of the purchase revert.                 *)
(***************************************************************************)
PoolHandleSale(seller, projectIds, value) ==
    LET minted == Editions(projectIds)
    IN  /\ seller \in poolSellers
        /\ projectIds # <<>>
        /\ \A i \in DOMAIN projectIds :
             /\ projectIds[i] \in Projects
             /\ minted[i].edition < MaxNumPerProject[projectIds[i]]
        /\ info' = info \o minted
        /\ purchasedPer' = [p \in Projects |->
                              purchasedPer[p] + Among(projectIds, Len(projectIds), p)]
        /\ poolBalance' = poolBalance + value
        /\ UNCHANGED poolRoleVars

SteerPool == PoolRole!Steer /\ UNCHANGED <<info, purchasedPer, poolBalance>>

-----------------------------------------------------------------------------

(***************************************************************************)
(* The tokens of a project are its editions from 0 on, each once and none  *)
(* beyond the maximum, so that tokenIdsByProjectId() finds as many as      *)
(* numPurchasedPerProject() says and ArtBlocks' numbering can be relied on.*)
(***************************************************************************)
EditionsAreContiguous ==
    \A p \in Projects :
        LET tokens == {t \in DOMAIN info : info[t].projectId = p}
        IN  /\ purchasedPer[p] <= MaxNumPerProject[p]
            /\ Cardinality(tokens) = purchasedPer[p]
            /\ {info[t].edition : t \in tokens} = 0..(purchasedPer[p] - 1)
=============================================================================
