---------------------------- MODULE MCContracts -----------------------------
(***************************************************************************)
(* A small instance of Contracts: see Contracts.cfg for the bounds.        *)
(***************************************************************************)
EXTENDS Contracts

CONSTANTS alice, bob, allowanceSigner

\* Signers of the oracle are interchangeable, and so are callbacks whose
\* consumer has the requester role.
Symmetry == Permutations(OracleSigners) \cup Permutations(Requesters)

\* alice may act with bob's tokens.
MCOperators == alice :> {} @@ bob :> {alice}

\* Two free vouchers for alice in the first period; one, not free, for bob.
MCAllowances ==
    {[receiver |-> alice, numMax |-> 2, price |-> 0, from |-> 0, until |-> 1],
     [receiver |-> bob, numMax |-> 1, price |-> 1, from |-> 0, until |-> 2]}

\* The first project has one token, the second two.
MCMaxNumPerProject == 0 :> 1 @@ 1 :> 2
=============================================================================
