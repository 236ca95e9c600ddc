----------------------------- MODULE Migrations -----------------------------
(***************************************************************************)
(* The deployments and migrations of contracts/uups, as a forge script.    *)
(* A script is run on a fork of the chain first; if it does not revert,    *)
(* the transactions that it made there are broadcast one by one, and that  *)
(* may stop after any of them.  The operator then runs a script again.     *)
(* An implementation stands for its CREATE2 address; impls[i+1] is         *)
(* impl(i), and the list only grows.  The dummy of simulateUpgrade() and   *)
(* the proxy are addresses too.                                            *)
(***************************************************************************)
EXTENDS Integers, Sequences, SequencesExt

CONSTANTS
    Impls,          \* implementations
    BadHash,        \* those whose init code hash is not the expected one
    Stuck,          \* those that cannot be upgraded from
    MaxImpls,       \* bound on the length of the list
    MaxSetUps       \* bound on upgrades

Proxy == "proxy"
Dummy == "dummy"
NoImpl == "none"

ASSUME MigrationsAssumption ==
    /\ BadHash \subseteq Impls /\ Stuck \subseteq Impls
    /\ Impls \cap {Proxy, Dummy, NoImpl} = {}
    /\ MaxImpls \in Nat /\ MaxSetUps \in Nat

VARIABLES
    impls,          \* the list of the project
    hasCode,        \* the addresses with code
    current,        \* the implementation of the proxy
    setUp,          \* history: the implementations set up in the proxy, in order
    unsent          \* the transactions still to be broadcast

migrationVars == <<impls, hasCode, current, setUp, unsent>>

MigrationsInit ==
    /\ impls = <<>> /\ hasCode = {} /\ current = NoImpl
    /\ setUp = <<>> /\ unsent = <<>>

Tx(op, what) == [op |-> op, what |-> what]
Txs(op, whats) == [i \in DOMAIN whats |-> Tx(op, whats[i])]

\* The project gets another version.
PushImpl(x) ==
    /\ Len(impls) < MaxImpls
    /\ impls' = Append(impls, x)
    /\ UNCHANGED <<hasCode, current, setUp, unsent>>

\* A script may be run: it makes these transactions.
Script(txs) ==
    /\ unsent = <<>> /\ impls # <<>> /\ impls[1] \notin BadHash
    /\ unsent' = txs
    /\ UNCHANGED <<impls, hasCode, current, setUp>>

\* create2() of a after those of `made', unless there is code at a already.
create2(made, a) == IF a \in hasCode \/ Contains(made, a) THEN made ELSE Append(made, a)

\* idempotentCreate2() of addresses, one after the other.
idempotentCreate2(addrs) == FoldLeft(create2, <<>>, addrs)

idempotentDeployAll ==
    /\ Range(impls) \cap BadHash = {}
    /\ Script(Txs("create", idempotentCreate2(Append(impls, Proxy))))

\* Mutant of Steps: the current implementation is set up again.
StepsFromCurrent(from, to) == SubSeq(impls, from + 1, to + 1)

\* The implementations that migrate(from, to) upgrades to.
Steps(from, to) == SubSeq(impls, from + 2, to + 1)

\* migrate(from, to); _upgradeToAndVerify() makes the script revert if an
\* upgrade has no effect, and an address without code cannot be upgraded to.
migrate(from, to) ==
    /\ from <= to /\ to < Len(impls)
    /\ current = impls[from + 1]
    /\ \A i \in from..to : impls[i + 1] \notin BadHash /\ impls[i + 1] \in hasCode
    /\ \A i \in from..to-1 : impls[i + 1] \notin Stuck
    /\ Len(setUp) + Len(Steps(from, to)) <= MaxSetUps
    /\ Script(Txs("upgrade", Steps(from, to)))

\* findIdx() of the current implementation reverts unless there is just one.
implementationIdx == {i \in 0..Len(impls)-1 : impls[i + 1] = current}

\* migrate(to), and migrateToLatest() for the last index.
migrateFromCurrent(to) ==
    /\ Range(impls) \cap BadHash = {}
    /\ \E i \in implementationIdx : implementationIdx = {i} /\ migrate(i, to)

\* simulateUpgrade() is meant for the fork only; should it be broadcast, the
\* upgrade to the dummy rolls itself back.
simulateUpgrade ==
    /\ current \notin Stuck \cup {NoImpl}
    /\ Script(Txs("create", idempotentCreate2(<<Dummy>>)) \o <<Tx("roundtrip", current)>>)

\* The next transaction.  The proxy is created with impl(0), which it sets up.
Broadcast ==
    /\ unsent # <<>>
    /\ unsent' = Tail(unsent)
    /\ LET tx == Head(unsent) IN
         \/ /\ tx.op = "create"
            /\ hasCode' = hasCode \cup {tx.what}
            /\ IF tx.what = Proxy THEN current' = impls[1] /\ setUp' = <<impls[1]>>
               ELSE UNCHANGED <<current, setUp>>
         \/ /\ tx.op = "upgrade"
            /\ current' = tx.what /\ setUp' = Append(setUp, tx.what)
            /\ UNCHANGED hasCode
         \/ /\ tx.op = "roundtrip"
            /\ current' = tx.what
            /\ UNCHANGED <<hasCode, setUp>>
    /\ UNCHANGED impls

\* External: forge stops, or a transaction is never accepted.
BroadcastStops ==
    /\ unsent # <<>>
    /\ unsent' = <<>>
    /\ UNCHANGED <<impls, hasCode, current, setUp>>

MigrationsNext ==
    \/ \E x \in Impls : PushImpl(x)
    \/ idempotentDeployAll
    \/ \E f, t \in 0..MaxImpls-1 : migrate(f, t)
    \/ \E t \in 0..MaxImpls-1 : migrateFromCurrent(t)
    \/ simulateUpgrade
    \/ Broadcast \/ BroadcastStops

MigrationsSpec == MigrationsInit /\ [][MigrationsNext]_migrationVars

-----------------------------------------------------------------------------

Unambiguous == \A i, j \in DOMAIN impls : impls[i] = impls[j] => i = j

(***************************************************************************)
(* However often a broadcast stops, scripts are repeated and versions are  *)
(* added, the proxy is set up with one version after the other in the      *)
(* order of the list, none of them skipped, and none of them twice as long *)
(* as the list has no duplicates; it always has the last of them, with     *)
(* code behind it.  The comments on idempotentDeployAll() and migrate().   *)
(***************************************************************************)
MigrationsAreInOrder ==
    /\ current = NoImpl <=> setUp = <<>>
    /\ setUp = <<>> <=> Proxy \notin hasCode
    /\ Range(setUp) \subseteq hasCode
    /\ setUp # <<>> => setUp[1] = impls[1] /\ current = Last(setUp)
    /\ \A n \in 1..Len(setUp)-1 : \E i \in 1..Len(impls)-1 :
          impls[i] = setUp[n] /\ impls[i + 1] = setUp[n + 1]
    /\ Unambiguous => setUp = SubSeq(impls, 1, Len(setUp))

=============================================================================
