----------------------------- MODULE Transactor -----------------------------
(***************************************************************************)
(* Do() of go/dbtx, run by several callers against one PostgreSQL server,  *)
(* and the transaction-level advisory locks that its Funcs take.  A Func   *)
(* may take any locks, one after the other, and then return or panic; its  *)
(* effects are the transaction, which is applied or not as a whole.        *)
(***************************************************************************)
EXTENDS Integers, FiniteSets

CONSTANTS
    Callers,        \* goroutines that call Do()
    LockKeys,
    MaxFuncs        \* bound on the Funcs given to one Do()

ASSUME TransactorAssumption == MaxFuncs \in Nat

Exclusivity == {"Exclusive", "Shared"}

VARIABLES
    txAt,       \* where each caller is, or how its Do() has returned
    nFuncs,     \* the number of Funcs given to Do()
    fn,         \* the number of Funcs that have been committed
    held,       \* the locks that each caller's transaction holds
    wanted,     \* the lock that a caller is waiting for
    aborted,    \* a statement failed, and the transaction can only be rolled back
    applied     \* transactions that took effect at the server

txVars == <<txAt, nFuncs, fn, held, wanted, aborted, applied>>

NoLock == [key |-> "none", mode |-> "none"]
Locks == [key : LockKeys, mode : Exclusivity]

TransactorInit ==
    /\ txAt = [p \in Callers |-> "idle"]
    /\ nFuncs = [p \in Callers |-> 0]
    /\ fn = [p \in Callers |-> 0]
    /\ held = [p \in Callers |-> {}]
    /\ wanted = [p \in Callers |-> NoLock]
    /\ aborted = [p \in Callers |-> FALSE]
    /\ applied = [p \in Callers |-> 0]

\* Do() with n Funcs.
DoCall(p, n) ==
    /\ txAt[p] \in {"idle", "nil", "err"}
    /\ txAt' = [txAt EXCEPT ![p] = "begin"]
    /\ nFuncs' = [nFuncs EXCEPT ![p] = n]
    /\ fn' = [fn EXCEPT ![p] = 0]
    /\ applied' = [applied EXCEPT ![p] = 0]
    /\ UNCHANGED <<held, wanted, aborted>>

\* The loop begins the next transaction, or fails to.
BeginTx(p) ==
    /\ txAt[p] = "begin" /\ fn[p] < nFuncs[p]
    /\ \/ txAt' = [txAt EXCEPT ![p] = "func"]
       \/ txAt' = [txAt EXCEPT ![p] = "err"]
    /\ aborted' = [aborted EXCEPT ![p] = FALSE]
    /\ UNCHANGED <<nFuncs, fn, held, wanted, applied>>

DoReturnsNil(p) ==
    /\ txAt[p] = "begin" /\ fn[p] = nFuncs[p]
    /\ txAt' = [txAt EXCEPT ![p] = "nil"]
    /\ UNCHANGED <<nFuncs, fn, held, wanted, aborted, applied>>

\* External: an advisory lock conflicts with those of other transactions.
Compatible(p, lock) ==
    \A o \in Callers \ {p} : \A l \in held[o] :
        l.key = lock.key => l.mode = "Shared" /\ lock.mode = "Shared"

\* PgTxLock() waits; of an unsupported Exclusivity it only returns an error.
PgTxLock(p, lock) ==
    /\ txAt[p] = "func" /\ ~aborted[p]
    /\ txAt' = [txAt EXCEPT ![p] = "locking"]
    /\ wanted' = [wanted EXCEPT ![p] = lock]
    /\ UNCHANGED <<nFuncs, fn, held, aborted, applied>>

LockGranted(p) ==
    /\ txAt[p] = "locking" /\ Compatible(p, wanted[p])
    /\ held' = [held EXCEPT ![p] = @ \cup {wanted[p]}]
    /\ txAt' = [txAt EXCEPT ![p] = "func"]
    /\ UNCHANGED <<nFuncs, fn, wanted, aborted, applied>>

\* The Context ends, or the server finds a deadlock.
LockFails(p) ==
    /\ txAt[p] = "locking"
    /\ txAt' = [txAt EXCEPT ![p] = "func"]
    /\ aborted' = [aborted EXCEPT ![p] = TRUE]
    /\ UNCHANGED <<nFuncs, fn, held, wanted, applied>>

\* TryPgTxLock() returns whether it got the lock, or an error.
TryPgTxLock(p, lock) ==
    /\ txAt[p] = "func" /\ ~aborted[p]
    /\ \/ Compatible(p, lock) /\ held' = [held EXCEPT ![p] = @ \cup {lock}] /\ UNCHANGED aborted
       \/ ~Compatible(p, lock) /\ UNCHANGED <<held, aborted>>
       \/ aborted' = [aborted EXCEPT ![p] = TRUE] /\ UNCHANGED held
    /\ UNCHANGED <<txAt, nFuncs, fn, wanted, applied>>

\* The transaction is over, and so are its locks.
EndTx(p) == held' = [held EXCEPT ![p] = {}]

\* The Func returns nil and Commit() succeeds.
CommitOK(p) ==
    /\ txAt[p] = "func" /\ ~aborted[p]
    /\ EndTx(p)
    /\ fn' = [fn EXCEPT ![p] = @ + 1]
    /\ applied' = [applied EXCEPT ![p] = @ + 1]
    /\ txAt' = [txAt EXCEPT ![p] = "begin"]
    /\ UNCHANGED <<nFuncs, wanted, aborted>>

\* The Func returns nil and Commit() fails; the connection may have been lost
\* after the server had applied the transaction.
CommitFails(p) ==
    /\ txAt[p] = "func"
    /\ EndTx(p)
    /\ \/ UNCHANGED applied
       \/ ~aborted[p] /\ applied' = [applied EXCEPT ![p] = @ + 1]
    /\ txAt' = [txAt EXCEPT ![p] = "err"]
    /\ UNCHANGED <<nFuncs, fn, wanted, aborted>>

\* Mutant of FuncFails: the other Funcs are run all the same.
FuncFailsGoesOn(p) ==
    /\ txAt[p] = "func"
    /\ EndTx(p)
    /\ fn' = [fn EXCEPT ![p] = @ + 1]
    /\ txAt' = [txAt EXCEPT ![p] = "begin"]
    /\ UNCHANGED <<nFuncs, wanted, aborted, applied>>

\* The Func returns an error: Rollback(), and Do() returns.
FuncFails(p) ==
    /\ txAt[p] = "func"
    /\ EndTx(p)
    /\ txAt' = [txAt EXCEPT ![p] = "err"]
    /\ UNCHANGED <<nFuncs, fn, wanted, aborted, applied>>

\* The Func panics: Do() does not roll back, the transaction stays open.
FuncPanics(p) ==
    /\ txAt[p] = "func"
    /\ txAt' = [txAt EXCEPT ![p] = "panicked"]
    /\ UNCHANGED <<nFuncs, fn, held, wanted, aborted, applied>>

\* database/sql rolls back a transaction whose Context is done.
ContextDone(p) ==
    /\ txAt[p] = "panicked"
    /\ EndTx(p)
    /\ txAt' = [txAt EXCEPT ![p] = "idle"]
    /\ UNCHANGED <<nFuncs, fn, wanted, aborted, applied>>

TransactorNext ==
    \E p \in Callers :
        \/ \E n \in 0..MaxFuncs : DoCall(p, n)
        \/ BeginTx(p) \/ DoReturnsNil(p)
        \/ \E lock \in Locks : PgTxLock(p, lock) \/ TryPgTxLock(p, lock)
        \/ LockGranted(p) \/ LockFails(p)
        \/ CommitOK(p) \/ CommitFails(p)
        \/ FuncFails(p) \/ FuncPanics(p) \/ ContextDone(p)

TransactorSpec == TransactorInit /\ [][TransactorNext]_txVars

-----------------------------------------------------------------------------

TransactorTypeOK ==
    /\ txAt \in [Callers -> {"idle", "begin", "func", "locking", "panicked", "nil", "err"}]
    /\ nFuncs \in [Callers -> 0..MaxFuncs]
    /\ fn \in [Callers -> 0..MaxFuncs]
    /\ held \in [Callers -> SUBSET Locks]
    /\ wanted \in [Callers -> Locks \cup {NoLock}]
    /\ \A p \in Callers : txAt[p] = "locking" => wanted[p] \in Locks
    /\ aborted \in [Callers -> BOOLEAN]
    /\ applied \in [Callers -> 0..MaxFuncs]

\* No transaction holds a lock that conflicts with another one's.
LocksExclude ==
    \A p, o \in Callers : p # o =>
        \A l \in held[p], m \in held[o] :
            l.key = m.key => l.mode = "Shared" /\ m.mode = "Shared"

\* Locks are only held while a transaction is open: never between two Funcs,
\* and not after Do() has returned.
LocksEndWithTx ==
    \A p \in Callers : held[p] # {} => txAt[p] \in {"func", "locking", "panicked"}

(***************************************************************************)
(* The comment on Do(): a transaction is committed if its Func returns nil *)
(* and otherwise "all further Funcs [are] ignored".  The transactions that *)
(* took effect are those of a prefix of the Funcs, all of them if Do()     *)
(* returns nil; after an error there may be one more than Do() knows of,   *)
(* because a Commit() that failed may have been applied.                   *)
(***************************************************************************)
AppliedIsPrefix ==
    \A p \in Callers :
        /\ fn[p] <= nFuncs[p]
        /\ txAt[p] = "nil" => applied[p] = nFuncs[p]
        /\ txAt[p] # "err" => applied[p] = fn[p]
        /\ txAt[p] = "err" => applied[p] \in {fn[p], fn[p] + 1} /\ applied[p] <= nFuncs[p]
        /\ txAt[p] \in {"func", "locking", "panicked"} => fn[p] < nFuncs[p]

(***************************************************************************)
(* What callers of Do() rely on, whichever of them fails, panics or waits: *)
(* locks exclude each other and end with their transaction, and the        *)
(* transactions applied are a prefix of what was asked for.                *)
(***************************************************************************)
DoIsTransactional == LocksExclude /\ LocksEndWithTx /\ AppliedIsPrefix

=============================================================================
