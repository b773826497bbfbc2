-------------------------- MODULE SchemaMigrations --------------------------
(***************************************************************************)
(* apply_migrations (db/schema.py), run by every command that opens the    *)
(* Store.  Several processes may open the same file at once; each reads    *)
(* user_version outside any transaction, then runs the missing migrations, *)
(* one deferred transaction each.  SQLite is external: one writer at a     *)
(* time from its first write to the end of its transaction, DDL and        *)
(* user_version transactional, a dead process rolled back.                 *)
(***************************************************************************)
EXTENDS Integers, Sequences

CONSTANTS
    Procs,       \* the commands
    Sizes,       \* MIGRATIONS: the number of statements of each migration
    Repeatable,  \* the statements that succeed on a schema that has them
    MaxFaults    \* bound: crashes and commits refused by readers

Last == Len(Sizes)
Nobody == "nobody"

Statements == UNION {{i} \X (1..Sizes[i]) : i \in 1..Last}

\* CREATE TABLE and ALTER TABLE ADD COLUMN, which open every shipped migration,
\* fail on a schema that has the table or column.
ASSUME MigrationAssumption ==
    /\ Sizes \in Seq(Nat \ {0})
    /\ \A i \in 1..Last : <<i, 1>> \notin Repeatable
    /\ Nobody \notin Procs
    /\ MaxFaults \in Nat

VARIABLES
    db,      \* the committed database: user_version and the statements applied
    writer,  \* who holds SQLite's write lock
    txn,     \* what a process's transaction would commit
    pc,      \* "closed", "loop", "run", "commit", "open"
    index,   \* the loop index of apply_migrations
    at,      \* the next statement of the migration
    faults

vars == <<db, writer, txn, pc, index, at, faults>>

Schemas == [version : 0..Last, applied : SUBSET Statements]
Empty   == [version |-> 0, applied |-> {}]

Init ==
    /\ db = Empty /\ writer = Nobody /\ faults = 0
    /\ txn = [p \in Procs |-> Empty]
    /\ pc = [p \in Procs |-> "closed"]
    /\ index = [p \in Procs |-> 0] /\ at = [p \in Procs |-> 1]

\* Mutant: the version that was recorded is not looked at.
ReadNothing(p) ==
    /\ pc[p] = "closed"
    /\ index' = [index EXCEPT ![p] = 0]
    /\ pc' = [pc EXCEPT ![p] = "loop"]
    /\ UNCHANGED <<db, writer, txn, at, faults>>

\* Connect; current = schema_version(conn).
ReadVersion(p) ==
    /\ pc[p] = "closed"
    /\ index' = [index EXCEPT ![p] = db.version]
    /\ pc' = [pc EXCEPT ![p] = "loop"]
    /\ UNCHANGED <<db, writer, txn, at, faults>>

\* BEGIN is deferred: it takes no lock.
Begin(p) ==
    /\ pc[p] = "loop" /\ index[p] < Last
    /\ pc' = [pc EXCEPT ![p] = "run"]
    /\ at' = [at EXCEPT ![p] = 1]
    /\ UNCHANGED <<db, writer, txn, index, faults>>

\* What p's next statement sees: its own transaction or the committed schema.
View(p) == IF writer = p THEN txn[p] ELSE db

Statement(p) == <<index[p] + 1, at[p]>>
Running(p)   == pc[p] = "run" /\ at[p] <= Sizes[index[p] + 1]
CanWrite(p)  == writer \in {Nobody, p}
Applies(p)   == Statement(p) \in View(p).applied => Statement(p) \in Repeatable

\* Mutant: executescript commits on its own before it runs (schema.py:12).
ExecuteScript(p) ==
    /\ Running(p) /\ CanWrite(p) /\ Applies(p)
    /\ db' = [db EXCEPT !.applied = @ \cup {Statement(p)}]
    /\ txn' = [txn EXCEPT ![p] = db']
    /\ writer' = p
    /\ at' = [at EXCEPT ![p] = @ + 1]
    /\ UNCHANGED <<pc, index, faults>>

\* The first statement takes the write lock, the others have it.
Execute(p) ==
    /\ Running(p) /\ CanWrite(p) /\ Applies(p)
    /\ writer' = p
    /\ txn' = [txn EXCEPT ![p] =
                 [View(p) EXCEPT !.applied = @ \cup {Statement(p)}]]
    /\ at' = [at EXCEPT ![p] = @ + 1]
    /\ UNCHANGED <<db, pc, index, faults>>

\* Mutant: the except clause forgets the ROLLBACK.
NoRollback(p) ==
    /\ pc' = [pc EXCEPT ![p] = "closed"]
    /\ UNCHANGED <<db, writer, txn, index, at>>

\* An exception in the migration, or the end of the process: ROLLBACK.
Rollback(p) ==
    /\ pc' = [pc EXCEPT ![p] = "closed"]
    /\ writer' = IF writer = p THEN Nobody ELSE writer
    /\ UNCHANGED <<db, txn, index, at>>

\* Mutant: a statement that the schema already has is passed over.
PassOver(p) ==
    /\ Running(p) /\ CanWrite(p) /\ ~Applies(p)
    /\ writer' = p
    /\ txn' = [txn EXCEPT ![p] = View(p)]
    /\ at' = [at EXCEPT ![p] = @ + 1]
    /\ UNCHANGED <<db, pc, index, faults>>

\* "table already exists", "duplicate column name".
FailExisting(p) ==
    /\ Running(p) /\ CanWrite(p) /\ ~Applies(p)
    /\ Rollback(p) /\ UNCHANGED faults

\* "database is locked": another writer outlasts the busy timeout.
FailBusy(p) ==
    /\ Running(p) /\ ~CanWrite(p)
    /\ Rollback(p) /\ UNCHANGED faults

SetVersion(p) ==
    /\ pc[p] = "run" /\ at[p] > Sizes[index[p] + 1]
    /\ txn' = [txn EXCEPT ![p].version = index[p] + 1]
    /\ pc' = [pc EXCEPT ![p] = "commit"]
    /\ UNCHANGED <<db, writer, index, at, faults>>

Commit(p) ==
    /\ pc[p] = "commit"
    /\ db' = txn[p] /\ writer' = Nobody
    /\ index' = [index EXCEPT ![p] = @ + 1]
    /\ pc' = [pc EXCEPT ![p] = "loop"]
    /\ UNCHANGED <<txn, at, faults>>

\* COMMIT outlasts the busy timeout while another process reads.
FailCommit(p) ==
    /\ pc[p] = "commit" /\ faults < MaxFaults
    /\ \E q \in Procs \ {p} : pc[q] \in {"loop", "open"}
    /\ Rollback(p) /\ faults' = faults + 1

Crash(p) ==
    /\ pc[p] \in {"loop", "run", "commit"} /\ faults < MaxFaults
    /\ Rollback(p) /\ faults' = faults + 1

\* The loop is over; the Store is open.
Open(p) ==
    /\ pc[p] = "loop" /\ index[p] >= Last
    /\ pc' = [pc EXCEPT ![p] = "open"]
    /\ UNCHANGED <<db, writer, txn, index, at, faults>>

Work(p) ==
    \/ ReadVersion(p) \/ Begin(p) \/ Execute(p) \/ FailExisting(p) \/ FailBusy(p)
    \/ SetVersion(p) \/ Commit(p) \/ Open(p)

Next == \E p \in Procs : Work(p) \/ FailCommit(p) \/ Crash(p)

Spec == Init /\ [][Next]_vars

\* Every process runs, and a command that failed is run again.
FairSpec == Spec /\ \A p \in Procs : WF_vars(Work(p))

-----------------------------------------------------------------------------
(* Properties.                                                             *)

\* Every variable has its type; only a process in a transaction has the lock.
TypeOK ==
    /\ db \in Schemas /\ txn \in [Procs -> Schemas]
    /\ writer \in Procs \cup {Nobody}
    /\ pc \in [Procs -> {"closed", "loop", "run", "commit", "open"}]
    /\ index \in [Procs -> 0..Last] /\ at \in [Procs -> Nat]
    /\ faults \in 0..MaxFaults
    /\ writer # Nobody => pc[writer] \in {"run", "commit"}

\* The statements of the first v migrations.
UpTo(v) == {s \in Statements : s[1] <= v}

\* "a partially-applied (bricked) schema is impossible" (schema.py:158): the
\* committed schema is the work of exactly the migrations user_version counts,
\* whoever raced, failed or died in between.
NeverBricked == db.applied = UpTo(db.version)

\* "forward-only" (schema.py:1): a process that read an old version cannot
\* take user_version back.
ForwardOnly == [][db'.version >= db.version]_vars

\* A command works on a complete schema.
OpenIsCurrent == \A p \in Procs : pc[p] = "open" => db.version = Last

\* The committed schema is whole at every version, and the one the code needs
\* for whoever works on it.
SchemaWhole == NeverBricked /\ OpenIsCurrent

\* "the next run retries cleanly" (schema.py:11): whoever loses a race, dies or
\* is rolled back gets its Store open in the end.
EveryoneOpens == \A p \in Procs : <>(pc[p] = "open")

=============================================================================
