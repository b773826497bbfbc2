-------------------------- MODULE FoundationProofs --------------------------
(***************************************************************************)
(* The two parts every command stands on.  What leaves the process through *)
(* SafeClient, for every set of URLs, interval, attempt limit and number   *)
(* of calls, whatever the server says; and that the schema stays whole for *)
(* any number of processes and migrations, as long as each migration       *)
(* starts with a statement that cannot run twice.                          *)
(***************************************************************************)
EXTENDS SafeClient, SchemaMigrations, TLAPS

-----------------------------------------------------------------------------
(* SafeClient.                                                             *)

\* A call under way has passed the guard, and a cookie is held only while the
\* reply that brought it is being read.
CallInv ==
    /\ stage # "idle" => url \in Allowed
    /\ jar => stage = "read"
    /\ stage # "idle" => attempt >= 1

ClientInv == ClientTypeOK /\ CallInv /\ OnlyAllowedLeaves /\ NoCookieLeaves /\ Polite

LEMMA InitClient == ASSUME ClientInit PROVE ClientInv
<1>1. /\ stage = "idle" /\ url \in Urls /\ reply \in Replies /\ outcome = "none"
      /\ elapsed \in 0..MinInterval /\ attempt = 0 /\ calls = 0
  BY DEF ClientInit
<1>2. jar = FALSE /\ sent = {}
  BY DEF ClientInit
<1>3. jar \in BOOLEAN /\ sent \subseteq Exchange
  BY <1>2
<1>4. attempt \in 0..MaxAttempts /\ calls \in 0..MaxCalls
  BY <1>1, ClientAssumption
<1>5. ClientTypeOK
  BY <1>1, <1>3, <1>4 DEF ClientTypeOK, Outcomes
<1>6. CallInv
  BY <1>1, <1>2 DEF CallInv
<1>7. OnlyAllowedLeaves /\ NoCookieLeaves /\ Polite
  BY <1>2 DEF OnlyAllowedLeaves, NoCookieLeaves, Polite
<1> QED
  BY <1>5, <1>6, <1>7 DEF ClientInv

\* The only step that lets a request out.
LEMMA SendStep == ASSUME ClientInv, Send PROVE ClientInv'
<1> DEFINE x == [url |-> url, gap |-> elapsed, cookie |-> jar]
<1>1. /\ sent' = sent \cup {x} /\ elapsed' = 0 /\ stage' = "wire"
      /\ UNCHANGED <<url, attempt, reply, jar, calls, outcome>>
      /\ stage = "pace" /\ elapsed >= MinInterval
  BY DEF Send, Dispatch
<1>2. jar = FALSE /\ url \in Allowed /\ elapsed \in 0..MinInterval /\ attempt >= 1
  BY <1>1 DEF ClientInv, CallInv, ClientTypeOK
<1>3. x \in Exchange /\ x.url \in Allowed /\ ~x.cookie /\ x.gap >= MinInterval
  BY <1>1, <1>2, ClientAssumption DEF Exchange
<1> HIDE DEF x
<1>4. ClientTypeOK'
  BY <1>1, <1>3, ClientAssumption DEF ClientInv, ClientTypeOK
<1>5. CallInv'
  BY <1>1, <1>2 DEF CallInv
<1>6. (OnlyAllowedLeaves /\ NoCookieLeaves /\ Polite)'
  BY <1>1, <1>3 DEF ClientInv, OnlyAllowedLeaves, NoCookieLeaves, Polite
<1> QED
  BY <1>4, <1>5, <1>6 DEF ClientInv

\* Every other step leaves the history alone.
LEMMA QuietClientStep ==
    ASSUME ClientInv, UNCHANGED sent, ClientTypeOK', CallInv'
    PROVE  ClientInv'
  BY DEF ClientInv, OnlyAllowedLeaves, NoCookieLeaves, Polite

LEMMA HandleStep == ASSUME ClientInv, Handle PROVE ClientInv'
<1>1. stage = "read" /\ jar' = FALSE /\ UNCHANGED <<url, reply, elapsed, calls, sent>>
  BY DEF Handle, Deliver, StopOversized, SurfaceRateLimit, FailOnDate, RefuseRedirect,
         FailOnStatus, FailUndecodable, Retry, GiveUp, Reading, ClearCookies, Unchanged
<1>2. CASE Retry
  <2>1. /\ stage' = "backoff" /\ attempt' = attempt + 1 /\ attempt < MaxAttempts
        /\ outcome' = outcome
    BY <1>2 DEF Retry
  <2>2. attempt' \in 1..MaxAttempts
    BY <2>1, ClientAssumption DEF ClientInv, ClientTypeOK
  <2>3. ClientTypeOK'
    <3>1. attempt' \in 0..MaxAttempts
      BY <2>2, ClientAssumption
    <3>2. jar' \in BOOLEAN
      BY <1>1
    <3> QED
      BY <1>1, <2>1, <3>1, <3>2 DEF ClientInv, ClientTypeOK
  <2>4. CallInv'
    BY <1>1, <2>1, <2>2 DEF ClientInv, CallInv
  <2> QED
    BY <1>1, <2>3, <2>4, QuietClientStep
<1>3. CASE ~Retry
  <2>1. stage' = "idle" /\ attempt' = attempt /\ outcome' \in Outcomes
    BY <1>3 DEF Handle, Deliver, StopOversized, SurfaceRateLimit, FailOnDate,
                RefuseRedirect, FailOnStatus, FailUndecodable, GiveUp, Finish, Outcomes
  <2>2. ClientTypeOK'
    BY <1>1, <2>1 DEF ClientInv, ClientTypeOK
  <2>3. CallInv'
    BY <1>1, <2>1 DEF CallInv
  <2> QED
    BY <1>1, <2>2, <2>3, QuietClientStep
<1> QED
  BY <1>2, <1>3

LEMMA ClientInvHolds == ClientSpec => []ClientInv
<1>1. ASSUME ClientInv, [ClientNext]_clientVars PROVE ClientInv'
  <2>1. CASE UNCHANGED clientVars
    BY <1>1, <2>1 DEF ClientInv, ClientTypeOK, CallInv, OnlyAllowedLeaves, NoCookieLeaves,
                      Polite, clientVars
  <2>2. CASE Tick
    <3>1. ClientTypeOK'
      <4>1. elapsed' = elapsed + 1 /\ elapsed < MinInterval
        BY <2>2 DEF Tick
      <4>2. elapsed' \in 0..MinInterval
        BY <1>1, <4>1, ClientAssumption DEF ClientInv, ClientTypeOK
      <4> QED
        BY <1>1, <2>2, <4>2 DEF ClientInv, ClientTypeOK, Tick
    <3>2. CallInv' /\ UNCHANGED sent
      BY <1>1, <2>2 DEF ClientInv, CallInv, Tick
    <3> QED
      BY <1>1, <3>1, <3>2, QuietClientStep
  <2>3. ASSUME NEW u \in Urls, Get(u) PROVE ClientInv'
    <3>1. ClientTypeOK'
      BY <1>1, <2>3, ClientAssumption DEF ClientInv, ClientTypeOK, Get, Outcomes
    <3>2. CallInv' /\ UNCHANGED sent
      BY <1>1, <2>3 DEF ClientInv, CallInv, Get
    <3> QED
      BY <1>1, <3>1, <3>2, QuietClientStep
  <2>4. ASSUME NEW r \in Replies, Answer(r) PROVE ClientInv'
    <3>1. ClientTypeOK'
      BY <1>1, <2>4 DEF ClientInv, ClientTypeOK, Answer
    <3>2. CallInv' /\ UNCHANGED sent
      BY <1>1, <2>4 DEF ClientInv, CallInv, Answer
    <3> QED
      BY <1>1, <3>1, <3>2, QuietClientStep
  <2>5. CASE Resume
    <3>1. ClientTypeOK' /\ CallInv' /\ UNCHANGED sent
      BY <1>1, <2>5 DEF ClientInv, ClientTypeOK, CallInv, Resume
    <3> QED
      BY <1>1, <3>1, QuietClientStep
  <2> QED
    BY <1>1, <2>1, <2>2, <2>3, <2>4, <2>5, SendStep, HandleStep DEF ClientNext, ClientWork
<1> QED
  BY InitClient, <1>1, PTL DEF ClientSpec

\* The client keeps its types, and no call goes past its attempts.
THEOREM ClientTyping == ClientSpec => []ClientTypeOK
  BY ClientInvHolds, PTL DEF ClientInv

\* No request leaves the process for a URL the guard refuses, redirects
\* included (http_client.py:152, 176-180).
THEOREM GuardHolds == ClientSpec => []OnlyAllowedLeaves
  BY ClientInvHolds, PTL DEF ClientInv

\* No request carries a cookie, retries after a failed exchange included
\* (http_client.py:187-189).
THEOREM CookiesStayHome == ClientSpec => []NoCookieLeaves
  BY ClientInvHolds, PTL DEF ClientInv

\* Two requests of a client are at least the minimum interval apart
\* (http_client.py:203-209).
THEOREM RequestsAreSpaced == ClientSpec => []Polite
  BY ClientInvHolds, PTL DEF ClientInv

\* Another attempt follows a transport error and nothing else: every other
\* step of the client leaves the attempt alone or starts a call
\* (http_client.py:154-166, 173-175).
THEOREM OnlyTransportRetried == ClientSpec => RetriesOnlyTransport
<1> DEFINE A == attempt' > 1 /\ attempt' # attempt =>
                  attempt' = attempt + 1 /\ reply.kind = "transportError"
<1>1. ASSUME ClientNext PROVE A
  <2>1. CASE Retry
    BY <2>1 DEF Retry, Reading
  <2>2. CASE Handle /\ ~Retry
    <3>1. attempt' = attempt
      BY <2>2 DEF Handle, Deliver, StopOversized, SurfaceRateLimit, FailOnDate,
                  RefuseRedirect, FailOnStatus, FailUndecodable, GiveUp, Finish
    <3> QED
      BY <3>1
  <2>3. ASSUME NEW u \in Urls, Get(u) PROVE A
    BY <2>3 DEF Get
  <2>4. CASE Tick \/ Send \/ Resume \/ \E r \in Replies : Answer(r)
    BY <2>4 DEF Tick, Send, Resume, Answer
  <2> QED
    BY <1>1, <2>1, <2>2, <2>3, <2>4 DEF ClientNext, ClientWork
<1>2. ASSUME [ClientNext]_clientVars PROVE [A]_clientVars
  BY <1>1, <1>2
<1> QED
  BY <1>2, PTL DEF ClientSpec, RetriesOnlyTransport

\* The whole boundary: every request is guarded and carries no cookie
\* (http_client.py:152, 177-189).
THEOREM BoundaryHolds == ClientSpec => []NothingLeaks
<1>1. OnlyAllowedLeaves /\ NoCookieLeaves => NothingLeaks
  BY DEF NothingLeaks
<1> QED
  BY <1>1, GuardHolds, CookiesStayHome, PTL

-----------------------------------------------------------------------------
(* SchemaMigrations.                                                       *)

\* The first n statements of migration i.
FirstOf(i, n) == {i} \X (1..n)

\* No process has read a version that was not reached; one that has written is
\* at the committed version, and its transaction holds that schema and the
\* statements of its migration so far.
ProcInv(p) ==
    /\ pc[p] # "closed" => index[p] <= db.version
    /\ pc[p] \in {"run", "commit"} => index[p] < Last
    /\ pc[p] = "run" => at[p] \in 1..(Sizes[index[p] + 1] + 1)
    /\ pc[p] = "run" /\ at[p] > 1 => writer = p
    /\ pc[p] = "commit" => writer = p
    /\ pc[p] = "open" => index[p] = Last

WriterInv(p) ==
    writer = p =>
        /\ pc[p] \in {"run", "commit"}
        /\ index[p] = db.version
        /\ pc[p] = "run" =>
              /\ txn[p].version = index[p]
              /\ txn[p].applied = UpTo(index[p]) \cup FirstOf(index[p] + 1, at[p] - 1)
        /\ pc[p] = "commit" =>
              /\ txn[p].version = index[p] + 1
              /\ txn[p].applied = UpTo(index[p] + 1)

MigrationInv ==
    /\ TypeOK /\ NeverBricked
    /\ \A p \in Procs : ProcInv(p) /\ WriterInv(p)

LEMMA SizesAreNat ==
    /\ Last \in Nat
    /\ \A i \in 1..Last : Sizes[i] \in Nat /\ Sizes[i] >= 1
<1>1. Sizes \in [1..Last -> Nat \ {0}] /\ Last \in Nat
  BY MigrationAssumption DEF Last
<1> QED
  BY <1>1

LEMMA StatementsOf ==
    \A i \in 1..Last : \A k \in 1..Sizes[i] : <<i, k>> \in Statements
  BY SizesAreNat DEF Statements

\* A whole migration takes the schema from one version to the next.
LEMMA WholeMigration ==
    ASSUME NEW i \in Nat, i < Last
    PROVE  UpTo(i) \cup FirstOf(i + 1, Sizes[i + 1]) = UpTo(i + 1)
<1>1. ASSUME NEW s \in UpTo(i + 1) PROVE s \in UpTo(i) \cup FirstOf(i + 1, Sizes[i + 1])
  <2>1. PICK j \in 1..Last : s \in {j} \X (1..Sizes[j])
    BY <1>1 DEF UpTo, Statements
  <2>2. s[1] = j /\ s[1] <= i + 1 /\ s \in Statements
    BY <1>1, <2>1 DEF UpTo
  <2>3. CASE j = i + 1
    BY <2>1, <2>3 DEF FirstOf
  <2>4. CASE j # i + 1
    BY <2>2, <2>4, SizesAreNat DEF UpTo
  <2> QED
    BY <2>3, <2>4
<1>2. ASSUME NEW s \in FirstOf(i + 1, Sizes[i + 1]) PROVE s \in UpTo(i + 1)
  <2>1. i + 1 \in 1..Last
    BY SizesAreNat
  <2>2. s \in Statements /\ s[1] = i + 1
    BY <1>2, <2>1 DEF FirstOf, Statements
  <2> QED
    BY <2>2 DEF UpTo
<1>3. ASSUME NEW s \in UpTo(i) PROVE s \in UpTo(i + 1)
  <2>1. PICK j \in 1..Last : s \in {j} \X (1..Sizes[j])
    BY <1>3 DEF UpTo, Statements
  <2> QED
    BY <1>3, <2>1, SizesAreNat DEF UpTo
<1> QED
  BY <1>1, <1>2, <1>3

\* A process that read an old version fails on its first statement, so one
\* that gets the write lock is at the committed version.
LEMMA FirstWriteIsCurrent ==
    ASSUME MigrationInv, NEW p \in Procs, Execute(p), writer = Nobody
    PROVE  index[p] = db.version /\ at[p] = 1
<1>1. /\ pc[p] = "run" /\ index[p] <= db.version /\ index[p] < Last
      /\ index[p] \in Nat /\ db.version \in Nat
      /\ at[p] \in 1..(Sizes[index[p] + 1] + 1)
  BY SizesAreNat DEF MigrationInv, ProcInv, TypeOK, Schemas, Execute, Running
<1>2. writer # p
  BY MigrationAssumption
<1>3. at[p] = 1
  BY <1>1, <1>2, SizesAreNat DEF MigrationInv, ProcInv
<1>4. index[p] + 1 \in 1..Last /\ 1 \in 1..Sizes[index[p] + 1]
  BY <1>1, SizesAreNat
<1>5. <<index[p] + 1, 1>> \in Statements /\ <<index[p] + 1, 1>> \notin Repeatable
  BY <1>4, StatementsOf, MigrationAssumption
<1>6. <<index[p] + 1, 1>> \notin db.applied
  BY <1>2, <1>3, <1>5 DEF Execute, Applies, Statement, View
<1>7. ~(index[p] + 1 <= db.version)
  BY <1>5, <1>6 DEF MigrationInv, NeverBricked, UpTo
<1> QED
  BY <1>1, <1>3, <1>7

LEMMA ExecuteStep ==
    ASSUME MigrationInv, NEW p \in Procs, Execute(p)
    PROVE  MigrationInv'
<1>1. /\ pc[p] = "run" /\ index[p] \in Nat /\ index[p] < Last
      /\ at[p] \in 1..Sizes[index[p] + 1] /\ at[p] \in Nat
      /\ Sizes[index[p] + 1] \in Nat /\ index[p] + 1 \in 1..Last
  BY SizesAreNat DEF MigrationInv, ProcInv, TypeOK, Execute, Running
<1>2. /\ UNCHANGED <<db, pc, index, faults>>
      /\ writer' = p /\ at' = [at EXCEPT ![p] = @ + 1]
      /\ txn' = [txn EXCEPT ![p] = [View(p) EXCEPT !.applied = @ \cup {Statement(p)}]]
      /\ writer \in {Nobody, p}
  BY DEF Execute, CanWrite
<1>3. Statement(p) = <<index[p] + 1, at[p]>> /\ Statement(p) \in Statements
  BY <1>1, StatementsOf DEF Statement
<1>4. /\ index[p] = db.version
      /\ View(p).version = index[p]
      /\ View(p).applied = UpTo(index[p]) \cup FirstOf(index[p] + 1, at[p] - 1)
      /\ View(p) \in Schemas
  <2>1. CASE writer = Nobody
    <3>1. index[p] = db.version /\ at[p] = 1 /\ View(p) = db
      BY <2>1, FirstWriteIsCurrent, MigrationAssumption DEF View
    <3>2. FirstOf(index[p] + 1, at[p] - 1) = {}
      BY <3>1 DEF FirstOf
    <3> QED
      BY <3>1, <3>2 DEF MigrationInv, NeverBricked, TypeOK
  <2>2. CASE writer = p
    BY <1>1, <2>2 DEF MigrationInv, WriterInv, View, TypeOK
  <2> QED
    BY <1>2, <2>1, <2>2
<1>5. FirstOf(index[p] + 1, at[p] - 1) \cup {Statement(p)} = FirstOf(index[p] + 1, at[p])
  BY <1>1, <1>3 DEF FirstOf
<1> DEFINE t == [View(p) EXCEPT !.applied = @ \cup {Statement(p)}]
<1>6. /\ t \in Schemas /\ t.version = index[p]
      /\ t.applied = UpTo(index[p]) \cup FirstOf(index[p] + 1, at[p])
  BY <1>3, <1>4, <1>5 DEF Schemas
<1>7. txn' = [txn EXCEPT ![p] = t]
  BY <1>2
<1> HIDE DEF t
<1>8. /\ txn'[p] = t /\ at'[p] = at[p] + 1
      /\ \A q \in Procs \ {p} : txn'[q] = txn[q] /\ at'[q] = at[q]
  BY <1>2, <1>7 DEF MigrationInv, TypeOK
<1>9. TypeOK'
  <2>1. txn' \in [Procs -> Schemas]
    BY <1>6, <1>7 DEF MigrationInv, TypeOK
  <2>2. at' \in [Procs -> Nat]
    BY <1>1, <1>2 DEF MigrationInv, TypeOK
  <2>3. writer' \in Procs /\ pc'[writer'] = "run"
    BY <1>1, <1>2
  <2> QED
    BY <1>2, <2>1, <2>2, <2>3 DEF MigrationInv, TypeOK, Schemas
<1>10. NeverBricked'
  BY <1>2 DEF MigrationInv, NeverBricked, UpTo
<1>11. ASSUME NEW q \in Procs PROVE ProcInv(q)' /\ WriterInv(q)'
  <2>1. CASE q = p
    <3>1. ProcInv(p)'
      BY <1>1, <1>2, <1>8 DEF MigrationInv, ProcInv
    <3>2. WriterInv(p)'
      <4>1. at'[p] - 1 = at[p] /\ pc'[p] = "run" /\ index'[p] = index[p] /\ db' = db
        BY <1>1, <1>2, <1>8
      <4>2. txn'[p].version = index'[p]
        BY <1>6, <1>8, <4>1
      <4>3. txn'[p].applied = UpTo(index'[p]) \cup FirstOf(index'[p] + 1, at'[p] - 1)
        BY <1>6, <1>8, <4>1
      <4> QED
        BY <1>4, <4>1, <4>2, <4>3 DEF WriterInv
    <3> QED
      BY <2>1, <3>1, <3>2
  <2>2. CASE q # p
    <3>1. writer # q
      BY <1>2, <2>2, MigrationAssumption
    <3>2. WriterInv(q)'
      BY <1>2, <2>2 DEF WriterInv
    <3>3. ProcInv(q)'
      BY <1>2, <1>8, <2>2, <3>1 DEF MigrationInv, ProcInv
    <3> QED
      BY <3>2, <3>3
  <2> QED
    BY <2>1, <2>2
<1> QED
  BY <1>9, <1>10, <1>11 DEF MigrationInv

\* A process that is rolled back gives up the lock it may hold.
LEMMA RollbackStep ==
    ASSUME MigrationInv, NEW p \in Procs, Rollback(p), faults' \in 0..MaxFaults
    PROVE  MigrationInv'
<1>1. /\ pc' = [pc EXCEPT ![p] = "closed"] /\ UNCHANGED <<db, txn, index, at>>
      /\ writer' = IF writer = p THEN Nobody ELSE writer
  BY DEF Rollback
<1>2. pc'[p] = "closed" /\ \A q \in Procs \ {p} : pc'[q] = pc[q]
  BY <1>1 DEF MigrationInv, TypeOK
<1>3. TypeOK'
  BY <1>1, <1>2, MigrationAssumption DEF MigrationInv, TypeOK
<1>4. NeverBricked'
  BY <1>1 DEF MigrationInv, NeverBricked, UpTo
<1>5. ASSUME NEW q \in Procs PROVE ProcInv(q)' /\ WriterInv(q)'
  <2>1. CASE q = p
    BY <1>1, <1>2, <2>1, MigrationAssumption DEF ProcInv, WriterInv
  <2>2. CASE q # p
    BY <1>1, <1>2, <2>2, MigrationAssumption
    DEF MigrationInv, ProcInv, WriterInv, UpTo, FirstOf
  <2> QED
    BY <2>1, <2>2
<1> QED
  BY <1>3, <1>4, <1>5 DEF MigrationInv

LEMMA SetVersionStep ==
    ASSUME MigrationInv, NEW p \in Procs, SetVersion(p)
    PROVE  MigrationInv'
<1>1. /\ pc[p] = "run" /\ index[p] \in Nat /\ index[p] < Last
      /\ at[p] = Sizes[index[p] + 1] + 1 /\ Sizes[index[p] + 1] \in Nat
      /\ Sizes[index[p] + 1] >= 1
  BY SizesAreNat DEF MigrationInv, ProcInv, TypeOK, SetVersion
<1>2. /\ txn' = [txn EXCEPT ![p].version = index[p] + 1]
      /\ pc' = [pc EXCEPT ![p] = "commit"]
      /\ UNCHANGED <<db, writer, index, at, faults>>
  BY DEF SetVersion
<1>3. writer = p
  BY <1>1 DEF MigrationInv, ProcInv
<1>4. txn[p].applied = UpTo(index[p] + 1) /\ index[p] = db.version
  <2>1. at[p] - 1 = Sizes[index[p] + 1]
    BY <1>1
  <2>2. /\ txn[p].applied = UpTo(index[p]) \cup FirstOf(index[p] + 1, at[p] - 1)
        /\ index[p] = db.version
    BY <1>1, <1>3 DEF MigrationInv, WriterInv
  <2> QED
    BY <1>1, <2>1, <2>2, WholeMigration
<1>5. /\ txn'[p] \in Schemas /\ txn'[p].version = index[p] + 1
      /\ txn'[p].applied = txn[p].applied
      /\ txn' \in [Procs -> Schemas]
  <2>1. index[p] + 1 \in 0..Last /\ txn[p] \in Schemas
    BY <1>1, SizesAreNat DEF MigrationInv, TypeOK
  <2> DEFINE t == [txn[p] EXCEPT !.version = index[p] + 1]
  <2>2. t \in Schemas /\ t.version = index[p] + 1 /\ t.applied = txn[p].applied
    BY <2>1 DEF Schemas
  <2>3. txn' = [txn EXCEPT ![p] = t]
    BY <1>2
  <2> HIDE DEF t
  <2> QED
    BY <2>2, <2>3 DEF MigrationInv, TypeOK
<1>6. pc'[p] = "commit" /\ \A q \in Procs \ {p} : pc'[q] = pc[q]
  BY <1>2 DEF MigrationInv, TypeOK
<1>7. TypeOK'
  BY <1>2, <1>3, <1>5, <1>6 DEF MigrationInv, TypeOK
<1>8. NeverBricked'
  BY <1>2 DEF MigrationInv, NeverBricked, UpTo
<1>9. ASSUME NEW q \in Procs PROVE ProcInv(q)' /\ WriterInv(q)'
  <2>1. CASE q = p
    BY <1>1, <1>2, <1>3, <1>4, <1>5, <1>6, <2>1
    DEF MigrationInv, ProcInv, WriterInv, UpTo, FirstOf
  <2>2. CASE q # p
    BY <1>2, <1>3, <1>6, <2>2 DEF MigrationInv, ProcInv, WriterInv
  <2> QED
    BY <2>1, <2>2
<1> QED
  BY <1>7, <1>8, <1>9 DEF MigrationInv

LEMMA CommitStep ==
    ASSUME MigrationInv, NEW p \in Procs, Commit(p)
    PROVE  MigrationInv' /\ db'.version = db.version + 1
<1>1. /\ writer = p /\ index[p] = db.version /\ index[p] < Last /\ index[p] \in Nat
      /\ txn[p].version = index[p] + 1 /\ txn[p].applied = UpTo(index[p] + 1)
      /\ txn[p] \in Schemas
  BY DEF MigrationInv, ProcInv, WriterInv, TypeOK, Commit
<1>2. /\ db' = txn[p] /\ writer' = Nobody
      /\ index' = [index EXCEPT ![p] = @ + 1]
      /\ pc' = [pc EXCEPT ![p] = "loop"]
      /\ UNCHANGED <<txn, at, faults>>
  BY DEF Commit
<1>3. /\ pc'[p] = "loop" /\ index'[p] = index[p] + 1
      /\ \A q \in Procs \ {p} : pc'[q] = pc[q] /\ index'[q] = index[q]
  BY <1>2 DEF MigrationInv, TypeOK
<1>4. TypeOK'
  BY <1>1, <1>2, <1>3, SizesAreNat DEF MigrationInv, TypeOK
<1>5. NeverBricked'
  BY <1>1, <1>2 DEF NeverBricked, UpTo
<1>6. ASSUME NEW q \in Procs PROVE ProcInv(q)' /\ WriterInv(q)'
  <2>1. WriterInv(q)'
    BY <1>2, MigrationAssumption DEF WriterInv
  <2>2. CASE q = p
    BY <1>1, <1>2, <1>3, <2>1, <2>2 DEF ProcInv
  <2>3. CASE q # p
    <3>1. index[q] \in Nat /\ db.version \in Nat /\ db'.version = db.version + 1
      BY <1>1, <1>2 DEF MigrationInv, TypeOK, Schemas
    <3> QED
      BY <1>1, <1>2, <1>3, <2>1, <2>3, <3>1 DEF MigrationInv, ProcInv
  <2> QED
    BY <2>2, <2>3
<1> QED
  BY <1>1, <1>2, <1>4, <1>5, <1>6 DEF MigrationInv

LEMMA QuietStep ==
    ASSUME MigrationInv, NEW p \in Procs, ReadVersion(p) \/ Begin(p) \/ Open(p)
    PROVE  MigrationInv'
<1>1. UNCHANGED <<db, writer, txn, faults>> /\ pc[p] \in {"closed", "loop"}
  BY DEF ReadVersion, Begin, Open
<1>2. writer # p
  BY <1>1 DEF MigrationInv, WriterInv
<1>3. \A q \in Procs \ {p} : pc'[q] = pc[q] /\ index'[q] = index[q] /\ at'[q] = at[q]
  BY DEF MigrationInv, TypeOK, ReadVersion, Begin, Open
<1>4. TypeOK' /\ ProcInv(p)'
  <2>1. CASE ReadVersion(p)
    <3>1. db.version \in 0..Last
      BY DEF MigrationInv, TypeOK, Schemas
    <3> QED
      BY <1>2, <2>1, <3>1, SizesAreNat DEF MigrationInv, TypeOK, ProcInv, ReadVersion
  <2>2. CASE Begin(p)
    <3>1. index[p] + 1 \in 1..Last
      BY <2>2, SizesAreNat DEF MigrationInv, TypeOK, Begin
    <3> QED
      BY <1>2, <2>2, <3>1, SizesAreNat DEF MigrationInv, TypeOK, ProcInv, Begin
  <2>3. CASE Open(p)
    BY <1>2, <2>3, SizesAreNat DEF MigrationInv, TypeOK, ProcInv, Open
  <2> QED
    BY <2>1, <2>2, <2>3
<1>5. NeverBricked'
  BY <1>1 DEF MigrationInv, NeverBricked, UpTo
<1>6. ASSUME NEW q \in Procs PROVE ProcInv(q)' /\ WriterInv(q)'
  BY <1>1, <1>2, <1>3, <1>4 DEF MigrationInv, ProcInv, WriterInv, UpTo, FirstOf
<1> QED
  BY <1>4, <1>5, <1>6 DEF MigrationInv

LEMMA InitMigration == ASSUME Init PROVE MigrationInv
<1>1. Empty \in Schemas
  BY SizesAreNat DEF Empty, Schemas
<1>2. TypeOK
  BY <1>1, SizesAreNat, MigrationAssumption DEF Init, TypeOK
<1>3. UpTo(0) = {}
  BY SizesAreNat DEF UpTo, Statements
<1>4. NeverBricked
  BY <1>3 DEF Init, NeverBricked, Empty
<1>5. \A p \in Procs : ProcInv(p) /\ WriterInv(p)
  BY MigrationAssumption DEF Init, ProcInv, WriterInv
<1> QED
  BY <1>2, <1>4, <1>5 DEF MigrationInv

LEMMA MigrationStep ==
    ASSUME MigrationInv, [Next]_vars
    PROVE  MigrationInv' /\ db'.version >= db.version
<1>1. db.version \in Nat
  BY DEF MigrationInv, TypeOK, Schemas
<1>2. CASE UNCHANGED vars
  BY <1>1, <1>2 DEF MigrationInv, TypeOK, NeverBricked, ProcInv, WriterInv, UpTo,
                    FirstOf, vars
<1>3. ASSUME NEW p \in Procs, Work(p) \/ FailCommit(p) \/ Crash(p)
      PROVE  MigrationInv' /\ db'.version >= db.version
  <2>1. CASE Commit(p)
    BY <1>1, <2>1, CommitStep
  <2>2. CASE ReadVersion(p) \/ Begin(p) \/ Open(p)
    <3>1. MigrationInv'
      BY <2>2, QuietStep
    <3>2. db' = db
      BY <2>2 DEF ReadVersion, Begin, Open
    <3> QED
      BY <1>1, <3>1, <3>2
  <2>3. CASE Execute(p)
    <3>1. MigrationInv'
      BY <2>3, ExecuteStep
    <3>2. db' = db
      BY <2>3 DEF Execute
    <3> QED
      BY <1>1, <3>1, <3>2
  <2>4. CASE SetVersion(p)
    <3>1. MigrationInv'
      BY <2>4, SetVersionStep
    <3>2. db' = db
      BY <2>4 DEF SetVersion
    <3> QED
      BY <1>1, <3>1, <3>2
  <2>5. CASE FailExisting(p) \/ FailBusy(p) \/ FailCommit(p) \/ Crash(p)
    <3>1. Rollback(p) /\ faults' \in 0..MaxFaults
      BY <2>5, MigrationAssumption
      DEF MigrationInv, TypeOK, FailExisting, FailBusy, FailCommit, Crash
    <3>2. MigrationInv'
      BY <3>1, RollbackStep
    <3>3. db' = db
      BY <3>1 DEF Rollback
    <3> QED
      BY <1>1, <3>2, <3>3
  <2> QED
    BY <1>3, <2>1, <2>2, <2>3, <2>4, <2>5 DEF Work
<1> QED
  BY <1>2, <1>3 DEF Next

LEMMA MigrationInvHolds == Spec => []MigrationInv
  BY InitMigration, MigrationStep, PTL DEF Spec

\* Types, and the write lock belongs to a process inside a transaction.
THEOREM MigrationTyping == Spec => []TypeOK
  BY MigrationInvHolds, PTL DEF MigrationInv

\* The schema is always exactly what user_version says (schema.py:153-172).
THEOREM SchemaStaysWhole == Spec => []NeverBricked
  BY MigrationInvHolds, PTL DEF MigrationInv

\* An open Store has the complete schema (schema.py:161, 172).
THEOREM OpenStoreIsCurrent == Spec => []OpenIsCurrent
<1>1. ASSUME MigrationInv PROVE OpenIsCurrent
  <2> SUFFICES ASSUME NEW p \in Procs, pc[p] = "open" PROVE db.version = Last
    BY DEF OpenIsCurrent
  <2>1. index[p] = Last /\ index[p] <= db.version /\ db.version \in 0..Last
    BY <1>1 DEF MigrationInv, ProcInv, TypeOK, Schemas
  <2> QED
    BY <2>1, SizesAreNat
<1> QED
  BY <1>1, MigrationInvHolds, PTL

\* user_version never goes back (schema.py:1, 160-168).
THEOREM VersionsGoForward == Spec => ForwardOnly
<1>1. MigrationInv /\ [Next]_vars => [db'.version >= db.version]_vars
  BY MigrationStep
<1> QED
  BY <1>1, MigrationInvHolds, PTL DEF Spec, ForwardOnly

\* No race, failure or kill leaves half a migration, and no command works on
\* an old schema (schema.py:153-172).
THEOREM SchemaAlwaysWhole == Spec => []SchemaWhole
<1>1. NeverBricked /\ OpenIsCurrent => SchemaWhole
  BY DEF SchemaWhole
<1> QED
  BY <1>1, SchemaStaysWhole, OpenStoreIsCurrent, PTL

=============================================================================
