-------------------------------- MODULE Store --------------------------------
(***************************************************************************)
(* What the daemon has on disk: the two backends of the Store protocol     *)
(* (db.py, db_mysql.py), called by two tasks that interleave at every      *)
(* await, the scan loop and the reboot scheduler.                          *)
(*                                                                         *)
(* SQLite: both tasks share one connection, so they share its transaction. *)
(* A call awaits each of its statements and then a commit, which commits   *)
(* whatever the connection has open, whoever wrote it.  MySQL: each call   *)
(* has a connection of its own in autocommit mode, and insert_ap_stats     *)
(* opens a transaction.  What a row says is left out: it is known by its   *)
(* table, its ts, the call that wrote it and its place in the call.  So is *)
(* the schema: connect() leaves every table with every column.             *)
(***************************************************************************)
EXTENDS Integers, Sequences, FiniteSets

CONSTANTS
  Off,         \* None
  Radios,      \* radios of an access point
  SampleAge,   \* _CLIENT_SAMPLES_RETENTION_SECONDS
  DnsAge,      \* _DNS_RETENTION_SECONDS
  Interval,    \* _CLIENT_SAMPLES_PRUNE_INTERVAL_SECONDS
  MaxTime, MaxCalls, MaxFaults   \* bounds: clock, calls in all, failing calls

ASSUME AgeAssumption == {Radios, SampleAge, DnsAge, Interval} \subseteq Nat
ASSUME BoundAssumption == {MaxTime, MaxCalls, MaxFaults} \subseteq Nat
ASSUME StoreOff == Off \notin Int \cup {"sqlite", "mysql"}

Backends == {"sqlite", "mysql"}
Tasks == {"scanner", "scheduler"}

\* In the order of db.py.
Tables ==
  <<"client_samples", "kick_events", "reboot_events", "ap_samples", "ap_radio_samples",
    "dns_source_samples", "dns_thrash_observations">>
TableSet == {Tables[i] : i \in DOMAIN Tables}

Row == [table : TableSet, ts : 0..MaxTime, by : 1..MaxCalls, part : 0..Radios]

VARIABLES
  disk,     \* per backend, the committed rows: what the UI and a new process read
  up,       \* the backend of the running daemon, Off while none runs
  conn,     \* the rows as the SQLite connection sees them
  call,     \* per task, the call it awaits
  pruned,   \* _last_client_prune
  now,      \* time.time()
  calls, faults,
  owed      \* observer: per backend, the rows of every call that returned

vars == <<disk, up, conn, call, pruned, now, calls, faults, owed>>

Idle == [op |-> Off]

----------------------------------------------------------------------------
(* The calls: their statements in order.                                   *)

Insert(table, part) == [op |-> "insert", table |-> table, part |-> part]
Expire(table, age) == [op |-> "expire", table |-> table, age |-> age]

InsertSample == <<Insert("client_samples", 0)>>
PruneClientSamples == <<Expire("client_samples", SampleAge)>>
InsertApStats ==
  <<Insert("ap_samples", 0)>> \o [i \in 1..Radios |-> Insert("ap_radio_samples", i)]
InsertKick == <<Insert("kick_events", 0)>>
InsertReboot == <<Insert("reboot_events", 0)>>

\* A slip: the table is left to grow.
HeartbeatOnly == <<Insert("dns_source_samples", 0)>>

InsertDnsSourceSample ==
  <<Insert("dns_source_samples", 0), Expire("dns_source_samples", DnsAge)>>

\* executemany: one statement for the batch.
InsertDnsThrashObservations ==
  <<Insert("dns_thrash_observations", 0), Expire("dns_thrash_observations", DnsAge)>>

Statements ==
  [insert_sample |-> InsertSample, prune_client_samples |-> PruneClientSamples,
   insert_ap_stats |-> InsertApStats, insert_kick |-> InsertKick,
   insert_reboot |-> InsertReboot, insert_dns_source_sample |-> InsertDnsSourceSample,
   insert_dns_thrash_observations |-> InsertDnsThrashObservations]

\* The scheduler writes audit rows, run_once everything else.
Ops(t) ==
  IF t = "scheduler" THEN {"insert_reboot"} ELSE DOMAIN Statements \ {"insert_reboot"}

TooOld(r, table, before) == r.table = table /\ r.ts < before

\* What statement s of call c makes of the rows.
Effect(rows, s, c) ==
  IF s.op = "insert"
  THEN rows \cup {[table |-> s.table, ts |-> c.ts, by |-> c.by, part |-> s.part]}
  ELSE {r \in rows : ~TooOld(r, s.table, c.ts - s.age)}

\* A slip: MySQL commits each statement of a snapshot.
NoTransaction(c) == FALSE

\* On MySQL only a snapshot has a transaction of its own.
InTransaction(c) == c.op = "insert_ap_stats"

----------------------------------------------------------------------------
(* The actions.                                                            *)

Init ==
  /\ disk = [b \in Backends |-> {}] /\ owed = [b \in Backends |-> {}]
  /\ up = Off /\ conn = {} /\ call = [t \in Tasks |-> Idle] /\ pruned = Off
  /\ now = 0 /\ calls = 0 /\ faults = 0

\* connect(): the prune throttle starts anew.
Start(b) ==
  /\ up = Off /\ up' = b
  /\ conn' = IF b = "sqlite" THEN disk[b] ELSE {}
  /\ pruned' = Off
  /\ UNCHANGED <<disk, call, now, calls, faults, owed>>

\* prune_client_samples: nothing at all within an interval of the last attempt.
PruneDue == pruned # Off => now - pruned >= Interval

Begin(t, op) ==
  /\ up # Off /\ call[t] = Idle /\ calls < MaxCalls /\ op \in Ops(t)
  /\ op = "prune_client_samples" => PruneDue
  /\ pruned' = IF op = "prune_client_samples" THEN now ELSE pruned
  /\ calls' = calls + 1
  /\ call' = [call EXCEPT ![t] = [op |-> op, ts |-> now, by |-> calls', next |-> 1,
                                  rows |-> {}, undone |-> FALSE]]
  /\ UNCHANGED <<disk, up, conn, now, faults, owed>>

Awaits(t) == call[t] # Idle
Committing(t) == Awaits(t) /\ call[t].next > Len(Statements[call[t].op])

\* The statement in flight is done.
Execute(t) ==
  /\ Awaits(t) /\ ~Committing(t)
  /\ LET c == call[t]
         s == Statements[c.op][c.next]
     IN  /\ call' = [call EXCEPT ![t].next = @ + 1, ![t].rows = Effect(@, s, c)]
         /\ IF up = "sqlite" THEN conn' = Effect(conn, s, c) /\ UNCHANGED disk
            ELSE IF InTransaction(c) THEN UNCHANGED <<conn, disk>>
            ELSE disk' = [disk EXCEPT ![up] = Effect(@, s, c)] /\ UNCHANGED conn
  /\ UNCHANGED <<up, pruned, now, calls, faults, owed>>

\* A slip: the call returns without its commit.
NoCommit(c) == disk

\* What a commit puts on disk: on SQLite all the connection has open.
Committed(c) ==
  [disk EXCEPT ![up] = IF up = "sqlite" THEN conn
                       ELSE IF InTransaction(c) THEN @ \cup c.rows ELSE @]

\* The commit is done (on MySQL without a transaction there is none to do), and
\* the call returns.
Return(t) ==
  /\ Committing(t)
  /\ disk' = Committed(call[t])
  /\ owed' = [owed EXCEPT ![up] = IF call[t].undone THEN @ ELSE @ \cup call[t].rows]
  /\ call' = [call EXCEPT ![t] = Idle]
  /\ UNCHANGED <<up, conn, pruned, now, calls, faults>>

\* A statement or the commit raises.  On SQLite what the connection has open stays
\* open, unless the error is one upon which SQLite rolls back by itself, the other
\* task's statements with it.  On MySQL the transaction is rolled back, unless it
\* was the answer to its commit that was lost.
Fail(t) ==
  /\ Awaits(t) /\ faults < MaxFaults /\ faults' = faults + 1
  /\ IF up = "sqlite"
     THEN /\ conn' \in {conn, disk[up]} /\ UNCHANGED disk
          /\ call' = [u \in Tasks |->
                        IF u = t \/ call[u] = Idle THEN Idle
                        ELSE [call[u] EXCEPT !.undone = @ \/ conn' # conn]]
     ELSE /\ call' = [call EXCEPT ![t] = Idle] /\ UNCHANGED conn
          /\ \/ disk' = disk
             \/ Committing(t) /\ disk' = Committed(call[t])
  /\ UNCHANGED <<up, pruned, now, calls, owed>>

Down == up # Off /\ up' = Off /\ conn' = {} /\ call' = [t \in Tasks |-> Idle]

\* run(): the cycle in hand is finished, the scheduler is cancelled at whatever it
\* awaits, and close() comes after the statement the connection's thread is at.
Stop ==
  /\ ~Awaits("scanner") /\ Down
  /\ disk' = IF up = "sqlite" /\ Committing("scheduler")
             THEN Committed(call["scheduler"]) ELSE disk
  /\ UNCHANGED <<pruned, now, calls, faults, owed>>

\* The process dies.
Crash == Down /\ UNCHANGED <<disk, pruned, now, calls, faults, owed>>

Tick == now < MaxTime /\ now' = now + 1
        /\ UNCHANGED <<disk, up, conn, call, pruned, calls, faults, owed>>

Step(t) == Execute(t) \/ Return(t) \/ Fail(t) \/ \E op \in Ops(t) : Begin(t, op)

Daemon == (\E t \in Tasks : Step(t)) \/ Stop \/ Crash \/ \E b \in Backends : Start(b)

Next == Daemon \/ Tick

Spec == Init /\ [][Next]_vars

----------------------------------------------------------------------------
(* What must hold.                                                         *)

\* A row that its table's retention lets go of.
Expirable(r) ==
  \/ TooOld(r, "client_samples", now - SampleAge)
  \/ \E table \in {"dns_source_samples", "dns_thrash_observations"} :
       TooOld(r, table, now - DnsAge)

\* Every insert of both backends, and recent_kick_timestamps: the rows of a call that
\* returned are on disk and on the connection, over crashes, shutdowns and failures
\* of the other task, until they are too old; a kick or reboot never is.  (The rows
\* of a call that a rollback of SQLite's own undid half-way are not owed.)
AcknowledgedKept ==
  \A b \in Backends : \A r \in owed[b] :
    /\ r \in disk[b] \/ Expirable(r)
    /\ up = b /\ b = "sqlite" => r \in conn \/ Expirable(r)

\* What a daemon on backend b adds to the disk of a snapshot, it adds in one step
\* with the rest of it.
AddsWhole(b) ==
  up = b =>
    \A r \in disk'[b] \ disk[b] :
      r.table \in {"ap_samples", "ap_radio_samples"} =>
        Cardinality({q \in disk'[b] : q.by = r.by}) = Radios + 1

\* db_mysql.py insert_ap_stats: "the UI never sees an AP snapshot with only half its
\* radios", over failures, crashes and the other task's writes.
MySqlSnapshotsWhole == [][AddsWhole("mysql")]_vars

Returns(t) == Awaits(t) /\ call'[t] = Idle /\ up' = up /\ faults' = faults

\* The tables a call keeps to a window, and its length.
Windows ==
  [op \in {"prune_client_samples", "insert_dns_source_sample",
            "insert_dns_thrash_observations"} |->
     CASE op = "prune_client_samples" -> [table |-> "client_samples", age |-> SampleAge]
       [] op = "insert_dns_source_sample" -> [table |-> "dns_source_samples", age |-> DnsAge]
       [] OTHER -> [table |-> "dns_thrash_observations", age |-> DnsAge]]

\* "Pruned to a rolling window on write", "rolling retention for client_samples": when
\* a pruning call returns, no row its table no longer keeps is on disk, whichever
\* task's commit put the deletion there.
RetentionKept ==
  [][\A t \in Tasks :
       Returns(t) /\ ~call[t].undone /\ call[t].op \in DOMAIN Windows =>
         LET w == Windows[call[t].op]
         IN  ~\E r \in disk'[up] : TooOld(r, w.table, call[t].ts - w.age)]_vars

=============================================================================
