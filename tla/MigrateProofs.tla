---------------------------- MODULE MigrateProofs ----------------------------
(***************************************************************************)
(* Proofs about the store and the tool that migrates it, for any ages,     *)
(* radios and bounds.                                                      *)
(*                                                                         *)
(* The properties speak of calls that returned.  Each invariant says the   *)
(* same of the calls in hand: where their rows are, which window they have *)
(* cleaned, whose rows no one else has, and what the tool's place in the   *)
(* code says of the tables.                                                *)
(***************************************************************************)
EXTENDS Migrate, FiniteSetTheorems, SequenceTheorems, TLAPS

Inserts == {Insert(table, part) : table \in TableSet, part \in 0..Radios}

Expiries ==
  {Expire("client_samples", SampleAge), Expire("dns_source_samples", DnsAge),
   Expire("dns_thrash_observations", DnsAge)}

ApTables == {"ap_samples", "ap_radio_samples"}

OpNames == {"insert_sample", "prune_client_samples", "insert_ap_stats", "insert_kick",
         "insert_reboot", "insert_dns_source_sample", "insert_dns_thrash_observations"}

\* The seven tables of db.py, each listed once.
LEMMA TableNames ==
  /\ TableSet = {"client_samples", "kick_events", "reboot_events", "ap_samples",
                 "ap_radio_samples", "dns_source_samples", "dns_thrash_observations"}
  /\ Tables \in Seq(TableSet) /\ Len(Tables) = 7
  /\ \A i, j \in DOMAIN Tables : Tables[i] = Tables[j] => i = j
<1>1. DOMAIN Tables = 1..7 /\ Len(Tables) = 7
  BY DEF Tables
<1>2. TableSet = {"client_samples", "kick_events", "reboot_events", "ap_samples",
                 "ap_radio_samples", "dns_source_samples", "dns_thrash_observations"}
  BY <1>1 DEF Tables, TableSet
<1>3. \A i, j \in DOMAIN Tables : Tables[i] = Tables[j] => i = j
  BY <1>1 DEF Tables
<1>4. Tables \in Seq(TableSet)
  BY <1>2 DEF Tables
<1>5. QED
  BY <1>1, <1>2, <1>3, <1>4

\* insert_ap_stats: the access point, then each of its radios.
LEMMA SnapshotStatements ==
  /\ Len(InsertApStats) = Radios + 1
  /\ InsertApStats[1] = Insert("ap_samples", 0)
  /\ \A n \in 1..Radios : InsertApStats[n + 1] = Insert("ap_radio_samples", n)
<1> DEFINE I == {Insert("ap_samples", 0)} \cup {Insert("ap_radio_samples", n) : n \in 1..Radios}
           s == <<Insert("ap_samples", 0)>>
           r == [i \in 1..Radios |-> Insert("ap_radio_samples", i)]
<1>1. s \in Seq(I) /\ r \in Seq(I) /\ Len(s) = 1 /\ Len(r) = Radios /\ Radios \in Nat
  BY AgeAssumption
<1>2. s[1] = Insert("ap_samples", 0) /\ \A n \in 1..Radios : r[n] = Insert("ap_radio_samples", n)
  OBVIOUS
<1>3. InsertApStats = s \o r
  BY DEF InsertApStats
<1> HIDE DEF I, s, r
<1>4. /\ Len(s \o r) = Radios + 1
      /\ \A i \in 1..(Radios + 1) : (s \o r)[i] = IF i <= 1 THEN s[i] ELSE r[i - 1]
  <2>1. /\ Len(s \o r) = Len(s) + Len(r)
        /\ \A i \in 1..(Len(s) + Len(r)) : (s \o r)[i] = IF i <= Len(s) THEN s[i] ELSE r[i - Len(s)]
    BY <1>1, ConcatProperties
  <2>2. Len(s) = 1 /\ Len(r) = Radios /\ Len(s) + Len(r) = Radios + 1
    BY <1>1
  <2>3. QED
    BY <2>1, <2>2
<1>5. (s \o r)[1] = Insert("ap_samples", 0)
  BY <1>1, <1>2, <1>4
<1>6. ASSUME NEW n \in 1..Radios PROVE (s \o r)[n + 1] = Insert("ap_radio_samples", n)
  <2>1. n + 1 \in 1..(Radios + 1) /\ ~(n + 1 <= 1) /\ (n + 1) - 1 = n
    BY <1>1
  <2>2. QED
    BY <1>2, <1>4, <2>1
<1>7. QED
  BY <1>3, <1>4, <1>5, <1>6

\* How many statements a call has, where a proof needs to know.
LEMMA StatementLengths ==
  /\ DOMAIN Statements = OpNames
  /\ \A op \in DOMAIN Statements : Len(Statements[op]) \in Nat
  /\ Len(Statements["insert_ap_stats"]) = Radios + 1
  /\ Len(Statements["insert_reboot"]) = 1
<1>1. DOMAIN Statements = OpNames
  BY DEF Statements, OpNames
<1>2. Len(Statements["insert_ap_stats"]) = Radios + 1 /\ Radios + 1 \in Nat
  BY SnapshotStatements, AgeAssumption DEF Statements
<1>3. /\ Len(Statements["insert_sample"]) = 1 /\ Len(Statements["prune_client_samples"]) = 1
      /\ Len(Statements["insert_kick"]) = 1 /\ Len(Statements["insert_reboot"]) = 1
      /\ Len(Statements["insert_dns_source_sample"]) = 2
      /\ Len(Statements["insert_dns_thrash_observations"]) = 2
  BY DEF Statements, InsertSample, PruneClientSamples, InsertKick, InsertReboot,
         InsertDnsSourceSample, InsertDnsThrashObservations
<1>4. QED
  BY <1>1, <1>2, <1>3 DEF OpNames

\* Every statement is an insert or one of the three deletions, only a snapshot's are about
\* access points, and the scheduler's is the audit row.
LEMMA StatementIs ==
  ASSUME NEW op \in DOMAIN Statements, NEW n \in 1..Len(Statements[op])
  PROVE  /\ Statements[op][n] \in Inserts \cup Expiries
         /\ op # "insert_ap_stats" => Statements[op][n].table \notin ApTables
         /\ op = "insert_reboot" => Statements[op][n] = Insert("reboot_events", 0)
<1>1. DOMAIN Statements = OpNames
  BY DEF Statements, OpNames
<1>2. /\ Statements["insert_sample"] = InsertSample
      /\ Statements["prune_client_samples"] = PruneClientSamples
      /\ Statements["insert_ap_stats"] = InsertApStats
      /\ Statements["insert_kick"] = InsertKick
      /\ Statements["insert_reboot"] = InsertReboot
      /\ Statements["insert_dns_source_sample"] = InsertDnsSourceSample
      /\ Statements["insert_dns_thrash_observations"] = InsertDnsThrashObservations
  BY DEF Statements
<1>3. Radios \in Nat /\ 0 \in 0..Radios
  BY AgeAssumption
<1>4. \A table \in TableSet, part \in 0..Radios : Insert(table, part) \in Inserts
  BY DEF Inserts
<1>5. CASE op = "insert_ap_stats"
  <2>1. n \in 1..(Radios + 1)
    BY <1>2, <1>5, SnapshotStatements
  <2>2. n = 1 \/ (n - 1 \in 1..Radios /\ n = (n - 1) + 1)
    BY <1>3, <2>1
  <2>3. CASE n = 1
    BY <1>2, <1>3, <1>4, <1>5, <2>3, SnapshotStatements, TableNames
  <2>4. CASE n - 1 \in 1..Radios
    <3>1. InsertApStats[(n - 1) + 1] = Insert("ap_radio_samples", n - 1) /\ n - 1 \in 0..Radios
      BY <1>3, <2>4, SnapshotStatements
    <3>2. Statements[op][n] = Insert("ap_radio_samples", n - 1)
      BY <1>2, <1>5, <2>2, <2>4, <3>1
    <3>3. QED
      BY <1>4, <1>5, <3>1, <3>2, TableNames
  <2>5. QED
    BY <2>2, <2>3, <2>4
<1>6. CASE op \in {"insert_sample", "insert_kick", "insert_reboot"}
  <2>1. n = 1 /\ Statements[op][n] \in {Insert("client_samples", 0), Insert("kick_events", 0),
                                        Insert("reboot_events", 0)}
    BY <1>2, <1>6 DEF InsertSample, InsertKick, InsertReboot
  <2>2. Statements[op][n] \in Inserts
    BY <1>3, <1>4, <2>1, TableNames
  <2>3. Statements[op][n].table \notin ApTables
    BY <2>1 DEF Insert, ApTables
  <2>4. QED
    BY <1>2, <1>6, <2>1, <2>2, <2>3 DEF InsertReboot
<1>7. CASE op \in {"prune_client_samples", "insert_dns_source_sample", "insert_dns_thrash_observations"}
  <2>1. Statements[op][n] \in {Insert("dns_source_samples", 0), Insert("dns_thrash_observations", 0)}
                              \cup Expiries
    BY <1>2, <1>7 DEF PruneClientSamples, InsertDnsSourceSample, InsertDnsThrashObservations, Expiries
  <2>2. Statements[op][n] \in Inserts \cup Expiries
    BY <1>3, <1>4, <2>1, TableNames
  <2>3. Statements[op][n].table \notin ApTables
    BY <2>1 DEF Insert, Expire, Expiries, ApTables
  <2>4. QED
    BY <1>7, <2>2, <2>3
<1>8. QED
  BY <1>1, <1>5, <1>6, <1>7 DEF OpNames

----------------------------------------------------------------------------
(* Types.                                                                  *)

CallType ==
  [op : DOMAIN Statements, ts : 0..MaxTime, by : 1..MaxCalls, next : Nat \ {0},
   rows : SUBSET Row, undone : BOOLEAN]

\* A call in hand is one of its task's, of this daemon, and begun at or before now.
CallOK(t) ==
  Awaits(t) => /\ call[t] \in CallType /\ call[t].op \in Ops(t)
               /\ call[t].ts <= now /\ call[t].by <= calls /\ up # Off

StoreOK ==
  /\ disk \in [Backends -> SUBSET Row] /\ owed \in [Backends -> SUBSET Row]
  /\ conn \in SUBSET Row /\ up \in {Off} \cup Backends
  /\ call \in [Tasks -> {Idle} \cup CallType]
  /\ now \in 0..MaxTime /\ calls \in 0..MaxCalls /\ faults \in Nat
  /\ \A t \in Tasks : CallOK(t)

ToolOK ==
  /\ tool \in [at : {"off", "guard", "truncate", "copy", "done"}, replace : BOOLEAN,
               left : Seq(TableSet)]
  /\ Working => up = Off
  /\ found \in SUBSET Row

TypeOK == StoreOK /\ ToolOK

\* What one statement makes of the rows: an insert adds a row of its call, and a deletion
\* takes nothing that its table still keeps.
LEMMA EffectIs ==
  ASSUME StoreOK, NEW t \in Tasks, Awaits(t), ~Committing(t), NEW rows \in SUBSET Row,
         NEW s, s = Statements[call[t].op][call[t].next]
  PROVE  /\ Effect(rows, s, call[t]) \in SUBSET Row
         /\ s \in Inserts \cup Expiries
         /\ \A r \in rows : r \in Effect(rows, s, call[t]) \/ Expirable(r)
         /\ \A r \in Effect(rows, s, call[t]) :
              r \in rows \/ (/\ r.by = call[t].by /\ r.table = s.table
                            /\ r.ts = call[t].ts /\ s \in Inserts)
<1>1. PICK c \in CallType : c = call[t]
  BY DEF StoreOK, CallOK
<1>2. c.ts \in 0..MaxTime /\ c.by \in 1..MaxCalls /\ c.ts <= now /\ now \in Nat /\ c.ts \in Nat
  <2>1. MaxTime \in Nat /\ now \in 0..MaxTime
    BY BoundAssumption DEF StoreOK
  <2>2. QED
    BY <1>1, <2>1 DEF StoreOK, CallOK, CallType
<1>3. s \in Inserts \cup Expiries
  <2>1. c.next \in Nat \ {0} /\ c.op \in DOMAIN Statements /\ ~(c.next > Len(Statements[c.op]))
    BY <1>1 DEF CallType, Committing
  <2>2. Len(Statements[c.op]) \in Nat
    BY <2>1, StatementLengths
  <2>3. c.next \in 1..Len(Statements[c.op])
    BY <2>1, <2>2
  <2>4. QED
    BY <1>1, <2>1, <2>3, StatementIs
<1>4. CASE s \in Inserts
  <2>1. PICK table \in TableSet, part \in 0..Radios : s = Insert(table, part)
    BY <1>4 DEF Inserts
  <2>2. s.op = "insert" /\ s.table = table /\ s.part = part
    BY <2>1 DEF Insert
  <2>3. PICK q : q = [table |-> table, ts |-> c.ts, by |-> c.by, part |-> part]
    OBVIOUS
  <2>4. q \in Row /\ q.by = c.by /\ q.table = table /\ q.ts = c.ts
    BY <1>2, <2>3 DEF Row
  <2>5. Effect(rows, s, c) = rows \cup {q}
    BY <2>2, <2>3 DEF Effect
  <2>6. QED
    BY <1>1, <1>4, <2>2, <2>4, <2>5
<1>5. CASE s \in Expiries
  <2>1. PICK table, age : s = Expire(table, age)
    BY <1>5 DEF Expiries
  <2>2. s.op = "expire" /\ s.table = table /\ s.age = age
    BY <2>1 DEF Expire
  <2>3. Effect(rows, s, c) = {r \in rows : ~TooOld(r, table, c.ts - age)}
    BY <2>2 DEF Effect
  <2>4. <<table, age>> \in {<<"client_samples", SampleAge>>, <<"dns_source_samples", DnsAge>>,
                           <<"dns_thrash_observations", DnsAge>>}
    BY <1>5, <2>1 DEF Expiries, Expire
  <2>5. ASSUME NEW r \in rows, TooOld(r, table, c.ts - age) PROVE Expirable(r)
    <3>1. r.ts \in Nat /\ age \in Nat
      BY <2>4, AgeAssumption, BoundAssumption DEF Row
    <3>2. TooOld(r, table, now - age)
      BY <1>2, <2>5, <3>1 DEF TooOld
    <3>3. QED
      BY <2>4, <3>2 DEF Expirable
  <2>6. QED
    BY <1>1, <1>5, <2>3, <2>5
<1>6. QED
  BY <1>3, <1>4, <1>5

\* What the two tasks and their calls are told apart by.
LEMMA CallsAre ==
  /\ \A c \in CallType : c # Idle
  /\ \A t \in Tasks : Ops(t) \subseteq DOMAIN Statements
  /\ Off \notin Backends
<1>1. \A c \in CallType : DOMAIN c = {"op", "ts", "by", "next", "rows", "undone"}
  BY DEF CallType
<1>2. DOMAIN Idle = {"op"}
  BY DEF Idle
<1>3. {"op", "ts", "by", "next", "rows", "undone"} # {"op"}
  <2>1. "ts" # "op"
    OBVIOUS
  <2>2. QED
    BY <2>1, Zenon
<1>4. \A c \in CallType : c # Idle
  BY <1>1, <1>2, <1>3, Zenon
<1>5. "insert_reboot" \in DOMAIN Statements
  BY StatementLengths DEF OpNames
<1>6. \A t \in Tasks : Ops(t) \subseteq DOMAIN Statements
  BY <1>5, Zenon DEF Ops
<1>7. Off \notin Backends
  BY StoreOff DEF Backends
<1>8. QED
  BY <1>4, <1>6, <1>7

\* What a commit puts on disk is rows.
LEMMA CommittedType ==
  ASSUME StoreOK, NEW t \in Tasks, Awaits(t)
  PROVE  Committed(call[t]) \in [Backends -> SUBSET Row]
BY DEF StoreOK, CallOK, CallType, Committed

\* A call begins as one of its task's.
LEMMA BeginType ==
  ASSUME StoreOK, NEW t \in Tasks, NEW op \in Ops(t), Begin(t, op)
  PROVE  StoreOK'
<1> DEFINE c == [op |-> op, ts |-> now, by |-> calls', next |-> 1, rows |-> {}, undone |-> FALSE]
<1>1. /\ calls \in Nat /\ calls' = calls + 1 /\ calls' \in 0..MaxCalls /\ calls' \in 1..MaxCalls
      /\ now \in 0..MaxTime
  BY BoundAssumption DEF Begin, StoreOK
<1>2. c \in CallType
  BY <1>1, CallsAre DEF CallType
<1>3. call' = [call EXCEPT ![t] = c] /\ call \in [Tasks -> {Idle} \cup CallType]
  BY DEF Begin, StoreOK
<1>4. ASSUME NEW u \in Tasks PROVE CallOK(u)'
  <2>1. CASE u = t
    <3>1. call'[u] = c
      BY <1>3, <2>1
    <3>2. c.op = op /\ c.ts = now /\ c.by = calls'
      OBVIOUS
    <3>3. up' # Off /\ now' = now /\ now <= now
      BY <1>1, BoundAssumption DEF Begin
    <3> HIDE DEF c
    <3>4. QED
      BY <1>1, <1>2, <2>1, <3>1, <3>2, <3>3 DEF CallOK
  <2>2. CASE u # t
    <3>1. call'[u] = call[u]
      BY <1>3, <2>2
    <3>2. CallOK(u) /\ (Awaits(u)' <=> Awaits(u))
      BY <3>1 DEF StoreOK, Awaits
    <3>3. UNCHANGED <<now, up>>
      BY DEF Begin
    <3>4. Awaits(u) => call[u].by \in Nat
      BY <3>2 DEF CallOK, CallType
    <3>5. QED
      BY <1>1, <3>1, <3>2, <3>3, <3>4 DEF CallOK
  <2>3. QED
    BY <2>1, <2>2
<1>5. call' \in [Tasks -> {Idle} \cup CallType]
  BY <1>2, <1>3
<1>6. QED
  BY <1>1, <1>4, <1>5 DEF StoreOK, Begin

\* A statement makes rows of rows.
LEMMA ExecuteType ==
  ASSUME StoreOK, NEW t \in Tasks, Execute(t)
  PROVE  StoreOK'
<1>1. PICK c, s : c = call[t] /\ s = Statements[c.op][c.next]
  OBVIOUS
<1>2. Awaits(t) /\ ~Committing(t) /\ c \in CallType /\ up \in Backends
  BY <1>1 DEF Execute, StoreOK, CallOK
<1>3. /\ Effect(conn, s, c) \in SUBSET Row /\ Effect(disk[up], s, c) \in SUBSET Row
      /\ Effect(c.rows, s, c) \in SUBSET Row
  <2>1. conn \in SUBSET Row /\ disk[up] \in SUBSET Row /\ c.rows \in SUBSET Row
    BY <1>2 DEF StoreOK, CallType
  <2>2. QED
    BY <1>1, <1>2, <2>1, EffectIs
<1>4. PICK d : d = [c EXCEPT !.next = @ + 1, !.rows = Effect(@, s, c)]
  OBVIOUS
<1>5. d \in CallType /\ d.op = c.op /\ d.ts = c.ts /\ d.by = c.by
  <2>1. PICK n \in Nat \ {0}, rows \in SUBSET Row : n = c.next + 1 /\ rows = Effect(c.rows, s, c)
    BY <1>2, <1>3 DEF CallType
  <2>2. d = [c EXCEPT !.next = n, !.rows = rows]
    BY <1>2, <1>4, <2>1 DEF CallType
  <2>3. QED
    BY <1>2, <2>1, <2>2 DEF CallType
<1>6. call' = [call EXCEPT ![t] = d]
  BY <1>1, <1>4 DEF Execute
<1>7. ASSUME NEW u \in Tasks PROVE CallOK(u)'
  BY <1>1, <1>2, <1>5, <1>6 DEF Execute, StoreOK, CallOK, Awaits
<1>8. conn' \in SUBSET Row /\ disk' \in [Backends -> SUBSET Row]
  BY <1>1, <1>2, <1>3 DEF Execute, StoreOK
<1>9. QED
  BY <1>2, <1>5, <1>6, <1>7, <1>8 DEF Execute, StoreOK

\* A commit puts rows on disk.
LEMMA ReturnType ==
  ASSUME StoreOK, NEW t \in Tasks, Return(t)
  PROVE  StoreOK'
<1>1. Awaits(t) /\ call[t] \in CallType /\ up \in Backends /\ Committed(call[t]) \in [Backends -> SUBSET Row]
  BY CommittedType DEF Return, Committing, StoreOK, CallOK
<1>2. disk' \in [Backends -> SUBSET Row] /\ owed' \in [Backends -> SUBSET Row]
  BY <1>1 DEF Return, StoreOK, CallType
<1>3. \A u \in Tasks : CallOK(u)'
  BY DEF Return, StoreOK, CallOK, Awaits
<1>4. QED
  BY <1>2, <1>3 DEF Return, StoreOK

\* A failure leaves the other call, if any, as it was but for its mark.
LEMMA FailType ==
  ASSUME StoreOK, NEW t \in Tasks, Fail(t)
  PROVE  StoreOK'
<1>1. /\ Awaits(t) /\ call[t] \in CallType /\ up \in Backends
      /\ Committed(call[t]) \in [Backends -> SUBSET Row]
  BY CommittedType DEF Fail, StoreOK, CallOK
<1>2. conn' \in SUBSET Row /\ disk' \in [Backends -> SUBSET Row]
  BY <1>1 DEF Fail, StoreOK
<1>3. ASSUME NEW u \in Tasks
      PROVE  call'[u] = Idle \/ (/\ Awaits(u) /\ call'[u] \in CallType /\ call'[u].op = call[u].op
                                 /\ call'[u].ts = call[u].ts /\ call'[u].by = call[u].by)
  <2>1. CASE up = "sqlite"
    <3>1. call'[u] = IF u = t \/ call[u] = Idle THEN Idle
                     ELSE [call[u] EXCEPT !.undone = @ \/ conn' # conn]
      BY <2>1 DEF Fail
    <3>2. CASE u # t /\ call[u] # Idle
      <4>1. PICK b \in BOOLEAN : b = (call[u].undone \/ conn' # conn)
        OBVIOUS
      <4>2. call'[u] = [call[u] EXCEPT !.undone = b] /\ call[u] \in CallType
        BY <3>1, <3>2, <4>1 DEF StoreOK, CallOK, Awaits
      <4>3. QED
        BY <3>2, <4>1, <4>2 DEF CallType, Awaits
    <3>3. QED
      BY <3>1, <3>2
  <2>2. CASE up # "sqlite"
    <3>1. call' = [call EXCEPT ![t] = Idle]
      BY <2>2 DEF Fail
    <3>2. QED
      BY <3>1 DEF StoreOK, CallOK, Awaits
  <2>3. QED
    BY <2>1, <2>2
<1>4. call' \in [Tasks -> {Idle} \cup CallType]
  <2>1. DOMAIN call' = Tasks /\ call' = [u \in Tasks |-> call'[u]]
    BY DEF Fail, StoreOK
  <2>2. QED
    BY <1>3, <2>1
<1>5. ASSUME NEW u \in Tasks PROVE CallOK(u)'
  <2>1. UNCHANGED <<up, now, calls>> /\ CallOK(u)
    BY DEF Fail, StoreOK
  <2>2. QED
    BY <1>3, <2>1 DEF CallOK, Awaits
<1>6. QED
  BY <1>2, <1>4, <1>5 DEF Fail, StoreOK

\* db.py, db_mysql.py: every step of the daemon leaves the store typed.
LEMMA StoreType == StoreOK /\ [Next]_vars => StoreOK'
<1> SUFFICES ASSUME StoreOK, [Next]_vars PROVE StoreOK'
  OBVIOUS
<1>1. CASE UNCHANGED vars
  BY <1>1 DEF vars, StoreOK, CallOK, Awaits
<1>2. CASE \E t \in Tasks : Step(t)
  BY <1>2, BeginType, ExecuteType, ReturnType, FailType DEF Step
<1>3. CASE \E b \in Backends : Start(b)
  <2>1. UNCHANGED <<disk, call, now, calls, faults, owed>> /\ up = Off
    BY <1>3 DEF Start
  <2>2. conn' \in SUBSET Row /\ up' \in {Off} \cup Backends
    BY <1>3 DEF Start, StoreOK
  <2>3. \A t \in Tasks : CallOK(t)'
    BY <2>1 DEF StoreOK, CallOK, Awaits
  <2>4. QED
    BY <2>1, <2>2, <2>3 DEF StoreOK
<1>4. CASE Stop \/ Crash
  <2>1. Down /\ UNCHANGED <<now, calls, faults, owed>>
    BY <1>4 DEF Stop, Crash
  <2>2. disk' \in [Backends -> SUBSET Row]
    BY <1>4, CommittedType DEF Stop, Crash, StoreOK, Committing, Tasks
  <2>3. call' = [t \in Tasks |-> Idle] /\ conn' = {} /\ up' = Off
    BY <2>1 DEF Down
  <2>4. \A t \in Tasks : CallOK(t)'
    BY <2>3 DEF CallOK, Awaits
  <2>5. QED
    BY <2>1, <2>2, <2>3, <2>4 DEF StoreOK
<1>5. CASE Tick
  <2>1. /\ now' = now + 1 /\ now < MaxTime /\ UNCHANGED <<disk, up, conn, call, calls, faults, owed>>
        /\ now \in 0..MaxTime /\ MaxTime \in Nat
    BY <1>5, BoundAssumption DEF Tick, StoreOK
  <2>2. ASSUME NEW t \in Tasks PROVE CallOK(t)'
    <3>1. CallOK(t) /\ (Awaits(t)' <=> Awaits(t)) /\ call'[t] = call[t]
      BY <2>1 DEF StoreOK, Awaits
    <3>2. Awaits(t) => call[t].ts \in Nat
      BY <2>1, <3>1 DEF CallOK, CallType
    <3>3. QED
      BY <2>1, <3>1, <3>2 DEF CallOK
  <2>3. QED
    BY <2>1, <2>2 DEF StoreOK
<1>6. QED
  BY <1>1, <1>2, <1>3, <1>4, <1>5 DEF Next, Daemon

----------------------------------------------------------------------------
(* The rows of calls that returned.                                        *)

\* What a call in hand has written, and not had undone, is where its rows are to be seen
\* when it returns: the connection on SQLite, the disk on MySQL, its own transaction.
CallKept(t) ==
  Awaits(t) /\ ~call[t].undone =>
    \A r \in call[t].rows :
      \/ Expirable(r)
      \/ up = "sqlite" /\ r \in conn
      \/ up = "mysql" /\ (InTransaction(call[t]) \/ r \in disk["mysql"])

Kept == AcknowledgedKept /\ \A t \in Tasks : CallKept(t)

\* A row that was let go of is never owed again.
LEMMA ExpirableStays ==
  ASSUME StoreOK, StoreOK', now <= now', NEW r \in Row, Expirable(r)
  PROVE  Expirable(r)'
<1>1. now \in Nat /\ now' \in Nat /\ r.ts \in Nat /\ SampleAge \in Nat /\ DnsAge \in Nat
  BY AgeAssumption, BoundAssumption DEF StoreOK, Row
<1>2. ASSUME NEW table, NEW age \in Nat, TooOld(r, table, now - age)
      PROVE  TooOld(r, table, now' - age)
  BY <1>1, <1>2 DEF TooOld
<1>3. QED
  BY <1>1, <1>2 DEF Expirable

\* A row that a statement adds to one set of rows it adds to any.
LEMMA AddedAnywhere ==
  ASSUME NEW a, NEW b, NEW s, NEW c, NEW r \in Effect(a, s, c), r \notin a
  PROVE  r \in Effect(b, s, c)
BY DEF Effect

\* A statement drops no row that is owed, and shows its own where the call counts on it.
LEMMA ExecuteKeeps ==
  ASSUME StoreOK, StoreOK', Kept, NEW t \in Tasks, Execute(t)
  PROVE  Kept'
<1>1. PICK c, s : c = call[t] /\ s = Statements[c.op][c.next]
  OBVIOUS
<1>2. Awaits(t) /\ ~Committing(t) /\ c \in CallType /\ up \in Backends
  BY <1>1 DEF Execute, StoreOK, CallOK
<1>3. /\ UNCHANGED <<up, now, owed>> /\ \A r : Expirable(r)' <=> Expirable(r)
      /\ conn \subseteq Row /\ disk[up] \subseteq Row /\ c.rows \subseteq Row
  BY <1>2 DEF Execute, Expirable, StoreOK, CallType
<1>4. \A rows \in SUBSET Row : \A r \in rows : r \in Effect(rows, s, c) \/ Expirable(r)
  BY <1>1, <1>2, EffectIs
<1>5. /\ \A r \in conn : r \in conn' \/ Expirable(r)
      /\ \A b \in Backends : \A r \in disk[b] : r \in disk'[b] \/ Expirable(r)
  <2>1. conn' \in {conn, Effect(conn, s, c)}
    BY <1>1 DEF Execute
  <2>2. disk' = disk \/ disk' = [disk EXCEPT ![up] = Effect(@, s, c)]
    BY <1>1 DEF Execute
  <2>3. QED
    BY <1>2, <1>3, <1>4, <2>1, <2>2 DEF StoreOK
<1>6. AcknowledgedKept'
  BY <1>3, <1>5 DEF Kept, AcknowledgedKept
<1>7. ASSUME NEW u \in Tasks PROVE CallKept(u)'
  <2>1. CASE u # t
    <3>1. call'[u] = call[u]
      BY <2>1 DEF Execute, StoreOK
    <3>2. CallKept(u)
      BY DEF Kept
    <3>3. QED
      BY <1>3, <1>5, <3>1, <3>2 DEF CallKept, Awaits, InTransaction, Backends
  <2>2. CASE u = t
    <3>1. /\ call'[t].rows = Effect(c.rows, s, c) /\ call'[t].undone = c.undone
          /\ call'[t].op = c.op
      BY <1>1, <1>2 DEF Execute, StoreOK, CallType
    <3>2. SUFFICES ASSUME ~c.undone, NEW r \in Effect(c.rows, s, c), ~Expirable(r)
                   PROVE  \/ up = "sqlite" /\ r \in conn'
                          \/ up = "mysql" /\ (InTransaction(c) \/ r \in disk'["mysql"])
      BY <1>3, <2>2, <3>1 DEF CallKept, InTransaction
    <3>3. CASE r \in c.rows
      <4>1. CallKept(t) /\ Awaits(t)
        BY <1>2 DEF Kept
      <4>2. \/ up = "sqlite" /\ r \in conn
            \/ up = "mysql" /\ (InTransaction(c) \/ r \in disk["mysql"])
        BY <1>1, <3>2, <3>3, <4>1 DEF CallKept
      <4>3. QED
        BY <1>5, <3>2, <4>2 DEF Backends
    <3>4. CASE r \notin c.rows
      <4>1. r \in Effect(conn, s, c) /\ r \in Effect(disk[up], s, c)
        BY <3>2, <3>4, AddedAnywhere
      <4>2. CASE up = "sqlite"
        BY <1>1, <4>1, <4>2 DEF Execute
      <4>3. CASE up = "mysql"
        BY <1>1, <4>1, <4>3 DEF Execute, StoreOK, Backends
      <4>4. QED
        BY <1>2, <4>2, <4>3 DEF Backends
    <3>5. QED
      BY <3>3, <3>4
  <2>3. QED
    BY <2>1, <2>2
<1>8. QED
  BY <1>6, <1>7 DEF Kept

\* What a commit puts on disk: every row there that must be kept, and the call's own.
LEMMA CommitKeeps ==
  ASSUME StoreOK, Kept, NEW t \in Tasks, Awaits(t)
  PROVE  /\ \A b \in Backends : \A r \in owed[b] : r \in Committed(call[t])[b] \/ Expirable(r)
         /\ \A b \in Backends : b # up => Committed(call[t])[b] = disk[b]
         /\ up = "sqlite" => Committed(call[t])["sqlite"] = conn
         /\ up = "mysql" => disk["mysql"] \subseteq Committed(call[t])["mysql"]
         /\ ~call[t].undone => \A r \in call[t].rows : r \in Committed(call[t])[up] \/ Expirable(r)
<1>1. up \in Backends /\ disk \in [Backends -> SUBSET Row]
  BY DEF StoreOK, CallOK
<1>2. /\ \A b \in Backends : b # up => Committed(call[t])[b] = disk[b]
      /\ up = "sqlite" => Committed(call[t])["sqlite"] = conn
      /\ up = "mysql" => disk["mysql"] \subseteq Committed(call[t])["mysql"]
      /\ up = "mysql" /\ InTransaction(call[t]) => call[t].rows \subseteq Committed(call[t])["mysql"]
  BY <1>1 DEF Committed, Backends
<1>3. \A b \in Backends : \A r \in owed[b] : r \in Committed(call[t])[b] \/ Expirable(r)
  BY <1>1, <1>2 DEF Kept, AcknowledgedKept, Backends
<1>4. ~call[t].undone => \A r \in call[t].rows : r \in Committed(call[t])[up] \/ Expirable(r)
  <2>1. CallKept(t)
    BY DEF Kept
  <2>2. QED
    BY <1>1, <1>2, <2>1 DEF CallKept, Backends
<1>5. QED
  BY <1>2, <1>3, <1>4

\* What becomes owed when a call returns is on disk by then.
LEMMA ReturnKeeps ==
  ASSUME StoreOK, StoreOK', Kept, NEW t \in Tasks, Return(t)
  PROVE  Kept'
<1>1. Awaits(t) /\ up \in Backends /\ disk' = Committed(call[t]) /\ UNCHANGED <<up, conn, now>>
  BY DEF Return, Committing, StoreOK, CallOK
<1>2. /\ \A r : Expirable(r)' <=> Expirable(r)
      /\ \A b \in Backends : b # up => owed'[b] = owed[b]
      /\ owed'[up] = IF call[t].undone THEN owed[up] ELSE owed[up] \cup call[t].rows
  BY <1>1 DEF Return, Expirable, StoreOK
<1>3. \A b \in Backends : \A r \in owed'[b] : r \in disk'[b] \/ Expirable(r)
  BY <1>1, <1>2, CommitKeeps
<1>4. up = "sqlite" => disk'["sqlite"] = conn
  BY <1>1, CommitKeeps
<1>5. AcknowledgedKept'
  BY <1>1, <1>2, <1>3, <1>4 DEF AcknowledgedKept
<1>6. ASSUME NEW u \in Tasks PROVE CallKept(u)'
  <2>1. call'[u] = IF u = t THEN Idle ELSE call[u]
    BY DEF Return, StoreOK
  <2>2. CallKept(u) /\ (up = "mysql" => disk["mysql"] \subseteq disk'["mysql"])
    BY <1>1, CommitKeeps DEF Kept
  <2>3. QED
    BY <1>1, <1>2, <2>1, <2>2 DEF CallKept, Awaits, InTransaction
<1>7. QED
  BY <1>5, <1>6 DEF Kept

\* A failure, and the rollback SQLite may make of it, lose only what was not owed; the other
\* call knows that it was undone.
LEMMA FailKeeps ==
  ASSUME StoreOK, StoreOK', Kept, NEW t \in Tasks, Fail(t)
  PROVE  Kept'
<1>1. Awaits(t) /\ up \in Backends /\ UNCHANGED <<up, now, owed>>
  BY DEF Fail, StoreOK, CallOK
<1>2. \A r : Expirable(r)' <=> Expirable(r)
  BY <1>1 DEF Expirable
<1>3. CASE up = "sqlite"
  <2>1. /\ conn' \in {conn, disk[up]} /\ disk' = disk
        /\ call' = [u \in Tasks |->
                      IF u = t \/ call[u] = Idle THEN Idle
                      ELSE [call[u] EXCEPT !.undone = @ \/ conn' # conn]]
    BY <1>3 DEF Fail
  <2>2. AcknowledgedKept'
    BY <1>1, <1>2, <1>3, <2>1 DEF Kept, AcknowledgedKept, Backends
  <2>3. ASSUME NEW u \in Tasks PROVE CallKept(u)'
    <3>1. CASE u = t \/ call[u] = Idle
      BY <2>1, <3>1 DEF CallKept, Awaits
    <3>2. CASE u # t /\ call[u] # Idle
      <4>1. call[u] \in CallType /\ CallKept(u)
        BY <3>2 DEF StoreOK, CallOK, Awaits, Kept
      <4>2. PICK b \in BOOLEAN : b = (call[u].undone \/ conn' # conn)
        OBVIOUS
      <4>3. call'[u] = [call[u] EXCEPT !.undone = b]
        BY <2>1, <3>2, <4>2
      <4>4. call'[u].undone = b /\ call'[u].rows = call[u].rows
        BY <4>1, <4>3 DEF CallType
      <4>5. SUFFICES ASSUME ~b PROVE \A r \in call[u].rows : r \in conn \/ Expirable(r)
        BY <1>1, <1>2, <1>3, <4>2, <4>4 DEF CallKept
      <4>6. QED
        BY <1>3, <3>2, <4>1, <4>2, <4>5 DEF CallKept, Awaits
    <3>3. QED
      BY <3>1, <3>2
  <2>4. QED
    BY <2>2, <2>3 DEF Kept
<1>4. CASE up = "mysql"
  <2>1. /\ call' = [call EXCEPT ![t] = Idle] /\ conn' = conn
        /\ disk' = disk \/ disk' = Committed(call[t])
    BY <1>4 DEF Fail
  <2>2. \A b \in Backends : disk[b] \subseteq disk'[b]
    BY <1>1, <1>4, <2>1, CommitKeeps DEF Backends
  <2>3. AcknowledgedKept'
    BY <1>1, <1>2, <1>4, <2>2 DEF Kept, AcknowledgedKept
  <2>4. ASSUME NEW u \in Tasks PROVE CallKept(u)'
    <3>1. CallKept(u) /\ call'[u] = IF u = t THEN Idle ELSE call[u]
      BY <2>1 DEF Kept, StoreOK
    <3>2. QED
      BY <1>1, <1>2, <1>4, <2>2, <3>1 DEF CallKept, Awaits, InTransaction, Backends
  <2>5. QED
    BY <2>3, <2>4 DEF Kept
<1>5. QED
  BY <1>1, <1>3, <1>4 DEF Backends

\* Every step of the daemon keeps the rows of the calls that returned.
LEMMA DaemonKeeps ==
  ASSUME StoreOK, StoreOK', Kept, [Next]_vars
  PROVE  Kept'
<1>1. CASE UNCHANGED vars
  BY <1>1 DEF vars, Kept, AcknowledgedKept, CallKept, Awaits, Expirable
<1>2. ASSUME NEW t \in Tasks, NEW op \in Ops(t), Begin(t, op) PROVE Kept'
  <2>1. UNCHANGED <<disk, up, conn, now, owed>>
    BY <1>2 DEF Begin
  <2>2. AcknowledgedKept' /\ \A r : Expirable(r)' <=> Expirable(r)
    BY <2>1 DEF Kept, AcknowledgedKept, Expirable
  <2>3. ASSUME NEW u \in Tasks PROVE CallKept(u)'
    <3>1. CASE u = t
      <4>1. call'[u].rows = {}
        BY <1>2, <3>1 DEF Begin, StoreOK
      <4>2. QED
        BY <4>1 DEF CallKept
    <3>2. CASE u # t
      <4>1. call'[u] = call[u] /\ CallKept(u)
        BY <1>2, <3>2 DEF Begin, StoreOK, Kept
      <4>2. QED
        BY <2>1, <2>2, <4>1 DEF CallKept, Awaits, InTransaction
    <3>3. QED
      BY <3>1, <3>2
  <2>4. QED
    BY <2>2, <2>3 DEF Kept
<1>3. CASE \E t \in Tasks : Step(t)
  BY <1>2, <1>3, ExecuteKeeps, ReturnKeeps, FailKeeps DEF Step
<1>4. CASE \E b \in Backends : Start(b)
  <2>1. PICK b \in Backends : Start(b)
    BY <1>4
  <2>2. /\ UNCHANGED <<disk, call, now, owed>> /\ up' = b /\ (b = "sqlite" => conn' = disk[b])
        /\ up = Off /\ \A r : Expirable(r)' <=> Expirable(r)
    BY <2>1 DEF Start, Expirable
  <2>3. AcknowledgedKept'
    BY <2>2 DEF Kept, AcknowledgedKept
  <2>4. \A t \in Tasks : ~Awaits(t)'
    BY <2>2 DEF StoreOK, CallOK, Awaits
  <2>5. QED
    BY <2>3, <2>4 DEF Kept, CallKept
<1>5. CASE Stop \/ Crash
  <2>1. /\ up' = Off /\ UNCHANGED <<now, owed>> /\ \A t \in Tasks : call'[t] = Idle
        /\ \A r : Expirable(r)' <=> Expirable(r)
    BY <1>5 DEF Stop, Crash, Down, Expirable
  <2>2. disk' = disk \/ \E t \in Tasks : Awaits(t) /\ disk' = Committed(call[t])
    BY <1>5 DEF Stop, Crash, Committing, Tasks
  <2>3. \A b \in Backends : \A r \in owed[b] : r \in disk'[b] \/ Expirable(r)
    <3>1. CASE disk' = disk
      BY <3>1 DEF Kept, AcknowledgedKept
    <3>2. CASE \E t \in Tasks : Awaits(t) /\ disk' = Committed(call[t])
      BY <3>2, CommitKeeps
    <3>3. QED
      BY <2>2, <3>1, <3>2
  <2>4. QED
    BY <2>1, <2>3, StoreOff DEF Kept, AcknowledgedKept, CallKept, Awaits
<1>6. CASE Tick
  <2>1. UNCHANGED <<disk, up, conn, call, owed>> /\ now <= now'
    <3>1. now \in Nat /\ now' = now + 1
      BY <1>6, BoundAssumption DEF Tick, StoreOK
    <3>2. QED
      BY <1>6, <3>1 DEF Tick
  <2>2. \A r \in Row : Expirable(r) => Expirable(r)'
    BY <2>1, ExpirableStays
  <2>3. AcknowledgedKept'
    BY <2>1, <2>2 DEF Kept, AcknowledgedKept, StoreOK
  <2>4. ASSUME NEW t \in Tasks PROVE CallKept(t)'
    <3>1. CallKept(t) /\ (Awaits(t) => call[t].rows \subseteq Row)
      BY DEF Kept, StoreOK, CallOK, CallType
    <3>2. QED
      BY <2>1, <2>2, <3>1 DEF CallKept, Awaits, InTransaction
  <2>5. QED
    BY <2>3, <2>4 DEF Kept
<1>7. QED
  BY <1>1, <1>3, <1>4, <1>5, <1>6 DEF Next, Daemon

----------------------------------------------------------------------------
(* The tool beside the store.                                              *)

\* What the tool leaves of the store, whatever its step: it runs while the daemon does
\* not, owes no row it has not kept, and puts no row on a disk that was on neither.
LEMMA ToolEffect ==
  ASSUME TypeOK, MigrateStep
  PROVE  /\ up = Off /\ UNCHANGED <<up, conn, call, pruned, now, calls, faults>>
         /\ disk' \in [Backends -> SUBSET Row] /\ owed' \in [Backends -> SUBSET Row]
         /\ disk'["sqlite"] = disk["sqlite"]
         /\ \A b \in Backends : \A r \in owed'[b] : r \in owed[b] /\ (r \in disk[b] => r \in disk'[b])
         /\ \A b \in Backends : \A r \in disk'[b] : \E a \in Backends : r \in disk[a]
<1>1. CASE Guard \/ Die \/ \E r \in BOOLEAN : Launch(r)
  <2>1. up = Off /\ UNCHANGED vars
    BY <1>1 DEF Guard, Die, Launch, TypeOK, ToolOK, Working
  <2>2. QED
    BY <2>1 DEF vars, TypeOK, StoreOK
<1>2. CASE Truncate
  <2>1. PICK gone : gone = RowsOf(disk["mysql"], Head(tool.left))
    OBVIOUS
  <2>2. /\ disk' = [disk EXCEPT !["mysql"] = @ \ gone] /\ owed' = [owed EXCEPT !["mysql"] = @ \ gone]
        /\ UNCHANGED <<up, conn, call, pruned, now, calls, faults>> /\ up = Off
    BY <1>2, <2>1 DEF Truncate, TypeOK, ToolOK, Working
  <2>3. QED
    BY <2>2 DEF TypeOK, StoreOK, Backends
<1>3. CASE CopyTable
  <2>1. PICK source : source = RowsOf(disk["sqlite"], Head(tool.left))
    OBVIOUS
  <2>2. /\ disk' = [disk EXCEPT !["mysql"] = @ \cup source] /\ source \subseteq disk["sqlite"]
        /\ UNCHANGED <<up, conn, call, pruned, now, calls, faults, owed>> /\ up = Off
    BY <1>3, <2>1 DEF CopyTable, TypeOK, ToolOK, Working, RowsOf
  <2>3. QED
    BY <2>2 DEF TypeOK, StoreOK, Backends
<1>4. QED
  BY <1>1, <1>2, <1>3 DEF MigrateStep

\* While the tool works, or anyone is at it, no call is in hand.
LEMMA NoCalls == ASSUME StoreOK, up = Off PROVE \A t \in Tasks : ~Awaits(t)
BY DEF StoreOK, CallOK

\* The list without its first table.
LEMMA TailTables ==
  ASSUME NEW s \in Seq(TableSet), Len(s) > 1
  PROVE  /\ Tail(s) \in Seq(TableSet) /\ Len(Tail(s)) = Len(s) - 1
         /\ \A i \in 1..(Len(s) - 1) : Tail(s)[i] = s[i + 1]
OBVIOUS

\* Every step of the daemon and of the tool leaves both typed.
LEMMA ToolType == TypeOK /\ [MigrateNext]_<<vars, tool, found>> => TypeOK'
<1> SUFFICES ASSUME TypeOK, [MigrateNext]_<<vars, tool, found>> PROVE TypeOK'
  OBVIOUS
<1>1. CASE UNCHANGED <<vars, tool, found>>
  <2>1. [Next]_vars /\ UNCHANGED <<up, tool, found>>
    BY <1>1 DEF vars
  <2>2. QED
    BY <2>1, StoreType DEF TypeOK, ToolOK, Working
<1>2. CASE DaemonStep
  <2>1. [Next]_vars /\ UNCHANGED <<tool, found>> /\ ~Working
    BY <1>2 DEF DaemonStep
  <2>2. QED
    BY <2>1, StoreType DEF TypeOK, ToolOK, Working
<1>3. CASE MigrateStep
  <2>1. StoreOK'
    BY <1>3, ToolEffect, NoCalls DEF TypeOK, StoreOK, CallOK, Awaits
  <2>2. up' = Off /\ found' \in SUBSET Row
    BY <1>3, ToolEffect DEF MigrateStep, Guard, Truncate, CopyTable, Die, Launch, TypeOK, ToolOK,
                             StoreOK, Backends
  <2>3. tool' \in [at : {"off", "guard", "truncate", "copy", "done"}, replace : BOOLEAN,
                   left : Seq(TableSet)]
    <3>1. Copied \in Seq(TableSet)
      BY TableNames DEF Copied
    <3>2. CASE Guard \/ Die \/ \E r \in BOOLEAN : Launch(r)
      BY <3>1, <3>2 DEF Guard, Die, Launch, TypeOK, ToolOK
    <3>3. PICK left : left = IF Len(tool.left) > 1 THEN Tail(tool.left) ELSE Copied
      OBVIOUS
    <3>4. left \in Seq(TableSet)
      BY <3>1, <3>3, TailTables DEF TypeOK, ToolOK
    <3>5. CASE Truncate
      BY <3>1, <3>3, <3>4, <3>5 DEF Truncate, TypeOK, ToolOK
    <3>6. CASE CopyTable
      <4>1. tool' \in {[tool EXCEPT !.at = "off"], [tool EXCEPT !.left = left], [tool EXCEPT !.at = "done"]}
        BY <3>3, <3>6 DEF CopyTable
      <4>2. QED
        BY <3>4, <4>1 DEF TypeOK, ToolOK
    <3>7. QED
      BY <1>3, <3>2, <3>5, <3>6 DEF MigrateStep
  <2>4. QED
    BY <2>1, <2>2, <2>3 DEF TypeOK, ToolOK
<1>4. QED
  BY <1>1, <1>2, <1>3 DEF MigrateNext

\* So are they at the start.
LEMMA InitType == MigrateInit => TypeOK
<1> SUFFICES ASSUME MigrateInit PROVE TypeOK
  OBVIOUS
<1>1. /\ disk = [b \in Backends |-> {}] /\ owed = [b \in Backends |-> {}] /\ up = Off /\ conn = {}
      /\ call = [t \in Tasks |-> Idle] /\ now = 0 /\ calls = 0 /\ faults = 0
      /\ tool = NotStarted /\ found = {}
  BY DEF MigrateInit, Init
<1>2. StoreOK
  BY <1>1, BoundAssumption DEF StoreOK, CallOK, Awaits
<1>3. ToolOK
  BY <1>1 DEF ToolOK, NotStarted, Working
<1>4. QED
  BY <1>2, <1>3 DEF TypeOK

\* The types of the store and of the tool, over every step of both.
THEOREM StoreTypeCorrect == MigrateSpec => []TypeOK
<1>1. QED
  BY InitType, ToolType, PTL DEF MigrateSpec

\* Acknowledged rows survive: db.py's shared transaction, db_mysql.py's own ones, failures,
\* rollbacks, crashes, shutdowns, and the tool with or without --replace.
THEOREM AcknowledgedCorrect == MigrateSpec => []AcknowledgedKept
<1>1. MigrateInit => Kept
  <2> SUFFICES ASSUME MigrateInit PROVE Kept
    OBVIOUS
  <2>1. owed = [b \in Backends |-> {}] /\ call = [t \in Tasks |-> Idle]
    BY DEF MigrateInit, Init
  <2>2. QED
    BY <2>1 DEF Kept, AcknowledgedKept, CallKept, Awaits
<1>2. TypeOK /\ TypeOK' /\ Kept /\ [MigrateNext]_<<vars, tool, found>> => Kept'
  <2> SUFFICES ASSUME TypeOK, TypeOK', Kept, [MigrateNext]_<<vars, tool, found>> PROVE Kept'
    OBVIOUS
  <2>1. CASE UNCHANGED <<vars, tool, found>> \/ DaemonStep
    BY <2>1, DaemonKeeps DEF DaemonStep, TypeOK
  <2>2. CASE MigrateStep
    <3>1. /\ up = Off /\ up' = Off /\ \A r : Expirable(r)' <=> Expirable(r)
          /\ \A t \in Tasks : ~Awaits(t)'
      BY <2>2, ToolEffect, NoCalls DEF Expirable, Awaits, TypeOK
    <3>2. AcknowledgedKept'
      BY <2>2, <3>1, ToolEffect, StoreOff DEF Kept, AcknowledgedKept
    <3>3. QED
      BY <3>1, <3>2 DEF Kept, CallKept
  <2>3. QED
    BY <2>1, <2>2 DEF MigrateNext
<1>3. Kept => AcknowledgedKept
  BY DEF Kept
<1>4. QED
  BY <1>1, <1>2, <1>3, StoreTypeCorrect, PTL DEF MigrateSpec

----------------------------------------------------------------------------
(* The windows.                                                            *)

\* What the backend's own reader sees: the connection on SQLite, the disk on MySQL.
Seen == IF up = "sqlite" THEN conn ELSE disk[up]

\* A pruning call that has only its commit left has left nothing too old to be seen, unless
\* its own deletion was undone.
Cleaned(t) ==
  Committing(t) /\ ~call[t].undone /\ call[t].op \in DOMAIN Windows =>
    ~\E r \in Seen : TooOld(r, Windows[call[t].op].table, call[t].ts - Windows[call[t].op].age)

\* What a pruning call deletes last: its window.
LEMMA LastStatement ==
  ASSUME NEW op \in DOMAIN Windows
  PROVE  /\ op \in DOMAIN Statements /\ Len(Statements[op]) \in {1, 2} /\ op # "insert_reboot"
         /\ op # "insert_ap_stats" /\ Windows[op].table # "reboot_events"
         /\ Statements[op][Len(Statements[op])] = Expire(Windows[op].table, Windows[op].age)
<1>1. CASE op = "prune_client_samples"
  BY <1>1 DEF Windows, Statements, PruneClientSamples
<1>2. CASE op = "insert_dns_source_sample"
  BY <1>2 DEF Windows, Statements, InsertDnsSourceSample
<1>3. CASE op = "insert_dns_thrash_observations"
  BY <1>3 DEF Windows, Statements, InsertDnsThrashObservations
<1>4. QED
  BY <1>1, <1>2, <1>3 DEF Windows

\* The two tasks' calls never prune and insert into one table at a time.
LEMMA OtherIsReboot ==
  ASSUME StoreOK, NEW t \in Tasks, NEW u \in Tasks, u # t, Awaits(t), Awaits(u),
         call[t].op \in DOMAIN Windows
  PROVE  call[u].op = "insert_reboot"
<1>1. call[t].op \in Ops(t) /\ call[u].op \in Ops(u)
  BY DEF StoreOK, CallOK
<1>2. t = "scanner" /\ u = "scheduler"
  BY <1>1, LastStatement DEF Ops, Tasks
<1>3. QED
  BY <1>1, <1>2 DEF Ops

\* A pruning call's last statement takes what is too old; the other task only adds audit rows.
LEMMA ExecuteCleans ==
  ASSUME StoreOK, NEW t \in Tasks, NEW u \in Tasks, Cleaned(t), Execute(u)
  PROVE  Cleaned(t)'
<1>1. PICK c, s : c = call[u] /\ s = Statements[c.op][c.next]
  OBVIOUS
<1>2. Awaits(u) /\ ~Committing(u) /\ c \in CallType /\ up \in Backends /\ up' = up
  BY <1>1 DEF Execute, StoreOK, CallOK
<1>3. CASE u # t
  <2>1. call'[t] = call[t]
    BY <1>3 DEF Execute, StoreOK
  <2>2. SUFFICES ASSUME Committing(t), ~call[t].undone, call[t].op \in DOMAIN Windows
                 PROVE  ~\E r \in Seen' : TooOld(r, Windows[call[t].op].table,
                                              call[t].ts - Windows[call[t].op].age)
    BY <2>1 DEF Cleaned, Committing, Awaits
  <2>3. c.op = "insert_reboot"
    BY <1>1, <1>2, <1>3, <2>2, OtherIsReboot DEF Committing
  <2>4. s = Insert("reboot_events", 0)
    <3>1. c.next \in Nat \ {0} /\ ~(c.next > 1)
      BY <1>1, <1>2, <2>3, StatementLengths DEF CallType, Committing
    <3>2. c.next \in 1..Len(Statements[c.op]) /\ c.op \in DOMAIN Statements
      BY <1>2, <2>3, <3>1, StatementLengths DEF CallType
    <3>3. QED
      BY <1>1, <2>3, <3>2, StatementIs
  <2>5. \A rows : \A r \in Effect(rows, s, c) : r \in rows \/ r.table = "reboot_events"
    BY <2>4 DEF Effect, Insert
  <2>6. \A r \in Seen' : r \in Seen \/ r.table = "reboot_events"
    <3>1. conn' \in {conn, Effect(conn, s, c)} /\ disk'[up] \in {disk[up], Effect(disk[up], s, c)}
      BY <1>1, <1>2 DEF Execute, StoreOK
    <3>2. QED
      BY <1>2, <2>5, <3>1 DEF Seen
  <2>7. Windows[call[t].op].table # "reboot_events"
    BY <2>2, LastStatement
  <2>8. QED
    BY <2>2, <2>6, <2>7 DEF Cleaned, TooOld
<1>4. CASE u = t
  <2>1. /\ call'[t].next = c.next + 1 /\ call'[t].undone = c.undone /\ call'[t].op = c.op
        /\ call'[t].ts = c.ts
    BY <1>1, <1>2, <1>4 DEF Execute, StoreOK, CallType
  <2>2. SUFFICES ASSUME c.next + 1 > Len(Statements[c.op]), c.op \in DOMAIN Windows
                 PROVE  ~\E r \in Seen' : TooOld(r, Windows[c.op].table, c.ts - Windows[c.op].age)
    BY <2>1 DEF Cleaned, Committing
  <2>3. c.next = Len(Statements[c.op])
    BY <1>1, <1>2, <2>2, LastStatement DEF CallType, Committing
  <2>4. s = Expire(Windows[c.op].table, Windows[c.op].age) /\ c.op # "insert_ap_stats"
    BY <1>1, <2>2, <2>3, LastStatement
  <2>5. \A rows : \A r \in Effect(rows, s, c) : ~TooOld(r, Windows[c.op].table, c.ts - Windows[c.op].age)
    BY <2>4 DEF Effect, Expire
  <2>6. CASE up = "sqlite"
    <3>1. Seen' = Effect(conn, s, c)
      BY <1>1, <1>2, <1>4, <2>6 DEF Execute, Seen
    <3>2. QED
      BY <2>5, <3>1
  <2>7. CASE up = "mysql"
    <3>1. disk' = [disk EXCEPT !["mysql"] = Effect(@, s, c)]
      BY <1>1, <1>2, <1>4, <2>4, <2>7 DEF Execute, InTransaction
    <3>2. Seen' = Effect(disk["mysql"], s, c)
      BY <1>2, <2>7, <3>1 DEF Seen, StoreOK, Backends
    <3>3. QED
      BY <2>5, <3>2
  <2>8. QED
    BY <1>2, <2>6, <2>7 DEF Backends
<1>5. QED
  BY <1>3, <1>4

\* Every step of the daemon leaves a pruning call that is at its commit with its window clean.
LEMMA DaemonCleans ==
  ASSUME StoreOK, StoreOK', [Next]_vars, NEW t \in Tasks, Cleaned(t)
  PROVE  Cleaned(t)'
<1>1. CASE UNCHANGED vars \/ Tick
  BY <1>1 DEF vars, Tick, Cleaned, Committing, Awaits, Seen
<1>2. ASSUME NEW u \in Tasks, NEW op \in Ops(u), Begin(u, op) PROVE Cleaned(t)'
  <2>1. UNCHANGED <<disk, up, conn>>
    BY <1>2 DEF Begin
  <2>2. CASE u # t
    <3>1. call'[t] = call[t]
      BY <1>2, <2>2 DEF Begin, StoreOK
    <3>2. QED
      BY <2>1, <3>1 DEF Cleaned, Committing, Awaits, Seen
  <2>3. CASE u = t
    <3>1. call'[t].next = 1 /\ call'[t].op = op
      BY <1>2, <2>3 DEF Begin, StoreOK
    <3>2. op \in DOMAIN Windows => Len(Statements[op]) \in {1, 2}
      BY LastStatement
    <3>3. Committing(t)' => 1 > Len(Statements[op])
      BY <3>1 DEF Committing
    <3>4. ~(Committing(t)' /\ op \in DOMAIN Windows)
      BY <3>2, <3>3
    <3>5. QED
      BY <3>1, <3>4 DEF Cleaned
  <2>4. QED
    BY <2>2, <2>3
<1>3. ASSUME NEW u \in Tasks, Return(u) PROVE Cleaned(t)'
  <2>1. call'[t] = (IF t = u THEN Idle ELSE call[t]) /\ UNCHANGED <<up, conn>> /\ disk' = Committed(call[u])
    BY <1>3 DEF Return, StoreOK
  <2>2. CASE t = u
    BY <2>1, <2>2 DEF Cleaned, Committing, Awaits
  <2>3. CASE t # u
    <3>1. Awaits(t) /\ call[t].op \in DOMAIN Windows => Seen' = Seen
      <4>1. SUFFICES ASSUME Awaits(t), call[t].op \in DOMAIN Windows PROVE Seen' = Seen
        OBVIOUS
      <4>2. call[u].op = "insert_reboot"
        BY <1>3, <2>3, <4>1, OtherIsReboot DEF Return, Committing
      <4>3. up \in Backends
        BY <4>1 DEF StoreOK, CallOK
      <4>4. up = "mysql" => disk' = [disk EXCEPT ![up] = disk[up]]
        BY <2>1, <4>2, <4>3 DEF Committed, InTransaction
      <4>5. QED
        BY <2>1, <4>3, <4>4 DEF Seen, Backends, StoreOK
    <3>2. QED
      BY <2>1, <2>3, <3>1 DEF Cleaned, Committing, Awaits
  <2>4. QED
    BY <2>2, <2>3
<1>4. ASSUME NEW u \in Tasks, Fail(u) PROVE Cleaned(t)'
  <2>1. CASE t = u \/ call[t] = Idle
    <3>1. call'[t] = Idle
      BY <1>4, <2>1 DEF Fail, StoreOK
    <3>2. QED
      BY <3>1 DEF Cleaned, Committing, Awaits
  <2>2. CASE t # u /\ call[t] # Idle /\ up = "sqlite"
    <3>1. PICK b \in BOOLEAN : b = (call[t].undone \/ conn' # conn)
      OBVIOUS
    <3>2. call'[t] = [call[t] EXCEPT !.undone = b] /\ call[t] \in CallType /\ up' = up
      BY <1>4, <2>2, <3>1 DEF Fail, StoreOK, CallOK, Awaits
    <3>3. /\ call'[t].undone = b /\ call'[t].op = call[t].op /\ call'[t].ts = call[t].ts
          /\ call'[t].next = call[t].next
      BY <3>2 DEF CallType
    <3>4. CASE conn' = conn
      <4>1. Seen' = Seen /\ b = call[t].undone
        BY <2>2, <3>1, <3>2, <3>4 DEF Seen, CallType
      <4>2. QED
        BY <2>2, <3>3, <4>1 DEF Cleaned, Committing, Awaits
    <3>5. CASE conn' # conn
      BY <3>1, <3>3, <3>5 DEF Cleaned
    <3>6. QED
      BY <3>4, <3>5
  <2>3. CASE t # u /\ call[t] # Idle /\ up # "sqlite"
    <3>1. call'[t] = call[t] /\ UNCHANGED <<up, conn>> /\ up = "mysql"
      BY <1>4, <2>3 DEF Fail, StoreOK, CallOK, Awaits, Backends
    <3>2. call[t].op \in DOMAIN Windows => Seen' = Seen
      <4>1. SUFFICES ASSUME call[t].op \in DOMAIN Windows PROVE Seen' = Seen
        OBVIOUS
      <4>2. call[u].op = "insert_reboot"
        BY <1>4, <2>3, <4>1, OtherIsReboot DEF Fail, Awaits
      <4>3. disk' = disk \/ disk' = Committed(call[u])
        BY <1>4, <3>1 DEF Fail
      <4>4. disk'["mysql"] = disk["mysql"]
        BY <3>1, <4>2, <4>3 DEF Committed, InTransaction, StoreOK, Backends
      <4>5. QED
        BY <3>1, <4>4 DEF Seen
    <3>3. QED
      BY <3>1, <3>2 DEF Cleaned, Committing, Awaits
  <2>4. QED
    BY <2>1, <2>2, <2>3
<1>5. CASE \E u \in Tasks : Step(u)
  BY <1>2, <1>3, <1>4, <1>5, ExecuteCleans DEF Step
<1>6. CASE \E b \in Backends : Start(b)
  <2>1. ~Awaits(t) /\ UNCHANGED call
    BY <1>6, NoCalls DEF Start
  <2>2. QED
    BY <2>1 DEF Cleaned, Committing, Awaits
<1>7. CASE Stop \/ Crash
  BY <1>7 DEF Stop, Crash, Down, Cleaned, Committing, Awaits
<1>8. QED
  BY <1>1, <1>5, <1>6, <1>7 DEF Next, Daemon

\* The step that a call returns with, and no other.
LEMMA ReturnIs ==
  ASSUME StoreOK, StoreOK', [Next]_vars, NEW t \in Tasks, Returns(t)
  PROVE  Return(t)
<1>1. Awaits(t) /\ call'[t] = Idle /\ up' = up /\ up # Off /\ faults' = faults /\ faults \in Nat
  BY DEF Returns, StoreOK, CallOK
<1>2. ~UNCHANGED vars /\ ~Tick
  BY <1>1 DEF vars, Tick, Awaits
<1>3. ~(Stop \/ Crash) /\ ~\E b \in Backends : Start(b)
  BY <1>1 DEF Stop, Crash, Down, Start
<1>4. PICK u \in Tasks : Step(u)
  BY <1>2, <1>3 DEF Next, Daemon
<1>5. ~Fail(u)
  BY <1>1 DEF Fail
<1>6. ~\E op \in Ops(u) : Begin(u, op)
  <2> SUFFICES ASSUME NEW op \in Ops(u), Begin(u, op) PROVE FALSE
    OBVIOUS
  <2>1. u # t /\ call'[t] = call[t]
    BY <1>1 DEF Begin, StoreOK, Awaits
  <2>2. QED
    BY <1>1, <2>1 DEF Awaits
<1>7. ~Execute(u)
  <2> SUFFICES ASSUME Execute(u) PROVE FALSE
    OBVIOUS
  <2>1. CASE u # t
    BY <1>1, <2>1 DEF Execute, StoreOK, Awaits
  <2>2. CASE u = t
    <3>1. PICK n, rows : call'[t] = [call[t] EXCEPT !.next = n, !.rows = rows]
      BY <2>2 DEF Execute, StoreOK
    <3>2. call[t] \in CallType
      BY <1>1 DEF StoreOK, CallOK
    <3>3. DOMAIN call'[t] = {"op", "ts", "by", "next", "rows", "undone"} /\ DOMAIN Idle = {"op"}
      BY <3>1, <3>2 DEF CallType, Idle
    <3>4. QED
      BY <1>1, <3>3
  <2>3. QED
    BY <2>1, <2>2
<1>8. Return(u)
  BY <1>4, <1>5, <1>6, <1>7 DEF Step
<1>9. u = t
  BY <1>1, <1>8 DEF Return, StoreOK, Awaits
<1>10. QED
  BY <1>8, <1>9

\* "Pruned to a rolling window on write": whatever the other task, a rollback and a shared
\* commit do, the call that prunes returns to a disk without the rows it had to let go.
THEOREM RetentionCorrect == MigrateSpec => RetentionKept
<1> DEFINE Keeps ==
      \A t \in Tasks :
        Returns(t) /\ ~call[t].undone /\ call[t].op \in DOMAIN Windows =>
          LET w == Windows[call[t].op]
          IN  ~\E r \in disk'[up] : TooOld(r, w.table, call[t].ts - w.age)
    Clean == \A t \in Tasks : Cleaned(t)
<1>1. MigrateInit => Clean
  <2> SUFFICES ASSUME MigrateInit, NEW t \in Tasks PROVE Cleaned(t)
    OBVIOUS
  <2>1. call = [u \in Tasks |-> Idle]
    BY DEF MigrateInit, Init
  <2>2. QED
    BY <2>1 DEF Cleaned, Committing, Awaits
<1>2. TypeOK /\ TypeOK' /\ Clean /\ [MigrateNext]_<<vars, tool, found>> => Clean'
  <2> SUFFICES ASSUME TypeOK, TypeOK', Clean, [MigrateNext]_<<vars, tool, found>>, NEW t \in Tasks
               PROVE  Cleaned(t)'
    OBVIOUS
  <2>1. CASE UNCHANGED <<vars, tool, found>> \/ DaemonStep
    BY <2>1, DaemonCleans DEF DaemonStep, TypeOK
  <2>2. CASE MigrateStep
    BY <2>2, ToolEffect, NoCalls DEF TypeOK, Cleaned, Committing, Awaits
  <2>3. QED
    BY <2>1, <2>2 DEF MigrateNext
<1>3. TypeOK /\ TypeOK' /\ Clean /\ [MigrateNext]_<<vars, tool, found>> => [Keeps]_vars
  <2> SUFFICES ASSUME TypeOK, TypeOK', Clean, [MigrateNext]_<<vars, tool, found>>, NEW t \in Tasks,
                      Returns(t), ~call[t].undone, call[t].op \in DOMAIN Windows
               PROVE  ~\E r \in disk'[up] : TooOld(r, Windows[call[t].op].table,
                                                 call[t].ts - Windows[call[t].op].age)
    BY DEF Keeps
  <2>1. Awaits(t) /\ up \in Backends /\ StoreOK /\ StoreOK'
    BY DEF Returns, TypeOK, StoreOK, CallOK
  <2>2. ~MigrateStep
    BY <2>1, ToolEffect, NoCalls
  <2>3. Return(t)
    BY <2>1, <2>2, ReturnIs DEF MigrateNext, DaemonStep
  <2>4. Committing(t) /\ disk' = Committed(call[t])
    BY <2>3 DEF Return
  <2>5. disk'[up] = Seen
    BY <2>1, <2>4, LastStatement DEF Committed, InTransaction, Seen, StoreOK
  <2>6. QED
    BY <2>4, <2>5 DEF Cleaned
<1> HIDE DEF Clean
<1>4. QED
  BY <1>1, <1>2, <1>3, StoreTypeCorrect, PTL DEF MigrateSpec, RetentionKept

----------------------------------------------------------------------------
(* Snapshots.                                                              *)

\* The row that statement k + 1 of a snapshot adds.
PartRow(c, k) ==
  [table |-> IF k = 0 THEN "ap_samples" ELSE "ap_radio_samples", ts |-> c.ts, by |-> c.by,
   part |-> k]

\* A call's rows are its own, and a snapshot's are those of its statements so far.
RowsOfCall(t) ==
  Awaits(t) =>
    /\ \A r \in call[t].rows : r.by = call[t].by
    /\ InTransaction(call[t]) =>
         /\ call[t].next \in 1..(Radios + 2)
         /\ call[t].rows = {PartRow(call[t], k) : k \in 0..(call[t].next - 2)}

\* No row is by a call to come, no two calls in hand are one, and what a transaction of
\* MySQL has written is not on its disk.
Fresh ==
  /\ \A b \in Backends : \A r \in disk[b] : r.by <= calls
  /\ \A r \in conn : r.by <= calls
  /\ \A t, u \in Tasks : t # u /\ Awaits(t) /\ Awaits(u) => call[t].by # call[u].by
  /\ \A t \in Tasks : up = "mysql" /\ Awaits(t) /\ InTransaction(call[t]) =>
       \A r \in disk["mysql"] : r.by # call[t].by
  /\ \A t \in Tasks : RowsOfCall(t)

\* A snapshot whose statements are all done has as many rows as it has tables' parts.
LEMMA WholeSnapshot ==
  ASSUME NEW c
  PROVE  Cardinality({PartRow(c, k) : k \in 0..Radios}) = Radios + 1
<1> DEFINE P == 0..Radios
           f == [k \in P |-> PartRow(c, k)]
           R == {PartRow(c, k) : k \in P}
<1>1. Radios \in Nat
  BY AgeAssumption
<1>2. IsFiniteSet(P) /\ Cardinality(P) = Radios + 1
  BY <1>1, FS_Interval
<1>3. \A k \in P : PartRow(c, k).part = k
  BY DEF PartRow
<1>4. f \in Bijection(P, R)
  BY <1>3 DEF Bijection, Injection, Surjection, IsInjective
<1> HIDE DEF P, R, f
<1>5. IsFiniteSet(R) /\ Cardinality(R) = Cardinality(P)
  BY <1>2, <1>4, FS_Bijection DEF ExistsBijection
<1>6. QED
  BY <1>2, <1>5 DEF P, R

\* A statement of a snapshot is the insert of its part.
LEMMA PartStatement ==
  ASSUME NEW c, c.op = "insert_ap_stats", NEW k \in 0..Radios, NEW rows
  PROVE  Effect(rows, Statements[c.op][k + 1], c) = rows \cup {PartRow(c, k)}
<1>1. Radios \in Nat /\ Statements[c.op] = InsertApStats
  BY AgeAssumption DEF Statements
<1>2. CASE k = 0
  BY <1>1, <1>2, SnapshotStatements DEF Effect, Insert, PartRow
<1>3. CASE k # 0
  <2>1. k \in 1..Radios
    BY <1>1, <1>3
  <2>2. QED
    <3>1. Statements[c.op][k + 1] = Insert("ap_radio_samples", k)
      BY <1>1, <2>1, SnapshotStatements
    <3>2. QED
      BY <1>3, <3>1 DEF Effect, Insert, PartRow
<1>4. QED
  BY <1>2, <1>3

\* A call that a step leaves alone keeps its rows.
LEMMA RowsOfOthers ==
  ASSUME NEW t, RowsOfCall(t), call'[t] = call[t]
  PROVE  RowsOfCall(t)'
BY DEF RowsOfCall, Awaits, InTransaction, PartRow

\* A statement's rows are by its own call, and a snapshot's statements go in order.
LEMMA ExecuteFresh ==
  ASSUME StoreOK, StoreOK', Fresh, NEW t \in Tasks, Execute(t)
  PROVE  Fresh'
<1>1. PICK c, s : c = call[t] /\ s = Statements[c.op][c.next]
  OBVIOUS
<1>2. /\ Awaits(t) /\ ~Committing(t) /\ c \in CallType /\ up \in Backends /\ c.by <= calls
      /\ UNCHANGED <<up, calls>>
  BY <1>1 DEF Execute, StoreOK, CallOK
<1>3. /\ call'[t].next = c.next + 1 /\ call'[t].rows = Effect(c.rows, s, c)
      /\ call'[t].op = c.op /\ call'[t].by = c.by /\ call'[t].ts = c.ts
      /\ \A u \in Tasks : u # t => call'[u] = call[u]
  BY <1>1, <1>2 DEF Execute, StoreOK, CallType
<1>4. \A rows \in SUBSET Row : \A r \in Effect(rows, s, c) : r \in rows \/ r.by = c.by
  BY <1>1, <1>2, EffectIs
<1>5. /\ \A r \in conn' : r \in conn \/ r.by = c.by
      /\ \A b \in Backends : \A r \in disk'[b] : r \in disk[b] \/ r.by = c.by
  <2>1. conn' \in {conn, Effect(conn, s, c)}
    BY <1>1 DEF Execute
  <2>2. disk' = disk \/ disk' = [disk EXCEPT ![up] = Effect(@, s, c)]
    BY <1>1 DEF Execute
  <2>3. conn \in SUBSET Row /\ disk \in [Backends -> SUBSET Row]
    BY DEF StoreOK
  <2>4. QED
    BY <1>2, <1>4, <2>1, <2>2, <2>3
<1>6. \A u \in Tasks : Awaits(u)' => Awaits(u) /\ call'[u].by = call[u].by /\ call'[u].op = call[u].op
  BY <1>1, <1>2, <1>3 DEF Awaits
<1>7. ASSUME NEW u \in Tasks, up = "mysql", Awaits(u), InTransaction(call[u]), NEW r \in disk'["mysql"]
      PROVE  r.by # call[u].by
  <2>1. CASE u = t
    <3>1. disk' = disk
      BY <1>1, <1>7, <2>1 DEF Execute
    <3>2. QED
      BY <1>7, <3>1 DEF Fresh
  <2>2. CASE u # t
    BY <1>1, <1>2, <1>5, <1>7, <2>2 DEF Fresh, Backends
  <2>3. QED
    BY <2>1, <2>2
<1>8. ASSUME NEW u \in Tasks PROVE RowsOfCall(u)'
  <2>1. RowsOfCall(u)
    BY DEF Fresh
  <2>2. CASE u # t
    BY <1>3, <2>1, <2>2, RowsOfOthers
  <2>3. CASE u = t
    <3>1. \A r \in c.rows : r.by = c.by
      BY <1>1, <1>2, <2>1, <2>3 DEF RowsOfCall
    <3>2. \A r \in call'[t].rows : r.by = c.by
      BY <1>2, <1>3, <1>4, <3>1 DEF CallType
    <3>3. ASSUME c.op = "insert_ap_stats"
          PROVE  /\ c.next + 1 \in 1..(Radios + 2)
                 /\ call'[t].rows = {PartRow(c, k) : k \in 0..(c.next - 1)}
      <4>1. /\ c.next \in 1..(Radios + 2) /\ c.rows = {PartRow(c, k) : k \in 0..(c.next - 2)}
            /\ Radios \in Nat
        BY <1>1, <1>2, <2>1, <2>3, <3>3, AgeAssumption DEF RowsOfCall, InTransaction
      <4>2. ~(c.next > Radios + 1)
        BY <1>1, <1>2, <3>3, StatementLengths DEF Committing
      <4>3. PICK k \in 0..Radios : k = c.next - 1
        BY <4>1, <4>2
      <4>4. call'[t].rows = c.rows \cup {PartRow(c, k)}
        <5>1. c.next = k + 1
          BY <4>1, <4>3
        <5>2. s = Statements[c.op][k + 1]
          BY <1>1, <5>1
        <5>3. Effect(c.rows, Statements[c.op][k + 1], c) = c.rows \cup {PartRow(c, k)}
          BY <3>3, PartStatement
        <5>4. QED
          BY <1>3, <5>2, <5>3
      <4>5. 0..(c.next - 1) = (0..(c.next - 2)) \cup {k}
        BY <4>1, <4>3
      <4>6. {PartRow(c, i) : i \in 0..(c.next - 1)} = {PartRow(c, i) : i \in 0..(c.next - 2)} \cup {PartRow(c, k)}
        BY <4>5
      <4>7. QED
        BY <4>1, <4>2, <4>4, <4>6
    <3>4. \A k : PartRow(c, k) = PartRow(call'[t], k)
      BY <1>3 DEF PartRow
    <3>5. c.op = "insert_ap_stats" =>
            /\ c.next + 1 \in 1..(Radios + 2)
            /\ call'[t].rows = {PartRow(call'[t], k) : k \in 0..((c.next + 1) - 2)}
      <4>1. (c.next + 1) - 2 = c.next - 1
        BY <1>2 DEF CallType
      <4>2. QED
        BY <3>3, <3>4, <4>1
    <3>6. QED
      BY <1>3, <2>3, <3>2, <3>5 DEF RowsOfCall, InTransaction, PartRow
  <2>4. QED
    BY <2>2, <2>3
<1>9. /\ \A b \in Backends : \A r \in disk'[b] : r.by <= calls
      /\ \A r \in conn' : r.by <= calls
      /\ \A u, v \in Tasks : u # v /\ Awaits(u)' /\ Awaits(v)' => call'[u].by # call'[v].by
  BY <1>2, <1>5, <1>6 DEF Fresh
<1>10. \A u \in Tasks : up' = "mysql" /\ Awaits(u)' /\ InTransaction(call'[u]) =>
         \A r \in disk'["mysql"] : r.by # call'[u].by
  BY <1>2, <1>6, <1>7 DEF InTransaction
<1>11. QED
  BY <1>2, <1>8, <1>9, <1>10 DEF Fresh, InTransaction

\* A commit puts on disk what the connection has, or the call's own rows.
LEMMA CommitBy ==
  ASSUME StoreOK, Fresh, NEW t \in Tasks, Awaits(t)
  PROVE  /\ \A b \in Backends : \A r \in Committed(call[t])[b] : r.by <= calls
         /\ up = "mysql" => \A r \in Committed(call[t])["mysql"] : r \in disk["mysql"] \/ r.by = call[t].by
<1>1. /\ up \in Backends /\ disk \in [Backends -> SUBSET Row] /\ call[t].by <= calls
      /\ \A r \in call[t].rows : r.by = call[t].by
  BY DEF StoreOK, CallOK, Fresh, RowsOfCall
<1>2. /\ \A b \in Backends : b # up => Committed(call[t])[b] = disk[b]
      /\ Committed(call[t])[up] \subseteq
           (IF up = "sqlite" THEN conn ELSE disk[up] \cup call[t].rows)
  BY <1>1 DEF Committed
<1>3. QED
  BY <1>1, <1>2 DEF Fresh, Backends

\* What the end of calls leaves: every one still in hand is as it was, and only a commit of
\* one that is not has put rows on disk.
LEMMA EndFresh ==
  ASSUME StoreOK, StoreOK', Fresh, NEW ended \in SUBSET Tasks,
         UNCHANGED <<up, calls>> \/ (up' = Off /\ calls' = calls),
         \A r \in conn' : r \in conn \/ \E b \in Backends : r \in disk[b],
         disk' = disk \/ \E t \in ended : Awaits(t) /\ disk' = Committed(call[t]),
         \A t \in ended : call'[t] = Idle,
         \A t \in Tasks \ ended : Awaits(t)' => /\ Awaits(t) /\ call'[t].by = call[t].by
                                              /\ call'[t].op = call[t].op /\ RowsOfCall(t)'
  PROVE  Fresh'
<1>1. /\ \A b \in Backends : \A r \in disk'[b] : r.by <= calls
      /\ \A r \in conn' : r.by <= calls
  BY CommitBy DEF Fresh
<1>2. \A t \in Tasks : RowsOfCall(t)'
  BY DEF RowsOfCall, Awaits
<1>3. \A t, u \in Tasks : t # u /\ Awaits(t)' /\ Awaits(u)' => call'[t].by # call'[u].by
  BY DEF Fresh, Awaits
<1>4. ASSUME NEW t \in Tasks, up' = "mysql", Awaits(t)', InTransaction(call'[t]),
             NEW r \in disk'["mysql"]
      PROVE  r.by # call'[t].by
  <2>1. t \notin ended /\ up = "mysql" /\ Awaits(t) /\ call'[t].by = call[t].by /\ InTransaction(call[t])
    BY <1>4, StoreOff DEF Awaits, InTransaction
  <2>2. CASE r \in disk["mysql"]
    BY <2>1, <2>2 DEF Fresh
  <2>3. CASE r \notin disk["mysql"]
    <3>1. PICK u \in ended : Awaits(u) /\ disk' = Committed(call[u])
      BY <1>4, <2>3
    <3>2. r.by = call[u].by
      BY <1>4, <2>1, <2>3, <3>1, CommitBy
    <3>3. QED
      BY <2>1, <3>1, <3>2 DEF Fresh
  <2>4. QED
    BY <2>2, <2>3
<1>5. calls' = calls
  OBVIOUS
<1>6. QED
  BY <1>1, <1>2, <1>3, <1>4, <1>5 DEF Fresh

\* Every step of the daemon keeps calls and their rows told apart.
LEMMA DaemonFresh ==
  ASSUME StoreOK, StoreOK', Fresh, [Next]_vars
  PROVE  Fresh'
<1>1. CASE UNCHANGED vars \/ Tick
  <2>1. UNCHANGED <<disk, up, conn, call, calls>>
    BY <1>1 DEF vars, Tick
  <2>2. \A t \in Tasks : RowsOfCall(t)'
    BY <2>1, RowsOfOthers DEF Fresh
  <2>3. QED
    BY <2>1, <2>2 DEF Fresh, Awaits, InTransaction
<1>2. ASSUME NEW t \in Tasks, NEW op \in Ops(t), Begin(t, op) PROVE Fresh'
  <2>1. /\ UNCHANGED <<disk, up, conn>> /\ calls \in Nat /\ calls' = calls + 1
        /\ call'[t].by = calls + 1 /\ call'[t].rows = {} /\ call'[t].next = 1
        /\ \A u \in Tasks : u # t => call'[u] = call[u]
    BY <1>2, BoundAssumption DEF Begin, StoreOK
  <2>2. \A u \in Tasks : u # t /\ Awaits(u)' => Awaits(u) /\ call[u].by \in Nat /\ call[u].by <= calls
    BY <2>1 DEF StoreOK, CallOK, CallType, Awaits
  <2>3. ASSUME NEW b \in Backends, NEW r \in disk[b] \cup conn
        PROVE  r.by \in Nat /\ r.by <= calls
    BY DEF StoreOK, Row, Fresh
  <2>4. ASSUME NEW u \in Tasks PROVE RowsOfCall(u)'
    <3>1. CASE u = t
      <4>1. Radios \in Nat /\ 0..(1 - 2) = {}
        BY AgeAssumption
      <4>2. PICK c : c = call'[t]
        OBVIOUS
      <4>3. c.rows = {PartRow(c, k) : k \in 0..(c.next - 2)}
        BY <2>1, <4>1, <4>2
      <4>4. QED
        BY <2>1, <3>1, <4>1, <4>2, <4>3 DEF RowsOfCall, PartRow
    <3>2. CASE u # t
      BY <2>1, <3>2, RowsOfOthers DEF Fresh
    <3>3. QED
      BY <3>1, <3>2
  <2>5. \A b \in Backends : (\A r \in disk'[b] : r.by <= calls') /\ \A r \in conn' : r.by <= calls'
    BY <2>1, <2>3
  <2>6. \A u, v \in Tasks : u # v /\ Awaits(u)' /\ Awaits(v)' => call'[u].by # call'[v].by
    BY <2>1, <2>2 DEF Fresh
  <2>7. ASSUME NEW u \in Tasks, up = "mysql", Awaits(u)', InTransaction(call'[u]), NEW r \in disk["mysql"]
        PROVE  r.by # call'[u].by
    <3>1. CASE u = t
      <4>1. r.by \in Nat /\ r.by <= calls
        BY <2>3, <2>7 DEF Backends
      <4>2. QED
        BY <2>1, <3>1, <4>1
    <3>2. CASE u # t
      BY <2>1, <2>2, <2>7, <3>2 DEF Fresh
    <3>3. QED
      BY <3>1, <3>2
  <2>8. QED
    BY <2>1, <2>4, <2>5, <2>6, <2>7 DEF Fresh, InTransaction, Backends
<1>3. ASSUME NEW t \in Tasks, Return(t) PROVE Fresh'
  <2>1. /\ Awaits(t) /\ UNCHANGED <<up, calls, conn>> /\ disk' = Committed(call[t])
        /\ \A u \in Tasks : call'[u] = IF u = t THEN Idle ELSE call[u]
    BY <1>3 DEF Return, Committing, StoreOK
  <2>2. PICK ended \in SUBSET Tasks : ended = {t}
    OBVIOUS
  <2>3. \A u \in Tasks \ ended : Awaits(u)' => /\ Awaits(u) /\ call'[u].by = call[u].by
                                             /\ call'[u].op = call[u].op /\ RowsOfCall(u)'
    BY <2>1, <2>2, RowsOfOthers DEF Fresh, Awaits
  <2>4. QED
    BY <2>1, <2>2, <2>3, EndFresh
<1>4. ASSUME NEW t \in Tasks, Fail(t) PROVE Fresh'
  <2>1. PICK ended \in SUBSET Tasks : ended = {t}
    OBVIOUS
  <2>2. /\ UNCHANGED <<up, calls>> /\ Awaits(t) /\ call'[t] = Idle /\ up \in Backends
    BY <1>4 DEF Fail, StoreOK, CallOK
  <2>3. /\ disk' = disk \/ disk' = Committed(call[t])
        /\ conn' = conn \/ conn' = disk[up]
    BY <1>4 DEF Fail
  <2>4. ASSUME NEW u \in Tasks \ ended, Awaits(u)'
        PROVE  /\ Awaits(u) /\ call'[u].by = call[u].by /\ call'[u].op = call[u].op /\ RowsOfCall(u)'
    <3>1. RowsOfCall(u)
      BY DEF Fresh
    <3>2. CASE up = "sqlite"
      <4>1. Awaits(u) /\ u # t
        BY <1>4, <2>1, <2>4, <3>2 DEF Fail, Awaits
      <4>2. PICK b : call'[u] = [call[u] EXCEPT !.undone = b]
        BY <1>4, <3>2, <4>1 DEF Fail, Awaits
      <4>3. PICK c, d : c = call[u] /\ d = call'[u]
        OBVIOUS
      <4>4. /\ d.by = c.by /\ d.op = c.op /\ d.ts = c.ts /\ d.next = c.next /\ d.rows = c.rows
        <5>1. c \in CallType
          BY <4>1, <4>3 DEF StoreOK, CallOK
        <5>2. QED
          BY <4>2, <4>3, <5>1 DEF CallType
      <4>5. RowsOfCall(u)'
        BY <3>1, <4>1, <4>3, <4>4 DEF RowsOfCall, InTransaction, PartRow
      <4>6. QED
        BY <4>1, <4>3, <4>4, <4>5
    <3>3. CASE up # "sqlite"
      <4>1. call'[u] = call[u]
        BY <1>4, <2>1, <3>3 DEF Fail, StoreOK
      <4>2. QED
        BY <2>4, <3>1, <4>1, RowsOfOthers DEF Awaits
    <3>4. QED
      BY <3>2, <3>3
  <2>5. QED
    BY <2>1, <2>2, <2>3, <2>4, EndFresh
<1>5. CASE \E t \in Tasks : Step(t)
  BY <1>2, <1>3, <1>4, <1>5, ExecuteFresh DEF Step
<1>6. CASE \E b \in Backends : Start(b)
  <2>1. /\ UNCHANGED <<disk, call, calls>> /\ \A t \in Tasks : ~Awaits(t)'
        /\ \A r \in conn' : \E b \in Backends : r \in disk[b]
    BY <1>6, NoCalls DEF Start, Awaits
  <2>2. QED
    BY <2>1 DEF Fresh, RowsOfCall
<1>7. CASE Stop \/ Crash
  <2>1. /\ up' = Off /\ calls' = calls /\ conn' = {} /\ \A t \in Tasks : call'[t] = Idle
    BY <1>7 DEF Stop, Crash, Down
  <2>2. disk' = disk \/ \E t \in Tasks : Awaits(t) /\ disk' = Committed(call[t])
    BY <1>7 DEF Stop, Crash, Committing, Tasks
  <2>3. QED
    BY <2>1, <2>2, EndFresh
<1>8. QED
  BY <1>1, <1>5, <1>6, <1>7 DEF Next, Daemon

\* A snapshot's commit puts the whole of it on MySQL's disk, and nothing else puts a part.
LEMMA CommitWhole ==
  ASSUME StoreOK, Fresh, up = "mysql", NEW t \in Tasks, Committing(t),
         NEW r \in Committed(call[t])["mysql"], r \notin disk["mysql"]
  PROVE  Cardinality({q \in Committed(call[t])["mysql"] : q.by = r.by}) = Radios + 1
<1>1. Awaits(t) /\ call[t] \in CallType /\ disk \in [Backends -> SUBSET Row] /\ RowsOfCall(t)
  BY DEF Committing, StoreOK, CallOK, Fresh
<1>2. /\ InTransaction(call[t])
      /\ Committed(call[t])["mysql"] = disk["mysql"] \cup call[t].rows
  BY <1>1 DEF Committed, Backends
<1>3. /\ \A q \in disk["mysql"] : q.by # call[t].by
      /\ \A q \in call[t].rows : q.by = call[t].by
  BY <1>1, <1>2 DEF Fresh, RowsOfCall
<1>4. call[t].rows = {PartRow(call[t], k) : k \in 0..Radios}
  <2>1. call[t].next > Radios + 1
    BY <1>2, StatementLengths DEF Committing, InTransaction
  <2>2. call[t].next \in 1..(Radios + 2) /\ Radios \in Nat
    BY <1>1, <1>2, AgeAssumption DEF RowsOfCall
  <2>3. call[t].next - 2 = Radios
    BY <2>1, <2>2
  <2>4. QED
    BY <1>1, <1>2, <2>3 DEF RowsOfCall
<1>5. {q \in Committed(call[t])["mysql"] : q.by = r.by} = call[t].rows
  BY <1>2, <1>3
<1>6. QED
  BY <1>4, <1>5, WholeSnapshot

\* "The UI never sees an AP snapshot with only half its radios": insert_ap_stats of
\* db_mysql.py, over failures, lost answers, crashes and the other task's writes.
THEOREM SnapshotsCorrect == MigrateSpec => MySqlSnapshotsWhole
<1>1. MigrateInit => Fresh
  <2> SUFFICES ASSUME MigrateInit PROVE Fresh
    OBVIOUS
  <2>1. disk = [b \in Backends |-> {}] /\ conn = {} /\ call = [u \in Tasks |-> Idle]
    BY DEF MigrateInit, Init
  <2>2. QED
    BY <2>1 DEF Fresh, RowsOfCall, Awaits
<1>2. TypeOK /\ TypeOK' /\ Fresh /\ [MigrateNext]_<<vars, tool, found>> => Fresh'
  <2> SUFFICES ASSUME TypeOK, TypeOK', Fresh, [MigrateNext]_<<vars, tool, found>> PROVE Fresh'
    OBVIOUS
  <2>1. CASE UNCHANGED <<vars, tool, found>> \/ DaemonStep
    BY <2>1, DaemonFresh DEF DaemonStep, TypeOK
  <2>2. CASE MigrateStep
    BY <2>2, ToolEffect, NoCalls DEF TypeOK, Fresh, RowsOfCall, Awaits
  <2>3. QED
    BY <2>1, <2>2 DEF MigrateNext
<1>3. TypeOK /\ TypeOK' /\ Fresh /\ [MigrateNext]_<<vars, tool, found>> => [AddsWhole("mysql")]_vars
  <2> SUFFICES ASSUME StoreOK, TypeOK, Fresh, [MigrateNext]_<<vars, tool, found>>, up = "mysql",
                      NEW r \in disk'["mysql"] \ disk["mysql"], r.table \in ApTables
               PROVE  Cardinality({q \in disk'["mysql"] : q.by = r.by}) = Radios + 1
    BY DEF AddsWhole, ApTables, TypeOK
  <2>1. PICK t \in Tasks : Step(t)
    <3>1. ~MigrateStep
      BY ToolEffect, StoreOff
    <3>2. ~UNCHANGED vars
      BY DEF vars
    <3>3. Next
      BY <3>1, <3>2 DEF MigrateNext, DaemonStep
    <3>4. ~(Stop \/ Crash \/ Tick \/ \E b \in Backends : Start(b))
      BY DEF Stop, Crash, Tick, Start
    <3>5. QED
      BY <3>3, <3>4 DEF Next, Daemon
  <2>2. ~Execute(t)
    <3> SUFFICES ASSUME Execute(t) PROVE FALSE
      OBVIOUS
    <3>1. PICK c, s : c = call[t] /\ s = Statements[c.op][c.next]
      OBVIOUS
    <3>2. disk' = [disk EXCEPT ![up] = Effect(@, s, c)] /\ ~InTransaction(c) /\ Awaits(t) /\ ~Committing(t)
      BY <3>1 DEF Execute
    <3>3. r \in Effect(disk["mysql"], s, c) /\ disk["mysql"] \in SUBSET Row
      BY <3>2 DEF StoreOK, Backends
    <3>4. r.table = s.table
      BY <3>1, <3>2, <3>3, EffectIs
    <3>5. s.table \notin ApTables
      <4>1. c \in CallType
        BY <3>1, <3>2 DEF StoreOK, CallOK
      <4>2. c.op \in DOMAIN Statements /\ Len(Statements[c.op]) \in Nat /\ c.next \in Nat \ {0}
        BY <4>1, StatementLengths DEF CallType
      <4>3. c.next \in 1..Len(Statements[c.op])
        BY <3>1, <3>2, <4>2 DEF Committing
      <4>4. QED
        BY <3>1, <3>2, <4>2, <4>3, StatementIs DEF InTransaction
    <3>6. QED
      BY <3>4, <3>5
  <2>3. Committing(t) /\ disk' = Committed(call[t])
    BY <2>1, <2>2 DEF Step, Begin, Return, Fail
  <2>4. QED
    BY <2>3, CommitWhole
<1>4. QED
  BY <1>1, <1>2, <1>3, StoreTypeCorrect, PTL DEF MigrateSpec, MySqlSnapshotsWhole

----------------------------------------------------------------------------
(* The migration.                                                          *)

Pending == {tool.left[i] : i \in 1..Len(tool.left)}

\* Where the tool is says what the target's tables hold: nothing yet of those that are to be
\* copied, the whole of the source in those that have been.
Along ==
  /\ Working => Len(tool.left) > 0 /\ \A i, j \in 1..Len(tool.left) : tool.left[i] = tool.left[j] => i = j
  /\ tool.at = "guard" => disk["mysql"] = found /\ tool.left = Tables
  /\ tool.at = "truncate" =>
       tool.replace /\ \A table \in TableSet \ Pending : RowsOf(disk["mysql"], table) = {}
  /\ tool.at = "copy" =>
       /\ ~tool.replace => found = {}
       /\ \A table \in TableSet :
            RowsOf(disk["mysql"], table) = IF table \in Pending THEN {} ELSE RowsOf(disk["sqlite"], table)

\* What taking the first table off the list leaves of it.
LEMMA NextTable ==
  ASSUME NEW s \in Seq(TableSet), Len(s) > 0, \A i, j \in 1..Len(s) : s[i] = s[j] => i = j
  PROVE  /\ Head(s) \in TableSet
         /\ Len(s) > 1 =>
              /\ Len(Tail(s)) > 0
              /\ \A i, j \in 1..Len(Tail(s)) : Tail(s)[i] = Tail(s)[j] => i = j
              /\ {Tail(s)[i] : i \in 1..Len(Tail(s))} = {s[i] : i \in 1..Len(s)} \ {Head(s)}
         /\ ~(Len(s) > 1) => {s[i] : i \in 1..Len(s)} = {Head(s)}
<1>1. Len(s) \in Nat /\ Head(s) = s[1] /\ \A i \in 1..Len(s) : s[i] \in TableSet
  OBVIOUS
<1>2. CASE Len(s) > 1
  <2>1. /\ Len(Tail(s)) = Len(s) - 1
        /\ \A i \in 1..(Len(s) - 1) : Tail(s)[i] = s[i + 1]
    BY <1>2, TailTables
  <2>2. \A i, j \in 1..(Len(s) - 1) : Tail(s)[i] = Tail(s)[j] => i = j
    <3> SUFFICES ASSUME NEW i \in 1..(Len(s) - 1), NEW j \in 1..(Len(s) - 1), Tail(s)[i] = Tail(s)[j]
                 PROVE  i = j
      OBVIOUS
    <3>1. i + 1 \in 1..Len(s) /\ j + 1 \in 1..Len(s) /\ s[i + 1] = s[j + 1]
      BY <1>1, <2>1
    <3>2. i + 1 = j + 1
      BY <3>1
    <3>3. QED
      BY <1>1, <3>2
  <2>3. {Tail(s)[i] : i \in 1..(Len(s) - 1)} \subseteq {s[i] : i \in 1..Len(s)} \ {s[1]}
    <3> SUFFICES ASSUME NEW i \in 1..(Len(s) - 1)
                 PROVE  Tail(s)[i] \in {s[k] : k \in 1..Len(s)} \ {s[1]}
      OBVIOUS
    <3>1. i + 1 \in 1..Len(s) /\ i + 1 # 1 /\ 1 \in 1..Len(s)
      BY <1>1, <1>2
    <3>2. QED
      BY <2>1, <3>1
  <2>4. {s[i] : i \in 1..Len(s)} \ {s[1]} \subseteq {Tail(s)[i] : i \in 1..(Len(s) - 1)}
    <3> SUFFICES ASSUME NEW i \in 1..Len(s), i # 1 PROVE s[i] \in {Tail(s)[k] : k \in 1..(Len(s) - 1)}
      OBVIOUS
    <3>1. i - 1 \in 1..(Len(s) - 1) /\ (i - 1) + 1 = i
      BY <1>1
    <3>2. QED
      BY <2>1, <3>1
  <2>5. QED
    BY <1>1, <1>2, <2>1, <2>2, <2>3, <2>4
<1>3. CASE ~(Len(s) > 1)
  <2>1. PICK n \in Nat : n = Len(s)
    BY <1>1
  <2>2. n = 1
    BY <1>3, <2>1
  <2>3. QED
    BY <1>1, <2>1, <2>2
<1>4. QED
  BY <1>2, <1>3

\* The list of every table.
LEMMA AllPending ==
  /\ Len(Tables) > 0 /\ \A i, j \in 1..Len(Tables) : Tables[i] = Tables[j] => i = j
  /\ {Tables[i] : i \in 1..Len(Tables)} = TableSet
<1>1. DOMAIN Tables = 1..Len(Tables)
  BY TableNames
<1>2. QED
  BY <1>1, TableNames DEF TableSet

\* The rows of a set are those of its tables.
LEMMA RowsByTable ==
  ASSUME NEW a \in SUBSET Row, NEW b \in SUBSET Row,
         \A table \in TableSet : RowsOf(a, table) = RowsOf(b, table)
  PROVE  a = b
<1>1. \A r \in a \cup b : r.table \in TableSet
  BY DEF Row
<1>2. \A r \in a \cup b : (r \in a <=> r \in RowsOf(a, r.table)) /\ (r \in b <=> r \in RowsOf(b, r.table))
  BY DEF RowsOf
<1>3. QED
  BY <1>1, <1>2

\* Every step of the tool leaves the tables as its place in the code says.
LEMMA MigrateAlong ==
  ASSUME TypeOK, TypeOK', Along, MigrateStep
  PROVE  Along'
<1>1. /\ disk \in [Backends -> SUBSET Row] /\ tool.left \in Seq(TableSet)
      /\ tool \in [at : {"off", "guard", "truncate", "copy", "done"}, replace : BOOLEAN,
                  left : Seq(TableSet)]
      /\ Copied = Tables
  BY DEF TypeOK, StoreOK, ToolOK, Copied
<1>2. CASE \E r \in BOOLEAN : Launch(r)
  <2>1. PICK r \in BOOLEAN : Launch(r)
    BY <1>2
  <2>2. tool'.at = "guard" /\ tool'.left = Tables /\ found' = disk["mysql"] /\ disk' = disk
    BY <1>1, <2>1 DEF Launch, vars
  <2>3. QED
    BY <2>2, AllPending DEF Along
<1>3. CASE Guard
  <2>1. /\ UNCHANGED <<disk, found>> /\ tool.at = "guard" /\ disk["mysql"] = found
        /\ tool'.left = Tables /\ tool'.replace = tool.replace /\ Pending' = TableSet
        /\ \/ tool'.at = "copy" /\ Occupied = {}
           \/ tool'.at = "truncate" /\ tool.replace
           \/ tool'.at = "off"
    <3>1. UNCHANGED <<disk, found>> /\ tool.at = "guard" /\ disk["mysql"] = found
      BY <1>3 DEF Guard, vars, Along
    <3>2. PICK where \in {"copy", "truncate", "off"} :
            /\ tool' = [tool EXCEPT !.at = where]
            /\ where = "copy" => Occupied = {}
            /\ where = "truncate" => tool.replace
      BY <1>3 DEF Guard
    <3>3. tool'.at = where /\ tool'.left = tool.left /\ tool'.replace = tool.replace
      BY <1>1, <3>2
    <3>4. tool.left = Tables
      BY <3>1 DEF Along
    <3>5. Pending' = TableSet
      BY <3>3, <3>4, AllPending DEF Pending
    <3>6. QED
      BY <3>1, <3>2, <3>3, <3>4, <3>5
  <2>2. Occupied = {} => \A table \in TableSet : RowsOf(disk["mysql"], table) = {}
    BY DEF Occupied
  <2>3. Occupied = {} => disk["mysql"] = {}
    <3>1. \A table \in TableSet : RowsOf({}, table) = {}
      BY DEF RowsOf
    <3>2. disk["mysql"] \in SUBSET Row /\ {} \in SUBSET Row
      BY <1>1 DEF Backends
    <3>3. PICK rows \in SUBSET Row : rows = disk["mysql"]
      BY <3>2
    <3>4. Occupied = {} => \A table \in TableSet : RowsOf(rows, table) = RowsOf({}, table)
      BY <2>2, <3>1, <3>3
    <3>5. Occupied = {} => rows = {}
      BY <3>2, <3>4, RowsByTable
    <3>6. QED
      BY <3>3, <3>5
  <2>4. QED
    BY <2>1, <2>2, <2>3, AllPending DEF Along, Working
<1>4. CASE Die
  BY <1>1, <1>4 DEF Die, Along, Working
<1>5. CASE Truncate \/ CopyTable
  <2>1. PICK table : table = Head(tool.left)
    OBVIOUS
  <2>2. Working /\ Len(tool.left) > 0
        /\ \A i, j \in 1..Len(tool.left) : tool.left[i] = tool.left[j] => i = j
    BY <1>5 DEF Truncate, CopyTable, Working, Along
  <2>3. /\ table \in TableSet
        /\ Len(tool.left) > 1 =>
             /\ Len(Tail(tool.left)) > 0
             /\ \A i, j \in 1..Len(Tail(tool.left)) : Tail(tool.left)[i] = Tail(tool.left)[j] => i = j
             /\ {Tail(tool.left)[i] : i \in 1..Len(Tail(tool.left))} = Pending \ {table}
        /\ ~(Len(tool.left) > 1) => Pending = {table}
    BY <1>1, <2>1, <2>2, NextTable DEF Pending
  <2>4. CASE Truncate
    <3>1. /\ tool.at = "truncate" /\ tool.replace
          /\ \A other \in TableSet \ Pending : RowsOf(disk["mysql"], other) = {}
      BY <2>4 DEF Truncate, Along
    <3>2. \A other \in TableSet : RowsOf(disk'["mysql"], other) =
                                  IF other = table THEN {} ELSE RowsOf(disk["mysql"], other)
      <4>1. disk'["mysql"] = disk["mysql"] \ RowsOf(disk["mysql"], table)
        BY <1>1, <2>1, <2>4 DEF Truncate, Backends
      <4>2. QED
        BY <4>1 DEF RowsOf
    <3>3. CASE Len(tool.left) > 1
      <4>1. tool'.at = "truncate" /\ tool'.replace = tool.replace /\ tool'.left = Tail(tool.left)
        BY <1>1, <2>4, <3>1, <3>3 DEF Truncate
      <4>2. Pending' = Pending \ {table}
        BY <2>3, <3>3, <4>1 DEF Pending
      <4>3. QED
        BY <2>3, <3>1, <3>2, <3>3, <4>1, <4>2 DEF Along
    <3>4. CASE ~(Len(tool.left) > 1)
      <4>1. tool'.at = "copy" /\ tool'.replace = tool.replace /\ tool'.left = Tables
        BY <1>1, <2>4, <3>4 DEF Truncate
      <4>2. Pending' = TableSet
        BY <4>1, AllPending DEF Pending
      <4>3. \A other \in TableSet : RowsOf(disk'["mysql"], other) = {}
        BY <2>3, <3>1, <3>2, <3>4
      <4>4. QED
        BY <3>1, <4>1, <4>2, <4>3, AllPending DEF Along
    <3>5. QED
      BY <3>3, <3>4
  <2>5. CASE CopyTable
    <3>1. /\ tool.at = "copy" /\ found' = found /\ (~tool.replace => found = {})
          /\ \A other \in TableSet :
               RowsOf(disk["mysql"], other) = IF other \in Pending THEN {} ELSE RowsOf(disk["sqlite"], other)
      BY <2>5 DEF CopyTable, Along
    <3>2. /\ disk'["sqlite"] = disk["sqlite"]
          /\ disk'["mysql"] = disk["mysql"] \cup RowsOf(disk["sqlite"], table)
      BY <1>1, <2>1, <2>5 DEF CopyTable, Backends
    <3>3. table \in Pending
      BY <1>1, <2>1, <2>2 DEF Pending
    <3>4. \A other \in TableSet : RowsOf(disk'["mysql"], other) =
                                  IF other \in Pending \ {table} THEN {} ELSE RowsOf(disk["sqlite"], other)
      <4> SUFFICES ASSUME NEW other \in TableSet
                   PROVE  RowsOf(disk'["mysql"], other) =
                            IF other \in Pending \ {table} THEN {} ELSE RowsOf(disk["sqlite"], other)
        OBVIOUS
      <4>1. CASE other = table
        <5>1. RowsOf(disk["mysql"], other) = {}
          BY <3>1, <3>3, <4>1
        <5>2. RowsOf(disk'["mysql"], other) = RowsOf(disk["mysql"], other) \cup RowsOf(disk["sqlite"], other)
          BY <3>2, <4>1 DEF RowsOf
        <5>3. QED
          BY <4>1, <5>1, <5>2
      <4>2. CASE other # table
        <5>1. RowsOf(disk'["mysql"], other) = RowsOf(disk["mysql"], other)
          BY <3>2, <4>2 DEF RowsOf
        <5>2. QED
          BY <3>1, <4>2, <5>1
      <4>3. QED
        BY <4>1, <4>2
    <3>5. PICK left : left = Tail(tool.left)
      OBVIOUS
    <3>6. \/ tool' = [tool EXCEPT !.at = "off"]
          \/ tool' = [tool EXCEPT !.at = "done"]
          \/ Len(tool.left) > 1 /\ tool' = [tool EXCEPT !.left = left]
      BY <2>5, <3>5 DEF CopyTable
    <3>7. CASE tool' = [tool EXCEPT !.at = "off"] \/ tool' = [tool EXCEPT !.at = "done"]
      <4>1. tool'.at \in {"off", "done"}
        BY <1>1, <3>7
      <4>2. QED
        BY <4>1 DEF Along, Working
    <3>8. CASE Len(tool.left) > 1 /\ tool' = [tool EXCEPT !.left = left]
      <4>1. tool'.at = "copy" /\ tool'.replace = tool.replace /\ tool'.left = left
        BY <1>1, <3>1, <3>8
      <4>2. Pending' = Pending \ {table}
        BY <2>3, <3>5, <3>8, <4>1 DEF Pending
      <4>3. /\ Len(left) > 0
            /\ \A i, j \in 1..Len(left) : left[i] = left[j] => i = j
        BY <2>3, <3>5, <3>8
      <4>4. \A other \in TableSet :
              RowsOf(disk'["mysql"], other) = IF other \in Pending' THEN {} ELSE RowsOf(disk'["sqlite"], other)
        BY <3>2, <3>4, <4>2
      <4>5. QED
        BY <3>1, <4>1, <4>3, <4>4 DEF Along
    <3>9. QED
      BY <3>6, <3>7, <3>8
  <2>6. QED
    BY <1>5, <2>4, <2>5
<1>6. QED
  BY <1>2, <1>3, <1>4, <1>5 DEF MigrateStep

\* The last table's copy ends with the target as the source is.
LEMMA DoneIsExact ==
  ASSUME TypeOK, TypeOK', Along, MigrateStep, tool.at # "done", tool'.at = "done"
  PROVE  disk'["mysql"] = disk'["sqlite"]
<1>1. /\ disk \in [Backends -> SUBSET Row] /\ tool.left \in Seq(TableSet)
      /\ tool \in [at : {"off", "guard", "truncate", "copy", "done"}, replace : BOOLEAN,
                  left : Seq(TableSet)]
  BY DEF TypeOK, StoreOK, ToolOK
<1>2. CopyTable
  <2>1. ~Guard /\ ~Die /\ ~\E r \in BOOLEAN : Launch(r)
    BY <1>1 DEF Guard, Die, Launch
  <2>2. ~Truncate
    <3> SUFFICES ASSUME Truncate PROVE FALSE
      OBVIOUS
    <3>1. PICK left : left = Tail(tool.left)
      OBVIOUS
    <3>2. tool' = [tool EXCEPT !.left = left] \/ tool' = [tool EXCEPT !.at = "copy", !.left = Copied]
      BY <3>1 DEF Truncate
    <3>3. QED
      BY <1>1, <3>2
  <2>3. QED
    BY <2>1, <2>2 DEF MigrateStep
<1>3. PICK left : left = Tail(tool.left)
  OBVIOUS
<1>4. ~(Len(tool.left) > 1)
  <2> SUFFICES ASSUME Len(tool.left) > 1 PROVE FALSE
    OBVIOUS
  <2>1. tool' = [tool EXCEPT !.at = "off"] \/ tool' = [tool EXCEPT !.left = left]
    BY <1>2, <1>3 DEF CopyTable
  <2>2. QED
    BY <1>1, <2>1
<1>5. PICK table : table = Head(tool.left)
  OBVIOUS
<1>6. table \in TableSet /\ Pending = {table}
  BY <1>1, <1>2, <1>4, <1>5, NextTable DEF Pending, Along, Working, CopyTable
<1>7. /\ disk'["sqlite"] = disk["sqlite"]
      /\ disk'["mysql"] = disk["mysql"] \cup RowsOf(disk["sqlite"], table)
  BY <1>1, <1>2, <1>5 DEF CopyTable, Backends
<1>8. \A other \in TableSet :
        RowsOf(disk["mysql"], other) = IF other = table THEN {} ELSE RowsOf(disk["sqlite"], other)
  BY <1>2, <1>6 DEF CopyTable, Along
<1>9. \A other \in TableSet : RowsOf(disk'["mysql"], other) = RowsOf(disk'["sqlite"], other)
  <2> SUFFICES ASSUME NEW other \in TableSet
               PROVE  RowsOf(disk'["mysql"], other) = RowsOf(disk'["sqlite"], other)
    OBVIOUS
  <2>1. CASE other = table
    <3>1. RowsOf(disk'["mysql"], other) = RowsOf(disk["mysql"], other) \cup RowsOf(disk["sqlite"], other)
      BY <1>7, <2>1 DEF RowsOf
    <3>2. QED
      BY <1>7, <1>8, <2>1, <3>1
  <2>2. CASE other # table
    <3>1. RowsOf(disk'["mysql"], other) = RowsOf(disk["mysql"], other)
      BY <1>7, <2>2 DEF RowsOf
    <3>2. QED
      BY <1>7, <1>8, <2>2, <3>1
  <2>3. QED
    BY <2>1, <2>2
<1>10. disk'["mysql"] \in SUBSET Row /\ disk'["sqlite"] \in SUBSET Row
  BY DEF TypeOK, StoreOK, Backends
<1>11. QED
  BY <1>9, <1>10, RowsByTable

\* migrate.py: "never interleave migrated rows into live data", and an exit code of 0 means
\* an exact copy, whatever the tool finds, is told, and died of before.
THEOREM MigrationCorrect == MigrateSpec => MigrationSound
<1> DEFINE Exact == tool.at # "done" /\ tool'.at = "done" => disk'["mysql"] = disk'["sqlite"]
<1>1. MigrateInit => Along
  BY DEF MigrateInit, NotStarted, Along, Working
<1>2. TypeOK /\ TypeOK' /\ Along /\ [MigrateNext]_<<vars, tool, found>> => Along'
  <2> SUFFICES ASSUME TypeOK, TypeOK', Along, [MigrateNext]_<<vars, tool, found>> PROVE Along'
    OBVIOUS
  <2>1. CASE UNCHANGED <<vars, tool, found>>
    BY <2>1 DEF vars, Along, Working, Pending
  <2>2. CASE DaemonStep
    BY <2>2 DEF DaemonStep, Along, Working
  <2>3. QED
    BY <2>1, <2>2, MigrateAlong DEF MigrateNext
<1>3. TypeOK /\ TypeOK' /\ Along /\ [MigrateNext]_<<vars, tool, found>> => [Exact]_<<vars, tool>>
  BY DoneIsExact DEF MigrateNext, DaemonStep
<1>4. Along => LiveDataKept
  BY DEF Along, LiveDataKept, Working
<1>5. QED
  BY <1>1, <1>2, <1>3, <1>4, StoreTypeCorrect, PTL DEF MigrateSpec, MigrationSound, MigrationExact
=============================================================================
