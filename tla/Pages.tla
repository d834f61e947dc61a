------------------------------- MODULE Pages -------------------------------
(***************************************************************************)
(* The web page reading the database the daemon writes (app.py, views.py): *)
(* a request is a sequence of SELECTs, each of them a snapshot of its own, *)
(* and between any two of them the daemon commits rows, finishes its       *)
(* migration or prunes.                                                    *)
(***************************************************************************)
EXTENDS Views, Functions

CONSTANTS
  Macs,        \* MAC addresses as backends and operators spell them
  NoMac,       \* "no client": the page is not about one
  Canon,       \* what a spelling is a spelling of
  Allowlist,   \* the allowlist config.yaml holds
  Sources,     \* how many Pi-hole instances are polled
  Limit,       \* device_history's limit
  MaxTime,     \* bound: the clock stops here
  MaxRows,     \* bound: the daemon writes at most this many kicks and samples
  MaxBeats     \* bound: no poll begins with this many rows in the DNS tables

ASSUME PagesAssumption ==
  /\ Canon \in [Macs -> Macs] /\ Allowlist \in SUBSET Macs
  /\ Sources \in Nat \ {0} /\ Limit \in Nat \ {0}
  /\ MaxTime \in Nat /\ MaxRows \in Nat /\ MaxBeats \in Nat

\* Which tables there are: none yet, those of an older daemon, which has neither
\* rationale nor DNS tables, or all of them.
Schemas == {"absent", "old", "current"}

VARIABLES
  now, schema,
  kicks, samples, health, observations,  \* the tables
  poll,                                  \* the DNS poll being persisted
  req                                    \* the request in progress, or the last one

\* Observers, read by the properties and by no action.
VARIABLES
  standing,   \* the contenders of the last DNS poll that was written whole
  lost,       \* what of the last one could not be written: "none", "all" or the "rest"
  calm        \* no DNS poll was being persisted since the request began

tables == <<kicks, samples, health, observations>>
observers == <<standing, lost, calm>>
vars == <<now, schema, tables, poll, req, observers>>

NoPoll == [stage |-> 0, who |-> {}]
Idle == [page |-> "none", step |-> 0, now |-> 0, mac |-> NoMac, got |-> << >>]

Init ==
  /\ now = 0 /\ schema \in {"absent", "old"}
  /\ kicks = << >> /\ samples = << >> /\ health = << >> /\ observations = << >>
  /\ poll = NoPoll /\ req = Idle
  /\ standing = {} /\ lost = "none" /\ calm = TRUE

----------------------------------------------------------------------------
(* The daemon.                                                             *)

Put(f, x, v) == [y \in DOMAIN f \cup {x} |-> IF y = x THEN v ELSE f[y]]

\* INSERT: a new row's id is above those of its table.  SQLite never gives the id of a
\* pruned row again; no page remembers one.
Insert(table, row) == Put(table, 1 + Max({0} \cup DOMAIN table), row)

\* DELETE ... WHERE ts < cutoff: the rows left keep their ids.
DeleteBefore(table, cutoff) ==
  Restrict(table, {k \in DOMAIN table : table[k].ts >= cutoff})

Rows(table) == Cardinality(DOMAIN table)

Room == Rows(kicks) + Rows(samples) < MaxRows

\* Between the two, the scan loop sleeps for at least a tick.
Tick ==
  /\ now < MaxTime /\ now' = now + 1
  /\ UNCHANGED <<schema, tables, poll, req, observers>>

\* Database.connect: the tables appear, the missing columns are added.
Migrate ==
  /\ schema # "current" /\ schema' = "current"
  /\ UNCHANGED <<now, tables, poll, req, observers>>

InsertSample(m) ==
  /\ schema # "absent" /\ Room
  /\ samples' = Insert(samples, [mac |-> m, ts |-> now])
  /\ UNCHANGED <<now, schema, kicks, health, observations, poll, req, observers>>

\* Rows of client_samples are pruned, those of kick_events never are.
PruneSamples ==
  /\ samples' = DeleteBefore(samples, now - Week)
  /\ UNCHANGED kicks

Prune ==
  /\ schema = "current" /\ samples # << >>
  /\ PruneSamples
  /\ UNCHANGED <<now, schema, health, observations, poll, req, observers>>

InsertKick(m, dry) ==
  /\ schema # "absent" /\ Room
  /\ kicks' = Insert(kicks, [mac |-> m, ts |-> now, dry |-> dry])
  /\ UNCHANGED <<now, schema, samples, health, observations, poll, req, observers>>

\* detector.observe has answered; C are the contenders of this poll.
PollDone(C) ==
  /\ schema = "current" /\ poll = NoPoll
  /\ Rows(health) + Rows(observations) < MaxBeats
  /\ \A k \in DOMAIN health : health[k].ts < now
  /\ \A k \in DOMAIN observations : observations[k].ts < now
  /\ poll' = [stage |-> 1, who |-> C] /\ calm' = (req.page # "dns")
  /\ UNCHANGED <<now, schema, tables, req, standing, lost>>

\* insert_dns_source_sample, once for each instance, in turn.
Heartbeat ==
  /\ poll.stage \in 1..Sources
  /\ health' = Insert(DeleteBefore(health, now - Week),
                      [source |-> poll.stage, ts |-> now])
  /\ poll' = [poll EXCEPT !.stage = @ + 1]
  /\ UNCHANGED <<now, schema, kicks, samples, observations, req, observers>>

\* insert_dns_thrash_observations: a poll without contenders writes nothing.
Observations ==
  /\ poll.stage = Sources + 1
  /\ observations' =
       IF poll.who = {} THEN observations
       ELSE Insert(DeleteBefore(observations, now - Week),
                   [ts |-> now, who |-> poll.who])
  /\ poll' = NoPoll /\ standing' = poll.who /\ lost' = "none"
  /\ UNCHANGED <<now, schema, kicks, samples, health, req, calm>>

\* A write fails: what is left of this poll is not persisted (_run_dns_thrash
\* logs it and goes on).
PersistFails ==
  /\ poll # NoPoll /\ poll' = NoPoll
  /\ lost' = IF poll.stage = 1 THEN "all" ELSE "rest"
  /\ UNCHANGED <<now, schema, tables, req, standing, calm>>

----------------------------------------------------------------------------
(* The page.                                                               *)

\* A slip: the header of a device is read before its timeline.
HeaderFirst ==
  [overview |-> <<"today", "week", "quarantined", "by_hour">>,
   devices  |-> <<"kicks", "samples", "why">>,
   device   |-> <<"real", "dry", "seen", "timeline_kicks", "timeline_samples">>,
   dns      |-> <<"health", "max_obs", "max_beat", "near">>]

\* The SELECTs of each page, in the order views.py makes them; the counts of
\* clients and access points on the overview are left out.
Queries ==
  [overview |-> <<"today", "week", "quarantined", "by_hour">>,
   devices  |-> <<"kicks", "samples", "why">>,
   device   |-> <<"timeline_kicks", "timeline_samples", "real", "dry", "seen">>,
   dns      |-> <<"health", "max_obs", "max_beat", "near">>]

Got(q) == req.got[q]

Answer(q) ==
  CASE q = "today" -> KicksSince(kicks, DayAgo(req.now))
    [] q = "week" -> KicksSince(kicks, req.now - Week)
    [] q = "quarantined" -> Quarantined(kicks, req.now)
    [] q = "by_hour" -> KicksByHour(kicks, req.now)
    [] q = "health" -> IF schema = "old" THEN << >> ELSE SourceHealth(health)
    [] q = "kicks" -> KickCounts(kicks)
    [] q = "samples" -> LastSamples(samples)
    [] q = "why" -> IF schema = "old" THEN << >> ELSE NewestReal(kicks)
    [] q = "timeline_kicks" -> Timeline(kicks, Matching(kicks, req.mac, Canon), Limit)
    [] q = "timeline_samples" ->
         {samples[k].ts : k \in Timeline(samples, Matching(samples, req.mac, Canon), Limit)}
    [] q = "real" -> {k \in Matching(kicks, req.mac, Canon) : ~kicks[k].dry}
    [] q = "dry" -> {k \in Matching(kicks, req.mac, Canon) : kicks[k].dry}
    [] q = "seen" -> Newest(samples, Matching(samples, req.mac, Canon))
    [] q = "max_obs" -> IF schema = "old" THEN Never ELSE MaxTs(observations)
    [] q = "max_beat" -> IF schema = "old" THEN Never ELSE MaxTs(health)
    [] q = "near" -> NearThreshold(observations, Got("max_obs"), Got("max_beat"))

Reading == req.page # "none" /\ req.step <= Len(Queries[req.page])

Finished(page) == req.page = page /\ req.step = Len(Queries[page]) + 1
Answered == \E page \in DOMAIN Queries : Finished(page)

\* time.time() is taken once, when the request begins.
Request(page, m) ==
  /\ req = Idle
  /\ m \in (IF page = "device" THEN Macs ELSE {NoMac})
  /\ req' = [page |-> page, step |-> 1, now |-> now, mac |-> m, got |-> << >>]
  /\ calm' = (page = "dns" => poll = NoPoll)
  /\ UNCHANGED <<now, schema, tables, poll, standing, lost>>

\* A table that is not there yet turns the whole page into the empty one
\* (_safe_read); a missing column or DNS table, one answer of it.
Select ==
  /\ Reading
  /\ IF schema = "absent"
     THEN req' = Idle
     ELSE LET q == Queries[req.page][req.step]
          IN req' = [req EXCEPT !.step = @ + 1, !.got = Put(@, q, Answer(q))]
  /\ UNCHANGED <<now, schema, tables, poll, observers>>

\* The rows are read: nothing the daemon does reaches this page any more.
Respond ==
  /\ Answered
  /\ req' = Idle /\ calm' = TRUE
  /\ UNCHANGED <<now, schema, tables, poll, standing, lost>>

Daemon ==
  \/ Migrate
  \/ \E m \in Macs : InsertSample(m)
  \/ Prune
  \/ \E m \in Macs, dry \in BOOLEAN : InsertKick(m, dry)
  \/ \E C \in SUBSET Macs : PollDone(C)
  \/ Heartbeat
  \/ Observations
  \/ PersistFails

Next ==
  \/ ~Answered /\ Tick
  \/ ~Answered /\ Daemon
  \/ \E page \in DOMAIN Queries, m \in Macs \cup {NoMac} : Request(page, m)
  \/ Select
  \/ Respond

Spec == Init /\ [][Next]_vars

----------------------------------------------------------------------------
(* What must hold.                                                         *)

\* overview(): the tiles are counted one SELECT after another while the daemon
\* commits, and still today's kicks are among the week's, and every one of them is
\* in the hourly trend.
TilesAddUp ==
  Finished("overview") =>
    /\ Got("today") <= Got("week")
    /\ Got("today") <= SumFunction(Got("by_hour"))

\* list_devices(): the reason shown for a client's last kick is that kick's or a
\* later one's, and a would-kick of a dry run is neither counted nor explained.
ReasonIsLastKicks ==
  Finished("devices") =>
    \A m \in DOMAIN Got("why") :
      LET k == Got("why")[m] IN
      /\ kicks[k].mac = m /\ ~kicks[k].dry
      /\ kicks[k].ts >= At(Got("kicks"), m, [n |-> 0, last |-> Never]).last

\* device_history() and device_summary(): the header, read last, covers what the
\* timeline shows, but for the samples a prune may have taken between the two.
HeaderCoversTimeline ==
  Finished("device") =>
    /\ Got("timeline_kicks") \subseteq Got("real") \cup Got("dry")
    /\ \A ts \in Got("timeline_samples") : ts >= now - Week => Got("seen") >= ts

\* views.py:263-266 and 515-517: over one state of the tables the overview, the
\* devices table with its filters and a device's header say the same, the header
\* for all spellings of the MAC together.
PagesAgree ==
  req = Idle =>
  LET rows == ListDevices(kicks, samples, Allowlist, now) IN
  /\ Quarantined(kicks, now) = Cardinality(InState(rows, "QUARANTINE"))
  /\ (KicksSince(kicks, DayAgo(now)) = 0) <=> (KickedWithin(rows, DayAgo(now)) = {})
  /\ \A m \in DOMAIN rows :
       LET same == {s \in DOMAIN rows : Canon[s] = Canon[m]}
           real == {k \in Matching(kicks, m, Canon) : ~kicks[k].dry}
       IN /\ Cardinality(real) = MapThenSumSet(LAMBDA s : rows[s].n, same)
          /\ Newest(kicks, real) = Max({rows[s].last : s \in same})

\* S are the contenders of the last poll, if that was written whole.  If not, they are
\* none once a heartbeat of it is in, however many contenders it had, and else what the
\* polls before it left: those of the last one written whole, or none.
AsWritten(S) ==
  /\ lost = "none" => S = standing
  /\ lost = "rest" => S = {}
  /\ lost = "all" => S \in {{}, standing}

\* dns_near_threshold(): with no poll being persisted meanwhile the page shows the
\* contenders of the last poll, and of an older one only if no row of the last could
\* be written.  (It shows none for a poll whose heartbeats alone were: views.py:746-751
\* takes that poll to have had none.)
StandingsCurrent == (Finished("dns") /\ calm) => AsWritten(Got("near"))

=============================================================================
