------------------------------- MODULE Views -------------------------------
(***************************************************************************)
(* The read model of the web page (wifi_shepard_ui/views.py): what each    *)
(* SELECT and the Python around it make of the daemon's tables.  A table   *)
(* maps the ids of its rows to the rows.  Names, signal figures and        *)
(* wording are left out.                                                   *)
(***************************************************************************)
EXTENDS Integers, Sequences, FiniteSets, FiniteSetsExt

CONSTANTS
  Cooldowns,     \* COOLDOWN_SECONDS
  Evaluating,    \* EVALUATING_WINDOW_SECONDS
  QuarantineAt,  \* QUARANTINE_AT_KICKS
  Hour,          \* 3600, in clock units
  Hours,         \* KICK_TREND_HOURS
  Week           \* 7 * 86400, in clock units

ASSUME LabelAssumption ==
  /\ Cooldowns \in Seq(Nat) /\ Cooldowns # << >>
  /\ Evaluating \in Nat /\ QuarantineAt \in Nat \ {0}
ASSUME WindowAssumption ==
  Hour \in Nat \ {0} /\ Hours \in Nat \ {0} /\ Week \in Nat /\ Hours * Hour <= Week

Never == -1
DayAgo(now) == now - Hours * Hour

\* A slip: a would-kick of a dry run counts.
AnyKicks(kicks, m) == {k \in DOMAIN kicks : kicks[k].mac = m}

\* WHERE dry_run = 0, one MAC: the fallback's row is one of them.
RealKicks(kicks, m) == {k \in DOMAIN kicks : kicks[k].mac = m /\ ~kicks[k].dry}

Newest(table, rows) == IF rows = {} THEN Never ELSE Max({table[k].ts : k \in rows})

DeriveState(n, last, now) ==
  LET rung == Cooldowns[IF n < Len(Cooldowns) THEN n ELSE Len(Cooldowns)] IN
  IF n >= QuarantineAt THEN "QUARANTINE"
  ELSE IF n = 0 \/ last = Never THEN "NORMAL"
  ELSE IF now - last < rung THEN "KICKED"
  ELSE IF now - last < rung + Evaluating THEN "EVALUATING"
  ELSE "NORMAL"

State(kicks, m, now) ==
  LET real == RealKicks(kicks, m)
  IN DeriveState(Cardinality(real), Newest(kicks, real), now)

MacsOf(table) == {table[k].mac : k \in DOMAIN table}

----------------------------------------------------------------------------
(* GET /devices                                                            *)

\* Real kicks per MAC: how many, and when the newest was.
KickCounts(kicks) ==
  [m \in {kicks[k].mac : k \in {i \in DOMAIN kicks : ~kicks[i].dry}} |->
     [n |-> Cardinality(RealKicks(kicks, m)), last |-> Newest(kicks, RealKicks(kicks, m))]]

LastSamples(samples) ==
  [m \in MacsOf(samples) |-> Newest(samples, {k \in DOMAIN samples : samples[k].mac = m})]

\* A slip: the newest row, a would-kick included.
NewestAny(kicks) == [m \in MacsOf(kicks) |-> Max(AnyKicks(kicks, m))]

\* MAX(id) of the real kicks: the row whose rationale the table shows.
NewestReal(kicks) ==
  [m \in DOMAIN KickCounts(kicks) |-> Max(RealKicks(kicks, m))]

At(f, m, default) == IF m \in DOMAIN f THEN f[m] ELSE default

\* list_devices puts the four answers together.
DeviceRows(counts, seen, why, allowlist, now) ==
  [m \in DOMAIN counts \cup DOMAIN seen |->
     LET k == At(counts, m, [n |-> 0, last |-> Never]) IN
     [n |-> k.n, last |-> k.last,
      event |-> Max({k.last, At(seen, m, Never)}),
      state |-> DeriveState(k.n, k.last, now),
      allowlisted |-> m \in allowlist,
      why |-> At(why, m, 0)]]

ListDevices(kicks, samples, allowlist, now) ==
  DeviceRows(KickCounts(kicks), LastSamples(samples), NewestReal(kicks), allowlist, now)

\* filter_devices: the state and kicked_within filters.
InState(rows, state) == {m \in DOMAIN rows : rows[m].state = state}
KickedWithin(rows, since) ==
  {m \in DOMAIN rows : rows[m].last # Never /\ rows[m].last > since}

----------------------------------------------------------------------------
(* GET /                                                                   *)

KicksSince(kicks, since) ==
  Cardinality({k \in DOMAIN kicks : ~kicks[k].dry /\ kicks[k].ts > since})

\* A slip: a kick of this very instant is one past the last bucket, and dropped.
BucketDropped(ts, now) == (ts - DayAgo(now)) \div Hour

\* A kick at or after now is clamped into the current hour.
Bucket(ts, now) == Min({(ts - DayAgo(now)) \div Hour, Hours - 1})

KicksByHour(kicks, now) ==
  [h \in 0..(Hours - 1) |->
     Cardinality({k \in DOMAIN kicks :
       /\ ~kicks[k].dry /\ kicks[k].ts > DayAgo(now)
       /\ Bucket(kicks[k].ts, now) = h})]

Quarantined(kicks, now) ==
  Cardinality({m \in MacsOf(kicks) :
    RealKicks(kicks, m) # {} /\ State(kicks, m, now) = "QUARANTINE"})

----------------------------------------------------------------------------
(* GET /devices/{mac}: one client, matched without regard to case.         *)

\* COLLATE NOCASE: canon is what the spellings of a MAC have in common.
Matching(table, m, canon) == {k \in DOMAIN table : canon[table[k].mac] = canon[m]}

\* The newest limit rows, the timeline's share of a table.
Timeline(table, rows, limit) ==
  {k \in rows : Cardinality({j \in rows : j > k}) < limit}

----------------------------------------------------------------------------
(* GET /dns                                                                *)

\* The newest heartbeat of each instance, by id.
SourceHealth(health) ==
  [s \in {health[k].source : k \in DOMAIN health} |->
     Max({k \in DOMAIN health : health[k].source = s})]

MaxTs(table) == Newest(table, DOMAIN table)

\* A slip: the newest standings, however old they are.
NearAlways(observations, obs, beat) ==
  UNION {observations[k].who : k \in {i \in DOMAIN observations : observations[i].ts = obs}}

\* dns_near_threshold, obs and beat the two MAX(ts) it has read: a heartbeat
\* newer than the newest standings says the current poll has none.
NearThreshold(observations, obs, beat) ==
  IF obs = Never \/ (beat # Never /\ obs < beat) THEN {}
  ELSE UNION {observations[k].who :
                k \in {i \in DOMAIN observations : observations[i].ts = obs}}
=============================================================================
