----------------------------- MODULE KickGates -----------------------------
(***************************************************************************)
(* The gates a kick passes before anything is sent: the per-MAC policy of  *)
(* backoff.py (escalating cooldown, hourly cap, daily cap, read from the   *)
(* kick_events ledger) and the limiter of rate_limit.py (global            *)
(* single-flight, per-AP cap, held in memory).  Both are pure: the caller  *)
(* passes the time.  A limit that is 0, or an empty schedule, is off.      *)
(***************************************************************************)
EXTENDS Integers, Sequences, FiniteSets

CONSTANTS
  Hour,   \* _HOUR_SECONDS, in clock units
  Day     \* _DAY_SECONDS, in clock units

ASSUME HourAssumption == Hour \in Nat \ {0}
ASSUME DayAssumption == Day \in Nat /\ Hour <= Day

\* _last_kick_at is None.
Never == -1

LargestRung(cooldowns) ==
  CHOOSE c \in {cooldowns[i] : i \in DOMAIN cooldowns} :
    \A i \in DOMAIN cooldowns : cooldowns[i] <= c

\* A slip: the ledger is read for the shortest window only.
LookbackOneHour(cooldowns) == Hour

\* How far back the ledger is read for one decision.
Lookback(cooldowns) ==
  IF cooldowns # << >> /\ LargestRung(cooldowns) > Day
  THEN LargestRung(cooldowns)
  ELSE Day

----------------------------------------------------------------------------
(* backoff.py.  recent maps each logical kick to its timestamp.            *)

Since(recent, t) == {k \in DOMAIN recent : recent[k] >= t}

CapReached(recent, now, cap, window) ==
  cap > 0 /\ Cardinality(Since(recent, now - window)) >= cap

\* A slip: the schedule never leaves its first rung.
CoolingDownFlat(recent, now, cooldowns) ==
  /\ cooldowns # << >>
  /\ \E k \in Since(recent, now - LargestRung(cooldowns)) :
       now - recent[k] < cooldowns[1]

\* The cooldown after n kicks in a row: past the end of the schedule, the last.
Rung(n, cooldowns) == IF n < Len(cooldowns) THEN n ELSE Len(cooldowns)

\* The trailing run of kicks within the longest cooldown picks the rung; the
\* newest of them has to be at least that old.
CoolingDown(recent, now, cooldowns) ==
  /\ cooldowns # << >>
  /\ LET run == Since(recent, now - LargestRung(cooldowns))
     IN  \E k \in run : now - recent[k] < cooldowns[Rung(Cardinality(run), cooldowns)]

BackoffAllows(recent, now, cooldowns, perHour, perDay) ==
  /\ ~CapReached(recent, now, perDay, Day)
  /\ ~CapReached(recent, now, perHour, Hour)
  /\ ~CoolingDown(recent, now, cooldowns)

----------------------------------------------------------------------------
(* rate_limit.py.  last is _last_kick_at, deq one AP's deque of times.     *)

GlobalClear(last, now, minGap) ==
  \/ minGap = 0
  \/ last = Never
  \/ now - last >= minGap

\* Times are appended in order, so dropping the expired prefix is dropping
\* as many entries from the left as there are expired ones.
Prune(deq, cutoff) ==
  SubSeq(deq, 1 + Cardinality({i \in DOMAIN deq : deq[i] < cutoff}), Len(deq))

\* A slip: one kick too many.
PerApClearOffByOne(deq, now, cap, window) ==
  cap = 0 \/ Len(Prune(deq, now - window)) <= cap

PerApClear(deq, now, cap, window) ==
  cap = 0 \/ Len(Prune(deq, now - window)) < cap

=============================================================================
