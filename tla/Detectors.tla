------------------------------ MODULE Detectors ------------------------------
(***************************************************************************)
(* The two detectors of a pipeline that keep a window per client: Scorer   *)
(* (scorer.py), a conjunction of radio criteria with per-client overrides  *)
(* and quiet hours (resolution.py), and InactivityScorer (inactivity.py),  *)
(* a flatline of byte counters; and how a reload changes them              *)
(* (pipeline.py).  What a flag leads to is Actor's.                        *)
(*                                                                         *)
(* A poll ingests one client after the other, first into the Scorer, then  *)
(* into the InactivityScorer.  Between the two the loop awaits only if the *)
(* first has flagged the client.                                           *)
(***************************************************************************)
EXTENDS Integers, Sequences, FiniteSets

CONSTANTS
  Macs,       \* clients
  Samples,    \* what a poll may report of a client
  Configs,    \* the configurations the daemon may be given
  Day,        \* clock minutes in a day
  Off,        \* None: a criterion that is not tested, a value not reported
  MaxPolls    \* bound: clients are polled at most this often in all

Criteria == {"signal", "rate", "retry"}
Fields == Criteria \cup {"cu"}
Thresholds == [Fields -> Int \cup {Off}]

SampleType ==
  [radio : STRING, cu : Nat, signal : Int, rate : Nat, retry : Nat \cup {Off},
   bytes : Nat \cup {Off}]

\* quiet hours are in force from start to end, both minutes of the day.
QuietType ==
  [on : BOOLEAN, start : 0..(Day - 1), end : 0..(Day - 1),
   tighter : [Criteria -> Int \cup {Off}]]

\* A loaded configuration: build_config insists on one criterion and, with inactivity
\* detection on, on a window for it.  It takes a scanner window of zero, which flags
\* nobody, and a negative one, which is left out: no deque can be built with it.
ConfigType ==
  {c \in [window : Nat, radios : SUBSET STRING, global : Thresholds,
          override : [Macs -> Thresholds], quiet : QuietType, allow : SUBSET Macs,
          idle : BOOLEAN, idleMacs : SUBSET Macs, idleWindow : Nat, minBytes : Nat] :
     /\ \E f \in Criteria : c.global[f] # Off
     /\ c.global["cu"] # Off
     /\ c.idle => c.idleWindow > 0}

ASSUME OffAssumption == Off \notin Int
ASSUME DayAssumption == Day \in Nat \ {0} /\ MaxPolls \in Nat
ASSUME SampleAssumption == Samples \subseteq SampleType
ASSUME ConfigAssumption == Configs \subseteq ConfigType

VARIABLES
  cfg,      \* the live configuration
  minute,   \* the wall clock, a minute of the day
  at,       \* "poll" or "scored": what comes next in run_once
  client,   \* the client in hand and its sample
  window,   \* Scorer._windows
  prev,     \* InactivityScorer._prev
  deltas,   \* InactivityScorer._windows
  flag      \* whether the detector that ran last flagged the client

\* Observers, read by the properties and by no action.
VARIABLES
  scored,   \* samples the Scorer has been given since it was built
  totals,   \* totals the InactivityScorer has been given since it was built
  fresh     \* how many of these since the client was last flagged as idle

detectors == <<window, prev, deltas>>
observers == <<scored, totals, fresh>>
vars == <<cfg, minute, at, client, detectors, flag, observers>>

NoSample == [m \in Macs |-> << >>]

----------------------------------------------------------------------------
(* The radio criteria.                                                     *)

\* resolve_thresholds: a value of the client's override replaces the global one.
Resolve(c, m) ==
  [f \in Fields |-> IF c.override[m][f] # Off THEN c.override[m][f] ELSE c.global[f]]

\* A slip: the end of quiet hours is not the next day's.
QuietUnwrapped(c, t) == c.quiet.on /\ c.quiet.start <= t /\ t < c.quiet.end

\* quiet_hours_active: from start, up to and without end, over midnight if end
\* comes first.
QuietActive(c, t) ==
  /\ c.quiet.on
  /\ IF c.quiet.start <= c.quiet.end
     THEN c.quiet.start <= t /\ t < c.quiet.end
     ELSE c.quiet.start <= t \/ t < c.quiet.end

\* What is harder to fall below, and what is harder to exceed.
Lower(a, b) == IF a <= b THEN a ELSE b
Higher(a, b) == IF a >= b THEN a ELSE b

\* apply_quiet_hours: an active criterion becomes the stricter of the two; one
\* that is off stays off.
Tighten(t, tighter) ==
  [f \in Fields |->
     IF f = "cu" \/ t[f] = Off \/ tighter[f] = Off THEN t[f]
     ELSE IF f = "retry" THEN Higher(t[f], tighter[f]) ELSE Lower(t[f], tighter[f])]

\* The criteria of is_bad_state on one sample.  A client that attempted no
\* transmission has no retry rate and is not bad.
BadSample(s, t, radios) ==
  /\ s.radio \in radios
  /\ s.cu >= t["cu"]
  /\ t["signal"] # Off => s.signal < t["signal"]
  /\ t["rate"] # Off => s.rate < t["rate"]
  /\ t["retry"] # Off => s.retry # Off /\ s.retry > t["retry"]

\* is_bad_state: without an active criterion nothing is bad.
BadState(samples, t, radios) ==
  /\ samples # << >>
  /\ \E f \in Criteria : t[f] # Off
  /\ \A i \in DOMAIN samples : BadSample(samples[i], t, radios)

\* The thresholds ingest tests against.
InForce(c, m, t) ==
  IF QuietActive(c, t) THEN Tighten(Resolve(c, m), c.quiet.tighter) ELSE Resolve(c, m)

\* A deque of at most n entries.
Push(seq, x, n) ==
  LET all == Append(seq, x)
  IN  IF Len(all) > n THEN SubSeq(all, Len(all) - n + 1, Len(all)) ELSE all

\* A slip: the window may lack one sample.
FullButOne(seq, n) == Len(seq) >= n - 1

Full(seq, n) == Len(seq) >= n

----------------------------------------------------------------------------
(* The actions.                                                            *)

Init ==
  /\ cfg \in Configs /\ minute \in 0..(Day - 1)
  /\ at = "poll" /\ client = [mac |-> CHOOSE m \in Macs : TRUE, sample |-> Off]
  /\ window = NoSample /\ deltas = NoSample /\ prev = [m \in Macs |-> Off]
  /\ flag = FALSE
  /\ scored = NoSample /\ totals = NoSample
  /\ fresh = [m \in Macs |-> 0]

\* Scorer.ingest: an allowlisted client is not even recorded.
Score(m, s) ==
  /\ at = "poll" /\ at' = "scored"
  /\ Len(scored[m]) < MaxPolls /\ Len(totals[m]) < MaxPolls
  /\ client' = [mac |-> m, sample |-> s]
  /\ IF m \in cfg.allow
     THEN flag' = FALSE /\ UNCHANGED <<window, scored>>
     ELSE /\ window' = [window EXCEPT ![m] = Push(@, s, cfg.window)]
          /\ scored' = [scored EXCEPT ![m] = Append(@, s)]
          /\ flag' = (/\ Full(window'[m], cfg.window)
                      /\ BadState(window'[m], InForce(cfg, m, minute), cfg.radios))
  /\ UNCHANGED <<cfg, minute, prev, deltas, totals, fresh>>

\* Only opted-in clients are watched for inactivity.
Watched(m) == cfg.idle /\ m \notin cfg.allow /\ m \in cfg.idleMacs

\* A slip: a counter that was reset counts as a small delta.
Dropped(before, total) == FALSE

\* A counter that went down was reset: the client came back.
CounterReset(before, total) == total < before

\* A flagged client accumulates a window from nothing.
AfterFlag(w) == << >>

SumOf(seq) ==
  LET sum[i \in 0..Len(seq)] == IF i = 0 THEN 0 ELSE seq[i] + sum[i - 1] IN sum[Len(seq)]

\* InactivityScorer.ingest of a client whose total is known.
IngestTotal(m, total) ==
  /\ prev' = [prev EXCEPT ![m] = total]
  /\ totals' = [totals EXCEPT ![m] = Append(@, total)]
  /\ IF prev[m] = Off
     THEN flag' = FALSE /\ UNCHANGED deltas
     ELSE IF CounterReset(prev[m], total)
     THEN flag' = FALSE /\ deltas' = [deltas EXCEPT ![m] = << >>]
     ELSE LET w == Push(deltas[m], total - prev[m], cfg.idleWindow)
              flat == Full(w, cfg.idleWindow) /\ SumOf(w) < cfg.minBytes
          IN  /\ flag' = flat
              /\ deltas' = [deltas EXCEPT ![m] = IF flat THEN AfterFlag(w) ELSE w]
  /\ fresh' = [fresh EXCEPT ![m] = IF flag' THEN 0 ELSE @ + 1]

\* A client that reports no counters starts again.
Forget(m) ==
  /\ flag' = FALSE
  /\ prev' = [prev EXCEPT ![m] = Off] /\ deltas' = [deltas EXCEPT ![m] = << >>]
  /\ totals' = [totals EXCEPT ![m] = << >>] /\ fresh' = [fresh EXCEPT ![m] = 0]

WatchTraffic ==
  /\ at = "scored" /\ at' = "poll"
  /\ IF ~Watched(client.mac)
     THEN flag' = FALSE /\ UNCHANGED <<prev, deltas, totals, fresh>>
     ELSE IF client.sample.bytes = Off THEN Forget(client.mac)
     ELSE IngestTotal(client.mac, client.sample.bytes)
  /\ UNCHANGED <<cfg, minute, client, window, scored>>

\* DetectionPipeline.update_config: a detector is built anew when its own window
\* changes, and keeps what it has otherwise.
Reload(c) ==
  /\ c # cfg
  /\ at = "poll" \/ flag
  /\ cfg' = c
  /\ IF c.window # cfg.window
     THEN window' = NoSample /\ scored' = NoSample
     ELSE UNCHANGED <<window, scored>>
  /\ IF c.idleWindow # cfg.idleWindow
     THEN /\ prev' = [m \in Macs |-> Off] /\ deltas' = NoSample
          /\ totals' = NoSample /\ fresh' = [m \in Macs |-> 0]
     ELSE UNCHANGED <<prev, deltas, totals, fresh>>
  /\ UNCHANGED <<minute, at, client, flag>>

Tick ==
  /\ at = "poll" \/ flag
  /\ minute' = (minute + 1) % Day
  /\ UNCHANGED <<cfg, at, client, detectors, flag, observers>>

Poll == WatchTraffic \/ \E m \in Macs, s \in Samples : Score(m, s)

Next == Poll \/ Tick \/ \E c \in Configs : Reload(c)

Spec == Init /\ [][Next]_vars

----------------------------------------------------------------------------
(* What must hold.                                                         *)

Scoring == at = "poll" /\ at' = "scored"
Watching == at = "scored" /\ at' = "poll"

\* The last n entries of a history, if it has them.
LastOf(seq, n) == {seq[i] : i \in (Len(seq) - n + 1)..Len(seq)}

\* What a poll's verdict says of the samples before it.
FlagStep ==
  Scoring =>
    LET m == client'.mac
        past == scored'[m]
    IN  flag' <=> /\ m \notin cfg.allow
                  /\ cfg.window > 0 /\ Len(past) >= cfg.window
                  /\ \A s \in LastOf(past, cfg.window) :
                       BadSample(s, InForce(cfg, m, minute), cfg.radios)

\* scorer.py ingest: a client that is not allowlisted is flagged exactly if its
\* last window_samples samples since the Scorer was built are all bad under the
\* thresholds now in force, over reloads, absences and stays on the allowlist.
FlagExact == [][FlagStep]_vars

\* A sample is worse than a value in one criterion.
Worse(s, f, value) ==
  CASE f = "signal" -> s.signal < value
    [] f = "rate" -> s.rate < value
    [] f = "retry" -> s.retry # Off /\ s.retry > value

MinutesFrom(start, t) == (t - start) % Day

\* What a flag says of the samples it rests on, in quiet hours and outside.
QuietStep ==
  Scoring /\ flag' =>
    LET m == client'.mac
        own == Resolve(cfg, m)
        quiet == /\ cfg.quiet.on
                 /\ MinutesFrom(cfg.quiet.start, minute)
                      < MinutesFrom(cfg.quiet.start, cfg.quiet.end)
    IN  \A s \in LastOf(scored'[m], cfg.window), f \in Criteria :
          own[f] # Off =>
            /\ Worse(s, f, own[f])
            /\ quiet /\ cfg.quiet.tighter[f] # Off => Worse(s, f, cfg.quiet.tighter[f])

\* ADR-0007 AC-6 and "quiet hours never loosen": a flagged client is worse than
\* its own threshold in every active criterion, and in the minutes counted from
\* start to end around the clock also worse than the quiet-hours one.
QuietOnlyTightens == [][QuietStep]_vars

\* What a verdict on a watched client says of its totals.
FlatlineStep ==
  Watching /\ Watched(client.mac) /\ client.sample.bytes # Off =>
    LET m == client.mac
        t == totals'[m]
        n == Len(t)
        w == cfg.idleWindow
    IN  flag' <=> /\ n > w
                  /\ \A i \in (n - w)..(n - 1) : t[i] <= t[i + 1]
                  /\ t[n] - t[n - w] < cfg.minBytes
                  /\ fresh[m] + 1 >= w

\* ADR-0010: a watched client is flagged exactly if its last window + 1 totals,
\* with no gap and no reset between them, rose by less than the floor, and a
\* whole window has passed since it was flagged before.
FlatlineExact == [][FlatlineStep]_vars

=============================================================================
