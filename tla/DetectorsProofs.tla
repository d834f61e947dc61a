--------------------------- MODULE DetectorsProofs ---------------------------
(***************************************************************************)
(* The two detectors flag a client exactly on what their last window of    *)
(* polls says, and quiet hours never loosen, for any samples,              *)
(* configurations and times of day.                                        *)
(***************************************************************************)
EXTENDS Detectors, FiniteSetTheorems, WellFoundedInduction, TLAPS

----------------------------------------------------------------------------
(* The Scorer: its window is the end of the samples it has been given.     *)

\* w holds the last entries of history h, as many as fit into n.
EndOf(w, h, n) ==
  /\ Len(w) = Lower(Len(h), n)
  /\ \A i \in 1..Len(w) : w[i] = h[Len(h) - Len(w) + i]

\* Every window of the Scorer is the end of what it was given since it was built.
WindowInv ==
  /\ cfg \in Configs
  /\ scored \in [Macs -> Seq(Samples)] /\ window \in [Macs -> Seq(Samples)]
  /\ \A m \in Macs : EndOf(window[m], scored[m], cfg.window)

\* Push: pushing an entry on both keeps a window the end of its history.
LEMMA PushKeepsEnd ==
  ASSUME NEW S, NEW w \in Seq(S), NEW h \in Seq(S), NEW x \in S, NEW n \in Nat,
         EndOf(w, h, n)
  PROVE  /\ Push(w, x, n) \in Seq(S)
         /\ EndOf(Push(w, x, n), Append(h, x), n)
<1> DEFINE all == Append(w, x)
<1> DEFINE g == Append(h, x)
<1>1. /\ all \in Seq(S) /\ Len(all) = Len(w) + 1
      /\ g \in Seq(S) /\ Len(g) = Len(h) + 1
      /\ Len(w) \in Nat /\ Len(h) \in Nat
      /\ all[Len(w) + 1] = x /\ g[Len(h) + 1] = x
  OBVIOUS
<1>2. /\ \A i \in 1..Len(w) : all[i] = w[i]
      /\ \A i \in 1..Len(h) : g[i] = h[i]
  OBVIOUS
<1>3. Len(w) <= Len(h) /\ Len(w) <= n
  BY <1>1 DEF EndOf, Lower
<1>4. Push(w, x, n) = IF Len(all) > n THEN SubSeq(all, Len(all) - n + 1, Len(all)) ELSE all
  BY DEF Push
<1> HIDE DEF all, g
<1>5. \A i \in 1..(Len(w) + 1) : all[i] = g[Len(h) - Len(w) + i]
  <2> TAKE i \in 1..(Len(w) + 1)
  <2>1. CASE i = Len(w) + 1
    BY <1>1, <2>1
  <2>2. CASE i \in 1..Len(w)
    <3>1. Len(h) - Len(w) + i \in 1..Len(h)
      BY <1>1, <1>3, <2>2
    <3>2. w[i] = h[Len(h) - Len(w) + i]
      BY <2>2 DEF EndOf
    <3> QED BY <1>2, <2>2, <3>1, <3>2
  <2> QED BY <1>1, <2>1, <2>2
<1>6. CASE Len(w) = n
  <2>1. Push(w, x, n) = SubSeq(all, 2, n + 1)
    BY <1>1, <1>4, <1>6
  <2>2. /\ SubSeq(all, 2, n + 1) \in Seq(S)
        /\ Len(SubSeq(all, 2, n + 1)) = n
        /\ \A i \in 1..n : SubSeq(all, 2, n + 1)[i] = all[i + 1]
    BY <1>1, <1>6
  <2>3. \A i \in 1..n : all[i + 1] = g[Len(g) - n + i]
    <3> TAKE i \in 1..n
    <3>1. i + 1 \in 1..(Len(w) + 1)
      BY <1>6
    <3>2. all[i + 1] = g[Len(h) - Len(w) + (i + 1)]
      BY <1>5, <3>1
    <3>3. Len(h) - Len(w) + (i + 1) = Len(g) - n + i
      BY <1>1, <1>6
    <3> QED BY <3>2, <3>3
  <2>4. EndOf(SubSeq(all, 2, n + 1), g, n)
    <3> DEFINE sub == SubSeq(all, 2, n + 1)
    <3>1. \A i \in 1..n : sub[i] = g[Len(g) - n + i]
      BY <2>2, <2>3
    <3>2. Lower(Len(g), n) = n
      BY <1>1, <1>3, <1>6 DEF Lower
    <3>3. Len(sub) = n
      BY <2>2
    <3> HIDE DEF sub
    <3>4. EndOf(sub, g, n)
      BY <3>1, <3>2, <3>3 DEF EndOf
    <3> QED BY <3>4 DEF sub
  <2> QED BY <1>1, <1>3, <1>6, <2>1, <2>2, <2>4 DEF g
<1>7. CASE Len(w) # n
  <2>1. Len(w) < n /\ Len(w) = Len(h)
    BY <1>1, <1>3, <1>7 DEF EndOf, Lower
  <2>2. Push(w, x, n) = all
    BY <1>1, <1>4, <2>1
  <2>3. \A i \in 1..Len(all) : all[i] = g[Len(g) - Len(all) + i]
    BY <1>1, <1>5, <2>1
  <2>4. EndOf(all, g, n)
    <3>1. Lower(Len(g), n) = Len(all)
      BY <1>1, <2>1 DEF Lower
    <3> QED BY <2>3, <3>1 DEF EndOf
  <2> QED BY <1>1, <2>2, <2>4 DEF g
<1> QED BY <1>6, <1>7

\* The type of a configuration's part that scoring reads.
LEMMA ConfigTypes ==
  ASSUME NEW c \in Configs
  PROVE  /\ c.window \in Nat
         /\ c.global \in Thresholds /\ c.override \in [Macs -> Thresholds]
         /\ c.quiet.tighter \in [Criteria -> Int \cup {Off}]
         /\ \E f \in Criteria : c.global[f] # Off
BY ConfigAssumption DEF ConfigType, QuietType

\* resolve_thresholds, apply_quiet_hours: a criterion that is on globally is on for
\* every client at every time.
LEMMA InForceActive ==
  ASSUME NEW c \in Configs, NEW m \in Macs, NEW t
  PROVE  \E f \in Criteria : InForce(c, m, t)[f] # Off
<1>1. PICK f \in Criteria : c.global[f] # Off
  BY ConfigTypes
<1>2. f \in Fields /\ f # "cu"
  BY DEF Criteria, Fields
<1>3. /\ c.global[f] \in Int \cup {Off} /\ c.override[m][f] \in Int \cup {Off}
      /\ c.quiet.tighter[f] \in Int \cup {Off}
  BY <1>2, ConfigTypes DEF Thresholds
<1>4. Resolve(c, m)[f] \in Int
  BY <1>1, <1>2, <1>3 DEF Resolve
<1>5. Tighten(Resolve(c, m), c.quiet.tighter)[f] \in Int
  BY <1>2, <1>3, <1>4 DEF Tighten, Lower, Higher
<1> QED BY <1>4, <1>5, OffAssumption DEF InForce

\* is_bad_state over a full window is a statement about the end of the history.
LEMMA BadWindow ==
  ASSUME NEW S, NEW w \in Seq(S), NEW h \in Seq(S), NEW n \in Nat, EndOf(w, h, n),
         NEW t, NEW radios, \E f \in Criteria : t[f] # Off
  PROVE  Full(w, n) /\ BadState(w, t, radios)
           <=> /\ n > 0 /\ Len(h) >= n
               /\ \A s \in LastOf(h, n) : BadSample(s, t, radios)
<1>1. Full(w, n) <=> Len(h) >= n
  BY DEF Full, EndOf, Lower
<1>2. ASSUME Len(h) >= n
      PROVE  (w # << >> <=> n > 0) /\ {w[i] : i \in DOMAIN w} = LastOf(h, n)
  <2>1. Len(w) = n /\ DOMAIN w = 1..n
    BY <1>2 DEF EndOf, Lower
  <2>2. \A i \in 1..n : w[i] = h[Len(h) - n + i] /\ Len(h) - n + i \in (Len(h) - n + 1)..Len(h)
    BY <1>2, <2>1 DEF EndOf
  <2>3. \A j \in (Len(h) - n + 1)..Len(h) : j - (Len(h) - n) \in 1..n /\ w[j - (Len(h) - n)] = h[j]
    BY <1>2, <2>1 DEF EndOf
  <2>4. w # << >> <=> n > 0
    BY <2>1
  <2>5. {w[i] : i \in DOMAIN w} \subseteq LastOf(h, n)
    BY <2>1, <2>2 DEF LastOf
  <2>6. LastOf(h, n) \subseteq {w[i] : i \in DOMAIN w}
    BY <2>1, <2>3 DEF LastOf
  <2> QED BY <2>4, <2>5, <2>6
<1>3. BadState(w, t, radios)
        <=> w # << >> /\ \A s \in {w[i] : i \in DOMAIN w} : BadSample(s, t, radios)
  BY DEF BadState
<1> QED BY <1>1, <1>2, <1>3

\* The window invariant survives a sample: the Scorer and the history take it, or
\* neither does.
LEMMA ScoreKeeps ==
  ASSUME WindowInv, NEW m \in Macs, NEW s \in Samples, Score(m, s)
  PROVE  WindowInv'
<1>1. cfg' = cfg /\ cfg.window \in Nat
  BY ConfigTypes DEF Score, WindowInv
<1>2. CASE m \in cfg.allow
  BY <1>1, <1>2 DEF Score, WindowInv
<1>3. CASE m \notin cfg.allow
  <2>1. /\ window' = [window EXCEPT ![m] = Push(window[m], s, cfg.window)]
        /\ scored' = [scored EXCEPT ![m] = Append(scored[m], s)]
    BY <1>3 DEF Score
  <2>2. /\ window[m] \in Seq(Samples) /\ scored[m] \in Seq(Samples)
        /\ EndOf(window[m], scored[m], cfg.window)
    BY DEF WindowInv
  <2>3. /\ Push(window[m], s, cfg.window) \in Seq(Samples)
        /\ EndOf(Push(window[m], s, cfg.window), Append(scored[m], s), cfg.window)
    BY <1>1, <2>2, PushKeepsEnd
  <2>4. Append(scored[m], s) \in Seq(Samples)
    BY <2>2
  <2>5. scored' \in [Macs -> Seq(Samples)] /\ window' \in [Macs -> Seq(Samples)]
    BY <2>1, <2>3, <2>4 DEF WindowInv
  <2>6. \A q \in Macs : EndOf(window'[q], scored'[q], cfg.window)
    BY <2>1, <2>3 DEF WindowInv
  <2> QED BY <1>1, <2>5, <2>6 DEF WindowInv
<1> QED BY <1>2, <1>3

\* A detector just built has seen nothing.
LEMMA NothingYet ==
  ASSUME NEW n \in Nat
  PROVE  /\ NoSample \in [Macs -> Seq(Samples)]
         /\ \A m \in Macs : EndOf(NoSample[m], NoSample[m], n)
BY DEF NoSample, EndOf, Lower

\* Every step keeps every window the end of its history.
LEMMA WindowStep == WindowInv /\ [Next]_vars => WindowInv'
<1> SUFFICES ASSUME WindowInv, [Next]_vars PROVE WindowInv'
  OBVIOUS
<1>1. ASSUME NEW m \in Macs, NEW s \in Samples, Score(m, s) PROVE WindowInv'
  BY <1>1, ScoreKeeps
<1>2. CASE WatchTraffic
  BY <1>2 DEF WatchTraffic, WindowInv
<1>3. CASE Tick
  BY <1>3 DEF Tick, detectors, observers, WindowInv
<1>4. ASSUME NEW c \in Configs, Reload(c) PROVE WindowInv'
  <2>1. cfg' = c /\ c.window \in Nat
    BY <1>4, ConfigTypes DEF Reload
  <2>2. CASE c.window # cfg.window
    BY <1>4, <2>1, <2>2, NothingYet DEF Reload, WindowInv
  <2>3. CASE c.window = cfg.window
    BY <1>4, <2>1, <2>3 DEF Reload, WindowInv
  <2> QED BY <2>2, <2>3
<1>5. CASE UNCHANGED vars
  BY <1>5 DEF vars, detectors, observers, WindowInv
<1> QED BY <1>1, <1>2, <1>3, <1>4, <1>5 DEF Next, Poll

\* The verdict of one step, from the invariant after it.
LEMMA FlagOfStep == WindowInv /\ WindowInv' /\ [Next]_vars => [FlagStep]_vars
<1> SUFFICES ASSUME WindowInv, WindowInv', Next PROVE FlagStep
  OBVIOUS
<1>1. ASSUME NEW m \in Macs, NEW s \in Samples, Score(m, s) PROVE FlagStep
  <2>1. client'.mac = m
    BY <1>1 DEF Score
  <2>2. CASE m \in cfg.allow
    BY <1>1, <2>1, <2>2 DEF Score, FlagStep
  <2>3. CASE m \notin cfg.allow
    <3>1. /\ window'[m] \in Seq(Samples) /\ scored'[m] \in Seq(Samples)
          /\ EndOf(window'[m], scored'[m], cfg.window) /\ cfg.window \in Nat
      BY <1>1, ConfigTypes DEF WindowInv, Score
    <3>2. \E f \in Criteria : InForce(cfg, m, minute)[f] # Off
      BY InForceActive DEF WindowInv
    <3>3. flag' = (/\ Full(window'[m], cfg.window)
                   /\ BadState(window'[m], InForce(cfg, m, minute), cfg.radios))
      BY <1>1, <2>3 DEF Score
    <3>4. Full(window'[m], cfg.window)
            /\ BadState(window'[m], InForce(cfg, m, minute), cfg.radios)
          <=> /\ cfg.window > 0 /\ Len(scored'[m]) >= cfg.window
              /\ \A q \in LastOf(scored'[m], cfg.window) :
                   BadSample(q, InForce(cfg, m, minute), cfg.radios)
      BY <3>1, <3>2, BadWindow
    <3> QED BY <2>1, <2>3, <3>3, <3>4 DEF FlagStep
  <2> QED BY <2>2, <2>3
<1>2. CASE WatchTraffic
  BY <1>2 DEF WatchTraffic, FlagStep, Scoring
<1>3. CASE Tick
  BY <1>3 DEF Tick, FlagStep, Scoring
<1>4. ASSUME NEW c \in Configs, Reload(c) PROVE FlagStep
  BY <1>4 DEF Reload, FlagStep, Scoring
<1> QED BY <1>1, <1>2, <1>3, <1>4 DEF Next, Poll

\* scorer.py ingest flags a client exactly if its last window of samples is bad by
\* the thresholds in force, whatever has been reloaded since they came.
THEOREM FlagCorrect == Spec => FlagExact
<1>1. Init => WindowInv
  <2> SUFFICES ASSUME Init PROVE WindowInv
    OBVIOUS
  <2>1. cfg \in Configs /\ cfg.window \in Nat /\ window = NoSample /\ scored = NoSample
    BY ConfigTypes DEF Init
  <2> QED BY <2>1, NothingYet DEF WindowInv
<1> QED BY <1>1, WindowStep, FlagOfStep, PTL DEF Spec, FlagExact

----------------------------------------------------------------------------
(* Quiet hours: the thresholds in force are never easier to meet than the  *)
(* client's own.                                                           *)

\* The clock is a minute of the day.
ClockInv == minute \in 0..(Day - 1)

\* Minutes counted around the clock.
LEMMA AroundTheClock ==
  ASSUME NEW x \in 0..(Day - 1), NEW y \in 0..(Day - 1)
  PROVE  (x - y) % Day = IF y <= x THEN x - y ELSE x - y + Day
BY DayAssumption

\* quiet_hours_active: a minute between start and end, counted around the clock, is one of
\* quiet hours, whether or not they pass midnight.
LEMMA QuietMinutes ==
  ASSUME NEW c \in Configs, NEW t \in 0..(Day - 1)
  PROVE  /\ c.quiet.on
         /\ MinutesFrom(c.quiet.start, t) < MinutesFrom(c.quiet.start, c.quiet.end)
         => QuietActive(c, t)
<1>1. c.quiet.start \in 0..(Day - 1) /\ c.quiet.end \in 0..(Day - 1)
  BY ConfigAssumption DEF ConfigType, QuietType
<1>2. /\ MinutesFrom(c.quiet.start, t) =
           IF c.quiet.start <= t THEN t - c.quiet.start ELSE t - c.quiet.start + Day
      /\ MinutesFrom(c.quiet.start, c.quiet.end) =
           IF c.quiet.start <= c.quiet.end
           THEN c.quiet.end - c.quiet.start ELSE c.quiet.end - c.quiet.start + Day
  BY <1>1, AroundTheClock DEF MinutesFrom
<1>3. QED
  BY <1>1, <1>2, DayAssumption DEF QuietActive

\* A sample that is bad by some thresholds is worse than each that is on.
LEMMA BadIsWorse ==
  ASSUME NEW s, NEW t, NEW radios, BadSample(s, t, radios), NEW f \in Criteria, t[f] # Off
  PROVE  Worse(s, f, t[f])
BY DEF BadSample, Worse, Criteria

\* What is worse than the stricter of two values is worse than each.
LEMMA WorseThanBoth ==
  ASSUME NEW s \in Samples, NEW f \in Criteria, NEW a \in Int, NEW b \in Int,
         Worse(s, f, IF f = "retry" THEN Higher(a, b) ELSE Lower(a, b))
  PROVE  Worse(s, f, a) /\ Worse(s, f, b)
<1>1. s.signal \in Int /\ s.rate \in Int /\ s.retry \in Int \cup {Off}
  BY SampleAssumption DEF SampleType
<1>2. CASE f = "signal"
  BY <1>1, <1>2 DEF Worse, Lower
<1>3. CASE f = "rate"
  BY <1>1, <1>3 DEF Worse, Lower
<1>4. CASE f = "retry"
  BY <1>1, <1>4 DEF Worse, Higher
<1>5. QED
  BY <1>2, <1>3, <1>4 DEF Criteria

\* A sample that is bad by the thresholds in force is worse than the client's own, and in
\* quiet hours than theirs.
LEMMA BadByBoth ==
  ASSUME NEW c \in Configs, NEW m \in Macs, NEW t, NEW s \in Samples, NEW f \in Criteria,
         BadSample(s, InForce(c, m, t), c.radios), Resolve(c, m)[f] # Off
  PROVE  /\ Worse(s, f, Resolve(c, m)[f])
         /\ QuietActive(c, t) /\ c.quiet.tighter[f] # Off => Worse(s, f, c.quiet.tighter[f])
<1> DEFINE own == Resolve(c, m)
           tighter == c.quiet.tighter
<1>1. f \in Fields /\ f # "cu"
  BY DEF Criteria, Fields
<1>2. own[f] \in Int /\ tighter[f] \in Int \cup {Off}
  <2>1. /\ c.global[f] \in Int \cup {Off} /\ c.override[m][f] \in Int \cup {Off}
        /\ tighter[f] \in Int \cup {Off}
    BY <1>1, ConfigTypes DEF Thresholds
  <2>2. QED
    BY <1>1, <2>1 DEF Resolve
<1>3. CASE QuietActive(c, t) /\ tighter[f] # Off
  <2>1. InForce(c, m, t)[f] = IF f = "retry" THEN Higher(own[f], tighter[f])
                                            ELSE Lower(own[f], tighter[f])
    BY <1>1, <1>2, <1>3, OffAssumption DEF InForce, Tighten
  <2>2. InForce(c, m, t)[f] # Off
    BY <1>2, <1>3, <2>1, OffAssumption DEF Higher, Lower
  <2>3. Worse(s, f, InForce(c, m, t)[f])
    BY <2>2, BadIsWorse
  <2>4. QED
    BY <1>2, <1>3, <2>1, <2>3, WorseThanBoth
<1>4. CASE ~(QuietActive(c, t) /\ tighter[f] # Off)
  <2>1. InForce(c, m, t)[f] = own[f]
    BY <1>1, <1>4 DEF InForce, Tighten
  <2>2. QED
    BY <1>4, <2>1, BadIsWorse
<1>5. QED
  BY <1>3, <1>4

\* Every step keeps the clock.
LEMMA ClockStep == ClockInv /\ [Next]_vars => ClockInv'
<1>1. ASSUME ClockInv PROVE (minute + 1) % Day \in 0..(Day - 1)
  BY <1>1, DayAssumption DEF ClockInv
<1>2. QED
  BY <1>1 DEF ClockInv, Next, Poll, Score, WatchTraffic, Tick, Reload, vars

\* A flag of one step, from the samples it rests on.
LEMMA QuietOfStep ==
  WindowInv /\ WindowInv' /\ ClockInv /\ [Next]_vars => [QuietStep]_vars
<1> SUFFICES ASSUME WindowInv, WindowInv', ClockInv, Next, Scoring, flag' PROVE QuietStep
  BY DEF QuietStep
<1>1. FlagStep
  <2>1. ~UNCHANGED vars
    BY DEF vars, Scoring
  <2>2. QED
    BY <2>1, FlagOfStep
<1>2. PICK m \in Macs, s \in Samples : Score(m, s)
  BY DEF Next, Poll, WatchTraffic, Tick, Reload, Scoring
<1>3. client'.mac = m /\ cfg \in Configs
  BY <1>2 DEF Score, WindowInv
<1>4. /\ cfg.window > 0 /\ Len(scored'[m]) >= cfg.window
      /\ \A q \in LastOf(scored'[m], cfg.window) :
           BadSample(q, InForce(cfg, m, minute), cfg.radios)
  BY <1>1, <1>3, Zenon DEF FlagStep
<1>5. LastOf(scored'[m], cfg.window) \subseteq Samples
  <2>1. scored'[m] \in Seq(Samples) /\ cfg.window \in Nat
    BY <1>3, ConfigTypes DEF WindowInv
  <2>2. QED
    BY <1>4, <2>1 DEF LastOf
<1>6. QED
  BY <1>3, <1>4, <1>5, BadByBoth, QuietMinutes DEF QuietStep, ClockInv

\* resolution.py: a flagged client is worse than its own thresholds, and in quiet hours also
\* than theirs, at every minute of the day and for hours that pass midnight.
THEOREM QuietCorrect == Spec => QuietOnlyTightens
<1>1. Init => WindowInv /\ ClockInv
  <2> SUFFICES ASSUME Init PROVE WindowInv /\ ClockInv
    OBVIOUS
  <2>1. cfg \in Configs /\ cfg.window \in Nat /\ window = NoSample /\ scored = NoSample
    BY ConfigTypes DEF Init
  <2> QED BY <2>1, NothingYet DEF Init, WindowInv, ClockInv
<1> QED BY <1>1, WindowStep, ClockStep, QuietOfStep, PTL DEF Spec, QuietOnlyTightens

----------------------------------------------------------------------------
(* Flatlines: the deltas an InactivityScorer keeps are the end of what its *)
(* totals rose by, back to the last flag, reset or gap.                    *)

\* d are the last differences of the totals t, at most w of them; and if they are fewer, they
\* go back to the first total, to a reset, or to the last flag, f totals ago.
Differences(d, t, f, w) ==
  /\ Len(d) <= w /\ Len(d) <= f /\ (Len(d) = 0 \/ Len(d) < Len(t))
  /\ \A i \in 1..Len(d) :
       /\ d[i] = t[Len(t) - Len(d) + i] - t[Len(t) - Len(d) + i - 1]
       /\ d[i] >= 0
  /\ \/ Len(d) = w \/ Len(d) = f \/ Len(d) + 1 >= Len(t)
     \/ t[Len(t) - Len(d) - 1] > t[Len(t) - Len(d)]

TrafficInv ==
  /\ cfg \in Configs
  /\ deltas \in [Macs -> Seq(Int)] /\ totals \in [Macs -> Seq(Nat)]
  /\ prev \in [Macs -> Nat \cup {Off}] /\ fresh \in [Macs -> Nat]
  /\ at = "scored" => client.mac \in Macs /\ client.sample \in Samples
  /\ \A m \in Macs :
       /\ totals[m] = << >> => prev[m] = Off
       /\ totals[m] # << >> => prev[m] = totals[m][Len(totals[m])]
       /\ Differences(deltas[m], totals[m], fresh[m], cfg.idleWindow)

\* A nonempty set of naturals has a least element.
LEMMA LeastNatural ==
  ASSUME NEW S \in SUBSET Nat, S # {}
  PROVE  \E n \in S : \A k \in S : n <= k
<1> DEFINE T == {1..n : n \in S}
<1>1. T \subseteq FiniteSubsetsOf(Nat) /\ T # {}
  <2>1. ASSUME NEW n \in S PROVE 1..n \in FiniteSubsetsOf(Nat)
    <3>1. IsFiniteSet(1..n) /\ 1..n \in SUBSET Nat
      BY FS_Interval
    <3>2. QED
      BY <3>1 DEF FiniteSubsetsOf
  <2>2. QED
    BY <2>1
<1>2. PICK x \in T : \A y \in T : <<y, x>> \notin StrictSubsetOrdering(Nat)
  BY <1>1, FS_StrictSubsetOrderingWellFounded, WFMin
<1>3. PICK n \in S : x = 1..n
  OBVIOUS
<1>4. ASSUME NEW k \in S, k < n PROVE FALSE
  <2>1. /\ 1..k \subseteq 1..n /\ n \in 1..n /\ n \notin 1..k
        /\ 1..k \in T /\ 1..n \in SUBSET Nat
    BY <1>4
  <2>2. <<1..k, 1..n>> \in StrictSubsetOrdering(Nat)
    BY <2>1 DEF StrictSubsetOrdering
  <2>3. QED
    BY <1>2, <1>3, <2>1, <2>2
<1>5. QED
  BY <1>4

\* sum(deltas): differences add up to what lies between the ends.
LEMMA SumTelescopes ==
  ASSUME NEW seq \in Seq(Int), NEW g \in [0..Len(seq) -> Int],
         \A i \in 1..Len(seq) : seq[i] = g[i] - g[i - 1]
  PROVE  SumOf(seq) = g[Len(seq)] - g[0]
<1> DEFINE n == Len(seq)
           Sums(f) == f = [i \in 0..n |-> IF i = 0 THEN 0 ELSE seq[i] + f[i - 1]]
           sum == CHOOSE f : Sums(f)
           rise == [i \in 0..n |-> g[i] - g[0]]
<1>1. n \in Nat
  OBVIOUS
<1>2. Sums(rise)
  <2>1. ASSUME NEW i \in 0..n
        PROVE  rise[i] = IF i = 0 THEN 0 ELSE seq[i] + rise[i - 1]
    <3>1. CASE i = 0
      <4>1. g[0] \in Int
        BY <1>1
      <4>2. rise[0] = g[0] - g[0]
        BY <1>1
      <4>3. QED
        BY <3>1, <4>1, <4>2
    <3>2. CASE i # 0
      <4>1. i \in 1..n /\ i - 1 \in 0..n /\ 0 \in 0..n
        BY <1>1, <3>2
      <4>2. g[i] \in Int /\ g[i - 1] \in Int /\ g[0] \in Int
        BY <4>1, Zenon
      <4>3. seq[i] = g[i] - g[i - 1] /\ rise[i] = g[i] - g[0] /\ rise[i - 1] = g[i - 1] - g[0]
        BY <4>1, Zenon
      <4>4. rise[i] = seq[i] + rise[i - 1]
        BY <4>2, <4>3
      <4>5. QED
        BY <3>2, <4>4, Zenon
    <3>3. QED
      BY <3>1, <3>2
  <2>2. QED
    BY <2>1
<1>3. SumOf(seq) = sum[n] /\ Sums(sum)
  <2>1. SumOf(seq) = sum[n]
    BY DEF SumOf
  <2> HIDE DEF Sums
  <2>2. QED
    BY <1>2, <2>1
<1>4. PICK f : f = sum
  OBVIOUS
<1>5. /\ f = [i \in 0..n |-> IF i = 0 THEN 0 ELSE seq[i] + f[i - 1]]
      /\ SumOf(seq) = f[n]
  BY <1>3, <1>4
<1> HIDE DEF Sums, sum, rise
<1>6. \A i \in 0..n : f[i] = g[i] - g[0]
  <2>1. SUFFICES ASSUME NEW c \in 0..n, f[c] # g[c] - g[0] PROVE FALSE
    OBVIOUS
  <2>2. PICK Wrong : Wrong = {i \in 0..n : f[i] # g[i] - g[0]}
    OBVIOUS
  <2>3. Wrong \in SUBSET Nat /\ Wrong # {}
    <3>1. 0..n \subseteq Nat
      BY <1>1
    <3>2. QED
      BY <2>1, <2>2, <3>1
  <2>4. PICK k \in Wrong : \A j \in Wrong : k <= j
    BY <2>3, LeastNatural
  <2>5. k \in 0..n /\ f[k] # g[k] - g[0]
    BY <2>2
  <2>6. CASE k = 0
    <3>1. f[0] = 0 /\ g[0] \in Int
      BY <1>1, <1>5
    <3>2. QED
      BY <2>5, <2>6, <3>1
  <2>7. CASE k # 0
    <3>1. k \in 1..n /\ k - 1 \in 0..n
      BY <1>1, <2>5, <2>7
    <3>2. g[k] \in Int /\ g[k - 1] \in Int /\ g[0] \in Int /\ seq[k] = g[k] - g[k - 1]
      <4>1. 0 \in 0..n
        BY <1>1
      <4>2. g[k] \in Int /\ g[k - 1] \in Int /\ g[0] \in Int
        <5>1. \A i \in 0..n : g[i] \in Int
          BY Zenon
        <5>2. k \in 0..n
          BY <2>5
        <5>3. QED
          BY <3>1, <4>1, <5>1, <5>2, Zenon
      <4>3. QED
        BY <3>1, <4>2
    <3>3. k - 1 \notin Wrong
      <4>1. k - 1 < k
        BY <3>1
      <4>2. QED
        BY <2>4, <3>1, <4>1
    <3>4. f[k - 1] = g[k - 1] - g[0]
      BY <2>2, <3>1, <3>3
    <3>5. f[k] = seq[k] + f[k - 1]
      BY <1>5, <2>5, <2>7
    <3>6. QED
      BY <2>5, <3>2, <3>4, <3>5
  <2>8. QED
    BY <2>6, <2>7
<1>7. QED
  BY <1>1, <1>5, <1>6
\* The last w steps of totals t fall nowhere and rise by less than a floor, all since the
\* last flag, f totals ago.
FlatStretch(t, f, w, floor) ==
  /\ Len(t) > w
  /\ \A i \in (Len(t) - w)..(Len(t) - 1) : t[i] <= t[i + 1]
  /\ t[Len(t)] - t[Len(t) - w] < floor
  /\ f >= w

\* A full window of little rise is a stretch of totals that rise by little.
LEMMA FlatIs ==
  ASSUME NEW d \in Seq(Int), NEW t \in Seq(Nat), NEW f \in Nat, NEW w \in Nat \ {0},
         NEW floor, Differences(d, t, f, w)
  PROVE  Full(d, w) /\ SumOf(d) < floor <=> FlatStretch(t, f, w, floor)
<1> DEFINE n == Len(t)
<1>1. Len(d) \in Nat /\ n \in Nat /\ \A i \in 1..n : t[i] \in Nat
  OBVIOUS
<1>2. ASSUME Len(t) > w, f >= w, \A i \in (Len(t) - w)..(Len(t) - 1) : t[i] <= t[i + 1]
      PROVE  Len(d) = w
  <2>1. SUFFICES ASSUME Len(d) < w PROVE FALSE
    BY <1>1 DEF Differences
  <2>2. t[n - Len(d) - 1] > t[n - Len(d)]
    BY <1>1, <1>2, <2>1 DEF Differences
  <2>3. /\ n - Len(d) - 1 \in (n - w)..(n - 1) /\ (n - Len(d) - 1) + 1 = n - Len(d)
        /\ n - Len(d) - 1 \in 1..n /\ n - Len(d) \in 1..n
    BY <1>1, <1>2, <2>1
  <2>4. t[n - Len(d) - 1] <= t[n - Len(d)]
    BY <1>2, <2>3
  <2>5. t[n - Len(d) - 1] \in Nat /\ t[n - Len(d)] \in Nat
    BY <1>1, <2>3, Zenon
  <2>6. PICK a \in Nat, b \in Nat : a > b /\ a <= b
    BY <2>2, <2>4, <2>5, Zenon
  <2>7. QED
    BY <2>6
<1>3. ASSUME Len(d) = w
      PROVE  /\ n > w /\ f >= w
             /\ \A i \in (n - w)..(n - 1) : t[i] <= t[i + 1]
             /\ SumOf(d) = t[n] - t[n - w]
  <2>1. n > w /\ f >= w
    BY <1>1, <1>3 DEF Differences
  <2>2. \A i \in 1..w : d[i] = t[n - w + i] - t[n - w + i - 1] /\ d[i] >= 0
    BY <1>3 DEF Differences
  <2>3. ASSUME NEW i \in (n - w)..(n - 1) PROVE t[i] <= t[i + 1]
    <3>1. /\ i - (n - w) + 1 \in 1..w /\ n - w + (i - (n - w) + 1) = i + 1
          /\ n - w + (i - (n - w) + 1) - 1 = i /\ i \in 1..n /\ i + 1 \in 1..n
      BY <1>1, <2>1
    <3>2. d[i - (n - w) + 1] = t[i + 1] - t[i] /\ d[i - (n - w) + 1] >= 0
      BY <2>2, <3>1
    <3>3. t[i] \in Nat /\ t[i + 1] \in Nat
      BY <1>1, <3>1
    <3>4. QED
      BY <3>2, <3>3
  <2>4. SumOf(d) = t[n] - t[n - w]
    <3>1. PICK g : g = [i \in 0..w |-> t[n - w + i]]
      OBVIOUS
    <3>2. \A i \in 0..w : n - w + i \in 1..n
      BY <1>1, <2>1
    <3>3. g \in [0..w -> Int]
      <4>1. ASSUME NEW i \in 0..w PROVE t[n - w + i] \in Int
        <5>1. PICK j \in 1..n : j = n - w + i
          BY <3>2
        <5>2. t[j] \in Nat
          BY <1>1
        <5>3. QED
          BY <5>1, <5>2
      <4>2. QED
        BY <3>1, <4>1, Zenon
    <3>4. ASSUME NEW i \in 1..w PROVE d[i] = g[i] - g[i - 1]
      <4>1. i \in 0..w /\ i - 1 \in 0..w /\ n - w + (i - 1) = n - w + i - 1
        BY <1>1
      <4>2. g[i] = t[n - w + i] /\ g[i - 1] = t[n - w + i - 1]
        BY <3>1, <4>1
      <4>3. QED
        BY <2>2, <4>2
    <3>5. SumOf(d) = g[w] - g[0]
      BY <1>3, <3>3, <3>4, SumTelescopes
    <3>6. /\ w \in 0..w /\ 0 \in 0..w /\ n - w + w = n /\ n - w + 0 = n - w
      BY <1>1
    <3>7. QED
      BY <3>1, <3>5, <3>6
  <2>5. QED
    BY <2>1, <2>3, <2>4
<1>4. Full(d, w) <=> Len(d) = w
  BY <1>1 DEF Full, Differences
<1>5. QED
  BY <1>2, <1>3, <1>4 DEF FlatStretch

\* Push: one more total, not below the last, is one more difference.
LEMMA PushDelta ==
  ASSUME NEW d \in Seq(Int), NEW t \in Seq(Nat), NEW f \in Nat, NEW w \in Nat \ {0},
         Differences(d, t, f, w), t # << >>, NEW x \in Nat, x >= t[Len(t)]
  PROVE  /\ Push(d, x - t[Len(t)], w) \in Seq(Int)
         /\ Differences(Push(d, x - t[Len(t)], w), Append(t, x), f + 1, w)
<1> DEFINE n == Len(t)
           delta == x - t[n]
           all == Append(d, delta)
           g == Append(t, x)
<1>1. /\ Len(d) \in Nat /\ n \in Nat \ {0} /\ t[n] \in Nat /\ delta \in Int /\ delta >= 0
      /\ Len(d) <= w /\ Len(d) <= f /\ Len(d) < n
  <2>1. Len(d) \in Nat /\ n \in Nat \ {0}
    OBVIOUS
  <2>2. t[n] \in Nat
    BY <2>1
  <2>3. delta \in Int /\ delta >= 0
    BY <2>2
  <2>4. Len(d) <= w /\ Len(d) <= f /\ (Len(d) = 0 \/ Len(d) < n)
    BY Zenon DEF Differences
  <2>5. QED
    BY <2>1, <2>2, <2>3, <2>4
<1>2. /\ all \in Seq(Int) /\ Len(all) = Len(d) + 1 /\ all[Len(d) + 1] = delta
      /\ \A i \in 1..Len(d) : all[i] = d[i]
  BY <1>1
<1>3. /\ g \in Seq(Nat) /\ Len(g) = n + 1 /\ g[n + 1] = x /\ \A i \in 1..n : g[i] = t[i]
  BY <1>1
<1>4. Push(d, delta, w) = IF Len(all) > w THEN SubSeq(all, Len(all) - w + 1, Len(all)) ELSE all
  BY DEF Push
<1>5. \A i \in 1..Len(d) : /\ d[i] = t[n - Len(d) + i] - t[n - Len(d) + i - 1]
                            /\ d[i] >= 0
  BY DEF Differences
<1>6. \/ Len(d) = w \/ Len(d) = f \/ Len(d) + 1 >= n
      \/ t[n - Len(d) - 1] > t[n - Len(d)]
  BY DEF Differences
<1>7. /\ Len(d) \in Nat /\ n \in Nat \ {0} /\ Len(all) = Len(d) + 1 /\ Len(g) = n + 1
      /\ Len(d) <= w /\ Len(d) <= f /\ Len(d) < n
  BY <1>1, <1>2, <1>3
<1> HIDE DEF n, delta, all, g
<1>8. ASSUME NEW i \in 1..(Len(d) + 1)
      PROVE  all[i] = g[n - Len(d) + i] - g[n - Len(d) + i - 1] /\ all[i] >= 0
  <2>1. CASE i = Len(d) + 1
    <3>1. n - Len(d) + i = n + 1 /\ n - Len(d) + i - 1 = n /\ n \in 1..n
      BY <1>7, <2>1
    <3>2. all[i] = delta /\ g[n + 1] = x /\ g[n] = t[n]
      BY <1>2, <1>3, <2>1, <3>1
    <3>3. QED
      BY <1>1, <3>1, <3>2 DEF delta
  <2>2. CASE i \in 1..Len(d)
    <3>1. n - Len(d) + i \in 1..n /\ n - Len(d) + i - 1 \in 1..n
      BY <1>7, <2>2
    <3>2. QED
      BY <1>2, <1>3, <1>5, <2>2, <3>1
  <2>3. QED
    BY <1>7, <2>1, <2>2
<1>9. CASE Len(d) = w
  <2>1. PICK e : e = SubSeq(all, 2, w + 1)
    OBVIOUS
  <2>2. Push(d, delta, w) = e
    BY <1>4, <1>7, <1>9, <2>1
  <2>3. e \in Seq(Int) /\ Len(e) = w /\ \A i \in 1..w : e[i] = all[i + 1]
    BY <1>2, <1>7, <1>9, <2>1
  <2>4. ASSUME NEW i \in 1..w
        PROVE  e[i] = g[Len(g) - w + i] - g[Len(g) - w + i - 1] /\ e[i] >= 0
    <3>1. /\ i + 1 \in 1..(Len(d) + 1) /\ n - Len(d) + (i + 1) = Len(g) - w + i
          /\ n - Len(d) + (i + 1) - 1 = Len(g) - w + i - 1
      BY <1>7, <1>9
    <3>2. all[i + 1] = g[n - Len(d) + (i + 1)] - g[n - Len(d) + (i + 1) - 1] /\ all[i + 1] >= 0
      BY <1>8, <3>1
    <3>3. QED
      BY <2>3, <3>1, <3>2
  <2>5. Len(e) <= f + 1 /\ Len(e) < Len(g)
    BY <1>7, <1>9, <2>3
  <2>6. Differences(e, g, f + 1, w)
    BY <2>3, <2>4, <2>5 DEF Differences
  <2>7. QED
    BY <2>2, <2>3, <2>6 DEF g, delta, n
<1>10. CASE Len(d) # w
  <2>1. Push(d, delta, w) = all
    BY <1>4, <1>7, <1>10
  <2>2. ASSUME NEW i \in 1..Len(all)
        PROVE  all[i] = g[Len(g) - Len(all) + i] - g[Len(g) - Len(all) + i - 1] /\ all[i] >= 0
    <3>1. /\ i \in 1..(Len(d) + 1) /\ n - Len(d) + i = Len(g) - Len(all) + i
          /\ n - Len(d) + i - 1 = Len(g) - Len(all) + i - 1
      BY <1>7
    <3>2. all[i] = g[n - Len(d) + i] - g[n - Len(d) + i - 1] /\ all[i] >= 0
      BY <1>8, <3>1
    <3>3. QED
      BY <3>1, <3>2
  <2>3. \/ Len(all) = f + 1 \/ Len(all) + 1 >= Len(g)
        \/ g[Len(g) - Len(all) - 1] > g[Len(g) - Len(all)]
    <3>1. CASE t[n - Len(d) - 1] > t[n - Len(d)] /\ ~(Len(d) + 1 >= n)
      <4>1. /\ n - Len(d) - 1 \in 1..n /\ n - Len(d) \in 1..n
            /\ Len(g) - Len(all) = n - Len(d)
        BY <1>7, <3>1
      <4>2. g[n - Len(d) - 1] = t[n - Len(d) - 1] /\ g[n - Len(d)] = t[n - Len(d)]
        BY <1>3, <4>1
      <4>3. QED
        BY <3>1, <4>1, <4>2
    <3>2. CASE Len(d) = f \/ Len(d) + 1 >= n
      BY <1>7, <3>2
    <3>3. QED
      BY <1>6, <1>10, <3>1, <3>2 DEF n
  <2>4. Differences(all, g, f + 1, w)
    <3>1. Len(all) <= w /\ Len(all) <= f + 1 /\ Len(all) < Len(g)
      BY <1>7, <1>10
    <3>2. QED
      BY <2>2, <2>3, <3>1 DEF Differences
  <2>5. QED
    BY <1>2, <2>1, <2>4 DEF g, delta, n
<1>11. QED
  BY <1>9, <1>10

\* What an InactivityScorer watches with.
LEMMA IdleTypes ==
  ASSUME NEW c \in Configs
  PROVE  /\ c.idleWindow \in Nat /\ (c.idle => c.idleWindow \in Nat \ {0})
         /\ c.idle \in BOOLEAN
BY ConfigAssumption DEF ConfigType

\* A client whose totals have just begun, been reset or flagged has no differences.
LEMMA NoDifferences ==
  ASSUME NEW t \in Seq(Nat), NEW f \in Nat, NEW w \in Nat,
         f = 0 \/ Len(t) <= 1 \/ t[Len(t) - 1] > t[Len(t)]
  PROVE  Differences(<< >>, t, f, w)
<1>1. Len(<< >>) = 0 /\ Len(t) \in Nat /\ 0 + 1 = 1 /\ Len(t) - 0 - 1 = Len(t) - 1
      /\ Len(t) - 0 = Len(t)
  OBVIOUS
<1>2. QED
  BY <1>1 DEF Differences

\* An InactivityScorer just built, or a client just forgotten, has no totals.
LEMMA NothingWatched ==
  ASSUME NEW w \in Nat
  PROVE  << >> \in Seq(Int) /\ << >> \in Seq(Nat) /\ Differences(<< >>, << >>, 0, w)
<1>1. << >> \in Seq(Nat) /\ << >> \in Seq(Int) /\ 0 \in Nat
  OBVIOUS
<1>2. PICK t \in Seq(Nat), f \in Nat : t = << >> /\ f = 0
  BY <1>1
<1>3. Differences(<< >>, t, f, w)
  BY <1>2, NoDifferences
<1>4. QED
  BY <1>1, <1>2, <1>3

\* ingest of a known total: the verdict, and what is kept.
LEMMA IngestJudges ==
  ASSUME TrafficInv, NEW m \in Macs, NEW x \in Nat, cfg.idle, IngestTotal(m, x)
  PROVE  LET t == totals'[m]
         IN  /\ flag' <=> FlatStretch(t, fresh[m] + 1, cfg.idleWindow, cfg.minBytes)
             /\ deltas'[m] \in Seq(Int) /\ t \in Seq(Nat) /\ fresh'[m] \in Nat
             /\ t # << >> /\ prev'[m] = t[Len(t)] /\ prev'[m] \in Nat
             /\ Differences(deltas'[m], t, fresh'[m], cfg.idleWindow)
<1>1. PICK d, h, f, w : d = deltas[m] /\ h = totals[m] /\ f = fresh[m] /\ w = cfg.idleWindow
  OBVIOUS
<1>2. /\ d \in Seq(Int) /\ h \in Seq(Nat) /\ f \in Nat /\ w \in Nat \ {0}
      /\ Differences(d, h, f, w)
      /\ h = << >> => prev[m] = Off
      /\ h # << >> => prev[m] = h[Len(h)]
  BY <1>1, IdleTypes DEF TrafficInv
<1>3. PICK t : t = Append(h, x)
  OBVIOUS
<1>4. /\ t \in Seq(Nat) /\ Len(t) = Len(h) + 1 /\ Len(h) \in Nat /\ t[Len(t)] = x /\ t # << >>
      /\ \A i \in 1..Len(h) : t[i] = h[i]
  BY <1>2, <1>3
<1>5. /\ totals'[m] = t /\ prev'[m] = x
      /\ fresh'[m] = IF flag' THEN 0 ELSE f + 1
  BY <1>1, <1>3 DEF IngestTotal, TrafficInv
<1> DEFINE Flat == FlatStretch(t, f + 1, w, cfg.minBytes)
<1>6. CASE h = << >>
  <2>1. prev[m] = Off
    BY <1>2, <1>6
  <2>2. d = << >>
    BY <1>2, <1>6 DEF Differences
  <2>3. ~flag' /\ deltas'[m] = << >> /\ fresh'[m] = f + 1
    BY <1>1, <1>5, <2>1, <2>2 DEF IngestTotal
  <2>4. ~Flat
    BY <1>2, <1>4, <1>6 DEF FlatStretch
  <2>5. Differences(<< >>, t, f + 1, w)
    <3>1. f + 1 \in Nat /\ w \in Nat /\ Len(t) <= 1
      BY <1>2, <1>4, <1>6
    <3>2. QED
      BY <1>4, <3>1, NoDifferences
  <2>6. QED
    BY <1>1, <1>2, <1>4, <1>5, <2>3, <2>4, <2>5
<1>7. CASE h # << >> /\ x < h[Len(h)]
  <2>1. prev[m] # Off /\ CounterReset(prev[m], x)
    <3>1. h[Len(h)] \in Nat
      BY <1>2, <1>7
    <3>2. QED
      BY <1>2, <1>7, <3>1, OffAssumption DEF CounterReset
  <2>2. ~flag' /\ deltas'[m] = << >> /\ fresh'[m] = f + 1
    BY <1>1, <1>5, <2>1 DEF IngestTotal, TrafficInv
  <2>3. /\ Len(t) - 1 = Len(h) /\ Len(h) \in 1..Len(h)
        /\ t[Len(t) - 1] = h[Len(h)] /\ t[Len(t) - 1] \in Nat
    BY <1>2, <1>4, <1>7
  <2>4. ~Flat
    <3>1. SUFFICES ASSUME Flat PROVE FALSE
      OBVIOUS
    <3>2. Len(t) - 1 \in (Len(t) - w)..(Len(t) - 1) /\ (Len(t) - 1) + 1 = Len(t)
      BY <1>2, <1>4
    <3>3. t[Len(t) - 1] <= t[Len(t)]
      BY <3>1, <3>2 DEF FlatStretch
    <3>4. QED
      BY <1>4, <1>7, <2>3, <3>3
  <2>5. Differences(<< >>, t, f + 1, w)
    <3>1. t[Len(t) - 1] > t[Len(t)] /\ f + 1 \in Nat
      BY <1>2, <1>4, <1>7, <2>3
    <3>2. QED
      BY <1>2, <1>4, <3>1, NoDifferences
  <2>6. QED
    BY <1>1, <1>2, <1>4, <1>5, <2>2, <2>4, <2>5
<1>8. CASE h # << >> /\ x >= h[Len(h)]
  <2>1. h[Len(h)] \in Nat /\ prev[m] = h[Len(h)] /\ prev[m] # Off /\ ~CounterReset(prev[m], x)
    <3>1. h[Len(h)] \in Nat
      BY <1>2, <1>8
    <3>2. QED
      BY <1>2, <1>8, <3>1, OffAssumption DEF CounterReset
  <2>2. PICK e : e = Push(d, x - h[Len(h)], w)
    OBVIOUS
  <2>3. e \in Seq(Int) /\ Differences(e, t, f + 1, w)
    BY <1>2, <1>3, <1>8, <2>2, PushDelta
  <2>4. /\ flag' = (Full(e, w) /\ SumOf(e) < cfg.minBytes)
        /\ deltas'[m] = IF flag' THEN << >> ELSE e
    BY <1>1, <2>1, <2>2 DEF IngestTotal, AfterFlag, TrafficInv
  <2>5. flag' <=> Flat
    <3>1. Full(e, w) /\ SumOf(e) < cfg.minBytes <=> Flat
      <4>1. f + 1 \in Nat
        BY <1>2
      <4>2. QED
        BY <1>2, <1>4, <2>3, <4>1, FlatIs
    <3>2. QED
      BY <2>4, <3>1
  <2>6. Differences(deltas'[m], t, fresh'[m], w) /\ deltas'[m] \in Seq(Int) /\ fresh'[m] \in Nat
    <3>1. CASE flag'
      <4>1. Differences(<< >>, t, 0, w)
        BY <1>2, <1>4, NoDifferences
      <4>2. QED
        BY <1>5, <2>4, <3>1, <4>1
    <3>2. CASE ~flag'
      BY <1>2, <1>5, <2>3, <2>4, <3>2
    <3>3. QED
      BY <3>1, <3>2
  <2>7. QED
    BY <1>1, <1>4, <1>5, <2>5, <2>6
<1>9. QED
  <2>1. h # << >> => h[Len(h)] \in Nat
    BY <1>2
  <2>2. QED
    BY <1>6, <1>7, <1>8, <2>1

\* The turn of a client in the InactivityScorer keeps what is known of the totals.
LEMMA WatchKeeps ==
  ASSUME TrafficInv, WatchTraffic
  PROVE  TrafficInv'
<1>1. PICK m : m = client.mac
  OBVIOUS
<1>2. /\ m \in Macs /\ client.sample \in Samples /\ cfg' = cfg /\ cfg \in Configs
      /\ at' = "poll" /\ cfg.idleWindow \in Nat
  BY <1>1, IdleTypes DEF WatchTraffic, TrafficInv
<1>3. CASE ~Watched(m)
  <2>1. UNCHANGED <<deltas, totals, prev, fresh>>
    BY <1>1, <1>3 DEF WatchTraffic
  <2>2. QED
    BY <1>2, <2>1 DEF TrafficInv
<1>4. ASSUME NEW d, NEW t, NEW p, NEW f,
             /\ deltas' = [deltas EXCEPT ![m] = d] /\ totals' = [totals EXCEPT ![m] = t]
             /\ prev' = [prev EXCEPT ![m] = p] /\ fresh' = [fresh EXCEPT ![m] = f],
             d \in Seq(Int), t \in Seq(Nat), p \in Nat \cup {Off}, f \in Nat,
             t = << >> => p = Off, t # << >> => p = t[Len(t)],
             Differences(d, t, f, cfg.idleWindow)
      PROVE  TrafficInv'
  <2>1. /\ deltas' \in [Macs -> Seq(Int)] /\ totals' \in [Macs -> Seq(Nat)]
        /\ prev' \in [Macs -> Nat \cup {Off}] /\ fresh' \in [Macs -> Nat]
    BY <1>4 DEF TrafficInv
  <2>2. ASSUME NEW q \in Macs
        PROVE  /\ totals'[q] = << >> => prev'[q] = Off
               /\ totals'[q] # << >> => prev'[q] = totals'[q][Len(totals'[q])]
               /\ Differences(deltas'[q], totals'[q], fresh'[q], cfg.idleWindow)
    <3>1. CASE q = m
      <4>1. deltas'[q] = d /\ totals'[q] = t /\ prev'[q] = p /\ fresh'[q] = f
        BY <1>4, <3>1 DEF TrafficInv
      <4>2. QED
        BY <1>4, <4>1
    <3>2. CASE q # m
      <4>1. /\ deltas'[q] = deltas[q] /\ totals'[q] = totals[q] /\ prev'[q] = prev[q]
            /\ fresh'[q] = fresh[q]
        BY <1>4, <3>2 DEF TrafficInv
      <4>2. QED
        BY <4>1 DEF TrafficInv
    <3>3. QED
      BY <3>1, <3>2
  <2>3. QED
    BY <1>2, <2>1, <2>2 DEF TrafficInv
<1>5. CASE Watched(m) /\ client.sample.bytes = Off
  <2>1. Forget(m)
    BY <1>1, <1>5 DEF WatchTraffic
  <2>2. Differences(<< >>, << >>, 0, cfg.idleWindow)
    BY <1>2, NothingWatched
  <2>3. /\ deltas' = [deltas EXCEPT ![m] = << >>] /\ totals' = [totals EXCEPT ![m] = << >>]
        /\ prev' = [prev EXCEPT ![m] = Off] /\ fresh' = [fresh EXCEPT ![m] = 0]
    BY <2>1 DEF Forget
  <2>4. << >> \in Seq(Int) /\ << >> \in Seq(Nat) /\ Off \in Nat \cup {Off} /\ 0 \in Nat
    OBVIOUS
  <2>5. QED
    BY <1>4, <2>2, <2>3, <2>4, Zenon
<1>6. CASE Watched(m) /\ client.sample.bytes # Off
  <2>1. PICK x \in Nat : x = client.sample.bytes
    BY <1>2, <1>6, SampleAssumption DEF SampleType
  <2>2. IngestTotal(m, x) /\ cfg.idle
    BY <1>1, <1>6, <2>1 DEF WatchTraffic, Watched
  <2>3. /\ deltas'[m] \in Seq(Int) /\ totals'[m] \in Seq(Nat) /\ fresh'[m] \in Nat
        /\ totals'[m] # << >> /\ prev'[m] = totals'[m][Len(totals'[m])] /\ prev'[m] \in Nat
        /\ Differences(deltas'[m], totals'[m], fresh'[m], cfg.idleWindow)
    BY <1>2, <2>2, IngestJudges
  <2>4. PICK d, t, p, f : /\ deltas' = [deltas EXCEPT ![m] = d]
                          /\ totals' = [totals EXCEPT ![m] = t]
                          /\ prev' = [prev EXCEPT ![m] = p]
                          /\ fresh' = [fresh EXCEPT ![m] = f]
    <3>1. \E d : deltas' = [deltas EXCEPT ![m] = d]
      <4>1. deltas = [deltas EXCEPT ![m] = deltas[m]]
        BY DEF TrafficInv
      <4>2. QED
        BY <2>2, <4>1, Zenon DEF IngestTotal
    <3>2. QED
      BY <2>2, <3>1, Zenon DEF IngestTotal
  <2>5. deltas'[m] = d /\ totals'[m] = t /\ prev'[m] = p /\ fresh'[m] = f
    BY <1>2, <2>4 DEF TrafficInv
  <2>6. QED
    BY <1>4, <2>3, <2>4, <2>5
<1>7. QED
  BY <1>3, <1>5, <1>6

\* Every step keeps what is known of the totals; a reload that changes the window starts anew.
LEMMA TrafficStep == TrafficInv /\ [Next]_vars => TrafficInv'
<1> SUFFICES ASSUME TrafficInv, [Next]_vars PROVE TrafficInv'
  OBVIOUS
<1>1. ASSUME NEW m \in Macs, NEW s \in Samples, Score(m, s) PROVE TrafficInv'
  BY <1>1 DEF Score, TrafficInv
<1>2. CASE WatchTraffic
  BY <1>2, WatchKeeps
<1>3. CASE Tick
  BY <1>3 DEF Tick, detectors, observers, TrafficInv
<1>4. ASSUME NEW c \in Configs, Reload(c) PROVE TrafficInv'
  <2>1. cfg' = c /\ c.idleWindow \in Nat /\ UNCHANGED <<at, client>>
    BY <1>4, IdleTypes DEF Reload
  <2>2. CASE c.idleWindow # cfg.idleWindow
    <3>1. /\ prev' = [m \in Macs |-> Off] /\ deltas' = NoSample
          /\ totals' = NoSample /\ fresh' = [m \in Macs |-> 0]
      BY <1>4, <2>2 DEF Reload
    <3>2. Differences(<< >>, << >>, 0, c.idleWindow)
      BY <2>1, NothingWatched
    <3>3. QED
      BY <2>1, <3>1, <3>2, NothingWatched DEF NoSample, TrafficInv
  <2>3. CASE c.idleWindow = cfg.idleWindow
    BY <1>4, <2>1, <2>3 DEF Reload, TrafficInv
  <2>4. QED
    BY <2>2, <2>3
<1>5. CASE UNCHANGED vars
  BY <1>5 DEF vars, detectors, observers, TrafficInv
<1>6. QED
  BY <1>1, <1>2, <1>3, <1>4, <1>5 DEF Next, Poll

\* The verdict of one step.
LEMMA FlatlineOfStep == TrafficInv /\ [Next]_vars => [FlatlineStep]_vars
<1> SUFFICES ASSUME TrafficInv, Next, Watching, Watched(client.mac), client.sample.bytes # Off
             PROVE  FlatlineStep
  BY DEF FlatlineStep
<1>1. WatchTraffic
  BY DEF Next, Poll, Score, Tick, Reload, Watching
<1>2. client.mac \in Macs /\ client.sample \in Samples
  BY DEF TrafficInv, Watching
<1>3. PICK x \in Nat : x = client.sample.bytes
  BY <1>2, SampleAssumption DEF SampleType
<1>4. IngestTotal(client.mac, x) /\ cfg.idle
  BY <1>1, <1>3 DEF WatchTraffic, Watched
<1>5. flag' <=> FlatStretch(totals'[client.mac], fresh[client.mac] + 1, cfg.idleWindow,
                            cfg.minBytes)
  BY <1>2, <1>4, IngestJudges
<1>6. QED
  BY <1>5, Zenon DEF FlatlineStep, FlatStretch

\* inactivity.py ingest flags a watched client exactly on a window of totals that rose by less
\* than the floor since its last gap, reset or flag, whatever has been reloaded in between.
THEOREM FlatlineCorrect == Spec => FlatlineExact
<1>1. Init => TrafficInv
  <2> SUFFICES ASSUME Init PROVE TrafficInv
    OBVIOUS
  <2>1. /\ cfg \in Configs /\ cfg.idleWindow \in Nat /\ at = "poll"
        /\ deltas = NoSample /\ totals = NoSample /\ prev = [m \in Macs |-> Off]
        /\ fresh = [m \in Macs |-> 0]
    BY IdleTypes DEF Init
  <2>2. Differences(<< >>, << >>, 0, cfg.idleWindow)
    BY <2>1, NothingWatched
  <2>3. QED
    BY <2>1, <2>2, NothingWatched DEF NoSample, TrafficInv
<1>2. QED
  BY <1>1, TrafficStep, FlatlineOfStep, PTL DEF Spec, FlatlineExact

=============================================================================
