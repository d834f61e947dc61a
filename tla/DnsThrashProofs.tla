--------------------------- MODULE DnsThrashProofs ---------------------------
(***************************************************************************)
(* Proofs about DnsThrash, for any clients, domains, thresholds, instances *)
(* and bounds, and for either order in which an instance lists its queries.*)
(***************************************************************************)
EXTENDS DnsThrash, FiniteSetTheorems, TLAPS

----------------------------------------------------------------------------
(* A flagged client was over the threshold for a whole sustain period.     *)

Verdicts == Seq([at : Nat, over : SUBSET Macs])

\* m was over the threshold at poll i and at every poll since.
OverSince(m, i) ==
  i \in DOMAIN verdicts /\ \A j \in i..Len(verdicts) : m \in verdicts[j].over

\* The clock, the streaks and the configurations are what the verdicts are dated by: a
\* streak began at a poll, and has lasted since.
SustainInv ==
  /\ now \in Nat /\ polledAt \in Nat
  /\ cfg \in lived /\ used \in lived /\ lived \subseteq Configs
  /\ overSince \in [Macs -> Nat \cup {Never}]
  /\ flagged \subseteq Macs /\ verdicts \in Verdicts
  /\ \A m \in Macs : overSince[m] # Never =>
       \E i \in DOMAIN verdicts : OverSince(m, i) /\ verdicts[i].at = overSince[m]
  /\ \A m \in flagged : \E i \in DOMAIN verdicts, c \in lived :
       OverSince(m, i) /\ verdicts[i].at <= verdicts[Len(verdicts)].at - c.sustain

\* Before the first poll there is no streak.
LEMMA SustainInit == Init => SustainInv
BY ConfigAssumption DEF Init, SustainInv, Verdicts, Never

\* A poll that judges prolongs every streak by its own verdict, or ends it.
LEMMA EvaluateSustains ==
  ASSUME SustainInv, Evaluate
  PROVE  SustainInv'
<1>1. PICK over \in SUBSET Macs :
        /\ overSince' = [m \in Macs |-> Streak(m, m \in over)]
        /\ flagged' = {m \in over : polledAt - Streak(m, TRUE) >= used.sustain}
        /\ verdicts' = Append(verdicts, [at |-> polledAt, over |-> over])
        /\ UNCHANGED <<now, polledAt, cfg, used, lived>>
  BY DEF Evaluate, call
<1>2. PICK n \in Nat : n = Len(verdicts)
  BY DEF SustainInv, Verdicts
<1>3. /\ verdicts \in Verdicts /\ verdicts' \in Verdicts
      /\ Len(verdicts') = n + 1 /\ DOMAIN verdicts = 1..n /\ DOMAIN verdicts' = 1..(n + 1)
      /\ verdicts'[n + 1] = [at |-> polledAt, over |-> over]
      /\ \A i \in 1..n : verdicts'[i] = verdicts[i]
  BY <1>1, <1>2 DEF SustainInv, Verdicts
<1>4. polledAt \in Nat /\ overSince \in [Macs -> Nat \cup {Never}]
  BY DEF SustainInv
<1>5. overSince' \in [Macs -> Nat \cup {Never}]
  <2>1. \A m \in Macs : Streak(m, m \in over) \in Nat \cup {Never}
    BY <1>4 DEF Streak
  <2>2. QED
    BY <1>1, <2>1
<1>6. ASSUME NEW m \in Macs, overSince'[m] # Never
      PROVE  \E i \in DOMAIN verdicts' : OverSince(m, i)' /\ verdicts'[i].at = overSince'[m]
  <2>1. m \in over /\ overSince'[m] = IF overSince[m] = Never THEN polledAt ELSE overSince[m]
    BY <1>1, <1>6 DEF Streak
  <2>2. CASE overSince[m] = Never
    <3>1. OverSince(m, n + 1)'
      BY <1>2, <1>3, <2>1 DEF OverSince
    <3>2. QED
      BY <1>3, <2>1, <2>2, <3>1
  <2>3. CASE overSince[m] # Never
    <3>1. PICK i \in 1..n : OverSince(m, i) /\ verdicts[i].at = overSince[m]
      BY <1>3, <2>3 DEF SustainInv
    <3>2. \A j \in i..(n + 1) : j \in 1..n \/ j = n + 1
      BY <1>2, <3>1
    <3>3. \A j \in i..(n + 1) : m \in verdicts'[j].over
      BY <1>2, <1>3, <2>1, <3>1, <3>2 DEF OverSince
    <3>4. OverSince(m, i)'
      BY <1>3, <3>1, <3>3 DEF OverSince
    <3>5. QED
      BY <1>3, <2>1, <2>3, <3>1, <3>4
  <2>4. QED
    BY <2>2, <2>3
<1>7. ASSUME NEW m \in flagged'
      PROVE  \E i \in DOMAIN verdicts', c \in lived' :
               OverSince(m, i)' /\ verdicts'[i].at <= verdicts'[Len(verdicts')].at - c.sustain
  <2>1. PICK x : x = IF overSince[m] = Never THEN polledAt ELSE overSince[m]
    OBVIOUS
  <2>2. m \in over /\ overSince'[m] = x /\ polledAt - x >= used.sustain
    BY <1>1, <1>7, <2>1 DEF Streak
  <2>3. x \in Nat /\ overSince'[m] # Never
    BY <1>4, <2>1, <2>2 DEF Never
  <2>4. PICK i \in DOMAIN verdicts' : OverSince(m, i)' /\ verdicts'[i].at = overSince'[m]
    BY <1>6, <2>2, <2>3
  <2>5. PICK s \in Nat : s = used.sustain
    BY ConfigAssumption DEF SustainInv, ConfigType
  <2>6. x <= polledAt - s
    BY <1>4, <2>1, <2>2, <2>3, <2>5
  <2>7. used \in lived' /\ verdicts'[Len(verdicts')].at = polledAt
    BY <1>1, <1>3 DEF SustainInv
  <2>8. QED
    BY <2>2, <2>4, <2>5, <2>6, <2>7
<1>8. flagged' \subseteq Macs
  BY <1>1
<1>9. QED
  BY <1>1, <1>3, <1>5, <1>6, <1>7, <1>8 DEF SustainInv

\* Every step keeps the streaks dated by the verdicts; a reload only adds a configuration.
LEMMA SustainNext == SustainInv /\ [Next]_vars => SustainInv'
<1> SUFFICES ASSUME SustainInv, [Next]_vars PROVE SustainInv'
  OBVIOUS
<1>1. CASE Evaluate
  BY <1>1, EvaluateSustains
<1>2. ASSUME UNCHANGED <<overSince, flagged, verdicts>>, now' \in Nat, polledAt' \in Nat,
             cfg' \in lived', used' \in lived', lived' \subseteq Configs, lived \subseteq lived'
      PROVE  SustainInv'
  <2>1. \A m, i : OverSince(m, i)' <=> OverSince(m, i)
    BY <1>2 DEF OverSince
  <2>2. /\ \A m \in Macs : overSince[m] # Never =>
             \E i \in DOMAIN verdicts : OverSince(m, i) /\ verdicts[i].at = overSince[m]
        /\ \A m \in flagged : \E i \in DOMAIN verdicts, c \in lived :
             OverSince(m, i) /\ verdicts[i].at <= verdicts[Len(verdicts)].at - c.sustain
    BY DEF SustainInv
  <2>3. \A m \in flagged' : \E i \in DOMAIN verdicts', c \in lived' :
          OverSince(m, i)' /\ verdicts'[i].at <= verdicts'[Len(verdicts')].at - c.sustain
    BY <1>2, <2>1, <2>2
  <2>4. \A m \in Macs : overSince'[m] # Never =>
          \E i \in DOMAIN verdicts' : OverSince(m, i)' /\ verdicts'[i].at = overSince'[m]
    BY <1>2, <2>1, <2>2
  <2>5. overSince' \in [Macs -> Nat \cup {Never}] /\ flagged' \subseteq Macs /\ verdicts' \in Verdicts
    BY <1>2 DEF SustainInv
  <2>6. QED
    BY <1>2, <2>3, <2>4, <2>5 DEF SustainInv
<1>3. CASE UNCHANGED vars \/ ObserveRaises \/ EvaluateRaises \/ \E A \in SUBSET (1..Instances) : Snapshot(A)
  <2>1. UNCHANGED <<now, polledAt, cfg, used, lived, overSince, flagged, verdicts>>
    BY <1>3 DEF vars, call, detector, observers, ObserveRaises, EvaluateRaises, Snapshot
  <2>2. QED
    BY <1>2, <2>1 DEF SustainInv
<1>4. CASE \E K \in SUBSET Macs : Observe(K)
  <2>1. /\ used' = cfg /\ polledAt' = now
        /\ UNCHANGED <<now, cfg, lived, overSince, flagged, verdicts>>
    BY <1>4 DEF Observe, detector, observers
  <2>2. QED
    BY <1>2, <2>1 DEF SustainInv
<1>5. CASE Tick
  <2>1. now' = now + 1 /\ UNCHANGED <<polledAt, cfg, used, lived, overSince, flagged, verdicts>>
    BY <1>5 DEF Tick, call, detector, observers
  <2>2. QED
    BY <1>2, <2>1 DEF SustainInv
<1>6. CASE \E c \in Configs : Reload(c)
  <2>1. PICK c \in Configs : Reload(c)
    BY <1>6
  <2>2. /\ cfg' = c /\ lived' = lived \cup {c}
        /\ UNCHANGED <<now, polledAt, used, overSince, flagged, verdicts>>
    BY <2>1 DEF Reload, call, detector
  <2>3. QED
    BY <1>2, <2>2 DEF SustainInv
<1>7. CASE \E m \in Macs, d \in Domains, i \in 1..Instances : Query(m, d, i)
  <2>1. UNCHANGED <<now, polledAt, cfg, used, lived, overSince, flagged, verdicts>>
    BY <1>7 DEF Query, call, detector, observers
  <2>2. QED
    BY <1>2, <2>1 DEF SustainInv
<1>8. QED
  BY <1>1, <1>3, <1>4, <1>5, <1>6, <1>7 DEF Next, Poll

\* ADR-0011: a client is flagged only when it was over the threshold at a poll one sustain
\* period before the last and at every poll in between (DnsThrashDetector.observe).
THEOREM SustainCorrect == Spec => []SustainEarned
<1>1. SustainInv => SustainEarned
  BY DEF SustainInv, SustainEarned, OverSince
<1>2. QED
  BY <1>1, SustainInit, SustainNext, PTL DEF Spec

----------------------------------------------------------------------------
(* Every query is counted, and by two polls at most.                       *)

LogRows == [mac : Macs, domain : Domains, inst : 1..Instances, ts : Nat]
Logs == Seq(LogRows)

\* Between two polls lies a second at least.
ClockInv ==
  /\ at \in {"idle", "fetch", "reply"}
  /\ ended \in Int /\ ended <= now /\ polledAt <= now
  /\ at # "idle" => ended + Second <= polledAt
  /\ lastPoll \in Nat \cup {Never} /\ (lastPoll # Never => lastPoll <= ended)

LogInv == log \in Logs /\ \A q \in DOMAIN log : log[q].ts <= now

\* What is counted was logged before the last poll ended.
EntryInv ==
  /\ counts \in [Macs -> [Domains -> SUBSET [query : Nat, poll : Nat]]]
  /\ \A m \in Macs : \A d \in Domains : \A e \in counts[m][d] :
       /\ e.query \in DOMAIN log /\ log[e.query].ts <= ended
       /\ lastPoll # Never /\ e.poll <= lastPoll

\* Only what the next poll will not see again may have been counted by two polls.
ByPolls(m, q, p, r) ==
  \A d \in Domains : \A e \in counts[m][d] : e.query = q => e.poll = p \/ e.poll = r

TwiceInv ==
  \A m \in Macs : \A q \in DOMAIN log :
    /\ \E p, r \in Nat : ByPolls(m, q, p, r)
    /\ log[q].ts >= Whole(lastPoll) => ByPolls(m, q, lastPoll, lastPoll)

KnownInv == known \subseteq Macs

\* The answer on its way holds what was logged since the bound of the fetch and before
\* its watermark.
ReplyInv ==
  at = "reply" =>
    /\ batch \subseteq DOMAIN log
    /\ \A q \in batch : log[q].ts >= FetchFrom
    /\ \A q \in DOMAIN log \ excused :
         FetchFrom <= log[q].ts /\ log[q].ts < polledAt => q \in batch /\ log[q].mac \in known

\* NoQueryLost, while a poll is under way too.
Kept(q) == \E d \in Domains : \E e \in counts[log[q].mac][d] : e.query = q

KeptInv ==
  lastPoll # Never =>
    \A q \in DOMAIN log \ excused :
      (log[q].ts < lastPoll /\ \A c \in lived : log[q].ts >= lastPoll - c.window) => Kept(q)

CountInv == SustainInv /\ ClockInv /\ LogInv /\ EntryInv /\ TwiceInv /\ KnownInv /\ ReplyInv
  /\ KeptInv

LEMMA WholeIs ==
  ASSUME NEW t \in Int
  PROVE  Whole(t) \in Int /\ Whole(t) <= t /\ t - Second < Whole(t)
BY SourceAssumption, ClockAssumption DEF Whole

LEMMA LogIs ==
  ASSUME log \in Logs
  PROVE  /\ Len(log) \in Nat /\ DOMAIN log = 1..Len(log)
         /\ \A q \in DOMAIN log :
              log[q].mac \in Macs /\ log[q].domain \in Domains /\ log[q].ts \in Nat
<1>1. Len(log) \in Nat /\ DOMAIN log = 1..Len(log) /\ \A q \in DOMAIN log : log[q] \in LogRows
  BY DEF Logs
<1>2. QED
  BY <1>1 DEF LogRows

LEMMA WindowIs ==
  ASSUME SustainInv
  PROVE  used \in lived /\ \A c \in lived : c.window \in Nat
BY ConfigAssumption DEF SustainInv, ConfigType

LEMMA CountInit == Init => CountInv
<1> SUFFICES ASSUME Init PROVE CountInv
  OBVIOUS
<1>1. SustainInv
  BY SustainInit
<1>2. ClockInv /\ KeptInv /\ KnownInv /\ ReplyInv
  BY ClockAssumption DEF Init, ClockInv, KeptInv, KnownInv, ReplyInv, Never
<1>3. log = << >> /\ DOMAIN log = {} /\ LogInv
  BY DEF Init, LogInv, Logs
<1>4. EntryInv /\ TwiceInv
  BY <1>3 DEF Init, EntryInv, TwiceInv
<1>5. QED
  BY <1>1, <1>2, <1>3, <1>4 DEF CountInv

\* The answer of a poll is counted: everything young of it and of what was counted stays,
\* and nothing else comes in.
Judged ==
  /\ at = "reply" /\ at' = "idle" /\ ended' = now /\ lastPoll' = polledAt
  /\ counts' \in [Macs -> [Domains -> SUBSET [query : Nat, poll : Nat]]]
  /\ \A m \in Macs : \A d \in Domains : \A e \in counts'[m][d] : e \in Appended[m][d]
  /\ \A m \in Macs : \A d \in Domains : \A e \in Appended[m][d] :
       log[e.query].ts >= polledAt - used.window => e \in counts'[m][d]
  /\ UNCHANGED <<cfg, now, log, used, polledAt, known, lived, excused>>

LEMMA AppendedIs ==
  ASSUME CountInv, at = "reply", NEW m \in Macs, NEW d \in Domains
  PROVE  /\ Appended[m][d] \subseteq [query : Nat, poll : Nat]
         /\ counts[m][d] \subseteq Appended[m][d]
         /\ \A e \in Appended[m][d] :
              e \in counts[m][d] \/ (e.poll = polledAt /\ e.query \in batch /\ log[e.query].mac = m)
         /\ \A q \in batch : m \in known /\ log[q].mac = m /\ log[q].domain = d =>
              [query |-> q, poll |-> polledAt] \in Appended[m][d]
<1>1. Appended[m][d] = counts[m][d] \cup {[query |-> q, poll |-> polledAt] : q \in Delivered(m, d)}
  BY DEF Appended
<1>2. /\ counts[m][d] \subseteq [query : Nat, poll : Nat]
      /\ polledAt \in Nat /\ batch \subseteq Nat
  BY LogIs DEF CountInv, EntryInv, SustainInv, ReplyInv, LogInv
<1>3. /\ Delivered(m, d) \subseteq {q \in batch : log[q].mac = m}
      /\ m \in known => Delivered(m, d) = {q \in batch : log[q].mac = m /\ log[q].domain = d}
  BY DEF Delivered
<1>4. ASSUME NEW e \in Appended[m][d]
      PROVE  /\ e \in [query : Nat, poll : Nat]
             /\ e \in counts[m][d] \/ (e.poll = polledAt /\ e.query \in batch /\ log[e.query].mac = m)
  <2>1. CASE e \in counts[m][d]
    BY <1>2, <2>1
  <2>2. CASE e \notin counts[m][d]
    <3>1. PICK q \in Delivered(m, d) : e = [query |-> q, poll |-> polledAt]
      BY <1>1, <1>4, <2>2
    <3>2. QED
      BY <1>2, <1>3, <3>1
  <2>3. QED
    BY <2>1, <2>2
<1>5. counts[m][d] \subseteq Appended[m][d]
  BY <1>1
<1>6. ASSUME NEW q \in batch, m \in known, log[q].mac = m, log[q].domain = d
      PROVE  [query |-> q, poll |-> polledAt] \in Appended[m][d]
  <2>1. q \in Delivered(m, d)
    BY <1>3, <1>6
  <2>2. QED
    BY <1>1, <2>1
<1>7. QED
  BY <1>4, <1>5, <1>6

LEMMA JudgedCounts ==
  ASSUME CountInv, Judged
  PROVE  EntryInv' /\ TwiceInv' /\ KeptInv'
<1>1. /\ polledAt \in Nat /\ now \in Nat /\ ended \in Int /\ ended + Second <= polledAt
      /\ polledAt <= now /\ ended <= now
      /\ lastPoll \in Nat \cup {Never} /\ (lastPoll # Never => lastPoll <= ended)
      /\ at = "reply" /\ Second \in Nat /\ Second > 0
  BY ClockAssumption DEF CountInv, SustainInv, ClockInv, Judged
<1>2. /\ UNCHANGED <<log, lived, excused>> /\ lastPoll' = polledAt /\ ended' = now
      /\ lastPoll' \in Nat /\ lastPoll' # Never
  BY <1>1 DEF Judged, Never
<1>3. ASSUME NEW m \in Macs, NEW d \in Domains, NEW e \in counts'[m][d]
      PROVE  /\ e \in Appended[m][d] /\ e.query \in DOMAIN log
             /\ \/ /\ e \in counts[m][d] /\ log[e.query].ts <= ended
                   /\ lastPoll # Never /\ e.poll <= lastPoll
                \/ e.poll = polledAt /\ e.query \in batch
  <2>1. e \in Appended[m][d]
    BY <1>3 DEF Judged
  <2>2. e \in counts[m][d] \/ (e.poll = polledAt /\ e.query \in batch)
    BY <1>1, <2>1, AppendedIs
  <2>3. batch \subseteq DOMAIN log
    BY <1>1 DEF CountInv, ReplyInv
  <2>4. e \in counts[m][d] =>
          /\ e.query \in DOMAIN log /\ log[e.query].ts <= ended
          /\ lastPoll # Never /\ e.poll <= lastPoll
    BY DEF CountInv, EntryInv
  <2>5. QED
    BY <2>1, <2>2, <2>3, <2>4
<1>4. \A q \in DOMAIN log : log[q].ts \in Nat /\ log[q].ts <= now
  BY LogIs DEF CountInv, LogInv
<1>5. EntryInv'
  <2>1. ASSUME NEW m \in Macs, NEW d \in Domains, NEW e \in counts'[m][d]
        PROVE  e.query \in DOMAIN log' /\ log'[e.query].ts <= ended' /\ e.poll <= lastPoll'
    <3>1. e.query \in DOMAIN log /\ log[e.query].ts <= now
      BY <1>3, <1>4, <2>1
    <3>2. e.poll <= polledAt
      <4>1. CASE e \in counts[m][d]
        <5>1. e.poll \in Nat
          BY <4>1 DEF CountInv, EntryInv
        <5>2. e.poll = polledAt \/ (lastPoll # Never /\ e.poll <= lastPoll)
          BY <1>3, <2>1
        <5>3. QED
          BY <1>1, <5>1, <5>2
      <4>2. CASE e \notin counts[m][d]
        BY <1>1, <1>3, <2>1, <4>2
      <4>3. QED
        BY <4>1, <4>2
    <3>3. QED
      BY <1>2, <3>1, <3>2
  <2>2. counts' \in [Macs -> [Domains -> SUBSET [query : Nat, poll : Nat]]]
    BY DEF Judged
  <2>3. QED
    BY <1>2, <2>1, <2>2 DEF EntryInv
<1>6. TwiceInv'
  <2>1. ASSUME NEW m \in Macs, NEW q \in DOMAIN log
        PROVE  \E p, r \in Nat : ByPolls(m, q, p, r)'
    <3>1. CASE q \in batch
      <4>1. log[q].ts >= FetchFrom
        BY <1>1, <3>1 DEF CountInv, ReplyInv
      <4>2. ASSUME NEW d \in Domains, NEW e \in counts'[m][d], e.query = q
            PROVE  e.poll = polledAt \/ (lastPoll # Never /\ e.poll = lastPoll)
        <5>1. CASE e \in counts[m][d] /\ lastPoll # Never
          BY <2>1, <4>1, <4>2, <5>1 DEF CountInv, TwiceInv, FetchFrom, ByPolls
        <5>2. QED
          BY <1>3, <4>2, <5>1
      <4>3. PICK p, s \in Nat : s = polledAt /\ (lastPoll # Never => p = lastPoll)
        BY <1>1
      <4>4. ByPolls(m, q, s, p)'
        BY <4>2, <4>3 DEF ByPolls
      <4>5. QED
        BY <4>4
    <3>2. CASE q \notin batch
      <4>1. PICK p, r \in Nat : ByPolls(m, q, p, r)
        BY DEF CountInv, TwiceInv
      <4>2. \A d \in Domains : \A e \in counts'[m][d] : e.query = q => e \in counts[m][d]
        BY <1>3, <3>2
      <4>3. ByPolls(m, q, p, r)'
        BY <4>1, <4>2 DEF ByPolls
      <4>4. QED
        BY <4>3
    <3>3. QED
      BY <3>1, <3>2
  <2>2. ASSUME NEW m \in Macs, NEW q \in DOMAIN log, log[q].ts >= Whole(polledAt)
        PROVE  ByPolls(m, q, lastPoll, lastPoll)'
    <3>1. log[q].ts > ended
      BY <1>1, <1>4, <2>2, WholeIs
    <3>2. \A d \in Domains : \A e \in counts'[m][d] : e.query = q => e.poll = polledAt
      BY <1>1, <1>3, <1>4, <3>1
    <3>3. QED
      BY <1>2, <3>2 DEF ByPolls
  <2>3. Whole(lastPoll)' = Whole(polledAt)
    BY <1>2 DEF Whole
  <2>4. QED
    BY <1>2, <2>1, <2>2, <2>3 DEF TwiceInv
<1>7. KeptInv'
  <2>1. SUFFICES ASSUME NEW q \in DOMAIN log \ excused, log[q].ts < polledAt,
                        \A c \in lived : log[q].ts >= polledAt - c.window
                 PROVE  Kept(q)'
    BY <1>2 DEF KeptInv
  <2>2. /\ log[q].mac \in Macs /\ log[q].domain \in Domains
        /\ log[q].ts \in Nat /\ log[q].ts >= polledAt - used.window
        /\ used.window \in Nat
    BY <2>1, LogIs, WindowIs DEF CountInv, LogInv
  <2>3. PICK m, d : m = log[q].mac /\ d = log[q].domain
    OBVIOUS
  <2>4. \A k \in Domains : \A e \in Appended[m][k] : e.query = q => e \in counts'[m][k]
    BY <2>2, <2>3 DEF Judged
  <2>5. CASE log[q].ts >= FetchFrom
    <3>1. q \in batch /\ m \in known
      BY <1>1, <2>1, <2>3, <2>5 DEF CountInv, ReplyInv
    <3>2. [query |-> q, poll |-> polledAt] \in Appended[m][d]
      BY <1>1, <2>2, <2>3, <3>1, AppendedIs
    <3>3. [query |-> q, poll |-> polledAt] \in counts'[m][d]
      BY <2>2, <2>3, <2>4, <3>2
    <3>4. QED
      BY <1>2, <2>2, <2>3, <3>3 DEF Kept
  <2>6. CASE ~(log[q].ts >= FetchFrom)
    <3>1. FetchFrom \in Int /\ log[q].ts < FetchFrom
      <4>1. FetchFrom \in Int
        BY <1>1, <2>2, WholeIs DEF FetchFrom
      <4>2. QED
        BY <2>2, <2>6, <4>1
    <3>2. lastPoll # Never
      <4>1. lastPoll = Never => FetchFrom <= polledAt - used.window
        BY <1>1, <2>2, WholeIs DEF FetchFrom
      <4>2. QED
        BY <1>1, <2>2, <3>1, <4>1
    <3>3. FetchFrom <= lastPoll /\ lastPoll \in Nat
      BY <1>1, <3>2, WholeIs DEF FetchFrom
    <3>4. \A c \in lived : log[q].ts >= lastPoll - c.window
      BY <1>1, <2>1, <2>2, <3>2, <3>3, WindowIs DEF CountInv
    <3>5. Kept(q)
      BY <2>1, <2>2, <3>1, <3>2, <3>3, <3>4 DEF CountInv, KeptInv
    <3>6. PICK k \in Domains : \E e \in counts[m][k] : e.query = q
      BY <2>3, <3>5 DEF Kept
    <3>7. counts[m][k] \subseteq Appended[m][k]
      BY <1>1, <2>2, <2>3, <3>6, AppendedIs
    <3>8. QED
      BY <1>2, <2>3, <2>4, <3>6, <3>7 DEF Kept
  <2>7. QED
    BY <2>5, <2>6
<1>8. QED
  BY <1>5, <1>6, <1>7

\* A poll that ends well, or raises once its answer is counted, counts it.
LEMMA PollJudged ==
  ASSUME CountInv, Evaluate \/ EvaluateRaises
  PROVE  Judged
<1>1. /\ at = "reply" /\ at' = "idle" /\ ended' = now /\ lastPoll' = polledAt
      /\ UNCHANGED <<cfg, now, log, used, polledAt, known, lived, excused>>
  BY DEF Evaluate, EvaluateRaises, MarkPolled, call
<1>2. CASE EvaluateRaises
  <2>1. counts' = Appended
    BY <1>2 DEF EvaluateRaises
  <2>2. \A m \in Macs : \A d \in Domains : Appended[m][d] \subseteq [query : Nat, poll : Nat]
    BY <1>1, AppendedIs
  <2>3. Appended \in [Macs -> [Domains -> SUBSET [query : Nat, poll : Nat]]]
    BY <2>2 DEF Appended
  <2>4. QED
    BY <1>1, <2>1, <2>3 DEF Judged
<1>3. CASE Evaluate
  <2>1. PICK cutoff : cutoff = polledAt - used.window
    OBVIOUS
  <2>2. counts' = [m \in Macs |-> [d \in Domains |-> DropOld(Appended[m][d], cutoff)]]
    BY <1>3, <2>1 DEF Evaluate
  <2>3. ASSUME NEW m \in Macs, NEW d \in Domains
        PROVE  /\ DropOld(Appended[m][d], cutoff) \subseteq Appended[m][d]
               /\ \A e \in Appended[m][d] :
                    log[e.query].ts >= cutoff => e \in DropOld(Appended[m][d], cutoff)
               /\ DropOld(Appended[m][d], cutoff) \subseteq [query : Nat, poll : Nat]
    <3>1. Appended[m][d] \subseteq [query : Nat, poll : Nat]
      BY <1>1, AppendedIs
    <3>2. PICK deq : deq = Appended[m][d]
      OBVIOUS
    <3>3. /\ DropOld(deq, cutoff) \subseteq deq
          /\ \A e \in deq : log[e.query].ts >= cutoff => e \in DropOld(deq, cutoff)
      BY DEF DropOld
    <3>4. QED
      BY <3>1, <3>2, <3>3
  <2>4. counts' \in [Macs -> [Domains -> SUBSET [query : Nat, poll : Nat]]]
    BY <2>2, <2>3
  <2>5. /\ \A m \in Macs : \A d \in Domains : \A e \in counts'[m][d] : e \in Appended[m][d]
        /\ \A m \in Macs : \A d \in Domains : \A e \in Appended[m][d] :
             log[e.query].ts >= polledAt - used.window => e \in counts'[m][d]
    BY <2>1, <2>2, <2>3
  <2>6. QED
    BY <1>1, <2>4, <2>5 DEF Judged
<1>4. QED
  BY <1>2, <1>3

LEMMA JudgedKeeps ==
  ASSUME CountInv, SustainInv', Judged
  PROVE  CountInv'
<1>1. EntryInv' /\ TwiceInv' /\ KeptInv'
  BY JudgedCounts
<1>2. ClockInv'
  BY ClockAssumption DEF Judged, CountInv, SustainInv, ClockInv
<1>3. LogInv'
  BY DEF Judged, CountInv, LogInv
<1>4. ReplyInv' /\ KnownInv'
  BY DEF Judged, ReplyInv, CountInv, KnownInv
<1>5. QED
  BY <1>1, <1>2, <1>3, <1>4 DEF CountInv

LEMMA SamePolls ==
  ASSUME UNCHANGED <<counts, lastPoll>>
  PROVE  /\ \A m, q, p, r : ByPolls(m, q, p, r)' <=> ByPolls(m, q, p, r)
         /\ \A m, q : ByPolls(m, q, lastPoll, lastPoll)' <=> ByPolls(m, q, lastPoll, lastPoll)
         /\ Whole(lastPoll)' = Whole(lastPoll)
BY DEF ByPolls, Whole

LEMMA SameTwice ==
  ASSUME TwiceInv, UNCHANGED <<counts, lastPoll, log>>
  PROVE  TwiceInv'
<1>1. ASSUME NEW m \in Macs, NEW q \in DOMAIN log
      PROVE  /\ (\E p, r \in Nat : ByPolls(m, q, p, r))'
             /\ (log[q].ts >= Whole(lastPoll) => ByPolls(m, q, lastPoll, lastPoll))'
  <2>1. PICK p, r \in Nat : ByPolls(m, q, p, r)
    BY DEF TwiceInv
  <2>2. ByPolls(m, q, p, r)'
    BY <2>1, SamePolls
  <2>3. log[q].ts >= Whole(lastPoll) => ByPolls(m, q, lastPoll, lastPoll)
    BY DEF TwiceInv
  <2>4. QED
    BY <2>2, <2>3, SamePolls
<1>2. QED
  BY <1>1 DEF TwiceInv

\* A query logged now is younger than the last poll, and than the watermark of one under
\* way.
LEMMA QueryKeeps ==
  ASSUME CountInv, SustainInv', NEW m \in Macs, NEW d \in Domains, NEW i \in 1..Instances, Query(m, d, i)
  PROVE  CountInv'
<1>1. /\ log' = Append(log, [mac |-> m, domain |-> d, inst |-> i, ts |-> now])
      /\ UNCHANGED <<cfg, now, at, used, polledAt, batch, known, ended, lastPoll, counts, lived, excused>>
  BY DEF Query, call, detector, observers
<1>2. now \in Nat /\ log \in Logs /\ Len(log) \in Nat
  BY LogIs DEF CountInv, SustainInv, LogInv
<1>3. PICK r : r = [mac |-> m, domain |-> d, inst |-> i, ts |-> now]
  OBVIOUS
<1>4. r \in LogRows /\ r.ts = now
  BY <1>2, <1>3 DEF LogRows
<1>5. /\ log' \in Logs /\ DOMAIN log' = DOMAIN log \cup {Len(log) + 1}
      /\ log'[Len(log) + 1] = r /\ \A q \in DOMAIN log : log'[q] = log[q]
  BY <1>1, <1>2, <1>3, <1>4 DEF Logs
<1>6. ASSUME NEW q \in DOMAIN log', q \notin DOMAIN log
      PROVE  q = Len(log) + 1 /\ log'[q].ts = now
  BY <1>4, <1>5, <1>6
<1>7. LogInv'
  BY <1>1, <1>5, <1>6, <1>2 DEF CountInv, LogInv
<1>8. EntryInv'
  BY <1>1, <1>5 DEF CountInv, EntryInv
<1>9. TwiceInv'
  <2>1. SUFFICES ASSUME NEW n \in Macs, NEW q \in DOMAIN log'
                 PROVE  /\ (\E p, s \in Nat : ByPolls(n, q, p, s))'
                        /\ (log[q].ts >= Whole(lastPoll) => ByPolls(n, q, lastPoll, lastPoll))'
    BY DEF TwiceInv
  <2>2. CASE q \in DOMAIN log
    <3>1. PICK p, s \in Nat : ByPolls(n, q, p, s)
      BY <2>2 DEF CountInv, TwiceInv
    <3>2. ByPolls(n, q, p, s)'
      BY <1>1, <3>1, SamePolls
    <3>3. log[q].ts >= Whole(lastPoll) => ByPolls(n, q, lastPoll, lastPoll)
      BY <2>2 DEF CountInv, TwiceInv
    <3>4. log'[q] = log[q]
      BY <1>5, <2>2
    <3>5. QED
      BY <1>1, <3>2, <3>3, <3>4, SamePolls
  <2>3. CASE q \notin DOMAIN log
    <3>1. \A k \in Domains : \A e \in counts[n][k] : e.query # q
      BY <2>3 DEF CountInv, EntryInv
    <3>2. (\A p, s : ByPolls(n, q, p, s))'
      BY <1>1, <3>1 DEF ByPolls
    <3>3. QED
      BY <3>2
  <2>4. QED
    BY <2>2, <2>3
<1>10. ReplyInv'
  <2>1. SUFFICES ASSUME at = "reply" PROVE ReplyInv'
    BY <1>1 DEF ReplyInv
  <2>2. FetchFrom' = FetchFrom
    BY <1>1 DEF FetchFrom, Whole
  <2>3. batch' \subseteq DOMAIN log' /\ \A q \in batch' : log'[q].ts >= FetchFrom'
    BY <1>1, <1>5, <2>1, <2>2 DEF CountInv, ReplyInv
  <2>4. polledAt <= now /\ polledAt \in Nat
    BY DEF CountInv, ClockInv, SustainInv
  <2>5. ASSUME NEW q \in DOMAIN log' \ excused', FetchFrom' <= log'[q].ts, log'[q].ts < polledAt'
        PROVE  q \in batch' /\ log'[q].mac \in known'
    <3>1. q \in DOMAIN log
      BY <1>1, <1>2, <1>6, <2>4, <2>5
    <3>2. QED
      BY <1>1, <1>5, <2>1, <2>2, <2>5, <3>1 DEF CountInv, ReplyInv
  <2>6. QED
    BY <2>3, <2>5 DEF ReplyInv
<1>11. KeptInv'
  <2>1. SUFFICES ASSUME lastPoll # Never, NEW q \in DOMAIN log' \ excused, log'[q].ts < lastPoll,
                        \A c \in lived : log'[q].ts >= lastPoll - c.window
                 PROVE  Kept(q)'
    BY <1>1 DEF KeptInv
  <2>2. lastPoll <= now /\ lastPoll \in Nat
    BY <1>2, <2>1 DEF CountInv, ClockInv
  <2>3. q \in DOMAIN log
    BY <1>2, <1>6, <2>1, <2>2
  <2>4. Kept(q)
    BY <1>5, <2>1, <2>3 DEF CountInv, KeptInv
  <2>5. QED
    BY <1>1, <1>5, <2>3, <2>4 DEF Kept
<1>12. ClockInv' /\ KnownInv'
  BY <1>1 DEF CountInv, ClockInv, KnownInv
<1>13. QED
  BY <1>7, <1>8, <1>9, <1>10, <1>11, <1>12 DEF CountInv

\* The instances read their logs: what is not in the answer is excused.
LEMMA SnapshotKeeps ==
  ASSUME CountInv, SustainInv', NEW A \in SUBSET (1..Instances), Snapshot(A)
  PROVE  CountInv'
<1>1. /\ at = "fetch" /\ at' = "reply" /\ batch' = UNION {Listed(i) : i \in A}
      /\ excused' = excused \cup {q \in DOMAIN log :
           /\ log[q].ts >= FetchFrom
           /\ \/ log[q].inst \notin A \/ q \notin Listed(log[q].inst)
              \/ log[q].mac \notin known}
      /\ UNCHANGED <<cfg, now, log, used, polledAt, known, ended, lastPoll, counts, lived>>
  BY DEF Snapshot, detector
<1>2. ClockInv' /\ KnownInv'
  BY <1>1 DEF CountInv, ClockInv, KnownInv
<1>3. LogInv' /\ EntryInv'
  BY <1>1 DEF CountInv, LogInv, EntryInv
<1>4. TwiceInv'
  BY <1>1, SameTwice DEF CountInv
<1>5. KeptInv'
  BY <1>1 DEF CountInv, KeptInv, Kept
<1>6. ReplyInv'
  <2>1. FetchFrom' = FetchFrom
    BY <1>1 DEF FetchFrom, Whole
  <2>2. \A q, i : q \in Recorded(i) <=> q \in DOMAIN log /\ log[q].inst = i /\ log[q].ts >= FetchFrom
    BY DEF Recorded
  <2>3. known \subseteq Macs
    BY <1>1 DEF CountInv, KnownInv
  <2>4. ASSUME NEW q \in DOMAIN log \ excused', FetchFrom <= log[q].ts
        PROVE  q \in batch' /\ log[q].mac \in known
    <3>1. log[q].ts >= FetchFrom
      BY <2>4
    <3>2. log[q].inst \in A /\ q \in Listed(log[q].inst) /\ log[q].mac \in known
      BY <1>1, <2>4, <3>1
    <3>3. QED
      BY <1>1, <3>2, Zenon
  <2>5. \A q \in batch' : q \in DOMAIN log /\ log[q].ts >= FetchFrom
    <3>1. \A i : Listed(i) \subseteq Recorded(i)
      BY DEF Listed
    <3>2. QED
      BY <1>1, <2>2, <3>1
  <2>6. QED
    BY <1>1, <2>1, <2>3, <2>4, <2>5 DEF ReplyInv
<1>7. QED
  BY <1>2, <1>3, <1>4, <1>5, <1>6 DEF CountInv

LEMMA CountNext == CountInv /\ [Next]_vars => CountInv'
<1> SUFFICES ASSUME CountInv, [Next]_vars PROVE CountInv'
  OBVIOUS
<1>1. SustainInv'
  BY SustainNext DEF CountInv
<1>2. CASE Evaluate \/ EvaluateRaises
  BY <1>1, <1>2, PollJudged, JudgedKeeps
<1>3. CASE \E A \in SUBSET (1..Instances) : Snapshot(A)
  BY <1>1, <1>3, SnapshotKeeps
<1>4. CASE \E m \in Macs, d \in Domains, i \in 1..Instances : Query(m, d, i)
  BY <1>1, <1>4, QueryKeeps
<1>5. ASSUME UNCHANGED <<log, counts, lastPoll, excused>>, lived \subseteq lived'
      PROVE  TwiceInv' /\ KeptInv'
  <2>1. TwiceInv'
    BY <1>5, SameTwice DEF CountInv
  <2>2. \A q : Kept(q)' <=> Kept(q)
    BY <1>5 DEF Kept
  <2>3. QED
    BY <1>5, <2>1, <2>2 DEF CountInv, KeptInv
<1>6. CASE Tick \/ UNCHANGED vars \/ \E c \in Configs : Reload(c)
  <2>1. /\ UNCHANGED <<log, at, used, polledAt, batch, known, ended, lastPoll, counts, excused>>
        /\ now' \in {now, now + 1} /\ lived \subseteq lived'
    BY <1>6 DEF Tick, Reload, vars, call, detector, observers
  <2>2. now \in Nat /\ polledAt \in Nat
    BY DEF CountInv, SustainInv
  <2>3. ClockInv'
    BY <2>1, <2>2 DEF CountInv, ClockInv
  <2>4. LogInv'
    <3>1. \A q \in DOMAIN log : log[q].ts \in Nat /\ log[q].ts <= now
      BY LogIs DEF CountInv, LogInv
    <3>2. QED
      BY <2>1, <2>2, <3>1 DEF CountInv, LogInv
  <2>5. EntryInv' /\ KnownInv'
    BY <2>1 DEF CountInv, EntryInv, KnownInv
  <2>6. ReplyInv'
    BY <2>1 DEF CountInv, ReplyInv, FetchFrom, Whole
  <2>7. QED
    BY <1>1, <1>5, <2>1, <2>3, <2>4, <2>5, <2>6 DEF CountInv
<1>7. CASE \E K \in SUBSET Macs : Observe(K)
  <2>1. /\ at' = "fetch" /\ polledAt' = now /\ now - ended >= Second /\ known' \subseteq Macs
        /\ UNCHANGED <<now, log, ended, lastPoll, counts, excused, lived>>
    BY <1>7 DEF Observe, detector, observers
  <2>2. now \in Nat /\ Second \in Nat
    BY ClockAssumption DEF CountInv, SustainInv
  <2>3. ClockInv'
    BY <2>1, <2>2 DEF CountInv, ClockInv
  <2>4. LogInv' /\ EntryInv' /\ KnownInv' /\ ReplyInv'
    BY <2>1 DEF CountInv, LogInv, EntryInv, KnownInv, ReplyInv
  <2>5. QED
    BY <1>1, <1>5, <2>1, <2>3, <2>4 DEF CountInv
<1>8. CASE ObserveRaises
  <2>1. /\ at = "idle" /\ ended' = now
        /\ UNCHANGED <<at, now, log, polledAt, known, lastPoll, counts, excused, lived>>
    BY <1>8 DEF ObserveRaises, call, detector
  <2>2. now \in Nat /\ ended \in Int /\ ended <= now /\ lastPoll \in Nat \cup {Never}
    BY DEF CountInv, SustainInv, ClockInv
  <2>3. ClockInv'
    BY <2>1, <2>2 DEF CountInv, ClockInv, Never
  <2>4. LogInv' /\ KnownInv' /\ ReplyInv'
    BY <2>1 DEF CountInv, LogInv, KnownInv, ReplyInv
  <2>5. EntryInv'
    BY <2>1 DEF CountInv, EntryInv, LogInv
  <2>6. QED
    BY <1>1, <1>5, <2>1, <2>3, <2>4, <2>5 DEF CountInv
<1>9. QED
  BY <1>2, <1>3, <1>4, <1>6, <1>7, <1>8 DEF Next, Poll

LEMMA TwoPolls ==
  ASSUME NEW S, NEW q, NEW p, NEW r,
         \A e \in S : e \in [query : Nat, poll : Nat] /\ e.query = q /\ e.poll \in {p, r}
  PROVE  Cardinality(S) <= 2
<1>1. PICK a, b : a = [query |-> q, poll |-> p] /\ b = [query |-> q, poll |-> r]
  OBVIOUS
<1>2. S \subseteq {a, b}
  BY <1>1
<1>3. IsFiniteSet({a, b}) /\ Cardinality({a, b}) <= 2
  <2>1. IsFiniteSet({a}) /\ Cardinality({a}) = 1
    BY FS_Singleton
  <2>2. IsFiniteSet({a} \cup {b}) /\ Cardinality({a} \cup {b}) \in {1, 2}
    BY <2>1, FS_AddElement
  <2>3. {a, b} = {a} \cup {b}
    OBVIOUS
  <2>4. QED
    BY <2>2, <2>3
<1>4. QED
  BY <1>2, <1>3, FS_Subset, FS_CardinalityType

\* ADR-0011: no query is lost between one poll and the next, and none is counted more than
\* twice, whenever it was logged and whichever instance was slow or failed
\* (DnsThrashDetector.observe over MergedDnsSource.queries_since).
THEOREM CountedCorrect == Spec => []QueriesCounted
<1>1. CountInv => QueriesCounted
  <2>1. SUFFICES ASSUME CountInv PROVE QueriesCounted
    OBVIOUS
  <2>2. ASSUME NEW m \in Macs, NEW q \in Counted(m)
        PROVE  Occurrences(m, q) <= 2
    <3>1. PICK k \in Domains : \E e \in counts[m][k] : e.query = q
      BY <2>2 DEF Counted, Entries
    <3>2. q \in DOMAIN log
      BY <2>1, <3>1 DEF CountInv, EntryInv
    <3>3. PICK p, r \in Nat : ByPolls(m, q, p, r)
      BY <2>1, <3>2 DEF CountInv, TwiceInv
    <3>4. \A e \in {x \in Entries(m) : x.query = q} :
            e \in [query : Nat, poll : Nat] /\ e.query = q /\ e.poll \in {p, r}
      BY <2>1, <3>3 DEF CountInv, EntryInv, Entries, ByPolls
    <3>5. QED
      BY <3>4, TwoPolls DEF Occurrences
  <2>3. ASSUME NEW q, Kept(q)
        PROVE  q \in Counted(log[q].mac)
    BY <2>3 DEF Kept, Counted, Entries
  <2>4. QED
    BY <2>1, <2>2, <2>3 DEF QueriesCounted, CountedAtMostTwice, NoQueryLost, CountInv, KeptInv
<1>2. QED
  BY <1>1, CountInit, CountNext, PTL DEF Spec

=============================================================================
