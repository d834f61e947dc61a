----------------------------- MODULE DnsThrash -----------------------------
(***************************************************************************)
(* DnsThrashDetector.observe (dns_thrash.py) over MergedDnsSource and      *)
(* several Pi-hole instances (dns_sources/): what is fetched, how often a  *)
(* query is counted, and when a client is flagged.                         *)
(*                                                                         *)
(* A fetch has two instants of its own: the instances read their logs, and *)
(* some time later the merged answer is back.  The clock counts fractions  *)
(* of a second; the fetch bound is sent in whole seconds.  A query is its  *)
(* position in the log of everything the instances recorded, and a deque   *)
(* of query times is the set of its entries: which query, counted by the   *)
(* poll of which time.  Before is the order of its entries.                *)
(***************************************************************************)
EXTENDS Integers, Sequences, FiniteSets

CONSTANTS
  Macs,        \* clients, each known by one IP address
  Domains,
  Instances,   \* how many Pi-hole instances are merged
  NewestFirst, \* the order in which an instance lists its queries
  Page,        \* how many of them it lists at most, the first in that order
  Configs,     \* the configurations the daemon may be given
  Second,      \* clock units in a second
  MaxTime,     \* bound: the clock stops here
  MaxQueries   \* bound: the clients make at most this many queries

\* on: detection.dns_thrash is present.  window and sustain in clock units, max
\* is what resolve_dns_same_domain_max returns.
ConfigType == [on : BOOLEAN, window : Nat, sustain : Nat, max : [Macs -> Nat]]

ASSUME ConfigAssumption == Configs \subseteq ConfigType
ASSUME ClockAssumption == Second \in Nat \ {0} /\ MaxTime \in Nat
ASSUME SourceAssumption ==
  /\ Instances \in Nat \ {0} /\ NewestFirst \in BOOLEAN /\ Page \in Nat \ {0}
  /\ MaxQueries \in Nat

Never == -1

VARIABLES
  cfg,         \* the live configuration
  now,         \* time.time()
  log,         \* the queries the instances recorded, in order
  at,          \* "idle", "fetch" (asked) or "reply" (the answer is on its way)
  used,        \* the block observe() took from the configuration
  polledAt,    \* observe()'s local now
  batch,       \* the queries in the merged answer
  known,       \* the clients of this poll whose IP address is known
  ended,       \* when the last observe() ended
  lastPoll,    \* _last_poll_ts
  counts,      \* _counts
  overSince,   \* _over_since
  flagged      \* what the last observe() returned

\* Observers, read by the properties and by no action.
VARIABLES
  lived,       \* the configurations that have been live
  excused,     \* queries that a fetch should have had, and why it had not is known
  verdicts     \* for each poll that came to an end, when and who was over

call == <<used, polledAt, batch, known>>
detector == <<lastPoll, counts, overSince, flagged>>
observers == <<lived, excused, verdicts>>
vars == <<cfg, now, log, at, call, ended, detector, observers>>

Init ==
  /\ cfg \in Configs /\ cfg.on
  /\ now = 0 /\ log = << >> /\ at = "idle"
  /\ used = cfg /\ polledAt = 0 /\ batch = {} /\ known = {} /\ ended = -Second
  /\ lastPoll = Never
  /\ counts = [m \in Macs |-> [d \in Domains |-> {}]]
  /\ overSince = [m \in Macs |-> Never] /\ flagged = {}
  /\ lived = {cfg} /\ excused = {} /\ verdicts = << >>

Tick ==
  /\ now < MaxTime /\ now' = now + 1
  /\ UNCHANGED <<cfg, log, at, call, ended, detector, observers>>

Reload(c) ==
  /\ c # cfg /\ cfg' = c /\ lived' = lived \cup {c}
  /\ UNCHANGED <<now, log, at, call, ended, detector, excused, verdicts>>

\* A client asks one of the instances.
Query(m, d, i) ==
  /\ Len(log) < MaxQueries
  /\ log' = Append(log, [mac |-> m, domain |-> d, inst |-> i, ts |-> now])
  /\ UNCHANGED <<cfg, now, at, call, ended, detector, observers>>

----------------------------------------------------------------------------
(* One poll.                                                               *)

\* int(): the bound of a fetch is sent in whole seconds.
Whole(t) == (t \div Second) * Second

\* The watermark of the last poll, or one window of history.
FetchFrom == Whole(IF lastPoll = Never THEN polledAt - used.window ELSE lastPoll)

\* observe() starts.  The scan loop sleeps at least a second between polls.
Observe(K) ==
  /\ at = "idle" /\ cfg.on /\ now - ended >= Second
  /\ at' = "fetch"
  /\ used' = cfg /\ polledAt' = now /\ known' = K /\ batch' = {}
  /\ UNCHANGED <<cfg, now, log, ended, detector, observers>>

\* The block was removed by a reload: the first attribute access raises.
ObserveRaises ==
  /\ at = "idle" /\ ~cfg.on /\ now - ended >= Second
  /\ ended' = now
  /\ UNCHANGED <<cfg, now, log, at, call, detector, lived, excused, verdicts>>

\* An instance lists one query ahead of another.
Ahead(q, r) == IF NewestFirst THEN q > r ELSE q < r

Recorded(i) == {q \in DOMAIN log : log[q].inst = i /\ log[q].ts >= FetchFrom}

\* One page of what it recorded is asked for, and never the next one.
Listed(i) == {q \in Recorded(i) : Cardinality({r \in Recorded(i) : Ahead(r, q)}) < Page}

\* The instances read their logs; those of A answer, the others fail and are
\* left out (gather with return_exceptions).  Excused is what a failed instance recorded,
\* what is beyond an instance's page, and what no client's address matches.
Snapshot(A) ==
  /\ at = "fetch" /\ at' = "reply"
  /\ batch' = UNION {Listed(i) : i \in A}
  /\ excused' = excused \cup {q \in DOMAIN log :
       /\ log[q].ts >= FetchFrom
       /\ \/ log[q].inst \notin A \/ q \notin Listed(log[q].inst)
          \/ log[q].mac \notin known}
  /\ UNCHANGED <<cfg, now, log, used, polledAt, known, ended, detector, lived, verdicts>>

Delivered(m, d) ==
  IF m \in known THEN {q \in batch : log[q].mac = m /\ log[q].domain = d} ELSE {}

Appended ==
  [m \in Macs |-> [d \in Domains |->
     counts[m][d] \cup {[query |-> q, poll |-> polledAt] : q \in Delivered(m, d)}]]

\* An answer joins the deque behind those of earlier polls: the queries of one instance
\* after those of another, each in the order its instance lists them.
Before(e, f) ==
  \/ e.poll < f.poll
  \/ /\ e.poll = f.poll
     /\ \/ log[e.query].inst < log[f.query].inst
        \/ /\ log[e.query].inst = log[f.query].inst
           /\ Ahead(e.query, f.query)

\* popleft while the head is older than the window: entries behind a younger
\* head stay.
DropOld(deq, cutoff) ==
  {e \in deq : \E head \in deq :
     log[head.query].ts >= cutoff /\ (head = e \/ Before(head, e))}

Tracked(cs) == {m \in Macs : \E d \in Domains : cs[m][d] # {}}

\* A slip: the watermark is read when the answer is back.
MarkReturned == lastPoll' = now

MarkPolled == lastPoll' = polledAt

\* A slip: a streak is dated from the start of the window.
StreakOfWindow(m, over) ==
  IF ~over THEN Never
  ELSE IF overSince[m] = Never THEN polledAt - used.window ELSE overSince[m]

Streak(m, over) ==
  IF ~over THEN Never
  ELSE IF overSince[m] = Never THEN polledAt ELSE overSince[m]

\* The answer is back and every tracked client is judged, by the thresholds in
\* force now and the window captured before the fetch.
Evaluate ==
  LET pruned == [m \in Macs |-> [d \in Domains |->
                   DropOld(Appended[m][d], polledAt - used.window)]]
      over == {m \in Macs : \E d \in Domains : Cardinality(pruned[m][d]) > cfg.max[m]}
  IN
  /\ at = "reply" /\ (cfg.on \/ Tracked(Appended) = {})
  /\ at' = "idle" /\ ended' = now
  /\ MarkPolled
  /\ counts' = pruned
  /\ overSince' = [m \in Macs |-> Streak(m, m \in over)]
  /\ flagged' = {m \in over : polledAt - Streak(m, TRUE) >= used.sustain}
  /\ verdicts' = Append(verdicts, [at |-> polledAt, over |-> over])
  /\ UNCHANGED <<cfg, now, log, call, lived, excused>>

\* The block went away during the fetch: the answer has been counted when the
\* first threshold lookup raises.
EvaluateRaises ==
  /\ at = "reply" /\ ~cfg.on /\ Tracked(Appended) # {}
  /\ at' = "idle" /\ ended' = now
  /\ MarkPolled
  /\ counts' = Appended
  /\ UNCHANGED <<cfg, now, log, call, overSince, flagged, lived, excused, verdicts>>

Poll ==
  \/ \E K \in SUBSET Macs : Observe(K)
  \/ ObserveRaises
  \/ \E A \in SUBSET (1..Instances) : Snapshot(A)
  \/ Evaluate \/ EvaluateRaises

Next ==
  \/ Poll
  \/ Tick
  \/ \E c \in Configs : Reload(c)
  \/ \E m \in Macs, d \in Domains, i \in 1..Instances : Query(m, d, i)

Spec == Init /\ [][Next]_vars

----------------------------------------------------------------------------
(* What must hold.                                                         *)

Entries(m) == UNION {counts[m][d] : d \in Domains}

Counted(m) == {e.query : e \in Entries(m)}

Occurrences(m, q) == Cardinality({e \in Entries(m) : e.query = q})

\* The watermark is taken before the fetch and truncated to a second, so a poll
\* sees again what came in late; but no query is ever counted three times.
CountedAtMostTwice ==
  \A m \in Macs : \A q \in Counted(m) : Occurrences(m, q) <= 2

\* Nothing falls between two polls: a query older than the last poll and young
\* enough for every window is counted (observe's "fetch only the delta"), unless its
\* instance failed to answer, more were recorded since the last poll than one page
\* lists (pihole.py:32-35), or its client's address was not known.
NoQueryLost ==
  (at = "idle" /\ lastPoll # Never) =>
    \A q \in DOMAIN log \ excused :
      (log[q].ts < lastPoll /\ \A c \in lived : log[q].ts >= lastPoll - c.window)
        => q \in Counted(log[q].mac)

\* ADR-0011: between one poll and the next no query falls through, and none is counted
\* over and over, whenever it was logged; what is lost is lost in a fetch, because an
\* instance failed or had more to list than one page.
QueriesCounted == CountedAtMostTwice /\ NoQueryLost

\* ADR-0011 AC-5: a flagged client was over the threshold at a poll a sustain
\* period ago and at every poll since.
SustainEarned ==
  at = "idle" =>
    \A m \in flagged : \E i \in DOMAIN verdicts, c \in lived :
      /\ verdicts[i].at <= verdicts[Len(verdicts)].at - c.sustain
      /\ \A j \in i..Len(verdicts) : m \in verdicts[j].over

=============================================================================
