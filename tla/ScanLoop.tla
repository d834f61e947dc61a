------------------------------ MODULE ScanLoop ------------------------------
(***************************************************************************)
(* Scanner.run_once and the loop of Daemon.run around one Actor: who is    *)
(* polled, which of the three detectors hands a client to Actor.handle and *)
(* in which order, and what happens around it: a reload applied between    *)
(* two awaits, calls that raise, and a process that dies and comes back.   *)
(*                                                                         *)
(* What the radio measures is not modelled here: each detector may flag    *)
(* any client its own guards let through.                                  *)
(***************************************************************************)
EXTENDS Actor

CONSTANTS
  DnsDetector,   \* detection.dns_thrash and a source are configured
  WireFaults,    \* controller calls may raise
  StoreFaults,   \* store calls may raise
  MaxTime,       \* bound: the clock stops here
  MaxCalls,      \* bound: nothing is flagged once this many calls were made
  MaxRows,       \* bound: nothing is flagged once the ledger has this many rows
  MaxStarts      \* bound: the process starts at most this often

ASSUME FlagAssumption ==
  DnsDetector \in BOOLEAN /\ WireFaults \in BOOLEAN /\ StoreFaults \in BOOLEAN
ASSUME BoundAssumption ==
  MaxTime \in Nat /\ MaxCalls \in Nat /\ MaxRows \in Nat /\ MaxStarts \in Nat \ {0}

VARIABLES
  client,      \* the loop variable of run_once
  seen,        \* this cycle's client_by_mac: the AP each polled client is on
  pending,     \* flagged MACs the DNS pass has still to handle
  dnsAllow     \* the allowlist the DNS pass captured

\* Observers, read by the properties and by no action.
VARIABLES
  lived,       \* the configurations that have been live
  offList,     \* MACs that were off the allowlist at some moment of this cycle
  cycleBase,   \* the value of groups when this cycle began
  roamed       \* groups whose pending client has been polled on another AP

pass == <<client, seen, pending, dnsAllow>>
observers == <<lived, offList, cycleBase, roamed>>
vars == <<world, at, frame, process, ledger, groups, wire, pass, observers>>

AtAwait == at \notin SyncPoints
Within == Len(wire) < MaxCalls /\ Len(ledger) < MaxRows

Boot(c) ==
  /\ cfg = c /\ now = 0 /\ epoch = 1
  /\ at = "sleep" /\ frame = NoFrame
  /\ btm = FreshProcess.btm /\ outcome = FreshProcess.outcome
  /\ kicks = FreshProcess.kicks /\ notified = FreshProcess.notified
  /\ lastKick = FreshProcess.lastKick /\ perAp = FreshProcess.perAp
  /\ dryLast = FreshProcess.dryLast
  /\ ledger = << >> /\ groups = 0 /\ wire = << >>

Init ==
  /\ \E c \in Configs : Boot(c)
  /\ client \in Macs /\ seen = [m \in Macs |-> NoAp]
  /\ pending = {} /\ dnsAllow = {}
  /\ lived = {cfg} /\ offList = {} /\ cycleBase = 0 /\ roamed = {}

----------------------------------------------------------------------------
(* The world around the scan task.                                         *)

Tick ==
  /\ AtAwait /\ now < MaxTime
  /\ now' = now + 1
  /\ UNCHANGED <<cfg, epoch, at, frame, process, ledger, groups, wire, pass, observers>>

\* _reload_config by SIGHUP or by the file watch: one atomic swap, between any
\* two awaits of the scan task.
Reload(c) ==
  /\ AtAwait /\ c # cfg
  /\ cfg' = c /\ lived' = lived \cup {c}
  /\ offList' = offList \cup (Macs \ c.allowlist)
  /\ UNCHANGED <<now, epoch, at, frame, process, ledger, groups, wire, pass,
                 cycleBase, roamed>>

\* The process dies wherever it is and starts again: what it held in memory is
\* gone, the ledger is not, and the configuration is read afresh.
Restart(c) ==
  /\ AtAwait /\ epoch < MaxStarts
  /\ epoch' = epoch + 1 /\ cfg' = c /\ lived' = lived \cup {c}
  /\ at' = "sleep" /\ frame' = NoFrame
  /\ btm' = FreshProcess.btm /\ outcome' = FreshProcess.outcome
  /\ kicks' = FreshProcess.kicks /\ notified' = FreshProcess.notified
  /\ lastKick' = FreshProcess.lastKick /\ perAp' = FreshProcess.perAp
  /\ dryLast' = FreshProcess.dryLast
  /\ seen' = [m \in Macs |-> NoAp] /\ pending' = {} /\ dnsAllow' = {}
  /\ offList' = {} /\ cycleBase' = groups /\ roamed' = {}
  /\ UNCHANGED <<now, ledger, groups, wire, client>>

----------------------------------------------------------------------------
(* One cycle.                                                              *)

\* list_wireless_clients has answered.  (When it raises the cycle ends here.)
BeginCycle ==
  /\ at = "sleep"
  /\ at' = "sample"
  /\ seen' = [m \in Macs |-> NoAp] /\ pending' = {} /\ dnsAllow' = {}
  /\ offList' = Macs \ cfg.allowlist /\ cycleBase' = groups
  /\ UNCHANGED <<world, frame, process, ledger, groups, wire, client, roamed, lived>>

\* insert_sample has returned for the next client of the answer, which is on
\* ap; the verdict of its last kick is taken before it is scored.
ClientPolled(m, ap) ==
  /\ at = "sample" /\ seen[m] = NoAp
  /\ client' = m /\ seen' = [seen EXCEPT ![m] = ap]
  /\ CheckPostKickOutcome(m, ap)
  /\ roamed' = IF btm[m].group # 0 /\ btm[m].ap # ap
               THEN roamed \cup {btm[m].group} ELSE roamed
  /\ at' = "scored"
  /\ UNCHANGED <<world, frame, kicks, notified, lastKick, perAp, dryLast,
                 ledger, groups, wire, pending, dnsAllow, lived, offList, cycleBase>>

\* Scorer.ingest or InactivityScorer.ingest flags the client, or does not.
Detect(point, trigger, next) ==
  /\ at = point
  /\ \/ at' = next /\ UNCHANGED frame
     \/ /\ Within /\ client \notin cfg.allowlist
        /\ StartHandle(client, seen[client], trigger)
  /\ UNCHANGED <<world, process, ledger, groups, wire, pass, observers>>

DetectRf == Detect("scored", "rf", "idled")
DetectInactivity == Detect("idled", "inactivity", "sample")

\* The list is exhausted.  detector.observe has flagged a set of MACs, absent
\* ones included, and the allowlist is captured before they are handled.
DnsObserved(F) ==
  /\ at = "sample"
  /\ F # {} => DnsDetector
  /\ pending' = F /\ dnsAllow' = cfg.allowlist
  /\ at' = "flagged"
  /\ UNCHANGED <<world, frame, process, ledger, groups, wire, client, seen, observers>>

\* A slip: the allowlist is not consulted.
Present(m) == seen[m] # NoAp

DnsMayKick(m) == m \notin dnsAllow /\ seen[m] # NoAp

\* A slip: skipping a client does not advance the loop.
StuckOnSkip(m) == IF m \in dnsAllow THEN pending ELSE pending \ {m}

Rest(m) == pending \ {m}

DnsNext(m) ==
  /\ at = "flagged" /\ m \in pending
  /\ pending' = Rest(m)
  /\ IF DnsMayKick(m) /\ Within
     THEN StartHandle(m, seen[m], "dns_thrash")
     ELSE UNCHANGED <<at, frame>>
  /\ UNCHANGED <<world, process, ledger, groups, wire, client, seen, dnsAllow, observers>>

\* AP statistics and pruning feed nothing here, and whether they raise or not
\* the loop sleeps next.
EndCycle ==
  /\ at = "flagged" /\ pending = {}
  /\ at' = "sleep"
  /\ UNCHANGED <<world, frame, process, ledger, groups, wire, pass, observers>>

\* insert_sample raises: the rest of the cycle is skipped.
SampleFails ==
  /\ at = "sample"
  /\ Raise
  /\ UNCHANGED <<world, process, ledger, groups, wire, pass, observers>>

----------------------------------------------------------------------------
HandleStep == Handle /\ UNCHANGED <<pass, observers>>

Fault ==
  \/ WireFaults /\ WireFails /\ UNCHANGED <<pass, observers>>
  \/ StoreFaults /\ StoreFails /\ UNCHANGED <<pass, observers>>
  \/ StoreFaults /\ SampleFails

Scan ==
  \/ BeginCycle
  \/ \E m \in Macs, ap \in Aps : ClientPolled(m, ap)
  \/ DetectRf \/ DetectInactivity
  \/ \E F \in SUBSET Macs : DnsObserved(F)
  \/ \E m \in Macs : DnsNext(m)
  \/ EndCycle
  \/ HandleStep
  \/ Fault

Next ==
  \/ Scan
  \/ Tick
  \/ \E c \in Configs : Reload(c) \/ Restart(c)

Spec == Init /\ [][Next]_vars
FairSpec == Spec /\ WF_vars(Scan)

----------------------------------------------------------------------------
(* What must hold.                                                         *)

FrameType ==
  [mac : Macs, ap : Aps, trigger : Triggers, cf : Configs, group : Nat, time : Nat]

RowType ==
  [mac : Macs, dry : BOOLEAN, mechanism : Mechanisms, group : Nat, ts : Nat]

CallType ==
  [mac : Macs, ap : Aps, mechanism : Mechanisms, group : Nat, at : Nat,
   epoch : Nat, ok : BOOLEAN]

InHandle == at = "entry" \/ at \in HandleAwaits

\* Where the scan task is, and whose call it is in.
ControlOK ==
  /\ at \in {"sleep", "sample"} \cup SyncPoints \cup HandleAwaits
  /\ frame \in FrameType \cup {NoFrame}
  /\ InHandle <=> frame # NoFrame
  /\ client \in Macs /\ seen \in [Macs -> Aps \cup {NoAp}]
  /\ (at \in {"scored", "idled"} \/ (InHandle /\ frame.trigger = "rf"))
       => seen[client] \in Aps

ActorOK ==
  /\ btm \in [Macs -> [group : Nat, ap : Aps \cup {NoAp}]]
  /\ outcome \in [Macs -> [ap : Aps \cup {NoAp}, group : Nat,
                           mechanism : Mechanisms \cup {"none"}]]
  /\ kicks \in [Macs -> Nat] /\ notified \in [Macs -> BOOLEAN]
  /\ lastKick \in Nat \cup {Never} /\ perAp \in [Aps -> Seq(Nat)]
  /\ dryLast \in [Macs -> Nat \cup {Never}]

RecordOK ==
  ledger \in Seq(RowType) /\ groups \in Nat /\ wire \in Seq(CallType)

WorldOK ==
  /\ cfg \in Configs /\ now \in Nat /\ epoch \in Nat
  /\ pending \in SUBSET Macs /\ dnsAllow \in SUBSET Macs
  /\ lived \in SUBSET Configs /\ cfg \in lived
  /\ offList \in SUBSET Macs /\ cycleBase \in Nat /\ roamed \in SUBSET Nat

\* The type invariant of the actor's and the loop's state: a call is in
\* progress exactly at handle's own points, and a client being scored has an
\* access point (scanner.py run_once, actor.py handle).
TypeOK == ControlOK /\ ActorOK /\ RecordOK /\ WorldOK

\* ADR-0004 single-flight, for wire-level calls: within one process, after a
\* call the controller accepted (BTM, deauth or fallback) no other call is made
\* before the minimum spacing of a configuration that was in force.
GlobalSpacing ==
  \A i, j \in DOMAIN wire :
    (i < j /\ wire[i].ok /\ wire[i].epoch = wire[j].epoch) =>
      \E c \in lived : wire[j].at - wire[i].at >= c.minGap

Fresh(k) == wire[k].mechanism # "deauth_fallback"

\* ADR-0004 per-AP cap: within one process no access point gets more accepted
\* fresh kicks in the window than the cap; fallbacks do not count.  A check drops
\* for good what is older than the window then in force, so after a reload only
\* the shortest window that was live is kept.
PerApCap ==
  \A j \in DOMAIN wire : (wire[j].ok /\ Fresh(j)) =>
    \E c, d \in lived :
      \/ c.apCap = 0
      \/ Cardinality({i \in 1..j :
            /\ wire[i].ok /\ Fresh(i) /\ wire[i].epoch = wire[j].epoch
            /\ wire[i].ap = wire[j].ap
            /\ wire[i].at >= wire[j].at - d.apWindow}) <= c.apCap

LogicalKick(k) == ~ledger[k].dry /\ ledger[k].mechanism # "deauth_fallback"

KicksUpTo(j, span) ==
  {i \in 1..j : /\ LogicalKick(i) /\ ledger[i].mac = ledger[j].mac
                /\ ledger[i].ts >= ledger[j].ts - span}

\* ADR-0007 caps: however often the daemon restarts, in no hour and in no day
\* does the ledger hold more logical kicks of a client than its cap.
CapsHold ==
  \A j \in DOMAIN ledger : LogicalKick(j) =>
    \E c \in lived :
      /\ c.perHour[ledger[j].mac] > 0 =>
           Cardinality(KicksUpTo(j, Hour)) <= c.perHour[ledger[j].mac]
      /\ c.perDay[ledger[j].mac] > 0 =>
           Cardinality(KicksUpTo(j, Day)) <= c.perDay[ledger[j].mac]

\* ADR-0007 escalation: the n-th kick of a run has waited at least the (n-1)-th
\* cooldown since the kick before it, across restarts.  (Kicks that left the run
\* between the decision and the row may have put it on a later rung.)
EscalationHolds ==
  \A j \in DOMAIN ledger : LogicalKick(j) =>
    \E c \in lived :
      c.cooldowns # << >> =>
        LET before == KicksUpTo(j, LargestRung(c.cooldowns)) \ {j}
        IN  \E r \in Rung(Cardinality(before), c.cooldowns)..Len(c.cooldowns) :
              \A i \in before : ledger[j].ts - ledger[i].ts >= c.cooldowns[r]

\* The quarantine counter counts logical kicks: one per accepted fresh call,
\* none for a fallback or a failed call, and it stops at quarantine_after_kicks.
QuarantineBudget ==
  \A m \in Macs :
    /\ kicks[m] = Cardinality({i \in DOMAIN wire :
         wire[i].mac = m /\ wire[i].ok /\ Fresh(i) /\ wire[i].epoch = epoch})
    /\ \E c \in lived : kicks[m] <= c.quarantineAfter

RowsOf(g, mech) ==
  {k \in DOMAIN ledger : ~ledger[k].dry /\ ledger[k].group = g /\ ledger[k].mechanism = mech}
AcceptedCalls(g, mech) ==
  {i \in DOMAIN wire : wire[i].ok /\ wire[i].group = g /\ wire[i].mechanism = mech}

\* actor.py:314-316, "no DB row (would record a kick that didn't happen)":
\* every live row is stamped with an accepted call of its client, group and
\* mechanism, and no group has more rows than calls.
AuditTruthful ==
  \A k \in DOMAIN ledger : ~ledger[k].dry =>
    LET calls == AcceptedCalls(ledger[k].group, ledger[k].mechanism) IN
    /\ \E i \in calls : wire[i].mac = ledger[k].mac /\ wire[i].at = ledger[k].ts
    /\ Cardinality(RowsOf(ledger[k].group, ledger[k].mechanism)) <= Cardinality(calls)

\* A client on the allowlist since the cycle began is not kicked in it, by any
\* detector, whatever is reloaded meanwhile (ADR-0001 requirement 5, AC-7).
AllowlistHonoured ==
  at \in {"fallback_wire", "wire"} => frame.mac \in offList

\* The verdict of the next poll is about the last accepted call to the client
\* (actor.py set_outcome and check_post_kick_outcome).  Where the store may raise it
\* may be about the call before it: the record of the last one failed.
OutcomeNamesLastKick ==
  \A m \in Macs : (outcome[m] # NoOutcome /\ ~(InHandle /\ frame.mac = m)) =>
    \E i \in DOMAIN wire :
      LET later == {j \in DOMAIN wire : j > i /\ wire[j].mac = m /\ wire[j].ok} IN
      /\ wire[i].mac = m /\ wire[i].ok
      /\ outcome[m] = [ap |-> wire[i].ap, mechanism |-> wire[i].mechanism,
                       group |-> wire[i].group]
      /\ later # {} => StoreFaults /\ \E j \in later : later = {j}

\* A pending BTM ends in one of four ways: its fallback is in the ledger, the
\* client was polled elsewhere, a BTM on another access point replaces it, or
\* the process died.
AttemptSettled ==
  [][\A m \in Macs : (btm[m].group # 0 /\ btm'[m] # btm[m]) =>
       \/ epoch' # epoch
       \/ \E k \in DOMAIN ledger' :
            /\ ledger'[k].mechanism = "deauth_fallback"
            /\ ledger'[k].group = btm[m].group
       \/ seen'[m] # btm[m].ap /\ seen'[m] # NoAp
       \/ btm'[m].group # 0 /\ btm'[m].ap # btm[m].ap]_vars

\* db.py:435-439: dry-run rows and fallback rows are not kicks.  With the limiter
\* open, only a client that was really kicked is deferred by the per-MAC policy.
DeferralEarned ==
  [][(/\ at = "ledger_read" /\ at' = Resume(frame.trigger)
      /\ GlobalClear(lastKick, now, cfg.minGap)
      /\ PerApClear(perAp[frame.ap], now, cfg.apCap, cfg.apWindow))
     => \E k \in DOMAIN ledger : LogicalKick(k) /\ ledger[k].mac = frame.mac]_vars

\* The attempts of the loop: an attempt whose fallback is on its way to the ledger is
\* spent, and a refused call is no attempt at all.
OpenAttempt(m) ==
  [group |-> btm[m].group, ap |-> btm[m].ap,
   spent |-> at = "fallback_insert" /\ frame.mac = m]

NoAttempt == [group |-> 0, ap |-> NoAp, spent |-> FALSE]

AcceptedCall(w) ==
  [mac |-> w.mac, ap |-> w.ap, how |-> w.mechanism, group |-> w.group]

Attempting == [m \in Macs |-> OpenAttempt(m)]
SentCalls == {AcceptedCall(wire[i]) : i \in {k \in DOMAIN wire : wire[k].ok}}

A == INSTANCE Attempts WITH
  Clients <- Macs, Points <- Aps, Idle <- NoAttempt,
  open <- Attempting, sent <- SentCalls, names <- 1..groups, rest <- at = "sleep"

\* The loop makes attempts as ADR-0003 promises them (module Attempts): every
\* step of it is a step of an attempt, or none.
MakesAttempts == A!Spec

\* main.py:170-175: whatever raises, the long-lived loop comes back to its sleep
\* and polls again.
CycleCompletes == (at # "sleep") ~> (at = "sleep")

----------------------------------------------------------------------------
(* What the comments say and the code does not do.                         *)

\* actor.py:375-379: after a roam the pending BTM is cleared, "otherwise ... a
\* future bad-state at the original ap_id would fire deauth_fallback".
NoStaleFallback == at = "fallback_wire" => frame.group \notin roamed

=============================================================================
