------------------------------- MODULE Actor -------------------------------
(***************************************************************************)
(* Actor.handle and Actor.check_post_kick_outcome (actor.py) with the      *)
(* state they keep: PendingKicks, BackoffManager, KickRateLimiter and the  *)
(* kick_events ledger.                                                     *)
(*                                                                         *)
(* The daemon is one asyncio event loop: everything between two awaits is  *)
(* atomic.  at is the await (or the point inside an atomic stretch) the    *)
(* scan task has reached; at a point of SyncPoints nothing but the scan    *)
(* task can run, so an atomic stretch of the code may take several actions *)
(* here and is still atomic.                                               *)
(***************************************************************************)
EXTENDS KickGates

CONSTANTS
  Macs,          \* client MAC addresses
  Aps,           \* access points
  NoAp,          \* "no access point": a client that is not associated
  Configs,       \* the configurations the daemon may be given
  HasNotifier,   \* a home_assistant: block is configured
  DryThrottle    \* _DRY_RUN_DEFAULT_THROTTLE_SECONDS

Triggers == {"rf", "inactivity", "dns_thrash"}
FreshMechanisms == {"btm", "deauth"}
Mechanisms == FreshMechanisms \cup {"deauth_fallback"}

\* A loaded configuration as the actor sees it: mechanism, perHour and perDay
\* are what resolve_kick_mechanism and resolve_caps return for each MAC.
ConfigType ==
  [dryRun : BOOLEAN, allowlist : SUBSET Macs,
   mechanism : [Macs -> {"btm", "auto", "deauth"}],
   minGap : Nat, apCap : Nat, apWindow : Nat, quarantineAfter : Nat,
   cooldowns : Seq(Nat), perHour : [Macs -> Nat], perDay : [Macs -> Nat]]

ASSUME ConfigAssumption == Configs \subseteq ConfigType
ASSUME NoApAssumption == NoAp \notin Aps
ASSUME HasNotifierAssumption == HasNotifier \in BOOLEAN
ASSUME DryThrottleAssumption == DryThrottle \in Nat

VARIABLES
  cfg,        \* the live configuration, swapped in place by a reload
  now,        \* the clock (time.monotonic and time.time, in the same unit)
  epoch,      \* which incarnation of the process is running
  at,         \* where the scan task is
  frame,      \* the locals of the Actor.handle call in progress
  btm,        \* PendingKicks._btm
  outcome,    \* PendingKicks._outcome
  kicks,      \* MacState.kick_count
  notified,   \* MacState.quarantine_notified
  lastKick,   \* KickRateLimiter._last_kick_at
  perAp,      \* KickRateLimiter._per_ap_kicks
  dryLast,    \* Actor._dry_run_last_write
  ledger,     \* the kick_events table: survives the process
  groups,     \* how many attempt groups (uuid4) have been drawn
  wire        \* the calls the UniFi controller was sent, in order

process == <<btm, outcome, kicks, notified, lastKick, perAp, dryLast>>
world == <<cfg, now, epoch>>

SyncPoints == {"scored", "idled", "entry", "flagged"}
HandleAwaits == {"dry_insert", "quarantine_notify", "fallback_wire",
                 "fallback_insert", "ledger_read", "wire", "insert", "notify"}

NoBtm == [group |-> 0, ap |-> NoAp]
NoOutcome == [ap |-> NoAp, mechanism |-> "none", group |-> 0]
NoFrame == [trigger |-> "none"]

FreshProcess ==
  [btm |-> [m \in Macs |-> NoBtm], outcome |-> [m \in Macs |-> NoOutcome],
   kicks |-> [m \in Macs |-> 0], notified |-> [m \in Macs |-> FALSE],
   lastKick |-> Never, perAp |-> [a \in Aps |-> << >>],
   dryLast |-> [m \in Macs |-> Never]]

----------------------------------------------------------------------------
(* The handle call.                                                        *)

\* A slip: the configured word is sent as it is.
MechanismAsWritten(c, m) == c.mechanism[m]

\* _dispatch_mechanism: auto sends BTM first.
Mechanism(c, m) == IF c.mechanism[m] = "deauth" THEN "deauth" ELSE "btm"

StartHandle(m, ap, trigger) ==
  /\ at' = "entry"
  /\ frame' = [mac |-> m, ap |-> ap, trigger |-> trigger, cf |-> cfg,
               group |-> 0, time |-> now]

\* Where run_once goes on after handle() returns, by the call that raised it.
Resume(trigger) ==
  CASE trigger = "rf" -> "idled"
    [] trigger = "inactivity" -> "sample"
    [] trigger = "dns_thrash" -> "flagged"

Return == at' = Resume(frame.trigger) /\ frame' = NoFrame

\* An exception leaves handle and run_once; Daemon.run logs it and sleeps.
Raise == at' = "sleep" /\ frame' = NoFrame

DryInterval(c) == IF c.cooldowns # << >> THEN c.cooldowns[1] ELSE DryThrottle

DryRow == [mac |-> frame.mac, dry |-> TRUE,
           mechanism |-> Mechanism(frame.cf, frame.mac), group |-> 0,
           ts |-> frame.time]

\* Dry run: at most one would-kick row per MAC and throttle interval.
HandleDryRun ==
  /\ at = "entry" /\ cfg.dryRun
  /\ LET last == dryLast[frame.mac]
     IN IF last = Never \/ now - last >= DryInterval(cfg)
        THEN /\ dryLast' = [dryLast EXCEPT ![frame.mac] = now]
             /\ at' = "dry_insert" /\ UNCHANGED frame
        ELSE Return /\ UNCHANGED dryLast
  /\ UNCHANGED <<world, btm, outcome, kicks, notified, lastKick, perAp,
                 ledger, groups, wire>>

DryRunWritten ==
  /\ at = "dry_insert"
  /\ ledger' = Append(ledger, DryRow)
  /\ Return
  /\ UNCHANGED <<world, process, groups, wire>>

\* A slip: one more kick before quarantine.
QuarantinedLate(m) == kicks[m] > cfg.quarantineAfter

Quarantined(m) == kicks[m] >= cfg.quarantineAfter

HandleQuarantine ==
  /\ at = "entry" /\ ~cfg.dryRun /\ Quarantined(frame.mac)
  /\ IF HasNotifier /\ ~notified[frame.mac]
     THEN at' = "quarantine_notify" /\ UNCHANGED frame
     ELSE Return
  /\ UNCHANGED <<world, process, ledger, groups, wire>>

QuarantineNotified ==
  /\ at = "quarantine_notify"
  /\ notified' = [notified EXCEPT ![frame.mac] = TRUE]
  /\ Return
  /\ UNCHANGED <<world, btm, outcome, kicks, lastKick, perAp, dryLast,
                 ledger, groups, wire>>

\* A BTM request is outstanding for this client on this access point.
AwaitingRoam == btm[frame.mac].group # 0 /\ btm[frame.mac].ap = frame.ap

\* The fallback deauth is gated by the global limit alone; a deferred one
\* leaves the pending BTM in place.
HandleFallback ==
  /\ at = "entry" /\ ~cfg.dryRun /\ ~Quarantined(frame.mac) /\ AwaitingRoam
  /\ IF GlobalClear(lastKick, now, cfg.minGap)
     THEN /\ at' = "fallback_wire"
          /\ frame' = [frame EXCEPT !.group = btm[frame.mac].group]
     ELSE Return
  /\ UNCHANGED <<world, process, ledger, groups, wire>>

Call(mechanism, ok) ==
  [mac |-> frame.mac, ap |-> frame.ap, mechanism |-> mechanism,
   group |-> frame.group, at |-> now, epoch |-> epoch, ok |-> ok]

Row(mechanism) ==
  [mac |-> frame.mac, dry |-> FALSE, mechanism |-> mechanism,
   group |-> frame.group, ts |-> frame.time]

\* A slip: the fallback's verdict is filed under the fresh mechanism.
OutcomeAsFresh(mechanism) ==
  [ap |-> frame.ap, mechanism |-> Mechanism(frame.cf, frame.mac), group |-> frame.group]

Outcome(mechanism) ==
  [ap |-> frame.ap, mechanism |-> mechanism, group |-> frame.group]

\* A slip: the fallback does not restart the single-flight timer.
RecordNothing == UNCHANGED lastKick

RecordWireCall == lastKick' = now

\* A slip: the pending BTM outlives its fallback.
KeepBtm(m) == UNCHANGED btm

ClearBtm(m) == btm' = [btm EXCEPT ![m] = NoBtm]

FallbackSent ==
  /\ at = "fallback_wire"
  /\ wire' = Append(wire, Call("deauth_fallback", TRUE))
  /\ RecordWireCall
  /\ at' = "fallback_insert"
  /\ frame' = [frame EXCEPT !.time = now]
  /\ UNCHANGED <<world, btm, outcome, kicks, notified, perAp, dryLast,
                 ledger, groups>>

FallbackWritten ==
  /\ at = "fallback_insert"
  /\ ledger' = Append(ledger, Row("deauth_fallback"))
  /\ outcome' = [outcome EXCEPT ![frame.mac] = Outcome("deauth_fallback")]
  /\ ClearBtm(frame.mac)
  /\ Return
  /\ UNCHANGED <<world, kicks, notified, lastKick, perAp, dryLast, groups, wire>>

----------------------------------------------------------------------------
(* A fresh kick.                                                           *)

PolicyOn(c, m) == c.cooldowns # << >> \/ c.perHour[m] > 0 \/ c.perDay[m] > 0

\* The limiter, asked with the thresholds in force at that instant: on a pass
\* an attempt group is drawn and the request goes out.
LimiterGate ==
  LET clear == GlobalClear(lastKick, now, cfg.minGap)
      pass  == clear /\ PerApClear(perAp[frame.ap], now, cfg.apCap, cfg.apWindow)
  IN  /\ perAp' = IF clear /\ cfg.apCap > 0
                  THEN [perAp EXCEPT ![frame.ap] = Prune(@, now - cfg.apWindow)]
                  ELSE perAp
      /\ IF pass
         THEN /\ groups' = groups + 1
              /\ at' = "wire"
              /\ frame' = [frame EXCEPT !.group = groups + 1]
         ELSE Return /\ UNCHANGED groups

HandleFresh ==
  /\ at = "entry" /\ ~cfg.dryRun /\ ~Quarantined(frame.mac) /\ ~AwaitingRoam
  /\ IF PolicyOn(cfg, frame.mac)
     THEN at' = "ledger_read" /\ UNCHANGED <<frame, perAp, groups>>
     ELSE LimiterGate
  /\ UNCHANGED <<world, btm, outcome, kicks, notified, lastKick, dryLast,
                 ledger, wire>>

\* A slip: rows of a dry run count as kicks.
RecentWithDryRun(m, since) ==
  [k \in {i \in DOMAIN ledger :
            /\ ledger[i].mac = m /\ ledger[i].ts >= since
            /\ ledger[i].mechanism # "deauth_fallback"}
     |-> ledger[k].ts]

\* recent_kick_timestamps: one live, non-fallback row per logical kick.
RecentKicks(m, since) ==
  [k \in {i \in DOMAIN ledger :
            /\ ledger[i].mac = m /\ ledger[i].ts >= since
            /\ ~ledger[i].dry /\ ledger[i].mechanism # "deauth_fallback"}
     |-> ledger[k].ts]

\* The ledger read has come back.  The policy is judged with the time and the
\* limits taken before the await.
PolicyAllows ==
  LET c == frame.cf
      recent == RecentKicks(frame.mac, frame.time - Lookback(c.cooldowns))
  IN  BackoffAllows(recent, frame.time, c.cooldowns,
                    c.perHour[frame.mac], c.perDay[frame.mac])

LedgerRead ==
  /\ at = "ledger_read"
  /\ IF PolicyAllows
     THEN LimiterGate
     ELSE Return /\ UNCHANGED <<perAp, groups>>
  /\ UNCHANGED <<world, btm, outcome, kicks, notified, lastKick, dryLast,
                 ledger, wire>>

KickSent ==
  LET mech == Mechanism(frame.cf, frame.mac) IN
  /\ at = "wire"
  /\ wire' = Append(wire, Call(mech, TRUE))
  /\ btm' = IF mech = "btm"
            THEN [btm EXCEPT ![frame.mac] = [group |-> frame.group, ap |-> frame.ap]]
            ELSE btm
  /\ lastKick' = now
  /\ perAp' = IF cfg.apCap > 0 THEN [perAp EXCEPT ![frame.ap] = Append(@, now)] ELSE perAp
  /\ kicks' = [kicks EXCEPT ![frame.mac] = @ + 1]
  /\ at' = "insert"
  /\ frame' = [frame EXCEPT !.time = now]
  /\ UNCHANGED <<world, outcome, notified, dryLast, ledger, groups>>

KickWritten ==
  LET mech == Mechanism(frame.cf, frame.mac) IN
  /\ at = "insert"
  /\ ledger' = Append(ledger, Row(mech))
  /\ outcome' = [outcome EXCEPT ![frame.mac] = Outcome(mech)]
  /\ IF HasNotifier THEN at' = "notify" /\ UNCHANGED frame ELSE Return
  /\ UNCHANGED <<world, btm, kicks, notified, lastKick, perAp, dryLast, groups, wire>>

KickNotified ==
  /\ at = "notify"
  /\ Return
  /\ UNCHANGED <<world, process, ledger, groups, wire>>

----------------------------------------------------------------------------
(* What can fail.                                                          *)

\* A slip: the exception is swallowed and the row is written all the same.
Swallow == at' = "insert" /\ UNCHANGED frame

\* Nothing below the controller call runs when it raises.
Propagate == Raise

\* The controller call raises; the controller may or may not have acted.
WireFails ==
  /\ at \in {"wire", "fallback_wire"}
  /\ wire' = Append(wire, Call(IF at = "wire" THEN Mechanism(frame.cf, frame.mac)
                               ELSE "deauth_fallback", FALSE))
  /\ Propagate
  /\ UNCHANGED <<world, process, ledger, groups>>

\* A store call raises.  A failed insert may have reached the table all the
\* same: the commit took place and its acknowledgement was lost.
StoreFails ==
  /\ at \in {"dry_insert", "insert", "fallback_insert", "ledger_read"}
  /\ \/ UNCHANGED ledger
     \/ /\ at # "ledger_read"
        /\ ledger' = Append(ledger,
             CASE at = "dry_insert" -> DryRow
               [] at = "insert" -> Row(Mechanism(frame.cf, frame.mac))
               [] at = "fallback_insert" -> Row("deauth_fallback"))
  /\ Raise
  /\ UNCHANGED <<world, process, groups, wire>>

----------------------------------------------------------------------------
\* A slip: any verdict clears the pending BTM.
AnyVerdict(o, ap) == o # NoOutcome

Obeyed(o, ap) == o # NoOutcome /\ o.ap # ap /\ o.mechanism = "btm"

\* check_post_kick_outcome, called for every polled client: the verdict of
\* the last kick is taken, and a BTM the client obeyed is no longer pending.
CheckPostKickOutcome(m, ap) ==
  LET o == outcome[m] IN
  /\ outcome' = [outcome EXCEPT ![m] = NoOutcome]
  /\ IF Obeyed(o, ap) THEN ClearBtm(m) ELSE UNCHANGED btm

Handle ==
  \/ HandleDryRun \/ DryRunWritten
  \/ HandleQuarantine \/ QuarantineNotified
  \/ HandleFallback \/ FallbackSent \/ FallbackWritten
  \/ HandleFresh \/ LedgerRead \/ KickSent \/ KickWritten \/ KickNotified
=============================================================================
