------------------------------- MODULE Reboot -------------------------------
(***************************************************************************)
(* The proactive reboot of opted-in devices (reboot/): the scheduler task  *)
(* of main.py, RebootScheduler, RebootCooldown, eligibility and the        *)
(* resolver, with the reboot_events table.  It runs beside the scan loop   *)
(* and shares nothing with it but the configuration, which a reload may    *)
(* swap at any of its awaits.                                              *)
(*                                                                         *)
(* The clock counts the minutes the schedule is written in.  A MAC is the  *)
(* text the configuration holds; normalize_mac maps it to its device.      *)
(***************************************************************************)
EXTENDS Integers, Sequences, FiniteSets, Functions

CONSTANTS
  Macs,          \* MAC addresses as reboot.eligible spells them
  Devices,       \* normalised MAC addresses
  DeviceOf,      \* normalize_mac
  Configs,       \* the configurations the daemon may be given
  Day,           \* minutes in a day, and the window of the daily cap
  HasNotifier,   \* a home_assistant: block is configured
  MaxTime,       \* bound: the clock stops here
  MaxStarts      \* bound: the process starts at most this often

ConfigType ==
  [enabled : BOOLEAN, proactive : BOOLEAN, schedule : 0..(Day - 1),
   dryRun : BOOLEAN, eligible : Seq(Macs), allowlist : SUBSET Devices,
   override : SUBSET Devices, gap : Nat, cap : Nat]

ASSUME DeviceOfAssumption == DeviceOf \in [Macs -> Devices]
ASSUME DayAssumption == Day \in Nat \ {0}
ASSUME ConfigAssumption == Configs \subseteq ConfigType
ASSUME HasNotifierAssumption == HasNotifier \in BOOLEAN
ASSUME BoundAssumption == MaxTime \in Nat /\ MaxStarts \in Nat \ {0}

Never == -1

VARIABLES
  cfg,         \* the live configuration
  now,         \* the clock
  epoch,       \* which incarnation of the process is running
  at,          \* the await the scheduler task is in; "sweep" between devices
  sweep,       \* what is left of the loop over reboot.eligible
  mac,         \* the device the sweep is at
  lastDate,    \* _last_fired_date
  lastReboot,  \* RebootCooldown._last_reboot_at
  recent,      \* RebootCooldown._per_device
  events,      \* the reboot_events table: survives the process
  power        \* the calls the rebooter was given, in order

\* Observers, read by the properties and by no action.
VARIABLES
  lived,       \* the configurations that have been live
  permitted    \* who could be rebooted since this device's turn came

memory == <<lastDate, lastReboot, recent>>
outside == <<events, power>>
observers == <<lived, permitted>>
vars == <<cfg, now, epoch, at, sweep, mac, memory, outside, observers>>

Today == now \div Day

----------------------------------------------------------------------------
(* What is asked before a device is rebooted.                              *)

\* A slip: the allowlist is not consulted.
OptedIn(c, m) ==
  /\ c.enabled
  /\ \E i \in DOMAIN c.eligible : DeviceOf[c.eligible[i]] = DeviceOf[m]

Eligible(c, m) ==
  /\ c.enabled
  /\ DeviceOf[m] \notin c.allowlist
  /\ \E i \in DOMAIN c.eligible : DeviceOf[c.eligible[i]] = DeviceOf[m]

\* Who may really be rebooted under a configuration.
Permitted(c) ==
  IF c.dryRun THEN {} ELSE {d \in Devices \ c.allowlist :
    c.enabled /\ \E i \in DOMAIN c.eligible : DeviceOf[c.eligible[i]] = d}

\* A slip: any tick of the scheduled minute fires.
MinuteMatches == cfg.proactive /\ now % Day = cfg.schedule

Due == cfg.proactive /\ now % Day = cfg.schedule /\ lastDate # Today

Cooled(m) == cfg.gap = 0 \/ lastReboot[m] = Never \/ now - lastReboot[m] >= cfg.gap

\* Entries the deque has dropped are entries this count no longer sees.
UnderCap(m) ==
  cfg.cap = 0 \/ Cardinality({i \in DOMAIN recent[m] : recent[m][i] >= now - Day}) < cfg.cap

\* A slip: the per-device cooldown is not asked.
CapOnly(m) == UnderCap(m)

CanReboot(m) == Cooled(m) /\ UnderCap(m)

----------------------------------------------------------------------------
Start(c) == IF c.enabled /\ c.proactive THEN "tick" ELSE "off"

Init ==
  /\ cfg \in Configs /\ now = 0 /\ epoch = 1
  /\ at = Start(cfg) /\ sweep = << >> /\ mac \in Macs
  /\ lastDate = Never /\ lastReboot = [m \in Macs |-> Never]
  /\ recent = [m \in Macs |-> << >>]
  /\ events = << >> /\ power = << >> /\ lived = {cfg} /\ permitted = {}

Tick ==
  /\ at # "sweep" /\ now < MaxTime
  /\ now' = now + 1
  /\ UNCHANGED <<cfg, epoch, at, sweep, mac, memory, outside, observers>>

\* update_config keeps the cooldown's state; a scheduler that was not built at
\* the start is not built by a reload.
Reload(c) ==
  /\ at # "sweep" /\ c # cfg
  /\ cfg' = c /\ lived' = lived \cup {c}
  /\ permitted' = permitted \cup Permitted(c)
  /\ UNCHANGED <<now, epoch, at, sweep, mac, memory, outside>>

Restart(c) ==
  /\ at # "sweep" /\ epoch < MaxStarts
  /\ epoch' = epoch + 1 /\ cfg' = c /\ lived' = lived \cup {c}
  /\ at' = Start(c) /\ sweep' = << >>
  /\ lastDate' = Never /\ lastReboot' = [m \in Macs |-> Never]
  /\ recent' = [m \in Macs |-> << >>]
  /\ permitted' = {}
  /\ UNCHANGED <<now, mac, outside>>

----------------------------------------------------------------------------
(* run_due and attempt.                                                    *)

MarkFired == lastDate' = Today

Wake ==
  /\ at = "tick" /\ Due
  /\ MarkFired /\ sweep' = cfg.eligible
  /\ at' = "sweep"
  /\ UNCHANGED <<cfg, now, epoch, mac, lastReboot, recent, outside, observers>>

EndSweep ==
  /\ at = "sweep" /\ sweep = << >>
  /\ at' = "tick"
  /\ UNCHANGED <<cfg, now, epoch, sweep, mac, memory, outside, observers>>

\* A device with an explicit target is not looked up.
Explicit(m) == DeviceOf[m] \in cfg.override

Attempt ==
  /\ at = "sweep" /\ sweep # << >>
  /\ LET m == Head(sweep)
     IN /\ mac' = m /\ sweep' = Tail(sweep)
        /\ \/ /\ ~Eligible(cfg, m) /\ at' = "sweep"
           \/ /\ Eligible(cfg, m) /\ cfg.dryRun
              /\ at' = IF Explicit(m) THEN "dry_insert" ELSE "dry_resolve"
           \/ /\ Eligible(cfg, m) /\ ~cfg.dryRun /\ ~CanReboot(m)
              /\ at' = "sweep"
           \/ /\ Eligible(cfg, m) /\ ~cfg.dryRun /\ CanReboot(m)
              /\ at' = IF Explicit(m) THEN "reboot" ELSE "resolve"
  /\ permitted' = Permitted(cfg)
  /\ UNCHANGED <<cfg, now, epoch, memory, outside, lived>>

\* The registry has answered: an entity, or none that may be used.
Resolved ==
  /\ \/ at = "dry_resolve" /\ at' = "dry_insert"
     \/ at = "resolve" /\ at' \in {"reboot", "sweep"}
  /\ UNCHANGED <<cfg, now, epoch, sweep, mac, memory, outside, observers>>

Call(ok) ==
  [mac |-> mac, at |-> now, date |-> lastDate, epoch |-> epoch, ok |-> ok]

RecordReboot ==
  /\ lastReboot' = [lastReboot EXCEPT ![mac] = now]
  /\ recent' = IF cfg.cap > 0 THEN [recent EXCEPT ![mac] = Append(@, now)] ELSE recent

Rebooted ==
  /\ at = "reboot"
  /\ power' = Append(power, Call(TRUE))
  /\ RecordReboot
  /\ at' = "insert"
  /\ UNCHANGED <<cfg, now, epoch, sweep, mac, lastDate, events, observers>>

Row == [mac |-> mac, dry |-> at = "dry_insert", date |-> lastDate]

Written ==
  /\ at \in {"insert", "dry_insert"}
  /\ events' = Append(events, Row)
  /\ at' = IF at = "insert" /\ HasNotifier THEN "notify" ELSE "sweep"
  /\ UNCHANGED <<cfg, now, epoch, sweep, mac, memory, power, observers>>

Notified ==
  /\ at = "notify" /\ at' = "sweep"
  /\ UNCHANGED <<cfg, now, epoch, sweep, mac, memory, outside, observers>>

\* A slip: the exception ends the sweep.
AbandonSweep == at' = "sweep" /\ sweep' = << >>

\* run_due catches what one device raises and goes on with the next.
NextDevice == at' = "sweep" /\ UNCHANGED sweep

\* An await of the attempt raises.  The rebooter may have acted all the same,
\* and the row may be in the table with its acknowledgement lost.
AttemptFails ==
  /\ at \in {"dry_resolve", "resolve", "reboot", "insert", "dry_insert", "notify"}
  /\ power' = IF at = "reboot" THEN Append(power, Call(FALSE)) ELSE power
  /\ events' \in {events} \cup
       (IF at \in {"insert", "dry_insert"} THEN {Append(events, Row)} ELSE {})
  /\ NextDevice
  /\ UNCHANGED <<cfg, now, epoch, mac, memory, observers>>

Step ==
  \/ Wake \/ EndSweep \/ Attempt \/ Resolved \/ Rebooted
  \/ Written \/ Notified \/ AttemptFails

Next ==
  \/ Step
  \/ Tick
  \/ \E c \in Configs : Reload(c) \/ Restart(c)

Spec == Init /\ [][Next]_vars
FairSpec == Spec /\ WF_vars(Step)
----------------------------------------------------------------------------
(* What must hold.                                                         *)

CallType == [mac : Macs, at : Nat, date : Nat, epoch : Nat, ok : BOOLEAN]
RowType == [mac : Macs, dry : BOOLEAN, date : Nat]

SameDevice(i, j) == DeviceOf[power[i].mac] = DeviceOf[power[j].mac]

\* Within one process a device is not rebooted again before the
\* cooldown of a configuration in force has passed.
DeviceSpacing ==
  \A i, j \in DOMAIN power :
    (i < j /\ power[i].ok /\ SameDevice(i, j) /\ power[i].epoch = power[j].epoch)
      => \E c \in lived : power[j].at - power[i].at >= c.gap

\* The accepted reboots of power[j]'s device in the day up to it.
DayBefore(j) ==
  {i \in 1..j : power[i].ok /\ SameDevice(i, j) /\ power[i].at >= power[j].at - Day}

\* Within one process no rolling day holds more accepted reboots
\* of a device than the daily cap.
DailyCap ==
  \A j \in DOMAIN power : power[j].ok =>
    \E c \in lived :
      \/ c.cap = 0
      \/ Cardinality({i \in DayBefore(j) : power[i].epoch = power[j].epoch}) <= c.cap

\* ADR-0006 AC-3 and AC-4: whatever is reloaded, listed twice or raises between two
\* reboots of a device, neither its cooldown nor its daily cap is broken.
CooldownHolds == DeviceSpacing /\ DailyCap

\* ADR-0006 AC-1 and scheduler.py:62-63: for each calendar day a process asks for
\* a device's reboot at most as often as reboot.eligible lists it, however often
\* the loop ticks and the schedule is reloaded.
OncePerDay ==
  \A j \in DOMAIN power : \E c \in lived :
    Cardinality({i \in DOMAIN power : /\ SameDevice(i, j) /\ power[i].date = power[j].date
                                     /\ power[i].epoch = power[j].epoch})
      <= Cardinality({k \in DOMAIN c.eligible :
           DeviceOf[c.eligible[k]] = DeviceOf[power[j].mac]})

\* A device that was not to be rebooted at any moment
\* since its turn came - allowlisted, never opted in, or under dry run - is not.
OnlyPermitted == at = "reboot" => DeviceOf[mac] \in permitted

\* Every row that says "fired" stands for a reboot the backend accepted, on
\* the day the row belongs to (scheduler.py:106-110).
AuditTruthful ==
  \A k \in DOMAIN events : ~events[k].dry =>
    Cardinality({n \in DOMAIN events :
        ~events[n].dry /\ events[n].mac = events[k].mac /\ events[n].date = events[k].date})
      <= Cardinality({i \in DOMAIN power :
           power[i].ok /\ power[i].mac = events[k].mac /\ power[i].date = events[k].date})

\* ADR-0005 AC-4 and AC-6, ADR-0006 AC-5: no reboot without a permission that held at
\* some moment of the device's turn, and no row without the reboot it reports.
Justified == OnlyPermitted /\ AuditTruthful

\* scheduler.py:74-76: one device's failure does not abort the sweep: every
\* device of it gets its turn, unless the process dies first.
EveryTurnComes ==
  \A m \in Macs, e \in 1..MaxStarts :
    (epoch = e /\ \E i \in DOMAIN sweep : sweep[i] = m) ~> (mac = m \/ epoch # e)

=============================================================================
