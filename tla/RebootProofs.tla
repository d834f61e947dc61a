---------------------------- MODULE RebootProofs ----------------------------
(***************************************************************************)
(* Proofs about Reboot, for any devices, spellings, configurations, day    *)
(* and bounds.                                                             *)
(*                                                                         *)
(* A device's cooldown and cap are judged before its target is resolved    *)
(* and booked after it was rebooted, with reloads between.  The invariants *)
(* say what is still true of a device in between: it has waited, there was *)
(* room under a cap, it may be rebooted, and the listing it was taken from *)
(* is one that no call was made for.                                       *)
(***************************************************************************)
EXTENDS Reboot, FiniteSetTheorems, SequenceTheorems, TLAPS

Turns == {"dry_resolve", "dry_insert", "resolve", "reboot", "insert", "notify"}

\* The type invariant: during a sweep the day it belongs to is on record.
TypeOK ==
  /\ cfg \in Configs /\ now \in Nat /\ epoch \in Nat
  /\ at \in {"off", "tick", "sweep"} \cup Turns
  /\ sweep \in Seq(Macs) /\ mac \in Macs
  /\ lastDate \in Nat \cup {Never} /\ (at \notin {"off", "tick"} => lastDate \in Nat)
  /\ lastReboot \in [Macs -> Nat \cup {Never}] /\ recent \in [Macs -> Seq(Nat)]
  /\ events \in Seq(RowType) /\ power \in Seq(CallType)
  /\ lived \in SUBSET Configs /\ cfg \in lived /\ permitted \in SUBSET Devices

\* The limits of a configuration.
LEMMA Limits ==
  ASSUME NEW c \in Configs
  PROVE  /\ c.gap \in Nat /\ c.cap \in Nat /\ c.eligible \in Seq(Macs)
         /\ Permitted(c) \in SUBSET Devices
BY ConfigAssumption DEF ConfigType, Permitted

\* scheduler.py is_due: the calendar day never goes back.
LEMMA Days ==
  ASSUME NEW n \in Nat, NEW k \in Nat, n <= k
  PROVE  n \div Day \in Nat /\ k \div Day \in Nat /\ n \div Day <= k \div Day
BY DayAssumption

\* The day the clock stands at.
LEMMA TodayType ==
  ASSUME TypeOK
  PROVE  Today \in Nat
<1>1. now \in Nat /\ now <= now
  BY DEF TypeOK
<1>2. QED
  BY <1>1, Days DEF Today

\* The calls made and the rows written.
LEMMA Records ==
  ASSUME TypeOK
  PROVE  /\ Len(power) \in Nat /\ DOMAIN power = 1..Len(power)
         /\ \A i \in DOMAIN power : /\ power[i] \in CallType /\ power[i].at \in Nat
                                    /\ power[i].date \in Nat /\ power[i].epoch \in Nat
                                    /\ power[i].mac \in Macs
         /\ Len(events) \in Nat /\ DOMAIN events = 1..Len(events)
<1>1. power \in Seq(CallType) /\ events \in Seq(RowType)
  BY DEF TypeOK
<1>2. /\ Len(power) \in Nat /\ DOMAIN power = 1..Len(power)
      /\ \A i \in DOMAIN power : power[i] \in CallType
      /\ Len(events) \in Nat /\ DOMAIN events = 1..Len(events)
  BY <1>1, LenProperties, ElementOfSeq
<1>3. QED
  BY <1>2 DEF CallType

\* The positions of a sequence that a property counts are finitely many.
LEMMA PositionsFinite ==
  ASSUME NEW S, NEW s \in Seq(S), NEW T \in SUBSET DOMAIN s
  PROVE  IsFiniteSet(T) /\ Cardinality(T) \in Nat
<1>1. DOMAIN s = 1..Len(s) /\ Len(s) \in Nat
  BY LenProperties
<1>2. IsFiniteSet(DOMAIN s)
  BY <1>1, FS_Interval
<1>3. QED
  BY <1>2, FS_Subset, FS_CardinalityType

\* What one more call does to the calls.
LEMMA Called ==
  ASSUME TypeOK, NEW w, power' = Append(power, w)
  PROVE  /\ DOMAIN power' = DOMAIN power \cup {Len(power) + 1}
         /\ \A i \in DOMAIN power : power'[i] = power[i] /\ i < Len(power) + 1
         /\ power'[Len(power) + 1] = w /\ Len(power) + 1 \notin DOMAIN power
BY Records, AppendProperties DEF TypeOK

\* Every step leaves the state typed.
LEMMA NextType == TypeOK /\ [Next]_vars => TypeOK'
<1> SUFFICES ASSUME TypeOK, [Next]_vars PROVE TypeOK'
  OBVIOUS
<1> USE DEF memory, outside, observers
<1>1. CASE UNCHANGED vars
  BY <1>1 DEF vars, TypeOK
<1>2. CASE Tick
  BY <1>2 DEF Tick, TypeOK
<1>3. ASSUME NEW c \in Configs, Reload(c) PROVE TypeOK'
  BY <1>3, Limits DEF Reload, TypeOK
<1>4. ASSUME NEW c \in Configs, Restart(c) PROVE TypeOK'
  <2>1. at' \in {"off", "tick"}
    BY <1>4 DEF Restart, Start
  <2>2. recent' \in [Macs -> Seq(Nat)] /\ sweep' \in Seq(Macs) /\ permitted' \in SUBSET Devices
    BY <1>4 DEF Restart
  <2>3. lastReboot' \in [Macs -> Nat \cup {Never}]
    BY <1>4 DEF Restart
  <2>4. QED
    BY <1>4, <2>1, <2>2, <2>3 DEF Restart, TypeOK, Turns
<1>5. CASE Wake
  <2>1. Today \in Nat /\ cfg.eligible \in Seq(Macs)
    BY TodayType, Limits DEF TypeOK
  <2>2. QED
    BY <1>5, <2>1 DEF Wake, MarkFired, TypeOK
<1>6. CASE EndSweep \/ Resolved \/ Notified
  BY <1>6 DEF EndSweep, Resolved, Notified, TypeOK, Turns
<1>7. CASE Attempt
  <2>1. Head(sweep) \in Macs /\ Tail(sweep) \in Seq(Macs)
    BY <1>7, HeadTailProperties DEF Attempt, TypeOK
  <2>2. at = "sweep" /\ at' \in {"sweep", "dry_insert", "dry_resolve", "reboot", "resolve"}
    BY <1>7 DEF Attempt
  <2>3. permitted' \in SUBSET Devices
    BY <1>7, Limits DEF Attempt, TypeOK
  <2>4. QED
    BY <1>7, <2>1, <2>2, <2>3 DEF Attempt, TypeOK, Turns
<1>8. CASE Rebooted
  <2>1. Call(TRUE) \in CallType
    BY <1>8 DEF Rebooted, Call, CallType, TypeOK
  <2>2. power' \in Seq(CallType)
    BY <1>8, <2>1, AppendProperties DEF Rebooted, TypeOK
  <2>3. Append(recent[mac], now) \in Seq(Nat)
    BY AppendProperties DEF TypeOK
  <2>4. recent' \in [Macs -> Seq(Nat)] /\ lastReboot' \in [Macs -> Nat \cup {Never}]
    BY <1>8, <2>3 DEF Rebooted, RecordReboot, TypeOK
  <2>5. QED
    BY <1>8, <2>2, <2>4 DEF Rebooted, TypeOK, Turns
<1>9. CASE Written
  <2>1. Row \in RowType
    BY <1>9 DEF Written, Row, RowType, TypeOK
  <2>2. events' \in Seq(RowType)
    BY <1>9, <2>1, AppendProperties DEF Written, TypeOK
  <2>3. QED
    BY <1>9, <2>2 DEF Written, TypeOK, Turns
<1>10. CASE AttemptFails
  <2>1. at \in Turns /\ Row \in RowType /\ Call(FALSE) \in CallType
    BY <1>10 DEF AttemptFails, Row, RowType, Call, CallType, TypeOK, Turns
  <2>2. power' \in Seq(CallType)
    <3>1. power \in Seq(CallType) /\ Append(power, Call(FALSE)) \in Seq(CallType)
      BY <2>1, AppendProperties DEF TypeOK
    <3>2. QED
      BY <1>10, <3>1 DEF AttemptFails
  <2>3. events' \in Seq(RowType)
    <3>1. events \in Seq(RowType) /\ Append(events, Row) \in Seq(RowType)
      BY <2>1, AppendProperties DEF TypeOK
    <3>2. events' = events \/ events' = Append(events, Row)
      BY <1>10 DEF AttemptFails
    <3>3. QED
      BY <3>1, <3>2
  <2>4. /\ at' = "sweep" /\ lastDate \in Nat
        /\ UNCHANGED <<sweep, cfg, now, epoch, mac, lastDate, lastReboot, recent, lived, permitted>>
    BY <1>10, <2>1 DEF AttemptFails, NextDevice, TypeOK, Turns
  <2>5. QED
    BY <2>2, <2>3, <2>4 DEF TypeOK
<1>11. QED
  BY <1>1, <1>2, <1>3, <1>4, <1>5, <1>6, <1>7, <1>8, <1>9, <1>10 DEF Next, Step

\* The scheduler's state is well typed in every behaviour.
THEOREM TypeCorrect == Spec => []TypeOK
<1>1. Init => TypeOK
  BY DEF Init, Start, TypeOK, Turns
<1>2. QED
  BY <1>1, NextType, PTL DEF Spec

----------------------------------------------------------------------------
(* No reboot without a permission.                                         *)

Rebooting == at \in {"resolve", "reboot"}

PermittedInv == Rebooting => DeviceOf[mac] \in permitted

\* A reload in a device's turn may only add to who could be rebooted since it came.
LEMMA NextPermitted == TypeOK /\ PermittedInv /\ [Next]_vars => PermittedInv'
<1> SUFFICES ASSUME TypeOK, PermittedInv, [Next]_vars PROVE PermittedInv'
  OBVIOUS
<1>1. CASE Attempt
  <2>1. SUFFICES ASSUME Rebooting' PROVE DeviceOf[mac'] \in Permitted(cfg)
    BY <1>1 DEF PermittedInv, Attempt
  <2>2. Eligible(cfg, mac') /\ ~cfg.dryRun /\ mac' \in Macs
    BY <1>1, <2>1, HeadTailProperties DEF Attempt, Rebooting, TypeOK
  <2>3. QED
    BY <2>2, DeviceOfAssumption DEF Eligible, Permitted
<1>2. CASE \E c \in Configs : Restart(c)
  BY <1>2 DEF Restart, Start, PermittedInv, Rebooting
<1>3. CASE ~Attempt /\ ~(\E c \in Configs : Restart(c))
  <2>1. CASE UNCHANGED vars \/ Tick \/ Resolved
    BY <2>1 DEF vars, observers, Tick, Resolved, PermittedInv, Rebooting
  <2>2. CASE \E c \in Configs : Reload(c)
    BY <2>2 DEF Reload, PermittedInv, Rebooting
  <2>3. CASE Wake \/ EndSweep \/ Rebooted \/ Written \/ Notified \/ AttemptFails
    <3>1. at' \notin {"resolve", "reboot"}
      BY <2>3 DEF Wake, EndSweep, Rebooted, Written, Notified, AttemptFails, NextDevice
    <3>2. QED
      BY <3>1 DEF PermittedInv, Rebooting
  <2>4. QED
    BY <1>3, <2>1, <2>2, <2>3 DEF Next, Step
<1>4. QED
  BY <1>1, <1>2, <1>3

----------------------------------------------------------------------------
(* No row without its reboot.                                              *)

FiredRows(m, d) ==
  {k \in DOMAIN events : ~events[k].dry /\ events[k].mac = m /\ events[k].date = d}

DoneCalls(m, d) ==
  {i \in DOMAIN power : power[i].ok /\ power[i].mac = m /\ power[i].date = d}

AuditInv ==
  /\ \A m, d : Cardinality(FiredRows(m, d)) <= Cardinality(DoneCalls(m, d))
  /\ at = "insert" =>
       Cardinality(FiredRows(mac, lastDate)) < Cardinality(DoneCalls(mac, lastDate))

\* The rows and the reboots of a day are finitely many.
LEMMA AuditFinite ==
  ASSUME TypeOK, NEW m, NEW d
  PROVE  /\ IsFiniteSet(FiredRows(m, d)) /\ Cardinality(FiredRows(m, d)) \in Nat
         /\ IsFiniteSet(DoneCalls(m, d)) /\ Cardinality(DoneCalls(m, d)) \in Nat
<1>1. FiredRows(m, d) \in SUBSET DOMAIN events /\ DoneCalls(m, d) \in SUBSET DOMAIN power
  BY DEF FiredRows, DoneCalls
<1>2. events \in Seq(RowType) /\ power \in Seq(CallType)
  BY DEF TypeOK
<1>3. QED
  BY <1>1, <1>2, PositionsFinite

\* No row is written and nothing is rebooted.
LEMMA AuditIdle ==
  ASSUME AuditInv, UNCHANGED <<events, power>>,
         at' = "insert" => at = "insert" /\ UNCHANGED <<mac, lastDate>>
  PROVE  AuditInv'
<1>1. \A m, d : FiredRows(m, d)' = FiredRows(m, d) /\ DoneCalls(m, d)' = DoneCalls(m, d)
  BY DEF FiredRows, DoneCalls
<1>2. QED
  BY <1>1 DEF AuditInv

\* A reboot that no row reports yet makes room for one row.
LEMMA CallAudit ==
  ASSUME TypeOK, AuditInv, NEW ok \in BOOLEAN, power' = Append(power, Call(ok)),
         UNCHANGED <<events, mac, lastDate>>, at' = "insert" => ok
  PROVE  AuditInv'
<1>1. PICK n, x, e : n = Len(power) + 1 /\ x = mac /\ e = lastDate
  OBVIOUS
<1>2. /\ DOMAIN power' = DOMAIN power \cup {n} /\ n \notin DOMAIN power
      /\ \A i \in DOMAIN power : power'[i] = power[i]
      /\ power'[n].ok = ok /\ power'[n].mac = x /\ power'[n].date = e
  BY <1>1, Called DEF Call
<1>3. ASSUME NEW m, NEW d
      PROVE  Cardinality(DoneCalls(m, d)') =
               Cardinality(DoneCalls(m, d)) + (IF ok /\ m = x /\ d = e THEN 1 ELSE 0)
  <2>1. n \notin DoneCalls(m, d)
    BY <1>2 DEF DoneCalls
  <2>2. /\ Cardinality(DoneCalls(m, d)) \in Nat
        /\ Cardinality(DoneCalls(m, d) \cup {n}) = Cardinality(DoneCalls(m, d)) + 1
    BY <2>1, AuditFinite, FS_AddElement
  <2>3. CASE ok /\ m = x /\ d = e
    <3>1. DoneCalls(m, d)' = DoneCalls(m, d) \cup {n}
      BY <1>2, <2>3 DEF DoneCalls
    <3>2. QED
      BY <2>2, <2>3, <3>1
  <2>4. CASE ~(ok /\ m = x /\ d = e)
    <3>1. DoneCalls(m, d)' = DoneCalls(m, d)
      BY <1>2, <2>4 DEF DoneCalls
    <3>2. QED
      BY <2>2, <2>4, <3>1
  <2>5. QED
    BY <2>3, <2>4
<1>4. \A m, d : FiredRows(m, d)' = FiredRows(m, d)
  BY DEF FiredRows
<1>5. \A m, d : Cardinality(FiredRows(m, d)') <= Cardinality(DoneCalls(m, d)')
  BY <1>3, <1>4, AuditFinite DEF AuditInv
<1>6. ok => Cardinality(FiredRows(x, e)') < Cardinality(DoneCalls(x, e)')
  BY <1>3, <1>4, AuditFinite DEF AuditInv
<1>7. mac' = x /\ lastDate' = e
  BY <1>1
<1>8. QED
  BY <1>5, <1>6, <1>7 DEF AuditInv

\* A row takes that room, unless it is the row of a dry run.
LEMMA RowAudit ==
  ASSUME TypeOK, AuditInv, at \in {"insert", "dry_insert"}, events' = Append(events, Row),
         UNCHANGED power, at' # "insert"
  PROVE  AuditInv'
<1>1. PICK n, x, e : n = Len(events) + 1 /\ x = mac /\ e = lastDate
  OBVIOUS
<1>2. /\ DOMAIN events' = DOMAIN events \cup {n} /\ n \notin DOMAIN events
      /\ \A i \in DOMAIN events : events'[i] = events[i]
  BY <1>1, Records, AppendProperties DEF TypeOK
<1>r. /\ events'[n].mac = x /\ events'[n].date = e
      /\ events'[n].dry <=> at = "dry_insert"
  <2>1. events'[n] = Row
    BY <1>1, Records, AppendProperties DEF TypeOK
  <2>2. Row.mac = x /\ Row.date = e /\ Row.dry = (at = "dry_insert")
    BY <1>1 DEF Row
  <2>3. QED
    BY <2>1, <2>2
<1>3. \A m, d : DoneCalls(m, d)' = DoneCalls(m, d)
  BY DEF DoneCalls
<1>4. ASSUME NEW m, NEW d
      PROVE  Cardinality(FiredRows(m, d)') <= Cardinality(DoneCalls(m, d))
  <2>1. n \notin FiredRows(m, d)
    BY <1>2 DEF FiredRows
  <2>2. /\ Cardinality(FiredRows(m, d)) \in Nat /\ Cardinality(DoneCalls(m, d)) \in Nat
        /\ Cardinality(FiredRows(m, d) \cup {n}) = Cardinality(FiredRows(m, d)) + 1
    BY <2>1, AuditFinite, FS_AddElement
  <2>4. CASE at = "insert" /\ m = x /\ d = e
    <3>1. FiredRows(m, d)' = FiredRows(m, d) \cup {n}
      BY <1>2, <1>r, <2>4 DEF FiredRows
    <3>2. Cardinality(FiredRows(m, d)) < Cardinality(DoneCalls(m, d))
      BY <1>1, <2>4 DEF AuditInv
    <3>3. QED
      BY <2>2, <3>1, <3>2
  <2>5. CASE ~(at = "insert" /\ m = x /\ d = e)
    <3>1. FiredRows(m, d)' = FiredRows(m, d)
      BY <1>2, <1>r, <2>5 DEF FiredRows
    <3>2. QED
      BY <3>1 DEF AuditInv
  <2>6. QED
    BY <2>4, <2>5
<1>5. QED
  BY <1>3, <1>4 DEF AuditInv

\* No step reports a reboot that did not happen.
LEMMA NextAudit == TypeOK /\ AuditInv /\ [Next]_vars => AuditInv'
<1> SUFFICES ASSUME TypeOK, AuditInv, [Next]_vars PROVE AuditInv'
  OBVIOUS
<1>1. CASE Rebooted
  BY <1>1, CallAudit DEF Rebooted
<1>2. CASE Written
  BY <1>2, RowAudit DEF Written
<1>3. CASE AttemptFails /\ power' # power
  <2>1. at = "reboot" /\ power' = Append(power, Call(FALSE)) /\ events' = events
    BY <1>3 DEF AttemptFails
  <2>2. at' = "sweep" /\ UNCHANGED <<mac, lastDate>>
    BY <1>3 DEF AttemptFails, NextDevice, memory
  <2>3. QED
    BY <2>1, <2>2, CallAudit
<1>4. CASE AttemptFails /\ events' # events
  <2>1. at \in {"insert", "dry_insert"} /\ events' = Append(events, Row) /\ power' = power
    BY <1>4 DEF AttemptFails
  <2>2. at' = "sweep"
    BY <1>4 DEF AttemptFails, NextDevice
  <2>3. QED
    BY <2>1, <2>2, RowAudit
<1>5. CASE AttemptFails /\ UNCHANGED outside
  BY <1>5, AuditIdle DEF AttemptFails, NextDevice, outside
<1>6. CASE ~Rebooted /\ ~Written /\ ~AttemptFails
  <2>1. UNCHANGED outside /\ (at' = "insert" => at = "insert" /\ UNCHANGED <<mac, lastDate>>)
    BY <1>6
    DEF Next, Step, vars, memory, outside, Tick, Reload, Restart, Start, Wake, EndSweep,
        Attempt, Resolved, Notified
  <2>2. QED
    BY <2>1, AuditIdle DEF outside
<1>7. QED
  BY <1>1, <1>2, <1>3, <1>4, <1>5, <1>6 DEF outside

\* ADR-0005 AC-4 and AC-6, ADR-0006 AC-5: no power command goes out for a device that was not
\* permitted at some moment of its turn, and no row of the audit trail reports a reboot that no
\* accepted call stands for (power.py, scheduler.py).
THEOREM JustifiedCorrect == Spec => []Justified
<1>1. Init => PermittedInv /\ AuditInv
  <2>1. SUFFICES ASSUME Init PROVE PermittedInv /\ AuditInv
    OBVIOUS
  <2>2. at \in {"off", "tick"} /\ events = << >> /\ power = << >>
    BY <2>1 DEF Init, Start
  <2>3. \A m, d : FiredRows(m, d) = {} /\ DoneCalls(m, d) = {}
    BY <2>2 DEF FiredRows, DoneCalls
  <2>4. Cardinality({}) = 0
    BY FS_EmptySet
  <2>5. \A m, d : Cardinality(FiredRows(m, d)) <= Cardinality(DoneCalls(m, d))
    BY <2>3, <2>4
  <2>6. QED
    BY <2>2, <2>5 DEF PermittedInv, Rebooting, AuditInv
<1>2. PermittedInv /\ AuditInv => Justified
  <2>1. PermittedInv => OnlyPermitted
    BY DEF PermittedInv, Rebooting, OnlyPermitted
  <2>2. AuditInv => AuditTruthful
    <3>1. SUFFICES ASSUME AuditInv, NEW k \in DOMAIN events, ~events[k].dry
                   PROVE  Cardinality(FiredRows(events[k].mac, events[k].date)) <=
                            Cardinality(DoneCalls(events[k].mac, events[k].date))
      BY DEF FiredRows, DoneCalls, AuditTruthful
    <3>2. QED
      BY <3>1 DEF AuditInv
  <2>3. QED
    BY <2>1, <2>2 DEF Justified
<1>3. QED
  BY <1>1, <1>2, NextPermitted, NextAudit, TypeCorrect, PTL DEF Spec

----------------------------------------------------------------------------
(* No reboot before its cooldown.  RebootCooldown books a device under the *)
(* spelling it is listed with, so the invariants speak of spellings.       *)

Current(i) == power[i].ok /\ power[i].epoch = epoch

CallsPast == \A i \in DOMAIN power : power[i].at <= now /\ power[i].epoch <= epoch

TimerCovers ==
  \A i \in DOMAIN power : Current(i) => power[i].at <= lastReboot[power[i].mac]

Waited ==
  Rebooting => \A i \in DOMAIN power :
    Current(i) /\ power[i].mac = mac => \E c \in lived : now - power[i].at >= c.gap

\* Within one process a spelling is not rebooted again before a cooldown in force.
SpelledSpacing ==
  \A i, j \in DOMAIN power :
    (i < j /\ power[i].ok /\ power[i].mac = power[j].mac /\ power[i].epoch = power[j].epoch)
      => \E c \in lived : power[j].at - power[i].at >= c.gap

GapInv == CallsPast /\ TimerCovers /\ Waited /\ SpelledSpacing

CapsOn == \A c \in lived : c.cap # 0

CallsSince(m, t) ==
  {i \in DOMAIN power : Current(i) /\ power[i].mac = m /\ power[i].at >= t}

Entries(m, t) == {k \in DOMAIN recent[m] : recent[m][k] >= t}

DequeCovers ==
  CapsOn => \A m \in Macs, t \in Int :
              Cardinality(CallsSince(m, t)) <= Cardinality(Entries(m, t))

RoomLeft ==
  CapsOn /\ Rebooting =>
    \E c \in lived : Cardinality(CallsSince(mac, now - Day)) < c.cap

SpelledDay(j) ==
  {i \in 1..j : /\ power[i].ok /\ power[i].mac = power[j].mac
                /\ power[i].epoch = power[j].epoch /\ power[i].at >= power[j].at - Day}

\* Within one process no rolling day holds more accepted reboots of a spelling than
\* the daily cap.
SpelledCap ==
  \A j \in DOMAIN power : power[j].ok =>
    \E c \in lived : c.cap = 0 \/ Cardinality(SpelledDay(j)) <= c.cap

CapInv == DequeCovers /\ RoomLeft /\ SpelledCap

\* The numbers the cooldown compares.
LEMMA Clocks ==
  ASSUME TypeOK
  PROVE  /\ now \in Nat /\ epoch \in Nat /\ Day \in Nat /\ mac \in Macs
         /\ lived \subseteq Configs /\ cfg \in lived /\ cfg \in Configs
         /\ \A c \in Configs : c.gap \in Nat /\ c.cap \in Nat
         /\ \A m \in Macs : lastReboot[m] \in Nat \cup {Never}
BY Limits, DayAssumption DEF TypeOK

\* cooldown.py: the calls and the deque's entries are finitely many.
LEMMA CapFinite ==
  ASSUME TypeOK, NEW m \in Macs, NEW t
  PROVE  /\ IsFiniteSet(CallsSince(m, t)) /\ Cardinality(CallsSince(m, t)) \in Nat
         /\ IsFiniteSet(Entries(m, t)) /\ Cardinality(Entries(m, t)) \in Nat
<1>1. /\ CallsSince(m, t) \in SUBSET DOMAIN power /\ Entries(m, t) \in SUBSET DOMAIN recent[m]
  BY DEF CallsSince, Entries
<1>2. power \in Seq(CallType) /\ recent[m] \in Seq(Nat)
  BY DEF TypeOK
<1>3. QED
  BY <1>1, <1>2, PositionsFinite

\* A step that reboots nothing and passes no gate: time may pass, and a reload may
\* bring a configuration.
LEMMA QuietCooldown ==
  ASSUME TypeOK, GapInv, CapInv, UNCHANGED <<power, epoch, lastReboot, recent>>,
         now' \in Nat, now' >= now, lived \subseteq lived',
         Rebooting' => Rebooting /\ UNCHANGED mac
  PROVE  GapInv' /\ CapInv'
<1>1. CallsPast' /\ TimerCovers' /\ SpelledSpacing'
  BY Records, Clocks DEF GapInv, CallsPast, TimerCovers, Current, SpelledSpacing
<1>2. Waited'
  <2>1. SUFFICES ASSUME Rebooting', NEW i \in DOMAIN power, Current(i), power[i].mac = mac
                 PROVE  \E c \in lived' : now' - power[i].at >= c.gap
    BY DEF Waited, Current
  <2>2. PICK c \in lived : now - power[i].at >= c.gap
    BY <2>1 DEF GapInv, Waited
  <2>3. now' - power[i].at >= c.gap
    BY <2>2, Records, Clocks
  <2>4. QED
    BY <2>3
<1>3. CapsOn' => CapsOn
  BY DEF CapsOn
<1>4. \A m, t : CallsSince(m, t)' = CallsSince(m, t) /\ Entries(m, t)' = Entries(m, t)
  BY DEF CallsSince, Entries, Current
<1>5. DequeCovers'
  BY <1>3, <1>4 DEF CapInv, DequeCovers
<1>6. RoomLeft'
  <2>1. SUFFICES ASSUME CapsOn', Rebooting'
                 PROVE  \E c \in lived' : Cardinality(CallsSince(mac, now - Day)') < c.cap
    BY DEF RoomLeft
  <2>2. CapsOn /\ Rebooting /\ mac' = mac
    BY <1>3, <2>1
  <2>3. PICK c \in lived : Cardinality(CallsSince(mac, now - Day)) < c.cap
    BY <2>2 DEF CapInv, RoomLeft
  <2>4. CallsSince(mac, now - Day)' \in SUBSET CallsSince(mac, now - Day)
    BY <2>2, Records, Clocks DEF CallsSince, Current
  <2>5. /\ Cardinality(CallsSince(mac, now - Day)') <= Cardinality(CallsSince(mac, now - Day))
        /\ IsFiniteSet(CallsSince(mac, now - Day)')
        /\ Cardinality(CallsSince(mac, now - Day)) \in Nat
    BY <2>4, Clocks, CapFinite, FS_Subset
  <2>6. Cardinality(CallsSince(mac, now - Day)') \in Nat /\ c.cap \in Nat
    BY <2>5, Clocks, FS_CardinalityType
  <2>7. QED
    BY <2>3, <2>5, <2>6
<1>7. SpelledCap'
  BY DEF CapInv, SpelledCap, SpelledDay
<1>8. QED
  BY <1>1, <1>2, <1>5, <1>6, <1>7 DEF GapInv, CapInv

\* scheduler.py:96: a device that can_reboot lets through has waited, and has room.
LEMMA GateCooldown ==
  ASSUME TypeOK, GapInv, CapInv, mac' \in Macs, CanReboot(mac'),
         UNCHANGED <<power, epoch, lastReboot, recent, now, lived>>
  PROVE  GapInv' /\ CapInv'
<1>1. PICK m \in Macs : m = mac'
  OBVIOUS
<1>2. ASSUME NEW i \in DOMAIN power, Current(i), power[i].mac = m
      PROVE  now - power[i].at >= cfg.gap
  <2>1. power[i].at <= now /\ power[i].at <= lastReboot[m] /\ lastReboot[m] \in Nat
    BY <1>2, Records, Clocks DEF GapInv, CallsPast, TimerCovers, Never
  <2>2. cfg.gap = 0 \/ now - lastReboot[m] >= cfg.gap
    BY <1>1, <2>1 DEF CanReboot, Cooled, Never
  <2>3. QED
    BY <2>1, <2>2, Records, Clocks
<1>3. Waited'
  BY <1>1, <1>2, Clocks DEF Waited, Current
<1>4. \A n, t : CallsSince(n, t)' = CallsSince(n, t) /\ Entries(n, t)' = Entries(n, t)
  BY DEF CallsSince, Entries, Current
<1>5. CapsOn' => Cardinality(CallsSince(m, now - Day)) < cfg.cap
  <2>1. SUFFICES ASSUME CapsOn' PROVE Cardinality(CallsSince(m, now - Day)) < cfg.cap
    OBVIOUS
  <2>2. CapsOn /\ cfg.cap # 0 /\ now - Day \in Int
    BY <2>1, Clocks DEF CapsOn
  <2>3. Cardinality(Entries(m, now - Day)) < cfg.cap
    BY <1>1, <2>2 DEF CanReboot, UnderCap, Entries
  <2>4. Cardinality(CallsSince(m, now - Day)) <= Cardinality(Entries(m, now - Day))
    BY <2>2 DEF CapInv, DequeCovers
  <2>5. cfg.cap \in Nat
    BY Clocks
  <2>6. QED
    BY <2>3, <2>4, <2>5, CapFinite
<1>6. RoomLeft'
  <2>1. CallsSince(mac, now - Day)' = CallsSince(m, now - Day)
    BY <1>1 DEF CallsSince, Current
  <2>2. (CapsOn /\ Rebooting)' => \E c \in lived' : Cardinality(CallsSince(mac, now - Day)') < c.cap
    BY <1>5, <2>1, Clocks
  <2>3. QED
    BY <2>2 DEF RoomLeft
<1>7. CapsOn' => CapsOn
  BY DEF CapsOn
<1>8. DequeCovers' /\ SpelledCap'
  BY <1>4, <1>7 DEF CapInv, DequeCovers, SpelledCap, SpelledDay
<1>9. CallsPast' /\ TimerCovers' /\ SpelledSpacing'
  BY DEF GapInv, CallsPast, TimerCovers, Current, SpelledSpacing
<1>10. QED
  BY <1>3, <1>6, <1>8, <1>9 DEF GapInv, CapInv

\* scheduler.py:96-104: the rebooter is called; accepted, the call is booked, refused,
\* it is not.
LEMMA CallGap ==
  ASSUME TypeOK, GapInv, Rebooting, NEW ok \in BOOLEAN, power' = Append(power, Call(ok)),
         lastReboot' = IF ok THEN [lastReboot EXCEPT ![mac] = now] ELSE lastReboot,
         UNCHANGED <<now, epoch, lived>>, ~Rebooting'
  PROVE  GapInv'
<1>1. PICK n : n = Len(power) + 1
  OBVIOUS
<1>2. /\ DOMAIN power' = DOMAIN power \cup {n} /\ n \notin DOMAIN power
      /\ \A i \in DOMAIN power : power'[i] = power[i] /\ i < n
      /\ power'[n].at = now /\ power'[n].epoch = epoch /\ power'[n].mac = mac
      /\ power'[n].ok = ok
  BY <1>1, Called DEF Call
<1>3. CallsPast'
  BY <1>2, Clocks DEF GapInv, CallsPast
<1>4. TimerCovers'
  <2>1. SUFFICES ASSUME NEW i \in DOMAIN power', Current(i)'
                 PROVE  power'[i].at <= lastReboot'[power'[i].mac]
    BY DEF TimerCovers
  <2>2. lastReboot \in [Macs -> Nat \cup {Never}]
    BY DEF TypeOK
  <2>3. CASE i = n
    BY <1>2, <2>1, <2>2, <2>3, Clocks DEF Current
  <2>4. CASE i # n
    <3>1. i \in DOMAIN power /\ Current(i) /\ power'[i] = power[i]
      BY <1>2, <2>1, <2>4 DEF Current
    <3>2. power[i].at <= lastReboot[power[i].mac] /\ power[i].at <= now /\ power[i].mac \in Macs
      BY <3>1, Records DEF GapInv, CallsPast, TimerCovers
    <3>3. lastReboot'[power[i].mac] = lastReboot[power[i].mac] \/ lastReboot'[power[i].mac] = now
      BY <2>2, <3>2
    <3>4. QED
      BY <3>1, <3>2, <3>3
  <2>5. QED
    BY <2>3, <2>4
<1>5. SpelledSpacing'
  <2>1. SUFFICES ASSUME NEW i \in DOMAIN power', NEW j \in DOMAIN power', i < j, power'[i].ok,
                        power'[i].mac = power'[j].mac, power'[i].epoch = power'[j].epoch
                 PROVE  \E c \in lived' : power'[j].at - power'[i].at >= c.gap
    BY DEF SpelledSpacing
  <2>2. i \in DOMAIN power /\ power'[i] = power[i]
    BY <1>1, <1>2, <2>1, Records
  <2>3. CASE j = n
    BY <1>2, <2>1, <2>2, <2>3 DEF GapInv, Waited, Current
  <2>4. CASE j # n
    BY <1>2, <2>1, <2>2, <2>4 DEF GapInv, SpelledSpacing
  <2>5. QED
    BY <2>3, <2>4
<1>6. QED
  BY <1>3, <1>4, <1>5 DEF GapInv, Waited

\* cooldown.py record: an entry more in the deque of this device, for a call more.
LEMMA CallCap ==
  ASSUME TypeOK, GapInv, CapInv, Rebooting, NEW ok \in BOOLEAN,
         power' = Append(power, Call(ok)),
         recent' = IF ok /\ cfg.cap > 0 THEN [recent EXCEPT ![mac] = Append(@, now)] ELSE recent,
         UNCHANGED <<now, epoch, lived>>, ~Rebooting'
  PROVE  CapInv'
<1>1. PICK n, x, e : n = Len(power) + 1 /\ x = mac /\ e = epoch
  OBVIOUS
<1>2. /\ DOMAIN power' = DOMAIN power \cup {n} /\ n \notin DOMAIN power
      /\ \A i \in DOMAIN power : power'[i] = power[i] /\ i < n
      /\ power'[n].at = now /\ power'[n].epoch = e /\ power'[n].mac = x
      /\ power'[n].ok = ok
  BY <1>1, Called DEF Call
<1>3. ASSUME NEW m \in Macs, NEW t \in Int
      PROVE  Cardinality(CallsSince(m, t)') =
               Cardinality(CallsSince(m, t)) + (IF ok /\ m = x /\ now >= t THEN 1 ELSE 0)
  <2>1. n \notin CallsSince(m, t)
    BY <1>2 DEF CallsSince
  <2>2. /\ Cardinality(CallsSince(m, t)) \in Nat
        /\ Cardinality(CallsSince(m, t) \cup {n}) = Cardinality(CallsSince(m, t)) + 1
    BY <2>1, CapFinite, FS_AddElement
  <2>3. CASE ok /\ m = x /\ now >= t
    <3>1. CallsSince(m, t)' = CallsSince(m, t) \cup {n}
      BY <1>1, <1>2, <2>3 DEF CallsSince, Current
    <3>2. QED
      BY <2>2, <2>3, <3>1
  <2>4. CASE ~(ok /\ m = x /\ now >= t)
    <3>1. CallsSince(m, t)' = CallsSince(m, t)
      BY <1>1, <1>2, <2>4 DEF CallsSince, Current
    <3>2. QED
      BY <2>2, <2>4, <3>1
  <2>5. QED
    BY <2>3, <2>4
<1>4. ASSUME CapsOn, NEW m \in Macs, NEW t \in Int
      PROVE  Cardinality(Entries(m, t)') =
               Cardinality(Entries(m, t)) + (IF ok /\ m = x /\ now >= t THEN 1 ELSE 0)
  <2>1. cfg.cap > 0 /\ recent \in [Macs -> Seq(Nat)]
    BY <1>4, Clocks DEF CapsOn, TypeOK
  <2>2. PICK k : k = Len(recent[m]) + 1
    OBVIOUS
  <2>3. /\ DOMAIN recent[m] = 1..Len(recent[m]) /\ Len(recent[m]) \in Nat
        /\ k \notin DOMAIN recent[m]
    BY <2>1, <2>2, LenProperties
  <2>4. k \notin Entries(m, t)
    BY <2>3 DEF Entries
  <2>5. /\ Cardinality(Entries(m, t)) \in Nat
        /\ Cardinality(Entries(m, t) \cup {k}) = Cardinality(Entries(m, t)) + 1
    BY <2>4, CapFinite, FS_AddElement
  <2>6. CASE ok /\ m = x
    <3>1. recent'[m] = Append(recent[m], now)
      BY <1>1, <2>1, <2>6
    <3>2. /\ DOMAIN recent'[m] = DOMAIN recent[m] \cup {k} /\ recent'[m][k] = now
          /\ \A i \in DOMAIN recent[m] : recent'[m][i] = recent[m][i]
      BY <2>1, <2>2, <2>3, <3>1, Clocks, AppendProperties
    <3>3. CASE now >= t
      <4>1. Entries(m, t)' = Entries(m, t) \cup {k}
        BY <3>2, <3>3 DEF Entries
      <4>2. QED
        BY <2>5, <2>6, <3>3, <4>1
    <3>4. CASE ~(now >= t)
      <4>1. Entries(m, t)' = Entries(m, t)
        BY <2>3, <3>2, <3>4 DEF Entries
      <4>2. QED
        BY <2>5, <2>6, <3>4, <4>1
    <3>5. QED
      BY <3>3, <3>4
  <2>7. CASE ~(ok /\ m = x)
    <3>1. recent'[m] = recent[m]
      BY <1>1, <2>1, <2>7
    <3>2. Entries(m, t)' = Entries(m, t)
      BY <3>1 DEF Entries
    <3>3. QED
      BY <2>5, <2>7, <3>2
  <2>8. QED
    BY <2>6, <2>7
<1>5. DequeCovers'
  <2>1. SUFFICES ASSUME CapsOn', NEW m \in Macs, NEW t \in Int
                 PROVE  Cardinality(CallsSince(m, t)') <= Cardinality(Entries(m, t)')
    BY DEF DequeCovers
  <2>2. CapsOn
    BY <2>1 DEF CapsOn
  <2>3. Cardinality(CallsSince(m, t)) <= Cardinality(Entries(m, t))
    BY <2>2 DEF CapInv, DequeCovers
  <2>4. QED
    BY <1>3, <1>4, <2>2, <2>3, CapFinite
<1>6. SpelledCap'
  <2>1. SUFFICES ASSUME NEW j \in DOMAIN power', power'[j].ok, CapsOn
                 PROVE  \E c \in lived : Cardinality(SpelledDay(j)') <= c.cap
    BY DEF SpelledCap, CapsOn
  <2>2. CASE j = n
    <3>1. SpelledDay(j)' = CallsSince(x, now - Day) \cup {n}
      BY <1>1, <1>2, <2>1, <2>2, Records, Clocks DEF SpelledDay, CallsSince, Current
    <3>2. PICK c \in lived : Cardinality(CallsSince(x, now - Day)) < c.cap
      BY <1>1, <2>1 DEF CapInv, RoomLeft
    <3>3. n \notin CallsSince(x, now - Day)
      BY <1>2 DEF CallsSince
    <3>4. /\ Cardinality(CallsSince(x, now - Day) \cup {n}) = Cardinality(CallsSince(x, now - Day)) + 1
          /\ Cardinality(CallsSince(x, now - Day)) \in Nat
      BY <1>1, <3>3, Clocks, CapFinite, FS_AddElement
    <3>5. Cardinality(SpelledDay(j)') <= c.cap
      BY <3>1, <3>2, <3>4, Clocks
    <3>6. QED
      BY <3>5
  <2>3. CASE j # n
    <3>1. j \in DOMAIN power /\ power'[j] = power[j] /\ power[j].ok
      BY <1>2, <2>1, <2>3
    <3>2. 1..j \subseteq DOMAIN power
      BY <3>1, Records
    <3>3. SpelledDay(j)' = SpelledDay(j)
      BY <1>2, <3>1, <3>2 DEF SpelledDay
    <3>4. QED
      BY <2>1, <3>1, <3>3 DEF CapInv, SpelledCap, CapsOn
  <2>4. QED
    BY <2>2, <2>3
<1>7. QED
  BY <1>5, <1>6 DEF CapInv, RoomLeft

\* A new process has rebooted nothing and remembers nothing.
LEMMA RestartCooldown ==
  ASSUME TypeOK, GapInv, CapInv, NEW c \in Configs, Restart(c)
  PROVE  GapInv' /\ CapInv'
<1>1. /\ epoch' = epoch + 1 /\ at' \in {"off", "tick"} /\ UNCHANGED <<power, now>>
      /\ lived \subseteq lived'
  BY DEF Restart, Start, outside
<1>2. \A i \in DOMAIN power : power[i].epoch # epoch'
  BY <1>1, Records, Clocks DEF GapInv, CallsPast
<1>3. CallsPast' /\ SpelledSpacing'
  BY <1>1, Records, Clocks DEF GapInv, CallsPast, SpelledSpacing
<1>4. TimerCovers' /\ Waited'
  BY <1>1, <1>2 DEF TimerCovers, Waited, Current, Rebooting
<1>5. \A m, t : CallsSince(m, t)' = {}
  BY <1>1, <1>2 DEF CallsSince, Current
<1>6. \A m \in Macs : \A t : Entries(m, t)' = {}
  BY DEF Restart, Entries
<1>7. Cardinality({}) = 0
  BY FS_EmptySet
<1>8. DequeCovers' /\ RoomLeft'
  <2>1. ASSUME NEW m \in Macs, NEW t \in Int
        PROVE  Cardinality(CallsSince(m, t)') <= Cardinality(Entries(m, t)')
    BY <1>5, <1>6, <1>7
  <2>2. DequeCovers'
    BY <2>1 DEF DequeCovers
  <2>3. QED
    BY <1>1, <2>2 DEF RoomLeft, Rebooting
<1>9. SpelledCap'
  BY <1>1 DEF CapInv, SpelledCap, SpelledDay
<1>10. QED
  BY <1>3, <1>4, <1>8, <1>9 DEF GapInv, CapInv

\* Every step keeps the cooldown's invariants.
LEMMA NextCooldown == TypeOK /\ GapInv /\ CapInv /\ [Next]_vars => GapInv' /\ CapInv'
<1> SUFFICES ASSUME TypeOK, GapInv, CapInv, [Next]_vars PROVE GapInv' /\ CapInv'
  OBVIOUS
<1> USE DEF memory, outside, observers
<1>1. CASE UNCHANGED vars \/ Tick \/ \E c \in Configs : Reload(c)
  <2>1. /\ UNCHANGED <<power, epoch, lastReboot, recent, mac>>
        /\ now' \in Nat /\ now' >= now /\ lived \subseteq lived'
        /\ Rebooting' => Rebooting
    BY <1>1, Clocks DEF vars, Tick, Reload, Rebooting
  <2>2. QED
    BY <2>1, QuietCooldown
<1>2. CASE \E c \in Configs : Restart(c)
  BY <1>2, RestartCooldown
<1>3. CASE Attempt
  <2>1. UNCHANGED <<power, epoch, lastReboot, recent, now, lived>> /\ mac' \in Macs
    BY <1>3, HeadTailProperties DEF Attempt, TypeOK
  <2>2. CASE CanReboot(mac')
    BY <2>1, <2>2, GateCooldown
  <2>3. CASE ~CanReboot(mac')
    <3>1. ~Rebooting'
      BY <1>3, <2>3 DEF Attempt, Rebooting
    <3>2. QED
      BY <2>1, <3>1, Clocks, QuietCooldown
  <2>4. QED
    BY <2>2, <2>3
<1>4. CASE Wake \/ EndSweep \/ Resolved \/ Written \/ Notified \/ (AttemptFails /\ at # "reboot")
  <2>1. /\ UNCHANGED <<power, epoch, lastReboot, recent, now, lived>>
        /\ Rebooting' => Rebooting /\ UNCHANGED mac
    BY <1>4 DEF Wake, EndSweep, Resolved, Written, Notified, AttemptFails, NextDevice, Rebooting
  <2>2. QED
    BY <2>1, Clocks, QuietCooldown
<1>5. CASE Rebooted
  <2>1. /\ Rebooting /\ ~Rebooting' /\ power' = Append(power, Call(TRUE))
        /\ UNCHANGED <<now, epoch, lived>>
        /\ lastReboot' = [lastReboot EXCEPT ![mac] = now]
        /\ recent' = IF cfg.cap > 0 THEN [recent EXCEPT ![mac] = Append(@, now)] ELSE recent
    BY <1>5 DEF Rebooted, RecordReboot, Rebooting
  <2>2. QED
    BY <2>1, CallGap, CallCap
<1>6. CASE AttemptFails /\ at = "reboot"
  <2>1. /\ Rebooting /\ ~Rebooting' /\ power' = Append(power, Call(FALSE))
        /\ UNCHANGED <<now, epoch, lived, lastReboot, recent>>
    BY <1>6 DEF AttemptFails, NextDevice, Rebooting
  <2>2. QED
    BY <2>1, CallGap, CallCap
<1>7. QED
  BY <1>1, <1>2, <1>3, <1>4, <1>5, <1>6 DEF Next, Step

\* The cooldown's invariants hold in every behaviour.
LEMMA CooldownAlways == Spec => [](GapInv /\ CapInv)
<1>1. Init => GapInv /\ CapInv
  <2>1. SUFFICES ASSUME Init PROVE GapInv /\ CapInv
    OBVIOUS
  <2>2. at \in {"off", "tick"} /\ DOMAIN power = {} /\ \A m \in Macs : DOMAIN recent[m] = {}
    BY <2>1 DEF Init, Start
  <2>3. \A m \in Macs : \A t : CallsSince(m, t) = {} /\ Entries(m, t) = {}
    BY <2>2 DEF CallsSince, Entries
  <2>4. Cardinality({}) = 0
    BY FS_EmptySet
  <2>5. DequeCovers
    BY <2>3, <2>4 DEF DequeCovers
  <2>6. QED
    BY <2>2, <2>5
    DEF GapInv, CapInv, CallsPast, TimerCovers, Waited, SpelledSpacing, RoomLeft, SpelledCap, Rebooting
<1>2. QED
  BY <1>1, NextCooldown, TypeCorrect, PTL DEF Spec

\* ADR-0006 AC-3 and AC-4, whatever the configuration spells: no spelling of a device is
\* rebooted before its cooldown, nor more often a day than its cap.
THEOREM SpelledCorrect == Spec => [](SpelledSpacing /\ SpelledCap)
<1>1. GapInv /\ CapInv => SpelledSpacing /\ SpelledCap
  BY DEF GapInv, CapInv
<1>2. QED
  BY <1>1, CooldownAlways, PTL

\* ADR-0006 AC-3 and AC-4: where every device is spelled one way, through reloads, refused
\* calls, repeated listings and restarts.
THEOREM CooldownCorrect ==
  ASSUME IsInjective(DeviceOf)
  PROVE  Spec => []CooldownHolds
<1>1. TypeOK /\ GapInv /\ CapInv => CooldownHolds
  <2>1. SUFFICES ASSUME TypeOK, GapInv, CapInv PROVE CooldownHolds
    OBVIOUS
  <2>2. \A i, j \in DOMAIN power : SameDevice(i, j) => power[i].mac = power[j].mac
    BY <2>1, Records, DeviceOfAssumption DEF IsInjective, SameDevice
  <2>3. DeviceSpacing
    BY <2>1, <2>2 DEF DeviceSpacing, GapInv, SpelledSpacing
  <2>4. ASSUME NEW j \in DOMAIN power
        PROVE  {i \in DayBefore(j) : power[i].epoch = power[j].epoch} = SpelledDay(j)
    <3>1. 1..j \subseteq DOMAIN power
      BY Records
    <3>2. QED
      BY <2>2, <3>1 DEF DayBefore, SpelledDay, SameDevice
  <2>5. DailyCap
    <3>1. ASSUME NEW j \in DOMAIN power, power[j].ok
          PROVE  \E c \in lived :
                   c.cap = 0 \/ Cardinality({i \in DayBefore(j) : power[i].epoch = power[j].epoch}) <= c.cap
      <4>1. PICK c \in lived : c.cap = 0 \/ Cardinality(SpelledDay(j)) <= c.cap
        BY <2>1, <3>1 DEF CapInv, SpelledCap
      <4>2. QED
        BY <2>4, <4>1
    <3>2. QED
      BY <3>1 DEF DailyCap
  <2>6. QED
    BY <2>3, <2>5 DEF CooldownHolds
<1>2. QED
  BY <1>1, TypeCorrect, CooldownAlways, PTL

----------------------------------------------------------------------------
(* No second request on one day.                                           *)

DatesPast ==
  /\ \A i \in DOMAIN power : /\ power[i].epoch <= epoch
                             /\ power[i].epoch = epoch => power[i].date <= lastDate
  /\ lastDate <= Today

Asked(d) ==
  {i \in DOMAIN power :
     DeviceOf[power[i].mac] = d /\ power[i].date = lastDate /\ power[i].epoch = epoch}

Listings(s, d) == {k \in DOMAIN s : DeviceOf[s[k]] = d}

Turn(d) == IF Rebooting /\ DeviceOf[mac] = d THEN 1 ELSE 0

Budget(c) ==
  \A d \in Devices :
    Cardinality(Asked(d)) + Cardinality(Listings(sweep, d)) + Turn(d)
      <= Cardinality(Listings(c.eligible, d))

\* The requests made today, the one about to be made and those the sweep has left
\* are listings of a configuration in force.
SweepBudget == lastDate # Never => \E c \in lived : Budget(c)

DayInv == DatesPast /\ SweepBudget /\ OncePerDay

\* reboot.eligible is finite.
LEMMA ListingsFinite ==
  ASSUME NEW s \in Seq(Macs), NEW d
  PROVE  IsFiniteSet(Listings(s, d)) /\ Cardinality(Listings(s, d)) \in Nat
<1>1. Listings(s, d) \in SUBSET DOMAIN s
  BY DEF Listings
<1>2. QED
  BY <1>1, PositionsFinite

\* A device's turn uses up one of its listings.
LEMMA TailListings ==
  ASSUME NEW s \in Seq(Macs), s # << >>, NEW d
  PROVE  Cardinality(Listings(Tail(s), d)) + (IF DeviceOf[Head(s)] = d THEN 1 ELSE 0)
           <= Cardinality(Listings(s, d))
<1>1. PICK u : u = Tail(s)
  OBVIOUS
<1>2. /\ u \in Seq(Macs) /\ Len(s) \in Nat \ {0} /\ DOMAIN s = 1..Len(s)
      /\ Len(u) = Len(s) - 1 /\ DOMAIN u = 1..Len(u)
      /\ \A k \in DOMAIN u : u[k] = s[k + 1]
  BY <1>1, HeadTailProperties, LenProperties, EmptySeq
<1>3. Head(s) = s[1]
  OBVIOUS
<1>4. PICK f : f = [k \in Listings(u, d) |-> k + 1]
  OBVIOUS
<1>5. f \in Injection(Listings(u, d), Listings(s, d) \ {1})
  <2>1. ASSUME NEW k \in Listings(u, d) PROVE k + 1 \in Listings(s, d) \ {1}
    BY <1>2 DEF Listings
  <2>2. f \in [Listings(u, d) -> Listings(s, d) \ {1}]
    BY <1>4, <2>1
  <2>3. \A a, b \in Listings(u, d) : f[a] = f[b] => a = b
    <3>1. Listings(u, d) \subseteq Nat
      BY <1>2 DEF Listings
    <3>2. QED
      BY <1>4, <3>1
  <2>4. QED
    BY <2>2, <2>3 DEF Injection, IsInjective
<1>6. /\ IsFiniteSet(Listings(s, d)) /\ Cardinality(Listings(s, d)) \in Nat
      /\ IsFiniteSet(Listings(u, d)) /\ Cardinality(Listings(u, d)) \in Nat
  BY <1>2, ListingsFinite
<1>7. /\ IsFiniteSet(Listings(s, d) \ {1})
      /\ Cardinality(Listings(s, d) \ {1}) =
           IF 1 \in Listings(s, d) THEN Cardinality(Listings(s, d)) - 1 ELSE Cardinality(Listings(s, d))
  BY <1>6, FS_RemoveElement
<1>8. Cardinality(Listings(u, d)) <= Cardinality(Listings(s, d) \ {1})
  BY <1>5, <1>7, FS_Injection
<1>9. 1 \in Listings(s, d) <=> DeviceOf[Head(s)] = d
  BY <1>2, <1>3 DEF Listings
<1>10. QED
  BY <1>1, <1>6, <1>7, <1>8, <1>9

\* The requests of a day are finitely many.
LEMMA AskedFinite ==
  ASSUME TypeOK, NEW d
  PROVE  IsFiniteSet(Asked(d)) /\ Cardinality(Asked(d)) \in Nat
<1>1. Asked(d) \in SUBSET DOMAIN power /\ power \in Seq(CallType)
  BY DEF Asked, TypeOK
<1>2. QED
  BY <1>1, PositionsFinite

\* A step that asks for nothing, in the sweep of the same day.
LEMMA QuietDay ==
  ASSUME TypeOK, DayInv, UNCHANGED <<power, epoch, lastDate, sweep>>,
         now' \in Nat, now' >= now, lived \subseteq lived',
         Rebooting' => Rebooting /\ UNCHANGED mac
  PROVE  DayInv'
<1>1. Today \in Nat /\ Today' \in Nat /\ Today <= Today'
  <2>1. PICK n \in Nat, k \in Nat : n = now /\ k = now' /\ n <= k
    BY DEF TypeOK
  <2>2. QED
    BY <2>1, Days DEF Today
<1>2. lastDate \in Int
  BY DEF TypeOK, Never
<1>3. DatesPast'
  BY <1>1, <1>2 DEF DayInv, DatesPast
<1>4. OncePerDay'
  BY DEF DayInv, OncePerDay, SameDevice
<1>5. ASSUME NEW c \in lived, Budget(c) PROVE Budget(c)'
  <2>1. SUFFICES ASSUME NEW d \in Devices
                 PROVE  Cardinality(Asked(d)') + Cardinality(Listings(sweep, d)) + Turn(d)'
                          <= Cardinality(Listings(c.eligible, d))
    BY DEF Budget, Listings
  <2>2. Asked(d)' = Asked(d)
    BY DEF Asked
  <2>3. Turn(d)' <= Turn(d) /\ Turn(d) \in Nat /\ Turn(d)' \in Nat
    BY DEF Turn
  <2>4. /\ Cardinality(Asked(d)) \in Nat /\ Cardinality(Listings(sweep, d)) \in Nat
        /\ Cardinality(Listings(c.eligible, d)) \in Nat
    BY AskedFinite, ListingsFinite, Limits DEF TypeOK
  <2>5. Cardinality(Asked(d)) + Cardinality(Listings(sweep, d)) + Turn(d)
          <= Cardinality(Listings(c.eligible, d))
    BY <1>5 DEF Budget
  <2>6. QED
    BY <2>2, <2>3, <2>4, <2>5
<1>6. SweepBudget'
  BY <1>5 DEF DayInv, SweepBudget
<1>7. QED
  BY <1>3, <1>4, <1>6 DEF DayInv

\* scheduler.py:62-66: a new day begins a new sweep over the list in force.
LEMMA WakeDay ==
  ASSUME TypeOK, DayInv, Wake
  PROVE  DayInv'
<1>1. /\ lastDate' = Today /\ sweep' = cfg.eligible /\ ~Rebooting'
      /\ UNCHANGED <<power, epoch, now, lived, cfg>> /\ lastDate # Today
  BY DEF Wake, Due, MarkFired, Rebooting, outside, observers
<1>2. Today \in Nat /\ Today' = Today /\ lastDate \in Int /\ lastDate < Today
  BY <1>1, DayAssumption DEF TypeOK, Today, Never, DayInv, DatesPast
<1>3. DatesPast'
  BY <1>1, <1>2, Records DEF DayInv, DatesPast
<1>4. OncePerDay'
  BY <1>1 DEF DayInv, OncePerDay, SameDevice
<1>5. \A d : Asked(d)' = {}
  BY <1>1, <1>2, Records DEF DayInv, DatesPast, Asked
<1>6. Budget(cfg)'
  <2>1. SUFFICES ASSUME NEW d \in Devices
                 PROVE  Cardinality(Asked(d)') + Cardinality(Listings(sweep, d)') + Turn(d)'
                          <= Cardinality(Listings(cfg.eligible, d)')
    BY DEF Budget
  <2>2. Cardinality(Asked(d)') = 0 /\ Turn(d)' = 0
    BY <1>1, <1>5, FS_EmptySet DEF Turn
  <2>3. Listings(sweep, d)' = Listings(cfg.eligible, d) /\ Listings(cfg.eligible, d)' = Listings(cfg.eligible, d)
    BY <1>1 DEF Listings
  <2>4. Cardinality(Listings(cfg.eligible, d)) \in Nat
    BY ListingsFinite, Limits DEF TypeOK
  <2>5. QED
    BY <2>2, <2>3, <2>4
<1>7. SweepBudget'
  <2>1. PICK c \in lived : c = cfg
    BY DEF TypeOK
  <2>2. Budget(c)'
    BY <1>1, <1>6, <2>1 DEF Budget, Listings
  <2>3. QED
    BY <1>1, <2>2 DEF SweepBudget
<1>8. QED
  BY <1>3, <1>4, <1>7 DEF DayInv

\* scheduler.py:68-76: the sweep takes its next device.
LEMMA AttemptDay ==
  ASSUME TypeOK, DayInv, Attempt
  PROVE  DayInv'
<1>1. /\ UNCHANGED <<power, epoch, lastDate, now, lived>> /\ sweep # << >> /\ sweep \in Seq(Macs)
      /\ mac' = Head(sweep) /\ sweep' = Tail(sweep) /\ ~Rebooting
  BY DEF Attempt, Rebooting, memory, outside, TypeOK
<1>2. DatesPast' /\ OncePerDay'
  BY <1>1 DEF DayInv, DatesPast, Today, OncePerDay, SameDevice
<1>3. ASSUME NEW c \in lived, Budget(c) PROVE Budget(c)'
  <2>1. SUFFICES ASSUME NEW d \in Devices
                 PROVE  Cardinality(Asked(d)') + Cardinality(Listings(sweep, d)') + Turn(d)'
                          <= Cardinality(Listings(c.eligible, d))
    BY DEF Budget, Listings
  <2>2. Asked(d)' = Asked(d) /\ Listings(sweep, d)' = Listings(Tail(sweep), d)
    BY <1>1 DEF Asked, Listings
  <2>3. /\ Turn(d) = 0 /\ Turn(d)' \in {0, 1}
        /\ Turn(d)' = 1 => DeviceOf[Head(sweep)] = d
    BY <1>1 DEF Turn
  <2>4. /\ Cardinality(Asked(d)) \in Nat /\ Cardinality(Listings(sweep, d)) \in Nat
        /\ Cardinality(Listings(Tail(sweep), d)) \in Nat
        /\ Cardinality(Listings(c.eligible, d)) \in Nat
    BY <1>1, AskedFinite, ListingsFinite, HeadTailProperties, Limits DEF TypeOK
  <2>5. Cardinality(Asked(d)) + Cardinality(Listings(sweep, d)) + Turn(d)
          <= Cardinality(Listings(c.eligible, d))
    BY <1>3 DEF Budget
  <2>6. Cardinality(Listings(Tail(sweep), d)) + (IF DeviceOf[Head(sweep)] = d THEN 1 ELSE 0)
          <= Cardinality(Listings(sweep, d))
    BY <1>1, TailListings
  <2>7. QED
    BY <2>2, <2>3, <2>4, <2>5, <2>6
<1>4. SweepBudget'
  BY <1>1, <1>3 DEF DayInv, SweepBudget
<1>5. QED
  BY <1>2, <1>4 DEF DayInv

\* scheduler.py:98-104: the rebooter is called, and answers or raises.
LEMMA CallDay ==
  ASSUME TypeOK, DayInv, Rebooting, at # "sweep", NEW ok \in BOOLEAN,
         power' = Append(power, Call(ok)),
         UNCHANGED <<now, epoch, lived, lastDate, sweep, mac>>, ~Rebooting'
  PROVE  DayInv'
<1>1. PICK n, x, e, t : n = Len(power) + 1 /\ x = mac /\ e = epoch /\ t = lastDate
  OBVIOUS
<1>2. /\ DOMAIN power' = DOMAIN power \cup {n} /\ n \notin DOMAIN power
      /\ \A i \in DOMAIN power : power'[i] = power[i]
      /\ power'[n].epoch = e /\ power'[n].mac = x /\ power'[n].date = t
  BY <1>1, Called DEF Call
<1>3. t \in Nat /\ t # Never /\ DeviceOf[x] \in Devices
  BY <1>1, DeviceOfAssumption DEF TypeOK, Rebooting, Never
<1>4. DatesPast'
  BY <1>1, <1>2, <1>3, Clocks DEF DayInv, DatesPast, Today
<1>5. ASSUME NEW d
      PROVE  /\ Cardinality(Asked(d)') = Cardinality(Asked(d)) + Turn(d)
             /\ Cardinality(Asked(d)') \in Nat
  <2>1. n \notin Asked(d)
    BY <1>2 DEF Asked
  <2>2. /\ Cardinality(Asked(d)) \in Nat
        /\ Cardinality(Asked(d) \cup {n}) = Cardinality(Asked(d)) + 1
    BY <2>1, AskedFinite, FS_AddElement
  <2>3. CASE DeviceOf[x] = d
    <3>1. Asked(d)' = Asked(d) \cup {n}
      BY <1>1, <1>2, <2>3 DEF Asked
    <3>2. Turn(d) = 1
      BY <1>1, <2>3 DEF Turn
    <3>3. QED
      BY <2>2, <3>1, <3>2
  <2>4. CASE DeviceOf[x] # d
    <3>1. Asked(d)' = Asked(d)
      BY <1>2, <2>4 DEF Asked
    <3>2. Turn(d) = 0
      BY <1>1, <2>4 DEF Turn
    <3>3. QED
      BY <2>2, <3>1, <3>2
  <2>5. QED
    BY <2>3, <2>4
<1>6. PICK c \in lived : Budget(c)
  BY <1>1, <1>3 DEF DayInv, SweepBudget
<1>7. ASSUME NEW d \in Devices
      PROVE  Cardinality(Asked(d)') + Cardinality(Listings(sweep, d)) <= Cardinality(Listings(c.eligible, d))
  <2>1. /\ Cardinality(Asked(d)) \in Nat /\ Cardinality(Listings(sweep, d)) \in Nat
        /\ Cardinality(Listings(c.eligible, d)) \in Nat /\ Turn(d) \in Nat
    BY AskedFinite, ListingsFinite, Limits DEF TypeOK, Turn
  <2>2. Cardinality(Asked(d)) + Cardinality(Listings(sweep, d)) + Turn(d)
          <= Cardinality(Listings(c.eligible, d))
    BY <1>6 DEF Budget
  <2>3. QED
    BY <1>5, <2>1, <2>2
<1>8. SweepBudget'
  <2>1. ASSUME NEW d \in Devices
        PROVE  Cardinality(Asked(d)') + Cardinality(Listings(sweep, d)') + Turn(d)'
                 <= Cardinality(Listings(c.eligible, d))
    <3>1. Turn(d)' = 0 /\ Listings(sweep, d)' = Listings(sweep, d)
      BY DEF Turn, Listings
    <3>2. Cardinality(Asked(d)') \in Nat /\ Cardinality(Listings(sweep, d)) \in Nat
      BY <1>5, ListingsFinite DEF TypeOK
    <3>3. QED
      BY <1>7, <3>1, <3>2
  <2>2. Budget(c)'
    BY <2>1 DEF Budget, Listings
  <2>3. QED
    BY <2>2 DEF SweepBudget
<1>9. OncePerDay'
  <2> DEFINE Same(j) ==
        {i \in DOMAIN power : /\ SameDevice(i, j) /\ power[i].date = power[j].date
                              /\ power[i].epoch = power[j].epoch}
  <2>1. SUFFICES ASSUME NEW j \in DOMAIN power'
                 PROVE  \E b \in lived : Cardinality(Same(j)')
                          <= Cardinality(Listings(b.eligible, DeviceOf[power'[j].mac]))
    BY DEF OncePerDay, Listings
  <2>2. CASE DeviceOf[power'[j].mac] = DeviceOf[x] /\ power'[j].date = t /\ power'[j].epoch = e
    <3>1. PICK d \in Devices : d = DeviceOf[x]
      BY <1>3
    <3>2. Same(j)' = Asked(d)'
      BY <1>1, <2>2, <3>1 DEF SameDevice, Asked
    <3>3. Cardinality(Asked(d)') <= Cardinality(Listings(c.eligible, d))
      <4>1. /\ Cardinality(Asked(d)') \in Nat /\ Cardinality(Listings(sweep, d)) \in Nat
            /\ Cardinality(Listings(c.eligible, d)) \in Nat
        BY <1>5, ListingsFinite, Limits DEF TypeOK
      <4>2. QED
        BY <1>7, <4>1
    <3>4. QED
      BY <2>2, <3>1, <3>2, <3>3
  <2>3. CASE ~(DeviceOf[power'[j].mac] = DeviceOf[x] /\ power'[j].date = t /\ power'[j].epoch = e)
    <3>1. j \in DOMAIN power /\ power'[j] = power[j]
      BY <1>2, <2>3
    <3>2. Same(j)' = Same(j)
      BY <1>2, <2>3, <3>1 DEF SameDevice
    <3>3. PICK b \in lived : Cardinality(Same(j)) <= Cardinality(Listings(b.eligible, DeviceOf[power[j].mac]))
      BY <3>1 DEF DayInv, OncePerDay, Listings
    <3>4. QED
      BY <3>1, <3>2, <3>3
  <2>4. QED
    BY <2>2, <2>3
<1>10. QED
  BY <1>4, <1>8, <1>9 DEF DayInv

\* Every step keeps to the listings of the day.
LEMMA NextDay == TypeOK /\ DayInv /\ [Next]_vars => DayInv'
<1> SUFFICES ASSUME TypeOK, DayInv, [Next]_vars PROVE DayInv'
  OBVIOUS
<1> USE DEF memory, outside, observers
<1>1. CASE UNCHANGED vars \/ Tick \/ \E c \in Configs : Reload(c)
  <2>1. /\ UNCHANGED <<power, epoch, lastDate, sweep, mac>>
        /\ now' \in Nat /\ now' >= now /\ lived \subseteq lived'
        /\ Rebooting' => Rebooting
    BY <1>1, Clocks DEF vars, Tick, Reload, Rebooting
  <2>2. QED
    BY <2>1, QuietDay
<1>2. ASSUME NEW c \in Configs, Restart(c) PROVE DayInv'
  <2>1. /\ epoch' = epoch + 1 /\ lastDate' = Never /\ UNCHANGED <<power, now>>
        /\ lived \subseteq lived'
    BY <1>2 DEF Restart
  <2>2. \A i \in DOMAIN power : power[i].epoch <= epoch /\ power[i].epoch \in Nat
    BY Records DEF DayInv, DatesPast
  <2>3. Today' \in Nat /\ Today' = Today
    <3>1. Today \in Nat
      BY TodayType
    <3>2. QED
      BY <2>1, <3>1 DEF Today
  <2>4. DatesPast'
    BY <2>1, <2>2, <2>3, Clocks DEF DatesPast, Never
  <2>5. OncePerDay'
    BY <2>1 DEF DayInv, OncePerDay, SameDevice
  <2>6. QED
    BY <2>1, <2>4, <2>5 DEF DayInv, SweepBudget
<1>3. CASE Wake
  BY <1>3, WakeDay
<1>4. CASE Attempt
  BY <1>4, AttemptDay
<1>5. CASE EndSweep \/ Resolved \/ Written \/ Notified \/ (AttemptFails /\ at # "reboot")
  <2>1. /\ UNCHANGED <<power, epoch, lastDate, sweep, now, lived>>
        /\ Rebooting' => Rebooting /\ UNCHANGED mac
    BY <1>5 DEF EndSweep, Resolved, Written, Notified, AttemptFails, NextDevice, Rebooting
  <2>2. QED
    BY <2>1, Clocks, QuietDay
<1>6. CASE Rebooted \/ (AttemptFails /\ at = "reboot")
  <2>1. /\ Rebooting /\ at # "sweep" /\ ~Rebooting'
        /\ power' = Append(power, Call(TRUE)) \/ power' = Append(power, Call(FALSE))
        /\ UNCHANGED <<now, epoch, lived, lastDate, sweep, mac>>
    BY <1>6 DEF Rebooted, AttemptFails, NextDevice, Rebooting
  <2>2. QED
    BY <2>1, CallDay
<1>7. QED
  BY <1>1, <1>2, <1>3, <1>4, <1>5, <1>6 DEF Next, Step

\* ADR-0006 AC-1 and scheduler.py:62-63: a day's requests for a device are at most its
\* listings, for every list, spelling, clock and sequence of reloads.
THEOREM OncePerDayCorrect == Spec => []OncePerDay
<1>1. Init => DayInv
  BY DayAssumption DEF Init, DayInv, DatesPast, SweepBudget, OncePerDay, Today, Never
<1>2. DayInv => OncePerDay
  BY DEF DayInv
<1>3. QED
  BY <1>1, <1>2, NextDay, TypeCorrect, PTL DEF Spec
=============================================================================
