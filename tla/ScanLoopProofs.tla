--------------------------- MODULE ScanLoopProofs ---------------------------
(***************************************************************************)
(* Proofs about ScanLoop, for any clients, access points, configurations   *)
(* and bounds: its types, and that what is kicked was not allowlisted;     *)
(* the limits on kicking; and that it makes attempts as Attempts says.     *)
(***************************************************************************)
EXTENDS ScanLoop, FiniteSetTheorems, SequenceTheorems, WellFoundedInduction, TLAPS

----------------------------------------------------------------------------
(* Types and the allowlist.                                                *)

\* rate_limit.py _prune: popping expired entries leaves a deque of times.
LEMMA PruneType ==
  ASSUME NEW deq \in Seq(Nat), NEW cutoff \in Int
  PROVE  Prune(deq, cutoff) \in Seq(Nat)
<1> DEFINE expired == {i \in DOMAIN deq : deq[i] < cutoff}
<1>1. IsFiniteSet(1..Len(deq)) /\ Len(deq) \in Nat /\ DOMAIN deq = 1..Len(deq)
  BY FS_Interval, LenProperties
<1>2. Cardinality(expired) \in Nat
  BY <1>1, FS_Subset, FS_CardinalityType
<1>3. \A i \in (1 + Cardinality(expired))..Len(deq) : deq[i] \in Nat
  BY <1>1, <1>2, ElementOfSeq
<1>4. SubSeq(deq, 1 + Cardinality(expired), Len(deq)) \in Seq(Nat)
  BY <1>1, <1>2, <1>3, SubSeqProperties
<1>5. QED
  BY <1>4 DEF Prune

\* actor.py _dispatch_mechanism: what is sent is always btm or deauth.
LEMMA MechanismType ==
  ASSUME NEW c, NEW m
  PROVE  Mechanism(c, m) \in FreshMechanisms
BY DEF Mechanism, FreshMechanisms

\* A handle call gives control back to one of the points that may raise one.
LEMMA ResumeType ==
  ASSUME NEW t \in Triggers
  PROVE  /\ Resume(t) \in {"idled", "sample", "flagged"}
         /\ Resume(t) = "idled" => t = "rf"
BY DEF Resume, Triggers

\* What no call has for a frame is not the frame of a call.
LEMMA FrameDistinct == \A f \in FrameType : f # NoFrame
<1> SUFFICES ASSUME NEW f \in FrameType PROVE f # NoFrame
  OBVIOUS
<1>1. f.trigger \in Triggers
  BY DEF FrameType
<1>2. NoFrame.trigger = "none"
  BY DEF NoFrame
<1>3. QED
  BY <1>1, <1>2 DEF Triggers

----------------------------------------------------------------------------
(* The ways control moves, each used by several actions.                   *)

\* Returning from handle, or raising out of it, ends the call.
LEMMA LeaveType ==
  ASSUME ControlOK, InHandle, Return \/ Raise, UNCHANGED <<client, seen>>
  PROVE  ControlOK'
<1>1. frame \in FrameType /\ frame.trigger \in Triggers
  BY DEF ControlOK, FrameType
<1>2. CASE Return
  BY <1>1, <1>2, ResumeType
     DEF ControlOK, Return, InHandle, HandleAwaits, SyncPoints
<1>3. CASE Raise
  BY <1>3 DEF ControlOK, Raise, InHandle, HandleAwaits, SyncPoints
<1>4. QED
  BY <1>2, <1>3

\* Going on to an await of the same call keeps the call's frame.
LEMMA StayType ==
  ASSUME ControlOK, InHandle, at' \in HandleAwaits,
         frame' \in FrameType, frame'.trigger = frame.trigger,
         UNCHANGED <<client, seen>>
  PROVE  ControlOK'
BY FrameDistinct DEF ControlOK, InHandle, SyncPoints, HandleAwaits

\* A detector's flag opens a call for a client that is on an access point.
LEMMA StartType ==
  ASSUME ControlOK, WorldOK, NEW m \in Macs, seen[m] \in Aps,
         NEW t \in Triggers, t = "rf" => m = client,
         StartHandle(m, seen[m], t), UNCHANGED <<client, seen>>
  PROVE  ControlOK'
<1>1. frame' \in FrameType /\ frame'.trigger = t
  BY DEF StartHandle, FrameType, WorldOK
<1>2. QED
  BY <1>1, FrameDistinct DEF ControlOK, StartHandle, InHandle, SyncPoints, HandleAwaits

\* Clearing a pending BTM leaves the map typed.
LEMMA ClearBtmType ==
  ASSUME ActorOK, NEW m \in Macs, ClearBtm(m)
  PROVE  btm' \in [Macs -> [group : Nat, ap : Aps \cup {NoAp}]]
<1>1. NoBtm \in [group : Nat, ap : Aps \cup {NoAp}]
  BY DEF NoBtm
<1>2. QED
  BY <1>1 DEF ClearBtm, ActorOK

\* The limiter's verdict either opens the wire or ends the call.
LEMMA LimiterType ==
  ASSUME TypeOK, InHandle, LimiterGate, UNCHANGED <<client, seen>>
  PROVE  /\ ControlOK' /\ groups' \in Nat
         /\ perAp' \in [Aps -> Seq(Nat)]
<1>1. frame \in FrameType
  BY DEF TypeOK, ControlOK
<1>2. now \in Nat /\ cfg.apWindow \in Nat
  BY ConfigAssumption DEF TypeOK, WorldOK, ConfigType
<1>3. ASSUME NEW a \in Aps
      PROVE  Prune(perAp[a], now - cfg.apWindow) \in Seq(Nat)
  <2>1. perAp[a] \in Seq(Nat) /\ now - cfg.apWindow \in Int
    BY <1>2 DEF TypeOK, ActorOK
  <2>2. QED
    BY <2>1, PruneType
<1>4. perAp' \in [Aps -> Seq(Nat)]
  BY <1>3 DEF LimiterGate, TypeOK, ActorOK
<1>5. groups' \in Nat
  <2>1. groups \in Nat
    BY DEF TypeOK, RecordOK
  <2>2. groups' = groups + 1 \/ UNCHANGED groups
    BY DEF LimiterGate
  <2>3. QED
    BY <2>1, <2>2
<1>6. ControlOK'
  <2>1. CASE Return
    BY <2>1, LeaveType DEF TypeOK
  <2>2. CASE ~Return
    <3>1. at' = "wire" /\ frame' = [frame EXCEPT !.group = groups + 1]
      BY <2>2 DEF LimiterGate
    <3>2. frame' \in FrameType /\ frame'.trigger = frame.trigger
      BY <1>1, <3>1 DEF FrameType, TypeOK, RecordOK
    <3>3. QED
      BY <3>1, <3>2, StayType DEF TypeOK, HandleAwaits
  <2>3. QED
    BY <2>1, <2>2
<1>7. QED
  BY <1>4, <1>5, <1>6

\* What is appended to the wire and to the ledger has its type.
LEMMA EntryTypes ==
  ASSUME TypeOK, InHandle
  PROVE  /\ \A mech \in Mechanisms, ok \in BOOLEAN : Call(mech, ok) \in CallType
         /\ \A mech \in Mechanisms : Row(mech) \in RowType
         /\ DryRow \in RowType
<1>1. frame \in FrameType
  BY DEF TypeOK, ControlOK
<1>2. Mechanism(frame.cf, frame.mac) \in Mechanisms
  BY MechanismType DEF Mechanisms
<1>3. QED
  BY <1>1, <1>2 DEF TypeOK, WorldOK, FrameType, Call, CallType, Row, RowType, DryRow

----------------------------------------------------------------------------
\* A daemon that has just been started is well typed.
THEOREM InitType == Init => TypeOK
<1> SUFFICES ASSUME Init PROVE TypeOK
  OBVIOUS
<1>1. ControlOK
  BY DEF Init, Boot, ControlOK, InHandle, HandleAwaits, SyncPoints
<1>2. btm \in [Macs -> [group : Nat, ap : Aps \cup {NoAp}]]
  BY DEF Init, Boot, FreshProcess, NoBtm
<1>3. outcome \in [Macs -> [ap : Aps \cup {NoAp}, group : Nat,
                            mechanism : Mechanisms \cup {"none"}]]
  BY DEF Init, Boot, FreshProcess, NoOutcome
<1>4. perAp \in [Aps -> Seq(Nat)]
  BY DEF Init, Boot, FreshProcess
<1>5. ActorOK
  BY <1>2, <1>3, <1>4 DEF Init, Boot, FreshProcess, ActorOK, Never
<1>6. RecordOK /\ WorldOK
  BY DEF Init, Boot, RecordOK, WorldOK
<1>7. QED
  BY <1>1, <1>5, <1>6 DEF TypeOK

\* The actions of the world leave the actor's types alone.
LEMMA WorldType ==
  ASSUME TypeOK, NEW c \in Configs, Tick \/ Reload(c) \/ Restart(c)
  PROVE  TypeOK'
<1>1. CASE Tick
  BY <1>1 DEF Tick, TypeOK, ControlOK, ActorOK, RecordOK, WorldOK, InHandle,
              process, pass, observers
<1>2. CASE Reload(c)
  BY <1>2 DEF Reload, TypeOK, ControlOK, ActorOK, RecordOK, WorldOK, InHandle,
              process, pass
<1>3. CASE Restart(c)
  <2>1. frame' = NoFrame /\ at' = "sleep"
    BY <1>3 DEF Restart
  <2>2. ControlOK'
    BY <1>3, <2>1 DEF Restart, TypeOK, ControlOK, InHandle, HandleAwaits, SyncPoints
  <2>3. btm' \in [Macs -> [group : Nat, ap : Aps \cup {NoAp}]]
    BY <1>3 DEF Restart, FreshProcess, NoBtm
  <2>4. outcome' \in [Macs -> [ap : Aps \cup {NoAp}, group : Nat,
                               mechanism : Mechanisms \cup {"none"}]]
    BY <1>3 DEF Restart, FreshProcess, NoOutcome
  <2>5. perAp' \in [Aps -> Seq(Nat)]
    BY <1>3 DEF Restart, FreshProcess
  <2>6. ActorOK'
    BY <1>3, <2>3, <2>4, <2>5 DEF Restart, FreshProcess, ActorOK, Never
  <2>7. RecordOK' /\ WorldOK'
    BY <1>3 DEF Restart, TypeOK, RecordOK, WorldOK
  <2>8. QED
    BY <2>2, <2>6, <2>7 DEF TypeOK
<1>4. QED
  BY <1>1, <1>2, <1>3

\* The actions of run_once outside handle.
LEMMA LoopType ==
  ASSUME TypeOK,
         \/ BeginCycle \/ \E m \in Macs, ap \in Aps : ClientPolled(m, ap)
         \/ DetectRf \/ DetectInactivity
         \/ \E F \in SUBSET Macs : DnsObserved(F)
         \/ \E m \in Macs : DnsNext(m)
         \/ EndCycle \/ SampleFails
  PROVE  TypeOK'
<1>1. CASE BeginCycle
  BY <1>1, FrameDistinct
     DEF BeginCycle, TypeOK, ControlOK, ActorOK, RecordOK, WorldOK, InHandle,
         HandleAwaits, SyncPoints, process, world
<1>2. ASSUME NEW m \in Macs, NEW ap \in Aps, ClientPolled(m, ap)
      PROVE  TypeOK'
  <2>1. ControlOK'
    BY <1>2, FrameDistinct
       DEF ClientPolled, TypeOK, ControlOK, InHandle, HandleAwaits, SyncPoints
  <2>2. btm' \in [Macs -> [group : Nat, ap : Aps \cup {NoAp}]]
    BY <1>2, ClearBtmType DEF ClientPolled, CheckPostKickOutcome, TypeOK, ActorOK
  <2>3. outcome' \in [Macs -> [ap : Aps \cup {NoAp}, group : Nat,
                               mechanism : Mechanisms \cup {"none"}]]
    BY <1>2 DEF ClientPolled, CheckPostKickOutcome, NoOutcome, TypeOK, ActorOK
  <2>4. ActorOK'
    BY <1>2, <2>2, <2>3 DEF ClientPolled, TypeOK, ActorOK
  <2>5. btm[m].group \in Nat
    BY DEF TypeOK, ActorOK
  <2>6. RecordOK' /\ WorldOK'
    BY <1>2, <2>5 DEF ClientPolled, TypeOK, RecordOK, WorldOK, world
  <2>7. QED
    BY <2>1, <2>4, <2>6 DEF TypeOK
<1>3. CASE DetectRf \/ DetectInactivity
  <2>1. UNCHANGED <<world, process, ledger, groups, wire, pass, observers>>
    BY <1>3 DEF DetectRf, DetectInactivity, Detect
  <2>2. ControlOK'
    <3>1. CASE UNCHANGED frame /\ at' \in {"idled", "sample"}
      BY <1>3, <2>1, <3>1, FrameDistinct
         DEF DetectRf, DetectInactivity, Detect, TypeOK, ControlOK,
             InHandle, HandleAwaits, SyncPoints, StartHandle, pass
    <3>2. CASE StartHandle(client, seen[client], "rf")
      <4>1. seen[client] \in Aps /\ client \in Macs
        BY <1>3 DEF TypeOK, ControlOK, DetectRf, DetectInactivity, Detect
      <4>2. QED
        BY <2>1, <3>2, <4>1, StartType DEF TypeOK, pass, Triggers
    <3>3. CASE StartHandle(client, seen[client], "inactivity")
      <4>1. seen[client] \in Aps /\ client \in Macs
        BY <1>3 DEF TypeOK, ControlOK, DetectRf, DetectInactivity, Detect
      <4>2. QED
        BY <2>1, <3>3, <4>1, StartType DEF TypeOK, pass, Triggers
    <3>4. QED
      BY <1>3, <3>1, <3>2, <3>3 DEF DetectRf, DetectInactivity, Detect
  <2>3. ActorOK' /\ RecordOK' /\ WorldOK'
    BY <2>1 DEF TypeOK, ActorOK, RecordOK, WorldOK, world, process, pass, observers
  <2>4. QED
    BY <2>2, <2>3 DEF TypeOK
<1>4. ASSUME NEW F \in SUBSET Macs, DnsObserved(F)
      PROVE  TypeOK'
  <2>1. ControlOK'
    BY <1>4, FrameDistinct
       DEF DnsObserved, TypeOK, ControlOK, InHandle, HandleAwaits, SyncPoints
  <2>2. cfg.allowlist \in SUBSET Macs
    BY ConfigAssumption DEF TypeOK, WorldOK, ConfigType
  <2>3. ActorOK' /\ RecordOK' /\ WorldOK'
    BY <1>4, <2>2 DEF DnsObserved, TypeOK, ActorOK, RecordOK, WorldOK, world,
                      process, observers
  <2>4. QED
    BY <2>1, <2>3 DEF TypeOK
<1>5. ASSUME NEW m \in Macs, DnsNext(m)
      PROVE  TypeOK'
  <2>1. ControlOK'
    <3>1. CASE UNCHANGED <<at, frame>>
      BY <1>5, <3>1 DEF DnsNext, TypeOK, ControlOK, InHandle
    <3>2. CASE ~UNCHANGED <<at, frame>>
      <4>1. seen[m] \in Aps /\ StartHandle(m, seen[m], "dns_thrash")
        BY <1>5, <3>2 DEF DnsNext, DnsMayKick, TypeOK, ControlOK
      <4>2. UNCHANGED <<client, seen>>
        BY <1>5 DEF DnsNext
      <4>3. QED
        BY <4>1, <4>2, StartType DEF TypeOK, Triggers
    <3>3. QED
      BY <3>1, <3>2
  <2>2. ActorOK' /\ RecordOK' /\ WorldOK'
    BY <1>5 DEF DnsNext, Rest, TypeOK, ActorOK, RecordOK, WorldOK, world,
                process, observers
  <2>3. QED
    BY <2>1, <2>2 DEF TypeOK
<1>6. CASE EndCycle \/ SampleFails
  <2>1. ControlOK'
    BY <1>6, FrameDistinct
       DEF EndCycle, SampleFails, Raise, TypeOK, ControlOK, InHandle,
           HandleAwaits, SyncPoints, pass
  <2>2. ActorOK' /\ RecordOK' /\ WorldOK'
    BY <1>6 DEF EndCycle, SampleFails, TypeOK, ActorOK, RecordOK, WorldOK,
                world, process, pass, observers
  <2>3. QED
    BY <2>1, <2>2 DEF TypeOK
<1>7. QED
  BY <1>1, <1>2, <1>3, <1>4, <1>5, <1>6

----------------------------------------------------------------------------
\* The actions of handle, one step each.
LEMMA HandleType ==
  ASSUME TypeOK, Handle, UNCHANGED <<pass, observers>>
  PROVE  TypeOK'
<1> USE DEF process, pass, observers, world
<1>0. UNCHANGED <<client, seen>> /\ cfg \in Configs /\ now \in Nat /\ InHandle
  BY DEF TypeOK, WorldOK, InHandle, HandleAwaits, Handle, HandleDryRun, DryRunWritten,
         HandleQuarantine, QuarantineNotified, HandleFallback, FallbackSent,
         FallbackWritten, HandleFresh, LedgerRead, KickSent, KickWritten, KickNotified
<1>a. frame \in FrameType /\ frame.mac \in Macs /\ frame.ap \in Aps
  BY <1>0 DEF TypeOK, ControlOK, FrameType
<1>b. Mechanism(frame.cf, frame.mac) \in FreshMechanisms
  BY MechanismType
<1>c. "deauth_fallback" \in Mechanisms /\ FreshMechanisms \subseteq Mechanisms
  BY DEF Mechanisms
<1>1. CASE HandleDryRun
  <2>1. ControlOK'
    <3>1. CASE Return
      BY <3>1, <1>0, LeaveType DEF TypeOK
    <3>2. CASE ~Return
      BY <1>1, <1>0, <1>a, <3>2, StayType DEF HandleDryRun, TypeOK, HandleAwaits
    <3>3. QED
      BY <3>1, <3>2
  <2>2. ActorOK'
    BY <1>1, <1>0 DEF HandleDryRun, TypeOK, ActorOK
  <2>3. QED
    BY <1>1, <2>1, <2>2 DEF HandleDryRun, TypeOK, RecordOK, WorldOK
<1>2. CASE DryRunWritten
  <2>1. ControlOK'
    BY <1>0, <1>2, LeaveType DEF DryRunWritten, TypeOK
  <2>2. ledger' \in Seq(RowType)
    BY <1>0, <1>2, EntryTypes, AppendProperties DEF DryRunWritten, TypeOK, RecordOK
  <2>3. QED
    BY <1>2, <2>1, <2>2 DEF DryRunWritten, TypeOK, ActorOK, RecordOK, WorldOK
<1>3. CASE HandleQuarantine
  <2>1. ControlOK'
    <3>1. CASE Return
      BY <3>1, <1>0, LeaveType DEF TypeOK
    <3>2. CASE ~Return
      BY <1>3, <1>0, <1>a, <3>2, StayType DEF HandleQuarantine, TypeOK, HandleAwaits
    <3>3. QED
      BY <3>1, <3>2
  <2>2. QED
    BY <1>3, <2>1 DEF HandleQuarantine, TypeOK, ActorOK, RecordOK, WorldOK
<1>4. CASE QuarantineNotified
  <2>1. ControlOK'
    BY <1>0, <1>4, LeaveType DEF QuarantineNotified, TypeOK
  <2>2. ActorOK'
    BY <1>4 DEF QuarantineNotified, TypeOK, ActorOK
  <2>3. QED
    BY <1>4, <2>1, <2>2 DEF QuarantineNotified, TypeOK, RecordOK, WorldOK
<1>5. CASE HandleFallback
  <2>1. ControlOK'
    <3>1. CASE Return
      BY <3>1, <1>0, LeaveType DEF TypeOK
    <3>2. CASE ~Return
      <4>1. btm[frame.mac].group \in Nat
        BY <1>a DEF TypeOK, ActorOK
      <4>2. at' = "fallback_wire" /\ frame' = [frame EXCEPT !.group = btm[frame.mac].group]
        BY <1>5, <3>2 DEF HandleFallback
      <4>3. frame' \in FrameType /\ frame'.trigger = frame.trigger
        BY <1>a, <4>1, <4>2 DEF FrameType
      <4>4. QED
        BY <1>0, <4>2, <4>3, StayType DEF TypeOK, HandleAwaits
    <3>3. QED
      BY <3>1, <3>2
  <2>2. QED
    BY <1>5, <2>1 DEF HandleFallback, TypeOK, ActorOK, RecordOK, WorldOK
<1>6. CASE FallbackSent
  <2>1. frame' \in FrameType /\ frame'.trigger = frame.trigger
    BY <1>0, <1>6, <1>a DEF FallbackSent, FrameType
  <2>2. ControlOK'
    BY <1>0, <1>6, <2>1, StayType DEF FallbackSent, TypeOK, HandleAwaits
  <2>3. wire' \in Seq(CallType)
    BY <1>0, <1>6, <1>c, EntryTypes, AppendProperties DEF FallbackSent, TypeOK, RecordOK
  <2>4. ActorOK'
    BY <1>0, <1>6 DEF FallbackSent, RecordWireCall, TypeOK, ActorOK
  <2>5. QED
    BY <1>6, <2>2, <2>3, <2>4 DEF FallbackSent, TypeOK, RecordOK, WorldOK
<1>7. CASE FallbackWritten
  <2>1. ControlOK'
    BY <1>0, <1>7, LeaveType DEF FallbackWritten, TypeOK
  <2>2. ledger' \in Seq(RowType)
    BY <1>0, <1>7, <1>c, EntryTypes, AppendProperties DEF FallbackWritten, TypeOK, RecordOK
  <2>3. Outcome("deauth_fallback") \in
          [ap : Aps \cup {NoAp}, group : Nat, mechanism : Mechanisms \cup {"none"}]
    BY <1>a, <1>c DEF Outcome, FrameType
  <2>4. ActorOK'
    BY <1>7, <1>a, <2>3, ClearBtmType DEF FallbackWritten, TypeOK, ActorOK
  <2>5. QED
    BY <1>7, <2>1, <2>2, <2>4 DEF FallbackWritten, TypeOK, RecordOK, WorldOK
<1>8. CASE HandleFresh
  <2>1. ControlOK' /\ groups' \in Nat /\ perAp' \in [Aps -> Seq(Nat)]
    <3>1. CASE LimiterGate
      BY <1>0, <3>1, LimiterType
    <3>2. CASE ~LimiterGate
      <4>1. at' = "ledger_read" /\ UNCHANGED <<frame, perAp, groups>>
        BY <1>8, <3>2 DEF HandleFresh
      <4>2. ControlOK'
        BY <1>0, <1>a, <4>1, StayType DEF TypeOK, HandleAwaits
      <4>3. QED
        BY <4>1, <4>2 DEF TypeOK, ActorOK, RecordOK
    <3>3. QED
      BY <3>1, <3>2
  <2>2. QED
    BY <1>8, <2>1 DEF HandleFresh, TypeOK, ActorOK, RecordOK, WorldOK
<1>9. CASE LedgerRead
  <2>1. ControlOK' /\ groups' \in Nat /\ perAp' \in [Aps -> Seq(Nat)]
    <3>1. CASE LimiterGate
      BY <1>0, <3>1, LimiterType
    <3>2. CASE ~LimiterGate
      <4>1. Return /\ UNCHANGED <<perAp, groups>>
        BY <1>9, <3>2 DEF LedgerRead
      <4>2. ControlOK'
        BY <1>0, <4>1, LeaveType DEF TypeOK
      <4>3. QED
        BY <4>1, <4>2 DEF TypeOK, ActorOK, RecordOK
    <3>3. QED
      BY <3>1, <3>2
  <2>2. QED
    BY <1>9, <2>1 DEF LedgerRead, TypeOK, ActorOK, RecordOK, WorldOK
<1>10. CASE KickSent
  <2>1. frame' \in FrameType /\ frame'.trigger = frame.trigger
    BY <1>0, <1>10, <1>a DEF KickSent, FrameType
  <2>2. ControlOK'
    BY <1>0, <1>10, <2>1, StayType DEF KickSent, TypeOK, HandleAwaits
  <2>3. wire' \in Seq(CallType)
    BY <1>0, <1>10, <1>b, <1>c, EntryTypes, AppendProperties DEF KickSent, TypeOK, RecordOK
  <2>4. [group |-> frame.group, ap |-> frame.ap] \in [group : Nat, ap : Aps \cup {NoAp}]
    BY <1>a DEF FrameType
  <2>5. btm' \in [Macs -> [group : Nat, ap : Aps \cup {NoAp}]]
    BY <1>10, <2>4 DEF KickSent, TypeOK, ActorOK
  <2>6. Append(perAp[frame.ap], now) \in Seq(Nat)
    BY <1>0, <1>a, AppendProperties DEF TypeOK, ActorOK
  <2>7. perAp' \in [Aps -> Seq(Nat)]
    BY <1>10, <2>6 DEF KickSent, TypeOK, ActorOK
  <2>8. kicks' \in [Macs -> Nat]
    <3>1. kicks' = [kicks EXCEPT ![frame.mac] = kicks[frame.mac] + 1]
      BY <1>10 DEF KickSent
    <3>2. kicks \in [Macs -> Nat] /\ kicks[frame.mac] + 1 \in Nat
      BY <1>a DEF TypeOK, ActorOK
    <3>3. QED
      BY <3>1, <3>2
  <2>9. ActorOK'
    BY <1>0, <1>10, <2>5, <2>7, <2>8 DEF KickSent, TypeOK, ActorOK
  <2>10. QED
    BY <1>10, <2>2, <2>3, <2>9 DEF KickSent, TypeOK, RecordOK, WorldOK
<1>11. CASE KickWritten
  <2>1. ControlOK'
    <3>1. CASE Return
      BY <3>1, <1>0, LeaveType DEF TypeOK
    <3>2. CASE ~Return
      BY <1>11, <1>0, <1>a, <3>2, StayType DEF KickWritten, TypeOK, HandleAwaits
    <3>3. QED
      BY <3>1, <3>2
  <2>2. ledger' \in Seq(RowType)
    BY <1>0, <1>11, <1>b, <1>c, EntryTypes, AppendProperties DEF KickWritten, TypeOK, RecordOK
  <2>3. Outcome(Mechanism(frame.cf, frame.mac)) \in
          [ap : Aps \cup {NoAp}, group : Nat, mechanism : Mechanisms \cup {"none"}]
    BY <1>a, <1>b, <1>c DEF Outcome, FrameType
  <2>4. ActorOK'
    BY <1>11, <2>3 DEF KickWritten, TypeOK, ActorOK
  <2>5. QED
    BY <1>11, <2>1, <2>2, <2>4 DEF KickWritten, TypeOK, RecordOK, WorldOK
<1>12. CASE KickNotified
  <2>1. ControlOK'
    BY <1>0, <1>12, LeaveType DEF KickNotified, TypeOK
  <2>2. QED
    BY <1>12, <2>1 DEF KickNotified, TypeOK, ActorOK, RecordOK, WorldOK
<1>13. QED
  BY <1>1, <1>2, <1>3, <1>4, <1>5, <1>6, <1>7, <1>8, <1>9, <1>10, <1>11, <1>12
     DEF Handle

\* A call or a store that raises.
LEMMA FaultType ==
  ASSUME TypeOK, WireFails \/ StoreFails, UNCHANGED <<pass, observers>>
  PROVE  TypeOK'
<1> USE DEF process, pass, observers, world
<1>1. Raise /\ InHandle /\ UNCHANGED <<client, seen>>
  BY DEF WireFails, StoreFails, Propagate, InHandle, HandleAwaits
<1>2. ControlOK'
  BY <1>1, LeaveType DEF TypeOK
<1>3. "deauth_fallback" \in Mechanisms
      /\ Mechanism(frame.cf, frame.mac) \in Mechanisms
  BY MechanismType DEF Mechanisms
<1>4. CASE WireFails
  <2>1. wire' \in Seq(CallType)
    BY <1>1, <1>3, <1>4, EntryTypes, AppendProperties DEF WireFails, TypeOK, RecordOK
  <2>2. QED
    BY <1>2, <1>4, <2>1 DEF WireFails, TypeOK, ActorOK, RecordOK, WorldOK
<1>5. CASE StoreFails
  <2>1. ledger' \in Seq(RowType)
    <3>1. CASE UNCHANGED ledger
      BY <3>1 DEF TypeOK, RecordOK
    <3>2. CASE ~UNCHANGED ledger
      <4>1. \E r \in {DryRow, Row(Mechanism(frame.cf, frame.mac)),
                      Row("deauth_fallback")} : ledger' = Append(ledger, r)
        BY <1>5, <3>2 DEF StoreFails
      <4>2. QED
        BY <1>1, <1>3, <4>1, EntryTypes, AppendProperties DEF TypeOK, RecordOK
    <3>3. QED
      BY <3>1, <3>2
  <2>2. QED
    BY <1>2, <1>5, <2>1 DEF StoreFails, TypeOK, ActorOK, RecordOK, WorldOK
<1>6. QED
  BY <1>4, <1>5

\* Nothing happened.
LEMMA StutterType == TypeOK /\ UNCHANGED vars => TypeOK'
BY DEF vars, world, process, pass, observers, TypeOK, ControlOK, ActorOK, RecordOK,
       WorldOK, InHandle

\* No step of the scan task or of its world breaks the type invariant.
THEOREM NextType == TypeOK /\ [Next]_vars => TypeOK'
<1> SUFFICES ASSUME TypeOK, [Next]_vars PROVE TypeOK'
  OBVIOUS
<1>1. CASE UNCHANGED vars
  BY <1>1, StutterType
<1>2. CASE Scan
  <2>1. CASE HandleStep
    BY <2>1, HandleType DEF HandleStep
  <2>2. CASE Fault
    BY <2>2, FaultType, LoopType DEF Fault
  <2>3. CASE ~HandleStep /\ ~Fault
    BY <1>2, <2>3, LoopType DEF Scan
  <2>4. QED
    BY <2>1, <2>2, <2>3
<1>3. CASE Tick
  <2>1. PICK c \in Configs : TRUE
    BY DEF TypeOK, WorldOK
  <2>2. QED
    BY <1>3, <2>1, WorldType
<1>4. ASSUME NEW c \in Configs, Reload(c) \/ Restart(c)
      PROVE  TypeOK'
  BY <1>4, WorldType
<1>5. QED
  BY <1>1, <1>2, <1>3, <1>4 DEF Next

\* Type correctness: the daemon's state keeps its types, and a handle call is
\* in progress exactly at handle's own points, in every behaviour.
THEOREM TypeCorrect == Spec => []TypeOK
BY InitType, NextType, PTL DEF Spec

----------------------------------------------------------------------------
\* The calls made, and the frame of a call in progress.
LEMMA CallFields ==
  ASSUME TypeOK
  PROVE  /\ wire \in Seq(CallType) /\ Len(wire) \in Nat /\ DOMAIN wire = 1..Len(wire)
         /\ \A i \in DOMAIN wire : wire[i].group \in Nat
         /\ groups \in Nat
         /\ btm \in [Macs -> [group : Nat, ap : Aps \cup {NoAp}]]
         /\ InHandle => frame.mac \in Macs /\ frame.ap \in Aps /\ frame.group \in Nat
<1>1. wire \in Seq(CallType) /\ Len(wire) \in Nat /\ DOMAIN wire = 1..Len(wire)
      /\ \A i \in DOMAIN wire : wire[i] \in CallType
  BY LenProperties, ElementOfSeq DEF TypeOK, RecordOK
<1>2. InHandle => frame \in FrameType
  BY DEF TypeOK, ControlOK, InHandle
<1>3. QED
  BY <1>1, <1>2 DEF TypeOK, RecordOK, ActorOK, CallType, FrameType

\* The positions of a sequence that a property counts are finitely many.
LEMMA PositionsFinite ==
  ASSUME NEW S, NEW s \in Seq(S), NEW T \in SUBSET DOMAIN s
  PROVE  IsFiniteSet(T) /\ Cardinality(T) \in Nat
<1>1. DOMAIN s = 1..Len(s) /\ Len(s) \in Nat
  BY LenProperties
<1>2. IsFiniteSet(DOMAIN s)
  BY <1>1, FS_Interval
<1>3. QED
  BY <1>2, FS_Subset, FS_CardinalityType

\* What a call does to the sequence of calls.
LEMMA Appended ==
  ASSUME TypeOK, NEW w, wire' = Append(wire, w)
  PROVE  /\ DOMAIN wire' = DOMAIN wire \cup {Len(wire) + 1}
         /\ \A i \in DOMAIN wire : wire'[i] = wire[i]
         /\ wire'[Len(wire) + 1] = w /\ Len(wire) + 1 \notin DOMAIN wire
BY CallFields, AppendProperties

----------------------------------------------------------------------------
(* The allowlist is honoured.  The list a client was judged by may have    *)
(* been replaced twice by the time a call goes out: a reload can come at   *)
(* every await, and the DNS pass works from a list it captured before its  *)
(* first.  AllowInv says that whoever any of those lists left out has been *)
(* off the allowlist at some moment of this cycle.                         *)


\* The live list, from the moment the cycle begins.
LiveOff == at # "sleep" => Macs \ cfg.allowlist \subseteq offList

\* The captured list, from its capture to the end of the pass.
CapturedOff ==
  at = "flagged" \/ (InHandle /\ frame.trigger = "dns_thrash") =>
    Macs \ dnsAllow \subseteq offList

HandledOff == InHandle => frame.mac \in offList

AllowInv == LiveOff /\ CapturedOff /\ HandledOff

\* A call in progress: it goes on with the same client, or ends.
Going ==
  /\ at' \in HandleAwaits /\ frame'.mac = frame.mac
  /\ frame'.ap = frame.ap /\ frame'.trigger = frame.trigger

Ending == at' = Resume(frame.trigger) \/ at' = "sleep"

\* A step of handle, and one that raises out of it, goes on or ends the call.
LEMMA CallMoves ==
  ASSUME TypeOK, Handle \/ WireFails \/ StoreFails
  PROVE  InHandle /\ (Going \/ Ending)
<1>1. InHandle
  BY DEF InHandle, HandleAwaits, Handle, HandleDryRun, DryRunWritten, HandleQuarantine,
     QuarantineNotified, HandleFallback, FallbackSent, FallbackWritten, HandleFresh,
     LedgerRead, KickSent, KickWritten, KickNotified, WireFails, StoreFails
<1>2. frame \in FrameType
  BY <1>1 DEF TypeOK, ControlOK
<1>3. LimiterGate => Going \/ Ending
  BY <1>2 DEF LimiterGate, Return, Going, Ending, HandleAwaits, FrameType
<1>4. CASE WireFails \/ StoreFails
  BY <1>1, <1>4 DEF WireFails, StoreFails, Propagate, Raise, Ending
<1>5. CASE HandleFresh \/ LedgerRead
  BY <1>1, <1>3, <1>5 DEF HandleFresh, LedgerRead, Return, Going, Ending, HandleAwaits
<1>6. CASE HandleDryRun \/ HandleQuarantine \/ HandleFallback
  BY <1>1, <1>2, <1>6
  DEF HandleDryRun, HandleQuarantine, HandleFallback, Return, Going, Ending, HandleAwaits,
      FrameType
<1>7. CASE FallbackSent \/ KickSent \/ KickWritten
  BY <1>1, <1>2, <1>7
  DEF FallbackSent, KickSent, KickWritten, Return, Going, Ending, HandleAwaits, FrameType
<1>8. CASE DryRunWritten \/ QuarantineNotified \/ FallbackWritten \/ KickNotified
  BY <1>1, <1>8
  DEF DryRunWritten, QuarantineNotified, FallbackWritten, KickNotified, Return, Ending
<1>9. QED
  BY <1>4, <1>5, <1>6, <1>7, <1>8 DEF Handle

\* Handle reads no list: whoever was off one before the step still was.
LEMMA CallAllow ==
  ASSUME TypeOK, AllowInv, Handle \/ WireFails \/ StoreFails, UNCHANGED <<pass, observers>>
  PROVE  AllowInv'
<1>1. UNCHANGED <<cfg, dnsAllow, offList>>
  BY DEF pass, observers, world, Handle, HandleDryRun, DryRunWritten, HandleQuarantine,
     QuarantineNotified, HandleFallback, FallbackSent, FallbackWritten, HandleFresh,
     LedgerRead, KickSent, KickWritten, KickNotified, WireFails, StoreFails
<1>2. InHandle /\ at # "sleep"
  BY CallMoves DEF InHandle, HandleAwaits
<1>3. CASE Going
  BY <1>1, <1>2, <1>3 DEF Going, AllowInv, LiveOff, CapturedOff, HandledOff, InHandle, HandleAwaits
<1>4. CASE Ending
  <2>1. frame.trigger \in Triggers
    BY <1>2 DEF TypeOK, ControlOK, FrameType
  <2>2. /\ at' \in {"idled", "sample", "flagged", "sleep"}
        /\ at' = "flagged" => frame.trigger = "dns_thrash"
    BY <1>4, <2>1 DEF Ending, Resume, Triggers
  <2>3. QED
    BY <1>1, <1>2, <2>2 DEF AllowInv, LiveOff, CapturedOff, HandledOff, InHandle, HandleAwaits
<1>5. QED
  BY <1>3, <1>4, CallMoves

\* A detector hands a client over only if a list in force this cycle left it out.
LEMMA ScanAllow ==
  ASSUME TypeOK, AllowInv, Scan, ~HandleStep,
         ~(WireFaults /\ WireFails), ~(StoreFaults /\ StoreFails)
  PROVE  AllowInv'
<1> USE DEF AllowInv, LiveOff, CapturedOff, HandledOff, InHandle, HandleAwaits
<1>1. CASE BeginCycle
  BY <1>1 DEF BeginCycle, world
<1>2. CASE EndCycle \/ SampleFails
  BY <1>2 DEF EndCycle, SampleFails, Raise, observers, pass, world
<1>3. ASSUME NEW m \in Macs, NEW ap \in Aps, ClientPolled(m, ap)
      PROVE  AllowInv'
  BY <1>3 DEF ClientPolled, world
<1>4. CASE DetectRf \/ DetectInactivity
  <2>1. client \in Macs
    BY DEF TypeOK, ControlOK
  <2>2. QED
    BY <1>4, <2>1 DEF DetectRf, DetectInactivity, Detect, StartHandle, observers, pass, world
<1>5. ASSUME NEW F \in SUBSET Macs, DnsObserved(F)
      PROVE  AllowInv'
  BY <1>5 DEF DnsObserved, observers, world
<1>6. ASSUME NEW m \in Macs, DnsNext(m)
      PROVE  AllowInv'
  BY <1>6 DEF DnsNext, DnsMayKick, StartHandle, observers, world
<1>7. QED
  BY <1>1, <1>2, <1>3, <1>4, <1>5, <1>6 DEF Scan, Fault

\* No step of the loop or of its world breaks the invariant.
LEMMA NextAllow ==
  ASSUME TypeOK, AllowInv, [Next]_vars
  PROVE  AllowInv'
<1>1. CASE UNCHANGED vars \/ Tick
  BY <1>1
  DEF vars, world, pass, observers, Tick, AllowInv, LiveOff, CapturedOff, HandledOff, InHandle
<1>2. ASSUME NEW c \in Configs, Reload(c)
      PROVE  AllowInv'
  BY <1>2 DEF Reload, pass, AllowInv, LiveOff, CapturedOff, HandledOff, InHandle
<1>3. ASSUME NEW c \in Configs, Restart(c)
      PROVE  AllowInv'
  BY <1>3 DEF Restart, AllowInv, LiveOff, CapturedOff, HandledOff, InHandle, HandleAwaits
<1>4. CASE Scan
  <2>1. CASE HandleStep
    BY <2>1, CallAllow DEF HandleStep
  <2>2. CASE (WireFaults /\ WireFails) \/ (StoreFaults /\ StoreFails)
    <3>1. ~SampleFails
      BY <2>2 DEF SampleFails, WireFails, StoreFails
    <3>2. CASE HandleStep
      BY <3>2, CallAllow DEF HandleStep
    <3>3. CASE ~HandleStep
      <4>1. UNCHANGED <<pass, observers>>
        BY <1>4, <2>2, <3>3
        DEF Scan, Fault, BeginCycle, ClientPolled, DetectRf, DetectInactivity, Detect,
            DnsObserved, DnsNext, EndCycle, SampleFails, WireFails, StoreFails
      <4>2. QED
        BY <2>2, <4>1, CallAllow
    <3>4. QED
      BY <3>2, <3>3
  <2>3. QED
    BY <1>4, <2>1, <2>2, ScanAllow
<1>5. QED
  BY <1>1, <1>2, <1>3, <1>4 DEF Next

\* ADR-0001 requirement 5, AC-7, for any clients, configurations and bounds: no detector
\* has a client kicked that has been on the allowlist since its cycle began, whatever is
\* reloaded meanwhile (scanner.py run_once, actor.py handle).
THEOREM AllowlistCorrect == Spec => []AllowlistHonoured
<1>1. Init => AllowInv
  BY DEF Init, Boot, AllowInv, LiveOff, CapturedOff, HandledOff, InHandle, HandleAwaits
<1>2. AllowInv => AllowlistHonoured
  BY DEF AllowInv, HandledOff, AllowlistHonoured, InHandle, HandleAwaits
<1>3. TypeOK /\ AllowInv /\ [Next]_vars => AllowInv'
  BY NextAllow
<1>4. QED
  BY <1>1, <1>2, <1>3, TypeCorrect, PTL DEF Spec

----------------------------------------------------------------------------
(* The limits: the minimum spacing, the per-AP cap, the per-client caps    *)
(* with their escalating cooldowns, the quarantine budget and the deferral *)
(* that the policy is asked for.                                           *)
(*                                                                         *)
(* Each is judged at a gate and kept at an await later, when the clock,    *)
(* the configuration and the observations may have moved.  So each         *)
(* invariant says what the gate established and what no step takes back    *)
(* until the call is made: a client that has waited goes on waiting, a     *)
(* count since a later moment is no larger, and no other call is made.     *)

----------------------------------------------------------------------------
(* ADR-0004 single-flight.  The property says nothing of the timer or of a *)
(* call about to be made: SpacingInv adds that the timer covers every      *)
(* accepted call of this process and that a call about to be made has waited.*)

\* A call is about to be made; a call the running process has had accepted.
OnWire == at \in {"wire", "fallback_wire"}
Current(i) == wire[i].ok /\ wire[i].epoch = epoch

CallsPast == \A i \in DOMAIN wire : wire[i].at <= now /\ wire[i].epoch <= epoch

TimerCovers ==
  \A i \in DOMAIN wire : Current(i) => lastKick # Never /\ wire[i].at <= lastKick

NextCallWaited ==
  OnWire => \A i \in DOMAIN wire : Current(i) =>
              \E c \in lived : now - wire[i].at >= c.minGap

SpacingInv == CallsPast /\ TimerCovers /\ NextCallWaited /\ GlobalSpacing

\* The fields of the calls made, and the spacing of every configuration.
LEMMA WireFields ==
  ASSUME TypeOK
  PROVE  /\ Len(wire) \in Nat /\ DOMAIN wire = 1..Len(wire)
         /\ \A i \in DOMAIN wire : /\ wire[i].at \in Nat /\ wire[i].epoch \in Nat
                                   /\ wire[i].ok \in BOOLEAN
         /\ \A c \in Configs : c.minGap \in Nat
         /\ now \in Nat /\ epoch \in Nat /\ cfg \in lived
         /\ lived \subseteq Configs /\ lastKick \in Nat \cup {Never}
<1>1. /\ Len(wire) \in Nat /\ DOMAIN wire = 1..Len(wire)
      /\ \A i \in DOMAIN wire : wire[i] \in CallType
  BY LenProperties, ElementOfSeq DEF TypeOK, RecordOK
<1>2. \A c \in Configs : c.minGap \in Nat
  BY ConfigAssumption DEF ConfigType
<1>3. QED
  BY <1>1, <1>2 DEF TypeOK, ActorOK, WorldOK, CallType

\* A step that sends nothing and opens no wire may only let time pass.
LEMMA QuietSpacing ==
  ASSUME TypeOK, SpacingInv, UNCHANGED <<wire, epoch, lastKick>>,
         now' \in Nat, now' >= now, lived \subseteq lived', OnWire' => OnWire
  PROVE  SpacingInv'
<1>1. CallsPast'
  BY WireFields DEF SpacingInv, CallsPast
<1>2. TimerCovers'
  BY DEF SpacingInv, TimerCovers, Current
<1>3. NextCallWaited'
  <2>1. SUFFICES ASSUME OnWire, NEW i \in DOMAIN wire, Current(i)
                 PROVE  \E c \in lived' : now' - wire[i].at >= c.minGap
    BY DEF NextCallWaited, Current
  <2>2. PICK c \in lived : now - wire[i].at >= c.minGap
    BY <2>1 DEF SpacingInv, NextCallWaited
  <2>3. now' - wire[i].at >= c.minGap
    BY <2>2, WireFields
  <2>4. QED
    BY <2>3
<1>4. QED
  BY <1>1, <1>2, <1>3 DEF SpacingInv, GlobalSpacing

\* Passing the global gate is having waited.
LEMMA GateSpacing ==
  ASSUME TypeOK, SpacingInv, GlobalClear(lastKick, now, cfg.minGap),
         UNCHANGED <<wire, epoch, lastKick, now, lived>>
  PROVE  SpacingInv'
<1>1. ASSUME NEW i \in DOMAIN wire, Current(i)
      PROVE  now - wire[i].at >= cfg.minGap
  <2>1. lastKick \in Nat /\ wire[i].at <= lastKick /\ wire[i].at <= now
    BY <1>1, WireFields DEF SpacingInv, CallsPast, TimerCovers
  <2>2. cfg.minGap = 0 \/ now - lastKick >= cfg.minGap
    BY <2>1 DEF GlobalClear, Never
  <2>3. QED
    BY <2>1, <2>2, WireFields
<1>2. NextCallWaited'
  BY <1>1, WireFields DEF NextCallWaited, Current
<1>3. QED
  BY <1>2 DEF SpacingInv, CallsPast, TimerCovers, Current, GlobalSpacing

\* A call is made: accepted, it restarts the timer; refused, it does not.
LEMMA CallSpacing ==
  ASSUME TypeOK, SpacingInv, OnWire, InHandle, NEW mech \in Mechanisms, NEW ok \in BOOLEAN,
         wire' = Append(wire, Call(mech, ok)),
         lastKick' = (IF ok THEN now ELSE lastKick),
         UNCHANGED <<now, epoch, lived>>, ~OnWire'
  PROVE  SpacingInv'
<1> DEFINE n == Len(wire) + 1
<1>1. Call(mech, ok) \in CallType /\ wire \in Seq(CallType)
  BY EntryTypes DEF TypeOK, RecordOK
<1>2. /\ DOMAIN wire' = 1..n /\ wire'[n] = Call(mech, ok)
      /\ \A i \in DOMAIN wire : wire'[i] = wire[i]
      /\ DOMAIN wire = 1..Len(wire)
  BY <1>1, AppendProperties, LenProperties
<1>3. /\ wire'[n].at = now /\ wire'[n].epoch = epoch /\ wire'[n].ok = ok
  BY <1>2 DEF Call
<1>4. \A i \in DOMAIN wire' : i = n \/ (i \in DOMAIN wire /\ wire'[i] = wire[i])
  BY <1>2, WireFields
<1>5. CallsPast'
  BY <1>3, <1>4, WireFields DEF SpacingInv, CallsPast
<1>6. TimerCovers'
  BY <1>3, <1>4, WireFields DEF SpacingInv, CallsPast, TimerCovers, Current, Never
<1>7. GlobalSpacing'
  <2>1. SUFFICES ASSUME NEW i \in DOMAIN wire', NEW j \in DOMAIN wire', i < j,
                        wire'[i].ok, wire'[i].epoch = wire'[j].epoch
                 PROVE  \E c \in lived' : wire'[j].at - wire'[i].at >= c.minGap
    BY DEF GlobalSpacing
  <2>2. i \in DOMAIN wire /\ wire'[i] = wire[i]
    BY <1>2, <1>4, <2>1, WireFields
  <2>3. CASE j = n
    <3>1. Current(i) /\ wire'[j].at = now
      BY <1>3, <2>1, <2>2, <2>3 DEF Current
    <3>2. QED
      BY <2>2, <3>1 DEF SpacingInv, NextCallWaited
  <2>4. CASE j # n
    BY <1>4, <2>1, <2>2, <2>4 DEF SpacingInv, GlobalSpacing
  <2>5. QED
    BY <2>3, <2>4
<1>8. QED
  BY <1>5, <1>6, <1>7 DEF SpacingInv, NextCallWaited

\* A new process has made no call, and its timer is unset.
LEMMA RestartSpacing ==
  ASSUME TypeOK, SpacingInv, NEW c \in Configs, Restart(c)
  PROVE  SpacingInv'
<1>1. /\ epoch' = epoch + 1 /\ at' = "sleep" /\ UNCHANGED <<wire, now>>
      /\ lived \subseteq lived'
  BY DEF Restart
<1>2. \A i \in DOMAIN wire : wire[i].epoch # epoch'
  BY <1>1, WireFields DEF SpacingInv, CallsPast
<1>3. CallsPast'
  BY <1>1, WireFields DEF SpacingInv, CallsPast
<1>4. TimerCovers' /\ NextCallWaited'
  BY <1>1, <1>2 DEF TimerCovers, NextCallWaited, Current, OnWire
<1>5. QED
  BY <1>1, <1>3, <1>4 DEF SpacingInv, GlobalSpacing

\* The limiter is asked: it opens the wire for a call that has waited, or not.
LEMMA LimiterSpacing ==
  ASSUME TypeOK, SpacingInv, InHandle, LimiterGate,
         UNCHANGED <<wire, epoch, lastKick, now, lived>>
  PROVE  SpacingInv'
<1>1. CASE GlobalClear(lastKick, now, cfg.minGap)
  BY <1>1, GateSpacing
<1>2. CASE ~GlobalClear(lastKick, now, cfg.minGap)
  <2>1. Return
    BY <1>2 DEF LimiterGate
  <2>2. frame.trigger \in Triggers
    BY DEF TypeOK, ControlOK, FrameType
  <2>3. ~OnWire'
    BY <2>1, <2>2, ResumeType DEF Return, OnWire
  <2>4. QED
    BY <2>3, WireFields, QuietSpacing
<1>3. QED
  BY <1>1, <1>2

\* The actions of handle, by what they do to the wire.
LEMMA HandleSpacing ==
  ASSUME TypeOK, SpacingInv, Handle, UNCHANGED lived
  PROVE  SpacingInv'
<1> USE DEF world, process
<1>1. CASE HandleDryRun \/ HandleQuarantine \/ DryRunWritten \/ QuarantineNotified
           \/ FallbackWritten \/ KickWritten \/ KickNotified
  <2>1. InHandle
    BY <1>1 DEF HandleDryRun, HandleQuarantine, DryRunWritten, QuarantineNotified,
       FallbackWritten, KickWritten, KickNotified, InHandle, HandleAwaits
  <2>2. frame.trigger \in Triggers
    BY <2>1 DEF TypeOK, ControlOK, FrameType
  <2>3. Return => ~OnWire'
    BY <2>2, ResumeType DEF Return, OnWire
  <2>4. UNCHANGED <<wire, epoch, lastKick, now, lived>> /\ ~OnWire'
    BY <1>1, <2>3 DEF HandleDryRun, HandleQuarantine, DryRunWritten,
       QuarantineNotified, FallbackWritten, KickWritten, KickNotified, OnWire
  <2>5. QED
    BY <2>4, WireFields, QuietSpacing
<1>2. CASE HandleFallback
  <2>1. UNCHANGED <<wire, epoch, lastKick, now, lived>> /\ InHandle
    BY <1>2 DEF HandleFallback, InHandle
  <2>2. CASE GlobalClear(lastKick, now, cfg.minGap)
    BY <2>1, <2>2, GateSpacing
  <2>3. CASE ~GlobalClear(lastKick, now, cfg.minGap)
    <3>1. Return
      BY <1>2, <2>3 DEF HandleFallback
    <3>2. frame.trigger \in Triggers
      BY <2>1 DEF TypeOK, ControlOK, FrameType
    <3>3. ~OnWire'
      BY <3>1, <3>2, ResumeType DEF Return, OnWire
    <3>4. QED
      BY <2>1, <3>3, WireFields, QuietSpacing
  <2>4. QED
    BY <2>2, <2>3
<1>3. CASE FallbackSent
  <2>1. OnWire /\ InHandle /\ ~OnWire'
    BY <1>3 DEF FallbackSent, OnWire, InHandle, HandleAwaits
  <2>2. "deauth_fallback" \in Mechanisms
    BY DEF Mechanisms
  <2>3. QED
    BY <1>3, <2>1, <2>2, CallSpacing DEF FallbackSent, RecordWireCall
<1>4. CASE HandleFresh
  <2>1. UNCHANGED <<wire, epoch, lastKick, now, lived>> /\ InHandle
    BY <1>4 DEF HandleFresh, InHandle
  <2>2. CASE LimiterGate
    BY <2>1, <2>2, LimiterSpacing
  <2>3. CASE ~LimiterGate
    <3>1. ~OnWire'
      BY <1>4, <2>3 DEF HandleFresh, OnWire
    <3>2. QED
      BY <2>1, <3>1, WireFields, QuietSpacing
  <2>4. QED
    BY <2>2, <2>3
<1>5. CASE LedgerRead
  <2>1. UNCHANGED <<wire, epoch, lastKick, now, lived>> /\ InHandle
    BY <1>5 DEF LedgerRead, InHandle, HandleAwaits
  <2>2. CASE LimiterGate
    BY <2>1, <2>2, LimiterSpacing
  <2>3. CASE ~LimiterGate
    <3>1. Return
      BY <1>5, <2>3 DEF LedgerRead
    <3>2. frame.trigger \in Triggers
      BY <2>1 DEF TypeOK, ControlOK, FrameType
    <3>3. ~OnWire'
      BY <3>1, <3>2, ResumeType DEF Return, OnWire
    <3>4. QED
      BY <2>1, <3>3, WireFields, QuietSpacing
  <2>4. QED
    BY <2>2, <2>3
<1>6. CASE KickSent
  <2>1. OnWire /\ InHandle /\ ~OnWire'
    BY <1>6 DEF KickSent, OnWire, InHandle, HandleAwaits
  <2>2. Mechanism(frame.cf, frame.mac) \in Mechanisms
    BY MechanismType DEF Mechanisms
  <2>3. QED
    BY <1>6, <2>1, <2>2, CallSpacing DEF KickSent
<1>7. QED
  BY <1>1, <1>2, <1>3, <1>4, <1>5, <1>6 DEF Handle

\* A refused call is on the wire but not on the timer.
LEMMA FaultSpacing ==
  ASSUME TypeOK, SpacingInv, WireFails \/ StoreFails, UNCHANGED lived
  PROVE  SpacingInv'
<1> USE DEF world, process
<1>1. CASE WireFails
  <2>1. OnWire /\ InHandle /\ ~OnWire'
    BY <1>1 DEF WireFails, Propagate, Raise, OnWire, InHandle, HandleAwaits
  <2>2. "deauth_fallback" \in Mechanisms /\ Mechanism(frame.cf, frame.mac) \in Mechanisms
    BY MechanismType DEF Mechanisms
  <2>3. \E mech \in Mechanisms : wire' = Append(wire, Call(mech, FALSE))
    BY <1>1, <2>2 DEF WireFails
  <2>4. QED
    BY <1>1, <2>1, <2>3, CallSpacing DEF WireFails
<1>2. CASE StoreFails
  <2>1. UNCHANGED <<wire, epoch, lastKick, now, lived>> /\ ~OnWire'
    BY <1>2 DEF StoreFails, Raise, OnWire
  <2>2. QED
    BY <2>1, WireFields, QuietSpacing
<1>3. QED
  BY <1>1, <1>2

\* Every step keeps the strengthened invariant.
THEOREM NextSpacing == TypeOK /\ SpacingInv /\ [Next]_vars => SpacingInv'
<1> SUFFICES ASSUME TypeOK, SpacingInv, [Next]_vars PROVE SpacingInv'
  OBVIOUS
<1>1. CASE UNCHANGED vars
  BY <1>1, WireFields, QuietSpacing DEF vars, world, process, observers, OnWire
<1>2. CASE HandleStep
  BY <1>2, HandleSpacing DEF HandleStep, observers
<1>3. CASE Fault /\ ~SampleFails
  BY <1>3, FaultSpacing DEF Fault, observers
<1>4. CASE Scan /\ ~HandleStep /\ ~(Fault /\ ~SampleFails)
  <2>1. UNCHANGED <<wire, epoch, lastKick, now, lived>> /\ ~OnWire'
    BY <1>4 DEF Scan, Fault, BeginCycle, ClientPolled, DetectRf, DetectInactivity,
       Detect, DnsObserved, DnsNext, EndCycle, SampleFails, Raise, StartHandle,
       OnWire, world, process, observers
  <2>2. QED
    BY <2>1, WireFields, QuietSpacing
<1>5. CASE Tick
  <2>1. /\ now' = now + 1 /\ UNCHANGED <<wire, epoch, lastKick, at, lived>>
    BY <1>5 DEF Tick, process, observers
  <2>2. QED
    BY <2>1, WireFields, QuietSpacing DEF OnWire
<1>6. ASSUME NEW c \in Configs, Reload(c) PROVE SpacingInv'
  <2>1. UNCHANGED <<wire, epoch, lastKick, at, now>> /\ lived' = lived \cup {c}
    BY <1>6 DEF Reload, process
  <2>2. QED
    BY <2>1, WireFields, QuietSpacing DEF OnWire
<1>7. ASSUME NEW c \in Configs, Restart(c) PROVE SpacingInv'
  BY <1>7, RestartSpacing
<1>8. QED
  BY <1>1, <1>2, <1>3, <1>4, <1>5, <1>6, <1>7 DEF Next

\* The strengthened invariant holds in every behaviour.
LEMMA SpacingAlways == Spec => []SpacingInv
<1>1. Init => SpacingInv
  BY DEF Init, Boot, SpacingInv, CallsPast, TimerCovers, NextCallWaited, GlobalSpacing
<1>2. QED
  BY <1>1, NextSpacing, TypeCorrect, PTL DEF Spec

\* ADR-0004 single-flight holds in every behaviour, for every configuration set,
\* through reloads, raising calls and restarts.
THEOREM SpacingCorrect == Spec => []GlobalSpacing
<1>1. SpacingInv => GlobalSpacing
  BY DEF SpacingInv
<1>2. QED
  BY <1>1, SpacingAlways, PTL

----------------------------------------------------------------------------
(* ADR-0007 policy: caps and escalating cooldowns, judged over the ledger  *)
(* before an await and recorded after another one.                         *)

\* A nonempty set of naturals has a least element.
LEMMA LeastNatural ==
  ASSUME NEW S \in SUBSET Nat, S # {}
  PROVE  \E n \in S : \A k \in S : n <= k
<1> DEFINE T == {1..n : n \in S}
<1>1. T \subseteq FiniteSubsetsOf(Nat) /\ T # {}
  <2>1. ASSUME NEW n \in S PROVE 1..n \in FiniteSubsetsOf(Nat)
    <3>1. IsFiniteSet(1..n) /\ 1..n \in SUBSET Nat
      BY FS_Interval
    <3>2. QED
      BY <3>1 DEF FiniteSubsetsOf
  <2>2. QED
    BY <2>1
<1>2. PICK x \in T : \A y \in T : <<y, x>> \notin StrictSubsetOrdering(Nat)
  BY <1>1, FS_StrictSubsetOrderingWellFounded, WFMin
<1>3. PICK n \in S : x = 1..n
  OBVIOUS
<1>4. ASSUME NEW k \in S, k < n PROVE FALSE
  <2>1. /\ 1..k \subseteq 1..n /\ n \in 1..n /\ n \notin 1..k
        /\ 1..k \in T /\ 1..n \in SUBSET Nat
    BY <1>4
  <2>2. <<1..k, 1..n>> \in StrictSubsetOrdering(Nat)
    BY <2>1 DEF StrictSubsetOrdering
  <2>3. QED
    BY <1>2, <1>3, <2>1, <2>2
<1>5. QED
  BY <1>4

\* backoff.py max(cooldowns): a schedule has a largest cooldown, and it is one of its own.
LEMMA LargestRungIs ==
  ASSUME NEW s \in Seq(Nat), s # << >>
  PROVE  /\ LargestRung(s) \in {s[i] : i \in DOMAIN s}
         /\ \A i \in DOMAIN s : s[i] <= LargestRung(s)
         /\ LargestRung(s) \in Nat
<1>1. Len(s) \in Nat \ {0} /\ DOMAIN s = 1..Len(s) /\ \A i \in DOMAIN s : s[i] \in Nat
  BY LenProperties, ElementOfSeq, EmptySeq
<1> DEFINE Bounds(k) == {b \in Nat : \A i \in 1..k : s[i] <= b}
           Unbounded == {k \in 1..Len(s) : Bounds(k) = {}}
<1>2. Unbounded = {}
  <2>1. SUFFICES ASSUME Unbounded # {} PROVE FALSE
    OBVIOUS
  <2>2. PICK k \in Unbounded : \A j \in Unbounded : k <= j
    <3>1. Unbounded \in SUBSET Nat
      BY <1>1
    <3> HIDE DEF Unbounded
    <3>2. QED
      BY <2>1, <3>1, LeastNatural
  <2>3. k \in 1..Len(s) /\ k \in DOMAIN s /\ s[k] \in Nat /\ Bounds(k) = {}
    BY <1>1
  <2>4. CASE k = 1
    <3>1. s[k] \in Bounds(k)
      BY <2>3, <2>4
    <3>2. QED
      BY <3>1
  <2>5. CASE k # 1
    <3>1. k - 1 \in 1..Len(s) /\ k - 1 \notin Unbounded
      <4>1. k - 1 \in 1..Len(s) /\ ~(k <= k - 1)
        BY <1>1, <2>3, <2>5
      <4> HIDE DEF Unbounded
      <4>2. QED
        BY <2>2, <4>1
    <3>2. PICK b \in Nat : \A i \in 1..(k - 1) : s[i] <= b
      BY <3>1
    <3>3. b + s[k] \in Nat /\ \A i \in 1..k : s[i] <= b + s[k]
      <4>1. ASSUME NEW i \in 1..k PROVE s[i] <= b + s[k]
        <5>1. i \in 1..Len(s) /\ (i = k \/ i \in 1..(k - 1))
          BY <1>1, <2>3
        <5>2. s[i] \in Nat /\ (i = k \/ s[i] <= b)
          BY <1>1, <3>2, <5>1
        <5>3. QED
          BY <2>3, <5>2
      <4>2. QED
        BY <2>3, <4>1
    <3>4. b + s[k] \in Bounds(k)
      BY <3>3
    <3>5. QED
      BY <3>4
  <2>6. QED
    BY <2>4, <2>5
<1>3. PICK b \in Bounds(Len(s)) : \A d \in Bounds(Len(s)) : b <= d
  <2>1. Len(s) \in 1..Len(s)
    BY <1>1
  <2>2. Bounds(Len(s)) # {} /\ Bounds(Len(s)) \in SUBSET Nat
    BY <1>2, <2>1
  <2> HIDE DEF Bounds
  <2>3. QED
    BY <2>2, LeastNatural
<1>4. \E i \in DOMAIN s : s[i] = b
  <2>1. SUFFICES ASSUME \A i \in DOMAIN s : s[i] # b PROVE FALSE
    OBVIOUS
  <2>2. s[1] \in Nat /\ s[1] <= b /\ s[1] # b
    BY <1>1, <1>3, <2>1
  <2>3. b - 1 \in Nat /\ \A i \in 1..Len(s) : s[i] <= b - 1
    <3>1. b \in Nat /\ b - 1 \in Nat
      BY <2>2
    <3>2. ASSUME NEW i \in 1..Len(s) PROVE s[i] <= b - 1
      <4>1. s[i] \in Nat /\ s[i] # b /\ s[i] <= b
        BY <1>1, <2>1
      <4>2. QED
        BY <3>1, <4>1
    <3>3. QED
      BY <3>1, <3>2
  <2>5. b - 1 \in Bounds(Len(s)) /\ ~(b <= b - 1)
    BY <2>3
  <2>4. QED
    BY <1>3, <2>5
<1>5. /\ b \in {s[i] : i \in DOMAIN s} /\ \A i \in DOMAIN s : s[i] <= b
  BY <1>1, <1>3, <1>4
<1>6. LargestRung(s) \in {s[i] : i \in DOMAIN s}
      /\ \A i \in DOMAIN s : s[i] <= LargestRung(s)
  BY <1>5 DEF LargestRung
<1>7. QED
  BY <1>1, <1>6

\* The logical kicks of a client since a moment, in the ledger.
KicksSince(m, t) ==
  {i \in DOMAIN ledger : LogicalKick(i) /\ ledger[i].mac = m /\ ledger[i].ts >= t}

\* The next logical kick of m, at t, fits the caps of configuration c.
CapsClear(c, m, t) ==
  /\ c.perHour[m] > 0 => Cardinality(KicksSince(m, t - Hour)) < c.perHour[m]
  /\ c.perDay[m] > 0 => Cardinality(KicksSince(m, t - Day)) < c.perDay[m]

\* It has waited the cooldown that follows the kicks before it.
RungClear(c, m, t) ==
  c.cooldowns # << >> =>
    LET run == KicksSince(m, t - LargestRung(c.cooldowns))
    IN  \E r \in Rung(Cardinality(run), c.cooldowns)..Len(c.cooldowns) :
          \A i \in run : t - ledger[i].ts >= c.cooldowns[r]

PolicyClear(c, m, t) == CapsClear(c, m, t) /\ RungClear(c, m, t)

\* The policy is judged with the time and the configuration a call came with, before
\* an await; the kick is stamped with the time it was sent.
CallPolicy ==
  /\ InHandle => frame.cf \in lived
  /\ at = "entry" => frame.cf = cfg
  /\ at \in {"entry", "ledger_read"} => frame.time <= now
  /\ at = "wire" => PolicyClear(frame.cf, frame.mac, now)
  /\ at = "insert" => PolicyClear(frame.cf, frame.mac, frame.time)

PolicyInv == CallPolicy /\ CapsHold /\ EscalationHolds

\* The rows of the ledger, and the limits of a configuration.
LEMMA RowFields ==
  ASSUME TypeOK
  PROVE  /\ ledger \in Seq(RowType) /\ Len(ledger) \in Nat
         /\ DOMAIN ledger = 1..Len(ledger)
         /\ \A i \in DOMAIN ledger : ledger[i] \in RowType /\ ledger[i].ts \in Nat
<1>1. ledger \in Seq(RowType)
  BY DEF TypeOK, RecordOK
<1>2. /\ Len(ledger) \in Nat /\ DOMAIN ledger = 1..Len(ledger)
      /\ \A i \in DOMAIN ledger : ledger[i] \in RowType
  BY <1>1, LenProperties, ElementOfSeq
<1>3. QED
  BY <1>1, <1>2 DEF RowType

\* backoff.py: the caps and the cooldowns of a configuration are numbers.
LEMMA PolicyLimits ==
  ASSUME NEW c \in Configs
  PROVE  /\ c.cooldowns \in Seq(Nat) /\ Len(c.cooldowns) \in Nat
         /\ \A i \in 1..Len(c.cooldowns) : c.cooldowns[i] \in Nat
         /\ \A m \in Macs : c.perHour[m] \in Nat /\ c.perDay[m] \in Nat
         /\ c.cooldowns # << >> => LargestRung(c.cooldowns) \in Nat
         /\ Hour \in Nat /\ Day \in Nat /\ Hour <= Day
<1>1. c \in ConfigType
  BY ConfigAssumption
<1>2. c.cooldowns \in Seq(Nat)
  BY <1>1 DEF ConfigType
<1>3. Len(c.cooldowns) \in Nat /\ \A i \in 1..Len(c.cooldowns) : c.cooldowns[i] \in Nat
  BY <1>2, LenProperties, ElementOfSeq
<1>4. QED
  BY <1>1, <1>2, <1>3, LargestRungIs, HourAssumption, DayAssumption DEF ConfigType

\* db.py recent_kick_timestamps: the kicks since a moment are finitely many.
LEMMA KicksFinite ==
  ASSUME TypeOK, NEW m, NEW t
  PROVE  IsFiniteSet(KicksSince(m, t)) /\ Cardinality(KicksSince(m, t)) \in Nat
<1>1. KicksSince(m, t) \in SUBSET DOMAIN ledger
  BY DEF KicksSince
<1>2. QED
  BY <1>1, RowFields, PositionsFinite

\* A later window holds no more kicks.
LEMMA KicksLater ==
  ASSUME TypeOK, NEW m, NEW t \in Int, NEW u \in Int, t <= u
  PROVE  /\ KicksSince(m, u) \subseteq KicksSince(m, t)
         /\ Cardinality(KicksSince(m, u)) <= Cardinality(KicksSince(m, t))
<1>1. KicksSince(m, u) \subseteq KicksSince(m, t)
  BY RowFields DEF KicksSince
<1>2. QED
  BY <1>1, KicksFinite, FS_Subset

\* Fewer kicks are on an earlier rung.
LEMMA RungMonotone ==
  ASSUME NEW n \in Nat, NEW k \in Nat, n <= k, NEW s, Len(s) \in Nat
  PROVE  /\ Rung(n, s) <= Rung(k, s) /\ Rung(n, s) \in Nat /\ Rung(k, s) \in Nat
         /\ Rung(k, s) <= Len(s)
BY DEF Rung

\* A kick that was clear stays clear while time passes.
LEMMA ClearLater ==
  ASSUME TypeOK, NEW c \in Configs, NEW m \in Macs, NEW t \in Int, NEW u \in Int, t <= u,
         PolicyClear(c, m, t)
  PROVE  PolicyClear(c, m, u)
<1>1. CapsClear(c, m, u)
  <2>1. /\ Cardinality(KicksSince(m, u - Hour)) <= Cardinality(KicksSince(m, t - Hour))
        /\ Cardinality(KicksSince(m, u - Day)) <= Cardinality(KicksSince(m, t - Day))
    <3>1. /\ t - Hour \in Int /\ u - Hour \in Int /\ t - Hour <= u - Hour
          /\ t - Day \in Int /\ u - Day \in Int /\ t - Day <= u - Day
      BY PolicyLimits
    <3>2. QED
      BY <3>1, KicksLater
  <2>2. /\ Cardinality(KicksSince(m, u - Hour)) \in Nat
        /\ Cardinality(KicksSince(m, t - Hour)) \in Nat
        /\ Cardinality(KicksSince(m, u - Day)) \in Nat
        /\ Cardinality(KicksSince(m, t - Day)) \in Nat
    BY KicksFinite
  <2>3. QED
    BY <2>1, <2>2, PolicyLimits DEF PolicyClear, CapsClear
<1>2. RungClear(c, m, u)
  <2> DEFINE s == c.cooldowns
             old == KicksSince(m, t - LargestRung(s))
             new == KicksSince(m, u - LargestRung(s))
  <2>1. SUFFICES ASSUME s # << >>
                 PROVE  \E r \in Rung(Cardinality(new), s)..Len(s) :
                          \A i \in new : u - ledger[i].ts >= s[r]
    BY DEF RungClear
  <2>2. PICK r \in Rung(Cardinality(old), s)..Len(s) :
               \A i \in old : t - ledger[i].ts >= s[r]
    BY <2>1 DEF PolicyClear, RungClear
  <2>3. /\ new \subseteq old /\ Cardinality(new) <= Cardinality(old)
        /\ Cardinality(new) \in Nat /\ Cardinality(old) \in Nat
    <3>1. /\ t - LargestRung(s) \in Int /\ u - LargestRung(s) \in Int
          /\ t - LargestRung(s) <= u - LargestRung(s)
      BY <2>1, PolicyLimits
    <3>2. QED
      BY <3>1, KicksLater, KicksFinite
  <2>4. r \in Rung(Cardinality(new), s)..Len(s) /\ Rung(Cardinality(new), s) \in Nat
    <3> HIDE DEF new, old
    <3>1. Rung(Cardinality(new), s) <= Rung(Cardinality(old), s)
          /\ Rung(Cardinality(new), s) \in Nat /\ Rung(Cardinality(old), s) \in Nat
      BY <2>3, PolicyLimits, RungMonotone
    <3>2. QED
      BY <2>2, <3>1, PolicyLimits
  <2>5. ASSUME NEW i \in new PROVE u - ledger[i].ts >= s[r]
    <3>1. i \in old /\ i \in DOMAIN ledger
      BY <2>3 DEF KicksSince
    <3>2. ledger[i].ts \in Nat /\ t - ledger[i].ts >= s[r] /\ r >= Rung(Cardinality(old), s)
      BY <2>2, <3>1, RowFields
    <3>3. s[r] \in Nat
      <4>1. Cardinality(old) # 0
        BY <3>1, KicksFinite, FS_EmptySet
      <4>2. Len(s) \in Nat \ {0}
        BY <2>1, PolicyLimits, EmptySeq
      <4>3. Rung(Cardinality(old), s) \in Nat \ {0}
        BY <2>3, <4>1, <4>2 DEF Rung
      <4>4. QED
        BY <2>2, <4>2, <4>3, PolicyLimits
    <3>4. QED
      BY <3>2, <3>3
  <2>6. QED
    BY <2>4, <2>5
<1>3. QED
  BY <1>1, <1>2 DEF PolicyClear

\* What may have been read before a step is kept by one that writes no row.
LEMMA LedgerKept ==
  ASSUME TypeOK, CapsHold, EscalationHolds, UNCHANGED ledger, lived \subseteq lived'
  PROVE  CapsHold' /\ EscalationHolds'
<1>1. \A j, span : KicksUpTo(j, span)' = KicksUpTo(j, span)
  BY DEF KicksUpTo, LogicalKick
<1>2. CapsHold'
  BY <1>1 DEF CapsHold, LogicalKick
<1>3. EscalationHolds'
  BY <1>1 DEF EscalationHolds, LogicalKick
<1>4. QED
  BY <1>2, <1>3

\* A row that is no kick, or one that was clear, keeps the caps and the escalation.
LEMMA RowAppended ==
  ASSUME TypeOK, CapsHold, EscalationHolds,
         NEW r \in RowType, ledger' = Append(ledger, r), UNCHANGED lived,
         (~r.dry /\ r.mechanism # "deauth_fallback") =>
           \E c \in lived : PolicyClear(c, r.mac, r.ts)
  PROVE  CapsHold' /\ EscalationHolds'
<1>0. PICK n \in Nat : n = Len(ledger) + 1
  BY RowFields
<1>1. /\ n \in Nat /\ n \notin DOMAIN ledger /\ DOMAIN ledger' = DOMAIN ledger \cup {n}
      /\ DOMAIN ledger = 1..Len(ledger) /\ DOMAIN ledger' = 1..n
      /\ ledger'[n] = r /\ \A i \in DOMAIN ledger : ledger'[i] = ledger[i]
  BY <1>0, RowFields, AppendProperties
<1>2. ASSUME NEW j \in DOMAIN ledger, NEW span
      PROVE  KicksUpTo(j, span)' = KicksUpTo(j, span)
  <2>1. j \in 1..n /\ \A i \in 1..j : i \in DOMAIN ledger
    BY <1>1
  <2>2. QED
    BY <1>1, <2>1 DEF KicksUpTo, LogicalKick
<1>3. ASSUME NEW span, LogicalKick(n)'
      PROVE  /\ KicksUpTo(n, span)' \ {n} = KicksSince(r.mac, r.ts - span)
             /\ KicksUpTo(n, span)' \subseteq KicksSince(r.mac, r.ts - span) \cup {n}
  BY <1>1 DEF KicksUpTo, KicksSince, LogicalKick
<1>4. ASSUME LogicalKick(n)'
      PROVE  \E c \in lived : PolicyClear(c, r.mac, r.ts)
  BY <1>1, <1>4 DEF LogicalKick
<1>5. r.mac \in Macs /\ r.ts \in Nat /\ lived \subseteq Configs
  BY DEF RowType, TypeOK, WorldOK
<1>6. CapsHold'
  <2>1. SUFFICES ASSUME NEW j \in DOMAIN ledger', LogicalKick(j)'
        PROVE  \E c \in lived :
                 /\ c.perHour[ledger'[j].mac] > 0 =>
                      Cardinality(KicksUpTo(j, Hour)') <= c.perHour[ledger'[j].mac]
                 /\ c.perDay[ledger'[j].mac] > 0 =>
                      Cardinality(KicksUpTo(j, Day)') <= c.perDay[ledger'[j].mac]
    BY DEF CapsHold
  <2>2. CASE j \in DOMAIN ledger
    BY <1>1, <1>2, <2>1, <2>2 DEF CapsHold, LogicalKick
  <2>3. CASE j = n
    <3>1. PICK c \in lived : PolicyClear(c, r.mac, r.ts)
      BY <1>4, <2>1, <2>3
    <3>2. ASSUME NEW span
          PROVE  Cardinality(KicksUpTo(n, span)') <=
                   Cardinality(KicksSince(r.mac, r.ts - span)) + 1
      <4> DEFINE K == KicksSince(r.mac, r.ts - span)
      <4>1. IsFiniteSet(K) /\ Cardinality(K) \in Nat /\ n \notin K
        BY <1>1, KicksFinite DEF KicksSince
      <4>2. IsFiniteSet(K \cup {n}) /\ Cardinality(K \cup {n}) = Cardinality(K) + 1
        BY <4>1, FS_AddElement
      <4>3. KicksUpTo(n, span)' \in SUBSET (K \cup {n})
        BY <1>3, <2>1, <2>3
      <4> HIDE DEF K
      <4>4. Cardinality(KicksUpTo(n, span)') <= Cardinality(K \cup {n})
        BY <4>2, <4>3, FS_Subset
      <4>5. QED
        BY <4>2, <4>4 DEF K
    <3>3. /\ Cardinality(KicksUpTo(n, Hour)') \in Nat /\ Cardinality(KicksUpTo(n, Day)') \in Nat
      <4>1. ASSUME NEW span PROVE Cardinality(KicksUpTo(n, span)') \in Nat
        <5>1. KicksUpTo(n, span)' \in SUBSET DOMAIN ledger'
          BY <1>1 DEF KicksUpTo
        <5>2. ledger' \in Seq(RowType)
          BY RowFields, AppendProperties
        <5>3. QED
          BY <5>1, <5>2, PositionsFinite
      <4>2. QED
        BY <4>1
    <3>4. c \in Configs /\ c.perHour[r.mac] \in Nat /\ c.perDay[r.mac] \in Nat
      BY <1>5, PolicyLimits
    <3>5. /\ Cardinality(KicksSince(r.mac, r.ts - Hour)) \in Nat
          /\ Cardinality(KicksSince(r.mac, r.ts - Day)) \in Nat
      BY KicksFinite
    <3>6. /\ Cardinality(KicksUpTo(n, Hour)') <= Cardinality(KicksSince(r.mac, r.ts - Hour)) + 1
          /\ Cardinality(KicksUpTo(n, Day)') <= Cardinality(KicksSince(r.mac, r.ts - Day)) + 1
      BY <3>2
    <3>7. /\ c.perHour[r.mac] > 0 => Cardinality(KicksUpTo(n, Hour)') <= c.perHour[r.mac]
          /\ c.perDay[r.mac] > 0 => Cardinality(KicksUpTo(n, Day)') <= c.perDay[r.mac]
      BY <3>1, <3>3, <3>4, <3>5, <3>6 DEF PolicyClear, CapsClear
    <3>8. QED
      BY <1>1, <2>3, <3>7
  <2>4. QED
    BY <1>1, <2>2, <2>3
<1>7. EscalationHolds'
  <2> DEFINE Waited(c, j) ==
        c.cooldowns # << >> =>
          LET before == KicksUpTo(j, LargestRung(c.cooldowns))' \ {j}
          IN  \E q \in Rung(Cardinality(before), c.cooldowns)..Len(c.cooldowns) :
                \A i \in before : ledger'[j].ts - ledger'[i].ts >= c.cooldowns[q]
  <2>1. SUFFICES ASSUME NEW j \in DOMAIN ledger', LogicalKick(j)'
                 PROVE  \E c \in lived : Waited(c, j)
    BY DEF EscalationHolds
  <2>2. CASE j \in DOMAIN ledger
    <3>1. LogicalKick(j) /\ ledger'[j] = ledger[j]
      BY <1>1, <2>1, <2>2 DEF LogicalKick
    <3>2. PICK c \in lived :
            c.cooldowns # << >> =>
              LET before == KicksUpTo(j, LargestRung(c.cooldowns)) \ {j}
              IN  \E q \in Rung(Cardinality(before), c.cooldowns)..Len(c.cooldowns) :
                    \A i \in before : ledger[j].ts - ledger[i].ts >= c.cooldowns[q]
      BY <2>2, <3>1 DEF EscalationHolds
    <3>3. \A i \in KicksUpTo(j, LargestRung(c.cooldowns)) : ledger'[i] = ledger[i]
      BY <1>1, <2>2 DEF KicksUpTo
    <3>4. KicksUpTo(j, LargestRung(c.cooldowns))' = KicksUpTo(j, LargestRung(c.cooldowns))
      BY <1>2, <2>2
    <3>5. Waited(c, j)
      BY <3>1, <3>2, <3>3, <3>4
    <3>6. QED
      BY <3>5
  <2>3. CASE j = n
    <3>1. PICK c \in lived : PolicyClear(c, r.mac, r.ts)
      BY <1>4, <2>1, <2>3
    <3> DEFINE run == KicksSince(r.mac, r.ts - LargestRung(c.cooldowns))
    <3>2. KicksUpTo(n, LargestRung(c.cooldowns))' \ {n} = run
      BY <1>3, <2>1, <2>3
    <3>3. \A i \in run : ledger'[i] = ledger[i]
      BY <1>1 DEF KicksSince
    <3>4. Waited(c, n)
      <4> HIDE DEF run
      <4>1. c.cooldowns # << >> =>
              \E q \in Rung(Cardinality(run), c.cooldowns)..Len(c.cooldowns) :
                 \A i \in run : r.ts - ledger[i].ts >= c.cooldowns[q]
        BY <3>1 DEF PolicyClear, RungClear, run
      <4>2. QED
        BY <1>1, <3>2, <3>3, <4>1
    <3>5. QED
      BY <2>3, <3>4
  <2>4. QED
    BY <1>1, <2>2, <2>3
<1>8. QED
  BY <1>6, <1>7

\* The verdict on a kick depends on the ledger alone.
LEMMA ClearKept ==
  ASSUME UNCHANGED ledger, NEW c, NEW m, NEW t, PolicyClear(c, m, t)
  PROVE  PolicyClear(c, m, t)'
<1>1. \A u : KicksSince(m, u)' = KicksSince(m, u)
  BY DEF KicksSince, LogicalKick
<1>2. QED
  BY <1>1 DEF PolicyClear, CapsClear, RungClear

\* backoff.py allows a kick that is clear, at the time the policy is asked with.
LEMMA PolicyJudges ==
  ASSUME TypeOK, InHandle, PolicyAllows
  PROVE  PolicyClear(frame.cf, frame.mac, frame.time)
<1> DEFINE c == frame.cf
           m == frame.mac
           t == frame.time
           recent == RecentKicks(m, t - Lookback(c.cooldowns))
<1>1. c \in Configs /\ m \in Macs /\ t \in Nat
  BY DEF TypeOK, ControlOK, InHandle, FrameType
<1>2. /\ Lookback(c.cooldowns) \in Nat /\ Lookback(c.cooldowns) >= Day
      /\ c.cooldowns # << >> => Lookback(c.cooldowns) >= LargestRung(c.cooldowns)
  BY <1>1, PolicyLimits DEF Lookback
<1>3. ASSUME NEW w \in Nat, w <= Lookback(c.cooldowns)
      PROVE  /\ Since(recent, t - w) = KicksSince(m, t - w)
             /\ \A k \in KicksSince(m, t - w) : recent[k] = ledger[k].ts
  <2>1. DOMAIN recent = KicksSince(m, t - Lookback(c.cooldowns))
        /\ \A k \in DOMAIN recent : recent[k] = ledger[k].ts
    BY DEF RecentKicks, KicksSince, LogicalKick
  <2>2. KicksSince(m, t - w) \subseteq DOMAIN recent
    <3>1. t - Lookback(c.cooldowns) \in Int /\ t - w \in Int
          /\ t - Lookback(c.cooldowns) <= t - w
      BY <1>1, <1>2, <1>3
    <3>2. QED
      BY <2>1, <3>1, KicksLater
  <2>3. \A k \in DOMAIN recent : k \in KicksSince(m, t - w) <=> recent[k] >= t - w
    BY <2>1 DEF KicksSince
  <2>4. QED
    BY <2>1, <2>2, <2>3 DEF Since
<1>4. CapsClear(c, m, t)
  <2>1. /\ Since(recent, t - Day) = KicksSince(m, t - Day)
        /\ Since(recent, t - Hour) = KicksSince(m, t - Hour)
    BY <1>1, <1>2, <1>3, PolicyLimits
  <2>2. ~CapReached(recent, t, c.perDay[m], Day) /\ ~CapReached(recent, t, c.perHour[m], Hour)
    BY DEF PolicyAllows, BackoffAllows
  <2>3. QED
    BY <1>1, <2>1, <2>2, KicksFinite, PolicyLimits DEF CapReached, CapsClear
<1>5. RungClear(c, m, t)
  <2>1. SUFFICES ASSUME c.cooldowns # << >> PROVE RungClear(c, m, t)
    BY DEF RungClear
  <2> DEFINE run == KicksSince(m, t - LargestRung(c.cooldowns))
             r == Rung(Cardinality(run), c.cooldowns)
  <2>2. /\ Since(recent, t - LargestRung(c.cooldowns)) = run
        /\ \A k \in run : recent[k] = ledger[k].ts
    BY <1>1, <1>2, <1>3, <2>1, PolicyLimits
  <2>3. ~CoolingDown(recent, t, c.cooldowns)
    BY DEF PolicyAllows, BackoffAllows
  <2>4. Cardinality(run) \in Nat /\ r \in Nat /\ r <= Len(c.cooldowns)
    BY <1>1, KicksFinite, PolicyLimits, RungMonotone
  <2>5. r \in r..Len(c.cooldowns)
    BY <1>1, <2>4, PolicyLimits
  <2>6. ASSUME NEW i \in run PROVE t - ledger[i].ts >= c.cooldowns[r]
    <3>1. ~(t - ledger[i].ts < c.cooldowns[r])
      BY <2>1, <2>2, <2>3 DEF CoolingDown
    <3>2. Cardinality(run) # 0
      BY KicksFinite, FS_EmptySet
    <3>3. Len(c.cooldowns) \in Nat \ {0}
      BY <1>1, <2>1, PolicyLimits, EmptySeq
    <3>4. r \in 1..Len(c.cooldowns)
      BY <2>4, <3>2, <3>3 DEF Rung
    <3>5. c.cooldowns[r] \in Nat /\ ledger[i].ts \in Nat
      BY <1>1, <3>4, PolicyLimits, RowFields DEF KicksSince
    <3> HIDE DEF r, t
    <3>6. QED
      BY <1>1, <3>1, <3>5
  <2>7. QED
    BY <2>5, <2>6 DEF RungClear
<1>6. QED
  BY <1>4, <1>5 DEF PolicyClear

\* Where no policy is configured every kick is clear.
LEMMA NoPolicyClears ==
  ASSUME NEW c \in Configs, NEW m \in Macs, NEW t, ~PolicyOn(c, m)
  PROVE  PolicyClear(c, m, t)
BY PolicyLimits DEF PolicyOn, PolicyClear, CapsClear, RungClear

\* No call is in progress after the step.
LEMMA PolicyRests ==
  ASSUME TypeOK, PolicyInv, UNCHANGED ledger, lived \subseteq lived',
         at' \notin HandleAwaits \cup {"entry"}
  PROVE  PolicyInv'
<1>1. CallPolicy'
  BY DEF CallPolicy, InHandle, HandleAwaits
<1>2. QED
  BY <1>1, LedgerKept DEF PolicyInv

\* Time passes, or the configuration is replaced, under a call.
LEMMA PolicyWaits ==
  ASSUME TypeOK, PolicyInv, UNCHANGED <<ledger, at, frame>>, lived \subseteq lived',
         now' \in Nat, now <= now', at = "entry" => cfg' = cfg
  PROVE  PolicyInv'
<1>1. now \in Nat /\ (InHandle => frame \in FrameType)
  BY DEF TypeOK, WorldOK, ControlOK
<1>2. ASSUME at = "wire" PROVE PolicyClear(frame.cf, frame.mac, now)'
  <2>1. PICK c, m, t : c = frame.cf /\ m = frame.mac /\ t = now'
    OBVIOUS
  <2>2. c \in Configs /\ m \in Macs
    BY <1>1, <1>2, <2>1 DEF InHandle, HandleAwaits, FrameType
  <2>3. PolicyClear(c, m, t)
    BY <1>1, <1>2, <2>1, <2>2, ClearLater DEF PolicyInv, CallPolicy
  <2>4. PolicyClear(c, m, t)'
    BY <2>3, ClearKept
  <2>5. QED
    BY <2>1, <2>4
<1>3. ASSUME at = "insert" PROVE PolicyClear(frame.cf, frame.mac, frame.time)'
  <2>1. PICK c, m, t : c = frame.cf /\ m = frame.mac /\ t = frame.time
    OBVIOUS
  <2>2. PolicyClear(c, m, t)'
    BY <1>3, <2>1, ClearKept DEF PolicyInv, CallPolicy
  <2>3. QED
    BY <2>1, <2>2
<1>4. at \in {"entry", "ledger_read"} => frame.time \in Nat
  BY <1>1 DEF InHandle, HandleAwaits, FrameType
<1>5. CallPolicy'
  BY <1>1, <1>2, <1>3, <1>4 DEF PolicyInv, CallPolicy, InHandle
<1>6. QED
  BY <1>5, LedgerKept DEF PolicyInv

\* handle goes on to a point at which no fresh kick is under way.
LEMMA PolicyGoes ==
  ASSUME TypeOK, PolicyInv, InHandle, UNCHANGED <<ledger, lived>>, frame'.cf = frame.cf,
         at' \in {"dry_insert", "quarantine_notify", "fallback_wire", "fallback_insert",
                  "notify"}
  PROVE  PolicyInv'
<1>1. CallPolicy'
  BY DEF PolicyInv, CallPolicy
<1>2. QED
  BY <1>1, LedgerKept DEF PolicyInv

\* handle returns, or raises.
LEMMA PolicyLeaves ==
  ASSUME TypeOK, InHandle, Return \/ Raise
  PROVE  at' \notin HandleAwaits \cup {"entry"}
<1>1. frame.trigger \in Triggers
  BY DEF TypeOK, ControlOK, FrameType
<1>2. QED
  BY <1>1, ResumeType DEF Return, Raise, HandleAwaits

\* The limiter opens the wire for a kick the policy has cleared.
LEMMA PolicyGate ==
  ASSUME TypeOK, PolicyInv, InHandle, LimiterGate,
         PolicyClear(frame.cf, frame.mac, now), UNCHANGED <<ledger, lived, now>>
  PROVE  PolicyInv'
<1>1. CASE Return
  BY <1>1, PolicyLeaves, PolicyRests
<1>2. CASE ~Return
  <2>1. at' = "wire" /\ frame' = [frame EXCEPT !.group = groups + 1]
    BY <1>2 DEF LimiterGate
  <2>2. frame'.cf = frame.cf /\ frame'.mac = frame.mac
    BY <2>1 DEF TypeOK, ControlOK, FrameType
  <2>3. PolicyClear(frame.cf, frame.mac, now)'
    <3>1. PICK c, m, t : c = frame.cf /\ m = frame.mac /\ t = now
      OBVIOUS
    <3>2. PolicyClear(c, m, t)'
      BY <3>1, ClearKept
    <3>3. QED
      BY <2>2, <3>1, <3>2
  <2>4. CallPolicy'
    BY <2>1, <2>2, <2>3 DEF PolicyInv, CallPolicy
  <2>5. QED
    BY <2>4, LedgerKept DEF PolicyInv
<1>3. QED
  BY <1>1, <1>2

\* The row of the kick that was sent is clear.
LEMMA KickRow ==
  ASSUME TypeOK, PolicyInv, InHandle, at = "insert", UNCHANGED lived,
         ledger' = Append(ledger, Row(Mechanism(frame.cf, frame.mac)))
  PROVE  CapsHold' /\ EscalationHolds'
<1> DEFINE r == Row(Mechanism(frame.cf, frame.mac))
<1>1. r \in RowType
  BY EntryTypes, MechanismType DEF Mechanisms
<1>2. r.mac = frame.mac /\ r.ts = frame.time
  BY DEF Row
<1>3. frame.cf \in lived /\ PolicyClear(frame.cf, r.mac, r.ts)
  BY <1>2 DEF PolicyInv, CallPolicy
<1> HIDE DEF r
<1>4. QED
  BY <1>1, <1>3, RowAppended DEF PolicyInv, r

\* The actions of handle.
LEMMA HandlePolicy ==
  ASSUME TypeOK, PolicyInv, Handle, UNCHANGED <<pass, observers>>
  PROVE  PolicyInv'
<1> USE DEF process, observers, world
<1>0. InHandle /\ UNCHANGED lived
  BY DEF InHandle, HandleAwaits, Handle, HandleDryRun, DryRunWritten, HandleQuarantine,
     QuarantineNotified, HandleFallback, FallbackSent, FallbackWritten, HandleFresh,
     LedgerRead, KickSent, KickWritten, KickNotified
<1>a. /\ frame \in FrameType /\ frame.cf \in Configs /\ frame.mac \in Macs
      /\ frame.time \in Nat /\ now \in Nat /\ frame.cf \in lived
  BY <1>0 DEF TypeOK, ControlOK, FrameType, WorldOK, PolicyInv, CallPolicy
<1>1. CASE HandleDryRun \/ HandleQuarantine \/ HandleFallback
  <2>1. UNCHANGED <<ledger, lived>>
    BY <1>0, <1>1 DEF HandleDryRun, HandleQuarantine, HandleFallback
  <2>2. CASE Return
    BY <1>0, <2>1, <2>2, PolicyLeaves, PolicyRests
  <2>3. CASE ~Return
    <3>1. /\ at' \in {"dry_insert", "quarantine_notify", "fallback_wire"}
          /\ frame'.cf = frame.cf
      BY <1>1, <1>a, <2>3 DEF HandleDryRun, HandleQuarantine, HandleFallback, FrameType
    <3>2. QED
      BY <1>0, <2>1, <3>1, PolicyGoes
  <2>4. QED
    BY <2>2, <2>3
<1>2. CASE QuarantineNotified \/ KickNotified
  BY <1>0, <1>2, PolicyLeaves, PolicyRests DEF QuarantineNotified, KickNotified
<1>3. CASE FallbackSent
  <2>1. at' = "fallback_insert" /\ frame'.cf = frame.cf /\ UNCHANGED ledger
    BY <1>3, <1>a DEF FallbackSent, FrameType
  <2>2. QED
    BY <1>0, <2>1, PolicyGoes
<1>4. CASE DryRunWritten \/ FallbackWritten
  <2>1. PICK r \in RowType : /\ ledger' = Append(ledger, r)
                             /\ r.dry \/ r.mechanism = "deauth_fallback"
    <3>1. DryRow \in RowType /\ DryRow.dry
      BY <1>0, EntryTypes DEF DryRow
    <3>2. Row("deauth_fallback") \in RowType
          /\ Row("deauth_fallback").mechanism = "deauth_fallback"
      BY <1>0, EntryTypes DEF Row, Mechanisms
    <3>3. QED
      BY <1>4, <3>1, <3>2 DEF DryRunWritten, FallbackWritten
  <2>2. CapsHold' /\ EscalationHolds'
    BY <1>0, <2>1, RowAppended DEF PolicyInv
  <2>3. at' \notin HandleAwaits \cup {"entry"}
    BY <1>0, <1>4, PolicyLeaves DEF DryRunWritten, FallbackWritten
  <2>4. CallPolicy'
    BY <2>3 DEF CallPolicy, InHandle, HandleAwaits
  <2>5. QED
    BY <2>2, <2>4 DEF PolicyInv
<1>5. CASE HandleFresh
  <2>1. at = "entry" /\ frame.cf = cfg /\ frame.time <= now /\ UNCHANGED <<ledger, now>>
    BY <1>5 DEF HandleFresh, PolicyInv, CallPolicy
  <2>2. CASE PolicyOn(cfg, frame.mac)
    <3>1. at' = "ledger_read" /\ UNCHANGED frame
      BY <1>5, <2>2 DEF HandleFresh
    <3>2. CallPolicy'
      BY <1>0, <1>a, <2>1, <3>1 DEF CallPolicy
    <3>3. QED
      BY <1>0, <2>1, <3>2, LedgerKept DEF PolicyInv
  <2>3. CASE ~PolicyOn(cfg, frame.mac)
    <3>1. PolicyClear(frame.cf, frame.mac, now)
      BY <1>a, <2>1, <2>3, NoPolicyClears
    <3>2. QED
      BY <1>0, <1>5, <2>1, <2>3, <3>1, PolicyGate DEF HandleFresh
  <2>4. QED
    BY <2>2, <2>3
<1>6. CASE LedgerRead
  <2>1. frame.time <= now /\ UNCHANGED <<ledger, now>>
    BY <1>6 DEF LedgerRead, PolicyInv, CallPolicy
  <2>2. CASE PolicyAllows
    <3>1. PolicyClear(frame.cf, frame.mac, now)
      BY <1>0, <1>a, <2>1, <2>2, PolicyJudges, ClearLater
    <3>2. QED
      BY <1>0, <1>6, <2>1, <2>2, <3>1, PolicyGate DEF LedgerRead
  <2>3. CASE ~PolicyAllows
    BY <1>0, <1>6, <2>1, <2>3, PolicyLeaves, PolicyRests DEF LedgerRead
  <2>4. QED
    BY <2>2, <2>3
<1>7. CASE KickSent
  <2>1. /\ at = "wire" /\ at' = "insert" /\ UNCHANGED ledger
        /\ frame'.cf = frame.cf /\ frame'.mac = frame.mac /\ frame'.time = now
    BY <1>7, <1>a DEF KickSent, FrameType
  <2>2. PolicyClear(frame.cf, frame.mac, frame.time)'
    <3>1. PICK c, m, t : c = frame.cf /\ m = frame.mac /\ t = now
      OBVIOUS
    <3>2. PolicyClear(c, m, t)'
      BY <2>1, <3>1, ClearKept DEF PolicyInv, CallPolicy
    <3>3. QED
      BY <2>1, <3>1, <3>2
  <2>3. CallPolicy'
    BY <1>0, <1>a, <2>1, <2>2 DEF CallPolicy
  <2>4. QED
    BY <1>0, <2>1, <2>3, LedgerKept DEF PolicyInv
<1>8. CASE KickWritten
  <2>1. CapsHold' /\ EscalationHolds'
    BY <1>0, <1>8, <1>a, KickRow DEF KickWritten
  <2>2. CallPolicy'
    <3>1. CASE Return
      BY <1>0, <3>1, PolicyLeaves DEF CallPolicy, InHandle, HandleAwaits
    <3>2. CASE ~Return
      BY <1>0, <1>8, <1>a, <3>2 DEF KickWritten, CallPolicy
    <3>3. QED
      BY <3>1, <3>2
  <2>3. QED
    BY <2>1, <2>2 DEF PolicyInv
<1>9. QED
  BY <1>1, <1>2, <1>3, <1>4, <1>5, <1>6, <1>7, <1>8 DEF Handle

\* A call or a store that raises; the row may be in the ledger all the same.
LEMMA FaultPolicy ==
  ASSUME TypeOK, PolicyInv, WireFails \/ StoreFails, UNCHANGED <<pass, observers>>
  PROVE  PolicyInv'
<1>1. InHandle /\ Raise /\ UNCHANGED lived
  BY DEF WireFails, StoreFails, Propagate, InHandle, HandleAwaits, observers
<1>2. CallPolicy'
  BY <1>1, PolicyLeaves DEF CallPolicy, InHandle, HandleAwaits
<1>3. CASE UNCHANGED ledger
  BY <1>1, <1>2, <1>3, LedgerKept DEF PolicyInv
<1>4. CASE ledger' = Append(ledger, DryRow)
  BY <1>1, <1>2, <1>4, EntryTypes, RowAppended DEF PolicyInv, DryRow
<1>5. CASE ledger' = Append(ledger, Row("deauth_fallback"))
  <2>1. Row("deauth_fallback") \in RowType
        /\ Row("deauth_fallback").mechanism = "deauth_fallback"
    BY <1>1, EntryTypes DEF Row, Mechanisms
  <2>2. QED
    BY <1>1, <1>2, <1>5, <2>1, RowAppended DEF PolicyInv
<1>6. CASE at = "insert" /\ ledger' = Append(ledger, Row(Mechanism(frame.cf, frame.mac)))
  BY <1>1, <1>2, <1>6, KickRow DEF PolicyInv
<1>7. QED
  BY <1>3, <1>4, <1>5, <1>6 DEF WireFails, StoreFails

\* Every step keeps the caps and the escalation.
LEMMA NextPolicy == TypeOK /\ PolicyInv /\ [Next]_vars => PolicyInv'
<1> SUFFICES ASSUME TypeOK, PolicyInv, [Next]_vars PROVE PolicyInv'
  OBVIOUS
<1>0. now \in Nat
  BY DEF TypeOK, WorldOK
<1>1. CASE UNCHANGED vars
  BY <1>0, <1>1, PolicyWaits DEF vars, world, observers
<1>2. CASE HandleStep
  BY <1>2, HandlePolicy DEF HandleStep
<1>3. CASE Fault /\ ~SampleFails
  BY <1>3, FaultPolicy DEF Fault
<1>4. CASE Scan /\ ~HandleStep /\ ~(Fault /\ ~SampleFails)
  <2>1. UNCHANGED <<ledger, now, cfg>> /\ lived \subseteq lived'
    BY <1>4 DEF Scan, Fault, BeginCycle, ClientPolled, DetectRf, DetectInactivity, Detect,
       DnsObserved, DnsNext, EndCycle, SampleFails, observers, world
  <2>2. CASE at' \notin HandleAwaits \cup {"entry"}
    BY <2>1, <2>2, PolicyRests
  <2>3. CASE at' \in HandleAwaits \cup {"entry"}
    <3>1. \/ at' = "entry" /\ frame'.cf = cfg /\ frame'.time = now
          \/ UNCHANGED <<at, frame>>
      BY <1>4, <2>3
      DEF Scan, Fault, BeginCycle, ClientPolled, DetectRf, DetectInactivity, Detect,
          DnsObserved, DnsNext, EndCycle, SampleFails, Raise, StartHandle, HandleAwaits
    <3>2. CASE UNCHANGED <<at, frame>>
      BY <1>0, <2>1, <3>2, PolicyWaits
    <3>3. CASE at' = "entry" /\ frame'.cf = cfg /\ frame'.time = now
      <4>1. CallPolicy'
        BY <1>0, <2>1, <3>3 DEF CallPolicy, TypeOK, WorldOK
      <4>2. QED
        BY <2>1, <4>1, LedgerKept DEF PolicyInv
    <3>4. QED
      BY <3>1, <3>2, <3>3
  <2>4. QED
    BY <2>2, <2>3
<1>5. CASE Tick
  <2>1. now' = now + 1 /\ UNCHANGED <<ledger, at, frame, lived, cfg>>
    BY <1>5 DEF Tick, observers
  <2>2. QED
    BY <1>0, <2>1, PolicyWaits
<1>6. ASSUME NEW c \in Configs, Reload(c) PROVE PolicyInv'
  <2>1. /\ at # "entry" /\ UNCHANGED <<ledger, at, frame, now>> /\ lived \subseteq lived'
    BY <1>6 DEF Reload, AtAwait, SyncPoints
  <2>2. QED
    BY <1>0, <2>1, PolicyWaits
<1>7. ASSUME NEW c \in Configs, Restart(c) PROVE PolicyInv'
  <2>1. at' = "sleep" /\ UNCHANGED ledger /\ lived \subseteq lived'
    BY <1>7 DEF Restart
  <2>2. QED
    BY <2>1, PolicyRests DEF HandleAwaits
<1>8. QED
  BY <1>1, <1>2, <1>3, <1>4, <1>5, <1>6, <1>7 DEF Next

\* The policy's invariant holds in every behaviour.
LEMMA PolicyAlways == Spec => []PolicyInv
<1>1. Init => PolicyInv
  BY DEF Init, Boot, PolicyInv, CallPolicy, CapsHold, EscalationHolds, InHandle, HandleAwaits
<1>2. QED
  BY <1>1, NextPolicy, TypeCorrect, PTL DEF Spec

\* ADR-0007 caps (actor.py _policy_blocks, backoff.py): for every client, configuration and
\* bound, no rolling hour or day of the audit trail holds more logical kicks of a client
\* than a configuration in force allowed, whatever was reloaded while the ledger was read.
THEOREM CapsCorrect == Spec => []CapsHold
<1>1. PolicyInv => CapsHold
  BY DEF PolicyInv
<1>2. QED
  BY <1>1, PolicyAlways, PTL

\* ADR-0007 escalation (backoff.py): each logical kick has waited the cooldown of the rung
\* that the kicks before it put the client on, or of a later one.
THEOREM EscalationCorrect == Spec => []EscalationHolds
<1>1. PolicyInv => EscalationHolds
  BY DEF PolicyInv
<1>2. QED
  BY <1>1, PolicyAlways, PTL

----------------------------------------------------------------------------
(* ADR-0004 per-AP cap.  The deques are pruned by the window in force; PerApInv*)
(* says that they are in order and still count every call that some        *)
(* configuration that has been live would count.                           *)

\* A deque of times in the order they were appended.
Sorted(s) == \A i, j \in DOMAIN s : i <= j => s[i] <= s[j]

\* The entries of a deque that a window beginning at t sees.
Entries(s, t) == {i \in DOMAIN s : s[i] >= t}

\* The size of a stretch of positions.
LEMMA IntervalSize ==
  ASSUME NEW a \in Int, NEW b \in Int, a <= b + 1
  PROVE  Cardinality(a..b) = b - a + 1
BY FS_Interval

\* What is older than a moment is a prefix.
LEMMA SortedSplit ==
  ASSUME NEW s \in Seq(Nat), Sorted(s), NEW t \in Int
  PROVE  \E p \in 0..Len(s) : \A i \in DOMAIN s : s[i] < t <=> i <= p
<1> DEFINE Cuts == {p \in 0..Len(s) : \A i \in DOMAIN s : i > p => s[i] >= t}
<1>1. Len(s) \in Nat /\ DOMAIN s = 1..Len(s) /\ \A i \in DOMAIN s : s[i] \in Nat
  BY LenProperties, ElementOfSeq
<1>2. PICK p \in Cuts : \A q \in Cuts : p <= q
  <2>1. Len(s) \in Cuts /\ Cuts \in SUBSET Nat
    BY <1>1
  <2> HIDE DEF Cuts
  <2>2. QED
    BY <2>1, LeastNatural
<1>3. ASSUME NEW i \in DOMAIN s, i <= p, s[i] >= t PROVE FALSE
  <2>1. \A j \in DOMAIN s : j > i - 1 => s[j] >= t
    BY <1>1, <1>3 DEF Sorted
  <2>2. p \in 0..Len(s) /\ i \in 1..Len(s)
    BY <1>1, <1>2
  <2>3. i - 1 \in 0..Len(s) /\ ~(p <= i - 1)
    BY <1>1, <1>3, <2>2
  <2>4. i - 1 \in Cuts
    BY <2>1, <2>3
  <2> HIDE DEF Cuts
  <2>5. QED
    BY <1>2, <2>3, <2>4
<1>4. p \in 0..Len(s) /\ \A i \in DOMAIN s : i > p => s[i] >= t
  BY <1>2
<1>5. ASSUME NEW i \in DOMAIN s PROVE s[i] < t <=> i <= p
  <2>1. s[i] \in Nat /\ i \in Nat /\ p \in Nat
    BY <1>1, <1>4
  <2>2. i <= p => ~(s[i] >= t)
    BY <1>3
  <2>3. i > p => s[i] >= t
    BY <1>4
  <2>4. QED
    BY <2>1, <2>2, <2>3
<1>6. QED
  BY <1>4, <1>5

\* What is left after a prefix is counted by its length.
LEMMA SplitCounts ==
  ASSUME NEW s \in Seq(Nat), Sorted(s), NEW t \in Int
  PROVE  \E p \in 0..Len(s) :
           /\ \A i \in DOMAIN s : s[i] < t <=> i <= p
           /\ Cardinality({i \in DOMAIN s : s[i] < t}) = p
           /\ Cardinality(Entries(s, t)) = Len(s) - p
<1>1. Len(s) \in Nat /\ DOMAIN s = 1..Len(s) /\ \A i \in DOMAIN s : s[i] \in Nat
  BY LenProperties, ElementOfSeq
<1>2. PICK p \in 0..Len(s) : \A i \in DOMAIN s : s[i] < t <=> i <= p
  BY SortedSplit
<1>3. /\ {i \in DOMAIN s : s[i] < t} = 1..p
      /\ Entries(s, t) = (p + 1)..Len(s)
  BY <1>1, <1>2 DEF Entries
<1>4. Cardinality(1..p) = p /\ Cardinality((p + 1)..Len(s)) = Len(s) - p
  <2>1. p \in Nat /\ p <= Len(s) /\ p + 1 \in Int /\ Len(s) \in Int
    BY <1>1
  <2>2. Cardinality(1..p) = p - 1 + 1
    BY <2>1, IntervalSize
  <2>3. Cardinality((p + 1)..Len(s)) = Len(s) - (p + 1) + 1
    BY <2>1, IntervalSize
  <2>4. QED
    BY <2>1, <2>2, <2>3
<1>5. QED
  BY <1>2, <1>3, <1>4

\* rate_limit.py _prune: what stays is what is not older than the cutoff, in order.
LEMMA Pruned ==
  ASSUME NEW s \in Seq(Nat), Sorted(s), NEW c \in Int, NEW t \in Int, c <= t
  PROVE  /\ Sorted(Prune(s, c)) /\ Len(Prune(s, c)) = Cardinality(Entries(s, c))
         /\ \A i \in DOMAIN Prune(s, c) : \E k \in DOMAIN s : Prune(s, c)[i] = s[k]
         /\ Cardinality(Entries(Prune(s, c), t)) = Cardinality(Entries(s, t))
<1>1. Len(s) \in Nat /\ DOMAIN s = 1..Len(s) /\ \A i \in DOMAIN s : s[i] \in Nat
  BY LenProperties, ElementOfSeq
<1>2. PICK q \in 0..Len(s) :
        /\ \A i \in DOMAIN s : s[i] < c <=> i <= q
        /\ Cardinality({i \in DOMAIN s : s[i] < c}) = q
        /\ Cardinality(Entries(s, c)) = Len(s) - q
  BY SplitCounts
<1>3. PICK p \in 0..Len(s) :
        /\ \A i \in DOMAIN s : s[i] < t <=> i <= p
        /\ Cardinality(Entries(s, t)) = Len(s) - p
  BY SplitCounts
<1>4. q <= p
  BY <1>1, <1>2, <1>3
<1> DEFINE r == Prune(s, c)
<1>5. r = SubSeq(s, 1 + q, Len(s))
  BY <1>2 DEF Prune
<1>6. /\ r \in Seq(Nat) /\ Len(r) = Len(s) - q /\ DOMAIN r = 1..(Len(s) - q)
      /\ \A i \in 1..(Len(s) - q) : r[i] = s[q + i]
  <2>1. PICK m \in Int, n \in Int : m = 1 + q /\ n = Len(s) /\ q \in Nat /\ q <= n
    <3>1. 1 + q \in Int /\ Len(s) \in Int /\ q \in Nat /\ q <= Len(s)
      BY <1>1
    <3>2. QED
      BY <3>1
  <2>2. \A i \in m..n : s[i] \in Nat
    BY <1>1, <2>1
  <2> HIDE DEF r
  <2>3. /\ r \in Seq(Nat)
        /\ Len(r) = IF m <= n THEN n - m + 1 ELSE 0
        /\ \A i \in 1..(n - m + 1) : r[i] = s[m + i - 1]
    <3>1. r = SubSeq(s, m, n)
      BY <1>5, <2>1
    <3>2. /\ SubSeq(s, m, n) \in Seq(Nat)
          /\ Len(SubSeq(s, m, n)) = IF m <= n THEN n - m + 1 ELSE 0
          /\ \A i \in 1..(n - m + 1) : SubSeq(s, m, n)[i] = s[m + i - 1]
      BY <2>2, SubSeqProperties
    <3>3. QED
      BY <3>1, <3>2
  <2>4. Len(r) = Len(s) - q /\ n - m + 1 = Len(s) - q
    BY <2>1, <2>3
  <2>5. ASSUME NEW i \in 1..(Len(s) - q) PROVE r[i] = s[q + i]
    <3>1. r[i] = s[m + i - 1] /\ m + i - 1 = q + i
      BY <2>1, <2>3, <2>4
    <3>2. QED
      BY <3>1
  <2>6. QED
    BY <2>3, <2>4, <2>5, LenProperties
<1> HIDE DEF r
<1>a. p \in Nat /\ q \in Nat /\ p <= Len(s) /\ q <= Len(s)
  BY <1>1
<1>b. ASSUME NEW i \in DOMAIN r
      PROVE  i \in Nat /\ q + i \in DOMAIN s /\ r[i] = s[q + i] /\ s[q + i] \in Nat
  BY <1>1, <1>6, <1>a
<1>7. Sorted(r)
  <2>1. SUFFICES ASSUME NEW i \in DOMAIN r, NEW j \in DOMAIN r, i <= j
                 PROVE  r[i] <= r[j]
    BY DEF Sorted
  <2>2. q + i <= q + j
    BY <1>a, <1>b, <2>1
  <2>3. QED
    BY <1>b, <2>2 DEF Sorted
<1>8. \A i \in DOMAIN r : \E k \in DOMAIN s : r[i] = s[k]
  BY <1>b
<1>9. Entries(r, t) = (p - q + 1)..(Len(s) - q)
  <2>1. ASSUME NEW i \in DOMAIN r PROVE r[i] >= t <=> ~(q + i <= p)
    <3>1. s[q + i] < t <=> q + i <= p
      BY <1>3, <1>b
    <3>2. QED
      BY <1>b, <3>1
  <2>2. ASSUME NEW i \in 1..(Len(s) - q)
        PROVE  ~(q + i <= p) <=> i \in (p - q + 1)..(Len(s) - q)
    BY <1>1, <1>a
  <2>3. (p - q + 1)..(Len(s) - q) \subseteq 1..(Len(s) - q)
    BY <1>1, <1>4, <1>a
  <2>4. DOMAIN r = 1..(Len(s) - q)
    BY <1>6
  <2>5. QED
    BY <2>1, <2>2, <2>3, <2>4 DEF Entries
<1>10. Cardinality(Entries(r, t)) = Len(s) - p
  <2>1. /\ p - q + 1 \in Int /\ Len(s) - q \in Int
        /\ p - q + 1 <= Len(s) - q + 1
    BY <1>1, <1>a
  <2>2. Cardinality(Entries(r, t)) = (Len(s) - q) - (p - q + 1) + 1
    BY <1>9, <2>1, IntervalSize
  <2>3. QED
    BY <1>1, <1>a, <2>2
<1>11. QED
  BY <1>2, <1>3, <1>6, <1>7, <1>8, <1>10 DEF r

\* rate_limit.py record_kick: a time that is not older than the others is added last.
LEMMA DequeAppend ==
  ASSUME NEW s \in Seq(Nat), Sorted(s), NEW n \in Nat, \A i \in DOMAIN s : s[i] <= n
  PROVE  /\ Sorted(Append(s, n)) /\ \A i \in DOMAIN Append(s, n) : Append(s, n)[i] <= n
         /\ \A t \in Int : Cardinality(Entries(Append(s, n), t)) =
              Cardinality(Entries(s, t)) + (IF n >= t THEN 1 ELSE 0)
<1> DEFINE r == Append(s, n)
           z == Len(s) + 1
<1>1. Len(s) \in Nat /\ DOMAIN s = 1..Len(s) /\ \A i \in DOMAIN s : s[i] \in Nat
  BY LenProperties, ElementOfSeq
<1>2. /\ DOMAIN r = DOMAIN s \cup {z} /\ z \notin DOMAIN s /\ r[z] = n
      /\ \A i \in DOMAIN s : r[i] = s[i] /\ i < z
  BY <1>1, AppendProperties
<1> HIDE DEF r
<1>3. Sorted(r) /\ \A i \in DOMAIN r : r[i] <= n
  BY <1>1, <1>2 DEF Sorted
<1>4. ASSUME NEW t \in Int
      PROVE  Cardinality(Entries(r, t)) =
               Cardinality(Entries(s, t)) + (IF n >= t THEN 1 ELSE 0)
  <2>1. Entries(r, t) = IF n >= t THEN Entries(s, t) \cup {z} ELSE Entries(s, t)
    BY <1>2 DEF Entries
  <2>2. IsFiniteSet(Entries(s, t)) /\ z \notin Entries(s, t)
    <3>1. Entries(s, t) \in SUBSET DOMAIN s
      BY DEF Entries
    <3>2. QED
      BY <1>2, <3>1, PositionsFinite
  <2>3. Cardinality(Entries(s, t)) \in Nat
    BY <2>2, FS_CardinalityType
  <2>4. Cardinality(Entries(s, t) \cup {z}) = Cardinality(Entries(s, t)) + 1
    BY <2>2, FS_AddElement
  <2>5. QED
    BY <2>1, <2>3, <2>4
<1>5. QED
  BY <1>3, <1>4 DEF r

\* The accepted fresh calls this process made to an access point since a moment.
KickCalls(a, t) ==
  {i \in DOMAIN wire : Current(i) /\ Fresh(i) /\ wire[i].ap = a /\ wire[i].at >= t}

\* No configuration was live that counts nothing.
Capped == \A c \in lived : c.apCap # 0

\* A moment no live configuration's window has left behind.
Remembered(t) == \A d \in lived : t >= now - d.apWindow

DequesSorted ==
  \A a \in Aps : Sorted(perAp[a]) /\ \A k \in DOMAIN perAp[a] : perAp[a][k] <= now

DequesCover ==
  Capped => \A a \in Aps, t \in Int : Remembered(t) =>
              Cardinality(KickCalls(a, t)) <= Cardinality(Entries(perAp[a], t))

RoomLeft ==
  (at = "wire" /\ Capped) =>
    \E c, d \in lived : Cardinality(KickCalls(frame.ap, now - d.apWindow)) < c.apCap

PerApInv == DequesSorted /\ DequesCover /\ RoomLeft /\ PerApCap

\* The numbers the per-AP cap compares.
LEMMA ApFields ==
  ASSUME TypeOK
  PROVE  /\ \A c \in lived : c.apCap \in Nat /\ c.apWindow \in Nat
         /\ cfg \in lived /\ now \in Nat /\ perAp \in [Aps -> Seq(Nat)]
         /\ \A a, t : IsFiniteSet(KickCalls(a, t)) /\ Cardinality(KickCalls(a, t)) \in Nat
         /\ \A a \in Aps : \A t : Cardinality(Entries(perAp[a], t)) \in Nat
<1>1. \A c \in lived : c.apCap \in Nat /\ c.apWindow \in Nat
  BY ConfigAssumption DEF TypeOK, WorldOK, ConfigType
<1>2. cfg \in lived /\ now \in Nat /\ perAp \in [Aps -> Seq(Nat)]
  BY DEF TypeOK, WorldOK, ActorOK
<1>3. ASSUME NEW a, NEW t
      PROVE  IsFiniteSet(KickCalls(a, t)) /\ Cardinality(KickCalls(a, t)) \in Nat
  <2>1. KickCalls(a, t) \in SUBSET DOMAIN wire
    BY DEF KickCalls
  <2>2. QED
    BY <2>1, CallFields, PositionsFinite
<1>4. ASSUME NEW a \in Aps, NEW t
      PROVE  Cardinality(Entries(perAp[a], t)) \in Nat
  <2>1. Entries(perAp[a], t) \in SUBSET DOMAIN perAp[a] /\ perAp[a] \in Seq(Nat)
    BY <1>2 DEF Entries
  <2>2. QED
    BY <2>1, PositionsFinite
<1>5. QED
  BY <1>1, <1>2, <1>3, <1>4

\* Fewer calls are in a later window.
LEMMA CallsLater ==
  ASSUME TypeOK, NEW a, NEW t \in Int, NEW u \in Int, t <= u
  PROVE  Cardinality(KickCalls(a, u)) <= Cardinality(KickCalls(a, t))
<1>1. KickCalls(a, u) \subseteq KickCalls(a, t)
  BY WireFields DEF KickCalls
<1>2. QED
  BY <1>1, ApFields, FS_Subset

\* Fewer entries too.
LEMMA EntriesLater ==
  ASSUME TypeOK, NEW a \in Aps, NEW t \in Int, NEW u \in Int, t <= u
  PROVE  Cardinality(Entries(perAp[a], u)) <= Cardinality(Entries(perAp[a], t))
<1>1. perAp[a] \in Seq(Nat) /\ DOMAIN perAp[a] = 1..Len(perAp[a]) /\ Len(perAp[a]) \in Nat
      /\ \A i \in DOMAIN perAp[a] : perAp[a][i] \in Nat
  BY ApFields, LenProperties, ElementOfSeq
<1>2. Entries(perAp[a], u) \in SUBSET Entries(perAp[a], t)
  BY <1>1 DEF Entries
<1>3. IsFiniteSet(Entries(perAp[a], t))
  <2>1. Entries(perAp[a], t) \in SUBSET DOMAIN perAp[a]
    BY DEF Entries
  <2>2. QED
    BY <1>1, <2>1, PositionsFinite
<1>4. QED
  BY <1>2, <1>3, FS_Subset

\* Nothing is sent and no deque is touched.
LEMMA ApIdle ==
  ASSUME TypeOK, PerApInv, UNCHANGED <<wire, epoch, perAp>>, lived \subseteq lived',
         now' \in Nat, now <= now',
         at' = "wire" => at = "wire" /\ frame'.ap = frame.ap
  PROVE  PerApInv'
<1>1. \A a, t : KickCalls(a, t)' = KickCalls(a, t)
  BY DEF KickCalls, Current, Fresh
<1>2. PerApCap'
  BY DEF PerApInv, PerApCap, Fresh
<1>3. DequesSorted'
  <2>1. ASSUME NEW a \in Aps, NEW k \in DOMAIN perAp[a]
        PROVE  perAp[a][k] <= now'
    <3>1. perAp[a][k] \in Nat /\ perAp[a][k] <= now /\ now \in Nat
      BY ApFields, ElementOfSeq, LenProperties DEF PerApInv, DequesSorted
    <3>2. QED
      BY <3>1
  <2>2. QED
    BY <2>1 DEF PerApInv, DequesSorted
<1>4. Capped' => Capped
  BY DEF Capped
<1>5. DequesCover'
  <2>1. SUFFICES ASSUME Capped, NEW a \in Aps, NEW t \in Int, Remembered(t)'
                 PROVE  Cardinality(KickCalls(a, t)') <= Cardinality(Entries(perAp[a], t))
    BY <1>4 DEF DequesCover
  <2>2. ASSUME NEW d \in lived PROVE t >= now - d.apWindow
    <3>1. t >= now' - d.apWindow
      BY <2>1 DEF Remembered
    <3>2. QED
      BY <3>1, ApFields
  <2>3. QED
    BY <1>1, <2>1, <2>2 DEF PerApInv, DequesCover, Remembered
<1>6. RoomLeft'
  <2>1. SUFFICES ASSUME at' = "wire", Capped
                 PROVE  \E c, d \in lived' :
                          Cardinality(KickCalls(frame.ap, now - d.apWindow)') < c.apCap
    BY <1>4 DEF RoomLeft
  <2>2. PICK a : a = frame.ap /\ frame'.ap = a
    BY <2>1
  <2>3. PICK c \in lived, d \in lived :
          Cardinality(KickCalls(a, now - d.apWindow)) < c.apCap
    BY <2>1, <2>2 DEF PerApInv, RoomLeft
  <2>4. Cardinality(KickCalls(a, now' - d.apWindow)) <=
          Cardinality(KickCalls(a, now - d.apWindow))
    <3>1. /\ now - d.apWindow \in Int /\ now' - d.apWindow \in Int
          /\ now - d.apWindow <= now' - d.apWindow
      BY ApFields
    <3>2. QED
      BY <3>1, CallsLater
  <2>5. Cardinality(KickCalls(a, now' - d.apWindow)) < c.apCap
    BY <2>3, <2>4, ApFields
  <2>6. PICK t : t = now' - d.apWindow
    OBVIOUS
  <2>7. Cardinality(KickCalls(a, t)') < c.apCap
    BY <1>1, <2>5, <2>6
  <2>8. QED
    BY <2>2, <2>6, <2>7
<1>7. QED
  BY <1>2, <1>3, <1>5, <1>6 DEF PerApInv

\* The calls on the wire before one more was made.
LEMMA ApEarlier ==
  ASSUME TypeOK, PerApCap, NEW w, wire' = Append(wire, w), lived \subseteq lived',
         NEW j \in DOMAIN wire, wire'[j].ok, Fresh(j)'
  PROVE  \E c, d \in lived' :
           \/ c.apCap = 0
           \/ Cardinality({i \in 1..j :
                /\ wire'[i].ok /\ Fresh(i)' /\ wire'[i].epoch = wire'[j].epoch
                /\ wire'[i].ap = wire'[j].ap
                /\ wire'[i].at >= wire'[j].at - d.apWindow}) <= c.apCap
<1>1. \A i \in 1..j : i \in DOMAIN wire /\ wire'[i] = wire[i]
  BY CallFields, Appended
<1>2. wire'[j] = wire[j] /\ wire[j].ok /\ Fresh(j)
  BY Appended DEF Fresh
<1>3. PICK c \in lived, d \in lived :
        \/ c.apCap = 0
        \/ Cardinality({i \in 1..j :
             /\ wire[i].ok /\ Fresh(i) /\ wire[i].epoch = wire[j].epoch
             /\ wire[i].ap = wire[j].ap
             /\ wire[i].at >= wire[j].at - d.apWindow}) <= c.apCap
  BY <1>2 DEF PerApCap
<1>4. {i \in 1..j :
         /\ wire'[i].ok /\ Fresh(i)' /\ wire'[i].epoch = wire'[j].epoch
         /\ wire'[i].ap = wire'[j].ap
         /\ wire'[i].at >= wire'[j].at - d.apWindow}
      = {i \in 1..j :
         /\ wire[i].ok /\ Fresh(i) /\ wire[i].epoch = wire[j].epoch
         /\ wire[i].ap = wire[j].ap
         /\ wire[i].at >= wire[j].at - d.apWindow}
  BY <1>1, <1>2 DEF Fresh
<1>5. QED
  BY <1>3, <1>4

\* A call the cap does not count: refused, or a fallback.
LEMMA ApNoKick ==
  ASSUME TypeOK, PerApInv, NEW w, wire' = Append(wire, w),
         ~w.ok \/ w.mechanism = "deauth_fallback",
         UNCHANGED <<epoch, perAp, now, lived>>, at' # "wire"
  PROVE  PerApInv'
<1>1. PICK n : n = Len(wire) + 1
  OBVIOUS
<1>2. /\ DOMAIN wire' = DOMAIN wire \cup {n} /\ wire'[n] = w
      /\ \A i \in DOMAIN wire : wire'[i] = wire[i]
  BY <1>1, Appended
<1>3. \A a, t : KickCalls(a, t)' = KickCalls(a, t)
  BY <1>2 DEF KickCalls, Current, Fresh
<1>4. DequesSorted' /\ DequesCover' /\ RoomLeft'
  BY <1>3 DEF PerApInv, DequesSorted, DequesCover, RoomLeft, Capped, Remembered
<1>5. PerApCap'
  <2>1. \A j \in DOMAIN wire' : wire'[j].ok /\ Fresh(j)' => j \in DOMAIN wire
    BY <1>2 DEF Fresh
  <2>2. PerApCap
    BY DEF PerApInv
  <2>3. ASSUME NEW j \in DOMAIN wire', wire'[j].ok, Fresh(j)'
        PROVE  \E c, d \in lived' :
                 \/ c.apCap = 0
                 \/ Cardinality({i \in 1..j :
                      /\ wire'[i].ok /\ Fresh(i)' /\ wire'[i].epoch = wire'[j].epoch
                      /\ wire'[i].ap = wire'[j].ap
                      /\ wire'[i].at >= wire'[j].at - d.apWindow}) <= c.apCap
    <3>1. j \in DOMAIN wire /\ lived \subseteq lived'
      BY <2>1, <2>3
    <3>2. QED
      BY <2>2, <2>3, <3>1, ApEarlier
  <2>4. QED
    BY <2>3 DEF PerApCap
<1>6. QED
  BY <1>4, <1>5 DEF PerApInv

\* The limiter is asked: the deque is pruned, and a call goes out if there is room.
LEMMA ApGate ==
  ASSUME TypeOK, PerApInv, InHandle, LimiterGate, UNCHANGED <<wire, epoch, now, lived>>
  PROVE  PerApInv'
<1> DEFINE cut == now - cfg.apWindow
<1>0. /\ frame.ap \in Aps /\ frame \in FrameType /\ frame.trigger \in Triggers
      /\ cut \in Int /\ cfg.apCap \in Nat
  BY ApFields DEF TypeOK, ControlOK, FrameType
<1>1. \A a, t : KickCalls(a, t)' = KickCalls(a, t)
  BY DEF KickCalls, Current, Fresh
<1>2. PerApCap'
  BY DEF PerApInv, PerApCap, Fresh
<1>3. \A a \in Aps : perAp'[a] = perAp[a] \/ perAp'[a] = Prune(perAp[a], cut)
  BY <1>0, ApFields DEF LimiterGate
<1>4. ASSUME NEW a \in Aps, NEW t \in Int, cut <= t
      PROVE  /\ Sorted(Prune(perAp[a], cut))
             /\ Len(Prune(perAp[a], cut)) = Cardinality(Entries(perAp[a], cut))
             /\ \A i \in DOMAIN Prune(perAp[a], cut) :
                  \E k \in DOMAIN perAp[a] : Prune(perAp[a], cut)[i] = perAp[a][k]
             /\ Cardinality(Entries(Prune(perAp[a], cut), t)) =
                  Cardinality(Entries(perAp[a], t))
  <2>1. perAp[a] \in Seq(Nat) /\ Sorted(perAp[a])
    BY ApFields DEF PerApInv, DequesSorted
  <2> HIDE DEF cut
  <2>2. QED
    BY <1>0, <1>4, <2>1, Pruned
<1>5. DequesSorted'
  <2>1. ASSUME NEW a \in Aps
        PROVE  Sorted(perAp'[a]) /\ \A k \in DOMAIN perAp'[a] : perAp'[a][k] <= now
    <3>1. CASE perAp'[a] = perAp[a]
      BY <3>1 DEF PerApInv, DequesSorted
    <3>2. CASE perAp'[a] = Prune(perAp[a], cut)
      <4>1. cut <= cut
        BY <1>0
      <4> HIDE DEF cut
      <4>2. Sorted(Prune(perAp[a], cut))
            /\ \A i \in DOMAIN Prune(perAp[a], cut) :
                  \E k \in DOMAIN perAp[a] : Prune(perAp[a], cut)[i] = perAp[a][k]
        BY <1>0, <1>4, <4>1
      <4>3. QED
        BY <3>2, <4>2 DEF PerApInv, DequesSorted
    <3>3. QED
      BY <1>3, <3>1, <3>2
  <2>2. QED
    BY <2>1 DEF DequesSorted
<1>6. DequesCover'
  <2>1. SUFFICES ASSUME Capped, NEW a \in Aps, NEW t \in Int, Remembered(t)
                 PROVE  Cardinality(KickCalls(a, t)) <= Cardinality(Entries(perAp'[a], t))
    BY <1>1 DEF DequesCover, Capped, Remembered
  <2>2. cut <= t
    BY <1>0, <2>1, ApFields DEF Remembered
  <2>3. Cardinality(Entries(perAp'[a], t)) = Cardinality(Entries(perAp[a], t))
    BY <1>3, <1>4, <2>2
  <2>4. QED
    BY <2>1, <2>3 DEF PerApInv, DequesCover
<1>7. RoomLeft'
  <2>1. SUFFICES ASSUME at' = "wire", Capped
                 PROVE  \E c, d \in lived' :
                          Cardinality(KickCalls(frame.ap, now - d.apWindow)') < c.apCap
    BY DEF RoomLeft, Capped
  <2>2. PICK a \in Aps : a = frame.ap /\ frame'.ap = a
    <3>1. ~Return
      BY <1>0, <2>1, ResumeType DEF Return
    <3>2. QED
      BY <1>0, <3>1 DEF LimiterGate, FrameType
  <2>3. Len(Prune(perAp[a], cut)) < cfg.apCap
    <3>1. ~Return
      BY <1>0, <2>1, ResumeType DEF Return
    <3>2. PerApClear(perAp[frame.ap], now, cfg.apCap, cfg.apWindow) /\ cfg.apCap # 0
      BY <2>1, <3>1, ApFields DEF LimiterGate, Capped
    <3>3. QED
      BY <2>2, <3>2 DEF PerApClear
  <2>4. Cardinality(Entries(perAp[a], cut)) < cfg.apCap
    <3>1. cut <= cut
      BY <1>0
    <3> HIDE DEF cut
    <3>2. QED
      BY <1>0, <1>4, <2>3, <3>1
  <2>5. PICK d \in lived : \A c \in lived : d.apWindow <= c.apWindow
    <3> DEFINE windows == {c.apWindow : c \in lived}
    <3>1. windows \in SUBSET Nat /\ windows # {}
      BY ApFields
    <3>2. PICK w \in windows : \A v \in windows : w <= v
      <4> HIDE DEF windows
      <4>1. QED
        BY <3>1, LeastNatural
    <3>3. QED
      BY <3>2
  <2>6. PICK t \in Int : t = now - d.apWindow
    BY ApFields
  <2>7. Remembered(t) /\ cut <= t
    BY <2>5, <2>6, ApFields DEF Remembered
  <2>8. Cardinality(KickCalls(a, t)) <= Cardinality(Entries(perAp[a], t))
    BY <2>1, <2>7 DEF PerApInv, DequesCover
  <2>9. Cardinality(Entries(perAp[a], t)) <= Cardinality(Entries(perAp[a], cut))
    <3> HIDE DEF cut
    <3>1. QED
      BY <1>0, <2>7, EntriesLater
  <2>10. Cardinality(KickCalls(a, t)) < cfg.apCap
    <3>1. /\ Cardinality(KickCalls(a, t)) \in Nat /\ Cardinality(Entries(perAp[a], t)) \in Nat
          /\ Cardinality(Entries(perAp[a], cut)) \in Nat
      BY ApFields
    <3>2. QED
      BY <1>0, <2>4, <2>8, <2>9, <3>1
  <2>11. Cardinality(KickCalls(a, t)') < cfg.apCap /\ now' - d.apWindow = t
    BY <1>1, <2>6, <2>10
  <2>12. QED
    BY <2>2, <2>11, ApFields
<1>8. QED
  BY <1>2, <1>5, <1>6, <1>7 DEF PerApInv

\* An accepted fresh call joins its access point's deque, if a cap counts at all.
LEMMA ApKick ==
  ASSUME TypeOK, PerApInv, KickSent, UNCHANGED lived
  PROVE  PerApInv'
<1> DEFINE mech == Mechanism(frame.cf, frame.mac)
<1>1. PICK n, b : n = Len(wire) + 1 /\ b = frame.ap
  OBVIOUS
<1>2. /\ at = "wire" /\ at' = "insert" /\ wire' = Append(wire, Call(mech, TRUE))
      /\ UNCHANGED <<epoch, now, cfg>> /\ b \in Aps /\ mech # "deauth_fallback"
      /\ perAp' = (IF cfg.apCap > 0 THEN [perAp EXCEPT ![b] = Append(perAp[b], now)]
                   ELSE perAp)
  BY <1>1, MechanismType, CallFields
     DEF KickSent, world, InHandle, HandleAwaits, FreshMechanisms
<1>3. /\ DOMAIN wire' = DOMAIN wire \cup {n} /\ wire'[n] = Call(mech, TRUE)
      /\ n \notin DOMAIN wire /\ \A i \in DOMAIN wire : wire'[i] = wire[i]
  BY <1>1, <1>2, Appended
<1>4. /\ wire'[n].ap = b /\ wire'[n].ok /\ wire'[n].mechanism # "deauth_fallback"
      /\ wire'[n].epoch = epoch /\ wire'[n].at = now
  BY <1>1, <1>2, <1>3 DEF Call
<1>5. ASSUME NEW a, NEW t, a # b PROVE KickCalls(a, t)' = KickCalls(a, t)
  BY <1>2, <1>3, <1>4, <1>5 DEF KickCalls, Current, Fresh
<1>6. ASSUME NEW t
      PROVE  /\ KickCalls(b, t)' =
                  (IF now >= t THEN KickCalls(b, t) \cup {n} ELSE KickCalls(b, t))
             /\ n \notin KickCalls(b, t)
  <2>1. n \notin KickCalls(b, t)
    BY <1>3 DEF KickCalls
  <2>2. \A i \in DOMAIN wire : i \in KickCalls(b, t)' <=> i \in KickCalls(b, t)
    BY <1>2, <1>3 DEF KickCalls, Current, Fresh
  <2>3. n \in KickCalls(b, t)' <=> now >= t
    BY <1>2, <1>3, <1>4 DEF KickCalls, Current, Fresh
  <2>4. KickCalls(b, t) \subseteq DOMAIN wire /\ KickCalls(b, t)' \subseteq DOMAIN wire'
    BY DEF KickCalls
  <2>5. QED
    BY <1>3, <2>1, <2>2, <2>3, <2>4
<1>7. ASSUME NEW t
      PROVE  Cardinality(KickCalls(b, t)') =
               Cardinality(KickCalls(b, t)) + (IF now >= t THEN 1 ELSE 0)
  <2>1. IsFiniteSet(KickCalls(b, t)) /\ Cardinality(KickCalls(b, t)) \in Nat
    BY ApFields
  <2>2. Cardinality(KickCalls(b, t) \cup {n}) = Cardinality(KickCalls(b, t)) + 1
    BY <1>6, <2>1, FS_AddElement
  <2>3. QED
    BY <1>6, <2>1, <2>2
<1>8. /\ Sorted(Append(perAp[b], now))
      /\ \A i \in DOMAIN Append(perAp[b], now) : Append(perAp[b], now)[i] <= now
      /\ \A t \in Int : Cardinality(Entries(Append(perAp[b], now), t)) =
           Cardinality(Entries(perAp[b], t)) + (IF now >= t THEN 1 ELSE 0)
  <2>1. /\ perAp[b] \in Seq(Nat) /\ Sorted(perAp[b]) /\ now \in Nat
        /\ \A i \in DOMAIN perAp[b] : perAp[b][i] <= now
    BY <1>2, ApFields DEF PerApInv, DequesSorted
  <2>2. QED
    BY <2>1, DequeAppend
<1>9. perAp \in [Aps -> Seq(Nat)]
  BY ApFields
<1>10. DequesSorted'
  BY <1>2, <1>8, <1>9 DEF PerApInv, DequesSorted
<1>11. DequesCover'
  <2>1. SUFFICES ASSUME Capped, NEW a \in Aps, NEW t \in Int, Remembered(t)
                 PROVE  Cardinality(KickCalls(a, t)') <= Cardinality(Entries(perAp'[a], t))
    BY <1>2 DEF DequesCover, Capped, Remembered
  <2>2. Cardinality(KickCalls(a, t)) <= Cardinality(Entries(perAp[a], t))
    BY <2>1 DEF PerApInv, DequesCover
  <2>3. CASE a # b
    BY <1>2, <1>5, <1>9, <2>2, <2>3
  <2>4. CASE a = b
    <3>1. cfg.apCap > 0
      BY <2>1, ApFields DEF Capped
    <3>2. perAp'[b] = Append(perAp[b], now)
      BY <1>2, <1>9, <3>1
    <3>3. Cardinality(KickCalls(b, t)) \in Nat /\ Cardinality(Entries(perAp[b], t)) \in Nat
      BY <1>2, ApFields
    <3>4. QED
      BY <1>7, <1>8, <2>2, <2>4, <3>2, <3>3
  <2>5. QED
    BY <2>3, <2>4
<1>12. PerApCap'
  <2>1. PerApCap
    BY DEF PerApInv
  <2>2. ASSUME NEW j \in DOMAIN wire', wire'[j].ok, Fresh(j)'
        PROVE  \E c, d \in lived' :
                 \/ c.apCap = 0
                 \/ Cardinality({i \in 1..j :
                      /\ wire'[i].ok /\ Fresh(i)' /\ wire'[i].epoch = wire'[j].epoch
                      /\ wire'[i].ap = wire'[j].ap
                      /\ wire'[i].at >= wire'[j].at - d.apWindow}) <= c.apCap
    <3>1. CASE j \in DOMAIN wire
      BY <1>2, <2>1, <2>2, <3>1, ApEarlier
    <3>2. CASE ~Capped
      BY <3>2 DEF Capped
    <3>3. CASE j = n /\ Capped
      <4>1. PICK c \in lived, d \in lived :
              Cardinality(KickCalls(b, now - d.apWindow)) < c.apCap
        BY <1>1, <1>2, <3>3 DEF PerApInv, RoomLeft
      <4>2. PICK t : t = now - d.apWindow
        OBVIOUS
      <4>3. {i \in 1..j :
               /\ wire'[i].ok /\ Fresh(i)' /\ wire'[i].epoch = wire'[j].epoch
               /\ wire'[i].ap = wire'[j].ap
               /\ wire'[i].at >= wire'[j].at - d.apWindow} = KickCalls(b, t)'
        <5>1. DOMAIN wire' = 1..j
          BY <1>1, <1>3, <3>3, CallFields
        <5>2. QED
          BY <1>2, <1>4, <3>3, <4>2, <5>1 DEF KickCalls, Current
      <4>4. Cardinality(KickCalls(b, t)') <= c.apCap
        <5>1. Cardinality(KickCalls(b, t)) \in Nat /\ c.apCap \in Nat
          BY ApFields
        <5>2. QED
          BY <1>7, <4>1, <4>2, <5>1
      <4>5. QED
        BY <4>3, <4>4
    <3>4. QED
      BY <1>3, <3>1, <3>2, <3>3
  <2>3. QED
    BY <2>2 DEF PerApCap
<1>13. QED
  BY <1>2, <1>10, <1>11, <1>12 DEF PerApInv, RoomLeft

\* The actions of handle, by what they do to the deques.
LEMMA HandlePerAp ==
  ASSUME TypeOK, PerApInv, Handle, UNCHANGED <<pass, observers>>
  PROVE  PerApInv'
<1> USE DEF process, observers, world
<1>0. /\ InHandle /\ UNCHANGED <<lived, now>> /\ frame \in FrameType /\ now \in Nat
  BY DEF InHandle, HandleAwaits, Handle, HandleDryRun, DryRunWritten, HandleQuarantine,
     QuarantineNotified, HandleFallback, FallbackSent, FallbackWritten, HandleFresh,
     LedgerRead, KickSent, KickWritten, KickNotified, TypeOK, ControlOK, WorldOK
<1>r. Return => at' # "wire"
  BY <1>0, ResumeType DEF Return, FrameType
<1>1. CASE HandleDryRun \/ DryRunWritten \/ HandleQuarantine \/ QuarantineNotified
           \/ HandleFallback \/ FallbackWritten \/ KickWritten \/ KickNotified
  BY <1>0, <1>1, <1>r, ApIdle
  DEF HandleDryRun, DryRunWritten, HandleQuarantine, QuarantineNotified, HandleFallback,
      FallbackWritten, KickWritten, KickNotified
<1>2. CASE FallbackSent
  <2>1. Call("deauth_fallback", TRUE).mechanism = "deauth_fallback"
    BY DEF Call
  <2>2. QED
    BY <1>0, <1>2, <2>1, ApNoKick DEF FallbackSent
<1>3. CASE HandleFresh \/ LedgerRead
  <2>1. UNCHANGED <<wire, epoch, now, lived>>
    BY <1>0, <1>3 DEF HandleFresh, LedgerRead
  <2>2. CASE LimiterGate
    BY <1>0, <2>1, <2>2, ApGate
  <2>3. CASE ~LimiterGate
    <3>1. UNCHANGED perAp /\ at' # "wire"
      BY <1>3, <1>r, <2>3 DEF HandleFresh, LedgerRead
    <3>2. QED
      BY <1>0, <2>1, <3>1, ApIdle
  <2>4. QED
    BY <2>2, <2>3
<1>4. CASE KickSent
  BY <1>0, <1>4, ApKick
<1>5. QED
  BY <1>1, <1>2, <1>3, <1>4 DEF Handle

\* A new process has sent nothing and remembers nothing.
LEMMA RestartPerAp ==
  ASSUME TypeOK, CallsPast, PerApInv, NEW c \in Configs, Restart(c)
  PROVE  PerApInv'
<1>1. /\ epoch' = epoch + 1 /\ at' = "sleep" /\ UNCHANGED wire
      /\ perAp' = [a \in Aps |-> << >>] /\ lived \subseteq lived'
  BY DEF Restart, FreshProcess
<1>2. \A a, t : KickCalls(a, t)' = {}
  BY <1>1, WireFields DEF KickCalls, Current, CallsPast
<1>3. DequesSorted'
  BY <1>1 DEF DequesSorted, Sorted
<1>4. DequesCover'
  <2>1. \A a \in Aps : \A t : Entries(perAp[a], t)' = {}
    BY <1>1 DEF Entries
  <2>2. Cardinality({}) = 0
    BY FS_EmptySet
  <2>3. QED
    BY <1>2, <2>1, <2>2 DEF DequesCover
<1>5. PerApCap'
  <2>1. SUFFICES ASSUME NEW j \in DOMAIN wire, wire[j].ok, Fresh(j)
                 PROVE  \E b, d \in lived' :
                          \/ b.apCap = 0
                          \/ Cardinality({i \in 1..j :
                               /\ wire[i].ok /\ Fresh(i) /\ wire[i].epoch = wire[j].epoch
                               /\ wire[i].ap = wire[j].ap
                               /\ wire[i].at >= wire[j].at - d.apWindow}) <= b.apCap
    BY <1>1 DEF PerApCap, Fresh
  <2>2. QED
    BY <1>1, <2>1 DEF PerApInv, PerApCap
<1>6. QED
  BY <1>1, <1>3, <1>4, <1>5 DEF PerApInv, RoomLeft

\* Every step keeps the deques in line with the calls.
LEMMA NextPerAp == TypeOK /\ CallsPast /\ PerApInv /\ [Next]_vars => PerApInv'
<1> SUFFICES ASSUME TypeOK, CallsPast, PerApInv, [Next]_vars PROVE PerApInv'
  OBVIOUS
<1> USE DEF process, observers, world
<1>0. now \in Nat
  BY DEF TypeOK, WorldOK
<1>1. CASE UNCHANGED vars
  BY <1>0, <1>1, ApIdle DEF vars
<1>2. CASE Tick
  BY <1>0, <1>2, ApIdle DEF Tick
<1>3. CASE HandleStep
  BY <1>3, HandlePerAp DEF HandleStep
<1>4. CASE Fault /\ ~SampleFails
  <2>1. at' = "sleep" /\ UNCHANGED <<epoch, now, lived, perAp>>
    BY <1>4 DEF Fault, WireFails, StoreFails, Propagate, Raise
  <2>2. CASE WireFails
    <3>1. PICK mech : wire' = Append(wire, Call(mech, FALSE))
      BY <2>2 DEF WireFails
    <3>2. ~Call(mech, FALSE).ok
      BY DEF Call
    <3>3. QED
      BY <2>1, <3>1, <3>2, ApNoKick
  <2>3. CASE StoreFails
    BY <1>0, <2>1, <2>3, ApIdle DEF StoreFails
  <2>4. QED
    BY <1>4, <2>2, <2>3 DEF Fault
<1>5. CASE Scan /\ ~HandleStep /\ ~(Fault /\ ~SampleFails)
  <2>1. UNCHANGED <<wire, epoch, perAp, now>> /\ lived \subseteq lived' /\ at' # "wire"
    BY <1>5
    DEF Scan, Fault, BeginCycle, ClientPolled, DetectRf, DetectInactivity, Detect,
        DnsObserved, DnsNext, EndCycle, SampleFails, Raise, StartHandle
  <2>2. QED
    BY <1>0, <2>1, ApIdle
<1>6. ASSUME NEW c \in Configs, Reload(c) PROVE PerApInv'
  BY <1>0, <1>6, ApIdle DEF Reload
<1>7. ASSUME NEW c \in Configs, Restart(c) PROVE PerApInv'
  BY <1>7, RestartPerAp
<1>8. QED
  BY <1>1, <1>2, <1>3, <1>4, <1>5, <1>6, <1>7 DEF Next

\* ADR-0004's per-AP cap holds in every behaviour, for every configuration set.
THEOREM PerApCorrect == Spec => []PerApCap
<1>1. Init => PerApInv
  <2>1. SUFFICES ASSUME Init PROVE PerApInv
    OBVIOUS
  <2>2. wire = << >> /\ at = "sleep" /\ perAp = [a \in Aps |-> << >>]
    BY <2>1 DEF Init, Boot, FreshProcess
  <2>3. \A a \in Aps : \A t : KickCalls(a, t) = {} /\ Entries(perAp[a], t) = {}
    BY <2>2 DEF KickCalls, Entries
  <2>4. Cardinality({}) = 0
    BY FS_EmptySet
  <2>5. DequesCover
    BY <2>3, <2>4 DEF DequesCover
  <2>6. QED
    BY <2>2, <2>5 DEF PerApInv, DequesSorted, RoomLeft, PerApCap, Sorted
<1>2. PerApInv => PerApCap
  BY DEF PerApInv
<1>3. SpacingInv => CallsPast
  BY DEF SpacingInv
<1>4. QED
  BY <1>1, <1>2, <1>3, NextPerAp, SpacingAlways, TypeCorrect, PTL DEF Spec

----------------------------------------------------------------------------
(* The quarantine budget, and the deferrals that precede a kick.           *)

\* The kicks of this process that the quarantine counts.
Kicked(m) ==
  {i \in DOMAIN wire : wire[i].mac = m /\ wire[i].ok /\ Fresh(i) /\ wire[i].epoch = epoch}

KicksCounted == \A m \in Macs : kicks[m] = Cardinality(Kicked(m))

BudgetKept == \A m \in Macs : \E c \in lived : kicks[m] <= c.quarantineAfter

\* Only the client of a fresh kick in progress can lose its budget, and it still has some.
BudgetLeft ==
  at \in {"ledger_read", "wire"} => \E c \in lived : kicks[frame.mac] < c.quarantineAfter

BudgetInv == KicksCounted /\ BudgetKept /\ BudgetLeft

\* The accepted fresh calls of a client are finitely many.
LEMMA KickedFinite ==
  ASSUME TypeOK, NEW m
  PROVE  IsFiniteSet(Kicked(m)) /\ Cardinality(Kicked(m)) \in Nat
<1>1. Kicked(m) \in SUBSET DOMAIN wire
  BY DEF Kicked
<1>2. QED
  BY <1>1, CallFields, PositionsFinite

\* The counters a step leaves alone.
LEMMA BudgetIdle ==
  ASSUME TypeOK, BudgetInv, UNCHANGED <<wire, epoch, kicks>>, lived \subseteq lived',
         \/ at' \notin {"ledger_read", "wire"}
         \/ at \in {"ledger_read", "wire"} /\ frame'.mac = frame.mac
         \/ \E c \in lived : kicks[frame'.mac] < c.quarantineAfter
  PROVE  BudgetInv'
<1>1. KicksCounted'
  BY DEF BudgetInv, KicksCounted, Kicked, Fresh
<1>2. BudgetKept'
  BY DEF BudgetInv, BudgetKept
<1>3. BudgetLeft'
  BY DEF BudgetInv, BudgetLeft
<1>4. QED
  BY <1>1, <1>2, <1>3 DEF BudgetInv

\* A call that is no kick: refused, or a fallback.
LEMMA BudgetNoKick ==
  ASSUME TypeOK, BudgetInv, NEW w, wire' = Append(wire, w),
         ~w.ok \/ w.mechanism = "deauth_fallback",
         UNCHANGED <<epoch, kicks, lived>>, at' \notin {"ledger_read", "wire"}
  PROVE  BudgetInv'
<1>1. PICK n : n = Len(wire) + 1
  OBVIOUS
<1>2. /\ DOMAIN wire' = DOMAIN wire \cup {n} /\ wire'[n] = w
      /\ \A i \in DOMAIN wire : wire'[i] = wire[i]
  BY <1>1, Appended
<1>3. \A m \in Macs : Kicked(m)' = Kicked(m)
  BY <1>2 DEF Kicked, Fresh
<1>4. QED
  BY <1>3 DEF BudgetInv, KicksCounted, BudgetKept, BudgetLeft

\* An accepted fresh call counts once, for its client.
LEMMA BudgetKick ==
  ASSUME TypeOK, BudgetInv, KickSent, UNCHANGED lived
  PROVE  BudgetInv'
<1> DEFINE mech == Mechanism(frame.cf, frame.mac)
<1>1. PICK n, f : n = Len(wire) + 1 /\ f = frame.mac
  OBVIOUS
<1>2. /\ at = "wire" /\ at' = "insert" /\ wire' = Append(wire, Call(mech, TRUE))
      /\ kicks' = [kicks EXCEPT ![f] = kicks[f] + 1] /\ UNCHANGED epoch
      /\ f \in Macs /\ mech # "deauth_fallback"
  BY <1>1, MechanismType, CallFields
     DEF KickSent, world, InHandle, HandleAwaits, FreshMechanisms
<1>3. /\ DOMAIN wire' = DOMAIN wire \cup {n} /\ wire'[n] = Call(mech, TRUE)
      /\ n \notin DOMAIN wire /\ \A i \in DOMAIN wire : wire'[i] = wire[i]
  BY <1>1, <1>2, Appended
<1>4. /\ wire'[n].mac = f /\ wire'[n].ok /\ wire'[n].mechanism # "deauth_fallback"
      /\ wire'[n].epoch = epoch
  BY <1>1, <1>2, <1>3 DEF Call
<1>5. ASSUME NEW m \in Macs, m # f PROVE Kicked(m)' = Kicked(m)
  BY <1>2, <1>3, <1>4, <1>5 DEF Kicked, Fresh
<1>6. Kicked(f)' = Kicked(f) \cup {n} /\ n \notin Kicked(f)
  BY <1>2, <1>3, <1>4 DEF Kicked, Fresh
<1>7. Cardinality(Kicked(f)') = Cardinality(Kicked(f)) + 1
  BY <1>6, KickedFinite, FS_AddElement
<1>8. kicks \in [Macs -> Nat]
  BY DEF TypeOK, ActorOK
<1>9. KicksCounted'
  BY <1>2, <1>5, <1>7, <1>8 DEF BudgetInv, KicksCounted
<1>10. BudgetKept'
  <2>1. PICK c \in lived : kicks[f] < c.quarantineAfter
    BY <1>1, <1>2 DEF BudgetInv, BudgetLeft
  <2>2. c.quarantineAfter \in Nat
    BY <2>1, ConfigAssumption DEF ConfigType, TypeOK, WorldOK
  <2>3. kicks'[f] <= c.quarantineAfter /\ \A m \in Macs : m # f => kicks'[m] = kicks[m]
    BY <1>2, <1>8, <2>1, <2>2
  <2>4. QED
    BY <2>1, <2>3 DEF BudgetInv, BudgetKept
<1>11. QED
  BY <1>2, <1>9, <1>10 DEF BudgetInv, BudgetLeft

\* The quarantine gate was passed in this atomic stretch, or before the ledger was read.
LEMMA HandleBudget ==
  ASSUME TypeOK, BudgetInv, Handle, UNCHANGED <<pass, observers>>
  PROVE  BudgetInv'
<1> USE DEF process, observers, world
<1>0. /\ InHandle /\ UNCHANGED lived /\ frame \in FrameType /\ frame.mac \in Macs
      /\ cfg \in lived
  BY DEF InHandle, HandleAwaits, Handle, HandleDryRun, DryRunWritten, HandleQuarantine,
     QuarantineNotified, HandleFallback, FallbackSent, FallbackWritten, HandleFresh,
     LedgerRead, KickSent, KickWritten, KickNotified, TypeOK, ControlOK, FrameType, WorldOK
<1>r. Return => at' \in {"idled", "sample", "flagged"}
  BY <1>0, ResumeType DEF Return, FrameType
<1>1. CASE HandleDryRun \/ DryRunWritten \/ HandleQuarantine \/ QuarantineNotified
           \/ HandleFallback \/ FallbackWritten \/ KickWritten \/ KickNotified
  BY <1>0, <1>1, <1>r, BudgetIdle
  DEF HandleDryRun, DryRunWritten, HandleQuarantine, QuarantineNotified, HandleFallback,
      FallbackWritten, KickWritten, KickNotified
<1>2. CASE FallbackSent
  <2>1. Call("deauth_fallback", TRUE).mechanism = "deauth_fallback"
    BY DEF Call
  <2>2. QED
    BY <1>0, <1>2, <2>1, BudgetNoKick DEF FallbackSent
<1>3. CASE HandleFresh
  <2>1. kicks[frame.mac] < cfg.quarantineAfter
    <3>1. kicks[frame.mac] \in Nat /\ cfg.quarantineAfter \in Nat
      BY <1>0, ConfigAssumption DEF TypeOK, ActorOK, WorldOK, ConfigType
    <3>2. QED
      BY <1>3, <3>1 DEF HandleFresh, Quarantined
  <2>2. at' \in {"ledger_read", "wire"} => frame'.mac = frame.mac
    BY <1>0, <1>3, <1>r DEF HandleFresh, LimiterGate, FrameType
  <2>3. QED
    BY <1>0, <1>3, <2>1, <2>2, BudgetIdle DEF HandleFresh
<1>4. CASE LedgerRead
  <2>1. at = "ledger_read" /\ (at' \in {"ledger_read", "wire"} => frame'.mac = frame.mac)
    BY <1>0, <1>4, <1>r DEF LedgerRead, LimiterGate, FrameType
  <2>2. QED
    BY <1>0, <1>4, <2>1, BudgetIdle DEF LedgerRead
<1>5. CASE KickSent
  BY <1>0, <1>5, BudgetKick
<1>6. QED
  BY <1>1, <1>2, <1>3, <1>4, <1>5 DEF Handle

\* A new process has kicked nobody.
LEMMA RestartBudget ==
  ASSUME TypeOK, CallsPast, BudgetInv, NEW c \in Configs, Restart(c)
  PROVE  BudgetInv'
<1>1. /\ epoch' = epoch + 1 /\ at' = "sleep" /\ UNCHANGED wire
      /\ kicks' = [m \in Macs |-> 0] /\ c \in lived'
  BY DEF Restart, FreshProcess
<1>2. \A m \in Macs : Kicked(m)' = {}
  BY <1>1, WireFields DEF Kicked, CallsPast
<1>3. c.quarantineAfter \in Nat
  BY ConfigAssumption DEF ConfigType
<1>4. KicksCounted'
  BY <1>1, <1>2, FS_EmptySet DEF KicksCounted
<1>5. BudgetKept'
  BY <1>1, <1>3 DEF BudgetKept
<1>6. QED
  BY <1>1, <1>4, <1>5 DEF BudgetInv, BudgetLeft

\* Every step keeps the counters in line with the calls.
LEMMA NextBudget == TypeOK /\ CallsPast /\ BudgetInv /\ [Next]_vars => BudgetInv'
<1> SUFFICES ASSUME TypeOK, CallsPast, BudgetInv, [Next]_vars PROVE BudgetInv'
  OBVIOUS
<1> USE DEF process, observers, world
<1>1. CASE UNCHANGED vars \/ Tick
  BY <1>1, BudgetIdle DEF vars, Tick
<1>2. CASE HandleStep
  BY <1>2, HandleBudget DEF HandleStep
<1>3. CASE Fault /\ ~SampleFails
  <2>1. at' = "sleep" /\ UNCHANGED <<epoch, kicks, lived>>
    BY <1>3 DEF Fault, WireFails, StoreFails, Propagate, Raise
  <2>2. CASE WireFails
    <3>1. PICK mech : wire' = Append(wire, Call(mech, FALSE))
      BY <2>2 DEF WireFails
    <3>2. ~Call(mech, FALSE).ok
      BY DEF Call
    <3>3. QED
      BY <2>1, <3>1, <3>2, BudgetNoKick
  <2>3. CASE StoreFails
    BY <2>1, <2>3, BudgetIdle DEF StoreFails
  <2>4. QED
    BY <1>3, <2>2, <2>3 DEF Fault
<1>4. CASE Scan /\ ~HandleStep /\ ~(Fault /\ ~SampleFails)
  <2>1. UNCHANGED <<wire, epoch, kicks>> /\ lived \subseteq lived'
        /\ at' \notin {"ledger_read", "wire"}
    BY <1>4
    DEF Scan, Fault, BeginCycle, ClientPolled, DetectRf, DetectInactivity, Detect,
        DnsObserved, DnsNext, EndCycle, SampleFails, Raise, StartHandle
  <2>2. QED
    BY <2>1, BudgetIdle
<1>5. ASSUME NEW c \in Configs, Reload(c) PROVE BudgetInv'
  BY <1>5, BudgetIdle DEF Reload
<1>6. ASSUME NEW c \in Configs, Restart(c) PROVE BudgetInv'
  BY <1>6, RestartBudget
<1>7. QED
  BY <1>1, <1>2, <1>3, <1>4, <1>5, <1>6 DEF Next

\* PRD quarantine_after_kicks (actor.py handle): within one process no client is sent more
\* accepted fresh kicks than the budget of a configuration in force, whatever is reloaded
\* between the gate and the call.
THEOREM BudgetCorrect == Spec => []QuarantineBudget
<1>1. Init => BudgetInv
  <2>1. SUFFICES ASSUME Init PROVE BudgetInv
    OBVIOUS
  <2>2. /\ wire = << >> /\ at = "sleep" /\ kicks = [m \in Macs |-> 0]
        /\ cfg \in lived /\ cfg \in Configs
    BY <2>1 DEF Init, Boot, FreshProcess
  <2>3. \A m \in Macs : Kicked(m) = {}
    BY <2>2 DEF Kicked
  <2>4. cfg.quarantineAfter \in Nat
    BY <2>2, ConfigAssumption DEF ConfigType
  <2>5. KicksCounted
    BY <2>2, <2>3, FS_EmptySet DEF KicksCounted
  <2>6. QED
    BY <2>2, <2>4, <2>5 DEF BudgetInv, BudgetKept, BudgetLeft
<1>2. BudgetInv => QuarantineBudget
  BY DEF BudgetInv, QuarantineBudget, KicksCounted, BudgetKept, Kicked
<1>3. SpacingInv => CallsPast
  BY DEF SpacingInv
<1>4. QED
  BY <1>1, <1>2, <1>3, NextBudget, SpacingAlways, TypeCorrect, PTL DEF Spec

\* db.py:435-439, for any ledger: where the limiter is open, a client that the per-client
\* policy defers has a logical kick on record; dry runs and fallbacks defer nobody.
THEOREM DeferralCorrect == Spec => DeferralEarned
<1> DEFINE Earned ==
      (/\ at = "ledger_read" /\ at' = Resume(frame.trigger)
       /\ GlobalClear(lastKick, now, cfg.minGap)
       /\ PerApClear(perAp[frame.ap], now, cfg.apCap, cfg.apWindow))
      => \E k \in DOMAIN ledger : LogicalKick(k) /\ ledger[k].mac = frame.mac
<1>1. ASSUME TypeOK, [Next]_vars PROVE Earned
  <2>1. SUFFICES ASSUME at = "ledger_read", at' = Resume(frame.trigger),
                        GlobalClear(lastKick, now, cfg.minGap),
                        PerApClear(perAp[frame.ap], now, cfg.apCap, cfg.apWindow)
                 PROVE  \E k \in DOMAIN ledger : LogicalKick(k) /\ ledger[k].mac = frame.mac
    OBVIOUS
  <2>2. frame.trigger \in Triggers /\ InHandle
    BY <1>1, <2>1 DEF TypeOK, ControlOK, FrameType, InHandle, HandleAwaits
  <2>3. at' \in {"idled", "sample", "flagged"}
    BY <2>1, <2>2, ResumeType
  <2>4. LedgerRead
    BY <1>1, <2>1, <2>3
    DEF Next, Scan, HandleStep, Handle, Fault, HandleDryRun, DryRunWritten, HandleQuarantine,
        QuarantineNotified, HandleFallback, FallbackSent, FallbackWritten, HandleFresh,
        KickSent, KickWritten, KickNotified, WireFails, StoreFails, Raise, BeginCycle,
        ClientPolled, DetectRf, DetectInactivity, Detect, DnsObserved, DnsNext, EndCycle,
        SampleFails, Tick, Reload, Restart, vars
  <2>5. ~PolicyAllows
    BY <2>1, <2>3, <2>4 DEF LedgerRead, LimiterGate
  <2> DEFINE since == frame.time - Lookback(frame.cf.cooldowns)
             recent == RecentKicks(frame.mac, since)
  <2>6. \E t : Since(recent, t) # {}
    <3>1. \A cap \in Nat : \A window : CapReached(recent, frame.time, cap, window) =>
            Since(recent, frame.time - window) # {}
      BY FS_EmptySet DEF CapReached
    <3>2. \A s : CoolingDown(recent, frame.time, s) =>
            Since(recent, frame.time - LargestRung(s)) # {}
      BY DEF CoolingDown
    <3>3. frame.cf.perHour[frame.mac] \in Nat /\ frame.cf.perDay[frame.mac] \in Nat
      BY <1>1, <2>2, ConfigAssumption DEF TypeOK, ControlOK, FrameType, ConfigType
    <3> HIDE DEF recent
    <3>4. QED
      BY <2>5, <3>1, <3>2, <3>3 DEF PolicyAllows, BackoffAllows, recent
  <2>7. PICK k \in DOMAIN recent : TRUE
    BY <2>6 DEF Since
  <2>8. k \in DOMAIN ledger /\ LogicalKick(k) /\ ledger[k].mac = frame.mac
    BY DEF RecentKicks, LogicalKick
  <2>9. QED
    BY <2>8
<1>2. QED
  BY <1>1, TypeCorrect, PTL DEF Spec, DeferralEarned

----------------------------------------------------------------------------
(* The loop makes attempts as ADR-0003 promises them: every step of        *)
(* ScanLoop is a step of Attempts or leaves the attempts as they are.      *)
(*                                                                         *)
(* A fallback is sent under a group and an access point that handle read   *)
(* before an await.  AttemptInv says that they are still those of the      *)
(* pending BTM when the answer comes, that a fresh kick still has none on  *)
(* its access point, and that its group is new.                            *)
(*                                                                         *)
(* From it follow what the records of the attempts say: that a row of the  *)
(* audit trail stands for a call (AuditInv follows a call to its row), that*)
(* a verdict is about the last call (VerdictInv follows a call to the poll *)
(* that judges it), and how a pending BTM ends (SettleInv).                *)

GroupsKnown == \A i \in DOMAIN wire : wire[i].group <= groups

PendingKnown ==
  \A m \in Macs : btm[m] = NoBtm \/ (btm[m].group \in 1..groups /\ btm[m].ap \in Aps)

FallbackPending ==
  at \in {"fallback_wire", "fallback_insert"} =>
    AwaitingRoam /\ btm[frame.mac].group = frame.group

FreshAlone ==
  /\ at \in {"ledger_read", "wire"} => ~AwaitingRoam
  /\ at = "wire" => /\ frame.group = groups /\ groups \in Nat \ {0}
                    /\ \A i \in DOMAIN wire : wire[i].group # frame.group

AttemptInv == GroupsKnown /\ PendingKnown /\ FallbackPending /\ FreshAlone

\* A step of the loop, seen as one of the attempts.
Attempted == [A!Next]_<<Attempting, SentCalls>>

\* A call adds itself to the calls sent if it is accepted, and nothing if it is not.
LEMMA SentGrows ==
  ASSUME TypeOK, NEW w, wire' = Append(wire, w)
  PROVE  SentCalls' = IF w.ok THEN SentCalls \cup {AcceptedCall(w)} ELSE SentCalls
BY Appended DEF SentCalls

\* A call under a group that was drawn.
LEMMA GroupsGrow ==
  ASSUME TypeOK, AttemptInv, NEW w, wire' = Append(wire, w), w.group <= groups,
         UNCHANGED groups
  PROVE  GroupsKnown'
BY Appended DEF AttemptInv, GroupsKnown

\* Nothing is sent, nothing pends anew and no call is about to be made.
LEMMA QuietAttempt ==
  ASSUME TypeOK, AttemptInv, UNCHANGED <<btm, wire, groups>>, at # "fallback_insert",
         at' \notin {"wire", "fallback_wire", "fallback_insert", "ledger_read"}
  PROVE  AttemptInv' /\ Attempted
<1>1. UNCHANGED <<Attempting, SentCalls>>
  BY DEF Attempting, OpenAttempt, SentCalls
<1>2. AttemptInv'
  BY DEF AttemptInv, GroupsKnown, PendingKnown, FallbackPending, FreshAlone
<1>3. QED
  BY <1>1, <1>2 DEF Attempted

\* The loop stays where it is.
LEMMA SameAttempt ==
  ASSUME TypeOK, AttemptInv, UNCHANGED <<btm, wire, groups, at, frame>>
  PROVE  AttemptInv' /\ Attempted
<1>1. UNCHANGED <<Attempting, SentCalls>>
  BY DEF Attempting, OpenAttempt, SentCalls
<1>2. AttemptInv'
  BY DEF AttemptInv, GroupsKnown, PendingKnown, FallbackPending, FreshAlone, AwaitingRoam
<1>3. QED
  BY <1>1, <1>2 DEF Attempted

\* handle returns, or raises, before anything was sent.
LEMMA LeaveAttempt ==
  ASSUME TypeOK, AttemptInv, InHandle, Return \/ Raise,
         UNCHANGED <<btm, wire, groups>>, at # "fallback_insert"
  PROVE  AttemptInv' /\ Attempted
<1>1. frame.trigger \in Triggers
  BY DEF TypeOK, ControlOK, FrameType
<1>2. at' \in {"idled", "sample", "flagged", "sleep"}
  BY <1>1, ResumeType DEF Return, Raise
<1>3. QED
  BY <1>2, QuietAttempt

\* The limiter draws a group that no call has, or ends the call.
LEMMA LimiterAttempt ==
  ASSUME TypeOK, AttemptInv, InHandle, LimiterGate, ~AwaitingRoam,
         at \in {"entry", "ledger_read"}, UNCHANGED <<btm, wire>>
  PROVE  AttemptInv' /\ Attempted
<1>1. CASE Return /\ UNCHANGED groups
  BY <1>1, LeaveAttempt
<1>2. CASE /\ groups' = groups + 1 /\ at' = "wire"
           /\ frame' = [frame EXCEPT !.group = groups + 1]
  <2>1. frame'.group = groups + 1 /\ frame'.mac = frame.mac /\ frame'.ap = frame.ap
    BY <1>2 DEF TypeOK, ControlOK, FrameType
  <2>2. UNCHANGED <<Attempting, SentCalls>>
    BY <1>2 DEF Attempting, OpenAttempt, SentCalls
  <2>3. GroupsKnown' /\ PendingKnown'
    BY <1>2, CallFields DEF AttemptInv, GroupsKnown, PendingKnown
  <2>4. FallbackPending' /\ FreshAlone'
    BY <1>2, <2>1, CallFields DEF AttemptInv, GroupsKnown, FallbackPending, FreshAlone,
       AwaitingRoam
  <2>5. QED
    BY <2>2, <2>3, <2>4 DEF AttemptInv, Attempted
<1>3. QED
  BY <1>1, <1>2 DEF LimiterGate

\* A BTM opens an attempt and a deauth makes one.
LEMMA KickAttempt ==
  ASSUME TypeOK, AttemptInv, KickSent
  PROVE  AttemptInv' /\ Attempted
<1> DEFINE mech == Mechanism(frame.cf, frame.mac)
           m == frame.mac
           ap == frame.ap
           g == frame.group
<1>1. /\ at = "wire" /\ at' = "insert" /\ InHandle
      /\ wire' = Append(wire, Call(mech, TRUE))
      /\ btm' = IF mech = "btm" THEN [btm EXCEPT ![m] = [group |-> g, ap |-> ap]] ELSE btm
      /\ UNCHANGED groups
  BY DEF KickSent, InHandle, HandleAwaits
<1>2. /\ m \in Macs /\ ap \in Aps /\ g \in 1..groups /\ g # 0
      /\ \A i \in DOMAIN wire : wire[i].group # g
      /\ btm[m].group = 0 \/ btm[m].ap # ap
  BY <1>1, CallFields DEF AttemptInv, FreshAlone, AwaitingRoam
<1>3. SentCalls' = SentCalls \cup {A!Calls(m, ap, mech, g)}
  BY <1>1, SentGrows DEF Call, AcceptedCall, A!Calls
<1>4. A!New(g)
  BY <1>2 DEF A!New, SentCalls, AcceptedCall
<1>5. A!Open(m) => Attempting[m].ap # ap
  <2>1. Attempting[m] = [group |-> btm[m].group, ap |-> btm[m].ap, spent |-> FALSE]
    BY <1>1, <1>2 DEF Attempting, OpenAttempt
  <2>2. CASE btm[m].ap # ap
    BY <2>1, <2>2
  <2>3. CASE btm[m].group = 0
    <3>1. btm[m] = NoBtm
      BY <1>2, <2>3 DEF AttemptInv, PendingKnown
    <3>2. Attempting[m] = NoAttempt
      BY <2>1, <3>1 DEF NoBtm, NoAttempt
    <3>3. QED
      BY <3>2 DEF A!Open
  <2>4. QED
    BY <1>2, <2>2, <2>3
<1>6. Attempted
  <2>1. CASE mech = "btm"
    <3>1. Attempting' = [Attempting EXCEPT ![m] = [group |-> g, ap |-> ap, spent |-> FALSE]]
      BY <1>1, <1>2, <2>1, CallFields DEF Attempting, OpenAttempt
    <3>2. A!Ask(m, ap, g)
      BY <1>3, <1>4, <1>5, <2>1, <3>1 DEF A!Ask
    <3>3. QED
      BY <1>2, <3>2 DEF Attempted, A!Next
  <2>2. CASE mech = "deauth"
    <3>1. Attempting' = Attempting
      BY <1>1, <2>2 DEF Attempting, OpenAttempt
    <3>2. A!Force(m, ap, g)
      BY <1>3, <1>4, <1>5, <2>2, <3>1 DEF A!Force
    <3>3. QED
      BY <1>2, <3>2 DEF Attempted, A!Next
  <2>3. QED
    BY <2>1, <2>2, MechanismType DEF FreshMechanisms
<1>7. GroupsKnown'
  <2>1. Call(mech, TRUE).group = g /\ g <= groups
    BY <1>2, CallFields DEF Call
  <2>2. QED
    BY <1>1, <2>1, GroupsGrow
<1>8. PendingKnown'
  BY <1>1, <1>2, CallFields DEF AttemptInv, PendingKnown
<1>9. QED
  BY <1>1, <1>6, <1>7, <1>8 DEF AttemptInv, FallbackPending, FreshAlone

\* The fallback is accepted: the attempt it belongs to is spent.
LEMMA FallbackAttempt ==
  ASSUME TypeOK, AttemptInv, FallbackSent
  PROVE  AttemptInv' /\ Attempted
<1> DEFINE m == frame.mac
<1>1. /\ at = "fallback_wire" /\ at' = "fallback_insert" /\ InHandle
      /\ wire' = Append(wire, Call("deauth_fallback", TRUE))
      /\ frame' = [frame EXCEPT !.time = now]
      /\ UNCHANGED <<btm, groups>>
  BY DEF FallbackSent, InHandle, HandleAwaits
<1>2. /\ frame'.mac = m /\ frame'.ap = frame.ap /\ frame'.group = frame.group
      /\ m \in Macs
  BY <1>1, CallFields DEF TypeOK, ControlOK, FrameType
<1>3. /\ btm[m].group = frame.group /\ btm[m].ap = frame.ap
      /\ frame.group # 0 /\ btm[m].group \in 1..groups
  BY <1>1, <1>2 DEF AttemptInv, FallbackPending, AwaitingRoam, PendingKnown, NoBtm
<1>4. Attempting[m] = [group |-> frame.group, ap |-> frame.ap, spent |-> FALSE]
  BY <1>1, <1>2, <1>3 DEF Attempting, OpenAttempt
<1>5. Attempting' = [Attempting EXCEPT ![m].spent = TRUE]
  BY <1>1, <1>2 DEF Attempting, OpenAttempt
<1>6. SentCalls' = SentCalls \cup {A!Calls(m, frame.ap, "deauth_fallback", frame.group)}
  BY <1>1, SentGrows DEF Call, AcceptedCall, A!Calls
<1>7. A!FallBack(m)
  BY <1>3, <1>4, <1>5, <1>6 DEF A!FallBack, A!Open, NoAttempt
<1>8. GroupsKnown'
  <2>1. Call("deauth_fallback", TRUE).group = frame.group
    BY DEF Call
  <2>2. frame.group <= groups
    BY <1>3, CallFields
  <2>3. QED
    BY <1>1, <2>1, <2>2, GroupsGrow
<1>9. QED
  BY <1>1, <1>2, <1>3, <1>7, <1>8
  DEF AttemptInv, PendingKnown, FallbackPending, FreshAlone, AwaitingRoam, Attempted, A!Next

\* An attempt that pends no more is settled.
LEMMA SettleAttempt ==
  ASSUME TypeOK, AttemptInv, NEW m \in Macs, ClearBtm(m), UNCHANGED <<wire, groups>>,
         \A k \in Macs : at = "fallback_insert" /\ frame.mac = k => k = m,
         at' \in {"scored", "idled", "sample", "flagged", "sleep"}
  PROVE  AttemptInv' /\ Attempted
<1>1. Attempting' = [Attempting EXCEPT ![m] = NoAttempt] /\ UNCHANGED SentCalls
  BY CallFields DEF ClearBtm, Attempting, OpenAttempt, NoAttempt, NoBtm, SentCalls
<1>2. Attempted
  <2>1. CASE Attempting[m] = NoAttempt
    BY <1>1, <2>1 DEF Attempted, Attempting
  <2>2. CASE Attempting[m] # NoAttempt
    BY <1>1, <2>2 DEF Attempted, A!Next, A!Settle, A!Open
  <2>3. QED
    BY <2>1, <2>2
<1>3. PendingKnown'
  BY CallFields DEF AttemptInv, PendingKnown, ClearBtm
<1>4. QED
  BY <1>2, <1>3 DEF AttemptInv, GroupsKnown, FallbackPending, FreshAlone

\* The steps of one handle call.
LEMMA HandleAttempt ==
  ASSUME TypeOK, AttemptInv, Handle
  PROVE  AttemptInv' /\ Attempted
<1>0. InHandle
  BY DEF InHandle, HandleAwaits, Handle, HandleDryRun, DryRunWritten, HandleQuarantine,
     QuarantineNotified, HandleFallback, FallbackSent, FallbackWritten, HandleFresh,
     LedgerRead, KickSent, KickWritten, KickNotified
<1>r. Return => at' \in {"idled", "sample", "flagged"}
  <2>1. frame.trigger \in Triggers
    BY <1>0 DEF TypeOK, ControlOK, FrameType
  <2>2. QED
    BY <2>1, ResumeType DEF Return
<1>1. CASE HandleDryRun \/ HandleQuarantine \/ KickWritten
  BY <1>1, <1>r, QuietAttempt DEF HandleDryRun, HandleQuarantine, KickWritten, process
<1>2. CASE DryRunWritten \/ QuarantineNotified \/ KickNotified
  BY <1>0, <1>2, LeaveAttempt DEF DryRunWritten, QuarantineNotified, KickNotified, process
<1>3. CASE HandleFallback
  <2>1. UNCHANGED <<btm, wire, groups>> /\ at = "entry" /\ AwaitingRoam
    BY <1>3 DEF HandleFallback, process
  <2>2. CASE Return
    BY <1>0, <2>1, <2>2, LeaveAttempt
  <2>3. CASE ~Return
    <3>1. at' = "fallback_wire" /\ frame' = [frame EXCEPT !.group = btm[frame.mac].group]
      BY <1>3, <2>3 DEF HandleFallback
    <3>2. frame'.group = btm[frame.mac].group /\ frame'.mac = frame.mac
          /\ frame'.ap = frame.ap
      BY <1>0, <3>1 DEF TypeOK, ControlOK, FrameType
    <3>3. UNCHANGED <<Attempting, SentCalls>>
      BY <2>1, <3>1 DEF Attempting, OpenAttempt, SentCalls
    <3>4. QED
      BY <2>1, <3>1, <3>2, <3>3
      DEF Attempted, AttemptInv, GroupsKnown, PendingKnown, FallbackPending, FreshAlone,
          AwaitingRoam
  <2>4. QED
    BY <2>2, <2>3
<1>4. CASE FallbackSent
  BY <1>4, FallbackAttempt
<1>5. CASE FallbackWritten
  BY <1>0, <1>5, <1>r, SettleAttempt, CallFields DEF FallbackWritten
<1>6. CASE HandleFresh
  <2>1. UNCHANGED <<btm, wire>> /\ at = "entry" /\ ~AwaitingRoam
    BY <1>6 DEF HandleFresh
  <2>2. CASE LimiterGate
    BY <1>0, <2>1, <2>2, LimiterAttempt
  <2>3. CASE ~LimiterGate
    <3>1. at' = "ledger_read" /\ UNCHANGED <<frame, groups>>
      BY <1>6, <2>3 DEF HandleFresh
    <3>2. UNCHANGED <<Attempting, SentCalls>>
      BY <2>1, <3>1 DEF Attempting, OpenAttempt, SentCalls
    <3>3. QED
      BY <2>1, <3>1, <3>2
      DEF Attempted, AttemptInv, GroupsKnown, PendingKnown, FallbackPending, FreshAlone,
          AwaitingRoam
  <2>4. QED
    BY <2>2, <2>3
<1>7. CASE LedgerRead
  <2>1. UNCHANGED <<btm, wire>> /\ at = "ledger_read" /\ ~AwaitingRoam
    BY <1>7 DEF LedgerRead, AttemptInv, FreshAlone
  <2>2. CASE LimiterGate
    BY <1>0, <2>1, <2>2, LimiterAttempt
  <2>3. CASE ~LimiterGate
    BY <1>0, <1>7, <2>1, <2>3, LeaveAttempt DEF LedgerRead
  <2>4. QED
    BY <2>2, <2>3
<1>8. CASE KickSent
  BY <1>8, KickAttempt
<1>9. QED
  BY <1>1, <1>2, <1>3, <1>4, <1>5, <1>6, <1>7, <1>8 DEF Handle

\* A call or a store that raises: nothing was accepted.  A fallback without a record
\* is forgotten with its cycle.
LEMMA FaultAttempt ==
  ASSUME TypeOK, AttemptInv, WireFails \/ StoreFails
  PROVE  AttemptInv' /\ Attempted
<1>1. InHandle /\ Raise /\ UNCHANGED <<btm, groups>>
  BY DEF InHandle, HandleAwaits, WireFails, StoreFails, Propagate, process
<1>2. at' = "sleep" /\ frame' = NoFrame
  BY <1>1 DEF Raise
<1>3. CASE WireFails
  <2> DEFINE w == Call(IF at = "wire" THEN Mechanism(frame.cf, frame.mac)
                       ELSE "deauth_fallback", FALSE)
  <2>1. at \in {"wire", "fallback_wire"} /\ wire' = Append(wire, w)
    BY <1>3 DEF WireFails
  <2>2. ~w.ok /\ w.group = frame.group
    BY DEF Call
  <2>3. UNCHANGED <<Attempting, SentCalls>>
    BY <1>1, <1>2, <2>1, <2>2, SentGrows DEF Attempting, OpenAttempt
  <2>4. frame.group <= groups
    BY <1>1, <2>1, CallFields
    DEF AttemptInv, FreshAlone, FallbackPending, PendingKnown, AwaitingRoam, NoBtm
  <2>5. GroupsKnown'
    BY <1>1, <2>1, <2>2, <2>4, GroupsGrow
  <2>6. QED
    BY <1>1, <1>2, <2>3, <2>5
    DEF Attempted, AttemptInv, PendingKnown, FallbackPending, FreshAlone
<1>4. CASE StoreFails /\ at # "fallback_insert"
  BY <1>1, <1>4, LeaveAttempt DEF StoreFails
<1>5. CASE StoreFails /\ at = "fallback_insert"
  <2> DEFINE m == frame.mac
  <2>1. UNCHANGED wire /\ m \in Macs
    BY <1>1, <1>5, CallFields DEF StoreFails
  <2>2. Attempting[m].spent = TRUE /\ Attempting[m] # NoAttempt
    BY <1>5, <2>1 DEF Attempting, OpenAttempt, NoAttempt
  <2>3. Attempting' = [Attempting EXCEPT ![m].spent = FALSE] /\ UNCHANGED SentCalls
    BY <1>1, <1>2, <1>5, <2>1 DEF Attempting, OpenAttempt, SentCalls
  <2>4. A!Forget(m)
    BY <1>2, <2>2, <2>3 DEF A!Forget, A!Open
  <2>5. QED
    BY <1>1, <1>2, <2>1, <2>4
    DEF Attempted, A!Next, AttemptInv, GroupsKnown, PendingKnown, FallbackPending, FreshAlone
<1>6. QED
  BY <1>3, <1>4, <1>5

\* The steps of the loop around handle.
LEMMA LoopAttempt ==
  ASSUME TypeOK, AttemptInv, Scan, ~HandleStep,
         ~(WireFaults /\ WireFails), ~(StoreFaults /\ StoreFails)
  PROVE  AttemptInv' /\ Attempted
<1>1. CASE BeginCycle \/ EndCycle \/ SampleFails
  BY <1>1, QuietAttempt DEF BeginCycle, EndCycle, SampleFails, Raise, process
<1>2. ASSUME NEW m \in Macs, NEW ap \in Aps, ClientPolled(m, ap)
      PROVE  AttemptInv' /\ Attempted
  <2>1. at = "sample" /\ at' = "scored" /\ UNCHANGED <<wire, groups>>
    BY <1>2 DEF ClientPolled
  <2>2. CASE ClearBtm(m)
    BY <2>1, <2>2, SettleAttempt
  <2>3. CASE UNCHANGED btm
    BY <2>1, <2>3, QuietAttempt
  <2>4. QED
    BY <1>2, <2>2, <2>3 DEF ClientPolled, CheckPostKickOutcome
<1>3. CASE DetectRf \/ DetectInactivity
  BY <1>3, QuietAttempt DEF DetectRf, DetectInactivity, Detect, StartHandle, process
<1>4. ASSUME NEW F \in SUBSET Macs, DnsObserved(F)
      PROVE  AttemptInv' /\ Attempted
  BY <1>4, QuietAttempt DEF DnsObserved, process
<1>5. ASSUME NEW m \in Macs, DnsNext(m)
      PROVE  AttemptInv' /\ Attempted
  BY <1>5, QuietAttempt DEF DnsNext, StartHandle, process
<1>6. QED
  BY <1>1, <1>2, <1>3, <1>4, <1>5 DEF Scan, Fault

\* Every step of the loop is a step of an attempt, or none.
LEMMA NextAttempt ==
  ASSUME TypeOK, AttemptInv, [Next]_vars
  PROVE  AttemptInv' /\ Attempted
<1>1. CASE UNCHANGED vars \/ Tick
  BY <1>1, SameAttempt DEF vars, process, Tick
<1>2. ASSUME NEW c \in Configs, Reload(c)
      PROVE  AttemptInv' /\ Attempted
  BY <1>2, SameAttempt DEF Reload, process
<1>3. ASSUME NEW c \in Configs, Restart(c)
      PROVE  AttemptInv' /\ Attempted
  <2>1. /\ btm' = [m \in Macs |-> NoBtm] /\ at' = "sleep"
        /\ UNCHANGED <<wire, groups>>
    BY <1>3 DEF Restart, FreshProcess
  <2>2. Attempting' = [m \in Macs |-> NoAttempt] /\ UNCHANGED SentCalls
    BY <2>1 DEF Attempting, OpenAttempt, SentCalls, NoBtm, NoAttempt
  <2>3. A!Restart
    BY <2>2 DEF A!Restart
  <2>4. QED
    BY <2>1, <2>3
    DEF Attempted, A!Next, AttemptInv, GroupsKnown, PendingKnown, FallbackPending, FreshAlone
<1>4. CASE Scan
  <2>1. CASE HandleStep
    BY <2>1, HandleAttempt DEF HandleStep
  <2>2. CASE (WireFaults /\ WireFails) \/ (StoreFaults /\ StoreFails)
    BY <2>2, FaultAttempt
  <2>3. QED
    BY <1>4, <2>1, <2>2, LoopAttempt
<1>5. QED
  BY <1>1, <1>2, <1>3, <1>4 DEF Next

\* A daemon that has just started has made no attempt.
LEMMA InitAttempt == Init => AttemptInv /\ A!Init
<1> SUFFICES ASSUME Init PROVE AttemptInv /\ A!Init
  OBVIOUS
<1>1. btm = [m \in Macs |-> NoBtm] /\ wire = << >> /\ at = "sleep" /\ groups = 0
  BY DEF Init, Boot, FreshProcess
<1>2. DOMAIN wire = {}
  BY <1>1
<1>3. Attempting = [m \in Macs |-> NoAttempt] /\ SentCalls = {}
  BY <1>1, <1>2 DEF Attempting, OpenAttempt, SentCalls, NoBtm, NoAttempt
<1>4. QED
  BY <1>1, <1>2, <1>3
  DEF A!Init, AttemptInv, GroupsKnown, PendingKnown, FallbackPending, FreshAlone

\* ADR-0003, for any clients, access points, configurations and bounds: the scan loop
\* with its faults, reloads and restarts implements the attempts of module Attempts
\* (actor.py handle and check_post_kick_outcome, pending.py).
THEOREM AttemptsCorrect == Spec => MakesAttempts
<1>1. TypeOK /\ AttemptInv /\ [Next]_vars => AttemptInv' /\ [A!Next]_<<Attempting, SentCalls>>
  BY NextAttempt DEF Attempted
<1>2. QED
  BY <1>1, InitAttempt, TypeCorrect, PTL DEF Spec, A!Spec, MakesAttempts

----------------------------------------------------------------------------
(* The audit trail: every row stands for a call that was accepted.         *)

\* The accepted call whose row is being written is the last one, and has no row yet.
Recording == at \in {"insert", "fallback_insert"}

SentAs == IF at = "insert" THEN Mechanism(frame.cf, frame.mac) ELSE "deauth_fallback"

SentCall ==
  [mac |-> frame.mac, ap |-> frame.ap, mechanism |-> SentAs, group |-> frame.group,
   at |-> frame.time]

LastSent ==
  LET w == wire[Len(wire)]
  IN  [mac |-> w.mac, ap |-> w.ap, mechanism |-> w.mechanism, group |-> w.group, at |-> w.at]

JustSent ==
  Recording =>
    /\ Len(wire) # 0 /\ wire[Len(wire)].ok /\ LastSent = SentCall
    /\ Cardinality(RowsOf(frame.group, SentAs)) <
         Cardinality(AcceptedCalls(frame.group, SentAs))

RowsCounted ==
  \A g, mech : Cardinality(RowsOf(g, mech)) <= Cardinality(AcceptedCalls(g, mech))

RowsBacked ==
  \A k \in DOMAIN ledger : ~ledger[k].dry =>
    \E i \in AcceptedCalls(ledger[k].group, ledger[k].mechanism) :
      wire[i].mac = ledger[k].mac /\ wire[i].at = ledger[k].ts

AuditInv == JustSent /\ RowsCounted /\ RowsBacked

\* The rows and the calls of a group are finitely many.
LEMMA AuditFinite ==
  ASSUME TypeOK, NEW g, NEW mech
  PROVE  /\ IsFiniteSet(RowsOf(g, mech)) /\ Cardinality(RowsOf(g, mech)) \in Nat
         /\ IsFiniteSet(AcceptedCalls(g, mech)) /\ Cardinality(AcceptedCalls(g, mech)) \in Nat
<1>1. ledger \in Seq(RowType) /\ wire \in Seq(CallType)
  BY DEF TypeOK, RecordOK
<1>2. RowsOf(g, mech) \in SUBSET DOMAIN ledger /\ AcceptedCalls(g, mech) \in SUBSET DOMAIN wire
  BY DEF RowsOf, AcceptedCalls
<1>3. QED
  BY <1>1, <1>2, PositionsFinite

\* No row is written and no call is made.
LEMMA AuditIdle ==
  ASSUME TypeOK, AuditInv, UNCHANGED <<wire, ledger>>,
         ~Recording' \/ UNCHANGED <<at, frame>>
  PROVE  AuditInv'
<1>1. \A g, mech : /\ RowsOf(g, mech)' = RowsOf(g, mech)
                   /\ AcceptedCalls(g, mech)' = AcceptedCalls(g, mech)
  BY DEF RowsOf, AcceptedCalls
<1>2. RowsCounted'
  BY <1>1 DEF AuditInv, RowsCounted
<1>3. RowsBacked'
  BY <1>1 DEF AuditInv, RowsBacked
<1>4. JustSent'
  <2>1. CASE ~Recording'
    BY <2>1 DEF JustSent
  <2>2. CASE UNCHANGED <<at, frame>>
    <3>1. PICK g, mech : g = frame.group /\ mech = SentAs
      OBVIOUS
    <3>2. g = frame'.group /\ mech = SentAs' /\ (Recording' <=> Recording)
          /\ SentCall' = SentCall /\ LastSent' = LastSent
      BY <2>2, <3>1 DEF SentAs, Recording, SentCall, LastSent
    <3>3. QED
      BY <1>1, <3>1, <3>2 DEF AuditInv, JustSent
  <2>3. QED
    BY <2>1, <2>2
<1>5. QED
  BY <1>2, <1>3, <1>4 DEF AuditInv

\* A call is made; if it is accepted, its row is written next.
LEMMA AuditCall ==
  ASSUME TypeOK, AuditInv, NEW w, wire' = Append(wire, w), UNCHANGED ledger,
         Recording' => /\ w.ok
                       /\ SentCall' = [mac |-> w.mac, ap |-> w.ap, mechanism |-> w.mechanism,
                                       group |-> w.group, at |-> w.at]
  PROVE  AuditInv'
<1>1. PICK n : n = Len(wire) + 1
  OBVIOUS
<1>2. /\ DOMAIN wire' = DOMAIN wire \cup {n} /\ wire'[n] = w /\ n \notin DOMAIN wire
      /\ \A i \in DOMAIN wire : wire'[i] = wire[i]
  BY <1>1, Appended
<1>3. \A g, mech : RowsOf(g, mech)' = RowsOf(g, mech)
  BY DEF RowsOf
<1>4. \A g, mech : AcceptedCalls(g, mech)' =
         IF w.ok /\ w.group = g /\ w.mechanism = mech
         THEN AcceptedCalls(g, mech) \cup {n} ELSE AcceptedCalls(g, mech)
  BY <1>2 DEF AcceptedCalls
<1>5. ASSUME NEW g, NEW mech
      PROVE  Cardinality(AcceptedCalls(g, mech)') = Cardinality(AcceptedCalls(g, mech)) +
               (IF w.ok /\ w.group = g /\ w.mechanism = mech THEN 1 ELSE 0)
  <2>1. /\ IsFiniteSet(AcceptedCalls(g, mech)) /\ Cardinality(AcceptedCalls(g, mech)) \in Nat
        /\ n \notin AcceptedCalls(g, mech)
    <3>1. n \notin AcceptedCalls(g, mech)
      BY <1>2 DEF AcceptedCalls
    <3>2. QED
      BY <3>1, AuditFinite
  <2>2. Cardinality(AcceptedCalls(g, mech) \cup {n}) = Cardinality(AcceptedCalls(g, mech)) + 1
    BY <2>1, FS_AddElement
  <2>3. CASE w.ok /\ w.group = g /\ w.mechanism = mech
    <3>1. AcceptedCalls(g, mech)' = AcceptedCalls(g, mech) \cup {n}
      BY <1>4, <2>3
    <3>2. QED
      BY <2>2, <2>3, <3>1
  <2>4. CASE ~(w.ok /\ w.group = g /\ w.mechanism = mech)
    <3>1. AcceptedCalls(g, mech)' = AcceptedCalls(g, mech)
      BY <1>4, <2>4
    <3>2. QED
      BY <2>1, <2>4, <3>1
  <2>5. QED
    BY <2>3, <2>4
<1>6. RowsCounted'
  BY <1>3, <1>5, AuditFinite DEF AuditInv, RowsCounted
<1>7. RowsBacked'
  <2>1. \A g, mech : AcceptedCalls(g, mech) \subseteq AcceptedCalls(g, mech)'
    BY <1>4
  <2>2. \A g, mech : \A i \in AcceptedCalls(g, mech) : wire'[i] = wire[i]
    BY <1>2 DEF AcceptedCalls
  <2>3. ASSUME NEW k \in DOMAIN ledger, ~ledger[k].dry
        PROVE  \E i \in AcceptedCalls(ledger[k].group, ledger[k].mechanism)' :
                 wire'[i].mac = ledger[k].mac /\ wire'[i].at = ledger[k].ts
    <3>1. PICK g, mech : g = ledger[k].group /\ mech = ledger[k].mechanism
      OBVIOUS
    <3>2. PICK i \in AcceptedCalls(g, mech) :
            wire[i].mac = ledger[k].mac /\ wire[i].at = ledger[k].ts
      BY <2>3, <3>1 DEF AuditInv, RowsBacked
    <3>3. i \in AcceptedCalls(g, mech)' /\ wire'[i] = wire[i]
      BY <2>1, <2>2
    <3>4. QED
      BY <3>1, <3>2, <3>3
  <2>4. QED
    BY <2>3 DEF RowsBacked
<1>8. JustSent'
  <2>1. SUFFICES ASSUME Recording' PROVE JustSent'
    BY DEF JustSent
  <2>2. PICK g, mech : g = w.group /\ mech = w.mechanism
    OBVIOUS
  <2>3. frame'.group = g /\ SentAs' = mech
    BY <2>1, <2>2 DEF SentCall
  <2>4. Cardinality(RowsOf(g, mech)') < Cardinality(AcceptedCalls(g, mech)')
    BY <1>3, <1>5, <2>1, <2>2, AuditFinite DEF AuditInv, RowsCounted
  <2>5. Len(wire') = n /\ n # 0
    BY <1>1, CallFields, AppendProperties
  <2>6. LastSent' = SentCall' /\ wire'[Len(wire')].ok
    BY <1>2, <2>1, <2>5 DEF LastSent
  <2>7. QED
    BY <2>3, <2>4, <2>5, <2>6 DEF JustSent
<1>9. QED
  BY <1>6, <1>7, <1>8 DEF AuditInv

\* A row is written: for a dry run, or for the call that was just accepted.
LEMMA AuditRow ==
  ASSUME TypeOK, AuditInv, UNCHANGED wire, ~Recording',
         NEW r \in RowType, ledger' = Append(ledger, r),
         r.dry \/ (Recording /\ r = Row(SentAs))
  PROVE  AuditInv'
<1>1. ledger \in Seq(RowType)
  BY DEF TypeOK, RecordOK
<1>2. PICK n : n = Len(ledger) + 1
  OBVIOUS
<1>3. /\ DOMAIN ledger' = DOMAIN ledger \cup {n} /\ ledger'[n] = r /\ n \notin DOMAIN ledger
      /\ \A i \in DOMAIN ledger : ledger'[i] = ledger[i]
  BY <1>1, <1>2, LenProperties, AppendProperties
<1>4. \A g, mech : AcceptedCalls(g, mech)' = AcceptedCalls(g, mech)
  BY DEF AcceptedCalls
<1>5. \A g, mech : RowsOf(g, mech)' =
         IF ~r.dry /\ r.group = g /\ r.mechanism = mech
         THEN RowsOf(g, mech) \cup {n} ELSE RowsOf(g, mech)
  BY <1>3 DEF RowsOf
<1>6. RowsCounted'
  <2>1. SUFFICES ASSUME NEW g, NEW mech
                 PROVE  Cardinality(RowsOf(g, mech)') <= Cardinality(AcceptedCalls(g, mech))
    BY <1>4 DEF RowsCounted
  <2>2. /\ IsFiniteSet(RowsOf(g, mech)) /\ Cardinality(RowsOf(g, mech)) \in Nat
        /\ n \notin RowsOf(g, mech) /\ Cardinality(AcceptedCalls(g, mech)) \in Nat
    <3>1. n \notin RowsOf(g, mech)
      BY <1>3 DEF RowsOf
    <3>2. QED
      BY <3>1, AuditFinite
  <2>3. CASE ~r.dry /\ r.group = g /\ r.mechanism = mech
    <3>1. Recording /\ g = frame.group /\ mech = SentAs
      BY <2>3 DEF Row
    <3>2. Cardinality(RowsOf(g, mech)) < Cardinality(AcceptedCalls(g, mech))
      BY <3>1 DEF AuditInv, JustSent
    <3>3. Cardinality(RowsOf(g, mech) \cup {n}) = Cardinality(RowsOf(g, mech)) + 1
      BY <2>2, FS_AddElement
    <3>4. RowsOf(g, mech)' = RowsOf(g, mech) \cup {n}
      BY <1>5, <2>3
    <3>5. QED
      BY <2>2, <3>2, <3>3, <3>4
  <2>4. CASE ~(~r.dry /\ r.group = g /\ r.mechanism = mech)
    BY <1>5, <2>4 DEF AuditInv, RowsCounted
  <2>5. QED
    BY <2>3, <2>4
<1>7. RowsBacked'
  <2>1. SUFFICES ASSUME NEW k \in DOMAIN ledger', ~ledger'[k].dry
                 PROVE  \E i \in AcceptedCalls(ledger'[k].group, ledger'[k].mechanism) :
                          wire[i].mac = ledger'[k].mac /\ wire[i].at = ledger'[k].ts
    BY <1>4 DEF RowsBacked
  <2>2. CASE k \in DOMAIN ledger
    BY <1>3, <2>1, <2>2 DEF AuditInv, RowsBacked
  <2>3. CASE k = n
    <3>1. Recording /\ ledger'[k] = Row(SentAs)
      BY <1>3, <2>1, <2>3
    <3>2. PICK i : i = Len(wire)
      OBVIOUS
    <3>3. i \in DOMAIN wire /\ wire[i].ok /\ LastSent = SentCall
      BY <3>1, <3>2, CallFields DEF AuditInv, JustSent
    <3>4. /\ wire[i].mac = frame.mac /\ wire[i].mechanism = SentAs
          /\ wire[i].group = frame.group /\ wire[i].at = frame.time
      BY <3>2, <3>3 DEF LastSent, SentCall
    <3>5. QED
      BY <3>1, <3>3, <3>4 DEF Row, AcceptedCalls
  <2>4. QED
    BY <1>3, <2>1, <2>2, <2>3
<1>8. QED
  BY <1>6, <1>7 DEF AuditInv, JustSent

\* The steps of handle, by what they send and write.
LEMMA HandleAudit ==
  ASSUME TypeOK, AuditInv, Handle
  PROVE  AuditInv'
<1>0. /\ InHandle /\ frame \in FrameType
  BY DEF InHandle, HandleAwaits, Handle, HandleDryRun, DryRunWritten, HandleQuarantine,
     QuarantineNotified, HandleFallback, FallbackSent, FallbackWritten, HandleFresh,
     LedgerRead, KickSent, KickWritten, KickNotified, TypeOK, ControlOK
<1>r. Return => at' \in {"idled", "sample", "flagged"}
  BY <1>0, ResumeType DEF Return, FrameType
<1>1. CASE HandleDryRun \/ HandleQuarantine \/ QuarantineNotified \/ HandleFallback
           \/ HandleFresh \/ LedgerRead \/ KickNotified
  <2>1. UNCHANGED <<wire, ledger>> /\ ~Recording'
    BY <1>1, <1>r
    DEF HandleDryRun, HandleQuarantine, QuarantineNotified, HandleFallback,
        HandleFresh, LedgerRead, LimiterGate, KickNotified, Recording, process
  <2>2. QED
    BY <2>1, AuditIdle
<1>2. CASE DryRunWritten
  <2>1. DryRow \in RowType /\ DryRow.dry
    BY <1>0, EntryTypes DEF DryRow
  <2>2. UNCHANGED wire /\ ~Recording' /\ ledger' = Append(ledger, DryRow)
    BY <1>2, <1>r DEF DryRunWritten, Recording
  <2>3. QED
    BY <2>1, <2>2, AuditRow
<1>3. CASE FallbackSent
  <2>1. /\ at' = "fallback_insert" /\ frame' = [frame EXCEPT !.time = now]
        /\ wire' = Append(wire, Call("deauth_fallback", TRUE)) /\ UNCHANGED ledger
    BY <1>3 DEF FallbackSent
  <2>2. PICK w : w = Call("deauth_fallback", TRUE)
    OBVIOUS
  <2>3. w.ok /\ SentCall' = [mac |-> w.mac, ap |-> w.ap, mechanism |-> w.mechanism,
                             group |-> w.group, at |-> w.at]
    BY <1>0, <2>1, <2>2 DEF SentCall, SentAs, Call, FrameType
  <2>4. QED
    BY <2>1, <2>2, <2>3, AuditCall
<1>4. CASE KickSent
  <2>1. PICK mech : mech = Mechanism(frame.cf, frame.mac)
    OBVIOUS
  <2>2. /\ at' = "insert" /\ frame' = [frame EXCEPT !.time = now]
        /\ wire' = Append(wire, Call(mech, TRUE)) /\ UNCHANGED ledger
    BY <1>4, <2>1 DEF KickSent
  <2>3. PICK w : w = Call(mech, TRUE)
    OBVIOUS
  <2>4. SentAs' = mech
    BY <1>0, <2>1, <2>2 DEF SentAs, Mechanism, FrameType
  <2>5. w.ok /\ SentCall' = [mac |-> w.mac, ap |-> w.ap, mechanism |-> w.mechanism,
                             group |-> w.group, at |-> w.at]
    BY <1>0, <2>2, <2>3, <2>4 DEF SentCall, Call, FrameType
  <2>6. QED
    BY <2>2, <2>3, <2>5, AuditCall
<1>5. CASE FallbackWritten \/ KickWritten
  <2>1. Recording /\ ledger' = Append(ledger, Row(SentAs)) /\ UNCHANGED wire /\ ~Recording'
    BY <1>5, <1>r DEF FallbackWritten, KickWritten, Recording, SentAs
  <2>2. Row(SentAs) \in RowType
    <3>1. SentAs \in Mechanisms
      BY MechanismType DEF SentAs, Mechanisms
    <3>2. QED
      BY <1>0, <3>1, EntryTypes
  <2>3. QED
    BY <2>1, <2>2, AuditRow
<1>6. QED
  BY <1>1, <1>2, <1>3, <1>4, <1>5 DEF Handle

\* A refused call has no row; a row whose acknowledgement was lost is still a row.
LEMMA FaultAudit ==
  ASSUME TypeOK, AuditInv, WireFails \/ StoreFails
  PROVE  AuditInv'
<1>0. InHandle /\ at' = "sleep" /\ ~Recording'
  BY DEF WireFails, StoreFails, Propagate, Raise, InHandle, HandleAwaits, Recording
<1>1. CASE WireFails
  <2>1. PICK mech : wire' = Append(wire, Call(mech, FALSE))
    BY <1>1 DEF WireFails
  <2>2. UNCHANGED ledger
    BY <1>1 DEF WireFails
  <2>3. QED
    BY <1>0, <2>1, <2>2, AuditCall
<1>2. CASE StoreFails /\ UNCHANGED ledger
  BY <1>0, <1>2, AuditIdle DEF StoreFails
<1>3. CASE StoreFails /\ ~UNCHANGED ledger
  <2>1. UNCHANGED wire /\ at \in {"dry_insert", "insert", "fallback_insert"}
    BY <1>3 DEF StoreFails
  <2>2. CASE at = "dry_insert"
    <3>1. ledger' = Append(ledger, DryRow) /\ DryRow \in RowType /\ DryRow.dry
      BY <1>0, <1>3, <2>2, EntryTypes DEF StoreFails, DryRow
    <3>2. QED
      BY <1>0, <2>1, <3>1, AuditRow
  <2>3. CASE at \in {"insert", "fallback_insert"}
    <3>1. SentAs \in Mechanisms /\ Recording
      BY <2>3, MechanismType DEF SentAs, Mechanisms, Recording
    <3>2. ledger' = Append(ledger, Row(SentAs)) /\ Row(SentAs) \in RowType
      BY <1>0, <1>3, <2>3, <3>1, EntryTypes DEF StoreFails, SentAs
    <3>3. QED
      BY <1>0, <2>1, <3>1, <3>2, AuditRow
  <2>4. QED
    BY <2>1, <2>2, <2>3
<1>4. QED
  BY <1>1, <1>2, <1>3

\* No step records a kick that did not happen.
LEMMA NextAudit ==
  ASSUME TypeOK, AuditInv, [Next]_vars
  PROVE  AuditInv'
<1>1. CASE UNCHANGED vars \/ Tick
  BY <1>1, AuditIdle DEF vars, Tick
<1>2. CASE HandleStep
  BY <1>2, HandleAudit DEF HandleStep
<1>3. CASE WireFails \/ StoreFails
  BY <1>3, FaultAudit
<1>4. CASE Scan /\ ~HandleStep /\ ~WireFails /\ ~StoreFails
  <2>1. UNCHANGED <<wire, ledger>> /\ ~Recording'
    BY <1>4
    DEF Scan, Fault, BeginCycle, ClientPolled, DetectRf, DetectInactivity, Detect,
        DnsObserved, DnsNext, EndCycle, SampleFails, Raise, StartHandle, Recording
  <2>2. QED
    BY <2>1, AuditIdle
<1>5. ASSUME NEW c \in Configs, Reload(c) PROVE AuditInv'
  BY <1>5, AuditIdle DEF Reload
<1>6. ASSUME NEW c \in Configs, Restart(c) PROVE AuditInv'
  BY <1>6, AuditIdle DEF Restart, Recording
<1>7. QED
  BY <1>1, <1>2, <1>3, <1>4, <1>5, <1>6 DEF Next

\* The strengthened invariant holds in every behaviour.
LEMMA AuditAlways == Spec => []AuditInv
<1>1. Init => AuditInv
  <2>1. SUFFICES ASSUME Init PROVE AuditInv
    OBVIOUS
  <2>2. wire = << >> /\ ledger = << >> /\ at = "sleep"
    BY <2>1 DEF Init, Boot
  <2>3. \A g, mech : RowsOf(g, mech) = {} /\ AcceptedCalls(g, mech) = {}
    BY <2>2 DEF RowsOf, AcceptedCalls
  <2>4. Cardinality({}) = 0
    BY FS_EmptySet
  <2>5. RowsCounted
    BY <2>3, <2>4 DEF RowsCounted
  <2>6. QED
    BY <2>2, <2>5 DEF AuditInv, JustSent, Recording, RowsBacked
<1>2. TypeOK /\ AuditInv /\ [Next]_vars => AuditInv'
  BY NextAudit
<1>3. QED
  BY <1>1, <1>2, TypeCorrect, PTL DEF Spec

\* actor.py:314-316, for any clients, configurations and faults: no row of the audit trail
\* reports a kick that no accepted call stands for, and no call is reported twice.
THEOREM AuditCorrect == Spec => []AuditTruthful
<1>1. AuditInv => AuditTruthful
  BY DEF AuditInv, RowsCounted, RowsBacked, AuditTruthful
<1>2. QED
  BY <1>1, AuditAlways, PTL

----------------------------------------------------------------------------
(* The verdicts: about the last call, or the one before an unrecorded one. *)

\* The accepted calls to a client after the i-th call.
CallsAfter(m, i) == {j \in DOMAIN wire : j > i /\ wire[j].mac = m /\ wire[j].ok}

Named(m, i) ==
  /\ i \in DOMAIN wire /\ wire[i].mac = m /\ wire[i].ok
  /\ outcome[m] = [ap |-> wire[i].ap, mechanism |-> wire[i].mechanism, group |-> wire[i].group]

\* The record of the last call to the client is being written, or its writing failed in
\* a cycle that is over, and the client has not been polled since.
Unrecorded(m) ==
  \/ Recording /\ frame.mac = m
  \/ StoreFaults /\ (at = "sleep" \/ seen[m] = NoAp)

CallerSeen == InHandle => frame.ap = seen[frame.mac] /\ seen[frame.mac] # NoAp

VerdictNamed ==
  \A m \in Macs : outcome[m] # NoOutcome =>
    \E i : /\ Named(m, i)
           /\ \/ CallsAfter(m, i) = {}
              \/ Unrecorded(m) /\ \E j \in CallsAfter(m, i) : CallsAfter(m, i) = {j}

VerdictInv == CallerSeen /\ VerdictNamed

\* A verdict that a step leaves alone, and the calls it is about.
LEMMA VerdictIdle ==
  ASSUME TypeOK, VerdictInv, UNCHANGED wire, CallerSeen',
         \A m \in Macs : outcome'[m] = outcome[m] \/ outcome'[m] = NoOutcome,
         \A m \in Macs : Unrecorded(m) => Unrecorded(m)' \/ outcome'[m] = NoOutcome
  PROVE  VerdictInv'
<1>1. SUFFICES ASSUME NEW m \in Macs, outcome'[m] # NoOutcome
               PROVE  \E i : /\ Named(m, i)'
                             /\ \/ CallsAfter(m, i)' = {}
                                \/ /\ Unrecorded(m)'
                                   /\ \E j \in CallsAfter(m, i)' : CallsAfter(m, i)' = {j}
  BY DEF VerdictInv, VerdictNamed
<1>2. outcome'[m] = outcome[m] /\ (Unrecorded(m) => Unrecorded(m)')
  BY <1>1
<1>3. PICK i : /\ Named(m, i)
               /\ \/ CallsAfter(m, i) = {}
                  \/ Unrecorded(m) /\ \E j \in CallsAfter(m, i) : CallsAfter(m, i) = {j}
  BY <1>1, <1>2 DEF VerdictInv, VerdictNamed
<1>4. Named(m, i)' /\ CallsAfter(m, i)' = CallsAfter(m, i)
  BY <1>2, <1>3 DEF Named, CallsAfter
<1>5. QED
  BY <1>2, <1>3, <1>4

\* A refused call is not what a verdict is about.
LEMMA VerdictRefused ==
  ASSUME TypeOK, VerdictInv, NEW w, wire' = Append(wire, w), ~w.ok, UNCHANGED outcome,
         CallerSeen', \A m \in Macs : Unrecorded(m) => Unrecorded(m)'
  PROVE  VerdictInv'
<1>1. PICK n : n = Len(wire) + 1
  OBVIOUS
<1>2. /\ DOMAIN wire' = DOMAIN wire \cup {n} /\ wire'[n] = w /\ n \notin DOMAIN wire
      /\ \A i \in DOMAIN wire : wire'[i] = wire[i]
  BY <1>1, Appended
<1>3. SUFFICES ASSUME NEW m \in Macs, outcome[m] # NoOutcome
               PROVE  \E i : /\ Named(m, i)'
                             /\ \/ CallsAfter(m, i)' = {}
                                \/ /\ Unrecorded(m)'
                                   /\ \E j \in CallsAfter(m, i)' : CallsAfter(m, i)' = {j}
  BY DEF VerdictInv, VerdictNamed
<1>4. PICK i : /\ Named(m, i)
               /\ \/ CallsAfter(m, i) = {}
                  \/ Unrecorded(m) /\ \E j \in CallsAfter(m, i) : CallsAfter(m, i) = {j}
  BY <1>3 DEF VerdictInv, VerdictNamed
<1>5. Named(m, i)' /\ CallsAfter(m, i)' = CallsAfter(m, i)
  BY <1>2, <1>4 DEF Named, CallsAfter
<1>6. QED
  BY <1>4, <1>5

\* An accepted call: whatever verdict is open about its client is now about the call
\* before it, and about no earlier one.
LEMMA VerdictSent ==
  ASSUME TypeOK, VerdictInv, NEW w, wire' = Append(wire, w), w.ok, UNCHANGED outcome,
         w.mac = frame.mac, frame.mac \in Macs, ~Recording, at # "sleep", seen[frame.mac] # NoAp,
         CallerSeen', Recording', frame'.mac = frame.mac, UNCHANGED seen
  PROVE  VerdictInv'
<1>1. PICK n : n = Len(wire) + 1
  OBVIOUS
<1>2. /\ DOMAIN wire' = DOMAIN wire \cup {n} /\ wire'[n] = w /\ n \notin DOMAIN wire
      /\ \A i \in DOMAIN wire : wire'[i] = wire[i] /\ n > i
  BY <1>1, Appended, CallFields
<1>3. SUFFICES ASSUME NEW m \in Macs, outcome[m] # NoOutcome
               PROVE  \E i : /\ Named(m, i)'
                             /\ \/ CallsAfter(m, i)' = {}
                                \/ /\ Unrecorded(m)'
                                   /\ \E j \in CallsAfter(m, i)' : CallsAfter(m, i)' = {j}
  BY DEF VerdictInv, VerdictNamed
<1>4. PICK i : /\ Named(m, i)
               /\ \/ CallsAfter(m, i) = {}
                  \/ Unrecorded(m) /\ \E j \in CallsAfter(m, i) : CallsAfter(m, i) = {j}
  BY <1>3 DEF VerdictInv, VerdictNamed
<1>5. Named(m, i)' /\ i \in DOMAIN wire
  BY <1>2, <1>4 DEF Named
<1>6. CASE m # frame.mac
  <2>1. CallsAfter(m, i)' = CallsAfter(m, i)
    BY <1>2, <1>6 DEF CallsAfter
  <2>2. Unrecorded(m) => Unrecorded(m)'
    BY <1>6 DEF Unrecorded
  <2>3. QED
    BY <1>4, <1>5, <2>1, <2>2
<1>7. CASE m = frame.mac
  <2>1. CallsAfter(m, i) = {}
    BY <1>4, <1>7 DEF Unrecorded
  <2>2. CallsAfter(m, i)' = {n}
    <3>1. \A j \in DOMAIN wire : j \notin CallsAfter(m, i)'
      BY <1>2, <2>1 DEF CallsAfter
    <3>2. n \in CallsAfter(m, i)' /\ CallsAfter(m, i)' \subseteq DOMAIN wire'
      BY <1>2, <1>5, <1>7 DEF CallsAfter
    <3>3. QED
      BY <1>2, <3>1, <3>2
  <2>3. Unrecorded(m)'
    BY <1>7 DEF Unrecorded
  <2>4. QED
    BY <1>5, <2>2, <2>3
<1>8. QED
  BY <1>6, <1>7

\* The record is written: the next verdict is about the call that was just accepted.
LEMMA VerdictRecorded ==
  ASSUME TypeOK, AuditInv, VerdictInv, Recording, UNCHANGED <<wire, seen>>, CallerSeen',
         outcome' = [outcome EXCEPT ![frame.mac] = Outcome(SentAs)]
  PROVE  VerdictInv'
<1>1. InHandle /\ frame.mac \in Macs
  BY CallFields DEF Recording, InHandle, HandleAwaits
<1>2. PICK n : n = Len(wire)
  OBVIOUS
<1>3. /\ n \in DOMAIN wire /\ wire[n].ok /\ LastSent = SentCall
      /\ \A i \in DOMAIN wire : ~(i > n)
  BY <1>2, CallFields DEF AuditInv, JustSent
<1>4. /\ wire[n].mac = frame.mac /\ wire[n].ap = frame.ap /\ wire[n].mechanism = SentAs
      /\ wire[n].group = frame.group
  BY <1>2, <1>3 DEF LastSent, SentCall
<1>5. \A m \in Macs : outcome'[m] = IF m = frame.mac THEN Outcome(SentAs) ELSE outcome[m]
  BY DEF TypeOK, ActorOK
<1>6. SUFFICES ASSUME NEW m \in Macs, outcome'[m] # NoOutcome
               PROVE  \E i : /\ Named(m, i)'
                             /\ \/ CallsAfter(m, i)' = {}
                                \/ /\ Unrecorded(m)'
                                   /\ \E j \in CallsAfter(m, i)' : CallsAfter(m, i)' = {j}
  BY DEF VerdictInv, VerdictNamed
<1>7. CASE m = frame.mac
  <2>1. Named(m, n)'
    BY <1>3, <1>4, <1>5, <1>7 DEF Named, Outcome
  <2>2. CallsAfter(m, n)' = {}
    BY <1>3 DEF CallsAfter
  <2>3. QED
    BY <2>1, <2>2
<1>8. CASE m # frame.mac
  <2>1. PICK i : /\ Named(m, i)
                 /\ \/ CallsAfter(m, i) = {}
                    \/ Unrecorded(m) /\ \E j \in CallsAfter(m, i) : CallsAfter(m, i) = {j}
    BY <1>5, <1>6, <1>8 DEF VerdictInv, VerdictNamed
  <2>2. Named(m, i)' /\ CallsAfter(m, i)' = CallsAfter(m, i)
    BY <1>5, <1>8, <2>1 DEF Named, CallsAfter
  <2>3. Unrecorded(m) => Unrecorded(m)'
    <3>1. at # "sleep"
      BY DEF Recording
    <3>2. QED
      BY <1>8, <3>1 DEF Unrecorded
  <2>4. QED
    BY <2>1, <2>2, <2>3
<1>9. QED
  BY <1>7, <1>8

\* A call in progress keeps its client, and no client is polled meanwhile.
LEMMA CallSeen ==
  ASSUME TypeOK, CallerSeen, Handle \/ WireFails \/ StoreFails, UNCHANGED pass
  PROVE  CallerSeen'
<1>1. UNCHANGED seen
  BY DEF pass
<1>2. CASE Going
  BY <1>1, <1>2, CallMoves DEF Going, CallerSeen
<1>3. CASE Ending
  <2>1. frame.trigger \in Triggers
    BY CallMoves DEF TypeOK, ControlOK, FrameType
  <2>2. ~InHandle'
    BY <1>3, <2>1, ResumeType DEF Ending, InHandle, HandleAwaits
  <2>3. QED
    BY <2>2 DEF CallerSeen
<1>4. QED
  BY <1>2, <1>3, CallMoves

\* The steps of one handle call, the raising ones among them.
LEMMA HandleVerdict ==
  ASSUME TypeOK, AuditInv, VerdictInv, UNCHANGED <<pass, observers>>,
         Handle \/ WireFails \/ (StoreFaults /\ StoreFails)
  PROVE  VerdictInv'
<1>0. /\ InHandle /\ frame \in FrameType /\ frame.mac \in Macs /\ CallerSeen'
      /\ UNCHANGED seen /\ at # "sleep" /\ seen[frame.mac] # NoAp
  <2>1. InHandle
    BY CallMoves
  <2>2. QED
    BY <2>1, CallSeen
    DEF pass, InHandle, HandleAwaits, TypeOK, ControlOK, FrameType, VerdictInv, CallerSeen
<1>r. Return => at' \in {"idled", "sample", "flagged"}
  BY <1>0, ResumeType DEF Return, FrameType
<1>k. ~Recording => \A m \in Macs : Unrecorded(m) => Unrecorded(m)'
  BY <1>0 DEF Unrecorded
<1>1. CASE HandleDryRun \/ DryRunWritten \/ HandleQuarantine \/ QuarantineNotified
           \/ HandleFallback \/ HandleFresh \/ LedgerRead \/ KickNotified
  <2>1. UNCHANGED <<wire, outcome>> /\ ~Recording
    BY <1>1
    DEF HandleDryRun, DryRunWritten, HandleQuarantine, QuarantineNotified, HandleFallback,
        HandleFresh, LedgerRead, KickNotified, Recording, process
  <2>2. QED
    BY <1>0, <1>k, <2>1, VerdictIdle
<1>2. CASE FallbackSent \/ KickSent
  <2>1. PICK mech : wire' = Append(wire, Call(mech, TRUE))
    BY <1>2 DEF FallbackSent, KickSent
  <2>2. /\ Recording' /\ ~Recording /\ UNCHANGED outcome /\ frame'.mac = frame.mac
    BY <1>0, <1>2 DEF FallbackSent, KickSent, Recording, FrameType
  <2>3. Call(mech, TRUE).ok /\ Call(mech, TRUE).mac = frame.mac
    BY DEF Call
  <2>4. QED
    BY <1>0, <2>1, <2>2, <2>3, VerdictSent
<1>3. CASE FallbackWritten \/ KickWritten
  <2>1. /\ Recording /\ UNCHANGED wire
        /\ outcome' = [outcome EXCEPT ![frame.mac] = Outcome(SentAs)]
    BY <1>3 DEF FallbackWritten, KickWritten, Recording, SentAs
  <2>2. QED
    BY <1>0, <2>1, VerdictRecorded
<1>4. CASE WireFails
  <2>1. PICK mech : wire' = Append(wire, Call(mech, FALSE))
    BY <1>4 DEF WireFails
  <2>2. ~Call(mech, FALSE).ok /\ ~Recording /\ UNCHANGED outcome
    BY <1>4 DEF Call, WireFails, Recording, process
  <2>3. QED
    BY <1>0, <1>k, <2>1, <2>2, VerdictRefused
<1>5. CASE StoreFaults /\ StoreFails
  <2>1. UNCHANGED <<wire, outcome>> /\ at' = "sleep"
    BY <1>5 DEF StoreFails, Raise, process
  <2>2. \A m \in Macs : Unrecorded(m)'
    BY <1>5, <2>1 DEF Unrecorded
  <2>3. QED
    BY <1>0, <2>1, <2>2, VerdictIdle
<1>6. QED
  BY <1>1, <1>2, <1>3, <1>4, <1>5 DEF Handle

\* The steps of run_once: a poll takes the verdict of its client.
LEMMA LoopVerdict ==
  ASSUME TypeOK, VerdictInv, Scan, ~Handle, ~WireFails, ~StoreFails
  PROVE  VerdictInv'
<1> USE DEF process, pass, observers, Unrecorded, Recording, CallerSeen, InHandle, HandleAwaits
<1>1. CASE BeginCycle
  BY <1>1, VerdictIdle DEF BeginCycle
<1>2. CASE EndCycle \/ SampleFails
  BY <1>2, VerdictIdle DEF EndCycle, SampleFails, Raise
<1>3. ASSUME NEW m \in Macs, NEW ap \in Aps, ClientPolled(m, ap)
      PROVE  VerdictInv'
  <2>1. /\ UNCHANGED wire /\ at = "sample" /\ at' = "scored" /\ CallerSeen'
        /\ seen' = [seen EXCEPT ![m] = ap] /\ outcome' = [outcome EXCEPT ![m] = NoOutcome]
    BY <1>3 DEF ClientPolled, CheckPostKickOutcome
  <2>2. seen \in [Macs -> Aps \cup {NoAp}]
    BY DEF TypeOK, ControlOK
  <2>3. outcome'[m] = NoOutcome
        /\ \A k \in Macs : k # m => outcome'[k] = outcome[k] /\ seen'[k] = seen[k]
    BY <2>1, <2>2 DEF TypeOK, ActorOK
  <2>4. \A k \in Macs : Unrecorded(k) => Unrecorded(k)' \/ outcome'[k] = NoOutcome
    BY <2>1, <2>3
  <2>5. QED
    BY <2>1, <2>3, <2>4, VerdictIdle
<1>4. CASE DetectRf \/ DetectInactivity
  <2>1. seen[client] \in Aps
    BY <1>4 DEF DetectRf, DetectInactivity, Detect, TypeOK, ControlOK
  <2>2. UNCHANGED <<wire, outcome, seen>> /\ at # "sleep" /\ ~Recording /\ CallerSeen'
    BY <1>4, <2>1, NoApAssumption DEF DetectRf, DetectInactivity, Detect, StartHandle
  <2>3. QED
    BY <2>2, VerdictIdle
<1>5. ASSUME NEW F \in SUBSET Macs, DnsObserved(F)
      PROVE  VerdictInv'
  BY <1>5, VerdictIdle DEF DnsObserved
<1>6. ASSUME NEW m \in Macs, DnsNext(m)
      PROVE  VerdictInv'
  <2>1. UNCHANGED <<wire, outcome, seen>> /\ at = "flagged" /\ CallerSeen'
    BY <1>6 DEF DnsNext, DnsMayKick, StartHandle
  <2>2. QED
    BY <2>1, VerdictIdle
<1>7. QED
  BY <1>1, <1>2, <1>3, <1>4, <1>5, <1>6 DEF Scan, Fault, HandleStep

\* No step leaves an open verdict about a call it was not taken for.
LEMMA NextVerdict ==
  ASSUME TypeOK, AuditInv, VerdictInv, [Next]_vars
  PROVE  VerdictInv'
<1>1. CASE UNCHANGED vars \/ Tick
  BY <1>1, VerdictIdle
  DEF vars, process, pass, Tick, Unrecorded, Recording, CallerSeen, InHandle, VerdictInv
<1>2. ASSUME NEW c \in Configs, Reload(c) PROVE VerdictInv'
  BY <1>2, VerdictIdle
  DEF process, pass, Reload, Unrecorded, Recording, CallerSeen, InHandle, VerdictInv
<1>3. ASSUME NEW c \in Configs, Restart(c) PROVE VerdictInv'
  BY <1>3 DEF Restart, FreshProcess, VerdictInv, VerdictNamed, CallerSeen, InHandle, HandleAwaits
<1>4. CASE Scan /\ ~Handle /\ ~WireFails /\ ~StoreFails
  BY <1>4, LoopVerdict
<1>5. CASE Scan /\ (Handle \/ WireFails \/ StoreFails)
  <2>1. InHandle
    BY <1>5, CallMoves
  <2>2. HandleStep \/ (Fault /\ ~SampleFails)
    BY <1>5, <2>1
    DEF Scan, BeginCycle, ClientPolled, DetectRf, DetectInactivity, Detect, DnsObserved,
        DnsNext, EndCycle, Fault, SampleFails, InHandle, HandleAwaits
  <2>3. UNCHANGED <<pass, observers>> /\ (Handle \/ WireFails \/ (StoreFaults /\ StoreFails))
    BY <2>2 DEF HandleStep, Fault
  <2>4. QED
    BY <2>3, HandleVerdict
<1>6. QED
  BY <1>1, <1>2, <1>3, <1>4, <1>5 DEF Next

\* The verdicts' invariant holds in every behaviour.
LEMMA VerdictAlways == Spec => []VerdictInv
<1>1. Init => VerdictInv
  BY DEF Init, Boot, FreshProcess, VerdictInv, VerdictNamed, CallerSeen, InHandle, HandleAwaits
<1>2. TypeOK /\ AuditInv /\ VerdictInv /\ [Next]_vars => VerdictInv'
  BY NextVerdict
<1>3. QED
  BY <1>1, <1>2, AuditAlways, TypeCorrect, PTL DEF Spec

\* actor.py set_outcome and check_post_kick_outcome, pending.py: a verdict that may still be
\* taken is about its client's last accepted call, unless the store failed for that one.
THEOREM OutcomeCorrect == Spec => []OutcomeNamesLastKick
<1>1. VerdictInv => OutcomeNamesLastKick
  <2>1. SUFFICES ASSUME VerdictInv, NEW m \in Macs, outcome[m] # NoOutcome,
                        ~(InHandle /\ frame.mac = m)
                 PROVE  \E i \in DOMAIN wire :
                          /\ wire[i].mac = m /\ wire[i].ok
                          /\ outcome[m] = [ap |-> wire[i].ap, mechanism |-> wire[i].mechanism,
                                           group |-> wire[i].group]
                          /\ CallsAfter(m, i) # {} =>
                               StoreFaults /\ \E j \in CallsAfter(m, i) : CallsAfter(m, i) = {j}
    BY DEF OutcomeNamesLastKick, CallsAfter
  <2>2. Unrecorded(m) => StoreFaults
    BY <2>1 DEF Unrecorded, Recording, InHandle, HandleAwaits
  <2>3. QED
    BY <2>1, <2>2 DEF VerdictInv, VerdictNamed, Named
<1>2. QED
  BY <1>1, VerdictAlways, PTL

----------------------------------------------------------------------------
(* The end of a pending BTM.                                               *)

\* A BTM whose verdict is open was sent to where its client is, and if a BTM is pending
\* it is that one, or one sent there again.
VerdictBtm ==
  \A m \in Macs : outcome[m].mechanism = "btm" =>
    btm[m].group = 0 \/ btm[m].ap = outcome[m].ap

VerdictHere ==
  \A m \in Macs : outcome[m] # NoOutcome /\ seen[m] # NoAp => outcome[m].ap = seen[m]

SentBtm ==
  at = "insert" /\ Mechanism(frame.cf, frame.mac) = "btm" => btm[frame.mac].ap = frame.ap

SettleInv == VerdictBtm /\ VerdictHere /\ SentBtm

\* Verdicts and pending requests only go.
LEMMA SettleIdle ==
  ASSUME TypeOK, SettleInv,
         \A m \in Macs : outcome'[m] = outcome[m] \/ outcome'[m] = NoOutcome,
         \A m \in Macs : btm'[m] = btm[m] \/ btm'[m] = NoBtm,
         \A m \in Macs : seen'[m] = seen[m] \/ seen'[m] = NoAp \/ outcome'[m] = NoOutcome,
         at' # "insert" \/ UNCHANGED <<at, frame, btm>>
  PROVE  SettleInv'
<1>1. NoOutcome.mechanism # "btm" /\ NoBtm.group = 0
  BY DEF NoOutcome, NoBtm
<1>2. VerdictBtm' /\ VerdictHere'
  BY <1>1 DEF SettleInv, VerdictBtm, VerdictHere
<1>3. SentBtm'
  BY DEF SettleInv, SentBtm
<1>4. QED
  BY <1>2, <1>3 DEF SettleInv

\* The steps of one handle call.
LEMMA HandleSettle ==
  ASSUME TypeOK, CallerSeen, SettleInv, Handle, UNCHANGED <<pass, observers>>
  PROVE  SettleInv'
<1>0. /\ InHandle /\ frame \in FrameType /\ frame.mac \in Macs /\ UNCHANGED seen
      /\ frame.ap = seen[frame.mac] /\ frame.ap # NoAp
      /\ btm \in [Macs -> [group : Nat, ap : Aps \cup {NoAp}]]
      /\ DOMAIN outcome = Macs
  <2>1. InHandle
    BY CallMoves
  <2>2. QED
    BY <2>1 DEF pass, TypeOK, ControlOK, ActorOK, FrameType, CallerSeen
<1>r. Return => at' \in {"idled", "sample", "flagged"}
  BY <1>0, ResumeType DEF Return, FrameType
<1>1. CASE HandleDryRun \/ DryRunWritten \/ HandleQuarantine \/ QuarantineNotified
           \/ HandleFallback \/ FallbackSent \/ HandleFresh \/ LedgerRead \/ KickNotified
  <2>1. UNCHANGED <<btm, outcome>> /\ at' # "insert"
    BY <1>1, <1>r
    DEF HandleDryRun, DryRunWritten, HandleQuarantine, QuarantineNotified, HandleFallback,
        FallbackSent, HandleFresh, LedgerRead, LimiterGate, KickNotified, process
  <2>2. QED
    BY <1>0, <2>1, SettleIdle
<1>2. CASE KickSent
  <2>1. PICK f, a, c : f = frame.mac /\ a = frame.ap /\ c = frame.cf
    OBVIOUS
  <2>2. /\ frame'.mac = f /\ frame'.ap = a /\ frame'.cf = c /\ UNCHANGED outcome
        /\ f \in Macs /\ a = seen[f] /\ a # NoAp
    BY <1>0, <1>2, <2>1 DEF KickSent, FrameType
  <2>3. CASE Mechanism(c, f) = "btm"
    <3>1. \A m \in Macs : m # f => btm'[m] = btm[m]
      BY <1>0, <1>2, <2>1 DEF KickSent
    <3>2. btm'[f].ap = a
      BY <1>0, <1>2, <2>1, <2>3 DEF KickSent
    <3>3. outcome[f].mechanism = "btm" => outcome[f].ap = a
      BY <2>2 DEF SettleInv, VerdictHere, NoOutcome
    <3>4. VerdictBtm'
      BY <2>2, <3>1, <3>2, <3>3 DEF SettleInv, VerdictBtm
    <3>5. VerdictHere' /\ SentBtm'
      BY <1>0, <2>2, <3>2 DEF SettleInv, VerdictHere, SentBtm
    <3>6. QED
      BY <3>4, <3>5 DEF SettleInv
  <2>4. CASE Mechanism(c, f) # "btm"
    <3>1. UNCHANGED btm
      BY <1>2, <2>1, <2>4 DEF KickSent
    <3>2. Mechanism(c, f)' # "btm"
      BY <2>4 DEF Mechanism
    <3>3. SentBtm'
      BY <2>2, <3>2 DEF SentBtm, Mechanism
    <3>4. QED
      BY <1>0, <2>2, <3>1, <3>3 DEF SettleInv, VerdictBtm, VerdictHere
  <2>5. QED
    BY <2>3, <2>4
<1>3. CASE KickWritten
  <2>1. PICK f, a : f = frame.mac /\ a = frame.ap
    OBVIOUS
  <2>2. PICK mech : mech = Mechanism(frame.cf, f)
    OBVIOUS
  <2>3. /\ at = "insert" /\ at' # "insert" /\ UNCHANGED btm
        /\ outcome' = [outcome EXCEPT ![f] = Outcome(mech)]
    BY <1>3, <1>r, <2>1, <2>2 DEF KickWritten
  <2>4. mech = "btm" => btm[f].ap = a
    BY <2>1, <2>2, <2>3 DEF SettleInv, SentBtm
  <2>5. /\ outcome'[f].ap = a /\ outcome'[f].mechanism = mech
        /\ \A m \in Macs : m # f => outcome'[m] = outcome[m]
    BY <1>0, <2>1, <2>3 DEF Outcome
  <2>6. VerdictBtm'
    BY <2>3, <2>4, <2>5 DEF SettleInv, VerdictBtm
  <2>7. VerdictHere'
    BY <1>0, <2>1, <2>5 DEF SettleInv, VerdictHere
  <2>8. QED
    BY <2>3, <2>6, <2>7 DEF SettleInv, SentBtm
<1>4. CASE FallbackWritten
  <2>1. PICK f, a : f = frame.mac /\ a = frame.ap
    OBVIOUS
  <2>2. /\ at' # "insert" /\ btm' = [btm EXCEPT ![f] = NoBtm]
        /\ outcome' = [outcome EXCEPT ![f] = Outcome("deauth_fallback")]
    BY <1>4, <1>r, <2>1 DEF FallbackWritten, ClearBtm
  <2>3. /\ outcome'[f].ap = a /\ outcome'[f].mechanism = "deauth_fallback"
        /\ \A m \in Macs : m # f => outcome'[m] = outcome[m] /\ btm'[m] = btm[m]
    BY <1>0, <2>1, <2>2 DEF Outcome
  <2>4. VerdictBtm'
    BY <2>3 DEF SettleInv, VerdictBtm
  <2>5. VerdictHere'
    BY <1>0, <2>1, <2>3 DEF SettleInv, VerdictHere
  <2>6. QED
    BY <2>2, <2>4, <2>5 DEF SettleInv, SentBtm
<1>5. QED
  BY <1>1, <1>2, <1>3, <1>4 DEF Handle

\* Every step keeps a verdict with the client it is about.
LEMMA NextSettle ==
  ASSUME TypeOK, CallerSeen, SettleInv, [Next]_vars
  PROVE  SettleInv'
<1> USE DEF process, pass, observers
<1>1. CASE UNCHANGED vars \/ Tick
  BY <1>1, SettleIdle DEF vars, Tick
<1>2. ASSUME NEW c \in Configs, Reload(c) PROVE SettleInv'
  BY <1>2, SettleIdle DEF Reload
<1>3. ASSUME NEW c \in Configs, Restart(c) PROVE SettleInv'
  BY <1>3, SettleIdle DEF Restart, FreshProcess
<1>4. CASE HandleStep
  BY <1>4, HandleSettle DEF HandleStep
<1>5. CASE Fault
  <2>1. UNCHANGED <<btm, outcome, seen>> /\ at' # "insert"
    BY <1>5 DEF Fault, WireFails, StoreFails, SampleFails, Propagate, Raise
  <2>2. QED
    BY <2>1, SettleIdle
<1>6. CASE BeginCycle
  BY <1>6, SettleIdle DEF BeginCycle
<1>7. ASSUME NEW m \in Macs, NEW ap \in Aps, ClientPolled(m, ap)
      PROVE  SettleInv'
  <2>1. /\ at' = "scored" /\ seen' = [seen EXCEPT ![m] = ap]
        /\ outcome' = [outcome EXCEPT ![m] = NoOutcome]
        /\ btm' = [btm EXCEPT ![m] = NoBtm] \/ UNCHANGED btm
    BY <1>7 DEF ClientPolled, CheckPostKickOutcome, ClearBtm
  <2>2. /\ seen \in [Macs -> Aps \cup {NoAp}] /\ DOMAIN outcome = Macs
        /\ DOMAIN btm = Macs
    BY DEF TypeOK, ControlOK, ActorOK
  <2>3. \A k \in Macs : /\ outcome'[k] = outcome[k] \/ outcome'[k] = NoOutcome
                        /\ btm'[k] = btm[k] \/ btm'[k] = NoBtm
                        /\ seen'[k] = seen[k] \/ outcome'[k] = NoOutcome
    BY <2>1, <2>2
  <2>4. QED
    BY <2>1, <2>3, SettleIdle
<1>8. CASE DetectRf \/ DetectInactivity \/ EndCycle
           \/ (\E F \in SUBSET Macs : DnsObserved(F)) \/ (\E m \in Macs : DnsNext(m))
  <2>1. UNCHANGED <<btm, outcome, seen>> /\ at' # "insert"
    BY <1>8
    DEF DetectRf, DetectInactivity, Detect, EndCycle, DnsObserved, DnsNext, StartHandle
  <2>2. QED
    BY <2>1, SettleIdle
<1>9. QED
  BY <1>1, <1>2, <1>3, <1>4, <1>5, <1>6, <1>7, <1>8 DEF Next, Scan

\* The strengthened invariants hold in every behaviour.
LEMMA AttemptAlways == Spec => []AttemptInv
<1>1. Init => AttemptInv
  BY InitAttempt
<1>2. TypeOK /\ AttemptInv /\ [Next]_vars => AttemptInv'
  BY NextAttempt
<1>3. QED
  BY <1>1, <1>2, TypeCorrect, PTL DEF Spec

\* The verdicts of pending requests stay with their clients in every behaviour.
LEMMA SettleAlways == Spec => []SettleInv
<1>1. Init => SettleInv
  BY DEF Init, Boot, FreshProcess, SettleInv, VerdictBtm, VerdictHere, SentBtm, NoOutcome
<1>2. TypeOK /\ CallerSeen /\ SettleInv /\ [Next]_vars => SettleInv'
  BY NextSettle
<1>3. VerdictInv => CallerSeen
  BY DEF VerdictInv
<1>4. QED
  BY <1>1, <1>2, <1>3, VerdictAlways, TypeCorrect, PTL DEF Spec

\* ADR-0003 (actor.py handle and check_post_kick_outcome, pending.py): a pending BTM ends with
\* its fallback on record, its client seen elsewhere, a BTM to another access point or the
\* process; no raise, reload or quarantine loses one.
THEOREM SettledCorrect == Spec => AttemptSettled
<1> DEFINE Settled(m) ==
      (btm[m].group # 0 /\ btm'[m] # btm[m]) =>
         \/ epoch' # epoch
         \/ \E k \in DOMAIN ledger' :
              /\ ledger'[k].mechanism = "deauth_fallback"
              /\ ledger'[k].group = btm[m].group
         \/ seen'[m] # btm[m].ap /\ seen'[m] # NoAp
         \/ btm'[m].group # 0 /\ btm'[m].ap # btm[m].ap
<1>1. ASSUME TypeOK, AttemptInv, SettleInv, [Next]_vars, NEW m \in Macs PROVE Settled(m)
  <2>1. SUFFICES ASSUME btm[m].group # 0, btm'[m] # btm[m] PROVE Settled(m)
    OBVIOUS
  <2>2. btm \in [Macs -> [group : Nat, ap : Aps \cup {NoAp}]] /\ epoch \in Nat
    BY <1>1 DEF TypeOK, ActorOK, WorldOK
  <2>3. CASE KickSent
    <3>1. InHandle /\ at = "wire" /\ frame.group # 0
      BY <1>1, <2>3 DEF KickSent, InHandle, HandleAwaits, AttemptInv, FreshAlone
    <3>2. /\ Mechanism(frame.cf, frame.mac) = "btm" /\ m = frame.mac
          /\ btm'[m] = [group |-> frame.group, ap |-> frame.ap]
      BY <2>1, <2>2, <2>3 DEF KickSent
    <3>3. btm[m].ap # frame.ap
      BY <1>1, <2>1, <3>1, <3>2 DEF AttemptInv, FreshAlone, AwaitingRoam
    <3>4. QED
      BY <3>1, <3>2, <3>3
  <2>4. CASE FallbackWritten
    <3>1. InHandle /\ m = frame.mac /\ ledger' = Append(ledger, Row("deauth_fallback"))
      BY <2>1, <2>2, <2>4
      DEF FallbackWritten, ClearBtm, InHandle, HandleAwaits
    <3>2. frame.group = btm[m].group
      BY <1>1, <2>4, <3>1 DEF FallbackWritten, AttemptInv, FallbackPending
    <3>3. ledger \in Seq(RowType)
      BY <1>1 DEF TypeOK, RecordOK
    <3>4. PICK n : n = Len(ledger) + 1
      OBVIOUS
    <3>5. n \in DOMAIN ledger' /\ ledger'[n] = Row("deauth_fallback")
      BY <3>1, <3>3, <3>4, AppendProperties, LenProperties
    <3>6. QED
      BY <3>2, <3>5 DEF Row
  <2>5. CASE \E c \in Configs : Restart(c)
    BY <2>2, <2>5 DEF Restart
  <2>6. ASSUME NEW k \in Macs, NEW ap \in Aps, ClientPolled(k, ap)
        PROVE  Settled(m)
    <3>1. k = m /\ Obeyed(outcome[m], ap)
      BY <2>1, <2>2, <2>6 DEF ClientPolled, CheckPostKickOutcome, ClearBtm
    <3>2. ap # btm[m].ap
      BY <1>1, <2>1, <3>1 DEF Obeyed, SettleInv, VerdictBtm
    <3>3. seen'[m] = ap /\ ap # NoAp
      BY <1>1, <2>6, <3>1, NoApAssumption DEF ClientPolled, TypeOK, ControlOK
    <3>4. QED
      BY <3>2, <3>3
  <2>7. CASE UNCHANGED btm
    BY <2>1, <2>7
  <2>8. QED
    BY <1>1, <2>3, <2>4, <2>5, <2>6, <2>7
    DEF Next, Scan, HandleStep, Handle, Fault, HandleDryRun, DryRunWritten, HandleQuarantine,
        QuarantineNotified, HandleFallback, FallbackSent, HandleFresh, LedgerRead,
        KickWritten, KickNotified, WireFails, StoreFails, SampleFails, BeginCycle,
        DetectRf, DetectInactivity, Detect, DnsObserved, DnsNext, EndCycle, Tick, Reload,
        vars, process
<1>2. QED
  <2>1. TypeOK /\ AttemptInv /\ SettleInv /\ [Next]_vars => \A m \in Macs : Settled(m)
    BY <1>1
  <2> HIDE DEF Settled
  <2>2. QED
    BY <2>1, AttemptAlways, SettleAlways, TypeCorrect, PTL DEF Spec, AttemptSettled, Settled

=============================================================================
