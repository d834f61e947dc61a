---------------------------- MODULE DaemonProofs ----------------------------
(***************************************************************************)
(* The life of the daemon, proved: it runs what it saw, and what run()     *)
(* opens it closes, for any number of controllers.                         *)
(*                                                                         *)
(* RunsWhatItSaw says nothing of the moment between the two reads of the   *)
(* file, at a start and at a reload; ReadInv says what is the same then.   *)
(* PairsOpenAndClose is about tasks and the end; OpenInv says what is open *)
(* at the stages before it.                                                *)
(***************************************************************************)
EXTENDS Daemon, TLAPS

Stages ==
  {"down", "exited", "cut", "loaded"} \cup Starting \cup Looping \cup Cancelling \cup Closing

Resources == {Db, Dns, Notifier} \cup {Controller(i) : i \in 1..Scanners}

TypeOK ==
  /\ main \in Stages /\ pos \in 1..Scanners
  /\ reading \in BOOLEAN /\ apart \in BOOLEAN
  /\ tasks \subseteq {"scheduler", "watch"} /\ open \subseteq Resources

\* The tasks live from the loop to their cancellation, over an open store.
TasksInv ==
  /\ tasks # {} => main \in Looping \cup Cancelling /\ Db \in open
  /\ main \in {"login", "dns_login", "assemble"} \cup Looping => Db \in open
  /\ main = "cancel_watch" => tasks \subseteq {"watch"}
  /\ reading => tasks # {}

\* What the closes that are left to do will find.
OpenInv ==
  /\ main = "close_db" => pos = 1
  /\ main = "close_controllers" =>
       open \subseteq {Controller(i) : i \in pos..Scanners} \cup {Dns, Notifier}
  /\ main = "close_dns" => open \subseteq {Dns, Notifier}
  /\ main = "close_ha" => open \subseteq {Notifier}
  /\ main = "exited" => (open = {} \/ Db \in open)

LifeInv == TypeOK /\ TasksInv /\ OpenInv

\* Of the file, the digest and the configuration, which two are the same.
ReadInv ==
  /\ Running => Valid(live)
  /\ main = "loaded" /\ ~apart => live = file
  /\ reading /\ ~apart => seen = file
  /\ Running /\ main # "loaded" /\ ~reading /\ ~apart /\ Valid(seen) => live = seen

\* A step that leaves the stage, what is open and the tasks as they are.
LEMMA LifeAsBefore ==
  ASSUME LifeInv, UNCHANGED <<main, pos, tasks, open>>, reading' \in BOOLEAN,
         apart' \in BOOLEAN, reading' => tasks # {}
  PROVE  LifeInv'
BY DEF LifeInv, TypeOK, TasksInv, OpenInv, Stages, Resources

\* A controller's turn ends at the next one or at the next stage.
LEMMA TurnMoves ==
  ASSUME TypeOK, NEW stage, NEW next, Turn(stage, next)
  PROVE  /\ main = stage /\ ~reading /\ pos' \in 1..Scanners
         /\ \/ main' = stage /\ pos' = pos + 1
            \/ main' = next /\ pos = Scanners /\ pos' = 1
BY ScannersAssumption DEF TypeOK, Turn, Step, AfterTurn

\* Who leaves a set of one leaves it empty.
LEMMA NoneLeft == ASSUME NEW S, NEW x, S \subseteq {x} PROVE S \ {x} = {}
OBVIOUS

\* At the start nothing runs and nothing is open.
LEMMA InitLife == Init => LifeInv
<1> SUFFICES ASSUME Init PROVE LifeInv
  OBVIOUS
<1>1. TypeOK
  <2>1. main \in Stages /\ pos = 1 /\ reading = FALSE /\ apart = FALSE
    BY DEF Init, Stages
  <2>2. tasks = {} /\ open = {}
    BY DEF Init
  <2>3. pos \in 1..Scanners
    BY <2>1, ScannersAssumption
  <2>4. tasks \subseteq {"scheduler", "watch"} /\ open \subseteq Resources
    BY <2>2
  <2>5. QED
    BY <2>1, <2>3, <2>4 DEF TypeOK
<1>2. TasksInv
  BY DEF Init, TasksInv, Looping
<1>3. OpenInv
  BY DEF Init, OpenInv
<1>4. QED
  BY <1>1, <1>2, <1>3 DEF LifeInv

\* Starting up, from the configuration to the assembled pipeline, keeps tasks and what is
\* open in order.
LEMMA StartLife ==
  ASSUME LifeInv, Load \/ SeedDigest \/ ConnectStore \/ LoginController \/ LoginDns \/ Assemble
  PROVE  LifeInv'
<1> USE ScannersAssumption DEF LifeInv, TypeOK, TasksInv, OpenInv, Stages,
        Starting, Looping, Cancelling, Closing
<1>1. CASE Load
  BY <1>1 DEF Load, Running
<1>2. CASE SeedDigest
  BY <1>2 DEF SeedDigest, wiring, bounds
<1>3. CASE ConnectStore
  <2>1. open' \subseteq Resources
    BY <1>3 DEF ConnectStore, Resources
  <2>2. QED
    BY <1>3, <2>1 DEF ConnectStore, Step, config
<1>4. CASE LoginController
  <2>1. open' \subseteq Resources /\ open \subseteq open'
    BY <1>4 DEF LoginController, Resources
  <2>2. CASE Turn("login", IF source THEN "dns_login" ELSE "assemble")
    <3>1. pos' \in 1..Scanners /\ main = "login" /\ main' \in {"login", "dns_login", "assemble"}
      BY <2>2, TurnMoves
    <3>2. QED
      BY <1>4, <2>1, <3>1 DEF LoginController, config
  <2>3. CASE Step("login", "cancel_scheduler") /\ UNCHANGED pos
    BY <1>4, <2>1, <2>3 DEF LoginController, Step, config
  <2>4. QED
    BY <1>4, <2>2, <2>3 DEF LoginController
<1>5. CASE LoginDns
  <2>1. open' \subseteq Resources /\ open \subseteq open'
    BY <1>5 DEF LoginDns, Resources
  <2>2. QED
    BY <1>5, <2>1 DEF LoginDns, Step, config
<1>6. CASE Assemble
  BY <1>6 DEF Assemble, Step, config
<1>7. QED
  BY <1>1, <1>2, <1>3, <1>4, <1>5, <1>6

\* So do the loop, its end and the cancelling of the tasks.
LEMMA LoopLife ==
  ASSUME LifeInv, RunOnce \/ Wake \/ Interrupt \/ CancelScheduler \/ CancelWatch
  PROVE  LifeInv'
<1> USE ScannersAssumption DEF LifeInv, TypeOK, TasksInv, OpenInv, Stages,
        Starting, Looping, Cancelling, Closing
<1>1. CASE RunOnce
  <2>1. open' \subseteq Resources /\ open \subseteq open'
    BY <1>1 DEF RunOnce, Resources
  <2>2. pos' \in 1..Scanners /\ main = "scan" /\ main' \in {"scan", "sleep"}
    BY <1>1, TurnMoves DEF RunOnce
  <2>3. QED
    BY <1>1, <2>1, <2>2 DEF RunOnce, config
<1>2. CASE Wake
  BY <1>2 DEF Wake, Step, config
<1>3. CASE Interrupt
  BY <1>3 DEF Interrupt, Step, config
<1>4. CASE CancelScheduler
  BY <1>4 DEF CancelScheduler, Step, config
<1>5. CASE CancelWatch
  <2>1. main = "cancel_watch" /\ main' = "close_db" /\ ~reading /\ tasks' = tasks \ {"watch"}
    BY <1>5 DEF CancelWatch, Step
  <2>2. tasks \subseteq {"watch"}
    BY <2>1
  <2>3. tasks' = {}
    BY <2>1, <2>2, NoneLeft
  <2>4. QED
    <3>1. pos' = 1 /\ UNCHANGED <<reading, apart, open>>
      BY <1>5 DEF CancelWatch, config
    <3>2. TypeOK'
      BY <2>1, <2>3, <3>1
    <3>3. TasksInv' /\ OpenInv'
      BY <2>1, <2>3, <3>1
    <3>4. QED
      BY <3>2, <3>3
<1>6. QED
  BY <1>1, <1>2, <1>3, <1>4, <1>5

\* So do the closes, each of which may raise, and the end of the process.
LEMMA CloseLife ==
  ASSUME LifeInv, CloseStore \/ CloseController \/ CloseDns \/ CloseNotifier
  PROVE  LifeInv'
<1> USE ScannersAssumption DEF LifeInv, TypeOK, TasksInv, OpenInv, Stages,
        Starting, Looping, Cancelling, Closing
<1>1. CASE CloseStore
  <2>1. CASE Step("close_db", "close_controllers") /\ open' = open \ {Db}
    <3>1. open' \subseteq {Controller(i) : i \in 1..Scanners} \cup {Dns, Notifier}
      BY <2>1 DEF Resources
    <3>2. QED
      BY <1>1, <2>1, <3>1 DEF CloseStore, Step, config
  <2>2. CASE Db \in open /\ Step("close_db", "exited") /\ UNCHANGED open
    BY <1>1, <2>2 DEF CloseStore, Step, config
  <2>3. QED
    BY <1>1, <2>1, <2>2 DEF CloseStore
<1>2. CASE CloseController
  <2>1. /\ main = "close_controllers" /\ ~reading /\ pos' \in 1..Scanners
        /\ \/ main' = "close_controllers" /\ pos' = pos + 1
           \/ main' = "close_dns" /\ pos = Scanners
    BY <1>2, TurnMoves DEF CloseController
  <2>2. open' \subseteq {Controller(i) : i \in (pos + 1)..Scanners} \cup {Dns, Notifier}
    BY <1>2, <2>1 DEF CloseController
  <2>3. pos = Scanners => open' \subseteq {Dns, Notifier}
    BY <2>2
  <2>4. QED
    BY <1>2, <2>1, <2>2, <2>3 DEF CloseController, config
<1>3. CASE CloseDns
  BY <1>3 DEF CloseDns, CloseOther, Step, config
<1>4. CASE CloseNotifier
  BY <1>4 DEF CloseNotifier, CloseOther, Step, config
<1>5. QED
  BY <1>1, <1>2, <1>3, <1>4

\* So does what happens beside run(): edits, reloads and crashes.
LEMMA AsideLife ==
  ASSUME LifeInv,
         \/ \E f \in Files : Write(f)
         \/ Watch \/ (\E t \in tasks : TaskEnds(t)) \/ Sighup \/ Sigterm \/ Crash
  PROVE  LifeInv'
<1>1. ASSUME NEW f \in Files, Write(f) PROVE LifeInv'
  BY <1>1, LifeAsBefore DEF Write, LifeInv, TypeOK, TasksInv
<1>2. CASE NoticeChange
  BY <1>2, LifeAsBefore DEF NoticeChange
<1>3. CASE Reload
  BY <1>3, LifeAsBefore DEF Reload, LifeInv, TypeOK
<1>4. ASSUME NEW t \in tasks, TaskEnds(t) PROVE LifeInv'
  BY <1>4 DEF TaskEnds, config, LifeInv, TypeOK, TasksInv, OpenInv, Resources
<1>5. CASE Sighup
  BY <1>5, LifeAsBefore DEF Sighup, LifeInv, TypeOK, TasksInv
<1>6. CASE Sigterm
  BY <1>6, LifeAsBefore DEF Sigterm, config, LifeInv, TypeOK, TasksInv
<1>7. CASE Crash
  BY <1>7 DEF Crash, LifeInv, TypeOK, TasksInv, OpenInv, Stages, Looping
<1>8. QED
  BY <1>1, <1>2, <1>3, <1>4, <1>5, <1>6, <1>7 DEF Watch

\* Every step of the daemon does.
LEMMA NextLife == LifeInv /\ [Next]_vars => LifeInv'
<1> SUFFICES ASSUME LifeInv, [Next]_vars PROVE LifeInv'
  OBVIOUS
<1>1. CASE UNCHANGED vars
  BY <1>1, LifeAsBefore DEF vars, config, LifeInv, TypeOK, TasksInv
<1>2. CASE Next
  BY <1>2, StartLife, LoopLife, CloseLife, AsideLife DEF Next, Run, Signals
<1>3. QED
  BY <1>1, <1>2

\* The type and the stages of every behaviour, and the pairing of open and close that
\* unifi.py:102 expects of Daemon.run(), for any number of controllers, failures of the
\* start and of any close, reloads, signals and crashes.
THEOREM OpenCloseCorrect == Spec => []PairsOpenAndClose
<1>1. LifeInv => PairsOpenAndClose
  BY DEF LifeInv, TasksInv, OpenInv, PairsOpenAndClose
<1>2. QED
  BY <1>1, InitLife, NextLife, PTL DEF Spec

----------------------------------------------------------------------------

\* A reload takes a valid file and keeps the configuration otherwise.
LEMMA ReloadKeepsValid ==
  /\ Valid(file) => Reloaded = file
  /\ Valid(live) => Valid(Reloaded)
BY DEF Reloaded

\* A step that touches neither the file nor what was read of it.
LEMMA ReadAsBefore ==
  ASSUME ReadInv, UNCHANGED <<file, live, seen, reading, apart>>,
         Running' => Running, main' = "loaded" => main = "loaded",
         Running /\ main = "loaded" => ~Running' \/ main' = "loaded"
  PROVE  ReadInv'
BY DEF ReadInv, Valid

\* No step of run() does.
LEMMA RunRead ==
  ASSUME LifeInv, ReadInv, Run \/ Interrupt
  PROVE  ReadInv'
<1>1. UNCHANGED <<file, live, seen, reading, apart>>
  BY DEF Run, Interrupt, ConnectStore, LoginController, LoginDns, Assemble, RunOnce, Wake,
     CancelScheduler, CancelWatch, CloseStore, CloseController, CloseDns, CloseNotifier,
     CloseOther, config
<1>2. Running /\ main # "loaded" /\ main' # "loaded"
  BY DEF Run, Interrupt, ConnectStore, LoginController, LoginDns, Assemble, RunOnce, Wake,
     CancelScheduler, CancelWatch, CloseStore, CloseController, CloseDns, CloseNotifier,
     CloseOther, Turn, AfterTurn, Step, Running, Closing
<1>3. QED
  BY <1>1, <1>2, ReadAsBefore

\* Every step keeps what the live configuration was read from.
LEMMA NextRead == LifeInv /\ ReadInv /\ [Next]_vars => ReadInv'
<1> SUFFICES ASSUME LifeInv, ReadInv, [Next]_vars PROVE ReadInv'
  OBVIOUS
<1>1. CASE UNCHANGED vars
  BY <1>1, ReadAsBefore DEF vars, config, Running
<1>2. ASSUME NEW f \in Files, Write(f) PROVE ReadInv'
  BY <1>2 DEF Write, ReadInv, Running, Valid
<1>3. CASE Load
  <2>1. ~reading
    BY <1>3 DEF Load, Running, LifeInv, TasksInv, Looping, Cancelling
  <2>2. QED
    BY <1>3, <2>1 DEF Load, ReadInv, Running, Valid
<1>4. CASE SeedDigest
  <2>1. ~reading
    BY <1>4 DEF SeedDigest, LifeInv, TasksInv, Looping, Cancelling
  <2>2. QED
    BY <1>4, <2>1 DEF SeedDigest, ReadInv, Running, Valid
<1>5. CASE Run \/ Interrupt
  BY <1>5, RunRead
<1>6. CASE NoticeChange
  <2>1. Running /\ main # "loaded"
    BY <1>6 DEF NoticeChange, LifeInv, TasksInv, Running, Looping, Cancelling
  <2>2. QED
    BY <1>6, <2>1 DEF NoticeChange, ReadInv, Running, Valid
<1>7. CASE Reload
  <2>1. Running /\ main # "loaded"
    BY <1>7 DEF Reload, LifeInv, TasksInv, Running, Looping, Cancelling
  <2>2. /\ UNCHANGED <<file, main, seen, apart>> /\ live' = Reloaded /\ ~reading'
        /\ ~apart => seen = file
    BY <1>7 DEF Reload, ReadInv
  <2>3. Valid(live)
    BY <2>1 DEF ReadInv
  <2>4. QED
    BY <2>1, <2>2, <2>3, ReloadKeepsValid DEF ReadInv, Running, Valid
<1>8. ASSUME NEW t \in tasks, TaskEnds(t) PROVE ReadInv'
  BY <1>8, ReadAsBefore DEF TaskEnds, config, Running
<1>9. CASE Sighup
  <2>1. Running /\ main # "loaded" /\ ~reading
    BY <1>9 DEF Sighup, Handling, Running, Starting, Looping, Cancelling
  <2>2. /\ UNCHANGED <<file, main, seen, reading>> /\ live' = Reloaded
        /\ ~apart' => seen = file
    BY <1>9 DEF Sighup
  <2>3. Valid(live)
    BY <2>1 DEF ReadInv
  <2>4. QED
    BY <2>1, <2>2, <2>3, ReloadKeepsValid DEF ReadInv, Running, Valid
<1>10. CASE Sigterm
  BY <1>10, ReadAsBefore DEF Sigterm, config, Running
<1>11. CASE Crash
  BY <1>11 DEF Crash, ReadInv, Running
<1>12. QED
  BY <1>1, <1>2, <1>3, <1>4, <1>5, <1>6, <1>7, <1>8, <1>9, <1>10, <1>11
  DEF Next, Watch, Signals

\* Fail-closed reload (PLAN.md §5, ADR-0013): over any edits of the file, failed
\* reloads, signals and restarts the daemon runs a valid configuration, and the file's
\* once the watch has seen it.
THEOREM ConfigCorrect == Spec => []RunsWhatItSaw
<1>1. Init => ReadInv
  BY DEF Init, ReadInv, Running
<1>2. LifeInv /\ ReadInv => RunsWhatItSaw
  BY DEF ReadInv, RunsWhatItSaw, Running
<1>3. QED
  BY <1>1, <1>2, InitLife, NextLife, NextRead, PTL DEF Spec

=============================================================================
