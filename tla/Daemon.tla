------------------------------- MODULE Daemon -------------------------------
(***************************************************************************)
(* The daemon from start to exit (main.py): its construction, run() with   *)
(* its logins, the scan loop and the finally block, the scheduler and the  *)
(* watch task beside it, and the signals, over a config.yaml that anybody  *)
(* may replace at any time.                                                *)
(*                                                                         *)
(* run() is left at every await: the tasks and the signal handlers run in  *)
(* between.  Between two reads of the file, the one for the digest and the *)
(* one for the configuration, there is no await, but there are other       *)
(* processes (reading).  A cycle of a scanner is one step here, and the    *)
(* modules ScanLoop and Detectors are about what happens in it.            *)
(***************************************************************************)
EXTENDS Naturals, FiniteSets

CONSTANTS
  Scanners,   \* as many controllers, and a scanner for each
  Broken,     \* a file that does not parse
  Absent,     \* no file
  MaxSaves,   \* bound: the file is replaced at most this often
  MaxStarts   \* bound: the daemon is started at most this often

\* The part of the file that the wiring of the daemon depends on: a dns_sources entry
\* and a detection.dns_thrash block.
Contents == [sources : BOOLEAN, thrash : BOOLEAN]

Files == Contents \cup {Broken, Absent}

ASSUME ScannersAssumption == Scanners \in Nat \ {0}
ASSUME ValueAssumption == Broken \notin Contents /\ Absent \notin Contents
ASSUME BoundAssumption == MaxSaves \in Nat /\ MaxStarts \in Nat

\* build_config, of this part: dns_thrash needs a source.
Valid(f) == f \in Contents /\ (f.thrash => f.sources)

\* What run() opens: the store, a session for each controller, the DNS sources' and the
\* notifier's.
Db == <<"db">>
Dns == <<"dns">>
Notifier == <<"ha">>
Controller(i) == <<"controller", i>>

\* The stages of run(): up to the loop, the loop, and the finally block.
Starting == {"connect", "login", "dns_login", "assemble"}
Looping == {"scan", "sleep"}
Cancelling == {"cancel_scheduler", "cancel_watch"}
Closing == {"close_db", "close_controllers", "close_dns", "close_ha"}

VARIABLES
  file,       \* what config.yaml holds
  main,       \* "down", "loaded", a stage of run(), or how it ended: "exited" or "cut"
  pos,        \* the controller that the stage is at
  live,       \* Daemon.config
  seen,       \* _config_digest_seen
  reading,    \* the watch has taken a digest and is about to read the configuration
  source,     \* _dns_source is there
  detectors,  \* the scanners have a DNS-thrash detector
  tasks,      \* the scheduler and the watch task, while they run
  open,       \* what is connected or has a session
  stop,       \* _shutdown is set
  saves,      \* how often the file was replaced
  starts      \* how often the daemon was started

\* Observer, read by the properties and by no action: live and seen may come from
\* different contents of the file.
VARIABLE apart

config == <<live, seen, reading, apart>>
wiring == <<source, detectors>>
bounds == <<saves, starts>>
vars == <<file, main, pos, config, wiring, tasks, open, stop, bounds>>

Init ==
  /\ file \in Files /\ main = "down" /\ pos = 1
  /\ live = [sources |-> FALSE, thrash |-> FALSE] /\ seen = Absent
  /\ reading = FALSE /\ apart = FALSE
  /\ source = FALSE /\ detectors = FALSE
  /\ tasks = {} /\ open = {} /\ stop = FALSE
  /\ saves = 0 /\ starts = 0

Running == main \notin {"down", "exited", "cut"}

\* run() has installed its handlers and not yet removed them.
Handling == main \in Starting \cup Looping \cup Cancelling

----------------------------------------------------------------------------
(* The file.                                                               *)

\* An editor or the user interface puts another file in its place.
Write(f) ==
  /\ f # file /\ saves < MaxSaves
  /\ file' = f /\ saves' = saves + 1
  /\ apart' = (apart \/ reading \/ main = "loaded")
  /\ UNCHANGED <<main, pos, live, seen, reading, wiring, tasks, open, stop, starts>>

----------------------------------------------------------------------------
(* Start.                                                                  *)

\* Daemon.__init__ loads the file, and a bad one ends the process; it builds the DNS
\* source, once.
Load ==
  /\ ~Running /\ starts < MaxStarts /\ starts' = starts + 1
  /\ IF Valid(file)
     THEN /\ main' = "loaded" /\ live' = file /\ source' = file.sources
     ELSE main' = "down" /\ UNCHANGED <<live, source>>
  /\ apart' = FALSE /\ stop' = FALSE /\ detectors' = FALSE /\ open' = {}
  /\ UNCHANGED <<file, pos, seen, reading, tasks, saves>>

\* The digest is seeded last in __init__, from another read of the file.
SeedDigest ==
  /\ main = "loaded" /\ main' = "connect"
  /\ seen' = file
  /\ UNCHANGED <<file, pos, live, reading, apart, wiring, tasks, open, stop, bounds>>

\* One step of run(); the watch is not between its two reads.
Step(from, to) == main = from /\ main' = to /\ ~reading

ConnectStore ==
  /\ \/ Step("connect", "login") /\ open' = {Db}
     \/ Step("connect", "cancel_scheduler") /\ open' \in {{}, {Db}}
  /\ pos' = 1
  /\ UNCHANGED <<file, config, wiring, tasks, stop, bounds>>

\* The next stage after one controller's turn at this one.
AfterTurn(stage, next) == IF pos < Scanners THEN stage ELSE next

Turn(stage, next) ==
  /\ Step(stage, AfterTurn(stage, next))
  /\ pos' = IF pos < Scanners THEN pos + 1 ELSE 1

\* A controller's login opens its session first; an exception ends the start.
LoginController ==
  /\ \/ Turn("login", IF source THEN "dns_login" ELSE "assemble")
     \/ Step("login", "cancel_scheduler") /\ UNCHANGED pos
  /\ open' = open \cup {Controller(pos)}
  /\ UNCHANGED <<file, config, wiring, tasks, stop, bounds>>

\* The DNS sources log in; one that is down is tolerated.
LoginDns ==
  /\ Step("dns_login", "assemble")
  /\ open' = open \cup {Dns}
  /\ UNCHANGED <<file, pos, config, wiring, tasks, stop, bounds>>

\* _build_dns_detector: the block is there, and so is the source.
WithDetector == live.thrash /\ source

\* _build_scanners from the configuration as it is now, and the two tasks.
Assemble ==
  /\ Step("assemble", IF stop THEN "cancel_scheduler" ELSE "scan")
  /\ detectors' = WithDetector
  /\ tasks' = {"scheduler", "watch"}
  /\ UNCHANGED <<file, pos, config, source, open, stop, bounds>>

----------------------------------------------------------------------------
(* The loop.                                                               *)

\* A slip: the first exception ends the cycle for all scanners.
RunOnceUnguarded ==
  /\ \/ Turn("scan", "sleep")
     \/ Step("scan", "sleep") /\ pos' = 1
  /\ open' \in {open, open \cup {Notifier}}
  /\ UNCHANGED <<file, config, wiring, tasks, stop, bounds>>

\* run_once, which may open the notifier's session.  Whether it returns or raises, the
\* next scanner has its turn.
RunOnce ==
  /\ Turn("scan", "sleep")
  /\ open' \in {open, open \cup {Notifier}}
  /\ UNCHANGED <<file, config, wiring, tasks, stop, bounds>>

\* A slip: a shutdown is noticed by nobody but the sleep's timeout.
WakeAlways ==
  /\ Step("sleep", "scan")
  /\ UNCHANGED <<file, pos, config, wiring, tasks, open, stop, bounds>>

\* The sleep ends by its timeout, or at once when _shutdown is set.
Wake ==
  /\ Step("sleep", IF stop THEN "cancel_scheduler" ELSE "scan")
  /\ UNCHANGED <<file, pos, config, wiring, tasks, open, stop, bounds>>

----------------------------------------------------------------------------
(* The finally block.                                                      *)

CancelScheduler ==
  /\ Step("cancel_scheduler", "cancel_watch")
  /\ tasks' = tasks \ {"scheduler"}
  /\ UNCHANGED <<file, pos, config, wiring, open, stop, bounds>>

\* The watch is cancelled and awaited, and the handlers are removed.
CancelWatch ==
  /\ Step("cancel_watch", "close_db") /\ pos' = 1
  /\ tasks' = tasks \ {"watch"}
  /\ UNCHANGED <<file, config, wiring, open, stop, bounds>>

\* The store's close is the one that nothing guards: an exception ends run() there.
CloseStore ==
  /\ \/ Step("close_db", "close_controllers") /\ open' = open \ {Db}
     \/ Db \in open /\ Step("close_db", "exited") /\ UNCHANGED open
  /\ UNCHANGED <<file, pos, config, wiring, tasks, stop, bounds>>

\* A slip: a controller whose close raises ends run() as well.
CloseControllerUnguarded ==
  /\ Turn("close_controllers", "close_dns") \/ (Step("close_controllers", "exited") /\ UNCHANGED pos)
  /\ open' = open \ {Controller(pos)}
  /\ UNCHANGED <<file, config, wiring, tasks, stop, bounds>>

\* A close drops the session before it awaits, and what it raises is logged.
CloseController ==
  /\ Turn("close_controllers", "close_dns")
  /\ open' = open \ {Controller(pos)}
  /\ UNCHANGED <<file, config, wiring, tasks, stop, bounds>>

CloseOther(what, from, to) ==
  /\ Step(from, to)
  /\ open' = open \ {what}
  /\ UNCHANGED <<file, pos, config, wiring, tasks, stop, bounds>>

CloseDns == CloseOther(Dns, "close_dns", "close_ha")
CloseNotifier == CloseOther(Notifier, "close_ha", "exited")

----------------------------------------------------------------------------
(* The tasks and the signals.                                              *)

\* A slip: a reload that would need a restart is refused.
ReloadedSameSources == IF Valid(file) /\ file.sources = live.sources THEN file ELSE live

\* _reload_config: parse and validate, and swap or keep the last good one.
Reloaded == IF Valid(file) THEN file ELSE live

\* A slip: a bad file is tried again, and nothing else is, until it is gone.
ChangedSinceGood == file # Absent /\ file # seen /\ seen # Broken

\* The watch's test.
Changed == file # Absent /\ file # seen

\* A tick of the watch records the new digest before it reloads.
NoticeChange ==
  /\ "watch" \in tasks /\ ~stop /\ ~reading /\ Changed
  /\ reading' = TRUE /\ seen' = file /\ apart' = FALSE
  /\ UNCHANGED <<file, main, pos, live, wiring, tasks, open, stop, bounds>>

Reload ==
  /\ reading /\ reading' = FALSE
  /\ live' = Reloaded
  /\ UNCHANGED <<file, main, pos, seen, apart, wiring, tasks, open, stop, bounds>>

Watch == NoticeChange \/ Reload

\* Either task ends by itself at a shutdown.
TaskEnds(t) ==
  /\ t \in tasks /\ stop /\ ~reading
  /\ tasks' = tasks \ {t}
  /\ UNCHANGED <<file, main, pos, config, wiring, open, stop, bounds>>

\* SIGHUP reloads without a look at the digest.
Sighup ==
  /\ Handling /\ ~reading
  /\ live' = Reloaded
  /\ apart' = (apart \/ file # seen)
  /\ UNCHANGED <<file, main, pos, seen, reading, wiring, tasks, open, stop, bounds>>

Sigterm ==
  /\ Handling /\ ~reading /\ ~stop
  /\ stop' = TRUE
  /\ UNCHANGED <<file, main, pos, config, wiring, tasks, open, bounds>>

\* Ctrl-C: asyncio.run cancels run() at the await it is in.  The finally block cancels
\* the tasks all the same, and is cut short when it is at one of its closes.
Interrupt ==
  /\ \/ \E stage \in {"connect", "login", "dns_login", "scan", "sleep"} :
          Step(stage, "cancel_scheduler")
     \/ \E stage \in Closing : Step(stage, "cut")
  /\ UNCHANGED <<file, pos, config, wiring, tasks, open, stop, bounds>>

\* The process dies; so does one that a signal reaches without a handler.
Crash ==
  /\ Running /\ main' = "down"
  /\ tasks' = {} /\ open' = {} /\ reading' = FALSE
  /\ UNCHANGED <<file, pos, live, seen, apart, wiring, stop, bounds>>

----------------------------------------------------------------------------

Run ==
  \/ ConnectStore \/ LoginController \/ LoginDns \/ Assemble
  \/ RunOnce \/ Wake
  \/ CancelScheduler \/ CancelWatch
  \/ CloseStore \/ CloseController \/ CloseDns \/ CloseNotifier

Signals == Sighup \/ Sigterm \/ Interrupt \/ Crash

Next ==
  \/ \E f \in Files : Write(f)
  \/ Load \/ SeedDigest \/ Run
  \/ Watch \/ \E t \in tasks : TaskEnds(t)
  \/ Signals

Spec == Init /\ [][Next]_vars
FairSpec == Spec /\ WF_vars(Run) /\ WF_vars(Watch)

----------------------------------------------------------------------------
(* What must hold.                                                         *)

\* Fail-closed: whatever is put into the file, and whenever the daemon reads it, it
\* runs a valid configuration; and when the watch has seen the file and it is valid,
\* the daemon runs that one, over broken edits and failed reloads.  The exceptions are
\* an edit between two reads of one load, and a SIGHUP that came before the watch
\* (apart).
RunsWhatItSaw ==
  Running =>
    /\ Valid(live)
    /\ (main # "loaded" /\ ~reading /\ ~apart /\ seen = file /\ Valid(file)) => live = file

\* unifi.py:102: "Callers should always pair the two [login and close]; Daemon.run()
\* already does".  The tasks run only over an open store; and whichever step of the
\* start or of a close fails, and whatever signal comes when, a run() that ends by itself
\* leaves nothing open, except that it leaves everything open when closing the store
\* fails.
PairsOpenAndClose ==
  /\ tasks # {} => Db \in open
  /\ main = "exited" => (open = {} \/ Db \in open)

\* ADR-0013: a valid edit the watch has not seen comes to run in the daemon, after
\* edits that failed too, unless the file turns bad, the daemon stops, or the file is
\* put back to what the watch saw last.  (With a SIGHUP in between, the daemon then
\* runs the edit and not the file.)
ChangeReachesDaemon ==
  ("watch" \in tasks /\ Valid(file) /\ file # seen)
    ~> (live = file \/ ~Valid(file) \/ file = seen \/ stop \/ "watch" \notin tasks)

\* main.py:284-290: SIGTERM ends the process, at whatever moment of the start, of the
\* loop or of the finally block it comes.
TermEnds == (stop /\ Running) ~> ~Running

\* main.py:170-175: in the loop every scanner keeps having its turn, whatever the others
\* raise, until run() leaves the loop.
EveryScannerRuns ==
  \A i \in 1..Scanners :
    (main \in Looping) ~> ((main = "scan" /\ pos = i) \/ main \notin Looping)

=============================================================================
