---------------------------- MODULE MCDetectors ----------------------------
(* A small instance of Detectors: one client, windows of none, one and two polls, *)
(* a day of three minutes.                                                  *)
EXTENDS Detectors

CONSTANTS m1

Report(signal, rate, retry, bytes) ==
  [radio |-> "ng", cu |-> 1, signal |-> signal, rate |-> rate, retry |-> retry,
   bytes |-> bytes]

\* From healthy to bad by every measure, with counters that move, rest, fall and
\* go missing.
Reports ==
  {Report(0, 0, 2, 0), Report(1, 1, 1, 1), Report(0, 1, 2, 5), Report(0, 0, Off, Off),
   [Report(0, 0, 2, 1) EXCEPT !.cu = 0], [Report(0, 0, 2, 1) EXCEPT !.radio = "na"]}

AllOff == [f \in Fields |-> Off]
Base ==
  [window |-> 2, radios |-> {"ng"},
   global |-> [signal |-> 1, rate |-> 2, retry |-> 0, cu |-> 1],
   override |-> [m \in Macs |-> AllOff],
   quiet |-> [on |-> TRUE, start |-> 2, end |-> 1,
              tighter |-> [signal |-> 2, rate |-> 1, retry |-> 1]],
   allow |-> {}, idle |-> TRUE, idleMacs |-> Macs, idleWindow |-> 2, minBytes |-> 2]

\* Each detector's window changes on its own; an override, a criterion switched
\* off, and the allowlist.
AnyConfigs ==
  {Base,
   [Base EXCEPT !.window = 1, !.quiet.on = FALSE, !.minBytes = 1],
   [Base EXCEPT !.idleWindow = 1, !.override[m1] = [AllOff EXCEPT !["retry"] = 1, !["cu"] = 0]],
   [Base EXCEPT !.window = 0, !.idle = FALSE, !.idleWindow = 0],
   [Base EXCEPT !.allow = Macs, !.global["rate"] = Off]}
=============================================================================
