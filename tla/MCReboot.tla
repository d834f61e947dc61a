------------------------------ MODULE MCReboot ------------------------------
(* Small instances of Reboot: one or two devices, a day of two minutes.     *)
EXTENDS Reboot, TLC

CONSTANTS m1, m2, d1, d2

\* Two devices, each spelled one way.
OneSpelling == (m1 :> d1) @@ (m2 :> d2)

Base ==
  [enabled |-> TRUE, proactive |-> TRUE, schedule |-> 0, dryRun |-> FALSE,
   eligible |-> <<m1, m2>>, allowlist |-> {}, override |-> {}, gap |-> 0, cap |-> 0]

\* A cooldown longer than a day, a schedule that moves, and a device listed twice.
Paced == [Base EXCEPT !.gap = 3, !.eligible = <<m1, m1>>, !.override = {d1}]
PacedConfigs == {Paced, [Paced EXCEPT !.schedule = 1]}

\* One reboot a day, two clock minutes a day.
Capped == [Base EXCEPT !.cap = 1, !.eligible = <<m1>>]
CappedConfigs == {Capped, [Capped EXCEPT !.schedule = 1, !.override = {d1}]}

\* The allowlist, the opt-in and dry run change under a sweep.
GuardedConfigs ==
  {Base, [Base EXCEPT !.allowlist = {d1}, !.override = {d2}],
   [Base EXCEPT !.dryRun = TRUE], [Base EXCEPT !.enabled = FALSE]}

\* A process is reloaded within one of the three sets.  In the first the clock stops
\* early once the process was restarted, in the third anyway.
AllConfigs == PacedConfigs \cup CappedConfigs \cup GuardedConfigs
OneFamily ==
  \/ lived \subseteq PacedConfigs /\ (epoch = 1 \/ now <= 2)
  \/ lived \subseteq CappedConfigs
  \/ lived \subseteq GuardedConfigs /\ now <= 1
=============================================================================
