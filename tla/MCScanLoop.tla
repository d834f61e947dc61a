----------------------------- MODULE MCScanLoop -----------------------------
(***************************************************************************)
(* Small instances of ScanLoop: one or two clients, one or two access      *)
(* points.  Each set of configurations switches on what its run is about   *)
(* and leaves the other limits off.                                        *)
(***************************************************************************)
EXTENDS ScanLoop, TLC

\* Every limit off, auto mechanism.
Base ==
  [dryRun |-> FALSE, allowlist |-> {}, mechanism |-> [m \in Macs |-> "auto"],
   minGap |-> 0, apCap |-> 0, apWindow |-> 0, quarantineAfter |-> 9,
   cooldowns |-> << >>, perHour |-> [m \in Macs |-> 0],
   perDay |-> [m \in Macs |-> 0]]

\* The ADR-0004 limiter: two clients, spacing 1, one kick per access point in 1 or,
\* after a reload that switches to deauth too, two in 2.
Limited == [Base EXCEPT !.minGap = 1, !.apCap = 1, !.apWindow = 1]
LimiterConfigs ==
  {Limited, [Limited EXCEPT !.mechanism = [m \in Macs |-> "deauth"],
                            !.apCap = 2, !.apWindow = 2]}

Deauth == [Base EXCEPT !.mechanism = [m \in Macs |-> "deauth"]]

\* The ADR-0007 cooldowns, a rung of 1 and one of 2.  The reload switches to
\* dry run.
Escalating == [Deauth EXCEPT !.cooldowns = <<1, 2>>]
EscalationConfigs == {Escalating, [Escalating EXCEPT !.dryRun = TRUE]}

\* The ADR-0007 caps, one kick an hour (1) and two a day (5).  The reload
\* switches to BTM.
Capped == [Deauth EXCEPT !.perHour = [m \in Macs |-> 1],
                         !.perDay = [m \in Macs |-> 2]]
CapConfigs == {Capped, [Capped EXCEPT !.mechanism = [m \in Macs |-> "btm"]]}

\* A process is reloaded within one of the two sets.
PolicyConfigs == EscalationConfigs \cup CapConfigs
OnePolicy == lived \subseteq EscalationConfigs \/ lived \subseteq CapConfigs

SpacedConfig == {[Base EXCEPT !.minGap = 1]}

\* The allowlist changes under the loop, and one kick leads to quarantine where
\* deauth is what is sent.
Guarded == [Base EXCEPT !.minGap = 1]
GuardedConfigs ==
  {Guarded, [Guarded EXCEPT !.allowlist = Macs], [Deauth EXCEPT !.quarantineAfter = 1]}

Clients == Permutations(Macs)
AccessPoints == Permutations(Aps)
Both == Clients \cup AccessPoints

=============================================================================
