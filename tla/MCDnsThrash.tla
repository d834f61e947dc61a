---------------------------- MODULE MCDnsThrash ----------------------------
(* Small instances of DnsThrash: one client, half seconds, short windows.   *)
EXTENDS DnsThrash, TLC

On(window, sustain, max) ==
  [on |-> TRUE, window |-> window, sustain |-> sustain, max |-> [m \in Macs |-> max]]

\* A window of two seconds, sustained for one window; a reload removes the block
\* and puts it back.
Present == On(4, 4, 0)
ThrashConfigs == {Present, [Present EXCEPT !.on = FALSE]}

Names == Permutations(Domains)
=============================================================================
