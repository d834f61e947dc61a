------------------------------ MODULE Attempts ------------------------------
(***************************************************************************)
(* What ADR-0003 promises of a kick, without the loop, the limits, the     *)
(* database or the clock that produce it.  An attempt is one accepted BSS  *)
(* transition request, or one accepted deauth.  A BTM attempt stays open   *)
(* until its client leaves the access point, a BTM on another one replaces *)
(* it, or it falls back to a deauth: at most once, on the access point it  *)
(* was made for, under its own group.  A restart forgets what was open.    *)
(***************************************************************************)

CONSTANTS
  Clients, Points,  \* MAC addresses and access points
  Idle              \* "no attempt is open"

VARIABLES
  open,   \* the attempt each client has open: Idle, or its group, access point and state
  sent,   \* the accepted calls
  names,  \* the groups given out so far
  rest    \* whether the program is between two passes over the clients

Open(m) == open[m] # Idle

Calls(m, ap, how, g) == [mac |-> m, ap |-> ap, how |-> how, group |-> g]

New(g) == \A c \in sent : c.group # g

Init == open = [m \in Clients |-> Idle] /\ sent = {}

\* A BTM request is accepted: never while one is open on the same access point.
Ask(m, ap, g) ==
  /\ New(g)
  /\ Open(m) => open[m].ap # ap
  /\ open' = [open EXCEPT ![m] = [group |-> g, ap |-> ap, spent |-> FALSE]]
  /\ sent' = sent \cup {Calls(m, ap, "btm", g)}

\* A deauth is accepted where no BTM is open.
Force(m, ap, g) ==
  /\ New(g)
  /\ Open(m) => open[m].ap # ap
  /\ sent' = sent \cup {Calls(m, ap, "deauth", g)}
  /\ UNCHANGED open

\* The fallback of an open attempt.
FallBack(m) ==
  /\ Open(m) /\ ~open[m].spent
  /\ open' = [open EXCEPT ![m].spent = TRUE]
  /\ sent' = sent \cup {Calls(m, open[m].ap, "deauth_fallback", open[m].group)}

\* The attempt is over: its fallback is recorded, or its client has roamed.
Settle(m) ==
  /\ Open(m)
  /\ open' = [open EXCEPT ![m] = Idle] /\ UNCHANGED sent

\* The pass that sent the fallback was given up before there was a record of it, and
\* with it goes that there was one: the only way to a second.
Forget(m) ==
  /\ rest' /\ Open(m) /\ open[m].spent
  /\ open' = [open EXCEPT ![m].spent = FALSE] /\ UNCHANGED sent

Restart == open' = [m \in Clients |-> Idle] /\ UNCHANGED sent

Next ==
  \/ \E m \in Clients, ap \in Points, g \in names : Ask(m, ap, g) \/ Force(m, ap, g)
  \/ \E m \in Clients : FallBack(m) \/ Settle(m) \/ Forget(m)
  \/ Restart

Spec == Init /\ [][Next]_<<open, sent>>
=============================================================================
