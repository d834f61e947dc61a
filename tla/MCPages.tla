------------------------------ MODULE MCPages ------------------------------
(***************************************************************************)
(* A small instance of Pages: one client that the controller spells in two *)
(* ways and an hour, a day and a week of one, two and three ticks.         *)
(***************************************************************************)
EXTENDS Pages, TLC

OneClient == [m \in Macs |-> CHOOSE c \in Macs : TRUE]
\* The DNS page and the others read tables of their own: rows and pages of one kind
\* at a time.  An older daemon is upgraded by its second row.
OneKind ==
  /\ \/ kicks = << >> /\ samples = << >> /\ req.page \in {"none", "dns"}
     \/ health = << >> /\ observations = << >> /\ poll = NoPoll /\ req.page # "dns"
  /\ schema = "old" => Rows(kicks) + Rows(samples) <= 1

Spellings == Permutations(Macs)
Rungs == <<1, 2>>

=============================================================================
