---------------------------- MODULE MCConfigFile ----------------------------
(* A small instance of ConfigFile: one device; a file with every block, one  *)
(* with both two-key checks switched off, an empty one, and none.            *)
EXTENDS ConfigFile

CONSTANTS m1

Full ==
  [node |-> [dry_run |-> "off", watch |-> "on", samples |-> "low", rate |-> "zero",
             retry |-> "null", ladder |-> "rungs", gap |-> "low", cap |-> "low",
             window |-> "low", night |-> "low", token |-> "ref", shared |-> "ref",
             own |-> "ref", span |-> "zero"],
   on |-> Blocks, stray |-> FALSE, allow |-> {}, named |-> {m1}, target |-> {m1}]

Loose ==
  [Full EXCEPT !.node = [@ EXCEPT !.watch = "off", !.samples = "zero", !.cap = "zero",
                                  !.window = "zero", !.own = "literal"]]

Uncapped == {[Full EXCEPT !.node["cap"] = "zero"]}

Starts == {Empty, Full, Loose, Absent}
=============================================================================
