-------------------------- MODULE ConfigFileProofs --------------------------
(***************************************************************************)
(* Proofs about ConfigFile, for any devices, files, edits and bounds: what *)
(* a save leaves in the file, whichever page it came from and whatever was *)
(* typed, edited by hand or saved since that page was opened.              *)
(*                                                                         *)
(* A save is judged when it is asked for and writes later.  So DraftOK     *)
(* says what the save in progress was validated as and made from, and      *)
(* PristineOK that a page no one has touched is still a page of the file.  *)
(***************************************************************************)
EXTENDS ConfigFile, TLAPS

----------------------------------------------------------------------------
(* The invariants.                                                         *)

\* What the settings page shows of a file that parses.
PageOf(c) ==
  [open |-> TRUE, shown |-> [f \in Fields |-> Display(c, f)],
   ticked |-> c.on, allow |-> c.allow, named |-> c.named, target |-> c.target]

Pages ==
  [open : BOOLEAN, shown : [Fields -> UNION {Inputs(f) : f \in Fields}],
   ticked : SUBSET Blocks,
   allow : SUBSET Macs, named : SUBSET Macs, target : SUBSET Macs]

FileOK == Parses(file) => IsContents(file)

\* The inputs of an open page are ones the page has.
PageOK == page \in Pages /\ (page.open => \A f \in Fields : page.shown[f] \in Inputs(f))

DeviceDraft == draft.route = "device" /\ IsContents(draft.text) /\ Accepted(draft.text)

\* What a form always has a value for.
AlwaysAsked(m) ==
  \A f \in Fields : Schema[f].kind \in {"bool", "int_or_null", "int_list"} => m.node[f] # "missing"

SettingsDraft ==
  /\ draft.route = "settings" /\ IsContents(draft.asked) /\ Accepted(draft.asked)
  /\ AlwaysAsked(draft.asked)
  /\ \E c : IsContents(c) /\ draft.text = Overlay(c, draft.asked)

DraftOK == draft = NoDraft \/ DeviceDraft \/ SettingsDraft

PristineOK ==
  /\ "page" \in pristine => Parses(file) /\ page = PageOf(file)
  /\ "draft" \in pristine =>
       /\ draft.route = "settings" /\ Parses(file)
       /\ draft.asked = Mapping(PageOf(file)) /\ draft.text = Overlay(file, draft.asked)

FileInv == FileOK /\ PageOK /\ DraftOK /\ PristineOK

----------------------------------------------------------------------------
(* The schema.                                                             *)

LEMMA SchemaIs ==
  /\ Fields = {"dry_run", "watch", "samples", "rate", "retry", "ladder", "gap", "cap", "window",
               "night", "token", "shared", "own", "span"}
  /\ Schema["dry_run"] = FieldSpec("bool", "on", "on", "on", "none")
  /\ Schema["watch"] = FieldSpec("bool", "off", "off", "bad", "none")
  /\ Schema["samples"] = FieldSpec("int", "low", "low", "bad", "none")
  /\ Schema["rate"] = FieldSpec("int_or_null", "low", "low", "off", "none")
  /\ Schema["retry"] = FieldSpec("int_or_null", "low", "low", "off", "none")
  /\ Schema["ladder"] = FieldSpec("int_list", "empty", "rungs", "empty", "none")
  /\ Schema["gap"] = FieldSpec("int", "zero", "zero", "bad", "safety_rails")
  /\ Schema["cap"] = FieldSpec("int", "zero", "zero", "bad", "safety_rails")
  /\ Schema["window"] = FieldSpec("int", "low", "low", "bad", "safety_rails")
  /\ Schema["night"] = FieldSpec("int", "off", "blank", "bad", "quiet_hours")
  /\ Schema["token"] = FieldSpec("secret_ref", "bad", "blank", "bad", "home_assistant")
  /\ Schema["shared"] = FieldSpec("secret_ref", "none", "blank", "none", "dns_sources")
  /\ Schema["own"] = FieldSpec("secret_ref", "none", "blank", "none", "dns_sources")
  /\ Schema["span"] = FieldSpec("int", "low", "low", "bad", "dns_thrash")
BY DEF Schema, Fields

\* Which fields are of which kind, and where.
LEMMA FieldIs ==
  ASSUME NEW f \in Fields
  PROVE  /\ Schema[f].kind \in {"bool", "int", "int_or_null", "int_list", "secret_ref"}
         /\ Schema[f].block \in {"none", "safety_rails"} \cup Blocks
         /\ "none" \notin Blocks /\ "safety_rails" \notin Blocks
         /\ Schema[f].block = "dns_sources" <=> f \in {"shared", "own"}
         /\ Schema[f].block = "safety_rails" <=> f \in {"gap", "cap", "window"}
         /\ Schema[f].kind = "bool" <=> f \in {"dry_run", "watch"}
         /\ Schema[f].kind = "int_or_null" <=> f \in {"rate", "retry"}
         /\ Schema[f].kind = "int_list" <=> f = "ladder"
         /\ Schema[f].kind = "secret_ref" <=> f \in {"token", "shared", "own"}
BY SchemaIs DEF Blocks, FieldSpec

\* What the loader makes of a key without a value, and what the page shows for it.
LEMMA DefaultsAre ==
  ASSUME NEW f \in Fields
  PROVE  /\ Schema[f].kind = "bool" => Schema[f].default \in {"on", "off"}
         /\ Schema[f].kind \in {"int", "int_or_null"} =>
              Schema[f].default \in {"zero", "low", "off"}
         /\ Schema[f].kind = "int_list" => Schema[f].shows = "rungs"
         /\ Schema[f].kind = "secret_ref" => Schema[f].shows = "blank"
         /\ Schema[f].kind \in {"bool", "int_or_null"} => Schema[f].shows = Schema[f].default
         /\ Schema[f].kind = "int" =>
              Schema[f].shows = IF Schema[f].default = "off" THEN "blank" ELSE Schema[f].default
         /\ f \in {"rate", "retry"} => Schema[f].default = "low" /\ Schema[f].null = "off"
         /\ f \notin {"dry_run", "rate", "retry", "ladder", "shared", "own"} => Schema[f].null = "bad"
         /\ f \in {"shared", "own"} => Schema[f].null = "none" /\ Schema[f].default = "none"
BY SchemaIs DEF FieldSpec

\* The boxes, the criteria and the lists are in no block.
LEMMA NoBlock ==
  ASSUME NEW f \in Fields, Schema[f].kind \in {"bool", "int_or_null", "int_list"}
  PROVE  Schema[f].block = "none"
BY SchemaIs DEF FieldSpec

LEMMA NodesAre ==
  ASSUME NEW f \in Fields
  PROVE  /\ "missing" \in Nodes(f) /\ "null" \in Nodes(f)
         /\ Schema[f].kind = "bool" => Nodes(f) = {"missing", "null", "wrong", "on", "off"}
         /\ Schema[f].kind = "int" => Nodes(f) = {"missing", "null", "wrong", "out", "zero", "low"}
         /\ Schema[f].kind = "int_or_null" => Nodes(f) = {"missing", "null", "wrong", "zero", "low"}
         /\ Schema[f].kind = "int_list" =>
              Nodes(f) = {"missing", "null", "wrong", "out", "empty", "rungs"}
         /\ Schema[f].kind = "secret_ref" => Nodes(f) = {"missing", "null", "ref", "unset", "literal"}
BY FieldIs DEF Nodes

LEMMA InputsAre ==
  ASSUME NEW f \in Fields
  PROVE  /\ Schema[f].kind = "bool" => Inputs(f) = {"on", "off"}
         /\ Schema[f].kind = "secret_ref" => Inputs(f) = {"blank", "ref", "unset", "text"}
         /\ Schema[f].kind = "int_list" => Inputs(f) = {"empty", "rungs", "out", "text"}
         /\ Schema[f].kind = "int" => Inputs(f) = {"blank", "zero", "low", "out", "text"}
         /\ Schema[f].kind = "int_or_null" => Inputs(f) = {"blank", "zero", "low", "text"}
BY FieldIs DEF Inputs

\* A file's keys and the others of its parts.
LEMMA ContentsAre ==
  ASSUME NEW c, IsContents(c)
  PROVE  /\ Parses(c)
         /\ c = [node |-> c.node, on |-> c.on, stray |-> c.stray, allow |-> c.allow,
                 named |-> c.named, target |-> c.target]
         /\ c.on \subseteq Blocks /\ c.stray \in BOOLEAN
         /\ c.stray => "quiet_hours" \in c.on
         /\ c.allow \subseteq Macs /\ c.named \subseteq Macs /\ c.target \subseteq Macs
         /\ c.node = [f \in Fields |-> c.node[f]]
         /\ \A f \in Fields : /\ c.node[f] \in Nodes(f)
                              /\ Schema[f].block \in Blocks \ c.on => c.node[f] = "missing"
BY FileAssumption DEF IsContents, Contents, Parses

\* Six parts of the right kinds make a file.
LEMMA MakeContents ==
  ASSUME NEW node, NEW on, NEW stray, NEW allow, NEW named, NEW target,
         node = [f \in Fields |-> node[f]],
         on \subseteq Blocks, stray \in BOOLEAN, stray => "quiet_hours" \in on,
         allow \subseteq Macs, named \subseteq Macs, target \subseteq Macs,
         \A f \in Fields : /\ node[f] \in Nodes(f)
                           /\ Schema[f].block \in Blocks \ on => node[f] = "missing"
  PROVE  IsContents([node |-> node, on |-> on, stray |-> stray, allow |-> allow,
                     named |-> named, target |-> target])
<1>1. node \in [Fields -> UNION {Nodes(f) : f \in Fields}]
  <2>1. \A f \in Fields : node[f] \in UNION {Nodes(g) : g \in Fields}
    OBVIOUS
  <2>2. QED
    BY <2>1
<1>2. QED
  BY <1>1 DEF IsContents, Contents

LEMMA EmptyIs == IsContents(Empty) /\ Parses(Empty)
<1>1. PICK node : node = [f \in Fields |-> "missing"]
  OBVIOUS
<1>2. node = [f \in Fields |-> node[f]] /\ \A f \in Fields : node[f] \in Nodes(f) /\ node[f] = "missing"
  BY <1>1, NodesAre
<1>3. IsContents([node |-> node, on |-> {}, stray |-> FALSE, allow |-> {}, named |-> {},
                  target |-> {}])
  BY <1>2, MakeContents
<1>4. IsContents(Empty)
  BY <1>1, <1>3 DEF Empty
<1>5. QED
  BY <1>4, ContentsAre

----------------------------------------------------------------------------
(* What an edit makes of a file is a file.                                 *)

LEMMA DocumentIs ==
  ASSUME FileOK, file # Broken
  PROVE  IsContents(Document(file))
BY EmptyIs DEF FileOK, Parses, Document

LEMMA HandEditsAre ==
  ASSUME NEW c, IsContents(c), NEW d \in HandEdits(c)
  PROVE  IsContents(d)
<1>0. PICK node, on, stray, allow, named, target :
        /\ node = c.node /\ on = c.on /\ stray = c.stray
        /\ allow = c.allow /\ named = c.named /\ target = c.target
  OBVIOUS
<1>1. /\ c = [node |-> node, on |-> on, stray |-> stray, allow |-> allow,
              named |-> named, target |-> target]
      /\ on \subseteq Blocks /\ stray \in BOOLEAN /\ (stray => "quiet_hours" \in on)
      /\ allow \subseteq Macs /\ named \subseteq Macs /\ target \subseteq Macs
      /\ node = [f \in Fields |-> node[f]]
      /\ \A f \in Fields : /\ node[f] \in Nodes(f)
                           /\ Schema[f].block \in Blocks \ on => node[f] = "missing"
  BY <1>0, ContentsAre
<1>2. ASSUME NEW f \in Fields, NEW n \in Nodes(f), Schema[f].block \notin Blocks \ on,
             d = [c EXCEPT !.node[f] = n]
      PROVE  IsContents(d)
  <2>1. PICK node2 : node2 = [node EXCEPT ![f] = n]
    OBVIOUS
  <2>2. d = [node |-> node2, on |-> on, stray |-> stray, allow |-> allow,
             named |-> named, target |-> target]
    BY <1>1, <1>2, <2>1
  <2>3. node2 = [g \in Fields |-> IF g = f THEN n ELSE node[g]]
    BY <1>1, <2>1
  <2>4. /\ node2 = [g \in Fields |-> node2[g]]
        /\ \A g \in Fields : /\ node2[g] \in Nodes(g)
                             /\ Schema[g].block \in Blocks \ on => node2[g] = "missing"
    BY <1>1, <1>2, <2>3
  <2>5. QED
    BY <1>1, <2>2, <2>4, MakeContents
<1>3. ASSUME NEW b \in Blocks, d = WithBlock(c, b)
      PROVE  IsContents(d)
  <2>1. CASE b \in on
    <3>1. PICK node2 : node2 = [f \in Fields |-> IF Schema[f].block = b THEN "missing" ELSE node[f]]
      OBVIOUS
    <3>2. PICK stray2 : stray2 = (stray /\ b # "quiet_hours")
      OBVIOUS
    <3>3. d = [node |-> node2, on |-> on \ {b}, stray |-> stray2, allow |-> allow,
               named |-> named, target |-> target]
      <4>1. d = [c EXCEPT !.on = on \ {b}, !.stray = stray2, !.node = node2]
        BY <1>0, <1>3, <2>1, <3>1, <3>2, Zenon DEF WithBlock
      <4>2. QED
        BY <1>1, <4>1
    <3>4. /\ node2 = [g \in Fields |-> node2[g]]
          /\ \A g \in Fields : /\ node2[g] \in Nodes(g)
                               /\ Schema[g].block \in Blocks \ (on \ {b}) => node2[g] = "missing"
      BY <1>1, <3>1, NodesAre
    <3>5. on \ {b} \subseteq Blocks
      BY <1>1
    <3>6. stray2 \in BOOLEAN /\ (stray2 => "quiet_hours" \in on \ {b})
      BY <1>1, <3>2
    <3>7. QED
      BY <1>1, <3>3, <3>4, <3>5, <3>6, MakeContents
  <2>2. CASE b \notin on
    <3>1. d = [node |-> node, on |-> on \cup {b}, stray |-> stray, allow |-> allow,
               named |-> named, target |-> target]
      BY <1>1, <1>3, <2>2 DEF WithBlock
    <3>2. on \cup {b} \subseteq Blocks
      BY <1>1
    <3>3. \A g \in Fields : Schema[g].block \in Blocks \ (on \cup {b}) => node[g] = "missing"
      BY <1>1
    <3>4. stray => "quiet_hours" \in on \cup {b}
      BY <1>1
    <3>5. QED
      BY <1>1, <3>1, <3>2, <3>3, <3>4, MakeContents
  <2>3. QED
    BY <2>1, <2>2
<1>4. CASE d = [c EXCEPT !.allow = Macs \ @]
  <2>1. d = [node |-> node, on |-> on, stray |-> stray, allow |-> Macs \ allow,
             named |-> named, target |-> target]
    BY <1>1, <1>4
  <2>2. Macs \ allow \subseteq Macs
    OBVIOUS
  <2>3. QED
    BY <1>1, <2>1, <2>2, MakeContents
<1>5. CASE d = [c EXCEPT !.stray = ~@ /\ "quiet_hours" \in c.on]
  <2>1. PICK stray2 : stray2 = (~stray /\ "quiet_hours" \in on)
    OBVIOUS
  <2>2. d = [c EXCEPT !.stray = stray2]
    BY <1>0, <1>5, <2>1, Zenon
  <2>3. d = [node |-> node, on |-> on, stray |-> stray2, allow |-> allow,
             named |-> named, target |-> target]
    BY <1>1, <2>2
  <2>4. stray2 \in BOOLEAN /\ (stray2 => "quiet_hours" \in on)
    BY <2>1
  <2>5. QED
    BY <1>1, <2>3, <2>4, MakeContents
<1>6. \/ \E f \in {k \in Fields : Schema[k].block \notin Blocks \ on} :
           \E n \in Nodes(f) : d = [c EXCEPT !.node[f] = n]
      \/ \E b \in Blocks : d = WithBlock(c, b)
      \/ d = [c EXCEPT !.allow = Macs \ @]
      \/ d = [c EXCEPT !.stray = ~@ /\ "quiet_hours" \in c.on]
  <2>1. \/ d \in UNION {{[c EXCEPT !.node[f] = n] : n \in Nodes(f)} :
                       f \in {k \in Fields : Schema[k].block \notin Blocks \ c.on}}
        \/ d \in {WithBlock(c, b) : b \in Blocks}
        \/ d \in {[c EXCEPT !.allow = Macs \ @], [c EXCEPT !.stray = ~@ /\ "quiet_hours" \in c.on]}
    BY Zenon DEF HandEdits
  <2>2. CASE d \in UNION {{[c EXCEPT !.node[f] = n] : n \in Nodes(f)} :
                       f \in {k \in Fields : Schema[k].block \notin Blocks \ c.on}}
    BY <1>0, <2>2, Zenon
  <2>3. QED
    BY <2>1, <2>2, Zenon
<1>7. QED
  BY <1>2, <1>3, <1>4, <1>5, <1>6

LEMMA DeviceEditsAre ==
  ASSUME NEW c, IsContents(c), NEW m \in Macs, NEW d \in DeviceEdits(c, m)
  PROVE  IsContents(d)
<1>0. PICK node, on, stray, allow, named, target :
        /\ node = c.node /\ on = c.on /\ stray = c.stray
        /\ allow = c.allow /\ named = c.named /\ target = c.target
  OBVIOUS
<1>1. /\ c = [node |-> node, on |-> on, stray |-> stray, allow |-> allow,
              named |-> named, target |-> target]
      /\ on \subseteq Blocks /\ stray \in BOOLEAN /\ (stray => "quiet_hours" \in on)
      /\ allow \subseteq Macs /\ named \subseteq Macs /\ target \subseteq Macs
      /\ node = [f \in Fields |-> node[f]]
      /\ \A f \in Fields : /\ node[f] \in Nodes(f)
                           /\ Schema[f].block \in Blocks \ on => node[f] = "missing"
  BY <1>0, ContentsAre
<1>2. PICK b \in BOOLEAN : \/ d = [c EXCEPT !.allow = Put1(@, m, b)]
                           \/ d = [c EXCEPT !.named = Put1(@, m, b)]
                           \/ d = [c EXCEPT !.target = Put1(@, m, b)]
  BY DEF DeviceEdits
<1>3. \A S : S \subseteq Macs => Put1(S, m, b) \subseteq Macs
  BY DEF Put1
<1>4. CASE d = [c EXCEPT !.allow = Put1(@, m, b)]
  <2>1. d = [node |-> node, on |-> on, stray |-> stray, allow |-> Put1(allow, m, b),
             named |-> named, target |-> target]
    BY <1>1, <1>4
  <2>2. QED
    BY <1>1, <1>3, <2>1, MakeContents
<1>5. CASE d = [c EXCEPT !.named = Put1(@, m, b)]
  <2>1. d = [node |-> node, on |-> on, stray |-> stray, allow |-> allow,
             named |-> Put1(named, m, b), target |-> target]
    BY <1>1, <1>5
  <2>2. QED
    BY <1>1, <1>3, <2>1, MakeContents
<1>6. CASE d = [c EXCEPT !.target = Put1(@, m, b)]
  <2>1. d = [node |-> node, on |-> on, stray |-> stray, allow |-> allow,
             named |-> named, target |-> Put1(target, m, b)]
    BY <1>1, <1>6
  <2>2. QED
    BY <1>1, <1>3, <2>1, MakeContents
<1>7. QED
  BY <1>2, <1>4, <1>5, <1>6

----------------------------------------------------------------------------
(* The form and what becomes of it.                                        *)

\* An input shows what it could be given, never what cannot be coerced.
LEMMA DisplayIs ==
  ASSUME NEW c, NEW f \in Fields, c.node[f] \in Nodes(f)
  PROVE  Display(c, f) \in Inputs(f) /\ Display(c, f) # "text"
<1>1. PICK n : n = c.node[f]
  OBVIOUS
<1>2. CASE Schema[f].kind = "bool"
  <2>1. n \in {"missing", "null", "wrong", "on", "off"} /\ Inputs(f) = {"on", "off"}
    BY <1>1, <1>2, NodesAre, InputsAre
  <2>2. Schema[f].shows \in {"on", "off"}
    BY <1>2, DefaultsAre
  <2>3. QED
    BY <1>1, <1>2, <2>1, <2>2 DEF Display
<1>3. CASE Schema[f].kind = "secret_ref"
  BY <1>3, InputsAre DEF Display
<1>4. CASE Schema[f].kind = "int_list"
  <2>1. /\ n \in {"missing", "null", "wrong", "out", "empty", "rungs"}
        /\ Inputs(f) = {"empty", "rungs", "out", "text"}
    BY <1>1, <1>4, NodesAre, InputsAre
  <2>2. Schema[f].shows = "rungs"
    BY <1>4, DefaultsAre
  <2>3. QED
    BY <1>1, <1>4, <2>1, <2>2 DEF Display
<1>5. CASE Schema[f].kind = "int"
  <2>1. /\ n \in {"missing", "null", "wrong", "out", "zero", "low"}
        /\ Inputs(f) = {"blank", "zero", "low", "out", "text"}
    BY <1>1, <1>5, NodesAre, InputsAre
  <2>2. Schema[f].shows \in {"blank", "zero", "low"}
    BY <1>5, DefaultsAre
  <2>3. QED
    BY <1>1, <1>5, <2>1, <2>2 DEF Display
<1>6. CASE Schema[f].kind = "int_or_null"
  <2>1. /\ n \in {"missing", "null", "wrong", "zero", "low"}
        /\ Inputs(f) = {"blank", "zero", "low", "text"}
    BY <1>1, <1>6, NodesAre, InputsAre
  <2>2. Schema[f].shows = "low"
    BY <1>6, DefaultsAre, FieldIs
  <2>3. QED
    BY <1>1, <1>6, <2>1, <2>2 DEF Display
<1>7. QED
  BY <1>2, <1>3, <1>4, <1>5, <1>6, FieldIs

LEMMA PageOfIs ==
  ASSUME NEW c, IsContents(c)
  PROVE  PageOf(c) \in Pages /\ \A f \in Fields : PageOf(c).shown[f] \in Inputs(f)
<1>1. PICK shown : shown = [f \in Fields |-> Display(c, f)]
  OBVIOUS
<1>2. \A f \in Fields : shown[f] \in Inputs(f)
  BY <1>1, ContentsAre, DisplayIs
<1>3. shown \in [Fields -> UNION {Inputs(f) : f \in Fields}]
  <2>1. \A f \in Fields : shown[f] \in UNION {Inputs(g) : g \in Fields}
    BY <1>2
  <2>2. QED
    BY <1>1, <2>1
<1>4. PageOf(c) = [open |-> TRUE, shown |-> shown, ticked |-> c.on,
                   allow |-> c.allow, named |-> c.named, target |-> c.target]
  BY <1>1 DEF PageOf
<1>5. /\ c.on \subseteq Blocks
      /\ c.allow \subseteq Macs /\ c.named \subseteq Macs /\ c.target \subseteq Macs
  BY ContentsAre
<1>6. QED
  BY <1>2, <1>3, <1>4, <1>5 DEF Pages

\* The keys of the mapping.
Node(p, f) ==
  IF Schema[f].block \in Blocks \ {b \in Blocks : Enabled(p, b)} \/ Coerce(f, p.shown[f]) = "omit"
  THEN "missing" ELSE Coerce(f, p.shown[f])

LEMMA MappingIs ==
  ASSUME NEW p
  PROVE  /\ Mapping(p).on = {b \in Blocks : Enabled(p, b)}
         /\ \A f \in Fields : Mapping(p).node[f] = Node(p, f)
         /\ Mapping(p).stray = FALSE /\ Mapping(p).allow = p.allow
         /\ Mapping(p).named = p.named /\ Mapping(p).target = p.target
         /\ Mapping(p) = [node |-> [f \in Fields |-> Node(p, f)],
                          on |-> {b \in Blocks : Enabled(p, b)}, stray |-> FALSE,
                          allow |-> p.allow, named |-> p.named, target |-> p.target]
<1>1. Mapping(p) = [node |-> [f \in Fields |-> Node(p, f)],
                    on |-> {b \in Blocks : Enabled(p, b)}, stray |-> FALSE,
                    allow |-> p.allow, named |-> p.named, target |-> p.target]
  BY Zenon DEF Mapping, Node
<1>2. PICK node, on : node = [f \in Fields |-> Node(p, f)] /\ on = {b \in Blocks : Enabled(p, b)}
  OBVIOUS
<1>3. QED
  BY <1>1, <1>2

\* An input of the form is coerced to what a file may hold, or to nothing.
LEMMA CoerceIs ==
  ASSUME NEW f \in Fields, NEW s \in Inputs(f), Coerce(f, s) # "error"
  PROVE  /\ Coerce(f, s) \in {"omit"} \cup Nodes(f)
         /\ Coerce(f, s) # "missing"
         /\ Schema[f].kind \in {"bool", "int_or_null", "int_list"} => Coerce(f, s) # "omit"
<1>1. CASE Schema[f].kind = "bool"
  <2>1. s \in {"on", "off"} /\ Nodes(f) = {"missing", "null", "wrong", "on", "off"}
    BY <1>1, NodesAre, InputsAre
  <2>2. QED
    BY <1>1, <2>1 DEF Coerce
<1>2. CASE Schema[f].kind = "secret_ref"
  <2>1. s \in {"blank", "ref", "unset", "text"} /\ Nodes(f) = {"missing", "null", "ref", "unset", "literal"}
    BY <1>2, NodesAre, InputsAre
  <2>2. QED
    BY <1>2, <2>1 DEF Coerce
<1>3. CASE Schema[f].kind = "int_list"
  <2>1. /\ s \in {"empty", "rungs", "out", "text"}
        /\ Nodes(f) = {"missing", "null", "wrong", "out", "empty", "rungs"}
    BY <1>3, NodesAre, InputsAre
  <2>2. QED
    BY <1>3, <2>1 DEF Coerce
<1>4. CASE Schema[f].kind = "int"
  <2>1. /\ s \in {"blank", "zero", "low", "out", "text"}
        /\ Nodes(f) = {"missing", "null", "wrong", "out", "zero", "low"}
    BY <1>4, NodesAre, InputsAre
  <2>2. QED
    BY <1>4, <2>1 DEF Coerce
<1>5. CASE Schema[f].kind = "int_or_null"
  <2>1. s \in {"blank", "zero", "low", "text"} /\ Nodes(f) = {"missing", "null", "wrong", "zero", "low"}
    BY <1>5, NodesAre, InputsAre
  <2>2. QED
    BY <1>5, <2>1 DEF Coerce
<1>6. QED
  BY <1>1, <1>2, <1>3, <1>4, <1>5, FieldIs

LEMMA MappingContents ==
  ASSUME NEW p \in Pages, \A f \in Fields : p.shown[f] \in Inputs(f),
         \A f \in Fields : Coerce(f, p.shown[f]) # "error"
  PROVE  IsContents(Mapping(p)) /\ AlwaysAsked(Mapping(p))
<1>1. PICK node : node = [f \in Fields |-> Node(p, f)]
  OBVIOUS
<1>2. PICK on : on = {b \in Blocks : Enabled(p, b)}
  OBVIOUS
<1>3. ASSUME NEW f \in Fields
      PROVE  /\ node[f] \in Nodes(f) /\ (Schema[f].block \in Blocks \ on => node[f] = "missing")
             /\ Schema[f].kind \in {"bool", "int_or_null", "int_list"} => node[f] # "missing"
  <2>1. PICK v : v = Coerce(f, p.shown[f])
    OBVIOUS
  <2>2. /\ v \in {"omit"} \cup Nodes(f) /\ v # "missing"
        /\ Schema[f].kind \in {"bool", "int_or_null", "int_list"} => v # "omit"
    BY <2>1, CoerceIs
  <2>3. node[f] = IF Schema[f].block \in Blocks \ on \/ v = "omit" THEN "missing" ELSE v
    BY <1>1, <1>2, <2>1 DEF Node
  <2>4. Schema[f].kind \in {"bool", "int_or_null", "int_list"} => Schema[f].block \notin Blocks
    BY FieldIs, NoBlock
  <2>5. QED
    BY <2>2, <2>3, <2>4, NodesAre
<1>4. on \subseteq Blocks /\ node = [f \in Fields |-> node[f]]
  BY <1>1, <1>2
<1>5. p.allow \subseteq Macs /\ p.named \subseteq Macs /\ p.target \subseteq Macs
  BY DEF Pages
<1>6. IsContents([node |-> node, on |-> on, stray |-> FALSE, allow |-> p.allow,
                  named |-> p.named, target |-> p.target])
  BY <1>3, <1>4, <1>5, MakeContents
<1>7. Mapping(p) = [node |-> node, on |-> on, stray |-> FALSE, allow |-> p.allow,
                    named |-> p.named, target |-> p.target]
  BY <1>1, <1>2, MappingIs
<1>8. QED
  BY <1>3, <1>6, <1>7 DEF AlwaysAsked

\* write_config keeps what it is not told of.
Written(c, m, f) == IF m.node[f] = "missing" /\ Kept(c, m, f) THEN c.node[f] ELSE m.node[f]

LEMMA OverlayIs ==
  ASSUME NEW c, IsContents(c), NEW m, IsContents(m)
  PROVE  /\ Overlay(c, m).on = OverlayOn(c, m)
         /\ Overlay(c, m).stray = (c.stray /\ "quiet_hours" \in m.on)
         /\ Overlay(c, m).allow = m.allow
         /\ Overlay(c, m).named = m.named /\ Overlay(c, m).target = m.target
         /\ \A f \in Fields : Overlay(c, m).node[f] = Written(c, m, f)
         /\ IsContents(Overlay(c, m))
<1>1. PICK on : on = OverlayOn(c, m)
  OBVIOUS
<1>2. PICK node : node = [f \in Fields |-> Written(c, m, f)]
  OBVIOUS
<1>3. PICK stray : stray = (c.stray /\ "quiet_hours" \in m.on)
  OBVIOUS
<1>4. m = [node |-> m.node, on |-> m.on, stray |-> m.stray, allow |-> m.allow,
           named |-> m.named, target |-> m.target]
  BY ContentsAre
<1>5. Overlay(c, m) = [m EXCEPT !.on = on, !.stray = stray, !.node = node]
  <2>1. Overlay(c, m) = [m EXCEPT !.on = OverlayOn(c, m),
                                  !.stray = c.stray /\ "quiet_hours" \in m.on,
                                  !.node = [f \in Fields |-> Written(c, m, f)]]
    BY <1>4 DEF Overlay, Written
  <2>2. QED
    BY <1>1, <1>2, <1>3, <2>1, Zenon
<1>6. Overlay(c, m) = [node |-> node, on |-> on, stray |-> stray, allow |-> m.allow,
                       named |-> m.named, target |-> m.target]
  BY <1>4, <1>5
<1>7. on \subseteq Blocks /\ m.on \subseteq on
  BY <1>1, ContentsAre DEF OverlayOn
<1>8. /\ node = [f \in Fields |-> node[f]]
      /\ \A f \in Fields : /\ node[f] \in Nodes(f)
                           /\ Schema[f].block \in Blocks \ on => node[f] = "missing"
  <2>1. ASSUME NEW f \in Fields
        PROVE  node[f] \in Nodes(f) /\ (Schema[f].block \in Blocks \ on => node[f] = "missing")
    <3>1. c.node[f] \in Nodes(f) /\ m.node[f] \in Nodes(f)
      BY ContentsAre
    <3>2. ASSUME Schema[f].block \in Blocks \ on
          PROVE  m.node[f] = "missing" /\ ~Kept(c, m, f)
      <4>1. Schema[f].block \in Blocks \ m.on
        BY <1>7, <3>2
      <4>2. m.node[f] = "missing"
        BY <4>1, ContentsAre
      <4>3. Schema[f].block \notin {"none", "safety_rails"} /\ Schema[f].block \notin OverlayOn(c, m)
        BY <1>1, <3>2, FieldIs
      <4>4. ~Kept(c, m, f)
        BY <4>3 DEF Kept
      <4>5. QED
        BY <4>2, <4>4
    <3>3. QED
      BY <1>2, <3>1, <3>2 DEF Written
  <2>2. QED
    BY <1>2, <2>1
<1>9. IsContents(Overlay(c, m))
  <2>1. /\ stray \in BOOLEAN /\ (stray => "quiet_hours" \in on)
        /\ m.allow \subseteq Macs /\ m.named \subseteq Macs /\ m.target \subseteq Macs
    BY <1>3, <1>7, ContentsAre
  <2>2. IsContents([node |-> node, on |-> on, stray |-> stray, allow |-> m.allow,
                    named |-> m.named, target |-> m.target])
    BY <1>7, <1>8, <2>1, MakeContents
  <2>3. QED
    BY <1>6, <2>2
<1>10. QED
  BY <1>1, <1>2, <1>3, <1>6, <1>9

\* An input left as it is gives back what it was shown for, or nothing.
LEMMA BackAgain ==
  ASSUME NEW c, NEW f \in Fields, c.node[f] \in Nodes(f), Schema[f].block \notin Blocks \ c.on,
         NEW v, v = Coerce(f, Display(c, f))
  PROVE  \/ v = "omit" \/ v = c.node[f]
         \/ /\ c.node[f] = "missing" /\ v = Schema[f].default
            /\ v \notin {"missing", "null", "wrong", "out"}
         \/ NotAsShown(c, f)
<1>1. PICK n : n = c.node[f]
  OBVIOUS
<1>2. n \in {"wrong", "out"} => Loaded(c, f) = "bad"
  BY <1>1 DEF Loaded
<1>3. CASE Schema[f].kind = "bool"
  <2>1. /\ n \in {"missing", "null", "wrong", "on", "off"}
        /\ Schema[f].shows = Schema[f].default /\ Schema[f].default \in {"on", "off"}
    BY <1>1, <1>3, NodesAre, DefaultsAre
  <2>2. n = "null" => NotAsShown(c, f)
    <3>1. f = "dry_run" \/ Schema[f].null = "bad"
      BY <1>3, FieldIs, DefaultsAre
    <3>2. QED
      BY <1>1, <3>1 DEF NotAsShown, Loaded
  <2>3. n \notin {"null", "wrong"} =>
          Display(c, f) = IF n = "missing" THEN Schema[f].default ELSE n
    BY <1>1, <1>3, <2>1 DEF Display
  <2>4. QED
    BY <1>1, <1>2, <1>3, <2>1, <2>2, <2>3 DEF Coerce, NotAsShown
<1>4. CASE Schema[f].kind = "secret_ref"
  <2>1. n \in {"missing", "null", "ref", "unset", "literal"} /\ Schema[f].shows = "blank"
    BY <1>1, <1>4, NodesAre, DefaultsAre
  <2>2. Display(c, f) = IF n \in {"ref", "unset"} THEN n ELSE "blank"
    BY <1>1, <1>4, <2>1 DEF Display
  <2>3. QED
    BY <1>1, <1>4, <2>1, <2>2 DEF Coerce
<1>5. CASE Schema[f].kind = "int_list"
  <2>1. n \in {"missing", "null", "wrong", "out", "empty", "rungs"} /\ f = "ladder"
    BY <1>1, <1>5, NodesAre, FieldIs
  <2>2. n \in {"missing", "null"} => NotAsShown(c, f)
    BY <1>1, <2>1 DEF NotAsShown
  <2>3. n \in {"empty", "rungs", "out"} => Display(c, f) = n
    BY <1>1, <1>5 DEF Display
  <2>4. QED
    BY <1>1, <1>2, <1>5, <2>1, <2>2, <2>3 DEF Coerce, NotAsShown
<1>6. CASE Schema[f].kind = "int"
  <2>1. /\ n \in {"missing", "null", "wrong", "out", "zero", "low"}
        /\ Schema[f].default \in {"zero", "low", "off"}
        /\ Schema[f].shows = IF Schema[f].default = "off" THEN "blank" ELSE Schema[f].default
    BY <1>1, <1>6, NodesAre, DefaultsAre
  <2>2. Display(c, f) = IF n = "missing" THEN Schema[f].shows
                        ELSE IF n \in {"null", "wrong"} THEN "blank" ELSE n
    BY <1>1, <1>6, <2>1 DEF Display
  <2>3. QED
    BY <1>1, <1>6, <2>1, <2>2 DEF Coerce
<1>7. CASE Schema[f].kind = "int_or_null"
  <2>1. /\ n \in {"missing", "null", "wrong", "zero", "low"}
        /\ Schema[f].shows = "low" /\ Schema[f].default = "low"
    BY <1>1, <1>7, NodesAre, DefaultsAre, FieldIs
  <2>2. Display(c, f) = IF n = "missing" THEN "low" ELSE IF n \in {"null", "wrong"} THEN "blank" ELSE n
    BY <1>1, <1>7, <2>1 DEF Display
  <2>3. QED
    BY <1>1, <1>2, <1>7, <2>1, <2>2 DEF Coerce, NotAsShown
<1>8. QED
  BY <1>3, <1>4, <1>5, <1>6, <1>7, FieldIs

\* Where an input left as it is gives nothing and the section is written anew, there was
\* nothing that the loader would have taken, but a password in the file.
LEMMA NothingLost ==
  ASSUME NEW c, NEW f \in Fields, c.node[f] \in Nodes(f), Schema[f].block \notin Blocks \ c.on,
         Coerce(f, Display(c, f)) = "omit",
         Schema[f].block \in {"safety_rails", "dns_sources"}
  PROVE  NotAsShown(c, f) \/ (f \in {"own", "shared"} /\ c.node[f] \in {"missing", "null"})
<1>1. PICK n : n = c.node[f]
  OBVIOUS
<1>2. CASE Schema[f].block = "dns_sources"
  <2>1. f \in {"own", "shared"} /\ Schema[f].kind = "secret_ref"
    BY <1>2, FieldIs
  <2>2. n \in {"missing", "null", "ref", "unset", "literal"}
    BY <1>1, <2>1, NodesAre
  <2>3. n \in {"ref", "unset"} => Display(c, f) = n
    BY <1>1, <2>1 DEF Display
  <2>4. n \notin {"ref", "unset"}
    BY <2>3 DEF Coerce
  <2>5. QED
    BY <1>1, <2>1, <2>2, <2>4 DEF NotAsShown
<1>3. CASE Schema[f].block = "safety_rails"
  <2>1. f \in {"gap", "cap", "window"} /\ Schema[f].kind = "int"
    <3>1. f \in {"gap", "cap", "window"}
      BY <1>3, FieldIs
    <3>2. QED
      BY <3>1, SchemaIs DEF FieldSpec
  <2>2. Schema[f].null = "bad" /\ Schema[f].shows \in {"zero", "low"}
    BY <2>1, SchemaIs DEF FieldSpec
  <2>3. n \in {"missing", "null", "wrong", "out", "zero", "low"}
    BY <1>1, <2>1, NodesAre
  <2>4. n \notin {"null", "wrong"} => Display(c, f) \in {"zero", "low", "out"}
    BY <1>1, <2>1, <2>2, <2>3 DEF Display
  <2>5. n \in {"null", "wrong"}
    BY <2>4 DEF Coerce
  <2>6. Loaded(c, f) = "bad"
    BY <1>1, <2>2, <2>5 DEF Loaded
  <2>7. QED
    BY <2>6 DEF NotAsShown
<1>4. QED
  BY <1>2, <1>3

LEMMA PageOfParts ==
  ASSUME NEW c
  PROVE  /\ PageOf(c).open /\ \A f \in Fields : PageOf(c).shown[f] = Display(c, f)
         /\ PageOf(c).ticked = c.on /\ PageOf(c).allow = c.allow
         /\ PageOf(c).named = c.named /\ PageOf(c).target = c.target
BY DEF PageOf

LEMMA PageMaps ==
  ASSUME NEW c, IsContents(c)
  PROVE  IsContents(Mapping(PageOf(c)))
<1>1. PICK p : p = PageOf(c)
  OBVIOUS
<1>2. p \in Pages /\ \A f \in Fields : p.shown[f] \in Inputs(f)
  BY <1>1, PageOfIs
<1>3. ASSUME NEW f \in Fields
      PROVE  Coerce(f, p.shown[f]) # "error"
  <2>1. PICK s : s = Display(c, f)
    OBVIOUS
  <2>2. p.shown[f] = s
    BY <1>1, <2>1, PageOfParts
  <2>3. s \in Inputs(f) /\ s # "text"
    BY <2>1, ContentsAre, DisplayIs
  <2>4. s # "error"
    BY <2>3, FieldIs, InputsAre
  <2>5. QED
    BY <2>2, <2>3, <2>4 DEF Coerce
<1>4. QED
  BY <1>1, <1>2, <1>3, MappingContents

\* The form model and the mapping are a round-trip pair.
LEMMA RoundTrip ==
  ASSUME NEW c, IsContents(c), NEW m, m = Mapping(PageOf(c)), NEW t, t = Overlay(c, m)
  PROVE  /\ \A f \in Fields : SameConfig(c, t, f) \/ NotAsShown(c, f)
         /\ t.on = c.on /\ t.stray = c.stray
         /\ <<t.allow, t.named, t.target>> = <<c.allow, c.named, c.target>>
         /\ \A f \in {"own", "shared"} : "dns_sources" \in c.on =>
              /\ "dns_sources" \in m.on
              /\ m.node[f] = "missing" \/ m.node[f] = c.node[f]
<1>1. PICK p : p = PageOf(c)
  OBVIOUS
<1>2. IsContents(m)
  BY PageMaps
<1>3. /\ p.ticked = c.on /\ p.allow = c.allow /\ p.named = c.named /\ p.target = c.target
      /\ \A f \in Fields : p.shown[f] = Display(c, f)
  BY <1>1, PageOfParts
<1>4. /\ m.on = {b \in Blocks : Enabled(p, b)} /\ m.allow = p.allow
      /\ m.named = p.named /\ m.target = p.target
      /\ \A f \in Fields : m.node[f] = Node(p, f)
  BY <1>1, MappingIs
<1>5. c.on \subseteq Blocks /\ "dns_sources" # "dns_thrash" /\ "quiet_hours" # "dns_thrash"
  BY ContentsAre
<1>6. /\ m.on \subseteq c.on /\ \A b \in c.on : b # "dns_thrash" => b \in m.on
  <2>1. \A b \in Blocks : Enabled(p, b) => b \in c.on
    BY <1>3 DEF Enabled
  <2>2. \A b \in c.on : b # "dns_thrash" => Enabled(p, b)
    BY <1>3 DEF Enabled
  <2>3. QED
    BY <1>4, <1>5, <2>1, <2>2
<1>7. OverlayOn(c, m) = c.on
  BY <1>6 DEF OverlayOn
<1>8. /\ t.on = c.on /\ t.allow = m.allow /\ t.named = m.named /\ t.target = m.target
      /\ \A f \in Fields : t.node[f] = Written(c, m, f)
  BY <1>2, <1>7, OverlayIs
<1>9. t.stray = c.stray
  <2>1. t.stray = (c.stray /\ "quiet_hours" \in m.on)
    BY <1>2, OverlayIs
  <2>2. c.stray \in BOOLEAN /\ (c.stray => "quiet_hours" \in m.on)
    BY <1>5, <1>6, ContentsAre
  <2>3. CASE c.stray = TRUE
    <3>1. ("quiet_hours" \in m.on) = TRUE
      BY <2>2, <2>3
    <3>2. QED
      BY <2>1, <2>3, <3>1, Zenon
  <2>4. CASE c.stray = FALSE
    BY <2>1, <2>4, Zenon
  <2>5. QED
    BY <2>2, <2>3, <2>4
<1>10. ASSUME NEW f \in Fields, Schema[f].block \notin Blocks \ c.on, NEW v,
              v = Coerce(f, Display(c, f))
       PROVE  /\ m.node[f] = "missing" \/ (m.node[f] = v /\ v # "omit")
              /\ v # "omit" /\ Schema[f].block # "dns_thrash" => m.node[f] = v
  <2>1. m.node[f] = IF Schema[f].block \in Blocks \ m.on \/ v = "omit" THEN "missing" ELSE v
    BY <1>3, <1>4, <1>10 DEF Node
  <2>2. Schema[f].block # "dns_thrash" => Schema[f].block \notin Blocks \ m.on
    BY <1>6, <1>10
  <2>3. QED
    BY <2>1, <2>2
<1>11. ASSUME NEW f \in Fields
       PROVE  SameConfig(c, t, f) \/ NotAsShown(c, f)
  <2>1. CASE Schema[f].block \in Blocks \ c.on
    BY <1>8, <2>1 DEF SameConfig, Loaded
  <2>2. CASE Schema[f].block \notin Blocks \ c.on
    <3>1. PICK v : v = Coerce(f, Display(c, f))
      OBVIOUS
    <3>2. c.node[f] \in Nodes(f)
      BY ContentsAre
    <3>3. \/ t.node[f] = c.node[f]
          \/ t.node[f] = v /\ v # "omit"
          \/ m.node[f] = "missing" /\ ~Kept(c, m, f) /\ t.node[f] = "missing"
      BY <1>8, <1>10, <2>2, <3>1 DEF Written
    <3>4. CASE t.node[f] = c.node[f]
      BY <1>8, <3>4 DEF SameConfig, Loaded
    <3>5. CASE t.node[f] = v /\ v # "omit"
      <4>1. CASE v = c.node[f]
        BY <1>8, <3>5, <4>1 DEF SameConfig, Loaded
      <4>2. CASE /\ c.node[f] = "missing" /\ v = Schema[f].default
                 /\ v \notin {"missing", "null", "wrong", "out"}
        BY <1>8, <2>2, <3>5, <4>2 DEF SameConfig, Loaded
      <4>3. QED
        BY <2>2, <3>1, <3>2, <3>5, <4>1, <4>2, BackAgain
    <3>6. CASE m.node[f] = "missing" /\ ~Kept(c, m, f) /\ t.node[f] = "missing"
      <4>1. Schema[f].block \in {"safety_rails", "dns_sources"}
        <5>1. Schema[f].block \in {"none", "safety_rails"} \cup c.on
          BY <2>2, FieldIs
        <5>2. Schema[f].block \in c.on \ {"dns_sources"} => Kept(c, m, f)
          BY <1>7 DEF Kept
        <5>3. Schema[f].block = "none" => Kept(c, m, f)
          BY DEF Kept
        <5>4. QED
          BY <3>6, <5>1, <5>2, <5>3
      <4>2. v = "omit" \/ v = "missing"
        BY <1>10, <2>2, <3>1, <3>6, <4>1
      <4>3. CASE v = "missing"
        <5>1. v = c.node[f] \/ NotAsShown(c, f)
          BY <2>2, <3>1, <3>2, <4>3, BackAgain
        <5>2. v = c.node[f] => SameConfig(c, t, f)
          BY <1>8, <3>6, <4>3 DEF SameConfig, Loaded
        <5>3. QED
          BY <5>1, <5>2
      <4>4. CASE v = "omit"
        <5>1. NotAsShown(c, f) \/ (f \in {"own", "shared"} /\ c.node[f] \in {"missing", "null"})
          BY <2>2, <3>1, <3>2, <4>1, <4>4, NothingLost
        <5>2. f \in {"own", "shared"} => Schema[f].default = "none" /\ Schema[f].null = "none"
          BY DefaultsAre
        <5>3. QED
          BY <1>8, <2>2, <3>6, <5>1, <5>2 DEF SameConfig, Loaded
      <4>5. QED
        BY <4>2, <4>3, <4>4
    <3>7. QED
      BY <3>3, <3>4, <3>5, <3>6
  <2>3. QED
    BY <2>1, <2>2
<1>12. ASSUME NEW f \in {"own", "shared"}, "dns_sources" \in c.on
       PROVE  "dns_sources" \in m.on /\ (m.node[f] = "missing" \/ m.node[f] = c.node[f])
  <2>1. "dns_sources" \in m.on
    BY <1>5, <1>6, <1>12
  <2>2. f \in Fields /\ Schema[f].kind = "secret_ref" /\ Schema[f].block = "dns_sources"
    BY <1>12, SchemaIs DEF FieldSpec
  <2>3. PICK v : v = Coerce(f, Display(c, f))
    OBVIOUS
  <2>4. m.node[f] = "missing" \/ (m.node[f] = v /\ v # "omit")
    BY <1>10, <1>12, <2>2, <2>3
  <2>5. v = "omit" \/ v = c.node[f]
    <3>1. Display(c, f) = IF c.node[f] \in {"ref", "unset"} THEN c.node[f] ELSE "blank"
      <4>1. Schema[f].shows = "blank"
        BY <2>2, DefaultsAre
      <4>2. QED
        BY <2>2, <4>1 DEF Display
    <3>2. QED
      BY <2>2, <2>3, <3>1 DEF Coerce
  <2>6. QED
    BY <2>1, <2>4, <2>5
<1>13. QED
  BY <1>3, <1>4, <1>8, <1>9, <1>11, <1>12

\* The form writes no password, only names.
LEMMA AskedNoLiteral ==
  ASSUME NEW c, IsContents(c), NEW m, m = Mapping(PageOf(c)), NEW f \in Fields
  PROVE  m.node[f] # "literal"
<1>1. PICK s : s = Display(c, f)
  OBVIOUS
<1>2. s \in Inputs(f)
  BY <1>1, ContentsAre, DisplayIs
<1>3. s # "literal"
  BY <1>2, InputsAre, FieldIs
<1>4. Coerce(f, s) # "literal"
  BY <1>3 DEF Coerce
<1>5. m.node[f] = Node(PageOf(c), f) /\ PageOf(c).shown[f] = s
  BY <1>1, MappingIs, PageOfParts
<1>6. QED
  BY <1>4, <1>5 DEF Node

\* A page that is accepted as it was opened gives the instance a password; so if that
\* is another one than before, the file had the instance's own in it.
LEMMA PasswordKept ==
  ASSUME NEW c, IsContents(c), NEW m, m = Mapping(PageOf(c)), Accepted(m),
         NEW t, t = Overlay(c, m), c.node["own"] # "literal"
  PROVE  Password(t) = Password(c)
<1>1. "own" \in Fields /\ "shared" \in Fields
  BY SchemaIs
<1>2. c.node["own"] \in {"missing", "null", "ref", "unset"}
  <2>1. c.node["own"] \in Nodes("own") /\ Schema["own"].kind = "secret_ref"
    BY <1>1, ContentsAre, FieldIs
  <2>2. Nodes("own") = {"missing", "null", "ref", "unset", "literal"}
    BY <1>1, <2>1, NodesAre
  <2>3. QED
    BY <2>1, <2>2
<1>3. c.node["shared"] \in {"missing", "null", "ref", "unset", "literal"}
  <2>1. c.node["shared"] \in Nodes("shared") /\ Schema["shared"].kind = "secret_ref"
    BY <1>1, ContentsAre, FieldIs
  <2>2. Nodes("shared") = {"missing", "null", "ref", "unset", "literal"}
    BY <1>1, <2>1, NodesAre
  <2>3. QED
    BY <2>1, <2>2
<1>4. /\ Schema["own"].block = "dns_sources" /\ Schema["shared"].block = "dns_sources"
      /\ Schema["own"].default = "none" /\ Schema["own"].null = "none"
      /\ Schema["shared"].default = "none" /\ Schema["shared"].null = "none"
      /\ "dns_sources" \in Blocks
  BY <1>1, FieldIs, DefaultsAre DEF Blocks
<1>5. SameConfig(c, t, "own") \/ NotAsShown(c, "own")
  BY <1>1, RoundTrip
<1>6. SameConfig(c, t, "shared") \/ NotAsShown(c, "shared")
  BY <1>1, RoundTrip
<1>7. Loaded(c, "own") # "bad" /\ Loaded(c, "shared") # "bad"
  BY <1>2, <1>3, <1>4 DEF Loaded
<1>8. Loaded(t, "own") = Loaded(c, "own")
  BY <1>5, <1>7 DEF NotAsShown, SameConfig
<1>9. c.node["shared"] # "literal" => Loaded(t, "shared") = Loaded(c, "shared")
  BY <1>6, <1>7 DEF NotAsShown, SameConfig
<1>10. CASE Loaded(c, "own") # "none"
  BY <1>8, <1>10 DEF Password
<1>11. CASE Loaded(c, "own") = "none"
  <2>1. "dns_sources" \in c.on
    BY <1>4, <1>11 DEF Loaded
  <2>2. c.node["own"] \in {"missing", "null"}
    BY <1>2, <1>4, <1>11, <2>1 DEF Loaded
  <2>3. /\ "dns_sources" \in m.on
        /\ m.node["own"] = "missing" \/ m.node["own"] = c.node["own"]
        /\ m.node["shared"] = "missing" \/ m.node["shared"] = c.node["shared"]
    BY <2>1, RoundTrip
  <2>4. Loaded(m, "own") = "none"
    BY <1>4, <2>2, <2>3 DEF Loaded
  <2>5. Loaded(m, "shared") # "none"
    BY <2>4 DEF Accepted, Password
  <2>6. CASE c.node["shared"] # "literal"
    BY <1>8, <1>9, <1>11, <2>6 DEF Password
  <2>7. CASE c.node["shared"] = "literal"
    <3>1. m.node["shared"] = "missing"
      BY <1>1, <2>3, <2>7, AskedNoLiteral
    <3>2. QED
      BY <1>4, <2>3, <2>5, <3>1 DEF Loaded
  <2>8. QED
    BY <2>6, <2>7
<1>12. QED
  BY <1>10, <1>11

----------------------------------------------------------------------------
(* What the daemon makes of an overlaid file.                              *)

\* A key that was asked for is the one that is loaded, and so is all of a list.
LEMMA AskedIsLoaded ==
  ASSUME NEW c, IsContents(c), NEW m, IsContents(m), NEW t, t = Overlay(c, m),
         NEW f \in Fields, m.node[f] # "missing" \/ Schema[f].block = "dns_sources"
  PROVE  t.node[f] = m.node[f] /\ Loaded(t, f) = Loaded(m, f)
<1>1. t.node[f] = Written(c, m, f) /\ t.on = OverlayOn(c, m)
  BY OverlayIs
<1>2. t.node[f] = m.node[f]
  <2>1. Schema[f].block = "dns_sources" => ~Kept(c, m, f)
    BY DEF Kept
  <2>2. QED
    BY <1>1, <2>1 DEF Written
<1>3. Schema[f].block \in Blocks \ t.on <=> Schema[f].block \in Blocks \ m.on
  <2>1. CASE m.node[f] # "missing"
    <3>1. Schema[f].block \notin Blocks \ m.on
      BY <2>1, ContentsAre
    <3>2. QED
      BY <1>1, <3>1 DEF OverlayOn
  <2>2. CASE Schema[f].block = "dns_sources"
    BY <1>1, <2>2 DEF OverlayOn
  <2>3. QED
    BY <2>1, <2>2
<1>4. QED
  BY <1>2, <1>3 DEF Loaded

\* What was asked for is accepted, and so is what is written, unless the file's own
\* dns_thrash block, a threshold in it that no one knows, or a key of it that was left
\* alone comes along and is rejected.
LEMMA OverlayAccepted ==
  ASSUME NEW c, IsContents(c), NEW m, IsContents(m), Accepted(m), AlwaysAsked(m),
         NEW t, t = Overlay(c, m),
         "dns_thrash" \notin t.on \ m.on, ~t.stray,
         \A f \in Fields : LeftAlone(m, t, f) =>
           /\ Loaded(t, f) # "bad"
           /\ f \in {"cap", "window"} => ~CapWithoutWindow(t)
           /\ f = "samples" => ~WatchWithoutSamples(t)
  PROVE  Accepted(t)
<1>1. /\ t.on = OverlayOn(c, m) /\ t.named = m.named /\ t.target = m.target
      /\ IsContents(t)
  BY OverlayIs
<1>2. t.on = m.on
  BY <1>1 DEF OverlayOn
<1>3. ASSUME NEW f \in Fields
      PROVE  Loaded(t, f) = Loaded(m, f) \/ LeftAlone(m, t, f)
  <2>1. CASE m.node[f] # "missing"
    BY <2>1, AskedIsLoaded
  <2>2. CASE m.node[f] = "missing" /\ t.node[f] = "missing"
    BY <1>2, <2>2 DEF Loaded
  <2>3. CASE m.node[f] = "missing" /\ t.node[f] # "missing"
    BY <2>3 DEF LeftAlone
  <2>4. QED
    BY <2>1, <2>2, <2>3
<1>4. \A f \in Fields : Loaded(t, f) # "bad"
  BY <1>3 DEF Accepted
<1>5. ASSUME NEW f \in Fields, Schema[f].kind \in {"bool", "int_or_null", "int_list"}
      PROVE  Loaded(t, f) = Loaded(m, f)
  BY <1>3, <1>5 DEF AlwaysAsked, LeftAlone
<1>6. ~(Loaded(t, "rate") = "off" /\ Loaded(t, "retry") = "off")
  <2>1. /\ "rate" \in Fields /\ Schema["rate"].kind = "int_or_null"
        /\ "retry" \in Fields /\ Schema["retry"].kind = "int_or_null"
    BY SchemaIs, FieldIs
  <2>2. Loaded(t, "rate") = Loaded(m, "rate") /\ Loaded(t, "retry") = Loaded(m, "retry")
    BY <1>5, <2>1
  <2>3. QED
    BY <2>2 DEF Accepted
<1>7. ~CapWithoutWindow(t)
  <2>1. "cap" \in Fields /\ "window" \in Fields
    BY SchemaIs
  <2>2. CASE LeftAlone(m, t, "cap") \/ LeftAlone(m, t, "window")
    BY <2>1, <2>2
  <2>3. CASE ~LeftAlone(m, t, "cap") /\ ~LeftAlone(m, t, "window")
    <3>1. Loaded(t, "cap") = Loaded(m, "cap") /\ Loaded(t, "window") = Loaded(m, "window")
      BY <1>3, <2>1, <2>3
    <3>2. QED
      BY <3>1 DEF CapWithoutWindow, Accepted
  <2>4. QED
    BY <2>2, <2>3
<1>8. ~WatchWithoutSamples(t)
  <2>1. "watch" \in Fields /\ "samples" \in Fields /\ Schema["watch"].kind = "bool"
    BY SchemaIs, FieldIs
  <2>2. Loaded(t, "watch") = Loaded(m, "watch")
    BY <1>5, <2>1
  <2>3. CASE LeftAlone(m, t, "samples")
    BY <2>1, <2>3
  <2>4. CASE ~LeftAlone(m, t, "samples")
    <3>1. Loaded(t, "samples") = Loaded(m, "samples")
      BY <1>3, <2>1, <2>4
    <3>2. QED
      BY <2>2, <3>1 DEF WatchWithoutSamples, Accepted
  <2>5. QED
    BY <2>3, <2>4
<1>9. Password(t) # "none"
  <2>1. /\ "own" \in Fields /\ Schema["own"].block = "dns_sources"
        /\ "shared" \in Fields /\ Schema["shared"].block = "dns_sources"
    BY SchemaIs, FieldIs
  <2>2. Loaded(t, "own") = Loaded(m, "own") /\ Loaded(t, "shared") = Loaded(m, "shared")
    BY <2>1, AskedIsLoaded
  <2>3. QED
    BY <2>2 DEF Password, Accepted
<1>10. QED
  BY <1>1, <1>2, <1>4, <1>6, <1>7, <1>8, <1>9, ContentsAre DEF Accepted

----------------------------------------------------------------------------
(* The invariant holds in every state.                                     *)

\* An input the page does not have counts as one it could have.
LEMMA BlankIs ==
  ASSUME NEW f \in Fields
  PROVE  Blank(f) \in Inputs(f)
BY FieldIs, InputsAre DEF Blank

LEMMA FileStart == Init => FileInv
<1> SUFFICES ASSUME Init PROVE FileInv
  OBVIOUS
<1>1. FileOK
  BY TypedAssumption DEF Init, FileOK
<1>2. PageOK
  <2>1. PICK shown : shown = [f \in Fields |-> Blank(f)]
    OBVIOUS
  <2>2. \A f \in Fields : Blank(f) \in UNION {Inputs(g) : g \in Fields}
    BY BlankIs
  <2>3. shown \in [Fields -> UNION {Inputs(f) : f \in Fields}]
    BY <2>1, <2>2
  <2>4. page = [open |-> FALSE, shown |-> shown, ticked |-> {}, allow |-> {}, named |-> {},
                target |-> {}]
    BY <2>1 DEF Init, NoPage
  <2>5. QED
    BY <2>3, <2>4 DEF PageOK, Pages
<1>3. DraftOK /\ PristineOK
  BY DEF Init, DraftOK, PristineOK
<1>4. QED
  BY <1>1, <1>2, <1>3 DEF FileInv

\* Whatever is put into the file keeps the page and the save apart from it.
LEMMA PutKeeps ==
  ASSUME FileInv, NEW f, Put(f), IsContents(f) \/ ~Parses(f), UNCHANGED page,
         UNCHANGED draft \/ draft' = NoDraft
  PROVE  FileInv'
<1>1. file' = f /\ pristine' = {}
  BY DEF Put
<1>2. FileOK' /\ PristineOK'
  BY <1>1 DEF FileOK, PristineOK
<1>3. PageOK'
  BY DEF FileInv, PageOK
<1>4. DraftOK'
  BY DEF FileInv, DraftOK, DeviceDraft, SettingsDraft
<1>5. QED
  BY <1>2, <1>3, <1>4 DEF FileInv

LEMMA EditKeeps ==
  ASSUME FileInv, Edit
  PROVE  FileInv'
<1>1. PICK f \in {Broken, Absent} \cup Typed \cup (IF Parses(file) THEN HandEdits(file) ELSE {}) :
        EditByHand(f)
  BY DEF Edit
<1>2. IsContents(f) \/ ~Parses(f)
  <2>1. CASE f \in {Broken, Absent}
    BY <2>1 DEF Parses
  <2>2. CASE f \in Typed
    BY <2>2, TypedAssumption
  <2>3. CASE Parses(file) /\ f \in HandEdits(file)
    BY <2>3, HandEditsAre DEF FileInv, FileOK
  <2>4. QED
    BY <1>1, <2>1, <2>2, <2>3
<1>3. Put(f) /\ UNCHANGED <<page, draft>>
  BY <1>1 DEF EditByHand
<1>4. QED
  BY <1>2, <1>3, PutKeeps

LEMMA OpenKeeps ==
  ASSUME FileInv, OpenSettings
  PROVE  FileInv'
<1>1. UNCHANGED <<file, draft>>
  BY DEF OpenSettings
<1>2. pristine' = IF Parses(file) THEN pristine \cup {"page"} ELSE pristine \ {"page"}
  BY DEF OpenSettings
<1>3. CASE file = Broken
  <2>1. PICK shown : shown = [f \in Fields |-> Blank(f)]
    OBVIOUS
  <2>2. page' = [open |-> TRUE, shown |-> shown, ticked |-> {}, allow |-> {}, named |-> {},
                 target |-> {}]
    <3>1. page' = [NoPage EXCEPT !.open = TRUE]
      BY <1>3 DEF OpenSettings
    <3>2. NoPage = [open |-> FALSE, shown |-> shown, ticked |-> {}, allow |-> {}, named |-> {},
                    target |-> {}]
      BY <2>1 DEF NoPage
    <3>3. QED
      BY <3>1, <3>2
  <2>3. \A f \in Fields : shown[f] \in Inputs(f)
    BY <2>1, BlankIs
  <2>4. shown \in [Fields -> UNION {Inputs(f) : f \in Fields}]
    <3>1. \A f \in Fields : shown[f] \in UNION {Inputs(g) : g \in Fields}
      BY <2>3
    <3>2. QED
      BY <2>1, <3>1
  <2>5. PageOK'
    BY <2>2, <2>3, <2>4 DEF PageOK, Pages
  <2>6. PristineOK'
    BY <1>1, <1>2, <1>3 DEF FileInv, PristineOK, Parses
  <2>7. QED
    BY <1>1, <2>5, <2>6 DEF FileInv, FileOK, DraftOK, DeviceDraft, SettingsDraft
<1>4. CASE file # Broken
  <2>1. PICK c : c = Document(file)
    OBVIOUS
  <2>2. IsContents(c)
    BY <1>4, <2>1, DocumentIs DEF FileInv
  <2>3. page' = PageOf(c)
    BY <1>4, <2>1, Zenon DEF OpenSettings, PageOf
  <2>4. PageOK'
    BY <2>2, <2>3, PageOfIs DEF PageOK
  <2>5. Parses(file) => c = file
    BY <2>1 DEF Document, Parses
  <2>6. PristineOK'
    BY <1>1, <1>2, <2>3, <2>5 DEF FileInv, PristineOK
  <2>7. QED
    BY <1>1, <2>4, <2>6 DEF FileInv, FileOK, DraftOK, DeviceDraft, SettingsDraft
<1>5. QED
  BY <1>3, <1>4

LEMMA TypeKeeps ==
  ASSUME FileInv, Type
  PROVE  FileInv'
<1>1. UNCHANGED <<file, draft>> /\ pristine' = pristine \ {"page"} /\ page.open
  BY DEF Type
<1>2. /\ page \in Pages /\ page.open = TRUE
      /\ \A f \in Fields : page.shown[f] \in Inputs(f)
  BY <1>1 DEF FileInv, PageOK, Pages
<1>3. PICK now, ticks, allow, named, target :
        /\ now = page.shown /\ ticks = page.ticked
        /\ allow = page.allow /\ named = page.named /\ target = page.target
  OBVIOUS
<1>4. page = [open |-> TRUE, shown |-> now, ticked |-> ticks, allow |-> allow,
              named |-> named, target |-> target]
      /\ now = [f \in Fields |-> now[f]] /\ \A f \in Fields : now[f] \in Inputs(f)
  BY <1>2, <1>3 DEF Pages
<1>5. /\ ticks \in SUBSET Blocks
      /\ allow \in SUBSET Macs /\ named \in SUBSET Macs /\ target \in SUBSET Macs
  BY <1>2, <1>3 DEF Pages
<1>6. PageOK'
  <2>1. ASSUME NEW f \in Fields, NEW s \in Inputs(f), page' = [page EXCEPT !.shown[f] = s]
        PROVE  PageOK'
    <3>1. PICK shown : shown = [g \in Fields |-> IF g = f THEN s ELSE now[g]]
      OBVIOUS
    <3>2. [now EXCEPT ![f] = s] = shown
      BY <1>4, <3>1
    <3>3. page' = [open |-> TRUE, shown |-> shown, ticked |-> ticks, allow |-> allow,
                   named |-> named, target |-> target]
      BY <1>4, <2>1, <3>2
    <3>4. \A g \in Fields : shown[g] \in Inputs(g)
      BY <1>4, <2>1, <3>1
    <3>5. shown \in [Fields -> UNION {Inputs(g) : g \in Fields}]
      <4>1. \A g \in Fields : shown[g] \in UNION {Inputs(h) : h \in Fields}
        BY <3>4
      <4>2. QED
        BY <3>1, <4>1
    <3>6. QED
      BY <1>4, <1>5, <3>3, <3>4, <3>5 DEF PageOK, Pages
  <2>2. ASSUME NEW b \in Blocks,
               page' = [page EXCEPT !.ticked = IF b \in @ THEN @ \ {b} ELSE @ \cup {b}]
        PROVE  PageOK'
    <3>1. PICK ticked : ticked = IF b \in ticks THEN ticks \ {b} ELSE ticks \cup {b}
      OBVIOUS
    <3>2. page' = [open |-> TRUE, shown |-> now, ticked |-> ticked, allow |-> allow,
                   named |-> named, target |-> target]
      BY <1>4, <2>2, <3>1
    <3>3. ticked \subseteq Blocks
      <4>1. CASE b \in ticks
        BY <1>5, <3>1, <4>1
      <4>2. CASE b \notin ticks
        BY <1>5, <2>2, <3>1, <4>2
      <4>3. QED
        BY <4>1, <4>2
    <3>4. now \in [Fields -> UNION {Inputs(g) : g \in Fields}]
      BY <1>2, <1>3 DEF Pages
    <3>5. page' \in Pages
      <4>1. ticked \in SUBSET Blocks /\ TRUE \in BOOLEAN
        BY <3>3
      <4>2. QED
        BY <1>5, <3>2, <3>4, <4>1, Zenon DEF Pages
    <3>6. page'.shown = now
      BY <3>2
    <3>7. QED
      BY <1>4, <3>5, <3>6 DEF PageOK
  <2>3. QED
    BY <2>1, <2>2 DEF Type
<1>7. QED
  BY <1>1, <1>6 DEF FileInv, FileOK, DraftOK, DeviceDraft, SettingsDraft, PristineOK

LEMMA SaveSettingsKeeps ==
  ASSUME FileInv, SaveSettings
  PROVE  FileInv'
<1>1. UNCHANGED <<file, page>> /\ draft = NoDraft /\ file # Broken /\ page.open
      /\ \A f \in Fields : Coerce(f, page.shown[f]) # "error"
  BY DEF SaveSettings
<1>2. PICK asked : asked = Mapping(page)
  OBVIOUS
<1>3. PICK c : c = Document(file)
  OBVIOUS
<1>4. Accepted(asked) /\ draft' = [route |-> "settings", asked |-> asked, text |-> Overlay(c, asked)]
  BY <1>2, <1>3 DEF SaveSettings
<1>5. IsContents(asked) /\ AlwaysAsked(asked)
  <2>1. page \in Pages /\ \A f \in Fields : page.shown[f] \in Inputs(f)
    BY <1>1 DEF FileInv, PageOK
  <2>2. QED
    BY <1>1, <1>2, <2>1, MappingContents
<1>6. IsContents(c)
  BY <1>1, <1>3, DocumentIs DEF FileInv
<1>7. draft'.route = "settings" /\ draft'.asked = asked /\ draft'.text = Overlay(c, asked)
  BY <1>4
<1>8. SettingsDraft'
  BY <1>4, <1>5, <1>6, <1>7 DEF SettingsDraft
<1>9. "draft" \notin pristine
  BY <1>1 DEF FileInv, PristineOK, NoDraft
<1>10. PristineOK'
  <2>1. "page" \in pristine' => "page" \in pristine
    BY DEF SaveSettings
  <2>2. "draft" \in pristine' => "page" \in pristine
    BY <1>9 DEF SaveSettings
  <2>3. "page" \in pristine => Parses(file) /\ page = PageOf(file) /\ c = file
    BY <1>3 DEF FileInv, PristineOK, Document, Parses
  <2>4. QED
    BY <1>1, <1>2, <1>7, <2>1, <2>2, <2>3 DEF PristineOK
<1>11. QED
  BY <1>1, <1>8, <1>10 DEF FileInv, FileOK, PageOK, DraftOK

LEMMA SaveDeviceKeeps ==
  ASSUME FileInv, NEW m \in Macs, SaveDevice(m)
  PROVE  FileInv'
<1>1. UNCHANGED <<file, page, pristine>> /\ draft = NoDraft /\ file # Broken
  BY DEF SaveDevice
<1>2. PICK c : c = Document(file)
  OBVIOUS
<1>3. PICK text \in DeviceEdits(c, m) :
        Accepts(c, text) /\ draft' = [route |-> "device", asked |-> text, text |-> text]
  BY <1>2 DEF SaveDevice
<1>4. IsContents(text)
  BY <1>1, <1>2, DocumentIs, DeviceEditsAre DEF FileInv
<1>5. DeviceDraft'
  BY <1>3, <1>4 DEF DeviceDraft, Accepts
<1>6. "draft" \notin pristine
  BY <1>1 DEF FileInv, PristineOK, NoDraft
<1>7. QED
  BY <1>1, <1>5, <1>6 DEF FileInv, FileOK, PageOK, DraftOK, PristineOK

\* What a save writes is a file.
LEMMA TextIs ==
  ASSUME FileInv, draft # NoDraft
  PROVE  IsContents(draft.text)
BY OverlayIs DEF FileInv, DraftOK, DeviceDraft, SettingsDraft

LEMMA ReplaceKeeps ==
  ASSUME FileInv, Replace
  PROVE  FileInv'
<1>1. draft # NoDraft /\ draft' = NoDraft /\ UNCHANGED page
  BY DEF Replace
<1>2. CASE draft.text = file
  BY <1>1, <1>2 DEF Replace, FileInv, FileOK, PageOK, DraftOK, PristineOK
<1>3. CASE draft.text # file
  <2>1. Put(draft.text)
    BY <1>3 DEF Replace
  <2>2. QED
    BY <1>1, <2>1, TextIs, PutKeeps
<1>4. QED
  BY <1>2, <1>3

LEMMA FileNext ==
  ASSUME FileInv, [Next]_vars
  PROVE  FileInv'
<1>1. CASE AbandonSave
  BY <1>1 DEF AbandonSave, FileInv, FileOK, PageOK, DraftOK, PristineOK
<1>2. CASE UNCHANGED vars
  BY <1>2 DEF vars, FileInv, FileOK, PageOK, DraftOK, DeviceDraft, SettingsDraft, PristineOK
<1>3. QED
  BY <1>1, <1>2, EditKeeps, OpenKeeps, TypeKeeps, SaveSettingsKeeps, SaveDeviceKeeps, ReplaceKeeps
     DEF Next, Ui

THEOREM FileCorrect == Spec => []FileInv
<1>1. FileInv /\ [Next]_vars => FileInv'
  BY FileNext
<1>2. QED
  BY <1>1, FileStart, PTL DEF Spec

----------------------------------------------------------------------------
(* What a save leaves.                                                     *)

\* Only the rename of a save's text ends it so.
LEMMA SavedIs ==
  ASSUME FileInv, [Next]_vars, NEW route \in {"settings", "device"}, Saved(route)
  PROVE  file' = draft.text /\ draft # NoDraft /\ draft.route = route
<1>1. draft # NoDraft /\ draft.route = route
  BY DEF Saved, NoDraft
<1>2. Replace
  BY <1>1 DEF Saved, Next, Ui, vars, OpenSettings, Type, SaveSettings, SaveDevice, AbandonSave,
              Edit, EditByHand
<1>3. file' = draft.text
  BY <1>2 DEF Replace, Put
<1>4. QED
  BY <1>1, <1>3

\* DeviceSavesValid, for any file and edit: the text was judged before it was written,
\* and is written as it was judged, whatever an editor saved in between.
THEOREM DeviceCorrect == Spec => DeviceSavesValid
<1>1. FileInv /\ [Next]_vars => (Saved("device") => Accepted(file'))
  <2>1. SUFFICES ASSUME FileInv, [Next]_vars, Saved("device") PROVE Accepted(file')
    OBVIOUS
  <2>2. file' = draft.text /\ draft # NoDraft /\ draft.route = "device"
    BY <2>1, SavedIs
  <2>3. Accepted(draft.text)
    BY <2>1, <2>2 DEF FileInv, DraftOK, DeviceDraft, SettingsDraft
  <2>4. QED
    BY <2>2, <2>3
<1>2. QED
  BY <1>1, FileCorrect, PTL DEF Spec, DeviceSavesValid

\* A save of the settings page writes what it asked for over a file.
LEMMA SettingsSaved ==
  ASSUME FileInv, [Next]_vars, Saved("settings")
  PROVE  /\ IsContents(draft.asked) /\ Accepted(draft.asked) /\ AlwaysAsked(draft.asked)
         /\ \E c : IsContents(c) /\ file' = Overlay(c, draft.asked)
<1>1. file' = draft.text /\ draft # NoDraft /\ draft.route = "settings"
  BY SavedIs
<1>2. SettingsDraft
  BY <1>1 DEF FileInv, DraftOK, DeviceDraft
<1>3. QED
  BY <1>1, <1>2 DEF SettingsDraft

\* LastSaveWins, for any page and any file: what the page asked for is what the daemon
\* loads, and a list it shows is written as it shows it.
THEOREM LastSaveCorrect == Spec => LastSaveWins
<1> DEFINE Wins ==
      Saved("settings") =>
        /\ \A f \in Fields :
             draft.asked.node[f] # "missing" \/ Schema[f].block = "dns_sources" =>
               Loaded(file', f) = Loaded(draft.asked, f)
        /\ file'.on \ {"dns_thrash"} = draft.asked.on \ {"dns_thrash"}
        /\ <<file'.allow, file'.named, file'.target>>
             = <<draft.asked.allow, draft.asked.named, draft.asked.target>>
<1>1. FileInv /\ [Next]_vars => Wins
  <2>1. SUFFICES ASSUME FileInv, [Next]_vars, Saved("settings") PROVE Wins
    OBVIOUS
  <2>2. PICK asked : asked = draft.asked
    OBVIOUS
  <2>3. PICK t : t = file'
    OBVIOUS
  <2>4. PICK c : IsContents(c) /\ IsContents(asked) /\ t = Overlay(c, asked)
    BY <2>1, <2>2, <2>3, SettingsSaved
  <2>5. \A f \in Fields : asked.node[f] # "missing" \/ Schema[f].block = "dns_sources" =>
          Loaded(t, f) = Loaded(asked, f)
    BY <2>4, AskedIsLoaded
  <2>6. /\ t.on = OverlayOn(c, asked) /\ t.allow = asked.allow /\ t.named = asked.named
        /\ t.target = asked.target
    BY <2>4, OverlayIs
  <2>7. t.on \ {"dns_thrash"} = asked.on \ {"dns_thrash"}
    BY <2>6 DEF OverlayOn
  <2>8. QED
    BY <2>2, <2>3, <2>5, <2>6, <2>7
<1>2. QED
  BY <1>1, FileCorrect, PTL DEF Spec, LastSaveWins

\* SettingsSavesValid, for any page and any file: a save that leaves what the daemon
\* rejects does so by the ways the property names and by no other.
THEOREM SettingsCorrect == Spec => SettingsSavesValid
<1> DEFINE Named ==
      Saved("settings") /\ ~Valid(file') =>
        \/ "dns_thrash" \in file'.on \ draft.asked.on
        \/ file'.stray
        \/ \E f \in Fields :
             /\ LeftAlone(draft.asked, file', f)
             /\ \/ Loaded(file', f) = "bad"
                \/ f \in {"cap", "window"} /\ CapWithoutWindow(file')
                \/ f = "samples" /\ WatchWithoutSamples(file')
        \/ \E f \in Fields : file'.node[f] = "unset"
<1>1. FileInv /\ [Next]_vars => Named
  <2>1. SUFFICES ASSUME FileInv, [Next]_vars, Saved("settings") PROVE Named
    OBVIOUS
  <2>2. PICK asked : asked = draft.asked
    OBVIOUS
  <2>3. PICK t : t = file'
    OBVIOUS
  <2>4. PICK c : /\ IsContents(c) /\ IsContents(asked) /\ Accepted(asked) /\ AlwaysAsked(asked)
                 /\ t = Overlay(c, asked)
    BY <2>1, <2>2, <2>3, SettingsSaved
  <2>5. \/ Accepted(t) \/ "dns_thrash" \in t.on \ asked.on \/ t.stray
        \/ \E f \in Fields :
             /\ LeftAlone(asked, t, f)
             /\ \/ Loaded(t, f) = "bad"
                \/ f \in {"cap", "window"} /\ CapWithoutWindow(t)
                \/ f = "samples" /\ WatchWithoutSamples(t)
    BY <2>4, OverlayAccepted
  <2>6. Valid(t) \/ ~Accepted(t) \/ \E f \in Fields : t.node[f] = "unset"
    BY DEF Valid
  <2>7. QED
    BY <2>2, <2>3, <2>5, <2>6
<1>2. QED
  BY <1>1, FileCorrect, PTL DEF Spec, SettingsSavesValid

\* UntouchedKeepsRest, for any file that parses: a page saved as it was opened leaves
\* what the daemon loads of the file, but for what NotAsShown names; and an instance
\* logs in with another password only if the file held one of its own, literally.
THEOREM UntouchedCorrect == Spec => UntouchedKeepsRest
<1> DEFINE Keeps ==
      Saved("settings") /\ "draft" \in pristine =>
        /\ \A f \in Fields : SameConfig(file, file', f) \/ NotAsShown(file, f)
        /\ Password(file') = Password(file) \/ file.node["own"] = "literal"
        /\ file'.on = file.on /\ file'.stray = file.stray
        /\ <<file'.allow, file'.named, file'.target>> = <<file.allow, file.named, file.target>>
<1>1. FileInv /\ [Next]_vars => Keeps
  <2>1. SUFFICES ASSUME FileInv, [Next]_vars, Saved("settings"), "draft" \in pristine PROVE Keeps
    OBVIOUS
  <2>2. PICK t : t = file'
    OBVIOUS
  <2>3. PICK c : c = file
    OBVIOUS
  <2>4. PICK m : m = draft.asked
    OBVIOUS
  <2>5. t = draft.text /\ Accepted(m)
    BY <2>1, <2>2, <2>4, SavedIs, SettingsSaved
  <2>6. IsContents(c) /\ m = Mapping(PageOf(c)) /\ t = Overlay(c, m)
    BY <2>1, <2>3, <2>4, <2>5 DEF FileInv, FileOK, PristineOK
  <2>7. /\ \A f \in Fields : SameConfig(c, t, f) \/ NotAsShown(c, f)
        /\ t.on = c.on /\ t.stray = c.stray
        /\ <<t.allow, t.named, t.target>> = <<c.allow, c.named, c.target>>
    BY <2>6, RoundTrip
  <2>8. Password(t) = Password(c) \/ c.node["own"] = "literal"
    BY <2>5, <2>6, PasswordKept
  <2>9. QED
    BY <2>2, <2>3, <2>7, <2>8
<1>2. QED
  BY <1>1, FileCorrect, PTL DEF Spec, UntouchedKeepsRest
=============================================================================
