----------------------------- MODULE ConfigFile -----------------------------
(***************************************************************************)
(* config.yaml and those who write it: the settings page, which rebuilds   *)
(* every key it manages from a form (config_io.py, settings_schema.py,     *)
(* config.py for what the result means), the device cards, which edit the  *)
(* document in place (device_config.py), and an operator with an editor.   *)
(*                                                                         *)
(* A page stays open in the browser while the file changes under it.  The  *)
(* user interface handles one save at a time; a save reads the file and    *)
(* later renames a new one over it, and an editor may save in between.     *)
(* Of the schema's fields one stands for each way in which a field is      *)
(* shown, coerced, written, loaded and checked against another.            *)
(***************************************************************************)
EXTENDS Integers, FiniteSets

CONSTANTS
  Macs,       \* devices
  Broken,     \* a file that does not parse
  Absent,     \* no file
  Typed,      \* files an operator starts from
  MaxWrites,  \* bound: the file is written at most this often, the last time by a save
  MaxTyped    \* bound: inputs are changed at most this often

\* The optional blocks: their mere presence switches a feature on.  dns_sources is a
\* list, here of one source with one instance.
Blocks == {"quiet_hours", "home_assistant", "dns_thrash", "dns_sources"}

\* kind; what the loader makes of an absent key; what the page shows for one; what the
\* loader makes of a null; the block or section the key is in.
FieldSpec(kind, default, shows, null, block) ==
  [kind |-> kind, default |-> default, shows |-> shows, null |-> null, block |-> block]

\* "int_or_null" are the two criteria, which a blank input disables; "int" the other
\* integers.  "bad" is a value the loader rejects, "off" and "none" are None.
Schema ==
  [dry_run |-> FieldSpec("bool", "on", "on", "on", "none"),
   watch   |-> FieldSpec("bool", "off", "off", "bad", "none"),
   samples |-> FieldSpec("int", "low", "low", "bad", "none"),
   rate    |-> FieldSpec("int_or_null", "low", "low", "off", "none"),
   retry   |-> FieldSpec("int_or_null", "low", "low", "off", "none"),
   ladder  |-> FieldSpec("int_list", "empty", "rungs", "empty", "none"),
   gap     |-> FieldSpec("int", "zero", "zero", "bad", "safety_rails"),
   cap     |-> FieldSpec("int", "zero", "zero", "bad", "safety_rails"),
   window  |-> FieldSpec("int", "low", "low", "bad", "safety_rails"),
   night   |-> FieldSpec("int", "off", "blank", "bad", "quiet_hours"),
   token   |-> FieldSpec("secret_ref", "bad", "blank", "bad", "home_assistant"),
   shared  |-> FieldSpec("secret_ref", "none", "blank", "none", "dns_sources"),
   own     |-> FieldSpec("secret_ref", "none", "blank", "none", "dns_sources"),
   span    |-> FieldSpec("int", "low", "low", "bad", "dns_thrash")]

Fields == DOMAIN Schema

\* What the YAML may hold at a key; "missing" if the key is not there.  "wrong" has the
\* wrong type, "out" is out of the loader's range (it has none for the criteria); a
\* secret is a ${NAME} that the daemon's environment sets, one it does not, or itself.
Nodes(f) ==
  {"missing", "null"} \cup
  CASE Schema[f].kind = "bool" -> {"wrong", "on", "off"}
    [] Schema[f].kind = "int" -> {"wrong", "out", "zero", "low"}
    [] Schema[f].kind = "int_or_null" -> {"wrong", "zero", "low"}
    [] Schema[f].kind = "int_list" -> {"wrong", "out", "empty", "rungs"}
    [] OTHER -> {"ref", "unset", "literal"}

\* A parsed file: the keys, the optional blocks that are on, whether override_threshold
\* has a key the loader does not know, the allowlist, and the rows of reboot.overrides
\* with a name and with a target.
Contents ==
  [node : [Fields -> UNION {Nodes(f) : f \in Fields}], on : SUBSET Blocks, stray : BOOLEAN,
   allow : SUBSET Macs, named : SUBSET Macs, target : SUBSET Macs]

\* The keys of a block that is off are not there.
IsContents(c) ==
  /\ c \in Contents
  /\ \A f \in Fields :
       /\ c.node[f] \in Nodes(f)
       /\ Schema[f].block \in Blocks \ c.on => c.node[f] = "missing"
  /\ c.stray => "quiet_hours" \in c.on

Parses(f) == f \notin {Broken, Absent}

Empty ==
  [node |-> [f \in Fields |-> "missing"], on |-> {}, stray |-> FALSE,
   allow |-> {}, named |-> {}, target |-> {}]

\* The document a reader starts from: a missing file is an empty one.
Document(f) == IF f = Absent THEN Empty ELSE f

ASSUME FileAssumption == Broken \notin Contents /\ Absent \notin Contents
ASSUME TypedAssumption == \A f \in Typed : ~Parses(f) \/ IsContents(f)
ASSUME BoundAssumption == MaxWrites \in Nat /\ MaxTyped \in Nat

----------------------------------------------------------------------------
(* What the daemon makes of a file (config.py).                            *)

Loaded(c, f) ==
  LET n == c.node[f] IN
  IF Schema[f].block \in Blocks \ c.on THEN "off"
  ELSE IF n = "missing" THEN Schema[f].default
  ELSE IF n = "null" THEN Schema[f].null
  ELSE IF n \in {"wrong", "out"} THEN "bad" ELSE n

\* What the Pi-hole client logs in with: the instance's password, else the source's.
Password(c) == IF Loaded(c, "own") = "none" THEN Loaded(c, "shared") ELSE Loaded(c, "own")

\* Two checks over two keys: neither key need be out of its own range.
CapWithoutWindow(c) == Loaded(c, "cap") # "zero" /\ Loaded(c, "window") = "zero"
WatchWithoutSamples(c) == Loaded(c, "watch") = "on" /\ Loaded(c, "samples") = "zero"

\* build_config_from_mapping, which the user interface validates with: it interpolates
\* nothing, so any ${NAME} is a string to it.
Accepted(f) ==
  /\ Parses(f) /\ ~f.stray
  /\ \A k \in Fields : Loaded(f, k) # "bad"
  /\ ~(Loaded(f, "rate") = "off" /\ Loaded(f, "retry") = "off")
  /\ ~CapWithoutWindow(f) /\ ~WatchWithoutSamples(f)
  /\ Password(f) # "none"
  /\ "dns_thrash" \in f.on => "dns_sources" \in f.on
  /\ f.named \subseteq f.target

\* load_config_from_path: every ${NAME} is set.
Valid(f) == Accepted(f) /\ \A k \in Fields : f.node[k] # "unset"

VARIABLES
  file,     \* what config.yaml holds
  page,     \* the settings page in the browser
  draft,    \* the save in progress: its route, what was validated, what will be written
  writes,   \* how often the file was written
  typed     \* how often an input was changed

\* An observer, read by the properties and by no action: "page" if the page is as it was
\* opened, "draft" if the save is of such a page, and the file has not changed since.
VARIABLE pristine

vars == <<file, page, draft, writes, typed, pristine>>

\* What is read from an input that the page does not have.
Blank(f) ==
  CASE Schema[f].kind = "bool" -> "off"
    [] Schema[f].kind = "int_list" -> "empty"
    [] OTHER -> "blank"

NoPage ==
  [open |-> FALSE, shown |-> [f \in Fields |-> Blank(f)], ticked |-> {},
   allow |-> {}, named |-> {}, target |-> {}]
NoDraft == [route |-> "none", asked |-> Empty, text |-> Empty]

Init ==
  /\ file \in Typed /\ page = NoPage /\ draft = NoDraft
  /\ writes = 0 /\ typed = 0 /\ pristine = {}

Put(f) ==
  /\ writes < MaxWrites /\ f # file
  /\ file' = f /\ writes' = writes + 1
  /\ pristine' = {}

----------------------------------------------------------------------------
(* The operator's editor.                                                  *)

\* One block comes or goes, with its keys.
WithBlock(c, b) ==
  IF b \in c.on
  THEN [c EXCEPT !.on = @ \ {b}, !.stray = @ /\ b # "quiet_hours",
                 !.node = [f \in Fields |-> IF Schema[f].block = b THEN "missing" ELSE @[f]]]
  ELSE [c EXCEPT !.on = @ \cup {b}]

HandEdits(c) ==
  (UNION {{[c EXCEPT !.node[f] = n] : n \in Nodes(f)} :
            f \in {k \in Fields : Schema[k].block \notin Blocks \ c.on}})
  \cup {WithBlock(c, b) : b \in Blocks}
  \cup {[c EXCEPT !.allow = Macs \ @], [c EXCEPT !.stray = ~@ /\ "quiet_hours" \in c.on]}

EditByHand(f) ==
  /\ writes + 1 < MaxWrites /\ Put(f)
  /\ UNCHANGED <<page, draft, typed>>

Edit ==
  \E f \in {Broken, Absent} \cup Typed \cup (IF Parses(file) THEN HandEdits(file) ELSE {}) :
    EditByHand(f)

----------------------------------------------------------------------------
(* The settings page.                                                      *)

\* A slip: an absent key is shown like a null one.
DisplayBlank(c, f) ==
  LET n == c.node[f] IN
  CASE Schema[f].kind = "secret_ref" -> IF n \in {"ref", "unset"} THEN n ELSE "blank"
    [] Schema[f].kind = "bool" -> IF n \in {"on", "off"} THEN n ELSE "off"
    [] Schema[f].kind = "int_list" -> IF n \in {"empty", "rungs", "out"} THEN n ELSE "rungs"
    [] OTHER -> IF n \in {"missing", "null", "wrong"} THEN "blank" ELSE n

\* _display_scalar and read_form_model, and what the template's input makes of it: an
\* absent key shows the schema's default, a null nothing; a secret shows the name it
\* refers to, or nothing; a box is ticked by whatever is true, a number input shows
\* numbers; what is not a list shows the default one.
Display(c, f) ==
  LET n == IF c.node[f] = "missing" THEN Schema[f].shows ELSE c.node[f] IN
  CASE Schema[f].kind = "secret_ref" -> IF n \in {"ref", "unset"} THEN n ELSE "blank"
    [] Schema[f].kind = "bool" -> IF n = "null" THEN "off" ELSE IF n = "wrong" THEN "on" ELSE n
    [] Schema[f].kind = "int_list" -> IF n \in {"null", "wrong"} THEN Schema[f].shows ELSE n
    [] OTHER -> IF n \in {"null", "wrong"} THEN "blank" ELSE n

\* GET /settings.  A missing file shows the defaults; one that does not parse a page
\* with nothing in it.
OpenSettings ==
  /\ LET c == Document(file)
     IN  page' = IF file = Broken
                 THEN [NoPage EXCEPT !.open = TRUE]
                 ELSE [open |-> TRUE, shown |-> [f \in Fields |-> Display(c, f)],
                       ticked |-> c.on, allow |-> c.allow, named |-> c.named,
                       target |-> c.target]
  /\ pristine' = IF Parses(file) THEN pristine \cup {"page"} ELSE pristine \ {"page"}
  /\ UNCHANGED <<file, draft, writes, typed>>

Inputs(f) ==
  CASE Schema[f].kind = "bool" -> {"on", "off"}
    [] Schema[f].kind = "secret_ref" -> {"blank", "ref", "unset", "text"}
    [] Schema[f].kind = "int_list" -> {"empty", "rungs", "out", "text"}
    [] Schema[f].kind = "int" -> {"blank", "zero", "low", "out", "text"}
    [] OTHER -> {"blank", "zero", "low", "text"}

\* The operator changes one input, or one block's tick.
Type ==
  /\ page.open /\ writes < MaxWrites /\ typed < MaxTyped /\ typed' = typed + 1
  /\ \/ \E f \in Fields : \E s \in Inputs(f) : page' = [page EXCEPT !.shown[f] = s]
     \/ \E b \in Blocks :
          page' = [page EXCEPT !.ticked = IF b \in @ THEN @ \ {b} ELSE @ \cup {b}]
  /\ page' # page
  /\ pristine' = pristine \ {"page"}
  /\ UNCHANGED <<file, draft, writes>>

\* coerce_scalar and _coerce_list: to what is written, to nothing, or not at all.
Coerce(f, s) ==
  IF s = "text" THEN "error"
  ELSE IF s # "blank" THEN s
  ELSE IF Schema[f].kind = "int_or_null" THEN "null" ELSE "omit"

\* A ticked block is in the mapping.  quiet_hours and home_assistant have required
\* strings, which are kept even when they are blank, and dns_sources its rows;
\* dns_thrash has only integers.
Enabled(p, b) ==
  /\ b \in p.ticked
  /\ b = "dns_thrash" => \E f \in Fields : Schema[f].block = b /\ Coerce(f, p.shown[f]) # "omit"

\* build_mapping.
Mapping(p) ==
  LET on == {b \in Blocks : Enabled(p, b)}
      node(f) == IF Schema[f].block \in Blocks \ on \/ Coerce(f, p.shown[f]) = "omit"
                 THEN "missing" ELSE Coerce(f, p.shown[f])
  IN  [node |-> [f \in Fields |-> node(f)], on |-> on, stray |-> FALSE,
       allow |-> p.allow, named |-> p.named, target |-> p.target]

\* The blocks of the file that is written: a managed top-level section goes when it is
\* not in the mapping, a nested block stays.
OverlayOn(c, m) == m.on \cup (c.on \cap {"dns_thrash"})

\* A key that the mapping has not stays as it is, if its section does and is no list:
\* safety_rails has only integers, and goes when all of them are blank.
Kept(c, m, f) ==
  LET b == Schema[f].block IN
  \/ b = "none"
  \/ b = "safety_rails" /\ \E g \in Fields : Schema[g].block = b /\ m.node[g] # "missing"
  \/ b \in (OverlayOn(c, m) \cap c.on) \ {"dns_sources"}

\* A slip: a key the file has is not written again.
OverlayKeeping(c, m) ==
  [m EXCEPT !.on = OverlayOn(c, m), !.stray = c.stray /\ "quiet_hours" \in m.on,
            !.node = [f \in Fields |->
              IF c.node[f] # "missing" /\ Kept(c, m, f) THEN c.node[f] ELSE @[f]]]

\* write_config.
Overlay(c, m) ==
  [m EXCEPT !.on = OverlayOn(c, m), !.stray = c.stray /\ "quiet_hours" \in m.on,
            !.node = [f \in Fields |->
              IF @[f] = "missing" /\ Kept(c, m, f) THEN c.node[f] ELSE @[f]]]

\* POST /settings: the whole form, changed or not.  A file that does not parse cannot
\* be overlaid and is left alone.
SaveSettings ==
  /\ page.open /\ writes < MaxWrites /\ draft = NoDraft /\ file # Broken
  /\ \A f \in Fields : Coerce(f, page.shown[f]) # "error"
  /\ LET asked == Mapping(page)
         c == Document(file)
     IN  /\ Accepted(asked)
         /\ draft' = [route |-> "settings", asked |-> asked, text |-> Overlay(c, asked)]
  /\ pristine' = IF "page" \in pristine THEN pristine \cup {"draft"} ELSE pristine
  /\ UNCHANGED <<file, page, writes, typed>>

----------------------------------------------------------------------------
(* The device cards.                                                       *)

Put1(S, m, on) == IF on THEN S \cup {m} ELSE S \ {m}

\* One membership, or one leaf of the device's row.
DeviceEdits(c, m) ==
  UNION {{[c EXCEPT !.allow = Put1(@, m, on)], [c EXCEPT !.named = Put1(@, m, on)],
          [c EXCEPT !.target = Put1(@, m, on)]} : on \in BOOLEAN}

\* A slip: the file is validated before it is edited.
AcceptsBefore(c, text) == Accepted(c)

Accepts(c, text) == Accepted(text)

\* POST /devices/{mac}/settings: one edit of the document, written only when it
\* changes something and only when the text about to be written is valid.
SaveDevice(m) ==
  /\ writes < MaxWrites /\ draft = NoDraft /\ file # Broken
  /\ LET c == Document(file)
     IN \E text \in DeviceEdits(c, m) :
          /\ text # c /\ Accepts(c, text)
          /\ draft' = [route |-> "device", asked |-> text, text |-> text]
  /\ UNCHANGED <<file, page, writes, typed, pristine>>

----------------------------------------------------------------------------

\* The rename.
Replace ==
  /\ draft # NoDraft /\ draft' = NoDraft
  /\ IF draft.text = file
     THEN /\ writes < MaxWrites /\ writes' = writes + 1
          /\ pristine' = pristine \ {"draft"} /\ UNCHANGED file
     ELSE Put(draft.text)
  /\ UNCHANGED <<page, typed>>

\* The write fails, or the user interface dies before its rename.
AbandonSave ==
  /\ draft # NoDraft /\ draft' = NoDraft
  /\ pristine' = pristine \ {"draft"}
  /\ UNCHANGED <<file, page, writes, typed>>

Ui ==
  \/ OpenSettings \/ Type \/ SaveSettings
  \/ \E m \in Macs : SaveDevice(m)
  \/ Replace \/ AbandonSave

Next == Ui \/ Edit

Spec == Init /\ [][Next]_vars

----------------------------------------------------------------------------
(* Properties.                                                             *)

\* A save by this route ends with its rename.
Saved(route) == draft.route = route /\ draft' = NoDraft /\ writes' # writes

\* A device card never leaves a file that the daemon's parser rejects, though it edits
\* the document as it stands, rejected or not, and two of its leaves depend on each
\* other.  (A ${NAME} no one set may be in the file already, and stays.)
DeviceSavesValid == [][Saved("device") => Accepted(file')]_vars

\* The last save wins as a whole, over whatever was saved since its page was opened:
\* the daemon loads what the page asked for, and all of a list, except at scalar keys
\* that the page left blank.
LastSaveWins ==
  [][Saved("settings") =>
       /\ \A f \in Fields :
            draft.asked.node[f] # "missing" \/ Schema[f].block = "dns_sources" =>
              Loaded(file', f) = Loaded(draft.asked, f)
       /\ file'.on \ {"dns_thrash"} = draft.asked.on \ {"dns_thrash"}
       /\ <<file'.allow, file'.named, file'.target>>
            = <<draft.asked.allow, draft.asked.named, draft.asked.target>>]_vars

\* The key is in the file because the page left it blank.
LeftAlone(m, c, f) == m.node[f] = "missing" /\ c.node[f] # "missing"

\* config_io.py:10-12 as far as it is so.  A settings save leaves a file the daemon
\* rejects only if it took dns_sources from under a dns_thrash block, or left in place
\* a threshold the daemon does not know or a key it was given no value for, which is
\* rejected by itself or beside the value of another key, or if a ${NAME} is not set.
SettingsSavesValid ==
  [][Saved("settings") /\ ~Valid(file') =>
       \/ "dns_thrash" \in file'.on \ draft.asked.on
       \/ file'.stray
       \/ \E f \in Fields :
            /\ LeftAlone(draft.asked, file', f)
            /\ \/ Loaded(file', f) = "bad"
               \/ f \in {"cap", "window"} /\ CapWithoutWindow(file')
               \/ f = "samples" /\ WatchWithoutSamples(file')
       \/ \E f \in Fields : file'.node[f] = "unset"]_vars

SameConfig(c, d, f) == Loaded(c, f) = Loaded(d, f)

\* Where a page saved as it was opened does not write back what it was opened on: a
\* dry_run of null and a cooldown ladder that is not there, for which the page has
\* other defaults than the loader, a password in the file itself, which the page does
\* not show, and what the daemon rejects.
NotAsShown(c, f) ==
  \/ f = "dry_run" /\ c.node[f] = "null"
  \/ f = "ladder" /\ c.node[f] \in {"missing", "null"}
  \/ f \in {"own", "shared"} /\ c.node[f] = "literal"
  \/ Loaded(c, f) = "bad"

\* ADR-0014: the form model and the mapping are a round-trip pair.  A page saved as it
\* was opened changes nothing else that the daemon loads, and nothing but a literal
\* password of its own gives an instance another one to log in with.
UntouchedKeepsRest ==
  [][Saved("settings") /\ "draft" \in pristine =>
       /\ \A f \in Fields : SameConfig(file, file', f) \/ NotAsShown(file, f)
       /\ Password(file') = Password(file) \/ file.node["own"] = "literal"
       /\ file'.on = file.on /\ file'.stray = file.stray
       /\ <<file'.allow, file'.named, file'.target>> = <<file.allow, file.named, file.target>>]_vars

\* What config_io.py:10-12 says of every save, here only of one over a file that is
\* accepted: the interface cannot persist a configuration that the daemon's parser
\* would reject.  It does not hold of the settings page.
UiSavesValid ==
  [][\A r \in {"settings", "device"} : Saved(r) /\ Accepted(file) => Accepted(file')]_vars

=============================================================================
