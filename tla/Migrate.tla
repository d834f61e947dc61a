------------------------------- MODULE Migrate -------------------------------
(***************************************************************************)
(* python -m wifi_shepard.migrate beside the store: the daemon is stopped, *)
(* its SQLite rows are copied to MySQL, and it is started on the other     *)
(* backend, or on the same.  The tool may die anywhere and be run again,   *)
(* with or without --replace.                                              *)
(***************************************************************************)
EXTENDS Store

VARIABLE tool   \* [at, replace, left]: where _migrate is, --replace, the tables to go
VARIABLE found  \* observer: what the target held when the tool was started

NotStarted == [at |-> "off", replace |-> FALSE, left |-> << >>]

RowsOf(rows, table) == {r \in rows : r.table = table}

Occupied == {table \in TableSet : RowsOf(disk["mysql"], table) # {}}

\* A slip: a table that came later is not in the list.
TablesButLast == SubSeq(Tables, 1, Len(Tables) - 1)

\* migrate.TABLES.
Copied == Tables

Working == tool.at \in {"guard", "truncate", "copy"}

\* The documented use: the daemon is stopped first.
Launch(replace) ==
  /\ up = Off /\ ~Working
  /\ tool' = [at |-> "guard", replace |-> replace, left |-> Copied]
  /\ found' = disk["mysql"] /\ UNCHANGED vars

\* Fail closed: rows are never copied into a table that has some.
Guard ==
  /\ tool.at = "guard"
  /\ tool' = IF Occupied = {} THEN [tool EXCEPT !.at = "copy"]
             ELSE IF tool.replace THEN [tool EXCEPT !.at = "truncate"]
             ELSE [tool EXCEPT !.at = "off"]
  /\ UNCHANGED <<vars, found>>

\* Each TRUNCATE commits.
Truncate ==
  /\ tool.at = "truncate"
  /\ LET gone == RowsOf(disk["mysql"], Head(tool.left))
     IN  /\ disk' = [disk EXCEPT !["mysql"] = @ \ gone]
         /\ owed' = [owed EXCEPT !["mysql"] = @ \ gone]
  /\ tool' = IF Len(tool.left) > 1 THEN [tool EXCEPT !.left = Tail(@)]
             ELSE [tool EXCEPT !.at = "copy", !.left = Copied]
  /\ UNCHANGED <<up, conn, call, pruned, now, calls, faults, found>>

\* A table is copied in batches, committed and counted on both sides.
CopyTable ==
  /\ tool.at = "copy"
  /\ LET table == Head(tool.left)
         source == RowsOf(disk["sqlite"], table)
     IN  /\ disk' = [disk EXCEPT !["mysql"] = @ \cup source]
         /\ tool' = IF Cardinality(RowsOf(disk'["mysql"], table)) # Cardinality(source)
                    THEN [tool EXCEPT !.at = "off"]
                    ELSE IF Len(tool.left) > 1 THEN [tool EXCEPT !.left = Tail(@)]
                    ELSE [tool EXCEPT !.at = "done"]
  /\ UNCHANGED <<up, conn, call, pruned, now, calls, faults, owed, found>>

\* The tool dies, or the server drops it; a table half copied is rolled back.
Die == Working /\ tool' = [tool EXCEPT !.at = "off"] /\ UNCHANGED <<vars, found>>

MigrateStep == Guard \/ Truncate \/ CopyTable \/ Die \/ \E r \in BOOLEAN : Launch(r)

MigrateInit == Init /\ tool = NotStarted /\ found = {}

\* While the tool works, the daemon is off and stays off.
DaemonStep == ~Working /\ Next /\ UNCHANGED <<tool, found>>

MigrateNext == MigrateStep \/ DaemonStep

MigrateSpec == MigrateInit /\ [][MigrateNext]_<<vars, tool, found>>

----------------------------------------------------------------------------
(* What must hold.                                                         *)

\* migrate.py, "never interleave migrated rows into live data": without --replace the
\* tool leaves a target that holds anything as it was.
LiveDataKept == Working /\ ~tool.replace /\ found # {} => disk["mysql"] = found

\* migrate.py, "keeps its history": a run that ends with exit code 0 leaves in the
\* target exactly the rows of the source, after runs that died half-way too.
MigrationExact ==
  [][tool.at # "done" /\ tool'.at = "done" => disk'["mysql"] = disk'["sqlite"]]_<<vars, tool>>

\* Together: whatever the tool finds, is told and dies of, the target's live rows are
\* never mixed with migrated ones, and success means an exact copy.
MigrationSound == []LiveDataKept /\ MigrationExact

=============================================================================
