------------------------------ MODULE FileTools ------------------------------
(***************************************************************************)
(* The read ledger and the edit gate (tools/file.ts, tools/edit.ts): what  *)
(* read_file, edit, multi_edit and write_to_file do to one file, and to    *)
(* the ledger, while commands, editors and other programs write the same   *)
(* file between any two of their system calls.                             *)
(*                                                                         *)
(* A content is a number and has a size; a file has a time of change that  *)
(* an outside write may advance, keep (a coarse clock) or set back (a      *)
(* restore); it is never deleted.                                          *)
(***************************************************************************)
EXTENDS Integers, FiniteSets

CONSTANTS
  MaxContents, \* bound: contents the file may have in turn
  MaxOutside,  \* bound: outside writes
  MaxEdits     \* edits of a multi_edit

ASSUME FileBounds == {MaxContents, MaxOutside, MaxEdits} \subseteq Nat \ {0}

VARIABLES
  disk,   \* the file
  ledger, \* time and size at the last read or own write
  tool,   \* the tool that runs
  recorded, \* the content that was read or written when the entry was made, whatever
            \* of it the model was shown (ghost)
  outside \* outside writes so far, and which kinds of them there were (ghost)

fileVars == <<disk, ledger, tool, recorded, outside>>

NoFile == [content |-> 0, time |-> 0, size |-> 0]
Exists == disk.content # 0
NoEntry == [time |-> -1, size |-> -1]
Stat == [time |-> disk.time, size |-> disk.size]
Sizes == {1, 2}

FileInit ==
  /\ disk \in {NoFile, [content |-> 1, time |-> 1, size |-> 1]}
  /\ ledger = NoEntry
  /\ tool = [op |-> "none", at |-> "start", text |-> 0, left |-> 0]
  /\ recorded = 0
  /\ outside = [last |-> 1, writes |-> 0, missed |-> FALSE, late |-> FALSE, quiet |-> FALSE]

Idle == tool.op = "none"
Done == [op |-> "none", at |-> "start", text |-> 0, left |-> 0]
At(op, at) == tool.op = op /\ tool.at = at

(***************************************************************************)
(* The others.                                                             *)
(***************************************************************************)
\* Another program creates or changes the file: missed by the stat of a tool
\* that has read or renamed it already, late for its gate, or quietly, without
\* advancing the time.
OutsideWrite ==
  /\ outside.writes < MaxOutside /\ outside.last < MaxContents
  /\ \E size \in Sizes, time \in {disk.time - 1, disk.time, disk.time + 1} :
       /\ time >= 1
       /\ disk' = [content |-> outside.last + 1, time |-> time, size |-> size]
  /\ outside' = [outside EXCEPT !.last = @ + 1, !.writes = @ + 1,
                                !.missed = @ \/ tool.at = "stat",
                                !.late = @ \/ tool.at \in {"apply", "rename"},
                                !.quiet = @ \/ disk'.time <= disk.time]
  /\ UNCHANGED <<ledger, tool, recorded>>

(***************************************************************************)
(* read_file: the content, then its stat, then what of it is returned.     *)
(***************************************************************************)
\* statSync after the read or the rename.
RecordRead ==
  /\ ledger' = Stat
  /\ tool' = Done
  /\ recorded' = tool.text
  /\ UNCHANGED <<disk, outside>>

\* An image, a directory or a file that cannot be read ends the tool here.
ReadBegins ==
  /\ Idle /\ Exists
  /\ tool' = [Done EXCEPT !.op = "read", !.at = "stat", !.text = disk.content]
  /\ outside' = [outside EXCEPT !.missed = FALSE]
  /\ UNCHANGED <<disk, ledger, recorded>>

\* The entry is made before the offset is looked at: it is the same whether an
\* error, a part of the content or all of it is returned.
ReadRecords == At("read", "stat") /\ RecordRead

(***************************************************************************)
(* edit and multi_edit: the content, the gate, the replacements in memory, *)
(* a sibling file renamed into place, its stat.                            *)
(***************************************************************************)
EditBegins ==
  /\ Idle /\ Exists
  /\ \E n \in 1 .. MaxEdits : tool' = [op |-> "edit", at |-> "gate", text |-> disk.content, left |-> n]
  /\ UNCHANGED <<disk, ledger, recorded, outside>>

\* Mutant: the gate looks at the size alone.
FreshBySize(entry) == entry # NoEntry /\ disk.size = entry.size
\* assertReadFresh: read in this Executor's life, and not newer and as long.
Fresh(entry) == entry # NoEntry /\ disk.time <= entry.time /\ disk.size = entry.size

EditGate ==
  /\ At("edit", "gate")
  /\ tool' = IF Fresh(ledger) THEN [tool EXCEPT !.at = "apply"] ELSE Done
  /\ outside' = [outside EXCEPT !.late = FALSE]
  /\ UNCHANGED <<disk, ledger, recorded>>

\* One replacement after the other; one that does not apply ends the tool
\* before anything is written.
EditApplies ==
  /\ At("edit", "apply")
  /\ tool' \in {Done, IF tool.left > 1 THEN [tool EXCEPT !.left = @ - 1]
                                        ELSE [tool EXCEPT !.at = "rename"]}
  /\ UNCHANGED <<disk, ledger, recorded, outside>>

\* The new content replaces the file at once; its time is the clock's.  From here
\* on it is what the tool has in hand.
Renamed ==
  /\ outside.last < MaxContents
  /\ \E size \in Sizes, time \in {disk.time, disk.time + 1} :
       disk' = [content |-> outside.last + 1, time |-> IF time = 0 THEN 1 ELSE time, size |-> size]
  /\ outside' = [outside EXCEPT !.last = @ + 1, !.missed = FALSE, !.late = FALSE]
  /\ tool' = [tool EXCEPT !.at = "stat", !.text = disk'.content]
  /\ UNCHANGED <<ledger, recorded>>
EditRenames == At("edit", "rename") /\ Renamed
EditRecords == At("edit", "stat") /\ RecordRead

(***************************************************************************)
(* write_to_file: a new file only.                                         *)
(***************************************************************************)
CreateBegins ==
  /\ Idle /\ ~Exists
  /\ tool' = [Done EXCEPT !.op = "create", !.at = "rename"]
  /\ outside' = [outside EXCEPT !.late = FALSE]
  /\ UNCHANGED <<disk, ledger, recorded>>
CreateRenames == At("create", "rename") /\ Renamed
CreateRecords == At("create", "stat") /\ RecordRead

\* A new Executor starts with an empty ledger.
LedgerLost ==
  /\ ledger # NoEntry
  /\ ledger' = NoEntry /\ tool' = Done /\ recorded' = 0
  /\ UNCHANGED <<disk, outside>>

FileNext ==
  \/ OutsideWrite \/ ReadBegins \/ ReadRecords
  \/ EditBegins \/ EditGate \/ EditApplies \/ EditRenames \/ EditRecords
  \/ CreateBegins \/ CreateRenames \/ CreateRecords \/ LedgerLost

(***************************************************************************)
(* Properties.                                                             *)
(***************************************************************************)

\* A rename of a tool replaces nothing, or the very content that the last
\* read_file read or a tool wrote, and an edit is made of that: every outside
\* write in between is noticed, but for those nothing could notice: one between a
\* read or rename and its stat, one after the gate, and one that does not advance
\* the file's time.  What of that content read_file has returned the gate does not
\* ask, and this says nothing of it.  (edit.ts:11-91, file.ts:64-95)
NothingChangedIsReplaced ==
  [][EditRenames \/ CreateRenames =>
       \/ outside.missed \/ outside.late \/ outside.quiet
       \/ disk.content = 0
       \/ disk.content = recorded /\ tool.text = recorded]_fileVars
=============================================================================
