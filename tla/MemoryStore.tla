---------------------------- MODULE MemoryStore ------------------------------
(***************************************************************************)
(* The Supervisor's memory (supervisor/memory.ts): append-only files, one  *)
(* of the workspace and one of the user, and the map that is their fold.   *)
(* Extractions at turn ends and retrievals at turn starts run concurrently *)
(* and write through the gate: a line is computed from the map, the gate   *)
(* and the acknowledgement of memory_written are awaited, the line is      *)
(* appended, and only some microtasks later the map is updated.            *)
(*                                                                         *)
(* The MAC of a line is left out (it holds for every line written here),   *)
(* so are other sessions that share the directory.                         *)
(***************************************************************************)
EXTENDS Integers, Sequences, FiniteSets, SequencesExt

CONSTANTS
  Texts,     \* normalised texts of memories; findDuplicate compares them
  TopK,      \* memories a retrieval may select (memory_top_k)
  MaxTasks,  \* bound: extractions and retrievals of all lives
  MaxWrites, \* bound: memories one extraction proposes
  MaxOpens   \* bound: times the store is opened

ASSUME MemoryBounds == {TopK, MaxTasks, MaxWrites, MaxOpens} \subseteq Nat \ {0}

VARIABLES
  store,    \* the map, the id counter of the running Supervisor
  files,    \* the lines of each file
  tasks,    \* extractions and retrievals that run
  written   \* tasks whose line is in the file and not yet in the map, in order

memVars == <<store, files, tasks, written>>

Scopes == {"workspace", "global"}
Line(id, text, scope, uses, deleted) ==
  [id |-> id, text |-> text, scope |-> scope, uses |-> uses, deleted |-> deleted]

(***************************************************************************)
(* fold: the global file, then the workspace file; the last line of an id  *)
(* counts, a tombstone removes it.                                         *)
(***************************************************************************)
Lines == files.global \o files.workspace
IdsOf(lines) == {lines[i].id : i \in DOMAIN lines}
LastOf(lines, id) == LET i == SelectLastInSeq(lines, LAMBDA l : l.id = id) IN lines[i]
Fold(lines) ==
  [id \in {i \in IdsOf(lines) : ~LastOf(lines, i).deleted} |-> LastOf(lines, id)]

\* Mutant: only memories that are still there count for the next id.
CounterOfLive(lines) == Max(DOMAIN Fold(lines) \cup {0})
\* Every line's id counts for the next one, a tombstone's too.
Counter(lines) == Max(IdsOf(lines) \cup {0})
NewId(counter) == counter + 1

\* One line for each, in any order.
Tombstones(map, expired, scope) ==
  LET ids == SetToSeq({i \in expired : map[i].scope = scope})
  IN  [k \in DOMAIN ids |-> [map[ids[k]] EXCEPT !.deleted = TRUE]]

\* open: fold, then retention of what is older than the cutoff.
Open(old, opens) ==
  LET map == Fold(Lines)
      expired == old \cap DOMAIN map
  IN  /\ files' = [s \in Scopes |-> files[s] \o Tombstones(map, expired, s)]
      /\ store' = [map |-> [i \in DOMAIN map \ expired |-> map[i]], opens |-> opens,
                   counter |-> Counter(Lines), begun |-> store.begun]

MemInit ==
  /\ store = [map |-> <<>>, counter |-> 0, opens |-> 1, begun |-> 0]
  /\ files = [s \in Scopes |-> <<>>]
  /\ tasks = {}
  /\ written = <<>>

\* The Supervisor exits at any time and is spawned again.
Restart ==
  /\ store.opens < MaxOpens
  /\ \E old \in SUBSET IdsOf(Lines) : Open(old, store.opens + 1)
  /\ tasks' = {} /\ written' = <<>>

(***************************************************************************)
(* Tasks.                                                                  *)
(***************************************************************************)
Others(t) == tasks \ {t}
Touched(map, id) == [map[id] EXCEPT !.uses = @ + 1]

\* What the next item of a task writes: a touch of the memory it names or
\* duplicates, or a new memory.
LineOf(kind, item, map, counter) ==
  IF kind = "retrieve" THEN {Touched(map, item)}
  ELSE LET same == {i \in DOMAIN map : map[i].text = item.text}
       IN  IF same # {} THEN {Touched(map, i) : i \in same}
           ELSE {Line(NewId(counter), item.text, item.scope, 0, FALSE)}

\* A task goes on with its next item.
GoesOn(t, todo, map) ==
  IF todo = <<>>
  THEN tasks' = Others(t) /\ store' = [store EXCEPT !.map = map]
  ELSE \E line \in LineOf(t.kind, Head(todo), map, store.counter) :
         /\ tasks' = Others(t) \cup {[t EXCEPT !.pc = "gate", !.todo = Tail(todo), !.line = line]}
         /\ store' = [store EXCEPT !.map = map, !.counter = IF line.id > @ THEN line.id ELSE @]

NoLine == Line(0, "none", "workspace", 0, FALSE)

\* Both kinds of task call the model first.
TaskBegins(kind) ==
  /\ store.begun < MaxTasks
  /\ store' = [store EXCEPT !.begun = @ + 1]
  /\ tasks' = tasks \cup {[n |-> store'.begun, kind |-> kind, pc |-> "model", todo |-> <<>>, line |-> NoLine]}
  /\ UNCHANGED <<files, written>>

\* turn_finished starts an extraction, the copy of a prompt a retrieval if there
\* is anything to retrieve.
ExtractAtTurnEnd == TaskBegins("extract")
OnPromptCopy == store.map # <<>> /\ TaskBegins("retrieve")

Proposals == SeqOf([text : Texts, scope : Scopes], MaxWrites)
\* What a retrieval selects, in the order of the model's answer.
Selections ==
  UNION {SetToSeqs(ids) : ids \in {s \in SUBSET DOMAIN store.map : Cardinality(s) <= TopK}}

ModelAnswers(t) ==
  /\ t.pc = "model"
  /\ \E todo \in (IF t.kind = "retrieve" THEN Selections ELSE Proposals) : GoesOn(t, todo, store.map)
  /\ UNCHANGED <<files, written>>

\* The model call fails, or a write does: whatever is left of the task is given up.
TaskFails(t) ==
  /\ t.pc \in {"model", "ack"}
  /\ tasks' = Others(t)
  /\ UNCHANGED <<store, files, written>>

\* The gate allows the write, and memory_written is sent, or blocks it: its
\* policy does, or it is halted and blocks whatever comes.
GateAnswers(t) ==
  /\ t.pc = "gate"
  /\ \/ tasks' = Others(t) \cup {[t EXCEPT !.pc = "ack"]} /\ UNCHANGED store
     \/ GoesOn(t, t.todo, store.map)
  /\ UNCHANGED <<files, written>>

\* memory_written is acknowledged: the line is appended under the lock, which is
\* had at once or after a wait for another process, or taken from a dead one.
Acknowledged(t) ==
  /\ t.pc = "ack"
  /\ files' = [files EXCEPT ![t.line.scope] = Append(@, t.line)]
  /\ tasks' = Others(t) \cup {[t EXCEPT !.pc = "written"]}
  /\ written' = Append(written, t.n)
  /\ UNCHANGED store

\* The continuations after the appends run in the order of the appends.
Remembers(t) ==
  /\ written # <<>> /\ t.n = Head(written)
  /\ written' = Tail(written)
  /\ GoesOn(t, t.todo, [i \in DOMAIN store.map \cup {t.line.id} |->
                          IF i = t.line.id THEN t.line ELSE store.map[i]])
  /\ UNCHANGED files

MemNext ==
  \/ ExtractAtTurnEnd \/ OnPromptCopy
  \/ \E t \in tasks : ModelAnswers(t) \/ TaskFails(t) \/ GateAnswers(t) \/ Acknowledged(t) \/ Remembers(t)
  \/ Restart

MemSpec == MemInit /\ [][MemNext]_memVars

(***************************************************************************)
(* Properties.                                                             *)
(***************************************************************************)

\* An id stands for one text in one file for ever: also after retention has
\* removed the newest memory, a crash between newId and the append, and with
\* two extractions at once (memory.ts:163-164, 176-179).
OneTextPerId ==
  \A i, j \in DOMAIN Lines : Lines[i].id = Lines[j].id =>
    Lines[i].text = Lines[j].text /\ Lines[i].scope = Lines[j].scope

\* The Supervisor remembers what a restarted one would read: once no write is
\* between its file and the map, the map is the fold of the files, whatever
\* extractions and retrievals touch at once and whichever writes the gate, the
\* lock or a halt refuse.  And the fold hides no memory behind another one
\* (memory.ts:140-170, 224-248).
MapIsTheFold == OneTextPerId /\ (written = <<>> => store.map = Fold(Lines))
=============================================================================
