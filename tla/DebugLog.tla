------------------------------ MODULE DebugLog -------------------------------
(***************************************************************************)
(* The debug log of the Communicator's process (debug/debuglog.ts, setup.ts *)
(* and spawn_viewer.ts): every line goes to the log file and, by a bounded  *)
(* buffer and a connection that the viewer opens, to the debug console.    *)
(* Neither may fail without a word, or at the cost of the other.           *)
(*                                                                         *)
(* A line is its number; a report of dropped lines carries their count.    *)
(***************************************************************************)
EXTENDS Integers, Sequences, Totals

CONSTANTS
  BufferMax, \* PIPE_BUFFER_MAX: lines the buffer holds
  MaxLogged  \* bound: lines that are logged

ASSUME DebugBounds == BufferMax \in Nat \ {0} /\ MaxLogged \in Nat

VARIABLES
  logged,    \* how many lines were logged
  logFile,   \* FileSink: its state and the lines it wrote
  pipe,      \* PipeSink: its buffer, the drop count, and where its drain() is
  link,      \* the connection: listening, open or closed, and what the viewer got
  closing    \* setup.close(): "no", "flush", "done" or "timed out"

debugVars == <<logged, logFile, pipe, link, closing>>

Entry(n) == [line |-> n, drops |-> 0]
Report(n) == [line |-> 0, drops |-> n]

\* setupDebug: a file that cannot be opened and a viewer that cannot be spawned
\* are no sinks.
DebugInit ==
  /\ logged = 0 /\ closing = "no"
  /\ logFile \in [state : {"on", "none"}, lines : {<<>>}]
  /\ pipe \in [state : {"on", "none"}, buffer : {<<>>}, dropped : {0}, drain : {"rest"}, taken : {Report(0)}]
  /\ link = [state |-> IF pipe.state = "on" THEN "listening" ELSE "closed", shown |-> <<>>]

(***************************************************************************)
(* The pipe sink and its writer.                                           *)
(***************************************************************************)
\* The writer is asked to write the first line of the buffer: it fails on a
\* closed link and waits for a viewer that has not connected.
Takes(p) ==
  [p EXCEPT !.taken = Head(p.buffer), !.buffer = Tail(@),
            !.drain = CASE link.state = "open" -> "written"
                        [] link.state = "listening" -> "waits"
                        [] OTHER -> "failed"]

Shown(p) == IF p.drain = "written" THEN [link EXCEPT !.shown = Append(@, p.taken)] ELSE link

\* Mutant: a line that is dropped by a full buffer is not counted.
PushUncounted(p, entry) ==
  [p EXCEPT !.buffer = Append(IF Len(@) >= BufferMax THEN Tail(@) ELSE @, entry)]

\* The oldest line makes room.
Push(p, entry) ==
  [p EXCEPT !.buffer = Append(IF Len(@) >= BufferMax THEN Tail(@) ELSE @, entry),
            !.dropped = IF Len(p.buffer) >= BufferMax THEN @ + 1 ELSE @]

\* PipeSink.write: a dead sink takes nothing, an idle one starts to drain.
PipeWrites(entry) ==
  LET full == IF pipe.state = "on" THEN Push(pipe, entry) ELSE pipe
  IN  /\ pipe' = IF pipe.state = "on" /\ pipe.drain = "rest" THEN Takes(full) ELSE full
      /\ link' = IF pipe.state = "on" /\ pipe.drain = "rest" THEN Shown(pipe') ELSE link

\* dlog and writeReceived: each sink of the composite, whatever the other does.
\* The file's first write error disables it.
DLog ==
  /\ logged < MaxLogged
  /\ logged' = logged + 1
  /\ logFile' \in IF logFile.state = "on"
                  THEN {[logFile EXCEPT !.lines = Append(@, logged')],
                        [logFile EXCEPT !.state = "disabled"]}
                  ELSE {logFile}
  /\ PipeWrites(Entry(logged'))
  /\ UNCHANGED closing

\* The drain goes on after a write: a report follows the last line of a buffer
\* that lost some, then the next line, or none.
Drain ==
  /\ pipe.drain = "written"
  /\ LET empty == pipe.buffer = <<>> /\ pipe.dropped > 0
         p == IF empty THEN [pipe EXCEPT !.buffer = <<Report(pipe.dropped)>>, !.dropped = 0] ELSE pipe
     IN  IF p.buffer # <<>> /\ p.state = "on"
         THEN pipe' = Takes(p) /\ link' = Shown(pipe')
         ELSE pipe' = [p EXCEPT !.drain = "rest"] /\ link' = link
  /\ UNCHANGED <<logged, logFile, closing>>

\* A write that failed ends the sink, with a warning.
PipeDies ==
  /\ pipe.drain = "failed"
  /\ pipe' = [pipe EXCEPT !.state = "dead", !.buffer = <<>>, !.drain = "rest"]
  /\ UNCHANGED <<logged, logFile, link, closing>>

(***************************************************************************)
(* The viewer's connection.                                                *)
(***************************************************************************)
\* The write that waits is made, or fails.
ViewerConnects ==
  /\ link.state = "listening"
  /\ \E answer \in {"written", "failed"} :
       pipe' = IF pipe.drain = "waits" THEN [pipe EXCEPT !.drain = answer] ELSE pipe
  /\ link' = [Shown(pipe') EXCEPT !.state = "open"]
  /\ UNCHANGED <<logged, logFile, closing>>

\* failAll: the connect timeout, the end or an error of the connection, or the
\* end of a second one.  A write that throws is this step and the next write.
LinkFails ==
  /\ link.state \in {"listening", "open"}
  /\ link' = [link EXCEPT !.state = "closed"]
  /\ pipe' = IF pipe.drain = "waits" THEN [pipe EXCEPT !.drain = "failed"] ELSE pipe
  /\ UNCHANGED <<logged, logFile, closing>>

(***************************************************************************)
(* The end of the program.                                                 *)
(***************************************************************************)
CloseBegins ==
  /\ closing = "no"
  /\ closing' = "flush"
  /\ UNCHANGED <<logged, logFile, pipe, link>>

Drained == pipe.state # "on" \/ (pipe.buffer = <<>> /\ pipe.drain = "rest")

\* flush() ends when the buffer is empty or its time is up; a write that waits is
\* never answered after that.
CloseEnds ==
  /\ closing = "flush"
  /\ closing' = IF Drained THEN "done" ELSE "timed out"
  /\ logFile' = IF logFile.state = "on" THEN [logFile EXCEPT !.state = "closed"] ELSE logFile
  /\ pipe' = IF pipe.state = "on" THEN [pipe EXCEPT !.state = "closed", !.buffer = <<>>] ELSE pipe
  /\ link' = [link EXCEPT !.state = "closed"]
  /\ UNCHANGED logged

DebugNext ==
  \/ DLog \/ Drain \/ PipeDies \/ ViewerConnects \/ LinkFails \/ CloseBegins \/ CloseEnds

DebugSpec == DebugInit /\ [][DebugNext]_debugVars

(***************************************************************************)
(* Properties.                                                             *)
(***************************************************************************)
\* How many lines a sequence of entries accounts for: a line for itself, a
\* report for those it counts.
Weight(entry) == IF entry.line > 0 THEN 1 ELSE entry.drops
Accounted(entries) == Total([i \in 1 .. Len(entries) |-> Weight(entries[i])])

\* No line of the log is lost without a word (debuglog.ts:127-180, :101, :189):
\* the console shows lines in the order in which they were logged, and whenever
\* it is at rest what it does not show is exactly what its reports add up to; a
\* failure of the console costs the file no line, nor the other way round.
LossIsReported ==
  /\ \A i, j \in DOMAIN link.shown :
       i < j /\ link.shown[i].line > 0 /\ link.shown[j].line > 0 => link.shown[i].line < link.shown[j].line
  /\ pipe.state = "on" /\ Drained => Accounted(link.shown) = logged
  /\ logFile.state = "on" => logFile.lines = [i \in 1 .. logged |-> i]
=============================================================================
