------------------------------ MODULE MCParts --------------------------------
(* Bounded instances, for TLC, of parts that share no variable: the channel *)
(* of a child, the memory store, the reviews, the session file, the file    *)
(* tools and one model call.  A behaviour explores one of them; the others  *)
(* rest in one of their initial states.                                     *)
EXTENDS IpcChannel, MemoryStore, Reviews, SessionLog, FileTools, ProviderStream

VARIABLE line

stateVars == <<memVars, logVars, fileVars>>
callVars == <<reviewVars, streamVars>>

Init ==
  /\ line \in {"ipc", "memory", "reviews", "log", "file", "stream"}
  /\ IpcInit /\ MemInit /\ ReviewInit /\ LogInit /\ FileInit /\ StreamInit
  /\ line # "reviews" => seed.since = 0
  /\ line # "file" => disk = NoFile
  /\ line # "stream" => adapter.name = "openai"

Next ==
  /\ UNCHANGED line
  /\ \/ line = "ipc" /\ IpcNext /\ UNCHANGED <<stateVars, callVars>>
     \/ line = "memory" /\ MemNext /\ UNCHANGED <<ipcVars, logVars, fileVars, callVars>>
     \/ line = "log" /\ LogNext /\ UNCHANGED <<ipcVars, memVars, fileVars, callVars>>
     \/ line = "file" /\ FileNext /\ UNCHANGED <<ipcVars, memVars, logVars, callVars>>
     \/ line = "reviews" /\ ReviewNext /\ UNCHANGED <<ipcVars, stateVars, streamVars>>
     \/ line = "stream" /\ StreamNext /\ UNCHANGED <<ipcVars, stateVars, reviewVars>>

Spec == Init /\ [][Next]_<<ipcVars, stateVars, callVars, line>> /\ IpcFairness
=============================================================================
