------------------------------- MODULE MCGate -------------------------------
(* Instances, for TLC, of the gate, of the plug that is behind it on a      *)
(* desktop, of the run without a user, of the debug log and of the self     *)
(* test.  They share no variable: a behaviour explores one of them while    *)
(* the others rest in one of their initial states.                          *)
EXTENDS Gate, LocalGuards, Headless, DebugLog, SelfTest

VARIABLE line

allVars == <<vars, guard, headlessVars, debugVars, selfVars, line>>

MCInit ==
  /\ line \in {"gate", "guards", "headless", "debug", "selftest"}
  /\ Init /\ GuardInit /\ HeadlessInit /\ DebugInit /\ SelfInit
  /\ line # "debug" => logFile.state = "none" /\ pipe.state = "none"
  /\ line # "selftest" => plan = [codes |-> <<"offline">>, models |-> 1]

MCNext ==
  /\ UNCHANGED line
  /\ \/ line = "gate" /\ Next /\ UNCHANGED <<guard, headlessVars, debugVars, selfVars>>
     \/ line = "guards" /\ GuardNext /\ UNCHANGED <<vars, headlessVars, debugVars, selfVars>>
     \/ line = "headless" /\ HeadlessNext /\ UNCHANGED <<vars, guard, debugVars, selfVars>>
     \/ line = "debug" /\ DebugNext /\ UNCHANGED <<vars, guard, headlessVars, selfVars>>
     \/ line = "selftest" /\ SelfNext /\ UNCHANGED <<vars, guard, headlessVars, debugVars>>

MCSpec ==
  /\ MCInit /\ [][MCNext]_allVars
  /\ \A f \in Effect :
       WF_allVars(line = "gate" /\ Continue(f) /\ UNCHANGED <<guard, headlessVars, debugVars, selfVars, line>>)
=============================================================================
