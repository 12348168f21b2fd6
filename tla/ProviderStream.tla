--------------------------- MODULE ProviderStream ----------------------------
(***************************************************************************)
(* One model call: the gate, the opening of the stream with its retries    *)
(* (providers/retry.ts), the three adapters that turn a provider's events  *)
(* into deltas, and what the agent makes of them (Agent.modelCall), while  *)
(* the connection fails, ends early or the user cancels.                   *)
(*                                                                         *)
(* The arguments of a call come in fragments.  Their number tells whether  *)
(* the call is whole; a part of a JSON object does not parse, none at all  *)
(* is read as the empty object.                                            *)
(***************************************************************************)
EXTENDS Integers, Sequences, FiniteSets

CONSTANTS
  RetryMax,   \* retries of an opening (2)
  Fragments,  \* fragments of a call's arguments
  MaxBlocks   \* bound: calls of one answer

ASSUME StreamBounds == RetryMax \in Nat /\ {Fragments, MaxBlocks} \subseteq Nat \ {0}

VARIABLES
  adapter,  \* the provider and how far the call to it is
  blocks,   \* fragments received of each call that has begun
  got,      \* what the agent has been given
  asked     \* the abort signal, and how the model call ended

streamVars == <<adapter, blocks, got, asked>>

Providers == {"openai", "anthropic", "zai"}
Streaming == adapter.at = "streaming"

StreamInit ==
  /\ adapter \in [name : Providers, at : {"gate"}, attempt : {0}, stop : {"none"}]
  /\ blocks = <<>>
  /\ got = [text |-> {}, calls |-> <<>>]
  /\ asked = [aborted |-> FALSE, outcome |-> "none", stop |-> "none"]

\* The agent's modelCall returns: an aborted signal counts before all else.
CallReturns(outcome, stop) ==
  /\ adapter' = [adapter EXCEPT !.at = "over"]
  /\ asked' = [asked EXCEPT !.outcome = IF asked.aborted \/ stop = "cancelled" THEN "aborted" ELSE outcome,
                            !.stop = stop]

Thrown == CallReturns("provider_error", "none") /\ UNCHANGED <<blocks, got>>

\* cancel, shutdown or a resume of the Supervisor.
AbortCall ==
  /\ adapter.at # "over" /\ ~asked.aborted
  /\ asked' = [asked EXCEPT !.aborted = TRUE]
  /\ UNCHANGED <<adapter, blocks, got>>

\* egressStream: a blocked call is an empty answer, an allowed one opens.
GateDecides ==
  /\ adapter.at = "gate"
  /\ \/ adapter' = [adapter EXCEPT !.at = "opening"] /\ UNCHANGED <<blocks, got, asked>>
     \/ CallReturns("ok", "end") /\ UNCHANGED <<blocks, got>>

\* Whether a failure is transient: its status or the error's class decides.
Failures == BOOLEAN

(***************************************************************************)
(* withRetries: only the opening, only what is transient, only so often.   *)
(***************************************************************************)
Opens ==
  /\ adapter.at = "opening" /\ ~asked.aborted
  /\ adapter' = [adapter EXCEPT !.at = "streaming"]
  /\ UNCHANGED <<blocks, got, asked>>

OpenFails(transient) ==
  /\ adapter.at = "opening"
  /\ IF transient /\ adapter.attempt < RetryMax
     THEN adapter' = [adapter EXCEPT !.at = "sleeping", !.attempt = @ + 1] /\ UNCHANGED <<blocks, got, asked>>
     ELSE Thrown

\* Nothing ends the sleep early.
Wakes ==
  /\ adapter.at = "sleeping"
  /\ adapter' = [adapter EXCEPT !.at = "opening"]
  /\ UNCHANGED <<blocks, got, asked>>

(***************************************************************************)
(* The stream.  Each event is looked at only while nothing is aborted.     *)
(***************************************************************************)
Call(n) == [n |-> n, fragments |-> blocks[n]]
IsGiven(n) == \E i \in DOMAIN got.calls : got.calls[i].n = n
\* The calls not yet given, by their index.
Rest ==
  LET rest[n \in 0 .. Len(blocks)] ==
        IF n = 0 THEN <<>> ELSE IF IsGiven(n) THEN rest[n - 1] ELSE Append(rest[n - 1], Call(n))
  IN  rest[Len(blocks)]

Receives == Streaming /\ ~asked.aborted /\ adapter.stop = "none"

TextDelta ==
  /\ Receives
  /\ got' = [got EXCEPT !.text = @ \cup {adapter.attempt}]
  /\ UNCHANGED <<adapter, blocks, asked>>

\* What has begun is complete: Anthropic also ends a call with an event.
Complete ==
  \A n \in DOMAIN blocks : blocks[n] = Fragments /\ (adapter.name = "anthropic" => IsGiven(n))

\* The first event of a call carries its name, the others its arguments.
CallEvent ==
  /\ Receives
  /\ \/ /\ Len(blocks) < MaxBlocks /\ Complete
        /\ blocks' = Append(blocks, 0)
     \/ /\ blocks # <<>> /\ blocks[Len(blocks)] < Fragments
        /\ blocks' = [blocks EXCEPT ![Len(blocks)] = @ + 1]
  /\ UNCHANGED <<adapter, got, asked>>

\* At the end of its call Anthropic's adapter gives it at once.
BlockStop ==
  /\ Receives /\ adapter.name = "anthropic"
  /\ blocks # <<>> /\ blocks[Len(blocks)] = Fragments /\ ~IsGiven(Len(blocks))
  /\ got' = [got EXCEPT !.calls = Append(@, Call(Len(blocks)))]
  /\ UNCHANGED <<adapter, blocks, asked>>

OpenAIStops == {"tool_calls", "end", "max_output", "refusal"}
AnthropicStops == OpenAIStops \cup {"pause"}

\* The provider's last word.  At the output limit a call may be unfinished.
StopEvent ==
  /\ Receives
  /\ \E stop \in (IF adapter.name = "anthropic" THEN AnthropicStops ELSE OpenAIStops) :
       /\ stop = "tool_calls" => blocks # <<>>
       /\ stop \in {"end", "pause"} => blocks = <<>>
       /\ stop # "max_output" => Complete
       /\ adapter' = [adapter EXCEPT !.stop = stop]
  /\ UNCHANGED <<blocks, got, asked>>

\* The end of the stream, with or without a last word.  OpenAI's calls are in
\* the last word; the others give what they have.
StopOf(n) == IF adapter.stop # "none" THEN adapter.stop
             ELSE IF adapter.name = "zai" /\ n > 0 THEN "tool_calls" ELSE "end"
StreamEnds ==
  /\ Streaming
  /\ IF adapter.stop = "none" /\ adapter.name = "openai" THEN Thrown
     ELSE /\ got' = [got EXCEPT !.calls = @ \o Rest]
          /\ CallReturns("ok", StopOf(Len(blocks)))
          /\ UNCHANGED blocks

\* Mutant: a stream that breaks is opened again, also after its first delta.
BreaksAndRetries ==
  /\ Streaming
  /\ IF adapter.attempt < RetryMax
     THEN /\ adapter' = [adapter EXCEPT !.at = "sleeping", !.attempt = @ + 1, !.stop = "none"]
          /\ blocks' = <<>>
          /\ UNCHANGED <<got, asked>>
     ELSE Thrown
\* The connection breaks or the provider reports an error: never retried.
StreamBreaks == Streaming /\ Thrown

\* The next event after an abort ends the call; what is left is not given.
SeesAbort ==
  /\ Streaming /\ asked.aborted
  /\ CallReturns("aborted", "cancelled")
  /\ UNCHANGED <<blocks, got>>

StreamNext ==
  \/ AbortCall \/ GateDecides \/ Opens \/ (\E transient \in Failures : OpenFails(transient)) \/ Wakes
  \/ TextDelta \/ CallEvent \/ BlockStop \/ StopEvent \/ StreamEnds \/ StreamBreaks \/ SeesAbort

(***************************************************************************)
(* Properties.                                                             *)
(***************************************************************************)
\* The agent's loop runs the calls of an answer with such a stop.
RunsCalls == asked.outcome = "ok" /\ asked.stop \in {"tool_calls", "end"}
EndedEarly == adapter.stop = "none" /\ adapter.name # "openai"

\* The calls the agent runs are those the model made: each once, in order and
\* whole, from an answer of one attempt that was not cut off by an error or an
\* abort.  Only a stream that ends early and says nothing can leave a call that
\* is not whole, at Anthropic and Z.ai (openai.ts:99-165, anthropic.ts:159-260,
\* zai.ts:113-183, retry.ts:91-107, agent.ts:335-397).
OneAnswer ==
  RunsCalls =>
    /\ got.text \subseteq {adapter.attempt}
    /\ \A i \in DOMAIN got.calls :
         got.calls[i].n = i /\ (got.calls[i].fragments = Fragments \/ EndedEarly)
    /\ Len(got.calls) = Len(blocks)
=============================================================================
