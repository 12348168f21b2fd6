---------------------------- MODULE LocalGuards ------------------------------
(***************************************************************************)
(* The LocalGuards plug (harness/plugs/localguards.ts): what it answers to *)
(* a tool's effect.  A command line is split into its statements, every    *)
(* statement is judged by its first word, and the approval policy decides  *)
(* whether the user is asked; the user's decision is stored and consumed   *)
(* by the second request.  Effects on files are judged by where their path *)
(* really lies.                                                            *)
(*                                                                         *)
(* A command line is a sequence of characters of which a letter is a whole *)
(* word; case, directories, .exe, brackets around a statement and entries  *)
(* of several words are left out; a path is where its resolution leads.    *)
(***************************************************************************)
EXTENDS Integers, Sequences, FiniteSets, SequencesExt

CONSTANTS
  Denylist,  \* words no statement may begin with
  Wrappers,  \* words that run what they are given (iex, invoke-expression, ...)
  Approved,  \* words the operator approved (auto_approve_prefixes)
  Network,   \* words that use the network (network_commands)
  MaxLength  \* bound: characters of a command line

ASSUME GuardBounds == MaxLength \in Nat

VARIABLE guard \* the effect, the answer to it and the stored decision

Blank == "blank"
Quotes == {"single", "double"}
Specials == {Blank, "single", "double", "backtick", ";", "|", "&"}
Chars == Denylist \cup Wrappers \cup Approved \cup Network \cup Specials

(***************************************************************************)
(* splitStatements, one character after the other.                         *)
(***************************************************************************)
Scan == [pieces |-> <<>>, current |-> <<>>, quote |-> "", escaped |-> FALSE, skip |-> FALSE]

\* Mutant: a backtick escapes nothing.
ScanCharUnescaped(s, ch, after) ==
  LET kept == [s EXCEPT !.current = Append(@, ch)]
      cut == [s EXCEPT !.pieces = Append(@, s.current), !.current = <<>>]
  IN  IF s.skip THEN [s EXCEPT !.skip = FALSE]
      ELSE IF s.quote # "" THEN [kept EXCEPT !.quote = IF ch = s.quote THEN "" ELSE @]
      ELSE IF ch \in Quotes THEN [kept EXCEPT !.quote = ch]
      ELSE IF ch \in {"&", "|"} /\ after = ch THEN [cut EXCEPT !.skip = TRUE]
      ELSE IF ch \in {"|", ";"} THEN cut
      ELSE kept

\* The scan after the next character, which is followed by another one.
ScanChar(s, ch, after) ==
  LET kept == [s EXCEPT !.current = Append(@, ch)]
      cut == [s EXCEPT !.pieces = Append(@, s.current), !.current = <<>>]
  IN  IF s.skip THEN [s EXCEPT !.skip = FALSE]
      ELSE IF s.escaped THEN [kept EXCEPT !.escaped = FALSE]
      ELSE IF ch = "backtick" /\ s.quote # "single" THEN [kept EXCEPT !.escaped = TRUE]
      ELSE IF s.quote # "" THEN [kept EXCEPT !.quote = IF ch = s.quote THEN "" ELSE @]
      ELSE IF ch \in Quotes THEN [kept EXCEPT !.quote = ch]
      ELSE IF ch \in {"&", "|"} /\ after = ch THEN [cut EXCEPT !.skip = TRUE]
      ELSE IF ch \in {"|", ";"} THEN cut
      ELSE kept

Trimmed(s) ==
  LET full == {i \in DOMAIN s : s[i] # Blank}
  IN  IF full = {} THEN <<>> ELSE SubSeq(s, Min(full), Max(full))

\* A statement without its blanks and its call operator.
Cleaned(piece) ==
  LET s == Trimmed(piece)
  IN  IF Len(s) >= 2 /\ s[1] = "&" /\ s[2] = Blank THEN Trimmed(SubSeq(s, 3, Len(s))) ELSE s

\* The statements; no judgement depends on their order.
Split(c) ==
  LET scan[i \in 0 .. Len(c)] ==
        IF i = 0 THEN Scan
        ELSE ScanChar(scan[i - 1], c[i], IF i < Len(c) THEN c[i + 1] ELSE "")
      pieces == Append(scan[Len(c)].pieces, scan[Len(c)].current)
  IN  {Cleaned(pieces[i]) : i \in DOMAIN pieces} \ {<<>>}

\* tokenize: the first word ends at a blank that no quote encloses.
FirstToken(s) ==
  LET quote[i \in 0 .. Len(s)] ==
        IF i = 0 THEN ""
        ELSE IF quote[i - 1] # "" THEN IF s[i] = quote[i - 1] THEN "" ELSE quote[i - 1]
        ELSE IF s[i] \in Quotes THEN s[i] ELSE ""
      ends == {i \in DOMAIN s : s[i] = Blank /\ quote[i - 1] = ""}
  IN  IF ends = {} THEN s ELSE SubSeq(s, 1, Min(ends) - 1)

\* normalizeFirstToken: without the quotes around it.
FirstWord(s) ==
  LET t == FirstToken(s)
      bare == {i \in DOMAIN t : t[i] \notin Quotes}
  IN  IF bare = {} THEN <<>> ELSE SubSeq(t, Min(bare), Max(bare))

Begins(s, words) == \E w \in words : FirstWord(s) = <<w>>

(***************************************************************************)
(* request.                                                                *)
(***************************************************************************)
JudgeCommand(e) ==
  LET statements == Split(e.line)
      some(words) == \E s \in statements : Begins(s, words)
      approved == statements # {} /\ \A s \in statements : Begins(s, Approved)
  IN  IF some(Denylist) \/ some(Wrappers) \/ e.key THEN "block"
      ELSE IF e.approval = "off" THEN "allow"
      ELSE IF e.approval = "unsafe" /\ approved /\ ~some(Network) /\ e.inside THEN "allow"
      ELSE "pending"

JudgePath(e) ==
  IF e.protected THEN "block"
  ELSE IF e.inside \/ (e.tool = "read" /\ e.listed) THEN "allow"
  ELSE "block"

Judge(e) ==
  IF e.tool = "command" THEN JudgeCommand(e)
  ELSE IF e.tool = "web" THEN IF e.key THEN "block" ELSE "allow"
  ELSE JudgePath(e)

\* Effects: a command line with the key shapes and the directory it has; the path
\* a tool names by where it leads once links are followed: whether a protected
\* pattern matches it, whether it is in the workspace or on the read allowlist;
\* and the tools without a path that reach the web.
Commands(line) ==
  [tool : {"command"}, line : {line}, key : BOOLEAN, inside : BOOLEAN,
   approval : {"all", "unsafe", "off"}]
Paths == [tool : {"read", "write"}, protected : BOOLEAN, inside : BOOLEAN, listed : BOOLEAN]
Webs == [tool : {"web"}, key : BOOLEAN]

NoEffect == [tool |-> "none"]
GuardInit == guard = [line |-> <<>>, effect |-> NoEffect, answer |-> "none", stored |-> "none"]

\* The model writes a command line.
Types ==
  /\ guard.effect = NoEffect /\ Len(guard.line) < MaxLength
  /\ \E ch \in Chars : guard' = [guard EXCEPT !.line = Append(@, ch)]

Asks ==
  /\ guard.effect = NoEffect
  /\ \E e \in Commands(guard.line) \cup (IF guard.line = <<>> THEN Paths \cup Webs ELSE {}) :
       guard' = [guard EXCEPT !.effect = e, !.answer = Judge(e)]

\* resolve: the user decides, perhaps twice before the plug is asked again.
Decides ==
  /\ guard.answer = "pending"
  /\ \E d \in {"allow", "deny"} : guard' = [guard EXCEPT !.stored = d]

\* The second request consumes the decision, or is judged like the first.
AsksAgain ==
  /\ guard.answer = "pending"
  /\ guard' = [guard EXCEPT !.stored = "none",
                            !.answer = IF @ = "pending" /\ guard.stored # "none"
                                       THEN IF guard.stored = "allow" THEN "approved" ELSE "block"
                                       ELSE Judge(guard.effect)]

GuardNext == Types \/ Asks \/ Decides \/ AsksAgain

GuardSpec == GuardInit /\ [][GuardNext]_guard

(***************************************************************************)
(* What the guards promise, without a scan.  A command line is made of     *)
(* units: an escaped character, a quotation up to its end, a separator or  *)
(* any other character; the separators among them end the statements.      *)
(***************************************************************************)
\* The end of the quotation that begins at i: its next quote, of which an even
\* number of backticks stands in front when the quotes are double.
QuoteEnds(c, i) ==
  LET ticks(j) == {k \in i + 1 .. j - 1 : \A l \in k .. j - 1 : c[l] = "backtick"}
  IN  {j \in i + 1 .. Len(c) :
         c[j] = c[i] /\ (c[i] = "double" => Cardinality(ticks(j)) % 2 = 0)}

After(c, i) ==
  CASE c[i] \in Quotes -> Min(QuoteEnds(c, i) \cup {Len(c)}) + 1
    [] c[i] = "backtick" \/ (c[i] \in {"&", "|"} /\ i < Len(c) /\ c[i + 1] = c[i]) -> i + 2
    [] OTHER -> i + 1

Units(c) ==
  LET begins[i \in 1 .. Len(c)] == i = 1 \/ \E j \in 1 .. i - 1 : begins[j] /\ After(c, j) = i
  IN  {i \in DOMAIN c : begins[i]}

Separators(c) ==
  {i \in Units(c) : c[i] \in {";", "|"} \/ (c[i] = "&" /\ After(c, i) = i + 2)}

Statements(c) ==
  LET ends == Separators(c) \cup {Len(c) + 1}
      begins == {1} \cup {After(c, i) : i \in Separators(c)}
  IN  {Cleaned(SubSeq(c, b, Min({e \in ends : e >= b}) - 1)) : b \in begins} \ {<<>>}

CommandMayRun(e) ==
  ~e.key /\ \A s \in Statements(e.line) : ~Begins(s, Denylist \cup Wrappers)
CommandRunsUnasked(e) ==
  \/ e.approval = "off"
  \/ /\ e.approval = "unsafe" /\ e.inside /\ Statements(e.line) # {}
     /\ \A s \in Statements(e.line) : Begins(s, Approved) /\ ~Begins(s, Network)

\* The guards judge the command that the shell will see: wherever quotes,
\* escapes and separators stand, no statement of a command that may run begins
\* with a forbidden word, none goes unasked that the operator did not approve,
\* and a command that he did approve does not wait for the user
\* (localguards.ts:131-162, 262-307).
GuardsDecide ==
  guard.effect.tool = "command" =>
    /\ guard.answer \in {"allow", "pending", "approved"} => CommandMayRun(guard.effect)
    /\ guard.answer = "allow" <=> CommandMayRun(guard.effect) /\ CommandRunsUnasked(guard.effect)
=============================================================================
