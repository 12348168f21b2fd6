---------------------------- MODULE LedgerProofs -----------------------------
(***************************************************************************)
(* Proofs about four parts that keep books and share no variable: the read *)
(* ledger of the file tools (FileTools), the lines and losses of the debug *)
(* log (DebugLog), what the self test spent (SelfTest), and what a run     *)
(* without a user did of its prompt file (Headless).                       *)
(***************************************************************************)
EXTENDS FileTools, DebugLog, SelfTest, Headless, FiniteSetTheorems, SequenceTheorems,
        NaturalsInduction, WellFoundedInduction, TLAPS

(***************************************************************************)
(* The read ledger: what the edit gate protects, for any number of         *)
(* contents, outside writes and edits of one call.                         *)
(***************************************************************************)
FileSpec == FileInit /\ [][FileNext]_fileVars

Op == {"none", "read", "edit", "create"}
Place == {"start", "stat", "gate", "apply", "rename"}

TypeOK ==
  /\ disk \in [content : Nat, time : Nat, size : Nat]
  /\ ledger \in [time : Int, size : Int]
  /\ tool \in [op : Op, at : Place, text : Nat, left : Nat]
  /\ recorded \in Nat
  /\ outside \in [last : Nat, writes : Nat, missed : BOOLEAN, late : BOOLEAN, quiet : BOOLEAN]

(* Between two tools nothing is under way.                                 *)
IdleAtStart == Idle => tool = Done

(* No outside write escaped the stats so far.                              *)
Noticed == ~outside.quiet /\ ~outside.missed
(* By the time alone the file is as it was recorded.                       *)
LooksRead == ledger # NoEntry /\ disk.time <= ledger.time

(* The entry is never newer than the file, unless a write set its time     *)
(* back or kept it.                                                        *)
EntryIsOld == ~outside.quiet => ledger.time <= disk.time

(* Between a read or a rename and its stat the file is what the tool has   *)
(* in hand; afterwards, as long as it looks read, what the entry is about. *)
InHandUntilStat == Noticed /\ tool.at = "stat" => disk.content = tool.text
RecordedIfItLooksRead == Noticed /\ tool.at # "stat" /\ LooksRead => disk.content = recorded

(* Where an edit stands: what it read is what the gate judges, and what    *)
(* passed the gate is still there, unless a write came after the gate.     *)
EditReadsWhatItJudges ==
  Noticed /\ At("edit", "gate") /\ LooksRead => tool.text = disk.content
EditKeepsWhatPassed ==
  Noticed /\ ~outside.late /\ (At("edit", "apply") \/ At("edit", "rename"))
    => disk.content = recorded /\ tool.text = recorded

(* A file that is created is still missing, unless a write came meanwhile. *)
CreatedIsMissing == ~outside.late /\ At("create", "rename") => disk.content = 0

FileInv == /\ TypeOK /\ IdleAtStart /\ EntryIsOld /\ InHandUntilStat /\ RecordedIfItLooksRead
           /\ EditReadsWhatItJudges /\ EditKeepsWhatPassed /\ CreatedIsMissing

-----------------------------------------------------------------------------
(* The file is unread and unwritten at the start.                          *)
LEMMA FileInitInv == FileInit => FileInv
BY DEF FileInit, FileInv, TypeOK, Op, Place, NoFile, NoEntry, Noticed, LooksRead, EntryIsOld,
       InHandUntilStat, RecordedIfItLooksRead, EditReadsWhatItJudges, EditKeepsWhatPassed,
       CreatedIsMissing, At, IdleAtStart, Idle, Done

(* What a write by another program does to the file and to what is known   *)
(* of such writes.                                                         *)
LEMMA OutsideWriteFacts ==
  ASSUME TypeOK, OutsideWrite
  PROVE  /\ disk' \in [content : Nat, time : Nat, size : Nat]
         /\ outside' \in [last : Nat, writes : Nat, missed : BOOLEAN, late : BOOLEAN, quiet : BOOLEAN]
         /\ outside.quiet => outside'.quiet
         /\ ~outside'.quiet => disk'.time > disk.time
         /\ outside.missed => outside'.missed
         /\ tool.at = "stat" => outside'.missed
         /\ outside.late => outside'.late
         /\ tool.at \in {"apply", "rename"} => outside'.late
         /\ UNCHANGED <<ledger, tool, recorded>>
<1> USE DEF TypeOK
<1>1. disk' \in [content : Nat, time : Nat, size : Nat]
  BY DEF OutsideWrite, Sizes
<1>2. outside' = [last |-> outside.last + 1, writes |-> outside.writes + 1,
                  missed |-> outside.missed \/ tool.at = "stat",
                  late |-> outside.late \/ tool.at \in {"apply", "rename"},
                  quiet |-> outside.quiet \/ disk'.time <= disk.time]
  BY DEF OutsideWrite
<1>3. outside' \in [last : Nat, writes : Nat, missed : BOOLEAN, late : BOOLEAN, quiet : BOOLEAN]
  BY <1>2
<1>4. /\ outside'.missed <=> (outside.missed \/ tool.at = "stat")
      /\ outside'.late <=> (outside.late \/ tool.at \in {"apply", "rename"})
      /\ outside'.quiet <=> (outside.quiet \/ disk'.time <= disk.time)
  BY <1>2
<1>5. disk'.time \in Nat /\ disk.time \in Nat
  BY <1>1
<1>6. UNCHANGED <<ledger, tool, recorded>>
  BY DEF OutsideWrite
<1>7. QED
  BY <1>1, <1>3, <1>4, <1>5, <1>6

(* What the rename of a tool does: the file is what the tool has written,  *)
(* and no write has come since.                                            *)
LEMMA RenamedFacts ==
  ASSUME TypeOK, Renamed
  PROVE  /\ disk' \in [content : Nat, time : Nat, size : Nat]
         /\ disk'.time >= disk.time
         /\ disk'.content \in Nat
         /\ outside' \in [last : Nat, writes : Nat, missed : BOOLEAN, late : BOOLEAN, quiet : BOOLEAN]
         /\ outside'.quiet = outside.quiet /\ ~outside'.late
         /\ tool' = [tool EXCEPT !.at = "stat", !.text = disk'.content]
         /\ UNCHANGED <<ledger, recorded>>
<1> USE DEF TypeOK
<1>1. disk' \in [content : Nat, time : Nat, size : Nat] /\ disk'.time >= disk.time
  BY DEF Renamed, Sizes
<1>2. disk'.content \in Nat
  BY <1>1
<1>3. outside' = [outside EXCEPT !.last = @ + 1, !.missed = FALSE, !.late = FALSE]
  BY DEF Renamed
<1>4. outside' \in [last : Nat, writes : Nat, missed : BOOLEAN, late : BOOLEAN, quiet : BOOLEAN]
  <2>1. outside' = [last |-> outside.last + 1, writes |-> outside.writes, missed |-> FALSE,
                    late |-> FALSE, quiet |-> outside.quiet]
    BY <1>3
  <2>2. QED BY <2>1
<1>5. outside'.quiet = outside.quiet /\ ~outside'.late
  BY <1>3
<1>6. QED
  BY <1>1, <1>2, <1>4, <1>5 DEF Renamed

(* The file, the ledger and the tool stay in their types.                  *)
LEMMA FileStepType == TypeOK /\ [FileNext]_fileVars => TypeOK'
<1> SUFFICES ASSUME TypeOK, [FileNext]_fileVars PROVE TypeOK'
  OBVIOUS
<1>1. CASE OutsideWrite
  BY <1>1, OutsideWriteFacts DEF TypeOK
<1>2. CASE ReadBegins
  BY <1>2 DEF ReadBegins, Done, TypeOK, Op, Place
<1>3. CASE ReadRecords \/ EditRecords \/ CreateRecords
  BY <1>3 DEF ReadRecords, EditRecords, CreateRecords, RecordRead, Stat, Done, TypeOK, Op, Place
<1>4. CASE EditBegins
  BY <1>4 DEF EditBegins, TypeOK, Op, Place
<1>5. CASE EditGate
  BY <1>5 DEF EditGate, Done, TypeOK, Op, Place
<1>6. CASE EditApplies
  BY <1>6 DEF EditApplies, Done, TypeOK, Op, Place
<1>7. CASE EditRenames \/ CreateRenames
  <2>1. Renamed
    BY <1>7 DEF EditRenames, CreateRenames
  <2>2. tool' \in [op : Op, at : Place, text : Nat, left : Nat]
    <3>1. tool' = [op |-> tool.op, at |-> "stat", text |-> disk'.content, left |-> tool.left]
      BY <2>1, RenamedFacts DEF TypeOK
    <3>2. QED BY <2>1, <3>1, RenamedFacts DEF TypeOK, Place
  <2>3. QED
    BY <2>1, <2>2, RenamedFacts DEF TypeOK
<1>8. CASE CreateBegins
  BY <1>8 DEF CreateBegins, Done, TypeOK, Op, Place
<1>9. CASE LedgerLost
  BY <1>9 DEF LedgerLost, NoEntry, Done, TypeOK, Op, Place
<1>10. CASE UNCHANGED fileVars
  BY <1>10 DEF fileVars, TypeOK
<1>11. QED
  BY <1>1, <1>2, <1>3, <1>4, <1>5, <1>6, <1>7, <1>8, <1>9, <1>10 DEF FileNext

(* Every step keeps the invariant.                                         *)
LEMMA FileStepInv == FileInv /\ [FileNext]_fileVars => FileInv'
<1> SUFFICES ASSUME FileInv, [FileNext]_fileVars PROVE FileInv'
  OBVIOUS
<1>1. TypeOK /\ TypeOK'
  BY FileStepType DEF FileInv
<1>2. CASE OutsideWrite
  <2>1. /\ UNCHANGED <<ledger, tool, recorded>>
        /\ ~outside'.quiet => ~outside.quiet /\ disk'.time > disk.time
        /\ ~outside'.missed => ~outside.missed /\ tool.at # "stat"
        /\ ~outside'.late => ~outside.late /\ tool.at \notin {"apply", "rename"}
    BY <1>1, <1>2, OutsideWriteFacts
  <2>2. /\ disk.time \in Nat /\ disk'.time \in Nat /\ ledger.time \in Int
    BY <1>1 DEF TypeOK
  <2>3. IdleAtStart' /\ EntryIsOld'
    BY <2>1, <2>2 DEF EntryIsOld, FileInv, IdleAtStart, Idle
  <2>4. InHandUntilStat'
    BY <2>1 DEF InHandUntilStat, Noticed
  \* The write is newer than the entry, so that the file looks unread.
  <2>5. Noticed' => ~LooksRead'
    BY <2>1, <2>2 DEF EntryIsOld, FileInv, LooksRead, Noticed
  <2>6. RecordedIfItLooksRead' /\ EditReadsWhatItJudges'
    BY <2>5 DEF RecordedIfItLooksRead, EditReadsWhatItJudges
  <2>7. EditKeepsWhatPassed' /\ CreatedIsMissing'
    BY <2>1 DEF EditKeepsWhatPassed, CreatedIsMissing, At
  <2>8. QED
    BY <1>1, <2>3, <2>4, <2>6, <2>7 DEF FileInv
<1>3. CASE ReadBegins
  <2>1. /\ UNCHANGED <<disk, ledger>>
        /\ outside'.quiet = outside.quiet
        /\ tool'.op = "read" /\ tool'.at = "stat" /\ tool'.text = disk.content
    BY <1>1, <1>3 DEF ReadBegins, TypeOK, Done
  <2>2. IdleAtStart' /\ EntryIsOld' /\ InHandUntilStat' /\ RecordedIfItLooksRead'
    BY <2>1 DEF FileInv, EntryIsOld, InHandUntilStat, RecordedIfItLooksRead, IdleAtStart, Idle
  <2>3. EditReadsWhatItJudges' /\ EditKeepsWhatPassed' /\ CreatedIsMissing'
    BY <2>1 DEF EditReadsWhatItJudges, EditKeepsWhatPassed, CreatedIsMissing, At
  <2>4. QED
    BY <1>1, <2>2, <2>3 DEF FileInv
<1>4. CASE ReadRecords \/ EditRecords \/ CreateRecords
  <2>1. /\ UNCHANGED <<disk, outside>> /\ tool.at = "stat" /\ recorded' = tool.text
        /\ ledger'.time = disk.time /\ tool' = Done
    <3>1. tool.at = "stat" /\ RecordRead
      BY <1>4 DEF ReadRecords, EditRecords, CreateRecords, At
    <3>2. QED BY <3>1 DEF RecordRead, Stat
  <2>2. tool'.op = "none" /\ tool'.at = "start"
    BY <2>1 DEF Done
  <2>3. IdleAtStart' /\ EntryIsOld' /\ InHandUntilStat' /\ RecordedIfItLooksRead'
    BY <1>1, <2>1, <2>2 DEF FileInv, EntryIsOld, InHandUntilStat, RecordedIfItLooksRead, Noticed,
                            TypeOK, IdleAtStart
  <2>4. EditReadsWhatItJudges' /\ EditKeepsWhatPassed' /\ CreatedIsMissing'
    BY <2>2 DEF EditReadsWhatItJudges, EditKeepsWhatPassed, CreatedIsMissing, At
  <2>5. QED
    BY <1>1, <2>3, <2>4 DEF FileInv
\* The steps that leave the file, the ledger and what is recorded as they are.
<1>5. ASSUME UNCHANGED <<disk, ledger, recorded>>, outside'.quiet = outside.quiet,
             outside'.missed = outside.missed, tool.at # "stat", tool'.at # "stat"
      PROVE  EntryIsOld' /\ InHandUntilStat' /\ RecordedIfItLooksRead'
  BY <1>5 DEF FileInv, EntryIsOld, InHandUntilStat, RecordedIfItLooksRead, Noticed, LooksRead
<1>6. CASE EditBegins
  <2>1. /\ UNCHANGED <<disk, ledger, recorded, outside>> /\ tool.at = "start"
        /\ tool'.op = "edit" /\ tool'.at = "gate" /\ tool'.text = disk.content
    BY <1>6 DEF EditBegins, Idle, FileInv, IdleAtStart, Done
  <2>2. EntryIsOld' /\ InHandUntilStat' /\ RecordedIfItLooksRead'
    BY <1>5, <2>1
  <2>3. IdleAtStart' /\ EditReadsWhatItJudges' /\ EditKeepsWhatPassed' /\ CreatedIsMissing'
    BY <2>1 DEF EditReadsWhatItJudges, EditKeepsWhatPassed, CreatedIsMissing, At, IdleAtStart, Idle
  <2>4. QED
    BY <1>1, <2>2, <2>3 DEF FileInv
<1>7. CASE EditGate
  <2>1. /\ UNCHANGED <<disk, ledger, recorded>> /\ At("edit", "gate")
        /\ outside'.quiet = outside.quiet /\ outside'.missed = outside.missed
    BY <1>1, <1>7 DEF EditGate, TypeOK
  <2>2. \/ tool' = Done
        \/ tool' = [tool EXCEPT !.at = "apply"] /\ LooksRead
    BY <1>1, <1>7 DEF EditGate, Fresh, LooksRead
  <2>3. IdleAtStart' /\ tool'.at # "stat"
    BY <1>1, <2>1, <2>2 DEF TypeOK, At, Done, IdleAtStart, Idle
  <2>4. EntryIsOld' /\ InHandUntilStat' /\ RecordedIfItLooksRead'
    BY <1>5, <2>1, <2>3 DEF At
  <2>5. EditReadsWhatItJudges' /\ CreatedIsMissing'
    BY <1>1, <2>1, <2>2 DEF TypeOK, EditReadsWhatItJudges, CreatedIsMissing, At, Done
  \* What passes looks read: it is recorded, and it is what the edit has read.
  <2>6. EditKeepsWhatPassed'
    BY <1>1, <2>1, <2>2 DEF FileInv, TypeOK, EditReadsWhatItJudges, RecordedIfItLooksRead,
                            EditKeepsWhatPassed, Noticed, At, Done
  <2>7. QED
    BY <1>1, <2>3, <2>4, <2>5, <2>6 DEF FileInv
<1>8. CASE EditApplies
  <2>1. /\ UNCHANGED <<disk, ledger, recorded, outside>> /\ At("edit", "apply")
        /\ \/ tool' = Done
           \/ tool'.op = "edit" /\ tool'.at \in {"apply", "rename"} /\ tool'.text = tool.text
    BY <1>1, <1>8 DEF EditApplies, TypeOK, At
  <2>2. IdleAtStart' /\ tool'.at # "stat"
    BY <2>1 DEF At, Done, IdleAtStart, Idle
  <2>3. EntryIsOld' /\ InHandUntilStat' /\ RecordedIfItLooksRead'
    BY <1>5, <2>1, <2>2 DEF At
  <2>4. EditReadsWhatItJudges' /\ CreatedIsMissing'
    BY <2>1 DEF EditReadsWhatItJudges, CreatedIsMissing, At, Done
  <2>5. EditKeepsWhatPassed'
    BY <2>1 DEF FileInv, EditKeepsWhatPassed, Noticed, At, Done
  <2>6. QED
    BY <1>1, <2>2, <2>3, <2>4, <2>5 DEF FileInv
<1>9. CASE EditRenames \/ CreateRenames
  <2>1. Renamed /\ tool.op \in {"edit", "create"}
    BY <1>9 DEF EditRenames, CreateRenames, At
  <2>2. /\ disk'.time >= disk.time /\ ledger' = ledger /\ outside'.quiet = outside.quiet
        /\ tool' = [tool EXCEPT !.at = "stat", !.text = disk'.content]
    BY <1>1, <2>1, RenamedFacts
  <2>3. tool'.op = tool.op /\ tool'.at = "stat" /\ tool'.text = disk'.content
    BY <1>1, <2>2 DEF TypeOK
  <2>4. disk.time \in Nat /\ disk'.time \in Nat /\ ledger.time \in Int
    BY <1>1 DEF TypeOK
  <2>5. EntryIsOld'
    BY <2>2, <2>4 DEF FileInv, EntryIsOld
  <2>6. IdleAtStart' /\ InHandUntilStat' /\ RecordedIfItLooksRead'
    BY <2>1, <2>2, <2>3 DEF IdleAtStart, Idle, InHandUntilStat, RecordedIfItLooksRead
  <2>7. EditReadsWhatItJudges' /\ EditKeepsWhatPassed' /\ CreatedIsMissing'
    BY <2>3 DEF EditReadsWhatItJudges, EditKeepsWhatPassed, CreatedIsMissing, At
  <2>8. QED
    BY <1>1, <2>5, <2>6, <2>7 DEF FileInv
<1>10. CASE CreateBegins
  <2>1. /\ UNCHANGED <<disk, ledger, recorded>> /\ disk.content = 0 /\ tool.at = "start"
        /\ tool'.op = "create" /\ tool'.at = "rename"
        /\ outside'.quiet = outside.quiet /\ outside'.missed = outside.missed
    BY <1>1, <1>10 DEF CreateBegins, Exists, Idle, FileInv, IdleAtStart, Done, TypeOK
  <2>2. EntryIsOld' /\ InHandUntilStat' /\ RecordedIfItLooksRead'
    BY <1>5, <2>1
  <2>3. IdleAtStart' /\ EditReadsWhatItJudges' /\ EditKeepsWhatPassed' /\ CreatedIsMissing'
    BY <2>1 DEF EditReadsWhatItJudges, EditKeepsWhatPassed, CreatedIsMissing, At, IdleAtStart, Idle
  <2>4. QED
    BY <1>1, <2>2, <2>3 DEF FileInv
<1>11. CASE LedgerLost
  <2>1. /\ UNCHANGED <<disk, outside>> /\ ledger' = NoEntry /\ tool' = Done
    BY <1>11 DEF LedgerLost
  <2>2. tool'.op = "none" /\ tool'.at = "start" /\ ledger'.time = -1 /\ disk'.time \in Nat
    BY <1>1, <2>1 DEF Done, NoEntry, TypeOK
  <2>3. IdleAtStart' /\ EntryIsOld' /\ InHandUntilStat' /\ RecordedIfItLooksRead'
    BY <2>1, <2>2 DEF IdleAtStart, EntryIsOld, InHandUntilStat, RecordedIfItLooksRead, LooksRead
  <2>4. EditReadsWhatItJudges' /\ EditKeepsWhatPassed' /\ CreatedIsMissing'
    BY <2>2 DEF EditReadsWhatItJudges, EditKeepsWhatPassed, CreatedIsMissing, At
  <2>5. QED
    BY <1>1, <2>3, <2>4 DEF FileInv
<1>12. CASE UNCHANGED fileVars
  BY <1>1, <1>12 DEF fileVars, FileInv, IdleAtStart, Idle, EntryIsOld, InHandUntilStat,
       RecordedIfItLooksRead, EditReadsWhatItJudges, EditKeepsWhatPassed, CreatedIsMissing,
       Noticed, LooksRead, At
<1>13. QED
  BY <1>2, <1>3, <1>4, <1>6, <1>7, <1>8, <1>9, <1>10, <1>11, <1>12 DEF FileNext

-----------------------------------------------------------------------------
(* The entry of the ledger is never newer than the file it describes, a    *)
(* file that looks read is the one the entry is about, which read_file     *)
(* read or a tool wrote, and an edit that passed the gate is of what is    *)
(* there.  How much of it the model was shown the ledger does not say.     *)
THEOREM LedgerIsRight == FileSpec => []FileInv
<1>1. QED
  BY FileInitInv, FileStepInv, PTL DEF FileSpec

(* A rename of a tool replaces only what read_file has read last or a tool *)
(* has written, or nothing, unless a write came that none of the stats     *)
(* could notice.                                                           *)
THEOREM RenameReplacesWhatIsRecorded == FileSpec => NothingChangedIsReplaced
<1>1. FileInv /\ [FileNext]_fileVars =>
        [EditRenames \/ CreateRenames =>
           \/ outside.missed \/ outside.late \/ outside.quiet
           \/ disk.content = 0
           \/ disk.content = recorded /\ tool.text = recorded]_fileVars
  BY DEF FileInv, EditKeepsWhatPassed, CreatedIsMissing, Noticed, EditRenames, CreateRenames
<1>2. QED
  BY <1>1, LedgerIsRight, PTL DEF FileSpec, NothingChangedIsReplaced

(***************************************************************************)
(* Sums.                                                                   *)
(***************************************************************************)
\* Among some natural numbers there is a least one.
LEMMA LeastNatural ==
  ASSUME NEW T, T \subseteq Nat, T # {} PROVE \E n \in T : \A m \in T : n <= m
<1> DEFINE R == {ss \in Nat \X Nat : ss[1] < ss[2]}
<1>1. IsWellFoundedOn(R, Nat)
  BY NatLessThanWellFounded DEF OpToRel
<1> HIDE DEF R
<1>2. PICK x \in T : \A y \in T : ~(<<y, x>> \in R)
  BY <1>1, WFMin
<1>3. ASSUME NEW m \in T, m < x PROVE FALSE
  <2>1. <<m, x>> \in R
    BY <1>3 DEF R
  <2>2. QED BY <1>2, <2>1
<1>4. \A m \in T : x <= m
  BY <1>3
<1>5. QED BY <1>4

\* Induction: a set that holds 0 and the successors of its numbers holds all.
LEMMA NaturalInduction ==
  ASSUME NEW S, 0 \in S, \A n \in Nat : n \in S => n + 1 \in S PROVE Nat \subseteq S
<1> SUFFICES ASSUME Nat \ S # {} PROVE FALSE
  OBVIOUS
<1>1. PICK n \in Nat \ S : \A m \in Nat \ S : n <= m
  BY LeastNatural
<1>2. n # 0 /\ n - 1 \in Nat /\ n - 1 \in S
  BY <1>1
<1>3. QED BY <1>1, <1>2

\* f holds the sums of the first numbers of s.
SumsOf(f, s) == f[0] = 0 /\ \A n \in 1 .. Len(s) : f[n] = f[n - 1] + s[n]

\* There are such sums, they are numbers, and the total is the last one.
LEMMA SumsExist ==
  ASSUME NEW s \in Seq(Nat)
  PROVE \E f : SumsOf(f, s) /\ Total(s) = f[Len(s)] /\ \A n \in 0 .. Len(s) : f[n] \in Nat
<1> DEFINE L == Len(s)
           Adds(g, k) == g = [n \in 0 .. k |-> IF n = 0 THEN 0 ELSE g[n - 1] + s[n]]
           S == {k \in Nat : \E g : Adds(g, k)}
<1>1. Total(s) = (CHOOSE g : Adds(g, L))[L]
  BY DEF Total
<1>2. L \in Nat /\ \A n \in 1 .. L : s[n] \in Nat
  OBVIOUS
<1> HIDE DEF L
<1>3. 0 \in S
  <2> DEFINE g == [n \in 0 .. 0 |-> 0]
  <2>1. Adds(g, 0)
    OBVIOUS
  <2>2. QED BY <2>1
<1>4. ASSUME NEW k \in Nat, k \in S PROVE k + 1 \in S
  <2>1. PICK f : Adds(f, k)
    BY <1>4
  <2> HIDE DEF Adds
  <2> DEFINE g == [n \in 0 .. (k + 1) |-> IF n <= k THEN f[n] ELSE f[k] + s[k + 1]]
  <2>2. \A n \in 0 .. k : f[n] = IF n = 0 THEN 0 ELSE f[n - 1] + s[n]
    BY <2>1 DEF Adds
  <2>3. \A n \in 0 .. (k + 1) : g[n] = IF n <= k THEN f[n] ELSE f[k] + s[k + 1]
    OBVIOUS
  <2>4. g = [n \in 0 .. (k + 1) |-> g[n]]
    OBVIOUS
  <2> HIDE DEF g
  <2>5. ASSUME NEW n \in 0 .. (k + 1) PROVE g[n] = IF n = 0 THEN 0 ELSE g[n - 1] + s[n]
    <3>1. CASE n <= k
      <4>1. n \in 0 .. k /\ (n # 0 => n - 1 \in 0 .. (k + 1) /\ n - 1 <= k)
        BY <3>1
      <4>2. g[n] = f[n] /\ (n # 0 => g[n - 1] = f[n - 1])
        BY <2>3, <3>1, <4>1
      <4>3. QED BY <2>2, <4>1, <4>2
    <3>2. CASE ~(n <= k)
      <4>1. n = k + 1 /\ n # 0 /\ n - 1 = k /\ k \in 0 .. (k + 1) /\ k <= k
        BY <3>2
      <4>2. g[n] = f[k] + s[n] /\ g[k] = f[k]
        BY <2>3, <3>2, <4>1
      <4>3. QED BY <4>1, <4>2
    <3>3. QED BY <3>1, <3>2
  <2>6. Adds(g, k + 1)
    BY <2>4, <2>5 DEF Adds
  <2>7. QED BY <2>6
<1>5. L \in S
  <2> HIDE DEF S
  <2>1. QED BY <1>2, <1>3, <1>4, NaturalInduction
<1> DEFINE f == CHOOSE g : Adds(g, L)
<1>6. Adds(f, L)
  <2>1. \E g : Adds(g, L)
    BY <1>5
  <2> HIDE DEF Adds
  <2>2. QED BY <2>1
<1> HIDE DEF f
<1>7. \A n \in 0 .. L : f[n] = IF n = 0 THEN 0 ELSE f[n - 1] + s[n]
  BY <1>6
<1>8. f[0] = 0 /\ \A n \in 1 .. L : f[n] = f[n - 1] + s[n]
  <2>1. 0 \in 0 .. L /\ \A n \in 1 .. L : n \in 0 .. L /\ n # 0
    BY <1>2
  <2>2. QED BY <1>7, <2>1
<1> DEFINE N == {n \in Nat : n <= L => f[n] \in Nat}
<1>9. Nat \subseteq N
  <2>1. 0 \in N
    BY <1>8
  <2>2. ASSUME NEW n \in Nat, n \in N PROVE n + 1 \in N
    <3> SUFFICES ASSUME n + 1 <= L PROVE f[n + 1] \in Nat
      OBVIOUS
    <3>1. n + 1 \in 1 .. L /\ (n + 1) - 1 = n /\ f[n] \in Nat
      BY <1>2, <2>2
    <3>2. QED BY <1>2, <1>8, <3>1
  <2> HIDE DEF N
  <2>3. QED BY <2>1, <2>2, NaturalInduction
<1>10. \A n \in 0 .. L : f[n] \in Nat
  BY <1>2, <1>9
<1>11. Total(s) = f[L]
  BY <1>1 DEF f
<1>12. QED BY <1>8, <1>10, <1>11 DEF SumsOf, L

\* The total of two sequences is the sum of their totals.
LEMMA TotalConcat ==
  ASSUME NEW s \in Seq(Nat), NEW t \in Seq(Nat)
  PROVE Total(s \o t) = Total(s) + Total(t) /\ Total(s) \in Nat /\ Total(t) \in Nat
<1> DEFINE u == s \o t
           L == Len(s)
           M == Len(t)
<1>1. /\ u \in Seq(Nat) /\ Len(u) = L + M /\ L \in Nat /\ M \in Nat
      /\ \A i \in 1 .. L + M : u[i] = IF i <= L THEN s[i] ELSE t[i - L]
  BY ConcatProperties
<1>2. PICK f : SumsOf(f, s) /\ Total(s) = f[L] /\ \A n \in 0 .. L : f[n] \in Nat
  BY SumsExist
<1>3. PICK g : SumsOf(g, t) /\ Total(t) = g[M] /\ \A n \in 0 .. M : g[n] \in Nat
  BY SumsExist
<1> HIDE DEF u
<1>4. PICK h : SumsOf(h, u) /\ Total(u) = h[L + M]
  BY <1>1, SumsExist
<1>5. /\ f[0] = 0 /\ \A n \in 1 .. L : f[n] = f[n - 1] + s[n]
      /\ g[0] = 0 /\ \A n \in 1 .. M : g[n] = g[n - 1] + t[n]
      /\ h[0] = 0 /\ \A n \in 1 .. L + M : h[n] = h[n - 1] + u[n]
  BY <1>1, <1>2, <1>3, <1>4 DEF SumsOf
<1>6. L \in 0 .. L /\ M \in 0 .. M /\ \A n \in 1 .. M : t[n] \in Nat
  OBVIOUS
<1> HIDE DEF L, M
<1> DEFINE A == {n \in Nat : n <= L => h[n] = f[n]}
           B == {n \in Nat : n <= M => h[L + n] = f[L] + g[n]}
<1>7. Nat \subseteq A
  <2>1. 0 \in A
    BY <1>5
  <2>2. ASSUME NEW n \in Nat, n \in A PROVE n + 1 \in A
    <3> SUFFICES ASSUME n + 1 <= L PROVE h[n + 1] = f[n + 1]
      OBVIOUS
    <3>1. n + 1 \in 1 .. L /\ n + 1 \in 1 .. L + M /\ (n + 1) - 1 = n /\ n <= L
      BY <1>1
    <3>2. h[n] = f[n] /\ u[n + 1] = s[n + 1]
      BY <1>1, <2>2, <3>1
    <3>3. QED BY <1>5, <3>1, <3>2
  <2> HIDE DEF A
  <2>3. QED BY <2>1, <2>2, NaturalInduction
<1>8. h[L] = f[L] /\ f[L] \in Nat
  BY <1>1, <1>2, <1>6, <1>7
<1>9. Nat \subseteq B
  <2>1. 0 \in B
    <3>1. L + 0 = L /\ f[L] + 0 = f[L]
      BY <1>1, <1>8
    <3>2. QED BY <1>5, <1>8, <3>1
  <2>2. ASSUME NEW n \in Nat, n \in B PROVE n + 1 \in B
    <3> SUFFICES ASSUME n + 1 <= M PROVE h[L + (n + 1)] = f[L] + g[n + 1]
      OBVIOUS
    <3>1. /\ n + 1 \in 1 .. M /\ L + (n + 1) \in 1 .. L + M /\ (L + (n + 1)) - 1 = L + n /\ (n + 1) - 1 = n
          /\ ~(L + (n + 1) <= L) /\ (L + (n + 1)) - L = n + 1 /\ n \in 0 .. M
      BY <1>1
    <3>2. h[L + n] = f[L] + g[n] /\ u[L + (n + 1)] = t[n + 1] /\ g[n] \in Nat /\ t[n + 1] \in Nat
      BY <1>1, <1>3, <1>6, <2>2, <3>1
    <3>3. h[L + (n + 1)] = (f[L] + g[n]) + t[n + 1] /\ g[n + 1] = g[n] + t[n + 1]
      BY <1>5, <3>1, <3>2
    <3>4. QED BY <1>8, <3>2, <3>3
  <2> HIDE DEF B
  <2>3. QED BY <2>1, <2>2, NaturalInduction
<1>10. h[L + M] = f[L] + g[M]
  BY <1>1, <1>6, <1>9
<1>11. Total(s) \in Nat /\ Total(t) \in Nat
  BY <1>1, <1>2, <1>3, <1>6
<1>12. QED BY <1>2, <1>3, <1>4, <1>10, <1>11 DEF u

\* One number more.
LEMMA TotalAppend ==
  ASSUME NEW s \in Seq(Nat), NEW x \in Nat
  PROVE Total(Append(s, x)) = Total(s) + x /\ Total(s) \in Nat
<1>1. <<x>> \in Seq(Nat) /\ Append(s, x) = s \o <<x>>
  BY AppendIsConcat
<1>2. PICK f : SumsOf(f, <<x>>) /\ Total(<<x>>) = f[Len(<<x>>)]
  BY <1>1, SumsExist
<1>3. Total(<<x>>) = x
  <2>1. Len(<<x>>) = 1 /\ <<x>>[1] = x /\ 1 \in 1 .. 1
    OBVIOUS
  <2>2. f[0] = 0 /\ f[1] = f[1 - 1] + <<x>>[1]
    BY <1>2, <2>1 DEF SumsOf
  <2>3. QED BY <1>2, <2>1, <2>2
<1>4. QED BY <1>1, <1>3, TotalConcat

\* Nothing adds up to 0.
LEMMA TotalEmpty == Total(<<>>) = 0
<1>1. <<>> \in Seq(Nat) /\ Len(<<>>) = 0
  OBVIOUS
<1>2. QED BY <1>1, SumsExist DEF SumsOf

(***************************************************************************)
(* The debug log.                                                          *)
(***************************************************************************)
Entries == [line : Nat, drops : Nat]

PipeOK(p) ==
  /\ p = [f \in {"state", "buffer", "dropped", "drain", "taken"} |-> p[f]]
  /\ p.buffer \in Seq(Entries) /\ p.dropped \in Nat /\ p.taken \in Entries

LinkOK(k) == k = [f \in {"state", "shown"} |-> k[f]] /\ k.shown \in Seq(Entries)

\* The console shows lines in the order in which they were logged.
InOrder(k) ==
  \A i, j \in 1 .. Len(k.shown) :
    i < j /\ k.shown[i].line > 0 /\ k.shown[j].line > 0 => k.shown[i].line < k.shown[j].line

\* The writer has an entry that it has not written.
InHand(p) == p.drain \in {"waits", "failed"}

\* The last n lines wait in the buffer, and what the console shows, what the
\* writer holds, the buffer and the drop count account for every line.
Newest(buffer, n) == Len(buffer) <= n /\ \A i \in 1 .. Len(buffer) : buffer[i] = Entry(n - Len(buffer) + i)
Before(k, n) == \A i \in 1 .. Len(k.shown) : k.shown[i].line <= n
Follows(k, entry, n) == entry.line <= n /\ (entry.line > 0 => \A i \in 1 .. Len(k.shown) : k.shown[i].line < entry.line)

Books(p, k, n) ==
  /\ Newest(p.buffer, n) /\ Before(k, n - Len(p.buffer))
  /\ InHand(p) => Follows(k, p.taken, n - Len(p.buffer))
  /\ Accounted(k.shown) + (IF InHand(p) THEN Weight(p.taken) ELSE 0) + Len(p.buffer) + p.dropped = n
  /\ p.drain = "rest" => p.buffer = <<>> /\ p.dropped = 0

DebugInv ==
  /\ logged \in Nat /\ PipeOK(pipe) /\ LinkOK(link)
  /\ logFile = [f \in {"state", "lines"} |-> logFile[f]]
  /\ logFile.state = "on" => logFile.lines = [i \in 1 .. logged |-> i]
  /\ InOrder(link)
  /\ pipe.state = "on" => Books(pipe, link, logged)
  /\ pipe.state # "on" /\ pipe.drain = "waits" => link.state = "closed"
  /\ pipe.drain = "written" => link.state # "listening"

\* One more entry on the console adds its weight.
LEMMA AccountedAppend ==
  ASSUME NEW s \in Seq(Entries), NEW e \in Entries
  PROVE /\ Accounted(Append(s, e)) = Accounted(s) + Weight(e)
        /\ Accounted(s) \in Nat /\ Weight(e) \in Nat
<1> DEFINE L == Len(s)
           W(i) == Weight(s[i])
           w == [i \in 1 .. L |-> W(i)]
           t == Append(s, e)
           v == [i \in 1 .. Len(t) |-> Weight(t[i])]
<1>1. \A x \in Entries : Weight(x) \in Nat
  BY DEF Weight, Entries
<1>2. L \in Nat /\ \A i \in 1 .. L : W(i) \in Nat
  BY <1>1
<1>3. t \in Seq(Entries) /\ Len(t) = L + 1 /\ (\A i \in 1 .. L : t[i] = s[i]) /\ t[L + 1] = e
  BY AppendProperties
<1> HIDE DEF W, L, t
<1>4. w \in Seq(Nat) /\ Len(w) = L /\ \A i \in 1 .. L : w[i] = W(i)
  BY <1>2
<1>5. v \in Seq(Nat) /\ Len(v) = L + 1 /\ \A i \in 1 .. L + 1 : v[i] = Weight(t[i])
  <2>1. \A i \in 1 .. L + 1 : Weight(t[i]) \in Nat
    BY <1>1, <1>3
  <2>2. L + 1 \in Nat
    BY <1>2
  <2> HIDE DEF Weight
  <2>3. QED BY <1>3, <2>1, <2>2
<1> HIDE DEF w, v
<1>6. Weight(e) \in Nat
  BY <1>1
<1> DEFINE u == Append(w, Weight(e))
<1>7. u \in Seq(Nat) /\ Len(u) = L + 1 /\ (\A i \in 1 .. L : u[i] = w[i]) /\ u[L + 1] = Weight(e)
  BY <1>4, <1>6, AppendProperties
<1> HIDE DEF u
<1>8. \A i \in 1 .. L + 1 : v[i] = u[i]
  <2>1. \A i \in 1 .. L + 1 : i = L + 1 \/ i \in 1 .. L
    BY <1>2
  <2>2. QED BY <1>3, <1>4, <1>5, <1>7, <2>1 DEF W
<1>9. v = u
  BY <1>5, <1>7, <1>8, SeqEqual
<1>10. Accounted(t) = Total(v) /\ Accounted(s) = Total(w)
  BY DEF Accounted, v, w, W, L
<1>11. Total(u) = Total(w) + Weight(e) /\ Total(w) \in Nat
  BY <1>4, <1>6, TotalAppend DEF u
<1>12. QED BY <1>6, <1>9, <1>10, <1>11 DEF t

\* An entry that the writer may show keeps the order, and is accounted for.
LEMMA ShowKeeps ==
  ASSUME NEW l, LinkOK(l), InOrder(l), NEW e \in Entries, NEW m \in Int, Before(l, m), Follows(l, e, m),
         NEW k, k = [l EXCEPT !.shown = Append(@, e)]
  PROVE /\ LinkOK(k) /\ InOrder(k) /\ Before(k, m) /\ k.state = l.state
        /\ Accounted(k.shown) = Accounted(l.shown) + Weight(e)
        /\ Accounted(l.shown) \in Nat /\ Weight(e) \in Nat
<1> DEFINE s == l.shown
<1>1. k = [f \in {"state", "shown"} |-> k[f]] /\ k.shown = Append(s, e) /\ k.state = l.state
  BY DEF LinkOK
<1>2. s \in Seq(Entries) /\ Len(s) \in Nat
  BY DEF LinkOK
<1>3. /\ k.shown \in Seq(Entries) /\ Len(k.shown) = Len(s) + 1
      /\ (\A i \in 1 .. Len(s) : k.shown[i] = s[i]) /\ k.shown[Len(s) + 1] = e
  <2>1. k.shown = Append(s, e) /\ s \in Seq(Entries) /\ e \in Entries
    BY <1>1, <1>2
  <2> HIDE DEF s
  <2> DEFINE t == Append(s, e)
  <2>2. /\ t \in Seq(Entries) /\ Len(t) = Len(s) + 1
        /\ (\A i \in 1 .. Len(s) : t[i] = s[i]) /\ t[Len(s) + 1] = e
    BY <2>1, AppendProperties
  <2> HIDE DEF t
  <2>3. k.shown = t
    BY <2>1 DEF t
  <2>4. QED BY <2>2, <2>3
<1>4. LinkOK(k)
  BY <1>1, <1>3 DEF LinkOK
<1>5. \A i \in 1 .. Len(k.shown) : i = Len(s) + 1 \/ i \in 1 .. Len(s)
  BY <1>2, <1>3
<1>6. \A i, j \in 1 .. Len(k.shown) : i < j => i \in 1 .. Len(s)
  BY <1>2, <1>3
<1>7. InOrder(k)
  <2> SUFFICES ASSUME NEW i \in 1 .. Len(k.shown), NEW j \in 1 .. Len(k.shown),
                      i < j, k.shown[i].line > 0, k.shown[j].line > 0
               PROVE k.shown[i].line < k.shown[j].line
    BY DEF InOrder
  <2>1. i \in 1 .. Len(s) /\ k.shown[i] = s[i]
    BY <1>3, <1>6
  <2>2. CASE j = Len(s) + 1
    BY <1>3, <2>1, <2>2 DEF Follows
  <2>3. CASE j \in 1 .. Len(s)
    BY <1>3, <2>1, <2>3 DEF InOrder
  <2>4. QED BY <1>5, <2>2, <2>3
<1>8. Before(k, m)
  BY <1>3, <1>5 DEF Before, Follows
<1>9. Accounted(k.shown) = Accounted(s) + Weight(e) /\ Accounted(s) \in Nat /\ Weight(e) \in Nat
  BY <1>1, <1>2, AccountedAppend
<1>10. QED BY <1>1, <1>4, <1>7, <1>8, <1>9

\* The writer is asked to write the first entry of a buffer: the books still
\* balance, with the entry on the console or in its hand.
LEMMA TakeKeeps ==
  ASSUME PipeOK(pipe), LinkOK(link), InOrder(link),
         NEW p, PipeOK(p), p.buffer # <<>>, NEW n \in Nat,
         Newest(Tail(p.buffer), n), Before(link, n - Len(Tail(p.buffer))),
         Follows(link, Head(p.buffer), n - Len(Tail(p.buffer))),
         Accounted(link.shown) + Weight(Head(p.buffer)) + Len(Tail(p.buffer)) + p.dropped = n
  PROVE LET v == Takes(p) IN
        /\ PipeOK(v) /\ v.state = p.state /\ (v.drain = "waits" => link.state = "listening")
        /\ (v.drain = "written" => link.state = "open")
        /\ LinkOK(Shown(v)) /\ InOrder(Shown(v)) /\ Books(v, Shown(v), n) /\ Shown(v).state = link.state
<1> DEFINE v == Takes(p)
           k == Shown(v)
           e == Head(p.buffer)
           rest == Tail(p.buffer)
           s == link.shown
<1>1. /\ v = [f \in {"state", "buffer", "dropped", "drain", "taken"} |-> v[f]]
      /\ v.taken = e /\ v.buffer = rest /\ v.dropped = p.dropped /\ v.state = p.state
      /\ v.drain = (CASE link.state = "open" -> "written" [] link.state = "listening" -> "waits" [] OTHER -> "failed")
  BY DEF Takes, PipeOK
<1>2. /\ e \in Entries /\ rest \in Seq(Entries) /\ Len(rest) \in Nat /\ p.dropped \in Nat
      /\ s \in Seq(Entries) /\ Len(s) \in Nat
  BY HeadTailProperties DEF PipeOK, LinkOK
<1>3. /\ v.drain \in {"written", "waits", "failed"} /\ (v.drain = "waits" => link.state = "listening")
      /\ (v.drain = "written" => link.state = "open")
  BY <1>1
<1> HIDE DEF v
<1>4. PipeOK(v)
  BY <1>1, <1>2 DEF PipeOK
<1>5. v.drain # "rest"
  BY <1>3
<1>6. CASE v.drain # "written"
  <2>1. k = link /\ InHand(v)
    BY <1>3, <1>6 DEF Shown, InHand
  <2> HIDE DEF k
  <2>2. Books(v, k, n)
    BY <1>1, <1>5, <2>1 DEF Books
  <2>3. QED BY <1>1, <1>3, <1>4, <2>1, <2>2 DEF v, k
<1>7. CASE v.drain = "written"
  <2>1. k = [link EXCEPT !.shown = Append(@, e)] /\ ~InHand(v)
    BY <1>1, <1>7 DEF Shown, InHand
  <2> HIDE DEF k, e, rest
  <2>2. n - Len(rest) \in Int /\ Before(link, n - Len(rest)) /\ Follows(link, e, n - Len(rest))
    BY <1>2 DEF e, rest
  <2>3. /\ LinkOK(k) /\ InOrder(k) /\ Before(k, n - Len(rest)) /\ k.state = link.state
        /\ Accounted(k.shown) = Accounted(s) + Weight(e) /\ Accounted(s) \in Nat /\ Weight(e) \in Nat
    BY <1>2, <2>1, <2>2, ShowKeeps
  <2>4. Accounted(k.shown) + 0 + Len(rest) + p.dropped = n
    BY <1>2, <2>3 DEF e, rest
  <2>5. Newest(rest, n)
    BY DEF rest
  <2>6. Books(v, k, n)
    BY <1>1, <1>5, <2>1, <2>3, <2>4, <2>5 DEF Books
  <2>7. QED BY <1>1, <1>3, <1>4, <2>3, <2>6 DEF v, k
<1>8. QED BY <1>6, <1>7

\* Nothing in the buffer: the next line is the whole of what waits.
LEMMA NewestEmpty ==
  ASSUME NEW n \in Nat PROVE Newest(<<>>, n)
BY DEF Newest

\* A line joins the buffer; a full one loses its oldest line, and counts it.
LEMMA PushKeeps ==
  ASSUME NEW p, PipeOK(p), NEW k, LinkOK(k), NEW n \in Nat, Books(p, k, n)
  PROVE LET v == Push(p, Entry(n + 1)) IN
        /\ PipeOK(v) /\ v.state = p.state /\ v.drain = p.drain /\ v.taken = p.taken
        /\ v.buffer # <<>> /\ Newest(v.buffer, n + 1) /\ Before(k, (n + 1) - Len(v.buffer))
        /\ InHand(p) => Follows(k, p.taken, (n + 1) - Len(v.buffer))
        /\ Len(v.buffer) + v.dropped = Len(p.buffer) + p.dropped + 1
        /\ p.buffer = <<>> => v.buffer = <<Entry(n + 1)>> /\ v.dropped = p.dropped
<1> DEFINE e == Entry(n + 1)
           v == Push(p, e)
           b == p.buffer
           L == Len(b)
           room == IF L >= BufferMax THEN Tail(b) ELSE b
<1>1. /\ v = [f \in {"state", "buffer", "dropped", "drain", "taken"} |-> v[f]]
      /\ v.buffer = Append(room, e) /\ v.dropped = (IF L >= BufferMax THEN p.dropped + 1 ELSE p.dropped)
      /\ v.state = p.state /\ v.drain = p.drain /\ v.taken = p.taken
  BY DEF Push, PipeOK
<1>2. e \in Entries /\ e.line = n + 1 /\ b \in Seq(Entries) /\ L \in Nat /\ p.dropped \in Nat
  BY DEF Entry, Entries, PipeOK
<1>3. L <= n /\ \A i \in 1 .. L : b[i] = Entry(n - L + i)
  BY DEF Books, Newest
<1> HIDE DEF v, e
<1>4. BufferMax \in Nat \ {0}
  BY DebugBounds
<1>5. CASE L >= BufferMax
  <2>1. b # <<>> /\ L > 0
    BY <1>2, <1>4, <1>5
  <2>2. /\ room = Tail(b) /\ room \in Seq(Entries) /\ Len(room) = L - 1
        /\ \A i \in 1 .. L - 1 : room[i] = b[i + 1]
    BY <1>2, <1>5, <2>1, HeadTailProperties
  <2> HIDE DEF b, L, room
  <2>3. /\ v.buffer \in Seq(Entries) /\ Len(v.buffer) = L
        /\ (\A i \in 1 .. L - 1 : v.buffer[i] = room[i]) /\ v.buffer[L] = e
    <3>1. v.buffer = Append(room, e) /\ (L - 1) + 1 = L
      BY <1>1, <1>2
    <3>2. /\ v.buffer \in Seq(Entries) /\ Len(v.buffer) = Len(room) + 1
          /\ (\A i \in 1 .. Len(room) : v.buffer[i] = room[i]) /\ v.buffer[Len(room) + 1] = e
      BY <1>2, <2>2, <3>1, AppendProperties
    <3>3. QED BY <2>2, <3>1, <3>2
  <2>4. \A i \in 1 .. L : v.buffer[i] = Entry((n + 1) - L + i)
    <3>1. ASSUME NEW i \in 1 .. L PROVE v.buffer[i] = Entry((n + 1) - L + i)
      <4>1. CASE i = L
        <5>1. (n + 1) - L + i = n + 1
          BY <1>2, <4>1
        <5>2. QED BY <2>3, <4>1, <5>1 DEF e
      <4>2. CASE i # L
        <5>1. i \in 1 .. L - 1 /\ i + 1 \in 1 .. L /\ n - L + (i + 1) = (n + 1) - L + i
          BY <1>2, <4>2
        <5>2. v.buffer[i] = b[i + 1]
          BY <2>2, <2>3, <5>1
        <5>3. QED BY <1>3, <5>1, <5>2
      <4>3. QED BY <4>1, <4>2
    <3>2. QED BY <3>1
  <2>5. L <= n + 1
    BY <1>2, <1>3
  <2>6. Newest(v.buffer, n + 1)
    BY <2>3, <2>4, <2>5 DEF Newest
  <2>7. v.dropped = p.dropped + 1 /\ v.dropped \in Nat
    BY <1>1, <1>2, <1>5
  <2>8. L + v.dropped = L + p.dropped + 1
    BY <1>2, <2>7
  <2>9. \A x \in Int : x <= n - L => x <= (n + 1) - L
    BY <1>2
  <2>10. \A i \in 1 .. Len(k.shown) : k.shown[i].line \in Int
    <3>1. \A x \in Entries : x.line \in Int
      BY DEF Entries
    <3>2. QED BY <3>1 DEF LinkOK
  <2>11. Before(k, (n + 1) - L)
    BY <2>9, <2>10 DEF Before, Books, b, L
  <2>12. InHand(p) => Follows(k, p.taken, (n + 1) - L)
    <3>1. p.taken.line \in Int
      BY DEF PipeOK, Entries
    <3>2. QED BY <2>9, <3>1 DEF Books, Follows, b, L
  <2>13. PipeOK(v)
    BY <1>1, <2>3, <2>7 DEF PipeOK
  <2>14. v.buffer # <<>>
    BY <2>1, <2>3
  <2>15. b # <<>>
    BY <2>1
  <2>16. QED BY <1>1, <2>3, <2>6, <2>8, <2>11, <2>12, <2>13, <2>14, <2>15 DEF v, e, b, L
<1>6. CASE ~(L >= BufferMax)
  <2>1. room = b
    BY <1>6
  <2> HIDE DEF b, room
  <2>2. /\ v.buffer \in Seq(Entries) /\ Len(v.buffer) = L + 1 /\ v.buffer # <<>>
        /\ (\A i \in 1 .. L : v.buffer[i] = b[i]) /\ v.buffer[L + 1] = e
    BY <1>1, <1>2, <2>1, AppendProperties
  <2> HIDE DEF L
  <2>4. \A i \in 1 .. L + 1 : v.buffer[i] = Entry((n + 1) - (L + 1) + i)
    <3>1. ASSUME NEW i \in 1 .. L + 1 PROVE v.buffer[i] = Entry((n + 1) - (L + 1) + i)
      <4>1. CASE i = L + 1
        <5>1. (n + 1) - (L + 1) + i = n + 1
          BY <1>2, <4>1
        <5>2. QED BY <2>2, <4>1, <5>1 DEF e
      <4>2. CASE i # L + 1
        <5>1. i \in 1 .. L /\ n - L + i = (n + 1) - (L + 1) + i
          BY <1>2, <4>2
        <5>2. QED BY <1>3, <2>2, <5>1
      <4>3. QED BY <4>1, <4>2
    <3>2. QED BY <3>1
  <2>5. L + 1 <= n + 1 /\ (n + 1) - (L + 1) = n - L
    BY <1>2, <1>3
  <2>6. Newest(v.buffer, n + 1)
    <3>1. Len(v.buffer) = L + 1
      BY <2>2
    <3>2. Len(v.buffer) <= n + 1 /\ \A i \in 1 .. Len(v.buffer) : v.buffer[i] = Entry((n + 1) - Len(v.buffer) + i)
      <4> USE <3>1
      <4>1. Len(v.buffer) <= n + 1
        BY <2>5
      <4>2. QED BY <2>4, <4>1
    <3>3. QED BY <3>2 DEF Newest
  <2>7. v.dropped = p.dropped
    BY <1>1, <1>6
  <2>8. (L + 1) + v.dropped = L + p.dropped + 1
    BY <1>2, <2>7
  <2>9. Before(k, n - L) /\ (InHand(p) => Follows(k, p.taken, n - L))
    BY DEF Books, b, L
  <2>10. PipeOK(v)
    BY <1>1, <1>2, <2>2, <2>7 DEF PipeOK
  <2>11. b = <<>> => v.buffer = <<e>>
    BY <1>1, <2>1
  <2>12. QED BY <1>1, <2>2, <2>5, <2>6, <2>7, <2>8, <2>9, <2>10, <2>11 DEF v, e, b, L
<1>7. QED BY <1>5, <1>6

\* What holds of the pipe and the console, apart from the file.
ConsoleInv ==
  /\ PipeOK(pipe) /\ LinkOK(link) /\ InOrder(link)
  /\ pipe.state = "on" => Books(pipe, link, logged)
  /\ pipe.state # "on" /\ pipe.drain = "waits" => link.state = "closed"
  /\ pipe.drain = "written" => link.state # "listening"

\* A line is logged.
LEMMA DLogKeeps ==
  ASSUME DebugInv, DLog PROVE ConsoleInv'
<1> DEFINE n == logged
           full == Push(pipe, Entry(n + 1))
<1>1. /\ logged' = n + 1 /\ n \in Nat /\ n + 1 \in Nat
      /\ PipeOK(pipe) /\ LinkOK(link) /\ InOrder(link) /\ (pipe.state = "on" => Books(pipe, link, n))
  BY DEF DLog, DebugInv
<1>2. CASE pipe.state # "on"
  <2>1. pipe' = pipe /\ link' = link
    BY <1>2 DEF DLog, PipeWrites
  <2>2. QED BY <1>2, <2>1 DEF DebugInv, ConsoleInv, PipeOK, LinkOK, InOrder
<1>3. CASE pipe.state = "on" /\ pipe.drain # "rest"
  <2>1. pipe' = full /\ link' = link
    BY <1>1, <1>3 DEF DLog, PipeWrites
  <2> HIDE DEF n, full
  <2>2. /\ PipeOK(full) /\ full.state = pipe.state /\ full.drain = pipe.drain /\ full.taken = pipe.taken
        /\ Newest(full.buffer, n + 1) /\ Before(link, (n + 1) - Len(full.buffer))
        /\ InHand(pipe) => Follows(link, pipe.taken, (n + 1) - Len(full.buffer))
        /\ Len(full.buffer) + full.dropped = Len(pipe.buffer) + pipe.dropped + 1
    BY <1>1, <1>3, PushKeeps DEF full
  <2>3. InHand(full) <=> InHand(pipe)
    BY <2>2 DEF InHand
  <2> DEFINE shown == Accounted(link.shown)
             held == IF InHand(pipe) THEN Weight(pipe.taken) ELSE 0
  <2>4. shown \in Nat /\ held \in Nat
    <3>1. Weight(pipe.taken) \in Nat /\ link.shown \in Seq(Entries) /\ pipe.taken \in Entries
      BY <1>1 DEF Weight, PipeOK, LinkOK, Entries
    <3>2. QED BY <3>1, AccountedAppend
  <2>5. Len(full.buffer) \in Nat /\ full.dropped \in Nat /\ Len(pipe.buffer) \in Nat /\ pipe.dropped \in Nat
    BY <1>1, <2>2 DEF PipeOK
  <2>6. shown + held + Len(pipe.buffer) + pipe.dropped = n
    BY <1>1, <1>3 DEF Books
  <2>7. shown + held + Len(full.buffer) + full.dropped = n + 1
    <3> HIDE DEF shown, held
    <3> DEFINE c == Len(full.buffer)
               d == full.dropped
               x == Len(pipe.buffer)
               y == pipe.dropped
    <3>2. c + d = x + y + 1 /\ shown + held + x + y = n /\ c \in Nat /\ d \in Nat /\ x \in Nat /\ y \in Nat
      BY <2>2, <2>5, <2>6
    <3> HIDE DEF c, d, x, y
    <3>3. shown + held + c + d = n + 1
      BY <1>1, <2>4, <3>2
    <3>4. QED BY <3>3 DEF c, d
  <2>8. Books(full, link, n + 1)
    BY <1>3, <2>2, <2>3, <2>7 DEF Books
  <2>9. PipeOK(pipe)' /\ LinkOK(link)' /\ InOrder(link)' /\ Books(pipe, link, logged)'
    BY <1>1, <2>1, <2>2, <2>8 DEF PipeOK, LinkOK, InOrder, Books, InHand, Newest, Before, Follows, n
  <2>10. pipe'.drain = "written" => link'.state # "listening"
    BY <2>1, <2>2 DEF DebugInv
  <2>11. QED BY <1>3, <2>1, <2>2, <2>9, <2>10 DEF ConsoleInv
<1>4. CASE pipe.state = "on" /\ pipe.drain = "rest"
  <2> DEFINE v == Takes(full)
  <2>1. pipe' = v /\ link' = Shown(v)
    BY <1>1, <1>4 DEF DLog, PipeWrites
  <2>2. pipe.buffer = <<>> /\ pipe.dropped = 0
    BY <1>1, <1>4 DEF Books
  <2> HIDE DEF n, full
  <2>3. /\ PipeOK(full) /\ full.state = pipe.state /\ full.buffer = <<Entry(n + 1)>> /\ full.dropped = 0
        /\ full.buffer # <<>>
    BY <1>1, <1>4, <2>2, PushKeeps DEF full
  <2>4. Head(full.buffer) = Entry(n + 1) /\ Tail(full.buffer) = <<>> /\ Len(<<>>) = 0
    BY <2>3
  <2>5. Newest(<<>>, n + 1)
    BY <1>1, NewestEmpty
  <2>6. \A i \in 1 .. Len(link.shown) : link.shown[i].line \in Int /\ link.shown[i].line <= n
    <3>1. Before(link, n - Len(pipe.buffer)) /\ n - Len(pipe.buffer) = n
      BY <1>1, <1>4, <2>2, <2>4 DEF Books
    <3>2. \A x \in Entries : x.line \in Int
      BY DEF Entries
    <3>3. QED BY <1>1, <3>1, <3>2 DEF Before, LinkOK
  <2>7. (n + 1) - 0 = n + 1 /\ Entry(n + 1).line = n + 1 /\ Weight(Entry(n + 1)) = 1
    BY <1>1 DEF Entry, Weight
  <2>8. \A x \in Int : x <= n => x <= n + 1 /\ x < n + 1
    BY <1>1
  <2>9. Before(link, (n + 1) - 0) /\ Follows(link, Entry(n + 1), (n + 1) - 0)
    <3>1. Before(link, n + 1)
      BY <2>6, <2>8 DEF Before
    <3>2. n + 1 <= n + 1
      BY <1>1
    <3>3. Follows(link, Entry(n + 1), n + 1)
      BY <2>6, <2>7, <2>8, <3>2 DEF Follows
    <3>4. QED BY <2>7, <3>1, <3>3
  <2>10. Accounted(link.shown) + Weight(Entry(n + 1)) + 0 + full.dropped = n + 1
    <3>1. ~InHand(pipe)
      BY <1>4 DEF InHand
    <3>2. Accounted(link.shown) + 0 + Len(pipe.buffer) + pipe.dropped = n
      BY <1>1, <1>4, <3>1 DEF Books
    <3>3. Accounted(link.shown) \in Nat
      <4>1. PICK x \in Entries : TRUE
        BY <1>1 DEF PipeOK
      <4>2. QED BY <1>1, <4>1, AccountedAppend DEF LinkOK
    <3>4. Accounted(link.shown) = n
      BY <2>2, <2>4, <3>2, <3>3
    <3>5. QED BY <1>1, <2>3, <2>7, <3>4
  <2>11. /\ PipeOK(v) /\ v.state = full.state /\ (v.drain = "waits" => link.state = "listening")
         /\ (v.drain = "written" => link.state = "open") /\ Shown(v).state = link.state
         /\ LinkOK(Shown(v)) /\ InOrder(Shown(v)) /\ Books(v, Shown(v), n + 1)
    BY <1>1, <2>3, <2>4, <2>5, <2>9, <2>10, TakeKeeps
  <2>12. PipeOK(pipe)' /\ LinkOK(link)' /\ InOrder(link)' /\ Books(pipe, link, logged)'
    <3> HIDE DEF v
    <3>1. QED BY <1>1, <2>1, <2>11 DEF PipeOK, LinkOK, InOrder, Books, InHand, Newest, Before, Follows, n
  <2>13. pipe'.state = "on" /\ (pipe'.drain = "written" => link'.state # "listening")
    BY <1>4, <2>1, <2>3, <2>11
  <2>14. QED BY <2>12, <2>13 DEF ConsoleInv
<1>5. QED BY <1>2, <1>3, <1>4

\* The drain goes on, with the next line or with a report, or rests.
LEMMA DrainKeeps ==
  ASSUME DebugInv, Drain PROVE ConsoleInv'
<1> DEFINE empty == pipe.buffer = <<>> /\ pipe.dropped > 0
           p == IF empty THEN [pipe EXCEPT !.buffer = <<Report(pipe.dropped)>>, !.dropped = 0] ELSE pipe
           n == logged
<1>1. /\ pipe.drain = "written" /\ logged' = n /\ n \in Nat
      /\ PipeOK(pipe) /\ LinkOK(link) /\ InOrder(link) /\ (pipe.state = "on" => Books(pipe, link, n))
      /\ pipe.dropped \in Nat
  BY DEF Drain, DebugInv, PipeOK
<1>2. IF p.buffer # <<>> /\ p.state = "on"
      THEN pipe' = Takes(p) /\ link' = Shown(pipe')
      ELSE pipe' = [p EXCEPT !.drain = "rest"] /\ link' = link
  BY DEF Drain
<1>3. /\ p.state = pipe.state /\ p.drain = pipe.drain /\ PipeOK(p)
      /\ empty => p.buffer = <<Report(pipe.dropped)>> /\ p.dropped = 0
      /\ ~empty => p = pipe
  <2>1. CASE empty
    <3>1. /\ p = [f \in {"state", "buffer", "dropped", "drain", "taken"} |-> p[f]]
          /\ p.buffer = <<Report(pipe.dropped)>> /\ p.dropped = 0 /\ p.state = pipe.state
          /\ p.drain = pipe.drain /\ p.taken = pipe.taken
      BY <1>1, <2>1 DEF PipeOK
    <3>2. Report(pipe.dropped) \in Entries
      BY <1>1 DEF Report, Entries
    <3>3. p.buffer \in Seq(Entries)
      <4>1. \A x \in Entries : <<x>> \in Seq(Entries)
        OBVIOUS
      <4>2. QED BY <3>1, <3>2, <4>1
    <3>4. QED BY <1>1, <2>1, <3>1, <3>3 DEF PipeOK
  <2>2. CASE ~empty
    BY <1>1, <2>2
  <2>3. QED BY <2>1, <2>2
<1> HIDE DEF p
<1>4. ~InHand(pipe) /\ Accounted(link.shown) \in Nat
  <2>1. pipe.taken \in Entries /\ link.shown \in Seq(Entries)
    BY <1>1 DEF PipeOK, LinkOK
  <2>2. QED BY <1>1, <2>1, AccountedAppend DEF InHand
<1>5. CASE p.buffer # <<>> /\ p.state = "on"
  <2> DEFINE v == Takes(p)
  <2>1. pipe' = v /\ link' = Shown(v)
    BY <1>2, <1>5
  <2>2. Books(pipe, link, n)
    BY <1>1, <1>3, <1>5
  <2>3. Accounted(link.shown) + 0 + Len(pipe.buffer) + pipe.dropped = n /\ Newest(pipe.buffer, n)
        /\ Before(link, n - Len(pipe.buffer))
    BY <1>4, <2>2 DEF Books
  <2>4. /\ Newest(Tail(p.buffer), n) /\ Before(link, n - Len(Tail(p.buffer)))
        /\ Follows(link, Head(p.buffer), n - Len(Tail(p.buffer)))
        /\ Accounted(link.shown) + Weight(Head(p.buffer)) + Len(Tail(p.buffer)) + p.dropped = n
    <3>1. CASE empty
      <4>1. /\ Head(p.buffer) = Report(pipe.dropped) /\ Tail(p.buffer) = <<>> /\ Len(<<>>) = 0 /\ p.dropped = 0
            /\ pipe.buffer = <<>>
        <5>1. p.buffer = <<Report(pipe.dropped)>> /\ p.dropped = 0 /\ pipe.buffer = <<>>
          BY <1>3, <3>1
        <5>2. \A x : Head(<<x>>) = x /\ Tail(<<x>>) = <<>> /\ Len(<<>>) = 0
          OBVIOUS
        <5> HIDE DEF empty
        <5>3. QED BY <5>1, <5>2
      <4>2. Report(pipe.dropped).line = 0 /\ Weight(Report(pipe.dropped)) = pipe.dropped
        BY DEF Report, Weight
      <4>3. n - 0 = n /\ 0 <= n /\ ~(0 > 0)
        BY <1>1
      <4>4. Newest(<<>>, n) /\ Before(link, n - 0)
        BY <1>1, <2>3, <4>1, NewestEmpty
      <4>5. Follows(link, Report(pipe.dropped), n - 0)
        BY <4>2, <4>3 DEF Follows
      <4>6. Accounted(link.shown) + pipe.dropped + 0 + 0 = n
        BY <1>1, <1>4, <2>3, <4>1
      <4>7. QED BY <4>1, <4>2, <4>4, <4>5, <4>6
    <3>2. CASE ~empty
      <4> DEFINE b == pipe.buffer
                 L == Len(b)
                 rest == Tail(b)
      <4>1. p = pipe /\ b # <<>> /\ b \in Seq(Entries)
        BY <1>1, <1>3, <1>5, <3>2 DEF PipeOK
      <4>2. L \in Nat /\ L > 0 /\ L <= n /\ \A i \in 1 .. L : b[i] = Entry(n - L + i)
        BY <2>3, <4>1 DEF Newest
      <4>3. /\ rest \in Seq(Entries) /\ Len(rest) = L - 1 /\ Head(b) = b[1]
            /\ \A i \in 1 .. L - 1 : rest[i] = b[i + 1]
        <5> HIDE DEF b
        <5>1. QED BY <4>1, HeadTailProperties
      <4>4. Head(b) = Entry(n - L + 1) /\ 1 \in 1 .. L
        BY <4>2, <4>3
      <4> HIDE DEF b, L, rest
      <4>5. \A i \in 1 .. L - 1 : i + 1 \in 1 .. L /\ n - L + (i + 1) = n - (L - 1) + i
        BY <1>1, <4>2
      <4>6. \A i \in 1 .. L - 1 : rest[i] = Entry(n - (L - 1) + i)
        BY <4>2, <4>3, <4>5
      <4>7. L - 1 <= n /\ n - (L - 1) = n - L + 1 /\ n - L + 1 > n - L /\ n - L + 1 > 0
        BY <1>1, <4>2
      <4>8. Newest(rest, n)
        BY <4>3, <4>6, <4>7 DEF Newest
      <4>9. \A x \in Entries : x.line \in Int
        BY DEF Entries
      <4>10. \A i \in 1 .. Len(link.shown) : link.shown[i].line \in Int /\ link.shown[i].line <= n - L
        BY <1>1, <2>3, <4>9 DEF Before, LinkOK, b, L
      <4>11. \A x \in Int : x <= n - L => x <= n - (L - 1) /\ x < n - L + 1
        BY <1>1, <4>2
      <4>12. Before(link, n - (L - 1))
        BY <4>10, <4>11 DEF Before
      <4>13. Entry(n - L + 1).line = n - L + 1 /\ Weight(Entry(n - L + 1)) = 1
        BY <4>7 DEF Entry, Weight
      <4>14. n - L + 1 <= n - (L - 1)
        BY <1>1, <4>2
      <4>15. Follows(link, Head(b), n - (L - 1))
        BY <4>4, <4>10, <4>11, <4>13, <4>14 DEF Follows
      <4>16. Accounted(link.shown) + 1 + (L - 1) + pipe.dropped = n
        <5>1. Accounted(link.shown) + 0 + L + pipe.dropped = n
          BY <2>3 DEF L, b
        <5>2. QED BY <1>1, <1>4, <4>2, <5>1
      <4>17. QED BY <4>1, <4>3, <4>4, <4>8, <4>12, <4>13, <4>15, <4>16 DEF b, rest
    <3>3. QED BY <3>1, <3>2
  <2>5. /\ PipeOK(v) /\ v.state = p.state /\ (v.drain = "waits" => link.state = "listening")
        /\ (v.drain = "written" => link.state = "open") /\ Shown(v).state = link.state
        /\ LinkOK(Shown(v)) /\ InOrder(Shown(v)) /\ Books(v, Shown(v), n)
    BY <1>1, <1>3, <1>5, <2>4, TakeKeeps
  <2> HIDE DEF v
  <2>6. PipeOK(pipe)' /\ LinkOK(link)' /\ InOrder(link)' /\ Books(pipe, link, logged)'
    BY <1>1, <2>1, <2>5 DEF PipeOK, LinkOK, InOrder, Books, InHand, Newest, Before, Follows
  <2>7. pipe'.state = "on" /\ (pipe'.drain = "written" => link'.state # "listening")
    BY <1>5, <2>1, <2>5
  <2>8. QED BY <2>6, <2>7 DEF ConsoleInv
<1>6. CASE ~(p.buffer # <<>> /\ p.state = "on")
  <2>1. pipe' = [p EXCEPT !.drain = "rest"] /\ link' = link
    BY <1>2, <1>6
  <2>2. /\ pipe' = [f \in {"state", "buffer", "dropped", "drain", "taken"} |-> pipe'[f]]
        /\ pipe'.drain = "rest" /\ pipe'.state = p.state /\ pipe'.buffer = p.buffer
        /\ pipe'.dropped = p.dropped /\ pipe'.taken = p.taken
    BY <1>3, <2>1 DEF PipeOK
  <2>3. PipeOK(pipe)'
    BY <1>3, <2>2 DEF PipeOK
  <2>4. LinkOK(link)' /\ InOrder(link)'
    BY <1>1, <2>1 DEF LinkOK, InOrder
  <2>5. ASSUME pipe'.state = "on" PROVE Books(pipe, link, logged)'
    <3>1. p.buffer = <<>> /\ pipe.state = "on"
      BY <1>3, <1>6, <2>2, <2>5
    <3>2. ~empty
      <4>1. CASE empty
        <5>1. p.buffer = <<Report(pipe.dropped)>>
          BY <1>3, <4>1
        <5>2. <<Report(pipe.dropped)>> # <<>>
          OBVIOUS
        <5>3. QED BY <3>1, <5>1, <5>2
      <4>2. QED BY <4>1
    <3>3. p = pipe /\ pipe.dropped = 0
      BY <1>1, <1>3, <3>1, <3>2
    <3>4. Books(pipe, link, n)
      BY <1>1, <3>1
    <3>5. ~InHand(pipe)'
      BY <2>2 DEF InHand
    <3>6. QED BY <1>1, <1>4, <2>1, <2>2, <3>1, <3>3, <3>4, <3>5 DEF Books, Newest, Before
  <2>6. pipe'.drain # "waits" /\ pipe'.drain # "written"
    BY <2>2
  <2>7. QED BY <2>3, <2>4, <2>5, <2>6 DEF ConsoleInv
<1>7. QED BY <1>5, <1>6

\* A step preserves the books, the order and the file.
LEMMA DebugStep == ASSUME DebugInv, [DebugNext]_debugVars PROVE DebugInv'
<1>0. /\ pipe = [f \in {"state", "buffer", "dropped", "drain", "taken"} |-> pipe[f]]
      /\ link = [f \in {"state", "shown"} |-> link[f]]
      /\ logFile = [f \in {"state", "lines"} |-> logFile[f]]
      /\ PipeOK(pipe) /\ LinkOK(link) /\ InOrder(link) /\ logged \in Nat
      /\ (pipe.state = "on" => Books(pipe, link, logged))
  BY DEF DebugInv, PipeOK, LinkOK
<1>1. ASSUME UNCHANGED <<logged, logFile>>, ConsoleInv' PROVE DebugInv'
  BY <1>1 DEF DebugInv, ConsoleInv
<1>2. CASE DLog
  <2>1. ConsoleInv'
    BY <1>2, DLogKeeps
  <2>2. /\ logged' = logged + 1
        /\ logFile' \in IF logFile.state = "on"
                        THEN {[logFile EXCEPT !.lines = Append(@, logged')],
                              [logFile EXCEPT !.state = "disabled"]}
                        ELSE {logFile}
    BY <1>2 DEF DLog
  <2>3. logFile' = [f \in {"state", "lines"} |-> logFile'[f]]
    BY <1>0, <2>2
  <2>4. ASSUME logFile'.state = "on" PROVE logFile'.lines = [i \in 1 .. logged' |-> i]
    <3>1. logFile.state = "on" /\ logFile'.lines = Append(logFile.lines, logged + 1)
      BY <1>0, <2>2, <2>4
    <3>2. logFile.lines = [i \in 1 .. logged |-> i]
      BY <3>1 DEF DebugInv
    <3> DEFINE s == [i \in 1 .. logged |-> i]
               t == [i \in 1 .. logged + 1 |-> i]
               u == Append(s, logged + 1)
    <3>3. s \in Seq(Nat) /\ Len(s) = logged /\ t \in Seq(Nat) /\ Len(t) = logged + 1 /\ logged + 1 \in Nat
          /\ (\A i \in 1 .. logged : s[i] = i) /\ (\A i \in 1 .. logged + 1 : t[i] = i)
      BY <1>0
    <3> HIDE DEF s, t
    <3>4. /\ u \in Seq(Nat) /\ Len(u) = logged + 1
          /\ (\A i \in 1 .. logged : u[i] = s[i]) /\ u[logged + 1] = logged + 1
      BY <3>3, AppendProperties
    <3>5. \A i \in 1 .. logged + 1 : i = logged + 1 \/ i \in 1 .. logged
      BY <1>0
    <3> HIDE DEF u
    <3>6. \A i \in 1 .. logged + 1 : u[i] = t[i]
      BY <3>3, <3>4, <3>5
    <3>7. u = t
      BY <3>3, <3>4, <3>6, SeqEqual
    <3>8. QED BY <2>2, <3>1, <3>2, <3>7 DEF s, t, u
  <2>5. logged' \in Nat
    BY <1>0, <2>2
  <2>6. QED BY <2>1, <2>3, <2>4, <2>5 DEF DebugInv, ConsoleInv
<1>3. CASE Drain
  <2>1. UNCHANGED <<logged, logFile>>
    BY <1>3 DEF Drain
  <2>2. QED BY <1>1, <1>3, <2>1, DrainKeeps
<1>4. CASE PipeDies
  <2>1. /\ pipe' = [pipe EXCEPT !.state = "dead", !.buffer = <<>>, !.drain = "rest"]
        /\ link' = link /\ UNCHANGED <<logged, logFile>>
    BY <1>4 DEF PipeDies
  <2>2. /\ pipe' = [f \in {"state", "buffer", "dropped", "drain", "taken"} |-> pipe'[f]]
        /\ pipe'.state = "dead" /\ pipe'.buffer = <<>> /\ pipe'.drain = "rest"
        /\ pipe'.dropped = pipe.dropped /\ pipe'.taken = pipe.taken
    BY <1>0, <2>1
  <2>3. <<>> \in Seq(Entries)
    OBVIOUS
  <2>4. PipeOK(pipe)'
    BY <1>0, <2>2, <2>3 DEF PipeOK
  <2>5. LinkOK(link)' /\ InOrder(link)'
    BY <1>0, <2>1 DEF LinkOK, InOrder
  <2>6. QED BY <1>1, <2>1, <2>2, <2>4, <2>5 DEF ConsoleInv
<1>5. CASE ViewerConnects
  <2>1. PICK answer \in {"written", "failed"} :
          pipe' = IF pipe.drain = "waits" THEN [pipe EXCEPT !.drain = answer] ELSE pipe
    BY <1>5 DEF ViewerConnects
  <2>2. /\ link.state = "listening" /\ link' = [Shown(pipe') EXCEPT !.state = "open"]
        /\ UNCHANGED <<logged, logFile>>
    BY <1>5 DEF ViewerConnects
  <2>3. /\ pipe' = [f \in {"state", "buffer", "dropped", "drain", "taken"} |-> pipe'[f]]
        /\ pipe'.state = pipe.state /\ pipe'.buffer = pipe.buffer
        /\ pipe'.dropped = pipe.dropped /\ pipe'.taken = pipe.taken
        /\ (pipe.drain = "waits" => pipe'.drain = answer) /\ (pipe.drain # "waits" => pipe'.drain = pipe.drain)
    BY <1>0, <2>1
  <2>4. PipeOK(pipe)'
    BY <1>0, <2>3 DEF PipeOK
  <2>5. pipe'.drain # "waits"
    BY <2>1, <2>3
  <2> DEFINE k == Shown(pipe')
  <2>6. ASSUME k.shown = link.shown, k = [f \in {"state", "shown"} |-> k[f]], pipe.drain = "waits" \/ pipe'.drain = pipe.drain,
               pipe'.state = "on" => Books(pipe', k, logged)
        PROVE ConsoleInv'
    <3> HIDE DEF k
    <3>1. link' = [f \in {"state", "shown"} |-> link'[f]] /\ link'.shown = link.shown /\ link'.state = "open"
      BY <2>2, <2>6 DEF k
    <3>2. LinkOK(link)' /\ InOrder(link)'
      BY <1>0, <3>1 DEF LinkOK, InOrder
    <3>3. pipe'.state = "on" => Books(pipe, link, logged)'
      BY <2>2, <2>6, <3>1 DEF Books, Newest, Before, Follows, InHand
    <3>4. QED BY <2>4, <2>5, <3>1, <3>2, <3>3 DEF ConsoleInv
  <2>7. CASE pipe'.drain # "written"
    <3>1. k = link
      BY <2>7 DEF Shown
    <3>2. (InHand(pipe)' <=> InHand(pipe))
      BY <2>1, <2>3, <2>7 DEF InHand
    <3>3. pipe'.drain = "rest" => pipe.drain = "rest"
      BY <2>1, <2>3
    <3>4. pipe'.state = "on" => Books(pipe', link, logged)
      BY <1>0, <2>3, <3>2, <3>3 DEF Books, InHand
    <3> HIDE DEF k
    <3>5. pipe.drain = "waits" \/ pipe'.drain = pipe.drain
      BY <2>3
    <3>6. ConsoleInv'
      BY <1>0, <2>6, <3>1, <3>4, <3>5
    <3>7. QED BY <1>1, <2>2, <3>6
  <2>8. CASE pipe'.drain = "written"
    <3> DEFINE e == pipe.taken
               m == logged - Len(pipe.buffer)
    <3>1. pipe.drain = "waits" /\ InHand(pipe) /\ ~InHand(pipe)' /\ pipe.state = "on"
      BY <2>2, <2>3, <2>8 DEF DebugInv, InHand
    <3>2. k = [link EXCEPT !.shown = Append(@, e)]
      BY <2>3, <2>8 DEF Shown
    <3>3. /\ e \in Entries /\ Len(pipe.buffer) \in Nat /\ pipe.dropped \in Nat /\ m \in Int
          /\ Books(pipe, link, logged)
      BY <1>0, <3>1 DEF PipeOK
    <3>4. /\ Newest(pipe.buffer, logged) /\ Before(link, m) /\ Follows(link, e, m)
          /\ Accounted(link.shown) + Weight(e) + Len(pipe.buffer) + pipe.dropped = logged
      BY <3>1, <3>3 DEF Books
    <3> HIDE DEF k, e, m
    <3>5. /\ LinkOK(k) /\ InOrder(k) /\ Before(k, m)
          /\ Accounted(k.shown) = Accounted(link.shown) + Weight(e)
          /\ Accounted(link.shown) \in Nat /\ Weight(e) \in Nat
      <4>1. LinkOK(link) /\ InOrder(link)
        BY <1>0
      <4>2. QED BY <3>2, <3>3, <3>4, <4>1, ShowKeeps
    <3>6. Accounted(k.shown) + 0 + Len(pipe.buffer) + pipe.dropped = logged
      BY <3>4, <3>5
    <3>7. link' = [f \in {"state", "shown"} |-> link'[f]] /\ link'.shown = k.shown /\ link'.state = "open"
      BY <2>2, <3>5 DEF k, LinkOK
    <3>8. LinkOK(link)' /\ InOrder(link)' /\ Before(link', m)
      BY <3>5, <3>7 DEF LinkOK, InOrder, Before
    <3>9. Books(pipe, link, logged)'
      BY <2>2, <2>3, <2>8, <3>1, <3>4, <3>6, <3>7, <3>8 DEF Books, Newest, Before, InHand, m
    <3>10. ConsoleInv'
      BY <2>3, <2>4, <2>5, <3>1, <3>7, <3>8, <3>9 DEF ConsoleInv
    <3>11. QED BY <1>1, <2>2, <3>10
  <2>9. QED BY <2>7, <2>8
<1>6. CASE LinkFails
  <2>1. /\ link' = [link EXCEPT !.state = "closed"]
        /\ pipe' = IF pipe.drain = "waits" THEN [pipe EXCEPT !.drain = "failed"] ELSE pipe
        /\ UNCHANGED <<logged, logFile>>
    BY <1>6 DEF LinkFails
  <2>2. /\ pipe' = [f \in {"state", "buffer", "dropped", "drain", "taken"} |-> pipe'[f]]
        /\ pipe'.state = pipe.state /\ pipe'.buffer = pipe.buffer
        /\ pipe'.dropped = pipe.dropped /\ pipe'.taken = pipe.taken
        /\ (pipe.drain = "waits" => pipe'.drain = "failed") /\ (pipe.drain # "waits" => pipe'.drain = pipe.drain)
    BY <1>0, <2>1
  <2>3. link' = [f \in {"state", "shown"} |-> link'[f]] /\ link'.shown = link.shown /\ link'.state = "closed"
    BY <1>0, <2>1
  <2>4. PipeOK(pipe)' /\ LinkOK(link)' /\ InOrder(link)'
    BY <1>0, <2>2, <2>3 DEF PipeOK, LinkOK, InOrder
  <2>5. (InHand(pipe)' <=> InHand(pipe)) /\ (pipe'.drain = "rest" => pipe.drain = "rest")
    BY <2>2 DEF InHand
  <2>6. pipe'.state = "on" => Books(pipe, link, logged)'
    BY <1>0, <2>1, <2>2, <2>3, <2>5 DEF Books, Newest, Before, Follows, InHand
  <2>7. QED BY <1>1, <2>1, <2>3, <2>4, <2>6 DEF ConsoleInv
<1>7. CASE CloseBegins
  <2>1. UNCHANGED <<logged, logFile, pipe, link>>
    BY <1>7 DEF CloseBegins
  <2>2. QED BY <2>1 DEF DebugInv, PipeOK, LinkOK, InOrder, Books, Newest, Before, Follows, InHand
<1>8. CASE CloseEnds
  <2>1. /\ logFile' = IF logFile.state = "on" THEN [logFile EXCEPT !.state = "closed"] ELSE logFile
        /\ pipe' = IF pipe.state = "on" THEN [pipe EXCEPT !.state = "closed", !.buffer = <<>>] ELSE pipe
        /\ link' = [link EXCEPT !.state = "closed"] /\ logged' = logged
    BY <1>8 DEF CloseEnds
  <2>2. <<>> \in Seq(Entries)
    OBVIOUS
  <2>3. PipeOK(pipe)' /\ pipe'.state # "on"
    <3>1. CASE pipe.state = "on"
      <4>1. /\ pipe' = [f \in {"state", "buffer", "dropped", "drain", "taken"} |-> pipe'[f]]
            /\ pipe'.state = "closed" /\ pipe'.buffer = <<>>
            /\ pipe'.dropped = pipe.dropped /\ pipe'.taken = pipe.taken
        BY <1>0, <2>1, <3>1
      <4>2. QED BY <1>0, <2>2, <4>1 DEF PipeOK
    <3>2. CASE pipe.state # "on"
      BY <1>0, <2>1, <3>2 DEF PipeOK
    <3>3. QED BY <3>1, <3>2
  <2>4. link' = [f \in {"state", "shown"} |-> link'[f]] /\ link'.shown = link.shown /\ link'.state = "closed"
    BY <1>0, <2>1
  <2>5. LinkOK(link)' /\ InOrder(link)'
    BY <1>0, <2>4 DEF LinkOK, InOrder
  <2>6. logFile' = [f \in {"state", "lines"} |-> logFile'[f]] /\ logFile'.state # "on"
    BY <1>0, <2>1
  <2>7. QED BY <1>0, <2>1, <2>3, <2>4, <2>5, <2>6 DEF DebugInv
<1>9. CASE UNCHANGED debugVars
  BY <1>9 DEF debugVars, DebugInv, PipeOK, LinkOK, InOrder, Books, Newest, Before, Follows, InHand
<1>10. QED BY <1>2, <1>3, <1>4, <1>5, <1>6, <1>7, <1>8, <1>9 DEF DebugNext

\* No line of the log is lost without a word (debuglog.ts:127-180, :101, :189):
\* the console shows lines in the order in which they were logged, and whenever
\* it is at rest what it does not show is exactly what its reports add up to; a
\* failure of the console costs the file no line, nor the other way round.  For
\* a buffer of any size and any number of lines.
THEOREM LossReported == DebugSpec => []LossIsReported
<1>1. DebugInit => DebugInv
  <2> SUFFICES ASSUME DebugInit PROVE DebugInv
    OBVIOUS
  <2>1. /\ logged = 0 /\ logFile \in [state : {"on", "none"}, lines : {<<>>}]
        /\ pipe \in [state : {"on", "none"}, buffer : {<<>>}, dropped : {0}, drain : {"rest"}, taken : {Report(0)}]
        /\ link = [state |-> IF pipe.state = "on" THEN "listening" ELSE "closed", shown |-> <<>>]
    BY DEF DebugInit
  <2>2. /\ pipe = [f \in {"state", "buffer", "dropped", "drain", "taken"} |-> pipe[f]]
        /\ pipe.buffer = <<>> /\ pipe.dropped = 0 /\ pipe.drain = "rest" /\ pipe.taken = Report(0)
    BY <2>1
  <2>3. link = [f \in {"state", "shown"} |-> link[f]] /\ link.shown = <<>>
    BY <2>1
  <2>4. <<>> \in Seq(Entries) /\ Len(<<>>) = 0 /\ Report(0) \in Entries
    BY DEF Report, Entries
  <2>5. PipeOK(pipe) /\ LinkOK(link) /\ InOrder(link)
    <3>1. PipeOK(pipe)
      <4>1. pipe.buffer \in Seq(Entries) /\ pipe.taken \in Entries
        BY <2>2, <2>4
      <4>2. pipe.dropped \in Nat
        BY <2>2
      <4>3. QED BY <2>2, <4>1, <4>2 DEF PipeOK
    <3>2. LinkOK(link)
      BY <2>3, <2>4 DEF LinkOK
    <3>3. \A i \in 1 .. Len(link.shown) : FALSE
      BY <2>3
    <3>4. QED BY <3>1, <3>2, <3>3 DEF InOrder
  <2>6. Accounted(<<>>) = 0
    <3>1. [i \in 1 .. Len(<<>>) |-> Weight(<<>>[i])] = <<>>
      OBVIOUS
    <3>2. QED BY <3>1, TotalEmpty DEF Accounted
  <2>7. Books(pipe, link, 0)
    <3>1. Newest(<<>>, 0) /\ ~InHand(pipe)
      BY <2>2, NewestEmpty DEF InHand
    <3>2. Before(link, 0)
      BY <2>3 DEF Before
    <3>3. 0 - Len(<<>>) = 0 /\ 0 + 0 + Len(<<>>) + 0 = 0
      <4>1. Len(<<>>) = 0
        OBVIOUS
      <4>2. \A x : x = 0 => 0 - x = 0 /\ 0 + 0 + x + 0 = 0
        OBVIOUS
      <4>3. QED BY <4>1, <4>2
    <3>4. QED BY <2>2, <2>3, <2>6, <3>1, <3>2, <3>3 DEF Books
  <2>8. /\ logFile = [f \in {"state", "lines"} |-> logFile[f]]
        /\ logFile.state = "on" => logFile.lines = [i \in 1 .. 0 |-> i]
    BY <2>1
  <2>9. QED BY <2>1, <2>2, <2>5, <2>7, <2>8 DEF DebugInv
<1>2. DebugInv => LossIsReported
  <2> SUFFICES ASSUME DebugInv PROVE LossIsReported
    OBVIOUS
  <2>1. DOMAIN link.shown = 1 .. Len(link.shown)
    BY DEF DebugInv, LinkOK
  <2>2. ASSUME pipe.state = "on", Drained PROVE Accounted(link.shown) = logged
    <3>1. /\ pipe.buffer = <<>> /\ pipe.drain = "rest" /\ Books(pipe, link, logged) /\ logged \in Nat
          /\ link.shown \in Seq(Entries) /\ pipe.taken \in Entries
      BY <2>2 DEF Drained, DebugInv, LinkOK, PipeOK
    <3>2. /\ pipe.dropped = 0 /\ Len(<<>>) = 0
          /\ Accounted(link.shown) + 0 + Len(<<>>) + pipe.dropped = logged
      BY <3>1 DEF Books, InHand
    <3>3. Accounted(link.shown) \in Nat
      BY <3>1, AccountedAppend
    <3>4. QED BY <3>2, <3>3
  <2>3. InOrder(link) /\ (logFile.state = "on" => logFile.lines = [i \in 1 .. logged |-> i])
    BY DEF DebugInv
  <2>4. QED BY <2>1, <2>2, <2>3 DEF LossIsReported, InOrder
<1>3. QED BY <1>1, <1>2, DebugStep, PTL DEF DebugSpec

(***************************************************************************)
(* The self test.                                                          *)
(***************************************************************************)
Founds == [status : {"pass", "fail", "error", "skip", "budget_exceeded"}, cost : Nat, whole : BOOLEAN]
Codes == {"offline", "sweep", "tools"}

\* Results a category of the plan adds, and the first k together.
Size(i) == IF plan.codes[i] = "offline" THEN 1 ELSE plan.models
PlannedFirst(k) == Total([i \in 1 .. k |-> Size(i)])

Broken(found) == found.status \in {"fail", "error"}
Failed == \E i \in 1 .. Len(results.report) : Broken(results.report[i])
InTest == suite.pc \in {"adapter", "call"}

SuiteOK ==
  /\ plan.codes \in Seq(Codes) /\ plan.models \in Nat
  /\ suite = [f \in {"pc", "next", "test", "interrupted", "late", "code"} |-> suite[f]]
  /\ suite.pc \in {"category", "test", "adapter", "call", "over"}
  /\ suite.next \in Nat /\ suite.next >= 1 /\ suite.next <= Len(plan.codes) + 1 /\ suite.test \in Nat
  /\ suite.interrupted \in BOOLEAN

ResultsOK ==
  /\ results = [f \in {"report", "tests", "spent"} |-> results[f]]
  /\ results.report \in Seq(Founds) /\ results.tests \in Seq(Founds) /\ results.spent \in Nat
  /\ trial = [f \in {"trip", "cost", "deaf"} |-> trial[f]]
  /\ trial.cost \in Nat /\ trial.cost <= MaxCost

\* The budget is checked before a test and charged after it.
BudgetOK ==
  /\ results.spent = 0 \/ results.spent <= Limit - 1 + 2 * MaxCost
  /\ InTest => results.spent <= Limit - 1

\* Until a category throws, the report and the running category account for
\* every cent; what was not whole, without an interrupt, is no success.
Accounts ==
  /\ ~Failed => Costs(results.report) + Costs(results.tests) = results.spent
  /\ suite.pc \in {"category", "over"} => results.tests = <<>>
  /\ ~suite.interrupted =>
       /\ \A i \in 1 .. Len(results.report) : results.report[i].whole \/ Broken(results.report[i])
       /\ \A i \in 1 .. Len(results.tests) : results.tests[i].whole \/ Broken(results.tests[i])

\* Without an interrupt the report has the results of every category that ended,
\* and the running one has one for every test that ended.
Lengths ==
  ~suite.interrupted /\ ~Failed =>
    /\ suite.pc = "category" => Len(results.report) = PlannedFirst(suite.next - 1)
    /\ suite.pc = "test" \/ InTest =>
         /\ suite.next >= 2 /\ Len(results.report) = PlannedFirst(suite.next - 2)
         /\ Len(results.tests) = suite.test - 1 /\ suite.test >= 1 /\ suite.test <= plan.models + 1
    /\ suite.pc = "over" => suite.late \/ Len(results.report) = PlannedFirst(Len(plan.codes))

SelfInv ==
  /\ SuiteOK /\ ResultsOK /\ BudgetOK /\ Accounts /\ Lengths
  /\ suite.pc = "test" \/ InTest => suite.next >= 2
  /\ InTest => Code # "offline" /\ suite.test <= plan.models
  /\ suite.pc = "test" /\ Code = "offline" => results.tests = <<>>
  /\ suite.pc = "over" /\ suite.code = 0 => ~Failed

\* The costs of two lists of results add up.
LEMMA CostsConcat ==
  ASSUME NEW s \in Seq(Founds), NEW t \in Seq(Founds)
  PROVE Costs(s \o t) = Costs(s) + Costs(t) /\ Costs(s) \in Nat /\ Costs(t) \in Nat
<1> DEFINE L == Len(s)
           M == Len(t)
           u == s \o t
           cs == [i \in 1 .. L |-> s[i].cost]
           ct == [i \in 1 .. M |-> t[i].cost]
           cu == [i \in 1 .. Len(u) |-> u[i].cost]
<1>1. \A x \in Founds : x.cost \in Nat
  BY DEF Founds
<1>2. /\ u \in Seq(Founds) /\ Len(u) = L + M /\ L \in Nat /\ M \in Nat
      /\ \A i \in 1 .. L + M : u[i] = IF i <= L THEN s[i] ELSE t[i - L]
  BY ConcatProperties
<1>3. cs \in Seq(Nat) /\ Len(cs) = L /\ \A i \in 1 .. L : cs[i] = s[i].cost
  <2>1. \A i \in 1 .. L : s[i].cost \in Nat
    BY <1>1
  <2>2. QED BY <1>2, <2>1
<1>4. ct \in Seq(Nat) /\ Len(ct) = M /\ \A i \in 1 .. M : ct[i] = t[i].cost
  <2>1. \A i \in 1 .. M : t[i].cost \in Nat
    BY <1>1
  <2>2. QED BY <1>2, <2>1
<1> HIDE DEF u
<1>5. cu \in Seq(Nat) /\ Len(cu) = L + M /\ \A i \in 1 .. L + M : cu[i] = u[i].cost
  <2>1. \A i \in 1 .. Len(u) : u[i].cost \in Nat
    BY <1>1, <1>2
  <2>2. Len(u) \in Nat
    BY <1>2
  <2>3. cu \in Seq(Nat) /\ Len(cu) = Len(u)
    BY <2>1, <2>2
  <2>4. QED BY <1>2, <2>3
<1> HIDE DEF L, M, cs, ct, cu
<1>6. /\ cs \o ct \in Seq(Nat) /\ Len(cs \o ct) = L + M
      /\ \A i \in 1 .. L + M : (cs \o ct)[i] = IF i <= L THEN cs[i] ELSE ct[i - L]
  BY <1>3, <1>4, ConcatProperties
<1> DEFINE w == cs \o ct
<1>7. \A i \in 1 .. L + M : w[i] = cu[i]
  <2>1. ASSUME NEW i \in 1 .. L + M PROVE w[i] = cu[i]
    <3>1. CASE i <= L
      <4>1. i \in 1 .. L
        BY <1>2, <3>1
      <4>2. QED BY <1>2, <1>3, <1>5, <1>6, <3>1, <4>1
    <3>2. CASE ~(i <= L)
      <4>1. i - L \in 1 .. M
        BY <1>2, <3>2
      <4>2. QED BY <1>2, <1>4, <1>5, <1>6, <3>2, <4>1
    <3>3. QED BY <3>1, <3>2
  <2>2. QED BY <2>1
<1>8. w = cu
  <2>1. w \in Seq(Nat) /\ Len(w) = L + M
    BY <1>6
  <2> HIDE DEF w
  <2>2. QED BY <1>5, <1>7, <2>1, SeqEqual
<1>9. Costs(u) = Total(cu) /\ Costs(s) = Total(cs) /\ Costs(t) = Total(ct)
  BY DEF Costs, cu, cs, ct, L, M
<1>10. Total(w) = Total(cs) + Total(ct) /\ Total(cs) \in Nat /\ Total(ct) \in Nat
  BY <1>3, <1>4, TotalConcat
<1>11. QED BY <1>8, <1>9, <1>10 DEF u

\* The costs of no result.
LEMMA CostsNone == Costs(<<>>) = 0
<1>1. [i \in 1 .. Len(<<>>) |-> <<>>[i].cost] = <<>>
  OBVIOUS
<1>2. QED BY <1>1, TotalEmpty DEF Costs

\* The costs of one result.
LEMMA CostsOne ==
  ASSUME NEW e \in Founds
  PROVE Costs(<<e>>) = e.cost /\ e.cost \in Nat
<1>1. e.cost \in Nat
  BY DEF Founds
<1>3. [i \in 1 .. Len(<<e>>) |-> <<e>>[i].cost] = Append(<<>>, e.cost)
  <2>1. Len(<<e>>) = 1 /\ <<e>>[1] = e
    OBVIOUS
  <2>2. \A i \in 1 .. 1 : <<e>>[i].cost = e.cost
    OBVIOUS
  <2>3. [i \in 1 .. 1 |-> e.cost] = <<e.cost>>
    BY <1>1
  <2>4. Append(<<>>, e.cost) = <<e.cost>>
    OBVIOUS
  <2>5. QED BY <2>1, <2>2, <2>3, <2>4
<1>4. <<>> \in Seq(Nat)
  OBVIOUS
<1>5. Total(Append(<<>>, e.cost)) = Total(<<>>) + e.cost
  BY <1>1, <1>4, TotalAppend
<1>6. QED BY <1>1, <1>3, <1>5, TotalEmpty DEF Costs

\* One category more.
LEMMA SizesNext ==
  ASSUME SuiteOK, NEW k \in Nat, k < Len(plan.codes)
  PROVE PlannedFirst(k + 1) = PlannedFirst(k) + Size(k + 1) /\ PlannedFirst(k) \in Nat /\ Size(k + 1) \in Nat
<1> DEFINE s == [i \in 1 .. k |-> Size(i)]
           t == [i \in 1 .. k + 1 |-> Size(i)]
<1>1. \A i : Size(i) \in Nat
  BY DEF SuiteOK, Size
<1> DEFINE x == Size(k + 1)
           u == Append(s, x)
<1>2. x \in Nat
  BY <1>1
<1> HIDE DEF x
<1>3. s \in Seq(Nat) /\ Len(s) = k /\ \A i \in 1 .. k : s[i] = Size(i)
  BY <1>1
<1>4. t \in Seq(Nat) /\ Len(t) = k + 1 /\ \A i \in 1 .. k + 1 : t[i] = Size(i)
  <2>1. k + 1 \in Nat
    OBVIOUS
  <2>2. QED BY <1>1, <2>1
<1> HIDE DEF s, t
<1>5. u \in Seq(Nat) /\ Len(u) = k + 1 /\ (\A i \in 1 .. k : u[i] = s[i]) /\ u[k + 1] = x
  BY <1>2, <1>3, AppendProperties
<1> HIDE DEF u
<1>6. \A i \in 1 .. k + 1 : u[i] = t[i]
  <2>1. \A i \in 1 .. k + 1 : i = k + 1 \/ i \in 1 .. k
    OBVIOUS
  <2>2. QED BY <1>3, <1>4, <1>5, <2>1 DEF x
<1>7. u = t
  BY <1>4, <1>5, <1>6, SeqEqual
<1>8. Total(u) = Total(s) + x /\ Total(s) \in Nat
  BY <1>2, <1>3, TotalAppend DEF u
<1>9. QED BY <1>2, <1>7, <1>8 DEF PlannedFirst, s, t, x

\* A category ends: what it adds to the report accounts for what its tests cost,
\* unless it is broken.
LEMMA EndKeeps ==
  ASSUME SelfInv, suite.pc = "test", NEW tests \in Seq(Founds), CategoryEnds(tests),
         (\A i \in 1 .. Len(tests) : ~Broken(tests[i])) => Costs(tests) = Costs(results.tests),
         ~suite.interrupted => \A i \in 1 .. Len(tests) : tests[i].whole \/ Broken(tests[i]),
         ~suite.interrupted /\ ~Failed /\ (\A i \in 1 .. Len(tests) : ~Broken(tests[i]))
           => Len(tests) = Size(suite.next - 1)
  PROVE SelfInv'
<1> DEFINE r == results.report
           u == r \o tests
           good == \A i \in 1 .. Len(tests) : ~Broken(tests[i])
<1>1. /\ suite' = [suite EXCEPT !.pc = "category"] /\ plan' = plan /\ trial' = trial
      /\ results' = [results EXCEPT !.report = r \o tests, !.tests = <<>>]
  BY DEF CategoryEnds
<1>2. /\ suite' = [f \in {"pc", "next", "test", "interrupted", "late", "code"} |-> suite'[f]]
      /\ suite'.pc = "category" /\ suite'.next = suite.next /\ suite'.test = suite.test
      /\ suite'.interrupted = suite.interrupted /\ suite'.late = suite.late /\ suite'.code = suite.code
  BY <1>1 DEF SelfInv, SuiteOK
<1>3. /\ results' = [f \in {"report", "tests", "spent"} |-> results'[f]]
      /\ results'.report = u /\ results'.tests = <<>> /\ results'.spent = results.spent
  BY <1>1 DEF SelfInv, ResultsOK
<1>4. /\ r \in Seq(Founds) /\ results.tests \in Seq(Founds) /\ results.spent \in Nat
      /\ Len(r) \in Nat /\ Len(tests) \in Nat
  BY DEF SelfInv, ResultsOK
<1>5. /\ u \in Seq(Founds) /\ Len(u) = Len(r) + Len(tests)
      /\ \A i \in 1 .. Len(r) + Len(tests) : u[i] = IF i <= Len(r) THEN r[i] ELSE tests[i - Len(r)]
  BY <1>4, ConcatProperties
<1> HIDE DEF u, r
<1>6. ASSUME NEW i \in 1 .. Len(u)
      PROVE (i \in 1 .. Len(r) /\ u[i] = r[i]) \/ (i - Len(r) \in 1 .. Len(tests) /\ u[i] = tests[i - Len(r)])
  BY <1>4, <1>5
<1>7. \A i \in 1 .. Len(r) : i \in 1 .. Len(u) /\ u[i] = r[i]
  BY <1>4, <1>5
<1>8. \A i \in 1 .. Len(tests) : Len(r) + i \in 1 .. Len(u) /\ u[Len(r) + i] = tests[i]
  <2>1. ASSUME NEW i \in 1 .. Len(tests) PROVE Len(r) + i \in 1 .. Len(u) /\ u[Len(r) + i] = tests[i]
    <3>1. Len(r) + i \in 1 .. Len(r) + Len(tests) /\ ~(Len(r) + i <= Len(r)) /\ (Len(r) + i) - Len(r) = i
      BY <1>4
    <3>2. QED BY <1>5, <3>1
  <2>2. QED BY <2>1
<1>9. ~Failed' => ~Failed /\ good
  BY <1>3, <1>7, <1>8 DEF Failed, r
<1>10. SuiteOK'
  BY <1>1, <1>2 DEF SelfInv, SuiteOK
<1>11. ResultsOK'
  <2>1. <<>> \in Seq(Founds)
    OBVIOUS
  <2>2. QED BY <1>1, <1>3, <1>4, <1>5, <2>1 DEF SelfInv, ResultsOK
<1>12. BudgetOK'
  BY <1>2, <1>3 DEF SelfInv, BudgetOK, InTest
<1>13. Accounts'
  <2>1. ASSUME ~Failed' PROVE Costs(results'.report) + Costs(results'.tests) = results'.spent
    <3>1. /\ Costs(u) = Costs(r) + Costs(tests) /\ Costs(r) \in Nat /\ Costs(tests) \in Nat
      BY <1>4, CostsConcat DEF u
    <3>2. Costs(tests) = Costs(results.tests) /\ Costs(r) + Costs(results.tests) = results.spent
      BY <1>9, <2>1 DEF SelfInv, Accounts, r
    <3>3. Costs(<<>>) = 0
      BY CostsNone
    <3>4. QED BY <1>3, <1>4, <3>1, <3>2, <3>3
  <2>2. ASSUME ~suite'.interrupted, NEW i \in 1 .. Len(u) PROVE u[i].whole \/ Broken(u[i])
    <3>1. \A j \in 1 .. Len(r) : r[j].whole \/ Broken(r[j])
      BY <1>2, <2>2 DEF SelfInv, Accounts, r
    <3>2. \A j \in 1 .. Len(tests) : tests[j].whole \/ Broken(tests[j])
      BY <1>2, <2>2
    <3>3. QED BY <1>6, <3>1, <3>2
  <2>3. \A i \in 1 .. Len(<<>>) : FALSE
    OBVIOUS
  <2>4. QED BY <1>3, <2>1, <2>2, <2>3 DEF Accounts
<1>14. Lengths'
  <2> SUFFICES ASSUME ~suite'.interrupted, ~Failed' PROVE Len(u) = (PlannedFirst(suite.next - 1))'
    BY <1>2, <1>3 DEF Lengths, InTest
  <2>1. Len(tests) = Size(suite.next - 1) /\ suite.next >= 2 /\ Len(r) = PlannedFirst(suite.next - 2)
    BY <1>2, <1>9 DEF SelfInv, Lengths, r
  <2>2. /\ suite.next - 2 \in Nat /\ suite.next - 2 < Len(plan.codes) /\ (suite.next - 2) + 1 = suite.next - 1
    BY <2>1 DEF SelfInv, SuiteOK
  <2>3. PlannedFirst((suite.next - 2) + 1) = PlannedFirst(suite.next - 2) + Size((suite.next - 2) + 1)
    BY <2>2, SizesNext DEF SelfInv
  <2>4. (PlannedFirst(suite.next - 1))' = PlannedFirst(suite.next - 1)
    BY <1>1, <1>2 DEF PlannedFirst, Size
  <2>5. QED BY <1>4, <1>5, <2>1, <2>2, <2>3, <2>4
<1>15. QED BY <1>2, <1>3, <1>10, <1>11, <1>12, <1>13, <1>14 DEF SelfInv, InTest

\* A test of a live category ends.
LEMMA TestKeeps ==
  ASSUME SelfInv, NEW found \in Founds, TestEnds(found), suite.pc = "test" \/ InTest,
         Code # "offline", suite.test <= plan.models,
         suite.interrupted \/ found.whole \/ Broken(found),
         found.cost = 0 \/ (InTest /\ found.cost <= 2 * MaxCost)
  PROVE SelfInv'
<1> DEFINE t == results.tests
           u == Append(t, found)
<1>1. /\ suite' = [suite EXCEPT !.pc = "test", !.test = suite.test + 1] /\ plan' = plan /\ trial' = NoTrial
      /\ results' = [results EXCEPT !.tests = Append(t, found), !.spent = results.spent + found.cost]
  BY DEF TestEnds
<1>2. /\ suite' = [f \in {"pc", "next", "test", "interrupted", "late", "code"} |-> suite'[f]]
      /\ suite'.pc = "test" /\ suite'.next = suite.next /\ suite'.test = suite.test + 1
      /\ suite'.interrupted = suite.interrupted /\ suite'.late = suite.late /\ suite'.code = suite.code
  BY <1>1 DEF SelfInv, SuiteOK
<1>3. /\ results' = [f \in {"report", "tests", "spent"} |-> results'[f]]
      /\ results'.report = results.report /\ results'.tests = u /\ results'.spent = results.spent + found.cost
  BY <1>1 DEF SelfInv, ResultsOK
<1>4. /\ t \in Seq(Founds) /\ results.report \in Seq(Founds) /\ results.spent \in Nat
      /\ Len(t) \in Nat /\ found.cost \in Nat
  BY DEF SelfInv, ResultsOK, Founds
<1>5. /\ u \in Seq(Founds) /\ Len(u) = Len(t) + 1
      /\ (\A i \in 1 .. Len(t) : u[i] = t[i]) /\ u[Len(t) + 1] = found
  <2> HIDE DEF t
  <2>1. found \in Founds
    OBVIOUS
  <2>2. QED BY <1>4, <2>1, AppendProperties
<1> HIDE DEF u, t
<1>6. \A i \in 1 .. Len(u) : i = Len(t) + 1 \/ i \in 1 .. Len(t)
  BY <1>4, <1>5
<1>7. Failed' <=> Failed
  BY <1>3 DEF Failed
<1>8. SuiteOK'
  <2>1. suite.test + 1 \in Nat
    BY DEF SelfInv, SuiteOK
  <2>2. QED BY <1>1, <1>2, <2>1 DEF SelfInv, SuiteOK
<1>9. ResultsOK'
  <2>1. results.spent + found.cost \in Nat
    BY <1>4
  <2>2. /\ trial' = [f \in {"trip", "cost", "deaf"} |-> trial'[f]] /\ trial'.cost = 0
    BY <1>1 DEF NoTrial
  <2>3. 0 <= MaxCost
    BY SelftestBounds
  <2>4. QED BY <1>3, <1>4, <1>5, <2>1, <2>2, <2>3 DEF ResultsOK
<1>10. BudgetOK'
  <2>1. ~InTest'
    BY <1>2 DEF InTest
  <2>2. Limit \in Nat /\ MaxCost \in Nat
    BY SelftestBounds
  <2>3. CASE found.cost = 0
    <3>1. results'.spent = results.spent
      BY <1>3, <1>4, <2>3
    <3>2. QED BY <2>1, <3>1 DEF SelfInv, BudgetOK
  <2>4. CASE InTest /\ found.cost <= 2 * MaxCost
    <3>1. results.spent <= Limit - 1
      BY <2>4 DEF SelfInv, BudgetOK
    <3>2. results.spent + found.cost <= Limit - 1 + 2 * MaxCost
      BY <1>4, <2>2, <2>4, <3>1
    <3>3. QED BY <1>3, <2>1, <3>2 DEF BudgetOK
  <2>5. QED BY <2>3, <2>4
<1>11. Accounts'
  <2>1. ASSUME ~Failed' PROVE Costs(results'.report) + Costs(results'.tests) = results'.spent
    <3>1. Costs(results.report) + Costs(t) = results.spent
      BY <1>7, <2>1 DEF SelfInv, Accounts, t
    <3>2. u = t \o <<found>> /\ <<found>> \in Seq(Founds)
      <4>1. found \in Founds
        OBVIOUS
      <4>2. QED BY <1>4, <4>1, AppendIsConcat DEF u
    <3>3. Costs(u) = Costs(t) + Costs(<<found>>) /\ Costs(t) \in Nat
      BY <1>4, <3>2, CostsConcat
    <3>4. Costs(<<found>>) = found.cost
      BY CostsOne
    <3>5. Costs(results.report) \in Nat
      BY <1>4, CostsConcat
    <3>6. QED BY <1>3, <1>4, <3>1, <3>3, <3>4, <3>5
  <2>2. ASSUME ~suite'.interrupted, NEW i \in 1 .. Len(u) PROVE u[i].whole \/ Broken(u[i])
    <3>1. \A j \in 1 .. Len(t) : t[j].whole \/ Broken(t[j])
      BY <1>2, <2>2 DEF SelfInv, Accounts, t
    <3>2. found.whole \/ Broken(found)
      BY <1>2, <2>2
    <3>3. QED BY <1>5, <1>6, <3>1, <3>2
  <2>3. ~suite'.interrupted => \A i \in 1 .. Len(results.report) : results.report[i].whole \/ Broken(results.report[i])
    BY <1>2 DEF SelfInv, Accounts
  <2>4. QED BY <1>2, <1>3, <2>1, <2>2, <2>3 DEF Accounts
<1>12. Lengths'
  <2> SUFFICES ASSUME ~suite'.interrupted, ~Failed'
               PROVE /\ suite.next >= 2 /\ Len(results.report) = (PlannedFirst(suite.next - 2))'
                     /\ Len(u) = suite'.test - 1 /\ suite'.test >= 1 /\ suite'.test <= plan'.models + 1
    BY <1>2, <1>3 DEF Lengths, InTest
  <2>1. /\ suite.next >= 2 /\ Len(results.report) = PlannedFirst(suite.next - 2)
        /\ Len(t) = suite.test - 1 /\ suite.test >= 1
    BY <1>2, <1>7 DEF SelfInv, Lengths, t
  <2>2. (PlannedFirst(suite.next - 2))' = PlannedFirst(suite.next - 2)
    BY <1>1, <1>2 DEF PlannedFirst, Size
  <2>3. suite.test \in Nat /\ plan.models \in Nat
    BY DEF SelfInv, SuiteOK
  <2>4. Len(u) = suite'.test - 1 /\ suite'.test >= 1 /\ suite'.test <= plan'.models + 1
    BY <1>1, <1>2, <1>5, <2>1, <2>3
  <2>5. QED BY <2>1, <2>2, <2>4
<1>13. suite.next >= 2 /\ Code' = Code
  BY <1>1, <1>2 DEF SelfInv, Code
<1>14. QED BY <1>2, <1>8, <1>9, <1>10, <1>11, <1>12, <1>13 DEF SelfInv, InTest

\* A test is under way: only the place and the trial change.
LEMMA MoveKeeps ==
  ASSUME SelfInv, NEW pc \in {"adapter", "call"}, suite' = [suite EXCEPT !.pc = pc],
         UNCHANGED <<plan, results>>, suite.pc = "test" \/ InTest, Code # "offline", suite.test <= plan.models,
         results.spent <= Limit - 1,
         trial' = [f \in {"trip", "cost", "deaf"} |-> trial'[f]], trial'.cost \in Nat, trial'.cost <= MaxCost
  PROVE SelfInv'
<1>1. /\ suite' = [f \in {"pc", "next", "test", "interrupted", "late", "code"} |-> suite'[f]]
      /\ suite'.pc = pc /\ suite'.next = suite.next /\ suite'.test = suite.test
      /\ suite'.interrupted = suite.interrupted /\ suite'.late = suite.late /\ suite'.code = suite.code
  BY DEF SelfInv, SuiteOK
<1>2. plan' = plan /\ results' = results /\ InTest'
  BY <1>1 DEF InTest
<1>3. SuiteOK'
  BY <1>1, <1>2 DEF SelfInv, SuiteOK
<1>4. ResultsOK'
  BY <1>2 DEF SelfInv, ResultsOK
<1>5. BudgetOK'
  BY <1>2 DEF SelfInv, BudgetOK
<1>6. Accounts'
  BY <1>1, <1>2 DEF SelfInv, Accounts, Failed
<1>7. Lengths'
  <2> SUFFICES ASSUME ~suite'.interrupted, ~Failed'
               PROVE /\ suite.next >= 2 /\ Len(results.report) = (PlannedFirst(suite.next - 2))'
                     /\ Len(results.tests) = suite.test - 1 /\ suite.test >= 1 /\ suite.test <= plan.models + 1
    BY <1>1, <1>2 DEF Lengths
  <2>1. (PlannedFirst(suite.next - 2))' = PlannedFirst(suite.next - 2)
    BY <1>1, <1>2 DEF PlannedFirst, Size
  <2>2. QED BY <1>1, <1>2, <2>1 DEF SelfInv, Lengths, Failed
<1>8. Code' = Code /\ suite.next >= 2
  BY <1>1, <1>2 DEF SelfInv, Code
<1>9. QED BY <1>1, <1>2, <1>3, <1>4, <1>5, <1>6, <1>7, <1>8 DEF SelfInv

\* The next category begins, or the run ends with its exit code.
LEMMA NextCategoryKeeps ==
  ASSUME SelfInv, NextCategory PROVE SelfInv'
<1>0. /\ suite = [f \in {"pc", "next", "test", "interrupted", "late", "code"} |-> suite[f]]
      /\ suite.pc = "category" /\ SuiteOK /\ results.tests = <<>>
      /\ suite.next \in Nat /\ suite.next >= 1 /\ suite.next <= Len(plan.codes) + 1 /\ Len(plan.codes) \in Nat
  BY DEF NextCategory, SelfInv, SuiteOK, Accounts
<1>1. ASSUME NEW late, Ends(late), late \/ suite.interrupted \/ suite.next > Len(plan.codes) PROVE SelfInv'
  <2> DEFINE c == IF \E i \in DOMAIN results.report : results.report[i].status \in {"fail", "error"} THEN 1 ELSE 0
  <2>1. /\ suite' = [suite EXCEPT !.pc = "over", !.late = late, !.code = c]
        /\ plan' = plan /\ trial' = trial /\ results' = results
    BY <1>1 DEF Ends
  <2>2. DOMAIN results.report = 1 .. Len(results.report)
    BY DEF SelfInv, ResultsOK
  <2>3. c = 0 => ~Failed
    BY <2>2 DEF Failed, Broken
  <2> HIDE DEF c
  <2>4. /\ suite' = [f \in {"pc", "next", "test", "interrupted", "late", "code"} |-> suite'[f]]
        /\ suite'.pc = "over" /\ suite'.next = suite.next /\ suite'.test = suite.test
        /\ suite'.interrupted = suite.interrupted /\ suite'.late = late /\ suite'.code = c
    BY <1>0, <2>1
  <2>5. ~InTest' /\ (Failed' <=> Failed)
    BY <2>1, <2>4 DEF InTest, Failed
  <2>6. SuiteOK'
    BY <2>1, <2>4 DEF SelfInv, SuiteOK
  <2>7. ResultsOK' /\ BudgetOK'
    BY <2>1, <2>5 DEF SelfInv, ResultsOK, BudgetOK
  <2>8. Accounts'
    BY <1>0, <2>1, <2>4, <2>5 DEF SelfInv, Accounts
  <2>9. Lengths'
    <3> SUFFICES ASSUME ~suite.interrupted, ~Failed, ~late
                 PROVE Len(results.report) = (PlannedFirst(Len(plan.codes)))'
      BY <2>1, <2>4, <2>5 DEF Lengths
    <3>1. Len(results.report) = PlannedFirst(suite.next - 1)
      BY <1>0 DEF SelfInv, Lengths
    <3>2. suite.next - 1 = Len(plan.codes)
      BY <1>0, <1>1
    <3>3. (PlannedFirst(Len(plan.codes)))' = PlannedFirst(Len(plan.codes))
      BY <2>1 DEF PlannedFirst, Size
    <3>4. QED BY <3>1, <3>2, <3>3
  <2>10. QED BY <2>3, <2>4, <2>5, <2>6, <2>7, <2>8, <2>9 DEF SelfInv
<1>2. ASSUME ~(suite.interrupted \/ suite.next > Len(plan.codes)),
             suite' = [suite EXCEPT !.pc = "test", !.next = suite.next + 1, !.test = 1],
             UNCHANGED <<plan, trial, results>>
      PROVE SelfInv'
  <2>1. /\ suite' = [f \in {"pc", "next", "test", "interrupted", "late", "code"} |-> suite'[f]]
        /\ suite'.pc = "test" /\ suite'.next = suite.next + 1 /\ suite'.test = 1
        /\ suite'.interrupted = suite.interrupted
    BY <1>0, <1>2
  <2>2. plan' = plan /\ trial' = trial /\ results' = results /\ ~InTest'
    BY <1>2, <2>1 DEF InTest
  <2>3. suite'.next \in Nat /\ suite'.next >= 1 /\ suite'.next <= Len(plan.codes) + 1 /\ suite'.next >= 2
    BY <1>0, <1>2, <2>1
  <2>4. SuiteOK'
    BY <1>0, <2>1, <2>2, <2>3 DEF SuiteOK
  <2>5. ResultsOK' /\ BudgetOK'
    BY <2>2 DEF SelfInv, ResultsOK, BudgetOK
  <2>6. Accounts'
    BY <1>0, <2>1, <2>2 DEF SelfInv, Accounts, Failed
  <2>7. Lengths'
    <3> SUFFICES ASSUME ~suite.interrupted, ~Failed
                 PROVE /\ Len(results.report) = (PlannedFirst(suite.next - 2))'
                       /\ Len(results.tests) = 1 - 1 /\ 1 >= 1 /\ 1 <= plan.models + 1
      BY <2>1, <2>2, <2>3 DEF Lengths, Failed
    <3>1. Len(results.report) = PlannedFirst(suite.next - 1)
      BY <1>0 DEF SelfInv, Lengths
    <3>2. suite'.next - 2 = suite.next - 1
      BY <1>0, <2>1
    <3>3. (PlannedFirst(suite.next - 2))' = PlannedFirst(suite'.next - 2)
      BY <2>2 DEF PlannedFirst, Size
    <3>4. Len(results.tests) = 0
      BY <1>0
    <3>5. plan.models \in Nat
      BY <1>0 DEF SuiteOK
    <3>6. QED BY <3>1, <3>2, <3>3, <3>4, <3>5
  <2>8. QED BY <1>0, <2>1, <2>2, <2>3, <2>4, <2>5, <2>6, <2>7 DEF SelfInv
<1>3. QED BY <1>1, <1>2 DEF NextCategory

\* An interrupt ends the run after the test that hears it.
LEMMA InterruptKeeps == ASSUME SelfInv, Interrupt PROVE SelfInv'
<1>1. suite' = [suite EXCEPT !.interrupted = TRUE] /\ plan' = plan /\ trial' = trial /\ results' = results
  BY DEF Interrupt
<1>2. /\ suite' = [f \in {"pc", "next", "test", "interrupted", "late", "code"} |-> suite'[f]]
      /\ suite'.pc = suite.pc /\ suite'.next = suite.next /\ suite'.test = suite.test
      /\ suite'.interrupted = TRUE /\ suite'.code = suite.code
  BY <1>1 DEF SelfInv, SuiteOK
<1>3. (InTest' <=> InTest) /\ Code' = Code /\ (Failed' <=> Failed)
  BY <1>1, <1>2 DEF InTest, Code, Failed
<1>4. SuiteOK'
  BY <1>1, <1>2 DEF SelfInv, SuiteOK
<1>5. ResultsOK' /\ BudgetOK'
  BY <1>1, <1>3 DEF SelfInv, ResultsOK, BudgetOK
<1>6. Accounts'
  BY <1>1, <1>2, <1>3 DEF SelfInv, Accounts
<1>7. Lengths'
  BY <1>2 DEF Lengths
<1>8. QED BY <1>1, <1>2, <1>3, <1>4, <1>5, <1>6, <1>7 DEF SelfInv

\* A step of the self test preserves the accounts.
LEMMA SelfStep == ASSUME SelfInv, [SelfNext]_selfVars PROVE SelfInv'
<1>0. Limit \in Nat /\ MaxCost \in Nat
  BY SelftestBounds
<1>1. CASE NextCategory
  BY <1>1, NextCategoryKeeps
<1>2. CASE CategoryBreaks
  <2> DEFINE e == Found("error", 0, FALSE)
  <2>1. suite.pc = "test" /\ CategoryEnds(<<e>>)
    BY <1>2 DEF CategoryBreaks
  <2>2. e \in Founds /\ Broken(e)
    BY DEF Found, Founds, Broken
  <2> HIDE DEF e
  <2>3. <<e>> \in Seq(Founds) /\ 1 \in 1 .. Len(<<e>>) /\ \A i \in 1 .. Len(<<e>>) : <<e>>[i] = e
    BY <2>2
  <2>4. QED BY <2>1, <2>2, <2>3, EndKeeps
<1>3. CASE OfflineRuns
  <2>1. PICK status \in {"pass", "fail"} : CategoryEnds(<<Found(status, 0, TRUE)>>)
    BY <1>3 DEF OfflineRuns
  <2> DEFINE e == Found(status, 0, TRUE)
  <2>2. suite.pc = "test" /\ Code = "offline" /\ results.tests = <<>>
    BY <1>3 DEF OfflineRuns, SelfInv
  <2>3. e \in Founds /\ e.whole /\ e.cost = 0
    BY DEF Found, Founds
  <2> HIDE DEF e
  <2>4. CategoryEnds(<<e>>)
    BY <2>1 DEF e
  <2>5. <<e>> \in Seq(Founds) /\ Len(<<e>>) = 1 /\ \A i \in 1 .. Len(<<e>>) : <<e>>[i] = e
    BY <2>3
  <2>6. Costs(<<e>>) = 0 /\ Costs(results.tests) = 0
    BY <2>2, <2>3, CostsOne, CostsNone
  <2>7. Size(suite.next - 1) = 1
    BY <2>2 DEF Size, Code
  <2>8. QED BY <2>2, <2>3, <2>4, <2>5, <2>6, <2>7, EndKeeps
<1>4. CASE Interrupt
  BY <1>4, InterruptKeeps
<1>5. CASE NextTest
  <2>1. suite.pc = "test" /\ Code # "offline"
    BY <1>5 DEF NextTest
  <2>2. CASE suite.interrupted \/ suite.test > plan.models
    <3> DEFINE t == results.tests
    <3>1. CategoryEnds(t) /\ t \in Seq(Founds)
      BY <1>5, <2>2 DEF NextTest, SelfInv, ResultsOK
    <3>2. ~suite.interrupted => \A i \in 1 .. Len(t) : t[i].whole \/ Broken(t[i])
      BY DEF SelfInv, Accounts
    <3>3. ~suite.interrupted /\ ~Failed => Len(t) = Size(suite.next - 1)
      <4> SUFFICES ASSUME ~suite.interrupted, ~Failed PROVE Len(t) = Size(suite.next - 1)
        OBVIOUS
      <4>1. Len(t) = suite.test - 1 /\ suite.test <= plan.models + 1
        BY <2>1 DEF SelfInv, Lengths
      <4>2. suite.test \in Nat /\ plan.models \in Nat /\ suite.test > plan.models
        BY <2>2 DEF SelfInv, SuiteOK
      <4>3. Size(suite.next - 1) = plan.models
        BY <2>1 DEF Size, Code
      <4>4. QED BY <4>1, <4>2, <4>3
    <3>4. QED BY <2>1, <3>1, <3>2, <3>3, EndKeeps
  <2>3. CASE ~(suite.interrupted \/ suite.test > plan.models)
    <3>1. StartsTest /\ suite.test <= plan.models
      <4>1. suite.test \in Nat /\ plan.models \in Nat
        BY DEF SelfInv, SuiteOK
      <4>2. QED BY <1>5, <2>3, <4>1 DEF NextTest
    <3>2. ASSUME NEW status \in {"skip", "budget_exceeded"}, TestEnds(Found(status, 0, TRUE)) PROVE SelfInv'
      <4> DEFINE e == Found(status, 0, TRUE)
      <4>1. e \in Founds /\ e.whole /\ e.cost = 0
        BY DEF Found, Founds
      <4> HIDE DEF e
      <4>2. TestEnds(e)
        BY <3>2 DEF e
      <4>3. QED BY <2>1, <3>1, <4>1, <4>2, TestKeeps
    <3>3. ASSUME Left(results) >= 1, suite' = [suite EXCEPT !.pc = "adapter"],
                 trial' = [NoTrial EXCEPT !.trip = 1], UNCHANGED <<plan, results>>
          PROVE SelfInv'
      <4>1. results.spent \in Nat
        BY DEF SelfInv, ResultsOK
      <4>2. results.spent <= Limit - 1
        BY <1>0, <3>3, <4>1 DEF Left
      <4>3. trial' = [f \in {"trip", "cost", "deaf"} |-> trial'[f]] /\ trial'.cost = 0
        BY <3>3 DEF NoTrial
      <4>4. trial'.cost \in Nat /\ trial'.cost <= MaxCost
        BY <1>0, <4>3
      <4>5. QED BY <2>1, <3>1, <3>3, <4>2, <4>3, <4>4, MoveKeeps
    <3>4. QED BY <3>1, <3>2, <3>3 DEF StartsTest
  <2>4. QED BY <2>2, <2>3
<1> DEFINE Under == /\ InTest /\ Code # "offline" /\ suite.test <= plan.models /\ results.spent <= Limit - 1
                    /\ trial = [f \in {"trip", "cost", "deaf"} |-> trial[f]]
                    /\ trial.cost \in Nat /\ trial.cost <= MaxCost
<1>6. InTest => Under
  BY DEF SelfInv, BudgetOK, ResultsOK
<1>7. ASSUME InTest, NEW status \in {"pass", "fail", "error"}, NEW cost \in Nat, cost <= 2 * MaxCost, NEW whole \in BOOLEAN,
             TestEnds(Found(status, cost, whole)), suite.interrupted \/ whole \/ status # "pass"
      PROVE SelfInv'
  <2> DEFINE e == Found(status, cost, whole)
  <2>1. e \in Founds /\ e.cost = cost /\ e.whole = whole /\ e.status = status
    BY DEF Found, Founds
  <2> HIDE DEF e
  <2>2. TestEnds(e)
    BY <1>7 DEF e
  <2>3. suite.interrupted \/ e.whole \/ Broken(e)
    BY <1>7, <2>1 DEF Broken
  <2>4. QED BY <1>6, <1>7, <2>1, <2>2, <2>3, TestKeeps
<1>8. CASE TripBegins
  <2>1. /\ suite.pc = "adapter" /\ suite' = [suite EXCEPT !.pc = "call"]
        /\ trial' = [trial EXCEPT !.deaf = suite.interrupted] /\ UNCHANGED <<plan, results>>
    BY <1>8 DEF TripBegins
  <2>2. InTest
    BY <2>1 DEF InTest
  <2>3. trial' = [f \in {"trip", "cost", "deaf"} |-> trial'[f]] /\ trial'.cost = trial.cost
    BY <1>6, <2>1, <2>2
  <2>4. trial'.cost \in Nat /\ trial'.cost <= MaxCost
    BY <1>6, <2>2, <2>3
  <2>5. QED BY <1>6, <2>1, <2>2, <2>3, <2>4, MoveKeeps
<1>9. CASE TripAnswers
  <2>1. PICK cost \in 0 .. MaxCost :
          \/ TestEnds(Found("fail", trial.cost + cost, TRUE))
          \/ IF Code = "tools" /\ trial.trip = 1
             THEN /\ suite' = [suite EXCEPT !.pc = "adapter"]
                  /\ trial' = [trial EXCEPT !.trip = 2, !.cost = cost]
                  /\ UNCHANGED <<plan, results>>
             ELSE TestEnds(Found("pass", trial.cost + cost, TRUE))
    BY <1>9 DEF TripAnswers
  <2>2. InTest
    BY <1>9 DEF TripAnswers, InTest
  <2>3. trial.cost + cost \in Nat /\ trial.cost + cost <= 2 * MaxCost /\ cost \in Nat /\ cost <= MaxCost
    BY <1>0, <1>6, <2>2
  <2>4. CASE TestEnds(Found("fail", trial.cost + cost, TRUE))
    BY <1>7, <2>2, <2>3, <2>4
  <2>5. CASE TestEnds(Found("pass", trial.cost + cost, TRUE))
    BY <1>7, <2>2, <2>3, <2>5
  <2>6. CASE /\ suite' = [suite EXCEPT !.pc = "adapter"]
             /\ trial' = [trial EXCEPT !.trip = 2, !.cost = cost]
             /\ UNCHANGED <<plan, results>>
    <3>1. trial' = [f \in {"trip", "cost", "deaf"} |-> trial'[f]] /\ trial'.cost = cost
      BY <1>6, <2>2, <2>6
    <3>2. QED BY <1>6, <2>2, <2>3, <2>6, <3>1, MoveKeeps
  <2>7. QED BY <2>1, <2>4, <2>5, <2>6
<1>10. ASSUME InTest, suite.interrupted, TripCut PROVE SelfInv'
  <2>1. trial.cost \in Nat /\ trial.cost <= 2 * MaxCost
    BY <1>0, <1>6, <1>10
  <2>2. QED BY <1>7, <1>10, <2>1 DEF TripCut
<1>11. CASE TripInterrupted
  BY <1>10, <1>11 DEF TripInterrupted, Heard, InTest
<1>12. CASE TripTimesOut
  <2>1. InTest /\ 0 <= 2 * MaxCost
    BY <1>0, <1>12 DEF TripTimesOut, InTest
  <2>2. CASE suite.interrupted
    BY <1>10, <1>12, <2>1, <2>2 DEF TripTimesOut
  <2>3. CASE ~suite.interrupted
    BY <1>7, <1>12, <2>1, <2>3 DEF TripTimesOut
  <2>4. QED BY <2>2, <2>3
<1>13. CASE TripFails
  <2>1. InTest /\ 0 <= 2 * MaxCost
    BY <1>0, <1>13 DEF TripFails, InTest
  <2>2. CASE suite.interrupted
    BY <1>7, <1>13, <2>1, <2>2 DEF TripFails
  <2>3. CASE ~suite.interrupted
    BY <1>7, <1>13, <2>1, <2>3 DEF TripFails
  <2>4. QED BY <2>2, <2>3
<1>14. CASE UNCHANGED selfVars
  <2>1. suite' = suite /\ plan' = plan /\ trial' = trial /\ results' = results
    BY <1>14 DEF selfVars
  <2>2. (InTest' <=> InTest) /\ Code' = Code /\ (Failed' <=> Failed)
    BY <2>1 DEF InTest, Code, Failed
  <2>3. SuiteOK' /\ ResultsOK' /\ BudgetOK' /\ Accounts'
    BY <2>1, <2>2 DEF SelfInv, SuiteOK, ResultsOK, BudgetOK, Accounts
  <2>4. Lengths'
    BY <2>1, <2>2 DEF SelfInv, Lengths, PlannedFirst, Size
  <2>5. QED BY <2>1, <2>2, <2>3, <2>4 DEF SelfInv
<1>15. QED BY <1>1, <1>2, <1>3, <1>4, <1>5, <1>8, <1>9, <1>11, <1>12, <1>13, <1>14 DEF SelfNext

\* A self test spends its budget and at most one test more, also while results
\* are not in the report; and its exit code can be relied on: without an
\* interrupt or a deadline a 0 says that every test of every category ended, none
\* was cut off, and that the report accounts for every cent; with one, at least
\* that no test failed (runner.ts:84-97, 154-231, 321-346, report.ts:60).  For
\* every budget, cost and number of models.
THEOREM ExitCodeOfTheSelftest == SelfSpec => []SelftestTells
<1>1. SelfInit => SelfInv
  <2> SUFFICES ASSUME SelfInit PROVE SelfInv
    OBVIOUS
  <2>1. /\ plan.codes \in {<<"offline">>, <<"sweep">>, <<"tools">>, <<"sweep", "tools">>, <<"offline", "sweep", "tools">>}
        /\ plan.models \in 1 .. MaxModels
        /\ suite = [pc |-> "category", next |-> 1, test |-> 0, interrupted |-> FALSE, late |-> FALSE, code |-> -1]
        /\ trial = [trip |-> 0, cost |-> 0, deaf |-> FALSE]
        /\ results = [report |-> <<>>, tests |-> <<>>, spent |-> 0]
    BY DEF SelfInit, NoTrial
  <2>2. plan.codes \in Seq(Codes) /\ plan.models \in Nat
    <3>1. \A x, y, z \in Codes : <<x>> \in Seq(Codes) /\ <<x, y>> \in Seq(Codes) /\ <<x, y, z>> \in Seq(Codes)
      OBVIOUS
    <3>2. "offline" \in Codes /\ "sweep" \in Codes /\ "tools" \in Codes
      BY DEF Codes
    <3>3. plan.codes \in Seq(Codes)
      BY <2>1, <3>1, <3>2
    <3>4. plan.models \in Nat
      BY <2>1, SelftestBounds
    <3>5. QED BY <3>3, <3>4
  <2>3. SuiteOK
    <3>1. 1 <= Len(plan.codes) + 1
      BY <2>2
    <3>2. QED BY <2>1, <2>2, <3>1 DEF SuiteOK
  <2>4. <<>> \in Seq(Founds) /\ Len(<<>>) = 0 /\ ~InTest
    BY <2>1 DEF InTest
  <2>5. ResultsOK
    <3>1. 0 <= MaxCost
      BY SelftestBounds
    <3>2. QED BY <2>1, <2>4, <3>1 DEF ResultsOK
  <2>6. BudgetOK
    BY <2>1, <2>4 DEF BudgetOK
  <2>7. Accounts
    <3>1. 0 + 0 = 0
      OBVIOUS
    <3>2. QED BY <2>1, <2>4, <3>1, CostsNone DEF Accounts
  <2>8. Lengths
    <3>1. PlannedFirst(1 - 1) = 0
      <4>1. [i \in 1 .. 1 - 1 |-> Size(i)] = <<>>
        OBVIOUS
      <4>2. QED BY <4>1, TotalEmpty DEF PlannedFirst
    <3>2. QED BY <2>1, <2>4, <3>1 DEF Lengths
  <2>9. QED BY <2>1, <2>3, <2>4, <2>5, <2>6, <2>7, <2>8 DEF SelfInv
<1>2. SelfInv => SelftestTells
  <2> SUFFICES ASSUME SelfInv PROVE SelftestTells
    OBVIOUS
  <2>1. results.spent = 0 \/ results.spent <= Limit - 1 + 2 * MaxCost
    BY DEF SelfInv, BudgetOK
  <2>2. ASSUME suite.pc = "over", suite.code = 0
        PROVE /\ Costs(results.report) = results.spent
              /\ ~suite.interrupted => \A i \in DOMAIN results.report : results.report[i].whole
              /\ ~suite.interrupted /\ ~suite.late => Len(results.report) = Planned
    <3>1. ~Failed /\ results.tests = <<>> /\ results.report \in Seq(Founds) /\ results.spent \in Nat
      BY <2>2 DEF SelfInv, Accounts, ResultsOK
    <3>2. Costs(results.report) + Costs(<<>>) = results.spent /\ Costs(results.report) \in Nat
      BY <3>1, CostsConcat DEF SelfInv, Accounts
    <3>3. DOMAIN results.report = 1 .. Len(results.report)
      BY <3>1
    <3>4. ~suite.interrupted => \A i \in DOMAIN results.report : results.report[i].whole
      BY <3>1, <3>3 DEF SelfInv, Accounts, Failed
    <3>5. Planned = PlannedFirst(Len(plan.codes))
      BY DEF Planned, PlannedFirst, Size
    <3>6. ~suite.interrupted /\ ~suite.late => Len(results.report) = Planned
      BY <2>2, <3>1, <3>5 DEF SelfInv, Lengths
    <3>7. QED BY <3>2, <3>4, <3>6, CostsNone
  <2>3. QED BY <2>1, <2>2 DEF SelftestTells
<1>3. QED BY <1>1, <1>2, SelfStep, PTL DEF SelfSpec

(***************************************************************************)
(* A run without a user: the parser accepts exactly the files of the       *)
(* grammar, its prompts are the blocks' in their order, and the exit code  *)
(* tells what became of them, for any file, any turns and any halts.       *)
(***************************************************************************)
FileLine ==
  [kind : {"fence", "separator", "blank", "text", "/exit", "/halt"}, ticks : Nat, info : BOOLEAN]

\* The block that i1 opens is closed before line i2.
Shut(f, i1, i2) == \E c \in CloseOf(f, i1) : c < i2
OpensIs(f, O, n) ==
  /\ O \subseteq 1 .. n
  /\ \A i \in 1 .. n : i \in O <=> f[i].kind = "fence" /\ \A o \in O : o < i => Shut(f, o, i)

\* The fences that open a block are those outside every block before them.
LEMMA OpensExist == ASSUME NEW f \in Seq(FileLine) PROVE OpensIs(f, Opens(f), Len(f))
<1> DEFINE L == Len(f)
           Is(g, i) == f[i].kind = "fence" /\ \A o \in 1 .. i - 1 : g[o] => Shut(f, o, i)
           Marks(g) == g = [i \in 1 .. L |-> Is(g, i)]
           S == {k \in Nat : k <= L => \E O : OpensIs(f, O, k)}
<1>1. L \in Nat
  OBVIOUS
<1>2. Opens(f) = {i \in 1 .. L : (CHOOSE g : Marks(g))[i]}
  BY DEF Opens, Shut
<1> HIDE DEF L
<1>3. 0 \in S
  <2>1. OpensIs(f, {}, 0)
    BY DEF OpensIs
  <2>2. QED BY <2>1
<1>4. ASSUME NEW k \in Nat, k \in S PROVE k + 1 \in S
  <2> SUFFICES ASSUME k + 1 <= L PROVE \E O : OpensIs(f, O, k + 1)
    OBVIOUS
  <2>1. PICK O : OpensIs(f, O, k)
    BY <1>1, <1>4
  <2> DEFINE next == f[k + 1].kind = "fence" /\ \A o \in O : Shut(f, o, k + 1)
             P == IF next THEN O \cup {k + 1} ELSE O
  <2>2. P \subseteq 1 .. k + 1 /\ \A i \in 1 .. k : i \in P <=> i \in O
    BY <2>1 DEF OpensIs
  <2>3. k + 1 \in P <=> next
    BY <2>1 DEF OpensIs
  <2> HIDE DEF P
  <2>4. \A i \in 1 .. k + 1 : \A o \in 1 .. k + 1 : o < i => (o \in P <=> o \in O)
    BY <2>2
  <2>5. ASSUME NEW i \in 1 .. k + 1
        PROVE i \in P <=> f[i].kind = "fence" /\ \A o \in P : o < i => Shut(f, o, i)
    <3>1. (\A o \in P : o < i => Shut(f, o, i)) <=> (\A o \in O : o < i => Shut(f, o, i))
      BY <2>1, <2>2, <2>4 DEF OpensIs
    <3>2. CASE i = k + 1
      <4>1. \A o \in O : o < i
        BY <2>1, <3>2 DEF OpensIs
      <4>2. QED BY <2>3, <3>1, <3>2, <4>1
    <3>3. CASE i # k + 1
      <4>1. i \in 1 .. k
        BY <3>3
      <4>2. QED BY <2>1, <2>2, <3>1, <4>1 DEF OpensIs
    <3>4. QED BY <3>2, <3>3
  <2>6. QED BY <2>2, <2>5 DEF OpensIs
<1> HIDE DEF S
<1>5. Nat \subseteq S
  BY <1>3, <1>4, NaturalInduction
<1>6. PICK O : OpensIs(f, O, L)
  BY <1>1, <1>5 DEF S
<1>7. Marks([i \in 1 .. L |-> i \in O])
  <2> DEFINE g == [i \in 1 .. L |-> i \in O]
  <2>1. ASSUME NEW i \in 1 .. L PROVE (i \in O) = Is(g, i)
    <3>1. \A o \in 1 .. i - 1 : g[o] <=> o \in O
      <4>1. \A o \in 1 .. i - 1 : o \in 1 .. L
        BY <1>1
      <4>2. \A o \in 1 .. L : g[o] <=> o \in O
        OBVIOUS
      <4>3. QED BY <4>1, <4>2
    <3>2. O \subseteq 1 .. L
      BY <1>6 DEF OpensIs
    <3>3. \A o \in Int : o \in 1 .. i - 1 <=> o \in 1 .. L /\ o < i
      BY <1>1
    <3> HIDE DEF g
    <3>4. (\A o \in 1 .. i - 1 : g[o] => Shut(f, o, i)) <=> (\A o \in O : o < i => Shut(f, o, i))
      BY <1>1, <3>1, <3>2, <3>3
    <3>5. QED BY <1>6, <3>4 DEF OpensIs, g
  <2>2. g = [i \in 1 .. L |-> Is(g, i)]
    BY <2>1
  <2>3. QED BY <2>2
<1>8. PICK g : Marks(g) /\ Opens(f) = {i \in 1 .. L : g[i]}
  BY <1>2, <1>7
<1>9. \A i \in 1 .. L : g[i] = Is(g, i)
  BY <1>8
<1>10. ASSUME NEW i \in 1 .. L
       PROVE i \in Opens(f) <=> f[i].kind = "fence" /\ \A o \in Opens(f) : o < i => Shut(f, o, i)
  <2>1. \A o \in Int : o \in 1 .. i - 1 <=> o \in 1 .. L /\ o < i
    BY <1>1
  <2>2. Opens(f) = {o \in 1 .. L : g[o]}
    BY <1>8
  <2>3. (\A o \in 1 .. i - 1 : g[o] => Shut(f, o, i)) <=> (\A o \in Opens(f) : o < i => Shut(f, o, i))
    BY <2>1, <2>2
  <2>4. QED BY <1>9, <2>2, <2>3
<1>11. Opens(f) \subseteq 1 .. L
  BY <1>8
<1>12. QED BY <1>10, <1>11 DEF OpensIs, L

\* Where the block that line i opens ends: at its close, or behind the file.
EndOf(f, i) == Min(CloseOf(f, i) \cup {Len(f) + 1})

LEMMA EndIs ==
  ASSUME NEW f \in Seq(FileLine), NEW o \in 1 .. Len(f)
  PROVE /\ EndOf(f, o) \in o + 1 .. Len(f) + 1
        /\ EndOf(f, o) <= Len(f) => EndOf(f, o) \in CloseOf(f, o)
        /\ \A c \in CloseOf(f, o) : EndOf(f, o) <= c
<1> DEFINE T == CloseOf(f, o) \cup {Len(f) + 1}
<1>1. Len(f) \in Nat /\ CloseOf(f, o) \subseteq o + 1 .. Len(f)
  BY DEF CloseOf
<1>2. T \subseteq o + 1 .. Len(f) + 1 /\ T \subseteq Nat /\ T # {}
  BY <1>1
<1>3. \E m \in T : \A k \in T : m <= k
  BY <1>2, LeastNatural
<1>4. EndOf(f, o) \in T /\ \A k \in T : EndOf(f, o) <= k
  BY <1>3 DEF EndOf, Min
<1>5. EndOf(f, o) \in Nat
  BY <1>2, <1>4
<1>6. QED BY <1>1, <1>2, <1>4, <1>5

\* A block is shut before a line if it ends before it.
LEMMA ShutIs ==
  ASSUME NEW f \in Seq(FileLine), NEW o \in 1 .. Len(f), NEW i \in 1 .. Len(f) + 1
  PROVE Shut(f, o, i) <=> EndOf(f, o) < i
<1>1. Len(f) \in Nat /\ CloseOf(f, o) \subseteq o + 1 .. Len(f)
  BY DEF CloseOf
<1>2. QED BY <1>1, EndIs DEF Shut

\* The least number at which a condition that fails somewhere fails.
LEMMA FirstFailure ==
  ASSUME NEW n \in Nat, NEW A, NEW B, \E i \in 1 .. n : ~(i \in A <=> i \in B)
  PROVE \E i \in 1 .. n : ~(i \in A <=> i \in B) /\ \A j \in 1 .. i - 1 : j \in A <=> j \in B
<1> DEFINE T == {i \in 1 .. n : ~(i \in A <=> i \in B)}
<1>1. T \subseteq Nat /\ T # {}
  OBVIOUS
<1>2. PICK i \in T : \A j \in T : i <= j
  BY <1>1, LeastNatural
<1>3. QED BY <1>2

\* A line more: which block it may open and which it closes.
LEMMA OneMore ==
  ASSUME NEW f \in Seq(FileLine), NEW line \in FileLine
  PROVE LET n == Len(f)
            g == Append(f, line)
        IN  /\ g \in Seq(FileLine) /\ Len(g) = n + 1 /\ g[n + 1] = line
            /\ \A i \in 1 .. n : g[i] = f[i]
            /\ \A o \in 1 .. n :
                 EndOf(g, o) = IF EndOf(f, o) <= n THEN EndOf(f, o)
                               ELSE IF Closes(line, f[o].ticks) THEN n + 1 ELSE n + 2
            /\ EndOf(g, n + 1) = n + 2
            /\ \A i \in 1 .. n : i \in Opens(g) <=> i \in Opens(f)
            /\ n + 1 \in Opens(g) <=> line.kind = "fence" /\ \A o \in Opens(f) : EndOf(f, o) <= n
            /\ Opens(f) \subseteq 1 .. n /\ Opens(g) \subseteq 1 .. n + 1
<1> DEFINE n == Len(f)
           g == Append(f, line)
<1>1. n \in Nat /\ g \in Seq(FileLine) /\ Len(g) = n + 1 /\ g[n + 1] = line /\ \A i \in 1 .. n : g[i] = f[i]
  OBVIOUS
<1>2. OpensIs(f, Opens(f), n) /\ OpensIs(g, Opens(g), n + 1)
  BY <1>1, OpensExist
<1> HIDE DEF n, g
<1>3. ASSUME NEW o \in 1 .. n
      PROVE CloseOf(g, o) = CloseOf(f, o) \cup (IF Closes(line, f[o].ticks) THEN {n + 1} ELSE {})
  BY <1>1 DEF CloseOf, n
<1>4. ASSUME NEW o \in 1 .. n
      PROVE EndOf(g, o) = IF EndOf(f, o) <= n THEN EndOf(f, o)
                          ELSE IF Closes(line, f[o].ticks) THEN n + 1 ELSE n + 2
  <2>1. /\ EndOf(f, o) \in o + 1 .. n + 1 /\ \A c \in CloseOf(f, o) : EndOf(f, o) <= c
        /\ EndOf(f, o) <= n => EndOf(f, o) \in CloseOf(f, o)
    BY EndIs DEF n
  <2>2. o \in 1 .. Len(g)
    BY <1>1
  <2>3. /\ EndOf(g, o) \in o + 1 .. n + 2 /\ \A c \in CloseOf(g, o) : EndOf(g, o) <= c
        /\ EndOf(g, o) <= n + 1 => EndOf(g, o) \in CloseOf(g, o)
    BY <1>1, <2>2, EndIs
  <2>4. CloseOf(f, o) \subseteq o + 1 .. n
    BY DEF CloseOf, n
  <2>5. QED BY <1>1, <1>3, <2>1, <2>3, <2>4
<1>5. EndOf(g, n + 1) = n + 2
  <2>1. n + 1 \in 1 .. Len(g)
    BY <1>1
  <2>2. EndOf(g, n + 1) \in n + 1 + 1 .. n + 1 + 1
    BY <1>1, <2>1, EndIs
  <2>3. QED BY <1>1, <2>2
<1>6. ASSUME NEW o \in 1 .. n, NEW i \in 1 .. n + 1, o < i PROVE Shut(g, o, i) <=> EndOf(f, o) < i
  <2>1. o \in 1 .. Len(g) /\ i \in 1 .. Len(g) + 1
    BY <1>1
  <2>2. Shut(g, o, i) <=> EndOf(g, o) < i
    BY <1>1, <2>1, ShutIs
  <2>3. EndOf(f, o) \in o + 1 .. n + 1
    BY EndIs DEF n
  <2>4. QED BY <1>1, <1>4, <2>2, <2>3
<1>7. ASSUME NEW i \in 1 .. n PROVE i \in Opens(g) <=> i \in Opens(f)
  <2> SUFFICES ASSUME \E j \in 1 .. n : ~(j \in Opens(g) <=> j \in Opens(f)) PROVE FALSE
    OBVIOUS
  <2>1. PICK j \in 1 .. n : /\ ~(j \in Opens(g) <=> j \in Opens(f))
                            /\ \A o \in 1 .. j - 1 : o \in Opens(g) <=> o \in Opens(f)
    <3> DEFINE A == Opens(g)
               B == Opens(f)
    <3>1. \E j \in 1 .. n : ~(j \in A <=> j \in B)
      OBVIOUS
    <3> HIDE DEF A, B
    <3>2. \E j \in 1 .. n : ~(j \in A <=> j \in B) /\ \A o \in 1 .. j - 1 : o \in A <=> o \in B
      BY <1>1, <3>1, FirstFailure
    <3>3. QED BY <3>2 DEF A, B
  <2>2. Opens(f) \subseteq 1 .. n /\ Opens(g) \subseteq 1 .. n + 1
    BY <1>2 DEF OpensIs
  <2>3. \A o : o \in Opens(f) /\ o < j <=> o \in Opens(g) /\ o < j
    BY <1>1, <2>1, <2>2
  <2>4. ASSUME NEW o \in Opens(f), o < j PROVE Shut(f, o, j) <=> Shut(g, o, j)
    <3>1. o \in 1 .. n /\ o \in 1 .. Len(f) /\ j \in 1 .. Len(f) + 1 /\ j \in 1 .. n + 1
      BY <1>1, <2>2 DEF n
    <3>2. Shut(f, o, j) <=> EndOf(f, o) < j
      BY <3>1, ShutIs
    <3>3. QED BY <1>6, <2>4, <3>1, <3>2
  <2>5. j \in Opens(f) <=> f[j].kind = "fence" /\ \A o \in Opens(f) : o < j => Shut(f, o, j)
    BY <1>2 DEF OpensIs
  <2>6. j \in Opens(g) <=> g[j].kind = "fence" /\ \A o \in Opens(g) : o < j => Shut(g, o, j)
    BY <1>1, <1>2 DEF OpensIs
  <2>7. QED BY <1>1, <2>1, <2>3, <2>4, <2>5, <2>6
<1>8. n + 1 \in Opens(g) <=> line.kind = "fence" /\ \A o \in Opens(f) : EndOf(f, o) <= n
  <2>1. Opens(f) \subseteq 1 .. n /\ Opens(g) \subseteq 1 .. n + 1
    BY <1>2 DEF OpensIs
  <2>2. n + 1 \in Opens(g) <=> line.kind = "fence" /\ \A o \in Opens(g) : o < n + 1 => Shut(g, o, n + 1)
    BY <1>1, <1>2 DEF OpensIs
  <2>3. \A o : o \in Opens(f) <=> o \in Opens(g) /\ o < n + 1
    BY <1>1, <1>7, <2>1
  <2>4. \A o \in Opens(f) : Shut(g, o, n + 1) <=> EndOf(f, o) < n + 1
    BY <1>1, <1>6, <2>1
  <2>5. \A o \in Opens(f) : EndOf(f, o) \in Nat
    BY <1>1, <2>1, EndIs DEF n
  <2>6. QED BY <1>1, <2>2, <2>3, <2>4, <2>5
<1>9. Opens(f) \subseteq 1 .. n /\ Opens(g) \subseteq 1 .. n + 1
  BY <1>2 DEF OpensIs
<1>10. QED BY <1>1, <1>4, <1>5, <1>7, <1>8, <1>9 DEF n, g

\* The blocks follow one another.
LEMMA BlocksFollow ==
  ASSUME NEW f \in Seq(FileLine)
  PROVE /\ Opens(f) \subseteq 1 .. Len(f)
        /\ \A o \in Opens(f) : /\ f[o].kind = "fence"
                               /\ EndOf(f, o) \in o + 1 .. Len(f) + 1
        /\ \A o, i \in Opens(f) : o < i => EndOf(f, o) < i
<1>1. OpensIs(f, Opens(f), Len(f))
  BY OpensExist
<1>2. Opens(f) \subseteq 1 .. Len(f)
  BY <1>1 DEF OpensIs
<1>3. \A o \in Opens(f) : EndOf(f, o) \in o + 1 .. Len(f) + 1
  BY <1>2, EndIs
<1>4. \A o \in Opens(f) : f[o].kind = "fence" /\ \A i \in Opens(f) : i < o => Shut(f, i, o)
  BY <1>1, <1>2 DEF OpensIs
<1>5. ASSUME NEW o \in Opens(f), NEW i \in Opens(f), o < i PROVE EndOf(f, o) < i
  <2>1. o \in 1 .. Len(f) /\ i \in 1 .. Len(f) + 1
    BY <1>2
  <2>2. QED BY <1>4, <1>5, <2>1, ShutIs
<1>6. QED BY <1>2, <1>3, <1>4, <1>5

\* Only blank lines from i to j; a separator, behind blank lines only, alone
\* between i and j; no block opens between i and j.
Blanks(f, i, j) == \A k \in i .. j : f[k].kind = "blank"
Parted(f, i, j) ==
  \E s \in i + 1 .. j - 1 :
    /\ f[s].kind = "separator" /\ Blanks(f, i + 1, s - 1)
    /\ \A k \in i + 1 .. j - 1 : f[k].kind = "separator" => k = s
NoneOpens(f, i, j) == \A m \in Opens(f) : ~(i < m /\ m < j)

\* The rules of a prompt file in terms of the lines that open its blocks.
LEMMA WellFormedIs ==
  ASSUME NEW f \in Seq(FileLine)
  PROVE WellFormed(f) <=>
          /\ Opens(f) # {}
          /\ \A o \in Opens(f) : EndOf(f, o) <= Len(f) /\ f[o].ticks <= MaxFence
          /\ \A k \in 1 .. Len(f) :
               \/ f[k].kind = "blank"
               \/ \E o \in Opens(f) : o <= k /\ k <= EndOf(f, o)
               \/ (\E o \in Opens(f) : EndOf(f, o) < k) /\ \E o \in Opens(f) : o > k
          /\ \A a, b \in Opens(f) :
               EndOf(f, a) < b /\ NoneOpens(f, EndOf(f, a), b) => Parted(f, EndOf(f, a), b)
<1>1. /\ \A b \in Blocks(f) : b[1] \in Opens(f) /\ b[2] = EndOf(f, b[1])
      /\ \A o \in Opens(f) : \E b \in Blocks(f) : b[1] = o /\ b[2] = EndOf(f, o)
  <2>1. Blocks(f) = {<<o, EndOf(f, o)>> : o \in Opens(f)}
    BY DEF Blocks, EndOf
  <2>2. \A o \in Opens(f) : <<o, EndOf(f, o)>> \in Blocks(f)
    BY <2>1
  <2>3. ASSUME NEW b \in Blocks(f) PROVE b[1] \in Opens(f) /\ b[2] = EndOf(f, b[1])
    <3>1. PICK o \in Opens(f) : b = <<o, EndOf(f, o)>>
      BY <2>1
    <3>2. b[1] = o /\ b[2] = EndOf(f, o)
      BY <3>1
    <3>3. QED BY <3>2
  <2>4. ASSUME NEW o \in Opens(f) PROVE \E b \in Blocks(f) : b[1] = o /\ b[2] = EndOf(f, o)
    <3>1. <<o, EndOf(f, o)>>[1] = o /\ <<o, EndOf(f, o)>>[2] = EndOf(f, o)
      OBVIOUS
    <3>2. QED BY <2>2, <3>1
  <2>5. QED BY <2>3, <2>4
<1> HIDE DEF Blocks
<1>2. Blocks(f) # {} <=> Opens(f) # {}
  BY <1>1
<1>3. (\A b \in Blocks(f) : b[2] <= Len(f) /\ f[b[1]].ticks <= MaxFence)
        <=> \A o \in Opens(f) : EndOf(f, o) <= Len(f) /\ f[o].ticks <= MaxFence
  BY <1>1
<1>4. ASSUME NEW k
      PROVE /\ (\E b \in Blocks(f) : b[1] <= k /\ k <= b[2]) <=> \E o \in Opens(f) : o <= k /\ k <= EndOf(f, o)
            /\ (\E b \in Blocks(f) : b[2] < k) <=> \E o \in Opens(f) : EndOf(f, o) < k
            /\ (\E b \in Blocks(f) : b[1] > k) <=> \E o \in Opens(f) : o > k
  BY <1>1
<1>5. DOMAIN f = 1 .. Len(f)
  OBVIOUS
<1>6. ASSUME NEW i, NEW j
      PROVE (\E s \in Between(f, i, j, "separator") :
               /\ Between(f, i, j, "separator") = {s}
               /\ \A k \in i + 1 .. s - 1 : f[k].kind = "blank") <=> Parted(f, i, j)
  BY DEF Between, Parted, Blanks
<1>7. ASSUME NEW i, NEW j
      PROVE (~\E m \in Blocks(f) : i < m[1] /\ m[1] < j) <=> NoneOpens(f, i, j)
  BY <1>1 DEF NoneOpens
<1>8. (\A a, b \in Blocks(f) :
         a[2] < b[1] /\ (~\E m \in Blocks(f) : a[2] < m[1] /\ m[1] < b[1]) =>
           \E s \in Between(f, a[2], b[1], "separator") :
             /\ Between(f, a[2], b[1], "separator") = {s}
             /\ \A k \in a[2] + 1 .. s - 1 : f[k].kind = "blank")
      <=> \A a, b \in Opens(f) :
            EndOf(f, a) < b /\ NoneOpens(f, EndOf(f, a), b) => Parted(f, EndOf(f, a), b)
  <2>1. (\A a, b \in Blocks(f) :
           a[2] < b[1] /\ (~\E m \in Blocks(f) : a[2] < m[1] /\ m[1] < b[1]) =>
             \E s \in Between(f, a[2], b[1], "separator") :
               /\ Between(f, a[2], b[1], "separator") = {s}
               /\ \A k \in a[2] + 1 .. s - 1 : f[k].kind = "blank")
        <=> \A a, b \in Blocks(f) : a[2] < b[1] /\ NoneOpens(f, a[2], b[1]) => Parted(f, a[2], b[1])
    BY <1>6, <1>7
  <2>2. ASSUME \A a, b \in Blocks(f) : a[2] < b[1] /\ NoneOpens(f, a[2], b[1]) => Parted(f, a[2], b[1]),
               NEW o1 \in Opens(f), NEW o2 \in Opens(f)
        PROVE EndOf(f, o1) < o2 /\ NoneOpens(f, EndOf(f, o1), o2) => Parted(f, EndOf(f, o1), o2)
    <3>1. PICK a \in Blocks(f) : a[1] = o1 /\ a[2] = EndOf(f, o1)
      BY <1>1
    <3>2. PICK b \in Blocks(f) : b[1] = o2 /\ b[2] = EndOf(f, o2)
      BY <1>1
    <3>3. a[2] < b[1] /\ NoneOpens(f, a[2], b[1]) => Parted(f, a[2], b[1])
      BY <2>2
    <3>4. QED BY <3>1, <3>2, <3>3
  <2>3. ASSUME \A o1, o2 \in Opens(f) :
                 EndOf(f, o1) < o2 /\ NoneOpens(f, EndOf(f, o1), o2) => Parted(f, EndOf(f, o1), o2),
               NEW a \in Blocks(f), NEW b \in Blocks(f)
        PROVE a[2] < b[1] /\ NoneOpens(f, a[2], b[1]) => Parted(f, a[2], b[1])
    <3>1. a[1] \in Opens(f) /\ b[1] \in Opens(f) /\ a[2] = EndOf(f, a[1])
      BY <1>1
    <3>2. QED BY <2>3, <3>1
  <2>4. QED BY <2>1, <2>2, <2>3
<1>9. QED BY <1>2, <1>3, <1>4, <1>5, <1>8 DEF WellFormed

\* Why a file has been refused: a line that breaks a rule.
TooLong(f) == \E o \in Opens(f) : f[o].ticks > MaxFence
TextFirst(f) == \E k \in 1 .. Len(f) : f[k].kind # "blank" /\ \A o \in Opens(f) : o > k
Behind(f, o, k) ==
  /\ o \in Opens(f) /\ k \in EndOf(f, o) + 1 .. Len(f) /\ EndOf(f, o) <= Len(f) /\ NoneOpens(f, o, k)
NoSeparator(f, o, k) ==
  k \in Opens(f) /\ \A j \in EndOf(f, o) + 1 .. k - 1 : f[j].kind # "separator"
TextBehind(f, o, k) ==
  k \notin Opens(f) /\ f[k].kind \notin {"blank", "separator"} /\ Blanks(f, EndOf(f, o) + 1, k - 1)
TwoSeparators(f, o, k) ==
  /\ k \notin Opens(f) /\ f[k].kind = "separator"
  /\ \E s \in EndOf(f, o) + 1 .. k - 1 : f[s].kind = "separator"
Refused(f) ==
  \/ TooLong(f) \/ TextFirst(f)
  \/ \E o, k \in 1 .. Len(f) :
       Behind(f, o, k) /\ (NoSeparator(f, o, k) \/ TextBehind(f, o, k) \/ TwoSeparators(f, o, k))

\* Whatever follows, a file that breaks a rule breaks it.
LEMMA RefusedStays ==
  ASSUME NEW f \in Seq(FileLine), NEW line \in FileLine, Refused(f)
  PROVE Refused(Append(f, line))
<1> DEFINE n == Len(f)
           g == Append(f, line)
<1>0. n \in Nat
  OBVIOUS
<1>1. /\ Len(g) = n + 1 /\ \A i \in 1 .. n : g[i] = f[i]
      /\ \A o \in 1 .. n : EndOf(f, o) <= n => EndOf(g, o) = EndOf(f, o)
      /\ \A i \in 1 .. n : i \in Opens(g) <=> i \in Opens(f)
      /\ Opens(f) \subseteq 1 .. n /\ Opens(g) \subseteq 1 .. n + 1
  BY OneMore
<1> HIDE DEF g
<1> SUFFICES Refused(g)
  BY DEF g
<1>2. CASE TooLong(f)
  BY <1>1, <1>2 DEF Refused, TooLong
<1>3. CASE TextFirst(f)
  <2>1. PICK k \in 1 .. n : f[k].kind # "blank" /\ \A o \in Opens(f) : o > k
    BY <1>3 DEF TextFirst
  <2>2. k \in 1 .. n + 1 /\ g[k].kind # "blank" /\ \A o \in Opens(g) : o > k
    BY <1>0, <1>1, <2>1
  <2>3. QED BY <1>1, <2>2 DEF Refused, TextFirst
<1>4. ASSUME NEW o \in 1 .. n, NEW k \in 1 .. n, Behind(f, o, k),
             NoSeparator(f, o, k) \/ TextBehind(f, o, k) \/ TwoSeparators(f, o, k)
      PROVE Refused(g)
  <2> DEFINE e == EndOf(f, o)
  <2>1. /\ EndOf(g, o) = e /\ e \in 1 .. n + 1 /\ e <= n /\ k \in e + 1 .. n
        /\ o \in Opens(f) /\ NoneOpens(f, o, k)
    BY <1>1, <1>4, EndIs DEF Behind
  <2> HIDE DEF e
  <2>2. \A j \in e + 1 .. k : g[j] = f[j]
    BY <1>0, <1>1, <2>1
  <2>3. Behind(g, o, k)
    <3>1. NoneOpens(g, o, k)
      BY <1>0, <1>1, <2>1 DEF NoneOpens
    <3>2. QED BY <1>0, <1>1, <2>1, <3>1 DEF Behind
  <2>4. NoSeparator(f, o, k) => NoSeparator(g, o, k)
    BY <1>0, <1>1, <2>1, <2>2 DEF NoSeparator, e
  <2>5. TextBehind(f, o, k) => TextBehind(g, o, k)
    BY <1>0, <1>1, <2>1, <2>2 DEF TextBehind, e, Blanks
  <2>6. TwoSeparators(f, o, k) => TwoSeparators(g, o, k)
    BY <1>0, <1>1, <2>1, <2>2 DEF TwoSeparators, e
  <2>7. o \in 1 .. Len(g) /\ k \in 1 .. Len(g)
    BY <1>0, <1>1
  <2>8. QED BY <1>4, <2>3, <2>4, <2>5, <2>6, <2>7 DEF Refused
<1>5. QED BY <1>2, <1>3, <1>4 DEF Refused, g

\* A file that has been refused breaks a rule.
LEMMA RefusedIsWrong ==
  ASSUME NEW f \in Seq(FileLine), Refused(f) PROVE ~WellFormed(f)
<1> SUFFICES ASSUME WellFormed(f) PROVE FALSE
  OBVIOUS
<1>0. Len(f) \in Nat
  OBVIOUS
<1>1. /\ \A o \in Opens(f) : EndOf(f, o) <= Len(f) /\ f[o].ticks <= MaxFence
      /\ \A k \in 1 .. Len(f) :
           \/ f[k].kind = "blank"
           \/ \E o \in Opens(f) : o <= k /\ k <= EndOf(f, o)
           \/ (\E o \in Opens(f) : EndOf(f, o) < k) /\ \E o \in Opens(f) : o > k
      /\ \A a, b \in Opens(f) :
           EndOf(f, a) < b /\ NoneOpens(f, EndOf(f, a), b) => Parted(f, EndOf(f, a), b)
  BY WellFormedIs
<1>2. /\ Opens(f) \subseteq 1 .. Len(f)
      /\ \A o \in Opens(f) : f[o].kind = "fence" /\ EndOf(f, o) \in o + 1 .. Len(f) + 1
      /\ \A o, i \in Opens(f) : o < i => EndOf(f, o) < i
  BY BlocksFollow
<1>3. CASE TooLong(f)
  <2>1. PICK o \in Opens(f) : f[o].ticks > MaxFence
    BY <1>3 DEF TooLong
  <2>2. f[o].ticks \in Nat /\ MaxFence \in Nat
    <3>1. f[o] \in FileLine
      BY <1>2
    <3>2. QED BY <3>1, HeadlessBounds DEF FileLine
  <2>3. QED BY <1>1, <2>1, <2>2
<1>4. CASE TextFirst(f)
  <2>1. PICK k \in 1 .. Len(f) : f[k].kind # "blank" /\ \A o \in Opens(f) : o > k
    BY <1>4 DEF TextFirst
  <2>2. \A o \in Opens(f) : ~(o <= k) /\ ~(EndOf(f, o) < k)
    BY <1>0, <1>2, <2>1
  <2>3. QED BY <1>1, <2>1, <2>2
<1>5. ASSUME NEW o \in 1 .. Len(f), NEW k \in 1 .. Len(f), Behind(f, o, k) PROVE ~NoSeparator(f, o, k)
  <2> SUFFICES ASSUME NoSeparator(f, o, k) PROVE FALSE
    OBVIOUS
  <2> DEFINE e == EndOf(f, o)
  <2>1. /\ o \in Opens(f) /\ k \in Opens(f) /\ e \in o + 1 .. Len(f) + 1 /\ k \in e + 1 .. Len(f)
        /\ NoneOpens(f, o, k) /\ \A j \in e + 1 .. k - 1 : f[j].kind # "separator"
    BY <1>2, <1>5 DEF Behind, NoSeparator
  <2> HIDE DEF e
  <2>2. e < k /\ NoneOpens(f, e, k)
    BY <1>0, <1>2, <2>1 DEF NoneOpens
  <2>3. Parted(f, e, k)
    BY <1>1, <2>1, <2>2 DEF e
  <2>4. QED BY <2>1, <2>3 DEF Parted
<1>6. ASSUME NEW o \in 1 .. Len(f), NEW k \in 1 .. Len(f), Behind(f, o, k),
             TextBehind(f, o, k) \/ TwoSeparators(f, o, k)
      PROVE FALSE
  <2> DEFINE e == EndOf(f, o)
             T == {m \in Opens(f) : m > k}
  <2>1. /\ o \in Opens(f) /\ e \in o + 1 .. Len(f) + 1 /\ k \in e + 1 .. Len(f) /\ NoneOpens(f, o, k)
        /\ k \notin Opens(f) /\ f[k].kind # "blank"
    BY <1>2, <1>6 DEF Behind, TextBehind, TwoSeparators
  <2> HIDE DEF e
  <2>2. \A m \in Opens(f) : m <= o \/ m > k
    BY <1>0, <1>2, <2>1 DEF NoneOpens
  <2>3. \A m \in Opens(f) : m < o => EndOf(f, m) < o /\ EndOf(f, m) \in Int
    BY <1>2, <2>1
  <2>4. \A m \in Opens(f) : ~(m <= k /\ k <= EndOf(f, m))
    <3> SUFFICES ASSUME NEW m \in Opens(f), m <= k, k <= EndOf(f, m) PROVE FALSE
      OBVIOUS
    <3>1. m \in 1 .. Len(f) /\ m <= o
      BY <1>0, <1>2, <2>1, <2>2
    <3>2. CASE m = o
      BY <1>0, <2>1, <3>2 DEF e
    <3>3. CASE m < o
      BY <1>0, <2>1, <2>3, <3>1, <3>3
    <3>4. QED BY <1>0, <2>1, <3>1, <3>2, <3>3
  <2>5. T # {} /\ T \subseteq Nat
    BY <1>1, <1>2, <2>1, <2>4
  <2>6. PICK b \in T : \A m \in T : b <= m
    BY <2>5, LeastNatural
  <2>7. b \in Opens(f) /\ b \in 1 .. Len(f) /\ b > k /\ \A m \in Opens(f) : m > k => b <= m
    BY <1>2, <2>6
  <2>8. e < b /\ NoneOpens(f, e, b)
    <3>1. ASSUME NEW m \in Opens(f), e < m, m < b PROVE FALSE
      <4>1. m \in 1 .. Len(f)
        BY <1>2
      <4>2. m <= o
        BY <1>0, <2>2, <2>7, <3>1, <4>1
      <4>3. QED BY <1>0, <2>1, <3>1, <4>1, <4>2
    <3>2. e < b
      BY <1>0, <2>1, <2>7
    <3>3. QED BY <3>1, <3>2 DEF NoneOpens
  <2>9. Parted(f, e, b)
    BY <1>1, <2>1, <2>7, <2>8 DEF e
  <2>10. PICK s \in e + 1 .. b - 1 :
           /\ f[s].kind = "separator" /\ Blanks(f, e + 1, s - 1)
           /\ \A j \in e + 1 .. b - 1 : f[j].kind = "separator" => j = s
    BY <2>9 DEF Parted
  <2>11. k \in e + 1 .. b - 1
    BY <1>0, <2>1, <2>7
  <2>12. CASE TextBehind(f, o, k)
    <3>1. f[k].kind \notin {"blank", "separator"} /\ Blanks(f, e + 1, k - 1)
      BY <2>12 DEF TextBehind, e
    <3>2. s # k
      BY <2>10, <3>1
    <3>3. CASE s < k
      <4>1. s \in e + 1 .. k - 1
        BY <1>0, <2>1, <2>10, <3>3
      <4>2. QED BY <2>10, <3>1, <4>1 DEF Blanks
    <3>4. CASE s > k
      <4>1. k \in e + 1 .. s - 1
        BY <1>0, <2>1, <2>10, <3>4
      <4>2. QED BY <2>1, <2>10, <4>1 DEF Blanks
    <3>5. QED BY <1>0, <2>1, <2>10, <3>2, <3>3, <3>4
  <2>13. CASE TwoSeparators(f, o, k)
    <3>1. f[k].kind = "separator" /\ \E j \in e + 1 .. k - 1 : f[j].kind = "separator"
      BY <2>13 DEF TwoSeparators, e
    <3>2. PICK j \in e + 1 .. k - 1 : f[j].kind = "separator"
      BY <3>1
    <3>3. j \in e + 1 .. b - 1 /\ j # k
      BY <1>0, <2>1, <2>7, <3>2
    <3>4. QED BY <2>10, <2>11, <3>1, <3>2, <3>3
  <2>14. QED BY <1>6, <2>12, <2>13
<1>7. QED BY <1>3, <1>4, <1>5, <1>6 DEF Refused

\* What the rules demand of the blocks that were opened.
Chained(f) ==
  /\ \A o \in Opens(f) : f[o].ticks <= MaxFence
  /\ \A a, b \in Opens(f) : a < b /\ NoneOpens(f, a, b) => Parted(f, EndOf(f, a), b)
  /\ \A o \in Opens(f) : (\A m \in Opens(f) : o <= m) => Blanks(f, 1, o - 1)

IsLast(f, o) == o \in Opens(f) /\ \A m \in Opens(f) : m <= o

\* Where the parser is, in terms of the lines that were read.
Shape(q, f) ==
  /\ q = [k \in {"expects", "ticks", "body", "prompts"} |-> q[k]]
  /\ q.expects \in {"first", "body", "separator", "next", "failed", "cut", "end"}
  /\ q.expects \notin {"failed", "cut"} => Chained(f)
  /\ q.expects = "first" => Opens(f) = {} /\ Blanks(f, 1, Len(f))
  /\ q.expects \in {"separator", "end"} =>
       \E o : IsLast(f, o) /\ EndOf(f, o) <= Len(f) /\ Blanks(f, EndOf(f, o) + 1, Len(f))
  /\ q.expects = "next" =>
       \E o : IsLast(f, o) /\ EndOf(f, o) <= Len(f) /\ Parted(f, EndOf(f, o), Len(f) + 1)
  /\ q.expects = "body" =>
       \E o : /\ IsLast(f, o) /\ EndOf(f, o) = Len(f) + 1
              /\ q.ticks = f[o].ticks /\ q.body = SubSeq(f, o + 1, Len(f))
  /\ q.expects = "failed" => Refused(f)
  /\ q.expects = "cut" => ~WellFormed(f)

\* A line more leaves what was parted parted.
LEMMA PartedMore ==
  ASSUME NEW f \in Seq(FileLine), NEW line \in FileLine, NEW i \in Nat, NEW j \in 1 .. Len(f) + 1,
         Parted(f, i, j)
  PROVE Parted(Append(f, line), i, j)
<1> DEFINE n == Len(f)
           g == Append(f, line)
<1>1. n \in Nat /\ \A k \in 1 .. n : g[k] = f[k]
  OBVIOUS
<1> SUFFICES Parted(g, i, j)
  BY DEF g
<1> HIDE DEF g
<1>2. PICK s \in i + 1 .. j - 1 : /\ f[s].kind = "separator" /\ Blanks(f, i + 1, s - 1)
                                  /\ \A k \in i + 1 .. j - 1 : f[k].kind = "separator" => k = s
  BY DEF Parted
<1>3. \A k \in i + 1 .. j - 1 : g[k] = f[k]
  BY <1>1
<1>4. Blanks(g, i + 1, s - 1)
  BY <1>2, <1>3 DEF Blanks
<1>5. g[s].kind = "separator" /\ \A k \in i + 1 .. j - 1 : g[k].kind = "separator" => k = s
  BY <1>2, <1>3
<1>6. QED BY <1>4, <1>5 DEF Parted

\* A line more leaves the blocks chained, if the block it opens is.
LEMMA ChainedMore ==
  ASSUME NEW f \in Seq(FileLine), NEW line \in FileLine, Chained(f),
         Len(f) + 1 \in Opens(Append(f, line)) =>
           /\ line.ticks <= MaxFence
           /\ \A o : IsLast(f, o) => Parted(f, EndOf(f, o), Len(f) + 1)
           /\ Opens(f) = {} => Blanks(f, 1, Len(f))
  PROVE Chained(Append(f, line))
<1> DEFINE n == Len(f)
           g == Append(f, line)
<1>0. n \in Nat
  OBVIOUS
<1>1. /\ \A i \in 1 .. n : g[i] = f[i]
      /\ g[n + 1] = line
      /\ \A o \in 1 .. n : EndOf(f, o) <= n => EndOf(g, o) = EndOf(f, o)
      /\ \A i \in 1 .. n : i \in Opens(g) <=> i \in Opens(f)
      /\ n + 1 \in Opens(g) => \A o \in Opens(f) : EndOf(f, o) <= n
      /\ Opens(f) \subseteq 1 .. n /\ Opens(g) \subseteq 1 .. n + 1
  BY OneMore
<1>2. \A o, i \in Opens(f) : o < i => EndOf(f, o) < i
  BY BlocksFollow
<1>3. \A o \in Opens(f) : EndOf(f, o) \in o + 1 .. n + 1
  BY BlocksFollow
<1>4. /\ n + 1 \in Opens(g) =>
           /\ line.ticks <= MaxFence
           /\ \A o : IsLast(f, o) => Parted(f, EndOf(f, o), n + 1)
           /\ Opens(f) = {} => Blanks(f, 1, n)
  OBVIOUS
<1>5. \A i \in Nat, j \in 1 .. n + 1 : Parted(f, i, j) => Parted(g, i, j)
  BY PartedMore
<1> SUFFICES Chained(g)
  BY DEF g
<1> HIDE DEF g, n
<1>6. ASSUME NEW o \in Opens(g) PROVE g[o].ticks <= MaxFence
  BY <1>0, <1>1, <1>4 DEF Chained
<1>7. ASSUME NEW a \in Opens(g), NEW b \in Opens(g), a < b, NoneOpens(g, a, b)
      PROVE Parted(g, EndOf(g, a), b)
  <2>1. a \in 1 .. n /\ a \in Opens(f) /\ b \in 1 .. n + 1 /\ EndOf(f, a) \in Nat
    BY <1>0, <1>1, <1>3, <1>7
  <2>2. CASE b = n + 1
    <3>1. \A m \in Opens(f) : m <= a
      BY <1>0, <1>1, <1>7, <2>1, <2>2 DEF NoneOpens
    <3>2. IsLast(f, a)
      BY <2>1, <3>1 DEF IsLast
    <3>3. EndOf(g, a) = EndOf(f, a)
      BY <1>1, <1>7, <2>1, <2>2
    <3>4. Parted(f, EndOf(f, a), n + 1)
      BY <1>4, <1>7, <2>2, <3>2
    <3>5. QED BY <1>5, <2>1, <2>2, <3>3, <3>4
  <2>3. CASE b # n + 1
    <3>1. b \in 1 .. n /\ b \in Opens(f)
      BY <1>0, <1>1, <1>7, <2>1, <2>3
    <3>2. NoneOpens(f, a, b)
      BY <1>1, <1>7 DEF NoneOpens
    <3>3. Parted(f, EndOf(f, a), b)
      BY <1>7, <2>1, <3>1, <3>2 DEF Chained
    <3>4. EndOf(f, a) < b
      BY <1>2, <1>7, <2>1, <3>1
    <3>5. EndOf(g, a) = EndOf(f, a)
      BY <1>0, <1>1, <2>1, <3>1, <3>4
    <3>6. QED BY <1>5, <2>1, <3>3, <3>5
  <2>4. QED BY <2>2, <2>3
<1>8. ASSUME NEW o \in Opens(g), \A m \in Opens(g) : o <= m PROVE Blanks(g, 1, o - 1)
  <2>1. CASE o = n + 1
    <3>1. Opens(f) = {}
      BY <1>0, <1>1, <1>8, <2>1
    <3>2. QED BY <1>0, <1>1, <1>4, <1>8, <2>1, <3>1 DEF Blanks
  <2>2. CASE o # n + 1
    <3>1. o \in 1 .. n /\ o \in Opens(f) /\ \A m \in Opens(f) : o <= m
      BY <1>0, <1>1, <1>8, <2>2
    <3>2. Blanks(f, 1, o - 1)
      BY <3>1 DEF Chained
    <3>3. QED BY <1>0, <1>1, <3>1, <3>2 DEF Blanks
  <2>3. QED BY <2>1, <2>2
<1>9. QED BY <1>6, <1>7, <1>8 DEF Chained

\* At the end of a prompt the file may end; nowhere else.
LEMMA MayEnd ==
  ASSUME NEW f \in Seq(FileLine), NEW q, Shape(q, f)
  PROVE /\ q.expects \in {"separator", "end"} => WellFormed(f)
        /\ q.expects \in {"first", "body", "next"} => ~WellFormed(f)
<1> DEFINE n == Len(f)
<1>0. n \in Nat
  OBVIOUS
<1>1. /\ Opens(f) \subseteq 1 .. n
      /\ \A o \in Opens(f) : f[o].kind = "fence" /\ EndOf(f, o) \in o + 1 .. n + 1
      /\ \A o, i \in Opens(f) : o < i => EndOf(f, o) < i
  BY BlocksFollow
<1>2. ASSUME q.expects \in {"separator", "end"} PROVE WellFormed(f)
  <2>1. PICK l : IsLast(f, l) /\ EndOf(f, l) <= n /\ Blanks(f, EndOf(f, l) + 1, n)
    BY <1>2 DEF Shape
  <2>2. Chained(f)
    BY <1>2 DEF Shape
  <2> HIDE DEF n
  <2>3. l \in Opens(f) /\ l \in 1 .. n /\ \A m \in Opens(f) : m <= l
    BY <1>1, <2>1 DEF IsLast
  <2>4. \A o \in Opens(f) : EndOf(f, o) <= n /\ f[o].ticks <= MaxFence
    BY <1>0, <1>1, <2>1, <2>2, <2>3 DEF Chained
  <2>5. ASSUME NEW a \in Opens(f), NEW b \in Opens(f), EndOf(f, a) < b, NoneOpens(f, EndOf(f, a), b)
        PROVE Parted(f, EndOf(f, a), b)
    <3>1. a \in 1 .. n /\ b \in 1 .. n /\ a < b
      BY <1>0, <1>1, <2>5
    <3>2. ASSUME NEW m \in Opens(f), a < m, m < b PROVE FALSE
      <4>1. EndOf(f, a) < m
        BY <1>1, <3>2
      <4>2. QED BY <2>5, <3>2, <4>1 DEF NoneOpens
    <3>3. NoneOpens(f, a, b)
      BY <3>2 DEF NoneOpens
    <3>4. QED BY <2>2, <3>1, <3>3 DEF Chained
  <2>6. ASSUME NEW k \in 1 .. n, f[k].kind # "blank",
               \A o \in Opens(f) : ~(o <= k /\ k <= EndOf(f, o))
        PROVE (\E o \in Opens(f) : EndOf(f, o) < k) /\ \E o \in Opens(f) : o > k
    <3>1. ~(k >= EndOf(f, l) + 1)
      BY <1>0, <1>1, <2>1, <2>3, <2>6 DEF Blanks
    <3>2. l > k
      BY <1>0, <1>1, <2>3, <2>6, <3>1
    <3>3. PICK o \in Opens(f) : \A m \in Opens(f) : o <= m
      <4>1. Opens(f) \subseteq Nat /\ Opens(f) # {}
        BY <1>1, <2>3
      <4>2. QED BY <4>1, LeastNatural
    <3>4. Blanks(f, 1, o - 1)
      BY <2>2, <3>3 DEF Chained
    <3>5. ~(k <= o - 1)
      BY <1>1, <2>6, <3>4 DEF Blanks
    <3>6. EndOf(f, o) < k
      BY <1>0, <1>1, <2>6, <3>5
    <3>7. QED BY <2>3, <3>2, <3>6
  <2>7. QED
    BY <2>3, <2>4, <2>5, <2>6, WellFormedIs DEF n
<1>3. ASSUME q.expects = "first" PROVE ~WellFormed(f)
  BY <1>3, WellFormedIs DEF Shape
<1>4. ASSUME q.expects = "body" PROVE ~WellFormed(f)
  <2>1. PICK l : IsLast(f, l) /\ EndOf(f, l) = n + 1
    BY <1>4 DEF Shape
  <2>2. QED BY <1>0, <2>1, WellFormedIs DEF IsLast
<1>5. ASSUME q.expects = "next", WellFormed(f) PROVE FALSE
  <2>1. PICK l : IsLast(f, l) /\ EndOf(f, l) <= n /\ Parted(f, EndOf(f, l), n + 1)
    BY <1>5 DEF Shape
  <2>2. PICK s \in EndOf(f, l) + 1 .. n + 1 - 1 : f[s].kind = "separator"
    BY <2>1 DEF Parted
  <2>3. \A k \in 1 .. n : \/ f[k].kind = "blank"
                          \/ \E o \in Opens(f) : o <= k /\ k <= EndOf(f, o)
                          \/ \E o \in Opens(f) : o > k
    BY <1>5, WellFormedIs
  <2> HIDE DEF n
  <2>4. l \in Opens(f) /\ l \in 1 .. n /\ \A m \in Opens(f) : m <= l
    BY <1>1, <2>1 DEF IsLast
  <2>5. s \in 1 .. n /\ s > EndOf(f, l) /\ s > l /\ EndOf(f, l) \in Nat
    BY <1>0, <1>1, <2>2, <2>4
  <2>6. \A o \in Opens(f) : o \in 1 .. n /\ o <= l /\ EndOf(f, o) <= EndOf(f, l)
    BY <1>0, <1>1, <2>4
  <2>7. \A o \in Opens(f) : ~(o > s) /\ ~(s <= EndOf(f, o))
    BY <1>0, <1>1, <2>4, <2>5, <2>6
  <2>8. QED BY <2>2, <2>3, <2>5, <2>7
<1>6. QED BY <1>2, <1>3, <1>4, <1>5

\* The lines between two places, when they are the same, and when one is added.
LEMMA SameLines ==
  ASSUME NEW f \in Seq(FileLine), NEW g \in Seq(FileLine), NEW i \in 1 .. Len(f) + 1, NEW j \in Int,
         j <= Len(f), \A k \in i .. j : g[k] = f[k]
  PROVE SubSeq(g, i, j) = SubSeq(f, i, j)
<1>0. \A k \in i .. j : f[k] \in FileLine
  OBVIOUS
<1>1. /\ SubSeq(f, i, j) \in Seq(FileLine)
      /\ Len(SubSeq(f, i, j)) = (IF i <= j THEN j - i + 1 ELSE 0)
      /\ \A k \in 1 .. j - i + 1 : SubSeq(f, i, j)[k] = f[i + k - 1]
  BY <1>0, SubSeqProperties
<1>2. /\ SubSeq(g, i, j) \in Seq(FileLine)
      /\ Len(SubSeq(g, i, j)) = (IF i <= j THEN j - i + 1 ELSE 0)
      /\ \A k \in 1 .. j - i + 1 : SubSeq(g, i, j)[k] = g[i + k - 1]
  BY <1>0, SubSeqProperties
<1> DEFINE u == SubSeq(f, i, j)
           v == SubSeq(g, i, j)
<1>3. u \in Seq(FileLine) /\ v \in Seq(FileLine) /\ Len(u) = Len(v)
  BY <1>1, <1>2
<1>4. ASSUME NEW k \in 1 .. Len(u) PROVE u[k] = v[k]
  <2>1. k \in 1 .. j - i + 1 /\ i + k - 1 \in i .. j
    BY <1>1
  <2>2. QED BY <1>1, <1>2, <2>1
<1> HIDE DEF u, v
<1>5. u = v
  BY <1>3, <1>4, SeqEqual
<1>6. QED BY <1>5 DEF u, v

LEMMA LinesMore ==
  ASSUME NEW f \in Seq(FileLine), NEW line \in FileLine, NEW i \in 1 .. Len(f)
  PROVE SubSeq(Append(f, line), i + 1, Len(f) + 1) = Append(SubSeq(f, i + 1, Len(f)), line)
<1> DEFINE n == Len(f)
           g == Append(f, line)
           u == SubSeq(f, i + 1, n)
           v == SubSeq(g, i + 1, n + 1)
           w == Append(u, line)
<1>1. n \in Nat /\ g \in Seq(FileLine) /\ g[n + 1] = line /\ \A k \in 1 .. n : g[k] = f[k] /\ f[k] \in FileLine
  OBVIOUS
<1> HIDE DEF g, n
<1>2. u \in Seq(FileLine) /\ Len(u) = n - i /\ \A k \in 1 .. n - i : u[k] = f[i + k]
  <2>1. /\ u \in Seq(FileLine)
        /\ Len(u) = (IF i + 1 <= n THEN n - (i + 1) + 1 ELSE 0)
        /\ \A k \in 1 .. n - (i + 1) + 1 : u[k] = f[(i + 1) + k - 1]
    <3>1. \A k \in i + 1 .. n : f[k] \in FileLine
      BY <1>1
    <3>2. QED BY <1>1, <3>1, SubSeqProperties
  <2> HIDE DEF u
  <2>2. i \in Nat /\ i <= n
    BY DEF n
  <2>3. QED BY <1>1, <2>1, <2>2
<1>3. v \in Seq(FileLine) /\ Len(v) = n - i + 1 /\ \A k \in 1 .. n - i + 1 : v[k] = g[i + k]
  <2>1. /\ v \in Seq(FileLine)
        /\ Len(v) = (IF i + 1 <= n + 1 THEN (n + 1) - (i + 1) + 1 ELSE 0)
        /\ \A k \in 1 .. (n + 1) - (i + 1) + 1 : v[k] = g[(i + 1) + k - 1]
    <3>1. \A k \in i + 1 .. n + 1 : g[k] \in FileLine
      BY <1>1
    <3>2. i + 1 \in Int /\ n + 1 \in Int
      BY <1>1
    <3>3. QED BY <3>1, <3>2, SubSeqProperties
  <2> HIDE DEF v
  <2>2. i \in Nat /\ i <= n
    BY DEF n
  <2>3. QED BY <1>1, <2>1, <2>2
<1> HIDE DEF u, v
<1>4. w \in Seq(FileLine) /\ Len(w) = n - i + 1 /\ w[n - i + 1] = line /\ \A k \in 1 .. n - i : w[k] = u[k]
  BY <1>2
<1> HIDE DEF w
<1>5. i \in Nat /\ i <= n
  BY DEF n
<1>6. ASSUME NEW k \in 1 .. Len(v) PROVE v[k] = w[k]
  <2>1. k \in 1 .. n - i + 1
    BY <1>3
  <2>2. CASE k = n - i + 1
    BY <1>1, <1>3, <1>4, <1>5, <2>2
  <2>3. CASE k # n - i + 1
    <3>1. k \in 1 .. n - i /\ i + k \in 1 .. n
      BY <1>1, <1>5, <2>1, <2>3
    <3>2. QED BY <1>1, <1>2, <1>3, <1>4, <2>1, <3>1
  <2>4. QED BY <2>2, <2>3
<1>7. v = w
  BY <1>3, <1>4, <1>6, SeqEqual
<1>8. QED BY <1>7 DEF v, w, u, g, n

\* A line more keeps the parser where the lines are.
LEMMA ShapeStep ==
  ASSUME NEW f \in Seq(FileLine), NEW line \in FileLine, NEW q, Shape(q, f),
         q.expects \notin {"cut", "end"}
  PROVE Shape(ParseLine(q, line), Append(f, line))
<1> DEFINE n == Len(f)
           g == Append(f, line)
           v == ParseLine(q, line)
<1>0. n \in Nat /\ g \in Seq(FileLine) /\ MaxFence \in Nat
  BY HeadlessBounds
<1>1. /\ Len(g) = n + 1 /\ g[n + 1] = line /\ \A i \in 1 .. n : g[i] = f[i]
      /\ \A o \in 1 .. n :
           EndOf(g, o) = IF EndOf(f, o) <= n THEN EndOf(f, o)
                         ELSE IF Closes(line, f[o].ticks) THEN n + 1 ELSE n + 2
      /\ EndOf(g, n + 1) = n + 2
      /\ \A i \in 1 .. n : i \in Opens(g) <=> i \in Opens(f)
      /\ n + 1 \in Opens(g) <=> line.kind = "fence" /\ \A o \in Opens(f) : EndOf(f, o) <= n
      /\ Opens(f) \subseteq 1 .. n /\ Opens(g) \subseteq 1 .. n + 1
  BY OneMore
<1>2. /\ \A o \in Opens(f) : EndOf(f, o) \in o + 1 .. n + 1
      /\ \A o, i \in Opens(f) : o < i => EndOf(f, o) < i
  BY BlocksFollow
<1>3. /\ q = [k \in {"expects", "ticks", "body", "prompts"} |-> q[k]]
      /\ q.expects \in {"first", "body", "separator", "next", "failed"}
      /\ line.kind \in {"fence", "separator", "blank", "text", "/exit", "/halt"} /\ line.ticks \in Nat
  BY DEF Shape, FileLine
<1>4. \A i \in Nat, j \in 1 .. n + 1 : Parted(f, i, j) => Parted(g, i, j)
  BY PartedMore
<1>5. Chained(f) /\ n + 1 \notin Opens(g) => Chained(g)
  BY ChainedMore
<1>6. Refused(f) => Refused(g)
  BY RefusedStays
<1>7. \A o : IsLast(f, o) /\ EndOf(f, o) <= n => \A m \in Opens(f) : EndOf(f, m) <= n
  <2>1. SUFFICES ASSUME NEW o, IsLast(f, o), EndOf(f, o) <= n, NEW m \in Opens(f) PROVE EndOf(f, m) <= n
    OBVIOUS
  <2>2. QED BY <1>0, <1>1, <1>2, <2>1 DEF IsLast
<1>8. \A o : IsLast(f, o) /\ n + 1 \notin Opens(g) => IsLast(g, o)
  BY <1>0, <1>1 DEF IsLast
<1>9. \A i \in Nat, j \in 0 .. n : Blanks(f, i + 1, j) => Blanks(g, i + 1, j)
  BY <1>0, <1>1 DEF Blanks
<1> SUFFICES Shape(v, g)
  BY DEF v, g
<1>10. ASSUME v = [k \in {"expects", "ticks", "body", "prompts"} |-> v[k]], v.expects = "failed", Refused(g)
       PROVE Shape(v, g)
  BY <1>10 DEF Shape
<1>11. CASE q.expects = "body"
  <2>1. PICK o : /\ IsLast(f, o) /\ EndOf(f, o) = n + 1
                 /\ q.ticks = f[o].ticks /\ q.body = SubSeq(f, o + 1, n)
    BY <1>11 DEF Shape
  <2>2. o \in 1 .. n /\ n + 1 \notin Opens(g)
    BY <1>0, <1>1, <2>1 DEF IsLast
  <2>3. Chained(g) /\ IsLast(g, o) /\ g[o] = f[o]
    BY <1>1, <1>5, <1>8, <1>11, <2>1, <2>2 DEF Shape
  <2>4. CASE Closes(line, q.ticks)
    <3>1. v = [q EXCEPT !.expects = "separator", !.prompts = Append(@, PromptOf(q.body))]
      BY <1>11, <2>4 DEF ParseLine, v
    <3>2. EndOf(g, o) = n + 1
      BY <1>0, <1>1, <2>1, <2>2, <2>4
    <3> HIDE DEF v, g, n
    <3>3. Blanks(g, EndOf(g, o) + 1, Len(g)) /\ EndOf(g, o) <= Len(g)
      BY <1>0, <1>1, <3>2 DEF Blanks
    <3>4. v = [k \in {"expects", "ticks", "body", "prompts"} |-> v[k]] /\ v.expects = "separator"
      BY <1>3, <3>1
    <3>5. QED BY <2>3, <3>3, <3>4 DEF Shape
  <2>5. CASE ~Closes(line, q.ticks)
    <3>1. v = [q EXCEPT !.body = Append(@, line)]
      BY <1>11, <2>5 DEF ParseLine, v
    <3>2. EndOf(g, o) = n + 2
      BY <1>0, <1>1, <2>1, <2>2, <2>5
    <3>3. SubSeq(g, o + 1, n + 1) = Append(SubSeq(f, o + 1, n), line)
      BY <2>2, LinesMore
    <3> HIDE DEF v, g, n
    <3>4. v = [k \in {"expects", "ticks", "body", "prompts"} |-> v[k]]
          /\ v.expects = "body" /\ v.ticks = g[o].ticks /\ v.body = SubSeq(g, o + 1, n + 1)
      BY <1>3, <1>11, <2>1, <2>3, <3>1, <3>3
    <3>5. EndOf(g, o) = Len(g) + 1
      BY <1>0, <1>1, <3>2
    <3>6. QED BY <1>1, <2>3, <3>4, <3>5 DEF Shape
  <2>6. QED BY <2>4, <2>5
<1>12. CASE q.expects = "failed"
  <2>1. v = [q EXCEPT !.expects = "failed"]
    BY <1>12 DEF ParseLine, v
  <2>2. Refused(g)
    BY <1>6, <1>12 DEF Shape
  <2>3. v = [k \in {"expects", "ticks", "body", "prompts"} |-> v[k]] /\ v.expects = "failed"
    BY <1>3, <2>1
  <2>4. QED BY <1>10, <2>2, <2>3
<1>13. CASE q.expects \in {"first", "next"} /\ line.kind = "fence"
  <2>1. v = Opened(q, line)
    BY <1>13 DEF ParseLine, v
  <2>2. n + 1 \in Opens(g)
    <3>1. \A o \in Opens(f) : EndOf(f, o) <= n
      BY <1>7, <1>13 DEF Shape
    <3>2. QED BY <1>1, <1>13, <3>1
  <2>3. CASE line.ticks > MaxFence
    <3>1. v = [q EXCEPT !.expects = "failed"]
      BY <2>1, <2>3 DEF Opened
    <3>2. Refused(g)
      BY <1>1, <2>2, <2>3 DEF Refused, TooLong
    <3>3. v = [k \in {"expects", "ticks", "body", "prompts"} |-> v[k]] /\ v.expects = "failed"
      BY <1>3, <3>1
    <3>4. QED BY <1>10, <3>2, <3>3
  <2>4. CASE ~(line.ticks > MaxFence)
    <3>1. v = [q EXCEPT !.expects = "body", !.ticks = line.ticks, !.body = <<>>]
      BY <2>1, <2>4 DEF Opened
    <3>2. Chained(g)
      <4>1. Chained(f)
        BY <1>13 DEF Shape
      <4>2. line.ticks <= MaxFence
        BY <1>0, <1>3, <2>4
      <4>3. \A o : IsLast(f, o) => Parted(f, EndOf(f, o), n + 1)
        <5>1. SUFFICES ASSUME NEW o, IsLast(f, o) PROVE Parted(f, EndOf(f, o), n + 1)
          OBVIOUS
        <5>2. q.expects = "next"
          BY <1>13, <5>1 DEF Shape, IsLast
        <5>3. PICK l : IsLast(f, l) /\ Parted(f, EndOf(f, l), n + 1)
          BY <5>2 DEF Shape
        <5>4. l = o
          BY <1>0, <1>1, <5>1, <5>3 DEF IsLast
        <5>5. QED BY <5>3, <5>4
      <4>4. Opens(f) = {} => Blanks(f, 1, n)
        BY <1>13 DEF Shape, IsLast
      <4>5. QED BY <4>1, <4>2, <4>3, <4>4, ChainedMore
    <3>3. IsLast(g, n + 1)
      BY <1>0, <1>1, <2>2 DEF IsLast
    <3>4. SubSeq(g, n + 1 + 1, n + 1) = <<>>
      <4>1. n + 1 + 1 \in Int /\ n + 1 \in Int /\ n + 1 < n + 1 + 1
        BY <1>0
      <4> HIDE DEF g, n
      <4>2. QED BY <4>1, SubSeqEmpty
    <3> HIDE DEF v, g
    <3>5. v = [k \in {"expects", "ticks", "body", "prompts"} |-> v[k]]
          /\ v.expects = "body" /\ v.ticks = g[n + 1].ticks /\ v.body = SubSeq(g, n + 1 + 1, n + 1)
      BY <1>1, <1>3, <3>1, <3>4
    <3>6. EndOf(g, n + 1) = Len(g) + 1
      BY <1>0, <1>1
    <3>7. QED BY <1>1, <3>2, <3>3, <3>5, <3>6 DEF Shape
  <2>5. QED BY <2>3, <2>4
<1>14. CASE q.expects = "first" /\ line.kind # "fence"
  <2>1. Opens(f) = {} /\ Blanks(f, 1, n) /\ n + 1 \notin Opens(g)
    BY <1>1, <1>14 DEF Shape
  <2>2. Opens(g) = {}
    BY <1>0, <1>1, <2>1
  <2>3. CASE line.kind = "blank"
    <3>1. v = q
      BY <1>14, <2>3 DEF ParseLine, v
    <3> HIDE DEF v, g
    <3>2. Blanks(g, 1, Len(g))
      BY <1>0, <1>1, <2>1, <2>3 DEF Blanks
    <3>3. Chained(g)
      BY <2>2 DEF Chained
    <3>4. QED BY <1>3, <1>14, <2>2, <3>1, <3>2, <3>3 DEF Shape
  <2>4. CASE line.kind # "blank"
    <3>1. v = [q EXCEPT !.expects = "failed"]
      BY <1>14, <2>4 DEF ParseLine, v
    <3>2. n + 1 \in 1 .. Len(g) /\ g[n + 1].kind # "blank"
      BY <1>0, <1>1, <2>4
    <3> HIDE DEF v, g
    <3>3. Refused(g)
      BY <2>2, <3>2 DEF Refused, TextFirst
    <3>4. v = [k \in {"expects", "ticks", "body", "prompts"} |-> v[k]] /\ v.expects = "failed"
      BY <1>3, <3>1
    <3>5. QED BY <1>10, <3>3, <3>4
  <2>5. QED BY <2>3, <2>4
<1>15. CASE q.expects = "separator"
  <2>1. PICK o : IsLast(f, o) /\ EndOf(f, o) <= n /\ Blanks(f, EndOf(f, o) + 1, n)
    BY <1>15 DEF Shape
  <2> DEFINE e == EndOf(f, o)
  <2>2. o \in Opens(f) /\ o \in 1 .. n /\ e \in Nat /\ e <= n /\ e > o /\ EndOf(g, o) = e /\ o \in Opens(g)
        /\ \A m \in Opens(f) : m <= o
    BY <1>0, <1>1, <1>2, <2>1 DEF IsLast
  <2> HIDE DEF e
  <2>3. Blanks(g, e + 1, n)
    BY <1>0, <1>9, <2>1, <2>2 DEF e
  <2>4. \A m \in Opens(g) : m <= o \/ m = n + 1
    BY <1>0, <1>1, <2>2
  <2>5. Chained(f)
    BY <1>15 DEF Shape
  <2>6. n + 1 \in Opens(g) <=> line.kind = "fence"
    BY <1>1, <1>7, <2>1
  <2> HIDE DEF g
  <2>7. n + 1 \in e + 1 .. Len(g) /\ o \in 1 .. Len(g) /\ n + 1 \in 1 .. Len(g) /\ n + 1 - 1 = n
    BY <1>0, <1>1, <2>2
  <2>8. NoneOpens(g, o, n + 1)
    BY <1>0, <1>1, <2>2, <2>4 DEF NoneOpens
  <2>9. Behind(g, o, n + 1)
    BY <1>0, <1>1, <2>2, <2>7, <2>8 DEF Behind
  <2>10. CASE line.kind = "fence"
    <3>1. v = [q EXCEPT !.expects = "failed"]
      BY <1>15, <2>10 DEF ParseLine, v
    <3> HIDE DEF v
    <3>2. NoSeparator(g, o, n + 1)
      BY <2>2, <2>3, <2>6, <2>7, <2>10 DEF NoSeparator, Blanks
    <3>3. Refused(g)
      BY <2>7, <2>9, <3>2 DEF Refused
    <3>4. v = [k \in {"expects", "ticks", "body", "prompts"} |-> v[k]] /\ v.expects = "failed"
      BY <1>3, <3>1
    <3>5. QED BY <1>10, <3>3, <3>4
  <2>11. CASE line.kind \notin {"fence", "separator", "blank"}
    <3>1. v = [q EXCEPT !.expects = "failed"]
      BY <1>15, <2>11 DEF ParseLine, v
    <3> HIDE DEF v
    <3>2. TextBehind(g, o, n + 1)
      BY <1>1, <2>2, <2>3, <2>6, <2>7, <2>11 DEF TextBehind
    <3>3. Refused(g)
      BY <2>7, <2>9, <3>2 DEF Refused
    <3>4. v = [k \in {"expects", "ticks", "body", "prompts"} |-> v[k]] /\ v.expects = "failed"
      BY <1>3, <3>1
    <3>5. QED BY <1>10, <3>3, <3>4
  <2>12. CASE line.kind = "blank"
    <3>1. v = q
      BY <1>15, <2>12 DEF ParseLine, v
    <3> HIDE DEF v
    <3>2. Chained(g) /\ IsLast(g, o)
      BY <1>5, <1>8, <2>1, <2>5, <2>6, <2>12
    <3>3. Blanks(g, e + 1, n + 1)
      <4>1. ASSUME NEW k \in e + 1 .. n + 1 PROVE g[k].kind = "blank"
        <5>1. k = n + 1 \/ k \in e + 1 .. n
          BY <1>0, <2>2
        <5>2. QED BY <1>1, <2>3, <2>12, <5>1 DEF Blanks
      <4>2. QED BY <4>1 DEF Blanks
    <3>4. EndOf(g, o) <= Len(g)
      BY <1>0, <1>1, <2>2
    <3>5. QED BY <1>1, <1>3, <1>15, <2>2, <3>1, <3>2, <3>3, <3>4 DEF Shape
  <2>13. CASE line.kind = "separator"
    <3>1. v = [q EXCEPT !.expects = "next"]
      BY <1>15, <2>13 DEF ParseLine, v
    <3> HIDE DEF v
    <3>2. Chained(g) /\ IsLast(g, o)
      BY <1>5, <1>8, <2>1, <2>5, <2>6, <2>13
    <3>3. Parted(g, e, n + 2)
      <4>1. n + 1 \in e + 1 .. n + 2 - 1 /\ g[n + 1].kind = "separator"
        BY <1>0, <1>1, <2>2, <2>13
      <4>2. \A k \in e + 1 .. n + 2 - 1 : g[k].kind = "separator" => k = n + 1
        BY <1>0, <2>2, <2>3 DEF Blanks
      <4>3. Blanks(g, e + 1, n + 1 - 1)
        BY <2>3, <2>7
      <4>4. QED BY <4>1, <4>2, <4>3 DEF Parted
    <3>4. EndOf(g, o) <= Len(g) /\ Len(g) + 1 = n + 2
      BY <1>0, <1>1, <2>2
    <3>5. v = [k \in {"expects", "ticks", "body", "prompts"} |-> v[k]] /\ v.expects = "next"
      BY <1>3, <3>1
    <3>6. QED BY <2>2, <3>2, <3>3, <3>4, <3>5 DEF Shape
  <2>14. QED BY <1>3, <2>10, <2>11, <2>12, <2>13
<1>16. CASE q.expects = "next" /\ line.kind # "fence"
  <2>1. PICK o : IsLast(f, o) /\ EndOf(f, o) <= n /\ Parted(f, EndOf(f, o), n + 1)
    BY <1>16 DEF Shape
  <2> DEFINE e == EndOf(f, o)
  <2>2. o \in Opens(f) /\ o \in 1 .. n /\ e \in Nat /\ e <= n /\ e > o /\ EndOf(g, o) = e /\ o \in Opens(g)
        /\ \A m \in Opens(f) : m <= o
    BY <1>0, <1>1, <1>2, <2>1 DEF IsLast
  <2> HIDE DEF e
  <2>3. n + 1 \notin Opens(g)
    BY <1>1, <1>16
  <2>4. Chained(g) /\ IsLast(g, o)
    BY <1>5, <1>8, <1>16, <2>1, <2>3 DEF Shape
  <2>5. PICK s \in e + 1 .. n + 1 - 1 :
          /\ g[s].kind = "separator" /\ Blanks(g, e + 1, s - 1)
          /\ \A k \in e + 1 .. n + 1 - 1 : g[k].kind = "separator" => k = s
    <3>1. n + 1 \in 1 .. n + 1
      BY <1>0
    <3>2. Parted(g, e, n + 1)
      BY <1>4, <2>1, <2>2, <3>1 DEF e
    <3> DEFINE j == n + 1
    <3> HIDE DEF g, j
    <3>3. Parted(g, e, j)
      BY <3>2 DEF j
    <3>4. \E s \in e + 1 .. j - 1 :
            /\ g[s].kind = "separator" /\ Blanks(g, e + 1, s - 1)
            /\ \A k \in e + 1 .. j - 1 : g[k].kind = "separator" => k = s
      BY <3>3 DEF Parted
    <3>5. QED BY <3>4 DEF j
  <2> HIDE DEF g
  <2>6. CASE line.kind = "separator"
    <3>1. v = [q EXCEPT !.expects = "failed"]
      BY <1>16, <2>6 DEF ParseLine, v
    <3> HIDE DEF v
    <3>2. n + 1 \in e + 1 .. Len(g) /\ o \in 1 .. Len(g) /\ n + 1 \in 1 .. Len(g)
      BY <1>0, <1>1, <2>2
    <3>3. NoneOpens(g, o, n + 1)
      BY <1>0, <1>1, <2>2, <2>3 DEF NoneOpens
    <3>4. Behind(g, o, n + 1)
      BY <1>0, <1>1, <2>2, <3>2, <3>3 DEF Behind
    <3>5. TwoSeparators(g, o, n + 1)
      BY <1>0, <1>1, <2>2, <2>3, <2>5, <2>6 DEF TwoSeparators
    <3>6. Refused(g)
      BY <3>2, <3>4, <3>5 DEF Refused
    <3>7. v = [k \in {"expects", "ticks", "body", "prompts"} |-> v[k]] /\ v.expects = "failed"
      BY <1>3, <3>1
    <3>8. QED BY <1>10, <3>6, <3>7
  <2>7. CASE line.kind # "separator"
    <3>1. v = q
      BY <1>3, <1>16, <2>7 DEF ParseLine, v
    <3> HIDE DEF v
    <3>2. Parted(g, e, n + 2)
      <4>1. s \in e + 1 .. n + 2 - 1
        BY <1>0, <2>2, <2>5
      <4>2. ASSUME NEW k \in e + 1 .. n + 2 - 1, g[k].kind = "separator" PROVE k = s
        <5>1. k # n + 1
          BY <1>1, <2>7, <4>2
        <5>2. k \in e + 1 .. n + 1 - 1
          BY <1>0, <2>2, <5>1
        <5>3. QED BY <2>5, <4>2, <5>2
      <4>3. QED BY <2>5, <4>1, <4>2 DEF Parted
    <3>3. EndOf(g, o) <= Len(g) /\ Len(g) + 1 = n + 2
      BY <1>0, <1>1, <2>2
    <3>4. QED BY <1>3, <1>16, <2>2, <2>4, <3>1, <3>2, <3>3 DEF Shape
  <2>8. QED BY <2>6, <2>7
<1>17. QED BY <1>3, <1>11, <1>12, <1>13, <1>14, <1>15, <1>16

Prompts == {"task", "/exit", "/halt"}

\* The prompts of a file are those of its closed blocks, in their order.
PromptsOf(S, f, prompts) ==
  /\ S \in Seq(Nat) /\ Len(S) = Len(prompts)
  /\ \A i \in 1 .. Len(S) : /\ S[i] \in Opens(f) /\ EndOf(f, S[i]) <= Len(f)
                            /\ prompts[i] = PromptIn(f, <<S[i], EndOf(f, S[i])>>)
  /\ \A i, j \in 1 .. Len(S) : i < j => S[i] < S[j]
  /\ \A o \in Opens(f) : EndOf(f, o) <= Len(f) => \E i \in 1 .. Len(S) : S[i] = o
PromptsAre(q, f) ==
  /\ q.prompts \in Seq(Prompts)
  /\ q.expects \notin {"failed", "cut"} => \E S : PromptsOf(S, f, q.prompts)

LEMMA PromptIsOne == ASSUME NEW body PROVE PromptOf(body) \in Prompts
BY DEF PromptOf, Prompts

\* A line that closes no block leaves the prompts as they are.
LEMMA PromptsStay ==
  ASSUME NEW f \in Seq(FileLine), NEW line \in FileLine, NEW prompts, NEW S, PromptsOf(S, f, prompts),
         \A o \in Opens(f) : EndOf(f, o) = Len(f) + 1 => ~Closes(line, f[o].ticks)
  PROVE PromptsOf(S, Append(f, line), prompts)
<1> DEFINE n == Len(f)
           g == Append(f, line)
<1>0. n \in Nat /\ g \in Seq(FileLine)
  OBVIOUS
<1>1. /\ Len(g) = n + 1 /\ \A i \in 1 .. n : g[i] = f[i]
      /\ \A o \in 1 .. n :
           EndOf(g, o) = IF EndOf(f, o) <= n THEN EndOf(f, o)
                         ELSE IF Closes(line, f[o].ticks) THEN n + 1 ELSE n + 2
      /\ EndOf(g, n + 1) = n + 2
      /\ \A i \in 1 .. n : i \in Opens(g) <=> i \in Opens(f)
      /\ Opens(f) \subseteq 1 .. n /\ Opens(g) \subseteq 1 .. n + 1
  BY OneMore
<1>2. \A o \in Opens(f) : EndOf(f, o) \in o + 1 .. n + 1
  BY BlocksFollow
<1>3. \A o \in Opens(f) : EndOf(f, o) = n + 1 => ~Closes(line, f[o].ticks)
  OBVIOUS
<1>4. /\ S \in Seq(Nat) /\ Len(S) = Len(prompts)
      /\ \A i \in 1 .. Len(S) : /\ S[i] \in Opens(f) /\ EndOf(f, S[i]) <= n
                                /\ prompts[i] = PromptIn(f, <<S[i], EndOf(f, S[i])>>)
      /\ \A i, j \in 1 .. Len(S) : i < j => S[i] < S[j]
      /\ \A o \in Opens(f) : EndOf(f, o) <= n => \E i \in 1 .. Len(S) : S[i] = o
  BY DEF PromptsOf
<1> SUFFICES PromptsOf(S, g, prompts)
  BY DEF g
<1>5. ASSUME NEW i \in 1 .. Len(S)
      PROVE /\ S[i] \in Opens(g) /\ EndOf(g, S[i]) <= Len(g)
            /\ prompts[i] = PromptIn(g, <<S[i], EndOf(g, S[i])>>)
  <2> DEFINE o == S[i]
             e == EndOf(f, o)
  <2>1. o \in Opens(f) /\ o \in 1 .. n /\ e \in o + 1 .. n + 1 /\ e <= n /\ prompts[i] = PromptIn(f, <<o, e>>)
    BY <1>1, <1>2, <1>4
  <2>2. EndOf(g, o) = e /\ o \in Opens(g)
    BY <1>1, <2>1
  <2> HIDE DEF o, e
  <2>3. SubSeq(g, o + 1, e - 1) = SubSeq(f, o + 1, e - 1)
    <3>1. o + 1 \in 1 .. Len(f) + 1 /\ e - 1 \in Int /\ e - 1 <= Len(f)
      BY <2>1 DEF n
    <3>2. \A k \in o + 1 .. e - 1 : g[k] = f[k]
      BY <1>0, <1>1, <2>1
    <3> HIDE DEF g, n
    <3>3. QED BY <1>0, <3>1, <3>2, SameLines
  <2>4. <<o, e>>[1] = o /\ <<o, e>>[2] = e
    OBVIOUS
  <2>5. PromptIn(g, <<o, e>>) = PromptIn(f, <<o, e>>)
    BY <2>3, <2>4 DEF PromptIn
  <2> HIDE DEF g
  <2>6. e <= Len(g)
    BY <1>0, <1>1, <2>1
  <2>7. QED BY <2>1, <2>2, <2>5, <2>6 DEF o
<1>6. ASSUME NEW o \in Opens(g), EndOf(g, o) <= Len(g) PROVE \E i \in 1 .. Len(S) : S[i] = o
  <2> HIDE DEF g, n
  <2>1. o # n + 1 /\ o \in 1 .. n
    BY <1>0, <1>1, <1>6
  <2>2. o \in Opens(f) /\ EndOf(f, o) <= n
    BY <1>0, <1>1, <1>2, <1>3, <1>6, <2>1
  <2>3. QED BY <1>4, <2>2
<1> HIDE DEF g
<1>7. QED BY <1>4, <1>5, <1>6 DEF PromptsOf

\* A line more keeps the parser's prompts those of the lines.
LEMMA PromptsStep ==
  ASSUME NEW f \in Seq(FileLine), NEW line \in FileLine, NEW q, Shape(q, f), PromptsAre(q, f),
         q.expects \notin {"cut", "end"}
  PROVE PromptsAre(ParseLine(q, line), Append(f, line))
<1> DEFINE n == Len(f)
           g == Append(f, line)
           v == ParseLine(q, line)
<1>0. n \in Nat /\ g \in Seq(FileLine)
  OBVIOUS
<1>1. /\ Len(g) = n + 1 /\ \A i \in 1 .. n : g[i] = f[i]
      /\ \A o \in 1 .. n :
           EndOf(g, o) = IF EndOf(f, o) <= n THEN EndOf(f, o)
                         ELSE IF Closes(line, f[o].ticks) THEN n + 1 ELSE n + 2
      /\ EndOf(g, n + 1) = n + 2
      /\ \A i \in 1 .. n : i \in Opens(g) <=> i \in Opens(f)
      /\ n + 1 \in Opens(g) => \A o \in Opens(f) : EndOf(f, o) <= n
      /\ Opens(f) \subseteq 1 .. n /\ Opens(g) \subseteq 1 .. n + 1
  BY OneMore
<1>2. /\ \A o \in Opens(f) : EndOf(f, o) \in o + 1 .. n + 1
      /\ \A o, i \in Opens(f) : o < i => EndOf(f, o) < i
  BY BlocksFollow
<1>3. /\ q = [k \in {"expects", "ticks", "body", "prompts"} |-> q[k]]
      /\ q.expects \in {"first", "body", "separator", "next", "failed"}
      /\ line.kind \in {"fence", "separator", "blank", "text", "/exit", "/halt"}
      /\ q.prompts \in Seq(Prompts)
  BY DEF Shape, FileLine, PromptsAre
<1>4. CASE q.expects = "body" /\ Closes(line, q.ticks)
  <2>1. PICK o : /\ IsLast(f, o) /\ EndOf(f, o) = n + 1
                 /\ q.ticks = f[o].ticks /\ q.body = SubSeq(f, o + 1, n)
    BY <1>4 DEF Shape
  <2>2. v = [q EXCEPT !.expects = "separator", !.prompts = Append(@, PromptOf(q.body))]
    BY <1>4 DEF ParseLine, v
  <2>3. PICK S : PromptsOf(S, f, q.prompts)
    BY <1>4 DEF PromptsAre
  <2>4. /\ S \in Seq(Nat) /\ Len(S) = Len(q.prompts)
        /\ \A i \in 1 .. Len(S) : /\ S[i] \in Opens(f) /\ EndOf(f, S[i]) <= n
                                  /\ q.prompts[i] = PromptIn(f, <<S[i], EndOf(f, S[i])>>)
        /\ \A i, j \in 1 .. Len(S) : i < j => S[i] < S[j]
        /\ \A m \in Opens(f) : EndOf(f, m) <= n => \E i \in 1 .. Len(S) : S[i] = m
    BY <2>3 DEF PromptsOf
  <2> DEFINE T == Append(S, o)
             p == Append(q.prompts, PromptOf(q.body))
             L == Len(S)
  <2> SUFFICES PromptsAre(v, g)
    BY DEF v, g
  <2>5. v.prompts = p /\ v.expects = "separator"
    BY <1>3, <2>2
  <2>6. PromptOf(q.body) \in Prompts
    BY PromptIsOne
  <2>7. p \in Seq(Prompts) /\ Len(p) = L + 1 /\ p[L + 1] = PromptOf(q.body) /\ \A i \in 1 .. L : p[i] = q.prompts[i]
    BY <1>3, <2>4, <2>6
  <2>8. o \in Opens(f) /\ o \in 1 .. n /\ o \in Nat /\ \A m \in Opens(f) : m <= o
    BY <1>1, <2>1 DEF IsLast
  <2>9. T \in Seq(Nat) /\ Len(T) = L + 1 /\ T[L + 1] = o /\ L \in Nat /\ \A i \in 1 .. L : T[i] = S[i]
    BY <2>4, <2>8
  <2>10. EndOf(g, o) = n + 1 /\ o \in Opens(g)
    BY <1>0, <1>1, <1>4, <2>1, <2>8
  <2>11. ASSUME NEW i \in 1 .. L, NEW k \in Int, k = S[i]
         PROVE /\ k \in Opens(g) /\ EndOf(g, k) = EndOf(f, k) /\ EndOf(g, k) <= n /\ k < o
               /\ q.prompts[i] = PromptIn(g, <<k, EndOf(g, k)>>)
    <3> DEFINE e == EndOf(f, k)
    <3>1. k \in Opens(f) /\ k \in 1 .. n /\ e \in k + 1 .. n + 1 /\ e <= n /\ q.prompts[i] = PromptIn(f, <<k, e>>)
      BY <1>1, <1>2, <2>4, <2>11
    <3>2. EndOf(g, k) = e /\ k \in Opens(g)
      BY <1>1, <3>1
    <3>3. k < o
      BY <1>0, <2>1, <2>8, <3>1
    <3> HIDE DEF e
    <3>4. SubSeq(g, k + 1, e - 1) = SubSeq(f, k + 1, e - 1)
      <4>1. k + 1 \in 1 .. Len(f) + 1 /\ e - 1 \in Int /\ e - 1 <= Len(f)
        BY <3>1 DEF n
      <4>2. \A j \in k + 1 .. e - 1 : g[j] = f[j]
        BY <1>0, <1>1, <3>1
      <4> HIDE DEF g, n
      <4>3. QED BY <1>0, <4>1, <4>2, SameLines
    <3>5. <<k, e>>[1] = k /\ <<k, e>>[2] = e
      OBVIOUS
    <3>6. PromptIn(g, <<k, e>>) = PromptIn(f, <<k, e>>)
      BY <3>4, <3>5 DEF PromptIn
    <3>7. QED BY <3>1, <3>2, <3>3, <3>6 DEF e
  <2>12. PromptOf(q.body) = PromptIn(g, <<o, n + 1>>)
    <3>1. SubSeq(g, o + 1, n) = SubSeq(f, o + 1, n)
      <4>1. o + 1 \in 1 .. Len(f) + 1 /\ n \in Int /\ n <= Len(f)
        BY <1>0, <2>8
      <4>2. \A j \in o + 1 .. n : g[j] = f[j]
        BY <1>0, <1>1, <2>8
      <4> HIDE DEF g, n
      <4>3. QED BY <1>0, <4>1, <4>2, SameLines
    <3> DEFINE e == n + 1
    <3>2. <<o, e>>[1] = o /\ <<o, e>>[2] = e /\ e - 1 = n
      BY <1>0
    <3> HIDE DEF g, n, e
    <3>3. PromptIn(g, <<o, e>>) = PromptOf(SubSeq(g, o + 1, n))
      BY <3>2 DEF PromptIn
    <3>4. QED BY <2>1, <3>1, <3>3 DEF e
  <2> HIDE DEF v, g, n, T, p, L
  <2>13. ASSUME NEW i \in 1 .. Len(T)
         PROVE /\ T[i] \in Opens(g) /\ EndOf(g, T[i]) <= Len(g)
               /\ p[i] = PromptIn(g, <<T[i], EndOf(g, T[i])>>)
    <3>1. CASE i = L + 1
      <4>1. T[i] = o /\ p[i] = PromptOf(q.body)
        BY <2>7, <2>9, <3>1
      <4>2. EndOf(g, T[i]) = n + 1 /\ T[i] \in Opens(g)
        BY <2>10, <4>1
      <4>3. p[i] = PromptIn(g, <<T[i], EndOf(g, T[i])>>)
        BY <2>12, <4>1, <4>2
      <4>4. QED BY <1>0, <1>1, <4>2, <4>3
    <3>2. CASE i # L + 1
      <4>1. i \in 1 .. L /\ S[i] \in Int
        BY <2>4, <2>9, <3>2 DEF L
      <4>2. T[i] = S[i] /\ p[i] = q.prompts[i]
        BY <2>7, <2>9, <4>1
      <4>3. EndOf(g, S[i]) \in Int
        <5>1. EndOf(g, S[i]) = EndOf(f, S[i]) /\ S[i] \in Opens(f)
          BY <2>4, <2>11, <4>1 DEF L
        <5>2. QED BY <1>2, <5>1
      <4>4. QED BY <1>0, <1>1, <2>11, <4>1, <4>2, <4>3
    <3>3. QED BY <3>1, <3>2
  <2>14. ASSUME NEW i \in 1 .. Len(T), NEW j \in 1 .. Len(T), i < j PROVE T[i] < T[j]
    <3>1. i \in 1 .. L /\ T[i] = S[i] /\ S[i] \in Int
      BY <2>4, <2>9, <2>14 DEF L
    <3>2. CASE j = L + 1
      BY <2>9, <2>11, <3>1, <3>2
    <3>3. CASE j # L + 1
      <4>1. j \in 1 .. L /\ T[j] = S[j]
        BY <2>9, <3>3
      <4>2. QED BY <2>4, <2>14, <3>1, <4>1 DEF L
    <3>4. QED BY <3>2, <3>3
  <2>15. ASSUME NEW m \in Opens(g), EndOf(g, m) <= Len(g) PROVE \E i \in 1 .. Len(T) : T[i] = m
    <3>1. m \in 1 .. n /\ m \in Opens(f)
      BY <1>0, <1>1, <2>15
    <3>2. CASE m = o
      <4>1. L + 1 \in 1 .. Len(T)
        BY <2>9
      <4>2. QED BY <2>9, <3>2, <4>1
    <3>3. CASE m # o
      <4>1. m < o
        BY <2>8, <3>1, <3>3
      <4>2. EndOf(f, m) < o
        BY <1>2, <2>8, <3>1, <4>1
      <4>3. EndOf(f, m) <= n
        BY <1>0, <1>2, <2>8, <3>1, <4>2
      <4>4. PICK i \in 1 .. L : S[i] = m
        BY <2>4, <3>1, <4>3 DEF L
      <4>5. i \in 1 .. Len(T) /\ T[i] = m
        BY <2>9, <4>4
      <4>6. QED BY <4>5
    <3>4. QED BY <3>2, <3>3
  <2>16. PromptsOf(T, g, p)
    BY <2>7, <2>9, <2>13, <2>14, <2>15 DEF PromptsOf
  <2>17. QED BY <2>5, <2>7, <2>16 DEF PromptsAre
<1>5. CASE ~(q.expects = "body" /\ Closes(line, q.ticks))
  <2>1. v.prompts = q.prompts
    <3>1. CASE q.expects = "body"
      BY <1>3, <1>5, <3>1 DEF ParseLine, v
    <3>2. CASE q.expects \in {"first", "next"} /\ line.kind = "fence"
      <4>1. v = Opened(q, line)
        BY <3>2 DEF ParseLine, v
      <4>2. QED BY <1>3, <4>1 DEF Opened
    <3>3. CASE q.expects # "body" /\ ~(q.expects \in {"first", "next"} /\ line.kind = "fence")
      <4>1. v = q \/ v = [q EXCEPT !.expects = "next"] \/ v = [q EXCEPT !.expects = "failed"]
        BY <1>3, <3>3 DEF ParseLine, v
      <4>2. QED BY <1>3, <4>1
    <3>4. QED BY <3>1, <3>2, <3>3
  <2>2. q.expects = "failed" => v.expects = "failed"
    <3>1. q.expects = "failed" => v = [q EXCEPT !.expects = "failed"]
      BY DEF ParseLine, v
    <3>2. QED BY <1>3, <3>1
  <2>3. ASSUME q.expects # "failed" PROVE \A o \in Opens(f) : EndOf(f, o) = n + 1 => ~Closes(line, f[o].ticks)
    <3> SUFFICES ASSUME NEW o \in Opens(f), EndOf(f, o) = n + 1 PROVE ~Closes(line, f[o].ticks)
      OBVIOUS
    <3>1. CASE q.expects = "body"
      <4>1. PICK l : IsLast(f, l) /\ EndOf(f, l) = n + 1 /\ q.ticks = f[l].ticks
        BY <3>1 DEF Shape
      <4>2. l \in 1 .. n /\ o \in 1 .. n /\ l \in Opens(f) /\ o <= l
        BY <1>1, <4>1 DEF IsLast
      <4>3. ~(o < l)
        BY <1>0, <1>2, <4>2
      <4>4. QED BY <1>5, <3>1, <4>1, <4>2, <4>3
    <3>2. CASE q.expects = "first"
      BY <3>2 DEF Shape
    <3>3. CASE q.expects \in {"separator", "next"}
      <4>1. PICK l : IsLast(f, l) /\ EndOf(f, l) <= n
        BY <3>3 DEF Shape
      <4>2. l \in 1 .. n /\ o \in 1 .. n /\ l \in Opens(f) /\ o <= l
        BY <1>1, <4>1 DEF IsLast
      <4>3. o < l => EndOf(f, o) < l
        BY <1>2, <4>2
      <4>4. QED BY <1>0, <4>1, <4>2, <4>3
    <3>4. QED BY <1>3, <2>3, <3>1, <3>2, <3>3
  <2>4. ASSUME q.expects # "failed" PROVE \E S : PromptsOf(S, g, q.prompts)
    <3>1. PICK S : PromptsOf(S, f, q.prompts)
      BY <1>3, <2>4 DEF PromptsAre
    <3>2. PromptsOf(S, g, q.prompts)
      BY <2>3, <2>4, <3>1, PromptsStay
    <3>3. QED BY <3>2
  <2> HIDE DEF v, g
  <2>5. PromptsAre(v, g)
    BY <1>3, <2>1, <2>2, <2>4 DEF PromptsAre
  <2>6. QED BY <2>5 DEF v, g
<1>6. QED BY <1>4, <1>5

Event == {"end", "cancelled", "limit", "provider", "exhausted", "failed", "halted"}

\* How many turns finished, when an event is added.
LEMMA TurnsMore ==
  ASSUME NEW events \in Seq(Event), NEW e \in Event
  PROVE /\ IsFiniteSet(FinishedTurns(events)) /\ Cardinality(FinishedTurns(events)) \in Nat
        /\ events \o <<e>> \in Seq(Event)
        /\ Cardinality(FinishedTurns(events \o <<e>>)) =
             Cardinality(FinishedTurns(events)) + (IF e \in {"end", "cancelled"} THEN 1 ELSE 0)
        /\ \A x \in Event : Contains(events \o <<e>>, x) <=> Contains(events, x) \/ x = e
<1> DEFINE n == Len(events)
           more == events \o <<e>>
           A == FinishedTurns(events)
           B == FinishedTurns(more)
<1>1. /\ n \in Nat /\ more \in Seq(Event) /\ Len(more) = n + 1 /\ more[n + 1] = e
      /\ \A i \in 1 .. n : more[i] = events[i]
  OBVIOUS
<1>2. A = {i \in 1 .. n : events[i] \in {"end", "cancelled"}}
  BY DEF FinishedTurns
<1>3. B = {i \in 1 .. n + 1 : more[i] \in {"end", "cancelled"}}
  BY <1>1 DEF FinishedTurns
<1> HIDE DEF A, B, more, n
<1>4. IsFiniteSet(A)
  <2>1. IsFiniteSet(1 .. n) /\ A \in SUBSET (1 .. n)
    BY <1>1, <1>2, FS_Interval
  <2>2. QED BY <2>1, FS_Subset
<1>5. Cardinality(A) \in Nat
  BY <1>4, FS_CardinalityType
<1>6. B = IF e \in {"end", "cancelled"} THEN A \cup {n + 1} ELSE A
  BY <1>1, <1>2, <1>3
<1>7. n + 1 \notin A
  BY <1>1, <1>2
<1>8. Cardinality(A \cup {n + 1}) = Cardinality(A) + 1
  BY <1>4, <1>7, FS_AddElement
<1>9. ASSUME NEW x \in Event PROVE Contains(more, x) <=> Contains(events, x) \/ x = e
  <2>1. Contains(more, x) <=> \E i \in 1 .. n + 1 : more[i] = x
    BY <1>1 DEF Contains
  <2>2. Contains(events, x) <=> \E i \in 1 .. n : events[i] = x
    BY DEF Contains, n
  <2>3. QED BY <1>1, <2>1, <2>2
<1>10. QED BY <1>1, <1>4, <1>5, <1>6, <1>8, <1>9 DEF A, B, more

\* If the last turn did not end, none finished or one was cancelled.
LEMMA LastTurn ==
  ASSUME NEW events \in Seq(Event),
         ~\E i \in FinishedTurns(events) : events[i] = "end" /\ \A j \in FinishedTurns(events) : j <= i
  PROVE FinishedTurns(events) = {} \/ Contains(events, "cancelled")
<1> DEFINE n == Len(events)
           A == FinishedTurns(events)
           T == {n - j : j \in A}
<1>1. n \in Nat /\ A = {i \in 1 .. n : events[i] \in {"end", "cancelled"}}
  BY DEF FinishedTurns
<1> HIDE DEF A, n
<1> SUFFICES ASSUME A # {} PROVE Contains(events, "cancelled")
  BY DEF A
<1>2. T \subseteq Nat /\ T # {}
  BY <1>1
<1>3. PICK m \in T : \A k \in T : m <= k
  BY <1>2, LeastNatural
<1>4. PICK i \in A : m = n - i
  BY <1>3
<1>5. \A j \in A : n - j \in T
  OBVIOUS
<1>6. ASSUME NEW j \in A PROVE j <= i
  <2>1. n - i <= n - j
    BY <1>3, <1>4, <1>5
  <2>2. i \in Nat /\ j \in Nat
    BY <1>1
  <2>3. QED BY <1>1, <2>1, <2>2
<1>7. events[i] # "end"
  BY <1>6 DEF A
<1>8. QED BY <1>1, <1>7 DEF Contains, n

\* What an exit code says of the events.
LEMMA CodeIs ==
  ASSUME NEW events, NEW ran \in Nat, Cardinality(FinishedTurns(events)) \in Nat
  PROVE LET c == ExitCode(ran, events)
        IN  /\ c \in {0, 3, 4}
            /\ c = 3 => Contains(events, "provider")
            /\ c = 0 => /\ Cardinality(FinishedTurns(events)) >= ran
                        /\ ~Contains(events, "cancelled") /\ ~Contains(events, "limit")
BY DEF ExitCode, CodeOf

Tasks(prompts, k) == {i \in 1 .. k - 1 : prompts[i] = "task"}

\* The loop: each prompt that was submitted had its turn, but for the one that
\* is waited for.
RunOK ==
  /\ run = [f \in {"pc", "next", "ran", "code"} |-> run[f]]
  /\ session = [f \in {"turn", "halts", "halted", "events"} |-> session[f]]
  /\ session.events \in Seq(Event) /\ session.halts \in Nat
  /\ run.pc \in {"parse", "loop", "waits", "over"}
  /\ run.next \in 1 .. Len(queue.prompts) + 1
  /\ \A i \in 1 .. run.next - 1 : queue.prompts[i] # "/exit"
  /\ run.ran = Cardinality(Tasks(queue.prompts, run.next)) /\ run.ran \in Nat
  /\ run.pc = "parse" => /\ run.next = 1 /\ session.events = <<>>
                         /\ session.turn = FALSE /\ session.halts = 0
  /\ run.pc \in {"loop", "waits"} => queue.expects = "end"
  /\ run.pc = "loop" => Cardinality(FinishedTurns(session.events)) <= run.ran
  /\ run.pc = "waits" => Cardinality(FinishedTurns(session.events)) < run.ran

\* The end: what each exit code stands for.
CodeOK ==
  run.pc = "over" =>
    /\ run.code = 2 => queue.expects \in {"failed", "cut"} /\ session.events = <<>> /\ session.turn = FALSE
    /\ run.code # 2 => queue.expects = "end"
    /\ run.code = 3 => Contains(session.events, "provider")
    /\ run.code = 0 =>
         /\ Cardinality(FinishedTurns(session.events)) = run.ran
         /\ ~Contains(session.events, "cancelled") /\ ~Contains(session.events, "limit")
         /\ run.next <= Len(queue.prompts) => queue.prompts[run.next] = "/exit"

HeadlessInv ==
  /\ file \in Seq(FileLine) /\ Shape(queue, file) /\ PromptsAre(queue, file)
  /\ RunOK /\ CodeOK

\* The wait for a turn is over: another prompt follows, or a code that is not 0.
LEMMA WaitIsOver ==
  ASSUME HeadlessInv, run.pc = "waits", NEW outcome, NEW events \in Seq(Event),
         Cardinality(FinishedTurns(events)) \in Nat, Cardinality(FinishedTurns(events)) <= run.ran,
         outcome = "abandoned" => Cardinality(FinishedTurns(events)) < run.ran,
         run' = GoesOnAfter(outcome, events), UNCHANGED <<file, queue>>,
         session' = [f \in {"turn", "halts", "halted", "events"} |-> session'[f]],
         session'.events = events, session'.halts \in Nat
  PROVE HeadlessInv'
<1>1. /\ run = [f \in {"pc", "next", "ran", "code"} |-> run[f]]
      /\ run.next \in 1 .. Len(queue.prompts) + 1
      /\ \A i \in 1 .. run.next - 1 : queue.prompts[i] # "/exit"
      /\ run.ran = Cardinality(Tasks(queue.prompts, run.next)) /\ run.ran \in Nat
      /\ queue.expects = "end" /\ Cardinality(FinishedTurns(session.events)) < run.ran
  BY DEF HeadlessInv, RunOK
<1>2. run.ran > 0
  <2>1. Cardinality(FinishedTurns(session.events)) \in Nat
    <3>1. session.events \in Seq(Event) /\ "end" \in Event
      BY DEF HeadlessInv, RunOK, Event
    <3>2. QED BY <3>1, TurnsMore
  <2>2. QED BY <1>1, <2>1
<1> DEFINE ended == \E i \in FinishedTurns(events) :
                      events[i] = "end" /\ \A j \in FinishedTurns(events) : j <= i
           stops == outcome = "abandoned" \/ ~ended \/ Contains(events, "limit")
           c == ExitCode(run.ran, events)
<1>3. run' = IF stops THEN [run EXCEPT !.pc = "over", !.code = c] ELSE [run EXCEPT !.pc = "loop"]
  BY DEF GoesOnAfter, Leaves
<1>4. c \in {0, 3, 4} /\ (c = 3 => Contains(events, "provider"))
      /\ (c = 0 => /\ Cardinality(FinishedTurns(events)) >= run.ran
                   /\ ~Contains(events, "cancelled") /\ ~Contains(events, "limit"))
  BY <1>1, CodeIs
<1>5. stops => c # 0
  <2>1. ~ended => FinishedTurns(events) = {} \/ Contains(events, "cancelled")
    BY LastTurn
  <2>2. FinishedTurns(events) = {} => Cardinality(FinishedTurns(events)) = 0
    BY FS_EmptySet
  <2>3. QED BY <1>1, <1>2, <1>4, <2>1, <2>2
<1> HIDE DEF stops, c
<1>6. file' \in Seq(FileLine) /\ Shape(queue, file)' /\ PromptsAre(queue, file)'
  BY DEF HeadlessInv
<1>7. run' = [f \in {"pc", "next", "ran", "code"} |-> run'[f]] /\ run'.next = run.next /\ run'.ran = run.ran
      /\ (stops => run'.pc = "over" /\ run'.code = c) /\ (~stops => run'.pc = "loop")
  BY <1>1, <1>3
<1>8. RunOK'
  <2>1. Tasks(queue'.prompts, run'.next) = Tasks(queue.prompts, run.next)
    BY <1>7
  <2>2. QED BY <1>1, <1>7, <2>1 DEF RunOK
<1>9. CodeOK'
  BY <1>1, <1>4, <1>5, <1>7 DEF CodeOK
<1>10. QED BY <1>6, <1>8, <1>9 DEF HeadlessInv

\* A line is read, or the file ends.
LEMMA ReadingKeeps ==
  ASSUME HeadlessInv, Reads \/ EndOfFile PROVE HeadlessInv'
<1>0. /\ file \in Seq(FileLine) /\ Shape(queue, file) /\ PromptsAre(queue, file) /\ RunOK /\ CodeOK
      /\ queue = [k \in {"expects", "ticks", "body", "prompts"} |-> queue[k]]
      /\ queue.expects \in {"first", "body", "separator", "next", "failed", "cut", "end"}
      /\ run = [f \in {"pc", "next", "ran", "code"} |-> run[f]]
  BY DEF HeadlessInv, Shape, RunOK
<1>1. run' = run /\ session' = session
  BY DEF Reads, EndOfFile
<1>2. ASSUME queue'.prompts \in Seq(Prompts), run.pc = "parse" \/ queue'.prompts = queue.prompts,
             queue.expects # "end",
             run.pc = "over" => /\ queue.expects \in {"failed", "cut"} => queue'.expects \in {"failed", "cut"}
                                /\ queue.expects \in {"failed", "cut", "end"}
      PROVE RunOK' /\ CodeOK'
  <2>1. /\ run.next \in 1 .. Len(queue.prompts) + 1
        /\ \A i \in 1 .. run.next - 1 : queue.prompts[i] # "/exit"
        /\ run.ran = Cardinality(Tasks(queue.prompts, run.next)) /\ run.ran \in Nat
        /\ run.pc \in {"parse", "over"}
        /\ run.pc = "parse" => run.next = 1
        /\ Len(queue'.prompts) \in Nat
    BY <1>0, <1>2 DEF RunOK
  <2>2. /\ run.next \in 1 .. Len(queue'.prompts) + 1
        /\ \A i \in 1 .. run.next - 1 : queue'.prompts[i] # "/exit"
    BY <1>2, <2>1
  <2>3. Tasks(queue'.prompts, run.next) = Tasks(queue.prompts, run.next)
    <3>1. CASE run.next = 1
      BY <3>1 DEF Tasks
    <3>2. CASE run.next # 1
      BY <1>2, <2>1, <3>2
    <3>3. QED BY <3>1, <3>2
  <2>4. RunOK'
    BY <1>0, <1>1, <2>1, <2>2, <2>3 DEF RunOK
  <2>5. CodeOK'
    BY <1>0, <1>1, <1>2, <2>1 DEF CodeOK
  <2>6. QED BY <2>4, <2>5
<1>3. CASE Reads
  <2>1. PICK line \in FileLines : file' = Append(file, line) /\ queue' = ParseLine(queue, line)
    BY <1>3 DEF Reads
  <2>2. line \in FileLine
    <3>1. CASE line \in {Fence(3, FALSE), Fence(3, TRUE), Fence(4, FALSE), Fence(MaxFence + 1, FALSE)}
      <4>1. MaxFence + 1 \in Nat
        BY HeadlessBounds
      <4>2. \A t \in Nat, b \in BOOLEAN : Fence(t, b) \in FileLine
        BY DEF FileLine, Fence
      <4>3. 3 \in Nat /\ 4 \in Nat /\ TRUE \in BOOLEAN /\ FALSE \in BOOLEAN
        OBVIOUS
      <4>4. QED BY <3>1, <4>1, <4>2, <4>3
    <3>2. CASE \E k \in Words : line = Word(k)
      <4>1. PICK k \in Words : line = Word(k)
        BY <3>2
      <4>2. k \in {"separator", "blank", "text", "/exit", "/halt"}
        BY HeadlessBounds
      <4>3. QED BY <4>1, <4>2 DEF FileLine, Word
    <3>3. QED BY <2>1, <3>1, <3>2 DEF FileLines
  <2>3. queue.expects \notin {"cut", "end"} /\ run.pc = "parse"
    BY <1>3 DEF Reads
  <2>4. file' \in Seq(FileLine)
    BY <1>0, <2>1, <2>2
  <2>5. Shape(queue', file') /\ PromptsAre(queue', file')
    BY <1>0, <2>1, <2>2, <2>3, ShapeStep, PromptsStep
  <2>6. queue'.prompts \in Seq(Prompts)
    BY <2>5 DEF PromptsAre
  <2>7. RunOK' /\ CodeOK'
    BY <1>0, <1>2, <2>3, <2>6
  <2>8. QED BY <2>4, <2>5, <2>7 DEF HeadlessInv
<1>4. CASE EndOfFile
  <2>1. file' = file /\ queue' = ParseEnd(queue) /\ queue.expects \notin {"failed", "cut", "end"}
    BY <1>4 DEF EndOfFile
  <2>2. CASE queue.expects = "separator"
    <3>1. queue' = [queue EXCEPT !.expects = "end"]
      BY <2>1, <2>2 DEF ParseEnd
    <3>2. /\ queue' = [k \in {"expects", "ticks", "body", "prompts"} |-> queue'[k]]
          /\ queue'.expects = "end" /\ queue'.prompts = queue.prompts
      BY <1>0, <3>1
    <3>3. Shape(queue', file')
      BY <1>0, <2>1, <2>2, <3>2 DEF Shape
    <3>4. PromptsAre(queue', file')
      BY <1>0, <2>1, <2>2, <3>2 DEF PromptsAre
    <3>5. RunOK' /\ CodeOK'
      <4>1. run.pc = "over" => FALSE
        BY <1>0, <2>2 DEF CodeOK
      <4>2. QED BY <1>0, <1>2, <2>2, <3>2, <4>1 DEF PromptsAre
    <3>6. QED BY <1>0, <2>1, <3>3, <3>4, <3>5 DEF HeadlessInv
  <2>3. CASE queue.expects # "separator"
    <3>1. queue' = [queue EXCEPT !.expects = "cut"]
      BY <2>1, <2>3 DEF ParseEnd
    <3>2. /\ queue' = [k \in {"expects", "ticks", "body", "prompts"} |-> queue'[k]]
          /\ queue'.expects = "cut" /\ queue'.prompts = queue.prompts
      BY <1>0, <3>1
    <3>3. ~WellFormed(file)
      BY <1>0, <2>1, <2>3, MayEnd
    <3>4. Shape(queue', file')
      BY <1>0, <2>1, <3>2, <3>3 DEF Shape
    <3>5. PromptsAre(queue', file')
      BY <1>0, <2>1, <3>2 DEF PromptsAre
    <3>6. RunOK' /\ CodeOK'
      <4>1. run.pc = "over" => FALSE
        BY <1>0, <2>1, <2>3 DEF CodeOK
      <4>2. QED BY <1>0, <1>2, <2>1, <3>2, <4>1 DEF PromptsAre
    <3>7. QED BY <1>0, <2>1, <3>4, <3>5, <3>6 DEF HeadlessInv
  <2>4. QED BY <2>2, <2>3
<1>5. QED BY <1>3, <1>4

\* The number of tasks among one prompt more.
LEMMA TasksMore ==
  ASSUME NEW prompts, NEW k \in Nat, k >= 1
  PROVE /\ IsFiniteSet(Tasks(prompts, k)) /\ Cardinality(Tasks(prompts, k)) \in Nat
        /\ Cardinality(Tasks(prompts, k + 1)) =
             Cardinality(Tasks(prompts, k)) + (IF prompts[k] = "task" THEN 1 ELSE 0)
<1> DEFINE A == Tasks(prompts, k)
<1>1. IsFiniteSet(A)
  <2>1. IsFiniteSet(1 .. k - 1) /\ A \in SUBSET (1 .. k - 1)
    BY FS_Interval DEF Tasks
  <2>2. QED BY <2>1, FS_Subset
<1>2. Cardinality(A) \in Nat
  BY <1>1, FS_CardinalityType
<1>3. Tasks(prompts, k + 1) = IF prompts[k] = "task" THEN A \cup {k} ELSE A
  BY DEF Tasks
<1>4. k \notin A
  BY DEF Tasks
<1> HIDE DEF A
<1>5. Cardinality(A \cup {k}) = Cardinality(A) + 1
  BY <1>1, <1>4, FS_AddElement
<1>6. QED BY <1>1, <1>2, <1>3, <1>5 DEF A

\* The next prompt is submitted, skipped as a built-in, or the last one was.
LEMMA NextPromptKeeps ==
  ASSUME HeadlessInv, NextPrompt PROVE HeadlessInv'
<1> DEFINE p == queue.prompts
           k == run.next
           L == Len(queue.prompts)
           ev == session.events
<1>0. /\ file \in Seq(FileLine) /\ Shape(queue, file) /\ PromptsAre(queue, file)
      /\ run = [f \in {"pc", "next", "ran", "code"} |-> run[f]]
      /\ session = [f \in {"turn", "halts", "halted", "events"} |-> session[f]]
      /\ ev \in Seq(Event) /\ session.halts \in Nat
      /\ run.pc = "loop" /\ queue.expects = "end"
      /\ p \in Seq(Prompts) /\ L \in Nat /\ k \in 1 .. L + 1
      /\ \A i \in 1 .. k - 1 : p[i] # "/exit"
      /\ run.ran = Cardinality(Tasks(p, k)) /\ run.ran \in Nat
      /\ Cardinality(FinishedTurns(ev)) <= run.ran
  BY DEF HeadlessInv, RunOK, NextPrompt, PromptsAre
<1>1. file' = file /\ queue' = queue
  BY DEF NextPrompt
<1>2. Cardinality(FinishedTurns(ev)) \in Nat
  <2>1. "end" \in Event
    BY DEF Event
  <2>2. QED BY <1>0, <2>1, TurnsMore
<1>3. ASSUME RunOK', CodeOK' PROVE HeadlessInv'
  BY <1>0, <1>1, <1>3 DEF HeadlessInv
<1>4. ASSUME run' = Leaves(run, ev), session' = session, k > L \/ p[k] = "/exit" PROVE HeadlessInv'
  <2> DEFINE c == ExitCode(run.ran, ev)
  <2>1. c \in {0, 3, 4} /\ (c = 3 => Contains(ev, "provider"))
        /\ (c = 0 => /\ Cardinality(FinishedTurns(ev)) >= run.ran
                     /\ ~Contains(ev, "cancelled") /\ ~Contains(ev, "limit"))
    BY <1>0, <1>2, CodeIs
  <2>2. run' = [run EXCEPT !.pc = "over", !.code = c]
    BY <1>4 DEF Leaves
  <2> HIDE DEF c
  <2>3. run' = [f \in {"pc", "next", "ran", "code"} |-> run'[f]] /\ run'.next = k /\ run'.ran = run.ran
        /\ run'.pc = "over" /\ run'.code = c
    BY <1>0, <2>2
  <2>4. RunOK'
    <3>1. Tasks(queue'.prompts, run'.next) = Tasks(p, k)
      BY <1>1, <2>3
    <3>2. QED BY <1>0, <1>1, <1>4, <2>3, <3>1 DEF RunOK
  <2>5. CodeOK'
    BY <1>0, <1>1, <1>2, <1>4, <2>1, <2>3 DEF CodeOK
  <2>6. QED BY <1>3, <2>4, <2>5
<1>5. ASSUME k <= L, p[k] # "/exit",
             run'.pc \in {"loop", "waits"}, run' = [f \in {"pc", "next", "ran", "code"} |-> run'[f]],
             run'.next = k + 1,
             run'.ran = run.ran + (IF p[k] = "task" THEN 1 ELSE 0),
             run'.pc = "waits" => p[k] = "task",
             session' = [f \in {"turn", "halts", "halted", "events"} |-> session'[f]],
             session'.events = ev, session'.halts \in Nat
      PROVE HeadlessInv'
  <2>1. k \in Nat /\ k >= 1 /\ k + 1 \in 1 .. L + 1
    BY <1>0, <1>5
  <2>2. run'.ran = Cardinality(Tasks(p, k + 1)) /\ run'.ran \in Nat
    BY <1>0, <1>5, <2>1, TasksMore
  <2>3. \A i \in 1 .. k + 1 - 1 : p[i] # "/exit"
    BY <1>0, <1>5, <2>1
  <2>4. Tasks(queue'.prompts, run'.next) = Tasks(p, k + 1)
    BY <1>1, <1>5
  <2>5. run'.pc = "loop" => Cardinality(FinishedTurns(ev)) <= run'.ran
    BY <1>0, <1>2, <1>5
  <2>6. run'.pc = "waits" => Cardinality(FinishedTurns(ev)) < run'.ran
    BY <1>0, <1>2, <1>5
  <2>7. RunOK'
    BY <1>0, <1>1, <1>5, <2>1, <2>2, <2>3, <2>4, <2>5, <2>6 DEF RunOK
  <2>8. CodeOK'
    BY <1>5 DEF CodeOK
  <2>9. QED BY <1>3, <2>7, <2>8
<1>6. CASE k > L
  <2>1. run' = Leaves(run, ev) /\ session' = session
    BY <1>6 DEF NextPrompt
  <2>2. QED BY <1>4, <1>6, <2>1
<1>7. CASE ~(k > L) /\ p[k] = "/exit"
  <2>1. run' = Leaves(run, ev) /\ session' = session
    BY <1>7 DEF NextPrompt
  <2>2. QED BY <1>4, <1>7, <2>1
<1>8. CASE ~(k > L) /\ p[k] = "/halt"
  <2>1. run' = [run EXCEPT !.next = @ + 1] /\ session' = [session EXCEPT !.halts = @ + 1]
    BY <1>8 DEF NextPrompt
  <2>2. /\ run'.pc = "loop" /\ run' = [f \in {"pc", "next", "ran", "code"} |-> run'[f]]
        /\ run'.next = k + 1 /\ run'.ran = run.ran
    BY <1>0, <2>1
  <2>3. /\ session' = [f \in {"turn", "halts", "halted", "events"} |-> session'[f]]
        /\ session'.events = ev /\ session'.halts \in Nat
    <3> DEFINE h == session.halts + 1
    <3>1. h \in Nat /\ session' = [session EXCEPT !.halts = h]
      BY <1>0, <2>1
    <3>2. session = [f \in {"turn", "halts", "halted", "events"} |-> session[f]]
      BY <1>0
    <3> HIDE DEF h
    <3>3. QED BY <3>1, <3>2
  <2>4. k <= L /\ run.ran + 0 = run.ran
    BY <1>0, <1>8
  <2>5. QED BY <1>5, <1>8, <2>2, <2>3, <2>4
<1>9. CASE ~(k > L) /\ p[k] \notin {"/exit", "/halt"}
  <2>1. /\ run' = [run EXCEPT !.pc = "waits", !.next = @ + 1, !.ran = @ + 1]
        /\ session' = [session EXCEPT !.turn = @ \/ ~session.halted]
    BY <1>9 DEF NextPrompt
  <2>2. /\ run'.pc = "waits" /\ run' = [f \in {"pc", "next", "ran", "code"} |-> run'[f]]
        /\ run'.next = k + 1 /\ run'.ran = run.ran + 1
    BY <1>0, <2>1
  <2>3. /\ session' = [f \in {"turn", "halts", "halted", "events"} |-> session'[f]]
        /\ session'.events = ev /\ session'.halts \in Nat
    <3> DEFINE b == session.turn \/ ~session.halted
    <3>1. session' = [session EXCEPT !.turn = b]
      BY <2>1
    <3>2. session = [f \in {"turn", "halts", "halted", "events"} |-> session[f]] /\ session.halts \in Nat
      BY <1>0
    <3> HIDE DEF b
    <3>3. QED BY <3>1, <3>2
  <2>4. k <= L /\ k \in 1 .. L
    BY <1>0, <1>9
  <2>5. p[k] = "task"
    BY <1>0, <1>9, <2>4 DEF Prompts
  <2>6. QED BY <1>5, <2>2, <2>3, <2>4, <2>5
<1>10. QED BY <1>6, <1>7, <1>8, <1>9

\* What the session is after it was told of an event.
LEMMA ToldIs ==
  ASSUME HeadlessInv, NEW events
  PROVE LET s == Told(events)
            t == [Told(events) EXCEPT !.turn = FALSE]
        IN  /\ s = [f \in {"turn", "halts", "halted", "events"} |-> s[f]]
            /\ s.events = session.events \o events /\ s.halts = session.halts
            /\ t = [f \in {"turn", "halts", "halted", "events"} |-> t[f]]
            /\ t.events = session.events \o events /\ t.halts = session.halts
            /\ session.halts \in Nat /\ session.events \in Seq(Event)
<1> DEFINE s == Told(events)
           t == [s EXCEPT !.turn = FALSE]
           more == session.events \o events
<1>1. /\ session = [f \in {"turn", "halts", "halted", "events"} |-> session[f]]
      /\ session.events \in Seq(Event) /\ session.halts \in Nat
  BY DEF HeadlessInv, RunOK
<1>2. s = [session EXCEPT !.events = more]
  BY DEF Told
<1> HIDE DEF more, s
<1>3. /\ s = [f \in {"turn", "halts", "halted", "events"} |-> s[f]]
      /\ s.events = more /\ s.halts = session.halts
  BY <1>1, <1>2
<1>4. /\ t = [f \in {"turn", "halts", "halted", "events"} |-> t[f]]
      /\ t.events = more /\ t.halts = session.halts
  BY <1>3
<1>5. QED BY <1>1, <1>3, <1>4 DEF more, s

\* An event of the turn that is waited for, which settles the wait.
LEMMA OneEvent ==
  ASSUME HeadlessInv, NEW e \in Event, NEW outcome, outcome = "abandoned" => e \notin {"end", "cancelled"},
         Hears(<<e>>, outcome), session' = [Told(<<e>>) EXCEPT !.turn = FALSE]
  PROVE HeadlessInv'
<1> DEFINE ev == session.events
           more == ev \o <<e>>
           s == Told(<<e>>)
<1>1. run.pc = "waits" /\ run' = GoesOnAfter(outcome, more) /\ UNCHANGED <<file, queue>>
  BY DEF Hears
<1>2. /\ session' = [f \in {"turn", "halts", "halted", "events"} |-> session'[f]]
      /\ session'.events = more /\ session'.halts \in Nat /\ ev \in Seq(Event)
  <2>1. /\ [s EXCEPT !.turn = FALSE] =
             [f \in {"turn", "halts", "halted", "events"} |-> [s EXCEPT !.turn = FALSE][f]]
        /\ [s EXCEPT !.turn = FALSE].events = more
        /\ [s EXCEPT !.turn = FALSE].halts = session.halts
        /\ session.halts \in Nat /\ ev \in Seq(Event)
    BY ToldIs
  <2> HIDE DEF s, more, ev
  <2>2. session' = [s EXCEPT !.turn = FALSE]
    BY DEF s
  <2>3. QED BY <2>1, <2>2
<1>3. /\ Cardinality(FinishedTurns(ev)) \in Nat /\ more \in Seq(Event)
      /\ Cardinality(FinishedTurns(more)) =
           Cardinality(FinishedTurns(ev)) + (IF e \in {"end", "cancelled"} THEN 1 ELSE 0)
  BY <1>2, TurnsMore
<1>4. Cardinality(FinishedTurns(ev)) < run.ran /\ run.ran \in Nat
  BY <1>1 DEF HeadlessInv, RunOK
<1> HIDE DEF more, ev
<1>5. /\ Cardinality(FinishedTurns(more)) \in Nat
      /\ Cardinality(FinishedTurns(more)) <= run.ran
      /\ outcome = "abandoned" => Cardinality(FinishedTurns(more)) < run.ran
  BY <1>3, <1>4
<1>6. QED BY <1>1, <1>2, <1>3, <1>5, WaitIsOver

\* The limit is reached, and the turn ends with it.
LEMMA LimitKeeps == ASSUME HeadlessInv, LimitDeclined PROVE HeadlessInv'
<1> DEFINE ev == session.events
           two == <<"limit", "end">>
           s == Told(two)
           more == ev \o two
           mid == ev \o <<"limit">>
<1>1. /\ run.pc = "waits" /\ run' = GoesOnAfter("finished", more) /\ UNCHANGED <<file, queue>>
      /\ session' = [s EXCEPT !.turn = FALSE]
  BY DEF LimitDeclined, Hears
<1>2. /\ session' = [f \in {"turn", "halts", "halted", "events"} |-> session'[f]]
      /\ session'.events = more /\ session'.halts \in Nat /\ ev \in Seq(Event)
  <2>1. /\ [s EXCEPT !.turn = FALSE] =
             [f \in {"turn", "halts", "halted", "events"} |-> [s EXCEPT !.turn = FALSE][f]]
        /\ [s EXCEPT !.turn = FALSE].events = more
        /\ [s EXCEPT !.turn = FALSE].halts = session.halts
        /\ session.halts \in Nat /\ ev \in Seq(Event)
    BY ToldIs
  <2> HIDE DEF s, more, ev
  <2>2. QED BY <1>1, <2>1
<1>3. "limit" \in Event /\ "end" \in Event
  BY DEF Event
<1>4. /\ Cardinality(FinishedTurns(ev)) \in Nat /\ mid \in Seq(Event)
      /\ Cardinality(FinishedTurns(mid)) = Cardinality(FinishedTurns(ev))
  <2> HIDE DEF ev
  <2>1. /\ Cardinality(FinishedTurns(ev)) \in Nat /\ mid \in Seq(Event)
        /\ Cardinality(FinishedTurns(mid)) =
             Cardinality(FinishedTurns(ev)) + (IF "limit" \in {"end", "cancelled"} THEN 1 ELSE 0)
    BY <1>2, <1>3, TurnsMore
  <2>2. QED BY <2>1
<1>5. more = mid \o <<"end">>
  <2> HIDE DEF ev
  <2>1. QED BY <1>2, <1>3
<1>6. /\ more \in Seq(Event)
      /\ Cardinality(FinishedTurns(more)) = Cardinality(FinishedTurns(mid)) + 1
  <2> HIDE DEF mid, more
  <2>1. /\ mid \o <<"end">> \in Seq(Event)
        /\ Cardinality(FinishedTurns(mid \o <<"end">>)) =
             Cardinality(FinishedTurns(mid)) + (IF "end" \in {"end", "cancelled"} THEN 1 ELSE 0)
    BY <1>3, <1>4, TurnsMore
  <2>2. QED BY <1>5, <2>1
<1>7. Cardinality(FinishedTurns(ev)) < run.ran /\ run.ran \in Nat
  BY <1>1 DEF HeadlessInv, RunOK
<1> HIDE DEF more, ev, mid
<1>8. Cardinality(FinishedTurns(more)) \in Nat /\ Cardinality(FinishedTurns(more)) <= run.ran
  BY <1>4, <1>6, <1>7
<1>9. QED BY <1>1, <1>2, <1>6, <1>8, WaitIsOver

\* An event that ends no turn and settles no wait.
LEMMA EventKeeps ==
  ASSUME HeadlessInv, NEW e \in Event \ {"end", "cancelled"}, run.pc # "parse",
         run.pc = "over" => run.code # 2, run' = run, UNCHANGED <<file, queue>>,
         session' = [f \in {"turn", "halts", "halted", "events"} |-> session'[f]],
         session'.events = session.events \o <<e>>, session'.halts \in Nat,
         run.pc = "over" => e \notin {"cancelled", "limit"}
  PROVE HeadlessInv'
<1> DEFINE ev == session.events
           more == ev \o <<e>>
<1>1. /\ file \in Seq(FileLine) /\ Shape(queue, file) /\ PromptsAre(queue, file) /\ RunOK /\ CodeOK
      /\ ev \in Seq(Event) /\ run.ran \in Nat
  BY DEF HeadlessInv, RunOK
<1>2. /\ more \in Seq(Event)
      /\ Cardinality(FinishedTurns(more)) = Cardinality(FinishedTurns(ev))
      /\ \A x \in Event : Contains(more, x) <=> Contains(ev, x) \/ x = e
  <2>1. /\ Cardinality(FinishedTurns(ev)) \in Nat /\ more \in Seq(Event)
        /\ Cardinality(FinishedTurns(more)) =
             Cardinality(FinishedTurns(ev)) + (IF e \in {"end", "cancelled"} THEN 1 ELSE 0)
        /\ \A x \in Event : Contains(more, x) <=> Contains(ev, x) \/ x = e
    BY <1>1, TurnsMore
  <2> HIDE DEF more, ev
  <2>2. QED BY <2>1
<1>3. session'.events = more
  OBVIOUS
<1>4. "provider" \in Event /\ "cancelled" \in Event /\ "limit" \in Event
  BY DEF Event
<1> HIDE DEF more
<1>5. RunOK'
  BY <1>1, <1>2, <1>3 DEF RunOK
<1>6. CodeOK'
  BY <1>1, <1>2, <1>3, <1>4 DEF CodeOK
<1>7. QED BY <1>1, <1>5, <1>6 DEF HeadlessInv

\* A turn that was given up is no longer waited for in vain: nothing else changes.
LEMMA GivenUpKeeps == ASSUME HeadlessInv, TurnGivenUp PROVE HeadlessInv'
<1> DEFINE s == Told(<<"failed">>)
           t == [s EXCEPT !.turn = FALSE]
<1>1. session.turn /\ session' = t /\ UNCHANGED <<file, queue, run>>
  BY DEF TurnGivenUp, RunsFreely, Runs
<1>2. /\ t = [f \in {"turn", "halts", "halted", "events"} |-> t[f]]
      /\ t.events = session.events \o <<"failed">>
      /\ t.halts = session.halts /\ session.halts \in Nat
  BY ToldIs
<1>3. run.pc # "parse" /\ (run.pc = "over" => run.code # 2)
  BY <1>1 DEF HeadlessInv, RunOK, CodeOK
<1>4. "failed" \in Event \ {"end", "cancelled"} /\ "failed" \notin {"cancelled", "limit"}
  BY DEF Event
<1> HIDE DEF s, t
<1>5. /\ session' = [f \in {"turn", "halts", "halted", "events"} |-> session'[f]]
      /\ session'.events = session.events \o <<"failed">> /\ session'.halts \in Nat
  BY <1>1, <1>2
<1>6. QED BY <1>1, <1>3, <1>4, <1>5, EventKeeps

\* A halt is answered: it ends the wait for a turn, or is only noted.
LEMMA HaltKeeps == ASSUME HeadlessInv, HaltAnswered PROVE HeadlessInv'
<1> DEFINE ev == session.events
           more == ev \o <<"halted">>
           s == Told(<<"halted">>)
           h == session.halts - 1
<1>1. /\ session.halts > 0 /\ run.pc # "over" /\ UNCHANGED <<file, queue>>
      /\ session' = [s EXCEPT !.halts = @ - 1, !.halted = TRUE]
      /\ run' = IF run.pc = "waits" THEN GoesOnAfter("finished", session'.events) ELSE run
  BY DEF HaltAnswered
<1>2. /\ s = [f \in {"turn", "halts", "halted", "events"} |-> s[f]]
      /\ s.events = more /\ s.halts = session.halts
      /\ session.halts \in Nat /\ ev \in Seq(Event)
  BY ToldIs
<1>3. h \in Nat /\ session' = [s EXCEPT !.halts = h, !.halted = TRUE]
  <2> HIDE DEF s
  <2>1. h \in Nat /\ s.halts - 1 = h
    BY <1>1, <1>2
  <2>2. QED BY <1>1, <2>1
<1> HIDE DEF s, h, more, ev
<1>4. /\ session' = [f \in {"turn", "halts", "halted", "events"} |-> session'[f]]
      /\ session'.events = more /\ session'.halts \in Nat
  BY <1>2, <1>3
<1>5. run.pc # "parse"
  BY <1>1 DEF HeadlessInv, RunOK
<1>6. "halted" \in Event \ {"end", "cancelled"}
  BY DEF Event
<1>7. CASE run.pc = "waits"
  <2>1. /\ Cardinality(FinishedTurns(ev)) \in Nat /\ more \in Seq(Event)
        /\ Cardinality(FinishedTurns(more)) =
             Cardinality(FinishedTurns(ev)) + (IF "halted" \in {"end", "cancelled"} THEN 1 ELSE 0)
    BY <1>2, <1>6, TurnsMore DEF more
  <2>2. Cardinality(FinishedTurns(ev)) < run.ran /\ run.ran \in Nat
    BY <1>7 DEF HeadlessInv, RunOK, ev
  <2>3. Cardinality(FinishedTurns(more)) \in Nat /\ Cardinality(FinishedTurns(more)) <= run.ran
    BY <2>1, <2>2
  <2>4. run' = GoesOnAfter("finished", more)
    BY <1>1, <1>4, <1>7
  <2>5. QED BY <1>1, <1>4, <1>7, <2>1, <2>3, <2>4, WaitIsOver
<1>8. CASE run.pc # "waits"
  <2>1. run' = run
    BY <1>1, <1>8
  <2>2. QED BY <1>1, <1>4, <1>5, <1>6, <2>1, EventKeeps DEF more, ev
<1>9. QED BY <1>7, <1>8

\* The file is refused, or the children are spawned or not.
LEMMA BeginningKeeps == ASSUME HeadlessInv, FileRefused \/ ProgramStarts PROVE HeadlessInv'
<1>1. /\ file \in Seq(FileLine) /\ Shape(queue, file) /\ PromptsAre(queue, file)
      /\ run = [f \in {"pc", "next", "ran", "code"} |-> run[f]]
      /\ session = [f \in {"turn", "halts", "halted", "events"} |-> session[f]]
      /\ session.events \in Seq(Event) /\ session.halts \in Nat
      /\ run.next \in 1 .. Len(queue.prompts) + 1
      /\ \A i \in 1 .. run.next - 1 : queue.prompts[i] # "/exit"
      /\ run.ran = Cardinality(Tasks(queue.prompts, run.next)) /\ run.ran \in Nat
      /\ session.events = <<>> /\ session.turn = FALSE
  BY DEF HeadlessInv, RunOK, FileRefused, ProgramStarts
<1>2. UNCHANGED <<file, queue, session>>
  BY DEF FileRefused, ProgramStarts
<1>3. Cardinality(FinishedTurns(session.events)) = 0
  <2>1. FinishedTurns(<<>>) = {}
    BY DEF FinishedTurns
  <2>2. QED BY <1>1, <2>1, FS_EmptySet
<1>4. ASSUME run' = [f \in {"pc", "next", "ran", "code"} |-> run'[f]], run'.next = run.next, run'.ran = run.ran,
             \/ run'.pc = "loop" /\ queue.expects = "end"
             \/ run'.pc = "over" /\ run'.code = 4 /\ queue.expects = "end"
             \/ run'.pc = "over" /\ run'.code = 2 /\ queue.expects \in {"failed", "cut"}
      PROVE HeadlessInv'
  <2>1. Tasks(queue'.prompts, run'.next) = Tasks(queue.prompts, run.next)
    BY <1>2, <1>4
  <2>2. RunOK'
    BY <1>1, <1>2, <1>3, <1>4, <2>1 DEF RunOK
  <2>3. CodeOK'
    BY <1>1, <1>2, <1>4 DEF CodeOK
  <2>4. QED BY <1>1, <1>2, <2>2, <2>3 DEF HeadlessInv
<1>5. CASE FileRefused
  <2>1. run' = [run EXCEPT !.pc = "over", !.code = 2] /\ queue.expects \in {"failed", "cut"}
    BY <1>5 DEF FileRefused
  <2>2. QED BY <1>1, <1>4, <2>1
<1>6. CASE ProgramStarts
  <2>1. queue.expects = "end"
    BY <1>6 DEF ProgramStarts
  <2>2. CASE run' = [run EXCEPT !.pc = "loop"]
    BY <1>1, <1>4, <2>1, <2>2
  <2>3. CASE run' = [run EXCEPT !.pc = "over", !.code = 4]
    BY <1>1, <1>4, <2>1, <2>3
  <2>4. QED BY <1>6, <2>2, <2>3 DEF ProgramStarts
<1>7. QED BY <1>5, <1>6

\* Before the first line.
LEMMA HeadlessBegins == HeadlessInit => HeadlessInv
<1> SUFFICES ASSUME HeadlessInit PROVE HeadlessInv
  OBVIOUS
<1>1. /\ file = <<>> /\ Len(file) = 0 /\ file \in Seq(FileLine)
      /\ queue = [expects |-> "first", ticks |-> 0, body |-> <<>>, prompts |-> <<>>]
      /\ run = [pc |-> "parse", next |-> 1, ran |-> 0, code |-> -1]
      /\ session = [turn |-> FALSE, halts |-> 0, halted |-> FALSE, events |-> <<>>]
  BY DEF HeadlessInit
<1>2. Opens(file) = {}
  <2>1. Opens(file) \subseteq 1 .. Len(file)
    BY <1>1, BlocksFollow
  <2>2. QED BY <1>1, <2>1
<1>3. Shape(queue, file)
  <2>1. Chained(file)
    BY <1>2 DEF Chained
  <2>2. Blanks(file, 1, Len(file))
    BY <1>1 DEF Blanks
  <2>3. QED BY <1>1, <1>2, <2>1, <2>2 DEF Shape
<1>4. PromptsAre(queue, file)
  <2>1. PromptsOf(<<>>, file, <<>>)
    BY <1>2 DEF PromptsOf
  <2>2. queue.prompts = <<>> /\ <<>> \in Seq(Prompts)
    BY <1>1
  <2>3. QED BY <2>1, <2>2 DEF PromptsAre
<1>5. RunOK
  <2>1. Tasks(queue.prompts, run.next) = {}
    BY <1>1 DEF Tasks
  <2>2. Cardinality(Tasks(queue.prompts, run.next)) = 0
    BY <2>1, FS_EmptySet
  <2>3. Len(queue.prompts) = 0 /\ session.events \in Seq(Event)
    BY <1>1
  <2>4. QED BY <1>1, <2>2, <2>3 DEF RunOK
<1>6. CodeOK
  BY <1>1 DEF CodeOK
<1>7. QED BY <1>1, <1>3, <1>4, <1>5, <1>6 DEF HeadlessInv

LEMMA HeadlessStep == ASSUME HeadlessInv, [HeadlessNext]_headlessVars PROVE HeadlessInv'
<1>1. CASE Reads \/ EndOfFile
  BY <1>1, ReadingKeeps
<1>2. CASE FileRefused \/ ProgramStarts
  BY <1>2, BeginningKeeps
<1>3. CASE NextPrompt
  BY <1>3, NextPromptKeeps
<1>4. CASE TurnFinished
  BY <1>4, OneEvent DEF TurnFinished, Event
<1>5. CASE TurnCancelled
  BY <1>5, OneEvent DEF TurnCancelled, Event
<1>6. CASE LimitDeclined
  BY <1>6, LimitKeeps
<1>7. CASE ProviderFails
  BY <1>7, OneEvent DEF ProviderFails, Event
<1>8. CASE RestartsExhausted
  BY <1>8, OneEvent DEF RestartsExhausted, Event
<1>9. CASE TurnGivenUp
  BY <1>9, GivenUpKeeps
<1>10. CASE HaltAnswered
  BY <1>10, HaltKeeps
<1>11. CASE UNCHANGED headlessVars
  <2>1. file' = file /\ queue' = queue /\ run' = run /\ session' = session
    BY <1>11 DEF headlessVars
  <2>2. RunOK' /\ CodeOK'
    BY <2>1 DEF HeadlessInv, RunOK, CodeOK, Tasks
  <2>3. QED BY <2>1, <2>2 DEF HeadlessInv
<1>12. QED BY <1>1, <1>2, <1>3, <1>4, <1>5, <1>6, <1>7, <1>8, <1>9, <1>10, <1>11 DEF HeadlessNext

\* The tasks that ran are those the grammar asks for, once the loop is through.
LEMMA RanAll ==
  ASSUME NEW f \in Seq(FileLine), NEW prompts \in Seq(Prompts), NEW S, PromptsOf(S, f, prompts),
         \A o \in Opens(f) : EndOf(f, o) <= Len(f),
         NEW k \in 1 .. Len(prompts) + 1, \A i \in 1 .. k - 1 : prompts[i] # "/exit",
         k <= Len(prompts) => prompts[k] = "/exit"
  PROVE Cardinality(Asked(f)) = Cardinality(Tasks(prompts, k))
<1> DEFINE T == Tasks(prompts, k)
           Block(i) == <<S[i], EndOf(f, S[i])>>
           h == [i \in T |-> Block(i)]
<1>1. /\ Len(S) = Len(prompts) /\ Len(S) \in Nat
      /\ \A i \in 1 .. Len(S) : S[i] \in Opens(f) /\ S[i] \in Nat /\ prompts[i] = PromptIn(f, Block(i))
      /\ \A i, j \in 1 .. Len(S) : i < j => S[i] < S[j]
      /\ \A o \in Opens(f) : \E i \in 1 .. Len(S) : S[i] = o
  BY DEF PromptsOf
<1>2. T = {i \in 1 .. Len(S) : i < k /\ prompts[i] = "task"}
  BY <1>1 DEF Tasks
<1>3. Blocks(f) = {Block(i) : i \in 1 .. Len(S)}
  <2>1. Blocks(f) = {<<o, EndOf(f, o)>> : o \in Opens(f)}
    BY DEF Blocks, EndOf
  <2>2. \A i \in 1 .. Len(S) : Block(i) \in Blocks(f)
    BY <1>1, <2>1
  <2>3. ASSUME NEW b \in Blocks(f) PROVE \E i \in 1 .. Len(S) : b = Block(i)
    BY <1>1, <2>1
  <2>4. QED BY <2>2, <2>3
<1>4. \A i \in 1 .. Len(S) : Block(i)[1] = S[i]
  OBVIOUS
<1> HIDE DEF Block
<1>5. ASSUME NEW i \in 1 .. Len(S), NEW j \in 1 .. Len(S), S[i] < S[j] PROVE i < j
  <2>1. i \in Nat /\ j \in Nat /\ S[i] \in Nat /\ S[j] \in Nat
    BY <1>1
  <2>2. CASE j < i
    BY <1>1, <1>5, <2>1, <2>2
  <2>3. QED BY <1>5, <2>1, <2>2
<1>6. ASSUME NEW i \in T PROVE Block(i) \in Asked(f)
  <2>1. i \in 1 .. Len(S) /\ i < k /\ PromptIn(f, Block(i)) = "task" /\ Block(i) \in Blocks(f)
    BY <1>1, <1>2, <1>3
  <2>2. ASSUME NEW a \in Blocks(f), a[1] < Block(i)[1] PROVE PromptIn(f, a) # "/exit"
    <3>1. PICK j \in 1 .. Len(S) : a = Block(j)
      BY <1>3
    <3>2. j < i
      BY <1>4, <1>5, <2>1, <2>2, <3>1
    <3>3. j \in 1 .. k - 1
      BY <2>1, <3>2
    <3>4. prompts[j] # "/exit"
      BY <3>3
    <3>5. QED BY <1>1, <3>1, <3>4
  <2>3. QED BY <2>1, <2>2 DEF Asked
<1>7. ASSUME NEW b \in Asked(f) PROVE \E i \in T : b = Block(i)
  <2>1. b \in Blocks(f) /\ PromptIn(f, b) = "task" /\ \A a \in Blocks(f) : a[1] < b[1] => PromptIn(f, a) # "/exit"
    BY DEF Asked
  <2>2. PICK i \in 1 .. Len(S) : b = Block(i)
    BY <1>3, <2>1
  <2>3. prompts[i] = "task"
    BY <1>1, <2>1, <2>2
  <2>4. i < k
    <3>1. SUFFICES ASSUME ~(i < k) PROVE FALSE
      OBVIOUS
    <3>2. k \in 1 .. Len(S) /\ prompts[k] = "/exit" /\ k <= i
      BY <1>1, <3>1
    <3>3. k # i
      BY <2>3, <3>2
    <3>4. S[k] < S[i]
      BY <1>1, <3>2, <3>3
    <3>5. Block(k)[1] < b[1] /\ Block(k) \in Blocks(f)
      BY <1>3, <1>4, <2>2, <3>2, <3>4
    <3>6. QED BY <1>1, <2>1, <3>2, <3>5
  <2>5. QED BY <1>2, <2>2, <2>3, <2>4
<1>8. ASSUME NEW i \in T, NEW j \in T, Block(i) = Block(j) PROVE i = j
  <2>1. S[i] = S[j] /\ i \in 1 .. Len(S) /\ j \in 1 .. Len(S)
    BY <1>2, <1>4, <1>8
  <2>2. ~(i < j) /\ ~(j < i)
    BY <1>1, <2>1
  <2>3. QED BY <2>1, <2>2
<1>9. IsFiniteSet(T)
  <2>1. IsFiniteSet(1 .. Len(S)) /\ T \in SUBSET (1 .. Len(S))
    BY <1>1, <1>2, FS_Interval
  <2>2. QED BY <2>1, FS_Subset
<1> HIDE DEF T
<1>10. h \in Bijection(T, Asked(f))
  <2>1. h \in [T -> Asked(f)]
    BY <1>6
  <2>2. \A i, j \in T : h[i] = h[j] => i = j
    BY <1>8
  <2>3. \A b \in Asked(f) : \E i \in T : h[i] = b
    BY <1>7
  <2> HIDE DEF h
  <2>4. h \in Injection(T, Asked(f))
    BY <2>1, <2>2 DEF Injection, IsInjective
  <2>5. h \in Surjection(T, Asked(f))
    BY <2>1, <2>3 DEF Surjection
  <2>6. QED BY <2>4, <2>5 DEF Bijection
<1>11. Cardinality(T) = Cardinality(Asked(f))
  <2>1. ExistsBijection(T, Asked(f))
    BY <1>10 DEF ExistsBijection
  <2>2. QED BY <1>9, <2>1, FS_Bijection
<1>12. QED BY <1>11 DEF T

\* ExitCodeTells: 2 exactly for a file that breaks a rule of the grammar, of which
\* nothing ran; 0 only if every prompt asked for had its turn, none of them was
\* cancelled and no limit was reached; 3 only after a provider failure
\* (headless.ts, prompt_queue.ts), whatever the file, the turns and the halts.
THEOREM ExitCodeOfTheRun == HeadlessSpec => []ExitCodeTells
<1>1. HeadlessInv => ExitCodeTells
  <2> SUFFICES ASSUME HeadlessInv, run.pc = "over" PROVE ExitCodeTells
    BY DEF ExitCodeTells
  <2>1. /\ file \in Seq(FileLine) /\ Shape(queue, file) /\ PromptsAre(queue, file) /\ RunOK /\ CodeOK
    BY DEF HeadlessInv
  <2>2. run.code = 2 => ~WellFormed(file) /\ session.events = <<>>
    <3>1. queue.expects = "failed" => ~WellFormed(file)
      BY <2>1, RefusedIsWrong DEF Shape
    <3>2. queue.expects = "cut" => ~WellFormed(file)
      BY <2>1 DEF Shape
    <3>3. QED BY <2>1, <3>1, <3>2 DEF CodeOK
  <2>3. run.code # 2 => WellFormed(file)
    BY <2>1, MayEnd DEF CodeOK
  <2>4. run.code = 0 => Cardinality(FinishedTurns(session.events)) = Cardinality(Asked(file))
    <3> SUFFICES ASSUME run.code = 0 PROVE Cardinality(FinishedTurns(session.events)) = Cardinality(Asked(file))
      OBVIOUS
    <3>1. /\ queue.expects = "end" /\ Cardinality(FinishedTurns(session.events)) = run.ran
          /\ run.next <= Len(queue.prompts) => queue.prompts[run.next] = "/exit"
      BY <2>1 DEF CodeOK
    <3>2. PICK S : PromptsOf(S, file, queue.prompts)
      BY <2>1, <3>1 DEF PromptsAre
    <3>3. \A o \in Opens(file) : EndOf(file, o) <= Len(file)
      BY <2>1, <2>3, WellFormedIs
    <3>4. /\ queue.prompts \in Seq(Prompts) /\ run.next \in 1 .. Len(queue.prompts) + 1
          /\ \A i \in 1 .. run.next - 1 : queue.prompts[i] # "/exit"
          /\ run.ran = Cardinality(Tasks(queue.prompts, run.next))
      BY <2>1 DEF RunOK, PromptsAre
    <3>5. Cardinality(Asked(file)) = Cardinality(Tasks(queue.prompts, run.next))
      BY <2>1, <3>1, <3>2, <3>3, <3>4, RanAll
    <3>6. QED BY <3>1, <3>4, <3>5
  <2>5. QED BY <2>1, <2>2, <2>3, <2>4 DEF ExitCodeTells, CodeOK
<1>2. QED BY <1>1, HeadlessBegins, HeadlessStep, PTL DEF HeadlessSpec
=============================================================================
