--------------------------- MODULE FolderRunProofs ---------------------------
(***************************************************************************)
(* Theorems about FolderRun, for any folders, steps, retries and faults.   *)
(*                                                                         *)
(* The rows, the manifest and the pointer of a folder are written by its   *)
(* inner execution, by RenderPR and by FinalizeRun.  The invariant says,   *)
(* for each place the inner execution may be in, what it has left behind   *)
(* (FolderInv), and what the outer execution knows of it (OuterInv): the   *)
(* outer writers only ever add rows without a manifest, of attempt 0.      *)
(***************************************************************************)
EXTENDS FolderRun, WellFoundedInduction, TLAPS

\* The attempt has not been collected or failed yet.
BeforeResult == {"idle", "prepare", "ack", "notify", "probe", "bookkeep", "resubmit"}

\* The execution succeeded and its folder succeeded.
DoneWell(f) == child[f].pc = "succeeded" /\ child[f].ok

\* Attempt 0 left its evidence and no manifest.
RetryEvidence(f) ==
  rows[f][0] # None /\ rows[f][0].status = "failed" /\ ~rows[f][0].manifest

\* Which manifest the Lambda in flight, or the finished execution, stands on.
ManifestOf(f) ==
  LET c == child[f] IN
  /\ c.pc \in {"publish", "record", "collected", "succeeded"} =>
       manifests[f] # None /\ manifests[f].attempt = c.attempt /\ manifests[f].ok = c.ok
  /\ c.pc \in {"report", "reported"} =>
       manifests[f] # None /\ manifests[f].attempt = c.attempt

\* A collected attempt has its row, and the summary is of that attempt.
RowOf(f) ==
  LET c == child[f] IN
  c.pc \in {"collected", "succeeded"} =>
    /\ rows[f][c.attempt] # None
    /\ rows[f][c.attempt].status = Verdict(c.ok)
    /\ summary[f] # None /\ summary[f].attempt = c.attempt

\* Attempt 1 exists, in the engine or in the registry, only after the retry was recorded.
RetryOf(f) ==
  /\ child[f].attempt = 1 \/ child[f].pc = "resubmit" => RetryEvidence(f)
  /\ engine[f][1] # "none" => child[f].attempt = 1
  /\ rows[f][1] # None => child[f].attempt = 1

\* What may be recorded of a folder that is still at work.
UnfinishedRows(f) ==
  /\ child[f].pc \in BeforeResult /\ rows[f][0] # None => ~rows[f][0].manifest
  /\ child[f].pc \notin ChildEnd \cup {"idle"} =>
       \A a \in Attempts : rows[f][a] # None => rows[f][a].status \in {"succeeded", "failed"}

\* SummaryIsLatestRow and ManifestDecides, of one folder.
Latest(f) ==
  /\ summary[f] = None <=> \A a \in Attempts : rows[f][a] = None
  /\ summary[f] # None =>
       LET a == summary[f].attempt IN
       /\ rows[f][a] # None
       /\ summary[f] = SummaryOf(None, a, rows[f][a])
       /\ \A b \in Attempts : b > a => rows[f][b] = None

Decides(f) ==
  /\ f \in pointers => manifests[f] # None /\ manifests[f].ok
  /\ \A a \in Attempts : rows[f][a] # None /\ rows[f][a].manifest =>
       /\ manifests[f] # None
       /\ manifests[f].attempt = a
       /\ rows[f][a].status = Verdict(manifests[f].ok)

TerminalRows(f) == \A a \in Attempts : rows[f][a] # None => Terminal(rows[f][a].status)

\* What the registry, the object store and the engine hold of a folder fits where its
\* inner execution is.
FolderInv(f) ==
  /\ Latest(f) /\ Decides(f) /\ ManifestOf(f) /\ RowOf(f) /\ RetryOf(f)
  /\ UnfinishedRows(f) /\ TerminalRows(f)

FoldersInv == \A f \in Folders : FolderInv(f)

\* While the Map runs, earlier steps succeeded and later ones were not touched.
MapInv ==
  outer.pc = "map" =>
    \A f \in Folders :
      /\ Step[f] < outer.step => DoneWell(f) /\ outer.outcomes[f] # None
      /\ Step[f] > outer.step =>
           child[f].pc = "idle" /\ \A a \in Attempts : rows[f][a] = None

\* An outcome is what the finished execution of the folder said.
OutcomeInv ==
  \A f \in Folders : outer.outcomes[f] # None =>
    /\ child[f].pc \in {"succeeded", "failed", "unreported"}
    /\ outer.outcomes[f] = OutcomeOf(child[f])

\* RenderPR has an outcome or the word "skipped" for each folder, the latter after a failure.
RenderInv ==
  outer.pc \in {"rows", "rendered"} =>
    /\ \A f \in Folders :
         IF f \in outer.skipped THEN child[f].pc = "idle" ELSE outer.outcomes[f] # None
    /\ outer.skipped # {} => \E g \in Folders : g \notin outer.skipped /\ Failed(outer.outcomes[g])

\* FinalizeRun has recorded each folder it is done with, or knows that it is incomplete.
FinalInv ==
  /\ outer.pc = "put" => outer.cur \in Folders
  /\ outer.pc \in {"final", "put"} /\ ~outer.incomplete =>
       \A f \in Folders \ outer.todo : summary[f] # None
  /\ outer.pc = "closed" /\ ~outer.incomplete => \A f \in Folders : summary[f] # None
  /\ sfn = "failed" => \A f \in Folders : summary[f] # None

\* A run that succeeded has only folders that did.
StatusInv == status = "succeeded" => \A f \in Folders : DoneWell(f)

\* What the outer execution knows of all folders.
OuterInv == MapInv /\ OutcomeInv /\ RenderInv /\ FinalInv /\ StatusInv /\ LaterStepsWait

IInv == TypeOK /\ FoldersInv /\ OuterInv

-----------------------------------------------------------------------------
(* Operators.                                                              *)

\* The first step is one of the steps, and no folder comes before it.
LEMMA FirstStepIsFirst ==
  FirstStep \in Nat /\ \A f \in Folders : FirstStep <= Step[f]
  <1>1. Steps \subseteq Nat /\ Steps # {}
    BY FolderRunAssumption DEF Steps
  <1>2. PICK k \in Steps : \A l \in Steps : ~ (<<l, k>> \in OpToRel(<, Nat))
    BY <1>1, WFMin, NatLessThanWellFounded, Zenon
  <1>3. \A l \in Steps : ~ (l < k)
    BY <1>1, <1>2, Zenon DEF OpToRel
  <1>4. FirstStep \in Steps /\ \A l \in Steps : FirstStep <= l
    <2>1. \A l \in Steps : k <= l
      BY <1>1, <1>3
    <2> QED
      BY <2>1 DEF FirstStep
  <1> QED
    BY <1>1, <1>4 DEF Steps

LEMMA VerdictStatus ==
  ASSUME NEW ok \in BOOLEAN
  PROVE  Verdict(ok) \in Statuses /\ Verdict(ok) \in {"succeeded", "failed"}
  BY DEF Verdict, Statuses

\* The end of a run or a folder is final.
LEMMA TerminalIsFinal ==
  ASSUME NEW old \in Statuses, NEW new \in Statuses
  PROVE  Terminal(old) /\ MayBecome(old, new) => old = new
  BY DEF MayBecome

\* Only these statuses have the rank of a failure, or of a success.
LEMMA RankOf ==
  /\ \A s \in Statuses : Rank(s) \in 0..3
  /\ \A s \in Statuses : Rank(s) = Rank("failed") => s \in {"failed", "infrastructure_error"}
  /\ \A s \in Statuses : Rank(s) = Rank("succeeded") => s \in {"succeeded", "skipped"}
  /\ \A s \in {"succeeded", "skipped", "failed", "infrastructure_error"} : Terminal(s)
  BY DEF Rank, Terminal, Statuses

LEMMA SummaryShape ==
  ASSUME NEW old \in Summary \cup {None}, NEW a \in Attempts, NEW row \in Row
  PROVE  SummaryOf(old, a, row) \in Summary
  BY DEF SummaryOf, Summary, Row

\* put_folder_attempt: either a new row and its summary, or nothing.
LEMMA PutFacts ==
  ASSUME TypeOK, NEW f \in Folders, NEW a \in Attempts, NEW row \in Row,
         PutAttempt(f, a, row)
  PROVE  /\ rows' \in [Folders -> [Attempts -> Row \cup {None}]]
         /\ summary' \in [Folders -> Summary \cup {None}]
         /\ \A g \in Folders : g # f => rows'[g] = rows[g] /\ summary'[g] = summary[g]
         /\ \A b \in Attempts : b # a => rows'[f][b] = rows[f][b]
         /\ \/ /\ rows[f][a] = None
               /\ Newer(f, a, row)
               /\ rows'[f][a] = row
               /\ summary'[f] = SummaryOf(summary[f], a, row)
            \/ /\ rows[f][a] # None
               /\ Replays(rows[f][a], row)
               /\ UNCHANGED <<rows, summary>>
  <1>1. CASE rows[f][a] = None
    <2>1. /\ rows' = [rows EXCEPT ![f][a] = row]
          /\ summary' = [summary EXCEPT ![f] = SummaryOf(@, a, row)]
          /\ Newer(f, a, row)
      BY <1>1 DEF PutAttempt, Stored
    <2>2. rows \in [Folders -> [Attempts -> Row \cup {None}]]
          /\ summary \in [Folders -> Summary \cup {None}]
      BY DEF TypeOK
    <2>3. SummaryOf(summary[f], a, row) \in Summary
      BY <2>2, SummaryShape
    <2> QED
      BY <1>1, <2>1, <2>2, <2>3
  <1>2. CASE rows[f][a] # None
    BY <1>2 DEF PutAttempt, Stored, TypeOK
  <1> QED
    BY <1>1, <1>2

-----------------------------------------------------------------------------
(* Steps of an inner execution.                                            *)

\* The inner execution of f alone moves, to one of these states.
Moves(f, attempt, ok, pcs) ==
  /\ child' \in [Folders -> Child]
  /\ \A g \in Folders : g # f => child'[g] = child[g]
  /\ child'[f].attempt = attempt
  /\ child'[f].ok = ok
  /\ child'[f].pc \in pcs

LEMMA SetMoves ==
  ASSUME TypeOK, NEW f \in Folders, NEW c \in Child, SetChild(f, c)
  PROVE  Moves(f, c.attempt, c.ok, {c.pc})
  BY DEF TypeOK, SetChild, Moves

LEMMA GotoMoves ==
  ASSUME TypeOK, NEW f \in Folders, NEW c \in Child, NEW pc \in ChildPc, Goto(f, c, pc)
  PROVE  Moves(f, c.attempt, c.ok, {pc, "stopped"})
  <1> DEFINE next == [c EXCEPT !.pc = IF Running(f) THEN pc ELSE "stopped", !.tries = 0]
  <1>0. (IF Running(f) THEN pc ELSE "stopped") \in ChildPc /\ 0 \in 0..MaxRetries
    BY FolderRunAssumption DEF ChildPc, ChildEnd
  <1>1. next \in Child
    BY <1>0 DEF Child
  <1>2. /\ next.attempt = c.attempt /\ next.ok = c.ok
        /\ next.pc \in {pc, "stopped"}
    BY DEF Child
  <1>3. Moves(f, next.attempt, next.ok, {next.pc})
    BY <1>1, SetMoves DEF Goto
  <1> QED
    BY <1>2, <1>3 DEF Moves

LEMMA RaisedMoves ==
  ASSUME TypeOK, NEW f \in Folders, NEW task \in ChildPc, NEW catch \in ChildPc,
         Raised(f, child[f], task, catch)
  PROVE  Moves(f, child[f].attempt, child[f].ok, {task, catch, "stopped"})
  <1>0. child[f] \in Child
    BY DEF TypeOK
  <1>1. CASE Running(f) /\ child[f].tries < MaxRetries
    <2> DEFINE next == [child[f] EXCEPT !.pc = task, !.tries = @ + 1]
    <2>0. child[f].tries \in 0..MaxRetries
      BY <1>0 DEF Child
    <2>a. child[f].tries + 1 \in 0..MaxRetries
      BY <1>1, <2>0, FolderRunAssumption
    <2>1. next \in Child
      BY <1>0, <2>a DEF Child
    <2>2. next.attempt = child[f].attempt /\ next.ok = child[f].ok /\ next.pc = task
      BY <1>0 DEF Child
    <2>3. Moves(f, next.attempt, next.ok, {next.pc})
      BY <1>1, <2>1, SetMoves DEF Raised
    <2> QED
      BY <2>2, <2>3 DEF Moves
  <1>2. CASE ~(Running(f) /\ child[f].tries < MaxRetries)
    <2>1. Moves(f, child[f].attempt, child[f].ok, {catch, "stopped"})
      BY <1>0, <1>2, GotoMoves DEF Raised
    <2> QED
      BY <2>1 DEF Moves
  <1> QED
    BY <1>1, <1>2

\* An inner execution is at work.
AtWork(f) == child[f].pc \notin ChildEnd \cup {"idle"}

\* Nothing that FolderInv reads of g changes.
Same(g) ==
  /\ child'[g] = child[g]
  /\ engine'[g][1] # "none" => engine[g][1] # "none"
  /\ manifests'[g] = manifests[g]
  /\ g \in pointers' => g \in pointers
  /\ rows'[g] = rows[g]
  /\ summary'[g] = summary[g]

\* What was recorded of g stays.
Keeps(g) ==
  /\ manifests[g] # None => manifests'[g] = manifests[g]
  /\ \A a \in Attempts : rows[g][a] # None => rows'[g][a] = rows[g][a]
  /\ summary[g] # None => summary'[g] # None /\ summary'[g].attempt >= summary[g].attempt

LEMMA SameInv ==
  ASSUME NEW g \in Folders, FolderInv(g), Same(g)
  PROVE  FolderInv(g)'
  <1>1. Latest(g)' /\ TerminalRows(g)'
    BY DEF FolderInv, Same, Latest, TerminalRows, SummaryOf
  <1>2. Decides(g)'
    BY DEF FolderInv, Same, Decides
  <1>3. ManifestOf(g)' /\ RowOf(g)' /\ UnfinishedRows(g)'
    BY DEF FolderInv, Same, ManifestOf, RowOf, UnfinishedRows
  <1>4. RetryOf(g)'
    BY DEF FolderInv, Same, RetryOf, RetryEvidence
  <1> QED
    BY <1>1, <1>2, <1>3, <1>4 DEF FolderInv

LEMMA SameKeeps ==
  ASSUME TypeOK, NEW g \in Folders, Same(g)
  PROVE  Keeps(g)
  <1>1. summary[g] # None => summary[g].attempt \in Nat
    BY DEF TypeOK, Summary, Attempts
  <1> QED
    BY <1>1 DEF Same, Keeps

\* One inner execution takes a step: it was at work, and it disturbs no other folder.
Works(f) ==
  /\ AtWork(f)
  /\ child'[f].pc # "idle"
  /\ TypeOK'
  /\ FolderInv(f)'
  /\ Keeps(f)
  /\ \A g \in Folders : g # f => Same(g)
  /\ UNCHANGED <<sfn, outer, status>>

\* Whatever an inner execution does, the outer invariant holds after it.
LEMMA WorksInv ==
  ASSUME IInv, NEW f \in Folders, Works(f)
  PROVE  IInv'
  <1> USE DEF AtWork, ChildEnd
  <1>1. \A g \in Folders : child[g].pc \in ChildEnd \cup {"idle"} => Same(g) /\ g # f
    BY DEF Works
  <1>2. \A g \in Folders : child'[g].pc = "idle" <=> child[g].pc = "idle"
    BY DEF Works, Same
  <1>3. FoldersInv'
    BY SameInv DEF Works, FoldersInv, IInv
  <1>4. MapInv'
    BY <1>1 DEF Works, MapInv, DoneWell, Same, IInv, OuterInv
  <1>5. OutcomeInv'
    BY <1>1 DEF Works, OutcomeInv, OutcomeOf, Same, IInv, OuterInv
  <1>6. RenderInv'
    BY <1>1, <1>2 DEF Works, RenderInv, IInv, OuterInv
  <1>7. FinalInv'
    <2>1. \A g \in Folders : summary[g] # None => summary'[g] # None
      BY DEF Works, Same, Keeps
    <2> QED
      BY <2>1 DEF Works, FinalInv, IInv, OuterInv
  <1>8. StatusInv'
    BY <1>1 DEF Works, StatusInv, DoneWell, Same, IInv, OuterInv
  <1>9. LaterStepsWait'
    BY <1>1, <1>2 DEF LaterStepsWait, Says, Same, IInv, OuterInv
  <1> QED
    BY <1>3, <1>4, <1>5, <1>6, <1>7, <1>8, <1>9 DEF Works, IInv, OuterInv

\* The states of which FolderInv asks nothing but what it asks of the attempt.
Neutral == {"prepare", "ack", "notify", "probe", "bookkeep", "collect", "failure",
            "failed", "unreported", "stopped"}

\* Steps of an inner execution that write no row and no manifest.
LEMMA QuietWorks ==
  ASSUME IInv, NEW f \in Folders, AtWork(f), NEW ok \in BOOLEAN, NEW pcs \in SUBSET Neutral,
         Moves(f, child[f].attempt, ok, pcs),
         \A pc \in pcs : pc \in BeforeResult => child[f].pc \in BeforeResult,
         UNCHANGED <<late, sfn, outer, manifests, pointers, rows, summary, status>>,
         accepted' \in [Folders -> SUBSET Attempts],
         faults' \in 0..MaxFaults,
         engine' = engine \/ engine' = [engine EXCEPT ![f][child[f].attempt] = "running"]
  PROVE  Works(f)
  <1> USE DEF Moves
  <1>0. TypeOK /\ FolderInv(f) /\ child[f] \in Child /\ child[f].attempt \in Attempts
    BY DEF IInv, FoldersInv, TypeOK, Child
  <1>1. engine' \in [Folders -> [Attempts -> Engine]]
    <2>1. engine \in [Folders -> [Attempts -> Engine]] /\ "running" \in Engine
      BY <1>0 DEF TypeOK, Engine
    <2>2. [engine EXCEPT ![f][child[f].attempt] = "running"] \in [Folders -> [Attempts -> Engine]]
      BY <1>0, <2>1
    <2> QED
      BY <2>1, <2>2
  <1>2. \A g \in Folders : g # f => engine'[g] = engine[g]
    BY <1>0 DEF TypeOK
  <1>3. engine'[f][1] # "none" => engine[f][1] # "none" \/ child[f].attempt = 1
    BY <1>0 DEF TypeOK, Attempts
  <1>4. child'[f].pc \in Neutral
    OBVIOUS
  <1>5. TypeOK'
    BY <1>0, <1>1 DEF TypeOK
  <1>6. FolderInv(f)'
    <2>1. Latest(f)' /\ TerminalRows(f)' /\ Decides(f)'
      BY <1>0 DEF FolderInv, Latest, TerminalRows, SummaryOf, Decides
    <2>2. ManifestOf(f)' /\ RowOf(f)'
      BY <1>4 DEF ManifestOf, RowOf, Neutral
    <2>3. RetryOf(f)'
      BY <1>0, <1>3, <1>4 DEF FolderInv, RetryOf, RetryEvidence, Neutral
    <2>4. UnfinishedRows(f)'
      BY <1>0 DEF FolderInv, UnfinishedRows, AtWork
    <2> QED
      BY <2>1, <2>2, <2>3, <2>4 DEF FolderInv
  <1>7. \A g \in Folders : g # f => Same(g)
    BY <1>2 DEF Same
  <1>8. Keeps(f)
    BY <1>0 DEF Keeps, TypeOK, Summary, Attempts
  <1>9. child'[f].pc # "idle"
    BY <1>4 DEF Neutral
  <1> QED
    BY <1>5, <1>6, <1>7, <1>8, <1>9 DEF Works

\* What a step of an inner execution that only routes leaves alone.
Rest == UNCHANGED <<late, sfn, outer, engine, store>> /\ faults' \in 0..MaxFaults

LEMMA FaultBound ==
  ASSUME TypeOK, Fault
  PROVE  faults' \in 0..MaxFaults
  BY FolderRunAssumption DEF TypeOK, Fault

LEMMA QuietGoto ==
  ASSUME IInv, NEW f \in Folders, AtWork(f), NEW pc \in Neutral,
         NEW c \in Child, c.attempt = child[f].attempt, Goto(f, c, pc),
         pc \in BeforeResult => child[f].pc \in BeforeResult, Rest
  PROVE  Works(f)
  <1>1. pc \in ChildPc /\ {pc, "stopped"} \in SUBSET Neutral /\ "stopped" \notin BeforeResult
    BY DEF Neutral, ChildPc, BeforeResult, InPrepare, InRetry, InCollect, InFailure, ChildEnd
  <1>2. TypeOK /\ c.ok \in BOOLEAN
    BY DEF IInv, Child
  <1>3. Moves(f, child[f].attempt, c.ok, {pc, "stopped"})
    BY <1>1, <1>2, GotoMoves
  <1>4. accepted' \in [Folders -> SUBSET Attempts]
    BY <1>2 DEF Rest, store, TypeOK
  <1> QED
    BY <1>1, <1>2, <1>3, <1>4, QuietWorks DEF Rest, store

LEMMA QuietRaised ==
  ASSUME IInv, NEW f \in Folders, AtWork(f), NEW task \in Neutral, NEW catch \in Neutral,
         Raised(f, child[f], task, catch), Rest,
         task \in BeforeResult => child[f].pc \in BeforeResult, catch \notin BeforeResult
  PROVE  Works(f)
  <1>1. /\ task \in ChildPc /\ catch \in ChildPc
        /\ {task, catch, "stopped"} \in SUBSET Neutral /\ "stopped" \notin BeforeResult
    BY DEF Neutral, ChildPc, BeforeResult, InPrepare, InRetry, InCollect, InFailure, ChildEnd
  <1>2. TypeOK /\ child[f].ok \in BOOLEAN
    BY DEF IInv, TypeOK, Child
  <1>3. Moves(f, child[f].attempt, child[f].ok, {task, catch, "stopped"})
    BY <1>1, <1>2, RaisedMoves
  <1>4. accepted' \in [Folders -> SUBSET Attempts]
    BY <1>2 DEF Rest, store, TypeOK
  <1> QED
    BY <1>1, <1>2, <1>3, <1>4, QuietWorks DEF Rest, store

LEMMA FaultRest ==
  ASSUME TypeOK, UNCHANGED <<late, sfn, outer, engine, store>>,
         Fault \/ UNCHANGED faults
  PROVE  Rest
  BY FaultBound DEF Rest, TypeOK

\* The steps of PrepareAndSubmit and PollDone.
LEMMA PrepareWorks ==
  ASSUME IInv, NEW f \in Folders,
         \/ Submit(f) \/ SubmitLate(f) \/ Acknowledge(f) \/ Notify(f) \/ NotifyRaises(f)
         \/ PrepareRaises(f)
  PROVE  Works(f)
  <1> USE DEF AtWork, ChildEnd, BeforeResult
  <1>0. TypeOK /\ child[f] \in Child
    BY DEF IInv, TypeOK
  <1>n. {"ack", "notify", "probe", "failure"} \subseteq Neutral
    BY DEF Neutral
  <1>1. CASE Submit(f)
    <2> DEFINE next == [child[f] EXCEPT !.pc = "ack"]
    <2>1. next \in Child /\ next.attempt = child[f].attempt /\ next.ok = child[f].ok
          /\ next.pc = "ack" /\ next.ok \in BOOLEAN
      BY <1>0 DEF Child, ChildPc, InPrepare
    <2>2. Moves(f, child[f].attempt, child[f].ok, {"ack"})
      BY <1>0, <1>1, <2>1, SetMoves DEF Submit
    <2>3. engine' = [engine EXCEPT ![f][child[f].attempt] = "running"]
          /\ UNCHANGED <<late, sfn, outer, manifests, pointers, rows, summary, status>>
          /\ accepted' \in [Folders -> SUBSET Attempts] /\ faults' \in 0..MaxFaults
      BY <1>0, <1>1 DEF Submit, store, TypeOK
    <2>4. AtWork(f) /\ child[f].pc \in BeforeResult /\ {"ack"} \in SUBSET Neutral
      BY <1>1, <1>n DEF Submit
    <2> QED
      BY <2>1, <2>2, <2>3, <2>4, QuietWorks
  <1>2. CASE Acknowledge(f)
    <2> DEFINE next == [child[f] EXCEPT !.pc = "notify"]
    <2>1. next \in Child /\ next.attempt = child[f].attempt /\ next.ok = child[f].ok
          /\ next.pc = "notify" /\ next.ok \in BOOLEAN
      BY <1>0 DEF Child, ChildPc, InPrepare
    <2>2. Moves(f, child[f].attempt, child[f].ok, {"notify"})
      BY <1>0, <1>2, <2>1, SetMoves DEF Acknowledge
    <2>3. UNCHANGED <<engine, late, sfn, outer, manifests, pointers, rows, summary, status>>
          /\ faults' \in 0..MaxFaults
      BY <1>0, <1>2 DEF Acknowledge, TypeOK
    <2>5. accepted' \in [Folders -> SUBSET Attempts]
      BY <1>0, <1>2 DEF Acknowledge, TypeOK, Child
    <2>4. AtWork(f) /\ child[f].pc \in BeforeResult /\ {"notify"} \in SUBSET Neutral
      BY <1>2, <1>n DEF Acknowledge
    <2> QED
      BY <2>1, <2>2, <2>3, <2>4, <2>5, QuietWorks
  <1>3. CASE SubmitLate(f) \/ NotifyRaises(f) \/ PrepareRaises(f)
    <2>1. Goto(f, child[f], "failure") /\ AtWork(f)
      BY <1>3 DEF SubmitLate, NotifyRaises, PrepareRaises
    <2>2. Rest
      BY <1>0, <1>3, FaultRest DEF SubmitLate, NotifyRaises, PrepareRaises
    <2> QED
      BY <1>0, <1>n, <2>1, <2>2, QuietGoto
  <1>4. CASE Notify(f)
    <2>1. Goto(f, child[f], "probe") /\ AtWork(f) /\ child[f].pc \in BeforeResult
      BY <1>4 DEF Notify
    <2>2. Rest
      BY <1>0, <1>4, FaultRest DEF Notify
    <2> QED
      BY <1>0, <1>n, <2>1, <2>2, QuietGoto
  <1> QED
    BY <1>1, <1>2, <1>3, <1>4

LEMMA ProbeWorks ==
  ASSUME IInv, NEW f \in Folders,
         ProbeExpired(f) \/ ProbeDone(f) \/ ProbeRaises(f) \/ CredentialsExpire(f)
  PROVE  Works(f)
  <1> USE DEF AtWork, ChildEnd, BeforeResult
  <1>0. TypeOK /\ child[f] \in Child
    BY DEF IInv, TypeOK
  <1>1. {"bookkeep", "collect", "failure"} \subseteq Neutral
    BY DEF Neutral
  <1>2. AtWork(f) /\ child[f].pc \in BeforeResult
    BY DEF ProbeExpired, ProbeDone, ProbeRaises, CredentialsExpire
  <1>3. Rest
    BY <1>0, FaultRest DEF ProbeExpired, ProbeDone, ProbeRaises, CredentialsExpire
  <1>4. \/ \E ok \in BOOLEAN : Goto(f, [child[f] EXCEPT !.ok = ok], "collect")
        \/ \E pc \in {"bookkeep", "collect", "failure"} : Goto(f, child[f], pc)
    BY DEF ProbeExpired, ProbeDone, ProbeRaises, CredentialsExpire, RouteExpiry
  <1>5. CASE \E ok \in BOOLEAN : Goto(f, [child[f] EXCEPT !.ok = ok], "collect")
    <2>1. PICK ok \in BOOLEAN : Goto(f, [child[f] EXCEPT !.ok = ok], "collect")
      BY <1>5
    <2>2. /\ [child[f] EXCEPT !.ok = ok] \in Child
          /\ [child[f] EXCEPT !.ok = ok].attempt = child[f].attempt
      BY <1>0 DEF Child
    <2> QED
      BY <1>1, <1>2, <1>3, <2>1, <2>2, QuietGoto
  <1>6. CASE \E pc \in {"bookkeep", "collect", "failure"} : Goto(f, child[f], pc)
    BY <1>0, <1>1, <1>2, <1>3, <1>6, QuietGoto
  <1> QED
    BY <1>4, <1>5, <1>6

\* The Tasks that raise and are retried or caught.
LEMMA RaiseWorks ==
  ASSUME IInv, NEW f \in Folders,
         RetryRaises(f) \/ CollectRaises(f) \/ FailureRaises(f) \/ FailureReturns(f)
  PROVE  Works(f)
  <1> USE DEF AtWork, ChildEnd, BeforeResult
  <1>0. TypeOK /\ child[f] \in Child
    BY DEF IInv, TypeOK
  <1>1. {"bookkeep", "collect", "failure", "failed", "unreported"} \subseteq Neutral
    BY DEF Neutral
  <1>2. AtWork(f)
    BY DEF RetryRaises, CollectRaises, FailureRaises, FailureReturns, InRetry, InCollect, InFailure
  <1>3. Rest
    BY <1>0, FaultRest DEF RetryRaises, CollectRaises, FailureRaises, FailureReturns
  <1>4. CASE RetryRaises(f)
    BY <1>1, <1>2, <1>3, <1>4, QuietRaised DEF RetryRaises, InRetry
  <1>5. CASE CollectRaises(f)
    BY <1>1, <1>2, <1>3, <1>5, QuietRaised DEF CollectRaises, RaiseCollect
  <1>6. CASE FailureRaises(f)
    BY <1>1, <1>2, <1>3, <1>6, QuietRaised DEF FailureRaises, RaiseFailure
  <1>7. CASE FailureReturns(f)
    BY <1>0, <1>1, <1>2, <1>3, <1>7, QuietGoto DEF FailureReturns
  <1> QED
    BY <1>4, <1>5, <1>6, <1>7

\* The steps after which the attempt, the pointer or the result is another one.
LEMMA ResultWorks ==
  ASSUME IInv, NEW f \in Folders,
         Resubmit(f) \/ PublishPointer(f) \/ CollectReturns(f)
  PROVE  Works(f)
  <1> DEFINE c == child[f]
             d == child'[f]
  <1>0. TypeOK /\ FolderInv(f) /\ c \in Child /\ c.attempt \in Attempts /\ c.ok \in BOOLEAN
    BY DEF IInv, FoldersInv, TypeOK, Child
  <1>1. /\ child' \in [Folders -> Child]
        /\ \A g \in Folders : g # f => child'[g] = child[g]
        /\ d.ok = c.ok
        /\ \/ c.pc = "resubmit" /\ d.attempt = 1 /\ d.pc \in {"prepare", "stopped"}
           \/ c.pc = "publish" /\ d.attempt = c.attempt /\ d.pc = "record"
           \/ c.pc = "collected" /\ d.attempt = c.attempt /\ d.pc \in {"succeeded", "stopped"}
    <2>1. CASE Resubmit(f)
      <3> DEFINE next == [c EXCEPT !.attempt = 1]
      <3>1. next \in Child /\ next.attempt = 1 /\ next.ok = c.ok
        BY <1>0 DEF Child, Attempts
      <3>2. Moves(f, next.attempt, next.ok, {"prepare", "stopped"})
        BY <1>0, <2>1, <3>1, GotoMoves DEF Resubmit, ChildPc, InPrepare
      <3> QED
        BY <2>1, <3>1, <3>2 DEF Resubmit, Moves
    <2>2. CASE PublishPointer(f)
      <3> DEFINE next == [c EXCEPT !.pc = "record"]
      <3>1. next \in Child /\ next.attempt = c.attempt /\ next.ok = c.ok /\ next.pc = "record"
        BY <1>0 DEF Child, ChildPc, InCollect
      <3>2. Moves(f, next.attempt, next.ok, {next.pc})
        BY <1>0, <2>2, <3>1, SetMoves DEF PublishPointer
      <3> QED
        BY <2>2, <3>1, <3>2 DEF PublishPointer, Moves
    <2>3. CASE CollectReturns(f)
      <3>1. Moves(f, c.attempt, c.ok, {"succeeded", "stopped"})
        BY <1>0, <2>3, GotoMoves DEF CollectReturns, ChildPc, ChildEnd
      <3> QED
        BY <2>3, <3>1 DEF CollectReturns, Moves
    <2> QED
      BY <2>1, <2>2, <2>3
  <1>2. /\ UNCHANGED <<late, sfn, outer, engine, accepted, manifests, rows, summary, status, faults>>
        /\ pointers' = pointers \/ (c.pc = "publish" /\ c.ok /\ pointers' = pointers \cup {f})
    BY DEF Resubmit, PublishPointer, CollectReturns, store
  <1>3. TypeOK'
    BY <1>0, <1>1, <1>2 DEF TypeOK
  <1>4. FolderInv(f)'
    <2>1. Latest(f)' /\ TerminalRows(f)'
      BY <1>0, <1>2 DEF FolderInv, Latest, TerminalRows, SummaryOf
    <2>2. Decides(f)'
      BY <1>0, <1>2 DEF FolderInv, Decides, ManifestOf
    <2>3. ManifestOf(f)'
      BY <1>0, <1>1, <1>2 DEF FolderInv, ManifestOf
    <2>4. RowOf(f)'
      BY <1>0, <1>1, <1>2 DEF FolderInv, RowOf
    <2>5. RetryOf(f)'
      BY <1>0, <1>1, <1>2 DEF FolderInv, RetryOf, RetryEvidence
    <2>6. UnfinishedRows(f)'
      BY <1>0, <1>1, <1>2
      DEF FolderInv, UnfinishedRows, BeforeResult, ChildEnd, RetryOf, RetryEvidence
    <2> QED
      BY <2>1, <2>2, <2>3, <2>4, <2>5, <2>6 DEF FolderInv
  <1>5. \A g \in Folders : g # f => Same(g)
    BY <1>1, <1>2 DEF Same
  <1>6. Keeps(f)
    BY <1>0, <1>2 DEF Keeps, TypeOK, Summary, Attempts
  <1>7. AtWork(f) /\ d.pc # "idle"
    BY <1>1 DEF AtWork, ChildEnd
  <1> QED
    BY <1>2, <1>3, <1>4, <1>5, <1>6, <1>7 DEF Works

\* put_json_create_only: the manifest of this attempt, now or before.
LEMMA PutManifestFacts ==
  ASSUME TypeOK, NEW f \in Folders, NEW m \in Manifest, PutManifest(f, m)
  PROVE  /\ manifests' \in [Folders -> Manifest \cup {None}]
         /\ \A g \in Folders : g # f => manifests'[g] = manifests[g]
         /\ manifests[f] # None => manifests'[f] = manifests[f]
         /\ manifests'[f] # None /\ manifests'[f] \in Manifest
         /\ manifests'[f].attempt = m.attempt
  <1>1. manifests \in [Folders -> Manifest \cup {None}]
    BY DEF TypeOK
  <1>2. manifests' = [manifests EXCEPT ![f] = IF @ = None THEN m ELSE @]
        /\ (manifests[f] # None => manifests[f].attempt = m.attempt)
    BY DEF PutManifest, Commits
  <1>3. m # None
    BY FolderRunAssumption
  <1>4. manifests'[f] = IF manifests[f] = None THEN m ELSE manifests[f]
    BY <1>1, <1>2
  <1>5. manifests' \in [Folders -> Manifest \cup {None}]
    BY <1>1, <1>2
  <1> QED
    BY <1>1, <1>2, <1>3, <1>4, <1>5

\* Collect and WriteFailureManifest commit a manifest, or raise.
LEMMA ManifestWorks ==
  ASSUME IInv, NEW f \in Folders, CollectManifest(f) \/ FailureManifest(f)
  PROVE  Works(f)
  <1> DEFINE c == child[f]
             d == child'[f]
             m == IF c.pc = "collect"
                  THEN [exec |-> c.attempt, attempt |-> c.attempt, ok |-> c.ok]
                  ELSE [exec |-> 0, attempt |-> c.attempt, ok |-> FALSE]
  <1>0. TypeOK /\ FolderInv(f) /\ c \in Child /\ c.attempt \in Attempts /\ c.ok \in BOOLEAN
    BY DEF IInv, FoldersInv, TypeOK, Child
  <1>1. m \in Manifest /\ m.attempt = c.attempt
    BY <1>0 DEF Manifest, Attempts
  <1>2. /\ c.pc \in {"collect", "failure"} /\ AtWork(f)
        /\ UNCHANGED <<late, sfn, outer, engine, accepted, pointers, rows, summary, status, faults>>
    BY DEF CollectManifest, FailureManifest, AtWork, ChildEnd
  <1>3. CASE UNCHANGED manifests /\ (RaiseCollect(f) \/ RaiseFailure(f))
    <2>1. {"collect", "failure", "unreported"} \subseteq Neutral /\ "failure" \notin BeforeResult
          /\ "collect" \notin BeforeResult /\ "unreported" \notin BeforeResult
      BY DEF Neutral, BeforeResult
    <2>2. Rest
      BY <1>0, <1>2, <1>3, FaultRest DEF store
    <2> QED
      BY <1>2, <1>3, <2>1, <2>2, QuietRaised DEF RaiseCollect, RaiseFailure
  <1>4. CASE /\ PutManifest(f, m)
             /\ \/ /\ c.pc = "collect"
                   /\ SetChild(f, [c EXCEPT !.ok = manifests'[f].ok, !.pc = "publish"])
                \/ c.pc = "failure" /\ SetChild(f, [c EXCEPT !.pc = "report"])
    <2>1. /\ manifests' \in [Folders -> Manifest \cup {None}]
          /\ \A g \in Folders : g # f => manifests'[g] = manifests[g]
          /\ manifests[f] # None => manifests'[f] = manifests[f]
          /\ manifests'[f] # None /\ manifests'[f] \in Manifest
          /\ manifests'[f].attempt = c.attempt
      BY <1>0, <1>1, <1>4, PutManifestFacts
    <2>2. /\ child' \in [Folders -> Child]
          /\ \A g \in Folders : g # f => child'[g] = child[g]
          /\ d.attempt = c.attempt
          /\ \/ d.pc = "publish" /\ d.ok = manifests'[f].ok
             \/ d.pc = "report"
      <3>0. manifests'[f].ok \in BOOLEAN
        BY <2>1 DEF Manifest
      <3>1. CASE SetChild(f, [c EXCEPT !.ok = manifests'[f].ok, !.pc = "publish"])
        <4> DEFINE next == [c EXCEPT !.ok = manifests'[f].ok, !.pc = "publish"]
        <4>1. /\ next \in Child /\ next.attempt = c.attempt
              /\ next.ok = manifests'[f].ok /\ next.pc = "publish"
          BY <1>0, <3>0 DEF Child, ChildPc, InCollect
        <4>2. Moves(f, next.attempt, next.ok, {next.pc})
          BY <1>0, <3>1, <4>1, SetMoves
        <4> QED
          BY <4>1, <4>2 DEF Moves
      <3>2. CASE SetChild(f, [c EXCEPT !.pc = "report"])
        <4> DEFINE next == [c EXCEPT !.pc = "report"]
        <4>1. next \in Child /\ next.attempt = c.attempt /\ next.pc = "report"
          BY <1>0 DEF Child, ChildPc, InFailure
        <4>2. Moves(f, next.attempt, next.ok, {next.pc})
          BY <1>0, <3>2, <4>1, SetMoves
        <4> QED
          BY <4>1, <4>2 DEF Moves
      <3> QED
        BY <1>4, <3>1, <3>2
    <2>3. TypeOK'
      BY <1>0, <1>2, <2>1, <2>2 DEF TypeOK
    <2>4. FolderInv(f)'
      <3>1. Latest(f)' /\ TerminalRows(f)'
        BY <1>0, <1>2 DEF FolderInv, Latest, TerminalRows, SummaryOf
      <3>2. Decides(f)'
        BY <1>0, <1>2, <2>1 DEF FolderInv, Decides
      <3>3. ManifestOf(f)'
        BY <2>1, <2>2 DEF ManifestOf
      <3>4. RowOf(f)'
        BY <2>2 DEF RowOf
      <3>5. RetryOf(f)'
        BY <1>0, <1>2, <2>2 DEF FolderInv, RetryOf, RetryEvidence
      <3>6. UnfinishedRows(f)'
        BY <1>0, <1>2, <2>2 DEF FolderInv, UnfinishedRows, BeforeResult, AtWork
      <3> QED
        BY <3>1, <3>2, <3>3, <3>4, <3>5, <3>6 DEF FolderInv
    <2>5. \A g \in Folders : g # f => Same(g)
      BY <1>2, <2>1, <2>2 DEF Same
    <2>6. Keeps(f)
      BY <1>0, <1>2, <2>1 DEF Keeps, TypeOK, Summary, Attempts
    <2> QED
      BY <1>2, <2>2, <2>3, <2>4, <2>5, <2>6 DEF Works
  <1> QED
    BY <1>3, <1>4 DEF CollectManifest, FailureManifest

-----------------------------------------------------------------------------
(* Steps that write a row.                                                 *)

\* A row that is written first, and of attempt 0, is the only one.
LEMMA FirstRow ==
  ASSUME TypeOK, NEW f \in Folders, NEW a \in Attempts, NEW row \in Row, Latest(f),
         rows[f][a] = None, Newer(f, a, row)
  PROVE  \/ summary[f] = None /\ \A b \in Attempts : rows[f][b] = None
         \/ a = 1 /\ summary[f] # None /\ summary[f].attempt = 0 /\ rows[f][0] # None
  <1>1. CASE summary[f] = None
    BY <1>1 DEF Latest
  <1>2. CASE summary[f] # None
    <2>1. summary[f].attempt \in Attempts
      BY <1>2 DEF TypeOK, Summary
    <2>2. rows[f][summary[f].attempt] # None
      BY <1>2 DEF Latest
    <2>3. a > summary[f].attempt
      BY <1>2, <2>1, <2>2 DEF Newer
    <2> QED
      BY <1>2, <2>1, <2>2, <2>3 DEF Attempts
  <1> QED
    BY <1>1, <1>2

\* What put_folder_attempt makes of the rows of a folder.  Attempt 1 must not add to a
\* summary that cites a manifest already.
LEMMA PutInv ==
  ASSUME TypeOK, NEW f \in Folders, NEW a \in Attempts, NEW row \in Row,
         PutAttempt(f, a, row), Latest(f), TerminalRows(f), Terminal(row.status),
         a = 1 /\ rows[f][0] # None => ~rows[f][0].manifest
  PROVE  /\ Latest(f)' /\ TerminalRows(f)'
         /\ \A b \in Attempts : rows[f][b] # None => rows'[f][b] = rows[f][b]
         /\ summary[f] # None => summary'[f].attempt >= summary[f].attempt
         /\ summary'[f] # None
         /\ rows'[f][a] # None
         /\ rows[f][a] = None => rows'[f][a] = row
         /\ rows[f][a] # None => Replays(rows[f][a], row)
  <1>0. /\ rows \in [Folders -> [Attempts -> Row \cup {None}]]
        /\ summary \in [Folders -> Summary \cup {None}]
        /\ None \notin Row /\ None \notin Summary
    BY FolderRunAssumption DEF TypeOK
  <1>1. CASE rows[f][a] # None
    <2>1. UNCHANGED <<rows, summary>> /\ Replays(rows[f][a], row)
      BY <1>1, PutFacts
    <2>2. summary[f] # None => summary[f].attempt \in Nat
      BY <1>0 DEF Summary, Attempts
    <2>3. summary[f] # None
      BY <1>1 DEF Latest
    <2> QED
      BY <1>1, <2>1, <2>2, <2>3 DEF Latest, TerminalRows, SummaryOf
  <1>2. CASE rows[f][a] = None
    <2>1. /\ Newer(f, a, row)
          /\ rows'[f][a] = row
          /\ \A b \in Attempts : b # a => rows'[f][b] = rows[f][b]
          /\ summary'[f] = SummaryOf(summary[f], a, row)
      BY <1>2, PutFacts
    <2>2. row # None /\ SummaryOf(summary[f], a, row) # None
      BY <1>0, SummaryShape
    <2>3. \/ summary[f] = None /\ \A b \in Attempts : rows[f][b] = None
          \/ a = 1 /\ summary[f] # None /\ summary[f].attempt = 0 /\ rows[f][0] # None
      BY <1>2, <2>1, FirstRow
    <2>4. SummaryOf(summary[f], a, row) = SummaryOf(None, a, row)
      <3>1. CASE summary[f] = None
        BY <3>1
      <3>2. CASE summary[f] # None
        <4>1. summary[f] = SummaryOf(None, 0, rows[f][0]) /\ ~rows[f][0].manifest
          BY <2>3, <3>2 DEF Latest
        <4>a. SummaryOf(None, 0, rows[f][0]).manifest
              = (rows[f][0].manifest \/ (None # None /\ None.manifest))
          BY DEF SummaryOf
        <4>2. ~summary[f].manifest
          BY <4>1, <4>a, Zenon
        <4> QED
          BY <4>2 DEF SummaryOf
      <3> QED
        BY <3>1, <3>2
    <2>5. summary'[f].attempt = a
      BY <2>1 DEF SummaryOf
    <2>6. \A b \in Attempts : b > a => rows'[f][b] = None
      BY <2>1, <2>3 DEF Attempts
    <2>7. Latest(f)'
      BY <2>1, <2>2, <2>4, <2>5, <2>6 DEF Latest, SummaryOf
    <2>8. TerminalRows(f)'
      BY <2>1 DEF TerminalRows
    <2>9. summary[f] # None => summary'[f].attempt >= summary[f].attempt
      BY <2>3, <2>5
    <2> QED
      BY <1>2, <2>1, <2>2, <2>7, <2>8, <2>9
  <1> QED
    BY <1>1, <1>2

\* What the three Tasks write of their folder, and where they go then.
WritesRow(f, a, row, pc) ==
  LET c == child[f] IN
  \/ c.pc = "bookkeep" /\ pc = "resubmit" /\ a = 0 /\ row = RetryRow
  \/ /\ c.pc = "record" /\ pc = "collected" /\ a = c.attempt
     /\ row = [exec |-> c.attempt, status |-> Verdict(c.ok), step |-> Step[f], manifest |-> TRUE]
  \/ c.pc = "report" /\ pc = "reported" /\ a = c.attempt /\ row = FailureRow(f)

LEMMA WrittenRow ==
  ASSUME TypeOK, NEW f \in Folders, FolderInv(f), NEW a, NEW row, NEW pc,
         WritesRow(f, a, row, pc)
  PROVE  /\ a \in Attempts /\ row \in Row /\ pc \in ChildPc /\ AtWork(f)
         /\ row.status \in {"succeeded", "failed"} /\ Terminal(row.status)
         /\ row.manifest => /\ manifests[f] # None /\ manifests[f].attempt = a
                            /\ row.status = Verdict(manifests[f].ok)
         /\ a = 1 => child[f].attempt = 1
  <1>0. child[f] \in Child /\ child[f].attempt \in Attempts /\ child[f].ok \in BOOLEAN
    BY DEF TypeOK, Child
  <1>s. Step[f] \in Nat \ {0} /\ 1 \in Nat \ {0} /\ 0 \in Attempts
    BY FolderRunAssumption DEF Attempts
  <1>t. Terminal("succeeded") /\ Terminal("failed")
    BY RankOf
  <1>1. CASE child[f].pc = "bookkeep" /\ pc = "resubmit" /\ a = 0 /\ row = RetryRow
    BY <1>0, <1>s, <1>t, <1>1
    DEF RetryRow, Row, Statuses, ChildPc, InRetry, AtWork, ChildEnd
  <1>2. CASE /\ child[f].pc = "record" /\ pc = "collected" /\ a = child[f].attempt
             /\ row = [exec |-> child[f].attempt, status |-> Verdict(child[f].ok),
                       step |-> Step[f], manifest |-> TRUE]
    <2>1. /\ manifests[f] # None /\ manifests[f].attempt = a /\ manifests[f].ok = child[f].ok
      BY <1>2 DEF FolderInv, ManifestOf
    <2>2. Verdict(child[f].ok) \in {"succeeded", "failed"} /\ Verdict(child[f].ok) \in Statuses
      BY <1>0, VerdictStatus
    <2> QED
      BY <1>0, <1>s, <1>t, <1>2, <2>1, <2>2 DEF Row, ChildPc, InCollect, AtWork, ChildEnd
  <1>3. CASE child[f].pc = "report" /\ pc = "reported" /\ a = child[f].attempt /\ row = FailureRow(f)
    <2>1. manifests[f] # None /\ manifests[f].attempt = a
      BY <1>3 DEF FolderInv, ManifestOf
    <2>2. manifests[f].ok \in BOOLEAN
      BY <2>1 DEF TypeOK, Manifest
    <2>3. Verdict(manifests[f].ok) \in {"succeeded", "failed"} /\ Verdict(manifests[f].ok) \in Statuses
      BY <2>2, VerdictStatus
    <2> QED
      BY <1>0, <1>s, <1>t, <1>3, <2>1, <2>3
      DEF FailureRow, Row, ChildPc, InFailure, AtWork, ChildEnd
  <1> QED
    BY <1>1, <1>2, <1>3 DEF WritesRow

\* An inner execution at work writes its row.
LEMMA RowWorks ==
  ASSUME IInv, NEW f \in Folders, NEW a, NEW row, NEW pc,
         WritesRow(f, a, row, pc), PutAttempt(f, a, row),
         Moves(f, child[f].attempt, child[f].ok, {pc}),
         UNCHANGED <<late, sfn, outer, engine, accepted, manifests, pointers, status, faults>>
  PROVE  Works(f)
  <1> DEFINE c == child[f]
             d == child'[f]
  <1>0. TypeOK /\ FolderInv(f) /\ c \in Child /\ c.attempt \in Attempts /\ c.ok \in BOOLEAN
    BY DEF IInv, FoldersInv, TypeOK, Child
  <1>1. /\ a \in Attempts /\ row \in Row /\ pc \in ChildPc /\ AtWork(f)
        /\ row.status \in {"succeeded", "failed"} /\ Terminal(row.status)
        /\ row.manifest => /\ manifests[f] # None /\ manifests[f].attempt = a
                           /\ row.status = Verdict(manifests[f].ok)
        /\ a = 1 => c.attempt = 1
    BY <1>0, WrittenRow
  <1>2. d.attempt = c.attempt /\ d.ok = c.ok /\ d.pc = pc
        /\ child' \in [Folders -> Child] /\ \A g \in Folders : g # f => child'[g] = child[g]
    BY DEF Moves
  <1>3. a = 1 /\ rows[f][0] # None => ~rows[f][0].manifest
    BY <1>0, <1>1 DEF FolderInv, RetryOf, RetryEvidence
  <1>4. /\ Latest(f)' /\ TerminalRows(f)'
        /\ \A b \in Attempts : rows[f][b] # None => rows'[f][b] = rows[f][b]
        /\ summary[f] # None => summary'[f].attempt >= summary[f].attempt
        /\ summary'[f] # None
        /\ rows'[f][a] # None
        /\ rows[f][a] = None => rows'[f][a] = row
        /\ rows[f][a] # None => Replays(rows[f][a], row)
    BY <1>0, <1>1, <1>3, PutInv DEF FolderInv
  <1>5. /\ rows' \in [Folders -> [Attempts -> Row \cup {None}]]
        /\ summary' \in [Folders -> Summary \cup {None}]
        /\ \A g \in Folders : g # f => rows'[g] = rows[g] /\ summary'[g] = summary[g]
        /\ \A b \in Attempts : b # a => rows'[f][b] = rows[f][b]
    BY <1>0, <1>1, PutFacts
  <1>6. TypeOK'
    BY <1>0, <1>2, <1>5 DEF TypeOK
  \* A replay says the same as well.
  <1>7. rows'[f][a].status = row.status
    <2>1. CASE rows[f][a] = None
      BY <1>4, <2>1
    <2>2. CASE rows[f][a] # None
      <3>1. rows[f][a].status \in {"succeeded", "failed"}
        BY <1>0, <1>1, <2>2 DEF FolderInv, UnfinishedRows, AtWork
      <3>2. Rank(rows[f][a].status) = Rank(row.status)
        BY <1>4, <2>2 DEF Replays
      <3>3. rows[f][a].status = row.status
        BY <1>1, <3>1, <3>2 DEF Rank
      <3> QED
        BY <1>1, <1>4, <2>2, <3>3
    <2> QED
      BY <2>1, <2>2
  <1>8. Decides(f)'
    BY <1>0, <1>1, <1>4, <1>5 DEF FolderInv, Decides
  <1>9. ManifestOf(f)'
    BY <1>0, <1>2 DEF FolderInv, ManifestOf, WritesRow
  <1>10. rows'[f][1] # None => d.attempt = 1
    BY <1>0, <1>1, <1>2, <1>5 DEF FolderInv, RetryOf, Attempts
  <1>11. RowOf(f)'
    <2>1. CASE pc # "collected"
      BY <1>2, <2>1 DEF RowOf, WritesRow
    <2>2. CASE pc = "collected"
      <3>1. a = c.attempt /\ row.status = Verdict(c.ok)
        BY <2>2 DEF WritesRow
      <3>2. summary'[f].attempt \in Attempts /\ rows'[f][summary'[f].attempt] # None
            /\ \A b \in Attempts : b > summary'[f].attempt => rows'[f][b] = None
        BY <1>4, <1>5 DEF Latest, Summary
      <3>3. summary'[f].attempt = c.attempt
        BY <1>0, <1>2, <1>4, <1>10, <3>1, <3>2 DEF Attempts
      <3> QED
        BY <1>2, <1>4, <1>7, <3>1, <3>3 DEF RowOf
    <2> QED
      BY <2>1, <2>2
  <1>12. pc = "resubmit" => RetryEvidence(f)'
    <2> SUFFICES ASSUME pc = "resubmit" PROVE RetryEvidence(f)'
      OBVIOUS
    <2>1. a = 0 /\ row = RetryRow /\ c.pc = "bookkeep"
      BY DEF WritesRow
    <2>2. rows'[f][0].status = "failed" /\ ~row.manifest
      BY <1>7, <2>1 DEF RetryRow
    <2>3. rows[f][0] # None => ~rows[f][0].manifest
      BY <1>0, <2>1 DEF FolderInv, UnfinishedRows, BeforeResult
    <2> QED
      BY <1>1, <1>4, <2>1, <2>2, <2>3 DEF RetryEvidence
  <1>13. RetryOf(f)'
    <2>1. c.attempt = 1 => RetryEvidence(f)'
      BY <1>0, <1>4 DEF FolderInv, RetryOf, RetryEvidence, Attempts
    <2> QED
      BY <1>0, <1>2, <1>10, <1>12, <2>1 DEF FolderInv, RetryOf
  <1>14. UnfinishedRows(f)'
    <2>1. d.pc \in BeforeResult => RetryEvidence(f)'
      BY <1>2, <1>12 DEF WritesRow, BeforeResult
    <2>2. \A b \in Attempts : rows'[f][b] # None => rows'[f][b].status \in {"succeeded", "failed"}
      BY <1>0, <1>1, <1>5, <1>7 DEF FolderInv, UnfinishedRows, AtWork
    <2> QED
      BY <2>1, <2>2 DEF UnfinishedRows, RetryEvidence
  <1>15. FolderInv(f)'
    BY <1>4, <1>8, <1>9, <1>11, <1>13, <1>14 DEF FolderInv
  <1>16. Keeps(f)
    BY <1>4 DEF Keeps
  <1>17. \A g \in Folders : g # f => Same(g)
    BY <1>2, <1>5 DEF Same
  <1>18. d.pc # "idle"
    BY <1>2 DEF WritesRow
  <1> QED
    BY <1>1, <1>6, <1>15, <1>16, <1>17, <1>18 DEF Works

LEMMA RecordWorks ==
  ASSUME IInv, NEW f \in Folders, PersistRetry(f) \/ CollectRow(f) \/ ReportFailure(f)
  PROVE  Works(f)
  <1> DEFINE c == child[f]
  <1>0. TypeOK /\ FolderInv(f) /\ c \in Child
    BY DEF IInv, FoldersInv, TypeOK
  <1>1. AtWork(f) /\ c.pc \in {"bookkeep", "record", "report"}
        /\ UNCHANGED <<late, sfn, outer, engine, accepted, manifests, pointers, status, faults>>
    BY DEF PersistRetry, CollectRow, ReportFailure, AtWork, ChildEnd
  <1>2. CASE /\ UNCHANGED <<rows, summary>>
             /\ \/ c.pc = "bookkeep" /\ Raised(f, c, "bookkeep", "unreported")
                \/ RaiseCollect(f) \/ RaiseFailure(f)
    <2>1. {"bookkeep", "collect", "failure", "unreported"} \subseteq Neutral
          /\ \A pc \in {"collect", "failure", "unreported"} : pc \notin BeforeResult
          /\ "bookkeep" \in BeforeResult
      BY DEF Neutral, BeforeResult
    <2>2. Rest
      BY <1>0, <1>1, <1>2, FaultRest DEF store
    <2>3. CASE c.pc = "bookkeep" /\ Raised(f, c, "bookkeep", "unreported")
      BY <1>1, <2>1, <2>2, <2>3, QuietRaised
    <2>4. CASE RaiseCollect(f) \/ RaiseFailure(f)
      BY <1>1, <2>1, <2>2, <2>4, QuietRaised DEF RaiseCollect, RaiseFailure
    <2> QED
      BY <1>2, <2>3, <2>4
  <1>3. CASE \E a, row, pc : /\ WritesRow(f, a, row, pc) /\ PutAttempt(f, a, row)
                             /\ SetChild(f, [c EXCEPT !.pc = pc])
    <2>1. PICK a, row, pc : /\ WritesRow(f, a, row, pc) /\ PutAttempt(f, a, row)
                            /\ SetChild(f, [c EXCEPT !.pc = pc])
      BY <1>3
    <2> DEFINE next == [c EXCEPT !.pc = pc]
    <2>2. pc \in ChildPc
      BY <1>0, <2>1, WrittenRow
    <2>3. next \in Child /\ next.attempt = c.attempt /\ next.ok = c.ok /\ next.pc = pc
      BY <1>0, <2>2 DEF Child
    <2>4. Moves(f, c.attempt, c.ok, {pc})
      BY <1>0, <2>1, <2>3, SetMoves
    <2> QED
      BY <1>1, <2>1, <2>4, RowWorks
  <1>4. CASE PersistRetry(f)
    <2>1. CASE PutAttempt(f, 0, RetryRow) /\ SetChild(f, [c EXCEPT !.pc = "resubmit"])
      <3>1. WritesRow(f, 0, RetryRow, "resubmit")
        BY <1>4 DEF PersistRetry, WritesRow
      <3> QED
        BY <1>3, <2>1, <3>1
    <2> QED
      BY <1>2, <1>4, <2>1 DEF PersistRetry
  <1>5. CASE CollectRow(f)
    <2> DEFINE row == [exec |-> c.attempt, status |-> Verdict(c.ok), step |-> Step[f],
                       manifest |-> TRUE]
    <2>1. CASE PutAttempt(f, c.attempt, row) /\ SetChild(f, [c EXCEPT !.pc = "collected"])
      <3>1. WritesRow(f, c.attempt, row, "collected")
        BY <1>5 DEF CollectRow, WritesRow
      <3> QED
        BY <1>3, <2>1, <3>1
    <2> QED
      BY <1>2, <1>5, <2>1 DEF CollectRow
  <1>6. CASE ReportFailure(f)
    <2>1. CASE PutAttempt(f, c.attempt, FailureRow(f)) /\ SetChild(f, [c EXCEPT !.pc = "reported"])
      <3>1. WritesRow(f, c.attempt, FailureRow(f), "reported")
        BY <1>6 DEF ReportFailure, WritesRow
      <3> QED
        BY <1>3, <2>1, <3>1
    <2> QED
      BY <1>2, <1>6, <2>1 DEF ReportFailure
  <1> QED
    BY <1>4, <1>5, <1>6

\* Every step of an inner execution.
LEMMA ChildWorks ==
  ASSUME IInv, NEW f \in Folders, ChildStep(f) \/ ChildError(f)
  PROVE  Works(f)
  BY PrepareWorks, ProbeWorks, RaiseWorks, ResultWorks, ManifestWorks, RecordWorks
  DEF ChildStep, ChildError

-----------------------------------------------------------------------------
(* Steps of the outer execution.                                           *)

\* What a step does to records: nothing that RecordsAreFinal forbids.
Kept == (\A f \in Folders : Keeps(f)) /\ (Terminal(status) => status' = status)

LEMMA OuterFields ==
  ASSUME TypeOK
  PROVE  /\ outer.pc \in OuterPc /\ outer.step \in Nat /\ outer.todo \in SUBSET Folders
         /\ outer.cur \in Folders \cup {None}
         /\ outer.outcomes \in [Folders -> Outcome \cup {None}]
         /\ outer.skipped \in SUBSET Folders /\ outer.incomplete \in BOOLEAN
  BY DEF TypeOK, Outer

\* A folder that did well has a summary that says so.
LEMMA DoneSays ==
  ASSUME NEW f \in Folders, FolderInv(f), DoneWell(f)
  PROVE  Says(summary[f], "succeeded")
  <1>1. /\ summary[f] # None /\ summary[f].attempt = child[f].attempt
        /\ rows[f][child[f].attempt].status = "succeeded"
    BY DEF FolderInv, RowOf, DoneWell, Verdict
  <1>2. summary[f] = SummaryOf(None, child[f].attempt, rows[f][child[f].attempt])
    BY <1>1 DEF FolderInv, Latest
  <1> QED
    BY <1>1, <1>2 DEF Says, SummaryOf

\* update_run_status leaves a terminal status alone.
LEMMA StatusFacts ==
  ASSUME TypeOK, NEW new \in Statuses, SetStatus(new)
  PROVE  /\ status' \in Statuses
         /\ Terminal(status) => status' = status
         /\ status' = status \/ (status' = new /\ MayBecome(status, new))
  BY TerminalIsFinal DEF SetStatus, TypeOK

\* The folders and their rows are left alone.
LEMMA FoldersAlone ==
  ASSUME IInv, UNCHANGED <<child, engine, manifests, pointers, rows, summary>>
  PROVE  /\ FoldersInv' /\ LaterStepsWait'
         /\ \A f \in Folders : Keeps(f)
  <1>1. \A f \in Folders : Same(f)
    BY DEF Same
  <1>2. FoldersInv'
    BY <1>1, SameInv DEF IInv, FoldersInv
  <1>3. \A f \in Folders : Keeps(f)
    BY <1>1, SameKeeps DEF IInv
  <1>4. LaterStepsWait'
    BY DEF IInv, OuterInv, LaterStepsWait, Says
  <1> QED
    BY <1>2, <1>3, <1>4

\* The outer execution, or the Lambda it runs, goes to FinalizeRun or ends.
LEMMA GivesUp ==
  ASSUME IInv, outer' \in {Finalizing, [outer EXCEPT !.pc = "off"]},
         sfn' \in {"running", "succeeded", "failed", "unfinalized", "aborted"},
         sfn' = "failed" => \A f \in Folders : summary[f] # None,
         faults' \in 0..MaxFaults, UNCHANGED <<late, child, engine, store>>
  PROVE  IInv' /\ Kept
  <1> USE DEF store
  <1>0. TypeOK
    BY DEF IInv
  <1>1. /\ outer' \in Outer /\ outer'.pc \in {"final", "off"}
        /\ outer'.outcomes = outer.outcomes
        /\ outer'.pc = "final" => outer'.todo = Folders
    BY <1>0 DEF TypeOK, Outer, OuterPc, Finalizing
  <1>2. TypeOK'
    BY <1>0, <1>1 DEF TypeOK
  <1>3. FoldersInv' /\ LaterStepsWait' /\ \A f \in Folders : Keeps(f)
    BY FoldersAlone
  <1>4. MapInv' /\ RenderInv'
    BY <1>1 DEF MapInv, RenderInv
  <1>5. OutcomeInv'
    BY <1>1 DEF IInv, OuterInv, OutcomeInv, OutcomeOf
  <1>6. FinalInv'
    BY <1>1 DEF FinalInv
  <1>7. StatusInv'
    BY DEF IInv, OuterInv, StatusInv, DoneWell
  <1> QED
    BY <1>2, <1>3, <1>4, <1>5, <1>6, <1>7 DEF IInv, OuterInv, Kept

\* Time passes, the engine answers, EventBridge and Step Functions do their part.
LEMMA EnvironmentInv ==
  ASSUME IInv,
         \/ DeadlinePasses \/ MarkRunning \/ EventFinalizer \/ Abort
         \/ \E f \in Folders, a \in Attempts : EngineDone(f, a)
  PROVE  IInv' /\ Kept
  <1>0. TypeOK
    BY DEF IInv
  <1>1. /\ UNCHANGED <<outer, child, accepted, manifests, pointers, rows, summary>>
        /\ sfn' = "failed" => sfn = "failed"
        /\ sfn' \in {"running", "succeeded", "failed", "unfinalized", "aborted"}
        /\ late' \in BOOLEAN
    BY <1>0 DEF DeadlinePasses, MarkRunning, EventFinalizer, Abort, EngineDone, store, TypeOK
  <1>2. faults' \in 0..MaxFaults
    BY <1>0, FaultBound DEF DeadlinePasses, MarkRunning, EventFinalizer, Abort, EngineDone, TypeOK
  <1>3. /\ status' \in Statuses
        /\ Terminal(status) => status' = status
        /\ status' = "succeeded" => status = "succeeded"
    <2>1. CASE MarkRunning \/ EventFinalizer
      <3>1. \E new \in {"running", "failed"} : SetStatus(new)
        BY <2>1 DEF MarkRunning, EventFinalizer
      <3>2. {"running", "failed"} \subseteq Statuses
        BY DEF Statuses
      <3> QED
        BY <1>0, <3>1, <3>2, StatusFacts
    <2>2. CASE UNCHANGED status
      BY <1>0, <2>2 DEF TypeOK
    <2> QED
      BY <2>1, <2>2 DEF DeadlinePasses, Abort, EngineDone, store
  <1>4. /\ engine' \in [Folders -> [Attempts -> Engine]]
        /\ \A g \in Folders : engine'[g][1] # "none" => engine[g][1] # "none"
    <2>1. CASE UNCHANGED engine
      BY <1>0, <2>1 DEF TypeOK
    <2>2. CASE \E f \in Folders, a \in Attempts : EngineDone(f, a)
      <3>1. PICK f \in Folders, a \in Attempts : EngineDone(f, a)
        BY <2>2
      <3>2. PICK result \in {"complete", "failed", "expired"} :
              engine' = [engine EXCEPT ![f][a] = result]
        BY <3>1 DEF EngineDone
      <3>3. engine[f][a] = "running"
        BY <3>1 DEF EngineDone
      <3>4. result \in Engine /\ engine \in [Folders -> [Attempts -> Engine]]
        BY <1>0 DEF TypeOK, Engine
      <3>5. engine' \in [Folders -> [Attempts -> Engine]]
        BY <3>2, <3>4
      <3>6. \A g \in Folders : engine'[g][1] # "none" => engine[g][1] # "none"
        BY <3>2, <3>3, <3>4 DEF Attempts
      <3> QED
        BY <3>5, <3>6
    <2> QED
      BY <2>1, <2>2 DEF DeadlinePasses, MarkRunning, EventFinalizer, Abort
  <1>5. TypeOK'
    BY <1>0, <1>1, <1>2, <1>3, <1>4 DEF TypeOK
  <1>6. \A f \in Folders : Same(f)
    BY <1>1, <1>4 DEF Same
  <1>7. FoldersInv' /\ \A f \in Folders : Keeps(f)
    BY <1>0, <1>6, SameInv, SameKeeps DEF IInv, FoldersInv
  <1>8. MapInv' /\ OutcomeInv' /\ RenderInv'
    BY <1>1 DEF IInv, OuterInv, MapInv, OutcomeInv, OutcomeOf, RenderInv, DoneWell
  <1>9. FinalInv'
    BY <1>1 DEF IInv, OuterInv, FinalInv
  <1>10. StatusInv' /\ LaterStepsWait'
    BY <1>1, <1>3 DEF IInv, OuterInv, StatusInv, DoneWell, LaterStepsWait, Says
  <1> QED
    BY <1>3, <1>5, <1>7, <1>8, <1>9, <1>10 DEF IInv, OuterInv, Kept

LEMMA OutcomeShape ==
  ASSUME NEW c \in Child
  PROVE  /\ OutcomeOf(c) \in Outcome /\ OutcomeOf(c) # None
         /\ c.pc \in {"succeeded", "failed", "unreported"} /\ ~Failed(OutcomeOf(c)) =>
              c.pc = "succeeded" /\ c.ok
  <1>1. c.ok \in BOOLEAN /\ c.attempt \in Attempts
    BY DEF Child
  <1>2. OutcomeOf(c) \in Outcome
    BY <1>1, VerdictStatus DEF OutcomeOf, Outcome, Attempts, Statuses
  <1>3. ~Failed(OutcomeOf(c)) => c.pc = "succeeded" /\ c.ok
    BY <1>1 DEF OutcomeOf, Failed, Verdict
  <1> QED
    BY <1>2, <1>3, FolderRunAssumption

\* The outcomes after a step are those of the finished executions.
LEMMA CollectedFacts ==
  ASSUME IInv, StepOver
  PROVE  /\ Collected \in Outer
         /\ Collected = [outer EXCEPT !.outcomes = Collected.outcomes]
         /\ \A f \in Folders :
              Collected.outcomes[f] = IF Step[f] = outer.step THEN OutcomeOf(child[f])
                                      ELSE outer.outcomes[f]
         /\ \A f \in Folders : Step[f] <= outer.step => Collected.outcomes[f] # None
         /\ \A f \in Folders : Collected.outcomes[f] # None =>
              /\ child[f].pc \in {"succeeded", "failed", "unreported"}
              /\ Collected.outcomes[f] = OutcomeOf(child[f])
  <1> DEFINE outs == [f \in Folders |-> IF Step[f] = outer.step THEN OutcomeOf(child[f])
                                        ELSE outer.outcomes[f]]
  <1>0. TypeOK /\ \A f \in Folders : child[f] \in Child
    BY DEF IInv, TypeOK
  <1>1. outs \in [Folders -> Outcome \cup {None}]
    BY <1>0, OutcomeShape, OuterFields
  <1>2. Collected = [outer EXCEPT !.outcomes = outs]
    BY DEF Collected
  <1>3. Collected \in Outer /\ Collected.outcomes = outs
    BY <1>0, <1>1, <1>2 DEF TypeOK, Outer
  <1>4. \A f \in Folders : Step[f] <= outer.step => outs[f] # None
    <2>1. \A f \in Folders : Step[f] < outer.step => outer.outcomes[f] # None
      BY DEF IInv, OuterInv, MapInv, StepOver
    <2>2. \A f \in Folders : Step[f] \in Nat
      BY FolderRunAssumption
    <2> QED
      BY <1>0, <2>1, <2>2, OutcomeShape, OuterFields
  <1>5. \A f \in Folders : outs[f] # None =>
          /\ child[f].pc \in {"succeeded", "failed", "unreported"}
          /\ outs[f] = OutcomeOf(child[f])
    BY DEF StepOver, StepFolders, IInv, OuterInv, OutcomeInv
  <1> QED
    BY <1>2, <1>3, <1>4, <1>5

\* AdvanceOrStop starts the next step only where every execution succeeded well.
LEMMA AdvanceInv ==
  ASSUME IInv, Advance
  PROVE  IInv' /\ Kept
  <1>0. TypeOK /\ StepOver /\ ~StepFailed /\ outer.pc = "map" /\ sfn = "running"
        /\ UNCHANGED <<late, sfn, engine, accepted, manifests, pointers, rows, summary, status, faults>>
    BY DEF Advance, StepOver, IInv, store
  <1>1. PICK k \in LaterSteps :
          /\ \A l \in LaterSteps : k <= l
          /\ SetOuter([Collected EXCEPT !.step = k])
          /\ child' = [f \in Folders |-> IF Step[f] = k THEN Started(f, k) ELSE child[f]]
    BY DEF Advance
  <1>s. outer.step \in Nat /\ \A f \in Folders : Step[f] \in Nat /\ child[f] \in Child
    BY <1>0, FolderRunAssumption, OuterFields DEF TypeOK
  <1>2. /\ k \in Nat /\ k > outer.step
        /\ \A f \in Folders : Step[f] < k => Step[f] <= outer.step
    BY <1>1, <1>s DEF LaterSteps, Steps
  <1>3. /\ outer' \in Outer /\ outer'.pc = "map" /\ outer'.step = k
        /\ outer'.outcomes = Collected.outcomes
        /\ outer'.incomplete = outer.incomplete
    BY <1>0, <1>1, <1>2, CollectedFacts DEF SetOuter, Outer
  <1>4. \A f \in Folders : Step[f] < k => DoneWell(f)
    <2>1. TAKE f \in Folders
    <2>2. CASE Step[f] < outer.step
      BY <1>0, <2>2 DEF IInv, OuterInv, MapInv
    <2>3. CASE Step[f] = outer.step
      BY <1>0, <1>s, <2>3, OutcomeShape DEF StepOver, StepFailed, StepFolders, DoneWell
    <2> QED
      BY <1>2, <1>s, <2>2, <2>3
  <1>5. \A f \in Folders : Step[f] >= k =>
          /\ child[f].pc = "idle" /\ \A a \in Attempts : rows[f][a] = None
    BY <1>0, <1>2, <1>s DEF IInv, OuterInv, MapInv
  <1>6. \A f \in Folders : child'[f] = IF Step[f] = k THEN Started(f, k) ELSE child[f]
    BY <1>1
  <1>7. \A f \in Folders : Started(f, k) \in Child /\ Started(f, k).attempt = 0
          /\ (Step[f] = k => Started(f, k).pc = "prepare")
    BY FolderRunAssumption DEF Started, Child, ChildPc, InPrepare, Attempts
  <1>8. TypeOK'
    <2>1. child' \in [Folders -> Child]
      BY <1>1, <1>7, <1>s
    <2> QED
      BY <1>0, <1>3, <2>1 DEF TypeOK
  <1>9. \A f \in Folders : FolderInv(f)' /\ Keeps(f)
    <2>1. TAKE f \in Folders
    <2>2. FolderInv(f)
      BY DEF IInv, FoldersInv
    <2>3. CASE Step[f] # k
      <3>1. Same(f)
        BY <1>0, <1>6, <2>3 DEF Same
      <3> QED
        BY <1>0, <2>2, <3>1, SameInv, SameKeeps
    <2>4. CASE Step[f] = k
      <3>1. /\ child'[f].attempt = 0 /\ child'[f].pc = "prepare"
            /\ \A a \in Attempts : rows[f][a] = None
        BY <1>5, <1>6, <1>7, <1>s, <2>4
      <3>2. engine[f][1] = "none"
        BY <2>2, <3>1 DEF FolderInv, RetryOf, RetryEvidence, Attempts
      <3>3. Latest(f)' /\ TerminalRows(f)' /\ Decides(f)'
        BY <1>0, <2>2 DEF FolderInv, Latest, TerminalRows, Decides, SummaryOf
      <3>4. ManifestOf(f)' /\ RowOf(f)' /\ UnfinishedRows(f)'
        BY <1>0, <3>1 DEF ManifestOf, RowOf, UnfinishedRows, Attempts
      <3>5. RetryOf(f)'
        BY <1>0, <3>1, <3>2 DEF RetryOf, Attempts
      <3>6. Keeps(f)
        BY <1>0 DEF Keeps, TypeOK, Summary, Attempts
      <3> QED
        BY <3>3, <3>4, <3>5, <3>6 DEF FolderInv
    <2> QED
      BY <2>3, <2>4
  <1>10. \A f \in Folders : Step[f] < k => child'[f] = child[f] /\ DoneWell(f)'
    BY <1>4, <1>6, <1>2, <1>s DEF DoneWell
  <1>11. MapInv'
    <2>1. \A f \in Folders : Step[f] < k => Collected.outcomes[f] # None
      BY <1>0, <1>2, CollectedFacts
    <2>2. \A f \in Folders : Step[f] > k => child'[f] = child[f] /\ child[f].pc = "idle"
      BY <1>5, <1>6, <1>2, <1>s
    <2> QED
      BY <1>0, <1>3, <1>5, <1>10, <2>1, <2>2, <1>2, <1>s DEF MapInv
  <1>12. OutcomeInv'
    <2>1. \A f \in Folders : Collected.outcomes[f] # None =>
            /\ child[f].pc \in {"succeeded", "failed", "unreported"}
            /\ Collected.outcomes[f] = OutcomeOf(child[f])
      BY <1>0, CollectedFacts
    <2>2. \A f \in Folders : Collected.outcomes[f] # None => child'[f] = child[f]
      BY <1>5, <1>6, <1>2, <1>s, <2>1
    <2> QED
      BY <1>3, <2>1, <2>2 DEF OutcomeInv, OutcomeOf
  <1>13. RenderInv' /\ FinalInv'
    BY <1>0, <1>3 DEF RenderInv, FinalInv
  <1>14. StatusInv'
    <2>1. \E f \in Folders : Step[f] = k
      BY <1>1 DEF LaterSteps, Steps
    <2>2. status # "succeeded"
      BY <1>5, <1>2, <2>1 DEF IInv, OuterInv, StatusInv, DoneWell
    <2> QED
      BY <1>0, <2>2 DEF StatusInv
  <1>15. LaterStepsWait'
    <2>1. ASSUME NEW f \in Folders, NEW g \in Folders, Step[g] < Step[f], child'[f].pc # "idle"
          PROVE  child'[g].pc = "succeeded" /\ Says(summary'[g], "succeeded")
      <3>1. Step[f] <= k
        BY <1>2, <1>5, <1>6, <1>s, <2>1
      <3>2. Step[g] < k
        BY <1>2, <1>s, <2>1, <3>1
      <3>3. DoneWell(g) /\ FolderInv(g) /\ child'[g] = child[g]
        BY <1>4, <1>10, <3>2 DEF IInv, FoldersInv
      <3> QED
        BY <1>0, <3>3, DoneSays DEF DoneWell, Says
    <2> QED
      BY <2>1 DEF LaterStepsWait, Says
  <1> QED
    BY <1>0, <1>8, <1>9, <1>11, <1>12, <1>13, <1>14, <1>15 DEF IInv, FoldersInv, OuterInv, Kept

\* RenderPR starts with an outcome for each folder that was run.
LEMMA StartRenderInv ==
  ASSUME IInv, StartRender
  PROVE  IInv' /\ Kept
  <1>0. TypeOK /\ StepOver /\ outer.pc = "map" /\ sfn = "running"
        /\ UNCHANGED <<late, sfn, child, engine, accepted, manifests, pointers, rows, summary, status, faults>>
    BY DEF StartRender, StepOver, IInv, store
  <1>s. outer.step \in Nat /\ \A f \in Folders : Step[f] \in Nat /\ child[f] \in Child
    BY <1>0, FolderRunAssumption, OuterFields DEF TypeOK
  <1> DEFINE skipped == {f \in Folders : Step[f] > outer.step}
  <1>1. /\ outer' \in Outer /\ outer'.pc = "rows"
        /\ outer'.skipped = skipped /\ outer'.outcomes = Collected.outcomes
    <2>1. outer' = [Collected EXCEPT !.pc = "rows", !.todo = Folders, !.skipped = skipped]
      BY DEF StartRender, SetOuter
    <2>2. Collected \in Outer
      BY <1>0, CollectedFacts
    <2> QED
      BY <2>1, <2>2 DEF Outer, OuterPc
  <1>2. TypeOK'
    BY <1>0, <1>1 DEF TypeOK
  <1>3. FoldersInv' /\ LaterStepsWait' /\ \A f \in Folders : Keeps(f)
    BY <1>0, FoldersAlone
  <1>4. OutcomeInv'
    BY <1>0, <1>1, CollectedFacts DEF OutcomeInv, OutcomeOf
  <1>5. RenderInv'
    <2>1. \A f \in Folders : f \in skipped => child[f].pc = "idle"
      BY <1>0 DEF IInv, OuterInv, MapInv
    <2>2. \A f \in Folders : f \notin skipped => Collected.outcomes[f] # None
      BY <1>0, <1>s, CollectedFacts
    <2>3. ASSUME skipped # {}
          PROVE  \E g \in Folders : g \notin skipped /\ Failed(Collected.outcomes[g])
      <3>1. LaterSteps # {}
        BY <2>3 DEF LaterSteps, Steps
      <3>2. PICK g \in Folders : Step[g] = outer.step /\ Failed(OutcomeOf(child[g]))
        BY <3>1 DEF StartRender, StepFailed, StepFolders
      <3>3. g \notin skipped /\ Collected.outcomes[g] = OutcomeOf(child[g])
        BY <1>0, <1>s, <3>2, CollectedFacts
      <3> QED
        BY <3>2, <3>3
    <2> QED
      BY <1>0, <1>1, <2>1, <2>2, <2>3 DEF RenderInv, Failed
  <1>6. MapInv' /\ FinalInv'
    BY <1>0, <1>1 DEF MapInv, FinalInv
  <1>7. StatusInv'
    BY <1>0 DEF IInv, OuterInv, StatusInv, DoneWell
  <1> QED
    BY <1>0, <1>2, <1>3, <1>4, <1>5, <1>6, <1>7 DEF IInv, OuterInv, Kept

\* A row that RenderPR or FinalizeRun writes first is of attempt 0 and has no manifest.
LEMMA OuterRow ==
  ASSUME IInv, NEW f \in Folders, NEW o \in Outcome, Terminal(o.status),
         PutAttempt(f, o.attempt, RegistryRow(f, o)),
         \/ rows[f][o.attempt] # None
         \/ o.attempt = 0 /\ ~o.manifest /\ (AtWork(f) => o.status = "failed"),
         UNCHANGED <<child, engine, manifests, pointers>>
  PROVE  /\ rows' \in [Folders -> [Attempts -> Row \cup {None}]]
         /\ summary' \in [Folders -> Summary \cup {None}]
         /\ FoldersInv' /\ LaterStepsWait'
         /\ \A g \in Folders : Keeps(g)
         /\ summary'[f] # None
  <1> DEFINE row == RegistryRow(f, o)
  <1>0. TypeOK /\ FolderInv(f) /\ o.attempt \in Attempts
    BY DEF IInv, FoldersInv, Outcome
  <1>1. row \in Row /\ row.status = o.status /\ row.manifest = o.manifest
    BY FolderRunAssumption DEF RegistryRow, Row, Outcome
  <1>2. CASE rows[f][o.attempt] # None
    <2>1. UNCHANGED <<rows, summary>>
      BY <1>2 DEF PutAttempt
    <2>2. summary[f] # None
      BY <1>0, <1>2 DEF FolderInv, Latest
    <2> QED
      BY <1>0, <2>1, <2>2, FoldersAlone DEF TypeOK
  <1>3. CASE rows[f][o.attempt] = None
    <2>1. o.attempt = 0 /\ ~row.manifest /\ (AtWork(f) => row.status = "failed")
      BY <1>1, <1>3
    <2>2. /\ rows' \in [Folders -> [Attempts -> Row \cup {None}]]
          /\ summary' \in [Folders -> Summary \cup {None}]
          /\ \A g \in Folders : g # f => rows'[g] = rows[g] /\ summary'[g] = summary[g]
          /\ \A b \in Attempts : b # 0 => rows'[f][b] = rows[f][b]
          /\ rows'[f][0] = row /\ Newer(f, 0, row)
      BY <1>0, <1>1, <1>3, <2>1, PutFacts
    <2>3. summary[f] = None /\ \A b \in Attempts : rows[f][b] = None
      BY <1>0, <1>1, <1>3, <2>1, <2>2, FirstRow DEF FolderInv
    <2>4. /\ Latest(f)' /\ TerminalRows(f)'
          /\ summary'[f] # None
      BY <1>0, <1>1, <2>1, PutInv DEF FolderInv
    <2>5. rows'[f][1] = None
      BY <2>2, <2>3 DEF Attempts
    <2>6. Decides(f)'
      BY <1>0, <2>1, <2>2, <2>5 DEF FolderInv, Decides, Attempts
    <2>7. ManifestOf(f)' /\ RowOf(f)'
      BY <1>0, <2>3 DEF FolderInv, ManifestOf, RowOf
    <2>8. RetryOf(f)'
      BY <1>0, <2>3, <2>5 DEF FolderInv, RetryOf, RetryEvidence, Attempts
    <2>9. UnfinishedRows(f)'
      BY <2>1, <2>2, <2>5 DEF UnfinishedRows, AtWork, Attempts
    <2>10. FolderInv(f)'
      BY <2>4, <2>6, <2>7, <2>8, <2>9 DEF FolderInv
    <2>11. \A g \in Folders : g # f => Same(g)
      BY <2>2 DEF Same
    <2>12. FoldersInv'
      BY <2>10, <2>11, SameInv DEF IInv, FoldersInv
    <2>13. \A g \in Folders : Keeps(g)
      BY <1>0, <2>3, <2>11, SameKeeps DEF Keeps, FolderInv, ManifestOf
    <2>14. LaterStepsWait'
      BY <2>2, <2>3 DEF IInv, OuterInv, LaterStepsWait, Says
    <2> QED
      BY <2>2, <2>4, <2>12, <2>13, <2>14
  <1> QED
    BY <1>2, <1>3

\* An outcome that says more than that something went wrong has its row already.
LEMMA OutcomeRow ==
  ASSUME IInv, NEW f \in Folders, outer.outcomes[f] # None
  PROVE  LET o == outer.outcomes[f] IN
         /\ o \in Outcome /\ Terminal(o.status)
         /\ \/ rows[f][o.attempt] # None
            \/ o.attempt = 0 /\ ~o.manifest
         /\ ~AtWork(f)
  <1>0. TypeOK /\ FolderInv(f) /\ child[f] \in Child
    BY DEF IInv, FoldersInv, TypeOK
  <1>1. /\ child[f].pc \in {"succeeded", "failed", "unreported"}
        /\ outer.outcomes[f] = OutcomeOf(child[f])
    BY DEF IInv, OuterInv, OutcomeInv
  <1>2. child[f].ok \in BOOLEAN
    BY <1>0 DEF Child
  <1>3. OutcomeOf(child[f]).status \in {"succeeded", "failed", "infrastructure_error"}
    BY <1>2, VerdictStatus DEF OutcomeOf
  <1>4. Terminal(OutcomeOf(child[f]).status)
    BY <1>3, RankOf
  <1>5. child[f].pc = "succeeded" => rows[f][OutcomeOf(child[f]).attempt] # None
    BY <1>0 DEF FolderInv, RowOf, OutcomeOf
  <1>6. child[f].pc # "succeeded" =>
          OutcomeOf(child[f]).attempt = 0 /\ ~OutcomeOf(child[f]).manifest
    BY DEF OutcomeOf
  <1> QED
    BY <1>0, <1>1, <1>4, <1>5, <1>6, OutcomeShape DEF AtWork, ChildEnd

\* RenderPR writes a row, or its write fails.
LEMMA RenderRowInv ==
  ASSUME IInv, NEW f \in Folders, RenderRow(f)
  PROVE  IInv' /\ Kept
  <1> DEFINE o == Reported(f)
  <1>0. TypeOK /\ outer.pc = "rows"
        /\ UNCHANGED <<late, sfn, child, engine, accepted, manifests, pointers, status, faults>>
    BY DEF RenderRow, IInv
  <1>1. CASE RaiseRender /\ UNCHANGED <<rows, summary>>
    <2>1. outer' \in {Finalizing, [outer EXCEPT !.pc = "off"]}
      BY <1>1 DEF RaiseRender, SetOuter
    <2>2. sfn' = "failed" => \A g \in Folders : summary[g] # None
      BY <1>0 DEF IInv, OuterInv, FinalInv
    <2> QED
      BY <1>0, <1>1, <2>1, <2>2, GivesUp DEF store, TypeOK
  <1>2. CASE /\ PutAttempt(f, o.attempt, RegistryRow(f, o))
             /\ SetOuter([outer EXCEPT !.todo = @ \ {f}])
    <2>1. /\ o \in Outcome /\ Terminal(o.status)
          /\ \/ rows[f][o.attempt] # None
             \/ o.attempt = 0 /\ ~o.manifest
          /\ ~AtWork(f)
      <3>1. CASE f \in outer.skipped
        <4>1. o = NotRun /\ child[f].pc = "idle"
          BY <1>0, <3>1 DEF Reported, IInv, OuterInv, RenderInv
        <4> QED
          BY <4>1, RankOf DEF NotRun, Outcome, Attempts, Statuses, AtWork
      <3>2. CASE f \notin outer.skipped
        <4>1. o = outer.outcomes[f] /\ o # None
          BY <1>0, <3>2 DEF Reported, IInv, OuterInv, RenderInv
        <4> QED
          BY <4>1, OutcomeRow
      <3> QED
        BY <3>1, <3>2
    <2>2. /\ rows' \in [Folders -> [Attempts -> Row \cup {None}]]
          /\ summary' \in [Folders -> Summary \cup {None}]
          /\ FoldersInv' /\ LaterStepsWait'
          /\ \A g \in Folders : Keeps(g)
      BY <1>0, <1>2, <2>1, OuterRow
    <2>3. /\ outer' \in Outer /\ outer'.pc = "rows"
          /\ outer'.outcomes = outer.outcomes /\ outer'.skipped = outer.skipped
      BY <1>0, <1>2 DEF SetOuter, TypeOK, Outer
    <2>4. TypeOK'
      BY <1>0, <2>2, <2>3 DEF TypeOK
    <2>5. OutcomeInv' /\ RenderInv' /\ MapInv'
      BY <1>0, <2>3 DEF IInv, OuterInv, OutcomeInv, OutcomeOf, RenderInv, MapInv, Failed
    <2>6. FinalInv'
      BY <1>0, <2>2, <2>3 DEF IInv, OuterInv, FinalInv, Keeps
    <2>7. StatusInv'
      BY <1>0 DEF IInv, OuterInv, StatusInv, DoneWell
    <2> QED
      BY <1>0, <2>2, <2>4, <2>5, <2>6, <2>7 DEF IInv, OuterInv, Kept
  <1> QED
    BY <1>1, <1>2 DEF RenderRow

\* RenderPR says that the run succeeded only when every folder did.
LEMMA RenderStatusInv ==
  ASSUME IInv, RenderStatus
  PROVE  IInv' /\ Kept
  <1>0. TypeOK /\ outer.pc = "rows" /\ SetStatus(TerminalStatus)
        /\ UNCHANGED <<late, sfn, child, engine, accepted, manifests, pointers, rows, summary, faults>>
    BY DEF RenderStatus, IInv
  <1>1. TerminalStatus \in Statuses
    BY DEF TerminalStatus, Statuses
  <1>2. status' \in Statuses /\ (Terminal(status) => status' = status)
        /\ (status' = status \/ status' = TerminalStatus)
    BY <1>0, <1>1, StatusFacts
  <1>3. CASE ~MayBecome(status, TerminalStatus)
    <2>1. status' = status
      BY <1>0, <1>3 DEF SetStatus
    <2>2. outer' \in {Finalizing, [outer EXCEPT !.pc = "off"]}
      BY <1>3 DEF RenderStatus, RaiseRender, SetOuter
    <2>3. sfn' = "failed" => \A g \in Folders : summary[g] # None
      BY <1>0 DEF IInv, OuterInv, FinalInv
    <2> QED
      BY <1>0, <2>1, <2>2, <2>3, GivesUp DEF store, TypeOK
  <1>4. CASE MayBecome(status, TerminalStatus)
    <2>1. /\ outer' \in Outer /\ outer'.pc = "rendered"
          /\ outer'.outcomes = outer.outcomes /\ outer'.skipped = outer.skipped
      <3>1. outer' = [outer EXCEPT !.pc = "rendered"]
        BY <1>4 DEF RenderStatus, SetOuter
      <3>2. outer \in Outer
        BY <1>0 DEF TypeOK
      <3> QED
        BY <3>1, <3>2 DEF Outer, OuterPc
    <2>2. TypeOK'
      BY <1>0, <1>2, <2>1 DEF TypeOK
    <2>3. FoldersInv' /\ LaterStepsWait' /\ \A g \in Folders : Keeps(g)
      BY <1>0, FoldersAlone
    <2>4. OutcomeInv' /\ RenderInv' /\ MapInv'
      BY <1>0, <2>1 DEF IInv, OuterInv, OutcomeInv, OutcomeOf, RenderInv, MapInv, Failed
    <2>5. FinalInv'
      BY <1>0, <2>1 DEF IInv, OuterInv, FinalInv
    <2>6. TerminalStatus = "succeeded" => \A f \in Folders : DoneWell(f)
      <3> SUFFICES ASSUME TerminalStatus = "succeeded", NEW f \in Folders PROVE DoneWell(f)
        OBVIOUS
      <3>1. \A g \in Folders : ~Failed(Reported(g))
        BY DEF TerminalStatus
      <3>2. outer.skipped = {}
        BY <1>0, <3>1 DEF IInv, OuterInv, RenderInv, Reported
      <3>3. outer.outcomes[f] # None /\ ~Failed(outer.outcomes[f])
        BY <1>0, <3>1, <3>2 DEF IInv, OuterInv, RenderInv, Reported
      <3>4. child[f] \in Child /\ child[f].pc \in {"succeeded", "failed", "unreported"}
            /\ ~Failed(OutcomeOf(child[f]))
        BY <1>0, <3>3 DEF IInv, OuterInv, OutcomeInv, TypeOK
      <3> QED
        BY <3>4, OutcomeShape DEF DoneWell
    <2>7. StatusInv'
      BY <1>0, <1>2, <2>6 DEF IInv, OuterInv, StatusInv, DoneWell
    <2> QED
      BY <1>0, <1>2, <2>2, <2>3, <2>4, <2>5, <2>7 DEF IInv, OuterInv, Kept
  <1> QED
    BY <1>3, <1>4

\* The ways into FinalizeRun and out of it.
LEMMA GivesUpInv ==
  ASSUME IInv, MapFails \/ RenderRaises \/ RenderReturns \/ FinalizeReturns \/ FinalizeDies
  PROVE  IInv' /\ Kept
  <1>0. TypeOK
    BY DEF IInv
  <1>1. outer' \in {Finalizing, [outer EXCEPT !.pc = "off"]}
    BY DEF MapFails, RenderRaises, RaiseRender, RenderReturns, FinalizeReturns, FinalizeDies,
           SetOuter
  <1>2. sfn' \in {"running", "succeeded", "failed", "unfinalized", "aborted"}
    BY <1>0 DEF MapFails, RenderRaises, RenderReturns, FinalizeReturns, FinalizeDies, TypeOK
  <1>3. faults' \in 0..MaxFaults
    BY <1>0, FaultBound
    DEF MapFails, RenderRaises, RenderReturns, FinalizeReturns, FinalizeDies, TypeOK
  <1>4. UNCHANGED <<late, child, engine, store>>
    BY DEF MapFails, RenderRaises, RenderReturns, FinalizeReturns, FinalizeDies
  <1>5. sfn' = "failed" => \A f \in Folders : summary[f] # None
    <2>1. CASE FinalizeReturns
      BY <2>1 DEF FinalizeReturns, IInv, OuterInv, FinalInv
    <2>2. CASE sfn' = sfn \/ sfn' # "failed"
      BY <2>2 DEF IInv, OuterInv, FinalInv
    <2> QED
      BY <2>1, <2>2 DEF MapFails, RenderRaises, RenderReturns, FinalizeDies
  <1> QED
    BY <1>1, <1>2, <1>3, <1>4, <1>5, GivesUp

\* FinalizeRun goes from folder to folder: each has a row, or the run is incomplete.
LEMMA FinalizeFolderInv ==
  ASSUME IInv, NEW f \in Folders, FinalizeFolder(f) \/ FinalizeFolderError(f)
  PROVE  IInv' /\ Kept
  <1> DEFINE existing == rows[f][Final(f).attempt]
  <1>0. TypeOK /\ outer.pc \in {"final", "put"}
        /\ UNCHANGED <<late, sfn, child, engine, accepted, manifests, pointers, rows, summary, status>>
    BY DEF FinalizeFolder, FinalizeFolderError, IInv, store
  <1>1. faults' \in 0..MaxFaults
    BY <1>0, FaultBound DEF FinalizeFolder, FinalizeFolderError, TypeOK
  <1>f. outer \in Outer
    BY <1>0 DEF TypeOK
  <1>2. /\ outer' \in Outer /\ outer'.pc \in {"final", "put"}
        /\ outer'.outcomes = outer.outcomes
        /\ outer'.pc = "put" => outer'.cur \in Folders
        /\ outer'.pc \in {"final", "put"} /\ ~outer'.incomplete =>
             \A g \in Folders \ outer'.todo : summary[g] # None
    <2>1. CASE /\ FinalizeFolder(f) /\ existing = None
      <3>1. outer' = [outer EXCEPT !.pc = "put", !.cur = f]
        BY <2>1 DEF FinalizeFolder, SetOuter
      <3>2. /\ outer' \in Outer /\ outer'.pc = "put" /\ outer'.cur = f
            /\ outer'.outcomes = outer.outcomes /\ outer'.todo = outer.todo
            /\ outer'.incomplete = outer.incomplete
        BY <1>f, <3>1 DEF Outer, OuterPc
      <3> QED
        BY <1>0, <3>2 DEF IInv, OuterInv, FinalInv
    <2>2. CASE /\ FinalizeFolder(f) /\ existing # None
      <3>1. outer' = [outer EXCEPT !.todo = @ \ {f},
                        !.incomplete = @ \/ existing.exec # Final(f).exec]
        BY <2>2 DEF FinalizeFolder, SetOuter
      <3>2. /\ outer' \in Outer /\ outer'.pc = outer.pc /\ outer'.cur = outer.cur
            /\ outer'.outcomes = outer.outcomes /\ outer'.todo = outer.todo \ {f}
            /\ outer'.incomplete = (outer.incomplete \/ existing.exec # Final(f).exec)
        <4>1. (outer.incomplete \/ existing.exec # Final(f).exec) \in BOOLEAN
          OBVIOUS
        <4>2. outer.todo \ {f} \in SUBSET Folders
          BY <1>f DEF Outer
        <4> HIDE DEF existing
        <4> QED
          BY <1>f, <3>1, <4>1, <4>2 DEF Outer
      <3>3. Final(f).attempt \in Attempts
        BY <1>f DEF Final, Synthesized, Outer, Outcome, Attempts
      <3>4. summary[f] # None
        BY <2>2, <3>3 DEF IInv, FoldersInv, FolderInv, Latest
      <3>5. ~outer'.incomplete => ~outer.incomplete
        BY <3>2
      <3> QED
        BY <1>0, <3>2, <3>4, <3>5 DEF IInv, OuterInv, FinalInv
    <2>3. CASE FinalizeFolderError(f)
      <3>1. outer' = [outer EXCEPT !.pc = "final", !.todo = @ \ {f}, !.cur = None,
                                   !.incomplete = TRUE]
        BY <2>3 DEF FinalizeFolderError, SetOuter
      <3>2. /\ outer' \in Outer /\ outer'.pc = "final"
            /\ outer'.outcomes = outer.outcomes /\ outer'.incomplete
        BY <1>f, <3>1 DEF Outer, OuterPc
      <3> QED
        BY <3>2
    <2> QED
      BY <2>1, <2>2, <2>3
  <1>3. TypeOK'
    BY <1>0, <1>1, <1>2 DEF TypeOK
  <1>4. FoldersInv' /\ LaterStepsWait' /\ \A g \in Folders : Keeps(g)
    BY <1>0, FoldersAlone
  <1>5. OutcomeInv' /\ RenderInv' /\ MapInv'
    BY <1>0, <1>2 DEF IInv, OuterInv, OutcomeInv, OutcomeOf, RenderInv, MapInv
  <1>6. FinalInv'
    <2>1. sfn = "failed" => \A g \in Folders : summary[g] # None
      BY DEF IInv, OuterInv, FinalInv
    <2> QED
      BY <1>0, <1>2, <2>1 DEF FinalInv
  <1>7. StatusInv'
    BY <1>0 DEF IInv, OuterInv, StatusInv, DoneWell
  <1> QED
    BY <1>0, <1>3, <1>4, <1>5, <1>6, <1>7 DEF IInv, OuterInv, Kept

\* FinalizeRun writes the row of a folder that had none.
LEMMA FinalizePutInv ==
  ASSUME IInv, FinalizePut
  PROVE  IInv' /\ Kept
  <1> DEFINE f == outer.cur
             o == Final(f)
             next == [outer EXCEPT !.pc = "final", !.todo = @ \ {f}, !.cur = None]
  <1>0. TypeOK /\ outer.pc = "put" /\ outer \in Outer
        /\ UNCHANGED <<late, sfn, child, engine, accepted, manifests, pointers, status, faults>>
    BY DEF FinalizePut, IInv, TypeOK
  <1>1. f \in Folders
    BY <1>0 DEF IInv, OuterInv, FinalInv
  <1>2. /\ rows' \in [Folders -> [Attempts -> Row \cup {None}]]
        /\ summary' \in [Folders -> Summary \cup {None}]
        /\ FoldersInv' /\ LaterStepsWait'
        /\ \A g \in Folders : Keeps(g)
        /\ \/ summary'[f] # None /\ outer' = next
           \/ outer' = [next EXCEPT !.incomplete = TRUE]
    <2>1. CASE /\ PutAttempt(f, o.attempt, RegistryRow(f, o))
               /\ SetOuter(next)
      <3>1. CASE outer.outcomes[f] # None
        <4>1. o = outer.outcomes[f]
          BY <3>1 DEF Final
        <4>2. /\ o \in Outcome /\ Terminal(o.status) /\ ~AtWork(f)
              /\ (rows[f][o.attempt] # None \/ (o.attempt = 0 /\ ~o.manifest))
          BY <1>1, <3>1, <4>1, OutcomeRow
        <4> QED
          BY <1>0, <1>1, <2>1, <4>2, OuterRow DEF SetOuter
      <3>2. CASE outer.outcomes[f] = None
        <4>1. o = Synthesized
          BY <3>2 DEF Final
        <4>2. /\ o \in Outcome /\ Terminal(o.status) /\ o.status = "failed"
              /\ o.attempt = 0 /\ ~o.manifest
          BY <4>1, RankOf DEF Synthesized, Outcome, Attempts, Statuses
        <4> QED
          BY <1>0, <1>1, <2>1, <4>2, OuterRow DEF SetOuter
      <3> QED
        BY <3>1, <3>2
    <2>2. CASE /\ UNCHANGED <<rows, summary>>
               /\ SetOuter([next EXCEPT !.incomplete = TRUE])
      <3>1. FoldersInv' /\ LaterStepsWait' /\ \A g \in Folders : Keeps(g)
        BY <1>0, <2>2, FoldersAlone
      <3> QED
        BY <1>0, <2>2, <3>1 DEF SetOuter, TypeOK
    <2> QED
      BY <2>1, <2>2 DEF FinalizePut
  <1>3. /\ outer' \in Outer /\ outer'.pc = "final"
        /\ outer'.outcomes = outer.outcomes
        /\ outer'.todo = outer.todo \ {f}
        /\ \/ outer'.incomplete
           \/ outer'.incomplete = outer.incomplete /\ summary'[f] # None
    <2>1. /\ next \in Outer /\ next.pc = "final" /\ next.outcomes = outer.outcomes
          /\ next.todo = outer.todo \ {f} /\ next.incomplete = outer.incomplete
      BY <1>0 DEF Outer, OuterPc
    <2>2. CASE outer' = next /\ summary'[f] # None
      BY <2>1, <2>2
    <2>3. CASE outer' = [next EXCEPT !.incomplete = TRUE]
      <3> HIDE DEF next
      <3> QED
        BY <2>1, <2>3 DEF Outer
    <2> QED
      BY <1>2, <2>2, <2>3
  <1>4. TypeOK'
    BY <1>0, <1>2, <1>3 DEF TypeOK
  <1>5. OutcomeInv' /\ RenderInv' /\ MapInv'
    BY <1>0, <1>3 DEF IInv, OuterInv, OutcomeInv, OutcomeOf, RenderInv, MapInv
  <1>6. FinalInv'
    <2>1. \A g \in Folders : summary[g] # None => summary'[g] # None
      BY <1>2 DEF Keeps
    <2>2. ~outer'.incomplete => \A g \in Folders \ outer'.todo : summary'[g] # None
      BY <1>0, <1>3, <2>1 DEF IInv, OuterInv, FinalInv
    <2>3. sfn = "failed" => \A g \in Folders : summary'[g] # None
      BY <2>1 DEF IInv, OuterInv, FinalInv
    <2> QED
      BY <1>0, <1>3, <2>2, <2>3 DEF FinalInv
  <1>7. StatusInv'
    BY <1>0 DEF IInv, OuterInv, StatusInv, DoneWell
  <1> QED
    BY <1>0, <1>2, <1>4, <1>5, <1>6, <1>7 DEF IInv, OuterInv, Kept

\* FinalizeRun closes the run once no folder is left.
LEMMA FinalizeStatusInv ==
  ASSUME IInv, FinalizeStatus
  PROVE  IInv' /\ Kept
  <1>0. TypeOK /\ outer.pc = "final" /\ outer.todo = {} /\ SetStatus("failed") /\ outer \in Outer
        /\ UNCHANGED <<late, sfn, child, engine, accepted, manifests, pointers, rows, summary, faults>>
    BY DEF FinalizeStatus, IInv, TypeOK
  <1>1. status' \in Statuses /\ (Terminal(status) => status' = status)
        /\ (status' = status \/ status' = "failed")
    BY <1>0, StatusFacts DEF Statuses
  <1>2. /\ outer' \in Outer /\ outer'.pc = "closed"
        /\ outer'.outcomes = outer.outcomes /\ outer'.incomplete = outer.incomplete
    BY <1>0 DEF FinalizeStatus, SetOuter, Outer, OuterPc
  <1>3. TypeOK'
    BY <1>0, <1>1, <1>2 DEF TypeOK
  <1>4. FoldersInv' /\ LaterStepsWait' /\ \A g \in Folders : Keeps(g)
    BY <1>0, FoldersAlone
  <1>5. OutcomeInv' /\ RenderInv' /\ MapInv'
    BY <1>0, <1>2 DEF IInv, OuterInv, OutcomeInv, OutcomeOf, RenderInv, MapInv
  <1>6. FinalInv'
    BY <1>0, <1>2 DEF IInv, OuterInv, FinalInv
  <1>7. StatusInv'
    BY <1>0, <1>1 DEF IInv, OuterInv, StatusInv, DoneWell
  <1> QED
    BY <1>1, <1>3, <1>4, <1>5, <1>6, <1>7 DEF IInv, OuterInv, Kept

-----------------------------------------------------------------------------
(* The invariant.                                                          *)

LEMMA InitInv == Init => IInv
  <1> SUFFICES ASSUME Init PROVE IInv
    OBVIOUS
  <1> USE DEF Init
  <1>1. FirstStep \in Nat /\ \A f \in Folders : FirstStep <= Step[f] /\ Step[f] \in Nat
    BY FirstStepIsFirst, FolderRunAssumption
  <1>2. \A f \in Folders : /\ Started(f, FirstStep) \in Child
                           /\ Started(f, FirstStep).pc \in {"prepare", "idle"}
                           /\ Started(f, FirstStep).attempt = 0
                           /\ Step[f] # FirstStep => Started(f, FirstStep).pc = "idle"
    BY FolderRunAssumption DEF Started, Child, ChildPc, InPrepare, Attempts
  <1>3. TypeOK
    <2>1. outer \in Outer
      BY <1>1 DEF Outer, OuterPc
    <2>2. child \in [Folders -> Child]
      BY <1>2
    <2>3. engine \in [Folders -> [Attempts -> Engine]]
      BY DEF Engine
    <2>4. status \in Statuses /\ faults \in 0..MaxFaults
      BY FolderRunAssumption DEF Statuses
    <2> QED
      BY <2>1, <2>2, <2>3, <2>4 DEF TypeOK
  <1>4. \A f \in Folders : FolderInv(f)
    <2>1. TAKE f \in Folders
    <2>2. /\ child[f].pc \in {"prepare", "idle"} /\ child[f].attempt = 0
          /\ summary[f] = None /\ manifests[f] = None /\ f \notin pointers
          /\ \A a \in Attempts : rows[f][a] = None /\ engine[f][a] = "none"
      BY <1>2
    <2>3. 0 \in Attempts /\ 1 \in Attempts
      BY DEF Attempts
    <2>4. Latest(f) /\ TerminalRows(f) /\ Decides(f)
      BY <2>2 DEF Latest, TerminalRows, Decides
    <2>5. ManifestOf(f) /\ RowOf(f) /\ RetryOf(f) /\ UnfinishedRows(f)
      BY <2>2, <2>3 DEF ManifestOf, RowOf, RetryOf, UnfinishedRows
    <2> QED
      BY <2>4, <2>5 DEF FolderInv
  <1>5. MapInv /\ OutcomeInv /\ RenderInv /\ FinalInv /\ StatusInv
    BY <1>1, <1>2 DEF MapInv, OutcomeInv, RenderInv, FinalInv, StatusInv
  <1>6. LaterStepsWait
    BY <1>1, <1>2 DEF LaterStepsWait
  <1> QED
    BY <1>3, <1>4, <1>5, <1>6 DEF IInv, OuterInv, FoldersInv

LEMMA WorksKept ==
  ASSUME IInv, NEW f \in Folders, Works(f)
  PROVE  Kept
  BY SameKeeps DEF IInv, Works, Kept

LEMMA StepInv == IInv /\ [Next]_vars => IInv' /\ Kept
  <1> SUFFICES ASSUME IInv, [Next]_vars PROVE IInv' /\ Kept
    OBVIOUS
  <1>1. CASE DeadlinePasses \/ MarkRunning \/ EventFinalizer
             \/ \E f \in Folders, a \in Attempts : EngineDone(f, a)
    BY <1>1, EnvironmentInv
  <1>2. CASE \E f \in Folders : ChildStep(f) \/ ChildError(f)
    BY <1>2, ChildWorks, WorksInv, WorksKept
  <1>3. CASE OuterStep
    <2>1. CASE Advance
      BY <2>1, AdvanceInv
    <2>2. CASE StartRender
      BY <2>2, StartRenderInv
    <2>3. CASE RenderStatus
      BY <2>3, RenderStatusInv
    <2>4. CASE RenderReturns \/ FinalizeReturns
      BY <2>4, GivesUpInv
    <2>5. CASE FinalizePut
      BY <2>5, FinalizePutInv
    <2>6. CASE FinalizeStatus
      BY <2>6, FinalizeStatusInv
    <2>7. CASE \E f \in Folders : RenderRow(f) \/ FinalizeFolder(f)
      BY <2>7, RenderRowInv, FinalizeFolderInv
    <2> QED
      BY <1>3, <2>1, <2>2, <2>3, <2>4, <2>5, <2>6, <2>7 DEF OuterStep
  <1>4. CASE OuterError
    <2>1. CASE MapFails \/ RenderRaises \/ FinalizeDies
      BY <2>1, GivesUpInv
    <2>2. CASE Abort
      BY <2>2, EnvironmentInv
    <2>3. CASE \E f \in Folders : FinalizeFolderError(f)
      BY <2>3, FinalizeFolderInv
    <2> QED
      BY <1>4, <2>1, <2>2, <2>3 DEF OuterError
  <1>5. CASE UNCHANGED vars
    <2>1. TypeOK'
      BY <1>5 DEF vars, store, IInv, TypeOK
    <2>2. FoldersInv' /\ LaterStepsWait' /\ \A f \in Folders : Keeps(f)
      BY <1>5, FoldersAlone DEF vars, store
    <2>3. MapInv' /\ OutcomeInv' /\ RenderInv' /\ FinalInv' /\ StatusInv'
      BY <1>5 DEF vars, store, IInv, OuterInv, MapInv, OutcomeInv, OutcomeOf, RenderInv,
                  FinalInv, StatusInv, DoneWell, Failed
    <2> QED
      BY <1>5, <2>1, <2>2, <2>3 DEF vars, store, IInv, OuterInv, Kept
  <1> QED
    BY <1>1, <1>2, <1>3, <1>4, <1>5 DEF Next

\* The invariant holds in every behaviour.
LEMMA Invariance == Spec => []IInv
  <1>1. IInv /\ [Next]_vars => IInv'
    BY StepInv
  <1> QED
    BY InitInv, <1>1, PTL DEF Spec

-----------------------------------------------------------------------------
(* What it says of the run.                                                *)

\* Every variable keeps its type, whatever fails and whoever writes last.
THEOREM TypeCorrect == Spec => []TypeOK
  BY Invariance, PTL DEF IInv

\* put_folder_attempt keeps the summary of a folder at its latest attempt row, although
\* four Lambdas write the rows of a folder.
THEOREM LatestRow == Spec => []SummaryIsLatestRow
  <1>1. IInv => SummaryIsLatestRow
    BY DEF IInv, FoldersInv, FolderInv, Latest, SummaryIsLatestRow
  <1> QED
    BY <1>1, Invariance, PTL

\* Collect, WriteFailureManifest, RenderPR and the retries of all of them leave rows that
\* say what the one committed manifest says.
THEOREM OneVerdict == Spec => []ManifestDecides
  <1>1. IInv => ManifestDecides
    BY DEF IInv, FoldersInv, FolderInv, Decides, ManifestDecides
  <1> QED
    BY <1>1, Invariance, PTL

\* The engine works on attempt 1 only after RecordRetryAttempt has recorded attempt 0.
THEOREM RetryEvidenceFirst == Spec => []RetryIsRecorded
  <1>1. IInv => RetryIsRecorded
    BY DEF IInv, FoldersInv, FolderInv, RetryOf, RetryEvidence, RetryIsRecorded, Says
  <1> QED
    BY <1>1, Invariance, PTL

\* A step of the pipeline starts after all earlier ones succeeded, in the registry too.
THEOREM StepOrder == Spec => []LaterStepsWait
  <1>1. IInv => LaterStepsWait
    BY DEF IInv, OuterInv
  <1> QED
    BY <1>1, Invariance, PTL

\* "succeeded" on the run is never more than its folders say.
THEOREM SuccessIsComplete == Spec => []SucceededRunSucceededFolders
  <1>1. IInv => SucceededRunSucceededFolders
    BY DoneSays
    DEF IInv, FoldersInv, OuterInv, StatusInv, SucceededRunSucceededFolders
  <1> QED
    BY <1>1, Invariance, PTL

\* A run that FinalizeRun failed in good order has a terminal summary for every folder.
THEOREM FinalizedIsComplete == Spec => []FinalizedRunIsRecorded
  <1>1. ASSUME IInv, sfn = "failed", NEW f \in Folders
        PROVE  summary[f] # None /\ Terminal(summary[f].status)
    <2>1. summary[f] # None
      BY <1>1 DEF IInv, OuterInv, FinalInv
    <2>2. summary[f].attempt \in Attempts
      BY <1>1, <2>1 DEF IInv, TypeOK, Summary
    <2>3. /\ rows[f][summary[f].attempt] # None
          /\ summary[f] = SummaryOf(None, summary[f].attempt, rows[f][summary[f].attempt])
      BY <1>1, <2>1 DEF IInv, FoldersInv, FolderInv, Latest
    <2>4. Terminal(rows[f][summary[f].attempt].status)
      BY <1>1, <2>2, <2>3 DEF IInv, FoldersInv, FolderInv, TerminalRows
    <2>5. summary[f].status = rows[f][summary[f].attempt].status
      BY <2>3 DEF SummaryOf
    <2> QED
      BY <2>1, <2>4, <2>5
  <1>2. IInv => FinalizedRunIsRecorded
    BY <1>1 DEF FinalizedRunIsRecorded
  <1> QED
    BY <1>2, Invariance, PTL

\* No step takes back a manifest, an attempt row, a later summary or a terminal status.
THEOREM NothingIsTakenBack == Spec => RecordsAreFinal
  <1>1. IInv /\ [Next]_vars =>
          [/\ \A f \in Folders :
                /\ manifests[f] # None => manifests'[f] = manifests[f]
                /\ \A a \in Attempts : rows[f][a] # None => rows'[f][a] = rows[f][a]
                /\ summary[f] # None => summary'[f].attempt >= summary[f].attempt
           /\ Terminal(status) => status' = status]_vars
    BY StepInv DEF Kept, Keeps
  <1> QED
    BY <1>1, Invariance, PTL DEF Spec, RecordsAreFinal

=============================================================================
