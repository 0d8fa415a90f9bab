---------------------------- MODULE CleanRunProofs ----------------------------
(* CleanRunIsRecorded, a theorem about Artifacts: where no call and no engine *)
(* fails, what the script of an attempt uploads is listed, valid and recorded *)
(* as the engine ended, and can be read back, for any run.                    *)
EXTENDS ArtifactsProofs, SequenceTheorems

-----------------------------------------------------------------------------
(* Sequences of names.                                                     *)

LEMMA SetOfSeq ==
  ASSUME NEW S, NEW s \in Seq(S)
  PROVE  /\ \A i \in 1..Len(s) : s[i] \in ToSet(s)
         /\ \A x \in ToSet(s) : \E i \in 1..Len(s) : x = s[i]
         /\ ToSet(s) \subseteq S
  BY LenProperties DEF ToSet

LEMMA SetOfJoin ==
  ASSUME NEW S, NEW s \in Seq(S), NEW t \in Seq(S)
  PROVE  s \o t \in Seq(S) /\ ToSet(s \o t) = ToSet(s) \cup ToSet(t)
  <1>1. Len(s) \in Nat /\ Len(t) \in Nat
    BY LenProperties
  <1>2. /\ s \o t \in Seq(S) /\ Len(s \o t) = Len(s) + Len(t)
        /\ \A i \in 1..(Len(s) + Len(t)) :
             (s \o t)[i] = IF i <= Len(s) THEN s[i] ELSE t[i - Len(s)]
    BY ConcatProperties
  <1>3. ASSUME NEW i \in 1..(Len(s) + Len(t)) PROVE (s \o t)[i] \in ToSet(s) \cup ToSet(t)
    <2>1. CASE i <= Len(s)
      <3>1. i \in 1..Len(s)
        BY <1>1, <2>1
      <3>2. QED
        BY <1>2, <2>1, <3>1, SetOfSeq
    <2>2. CASE ~(i <= Len(s))
      <3>1. i - Len(s) \in 1..Len(t)
        BY <1>1, <2>2
      <3>2. QED
        BY <1>2, <2>2, <3>1, SetOfSeq
    <2>3. QED
      BY <2>1, <2>2
  <1>4. ASSUME NEW i \in 1..Len(s)
        PROVE  i \in 1..(Len(s) + Len(t)) /\ (s \o t)[i] = s[i]
    BY <1>1, <1>2
  <1>5. ASSUME NEW i \in 1..Len(t)
        PROVE  i + Len(s) \in 1..(Len(s) + Len(t)) /\ (s \o t)[i + Len(s)] = t[i]
    BY <1>1, <1>2
  <1>6. \A x \in ToSet(s \o t) : x \in ToSet(s) \cup ToSet(t)
    <2>1. \A x \in ToSet(s \o t) : \E i \in 1..Len(s \o t) : x = (s \o t)[i]
      BY <1>2, SetOfSeq
    <2>2. QED
      BY <1>2, <1>3, <2>1
  <1>7. \A i \in 1..(Len(s) + Len(t)) : (s \o t)[i] \in ToSet(s \o t)
    BY <1>2, SetOfSeq
  <1>8. \A x \in ToSet(s) : x \in ToSet(s \o t)
    <2>1. \A x \in ToSet(s) : \E i \in 1..Len(s) : x = s[i]
      BY SetOfSeq
    <2>2. QED
      BY <1>4, <1>7, <2>1
  <1>9. \A x \in ToSet(t) : x \in ToSet(s \o t)
    <2>1. \A x \in ToSet(t) : \E i \in 1..Len(t) : x = t[i]
      BY SetOfSeq
    <2>2. QED
      BY <1>5, <1>7, <2>1
  <1>10. QED
    BY <1>2, <1>6, <1>8, <1>9

LEMMA SetOfTail ==
  ASSUME NEW S, NEW s \in Seq(S), s # <<>>
  PROVE  Tail(s) \in Seq(S) /\ Head(s) \in S /\ ToSet(s) = {Head(s)} \cup ToSet(Tail(s))
  <1>1. Len(s) \in Nat \ {0} /\ Head(s) = s[1]
    BY EmptySeq, LenProperties
  <1>2. /\ Tail(s) \in Seq(S) /\ Head(s) \in S /\ Len(Tail(s)) = Len(s) - 1
        /\ \A i \in 1..Len(Tail(s)) : Tail(s)[i] = s[i + 1]
    BY HeadTailProperties
  <1>3. ASSUME NEW i \in 1..Len(s) PROVE s[i] \in {Head(s)} \cup ToSet(Tail(s))
    <2>1. CASE i # 1
      <3>1. i - 1 \in 1..Len(Tail(s)) /\ Tail(s)[i - 1] = s[i]
        BY <1>1, <1>2, <2>1
      <3>2. Tail(s)[i - 1] \in ToSet(Tail(s))
        BY <1>2, <3>1, SetOfSeq
      <3>3. QED
        BY <3>1, <3>2
    <2>2. QED
      BY <1>1, <2>1
  <1>4. ASSUME NEW i \in 1..Len(Tail(s))
        PROVE  i + 1 \in 1..Len(s) /\ Tail(s)[i] = s[i + 1]
    BY <1>1, <1>2
  <1>5. 1 \in 1..Len(s)
    BY <1>1
  <1>6. ToSet(s) \subseteq {Head(s)} \cup ToSet(Tail(s))
    <2>1. \A x \in ToSet(s) : \E i \in 1..Len(s) : x = s[i]
      BY SetOfSeq
    <2>2. QED
      BY <1>3, <2>1
  <1>7. \A i \in 1..Len(s) : s[i] \in ToSet(s)
    BY SetOfSeq
  <1>8. ToSet(Tail(s)) \subseteq ToSet(s)
    <2>1. \A x \in ToSet(Tail(s)) : \E i \in 1..Len(Tail(s)) : x = Tail(s)[i]
      BY <1>2, SetOfSeq
    <2>2. QED
      BY <1>4, <1>7, <2>1
  <1>9. QED
    BY <1>1, <1>2, <1>5, <1>6, <1>7, <1>8

-----------------------------------------------------------------------------
(* The tables of names and types.                                          *)

LEMMA ActionNames == Actions = {"plan", "report", "plan_destroy", "drift", "apply", "destroy"}
  BY DEF Actions, Planned, MutationActions

ScanNames(action, focus) ==
  IF action \in {"plan", "report"} /\ ~focus
  THEN {"tfsec.json", "tfsec.output", "infracost.json", "infracost.output"} ELSE {}

\* The outputs of a command.
OwnOutputs(action) ==
  CASE action = "plan_destroy" -> {"destroy.plan.out"}
    [] action = "apply"        -> {"plan-show.out", "apply.out"}
    [] action = "destroy"      -> {"plan-show.out", "destroy.out"}
    [] action = "drift"        -> {"tf/plan.out", "drift.json"}
    [] OTHER                   -> {"tf/plan.out"}

OutputNames(action, focus) ==
  {"init.out", "validate.out"} \cup OwnOutputs(action) \cup ScanNames(action, focus)

AllNames ==
  {"init.out", "validate.out", "destroy.plan.out", "plan-show.out", "apply.out", "destroy.out",
   "tf/plan.out", "drift.json", "tfsec.json", "tfsec.output", "infracost.json",
   "infracost.output", "done", "package"} \cup AllPlanFiles

\* Collect lists the outputs of the action.
LEMMA ListedNames ==
  ASSUME NEW action \in Actions, NEW focus
  PROVE  ToSet(Listed(action, focus)) = OutputNames(action, focus)
  <1>1. CASE action = "plan"
    <2>1. CASE focus
      BY <1>1, <2>1 DEF Listed, ToSet, Logs, MutationActions, ScansOf, OutputNames, OwnOutputs,
                       ScanNames
    <2>2. CASE ~focus
      BY <1>1, <2>2 DEF Listed, ToSet, Logs, MutationActions, ScansOf, Scans, OutputNames,
                       OwnOutputs, ScanNames
    <2>3. QED
      BY <2>1, <2>2
  <1>2. CASE action = "report"
    <2>1. CASE focus
      BY <1>2, <2>1 DEF Listed, ToSet, Logs, MutationActions, ScansOf, OutputNames, OwnOutputs,
                       ScanNames
    <2>2. CASE ~focus
      BY <1>2, <2>2 DEF Listed, ToSet, Logs, MutationActions, ScansOf, Scans, OutputNames,
                       OwnOutputs, ScanNames
    <2>3. QED
      BY <2>1, <2>2
  <1>3. CASE action = "plan_destroy"
    BY <1>3 DEF Listed, ToSet, Logs, MutationActions, OutputNames, OwnOutputs, ScanNames
  <1>4. CASE action = "drift"
    BY <1>4 DEF Listed, ToSet, Logs, MutationActions, OutputNames, OwnOutputs, ScanNames
  <1>5. CASE action = "apply"
    BY <1>5 DEF Listed, ToSet, Logs, MutationActions, Output, OutputNames, OwnOutputs, ScanNames
  <1>6. CASE action = "destroy"
    BY <1>6 DEF Listed, ToSet, Logs, MutationActions, Output, OutputNames, OwnOutputs, ScanNames
  <1>7. QED
    BY <1>1, <1>2, <1>3, <1>4, <1>5, <1>6, ActionNames

LEMMA ListedSeq ==
  ASSUME NEW action \in Actions, NEW focus
  PROVE  Listed(action, focus) \in Seq(AllNames)
  <1>1. Logs \in Seq(AllNames) /\ Scans \in Seq(AllNames) /\ <<>> \in Seq(AllNames)
    BY EmptySeq DEF Logs, Scans, AllNames
  <1>2. ScansOf(action, focus) \in Seq(AllNames)
    BY <1>1 DEF ScansOf
  <1>3. /\ <<"tf/plan.out", "drift.json">> \in Seq(AllNames)
        /\ <<"destroy.plan.out">> \in Seq(AllNames)
        /\ <<"plan-show.out", "apply.out">> \in Seq(AllNames)
        /\ <<"plan-show.out", "destroy.out">> \in Seq(AllNames)
        /\ <<"tf/plan.out">> \in Seq(AllNames)
    BY DEF AllNames
  <1>4. \/ Listed(action, focus) = Logs \o <<"tf/plan.out", "drift.json">>
        \/ Listed(action, focus) = Logs \o <<"destroy.plan.out">>
        \/ Listed(action, focus) = Logs \o <<"plan-show.out", "apply.out">>
        \/ Listed(action, focus) = Logs \o <<"plan-show.out", "destroy.out">>
        \/ Listed(action, focus) = (Logs \o <<"tf/plan.out">>) \o ScansOf(action, focus)
    BY ActionNames DEF Listed, MutationActions, Output
  <1>5. \A t \in Seq(AllNames) : Logs \o t \in Seq(AllNames)
    BY <1>1, SetOfJoin
  <1>6. (Logs \o <<"tf/plan.out">>) \o ScansOf(action, focus) \in Seq(AllNames)
    BY <1>2, <1>3, <1>5, SetOfJoin
  <1>7. QED
    BY <1>3, <1>4, <1>5, <1>6

\* A URL is signed for every output, and the script uploads every one.
LEMMA SignedOutputs ==
  ASSUME NEW action \in Actions, NEW focus
  PROVE  /\ OutputNames(action, focus) \subseteq ToSet(Signed(action, focus))
         /\ OutputNames(action, focus) \subseteq ToSet(Uploaded(action, focus))
  <1>1. CASE action = "plan"
    <2>1. CASE focus
      BY <1>1, <2>1 DEF Signed, Uploaded, ToSet, Logs, MutationActions, ScansOf, OutputNames,
                       OwnOutputs, ScanNames
    <2>2. CASE ~focus
      BY <1>1, <2>2 DEF Signed, Uploaded, ToSet, Logs, MutationActions, ScansOf, Scans,
                       OutputNames, OwnOutputs, ScanNames
    <2>3. QED
      BY <2>1, <2>2
  <1>2. CASE action = "report"
    <2>1. CASE focus
      BY <1>2, <2>1 DEF Signed, Uploaded, ToSet, Logs, MutationActions, ScansOf, OutputNames,
                       OwnOutputs, ScanNames
    <2>2. CASE ~focus
      BY <1>2, <2>2 DEF Signed, Uploaded, ToSet, Logs, MutationActions, ScansOf, Scans,
                       OutputNames, OwnOutputs, ScanNames
    <2>3. QED
      BY <2>1, <2>2
  <1>3. CASE action = "plan_destroy"
    BY <1>3 DEF Signed, Uploaded, ToSet, Logs, MutationActions, OutputNames, OwnOutputs, ScanNames
  <1>4. CASE action = "drift"
    BY <1>4 DEF Signed, Uploaded, ToSet, Logs, MutationActions, ScansOf, OutputNames, OwnOutputs,
                ScanNames
  <1>5. CASE action = "apply"
    BY <1>5 DEF Signed, Uploaded, ToSet, Logs, MutationActions, Output, OutputNames, OwnOutputs,
                ScanNames
  <1>6. CASE action = "destroy"
    BY <1>6 DEF Signed, Uploaded, ToSet, Logs, MutationActions, Output, OutputNames, OwnOutputs,
                ScanNames
  <1>7. QED
    BY <1>1, <1>2, <1>3, <1>4, <1>5, <1>6, ActionNames

\* The schema admits the outputs, and asks for them and a plan's files of a success.
LEMMA SchemaNames ==
  ASSUME NEW action \in Actions, NEW focus
  PROVE  /\ FailureEntries(action, focus) = OutputNames(action, focus)
         /\ SuccessEntries(action, focus) =
              (OutputNames(action, focus) \ Optional) \cup {"done", "package"}
                \cup ToSet(PlanFiles(action))
  <1>1. FailureEntries(action, focus) = OutputNames(action, focus)
    <2>1. ToSet(Logs) = {"init.out", "validate.out"}
            /\ ToSet(Scans) = {"tfsec.json", "tfsec.output", "infracost.json", "infracost.output"}
      BY DEF Logs, Scans, ToSet
    <2>2. CASE action \in {"plan", "report"}
      BY <2>1, <2>2 DEF FailureEntries, MutationActions, OutputNames, OwnOutputs, ScanNames
    <2>3. CASE action = "plan_destroy"
      BY <2>1, <2>3 DEF FailureEntries, MutationActions, OutputNames, OwnOutputs, ScanNames
    <2>4. CASE action = "drift"
      BY <2>1, <2>4 DEF FailureEntries, MutationActions, OutputNames, OwnOutputs, ScanNames
    <2>5. CASE action \in {"apply", "destroy"}
      BY <2>1, <2>5 DEF FailureEntries, MutationActions, Output, OutputNames, OwnOutputs, ScanNames
    <2>6. QED
      BY <2>2, <2>3, <2>4, <2>5, ActionNames
  <1>2. QED
    BY <1>1 DEF SuccessEntries

LEMMA OutputsAreOutputs ==
  ASSUME NEW action \in Actions, NEW focus
  PROVE  /\ OutputNames(action, focus) \cap (AllPlanFiles \cup {"done", "package", "manifest.json"}) = {}
         /\ "drift.json" \in OutputNames(action, focus) => action = "drift"
  BY PlanNames, ActionNames DEF OutputNames, OwnOutputs, ScanNames

\* What is signed is what is sent, and what the manifest admits.
LEMMA SameTypes == \A name : Acceptable(name)
  BY DEF Acceptable, SignedType, SentType, JsonFiles, BinaryPlans

LEMMA AdmittedTypes ==
  ASSUME NEW name, name \notin {"done", "package"}
  PROVE  SentType(name) \in TypesOf(name)
  BY DEF SentType, TypesOf, JsonFiles, BinaryPlans

LEMMA PlanSeq ==
  ASSUME NEW action \in Actions
  PROVE  /\ PlanFiles(action) \in Seq(AllNames)
         /\ ToSet(PlanFiles(action)) \subseteq AllPlanFiles
         /\ action \notin Planned => ToSet(PlanFiles(action)) = {}
  <1>1. AllPlanFiles \subseteq AllNames
    BY DEF AllNames
  <1>2. CASE action \in {"plan", "report"}
    BY <1>1, <1>2, PlanNames DEF PlanFiles, Planned, ToSet
  <1>3. CASE action = "plan_destroy"
    BY <1>1, <1>3, PlanNames DEF PlanFiles, Planned, ToSet
  <1>4. CASE action \notin Planned
    <2>1. PlanFiles(action) = <<>>
      BY <1>4 DEF PlanFiles, Planned
    <2>2. QED
      BY <2>1, EmptySeq DEF ToSet
  <1>5. QED
    BY <1>2, <1>3, <1>4, ActionNames DEF Planned

\* The markers of an engine that does not break its contract.
Markers == {Succeeded} \cup Failures \cup Expiries

-----------------------------------------------------------------------------
(* What holds where nothing has failed.                                    *)

\* The states of the machine after the marker of its attempt was read, and after a manifest
\* was committed.
Decided == {"record", "collected", "succeeded"}
Over == {"bookkeep", "collect", "build"} \cup Decided

\* What a script that succeeds leaves behind.
Required ==
  ToSet(PlanFiles(run.action))
    \cup (OutputsUpTo(Len(Uploaded(run.action, run.focus))) \ Optional)

\* A script that has ended has uploaded everything and has its marker; only that of the
\* attempt the machine has come to may still run.
ScriptsClean ==
  /\ \A a \in Attempts :
       /\ script[a].pc = "ended" => script[a].todo = {}
       /\ a < inner.attempt => script[a].pc = "ended"
  /\ inner.pc \in Over => Exists(DoneUri(inner.attempt))

\* What is stored is well-formed.
ObjectsClean ==
  /\ \A name \in WithUrl : Exists(Tmp(Tree, name)) =>
       objects[Tmp(Tree, name)].fits /\ objects[Tmp(Tree, name)].type = SentType(name)
  /\ \A a \in Attempts : Exists(DoneUri(a)) =>
       LET marker == objects[DoneUri(a)] IN
       /\ marker.fits /\ marker.type = "binary/octet-stream" /\ marker.body \in Markers
       /\ marker.body = Succeeded <=> script[a].ok
  /\ \A a \in Attempts : script[a].pc # "idle" =>
       /\ Exists(PackageUri(a))
       /\ objects[PackageUri(a)].fits /\ objects[PackageUri(a)].type = "application/zip"

\* What the current attempt has to upload is there or comes.
UploadsClean ==
  LET a == inner.attempt IN
  script[a].pc # "idle" /\ script[a].ok =>
    \A name \in Required :
      \/ name \in script[a].todo
      \/ Exists(Tmp(Tree, name)) /\ objects[Tmp(Tree, name)].body = BodyOf(name, a)

OutcomeClean ==
  inner.pc \in {"collect", "build"} \cup Decided => inner.ok = script[inner.attempt].ok

\* What is listed is stored.
AsStored(entries) ==
  \A name \in DOMAIN entries : Exists(UriOf(name)) /\ entries[name] = EntryOf(name)

CollectionClean ==
  inner.pc = "build" =>
    /\ collector = [metadata |-> collector.metadata, entries |-> collector.entries,
                    todo |-> collector.todo]
    /\ inner.ok /\ run.action \in Planned =>
         collector.metadata = Metadata(run.action, inner.attempt, Tree)
    /\ collector.todo \in Seq(AllNames)
    /\ ToSet(collector.todo) \cup DOMAIN collector.entries \subseteq ToSet(Expected)
    /\ inner.ok =>
         ToSet(Expected) \subseteq ToSet(collector.todo) \cup DOMAIN collector.entries \cup Optional
    /\ AsStored(collector.entries)

CommitClean ==
  /\ Exists(ManifestUri(Tree)) => inner.pc \in Decided
  /\ inner.pc \in Decided =>
       /\ Exists(ManifestUri(Tree))
       /\ Committed.action = run.action
       /\ Committed.exec = inner.attempt
       /\ Committed.failed = ~inner.ok
       /\ DOMAIN Committed.entries \subseteq AllNames
       /\ AsStored(Committed.entries)

\* The row of an attempt is written when it is over.
RowClean ==
  /\ inner.pc \notin {"collected", "succeeded"} => row = None \/ row.attempt < inner.attempt
  /\ inner.pc \in {"collected", "succeeded"} => row = RowOf(inner.attempt, inner.ok)

Clean ==
  /\ inner.pc \notin {"failure", "report", "failed", "unreported"}
  /\ ScriptsClean /\ ObjectsClean /\ UploadsClean
  /\ OutcomeClean /\ CollectionClean /\ CommitClean /\ RowClean

CleanInv == faults = 0 => Clean

-----------------------------------------------------------------------------
(* Facts about the names of a run.                                         *)

LEMMA UploadedSeq ==
  ASSUME NEW action \in Actions, NEW focus
  PROVE  Uploaded(action, focus) \in Seq(AllNames)
  <1>1. Logs \in Seq(AllNames) /\ Scans \in Seq(AllNames) /\ <<>> \in Seq(AllNames)
    BY EmptySeq DEF Logs, Scans, AllNames
  <1>2. ScansOf(action, focus) \in Seq(AllNames)
    BY <1>1 DEF ScansOf
  <1>3. /\ <<"tf/plan.out", "drift.json">> \in Seq(AllNames)
        /\ <<"destroy.plan.out">> \in Seq(AllNames)
        /\ <<"plan-show.out", "apply.out">> \in Seq(AllNames)
        /\ <<"plan-show.out", "destroy.out">> \in Seq(AllNames)
    BY DEF AllNames
  <1>4. \/ Uploaded(action, focus) = Logs \o <<"destroy.plan.out">>
        \/ Uploaded(action, focus) = Logs \o <<"plan-show.out", "apply.out">>
        \/ Uploaded(action, focus) = Logs \o <<"plan-show.out", "destroy.out">>
        \/ Uploaded(action, focus) =
             (Logs \o <<"tf/plan.out", "drift.json">>) \o ScansOf(action, focus)
    BY ActionNames DEF Uploaded, MutationActions, Output
  <1>5. \A t \in Seq(AllNames) : Logs \o t \in Seq(AllNames)
    BY <1>1, SetOfJoin
  <1>6. (Logs \o <<"tf/plan.out", "drift.json">>) \o ScansOf(action, focus) \in Seq(AllNames)
    BY <1>2, <1>3, <1>5, SetOfJoin
  <1>7. QED
    BY <1>3, <1>4, <1>5, <1>6

\* The outputs of the run, and its plan files, have a URL and are required of a success.
LEMMA RunNames ==
  ASSUME run.action \in Actions
  PROVE  /\ OutputNames(run.action, run.focus) \subseteq WithUrl
         /\ ToSet(PlanFiles(run.action)) \subseteq AllPlanFiles
         /\ ToSet(PlanFiles(run.action)) \subseteq Required
         /\ OutputNames(run.action, run.focus) \ Optional \subseteq Required
         /\ Required \subseteq WithUrl
  <1> DEFINE all == Len(Uploaded(run.action, run.focus))
  <1>1. OutputNames(run.action, run.focus) \subseteq WithUrl
    BY SignedOutputs DEF WithUrl
  <1>2. ToSet(PlanFiles(run.action)) \subseteq AllPlanFiles
    BY PlanSeq
  <1>3. OutputNames(run.action, run.focus) \subseteq OutputsUpTo(all)
    <2>1. SUFFICES ASSUME NEW name \in OutputNames(run.action, run.focus)
                   PROVE  name \in OutputsUpTo(all)
      OBVIOUS
    <2>2. name \in ToSet(Uploaded(run.action, run.focus))
      BY SignedOutputs
    <2>3. \E i \in 1..all : name = Uploaded(run.action, run.focus)[i]
      BY <2>2, UploadedSeq, SetOfSeq
    <2>4. name = "drift.json" => run.action = "drift"
      BY OutputsAreOutputs
    <2>5. QED
      BY <1>1, <2>3, <2>4 DEF OutputsUpTo
  <1>4. OutputsUpTo(all) \subseteq WithUrl
    BY DEF OutputsUpTo
  <1>5. AllPlanFiles \subseteq WithUrl
    BY DEF WithUrl
  <1>6. QED
    BY <1>1, <1>2, <1>3, <1>4, <1>5 DEF Required

\* What Collect looks for.
LEMMA ExpectedNames ==
  ASSUME run.action \in Actions
  PROVE  /\ Expected \in Seq(AllNames)
         /\ ToSet(Expected) =
              OutputNames(run.action, run.focus)
                \cup (IF inner.ok THEN {"done", "package"} \cup ToSet(PlanFiles(run.action)) ELSE {})
  <1>1. Listed(run.action, run.focus) \in Seq(AllNames)
          /\ ToSet(Listed(run.action, run.focus)) = OutputNames(run.action, run.focus)
    BY ListedSeq, ListedNames
  <1>2. <<"done", "package">> \in Seq(AllNames) /\ ToSet(<<"done", "package">>) = {"done", "package"}
    BY DEF AllNames, ToSet
  <1>3. CASE inner.ok
    <2>1. PICK first, files, rest :
             /\ first = <<"done", "package">> /\ files = PlanFiles(run.action)
             /\ rest = first \o files
      OBVIOUS
    <2>2. first \in Seq(AllNames) /\ ToSet(first) = {"done", "package"}
      BY <1>2, <2>1
    <2>3. files \in Seq(AllNames)
      BY <2>1, PlanSeq
    <2>4. first \o files \in Seq(AllNames) /\ ToSet(first \o files) = ToSet(first) \cup ToSet(files)
      BY <2>2, <2>3, SetOfJoin
    <2>5. rest \in Seq(AllNames)
            /\ ToSet(rest) = {"done", "package"} \cup ToSet(PlanFiles(run.action))
      BY <2>1, <2>4, <2>2
    <2>6. Expected = Listed(run.action, run.focus) \o rest
      BY <1>3, <2>1 DEF Expected
    <2>7. QED
      BY <1>1, <1>3, <2>5, <2>6, SetOfJoin
  <1>4. CASE ~inner.ok
    <2>1. Expected = Listed(run.action, run.focus) \o <<>>
      BY <1>4 DEF Expected
    <2>2. QED
      BY <1>1, <1>4, <2>1, ConcatEmptySeq
  <1>5. QED
    BY <1>3, <1>4

LEMMA ExpectedUris ==
  ASSUME run.action \in Actions, NEW name \in ToSet(Expected)
  PROVE  /\ name = "done" => inner.ok /\ UriOf(name) = DoneUri(inner.attempt)
         /\ name = "package" => inner.ok /\ UriOf(name) = PackageUri(inner.attempt)
         /\ name \notin {"done", "package"} =>
              name \in WithUrl /\ UriOf(name) = Tmp(Tree, name)
         /\ name # "manifest.json" /\ UriOf(name) # ManifestUri(Tree)
  <1>1. OutputNames(run.action, run.focus) \cap {"done", "package", "manifest.json"} = {}
    BY OutputsAreOutputs
  <1>2. ToSet(PlanFiles(run.action)) \subseteq WithUrl
    BY RunNames
  <1>3. name \notin {"done", "package"} => name \in WithUrl
    BY ExpectedNames, RunNames
  <1>4. name \in {"done", "package"} => inner.ok
    BY <1>1, <1>2, ExpectedNames, UrlNames
  <1>5. name # "manifest.json"
    BY <1>3, UrlNames
  <1>6. UriOf(name) # ManifestUri(Tree)
    BY <1>5, Keys, ManifestKey DEF UriOf
  <1>7. QED
    BY <1>3, <1>4, <1>5, <1>6 DEF UriOf

\* The metadata of a plan, where the script uploads it.
LEMMA MetadataName ==
  ASSUME run.action \in Planned
  PROVE  /\ PlanFiles(run.action)[3] \in ToSet(PlanFiles(run.action))
         /\ MetadataUri = Tmp(Tree, PlanFiles(run.action)[3])
         /\ \A a : BodyOf(PlanFiles(run.action)[3], a) = Metadata(run.action, a, Tree)
  <1>1. PlanFiles(run.action)[3] \in {"plan-metadata.json", "destroy-plan-metadata.json"}
    BY DEF PlanFiles, Planned
  <1>2. ToSet(PlanFiles(run.action)) = {PlanFiles(run.action)[i] : i \in 1..3}
    BY PlansOfAction
  <1>3. PlanFiles(run.action)[3] \in ToSet(PlanFiles(run.action))
    BY <1>2
  <1>4. MetadataUri = Tmp(Tree, PlanFiles(run.action)[3])
    BY DEF MetadataUri, PlanUris
  <1>5. QED
    BY <1>1, <1>3, <1>4 DEF BodyOf

\* A plan file is no metadata but the third.
LEMMA PlanBodies ==
  ASSUME run.action \in Planned, NEW name \in ToSet(PlanFiles(run.action)),
         name # PlanFiles(run.action)[3], NEW a
  PROVE  BodyOf(name, a) = a
  <1>1. name \notin {"plan-metadata.json", "destroy-plan-metadata.json"}
    BY DEF PlanFiles, Planned, ToSet
  <1>2. QED
    BY <1>1 DEF BodyOf

LEMMA MetadataIsSome ==
  ASSUME IInv, run.action \in Planned
  PROVE  Metadata(run.action, inner.attempt, Tree) # None
  <1>1. inner.attempt \in 0..1 /\ run \in Runs
    BY MachineTypes, Types DEF IInv, Attempts
  <1>2. QED
    BY <1>1, NoneAssumption DEF Tree

LEMMA MarkerFacts ==
  ASSUME NEW marker \in Markers
  PROVE  WellFormed(marker) /\ (marker.status = "succeeded" <=> marker = Succeeded)
  <1>1. None # 1 /\ None # "no runner" /\ None # "expired"
    BY NoneAssumption
  <1>2. CASE marker = Succeeded
    BY <1>2 DEF WellFormed, Succeeded
  <1>3. CASE marker = [status |-> "failed", error |-> None, exit |-> 1, output |-> None]
    <2>1. marker.status = "failed" /\ marker.exit = 1
      BY <1>3
    <2>2. marker.exit # None
      BY <1>1, <2>1, Zenon
    <2>3. 1 # 0
      OBVIOUS
    <2>4. marker.exit # 0
      BY <2>1, <2>3, Zenon
    <2>5. WellFormed(marker)
      BY <2>1, <2>2, <2>4 DEF WellFormed
    <2>6. marker.status # "succeeded" /\ marker # Succeeded
      BY <2>1 DEF Succeeded
    <2>7. QED
      BY <2>5, <2>6
  <1>4. CASE marker = [status |-> "failed", error |-> "no runner", exit |-> None, output |-> None]
    BY <1>1, <1>4 DEF WellFormed, Succeeded
  <1>5. CASE marker = [status |-> "failed", error |-> None, exit |-> 1, output |-> "expired"]
    <2>1. marker.status = "failed" /\ marker.exit = 1
      BY <1>5
    <2>2. marker.exit # None
      BY <1>1, <2>1, Zenon
    <2>3. 1 # 0
      OBVIOUS
    <2>4. marker.exit # 0
      BY <2>1, <2>3, Zenon
    <2>5. WellFormed(marker)
      BY <2>1, <2>2, <2>4 DEF WellFormed
    <2>6. marker.status # "succeeded" /\ marker # Succeeded
      BY <2>1 DEF Succeeded
    <2>7. QED
      BY <2>5, <2>6
  <1>6. CASE marker = [status |-> "failed", error |-> "expired", exit |-> None, output |-> None]
    BY <1>1, <1>6 DEF WellFormed, Succeeded
  <1>7. QED
    BY <1>2, <1>3, <1>4, <1>5, <1>6 DEF Markers, Failures, Expiries

-----------------------------------------------------------------------------
(* Steps that store nothing.                                               *)

LEMMA FaultFree == ASSUME IInv, faults' = 0, Fault PROVE FALSE
  <1>1. faults \in Nat
    BY Types, Numbers DEF IInv
  <1>2. QED
    BY <1>1 DEF Fault

\* When the marker of an attempt was read its script has ended, and left what it had to.
LEMMA Settled ==
  ASSUME IInv, Clean, inner.pc \in Over
  PROVE  /\ script[inner.attempt].pc = "ended" /\ Exists(DoneUri(inner.attempt))
         /\ script[inner.attempt].ok =>
              \A name \in Required : Exists(Tmp(Tree, name))
                /\ objects[Tmp(Tree, name)].body = BodyOf(name, inner.attempt)
  <1>1. inner.attempt \in Attempts
    BY MachineTypes DEF IInv
  <1>2. script[inner.attempt].pc = "ended" /\ Exists(DoneUri(inner.attempt))
    BY <1>1 DEF IInv, SubmissionInv, Clean, ScriptsClean
  <1>3. script[inner.attempt].todo = {}
    BY <1>1, <1>2 DEF Clean, ScriptsClean
  <1>4. QED
    BY <1>2, <1>3 DEF Clean, UploadsClean

LEMMA MachineClean ==
  ASSUME Clean, UNCHANGED <<run, objects, script>>, inner'.attempt = inner.attempt,
         inner'.pc \in Over => Exists(DoneUri(inner.attempt))
  PROVE  ScriptsClean' /\ ObjectsClean' /\ UploadsClean'
  <1>1. Tree' = Tree /\ WithUrl' = WithUrl /\ (\A name, a : BodyOf(name, a)' = BodyOf(name, a))
    BY RunFrame
  <1>2. ScriptsClean'
    BY DEF Clean, ScriptsClean, Exists
  <1>3. ObjectsClean'
    BY <1>1 DEF Clean, ObjectsClean, Exists
  <1>4. Required' = Required
    BY <1>1 DEF Required, OutputsUpTo
  <1>5. UploadsClean'
    BY <1>1, <1>4 DEF Clean, UploadsClean, Exists
  <1>6. QED
    BY <1>2, <1>3, <1>5

LEMMA StoredFrame ==
  ASSUME NEW entries, AsStored(entries), UNCHANGED <<run, objects>>, inner'.attempt = inner.attempt
  PROVE  AsStored(entries)'
  <1>1. \A name : UriOf(name)' = UriOf(name)
    BY RunFrame DEF UriOf
  <1>2. \A name : EntryOf(name)' = EntryOf(name)
    BY <1>1 DEF EntryOf
  <1>3. QED
    BY <1>1, <1>2 DEF AsStored, Exists

LEMMA ExpectedFrame ==
  ASSUME UNCHANGED run, inner'.ok = inner.ok PROVE Expected' = Expected
  BY DEF Expected

\* The machine goes on before there is a manifest.
LEMMA BeforeCommit ==
  ASSUME Clean, UNCHANGED <<run, objects, row>>, inner'.attempt = inner.attempt,
         inner.pc \notin Decided, inner'.pc \notin Decided
  PROVE  CommitClean' /\ RowClean'
  <1>1. ~Exists(ManifestUri(Tree))' /\ ~Exists(ManifestUri(Tree))
    BY RunFrame DEF Clean, CommitClean, Exists
  <1>2. QED
    BY <1>1 DEF Clean, CommitClean, RowClean, Decided

LEMMA ProbeClean == ASSUME IInv, Clean, Probe PROVE Clean'
  <1>1. PICK marker : marker = objects[DoneUri(inner.attempt)].body
    OBVIOUS
  <1>2. inner.attempt \in Attempts /\ Exists(DoneUri(inner.attempt)) /\ inner.pc = "probe"
    BY MachineTypes DEF IInv, Probe
  <1>3. marker \in Markers /\ (marker = Succeeded <=> script[inner.attempt].ok)
    BY <1>1, <1>2 DEF Clean, ObjectsClean
  <1>4. WellFormed(marker) /\ (marker.status = "succeeded" <=> script[inner.attempt].ok)
    BY <1>3, MarkerFacts
  <1>5. /\ inner'.attempt = inner.attempt /\ inner'.pc \in {"bookkeep", "collect"}
        /\ inner'.pc = "collect" => inner'.ok = script[inner.attempt].ok
    <2>1. CASE Expired(marker) /\ Retries
      BY <1>1, <1>4, <2>1, GotoValue DEF Probe, IInv, Pcs
    <2>2. CASE ~(Expired(marker) /\ Retries)
      <3>1. inner' = [inner EXCEPT !.pc = "collect", !.ok = (marker.status = "succeeded")]
        BY <1>1, <1>4, <2>2 DEF Probe
      <3>2. inner \in InnerTypes /\ script[inner.attempt].ok \in BOOLEAN
        BY <1>2, Types, ScriptTypes DEF IInv
      <3>3. inner'.pc = "collect" /\ inner'.attempt = inner.attempt
              /\ inner'.ok = (marker.status = "succeeded")
        BY <3>1, <3>2 DEF InnerTypes
      <3>4. QED
        BY <1>4, <3>2, <3>3
    <2>3. QED
      BY <2>1, <2>2
  <1>6. ScriptsClean' /\ ObjectsClean' /\ UploadsClean'
    BY <1>2, <1>5, MachineClean DEF Probe
  <1>7. OutcomeClean' /\ CollectionClean'
    BY <1>5 DEF OutcomeClean, CollectionClean, Decided, Probe
  <1>8. CommitClean' /\ RowClean'
    BY <1>2, <1>5, BeforeCommit DEF Probe, Decided
  <1>9. QED
    BY <1>5, <1>6, <1>7, <1>8 DEF Clean

LEMMA BookkeepClean == ASSUME IInv, Clean, Bookkeep PROVE Clean'
  <1>1. inner.attempt = 0 /\ inner.pc = "bookkeep"
    BY DEF IInv, SubmissionInv, Bookkeep
  <1>2. inner'.attempt = 1 /\ inner'.pc = "prepare"
    <2>1. inner \in InnerTypes
      BY Types DEF IInv
    <2>2. QED
      BY <1>1, <2>1 DEF Bookkeep, InnerTypes
  <1>3. script[0].pc = "ended" /\ script[1].pc = "idle" /\ Attempts = {0, 1}
    BY <1>1, Settled DEF Over, IInv, SubmissionInv, Attempts
  <1>4. ScriptsClean'
    BY <1>2, <1>3 DEF Clean, ScriptsClean, Bookkeep, Over, Decided
  <1>5. ObjectsClean'
    BY RunFrame DEF Clean, ObjectsClean, Exists, Bookkeep
  <1>6. UploadsClean'
    BY <1>2, <1>3 DEF UploadsClean, Bookkeep
  <1>7. OutcomeClean' /\ CollectionClean'
    BY <1>2 DEF OutcomeClean, CollectionClean, Decided
  <1>8. CommitClean'
    <2>1. ~Exists(ManifestUri(Tree))
      BY <1>1 DEF Clean, CommitClean, Decided
    <2>2. QED
      BY <1>2, <2>1, RunFrame DEF CommitClean, Decided, Exists, Bookkeep
  <1>9. RowClean'
    <2>1. row' = [exec |-> 0, attempt |-> 0, ok |-> FALSE, manifest |-> None]
      BY <1>1 DEF Bookkeep, PutRow, Clean, RowClean
    <2>2. row'.attempt = 0
      BY <2>1
    <2>3. QED
      BY <1>2, <2>2 DEF RowClean
  <1>10. QED
    BY <1>2, <1>4, <1>5, <1>6, <1>7, <1>8, <1>9 DEF Clean

-----------------------------------------------------------------------------
(* Scripts.                                                                *)

\* The script that still runs is that of the machine's attempt, which waits for it.
LEMMA Running ==
  ASSUME IInv, Clean, NEW a \in Attempts, script[a].pc = "running"
  PROVE  a = inner.attempt /\ inner.pc \notin Over
  <1>1. a \in Nat /\ inner.attempt \in Nat
    BY MachineTypes DEF IInv, Attempts
  <1>2. ~(a < inner.attempt) /\ ~(a > inner.attempt)
    BY DEF Clean, ScriptsClean, IInv, SubmissionInv
  <1>3. a = inner.attempt
    BY <1>1, <1>2
  <1>4. QED
    BY <1>3, Settled

\* Until there is an outcome a script touches nothing the machine relies on.
LEMMA WaitingClean ==
  ASSUME Clean, UNCHANGED <<run, row>>, inner'.attempt = inner.attempt,
         inner.pc \notin Over, inner'.pc \notin Over, ManifestKept
  PROVE  OutcomeClean' /\ CollectionClean' /\ CommitClean' /\ RowClean'
  <1>1. ~Exists(ManifestUri(Tree))'
    BY DEF Clean, CommitClean, ManifestKept, Over
  <1>2. QED
    BY <1>1 DEF Clean, OutcomeClean, CollectionClean, CommitClean, RowClean, Over, Decided

LEMMA UploadClean == ASSUME IInv, Clean, faults' = 0, NEW a \in Attempts, Upload(a) PROVE Clean'
  <1>1. PICK name \in script[a].todo, fits \in BOOLEAN :
          /\ Due(a, name)
          /\ IF fits THEN UNCHANGED faults ELSE Fault
          /\ Put(Tmp(Tree, name),
                 [body |-> BodyOf(name, a), fits |-> fits, type |-> SentType(name)])
          /\ script' = [script EXCEPT ![a].todo = @ \ {name}]
    BY DEF Upload
  <1>2. fits = TRUE
    BY <1>1, FaultFree
  <1>3. script[a].pc = "running" /\ name \in WithUrl /\ script[a] \in Scripts
    BY <1>1, ScriptTypes DEF Due, IInv
  <1>4. a = inner.attempt /\ inner.pc \notin Over
    BY <1>3, Running
  <1>5. /\ script'[a].todo = script[a].todo \ {name}
        /\ script'[a].pc = "running" /\ script'[a].ok = script[a].ok
        /\ \A b \in Attempts \ {a} : script'[b] = script[b]
    <2>1. PICK s : s = [script[a] EXCEPT !.todo = @ \ {name}]
      OBVIOUS
    <2>2. s.todo = script[a].todo \ {name} /\ s.pc = "running" /\ s.ok = script[a].ok
      BY <1>3, <2>1 DEF Scripts
    <2>3. script' = [script EXCEPT ![a] = s]
      BY <1>1, <2>1
    <2>4. script \in [Attempts -> Scripts]
      BY Types DEF IInv
    <2>5. QED
      BY <2>2, <2>3, <2>4
  <1>6. UNCHANGED <<run, inner, row>> /\ Tmp(Tree, name) # ManifestUri(Tree)
    BY <1>3, UrlNames, Keys, ManifestKey DEF Upload
  <1>7. /\ Tree' = Tree /\ WithUrl' = WithUrl
        /\ \A n, b : BodyOf(n, b)' = BodyOf(n, b)
    BY <1>6, RunFrame
  <1>8. /\ Exists(Tmp(Tree, name))'
        /\ objects'[Tmp(Tree, name)].body = BodyOf(name, a)
        /\ objects'[Tmp(Tree, name)].fits
        /\ objects'[Tmp(Tree, name)].type = SentType(name)
    BY <1>1, <1>2, <1>7, PutObject
  <1>9. \A n : n # name =>
          /\ Exists(Tmp(Tree, n))' <=> Exists(Tmp(Tree, n))
          /\ Exists(Tmp(Tree, n)) => objects'[Tmp(Tree, n)] = objects[Tmp(Tree, n)]
    BY <1>1, <1>7, PutObject, Keys
  <1>10. \A b : /\ Exists(DoneUri(b))' <=> Exists(DoneUri(b))
                /\ Exists(DoneUri(b)) => objects'[DoneUri(b)] = objects[DoneUri(b)]
                /\ Exists(PackageUri(b))' <=> Exists(PackageUri(b))
                /\ Exists(PackageUri(b)) => objects'[PackageUri(b)] = objects[PackageUri(b)]
    BY <1>1, PutObject, Keys
  <1>11. ScriptsClean'
    BY <1>3, <1>4, <1>5, <1>6 DEF Clean, ScriptsClean
  <1>12. ObjectsClean'
    <2>1. \A n \in WithUrl : Exists(Tmp(Tree, n))' =>
            objects'[Tmp(Tree, n)].fits /\ objects'[Tmp(Tree, n)].type = SentType(n)
      BY <1>8, <1>9 DEF Clean, ObjectsClean
    <2>2. \A b \in Attempts : Exists(DoneUri(b))' =>
            LET marker == objects'[DoneUri(b)] IN
            /\ marker.fits /\ marker.type = "binary/octet-stream" /\ marker.body \in Markers
            /\ marker.body = Succeeded <=> script'[b].ok
      BY <1>5, <1>10 DEF Clean, ObjectsClean
    <2>3. \A b \in Attempts : script'[b].pc # "idle" =>
            /\ Exists(PackageUri(b))'
            /\ objects'[PackageUri(b)].fits /\ objects'[PackageUri(b)].type = "application/zip"
      BY <1>3, <1>5, <1>10 DEF Clean, ObjectsClean
    <2>4. QED
      BY <1>7, <2>1, <2>2, <2>3 DEF ObjectsClean
  <1>13. UploadsClean'
    <2>1. Required' = Required
      BY <1>6, <1>7 DEF Required, OutputsUpTo
    <2>2. SUFFICES ASSUME script[a].ok, NEW n \in Required
                   PROVE  \/ n \in script'[a].todo
                          \/ /\ Exists(Tmp(Tree, n))'
                             /\ objects'[Tmp(Tree, n)].body = BodyOf(n, a)
      BY <1>4, <1>5, <1>6, <1>7, <2>1 DEF UploadsClean
    <2>3. \/ n \in script[a].todo
          \/ Exists(Tmp(Tree, n)) /\ objects[Tmp(Tree, n)].body = BodyOf(n, a)
      <3>1. UploadsClean /\ script[a].pc # "idle"
        BY <1>3 DEF Clean
      <3>2. QED
        BY <1>4, <2>2, <3>1 DEF UploadsClean
    <2>4. QED
      BY <1>5, <1>8, <1>9, <2>3
  <1>14. ManifestKept
    BY <1>1, <1>6, PutKeepsManifest
  <1>15. QED
    BY <1>4, <1>6, <1>11, <1>12, <1>13, <1>14, WaitingClean DEF Clean

LEMMA UploadNeverFails ==
  ASSUME IInv, faults' = 0, NEW a \in Attempts, UploadFails(a) PROVE FALSE
  BY SameTypes, FaultFree DEF UploadFails

LEMMA ExitsClean == ASSUME IInv, Clean, faults' = 0, NEW a \in Attempts, Exits(a) PROVE Clean'
  <1>1. PICK marker :
          /\ marker \in Markers
          /\ script[a].ok <=> marker = Succeeded
          /\ Put(DoneUri(a), [body |-> marker, fits |-> TRUE, type |-> "binary/octet-stream"])
    <2>1. PICK marker \in {Succeeded, Malformed} \cup Failures \cup Expiries :
            /\ IF marker = Malformed THEN Fault ELSE UNCHANGED faults
            /\ marker # Malformed => script[a].ok = (marker = Succeeded)
            /\ Put(DoneUri(a), [body |-> marker, fits |-> TRUE, type |-> "binary/octet-stream"])
      BY DEF Exits
    <2>2. marker # Malformed
      BY <2>1, FaultFree
    <2>3. QED
      BY <2>1, <2>2 DEF Markers
  <1>2. script[a].pc = "running" /\ script[a].todo = {} /\ script[a] \in Scripts
    BY ScriptTypes DEF Exits, IInv
  <1>3. a = inner.attempt /\ inner.pc \notin Over
    BY <1>2, Running
  <1>4. /\ script'[a].todo = {} /\ script'[a].pc = "ended" /\ script'[a].ok = script[a].ok
        /\ \A b \in Attempts \ {a} : script'[b] = script[b]
    <2>1. PICK s : s = [script[a] EXCEPT !.pc = "ended"]
      OBVIOUS
    <2>2. s.todo = {} /\ s.pc = "ended" /\ s.ok = script[a].ok
      BY <1>2, <2>1 DEF Scripts
    <2>3. script' = [script EXCEPT ![a] = s]
      BY <2>1 DEF Exits
    <2>4. script \in [Attempts -> Scripts]
      BY Types DEF IInv
    <2>5. QED
      BY <2>2, <2>3, <2>4
  <1>5. UNCHANGED <<run, inner, row>> /\ DoneUri(a) # ManifestUri(Tree)
    BY Keys, ManifestKey DEF Exits
  <1>6. /\ Tree' = Tree /\ WithUrl' = WithUrl
        /\ \A n, b : BodyOf(n, b)' = BodyOf(n, b)
    BY <1>5, RunFrame
  <1>7. /\ objects'[DoneUri(a)].body = marker /\ objects'[DoneUri(a)].fits
        /\ objects'[DoneUri(a)].type = "binary/octet-stream"
    BY <1>1, PutObject
  <1>8. \A n : /\ Exists(Tmp(Tree, n))' <=> Exists(Tmp(Tree, n))
               /\ Exists(Tmp(Tree, n)) => objects'[Tmp(Tree, n)] = objects[Tmp(Tree, n)]
    BY <1>1, <1>6, PutObject, Keys
  <1>9. \A b : /\ Exists(PackageUri(b))' <=> Exists(PackageUri(b))
               /\ Exists(PackageUri(b)) => objects'[PackageUri(b)] = objects[PackageUri(b)]
    BY <1>1, PutObject, Keys
  <1>10. \A b : b # a =>
           /\ Exists(DoneUri(b))' <=> Exists(DoneUri(b))
           /\ Exists(DoneUri(b)) => objects'[DoneUri(b)] = objects[DoneUri(b)]
    BY <1>1, PutObject, Keys
  <1>11. ScriptsClean'
    BY <1>3, <1>4, <1>5 DEF Clean, ScriptsClean
  <1>12. ObjectsClean'
    <2>1. \A n \in WithUrl : Exists(Tmp(Tree, n))' =>
            objects'[Tmp(Tree, n)].fits /\ objects'[Tmp(Tree, n)].type = SentType(n)
      BY <1>8 DEF Clean, ObjectsClean
    <2>2. \A b \in Attempts : Exists(DoneUri(b))' =>
            LET m == objects'[DoneUri(b)] IN
            /\ m.fits /\ m.type = "binary/octet-stream" /\ m.body \in Markers
            /\ m.body = Succeeded <=> script'[b].ok
      BY <1>1, <1>4, <1>7, <1>10 DEF Clean, ObjectsClean
    <2>3. \A b \in Attempts : script'[b].pc # "idle" =>
            /\ Exists(PackageUri(b))'
            /\ objects'[PackageUri(b)].fits /\ objects'[PackageUri(b)].type = "application/zip"
      BY <1>2, <1>4, <1>9 DEF Clean, ObjectsClean
    <2>4. QED
      BY <1>6, <2>1, <2>2, <2>3 DEF ObjectsClean
  <1>13. UploadsClean'
    <2>1. Required' = Required
      BY <1>5, <1>6 DEF Required, OutputsUpTo
    <2>2. SUFFICES ASSUME script[a].ok, NEW n \in Required
                   PROVE  /\ Exists(Tmp(Tree, n))'
                          /\ objects'[Tmp(Tree, n)].body = BodyOf(n, a)
      BY <1>3, <1>4, <1>5, <1>6, <2>1 DEF UploadsClean
    <2>3. Exists(Tmp(Tree, n)) /\ objects[Tmp(Tree, n)].body = BodyOf(n, a)
      BY <1>2, <1>3, <2>2 DEF Clean, UploadsClean
    <2>4. QED
      BY <1>8, <2>3
  <1>14. ManifestKept
    BY <1>1, <1>5, PutKeepsManifest
  <1>15. QED
    BY <1>3, <1>5, <1>11, <1>12, <1>13, <1>14, WaitingClean DEF Clean

\* A script that will succeed has to upload what is required of it.
LEMMA JobsClean ==
  ASSUME NEW job \in Jobs, job.ok
  PROVE  Required \subseteq job.todo
  <1> DEFINE all == Len(Uploaded(run.action, run.focus))
             plans == ToSet(PlanFiles(run.action))
  <1>1. job \in {[todo |-> plans \cup out, ok |-> TRUE] :
                   out \in {OutputsUpTo(all), OutputsUpTo(all) \ Optional}}
    BY DEF Jobs
  <1>2. PICK out \in {OutputsUpTo(all), OutputsUpTo(all) \ Optional} :
          job = [todo |-> plans \cup out, ok |-> TRUE]
    BY <1>1
  <1>3. QED
    BY <1>2 DEF Required

LEMMA SubmitClean == ASSUME IInv, Clean, Submit PROVE Clean'
  <1>0. PICK a : a = inner.attempt
    OBVIOUS
  <1>1. PICK job \in Jobs :
          script' = [script EXCEPT ![a] = [pc |-> "running", todo |-> job.todo, ok |-> job.ok]]
    BY <1>0 DEF Submit
  <1>2. /\ Put(PackageUri(a), [body |-> a, fits |-> TRUE, type |-> "application/zip"])
        /\ UNCHANGED <<run, row>> /\ inner.pc = "prepare"
    BY <1>0 DEF Submit
  <1>3. a \in Attempts /\ script[a].pc = "idle"
    BY <1>0, <1>2, MachineTypes DEF IInv, SubmissionInv
  <1>4. ~Exists(DoneUri(a))
    BY <1>3 DEF IInv, SubmissionInv
  <1>5. /\ script'[a].todo = job.todo /\ script'[a].pc = "running" /\ script'[a].ok = job.ok
        /\ \A b \in Attempts \ {a} : script'[b] = script[b]
    <2>1. script \in [Attempts -> Scripts]
      BY Types DEF IInv
    <2>2. QED
      BY <1>1, <1>3, <2>1
  <1>6. inner'.pc = "probe" /\ inner'.attempt = a
    BY <1>0, GotoValue DEF Submit, IInv, Pcs
  <1>7. /\ Tree' = Tree /\ WithUrl' = WithUrl
        /\ \A n, b : BodyOf(n, b)' = BodyOf(n, b)
    BY <1>2, RunFrame
  <1>8. \A n : /\ Exists(Tmp(Tree, n))' <=> Exists(Tmp(Tree, n))
               /\ Exists(Tmp(Tree, n)) => objects'[Tmp(Tree, n)] = objects[Tmp(Tree, n)]
    BY <1>2, <1>7, PutObject, Keys
  <1>9. \A b : /\ Exists(DoneUri(b))' <=> Exists(DoneUri(b))
               /\ Exists(DoneUri(b)) => objects'[DoneUri(b)] = objects[DoneUri(b)]
    BY <1>2, PutObject, Keys
  <1>10. \A b : b # a /\ Exists(PackageUri(b)) =>
           Exists(PackageUri(b))' /\ objects'[PackageUri(b)] = objects[PackageUri(b)]
    <2>1. \A b : b # a => PackageUri(b) # PackageUri(a)
      BY DEF PackageUri
    <2>2. QED
      BY <1>2, <2>1, PutObject
  <1>11. /\ Exists(PackageUri(a))'
         /\ objects'[PackageUri(a)].fits /\ objects'[PackageUri(a)].type = "application/zip"
    BY <1>2, PutObject
  <1>12. ScriptsClean'
    <2>1. a \in Nat
      BY <1>3 DEF Attempts
    <2>2. \A b \in Attempts : b < a => b # a
      BY <2>1 DEF Attempts
    <2>3. QED
      BY <1>0, <1>5, <1>6, <2>2 DEF Clean, ScriptsClean, Over, Decided
  <1>13. ObjectsClean'
    <2>1. \A n \in WithUrl : Exists(Tmp(Tree, n))' =>
            objects'[Tmp(Tree, n)].fits /\ objects'[Tmp(Tree, n)].type = SentType(n)
      BY <1>8 DEF Clean, ObjectsClean
    <2>2. \A b \in Attempts : Exists(DoneUri(b))' =>
            LET m == objects'[DoneUri(b)] IN
            /\ m.fits /\ m.type = "binary/octet-stream" /\ m.body \in Markers
            /\ m.body = Succeeded <=> script'[b].ok
      BY <1>4, <1>5, <1>9 DEF Clean, ObjectsClean
    <2>3. \A b \in Attempts : script'[b].pc # "idle" =>
            /\ Exists(PackageUri(b))'
            /\ objects'[PackageUri(b)].fits /\ objects'[PackageUri(b)].type = "application/zip"
      BY <1>5, <1>10, <1>11 DEF Clean, ObjectsClean
    <2>4. QED
      BY <1>7, <2>1, <2>2, <2>3 DEF ObjectsClean
  <1>14. UploadsClean'
    <2>1. Required' = Required
      BY <1>2, <1>7 DEF Required, OutputsUpTo
    <2>2. job.ok => Required \subseteq job.todo
      BY JobsClean
    <2>3. QED
      BY <1>5, <1>6, <1>7, <2>1, <2>2 DEF UploadsClean
  <1>15. ManifestKept
    <2>1. PackageUri(a) # ManifestUri(Tree)
      BY Keys, ManifestKey
    <2>2. QED
      BY <1>2, <2>1, PutKeepsManifest
  <1>16. OutcomeClean' /\ CollectionClean' /\ CommitClean' /\ RowClean'
    BY <1>0, <1>2, <1>6, <1>15, WaitingClean DEF Over, Decided
  <1>17. QED
    BY <1>6, <1>12, <1>13, <1>14, <1>16 DEF Clean

-----------------------------------------------------------------------------
(* Collect.                                                                *)

LEMMA CollectStartsClean == ASSUME IInv, Clean, CollectStarts PROVE Clean'
  <1>1. inner.pc = "collect" /\ UNCHANGED <<run, objects, script, row>>
    BY DEF CollectStarts
  <1>2. inner'.pc = "build" /\ inner'.attempt = inner.attempt /\ inner'.ok = inner.ok
    <2>1. inner \in InnerTypes
      BY Types DEF IInv
    <2>2. QED
      BY <2>1 DEF CollectStarts, InnerTypes
  <1>3. run.action \in Actions /\ inner.ok = script[inner.attempt].ok
    BY <1>1, MachineTypes DEF IInv, Clean, OutcomeClean
  <1>4. Tree' = Tree /\ Expected' = Expected
    BY <1>1, <1>2, RunFrame, ExpectedFrame
  <1>5. /\ collector'.entries = <<>> /\ collector'.todo = Expected
        /\ collector' = [metadata |-> collector'.metadata, entries |-> collector'.entries,
                         todo |-> collector'.todo]
    BY DEF CollectStarts
  <1>6. inner.ok /\ run.action \in Planned =>
          collector'.metadata = Metadata(run.action, inner.attempt, Tree)
    <2>1. SUFFICES ASSUME inner.ok, run.action \in Planned
                   PROVE  collector'.metadata = Metadata(run.action, inner.attempt, Tree)
      OBVIOUS
    <2>2. PlanFiles(run.action)[3] \in Required
      BY <1>3, <2>1, MetadataName, RunNames
    <2>3. Exists(MetadataUri) /\ objects[MetadataUri].body = Metadata(run.action, inner.attempt, Tree)
      BY <1>1, <1>3, <2>1, <2>2, Settled, MetadataName DEF Over
    <2>4. QED
      BY <2>1, <2>3 DEF CollectStarts
  <1>7. CollectionClean'
    <2>1. DOMAIN collector'.entries = {}
      BY <1>5
    <2>2. AsStored(collector.entries)'
      BY <2>1 DEF AsStored
    <2>3. Expected \in Seq(AllNames)
      BY <1>3, ExpectedNames
    <2>4. QED
      BY <1>1, <1>2, <1>4, <1>5, <1>6, <2>1, <2>2, <2>3 DEF CollectionClean
  <1>8. OutcomeClean'
    BY <1>1, <1>2, <1>3 DEF OutcomeClean
  <1>9. ScriptsClean' /\ ObjectsClean' /\ UploadsClean'
    BY <1>1, <1>2, Settled, MachineClean DEF Over
  <1>10. CommitClean' /\ RowClean'
    BY <1>1, <1>2, BeforeCommit DEF Decided
  <1>11. QED
    BY <1>2, <1>7, <1>8, <1>9, <1>10 DEF Clean

\* What Collect comes to is listed or, where it may be missing, passed over.
LEMMA NameFound ==
  ASSUME IInv, Clean, inner.pc = "build", NEW name \in ToSet(Expected), Exists(UriOf(name))
  PROVE  /\ Listable(name)
         /\ EntryOf(name).type \in TypesOf(name) /\ EntryOf(name).fits
  <1>1. run.action \in Actions /\ inner.attempt \in Attempts
    BY MachineTypes DEF IInv
  <1>2. script[inner.attempt].pc = "ended"
    BY Settled DEF Over
  <1>3. CASE name = "done"
    <2>1. UriOf(name) = DoneUri(inner.attempt)
      BY <1>3 DEF UriOf
    <2>2. objects[UriOf(name)].fits /\ objects[UriOf(name)].type = "binary/octet-stream"
      BY <1>1, <2>1 DEF Clean, ObjectsClean
    <2>3. name \notin AllPlanFiles
      BY <1>3, PlanNames
    <2>4. EntryOf(name).fits /\ EntryOf(name).type = "binary/octet-stream"
      BY <2>2 DEF EntryOf
    <2>5. "binary/octet-stream" \in TypesOf(name)
      BY <1>3 DEF TypesOf, JsonFiles, BinaryPlans
    <2>6. QED
      BY <2>2, <2>3, <2>4, <2>5 DEF Listable, PlanAgrees
  <1>4. CASE name = "package"
    <2>1. UriOf(name) = PackageUri(inner.attempt)
      BY <1>4 DEF UriOf
    <2>2. objects[UriOf(name)].fits /\ objects[UriOf(name)].type = "application/zip"
      BY <1>1, <1>2, <2>1 DEF Clean, ObjectsClean
    <2>3. name \notin AllPlanFiles
      BY <1>4, PlanNames
    <2>4. EntryOf(name).fits /\ EntryOf(name).type = "application/zip"
      BY <2>2 DEF EntryOf
    <2>5. "application/zip" \in TypesOf(name)
      BY <1>4 DEF TypesOf, JsonFiles, BinaryPlans
    <2>6. QED
      BY <2>2, <2>3, <2>4, <2>5 DEF Listable, PlanAgrees
  <1>5. CASE name \notin {"done", "package"}
    <2>1. name \in WithUrl /\ UriOf(name) = Tmp(Tree, name)
      BY <1>1, <1>5, ExpectedUris
    <2>2. objects[UriOf(name)].fits /\ objects[UriOf(name)].type = SentType(name)
      BY <2>1 DEF Clean, ObjectsClean
    <2>3. PlanAgrees(name, objects[UriOf(name)].body)
      <3>1. SUFFICES ASSUME name \in AllPlanFiles
                     PROVE  /\ collector.metadata # None
                            /\ ValidMetadata(collector.metadata, run.action, Tree)
                            /\ name # PlanFiles(run.action)[3] =>
                                 objects[UriOf(name)].body = collector.metadata.plan
        BY DEF PlanAgrees
      <3>2. inner.ok /\ name \in ToSet(PlanFiles(run.action)) /\ run.action \in Planned
        BY <1>1, <1>5, <3>1, ExpectedNames, OutputsAreOutputs, PlanSeq
      <3>3. collector.metadata = Metadata(run.action, inner.attempt, Tree)
        BY <3>2 DEF Clean, CollectionClean
      <3>4. collector.metadata # None
        BY <3>2, <3>3, MetadataIsSome
      <3>5. ValidMetadata(collector.metadata, run.action, Tree)
              /\ collector.metadata.plan = inner.attempt
        BY <3>2, <3>3 DEF ValidMetadata, Metadata
      <3>6. name \in Required /\ script[inner.attempt].ok
        BY <1>1, <3>2, RunNames DEF Clean, OutcomeClean
      <3>7. objects[UriOf(name)].body = BodyOf(name, inner.attempt)
        BY <2>1, <3>6, Settled DEF Over
      <3>8. QED
        BY <3>2, <3>4, <3>5, <3>7, PlanBodies
    <2>4. QED
      BY <1>5, <2>2, <2>3, AdmittedTypes DEF Listable, EntryOf
  <1>6. QED
    BY <1>3, <1>4, <1>5

LEMMA NameMissing ==
  ASSUME IInv, Clean, inner.pc = "build", NEW name \in ToSet(Expected), ~Exists(UriOf(name))
  PROVE  ~inner.ok \/ name \in Optional
  <1>1. SUFFICES ASSUME inner.ok, name \notin Optional PROVE FALSE
    OBVIOUS
  <1>2. run.action \in Actions /\ inner.attempt \in Attempts /\ script[inner.attempt].ok
    BY <1>1, MachineTypes DEF IInv, Clean, OutcomeClean
  <1>3. script[inner.attempt].pc = "ended" /\ Exists(DoneUri(inner.attempt))
    BY Settled DEF Over
  <1>4. Exists(PackageUri(inner.attempt))
    BY <1>2, <1>3 DEF Clean, ObjectsClean
  <1>5. name \notin {"done", "package"}
    BY <1>3, <1>4 DEF UriOf
  <1>6. name \in Required
    BY <1>1, <1>2, <1>5, ExpectedNames, RunNames
  <1>7. UriOf(name) = Tmp(Tree, name)
    BY <1>5 DEF UriOf
  <1>8. QED
    BY <1>2, <1>6, <1>7, Settled DEF Over

LEMMA CollectHeadsClean == ASSUME IInv, Clean, CollectHeads PROVE Clean'
  <1>1. PICK name, old, todo :
          name = Head(collector.todo) /\ old = collector.entries /\ todo = collector.todo
    OBVIOUS
  <1>2. inner.pc = "build" /\ todo # <<>> /\ UNCHANGED <<run, objects, script, row>>
    BY <1>1 DEF CollectHeads
  <1>3. /\ todo \in Seq(AllNames)
        /\ ToSet(todo) \cup DOMAIN old \subseteq ToSet(Expected)
        /\ inner.ok => ToSet(Expected) \subseteq ToSet(todo) \cup DOMAIN old \cup Optional
        /\ AsStored(old)
    BY <1>1, <1>2 DEF Clean, CollectionClean
  <1>4. /\ Tail(todo) \in Seq(AllNames) /\ ToSet(todo) = {name} \cup ToSet(Tail(todo))
    BY <1>1, <1>2, <1>3, SetOfTail
  <1>5. name \in ToSet(Expected)
    BY <1>3, <1>4
  <1>6. /\ Exists(UriOf(name)) => Listable(name)
        /\ ~Exists(UriOf(name)) => Skippable(name)
    BY <1>2, <1>5, NameFound, NameMissing DEF Skippable
  <1>7. UNCHANGED inner /\ collector'.todo = Tail(todo)
          /\ collector'.metadata = collector.metadata
          /\ collector' = [metadata |-> collector'.metadata, entries |-> collector'.entries,
                           todo |-> collector'.todo]
          /\ \/ Exists(UriOf(name)) /\ collector'.entries = Extended(old, name, EntryOf(name))
             \/ ~Exists(UriOf(name)) /\ collector'.entries = old /\ (~inner.ok \/ name \in Optional)
    <2>1. CASE /\ Listable(name)
               /\ collector' = [metadata |-> collector.metadata,
                                entries  |-> Extended(collector.entries, name, EntryOf(name)),
                                todo     |-> Tail(collector.todo)]
               /\ UNCHANGED inner
      BY <1>1, <2>1 DEF Listable
    <2>2. CASE Skippable(name) /\ collector' = [collector EXCEPT !.todo = Tail(@)] /\ UNCHANGED inner
      <3>1. collector = [metadata |-> collector.metadata, entries |-> old, todo |-> todo]
        BY <1>1, <1>2 DEF Clean, CollectionClean
      <3>2. collector'.todo = Tail(todo) /\ collector'.entries = old
              /\ collector'.metadata = collector.metadata
              /\ collector' = [metadata |-> collector.metadata, entries |-> old, todo |-> Tail(todo)]
        BY <1>1, <2>2, <3>1
      <3>3. QED
        BY <1>1, <2>2, <3>2 DEF Skippable
    <2>3. QED
      BY <1>1, <1>6, <2>1, <2>2 DEF CollectHeads
  <1>8. Tree' = Tree /\ Expected' = Expected
    BY <1>2, <1>7, RunFrame, ExpectedFrame
  <1>9. PICK new : new = collector'.entries
    OBVIOUS
  <1>10. /\ AsStored(new) /\ DOMAIN new \subseteq ToSet(Expected)
         /\ inner.ok => ToSet(Expected) \subseteq ToSet(Tail(todo)) \cup DOMAIN new \cup Optional
    <2>1. CASE Exists(UriOf(name)) /\ new = Extended(old, name, EntryOf(name))
      <3>1. DOMAIN new = DOMAIN old \cup {name} /\ new[name] = EntryOf(name)
              /\ \A x \in DOMAIN old : x # name => new[x] = old[x]
        BY <2>1 DEF Extended
      <3>2. AsStored(new)
        BY <1>3, <2>1, <3>1 DEF AsStored
      <3>3. QED
        BY <1>3, <1>4, <1>5, <3>1, <3>2
    <2>2. CASE ~Exists(UriOf(name)) /\ new = old /\ (~inner.ok \/ name \in Optional)
      BY <1>3, <1>4, <2>2
    <2>3. QED
      BY <1>7, <1>9, <2>1, <2>2
  <1>11. AsStored(new)'
    BY <1>2, <1>7, <1>10, StoredFrame
  <1>12. CollectionClean'
    <2>1. AsStored(collector.entries)'
      BY <1>9, <1>11 DEF AsStored
    <2>2. inner.ok /\ run.action \in Planned =>
            collector'.metadata = Metadata(run.action, inner.attempt, Tree)
      BY <1>2, <1>7 DEF Clean, CollectionClean
    <2>3. QED
      BY <1>2, <1>3, <1>4, <1>7, <1>8, <1>9, <1>10, <2>1, <2>2 DEF CollectionClean
  <1>13. OutcomeClean'
    BY <1>2, <1>7 DEF Clean, OutcomeClean
  <1>14. ScriptsClean' /\ ObjectsClean' /\ UploadsClean'
    BY <1>2, <1>7, Settled, MachineClean DEF Over
  <1>15. CommitClean' /\ RowClean'
    BY <1>2, <1>7, BeforeCommit DEF Decided
  <1>16. QED
    BY <1>2, <1>7, <1>12, <1>13, <1>14, <1>15 DEF Clean

-----------------------------------------------------------------------------
(* Commit and record.                                                      *)

\* What was collected makes a valid manifest.
LEMMA CollectedIsValid ==
  ASSUME IInv, Clean, inner.pc = "build", collector.todo = <<>>,
         NEW m, m = Manifest(run, inner.attempt, inner.ok, collector.entries)
  PROVE  /\ ValidSchema(m, Tree) /\ DriftAgrees(m)
         /\ m.action = run.action /\ m.exec = inner.attempt /\ m.failed = ~inner.ok
         /\ m.entries = collector.entries /\ DOMAIN m.entries \subseteq AllNames
         /\ AsStored(m.entries)
  <1>1. /\ m.action = run.action /\ m.exec = inner.attempt /\ m.failed = ~inner.ok
        /\ m.focus = run.focus /\ m.entries = collector.entries
        /\ m.tree = Tree /\ m.uri = ManifestUri(Tree)
    BY DEF Manifest, Tree
  <1>2. run.action \in Actions /\ inner.ok \in BOOLEAN
    BY MachineTypes DEF IInv
  <1>3. PICK entries : entries = collector.entries
    OBVIOUS
  <1>4. /\ DOMAIN entries \subseteq ToSet(Expected)
        /\ inner.ok => ToSet(Expected) \subseteq DOMAIN entries \cup Optional
        /\ AsStored(entries)
    <2>1. ToSet(collector.todo) = {}
      BY DEF ToSet
    <2>2. QED
      BY <1>3, <2>1 DEF Clean, CollectionClean
  <1>5. TreeOf(m, Tree) = Tree
    BY <1>1 DEF TreeOf
  <1>6. ASSUME NEW name \in DOMAIN m.entries PROVE ValidEntry(name, m, Tree)
    <2>1. name \in ToSet(Expected) /\ m.entries[name] = EntryOf(name) /\ Exists(UriOf(name))
      BY <1>1, <1>3, <1>4, <1>6 DEF AsStored
    <2>2. EntryOf(name).type \in TypesOf(name) /\ EntryOf(name).fits
      BY <2>1, NameFound
    <2>3. EntryOf(name).uri = UriOf(name)
      BY DEF EntryOf
    <2>4. UriOf(name) = ExpectedUri(name, m, Tree)
      <3>1. CASE name = "done"
        <4>1. ExpectedUri(name, m, Tree) = DoneUri(m.exec)
          BY <3>1, PlanNames DEF ExpectedUri
        <4>2. QED
          BY <1>1, <3>1, <4>1 DEF UriOf
      <3>2. CASE name = "package"
        <4>1. ExpectedUri(name, m, Tree) = PackageUri(m.exec)
          BY <3>2, PlanNames DEF ExpectedUri
        <4>2. QED
          BY <1>1, <3>2, <4>1 DEF UriOf
      <3>3. CASE name \notin {"done", "package"}
        <4>1. ExpectedUri(name, m, Tree) = Tmp(Tree, name)
          BY <1>5, <3>3 DEF ExpectedUri
        <4>2. QED
          BY <3>3, <4>1 DEF UriOf
      <3>4. QED
        BY <3>1, <3>2, <3>3
    <2>5. QED
      BY <2>1, <2>2, <2>3, <2>4 DEF ValidEntry
  <1>7. ValidEntrySet(m)
    <2>1. CASE inner.ok
      <3>1. SuccessEntries(m.action, m.focus) = ToSet(Expected) \ Optional
        <4>1. Optional \cap ({"done", "package"} \cup ToSet(PlanFiles(run.action))) = {}
          BY <1>2, PlanSeq, PlanNames DEF Optional
        <4>2. QED
          BY <1>1, <1>2, <2>1, <4>1, SchemaNames, ExpectedNames
      <3>2. QED
        BY <1>1, <1>3, <1>4, <2>1, <3>1 DEF ValidEntrySet
    <2>2. CASE ~inner.ok
      BY <1>1, <1>2, <1>3, <1>4, <2>2, SchemaNames, ExpectedNames DEF ValidEntrySet
    <2>3. QED
      BY <2>1, <2>2
  <1>8. ValidSchema(m, Tree)
    BY <1>1, <1>5, <1>6, <1>7 DEF ValidSchema
  <1>9. DriftAgrees(m)
    <2>1. SUFFICES ASSUME "drift.json" \in DOMAIN entries
                   PROVE  Exists(entries["drift.json"].uri)
                            /\ objects[entries["drift.json"].uri].body = entries["drift.json"].sum
      BY <1>1, <1>3 DEF DriftAgrees
    <2>2. entries["drift.json"] = EntryOf("drift.json") /\ Exists(UriOf("drift.json"))
      BY <1>4, <2>1 DEF AsStored
    <2>3. QED
      BY <2>2 DEF EntryOf
  <1>10. ToSet(Expected) \subseteq AllNames
    BY <1>2, ExpectedNames, SetOfSeq
  <1>11. QED
    BY <1>1, <1>3, <1>4, <1>8, <1>9, <1>10

LEMMA CollectCommitsClean == ASSUME IInv, Clean, CollectCommits PROVE Clean'
  <1>1. PICK m : m = Manifest(run, inner.attempt, inner.ok, collector.entries)
    OBVIOUS
  <1>2. inner.pc = "build" /\ collector.todo = <<>> /\ UNCHANGED <<run, script, row>>
    BY DEF CollectCommits
  <1>3. /\ ValidSchema(m, Tree) /\ DriftAgrees(m)
        /\ m.action = run.action /\ m.exec = inner.attempt /\ m.failed = ~inner.ok
        /\ DOMAIN m.entries \subseteq AllNames /\ AsStored(m.entries)
    BY <1>1, <1>2, CollectedIsValid
  <1>4. ~Exists(ManifestUri(Tree)) /\ MayCommit
    BY <1>2 DEF Clean, CommitClean, Decided, MayCommit
  <1>5. Commit(m) /\ inner' = [inner EXCEPT !.pc = "record"]
    BY <1>1, <1>3, <1>4 DEF CollectCommits
  <1>6. inner'.pc = "record" /\ inner'.attempt = inner.attempt /\ inner'.ok = inner.ok
    <2>1. inner \in InnerTypes
      BY Types DEF IInv
    <2>2. QED
      BY <1>5, <2>1 DEF InnerTypes
  <1>7. /\ Tree' = Tree /\ WithUrl' = WithUrl
        /\ \A n, b : BodyOf(n, b)' = BodyOf(n, b)
    BY <1>2, RunFrame
  <1>8. Put(ManifestUri(Tree), [body |-> m, fits |-> TRUE, type |-> "application/json"])
    BY <1>5 DEF Commit
  <1>9. \A n : n # "manifest.json" =>
          /\ Exists(Tmp(Tree, n))' <=> Exists(Tmp(Tree, n))
          /\ Exists(Tmp(Tree, n)) => objects'[Tmp(Tree, n)] = objects[Tmp(Tree, n)]
    BY <1>7, <1>8, PutObject, Keys, ManifestKey
  <1>10. \A b : /\ Exists(DoneUri(b))' <=> Exists(DoneUri(b))
                /\ Exists(DoneUri(b)) => objects'[DoneUri(b)] = objects[DoneUri(b)]
                /\ Exists(PackageUri(b))' <=> Exists(PackageUri(b))
                /\ Exists(PackageUri(b)) => objects'[PackageUri(b)] = objects[PackageUri(b)]
    BY <1>8, PutObject, Keys, ManifestKey
  <1>11. Exists(ManifestUri(Tree))' /\ Committed' = m
    <2>1. Exists(ManifestUri(Tree))' /\ objects'[ManifestUri(Tree)].body = m
      BY <1>7, <1>8, PutObject
    <2>2. QED
      BY <1>7, <2>1 DEF Committed
  <1>12. ScriptsClean'
    <2>1. Exists(DoneUri(inner.attempt))
      BY <1>2 DEF Clean, ScriptsClean, Over
    <2>2. QED
      BY <1>2, <1>6, <1>10, <2>1 DEF Clean, ScriptsClean
  <1>13. ObjectsClean'
    <2>1. \A n \in WithUrl : Exists(Tmp(Tree, n))' =>
            objects'[Tmp(Tree, n)].fits /\ objects'[Tmp(Tree, n)].type = SentType(n)
      BY <1>9, UrlNames DEF Clean, ObjectsClean
    <2>2. \A b \in Attempts : Exists(DoneUri(b))' =>
            LET marker == objects'[DoneUri(b)] IN
            /\ marker.fits /\ marker.type = "binary/octet-stream" /\ marker.body \in Markers
            /\ marker.body = Succeeded <=> script[b].ok
      BY <1>10 DEF Clean, ObjectsClean
    <2>3. \A b \in Attempts : script[b].pc # "idle" =>
            /\ Exists(PackageUri(b))'
            /\ objects'[PackageUri(b)].fits /\ objects'[PackageUri(b)].type = "application/zip"
      BY <1>10 DEF Clean, ObjectsClean
    <2>4. QED
      BY <1>2, <1>7, <2>1, <2>2, <2>3 DEF ObjectsClean
  <1>14. UploadsClean'
    <2>1. Required' = Required /\ run.action \in Actions
      BY <1>2, <1>7, MachineTypes DEF Required, OutputsUpTo, IInv
    <2>2. SUFFICES ASSUME script[inner.attempt].ok, NEW n \in Required
                   PROVE  /\ Exists(Tmp(Tree, n))'
                          /\ objects'[Tmp(Tree, n)].body = BodyOf(n, inner.attempt)
      BY <1>2, <1>6, <1>7, <2>1 DEF UploadsClean
    <2>3. Exists(Tmp(Tree, n)) /\ objects[Tmp(Tree, n)].body = BodyOf(n, inner.attempt)
      BY <1>2, <2>2, Settled DEF Over
    <2>4. n # "manifest.json"
      BY <2>1, <2>2, RunNames, UrlNames
    <2>5. QED
      BY <1>9, <2>3, <2>4
  <1>15. OutcomeClean' /\ CollectionClean' /\ RowClean'
    BY <1>2, <1>6 DEF Clean, OutcomeClean, CollectionClean, RowClean, Decided
  <1>16. CommitClean'
    <2>1. AsStored(m.entries)'
      <3>1. SUFFICES ASSUME NEW name \in DOMAIN m.entries
                     PROVE  Exists(UriOf(name))' /\ m.entries[name] = EntryOf(name)'
        BY <1>1, <1>2, <1>6 DEF AsStored
      <3>2. Exists(UriOf(name)) /\ m.entries[name] = EntryOf(name)
        BY <1>3 DEF AsStored
      <3>3. UriOf(name)' = UriOf(name)
        BY <1>6, <1>7 DEF UriOf
      <3>4. UriOf(name) # ManifestUri(Tree)
        <4>1. name # "manifest.json"
          BY <1>3, PlanNames DEF AllNames
        <4>2. QED
          BY <4>1, Keys, ManifestKey DEF UriOf
      <3>5. Exists(UriOf(name))' /\ objects'[UriOf(name)] = objects[UriOf(name)]
        BY <1>8, <3>2, <3>3, <3>4, PutObject
      <3>6. EntryOf(name)' = EntryOf(name)
        BY <3>3, <3>5 DEF EntryOf
      <3>7. QED
        BY <3>2, <3>5, <3>6
    <2>2. AsStored(Committed.entries)'
      BY <1>11, <2>1 DEF AsStored
    <2>3. QED
      BY <1>2, <1>3, <1>6, <1>11, <2>2 DEF CommitClean, Decided
  <1>17. QED
    BY <1>6, <1>12, <1>13, <1>14, <1>15, <1>16 DEF Clean

\* After the commit nothing but the row changes.
DecidedStep ==
  /\ UNCHANGED <<run, objects, script>>
  /\ inner.pc \in Decided /\ inner'.pc \in Decided
  /\ inner'.attempt = inner.attempt /\ inner'.ok = inner.ok

LEMMA DecidedClean == ASSUME Clean, DecidedStep, RowClean' PROVE Clean'
  <1>1. ScriptsClean' /\ ObjectsClean' /\ UploadsClean'
    <2>1. Exists(DoneUri(inner.attempt))
      BY DEF DecidedStep, Clean, ScriptsClean, Over
    <2>2. QED
      BY <2>1, MachineClean DEF DecidedStep
  <1>2. OutcomeClean' /\ CollectionClean'
    BY DEF DecidedStep, Clean, OutcomeClean, CollectionClean, Decided
  <1>3. CommitClean'
    <2>1. AsStored(Committed.entries)
      BY DEF DecidedStep, Clean, CommitClean
    <2>2. PICK entries : entries = Committed.entries
      OBVIOUS
    <2>3. AsStored(entries)'
      BY <2>1, <2>2, StoredFrame DEF DecidedStep
    <2>4. Tree' = Tree /\ Committed' = Committed
      BY RunFrame DEF DecidedStep, Committed
    <2>5. AsStored(Committed.entries)'
      BY <2>2, <2>3, <2>4 DEF AsStored
    <2>6. QED
      BY <2>4, <2>5 DEF DecidedStep, Clean, CommitClean, Exists
  <1>4. QED
    BY <1>1, <1>2, <1>3 DEF Clean, DecidedStep, Decided

\* The row of the attempt is not written yet.
LEMMA CollectRecordsClean == ASSUME IInv, Clean, CollectRecords PROVE Clean'
  <1>1. PICK r : r = RowOf(inner.attempt, inner.ok)
    OBVIOUS
  <1>2. inner.pc = "record" /\ UNCHANGED <<run, objects, script>>
    BY DEF CollectRecords
  <1>3. r.attempt = inner.attempt /\ inner.attempt \in Nat
    BY <1>1, MachineTypes DEF RowOf, IInv
  <1>4. row = None \/ r.attempt > row.attempt
    BY <1>2, <1>3 DEF Clean, RowClean
  <1>5. row' = r /\ Goto("collected")
    BY <1>1, <1>4 DEF CollectRecords, Storable, PutRow
  <1>6. inner'.pc = "collected" /\ inner'.attempt = inner.attempt /\ inner'.ok = inner.ok
    BY <1>5, GotoValue DEF IInv, Pcs, Past
  <1>7. Committed' = Committed
    BY <1>2, RunFrame DEF Committed
  <1>8. RowClean'
    BY <1>1, <1>5, <1>6, <1>7 DEF RowClean, RowOf
  <1>9. DecidedStep
    BY <1>2, <1>6 DEF DecidedStep, Decided
  <1>10. QED
    BY <1>6, <1>8, <1>9, DecidedClean

LEMMA SucceedsClean == ASSUME IInv, Clean, Succeeds PROVE Clean'
  <1>1. inner.pc = "collected" /\ UNCHANGED <<run, objects, script, row>> /\ Goto("succeeded")
    BY DEF Succeeds
  <1>2. inner'.pc = "succeeded" /\ inner'.attempt = inner.attempt /\ inner'.ok = inner.ok
    BY <1>1, GotoValue DEF IInv, Pcs, Past
  <1>3. Committed' = Committed
    BY <1>1, RunFrame DEF Committed
  <1>4. RowClean'
    BY <1>1, <1>2, <1>3 DEF Clean, RowClean, RowOf
  <1>5. DecidedStep
    BY <1>1, <1>2 DEF DecidedStep, Decided
  <1>6. QED
    BY <1>2, <1>4, <1>5, DecidedClean

-----------------------------------------------------------------------------
(* The other steps, and the invariant.                                     *)

\* A step of a reader.
LEMMA ReaderClean ==
  ASSUME Clean, UNCHANGED <<run, objects, script, inner, collector, row>>
  PROVE  Clean'
  <1>1. Tree' = Tree /\ Committed' = Committed /\ Expected' = Expected
    BY RunFrame, ExpectedFrame DEF Committed
  <1>2. ScriptsClean' /\ ObjectsClean' /\ UploadsClean'
    BY MachineClean DEF Clean, ScriptsClean
  <1>3. OutcomeClean'
    BY DEF Clean, OutcomeClean
  <1>4. CollectionClean'
    <2>1. SUFFICES ASSUME inner.pc = "build" PROVE CollectionClean'
      BY DEF CollectionClean
    <2>2. PICK entries : entries = collector.entries
      OBVIOUS
    <2>3. AsStored(entries)'
      BY <2>1, <2>2, StoredFrame DEF Clean, CollectionClean
    <2>4. AsStored(collector.entries)'
      BY <2>2, <2>3 DEF AsStored
    <2>5. QED
      BY <1>1, <2>1, <2>4 DEF Clean, CollectionClean
  <1>5. CommitClean'
    <2>1. PICK entries : entries = Committed.entries
      OBVIOUS
    <2>2. inner.pc \in Decided => AsStored(entries)'
      BY <2>1, StoredFrame DEF Clean, CommitClean
    <2>3. inner.pc \in Decided => AsStored(Committed.entries)'
      BY <1>1, <2>1, <2>2 DEF AsStored
    <2>4. QED
      BY <1>1, <2>3 DEF Clean, CommitClean, Exists
  <1>6. RowClean'
    BY <1>1 DEF Clean, RowClean, RowOf
  <1>7. QED
    BY <1>2, <1>3, <1>4, <1>5, <1>6 DEF Clean

LEMMA InitClean == Init => CleanInv
  <1>1. SUFFICES ASSUME Init PROVE Clean
    BY DEF CleanInv
  <1>2. \A uri : ~Exists(uri)
    BY <1>1 DEF Init, Exists
  <1>3. /\ inner.pc = "prepare" /\ inner.attempt = 0 /\ row = None
        /\ \A a \in Attempts : script[a].pc = "idle" /\ ~(a < 0)
    BY <1>1 DEF Init, Attempts
  <1>4. 0 \in Attempts
    BY DEF Attempts
  <1>5. ScriptsClean /\ ObjectsClean /\ UploadsClean
    BY <1>2, <1>3, <1>4 DEF ScriptsClean, ObjectsClean, UploadsClean, Over, Decided
  <1>6. OutcomeClean /\ CollectionClean /\ CommitClean /\ RowClean
    BY <1>2, <1>3 DEF OutcomeClean, CollectionClean, CommitClean, RowClean, Decided
  <1>7. QED
    BY <1>3, <1>5, <1>6 DEF Clean

\* faults only grows.
LEMMA FaultsGrow == ASSUME IInv, Next, faults' = 0 PROVE faults = 0
  <1>1. faults \in Nat
    BY Types, Numbers DEF IInv
  <1>2. ~Fault
    BY FaultFree
  <1>3. UNCHANGED faults
    BY <1>2 DEF Next, Submit, Probe, GivesUp, CredentialsExpire, Bookkeep, Upload, UploadFails,
                Exits, EngineDies, CollectStarts, CollectHeads, CollectCommits, CollectRecords,
                CollectRaises, Succeeds, FailureCommits, FailureRecords, FailureRaises, Asks,
                ReadsBody, Answers, Closes
  <1>4. QED
    BY <1>3

LEMMA StepClean == IInv /\ CleanInv /\ [Next]_vars => CleanInv'
  <1>1. SUFFICES ASSUME IInv, CleanInv, [Next]_vars, faults' = 0 PROVE Clean'
    BY DEF CleanInv
  <1>2. Clean
    BY <1>1, FaultsGrow DEF CleanInv, vars
  <1>3. ~Fault
    BY <1>1, FaultFree
  <1>4. CASE Submit \/ Probe \/ Bookkeep
    BY <1>1, <1>2, <1>4, SubmitClean, ProbeClean, BookkeepClean
  <1>5. CASE GivesUp \/ CredentialsExpire \/ CollectRaises \/ FailureRaises
    BY <1>3, <1>5 DEF GivesUp, CredentialsExpire, CollectRaises, FailureRaises
  <1>6. CASE \E a \in Attempts : Upload(a) \/ UploadFails(a) \/ Exits(a) \/ EngineDies(a)
    <2>1. PICK a \in Attempts : Upload(a) \/ UploadFails(a) \/ Exits(a) \/ EngineDies(a)
      BY <1>6
    <2>2. ~EngineDies(a)
      BY <1>3 DEF EngineDies
    <2>3. QED
      BY <1>1, <1>2, <2>1, <2>2, UploadClean, UploadNeverFails, ExitsClean
  <1>7. CASE CollectStarts \/ CollectHeads \/ CollectCommits \/ CollectRecords
    BY <1>1, <1>2, <1>7, CollectStartsClean, CollectHeadsClean, CollectCommitsClean,
       CollectRecordsClean
  <1>8. CASE Succeeds
    BY <1>1, <1>2, <1>8, SucceedsClean
  <1>9. CASE FailureCommits \/ FailureRecords
    BY <1>2, <1>9 DEF Clean, FailureCommits, FailureRecords
  <1>10. CASE Asks \/ ReadsBody \/ Answers \/ Closes \/ UNCHANGED vars
    BY <1>2, <1>10, ReaderClean DEF Asks, ReadsBody, Answers, Closes, vars
  <1>11. QED
    BY <1>1, <1>4, <1>5, <1>6, <1>7, <1>8, <1>9, <1>10 DEF Next

\* What RenderPR and the plan lookup need of a run that succeeded is there.
LEMMA ReadersFind ==
  ASSUME IInv, Clean, inner.pc = "succeeded", row.ok
  PROVE  RenderReads /\ PlanIsFound
  <1>1. row = RowOf(inner.attempt, inner.ok)
    BY DEF Clean, RowClean
  <1>2. inner.ok /\ row.manifest = Committed /\ script[inner.attempt].ok
    BY <1>1 DEF RowOf, Clean, OutcomeClean, Decided
  <1>3. run.action \in Actions
    BY MachineTypes DEF IInv
  <1>4. ASSUME run.action \in Planned
        PROVE  /\ Exists(MetadataUri)
               /\ objects[MetadataUri].body = Metadata(run.action, inner.attempt, Tree)
               /\ ValidMetadata(objects[MetadataUri].body, run.action, Tree)
    <2>1. PlanFiles(run.action)[3] \in Required
      BY <1>3, <1>4, MetadataName, RunNames
    <2>2. Exists(MetadataUri)
            /\ objects[MetadataUri].body = Metadata(run.action, inner.attempt, Tree)
      BY <1>2, <1>4, <2>1, Settled, MetadataName DEF Over, Decided
    <2>3. QED
      BY <1>4, <2>2 DEF ValidMetadata, Metadata
  <1>5. RenderReads
    BY <1>4 DEF RenderReads, Planned
  <1>6. ASSUME run.action \in {"plan", "plan_destroy"}
        PROVE  /\ Exists(ManifestUri(Tree)) /\ ValidSchema(Committed, Tree)
               /\ objects[MetadataUri].body = Committed.entries[PlanFiles(run.action)[3]].sum
               /\ LET e == Committed.entries[PlanFiles(run.action)[1]] IN
                  objects[e.uri].body = e.sum
    <2>1. run.action \in Planned
      BY <1>6 DEF Planned
    <2>2. /\ Exists(ManifestUri(Tree)) /\ ValidSchema(Committed, Tree)
          /\ ~Committed.failed /\ Committed.action = run.action /\ AsStored(Committed.entries)
      BY <1>2 DEF Clean, CommitClean, Decided, IInv, ManifestInv
    <2>3. ToSet(PlanFiles(run.action)) \subseteq DOMAIN Committed.entries
      BY <2>2 DEF ValidSchema, ValidEntrySet, SuccessEntries
    <2>4. PlanFiles(run.action)[1] \in DOMAIN Committed.entries
            /\ PlanFiles(run.action)[3] \in DOMAIN Committed.entries
      BY <2>1, <2>3, PlansOfAction
    <2>5. /\ Committed.entries[PlanFiles(run.action)[1]] = EntryOf(PlanFiles(run.action)[1])
          /\ Committed.entries[PlanFiles(run.action)[3]] = EntryOf(PlanFiles(run.action)[3])
      BY <2>2, <2>4 DEF AsStored
    <2>6. UriOf(PlanFiles(run.action)[3]) = MetadataUri
      BY <2>1 DEF UriOf, MetadataUri, PlanUris, PlanFiles, Planned
    <2>7. QED
      BY <2>2, <2>5, <2>6 DEF EntryOf
  <1>7. PlanIsFound
    BY <1>2, <1>4, <1>6 DEF PlanIsFound, Planned
  <1>8. QED
    BY <1>5, <1>7

\* Where no call and no engine fails, every run ends with its attempt recorded as the engine
\* ended: the five tables of names and types agree for every action, and the readers of a
\* successful plan find its metadata, its manifest and the plan file the manifest lists.
THEOREM CleanRunsAreRecorded == Spec => []CleanRunIsRecorded
  <1>1. IInv /\ CleanInv => CleanRunIsRecorded
    <2>1. SUFFICES ASSUME IInv, CleanInv, faults = 0 PROVE CleanRunIsRecorded
      BY DEF CleanRunIsRecorded
    <2>2. Clean
      BY <2>1 DEF CleanInv
    <2>3. inner.pc = "succeeded" =>
            /\ row.ok = script[inner.attempt].ok
            /\ row.ok => RenderReads /\ PlanIsFound
      BY <2>1, <2>2, ReadersFind DEF Clean, RowClean, RowOf, OutcomeClean, Decided
    <2>4. QED
      BY <2>2, <2>3, SameTypes DEF Clean, CleanRunIsRecorded
  <1>2. Spec => []CleanInv
    BY Invariance, InitClean, StepClean, PTL DEF Spec
  <1>3. QED
    BY <1>1, <1>2, Invariance, PTL

=============================================================================
