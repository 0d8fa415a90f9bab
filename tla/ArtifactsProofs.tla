--------------------------- MODULE ArtifactsProofs ---------------------------
(***************************************************************************)
(* Theorems about Artifacts, for any runs, bounds and number of retries.   *)
(***************************************************************************)
EXTENDS Artifacts, TLAPS

\* The script of attempt a may still upload this name.
MayWrite(a, name) == script[a].pc = "running" /\ name \in script[a].todo

Past == {"collect", "build", "record", "collected", "succeeded", "failure", "report", "failed",
         "unreported"}

\* An attempt that was not submitted has no script, and one with a done marker has ended.
SubmissionInv ==
  /\ \A a \in Attempts :
       /\ a > inner.attempt \/ (a = inner.attempt /\ inner.pc = "prepare") => script[a].pc = "idle"
       /\ Exists(DoneUri(a)) => script[a].pc = "ended"
  /\ inner.pc = "bookkeep" => inner.attempt = 0 /\ run.attempts = 2

\* What an attempt has uploaded under a name it does not upload again.
UploadInv ==
  \A a \in Attempts, name \in WithUrl :
    Exists(Tmp(Tree, name)) /\ objects[Tmp(Tree, name)].body = BodyOf(name, a) =>
      script[a].pc # "idle" /\ ~MayWrite(a, name)

\* What is listed under a name is not uploaded once more.
Fixed(entries) ==
  \A name \in DOMAIN entries \ {"done", "package"} :
    /\ entries[name].uri = Tmp(Tree, name)
    /\ \A a \in Attempts : MayWrite(a, name) => entries[name].sum # BodyOf(name, a)

\* The plan files that are listed are of the plan the metadata names.
OfOnePlan(entries, metadata) ==
  \A name \in DOMAIN entries \cap AllPlanFiles :
    name # PlanFiles(run.action)[3] => entries[name].sum = metadata.plan

CollectorInv ==
  inner.pc = "build" =>
    /\ Fixed(collector.entries)
    /\ run.action \in Planned => OfOnePlan(collector.entries, collector.metadata)

SidecarOf(m) ==
  ~m.failed /\ run.action \in Planned =>
    m.entries[PlanFiles(run.action)[1]].sum = m.entries[PlanFiles(run.action)[2]].sum

ManifestInv ==
  Exists(ManifestUri(Tree)) =>
    /\ inner.pc \in Past
    /\ Committed.attempt = inner.attempt
    /\ Committed.uri = ManifestUri(Tree)
    /\ ValidSchema(Committed, Tree)
    /\ Fixed(Committed.entries)
    /\ SidecarOf(Committed)

\* Who is about to record a manifest found or made one it may record.
RecorderInv ==
  /\ inner.pc = "record" =>
       Exists(ManifestUri(Tree)) /\ Bound(Committed, inner.attempt, inner.attempt)
  /\ inner.pc = "report" =>
       Exists(ManifestUri(Tree)) /\ Bound(Committed, 0, inner.attempt)

RowInv ==
  row # None /\ row.manifest # None =>
    /\ Exists(ManifestUri(Tree))
    /\ row.manifest = Committed
    /\ Bound(Committed, row.exec, row.attempt)

ReaderInv ==
  /\ reader = [pc |-> reader.pc, name |-> reader.name, body |-> reader.body]
  /\ reader.pc # "idle" =>
       /\ Tree = <<>>
       /\ row # None /\ row.manifest # None
       /\ reader.name \in DOMAIN row.manifest.entries
       /\ Authorized(reader.name, EntryRead.uri)
  /\ reader.pc = "check" /\ reader.name \notin BinaryPlans =>
       /\ Exists(EntryRead.uri)
       /\ reader.body = EntryRead.sum \/ objects[EntryRead.uri].body # EntryRead.sum
  /\ reader.pc = "answered" /\ reader.name \notin BinaryPlans => reader.body = EntryRead.sum

IInv ==
  /\ TypeOK
  /\ SubmissionInv /\ UploadInv
  /\ CollectorInv /\ ManifestInv /\ RecorderInv /\ RowInv /\ ReaderInv

-----------------------------------------------------------------------------
(* Names and keys.                                                         *)

LEMMA Numbers == MaxRetries \in Nat /\ MaxFaults \in Nat
  BY ArtifactsAssumption

LEMMA RunTypes == \A r \in Runs : r.action \in Actions /\ r.attempts \in 1..2
  BY ArtifactsAssumption

LEMMA PlanNames ==
  AllPlanFiles = {"plan.tfplan", "plan.tfplan.sha256", "plan-metadata.json",
                  "destroy.plan.tfplan", "destroy.plan.tfplan.sha256",
                  "destroy-plan-metadata.json"}
  BY DEF AllPlanFiles, PlanFiles, ToSet

\* The plan files of an action that leaves a plan.
LEMMA PlansOfAction ==
  ASSUME NEW action \in Planned
  PROVE  /\ ToSet(PlanFiles(action)) = {PlanFiles(action)[i] : i \in 1..3}
         /\ PlanFiles(action)[1] \in AllPlanFiles
         /\ PlanFiles(action)[2] \in AllPlanFiles
         /\ PlanFiles(action)[1] # PlanFiles(action)[3]
         /\ PlanFiles(action)[2] # PlanFiles(action)[3]
  BY PlanNames DEF Planned, PlanFiles, ToSet

\* No URL is signed for the manifest, the done marker or the package.
LEMMA SignedNames ==
  ASSUME NEW action, NEW focus
  PROVE  ToSet(Signed(action, focus)) \cap {"manifest.json", "done", "package"} = {}
  BY DEF Signed, ToSet, Logs, Scans, ScansOf, Output, MutationActions

LEMMA UrlNames == WithUrl \cap {"manifest.json", "done", "package"} = {}
  BY SignedNames, PlanNames DEF WithUrl

LEMMA ExposedNames == "manifest.json" \notin Exposed
  BY DEF Exposed, Scans, ToSet

\* Objects of two kinds, of two names or of two attempts have two keys.
LEMMA Keys ==
  ASSUME NEW tree, NEW name, NEW a
  PROVE  /\ \A t, n : Tmp(tree, name) = Tmp(t, n) => tree = t /\ name = n
         /\ \A b : DoneUri(a) = DoneUri(b) => a = b
         /\ \A b : DoneUri(b) # Tmp(tree, name) /\ PackageUri(b) # Tmp(tree, name)
                     /\ PackageUri(b) # DoneUri(a)
         /\ Tmp(tree, name)[1] = "tmp" /\ Tmp(tree, name)[2] = tree
         /\ DoneUri(a)[1] = "done" /\ PackageUri(a)[1] = "package"
  <1>1. Tmp(tree, name)[1] = "tmp" /\ Tmp(tree, name)[2] = tree /\ Tmp(tree, name)[3] = name
    BY DEF Tmp
  <1>2. DoneUri(a)[1] = "done" /\ DoneUri(a)[2] = a
    BY DEF DoneUri
  <1>3. PackageUri(a)[1] = "package"
    BY DEF PackageUri
  <1>4. \A t, n : Tmp(tree, name) = Tmp(t, n) => tree = t /\ name = n
    BY DEF Tmp
  <1>5. \A b : DoneUri(a) = DoneUri(b) => a = b
    BY DEF DoneUri
  <1>6. ASSUME NEW b
        PROVE DoneUri(b) # Tmp(tree, name) /\ PackageUri(b) # Tmp(tree, name)
                /\ PackageUri(b) # DoneUri(a)
    BY DEF DoneUri, Tmp, PackageUri
  <1>7. QED
    BY <1>1, <1>2, <1>3, <1>4, <1>5, <1>6

LEMMA ManifestKey == \A tree : ManifestUri(tree) = Tmp(tree, "manifest.json")
  BY DEF ManifestUri

\* The two attempts upload different bodies under a name.
LEMMA Bodies ==
  ASSUME NEW name, NEW a, NEW b, BodyOf(name, a) = BodyOf(name, b)
  PROVE  a = b
  <1>1. CASE name = "plan-metadata.json" \/ name = "destroy-plan-metadata.json"
    <2>1. Metadata(run.action, a, Tree) = Metadata(run.action, b, Tree)
      BY <1>1 DEF BodyOf
    <2>2. Metadata(run.action, a, Tree).plan = a /\ Metadata(run.action, b, Tree).plan = b
      BY DEF Metadata
    <2>3. QED
      BY <2>1, <2>2
  <1>2. CASE ~(name = "plan-metadata.json" \/ name = "destroy-plan-metadata.json")
    BY <1>2 DEF BodyOf
  <1>3. QED
    BY <1>1, <1>2

\* Storing an object leaves the others alone.
LEMMA PutObject ==
  ASSUME NEW uri, NEW object, Put(uri, object)
  PROVE  /\ \A u : Exists(u)' <=> Exists(u) \/ u = uri
         /\ objects'[uri] = object
         /\ \A u : Exists(u) /\ u # uri => objects'[u] = objects[u]
  BY DEF Put, Extended, Exists

-----------------------------------------------------------------------------
(* Types.                                                                  *)

Pcs == Past \cup {"prepare", "probe", "bookkeep"}

InnerTypes == [pc : Pcs, attempt : 0..(run.attempts - 1), ok : BOOLEAN, tries : 0..MaxRetries]

Scripts == [pc : {"idle", "running", "ended"}, todo : SUBSET WithUrl, ok : BOOLEAN]

Stored(uri) ==
  \/ uri \in {DoneUri(a) : a \in Attempts} \cup {PackageUri(a) : a \in Attempts}
  \/ uri[1] = "tmp" /\ uri[2] = Tree

ReaderPcs == {"idle", "body", "check", "answered"}

\* The type invariant in the names the proofs use.
Typed ==
  /\ run \in Runs
  /\ \A uri \in DOMAIN objects : Stored(uri)
  /\ script \in [Attempts -> Scripts]
  /\ inner \in InnerTypes
  /\ reader.pc \in ReaderPcs
  /\ faults \in 0..MaxFaults

LEMMA TypeForms == TypeOK <=> Typed
  <1>1. Pcs = {"prepare", "probe", "bookkeep", "collect", "build", "record", "collected",
               "succeeded", "failure", "report", "failed", "unreported"}
    BY DEF Pcs, Past
  <1>2. QED
    BY <1>1 DEF Typed, TypeOK, Stored, InnerTypes, Scripts, ReaderPcs

LEMMA TypedNext == Typed' => TypeOK'
  BY TypeForms, PTL

LEMMA Types ==
  ASSUME TypeOK
  PROVE  /\ run \in Runs
         /\ \A uri \in DOMAIN objects : Stored(uri)
         /\ script \in [Attempts -> Scripts]
         /\ inner \in InnerTypes
         /\ reader.pc \in ReaderPcs
         /\ faults \in 0..MaxFaults
  BY TypeForms DEF Typed

LEMMA MachineTypes ==
  ASSUME TypeOK
  PROVE  /\ inner.pc \in Pcs /\ inner.attempt \in Nat /\ inner.attempt \in Attempts
         /\ inner.ok \in BOOLEAN /\ inner.tries \in Nat /\ inner.tries \in 0..MaxRetries
         /\ run.attempts \in 1..2 /\ run.action \in Actions
         /\ inner.attempt < run.attempts
         /\ \A a \in Attempts : a \in {0, 1} /\ script[a] \in Scripts
  <1>1. run.attempts \in 1..2 /\ run.action \in Actions
    BY Types, RunTypes
  <1>2. inner \in InnerTypes /\ script \in [Attempts -> Scripts]
    BY Types
  <1>3. inner.pc \in Pcs /\ inner.attempt \in 0..(run.attempts - 1) /\ inner.ok \in BOOLEAN
          /\ inner.tries \in 0..MaxRetries
    BY <1>2 DEF InnerTypes
  <1>4. inner.attempt \in Nat /\ inner.attempt \in 0..1 /\ inner.tries \in Nat
          /\ inner.attempt < run.attempts
    BY <1>1, <1>3, Numbers
  <1>5. \A a \in Attempts : a \in {0, 1} /\ script[a] \in Scripts
    BY <1>2 DEF Attempts
  <1>6. QED
    BY <1>1, <1>3, <1>4, <1>5 DEF Attempts

LEMMA ScriptTypes ==
  ASSUME TypeOK, NEW a \in Attempts
  PROVE  /\ script[a].pc \in {"idle", "running", "ended"}
         /\ script[a].todo \subseteq WithUrl
         /\ script[a].ok \in BOOLEAN
         /\ script[a] \in Scripts
  BY MachineTypes DEF Scripts

LEMMA GotoValue ==
  ASSUME TypeOK, NEW pc \in Pcs, Goto(pc)
  PROVE  /\ inner' \in InnerTypes
         /\ inner'.pc = pc /\ inner'.attempt = inner.attempt /\ inner'.ok = inner.ok
  <1>1. inner \in InnerTypes /\ 0 \in 0..MaxRetries
    BY Types, Numbers
  <1>2. QED
    BY <1>1 DEF Goto, InnerTypes

LEMMA RaisedValue ==
  ASSUME TypeOK, NEW task \in Pcs, NEW catch \in Pcs, Raised(task, catch)
  PROVE  /\ inner' \in InnerTypes
         /\ inner'.pc \in {task, catch} /\ inner'.attempt = inner.attempt
  <1>1. inner \in InnerTypes
    BY Types
  <1>2. CASE inner.tries < MaxRetries
    <2>1. inner' = [inner EXCEPT !.pc = task, !.tries = @ + 1]
      BY <1>2 DEF Raised
    <2>2. inner.tries + 1 \in 0..MaxRetries
      BY <1>2, MachineTypes, Numbers
    <2>3. QED
      BY <1>1, <2>1, <2>2 DEF InnerTypes
  <1>3. CASE ~(inner.tries < MaxRetries)
    BY <1>3, GotoValue DEF Raised
  <1>4. QED
    BY <1>2, <1>3

LEMMA FaultCount == ASSUME TypeOK, Fault \/ UNCHANGED faults PROVE faults' \in 0..MaxFaults
  <1>1. faults \in 0..MaxFaults /\ MaxFaults \in Nat
    BY Types, Numbers
  <1>2. QED
    BY <1>1 DEF Fault

-----------------------------------------------------------------------------
(* What does not change.                                                   *)

LEMMA RunFrame ==
  ASSUME UNCHANGED run
  PROVE  /\ Tree' = Tree /\ WithUrl' = WithUrl /\ InnerTypes' = InnerTypes /\ Scripts' = Scripts
         /\ \A uri : Stored(uri)' <=> Stored(uri)
         /\ \A name, a : BodyOf(name, a)' = BodyOf(name, a)
  <1>1. Tree' = Tree /\ WithUrl' = WithUrl /\ InnerTypes' = InnerTypes
    BY DEF Tree, WithUrl, InnerTypes
  <1>2. \A uri : Stored(uri)' <=> Stored(uri)
    BY <1>1 DEF Stored
  <1>3. \A name, a : BodyOf(name, a)' = BodyOf(name, a)
    BY <1>1 DEF BodyOf
  <1>4. QED
    BY <1>1, <1>2, <1>3 DEF Scripts

\* No script gets more to write, none is submitted and none that ended goes on.
ScriptsShrink ==
  \A a \in Attempts :
    /\ script'[a].pc = "idle" <=> script[a].pc = "idle"
    /\ script[a].pc = "ended" => script'[a].pc = "ended"
    /\ \A name : MayWrite(a, name)' => MayWrite(a, name)

LEMMA ScriptsStay == UNCHANGED script => ScriptsShrink
  BY DEF ScriptsShrink, MayWrite

LEMMA FixedFrame ==
  ASSUME NEW entries, Fixed(entries), ScriptsShrink, UNCHANGED run
  PROVE  Fixed(entries)'
  BY RunFrame DEF Fixed, ScriptsShrink

LEMMA SidecarFrame ==
  ASSUME NEW m, SidecarOf(m), UNCHANGED run
  PROVE  SidecarOf(m)'
  BY DEF SidecarOf

ManifestKept ==
  /\ Exists(ManifestUri(Tree))' <=> Exists(ManifestUri(Tree))
  /\ Exists(ManifestUri(Tree)) => Committed' = Committed

LEMMA ObjectsStay == UNCHANGED <<run, objects>> => ManifestKept
  BY RunFrame DEF ManifestKept, Exists, Committed

\* Storing anything else keeps the manifest.
LEMMA PutKeepsManifest ==
  ASSUME NEW uri, NEW object, Put(uri, object), uri # ManifestUri(Tree), UNCHANGED run
  PROVE  ManifestKept
  <1>1. Tree' = Tree
    BY RunFrame
  <1>2. QED
    BY <1>1, PutObject DEF ManifestKept, Committed, Exists

LEMMA ManifestFrame ==
  ASSUME IInv, UNCHANGED run, ScriptsShrink, ManifestKept,
         Exists(ManifestUri(Tree)) => inner'.pc \in Past /\ inner'.attempt = inner.attempt
  PROVE  ManifestInv'
  <1>1. SUFFICES ASSUME Exists(ManifestUri(Tree))'
        PROVE  ManifestInv'
    BY DEF ManifestInv
  <1>2. PICK m : m = Committed
    OBVIOUS
  <1>3. Exists(ManifestUri(Tree)) /\ Committed' = m /\ Tree' = Tree
    BY <1>1, <1>2, RunFrame DEF ManifestKept
  <1>4. /\ m.attempt = inner.attempt /\ m.uri = ManifestUri(Tree) /\ ValidSchema(m, Tree)
        /\ Fixed(m.entries) /\ SidecarOf(m)
    BY <1>2, <1>3 DEF IInv, ManifestInv
  <1>5. PICK entries : entries = m.entries
    OBVIOUS
  <1>6. Fixed(entries)' /\ SidecarOf(m)'
    BY <1>4, <1>5, FixedFrame, SidecarFrame
  <1>7. Fixed(Committed.entries)' /\ SidecarOf(Committed)'
    BY <1>3, <1>5, <1>6 DEF Fixed, SidecarOf
  <1>8. QED
    BY <1>1, <1>3, <1>4, <1>7 DEF ManifestInv

LEMMA RowFrame ==
  ASSUME RowInv, UNCHANGED row, ManifestKept
  PROVE  RowInv'
  BY DEF RowInv, ManifestKept

LEMMA RecorderFrame ==
  ASSUME RecorderInv, UNCHANGED inner, ManifestKept
  PROVE  RecorderInv'
  BY DEF RecorderInv, ManifestKept

LEMMA CollectorFrame ==
  ASSUME CollectorInv, UNCHANGED <<run, inner, collector>>, ScriptsShrink
  PROVE  CollectorInv'
  <1>1. SUFFICES ASSUME inner.pc = "build"
        PROVE  CollectorInv'
    BY DEF CollectorInv
  <1>2. PICK entries, metadata : entries = collector.entries /\ metadata = collector.metadata
    OBVIOUS
  <1>3. Fixed(entries)'
    BY <1>1, <1>2, FixedFrame DEF CollectorInv
  <1>4. Fixed(collector.entries)'
    BY <1>2, <1>3 DEF Fixed
  <1>5. QED
    BY <1>1, <1>4 DEF CollectorInv, OfOnePlan

LEMMA UploadFrame ==
  ASSUME UploadInv, UNCHANGED run, ScriptsShrink,
         \A name \in WithUrl : Exists(Tmp(Tree, name))' =>
           Exists(Tmp(Tree, name)) /\ objects'[Tmp(Tree, name)] = objects[Tmp(Tree, name)]
  PROVE  UploadInv'
  <1>1. SUFFICES ASSUME NEW a \in Attempts, NEW name \in WithUrl, Exists(Tmp(Tree, name))',
                        objects'[Tmp(Tree, name)].body = BodyOf(name, a)
                 PROVE  script'[a].pc # "idle" /\ ~(MayWrite(a, name)')
    BY RunFrame DEF UploadInv, Attempts
  <1>2. Exists(Tmp(Tree, name)) /\ objects[Tmp(Tree, name)].body = BodyOf(name, a)
    BY <1>1
  <1>3. script[a].pc # "idle" /\ ~MayWrite(a, name)
    BY <1>2 DEF UploadInv
  <1>4. QED
    BY <1>3 DEF ScriptsShrink

\* The file a request is about is not replaced by the one that is listed.
EntryKept ==
  reader.pc # "idle" /\ Exists(EntryRead.uri) =>
    /\ EntryRead.uri \in DOMAIN objects'
    /\ \/ objects'[EntryRead.uri] = objects[EntryRead.uri]
       \/ objects'[EntryRead.uri].body # EntryRead.sum

LEMMA ReaderFrame ==
  ASSUME ReaderInv, UNCHANGED <<run, row, reader>>, EntryKept
  PROVE  ReaderInv'
  <1>1. Tree' = Tree /\ EntryRead' = EntryRead
    BY RunFrame DEF EntryRead
  <1>2. \A name, uri : Authorized(name, uri)' <=> Authorized(name, uri)
    BY DEF Authorized
  <1>3. QED
    BY <1>1, <1>2 DEF ReaderInv, EntryKept, Exists

-----------------------------------------------------------------------------
(* Steps that store no object and leave the scripts alone.                 *)

\* Where no attempt is begun, only the state of the machine matters.
LEMMA SubmissionFrame ==
  ASSUME SubmissionInv, TypeOK, UNCHANGED <<run, objects, script>>,
         inner'.attempt = inner.attempt,
         inner'.pc # "prepare" \/ inner.pc = "prepare",
         inner'.pc = "bookkeep" => inner.attempt = 0 /\ run.attempts = 2
  PROVE  SubmissionInv'
  BY DEF SubmissionInv, Exists

LEMMA MachineStep ==
  ASSUME IInv, UNCHANGED <<run, objects, script>>,
         inner' \in InnerTypes, faults' \in 0..MaxFaults,
         SubmissionInv', CollectorInv', RecorderInv', RowInv', ReaderInv',
         reader'.pc \in ReaderPcs,
         Exists(ManifestUri(Tree)) => inner'.pc \in Past /\ inner'.attempt = inner.attempt
  PROVE  IInv'
  <1>1. TypeOK'
    <2>1. /\ run' \in Runs
          /\ \A uri \in DOMAIN objects' : Stored(uri)'
          /\ script' \in [Attempts -> Scripts]
      BY Types, RunFrame DEF IInv
    <2>2. Scripts' = Scripts /\ InnerTypes' = InnerTypes
      BY RunFrame
    <2>3. QED
      BY <2>1, <2>2, TypedNext DEF Typed
  <1>2. ManifestInv'
    BY ManifestFrame, ScriptsStay, ObjectsStay
  <1>3. UploadInv'
    BY UploadFrame, ScriptsStay, RunFrame DEF IInv, Exists
  <1>4. QED
    BY <1>1, <1>2, <1>3 DEF IInv

\* A step of the machine that goes on, gives up or tries again, as far as Collect and what
\* records are not concerned.
LEMMA Moves ==
  ASSUME IInv, UNCHANGED <<run, objects, script, row, reader>>,
         inner' \in InnerTypes, inner'.attempt = inner.attempt, Fault \/ UNCHANGED faults,
         inner.pc \in Past => inner'.pc \in Past,
         inner'.pc # "prepare",
         inner'.pc = "bookkeep" => inner.attempt = 0 /\ run.attempts = 2,
         CollectorInv', RecorderInv'
  PROVE  IInv'
  <1>1. SubmissionInv'
    BY SubmissionFrame DEF IInv
  <1>2. RowInv' /\ ReaderInv'
    <2>1. ManifestKept
      BY ObjectsStay
    <2>2. EntryKept
      BY DEF EntryKept, Exists
    <2>3. QED
      BY <2>1, <2>2, RowFrame, ReaderFrame DEF IInv
  <1>3. faults' \in 0..MaxFaults
    BY FaultCount DEF IInv
  <1>4. Exists(ManifestUri(Tree)) => inner'.pc \in Past /\ inner'.attempt = inner.attempt
    BY DEF IInv, ManifestInv
  <1>5. reader'.pc \in ReaderPcs
    BY Types DEF IInv
  <1>6. QED
    BY <1>1, <1>2, <1>3, <1>4, <1>5, MachineStep

\* Most steps of the machine neither enter the listing nor a record.
LEMMA PlainMove ==
  ASSUME IInv, UNCHANGED <<run, objects, script, row, reader>>,
         inner' \in InnerTypes, inner'.attempt = inner.attempt, Fault \/ UNCHANGED faults,
         inner.pc \in Past => inner'.pc \in Past,
         inner'.pc \notin {"prepare", "build", "record", "report"},
         inner'.pc = "bookkeep" => inner.attempt = 0 /\ run.attempts = 2
  PROVE  IInv'
  BY Moves DEF CollectorInv, RecorderInv

LEMMA ProbeStep == ASSUME IInv, Probe PROVE IInv'
  <1>1. inner' \in InnerTypes /\ inner'.attempt = inner.attempt
          /\ inner'.pc \in {"failure", "bookkeep", "collect"}
          /\ (inner'.pc = "bookkeep" => inner.attempt = 0 /\ run.attempts = 2)
    <2>1. PICK marker : marker = objects[DoneUri(inner.attempt)].body
      OBVIOUS
    <2>2. CASE ~WellFormed(marker)
      BY <2>1, <2>2, GotoValue DEF Probe, IInv, Pcs, Past
    <2>3. CASE WellFormed(marker) /\ Expired(marker) /\ Retries
      BY <2>1, <2>3, GotoValue DEF Probe, IInv, Pcs, Past, Retries
    <2>4. CASE WellFormed(marker) /\ ~(Expired(marker) /\ Retries)
      <3>1. inner' = [inner EXCEPT !.pc = "collect", !.ok = (marker.status = "succeeded")]
        BY <2>1, <2>4 DEF Probe
      <3>2. inner \in InnerTypes /\ "collect" \in Pcs
        BY Types DEF IInv, Pcs, Past
      <3>3. (marker.status = "succeeded") \in BOOLEAN
        OBVIOUS
      <3>4. QED
        BY <3>1, <3>2, <3>3 DEF InnerTypes
    <2>5. QED
      BY <2>2, <2>3, <2>4
  <1>2. inner.pc \notin Past
    BY DEF Probe, Past
  <1>3. QED
    BY <1>1, <1>2, PlainMove DEF Probe

LEMMA GivesUpStep == ASSUME IInv, GivesUp PROVE IInv'
  <1>1. inner' \in InnerTypes /\ inner'.attempt = inner.attempt /\ inner'.pc = "failure"
    BY GotoValue DEF GivesUp, IInv, Pcs, Past
  <1>2. QED
    BY <1>1, PlainMove DEF GivesUp, Past

LEMMA CredentialsExpireStep == ASSUME IInv, CredentialsExpire PROVE IInv'
  <1>1. inner' \in InnerTypes /\ inner'.attempt = inner.attempt /\ inner'.pc = "bookkeep"
    BY GotoValue DEF CredentialsExpire, IInv, Pcs
  <1>2. inner.attempt = 0 /\ run.attempts = 2 /\ inner.pc \notin Past
    BY DEF CredentialsExpire, Retries, Past
  <1>3. QED
    BY <1>1, <1>2, PlainMove DEF CredentialsExpire

LEMMA CollectRaisesStep ==
  ASSUME IInv, RaiseCollect, inner.pc \in Past, Fault \/ UNCHANGED faults,
         UNCHANGED <<run, objects, script, row, reader>>
  PROVE  IInv'
  <1>1. inner' \in InnerTypes /\ inner'.attempt = inner.attempt
          /\ inner'.pc \in {"collect", "failure"}
    BY RaisedValue DEF RaiseCollect, IInv, Pcs, Past
  <1>2. QED
    BY <1>1, PlainMove DEF Past

LEMMA FailureRaisesStep ==
  ASSUME IInv, RaiseFailure, inner.pc \in Past, Fault \/ UNCHANGED faults,
         UNCHANGED <<run, objects, script, row, reader>>
  PROVE  IInv'
  <1>1. inner' \in InnerTypes /\ inner'.attempt = inner.attempt
          /\ inner'.pc \in {"failure", "unreported"}
    BY RaisedValue DEF RaiseFailure, IInv, Pcs, Past
  <1>2. QED
    BY <1>1, PlainMove DEF Past

LEMMA SucceedsStep == ASSUME IInv, Succeeds PROVE IInv'
  <1>1. inner' \in InnerTypes /\ inner'.attempt = inner.attempt /\ inner'.pc = "succeeded"
    BY GotoValue DEF Succeeds, IInv, Pcs, Past
  <1>2. QED
    BY <1>1, PlainMove DEF Succeeds, Past

LEMMA CollectStartsStep == ASSUME IInv, CollectStarts PROVE IInv'
  <1>1. inner' \in InnerTypes /\ inner'.attempt = inner.attempt /\ inner'.pc = "build"
    <2>1. inner \in InnerTypes /\ "build" \in Pcs
      BY Types DEF IInv, Pcs, Past
    <2>2. QED
      BY <2>1 DEF CollectStarts, InnerTypes
  <1>2. collector'.entries = <<>> /\ DOMAIN collector'.entries = {}
    BY DEF CollectStarts
  <1>3. CollectorInv'
    BY <1>2 DEF CollectorInv, Fixed, OfOnePlan
  <1>4. RecorderInv'
    BY <1>1 DEF RecorderInv
  <1>5. QED
    BY <1>1, <1>3, <1>4, Moves DEF CollectStarts, Past

\* What an attempt may still write under a listed name is not what is stored there.
LEMMA EntryFixed ==
  ASSUME IInv, NEW name, name \notin {"done", "package"}, Exists(UriOf(name)),
         NEW a \in Attempts, MayWrite(a, name)
  PROVE  EntryOf(name).uri = Tmp(Tree, name) /\ EntryOf(name).sum # BodyOf(name, a)
  <1>1. UriOf(name) = Tmp(Tree, name)
    BY DEF UriOf
  <1>2. name \in WithUrl
    BY ScriptTypes DEF IInv, MayWrite
  <1>3. objects[Tmp(Tree, name)].body # BodyOf(name, a)
    BY <1>1, <1>2 DEF IInv, UploadInv
  <1>4. QED
    BY <1>1, <1>3 DEF EntryOf

LEMMA CollectHeadsStep == ASSUME IInv, CollectHeads PROVE IInv'
  <1> DEFINE name == Head(collector.todo)
  <1>1. CASE Listable(name) /\ UNCHANGED inner
             /\ collector' = [metadata |-> collector.metadata,
                              entries  |-> Extended(collector.entries, name, EntryOf(name)),
                              todo     |-> Tail(collector.todo)]
    <2>1. PICK old, n, e, metadata :
             old = collector.entries /\ n = name /\ e = EntryOf(n)
               /\ metadata = collector.metadata
      OBVIOUS
    <2>2. PICK new : new = Extended(old, n, e)
      OBVIOUS
    <2>3. DOMAIN new = DOMAIN old \cup {n} /\ new[n] = e
            /\ \A x \in DOMAIN old : x # n => new[x] = old[x]
      BY <2>2 DEF Extended
    <2>4. Fixed(old) /\ (run.action \in Planned => OfOnePlan(old, metadata))
      BY <2>1 DEF IInv, CollectorInv, CollectHeads
    <2>5. Exists(UriOf(n)) /\ PlanAgrees(n, e.sum)
      BY <1>1, <2>1 DEF Listable, EntryOf
    <2>6. n \notin {"done", "package"} =>
            /\ e.uri = Tmp(Tree, n)
            /\ \A a \in Attempts : MayWrite(a, n) => e.sum # BodyOf(n, a)
      <3>1. SUFFICES ASSUME n \notin {"done", "package"}
                     PROVE  e.uri = Tmp(Tree, n)
                              /\ \A a \in Attempts : MayWrite(a, n) => e.sum # BodyOf(n, a)
        OBVIOUS
      <3>2. e.uri = Tmp(Tree, n)
        BY <2>1, <3>1 DEF EntryOf, UriOf
      <3>3. QED
        BY <2>1, <2>5, <3>1, <3>2, EntryFixed
    <2>7. Fixed(new)
      BY <2>3, <2>4, <2>6 DEF Fixed
    <2>8. run.action \in Planned => OfOnePlan(new, metadata)
      BY <2>1, <2>3, <2>4, <2>5 DEF OfOnePlan, PlanAgrees
    <2>9. Fixed(new)' /\ (run'.action \in Planned => OfOnePlan(new, metadata)')
      BY <2>7, <2>8, FixedFrame, ScriptsStay DEF CollectHeads, OfOnePlan
    <2>10. collector'.entries = new /\ collector'.metadata = metadata
      BY <1>1, <2>1, <2>2
    <2>11. CollectorInv'
      BY <2>9, <2>10 DEF CollectorInv, Fixed, OfOnePlan
    <2>12. RecorderInv'
      BY <1>1 DEF CollectHeads, RecorderInv
    <2>13. inner' \in InnerTypes /\ inner'.attempt = inner.attempt /\ inner'.pc = "build"
      BY <1>1, Types DEF CollectHeads, IInv
    <2>14. QED
      BY <2>11, <2>12, <2>13, Moves DEF CollectHeads, Past
  <1>2. CASE collector' = [collector EXCEPT !.todo = Tail(@)] /\ UNCHANGED inner
    <2>1. CollectorInv'
      <3>1. PICK entries, metadata :
               entries = collector.entries /\ metadata = collector.metadata
        OBVIOUS
      <3>2. collector'.entries = entries /\ collector'.metadata = metadata
        BY <1>2, <3>1
      <3>3. Fixed(entries) /\ (run.action \in Planned => OfOnePlan(entries, metadata))
        BY <3>1 DEF IInv, CollectorInv, CollectHeads
      <3>4. Fixed(entries)' /\ (run'.action \in Planned => OfOnePlan(entries, metadata)')
        BY <3>3, FixedFrame, ScriptsStay DEF CollectHeads, OfOnePlan
      <3>5. QED
        BY <3>2, <3>4 DEF CollectorInv, Fixed, OfOnePlan
    <2>2. RecorderInv'
      BY <1>2 DEF CollectHeads, RecorderInv
    <2>3. inner' \in InnerTypes /\ inner'.attempt = inner.attempt /\ inner'.pc = "build"
      BY <1>2, Types DEF CollectHeads, IInv
    <2>4. QED
      BY <2>1, <2>2, <2>3, Moves DEF CollectHeads, Past
  <1>3. CASE RaiseCollect
    BY <1>3, CollectRaisesStep DEF CollectHeads, Past
  <1>4. QED
    BY <1>1, <1>2, <1>3 DEF CollectHeads

-----------------------------------------------------------------------------
(* Records.                                                                *)

\* A row that names a manifest is not replaced.
LEMMA PutRowValue ==
  ASSUME IInv, NEW r, PutRow(r), r.attempt = inner.attempt
  PROVE  /\ row' \in {r, row}
         /\ row # None /\ row.manifest # None => row' = row
  <1>1. CASE row = None
    BY <1>1 DEF PutRow
  <1>2. CASE row # None /\ row.manifest # None
    <2>1. row.attempt = inner.attempt
      BY <1>2 DEF IInv, RowInv, ManifestInv, Bound
    <2>2. ~(r.attempt > row.attempt)
      BY <2>1, MachineTypes DEF IInv
    <2>3. QED
      BY <1>2, <2>2 DEF PutRow
  <1>3. CASE row # None /\ row.manifest = None
    BY <1>3 DEF PutRow
  <1>4. QED
    BY <1>1, <1>2, <1>3

\* Recording the manifest that is there, for the execution it is bound to.
LEMMA RecordStep ==
  ASSUME IInv, NEW r, PutRow(r), r.attempt = inner.attempt,
         UNCHANGED <<run, objects, script, reader>>,
         r.manifest # None =>
           /\ Exists(ManifestUri(Tree)) /\ r.manifest = Committed
           /\ Bound(Committed, r.exec, r.attempt)
  PROVE  RowInv' /\ ReaderInv'
  <1>1. /\ row' \in {r, row}
        /\ row # None /\ row.manifest # None => row' = row
    BY PutRowValue
  <1>2. ManifestKept /\ (Exists(ManifestUri(Tree)) => Exists(ManifestUri(Tree))')
    BY ObjectsStay DEF ManifestKept
  <1>3. RowInv'
    <2>1. CASE row' = row
      BY <1>2, <2>1, RowFrame DEF IInv
    <2>2. CASE row' = r
      BY <1>2, <2>2 DEF RowInv, ManifestKept
    <2>3. QED
      BY <1>1, <2>1, <2>2
  <1>4. ReaderInv'
    <2>1. CASE row' = row
      <3>1. EntryKept
        BY DEF EntryKept, Exists
      <3>2. QED
        BY <2>1, <3>1, ReaderFrame DEF IInv
    <2>2. CASE row' # row
      <3>1. reader.pc = "idle" /\ reader' = reader
        BY <1>1, <2>2 DEF IInv, ReaderInv
      <3>2. reader = [pc |-> reader.pc, name |-> reader.name, body |-> reader.body]
        BY DEF IInv, ReaderInv
      <3>3. QED
        BY <3>1, <3>2 DEF ReaderInv
    <2>3. QED
      BY <2>1, <2>2
  <1>5. QED
    BY <1>3, <1>4

LEMMA BookkeepStep == ASSUME IInv, Bookkeep PROVE IInv'
  <1>1. inner.attempt = 0 /\ run.attempts = 2
    BY DEF IInv, SubmissionInv, Bookkeep
  <1>2. inner' \in InnerTypes /\ inner'.attempt = 1 /\ inner'.pc = "prepare"
    <2>1. inner \in InnerTypes /\ "prepare" \in Pcs /\ inner.attempt + 1 \in 0..(run.attempts - 1)
      BY <1>1, Types DEF IInv, Pcs
    <2>2. inner' = [inner EXCEPT !.pc = "prepare", !.attempt = @ + 1]
      BY DEF Bookkeep
    <2>3. inner'.attempt = inner.attempt + 1 /\ inner'.pc = "prepare" /\ inner' \in InnerTypes
      BY <2>1, <2>2 DEF InnerTypes
    <2>4. QED
      BY <1>1, <2>3
  <1>3. ~Exists(ManifestUri(Tree))
    BY DEF IInv, ManifestInv, Bookkeep, Past
  <1>4. SubmissionInv'
    <2>1. \A a \in Attempts : a > 1 \/ a = 1 => script[a].pc = "idle"
      BY <1>1 DEF IInv, SubmissionInv, Attempts
    <2>2. \A a \in Attempts : a > inner'.attempt \/ a = inner'.attempt => script'[a].pc = "idle"
      BY <1>2, <2>1 DEF Bookkeep
    <2>3. QED
      BY <1>2, <2>2 DEF SubmissionInv, IInv, Bookkeep, Exists
  <1>5. CollectorInv' /\ RecorderInv'
    BY <1>2 DEF CollectorInv, RecorderInv
  <1>6. RowInv' /\ ReaderInv'
    BY RecordStep DEF Bookkeep
  <1>7. faults' \in 0..MaxFaults /\ reader'.pc \in ReaderPcs
    BY Types DEF IInv, Bookkeep
  <1>8. QED
    BY <1>2, <1>3, <1>4, <1>5, <1>6, <1>7, MachineStep DEF Bookkeep

\* The machine records and goes on.
LEMMA RecordsStep ==
  ASSUME IInv, NEW exec, NEW ok, NEW pc \in {"collected", "failed"},
         inner.pc \in {"record", "report"},
         Exists(ManifestUri(Tree)), Bound(Committed, exec, inner.attempt),
         PutRow(RowOf(exec, ok)), Goto(pc),
         UNCHANGED <<run, objects, script, collector, reader, faults>>
  PROVE  IInv'
  <1>1. inner' \in InnerTypes /\ inner'.attempt = inner.attempt /\ inner'.pc = pc
    BY GotoValue DEF IInv, Pcs, Past
  <1>2. pc \in Past /\ pc \notin {"prepare", "bookkeep", "build", "record", "report"}
    BY DEF Past
  <1>3. RowOf(exec, ok).exec = exec /\ RowOf(exec, ok).attempt = inner.attempt
          /\ RowOf(exec, ok).manifest = Committed
    BY DEF RowOf
  <1>4. RowInv' /\ ReaderInv'
    BY <1>3, RecordStep
  <1>5. SubmissionInv'
    BY <1>1, <1>2, SubmissionFrame DEF IInv
  <1>6. CollectorInv' /\ RecorderInv'
    BY <1>1, <1>2 DEF CollectorInv, RecorderInv
  <1>7. faults' \in 0..MaxFaults /\ reader'.pc \in ReaderPcs
    BY Types DEF IInv
  <1>8. QED
    BY <1>1, <1>2, <1>4, <1>5, <1>6, <1>7, MachineStep

LEMMA CollectRecordsStep == ASSUME IInv, CollectRecords PROVE IInv'
  <1>1. inner.pc = "record" /\ inner.pc \in Past
    BY DEF CollectRecords, Past
  <1>2. Exists(ManifestUri(Tree)) /\ Bound(Committed, inner.attempt, inner.attempt)
    BY <1>1 DEF IInv, RecorderInv
  <1>3. CASE PutRow(RowOf(inner.attempt, inner.ok)) /\ Goto("collected") /\ UNCHANGED collector
    BY <1>1, <1>2, <1>3, RecordsStep DEF CollectRecords
  <1>4. CASE RaiseCollect /\ UNCHANGED row
    BY <1>1, <1>4, CollectRaisesStep DEF CollectRecords
  <1>5. QED
    BY <1>3, <1>4 DEF CollectRecords

LEMMA FailureRecordsStep == ASSUME IInv, FailureRecords PROVE IInv'
  <1>1. inner.pc = "report" /\ inner.pc \in Past
    BY DEF FailureRecords, Past
  <1>2. Exists(ManifestUri(Tree)) /\ Bound(Committed, 0, inner.attempt)
    BY <1>1 DEF IInv, RecorderInv
  <1>3. CASE PutRow(RowOf(0, ~Committed.failed)) /\ Goto("failed")
    BY <1>1, <1>2, <1>3, RecordsStep DEF FailureRecords
  <1>4. CASE RaiseFailure /\ UNCHANGED row
    BY <1>1, <1>4, FailureRaisesStep DEF FailureRecords
  <1>5. QED
    BY <1>3, <1>4 DEF FailureRecords

-----------------------------------------------------------------------------
(* Readers.                                                                *)

\* A request for an artifact changes nothing but itself.
LEMMA ReaderStep ==
  ASSUME IInv, UNCHANGED <<run, objects, script, inner, collector, row, faults>>,
         ReaderInv', reader'.pc \in ReaderPcs
  PROVE  IInv'
  <1>1. SubmissionInv'
    BY DEF IInv, SubmissionInv, Exists
  <1>2. CollectorInv' /\ RecorderInv' /\ RowInv'
    BY CollectorFrame, RecorderFrame, RowFrame, ScriptsStay, ObjectsStay DEF IInv
  <1>3. inner' \in InnerTypes /\ faults' \in 0..MaxFaults
    BY Types DEF IInv
  <1>4. Exists(ManifestUri(Tree)) => inner'.pc \in Past /\ inner'.attempt = inner.attempt
    BY DEF IInv, ManifestInv
  <1>5. QED
    BY <1>1, <1>2, <1>3, <1>4, MachineStep

LEMMA IdleReader == ASSUME reader' = NotReading PROVE ReaderInv' /\ reader'.pc \in ReaderPcs
  BY DEF NotReading, ReaderInv, ReaderPcs

LEMMA AsksStep == ASSUME IInv, Asks PROVE IInv'
  <1>1. PICK name \in DOMAIN row.manifest.entries :
          /\ Authorized(name, row.manifest.entries[name].uri)
          /\ reader' = [pc |-> IF name \in BinaryPlans THEN "check" ELSE "body",
                        name |-> name, body |-> None]
    BY DEF Asks
  <1>2. Tree = <<>>
    <2>1. Stored(ManifestUri(<<>>))
      BY Types DEF Asks, Served, IInv, Exists
    <2>2. ManifestUri(<<>>)[1] = "tmp" /\ ManifestUri(<<>>)[2] = <<>>
      BY Keys, ManifestKey
    <2>3. \A a : ManifestUri(<<>>) # DoneUri(a) /\ ManifestUri(<<>>) # PackageUri(a)
      BY Keys, ManifestKey
    <2>4. QED
      BY <2>1, <2>2, <2>3 DEF Stored
  <1>3. reader'.pc \in {"check", "body"} /\ reader'.name = name
          /\ (reader'.pc = "check" => reader'.name \in BinaryPlans)
          /\ reader' = [pc |-> reader'.pc, name |-> reader'.name, body |-> reader'.body]
    BY <1>1
  <1>4. row # None /\ row.manifest # None
    BY DEF Asks, Served
  <1>5. EntryRead' = row.manifest.entries[name]
    BY <1>3 DEF EntryRead, Asks
  <1>6. Tree' = Tree /\ (\A uri : Authorized(name, uri)' <=> Authorized(name, uri))
    BY RunFrame DEF Asks, Authorized
  <1>7. ReaderInv'
    BY <1>1, <1>2, <1>3, <1>4, <1>5, <1>6 DEF ReaderInv, Asks
  <1>8. QED
    BY <1>3, <1>7, ReaderStep DEF Asks, ReaderPcs

LEMMA ReadsBodyStep == ASSUME IInv, ReadsBody PROVE IInv'
  <1>1. CASE reader' = NotReading
    BY <1>1, IdleReader, ReaderStep DEF ReadsBody
  <1>2. CASE Exists(EntryRead.uri)
              /\ reader' = [reader EXCEPT !.pc = "check", !.body = objects[EntryRead.uri].body]
    <2>1. reader = [pc |-> reader.pc, name |-> reader.name, body |-> reader.body]
      BY DEF IInv, ReaderInv
    <2>2. /\ reader'.pc = "check" /\ reader'.name = reader.name
          /\ reader'.body = objects[EntryRead.uri].body
          /\ reader' = [pc |-> reader'.pc, name |-> reader'.name, body |-> reader'.body]
      BY <1>2, <2>1
    <2>3. EntryRead' = EntryRead
      BY <2>2 DEF EntryRead, ReadsBody
    <2>4. Tree' = Tree /\ (\A name, uri : Authorized(name, uri)' <=> Authorized(name, uri))
      BY RunFrame DEF ReadsBody, Authorized
    <2>5. ReaderInv'
      BY <1>2, <2>2, <2>3, <2>4 DEF ReaderInv, IInv, ReadsBody, Exists
    <2>6. QED
      BY <2>2, <2>5, ReaderStep DEF ReadsBody, ReaderPcs
  <1>3. QED
    BY <1>1, <1>2 DEF ReadsBody

LEMMA AnswersStep == ASSUME IInv, Answers PROVE IInv'
  <1>1. CASE reader' = NotReading
    BY <1>1, IdleReader, ReaderStep DEF Answers
  <1>2. CASE /\ Exists(EntryRead.uri) /\ Matches(objects[EntryRead.uri], EntryRead)
             /\ reader' = [reader EXCEPT !.pc = "answered"]
    <2>1. reader = [pc |-> reader.pc, name |-> reader.name, body |-> reader.body]
      BY DEF IInv, ReaderInv
    <2>2. /\ reader'.pc = "answered" /\ reader'.name = reader.name /\ reader'.body = reader.body
          /\ reader' = [pc |-> reader'.pc, name |-> reader'.name, body |-> reader'.body]
      BY <1>2, <2>1
    <2>3. EntryRead' = EntryRead
      BY <2>2 DEF EntryRead, Answers
    <2>4. Tree' = Tree /\ (\A name, uri : Authorized(name, uri)' <=> Authorized(name, uri))
      BY RunFrame DEF Answers, Authorized
    <2>5. reader.name \notin BinaryPlans => reader.body = EntryRead.sum
      BY <1>2 DEF IInv, ReaderInv, Answers, Matches
    <2>6. ReaderInv'
      BY <2>2, <2>3, <2>4, <2>5 DEF ReaderInv, IInv, Answers
    <2>7. QED
      BY <2>2, <2>6, ReaderStep DEF Answers, ReaderPcs
  <1>3. QED
    BY <1>1, <1>2 DEF Answers

LEMMA ClosesStep == ASSUME IInv, Closes PROVE IInv'
  BY IdleReader, ReaderStep DEF Closes

-----------------------------------------------------------------------------
(* Scripts and the objects they store.                                     *)

LEMMA PutTypes ==
  ASSUME TypeOK, UNCHANGED run, NEW uri, NEW object, Put(uri, object), Stored(uri)
  PROVE  \A u \in DOMAIN objects' : Stored(u)'
  <1>1. \A u : Stored(u)' <=> Stored(u)
    BY RunFrame
  <1>2. \A u : u \in DOMAIN objects' <=> u \in DOMAIN objects \/ u = uri
    BY PutObject DEF Exists
  <1>3. QED
    BY <1>1, <1>2, Types

\* What the reader looks at is kept unless it is overwritten by what is listed.
LEMMA PutEntry ==
  ASSUME NEW uri, NEW object, Put(uri, object),
         reader.pc # "idle" /\ uri = EntryRead.uri /\ Exists(uri) => object.body # EntryRead.sum
  PROVE  EntryKept
  BY PutObject DEF EntryKept, Exists

\* The reader looks at the done marker of an attempt or at a file a script uploads.
LEMMA EntryKeys ==
  ASSUME IInv, reader.pc # "idle"
  PROVE  /\ \/ \E a : EntryRead.uri = DoneUri(a)
            \/ EntryRead.uri = Tmp(Tree, reader.name) /\ reader.name # "manifest.json"
         /\ EntryRead.uri # ManifestUri(Tree)
  <1>1. Authorized(reader.name, EntryRead.uri) /\ Tree = <<>>
    BY DEF IInv, ReaderInv
  <1>2. CASE reader.name = "done"
    <2>1. EntryRead.uri = DoneUri(row.exec)
      BY <1>1, <1>2 DEF Authorized
    <2>2. QED
      BY <2>1, Keys, ManifestKey
  <1>3. CASE reader.name # "done"
    <2>1. EntryRead.uri = Tmp(Tree, reader.name) /\ reader.name # "manifest.json"
      BY <1>1, <1>3, ExposedNames DEF Authorized
    <2>2. QED
      BY <2>1, Keys, ManifestKey
  <1>4. QED
    BY <1>2, <1>3

\* A step of a script - or of the engine that runs it - stores what is no manifest.
LEMMA ScriptStep ==
  ASSUME IInv, UNCHANGED <<run, inner, collector, row, reader>>,
         script' \in [Attempts -> Scripts], ScriptsShrink,
         \A uri \in DOMAIN objects' : Stored(uri)',
         ManifestKept, EntryKept, UploadInv', faults' \in 0..MaxFaults,
         \A a \in Attempts : Exists(DoneUri(a))' => script'[a].pc = "ended"
  PROVE  IInv'
  <1>1. TypeOK'
    <2>1. Typed'
      BY RunFrame, Types DEF Typed, IInv
    <2>2. QED
      BY <2>1, TypedNext
  <1>2. SubmissionInv'
    BY DEF IInv, SubmissionInv, ScriptsShrink
  <1>3. CollectorInv' /\ RecorderInv' /\ RowInv' /\ ReaderInv'
    BY CollectorFrame, RecorderFrame, RowFrame, ReaderFrame DEF IInv
  <1>4. ManifestInv'
    <2>1. Exists(ManifestUri(Tree)) => inner'.pc \in Past /\ inner'.attempt = inner.attempt
      BY DEF IInv, ManifestInv
    <2>2. QED
      BY <2>1, ManifestFrame
  <1>5. QED
    BY <1>1, <1>2, <1>3, <1>4 DEF IInv

\* The script of attempt a does less.
LEMMA ScriptValue ==
  ASSUME TypeOK, NEW a \in Attempts, NEW s \in Scripts, s.pc \in {"running", "ended"},
         script[a].pc = "running", s.todo \subseteq script[a].todo,
         script'[a] = s, \A b \in Attempts \ {a} : script'[b] = script[b]
  PROVE  ScriptsShrink
  <1>1. ASSUME NEW b \in Attempts
        PROVE  /\ script'[b].pc = "idle" <=> script[b].pc = "idle"
               /\ script[b].pc = "ended" => script'[b].pc = "ended"
               /\ \A name : MayWrite(b, name)' => MayWrite(b, name)
    <2>1. CASE b = a
      BY <2>1 DEF MayWrite
    <2>2. CASE b # a
      BY <2>2 DEF MayWrite
    <2>3. QED
      BY <2>1, <2>2
  <1>2. QED
    BY <1>1 DEF ScriptsShrink

LEMMA UploadStep == ASSUME IInv, NEW a \in Attempts, Upload(a) PROVE IInv'
  <1>1. PICK name \in script[a].todo, fits \in BOOLEAN :
          /\ Due(a, name)
          /\ IF fits THEN UNCHANGED faults ELSE Fault
          /\ Put(Tmp(Tree, name),
                 [body |-> BodyOf(name, a), fits |-> fits, type |-> SentType(name)])
          /\ script' = [script EXCEPT ![a].todo = @ \ {name}]
    BY DEF Upload
  <1>2. PICK s : s = [script[a] EXCEPT !.todo = @ \ {name}]
    OBVIOUS
  <1>3. script[a].pc = "running" /\ name \in WithUrl /\ script[a] \in Scripts
    BY <1>1, ScriptTypes DEF Due, IInv
  <1>4. s \in Scripts /\ s.pc = "running" /\ s.todo = script[a].todo \ {name}
    BY <1>2, <1>3 DEF Scripts
  <1>5. script' = [script EXCEPT ![a] = s]
    BY <1>1, <1>2
  <1>6. /\ script' \in [Attempts -> Scripts] /\ script'[a] = s
        /\ \A b \in Attempts \ {a} : script'[b] = script[b]
        /\ ScriptsShrink
    <2>1. script \in [Attempts -> Scripts]
      BY Types DEF IInv
    <2>2. /\ script' \in [Attempts -> Scripts] /\ script'[a] = s
          /\ \A b \in Attempts \ {a} : script'[b] = script[b]
      BY <1>4, <1>5, <2>1
    <2>3. QED
      BY <1>3, <1>4, <2>2, ScriptValue DEF IInv
  <1>7. Stored(Tmp(Tree, name))
    BY Keys DEF Stored
  <1>8. Tmp(Tree, name) # ManifestUri(Tree) /\ UNCHANGED run
    BY <1>3, UrlNames, Keys, ManifestKey DEF Upload
  <1>9. EntryKept
    <2>1. SUFFICES ASSUME reader.pc # "idle", Tmp(Tree, name) = EntryRead.uri
                   PROVE  BodyOf(name, a) # EntryRead.sum
      BY <1>1, PutEntry
    <2>2. EntryRead.uri = Tmp(Tree, reader.name)
      BY <2>1, EntryKeys, Keys
    <2>3. name = reader.name
      BY <2>1, <2>2, Keys
    <2>4. row.manifest = Committed /\ Exists(ManifestUri(Tree))
            /\ name \in DOMAIN row.manifest.entries
      BY <2>1, <2>3 DEF IInv, ReaderInv, RowInv
    <2>5. MayWrite(a, name) /\ name \notin {"done", "package"}
      BY <1>1, <1>3, UrlNames DEF MayWrite
    <2>6. row.manifest.entries[name].sum # BodyOf(name, a)
      BY <2>4, <2>5 DEF IInv, ManifestInv, Fixed
    <2>7. QED
      BY <2>3, <2>6 DEF EntryRead
  <1>10. UploadInv'
    <2>1. SUFFICES ASSUME NEW b \in Attempts, NEW n \in WithUrl, Exists(Tmp(Tree, n))',
                          objects'[Tmp(Tree, n)].body = BodyOf(n, b)
                   PROVE  script'[b].pc # "idle" /\ ~(MayWrite(b, n)')
      BY <1>8, RunFrame DEF UploadInv, Attempts
    <2>2. CASE n = name
      <3>1. BodyOf(n, a) = BodyOf(n, b)
        BY <1>1, <2>1, <2>2, PutObject
      <3>2. b = a
        BY <3>1, Bodies
      <3>3. QED
        BY <1>4, <1>6, <2>2, <3>2 DEF MayWrite
    <2>3. CASE n # name
      <3>1. Exists(Tmp(Tree, n)) /\ objects[Tmp(Tree, n)].body = BodyOf(n, b)
        BY <1>1, <1>8, <2>1, <2>3, PutObject, Keys, RunFrame
      <3>2. script[b].pc # "idle" /\ ~MayWrite(b, n)
        BY <3>1 DEF IInv, UploadInv
      <3>3. QED
        BY <1>6, <3>2 DEF ScriptsShrink
    <2>4. QED
      BY <2>2, <2>3
  <1>11. \A b \in Attempts : Exists(DoneUri(b))' => script'[b].pc = "ended"
    <2>1. \A b \in Attempts : Exists(DoneUri(b))' => Exists(DoneUri(b))
      BY <1>1, PutObject, Keys
    <2>2. QED
      BY <1>6, <2>1 DEF IInv, SubmissionInv, ScriptsShrink
  <1>12. faults' \in 0..MaxFaults
    BY <1>1, FaultCount DEF IInv
  <1>13. (\A uri \in DOMAIN objects' : Stored(uri)') /\ ManifestKept
    BY <1>1, <1>7, <1>8, PutTypes, PutKeepsManifest DEF IInv
  <1>14. QED
    BY <1>6, <1>9, <1>10, <1>11, <1>12, <1>13, ScriptStep DEF Upload

\* A script that loses names, or ends, and stores nothing.
LEMMA QuietStep ==
  ASSUME IInv, UNCHANGED <<run, objects, inner, collector, row, reader>>,
         script' \in [Attempts -> Scripts], ScriptsShrink, faults' \in 0..MaxFaults
  PROVE  IInv'
  <1>1. ManifestKept /\ EntryKept
    BY ObjectsStay DEF EntryKept, Exists
  <1>2. \A uri \in DOMAIN objects' : Stored(uri)'
    BY RunFrame, Types DEF IInv
  <1>3. UploadInv'
    BY UploadFrame, RunFrame DEF IInv, Exists
  <1>4. \A a \in Attempts : Exists(DoneUri(a))' => script'[a].pc = "ended"
    BY DEF IInv, SubmissionInv, ScriptsShrink, Exists
  <1>5. QED
    BY <1>1, <1>2, <1>3, <1>4, ScriptStep

LEMMA UploadFailsStep == ASSUME IInv, NEW a \in Attempts, UploadFails(a) PROVE IInv'
  <1>1. PICK name \in script[a].todo :
          /\ Due(a, name)
          /\ IF Acceptable(name) THEN Fault ELSE UNCHANGED faults
          /\ script' = [script EXCEPT ![a].ok = FALSE, ![a].todo = @ \ Lost(name)]
    BY DEF UploadFails
  <1>2. PICK s : s = [script[a] EXCEPT !.ok = FALSE, !.todo = @ \ Lost(name)]
    OBVIOUS
  <1>3. script[a].pc = "running" /\ script[a] \in Scripts /\ script \in [Attempts -> Scripts]
    BY <1>1, ScriptTypes, Types DEF Due, IInv
  <1>4. s \in Scripts /\ s.pc = "running" /\ s.todo \subseteq script[a].todo
    BY <1>2, <1>3 DEF Scripts
  <1>5. script' = [script EXCEPT ![a] = s]
    BY <1>1, <1>2, <1>3
  <1>6. script' \in [Attempts -> Scripts] /\ ScriptsShrink
    <2>1. script \in [Attempts -> Scripts]
      BY Types DEF IInv
    <2>2. /\ script' \in [Attempts -> Scripts] /\ script'[a] = s
          /\ \A b \in Attempts \ {a} : script'[b] = script[b]
      BY <1>4, <1>5, <2>1
    <2>3. QED
      BY <1>3, <1>4, <2>2, ScriptValue DEF IInv
  <1>7. faults' \in 0..MaxFaults
    BY <1>1, FaultCount DEF IInv
  <1>8. QED
    BY <1>6, <1>7, QuietStep DEF UploadFails

LEMMA EngineDiesStep == ASSUME IInv, NEW a \in Attempts, EngineDies(a) PROVE IInv'
  <1>1. PICK s : s = [script[a] EXCEPT !.pc = "ended"]
    OBVIOUS
  <1>2. script[a].pc = "running" /\ script[a] \in Scripts
    BY ScriptTypes DEF EngineDies, IInv
  <1>3. s \in Scripts /\ s.pc = "ended" /\ s.todo \subseteq script[a].todo
    BY <1>1, <1>2 DEF Scripts
  <1>4. script' = [script EXCEPT ![a] = s]
    BY <1>1 DEF EngineDies
  <1>5. script' \in [Attempts -> Scripts] /\ ScriptsShrink
    <2>1. script \in [Attempts -> Scripts]
      BY Types DEF IInv
    <2>2. /\ script' \in [Attempts -> Scripts] /\ script'[a] = s
          /\ \A b \in Attempts \ {a} : script'[b] = script[b]
      BY <1>3, <1>4, <2>1
    <2>3. QED
      BY <1>2, <1>3, <2>2, ScriptValue DEF IInv
  <1>6. faults' \in 0..MaxFaults
    BY FaultCount DEF IInv, EngineDies
  <1>7. QED
    BY <1>5, <1>6, QuietStep DEF EngineDies

LEMMA ExitsStep == ASSUME IInv, NEW a \in Attempts, Exits(a) PROVE IInv'
  <1>1. PICK object : Put(DoneUri(a), object)
    BY DEF Exits
  <1>2. PICK s : s = [script[a] EXCEPT !.pc = "ended"]
    OBVIOUS
  <1>3. script[a].pc = "running" /\ script[a] \in Scripts
    BY ScriptTypes DEF Exits, IInv
  <1>4. s \in Scripts /\ s.pc = "ended" /\ s.todo \subseteq script[a].todo
    BY <1>2, <1>3 DEF Scripts
  <1>5. script' = [script EXCEPT ![a] = s]
    BY <1>2 DEF Exits
  <1>6. script' \in [Attempts -> Scripts] /\ script'[a] = s /\ ScriptsShrink
    <2>1. script \in [Attempts -> Scripts]
      BY Types DEF IInv
    <2>2. /\ script' \in [Attempts -> Scripts] /\ script'[a] = s
          /\ \A b \in Attempts \ {a} : script'[b] = script[b]
      BY <1>4, <1>5, <2>1
    <2>3. QED
      BY <1>3, <1>4, <2>2, ScriptValue DEF IInv
  <1>7. faults' \in 0..MaxFaults
    <2>1. Fault \/ UNCHANGED faults
      BY DEF Exits
    <2>2. QED
      BY <2>1, FaultCount DEF IInv
  <1>8. ~Exists(DoneUri(a))
    BY <1>3 DEF IInv, SubmissionInv
  <1>9. UNCHANGED run /\ Stored(DoneUri(a)) /\ DoneUri(a) # ManifestUri(Tree)
    BY Keys, ManifestKey DEF Stored, Exits
  <1>10. (\A uri \in DOMAIN objects' : Stored(uri)') /\ ManifestKept
    BY <1>1, <1>9, PutTypes, PutKeepsManifest DEF IInv
  <1>11. EntryKept
    BY <1>1, <1>8, PutEntry
  <1>12. UploadInv'
    <2>1. \A name \in WithUrl : Exists(Tmp(Tree, name))' =>
            Exists(Tmp(Tree, name)) /\ objects'[Tmp(Tree, name)] = objects[Tmp(Tree, name)]
      BY <1>1, <1>9, PutObject, Keys, RunFrame
    <2>2. QED
      BY <1>6, <1>9, <2>1, UploadFrame, RunFrame DEF IInv
  <1>13. \A b \in Attempts : Exists(DoneUri(b))' => script'[b].pc = "ended"
    <2>1. \A b \in Attempts : Exists(DoneUri(b))' => Exists(DoneUri(b)) \/ b = a
      BY <1>1, PutObject, Keys
    <2>2. QED
      BY <1>4, <1>6, <2>1 DEF IInv, SubmissionInv, ScriptsShrink
  <1>14. QED
    BY <1>6, <1>7, <1>10, <1>11, <1>12, <1>13, ScriptStep DEF Exits

-----------------------------------------------------------------------------
(* Submission.                                                             *)

\* A script is given names it has a URL for.
LEMMA JobTypes ==
  ASSUME NEW job \in Jobs, run.action \in Actions
  PROVE  job.todo \subseteq WithUrl /\ job.ok \in BOOLEAN
  <1>1. \A n : OutputsUpTo(n) \subseteq WithUrl
    BY DEF OutputsUpTo
  <1>2. ToSet(PlanFiles(run.action)) \subseteq WithUrl
    BY DEF PlanFiles, ToSet, AllPlanFiles, WithUrl
  <1> DEFINE all == Len(Uploaded(run.action, run.focus))
             plans == ToSet(PlanFiles(run.action))
             scanned == {k \in LastOfCommand..all : ScansOf(run.action, run.focus) # <<>>}
  <1>3. \/ job \in {[todo |-> OutputsUpTo(n), ok |-> FALSE] : n \in 0..LastOfCommand}
        \/ job \in {[todo |-> plans \cup OutputsUpTo(n), ok |-> FALSE] : n \in scanned}
        \/ job \in {[todo |-> plans \cup out, ok |-> TRUE] :
                      out \in {OutputsUpTo(all), OutputsUpTo(all) \ Optional}}
    BY DEF Jobs
  <1> HIDE DEF all, scanned
  <1>4. CASE job \in {[todo |-> OutputsUpTo(n), ok |-> FALSE] : n \in 0..LastOfCommand}
    <2>1. PICK n : job = [todo |-> OutputsUpTo(n), ok |-> FALSE]
      BY <1>4
    <2>2. QED
      BY <1>1, <2>1
  <1>5. CASE job \in {[todo |-> plans \cup OutputsUpTo(n), ok |-> FALSE] : n \in scanned}
    <2>1. PICK n : job = [todo |-> plans \cup OutputsUpTo(n), ok |-> FALSE]
      BY <1>5
    <2>2. QED
      BY <1>1, <1>2, <2>1
  <1>6. CASE job \in {[todo |-> plans \cup out, ok |-> TRUE] :
                      out \in {OutputsUpTo(all), OutputsUpTo(all) \ Optional}}
    <2>1. PICK out \in {OutputsUpTo(all), OutputsUpTo(all) \ Optional} :
            job = [todo |-> plans \cup out, ok |-> TRUE]
      BY <1>6
    <2>2. out \subseteq WithUrl
      BY <1>1
    <2>3. QED
      BY <1>2, <2>1, <2>2
  <1>7. QED
    BY <1>3, <1>4, <1>5, <1>6

LEMMA SubmitStep == ASSUME IInv, Submit PROVE IInv'
  <1>0. PICK a : a = inner.attempt
    OBVIOUS
  <1>1. PICK job \in Jobs :
          /\ a = inner.attempt
          /\ script' = [script EXCEPT ![a] = [pc |-> "running", todo |-> job.todo, ok |-> job.ok]]
    BY <1>0 DEF Submit
  <1>2. PICK object : Put(PackageUri(a), object)
    BY <1>1 DEF Submit
  <1>3. a \in Attempts /\ script \in [Attempts -> Scripts] /\ run.action \in Actions
    BY <1>1, MachineTypes, Types DEF IInv
  <1>4. PICK s : s = [pc |-> "running", todo |-> job.todo, ok |-> job.ok]
    OBVIOUS
  <1>5. s \in Scripts /\ s.pc = "running"
    BY <1>3, <1>4, JobTypes DEF Scripts
  <1>6. /\ script' \in [Attempts -> Scripts] /\ script'[a] = s
        /\ \A b \in Attempts \ {a} : script'[b] = script[b]
    BY <1>1, <1>3, <1>4, <1>5
  <1>7. /\ inner' \in InnerTypes /\ inner'.pc = "probe" /\ inner'.attempt = a
        /\ inner.pc = "prepare" /\ UNCHANGED run
    BY <1>1, GotoValue DEF Submit, IInv, Pcs
  <1>8. script[a].pc = "idle"
    BY <1>1, <1>3, <1>7 DEF IInv, SubmissionInv
  <1>9. ~Exists(ManifestUri(Tree)) /\ PackageUri(a) # ManifestUri(Tree) /\ ManifestKept
    BY <1>2, <1>7, PutKeepsManifest, Keys, ManifestKey DEF IInv, ManifestInv, Past
  <1>10. TypeOK'
    <2>1. Stored(PackageUri(a))
      BY <1>3 DEF Stored
    <2>2. \A u \in DOMAIN objects' : Stored(u)'
      BY <1>2, <1>7, <2>1, PutTypes DEF IInv
    <2>3. Typed'
      BY <1>6, <1>7, <2>2, RunFrame, Types DEF Typed, IInv, Submit
    <2>4. QED
      BY <2>3, TypedNext
  <1>11. SubmissionInv'
    <2>1. \A b \in Attempts : Exists(DoneUri(b))' => Exists(DoneUri(b))
      BY <1>2, PutObject, Keys
    <2>2. \A b \in Attempts : b > inner'.attempt => script'[b].pc = "idle"
      <3>1. SUFFICES ASSUME NEW b \in Attempts, b > a PROVE script'[b].pc = "idle"
        BY <1>7
      <3>2. b # a
        BY <1>3, <3>1 DEF Attempts
      <3>3. QED
        BY <1>1, <1>6, <3>1, <3>2 DEF IInv, SubmissionInv
    <2>3. \A b \in Attempts : Exists(DoneUri(b))' => script'[b].pc = "ended"
      BY <1>6, <1>8, <2>1 DEF IInv, SubmissionInv
    <2>4. QED
      BY <1>7, <2>2, <2>3 DEF SubmissionInv
  <1>12. UploadInv'
    <2>1. SUFFICES ASSUME NEW b \in Attempts, NEW n \in WithUrl, Exists(Tmp(Tree, n))',
                          objects'[Tmp(Tree, n)].body = BodyOf(n, b)
                   PROVE  script'[b].pc # "idle" /\ ~(MayWrite(b, n)')
      BY <1>7, RunFrame DEF UploadInv, Attempts
    <2>2. Exists(Tmp(Tree, n)) /\ objects[Tmp(Tree, n)].body = BodyOf(n, b)
      BY <1>2, <1>7, <2>1, PutObject, Keys, RunFrame
    <2>3. script[b].pc # "idle" /\ ~MayWrite(b, n)
      BY <2>2 DEF IInv, UploadInv
    <2>4. b # a
      BY <1>8, <2>3
    <2>5. QED
      BY <1>6, <2>3, <2>4 DEF MayWrite
  <1>13. CollectorInv' /\ RecorderInv'
    BY <1>7 DEF CollectorInv, RecorderInv
  <1>14. ManifestInv'
    BY <1>9 DEF ManifestInv, ManifestKept
  <1>15. RowInv'
    BY <1>9, RowFrame DEF IInv, Submit
  <1>16. ReaderInv'
    <2>1. reader.pc = "idle"
      BY <1>9 DEF IInv, ReaderInv, RowInv
    <2>2. QED
      BY <2>1 DEF IInv, ReaderInv, Submit
  <1>17. QED
    BY <1>10, <1>11, <1>12, <1>13, <1>14, <1>15, <1>16 DEF IInv

-----------------------------------------------------------------------------
(* The manifest.                                                           *)

\* Whoever creates the manifest creates one that is valid and agrees with what is stored.
LEMMA CommitStep ==
  ASSUME IInv, NEW m, Commit(m), MayCommit, UNCHANGED <<run, script, row, reader, faults>>,
         inner' \in InnerTypes, inner'.attempt = inner.attempt,
         inner'.pc \in {"record", "report"}, inner.pc \in Past,
         m.attempt = inner.attempt, m.uri = ManifestUri(Tree), ValidSchema(m, Tree),
         Fixed(m.entries), SidecarOf(m),
         inner'.pc = "record" => Bound(m, inner.attempt, inner.attempt),
         inner'.pc = "report" => Bound(m, 0, inner.attempt)
  PROVE  IInv'
  <1>1. PICK object : Put(ManifestUri(Tree), object) /\ object.body = m
    BY DEF Commit
  <1>2. ~Exists(ManifestUri(Tree))
    BY DEF MayCommit
  <1>3. Exists(ManifestUri(Tree))' /\ Committed' = m /\ Tree' = Tree
    BY <1>1, PutObject, RunFrame DEF Exists, Committed
  <1>4. TypeOK'
    <2>1. Stored(ManifestUri(Tree))
      BY Keys, ManifestKey DEF Stored
    <2>2. \A u \in DOMAIN objects' : Stored(u)'
      BY <1>1, <2>1, PutTypes DEF IInv
    <2>3. Typed'
      BY <2>2, RunFrame, Types DEF Typed, IInv
    <2>4. QED
      BY <2>3, TypedNext
  <1>5. SubmissionInv'
    <2>1. \A b \in Attempts : Exists(DoneUri(b))' => Exists(DoneUri(b))
      BY <1>1, PutObject, Keys, ManifestKey
    <2>2. QED
      BY <2>1 DEF IInv, SubmissionInv
  <1>6. UploadInv'
    <2>1. \A name \in WithUrl : Exists(Tmp(Tree, name))' =>
            Exists(Tmp(Tree, name)) /\ objects'[Tmp(Tree, name)] = objects[Tmp(Tree, name)]
      <3>1. \A name \in WithUrl : Tmp(Tree, name) # ManifestUri(Tree)
        BY UrlNames, Keys, ManifestKey
      <3>2. QED
        BY <1>1, <1>3, <3>1, PutObject
    <2>2. QED
      BY <2>1, UploadFrame, ScriptsStay, RunFrame DEF IInv
  <1>7. CollectorInv'
    BY DEF CollectorInv
  <1>8. ManifestInv'
    <2>1. PICK entries : entries = m.entries
      OBVIOUS
    <2>2. Fixed(entries)' /\ SidecarOf(m)'
      BY <2>1, FixedFrame, SidecarFrame, ScriptsStay
    <2>3. Fixed(Committed.entries)' /\ SidecarOf(Committed)'
      BY <1>3, <2>1, <2>2 DEF Fixed, SidecarOf
    <2>4. inner'.pc \in Past
      BY DEF Past
    <2>5. QED
      BY <1>3, <2>3, <2>4 DEF ManifestInv
  <1>9. RecorderInv'
    BY <1>3 DEF RecorderInv
  <1>10. RowInv' /\ ReaderInv'
    <2>1. ~(row # None /\ row.manifest # None) /\ reader.pc = "idle"
      BY <1>2 DEF IInv, RowInv, ReaderInv
    <2>2. QED
      BY <2>1 DEF IInv, RowInv, ReaderInv
  <1>11. QED
    BY <1>4, <1>5, <1>6, <1>7, <1>8, <1>9, <1>10 DEF IInv

\* Whoever finds one adopts it where it is bound to the execution it would have recorded.
LEMMA AdoptStep ==
  ASSUME IInv, UNCHANGED <<run, objects, script, row, reader, faults>>,
         inner' \in InnerTypes, inner'.attempt = inner.attempt,
         inner'.pc \in {"record", "report"}, inner.pc \in Past,
         Exists(ManifestUri(Tree)),
         inner'.pc = "record" => Bound(Committed, inner.attempt, inner.attempt),
         inner'.pc = "report" => Bound(Committed, 0, inner.attempt)
  PROVE  IInv'
  <1>1. CollectorInv'
    BY DEF CollectorInv
  <1>2. Exists(ManifestUri(Tree))' /\ Committed' = Committed
    BY ObjectsStay DEF ManifestKept
  <1>3. RecorderInv'
    BY <1>2 DEF RecorderInv
  <1>4. inner'.pc \in Past
    BY DEF Past
  <1>5. QED
    BY <1>1, <1>3, <1>4, Moves

\* The manifest Collect builds from what it listed.
LEMMA ManifestBuilt ==
  ASSUME IInv, inner.pc = "build", NEW m,
         m = Manifest(run, inner.attempt, inner.ok, collector.entries), ValidSchema(m, Tree)
  PROVE  /\ m.exec = inner.attempt /\ m.attempt = inner.attempt /\ m.uri = ManifestUri(Tree)
         /\ Fixed(m.entries) /\ SidecarOf(m)
  <1>1. PICK entries, metadata : entries = collector.entries /\ metadata = collector.metadata
    OBVIOUS
  <1>2. /\ m.exec = inner.attempt /\ m.attempt = inner.attempt /\ m.uri = ManifestUri(Tree)
        /\ m.entries = entries /\ m.action = run.action
    BY <1>1 DEF Manifest, Tree
  <1>3. Fixed(entries) /\ (run.action \in Planned => OfOnePlan(entries, metadata))
    BY <1>1 DEF IInv, CollectorInv
  <1>4. SidecarOf(m)
    <2>1. SUFFICES ASSUME ~m.failed, run.action \in Planned
                   PROVE  m.entries[PlanFiles(run.action)[1]].sum
                            = m.entries[PlanFiles(run.action)[2]].sum
      BY DEF SidecarOf
    <2>2. SuccessEntries(m.action, m.focus) \subseteq DOMAIN entries
      BY <1>2, <2>1 DEF ValidSchema, ValidEntrySet
    <2>3. ToSet(PlanFiles(run.action)) \subseteq DOMAIN entries
      BY <1>2, <2>2 DEF SuccessEntries
    <2>4. PlanFiles(run.action)[1] \in DOMAIN entries \cap AllPlanFiles
            /\ PlanFiles(run.action)[2] \in DOMAIN entries \cap AllPlanFiles
      BY <2>1, <2>3, PlansOfAction
    <2>5. entries[PlanFiles(run.action)[1]].sum = metadata.plan
            /\ entries[PlanFiles(run.action)[2]].sum = metadata.plan
      BY <1>3, <2>1, <2>4, PlansOfAction DEF OfOnePlan
    <2>6. QED
      BY <1>2, <2>5
  <1>5. QED
    BY <1>2, <1>3, <1>4

LEMMA CollectCommitsStep == ASSUME IInv, CollectCommits PROVE IInv'
  <1>1. PICK m : m = Manifest(run, inner.attempt, inner.ok, collector.entries)
    OBVIOUS
  <1>2. inner.pc = "build" /\ inner.pc \in Past /\ inner \in InnerTypes /\ "record" \in Pcs
    BY Types DEF CollectCommits, Past, Pcs, IInv
  <1>3. m.exec = inner.attempt /\ m.attempt = inner.attempt
    BY <1>1 DEF Manifest
  <1>4. CASE /\ ValidSchema(m, Tree) /\ MayCommit /\ Commit(m)
             /\ inner' = [inner EXCEPT !.pc = "record"]
    <2>1. inner' \in InnerTypes /\ inner'.attempt = inner.attempt /\ inner'.pc = "record"
      BY <1>2, <1>4 DEF InnerTypes
    <2>2. /\ m.exec = inner.attempt /\ m.attempt = inner.attempt /\ m.uri = ManifestUri(Tree)
          /\ Fixed(m.entries) /\ SidecarOf(m)
      BY <1>1, <1>2, <1>4, ManifestBuilt
    <2>3. Bound(m, inner.attempt, inner.attempt)
      BY <1>3 DEF Bound
    <2>4. QED
      BY <1>2, <1>4, <2>1, <2>2, <2>3, CommitStep DEF CollectCommits
  <1>5. CASE /\ Exists(ManifestUri(Tree)) /\ Adopts(m, Tree) /\ UNCHANGED objects
             /\ inner' = [inner EXCEPT !.pc = "record", !.ok = ~Committed.failed]
    <2>1. inner' \in InnerTypes /\ inner'.attempt = inner.attempt /\ inner'.pc = "record"
      BY <1>2, <1>5 DEF InnerTypes
    <2>2. Bound(Committed, inner.attempt, inner.attempt)
      BY <1>3, <1>5 DEF Adopts, Bound
    <2>3. QED
      BY <1>2, <1>5, <2>1, <2>2, AdoptStep DEF CollectCommits
  <1>6. CASE RaiseCollect /\ UNCHANGED objects
    BY <1>2, <1>6, CollectRaisesStep DEF CollectCommits
  <1>7. QED
    BY <1>1, <1>4, <1>5, <1>6 DEF CollectCommits

LEMMA FailureCommitsStep == ASSUME IInv, FailureCommits PROVE IInv'
  <1>1. PICK m : m = FailureManifest(run, inner.attempt)
    OBVIOUS
  <1>2. inner.pc = "failure" /\ inner.pc \in Past
    BY DEF FailureCommits, Past
  <1>3. /\ m.exec = 0 /\ m.attempt = inner.attempt /\ m.uri = ManifestUri(Tree) /\ m.failed
        /\ m.entries = <<>> /\ DOMAIN m.entries = {} /\ m.tree = Tree
    BY <1>1 DEF FailureManifest, Tree
  <1>4. ASSUME Goto("report")
        PROVE  inner' \in InnerTypes /\ inner'.attempt = inner.attempt /\ inner'.pc = "report"
    BY <1>4, GotoValue DEF IInv, Pcs, Past
  <1>5. CASE MayCommit /\ Commit(m) /\ Goto("report")
    <2>1. ValidSchema(m, Tree)
      BY <1>3 DEF ValidSchema, ValidEntrySet, TreeOf
    <2>2. Fixed(m.entries) /\ SidecarOf(m) /\ Bound(m, 0, inner.attempt)
      BY <1>3 DEF Fixed, SidecarOf, Bound
    <2>3. QED
      BY <1>2, <1>3, <1>4, <1>5, <2>1, <2>2, CommitStep DEF FailureCommits
  <1>6. CASE Exists(ManifestUri(Tree)) /\ Adopts(m, <<>>) /\ Goto("report") /\ UNCHANGED objects
    <2>1. Bound(Committed, 0, inner.attempt)
      BY <1>3, <1>6 DEF Adopts, Bound
    <2>2. QED
      BY <1>2, <1>4, <1>6, <2>1, AdoptStep DEF FailureCommits
  <1>7. CASE RaiseFailure /\ UNCHANGED objects
    BY <1>2, <1>7, FailureRaisesStep DEF FailureCommits
  <1>8. QED
    BY <1>1, <1>5, <1>6, <1>7 DEF FailureCommits

-----------------------------------------------------------------------------
(* The inductive invariant.                                                *)

LEMMA InitInv == Init => IInv
  <1>1. SUFFICES ASSUME Init PROVE IInv
    OBVIOUS
  <1>2. DOMAIN objects = {} /\ \A uri : ~Exists(uri)
    BY <1>1 DEF Init, Exists
  <1>3. inner.pc = "prepare" /\ inner.attempt = 0 /\ row = None
    BY <1>1 DEF Init
  <1>4. TypeOK
    <2>1. script \in [Attempts -> Scripts]
      BY <1>1 DEF Init, Scripts
    <2>2. run.attempts \in 1..2 /\ run \in Runs
      BY <1>1, RunTypes DEF Init
    <2>3. inner \in InnerTypes
      <3>1. 0 \in 0..(run.attempts - 1) /\ 0 \in 0..MaxRetries
        BY <2>2, Numbers
      <3>2. QED
        BY <1>1, <3>1 DEF Init, InnerTypes, Pcs
    <2>4. faults \in 0..MaxFaults /\ reader.pc \in ReaderPcs
      BY <1>1, Numbers DEF Init, NotReading, ReaderPcs
    <2>5. Typed
      BY <1>2, <2>1, <2>2, <2>3, <2>4 DEF Typed
    <2>6. QED
      BY <2>5, TypeForms
  <1>5. SubmissionInv /\ UploadInv /\ ManifestInv
    BY <1>1, <1>2, <1>3 DEF Init, SubmissionInv, UploadInv, ManifestInv
  <1>6. CollectorInv /\ RecorderInv /\ RowInv
    BY <1>3 DEF CollectorInv, RecorderInv, RowInv
  <1>7. ReaderInv
    BY <1>1 DEF Init, NotReading, ReaderInv
  <1>8. QED
    BY <1>4, <1>5, <1>6, <1>7 DEF IInv

LEMMA StutterStep == ASSUME IInv, UNCHANGED vars PROVE IInv'
  <1>1. ReaderInv' /\ reader'.pc \in ReaderPcs
    <2>1. EntryKept
      BY DEF EntryKept, Exists, vars
    <2>2. QED
      BY <2>1, ReaderFrame, Types DEF vars, IInv
  <1>2. QED
    BY <1>1, ReaderStep DEF vars

LEMMA StepInv == IInv /\ [Next]_vars => IInv'
  <1>1. SUFFICES ASSUME IInv, [Next]_vars PROVE IInv'
    OBVIOUS
  <1>2. CASE Submit
    BY <1>1, <1>2, SubmitStep
  <1>3. CASE Probe \/ GivesUp \/ CredentialsExpire \/ Bookkeep
    BY <1>1, <1>3, ProbeStep, GivesUpStep, CredentialsExpireStep, BookkeepStep
  <1>4. CASE \E a \in Attempts : Upload(a) \/ UploadFails(a) \/ Exits(a) \/ EngineDies(a)
    BY <1>1, <1>4, UploadStep, UploadFailsStep, ExitsStep, EngineDiesStep
  <1>5. CASE CollectStarts \/ CollectHeads \/ CollectCommits \/ CollectRecords
    BY <1>1, <1>5, CollectStartsStep, CollectHeadsStep, CollectCommitsStep, CollectRecordsStep
  <1>6. CASE CollectRaises
    BY <1>1, <1>6, CollectRaisesStep DEF CollectRaises, Past
  <1>7. CASE Succeeds \/ FailureCommits \/ FailureRecords
    BY <1>1, <1>7, SucceedsStep, FailureCommitsStep, FailureRecordsStep
  <1>8. CASE FailureRaises
    BY <1>1, <1>8, FailureRaisesStep DEF FailureRaises, Past
  <1>9. CASE Asks \/ ReadsBody \/ Answers \/ Closes
    BY <1>1, <1>9, AsksStep, ReadsBodyStep, AnswersStep, ClosesStep
  <1>10. CASE UNCHANGED vars
    BY <1>1, <1>10, StutterStep
  <1>11. QED
    BY <1>1, <1>2, <1>3, <1>4, <1>5, <1>6, <1>7, <1>8, <1>9, <1>10 DEF Next

LEMMA Invariance == Spec => []IInv
  BY InitInv, StepInv, PTL DEF Spec

-----------------------------------------------------------------------------
(* Theorems.                                                               *)

\* Every variable keeps its type; what is stored is stored under the run's own tree.
THEOREM TypeCorrect == Spec => []TypeOK
  <1>1. IInv => TypeOK
    BY DEF IInv
  <1>2. QED
    BY <1>1, Invariance, PTL

\* Once the registry names a manifest of a run without a pull request, GET manifest finds it
\* valid and bound to the execution and attempt of the row: the manifest is created once,
\* for the attempt the machine has come to, and the row of an attempt is not replaced by
\* another of the same attempt.
THEOREM RecordedManifestsAreServed == Spec => []RecordedManifestIsServed
  <1>1. IInv => RecordedManifestIsServed
    <2>1. SUFFICES ASSUME IInv, run.pr = None, row # None, row.manifest # None PROVE Served
      BY DEF RecordedManifestIsServed
    <2>2. Tree = <<>>
      BY <2>1 DEF Tree, Layout
    <2>3. /\ Exists(ManifestUri(Tree)) /\ row.manifest = Committed
          /\ Bound(Committed, row.exec, row.attempt)
      BY <2>1 DEF IInv, RowInv
    <2>4. Committed.uri = ManifestUri(Tree) /\ ValidSchema(Committed, Tree)
      BY <2>1, <2>3 DEF IInv, ManifestInv
    <2>5. QED
      BY <2>1, <2>2, <2>3, <2>4 DEF Served, Committed
  <1>2. QED
    BY <1>1, Invariance, PTL

\* The plan and the checksum a successful manifest lists are of one attempt: each of them
\* was compared with the metadata that was read before.
THEOREM PlansMatchSidecars == Spec => []PlanMatchesItsSidecar
  <1>1. IInv => PlanMatchesItsSidecar
    BY DEF IInv, ManifestInv, SidecarOf, PlanMatchesItsSidecar
  <1>2. QED
    BY <1>1, Invariance, PTL

\* A file that is answered inline is the one the manifest lists: a script uploads a name
\* once, and the other attempt's file has another checksum.
THEOREM ServedFilesAreListed == Spec => []ServedIsListed
  <1>1. IInv => ServedIsListed
    BY DEF IInv, ReaderInv, ServedIsListed
  <1>2. QED
    BY <1>1, Invariance, PTL

=============================================================================
