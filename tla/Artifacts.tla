------------------------------ MODULE Artifacts ------------------------------
(***************************************************************************)
(* What happens to the objects of one folder of one run: PrepareAndSubmit  *)
(* signs the URLs and stores the package, the script of each attempt       *)
(* uploads plan files and outputs to the same keys, the engine writes its  *)
(* done marker, Collect lists what it finds in a manifest that is created  *)
(* once, WriteFailureManifest writes or adopts one, the registry keeps its *)
(* digest, and the API serves it and the files it lists.                   *)
(*                                                                         *)
(* An attempt that was given up for expired credentials keeps uploading    *)
(* while its retry does.  A step is one call to S3 or DynamoDB; the head   *)
(* and the body of an object are read in one step.                         *)
(***************************************************************************)
EXTENDS Manifests, FiniteSets

CONSTANTS
  Runs,        \* the runs looked at: [action, pr, focus, attempts]
  Outsized,    \* names whose file may exceed its size bound
  MaxRetries,  \* retries of a Task before its Catch
  MaxFaults    \* bound on the calls, uploads and engines that fail

ASSUME ArtifactsAssumption ==
  /\ \A r \in Runs : r.action \in Actions /\ r.attempts \in 1..2
  /\ MaxRetries \in Nat /\ MaxFaults \in Nat

\* None is neither an exit code, a message nor the metadata of a plan.
ASSUME NoneAssumption ==
  /\ None \notin {1, "no runner", "expired"}
  /\ \A r \in Runs, a \in 0..1 :
       r.action \in Planned => None # Metadata(r.action, a, Layout(r.pr, r.action))

VARIABLES
  run,        \* the run; attempts = 1: its credentials never expire
  objects,    \* uri :> what is stored there
  script,     \* [Attempts -> the script of the attempt on the engine]
  inner,      \* the inner state machine
  collector,  \* Collect's variables: the plan metadata, the entries, the names left
  row,        \* the registry row of the folder, or None
  reader,     \* a request for one artifact
  faults

vars == <<run, objects, script, inner, collector, row, reader, faults>>

Attempts == 0..1
Tree == Layout(run.pr, run.action)
Exists(uri) == uri \in DOMAIN objects
Extended(f, x, value) == [y \in DOMAIN f \cup {x} |-> IF y = x THEN value ELSE f[y]]
Put(uri, object) == objects' = Extended(objects, uri, object)

NotCollecting == [metadata |-> None, entries |-> <<>>, todo |-> <<>>]
NotReading == [pc |-> "idle", name |-> None, body |-> None]

Init ==
  /\ run \in Runs
  /\ objects = <<>>
  /\ script = [a \in Attempts |-> [pc |-> "idle", todo |-> {}, ok |-> TRUE]]
  /\ inner = [pc |-> "prepare", attempt |-> 0, ok |-> FALSE, tries |-> 0]
  /\ collector = NotCollecting
  /\ row = None
  /\ reader = NotReading
  /\ faults = 0

Fault == faults < MaxFaults /\ faults' = faults + 1
Goto(pc) == inner' = [inner EXCEPT !.pc = pc, !.tries = 0]

\* The Task raised: Retry first, then Catch.
Raised(task, catch) ==
  IF inner.tries < MaxRetries
  THEN inner' = [inner EXCEPT !.pc = task, !.tries = @ + 1]
  ELSE Goto(catch)

RaiseCollect == Raised("collect", "failure") /\ collector' = NotCollecting
RaiseFailure == Raised("failure", "unreported")

-----------------------------------------------------------------------------
(* The script of an attempt.                                               *)

\* A URL exists for every plan file and for the names PrepareAndSubmit knows.
WithUrl == AllPlanFiles \cup ToSet(Signed(run.action, run.focus))

\* The names in the order they are uploaded in: plan files before outputs.
Order == PlanFiles(run.action) \o Uploaded(run.action, run.focus)

\* An output without a URL is skipped; drift.json is only written where the exit code of the
\* plan tells of a drift.
OutputsUpTo(n) ==
  {name \in {Uploaded(run.action, run.focus)[i] : i \in 1..n} :
     name \in WithUrl /\ (name = "drift.json" => run.action = "drift")}

\* The output of the last command before the plan files go up.
LastOfCommand == IF run.action \in MutationActions THEN 4 ELSE 3

\* How far the script gets: plan files are uploaded before the scans start, outputs when
\* it exits, whatever its status.  It fails by its last command or, after that, by a scan.
\* Infracost writes no output without an API key.
Jobs ==
  LET all == Len(Uploaded(run.action, run.focus))
      plans == ToSet(PlanFiles(run.action))
  IN {[todo |-> OutputsUpTo(n), ok |-> FALSE] : n \in 0..LastOfCommand}
     \cup {[todo |-> plans \cup OutputsUpTo(n), ok |-> FALSE] :
             n \in {k \in LastOfCommand..all : ScansOf(run.action, run.focus) # <<>>}}
     \cup {[todo |-> plans \cup out, ok |-> TRUE] :
             out \in {OutputsUpTo(all), OutputsUpTo(all) \ Optional}}

\* The package is stored before the engine is asked to run it.
Submit ==
  LET a == inner.attempt IN
  /\ inner.pc = "prepare"
  /\ Put(PackageUri(a), [body |-> a, fits |-> TRUE, type |-> "application/zip"])
  /\ \E job \in Jobs :
       script' = [script EXCEPT ![a] = [pc |-> "running", todo |-> job.todo, ok |-> job.ok]]
  /\ Goto("probe")
  /\ UNCHANGED <<run, collector, row, reader, faults>>

\* The script of attempt a has come to the upload of this name.
Due(a, name) ==
  /\ script[a].pc = "running"
  /\ \E i \in DOMAIN Order :
       /\ name = Order[i]
       /\ name \in script[a].todo
       /\ \A j \in 1..(i - 1) : Order[j] \notin script[a].todo

\* S3 refuses a PUT whose Content-Type is not the one that was signed.
Acceptable(name) == SignedType(name) = SentType(name)

BodyOf(name, a) == IF name = "plan-metadata.json" \/ name = "destroy-plan-metadata.json"
                   THEN Metadata(run.action, a, Tree) ELSE a

Upload(a) ==
  /\ \E name \in script[a].todo, fits \in BOOLEAN :
       /\ Due(a, name)
       /\ Acceptable(name)
       /\ fits \/ name \in Outsized
       /\ IF fits THEN UNCHANGED faults ELSE Fault
       /\ Put(Tmp(Tree, name), [body |-> BodyOf(name, a), fits |-> fits, type |-> SentType(name)])
       /\ script' = [script EXCEPT ![a].todo = @ \ {name}]
  /\ UNCHANGED <<run, inner, collector, row, reader>>

\* A plan file that is not stored ends the script before the scans; the exit trap goes on
\* to the next output.
Lost(name) ==
  {name} \cup (IF name \in AllPlanFiles THEN AllPlanFiles \cup ToSet(Scans) ELSE {})

UploadFails(a) ==
  /\ \E name \in script[a].todo :
       /\ Due(a, name)
       /\ IF Acceptable(name) THEN Fault ELSE UNCHANGED faults
       /\ script' = [script EXCEPT ![a].ok = FALSE, ![a].todo = @ \ Lost(name)]
  /\ UNCHANGED <<run, objects, inner, collector, row, reader>>

\* The engine writes the done marker of the attempt when the script has ended.
Exits(a) ==
  /\ script[a].pc = "running"
  /\ script[a].todo = {}
  /\ \E marker \in {Succeeded, Malformed} \cup Failures \cup Expiries :
       /\ IF marker = Malformed THEN Fault ELSE UNCHANGED faults
       /\ marker # Malformed => script[a].ok = (marker = Succeeded)
       /\ run.attempts = 1 => marker \notin Expiries
       /\ Put(DoneUri(a), [body |-> marker, fits |-> TRUE, type |-> "binary/octet-stream"])
  /\ script' = [script EXCEPT ![a].pc = "ended"]
  /\ UNCHANGED <<run, inner, collector, row, reader>>

EngineDies(a) ==
  /\ script[a].pc = "running"
  /\ script' = [script EXCEPT ![a].pc = "ended"]
  /\ Fault
  /\ UNCHANGED <<run, objects, inner, collector, row, reader>>

-----------------------------------------------------------------------------
(* The inner state machine up to Collect.                                  *)

\* Faulty: every attempt whose credentials expire is tried again.
RetriesAlways == run.attempts = 2

\* One retry, from attempt 0 only.
Retries == inner.attempt = 0 /\ run.attempts = 2

\* PollDone, and RouteProbeOutcome.
Probe ==
  LET marker == objects[DoneUri(inner.attempt)].body IN
  /\ inner.pc = "probe"
  /\ Exists(DoneUri(inner.attempt))
  /\ IF ~WellFormed(marker) THEN Goto("failure")
     ELSE IF Expired(marker) /\ Retries THEN Goto("bookkeep")
     ELSE inner' = [inner EXCEPT !.pc = "collect", !.ok = (marker.status = "succeeded")]
  /\ UNCHANGED <<run, objects, script, collector, row, reader, faults>>

\* The deadline passes, or a call fails, before there is an outcome.
GivesUp ==
  /\ inner.pc \in {"prepare", "probe"}
  /\ Goto("failure")
  /\ Fault
  /\ UNCHANGED <<run, objects, script, collector, row, reader>>

\* The credentials expire in preparation, or in a probe: the attempt's script goes on.
CredentialsExpire ==
  /\ inner.pc \in {"prepare", "probe"}
  /\ Retries
  /\ Goto("bookkeep")
  /\ Fault
  /\ UNCHANGED <<run, objects, script, collector, row, reader>>

\* put_folder_attempt: a newer attempt, or the replay of one that is stored.
\* The steps of the rows are those of a first step, so they agree; FolderRun
\* has the others.
Storable(r) ==
  IF row = None THEN TRUE
  ELSE \/ r.attempt > row.attempt
       \/ r.attempt = row.attempt /\ r.exec = row.exec /\ r.manifest = row.manifest

PutRow(r) ==
  /\ Storable(r)
  /\ row' = IF row = None \/ r.attempt > row.attempt THEN r ELSE row

\* persist_retry_attempt
Bookkeep ==
  /\ inner.pc = "bookkeep"
  /\ PutRow([exec |-> inner.attempt, attempt |-> inner.attempt, ok |-> FALSE, manifest |-> None])
  /\ inner' = [inner EXCEPT !.pc = "prepare", !.attempt = @ + 1]
  /\ UNCHANGED <<run, objects, script, collector, reader, faults>>

-----------------------------------------------------------------------------
(* Collect.                                                                *)

MetadataUri == PlanUris(run.action, Tree)[3]

\* The names build_manifest heads, in its order; only a success needs what follows.
Expected ==
  Listed(run.action, run.focus)
    \o (IF inner.ok THEN <<"done", "package">> \o PlanFiles(run.action) ELSE <<>>)

UriOf(name) ==
  CASE name = "done"    -> DoneUri(inner.attempt)
    [] name = "package" -> PackageUri(inner.attempt)
    [] OTHER            -> Tmp(Tree, name)

CollectStarts ==
  /\ inner.pc = "collect"
  /\ collector' =
       [metadata |-> IF run.action \in Planned /\ Exists(MetadataUri)
                     THEN objects[MetadataUri].body ELSE None,
        entries  |-> <<>>,
        todo     |-> Expected]
  /\ inner' = [inner EXCEPT !.pc = "build"]
  /\ UNCHANGED <<run, objects, script, row, reader, faults>>

\* Faulty: the sidecar is not read.
PlanAgreesAlone(name, body) ==
  name \in BinaryPlans => collector.metadata # None /\ body = collector.metadata.plan

\* The plan must be the one its metadata names, and so must the one its sidecar names.
PlanAgrees(name, body) ==
  name \in AllPlanFiles =>
    /\ collector.metadata # None
    /\ ValidMetadata(collector.metadata, run.action, Tree)
    /\ name # PlanFiles(run.action)[3] => body = collector.metadata.plan

Listable(name) ==
  LET object == objects[UriOf(name)] IN
  Exists(UriOf(name)) /\ object.fits /\ PlanAgrees(name, object.body)

Skippable(name) == ~Exists(UriOf(name)) /\ (~inner.ok \/ name \in Optional)

EntryOf(name) ==
  LET object == objects[UriOf(name)] IN
  [uri |-> UriOf(name), type |-> object.type, fits |-> object.fits, sum |-> object.body]

CollectHeads ==
  LET name == Head(collector.todo) IN
  /\ inner.pc = "build"
  /\ collector.todo # <<>>
  /\ \/ /\ Listable(name)
        /\ collector' = [metadata |-> collector.metadata,
                          entries  |-> Extended(collector.entries, name, EntryOf(name)),
                          todo     |-> Tail(collector.todo)]
        /\ UNCHANGED inner
     \/ /\ Skippable(name)
        /\ collector' = [collector EXCEPT !.todo = Tail(@)]
        /\ UNCHANGED inner
     \/ /\ ~Listable(name) /\ ~Skippable(name)
        /\ RaiseCollect
  /\ UNCHANGED <<run, objects, script, row, reader, faults>>

\* _drift_result: the result must be the one that is listed.
DriftAgrees(m) ==
  "drift.json" \in DOMAIN m.entries =>
    LET e == m.entries["drift.json"] IN Exists(e.uri) /\ objects[e.uri].body = e.sum

Committed == objects[ManifestUri(Tree)].body

\* Faulty: without If-None-Match, the last writer wins.
MayAlwaysCommit == TRUE

\* If-None-Match: the first writer wins.
MayCommit == ~Exists(ManifestUri(Tree))

\* put_json_create_only: the manifest that is there already is authoritative, if it is one.
Adopts(m, tree) ==
  m # Committed => ValidSchema(Committed, tree) /\ Bound(Committed, m.exec, m.attempt)

Commit(m) ==
  Put(ManifestUri(Tree), [body |-> m, fits |-> TRUE, type |-> "application/json"])

CollectCommits ==
  LET m == Manifest(run, inner.attempt, inner.ok, collector.entries)
      good == ValidSchema(m, Tree) /\ DriftAgrees(m)
      adopted == good /\ Exists(ManifestUri(Tree)) /\ Adopts(m, Tree) /\ DriftAgrees(Committed)
  IN
  /\ inner.pc = "build"
  /\ collector.todo = <<>>
  /\ \/ /\ good /\ MayCommit
        /\ Commit(m)
        /\ inner' = [inner EXCEPT !.pc = "record"]
        /\ collector' = NotCollecting
     \/ /\ adopted
        /\ inner' = [inner EXCEPT !.pc = "record", !.ok = ~Committed.failed]
        /\ collector' = NotCollecting
        /\ UNCHANGED objects
     \/ /\ ~adopted /\ ~(good /\ MayCommit)
        /\ RaiseCollect
        /\ UNCHANGED objects
  /\ UNCHANGED <<run, script, row, reader, faults>>

RowOf(exec, ok) ==
  [exec |-> exec, attempt |-> inner.attempt, ok |-> ok, manifest |-> Committed]

\* _persist_manifest_registry
CollectRecords ==
  LET r == RowOf(inner.attempt, inner.ok) IN
  /\ inner.pc = "record"
  /\ \/ PutRow(r) /\ Goto("collected") /\ UNCHANGED collector
     \/ ~Storable(r) /\ RaiseCollect /\ UNCHANGED row
  /\ UNCHANGED <<run, objects, script, reader, faults>>

\* A call fails, or the Lambda dies, at any point; also when all is done.
CollectRaises ==
  /\ inner.pc \in {"collect", "build", "record", "collected"}
  /\ RaiseCollect
  /\ Fault
  /\ UNCHANGED <<run, objects, script, row, reader>>

Succeeds ==
  /\ inner.pc = "collected"
  /\ Goto("succeeded")
  /\ UNCHANGED <<run, objects, script, collector, row, reader, faults>>

-----------------------------------------------------------------------------
(* WriteFailureManifest, which looks at the manifest it finds without the  *)
(* tree of the run.                                                        *)

FailureCommits ==
  LET m == FailureManifest(run, inner.attempt)
      there == Exists(ManifestUri(Tree))
  IN
  /\ inner.pc = "failure"
  /\ \/ MayCommit /\ Commit(m) /\ Goto("report")
     \/ there /\ Adopts(m, <<>>) /\ Goto("report") /\ UNCHANGED objects
     \/ there /\ ~Adopts(m, <<>>) /\ RaiseFailure /\ UNCHANGED objects
  /\ UNCHANGED <<run, script, collector, row, reader, faults>>

FailureRecords ==
  LET r == RowOf(0, ~Committed.failed) IN
  /\ inner.pc = "report"
  /\ \/ PutRow(r) /\ Goto("failed")
     \/ ~Storable(r) /\ RaiseFailure /\ UNCHANGED row
  /\ UNCHANGED <<run, objects, script, collector, reader, faults>>

FailureRaises ==
  /\ inner.pc \in {"failure", "report"}
  /\ RaiseFailure
  /\ Fault
  /\ UNCHANGED <<run, objects, script, collector, row, reader>>

-----------------------------------------------------------------------------
(* Readers.                                                                *)

\* GET manifest answers 200: the API knows the keys of runs without a pull request only.
Served ==
  LET uri == ManifestUri(<<>>)
      m == objects[uri].body
  IN
  /\ row # None
  /\ row.manifest # None
  /\ row.manifest.uri = uri
  /\ Exists(uri)
  /\ ValidSchema(m, <<>>)
  /\ Bound(m, row.exec, row.attempt)
  /\ m = row.manifest

\* _authorized_entry_uri
Authorized(name, uri) ==
  /\ name \in Exposed
  /\ uri = IF name = "done" THEN DoneUri(row.exec) ELSE Tmp(<<>>, name)

EntryRead == row.manifest.entries[reader.name]

\* A binary plan is not read but given a URL.
Asks ==
  /\ reader.pc = "idle"
  /\ Served
  /\ \E name \in DOMAIN row.manifest.entries :
       /\ Authorized(name, row.manifest.entries[name].uri)
       /\ reader' = [pc |-> IF name \in BinaryPlans THEN "check" ELSE "body",
                     name |-> name, body |-> None]
  /\ UNCHANGED <<run, objects, script, inner, collector, row, faults>>

ReadsBody ==
  /\ reader.pc = "body"
  /\ reader' = IF Exists(EntryRead.uri) /\ objects[EntryRead.uri].fits
               THEN [reader EXCEPT !.pc = "check", !.body = objects[EntryRead.uri].body]
               ELSE NotReading
  /\ UNCHANGED <<run, objects, script, inner, collector, row, faults>>

\* Faulty: the file is compared by its type alone.
TypeMatches(object, e) == object.type = e.type

\* Size, type and checksum are compared with the object of a second read.
Matches(object, e) == object.fits = e.fits /\ object.type = e.type /\ object.body = e.sum

Answers ==
  /\ reader.pc = "check"
  /\ reader' = IF Exists(EntryRead.uri) /\ Matches(objects[EntryRead.uri], EntryRead)
               THEN [reader EXCEPT !.pc = "answered"] ELSE NotReading
  /\ UNCHANGED <<run, objects, script, inner, collector, row, faults>>

Closes ==
  /\ reader.pc = "answered"
  /\ reader' = NotReading
  /\ UNCHANGED <<run, objects, script, inner, collector, row, faults>>

\* RenderPR reads the metadata of a plan it was told succeeded.
RenderReads ==
  run.action \in {"plan", "report"} =>
    Exists(MetadataUri) /\ ValidMetadata(objects[MetadataUri].body, run.action, Tree)

\* _folder_plan_sha256, for a plan of a pull request that may be applied.
PlanIsFound ==
  run.pr # None /\ run.action \in {"plan", "plan_destroy"} =>
    LET plan == PlanFiles(run.action)[1]
        metadata == PlanFiles(run.action)[3]
        e == Committed.entries
    IN
    /\ Exists(ManifestUri(Tree))
    /\ ValidSchema(Committed, Tree)
    /\ Committed = row.manifest
    /\ objects[MetadataUri].body = e[metadata].sum
    /\ ValidMetadata(objects[MetadataUri].body, run.action, Tree)
    /\ objects[e[plan].uri].body = e[plan].sum

-----------------------------------------------------------------------------
Next ==
  \/ Submit \/ Probe \/ GivesUp \/ CredentialsExpire \/ Bookkeep
  \/ \E a \in Attempts :
       Upload(a) \/ UploadFails(a) \/ Exits(a) \/ EngineDies(a)
  \/ CollectStarts \/ CollectHeads \/ CollectCommits \/ CollectRecords \/ CollectRaises
  \/ Succeeds
  \/ FailureCommits \/ FailureRecords \/ FailureRaises
  \/ Asks \/ ReadsBody \/ Answers \/ Closes

Spec == Init /\ [][Next]_vars

-----------------------------------------------------------------------------
(* Properties.                                                             *)

\* Every variable keeps its type: objects are stored where a writer of the program stores
\* them, under the run's own tree, and the machine is in one of its states.
TypeOK ==
  /\ run \in Runs
  /\ \A uri \in DOMAIN objects :
       \/ uri \in {DoneUri(a) : a \in Attempts} \cup {PackageUri(a) : a \in Attempts}
       \/ uri[1] = "tmp" /\ uri[2] = Tree
  /\ script \in [Attempts -> [pc : {"idle", "running", "ended"}, todo : SUBSET WithUrl,
                              ok : BOOLEAN]]
  /\ inner \in [pc : {"prepare", "probe", "bookkeep", "collect", "build", "record", "collected",
                      "succeeded", "failure", "report", "failed", "unreported"},
                attempt : 0..(run.attempts - 1), ok : BOOLEAN, tries : 0..MaxRetries]
  /\ reader.pc \in {"idle", "body", "check", "answered"}
  /\ faults \in 0..MaxFaults

\* The registry and the bucket never contradict each other: once a row of a run without a
\* pull request names a manifest, GET manifest finds that manifest valid and of the same
\* execution and attempt - whichever of Collect and WriteFailureManifest wrote each of
\* them, however often they were retried.
RecordedManifestIsServed ==
  run.pr = None /\ row # None /\ row.manifest # None => Served

\* A successful manifest never pairs a plan with the checksum of another: the two attempts
\* may upload to the same keys while Collect reads them one by one.
PlanMatchesItsSidecar ==
  Exists(ManifestUri(Tree)) /\ ~Committed.failed /\ run.action \in Planned =>
    Committed.entries[PlanFiles(run.action)[1]].sum
      = Committed.entries[PlanFiles(run.action)[2]].sum

\* The five tables of names and types agree: where nothing fails, what the script uploads
\* is accepted, listed, valid and recorded as the engine ended, and RenderPR and the plan
\* lookup can read what they need of it.
CleanRunIsRecorded ==
  faults = 0 =>
    /\ \A a \in Attempts, name \in ToSet(Order) : Due(a, name) => Acceptable(name)
    /\ inner.pc \notin {"failure", "report", "failed", "unreported"}
    /\ inner.pc = "succeeded" =>
         /\ row.ok = script[inner.attempt].ok
         /\ row.ok => RenderReads /\ PlanIsFound

\* What the API answers inline is what the manifest lists, although it reads the file once
\* for the answer and once for its checksum, and a late attempt may write in between.
ServedIsListed ==
  reader.pc = "answered" /\ reader.name \notin BinaryPlans => reader.body = EntryRead.sum
=============================================================================
