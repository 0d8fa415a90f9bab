# openci-tf: TLA+ models, checks and proofs

openci-tf runs Terraform/OpenTofu from pull-request comments and an API. AWS Lambda handlers
(`src/src/services`), two kinds of Step Functions machines (`src/infra/deploy/modules`), DynamoDB
tables and S3 objects cooperate; every one of them can fail, be retried, be aborted or be delivered
twice on its own. The modules here describe that protocol layer: which row, object or comment is
written under which condition, in which order, and who cleans up. Layout, signatures and schemas
are left out unless a property depends on them.

## 1. Inventory

| Component | State | Operations | Hard part | What makes it correct | Module |
|---|---|---|---|---|---|
| Folder locks (`domain/locks/run_lock.py`) | lock rows per folder, ownership rows per run and folder, expiry, TTL | `acquire`, `release`, `release_all`, `ownerships_for_run` | each is several DynamoDB calls; expiry, TTL deletion and other runs in between | a working run keeps its locks; a live lock can always be found and released; nothing stays locked for ever | `RunLocks`, `FolderLease` |
| ValidateAndResolve (`services/resolve/validate_and_resolve.py`) | what it acquired, one clock reading | folders of the run, the lock loop, its early exits, its `finally` | killed between two acquires; works on after an abort | same; it works on the folders that were named | `RunLocks`, `Commands`, `Publication` |
| Outer state machine (`openci_tf/step_function.tf`) | current state, step, outcomes, skipped folders | Map per step, CollectStepOutcomes, RenderPR, FinalizeRun | catch routes, lost outcomes, abort with Lambdas in flight | later steps wait; every run ends | `RunLocks`, `FolderRun`, `Publication` |
| Inner folder machine (`run_folder/step_function.tf`, `services/run_folder`) | attempt, probe, done marker, manifest, pointer | PrepareAndSubmit, ProbeDone, BookkeepCredentialRetry, Collect, WriteFailureManifest | deadline against marker, one credential retry, retried Tasks that find their own earlier writes | one authoritative manifest; rows agree with it | `FolderRun`, `Artifacts` |
| Run registry (`platform/aws/run_registry`) | meta row, attempt rows, summary rows, submissions, idempotency claims, checkpoints | `put_folder_attempt`, `update_run_status`, `claim_idempotent_run`, ... | several writers, replays, late writers | create-only attempts, monotone summaries, final statuses | `FolderRun`, `Ingress`, `Intents` |
| RenderPR (`services/render`) | none of its own | releases locks, writes rows, sets status, comments | dies between any two of these | success only when all succeeded; locks released; newest results shown | `RunLocks`, `FolderRun`, `Publication` |
| Finalizer (`services/orchestration/finalize_run.py`, `execution_events.tf`) | none of its own | release_all, synthesized outcomes, `finalize_run_if_running` | runs in the machine and from EventBridge, at least once, late | nothing of the run is left locked or unrecorded | `RunLocks`, `FolderRun` |
| Run starting (`services/orchestration/start_run.py`) | idempotency claim, run row, execution name, ARN | claim, start, reconcile, attach, mark running | a crash between the calls; ExecutionAlreadyExists; a claim that expires | one live run per key, acknowledged only when started | `Ingress` |
| Webhook and resolve front end (`services/webhook`, `services/resolve`) | audit rows, replies, the command comment | dedupe, refuse, reply, delete the command, start | redelivery, also beside itself; the pull request moves meanwhile | the run belongs to the request that claimed it | `Ingress` |
| Intents (`services/intent`, `platform/aws/intent_registry.py`, `domain/intent`) | tokens, plan pointers, checkpoints | create, confirm, consume, delete | two confirmations; a push in between; clocks of whole seconds | a token admits one mutation, of the plan it pinned, after the step before | `Intents`, `OneUseToken` |
| Mutation outer machine | as outer machine | from a confirmed intent to its comments | same | same | `Intents`, `Publication` |
| Pipeline aggregate (`run_registry/pipeline_aggregate.py`) | one row per pipeline and action | read, fold, put | unguarded read-modify-write | no step marked as done is lost | `Publication` |
| Command audit (`platform/aws/audit_lock.py`, `platform/github/command_audit.py`) | lock row with version, comment with rows | acquire, fence, release, append, merge | a holder slower than its lease; duplicated comments | no recorded row is lost | `CommandAudit` |
| Command grammar (`domain/command`, `webhook/run_request.py`) | - | parse, run request, folders of a run | eight forms, flags that override each other | a comment is read as what it spells | `Commands` |
| Engine payloads and manifests (`domain/engine`, `cmd_builder`) | package, uploads, done marker, manifest | sign, upload, collect, validate | an attempt that was given up goes on uploading; tables in five files | the manifest lists what is there, with its own digest | `Manifests`, `Artifacts` |
| Read API (`services/api`) | - | POST run, GET manifest, GET artifact | an object changes between two reads | it shows what the manifest lists | `Artifacts`, `Ingress` |
| Formatters, accounts and sessions, clients, frontend, installer, infrastructure | - | layout, STS, I/O | sequential | unit tests | see 6 |

How they meet: the front end records the command, claims an idempotency key and starts the outer
execution; that runs ValidateAndResolve (locks), one inner execution per folder of a step (engine,
manifests, attempt rows), RenderPR (releases, rows, comments, status) and FinalizeRun; EventBridge calls
the finalizer again for every execution that ends FAILED, TIMED_OUT or ABORTED. A mutation goes round
twice: `tf apply` makes an intent out of the plans that the pointers name, `tf apply confirm` spends its
token and starts the mutation machine, whose success is the checkpoint for the next step. The parts
share no memory: everything goes through DynamoDB rows, S3 objects and comments, so the models have one
action for each such call.

## 2. Modules

| Module | Role |
|---|---|
| `FolderLease` | abstract: a folder is granted to a run until a time; release, end of the run or expiry takes it back |
| `RunLocks` | lock and ownership rows, the resolver, every closer; implements `FolderLease` |
| `FolderRun` | one run after its locks are taken: step loop, inner executions, registry |
| `Ingress` | from a delivery or an API call to a started run |
| `OneUseToken` | abstract: a token is minted once, and admits at most one mutation before it is gone |
| `Intents` | plans, requests, tokens, confirmations, checkpoints; implements `OneUseToken` |
| `CommandAudit` | the audit comment and the lock that guards it |
| `Commands` | constant operators: the grammar, and which folders a run works on |
| `Publication` | extends `Commands`: what the runs of a pull request publish |
| `Manifests` | constant operators: keys, tables of names and types, what a manifest may contain |
| `Artifacts` | extends `Manifests`: the objects of one folder, from the signed URL to the API |
| `MC*` | small instances |
| `RunLocksProofs`, `FolderRunProofs`, `IngressProofs`, `IntentsProofs`, `CommandAuditProofs` | theorems about the module of that name |
| `ArtifactsProofs`, `CleanRunProofs` | theorems about `Artifacts`: under faults, and of a run without faults |
| `PublicationProofs` | theorems about `Commands` and `Publication` |

The compositions follow the data: `RunLocks` composes resolver, state machine, RenderPR and finalizers
over the lock table; `FolderRun` the two state machines over the registry; `Publication` grammar, resolver,
RenderPR and aggregate over the comments; `Artifacts` engine, Collect and API over the bucket. What
one of them takes from another is a choice of its environment: `Publication` takes any outcome `FolderRun`
may produce, `Intents` any plan run, `FolderRun` a pointer of another run.

### RunLocks against the code

`locks` and `owners` are the two kinds of rows of the locks table; `now` is the clock in seconds,
scaled down; `resolver[r]` is ValidateAndResolve of run r with the folders still `todo` and the ones
it `got`, and the clock reading it took at the start (`validate_and_resolve.py:450`);
`closers[r]` are the Lambdas that release, each with what it has read and still has to
delete; `sfn[r]` is where the outer execution is. `AcquireLock` is the transaction of `acquire`, which takes a lock
only when it is absent or `expires_at < now`. A `release` is three actions: `ReadHolder`,
`DeleteLock` (conditional on the holder), `DeleteOwner`; `release_all` is `QueryOwners` and then those
for each row. `ReapLock` and `ReapOwner` are TTL deletion. A Lambda that was started goes on after its
execution was aborted. Left out: the six-argument form of `acquire`, which has no caller, and
clock skew between Lambdas.

### FolderRun against the code

- `child[f]` is the inner execution of a folder: the Task it is in and, inside a Task, the next write
  its Lambda does. `Raised` is Retry and Catch of a Task; `Goto` lets the machine take its next state unless the execution was
  stopped, in which case the Lambda has finished and nothing follows.
- `engine` is external: an execution id is accepted, and at some time, or never, a done marker
  appears that says complete, failed, or failed on expired credentials.
- `manifests` is the one manifest object of a folder (`put_json_create_only`); `Commits` says when an
  object that is already there is accepted as authoritative.
- `rows` and `summary` are the attempt rows and the summary row. `PutAttempt` is the transaction of `put_folder_attempt`
  with its two conditions, and its replay branch that compares
  the attempt that is already there column by column. Columns equal by construction
  (deadline, account, drift) are dropped; execution id, status rank, step and manifest stay.
- `outer` is the outer execution: `Advance` and `StartRender` are CollectStepOutcomes with AdvanceOrStop;
  `RenderRow` and `RenderStatus` are `_update_run_registry`; `FinalizeFolder`, `FinalizePut` and
  `FinalizeStatus` are finalize_run; `EventFinalizer` is the delivery that knows only the run id.
- `status` is the guarded status of the run's meta row.

Abstractions: the deadline is one flag that rises once; a probe that finds no marker and the wait after it are
a stutter; MaxConcurrency of the Map is ignored, which allows more interleavings; a run without a pipeline is
a run of one step; folders skipped because their lock is held, the continuation of a successful
plan into CreateIntent and the report-all pointer are left out;
a pointer is only "this run has set it", and another run's newer pointer is a choice. `ScopedPlans` says
that the run belongs to a pull request and plans: then WriteFailureManifest checks an existing manifest
without its scope and raises where it would otherwise adopt it (`Adoptable`).

### Ingress against the code

`worker[w]` is an invocation: a webhook Lambda, or a caller of `start_run_from_request`; its `pc` is the
next call it makes. The webhook pins the head (`PinHead`), sweeps old help (`SweepHelp`), writes its audit row
(`Record`), says that it ignored or explains a command (`PostIgnored`, `Help`), deletes the command
(`EraseCommand`), checks the pull request again (`Recheck`) and starts a run. `start_run` is `Lookup` of the claim, `Claim`
(the transaction), `Reread` after a cancelled one, `Resume` of a claimed run, `StartExecution` under the name of the
run, `AttachArn`, `MarkRunning` and, where the execution had ended already, `VerifyEnded`. `EndEarly` ends an invocation
between any two calls. Deliveries are repeated
as often as `MaxAttempts` allows, beside themselves too. The head of the pull request is pinned anew by
every delivery, and `MovePr` pushes, closes or reopens it. Run ids are made of the clock and the lane, so that two
claims of the same tick collide, as two of the same millisecond would.

### Intents against the code

`plans` are plan runs with the commit and the second they completed in, `pointer` the S3 pointer of each
folder. `request[r]` is the run that creates an intent: `ReadHead`, `FindPrior` checkpoint, `PinPlan` (the gates of `domain/intent/gates.py`
and `plan_lookup.py` at one moment, and the token row), `PostIntent`, `StoreMetadata`, which makes the token
confirmable, and `UndoRecord` when one of the last two fails. `confirm[c]` is the run a confirmation starts: `CheckIntent`, `MarkUsed` (the
conditional update), `Resolve` of the pinned folders, then the terminal status of the mutation (`Terminal`) and its `MarkCheckpoint`,
which are two writes with a crash between them. Times are whole
seconds where the code's are (`now`), and milliseconds where run ids are compared (`epoch`).
`ImplementsOneUse` maps a record that is unused, used or deleted to an open, spent or withdrawn token.
Left out: the plan-first path, which no webhook command reaches, and TTL deletion of an intent, which
is checked as expiry before it can matter.

### CommandAudit against the code

`lock` is the row of `audit_lock.py` (holder, version, expiry; `Owns` is the condition `release` checks, a holder
id being new in each call), `writer[w]` one call of `record_command_audit` or `update_command_audit_status`: acquire, read, fence, write, release, with the
three rounds of reading and fencing bounded by `Tries`. `comments` are marker comments; a POST that GitHub
obeyed and answered with 502 is sent again by the client (`client.py:35-48`) and leaves a duplicate, which the next
holder merges: one update and then a deletion for each duplicate. `Canonical` keeps the `Firsts`, the rows no earlier row has the
delivery of. The Lambdas that edit live at most 60 seconds
and the lease is 60 seconds from the fence, so the write after a fence lands within the lease or not at all.

### Commands and Publication against the code

A comment is a sequence of tokens, a token the names between its commas, a name the parts between its slashes. `Parse` is `grammar.py`,
`Request` and `Event` what `validator.py`, `run_request.py` and `domain/run/request.py` make of it, `Confirmed` the intent that overrides the flags, and
`Steps` the folders ValidateAndResolve runs, step by step. Letter case and white space are left out.
A pipeline may be named by any path that leads to it (`CanonicalName`); a command names the folders of that pipeline (`Named`).
`ParseInvertsSpelling` says that every comment that is not refused spells its command and that every wish has a spelling that is read as it.

In `Publication` a Lambda is a `script` of the calls it has still to make, one step each; a call that fails
drops the rest and the execution takes its Catch. `pc[r]` is the state of the execution, `comments` the set of comments
by run, kind, marker type and place, `holder` and `turns` the locks as RenderPR gives them back,
`aggregate` and `read` the pipeline's rows and what a run read of them, `marked` the checkpoint marks. An execution
that is stopped is one that takes no further `Proceed`. `SweepOwn` is one step: besides the run itself only a refused confirmation deletes
these comments, and a 404 does no harm. `Reconfirm` is that confirmation, of a token that is spent: it deletes the intent and the
request of the run that spent it, or the intent alone when the second deletion raises or the record has expired; its own comment and the failure
comment it posts touch nothing else and are left out. Faults are taken at calls that change something. Outcomes of folders are any that `FolderRun` allows.

### Manifests and Artifacts against the code

Five files keep tables of names or types: the URLs signed by PrepareAndSubmit, the uploads of the script,
the entries Collect makes, the schema of a manifest, and the reader of the API. Each is an operator of its own
in `Manifests`. `Artifacts` runs them: `Submit` stores the package and starts a script, which uploads its
files one by one to keys that both attempts share; the engine writes the marker; `Collect` reads plan metadata, heads each
name, and creates the manifest unless one is there; `WriteFailureManifest` writes or adopts; the registry row keeps the
digest; the reader of the API loads the manifest, then the body, then the head. A digest is the number of the attempt
that made the file, its size one flag (`Outsized` names the files that may exceed their bound). Publication of the pointer is in `FolderRun`. Retention is left out. Two
abstractions are on the safe side: the reader asks for two more names than the API admits (`Exposed`), and rows are those of a first step, so a
replay never differs in `step_index` (`Storable`; `FolderRun` has the later steps).

## 3. Runs

| Run | Instance | States | Shows |
|---|---|---|---|
| `contention` | two runs, one folder, clock 0..3, one fault | 1.4 M | `WorkingRunHoldsItsLocks`, `LiveLockIsIndexed`, refinement of `FolderLease`, `EveryFolderBecomesFree` with only the clock fair |
| `closing` | one run, two folders, a delivery with one retry, two faults | 0.8 M | `ClosedRunHoldsNothing`, `SuccessKeepsOnlyRetriedLocks`, and under fairness `FailedRunLetsGo` |
| `pipeline` | two folders in two steps of a plan of a pull request, one Task retry, two faults, fair | 0.3 M | the invariants of the registry, `LaterStepsWait`, `RecordsAreFinal`, `RunEnds` |
| `side_by_side` | two folders in one step of a run of the API, no Task retry, one fault, symmetry | 0.35 M | `SucceededRunSucceededFolders`, `ManifestDecides` |
| `ingress` | a read, a mutating and an invalid comment, one API key, two workers, two commits, claims that live two ticks, two invocations, one push or closing, one crash | 1.0 M | `OneLiveRunPerKey`, `ExecutionMatchesClaim`, `AcknowledgedRunStarts` |
| `intents` | two steps, two plan runs, two requests, two confirmations, two commits, one push, closing or fault | 1.5 M | `AppliesPinnedPlan`, `PlanSawPriorStep`, `CheckpointsInOrder`, refinement of `OneUseToken` |
| `audit` | two writers, three deliveries, two rows per comment, three operations, two faults, clock 1..4 | 0.3 M | `RecordedRowsStay`, `RefusalStays` |
| `publication` | two runs, folders `a` and `c/d`, a pipeline of two steps and one of a parallel step, nine comments, one failed call, lost lock or repeated confirmation | 0.95 M | `ParseInvertsSpelling`, `RunsNamedFolders`, `NothingPendingAfterRender`, `NewestFolderComment`, `MarkedCheckpointsAreShown`, `MutationHistoryStays` |
| `artifacts` | every action for a run of a pull request, a report and a drift of the API; two attempts for the drift and for a focused plan; two faults, one Task retry | 0.9 M | `RecordedManifestIsServed`, `PlanMatchesItsSidecar`, `CleanRunIsRecorded`, `ServedIsListed` |
| `retry_leak` | violation | | a folder that took a credential retry stays locked after a success |
| `failure_rows` | violation | | a failure row carries step 1 and the execution id of attempt 0 |
| `notify_fails` | violation | | an accepted submission is failed because its notification could not be recorded |

Every module's run also checks its `TypeOK`.

**Bounds.** *Locks*: two runs are enough for a folder to change hands while a closer of the first works; a
third only repeats it. Two folders make the loops of resolver and closers stop half way. The clock bounds let a
lease of one unit run out, be taken again and run out once more. *Registry*: two folders give both a pair side by side and a
pair in order; two attempts are all the code allows. The code retries a Task three times: one retry already replays every
write over its earlier self, none reaches every Catch with fewer faults. *Ingress*: two invocations are a redelivery after or beside the first;
a claim of two ticks may be live, at its boundary, or expired when the second arrives. *Intents*: two plan runs give an old and a new
pointer, two confirmations of one token or one each of two tokens, two steps a prior checkpoint. *Audit*: two writers and a lease of one tick let a
holder be overtaken twice; three deliveries exceed the two rows a comment keeps. *Publication*: two runs are the smallest number that can undo
each other's comments; the folders of the second pipeline include that of the first, so that locks collide in part. `Texts`, on which the grammar is
checked, are all comments of at most three words after the verb over sixteen words, and all `pipeline ... step ...` forms.
*Artifacts*: two attempts overlap with any split of their uploads; two files may be too large, one optional and one the output of an apply.
Faults are bounded per behaviour; with two a Task fails through its only retry, or fails once and its run is
aborted. `CHECK_DEADLOCK FALSE` everywhere because runs end and clocks stop at their bounds.

**Fairness.** Only `RunLocks` and `FolderRun` state any. `ClockSpec` assumes only that time passes. `ClosingSpec` adds that a running Lambda takes its
next step, that Step Functions moves on and that EventBridge delivers: each is what AWS does with
work it has accepted, and a Lambda that does not is a fault with its own action. `FairSpec` of
`FolderRun` assumes the same of Step Functions, Lambdas, time and the delivery to the finalizer. Nothing is assumed of the engine,
which may never answer, of start_run, or of any error. All of it is weak fairness. The front end, the confirmation and the comments have no
one who must act: GitHub may not redeliver, a user may not confirm, a Lambda that died is not retried, so their modules state safety only.

**Disagreements found.** Each violation run quotes a document.
1. `retry_leak`: RenderPR releases by the execution id of the attempt that ended; the lock is held under that of
   attempt 0. After a credential retry the release condition fails, and a successful run has no other closer:
   the folder is locked until its lease runs out (PIPELINES.md:122).
2. `failure_rows`: `write_failure_manifest` and `persist_retry_attempt` do not pass `step_index`. RenderPR's own
   write of the same attempt is then refused by the replay check, RenderPR fails, and the run ends through
   FinalizeAfterRenderFailure, which records the folders that were never started as failed instead of skipped (USER_STORIES.md:134).
   The same rows take the execution id of the map item, which after a retry is that of attempt 0 (DESIGN.md:31-32).
3. `notify_fails`: a `ClientError` of `_record_notification` fails the Task (APPLY.md:29).

## 4. Proofs
The safety properties of every state machine are theorems, for any constants that satisfy the named
assumptions. Those only say that bounds are naturals, `Folders` is a finite non-empty set, steps are positive
(`validate_registry_step_index`), lease windows, the audit lock's life and rows, and the lives of a token and of a registry row are positive,
a delivery is no API key, a run has one attempt or two, and `None` is not one of the values it stands
in for. `Commands` and `Publication` assume of their inputs what the code that makes them guarantees: tokens and names as `split`
leaves them, each folder of the checkout once (`discover_folders`), pipelines that `parse_pipeline` and `_validate_pipeline_folders` let through, and, which nothing in
the code guarantees (section 7), that no folder is named `all` or `config`. A comment in `Typed` is no confirmation, which
is part of `Start` for the request it confirms. Nothing else is assumed. `RetryEvidenceFirst` (attempt 0 is recorded before attempt 1 is submitted) is proved as
part of the invariant and no run states it.

**`RunLocksProofs`**: `TypeCorrect`, `MutualExclusion`, `Recoverability`, `ReleaseAllIsComplete`,
`SuccessfulRelease`, and `LockTableImplementsLease`, the refinement of `FolderLease`. None of these invariants is inductive: what
a closer does depends on what it has read before, and what the resolver did since. `IInv` adds

- `ResolverInv`: a resolver never locks a folder twice (what it has got and what it has to do are disjoint);
- `QuietInv`: while a run works, no closer of it has started, so only expiry can take its lock;
- `LockRowsInv`, `OwnerRowsInv`: a live row of a run was put there by its resolver and its ownership row is beside it;
- `CloserInv` with `CoverInv` and `RenderInv`: a folder the run got is still ahead of a closer, or its lock is gone.

The last is the heart: what a closer learnt about a folder stays true because the folder is never locked
again by the same run, and the delete is conditional on the holder. The refinement then takes each
action to a step of `FolderLease` or to a stutter; a delete maps to `Release` because `QuietInv` says the run has ended.

**`FolderRunProofs`**: `TypeCorrect`, `LatestRow`, `OneVerdict`, `RetryEvidenceFirst`, `StepOrder`,
`SuccessIsComplete`, `FinalizedIsComplete`, `NothingIsTakenBack`. The invariant has two halves.

- `FolderInv`, for each folder: what its manifest, rows, summary and engine executions look like for
  each place the inner execution may be in. `RetryOf` says that attempt 1 leaves traces only after attempt 0 was
  recorded without a manifest: without it a row of attempt 1 could inherit the manifest flag of the summary.
  `UnfinishedRows` says that no one but the inner execution's own verdicts are recorded while it is at work: without it a
  replayed Collect could be accepted beside an `infrastructure_error` of RenderPR.
- `OuterInv`, for the outer execution: the outcomes it holds are those of finished inner executions, earlier steps
  did well, later ones are untouched, skipped folders follow a failure.

Every action of an inner execution is shown to be one kind of step (`Works`): it was at work, keeps `FolderInv` of its folder,
takes back nothing, and touches no other folder; `WorksInv` shows once that `OuterInv` survives such steps.
Of the outer writers, `OuterRow` shows that what they write first is always attempt 0 without a manifest, so it never
competes with the manifest. `RecordsAreFinal` comes from the same case analysis (`Kept`).

**`IntentsProofs`**: `TypeCorrect`, `OnlyPinnedPlans`, `PlansBuildOnSteps`, `OrderedCheckpoints`, and
`TokensAreUsedOnce`, the refinement of `OneUseToken`. A gate is evaluated once, in another run than the one that
mutates, so what it saw has to stay true; `IInv` says why it does:

- `PlanInv`: a plan run that was started after a checkpoint was marked saw its mutation. Here the strict comparison of whole
  seconds matters: a checkpoint marked in the second of the plan may be younger than the plan;
- `IntentInv`: the pinned plan has ended, is of the commit of the token, has its folders and, for a later step, saw a mutation of
  the step before. Ended plans, applied mutations and checkpoints are never taken back (`Kept`), so this holds until the token is spent;
- `RequestInv`, `ConfirmInv`: a run that minted nothing has left no record, and a mutation past its confirmation has spent its
  token; since `confirm[c].commit` was compared while the token was open and neither changes, the plan is of the confirmed commit;
- `CheckpointInv`: a checkpoint stands for an applied mutation, and the one before it is there.

In the refinement the conditional update of the used mark is the only step that maps to `Spend`, and by `ConfirmInv` an open token has no spender
before it; a lost answer spends the token all the same. The deletion of an unused record maps to `Withdraw`. `AdmissiblePlan` is proved for
the `CHOOSE` of the newest plan by well-founded induction on the age of a plan.

**`IngressProofs`**: `TypeCorrect`, `KeysHaveOneRun`, `ExecutionsMatchClaims`, `AcknowledgedRunsStart`. Claims, rows and executions
are written by different calls and expire on their own, so what ties them together is the clock: the life of every row follows
from the run id, which is made of the time of the claim. Hence (`RowInv`, `ClaimInv`, `ExecutionInv`) as long as a run is `Unexpired`
its row is there, the claim of its key names it, and no second claim of the key can succeed. `WorkerInv` says what an invocation may rely on between its calls: the
run it holds is registered under its key and commit, or over (`HoldsRun`); who was answered "accepted" holds a run with an
execution and its ARN (`Acknowledged`). `Kept` is what every step keeps of what is not over.

**`CommandAuditProofs`**: `TypeCorrect`, `RecordedRowsAreKept`, `RefusalsAreKept`. A writer changes a comment that it read some calls ago.

- `LeaseInv`: who is at work within its lease owns the lock, since `Free` is false as long as the lease in the row is that of its owner (`LockInv`);
- `KnowInv`: what an owner read is still so when it writes, for only an owner writes, and there is one;
- `CommentsInv`: a second comment only comes from a POST that was obeyed twice, and then it holds the same rows; therefore the
  merge changes nothing a reader sees (`MergedIs`, by `FirstsAre` and `CanonicalIs`);
- `SettledInv`: rows that were recorded, and rows of a writer that created a comment and has yet to look for duplicates, perhaps
  no longer as the owner, are in the table unless that is full.

Every call is shown to have one of three effects on the lock and to leave a table that `Follows` the one before: no row is dropped but
from a full table, no refusal is taken back. `EffectKeepsInv` derives the invariant from that once for all calls.

**`ArtifactsProofs`**: `TypeCorrect`, `RecordedManifestsAreServed`, `PlansMatchSidecars`, `ServedFilesAreListed`. Both attempts write to the
same keys, and the first may go on after it was given up.

- `UploadInv`: a script uploads a name at most once, and the two attempts upload different bodies, so an object that is of attempt a will
  not become of attempt a again;
- `Fixed`: hence what Collect listed is either still there or never comes back, which is what lets the API compare sums;
- `OfOnePlan`, `SidecarOf`: the plan files that are listed are those the metadata names;
- `ManifestInv`, `RecorderInv`, `RowInv`: the manifest is created once, for the attempt the machine is at, and a row that
  names a manifest names this one; `ReaderInv` is what the API knows between its three reads.

**`CleanRunProofs`**: `CleanRunsAreRecorded`. `CleanInv` says what is stored, listed and recorded as long as no fault was taken (`faults = 0`):
scripts end with every upload made (`ScriptsClean`, `UploadsClean`), what is stored has the type and size its reader wants (`ObjectsClean`), and Collect, the
manifest and the row follow from it. The step from the script's uploads to a valid manifest rests on lemmas about the tables, for every
action, with and without a focus: `ListedNames`, `SignedOutputs`, `SchemaNames`, `SameTypes`, `AdmittedTypes`. It is the agreement of
five files that no type checker sees.

**`PublicationProofs`**: `TypeCorrect`, `CommandsAreUnderstood`, `NamedFoldersRun`, `PendingIsCleared`, `NewestCommentStays`, `MarksAreShown`,
`HistoryStays`. Two of them rest on the grammar. `MisreadNone` and `RefusedNone` go through the forms of `grammar.py`, each of which
is one sequence of tokens around at most two free ones; `CommandAsked` follows each form through request, intent and
folder selection to the steps, `ReversedLines` and `PipelineInOrder` keeping the order of a pipeline. Facts about flattened and filtered
sequences of any length are proved by the least place where they would fail (`LeastNat`), since induction is out of reach.

The others need to know what a Lambda is still going to do. A call of X is `After` one of Y, or `Never` after one, and a script
`Meets` or `Avoids` a set of calls; `RenderIs`, `PlaceholdersAre`, `ProgressIs` and `FailureIs` say so of the scripts as they are
written, and the tail of a script keeps it, less the call that was made. `IInv` says of every run, whatever the others do,

- `RunOK`: its request is that of its comment, its folders are those named, and its script holds only calls that `Fits` its state;
- `Holds` with `LocksAreInTurn`: it has the lock of a folder while a comment of that folder is still in its script, unless it lost its
  locks, and `Render` posts before it releases; the last run in `turns` is the only one that can have the lock;
- `Supersedes`: so a run that was followed at a folder posts nothing there any more, and what it left
  is gone, or a call that clears it stands in the follower's script before the one that posts;
- `Placed`: what a placeholder leaves is of a kind and type that `Render` clears (`Clearable`), and the clearing call is still ahead;
- `Tells`: the comments that asked for a mutation are swept only after what tells of its outcome;
- `Marks`: a step is recorded after its row is saved, and a saved row only goes with an entry in `overlapped`;
- `CommentsFit`: results and summaries of a mutation carry no marker, so what another run finds and deletes is never one of them.

A search becomes a deletion of what it found, and other runs may delete and post between the two: `Effect` lists what a call may do to its own script and to the
comments, and `CallKeeps` derives the invariant from that once for all calls. `OthersKeep` does the same for the runs that take no part in a step.

TLC checked each of these invariants on the instance of its module before it was proved.

## 5. Only model-checked

`FailedRunLetsGo`, `EveryFolderBecomesFree` and `RunEnds` are liveness under fairness, which the
prover does not reach. So is the reachability behind the violation runs. The runs also show that the premises of the theorems really occur (every action fires)
and that a plausible bug in the code would break each property.

## 6. Not modelled

- Formatters: tables and texts of comments. What a later step reads of them, markers and audit rows, is in `Publication` and `CommandAudit`.
- Accounts and sessions: stateless STS calls and comparisons of account ids.
- Clients of S3, SSM, STS, SOPS and GitHub beyond the POST retry and the create-only put.
- Listings of the registry and their cursors, authorization and error wording of the API: they only read.
- State-size and payload budgets: byte counts, no protocol state.
- Signatures, permissions and pull-request lookups of the webhook are inputs of `Ingress`; folder configuration files are the constants of `Commands`.
- Unreachable paths: the plan-first mutation, `resolve_affected_folders`, the no-op render, the six-argument `acquire`.
- TTL deletion of intents, and the order of pointers of two runs that lost their locks (`pointer_publish.py:61`).
- Frontend (a console over the API), installer (a sequential script with best-effort rollback), shell scripts, IAM.

## 7. Divergences met while modelling

No run states these; the models follow the code.

- *Manifests.* `_persist_manifest` of WriteFailureManifest checks an existing manifest without the pull-request scope, so a plan that Collect
  committed before it failed makes it raise (`Adoptable`). The API reads only the run-scoped layout, so a run of a pull request answers
  404 (API.md:13). An output above its bound makes Collect raise, and a successful apply is recorded as failed. The text plan and the
  binary plan may be of different attempts. `plan_lookup` does not compare the digest of the metadata with that of the plan entry.
- *Listing.* A full page of authorized runs drops the runs after it from the cursor (API.md:88-90). `list_active_locks` wants `expires_at > now` where
  `run_lock` still counts `expires_at = now` as held.
- *Mutations.* ParseCommand returns its event unchanged when the action is set, so `pipeline_mutation_plan_first` is never set for a comment (PIPELINES.md:82). The prior checkpoint is
  not checked again at confirmation (APPLY.md:47). A second confirmation of a spent token is refused,
  and the refusal deletes the intent and the request of the mutation in flight (`intent/handler.py:563`). GITHUB_WEBHOOK.md:89-90 and the comment at
  `intent/handler.py:586` say that they stay until the terminal comment, APPLY.md:115-116 that a failed confirmation deletes them. `MutationHistoryStays` excepts
  exactly that step, `Reconfirm`, and for the confirmation that was accepted not even that one; without the exception TLC finds it at once.
- *Aggregates.* The placeholder of a destroy pipeline has the marker of its aggregate, which is therefore deleted and made anew at each step (PIPELINES.md:122-123, APPLY.md:89).
  A configuration error of a step writes a failed row over a succeeded one. Two checkpoints of one pipeline that hold different locks may overwrite
  each other's aggregate: `MarkedCheckpointsAreShown` excepts exactly those (`overlapped`).
- *Comments.* A folder skipped because it is locked is reposted without its lock, over the comment of the run that has it (USER_STORIES.md:45). A failed mutation leaves its
  pending summary (USER_STORIES.md:71-72, APPLY.md:32). `_delete_managed_comment` does not tolerate a 404.
- *Grammar.* `tf plan a,all` is accepted, `tf plan all` is not. `tf destroy` is documented with a list of folders and takes one (GITHUB_WEBHOOK.md). `tf apply --destroy` asks for a folder of that name.
  `tf plan pipeline ./a` runs the pipeline `a`: the name is made canonical after the grammar has let it through.
- *Names.* A folder `all` or `config` would share the marker of the summary or of the configuration error (`comment_object_id.py:63-68`,
  `render/handler.py:1148`), and each would delete the other. Folder discovery does not forbid it; the models assume it away (`NoFolderIsReserved`).

## 8. What is left

1. An abstract record of a run (create-only attempts, one verdict per folder, one final status) that `FolderRun` implements.
2. Two runs whose Collects overlap after a lost lock, with the pointer's conditional put.
3. The rollback of the installer, and listings with cursors over a changing table.
