------------------------------ MODULE FolderRun ------------------------------
(***************************************************************************)
(* One run after its locks are taken: what its folders do and what the     *)
(* run registry comes to say of them.                                      *)
(*                                                                         *)
(* The outer state machine starts one inner execution per folder of the    *)
(* current pipeline step.  An inner execution submits work to the engine,  *)
(* polls for its done marker until the deadline, retries once with a fresh *)
(* execution id when credentials expired, and ends in Collect or in        *)
(* WriteFailureManifest; both commit one create-only manifest per folder   *)
(* and one create-only registry row per attempt.  RenderPR writes the rows *)
(* again from the outcomes, and then the status of the run; what it cannot *)
(* finish is left to FinalizeRun and to the finalizer of EventBridge.      *)
(*                                                                         *)
(* An execution id is compose_execution_id(run, folder, attempt): in one   *)
(* run and folder it is its attempt.  A run without a pipeline is a run of *)
(* one step.  Every write of a Lambda is one action, so a Lambda may fail, *)
(* or go on after its state machine was aborted, between any two of them.  *)
(***************************************************************************)
EXTENDS Integers, FiniteSets

CONSTANTS
  Folders,     \* the folders in map_items
  Step,        \* the 1-based pipeline step of each folder
  None,        \* an absent row, object or outcome
  ScopedPlans, \* the folders are planned for a pull request
  MaxRetries,  \* Retry.MaxAttempts of the Tasks that have a Retry
  MaxFaults    \* bound: errors, timeouts and aborts in a behaviour

Attempts == {0, 1}
Statuses == {"accepted", "running", "in_progress", "succeeded", "skipped",
             "failed", "infrastructure_error"}
Row      == [exec : Attempts, status : Statuses, step : Nat \ {0}, manifest : BOOLEAN]
Summary  == [attempt : Attempts, exec : Attempts, status : Statuses, step : Nat \ {0},
             manifest : BOOLEAN]
Manifest == [exec : Attempts, attempt : Attempts, ok : BOOLEAN]
Outcome  == [exec : Attempts, attempt : Attempts, status : Statuses, manifest : BOOLEAN]

ASSUME FolderRunAssumption ==
  /\ IsFiniteSet(Folders) /\ Folders # {}
  /\ Step \in [Folders -> Nat \ {0}]      \* validate_registry_step_index
  /\ ScopedPlans \in BOOLEAN
  /\ MaxRetries \in Nat
  /\ MaxFaults \in Nat
  /\ None \notin Folders
  /\ None \notin Row /\ None \notin Summary
  /\ None \notin Manifest /\ None \notin Outcome

VARIABLES
  late,       \* the deadline of the run has passed
  sfn,        \* the outer execution
  outer,      \* the state it is in
  child,      \* the inner execution of each folder
  engine,     \* external: the engine's executions, by folder and execution id
  accepted,   \* submission rows
  manifests,  \* the manifest object of each folder
  pointers,   \* folders whose pull-request pointer this run has set to itself
  rows,       \* attempt rows
  summary,    \* the summary row of each folder
  status,     \* the status of the run's meta row
  faults      \* errors, timeouts and aborts so far

store == <<accepted, manifests, pointers, rows, summary, status>>
vars == <<late, sfn, outer, child, engine, store, faults>>

\* The states of the inner machine that are Tasks, and the writes inside each.
InPrepare == {"prepare", "ack", "notify"}
InRetry   == {"bookkeep", "resubmit"}
InCollect == {"collect", "publish", "record", "collected"}
InFailure == {"failure", "report", "reported"}
ChildEnd  == {"succeeded", "failed", "unreported", "stopped"}
ChildPc   == {"idle", "probe"} \cup InPrepare \cup InRetry \cup InCollect
             \cup InFailure \cup ChildEnd

Child == [pc : ChildPc, attempt : Attempts, ok : BOOLEAN, tries : 0..MaxRetries]

OuterPc == {"map", "rows", "rendered", "final", "put", "closed", "off"}

Outer == [pc : OuterPc, step : Nat, todo : SUBSET Folders, cur : Folders \cup {None},
          outcomes : [Folders -> Outcome \cup {None}], skipped : SUBSET Folders,
          incomplete : BOOLEAN]

Steps == {Step[f] : f \in Folders}

FirstStep == CHOOSE k \in Steps : \A l \in Steps : k <= l

Started(f, k) == [pc |-> IF Step[f] = k THEN "prepare" ELSE "idle",
                  attempt |-> 0, ok |-> FALSE, tries |-> 0]

Init ==
  /\ late = FALSE
  /\ sfn = "running"
  /\ outer = [pc |-> "map", step |-> FirstStep, todo |-> {}, cur |-> None,
              outcomes |-> [f \in Folders |-> None], skipped |-> {},
              incomplete |-> FALSE]
  /\ child = [f \in Folders |-> Started(f, FirstStep)]
  /\ engine = [f \in Folders |-> [a \in Attempts |-> "none"]]
  /\ accepted = [f \in Folders |-> {}]
  /\ manifests = [f \in Folders |-> None]
  /\ pointers = {}
  /\ rows = [f \in Folders |-> [a \in Attempts |-> None]]
  /\ summary = [f \in Folders |-> None]
  /\ status \in {"accepted", "running"}
  /\ faults = 0

\* A step that fails for a reason outside the program.
Fault ==
  /\ faults < MaxFaults
  /\ faults' = faults + 1

-----------------------------------------------------------------------------
(* The run registry: create-only attempt rows and guarded summaries.       *)

Rank(s) == IF s = "accepted" THEN 0
           ELSE IF s \in {"running", "in_progress"} THEN 1
           ELSE IF s \in {"succeeded", "skipped"} THEN 2 ELSE 3

Terminal(s) == Rank(s) >= 2

\* status_rank < :terminal AND :rank >= status_rank, or the very same status.
MayBecome(old, new) ==
  \/ ~Terminal(old) /\ Rank(new) >= Rank(old)
  \/ old = new

\* The condition on the summary row.
Newer(f, a, row) ==
  LET old == summary[f] IN
  old # None => \/ a > old.attempt
                \/ a = old.attempt /\ MayBecome(old.status, row.status)

\* An attempt row that is already there must say the same.
Replays(old, row) ==
  /\ old.exec = row.exec
  /\ Rank(old.status) = Rank(row.status)
  /\ old.step = row.step
  /\ row.manifest => old.manifest

\* put_folder_attempt succeeds: both rows are written, or the attempt is a replay.
Stored(f, a, row) ==
  IF rows[f][a] = None THEN Newer(f, a, row) ELSE Replays(rows[f][a], row)

SummaryOf(old, a, row) ==
  [attempt |-> a, exec |-> row.exec, status |-> row.status, step |-> row.step,
   manifest |-> row.manifest \/ (old # None /\ old.manifest)]

\* Faulty: two calls instead of one transaction, the summary first.
PutSummaryFirst(f, a, row) ==
  /\ Stored(f, a, row)
  /\ summary' = [summary EXCEPT ![f] = SummaryOf(@, a, row)]
  /\ rows' = IF rows[f][a] = None THEN [rows EXCEPT ![f][a] = row] ELSE rows

PutAttempt(f, a, row) ==
  /\ Stored(f, a, row)
  /\ IF rows[f][a] = None
     THEN /\ rows' = [rows EXCEPT ![f][a] = row]
          /\ summary' = [summary EXCEPT ![f] = SummaryOf(@, a, row)]
     ELSE UNCHANGED <<rows, summary>>

\* Faulty: finalize_run_if_running without its condition.
SetStatusAnyway(new) == status' = new

\* update_run_status; the caller's "status" is left alone when the condition fails.
SetStatus(new) == status' = IF MayBecome(status, new) THEN new ELSE status

-----------------------------------------------------------------------------
(* Time, the engine and start_run.                                         *)

DeadlinePasses ==
  /\ ~late
  /\ late' = TRUE
  /\ UNCHANGED <<sfn, outer, child, engine, store, faults>>

\* The engine writes its done marker, whoever still waits for it.
EngineDone(f, a) ==
  /\ engine[f][a] = "running"
  /\ \E result \in {"complete", "failed", "expired"} :
       engine' = [engine EXCEPT ![f][a] = result]
  /\ UNCHANGED <<late, sfn, outer, child, store, faults>>

\* start_run marks the run running after the execution was started.
MarkRunning ==
  /\ status = "accepted"
  /\ SetStatus("running")
  /\ UNCHANGED <<late, sfn, outer, child, engine, accepted, manifests, pointers,
                 rows, summary, faults>>

-----------------------------------------------------------------------------
(* The inner execution of a folder.                                        *)

Running(f) == sfn = "running" /\ outer.pc = "map" /\ outer.step = Step[f]

SetChild(f, c) == child' = [child EXCEPT ![f] = c]

\* The inner machine moves on - unless its execution was stopped while a Lambda ran.
Goto(f, c, pc) ==
  SetChild(f, [c EXCEPT !.pc = IF Running(f) THEN pc ELSE "stopped", !.tries = 0])

\* Faulty: a Task is retried without end.
RaisedForEver(f, c, task, catch) ==
  IF Running(f)
  THEN SetChild(f, [c EXCEPT !.pc = task, !.tries = @ + 1])
  ELSE Goto(f, c, catch)

\* The Task raised: Retry first, then Catch.
Raised(f, c, task, catch) ==
  IF Running(f) /\ c.tries < MaxRetries
  THEN SetChild(f, [c EXCEPT !.pc = task, !.tries = @ + 1])
  ELSE Goto(f, c, catch)

RaiseCollect(f) == Raised(f, child[f], "collect", "failure")

RaiseFailure(f) == Raised(f, child[f], "failure", "unreported")

\* RouteProbeOutcome for an expired credential: one retry, from attempt 0 only.
RouteExpiry(f, otherwise) ==
  Goto(f, child[f], IF child[f].attempt < 1 THEN "bookkeep" ELSE otherwise)

\* PrepareAndSubmit up to the engine's acceptance; every check comes before it.
Submit(f) ==
  LET c == child[f] IN
  /\ c.pc = "prepare"
  /\ ~late
  /\ engine' = [engine EXCEPT ![f][c.attempt] = "running"]
  /\ SetChild(f, [c EXCEPT !.pc = "ack"])
  /\ UNCHANGED <<late, sfn, outer, store, faults>>

SubmitLate(f) ==
  /\ child[f].pc = "prepare"
  /\ late
  /\ Goto(f, child[f], "failure")
  /\ UNCHANGED <<late, sfn, outer, engine, store, faults>>

\* put_folder_submission
Acknowledge(f) ==
  LET c == child[f] IN
  /\ c.pc = "ack"
  /\ accepted' = [accepted EXCEPT ![f] = @ \cup {c.attempt}]
  /\ SetChild(f, [c EXCEPT !.pc = "notify"])
  /\ UNCHANGED <<late, sfn, outer, engine, manifests, pointers, rows, summary,
                 status, faults>>

\* _notify_after_acceptance: a failed notification is recorded, not raised.
Notify(f) ==
  /\ child[f].pc = "notify"
  /\ Goto(f, child[f], "probe")
  /\ UNCHANGED <<late, sfn, outer, engine, store, faults>>

\* _record_notification raises: its ClientError leaves the handler.
NotifyRaises(f) ==
  /\ child[f].pc = "notify"
  /\ Goto(f, child[f], "failure")
  /\ Fault
  /\ UNCHANGED <<late, sfn, outer, engine, store>>

PrepareRaises(f) ==
  /\ child[f].pc \in {"prepare", "ack"}
  /\ Goto(f, child[f], "failure")
  /\ Fault
  /\ UNCHANGED <<late, sfn, outer, engine, store>>

\* Faulty: the deadline is looked at only once a marker is there.
ProbeExpiredWithMarker(f) ==
  /\ child[f].pc = "probe"
  /\ late
  /\ engine[f][child[f].attempt] # "running"
  /\ Goto(f, child[f], "failure")
  /\ UNCHANGED <<late, sfn, outer, engine, store, faults>>

\* PollDone checks the deadline before it looks; without a marker it probes again later.
ProbeExpired(f) ==
  /\ child[f].pc = "probe"
  /\ late
  /\ Goto(f, child[f], "failure")
  /\ UNCHANGED <<late, sfn, outer, engine, store, faults>>

ProbeDone(f) ==
  LET c == child[f]
      done == engine[f][c.attempt]
  IN
  /\ c.pc = "probe"
  /\ ~late
  /\ \/ /\ done \in {"complete", "failed"}
        /\ Goto(f, [c EXCEPT !.ok = (done = "complete")], "collect")
     \/ /\ done = "expired"
        /\ RouteExpiry(f, "collect")
  /\ UNCHANGED <<late, sfn, outer, engine, store, faults>>

ProbeRaises(f) ==
  /\ child[f].pc = "probe"
  /\ Goto(f, child[f], "failure")
  /\ Fault
  /\ UNCHANGED <<late, sfn, outer, engine, store>>

\* CredentialExpiredError: the Lambda's own credentials, before submission or in a probe.
CredentialsExpire(f) ==
  /\ child[f].pc \in {"prepare", "probe"}
  /\ RouteExpiry(f, "failure")
  /\ Fault
  /\ UNCHANGED <<late, sfn, outer, engine, store>>

\* persist_retry_attempt leaves step_index to its default of 1.
RetryRow == [exec |-> 0, status |-> "failed", step |-> 1, manifest |-> FALSE]

PersistRetry(f) ==
  LET c == child[f] IN
  /\ c.pc = "bookkeep"
  /\ \/ /\ PutAttempt(f, 0, RetryRow)
        /\ SetChild(f, [c EXCEPT !.pc = "resubmit"])
     \/ /\ ~Stored(f, 0, RetryRow)
        /\ Raised(f, c, "bookkeep", "unreported")
        /\ UNCHANGED <<rows, summary>>
  /\ UNCHANGED <<late, sfn, outer, engine, accepted, manifests, pointers, status, faults>>

Resubmit(f) ==
  /\ child[f].pc = "resubmit"
  /\ Goto(f, [child[f] EXCEPT !.attempt = 1], "prepare")
  /\ UNCHANGED <<late, sfn, outer, engine, store, faults>>

RetryRaises(f) ==
  /\ child[f].pc \in InRetry
  /\ Raised(f, child[f], "bookkeep", "unreported")
  /\ Fault
  /\ UNCHANGED <<late, sfn, outer, engine, store>>

-----------------------------------------------------------------------------
(* Collect and WriteFailureManifest.                                       *)

\* put_json_create_only; an object that is already there is authoritative when it was
\* written under the same execution id for the same attempt, and an error otherwise.
Commits(f, m) ==
  manifests[f] # None => manifests[f].exec = m.exec /\ manifests[f].attempt = m.attempt

PutManifest(f, m) ==
  /\ Commits(f, m)
  /\ manifests' = [manifests EXCEPT ![f] = IF @ = None THEN m ELSE @]

CollectManifest(f) ==
  LET c == child[f]
      m == [exec |-> c.attempt, attempt |-> c.attempt, ok |-> c.ok]
  IN
  /\ c.pc = "collect"
  /\ \/ /\ PutManifest(f, m)
        /\ SetChild(f, [c EXCEPT !.ok = manifests'[f].ok, !.pc = "publish"])
     \/ /\ ~Commits(f, m)
        /\ RaiseCollect(f)
        /\ UNCHANGED manifests
  /\ UNCHANGED <<late, sfn, outer, engine, accepted, pointers, rows, summary, status, faults>>

\* publish_execution_pointer, only for a success; the pointer of a newer run stays.
PublishPointer(f) ==
  LET c == child[f] IN
  /\ c.pc = "publish"
  /\ pointers' \in {pointers} \cup (IF c.ok THEN {pointers \cup {f}} ELSE {})
  /\ SetChild(f, [c EXCEPT !.pc = "record"])
  /\ UNCHANGED <<late, sfn, outer, engine, accepted, manifests, rows, summary, status, faults>>

Verdict(ok) == IF ok THEN "succeeded" ELSE "failed"

\* _persist_manifest_registry
CollectRow(f) ==
  LET c == child[f]
      row == [exec |-> c.attempt, status |-> Verdict(c.ok), step |-> Step[f],
              manifest |-> TRUE]
  IN
  /\ c.pc = "record"
  /\ \/ /\ PutAttempt(f, c.attempt, row)
        /\ SetChild(f, [c EXCEPT !.pc = "collected"])
     \/ /\ ~Stored(f, c.attempt, row)
        /\ RaiseCollect(f)
        /\ UNCHANGED <<rows, summary>>
  /\ UNCHANGED <<late, sfn, outer, engine, accepted, manifests, pointers, status, faults>>

\* The inner execution succeeds, even when what it reports is a failure.
CollectReturns(f) ==
  /\ child[f].pc = "collected"
  /\ Goto(f, child[f], "succeeded")
  /\ UNCHANGED <<late, sfn, outer, engine, store, faults>>

CollectRaises(f) ==
  /\ child[f].pc \in InCollect
  /\ RaiseCollect(f)
  /\ Fault
  /\ UNCHANGED <<late, sfn, outer, engine, store>>

\* WriteFailureManifest checks the manifest it finds without the pull request of the run, and
\* then a plan's files are not where it looks for them.
Adoptable(f, m) ==
  Commits(f, m) /\ ~(ScopedPlans /\ manifests[f] # None /\ manifests[f].ok)

\* The execution id is the map item's, that of attempt 0, whatever the attempt is.
FailureManifest(f) ==
  LET c == child[f]
      m == [exec |-> 0, attempt |-> c.attempt, ok |-> FALSE]
  IN
  /\ c.pc = "failure"
  /\ \/ /\ Adoptable(f, m)
        /\ PutManifest(f, m)
        /\ SetChild(f, [c EXCEPT !.pc = "report"])
     \/ /\ ~Adoptable(f, m)
        /\ RaiseFailure(f)
        /\ UNCHANGED manifests
  /\ UNCHANGED <<late, sfn, outer, engine, accepted, pointers, rows, summary, status, faults>>

\* Faulty: the failure is recorded whatever the committed manifest says.
AlwaysFailedRow(f) ==
  [exec |-> 0, status |-> "failed", step |-> 1, manifest |-> TRUE]

\* The committed manifest decides the status; step_index is left to its default of 1.
FailureRow(f) ==
  [exec |-> 0, status |-> Verdict(manifests[f].ok), step |-> 1, manifest |-> TRUE]

ReportFailure(f) ==
  LET c == child[f] IN
  /\ c.pc = "report"
  /\ \/ /\ PutAttempt(f, c.attempt, FailureRow(f))
        /\ SetChild(f, [c EXCEPT !.pc = "reported"])
     \/ /\ ~Stored(f, c.attempt, FailureRow(f))
        /\ RaiseFailure(f)
        /\ UNCHANGED <<rows, summary>>
  /\ UNCHANGED <<late, sfn, outer, engine, accepted, manifests, pointers, status, faults>>

FailureReturns(f) ==
  /\ child[f].pc = "reported"
  /\ Goto(f, child[f], "failed")
  /\ UNCHANGED <<late, sfn, outer, engine, store, faults>>

FailureRaises(f) ==
  /\ child[f].pc \in InFailure
  /\ RaiseFailure(f)
  /\ Fault
  /\ UNCHANGED <<late, sfn, outer, engine, store>>

-----------------------------------------------------------------------------
(* The outer execution: the step loop.                                     *)

SetOuter(o) == outer' = o

StepFolders(k) == {f \in Folders : Step[f] = k}

\* _normalize_folder_execution: a failed inner execution says nothing of its attempts.
OutcomeOf(c) ==
  IF c.pc = "succeeded"
  THEN [exec |-> c.attempt, attempt |-> c.attempt, status |-> Verdict(c.ok),
        manifest |-> TRUE]
  ELSE [exec |-> 0, attempt |-> 0, status |-> "infrastructure_error",
        manifest |-> FALSE]

\* Faulty: an infrastructure error is not a failure.
ReportedFailed(o) == o.status = "failed"

Failed(o) == o.status \in {"failed", "infrastructure_error"}

NotRun == [exec |-> 0, attempt |-> 0, status |-> "skipped", manifest |-> FALSE]

\* The state with the outcomes of the step that is over.
Collected ==
  [outer EXCEPT !.outcomes = [f \in Folders |->
     IF Step[f] = outer.step THEN OutcomeOf(child[f]) ELSE outer.outcomes[f]]]

StepOver ==
  /\ sfn = "running"
  /\ outer.pc = "map"
  /\ \A f \in StepFolders(outer.step) :
       child[f].pc \in {"succeeded", "failed", "unreported"}

StepFailed == \E f \in StepFolders(outer.step) : Failed(OutcomeOf(child[f]))

LaterSteps == {k \in Steps : k > outer.step}

\* Faulty: an infrastructure error does not fail the step.
AdvanceOnError ==
  /\ StepOver
  /\ \A f \in StepFolders(outer.step) : OutcomeOf(child[f]).status # "failed"
  /\ \E k \in LaterSteps :
       /\ \A l \in LaterSteps : k <= l
       /\ SetOuter([Collected EXCEPT !.step = k])
       /\ child' = [f \in Folders |-> IF Step[f] = k THEN Started(f, k) ELSE child[f]]
  /\ UNCHANGED <<late, sfn, engine, store, faults>>

\* CollectStepOutcomes and AdvanceOrStop: the next step, ...
Advance ==
  /\ StepOver
  /\ ~StepFailed
  /\ \E k \in LaterSteps :
       /\ \A l \in LaterSteps : k <= l
       /\ SetOuter([Collected EXCEPT !.step = k])
       /\ child' = [f \in Folders |-> IF Step[f] = k THEN Started(f, k) ELSE child[f]]
  /\ UNCHANGED <<late, sfn, engine, store, faults>>

\* ... or RenderPR, which reports the folders of later steps as not run.
StartRender ==
  /\ StepOver
  /\ StepFailed \/ LaterSteps = {}
  /\ SetOuter([Collected EXCEPT !.pc = "rows", !.todo = Folders,
                 !.skipped = {f \in Folders : Step[f] > outer.step}])
  /\ UNCHANGED <<late, sfn, child, engine, store, faults>>

Finalizing == [outer EXCEPT !.pc = "final", !.todo = Folders]

\* The Map or CollectStepOutcomes fails: the outcomes of this step are lost.
MapFails ==
  /\ sfn = "running"
  /\ outer.pc = "map"
  /\ SetOuter(Finalizing)
  /\ Fault
  /\ UNCHANGED <<late, sfn, child, engine, store>>

-----------------------------------------------------------------------------
(* RenderPR: _update_run_registry.                                         *)

Reported(f) == IF f \in outer.skipped THEN NotRun ELSE outer.outcomes[f]

RegistryRow(f, o) ==
  [exec |-> o.exec, status |-> o.status, step |-> Step[f], manifest |-> o.manifest]

\* _terminal_status of outcomes and skipped folders.
TerminalStatus ==
  IF \E f \in Folders : Failed(Reported(f)) THEN "failed" ELSE "succeeded"

\* RenderPR raised: FinalizeAfterRenderFailure - unless the execution was aborted.
RaiseRender ==
  SetOuter(IF sfn = "running" THEN Finalizing ELSE [outer EXCEPT !.pc = "off"])

\* put_folder_record, the outcomes before the skipped folders.
RenderRow(f) ==
  LET o == Reported(f)
      row == RegistryRow(f, o)
  IN
  /\ outer.pc = "rows"
  /\ f \in outer.todo
  /\ f \in outer.skipped => outer.todo \subseteq outer.skipped
  /\ \/ /\ PutAttempt(f, o.attempt, row)
        /\ SetOuter([outer EXCEPT !.todo = @ \ {f}])
     \/ /\ ~Stored(f, o.attempt, row)
        /\ RaiseRender
        /\ UNCHANGED <<rows, summary>>
  /\ UNCHANGED <<late, sfn, child, engine, accepted, manifests, pointers, status, faults>>

RenderStatus ==
  /\ outer.pc = "rows"
  /\ outer.todo = {}
  /\ SetStatus(TerminalStatus)
  /\ IF MayBecome(status, TerminalStatus)
     THEN SetOuter([outer EXCEPT !.pc = "rendered"])
     ELSE RaiseRender
  /\ UNCHANGED <<late, sfn, child, engine, accepted, manifests, pointers, rows,
                 summary, faults>>

RenderRaises ==
  /\ outer.pc \in {"rows", "rendered"}
  /\ RaiseRender
  /\ Fault
  /\ UNCHANGED <<late, sfn, child, engine, store>>

\* RouteAfterRender
RenderReturns ==
  /\ sfn = "running"
  /\ outer.pc = "rendered"
  /\ IF TerminalStatus = "succeeded"
     THEN /\ sfn' = "succeeded"
          /\ SetOuter([outer EXCEPT !.pc = "off"])
     ELSE /\ SetOuter(Finalizing)
          /\ UNCHANGED sfn
  /\ UNCHANGED <<late, child, engine, store, faults>>

-----------------------------------------------------------------------------
(* FinalizeRun, and the finalizer that only knows the run.                 *)

\* A folder without an outcome is synthesized from its map item.
Synthesized == [exec |-> 0, attempt |-> 0, status |-> "failed", manifest |-> FALSE]

Final(f) == IF outer.outcomes[f] = None THEN Synthesized ELSE outer.outcomes[f]

\* Faulty: only the outcomes are persisted, not the folders that never had one.
FinalizeOutcomesOnly(f) ==
  LET existing == rows[f][Final(f).attempt] IN
  /\ outer.pc = "final"
  /\ f \in outer.todo
  /\ SetOuter(IF existing = None /\ outer.outcomes[f] # None
              THEN [outer EXCEPT !.pc = "put", !.cur = f]
              ELSE [outer EXCEPT !.todo = @ \ {f},
                      !.incomplete = @ \/ (existing # None /\ existing.exec # Final(f).exec)])
  /\ UNCHANGED <<late, sfn, child, engine, store, faults>>

\* _persist_one_folder: an attempt that is already there is kept as it is.
FinalizeFolder(f) ==
  LET existing == rows[f][Final(f).attempt] IN
  /\ outer.pc = "final"
  /\ f \in outer.todo
  /\ SetOuter(IF existing = None THEN [outer EXCEPT !.pc = "put", !.cur = f]
              ELSE [outer EXCEPT !.todo = @ \ {f},
                      !.incomplete = @ \/ existing.exec # Final(f).exec])
  /\ UNCHANGED <<late, sfn, child, engine, store, faults>>

FinalizePut ==
  LET f == outer.cur
      o == Final(f)
      row == RegistryRow(f, o)
      next == [outer EXCEPT !.pc = "final", !.todo = @ \ {f}, !.cur = None]
  IN
  /\ outer.pc = "put"
  /\ \/ /\ PutAttempt(f, o.attempt, row)
        /\ SetOuter(next)
     \/ /\ ~Stored(f, o.attempt, row)
        /\ SetOuter([next EXCEPT !.incomplete = TRUE])
        /\ UNCHANGED <<rows, summary>>
  /\ UNCHANGED <<late, sfn, child, engine, accepted, manifests, pointers, status, faults>>

\* Reading or writing one folder fails in all three attempts; the loop goes on.
FinalizeFolderError(f) ==
  /\ \/ outer.pc = "final" /\ f \in outer.todo
     \/ outer.pc = "put" /\ f = outer.cur
  /\ SetOuter([outer EXCEPT !.pc = "final", !.todo = @ \ {f}, !.cur = None,
                            !.incomplete = TRUE])
  /\ Fault
  /\ UNCHANGED <<late, sfn, child, engine, store>>

\* finalize_run_if_running, whatever went wrong before it.
FinalizeStatus ==
  /\ outer.pc = "final"
  /\ outer.todo = {}
  /\ SetStatus("failed")
  /\ SetOuter([outer EXCEPT !.pc = "closed"])
  /\ UNCHANGED <<late, sfn, child, engine, accepted, manifests, pointers, rows,
                 summary, faults>>

\* RenderPRFailed and PipelineFailed, or FinalizeRunFailed when anything was incomplete.
FinalizeReturns ==
  /\ sfn = "running"
  /\ outer.pc = "closed"
  /\ sfn' = IF outer.incomplete THEN "unfinalized" ELSE "failed"
  /\ SetOuter([outer EXCEPT !.pc = "off"])
  /\ UNCHANGED <<late, child, engine, store, faults>>

\* The Lambda dies or cannot write the status; the Task has no Retry.
FinalizeDies ==
  /\ sfn = "running"
  /\ outer.pc \in {"final", "put", "closed"}
  /\ sfn' = "unfinalized"
  /\ SetOuter([outer EXCEPT !.pc = "off"])
  /\ Fault
  /\ UNCHANGED <<late, child, engine, store>>

\* ABORTED or TIMED_OUT; every Lambda in flight goes on.
Abort ==
  /\ sfn = "running"
  /\ sfn' = "aborted"
  /\ Fault
  /\ UNCHANGED <<late, outer, child, engine, store>>

\* outer_failure_finalizer: no outcomes and no map_items in its event.
EventFinalizer ==
  /\ sfn \in {"failed", "unfinalized", "aborted"}
  /\ ~Terminal(status)
  /\ SetStatus("failed")
  /\ UNCHANGED <<late, sfn, outer, child, engine, accepted, manifests, pointers,
                 rows, summary, faults>>

-----------------------------------------------------------------------------

ChildStep(f) ==
  \/ Submit(f) \/ SubmitLate(f) \/ Acknowledge(f) \/ Notify(f)
  \/ ProbeExpired(f) \/ ProbeDone(f) \/ PersistRetry(f) \/ Resubmit(f)
  \/ CollectManifest(f) \/ PublishPointer(f) \/ CollectRow(f) \/ CollectReturns(f)
  \/ FailureManifest(f) \/ ReportFailure(f) \/ FailureReturns(f)

ChildError(f) ==
  \/ PrepareRaises(f) \/ NotifyRaises(f) \/ ProbeRaises(f) \/ CredentialsExpire(f)
  \/ RetryRaises(f) \/ CollectRaises(f) \/ FailureRaises(f)

OuterStep ==
  \/ Advance \/ StartRender \/ RenderStatus \/ RenderReturns
  \/ FinalizePut \/ FinalizeStatus \/ FinalizeReturns
  \/ \E f \in Folders : RenderRow(f) \/ FinalizeFolder(f)

OuterError ==
  \/ MapFails \/ RenderRaises \/ FinalizeDies \/ Abort
  \/ \E f \in Folders : FinalizeFolderError(f)

Next ==
  \/ DeadlinePasses \/ MarkRunning \/ EventFinalizer
  \/ \E f \in Folders, a \in Attempts : EngineDone(f, a)
  \/ \E f \in Folders : ChildStep(f) \/ ChildError(f)
  \/ OuterStep \/ OuterError

Spec == Init /\ [][Next]_vars

\* Step Functions drives what it has started, Lambdas run, time passes and EventBridge
\* delivers; nothing is assumed of the engine, of start_run or of errors.
FairSpec ==
  /\ Spec
  /\ WF_vars(DeadlinePasses)
  /\ WF_vars(EventFinalizer)
  /\ WF_vars(sfn = "running" /\ OuterStep)
  /\ \A f \in Folders : WF_vars(Running(f) /\ ChildStep(f))

-----------------------------------------------------------------------------
(* Properties.                                                             *)

Engine == {"none", "running", "complete", "failed", "expired"}

\* Every variable keeps the shape of the rows, objects and executions it models.
TypeOK ==
  /\ late \in BOOLEAN
  /\ sfn \in {"running", "succeeded", "failed", "unfinalized", "aborted"}
  /\ outer \in Outer
  /\ child \in [Folders -> Child]
  /\ engine \in [Folders -> [Attempts -> Engine]]
  /\ accepted \in [Folders -> SUBSET Attempts]
  /\ manifests \in [Folders -> Manifest \cup {None}]
  /\ pointers \subseteq Folders
  /\ rows \in [Folders -> [Attempts -> Row \cup {None}]]
  /\ summary \in [Folders -> Summary \cup {None}]
  /\ status \in Statuses
  /\ faults \in 0..MaxFaults

Says(row, verdict) == row # None /\ row.status = verdict

\* A run is recorded as succeeded only with every folder recorded as succeeded, whatever
\* order the inner executions, RenderPR and the finalizers wrote in.
SucceededRunSucceededFolders ==
  status = "succeeded" => \A f \in Folders : Says(summary[f], "succeeded")

\* The summary of a folder always is its latest attempt row: neither a replay nor a late
\* write of attempt 0 takes it back (put_folder_attempt).
SummaryIsLatestRow ==
  \A f \in Folders :
    /\ summary[f] = None <=> \A a \in Attempts : rows[f][a] = None
    /\ summary[f] # None =>
         LET a == summary[f].attempt IN
         /\ rows[f][a] # None
         /\ summary[f] = SummaryOf(None, a, rows[f][a])
         /\ \A b \in Attempts : b > a => rows[f][b] = None

\* A row that cites the manifest says what the manifest says, and only a success is
\* published - although Collect and WriteFailureManifest race through retries for one key.
ManifestDecides ==
  \A f \in Folders :
    /\ f \in pointers => manifests[f] # None /\ manifests[f].ok
    /\ \A a \in Attempts : rows[f][a] # None /\ rows[f][a].manifest =>
         /\ manifests[f] # None
         /\ manifests[f].attempt = a
         /\ rows[f][a].status = Verdict(manifests[f].ok)

\* "Persist retry evidence before returning the only allowed resubmit envelope": the
\* engine never works on attempt 1 without a failed row of attempt 0.
RetryIsRecorded ==
  \A f \in Folders : engine[f][1] # "none" => Says(rows[f][0], "failed")

\* An execution that FinalizeRun brought to its end left a terminal summary for every
\* folder, also for those that never got an outcome.
FinalizedRunIsRecorded ==
  sfn = "failed" => \A f \in Folders : summary[f] # None /\ Terminal(summary[f].status)

\* docs/USER_STORIES.md: "A later step does not start until the prior step succeeds" - and
\* the registry already says so when it starts.
LaterStepsWait ==
  \A f, g \in Folders : Step[g] < Step[f] /\ child[f].pc # "idle" =>
    /\ child[g].pc = "succeeded"
    /\ Says(summary[g], "succeeded")

\* What was recorded stays: manifests and attempt rows are create-only, a summary never
\* goes back to an earlier attempt, a terminal status never changes.
RecordsAreFinal ==
  [][/\ \A f \in Folders :
          /\ manifests[f] # None => manifests'[f] = manifests[f]
          /\ \A a \in Attempts : rows[f][a] # None => rows'[f][a] = rows[f][a]
          /\ summary[f] # None => summary'[f].attempt >= summary[f].attempt
     /\ Terminal(status) => status' = status]_vars

\* Every run comes to a terminal status, even if the engine never answers.
RunEnds == <>Terminal(status)

\* docs/USER_STORIES.md: "Folder registry rows include a 1-based step_index"; docs/DESIGN.md:
\* "one credential-expiry retry using a fresh immutable execution id".  A row in which both
\* are another's refutes both.
RowsAreIdentified ==
  \A f \in Folders, a \in Attempts :
    rows[f][a] # None => rows[f][a].step = Step[f] \/ rows[f][a].exec = a

\* docs/APPLY.md: "Notification failure never turns accepted mutation work into a
\* preparation failure."
NotificationNeverFailsWork ==
  [][\A f \in Folders : child[f].pc = "notify" /\ Running(f) =>
       child'[f].pc \in {"notify", "probe"}]_vars

=============================================================================
