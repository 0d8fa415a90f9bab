------------------------------ MODULE RunLocks ------------------------------
(***************************************************************************)
(* The per-folder lock table of openci-tf and every Lambda that writes it. *)
(*                                                                         *)
(* A run takes the locks of its folders one DynamoDB transaction at a time *)
(* in ValidateAndResolve, executes its folders, releases the locks folder  *)
(* by folder in RenderPR, and - when anything failed - once more through   *)
(* release_all in FinalizeRun and in the finalizer that EventBridge starts *)
(* for every FAILED, TIMED_OUT or ABORTED execution.  A release is three   *)
(* or four separate DynamoDB calls, so closers of one run and the resolver *)
(* of another interleave between them.  Aborting an execution does not     *)
(* stop a Lambda that is already running: its task goes on as an orphan.   *)
(*                                                                         *)
(* An execution id is compose_execution_id(run, folder, attempt); under the*)
(* key of one folder only the run and the attempt tell two ids apart.      *)
(***************************************************************************)
EXTENDS Integers, FiniteSets

CONSTANTS
  Runs,        \* outer Step Functions executions
  Folders,     \* lock keys, "<repo>/<folder>"
  Deliveries,  \* invocations of finalize-run by EventBridge, per run
  None,        \* an absent row, item or holder
  Windows,     \* the lengths a run's deadline window may have
  Margin,      \* LOCK_CLOSER_MARGIN_SECONDS
  MaxTries,    \* attempts of one closer (_MAX_FINALIZE_ATTEMPTS, EventBridge retries)
  MaxFaults,   \* bound: errors, kills and aborts in a behaviour
  MaxNow       \* bound: the clock stops here

Attempts == {0, 1}
LockRow  == [run : Runs, attempt : Attempts, expires : Nat]
OwnerRow == [attempt : Attempts, expires : Nat]
Item     == [folder : Folders, attempt : Attempts]
Slots    == {"task"} \cup Deliveries

ASSUME ConstantAssumption ==
  /\ Windows \subseteq Nat \ {0}          \* compute_deadline_at: budgets are positive
  /\ Margin \in Nat
  /\ MaxTries \in Nat
  /\ MaxFaults \in Nat
  /\ MaxNow \in Nat
  /\ None \notin LockRow \cup OwnerRow \cup Item \cup Runs
  /\ None \notin [run : Runs, until : Nat]
  /\ "task" \notin Deliveries

VARIABLES
  now,       \* wall clock
  locks,     \* pk = "lock": the row of each folder
  owners,    \* pk = "run-locks#<run>": the ownership row of each run and folder
  sfn,       \* where each outer execution is
  resolver,  \* the ValidateAndResolve invocation of each run
  closer,    \* the releasing invocation in each slot of each run
  outcome,   \* what the folders of a run came to
  faults     \* errors, kills and aborts so far

vars == <<now, locks, owners, sfn, resolver, closer, outcome, faults>>

SfnStates == {"new", "resolving", "executing", "rendering", "finalizing",
              "succeeded", "failed"}

Resolver == [pc : {"off", "acquire", "orphan", "returned", "unwound"},
             now : Nat, deadline : Nat, todo : SUBSET Folders,
             got : SUBSET Folders, ordered : BOOLEAN, skipped : BOOLEAN]

CloserPc == {"idle", "query", "next", "delete", "owner", "index",
             "done", "raised"}

Closer == [pc : CloserPc, all : BOOLEAN, todo : SUBSET Item,
           cur : Item \cup {None}, saw : Runs \cup {None},
           raising : BOOLEAN, tries : Nat]

Idle == [pc |-> "idle", all |-> TRUE, todo |-> {}, cur |-> None,
         saw |-> None, raising |-> FALSE, tries |-> 0]

\* Faulty: attempts counted down from the one before.
ReleaseAllCountingDown(tries) == [Idle EXCEPT !.pc = "query", !.tries = tries - 1]

\* tries counts the attempts a closer has used; only finalizers have more than one.
ReleaseAll(tries) == [Idle EXCEPT !.pc = "query", !.tries = tries]

ReleaseEach(items) ==
  [Idle EXCEPT !.pc = "next", !.all = FALSE, !.todo = items, !.tries = MaxTries]

Raised == [Idle EXCEPT !.pc = "raised", !.tries = MaxTries]

Init ==
  /\ now = 0
  /\ locks = [f \in Folders |-> None]
  /\ owners = [r \in Runs |-> [f \in Folders |-> None]]
  /\ sfn = [r \in Runs |-> "new"]
  /\ resolver = [r \in Runs |-> [pc |-> "off", now |-> 0, deadline |-> 0,
                                 todo |-> {}, got |-> {}, ordered |-> FALSE,
                                 skipped |-> FALSE]]
  /\ closer = [r \in Runs |-> [s \in Slots |-> Idle]]
  /\ outcome = [r \in Runs |-> [ok |-> FALSE, retried |-> {}]]
  /\ faults = 0

\* A step that fails for a reason outside the program.
Fault ==
  /\ faults < MaxFaults
  /\ faults' = faults + 1

-----------------------------------------------------------------------------
(* Time: the clock, and DynamoDB's asynchronous deletion of expired rows.  *)

Tick ==
  /\ now < MaxNow
  /\ now' = now + 1
  /\ UNCHANGED <<locks, owners, sfn, resolver, closer, outcome, faults>>

Expired(row) == row.expires < now

ReapLock(f) ==
  /\ locks[f] # None
  /\ Expired(locks[f])
  /\ locks' = [locks EXCEPT ![f] = None]
  /\ UNCHANGED <<now, owners, sfn, resolver, closer, outcome, faults>>

ReapOwner(r, f) ==
  /\ owners[r][f] # None
  /\ Expired(owners[r][f])
  /\ owners' = [owners EXCEPT ![r][f] = None]
  /\ UNCHANGED <<now, locks, sfn, resolver, closer, outcome, faults>>

-----------------------------------------------------------------------------
(* ValidateAndResolve: the clock is read once, before the first lock.      *)

Set(r, s, c) == closer' = [closer EXCEPT ![r] = [@ EXCEPT ![s] = c]]

Resolve(r, v) == resolver' = [resolver EXCEPT ![r] = v]

\* Faulty: a lease that ends this very second is taken over.
FreeAtExpiry(row, n) == row # None => row.expires <= n

\* attribute_not_exists(pk) OR expires_at < :now
Free(row, n) == row # None => row.expires < n

\* Faulty: the deadline in milliseconds.
ExpiresInMilliseconds(deadline) == 1000 * deadline + Margin

\* max(now + ttl, permitted_until) + margin, with the caller's ttl = deadline - now.
ExpiresAt(deadline) == deadline + Margin

BeginResolve(r) ==
  /\ sfn[r] = "new"
  /\ \E fs \in SUBSET Folders \ {{}}, w \in Windows, ord \in BOOLEAN :
       /\ now + w + Margin < MaxNow
       /\ Resolve(r, [pc |-> "acquire", now |-> now, deadline |-> now + w,
                      todo |-> fs, got |-> {}, ordered |-> ord, skipped |-> FALSE])
  /\ sfn' = [sfn EXCEPT ![r] = "resolving"]
  /\ UNCHANGED <<now, locks, owners, closer, outcome, faults>>

Acquiring(r, f) ==
  /\ resolver[r].pc \in {"acquire", "orphan"}
  /\ f \in resolver[r].todo

AcquireLock(r, f) ==
  LET end == ExpiresAt(resolver[r].deadline) IN
  /\ Acquiring(r, f)
  /\ Free(locks[f], resolver[r].now)
  /\ locks' = [locks EXCEPT ![f] = [run |-> r, attempt |-> 0, expires |-> end]]
  /\ owners' = [owners EXCEPT ![r] = [@ EXCEPT ![f] = [attempt |-> 0, expires |-> end]]]
  /\ Resolve(r, [resolver[r] EXCEPT !.todo = @ \ {f}, !.got = @ \cup {f}])
  /\ UNCHANGED <<now, sfn, closer, outcome, faults>>

\* The condition fails - or the transaction is cancelled for a conflict or a throttle,
\* which _is_condition_failure does not tell from a held lock.
Refused(r, f) == IF Free(locks[f], resolver[r].now) THEN Fault ELSE UNCHANGED faults

\* A read run reports a folder that another run holds as in_progress and goes on.
SkipHeld(r, f) ==
  /\ Acquiring(r, f)
  /\ ~resolver[r].ordered
  /\ Refused(r, f)
  /\ Resolve(r, [resolver[r] EXCEPT !.todo = @ \ {f}, !.skipped = TRUE])
  /\ UNCHANGED <<now, locks, owners, sfn, closer, outcome>>

\* The resolver is over; one whose execution was aborted stays an orphan.
Stopped(v) == [v EXCEPT !.pc = IF @ = "acquire" THEN "unwound" ELSE @,
                        !.todo = {}, !.ordered = FALSE]

\* The finally clause: release_all when a lock was acquired, then the error goes on.
Unwind(r) ==
  /\ Resolve(r, Stopped(resolver[r]))
  /\ Set(r, "task", IF resolver[r].got # {} THEN ReleaseAll(MaxTries) ELSE Raised)
  /\ UNCHANGED <<now, locks, owners, sfn, outcome>>

\* A pipeline or a mutation gives up at the first folder it cannot lock.
RaiseHeld(r, f) ==
  /\ Acquiring(r, f)
  /\ resolver[r].ordered
  /\ Refused(r, f)
  /\ Unwind(r)

\* An AWS error on a lock, or a result too large for Step Functions.
ResolverRaise(r) ==
  /\ resolver[r].pc \in {"acquire", "orphan"}
  /\ closer[r]["task"].pc = "idle"
  /\ Unwind(r)
  /\ Fault

\* The Lambda is stopped by its timeout: its finally clause does not run.
ResolverKilled(r) ==
  /\ resolver[r].pc \in {"acquire", "orphan"}
  /\ closer[r]["task"].pc = "idle"
  /\ Resolve(r, Stopped(resolver[r]))
  /\ Set(r, "task", Raised)
  /\ Fault
  /\ UNCHANGED <<now, locks, owners, sfn, outcome>>

ResolveReturn(r) ==
  /\ resolver[r].pc = "acquire"
  /\ resolver[r].todo = {}
  /\ Resolve(r, [resolver[r] EXCEPT !.pc = "returned", !.ordered = FALSE])
  /\ sfn' = [sfn EXCEPT ![r] = "executing"]
  /\ UNCHANGED <<now, locks, owners, closer, outcome, faults>>

-----------------------------------------------------------------------------
(* release and release_all, one DynamoDB call per action.                  *)

\* Faulty: only the first page of the query is read.
QueryFirstPage(r, s) ==
  LET c == closer[r][s]
      found == {f \in Folders : owners[r][f] # None}
      page == {f \in found : f = CHOOSE g \in found : TRUE}
  IN
  /\ c.pc = "query"
  /\ Set(r, s, [c EXCEPT !.pc = "next",
                  !.todo = {[folder |-> f, attempt |-> owners[r][f].attempt] : f \in page}])
  /\ UNCHANGED <<now, locks, owners, sfn, resolver, outcome, faults>>

\* ownerships_for_run
QueryOwners(r, s) ==
  LET c == closer[r][s] IN
  /\ c.pc = "query"
  /\ Set(r, s, [c EXCEPT !.pc = "next",
                  !.todo = {[folder |-> f, attempt |-> owners[r][f].attempt] :
                              f \in {g \in Folders : owners[r][g] # None}}])
  /\ UNCHANGED <<now, locks, owners, sfn, resolver, outcome, faults>>

\* The next folder, and the consistent read that supplies its holder_run_id.  The body
\* of RenderPR's loop may raise; its finally clause releases all the same.
ReadHolder(r, s, i) ==
  LET c == closer[r][s]
      row == locks[i.folder]
  IN
  /\ c.pc = "next"
  /\ i \in c.todo
  /\ \E raising \in IF c.all THEN {FALSE} ELSE BOOLEAN :
       /\ Set(r, s, [c EXCEPT !.pc = "delete", !.cur = i, !.raising = raising,
                              !.saw = IF row = None THEN None ELSE row.run])
       /\ IF raising THEN Fault ELSE UNCHANGED faults
  /\ UNCHANGED <<now, locks, owners, sfn, resolver, outcome>>

\* Faulty: the loop returns after its first folder.
LastItem(c) == [c EXCEPT !.todo = {}, !.pc = "next", !.cur = None, !.saw = None]

AfterItem(c) ==
  IF c.raising THEN Raised
  ELSE [c EXCEPT !.todo = @ \ {c.cur}, !.pc = "next", !.cur = None, !.saw = None]

AfterRelease(c) == IF c.all THEN [c EXCEPT !.pc = "index"] ELSE AfterItem(c)

\* holder_execution_id = :holder
HeldBy(row, r, attempt) ==
  /\ row # None
  /\ row.run = r
  /\ row.attempt = attempt

\* Faulty: the delete has no condition.
DeleteAnyLock(r, s) ==
  LET c == closer[r][s]
      f == c.cur.folder
  IN
  /\ c.pc = "delete"
  /\ locks' = [locks EXCEPT ![f] = None]
  /\ Set(r, s, IF c.saw # None THEN [c EXCEPT !.pc = "owner"] ELSE AfterRelease(c))
  /\ UNCHANGED <<now, owners, sfn, resolver, outcome, faults>>

\* Faulty: the failed condition is not noticed, the ownership row goes all the same.
DeleteLockAndGoOn(r, s) ==
  LET c == closer[r][s]
      f == c.cur.folder
      mine == HeldBy(locks[f], r, c.cur.attempt)
  IN
  /\ c.pc = "delete"
  /\ locks' = IF mine THEN [locks EXCEPT ![f] = None] ELSE locks
  /\ Set(r, s, IF c.saw # None THEN [c EXCEPT !.pc = "owner"] ELSE AfterRelease(c))
  /\ UNCHANGED <<now, owners, sfn, resolver, outcome, faults>>

DeleteLock(r, s) ==
  LET c == closer[r][s]
      f == c.cur.folder
      mine == HeldBy(locks[f], r, c.cur.attempt)
  IN
  /\ c.pc = "delete"
  /\ locks' = IF mine THEN [locks EXCEPT ![f] = None] ELSE locks
  /\ Set(r, s, IF mine /\ c.saw # None THEN [c EXCEPT !.pc = "owner"]
               ELSE AfterRelease(c))
  /\ UNCHANGED <<now, owners, sfn, resolver, outcome, faults>>

\* The ownership row of the run that the read saw, not of the caller's.
DeleteOwner(r, s) ==
  LET c == closer[r][s] IN
  /\ c.pc = "owner"
  /\ owners' = [owners EXCEPT ![c.saw][c.cur.folder] = None]
  /\ Set(r, s, AfterRelease(c))
  /\ UNCHANGED <<now, locks, sfn, resolver, outcome, faults>>

\* release_all removes the index row itself, after release has returned.
DeleteIndexRow(r, s) ==
  LET c == closer[r][s] IN
  /\ c.pc = "index"
  /\ owners' = [owners EXCEPT ![r][c.cur.folder] = None]
  /\ Set(r, s, AfterItem(c))
  /\ UNCHANGED <<now, locks, sfn, resolver, outcome, faults>>

CloserDone(r, s) ==
  LET c == closer[r][s] IN
  /\ c.pc = "next"
  /\ c.todo = {}
  /\ Set(r, s, [c EXCEPT !.pc = "done"])
  /\ UNCHANGED <<now, locks, owners, sfn, resolver, outcome, faults>>

\* An AWS error, a failed comment, or the Lambda's timeout, after which a task of
\* the state machine has no attempt left.
CloserRaise(r, s) ==
  LET c == closer[r][s] IN
  /\ c.pc \in {"query", "next", "delete", "owner", "index"}
  /\ \E tries \in IF s = "task" THEN {c.tries, MaxTries} ELSE {c.tries} :
       Set(r, s, [Raised EXCEPT !.tries = tries])
  /\ Fault
  /\ UNCHANGED <<now, locks, owners, sfn, resolver, outcome>>

CloserStep(r, s) ==
  \/ QueryOwners(r, s)
  \/ \E i \in Item : ReadHolder(r, s, i)
  \/ DeleteLock(r, s)
  \/ DeleteOwner(r, s)
  \/ DeleteIndexRow(r, s)
  \/ CloserDone(r, s)

-----------------------------------------------------------------------------
(* The outer state machine and the EventBridge rule.                       *)

\* Every child of the Map is done.  A folder's outcome carries the execution id of
\* the attempt that produced it.  Without a failure every acquired folder is rendered;
\* with one, RenderPR may be handed fewer (a registry-only run skips the "not run").
FoldersDone(r) ==
  LET got == resolver[r].got IN
  /\ sfn[r] = "executing"
  /\ \E retried \in SUBSET got, failed \in BOOLEAN, shown \in SUBSET got :
       /\ ~failed => shown = got
       /\ outcome' = [outcome EXCEPT ![r] =
                        [ok |-> ~failed /\ ~resolver[r].skipped, retried |-> retried]]
       /\ Set(r, "task", ReleaseEach({[folder |-> f,
                            attempt |-> IF f \in retried THEN 1 ELSE 0] : f \in shown}))
  /\ sfn' = [sfn EXCEPT ![r] = "rendering"]
  /\ UNCHANGED <<now, locks, owners, resolver, faults>>

\* FinalizeRun is entered from every failed state, from a failed render and from a
\* render that reports execution_failed.
EnterFinalize(r) ==
  /\ sfn' = [sfn EXCEPT ![r] = "finalizing"]
  /\ Set(r, "task", ReleaseAll(0))
  /\ UNCHANGED <<now, locks, owners, resolver, outcome, faults>>

MapFailed(r) ==
  /\ sfn[r] = "executing"
  /\ EnterFinalize(r)

ResolveFailed(r) ==
  /\ sfn[r] = "resolving"
  /\ closer[r]["task"].pc \in {"raised", "done"}
  /\ EnterFinalize(r)

\* The render raises, reports execution_failed, or was the plan of a pipeline mutation
\* and the CreateIntent that follows it raises.
RenderFailed(r) ==
  /\ sfn[r] = "rendering"
  /\ closer[r]["task"].pc \in {"raised", "done"}
  /\ EnterFinalize(r)

EndRun(r, status) ==
  /\ sfn' = [sfn EXCEPT ![r] = status]
  /\ UNCHANGED <<now, locks, owners, closer, outcome>>

RenderDone(r) ==
  /\ sfn[r] = "rendering"
  /\ closer[r]["task"].pc = "done"
  /\ outcome[r].ok
  /\ EndRun(r, "succeeded")
  /\ UNCHANGED <<resolver, faults>>

\* CreateIntent after the render of a plan-first pipeline reports intent_failed.
IntentFailed(r) ==
  /\ sfn[r] = "rendering"
  /\ closer[r]["task"].pc = "done"
  /\ EndRun(r, "failed")
  /\ UNCHANGED <<resolver, faults>>

\* Both ways out of FinalizeRun, PipelineFailed and FinalizeRunFailed, are Fail states.
FinalizeEnds(r) ==
  /\ sfn[r] = "finalizing"
  /\ \/ closer[r]["task"].pc = "done"
     \/ closer[r]["task"].pc = "raised" /\ closer[r]["task"].tries = MaxTries
  /\ EndRun(r, "failed")
  /\ UNCHANGED <<resolver, faults>>

\* ABORTED or TIMED_OUT; a Lambda in flight goes on.
Abort(r) ==
  /\ sfn[r] \in {"resolving", "executing", "rendering", "finalizing"}
  /\ EndRun(r, "failed")
  /\ Fault
  /\ Resolve(r, [resolver[r] EXCEPT !.pc = IF @ = "acquire" THEN "orphan" ELSE @])

\* _release_locks retries release_all, EventBridge retries the whole finalizer.
RetryRelease(r, s) ==
  LET c == closer[r][s] IN
  /\ c.pc = "raised"
  /\ c.tries < MaxTries
  /\ Set(r, s, ReleaseAll(c.tries + 1))
  /\ UNCHANGED <<now, locks, owners, sfn, resolver, outcome, faults>>

\* Faulty: EventBridge skips executions whose state machine ran FinalizeRun.
DeliverUnlessFinalized(r, d) ==
  /\ sfn[r] = "failed"
  /\ closer[r][d].pc = "idle"
  /\ closer[r]["task"].pc = "idle"
  /\ Set(r, d, ReleaseAll(0))
  /\ UNCHANGED <<now, locks, owners, sfn, resolver, outcome, faults>>

DeliverEvent(r, d) ==
  /\ sfn[r] = "failed"
  /\ closer[r][d].pc = "idle"
  /\ Set(r, d, ReleaseAll(0))
  /\ UNCHANGED <<now, locks, owners, sfn, resolver, outcome, faults>>

-----------------------------------------------------------------------------

Next ==
  \/ Tick
  \/ \E f \in Folders : ReapLock(f)
  \/ \E r \in Runs, f \in Folders :
       ReapOwner(r, f) \/ AcquireLock(r, f) \/ SkipHeld(r, f) \/ RaiseHeld(r, f)
  \/ \E r \in Runs :
       \/ BeginResolve(r) \/ ResolverRaise(r) \/ ResolverKilled(r) \/ ResolveReturn(r)
       \/ FoldersDone(r) \/ MapFailed(r) \/ ResolveFailed(r) \/ RenderFailed(r)
       \/ RenderDone(r) \/ IntentFailed(r) \/ FinalizeEnds(r) \/ Abort(r)
  \/ \E r \in Runs, s \in Slots :
       CloserStep(r, s) \/ CloserRaise(r, s) \/ RetryRelease(r, s)
  \/ \E r \in Runs, d \in Deliveries : DeliverEvent(r, d)

Spec == Init /\ [][Next]_vars

\* Step Functions drives an execution it has started, a running Lambda runs, and
\* EventBridge delivers and redelivers; nothing is assumed of errors, aborts and new runs.
ClosingSpec ==
  /\ Spec
  /\ \A r \in Runs :
       /\ WF_vars(\E f \in Folders :
                    AcquireLock(r, f) \/ SkipHeld(r, f) \/ RaiseHeld(r, f))
       /\ WF_vars(ResolveReturn(r) \/ ResolveFailed(r))
       /\ WF_vars(FoldersDone(r) \/ MapFailed(r))
       /\ WF_vars(RenderFailed(r) \/ RenderDone(r) \/ FinalizeEnds(r))
       /\ \A s \in Slots : WF_vars(CloserStep(r, s) \/ RetryRelease(r, s))
       /\ \A d \in Deliveries : WF_vars(DeliverEvent(r, d))

\* Only time passes for sure: no closer is assumed to run and DynamoDB may never delete.
ClockSpec == Spec /\ WF_vars(Tick)

-----------------------------------------------------------------------------
(* Properties.                                                             *)

\* Every variable keeps the shape of the rows and of the invocations it models.
TypeOK ==
  /\ now \in Nat
  /\ locks \in [Folders -> LockRow \cup {None}]
  /\ owners \in [Runs -> [Folders -> OwnerRow \cup {None}]]
  /\ sfn \in [Runs -> SfnStates]
  /\ resolver \in [Runs -> Resolver]
  /\ closer \in [Runs -> [Slots -> Closer]]
  /\ outcome \in [Runs -> [ok : BOOLEAN, retried : SUBSET Folders]]
  /\ faults \in 0..MaxFaults

\* A run works on its folders from the first lock until its Map is done or something
\* ends it.
Working(r) ==
  /\ sfn[r] \in {"resolving", "executing"}
  /\ resolver[r].pc \in {"acquire", "returned"}

Live(row) == row # None /\ ~Expired(row)

\* While a run works and its deadline (plus the closer margin) has not passed, the lock
\* row of every folder it acquired is its own: no late closer, takeover or TTL deletion
\* takes it away (run_lock.acquire, release, release_all).
WorkingRunHoldsItsLocks ==
  \A r \in Runs : \A f \in resolver[r].got :
    Working(r) /\ now <= ExpiresAt(resolver[r].deadline) => HeldBy(locks[f], r, 0)

\* A lock that still excludes others can be found through the ownership index of its
\* holder, so a finalizer that only knows the run id can release it ("Keep both the lock
\* and its ownership index recoverable").
LiveLockIsIndexed ==
  \A f \in Folders : Live(locks[f]) =>
    owners[locks[f].run][f] = [attempt |-> locks[f].attempt, expires |-> locks[f].expires]

\* Once one release_all of a run has come to its end, the run excludes nobody - unless its
\* resolver was orphaned by an abort and may have locked a folder after the query.
ClosedRunHoldsNothing ==
  \A r \in Runs : \A s \in Slots :
    /\ closer[r][s].pc = "done"
    /\ closer[r][s].all
    /\ resolver[r].pc # "orphan"
    => \A f \in Folders : Live(locks[f]) => locks[f].run # r

\* A run that ends well is never finalized; what RenderPR leaves locked is at most the
\* folders that took a credential retry.
SuccessKeepsOnlyRetriedLocks ==
  \A r \in Runs : sfn[r] = "succeeded" =>
    \A f \in Folders : HeldBy(locks[f], r, 0) => f \in outcome[r].retried

\* docs/PIPELINES.md: "Locks are held only for the current mutation checkpoint."
SuccessReleasesEveryLock ==
  \A r \in Runs : sfn[r] = "succeeded" =>
    \A f \in Folders : ~HeldBy(locks[f], r, 0)

\* Whatever crashed and whatever leaked, a folder is lockable again and again.
EveryFolderBecomesFree ==
  \A f \in Folders : []<>Free(locks[f], now)

Exhausted(c) == c.pc = "raised" /\ c.tries = MaxTries

\* A failed run stops excluding others by its own closers, before its leases expire,
\* unless every delivery used up its attempts or an orphaned resolver locks again.
FailedRunLetsGo ==
  \A r \in Runs : \A d \in Deliveries :
    sfn[r] = "failed" ~>
      \/ \A f \in Folders : Live(locks[f]) => locks[f].run # r
      \/ Exhausted(closer[r][d])
      \/ resolver[r].pc = "orphan"

-----------------------------------------------------------------------------
(* The lock table implements leases: a lease lasts until the row expires or its     *)
(* run stops working.                                                               *)

Leases == [f \in Folders |->
             IF locks[f] = None THEN None
             ELSE [run |-> locks[f].run, until |-> locks[f].expires]]

Ended == {r \in Runs : sfn[r] # "new" /\ ~Working(r)}

Lease == INSTANCE FolderLease WITH lease <- Leases, ended <- Ended

\* Every step of every Lambda is a step of the lease, or none.
ImplementsLease == Lease!Spec

=============================================================================
