------------------------------- MODULE Ingress -------------------------------
(* How a `tf` comment or an API call becomes a run: the webhook Lambda          *)
(* (services/webhook/handler.py) with its audit row, its answers on the pull    *)
(* request and its cleanup, and start_run_from_request                          *)
(* (services/orchestration/start_run.py), which claims an idempotency key,      *)
(* starts the state machine, attaches its ARN and marks the run as running.     *)
(* A step is one call to DynamoDB, GitHub or Step Functions. An invocation may  *)
(* end between any two of them; a delivery may be delivered again, also beside  *)
(* itself. The audit comment is a table of rows here; CommandAudit models how   *)
(* its writers keep it one.                                                     *)
EXTENDS Integers, FiniteSets

CONSTANTS
  Deliveries,   \* GitHub delivery ids, one tf comment on the pull request each
  Command,      \* [Deliveries -> {"read", "mutate", "invalid"}]: what they say
  ApiKeys,      \* idempotency keys of API callers
  Workers,      \* invocations that may run at the same time
  Commits,      \* heads the pull request may have
  None,
  Retention,    \* life of a registry row, in ticks
  MaxNow,       \* bound on the clock
  MaxAttempts,  \* bound on the invocations
  MaxMoves,     \* bound on the changes of the pull request
  MaxFaults     \* bound on the invocations that end early

Keys == Deliveries \cup ApiKeys
Lane(k) == IF k \in Deliveries THEN Command[k] ELSE "read"

\* A run id is the millisecond of its minting and a hash of repository and action.
RunIds == (0..MaxNow) \X {"read", "mutate"}

Statuses == {"accepted", "running", "succeeded", "failed"}
Ranks == [accepted |-> 0, running |-> 1, succeeded |-> 2, failed |-> 3]

IdemRow == [run : RunIds, ttl : Nat, fingerprint : Commits]
RunRow == [key : Keys, commit : Commits, arn : RunIds \cup {None}, status : Statuses,
           created : 0..MaxNow, ttl : Nat]
Execution == [key : Keys, commit : Commits]

\* The calls an invocation makes, in the webhook and in start_run_from_request.
WebhookCalls ==
  {"pin", "tidy", "drop_own_help", "record_closed", "record_invalid", "record_accepted",
   "recheck", "deny", "find_ignored", "post_ignored", "post_help", "drop_help",
   "erase_closed", "erase_invalid", "erase_accepted"}
RunCalls == {"resume", "start", "attach", "mark", "verify"}
StartCalls == {"enter", "lookup", "claim", "reread"} \cup RunCalls

Invocation ==
  [pc : {"idle", "answered"} \cup WebhookCalls \cup StartCalls,
   key : Keys \cup {None}, commit : Commits \cup {None}, seen : BOOLEAN,
   created : 0..MaxNow, asof : 0..MaxNow, run : RunIds \cup {None},
   answer : {"not open", "invalid", "conflict", "accepted", "failed", None}]

ASSUME IngressAssumption ==
  /\ Command \in [Deliveries -> {"read", "mutate", "invalid"}]
  /\ Deliveries \cap ApiKeys = {}
  /\ Retention \in Nat \ {0}
  /\ None \notin Keys \cup Commits /\ None \notin RunIds
  /\ None \notin IdemRow /\ None \notin RunRow /\ None \notin Execution
  /\ None # "accepted"
  /\ MaxNow \in Nat /\ MaxAttempts \in Nat /\ MaxMoves \in Nat /\ MaxFaults \in Nat

VARIABLES
  now,       \* the clock the run ids and the ttls are made of
  pr,        \* the pull request: its head, whether it is open; 403 and 404 count as closed
  audit,     \* [Deliveries -> row status of the delivery, or None]
  comments,  \* the commands still on the pull request
  help,      \* deliveries with a transient help comment
  ignored,   \* deliveries with an "ignored" comment
  idem,      \* [Keys -> idempotency row or None]
  runs,      \* [RunIds -> run row or None]
  execs,     \* [RunIds -> execution of that name or None]
  worker,    \* [Workers -> invocation]
  attempts, moves, faults

vars == <<now, pr, audit, comments, help, ignored, idem, runs, execs, worker,
          attempts, moves, faults>>
github == <<pr, audit, comments, help, ignored>>
registry == <<idem, runs, execs>>
bounds == <<attempts, moves, faults>>

Idle == [pc |-> "idle", key |-> None, commit |-> None, seen |-> FALSE,
         created |-> 0, asof |-> 0, run |-> None, answer |-> None]

Init ==
  /\ now = 0
  /\ pr \in [head : Commits, open : {TRUE}]
  /\ audit = [d \in Deliveries |-> None]
  /\ comments = Deliveries
  /\ help = {} /\ ignored = {}
  /\ idem = [k \in Keys |-> None]
  /\ runs = [r \in RunIds |-> None]
  /\ execs = [r \in RunIds |-> None]
  /\ worker = [w \in Workers |-> Idle]
  /\ attempts = 0
  /\ moves = 0 /\ faults = 0

-----------------------------------------------------------------------------
(* The world around the Lambdas.                                           *)

Tick ==
  /\ now < MaxNow
  /\ now' = now + 1
  /\ UNCHANGED <<github, registry, worker, bounds>>

\* The pull request is pushed to, closed, reopened or not readable for a while.
MovePr ==
  /\ moves < MaxMoves
  /\ pr' \in [head : Commits, open : BOOLEAN] \ {pr}
  /\ moves' = moves + 1
  /\ UNCHANGED <<now, audit, comments, help, ignored, registry, worker, attempts, faults>>

\* DynamoDB deletes expired rows when it likes.
ReapRow ==
  /\ \/ \E k \in Keys : /\ idem[k] # None /\ idem[k].ttl <= now
                        /\ idem' = [idem EXCEPT ![k] = None]
                        /\ UNCHANGED runs
     \/ \E r \in RunIds : /\ runs[r] # None /\ runs[r].ttl <= now
                          /\ runs' = [runs EXCEPT ![r] = None]
                          /\ UNCHANGED idem
  /\ UNCHANGED <<now, github, execs, worker, bounds>>

\* update_run_status: the row must exist, be short of a terminal status and not move
\* backwards, or say the same already.
MayBecome(row, status) ==
  /\ row # None
  /\ \/ Ranks[row.status] < 2 /\ Ranks[status] >= Ranks[row.status]
     \/ row.status = status

\* The execution reaches its end and records it, by RenderPR or by the finalizer.
ExecutionEnds(r) ==
  \E status \in {"succeeded", "failed"} :
    /\ execs[r] # None
    /\ MayBecome(runs[r], status)
    /\ runs[r].status # status
    /\ runs' = [runs EXCEPT ![r].status = status]
    /\ UNCHANGED <<now, github, idem, execs, worker, bounds>>

-----------------------------------------------------------------------------
(* The webhook Lambda.                                                     *)

At(w, pc) == worker[w].pc = pc
Go(w, pc) == worker' = [worker EXCEPT ![w].pc = pc]
Answer(w, a) ==
  worker' = [worker EXCEPT ![w] = [Idle EXCEPT !.pc = "answered", !.answer = a, !.run = worker[w].run]]
DeliveryOf(w) == worker[w].key

\* A delivery with a valid signature for this repository, from somebody with write access.
Receive(w, d) ==
  /\ At(w, "idle")
  /\ attempts < MaxAttempts
  /\ attempts' = attempts + 1
  /\ worker' = [worker EXCEPT ![w] = [Idle EXCEPT !.pc = "pin", !.key = d]]
  /\ UNCHANGED <<now, github, registry, moves, faults>>

\* The head is pinned here and never read again.
PinHead(w) ==
  /\ At(w, "pin")
  /\ worker' = [worker EXCEPT ![w].pc = "tidy",
                              ![w].commit = pr.head, ![w].seen = pr.open]
  /\ UNCHANGED <<now, github, registry, bounds>>

\* Help comments older than ten seconds are swept first (their age is a choice here);
\* then the command is refused, misunderstood or accepted.
SweepHelp(w) ==
  /\ At(w, "tidy")
  /\ \E old \in SUBSET help : help' = help \ old
  /\ worker' = [worker EXCEPT ![w].seen = FALSE, ![w].pc =
       CASE ~worker[w].seen -> "record_closed"
         [] worker[w].seen /\ Command[DeliveryOf(w)] = "invalid" -> "drop_own_help"
         [] OTHER -> "record_accepted"]
  /\ UNCHANGED <<now, pr, audit, comments, ignored, registry, bounds>>

\* record_command_audit leaves the row of a redelivered command as it is.
RecordRow(d, status) == [audit EXCEPT ![d] = IF @ = None THEN status ELSE @]

\* update_command_audit_status changes the row, or writes it if it is missing.
UpdateRow(d, status) == [audit EXCEPT ![d] = status]

Record(w) ==
  /\ \/ At(w, "record_closed") /\ Go(w, "find_ignored")
        /\ audit' = RecordRow(DeliveryOf(w), "not supported")
     \/ At(w, "record_invalid") /\ Go(w, "post_help")
        /\ audit' = RecordRow(DeliveryOf(w), "not supported")
     \/ At(w, "record_accepted") /\ Go(w, "recheck")
        /\ audit' = RecordRow(DeliveryOf(w), "accepted")
     \/ At(w, "deny") /\ Go(w, "find_ignored")
        /\ audit' = UpdateRow(DeliveryOf(w), "not supported")
  /\ UNCHANGED <<now, pr, comments, help, ignored, registry, bounds>>

\* The "ignored" comment of an earlier attempt is reused, found by its delivery marker.
FindIgnored(w) ==
  /\ At(w, "find_ignored")
  /\ Go(w, IF DeliveryOf(w) \in ignored THEN "erase_closed" ELSE "post_ignored")
  /\ UNCHANGED <<now, github, registry, bounds>>

PostIgnored(w) ==
  /\ At(w, "post_ignored") /\ Go(w, "erase_closed")
  /\ ignored' = ignored \cup {DeliveryOf(w)}
  /\ UNCHANGED <<now, pr, audit, comments, help, registry, bounds>>

\* _handle_unsupported_tf_command: its own help of an earlier attempt goes first.
Help(w) ==
  /\ \/ At(w, "drop_own_help") /\ Go(w, "record_invalid")
        /\ help' = help \ {DeliveryOf(w)}
     \/ At(w, "post_help") /\ Go(w, "drop_help")
        /\ help' = help \cup {DeliveryOf(w)}
     \/ At(w, "drop_help") /\ Go(w, "erase_invalid")
        /\ help' = help \ {DeliveryOf(w)}
  /\ UNCHANGED <<now, pr, audit, comments, ignored, registry, bounds>>

\* Deleting the command once something stands in for it; a mutation keeps its command
\* until the terminal comment of its run.
EraseCommand(w) ==
  /\ \/ At(w, "erase_closed") /\ Answer(w, "not open")
     \/ At(w, "erase_invalid") /\ Answer(w, "invalid")
     \/ At(w, "erase_accepted") /\ Go(w, "enter")
  /\ comments' = comments \ {DeliveryOf(w)}
  /\ UNCHANGED <<now, pr, audit, help, ignored, registry, bounds>>

\* The pull request is read once more after the row exists.
Recheck(w) ==
  /\ At(w, "recheck")
  /\ Go(w, CASE ~pr.open -> "deny"
             [] pr.open /\ Lane(DeliveryOf(w)) = "read" -> "erase_accepted"
             [] OTHER -> "enter")
  /\ UNCHANGED <<now, github, registry, bounds>>

-----------------------------------------------------------------------------
(* start_run_from_request, for both ingresses.                             *)

\* POST /runs: an authorized caller names the commit itself.
Call(w, k) ==
  /\ At(w, "idle")
  /\ attempts < MaxAttempts
  /\ attempts' = attempts + 1
  /\ \E c \in Commits :
       worker' = [worker EXCEPT ![w] = [Idle EXCEPT !.pc = "enter", !.key = k, !.commit = c]]
  /\ UNCHANGED <<now, github, registry, moves, faults>>

Enter(w) ==
  /\ At(w, "enter")
  /\ worker' = [worker EXCEPT ![w].pc = "lookup", ![w].created = now]
  /\ UNCHANGED <<now, github, registry, bounds>>

\* The fingerprint covers the pinned commit; the command of a key never changes.
Fingerprint(w) == worker[w].commit
LiveClaim(k) == idem[k] # None /\ idem[k].ttl > now

\* A mutant: the sort key of the idempotency row is taken for the run id.
ObtainByKey(w, r) ==
  worker' = [worker EXCEPT ![w].pc = "resume", ![w].run = worker[w].key]

\* The claim, new or found, is what this invocation goes on with.
Obtain(w, r) ==
  worker' = [worker EXCEPT ![w].pc = "resume", ![w].run = r, ![w].created = 0, ![w].asof = 0]

\* A mutant: the fingerprint is not compared.
ReuseAny(w) == Obtain(w, idem[worker[w].key].run)

\* An existing claim is resumed, or refused as a conflict if it was for another request.
Reuse(w) ==
  IF idem[worker[w].key].fingerprint = Fingerprint(w)
    THEN Obtain(w, idem[worker[w].key].run)
    ELSE Answer(w, "conflict")

Lookup(w) ==
  /\ At(w, "lookup")
  /\ IF LiveClaim(worker[w].key)
       THEN Reuse(w)
       ELSE worker' = [worker EXCEPT ![w].pc = "claim", ![w].asof = now]
  /\ UNCHANGED <<now, github, registry, bounds>>

\* A mutant: the idempotency row is put without a condition.
ClaimableByRun(w, r) == runs[r] = None

\* The transaction puts both rows or none: the key must be free or expired by the clock
\* read before it, the run id must be new.
Claimable(w, r) ==
  /\ \/ idem[worker[w].key] = None
     \/ idem[worker[w].key].ttl <= worker[w].asof
  /\ runs[r] = None

Claim(w) ==
  LET k == worker[w].key
      r == <<worker[w].created, Lane(k)>>
      ttl == worker[w].created + Retention
  IN /\ At(w, "claim")
     /\ IF Claimable(w, r)
          THEN /\ idem' = [idem EXCEPT ![k] = [run |-> r, ttl |-> ttl,
                                               fingerprint |-> Fingerprint(w)]]
               /\ runs' = [runs EXCEPT ![r] = [key |-> k, commit |-> worker[w].commit,
                             arn |-> None, status |-> "accepted",
                             created |-> worker[w].created, ttl |-> ttl]]
               /\ Obtain(w, r)
          ELSE Go(w, "reread") /\ UNCHANGED <<idem, runs>>
     /\ UNCHANGED <<now, github, execs, bounds>>

\* A cancelled transaction lost a race for the key, or met a run id that is taken.
Reread(w) ==
  /\ At(w, "reread")
  /\ IF LiveClaim(worker[w].key) THEN Reuse(w) ELSE Answer(w, "failed")
  /\ UNCHANGED <<now, github, registry, bounds>>

\* get_run hides expired rows.
Run(r) == IF runs[r] # None /\ runs[r].ttl > now THEN runs[r] ELSE None

\* A mutant: a claimed run counts as a started one.
ResumeClaimed(w) ==
  /\ At(w, "resume")
  /\ IF Run(worker[w].run) # None THEN Answer(w, "accepted") ELSE Go(w, "start")
  /\ UNCHANGED <<now, github, registry, bounds>>

Resume(w) ==
  /\ At(w, "resume")
  /\ IF Run(worker[w].run) # None /\ Run(worker[w].run).arn # None
       THEN Answer(w, "accepted") ELSE Go(w, "start")
  /\ UNCHANGED <<now, github, registry, bounds>>

\* Step Functions keeps names unique: an execution that exists is not started again, and
\* its ARN follows from its name.
StartExecution(w) ==
  /\ At(w, "start") /\ Go(w, "attach")
  /\ execs' = [execs EXCEPT ![worker[w].run] =
                 IF @ = None THEN [key |-> worker[w].key, commit |-> worker[w].commit] ELSE @]
  /\ UNCHANGED <<now, github, idem, runs, bounds>>

Arn(r) == r

\* The first ARN stays; a row that has one, or is gone, is left as it is.
AttachArn(w) ==
  LET r == worker[w].run IN
  /\ At(w, "attach") /\ Go(w, "mark")
  /\ runs' = IF runs[r] # None /\ runs[r].arn = None
               THEN [runs EXCEPT ![r].arn = Arn(r)] ELSE runs
  /\ UNCHANGED <<now, github, idem, execs, bounds>>

MarkRunning(w) ==
  LET r == worker[w].run IN
  /\ At(w, "mark")
  /\ IF MayBecome(runs[r], "running")
       THEN runs' = [runs EXCEPT ![r].status = "running"] /\ Answer(w, "accepted")
       ELSE Go(w, "verify") /\ UNCHANGED runs
  /\ UNCHANGED <<now, github, idem, execs, bounds>>

\* A rejected transition is fine if the execution was faster than its starter.
VerifyEnded(w) ==
  LET row == Run(worker[w].run) IN
  /\ At(w, "verify")
  /\ Answer(w, IF /\ row # None
                  /\ row.arn = Arn(worker[w].run)
                  /\ Ranks[row.status] >= Ranks["running"]
                 THEN "accepted" ELSE "failed")
  /\ UNCHANGED <<now, github, registry, bounds>>

-----------------------------------------------------------------------------
\* An exception, a timeout or a crash ends the invocation before or after a call.
EndEarly(w) ==
  /\ worker[w].pc \notin {"idle", "answered"}
  /\ faults < MaxFaults
  /\ faults' = faults + 1
  /\ Answer(w, "failed")
  /\ UNCHANGED <<now, github, registry, attempts, moves>>

Return(w) ==
  /\ At(w, "answered")
  /\ worker' = [worker EXCEPT ![w] = Idle]
  /\ UNCHANGED <<now, github, registry, bounds>>

Step(w) ==
  \/ PinHead(w) \/ SweepHelp(w) \/ Record(w) \/ FindIgnored(w) \/ PostIgnored(w)
  \/ Help(w) \/ EraseCommand(w) \/ Recheck(w) \/ Enter(w) \/ Lookup(w) \/ Claim(w)
  \/ Reread(w) \/ Resume(w) \/ StartExecution(w) \/ AttachArn(w) \/ MarkRunning(w)
  \/ VerifyEnded(w) \/ Return(w)

Next ==
  \/ Tick \/ MovePr \/ ReapRow
  \/ \E r \in RunIds : ExecutionEnds(r)
  \/ \E w \in Workers :
       \/ Step(w)
       \/ EndEarly(w)
       \/ \E d \in Deliveries : Receive(w, d)
       \/ \E k \in ApiKeys : Call(w, k)

Spec == Init /\ [][Next]_vars

-----------------------------------------------------------------------------
(* Properties.                                                             *)

\* Every variable has its type.
TypeOK ==
  /\ now \in 0..MaxNow
  /\ pr \in [head : Commits, open : BOOLEAN]
  /\ audit \in [Deliveries -> {"accepted", "not supported", None}]
  /\ comments \subseteq Deliveries /\ help \subseteq Deliveries
  /\ ignored \subseteq Deliveries
  /\ idem \in [Keys -> IdemRow \cup {None}]
  /\ runs \in [RunIds -> RunRow \cup {None}]
  /\ execs \in [RunIds -> Execution \cup {None}]
  /\ worker \in [Workers -> Invocation]
  /\ attempts \in 0..MaxAttempts /\ moves \in 0..MaxMoves /\ faults \in 0..MaxFaults

\* However often a delivery or an API call is repeated, beside itself or after a crash,
\* its key has one run as long as the registry remembers it (claim_idempotent_run).
OneLiveRunPerKey ==
  \A r, q \in RunIds :
    Run(r) # None /\ Run(q) # None /\ Run(r).key = Run(q).key => r = q

\* An execution works on the request its run was claimed for: a second invocation that
\* resumes a claim does not start it with the head the pull request has by then.
ExecutionMatchesClaim ==
  \A r \in RunIds :
    Run(r) # None /\ execs[r] # None =>
      execs[r].key = Run(r).key /\ execs[r].commit = Run(r).commit

\* Who is told "accepted" has a run that was started, also if the invocation that claimed
\* it died before it could start it: the registry leads from the run to the execution.
AcknowledgedRunStarts ==
  \A w \in Workers :
    worker[w].answer = "accepted" =>
      /\ execs[worker[w].run] # None
      /\ Run(worker[w].run) # None => Run(worker[w].run).arn = Arn(worker[w].run)

=============================================================================
