------------------------------- MODULE Intents -------------------------------
(* Two-step apply: a request is checked against the plans of the pull request, *)
(* pins one and gets a token (services/intent/create.py, domain/intent); a      *)
(* confirmation spends the token and starts a mutation                          *)
(* (services/intent/confirm.py), whose success is the checkpoint the next step  *)
(* of the pipeline builds on. A step is one call to DynamoDB, S3 or GitHub; one *)
(* evaluation of the gates reads the registry at one moment. Destroy is the     *)
(* same with the folders in reverse order. Step 0 stands for a request that     *)
(* names all folders instead of a pipeline.                                     *)
EXTENDS Integers, FiniteSets, FiniteSetsExt

CONSTANTS
  Steps,      \* checkpoints of the pipeline; checkpoint i is folder i
  Requests,   \* tf apply commands; each can mint one token, which is named after it
  StepsOf,    \* [Requests -> SUBSET (0..Steps)]: what each may ask for
  Confirms,   \* tf apply confirm commands, each a run of the mutation machine
  Commits,    \* heads of the pull request
  None,
  Ttl,        \* life of a token, in ticks
  MaxNow, MaxPlans,
  MaxEvents   \* bound on pushes, closings and faults together

Folders == 1..Steps

\* A run of a plan: the folders it planned, when it started, and the mutations it saw.
Plan == [good : SUBSET Folders, commit : Commits, created : Nat, epoch : Nat,
         status : {"running", "succeeded", "failed"}, saw : SUBSET Confirms]
\* An intent record; "ready" once its comment is stored.
Intent == [used : BOOLEAN, ready : BOOLEAN, pin : 1..MaxPlans, commit : Commits, expires : Nat]
Checkpoint == [step : 1..Steps, commit : Commits, completed : 1..MaxNow, run : Confirms]
\* A run that creates an intent, and one that confirms it.
RequestRun ==
  [pc : {"idle", "prior", "gates", "post", "store", "undo", "succeeded", "failed"},
   step : 0..Steps, commit : Commits \cup {None}, prior : 1..MaxNow \cup {None},
   minted : BOOLEAN]
ConfirmRun ==
  [pc : {"idle", "gates", "mark", "confirmed", "working", "checkpoint", "ended"},
   token : Requests \cup {None}, commit : Commits \cup {None}, epoch : Nat,
   spent : BOOLEAN, status : {"accepted", "succeeded", "failed"}]

ASSUME IntentsAssumption ==
  /\ Steps \in Nat \ {0}
  /\ StepsOf \in [Requests -> SUBSET (0..Steps)]
  /\ Ttl \in Nat \ {0}
  /\ None \notin Plan /\ None \notin Intent
  /\ None \notin Nat /\ None \notin Commits \cup Requests
  /\ MaxNow \in Nat \ {0} /\ MaxPlans \in Nat /\ MaxEvents \in Nat

VARIABLES
  now,         \* seconds, as created_at, expires_at and completed_at count them
  epoch,       \* milliseconds, as run ids count them: runs start at times of their own
  pr,          \* the pull request
  plans,       \* [1..MaxPlans -> plan run or None]
  pointer,     \* [Folders -> plan run the S3 pointer of the folder names, or None]
  request,     \* [Requests -> run that creates the intent]
  intents,     \* [Requests -> intent record under the token, or None]
  shown,       \* tokens an intent comment has shown: anybody may have copied them
  confirm,     \* [Confirms -> mutation run]
  checkpoints, \* checkpoint rows of succeeded runs
  events       \* pushes, closings and faults so far

vars == <<now, epoch, pr, plans, pointer, request, intents, shown, confirm,
          checkpoints, events>>
tokens == <<request, intents, shown>>
planning == <<plans, pointer>>
mutations == <<confirm, checkpoints>>

NewRequest == [pc |-> "idle", step |-> 0, commit |-> None, prior |-> None, minted |-> FALSE]
NewConfirm == [pc |-> "idle", token |-> None, commit |-> None, epoch |-> 0,
               spent |-> FALSE, status |-> "accepted"]

\* A pipeline intent pins one folder, an ad hoc intent all it names.
StepOf(r) == request[r].step
FoldersOf(r) == IF StepOf(r) = 0 THEN Folders ELSE {StepOf(r)}
TokenOf(c) == confirm[c].token

Init ==
  /\ now = 1 /\ epoch = 1
  /\ pr \in [head : Commits, open : {TRUE}]
  /\ plans = [p \in 1..MaxPlans |-> None]
  /\ pointer = [f \in Folders |-> None]
  /\ request = [r \in Requests |-> NewRequest]
  /\ intents = [r \in Requests |-> None]
  /\ shown = {}
  /\ confirm = [c \in Confirms |-> NewConfirm]
  /\ checkpoints = {}
  /\ events = 0

-----------------------------------------------------------------------------
(* The world: time, pushes, and plan runs as RenderPR and Collect leave them. *)

Tick ==
  /\ now < MaxNow
  /\ now' = now + 1
  /\ UNCHANGED <<epoch, pr, planning, tokens, mutations, events>>

MovePr ==
  /\ pr' \in [head : Commits, open : BOOLEAN] \ {pr}
  /\ events < MaxEvents /\ events' = events + 1
  /\ UNCHANGED <<now, epoch, planning, tokens, mutations>>

Applied(c) == confirm[c].status = "succeeded"

\* "saw" are the mutations that ended before the run started.
StartPlan(p) ==
  /\ plans[p] = None /\ (p > 1 => plans[p - 1] # None)
  /\ pr.open
  /\ plans' = [plans EXCEPT ![p] = [good |-> {}, commit |-> pr.head, created |-> now,
                 epoch |-> epoch, status |-> "running", saw |-> {c \in Confirms : Applied(c)}]]
  /\ epoch' = epoch + 1
  /\ UNCHANGED <<now, pr, pointer, tokens, mutations, events>>

\* publish_execution_pointer: a run that started later is not displaced.
Newer(p, f) == pointer[f] = None \/ plans[pointer[f]].epoch < plans[p].epoch

\* Folders that were planned have a manifest and a pointer; the run failed if it was asked
\* for more. (A run that planned none leaves nothing to find.)
FinishPlan(p) ==
  /\ plans[p] # None /\ plans[p].status = "running"
  /\ \E good \in SUBSET Folders \ {{}}, status \in {"succeeded", "failed"} :
       /\ good = Folders => status = "succeeded"
       /\ plans' = [plans EXCEPT ![p].good = good, ![p].status = status]
       /\ pointer' = [f \in Folders |-> IF f \in good /\ Newer(p, f) THEN p ELSE pointer[f]]
  /\ UNCHANGED <<now, epoch, pr, tokens, mutations, events>>

-----------------------------------------------------------------------------
(* domain/intent/plan_lookup.py                                            *)

\* _folder_plan_sha256: the run recorded the folder as succeeded, with a manifest of this
\* commit and the plan in it.
Evidence(p, f, commit) == plans[p] # None /\ f \in plans[p].good /\ plans[p].commit = commit

FromPointer(f, commit) ==
  IF pointer[f] # None /\ Evidence(pointer[f], f, commit) THEN pointer[f] ELSE None

\* Otherwise the newest succeeded plan run.
FromScan(f, commit) ==
  LET fit == {p \in DOMAIN plans : Evidence(p, f, commit) /\ plans[p].status = "succeeded"}
  IN IF fit = {} THEN None
     ELSE CHOOSE p \in fit : \A q \in fit : plans[q].epoch <= plans[p].epoch

\* A mutation that started after the plan and succeeded makes it stale.
Superseded(p, f) ==
  \E c \in Confirms :
    /\ Applied(c)
    /\ confirm[c].commit = plans[p].commit
    /\ confirm[c].epoch > plans[p].epoch
    /\ f \in FoldersOf(TokenOf(c))

\* find_newest_fresh_plan_run does not look for an older plan behind a stale one.
FreshPlan(f, commit) ==
  LET p == IF FromPointer(f, commit) # None
             THEN FromPointer(f, commit) ELSE FromScan(f, commit)
  IN IF p # None => Superseded(p, f) THEN None ELSE p

\* A mutant: the second of the checkpoint itself counts as after it.
AfterOrWithPrior(p, prior) == prior # None => plans[p].created >= prior

\* _plan_after_prior_checkpoint: the seconds must differ.
AfterPrior(p, prior) == prior # None => plans[p].created > prior

\* A mutant: folders without a plan are passed over.
GatesOfPlanned(fs, commit, prior) ==
  \A f \in fs : FreshPlan(f, commit) # None => AfterPrior(FreshPlan(f, commit), prior)

\* evaluate_intent_gates: every folder has a fresh plan, and several have the same one.
Gates(fs, commit, prior) ==
  /\ \A f \in fs : FreshPlan(f, commit) # None /\ AfterPrior(FreshPlan(f, commit), prior)
  /\ \A f, g \in fs : FreshPlan(f, commit) = FreshPlan(g, commit)

\* folders_for_pipeline_mutation_gate: this checkpoint and all that follow.
GateFolders(r) == IF StepOf(r) = 0 THEN Folders ELSE StepOf(r)..Steps

-----------------------------------------------------------------------------
(* The run that creates an intent: create_handler.                         *)

On(r, pc) == request[r].pc = pc
Goto(r, pc) == request' = [request EXCEPT ![r].pc = pc]

\* A refused request posts a comment and ends its run as failed; what it read is forgotten.
RefuseRequest(r) ==
  request' = [request EXCEPT ![r] =
    [pc |-> "failed", step |-> IF request[r].minted THEN request[r].step ELSE 0,
     commit |-> None, prior |-> None, minted |-> request[r].minted]]

ReadHead(r, step) ==
  /\ On(r, "idle")
  /\ IF pr.open
       THEN request' = [request EXCEPT ![r].pc = IF step > 1 THEN "prior" ELSE "gates",
                                       ![r].step = step, ![r].commit = pr.head]
       ELSE RefuseRequest(r)
  /\ UNCHANGED <<now, epoch, pr, planning, intents, shown, mutations, events>>

\* A mutant: the index does not tell commits apart.
PriorOfAnyCommit(r) == {k \in checkpoints : k.step = StepOf(r) - 1}

\* find_latest_successful_pipeline_checkpoint of the step before, for this commit.
PriorRows(r) == {k \in checkpoints : k.step = StepOf(r) - 1 /\ k.commit = request[r].commit}

FindPrior(r) ==
  /\ On(r, "prior")
  /\ IF PriorRows(r) = {}
       THEN RefuseRequest(r)
       ELSE request' = [request EXCEPT ![r].pc = "gates",
                          ![r].prior = Max({k.completed : k \in PriorRows(r)})]
  /\ UNCHANGED <<now, epoch, pr, planning, intents, shown, mutations, events>>

\* A preliminary gate looks at this and all later folders, the final one at those to be pinned.
Admissible(r) ==
  /\ Gates(GateFolders(r), request[r].commit, None)
  /\ Gates(FoldersOf(r), request[r].commit, request[r].prior)

NewIntent(r, p) == [used |-> FALSE, ready |-> FALSE, pin |-> p,
                    commit |-> request[r].commit, expires |-> now + Ttl]
Put(r) ==
  LET f == Min(FoldersOf(r)) IN
  intents' = [intents EXCEPT ![r] = NewIntent(r, FreshPlan(f, request[r].commit))]
Minted(r, pc) ==
  request' = [request EXCEPT ![r] = [pc |-> pc, step |-> request[r].step, commit |-> None,
                                     prior |-> None, minted |-> TRUE]]

\* The final gate mints the record, and put_intent stores it. Account, configuration and
\* approval may refuse what the plans allow.
PinPlan(r) ==
  /\ On(r, "gates")
  /\ \/ Admissible(r) /\ Put(r) /\ Minted(r, "post")
     \/ RefuseRequest(r) /\ UNCHANGED intents
  /\ UNCHANGED <<now, epoch, pr, planning, shown, mutations, events>>

PostIntent(r) ==
  /\ On(r, "post") /\ Goto(r, "store")
  /\ shown' = shown \cup {r}
  /\ UNCHANGED <<now, epoch, pr, planning, intents, mutations, events>>

\* Storing the comment id makes the token confirmable.
StoreMetadata(r) ==
  /\ On(r, "store") /\ Goto(r, "succeeded")
  /\ intents' = [intents EXCEPT ![r].ready = TRUE]
  /\ UNCHANGED <<now, epoch, pr, planning, shown, mutations, events>>

\* An error of a call, which may have taken effect, or a crash. Only errors of the last two
\* calls are compensated.
CallFails(r) ==
  /\ events < MaxEvents /\ events' = events + 1
  /\ \/ request[r].pc \in {"prior", "post", "store", "undo"}
        /\ RefuseRequest(r) /\ UNCHANGED <<intents, shown>>
     \/ On(r, "gates") /\ Admissible(r)
        /\ Put(r) /\ Minted(r, "failed") /\ UNCHANGED shown
     \/ On(r, "post") /\ Goto(r, "undo") /\ UNCHANGED intents
        /\ shown' \in {shown, shown \cup {r}}
     \/ On(r, "store") /\ (Goto(r, "undo") \/ RefuseRequest(r)) /\ UNCHANGED shown
        /\ intents' \in {intents, [intents EXCEPT ![r].ready = TRUE]}
  /\ UNCHANGED <<now, epoch, pr, planning, mutations>>

\* delete_unused_intent_record: a token that was spent meanwhile stays.
Deletable(r) == intents[r] # None /\ ~intents[r].used

\* _compensate_created_intent: the comment goes, and whether or not that works, the record.
UndoRecord(r) ==
  /\ On(r, "undo") /\ RefuseRequest(r)
  /\ intents' = IF Deletable(r) THEN [intents EXCEPT ![r] = None] ELSE intents
  /\ UNCHANGED <<now, epoch, pr, planning, shown, mutations, events>>

-----------------------------------------------------------------------------
(* The mutation run: confirm_handler, then the pinned folders.             *)

With(c, pc) == confirm[c].pc = pc
Enter(c, pc) == confirm' = [confirm EXCEPT ![c].pc = pc]
Refuse(c) ==
  confirm' = [confirm EXCEPT ![c] =
    [pc |-> "ended", token |-> IF confirm[c].spent THEN TokenOf(c) ELSE None,
     commit |-> None, epoch |-> 0, spent |-> confirm[c].spent, status |-> "failed"]]

\* Somebody types a token: a run starts and reads the head of the pull request.
StartConfirm(c, r) ==
  /\ With(c, "idle") /\ r \in shown
  /\ IF pr.open
       THEN confirm' = [confirm EXCEPT ![c].pc = "gates", ![c].token = r,
                                          ![c].epoch = epoch, ![c].commit = pr.head]
       ELSE Refuse(c)
  /\ epoch' = epoch + 1
  /\ UNCHANGED <<now, pr, planning, tokens, checkpoints, events>>

\* A mutant: the head is not compared.
ConfirmableOnAnyHead(r, commit) ==
  intents[r] # None /\ intents[r].ready /\ ~intents[r].used /\ now < intents[r].expires

\* get_intent and evaluate_confirm_gates.
Confirmable(r, commit) ==
  /\ intents[r] # None
  /\ intents[r].ready
  /\ ~intents[r].used
  /\ now < intents[r].expires
  /\ intents[r].commit = commit

CheckIntent(c) ==
  /\ With(c, "gates")
  /\ IF Confirmable(TokenOf(c), confirm[c].commit) THEN Enter(c, "mark") ELSE Refuse(c)
  /\ UNCHANGED <<now, epoch, pr, planning, tokens, checkpoints, events>>

\* A mutant: the update trusts the check made before it.
SpendableAgain(r) == intents[r] # None /\ intents[r].ready /\ intents[r].expires > now

\* The condition of mark_intent_record_used.
Spendable(r) ==
  intents[r] # None /\ ~intents[r].used /\ intents[r].ready /\ intents[r].expires > now

MarkUsed(c) ==
  LET t == TokenOf(c) IN
  /\ With(c, "mark")
  /\ IF Spendable(t)
       THEN /\ intents' = [intents EXCEPT ![t].used = TRUE]
            /\ confirm' = [confirm EXCEPT ![c].pc = "confirmed", ![c].spent = TRUE]
       ELSE Refuse(c) /\ UNCHANGED intents
  /\ UNCHANGED <<now, epoch, pr, planning, request, shown, checkpoints, events>>

Working(c) == confirm[c].pc = "working"

\* The pinned folders are locked and run; a folder somebody else holds ends the run.
Resolve(c) ==
  /\ With(c, "confirmed")
  /\ IF \E d \in Confirms : Working(d) /\ FoldersOf(TokenOf(c)) \cap FoldersOf(TokenOf(d)) # {}
       THEN Refuse(c) ELSE Enter(c, "working")
  /\ UNCHANGED <<now, epoch, pr, planning, tokens, checkpoints, events>>

\* RenderPR records how the mutation ended ...
Terminal(c, status) ==
  /\ Working(c)
  /\ confirm' = [confirm EXCEPT ![c].status = status,
                   ![c].pc = IF status = "succeeded" /\ StepOf(TokenOf(c)) > 0
                               THEN "checkpoint" ELSE "ended"]
  /\ UNCHANGED <<now, epoch, pr, planning, tokens, checkpoints, events>>

\* ... and then indexes it as the checkpoint of its step.
MarkCheckpoint(c) ==
  /\ With(c, "checkpoint") /\ Enter(c, "ended")
  /\ checkpoints' = checkpoints \cup {[step |-> StepOf(TokenOf(c)), commit |-> confirm[c].commit,
                                       completed |-> now, run |-> c]}
  /\ UNCHANGED <<now, epoch, pr, planning, tokens, events>>

\* An error or a crash; a run that is recorded as succeeded stays so.
ConfirmFails(c) ==
  /\ events < MaxEvents /\ events' = events + 1
  /\ confirm[c].pc \notin {"idle", "ended"}
  /\ \/ With(c, "checkpoint") /\ Enter(c, "ended") /\ UNCHANGED intents
     \/ ~With(c, "checkpoint") /\ Refuse(c) /\ UNCHANGED intents
     \/ With(c, "mark") /\ Spendable(TokenOf(c))  \* only the answer of the update is lost
        /\ intents' = [intents EXCEPT ![TokenOf(c)].used = TRUE]
        /\ confirm' = [confirm EXCEPT ![c].pc = "ended", ![c].spent = TRUE,
                                      ![c].status = "failed"]
  /\ UNCHANGED <<now, epoch, pr, planning, request, shown, checkpoints>>

-----------------------------------------------------------------------------
Next ==
  \/ Tick \/ MovePr
  \/ \E p \in 1..MaxPlans : StartPlan(p) \/ FinishPlan(p)
  \/ \E r \in Requests :
       \/ \E step \in StepsOf[r] : ReadHead(r, step)
       \/ FindPrior(r) \/ PinPlan(r) \/ PostIntent(r)
       \/ StoreMetadata(r) \/ CallFails(r) \/ UndoRecord(r)
  \/ \E c \in Confirms :
       \/ \E r \in Requests : StartConfirm(c, r)
       \/ CheckIntent(c) \/ MarkUsed(c) \/ Resolve(c)
       \/ Terminal(c, "succeeded") \/ Terminal(c, "failed") \/ MarkCheckpoint(c)
       \/ ConfirmFails(c)

Spec == Init /\ [][Next]_vars

-----------------------------------------------------------------------------
(* Properties.                                                             *)

\* Every variable has its type.
TypeOK ==
  /\ now \in 1..MaxNow /\ epoch \in Nat
  /\ pr \in [head : Commits, open : BOOLEAN]
  /\ plans \in [1..MaxPlans -> Plan \cup {None}]
  /\ pointer \in [Folders -> 1..MaxPlans \cup {None}]
  /\ request \in [Requests -> RequestRun]
  /\ intents \in [Requests -> Intent \cup {None}]
  /\ shown \subseteq Requests
  /\ confirm \in [Confirms -> ConfirmRun]
  /\ checkpoints \subseteq Checkpoint
  /\ events \in 0..MaxEvents

\* A mutation that got past confirmation.
Confirmed(c) ==
  confirm[c].pc \in {"confirmed", "working", "checkpoint"} \/ Applied(c)

\* A mutation works only on the plan its token pinned, of the commit that was the head when
\* it was confirmed, and that plan has every folder it touches.
AppliesPinnedPlan ==
  \A c \in Confirms : Confirmed(c) =>
    LET i == intents[TokenOf(c)] IN
    /\ i # None /\ i.used
    /\ plans[i.pin].commit = confirm[c].commit
    /\ FoldersOf(TokenOf(c)) \subseteq plans[i.pin].good

\* A step of a pipeline is applied from a plan that was started after a mutation of the
\* step before it had ended: it has seen its effects.
PlanSawPriorStep ==
  \A c \in Confirms : Confirmed(c) /\ StepOf(TokenOf(c)) > 1 =>
    \E d \in plans[intents[TokenOf(c)].pin].saw :
      /\ StepOf(TokenOf(d)) = StepOf(TokenOf(c)) - 1
      /\ confirm[d].commit = confirm[c].commit

\* The checkpoints of a commit are a prefix of the pipeline, and stand for runs that
\* succeeded.
CheckpointsInOrder ==
  \A k \in checkpoints :
    /\ Applied(k.run)
    /\ k.step > 1 => \E j \in checkpoints : j.step = k.step - 1 /\ j.commit = k.commit

\* Whoever confirms twice, dies half way or loses an answer: the record behind a token, seen
\* through what it admits, is a one-use token.
Token(r) ==
  IF intents[r] # None
    THEN IF intents[r].used THEN "spent" ELSE "open"
    ELSE IF request[r].minted THEN "withdrawn" ELSE "absent"
Uses(r) == Cardinality({c \in Confirms : TokenOf(c) = r /\ confirm[c].spent})
OneUse == INSTANCE OneUseToken WITH
  Tokens <- Requests,
  token <- [r \in Requests |-> Token(r)],
  uses <- [r \in Requests |-> Uses(r)]
ImplementsOneUse == OneUse!Spec

=============================================================================
