---------------------------- MODULE IntentsProofs ----------------------------
(***************************************************************************)
(* Theorems about Intents, for any steps, requests, confirmations, commits *)
(* and life of a token.                                                    *)
(*                                                                         *)
(* A token keeps what was true when its gates were evaluated: the plan it  *)
(* pinned has ended and never changes, the mutations that plan saw stay    *)
(* applied, and the checkpoint of the step before stays (IntentInv).  A    *)
(* mutation past its confirmation has spent its token (ConfirmInv).        *)
(***************************************************************************)
EXTENDS Intents, WellFoundedInduction, FiniteSetTheorems, TLAPS

PlanRows == 1..MaxPlans

\* A checkpoint of step s of a commit.
Before(k, s, commit) == k.step = s - 1 /\ k.commit = commit

\* A plan that runs has no folder to show; one that was started after a checkpoint was marked
\* saw its mutation.
PlanInv(p) ==
  plans[p] # None =>
    /\ plans[p].status = "running" => plans[p].good = {}
    /\ plans[p].created <= now /\ plans[p].epoch <= epoch
    /\ \A c \in plans[p].saw : Applied(c)
    /\ \A k \in checkpoints : k.completed < plans[p].created => k.run \in plans[p].saw

\* A request that has not minted its token left no trace; at its gates it holds the checkpoint
\* it builds on.
RequestInv(r) ==
  /\ request[r].pc \in {"idle", "prior", "gates"} => ~request[r].minted
  /\ request[r].pc \in {"prior", "gates"} => request[r].commit \in Commits
  /\ request[r].pc \in {"post", "store", "undo", "succeeded"} => request[r].minted
  /\ request[r].pc \in {"post", "store"} => intents[r] # None
  /\ ~request[r].minted => intents[r] = None /\ r \notin shown
  /\ request[r].pc = "prior" => StepOf(r) > 1
  /\ request[r].pc = "gates" /\ StepOf(r) > 1 =>
       \E k \in checkpoints :
         Before(k, StepOf(r), request[r].commit) /\ request[r].prior = k.completed

\* What the gates saw is still so.
IntentInv(r) ==
  intents[r] # None =>
    LET i == intents[r] IN
    /\ plans[i.pin] # None /\ plans[i.pin].status # "running"
    /\ plans[i.pin].commit = i.commit
    /\ FoldersOf(r) \subseteq plans[i.pin].good
    /\ StepOf(r) > 1 =>
         /\ \E d \in plans[i.pin].saw :
              StepOf(TokenOf(d)) = StepOf(r) - 1 /\ confirm[d].commit = i.commit
         /\ \E k \in checkpoints : Before(k, StepOf(r), i.commit)

\* The token of a mutation that spent it.
Spent(c) ==
  /\ TokenOf(c) \in Requests
  /\ intents[TokenOf(c)] # None
  /\ intents[TokenOf(c)].used

ConfirmInv(c) ==
  /\ confirm[c].spent => Spent(c)
  /\ confirm[c].pc = "idle" => ~confirm[c].spent
  /\ confirm[c].pc \in {"gates", "mark"} =>
       ~confirm[c].spent /\ TokenOf(c) \in shown /\ confirm[c].commit \in Commits
  /\ confirm[c].pc = "mark" /\ intents[TokenOf(c)] # None =>
       intents[TokenOf(c)].commit = confirm[c].commit
  /\ Confirmed(c) => confirm[c].spent /\ confirm[c].commit = intents[TokenOf(c)].commit
  /\ Applied(c) => confirm[c].pc \in {"checkpoint", "ended"}
  /\ confirm[c].pc = "checkpoint" => Applied(c) /\ StepOf(TokenOf(c)) > 0

CheckpointInv(k) ==
  /\ Applied(k.run)
  /\ k.completed <= now
  /\ StepOf(TokenOf(k.run)) = k.step
  /\ confirm[k.run].commit = k.commit
  /\ k.step > 1 => \E j \in checkpoints : Before(j, k.step, k.commit)

IInv ==
  /\ TypeOK
  /\ \A p \in PlanRows : PlanInv(p)
  /\ \A r \in Requests : RequestInv(r) /\ IntentInv(r)
  /\ \A c \in Confirms : ConfirmInv(c)
  /\ \A k \in checkpoints : CheckpointInv(k)

-----------------------------------------------------------------------------
(* What no step takes back.                                                *)

MutationsKept ==
  \A c \in Confirms : Applied(c) =>
    Applied(c)' /\ TokenOf(c)' = TokenOf(c) /\ confirm'[c].commit = confirm[c].commit

RequestsKept ==
  /\ \A r \in Requests :
       request[r].minted => request'[r].minted /\ request'[r].step = request[r].step
  /\ shown \subseteq shown'

PlansKept ==
  \A p \in PlanRows : plans[p] # None =>
    /\ plans'[p] # None
    /\ plans'[p].saw = plans[p].saw /\ plans'[p].created = plans[p].created
    /\ plans[p].status # "running" => plans'[p] = plans[p]

IntentsKept ==
  \A r \in Requests :
    /\ intents[r] # None /\ intents[r].used => intents'[r] # None /\ intents'[r].used
    /\ intents[r] # None /\ intents'[r] # None =>
         intents'[r].pin = intents[r].pin /\ intents'[r].commit = intents[r].commit
    /\ intents[r] = None /\ request[r].minted => intents'[r] = None

CheckpointsKept ==
  /\ checkpoints \subseteq checkpoints'
  /\ \A k \in checkpoints' \ checkpoints : k.completed = now

Kept ==
  /\ now <= now' /\ epoch <= epoch'
  /\ MutationsKept /\ RequestsKept /\ PlansKept /\ IntentsKept /\ CheckpointsKept

-----------------------------------------------------------------------------
(* Operators.                                                              *)

\* A bounded set of numbers has a maximum.
LEMMA MaxIsMember ==
  ASSUME NEW n \in Nat, NEW S \in SUBSET (0..n), S # {}
  PROVE  Max(S) \in S
  <1> DEFINE T == {n - x : x \in S}
  <1>1. T \subseteq Nat /\ T # {}
    <2>1. \A x \in S : x \in Int /\ n - x \in Nat
      OBVIOUS
    <2> QED
      BY <2>1
  <1>2. PICK k \in T : \A l \in T : ~ (<<l, k>> \in OpToRel(<, Nat))
    BY <1>1, WFMin, NatLessThanWellFounded, Zenon
  <1>3. \A l \in T : ~ (l < k)
    BY <1>1, <1>2, Zenon DEF OpToRel
  <1>4. PICK x \in S : k = n - x
    OBVIOUS
  <1>5. \A y \in S : x >= y
    <2>1. ASSUME NEW y \in S PROVE x >= y
      <3>1. ~ (n - y < n - x)
        BY <1>3, <1>4
      <3> QED
        BY <3>1
    <2> QED
      BY <2>1
  <1> QED
    BY <1>5 DEF Max

LEMMA MinOfOne ==
  ASSUME NEW x \in Nat
  PROVE  Min({x}) = x
  BY DEF Min

\* What the lookup of a plan returns is a plan with the folder, of the commit.
LEMMA FreshPlanIsEvidence ==
  ASSUME TypeOK, \A p \in PlanRows : PlanInv(p),
         NEW f \in Folders, NEW commit, FreshPlan(f, commit) # None
  PROVE  FreshPlan(f, commit) \in PlanRows /\ Evidence(FreshPlan(f, commit), f, commit)
  <1> DEFINE fit == {p \in DOMAIN plans : Evidence(p, f, commit) /\ plans[p].status = "succeeded"}
  <1>1. fit \subseteq PlanRows
    BY DEF TypeOK, PlanRows
  <1>2. ASSUME fit # {} PROVE FromScan(f, commit) \in fit
    <2> DEFINE ages == {epoch - plans[p].epoch : p \in fit}
    <2>1. \A p \in fit : plans[p] \in Plan /\ plans[p].epoch <= epoch
      BY <1>1 DEF TypeOK, PlanInv, PlanRows, Evidence
    <2>2. ages \subseteq Nat /\ ages # {}
      BY <1>2, <2>1 DEF TypeOK, Plan
    <2>3. PICK k \in ages : \A l \in ages : ~ (<<l, k>> \in OpToRel(<, Nat))
      BY <2>2, WFMin, NatLessThanWellFounded, Zenon
    <2>4. \A l \in ages : ~ (l < k)
      BY <2>2, <2>3, Zenon DEF OpToRel
    <2>5. PICK p \in fit : k = epoch - plans[p].epoch
      OBVIOUS
    <2>6. ASSUME NEW q \in fit PROVE plans[q].epoch <= plans[p].epoch
      <3>1. ~ (epoch - plans[q].epoch < epoch - plans[p].epoch)
        BY <2>4, <2>5
      <3> QED
        BY <2>1, <3>1 DEF TypeOK, Plan
    <2> QED
      BY <1>2, <2>6 DEF FromScan
  <1>3. FromScan(f, commit) # None => FromScan(f, commit) \in fit
    BY <1>2 DEF FromScan
  <1>4. FromPointer(f, commit) # None =>
          FromPointer(f, commit) \in PlanRows /\ Evidence(FromPointer(f, commit), f, commit)
    BY DEF FromPointer, TypeOK, PlanRows
  <1> QED
    BY <1>1, <1>3, <1>4 DEF FreshPlan

-----------------------------------------------------------------------------
(* Types.                                                                  *)

LEMMA InitTypes == Init => TypeOK
  <1> SUFFICES ASSUME Init PROVE TypeOK
    OBVIOUS
  <1>1. request \in [Requests -> RequestRun]
    BY IntentsAssumption DEF Init, NewRequest, RequestRun
  <1>2. confirm \in [Confirms -> ConfirmRun]
    BY DEF Init, NewConfirm, ConfirmRun
  <1>3. pr \in [head : Commits, open : BOOLEAN]
    BY DEF Init
  <1>4. now \in 1..MaxNow /\ epoch \in Nat /\ events \in 0..MaxEvents
    BY IntentsAssumption DEF Init
  <1>5. /\ plans \in [1..MaxPlans -> Plan \cup {None}]
        /\ pointer \in [Folders -> 1..MaxPlans \cup {None}]
        /\ intents \in [Requests -> Intent \cup {None}]
        /\ shown \subseteq Requests /\ checkpoints \subseteq Checkpoint
    BY DEF Init
  <1> QED
    BY <1>1, <1>2, <1>3, <1>4, <1>5 DEF TypeOK

\* One request, or one confirmation, takes another value.
LEMMA SetRequest ==
  ASSUME TypeOK, NEW r \in Requests, NEW q \in RequestRun, request' = [request EXCEPT ![r] = q]
  PROVE  /\ request' \in [Requests -> RequestRun] /\ request'[r] = q
         /\ \A s \in Requests \ {r} : request'[s] = request[s]
  BY DEF TypeOK

LEMMA SetConfirm ==
  ASSUME TypeOK, NEW c \in Confirms, NEW m \in ConfirmRun, confirm' = [confirm EXCEPT ![c] = m]
  PROVE  /\ confirm' \in [Confirms -> ConfirmRun] /\ confirm'[c] = m
         /\ \A d \in Confirms \ {c} : confirm'[d] = confirm[d]
  BY DEF TypeOK

\* The values the actions write.
LEMMA RefusedRequest ==
  ASSUME TypeOK, NEW r \in Requests, RefuseRequest(r)
  PROVE  /\ request' \in [Requests -> RequestRun]
         /\ \A s \in Requests \ {r} : request'[s] = request[s]
         /\ request'[r].pc = "failed"
         /\ request'[r].minted = request[r].minted
         /\ request[r].minted => request'[r].step = request[r].step
  <1> DEFINE q == [pc |-> "failed", step |-> IF request[r].minted THEN request[r].step ELSE 0,
                   commit |-> None, prior |-> None, minted |-> request[r].minted]
  <1>1. request[r] \in RequestRun
    BY DEF TypeOK
  <1>2. q \in RequestRun
    <2>1. request[r].step \in 0..Steps /\ request[r].minted \in BOOLEAN /\ 0 \in 0..Steps
      BY <1>1, IntentsAssumption DEF RequestRun
    <2> QED
      BY <2>1 DEF RequestRun
  <1>3. request' = [request EXCEPT ![r] = q]
    BY DEF RefuseRequest
  <1> HIDE DEF q
  <1>4. /\ request' \in [Requests -> RequestRun] /\ request'[r] = q
        /\ \A s \in Requests \ {r} : request'[s] = request[s]
    BY <1>2, <1>3, SetRequest
  <1>5. q.pc = "failed" /\ q.minted = request[r].minted
    BY Zenon DEF q
  <1>6. q.step = IF request[r].minted THEN request[r].step ELSE 0
    BY Zenon DEF q
  <1>7. request'[r].pc = "failed" /\ request'[r].minted = request[r].minted
    BY <1>4, <1>5, Zenon
  <1>8. request[r].minted => request'[r].step = request[r].step
    BY <1>4, <1>6, Zenon
  <1> QED
    BY <1>4, <1>7, <1>8

LEMMA RefusedConfirm ==
  ASSUME TypeOK, NEW c \in Confirms, Refuse(c)
  PROVE  /\ confirm' \in [Confirms -> ConfirmRun]
         /\ \A d \in Confirms \ {c} : confirm'[d] = confirm[d]
         /\ confirm'[c].pc = "ended" /\ confirm'[c].status = "failed"
         /\ confirm'[c].spent = confirm[c].spent
         /\ confirm'[c].token = IF confirm[c].spent THEN confirm[c].token ELSE None
  <1> DEFINE m == [pc |-> "ended", token |-> IF confirm[c].spent THEN TokenOf(c) ELSE None,
                   commit |-> None, epoch |-> 0, spent |-> confirm[c].spent, status |-> "failed"]
  <1>1. confirm[c] \in ConfirmRun
    BY DEF TypeOK
  <1>2. m \in ConfirmRun
    <2>1. confirm[c].token \in Requests \cup {None} /\ confirm[c].spent \in BOOLEAN
      BY <1>1 DEF ConfirmRun
    <2> QED
      BY <2>1 DEF ConfirmRun, TokenOf
  <1>3. confirm' = [confirm EXCEPT ![c] = m]
    BY DEF Refuse
  <1> HIDE DEF m
  <1>4. /\ confirm' \in [Confirms -> ConfirmRun] /\ confirm'[c] = m
        /\ \A d \in Confirms \ {c} : confirm'[d] = confirm[d]
    BY <1>2, <1>3, SetConfirm
  <1>5. m.pc = "ended" /\ m.status = "failed" /\ m.spent = confirm[c].spent
    BY Zenon DEF m
  <1>6. m.token = IF confirm[c].spent THEN confirm[c].token ELSE None
    BY Zenon DEF m, TokenOf
  <1>7. confirm'[c].pc = "ended" /\ confirm'[c].status = "failed" /\ confirm'[c].spent = confirm[c].spent
    BY <1>4, <1>5, Zenon
  <1>8. confirm'[c].token = IF confirm[c].spent THEN confirm[c].token ELSE None
    BY <1>4, <1>6, Zenon
  <1> QED
    BY <1>4, <1>7, <1>8

-----------------------------------------------------------------------------
(* What a step leaves alone keeps its invariant.                           *)

\* The token of an applied mutation names a request that minted it.
LEMMA AppliedToken ==
  ASSUME IInv, NEW c \in Confirms, Confirmed(c)
  PROVE  /\ Spent(c) /\ request[TokenOf(c)].minted
         /\ confirm[c].commit = intents[TokenOf(c)].commit
  <1>1. Spent(c) /\ confirm[c].commit = intents[TokenOf(c)].commit
    BY DEF IInv, ConfirmInv
  <1> QED
    BY <1>1 DEF Spent, IInv, RequestInv

LEMMA AppliedStep ==
  ASSUME IInv, Kept, NEW c \in Confirms, Applied(c)
  PROVE  /\ Applied(c)' /\ TokenOf(c)' = TokenOf(c) /\ TokenOf(c) \in Requests
         /\ StepOf(TokenOf(c))' = StepOf(TokenOf(c))
         /\ confirm'[c].commit = confirm[c].commit
  <1>1. TokenOf(c) \in Requests /\ request[TokenOf(c)].minted
    BY AppliedToken DEF Confirmed, Spent
  <1> QED
    BY <1>1 DEF Kept, MutationsKept, RequestsKept, StepOf

LEMMA PlanFrame ==
  ASSUME IInv, TypeOK', Kept, NEW p \in PlanRows, plans'[p] = plans[p]
  PROVE  PlanInv(p)'
  <1> SUFFICES ASSUME plans[p] # None PROVE PlanInv(p)'
    BY DEF PlanInv
  <1>1. PlanInv(p) /\ plans[p] \in Plan
    BY DEF IInv, TypeOK, PlanRows
  <1>2. now \in Int /\ now' \in Int /\ epoch \in Int /\ epoch' \in Int /\ now <= now' /\ epoch <= epoch'
    BY IntentsAssumption DEF IInv, TypeOK, Kept
  <1>3. plans[p].created \in Int /\ plans[p].epoch \in Int /\ plans[p].saw \subseteq Confirms
    BY <1>1 DEF Plan
  <1>4. \A c \in plans[p].saw : Applied(c)'
    BY <1>1, <1>3, AppliedStep DEF PlanInv
  <1>5. \A k \in checkpoints' : k.completed < plans[p].created => k.run \in plans[p].saw
    BY <1>1, <1>2, <1>3 DEF PlanInv, Kept, CheckpointsKept
  <1> QED
    BY <1>1, <1>2, <1>3, <1>4, <1>5 DEF PlanInv

LEMMA CheckpointFrame ==
  ASSUME IInv, TypeOK', Kept, NEW k \in checkpoints
  PROVE  CheckpointInv(k)'
  <1>1. CheckpointInv(k) /\ k \in Checkpoint
    BY DEF IInv, TypeOK
  <1>2. k.run \in Confirms /\ k.completed \in Int /\ now \in Int /\ now' \in Int /\ now <= now'
    BY <1>1, IntentsAssumption DEF Checkpoint, IInv, TypeOK, Kept
  <1>3. /\ Applied(k.run)' /\ StepOf(TokenOf(k.run))' = k.step
        /\ confirm'[k.run].commit = k.commit
    BY <1>1, <1>2, AppliedStep DEF CheckpointInv
  <1>4. k.step > 1 => \E j \in checkpoints' : Before(j, k.step, k.commit)
    BY <1>1 DEF CheckpointInv, Kept, CheckpointsKept
  <1> QED
    BY <1>1, <1>2, <1>3, <1>4 DEF CheckpointInv

LEMMA IntentFrame ==
  ASSUME IInv, TypeOK', Kept, NEW r \in Requests, intents[r] # None
  PROVE  IntentInv(r)'
  <1> SUFFICES ASSUME intents'[r] # None PROVE IntentInv(r)'
    BY DEF IntentInv
  <1> DEFINE i == intents[r]
  <1>1. IntentInv(r) /\ i \in Intent /\ request[r].minted
    BY DEF IInv, TypeOK, RequestInv
  <1>2. i.pin \in PlanRows
    BY <1>1 DEF Intent, PlanRows
  <1>3. plans'[i.pin] = plans[i.pin] /\ plans[i.pin] # None /\ plans[i.pin] \in Plan
    BY <1>1, <1>2 DEF IntentInv, Kept, PlansKept, IInv, TypeOK, PlanRows
  <1>4. intents'[r].pin = i.pin /\ intents'[r].commit = i.commit
    BY DEF Kept, IntentsKept
  <1>5. StepOf(r)' = StepOf(r) /\ FoldersOf(r)' = FoldersOf(r)
    BY <1>1 DEF Kept, RequestsKept, StepOf, FoldersOf
  <1>6. ASSUME StepOf(r) > 1
        PROVE  /\ \E d \in plans[i.pin].saw :
                    StepOf(TokenOf(d))' = StepOf(r) - 1 /\ confirm'[d].commit = i.commit
               /\ \E k \in checkpoints' : Before(k, StepOf(r), i.commit)
    <2>1. PICK d \in plans[i.pin].saw :
            StepOf(TokenOf(d)) = StepOf(r) - 1 /\ confirm[d].commit = i.commit
      BY <1>1, <1>6 DEF IntentInv
    <2>2. d \in Confirms /\ Applied(d)
      BY <1>2, <1>3, <2>1 DEF IInv, PlanInv, Plan
    <2>3. StepOf(TokenOf(d))' = StepOf(r) - 1 /\ confirm'[d].commit = i.commit
      BY <2>1, <2>2, AppliedStep
    <2>4. PICK k \in checkpoints : Before(k, StepOf(r), i.commit)
      BY <1>1, <1>6 DEF IntentInv
    <2> QED
      BY <2>1, <2>3, <2>4 DEF Kept, CheckpointsKept
  <1> QED
    BY <1>1, <1>3, <1>4, <1>5, <1>6 DEF IntentInv, Before

LEMMA RequestFrame ==
  ASSUME IInv, TypeOK', Kept, NEW r \in Requests,
         request'[r] = request[r], intents[r] # None => intents'[r] # None,
         ~request[r].minted => intents'[r] = intents[r] /\ (r \in shown' => r \in shown)
  PROVE  RequestInv(r)'
  <1>1. RequestInv(r)
    BY DEF IInv
  <1>2. checkpoints \subseteq checkpoints'
    BY DEF Kept, CheckpointsKept
  <1> QED
    BY <1>1, <1>2 DEF RequestInv, StepOf, Before

LEMMA ConfirmFrame ==
  ASSUME IInv, TypeOK', Kept, NEW c \in Confirms, confirm'[c] = confirm[c]
  PROVE  ConfirmInv(c)'
  <1>1. ConfirmInv(c)
    BY DEF IInv
  <1>2. Applied(c)' = Applied(c) /\ Confirmed(c)' = Confirmed(c) /\ TokenOf(c)' = TokenOf(c)
    BY DEF Applied, Confirmed, TokenOf
  <1>3. Spent(c) => Spent(c)'
    BY <1>2 DEF Spent, Kept, IntentsKept
  <1>4. Confirmed(c) => intents'[TokenOf(c)].commit = intents[TokenOf(c)].commit
    BY <1>2, <1>3, AppliedToken DEF Spent, Kept, IntentsKept
  <1>5. shown \subseteq shown'
    BY DEF Kept, RequestsKept
  <1>6. confirm[c].pc = "mark" /\ intents'[TokenOf(c)] # None =>
          intents'[TokenOf(c)].commit = confirm[c].commit
    <2> SUFFICES ASSUME confirm[c].pc = "mark", intents'[TokenOf(c)] # None
                 PROVE  intents'[TokenOf(c)].commit = confirm[c].commit
      OBVIOUS
    <2>1. TokenOf(c) \in shown /\ TokenOf(c) \in Requests
      BY <1>1 DEF ConfirmInv, IInv, TypeOK
    <2>2. request[TokenOf(c)].minted
      BY <2>1 DEF IInv, RequestInv
    <2>3. intents[TokenOf(c)] # None
      BY <2>1, <2>2 DEF Kept, IntentsKept
    <2> QED
      BY <1>1, <2>1, <2>3 DEF ConfirmInv, Kept, IntentsKept
  <1>7. confirm[c].pc = "checkpoint" => StepOf(TokenOf(c))' = StepOf(TokenOf(c))
    BY <1>1, AppliedStep, <1>2 DEF ConfirmInv
  <1> QED
    BY <1>1, <1>2, <1>3, <1>4, <1>5, <1>6, <1>7 DEF ConfirmInv

\* It is enough to look at what a step changes.
LEMMA Framed ==
  ASSUME IInv, TypeOK', Kept,
         \A p \in PlanRows : plans'[p] = plans[p] \/ PlanInv(p)',
         \A r \in Requests :
           \/ /\ request'[r] = request[r] /\ (intents[r] # None => intents'[r] # None)
              /\ ~request[r].minted => intents'[r] = intents[r] /\ (r \in shown' => r \in shown)
           \/ RequestInv(r)',
         \A r \in Requests : intents[r] # None \/ intents'[r] = None \/ IntentInv(r)',
         \A c \in Confirms : confirm'[c] = confirm[c] \/ ConfirmInv(c)',
         \A k \in checkpoints' : k \in checkpoints \/ CheckpointInv(k)'
  PROVE  IInv'
  <1>1. \A p \in PlanRows : PlanInv(p)'
    BY PlanFrame
  <1>2. \A r \in Requests : RequestInv(r)'
    BY RequestFrame
  <1>3. \A r \in Requests : IntentInv(r)'
    BY IntentFrame DEF IntentInv
  <1>4. \A c \in Confirms : ConfirmInv(c)'
    BY ConfirmFrame
  <1>5. \A k \in checkpoints' : CheckpointInv(k)'
    BY CheckpointFrame
  <1> QED
    BY <1>1, <1>2, <1>3, <1>4, <1>5 DEF IInv

-----------------------------------------------------------------------------
(* The world.                                                              *)

\* Nothing that is kept depends on the clock or on the pull request.
LEMMA WorldInv ==
  ASSUME IInv, Tick \/ MovePr
  PROVE  IInv' /\ Kept
  <1>1. /\ UNCHANGED <<epoch, plans, pointer, request, intents, shown, confirm, checkpoints>>
        /\ now <= now'
    BY IntentsAssumption DEF Tick, MovePr, planning, tokens, mutations, IInv, TypeOK
  <1>2. TypeOK'
    <2>1. now' \in 1..MaxNow /\ events' \in 0..MaxEvents /\ pr' \in [head : Commits, open : BOOLEAN]
      BY IntentsAssumption DEF Tick, MovePr, IInv, TypeOK
    <2> QED
      BY <1>1, <2>1 DEF IInv, TypeOK
  <1>3. Kept
    BY <1>1 DEF Kept, MutationsKept, RequestsKept, PlansKept, IntentsKept, CheckpointsKept,
      Applied, TokenOf, IInv, TypeOK
  <1>4. IInv'
    BY <1>1, <1>2, <1>3, Framed DEF IntentInv
  <1> QED
    BY <1>3, <1>4

LEMMA StartPlanInv ==
  ASSUME IInv, NEW p \in PlanRows, StartPlan(p)
  PROVE  IInv' /\ Kept
  <1> DEFINE new == [good |-> {}, commit |-> pr.head, created |-> now, epoch |-> epoch,
                     status |-> "running", saw |-> {c \in Confirms : Applied(c)}]
  <1>1. /\ UNCHANGED <<now, pr, pointer, request, intents, shown, confirm, checkpoints, events>>
        /\ epoch' = epoch + 1 /\ plans[p] = None
        /\ plans' = [plans EXCEPT ![p] = new]
    BY DEF StartPlan, tokens, mutations
  <1>2. new \in Plan
    BY IntentsAssumption DEF IInv, TypeOK, Plan
  <1> HIDE DEF new
  <1>3. /\ plans' \in [PlanRows -> Plan \cup {None}] /\ plans'[p] = new
        /\ \A q \in PlanRows \ {p} : plans'[q] = plans[q]
    BY <1>1, <1>2 DEF IInv, TypeOK, PlanRows
  <1>4. TypeOK'
    BY <1>1, <1>3 DEF IInv, TypeOK, PlanRows
  <1>5. Kept
    BY <1>1, <1>3 DEF Kept, MutationsKept, RequestsKept, PlansKept, IntentsKept,
      CheckpointsKept, Applied, TokenOf, IInv, TypeOK
  <1>6. PlanInv(p)'
    <2>1. /\ new.good = {} /\ new.created = now /\ new.epoch = epoch
          /\ new.saw = {c \in Confirms : Applied(c)}
      BY DEF new
    <2>2. \A c \in Confirms : Applied(c)' = Applied(c)
      BY <1>1 DEF Applied
    <2>3. \A k \in checkpoints : k.run \in new.saw
      BY <2>1 DEF IInv, CheckpointInv, TypeOK, Checkpoint
    <2>4. now \in Int /\ epoch \in Int
      BY IntentsAssumption DEF IInv, TypeOK
    <2> QED
      BY <1>1, <1>3, <2>1, <2>2, <2>3, <2>4 DEF PlanInv
  <1>7. IInv'
    BY <1>1, <1>3, <1>4, <1>5, <1>6, Framed DEF IntentInv
  <1> QED
    BY <1>5, <1>7

LEMMA FinishPlanInv ==
  ASSUME IInv, NEW p \in PlanRows, FinishPlan(p)
  PROVE  IInv' /\ Kept
  <1>1. /\ UNCHANGED <<now, epoch, pr, request, intents, shown, confirm, checkpoints, events>>
        /\ plans[p] # None /\ plans[p].status = "running"
    BY DEF FinishPlan, tokens, mutations
  <1>2. PICK good \in SUBSET Folders \ {{}}, status \in {"succeeded", "failed"} :
          /\ plans' = [plans EXCEPT ![p].good = good, ![p].status = status]
          /\ pointer' = [f \in Folders |-> IF f \in good /\ Newer(p, f) THEN p ELSE pointer[f]]
    BY DEF FinishPlan
  <1>3. plans[p] \in Plan
    BY <1>1 DEF IInv, TypeOK, PlanRows
  <1> DEFINE new == [plans[p] EXCEPT !.good = good, !.status = status]
  <1>4. /\ new \in Plan
        /\ new.status # "running" /\ new.saw = plans[p].saw
        /\ new.created = plans[p].created /\ new.epoch = plans[p].epoch
    BY <1>3 DEF Plan
  <1>5. plans' = [plans EXCEPT ![p] = new]
    BY <1>2
  <1> HIDE DEF new
  <1>6. /\ plans' \in [PlanRows -> Plan \cup {None}] /\ plans'[p] = new
        /\ \A q \in PlanRows \ {p} : plans'[q] = plans[q]
    BY <1>4, <1>5 DEF IInv, TypeOK, PlanRows
  <1>7. pointer' \in [Folders -> 1..MaxPlans \cup {None}]
    BY <1>2 DEF IInv, TypeOK, PlanRows
  <1>8. TypeOK'
    BY <1>1, <1>6, <1>7 DEF IInv, TypeOK, PlanRows
  <1>9. plans'[p] # None
    BY <1>4, <1>6, IntentsAssumption
  <1>10. Kept
    BY <1>1, <1>4, <1>6, <1>9 DEF Kept, MutationsKept, RequestsKept, PlansKept, IntentsKept,
      CheckpointsKept, Applied, TokenOf, IInv, TypeOK
  <1>11. PlanInv(p)'
    BY <1>1, <1>4, <1>6 DEF IInv, PlanInv, Applied
  <1>12. IInv'
    BY <1>1, <1>6, <1>8, <1>10, <1>11, Framed DEF IntentInv
  <1> QED
    BY <1>10, <1>12

-----------------------------------------------------------------------------
(* Requests.                                                               *)

\* A step of a request: nothing else of the state changes but its token and what is shown.
OfRequest(r) ==
  /\ UNCHANGED <<now, epoch, pr, plans, pointer, confirm, checkpoints>>
  /\ \A s \in Requests \ {r} : request'[s] = request[s] /\ intents'[s] = intents[s]
  /\ shown' = shown \/ (request[r].minted /\ shown' = shown \cup {r})
  /\ request[r].minted => request'[r].minted /\ request'[r].step = request[r].step

\* How the record of a minted token may change.
TokenKept(r) ==
  /\ intents[r] # None /\ intents[r].used => intents'[r] # None /\ intents'[r].used
  /\ intents[r] # None /\ intents'[r] # None =>
       intents'[r].pin = intents[r].pin /\ intents'[r].commit = intents[r].commit
  /\ intents[r] = None /\ request[r].minted => intents'[r] = None

LEMMA OfRequestInv ==
  ASSUME IInv, TypeOK', NEW r \in Requests, OfRequest(r), TokenKept(r), RequestInv(r)',
         intents[r] # None \/ intents'[r] = None \/ IntentInv(r)'
  PROVE  IInv' /\ Kept
  <1>1. Kept
    <2>1. now <= now' /\ epoch <= epoch'
      BY IntentsAssumption DEF OfRequest, IInv, TypeOK
    <2>2. MutationsKept /\ PlansKept /\ CheckpointsKept
      BY DEF OfRequest, MutationsKept, PlansKept, CheckpointsKept, Applied, TokenOf
    <2>3. RequestsKept
      BY DEF OfRequest, RequestsKept
    <2>4. IntentsKept
      BY DEF OfRequest, TokenKept, IntentsKept
    <2> QED
      BY <2>1, <2>2, <2>3, <2>4 DEF Kept
  <1>2. \A s \in Requests \ {r} : s \in shown' => s \in shown
    BY DEF OfRequest
  <1>3. IInv'
    BY <1>1, <1>2, Framed DEF OfRequest, IntentInv
  <1> QED
    BY <1>1, <1>3

\* The record is left alone.
LEMMA SameToken ==
  ASSUME intents' = intents
  PROVE  \A r \in Requests : TokenKept(r)
  BY DEF TokenKept

LEMMA RefuseInv ==
  ASSUME IInv, TypeOK', NEW r \in Requests, RefuseRequest(r), TokenKept(r),
         UNCHANGED <<now, epoch, pr, plans, pointer, confirm, checkpoints>>,
         shown' = shown \/ (request[r].minted /\ shown' = shown \cup {r}),
         \A s \in Requests \ {r} : intents'[s] = intents[s],
         ~request[r].minted => intents'[r] = intents[r]
  PROVE  IInv' /\ Kept
  <1>1. /\ \A s \in Requests \ {r} : request'[s] = request[s]
        /\ request'[r].pc = "failed" /\ request'[r].minted = request[r].minted
        /\ request[r].minted => request'[r].step = request[r].step
    BY RefusedRequest DEF IInv
  <1>2. OfRequest(r)
    BY <1>1 DEF OfRequest
  <1>3. RequestInv(r)'
    BY <1>1 DEF RequestInv, IInv
  <1>4. intents[r] # None \/ intents'[r] = None
    BY DEF TokenKept, IInv, RequestInv
  <1> QED
    BY <1>2, <1>3, <1>4, OfRequestInv

\* What Goto leaves of a request.
LEMMA MovedRequest ==
  ASSUME TypeOK, NEW r \in Requests,
         NEW pc \in {"idle", "prior", "gates", "post", "store", "undo", "succeeded", "failed"},
         Goto(r, pc)
  PROVE  /\ request' \in [Requests -> RequestRun]
         /\ \A s \in Requests \ {r} : request'[s] = request[s]
         /\ request'[r].pc = pc /\ request'[r].minted = request[r].minted
         /\ request'[r].step = request[r].step
  <1> DEFINE q == [request[r] EXCEPT !.pc = pc]
  <1>1. request[r] \in RequestRun
    BY DEF TypeOK
  <1>2. q \in RequestRun /\ q.pc = pc /\ q.minted = request[r].minted /\ q.step = request[r].step
    BY <1>1 DEF RequestRun
  <1>3. request' = [request EXCEPT ![r] = q]
    BY DEF Goto
  <1> HIDE DEF q
  <1> QED
    BY <1>2, <1>3, SetRequest

\* A minted token makes its way to its comment.
LEMMA MovedInv ==
  ASSUME IInv, NEW r \in Requests, NEW pc \in {"store", "undo", "succeeded"}, Goto(r, pc),
         request[r].minted, TokenKept(r), intents' \in [Requests -> Intent \cup {None}],
         UNCHANGED <<now, epoch, pr, plans, pointer, confirm, checkpoints>>,
         events' \in 0..MaxEvents, pc = "store" => intents'[r] # None,
         shown' = shown \/ shown' = shown \cup {r},
         \A s \in Requests \ {r} : intents'[s] = intents[s]
  PROVE  IInv' /\ Kept
  <1>1. /\ request' \in [Requests -> RequestRun]
        /\ \A s \in Requests \ {r} : request'[s] = request[s]
        /\ request'[r].pc = pc /\ request'[r].minted = request[r].minted
        /\ request'[r].step = request[r].step
    BY MovedRequest DEF IInv
  <1>2. TypeOK'
    BY <1>1 DEF IInv, TypeOK
  <1>3. OfRequest(r)
    BY <1>1 DEF OfRequest
  <1>4. RequestInv(r)'
    BY <1>1 DEF RequestInv
  <1>5. intents[r] # None \/ intents'[r] = None
    BY DEF TokenKept
  <1> QED
    BY <1>2, <1>3, <1>4, <1>5, OfRequestInv

LEMMA ReadHeadInv ==
  ASSUME IInv, NEW r \in Requests, NEW step \in StepsOf[r], ReadHead(r, step)
  PROVE  IInv' /\ Kept
  <1>1. UNCHANGED <<now, epoch, pr, plans, pointer, confirm, checkpoints, intents, shown, events>>
    BY DEF ReadHead, planning, mutations
  <1>2. CASE ~pr.open
    <2>1. RefuseRequest(r)
      BY <1>2 DEF ReadHead
    <2>2. request' \in [Requests -> RequestRun]
      BY <2>1, RefusedRequest DEF IInv
    <2>3. TypeOK'
      BY <1>1, <2>2 DEF IInv, TypeOK
    <2> QED
      BY <1>1, <2>1, <2>3, SameToken, RefuseInv
  <1>3. CASE pr.open
    <2> DEFINE pc == IF step > 1 THEN "prior" ELSE "gates"
    <2>1. /\ request[r].pc = "idle"
          /\ request' = [request EXCEPT ![r].pc = pc, ![r].step = step, ![r].commit = pr.head]
      BY <1>3 DEF ReadHead, On
    <2>2. step \in 0..Steps /\ pr.head \in Commits /\ request[r] \in RequestRun
      BY IntentsAssumption DEF IInv, TypeOK
    <2>3. pc \in {"prior", "gates"}
      OBVIOUS
    <2> HIDE DEF pc
    <2>4. /\ request' \in [Requests -> RequestRun]
          /\ \A s \in Requests \ {r} : request'[s] = request[s]
          /\ request'[r].pc = pc /\ request'[r].step = step /\ request'[r].commit = pr.head
          /\ request'[r].minted = request[r].minted
      BY <2>1, <2>2, <2>3 DEF IInv, TypeOK, RequestRun
    <2>5. ~request[r].minted /\ intents[r] = None /\ r \notin shown
      BY <2>1 DEF IInv, RequestInv
    <2>6. TypeOK'
      BY <1>1, <2>4 DEF IInv, TypeOK
    <2>7. OfRequest(r)
      BY <1>1, <2>4, <2>5 DEF OfRequest
    <2>8. pc = "prior" => step > 1
      BY DEF pc
    <2>9. pc = "gates" => ~(step > 1)
      BY DEF pc
    <2>10. RequestInv(r)'
      BY <1>1, <2>2, <2>3, <2>4, <2>5, <2>8, <2>9 DEF RequestInv, StepOf
    <2> QED
      BY <1>1, <2>5, <2>6, <2>7, <2>10, SameToken, OfRequestInv
  <1> QED
    BY <1>2, <1>3

LEMMA FindPriorInv ==
  ASSUME IInv, NEW r \in Requests, FindPrior(r)
  PROVE  IInv' /\ Kept
  <1>1. UNCHANGED <<now, epoch, pr, plans, pointer, confirm, checkpoints, intents, shown, events>>
    BY DEF FindPrior, planning, mutations
  <1>2. CASE PriorRows(r) = {}
    <2>1. RefuseRequest(r)
      BY <1>2 DEF FindPrior
    <2>2. request' \in [Requests -> RequestRun]
      BY <2>1, RefusedRequest DEF IInv
    <2>3. TypeOK'
      BY <1>1, <2>2 DEF IInv, TypeOK
    <2> QED
      BY <1>1, <2>1, <2>3, SameToken, RefuseInv
  <1>3. CASE PriorRows(r) # {}
    <2> DEFINE times == {k.completed : k \in PriorRows(r)}
               last == Max(times)
    <2>1. /\ request[r].pc = "prior"
          /\ request' = [request EXCEPT ![r].pc = "gates", ![r].prior = last]
      BY <1>3 DEF FindPrior, On
    <2>2. \A k \in PriorRows(r) : k.completed \in 1..MaxNow
      BY DEF PriorRows, IInv, TypeOK, Checkpoint
    <2>3. times \in SUBSET (0..MaxNow) /\ times # {} /\ MaxNow \in Nat
      BY <1>3, <2>2, IntentsAssumption
    <2>4. last \in times
      BY <2>3, MaxIsMember
    <2>5. PICK k \in PriorRows(r) : last = k.completed
      BY <2>4
    <2> HIDE DEF times, last
    <2>6. request[r] \in RequestRun /\ last \in 1..MaxNow
      BY <2>2, <2>5 DEF IInv, TypeOK
    <2>7. /\ request' \in [Requests -> RequestRun]
          /\ \A s \in Requests \ {r} : request'[s] = request[s]
          /\ request'[r].pc = "gates" /\ request'[r].step = request[r].step
          /\ request'[r].commit = request[r].commit /\ request'[r].prior = last
          /\ request'[r].minted = request[r].minted
      BY <2>1, <2>6 DEF IInv, TypeOK, RequestRun
    <2>8. ~request[r].minted /\ intents[r] = None /\ r \notin shown /\ request[r].commit \in Commits
      BY <2>1 DEF IInv, RequestInv
    <2>9. TypeOK'
      BY <1>1, <2>7 DEF IInv, TypeOK
    <2>10. OfRequest(r)
      BY <1>1, <2>7, <2>8 DEF OfRequest
    <2>11. k \in checkpoints /\ Before(k, StepOf(r), request[r].commit)
      BY <2>5 DEF PriorRows, Before
    <2>12. RequestInv(r)'
      BY <1>1, <2>5, <2>7, <2>8, <2>11 DEF RequestInv, StepOf
    <2> QED
      BY <1>1, <2>8, <2>9, <2>10, <2>12, SameToken, OfRequestInv
  <1> QED
    BY <1>2, <1>3

\* The gates let a token pin only a plan that has ended, of the commit the request read, with
\* all its folders and, for a later step, started after a checkpoint of the step before.
LEMMA AdmissiblePlan ==
  ASSUME IInv, NEW r \in Requests, On(r, "gates"), Admissible(r)
  PROVE  LET p == FreshPlan(Min(FoldersOf(r)), request[r].commit) IN
         /\ p \in PlanRows /\ plans[p] # None /\ plans[p].status # "running"
         /\ plans[p].commit = request[r].commit
         /\ FoldersOf(r) \subseteq plans[p].good
         /\ StepOf(r) > 1 =>
              \E k \in checkpoints :
                /\ Before(k, StepOf(r), request[r].commit)
                /\ k.run \in plans[p].saw
                /\ StepOf(TokenOf(k.run)) = StepOf(r) - 1
                /\ confirm[k.run].commit = request[r].commit
  <1> DEFINE commit == request[r].commit
             m == Min(FoldersOf(r))
             p == FreshPlan(m, commit)
  <1>1. StepOf(r) \in 0..Steps
    BY DEF IInv, TypeOK, RequestRun, StepOf
  <1>2. m \in FoldersOf(r) /\ FoldersOf(r) \subseteq Folders
    <2>1. CASE StepOf(r) = 0
      <3>1. 1 \in Folders /\ \A f \in Folders : 1 <= f
        BY IntentsAssumption DEF Folders
      <3>2. Min(Folders) \in Folders
        BY <3>1 DEF Min
      <3> QED
        BY <2>1, <3>2 DEF FoldersOf
    <2>2. CASE StepOf(r) # 0
      <3>1. FoldersOf(r) = {StepOf(r)} /\ StepOf(r) \in Nat /\ StepOf(r) \in Folders
        BY <1>1, <2>2, IntentsAssumption DEF FoldersOf, Folders
      <3> QED
        BY <3>1, MinOfOne
    <2> QED
      BY <2>1, <2>2
  <1>3. \A f \in FoldersOf(r) :
          /\ FreshPlan(f, commit) # None /\ FreshPlan(f, commit) = p
          /\ AfterPrior(FreshPlan(f, commit), request[r].prior)
    BY <1>2 DEF Admissible, Gates
  <1>4. \A f \in FoldersOf(r) : p \in PlanRows /\ Evidence(p, f, commit)
    BY <1>2, <1>3, FreshPlanIsEvidence DEF IInv
  <1>5. /\ p \in PlanRows /\ plans[p] # None /\ plans[p].commit = commit
        /\ FoldersOf(r) \subseteq plans[p].good /\ AfterPrior(p, request[r].prior)
    BY <1>2, <1>3, <1>4 DEF Evidence
  <1> HIDE DEF m, p
  <1>6. plans[p].status # "running"
    BY <1>2, <1>5 DEF IInv, PlanInv
  <1>7. ASSUME StepOf(r) > 1
        PROVE  \E k \in checkpoints :
                 /\ Before(k, StepOf(r), commit) /\ k.run \in plans[p].saw
                 /\ StepOf(TokenOf(k.run)) = StepOf(r) - 1
                 /\ confirm[k.run].commit = commit
    <2>1. PICK k \in checkpoints : Before(k, StepOf(r), commit) /\ request[r].prior = k.completed
      BY <1>7 DEF IInv, RequestInv, On
    <2>2. k \in Checkpoint
      BY DEF IInv, TypeOK
    <2>3. k.completed \in Nat /\ k.completed # None
      BY <2>2, IntentsAssumption DEF Checkpoint
    <2>4. plans[p].created \in Nat
      BY <1>5 DEF IInv, TypeOK, PlanRows, Plan
    <2>5. k.completed < plans[p].created
      BY <1>5, <2>1, <2>3, <2>4 DEF AfterPrior
    <2>6. k.run \in plans[p].saw
      BY <1>5, <2>5 DEF IInv, PlanInv
    <2> QED
      BY <2>1, <2>6 DEF IInv, CheckpointInv, Before
  <1> QED
    BY <1>5, <1>6, <1>7 DEF p, m

\* A token is minted.
LEMMA PutInv ==
  ASSUME IInv, NEW r \in Requests, On(r, "gates"), Admissible(r), Put(r),
         NEW pc \in {"post", "failed"}, Minted(r, pc), shown' = shown,
         events' \in 0..MaxEvents,
         UNCHANGED <<now, epoch, pr, plans, pointer, confirm, checkpoints>>
  PROVE  /\ IInv' /\ Kept
         /\ intents[r] = None /\ ~request[r].minted /\ request'[r].minted
         /\ intents'[r] # None /\ ~intents'[r].used
         /\ \A s \in Requests \ {r} : request'[s] = request[s] /\ intents'[s] = intents[s]
  <1> DEFINE commit == request[r].commit
             p == FreshPlan(Min(FoldersOf(r)), commit)
             i == NewIntent(r, p)
             q == [pc |-> pc, step |-> request[r].step, commit |-> None, prior |-> None,
                   minted |-> TRUE]
  <1>1. intents[r] = None /\ ~request[r].minted /\ commit \in Commits /\ r \notin shown
    BY DEF IInv, RequestInv, On
  <1>2. /\ p \in PlanRows /\ plans[p] # None /\ plans[p].status # "running"
        /\ plans[p].commit = commit /\ FoldersOf(r) \subseteq plans[p].good
        /\ StepOf(r) > 1 =>
             \E k \in checkpoints :
               /\ Before(k, StepOf(r), commit) /\ k.run \in plans[p].saw
               /\ StepOf(TokenOf(k.run)) = StepOf(r) - 1 /\ confirm[k.run].commit = commit
    BY AdmissiblePlan
  <1>3. intents' = [intents EXCEPT ![r] = i] /\ request' = [request EXCEPT ![r] = q]
    BY DEF Put, Minted
  <1> HIDE DEF p
  <1>4. i \in Intent /\ ~i.used /\ i.pin = p /\ i.commit = commit
    BY <1>1, <1>2, IntentsAssumption DEF NewIntent, Intent, PlanRows, IInv, TypeOK
  <1>5. q \in RequestRun
    BY DEF RequestRun, IInv, TypeOK
  <1> HIDE DEF i
  <1>6. /\ intents' \in [Requests -> Intent \cup {None}] /\ intents'[r] = i
        /\ \A s \in Requests \ {r} : intents'[s] = intents[s]
    BY <1>3, <1>4 DEF IInv, TypeOK
  <1>7. /\ q.pc = pc /\ q.step = request[r].step /\ q.minted
    OBVIOUS
  <1> HIDE DEF q
  <1>8. /\ request' \in [Requests -> RequestRun] /\ request'[r] = q
        /\ \A s \in Requests \ {r} : request'[s] = request[s]
    BY <1>3, <1>5, SetRequest DEF IInv
  <1>9. TypeOK'
    BY <1>6, <1>8 DEF IInv, TypeOK
  <1>10. intents'[r] # None
    BY <1>4, <1>6, IntentsAssumption
  <1>11. OfRequest(r)
    BY <1>1, <1>6, <1>8 DEF OfRequest
  <1>12. TokenKept(r)
    BY <1>1 DEF TokenKept
  <1>13. RequestInv(r)'
    BY <1>7, <1>8, <1>10 DEF RequestInv
  <1>14. StepOf(r)' = StepOf(r) /\ FoldersOf(r)' = FoldersOf(r)
    BY <1>7, <1>8 DEF StepOf, FoldersOf
  <1>15. IntentInv(r)'
    <2>1. ASSUME StepOf(r) > 1
          PROVE  /\ \E d \in plans[p].saw :
                      StepOf(TokenOf(d))' = StepOf(r) - 1 /\ confirm[d].commit = commit
                 /\ \E k \in checkpoints : Before(k, StepOf(r), commit)
      <3>1. PICK k \in checkpoints :
              /\ Before(k, StepOf(r), commit) /\ k.run \in plans[p].saw
              /\ StepOf(TokenOf(k.run)) = StepOf(r) - 1 /\ confirm[k.run].commit = commit
        BY <1>2, <2>1
      <3>2. k.run \in Confirms /\ Applied(k.run)
        BY DEF IInv, CheckpointInv, TypeOK, Checkpoint
      <3>3. TokenOf(k.run) \in Requests /\ request[TokenOf(k.run)].minted
        BY <3>2, AppliedToken DEF Confirmed, Spent
      <3>4. TokenOf(k.run)' = TokenOf(k.run) /\ StepOf(TokenOf(k.run))' = StepOf(TokenOf(k.run))
        BY <1>1, <1>8, <3>3 DEF TokenOf, StepOf
      <3> QED
        BY <3>1, <3>4
    <2>2. /\ plans' = plans /\ confirm' = confirm /\ checkpoints' = checkpoints
          /\ intents'[r].pin = p /\ intents'[r].commit = commit
      BY <1>4, <1>6
    <2> QED
      BY <1>2, <1>14, <2>1, <2>2 DEF IntentInv, Before
  <1>16. IInv' /\ Kept
    BY <1>9, <1>11, <1>12, <1>13, <1>15, OfRequestInv
  <1> QED
    BY <1>1, <1>4, <1>6, <1>7, <1>8, <1>10, <1>16

LEMMA PinPlanInv ==
  ASSUME IInv, NEW r \in Requests, PinPlan(r)
  PROVE  IInv' /\ Kept
  <1>1. UNCHANGED <<now, epoch, pr, plans, pointer, confirm, checkpoints, shown, events>>
    BY DEF PinPlan, planning, mutations
  <1>2. events' \in 0..MaxEvents
    BY <1>1 DEF IInv, TypeOK
  <1>3. CASE Admissible(r) /\ Put(r) /\ Minted(r, "post")
    BY <1>1, <1>2, <1>3, PutInv DEF PinPlan
  <1>4. CASE RefuseRequest(r) /\ UNCHANGED intents
    <2>1. request' \in [Requests -> RequestRun]
      BY <1>4, RefusedRequest DEF IInv
    <2>2. TypeOK'
      BY <1>1, <1>4, <2>1 DEF IInv, TypeOK
    <2> QED
      BY <1>1, <1>4, <2>2, SameToken, RefuseInv
  <1> QED
    BY <1>3, <1>4 DEF PinPlan

\* The record of a token that becomes confirmable.
LEMMA Readied ==
  ASSUME IInv, NEW r \in Requests, intents[r] # None,
         intents' = [intents EXCEPT ![r].ready = TRUE]
  PROVE  /\ intents' \in [Requests -> Intent \cup {None}]
         /\ TokenKept(r) /\ intents'[r] # None /\ intents'[r].used = intents[r].used
         /\ \A s \in Requests \ {r} : intents'[s] = intents[s]
  <1> DEFINE i == [intents[r] EXCEPT !.ready = TRUE]
  <1>1. intents[r] \in Intent
    BY DEF IInv, TypeOK
  <1>2. i \in Intent /\ i.used = intents[r].used /\ i.pin = intents[r].pin /\ i.commit = intents[r].commit
    BY <1>1 DEF Intent
  <1>3. intents' = [intents EXCEPT ![r] = i]
    OBVIOUS
  <1> HIDE DEF i
  <1>4. /\ intents' \in [Requests -> Intent \cup {None}] /\ intents'[r] = i
        /\ \A s \in Requests \ {r} : intents'[s] = intents[s]
    BY <1>2, <1>3 DEF IInv, TypeOK
  <1>5. intents'[r] # None
    BY <1>2, <1>4, IntentsAssumption
  <1> QED
    BY <1>2, <1>4, <1>5 DEF TokenKept

LEMMA PostIntentInv ==
  ASSUME IInv, NEW r \in Requests, PostIntent(r)
  PROVE  IInv' /\ Kept
  <1>1. /\ UNCHANGED <<now, epoch, pr, plans, pointer, confirm, checkpoints, intents, events>>
        /\ request[r].pc = "post" /\ Goto(r, "store") /\ shown' = shown \cup {r}
    BY DEF PostIntent, On, planning, mutations
  <1>2. request[r].minted /\ intents[r] # None
    BY <1>1 DEF IInv, RequestInv
  <1>3. intents' \in [Requests -> Intent \cup {None}] /\ events' \in 0..MaxEvents
    BY <1>1 DEF IInv, TypeOK
  <1> QED
    BY <1>1, <1>2, <1>3, SameToken, MovedInv

LEMMA StoreMetadataInv ==
  ASSUME IInv, NEW r \in Requests, StoreMetadata(r)
  PROVE  IInv' /\ Kept
  <1>1. /\ UNCHANGED <<now, epoch, pr, plans, pointer, confirm, checkpoints, shown, events>>
        /\ request[r].pc = "store" /\ Goto(r, "succeeded")
        /\ intents' = [intents EXCEPT ![r].ready = TRUE]
    BY DEF StoreMetadata, On, planning, mutations
  <1>2. request[r].minted /\ intents[r] # None
    BY <1>1 DEF IInv, RequestInv
  <1>3. events' \in 0..MaxEvents
    BY <1>1 DEF IInv, TypeOK
  <1> QED
    BY <1>1, <1>2, <1>3, Readied, MovedInv

\* Only a record that is not used is deleted.
LEMMA UndoRecordInv ==
  ASSUME IInv, NEW r \in Requests, UndoRecord(r)
  PROVE  IInv' /\ Kept
  <1>1. /\ UNCHANGED <<now, epoch, pr, plans, pointer, confirm, checkpoints, shown, events>>
        /\ request[r].pc = "undo" /\ RefuseRequest(r)
        /\ intents' = IF Deletable(r) THEN [intents EXCEPT ![r] = None] ELSE intents
    BY DEF UndoRecord, On, planning, mutations
  <1>2. request[r].minted
    BY <1>1 DEF IInv, RequestInv
  <1>3. /\ intents' \in [Requests -> Intent \cup {None}] /\ TokenKept(r)
        /\ \A s \in Requests \ {r} : intents'[s] = intents[s]
    <2>1. CASE Deletable(r)
      <3>1. intents' = [intents EXCEPT ![r] = None] /\ intents[r] # None /\ ~intents[r].used
        BY <1>1, <2>1 DEF Deletable
      <3> QED
        BY <3>1 DEF IInv, TypeOK, TokenKept
    <2>2. CASE ~Deletable(r)
      BY <1>1, <2>2, SameToken DEF IInv, TypeOK
    <2> QED
      BY <2>1, <2>2
  <1>4. request' \in [Requests -> RequestRun]
    BY <1>1, RefusedRequest DEF IInv
  <1>5. TypeOK'
    BY <1>1, <1>3, <1>4 DEF IInv, TypeOK
  <1> QED
    BY <1>1, <1>2, <1>3, <1>5, RefuseInv

LEMMA CallFailsInv ==
  ASSUME IInv, NEW r \in Requests, CallFails(r)
  PROVE  IInv' /\ Kept
  <1>1. UNCHANGED <<now, epoch, pr, plans, pointer, confirm, checkpoints>>
    BY DEF CallFails, planning, mutations
  <1>2. events' \in 0..MaxEvents
    BY IntentsAssumption DEF CallFails, IInv, TypeOK
  <1>3. CASE RefuseRequest(r) /\ UNCHANGED <<intents, shown>>
    <2>1. request' \in [Requests -> RequestRun]
      BY <1>3, RefusedRequest DEF IInv
    <2>2. TypeOK'
      BY <1>1, <1>2, <1>3, <2>1 DEF IInv, TypeOK
    <2> QED
      BY <1>1, <1>3, <2>2, SameToken, RefuseInv
  <1>4. CASE /\ On(r, "gates") /\ Admissible(r)
             /\ Put(r) /\ Minted(r, "failed") /\ UNCHANGED shown
    BY <1>1, <1>2, <1>4, PutInv
  <1>5. CASE /\ On(r, "post") /\ Goto(r, "undo") /\ UNCHANGED intents
             /\ shown' \in {shown, shown \cup {r}}
    <2>1. request[r].minted /\ intents' \in [Requests -> Intent \cup {None}]
      BY <1>5 DEF IInv, RequestInv, On, TypeOK
    <2> QED
      BY <1>1, <1>2, <1>5, <2>1, SameToken, MovedInv
  <1>6. CASE /\ On(r, "store") /\ (Goto(r, "undo") \/ RefuseRequest(r)) /\ UNCHANGED shown
             /\ intents' \in {intents, [intents EXCEPT ![r].ready = TRUE]}
    <2>1. request[r].minted /\ intents[r] # None
      BY <1>6 DEF IInv, RequestInv, On
    <2>2. /\ intents' \in [Requests -> Intent \cup {None}] /\ TokenKept(r)
          /\ \A s \in Requests \ {r} : intents'[s] = intents[s]
      <3>1. CASE intents' = intents
        BY <3>1, SameToken DEF IInv, TypeOK
      <3>2. CASE intents' = [intents EXCEPT ![r].ready = TRUE]
        BY <2>1, <3>2, Readied
      <3> QED
        BY <1>6, <3>1, <3>2
    <2>3. CASE Goto(r, "undo")
      BY <1>1, <1>2, <1>6, <2>1, <2>2, <2>3, MovedInv
    <2>4. CASE RefuseRequest(r)
      <3>1. request' \in [Requests -> RequestRun]
        BY <2>4, RefusedRequest DEF IInv
      <3>2. TypeOK'
        BY <1>1, <1>2, <1>6, <2>2, <3>1 DEF IInv, TypeOK
      <3> QED
        BY <1>1, <1>6, <2>1, <2>2, <2>4, <3>2, RefuseInv
    <2> QED
      BY <1>6, <2>3, <2>4
  <1> QED
    BY <1>3, <1>4, <1>5, <1>6 DEF CallFails

-----------------------------------------------------------------------------
(* Confirmations.                                                          *)

\* A step of a confirmation: it may only mark its token as used, and index a checkpoint.
OfConfirm(c) ==
  /\ UNCHANGED <<now, pr, plans, pointer, request, shown>>
  /\ epoch' = epoch \/ epoch' = epoch + 1
  /\ \A d \in Confirms \ {c} : confirm'[d] = confirm[d]
  /\ Applied(c) => /\ confirm'[c].status = confirm[c].status
                   /\ confirm'[c].token = confirm[c].token
                   /\ confirm'[c].commit = confirm[c].commit
  /\ \A r \in Requests :
       \/ intents'[r] = intents[r]
       \/ /\ intents[r] # None /\ intents'[r] # None /\ intents'[r].used
          /\ intents'[r].pin = intents[r].pin /\ intents'[r].commit = intents[r].commit

LEMMA OfConfirmInv ==
  ASSUME IInv, TypeOK', NEW c \in Confirms, OfConfirm(c), ConfirmInv(c)', CheckpointsKept,
         \A k \in checkpoints' : k \in checkpoints \/ CheckpointInv(k)'
  PROVE  IInv' /\ Kept
  <1>1. Kept
    <2>1. now <= now' /\ epoch <= epoch'
      BY IntentsAssumption DEF OfConfirm, IInv, TypeOK
    <2>2. MutationsKept
      BY DEF OfConfirm, MutationsKept, Applied, TokenOf
    <2>3. PlansKept /\ RequestsKept
      BY DEF OfConfirm, PlansKept, RequestsKept
    <2>4. IntentsKept
      BY DEF OfConfirm, IntentsKept
    <2> QED
      BY <2>1, <2>2, <2>3, <2>4 DEF Kept
  <1>2. \A r \in Requests :
          /\ intents[r] # None => intents'[r] # None
          /\ ~request[r].minted => intents'[r] = intents[r]
          /\ intents[r] # None \/ intents'[r] = None
    BY DEF OfConfirm, IInv, RequestInv
  <1>3. IInv'
    BY <1>1, <1>2, Framed DEF OfConfirm
  <1> QED
    BY <1>1, <1>3

\* The confirmation ends without having done anything, or after it has spent its token.
LEMMA RefusedInv ==
  ASSUME IInv, NEW c \in Confirms, Refuse(c), ~Applied(c),
         UNCHANGED <<now, pr, plans, pointer, request, shown, intents, checkpoints>>,
         epoch' = epoch \/ epoch' = epoch + 1, events' \in 0..MaxEvents
  PROVE  IInv' /\ Kept
  <1>1. /\ confirm' \in [Confirms -> ConfirmRun]
        /\ \A d \in Confirms \ {c} : confirm'[d] = confirm[d]
        /\ confirm'[c].pc = "ended" /\ confirm'[c].status = "failed"
        /\ confirm'[c].spent = confirm[c].spent
        /\ confirm'[c].token = IF confirm[c].spent THEN confirm[c].token ELSE None
    BY RefusedConfirm DEF IInv
  <1>2. TypeOK'
    BY <1>1 DEF IInv, TypeOK
  <1>3. OfConfirm(c)
    BY <1>1 DEF OfConfirm
  <1>4. ConfirmInv(c)'
    BY <1>1 DEF IInv, ConfirmInv, Spent, TokenOf, Confirmed, Applied
  <1>5. CheckpointsKept /\ \A k \in checkpoints' : k \in checkpoints
    BY DEF CheckpointsKept
  <1> QED
    BY <1>2, <1>3, <1>4, <1>5, OfConfirmInv

\* What Enter leaves of a confirmation.
LEMMA MovedConfirm ==
  ASSUME TypeOK, NEW c \in Confirms,
         NEW pc \in {"idle", "gates", "mark", "confirmed", "working", "checkpoint", "ended"},
         Enter(c, pc)
  PROVE  /\ confirm' \in [Confirms -> ConfirmRun]
         /\ \A d \in Confirms \ {c} : confirm'[d] = confirm[d]
         /\ confirm'[c].pc = pc /\ confirm'[c].token = confirm[c].token
         /\ confirm'[c].commit = confirm[c].commit /\ confirm'[c].spent = confirm[c].spent
         /\ confirm'[c].status = confirm[c].status
  <1> DEFINE m == [confirm[c] EXCEPT !.pc = pc]
  <1>1. confirm[c] \in ConfirmRun
    BY DEF TypeOK
  <1>2. /\ m \in ConfirmRun /\ m.pc = pc /\ m.token = confirm[c].token
        /\ m.commit = confirm[c].commit /\ m.spent = confirm[c].spent /\ m.status = confirm[c].status
    BY <1>1 DEF ConfirmRun
  <1>3. confirm' = [confirm EXCEPT ![c] = m]
    BY DEF Enter
  <1> HIDE DEF m
  <1> QED
    BY <1>2, <1>3, SetConfirm

LEMMA StartConfirmInv ==
  ASSUME IInv, NEW c \in Confirms, NEW r \in Requests, StartConfirm(c, r)
  PROVE  IInv' /\ Kept
  <1>1. /\ UNCHANGED <<now, pr, plans, pointer, request, shown, intents, checkpoints, events>>
        /\ epoch' = epoch + 1 /\ confirm[c].pc = "idle" /\ r \in shown
    BY DEF StartConfirm, With, planning, tokens
  <1>2. ~Applied(c) /\ ~confirm[c].spent
    BY <1>1 DEF IInv, ConfirmInv
  <1>3. events' \in 0..MaxEvents
    BY <1>1 DEF IInv, TypeOK
  <1>4. CASE ~pr.open
    BY <1>1, <1>2, <1>3, <1>4, RefusedInv DEF StartConfirm
  <1>5. CASE pr.open
    <2>1. confirm' = [confirm EXCEPT ![c].pc = "gates", ![c].token = r,
                                     ![c].epoch = epoch, ![c].commit = pr.head]
      BY <1>5 DEF StartConfirm
    <2>2. confirm[c] \in ConfirmRun /\ pr.head \in Commits /\ epoch \in Nat
      BY DEF IInv, TypeOK
    <2>3. /\ confirm' \in [Confirms -> ConfirmRun]
          /\ \A d \in Confirms \ {c} : confirm'[d] = confirm[d]
          /\ confirm'[c].pc = "gates" /\ confirm'[c].token = r
          /\ confirm'[c].commit = pr.head /\ confirm'[c].spent = confirm[c].spent
          /\ confirm'[c].status = confirm[c].status
      BY <2>1, <2>2 DEF IInv, TypeOK, ConfirmRun
    <2>4. TypeOK'
      BY <1>1, <2>2, <2>3 DEF IInv, TypeOK
    <2>5. OfConfirm(c)
      BY <1>1, <1>2, <2>3 DEF OfConfirm
    <2>6. ConfirmInv(c)'
      BY <1>1, <1>2, <2>2, <2>3 DEF ConfirmInv, Spent, TokenOf, Confirmed, Applied
    <2>7. CheckpointsKept /\ \A k \in checkpoints' : k \in checkpoints
      BY <1>1 DEF CheckpointsKept
    <2> QED
      BY <2>4, <2>5, <2>6, <2>7, OfConfirmInv
  <1> QED
    BY <1>4, <1>5

LEMMA CheckIntentInv ==
  ASSUME IInv, NEW c \in Confirms, CheckIntent(c)
  PROVE  IInv' /\ Kept
  <1>1. /\ UNCHANGED <<now, epoch, pr, plans, pointer, request, shown, intents, checkpoints, events>>
        /\ confirm[c].pc = "gates"
    BY DEF CheckIntent, With, planning, tokens
  <1>2. ~Applied(c)
    BY <1>1 DEF IInv, ConfirmInv
  <1>3. events' \in 0..MaxEvents
    BY <1>1 DEF IInv, TypeOK
  <1>4. CASE ~Confirmable(TokenOf(c), confirm[c].commit)
    BY <1>1, <1>2, <1>3, <1>4, RefusedInv DEF CheckIntent
  <1>5. CASE Confirmable(TokenOf(c), confirm[c].commit)
    <2>1. Enter(c, "mark")
      BY <1>5 DEF CheckIntent
    <2>2. /\ confirm' \in [Confirms -> ConfirmRun]
          /\ \A d \in Confirms \ {c} : confirm'[d] = confirm[d]
          /\ confirm'[c].pc = "mark" /\ confirm'[c].token = confirm[c].token
          /\ confirm'[c].commit = confirm[c].commit /\ confirm'[c].spent = confirm[c].spent
          /\ confirm'[c].status = confirm[c].status
      BY <2>1, MovedConfirm DEF IInv
    <2>3. TypeOK'
      BY <1>1, <2>2 DEF IInv, TypeOK
    <2>4. OfConfirm(c)
      BY <1>1, <1>2, <2>2 DEF OfConfirm
    <2>5. intents[TokenOf(c)].commit = confirm[c].commit
      BY <1>5 DEF Confirmable
    <2>6. ConfirmInv(c)'
      BY <1>1, <1>2, <2>2, <2>5 DEF IInv, ConfirmInv, Spent, TokenOf, Confirmed, Applied
    <2>7. CheckpointsKept /\ \A k \in checkpoints' : k \in checkpoints
      BY <1>1 DEF CheckpointsKept
    <2> QED
      BY <2>3, <2>4, <2>6, <2>7, OfConfirmInv
  <1> QED
    BY <1>4, <1>5

\* A record that is marked as used.
LEMMA UsedRecord ==
  ASSUME IInv, NEW t \in Requests, intents[t] # None,
         intents' = [intents EXCEPT ![t].used = TRUE]
  PROVE  /\ intents' \in [Requests -> Intent \cup {None}]
         /\ \A s \in Requests \ {t} : intents'[s] = intents[s]
         /\ intents'[t] # None /\ intents'[t].used
         /\ intents'[t].pin = intents[t].pin /\ intents'[t].commit = intents[t].commit
  <1> DEFINE i == [intents[t] EXCEPT !.used = TRUE]
  <1>1. intents[t] \in Intent
    BY DEF IInv, TypeOK
  <1>2. i \in Intent /\ i.used /\ i.pin = intents[t].pin /\ i.commit = intents[t].commit
    BY <1>1 DEF Intent
  <1>3. intents' = [intents EXCEPT ![t] = i]
    OBVIOUS
  <1> HIDE DEF i
  <1>4. /\ intents' \in [Requests -> Intent \cup {None}] /\ intents'[t] = i
        /\ \A s \in Requests \ {t} : intents'[s] = intents[s]
    BY <1>2, <1>3 DEF IInv, TypeOK
  <1>5. intents'[t] # None
    BY <1>2, <1>4, IntentsAssumption
  <1> QED
    BY <1>2, <1>4, <1>5

\* The confirmation that spends a token, whether or not it learns that it did.
LEMMA SpendInv ==
  ASSUME IInv, NEW c \in Confirms, confirm[c].pc = "mark", Spendable(TokenOf(c)),
         intents' = [intents EXCEPT ![TokenOf(c)].used = TRUE],
         confirm' \in [Confirms -> ConfirmRun],
         \A d \in Confirms \ {c} : confirm'[d] = confirm[d],
         confirm'[c].pc \in {"confirmed", "ended"}, confirm'[c].spent,
         confirm'[c].status # "succeeded",
         confirm'[c].token = confirm[c].token, confirm'[c].commit = confirm[c].commit,
         UNCHANGED <<now, epoch, pr, plans, pointer, request, shown, checkpoints>>,
         events' \in 0..MaxEvents
  PROVE  IInv' /\ Kept
  <1> DEFINE t == TokenOf(c)
  <1>1. /\ ~Applied(c) /\ t \in Requests /\ intents[t] # None
        /\ intents[t].commit = confirm[c].commit
    BY DEF IInv, ConfirmInv, TypeOK, Spendable
  <1>2. /\ intents' \in [Requests -> Intent \cup {None}]
        /\ \A s \in Requests \ {t} : intents'[s] = intents[s]
        /\ intents'[t] # None /\ intents'[t].used
        /\ intents'[t].pin = intents[t].pin /\ intents'[t].commit = intents[t].commit
    BY <1>1, UsedRecord
  <1>3. TypeOK'
    BY <1>2 DEF IInv, TypeOK
  <1>4. OfConfirm(c)
    BY <1>1, <1>2 DEF OfConfirm
  <1>5. ConfirmInv(c)'
    BY <1>1, <1>2 DEF ConfirmInv, Spent, TokenOf, Confirmed, Applied
  <1>6. CheckpointsKept /\ \A k \in checkpoints' : k \in checkpoints
    BY DEF CheckpointsKept
  <1> QED
    BY <1>3, <1>4, <1>5, <1>6, OfConfirmInv

\* What MarkUsed writes when the condition holds.
LEMMA MarkUsedValue ==
  ASSUME TypeOK, NEW c \in Confirms,
         NEW pc \in {"confirmed", "ended"}, NEW status \in {"accepted", "failed"},
         confirm' = [confirm EXCEPT ![c].pc = pc, ![c].spent = TRUE, ![c].status = status]
  PROVE  /\ confirm' \in [Confirms -> ConfirmRun]
         /\ \A d \in Confirms \ {c} : confirm'[d] = confirm[d]
         /\ confirm'[c].pc = pc /\ confirm'[c].spent /\ confirm'[c].status = status
         /\ confirm'[c].token = confirm[c].token /\ confirm'[c].commit = confirm[c].commit
  <1> DEFINE m == [confirm[c] EXCEPT !.pc = pc, !.spent = TRUE, !.status = status]
  <1>1. confirm[c] \in ConfirmRun
    BY DEF TypeOK
  <1>2. /\ m \in ConfirmRun /\ m.pc = pc /\ m.spent /\ m.status = status
        /\ m.token = confirm[c].token /\ m.commit = confirm[c].commit
    BY <1>1 DEF ConfirmRun
  <1>3. confirm' = [confirm EXCEPT ![c] = m]
    OBVIOUS
  <1> HIDE DEF m
  <1> QED
    BY <1>2, <1>3, SetConfirm

LEMMA SpentValue ==
  ASSUME TypeOK, NEW c \in Confirms,
         confirm' = [confirm EXCEPT ![c].pc = "confirmed", ![c].spent = TRUE]
  PROVE  /\ confirm' \in [Confirms -> ConfirmRun]
         /\ \A d \in Confirms \ {c} : confirm'[d] = confirm[d]
         /\ confirm'[c].pc = "confirmed" /\ confirm'[c].spent
         /\ confirm'[c].status = confirm[c].status
         /\ confirm'[c].token = confirm[c].token /\ confirm'[c].commit = confirm[c].commit
  <1> DEFINE m == [confirm[c] EXCEPT !.pc = "confirmed", !.spent = TRUE]
  <1>1. confirm[c] \in ConfirmRun
    BY DEF TypeOK
  <1>2. /\ m \in ConfirmRun /\ m.pc = "confirmed" /\ m.spent /\ m.status = confirm[c].status
        /\ m.token = confirm[c].token /\ m.commit = confirm[c].commit
    BY <1>1 DEF ConfirmRun
  <1>3. confirm' = [confirm EXCEPT ![c] = m]
    OBVIOUS
  <1> HIDE DEF m
  <1> QED
    BY <1>2, <1>3, SetConfirm

LEMMA MarkUsedInv ==
  ASSUME IInv, NEW c \in Confirms, MarkUsed(c)
  PROVE  IInv' /\ Kept
  <1>1. /\ UNCHANGED <<now, epoch, pr, plans, pointer, request, shown, checkpoints, events>>
        /\ confirm[c].pc = "mark"
    BY DEF MarkUsed, With, planning
  <1>2. ~Applied(c) /\ events' \in 0..MaxEvents
    BY <1>1 DEF IInv, ConfirmInv, TypeOK
  <1>3. CASE Spendable(TokenOf(c))
    <2>1. /\ intents' = [intents EXCEPT ![TokenOf(c)].used = TRUE]
          /\ confirm' = [confirm EXCEPT ![c].pc = "confirmed", ![c].spent = TRUE]
      BY <1>3 DEF MarkUsed
    <2>2. /\ confirm' \in [Confirms -> ConfirmRun]
          /\ \A d \in Confirms \ {c} : confirm'[d] = confirm[d]
          /\ confirm'[c].pc = "confirmed" /\ confirm'[c].spent
          /\ confirm'[c].status = confirm[c].status
          /\ confirm'[c].token = confirm[c].token /\ confirm'[c].commit = confirm[c].commit
      BY <2>1, SpentValue DEF IInv
    <2> QED
      BY <1>1, <1>2, <1>3, <2>1, <2>2, SpendInv DEF Applied
  <1>4. CASE ~Spendable(TokenOf(c))
    BY <1>1, <1>2, <1>4, RefusedInv DEF MarkUsed
  <1> QED
    BY <1>3, <1>4

LEMMA ResolveInv ==
  ASSUME IInv, NEW c \in Confirms, Resolve(c)
  PROVE  IInv' /\ Kept
  <1>1. /\ UNCHANGED <<now, epoch, pr, plans, pointer, request, shown, intents, checkpoints, events>>
        /\ confirm[c].pc = "confirmed" /\ (Refuse(c) \/ Enter(c, "working"))
    BY DEF Resolve, With, planning, tokens
  <1>2. ~Applied(c) /\ events' \in 0..MaxEvents
    BY <1>1 DEF IInv, ConfirmInv, TypeOK
  <1>3. CASE Refuse(c)
    BY <1>1, <1>2, <1>3, RefusedInv
  <1>4. CASE Enter(c, "working")
    <2>1. /\ confirm' \in [Confirms -> ConfirmRun]
          /\ \A d \in Confirms \ {c} : confirm'[d] = confirm[d]
          /\ confirm'[c].pc = "working" /\ confirm'[c].token = confirm[c].token
          /\ confirm'[c].commit = confirm[c].commit /\ confirm'[c].spent = confirm[c].spent
          /\ confirm'[c].status = confirm[c].status
      BY <1>4, MovedConfirm DEF IInv
    <2>2. TypeOK'
      BY <1>1, <2>1 DEF IInv, TypeOK
    <2>3. OfConfirm(c)
      BY <1>1, <1>2, <2>1 DEF OfConfirm
    <2>4. ConfirmInv(c)'
      BY <1>1, <1>2, <2>1 DEF IInv, ConfirmInv, Spent, TokenOf, Confirmed, Applied
    <2>5. CheckpointsKept /\ \A k \in checkpoints' : k \in checkpoints
      BY <1>1 DEF CheckpointsKept
    <2> QED
      BY <2>2, <2>3, <2>4, <2>5, OfConfirmInv
  <1> QED
    BY <1>1, <1>3, <1>4

LEMMA TerminalInv ==
  ASSUME IInv, NEW c \in Confirms, NEW status \in {"succeeded", "failed"}, Terminal(c, status)
  PROVE  IInv' /\ Kept
  <1> DEFINE pc == IF status = "succeeded" /\ StepOf(TokenOf(c)) > 0 THEN "checkpoint" ELSE "ended"
  <1>1. /\ UNCHANGED <<now, epoch, pr, plans, pointer, request, shown, intents, checkpoints, events>>
        /\ confirm[c].pc = "working"
        /\ confirm' = [confirm EXCEPT ![c].status = status, ![c].pc = pc]
    BY DEF Terminal, Working, planning, tokens
  <1>2. pc \in {"checkpoint", "ended"}
        /\ (pc = "checkpoint" => status = "succeeded" /\ StepOf(TokenOf(c)) > 0)
    OBVIOUS
  <1> HIDE DEF pc
  <1>3. /\ confirm' \in [Confirms -> ConfirmRun]
        /\ \A d \in Confirms \ {c} : confirm'[d] = confirm[d]
        /\ confirm'[c].pc = pc /\ confirm'[c].token = confirm[c].token
        /\ confirm'[c].commit = confirm[c].commit /\ confirm'[c].spent = confirm[c].spent
        /\ confirm'[c].status = status
    BY <1>1, <1>2 DEF IInv, TypeOK, ConfirmRun
  <1>4. TypeOK'
    BY <1>1, <1>3 DEF IInv, TypeOK
  <1>5. ~Applied(c) /\ Confirmed(c)
    BY <1>1 DEF IInv, ConfirmInv, Confirmed
  <1>6. OfConfirm(c)
    BY <1>1, <1>3, <1>5 DEF OfConfirm
  <1>7. ConfirmInv(c)'
    BY <1>1, <1>2, <1>3, <1>5 DEF IInv, ConfirmInv, Spent, TokenOf, StepOf, Confirmed, Applied
  <1>8. CheckpointsKept /\ \A k \in checkpoints' : k \in checkpoints
    BY <1>1 DEF CheckpointsKept
  <1> QED
    BY <1>4, <1>6, <1>7, <1>8, OfConfirmInv

\* A checkpoint is marked after the one its token was gated by.
LEMMA MarkCheckpointInv ==
  ASSUME IInv, NEW c \in Confirms, MarkCheckpoint(c)
  PROVE  IInv' /\ Kept
  <1> DEFINE t == TokenOf(c)
             k == [step |-> StepOf(t), commit |-> confirm[c].commit, completed |-> now, run |-> c]
  <1>1. /\ UNCHANGED <<now, epoch, pr, plans, pointer, request, shown, intents, events>>
        /\ confirm[c].pc = "checkpoint" /\ Enter(c, "ended")
        /\ checkpoints' = checkpoints \cup {k}
    BY DEF MarkCheckpoint, With, planning, tokens
  <1>2. Applied(c) /\ StepOf(t) > 0 /\ Confirmed(c)
    BY <1>1 DEF IInv, ConfirmInv, Confirmed
  <1>3. /\ t \in Requests /\ intents[t] # None /\ intents[t].used
        /\ confirm[c].commit = intents[t].commit
    BY <1>2, AppliedToken DEF Spent
  <1>4. /\ confirm' \in [Confirms -> ConfirmRun]
        /\ \A d \in Confirms \ {c} : confirm'[d] = confirm[d]
        /\ confirm'[c].pc = "ended" /\ confirm'[c].token = confirm[c].token
        /\ confirm'[c].commit = confirm[c].commit /\ confirm'[c].spent = confirm[c].spent
        /\ confirm'[c].status = confirm[c].status
    BY <1>1, MovedConfirm DEF IInv
  <1>5. k \in Checkpoint
    <2>1. StepOf(t) \in 1..Steps
      BY <1>2, <1>3, IntentsAssumption DEF IInv, TypeOK, RequestRun, StepOf
    <2>2. confirm[c].commit \in Commits
      BY <1>3 DEF IInv, TypeOK, Intent
    <2> QED
      BY <2>1, <2>2 DEF IInv, TypeOK, Checkpoint
  <1>6. TypeOK'
    BY <1>1, <1>4, <1>5 DEF IInv, TypeOK
  <1>7. OfConfirm(c)
    BY <1>1, <1>4 DEF OfConfirm
  <1>8. ConfirmInv(c)'
    BY <1>1, <1>2, <1>4 DEF IInv, ConfirmInv, Spent, TokenOf, StepOf, Confirmed, Applied
  <1>9. k.step = StepOf(t) /\ k.commit = confirm[c].commit /\ k.completed = now /\ k.run = c
    OBVIOUS
  <1> HIDE DEF k
  <1>10. CheckpointsKept
    BY <1>1, <1>9 DEF CheckpointsKept
  <1>11. ASSUME NEW j \in checkpoints', j \notin checkpoints
         PROVE  CheckpointInv(j)'
    <2>1. j.run = c /\ j.step = StepOf(t) /\ j.completed = now /\ j.commit = confirm[c].commit
      BY <1>1, <1>9, <1>11
    <2>2. StepOf(t) > 1 => \E i \in checkpoints' : Before(i, StepOf(t), confirm[c].commit)
      BY <1>1, <1>3 DEF IInv, IntentInv
    <2>3. now' = now /\ now \in Int
      BY <1>1, IntentsAssumption DEF IInv, TypeOK
    <2>4. Applied(c)' /\ StepOf(TokenOf(c))' = StepOf(t)
      BY <1>1, <1>2, <1>4 DEF Applied, TokenOf, StepOf
    <2>5. confirm'[c].commit = j.commit /\ j.completed <= now'
      BY <1>4, <2>1, <2>3
    <2>6. j.step > 1 => \E i \in checkpoints' : Before(i, j.step, j.commit)
      BY <2>1, <2>2
    <2> HIDE DEF t
    <2> QED
      BY <2>1, <2>4, <2>5, <2>6 DEF CheckpointInv, Before
  <1>12. \A j \in checkpoints' : j \in checkpoints \/ CheckpointInv(j)'
    BY <1>11
  <1> QED
    BY <1>6, <1>7, <1>8, <1>10, <1>12, OfConfirmInv

LEMMA ConfirmFailsInv ==
  ASSUME IInv, NEW c \in Confirms, ConfirmFails(c)
  PROVE  IInv' /\ Kept
  <1>1. /\ UNCHANGED <<now, epoch, pr, plans, pointer, request, shown, checkpoints>>
        /\ confirm[c].pc \notin {"idle", "ended"} /\ events' \in 0..MaxEvents
    BY IntentsAssumption DEF ConfirmFails, planning, IInv, TypeOK
  <1>2. CASE With(c, "checkpoint") /\ Enter(c, "ended") /\ UNCHANGED intents
    <2>1. /\ confirm' \in [Confirms -> ConfirmRun]
          /\ \A d \in Confirms \ {c} : confirm'[d] = confirm[d]
          /\ confirm'[c].pc = "ended" /\ confirm'[c].token = confirm[c].token
          /\ confirm'[c].commit = confirm[c].commit /\ confirm'[c].spent = confirm[c].spent
          /\ confirm'[c].status = confirm[c].status
      BY <1>2, MovedConfirm DEF IInv
    <2>2. TypeOK'
      BY <1>1, <1>2, <2>1 DEF IInv, TypeOK
    <2>3. OfConfirm(c)
      BY <1>1, <1>2, <2>1 DEF OfConfirm
    <2>4. ConfirmInv(c)'
      BY <1>1, <1>2, <2>1 DEF IInv, ConfirmInv, Spent, TokenOf, StepOf, Confirmed, Applied, With
    <2>5. CheckpointsKept /\ \A k \in checkpoints' : k \in checkpoints
      BY <1>1 DEF CheckpointsKept
    <2> QED
      BY <2>2, <2>3, <2>4, <2>5, OfConfirmInv
  <1>3. CASE ~With(c, "checkpoint") /\ Refuse(c) /\ UNCHANGED intents
    <2>1. ~Applied(c)
      BY <1>1, <1>3 DEF IInv, ConfirmInv, With
    <2> QED
      BY <1>1, <1>3, <2>1, RefusedInv
  <1>4. CASE /\ With(c, "mark") /\ Spendable(TokenOf(c))
             /\ intents' = [intents EXCEPT ![TokenOf(c)].used = TRUE]
             /\ confirm' = [confirm EXCEPT ![c].pc = "ended", ![c].spent = TRUE,
                                           ![c].status = "failed"]
    <2>1. /\ confirm' \in [Confirms -> ConfirmRun]
          /\ \A d \in Confirms \ {c} : confirm'[d] = confirm[d]
          /\ confirm'[c].pc = "ended" /\ confirm'[c].spent /\ confirm'[c].status = "failed"
          /\ confirm'[c].token = confirm[c].token /\ confirm'[c].commit = confirm[c].commit
      BY <1>4, MarkUsedValue DEF IInv
    <2> QED
      BY <1>1, <1>4, <2>1, SpendInv DEF With
  <1> QED
    BY <1>2, <1>3, <1>4 DEF ConfirmFails

-----------------------------------------------------------------------------
(* The invariant.                                                          *)

LEMMA InitInv == Init => IInv
  <1> SUFFICES ASSUME Init PROVE IInv
    OBVIOUS
  <1>1. TypeOK
    BY InitTypes
  <1>2. \A p \in PlanRows : PlanInv(p)
    BY DEF Init, PlanRows, PlanInv
  <1>3. \A r \in Requests : RequestInv(r) /\ IntentInv(r)
    BY DEF Init, RequestInv, IntentInv, NewRequest
  <1>4. \A c \in Confirms : ConfirmInv(c)
    BY DEF Init, ConfirmInv, NewConfirm, Confirmed, Applied
  <1>5. \A k \in checkpoints : CheckpointInv(k)
    BY DEF Init
  <1> QED
    BY <1>1, <1>2, <1>3, <1>4, <1>5 DEF IInv

LEMMA StepInv == IInv /\ [Next]_vars => IInv' /\ Kept
  <1> SUFFICES ASSUME IInv, [Next]_vars PROVE IInv' /\ Kept
    OBVIOUS
  <1>1. CASE Tick \/ MovePr
    BY <1>1, WorldInv
  <1>2. CASE \E p \in 1..MaxPlans : StartPlan(p) \/ FinishPlan(p)
    BY <1>2, StartPlanInv, FinishPlanInv DEF PlanRows
  <1>3. ASSUME NEW r \in Requests,
               \/ \E step \in StepsOf[r] : ReadHead(r, step)
               \/ FindPrior(r) \/ PinPlan(r) \/ PostIntent(r)
               \/ StoreMetadata(r) \/ CallFails(r) \/ UndoRecord(r)
        PROVE  IInv' /\ Kept
    BY <1>3, ReadHeadInv, FindPriorInv, PinPlanInv, PostIntentInv, StoreMetadataInv,
      CallFailsInv, UndoRecordInv
  <1>4. ASSUME NEW c \in Confirms,
               \/ \E r \in Requests : StartConfirm(c, r)
               \/ CheckIntent(c) \/ MarkUsed(c) \/ Resolve(c)
               \/ Terminal(c, "succeeded") \/ Terminal(c, "failed") \/ MarkCheckpoint(c)
               \/ ConfirmFails(c)
        PROVE  IInv' /\ Kept
    BY <1>4, StartConfirmInv, CheckIntentInv, MarkUsedInv, ResolveInv, TerminalInv,
      MarkCheckpointInv, ConfirmFailsInv
  <1>5. CASE UNCHANGED vars
    <2>1. UNCHANGED <<now, epoch, pr, plans, pointer, request, intents, shown, confirm,
                      checkpoints, events>>
      BY <1>5 DEF vars
    <2>2. TypeOK'
      BY <2>1 DEF IInv, TypeOK
    <2>3. Kept
      BY <2>1, IntentsAssumption DEF Kept, MutationsKept, RequestsKept, PlansKept, IntentsKept,
        CheckpointsKept, Applied, TokenOf, IInv, TypeOK
    <2>4. IInv'
      BY <2>1, <2>2, <2>3, Framed
    <2> QED
      BY <2>3, <2>4
  <1> QED
    BY <1>1, <1>2, <1>3, <1>4, <1>5 DEF Next

LEMMA Invariance == Spec => []IInv
  <1>1. IInv /\ [Next]_vars => IInv'
    BY StepInv
  <1> QED
    BY <1>1, InitInv, PTL DEF Spec

-----------------------------------------------------------------------------
(* Theorems.                                                               *)

\* Every variable has its type.
THEOREM TypeCorrect == Spec => []TypeOK
  <1>1. IInv => TypeOK
    BY DEF IInv
  <1> QED
    BY <1>1, Invariance, PTL

\* A mutation works on the plan its token pinned, of its commit, with all its folders.
THEOREM OnlyPinnedPlans == Spec => []AppliesPinnedPlan
  <1>1. ASSUME IInv PROVE AppliesPinnedPlan
    <2>1. ASSUME NEW c \in Confirms, Confirmed(c)
          PROVE  LET i == intents[TokenOf(c)] IN
                 /\ i # None /\ i.used
                 /\ plans[i.pin].commit = confirm[c].commit
                 /\ FoldersOf(TokenOf(c)) \subseteq plans[i.pin].good
      <3>1. Spent(c) /\ confirm[c].commit = intents[TokenOf(c)].commit
        BY <1>1, <2>1, AppliedToken
      <3>2. TokenOf(c) \in Requests /\ IntentInv(TokenOf(c))
        BY <1>1, <3>1 DEF Spent, IInv
      <3> QED
        BY <3>1, <3>2 DEF Spent, IntentInv
    <2> QED
      BY <2>1 DEF AppliesPinnedPlan
  <1> QED
    BY <1>1, Invariance, PTL

\* The plan of a later step saw a mutation of the step before.
THEOREM PlansBuildOnSteps == Spec => []PlanSawPriorStep
  <1>1. ASSUME IInv PROVE PlanSawPriorStep
    <2>1. ASSUME NEW c \in Confirms, Confirmed(c), StepOf(TokenOf(c)) > 1
          PROVE  \E d \in plans[intents[TokenOf(c)].pin].saw :
                   /\ StepOf(TokenOf(d)) = StepOf(TokenOf(c)) - 1
                   /\ confirm[d].commit = confirm[c].commit
      <3>1. Spent(c) /\ confirm[c].commit = intents[TokenOf(c)].commit
        BY <1>1, <2>1, AppliedToken
      <3>2. TokenOf(c) \in Requests /\ IntentInv(TokenOf(c))
        BY <1>1, <3>1 DEF Spent, IInv
      <3> QED
        BY <2>1, <3>1, <3>2 DEF Spent, IntentInv
    <2> QED
      BY <2>1 DEF PlanSawPriorStep
  <1> QED
    BY <1>1, Invariance, PTL

\* The checkpoints of a commit are a prefix of its pipeline.
THEOREM OrderedCheckpoints == Spec => []CheckpointsInOrder
  <1>1. IInv => CheckpointsInOrder
    BY DEF IInv, CheckpointInv, CheckpointsInOrder, Before
  <1> QED
    BY <1>1, Invariance, PTL

-----------------------------------------------------------------------------
(* The record behind a token is a one-use token.                           *)

Spenders(r) == {c \in Confirms : TokenOf(c) = r /\ confirm[c].spent}

\* Nobody starts or stops being a spender.
SpendersKept ==
  \A c \in Confirms : /\ confirm'[c].spent = confirm[c].spent
                      /\ confirm[c].spent => confirm'[c].token = confirm[c].token

\* The same mutations have spent the same tokens.
LEMMA SameUses ==
  ASSUME SpendersKept
  PROVE  \A r \in Requests : Uses(r)' = Uses(r)
  <1> SUFFICES ASSUME NEW r \in Requests PROVE Uses(r)' = Uses(r)
    OBVIOUS
  <1>1. Spenders(r)' = Spenders(r)
    BY DEF Spenders, SpendersKept, TokenOf
  <1> QED
    BY <1>1 DEF Uses, Spenders

\* A token nobody spent has no spender.
LEMMA NoSpender ==
  ASSUME IInv, NEW r \in Requests, Token(r) # "spent"
  PROVE  Spenders(r) = {} /\ Uses(r) = 0
  <1>1. Spenders(r) = {}
    BY DEF IInv, ConfirmInv, Spent, Spenders, Token
  <1> QED
    BY <1>1, FS_EmptySet DEF Uses, Spenders

\* What is seen of a step that changes no token.
LEMMA Stutters ==
  ASSUME SpendersKept, \A r \in Requests : Token(r)' = Token(r)
  PROVE  [OneUse!Next]_OneUse!vars
  BY SameUses DEF OneUse!vars

\* What is seen of a step that takes one token further and admits nobody.
LEMMA TokenMoves ==
  ASSUME SpendersKept, NEW r \in Requests,
         \A s \in Requests \ {r} : Token(s)' = Token(s),
         \/ Token(r) = "absent" /\ Token(r)' = "open"
         \/ Token(r) = "open" /\ Token(r)' = "withdrawn"
  PROVE  [OneUse!Next]_OneUse!vars
  <1>1. OneUse!Mint(r) \/ OneUse!Withdraw(r)
    BY SameUses DEF OneUse!Mint, OneUse!Withdraw
  <1> QED
    BY <1>1 DEF OneUse!Next

\* What is seen of the confirmation that spends a token.
LEMMA TokenSpent ==
  ASSUME IInv, TypeOK', NEW c \in Confirms, NEW t \in Requests, confirm[c].token = t,
         \A s \in Requests \ {t} : Token(s)' = Token(s),
         Token(t) = "open", Token(t)' = "spent",
         \A d \in Confirms \ {c} : confirm'[d] = confirm[d],
         ~confirm[c].spent, confirm'[c].spent, confirm'[c].token = t
  PROVE  [OneUse!Next]_OneUse!vars
  <1>1. Spenders(t) = {}
    BY NoSpender
  <1>2. Spenders(t)' = {c}
    BY <1>1 DEF Spenders, TokenOf
  <1>3. Uses(t)' = 1
    BY <1>2, FS_Singleton DEF Uses, Spenders
  <1>4. ASSUME NEW s \in Requests \ {t} PROVE Uses(s)' = Uses(s)
    <2>1. Spenders(s)' = Spenders(s)
      BY DEF Spenders, TokenOf
    <2> QED
      BY <2>1 DEF Uses, Spenders
  <1>5. OneUse!Spend(t)
    BY <1>3, <1>4 DEF OneUse!Spend
  <1> QED
    BY <1>5 DEF OneUse!Next

\* A step of a request that keeps what was minted.
LEMMA RequestStutters ==
  ASSUME NEW r \in Requests, confirm' = confirm,
         \A s \in Requests \ {r} : request'[s] = request[s] /\ intents'[s] = intents[s],
         request'[r].minted = request[r].minted,
         \/ intents'[r] = intents[r]
         \/ /\ intents[r] # None /\ intents'[r] # None
            /\ intents'[r].used = intents[r].used
  PROVE  [OneUse!Next]_OneUse!vars
  <1>1. SpendersKept
    BY DEF SpendersKept
  <1>2. \A s \in Requests : Token(s)' = Token(s)
    BY DEF Token
  <1> QED
    BY <1>1, <1>2, Stutters

LEMMA RefuseStutters ==
  ASSUME IInv, NEW r \in Requests, RefuseRequest(r), confirm' = confirm, intents' = intents
  PROVE  [OneUse!Next]_OneUse!vars
  BY RefusedRequest, RequestStutters DEF IInv

\* The final gate mints the token.
LEMMA PutMints ==
  ASSUME IInv, NEW r \in Requests, On(r, "gates"), Admissible(r), Put(r),
         NEW pc \in {"post", "failed"}, Minted(r, pc), shown' = shown,
         events' \in 0..MaxEvents,
         UNCHANGED <<now, epoch, pr, plans, pointer, confirm, checkpoints>>
  PROVE  [OneUse!Next]_OneUse!vars
  <1>1. /\ intents[r] = None /\ ~request[r].minted /\ request'[r].minted
        /\ intents'[r] # None /\ ~intents'[r].used
        /\ \A s \in Requests \ {r} : request'[s] = request[s] /\ intents'[s] = intents[s]
    BY PutInv
  <1>2. SpendersKept
    BY DEF SpendersKept
  <1>3. Token(r) = "absent" /\ Token(r)' = "open"
    BY <1>1 DEF Token
  <1>4. \A s \in Requests \ {r} : Token(s)' = Token(s)
    BY <1>1 DEF Token
  <1> QED
    BY <1>2, <1>3, <1>4, TokenMoves

\* A step of a confirmation that spends nothing.
LEMMA ConfirmStutters ==
  ASSUME NEW c \in Confirms, UNCHANGED <<request, intents>>,
         \A d \in Confirms \ {c} : confirm'[d] = confirm[d],
         confirm'[c].spent = confirm[c].spent,
         confirm[c].spent => confirm'[c].token = confirm[c].token
  PROVE  [OneUse!Next]_OneUse!vars
  <1>1. SpendersKept
    BY DEF SpendersKept
  <1>2. \A s \in Requests : Token(s)' = Token(s)
    BY DEF Token
  <1> QED
    BY <1>1, <1>2, Stutters

LEMMA RefusedStutters ==
  ASSUME IInv, NEW c \in Confirms, Refuse(c), UNCHANGED <<request, intents>>
  PROVE  [OneUse!Next]_OneUse!vars
  BY RefusedConfirm, ConfirmStutters DEF IInv

LEMMA EnterStutters ==
  ASSUME IInv, NEW c \in Confirms,
         NEW pc \in {"idle", "gates", "mark", "confirmed", "working", "checkpoint", "ended"},
         Enter(c, pc), UNCHANGED <<request, intents>>
  PROVE  [OneUse!Next]_OneUse!vars
  BY MovedConfirm, ConfirmStutters DEF IInv

\* Marking the record as used, whether or not the answer arrives.
LEMMA MarkSpends ==
  ASSUME IInv, NEW c \in Confirms, confirm[c].pc = "mark", Spendable(TokenOf(c)),
         intents' = [intents EXCEPT ![TokenOf(c)].used = TRUE], request' = request,
         \A d \in Confirms \ {c} : confirm'[d] = confirm[d],
         confirm'[c].spent, confirm'[c].token = confirm[c].token, TypeOK'
  PROVE  [OneUse!Next]_OneUse!vars
  <1> DEFINE t == TokenOf(c)
  <1>1. /\ t \in Requests /\ ~confirm[c].spent /\ intents[t] # None /\ ~intents[t].used
    BY DEF IInv, ConfirmInv, TypeOK, Spendable
  <1>2. /\ \A s \in Requests \ {t} : intents'[s] = intents[s]
        /\ intents'[t] # None /\ intents'[t].used
    BY <1>1, UsedRecord
  <1>3. \E u \in Requests : u = t
    BY <1>1
  <1>4. PICK u \in Requests : u = t
    BY <1>3
  <1>5. Token(u) = "open" /\ Token(u)' = "spent"
    BY <1>1, <1>2, <1>4 DEF Token
  <1>6. \A s \in Requests \ {u} : Token(s)' = Token(s)
    BY <1>2, <1>4 DEF Token
  <1>7. confirm[c].token = u /\ confirm'[c].token = u
    BY <1>4 DEF TokenOf
  <1> HIDE DEF t
  <1> QED
    BY <1>1, <1>5, <1>6, <1>7, TokenSpent

LEMMA RequestRefines ==
  ASSUME IInv, NEW r \in Requests,
         \/ \E step \in StepsOf[r] : ReadHead(r, step)
         \/ FindPrior(r) \/ PinPlan(r) \/ PostIntent(r)
         \/ StoreMetadata(r) \/ CallFails(r) \/ UndoRecord(r)
  PROVE  [OneUse!Next]_OneUse!vars
  <1>1. confirm' = confirm
    BY DEF ReadHead, FindPrior, PinPlan, PostIntent, StoreMetadata, CallFails, UndoRecord, mutations
  <1>2. request[r] \in RequestRun
    BY DEF IInv, TypeOK
  <1>3. ASSUME NEW step \in StepsOf[r], ReadHead(r, step) PROVE [OneUse!Next]_OneUse!vars
    <2>1. CASE RefuseRequest(r)
      BY <1>1, <1>3, <2>1, RefuseStutters DEF ReadHead
    <2>2. CASE request' = [request EXCEPT ![r].pc = IF step > 1 THEN "prior" ELSE "gates",
                                         ![r].step = step, ![r].commit = pr.head]
      <3>1. /\ request'[r].minted = request[r].minted
            /\ \A s \in Requests \ {r} : request'[s] = request[s]
        BY <1>2, <2>2 DEF IInv, TypeOK, RequestRun
      <3> QED
        BY <1>1, <1>3, <3>1, RequestStutters DEF ReadHead
    <2> QED
      BY <1>3, <2>1, <2>2 DEF ReadHead
  <1>4. ASSUME FindPrior(r) PROVE [OneUse!Next]_OneUse!vars
    <2>1. CASE RefuseRequest(r)
      BY <1>1, <1>4, <2>1, RefuseStutters DEF FindPrior
    <2>2. CASE request' = [request EXCEPT ![r].pc = "gates",
                             ![r].prior = Max({k.completed : k \in PriorRows(r)})]
      <3>1. /\ request'[r].minted = request[r].minted
            /\ \A s \in Requests \ {r} : request'[s] = request[s]
        BY <1>2, <2>2 DEF IInv, TypeOK, RequestRun
      <3> QED
        BY <1>1, <1>4, <3>1, RequestStutters DEF FindPrior
    <2> QED
      BY <1>4, <2>1, <2>2 DEF FindPrior
  <1>5. ASSUME PinPlan(r) PROVE [OneUse!Next]_OneUse!vars
    <2>1. /\ On(r, "gates") /\ events' \in 0..MaxEvents
          /\ UNCHANGED <<now, epoch, pr, plans, pointer, confirm, checkpoints, shown>>
      BY <1>5 DEF PinPlan, planning, mutations, IInv, TypeOK
    <2>2. CASE Admissible(r) /\ Put(r) /\ Minted(r, "post")
      BY <2>1, <2>2, PutMints
    <2>3. CASE RefuseRequest(r) /\ UNCHANGED intents
      BY <1>1, <2>3, RefuseStutters
    <2> QED
      BY <1>5, <2>2, <2>3 DEF PinPlan
  <1>6. ASSUME NEW pc \in {"store", "undo", "succeeded"}, Goto(r, pc),
               \/ intents' = intents
               \/ intents[r] # None /\ intents' = [intents EXCEPT ![r].ready = TRUE]
        PROVE  [OneUse!Next]_OneUse!vars
    <2>1. /\ request'[r].minted = request[r].minted
          /\ \A s \in Requests \ {r} : request'[s] = request[s]
      BY <1>6, MovedRequest DEF IInv
    <2>2. CASE intents' = intents
      BY <1>1, <2>1, <2>2, RequestStutters
    <2>3. CASE intents[r] # None /\ intents' = [intents EXCEPT ![r].ready = TRUE]
      <3>1. /\ intents'[r] # None /\ intents'[r].used = intents[r].used
            /\ \A s \in Requests \ {r} : intents'[s] = intents[s]
        BY <2>3, Readied
      <3> QED
        BY <1>1, <2>1, <2>3, <3>1, RequestStutters
    <2> QED
      BY <1>6, <2>2, <2>3
  <1>7. ASSUME RefuseRequest(r), request[r].minted, intents[r] # None,
               intents' = [intents EXCEPT ![r].ready = TRUE]
        PROVE  [OneUse!Next]_OneUse!vars
    <2>1. /\ request'[r].minted = request[r].minted
          /\ \A s \in Requests \ {r} : request'[s] = request[s]
      BY <1>7, RefusedRequest DEF IInv
    <2>2. /\ intents'[r] # None /\ intents'[r].used = intents[r].used
          /\ \A s \in Requests \ {r} : intents'[s] = intents[s]
      BY <1>7, Readied
    <2> QED
      BY <1>1, <1>7, <2>1, <2>2, RequestStutters
  <1>8. request[r].pc = "store" => request[r].minted /\ intents[r] # None
    BY DEF IInv, RequestInv
  <1>9. ASSUME PostIntent(r) PROVE [OneUse!Next]_OneUse!vars
    BY <1>6, <1>9 DEF PostIntent
  <1>10. ASSUME StoreMetadata(r) PROVE [OneUse!Next]_OneUse!vars
    BY <1>6, <1>8, <1>10 DEF StoreMetadata, On
  <1>11. ASSUME CallFails(r) PROVE [OneUse!Next]_OneUse!vars
    <2>1. /\ UNCHANGED <<now, epoch, pr, plans, pointer, confirm, checkpoints>>
          /\ events' \in 0..MaxEvents
      BY <1>11, IntentsAssumption DEF CallFails, planning, mutations, IInv, TypeOK
    <2>2. CASE RefuseRequest(r) /\ UNCHANGED intents
      BY <1>1, <2>2, RefuseStutters
    <2>3. CASE On(r, "gates") /\ Admissible(r) /\ Put(r) /\ Minted(r, "failed") /\ UNCHANGED shown
      BY <2>1, <2>3, PutMints
    <2>4. CASE On(r, "post") /\ Goto(r, "undo") /\ UNCHANGED intents
      BY <1>6, <2>4
    <2>5. CASE /\ On(r, "store") /\ (Goto(r, "undo") \/ RefuseRequest(r))
               /\ intents' \in {intents, [intents EXCEPT ![r].ready = TRUE]}
      BY <1>1, <1>6, <1>7, <1>8, <2>5, RefuseStutters DEF On
    <2> QED
      BY <1>11, <2>2, <2>3, <2>4, <2>5 DEF CallFails
  <1>12. ASSUME UndoRecord(r) PROVE [OneUse!Next]_OneUse!vars
    <2>1. RefuseRequest(r) /\ request[r].minted
      BY <1>12 DEF UndoRecord, On, IInv, RequestInv
    <2>2. CASE ~Deletable(r)
      BY <1>1, <1>12, <2>1, <2>2, RefuseStutters DEF UndoRecord
    <2>3. CASE Deletable(r)
      <3>1. /\ intents[r] # None /\ ~intents[r].used /\ intents'[r] = None
            /\ \A s \in Requests \ {r} : intents'[s] = intents[s]
        BY <1>12, <2>3 DEF UndoRecord, Deletable, IInv, TypeOK
      <3>2. /\ request'[r].minted = request[r].minted
            /\ \A s \in Requests \ {r} : request'[s] = request[s]
        BY <2>1, RefusedRequest DEF IInv
      <3>3. Token(r) = "open" /\ Token(r)' = "withdrawn"
        BY <2>1, <3>1, <3>2 DEF Token
      <3>4. \A s \in Requests \ {r} : Token(s)' = Token(s)
        BY <3>1, <3>2 DEF Token
      <3>5. SpendersKept
        BY <1>1 DEF SpendersKept
      <3> QED
        BY <3>3, <3>4, <3>5, TokenMoves
    <2> QED
      BY <2>2, <2>3
  <1> QED
    BY <1>3, <1>4, <1>5, <1>9, <1>10, <1>11, <1>12

LEMMA ConfirmRefines ==
  ASSUME IInv, TypeOK', NEW c \in Confirms,
         \/ \E r \in Requests : StartConfirm(c, r)
         \/ CheckIntent(c) \/ MarkUsed(c) \/ Resolve(c)
         \/ Terminal(c, "succeeded") \/ Terminal(c, "failed") \/ MarkCheckpoint(c)
         \/ ConfirmFails(c)
  PROVE  [OneUse!Next]_OneUse!vars
  <1>1. request' = request
    BY DEF StartConfirm, CheckIntent, MarkUsed, Resolve, Terminal, MarkCheckpoint, ConfirmFails, tokens
  <1>2. confirm[c] \in ConfirmRun
    BY DEF IInv, TypeOK
  <1>3. ASSUME NEW r \in Requests, StartConfirm(c, r) PROVE [OneUse!Next]_OneUse!vars
    <2>1. intents' = intents /\ ~confirm[c].spent
      BY <1>3 DEF StartConfirm, tokens, With, IInv, ConfirmInv
    <2>2. CASE Refuse(c)
      BY <1>1, <2>1, <2>2, RefusedStutters
    <2>3. CASE confirm' = [confirm EXCEPT ![c].pc = "gates", ![c].token = r,
                                          ![c].epoch = epoch, ![c].commit = pr.head]
      <3>1. /\ confirm'[c].spent = confirm[c].spent
            /\ \A d \in Confirms \ {c} : confirm'[d] = confirm[d]
        BY <1>2, <2>3 DEF IInv, TypeOK, ConfirmRun
      <3> QED
        BY <1>1, <2>1, <3>1, ConfirmStutters
    <2> QED
      BY <1>3, <2>2, <2>3 DEF StartConfirm
  <1>4. ASSUME CheckIntent(c) PROVE [OneUse!Next]_OneUse!vars
    BY <1>1, <1>4, EnterStutters, RefusedStutters DEF CheckIntent, tokens
  <1>5. ASSUME Resolve(c) PROVE [OneUse!Next]_OneUse!vars
    BY <1>1, <1>5, EnterStutters, RefusedStutters DEF Resolve, tokens
  <1>6. ASSUME MarkCheckpoint(c) PROVE [OneUse!Next]_OneUse!vars
    BY <1>1, <1>6, EnterStutters DEF MarkCheckpoint, tokens
  <1>7. ASSUME NEW status \in {"succeeded", "failed"}, Terminal(c, status)
        PROVE  [OneUse!Next]_OneUse!vars
    <2> DEFINE pc == IF status = "succeeded" /\ StepOf(TokenOf(c)) > 0 THEN "checkpoint" ELSE "ended"
    <2>1. intents' = intents /\ confirm' = [confirm EXCEPT ![c].status = status, ![c].pc = pc]
      BY <1>7 DEF Terminal, tokens
    <2> HIDE DEF pc
    <2>2. /\ confirm'[c].spent = confirm[c].spent /\ confirm'[c].token = confirm[c].token
          /\ \A d \in Confirms \ {c} : confirm'[d] = confirm[d]
      BY <1>2, <2>1 DEF IInv, TypeOK, ConfirmRun
    <2> QED
      BY <1>1, <2>1, <2>2, ConfirmStutters
  <1>8. ASSUME MarkUsed(c) PROVE [OneUse!Next]_OneUse!vars
    <2>1. CASE Spendable(TokenOf(c))
      <3>1. /\ intents' = [intents EXCEPT ![TokenOf(c)].used = TRUE]
            /\ confirm' = [confirm EXCEPT ![c].pc = "confirmed", ![c].spent = TRUE]
            /\ confirm[c].pc = "mark"
        BY <1>8, <2>1 DEF MarkUsed, With
      <3> QED
        BY <1>1, <2>1, <3>1, SpentValue, MarkSpends DEF IInv
    <2>2. CASE ~Spendable(TokenOf(c))
      BY <1>1, <1>8, <2>2, RefusedStutters DEF MarkUsed
    <2> QED
      BY <2>1, <2>2
  <1>9. ASSUME ConfirmFails(c) PROVE [OneUse!Next]_OneUse!vars
    <2>1. CASE Enter(c, "ended") /\ UNCHANGED intents
      BY <1>1, <2>1, EnterStutters
    <2>2. CASE Refuse(c) /\ UNCHANGED intents
      BY <1>1, <2>2, RefusedStutters
    <2>3. CASE /\ With(c, "mark") /\ Spendable(TokenOf(c))
               /\ intents' = [intents EXCEPT ![TokenOf(c)].used = TRUE]
               /\ confirm' = [confirm EXCEPT ![c].pc = "ended", ![c].spent = TRUE,
                                             ![c].status = "failed"]
      <3>1. /\ \A d \in Confirms \ {c} : confirm'[d] = confirm[d]
            /\ confirm'[c].spent /\ confirm'[c].token = confirm[c].token
        BY <2>3, MarkUsedValue DEF IInv
      <3> QED
        BY <1>1, <2>3, <3>1, MarkSpends DEF With
    <2> QED
      BY <1>9, <2>1, <2>2, <2>3 DEF ConfirmFails
  <1> QED
    BY <1>3, <1>4, <1>5, <1>6, <1>7, <1>8, <1>9

LEMMA InitRefines == Init => OneUse!Init
  <1> SUFFICES ASSUME Init PROVE OneUse!Init
    OBVIOUS
  <1>1. ASSUME NEW r \in Requests PROVE Token(r) = "absent" /\ Uses(r) = 0
    <2>1. Spenders(r) = {}
      BY DEF Init, NewConfirm, Spenders, TokenOf
    <2>2. Uses(r) = 0
      BY <2>1, FS_EmptySet DEF Uses, Spenders
    <2> QED
      BY <2>2 DEF Init, NewRequest, Token
  <1> QED
    BY <1>1 DEF OneUse!Init

LEMMA NextRefines == IInv /\ TypeOK' /\ [Next]_vars => [OneUse!Next]_OneUse!vars
  <1> SUFFICES ASSUME IInv, TypeOK', [Next]_vars PROVE [OneUse!Next]_OneUse!vars
    OBVIOUS
  <1>1. ASSUME UNCHANGED <<request, intents, confirm>> PROVE [OneUse!Next]_OneUse!vars
    <2>1. SpendersKept
      BY <1>1 DEF SpendersKept
    <2>2. \A r \in Requests : Token(r)' = Token(r)
      BY <1>1 DEF Token
    <2> QED
      BY <2>1, <2>2, Stutters
  <1>2. CASE Tick \/ MovePr \/ UNCHANGED vars
    BY <1>1, <1>2 DEF Tick, MovePr, vars, tokens, mutations
  <1>3. CASE \E p \in 1..MaxPlans : StartPlan(p) \/ FinishPlan(p)
    BY <1>1, <1>3 DEF StartPlan, FinishPlan, tokens, mutations
  <1> QED
    BY <1>2, <1>3, RequestRefines, ConfirmRefines DEF Next

\* The record behind a token implements a token that is minted once and then spent once or
\* withdrawn, however often it is confirmed and whichever answers are lost.
THEOREM TokensAreUsedOnce == Spec => ImplementsOneUse
  <1>1. IInv /\ [Next]_vars => IInv' /\ TypeOK'
    BY StepInv DEF IInv
  <1> QED
    BY <1>1, InitInv, InitRefines, NextRefines, PTL DEF Spec, ImplementsOneUse, OneUse!Spec
=============================================================================
