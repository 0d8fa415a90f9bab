---------------------------- MODULE IngressProofs ----------------------------
(***************************************************************************)
(* Theorems about Ingress, for any deliveries, API keys, invocations,      *)
(* commits and life of a registry row.                                     *)
(*                                                                         *)
(* The life of every row follows from its run id, so whatever was claimed  *)
(* and is not over yet is still in the registry, with one claim for its    *)
(* key: the table, the executions and the invocations that hold a run all  *)
(* agree on it (RowInv, ClaimInv, ExecutionInv, WorkerInv).                *)
(***************************************************************************)
EXTENDS Ingress, TLAPS

\* The rows of run r, if they were ever written, are still alive.
Unexpired(r) == r[1] + Retention > now

\* The row of r is there and is about this key and commit.
Registered(r, k, c) == runs[r] # None /\ runs[r].key = k /\ runs[r].commit = c

Attached(r) == runs[r] # None /\ runs[r].arn = Arn(r)

\* A row lives as long as its run id says, its ARN is one of an execution that was started, and
\* the claim of its key names it.
RowInv(r) ==
  runs[r] # None =>
    /\ runs[r].ttl = r[1] + Retention
    /\ runs[r].arn # None => runs[r].arn = Arn(r) /\ execs[r] # None
    /\ Unexpired(r) =>
         LET k == runs[r].key IN
         idem[k] # None /\ idem[k].run = r /\ idem[k].fingerprint = runs[r].commit

ClaimInv(k) ==
  idem[k] # None =>
    /\ idem[k].ttl = idem[k].run[1] + Retention
    /\ Unexpired(idem[k].run) => Registered(idem[k].run, k, idem[k].fingerprint)

ExecutionInv(r) ==
  execs[r] # None /\ Unexpired(r) => Registered(r, execs[r].key, execs[r].commit)

\* An invocation holds a command it may start.
CommandInv(m) ==
  /\ m.pc \in WebhookCalls => m.key \in Deliveries
  /\ m.pc \in StartCalls => m.key \in Keys
  /\ m.pc \in {"record_accepted", "recheck", "erase_accepted"} \cup StartCalls =>
       Lane(m.key) \in {"read", "mutate"}
  /\ m.pc \in (WebhookCalls \ {"pin"}) \cup StartCalls => m.commit \in Commits
  /\ m.pc # "answered" => m.answer = None

\* Past its claim it holds the run that was claimed for this command, and then started.
HoldsRun(m) ==
  /\ m.pc \in RunCalls =>
       m.run \in RunIds /\ (Unexpired(m.run) => Registered(m.run, m.key, m.commit))
  /\ m.pc \in {"attach", "mark", "verify"} => execs[m.run] # None
  /\ m.pc \in {"mark", "verify"} => (Unexpired(m.run) => Attached(m.run))

\* Who was told "accepted" was told of a run that was started.
Acknowledged(m) ==
  m.answer = "accepted" =>
    m.run \in RunIds /\ execs[m.run] # None /\ (Unexpired(m.run) => Attached(m.run))

WorkerInv(m) ==
  /\ m.asof <= now /\ m.created <= now
  /\ CommandInv(m) /\ HoldsRun(m) /\ Acknowledged(m)

IInv ==
  /\ TypeOK
  /\ \A r \in RunIds : RowInv(r) /\ ExecutionInv(r)
  /\ \A k \in Keys : ClaimInv(k)
  /\ \A w \in Workers : WorkerInv(worker[w])


-----------------------------------------------------------------------------
(* What the steps leave alone.                                             *)

\* What is not over yet stays in the registry, with its key, its commit and its ARN, and an
\* execution that was started stays the same.
Kept ==
  /\ now <= now'
  /\ \A r \in RunIds :
       /\ execs[r] # None => execs'[r] = execs[r]
       /\ Unexpired(r)' =>
            /\ \A k \in Keys, c \in Commits : Registered(r, k, c) => Registered(r, k, c)'
            /\ Attached(r) => Attached(r)'

LEMMA Numbers == MaxNow \in Nat /\ Retention \in Nat /\ Retention > 0
  <1>1. MaxNow \in Nat /\ Retention \in Nat \ {0}
    BY IngressAssumption
  <1> QED
    BY <1>1

LEMMA RunIdTypes ==
  ASSUME NEW r \in RunIds
  PROVE  r[1] \in 0..MaxNow /\ r[1] \in Nat /\ r[2] \in {"read", "mutate"} /\ r = <<r[1], r[2]>>
  BY Numbers DEF RunIds

LEMMA ClockTypes ==
  /\ TypeOK => now \in Nat
  /\ TypeOK' => now' \in Nat
  <1>1. /\ TypeOK => now \in 0..MaxNow
        /\ TypeOK' => now' \in 0..MaxNow
    BY DEF TypeOK
  <1> QED
    BY <1>1, Numbers

LEMMA WorkerTypes ==
  ASSUME TypeOK, NEW w \in Workers
  PROVE  /\ worker[w] \in Invocation
         /\ worker[w].asof \in Nat /\ worker[w].created \in Nat
         /\ worker[w].created \in 0..MaxNow
         /\ worker[w].run \in RunIds \cup {None} /\ worker[w].key \in Keys \cup {None}
         /\ worker[w].commit \in Commits \cup {None}
  <1>1. worker[w] \in Invocation
    BY DEF TypeOK
  <1>2. worker[w].asof \in 0..MaxNow /\ worker[w].created \in 0..MaxNow
    BY <1>1 DEF Invocation
  <1>3. worker[w].run \in RunIds \cup {None} /\ worker[w].key \in Keys \cup {None}
        /\ worker[w].commit \in Commits \cup {None}
    BY <1>1 DEF Invocation
  <1> QED
    BY <1>1, <1>2, <1>3, Numbers

LEMMA ExpiryFrame ==
  ASSUME TypeOK, TypeOK', now <= now', NEW r \in RunIds, Unexpired(r)'
  PROVE  Unexpired(r)
  <1>1. r[1] \in Nat /\ Retention \in Nat /\ now \in Nat /\ now' \in Nat
    BY RunIdTypes, ClockTypes, Numbers
  <1> QED
    BY <1>1 DEF Unexpired

LEMMA WorkerFrame ==
  ASSUME IInv, TypeOK', Kept, NEW m \in Invocation, WorkerInv(m)
  PROVE  WorkerInv(m)'
  <1>1. TypeOK /\ now <= now'
    BY DEF IInv, Kept
  <1>2. m.asof <= now' /\ m.created <= now'
    <2>1. m.asof \in Nat /\ m.created \in Nat
      <3>1. m.asof \in 0..MaxNow /\ m.created \in 0..MaxNow
        BY DEF Invocation
      <3> QED
        BY <3>1, Numbers
    <2>2. now \in Nat /\ now' \in Nat
      BY <1>1, ClockTypes
    <2> QED
      BY <1>1, <2>1, <2>2 DEF WorkerInv
  <1>3. \A r \in RunIds : Unexpired(r)' => Unexpired(r)
    BY <1>1, ExpiryFrame
  <1>4. CommandInv(m)'
    BY DEF WorkerInv, CommandInv
  <1>5. HoldsRun(m)'
    <2>1. m.pc \in RunCalls => m.run \in RunIds /\ m.key \in Keys /\ m.commit \in Commits
      BY DEF WorkerInv, HoldsRun, CommandInv, StartCalls
    <2>2. m.pc \in RunCalls /\ Unexpired(m.run)' => Registered(m.run, m.key, m.commit)'
      BY <1>3, <2>1 DEF WorkerInv, HoldsRun, Kept
    <2>3. m.pc \in {"attach", "mark", "verify"} => execs'[m.run] # None
      BY <2>1 DEF WorkerInv, HoldsRun, Kept, RunCalls
    <2>4. m.pc \in {"mark", "verify"} /\ Unexpired(m.run)' => Attached(m.run)'
      BY <1>3, <2>1 DEF WorkerInv, HoldsRun, Kept, RunCalls
    <2> QED
      BY <2>1, <2>2, <2>3, <2>4 DEF HoldsRun
  <1>6. Acknowledged(m)'
    BY <1>3 DEF WorkerInv, Acknowledged, Kept
  <1> QED
    BY <1>2, <1>4, <1>5, <1>6 DEF WorkerInv

-----------------------------------------------------------------------------
(* The values an invocation takes.                                         *)

Becomes(w, m) == worker' = [worker EXCEPT ![w] = m]

LEMMA GoValue ==
  ASSUME TypeOK, NEW w \in Workers, NEW pc \in WebhookCalls \cup StartCalls, Go(w, pc)
  PROVE  \E m \in Invocation :
           /\ Becomes(w, m)
           /\ m.pc = pc /\ m.key = worker[w].key /\ m.commit = worker[w].commit
           /\ m.created = worker[w].created /\ m.asof = worker[w].asof
           /\ m.run = worker[w].run /\ m.answer = worker[w].answer
  <1> DEFINE m == [worker[w] EXCEPT !.pc = pc]
  <1>1. worker[w] \in Invocation
    BY WorkerTypes
  <1>2. m \in Invocation
    BY <1>1 DEF Invocation
  <1>3. /\ m.pc = pc /\ m.key = worker[w].key /\ m.commit = worker[w].commit
        /\ m.created = worker[w].created /\ m.asof = worker[w].asof
        /\ m.run = worker[w].run /\ m.answer = worker[w].answer
    BY <1>1 DEF Invocation
  <1>4. Becomes(w, m)
    BY DEF Go, Becomes
  <1> QED
    BY <1>2, <1>3, <1>4

LEMMA IdleType == Idle \in Invocation
  <1>1. 0 \in 0..MaxNow
    BY Numbers
  <1> QED
    BY <1>1 DEF Idle, Invocation

LEMMA AnswerValue ==
  ASSUME TypeOK, NEW w \in Workers,
         NEW a \in {"not open", "invalid", "conflict", "accepted", "failed"}, Answer(w, a)
  PROVE  \E m \in Invocation :
           /\ Becomes(w, m)
           /\ m.pc = "answered" /\ m.answer = a /\ m.run = worker[w].run
           /\ m.created = 0 /\ m.asof = 0
  <1> DEFINE m == [Idle EXCEPT !.pc = "answered", !.answer = a, !.run = worker[w].run]
  <1>1. Idle \in Invocation /\ worker[w].run \in RunIds \cup {None}
    BY IdleType, WorkerTypes
  <1>2. m \in Invocation
    BY <1>1 DEF Invocation
  <1>3. m.pc = "answered" /\ m.answer = a /\ m.run = worker[w].run
    BY <1>1 DEF Invocation
  <1>4. m.created = Idle.created /\ m.asof = Idle.asof
    BY <1>1 DEF Invocation
  <1>5. Idle.created = 0 /\ Idle.asof = 0
    BY DEF Idle
  <1>6. Becomes(w, m)
    BY DEF Answer, Becomes
  <1> QED
    BY <1>2, <1>3, <1>4, <1>5, <1>6

LEMMA ObtainValue ==
  ASSUME TypeOK, NEW w \in Workers, NEW r \in RunIds, Obtain(w, r)
  PROVE  \E m \in Invocation :
           /\ Becomes(w, m)
           /\ m.pc = "resume" /\ m.run = r
           /\ m.key = worker[w].key /\ m.commit = worker[w].commit
           /\ m.created = 0 /\ m.asof = 0 /\ m.answer = worker[w].answer
  <1> DEFINE m == [worker[w] EXCEPT !.pc = "resume", !.run = r, !.created = 0, !.asof = 0]
  <1>1. worker[w] \in Invocation
    BY WorkerTypes
  <1>2. m \in Invocation
    <2>1. 0 \in 0..MaxNow
      BY Numbers
    <2> QED
      BY <1>1, <2>1 DEF Invocation, StartCalls, RunCalls
  <1>3. /\ m.pc = "resume" /\ m.run = r
        /\ m.key = worker[w].key /\ m.commit = worker[w].commit
        /\ m.created = 0 /\ m.asof = 0 /\ m.answer = worker[w].answer
    BY <1>1 DEF Invocation
  <1>4. Becomes(w, m)
    BY DEF Obtain, Becomes
  <1> QED
    BY <1>2, <1>3, <1>4

LEMMA NoTimes ==
  ASSUME TypeOK, NEW m, m.created = 0, m.asof = 0
  PROVE  m.created <= now /\ m.asof <= now
  <1>1. now \in Nat
    BY ClockTypes
  <1> QED
    BY <1>1

\* What is told to a caller, with the run it is about.
LEMMA AnswerInv ==
  ASSUME NEW m \in Invocation, m.pc = "answered", m.created <= now, m.asof <= now, Acknowledged(m)
  PROVE  WorkerInv(m)
  BY DEF WorkerInv, CommandInv, HoldsRun, WebhookCalls, StartCalls, RunCalls

-----------------------------------------------------------------------------
(* Steps that leave the tables alone.                                      *)

TablesInv ==
  /\ \A r \in RunIds : RowInv(r) /\ ExecutionInv(r)
  /\ \A k \in Keys : ClaimInv(k)

LEMMA TablesFrame ==
  ASSUME IInv, TypeOK', UNCHANGED registry, now <= now'
  PROVE  Kept /\ TablesInv'
  <1>1. idem' = idem /\ runs' = runs /\ execs' = execs
    BY DEF registry
  <1>2. TypeOK
    BY DEF IInv
  <1>3. \A r \in RunIds : Unexpired(r)' => Unexpired(r)
    BY <1>2, ExpiryFrame
  <1>4. Kept
    BY <1>1 DEF Kept, Registered, Attached
  <1>5. \A r \in RunIds : RowInv(r)'
    BY <1>1, <1>3 DEF IInv, RowInv
  <1>6. \A r \in RunIds : ExecutionInv(r)'
    BY <1>1, <1>3 DEF IInv, ExecutionInv, Registered
  <1>7. \A k \in Keys : ClaimInv(k)'
    <2>1. \A k \in Keys : idem[k] # None => idem[k].run \in RunIds
      BY <1>2 DEF TypeOK, IdemRow
    <2> QED
      BY <1>1, <1>3, <2>1 DEF IInv, ClaimInv, Registered
  <1> QED
    BY <1>4, <1>5, <1>6, <1>7 DEF TablesInv

LEMMA WorkerStep ==
  ASSUME IInv, TypeOK', Kept, TablesInv',
         NEW w \in Workers, NEW m \in Invocation, Becomes(w, m), WorkerInv(m)'
  PROVE  IInv'
  <1>1. \A v \in Workers : v # w => worker'[v] = worker[v]
    BY DEF Becomes, IInv, TypeOK
  <1>2. worker'[w] = m
    BY DEF Becomes, IInv, TypeOK
  <1>3. \A v \in Workers : worker[v] \in Invocation /\ WorkerInv(worker[v])
    BY WorkerTypes DEF IInv
  <1>4. \A v \in Workers : WorkerInv(worker[v])'
    <2>1. ASSUME NEW v \in Workers, v # w PROVE WorkerInv(worker[v])'
      <3>1. PICK n \in Invocation : n = worker[v] /\ WorkerInv(n)
        BY <1>3
      <3>2. WorkerInv(n)'
        BY <3>1, WorkerFrame
      <3> QED
        BY <1>1, <2>1, <3>1, <3>2
    <2> QED
      BY <1>2, <2>1
  <1> QED
    BY <1>4 DEF IInv, TablesInv

\* Only the invocation itself moves.
LEMMA LocalStep ==
  ASSUME IInv, TypeOK', UNCHANGED <<now, registry>>,
         NEW w \in Workers, NEW m \in Invocation, Becomes(w, m), WorkerInv(m)
  PROVE  IInv'
  <1>1. now <= now'
    BY ClockTypes DEF IInv
  <1>2. Kept /\ TablesInv'
    BY <1>1, TablesFrame DEF registry
  <1>3. WorkerInv(m)'
    BY <1>2, WorkerFrame
  <1> QED
    BY <1>2, <1>3, WorkerStep

\* No invocation moves.
LEMMA TablesStep ==
  ASSUME IInv, TypeOK', Kept, TablesInv', UNCHANGED worker
  PROVE  IInv'
  <1>1. ASSUME NEW v \in Workers PROVE WorkerInv(worker[v])'
    <2>1. PICK n \in Invocation : n = worker[v] /\ WorkerInv(n)
      BY WorkerTypes DEF IInv
    <2>2. WorkerInv(n)'
      BY <2>1, WorkerFrame
    <2> QED
      BY <2>1, <2>2
  <1> QED
    BY <1>1 DEF IInv, TablesInv

-----------------------------------------------------------------------------
(* The webhook.                                                            *)

GithubTypes ==
  /\ pr \in [head : Commits, open : BOOLEAN]
  /\ audit \in [Deliveries -> {"accepted", "not supported", None}]
  /\ comments \subseteq Deliveries /\ help \subseteq Deliveries /\ ignored \subseteq Deliveries

LEMMA LocalTypes ==
  ASSUME TypeOK, UNCHANGED <<now, registry>>, GithubTypes',
         attempts' \in 0..MaxAttempts, moves' \in 0..MaxMoves, faults' \in 0..MaxFaults,
         NEW w \in Workers, NEW m \in Invocation, Becomes(w, m)
  PROVE  TypeOK'
  <1>1. worker' \in [Workers -> Invocation]
    BY DEF TypeOK, Becomes
  <1> QED
    BY <1>1 DEF TypeOK, GithubTypes, registry

\* A step of one invocation that changes nothing but what is on GitHub, and its own record.
LEMMA Walk ==
  ASSUME IInv, UNCHANGED <<now, registry, bounds>>, GithubTypes',
         NEW w \in Workers, NEW m \in Invocation, Becomes(w, m), WorkerInv(m)
  PROVE  IInv'
  <1>1. TypeOK'
    BY LocalTypes DEF IInv, TypeOK, bounds
  <1> QED
    BY <1>1, LocalStep

\* An invocation of the webhook goes to its next call, or enters start_run_from_request.
LEMMA WebhookStep ==
  ASSUME IInv, UNCHANGED <<now, registry, bounds>>, GithubTypes',
         NEW w \in Workers, worker[w].pc \in WebhookCalls \ {"pin"},
         NEW pc \in WebhookCalls \cup {"enter"}, Go(w, pc),
         pc \in {"record_accepted", "recheck", "erase_accepted", "enter"} =>
           Lane(worker[w].key) \in {"read", "mutate"}
  PROVE  IInv'
  <1>1. /\ TypeOK /\ WorkerInv(worker[w]) /\ worker[w].key \in Deliveries
        /\ worker[w].commit \in Commits /\ worker[w].answer = None
    BY DEF IInv, WorkerInv, CommandInv, WebhookCalls
  <1>2. pc \in WebhookCalls \cup StartCalls
    BY DEF StartCalls
  <1>3. PICK m \in Invocation :
           /\ Becomes(w, m)
           /\ m.pc = pc /\ m.key = worker[w].key /\ m.commit = worker[w].commit
           /\ m.created = worker[w].created /\ m.asof = worker[w].asof
           /\ m.run = worker[w].run /\ m.answer = worker[w].answer
    BY <1>1, <1>2, GoValue
  <1>4. CommandInv(m)
    BY <1>1, <1>3 DEF CommandInv, WebhookCalls, StartCalls, RunCalls, Keys
  <1>5. HoldsRun(m) /\ Acknowledged(m)
    BY <1>1, <1>3, IngressAssumption DEF HoldsRun, Acknowledged, WebhookCalls, RunCalls
  <1>6. WorkerInv(m)
    BY <1>1, <1>3, <1>4, <1>5 DEF WorkerInv
  <1> QED
    BY <1>3, <1>6, Walk

\* An invocation answers something else than "accepted".
LEMMA AnswerStep ==
  ASSUME IInv, UNCHANGED <<now, registry, bounds>>, GithubTypes', NEW w \in Workers,
         NEW a \in {"not open", "invalid", "conflict", "failed"}, Answer(w, a)
  PROVE  IInv'
  <1>1. TypeOK /\ a \in {"not open", "invalid", "conflict", "accepted", "failed"}
    BY DEF IInv
  <1>2. PICK m \in Invocation :
           /\ Becomes(w, m)
           /\ m.pc = "answered" /\ m.answer = a /\ m.run = worker[w].run
           /\ m.created = 0 /\ m.asof = 0
    BY <1>1, AnswerValue
  <1>3. m.created <= now /\ m.asof <= now
    BY <1>1, <1>2, NoTimes, Zenon
  <1>4. WorkerInv(m)
    BY <1>2, <1>3, AnswerInv DEF Acknowledged
  <1> QED
    BY <1>2, <1>4, Walk

LEMMA DeliveryTypes ==
  ASSUME IInv, NEW w \in Workers, worker[w].pc \in WebhookCalls
  PROVE  DeliveryOf(w) \in Deliveries
  BY DEF IInv, WorkerInv, CommandInv, DeliveryOf

LEMMA GithubFrame ==
  ASSUME IInv, UNCHANGED github
  PROVE  GithubTypes'
  BY DEF IInv, TypeOK, GithubTypes, github

LEMMA ReceiveStep ==
  ASSUME IInv, NEW w \in Workers, NEW d \in Deliveries, Receive(w, d)
  PROVE  IInv'
  <1> DEFINE m == [Idle EXCEPT !.pc = "pin", !.key = d]
  <1>1. Idle \in Invocation /\ "pin" \in WebhookCalls /\ d \in Keys /\ TypeOK
    BY IdleType DEF WebhookCalls, Keys, IInv
  <1>2. m \in Invocation
    BY <1>1 DEF Invocation
  <1>3. m.pc = "pin" /\ m.key = d
    BY <1>1 DEF Invocation
  <1>4. m.created = Idle.created /\ m.asof = Idle.asof /\ m.answer = Idle.answer
    BY <1>1 DEF Invocation
  <1>5. Idle.created = 0 /\ Idle.asof = 0 /\ Idle.answer = None
    BY DEF Idle
  <1>6. Becomes(w, m)
    BY DEF Receive, Becomes
  <1> HIDE DEF m
  <1>7. CommandInv(m)
    BY <1>1, <1>3, <1>4, <1>5 DEF CommandInv, WebhookCalls, StartCalls, RunCalls
  <1>8. HoldsRun(m) /\ Acknowledged(m)
    BY <1>3, <1>4, <1>5, IngressAssumption DEF HoldsRun, Acknowledged, RunCalls
  <1>9. m.created <= now /\ m.asof <= now
    BY <1>1, <1>4, <1>5, ClockTypes
  <1>10. WorkerInv(m)
    BY <1>7, <1>8, <1>9 DEF WorkerInv
  <1>11. GithubTypes'
    BY GithubFrame DEF Receive
  <1>12. attempts' \in 0..MaxAttempts
    <2>1. attempts \in 0..MaxAttempts /\ attempts < MaxAttempts /\ attempts' = attempts + 1
      BY <1>1 DEF TypeOK, Receive
    <2>2. MaxAttempts \in Nat
      BY IngressAssumption
    <2> QED
      BY <2>1, <2>2
  <1>13. TypeOK'
    BY <1>1, <1>2, <1>6, <1>11, <1>12, LocalTypes DEF Receive, TypeOK
  <1> QED
    BY <1>2, <1>6, <1>10, <1>13, LocalStep DEF Receive

LEMMA PinStep ==
  ASSUME IInv, NEW w \in Workers, PinHead(w)
  PROVE  IInv'
  <1> DEFINE m == [worker[w] EXCEPT !.pc = "tidy", !.commit = pr.head, !.seen = pr.open]
  <1>1. worker[w] \in Invocation /\ WorkerInv(worker[w]) /\ worker[w].pc = "pin"
    BY WorkerTypes DEF IInv, PinHead, At
  <1>2. pr.head \in Commits /\ pr.open \in BOOLEAN /\ "tidy" \in WebhookCalls
    BY DEF IInv, TypeOK, WebhookCalls
  <1>3. m \in Invocation
    BY <1>1, <1>2 DEF Invocation
  <1>4. m.pc = "tidy" /\ m.commit = pr.head /\ m.key = worker[w].key /\ m.answer = worker[w].answer
        /\ m.created = worker[w].created /\ m.asof = worker[w].asof
    BY <1>1 DEF Invocation
  <1>5. Becomes(w, m)
    BY DEF PinHead, Becomes
  <1> HIDE DEF m
  <1>6. CommandInv(m)
    BY <1>1, <1>2, <1>4 DEF CommandInv, WorkerInv, WebhookCalls, StartCalls, RunCalls
  <1>7. HoldsRun(m) /\ Acknowledged(m)
    <2>1. m.answer = None
      BY <1>1, <1>4 DEF WorkerInv, CommandInv
    <2> QED
      BY <1>4, <2>1, IngressAssumption DEF HoldsRun, Acknowledged, RunCalls
  <1>8. WorkerInv(m)
    BY <1>1, <1>4, <1>6, <1>7 DEF WorkerInv
  <1>9. GithubTypes'
    BY GithubFrame DEF PinHead
  <1> QED
    BY <1>3, <1>5, <1>8, <1>9, Walk DEF PinHead

LEMMA SweepStep ==
  ASSUME IInv, NEW w \in Workers, SweepHelp(w)
  PROVE  IInv'
  <1> DEFINE pc == CASE ~worker[w].seen -> "record_closed"
                     [] worker[w].seen /\ Command[DeliveryOf(w)] = "invalid" -> "drop_own_help"
                     [] OTHER -> "record_accepted"
             m == [worker[w] EXCEPT !.seen = FALSE, !.pc = pc]
  <1>1. worker[w] \in Invocation /\ WorkerInv(worker[w]) /\ worker[w].pc = "tidy"
    BY WorkerTypes DEF IInv, SweepHelp, At
  <1>2. worker[w].key \in Deliveries /\ worker[w].commit \in Commits /\ worker[w].answer = None
    BY <1>1 DEF WorkerInv, CommandInv, WebhookCalls
  <1>3. pc \in {"record_closed", "drop_own_help", "record_accepted"}
    OBVIOUS
  <1>4. pc = "record_accepted" => Lane(worker[w].key) \in {"read", "mutate"}
    BY <1>2, IngressAssumption DEF Lane, DeliveryOf
  <1>5. Becomes(w, m)
    BY DEF SweepHelp, Becomes
  <1> HIDE DEF pc
  <1>6. m \in Invocation
    BY <1>1, <1>3 DEF Invocation, WebhookCalls
  <1>7. m.pc = pc /\ m.commit = worker[w].commit /\ m.key = worker[w].key
        /\ m.answer = worker[w].answer
        /\ m.created = worker[w].created /\ m.asof = worker[w].asof
    BY <1>1 DEF Invocation
  <1> HIDE DEF m
  <1>8. CommandInv(m)
    BY <1>2, <1>3, <1>4, <1>7 DEF CommandInv, WebhookCalls, StartCalls, RunCalls
  <1>9. HoldsRun(m) /\ Acknowledged(m)
    BY <1>2, <1>3, <1>7, IngressAssumption DEF HoldsRun, Acknowledged, RunCalls
  <1>10. WorkerInv(m)
    BY <1>1, <1>7, <1>8, <1>9 DEF WorkerInv
  <1>11. GithubTypes'
    BY DEF SweepHelp, IInv, TypeOK, GithubTypes
  <1> QED
    BY <1>5, <1>6, <1>10, <1>11, Walk DEF SweepHelp

LEMMA RecordStep ==
  ASSUME IInv, NEW w \in Workers, Record(w)
  PROVE  IInv'
  <1>1. GithubTypes'
    BY DEF Record, RecordRow, UpdateRow, IInv, TypeOK, GithubTypes
  <1>2. CASE At(w, "record_closed") /\ Go(w, "find_ignored")
    BY <1>1, <1>2, WebhookStep DEF Record, At, WebhookCalls
  <1>3. CASE At(w, "record_invalid") /\ Go(w, "post_help")
    BY <1>1, <1>3, WebhookStep DEF Record, At, WebhookCalls
  <1>4. CASE At(w, "record_accepted") /\ Go(w, "recheck")
    <2>1. Lane(worker[w].key) \in {"read", "mutate"}
      BY <1>4 DEF IInv, WorkerInv, CommandInv, At
    <2> QED
      BY <1>1, <1>4, <2>1, WebhookStep DEF Record, At, WebhookCalls
  <1>5. CASE At(w, "deny") /\ Go(w, "find_ignored")
    BY <1>1, <1>5, WebhookStep DEF Record, At, WebhookCalls
  <1> QED
    BY <1>2, <1>3, <1>4, <1>5 DEF Record

LEMMA FindStep ==
  ASSUME IInv, NEW w \in Workers, FindIgnored(w)
  PROVE  IInv'
  <1>1. GithubTypes'
    BY GithubFrame DEF FindIgnored
  <1>2. PICK pc \in {"erase_closed", "post_ignored"} : Go(w, pc)
    BY DEF FindIgnored
  <1> QED
    BY <1>1, <1>2, WebhookStep DEF FindIgnored, At, WebhookCalls

LEMMA PostStep ==
  ASSUME IInv, NEW w \in Workers, PostIgnored(w)
  PROVE  IInv'
  <1>1. DeliveryOf(w) \in Deliveries
    BY DeliveryTypes DEF PostIgnored, At, WebhookCalls
  <1>2. GithubTypes'
    BY <1>1 DEF PostIgnored, IInv, TypeOK, GithubTypes
  <1> QED
    BY <1>2, WebhookStep DEF PostIgnored, At, WebhookCalls

LEMMA HelpStep ==
  ASSUME IInv, NEW w \in Workers, Help(w)
  PROVE  IInv'
  <1>1. DeliveryOf(w) \in Deliveries
    BY DeliveryTypes DEF Help, At, WebhookCalls
  <1>2. GithubTypes'
    BY <1>1 DEF Help, IInv, TypeOK, GithubTypes
  <1>3. CASE At(w, "drop_own_help") /\ Go(w, "record_invalid")
    BY <1>2, <1>3, WebhookStep DEF Help, At, WebhookCalls
  <1>4. CASE At(w, "post_help") /\ Go(w, "drop_help")
    BY <1>2, <1>4, WebhookStep DEF Help, At, WebhookCalls
  <1>5. CASE At(w, "drop_help") /\ Go(w, "erase_invalid")
    BY <1>2, <1>5, WebhookStep DEF Help, At, WebhookCalls
  <1> QED
    BY <1>3, <1>4, <1>5 DEF Help

LEMMA EraseStep ==
  ASSUME IInv, NEW w \in Workers, EraseCommand(w)
  PROVE  IInv'
  <1>1. GithubTypes'
    BY DEF EraseCommand, IInv, TypeOK, GithubTypes
  <1>2. CASE Answer(w, "not open") \/ Answer(w, "invalid")
    BY <1>1, <1>2, AnswerStep DEF EraseCommand
  <1>3. CASE At(w, "erase_accepted") /\ Go(w, "enter")
    <2>1. Lane(worker[w].key) \in {"read", "mutate"}
      BY <1>3 DEF IInv, WorkerInv, CommandInv, At
    <2> QED
      BY <1>1, <1>3, <2>1, WebhookStep DEF EraseCommand, At, WebhookCalls
  <1> QED
    BY <1>2, <1>3 DEF EraseCommand

LEMMA RecheckStep ==
  ASSUME IInv, NEW w \in Workers, Recheck(w)
  PROVE  IInv'
  <1>1. GithubTypes'
    BY GithubFrame DEF Recheck
  <1>2. PICK pc \in {"deny", "erase_accepted", "enter"} : Go(w, pc)
    BY DEF Recheck
  <1>3. Lane(worker[w].key) \in {"read", "mutate"}
    BY DEF Recheck, IInv, WorkerInv, CommandInv, At
  <1> QED
    BY <1>1, <1>2, <1>3, WebhookStep DEF Recheck, At, WebhookCalls

-----------------------------------------------------------------------------
(* Starting a run.                                                         *)

LEMMA CallStep ==
  ASSUME IInv, NEW w \in Workers, NEW k \in ApiKeys, Call(w, k)
  PROVE  IInv'
  <1>1. PICK c \in Commits :
          worker' = [worker EXCEPT ![w] = [Idle EXCEPT !.pc = "enter", !.key = k, !.commit = c]]
    BY DEF Call
  <1> DEFINE m == [Idle EXCEPT !.pc = "enter", !.key = k, !.commit = c]
  <1>2. Idle \in Invocation /\ "enter" \in StartCalls /\ k \in Keys /\ TypeOK
    BY IdleType DEF StartCalls, Keys, IInv
  <1>3. m \in Invocation
    BY <1>2 DEF Invocation
  <1>4. m.pc = "enter" /\ m.key = k /\ m.commit = c
        /\ m.created = Idle.created /\ m.asof = Idle.asof /\ m.answer = Idle.answer
    BY <1>2 DEF Invocation
  <1>5. Idle.created = 0 /\ Idle.asof = 0 /\ Idle.answer = None
    BY DEF Idle
  <1>6. Becomes(w, m)
    BY <1>1 DEF Becomes
  <1> HIDE DEF m
  <1>7. Lane(k) \in {"read", "mutate"}
    BY IngressAssumption DEF Lane
  <1>8. CommandInv(m)
    BY <1>2, <1>4, <1>5, <1>7 DEF CommandInv, WebhookCalls, StartCalls, RunCalls
  <1>9. HoldsRun(m) /\ Acknowledged(m)
    BY <1>4, <1>5, IngressAssumption DEF HoldsRun, Acknowledged, RunCalls
  <1>10. m.created <= now /\ m.asof <= now
    BY <1>2, <1>4, <1>5, ClockTypes
  <1>11. WorkerInv(m)
    BY <1>8, <1>9, <1>10 DEF WorkerInv
  <1>12. GithubTypes'
    BY GithubFrame DEF Call
  <1>13. attempts' \in 0..MaxAttempts
    <2>1. attempts \in 0..MaxAttempts /\ attempts < MaxAttempts /\ attempts' = attempts + 1
      BY <1>2 DEF TypeOK, Call
    <2>2. MaxAttempts \in Nat
      BY IngressAssumption
    <2> QED
      BY <2>1, <2>2
  <1>14. TypeOK'
    BY <1>2, <1>3, <1>6, <1>12, <1>13, LocalTypes DEF Call, TypeOK
  <1> QED
    BY <1>3, <1>6, <1>11, <1>14, LocalStep DEF Call

\* An invocation of start_run_from_request, before it has a run.
LEMMA Unclaimed ==
  ASSUME IInv, NEW w \in Workers, worker[w].pc \in StartCalls, NEW m \in Invocation,
         m.pc \in {"lookup", "claim", "reread"}, m.key = worker[w].key,
         m.commit = worker[w].commit, m.answer = worker[w].answer,
         m.created <= now, m.asof <= now
  PROVE  WorkerInv(m)
  <1>1. /\ worker[w].key \in Keys /\ worker[w].commit \in Commits /\ worker[w].answer = None
        /\ Lane(worker[w].key) \in {"read", "mutate"}
    BY DEF IInv, WorkerInv, CommandInv, StartCalls, RunCalls
  <1>2. CommandInv(m)
    BY <1>1 DEF CommandInv, WebhookCalls, StartCalls, RunCalls
  <1>3. HoldsRun(m) /\ Acknowledged(m)
    BY <1>1, IngressAssumption DEF HoldsRun, Acknowledged, RunCalls
  <1> QED
    BY <1>2, <1>3 DEF WorkerInv

LEMMA EnterStep ==
  ASSUME IInv, NEW w \in Workers, Enter(w)
  PROVE  IInv'
  <1> DEFINE m == [worker[w] EXCEPT !.pc = "lookup", !.created = now]
  <1>1. worker[w] \in Invocation /\ WorkerInv(worker[w]) /\ worker[w].pc = "enter" /\ TypeOK
    BY WorkerTypes DEF IInv, Enter, At
  <1>2. now \in 0..MaxNow
    BY <1>1 DEF TypeOK
  <1>3. m \in Invocation
    BY <1>1, <1>2 DEF Invocation, StartCalls
  <1>4. m.pc = "lookup" /\ m.key = worker[w].key /\ m.commit = worker[w].commit
        /\ m.answer = worker[w].answer /\ m.created = now /\ m.asof = worker[w].asof
    BY <1>1 DEF Invocation
  <1>5. Becomes(w, m)
    BY DEF Enter, Becomes
  <1> HIDE DEF m
  <1>6. m.created <= now /\ m.asof <= now
    BY <1>1, <1>4, ClockTypes DEF WorkerInv
  <1>7. WorkerInv(m)
    BY <1>1, <1>3, <1>4, <1>6, Unclaimed DEF StartCalls
  <1>8. GithubTypes'
    BY GithubFrame DEF Enter
  <1> QED
    BY <1>3, <1>5, <1>7, <1>8, Walk DEF Enter

\* A live claim hands its run to the invocation, if it is for the same request.
LEMMA ReuseStep ==
  ASSUME IInv, NEW w \in Workers, worker[w].pc \in {"lookup", "reread"},
         LiveClaim(worker[w].key), Reuse(w), UNCHANGED <<now, github, registry, bounds>>
  PROVE  IInv'
  <1>1. GithubTypes'
    BY GithubFrame
  <1>2. CASE Answer(w, "conflict")
    BY <1>1, <1>2, AnswerStep
  <1>3. CASE /\ idem[worker[w].key].fingerprint = worker[w].commit
             /\ Obtain(w, idem[worker[w].key].run)
    <2>1. /\ TypeOK /\ worker[w].key \in Keys /\ worker[w].commit \in Commits
          /\ worker[w].answer = None /\ Lane(worker[w].key) \in {"read", "mutate"}
      BY DEF IInv, WorkerInv, CommandInv, StartCalls, RunCalls
    <2>2. PICK k \in Keys : k = worker[w].key
      BY <2>1
    <2>3. idem[k] # None /\ idem[k] \in IdemRow /\ ClaimInv(k)
      BY <2>1, <2>2 DEF LiveClaim, TypeOK, IInv
    <2>4. PICK r \in RunIds : r = idem[k].run
      BY <2>3 DEF IdemRow
    <2>5. Unexpired(r) => Registered(r, k, worker[w].commit)
      BY <1>3, <2>2, <2>3, <2>4 DEF ClaimInv
    <2>6. PICK m \in Invocation :
           /\ Becomes(w, m)
           /\ m.pc = "resume" /\ m.run = r
           /\ m.key = worker[w].key /\ m.commit = worker[w].commit
           /\ m.created = 0 /\ m.asof = 0 /\ m.answer = worker[w].answer
      BY <1>3, <2>1, <2>2, <2>4, ObtainValue
    <2>7. HoldsRun(m)
      BY <2>2, <2>5, <2>6 DEF HoldsRun, RunCalls
    <2>8. CommandInv(m)
      BY <2>1, <2>6 DEF CommandInv, WebhookCalls, StartCalls, RunCalls
    <2>9. Acknowledged(m)
      BY <2>1, <2>6, IngressAssumption DEF Acknowledged
    <2>10. m.created <= now /\ m.asof <= now
      BY <2>1, <2>6, NoTimes, Zenon
    <2>11. WorkerInv(m)
      BY <2>7, <2>8, <2>9, <2>10 DEF WorkerInv
    <2> QED
      BY <1>1, <2>6, <2>11, Walk
  <1> QED
    BY <1>2, <1>3 DEF Reuse, Fingerprint

LEMMA LookupStep ==
  ASSUME IInv, NEW w \in Workers, Lookup(w)
  PROVE  IInv'
  <1>1. worker[w] \in Invocation /\ WorkerInv(worker[w]) /\ worker[w].pc = "lookup" /\ TypeOK
    BY WorkerTypes DEF IInv, Lookup, At
  <1>2. CASE LiveClaim(worker[w].key)
    BY <1>1, <1>2, ReuseStep DEF Lookup
  <1>3. CASE ~LiveClaim(worker[w].key)
    <2> DEFINE m == [worker[w] EXCEPT !.pc = "claim", !.asof = now]
    <2>1. now \in 0..MaxNow
      BY <1>1 DEF TypeOK
    <2>2. m \in Invocation
      BY <1>1, <2>1 DEF Invocation, StartCalls
    <2>3. m.pc = "claim" /\ m.key = worker[w].key /\ m.commit = worker[w].commit
          /\ m.answer = worker[w].answer /\ m.created = worker[w].created /\ m.asof = now
      BY <1>1 DEF Invocation
    <2>4. Becomes(w, m)
      BY <1>3 DEF Lookup, Becomes
    <2> HIDE DEF m
    <2>5. m.created <= now /\ m.asof <= now
      BY <1>1, <2>3, ClockTypes DEF WorkerInv
    <2>6. WorkerInv(m)
      BY <1>1, <2>2, <2>3, <2>5, Unclaimed DEF StartCalls
    <2>7. GithubTypes'
      BY GithubFrame DEF Lookup
    <2> QED
      BY <2>2, <2>4, <2>6, <2>7, Walk DEF Lookup
  <1> QED
    BY <1>2, <1>3

LEMMA RereadStep ==
  ASSUME IInv, NEW w \in Workers, Reread(w)
  PROVE  IInv'
  <1>1. CASE LiveClaim(worker[w].key)
    BY <1>1, ReuseStep DEF Reread, At
  <1>2. CASE Answer(w, "failed")
    BY <1>2, GithubFrame, AnswerStep DEF Reread
  <1> QED
    BY <1>1, <1>2 DEF Reread

\* An invocation goes on with the run it holds.
LEMMA Resumed ==
  ASSUME IInv, NEW w \in Workers, worker[w].pc \in RunCalls,
         NEW pc \in RunCalls, NEW m \in Invocation,
         m.pc = pc, m.key = worker[w].key, m.commit = worker[w].commit,
         m.created = worker[w].created, m.asof = worker[w].asof,
         m.run = worker[w].run, m.answer = worker[w].answer,
         pc \in {"attach", "mark", "verify"} => execs[m.run] # None,
         pc \in {"mark", "verify"} => (Unexpired(m.run) => Attached(m.run))
  PROVE  WorkerInv(m)
  <1>1. /\ worker[w].key \in Keys /\ worker[w].commit \in Commits /\ worker[w].answer = None
        /\ Lane(worker[w].key) \in {"read", "mutate"}
    BY DEF IInv, WorkerInv, CommandInv, StartCalls, RunCalls
  <1>2. CommandInv(m)
    BY <1>1 DEF CommandInv, WebhookCalls, StartCalls, RunCalls
  <1>3. Acknowledged(m)
    BY <1>1, IngressAssumption DEF Acknowledged
  <1>4. HoldsRun(m)
    BY DEF IInv, WorkerInv, HoldsRun
  <1>5. m.created <= now /\ m.asof <= now
    BY DEF IInv, WorkerInv
  <1> QED
    BY <1>2, <1>3, <1>4, <1>5 DEF WorkerInv

\* It says "accepted" of a run that was started.
LEMMA AcceptStep ==
  ASSUME TypeOK, NEW w \in Workers, Answer(w, "accepted"), worker[w].run \in RunIds,
         execs[worker[w].run] # None, Unexpired(worker[w].run) => Attached(worker[w].run)
  PROVE  \E m \in Invocation : Becomes(w, m) /\ WorkerInv(m) /\ m.pc = "answered"
  <1>1. PICK m \in Invocation :
           /\ Becomes(w, m)
           /\ m.pc = "answered" /\ m.answer = "accepted" /\ m.run = worker[w].run
           /\ m.created = 0 /\ m.asof = 0
    BY AnswerValue
  <1>2. m.created <= now /\ m.asof <= now
    BY <1>1, NoTimes, Zenon
  <1>3. WorkerInv(m)
    BY <1>1, <1>2, AnswerInv DEF Acknowledged
  <1> QED
    BY <1>1, <1>3

\* A row that get_run shows is one that is not over.
LEMMA LiveRow ==
  ASSUME IInv, NEW r \in RunIds
  PROVE  /\ Run(r) # None <=> runs[r] # None /\ Unexpired(r)
         /\ Run(r) # None => Run(r) = runs[r]
  BY DEF Run, IInv, RowInv, Unexpired

LEMMA ResumeStep ==
  ASSUME IInv, NEW w \in Workers, Resume(w)
  PROVE  IInv'
  <1>1. WorkerInv(worker[w]) /\ worker[w].pc = "resume" /\ TypeOK /\ GithubTypes'
    BY GithubFrame DEF IInv, Resume, At
  <1>2. worker[w].run \in RunIds
    BY <1>1 DEF WorkerInv, HoldsRun, RunCalls
  <1>3. CASE Run(worker[w].run) # None /\ Run(worker[w].run).arn # None /\ Answer(w, "accepted")
    <2>1. runs[worker[w].run] # None /\ runs[worker[w].run].arn # None
      BY <1>2, <1>3, LiveRow
    <2>2. Attached(worker[w].run) /\ execs[worker[w].run] # None
      BY <1>2, <2>1 DEF IInv, RowInv, Attached
    <2> QED
      BY <1>1, <1>2, <1>3, <2>2, AcceptStep, Walk DEF Resume
  <1>4. CASE Go(w, "start")
    <2>1. PICK m \in Invocation :
           /\ Becomes(w, m)
           /\ m.pc = "start" /\ m.key = worker[w].key /\ m.commit = worker[w].commit
           /\ m.created = worker[w].created /\ m.asof = worker[w].asof
           /\ m.run = worker[w].run /\ m.answer = worker[w].answer
      BY <1>1, <1>4, GoValue DEF StartCalls, RunCalls
    <2>2. WorkerInv(m)
      BY <1>1, <2>1, Resumed DEF RunCalls
    <2> QED
      BY <1>1, <2>1, <2>2, Walk DEF Resume
  <1> QED
    BY <1>3, <1>4 DEF Resume

LEMMA VerifyStep ==
  ASSUME IInv, NEW w \in Workers, VerifyEnded(w)
  PROVE  IInv'
  <1>1. WorkerInv(worker[w]) /\ worker[w].pc = "verify" /\ TypeOK /\ GithubTypes'
    BY GithubFrame DEF IInv, VerifyEnded, At
  <1>2. CASE Answer(w, "accepted")
    <2>1. /\ worker[w].run \in RunIds /\ execs[worker[w].run] # None
          /\ Unexpired(worker[w].run) => Attached(worker[w].run)
      BY <1>1 DEF WorkerInv, HoldsRun, RunCalls
    <2> QED
      BY <1>1, <1>2, <2>1, AcceptStep, Walk DEF VerifyEnded
  <1>3. CASE Answer(w, "failed")
    BY <1>1, <1>3, AnswerStep DEF VerifyEnded
  <1> QED
    BY <1>2, <1>3 DEF VerifyEnded

LEMMA ReturnStep ==
  ASSUME IInv, NEW w \in Workers, Return(w)
  PROVE  IInv'
  <1>1. Becomes(w, Idle) /\ Idle \in Invocation /\ TypeOK
    BY IdleType DEF Return, Becomes, IInv
  <1>2. Idle.created = 0 /\ Idle.asof = 0 /\ Idle.answer = None /\ Idle.pc = "idle"
    BY DEF Idle
  <1>3. Idle.created <= now /\ Idle.asof <= now
    BY <1>1, <1>2, NoTimes
  <1>4. WorkerInv(Idle)
    BY <1>2, <1>3, IngressAssumption
       DEF WorkerInv, CommandInv, HoldsRun, Acknowledged, WebhookCalls, StartCalls, RunCalls
  <1>5. GithubTypes'
    BY GithubFrame DEF Return
  <1> QED
    BY <1>1, <1>4, <1>5, Walk DEF Return

LEMMA EndStep ==
  ASSUME IInv, NEW w \in Workers, EndEarly(w)
  PROVE  IInv'
  <1>1. TypeOK /\ GithubTypes'
    BY GithubFrame DEF IInv, EndEarly
  <1>2. PICK m \in Invocation :
           /\ Becomes(w, m)
           /\ m.pc = "answered" /\ m.answer = "failed" /\ m.run = worker[w].run
           /\ m.created = 0 /\ m.asof = 0
    BY <1>1, AnswerValue DEF EndEarly
  <1>3. m.created <= now /\ m.asof <= now
    BY <1>1, <1>2, NoTimes, Zenon
  <1>4. WorkerInv(m)
    BY <1>2, <1>3, AnswerInv DEF Acknowledged
  <1>5. faults' \in 0..MaxFaults
    <2>1. faults \in 0..MaxFaults /\ faults < MaxFaults /\ faults' = faults + 1
      BY <1>1 DEF TypeOK, EndEarly
    <2>2. MaxFaults \in Nat
      BY IngressAssumption
    <2> QED
      BY <2>1, <2>2
  <1>6. TypeOK'
    BY <1>1, <1>2, <1>5, LocalTypes DEF EndEarly, TypeOK
  <1> QED
    BY <1>2, <1>4, <1>6, LocalStep DEF EndEarly

-----------------------------------------------------------------------------
(* Steps of the registry.                                                  *)

LEMMA TickStep ==
  ASSUME IInv, Tick
  PROVE  IInv'
  <1>1. TypeOK
    BY DEF IInv
  <1>2. now \in 0..MaxNow /\ now < MaxNow /\ now' = now + 1
    BY <1>1 DEF TypeOK, Tick
  <1>3. now' \in 0..MaxNow /\ now <= now'
    BY <1>2, Numbers
  <1>4. TypeOK'
    BY <1>1, <1>3 DEF TypeOK, Tick, github, registry, bounds
  <1>5. Kept /\ TablesInv'
    BY <1>3, <1>4, TablesFrame DEF Tick
  <1> QED
    BY <1>4, <1>5, TablesStep DEF Tick

LEMMA MoveStep ==
  ASSUME IInv, MovePr
  PROVE  IInv'
  <1>1. TypeOK
    BY DEF IInv
  <1>2. moves' \in 0..MaxMoves
    <2>1. moves \in 0..MaxMoves /\ moves < MaxMoves /\ moves' = moves + 1
      BY <1>1 DEF TypeOK, MovePr
    <2>2. MaxMoves \in Nat
      BY IngressAssumption
    <2> QED
      BY <2>1, <2>2
  <1>3. TypeOK' /\ now <= now'
    <2>1. TypeOK'
      BY <1>1, <1>2 DEF TypeOK, MovePr, registry
    <2> QED
      BY <1>1, <2>1, ClockTypes DEF MovePr
  <1>4. Kept /\ TablesInv'
    BY <1>3, TablesFrame DEF MovePr
  <1> QED
    BY <1>3, <1>4, TablesStep DEF MovePr

\* Only rows that are over are reaped.
LEMMA RowTtl ==
  ASSUME IInv, NEW r \in RunIds, runs[r] # None, Unexpired(r)
  PROVE  ~ (runs[r].ttl <= now)
  <1>1. runs[r].ttl = r[1] + Retention
    BY DEF IInv, RowInv
  <1>2. r[1] \in Nat /\ Retention \in Nat /\ now \in Nat
    BY RunIdTypes, Numbers, ClockTypes DEF IInv
  <1> QED
    BY <1>1, <1>2 DEF Unexpired

LEMMA ClaimTtl ==
  ASSUME IInv, NEW k \in Keys, idem[k] # None, Unexpired(idem[k].run)
  PROVE  ~ (idem[k].ttl <= now)
  <1>1. TypeOK /\ ClaimInv(k)
    BY DEF IInv
  <1>2. PICK r \in RunIds : r = idem[k].run
    BY <1>1 DEF TypeOK, IdemRow
  <1>3. idem[k].ttl = r[1] + Retention
    BY <1>1, <1>2 DEF ClaimInv
  <1>4. r[1] \in Nat /\ Retention \in Nat /\ now \in Nat
    BY <1>1, RunIdTypes, Numbers, ClockTypes
  <1> QED
    BY <1>2, <1>3, <1>4 DEF Unexpired

LEMMA ReapStep ==
  ASSUME IInv, ReapRow
  PROVE  IInv'
  <1>1. TypeOK /\ now' = now /\ execs' = execs /\ worker' = worker
    BY DEF IInv, ReapRow
  <1>2. \A r : Unexpired(r)' <=> Unexpired(r)
    BY <1>1 DEF Unexpired
  <1>3. ASSUME NEW k \in Keys, idem[k] # None, idem[k].ttl <= now,
               idem' = [idem EXCEPT ![k] = None], runs' = runs
        PROVE  IInv'
    <2>1. TypeOK'
      BY <1>1, <1>3 DEF TypeOK, ReapRow, github, bounds
    <2>2. Kept
      BY <1>1, <1>2, <1>3, ClockTypes DEF Kept, Registered, Attached
    <2>3. \A j \in Keys : idem'[j] # None => j # k /\ idem'[j] = idem[j]
      BY <1>1, <1>3 DEF TypeOK
    <2>4. \A r \in RunIds : RowInv(r)'
      <3>1. ASSUME NEW r \in RunIds, runs[r] # None, Unexpired(r)
            PROVE  runs[r].key \in Keys /\ runs[r].key # k
        <4>1. runs[r].key \in Keys
          BY <1>1, <3>1 DEF TypeOK, RunRow
        <4>2. idem[runs[r].key] # None /\ idem[runs[r].key].run = r
          BY <3>1 DEF IInv, RowInv
        <4> QED
          BY <1>3, <3>1, <4>1, <4>2, ClaimTtl
      <3>2. ASSUME NEW r \in RunIds, runs[r] # None, Unexpired(r)
            PROVE  idem'[runs[r].key] = idem[runs[r].key]
        BY <1>1, <1>3, <3>1, <3>2 DEF TypeOK
      <3> QED
        BY <1>1, <1>2, <1>3, <3>2 DEF IInv, RowInv
    <2>5. \A r \in RunIds : ExecutionInv(r)'
      BY <1>1, <1>2, <1>3 DEF IInv, ExecutionInv, Registered
    <2>6. \A j \in Keys : ClaimInv(j)'
      BY <1>1, <1>2, <1>3, <2>3 DEF IInv, ClaimInv, Registered
    <2> QED
      BY <1>1, <2>1, <2>2, <2>4, <2>5, <2>6, TablesStep DEF TablesInv
  <1>4. ASSUME NEW q \in RunIds, runs[q] # None, runs[q].ttl <= now,
               runs' = [runs EXCEPT ![q] = None], idem' = idem
        PROVE  IInv'
    <2>1. TypeOK'
      BY <1>1, <1>4 DEF TypeOK, ReapRow, github, bounds
    <2>2. \A r \in RunIds : Unexpired(r) => runs'[r] = runs[r]
      BY <1>1, <1>4, RowTtl DEF TypeOK
    <2>3. Kept
      BY <1>1, <1>2, <2>2, ClockTypes DEF Kept, Registered, Attached
    <2>4. \A r \in RunIds : runs'[r] # None => runs'[r] = runs[r]
      BY <1>1, <1>4 DEF TypeOK
    <2>5. \A r \in RunIds : RowInv(r)'
      BY <1>1, <1>2, <1>4, <2>4 DEF IInv, RowInv
    <2>6. \A r \in RunIds : ExecutionInv(r)'
      BY <1>1, <1>2, <2>2 DEF IInv, ExecutionInv, Registered
    <2>7. \A j \in Keys : ClaimInv(j)'
      <3>1. \A j \in Keys : idem[j] # None => idem[j].run \in RunIds
        BY <1>1 DEF TypeOK, IdemRow
      <3> QED
        BY <1>1, <1>2, <1>4, <2>2, <3>1 DEF IInv, ClaimInv, Registered
    <2> QED
      BY <1>1, <2>1, <2>3, <2>5, <2>6, <2>7, TablesStep DEF TablesInv
  <1> QED
    BY <1>3, <1>4 DEF ReapRow

\* A row that changes its status, or gets the ARN of the execution that was started for it.
LEMMA RowUpdate ==
  ASSUME IInv, NEW r \in RunIds, NEW row \in RunRow, runs[r] # None,
         runs' = [runs EXCEPT ![r] = row], UNCHANGED <<now, idem, execs>>,
         row.key = runs[r].key, row.commit = runs[r].commit, row.ttl = runs[r].ttl,
         \/ row.arn = runs[r].arn
         \/ runs[r].arn = None /\ row.arn = Arn(r) /\ execs[r] # None
  PROVE  Kept /\ TablesInv' /\ runs' \in [RunIds -> RunRow \cup {None}]
  <1>1. TypeOK /\ row # None /\ runs[r] \in RunRow
    BY IngressAssumption DEF IInv, TypeOK
  <1>2. runs' \in [RunIds -> RunRow \cup {None}]
    BY <1>1 DEF TypeOK
  <1>3. runs'[r] = row /\ \A q \in RunIds : q # r => runs'[q] = runs[q]
    BY <1>1 DEF TypeOK
  <1>4. \A q : Unexpired(q)' <=> Unexpired(q)
    BY DEF Unexpired
  <1>5. \A q \in RunIds : \A k, c : Registered(q, k, c) <=> Registered(q, k, c)'
    BY <1>1, <1>3 DEF Registered
  <1>6. \A q \in RunIds : Attached(q) => Attached(q)'
    BY <1>1, <1>3, IngressAssumption DEF Attached, Arn
  <1>7. Kept
    BY <1>1, <1>5, <1>6, ClockTypes DEF Kept
  <1>8. \A q \in RunIds : RowInv(q)'
    <2>1. \A q \in RunIds : q # r => RowInv(q)'
      BY <1>3, <1>4 DEF IInv, RowInv
    <2>2. RowInv(r)'
      BY <1>1, <1>3, <1>4 DEF IInv, RowInv
    <2> QED
      BY <2>1, <2>2
  <1>9. \A q \in RunIds : ExecutionInv(q)'
    BY <1>4, <1>5 DEF IInv, ExecutionInv
  <1>10. \A k \in Keys : ClaimInv(k)'
    <2>1. \A k \in Keys : idem[k] # None => idem[k].run \in RunIds
      BY <1>1 DEF TypeOK, IdemRow
    <2> QED
      BY <1>4, <1>5, <2>1 DEF IInv, ClaimInv
  <1> QED
    BY <1>2, <1>7, <1>8, <1>9, <1>10 DEF TablesInv

LEMMA StatusUpdate ==
  ASSUME IInv, NEW r \in RunIds, NEW status \in Statuses, runs[r] # None,
         runs' = [runs EXCEPT ![r].status = status], UNCHANGED <<now, idem, execs>>
  PROVE  Kept /\ TablesInv' /\ runs' \in [RunIds -> RunRow \cup {None}]
  <1> DEFINE row == [runs[r] EXCEPT !.status = status]
  <1>1. runs[r] \in RunRow
    BY DEF IInv, TypeOK
  <1>2. row \in RunRow
    BY <1>1 DEF RunRow
  <1>3. row.key = runs[r].key /\ row.commit = runs[r].commit /\ row.ttl = runs[r].ttl
        /\ row.arn = runs[r].arn
    BY <1>1 DEF RunRow
  <1>4. runs' = [runs EXCEPT ![r] = row]
    OBVIOUS
  <1> HIDE DEF row
  <1> QED
    BY <1>2, <1>3, <1>4, RowUpdate

LEMMA ExecutionStep ==
  ASSUME IInv, NEW r \in RunIds, ExecutionEnds(r)
  PROVE  IInv'
  <1>1. PICK status \in {"succeeded", "failed"} :
          runs[r] # None /\ runs' = [runs EXCEPT ![r].status = status]
    BY DEF ExecutionEnds, MayBecome
  <1>2. Kept /\ TablesInv' /\ runs' \in [RunIds -> RunRow \cup {None}]
    BY <1>1, StatusUpdate DEF ExecutionEnds, Statuses
  <1>3. TypeOK'
    BY <1>2 DEF ExecutionEnds, IInv, TypeOK, github, bounds
  <1> QED
    BY <1>2, <1>3, TablesStep DEF ExecutionEnds

\* A step of one invocation that changes a table.
LEMMA TableTypes ==
  ASSUME TypeOK, UNCHANGED <<now, github, bounds>>,
         idem' \in [Keys -> IdemRow \cup {None}], runs' \in [RunIds -> RunRow \cup {None}],
         execs' \in [RunIds -> Execution \cup {None}],
         NEW w \in Workers, NEW m \in Invocation, Becomes(w, m)
  PROVE  TypeOK'
  <1>1. worker' \in [Workers -> Invocation]
    BY DEF TypeOK, Becomes
  <1> QED
    BY <1>1 DEF TypeOK, github, bounds

LEMMA StartStep ==
  ASSUME IInv, NEW w \in Workers, StartExecution(w)
  PROVE  IInv'
  <1>1. /\ WorkerInv(worker[w]) /\ worker[w].pc = "start" /\ TypeOK
        /\ now' = now /\ idem' = idem /\ runs' = runs
    BY DEF IInv, StartExecution, At
  <1>2. worker[w].key \in Keys /\ worker[w].commit \in Commits
    BY <1>1 DEF WorkerInv, CommandInv, StartCalls, RunCalls
  <1>3. PICK r \in RunIds : r = worker[w].run
    BY <1>1 DEF WorkerInv, HoldsRun, RunCalls
  <1>4. Unexpired(r) => Registered(r, worker[w].key, worker[w].commit)
    BY <1>1, <1>3 DEF WorkerInv, HoldsRun, RunCalls
  <1> DEFINE e == [key |-> worker[w].key, commit |-> worker[w].commit]
  <1>5. e \in Execution /\ e # None /\ e.key = worker[w].key /\ e.commit = worker[w].commit
    BY <1>2, IngressAssumption DEF Execution
  <1> HIDE DEF e
  <1>6. execs' = [execs EXCEPT ![r] = IF execs[r] = None THEN e ELSE execs[r]]
    BY <1>3 DEF StartExecution, e
  <1>7. execs' \in [RunIds -> Execution \cup {None}]
    BY <1>1, <1>5, <1>6 DEF TypeOK
  <1>8. /\ execs'[r] # None
        /\ execs[r] # None => execs'[r] = execs[r]
        /\ execs[r] = None => execs'[r] = e
        /\ \A q \in RunIds : q # r => execs'[q] = execs[q]
    BY <1>1, <1>5, <1>6 DEF TypeOK
  <1>9. \A q : Unexpired(q)' <=> Unexpired(q)
    BY <1>1 DEF Unexpired
  <1>10. Kept
    BY <1>1, <1>8, <1>9, ClockTypes DEF Kept, Registered, Attached
  <1>11. TablesInv'
    <2>1. \A q \in RunIds : RowInv(q)'
      BY <1>1, <1>8, <1>9 DEF IInv, RowInv
    <2>2. \A q \in RunIds : ExecutionInv(q)'
      <3>1. \A q \in RunIds : q # r => ExecutionInv(q)'
        BY <1>1, <1>8, <1>9 DEF IInv, ExecutionInv, Registered
      <3>2. CASE execs[r] # None
        <4>1. ExecutionInv(r)'
          BY <1>1, <1>8, <1>9, <3>2 DEF IInv, ExecutionInv, Registered
        <4> QED
          BY <3>1, <4>1
      <3>3. CASE execs[r] = None
        <4>1. ExecutionInv(r)'
          BY <1>1, <1>4, <1>5, <1>8, <1>9, <3>3 DEF ExecutionInv, Registered
        <4> QED
          BY <3>1, <4>1
      <3> QED
        BY <3>2, <3>3
    <2>3. \A k \in Keys : ClaimInv(k)'
      BY <1>1, <1>9 DEF IInv, ClaimInv, Registered
    <2> QED
      BY <2>1, <2>2, <2>3 DEF TablesInv
  <1>12. PICK m \in Invocation :
           /\ Becomes(w, m)
           /\ m.pc = "attach" /\ m.key = worker[w].key /\ m.commit = worker[w].commit
           /\ m.created = worker[w].created /\ m.asof = worker[w].asof
           /\ m.run = worker[w].run /\ m.answer = worker[w].answer
    BY <1>1, GoValue DEF StartExecution, StartCalls, RunCalls
  <1>13. TypeOK'
    BY <1>1, <1>7, <1>12, TableTypes DEF StartExecution, TypeOK
  <1>14. WorkerInv(m)'
    <2>1. /\ CommandInv(m) /\ m.answer = None /\ m.created <= now /\ m.asof <= now
      <3>1. worker[w].answer = None /\ Lane(worker[w].key) \in {"read", "mutate"}
        BY <1>1 DEF WorkerInv, CommandInv, StartCalls, RunCalls
      <3>2. CommandInv(m)
        BY <1>2, <1>12, <3>1 DEF CommandInv, WebhookCalls, StartCalls, RunCalls
      <3> QED
        BY <1>1, <1>12, <3>1, <3>2 DEF WorkerInv
    <2>2. HoldsRun(m)'
      BY <1>1, <1>3, <1>4, <1>8, <1>9, <1>12 DEF HoldsRun, Registered
    <2>3. Acknowledged(m)' /\ CommandInv(m)'
      BY <2>1, IngressAssumption DEF Acknowledged, CommandInv
    <2> QED
      BY <1>1, <2>1, <2>2, <2>3 DEF WorkerInv
  <1> QED
    BY <1>10, <1>11, <1>12, <1>13, <1>14, WorkerStep

LEMMA AttachValue ==
  ASSUME TypeOK, NEW r \in RunIds, runs[r] # None, runs' = [runs EXCEPT ![r].arn = Arn(r)]
  PROVE  Attached(r)'
  <1> DEFINE row == [runs[r] EXCEPT !.arn = Arn(r)]
  <1>1. runs[r] \in RunRow
    BY DEF TypeOK
  <1>2. row \in RunRow /\ row.arn = Arn(r)
    BY <1>1 DEF RunRow, Arn
  <1>3. runs' = [runs EXCEPT ![r] = row]
    OBVIOUS
  <1> HIDE DEF row
  <1>4. runs'[r] = row /\ row # None
    BY <1>2, <1>3, IngressAssumption DEF TypeOK
  <1> QED
    BY <1>2, <1>4 DEF Attached, Arn

LEMMA AttachStep ==
  ASSUME IInv, NEW w \in Workers, AttachArn(w)
  PROVE  IInv'
  <1>1. /\ WorkerInv(worker[w]) /\ worker[w].pc = "attach" /\ TypeOK
        /\ now' = now /\ idem' = idem /\ execs' = execs /\ now <= now'
    BY ClockTypes DEF IInv, AttachArn, At
  <1>2. PICK r \in RunIds : r = worker[w].run
    BY <1>1 DEF WorkerInv, HoldsRun, RunCalls
  <1>3. execs[r] # None
    BY <1>1, <1>2 DEF WorkerInv, HoldsRun
  <1>4. PICK m \in Invocation :
           /\ Becomes(w, m)
           /\ m.pc = "mark" /\ m.key = worker[w].key /\ m.commit = worker[w].commit
           /\ m.created = worker[w].created /\ m.asof = worker[w].asof
           /\ m.run = worker[w].run /\ m.answer = worker[w].answer
    BY <1>1, GoValue DEF AttachArn, StartCalls, RunCalls
  <1>5. Kept /\ TablesInv' /\ TypeOK'
    <2>1. CASE runs' = runs
      <3>1. TypeOK'
        BY <1>1, <1>4, <2>1, TableTypes DEF AttachArn, TypeOK
      <3> QED
        BY <1>1, <2>1, <3>1, TablesFrame DEF registry
    <2>2. CASE runs[r] # None /\ runs[r].arn = None /\ runs' = [runs EXCEPT ![r].arn = Arn(r)]
      <3> DEFINE row == [runs[r] EXCEPT !.arn = Arn(r)]
      <3>1. runs[r] \in RunRow
        BY <1>1, <2>2 DEF TypeOK
      <3>2. row \in RunRow
        BY <3>1 DEF RunRow, Arn
      <3>3. row.key = runs[r].key /\ row.commit = runs[r].commit /\ row.ttl = runs[r].ttl
            /\ row.arn = Arn(r)
        BY <3>1 DEF RunRow
      <3>4. runs' = [runs EXCEPT ![r] = row]
        BY <2>2
      <3> HIDE DEF row
      <3>5. Kept /\ TablesInv' /\ runs' \in [RunIds -> RunRow \cup {None}]
        BY <1>1, <1>3, <2>2, <3>2, <3>3, <3>4, RowUpdate
      <3>6. TypeOK'
        BY <1>1, <1>4, <3>5, TableTypes DEF AttachArn, TypeOK
      <3> QED
        BY <3>5, <3>6
    <2> QED
      BY <1>2, <2>1, <2>2 DEF AttachArn
  <1>6. Unexpired(r)' => Attached(r)'
    <2>1. Unexpired(r)' => runs[r] # None
      BY <1>1, <1>2 DEF WorkerInv, HoldsRun, RunCalls, Registered, Unexpired
    <2>2. runs[r] # None /\ runs[r].arn = None => Attached(r)'
      BY <1>1, <1>2, AttachValue DEF AttachArn
    <2>3. runs[r] # None /\ runs[r].arn # None => Attached(r)'
      BY <1>2 DEF AttachArn, IInv, RowInv, Attached, Arn
    <2> QED
      BY <2>1, <2>2, <2>3
  <1>7. WorkerInv(m)'
    <2>1. CommandInv(m) /\ m.answer = None /\ m.created <= now /\ m.asof <= now
      <3>1. /\ worker[w].answer = None /\ Lane(worker[w].key) \in {"read", "mutate"}
            /\ worker[w].key \in Keys /\ worker[w].commit \in Commits
        BY <1>1 DEF WorkerInv, CommandInv, StartCalls, RunCalls
      <3>2. CommandInv(m)
        BY <1>4, <3>1 DEF CommandInv, WebhookCalls, StartCalls, RunCalls
      <3> QED
        BY <1>1, <1>4, <3>1, <3>2 DEF WorkerInv
    <2>2. m.pc \in RunCalls /\ Unexpired(m.run)' => Registered(m.run, m.key, m.commit)'
      <3>1. Unexpired(r)' => Unexpired(r)
        BY <1>1 DEF Unexpired
      <3>2. Unexpired(r) => Registered(r, m.key, m.commit)
        BY <1>1, <1>2, <1>4 DEF WorkerInv, HoldsRun, RunCalls
      <3>3. m.key \in Keys /\ m.commit \in Commits
        BY <1>4, <2>1 DEF CommandInv, StartCalls, RunCalls
      <3> QED
        BY <1>2, <1>4, <1>5, <3>1, <3>2, <3>3 DEF Kept
    <2>3. HoldsRun(m)'
      BY <1>1, <1>2, <1>3, <1>4, <1>6, <2>2 DEF HoldsRun
    <2>4. Acknowledged(m)' /\ CommandInv(m)'
      BY <2>1, IngressAssumption DEF Acknowledged, CommandInv
    <2> QED
      BY <1>1, <2>1, <2>3, <2>4 DEF WorkerInv
  <1> QED
    BY <1>4, <1>5, <1>7, WorkerStep

LEMMA MarkStep ==
  ASSUME IInv, NEW w \in Workers, MarkRunning(w)
  PROVE  IInv'
  <1>1. /\ WorkerInv(worker[w]) /\ worker[w].pc = "mark" /\ TypeOK
        /\ now' = now /\ idem' = idem /\ execs' = execs
    BY DEF IInv, MarkRunning, At
  <1>2. PICK r \in RunIds : r = worker[w].run
    BY <1>1 DEF WorkerInv, HoldsRun, RunCalls
  <1>3. execs[r] # None /\ (Unexpired(r) => Attached(r))
    BY <1>1, <1>2 DEF WorkerInv, HoldsRun
  <1>4. CASE /\ runs[r] # None /\ runs' = [runs EXCEPT ![r].status = "running"]
             /\ Answer(w, "accepted")
    <2>1. Kept /\ TablesInv' /\ runs' \in [RunIds -> RunRow \cup {None}]
      BY <1>1, <1>4, StatusUpdate DEF Statuses
    <2>2. PICK m \in Invocation : Becomes(w, m) /\ WorkerInv(m) /\ m.pc = "answered"
      BY <1>1, <1>2, <1>3, <1>4, AcceptStep
    <2>3. TypeOK'
      BY <1>1, <2>1, <2>2, TableTypes DEF MarkRunning, TypeOK
    <2>4. WorkerInv(m)'
      BY <2>1, <2>2, <2>3, WorkerFrame
    <2> QED
      BY <2>1, <2>2, <2>3, <2>4, WorkerStep
  <1>5. CASE Go(w, "verify") /\ UNCHANGED runs
    <2>1. PICK m \in Invocation :
           /\ Becomes(w, m)
           /\ m.pc = "verify" /\ m.key = worker[w].key /\ m.commit = worker[w].commit
           /\ m.created = worker[w].created /\ m.asof = worker[w].asof
           /\ m.run = worker[w].run /\ m.answer = worker[w].answer
      BY <1>1, <1>5, GoValue DEF StartCalls, RunCalls
    <2>2. WorkerInv(m)
      BY <1>1, <1>2, <1>3, <2>1, Resumed DEF RunCalls
    <2>3. GithubTypes'
      BY GithubFrame DEF MarkRunning
    <2> QED
      BY <1>5, <2>1, <2>2, <2>3, Walk DEF MarkRunning, registry
  <1> QED
    BY <1>2, <1>4, <1>5 DEF MarkRunning, MayBecome

\* The transaction writes the first row of a run id and the claim of a key that had none, or an
\* expired one.
LEMMA ClaimTables ==
  ASSUME IInv, NEW k \in Keys, NEW r \in RunIds, NEW c \in Commits,
         NEW x \in IdemRow, NEW y \in RunRow,
         runs[r] = None,
         idem[k] = None \/ ~Unexpired(idem[k].run),
         x.run = r, x.ttl = r[1] + Retention, x.fingerprint = c,
         y.key = k, y.commit = c, y.arn = None, y.ttl = r[1] + Retention,
         idem' = [idem EXCEPT ![k] = x], runs' = [runs EXCEPT ![r] = y],
         UNCHANGED <<now, execs>>
  PROVE  Kept /\ TablesInv' /\ Registered(r, k, c)'
  <1>1. TypeOK /\ x # None /\ y # None
    BY IngressAssumption DEF IInv
  <1>2. idem'[k] = x /\ \A j \in Keys : j # k => idem'[j] = idem[j]
    BY <1>1 DEF TypeOK
  <1>3. runs'[r] = y /\ \A q \in RunIds : q # r => runs'[q] = runs[q]
    BY <1>1 DEF TypeOK
  <1>4. \A q : Unexpired(q)' <=> Unexpired(q)
    BY DEF Unexpired
  <1>5. \A q \in RunIds : \A j, d : Registered(q, j, d) => q # r /\ Registered(q, j, d)'
    BY <1>3 DEF Registered
  <1>6. Kept
    BY <1>1, <1>3, <1>5, ClockTypes DEF Kept, Attached
  <1>7. \A q \in RunIds : RowInv(q)'
    <2>1. RowInv(r)'
      BY <1>1, <1>2, <1>3 DEF RowInv
    <2>2. ASSUME NEW q \in RunIds, q # r PROVE RowInv(q)'
      <3>1. ASSUME runs[q] # None, Unexpired(q)
            PROVE  idem'[runs[q].key] = idem[runs[q].key]
        <4>1. runs[q].key \in Keys
          BY <1>1, <3>1 DEF TypeOK, RunRow
        <4>2. idem[runs[q].key] # None /\ idem[runs[q].key].run = q
          BY <3>1 DEF IInv, RowInv
        <4> QED
          BY <1>2, <3>1, <4>1, <4>2
      <3> QED
        BY <1>3, <1>4, <2>2, <3>1 DEF IInv, RowInv
    <2> QED
      BY <2>1, <2>2
  <1>8. \A q \in RunIds : ExecutionInv(q)'
    BY <1>4, <1>5 DEF IInv, ExecutionInv
  <1>9. \A j \in Keys : ClaimInv(j)'
    <2>1. Registered(r, k, c)'
      BY <1>1, <1>3 DEF Registered
    <2>2. ClaimInv(k)'
      BY <1>2, <2>1 DEF ClaimInv
    <2>3. \A j \in Keys : idem[j] # None => idem[j].run \in RunIds
      BY <1>1 DEF TypeOK, IdemRow
    <2>4. \A j \in Keys : j # k => ClaimInv(j)'
      BY <1>2, <1>4, <1>5, <2>3 DEF IInv, ClaimInv
    <2> QED
      BY <2>2, <2>4
  <1>10. Registered(r, k, c)'
    BY <1>1, <1>3 DEF Registered
  <1> QED
    BY <1>6, <1>7, <1>8, <1>9, <1>10 DEF TablesInv

LEMMA ClaimStep ==
  ASSUME IInv, NEW w \in Workers, Claim(w)
  PROVE  IInv'
  <1>1. WorkerInv(worker[w]) /\ worker[w].pc = "claim" /\ TypeOK
    BY DEF IInv, Claim, At
  <1>2. /\ worker[w].answer = None /\ Lane(worker[w].key) \in {"read", "mutate"}
        /\ worker[w].key \in Keys /\ worker[w].commit \in Commits
    BY <1>1 DEF WorkerInv, CommandInv, StartCalls, RunCalls
  <1>3. PICK k \in Keys, c \in Commits : k = worker[w].key /\ c = worker[w].commit
    BY <1>2
  <1>4. PICK t \in 0..MaxNow : t = worker[w].created
    BY <1>1, WorkerTypes
  <1>5. PICK r \in RunIds : r = <<t, Lane(k)>> /\ r[1] = t
    <2>1. <<t, Lane(k)>> \in RunIds /\ <<t, Lane(k)>>[1] = t
      BY <1>2, <1>3 DEF RunIds
    <2> QED
      BY <2>1
  <1>6. t + Retention \in Nat
    BY Numbers
  <1>7. CASE /\ Claimable(w, r)
             /\ idem' = [idem EXCEPT ![k] = [run |-> r, ttl |-> t + Retention, fingerprint |-> c]]
             /\ runs' = [runs EXCEPT ![r] = [key |-> k, commit |-> c, arn |-> None,
                            status |-> "accepted", created |-> t, ttl |-> t + Retention]]
             /\ Obtain(w, r)
    <2>1. PICK x \in IdemRow :
            /\ x = [run |-> r, ttl |-> t + Retention, fingerprint |-> c]
            /\ x.run = r /\ x.ttl = r[1] + Retention /\ x.fingerprint = c
      <3>1. [run |-> r, ttl |-> t + Retention, fingerprint |-> c] \in IdemRow
        BY <1>6 DEF IdemRow
      <3> QED
        BY <1>5, <3>1
    <2>2. PICK y \in RunRow :
            /\ y = [key |-> k, commit |-> c, arn |-> None,
                    status |-> "accepted", created |-> t, ttl |-> t + Retention]
            /\ y.key = k /\ y.commit = c /\ y.arn = None /\ y.ttl = r[1] + Retention
      <3>1. [key |-> k, commit |-> c, arn |-> None,
             status |-> "accepted", created |-> t, ttl |-> t + Retention] \in RunRow
        BY <1>6 DEF RunRow, Statuses
      <3> QED
        BY <1>5, <3>1
    <2>3. idem' = [idem EXCEPT ![k] = x] /\ runs' = [runs EXCEPT ![r] = y]
      BY <1>7, <2>1, <2>2
    <2>4. idem[k] = None \/ ~Unexpired(idem[k].run)
      <3>1. ASSUME idem[k] # None, idem[k].ttl <= worker[w].asof
            PROVE  idem[k].ttl <= now
        <4>1. idem[k].ttl \in Nat
          BY <1>1, <3>1 DEF TypeOK, IdemRow
        <4>2. worker[w].asof \in Nat /\ now \in Nat /\ worker[w].asof <= now
          BY <1>1, WorkerTypes, ClockTypes DEF WorkerInv
        <4> QED
          BY <3>1, <4>1, <4>2
      <3> QED
        BY <1>3, <1>7, <3>1, ClaimTtl DEF Claimable
    <2>5. runs[r] = None /\ UNCHANGED <<now, execs>>
      BY <1>7 DEF Claimable, Claim
    <2>6. Kept /\ TablesInv' /\ Registered(r, k, c)'
      BY <1>5, <2>1, <2>2, <2>3, <2>4, <2>5, ClaimTables
    <2>7. PICK m \in Invocation :
           /\ Becomes(w, m)
           /\ m.pc = "resume" /\ m.run = r
           /\ m.key = worker[w].key /\ m.commit = worker[w].commit
           /\ m.created = 0 /\ m.asof = 0 /\ m.answer = worker[w].answer
      BY <1>1, <1>5, <1>7, ObtainValue
    <2>8. TypeOK'
      <3>1. idem' \in [Keys -> IdemRow \cup {None}] /\ runs' \in [RunIds -> RunRow \cup {None}]
        BY <1>1, <2>1, <2>2, <2>3 DEF TypeOK
      <3>2. execs' \in [RunIds -> Execution \cup {None}]
        BY <1>1, <2>5 DEF TypeOK
      <3> QED
        BY <1>1, <2>7, <3>1, <3>2, TableTypes DEF Claim
    <2>9. WorkerInv(m)'
      <3>1. CommandInv(m)
        BY <1>2, <2>7 DEF CommandInv, WebhookCalls, StartCalls, RunCalls
      <3>2. HoldsRun(m)'
        BY <1>3, <1>5, <2>6, <2>7 DEF HoldsRun, RunCalls
      <3>3. CommandInv(m)' /\ Acknowledged(m)'
        BY <1>2, <2>7, <3>1, IngressAssumption DEF CommandInv, Acknowledged
      <3>4. m.created <= now /\ m.asof <= now
        BY <1>1, <2>7, NoTimes, Zenon
      <3> QED
        BY <2>5, <3>2, <3>3, <3>4 DEF WorkerInv
    <2> QED
      BY <2>6, <2>7, <2>8, <2>9, WorkerStep
  <1>8. CASE Go(w, "reread") /\ UNCHANGED <<idem, runs>>
    <2>1. PICK m \in Invocation :
           /\ Becomes(w, m)
           /\ m.pc = "reread" /\ m.key = worker[w].key /\ m.commit = worker[w].commit
           /\ m.created = worker[w].created /\ m.asof = worker[w].asof
           /\ m.run = worker[w].run /\ m.answer = worker[w].answer
      BY <1>1, <1>8, GoValue DEF StartCalls, RunCalls
    <2>2. WorkerInv(m)
      BY <1>1, <2>1, Unclaimed DEF WorkerInv, StartCalls
    <2>3. GithubTypes'
      BY GithubFrame DEF Claim
    <2> QED
      BY <1>8, <2>1, <2>2, <2>3, Walk DEF Claim, registry
  <1> QED
    BY <1>3, <1>4, <1>5, <1>7, <1>8 DEF Claim, Fingerprint

-----------------------------------------------------------------------------
(* The invariant and what it implies.                                      *)

LEMMA InitInv == Init => IInv
  <1> SUFFICES ASSUME Init PROVE IInv
    OBVIOUS
  <1>1. now \in 0..MaxNow /\ now = 0
    BY Numbers DEF Init
  <1>2. attempts \in 0..MaxAttempts /\ moves \in 0..MaxMoves /\ faults \in 0..MaxFaults
    <2>1. MaxAttempts \in Nat /\ MaxMoves \in Nat /\ MaxFaults \in Nat
      BY IngressAssumption
    <2> QED
      BY <2>1 DEF Init
  <1>3. worker \in [Workers -> Invocation]
    BY IdleType DEF Init
  <1>4. TypeOK
    BY <1>1, <1>2, <1>3 DEF Init, TypeOK
  <1>5. \A r \in RunIds : RowInv(r) /\ ExecutionInv(r)
    BY DEF Init, RowInv, ExecutionInv
  <1>6. \A k \in Keys : ClaimInv(k)
    BY DEF Init, ClaimInv
  <1>7. WorkerInv(Idle)
    <2>1. Idle.created = 0 /\ Idle.asof = 0 /\ Idle.answer = None /\ Idle.pc = "idle"
      BY DEF Idle
    <2>2. Idle.created <= now /\ Idle.asof <= now
      BY <1>4, <2>1, NoTimes
    <2> QED
      BY <2>1, <2>2, IngressAssumption
         DEF WorkerInv, CommandInv, HoldsRun, Acknowledged, WebhookCalls, StartCalls, RunCalls
  <1>8. \A w \in Workers : WorkerInv(worker[w])
    BY <1>7 DEF Init
  <1> QED
    BY <1>4, <1>5, <1>6, <1>8 DEF IInv

LEMMA StepInv == IInv /\ [Next]_vars => IInv'
  <1> SUFFICES ASSUME IInv, [Next]_vars PROVE IInv'
    OBVIOUS
  <1>1. CASE UNCHANGED vars
    <2>1. TypeOK /\ TypeOK' /\ now' = now /\ worker' = worker /\ UNCHANGED registry
      BY <1>1 DEF vars, registry, IInv, TypeOK
    <2>2. Kept /\ TablesInv'
      BY <2>1, ClockTypes, TablesFrame
    <2> QED
      BY <2>1, <2>2, TablesStep
  <1>2. CASE Tick \/ MovePr \/ ReapRow
    BY <1>2, TickStep, MoveStep, ReapStep
  <1>3. CASE \E r \in RunIds : ExecutionEnds(r)
    BY <1>3, ExecutionStep
  <1>4. ASSUME NEW w \in Workers, Step(w) PROVE IInv'
    BY <1>4, PinStep, SweepStep, RecordStep, FindStep, PostStep, HelpStep, EraseStep, RecheckStep,
       EnterStep, LookupStep, ClaimStep, RereadStep, ResumeStep, StartStep, AttachStep, MarkStep,
       VerifyStep, ReturnStep DEF Step
  <1>5. ASSUME NEW w \in Workers, EndEarly(w) PROVE IInv'
    BY <1>5, EndStep
  <1>6. ASSUME NEW w \in Workers, NEW d \in Deliveries, Receive(w, d) PROVE IInv'
    BY <1>6, ReceiveStep
  <1>7. ASSUME NEW w \in Workers, NEW k \in ApiKeys, Call(w, k) PROVE IInv'
    BY <1>7, CallStep
  <1> QED
    BY <1>1, <1>2, <1>3, <1>4, <1>5, <1>6, <1>7 DEF Next

LEMMA Invariance == Spec => []IInv
  BY InitInv, StepInv, PTL DEF Spec

\* Every variable of the ingress keeps its type.
THEOREM TypeCorrect == Spec => []TypeOK
  <1>1. IInv => TypeOK
    BY DEF IInv
  <1> QED
    BY <1>1, Invariance, PTL

\* However often and wherever a command or an API call is repeated, claim_idempotent_run gives
\* its key one run for as long as the registry remembers it: two rows that are shown both name
\* their claim, and a key has one claim.
THEOREM KeysHaveOneRun == Spec => []OneLiveRunPerKey
  <1>1. IInv => OneLiveRunPerKey
    <2> SUFFICES ASSUME IInv, NEW r \in RunIds, NEW q \in RunIds,
                        Run(r) # None, Run(q) # None, Run(r).key = Run(q).key
                 PROVE  r = q
      BY DEF OneLiveRunPerKey
    <2>1. /\ runs[r] # None /\ Unexpired(r) /\ Run(r) = runs[r]
          /\ runs[q] # None /\ Unexpired(q) /\ Run(q) = runs[q]
      BY LiveRow
    <2>2. idem[runs[r].key].run = r /\ idem[runs[q].key].run = q
      BY <2>1 DEF IInv, RowInv
    <2> QED
      BY <2>1, <2>2
  <1> QED
    BY <1>1, Invariance, PTL

\* start_run_from_request starts an execution with the commit and for the key its run was
\* claimed with, whichever invocation resumes the claim.
THEOREM ExecutionsMatchClaims == Spec => []ExecutionMatchesClaim
  <1>1. IInv => ExecutionMatchesClaim
    BY LiveRow DEF IInv, ExecutionInv, Registered, ExecutionMatchesClaim
  <1> QED
    BY <1>1, Invariance, PTL

\* A caller is told "accepted" only of a run whose execution exists, and whose row, while it
\* lives, carries the ARN of that execution.
THEOREM AcknowledgedRunsStart == Spec => []AcknowledgedRunStarts
  <1>1. IInv => AcknowledgedRunStarts
    <2> SUFFICES ASSUME IInv, NEW w \in Workers, worker[w].answer = "accepted"
                 PROVE  /\ execs[worker[w].run] # None
                        /\ Run(worker[w].run) # None =>
                             Run(worker[w].run).arn = Arn(worker[w].run)
      BY DEF AcknowledgedRunStarts
    <2>1. /\ worker[w].run \in RunIds /\ execs[worker[w].run] # None
          /\ Unexpired(worker[w].run) => Attached(worker[w].run)
      BY DEF IInv, WorkerInv, Acknowledged
    <2> QED
      BY <2>1, LiveRow DEF Attached
  <1> QED
    BY <1>1, Invariance, PTL

=============================================================================
