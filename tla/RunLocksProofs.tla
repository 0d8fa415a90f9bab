--------------------------- MODULE RunLocksProofs ---------------------------
(***************************************************************************)
(* RunLocks is safe for any number of runs, folders, deliveries, retries   *)
(* and faults, and it implements FolderLease.                              *)
(*                                                                         *)
(* The argument: a resolver never locks a folder twice, so a folder in     *)
(* `got' was locked once and everything a closer of the run finds out      *)
(* about it stays true.  Hence the holder condition of the delete is the   *)
(* only thing a closer needs: what it deletes is its own run's, and by     *)
(* then the run no longer works.                                           *)
(***************************************************************************)
EXTENDS RunLocks, TLAPS

\* A lock row that is absent or another run's.
NotOf(row, r) == row # None => row.run # r

ResolverInv ==
  \A r \in Runs :
    /\ resolver[r].now <= now
    /\ resolver[r].todo \cap resolver[r].got = {}
    /\ resolver[r].pc = "acquire" => sfn[r] = "resolving"
    /\ resolver[r].pc = "orphan" => sfn[r] = "failed"
    /\ sfn[r] = "new" => resolver[r].got = {}

\* No closer of a run has started while the run works.
QuietInv ==
  \A r \in Runs : Working(r) \/ sfn[r] = "new" =>
    \A s \in Slots : closer[r][s].pc = "idle"

\* Every row was written by the one acquisition of its run and folder.
LockRowsInv ==
  \A f \in Folders : locks[f] # None =>
    /\ f \in resolver[locks[f].run].got
    /\ locks[f].attempt = 0
    /\ locks[f].expires = ExpiresAt(resolver[locks[f].run].deadline)

OwnerRowsInv ==
  \A r \in Runs : \A f \in Folders : owners[r][f] # None =>
    /\ f \in resolver[r].got
    /\ owners[r][f].attempt = 0
    /\ owners[r][f].expires = ExpiresAt(resolver[r].deadline)

\* What a closer in the middle of a release knows.
Releasing == {"next", "delete", "owner", "index"}

SlotInv(r, s) ==
  LET c == closer[r][s] IN
  /\ c.all => ~c.raising
  /\ c.pc \in {"query", "index"} => c.all
  /\ c.pc = "done" => c.todo = {}
  /\ c.pc \in Releasing => \A i \in c.todo : i.folder \in resolver[r].got
  /\ c.pc \in Releasing /\ c.all => \A i \in c.todo : i.attempt = 0
  /\ c.pc \in {"delete", "owner", "index"} => c.cur \in c.todo
  /\ c.pc = "delete" /\ c.saw # r => NotOf(locks[c.cur.folder], r)
  /\ c.pc = "owner" => c.saw = r
  /\ c.pc \in {"owner", "index"} => NotOf(locks[c.cur.folder], r)

CloserInv == \A r \in Runs : \A s \in Slots : SlotInv(r, s)

\* A release_all still has every live lock of its run on its list.
Covers(r, s) ==
  LET c == closer[r][s] IN
  c.all /\ c.pc \in Releasing \cup {"done"} /\ resolver[r].pc # "orphan" =>
    \A f \in Folders : Live(locks[f]) /\ locks[f].run = r =>
      \E i \in c.todo : i.folder = f

CoverInv == \A r \in Runs : \A s \in Slots : Covers(r, s)

\* So has the render of a run without failures, for the folders that were not retried.
Renders(r) ==
  LET c == closer[r]["task"] IN
  sfn[r] = "rendering" =>
    /\ c.tries = MaxTries
    /\ c.pc = "raised" \/ ~c.all
    /\ outcome[r].ok /\ c.pc \in Releasing \cup {"done"} =>
         \A f \in Folders : HeldBy(locks[f], r, 0) =>
           f \in outcome[r].retried \/ [folder |-> f, attempt |-> 0] \in c.todo

RenderInv == \A r \in Runs : Renders(r)

\* The inductive invariant.
IInv ==
  /\ TypeOK
  /\ ResolverInv
  /\ QuietInv
  /\ LockRowsInv
  /\ OwnerRowsInv
  /\ CloserInv
  /\ CoverInv
  /\ RenderInv
  /\ WorkingRunHoldsItsLocks
  /\ LiveLockIsIndexed
  /\ SuccessKeepsOnlyRetriedLocks

-----------------------------------------------------------------------------
(* Types.                                                                  *)

\* The shapes of the closers that the operators build.
LEMMA CloserShapes ==
  ASSUME NEW tries \in Nat, NEW items \in SUBSET Item
  PROVE  /\ Idle \in Closer
         /\ ReleaseAll(tries) \in Closer
         /\ ReleaseEach(items) \in Closer
         /\ Raised \in Closer
         /\ [Raised EXCEPT !.tries = tries] \in Closer
  BY ConstantAssumption DEF Idle, ReleaseAll, ReleaseEach, Raised, Closer, CloserPc

LEMMA AfterShapes ==
  ASSUME NEW c \in Closer
  PROVE  AfterItem(c) \in Closer /\ AfterRelease(c) \in Closer
  <1>1. AfterItem(c) \in Closer
    BY CloserShapes, ConstantAssumption, 0 \in Nat DEF AfterItem, Closer, CloserPc
  <1> QED
    BY <1>1 DEF AfterRelease, Closer, CloserPc

LEMMA InitType == Init => TypeOK
  <1> SUFFICES ASSUME Init PROVE TypeOK
    OBVIOUS
  <1>1. Idle \in Closer
    BY CloserShapes, 0 \in Nat
  <1> QED
    BY <1>1, ConstantAssumption DEF Init, TypeOK, Resolver, SfnStates

\* The two ways an action writes the tables of invocations.
LEMMA SetType ==
  ASSUME closer \in [Runs -> [Slots -> Closer]],
         NEW r \in Runs, NEW s \in Slots, NEW c \in Closer, Set(r, s, c)
  PROVE  closer' \in [Runs -> [Slots -> Closer]]
  BY DEF Set

LEMMA ResolveType ==
  ASSUME resolver \in [Runs -> Resolver],
         NEW r \in Runs, NEW v \in Resolver, Resolve(r, v)
  PROVE  resolver' \in [Runs -> Resolver]
  BY DEF Resolve

\* What ValidateAndResolve does.
Resolving(r) ==
  \/ \E f \in Folders : AcquireLock(r, f) \/ SkipHeld(r, f) \/ RaiseHeld(r, f)
  \/ BeginResolve(r) \/ ResolverRaise(r) \/ ResolverKilled(r) \/ ResolveReturn(r)

LEMMA ResolvingType ==
  ASSUME TypeOK, NEW r \in Runs, Resolving(r)
  PROVE  TypeOK'
  <1> DEFINE v == resolver[r]
  <1> USE ConstantAssumption
  <1>1. v \in Resolver
    BY DEF TypeOK
  <1>2. ASSUME Fault PROVE faults' \in 0..MaxFaults
    BY <1>2 DEF TypeOK, Fault
  <1>3. "task" \in Slots /\ Raised \in Closer /\ ReleaseAll(MaxTries) \in Closer
    BY CloserShapes DEF Slots
  <1>4. ASSUME NEW f \in Folders, AcquireLock(r, f) PROVE TypeOK'
    <2> DEFINE end == ExpiresAt(v.deadline)
    <2>1. end \in Nat
      BY <1>1 DEF Resolver, ExpiresAt
    <2>2. /\ [run |-> r, attempt |-> 0, expires |-> end] \in LockRow
          /\ [attempt |-> 0, expires |-> end] \in OwnerRow
      BY <2>1 DEF LockRow, OwnerRow, Attempts
    <2>3. locks' \in [Folders -> LockRow \cup {None}]
      BY <1>4, <2>2 DEF AcquireLock, TypeOK
    <2>4. owners' \in [Runs -> [Folders -> OwnerRow \cup {None}]]
      BY <1>4, <2>2 DEF AcquireLock, TypeOK
    <2>5. [v EXCEPT !.todo = @ \ {f}, !.got = @ \cup {f}] \in Resolver
      BY <1>1 DEF Resolver
    <2>6. resolver' \in [Runs -> Resolver]
      BY <1>4, <2>5, ResolveType DEF AcquireLock, TypeOK
    <2> QED
      BY <1>4, <2>3, <2>4, <2>6 DEF AcquireLock, TypeOK
  <1>13. ASSUME NEW f \in Folders, Refused(r, f) PROVE faults' \in 0..MaxFaults
    BY <1>2, <1>13 DEF Refused, TypeOK
  <1>5. ASSUME NEW f \in Folders, SkipHeld(r, f) PROVE TypeOK'
    <2>1. [v EXCEPT !.todo = @ \ {f}, !.skipped = TRUE] \in Resolver
      BY <1>1 DEF Resolver
    <2> QED
      BY <1>5, <1>13, <2>1, ResolveType DEF SkipHeld, TypeOK
  <1>6. Stopped(v) \in Resolver
    BY <1>1 DEF Stopped, Resolver
  <1>7. ASSUME Unwind(r), faults' \in 0..MaxFaults PROVE TypeOK'
    BY <1>7, <1>3, <1>6, SetType, ResolveType DEF Unwind, TypeOK
  <1>8. ASSUME NEW f \in Folders, RaiseHeld(r, f) PROVE TypeOK'
    BY <1>7, <1>8, <1>13 DEF RaiseHeld
  <1>9. CASE ResolverRaise(r)
    BY <1>2, <1>7, <1>9 DEF ResolverRaise
  <1>10. CASE ResolverKilled(r)
    BY <1>2, <1>3, <1>6, <1>10, SetType, ResolveType DEF ResolverKilled, TypeOK
  <1>11. CASE BeginResolve(r)
    <2>1. PICK fs \in SUBSET Folders \ {{}}, w \in Windows, ord \in BOOLEAN :
            Resolve(r, [pc |-> "acquire", now |-> now, deadline |-> now + w,
                        todo |-> fs, got |-> {}, ordered |-> ord, skipped |-> FALSE])
      BY <1>11 DEF BeginResolve
    <2>2. [pc |-> "acquire", now |-> now, deadline |-> now + w, todo |-> fs,
           got |-> {}, ordered |-> ord, skipped |-> FALSE] \in Resolver
      <3>1. now \in Nat /\ now + w \in Nat
        BY DEF TypeOK
      <3> QED
        BY <3>1 DEF Resolver
    <2>3. resolver' \in [Runs -> Resolver]
      BY <2>1, <2>2, ResolveType DEF TypeOK
    <2> QED
      BY <1>11, <2>3 DEF BeginResolve, TypeOK, SfnStates
  <1>12. CASE ResolveReturn(r)
    <2>1. [v EXCEPT !.pc = "returned", !.ordered = FALSE] \in Resolver
      BY <1>1 DEF Resolver
    <2>2. resolver' \in [Runs -> Resolver]
      BY <1>12, <2>1, ResolveType DEF ResolveReturn, TypeOK
    <2> QED
      BY <1>12, <2>2 DEF ResolveReturn, TypeOK, SfnStates
  <1> QED
    BY <1>4, <1>5, <1>8, <1>9, <1>10, <1>11, <1>12 DEF Resolving

\* Everything a closer, the state machine or the environment does.
CloserMoves(r, s) ==
  CloserStep(r, s) \/ CloserRaise(r, s) \/ RetryRelease(r, s)

LEMMA CloserType ==
  ASSUME TypeOK, NEW r \in Runs, NEW s \in Slots, CloserMoves(r, s)
  PROVE  TypeOK'
  <1> DEFINE c == closer[r][s]
  <1> USE ConstantAssumption
  <1>1. c \in Closer
    BY DEF TypeOK
  <1>2. AfterItem(c) \in Closer /\ AfterRelease(c) \in Closer
    BY <1>1, AfterShapes
  <1>3. ASSUME Fault PROVE faults' \in 0..MaxFaults
    BY <1>3 DEF TypeOK, Fault
  <1>4. CASE QueryOwners(r, s)
    <2> DEFINE items == {[folder |-> f, attempt |-> owners[r][f].attempt] :
                           f \in {g \in Folders : owners[r][g] # None}}
    <2>1. items \in SUBSET Item
      BY DEF TypeOK, OwnerRow, Item
    <2>2. [c EXCEPT !.pc = "next", !.todo = items] \in Closer
      BY <1>1, <2>1 DEF Closer, CloserPc
    <2> QED
      BY <1>4, <2>2, SetType DEF QueryOwners, TypeOK
  <1>5. ASSUME NEW i \in Item, ReadHolder(r, s, i) PROVE TypeOK'
    <2> DEFINE row == locks[i.folder]
               saw == IF row = None THEN None ELSE row.run
    <2>1. saw \in Runs \cup {None}
      BY DEF TypeOK, Item, LockRow
    <2>2. \A raising \in BOOLEAN :
            [c EXCEPT !.pc = "delete", !.cur = i, !.raising = raising, !.saw = saw] \in Closer
      BY <1>1, <2>1 DEF Closer, CloserPc
    <2>3. PICK raising \in BOOLEAN :
            /\ Set(r, s, [c EXCEPT !.pc = "delete", !.cur = i, !.raising = raising, !.saw = saw])
            /\ Fault \/ UNCHANGED faults
      BY <1>5 DEF ReadHolder
    <2>4. closer' \in [Runs -> [Slots -> Closer]]
      BY <2>2, <2>3, SetType DEF TypeOK
    <2>5. faults' \in 0..MaxFaults
      BY <1>3, <2>3 DEF TypeOK
    <2> QED
      BY <1>5, <2>4, <2>5 DEF ReadHolder, TypeOK
  <1>6. CASE DeleteLock(r, s)
    <2>1. [c EXCEPT !.pc = "owner"] \in Closer
      BY <1>1 DEF Closer, CloserPc
    <2>2. closer' \in [Runs -> [Slots -> Closer]]
      BY <1>2, <1>6, <2>1, SetType DEF DeleteLock, TypeOK
    <2>3. locks' \in [Folders -> LockRow \cup {None}]
      BY <1>6 DEF DeleteLock, TypeOK
    <2> QED
      BY <1>6, <2>2, <2>3 DEF DeleteLock, TypeOK
  <1>7. CASE DeleteOwner(r, s)
    <2>1. owners' \in [Runs -> [Folders -> OwnerRow \cup {None}]]
      BY <1>7 DEF DeleteOwner, TypeOK
    <2> QED
      BY <1>2, <1>7, <2>1, SetType DEF DeleteOwner, TypeOK
  <1>8. CASE DeleteIndexRow(r, s)
    <2>1. owners' \in [Runs -> [Folders -> OwnerRow \cup {None}]]
      BY <1>8 DEF DeleteIndexRow, TypeOK
    <2> QED
      BY <1>2, <1>8, <2>1, SetType DEF DeleteIndexRow, TypeOK
  <1>9. CASE CloserDone(r, s)
    <2>1. [c EXCEPT !.pc = "done"] \in Closer
      BY <1>1 DEF Closer, CloserPc
    <2> QED
      BY <1>9, <2>1, SetType DEF CloserDone, TypeOK
  <1>10. CASE CloserRaise(r, s)
    <2>1. PICK tries \in {c.tries, MaxTries} : Set(r, s, [Raised EXCEPT !.tries = tries])
      BY <1>10 DEF CloserRaise
    <2>2. [Raised EXCEPT !.tries = tries] \in Closer
      BY <1>1, CloserShapes DEF Closer
    <2>3. closer' \in [Runs -> [Slots -> Closer]]
      BY <2>1, <2>2, SetType DEF TypeOK
    <2> QED
      BY <1>3, <1>10, <2>3 DEF CloserRaise, TypeOK
  <1>11. CASE RetryRelease(r, s)
    <2>1. c.tries + 1 \in Nat
      BY <1>1 DEF Closer
    <2>2. ReleaseAll(c.tries + 1) \in Closer
      BY <2>1, CloserShapes
    <2> QED
      BY <1>11, <2>2, SetType DEF RetryRelease, TypeOK
  <1> QED
    BY <1>4, <1>5, <1>6, <1>7, <1>8, <1>9, <1>10, <1>11 DEF CloserMoves, CloserStep

\* What Step Functions and EventBridge do to a run.
Orchestration(r) ==
  \/ FoldersDone(r) \/ MapFailed(r) \/ ResolveFailed(r) \/ RenderFailed(r)
  \/ RenderDone(r) \/ IntentFailed(r) \/ FinalizeEnds(r) \/ Abort(r)
  \/ \E d \in Deliveries : DeliverEvent(r, d)

LEMMA OrchestrationType ==
  ASSUME TypeOK, NEW r \in Runs, Orchestration(r)
  PROVE  TypeOK'
  <1> USE ConstantAssumption
  <1>1. "task" \in Slots /\ Deliveries \subseteq Slots /\ ReleaseAll(0) \in Closer
    BY CloserShapes, 0 \in Nat DEF Slots
  <1>2. CASE FoldersDone(r)
    <2> DEFINE items(retried, shown) ==
                 {[folder |-> f, attempt |-> IF f \in retried THEN 1 ELSE 0] : f \in shown}
    <2>1. PICK retried \in SUBSET resolver[r].got, failed \in BOOLEAN,
               shown \in SUBSET resolver[r].got :
            /\ outcome' = [outcome EXCEPT ![r] =
                            [ok |-> ~failed /\ ~resolver[r].skipped, retried |-> retried]]
            /\ Set(r, "task", ReleaseEach(items(retried, shown)))
      BY <1>2 DEF FoldersDone
    <2>2. resolver[r].got \in SUBSET Folders /\ resolver[r].skipped \in BOOLEAN
      BY DEF TypeOK, Resolver
    <2>3. items(retried, shown) \in SUBSET Item
      BY <2>2 DEF Item, Attempts
    <2>4. closer' \in [Runs -> [Slots -> Closer]]
      BY <1>1, <2>1, <2>3, CloserShapes, SetType, 0 \in Nat DEF TypeOK
    <2>5. outcome' \in [Runs -> [ok : BOOLEAN, retried : SUBSET Folders]]
      BY <2>1, <2>2 DEF TypeOK
    <2> QED
      BY <1>2, <2>4, <2>5 DEF FoldersDone, TypeOK, SfnStates
  <1>3. ASSUME EnterFinalize(r) PROVE TypeOK'
    BY <1>1, <1>3, SetType DEF EnterFinalize, TypeOK, SfnStates
  <1>4. CASE MapFailed(r) \/ ResolveFailed(r) \/ RenderFailed(r)
    BY <1>3, <1>4 DEF MapFailed, ResolveFailed, RenderFailed
  <1>5. CASE RenderDone(r) \/ IntentFailed(r) \/ FinalizeEnds(r)
    BY <1>5 DEF RenderDone, IntentFailed, FinalizeEnds, EndRun, TypeOK, SfnStates
  <1>6. CASE Abort(r)
    <2> DEFINE v == resolver[r]
    <2>1. v \in Resolver
      BY DEF TypeOK
    <2>2. [v EXCEPT !.pc = IF @ = "acquire" THEN "orphan" ELSE @] \in Resolver
      BY <2>1 DEF Resolver
    <2>3. resolver' \in [Runs -> Resolver]
      BY <1>6, <2>2, ResolveType DEF Abort, TypeOK
    <2>4. faults' \in 0..MaxFaults
      BY <1>6 DEF Abort, Fault, TypeOK
    <2> QED
      BY <1>6, <2>3, <2>4 DEF Abort, EndRun, TypeOK, SfnStates
  <1>7. ASSUME NEW d \in Deliveries, DeliverEvent(r, d) PROVE TypeOK'
    BY <1>1, <1>7, SetType DEF DeliverEvent, TypeOK
  <1> QED
    BY <1>2, <1>4, <1>5, <1>6, <1>7 DEF Orchestration

Environment == Tick \/ \E f \in Folders : ReapLock(f) \/ \E r \in Runs : ReapOwner(r, f)

LEMMA EnvironmentType ==
  ASSUME TypeOK, Environment \/ UNCHANGED vars
  PROVE  TypeOK'
  <1>1. CASE Tick
    BY <1>1 DEF TypeOK, Tick
  <1>2. ASSUME NEW f \in Folders, ReapLock(f) PROVE TypeOK'
    BY <1>2 DEF TypeOK, ReapLock
  <1>3. ASSUME NEW r \in Runs, NEW f \in Folders, ReapOwner(r, f) PROVE TypeOK'
    <2>1. owners' \in [Runs -> [Folders -> OwnerRow \cup {None}]]
      BY <1>3 DEF TypeOK, ReapOwner
    <2> QED
      BY <1>3, <2>1 DEF TypeOK, ReapOwner
  <1>4. CASE UNCHANGED vars
    BY <1>4 DEF TypeOK, vars
  <1> QED
    BY <1>1, <1>2, <1>3, <1>4 DEF Environment

LEMMA NextCases ==
  ASSUME Next
  PROVE  \/ Environment
         \/ \E r \in Runs : Resolving(r) \/ Orchestration(r)
         \/ \E r \in Runs, s \in Slots : CloserMoves(r, s)
  BY DEF Next, Environment, Resolving, Orchestration, CloserMoves

\* Every reachable state is well typed: no row, invocation or counter ever takes a shape
\* the code does not write (all the writers of the lock table together).
THEOREM TypeCorrect == Spec => []TypeOK
  <1>1. TypeOK /\ [Next]_vars => TypeOK'
    BY NextCases, ResolvingType, CloserType, OrchestrationType, EnvironmentType
  <1> QED
    BY <1>1, InitType, PTL DEF Spec

-----------------------------------------------------------------------------
(* The resolver's steps.                                                   *)

\* AcquireLock adds a lock of r on a folder of which r had no row, and takes a lock
\* away from nobody whose lease runs.
LEMMA AcquireLockInv ==
  ASSUME IInv, NEW r \in Runs, NEW f \in Folders, AcquireLock(r, f)
  PROVE  IInv'
  <1> DEFINE v == resolver[r]
             end == ExpiresAt(v.deadline)
  <1> USE ConstantAssumption
  <1>1. TypeOK /\ TypeOK'
    BY ResolvingType DEF IInv, Resolving
  <1>2. /\ resolver' = [resolver EXCEPT ![r] = [v EXCEPT !.todo = @ \ {f}, !.got = @ \cup {f}]]
        /\ v \in Resolver
        /\ v.pc \in {"acquire", "orphan"}
        /\ f \in v.todo
        /\ f \notin v.got
        /\ UNCHANGED <<now, sfn, closer, outcome>>
    BY <1>1 DEF AcquireLock, Acquiring, Resolve, TypeOK, IInv, ResolverInv
  <1>3. /\ resolver'[r].got = v.got \cup {f}
        /\ resolver'[r].todo = v.todo \ {f}
        /\ resolver'[r].pc = v.pc
        /\ resolver'[r].now = v.now
        /\ resolver'[r].deadline = v.deadline
        /\ \A q \in Runs : q # r => resolver'[q] = resolver[q]
    BY <1>1, <1>2 DEF TypeOK, Resolver
  <1>4. /\ locks' = [locks EXCEPT ![f] = [run |-> r, attempt |-> 0, expires |-> end]]
        /\ locks'[f] = [run |-> r, attempt |-> 0, expires |-> end]
        /\ locks'[f] # None
        /\ \A g \in Folders : g # f => locks'[g] = locks[g]
        /\ locks[f] # None => locks[f].expires < now
    <2>1. locks[f] # None => locks[f].expires < v.now
      BY DEF AcquireLock, Free
    <2>2. v.now \in Nat /\ now \in Nat /\ v.now <= now
      BY <1>1, <1>2 DEF TypeOK, Resolver, IInv, ResolverInv
    <2>3. locks[f] # None => locks[f].expires \in Nat
      BY <1>1 DEF TypeOK, LockRow
    <2>4. end \in Nat
      BY <1>2 DEF Resolver, ExpiresAt
    <2>5. [run |-> r, attempt |-> 0, expires |-> end] # None
      BY <2>4 DEF LockRow, Attempts
    <2> QED
      BY <1>1, <2>1, <2>2, <2>3, <2>5 DEF AcquireLock, TypeOK
  <1>5. /\ owners'[r][f] = [attempt |-> 0, expires |-> end]
        /\ \A q \in Runs, g \in Folders :
             q # r \/ g # f => owners'[q][g] = owners[q][g]
    BY <1>1 DEF AcquireLock, TypeOK
  <1>6. ResolverInv'
    BY <1>2, <1>3 DEF IInv, ResolverInv
  <1>7. QuietInv'
    BY <1>2, <1>3 DEF IInv, QuietInv, Working
  <1>8. LockRowsInv'
    <2> SUFFICES ASSUME NEW g \in Folders, locks'[g] # None
                 PROVE  /\ g \in resolver'[locks'[g].run].got
                        /\ locks'[g].attempt = 0
                        /\ locks'[g].expires = ExpiresAt(resolver'[locks'[g].run].deadline)
      BY DEF LockRowsInv, ExpiresAt
    <2>1. CASE g = f
      BY <1>3, <1>4, <2>1
    <2>2. CASE g # f
      <3>1. locks[g] # None /\ locks'[g] = locks[g] /\ locks[g].run \in Runs
        BY <1>1, <1>4, <2>2 DEF TypeOK, LockRow
      <3> QED
        BY <1>3, <3>1 DEF IInv, LockRowsInv, ExpiresAt
    <2> QED
      BY <2>1, <2>2
  <1>9. OwnerRowsInv'
    BY <1>3, <1>5 DEF IInv, OwnerRowsInv, ExpiresAt
  <1>10. CloserInv'
    <2> SUFFICES ASSUME NEW q \in Runs, NEW t \in Slots PROVE SlotInv(q, t)'
      BY DEF CloserInv
    <2>1. SlotInv(q, t)
      BY DEF IInv, CloserInv
    <2> QED
      BY <1>1, <1>2, <1>3, <1>4, <2>1 DEF SlotInv, NotOf, Releasing, TypeOK, Closer, Item
  <1>11. CoverInv'
    <2> SUFFICES ASSUME NEW q \in Runs, NEW t \in Slots PROVE Covers(q, t)'
      BY DEF CoverInv
    <2>1. Covers(q, t)
      BY DEF IInv, CoverInv
    <2>2. v.pc # "orphan" => closer[r][t].pc = "idle"
      BY <1>2 DEF IInv, QuietInv, ResolverInv, Working
    <2> QED
      BY <1>2, <1>3, <1>4, <2>1, <2>2 DEF Covers, Live, Expired, Releasing
  <1>12. RenderInv'
    <2>1. sfn[r] \notin {"rendering", "succeeded"}
      BY <1>2 DEF IInv, ResolverInv
    <2> QED
      BY <1>2, <1>4, <2>1 DEF IInv, RenderInv, Renders, HeldBy
  <1>13. WorkingRunHoldsItsLocks'
    BY <1>1, <1>2, <1>3, <1>4 DEF IInv, WorkingRunHoldsItsLocks, HeldBy, Working,
       LockRowsInv, TypeOK, LockRow
  <1>14. LiveLockIsIndexed'
    BY <1>1, <1>2, <1>4, <1>5 DEF IInv, LiveLockIsIndexed, Live, Expired, TypeOK, LockRow
  <1>15. SuccessKeepsOnlyRetriedLocks'
    <2>1. sfn[r] \notin {"rendering", "succeeded"}
      BY <1>2 DEF IInv, ResolverInv
    <2> QED
      BY <1>2, <1>4, <2>1 DEF IInv, SuccessKeepsOnlyRetriedLocks, HeldBy
  <1> QED
    BY <1>1, <1>6, <1>7, <1>8, <1>9, <1>10, <1>11, <1>12, <1>13, <1>14, <1>15 DEF IInv

-----------------------------------------------------------------------------
(* What a step leaves alone.                                               *)

\* A closer that takes no step keeps its part of the invariant, as locks only vanish
\* and nobody acquires.
LEMMA SlotFrame ==
  ASSUME IInv, TypeOK', NEW q \in Runs, NEW t \in Slots,
         closer'[q][t] = closer[q][t],
         now' >= now,
         \A f \in Folders : locks'[f] = locks[f] \/ locks'[f] = None,
         resolver'[q].got = resolver[q].got,
         resolver[q].pc = "orphan" => resolver'[q].pc = "orphan",
         sfn'[q] = "rendering" => sfn[q] = "rendering",
         outcome'[q] = outcome[q]
  PROVE  /\ SlotInv(q, t)'
         /\ Covers(q, t)'
         /\ t = "task" => Renders(q)'
  <1>1. TypeOK /\ SlotInv(q, t) /\ Covers(q, t) /\ Renders(q) /\ closer[q][t] \in Closer
    BY DEF IInv, CloserInv, CoverInv, RenderInv, TypeOK
  <1>2. SlotInv(q, t)'
    BY <1>1 DEF SlotInv, NotOf, Closer, Item, Releasing
  <1>3. Covers(q, t)'
    <2>1. ASSUME NEW f \in Folders, Live(locks[f])' PROVE Live(locks[f]) /\ locks'[f] = locks[f]
      BY <1>1, <2>1 DEF Live, Expired, TypeOK, LockRow
    <2> QED
      BY <1>1, <2>1 DEF Covers
  <1>4. t = "task" => Renders(q)'
    BY <1>1 DEF Renders, HeldBy
  <1> QED
    BY <1>2, <1>3, <1>4

\* A closer that starts over, or gives up, promises nothing yet.
LEMMA StartedSlot ==
  ASSUME NEW q \in Runs, NEW t \in Slots,
         closer'[q][t].pc \in {"query", "raised"}, closer'[q][t].all, ~closer'[q][t].raising,
         t = "task" => sfn'[q] # "rendering"
  PROVE  /\ SlotInv(q, t)'
         /\ Covers(q, t)'
         /\ t = "task" => Renders(q)'
  BY DEF SlotInv, Covers, Renders, Releasing

\* The rows stay, so what is said about them stays.
LEMMA RowFrame ==
  ASSUME IInv, UNCHANGED <<locks, owners, now>>,
         \A q \in Runs :
           /\ resolver'[q].got = resolver[q].got
           /\ resolver'[q].deadline = resolver[q].deadline
           /\ Working(q)' => Working(q)
  PROVE  LockRowsInv' /\ OwnerRowsInv' /\ LiveLockIsIndexed' /\ WorkingRunHoldsItsLocks'
  <1>1. LockRowsInv'
    BY DEF IInv, TypeOK, LockRow, LockRowsInv, ExpiresAt
  <1>2. OwnerRowsInv'
    BY DEF IInv, OwnerRowsInv, ExpiresAt
  <1>3. LiveLockIsIndexed'
    BY DEF IInv, LiveLockIsIndexed, Live, Expired
  <1>4. WorkingRunHoldsItsLocks'
    BY DEF IInv, WorkingRunHoldsItsLocks, ExpiresAt
  <1> QED
    BY <1>1, <1>2, <1>3, <1>4

-----------------------------------------------------------------------------
(* The closers' steps.                                                     *)

\* Whatever step a closer of r makes, its run no longer works, and the only rows it
\* removes are locks of r and ownership rows of folders that r does not hold any more.
LEMMA CloserFrame ==
  ASSUME IInv, NEW r \in Runs, NEW s \in Slots, CloserMoves(r, s)
  PROVE  /\ UNCHANGED <<now, sfn, resolver, outcome>>
         /\ closer[r][s].pc # "idle"
         /\ ~Working(r) /\ sfn[r] # "new"
         /\ \A q \in Runs, t \in Slots : q # r \/ t # s => closer'[q][t] = closer[q][t]
         /\ \A f \in Folders :
              \/ locks'[f] = locks[f]
              \/ locks[f] # None /\ locks[f].run = r /\ locks'[f] = None
         /\ \A q \in Runs, f \in Folders :
              \/ owners'[q][f] = owners[q][f]
              \/ owners'[q][f] = None /\ q = r /\ NotOf(locks[f], r)
  <1> DEFINE c == closer[r][s]
  <1> USE ConstantAssumption
  <1>1. TypeOK /\ SlotInv(r, s) /\ c \in Closer
    BY DEF IInv, CloserInv, TypeOK
  <1>2. ASSUME c.pc # "idle" PROVE ~Working(r) /\ sfn[r] # "new"
    BY <1>2 DEF IInv, QuietInv
  <1>3. ASSUME NEW d, Set(r, s, d)
        PROVE  \A q \in Runs, t \in Slots : q # r \/ t # s => closer'[q][t] = closer[q][t]
    BY <1>1, <1>3 DEF Set, TypeOK
  <1>4. CASE QueryOwners(r, s) \/ CloserDone(r, s) \/ RetryRelease(r, s)
    BY <1>2, <1>3, <1>4 DEF QueryOwners, CloserDone, RetryRelease
  <1>5. ASSUME NEW i \in Item, ReadHolder(r, s, i)
        PROVE  /\ UNCHANGED <<now, locks, owners, sfn, resolver, outcome>>
               /\ c.pc # "idle" /\ \E d : Set(r, s, d)
    BY <1>5 DEF ReadHolder
  <1>6. CASE CloserRaise(r, s)
    BY <1>2, <1>3, <1>6 DEF CloserRaise
  <1>7. CASE DeleteLock(r, s)
    <2>1. \A f \in Folders :
            \/ locks'[f] = locks[f]
            \/ locks[f] # None /\ locks[f].run = r /\ locks'[f] = None
      BY <1>1, <1>7 DEF DeleteLock, HeldBy, TypeOK
    <2> QED
      BY <1>2, <1>3, <1>7, <2>1 DEF DeleteLock
  <1>8. CASE DeleteOwner(r, s)
    <2>1. c.pc = "owner" /\ c.saw = r /\ NotOf(locks[c.cur.folder], r)
      BY <1>1, <1>8 DEF DeleteOwner, SlotInv
    <2>2. \A q \in Runs, f \in Folders :
            \/ owners'[q][f] = owners[q][f]
            \/ owners'[q][f] = None /\ q = r /\ NotOf(locks[f], r)
      BY <1>1, <1>8, <2>1 DEF DeleteOwner, TypeOK
    <2> QED
      BY <1>2, <1>3, <1>8, <2>2 DEF DeleteOwner
  <1>9. CASE DeleteIndexRow(r, s)
    <2>1. c.pc = "index" /\ NotOf(locks[c.cur.folder], r)
      BY <1>1, <1>9 DEF DeleteIndexRow, SlotInv
    <2>2. \A q \in Runs, f \in Folders :
            \/ owners'[q][f] = owners[q][f]
            \/ owners'[q][f] = None /\ q = r /\ NotOf(locks[f], r)
      BY <1>1, <1>9, <2>1 DEF DeleteIndexRow, TypeOK
    <2> QED
      BY <1>2, <1>3, <1>9, <2>2 DEF DeleteIndexRow
  <1> QED
    BY <1>2, <1>3, <1>4, <1>5, <1>6, <1>7, <1>8, <1>9 DEF CloserMoves, CloserStep

\* What a closer's own step makes of its own slot.
LEMMA CloserOwnSlot ==
  ASSUME IInv, NEW r \in Runs, NEW s \in Slots, CloserMoves(r, s)
  PROVE  /\ SlotInv(r, s)'
         /\ Covers(r, s)'
         /\ s = "task" => Renders(r)'
  <1> DEFINE c == closer[r][s]
             d == closer'[r][s]
  <1> USE ConstantAssumption DEF Releasing
  <1>1. TypeOK /\ SlotInv(r, s) /\ Covers(r, s) /\ Renders(r)
        /\ c \in Closer /\ LockRowsInv /\ OwnerRowsInv /\ LiveLockIsIndexed
    BY DEF IInv, CloserInv, CoverInv, RenderInv, TypeOK
  <1>2. TypeOK'
    BY <1>1, CloserType
  <1>3. /\ UNCHANGED <<now, sfn, resolver, outcome>>
        /\ \A f \in Folders :
              \/ locks'[f] = locks[f]
              \/ locks[f] # None /\ locks[f].run = r /\ locks'[f] = None
    BY CloserFrame
  <1>4. ASSUME NEW e, Set(r, s, e) PROVE d = e
    BY <1>1, <1>4 DEF Set, TypeOK
  <1>5. CASE QueryOwners(r, s)
    <2> DEFINE items == {[folder |-> f, attempt |-> owners[r][f].attempt] :
                           f \in {g \in Folders : owners[r][g] # None}}
    <2>1. d = [c EXCEPT !.pc = "next", !.todo = items] /\ c.pc = "query"
      BY <1>4, <1>5 DEF QueryOwners
    <2>2. /\ d.pc = "next" /\ d.todo = items /\ d.all = c.all
          /\ d.raising = c.raising /\ d.tries = c.tries
      BY <1>1, <2>1 DEF Closer
    <2>3. \A i \in items : i.folder \in resolver[r].got /\ i.attempt = 0
      BY <1>1 DEF OwnerRowsInv
    <2>4. SlotInv(r, s)'
      BY <1>1, <1>3, <2>2, <2>3 DEF SlotInv
    <2>5. UNCHANGED locks
      BY <1>5 DEF QueryOwners
    <2>6. ASSUME NEW f \in Folders, Live(locks[f]), locks[f].run = r
          PROVE  \E i \in items : i.folder = f
      <3>1. owners[r][f] # None
        <4>1. owners[r][f] = [attempt |-> locks[f].attempt, expires |-> locks[f].expires]
          BY <1>1, <2>6 DEF LiveLockIsIndexed
        <4>2. locks[f] \in LockRow
          BY <1>1, <2>6 DEF TypeOK, Live
        <4> QED
          BY <4>1, <4>2 DEF LockRow, OwnerRow
      <3>2. [folder |-> f, attempt |-> owners[r][f].attempt] \in items
        BY <3>1
      <3> QED
        BY <3>2
    <2>7. Covers(r, s)'
      BY <1>3, <2>2, <2>5, <2>6 DEF Covers, Live, Expired
    <2>8. s = "task" => Renders(r)'
      BY <1>1, <1>3, <2>1 DEF Renders, SlotInv
    <2> QED
      BY <2>4, <2>7, <2>8
  <1>6. ASSUME NEW i \in Item, ReadHolder(r, s, i)
        PROVE  SlotInv(r, s)' /\ Covers(r, s)' /\ (s = "task" => Renders(r)')
    <2> DEFINE row == locks[i.folder]
               saw == IF row = None THEN None ELSE row.run
    <2>1. PICK raising \in BOOLEAN :
            /\ c.all => ~raising
            /\ Set(r, s, [c EXCEPT !.pc = "delete", !.cur = i, !.raising = raising, !.saw = saw])
      BY <1>6 DEF ReadHolder
    <2>2. d = [c EXCEPT !.pc = "delete", !.cur = i, !.raising = raising, !.saw = saw]
      BY <1>4, <2>1
    <2>3. /\ d.pc = "delete" /\ d.cur = i /\ d.raising = raising /\ d.saw = saw
          /\ d.todo = c.todo /\ d.all = c.all /\ d.tries = c.tries
      BY <1>1, <2>2 DEF Closer
    <2>4. c.pc = "next" /\ i \in c.todo /\ UNCHANGED <<locks, owners>>
      BY <1>6 DEF ReadHolder
    <2>5. saw # r => NotOf(locks[i.folder], r)
      BY DEF NotOf
    <2>6. SlotInv(r, s)'
      BY <1>1, <1>3, <2>1, <2>3, <2>4, <2>5 DEF SlotInv, NotOf
    <2>7. Covers(r, s)'
      BY <1>1, <1>3, <2>3, <2>4 DEF Covers, Live, Expired
    <2>8. s = "task" => Renders(r)'
      BY <1>1, <1>3, <2>3, <2>4 DEF Renders, HeldBy
    <2> QED
      BY <2>6, <2>7, <2>8
  <1>7. ASSUME c.pc \in {"delete", "owner", "index"}, c.cur.folder \in Folders, d = AfterItem(c),
               \/ NotOf(locks'[c.cur.folder], r)
               \/ (c.cur.attempt # 0 /\ ~c.all /\ UNCHANGED locks)
        PROVE  SlotInv(r, s)' /\ Covers(r, s)' /\ (s = "task" => Renders(r)')
    <2>1. CASE c.raising
      <3>1. d.pc = "raised" /\ d.all /\ ~d.raising /\ d.tries = MaxTries
        BY <1>7, <2>1 DEF AfterItem, Raised, Idle
      <3> QED
        BY <3>1 DEF SlotInv, Covers, Renders
    <2>2. CASE ~c.raising
      <3>1. /\ d.pc = "next" /\ d.todo = c.todo \ {c.cur} /\ d.all = c.all
            /\ d.raising = c.raising /\ d.tries = c.tries
        BY <1>1, <1>7, <2>2 DEF AfterItem, Closer
      <3>2. SlotInv(r, s)'
        BY <1>1, <1>3, <1>7, <2>2, <3>1 DEF SlotInv
      <3>3. Covers(r, s)'
        BY <1>1, <1>2, <1>3, <1>7, <3>1 DEF Covers, Live, Expired, NotOf
      <3>4. s = "task" => Renders(r)'
        <4> DEFINE item(f) == [folder |-> f, attempt |-> 0]
        <4>1. ASSUME NEW f \in Folders, HeldBy(locks'[f], r, 0)
              PROVE  item(f) # c.cur /\ HeldBy(locks[f], r, 0)
          <5>1. HeldBy(locks[f], r, 0)
            BY <1>3, <4>1 DEF HeldBy
          <5>2. ASSUME item(f) = c.cur PROVE FALSE
            <6>1. c.cur.folder = f /\ c.cur.attempt = 0
              BY <5>2
            <6> QED
              BY <1>7, <4>1, <6>1 DEF NotOf, HeldBy
          <5> QED
            BY <5>1, <5>2
        <4>2. s = "task" /\ sfn[r] = "rendering" => c.tries = MaxTries /\ ~c.all
          BY <1>1, <1>7 DEF Renders
        <4>3. ASSUME s = "task", sfn[r] = "rendering", outcome[r].ok
              PROVE  \A f \in Folders : HeldBy(locks'[f], r, 0) =>
                       f \in outcome[r].retried \/ item(f) \in d.todo
          BY <1>1, <1>7, <3>1, <4>1, <4>3 DEF Renders
        <4> QED
          BY <1>3, <3>1, <4>2, <4>3 DEF Renders
      <3> QED
        BY <3>2, <3>3, <3>4
    <2> QED
      BY <2>1, <2>2
  <1>8. ASSUME c.pc \in {"delete", "owner"}, c.cur.folder \in Folders, d = AfterRelease(c),
               \/ NotOf(locks'[c.cur.folder], r)
               \/ (c.cur.attempt # 0 /\ UNCHANGED locks)
        PROVE  SlotInv(r, s)' /\ Covers(r, s)' /\ (s = "task" => Renders(r)')
    <2>1. CASE c.all
      <3>1. d = [c EXCEPT !.pc = "index"]
        BY <1>8, <2>1 DEF AfterRelease
      <3>2. /\ d.pc = "index" /\ d.todo = c.todo /\ d.all = c.all /\ d.cur = c.cur
            /\ d.raising = c.raising /\ d.tries = c.tries
        BY <1>1, <3>1 DEF Closer
      <3>3. c.cur \in c.todo /\ c.cur.attempt = 0
        BY <1>1, <1>8, <2>1 DEF SlotInv
      <3>4. SlotInv(r, s)'
        BY <1>1, <1>3, <1>8, <2>1, <3>2, <3>3 DEF SlotInv, NotOf
      <3>5. Covers(r, s)'
        BY <1>1, <1>2, <1>3, <1>8, <3>2 DEF Covers, Live, Expired
      <3>6. s = "task" => Renders(r)'
        BY <1>1, <1>3, <1>8, <2>1 DEF Renders
      <3> QED
        BY <3>4, <3>5, <3>6
    <2>2. CASE ~c.all
      BY <1>7, <1>8, <2>2 DEF AfterRelease
    <2> QED
      BY <2>1, <2>2
  <1>9. CASE DeleteLock(r, s)
    <2> DEFINE f == c.cur.folder
               mine == HeldBy(locks[f], r, c.cur.attempt)
    <2>1. c.pc = "delete" /\ c.cur \in c.todo /\ c.cur \in Item /\ f \in Folders
      BY <1>1, <1>9 DEF DeleteLock, SlotInv, Closer, Item
    <2>2. CASE mine /\ c.saw # None
      <3>1. d = [c EXCEPT !.pc = "owner"]
        BY <1>4, <1>9, <2>2 DEF DeleteLock
      <3>2. /\ d.pc = "owner" /\ d.todo = c.todo /\ d.all = c.all /\ d.cur = c.cur
            /\ d.saw = c.saw /\ d.raising = c.raising /\ d.tries = c.tries
        BY <1>1, <3>1 DEF Closer
      <3>3. c.saw = r
        BY <1>1, <2>1, <2>2 DEF SlotInv, NotOf, HeldBy
      <3>4. NotOf(locks'[f], r)
        BY <1>1, <1>9, <2>1, <2>2 DEF DeleteLock, NotOf, TypeOK
      <3>5. SlotInv(r, s)'
        BY <1>1, <1>3, <2>1, <3>2, <3>3, <3>4 DEF SlotInv, NotOf
      <3>6. Covers(r, s)'
        BY <1>1, <1>2, <1>3, <2>1, <3>2 DEF Covers, Live, Expired
      <3>7. s = "task" => Renders(r)'
        BY <1>1, <1>3, <2>1, <3>2 DEF Renders, HeldBy
      <3> QED
        BY <3>5, <3>6, <3>7
    <2>3. CASE ~(mine /\ c.saw # None)
      <3>1. d = AfterRelease(c)
        BY <1>4, <1>9, <2>3 DEF DeleteLock
      <3>2. NotOf(locks'[f], r) \/ (c.cur.attempt # 0 /\ UNCHANGED locks)
        <4>1. CASE mine
          BY <1>1, <1>9, <2>1, <4>1 DEF DeleteLock, NotOf, TypeOK
        <4>2. CASE ~mine
          BY <1>1, <1>9, <2>1, <4>2 DEF DeleteLock, NotOf, HeldBy, LockRowsInv
        <4> QED
          BY <4>1, <4>2
      <3> QED
        BY <1>8, <2>1, <3>1, <3>2
    <2> QED
      BY <2>2, <2>3
  <1>10. CASE DeleteOwner(r, s)
    <2>1. /\ c.pc = "owner" /\ d = AfterRelease(c) /\ UNCHANGED locks
          /\ c.cur \in c.todo /\ c.cur.folder \in Folders /\ NotOf(locks[c.cur.folder], r)
      BY <1>1, <1>4, <1>10 DEF DeleteOwner, SlotInv, Closer, Item
    <2> QED
      BY <1>8, <2>1 DEF NotOf
  <1>11. CASE DeleteIndexRow(r, s)
    <2>1. /\ c.pc = "index" /\ d = AfterItem(c) /\ UNCHANGED locks
          /\ c.cur \in c.todo /\ c.cur.folder \in Folders /\ NotOf(locks[c.cur.folder], r)
      BY <1>1, <1>4, <1>11 DEF DeleteIndexRow, SlotInv, Closer, Item
    <2> QED
      BY <1>7, <2>1 DEF NotOf
  <1>12. CASE CloserDone(r, s)
    <2>1. /\ d = [c EXCEPT !.pc = "done"] /\ c.pc = "next" /\ c.todo = {} /\ UNCHANGED locks
      BY <1>4, <1>12 DEF CloserDone
    <2>2. /\ d.pc = "done" /\ d.todo = {} /\ d.all = c.all /\ d.raising = c.raising
          /\ d.tries = c.tries
      BY <1>1, <2>1 DEF Closer
    <2> QED
      BY <1>1, <1>3, <2>1, <2>2 DEF SlotInv, Covers, Renders, Live, Expired, HeldBy
  <1>13. CASE CloserRaise(r, s)
    <2>1. PICK tries \in IF s = "task" THEN {c.tries, MaxTries} ELSE {c.tries} :
            Set(r, s, [Raised EXCEPT !.tries = tries])
      BY <1>13 DEF CloserRaise
    <2>2. d = [Raised EXCEPT !.tries = tries]
      BY <1>4, <2>1
    <2>3. d.pc = "raised" /\ ~d.raising /\ d.tries = tries
      BY <2>2 DEF Raised, Idle
    <2> QED
      BY <1>1, <1>3, <2>1, <2>3 DEF SlotInv, Covers, Renders
  <1>14. CASE RetryRelease(r, s)
    <2>1. d = ReleaseAll(c.tries + 1) /\ c.pc = "raised" /\ c.tries < MaxTries
      BY <1>4, <1>14 DEF RetryRelease
    <2>2. d.pc = "query" /\ d.all /\ ~d.raising
      BY <2>1 DEF ReleaseAll, Idle
    <2>3. s = "task" => sfn[r] # "rendering"
      BY <1>1, <2>1 DEF Renders
    <2> QED
      BY <1>3, <2>2, <2>3 DEF SlotInv, Covers, Renders
  <1> QED
    BY <1>5, <1>6, <1>9, <1>10, <1>11, <1>12, <1>13, <1>14 DEF CloserMoves, CloserStep

LEMMA CloserMovesInv ==
  ASSUME IInv, NEW r \in Runs, NEW s \in Slots, CloserMoves(r, s)
  PROVE  IInv'
  <1> USE ConstantAssumption
  <1>1. TypeOK /\ TypeOK'
    BY CloserType DEF IInv
  <1>2. /\ UNCHANGED <<now, sfn, resolver, outcome>>
        /\ closer[r][s].pc # "idle"
        /\ ~Working(r) /\ sfn[r] # "new"
        /\ \A q \in Runs, t \in Slots : q # r \/ t # s => closer'[q][t] = closer[q][t]
        /\ \A f \in Folders :
              \/ locks'[f] = locks[f]
              \/ locks[f] # None /\ locks[f].run = r /\ locks'[f] = None
        /\ \A q \in Runs, f \in Folders :
              \/ owners'[q][f] = owners[q][f]
              \/ owners'[q][f] = None /\ q = r /\ NotOf(locks[f], r)
    BY CloserFrame
  <1>3. ResolverInv'
    BY <1>2 DEF IInv, ResolverInv
  <1>4. QuietInv'
    BY <1>2 DEF IInv, QuietInv, Working
  <1>5. LockRowsInv'
    BY <1>2 DEF IInv, LockRowsInv, ExpiresAt
  <1>6. OwnerRowsInv'
    BY <1>2 DEF IInv, OwnerRowsInv, ExpiresAt
  <1>7. ASSUME NEW q \in Runs, NEW t \in Slots, q # r \/ t # s
        PROVE  /\ SlotInv(q, t)' /\ Covers(q, t)'
               /\ t = "task" => Renders(q)'
    <2>1. closer'[q][t] = closer[q][t] /\ now' >= now
      BY <1>1, <1>2, <1>7 DEF TypeOK
    <2> QED
      BY <1>1, <1>2, <2>1, SlotFrame
  <1>8. SlotInv(r, s)' /\ Covers(r, s)' /\ (s = "task" => Renders(r)')
    BY CloserOwnSlot
  <1>9. CloserInv' /\ CoverInv'
    BY <1>7, <1>8 DEF CloserInv, CoverInv
  <1>10. RenderInv'
    BY <1>7, <1>8 DEF RenderInv, Slots
  <1>11. WorkingRunHoldsItsLocks'
    BY <1>1, <1>2 DEF IInv, WorkingRunHoldsItsLocks, HeldBy, Working, ExpiresAt, TypeOK, Resolver
  <1>12. LiveLockIsIndexed'
    <2> SUFFICES ASSUME NEW f \in Folders, Live(locks[f])'
                 PROVE  owners'[locks'[f].run][f]
                          = [attempt |-> locks'[f].attempt, expires |-> locks'[f].expires]
      BY DEF LiveLockIsIndexed
    <2>1. locks'[f] = locks[f] /\ Live(locks[f]) /\ locks[f].run \in Runs
      BY <1>1, <1>2 DEF Live, Expired, TypeOK, LockRow
    <2>2. owners[locks[f].run][f] = [attempt |-> locks[f].attempt, expires |-> locks[f].expires]
      BY <2>1 DEF IInv, LiveLockIsIndexed
    <2> QED
      BY <1>2, <2>1, <2>2 DEF NotOf, Live
  <1>13. SuccessKeepsOnlyRetriedLocks'
    BY <1>2 DEF IInv, SuccessKeepsOnlyRetriedLocks, HeldBy
  <1> QED
    BY <1>1, <1>3, <1>4, <1>5, <1>6, <1>9, <1>10, <1>11, <1>12, <1>13 DEF IInv

-----------------------------------------------------------------------------
(* The rest of the resolver: it skips a held folder, returns, or stops.    *)

LEMMA ResolverStopsInv ==
  ASSUME IInv, TypeOK', NEW r \in Runs, NEW e \in Closer,
         resolver[r].pc \in {"acquire", "orphan"},
         Resolve(r, Stopped(resolver[r])), Set(r, "task", e),
         e.pc \in {"query", "raised"}, e.all, ~e.raising,
         UNCHANGED <<now, locks, owners, sfn, outcome>>
  PROVE  IInv'
  <1> DEFINE v == resolver[r]
  <1>1. TypeOK /\ v \in Resolver /\ "task" \in Slots
    BY DEF IInv, TypeOK, Slots
  <1>2. /\ resolver'[r].pc = IF v.pc = "acquire" THEN "unwound" ELSE v.pc
        /\ resolver'[r].todo = {}
        /\ resolver'[r].got = v.got /\ resolver'[r].now = v.now
        /\ resolver'[r].deadline = v.deadline
        /\ \A q \in Runs : q # r => resolver'[q] = resolver[q]
    BY <1>1 DEF Resolve, Stopped, TypeOK, Resolver
  <1>3. /\ closer'[r]["task"] = e
        /\ \A q \in Runs, t \in Slots : q # r \/ t # "task" => closer'[q][t] = closer[q][t]
    BY <1>1 DEF Set, TypeOK
  <1>4. \A q \in Runs :
          /\ resolver'[q].got = resolver[q].got
          /\ resolver'[q].deadline = resolver[q].deadline
          /\ resolver[q].pc = "orphan" => resolver'[q].pc = "orphan"
          /\ Working(q)' => (Working(q) /\ q # r)
    BY <1>1, <1>2 DEF Working
  <1>5. sfn[r] \notin {"new", "rendering"}
    BY DEF IInv, ResolverInv
  <1>6. ResolverInv'
    BY <1>1, <1>2 DEF IInv, ResolverInv
  <1>7. QuietInv'
    BY <1>3, <1>4, <1>5 DEF IInv, QuietInv
  <1>8. LockRowsInv' /\ OwnerRowsInv' /\ LiveLockIsIndexed' /\ WorkingRunHoldsItsLocks'
    BY <1>4, RowFrame
  <1>9. ASSUME NEW q \in Runs, NEW t \in Slots
        PROVE  SlotInv(q, t)' /\ Covers(q, t)' /\ (t = "task" => Renders(q)')
    <2>1. CASE q = r /\ t = "task"
      BY <1>3, <1>5, <2>1, StartedSlot
    <2>2. CASE q # r \/ t # "task"
      <3>1. closer'[q][t] = closer[q][t] /\ now' >= now
        BY <1>1, <1>3, <2>2 DEF TypeOK
      <3> QED
        BY <1>4, <3>1, SlotFrame
    <2> QED
      BY <2>1, <2>2
  <1>10. CloserInv' /\ CoverInv' /\ RenderInv'
    BY <1>1, <1>9 DEF CloserInv, CoverInv, RenderInv
  <1>11. SuccessKeepsOnlyRetriedLocks'
    BY DEF IInv, SuccessKeepsOnlyRetriedLocks
  <1> QED
    BY <1>6, <1>7, <1>8, <1>10, <1>11 DEF IInv

\* No row changes and no closer steps: ResolverInv, QuietInv and the last property remain
\* to be looked at.
LEMMA StillFrame ==
  ASSUME IInv, TypeOK', UNCHANGED <<now, locks, owners, closer, outcome>>,
         \A q \in Runs :
           /\ resolver'[q].got = resolver[q].got
           /\ resolver[q].pc = "orphan" => resolver'[q].pc = "orphan"
           /\ sfn'[q] = "rendering" => sfn[q] = "rendering"
  PROVE  CloserInv' /\ CoverInv' /\ RenderInv'
  <1>1. now' >= now /\ "task" \in Slots
    BY DEF IInv, TypeOK, Slots
  <1>2. ASSUME NEW q \in Runs, NEW t \in Slots
        PROVE  SlotInv(q, t)' /\ Covers(q, t)' /\ (t = "task" => Renders(q)')
    BY <1>1, SlotFrame
  <1> QED
    BY <1>1, <1>2 DEF CloserInv, CoverInv, RenderInv

LEMMA ResolvingInv ==
  ASSUME IInv, NEW r \in Runs, Resolving(r)
  PROVE  IInv'
  <1> DEFINE v == resolver[r]
  <1> USE ConstantAssumption
  <1>1. TypeOK /\ TypeOK' /\ v \in Resolver
    BY ResolvingType DEF IInv, TypeOK
  <1>2. ASSUME NEW f \in Folders, AcquireLock(r, f) PROVE IInv'
    BY <1>2, AcquireLockInv
  <1>3. ASSUME NEW f \in Folders, SkipHeld(r, f) PROVE IInv'
    <2>1. /\ UNCHANGED <<now, locks, owners, sfn, closer, outcome>>
          /\ resolver' = [resolver EXCEPT ![r] = [v EXCEPT !.todo = @ \ {f}, !.skipped = TRUE]]
      BY <1>3 DEF SkipHeld, Resolve
    <2>2. /\ resolver'[r].todo = v.todo \ {f} /\ resolver'[r].got = v.got
          /\ resolver'[r].pc = v.pc /\ resolver'[r].now = v.now
          /\ resolver'[r].deadline = v.deadline
          /\ \A q \in Runs : q # r => resolver'[q] = resolver[q]
      BY <1>1, <2>1 DEF TypeOK, Resolver
    <2>3. \A q \in Runs :
            /\ resolver'[q].got = resolver[q].got
            /\ resolver'[q].deadline = resolver[q].deadline
            /\ resolver'[q].pc = resolver[q].pc
            /\ Working(q)' => Working(q)
      BY <2>1, <2>2 DEF Working
    <2>4. ResolverInv'
      BY <2>1, <2>2 DEF IInv, ResolverInv
    <2>5. QuietInv'
      BY <2>1, <2>3 DEF IInv, QuietInv
    <2>6. LockRowsInv' /\ OwnerRowsInv' /\ LiveLockIsIndexed' /\ WorkingRunHoldsItsLocks'
      BY <2>1, <2>3, RowFrame
    <2>7. CloserInv' /\ CoverInv' /\ RenderInv'
      BY <1>1, <2>1, <2>3, StillFrame
    <2>8. SuccessKeepsOnlyRetriedLocks'
      BY <2>1 DEF IInv, SuccessKeepsOnlyRetriedLocks
    <2> QED
      BY <1>1, <2>4, <2>5, <2>6, <2>7, <2>8 DEF IInv
  <1>4. /\ Raised \in Closer /\ ReleaseAll(MaxTries) \in Closer
        /\ Raised.pc = "raised" /\ Raised.all /\ ~Raised.raising
        /\ ReleaseAll(MaxTries).pc = "query"
        /\ ReleaseAll(MaxTries).all /\ ~ReleaseAll(MaxTries).raising
    BY CloserShapes DEF Raised, ReleaseAll, Idle
  <1>5. ASSUME v.pc \in {"acquire", "orphan"}, Unwind(r) PROVE IInv'
    BY <1>1, <1>4, <1>5, ResolverStopsInv DEF Unwind
  <1>6. ASSUME NEW f \in Folders, RaiseHeld(r, f) PROVE IInv'
    BY <1>5, <1>6 DEF RaiseHeld, Acquiring
  <1>7. CASE ResolverRaise(r)
    BY <1>5, <1>7 DEF ResolverRaise
  <1>8. CASE ResolverKilled(r)
    BY <1>1, <1>4, <1>8, ResolverStopsInv DEF ResolverKilled
  <1>9. CASE BeginResolve(r)
    <2>1. PICK fs \in SUBSET Folders \ {{}}, w \in Windows, ord \in BOOLEAN :
            Resolve(r, [pc |-> "acquire", now |-> now, deadline |-> now + w,
                        todo |-> fs, got |-> {}, ordered |-> ord, skipped |-> FALSE])
      BY <1>9 DEF BeginResolve
    <2>2. /\ UNCHANGED <<now, locks, owners, closer, outcome>>
          /\ sfn[r] = "new" /\ v.got = {} /\ now \in Nat
          /\ sfn' = [sfn EXCEPT ![r] = "resolving"]
          /\ sfn'[r] = "resolving"
          /\ \A q \in Runs : q # r => sfn'[q] = sfn[q]
      BY <1>1, <1>9 DEF BeginResolve, IInv, ResolverInv, TypeOK
    <2>3. /\ resolver'[r].todo = fs /\ resolver'[r].got = {}
          /\ resolver'[r].pc = "acquire" /\ resolver'[r].now = now
          /\ \A q \in Runs : q # r => resolver'[q] = resolver[q]
      BY <1>1, <2>1 DEF Resolve, TypeOK
    <2>4. /\ \A f \in Folders : locks[f] # None => locks[f].run \in Runs /\ locks[f].run # r
          /\ \A f \in Folders : owners[r][f] = None
          /\ v.pc # "orphan"
      <3>1. \A f \in Folders : locks[f] # None => locks[f].run \in Runs /\ locks[f].run # r
        BY <1>1, <2>2 DEF IInv, LockRowsInv, TypeOK, LockRow
      <3>2. \A f \in Folders : owners[r][f] = None
        BY <2>2 DEF IInv, OwnerRowsInv
      <3>3. v.pc # "orphan"
        BY <2>2 DEF IInv, ResolverInv
      <3> QED
        BY <3>1, <3>2, <3>3
    <2>5. ResolverInv'
      BY <1>1, <2>2, <2>3 DEF IInv, ResolverInv, TypeOK
    <2>6. QuietInv'
      BY <2>2, <2>3 DEF IInv, QuietInv, Working
    <2>7. LockRowsInv'
      BY <2>2, <2>3, <2>4 DEF IInv, LockRowsInv, ExpiresAt
    <2>8. OwnerRowsInv'
      BY <2>2, <2>3, <2>4 DEF IInv, OwnerRowsInv, ExpiresAt
    <2>9. CloserInv' /\ CoverInv' /\ RenderInv'
      BY <1>1, <2>2, <2>3, <2>4, StillFrame
    <2>10. WorkingRunHoldsItsLocks'
      BY <2>2, <2>3 DEF IInv, WorkingRunHoldsItsLocks, Working, ExpiresAt
    <2>11. LiveLockIsIndexed' /\ SuccessKeepsOnlyRetriedLocks'
      BY <2>2 DEF IInv, LiveLockIsIndexed, Live, Expired, SuccessKeepsOnlyRetriedLocks
    <2> QED
      BY <1>1, <2>5, <2>6, <2>7, <2>8, <2>9, <2>10, <2>11 DEF IInv
  <1>10. CASE ResolveReturn(r)
    <2>1. /\ UNCHANGED <<now, locks, owners, closer, outcome>>
          /\ v.pc = "acquire" /\ sfn[r] = "resolving"
          /\ sfn'[r] = "executing"
          /\ \A q \in Runs : q # r => sfn'[q] = sfn[q]
      BY <1>1, <1>10 DEF ResolveReturn, IInv, ResolverInv, TypeOK
    <2>2. /\ resolver'[r].todo = v.todo /\ resolver'[r].got = v.got
          /\ resolver'[r].pc = "returned" /\ resolver'[r].now = v.now
          /\ resolver'[r].deadline = v.deadline
          /\ \A q \in Runs : q # r => resolver'[q] = resolver[q]
      BY <1>1, <1>10 DEF ResolveReturn, Resolve, TypeOK, Resolver
    <2>3. \A q \in Runs :
            /\ resolver'[q].got = resolver[q].got
            /\ resolver'[q].deadline = resolver[q].deadline
            /\ resolver[q].pc = "orphan" => resolver'[q].pc = "orphan"
            /\ Working(q)' => Working(q)
            /\ sfn'[q] \in {"new", "rendering", "succeeded"} => sfn'[q] = sfn[q]
      BY <2>1, <2>2 DEF Working
    <2>4. ResolverInv'
      BY <2>1, <2>2 DEF IInv, ResolverInv
    <2>5. QuietInv'
      BY <2>1, <2>3 DEF IInv, QuietInv
    <2>6. LockRowsInv' /\ OwnerRowsInv' /\ LiveLockIsIndexed' /\ WorkingRunHoldsItsLocks'
      BY <2>1, <2>3, RowFrame
    <2>7. CloserInv' /\ CoverInv' /\ RenderInv'
      BY <1>1, <2>1, <2>3, StillFrame
    <2>8. SuccessKeepsOnlyRetriedLocks'
      BY <2>1, <2>3 DEF IInv, SuccessKeepsOnlyRetriedLocks
    <2> QED
      BY <1>1, <2>4, <2>5, <2>6, <2>7, <2>8 DEF IInv
  <1> QED
    BY <1>2, <1>3, <1>6, <1>7, <1>8, <1>9, <1>10 DEF Resolving

-----------------------------------------------------------------------------
(* Step Functions, EventBridge and the environment.                        *)

\* An execution moves on, and at most its own task starts over as release_all.
LEMMA PhaseFrame ==
  ASSUME IInv, TypeOK', NEW r \in Runs, NEW t \in Slots,
         UNCHANGED <<now, locks, owners, resolver, outcome>>,
         ~Working(r) \/ sfn[r] = "executing",
         sfn'[r] \notin {"new", "resolving", "executing", "rendering", "succeeded"},
         \A q \in Runs : q # r => sfn'[q] = sfn[q],
         \A q \in Runs, u \in Slots : q # r \/ u # t => closer'[q][u] = closer[q][u],
         closer'[r][t].pc = "query", closer'[r][t].all, ~closer'[r][t].raising,
         sfn[r] = "failed" => sfn'[r] = "failed"
  PROVE  IInv'
  <1>1. TypeOK /\ now' >= now /\ "task" \in Slots
    <2>1. TypeOK /\ now \in Nat /\ now' = now
      BY DEF IInv, TypeOK
    <2> QED
      BY <2>1 DEF Slots
  <1>2. resolver[r].pc # "acquire"
    BY DEF IInv, ResolverInv, Working
  <1>3. ResolverInv'
    BY <1>2 DEF IInv, ResolverInv
  <1>4. \A q \in Runs : Working(q)' => Working(q) /\ q # r
    BY DEF Working
  <1>5. QuietInv'
    BY <1>4 DEF IInv, QuietInv
  <1>6. LockRowsInv' /\ OwnerRowsInv' /\ LiveLockIsIndexed' /\ WorkingRunHoldsItsLocks'
    BY <1>4, RowFrame
  <1>7. ASSUME NEW q \in Runs, NEW u \in Slots
        PROVE  SlotInv(q, u)' /\ Covers(q, u)' /\ (u = "task" => Renders(q)')
    <2>1. CASE q = r /\ u = t
      BY <2>1, StartedSlot
    <2>2. CASE q # r \/ u # t
      <3>1. closer'[q][u] = closer[q][u] /\ (sfn'[q] = "rendering" => sfn[q] = "rendering")
        BY <2>2
      <3> QED
        BY <1>1, <3>1, SlotFrame
    <2> QED
      BY <2>1, <2>2
  <1>8. CloserInv' /\ CoverInv' /\ RenderInv'
    BY <1>1, <1>7 DEF CloserInv, CoverInv, RenderInv
  <1>9. SuccessKeepsOnlyRetriedLocks'
    BY DEF IInv, SuccessKeepsOnlyRetriedLocks
  <1> QED
    BY <1>3, <1>5, <1>6, <1>8, <1>9 DEF IInv

\* RenderPR starts to release: its list holds every folder of a run without failures.
LEMMA FoldersDoneInv ==
  ASSUME IInv, TypeOK', NEW r \in Runs, FoldersDone(r)
  PROVE  IInv'
  <1> DEFINE got == resolver[r].got
             items(retried, shown) ==
               {[folder |-> f, attempt |-> IF f \in retried THEN 1 ELSE 0] : f \in shown}
             d == closer'[r]["task"]
  <1>1. TypeOK /\ now' >= now /\ "task" \in Slots /\ got \subseteq Folders
        /\ resolver[r] \in Resolver
    <2>1. TypeOK /\ now \in Nat /\ now' = now /\ resolver[r] \in Resolver
      BY DEF IInv, TypeOK, FoldersDone
    <2> QED
      BY <2>1 DEF Slots, Resolver
  <1>2. PICK retried \in SUBSET got, failed \in BOOLEAN, shown \in SUBSET got :
          /\ ~failed => shown = got
          /\ outcome' = [outcome EXCEPT ![r] =
                          [ok |-> ~failed /\ ~resolver[r].skipped, retried |-> retried]]
          /\ Set(r, "task", ReleaseEach(items(retried, shown)))
    BY DEF FoldersDone
  <1>3. /\ UNCHANGED <<now, locks, owners, resolver>>
        /\ sfn[r] = "executing" /\ sfn'[r] = "rendering"
        /\ \A q \in Runs : q # r => sfn'[q] = sfn[q]
    BY <1>1 DEF FoldersDone, TypeOK
  <1>4. /\ outcome'[r] = [ok |-> ~failed /\ ~resolver[r].skipped, retried |-> retried]
        /\ \A q \in Runs : q # r => outcome'[q] = outcome[q]
    BY <1>1, <1>2 DEF TypeOK
  <1>5. /\ d = ReleaseEach(items(retried, shown))
        /\ \A q \in Runs, u \in Slots : q # r \/ u # "task" => closer'[q][u] = closer[q][u]
    BY <1>1, <1>2 DEF Set, TypeOK
  <1>6. /\ d.pc = "next" /\ ~d.all /\ ~d.raising /\ d.todo = items(retried, shown)
        /\ d.tries = MaxTries
    BY <1>5 DEF ReleaseEach, Idle
  <1>7. SlotInv(r, "task")' /\ Covers(r, "task")'
    <2>1. \A i \in d.todo : i.folder \in got
      BY <1>6
    <2> QED
      BY <1>3, <1>6, <2>1 DEF SlotInv, Covers, Releasing
  <1>8. Renders(r)'
    <2>1. ASSUME outcome'[r].ok, NEW f \in Folders, HeldBy(locks[f], r, 0), f \notin retried
          PROVE  [folder |-> f, attempt |-> 0] \in d.todo
      <3>1. f \in got
        BY <2>1 DEF IInv, LockRowsInv, HeldBy
      <3>2. shown = got
        <4>1. outcome'[r].ok = (~failed /\ ~resolver[r].skipped)
          BY <1>4
        <4> QED
          BY <1>2, <2>1, <4>1
      <3> QED
        BY <1>6, <2>1, <3>1, <3>2
    <2> QED
      BY <1>3, <1>4, <1>6, <2>1 DEF Renders
  <1>9. ASSUME NEW q \in Runs, NEW u \in Slots
        PROVE  SlotInv(q, u)' /\ Covers(q, u)' /\ (u = "task" => Renders(q)')
    <2>1. CASE q = r /\ u = "task"
      BY <1>7, <1>8, <2>1
    <2>2. CASE q = r /\ u # "task"
      <3>1. closer'[r][u] = closer[r][u] /\ SlotInv(r, u) /\ Covers(r, u)
        BY <1>5, <2>2 DEF IInv, CloserInv, CoverInv
      <3> QED
        BY <1>3, <2>2, <3>1 DEF SlotInv, Covers, Live, Expired, NotOf
    <2>3. CASE q # r
      <3>1. closer'[q][u] = closer[q][u] /\ sfn'[q] = sfn[q] /\ outcome'[q] = outcome[q]
        BY <1>3, <1>4, <1>5, <2>3
      <3> QED
        BY <1>1, <1>3, <3>1, SlotFrame
    <2> QED
      BY <2>1, <2>2, <2>3
  <1>10. CloserInv' /\ CoverInv' /\ RenderInv'
    BY <1>1, <1>9 DEF CloserInv, CoverInv, RenderInv
  <1>11. \A q \in Runs : Working(q)' => Working(q) /\ q # r
    BY <1>3 DEF Working
  <1>12. ResolverInv'
    BY <1>3 DEF IInv, ResolverInv
  <1>13. QuietInv'
    BY <1>3, <1>5, <1>11 DEF IInv, QuietInv
  <1>14. LockRowsInv' /\ OwnerRowsInv' /\ LiveLockIsIndexed' /\ WorkingRunHoldsItsLocks'
    BY <1>3, <1>11, RowFrame
  <1>15. SuccessKeepsOnlyRetriedLocks'
    BY <1>3, <1>4 DEF IInv, SuccessKeepsOnlyRetriedLocks
  <1> QED
    BY <1>10, <1>12, <1>13, <1>14, <1>15 DEF IInv

LEMMA OrchestrationInv ==
  ASSUME IInv, NEW r \in Runs, Orchestration(r)
  PROVE  IInv'
  <1> USE ConstantAssumption
  <1>1. TypeOK /\ TypeOK' /\ "task" \in Slots /\ Deliveries \subseteq Slots
    BY OrchestrationType DEF IInv, Slots
  <1>2. ReleaseAll(0).pc = "query" /\ ReleaseAll(0).all /\ ~ReleaseAll(0).raising
    BY DEF ReleaseAll, Idle
  <1>3. CASE FoldersDone(r)
    BY <1>1, <1>3, FoldersDoneInv
  <1>4. ASSUME EnterFinalize(r), ~Working(r) \/ sfn[r] = "executing", sfn[r] # "failed"
        PROVE  IInv'
    <2>1. /\ UNCHANGED <<now, locks, owners, resolver, outcome>>
          /\ sfn'[r] = "finalizing"
          /\ \A q \in Runs : q # r => sfn'[q] = sfn[q]
      BY <1>1, <1>4 DEF EnterFinalize, TypeOK
    <2>2. /\ closer'[r]["task"] = ReleaseAll(0)
          /\ \A q \in Runs, u \in Slots : q # r \/ u # "task" => closer'[q][u] = closer[q][u]
      BY <1>1, <1>4 DEF EnterFinalize, Set, TypeOK
    <2> QED
      BY <1>1, <1>2, <1>4, <2>1, <2>2, PhaseFrame
  <1>5. CASE MapFailed(r)
    BY <1>4, <1>5 DEF MapFailed
  <1>6. CASE ResolveFailed(r)
    <2>1. ~Working(r)
      BY <1>1, <1>6 DEF ResolveFailed, IInv, QuietInv
    <2> QED
      BY <1>4, <1>6, <2>1 DEF ResolveFailed
  <1>7. CASE RenderFailed(r)
    BY <1>4, <1>7 DEF RenderFailed, Working
  <1>8. ASSUME NEW d \in Deliveries, DeliverEvent(r, d) PROVE IInv'
    <2>1. /\ UNCHANGED <<now, locks, owners, resolver, outcome, sfn>>
          /\ sfn[r] = "failed"
      BY <1>8 DEF DeliverEvent
    <2>2. /\ closer'[r][d] = ReleaseAll(0)
          /\ \A q \in Runs, u \in Slots : q # r \/ u # d => closer'[q][u] = closer[q][u]
      BY <1>1, <1>8 DEF DeliverEvent, Set, TypeOK
    <2>3. ~Working(r) /\ d \in Slots
      BY <1>1, <2>1 DEF Working
    <2> QED
      BY <1>1, <1>2, <2>1, <2>2, <2>3, PhaseFrame
  <1>9. ASSUME NEW status, sfn' = [sfn EXCEPT ![r] = status], status \in {"failed", "succeeded"},
               UNCHANGED <<now, locks, owners, closer, outcome>>,
               \/ status = "failed"
               \/ sfn[r] = "rendering" /\ closer[r]["task"].pc = "done" /\ outcome[r].ok,
               \A q \in Runs :
                 /\ resolver'[q].got = resolver[q].got
                 /\ resolver'[q].todo = resolver[q].todo
                 /\ resolver'[q].now = resolver[q].now
                 /\ resolver'[q].deadline = resolver[q].deadline
                 /\ resolver[q].pc = "orphan" => resolver'[q].pc = "orphan"
                 /\ resolver'[q].pc = "acquire" => resolver[q].pc = "acquire"
                 /\ resolver'[q].pc = "returned" => resolver[q].pc = "returned"
                 /\ q # r => resolver'[q].pc = resolver[q].pc,
               resolver'[r].pc # "acquire",
               resolver'[r].pc = "orphan" => status = "failed"
        PROVE  IInv'
    <2>1. sfn'[r] = status /\ \A q \in Runs : q # r => sfn'[q] = sfn[q]
      BY <1>1, <1>9 DEF TypeOK
    <2>2. \A q \in Runs : Working(q)' => Working(q) /\ q # r
      BY <1>9, <2>1 DEF Working
    <2>3. ResolverInv'
      BY <1>9, <2>1 DEF IInv, ResolverInv
    <2>4. QuietInv'
      BY <1>9, <2>1, <2>2 DEF IInv, QuietInv
    <2>5. LockRowsInv' /\ OwnerRowsInv' /\ LiveLockIsIndexed' /\ WorkingRunHoldsItsLocks'
      BY <1>9, <2>2, RowFrame
    <2>6. CloserInv' /\ CoverInv' /\ RenderInv'
      BY <1>1, <1>9, <2>1, StillFrame
    <2>7. status = "succeeded" =>
            \A f \in Folders : HeldBy(locks[f], r, 0) => f \in outcome[r].retried
      <3>1. Renders(r) /\ SlotInv(r, "task")
        BY <1>1 DEF IInv, RenderInv, CloserInv
      <3> QED
        BY <1>9, <3>1 DEF Renders, SlotInv
    <2>8. SuccessKeepsOnlyRetriedLocks'
      BY <1>9, <2>1, <2>7 DEF IInv, SuccessKeepsOnlyRetriedLocks
    <2> QED
      BY <1>1, <2>3, <2>4, <2>5, <2>6, <2>8 DEF IInv
  <1>10. CASE RenderDone(r) \/ IntentFailed(r) \/ FinalizeEnds(r)
    <2>1. resolver[r].pc # "acquire" /\ resolver[r].pc # "orphan"
      BY <1>10 DEF IInv, ResolverInv, RenderDone, IntentFailed, FinalizeEnds
    <2> QED
      BY <1>9, <1>10, <2>1 DEF RenderDone, IntentFailed, FinalizeEnds, EndRun
  <1>11. CASE Abort(r)
    <2> DEFINE v == resolver[r]
    <2>1. v \in Resolver
      BY <1>1 DEF TypeOK
    <2>2. /\ resolver'[r] = [v EXCEPT !.pc = IF @ = "acquire" THEN "orphan" ELSE @]
          /\ \A q \in Runs : q # r => resolver'[q] = resolver[q]
      BY <1>1, <1>11 DEF Abort, Resolve, TypeOK
    <2>3. /\ resolver'[r].pc = IF v.pc = "acquire" THEN "orphan" ELSE v.pc
          /\ resolver'[r].got = v.got /\ resolver'[r].todo = v.todo
          /\ resolver'[r].now = v.now /\ resolver'[r].deadline = v.deadline
      BY <2>1, <2>2 DEF Resolver
    <2> QED
      BY <1>9, <1>11, <2>2, <2>3 DEF Abort, EndRun
  <1> QED
    BY <1>3, <1>5, <1>6, <1>7, <1>8, <1>10, <1>11 DEF Orchestration

\* Time only ends leases, and DynamoDB deletes only rows whose lease has ended.
LEMMA EnvironmentInv ==
  ASSUME IInv, Environment
  PROVE  IInv'
  <1> USE ConstantAssumption
  <1>1. TypeOK /\ TypeOK' /\ "task" \in Slots
    BY EnvironmentType DEF IInv, Slots
  <1>2. /\ UNCHANGED <<sfn, resolver, closer, outcome>>
        /\ now' >= now
        /\ \A f \in Folders :
             \/ locks'[f] = locks[f]
             \/ locks[f] # None /\ Expired(locks[f]) /\ locks'[f] = None
        /\ \A q \in Runs, f \in Folders :
             \/ owners'[q][f] = owners[q][f]
             \/ owners[q][f] # None /\ Expired(owners[q][f]) /\ owners'[q][f] = None
    <2>1. CASE Tick
      BY <1>1, <2>1 DEF Tick, TypeOK
    <2>2. ASSUME NEW f \in Folders, ReapLock(f)
          PROVE  /\ UNCHANGED <<now, sfn, resolver, closer, outcome, owners>>
                 /\ \A g \in Folders :
                      \/ locks'[g] = locks[g]
                      \/ locks[g] # None /\ Expired(locks[g]) /\ locks'[g] = None
      BY <1>1, <2>2 DEF ReapLock, TypeOK
    <2>3. ASSUME NEW r \in Runs, NEW f \in Folders, ReapOwner(r, f)
          PROVE  /\ UNCHANGED <<now, sfn, resolver, closer, outcome, locks>>
                 /\ \A q \in Runs, g \in Folders :
                      \/ owners'[q][g] = owners[q][g]
                      \/ owners[q][g] # None /\ Expired(owners[q][g]) /\ owners'[q][g] = None
      BY <1>1, <2>3 DEF ReapOwner, TypeOK
    <2>4. now \in Nat
      BY <1>1 DEF TypeOK
    <2> QED
      BY <2>1, <2>2, <2>3, <2>4 DEF Environment
  <1>3. ResolverInv'
    BY <1>1, <1>2 DEF IInv, ResolverInv, TypeOK, Resolver
  <1>4. QuietInv' /\ SuccessKeepsOnlyRetriedLocks'
    BY <1>2 DEF IInv, QuietInv, Working, SuccessKeepsOnlyRetriedLocks, HeldBy
  <1>5. LockRowsInv'
    BY <1>2 DEF IInv, LockRowsInv, ExpiresAt
  <1>6. OwnerRowsInv'
    BY <1>2 DEF IInv, OwnerRowsInv, ExpiresAt
  <1>7. CloserInv' /\ CoverInv' /\ RenderInv'
    <2>1. ASSUME NEW q \in Runs, NEW t \in Slots
          PROVE  SlotInv(q, t)' /\ Covers(q, t)' /\ (t = "task" => Renders(q)')
      BY <1>1, <1>2, SlotFrame
    <2> QED
      BY <1>1, <2>1 DEF CloserInv, CoverInv, RenderInv
  <1>8. WorkingRunHoldsItsLocks'
    <2> SUFFICES ASSUME NEW r \in Runs, NEW f \in resolver[r].got, Working(r),
                        now' <= ExpiresAt(resolver[r].deadline)
                 PROVE  HeldBy(locks'[f], r, 0)
      BY <1>2 DEF WorkingRunHoldsItsLocks, Working, ExpiresAt
    <2>1. f \in Folders /\ now \in Nat /\ now' \in Nat /\ ExpiresAt(resolver[r].deadline) \in Nat
      BY <1>1 DEF TypeOK, Resolver, ExpiresAt
    <2>2. HeldBy(locks[f], r, 0) /\ now <= ExpiresAt(resolver[r].deadline)
      BY <1>2, <2>1 DEF IInv, WorkingRunHoldsItsLocks
    <2>3. locks[f].expires = ExpiresAt(resolver[r].deadline)
      BY <2>1, <2>2 DEF IInv, LockRowsInv, HeldBy
    <2> QED
      BY <1>2, <2>1, <2>2, <2>3 DEF Expired
  <1>9. LiveLockIsIndexed'
    <2> SUFFICES ASSUME NEW f \in Folders, Live(locks[f])'
                 PROVE  owners'[locks'[f].run][f]
                          = [attempt |-> locks'[f].attempt, expires |-> locks'[f].expires]
      BY DEF LiveLockIsIndexed
    <2>1. /\ locks'[f] = locks[f] /\ Live(locks[f]) /\ locks[f].run \in Runs
      BY <1>1, <1>2 DEF Live, Expired, TypeOK, LockRow
    <2>2. owners[locks[f].run][f] = [attempt |-> locks[f].attempt, expires |-> locks[f].expires]
      BY <2>1 DEF IInv, LiveLockIsIndexed
    <2>3. ~Expired(owners[locks[f].run][f])
      BY <2>1, <2>2 DEF Live, Expired
    <2> QED
      BY <1>2, <2>1, <2>2, <2>3
  <1> QED
    BY <1>1, <1>3, <1>4, <1>5, <1>6, <1>7, <1>8, <1>9 DEF IInv

LEMMA InitInv == Init => IInv
  <1> SUFFICES ASSUME Init PROVE IInv
    OBVIOUS
  <1>1. TypeOK
    BY InitType
  <1>2. \A r \in Runs, s \in Slots : closer[r][s] = Idle
    BY DEF Init
  <1>3. Idle.pc = "idle" /\ ~Idle.raising
    BY DEF Idle
  <1>4. CloserInv /\ CoverInv
    BY <1>2, <1>3 DEF CloserInv, CoverInv, SlotInv, Covers, Releasing
  <1>5. ResolverInv /\ QuietInv /\ RenderInv /\ SuccessKeepsOnlyRetriedLocks
    BY <1>2, <1>3 DEF Init, ResolverInv, QuietInv, RenderInv, Renders, SuccessKeepsOnlyRetriedLocks
  <1>6. LockRowsInv /\ OwnerRowsInv /\ WorkingRunHoldsItsLocks /\ LiveLockIsIndexed
    BY DEF Init, LockRowsInv, OwnerRowsInv, WorkingRunHoldsItsLocks, LiveLockIsIndexed, Live
  <1> QED
    BY <1>1, <1>4, <1>5, <1>6 DEF IInv

LEMMA NextInv == IInv /\ [Next]_vars => IInv'
  <1> SUFFICES ASSUME IInv, [Next]_vars PROVE IInv'
    OBVIOUS
  <1>1. CASE Next
    BY <1>1, NextCases, EnvironmentInv, ResolvingInv, OrchestrationInv, CloserMovesInv
  <1>2. CASE UNCHANGED vars
    BY <1>2 DEF vars, IInv, TypeOK, ResolverInv, QuietInv, Working, LockRowsInv, OwnerRowsInv,
       CloserInv, SlotInv, NotOf, CoverInv, Covers, Live, Expired, RenderInv, Renders, HeldBy,
       WorkingRunHoldsItsLocks, LiveLockIsIndexed, SuccessKeepsOnlyRetriedLocks, ExpiresAt
  <1> QED
    BY <1>1, <1>2

LEMMA Inductive == Spec => []IInv
  BY InitInv, NextInv, PTL DEF Spec

-----------------------------------------------------------------------------
(* What follows.                                                           *)

\* Mutual exclusion: until its deadline plus the margin, nobody takes a folder from a run
\* that works on it - no takeover, no late closer of another run, no TTL deletion.
THEOREM MutualExclusion == Spec => []WorkingRunHoldsItsLocks
  <1>1. IInv => WorkingRunHoldsItsLocks
    BY DEF IInv
  <1> QED
    BY <1>1, Inductive, PTL

\* Recoverability: at every moment the ownership index leads to every lock that excludes,
\* although lock and index row are deleted by separate calls of concurrent closers.
THEOREM Recoverability == Spec => []LiveLockIsIndexed
  <1>1. IInv => LiveLockIsIndexed
    BY DEF IInv
  <1> QED
    BY <1>1, Inductive, PTL

\* Completeness of release_all: one that returned has left no lock of its run behind.
THEOREM ReleaseAllIsComplete == Spec => []ClosedRunHoldsNothing
  <1>1. IInv => ClosedRunHoldsNothing
    <2> SUFFICES ASSUME IInv, NEW r \in Runs, NEW s \in Slots, closer[r][s].pc = "done",
                        closer[r][s].all, resolver[r].pc # "orphan",
                        NEW f \in Folders, Live(locks[f]), locks[f].run = r
                 PROVE  FALSE
      BY DEF ClosedRunHoldsNothing
    <2>1. SlotInv(r, s) /\ Covers(r, s)
      BY DEF IInv, CloserInv, CoverInv
    <2> QED
      BY <2>1 DEF SlotInv, Covers
  <1> QED
    BY <1>1, Inductive, PTL

\* A successful run leaves at most the locks of folders that took a credential retry.
THEOREM SuccessfulRelease == Spec => []SuccessKeepsOnlyRetriedLocks
  <1>1. IInv => SuccessKeepsOnlyRetriedLocks
    BY DEF IInv
  <1> QED
    BY <1>1, Inductive, PTL

-----------------------------------------------------------------------------
(* The lock table implements FolderLease.                                  *)

LEMMA InitRefines == Init => Lease!Init
  BY DEF Init, Lease!Init, Leases, Ended, Working

\* A step that moves no lock and ends at most run r is a step of the lease, or none.
LEMMA EndsOnly ==
  ASSUME TypeOK, NEW r \in Runs, UNCHANGED <<now, locks>>,
         \A q \in Runs : q # r => (sfn'[q] = sfn[q] /\ resolver'[q].pc = resolver[q].pc),
         sfn[r] # "new" => sfn'[r] # "new",
         Working(r)' => (Working(r) \/ sfn[r] = "new")
  PROVE  Lease!Finish(r) \/ UNCHANGED Lease!vars
  <1>1. UNCHANGED <<now, Leases>>
    BY DEF Leases
  <1>2. \A q \in Runs : q # r => (q \in Ended <=> q \in Ended')
    BY DEF Ended, Working
  <1>3. r \in Ended => r \in Ended'
    BY DEF Ended
  <1>4. Ended \subseteq Runs /\ Ended' \subseteq Runs
    BY DEF Ended
  <1>5. Ended' = Ended \/ Ended' = Ended \cup {r}
    <2>1. CASE r \in Ended'
      <3>1. \A q : q \in Ended' <=> q \in Ended \/ q = r
        BY <1>2, <1>4, <2>1
      <3> QED
        BY <3>1
    <2>2. CASE r \notin Ended'
      <3>1. \A q : q \in Ended' <=> q \in Ended
        BY <1>2, <1>3, <1>4, <2>2
      <3> QED
        BY <3>1
    <2> QED
      BY <2>1, <2>2
  <1> QED
    BY <1>1, <1>5 DEF Lease!Finish, Lease!vars

LEMMA NextRefines == IInv /\ IInv' /\ [Next]_vars => [Lease!Next]_Lease!vars
  <1> SUFFICES ASSUME IInv, IInv', [Next]_vars PROVE [Lease!Next]_Lease!vars
    OBVIOUS
  <1> USE ConstantAssumption
  <1>1. TypeOK /\ TypeOK' /\ now \in Nat /\ now' \in Nat
    BY DEF IInv, TypeOK
  <1>2. ASSUME NEW r \in Runs, Lease!Finish(r) \/ UNCHANGED Lease!vars
        PROVE  [Lease!Next]_Lease!vars
    BY <1>2 DEF Lease!Next
  <1>3. CASE UNCHANGED vars
    BY <1>3 DEF vars, Lease!vars, Leases, Ended, Working
  <1>4. CASE Tick
    <2>1. Lease!Tick
      BY <1>1, <1>4 DEF Tick, Lease!Tick, Leases, Ended, Working
    <2> QED
      BY <2>1 DEF Lease!Next
  <1>5. ASSUME NEW f \in Folders, UNCHANGED <<now, sfn, resolver>>,
               locks' = [locks EXCEPT ![f] = None],
               locks[f] # None => (locks[f].run \in Ended \/ Expired(locks[f]))
        PROVE  [Lease!Next]_Lease!vars
    <2>1. UNCHANGED <<now, Ended>>
      BY <1>5 DEF Ended, Working
    <2>2. CASE locks[f] = None
      <3>1. locks' = locks
        BY <1>1, <1>5, <2>2 DEF TypeOK
      <3> QED
        BY <2>1, <3>1 DEF Lease!vars, Leases
    <2>3. CASE locks[f] # None
      <3>1. Leases' = [Leases EXCEPT ![f] = None]
        BY <1>1, <1>5 DEF Leases, TypeOK
      <3>2. Leases[f] = [run |-> locks[f].run, until |-> locks[f].expires]
        BY <2>3 DEF Leases
      <3>3. locks[f] \in LockRow /\ [run |-> locks[f].run, until |-> locks[f].expires] # None
        BY <1>1, <2>3 DEF TypeOK, LockRow
      <3> QED
        <4>1. Lease!Release(f)
          BY <1>5, <2>1, <2>3, <3>1, <3>2, <3>3 DEF Lease!Release, Expired
        <4> QED
          BY <4>1 DEF Lease!Next
    <2> QED
      BY <2>2, <2>3
  <1>6. ASSUME NEW f \in Folders, ReapLock(f) PROVE [Lease!Next]_Lease!vars
    BY <1>5, <1>6 DEF ReapLock
  <1>7. ASSUME UNCHANGED <<now, locks, sfn, resolver>> PROVE [Lease!Next]_Lease!vars
    BY <1>7 DEF Lease!vars, Leases, Ended, Working
  <1>8. ASSUME NEW r \in Runs, NEW f \in Folders, ReapOwner(r, f) PROVE [Lease!Next]_Lease!vars
    BY <1>7, <1>8 DEF ReapOwner
  <1>9. ASSUME NEW r \in Runs, NEW s \in Slots, CloserMoves(r, s)
        PROVE  [Lease!Next]_Lease!vars
    <2>1. UNCHANGED <<now, sfn, resolver>> /\ r \in Ended
      BY <1>9, CloserFrame DEF Ended
    <2>2. CASE DeleteLock(r, s)
      <3> DEFINE f == closer[r][s].cur.folder
                 mine == HeldBy(locks[f], r, closer[r][s].cur.attempt)
      <3>1. f \in Folders
        <4>1. SlotInv(r, s) /\ closer[r][s] \in Closer /\ closer[r][s].pc = "delete"
          BY <1>1, <2>2 DEF DeleteLock, IInv, CloserInv, TypeOK
        <4> QED
          BY <4>1 DEF SlotInv, Closer, Item
      <3>2. CASE mine
        <4>1. locks' = [locks EXCEPT ![f] = None] /\ locks[f].run = r
          BY <2>2, <3>2 DEF DeleteLock, HeldBy
        <4> QED
          BY <1>5, <2>1, <3>1, <4>1
      <3>3. CASE ~mine
        BY <1>7, <2>1, <2>2, <3>3 DEF DeleteLock
      <3> QED
        BY <3>2, <3>3
    <2>3. CASE ~DeleteLock(r, s)
      <3>1. UNCHANGED locks
        BY <1>9, <2>3 DEF CloserMoves, CloserStep, QueryOwners, ReadHolder, DeleteOwner,
           DeleteIndexRow, CloserDone, CloserRaise, RetryRelease
      <3> QED
        BY <1>7, <2>1, <3>1
    <2> QED
      BY <2>2, <2>3
  <1>10. ASSUME NEW r \in Runs, Orchestration(r) PROVE [Lease!Next]_Lease!vars
    <2>1. CASE \E d \in Deliveries : DeliverEvent(r, d)
      BY <1>7, <2>1 DEF DeliverEvent
    <2>2. CASE ~\E d \in Deliveries : DeliverEvent(r, d)
      <3>1. /\ UNCHANGED <<now, locks>>
            /\ \A q \in Runs : q # r => sfn'[q] = sfn[q] /\ resolver'[q].pc = resolver[q].pc
            /\ sfn'[r] \notin {"new", "resolving", "executing"}
        <4>1. CASE Abort(r)
          BY <1>1, <4>1 DEF Abort, EndRun, Resolve, TypeOK
        <4>2. CASE FoldersDone(r)
          BY <1>1, <4>2 DEF FoldersDone, TypeOK
        <4>3. CASE MapFailed(r) \/ ResolveFailed(r) \/ RenderFailed(r)
          BY <1>1, <4>3 DEF MapFailed, ResolveFailed, RenderFailed, EnterFinalize, TypeOK
        <4>4. CASE RenderDone(r) \/ IntentFailed(r) \/ FinalizeEnds(r)
          BY <1>1, <4>4 DEF RenderDone, IntentFailed, FinalizeEnds, EndRun, TypeOK
        <4> QED
          BY <1>10, <2>2, <4>1, <4>2, <4>3, <4>4 DEF Orchestration
      <3>2. Lease!Finish(r) \/ UNCHANGED Lease!vars
        BY <1>1, <3>1, EndsOnly DEF Working
      <3> QED
        BY <1>2, <3>2
    <2> QED
      BY <2>1, <2>2
  <1>11. ASSUME NEW r \in Runs, Resolving(r) PROVE [Lease!Next]_Lease!vars
    <2> DEFINE v == resolver[r]
    <2>1. v \in Resolver
      BY <1>1 DEF TypeOK
    <2>2. ASSUME NEW f \in Folders, AcquireLock(r, f) PROVE [Lease!Next]_Lease!vars
      <3> DEFINE end == ExpiresAt(v.deadline)
                 row == [run |-> r, attempt |-> 0, expires |-> end]
      <3>1. /\ UNCHANGED <<now, sfn>>
            /\ locks' = [locks EXCEPT ![f] = row]
            /\ \A q \in Runs : resolver'[q].pc = resolver[q].pc
        BY <1>1, <2>1, <2>2 DEF AcquireLock, Resolve, TypeOK, Resolver
      <3>2. end \in Nat /\ row \in LockRow /\ row # None
        BY <2>1 DEF Resolver, ExpiresAt, LockRow, Attempts
      <3>3. UNCHANGED Ended
        BY <3>1 DEF Ended, Working
      <3>4. Leases' = [Leases EXCEPT ![f] = [run |-> r, until |-> end]]
        BY <1>1, <3>1, <3>2 DEF Leases, TypeOK
      <3>5. /\ Leases'[f] = [run |-> r, until |-> end]
            /\ Leases'[f] # None /\ Leases'[f].until \in Nat
        BY <3>2, <3>4 DEF Leases
      <3>6. Leases[f] # None => Leases[f].until < now
        <4>1. locks[f] # None => locks[f].expires < v.now /\ locks[f].expires \in Nat
          BY <1>1, <2>2 DEF AcquireLock, Free, TypeOK, LockRow
        <4>2. v.now \in Nat /\ v.now <= now
          BY <2>1 DEF IInv, ResolverInv, Resolver
        <4> QED
          BY <1>1, <4>1, <4>2 DEF Leases
      <3>7. Lease!Grant(r, f)
        BY <3>1, <3>3, <3>4, <3>5, <3>6 DEF Lease!Grant
      <3> QED
        BY <3>7 DEF Lease!Next
    <2>3. ASSUME NEW f \in Folders, SkipHeld(r, f) PROVE [Lease!Next]_Lease!vars
      <3>1. /\ UNCHANGED <<now, locks, sfn>>
            /\ \A q \in Runs : resolver'[q].pc = resolver[q].pc
        BY <1>1, <2>1, <2>3 DEF SkipHeld, Resolve, TypeOK, Resolver
      <3> QED
        BY <3>1 DEF Lease!vars, Leases, Ended, Working
    <2>4. ASSUME Resolve(r, Stopped(v)), UNCHANGED <<now, locks, sfn>>
          PROVE  [Lease!Next]_Lease!vars
      <3>1. /\ resolver'[r].pc = IF v.pc = "acquire" THEN "unwound" ELSE v.pc
            /\ \A q \in Runs : q # r => resolver'[q].pc = resolver[q].pc
        BY <1>1, <2>1, <2>4 DEF Resolve, Stopped, TypeOK, Resolver
      <3>2. Lease!Finish(r) \/ UNCHANGED Lease!vars
        BY <1>1, <2>4, <3>1, EndsOnly DEF Working
      <3> QED
        BY <1>2, <3>2
    <2>5. ASSUME NEW f \in Folders, RaiseHeld(r, f) PROVE [Lease!Next]_Lease!vars
      BY <2>4, <2>5 DEF RaiseHeld, Unwind
    <2>6. CASE ResolverRaise(r) \/ ResolverKilled(r)
      BY <2>4, <2>6 DEF ResolverRaise, ResolverKilled, Unwind
    <2>7. CASE BeginResolve(r)
      <3>1. /\ UNCHANGED <<now, locks>>
            /\ \A q \in Runs : q # r => sfn'[q] = sfn[q] /\ resolver'[q].pc = resolver[q].pc
            /\ sfn[r] = "new"
        BY <1>1, <2>7 DEF BeginResolve, Resolve, TypeOK
      <3>2. Lease!Finish(r) \/ UNCHANGED Lease!vars
        BY <1>1, <3>1, EndsOnly
      <3> QED
        BY <1>2, <3>2
    <2>8. CASE ResolveReturn(r)
      <3>1. /\ UNCHANGED <<now, locks>>
            /\ \A q \in Runs : q # r => sfn'[q] = sfn[q] /\ resolver'[q].pc = resolver[q].pc
            /\ sfn'[r] = "executing" /\ sfn[r] = "resolving" /\ v.pc = "acquire"
        BY <1>1, <2>8 DEF ResolveReturn, Resolve, TypeOK, IInv, ResolverInv
      <3>2. Lease!Finish(r) \/ UNCHANGED Lease!vars
        BY <1>1, <3>1, EndsOnly DEF Working
      <3> QED
        BY <1>2, <3>2
    <2> QED
      BY <1>11, <2>2, <2>3, <2>5, <2>6, <2>7, <2>8 DEF Resolving
  <1>12. CASE Next
    BY <1>4, <1>6, <1>8, <1>9, <1>10, <1>11, <1>12, NextCases DEF Environment
  <1> QED
    BY <1>3, <1>12

\* Refinement: whatever the closers, crashes, aborts and retries do, another run gets a
\* folder only after its lease ended, and no lease ends early while its run has not ended.
THEOREM LockTableImplementsLease == Spec => ImplementsLease
  BY InitRefines, NextRefines, Inductive, PTL DEF Spec, ImplementsLease, Lease!Spec

=============================================================================
