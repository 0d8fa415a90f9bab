----------------------------- MODULE CommandAudit -----------------------------
(* The audit comment of a pull request: one bot comment with a row per         *)
(* delivery, read, changed and written back by webhook and intent Lambdas      *)
(* (platform/github/command_audit.py) under a lock of 60 seconds whose version *)
(* fences off a holder that was too slow (platform/aws/audit_lock.py).         *)
(* A step is one call to DynamoDB or GitHub; the reads of a holder that no     *)
(* other call depends on are joined. A Lambda lives at most 60 seconds, so a   *)
(* comment is written within the lease that the fence before it renewed, or    *)
(* not at all; everything else may take any time.                              *)
EXTENDS Integers, Sequences, FiniteSets, SequencesExt

CONSTANTS
  Writers,     \* invocations that may run side by side
  Deliveries,
  None,
  Ttl,         \* AUDIT_LOCK_TTL_SECONDS, in ticks
  Tries,       \* rounds of reading and fencing, 3 in the code
  MaxRows,     \* MAX_AUDIT_ROWS
  MaxNow, MaxOps, MaxFaults  \* bounds

ASSUME CommandAuditAssumption ==
  /\ None \notin Writers \cup Deliveries
  /\ Ttl \in Nat \ {0} /\ Tries \in Nat \ {0} /\ MaxRows \in Nat \ {0}
  /\ MaxNow \in Nat \ {0} /\ MaxOps \in Nat /\ MaxFaults \in Nat

VARIABLES
  now,
  lock,      \* the lock row of the pull request
  comments,  \* marker comments by id, each a sequence of rows
  writer,    \* [Writers -> record_command_audit or update_command_audit_status at work]
  recorded,  \* deliveries whose caller was told that their row is there
  ops, faults

vars == <<now, lock, comments, writer, recorded, ops, faults>>

Statuses == {"accepted", "not supported"}
Rows(d, s) == <<[delivery |-> d, status |-> s]>>
Idle == [pc |-> "idle", kind |-> "record", delivery |-> None, status |-> "accepted",
         version |-> 0, lease |-> 0, tries |-> 0, rows |-> <<>>, after |-> "idle"]

\* The lock row may not exist yet, which is like one without a holder.
Init ==
  /\ now = 1
  /\ lock = [holder |-> None, version |-> 0, expires |-> 0]
  /\ comments = <<>>
  /\ writer = [w \in Writers |-> Idle]
  /\ recorded = {}
  /\ ops = 0 /\ faults = 0

Tick ==
  /\ now < MaxNow /\ now' = now + 1
  /\ UNCHANGED <<lock, comments, writer, recorded, ops, faults>>

-----------------------------------------------------------------------------
(* The table: domain/formatters/command_audit.py.                          *)

HasRow(rows, d) == \E i \in DOMAIN rows : rows[i].delivery = d
StatusOf(rows, d) == rows[CHOOSE i \in DOMAIN rows : rows[i].delivery = d].status
\* A mutant: one row too many.
NewestAndOne(rows) ==
  SubSeq(rows, IF Len(rows) > MaxRows + 1 THEN Len(rows) - MaxRows ELSE 1, Len(rows))

Newest(rows) == SubSeq(rows, IF Len(rows) > MaxRows THEN Len(rows) - MaxRows + 1 ELSE 1, Len(rows))

\* The rows no earlier row has the delivery of.
Firsts(rows) ==
  {i \in DOMAIN rows : \A j \in 1..(i - 1) : rows[j].delivery # rows[i].delivery}

\* canonical_audit_rows keeps the first row of a delivery.
Canonical(rows) ==
  LET kept == Firsts(rows) IN
  [k \in 1..Cardinality(kept) |-> rows[CHOOSE i \in kept : Cardinality(kept \cap 1..i) = k]]

\* A mutant: a redelivery starts the row anew.
AppendAnew(rows, d, s) ==
  Newest(SelectSeq(rows, LAMBDA row : row.delivery # d) \o Rows(d, s))

\* append_audit_row leaves the body alone when the delivery has its row.
AppendRow(rows, d, s) == IF HasRow(rows, d) THEN rows ELSE Newest(rows \o Rows(d, s))

\* update_audit_row_status.
UpdateStatus(rows, d, s) ==
  [i \in DOMAIN rows |-> IF rows[i].delivery = d THEN [rows[i] EXCEPT !.status = s] ELSE rows[i]]

\* The body an operation wants; an update recreates a row that is not there.
Wanted(w, rows) ==
  LET d == writer[w].delivery  s == writer[w].status
  IN IF writer[w].kind = "update" /\ HasRow(rows, d)
       THEN UpdateStatus(rows, d, s) ELSE AppendRow(rows, d, s)

\* What a reader of all comments sees, in the order of their ids.
Merged(cs) == Newest(Canonical(FlattenSeq(cs)))

-----------------------------------------------------------------------------
(* The lock: platform/aws/audit_lock.py.                                   *)

At(w, pc) == writer[w].pc = pc
Go(w, pc) == writer' = [writer EXCEPT ![w].pc = pc]

Start(w, kind, d, s) ==
  /\ At(w, "idle") /\ ops < MaxOps /\ ops' = ops + 1
  /\ writer' = [writer EXCEPT ![w] = [Idle EXCEPT !.pc = "acquire", !.kind = kind,
                                                  !.delivery = d, !.status = s]]
  /\ UNCHANGED <<now, lock, comments, recorded, faults>>

Free == lock.holder = None \/ lock.expires < now
Leased(w, pc) ==
  /\ lock' = [holder |-> w, version |-> lock.version + 1, expires |-> now + Ttl]
  /\ writer' = [writer EXCEPT ![w].pc = pc, ![w].version = lock.version + 1,
                              ![w].lease = now + Ttl]

Acquire(w) ==
  /\ At(w, "acquire") /\ Free /\ Leased(w, "look")
  /\ UNCHANGED <<now, comments, recorded, ops, faults>>

\* The retries of _acquire_with_backoff are used up.
GiveUp(w) ==
  /\ At(w, "acquire") /\ ~Free /\ Go(w, "release")
  /\ UNCHANGED <<now, lock, comments, recorded, ops, faults>>

\* A mutant: any live lease will do.
HoldsAny(w) == lock.expires >= now

\* A call takes the lock under an id of its own, and each lease has its version.
Owns(w) == lock.holder = w /\ lock.version = writer[w].version

Holds(w) == Owns(w) /\ lock.expires >= now

\* A holder that lost its lease starts over, twice; a creator does not.
Lost(w) ==
  /\ UNCHANGED lock
  /\ IF writer[w].tries + 1 < Tries /\ ~(writer[w].after = "create")
       THEN writer' = [writer EXCEPT ![w].pc = "acquire", ![w].tries = @ + 1,
                                     ![w].after = "idle", ![w].rows = <<>>]
       ELSE Go(w, "release")

Fence(w) ==
  /\ At(w, "fence")
  /\ IF Holds(w) THEN Leased(w, writer[w].after) ELSE Lost(w)
  /\ UNCHANGED <<now, comments, recorded, ops, faults>>

Release(w) ==
  /\ At(w, "release")
  /\ lock' = IF Owns(w) THEN [lock EXCEPT !.holder = None, !.expires = 0] ELSE lock
  /\ writer' = [writer EXCEPT ![w] = Idle]
  /\ UNCHANGED <<now, comments, recorded, ops, faults>>

-----------------------------------------------------------------------------
(* The comment: platform/github/command_audit.py.                          *)

\* The call returns: the row is there and its caller goes on.
Done(w) == recorded' = recorded \cup {writer[w].delivery} /\ Go(w, "release")

Fencing(w, after, rows) ==
  /\ writer' = [writer EXCEPT ![w].pc = "fence", ![w].after = after, ![w].rows = rows]
  /\ UNCHANGED recorded

Many(cs) == Len(cs) > 1

\* With the one body in hand: no write, an update or a creation.
Decide(w, cs, rows) ==
  CASE cs = <<>>             -> Fencing(w, "create", Wanted(w, <<>>))
    [] Wanted(w, rows) = rows -> Done(w)
    [] OTHER                 -> Fencing(w, "update", Wanted(w, rows))

\* The marker comments of the bot are listed, the first one is read.
Look(w) ==
  /\ At(w, "look")
  /\ IF Many(comments) THEN Fencing(w, "merge", <<>>)
     ELSE Decide(w, comments, IF comments = <<>> THEN <<>> ELSE comments[1])
  /\ UNCHANGED <<now, lock, comments, ops, faults>>

InTime(w) == now <= writer[w].lease

\* _merge_existing_audit_comments: all rows into the lowest id ...
Merge(w) ==
  /\ At(w, "merge") /\ InTime(w)
  /\ comments' = [comments EXCEPT ![1] = Merged(comments)]
  /\ Go(w, "delete")
  /\ UNCHANGED <<now, lock, recorded, ops, faults>>

\* ... then the others go one by one, and the operation continues with the merged body.
DeleteExtra(w) ==
  /\ At(w, "delete") /\ InTime(w)
  /\ comments' = RemoveAt(comments, 2)
  /\ IF Len(comments) > 2 THEN UNCHANGED <<writer, recorded>>
     ELSE IF writer[w].after = "collapse" THEN Done(w)
     ELSE Decide(w, comments', comments[1])
  /\ UNCHANGED <<now, lock, ops, faults>>

UpdateComment(w) ==
  /\ At(w, "update") /\ InTime(w)
  /\ comments' = [comments EXCEPT ![1] = writer[w].rows]
  /\ Done(w)
  /\ UNCHANGED <<now, lock, ops, faults>>

\* The client repeats a POST that was answered with 502, although it may have been obeyed.
Created(w, times) == comments \o [i \in 1..times |-> writer[w].rows]

CreateComment(w) ==
  /\ At(w, "create") /\ InTime(w)
  /\ \/ comments' = Created(w, 1) /\ UNCHANGED faults
     \/ faults < MaxFaults /\ faults' = faults + 1 /\ comments' = Created(w, 2)
  /\ writer' = [writer EXCEPT ![w].pc = "collapse", ![w].after = "collapse"]
  /\ UNCHANGED <<now, lock, recorded, ops>>

\* _merge_duplicate_audit_comments looks again.
Collapse(w) ==
  /\ At(w, "collapse")
  /\ IF Many(comments) THEN Go(w, "merge") /\ UNCHANGED recorded ELSE Done(w)
  /\ UNCHANGED <<now, lock, comments, ops, faults>>

\* A call to GitHub or DynamoDB fails, with or without effect, and the lock is released.
CallFails(w) ==
  /\ faults < MaxFaults /\ faults' = faults + 1
  /\ writer[w].pc \notin {"idle", "acquire", "release"}
  /\ comments' \in {comments} \cup
       CASE At(w, "update") /\ InTime(w) -> {[comments EXCEPT ![1] = writer[w].rows]}
         [] At(w, "create") /\ InTime(w) -> {Created(w, 1)}
         [] At(w, "merge") /\ InTime(w) -> {[comments EXCEPT ![1] = Merged(comments)]}
         [] At(w, "delete") /\ InTime(w) -> {RemoveAt(comments, 2)}
         [] OTHER -> {}
  /\ Go(w, "release")
  /\ UNCHANGED <<now, lock, recorded, ops>>

\* A Lambda that times out or crashes releases nothing.
Die(w) ==
  /\ ~At(w, "idle")
  /\ \/ ~InTime(w) /\ UNCHANGED faults
     \/ faults < MaxFaults /\ faults' = faults + 1
  /\ writer' = [writer EXCEPT ![w] = Idle]
  /\ UNCHANGED <<now, lock, comments, recorded, ops>>

-----------------------------------------------------------------------------
Next ==
  \/ Tick
  \/ \E w \in Writers :
       \/ \E d \in Deliveries : \/ Start(w, "record", d, "accepted")
                                \/ Start(w, "update", d, "not supported")
       \/ Acquire(w) \/ GiveUp(w) \/ Fence(w) \/ Release(w)
       \/ Look(w) \/ Merge(w) \/ DeleteExtra(w) \/ UpdateComment(w) \/ CreateComment(w) \/ Collapse(w)
       \/ CallFails(w) \/ Die(w)

Spec == Init /\ [][Next]_vars

-----------------------------------------------------------------------------
(* Properties.                                                             *)

\* Every variable has its type; no comment outgrows its bound.
TypeOK ==
  /\ now \in 1..MaxNow /\ ops \in 0..MaxOps /\ faults \in 0..MaxFaults
  /\ lock.holder \in Writers \cup {None} /\ lock.version \in Nat /\ lock.expires \in Nat
  /\ \A i \in DOMAIN comments :
       /\ comments[i] \in Seq([delivery : Deliveries, status : Statuses])
       /\ Len(comments[i]) \in 1..MaxRows
  /\ \A w \in Writers : writer[w].version <= lock.version
  /\ recorded \subseteq Deliveries

\* However writers overtake each other, fail or die: a row whose writer was told that it is
\* there stays until as many others as the table holds have come.
RecordedRowsStay ==
  \A d \in recorded : HasRow(Merged(comments), d) \/ Len(Merged(comments)) = MaxRows

\* While a command has a row, the row does not go back from "not supported" to "accepted",
\* neither by a late writer nor by a merge.
RefusalStays ==
  [][\A d \in Deliveries :
       /\ HasRow(Merged(comments), d) /\ HasRow(Merged(comments'), d)
       /\ StatusOf(Merged(comments), d) = "not supported"
       => StatusOf(Merged(comments'), d) = "not supported"]_comments

=============================================================================
