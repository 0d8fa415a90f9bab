-------------------------- MODULE CommandAuditProofs --------------------------
(* Theorems about CommandAudit: for any number of writers, deliveries, rows,  *)
(* ticks, retries and faults, a row that was recorded is not lost and a       *)
(* refusal is not taken back.                                                 *)
EXTENDS CommandAudit, TLAPS, FiniteSetTheorems, SequenceTheorems

-----------------------------------------------------------------------------
(* The inductive invariant.                                                 *)

Row == [delivery : Deliveries, status : Statuses]

\* Rows of different deliveries, as many as a comment may hold.
IsTable(t) ==
  /\ t \in Seq(Row) /\ Len(t) <= MaxRows
  /\ \A i, j \in 1..Len(t) : t[i].delivery = t[j].delivery => i = j

\* Two comments only ever hold the same rows: a POST was obeyed twice.
AreComments(cs) ==
  /\ cs \in Seq(Seq(Row)) /\ Len(cs) \in 0..2
  /\ \A i \in 1..Len(cs) : IsTable(cs[i]) /\ cs[i] # <<>>
  /\ Len(cs) = 2 => cs[2] = cs[1]

\* The first comment.
BodyOf(cs) == IF Len(cs) = 0 THEN <<>> ELSE cs[1]

\* What becomes of a table: a row leaves a full one only, and no refusal is taken back.
Follows(u, t) ==
  /\ IsTable(u)
  /\ Len(t) = MaxRows => Len(u) = MaxRows
  /\ \A d \in Deliveries :
       /\ HasRow(t, d) => HasRow(u, d) \/ Len(u) = MaxRows
       /\ HasRow(t, d) /\ HasRow(u, d) /\ StatusOf(t, d) = "not supported"
            => StatusOf(u, d) = "not supported"

\* Wanted, of a writer's record.
WantedOf(r, t) ==
  IF r.kind = "update" /\ HasRow(t, r.delivery)
    THEN UpdateStatus(t, r.delivery, r.status) ELSE AppendRow(t, r.delivery, r.status)

Pcs == {"idle", "acquire", "look", "fence", "merge", "delete", "update", "create", "collapse",
        "release"}
WriterRow ==
  [pc : Pcs, kind : {"record", "update"}, delivery : Deliveries \cup {None}, status : Statuses,
   version : Nat, lease : Nat, tries : Nat, rows : Seq(Row), after : Pcs]

IsWriter(r) ==
  /\ r \in WriterRow
  /\ r.pc # "idle" => r.delivery \in Deliveries
  /\ r.kind = "update" => r.status = "not supported"
  /\ r.pc = "fence" => r.after \in {"create", "update", "merge"}
  /\ r.pc = "collapse" => r.after = "collapse"
  /\ r.after = "collapse" => r.delivery \in Deliveries

Working == {"look", "fence", "merge", "delete", "update", "create", "collapse"}

TypeInv ==
  /\ now \in 1..MaxNow /\ ops \in 0..MaxOps /\ faults \in 0..MaxFaults
  /\ lock \in [holder : Writers \cup {None}, version : Nat, expires : Nat]
  /\ recorded \subseteq Deliveries
  /\ writer \in [Writers -> WriterRow]
  /\ \A w \in Writers : IsWriter(writer[w]) /\ writer[w].version <= lock.version

\* The lease an owner knows is the one in the row.
LockInv ==
  /\ lock.version = 0 => lock.holder = None
  /\ \A w \in Writers : Owns(w) => lock.expires = writer[w].lease

\* Who is at work within its lease owns the lock.
LeaseInv == \A w \in Writers : writer[w].pc \in Working /\ InTime(w) => Owns(w)

\* What an owner read is still so when it writes.
Knows(r, cs) ==
  LET aim == IF r.pc = "fence" THEN r.after ELSE r.pc IN
  /\ aim = "create" => Len(cs) = 0
  /\ aim = "update" => Len(cs) = 1
  /\ aim \in {"create", "update"} => r.rows = WantedOf(r, BodyOf(cs))
  /\ aim \in {"merge", "delete"} => Len(cs) = 2

KnowInv == \A w \in Writers : Owns(w) => Knows(writer[w], comments)

CommentsInv == AreComments(comments)

Settled(d, t) == HasRow(t, d) \/ Len(t) = MaxRows

\* Rows that were recorded, and those of writers that created a comment.
SettledInv ==
  /\ \A d \in recorded : Settled(d, BodyOf(comments))
  /\ \A w \in Writers :
       writer[w].after = "collapse" => Settled(writer[w].delivery, BodyOf(comments))

IInv ==
  /\ TypeInv /\ LockInv /\ LeaseInv /\ KnowInv /\ CommentsInv /\ SettledInv

-----------------------------------------------------------------------------
(* Tables.                                                                  *)

LEMMA Bounds == /\ Ttl \in Nat /\ Ttl > 0 /\ MaxRows \in Nat /\ MaxRows > 0
                /\ None \notin Writers /\ None \notin Deliveries
  BY CommandAuditAssumption

LEMMA RowFields ==
  ASSUME NEW r \in Row
  PROVE  r.delivery \in Deliveries /\ r.status \in Statuses
  BY DEF Row

LEMMA TableFacts ==
  ASSUME NEW t, IsTable(t)
  PROVE  /\ t \in Seq(Row) /\ Len(t) \in Nat /\ Len(t) <= MaxRows /\ DOMAIN t = 1..Len(t)
         /\ \A i \in 1..Len(t) : t[i] \in Row
         /\ \A d : HasRow(t, d) <=> \E i \in 1..Len(t) : t[i].delivery = d
  <1>1. t \in Seq(Row) /\ Len(t) <= MaxRows
    BY DEF IsTable
  <1>2. Len(t) \in Nat /\ DOMAIN t = 1..Len(t) /\ \A i \in 1..Len(t) : t[i] \in Row
    BY <1>1, LenProperties, ElementOfSeq
  <1>3. QED
    BY <1>1, <1>2 DEF HasRow

\* The status of a row is found at its place.
LEMMA StatusAt ==
  ASSUME NEW t, IsTable(t), NEW i \in 1..Len(t)
  PROVE  HasRow(t, t[i].delivery) /\ StatusOf(t, t[i].delivery) = t[i].status
  <1>1. DOMAIN t = 1..Len(t)
    BY TableFacts
  <1>2. HasRow(t, t[i].delivery)
    BY TableFacts
  <1>3. (CHOOSE j \in DOMAIN t : t[j].delivery = t[i].delivery) = i
    <2> DEFINE j == CHOOSE k \in DOMAIN t : t[k].delivery = t[i].delivery
    <2>1. j \in DOMAIN t /\ t[j].delivery = t[i].delivery
      BY <1>1
    <2>2. QED
      BY <1>1, <2>1 DEF IsTable
  <1>4. QED
    BY <1>2, <1>3 DEF StatusOf

LEMMA NewestKeeps ==
  ASSUME NEW t, IsTable(t)
  PROVE  Newest(t) = t
  <1>1. t \in Seq(Row) /\ Len(t) \in Nat /\ Len(t) <= MaxRows
    BY TableFacts
  <1>2. SubSeq(t, 1, Len(t)) = t
    BY <1>1, SubSeqFull
  <1>3. ~(Len(t) > MaxRows)
    BY <1>1, Bounds
  <1>4. QED
    BY <1>2, <1>3 DEF Newest

LEMMA RowsOfOne ==
  ASSUME NEW d \in Deliveries, NEW s \in Statuses
  PROVE  /\ Rows(d, s) \in Seq(Row) /\ Len(Rows(d, s)) = 1
         /\ Rows(d, s)[1] = [delivery |-> d, status |-> s]
         /\ Rows(d, s)[1].delivery = d /\ Rows(d, s)[1].status = s
  BY DEF Rows, Row

LEMMA EmptyTable == IsTable(<<>>) /\ Len(<<>>) = 0 /\ ~ \E d : HasRow(<<>>, d)
  BY Bounds, EmptySeq DEF IsTable, HasRow

LEMMA FollowsItself ==
  ASSUME NEW t, IsTable(t)
  PROVE  Follows(t, t)
  BY DEF Follows

LEMMA FollowsEmpty ==
  ASSUME NEW t, IsTable(t)
  PROVE  Follows(t, <<>>)
  <1>1. Len(<<>>) # MaxRows
    BY EmptyTable, Bounds
  <1>2. \A d \in Deliveries : ~HasRow(<<>>, d)
    BY EmptyTable
  <1>3. QED
    BY <1>1, <1>2 DEF Follows

\* Appending to a table without the row: the oldest row goes where it is full.
LEMMA NewestOfOneMore ==
  ASSUME NEW t, IsTable(t), NEW d \in Deliveries, NEW s \in Statuses, ~HasRow(t, d)
  PROVE  LET u == Newest(t \o Rows(d, s))
             k == IF Len(t) = MaxRows THEN 1 ELSE 0
         IN /\ u \in Seq(Row) /\ Len(u) = Len(t) + 1 - k
            /\ \A i \in 1..(Len(u) - 1) : u[i] = t[i + k]
            /\ u[Len(u)] = [delivery |-> d, status |-> s]
  <1> DEFINE v == t \o Rows(d, s)
             k == IF Len(t) = MaxRows THEN 1 ELSE 0
             u == Newest(v)
  <1>1. t \in Seq(Row) /\ Len(t) \in Nat /\ Len(t) <= MaxRows
    BY TableFacts
  <1>2. /\ v \in Seq(Row) /\ Len(v) = Len(t) + 1
        /\ \A i \in 1..(Len(t) + 1) : v[i] = IF i <= Len(t) THEN t[i] ELSE Rows(d, s)[i - Len(t)]
    <2> DEFINE r == Rows(d, s)
    <2>1. r \in Seq(Row) /\ Len(r) = 1
      BY RowsOfOne
    <2> HIDE DEF r
    <2>2. /\ t \o r \in Seq(Row) /\ Len(t \o r) = Len(t) + 1
          /\ \A i \in 1..(Len(t) + 1) : (t \o r)[i] = IF i <= Len(t) THEN t[i] ELSE r[i - Len(t)]
      BY <1>1, <2>1, ConcatProperties
    <2>3. QED
      BY <2>2 DEF r
  <1>3. v[Len(t) + 1] = [delivery |-> d, status |-> s]
    <2>1. v[Len(t) + 1] = Rows(d, s)[(Len(t) + 1) - Len(t)]
      BY <1>1, <1>2
    <2>2. (Len(t) + 1) - Len(t) = 1
      BY <1>1
    <2>3. QED
      BY <2>1, <2>2, RowsOfOne
  <1>4. u = SubSeq(v, 1 + k, Len(v))
    <2>1. CASE Len(t) = MaxRows
      <3>1. Len(v) > MaxRows /\ Len(v) - MaxRows + 1 = 1 + k
        BY <1>1, <1>2, <2>1, Bounds
      <3>2. QED
        BY <3>1 DEF Newest
    <2>2. CASE Len(t) # MaxRows
      <3>1. ~(Len(v) > MaxRows) /\ 1 + k = 1
        BY <1>1, <1>2, <2>2, Bounds
      <3>2. QED
        BY <3>1 DEF Newest
    <2>3. QED
      BY <2>1, <2>2
  <1>5. k \in 0..1 /\ 1 + k <= Len(v) /\ (1 + k) \in 1..(Len(v) + 1) /\ Len(v) \in 0..Len(v)
    BY <1>1, <1>2, Bounds
  <1> HIDE DEF k, v, u
  <1>6. /\ u \in Seq(Row) /\ Len(u) = Len(v) - (1 + k) + 1
        /\ \A i \in 1..(Len(v) - (1 + k) + 1) : u[i] = v[(1 + k) + i - 1]
    BY <1>1, <1>2, <1>4, <1>5, SubSeqProperties
  <1>7. Len(u) = Len(t) + 1 - k
    BY <1>1, <1>2, <1>5, <1>6
  <1>8. ASSUME NEW i \in 1..Len(u) PROVE u[i] = v[i + k]
    <2>1. (1 + k) + i - 1 = i + k /\ i \in 1..(Len(v) - (1 + k) + 1)
      BY <1>1, <1>2, <1>5, <1>6, <1>7
    <2>2. QED
      BY <1>6, <2>1
  <1>9. ASSUME NEW i \in 1..(Len(u) - 1) PROVE u[i] = t[i + k]
    <2>1. i \in 1..Len(u) /\ i + k \in 1..(Len(t) + 1) /\ i + k <= Len(t)
      BY <1>1, <1>5, <1>7
    <2>2. QED
      BY <1>2, <1>8, <2>1
  <1>10. u[Len(u)] = [delivery |-> d, status |-> s]
    <2>1. Len(u) \in 1..Len(u) /\ Len(u) + k = Len(t) + 1
      <3>1. Len(t) = 0 => k = 0
        BY Bounds DEF k
      <3>2. QED
        BY <1>1, <1>5, <1>7, <3>1
    <2>2. u[Len(u)] = v[Len(u) + k]
      BY <1>8, <2>1
    <2>3. QED
      BY <1>3, <2>1, <2>2
  <1>11. QED
    BY <1>6, <1>7, <1>9, <1>10 DEF u, v, k

LEMMA AppendFollows ==
  ASSUME NEW t, IsTable(t), NEW d \in Deliveries, NEW s \in Statuses
  PROVE  Follows(AppendRow(t, d, s), t) /\ HasRow(AppendRow(t, d, s), d)
  <1>1. CASE HasRow(t, d)
    BY <1>1, FollowsItself DEF AppendRow
  <1>2. CASE ~HasRow(t, d)
    <2> DEFINE u == Newest(t \o Rows(d, s))
               k == IF Len(t) = MaxRows THEN 1 ELSE 0
    <2>1. /\ u \in Seq(Row) /\ Len(u) = Len(t) + 1 - k
          /\ \A i \in 1..(Len(u) - 1) : u[i] = t[i + k]
          /\ u[Len(u)] = [delivery |-> d, status |-> s]
      BY <1>2, NewestOfOneMore
    <2>2. /\ Len(t) \in Nat /\ Len(t) <= MaxRows /\ k \in 0..1
          /\ Len(t) = MaxRows => k = 1
          /\ Len(t) # MaxRows => k = 0
          /\ \A e : HasRow(t, e) <=> \E i \in 1..Len(t) : t[i].delivery = e
      BY TableFacts
    <2>3. AppendRow(t, d, s) = u
      BY <1>2 DEF AppendRow
    <2> HIDE DEF u, k
    <2>4. Len(u) \in Nat \ {0} /\ Len(u) <= MaxRows /\ Len(u) - 1 + k = Len(t)
          /\ (Len(t) = MaxRows => Len(u) = MaxRows)
      BY <2>1, <2>2, Bounds
    <2>5. u[Len(u)].delivery = d
      BY <2>1
    <2>6. ASSUME NEW i \in 1..(Len(u) - 1)
          PROVE  i + k \in 1..Len(t) /\ u[i] = t[i + k] /\ u[i].delivery # d
      <3>1. i + k \in 1..Len(t)
        BY <2>2, <2>4
      <3>2. QED
        BY <1>2, <2>1, <2>2, <3>1
    <2>7. ASSUME NEW i \in 1..Len(u), NEW j \in 1..Len(u), u[i].delivery = u[j].delivery
          PROVE  i = j
      <3>1. CASE i = Len(u) /\ j # Len(u)
        <4>1. j \in 1..(Len(u) - 1)
          BY <2>4, <3>1
        <4>2. QED
          BY <2>5, <2>6, <2>7, <3>1, <4>1
      <3>2. CASE i # Len(u) /\ j = Len(u)
        <4>1. i \in 1..(Len(u) - 1)
          BY <2>4, <3>2
        <4>2. QED
          BY <2>5, <2>6, <2>7, <3>2, <4>1
      <3>3. CASE i # Len(u) /\ j # Len(u)
        <4>1. i \in 1..(Len(u) - 1) /\ j \in 1..(Len(u) - 1)
          BY <2>4, <3>3
        <4>2. t[i + k].delivery = t[j + k].delivery /\ i + k \in 1..Len(t) /\ j + k \in 1..Len(t)
          BY <2>6, <2>7, <4>1
        <4>3. i + k = j + k
          BY <4>2 DEF IsTable
        <4>4. QED
          BY <2>2, <4>1, <4>3
      <3>4. QED
        BY <3>1, <3>2, <3>3
    <2>8. IsTable(u)
      BY <2>1, <2>4, <2>7 DEF IsTable
    <2>9. HasRow(u, d)
      <3>1. Len(u) \in 1..Len(u)
        BY <2>4
      <3>2. QED
        BY <2>5, <2>8, <3>1, TableFacts
    <2>10. ASSUME NEW e \in Deliveries, HasRow(t, e), HasRow(u, e)
           PROVE  StatusOf(u, e) = StatusOf(t, e)
      <3>1. PICK i \in 1..Len(u) : u[i].delivery = e
        BY <2>8, <2>10, TableFacts
      <3>2. i # Len(u)
        BY <1>2, <2>5, <2>10, <3>1
      <3>3. i \in 1..(Len(u) - 1)
        BY <2>4, <3>2
      <3>4. i + k \in 1..Len(t) /\ u[i] = t[i + k]
        BY <2>6, <3>3
      <3>5. StatusOf(u, e) = u[i].status
        BY <2>8, <3>1, StatusAt
      <3>6. StatusOf(t, e) = t[i + k].status
        BY <3>1, <3>4, StatusAt
      <3>7. QED
        BY <3>4, <3>5, <3>6
    <2>11. ASSUME NEW e \in Deliveries, HasRow(t, e), Len(u) # MaxRows
           PROVE  HasRow(u, e)
      <3>1. k = 0 /\ Len(u) - 1 = Len(t)
        BY <2>2, <2>4, <2>11
      <3>2. PICK i \in 1..Len(t) : t[i].delivery = e
        BY <2>2, <2>11
      <3>3. i \in 1..(Len(u) - 1) /\ i \in 1..Len(u) /\ i + k = i
        BY <2>2, <2>4, <3>1
      <3>4. u[i].delivery = e
        BY <2>6, <3>2, <3>3
      <3>5. QED
        BY <2>8, <3>3, <3>4, TableFacts
    <2>12. QED
      BY <2>3, <2>4, <2>8, <2>9, <2>10, <2>11 DEF Follows
  <1>3. QED
    BY <1>1, <1>2

LEMMA RefusalFollows ==
  ASSUME NEW t, IsTable(t), NEW d \in Deliveries
  PROVE  LET u == UpdateStatus(t, d, "not supported")
         IN Follows(u, t) /\ (HasRow(t, d) => HasRow(u, d))
  <1> DEFINE s == "not supported"
             u == UpdateStatus(t, d, s)
  <1>1. /\ t \in Seq(Row) /\ Len(t) \in Nat /\ Len(t) <= MaxRows /\ DOMAIN t = 1..Len(t)
        /\ \A i \in 1..Len(t) : t[i] \in Row
        /\ \A e : HasRow(t, e) <=> \E i \in 1..Len(t) : t[i].delivery = e
    BY TableFacts
  <1>2. s \in Statuses
    BY DEF Statuses
  <1>3. u = [i \in 1..Len(t) |->
               IF t[i].delivery = d THEN [t[i] EXCEPT !.status = s] ELSE t[i]]
    BY <1>1 DEF UpdateStatus
  <1>4. ASSUME NEW i \in 1..Len(t)
        PROVE  /\ u[i] \in Row /\ u[i].delivery = t[i].delivery
               /\ t[i].status = s => u[i].status = s
    <2>1. t[i] \in Row /\ u[i] = IF t[i].delivery = d THEN [t[i] EXCEPT !.status = s] ELSE t[i]
      BY <1>1, <1>3
    <2>2. QED
      BY <1>2, <2>1 DEF Row
  <1> HIDE DEF u, s
  <1>5. u \in Seq(Row) /\ Len(u) = Len(t)
    BY <1>1, <1>3, <1>4
  <1>6. IsTable(u)
    BY <1>1, <1>4, <1>5 DEF IsTable
  <1>7. \A e : HasRow(u, e) <=> HasRow(t, e)
    <2>1. \A e : HasRow(u, e) <=> \E i \in 1..Len(u) : u[i].delivery = e
      BY <1>6, TableFacts
    <2>2. QED
      BY <1>1, <1>4, <1>5, <2>1
  <1>8. ASSUME NEW e \in Deliveries, HasRow(t, e), StatusOf(t, e) = s
        PROVE  StatusOf(u, e) = s
    <2>1. PICK i \in 1..Len(t) : t[i].delivery = e
      BY <1>1, <1>8
    <2>2. StatusOf(t, e) = t[i].status
      BY <2>1, StatusAt
    <2>3. StatusOf(u, e) = u[i].status
      <3>1. i \in 1..Len(u) /\ u[i].delivery = e
        BY <1>4, <1>5, <2>1
      <3>2. QED
        BY <1>6, <3>1, StatusAt
    <2>4. QED
      BY <1>4, <1>8, <2>2, <2>3
  <1>9. Follows(u, t)
    BY <1>5, <1>6, <1>7, <1>8 DEF Follows, s
  <1>10. QED
    BY <1>7, <1>9 DEF u, s

\* The body an operation wants holds its row.
LEMMA WantedFollows ==
  ASSUME NEW t, IsTable(t), NEW r, IsWriter(r), r.delivery \in Deliveries
  PROVE  /\ Follows(WantedOf(r, t), t) /\ IsTable(WantedOf(r, t))
         /\ HasRow(WantedOf(r, t), r.delivery) /\ WantedOf(r, t) # <<>>
  <1>1. r.status \in Statuses /\ (r.kind = "update" => r.status = "not supported")
    BY DEF IsWriter, WriterRow
  <1>2. Follows(WantedOf(r, t), t) /\ HasRow(WantedOf(r, t), r.delivery)
    <2>1. CASE r.kind = "update" /\ HasRow(t, r.delivery)
      BY <1>1, <2>1, RefusalFollows DEF WantedOf
    <2>2. CASE ~(r.kind = "update" /\ HasRow(t, r.delivery))
      BY <1>1, <2>2, AppendFollows DEF WantedOf
    <2>3. QED
      BY <2>1, <2>2
  <1>3. IsTable(WantedOf(r, t))
    BY <1>2 DEF Follows
  <1>4. QED
    BY <1>2, <1>3, EmptyTable

LEMMA WantedIs ==
  ASSUME NEW w \in Writers, NEW t
  PROVE  Wanted(w, t) = WantedOf(writer[w], t)
  BY DEF Wanted, WantedOf

-----------------------------------------------------------------------------
(* Comments.                                                                *)

\* The recursion of FlattenSeq.
Flat(seqs) ==
  CHOOSE f : f = [i \in 1..Len(seqs) |-> IF i = 1 THEN seqs[i] ELSE f[i - 1] \o seqs[i]]

LEMMA FlattenIs ==
  ASSUME NEW seqs
  PROVE  FlattenSeq(seqs) = IF Len(seqs) = 0 THEN seqs ELSE Flat(seqs)[Len(seqs)]
  BY DEF FlattenSeq, Flat

LEMMA OneOrTwo ==
  ASSUME NEW n \in Nat, n \in 1..2
  PROVE  /\ n = 1 \/ n = 2
         /\ 1 \in 1..n
         /\ \A i \in 1..n : i = 1 \/ (i = 2 /\ i - 1 = 1 /\ n = 2)
         /\ n = 2 => 2 \in 1..n /\ 2 - 1 = 1 /\ 2 # 1
  OBVIOUS

\* Places in m rows written once or twice.
LEMMA Places ==
  ASSUME NEW m \in Nat, NEW n \in Nat, n = m \/ n = m + m
  PROVE  /\ \A i \in 1..m : i \in 1..n /\ i <= m
         /\ \A i \in 1..m : \A j \in 1..(i - 1) : j \in 1..m /\ j # i
         /\ \A i \in 1..n : i <= m => i \in 1..m
         /\ \A i \in 1..n : ~(i <= m) =>
              /\ i - m \in 1..m /\ i - m \in 1..n /\ i - m \in 1..(i - 1)
              /\ i - m <= m
  OBVIOUS

LEMMA FlattenFew ==
  ASSUME NEW cs \in Seq(Seq(Row)), Len(cs) \in 1..2
  PROVE  FlattenSeq(cs) = IF Len(cs) = 1 THEN cs[1] ELSE cs[1] \o cs[2]
  <1> DEFINE n == Len(cs)
             Is(f) == f = [i \in 1..n |-> IF i = 1 THEN cs[i] ELSE f[i - 1] \o cs[i]]
             g == [i \in 1..n |-> IF i = 1 THEN cs[1] ELSE cs[1] \o cs[2]]
  <1>1. n \in Nat /\ n \in 1..2
    BY LenProperties
  <1>2. Flat(cs) = CHOOSE f : Is(f)
    BY DEF Flat
  <1>3. FlattenSeq(cs) = Flat(cs)[n]
    <2>1. n # 0
      BY <1>1
    <2>2. QED
      BY <2>1, FlattenIs
  <1> HIDE DEF n, Is, g
  <1>4. /\ n = 1 \/ n = 2
        /\ 1 \in 1..n
        /\ \A i \in 1..n : i = 1 \/ (i = 2 /\ i - 1 = 1 /\ n = 2)
        /\ n = 2 => 2 \in 1..n /\ 2 - 1 = 1 /\ 2 # 1
    BY <1>1, OneOrTwo
  <1>5. Is(g)
    <2>1. ASSUME NEW i \in 1..n
          PROVE  g[i] = IF i = 1 THEN cs[i] ELSE g[i - 1] \o cs[i]
      <3>1. CASE i = 1
        BY <3>1 DEF g
      <3>2. CASE i # 1
        <4>1. i = 2 /\ i - 1 = 1 /\ n = 2
          BY <1>4, <3>2
        <4>2. g[1] = cs[1]
          BY <1>4 DEF g
        <4>3. g[i] = cs[1] \o cs[2]
          BY <3>2 DEF g
        <4>4. QED
          BY <3>2, <4>1, <4>2, <4>3
      <3>3. QED
        BY <3>1, <3>2
    <2> DEFINE h == [i \in 1..n |-> IF i = 1 THEN cs[i] ELSE g[i - 1] \o cs[i]]
    <2>2. \A i \in 1..n : g[i] = h[i]
      BY <2>1
    <2>3. g = h
      BY <2>2 DEF g
    <2>4. QED
      BY <2>3 DEF Is
  <1>6. Is(Flat(cs))
    BY <1>2, <1>5
  <1> DEFINE f == Flat(cs)
  <1>7. f = [i \in 1..n |-> IF i = 1 THEN cs[i] ELSE f[i - 1] \o cs[i]]
    BY <1>6 DEF Is
  <1>8. QED
    <2> HIDE DEF f
    <2>1. f[1] = cs[1]
      BY <1>4, <1>7
    <2>2. ASSUME n = 2 PROVE f[2] = cs[1] \o cs[2]
      <3>1. 2 \in 1..n /\ 2 - 1 = 1 /\ 2 # 1
        BY <1>4, <2>2
      <3>2. f[2] = f[2 - 1] \o cs[2]
        BY <1>7, <3>1
      <3>3. QED
        BY <2>1, <3>1, <3>2
    <2>3. FlattenSeq(cs) = f[n]
      BY <1>3 DEF f
    <2>4. CASE n = 1
      BY <2>1, <2>3, <2>4 DEF n
    <2>5. CASE n = 2
      BY <2>2, <2>3, <2>5 DEF n
    <2>6. QED
      BY <1>4, <2>4, <2>5

\* The first rows of a table written once or twice are its rows.
LEMMA FirstsAre ==
  ASSUME NEW t, IsTable(t), NEW v \in Seq(Row),
         Len(v) = Len(t) \/ Len(v) = Len(t) + Len(t),
         \A i \in 1..Len(v) : v[i] = IF i <= Len(t) THEN t[i] ELSE t[i - Len(t)]
  PROVE  Firsts(v) = 1..Len(t)
  <1> DEFINE m == Len(t)
             n == Len(v)
  <1>1. m \in Nat /\ n \in Nat /\ DOMAIN v = 1..n
    BY TableFacts, LenProperties
  <1>2. \A i \in 1..n : v[i] = IF i <= m THEN t[i] ELSE t[i - m]
    OBVIOUS
  <1>3. \A i, j \in 1..m : t[i].delivery = t[j].delivery => i = j
    BY DEF IsTable
  <1>4. n = m \/ n = m + m
    OBVIOUS
  <1> HIDE DEF m, n
  <1>5. /\ \A i \in 1..m : i \in 1..n /\ i <= m
        /\ \A i \in 1..m : \A j \in 1..(i - 1) : j \in 1..m /\ j # i
        /\ \A i \in 1..n : i <= m => i \in 1..m
        /\ \A i \in 1..n : ~(i <= m) =>
             /\ i - m \in 1..m /\ i - m \in 1..n /\ i - m \in 1..(i - 1)
             /\ i - m <= m
    BY <1>1, <1>4, Places
  <1>6. ASSUME NEW i \in 1..m PROVE v[i] = t[i]
    BY <1>2, <1>5
  <1>7. ASSUME NEW i \in 1..m PROVE i \in Firsts(v)
    <2>1. ASSUME NEW j \in 1..(i - 1) PROVE v[j].delivery # v[i].delivery
      <3>1. j \in 1..m /\ j # i
        BY <1>5
      <3>2. v[j] = t[j] /\ v[i] = t[i]
        BY <1>6, <3>1
      <3>3. QED
        BY <1>3, <3>1, <3>2
    <2>2. i \in DOMAIN v
      BY <1>1, <1>5
    <2>3. QED
      BY <2>1, <2>2 DEF Firsts
  <1>8. ASSUME NEW i \in Firsts(v) PROVE i \in 1..m
    <2>1. i \in 1..n /\ \A j \in 1..(i - 1) : v[j].delivery # v[i].delivery
      BY <1>1 DEF Firsts
    <2>2. CASE ~(i <= m)
      <3>1. i - m \in 1..(i - 1) /\ i - m \in 1..m
        BY <1>5, <2>1, <2>2
      <3>2. v[i] = t[i - m] /\ v[i - m] = t[i - m]
        BY <1>2, <1>6, <2>1, <2>2, <3>1
      <3>3. QED
        BY <2>1, <3>1, <3>2
    <2>3. QED
      BY <1>5, <2>1, <2>2
  <1>9. QED
    BY <1>7, <1>8 DEF m

LEMMA CanonicalIs ==
  ASSUME NEW t, IsTable(t), NEW v, Firsts(v) = 1..Len(t), \A i \in 1..Len(t) : v[i] = t[i]
  PROVE  Canonical(v) = t
  <1> DEFINE n == Len(t)
             At1(k) == CHOOSE i \in 1..n : Cardinality((1..n) \cap (1..i)) = k
  <1>1. t \in Seq(Row) /\ n \in Nat /\ t \in [1..n -> Row]
    BY TableFacts, LenProperties
  <1>2. Cardinality(1..n) = n
    <2>1. 1 \in Int /\ n \in Int
      BY <1>1
    <2>2. Cardinality(1..n) = IF 1 > n THEN 0 ELSE n - 1 + 1
      BY <2>1, FS_Interval
    <2>3. QED
      BY <1>1, <2>2
  <1>3. ASSUME NEW i \in 1..n PROVE Cardinality((1..n) \cap (1..i)) = i
    <2>1. (1..n) \cap (1..i) = 1..i
      BY <1>1
    <2>2. Cardinality(1..i) = i
      <3>1. i \in Int /\ 1 \in Int /\ ~(1 > i) /\ i - 1 + 1 = i
        BY <1>1
      <3>2. Cardinality(1..i) = IF 1 > i THEN 0 ELSE i - 1 + 1
        BY <3>1, FS_Interval
      <3>3. QED
        BY <3>1, <3>2
    <2>3. QED
      BY <2>1, <2>2
  <1>4. ASSUME NEW k \in 1..n PROVE At1(k) = k
    <2>1. \E i \in 1..n : Cardinality((1..n) \cap (1..i)) = k
      BY <1>3
    <2>2. At1(k) \in 1..n /\ Cardinality((1..n) \cap (1..At1(k))) = k
      BY <2>1
    <2>3. QED
      BY <1>3, <2>2
  <1>5. Canonical(v) = [k \in 1..n |-> v[At1(k)]]
    BY <1>2 DEF Canonical
  <1> HIDE DEF At1, n
  <1>6. \A k \in 1..n : v[At1(k)] = t[k]
    BY <1>4 DEF n
  <1>7. QED
    BY <1>1, <1>5, <1>6

\* A reader of all comments sees the first one: the merge changes nothing.
LEMMA MergedIs ==
  ASSUME NEW cs, AreComments(cs)
  PROVE  Merged(cs) = BodyOf(cs)
  <1>1. cs \in Seq(Seq(Row)) /\ Len(cs) \in 0..2
    BY DEF AreComments
  <1>2. CASE Len(cs) = 0
    <2>1. cs = <<>>
      BY <1>1, <1>2, EmptySeq
    <2>2. FlattenSeq(cs) = <<>>
      BY <1>2, <2>1, FlattenIs
    <2>3. DOMAIN <<>> = 1..0
      BY EmptySeq, LenProperties
    <2>4. Firsts(<<>>) = {}
      BY <2>3 DEF Firsts
    <2>5. Firsts(<<>>) = 1..Len(<<>>) /\ \A i \in 1..Len(<<>>) : <<>>[i] = <<>>[i]
      BY <2>4, EmptyTable
    <2>6. Canonical(<<>>) = <<>>
      BY <2>5, EmptyTable, CanonicalIs
    <2>7. QED
      BY <1>2, <2>2, <2>6, EmptyTable, NewestKeeps DEF Merged, BodyOf
  <1>3. CASE Len(cs) # 0
    <2> DEFINE t == cs[1]
               v == FlattenSeq(cs)
    <2>1. Len(cs) \in 1..2 /\ 1 \in 1..Len(cs)
      BY <1>1, <1>3
    <2>2. IsTable(t) /\ t \in Seq(Row) /\ Len(t) \in Nat
      BY <2>1, TableFacts DEF AreComments
    <2>3. v = IF Len(cs) = 1 THEN t ELSE t \o t
      <3>1. Len(cs) = 2 => cs[2] = cs[1]
        BY DEF AreComments
      <3>2. v = IF Len(cs) = 1 THEN cs[1] ELSE cs[1] \o cs[2]
        BY <1>1, <2>1, FlattenFew
      <3>3. QED
        BY <2>1, <3>1, <3>2
    <2>4. BodyOf(cs) = t
      BY <1>3 DEF BodyOf
    <2>5. Merged(cs) = Newest(Canonical(v))
      BY DEF Merged
    <2> HIDE DEF t, v
    <2>6. /\ v \in Seq(Row)
          /\ Len(v) = Len(t) \/ Len(v) = Len(t) + Len(t)
          /\ \A i \in 1..Len(v) : v[i] = IF i <= Len(t) THEN t[i] ELSE t[i - Len(t)]
      <3>1. CASE Len(cs) = 1
        BY <2>2, <2>3, <3>1
      <3>2. CASE Len(cs) # 1
        <4>1. v = t \o t
          BY <2>3, <3>2
        <4>2. QED
          BY <2>2, <4>1, ConcatProperties
      <3>3. QED
        BY <3>1, <3>2
    <2>7. Firsts(v) = 1..Len(t)
      BY <2>2, <2>6, FirstsAre
    <2>8. \A i \in 1..Len(t) : v[i] = t[i]
      BY <2>2, <2>6
    <2>9. Canonical(v) = t
      BY <2>2, <2>7, <2>8, CanonicalIs
    <2>10. QED
      BY <2>2, <2>4, <2>5, <2>9, NewestKeeps
  <1>4. QED
    BY <1>2, <1>3

LEMMA BodyIsTable ==
  ASSUME NEW cs, AreComments(cs)
  PROVE  /\ IsTable(BodyOf(cs)) /\ cs \in Seq(Seq(Row)) /\ Len(cs) \in 0..2
         /\ (cs = <<>> <=> Len(cs) = 0)
         /\ Len(cs) # 0 => BodyOf(cs) = cs[1] /\ BodyOf(cs) # <<>>
         /\ Len(cs) = 0 => BodyOf(cs) = <<>>
  <1>1. cs \in Seq(Seq(Row)) /\ Len(cs) \in 0..2
    BY DEF AreComments
  <1>2. cs = <<>> <=> Len(cs) = 0
    BY <1>1, EmptySeq
  <1>3. Len(cs) # 0 => 1 \in 1..Len(cs)
    BY <1>1
  <1>4. Len(cs) # 0 => BodyOf(cs) = cs[1] /\ BodyOf(cs) # <<>> /\ IsTable(BodyOf(cs))
    BY <1>3 DEF AreComments, BodyOf
  <1>5. Len(cs) = 0 => BodyOf(cs) = <<>>
    BY DEF BodyOf
  <1>6. QED
    BY <1>1, <1>2, <1>4, <1>5, EmptyTable

LEMMA MergeKeeps ==
  ASSUME NEW cs, AreComments(cs), Len(cs) # 0
  PROVE  [cs EXCEPT ![1] = Merged(cs)] = cs
  <1>1. Merged(cs) = cs[1]
    BY MergedIs DEF BodyOf
  <1>2. cs \in [1..Len(cs) -> Seq(Row)]
    BY BodyIsTable, LenProperties
  <1>3. QED
    BY <1>1, <1>2

LEMMA UpdateGives ==
  ASSUME NEW cs, AreComments(cs), Len(cs) = 1, NEW t, IsTable(t), t # <<>>
  PROVE  LET new == [cs EXCEPT ![1] = t]
         IN AreComments(new) /\ BodyOf(new) = t /\ Len(new) = 1
  <1> DEFINE new == [cs EXCEPT ![1] = t]
  <1>1. cs \in Seq(Seq(Row)) /\ t \in Seq(Row) /\ 1 \in 1..Len(cs)
    BY BodyIsTable, TableFacts
  <1>2. new \in Seq(Seq(Row)) /\ Len(new) = 1 /\ new[1] = t
    <2> DEFINE s == [i \in 1..1 |-> t]
    <2>1. cs \in [1..1 -> Seq(Row)]
      BY <1>1, LenProperties
    <2>2. new = s
      <3>1. new \in [1..1 -> Seq(Row)] /\ new[1] = t
        BY <1>1, <2>1
      <3>2. s \in [1..1 -> Seq(Row)] /\ s[1] = t
        BY <1>1
      <3>3. \A i \in 1..1 : i = 1
        OBVIOUS
      <3>4. \A i \in 1..1 : new[i] = s[i]
        BY <3>1, <3>2, <3>3
      <3> HIDE DEF new, s
      <3>5. QED
        BY <3>1, <3>2, <3>4
    <2>3. s \in Seq(Seq(Row)) /\ Len(s) = 1 /\ s[1] = t
      BY <1>1
    <2>4. QED
      BY <2>2, <2>3
  <1> HIDE DEF new
  <1>3. AreComments(new) /\ BodyOf(new) = t /\ Len(new) = 1
    BY <1>2 DEF AreComments, BodyOf
  <1>4. QED
    BY <1>3 DEF new

Posted(t, n) == [i \in 1..n |-> t]

LEMMA CreateGives ==
  ASSUME NEW cs, AreComments(cs), Len(cs) = 0, NEW t, IsTable(t), t # <<>>, NEW n \in 1..2
  PROVE  AreComments(cs \o Posted(t, n)) /\ BodyOf(cs \o Posted(t, n)) = t
  <1> DEFINE s == Posted(t, n)
             new == cs \o s
  <1>1. s \in Seq(Seq(Row)) /\ Len(s) = n /\ \A i \in 1..n : s[i] = t
    BY TableFacts DEF Posted
  <1>2. cs = <<>>
    BY BodyIsTable
  <1> HIDE DEF s
  <1>3. new = s
    BY <1>1, <1>2, ConcatEmptySeq
  <1>4. AreComments(s) /\ BodyOf(s) = t /\ Len(s) = n
    BY <1>1 DEF AreComments, BodyOf
  <1>5. QED
    BY <1>3, <1>4 DEF s

LEMMA RemoveGives ==
  ASSUME NEW cs, AreComments(cs), Len(cs) = 2
  PROVE  LET new == RemoveAt(cs, 2)
         IN AreComments(new) /\ BodyOf(new) = BodyOf(cs) /\ Len(new) = 1
  <1> DEFINE a == SubSeq(cs, 1, 2 - 1)
             b == SubSeq(cs, 2 + 1, Len(cs))
             new == RemoveAt(cs, 2)
  <1>1. /\ cs \in Seq(Seq(Row)) /\ \A i \in 1..1 : cs[i] \in Seq(Row)
        /\ BodyOf(cs) = cs[1] /\ IsTable(cs[1]) /\ cs[1] # <<>>
    BY BodyIsTable, ElementOfSeq
  <1>2. a \in Seq(Seq(Row)) /\ Len(a) = 1 /\ a[1] = cs[1]
    <2>1. SubSeq(cs, 1, 1) \in Seq(Seq(Row)) /\ Len(SubSeq(cs, 1, 1)) = 1
          /\ \A i \in 1..1 : SubSeq(cs, 1, 1)[i] = cs[1 + i - 1]
      BY <1>1, SubSeqProperties
    <2>2. QED
      BY <2>1
  <1>3. b = <<>>
    BY SubSeqEmpty
  <1> HIDE DEF a, b
  <1>4. new = a
    <2>1. new = a \o b
      BY DEF RemoveAt, a, b
    <2>2. QED
      BY <1>2, <1>3, <2>1, ConcatEmptySeq
  <1>5. AreComments(a) /\ BodyOf(a) = cs[1]
    BY <1>1, <1>2 DEF AreComments, BodyOf
  <1>6. QED
    BY <1>1, <1>2, <1>4, <1>5

-----------------------------------------------------------------------------
(* What a step of one writer does.                                          *)

\* The writer goes on under its lease, if it has one; it leases the lock; it ends.
GoesOn(r, s) ==
  /\ s.version = r.version /\ s.lease = r.lease
  /\ s.pc \in Working => r.pc \in Working

Released(l) ==
  /\ l \in [holder : {None}, version : Nat, expires : Nat]
  /\ l.holder = None /\ l.version = lock.version

LockEffect(w) ==
  \/ GoesOn(writer[w], writer'[w]) /\ lock' = lock
  \/ /\ Free \/ Owns(w)
     /\ writer'[w].version = lock.version + 1 /\ writer'[w].lease = now + Ttl
     /\ lock' = [holder |-> w, version |-> lock.version + 1, expires |-> now + Ttl]
  \/ /\ writer'[w].version = 0 /\ writer'[w].pc \notin Working
     /\ \/ lock' = lock
        \/ Owns(w) /\ Released(lock')

WriterEffect(w) ==
  /\ writer' \in [Writers -> WriterRow]
  /\ IsWriter(writer'[w])
  /\ \A v \in Writers \ {w} : writer'[v] = writer[v]

CommentsEffect(w) ==
  /\ AreComments(comments') /\ Follows(BodyOf(comments'), BodyOf(comments))
  /\ comments' = comments \/ Owns(w)

RecordEffect(w) ==
  /\ \A d \in recorded' :
       d \in recorded \/ (d \in Deliveries /\ Settled(d, BodyOf(comments')))
  /\ writer'[w].after = "collapse" => Settled(writer'[w].delivery, BodyOf(comments'))

Effect(w) ==
  /\ now' = now /\ ops' \in 0..MaxOps /\ faults' \in 0..MaxFaults
  /\ LockEffect(w) /\ WriterEffect(w) /\ CommentsEffect(w) /\ RecordEffect(w)
  /\ Owns(w)' => Knows(writer'[w], comments')

LEMMA TypeFacts ==
  ASSUME TypeInv
  PROVE  /\ now \in Nat /\ now \in Int
         /\ lock \in [holder : Writers \cup {None}, version : Nat, expires : Nat]
         /\ lock.version \in Nat /\ lock.expires \in Nat
         /\ writer \in [Writers -> WriterRow]
         /\ \A w \in Writers :
              /\ IsWriter(writer[w]) /\ writer[w] \in WriterRow
              /\ writer[w].version \in Nat /\ writer[w].lease \in Nat
              /\ writer[w].version <= lock.version
              /\ writer[w].pc # "idle" => writer[w].delivery \in Deliveries
  <1>1. now \in Nat /\ now \in Int
    BY CommandAuditAssumption DEF TypeInv
  <1>2. /\ lock \in [holder : Writers \cup {None}, version : Nat, expires : Nat]
        /\ lock.version \in Nat /\ lock.expires \in Nat
    BY DEF TypeInv
  <1>3. writer \in [Writers -> WriterRow]
    BY DEF TypeInv
  <1>4. ASSUME NEW w \in Writers
        PROVE  /\ IsWriter(writer[w]) /\ writer[w] \in WriterRow
               /\ writer[w].version <= lock.version
               /\ writer[w].pc # "idle" => writer[w].delivery \in Deliveries
    BY DEF TypeInv, IsWriter
  <1>5. ASSUME NEW w \in Writers
        PROVE  writer[w].version \in Nat /\ writer[w].lease \in Nat
    BY <1>4 DEF WriterRow
  <1>6. QED
    BY <1>1, <1>2, <1>3, <1>4, <1>5

LEMMA EffectKeepsTypes ==
  ASSUME IInv, NEW w \in Writers, Effect(w)
  PROVE  TypeInv'
  <1>1. now' \in 1..MaxNow /\ ops' \in 0..MaxOps /\ faults' \in 0..MaxFaults
    BY DEF IInv, TypeInv, Effect
  <1>2. recorded' \subseteq Deliveries
    BY DEF IInv, TypeInv, Effect, RecordEffect
  <1>3. TypeInv
    BY DEF IInv
  <1>4. LockEffect(w) /\ WriterEffect(w)
    BY DEF Effect
  <1>5. /\ lock' \in [holder : Writers \cup {None}, version : Nat, expires : Nat]
        /\ lock.version <= lock'.version
        /\ writer'[w].version <= lock'.version
    <2>1. CASE GoesOn(writer[w], writer'[w]) /\ lock' = lock
      BY <1>3, <2>1, TypeFacts DEF GoesOn
    <2>2. CASE /\ writer'[w].version = lock.version + 1
               /\ lock' = [holder |-> w, version |-> lock.version + 1, expires |-> now + Ttl]
      BY <1>3, <2>2, TypeFacts, Bounds
    <2>3. CASE writer'[w].version = 0 /\ lock' = lock
      BY <1>3, <2>3, TypeFacts
    <2>4. CASE writer'[w].version = 0 /\ Released(lock')
      <3>1. lock.version \in Nat
        BY <1>3, TypeFacts
      <3>2. /\ lock' \in [holder : Writers \cup {None}, version : Nat, expires : Nat]
            /\ lock'.version = lock.version
        BY <2>4 DEF Released
      <3>3. QED
        BY <2>4, <3>1, <3>2
    <2>5. QED
      BY <1>4, <2>1, <2>2, <2>3, <2>4 DEF LockEffect
  <1>6. writer' \in [Writers -> WriterRow]
    BY <1>4 DEF WriterEffect
  <1>7. ASSUME NEW v \in Writers
        PROVE  IsWriter(writer'[v]) /\ writer'[v].version <= lock'.version
    <2>1. CASE v = w
      BY <1>4, <1>5, <2>1 DEF WriterEffect
    <2>2. CASE v # w
      <3>1. writer'[v] = writer[v]
        BY <1>4, <2>2 DEF WriterEffect
      <3>2. IsWriter(writer[v]) /\ writer[v].version \in Nat /\ writer[v].version <= lock.version
            /\ lock.version \in Nat
        BY <1>3, TypeFacts
      <3>3. lock'.version \in Nat
        BY <1>5
      <3>4. QED
        BY <1>5, <3>1, <3>2, <3>3
    <2>3. QED
      BY <2>1, <2>2
  <1>8. QED
    BY <1>1, <1>2, <1>5, <1>6, <1>7 DEF TypeInv

LEMMA EffectKeepsLock ==
  ASSUME IInv, NEW w \in Writers, Effect(w)
  PROVE  /\ LockInv' /\ LeaseInv'
         /\ \A v \in Writers \ {w} : Owns(v)' => Owns(v) /\ ~Owns(w)
  <1>1. /\ TypeInv /\ LockInv /\ LeaseInv
        /\ LockEffect(w) /\ now' = now
        /\ \A v \in Writers \ {w} : writer'[v] = writer[v]
    BY DEF IInv, Effect, WriterEffect
  <1>2. /\ now \in Nat /\ lock.version \in Nat /\ lock.expires \in Nat /\ Ttl \in Nat
        /\ \A v \in Writers : v # None
        /\ \A v \in Writers : writer[v].lease \in Nat
    BY <1>1, TypeFacts, Bounds
  <1>3. lock.version = 0 => lock.holder = None
    BY <1>1 DEF LockInv
  <1>4. CASE GoesOn(writer[w], writer'[w]) /\ lock' = lock
    <2>1. \A v \in Writers : Owns(v)' <=> Owns(v)
      BY <1>1, <1>4 DEF Owns, GoesOn
    <2>2. \A v \in Writers : writer'[v].lease = writer[v].lease
      BY <1>1, <1>4 DEF GoesOn
    <2>3. LockInv'
      BY <1>1, <1>4, <2>1, <2>2 DEF LockInv
    <2>4. LeaseInv'
      <3>1. ASSUME NEW v \in Writers, writer'[v].pc \in Working, now' <= writer'[v].lease
            PROVE  Owns(v)'
        <4>1. writer[v].pc \in Working /\ now <= writer[v].lease
          BY <1>1, <1>4, <2>2, <3>1 DEF GoesOn
        <4>2. QED
          BY <1>1, <2>1, <4>1 DEF LeaseInv, InTime
      <3>2. QED
        BY <3>1 DEF LeaseInv, InTime
    <2>5. QED
      BY <2>1, <2>3, <2>4 DEF Owns
  <1>5. CASE /\ Free \/ Owns(w)
             /\ writer'[w].version = lock.version + 1 /\ writer'[w].lease = now + Ttl
             /\ lock' = [holder |-> w, version |-> lock.version + 1, expires |-> now + Ttl]
    <2>1. Owns(w)' /\ \A v \in Writers \ {w} : ~Owns(v)'
      BY <1>5 DEF Owns
    <2>2. LockInv'
      <3>1. lock'.version # 0 /\ lock'.expires = writer'[w].lease
        BY <1>2, <1>5
      <3>2. QED
        BY <2>1, <3>1 DEF LockInv
    <2>3. LeaseInv'
      <3>1. ASSUME NEW v \in Writers \ {w}, writer'[v].pc \in Working, now' <= writer'[v].lease
            PROVE  FALSE
        <4>1. writer[v].pc \in Working /\ now <= writer[v].lease
          BY <1>1, <3>1
        <4>2. Owns(v)
          BY <1>1, <4>1 DEF LeaseInv, InTime
        <4>3. lock.expires = writer[v].lease /\ lock.holder = v
          BY <1>1, <4>2 DEF LockInv, Owns
        <4>4. ~Free
          BY <1>2, <4>1, <4>3 DEF Free
        <4>5. QED
          BY <1>5, <4>3, <4>4 DEF Owns
      <3>2. QED
        BY <2>1, <3>1 DEF LeaseInv, InTime
    <2>4. QED
      BY <2>1, <2>2, <2>3
  <1>6. CASE writer'[w].version = 0 /\ writer'[w].pc \notin Working /\ lock' = lock
    <2>1. ~Owns(w)'
      BY <1>2, <1>3, <1>6 DEF Owns
    <2>2. \A v \in Writers \ {w} : Owns(v)' <=> Owns(v)
      BY <1>1, <1>6 DEF Owns
    <2>3. LockInv'
      BY <1>1, <1>6, <2>1, <2>2 DEF LockInv
    <2>4. LeaseInv'
      <3>1. ASSUME NEW v \in Writers, writer'[v].pc \in Working, now' <= writer'[v].lease
            PROVE  Owns(v)'
        <4>1. v # w
          BY <1>6, <3>1
        <4>2. writer[v].pc \in Working /\ now <= writer[v].lease
          BY <1>1, <3>1, <4>1
        <4>3. QED
          BY <1>1, <2>2, <4>1, <4>2 DEF LeaseInv, InTime
      <3>2. QED
        BY <3>1 DEF LeaseInv, InTime
    <2>5. QED
      BY <2>2, <2>3, <2>4 DEF Owns
  <1>7. CASE /\ writer'[w].version = 0 /\ writer'[w].pc \notin Working
             /\ Owns(w) /\ Released(lock')
    <2>1. \A v \in Writers : ~Owns(v)'
      BY <1>2, <1>7 DEF Owns, Released
    <2>2. LockInv'
      BY <1>7, <2>1 DEF LockInv, Released
    <2>3. LeaseInv'
      <3>1. ASSUME NEW v \in Writers, writer'[v].pc \in Working, now' <= writer'[v].lease
            PROVE  FALSE
        <4>1. v # w
          BY <1>7, <3>1
        <4>2. writer[v].pc \in Working /\ now <= writer[v].lease
          BY <1>1, <3>1, <4>1
        <4>3. Owns(v)
          BY <1>1, <4>2 DEF LeaseInv, InTime
        <4>4. QED
          BY <1>7, <4>1, <4>3 DEF Owns
      <3>2. QED
        BY <3>1 DEF LeaseInv, InTime
    <2>4. QED
      BY <2>1, <2>2, <2>3
  <1>8. QED
    BY <1>1, <1>4, <1>5, <1>6, <1>7 DEF LockEffect

LEMMA EffectKeepsInv ==
  ASSUME IInv, NEW w \in Writers, Effect(w)
  PROVE  IInv' /\ Follows(BodyOf(comments'), BodyOf(comments))
  <1>1. TypeInv'
    BY EffectKeepsTypes
  <1>2. /\ LockInv' /\ LeaseInv'
        /\ \A v \in Writers \ {w} : Owns(v)' => Owns(v) /\ ~Owns(w)
    BY EffectKeepsLock
  <1>3. /\ TypeInv /\ KnowInv /\ SettledInv
        /\ CommentsEffect(w) /\ RecordEffect(w)
        /\ Owns(w)' => Knows(writer'[w], comments')
        /\ \A v \in Writers \ {w} : writer'[v] = writer[v]
    BY DEF IInv, Effect, WriterEffect
  <1>4. CommentsInv'
    BY <1>3 DEF CommentsEffect, CommentsInv
  <1>5. KnowInv'
    <2>1. ASSUME NEW v \in Writers, Owns(v)' PROVE Knows(writer'[v], comments')
      <3>1. CASE v = w
        BY <1>3, <2>1, <3>1
      <3>2. CASE v # w
        <4>1. Owns(v) /\ ~Owns(w) /\ writer'[v] = writer[v]
          BY <1>2, <1>3, <2>1, <3>2
        <4>2. comments' = comments
          BY <1>3, <4>1 DEF CommentsEffect
        <4>3. Knows(writer[v], comments)
          BY <1>3, <4>1 DEF KnowInv
        <4>4. QED
          BY <4>1, <4>2, <4>3
      <3>3. QED
        BY <3>1, <3>2
    <2>2. QED
      BY <2>1 DEF KnowInv
  <1>6. Follows(BodyOf(comments'), BodyOf(comments))
    BY <1>3 DEF CommentsEffect
  <1>7. ASSUME NEW d \in Deliveries, Settled(d, BodyOf(comments))
        PROVE  Settled(d, BodyOf(comments'))
    BY <1>6, <1>7 DEF Follows, Settled
  <1>8. SettledInv'
    <2>1. ASSUME NEW d \in recorded' PROVE Settled(d, BodyOf(comments'))
      <3>1. recorded \subseteq Deliveries /\ \A e \in recorded : Settled(e, BodyOf(comments))
        BY <1>3 DEF TypeInv, SettledInv
      <3>2. d \in recorded \/ Settled(d, BodyOf(comments'))
        BY <1>3 DEF RecordEffect
      <3>3. QED
        BY <1>7, <3>1, <3>2
    <2>2. ASSUME NEW v \in Writers, writer'[v].after = "collapse"
          PROVE  Settled(writer'[v].delivery, BodyOf(comments'))
      <3>1. CASE v = w
        BY <1>3, <2>2, <3>1 DEF RecordEffect
      <3>2. CASE v # w
        <4>1. writer'[v] = writer[v] /\ writer[v].after = "collapse"
          BY <1>3, <2>2, <3>2
        <4>2. Settled(writer[v].delivery, BodyOf(comments))
          BY <1>3, <4>1 DEF SettledInv
        <4>3. writer[v].delivery \in Deliveries
          BY <1>3, <4>1, TypeFacts DEF IsWriter
        <4>4. QED
          BY <1>7, <4>1, <4>2, <4>3
      <3>3. QED
        BY <3>1, <3>2
    <2>3. QED
      BY <2>1, <2>2 DEF SettledInv
  <1>9. QED
    BY <1>1, <1>2, <1>4, <1>5, <1>6, <1>8 DEF IInv

-----------------------------------------------------------------------------
(* The records that a step leaves its writer with.                          *)

SameOperation(r, s) ==
  s.kind = r.kind /\ s.delivery = r.delivery /\ s.status = r.status
SameLease(r, s) == s.version = r.version /\ s.lease = r.lease

LEMMA WriterFields ==
  ASSUME NEW r
  PROVE  r \in WriterRow =>
           /\ r = [pc |-> r.pc, kind |-> r.kind, delivery |-> r.delivery, status |-> r.status,
                   version |-> r.version, lease |-> r.lease, tries |-> r.tries, rows |-> r.rows,
                   after |-> r.after]
           /\ r.pc \in Pcs /\ r.kind \in {"record", "update"}
           /\ r.delivery \in Deliveries \cup {None} /\ r.status \in Statuses
           /\ r.version \in Nat /\ r.lease \in Nat /\ r.tries \in Nat /\ r.rows \in Seq(Row)
           /\ r.after \in Pcs
  BY DEF WriterRow

LEMMA BecomesGives ==
  ASSUME TypeInv, NEW w \in Writers, NEW s, IsWriter(s), writer' = [writer EXCEPT ![w] = s]
  PROVE  WriterEffect(w) /\ writer'[w] = s
  <1>1. writer \in [Writers -> WriterRow] /\ s \in WriterRow
    BY TypeFacts DEF IsWriter
  <1>2. writer' \in [Writers -> WriterRow] /\ writer'[w] = s
        /\ \A v \in Writers \ {w} : writer'[v] = writer[v]
    BY <1>1
  <1>3. QED
    BY <1>2 DEF WriterEffect

Mid == {"acquire", "look", "merge", "delete", "update", "create", "release"}

LEMMA GoGives ==
  ASSUME TypeInv, NEW w \in Writers, writer[w].pc # "idle", NEW pc \in Mid, Go(w, pc)
  PROVE  /\ WriterEffect(w)
         /\ writer'[w].pc = pc /\ writer'[w].after = writer[w].after
         /\ writer'[w].rows = writer[w].rows
         /\ SameOperation(writer[w], writer'[w]) /\ SameLease(writer[w], writer'[w])
  <1> DEFINE s == [writer[w] EXCEPT !.pc = pc]
  <1>1. IsWriter(writer[w]) /\ writer[w] \in WriterRow /\ writer \in [Writers -> WriterRow]
    BY TypeFacts
  <1>2. s \in WriterRow /\ s.pc = pc /\ s.after = writer[w].after /\ s.rows = writer[w].rows
        /\ SameOperation(writer[w], s) /\ SameLease(writer[w], s)
    BY <1>1 DEF WriterRow, Pcs, Mid, SameOperation, SameLease
  <1>3. writer' = [writer EXCEPT ![w] = s]
    BY <1>1 DEF Go
  <1> HIDE DEF s
  <1>4. IsWriter(s)
    BY <1>1, <1>2 DEF IsWriter, Mid, SameOperation
  <1>5. QED
    BY <1>2, <1>3, <1>4, BecomesGives

LEMMA FencingGives ==
  ASSUME TypeInv, NEW w \in Writers, writer[w].pc # "idle",
         NEW after \in {"create", "update", "merge"}, NEW rows \in Seq(Row),
         Fencing(w, after, rows)
  PROVE  /\ WriterEffect(w) /\ recorded' = recorded
         /\ writer'[w].pc = "fence" /\ writer'[w].after = after /\ writer'[w].rows = rows
         /\ SameOperation(writer[w], writer'[w]) /\ SameLease(writer[w], writer'[w])
  <1> DEFINE s == [writer[w] EXCEPT !.pc = "fence", !.after = after, !.rows = rows]
  <1>1. IsWriter(writer[w]) /\ writer[w] \in WriterRow /\ writer \in [Writers -> WriterRow]
    BY TypeFacts
  <1>2. s \in WriterRow /\ s.pc = "fence" /\ s.after = after /\ s.rows = rows
        /\ SameOperation(writer[w], s) /\ SameLease(writer[w], s)
    BY <1>1 DEF WriterRow, Pcs, SameOperation, SameLease
  <1>3. writer' = [writer EXCEPT ![w] = s]
    BY <1>1 DEF Fencing
  <1> HIDE DEF s
  <1>4. IsWriter(s)
    BY <1>1, <1>2 DEF IsWriter, SameOperation
  <1>5. QED
    BY <1>2, <1>3, <1>4, BecomesGives DEF Fencing

LEMMA LeasedGives ==
  ASSUME TypeInv, NEW w \in Writers, writer[w].pc # "idle", NEW pc \in Mid, Leased(w, pc)
  PROVE  /\ WriterEffect(w)
         /\ writer'[w].pc = pc /\ writer'[w].after = writer[w].after
         /\ writer'[w].rows = writer[w].rows
         /\ SameOperation(writer[w], writer'[w])
         /\ writer'[w].version = lock.version + 1 /\ writer'[w].lease = now + Ttl
         /\ lock' = [holder |-> w, version |-> lock.version + 1, expires |-> now + Ttl]
  <1> DEFINE s == [writer[w] EXCEPT !.pc = pc, !.version = lock.version + 1, !.lease = now + Ttl]
  <1>1. IsWriter(writer[w]) /\ writer[w] \in WriterRow /\ writer \in [Writers -> WriterRow]
        /\ lock.version + 1 \in Nat /\ now + Ttl \in Nat
    BY TypeFacts, Bounds
  <1>2. s \in WriterRow /\ s.pc = pc /\ s.after = writer[w].after /\ s.rows = writer[w].rows
        /\ SameOperation(writer[w], s) /\ s.version = lock.version + 1 /\ s.lease = now + Ttl
    BY <1>1 DEF WriterRow, Pcs, Mid, SameOperation
  <1>3. writer' = [writer EXCEPT ![w] = s]
    BY <1>1 DEF Leased
  <1> HIDE DEF s
  <1>4. IsWriter(s)
    BY <1>1, <1>2 DEF IsWriter, Mid, SameOperation
  <1>5. QED
    BY <1>2, <1>3, <1>4, BecomesGives DEF Leased

LEMMA IdleIs ==
  /\ Idle \in WriterRow /\ IsWriter(Idle)
  /\ Idle.pc = "idle" /\ Idle.version = 0 /\ Idle.after = "idle"
  <1>1. /\ Idle \in WriterRow /\ Idle.pc = "idle" /\ Idle.kind = "record"
        /\ Idle.version = 0 /\ Idle.after = "idle"
    <2>1. <<>> \in Seq(Row)
      BY EmptySeq
    <2>2. QED
      BY <2>1 DEF Idle, WriterRow, Pcs, Statuses
  <1>2. QED
    BY <1>1 DEF IsWriter

\* Who returns, to idle or with the lock, has nothing to know.
LEMMA KnowsNothing ==
  ASSUME NEW r, NEW cs, r.pc \in {"idle", "acquire", "release", "look", "collapse"}
  PROVE  Knows(r, cs)
  BY DEF Knows

LEMMA InvFacts ==
  ASSUME IInv, NEW w \in Writers
  PROVE  /\ TypeInv /\ AreComments(comments) /\ IsTable(BodyOf(comments))
         /\ Follows(BodyOf(comments), BodyOf(comments))
         /\ ops \in 0..MaxOps /\ faults \in 0..MaxFaults
         /\ recorded \subseteq Deliveries
         /\ writer[w].pc \in Working /\ InTime(w) => Owns(w)
         /\ Owns(w) => Knows(writer[w], comments)
         /\ writer[w].after = "collapse" => Settled(writer[w].delivery, BodyOf(comments))
  <1>1. TypeInv /\ AreComments(comments)
    BY DEF IInv, CommentsInv
  <1>2. IsTable(BodyOf(comments))
    BY <1>1, BodyIsTable
  <1>3. Follows(BodyOf(comments), BodyOf(comments))
    BY <1>2, FollowsItself
  <1>4. ops \in 0..MaxOps /\ faults \in 0..MaxFaults /\ recorded \subseteq Deliveries
    BY <1>1 DEF TypeInv
  <1>5. writer[w].pc \in Working /\ InTime(w) => Owns(w)
    BY DEF IInv, LeaseInv
  <1>6. Owns(w) => Knows(writer[w], comments)
    BY DEF IInv, KnowInv
  <1>7. writer[w].after = "collapse" => Settled(writer[w].delivery, BodyOf(comments))
    BY DEF IInv, SettledInv
  <1>8. QED
    BY <1>1, <1>2, <1>3, <1>4, <1>5, <1>6, <1>7

-----------------------------------------------------------------------------
(* The lock.                                                                *)

LEMMA StartDoes ==
  ASSUME IInv, NEW w \in Writers, NEW d \in Deliveries
  PROVE  Start(w, "record", d, "accepted") \/ Start(w, "update", d, "not supported")
           => Effect(w)
  <1>1. ASSUME NEW kind \in {"record", "update"}, NEW st \in Statuses,
               kind = "update" => st = "not supported",
               writer' = [writer EXCEPT ![w] = [Idle EXCEPT !.pc = "acquire", !.kind = kind,
                                                            !.delivery = d, !.status = st]],
               lock' = lock, now' = now, comments' = comments, recorded' = recorded,
               faults' = faults, ops < MaxOps, ops' = ops + 1
        PROVE  Effect(w)
    <2> DEFINE s == [Idle EXCEPT !.pc = "acquire", !.kind = kind, !.delivery = d, !.status = st]
    <2>1. /\ s \in WriterRow /\ s.pc = "acquire" /\ s.kind = kind /\ s.delivery = d
          /\ s.status = st /\ s.version = 0 /\ s.after = "idle"
      <3>1. <<>> \in Seq(Row)
        BY EmptySeq
      <3>2. QED
        BY <3>1 DEF Idle, WriterRow, Pcs, Statuses
    <2>2. writer' = [writer EXCEPT ![w] = s]
      BY <1>1
    <2> HIDE DEF s
    <2>3. IsWriter(s)
      BY <1>1, <2>1 DEF IsWriter
    <2>4. WriterEffect(w) /\ writer'[w] = s
      BY <2>2, <2>3, BecomesGives, InvFacts
    <2>5. ops' \in 0..MaxOps /\ faults' \in 0..MaxFaults
      <3>1. ops \in 0..MaxOps /\ faults \in 0..MaxFaults
        BY InvFacts
      <3>2. ops < MaxOps /\ ops' = ops + 1 /\ faults' = faults
        BY <1>1
      <3>3. MaxOps \in Nat /\ MaxFaults \in Nat
        BY CommandAuditAssumption
      <3>4. QED
        BY <3>1, <3>2, <3>3
    <2>6. LockEffect(w)
      BY <1>1, <2>1, <2>4 DEF LockEffect, Working
    <2>7. CommentsEffect(w) /\ RecordEffect(w)
      BY <1>1, <2>1, <2>4, InvFacts DEF CommentsEffect, RecordEffect
    <2>8. Knows(writer'[w], comments')
      <3>1. writer'[w].pc = "acquire"
        BY <2>1, <2>4
      <3>2. QED
        BY <3>1, KnowsNothing
    <2>9. QED
      BY <1>1, <2>4, <2>5, <2>6, <2>7, <2>8 DEF Effect
  <1>2. QED
    BY <1>1 DEF Start, Statuses

LEMMA AcquireDoes ==
  ASSUME IInv, NEW w \in Writers, Acquire(w)
  PROVE  Effect(w)
  <1>1. /\ writer[w].pc = "acquire" /\ Free /\ Leased(w, "look")
        /\ now' = now /\ comments' = comments /\ recorded' = recorded
        /\ ops' = ops /\ faults' = faults
    BY DEF Acquire, At
  <1>2. /\ WriterEffect(w)
        /\ writer'[w].pc = "look" /\ writer'[w].after = writer[w].after
        /\ SameOperation(writer[w], writer'[w])
        /\ writer'[w].version = lock.version + 1 /\ writer'[w].lease = now + Ttl
        /\ lock' = [holder |-> w, version |-> lock.version + 1, expires |-> now + Ttl]
    BY <1>1, InvFacts, LeasedGives DEF Mid
  <1>3. LockEffect(w)
    BY <1>1, <1>2 DEF LockEffect
  <1>4. CommentsEffect(w) /\ RecordEffect(w)
    BY <1>1, <1>2, InvFacts DEF CommentsEffect, RecordEffect, SameOperation
  <1>5. Knows(writer'[w], comments')
    BY <1>2, KnowsNothing
  <1>6. QED
    BY <1>1, <1>2, <1>3, <1>4, <1>5, InvFacts DEF Effect

\* A step that goes to release, or back to acquire, without a write.
LEMMA GoDoes ==
  ASSUME IInv, NEW w \in Writers, writer[w].pc # "idle",
         WriterEffect(w), writer'[w].pc \in {"acquire", "release"},
         writer'[w].after \in {"idle", writer[w].after},
         SameOperation(writer[w], writer'[w]), SameLease(writer[w], writer'[w]),
         lock' = lock, now' = now, ops' \in 0..MaxOps, faults' \in 0..MaxFaults,
         CommentsEffect(w),
         \A d \in recorded' : d \in recorded \/ (d \in Deliveries /\ Settled(d, BodyOf(comments')))
  PROVE  Effect(w)
  <1>1. LockEffect(w)
    BY DEF LockEffect, GoesOn, SameLease, Working
  <1>2. RecordEffect(w)
    <2>1. ASSUME writer'[w].after = "collapse"
          PROVE  Settled(writer'[w].delivery, BodyOf(comments'))
      <3>1. writer[w].after = "collapse" /\ writer'[w].delivery = writer[w].delivery
        BY <2>1 DEF SameOperation
      <3>2. Settled(writer[w].delivery, BodyOf(comments)) /\ writer[w].delivery \in Deliveries
        BY <3>1, InvFacts, TypeFacts
      <3>3. Follows(BodyOf(comments'), BodyOf(comments))
        BY DEF CommentsEffect
      <3>4. QED
        BY <3>1, <3>2, <3>3 DEF Follows, Settled
    <2>2. QED
      BY <2>1 DEF RecordEffect
  <1>3. Knows(writer'[w], comments')
    BY KnowsNothing
  <1>4. QED
    BY <1>1, <1>2, <1>3 DEF Effect

LEMMA GiveUpDoes ==
  ASSUME IInv, NEW w \in Writers, GiveUp(w)
  PROVE  Effect(w)
  <1>1. /\ writer[w].pc = "acquire" /\ Go(w, "release")
        /\ lock' = lock /\ now' = now /\ comments' = comments /\ recorded' = recorded
        /\ ops' = ops /\ faults' = faults
    BY DEF GiveUp, At
  <1>2. /\ WriterEffect(w)
        /\ writer'[w].pc = "release" /\ writer'[w].after = writer[w].after
        /\ SameOperation(writer[w], writer'[w]) /\ SameLease(writer[w], writer'[w])
    BY <1>1, InvFacts, GoGives DEF Mid
  <1>3. CommentsEffect(w)
    BY <1>1, InvFacts DEF CommentsEffect
  <1>4. QED
    BY <1>1, <1>2, <1>3, InvFacts, GoDoes

LEMMA LostGives ==
  ASSUME TypeInv, NEW w \in Writers, writer[w].pc # "idle", Lost(w)
  PROVE  /\ WriterEffect(w) /\ lock' = lock
         /\ writer'[w].pc \in {"acquire", "release"}
         /\ writer'[w].after \in {"idle", writer[w].after}
         /\ SameOperation(writer[w], writer'[w]) /\ SameLease(writer[w], writer'[w])
  <1> DEFINE s == [writer[w] EXCEPT !.pc = "acquire", !.tries = @ + 1, !.after = "idle",
                                    !.rows = <<>>]
  <1>1. IsWriter(writer[w]) /\ writer[w] \in WriterRow /\ writer \in [Writers -> WriterRow]
    BY TypeFacts
  <1>2. lock' = lock
    BY DEF Lost
  <1>3. CASE Go(w, "release")
    BY <1>2, <1>3, GoGives DEF Mid
  <1>4. CASE writer' = [writer EXCEPT ![w].pc = "acquire", ![w].tries = @ + 1,
                                      ![w].after = "idle", ![w].rows = <<>>]
    <2>1. writer' = [writer EXCEPT ![w] = s]
      BY <1>1, <1>4
    <2>2. s \in WriterRow /\ s.pc = "acquire" /\ s.after = "idle"
          /\ SameOperation(writer[w], s) /\ SameLease(writer[w], s)
      <3>1. <<>> \in Seq(Row) /\ writer[w].tries + 1 \in Nat
        BY <1>1, EmptySeq DEF WriterRow
      <3>2. QED
        BY <1>1, <3>1 DEF WriterRow, Pcs, SameOperation, SameLease
    <2> HIDE DEF s
    <2>3. IsWriter(s)
      BY <1>1, <2>2 DEF IsWriter, SameOperation
    <2>4. QED
      BY <1>2, <2>1, <2>2, <2>3, BecomesGives
  <1>5. QED
    BY <1>3, <1>4 DEF Lost

LEMMA FenceDoes ==
  ASSUME IInv, NEW w \in Writers, Fence(w)
  PROVE  Effect(w)
  <1>1. /\ writer[w].pc = "fence"
        /\ now' = now /\ comments' = comments /\ recorded' = recorded
        /\ ops' = ops /\ faults' = faults
    BY DEF Fence, At
  <1>2. TypeInv /\ IsWriter(writer[w])
    BY InvFacts, TypeFacts
  <1>3. writer[w].after \in {"create", "update", "merge"}
    BY <1>1, <1>2 DEF IsWriter
  <1>4. CommentsEffect(w)
    BY <1>1, InvFacts DEF CommentsEffect
  <1>5. CASE Holds(w) /\ Leased(w, writer[w].after)
    <2> DEFINE pc == writer[w].after
    <2>1. pc \in Mid /\ Leased(w, pc) /\ pc # "fence" /\ pc # "collapse"
      BY <1>3, <1>5 DEF Mid
    <2>2. /\ WriterEffect(w)
          /\ writer'[w].pc = pc /\ writer'[w].after = writer[w].after
          /\ writer'[w].rows = writer[w].rows
          /\ SameOperation(writer[w], writer'[w])
          /\ writer'[w].version = lock.version + 1 /\ writer'[w].lease = now + Ttl
          /\ lock' = [holder |-> w, version |-> lock.version + 1, expires |-> now + Ttl]
      BY <1>1, <1>2, <2>1, LeasedGives
    <2>3. Owns(w) /\ Knows(writer[w], comments)
      BY <1>5, InvFacts DEF Holds
    <2>4. LockEffect(w)
      BY <2>2, <2>3 DEF LockEffect
    <2>5. RecordEffect(w)
      BY <1>1, <2>1, <2>2, <1>3 DEF RecordEffect
    <2>6. Knows(writer'[w], comments)
      BY <1>1, <1>3, <2>1, <2>2, <2>3 DEF Knows, WantedOf, SameOperation
    <2>7. QED
      BY <1>1, <1>4, <2>2, <2>4, <2>5, <2>6, InvFacts DEF Effect
  <1>6. CASE Lost(w)
    <2>1. /\ WriterEffect(w) /\ lock' = lock
          /\ writer'[w].pc \in {"acquire", "release"}
          /\ writer'[w].after \in {"idle", writer[w].after}
          /\ SameOperation(writer[w], writer'[w]) /\ SameLease(writer[w], writer'[w])
      BY <1>1, <1>2, <1>6, LostGives
    <2>2. QED
      BY <1>1, <1>4, <2>1, InvFacts, GoDoes
  <1>7. QED
    BY <1>5, <1>6 DEF Fence

LEMMA ResetDoes ==
  ASSUME IInv, NEW w \in Writers, writer' = [writer EXCEPT ![w] = Idle],
         \/ lock' = lock
         \/ Owns(w) /\ Released(lock'),
         now' = now, comments' = comments, recorded' = recorded, ops' = ops,
         faults' \in 0..MaxFaults
  PROVE  Effect(w)
  <1>1. WriterEffect(w) /\ writer'[w] = Idle
    BY InvFacts, IdleIs, BecomesGives
  <1>2. LockEffect(w)
    BY <1>1, IdleIs DEF LockEffect, Working
  <1>3. CommentsEffect(w) /\ RecordEffect(w)
    BY <1>1, InvFacts, IdleIs DEF CommentsEffect, RecordEffect
  <1>4. Knows(writer'[w], comments')
    BY <1>1, IdleIs, KnowsNothing
  <1>5. QED
    BY <1>1, <1>2, <1>3, <1>4, InvFacts DEF Effect

LEMMA ReleaseDoes ==
  ASSUME IInv, NEW w \in Writers, Release(w)
  PROVE  Effect(w)
  <1>1. /\ writer' = [writer EXCEPT ![w] = Idle]
        /\ now' = now /\ comments' = comments /\ recorded' = recorded
        /\ ops' = ops /\ faults' = faults
        /\ lock' = IF Owns(w) THEN [lock EXCEPT !.holder = None, !.expires = 0] ELSE lock
    BY DEF Release
  <1>2. lock \in [holder : Writers \cup {None}, version : Nat, expires : Nat]
    BY InvFacts, TypeFacts
  <1>3. Released([lock EXCEPT !.holder = None, !.expires = 0])
    BY <1>2 DEF Released
  <1>4. QED
    BY <1>1, <1>3, InvFacts, ResetDoes

LEMMA DieDoes ==
  ASSUME IInv, NEW w \in Writers, Die(w)
  PROVE  Effect(w)
  <1>1. /\ writer' = [writer EXCEPT ![w] = Idle]
        /\ lock' = lock /\ now' = now /\ comments' = comments /\ recorded' = recorded
        /\ ops' = ops
        /\ faults' = faults \/ (faults < MaxFaults /\ faults' = faults + 1)
    BY DEF Die
  <1>2. faults' \in 0..MaxFaults
    BY <1>1, InvFacts, CommandAuditAssumption
  <1>3. QED
    BY <1>1, <1>2, ResetDoes

-----------------------------------------------------------------------------
(* The comment.                                                             *)

LEMMA DoneDoes ==
  ASSUME IInv, NEW w \in Writers, writer[w].pc # "idle", Done(w),
         CommentsEffect(w), Settled(writer[w].delivery, BodyOf(comments')),
         lock' = lock, now' = now, ops' = ops, faults' = faults
  PROVE  Effect(w)
  <1>1. Go(w, "release") /\ recorded' = recorded \cup {writer[w].delivery}
    BY DEF Done
  <1>2. /\ WriterEffect(w)
        /\ writer'[w].pc = "release" /\ writer'[w].after = writer[w].after
        /\ SameOperation(writer[w], writer'[w]) /\ SameLease(writer[w], writer'[w])
    BY <1>1, InvFacts, GoGives DEF Mid
  <1>3. writer[w].delivery \in Deliveries
    BY InvFacts, TypeFacts
  <1>4. \A d \in recorded' :
          d \in recorded \/ (d \in Deliveries /\ Settled(d, BodyOf(comments')))
    BY <1>1, <1>3
  <1>5. ops' \in 0..MaxOps /\ faults' \in 0..MaxFaults
    BY InvFacts
  <1>6. QED
    BY <1>2, <1>4, <1>5, GoDoes

LEMMA FencingDoes ==
  ASSUME IInv, NEW w \in Writers, writer[w].pc \in Working,
         NEW after \in {"create", "update", "merge"}, NEW rows \in Seq(Row),
         Fencing(w, after, rows), CommentsEffect(w),
         after = "create" => Len(comments') = 0,
         after = "update" => Len(comments') = 1,
         after \in {"create", "update"} => rows = WantedOf(writer[w], BodyOf(comments')),
         after = "merge" => Len(comments') = 2,
         lock' = lock, now' = now, ops' = ops, faults' = faults
  PROVE  Effect(w)
  <1>1. writer[w].pc # "idle"
    BY DEF Working
  <1>2. /\ WriterEffect(w) /\ recorded' = recorded
        /\ writer'[w].pc = "fence" /\ writer'[w].after = after /\ writer'[w].rows = rows
        /\ SameOperation(writer[w], writer'[w]) /\ SameLease(writer[w], writer'[w])
    BY <1>1, InvFacts, FencingGives
  <1>3. LockEffect(w)
    BY <1>2 DEF LockEffect, GoesOn, SameLease
  <1>4. RecordEffect(w)
    BY <1>2 DEF RecordEffect
  <1>5. Knows(writer'[w], comments')
    BY <1>2 DEF Knows, WantedOf, SameOperation
  <1>6. ops' \in 0..MaxOps /\ faults' \in 0..MaxFaults
    BY InvFacts
  <1>7. QED
    BY <1>2, <1>3, <1>4, <1>5, <1>6 DEF Effect

LEMMA DecideDoes ==
  ASSUME IInv, NEW w \in Writers, writer[w].pc \in Working, NEW rows,
         Decide(w, comments', rows), rows = BodyOf(comments'), CommentsEffect(w),
         Len(comments') \in 0..1,
         lock' = lock, now' = now, ops' = ops, faults' = faults
  PROVE  Effect(w)
  <1>1. AreComments(comments')
    BY DEF CommentsEffect
  <1>2. /\ IsTable(BodyOf(comments')) /\ (comments' = <<>> <=> Len(comments') = 0)
        /\ Len(comments') = 0 => BodyOf(comments') = <<>>
    BY <1>1, BodyIsTable
  <1>3. writer[w].pc # "idle" /\ IsWriter(writer[w]) /\ writer[w].delivery \in Deliveries
    BY InvFacts, TypeFacts DEF Working
  <1> DEFINE t == BodyOf(comments')
             r == writer[w]
             u == WantedOf(r, t)
  <1>4. IsTable(u) /\ HasRow(u, writer[w].delivery)
    <2>1. IsTable(t) /\ IsWriter(r) /\ r.delivery \in Deliveries
      BY <1>2, <1>3
    <2> HIDE DEF t, r
    <2>2. IsTable(WantedOf(r, t)) /\ HasRow(WantedOf(r, t), r.delivery)
      BY <2>1, WantedFollows
    <2>3. QED
      BY <2>2 DEF r
  <1>5. u \in Seq(Row)
    BY <1>4, TableFacts
  <1>6. CASE comments' = <<>> /\ Fencing(w, "create", Wanted(w, <<>>))
    <2>1. Len(comments') = 0 /\ Fencing(w, "create", u)
      BY <1>2, <1>6, WantedIs
    <2>2. QED
      BY <1>5, <2>1, FencingDoes
  <1>7. CASE Wanted(w, rows) = rows /\ Done(w)
    <2>1. HasRow(BodyOf(comments'), writer[w].delivery)
      BY <1>4, <1>7, WantedIs
    <2>2. QED
      BY <1>3, <1>7, <2>1, DoneDoes DEF Settled
  <1>8. CASE comments' # <<>> /\ Fencing(w, "update", Wanted(w, rows))
    <2>1. Len(comments') = 1 /\ Fencing(w, "update", u)
      BY <1>2, <1>8, WantedIs
    <2>2. QED
      BY <1>5, <2>1, FencingDoes
  <1>9. QED
    BY <1>6, <1>7, <1>8 DEF Decide

LEMMA LookDoes ==
  ASSUME IInv, NEW w \in Writers, Look(w)
  PROVE  Effect(w)
  <1>1. /\ writer[w].pc = "look"
        /\ lock' = lock /\ now' = now /\ comments' = comments
        /\ ops' = ops /\ faults' = faults
    BY DEF Look, At
  <1>2. AreComments(comments) /\ CommentsEffect(w)
    BY <1>1, InvFacts DEF CommentsEffect
  <1>3. /\ Len(comments) \in 0..2 /\ (comments = <<>> <=> Len(comments) = 0)
        /\ Len(comments) # 0 => BodyOf(comments) = comments[1]
        /\ Len(comments) = 0 => BodyOf(comments) = <<>>
    BY <1>2, BodyIsTable
  <1>4. writer[w].pc \in Working
    BY <1>1 DEF Working
  <1>5. CASE Many(comments) /\ Fencing(w, "merge", <<>>)
    <2>1. Len(comments) = 2
      BY <1>3, <1>5 DEF Many
    <2>2. Len(comments') = 2 /\ <<>> \in Seq(Row)
      BY <1>1, <2>1, EmptySeq
    <2>3. QED
      BY <1>1, <1>2, <1>4, <1>5, <2>2, FencingDoes
  <1>6. CASE /\ ~Many(comments)
             /\ Decide(w, comments, IF comments = <<>> THEN <<>> ELSE comments[1])
    <2>1. Len(comments') \in 0..1
      <3>1. Len(comments) \in 0..1
        BY <1>3, <1>6 DEF Many
      <3>2. QED
        BY <1>1, <3>1
    <2>2. Decide(w, comments', BodyOf(comments'))
      BY <1>1, <1>3, <1>6
    <2>3. QED
      BY <1>1, <1>2, <1>4, <2>1, <2>2, DecideDoes
  <1>7. QED
    BY <1>5, <1>6 DEF Look

\* What a writer at work within its lease may take for granted.
LEMMA InTimeFacts ==
  ASSUME IInv, NEW w \in Writers, writer[w].pc \in {"merge", "delete", "update", "create"},
         InTime(w)
  PROVE  /\ Owns(w) /\ Knows(writer[w], comments) /\ AreComments(comments)
         /\ writer[w].pc # "idle" /\ writer[w].pc \in Working
         /\ IsWriter(writer[w]) /\ writer[w].delivery \in Deliveries
  BY InvFacts, TypeFacts DEF Working

LEMMA MergeDoes ==
  ASSUME IInv, NEW w \in Writers, Merge(w)
  PROVE  Effect(w)
  <1>1. /\ writer[w].pc = "merge" /\ InTime(w) /\ Go(w, "delete")
        /\ comments' = [comments EXCEPT ![1] = Merged(comments)]
        /\ lock' = lock /\ now' = now /\ recorded' = recorded
        /\ ops' = ops /\ faults' = faults
    BY DEF Merge, At
  <1>2. /\ Owns(w) /\ Knows(writer[w], comments) /\ AreComments(comments)
        /\ writer[w].pc # "idle" /\ writer[w].pc \in Working
    BY <1>1, InTimeFacts
  <1>3. Len(comments) = 2
    BY <1>1, <1>2 DEF Knows
  <1>4. comments' = comments
    BY <1>1, <1>2, <1>3, MergeKeeps
  <1>5. /\ WriterEffect(w)
        /\ writer'[w].pc = "delete" /\ writer'[w].after = writer[w].after
        /\ SameOperation(writer[w], writer'[w]) /\ SameLease(writer[w], writer'[w])
    BY <1>1, <1>2, InvFacts, GoGives DEF Mid
  <1>6. LockEffect(w)
    BY <1>1, <1>2, <1>5 DEF LockEffect, GoesOn, SameLease
  <1>7. CommentsEffect(w) /\ RecordEffect(w)
    BY <1>1, <1>4, <1>5, InvFacts DEF CommentsEffect, RecordEffect, SameOperation
  <1>8. Knows(writer'[w], comments')
    BY <1>3, <1>4, <1>5 DEF Knows
  <1>9. ops' \in 0..MaxOps /\ faults' \in 0..MaxFaults
    BY <1>1, InvFacts
  <1>10. QED
    BY <1>1, <1>5, <1>6, <1>7, <1>8, <1>9 DEF Effect

LEMMA DeleteDoes ==
  ASSUME IInv, NEW w \in Writers, DeleteExtra(w)
  PROVE  Effect(w)
  <1>1. /\ writer[w].pc = "delete" /\ InTime(w) /\ comments' = RemoveAt(comments, 2)
        /\ lock' = lock /\ now' = now /\ ops' = ops /\ faults' = faults
    BY DEF DeleteExtra, At
  <1>2. /\ Owns(w) /\ Knows(writer[w], comments) /\ AreComments(comments)
        /\ writer[w].pc # "idle" /\ writer[w].pc \in Working
    BY <1>1, InTimeFacts
  <1>3. Len(comments) = 2
    BY <1>1, <1>2 DEF Knows
  <1>4. /\ AreComments(comments') /\ BodyOf(comments') = BodyOf(comments)
        /\ Len(comments') = 1 /\ BodyOf(comments) = comments[1]
    BY <1>1, <1>2, <1>3, RemoveGives DEF BodyOf
  <1>5. CommentsEffect(w)
    BY <1>2, <1>4, InvFacts DEF CommentsEffect
  <1>6. CASE writer[w].after = "collapse" /\ Done(w)
    <2>1. Settled(writer[w].delivery, BodyOf(comments'))
      BY <1>4, <1>6, InvFacts
    <2>2. QED
      BY <1>1, <1>2, <1>5, <1>6, <2>1, DoneDoes
  <1>7. CASE Decide(w, comments', comments[1])
    <2>1. Len(comments') \in 0..1 /\ comments[1] = BodyOf(comments')
      BY <1>4
    <2>2. QED
      BY <1>1, <1>2, <1>5, <1>7, <2>1, DecideDoes
  <1>8. QED
    BY <1>3, <1>6, <1>7 DEF DeleteExtra

\* A write of the rows that were wanted, over a comment or as a new one.
LEMMA UpdateWrites ==
  ASSUME IInv, NEW w \in Writers, writer[w].pc = "update", InTime(w),
         comments' = [comments EXCEPT ![1] = writer[w].rows]
  PROVE  CommentsEffect(w) /\ Settled(writer[w].delivery, BodyOf(comments'))
  <1>1. /\ Owns(w) /\ Knows(writer[w], comments) /\ AreComments(comments)
        /\ IsWriter(writer[w]) /\ writer[w].delivery \in Deliveries
    BY InTimeFacts
  <1> DEFINE u == WantedOf(writer[w], BodyOf(comments))
  <1>2. Len(comments) = 1 /\ writer[w].rows = u
    BY <1>1 DEF Knows
  <1>3. /\ Follows(u, BodyOf(comments)) /\ IsTable(u) /\ u # <<>>
        /\ HasRow(u, writer[w].delivery)
    BY <1>1, InvFacts, WantedFollows
  <1> HIDE DEF u
  <1>4. AreComments(comments') /\ BodyOf(comments') = u
    BY <1>1, <1>2, <1>3, UpdateGives
  <1>5. QED
    BY <1>1, <1>3, <1>4 DEF CommentsEffect, Settled

LEMMA CreateWrites ==
  ASSUME IInv, NEW w \in Writers, writer[w].pc = "create", InTime(w), NEW n \in 1..2,
         comments' = Created(w, n)
  PROVE  CommentsEffect(w) /\ Settled(writer[w].delivery, BodyOf(comments'))
  <1>1. /\ Owns(w) /\ Knows(writer[w], comments) /\ AreComments(comments)
        /\ IsWriter(writer[w]) /\ writer[w].delivery \in Deliveries
    BY InTimeFacts
  <1> DEFINE u == WantedOf(writer[w], BodyOf(comments))
  <1>2. Len(comments) = 0 /\ writer[w].rows = u
    BY <1>1 DEF Knows
  <1>3. /\ Follows(u, BodyOf(comments)) /\ IsTable(u) /\ u # <<>>
        /\ HasRow(u, writer[w].delivery)
    BY <1>1, InvFacts, WantedFollows
  <1> HIDE DEF u
  <1>4. comments' = comments \o Posted(u, n)
    BY <1>2 DEF Created, Posted
  <1>5. AreComments(comments') /\ BodyOf(comments') = u
    <2>1. AreComments(comments \o Posted(u, n)) /\ BodyOf(comments \o Posted(u, n)) = u
      BY <1>1, <1>2, <1>3, CreateGives
    <2>2. QED
      BY <1>4, <2>1
  <1>6. QED
    BY <1>1, <1>3, <1>5 DEF CommentsEffect, Settled

LEMMA UpdateDoes ==
  ASSUME IInv, NEW w \in Writers, UpdateComment(w)
  PROVE  Effect(w)
  <1>1. /\ writer[w].pc = "update" /\ InTime(w) /\ Done(w)
        /\ comments' = [comments EXCEPT ![1] = writer[w].rows]
        /\ lock' = lock /\ now' = now /\ ops' = ops /\ faults' = faults
    BY DEF UpdateComment, At
  <1>2. CommentsEffect(w) /\ Settled(writer[w].delivery, BodyOf(comments'))
    BY <1>1, UpdateWrites
  <1>3. QED
    BY <1>1, <1>2, DoneDoes

LEMMA CreateDoes ==
  ASSUME IInv, NEW w \in Writers, CreateComment(w)
  PROVE  Effect(w)
  <1>1. /\ writer[w].pc = "create" /\ InTime(w)
        /\ writer' = [writer EXCEPT ![w].pc = "collapse", ![w].after = "collapse"]
        /\ lock' = lock /\ now' = now /\ recorded' = recorded /\ ops' = ops
        /\ \/ comments' = Created(w, 1) /\ faults' = faults
           \/ comments' = Created(w, 2) /\ faults < MaxFaults /\ faults' = faults + 1
    BY DEF CreateComment, At
  <1>2. faults' \in 0..MaxFaults /\ ops' \in 0..MaxOps
    <2>1. faults \in 0..MaxFaults /\ ops \in 0..MaxOps
      BY InvFacts
    <2>2. faults' = faults \/ (faults < MaxFaults /\ faults' = faults + 1)
      BY <1>1
    <2>3. MaxFaults \in Nat /\ ops' = ops
      BY <1>1, CommandAuditAssumption
    <2>4. QED
      BY <2>1, <2>2, <2>3
  <1>3. CommentsEffect(w) /\ Settled(writer[w].delivery, BodyOf(comments'))
    <2>1. 1 \in 1..2 /\ 2 \in 1..2
      OBVIOUS
    <2>2. QED
      BY <1>1, <2>1, CreateWrites
  <1> DEFINE s == [writer[w] EXCEPT !.pc = "collapse", !.after = "collapse"]
  <1>4. /\ TypeInv /\ IsWriter(writer[w]) /\ writer[w] \in WriterRow
        /\ writer[w].delivery \in Deliveries
        /\ writer \in [Writers -> WriterRow]
    BY <1>1, InvFacts, TypeFacts
  <1>5. s \in WriterRow /\ s.pc = "collapse" /\ s.after = "collapse"
        /\ SameOperation(writer[w], s) /\ SameLease(writer[w], s)
    BY <1>4 DEF WriterRow, Pcs, SameOperation, SameLease
  <1>6. writer' = [writer EXCEPT ![w] = s]
    BY <1>1, <1>4
  <1> HIDE DEF s
  <1>7. IsWriter(s)
    BY <1>4, <1>5 DEF IsWriter, SameOperation
  <1>8. WriterEffect(w) /\ writer'[w] = s
    BY <1>4, <1>6, <1>7, BecomesGives
  <1>9. LockEffect(w)
    BY <1>1, <1>5, <1>8 DEF LockEffect, GoesOn, SameLease, Working
  <1>10. RecordEffect(w)
    BY <1>1, <1>3, <1>5, <1>8 DEF RecordEffect, SameOperation
  <1>11. Knows(writer'[w], comments')
    <2>1. writer'[w].pc = "collapse"
      BY <1>5, <1>8
    <2>2. QED
      BY <2>1, KnowsNothing
  <1>12. QED
    BY <1>1, <1>2, <1>3, <1>8, <1>9, <1>10, <1>11 DEF Effect

LEMMA CollapseDoes ==
  ASSUME IInv, NEW w \in Writers, Collapse(w)
  PROVE  Effect(w)
  <1>1. /\ writer[w].pc = "collapse"
        /\ lock' = lock /\ now' = now /\ comments' = comments
        /\ ops' = ops /\ faults' = faults
    BY DEF Collapse, At
  <1>2. TypeInv /\ AreComments(comments) /\ CommentsEffect(w) /\ IsWriter(writer[w])
    BY <1>1, InvFacts, TypeFacts DEF CommentsEffect
  <1>3. writer[w].after = "collapse"
    BY <1>1, <1>2 DEF IsWriter
  <1>4. Settled(writer[w].delivery, BodyOf(comments'))
    BY <1>1, <1>3, InvFacts
  <1>5. CASE Done(w)
    BY <1>1, <1>2, <1>4, <1>5, DoneDoes
  <1>6. CASE Many(comments) /\ Go(w, "merge") /\ recorded' = recorded
    <2>1. Len(comments) = 2
      BY <1>2, <1>6 DEF AreComments, Many
    <2>2. /\ WriterEffect(w)
          /\ writer'[w].pc = "merge" /\ writer'[w].after = writer[w].after
          /\ SameOperation(writer[w], writer'[w]) /\ SameLease(writer[w], writer'[w])
      BY <1>1, <1>2, <1>6, GoGives DEF Mid
    <2>3. LockEffect(w)
      BY <1>1, <2>2 DEF LockEffect, GoesOn, SameLease, Working
    <2>4. RecordEffect(w)
      BY <1>4, <1>6, <2>2 DEF RecordEffect, SameOperation
    <2>5. Knows(writer'[w], comments')
      BY <1>1, <2>1, <2>2 DEF Knows
    <2>6. ops' \in 0..MaxOps /\ faults' \in 0..MaxFaults
      BY <1>1, InvFacts
    <2>7. QED
      BY <1>1, <1>2, <2>2, <2>3, <2>4, <2>5, <2>6 DEF Effect
  <1>7. QED
    BY <1>5, <1>6 DEF Collapse

LEMMA CallFailsDoes ==
  ASSUME IInv, NEW w \in Writers, CallFails(w)
  PROVE  Effect(w)
  <1>1. /\ writer[w].pc # "idle" /\ Go(w, "release")
        /\ lock' = lock /\ now' = now /\ recorded' = recorded /\ ops' = ops
        /\ faults < MaxFaults /\ faults' = faults + 1
    BY DEF CallFails
  <1>2. \/ comments' = comments
        \/ /\ writer[w].pc = "update" /\ InTime(w)
           /\ comments' = [comments EXCEPT ![1] = writer[w].rows]
        \/ writer[w].pc = "create" /\ InTime(w) /\ comments' = Created(w, 1)
        \/ /\ writer[w].pc = "merge" /\ InTime(w)
           /\ comments' = [comments EXCEPT ![1] = Merged(comments)]
        \/ writer[w].pc = "delete" /\ InTime(w) /\ comments' = RemoveAt(comments, 2)
    BY DEF CallFails, At
  <1>3. faults' \in 0..MaxFaults /\ ops' \in 0..MaxOps
    <2>1. faults \in 0..MaxFaults /\ ops \in 0..MaxOps
      BY InvFacts
    <2>2. MaxFaults \in Nat
      BY CommandAuditAssumption
    <2>3. QED
      BY <1>1, <2>1, <2>2
  <1>4. /\ WriterEffect(w)
        /\ writer'[w].pc = "release" /\ writer'[w].after = writer[w].after
        /\ SameOperation(writer[w], writer'[w]) /\ SameLease(writer[w], writer'[w])
    BY <1>1, InvFacts, GoGives DEF Mid
  <1>5. CommentsEffect(w)
    <2>1. CASE comments' = comments
      BY <2>1, InvFacts DEF CommentsEffect
    <2>2. CASE /\ writer[w].pc = "update" /\ InTime(w)
               /\ comments' = [comments EXCEPT ![1] = writer[w].rows]
      BY <2>2, UpdateWrites
    <2>3. CASE writer[w].pc = "create" /\ InTime(w) /\ comments' = Created(w, 1)
      <3>1. 1 \in 1..2
        OBVIOUS
      <3>2. QED
        BY <2>3, <3>1, CreateWrites
    <2>4. CASE /\ writer[w].pc = "merge" /\ InTime(w)
               /\ comments' = [comments EXCEPT ![1] = Merged(comments)]
      <3>1. Knows(writer[w], comments) /\ AreComments(comments)
        BY <2>4, InTimeFacts
      <3>2. Len(comments) = 2
        BY <2>4, <3>1 DEF Knows
      <3>3. comments' = comments
        BY <2>4, <3>1, <3>2, MergeKeeps
      <3>4. QED
        BY <2>1, <3>3
    <2>5. CASE writer[w].pc = "delete" /\ InTime(w) /\ comments' = RemoveAt(comments, 2)
      <3>1. Owns(w) /\ Knows(writer[w], comments) /\ AreComments(comments)
        BY <2>5, InTimeFacts
      <3>2. Len(comments) = 2
        BY <2>5, <3>1 DEF Knows
      <3>3. AreComments(comments') /\ BodyOf(comments') = BodyOf(comments)
        BY <2>5, <3>1, <3>2, RemoveGives
      <3>4. QED
        BY <3>1, <3>3, InvFacts DEF CommentsEffect
    <2>6. QED
      BY <1>2, <2>1, <2>2, <2>3, <2>4, <2>5
  <1>6. QED
    BY <1>1, <1>3, <1>4, <1>5, GoDoes

-----------------------------------------------------------------------------
(* The invariant holds, and every step keeps what readers see.              *)

LEMMA InitInv ==
  ASSUME Init
  PROVE  IInv
  <1>1. /\ now = 1 /\ lock = [holder |-> None, version |-> 0, expires |-> 0]
        /\ comments = <<>> /\ writer = [w \in Writers |-> Idle]
        /\ recorded = {} /\ ops = 0 /\ faults = 0
    BY DEF Init
  <1>2. \A w \in Writers : writer[w] = Idle
    BY <1>1
  <1>3. TypeInv
    <2>1. now \in 1..MaxNow /\ ops \in 0..MaxOps /\ faults \in 0..MaxFaults
      BY <1>1, CommandAuditAssumption
    <2>2. /\ lock \in [holder : Writers \cup {None}, version : Nat, expires : Nat]
          /\ recorded \subseteq Deliveries /\ lock.version = 0
      BY <1>1
    <2>3. writer \in [Writers -> WriterRow]
      BY <1>1, IdleIs
    <2>4. \A w \in Writers : IsWriter(writer[w]) /\ writer[w].version <= lock.version
      BY <1>2, <2>2, IdleIs
    <2>5. QED
      BY <2>1, <2>2, <2>3, <2>4 DEF TypeInv
  <1>4. \A w \in Writers : ~Owns(w)
    BY <1>1, Bounds DEF Owns
  <1>5. LockInv /\ KnowInv
    BY <1>1, <1>4 DEF LockInv, KnowInv
  <1>6. LeaseInv
    BY <1>2, IdleIs DEF LeaseInv, Working
  <1>7. CommentsInv
    <2>1. <<>> \in Seq(Seq(Row)) /\ Len(<<>>) = 0
      BY EmptySeq
    <2>2. QED
      BY <1>1, <2>1 DEF CommentsInv, AreComments
  <1>8. SettledInv
    BY <1>1, <1>2, IdleIs DEF SettledInv
  <1>9. QED
    BY <1>3, <1>5, <1>6, <1>7, <1>8 DEF IInv

LEMMA WriterSteps ==
  ASSUME IInv, NEW w \in Writers,
         \/ \E d \in Deliveries : \/ Start(w, "record", d, "accepted")
                                  \/ Start(w, "update", d, "not supported")
         \/ Acquire(w) \/ GiveUp(w) \/ Fence(w) \/ Release(w)
         \/ Look(w) \/ Merge(w) \/ DeleteExtra(w) \/ UpdateComment(w) \/ CreateComment(w)
         \/ Collapse(w) \/ CallFails(w) \/ Die(w)
  PROVE  Effect(w)
  BY StartDoes, AcquireDoes, GiveUpDoes, FenceDoes, ReleaseDoes, LookDoes, MergeDoes,
     DeleteDoes, UpdateDoes, CreateDoes, CollapseDoes, CallFailsDoes, DieDoes

LEMMA NextInv ==
  ASSUME IInv, [Next]_vars
  PROVE  IInv' /\ Follows(BodyOf(comments'), BodyOf(comments))
  <1>1. Follows(BodyOf(comments), BodyOf(comments))
    BY BodyIsTable, FollowsItself DEF IInv, CommentsInv
  <1>2. CASE Tick
    <2>1. /\ now < MaxNow /\ now' = now + 1
          /\ lock' = lock /\ comments' = comments /\ writer' = writer /\ recorded' = recorded
          /\ ops' = ops /\ faults' = faults
      BY <1>2 DEF Tick
    <2>2. TypeInv'
      <3>1. now' \in 1..MaxNow
        BY <2>1, CommandAuditAssumption DEF IInv, TypeInv
      <3>2. QED
        BY <2>1, <3>1 DEF IInv, TypeInv
    <2>3. \A w \in Writers : Owns(w)' <=> Owns(w)
      BY <2>1 DEF Owns
    <2>4. LockInv' /\ KnowInv'
      BY <2>1, <2>3 DEF IInv, LockInv, KnowInv
    <2>5. LeaseInv'
      <3>1. ASSUME NEW w \in Writers, writer'[w].pc \in Working, now' <= writer'[w].lease
            PROVE  Owns(w)'
        <4>1. now \in Nat /\ writer[w].lease \in Nat
          BY TypeFacts DEF IInv
        <4>2. now <= writer[w].lease
          BY <2>1, <3>1, <4>1
        <4>3. QED
          BY <2>1, <2>3, <3>1, <4>2 DEF IInv, LeaseInv, InTime
      <3>2. QED
        BY <3>1 DEF LeaseInv, InTime
    <2>6. CommentsInv' /\ SettledInv'
      BY <2>1 DEF IInv, CommentsInv, SettledInv
    <2>7. QED
      BY <1>1, <2>1, <2>2, <2>4, <2>5, <2>6 DEF IInv
  <1>3. ASSUME NEW w \in Writers, Effect(w)
        PROVE  IInv' /\ Follows(BodyOf(comments'), BodyOf(comments))
    BY <1>3, EffectKeepsInv
  <1>4. CASE UNCHANGED vars
    <2>1. /\ now' = now /\ lock' = lock /\ comments' = comments /\ writer' = writer
          /\ recorded' = recorded /\ ops' = ops /\ faults' = faults
      BY <1>4 DEF vars
    <2>2. /\ TypeInv' /\ LockInv' /\ LeaseInv' /\ KnowInv' /\ CommentsInv' /\ SettledInv'
      BY <2>1 DEF IInv, TypeInv, LockInv, LeaseInv, KnowInv, CommentsInv, SettledInv, Owns, InTime
    <2>3. QED
      BY <1>1, <2>1, <2>2 DEF IInv
  <1>5. QED
    BY <1>2, <1>3, <1>4, WriterSteps DEF Next

LEMMA InvHolds == Spec => []IInv
  <1>1. Init => IInv
    BY InitInv
  <1>2. IInv /\ [Next]_vars => IInv'
    BY NextInv
  <1>3. QED
    BY <1>1, <1>2, PTL DEF Spec

LEMMA InvGives ==
  ASSUME IInv
  PROVE  TypeOK /\ RecordedRowsStay
  <1>1. /\ AreComments(comments) /\ Merged(comments) = BodyOf(comments)
        /\ comments \in Seq(Seq(Row)) /\ DOMAIN comments = 1..Len(comments)
    BY MergedIs, LenProperties DEF IInv, CommentsInv, AreComments
  <1>2. TypeOK
    <2>1. ASSUME NEW i \in DOMAIN comments
          PROVE  comments[i] \in Seq(Row) /\ Len(comments[i]) \in 1..MaxRows
      <3>1. IsTable(comments[i]) /\ comments[i] # <<>>
        BY <1>1 DEF AreComments
      <3>2. comments[i] \in Seq(Row) /\ Len(comments[i]) \in Nat /\ Len(comments[i]) <= MaxRows
        BY <3>1, TableFacts
      <3>3. Len(comments[i]) # 0
        BY <3>1, <3>2, EmptySeq
      <3>4. QED
        BY <3>2, <3>3, Bounds
    <2>2. \A w \in Writers : writer[w].version <= lock.version
      BY DEF IInv, TypeInv
    <2>3. /\ now \in 1..MaxNow /\ ops \in 0..MaxOps /\ faults \in 0..MaxFaults
          /\ lock \in [holder : Writers \cup {None}, version : Nat, expires : Nat]
          /\ recorded \subseteq Deliveries
      BY DEF IInv, TypeInv
    <2>4. QED
      BY <2>1, <2>2, <2>3 DEF TypeOK, Row
  <1>3. RecordedRowsStay
    BY <1>1 DEF IInv, SettledInv, Settled, RecordedRowsStay
  <1>4. QED
    BY <1>2, <1>3

\* Every variable has its type: a comment is never empty, and holds no more rows than it may
\* (domain/formatters/command_audit.py:397), whoever writes it.
THEOREM TypeCorrect == Spec => []TypeOK
  <1>1. IInv => TypeOK
    BY InvGives
  <1>2. QED
    BY <1>1, InvHolds, PTL

\* A row whose writer was told that it is there (platform/github/command_audit.py:206) stays
\* until as many others as the table holds have come: the version fence and the lease keep a
\* writer that was overtaken from writing over it, and a merge leaves it.
THEOREM RecordedRowsAreKept == Spec => []RecordedRowsStay
  <1>1. IInv => RecordedRowsStay
    BY InvGives
  <1>2. QED
    BY <1>1, InvHolds, PTL

\* No writer and no merge takes a row back from "not supported" to "accepted" while it is in
\* the table (append_audit_row and update_audit_row_status under the lock).
THEOREM RefusalsAreKept == Spec => RefusalStays
  <1> DEFINE Kept ==
        \A d \in Deliveries :
          /\ HasRow(Merged(comments), d) /\ HasRow(Merged(comments'), d)
          /\ StatusOf(Merged(comments), d) = "not supported"
          => StatusOf(Merged(comments'), d) = "not supported"
  <1>1. IInv /\ [Next]_vars => Kept
    <2>1. ASSUME IInv, [Next]_vars PROVE Kept
      <3>1. IInv' /\ Follows(BodyOf(comments'), BodyOf(comments))
        BY <2>1, NextInv
      <3>2. AreComments(comments) /\ AreComments(comments')
        BY <2>1, <3>1 DEF IInv, CommentsInv
      <3>3. Merged(comments) = BodyOf(comments)
        BY <3>2, MergedIs
      <3>4. Merged(comments') = BodyOf(comments')
        BY <3>2, MergedIs
      <3>5. QED
        BY <3>1, <3>3, <3>4 DEF Follows
    <2>2. QED
      BY <2>1
  <1>2. IInv /\ [Next]_vars => [Kept]_comments
    BY <1>1
  <1>3. Spec => [][Kept]_comments
    <2> HIDE DEF Kept
    <2>1. QED
      BY <1>2, InvHolds, PTL DEF Spec
  <1>4. QED
    BY <1>3 DEF RefusalStays, Kept

=============================================================================
