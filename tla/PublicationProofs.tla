------------------------- MODULE PublicationProofs -------------------------
(* Commands and Publication, for any folders, pipelines, comments and runs.    *)
(*                                                                             *)
(* First the grammar: what Parse takes for a command and what a command        *)
(* resolves to, by least counterexamples over the places of sequences.  Then   *)
(* what each Lambda writes, as orders between the calls of its script: a call  *)
(* of X is After one of Y, or Never after it, and a script Meets or Avoids a   *)
(* set of calls.  The inductive invariant says of every run what is still in   *)
(* its script, so a step of one run leaves what it says of the others alone.   *)
EXTENDS Publication, WellFoundedInduction, FiniteSetTheorems, TLAPS

(***************************************************************************)
(* Sequences                                                               *)
(***************************************************************************)

\* A set of naturals has a least element: what the inductions below rest on.
LEMMA LeastNat ==
  ASSUME NEW T, T \subseteq Nat, T # {}
  PROVE  \E k \in T : \A l \in T : k <= l
<1>1. PICK k \in T : \A l \in T : ~ (<<l, k>> \in OpToRel(<, Nat))
  BY WFMin, NatLessThanWellFounded, Zenon
<1>2. \A l \in T : ~ (l < k)
  <2>. SUFFICES ASSUME NEW l \in T, l < k PROVE FALSE OBVIOUS
  <2>1. <<l, k>> \in OpToRel(<, Nat) BY Zenon DEF OpToRel
  <2>. QED BY <1>1, <2>1
<1>. QED BY <1>2

\* Where the elements of flat come from: seqs[row[n]][col[n]], each place once, row by row.
Spread(seqs, flat, row, col) ==
  /\ row \in [DOMAIN flat -> DOMAIN seqs] /\ col \in [DOMAIN flat -> Nat]
  /\ \A n \in DOMAIN flat : col[n] \in DOMAIN seqs[row[n]] /\ flat[n] = seqs[row[n]][col[n]]
  /\ \A i \in DOMAIN seqs : \A j \in DOMAIN seqs[i] : \E n \in DOMAIN flat : row[n] = i /\ col[n] = j
  /\ \A m, n \in DOMAIN flat :
       m < n => row[m] < row[n] \/ (row[m] = row[n] /\ col[m] < col[n])

\* h is the function that FlattenSeq computes.
Flattens(seqs, N, h) ==
  h = [i \in 1..N |-> IF i = 1 THEN seqs[i] ELSE h[i - 1] \o seqs[i]]

\* There is such a function.
LEMMA FlattensExists ==
  ASSUME NEW seqs, NEW N \in Nat PROVE \E h : Flattens(seqs, N, h)
<1>. DEFINE T == {n \in Nat : ~ \E h : Flattens(seqs, n, h)}
<1>. SUFFICES ASSUME T # {} PROVE FALSE OBVIOUS
<1>1. PICK k \in T : \A l \in T : k <= l BY LeastNat
<1>2. k # 0
  <2>1. Flattens(seqs, 0, [i \in 1..0 |-> <<>>]) BY DEF Flattens
  <2>. QED BY <2>1
<1>3. k - 1 \in Nat /\ k - 1 \notin T BY <1>1, <1>2
<1>4. PICK h : Flattens(seqs, k - 1, h) BY <1>3
<1>. DEFINE x == IF k = 1 THEN seqs[k] ELSE h[k - 1] \o seqs[k]
            g == [i \in 1..k |-> IF i = k THEN x ELSE h[i]]
<1>5. \A i \in 1..k : i # k => i \in 1..(k - 1) BY <1>3
<1>6. \A i \in 1..(k - 1) : h[i] = IF i = 1 THEN seqs[i] ELSE h[i - 1] \o seqs[i]
  BY <1>4 DEF Flattens
<1>7. \A i \in 1..k : g[i] = IF i = 1 THEN seqs[i] ELSE g[i - 1] \o seqs[i]
  <2>. TAKE i \in 1..k
  <2>1. i # 1 => i - 1 \in 1..k /\ i - 1 # k /\ i - 1 \in 1..(k - 1) BY <1>3
  <2>2. i # 1 => g[i - 1] = h[i - 1] BY <2>1
  <2>3. g[i] = IF i = k THEN x ELSE h[i] OBVIOUS
  <2>. QED BY <2>2, <2>3, <1>5, <1>6
<1>8. Flattens(seqs, k, g)
  <2>1. g = [i \in 1..k |-> g[i]] OBVIOUS
  <2>. HIDE DEF g
  <2>. QED BY <2>1, <1>7, Zenon DEF Flattens
<1>. QED BY <1>8, <1>1

\* One more row.
LEMMA SpreadMore ==
  ASSUME NEW S, NEW seqs, NEW k \in Nat, k > 1, NEW a \in Seq(S), seqs[k] \in Seq(S),
         NEW row, NEW col, Spread([i \in 1..(k - 1) |-> seqs[i]], a, row, col)
  PROVE  \E row2, col2 : Spread([i \in 1..k |-> seqs[i]], a \o seqs[k], row2, col2)
<1>1. PICK b \in Seq(S) : b = seqs[k] OBVIOUS
<1>2. PICK c \in Seq(S) : c = a \o b
  <2>1. a \o b \in Seq(S) OBVIOUS
  <2>. QED BY <2>1
<1>3. /\ Len(a) \in Nat /\ Len(b) \in Nat /\ DOMAIN a = 1..Len(a) /\ DOMAIN b = 1..Len(b)
      /\ DOMAIN c = 1..(Len(a) + Len(b))
  BY <1>2
<1>4. \A m \in 1..Len(a) : c[m] = a[m] BY <1>2
<1>5. \A m \in 1..Len(b) : c[Len(a) + m] = b[m] BY <1>2
<1>. DEFINE row2 == [m \in 1..(Len(a) + Len(b)) |-> IF m <= Len(a) THEN row[m] ELSE k]
            col2 == [m \in 1..(Len(a) + Len(b)) |-> IF m <= Len(a) THEN col[m] ELSE m - Len(a)]
            upto == [i \in 1..k |-> seqs[i]]
<1>6. \A i \in 1..(k - 1) : [j \in 1..(k - 1) |-> seqs[j]][i] = seqs[i] /\ upto[i] = seqs[i] OBVIOUS
<1>7. DOMAIN [j \in 1..(k - 1) |-> seqs[j]] = 1..(k - 1) /\ DOMAIN upto = 1..k /\ upto[k] = b BY <1>1
<1>8. row \in [1..Len(a) -> 1..(k - 1)] /\ col \in [1..Len(a) -> Nat]
  BY <1>3, <1>7, Zenon DEF Spread
<1>9. \A m \in 1..Len(a) : col[m] \in DOMAIN seqs[row[m]] /\ a[m] = seqs[row[m]][col[m]]
  BY <1>3, <1>6, <1>8, Zenon DEF Spread
<1>10. \A i \in 1..(k - 1) : \A j \in DOMAIN seqs[i] : \E m \in 1..Len(a) : row[m] = i /\ col[m] = j
  <2>. DEFINE sub == [j \in 1..(k - 1) |-> seqs[j]]
  <2>1. \A i \in DOMAIN sub : \A j \in DOMAIN sub[i] : \E m \in DOMAIN a : row[m] = i /\ col[m] = j
    BY Zenon DEF Spread
  <2>2. DOMAIN sub = 1..(k - 1) /\ \A i \in 1..(k - 1) : sub[i] = seqs[i] BY <1>6, <1>7
  <2>. HIDE DEF sub
  <2>3. SUFFICES ASSUME NEW i \in 1..(k - 1), NEW j \in DOMAIN seqs[i]
        PROVE  \E m \in 1..Len(a) : row[m] = i /\ col[m] = j
    OBVIOUS
  <2>4. i \in DOMAIN sub /\ j \in DOMAIN sub[i] BY <2>2
  <2>5. \E m \in DOMAIN a : row[m] = i /\ col[m] = j BY <2>1, <2>4, Zenon
  <2>. QED BY <2>5, <1>3, Zenon
<1>11. \A m, p \in 1..Len(a) : m < p => row[m] < row[p] \/ (row[m] = row[p] /\ col[m] < col[p])
  BY <1>3, Zenon DEF Spread
<1>12. \A m \in 1..Len(a) : m \in DOMAIN c /\ row2[m] = row[m] /\ col2[m] = col[m] BY <1>3
<1>13. \A m \in DOMAIN c : m \notin 1..Len(a) =>
         row2[m] = k /\ col2[m] = m - Len(a) /\ m - Len(a) \in 1..Len(b) /\ c[m] = b[m - Len(a)]
  BY <1>3, <1>5
<1>14. DOMAIN row2 = DOMAIN c /\ DOMAIN col2 = DOMAIN c BY <1>3
<1>. HIDE DEF upto
<1>15. row2 \in [DOMAIN c -> 1..k] /\ col2 \in [DOMAIN c -> Nat] BY <1>3, <1>8
<1>. HIDE DEF row2, col2
<1>16. ASSUME NEW m \in DOMAIN c PROVE col2[m] \in DOMAIN upto[row2[m]] /\ c[m] = upto[row2[m]][col2[m]]
  <2>1. CASE m \in 1..Len(a)
    <3>1. row[m] \in 1..(k - 1) BY <2>1, <1>8
    <3>2. row2[m] = row[m] /\ col2[m] = col[m] /\ upto[row[m]] = seqs[row[m]] BY <2>1, <3>1, <1>12, <1>6
    <3>. QED BY <2>1, <3>2, <1>9, <1>4
  <2>2. CASE m \notin 1..Len(a)
    BY <2>2, <1>13, <1>7, <1>3, Zenon
  <2>. QED BY <2>1, <2>2
<1>17. ASSUME NEW i \in 1..k, NEW j \in DOMAIN upto[i]
       PROVE  \E m \in DOMAIN c : row2[m] = i /\ col2[m] = j
  <2>1. CASE i = k
    <3>1. j \in 1..Len(b) BY <2>1, <1>7, <1>3
    <3>2. \E m \in 1..(Len(a) + Len(b)) : m \notin 1..Len(a) /\ m - Len(a) = j
      <4>1. j \in 1..Len(b) /\ Len(a) \in Nat /\ Len(b) \in Nat BY <3>1, <1>3
      <4>2. Len(a) + j \in 1..(Len(a) + Len(b)) BY <4>1
      <4>3. Len(a) + j \notin 1..Len(a) /\ (Len(a) + j) - Len(a) = j BY <4>1
      <4>. QED BY <4>2, <4>3
    <3>3. PICK m \in DOMAIN c : m \notin 1..Len(a) /\ m - Len(a) = j BY <3>2, <1>3
    <3>. QED BY <3>3, <2>1, <1>13, Zenon
  <2>2. CASE i # k
    <3>1. i \in 1..(k - 1) BY <2>2
    <3>2. j \in DOMAIN seqs[i] BY <3>1, <1>6
    <3>3. PICK m \in 1..Len(a) : row[m] = i /\ col[m] = j BY <3>1, <3>2, <1>10, Zenon
    <3>. QED BY <3>3, <1>12, Zenon
  <2>. QED BY <2>1, <2>2
<1>18. ASSUME NEW m \in DOMAIN c, NEW p \in DOMAIN c, m < p
       PROVE  row2[m] < row2[p] \/ (row2[m] = row2[p] /\ col2[m] < col2[p])
  <2>1. CASE p \in 1..Len(a)
    <3>1. m \in 1..Len(a) BY <2>1, <1>18, <1>3
    <3>. QED BY <2>1, <3>1, <1>11, <1>12, <1>18, Zenon
  <2>2. CASE p \notin 1..Len(a) /\ m \in 1..Len(a)
    BY <2>2, <1>12, <1>13, <1>8
  <2>3. CASE p \notin 1..Len(a) /\ m \notin 1..Len(a)
    BY <2>3, <1>13, <1>18, <1>3
  <2>. QED BY <2>1, <2>2, <2>3
<1>19. Spread(upto, c, row2, col2)
  <2>1. DOMAIN upto = 1..k BY <1>7
  <2>2. \A i \in DOMAIN upto : \A j \in DOMAIN upto[i] : \E m \in DOMAIN c : row2[m] = i /\ col2[m] = j
    BY <2>1, <1>17
  <2>3. row2 \in [DOMAIN c -> DOMAIN upto] BY <2>1, <1>15
  <2>. QED BY <2>2, <2>3, <1>15, <1>16, <1>18, Zenon DEF Spread
<1>. QED BY <1>19, <1>1, <1>2, Zenon DEF upto

\* What it computes, for the first n rows.
LEMMA FlattensSpread ==
  ASSUME NEW S, NEW seqs \in Seq(Seq(S)), NEW h, Flattens(seqs, Len(seqs), h),
         NEW n \in 1..Len(seqs)
  PROVE  /\ h[n] \in Seq(S)
         /\ \E row, col : Spread([i \in 1..n |-> seqs[i]], h[n], row, col)
<1>. DEFINE P(k) == /\ h[k] \in Seq(S)
                    /\ \E row, col : Spread([i \in 1..k |-> seqs[i]], h[k], row, col)
            T == {k \in 1..Len(seqs) : ~ P(k)}
<1>. SUFFICES ASSUME T # {} PROVE FALSE OBVIOUS
<1>1. PICK k \in T : \A l \in T : k <= l
  <2>1. T \subseteq Nat OBVIOUS
  <2>. HIDE DEF T
  <2>. QED BY <2>1, LeastNat
<1>2. k \in 1..Len(seqs) /\ ~ P(k) OBVIOUS
<1>. HIDE DEF P
<1>3. h[k] = IF k = 1 THEN seqs[k] ELSE h[k - 1] \o seqs[k] BY <1>2 DEF Flattens
<1>4. seqs[k] \in Seq(S) BY <1>2
<1>5. CASE k = 1
  <2>1. Spread([i \in 1..k |-> seqs[i]], h[k], [j \in DOMAIN seqs[1] |-> 1], [j \in DOMAIN seqs[1] |-> j])
    BY <1>3, <1>4, <1>5 DEF Spread
  <2>. QED BY <2>1, <1>2, <1>3, <1>4, <1>5 DEF P
<1>6. CASE k # 1
  <2>1. k - 1 \in 1..Len(seqs) /\ ~ (k <= k - 1) /\ k > 1 /\ k \in Nat BY <1>2, <1>6
  <2>2. P(k - 1) BY <2>1, <1>1
  <2>3. PICK row, col : Spread([i \in 1..(k - 1) |-> seqs[i]], h[k - 1], row, col) BY <2>2 DEF P
  <2>4. h[k - 1] \in Seq(S) BY <2>2 DEF P
  <2>5. \E row2, col2 : Spread([i \in 1..k |-> seqs[i]], h[k - 1] \o seqs[k], row2, col2)
    BY <2>1, <2>3, <2>4, <1>4, SpreadMore
  <2>6. h[k] = h[k - 1] \o seqs[k] BY <1>3, <1>6
  <2>7. h[k] \in Seq(S) BY <2>4, <2>6, <1>4
  <2>. QED BY <2>5, <2>6, <2>7, <1>2 DEF P
<1>. QED BY <1>5, <1>6

\* FlattenSeq lists what its rows list, row by row.
LEMMA FlattenSpread ==
  ASSUME NEW S, NEW seqs \in Seq(Seq(S))
  PROVE  /\ FlattenSeq(seqs) \in Seq(S)
         /\ \E row, col : Spread(seqs, FlattenSeq(seqs), row, col)
<1>1. CASE Len(seqs) = 0
  <2>1. FlattenSeq(seqs) = <<>> /\ seqs = <<>> BY <1>1 DEF FlattenSeq
  <2>2. Spread(<<>>, <<>>, <<>>, <<>>) BY DEF Spread
  <2>. QED BY <2>1, <2>2
<1>2. CASE Len(seqs) # 0
  <2>1. PICK g : Flattens(seqs, Len(seqs), g)
    <3>1. Len(seqs) \in Nat OBVIOUS
    <3>. QED BY <3>1, FlattensExists
  <2>. DEFINE N == Len(seqs)
  <2>2. PICK h : Flattens(seqs, Len(seqs), h) /\ FlattenSeq(seqs) = h[Len(seqs)]
    BY <1>2, <2>1 DEF Flattens, FlattenSeq
  <2>3. N \in 1..Len(seqs) BY <1>2
  <2>4. [i \in 1..N |-> seqs[i]] = seqs OBVIOUS
  <2>. QED BY <2>2, <2>3, <2>4, FlattensSpread
<1>. QED BY <1>1, <1>2

\* The elements of a sequence at some of its places, in their order: flat[n] is s[at[n]].
AtPlaces(s, K) == FlattenSeq([i \in DOMAIN s |-> IF i \in K THEN <<s[i]>> ELSE <<>>])

Places(s, K, flat, at) ==
  /\ at \in [DOMAIN flat -> K]
  /\ \A n \in DOMAIN flat : flat[n] = s[at[n]]
  /\ \A k \in K : \E n \in DOMAIN flat : at[n] = k
  /\ \A m, n \in DOMAIN flat : m < n => at[m] < at[n]

LEMMA SomePlaces ==
  ASSUME NEW S, NEW s \in Seq(S), NEW K, K \subseteq DOMAIN s
  PROVE  AtPlaces(s, K) \in Seq(S) /\ \E at : Places(s, K, AtPlaces(s, K), at)
<1>. DEFINE seqs == [i \in DOMAIN s |-> IF i \in K THEN <<s[i]>> ELSE <<>>]
            flat == FlattenSeq(seqs)
<1>1. seqs \in Seq(Seq(S))
  <2>1. \A i \in DOMAIN s : <<s[i]>> \in Seq(S) /\ <<>> \in Seq(S) OBVIOUS
  <2>2. Len(s) \in Nat /\ DOMAIN s = 1..Len(s) OBVIOUS
  <2>. QED BY <2>1, <2>2
<1>2. DOMAIN seqs = DOMAIN s /\ \A i \in DOMAIN s : seqs[i] = IF i \in K THEN <<s[i]>> ELSE <<>> OBVIOUS
<1>. HIDE DEF seqs
<1>3. \A i \in K : DOMAIN seqs[i] = {1} /\ seqs[i][1] = s[i] BY <1>2
<1>4. \A i \in DOMAIN s : i \notin K => DOMAIN seqs[i] = {} BY <1>2
<1>5. flat \in Seq(S) /\ \E row, col : Spread(seqs, flat, row, col)  BY <1>1, FlattenSpread
<1>. HIDE DEF flat
<1>6. PICK row, col : Spread(seqs, flat, row, col) BY <1>5
<1>7. \A n \in DOMAIN flat : row[n] \in DOMAIN s /\ col[n] \in DOMAIN seqs[row[n]] /\ flat[n] = seqs[row[n]][col[n]]
  BY <1>6, <1>2 DEF Spread
<1>8. \A n \in DOMAIN flat : row[n] \in K /\ col[n] = 1 /\ flat[n] = s[row[n]] BY <1>7, <1>3, <1>4
<1>9. row \in [DOMAIN flat -> K] BY <1>6, <1>8 DEF Spread
<1>10. \A k \in K : \E n \in DOMAIN flat : row[n] = k
  <2>. TAKE k \in K
  <2>1. k \in DOMAIN seqs /\ 1 \in DOMAIN seqs[k] BY <1>2, <1>3
  <2>. QED BY <2>1, <1>6, Zenon DEF Spread
<1>11. \A m, n \in DOMAIN flat : m < n => row[m] < row[n] BY <1>6, <1>8 DEF Spread
<1>12. Places(s, K, flat, row) BY <1>8, <1>9, <1>10, <1>11 DEF Places
<1>13. AtPlaces(s, K) = flat BY DEF flat, seqs, AtPlaces
<1>. QED BY <1>5, <1>12, <1>13

\* Selected keeps the elements of the set, each as often as it was there.
LEMMA SelectedIs ==
  ASSUME NEW S, NEW s \in Seq(S), NEW X
  PROVE  /\ Selected(s, X) \in Seq(S)
         /\ ToSet(Selected(s, X)) = ToSet(s) \intersect X
         /\ IsInjective(s) => IsInjective(Selected(s, X))
<1>. DEFINE K == {i \in DOMAIN s : s[i] \in X}
            flat == AtPlaces(s, K)
<1>1. K \subseteq DOMAIN s OBVIOUS
<1>2. \A i \in DOMAIN s : s[i] \in X <=> i \in K OBVIOUS
<1>3. Selected(s, X) = flat BY <1>2 DEF Selected, AtPlaces
<1>. HIDE DEF K
<1>4. flat \in Seq(S) /\ \E at : Places(s, K, flat, at) BY <1>1, SomePlaces
<1>. HIDE DEF flat
<1>5. PICK at : Places(s, K, flat, at) BY <1>4
<1>. USE DEF Places
<1>6. \A n \in DOMAIN flat : at[n] \in DOMAIN s /\ s[at[n]] \in X BY <1>5, <1>1, <1>2
<1>7. ToSet(flat) = ToSet(s) \intersect X BY <1>1, <1>2, <1>5, <1>6 DEF ToSet
<1>8. ASSUME IsInjective(s) PROVE IsInjective(flat)
  <2>. SUFFICES ASSUME NEW m \in DOMAIN flat, NEW n \in DOMAIN flat, flat[m] = flat[n] PROVE m = n
    BY Zenon DEF IsInjective
  <2>1. at[m] = at[n] BY <1>5, <1>6, <1>8 DEF IsInjective
  <2>2. m \in Nat /\ n \in Nat BY <1>4
  <2>3. at[m] \in Nat BY <1>6
  <2>. QED BY <2>1, <2>2, <2>3, <1>5
<1>. QED BY <1>3, <1>4, <1>7, <1>8

\* Selecting all leaves the sequence as it is, selecting none leaves nothing.
LEMMA SelectedNone ==
  ASSUME NEW S, NEW s \in Seq(S), NEW X
  PROVE  Selected(s, X) = <<>> <=> ToSet(s) \intersect X = {}
<1>1. Selected(s, X) \in Seq(S) /\ ToSet(Selected(s, X)) = ToSet(s) \intersect X BY SelectedIs
<1>2. PICK t \in Seq(S) : t = Selected(s, X) BY <1>1
<1>3. t = <<>> <=> ToSet(t) = {}
  <2>1. t # <<>> => t[1] \in ToSet(t) BY DEF ToSet
  <2>2. t = <<>> => ToSet(t) = {} BY DEF ToSet
  <2>. QED BY <2>1, <2>2
<1>. QED BY <1>1, <1>2, <1>3

\* Distinct keeps each folder once.
LEMMA DistinctIs ==
  ASSUME NEW S, NEW s \in Seq(S)
  PROVE  Distinct(s) \in Seq(S) /\ ToSet(Distinct(s)) = ToSet(s) /\ IsInjective(Distinct(s))
<1>. DEFINE K == {i \in DOMAIN s : \A j \in 1..(i - 1) : s[j] # s[i]}
            flat == AtPlaces(s, K)
<1>1. K \subseteq DOMAIN s OBVIOUS
<1>2. \A i \in DOMAIN s : (\A j \in 1..(i - 1) : s[j] # s[i]) <=> i \in K OBVIOUS
<1>3. Distinct(s) = flat BY <1>2 DEF Distinct, AtPlaces
<1>4. ASSUME NEW i \in DOMAIN s PROVE \E k \in K : s[k] = s[i]
  <2>. DEFINE T == {j \in DOMAIN s : s[j] = s[i]}
  <2>1. T \subseteq Nat /\ i \in T OBVIOUS
  <2>2. T # {} BY <2>1
  <2>. HIDE DEF T
  <2>3. PICK k \in T : \A l \in T : k <= l BY <2>1, <2>2, LeastNat
  <2>4. k \in DOMAIN s /\ s[k] = s[i] BY <2>3 DEF T
  <2>5. \A j \in 1..(k - 1) : j \in DOMAIN s /\ ~ (k <= j) BY <2>4
  <2>6. \A j \in 1..(k - 1) : s[j] # s[k] BY <2>3, <2>4, <2>5 DEF T
  <2>. QED BY <2>4, <2>6
<1>5. ASSUME NEW k \in K, NEW l \in K, s[k] = s[l] PROVE k = l
  <2>1. k \in Nat /\ l \in Nat /\ k >= 1 /\ l >= 1 OBVIOUS
  <2>2. k < l => k \in 1..(l - 1) BY <2>1
  <2>3. l < k => l \in 1..(k - 1) BY <2>1
  <2>. QED BY <2>1, <2>2, <2>3, <1>5
<1>. HIDE DEF K
<1>6. flat \in Seq(S) /\ \E at : Places(s, K, flat, at) BY <1>1, SomePlaces
<1>. HIDE DEF flat
<1>7. PICK at : Places(s, K, flat, at) BY <1>6
<1>. USE DEF Places
<1>8. ToSet(flat) = ToSet(s) BY <1>1, <1>4, <1>7 DEF ToSet
<1>9. ASSUME NEW m \in DOMAIN flat, NEW n \in DOMAIN flat, flat[m] = flat[n] PROVE m = n
  <2>1. at[m] = at[n] BY <1>5, <1>7, <1>9
  <2>2. m \in Nat /\ n \in Nat BY <1>6
  <2>3. at[m] \in Nat BY <1>7, <1>1
  <2>. QED BY <2>1, <2>2, <2>3, <1>7
<1>. QED BY <1>3, <1>6, <1>8, <1>9 DEF IsInjective

\* The elements of a flattened sequence.
LEMMA SpreadSet ==
  ASSUME NEW seqs, NEW flat, NEW row, NEW col, Spread(seqs, flat, row, col)
  PROVE  \A x : x \in ToSet(flat) <=> \E i \in DOMAIN seqs : x \in ToSet(seqs[i])
<1>2. \A n \in DOMAIN flat : row[n] \in DOMAIN seqs /\ col[n] \in DOMAIN seqs[row[n]] /\ flat[n] = seqs[row[n]][col[n]]
  BY DEF Spread
<1>3. \A i \in DOMAIN seqs : \A j \in DOMAIN seqs[i] : \E n \in DOMAIN flat : row[n] = i /\ col[n] = j
  BY DEF Spread
<1>4. ASSUME NEW x \in ToSet(flat) PROVE \E i \in DOMAIN seqs : x \in ToSet(seqs[i]) BY <1>2 DEF ToSet
<1>5. ASSUME NEW i \in DOMAIN seqs, NEW x \in ToSet(seqs[i]) PROVE x \in ToSet(flat)
  <2>1. PICK j \in DOMAIN seqs[i] : seqs[i][j] = x BY DEF ToSet
  <2>2. PICK n \in DOMAIN flat : row[n] = i /\ col[n] = j BY <1>3
  <2>3. flat[n] = x BY <1>2, <2>1, <2>2
  <2>. QED BY <2>3 DEF ToSet
<1>. QED BY <1>4, <1>5

LEMMA FlattenRange ==
  ASSUME NEW S, NEW seqs \in Seq(Seq(S))
  PROVE  ToSet(FlattenSeq(seqs)) = UNION {ToSet(seqs[i]) : i \in DOMAIN seqs}
<1>0. PICK flat \in Seq(S) : flat = FlattenSeq(seqs) /\ \E row, col : Spread(seqs, flat, row, col)
  BY FlattenSpread
<1>1. PICK row, col : flat = FlattenSeq(seqs) /\ Spread(seqs, flat, row, col) BY <1>0
<1>2. \A x : x \in ToSet(flat) <=> \E i \in DOMAIN seqs : x \in ToSet(seqs[i])
  BY <1>1, SpreadSet, Zenon
<1>. QED BY <1>1, <1>2

\* No element of a flattened sequence is there twice if no row has one twice and no two rows share one.
Disjointly(seqs) ==
  \A i, k \in DOMAIN seqs : \A j \in DOMAIN seqs[i], l \in DOMAIN seqs[k] :
    seqs[i][j] = seqs[k][l] => i = k /\ j = l

LEMMA FlattenInjective ==
  ASSUME NEW S, NEW seqs \in Seq(Seq(S))
  PROVE  IsInjective(FlattenSeq(seqs)) <=> Disjointly(seqs)
<1>0. PICK flat \in Seq(S) : flat = FlattenSeq(seqs) /\ \E row, col : Spread(seqs, flat, row, col)
  BY FlattenSpread
<1>1. PICK row, col : flat = FlattenSeq(seqs) /\ Spread(seqs, flat, row, col) BY <1>0
<1>2. \A n \in DOMAIN flat : row[n] \in DOMAIN seqs /\ col[n] \in DOMAIN seqs[row[n]] /\ flat[n] = seqs[row[n]][col[n]]
  BY <1>1 DEF Spread
<1>3. ASSUME Disjointly(seqs), NEW m \in DOMAIN flat, NEW n \in DOMAIN flat, flat[m] = flat[n] PROVE m = n
  <2>1. row[m] = row[n] /\ col[m] = col[n] BY <1>2, <1>3 DEF Disjointly
  <2>2. m \in Nat /\ n \in Nat /\ row[m] \in Nat /\ col[m] \in Nat BY <1>2
  <2>3. \A p, q \in DOMAIN flat : p < q => row[p] < row[q] \/ (row[p] = row[q] /\ col[p] < col[q])
    BY <1>1, Zenon DEF Spread
  <2>4. ~ (m < n) /\ ~ (n < m) BY <2>1, <2>2, <2>3
  <2>. QED BY <2>2, <2>4
<1>4. ASSUME IsInjective(flat), NEW i \in DOMAIN seqs, NEW k \in DOMAIN seqs,
             NEW j \in DOMAIN seqs[i], NEW l \in DOMAIN seqs[k], seqs[i][j] = seqs[k][l]
      PROVE  i = k /\ j = l
  <2>1. PICK m \in DOMAIN flat : row[m] = i /\ col[m] = j BY <1>1 DEF Spread
  <2>2. PICK n \in DOMAIN flat : row[n] = k /\ col[n] = l BY <1>1 DEF Spread
  <2>3. flat[m] = flat[n] BY <1>2, <1>4, <2>1, <2>2
  <2>4. m = n BY <2>3, <1>4 DEF IsInjective
  <2>. QED BY <2>1, <2>2, <2>4
<1>. QED BY <1>1, <1>3, <1>4, Zenon DEF IsInjective, Disjointly

\* What is in an earlier row comes first.
LEMMA FlattenOrder ==
  ASSUME NEW S, NEW seqs \in Seq(Seq(S)), Disjointly(seqs),
         NEW i \in DOMAIN seqs, NEW k \in DOMAIN seqs, i < k,
         NEW x \in ToSet(seqs[i]), NEW y \in ToSet(seqs[k]),
         NEW m \in DOMAIN FlattenSeq(seqs), FlattenSeq(seqs)[m] = x,
         NEW n \in DOMAIN FlattenSeq(seqs), FlattenSeq(seqs)[n] = y
  PROVE  m < n
<1>0. PICK flat \in Seq(S) : flat = FlattenSeq(seqs) /\ \E row, col : Spread(seqs, flat, row, col)
  BY FlattenSpread
<1>1. PICK row, col : flat = FlattenSeq(seqs) /\ Spread(seqs, flat, row, col) BY <1>0
<1>2. \A p \in DOMAIN flat : row[p] \in DOMAIN seqs /\ col[p] \in DOMAIN seqs[row[p]] /\ flat[p] = seqs[row[p]][col[p]]
  BY <1>1 DEF Spread
<1>3. PICK j \in DOMAIN seqs[i] : seqs[i][j] = x BY DEF ToSet
<1>4. PICK l \in DOMAIN seqs[k] : seqs[k][l] = y BY DEF ToSet
<1>5. m \in DOMAIN flat /\ n \in DOMAIN flat /\ flat[m] = x /\ flat[n] = y BY <1>1
<1>6. row[m] = i
  <2>1. seqs[row[m]][col[m]] = seqs[i][j] /\ row[m] \in DOMAIN seqs /\ col[m] \in DOMAIN seqs[row[m]]
    BY <1>2, <1>3, <1>5
  <2>. QED BY <2>1 DEF Disjointly
<1>7. row[n] = k
  <2>1. seqs[row[n]][col[n]] = seqs[k][l] /\ row[n] \in DOMAIN seqs /\ col[n] \in DOMAIN seqs[row[n]]
    BY <1>2, <1>4, <1>5
  <2>. QED BY <2>1 DEF Disjointly
<1>8. m \in Nat /\ n \in Nat /\ i \in Nat /\ k \in Nat BY <1>5
<1>9. n < m => row[n] < row[m] \/ row[n] = row[m] BY <1>1, <1>5, Zenon DEF Spread
<1>. QED BY <1>6, <1>7, <1>8, <1>9

\* Comma lists of names, of any letters and the words of the grammar.
Letters == STRING \union Tokens \union
  {"tf", "plan", "report", "apply", "destroy", "drift", "--destroy", "pipeline", "confirm", "step", "1", "2"}
TokenSeqs == Seq(Seq(Letters) \ {<<>>}) \ {<<>>}

LEMMA WordsDiffer ==
  /\ \A a, b : W(a) = W(b) <=> a = b
  /\ \A a : W(a)[1][1] = a /\ W(a)[1] = <<a>> /\ Len(W(a)) = 1 /\ W(a) # <<>> /\ W(a) = <<<<a>>>>
<1>1. \A a : <<<<a>>>>[1][1] = a /\ <<<<a>>>>[1] = <<a>> /\ Len(<<<<a>>>>) = 1 /\ <<<<a>>>> # <<>> OBVIOUS
<1>2. \A a, b : <<<<a>>>> = <<<<b>>>> <=> a = b
  <2>. SUFFICES ASSUME NEW a, NEW b, <<<<a>>>> = <<<<b>>>> PROVE a = b OBVIOUS
  <2>1. <<<<a>>>>[1][1] = <<<<b>>>>[1][1] OBVIOUS
  <2>. QED BY <2>1, <1>1
<1>. QED BY <1>1, <1>2 DEF W

LEMMA RestOf ==
  ASSUME NEW S, NEW t \in Seq(S), Len(t) >= 2
  PROVE  LET r == SubSeq(t, 3, Len(t))
         IN  r \in Seq(S) /\ Len(r) = Len(t) - 2 /\ \A i \in 1..Len(r) : r[i] = t[i + 2]
<1>1. Len(t) \in Nat OBVIOUS
<1>2. \A i \in 3..Len(t) : t[i] \in S BY <1>1
<1>3. SubSeq(t, 3, Len(t)) \in Seq(S) /\ Len(SubSeq(t, 3, Len(t))) = Len(t) - 2
  <2>1. CASE Len(t) = 2 BY <2>1
  <2>2. CASE Len(t) > 2 BY <2>2, <1>1, <1>2
  <2>3. PICK n \in Nat : n = Len(t) /\ n >= 2 BY <1>1
  <2>4. n = 2 \/ n > 2 BY <2>3
  <2>. QED BY <2>1, <2>2, <2>3, <2>4
<1>4. \A i \in 1..(Len(t) - 2) : SubSeq(t, 3, Len(t))[i] = t[i + 2] BY <1>1
<1>. QED BY <1>3, <1>4

LEMMA TailOf ==
  ASSUME NEW S, NEW t \in Seq(S), t # <<>>
  PROVE  Tail(t) \in Seq(S) /\ Len(Tail(t)) = Len(t) - 1 /\ \A i \in 1..Len(Tail(t)) : Tail(t)[i] = t[i + 1]
OBVIOUS

LEMMA Literals ==
  ASSUME NEW S, NEW t \in Seq(S)
  PROVE  /\ Len(t) = 0 => t = <<>>
         /\ Len(t) = 2 => t = <<t[1], t[2]>>
         /\ Len(t) = 3 => t = <<t[1], t[2], t[3]>>
         /\ Len(t) = 4 => t = <<t[1], t[2], t[3], t[4]>>
         /\ Len(t) = 5 => t = <<t[1], t[2], t[3], t[4], t[5]>>
         /\ Len(t) = 6 => t = <<t[1], t[2], t[3], t[4], t[5], t[6]>>
<1>2. ASSUME Len(t) = 2 PROVE t = <<t[1], t[2]>> BY <1>2
<1>3. ASSUME Len(t) = 3 PROVE t = <<t[1], t[2], t[3]>> BY <1>3
<1>4. ASSUME Len(t) = 4 PROVE t = <<t[1], t[2], t[3], t[4]>> BY <1>4
<1>5. ASSUME Len(t) = 5 PROVE t = <<t[1], t[2], t[3], t[4], t[5]>> BY <1>5
<1>6. ASSUME Len(t) = 6 PROVE t = <<t[1], t[2], t[3], t[4], t[5], t[6]>> BY <1>6
<1>7. Len(t) = 0 => t = <<>> OBVIOUS
<1>. QED BY <1>2, <1>3, <1>4, <1>5, <1>6, <1>7

LEMMA Appended ==
  ASSUME NEW S, NEW p \in Seq(S), NEW q \in Seq(S)
  PROVE  /\ p \o q \in Seq(S) /\ Len(p \o q) = Len(p) + Len(q)
         /\ \A i \in 1..Len(p) : (p \o q)[i] = p[i]
         /\ \A i \in 1..Len(q) : (p \o q)[Len(p) + i] = q[i]
<1>1. p \o q \in Seq(S) /\ Len(p \o q) = Len(p) + Len(q) /\ Len(p) \in Nat /\ Len(q) \in Nat OBVIOUS
<1>2. \A i \in 1..(Len(p) + Len(q)) : (p \o q)[i] = IF i <= Len(p) THEN p[i] ELSE q[i - Len(p)] OBVIOUS
<1>3. \A i \in 1..Len(p) : i \in 1..(Len(p) + Len(q)) /\ i <= Len(p) BY <1>1
<1>4. \A i \in 1..Len(q) : Len(p) + i \in 1..(Len(p) + Len(q)) /\ ~ (Len(p) + i <= Len(p)) /\ (Len(p) + i) - Len(p) = i
  BY <1>1
<1>5. \A i \in 1..Len(p) : (p \o q)[i] = p[i] BY <1>2, <1>3
<1>6. \A i \in 1..Len(q) : (p \o q)[Len(p) + i] = q[i]
  <2>. TAKE i \in 1..Len(q)
  <2>1. Len(p) + i \in 1..(Len(p) + Len(q)) /\ ~ (Len(p) + i <= Len(p)) /\ (Len(p) + i) - Len(p) = i BY <1>4
  <2>. QED BY <2>1, <1>2
<1>. QED BY <1>1, <1>5, <1>6

LEMMA Joined ==
  /\ \A a, b : <<a, b>> \o <<>> = <<a, b>>
  /\ \A a, b, c : <<a, b, c>> \o <<>> = <<a, b, c>>
  /\ \A a, b, c : <<a, b>> \o <<c>> = <<a, b, c>>
  /\ \A a, b, c, d : <<a, b, c>> \o <<d>> = <<a, b, c, d>>
  /\ \A a, b, c, d : <<a, b>> \o <<c, d>> = <<a, b, c, d>>
  /\ \A a, b, c, d, e : <<a, b, c>> \o <<d, e>> = <<a, b, c, d, e>>
  /\ \A a, b, c, d, e, f : <<a, b, c, d>> \o <<e, f>> = <<a, b, c, d, e, f>>
<1>1. \A a, b : <<a, b>> \o <<>> = <<a, b>> OBVIOUS
<1>2. \A a, b, c : <<a, b, c>> \o <<>> = <<a, b, c>> OBVIOUS
<1>3. ASSUME NEW a, NEW b, NEW c PROVE <<a, b>> \o <<c>> = <<a, b, c>>
  <2>. DEFINE S == {a, b, c}
  <2>1. PICK p \in Seq(S) : p = <<a, b>> /\ Len(p) = 2 /\ p[1] = a /\ p[2] = b
    <3>1. <<a, b>> \in Seq(S) /\ Len(<<a, b>>) = 2 /\ <<a, b>>[1] = a /\ <<a, b>>[2] = b OBVIOUS
    <3>. QED BY <3>1
  <2>2. PICK q \in Seq(S) : q = <<c>> /\ Len(q) = 1 /\ q[1] = c
    <3>1. <<c>> \in Seq(S) /\ Len(<<c>>) = 1 /\ <<c>>[1] = c OBVIOUS
    <3>. QED BY <3>1
  <2>3. PICK x \in Seq(S) : /\ x = p \o q /\ Len(x) = Len(p) + Len(q)
                             /\ \A i \in 1..Len(p) : x[i] = p[i]
                             /\ \A j \in 1..Len(q) : x[Len(p) + j] = q[j]
    <3>1. p \o q \in Seq(S) BY Appended
    <3>2. Len(p \o q) = Len(p) + Len(q) BY Appended
    <3>3. \A i \in 1..Len(p) : (p \o q)[i] = p[i] BY Appended
    <3>4. \A i \in 1..Len(q) : (p \o q)[Len(p) + i] = q[i] BY Appended
    <3>5. PICK y : y = p \o q OBVIOUS
    <3>. QED BY <3>1, <3>2, <3>3, <3>4, <3>5
  <2>4. Len(x) = 3 /\ x[1] = a /\ x[2] = b /\ x[3] = c
    <3>2. x[1] = p[1] /\ x[2] = p[2] BY <2>1, <2>2, <2>3
    <3>3. x[3] = q[1]
      <4>1. x[2 + 1] = q[1] BY <2>1, <2>2, <2>3
      <4>. QED BY <4>1
    <3>. QED BY <2>1, <2>2, <2>3, <3>2, <3>3
  <2>5. x = <<x[1], x[2], x[3]>> BY <2>4, Literals
  <2>. QED BY <2>1, <2>2, <2>3, <2>4, <2>5
<1>4. ASSUME NEW a, NEW b, NEW c, NEW d PROVE <<a, b, c>> \o <<d>> = <<a, b, c, d>>
  <2>. DEFINE S == {a, b, c, d}
  <2>1. PICK p \in Seq(S) : p = <<a, b, c>> /\ Len(p) = 3 /\ p[1] = a /\ p[2] = b /\ p[3] = c
    <3>1. <<a, b, c>> \in Seq(S) /\ Len(<<a, b, c>>) = 3 /\ <<a, b, c>>[1] = a /\ <<a, b, c>>[2] = b /\ <<a, b, c>>[3] = c OBVIOUS
    <3>. QED BY <3>1
  <2>2. PICK q \in Seq(S) : q = <<d>> /\ Len(q) = 1 /\ q[1] = d
    <3>1. <<d>> \in Seq(S) /\ Len(<<d>>) = 1 /\ <<d>>[1] = d OBVIOUS
    <3>. QED BY <3>1
  <2>3. PICK x \in Seq(S) : /\ x = p \o q /\ Len(x) = Len(p) + Len(q)
                             /\ \A i \in 1..Len(p) : x[i] = p[i]
                             /\ \A j \in 1..Len(q) : x[Len(p) + j] = q[j]
    <3>1. p \o q \in Seq(S) BY Appended
    <3>2. Len(p \o q) = Len(p) + Len(q) BY Appended
    <3>3. \A i \in 1..Len(p) : (p \o q)[i] = p[i] BY Appended
    <3>4. \A i \in 1..Len(q) : (p \o q)[Len(p) + i] = q[i] BY Appended
    <3>5. PICK y : y = p \o q OBVIOUS
    <3>. QED BY <3>1, <3>2, <3>3, <3>4, <3>5
  <2>4. Len(x) = 4 /\ x[1] = a /\ x[2] = b /\ x[3] = c /\ x[4] = d
    <3>2. x[1] = p[1] /\ x[2] = p[2] /\ x[3] = p[3] BY <2>1, <2>2, <2>3
    <3>3. x[4] = q[1]
      <4>1. x[3 + 1] = q[1] BY <2>1, <2>2, <2>3
      <4>. QED BY <4>1
    <3>. QED BY <2>1, <2>2, <2>3, <3>2, <3>3
  <2>5. x = <<x[1], x[2], x[3], x[4]>> BY <2>4, Literals
  <2>. QED BY <2>1, <2>2, <2>3, <2>4, <2>5
<1>5. ASSUME NEW a, NEW b, NEW c, NEW d PROVE <<a, b>> \o <<c, d>> = <<a, b, c, d>>
  <2>. DEFINE S == {a, b, c, d}
  <2>1. PICK p \in Seq(S) : p = <<a, b>> /\ Len(p) = 2 /\ p[1] = a /\ p[2] = b
    <3>1. <<a, b>> \in Seq(S) /\ Len(<<a, b>>) = 2 /\ <<a, b>>[1] = a /\ <<a, b>>[2] = b OBVIOUS
    <3>. QED BY <3>1
  <2>2. PICK q \in Seq(S) : q = <<c, d>> /\ Len(q) = 2 /\ q[1] = c /\ q[2] = d
    <3>1. <<c, d>> \in Seq(S) /\ Len(<<c, d>>) = 2 /\ <<c, d>>[1] = c /\ <<c, d>>[2] = d OBVIOUS
    <3>. QED BY <3>1
  <2>3. PICK x \in Seq(S) : /\ x = p \o q /\ Len(x) = Len(p) + Len(q)
                             /\ \A i \in 1..Len(p) : x[i] = p[i]
                             /\ \A j \in 1..Len(q) : x[Len(p) + j] = q[j]
    <3>1. p \o q \in Seq(S) BY Appended
    <3>2. Len(p \o q) = Len(p) + Len(q) BY Appended
    <3>3. \A i \in 1..Len(p) : (p \o q)[i] = p[i] BY Appended
    <3>4. \A i \in 1..Len(q) : (p \o q)[Len(p) + i] = q[i] BY Appended
    <3>5. PICK y : y = p \o q OBVIOUS
    <3>. QED BY <3>1, <3>2, <3>3, <3>4, <3>5
  <2>4. Len(x) = 4 /\ x[1] = a /\ x[2] = b /\ x[3] = c /\ x[4] = d
    <3>2. x[1] = p[1] /\ x[2] = p[2] BY <2>1, <2>2, <2>3
    <3>3. x[3] = q[1] /\ x[4] = q[2]
      <4>1. x[2 + 1] = q[1] BY <2>1, <2>2, <2>3
      <4>2. x[2 + 2] = q[2] BY <2>1, <2>2, <2>3
      <4>. QED BY <4>1, <4>2
    <3>. QED BY <2>1, <2>2, <2>3, <3>2, <3>3
  <2>5. x = <<x[1], x[2], x[3], x[4]>> BY <2>4, Literals
  <2>. QED BY <2>1, <2>2, <2>3, <2>4, <2>5
<1>6. ASSUME NEW a, NEW b, NEW c, NEW d, NEW e PROVE <<a, b, c>> \o <<d, e>> = <<a, b, c, d, e>>
  <2>. DEFINE S == {a, b, c, d, e}
  <2>1. PICK p \in Seq(S) : p = <<a, b, c>> /\ Len(p) = 3 /\ p[1] = a /\ p[2] = b /\ p[3] = c
    <3>1. <<a, b, c>> \in Seq(S) /\ Len(<<a, b, c>>) = 3 /\ <<a, b, c>>[1] = a /\ <<a, b, c>>[2] = b /\ <<a, b, c>>[3] = c OBVIOUS
    <3>. QED BY <3>1
  <2>2. PICK q \in Seq(S) : q = <<d, e>> /\ Len(q) = 2 /\ q[1] = d /\ q[2] = e
    <3>1. <<d, e>> \in Seq(S) /\ Len(<<d, e>>) = 2 /\ <<d, e>>[1] = d /\ <<d, e>>[2] = e OBVIOUS
    <3>. QED BY <3>1
  <2>3. PICK x \in Seq(S) : /\ x = p \o q /\ Len(x) = Len(p) + Len(q)
                             /\ \A i \in 1..Len(p) : x[i] = p[i]
                             /\ \A j \in 1..Len(q) : x[Len(p) + j] = q[j]
    <3>1. p \o q \in Seq(S) BY Appended
    <3>2. Len(p \o q) = Len(p) + Len(q) BY Appended
    <3>3. \A i \in 1..Len(p) : (p \o q)[i] = p[i] BY Appended
    <3>4. \A i \in 1..Len(q) : (p \o q)[Len(p) + i] = q[i] BY Appended
    <3>5. PICK y : y = p \o q OBVIOUS
    <3>. QED BY <3>1, <3>2, <3>3, <3>4, <3>5
  <2>4. Len(x) = 5 /\ x[1] = a /\ x[2] = b /\ x[3] = c /\ x[4] = d /\ x[5] = e
    <3>2. x[1] = p[1] /\ x[2] = p[2] /\ x[3] = p[3] BY <2>1, <2>2, <2>3
    <3>3. x[4] = q[1] /\ x[5] = q[2]
      <4>1. x[3 + 1] = q[1] BY <2>1, <2>2, <2>3
      <4>2. x[3 + 2] = q[2] BY <2>1, <2>2, <2>3
      <4>. QED BY <4>1, <4>2
    <3>. QED BY <2>1, <2>2, <2>3, <3>2, <3>3
  <2>5. x = <<x[1], x[2], x[3], x[4], x[5]>> BY <2>4, Literals
  <2>. QED BY <2>1, <2>2, <2>3, <2>4, <2>5
<1>7. ASSUME NEW a, NEW b, NEW c, NEW d, NEW e, NEW f PROVE <<a, b, c, d>> \o <<e, f>> = <<a, b, c, d, e, f>>
  <2>. DEFINE S == {a, b, c, d, e, f}
  <2>1. PICK p \in Seq(S) : p = <<a, b, c, d>> /\ Len(p) = 4 /\ p[1] = a /\ p[2] = b /\ p[3] = c /\ p[4] = d
    <3>1. <<a, b, c, d>> \in Seq(S) /\ Len(<<a, b, c, d>>) = 4 /\ <<a, b, c, d>>[1] = a /\ <<a, b, c, d>>[2] = b /\ <<a, b, c, d>>[3] = c /\ <<a, b, c, d>>[4] = d OBVIOUS
    <3>. QED BY <3>1
  <2>2. PICK q \in Seq(S) : q = <<e, f>> /\ Len(q) = 2 /\ q[1] = e /\ q[2] = f
    <3>1. <<e, f>> \in Seq(S) /\ Len(<<e, f>>) = 2 /\ <<e, f>>[1] = e /\ <<e, f>>[2] = f OBVIOUS
    <3>. QED BY <3>1
  <2>3. PICK x \in Seq(S) : /\ x = p \o q /\ Len(x) = Len(p) + Len(q)
                             /\ \A i \in 1..Len(p) : x[i] = p[i]
                             /\ \A j \in 1..Len(q) : x[Len(p) + j] = q[j]
    <3>1. p \o q \in Seq(S) BY Appended
    <3>2. Len(p \o q) = Len(p) + Len(q) BY Appended
    <3>3. \A i \in 1..Len(p) : (p \o q)[i] = p[i] BY Appended
    <3>4. \A i \in 1..Len(q) : (p \o q)[Len(p) + i] = q[i] BY Appended
    <3>5. PICK y : y = p \o q OBVIOUS
    <3>. QED BY <3>1, <3>2, <3>3, <3>4, <3>5
  <2>4. Len(x) = 6 /\ x[1] = a /\ x[2] = b /\ x[3] = c /\ x[4] = d /\ x[5] = e /\ x[6] = f
    <3>2. x[1] = p[1] /\ x[2] = p[2] /\ x[3] = p[3] /\ x[4] = p[4] BY <2>1, <2>2, <2>3
    <3>3. x[5] = q[1] /\ x[6] = q[2]
      <4>1. x[4 + 1] = q[1] BY <2>1, <2>2, <2>3
      <4>2. x[4 + 2] = q[2] BY <2>1, <2>2, <2>3
      <4>. QED BY <4>1, <4>2
    <3>. QED BY <2>1, <2>2, <2>3, <3>2, <3>3
  <2>5. x = <<x[1], x[2], x[3], x[4], x[5], x[6]>> BY <2>4, Literals
  <2>. QED BY <2>1, <2>2, <2>3, <2>4, <2>5
<1>. QED BY <1>1, <1>2, <1>3, <1>4, <1>5, <1>6, <1>7

(***************************************************************************)
(* The grammar: what is parsed                                             *)
(***************************************************************************)

LEMMA FieldsAre ==
  /\ Command = [action |-> "noop", folders |-> <<>>, all |-> FALSE, destroy |-> FALSE,
                confirm |-> <<>>, pipeline |-> <<>>, step |-> 0]
  /\ \A v, l, d : /\ ForFolders(v, l, d) = [action |-> v, folders |-> l, all |-> FALSE, destroy |-> d,
                                            confirm |-> <<>>, pipeline |-> <<>>, step |-> 0]
                  /\ ForPipeline(v, l, d) = [action |-> v, folders |-> <<>>, all |-> FALSE, destroy |-> d,
                                             confirm |-> <<>>, pipeline |-> l, step |-> 0]
                  /\ ForStep(v, l, d) = [action |-> v, folders |-> <<>>, all |-> FALSE, destroy |-> FALSE,
                                         confirm |-> <<>>, pipeline |-> l, step |-> d]
  /\ \A v, k : /\ ForConfirm(v, k) = [action |-> v, folders |-> <<>>, all |-> FALSE, destroy |-> FALSE,
                                      confirm |-> k, pipeline |-> <<>>, step |-> 0]
               /\ ForFolders(v, k, FALSE) = [Command EXCEPT !.action = v, !.folders = k]
  /\ ForAll = [action |-> "report", folders |-> <<>>, all |-> TRUE, destroy |-> FALSE,
               confirm |-> <<>>, pipeline |-> <<>>, step |-> 0]
<1>1. Command = [action |-> "noop", folders |-> <<>>, all |-> FALSE, destroy |-> FALSE,
                 confirm |-> <<>>, pipeline |-> <<>>, step |-> 0]
  BY DEF Command
<1>2. ASSUME NEW v, NEW l, NEW d
      PROVE  ForFolders(v, l, d) = [action |-> v, folders |-> l, all |-> FALSE, destroy |-> d,
                                            confirm |-> <<>>, pipeline |-> <<>>, step |-> 0]
  <2>1. PICK C : C = Command OBVIOUS
  <2>2. PICK D : D = [C EXCEPT !.action = v, !.folders = l, !.destroy = d] OBVIOUS
  <2>3. ForFolders(v, l, d) = D BY <2>1, <2>2 DEF ForFolders
  <2>. QED BY <1>1, <2>1, <2>2, <2>3
<1>3. ASSUME NEW v, NEW l, NEW d
      PROVE  ForPipeline(v, l, d) = [action |-> v, folders |-> <<>>, all |-> FALSE, destroy |-> d,
                                             confirm |-> <<>>, pipeline |-> l, step |-> 0]
  <2>1. PICK C : C = Command OBVIOUS
  <2>2. PICK D : D = [C EXCEPT !.action = v, !.pipeline = l, !.destroy = d] OBVIOUS
  <2>3. ForPipeline(v, l, d) = D BY <2>1, <2>2 DEF ForPipeline
  <2>. QED BY <1>1, <2>1, <2>2, <2>3
<1>4. ASSUME NEW v, NEW l, NEW d
      PROVE  ForStep(v, l, d) = [action |-> v, folders |-> <<>>, all |-> FALSE, destroy |-> FALSE,
                                         confirm |-> <<>>, pipeline |-> l, step |-> d]
  <2>1. PICK C : C = Command OBVIOUS
  <2>2. PICK D : D = [C EXCEPT !.action = v, !.pipeline = l, !.step = d] OBVIOUS
  <2>3. ForStep(v, l, d) = D BY <2>1, <2>2 DEF ForStep
  <2>. QED BY <1>1, <2>1, <2>2, <2>3
<1>5. ASSUME NEW v, NEW k
      PROVE  ForConfirm(v, k) = [action |-> v, folders |-> <<>>, all |-> FALSE, destroy |-> FALSE,
                                      confirm |-> k, pipeline |-> <<>>, step |-> 0]
  <2>1. PICK C : C = Command OBVIOUS
  <2>2. PICK D : D = [C EXCEPT !.action = v, !.confirm = k] OBVIOUS
  <2>3. ForConfirm(v, k) = D BY <2>1, <2>2 DEF ForConfirm
  <2>. QED BY <1>1, <2>1, <2>2, <2>3
<1>6. ASSUME NEW v, NEW k PROVE ForFolders(v, k, FALSE) = [Command EXCEPT !.action = v, !.folders = k]
  <2>1. PICK C : C = Command OBVIOUS
  <2>2. PICK D : D = [C EXCEPT !.action = v, !.folders = k, !.destroy = FALSE] OBVIOUS
  <2>3. ForFolders(v, k, FALSE) = D BY <2>1, <2>2 DEF ForFolders
  <2>4. PICK E : E = [C EXCEPT !.action = v, !.folders = k] OBVIOUS
  <2>5. E = [action |-> v, folders |-> k, all |-> FALSE, destroy |-> FALSE,
             confirm |-> <<>>, pipeline |-> <<>>, step |-> 0]
    BY <1>1, <2>1, <2>4
  <2>6. D = [action |-> v, folders |-> k, all |-> FALSE, destroy |-> FALSE,
             confirm |-> <<>>, pipeline |-> <<>>, step |-> 0]
    BY <1>1, <2>1, <2>2
  <2>. QED BY <2>1, <2>3, <2>4, <2>5, <2>6
<1>7. ForAll = [action |-> "report", folders |-> <<>>, all |-> TRUE, destroy |-> FALSE,
               confirm |-> <<>>, pipeline |-> <<>>, step |-> 0]
  <2>1. PICK C : C = Command OBVIOUS
  <2>2. PICK D : D = [C EXCEPT !.action = "report", !.all = TRUE] OBVIOUS
  <2>3. ForAll = D BY <2>1, <2>2 DEF ForAll
  <2>. QED BY <1>1, <2>1, <2>2, <2>3
<1>. QED BY <1>1, <1>2, <1>3, <1>4, <1>5, <1>6, <1>7

\* The words after "tf" and the verb, when they make a command.
AsFolders(rest, c, v, d) ==
  /\ Len(rest) = 1 /\ rest[1] \notin {W("all"), W("pipeline")} /\ <<"">> \notin ToSet(rest[1])
  /\ c = ForFolders(v, rest[1], d)
AsPipeline(rest, c, v, d) ==
  /\ Len(rest) = 2 /\ rest[1] = W("pipeline") /\ IsPipelineName(rest[2]) /\ c = ForPipeline(v, rest[2][1], d)
AsStep(rest, c, v) ==
  /\ Len(rest) \in {2, 4} /\ rest[1] = W("pipeline") /\ IsPipelineName(rest[2])
  /\ Len(rest) = 4 => rest[3] = W("step") /\ Numeral(rest[4]) # 0
  /\ c = ForStep(v, rest[2][1], IF Len(rest) = 4 THEN Numeral(rest[4]) ELSE 1)
AsConfirm(rest, c, v) ==
  /\ Len(rest) = 2 /\ rest[1] = W("confirm") /\ rest[2] \in {W(k) : k \in Tokens} /\ c = ForConfirm(v, rest[2][1])

LEMMA ReadPipelineIs ==
  ASSUME NEW v \in {"plan", "report", "drift"}, NEW rest \in Seq(TokenSeqs), NEW d \in BOOLEAN,
         Len(rest) > 0, rest[1] = W("pipeline")
  PROVE  /\ ReadPipeline(v, rest, d) # Rejected => v # "report" /\ AsPipeline(rest, ReadPipeline(v, rest, d), v, d)
         /\ \A c : v # "report" /\ AsPipeline(rest, c, v, d) => ReadPipeline(v, rest, d) = c
BY DEF ReadPipeline, AsPipeline, ForPipeline

LEMMA MutatePipelineIs ==
  ASSUME NEW v \in Mutations, NEW rest \in Seq(TokenSeqs), Len(rest) > 0, rest[1] = W("pipeline")
  PROVE  /\ MutatePipeline(v, rest) # Rejected => AsStep(rest, MutatePipeline(v, rest), v)
         /\ \A c : AsStep(rest, c, v) => MutatePipeline(v, rest) = c
BY DEF MutatePipeline, AsStep, ForStep

LEMMA FolderListIs ==
  ASSUME NEW token \in TokenSeqs
  PROVE  /\ FolderList(token) # <<>> <=> <<"">> \notin ToSet(token)
         /\ FolderList(token) # <<>> => FolderList(token) = token
BY DEF FolderList, TokenSeqs

LEMMA ReadFoldersIs ==
  ASSUME NEW v \in {"plan", "report"}, NEW rest \in Seq(TokenSeqs), NEW d \in BOOLEAN,
         Len(rest) > 0 => rest[1] # W("pipeline")
  PROVE  /\ ReadFolders(v, rest, d) # Rejected => v # "report" /\ AsFolders(rest, ReadFolders(v, rest, d), v, d)
         /\ \A c : v # "report" /\ AsFolders(rest, c, v, d) => ReadFolders(v, rest, d) = c
<1>1. Len(rest) = 1 => rest[1] \in TokenSeqs OBVIOUS
<1>2. Len(rest) = 1 => /\ FolderList(rest[1]) # <<>> <=> <<"">> \notin ToSet(rest[1])
                       /\ FolderList(rest[1]) # <<>> => FolderList(rest[1]) = rest[1]
  BY <1>1, FolderListIs
<1>3. Len(rest) \in Nat /\ (Len(rest) = 1 => Len(rest) > 0) OBVIOUS
<1>4. PICK l : l = FolderList(rest[1]) OBVIOUS
<1>5. ReadFolders(v, rest, d) =
        IF v = "report" \/ Len(rest) # 1 \/ rest[1] = W("all") \/ l = <<>> THEN Rejected ELSE ForFolders(v, l, d)
  BY <1>3, <1>4 DEF ReadFolders, ForFolders
<1>6. CASE Len(rest) # 1 BY <1>5, <1>6 DEF AsFolders
<1>7. CASE Len(rest) = 1
  <2>1. /\ l # <<>> <=> <<"">> \notin ToSet(rest[1])
        /\ l # <<>> => l = rest[1]
        /\ rest[1] # W("pipeline")
    BY <1>2, <1>3, <1>4, <1>7
  <2>. QED BY <1>5, <1>7, <2>1 DEF AsFolders
<1>. QED BY <1>6, <1>7

LEMMA MutateIs ==
  ASSUME NEW v \in Mutations, NEW rest \in Seq(TokenSeqs)
  PROVE  /\ Mutate(v, rest) # Rejected =>
              \/ AsStep(rest, Mutate(v, rest), v) \/ AsConfirm(rest, Mutate(v, rest), v)
              \/ /\ AsFolders(rest, Mutate(v, rest), v, FALSE) /\ rest[1] # W("confirm")
                 /\ v = "destroy" => Len(rest[1]) = 1
         /\ \A c : \/ AsStep(rest, c, v) \/ AsConfirm(rest, c, v)
                   \/ /\ AsFolders(rest, c, v, FALSE) /\ rest[1] # W("confirm")
                      /\ v = "destroy" => Len(rest[1]) = 1
                   => Mutate(v, rest) = c
<1>0. "pipeline" # "confirm" => W("pipeline") # W("confirm") BY WordsDiffer
<1>1. CASE rest = <<>>
  <2>1. Mutate(v, rest) = Rejected BY <1>1 DEF Mutate
  <2>2. Len(rest) = 0 BY <1>1
  <2>. QED BY <2>1, <2>2 DEF AsStep, AsConfirm, AsFolders
<1>2. CASE rest # <<>> /\ rest[1] = W("pipeline")
  <2>1. Mutate(v, rest) = MutatePipeline(v, rest) BY <1>0, <1>2 DEF Mutate
  <2>2. Len(rest) > 0 BY <1>2
  <2>3. /\ MutatePipeline(v, rest) # Rejected => AsStep(rest, MutatePipeline(v, rest), v)
        /\ \A c : AsStep(rest, c, v) => MutatePipeline(v, rest) = c
    BY <1>2, <2>2, MutatePipelineIs
  <2>4. \A c : ~ AsConfirm(rest, c, v) /\ ~ AsFolders(rest, c, v, FALSE) BY <1>0, <1>2 DEF AsConfirm, AsFolders
  <2>. QED BY <2>1, <2>3, <2>4
<1>3. CASE rest # <<>> /\ rest[1] = W("confirm")
  <2>1. Mutate(v, rest) = IF Len(rest) # 2 \/ rest[2] \notin {W(t) : t \in Tokens} THEN Rejected
                          ELSE [Command EXCEPT !.action = v, !.confirm = rest[2][1]]
    BY <1>0, <1>3 DEF Mutate
  <2>2. Mutate(v, rest) # Rejected => AsConfirm(rest, Mutate(v, rest), v) BY <1>3, <2>1 DEF AsConfirm, ForConfirm
  <2>3. \A c : AsConfirm(rest, c, v) => Mutate(v, rest) = c BY <2>1 DEF AsConfirm, ForConfirm
  <2>4. \A c : ~ AsStep(rest, c, v) BY <1>0, <1>3 DEF AsStep
  <2>. QED BY <1>3, <2>2, <2>3, <2>4
<1>4. CASE rest # <<>> /\ rest[1] # W("confirm") /\ rest[1] # W("pipeline")
  <2>1. Mutate(v, rest) = IF \/ Len(rest) > 1 \/ rest[1] = W("all") \/ FolderList(rest[1]) = <<>>
                             \/ v = "destroy" /\ Len(rest[1]) > 1
                          THEN Rejected
                          ELSE [Command EXCEPT !.action = v, !.folders = FolderList(rest[1])]
    BY <1>4 DEF Mutate
  <2>2. Len(rest) \in Nat /\ Len(rest) >= 1 /\ rest[1] \in TokenSeqs /\ Len(rest[1]) \in Nat /\ Len(rest[1]) >= 1
    <3>1. Len(rest) \in Nat /\ Len(rest) >= 1 /\ rest[1] \in TokenSeqs BY <1>4
    <3>2. \A x \in TokenSeqs : Len(x) \in Nat /\ Len(x) >= 1 BY DEF TokenSeqs
    <3>. QED BY <3>1, <3>2
  <2>3. /\ FolderList(rest[1]) # <<>> <=> <<"">> \notin ToSet(rest[1])
        /\ FolderList(rest[1]) # <<>> => FolderList(rest[1]) = rest[1]
    BY <2>2, FolderListIs
  <2>8. PICK l : l = FolderList(rest[1]) OBVIOUS
  <2>9. Mutate(v, rest) = IF Len(rest) > 1 \/ rest[1] = W("all") \/ l = <<>> \/ (v = "destroy" /\ Len(rest[1]) > 1)
                          THEN Rejected ELSE ForFolders(v, l, FALSE)
    <3>1. ForFolders(v, l, FALSE) = [Command EXCEPT !.action = v, !.folders = l] BY FieldsAre
    <3>. QED BY <3>1, <2>1, <2>8
  <2>. DEFINE ok == Len(rest) = 1 /\ rest[1] # W("all") /\ <<"">> \notin ToSet(rest[1]) /\ (v = "destroy" => Len(rest[1]) = 1)
  <2>10. ok <=> ~ (Len(rest) > 1 \/ rest[1] = W("all") \/ l = <<>> \/ (v = "destroy" /\ Len(rest[1]) > 1))
    <3>1. Len(rest) = 1 <=> ~ (Len(rest) > 1)
      <4>1. PICK n \in Nat : n = Len(rest) /\ n >= 1 BY <2>2
      <4>. QED BY <4>1
    <3>2. Len(rest[1]) = 1 <=> ~ (Len(rest[1]) > 1)
      <4>1. PICK x : x = rest[1] OBVIOUS
      <4>2. PICK n \in Nat : n = Len(x) /\ n >= 1 BY <2>2, <4>1
      <4>3. n = 1 <=> ~ (n > 1) BY <4>2
      <4>. QED BY <4>1, <4>2, <4>3, Zenon
    <3>3. l # <<>> <=> <<"">> \notin ToSet(rest[1]) BY <2>3, <2>8
    <3>. QED BY <3>1, <3>2, <3>3
  <2>4. ok => l = rest[1] BY <2>3, <2>8
  <2>5. Mutate(v, rest) # Rejected => AsFolders(rest, Mutate(v, rest), v, FALSE) /\ (v = "destroy" => Len(rest[1]) = 1)
    <3>1. Mutate(v, rest) # Rejected => ok BY <2>9, <2>10
    <3>2. ok => Mutate(v, rest) = ForFolders(v, rest[1], FALSE) BY <2>4, <2>9, <2>10
    <3>. QED BY <1>4, <3>1, <3>2 DEF AsFolders
  <2>6. \A c : AsFolders(rest, c, v, FALSE) /\ (v = "destroy" => Len(rest[1]) = 1) => Mutate(v, rest) = c
    <3>1. \A c : AsFolders(rest, c, v, FALSE) /\ (v = "destroy" => Len(rest[1]) = 1) => ok /\ c = ForFolders(v, rest[1], FALSE)
      BY DEF AsFolders
    <3>2. ok => Mutate(v, rest) = ForFolders(v, rest[1], FALSE) BY <2>4, <2>9, <2>10
    <3>. QED BY <3>1, <3>2
  <2>7. \A c : ~ AsStep(rest, c, v) /\ ~ AsConfirm(rest, c, v) BY <1>4 DEF AsStep, AsConfirm
  <2>. QED BY <1>4, <2>5, <2>6, <2>7
<1>. QED BY <1>1, <1>2, <1>3, <1>4

\* The words after a flag, which may be missing.
Follow(tokens, rest, d) ==
  /\ d => tokens # <<>> /\ tokens[1] = W("--destroy") /\ rest = Tail(tokens)
  /\ ~ d => rest = tokens /\ (tokens # <<>> => tokens[1] # W("--destroy"))

LEMMA ReadIs ==
  ASSUME NEW v \in {"plan", "report"}, NEW tokens \in Seq(TokenSeqs)
  PROVE  /\ Read(v, tokens) # Rejected =>
              \/ v = "report" /\ tokens = <<>> /\ Read(v, tokens) = ForAll
              \/ v = "plan" /\ \E d \in BOOLEAN, rest \in Seq(TokenSeqs) :
                   /\ Follow(tokens, rest, d)
                   /\ AsPipeline(rest, Read(v, tokens), v, d) \/ AsFolders(rest, Read(v, tokens), v, d)
         /\ v = "report" /\ tokens = <<>> => Read(v, tokens) = ForAll
         /\ \A d \in BOOLEAN, rest \in Seq(TokenSeqs) : \A c :
              v = "plan" /\ Follow(tokens, rest, d) /\ (AsPipeline(rest, c, v, d) \/ AsFolders(rest, c, v, d)) =>
                Read(v, tokens) = c
<1>1. PICK d \in BOOLEAN : d <=> (tokens # <<>> /\ tokens[1] = W("--destroy")) OBVIOUS
<1>2. PICK rest : rest = IF d THEN Tail(tokens) ELSE tokens OBVIOUS
<1>3. rest \in Seq(TokenSeqs) /\ Follow(tokens, rest, d) BY <1>1, <1>2, TailOf DEF Follow
<1>4. \A e \in BOOLEAN, r \in Seq(TokenSeqs) : Follow(tokens, r, e) => (e <=> d) /\ r = rest
  BY <1>1, <1>2 DEF Follow
<1>5. CASE v = "report" /\ tokens = <<>>
  <2>1. Read(v, tokens) = ForAll BY <1>5, <1>1 DEF Read, ForAll
  <2>. QED BY <1>5, <2>1
<1>6. CASE v = "report" /\ tokens # <<>>
  <2>1. CASE d
    <3>1. Read(v, tokens) = Rejected BY <1>1, <1>6, <2>1 DEF Read
    <3>. QED BY <3>1, <1>6
  <2>2. CASE ~ d
    <3>1. Read(v, tokens) = IF rest # <<>> /\ rest[1] = W("pipeline") THEN ReadPipeline(v, rest, FALSE) ELSE ReadFolders(v, rest, FALSE)
      BY <1>1, <1>2, <1>6, <2>2 DEF Read
    <3>2. ReadPipeline(v, rest, FALSE) = Rejected BY <1>6 DEF ReadPipeline
    <3>3. ReadFolders(v, rest, FALSE) = Rejected BY <1>6 DEF ReadFolders
    <3>. QED BY <3>1, <3>2, <3>3, <1>6
  <2>. QED BY <2>1, <2>2
<1>7. CASE v = "plan"
  <2>1. Read(v, tokens) = IF rest # <<>> /\ rest[1] = W("pipeline") THEN ReadPipeline(v, rest, d) ELSE ReadFolders(v, rest, d)
    <3>1. CASE d BY <1>1, <1>2, <1>7, <3>1 DEF Read
    <3>2. CASE ~ d BY <1>1, <1>2, <1>7, <3>2 DEF Read
    <3>. QED BY <3>1, <3>2
  <2>2. rest # <<>> <=> Len(rest) > 0 BY <1>3
  <2>3. Len(rest) = 1 \/ Len(rest) = 2 => Len(rest) > 0 OBVIOUS
  <2>4. CASE rest # <<>> /\ rest[1] = W("pipeline")
    <3>1. Read(v, tokens) = ReadPipeline(v, rest, d) BY <2>1, <2>4
    <3>2. /\ ReadPipeline(v, rest, d) # Rejected => v # "report" /\ AsPipeline(rest, ReadPipeline(v, rest, d), v, d)
          /\ \A c : v # "report" /\ AsPipeline(rest, c, v, d) => ReadPipeline(v, rest, d) = c
      BY <1>1, <1>3, <1>7, <2>2, <2>4, ReadPipelineIs
    <3>3. \A c : ~ AsFolders(rest, c, v, d) BY <2>4 DEF AsFolders
    <3>4. Read(v, tokens) # Rejected => AsPipeline(rest, Read(v, tokens), v, d) BY <3>1, <3>2
    <3>5. \A c : AsPipeline(rest, c, v, d) \/ AsFolders(rest, c, v, d) => Read(v, tokens) = c
      BY <1>7, <3>1, <3>2, <3>3
    <3>6. \A e \in BOOLEAN, r \in Seq(TokenSeqs) : \A c :
              Follow(tokens, r, e) /\ (AsPipeline(r, c, v, e) \/ AsFolders(r, c, v, e)) => Read(v, tokens) = c
      <4>. SUFFICES ASSUME NEW e \in BOOLEAN, NEW r \in Seq(TokenSeqs), NEW c, Follow(tokens, r, e),
                           AsPipeline(r, c, v, e) \/ AsFolders(r, c, v, e)
           PROVE  Read(v, tokens) = c
        OBVIOUS
      <4>1. e = d /\ r = rest BY <1>4
      <4>. QED BY <4>1, <3>5
    <3>. QED BY <1>1, <1>3, <1>7, <3>4, <3>6
  <2>5. CASE ~ (rest # <<>> /\ rest[1] = W("pipeline"))
    <3>1. Read(v, tokens) = ReadFolders(v, rest, d) BY <2>1, <2>5
    <3>2. /\ ReadFolders(v, rest, d) # Rejected => v # "report" /\ AsFolders(rest, ReadFolders(v, rest, d), v, d)
          /\ \A c : v # "report" /\ AsFolders(rest, c, v, d) => ReadFolders(v, rest, d) = c
      BY <1>1, <1>3, <1>7, <2>2, <2>5, ReadFoldersIs
    <3>3. \A c : ~ AsPipeline(rest, c, v, d) BY <2>2, <2>3, <2>5 DEF AsPipeline
    <3>4. Read(v, tokens) # Rejected => AsFolders(rest, Read(v, tokens), v, d) BY <3>1, <3>2
    <3>5. \A c : AsPipeline(rest, c, v, d) \/ AsFolders(rest, c, v, d) => Read(v, tokens) = c
      BY <1>7, <3>1, <3>2, <3>3
    <3>6. \A e \in BOOLEAN, r \in Seq(TokenSeqs) : \A c :
              Follow(tokens, r, e) /\ (AsPipeline(r, c, v, e) \/ AsFolders(r, c, v, e)) => Read(v, tokens) = c
      <4>. SUFFICES ASSUME NEW e \in BOOLEAN, NEW r \in Seq(TokenSeqs), NEW c, Follow(tokens, r, e),
                           AsPipeline(r, c, v, e) \/ AsFolders(r, c, v, e)
           PROVE  Read(v, tokens) = c
        OBVIOUS
      <4>1. e = d /\ r = rest BY <1>4
      <4>. QED BY <4>1, <3>5
    <3>. QED BY <1>1, <1>3, <1>7, <3>4, <3>6
  <2>. QED BY <2>4, <2>5
<1>. QED BY <1>5, <1>6, <1>7

\* What the words after the verb have to be.
Understood(verb, rest, c) ==
  \/ verb = "drift" /\ AsPipeline(rest, c, "drift", FALSE)
  \/ /\ verb \in Mutations
     /\ \/ AsStep(rest, c, verb) \/ AsConfirm(rest, c, verb)
        \/ /\ AsFolders(rest, c, verb, FALSE) /\ rest[1] # W("confirm")
           /\ verb = "destroy" => Len(rest[1]) = 1
  \/ verb = "report" /\ rest = <<>> /\ c = ForAll
  \/ verb = "plan" /\ \E d \in BOOLEAN, r \in Seq(TokenSeqs) :
       Follow(rest, r, d) /\ (AsPipeline(r, c, "plan", d) \/ AsFolders(r, c, "plan", d))

LEMMA DriftIs ==
  ASSUME NEW rest \in Seq(TokenSeqs)
  PROVE  /\ Drift(rest) # Rejected => AsPipeline(rest, Drift(rest), "drift", FALSE)
         /\ \A c : AsPipeline(rest, c, "drift", FALSE) => Drift(rest) = c
<1>1. PICK d \in BOOLEAN : d = FALSE OBVIOUS
<1>2. PICK v \in {"plan", "report", "drift"} : v = "drift" OBVIOUS
<1>3. rest # <<>> <=> Len(rest) > 0 OBVIOUS
<1>4. Drift(rest) = IF Len(rest) > 0 /\ rest[1] = W("pipeline") THEN ReadPipeline(v, rest, d) ELSE Rejected
  BY <1>1, <1>2, <1>3 DEF Drift
<1>5. CASE Len(rest) > 0 /\ rest[1] = W("pipeline")
  <2>1. /\ ReadPipeline(v, rest, d) # Rejected => v # "report" /\ AsPipeline(rest, ReadPipeline(v, rest, d), v, d)
        /\ \A c : v # "report" /\ AsPipeline(rest, c, v, d) => ReadPipeline(v, rest, d) = c
    BY <1>5, ReadPipelineIs
  <2>. QED BY <1>1, <1>2, <1>4, <1>5, <2>1
<1>6. CASE ~ (Len(rest) > 0 /\ rest[1] = W("pipeline"))
  <2>1. \A c : ~ AsPipeline(rest, c, "drift", FALSE) 
    <3>1. Len(rest) = 2 => Len(rest) > 0 OBVIOUS
    <3>. QED BY <1>6, <3>1 DEF AsPipeline
  <2>. QED BY <1>4, <1>6, <2>1
<1>. QED BY <1>5, <1>6

LEMMA ParseIs ==
  ASSUME NEW t \in Seq(TokenSeqs)
  PROVE  /\ Parse(t) # Rejected =>
              /\ Len(t) >= 2 /\ t[1] = W("tf")
              /\ \E verb : t[2] = W(verb) /\ Understood(verb, SubSeq(t, 3, Len(t)), Parse(t))
         /\ \A verb, c : Len(t) >= 2 /\ t[1] = W("tf") /\ t[2] = W(verb) /\ Understood(verb, SubSeq(t, 3, Len(t)), c) =>
              Parse(t) = c
<1>1. CASE Len(t) < 2 \/ t[1] # W("tf")
  <2>1. Parse(t) = Rejected BY <1>1 DEF Parse
  <2>2. ~ (Len(t) >= 2 /\ t[1] = W("tf"))
    <3>1. PICK n \in Nat : n = Len(t) OBVIOUS
    <3>2. n < 2 => ~ (n >= 2) BY <3>1
    <3>. QED BY <1>1, <3>1, <3>2
  <2>. QED BY <2>1, <2>2
<1>2. CASE ~ (Len(t) < 2 \/ t[1] # W("tf"))
  <2>1. Len(t) >= 2 /\ t[1] = W("tf")
    <3>1. PICK n \in Nat : n = Len(t) OBVIOUS
    <3>2. ~ (n < 2) => n >= 2 BY <3>1
    <3>. QED BY <1>2, <3>1, <3>2
  <2>2. PICK rest \in Seq(TokenSeqs) : rest = SubSeq(t, 3, Len(t)) BY <2>1, RestOf
  <2>3. \A a, b : W(a) = W(b) => a = b BY WordsDiffer
  <2>4. \A a : W(a)[1][1] = a BY WordsDiffer
  <2>5. Parse(t) = CASE t[2] = W("drift") -> Drift(rest)
             [] t[2] \in {W(v) : v \in Mutations} -> Mutate(t[2][1][1], rest)
             [] t[2] \in {W(v) : v \in Verbs \ Mutations} -> Read(t[2][1][1], rest)
             [] OTHER -> Rejected
    BY <1>2, <2>2 DEF Parse
  <2>6. CASE t[2] = W("drift")
    <3>1. Parse(t) = Drift(rest) BY <2>3, <2>5, <2>6 DEF Mutations, Verbs
    <3>2. \A verb : t[2] = W(verb) => verb = "drift" BY <2>3, <2>6
    <3>3. \A c : Understood("drift", rest, c) <=> AsPipeline(rest, c, "drift", FALSE) BY DEF Understood, Mutations
    <3>. QED BY <2>1, <2>2, <2>6, <3>1, <3>2, <3>3, DriftIs
  <2>7. ASSUME NEW v \in Mutations, t[2] = W(v)
        PROVE  /\ Parse(t) # Rejected => Understood(v, rest, Parse(t))
               /\ \A c : Understood(v, rest, c) => Parse(t) = c
    <3>1. v # "drift" /\ v # "report" /\ v # "plan" BY DEF Mutations
    <3>2. Parse(t) = Mutate(v, rest) 
      <4>1. t[2] # W("drift") /\ t[2] \in {W(x) : x \in Mutations} /\ t[2] \notin {W(x) : x \in Verbs \ Mutations} BY <2>3, <2>7, <3>1
      <4>2. t[2][1][1] = v BY <2>4, <2>7
      <4>. QED BY <2>5, <4>1, <4>2
    <3>3. \A c : Understood(v, rest, c) <=>
                   \/ AsStep(rest, c, v) \/ AsConfirm(rest, c, v)
                   \/ /\ AsFolders(rest, c, v, FALSE) /\ rest[1] # W("confirm")
                      /\ v = "destroy" => Len(rest[1]) = 1
      BY <3>1 DEF Understood
    <3>. QED BY <3>2, <3>3, MutateIs
  <2>8. ASSUME NEW v \in {"plan", "report"}, t[2] = W(v)
        PROVE  /\ Parse(t) # Rejected => Understood(v, rest, Parse(t))
               /\ \A c : Understood(v, rest, c) => Parse(t) = c
    <3>1. v # "drift" /\ v \notin Mutations /\ v \in Verbs \ Mutations BY DEF Mutations, Verbs
    <3>2. Parse(t) = Read(v, rest) 
      <4>1. t[2] # W("drift") /\ t[2] \notin {W(x) : x \in Mutations} /\ t[2] \in {W(x) : x \in Verbs \ Mutations} BY <2>3, <2>8, <3>1
      <4>2. t[2][1][1] = v BY <2>4, <2>8
      <4>. QED BY <2>5, <4>1, <4>2
    <3>3. \A c : Understood(v, rest, c) <=>
                   \/ v = "report" /\ rest = <<>> /\ c = ForAll
                   \/ v = "plan" /\ \E d \in BOOLEAN, r \in Seq(TokenSeqs) :
                        Follow(rest, r, d) /\ (AsPipeline(r, c, v, d) \/ AsFolders(r, c, v, d))
      BY <3>1 DEF Understood
    <3>4. /\ Read(v, rest) # Rejected =>
              \/ v = "report" /\ rest = <<>> /\ Read(v, rest) = ForAll
              \/ v = "plan" /\ \E d \in BOOLEAN, r \in Seq(TokenSeqs) :
                   /\ Follow(rest, r, d)
                   /\ AsPipeline(r, Read(v, rest), v, d) \/ AsFolders(r, Read(v, rest), v, d)
          /\ v = "report" /\ rest = <<>> => Read(v, rest) = ForAll
          /\ \A d \in BOOLEAN, r \in Seq(TokenSeqs) : \A c :
              v = "plan" /\ Follow(rest, r, d) /\ (AsPipeline(r, c, v, d) \/ AsFolders(r, c, v, d)) =>
                Read(v, rest) = c
      BY ReadIs
    <3>. QED BY <3>2, <3>3, <3>4
  <2>9. \A v : t[2] = W(v) => v \in Mutations \/ v \in {"plan", "report"} \/ Parse(t) = Rejected \/ v = "drift"
    <3>. SUFFICES ASSUME NEW v, t[2] = W(v), v \notin Mutations, v \notin {"plan", "report"}, v # "drift"
         PROVE  Parse(t) = Rejected
      OBVIOUS
    <3>1. t[2] # W("drift") /\ t[2] \notin {W(x) : x \in Mutations} /\ t[2] \notin {W(x) : x \in Verbs \ Mutations}
      BY <2>3 DEF Verbs, Mutations
    <3>. QED BY <2>5, <3>1
  <2>10. CASE \E v \in Mutations \union {"plan", "report"} : t[2] = W(v)
    <3>1. PICK v \in Mutations \union {"plan", "report"} : t[2] = W(v) BY <2>10
    <3>2. /\ Parse(t) # Rejected => Understood(v, rest, Parse(t))
          /\ \A c : Understood(v, rest, c) => Parse(t) = c
      BY <2>7, <2>8, <3>1
    <3>3. \A verb : t[2] = W(verb) => verb = v BY <2>3, <3>1
    <3>. QED BY <2>1, <2>2, <3>1, <3>2, <3>3
  <2>11. CASE t[2] # W("drift") /\ ~ \E v \in Mutations \union {"plan", "report"} : t[2] = W(v)
    <3>1. Parse(t) = Rejected
      <4>1. t[2] # W("drift") /\ t[2] \notin {W(x) : x \in Mutations} /\ t[2] \notin {W(x) : x \in Verbs \ Mutations}
        BY <2>11 DEF Verbs, Mutations
      <4>. QED BY <2>5, <4>1
    <3>2. \A verb, c : t[2] = W(verb) => ~ Understood(verb, rest, c)
      BY <2>11 DEF Understood
    <3>. QED BY <2>2, <3>1, <3>2
  <2>. QED BY <2>6, <2>10, <2>11
<1>. QED BY <1>1, <1>2

LEMMA SeqsGrow ==
  ASSUME NEW S, NEW T, S \subseteq T
  PROVE  Seq(S) \subseteq Seq(T)
OBVIOUS

LEMMA TextsAre == Texts \subseteq Seq(TokenSeqs)
<1>1. STRING \subseteq Letters BY DEF Letters
<1>2. Seq(STRING) \subseteq Seq(Letters) BY <1>1, SeqsGrow
<1>3. Names \subseteq Seq(Letters) \ {<<>>} BY <1>2 DEF Names
<1>4. Seq(Names) \subseteq Seq(Seq(Letters) \ {<<>>}) BY <1>3, SeqsGrow
<1>5. Seq(Names) \ {<<>>} \subseteq TokenSeqs BY <1>4 DEF TokenSeqs
<1>6. Seq(Seq(Names) \ {<<>>}) \subseteq Seq(TokenSeqs) BY <1>5, SeqsGrow
<1>. QED BY <1>6, TextsAreTokens

LEMMA NumeralIs ==
  /\ Numeral(W("1")) = 1 /\ Numeral(W("2")) = 2
  /\ \A t : Numeral(t) # 0 => t \in {W("1"), W("2")} /\ Numeral(t) \in {1, 2}
<1>1. W("1") # W("2") BY WordsDiffer
<1>. QED BY <1>1 DEF Numeral

\* One list of tokens after the other.
Then(a, b) == a \o b

\* The words up to the flag.
Heads(v, d) == IF d THEN <<W("tf"), W(v), W("--destroy")>> ELSE <<W("tf"), W(v)>>

LEMMA HeadsAre ==
  \A v, d : <<W("tf"), W(v)>> \o (IF d THEN <<W("--destroy")>> ELSE <<>>) = Heads(v, d)
<1>. TAKE v, d
<1>1. CASE d BY <1>1, Joined DEF Heads
<1>2. CASE ~ d BY <1>2, Joined DEF Heads
<1>. QED BY <1>1, <1>2

LEMMA StepSpelled ==
  ASSUME NEW v, NEW n, NEW k \in {1, 2}, v # "noop", n # <<>>, NEW w \in {W("1"), W("2")}, Numeral(w) = k
  PROVE  Spellings(ForStep(v, n, k)) =
           {<<W("tf"), W(v), W("pipeline"), <<n>>, W("step"), w>>}
             \union (IF k < 2 THEN {<<W("tf"), W(v), W("pipeline"), <<n>>>>} ELSE {})
<1>0. PICK p : p = <<W("tf"), W(v), W("pipeline"), <<n>>>> OBVIOUS
<1>1. PICK c : c = ForStep(v, n, k) OBVIOUS
<1>2. /\ c.action = v /\ c.folders = <<>> /\ c.all = FALSE /\ c.destroy = FALSE /\ c.confirm = <<>> /\ c.pipeline = n
      /\ c.step = k
  <2>1. c = [action |-> v, folders |-> <<>>, all |-> FALSE, destroy |-> FALSE,
             confirm |-> <<>>, pipeline |-> n, step |-> k]
    BY <1>1, FieldsAre
  <2>. QED BY <2>1
<1>3. <<>> # W("all") BY WordsDiffer
<1>4. {u \in {W("1"), W("2")} : Numeral(u) = k} = {w} BY NumeralIs
<1>5. p = ((<<W("tf"), W(v)>> \o <<>>) \o <<W("pipeline"), <<n>>>>) BY <1>0, Joined
<1>6. Spellings(c) = {p \o <<W("step"), x>> : x \in {u \in {W("1"), W("2")} : Numeral(u) = k}}
                       \union (IF k < 2 THEN {p} ELSE {})
  BY <1>2, <1>3, <1>5 DEF Spellings
<1>7. p \o <<W("step"), w>> = <<W("tf"), W(v), W("pipeline"), <<n>>, W("step"), w>> BY <1>0, Joined
<1>. QED BY <1>0, <1>1, <1>4, <1>6, <1>7

\* The comments that ask for each form of a command.
LEMMA SpellingsAre ==
  /\ \A v, l : \A d \in BOOLEAN : v # "noop" /\ l # W("all") => Spellings(ForFolders(v, l, d)) = {Then(Heads(v, d), <<l>>)}
  /\ \A v, l : \A d \in BOOLEAN : l = W("all") => Spellings(ForFolders(v, l, d)) = {}
  /\ Spellings(ForAll) = {<<W("tf"), W("report")>>}
  /\ \A v, n : \A d \in BOOLEAN : v # "noop" /\ n # <<>> =>
       Spellings(ForPipeline(v, n, d)) = {Then(Heads(v, d), <<W("pipeline"), <<n>>>>)}
  /\ \A v, n : v # "noop" /\ n # <<>> =>
       /\ Spellings(ForStep(v, n, 1)) = {<<W("tf"), W(v), W("pipeline"), <<n>>, W("step"), W("1")>>,
                                         <<W("tf"), W(v), W("pipeline"), <<n>>>>}
       /\ Spellings(ForStep(v, n, 2)) = {<<W("tf"), W(v), W("pipeline"), <<n>>, W("step"), W("2")>>}
  /\ \A v, k : v # "noop" /\ k # <<>> =>
       Spellings(ForConfirm(v, k)) = {<<W("tf"), W(v), W("confirm"), <<k>>>>}
<1>1. ASSUME NEW v, NEW l, NEW d
      PROVE  /\ v # "noop" /\ l # W("all") => Spellings(ForFolders(v, l, d)) = {Then(Heads(v, d), <<l>>)}
             /\ l = W("all") => Spellings(ForFolders(v, l, d)) = {}
  <2>1. PICK c : c = ForFolders(v, l, d) OBVIOUS
  <2>2. /\ c.action = v /\ c.folders = l /\ c.all = FALSE /\ c.destroy = d /\ c.confirm = <<>> /\ c.pipeline = <<>>
        /\ c.step = 0
    <3>1. c = [action |-> v, folders |-> l, all |-> FALSE, destroy |-> d,
                            confirm |-> <<>>, pipeline |-> <<>>, step |-> 0]
      BY <2>1, FieldsAre
    <3>. QED BY <3>1
  <2>3. l = W("all") => Spellings(c) = {} BY <2>2 DEF Spellings
  <2>4. v # "noop" /\ l # W("all") =>
          Spellings(c) = {(<<W("tf"), W(v)>> \o (IF d THEN <<W("--destroy")>> ELSE <<>>)) \o <<l>>}
    BY <2>2 DEF Spellings
  <2>5. PICK h : h = (<<W("tf"), W(v)>> \o (IF d THEN <<W("--destroy")>> ELSE <<>>)) OBVIOUS
  <2>6. h = Heads(v, d) BY <2>5, HeadsAre
  <2>7. v # "noop" /\ l # W("all") => Spellings(c) = {Then(h, <<l>>)} BY <2>4, <2>5 DEF Then
  <2>. QED BY <2>1, <2>3, <2>6, <2>7
<1>2. Spellings(ForAll) = {<<W("tf"), W("report")>>}
  <2>1. PICK c : c = ForAll OBVIOUS
  <2>2. /\ c.action = "report" /\ c.folders = <<>> /\ c.all = TRUE /\ c.destroy = FALSE /\ c.confirm = <<>> /\ c.pipeline = <<>>
        /\ c.step = 0
    <3>1. c = [action |-> "report", folders |-> <<>>, all |-> TRUE, destroy |-> FALSE,
                            confirm |-> <<>>, pipeline |-> <<>>, step |-> 0]
      BY <2>1, FieldsAre
    <3>. QED BY <3>1
  <2>3. <<>> # W("all") BY WordsDiffer
  <2>4. Spellings(c) = {(<<W("tf"), W("report")>> \o <<>>) \o <<>>} BY <2>2, <2>3 DEF Spellings
  <2>. QED BY <2>1, <2>4, Joined
<1>3. ASSUME NEW v, NEW n, NEW d, v # "noop", n # <<>>
      PROVE  Spellings(ForPipeline(v, n, d)) = {Then(Heads(v, d), <<W("pipeline"), <<n>>>>)}
  <2>1. PICK c : c = ForPipeline(v, n, d) OBVIOUS
  <2>2. /\ c.action = v /\ c.folders = <<>> /\ c.all = FALSE /\ c.destroy = d /\ c.confirm = <<>> /\ c.pipeline = n
        /\ c.step = 0
    <3>1. c = [action |-> v, folders |-> <<>>, all |-> FALSE, destroy |-> d,
                            confirm |-> <<>>, pipeline |-> n, step |-> 0]
      BY <2>1, FieldsAre
    <3>. QED BY <3>1
  <2>3. <<>> # W("all") BY WordsDiffer
  <2>4. {u \in {W("1"), W("2")} : Numeral(u) = 0} = {} BY NumeralIs
  <2>5. PICK p : p = ((<<W("tf"), W(v)>> \o (IF d THEN <<W("--destroy")>> ELSE <<>>)) \o <<W("pipeline"), <<n>>>>) OBVIOUS
  <2>6. Spellings(c) = {p \o <<W("step"), w>> : w \in {u \in {W("1"), W("2")} : Numeral(u) = 0}} \union {p}
    BY <1>3, <2>2, <2>3, <2>5 DEF Spellings
  <2>7. Spellings(c) = {p} BY <2>4, <2>6
  <2>8. PICK h : h = (<<W("tf"), W(v)>> \o (IF d THEN <<W("--destroy")>> ELSE <<>>)) OBVIOUS
  <2>9. h = Heads(v, d) BY <2>8, HeadsAre
  <2>10. Spellings(c) = {Then(h, <<W("pipeline"), <<n>>>>)} BY <2>5, <2>7, <2>8 DEF Then
  <2>. QED BY <2>1, <2>9, <2>10
<1>5. ASSUME NEW v, NEW n, v # "noop", n # <<>>
      PROVE  /\ Spellings(ForStep(v, n, 1)) = {<<W("tf"), W(v), W("pipeline"), <<n>>, W("step"), W("1")>>,
                                               <<W("tf"), W(v), W("pipeline"), <<n>>>>}
             /\ Spellings(ForStep(v, n, 2)) = {<<W("tf"), W(v), W("pipeline"), <<n>>, W("step"), W("2")>>}
  <2>1. PICK k \in {1, 2} : k = 1 OBVIOUS
  <2>2. PICK l \in {1, 2} : l = 2 OBVIOUS
  <2>3. PICK w \in {W("1"), W("2")} : w = W("1") OBVIOUS
  <2>4. PICK x \in {W("1"), W("2")} : x = W("2") OBVIOUS
  <2>5. Numeral(w) = k /\ Numeral(x) = l BY <2>1, <2>2, <2>3, <2>4, NumeralIs
  <2>6. Spellings(ForStep(v, n, k)) =
           {<<W("tf"), W(v), W("pipeline"), <<n>>, W("step"), w>>}
             \union (IF k < 2 THEN {<<W("tf"), W(v), W("pipeline"), <<n>>>>} ELSE {})
    BY <1>5, <2>5, StepSpelled
  <2>7. Spellings(ForStep(v, n, l)) =
           {<<W("tf"), W(v), W("pipeline"), <<n>>, W("step"), x>>}
             \union (IF l < 2 THEN {<<W("tf"), W(v), W("pipeline"), <<n>>>>} ELSE {})
    BY <1>5, <2>5, StepSpelled
  <2>8. k < 2 /\ ~ (l < 2) BY <2>1, <2>2
  <2>. QED BY <2>1, <2>2, <2>3, <2>4, <2>6, <2>7, <2>8
<1>6. ASSUME NEW v, NEW k, v # "noop", k # <<>>
      PROVE  Spellings(ForConfirm(v, k)) = {<<W("tf"), W(v), W("confirm"), <<k>>>>}
  <2>1. PICK c : c = ForConfirm(v, k) OBVIOUS
  <2>2. /\ c.action = v /\ c.folders = <<>> /\ c.all = FALSE /\ c.destroy = FALSE /\ c.confirm = k /\ c.pipeline = <<>>
        /\ c.step = 0
    <3>1. c = [action |-> v, folders |-> <<>>, all |-> FALSE, destroy |-> FALSE,
                            confirm |-> k, pipeline |-> <<>>, step |-> 0]
      BY <2>1, FieldsAre
    <3>. QED BY <3>1
  <2>3. <<>> # W("all") BY WordsDiffer
  <2>4. Spellings(c) = {(<<W("tf"), W(v)>> \o <<>>) \o <<W("confirm"), <<k>>>>} BY <1>6, <2>2, <2>3 DEF Spellings
  <2>. QED BY <2>1, <2>4, Joined
<1>7. /\ \A v, l : \A d \in BOOLEAN : v # "noop" /\ l # W("all") => Spellings(ForFolders(v, l, d)) = {Then(Heads(v, d), <<l>>)}
      /\ \A v, l : \A d \in BOOLEAN : l = W("all") => Spellings(ForFolders(v, l, d)) = {}
  BY <1>1, Zenon
<1>8. \A v, n : \A d \in BOOLEAN : v # "noop" /\ n # <<>> =>
       Spellings(ForPipeline(v, n, d)) = {Then(Heads(v, d), <<W("pipeline"), <<n>>>>)}
  BY <1>3, Zenon
<1>9. \A v, n : v # "noop" /\ n # <<>> =>
       /\ Spellings(ForStep(v, n, 1)) = {<<W("tf"), W(v), W("pipeline"), <<n>>, W("step"), W("1")>>,
                                         <<W("tf"), W(v), W("pipeline"), <<n>>>>}
       /\ Spellings(ForStep(v, n, 2)) = {<<W("tf"), W(v), W("pipeline"), <<n>>, W("step"), W("2")>>}
  BY <1>5, Zenon
<1>10. \A v, k : v # "noop" /\ k # <<>> =>
       Spellings(ForConfirm(v, k)) = {<<W("tf"), W(v), W("confirm"), <<k>>>>}
  BY <1>6, Zenon
<1>. QED BY <1>2, <1>7, <1>8, <1>9, <1>10, Zenon

LEMMA SameSeq ==
  ASSUME NEW S, NEW a \in Seq(S), NEW b \in Seq(S), Len(a) = Len(b), \A i \in 1..Len(a) : a[i] = b[i]
  PROVE  a = b
OBVIOUS

\* A sequence and a literal one.
LEMMA OneTwo ==
  ASSUME NEW S, NEW t \in Seq(S)
  PROVE  /\ Len(t) = 1 => t = <<t[1]>>
         /\ Len(t) = 2 => t = <<t[1], t[2]>>
         /\ Len(t) = 4 => t = <<t[1], t[2], t[3], t[4]>>
BY Literals

\* The words before the rest of a text, and the rest.
Splits(t, v, rest) ==
  /\ t \in Seq(TokenSeqs) /\ Len(t) >= 2 /\ t[1] = W("tf") /\ t[2] = W(v)
  /\ rest \in Seq(TokenSeqs) /\ Len(rest) = Len(t) - 2 /\ \A i \in 1..Len(rest) : rest[i] = t[i + 2]

LEMMA HeadRest ==
  ASSUME NEW t, NEW v, NEW rest, Splits(t, v, rest)
  PROVE  t = Then(<<W("tf"), W(v)>>, rest)
<1>0. t \in Seq(TokenSeqs) /\ Len(t) >= 2 /\ t[1] = W("tf") /\ t[2] = W(v) BY DEF Splits
<1>1. rest \in Seq(TokenSeqs) /\ Len(rest) = Len(t) - 2 /\ \A i \in 1..Len(rest) : rest[i] = t[i + 2] BY DEF Splits
<1>2. Len(t) \in Nat /\ Len(rest) \in Nat /\ t[1] \in TokenSeqs /\ t[2] \in TokenSeqs BY <1>0, <1>1
<1>3. PICK p \in Seq(TokenSeqs) : p = <<W("tf"), W(v)>> /\ Len(p) = 2 /\ p[1] = t[1] /\ p[2] = t[2]
  <2>1. <<t[1], t[2]>> \in Seq(TokenSeqs) /\ Len(<<t[1], t[2]>>) = 2 /\ <<t[1], t[2]>>[1] = t[1] /\ <<t[1], t[2]>>[2] = t[2]
    BY <1>2
  <2>. QED BY <1>0, <2>1
<1>4. /\ p \o rest \in Seq(TokenSeqs) /\ Len(p \o rest) = Len(p) + Len(rest)
      /\ \A i \in 1..Len(p) : (p \o rest)[i] = p[i]
      /\ \A i \in 1..Len(rest) : (p \o rest)[Len(p) + i] = rest[i]
  <2>0. rest \in Seq(TokenSeqs) BY <1>1
  <2>1. p \o rest \in Seq(TokenSeqs) BY <2>0, Appended
  <2>2. Len(p \o rest) = Len(p) + Len(rest) BY <2>0, Appended
  <2>3. \A i \in 1..Len(p) : (p \o rest)[i] = p[i] BY <2>0, Appended
  <2>4. \A i \in 1..Len(rest) : (p \o rest)[Len(p) + i] = rest[i] BY <2>0, Appended
  <2>. QED BY <2>1, <2>2, <2>3, <2>4
<1>5. PICK q \in Seq(TokenSeqs) : q = p \o rest BY <1>4
<1>6. Len(q) = Len(t) /\ \A i \in 1..Len(t) : q[i] = t[i]
  <2>1. Len(q) = Len(t) BY <1>1, <1>2, <1>3, <1>4, <1>5
  <2>2. q[1] = t[1] /\ q[2] = t[2] BY <1>3, <1>4, <1>5
  <2>3. \A i \in 1..Len(rest) : q[2 + i] = t[2 + i] BY <1>1, <1>3, <1>4, <1>5
  <2>4. \A i \in 3..Len(t) : q[i] = t[i]
    <3>. TAKE i \in 3..Len(t)
    <3>1. i - 2 \in 1..Len(rest) /\ 2 + (i - 2) = i BY <1>1, <1>2
    <3>. QED BY <2>3, <3>1
  <2>. QED BY <1>2, <2>1, <2>2, <2>4
<1>7. t = q BY <1>0, <1>6, SameSeq
<1>. QED BY <1>3, <1>5, <1>7 DEF Then

LEMMA HeadFlag ==
  ASSUME NEW t, NEW v, NEW rest, Splits(t, v, rest),
         NEW d \in BOOLEAN, NEW r \in Seq(TokenSeqs), Follow(rest, r, d)
  PROVE  t = Then(Heads(v, d), r)
<1>0. t \in Seq(TokenSeqs) /\ Len(t) >= 2 /\ t[1] = W("tf") /\ t[2] = W(v) BY DEF Splits
<1>1. /\ rest \in Seq(TokenSeqs) /\ Len(rest) = Len(t) - 2 /\ \A i \in 1..Len(rest) : rest[i] = t[i + 2]
      /\ Len(t) \in Nat /\ Len(rest) \in Nat /\ t[1] \in TokenSeqs /\ t[2] \in TokenSeqs
  BY DEF Splits
<1>2. t = Then(<<W("tf"), W(v)>>, rest) BY HeadRest
<1>3. CASE ~ d BY <1>2, <1>3 DEF Follow, Heads
<1>4. CASE d
  <2>1. rest # <<>> /\ rest[1] = W("--destroy") /\ r = Tail(rest) BY <1>4 DEF Follow
  <2>2. Len(r) = Len(rest) - 1 /\ \A i \in 1..Len(r) : r[i] = rest[i + 1] BY <1>1, <2>1, TailOf
  <2>3. rest[1] \in TokenSeqs /\ Len(rest) >= 1 BY <1>1, <2>1
  <2>4. PICK h \in Seq(TokenSeqs) : h = <<W("tf"), W(v), W("--destroy")>> /\ Len(h) = 3 /\ h[1] = t[1] /\ h[2] = t[2] /\ h[3] = rest[1]
    <3>1. PICK a, b, c : a = t[1] /\ b = t[2] /\ c = rest[1] OBVIOUS
    <3>2. <<a, b, c>> \in Seq(TokenSeqs) /\ Len(<<a, b, c>>) = 3 /\ <<a, b, c>>[1] = a /\ <<a, b, c>>[2] = b /\ <<a, b, c>>[3] = c
      BY <1>1, <2>3, <3>1
    <3>. QED BY <1>0, <2>1, <3>1, <3>2
  <2>5. /\ h \o r \in Seq(TokenSeqs) /\ Len(h \o r) = Len(h) + Len(r)
        /\ \A i \in 1..Len(h) : (h \o r)[i] = h[i]
        /\ \A i \in 1..Len(r) : (h \o r)[Len(h) + i] = r[i]
    BY Appended
  <2>6. PICK x \in Seq(TokenSeqs) : x = h \o r BY <2>5
  <2>7. Len(x) = Len(t) /\ \A i \in 1..Len(t) : x[i] = t[i]
    <3>1. Len(x) = Len(t) BY <1>1, <2>2, <2>4, <2>5, <2>6
    <3>2. x[1] = t[1] /\ x[2] = t[2] /\ x[3] = rest[1]
      <4>1. 1 \in 1..3 /\ 2 \in 1..3 /\ 3 \in 1..3 OBVIOUS
      <4>2. x[1] = h[1] /\ x[2] = h[2] /\ x[3] = h[3] BY <2>4, <2>5, <2>6, <4>1
      <4>. QED BY <2>4, <4>2
    <3>3. rest[1] = t[3]
      <4>1. rest[1] = t[1 + 2] BY <1>1, <2>3
      <4>2. 1 + 2 = 3 OBVIOUS
      <4>. QED BY <4>1, <4>2
    <3>4. \A i \in 1..Len(r) : x[3 + i] = rest[i + 1] BY <2>2, <2>4, <2>5, <2>6
    <3>5. \A i \in 4..Len(t) : x[i] = t[i]
      <4>. TAKE i \in 4..Len(t)
      <4>1. i - 3 \in 1..Len(r) /\ 3 + (i - 3) = i /\ (i - 3) + 1 = i - 2 /\ i - 2 \in 1..Len(rest) /\ (i - 2) + 2 = i
        BY <1>1, <2>2
      <4>2. x[3 + (i - 3)] = rest[(i - 3) + 1] BY <3>4, <4>1
      <4>3. rest[i - 2] = t[(i - 2) + 2] BY <1>1, <4>1
      <4>. QED BY <4>1, <4>2, <4>3
    <3>. QED BY <1>1, <3>1, <3>2, <3>3, <3>5
  <2>8. t = x BY <1>0, <2>7, SameSeq
  <2>. QED BY <1>4, <2>4, <2>6, <2>8 DEF Heads, Then
<1>. QED BY <1>3, <1>4
\* A token of one part.
LEMMA PartIs ==
  /\ \A u \in TokenSeqs : IsPipelineName(u) => u = <<u[1]>> /\ u[1] # <<>>
  /\ \A u : u \in {W(k) : k \in Tokens} => u = <<u[1]>> /\ u[1] # <<>>
<1>1. ASSUME NEW u \in TokenSeqs, IsPipelineName(u) PROVE u = <<u[1]>> /\ u[1] # <<>>
  <2>1. Len(u) = 1 /\ u \in Seq(Seq(Letters) \ {<<>>}) BY <1>1 DEF IsPipelineName, TokenSeqs
  <2>2. u[1] \in Seq(Letters) \ {<<>>} BY <2>1
  <2>. QED BY <2>1, <2>2, OneTwo
<1>2. ASSUME NEW k \in Tokens PROVE W(k) = <<W(k)[1]>> /\ W(k)[1] # <<>>
  <2>1. W(k)[1] = <<k>> /\ W(k) = <<<<k>>>> BY WordsDiffer
  <2>2. <<k>> # <<>> OBVIOUS
  <2>. QED BY <2>1, <2>2
<1>. QED BY <1>1, <1>2

LEMMA MisreadNone == NothingMisread
<1>. SUFFICES ASSUME NEW t \in Texts, Parse(t) # Rejected PROVE t \in Spellings(Parse(t)) BY DEF NothingMisread
<1>1. t \in Seq(TokenSeqs) BY TextsAre
<1>2. PICK c : c = Parse(t) OBVIOUS
<1>3. PICK rest : rest = SubSeq(t, 3, Len(t)) OBVIOUS
<1>4. PICK v : Len(t) >= 2 /\ t[1] = W("tf") /\ t[2] = W(v) /\ Understood(v, rest, c) BY <1>1, <1>2, <1>3, ParseIs
<1>5. /\ rest \in Seq(TokenSeqs) /\ t = Then(<<W("tf"), W(v)>>, rest)
      /\ \A d \in BOOLEAN, r \in Seq(TokenSeqs) : Follow(rest, r, d) => t = Then(Heads(v, d), r)
  <2>1. t[1] = W("tf") /\ t[2] = W(v) /\ Len(t) >= 2 BY <1>4
  <2>2. rest \in Seq(TokenSeqs) /\ Len(rest) = Len(t) - 2 /\ \A i \in 1..Len(rest) : rest[i] = t[i + 2]
    BY <1>1, <1>3, <2>1, RestOf
  <2>3. Splits(t, v, rest) BY <1>1, <2>1, <2>2 DEF Splits
  <2>. QED BY <2>2, <2>3, HeadRest, HeadFlag
<1>6. \A a, b : W(a) = W(b) => a = b BY WordsDiffer
<1>7. ASSUME NEW d \in BOOLEAN, NEW r \in Seq(TokenSeqs), Follow(rest, r, d), AsPipeline(r, c, v, d), v # "noop"
      PROVE  t \in Spellings(c)
  <2>1. Len(r) = 2 /\ r[1] = W("pipeline") /\ IsPipelineName(r[2]) /\ c = ForPipeline(v, r[2][1], d) BY <1>7 DEF AsPipeline
  <2>2. r[2] \in TokenSeqs /\ r = <<r[1], r[2]>> BY <2>1, OneTwo
  <2>3. r[2] = <<r[2][1]>> /\ r[2][1] # <<>> BY <2>1, <2>2, PartIs
  <2>4. Spellings(c) = {Then(Heads(v, d), <<W("pipeline"), <<r[2][1]>>>>)} BY <1>7, <2>1, <2>3, SpellingsAre
  <2>5. t = Then(Heads(v, d), r) BY <1>5, <1>7
  <2>. QED BY <2>1, <2>2, <2>3, <2>4, <2>5
<1>8. ASSUME NEW d \in BOOLEAN, NEW r \in Seq(TokenSeqs), Follow(rest, r, d), AsFolders(r, c, v, d), v # "noop"
      PROVE  t \in Spellings(c)
  <2>1. Len(r) = 1 /\ r[1] # W("all") /\ c = ForFolders(v, r[1], d) BY <1>8 DEF AsFolders
  <2>2. r = <<r[1]>> BY <2>1, OneTwo
  <2>3. Spellings(c) = {Then(Heads(v, d), <<r[1]>>)} BY <1>8, <2>1, SpellingsAre
  <2>4. t = Then(Heads(v, d), r) BY <1>5, <1>8
  <2>. QED BY <2>2, <2>3, <2>4
<1>9. PICK no \in BOOLEAN : no = FALSE OBVIOUS
<1>10. Len(rest) > 0 /\ rest[1] # W("--destroy") => Follow(rest, rest, no) BY <1>5, <1>9 DEF Follow
<1>11. CASE v = "drift"
  <2>1. AsPipeline(rest, c, v, no) BY <1>4, <1>9, <1>11 DEF Understood, Mutations
  <2>2. Len(rest) > 0 /\ rest[1] # W("--destroy")
    <3>1. Len(rest) = 2 => Len(rest) > 0 OBVIOUS
    <3>. QED BY <2>1, <3>1, <1>6 DEF AsPipeline
  <2>. QED BY <1>2, <1>5, <1>7, <1>10, <1>11, <2>1, <2>2
<1>12. CASE v = "plan"
  <2>1. PICK d \in BOOLEAN, r \in Seq(TokenSeqs) : Follow(rest, r, d) /\ (AsPipeline(r, c, v, d) \/ AsFolders(r, c, v, d))
    BY <1>4, <1>12 DEF Understood, Mutations
  <2>. QED BY <1>2, <1>7, <1>8, <1>12, <2>1
<1>13. CASE v = "report"
  <2>1. rest = <<>> /\ c = ForAll BY <1>4, <1>13 DEF Understood, Mutations
  <2>2. t = <<W("tf"), W("report")>> BY <1>5, <1>13, <2>1, Joined DEF Then
  <2>. QED BY <1>2, <2>1, <2>2, SpellingsAre
<1>14. CASE v \in Mutations
  <2>0. v # "noop" /\ v # "drift" /\ v # "plan" /\ v # "report" BY <1>14 DEF Mutations
  <2>1. CASE AsFolders(rest, c, v, FALSE)
    <3>0. AsFolders(rest, c, v, no) BY <1>9, <2>1
    <3>1. CASE rest[1] # W("--destroy")
      <4>1. Len(rest) > 0
        <5>1. Len(rest) = 1 => Len(rest) > 0 OBVIOUS
        <5>. QED BY <5>1, <2>1 DEF AsFolders
      <4>. QED BY <1>2, <1>5, <1>8, <1>10, <2>0, <3>0, <3>1, <4>1
    <3>2. CASE rest[1] = W("--destroy")
      <4>1. Len(rest) = 1 /\ rest[1] # W("all") /\ c = ForFolders(v, rest[1], no) BY <3>0 DEF AsFolders
      <4>2. Spellings(c) = {Then(Heads(v, no), <<rest[1]>>)} BY <2>0, <4>1, SpellingsAre
      <4>3. rest = <<rest[1]>> BY <1>5, <4>1, OneTwo
      <4>4. t = Then(Heads(v, no), rest) BY <1>5, <1>9 DEF Heads
      <4>. QED BY <1>2, <4>2, <4>3, <4>4
    <3>. QED BY <3>1, <3>2
  <2>2. CASE AsConfirm(rest, c, v)
    <3>1. Len(rest) = 2 /\ rest[1] = W("confirm") /\ rest[2] \in {W(k) : k \in Tokens} /\ c = ForConfirm(v, rest[2][1])
      BY <2>2 DEF AsConfirm
    <3>2. rest[2] = <<rest[2][1]>> /\ rest[2][1] # <<>> BY <3>1, PartIs
    <3>0. PICK k, u : k = rest[2][1] /\ u = <<k>> OBVIOUS
    <3>3. Spellings(c) = {<<W("tf"), W(v), W("confirm"), u>>} BY <2>0, <3>0, <3>1, <3>2, SpellingsAre
    <3>4. rest = <<W("confirm"), u>> BY <1>5, <3>0, <3>1, <3>2, OneTwo
    <3>5. t = <<W("tf"), W(v), W("confirm"), u>> BY <1>5, <3>4, Joined DEF Then
    <3>. QED BY <1>2, <3>3, <3>5
  <2>3. CASE AsStep(rest, c, v)
    <3>1. /\ Len(rest) \in {2, 4} /\ rest[1] = W("pipeline") /\ IsPipelineName(rest[2])
          /\ Len(rest) = 4 => rest[3] = W("step") /\ Numeral(rest[4]) # 0
          /\ c = ForStep(v, rest[2][1], IF Len(rest) = 4 THEN Numeral(rest[4]) ELSE 1)
      BY <2>3 DEF AsStep
    <3>2. rest[2] \in TokenSeqs
      <4>1. 2 \in 1..Len(rest) BY <3>1
      <4>. QED BY <1>5, <4>1
    <3>3. PICK n : n = rest[2][1] /\ rest[2] = <<n>> /\ n # <<>> BY <3>1, <3>2, PartIs
    <3>4. CASE Len(rest) = 2
      <4>1. c = ForStep(v, n, 1) BY <3>1, <3>3, <3>4
      <4>2. rest = <<W("pipeline"), <<n>>>> BY <1>5, <3>1, <3>3, <3>4, OneTwo
      <4>3. t = <<W("tf"), W(v), W("pipeline"), <<n>>>> BY <1>5, <4>2, Joined DEF Then
      <4>4. Spellings(ForStep(v, n, 1)) = {<<W("tf"), W(v), W("pipeline"), <<n>>, W("step"), W("1")>>,
                                         <<W("tf"), W(v), W("pipeline"), <<n>>>>}
        BY <2>0, <3>3, SpellingsAre
      <4>. QED BY <1>2, <4>1, <4>3, <4>4
    <3>5. CASE Len(rest) = 4
      <4>1. c = ForStep(v, n, Numeral(rest[4])) /\ rest[3] = W("step") /\ Numeral(rest[4]) # 0 BY <3>1, <3>3, <3>5
      <4>2. PICK w : w = rest[4] OBVIOUS
      <4>3. rest = <<W("pipeline"), <<n>>, W("step"), w>> BY <1>5, <3>1, <3>3, <3>5, <4>1, <4>2, OneTwo
      <4>4. t = <<W("tf"), W(v), W("pipeline"), <<n>>, W("step"), w>>
        <5>1. rest = <<W("pipeline"), <<n>>>> \o <<W("step"), w>> BY <4>3, Joined
        <5>2. t[3] = W("pipeline") /\ t[4] = <<n>> /\ t[5] = W("step") /\ t[6] = w /\ Len(t) = 6
          <6>1. Len(rest) = Len(t) - 2 /\ \A i \in 1..Len(rest) : rest[i] = t[i + 2] BY <1>1, <1>3, <1>4, RestOf
          <6>2. rest[1] = t[1 + 2] /\ rest[2] = t[2 + 2] /\ rest[3] = t[3 + 2] /\ rest[4] = t[4 + 2] BY <3>5, <6>1
          <6>3. Len(t) \in Nat BY <1>1
          <6>4. PICK l \in Nat : l = Len(t) BY <6>3
          <6>5. l - 2 = 4 BY <3>5, <6>1, <6>4
          <6>6. l = 6 BY <6>5
          <6>7. 1 + 2 = 3 /\ 2 + 2 = 4 /\ 3 + 2 = 5 /\ 4 + 2 = 6 OBVIOUS
          <6>. QED BY <3>1, <3>3, <4>1, <4>2, <6>2, <6>4, <6>6, <6>7
        <5>. QED BY <1>1, <1>4, <5>2, Literals
      <4>5. w = W("1") \/ w = W("2") BY <4>1, <4>2, NumeralIs
      <4>6. CASE w = W("1")
        <5>1. c = ForStep(v, n, 1) BY <4>1, <4>2, <4>6, NumeralIs
        <5>2. Spellings(ForStep(v, n, 1)) = {<<W("tf"), W(v), W("pipeline"), <<n>>, W("step"), W("1")>>,
                                           <<W("tf"), W(v), W("pipeline"), <<n>>>>}
          BY <2>0, <3>3, SpellingsAre
        <5>. QED BY <1>2, <4>4, <4>6, <5>1, <5>2
      <4>7. CASE w = W("2")
        <5>1. c = ForStep(v, n, 2) BY <4>1, <4>2, <4>7, NumeralIs
        <5>2. Spellings(ForStep(v, n, 2)) = {<<W("tf"), W(v), W("pipeline"), <<n>>, W("step"), W("2")>>}
          BY <2>0, <3>3, SpellingsAre
        <5>. QED BY <1>2, <4>4, <4>7, <5>1, <5>2
      <4>. QED BY <4>5, <4>6, <4>7
    <3>. QED BY <3>1, <3>4, <3>5
  <2>. QED BY <1>4, <2>0, <2>1, <2>2, <2>3 DEF Understood
<1>. QED BY <1>4, <1>11, <1>12, <1>13, <1>14 DEF Understood

(***************************************************************************)
(* The grammar: what is spelled                                            *)
(***************************************************************************)

LEMMA WordIs == \A a \in Letters : W(a) \in TokenSeqs
<1>. TAKE a \in Letters
<1>1. <<a>> \in Seq(Letters) \ {<<>>} OBVIOUS
<1>2. PICK p \in Seq(Letters) \ {<<>>} : p = <<a>> BY <1>1
<1>3. <<p>> \in TokenSeqs
  <2>1. <<p>> \in Seq(Seq(Letters) \ {<<>>}) /\ <<p>> # <<>> OBVIOUS
  <2>. QED BY <2>1 DEF TokenSeqs
<1>. QED BY <1>2, <1>3 DEF W

LEMMA ParseSplit ==
  ASSUME NEW t, NEW v, NEW rest, Splits(t, v, rest), NEW c, Understood(v, rest, c)
  PROVE  Parse(t) = c
<1>1. t \in Seq(TokenSeqs) /\ Len(t) >= 2 /\ t[1] = W("tf") /\ t[2] = W(v) BY DEF Splits
<1>2. rest \in Seq(TokenSeqs) /\ Len(rest) = Len(t) - 2 /\ \A i \in 1..Len(rest) : rest[i] = t[i + 2] BY DEF Splits
<1>3. PICK r \in Seq(TokenSeqs) :
        r = SubSeq(t, 3, Len(t)) /\ Len(r) = Len(t) - 2 /\ \A i \in 1..Len(r) : r[i] = t[i + 2]
  <2>1. PICK r : r = SubSeq(t, 3, Len(t)) OBVIOUS
  <2>2. r \in Seq(TokenSeqs) /\ Len(r) = Len(t) - 2 /\ \A i \in 1..Len(r) : r[i] = t[i + 2] BY <1>1, <2>1, RestOf
  <2>. QED BY <2>1, <2>2
<1>4. r = rest
  <2>1. Len(r) = Len(rest) /\ \A i \in 1..Len(r) : r[i] = rest[i] BY <1>2, <1>3
  <2>. QED BY <1>2, <2>1, SameSeq
<1>. QED BY <1>1, <1>3, <1>4, ParseIs

\* A text made of its words.
LEMMA JoinSplits ==
  ASSUME NEW v \in Letters, NEW r \in Seq(TokenSeqs), NEW t, t = Then(<<W("tf"), W(v)>>, r)
  PROVE  Splits(t, v, r)
<1>1. W("tf") \in TokenSeqs /\ W(v) \in TokenSeqs BY WordIs DEF Letters
<1>2. PICK a \in TokenSeqs, b \in TokenSeqs : a = W("tf") /\ b = W(v) BY <1>1
<1>3. PICK p \in Seq(TokenSeqs) : p = <<a, b>> /\ Len(p) = 2 /\ p[1] = a /\ p[2] = b
  <2>1. <<a, b>> \in Seq(TokenSeqs) /\ Len(<<a, b>>) = 2 /\ <<a, b>>[1] = a /\ <<a, b>>[2] = b OBVIOUS
  <2>. QED BY <2>1
<1>4. t = p \o r BY <1>2, <1>3 DEF Then
<1>5. PICK q \in Seq(TokenSeqs) : q = p \o r BY Appended
<1>6. Len(q) = Len(p) + Len(r) BY <1>5, Appended
<1>7. \A i \in 1..Len(p) : q[i] = p[i] BY <1>5, Appended
<1>8. \A i \in 1..Len(r) : q[Len(p) + i] = r[i] BY <1>5, Appended
<1>9. Len(q) >= 2 /\ Len(r) = Len(q) - 2 BY <1>3, <1>6
<1>10. q[1] = a /\ q[2] = b
  <2>1. 1 \in 1..2 /\ 2 \in 1..2 OBVIOUS
  <2>. QED BY <1>3, <1>7, <2>1
<1>11. \A i \in 1..Len(r) : r[i] = q[i + 2]
  <2>. TAKE i \in 1..Len(r)
  <2>1. 2 + i = i + 2 OBVIOUS
  <2>. QED BY <1>3, <1>8, <2>1
<1>. QED BY <1>2, <1>4, <1>5, <1>9, <1>10, <1>11 DEF Splits

\* The same with the flag.
LEMMA FlagSplits ==
  ASSUME NEW v \in Letters, NEW r \in Seq(TokenSeqs), NEW d \in BOOLEAN, NEW t, t = Then(Heads(v, d), r),
         Len(r) > 0, r[1] # W("--destroy")
  PROVE  \E rest \in Seq(TokenSeqs) : Splits(t, v, rest) /\ Follow(rest, r, d)
<1>1. CASE ~ d
  <2>1. Heads(v, d) = <<W("tf"), W(v)>> BY <1>1 DEF Heads
  <2>2. Splits(t, v, r) BY <2>1, JoinSplits
  <2>3. Follow(r, r, d) BY <1>1 DEF Follow
  <2>. QED BY <2>2, <2>3
<1>2. CASE d
  <2>1. PICK a \in TokenSeqs, b \in TokenSeqs, c \in TokenSeqs : a = W("tf") /\ b = W(v) /\ c = W("--destroy")
    BY WordIs DEF Letters
  <2>2. PICK s \in Seq(TokenSeqs) : s = <<c>> /\ Len(s) = 1 /\ s[1] = c
    <3>1. <<c>> \in Seq(TokenSeqs) /\ Len(<<c>>) = 1 /\ <<c>>[1] = c OBVIOUS
    <3>. QED BY <3>1
  <2>3. PICK rest \in Seq(TokenSeqs) : rest = s \o r BY Appended
  <2>4. Len(rest) = 1 + Len(r) BY <2>2, <2>3, Appended
  <2>5. rest[1] = c
    <3>1. 1 \in 1..Len(s) BY <2>2
    <3>. QED BY <2>2, <2>3, <3>1, Appended
  <2>6. \A i \in 1..Len(r) : rest[1 + i] = r[i] BY <2>2, <2>3, Appended
  <2>7. rest # <<>> /\ Tail(rest) = r
    <3>1. rest # <<>> BY <2>4
    <3>2. Tail(rest) \in Seq(TokenSeqs) /\ Len(Tail(rest)) = Len(rest) - 1 /\ \A i \in 1..Len(Tail(rest)) : Tail(rest)[i] = rest[i + 1]
      BY <3>1, TailOf
    <3>3. PICK x \in Seq(TokenSeqs) : x = Tail(rest) BY <3>2
    <3>4. Len(x) = Len(r) BY <2>4, <3>2, <3>3
    <3>5. \A i \in 1..Len(r) : x[i] = r[i]
      <4>. TAKE i \in 1..Len(r)
      <4>1. x[i] = rest[i + 1] BY <3>2, <3>3, <3>4
      <4>2. 1 + i = i + 1 OBVIOUS
      <4>. QED BY <2>6, <4>1, <4>2
    <3>6. x = r BY <3>4, <3>5, SameSeq
    <3>. QED BY <3>1, <3>3, <3>6
  <2>8. Follow(rest, r, d) BY <1>2, <2>1, <2>5, <2>7 DEF Follow
  <2>9. PICK u : u = Then(<<W("tf"), W(v)>>, rest) OBVIOUS
  <2>10. Splits(u, v, rest) BY <2>9, JoinSplits
  <2>11. u = Then(Heads(v, d), r) BY <2>8, <2>10, HeadFlag
  <2>. QED BY <2>8, <2>10, <2>11
<1>. QED BY <1>1, <1>2

LEMMA PartsAre ==
  /\ \A l \in Lists : /\ l \in TokenSeqs /\ <<"">> \notin ToSet(l)
                      /\ l # W("pipeline") /\ l # W("confirm") /\ l # W("--destroy")
  /\ \A n \in PipelineNames : n # <<>> /\ <<n>> \in TokenSeqs /\ IsPipelineName(<<n>>)
<1>1. \A text \in Texts : ToSet(text) \subseteq TokenSeqs
  <2>. TAKE text \in Texts
  <2>1. text \in Seq(TokenSeqs) BY TextsAre
  <2>. QED BY <2>1 DEF ToSet
<1>2. Parts \subseteq TokenSeqs BY <1>1 DEF Parts
<1>3. ASSUME NEW n \in PipelineNames PROVE n # <<>> /\ <<n>> \in TokenSeqs /\ IsPipelineName(<<n>>)
  <2>1. PICK u \in TokenSeqs : IsPipelineName(u) /\ n = u[1] BY <1>2 DEF PipelineNames
  <2>2. u = <<n>> /\ n # <<>> BY <2>1, PartIs
  <2>. QED BY <2>1, <2>2
<1>4. ASSUME NEW l \in Lists
      PROVE  /\ l \in TokenSeqs /\ <<"">> \notin ToSet(l)
             /\ l # W("pipeline") /\ l # W("confirm") /\ l # W("--destroy")
  BY <1>2 DEF Lists
<1>. QED BY <1>3, <1>4

\* The commands one may want to give.
LEMMA WishesAre ==
  ASSUME NEW c \in Wishes
  PROVE  \/ \E l \in Lists, d \in BOOLEAN : c = ForFolders("plan", l, d)
         \/ \E l \in Lists : c = ForFolders("apply", l, FALSE)
         \/ \E l \in Lists : c = ForFolders("destroy", l, FALSE) /\ Len(l) = 1
         \/ c = ForAll
         \/ \E n \in PipelineNames, d \in BOOLEAN : c = ForPipeline("plan", n, d)
         \/ \E n \in PipelineNames : c = ForPipeline("drift", n, FALSE)
         \/ \E n \in PipelineNames, v \in Mutations, k \in {1, 2} : c = ForStep(v, n, k)
         \/ \E v \in Mutations, t \in Tokens : c = ForConfirm(v, <<t>>)
<1>. DEFINE A1 == {ForFolders("plan", l, d) : l \in Lists, d \in BOOLEAN}
            A2 == {ForFolders("apply", l, FALSE) : l \in Lists}
            A3 == {ForFolders("destroy", l, FALSE) : l \in {m \in Lists : Len(m) = 1}}
            A4 == {ForAll}
            A5 == {ForPipeline("plan", n, d) : n \in PipelineNames, d \in BOOLEAN}
            A6 == {ForPipeline("drift", n, FALSE) : n \in PipelineNames}
            A7 == {ForStep(v, n, k) : v \in Mutations, n \in PipelineNames, k \in {1, 2}}
            A8 == {ForConfirm(v, <<t>>) : v \in Mutations, t \in Tokens}
<1>1. c \in A1 => \E l \in Lists, d \in BOOLEAN : c = ForFolders("plan", l, d)
  OBVIOUS
<1>2. c \in A2 => \E l \in Lists : c = ForFolders("apply", l, FALSE)
  OBVIOUS
<1>3. c \in A3 => \E l \in Lists : c = ForFolders("destroy", l, FALSE) /\ Len(l) = 1
  OBVIOUS
<1>4. c \in A4 => c = ForAll
  OBVIOUS
<1>5. c \in A5 => \E n \in PipelineNames, d \in BOOLEAN : c = ForPipeline("plan", n, d)
  OBVIOUS
<1>6. c \in A6 => \E n \in PipelineNames : c = ForPipeline("drift", n, FALSE)
  OBVIOUS
<1>7. c \in A7 => \E v \in Mutations, n \in PipelineNames, k \in {1, 2} : c = ForStep(v, n, k)
  OBVIOUS
<1>8. c \in A8 => \E v \in Mutations, t \in Tokens : c = ForConfirm(v, <<t>>)
  OBVIOUS
<1>9. Wishes = A1 \union A2 \union A3 \union A4 \union A5 \union A6 \union A7 \union A8 BY DEF Wishes
<1>. HIDE DEF A1, A2, A3, A4, A5, A6, A7, A8
<1>10. c \in A1 \/ c \in A2 \/ c \in A3 \/ c \in A4 \/ c \in A5 \/ c \in A6 \/ c \in A7 \/ c \in A8 BY <1>9
<1>. QED BY <1>1, <1>2, <1>3, <1>4, <1>5, <1>6, <1>7, <1>8, <1>10, Zenon

LEMMA OneRest ==
  ASSUME NEW S, NEW a \in S
  PROVE  \E r \in Seq(S) : r = <<a>> /\ Len(r) = 1 /\ r[1] = a
<1>1. <<a>> \in Seq(S) /\ Len(<<a>>) = 1 /\ <<a>>[1] = a OBVIOUS
<1>. QED BY <1>1

LEMMA TwoRest ==
  ASSUME NEW S, NEW a \in S, NEW b \in S
  PROVE  \E r \in Seq(S) : r = <<a, b>> /\ Len(r) = 2 /\ r[1] = a /\ r[2] = b
<1>1. <<a, b>> \in Seq(S) /\ Len(<<a, b>>) = 2 /\ <<a, b>>[1] = a /\ <<a, b>>[2] = b OBVIOUS
<1>. QED BY <1>1

LEMMA FourRest ==
  ASSUME NEW S, NEW a \in S, NEW b \in S, NEW c \in S, NEW d \in S
  PROVE  \E r \in Seq(S) : r = <<a, b, c, d>> /\ Len(r) = 4 /\ r[1] = a /\ r[2] = b /\ r[3] = c /\ r[4] = d
<1>1. /\ <<a, b, c, d>> \in Seq(S) /\ Len(<<a, b, c, d>>) = 4
      /\ <<a, b, c, d>>[1] = a /\ <<a, b, c, d>>[2] = b /\ <<a, b, c, d>>[3] = c /\ <<a, b, c, d>>[4] = d
  OBVIOUS
<1>. QED BY <1>1

LEMMA JoinedFour == \A a, b, c, d, e, f : <<a, b>> \o <<c, d, e, f>> = <<a, b, c, d, e, f>>
<1>. SUFFICES ASSUME NEW a, NEW b, NEW c, NEW d, NEW e, NEW f
              PROVE  <<a, b>> \o <<c, d, e, f>> = <<a, b, c, d, e, f>>
  OBVIOUS
<1>. DEFINE S == {a, b, c, d, e, f}
<1>0. a \in S /\ b \in S /\ c \in S /\ d \in S /\ e \in S /\ f \in S OBVIOUS
<1>. HIDE DEF S
<1>1. PICK p \in Seq(S) : p = <<a, b>> /\ Len(p) = 2 /\ p[1] = a /\ p[2] = b BY <1>0, TwoRest
<1>2. PICK q \in Seq(S) : q = <<c, d, e, f>> /\ Len(q) = 4 /\ q[1] = c /\ q[2] = d /\ q[3] = e /\ q[4] = f
  <2>1. <<c, d, e, f>> \in Seq(S) BY <1>0
  <2>2. /\ Len(<<c, d, e, f>>) = 4 /\ <<c, d, e, f>>[1] = c /\ <<c, d, e, f>>[2] = d
        /\ <<c, d, e, f>>[3] = e /\ <<c, d, e, f>>[4] = f
    OBVIOUS
  <2>. QED BY <2>1, <2>2
<1>3. PICK x \in Seq(S) : /\ x = p \o q /\ Len(x) = Len(p) + Len(q)
                          /\ \A i \in 1..Len(p) : x[i] = p[i]
                          /\ \A j \in 1..Len(q) : x[Len(p) + j] = q[j]
  <2>1. p \o q \in Seq(S) BY Appended
  <2>2. Len(p \o q) = Len(p) + Len(q) BY Appended
  <2>3. \A i \in 1..Len(p) : (p \o q)[i] = p[i] BY Appended
  <2>4. \A i \in 1..Len(q) : (p \o q)[Len(p) + i] = q[i] BY Appended
  <2>5. PICK y : y = p \o q OBVIOUS
  <2>. QED BY <2>1, <2>2, <2>3, <2>4, <2>5
<1>4. Len(x) = 6 /\ x[1] = a /\ x[2] = b /\ x[3] = c /\ x[4] = d /\ x[5] = e /\ x[6] = f
  <2>1. Len(x) = 6 BY <1>1, <1>2, <1>3
  <2>2. x[1] = p[1] /\ x[2] = p[2] BY <1>1, <1>3
  <2>3. x[2 + 1] = q[1] /\ x[2 + 2] = q[2] /\ x[2 + 3] = q[3] /\ x[2 + 4] = q[4]
    <3>1. 1 \in 1..4 /\ 2 \in 1..4 /\ 3 \in 1..4 /\ 4 \in 1..4 OBVIOUS
    <3>. QED BY <1>1, <1>2, <1>3, <3>1
  <2>4. 2 + 1 = 3 /\ 2 + 2 = 4 /\ 2 + 3 = 5 /\ 2 + 4 = 6 OBVIOUS
  <2>5. x[3] = q[1] /\ x[4] = q[2] /\ x[5] = q[3] /\ x[6] = q[4] BY <2>3, <2>4
  <2>. QED BY <1>1, <1>2, <2>1, <2>2, <2>5
<1>5. x = <<x[1], x[2], x[3], x[4], x[5], x[6]>> BY <1>4, Literals
<1>. QED BY <1>1, <1>2, <1>3, <1>4, <1>5

LEMMA JoinedTwo ==
  /\ \A a, b : Then(<<a, b>>, <<>>) = <<a, b>>
  /\ \A a, b, c, d : Then(<<a, b>>, <<c, d>>) = <<a, b, c, d>>
  /\ \A a, b, c, d, e, f : Then(<<a, b>>, <<c, d, e, f>>) = <<a, b, c, d, e, f>>
<1>1. \A a, b : <<a, b>> \o <<>> = <<a, b>> BY Joined, Zenon
<1>2. \A a, b, c, d : <<a, b>> \o <<c, d>> = <<a, b, c, d>> BY Joined, Zenon
<1>. QED BY <1>1, <1>2, JoinedFour, Zenon DEF Then

\* What is said of folders and of pipelines.
LEMMA FoldersRead ==
  ASSUME NEW l \in Lists, NEW d \in BOOLEAN, NEW t \in Spellings(ForFolders("plan", l, d))
  PROVE  Parse(t) = ForFolders("plan", l, d)
<1>0. l \in TokenSeqs /\ <<"">> \notin ToSet(l) /\ l # W("pipeline") /\ l # W("--destroy") BY PartsAre
<1>1. PICK v : v = "plan" /\ v # "noop" /\ v \in Letters BY DEF Letters
<1>2. l # W("all")
  <2>1. l = W("all") => Spellings(ForFolders(v, l, d)) = {} BY SpellingsAre
  <2>. QED BY <1>1, <2>1
<1>3. t = Then(Heads(v, d), <<l>>)
  <2>1. Spellings(ForFolders(v, l, d)) = {Then(Heads(v, d), <<l>>)} BY <1>1, <1>2, SpellingsAre
  <2>. QED BY <1>1, <2>1
<1>4. PICK r \in Seq(TokenSeqs) : r = <<l>> /\ Len(r) = 1 /\ r[1] = l BY <1>0, OneRest
<1>5. Len(r) > 0 BY <1>4
<1>6. PICK rest \in Seq(TokenSeqs) : Splits(t, v, rest) /\ Follow(rest, r, d)
  BY <1>0, <1>1, <1>3, <1>4, <1>5, FlagSplits
<1>7. PICK c : c = ForFolders(v, l, d) OBVIOUS
<1>8. AsFolders(r, c, v, d) BY <1>0, <1>2, <1>4, <1>7 DEF AsFolders
<1>9. Understood(v, rest, c) BY <1>1, <1>6, <1>8 DEF Understood
<1>10. Parse(t) = c BY <1>6, <1>9, ParseSplit
<1>. QED BY <1>1, <1>7, <1>10

LEMMA PipelineRead ==
  ASSUME NEW n \in PipelineNames, NEW d \in BOOLEAN, NEW t \in Spellings(ForPipeline("plan", n, d))
  PROVE  Parse(t) = ForPipeline("plan", n, d)
<1>0. n # <<>> /\ <<n>> \in TokenSeqs /\ IsPipelineName(<<n>>) BY PartsAre
<1>1. PICK v : v = "plan" /\ v # "noop" /\ v \in Letters BY DEF Letters
<1>2. W("pipeline") \in TokenSeqs /\ W("pipeline") # W("--destroy") BY WordIs, WordsDiffer DEF Letters
<1>3. t = Then(Heads(v, d), <<W("pipeline"), <<n>>>>)
  <2>1. Spellings(ForPipeline(v, n, d)) = {Then(Heads(v, d), <<W("pipeline"), <<n>>>>)} BY <1>0, <1>1, SpellingsAre
  <2>. QED BY <1>1, <2>1
<1>4. PICK a \in TokenSeqs, b \in TokenSeqs : a = W("pipeline") /\ b = <<n>> /\ b[1] = n BY <1>0, <1>2
<1>44. PICK r \in Seq(TokenSeqs) : r = <<a, b>> /\ Len(r) = 2 /\ r[1] = a /\ r[2] = b BY TwoRest
<1>5. Len(r) > 0 BY <1>44
<1>6. PICK rest \in Seq(TokenSeqs) : Splits(t, v, rest) /\ Follow(rest, r, d)
  BY <1>1, <1>2, <1>3, <1>4, <1>44, <1>5, FlagSplits
<1>7. PICK c : c = ForPipeline(v, n, d) OBVIOUS
<1>8. AsPipeline(r, c, v, d) BY <1>0, <1>4, <1>44, <1>7 DEF AsPipeline
<1>9. Understood(v, rest, c) BY <1>1, <1>6, <1>8 DEF Understood
<1>10. Parse(t) = c BY <1>6, <1>9, ParseSplit
<1>. QED BY <1>1, <1>7, <1>10

LEMMA DriftRead ==
  ASSUME NEW n \in PipelineNames, NEW t \in Spellings(ForPipeline("drift", n, FALSE))
  PROVE  Parse(t) = ForPipeline("drift", n, FALSE)
<1>0. n # <<>> /\ <<n>> \in TokenSeqs /\ IsPipelineName(<<n>>) BY PartsAre
<1>1. PICK v : v = "drift" /\ v # "noop" /\ v \in Letters BY DEF Letters
<1>11. PICK d \in BOOLEAN : d = FALSE OBVIOUS
<1>2. W("pipeline") \in TokenSeqs BY WordIs DEF Letters
<1>3. t = Then(<<W("tf"), W(v)>>, <<W("pipeline"), <<n>>>>)
  <2>1. Spellings(ForPipeline(v, n, d)) = {Then(Heads(v, d), <<W("pipeline"), <<n>>>>)} BY <1>0, <1>1, SpellingsAre
  <2>2. Heads(v, d) = <<W("tf"), W(v)>> BY <1>11 DEF Heads
  <2>. QED BY <1>1, <1>11, <2>1, <2>2
<1>4. PICK a \in TokenSeqs, b \in TokenSeqs : a = W("pipeline") /\ b = <<n>> /\ b[1] = n BY <1>0, <1>2
<1>44. PICK r \in Seq(TokenSeqs) : r = <<a, b>> /\ Len(r) = 2 /\ r[1] = a /\ r[2] = b BY TwoRest
<1>6. Splits(t, v, r) BY <1>1, <1>3, <1>4, <1>44, JoinSplits
<1>7. PICK c : c = ForPipeline(v, n, d) OBVIOUS
<1>8. AsPipeline(r, c, v, d) BY <1>0, <1>4, <1>44, <1>7 DEF AsPipeline
<1>9. Understood(v, r, c) BY <1>1, <1>11, <1>8 DEF Understood
<1>10. Parse(t) = c BY <1>6, <1>9, ParseSplit
<1>. QED BY <1>1, <1>11, <1>7, <1>10

LEMMA MutationRead ==
  ASSUME NEW v \in Mutations, NEW l \in Lists, v = "destroy" => Len(l) = 1,
         NEW t \in Spellings(ForFolders(v, l, FALSE))
  PROVE  Parse(t) = ForFolders(v, l, FALSE)
<1>0. l \in TokenSeqs /\ <<"">> \notin ToSet(l) /\ l # W("pipeline") /\ l # W("confirm") BY PartsAre
<1>1. v # "noop" /\ v \in Letters BY DEF Letters, Mutations
<1>11. PICK d \in BOOLEAN : d = FALSE OBVIOUS
<1>2. l # W("all")
  <2>1. l = W("all") => Spellings(ForFolders(v, l, d)) = {} BY SpellingsAre
  <2>. QED BY <1>11, <2>1
<1>3. t = Then(<<W("tf"), W(v)>>, <<l>>)
  <2>1. Spellings(ForFolders(v, l, d)) = {Then(Heads(v, d), <<l>>)} BY <1>1, <1>2, SpellingsAre
  <2>2. Heads(v, d) = <<W("tf"), W(v)>> BY <1>11 DEF Heads
  <2>. QED BY <1>11, <2>1, <2>2
<1>4. PICK r \in Seq(TokenSeqs) : r = <<l>> /\ Len(r) = 1 /\ r[1] = l BY <1>0, OneRest
<1>6. Splits(t, v, r) BY <1>1, <1>3, <1>4, JoinSplits
<1>7. PICK c : c = ForFolders(v, l, d) OBVIOUS
<1>8. AsFolders(r, c, v, d) BY <1>0, <1>2, <1>4, <1>7 DEF AsFolders
<1>9. Understood(v, r, c) BY <1>0, <1>4, <1>11, <1>8 DEF Understood
<1>10. Parse(t) = c BY <1>6, <1>9, ParseSplit
<1>. QED BY <1>11, <1>7, <1>10

LEMMA ReportRead == \A t \in Spellings(ForAll) : Parse(t) = ForAll
<1>. TAKE t \in Spellings(ForAll)
<1>1. PICK v : v = "report" /\ v \in Letters BY DEF Letters
<1>2. t = <<W("tf"), W(v)>> BY <1>1, SpellingsAre
<1>30. <<>> \in Seq(TokenSeqs) OBVIOUS
<1>3. PICK r \in Seq(TokenSeqs) : r = <<>> BY <1>30
<1>4. t = Then(<<W("tf"), W(v)>>, r) BY <1>2, <1>3, JoinedTwo
<1>5. Splits(t, v, r) BY <1>1, <1>4, JoinSplits
<1>6. Understood(v, r, ForAll) BY <1>1, <1>3 DEF Understood
<1>. QED BY <1>5, <1>6, ParseSplit

LEMMA ConfirmRead ==
  ASSUME NEW v \in Mutations, NEW k \in Tokens, NEW t \in Spellings(ForConfirm(v, <<k>>))
  PROVE  Parse(t) = ForConfirm(v, <<k>>)
<1>1. v # "noop" /\ v \in Letters BY DEF Letters, Mutations
<1>2. W("confirm") \in TokenSeqs /\ W(k) \in TokenSeqs BY WordIs DEF Letters
<1>3. W(k) = <<<<k>>>> /\ W(k)[1] = <<k>> /\ <<k>> # <<>> BY WordsDiffer
<1>4. PICK a \in TokenSeqs, b \in TokenSeqs : a = W("confirm") /\ b = W(k) /\ b[1] = <<k>> BY <1>2, <1>3
<1>5. t = <<W("tf"), W(v), a, b>>
  <2>1. Spellings(ForConfirm(v, <<k>>)) = {<<W("tf"), W(v), W("confirm"), <<<<k>>>>>>} BY <1>1, <1>3, SpellingsAre
  <2>. QED BY <1>3, <1>4, <2>1
<1>6. PICK r \in Seq(TokenSeqs) : r = <<a, b>> /\ Len(r) = 2 /\ r[1] = a /\ r[2] = b BY TwoRest
<1>7. t = Then(<<W("tf"), W(v)>>, r) BY <1>5, <1>6, JoinedTwo
<1>8. Splits(t, v, r) BY <1>1, <1>7, JoinSplits
<1>9. PICK c : c = ForConfirm(v, <<k>>) OBVIOUS
<1>10. AsConfirm(r, c, v) BY <1>4, <1>6, <1>9 DEF AsConfirm
<1>11. Understood(v, r, c) BY <1>10 DEF Understood
<1>12. Parse(t) = c BY <1>8, <1>11, ParseSplit
<1>. QED BY <1>9, <1>12

\* A step that is named, and the first one when none is.
LEMMA StepRead ==
  ASSUME NEW v \in Mutations, NEW n \in PipelineNames, NEW k \in {1, 2}, NEW t \in Spellings(ForStep(v, n, k))
  PROVE  Parse(t) = ForStep(v, n, k)
<1>0. n # <<>> /\ <<n>> \in TokenSeqs /\ IsPipelineName(<<n>>) BY PartsAre
<1>1. v # "noop" /\ v \in Letters BY DEF Letters, Mutations
<1>2. W("pipeline") \in TokenSeqs /\ W("step") \in TokenSeqs /\ W("1") \in TokenSeqs /\ W("2") \in TokenSeqs
  BY WordIs DEF Letters
<1>3. PICK a \in TokenSeqs, b \in TokenSeqs, s \in TokenSeqs :
        a = W("pipeline") /\ b = <<n>> /\ b[1] = n /\ s = W("step")
  BY <1>0, <1>2
<1>4. PICK c : c = ForStep(v, n, k) OBVIOUS
<1>5. ASSUME NEW w \in TokenSeqs, Numeral(w) = k, t = <<W("tf"), W(v), a, b, s, w>> PROVE Parse(t) = c
  <2>1. PICK r \in Seq(TokenSeqs) : /\ r = <<a, b, s, w>> /\ Len(r) = 4 /\ r[1] = a /\ r[2] = b /\ r[3] = s /\ r[4] = w
    BY FourRest
  <2>2. t = Then(<<W("tf"), W(v)>>, r) BY <1>5, <2>1, JoinedTwo
  <2>3. Splits(t, v, r) BY <1>1, <2>2, JoinSplits
  <2>4. k # 0 OBVIOUS
  <2>5. AsStep(r, c, v) BY <1>0, <1>3, <1>4, <1>5, <2>1, <2>4 DEF AsStep
  <2>6. Understood(v, r, c) BY <2>5 DEF Understood
  <2>. QED BY <2>3, <2>6, ParseSplit
<1>6. ASSUME k = 1, t = <<W("tf"), W(v), a, b>> PROVE Parse(t) = c
  <2>1. PICK r \in Seq(TokenSeqs) : r = <<a, b>> /\ Len(r) = 2 /\ r[1] = a /\ r[2] = b BY TwoRest
  <2>2. t = Then(<<W("tf"), W(v)>>, r) BY <1>6, <2>1, JoinedTwo
  <2>3. Splits(t, v, r) BY <1>1, <2>2, JoinSplits
  <2>4. AsStep(r, c, v) BY <1>0, <1>3, <1>4, <1>6, <2>1 DEF AsStep
  <2>5. Understood(v, r, c) BY <2>4 DEF Understood
  <2>. QED BY <2>3, <2>5, ParseSplit
<1>7. CASE k = 1
  <2>1. Spellings(ForStep(v, n, 1)) = {<<W("tf"), W(v), W("pipeline"), <<n>>, W("step"), W("1")>>,
                                       <<W("tf"), W(v), W("pipeline"), <<n>>>>}
    BY <1>0, <1>1, SpellingsAre
  <2>2. t = <<W("tf"), W(v), a, b, s, W("1")>> \/ t = <<W("tf"), W(v), a, b>> BY <1>3, <1>7, <2>1
  <2>3. Numeral(W("1")) = k BY <1>7, NumeralIs
  <2>. QED BY <1>2, <1>4, <1>5, <1>6, <1>7, <2>2, <2>3
<1>8. CASE k = 2
  <2>1. Spellings(ForStep(v, n, 2)) = {<<W("tf"), W(v), W("pipeline"), <<n>>, W("step"), W("2")>>}
    BY <1>0, <1>1, SpellingsAre
  <2>2. t = <<W("tf"), W(v), a, b, s, W("2")>> BY <1>3, <1>8, <2>1
  <2>3. Numeral(W("2")) = k BY <1>8, NumeralIs
  <2>. QED BY <1>2, <1>4, <1>5, <1>8, <2>2, <2>3
<1>. QED BY <1>7, <1>8

LEMMA RefusedNone == NothingRefused
<1>. SUFFICES ASSUME NEW c \in Wishes, NEW t \in Spellings(c) PROVE Parse(t) = c BY DEF NothingRefused
<1>1. CASE \E l \in Lists, d \in BOOLEAN : c = ForFolders("plan", l, d) BY <1>1, FoldersRead
<1>2. CASE \E l \in Lists : c = ForFolders("apply", l, FALSE)
  <2>1. PICK l \in Lists, v \in Mutations : c = ForFolders(v, l, FALSE) /\ v # "destroy" BY <1>2 DEF Mutations
  <2>. QED BY <2>1, MutationRead
<1>3. CASE \E l \in Lists : c = ForFolders("destroy", l, FALSE) /\ Len(l) = 1
  <2>1. PICK l \in Lists, v \in Mutations : c = ForFolders(v, l, FALSE) /\ Len(l) = 1 BY <1>3 DEF Mutations
  <2>. QED BY <2>1, MutationRead
<1>4. CASE c = ForAll BY <1>4, ReportRead
<1>5. CASE \E n \in PipelineNames, d \in BOOLEAN : c = ForPipeline("plan", n, d) BY <1>5, PipelineRead
<1>6. CASE \E n \in PipelineNames : c = ForPipeline("drift", n, FALSE) BY <1>6, DriftRead
<1>7. CASE \E v \in Mutations, n \in PipelineNames, k \in {1, 2} : c = ForStep(v, n, k) BY <1>7, StepRead
<1>8. CASE \E v \in Mutations, k \in Tokens : c = ForConfirm(v, <<k>>) BY <1>8, ConfirmRead
<1>. QED BY <1>1, <1>2, <1>3, <1>4, <1>5, <1>6, <1>7, <1>8, WishesAre, Zenon

(***************************************************************************)
(* The folders of a command                                                *)
(***************************************************************************)

\* The commands a comment may ask for.
OfFolders(c) ==
  \E v \in {"plan", "apply", "destroy"}, l \in Seq(Names) \ {<<>>}, d \in BOOLEAN :
    c = ForFolders(v, l, d) /\ (d => v = "plan")
OfPipeline(c) ==
  \E v \in {"plan", "drift"}, n \in Names, d \in BOOLEAN : c = ForPipeline(v, n, d) /\ (d => v = "plan")
OfStep(c) == \E v \in Mutations, n \in Names, k \in {1, 2} : c = ForStep(v, n, k)
OfConfirm(c) == \E v \in Mutations : \E k : c = ForConfirm(v, k) /\ k # <<>>

LEMMA FoldersForm ==
  ASSUME NEW r \in Seq(Seq(Names) \ {<<>>}), NEW c, NEW v \in {"plan", "apply", "destroy"}, NEW d \in BOOLEAN,
         d => v = "plan", AsFolders(r, c, v, d)
  PROVE  OfFolders(c)
<1>1. Len(r) = 1 /\ c = ForFolders(v, r[1], d) BY DEF AsFolders
<1>2. r[1] \in Seq(Names) \ {<<>>} BY <1>1
<1>3. PICK l \in Seq(Names) \ {<<>>} : l = r[1] BY <1>2
<1>4. c = ForFolders(v, l, d) BY <1>1, <1>3
<1>. QED BY <1>4 DEF OfFolders

LEMMA FirstName == \A u \in Seq(Names) \ {<<>>} : u[1] \in Names
OBVIOUS

LEMMA PipelineForm ==
  ASSUME NEW r \in Seq(Seq(Names) \ {<<>>}), NEW c, NEW v \in {"plan", "drift"}, NEW d \in BOOLEAN,
         d => v = "plan", AsPipeline(r, c, v, d)
  PROVE  OfPipeline(c)
<1>1. Len(r) = 2 /\ c = ForPipeline(v, r[2][1], d) BY DEF AsPipeline
<1>2. r[2] \in Seq(Names) \ {<<>>} BY <1>1
<1>3. PICK n \in Names : n = r[2][1] BY <1>2, FirstName
<1>4. c = ForPipeline(v, n, d) BY <1>1, <1>3
<1>. QED BY <1>4 DEF OfPipeline

LEMMA StepForm ==
  ASSUME NEW r \in Seq(Seq(Names) \ {<<>>}), NEW c, NEW v \in Mutations, AsStep(r, c, v)
  PROVE  OfStep(c)
<1>1. Len(r) \in {2, 4} /\ c = ForStep(v, r[2][1], IF Len(r) = 4 THEN Numeral(r[4]) ELSE 1) BY DEF AsStep
<1>2. Len(r) = 4 => Numeral(r[4]) # 0 BY DEF AsStep
<1>3. r[2] \in Seq(Names) \ {<<>>} BY <1>1
<1>4. PICK n \in Names : n = r[2][1] BY <1>3, FirstName
<1>5. PICK k : k = IF Len(r) = 4 THEN Numeral(r[4]) ELSE 1 OBVIOUS
<1>6. k \in {1, 2} BY <1>2, <1>5, NumeralIs
<1>7. c = ForStep(v, n, k) BY <1>1, <1>4, <1>5
<1>. QED BY <1>6, <1>7 DEF OfStep

LEMMA ConfirmForm ==
  ASSUME NEW r, NEW c, NEW v \in Mutations, AsConfirm(r, c, v)
  PROVE  OfConfirm(c)
<1>1. r[2] \in {W(k) : k \in Tokens} /\ c = ForConfirm(v, r[2][1]) BY DEF AsConfirm
<1>2. r[2][1] # <<>> BY <1>1, PartIs
<1>. QED BY <1>1, <1>2 DEF OfConfirm

LEMMA CommandForms ==
  ASSUME NEW t \in Texts, NEW c, c = Parse(t), c # Rejected
  PROVE  OfFolders(c) \/ c = ForAll \/ OfPipeline(c) \/ OfStep(c) \/ OfConfirm(c)
<1>1. t \in Seq(TokenSeqs) BY TextsAre
<1>2. t \in Seq(Seq(Names) \ {<<>>}) BY TextsAreTokens
<1>3. PICK rest : rest = SubSeq(t, 3, Len(t)) OBVIOUS
<1>4. PICK v : Len(t) >= 2 /\ t[2] = W(v) /\ Understood(v, rest, c) BY <1>1, <1>3, ParseIs
<1>5. rest \in Seq(Seq(Names) \ {<<>>}) BY <1>2, <1>3, <1>4, RestOf
<1>6. CASE v = "drift" /\ AsPipeline(rest, c, "drift", FALSE)
  <2>1. PICK w \in {"plan", "drift"}, d \in BOOLEAN : w = "drift" /\ d = FALSE OBVIOUS
  <2>2. AsPipeline(rest, c, w, d) BY <1>6, <2>1
  <2>. QED BY <1>5, <2>1, <2>2, PipelineForm
<1>7. CASE v \in Mutations /\ AsStep(rest, c, v) BY <1>5, <1>7, StepForm
<1>8. CASE v \in Mutations /\ AsConfirm(rest, c, v) BY <1>8, ConfirmForm
<1>9. CASE v \in Mutations /\ AsFolders(rest, c, v, FALSE)
  <2>1. PICK w \in {"plan", "apply", "destroy"}, d \in BOOLEAN : w = v /\ d = FALSE BY <1>9 DEF Mutations
  <2>2. AsFolders(rest, c, w, d) BY <1>9, <2>1
  <2>. QED BY <1>5, <2>1, <2>2, FoldersForm
<1>10. CASE v = "report" /\ c = ForAll BY <1>10
<1>11. CASE v = "plan" /\ \E d \in BOOLEAN, r \in Seq(TokenSeqs) :
              Follow(rest, r, d) /\ (AsPipeline(r, c, "plan", d) \/ AsFolders(r, c, "plan", d))
  <2>1. PICK d \in BOOLEAN, r \in Seq(TokenSeqs) : Follow(rest, r, d) /\ (AsPipeline(r, c, "plan", d) \/ AsFolders(r, c, "plan", d))
    BY <1>11
  <2>2. r \in Seq(Seq(Names) \ {<<>>})
    <3>1. CASE d
      <4>1. rest # <<>> /\ r = Tail(rest) BY <2>1, <3>1 DEF Follow
      <4>. QED BY <1>5, <4>1, TailOf
    <3>2. CASE ~ d BY <1>5, <2>1, <3>2 DEF Follow
    <3>. QED BY <3>1, <3>2
  <2>3. CASE AsPipeline(r, c, "plan", d)
    <3>1. PICK w \in {"plan", "drift"} : w = "plan" OBVIOUS
    <3>2. AsPipeline(r, c, w, d) BY <2>3, <3>1
    <3>. QED BY <2>2, <3>1, <3>2, PipelineForm
  <2>4. CASE AsFolders(r, c, "plan", d)
    <3>1. PICK w \in {"plan", "apply", "destroy"} : w = "plan" OBVIOUS
    <3>2. AsFolders(r, c, w, d) BY <2>4, <3>1
    <3>. QED BY <2>2, <3>1, <3>2, FoldersForm
  <2>. QED BY <2>1, <2>3, <2>4
<1>. QED BY <1>4, <1>6, <1>7, <1>8, <1>9, <1>10, <1>11 DEF Understood

LEMMA FieldsOfForms ==
  /\ \A v, l, d : LET c == ForFolders(v, l, d)
                  IN  /\ c.action = v /\ c.folders = l /\ c.all = FALSE /\ c.destroy = d /\ c.confirm = <<>>
                      /\ c.pipeline = <<>> /\ c.step = 0
  /\ \A v, n, d : LET c == ForPipeline(v, n, d)
                  IN  /\ c.action = v /\ c.folders = <<>> /\ c.all = FALSE /\ c.destroy = d /\ c.confirm = <<>>
                      /\ c.pipeline = n /\ c.step = 0
  /\ \A v, n, k : LET c == ForStep(v, n, k)
                  IN  /\ c.action = v /\ c.folders = <<>> /\ c.all = FALSE /\ c.destroy = FALSE /\ c.confirm = <<>>
                      /\ c.pipeline = n /\ c.step = k
  /\ \A v, k : LET c == ForConfirm(v, k)
               IN  /\ c.action = v /\ c.folders = <<>> /\ c.all = FALSE /\ c.destroy = FALSE /\ c.confirm = k
                   /\ c.pipeline = <<>> /\ c.step = 0
  /\ /\ ForAll.action = "report" /\ ForAll.folders = <<>> /\ ForAll.all = TRUE /\ ForAll.destroy = FALSE
     /\ ForAll.confirm = <<>> /\ ForAll.pipeline = <<>> /\ ForAll.step = 0
  /\ Rejected.action = "noop"
<1>1. ASSUME NEW v, NEW l, NEW d
      PROVE  LET c == ForFolders(v, l, d)
             IN  /\ c.action = v /\ c.folders = l /\ c.all = FALSE /\ c.destroy = d /\ c.confirm = <<>>
                 /\ c.pipeline = <<>> /\ c.step = 0
  BY FieldsAre
<1>2. ASSUME NEW v, NEW n, NEW d
      PROVE  LET c == ForPipeline(v, n, d)
             IN  /\ c.action = v /\ c.folders = <<>> /\ c.all = FALSE /\ c.destroy = d /\ c.confirm = <<>>
                 /\ c.pipeline = n /\ c.step = 0
  BY FieldsAre
<1>3. ASSUME NEW v, NEW n, NEW k
      PROVE  LET c == ForStep(v, n, k)
             IN  /\ c.action = v /\ c.folders = <<>> /\ c.all = FALSE /\ c.destroy = FALSE /\ c.confirm = <<>>
                 /\ c.pipeline = n /\ c.step = k
  BY FieldsAre
<1>4. ASSUME NEW v, NEW k
      PROVE  LET c == ForConfirm(v, k)
             IN  /\ c.action = v /\ c.folders = <<>> /\ c.all = FALSE /\ c.destroy = FALSE /\ c.confirm = k
                 /\ c.pipeline = <<>> /\ c.step = 0
  BY FieldsAre
<1>5. /\ ForAll.action = "report" /\ ForAll.folders = <<>> /\ ForAll.all = TRUE /\ ForAll.destroy = FALSE
      /\ ForAll.confirm = <<>> /\ ForAll.pipeline = <<>> /\ ForAll.step = 0
  BY FieldsAre
<1>6. Rejected.action = "noop" BY DEF Rejected, Command
<1>. QED BY <1>1, <1>2, <1>3, <1>4, <1>5, <1>6, Zenon

LEMMA CanonicalNameIs ==
  ASSUME NEW n \in Seq(STRING)
  PROVE  CanonicalName(n) \in Seq({"."} \union STRING)
<1>1. PICK p \in Seq(STRING) : p = Selected(n, ToSet(n) \ {"", "."}) BY SelectedIs
<1>2. p \in Seq({"."} \union STRING) BY SeqsGrow
<1>3. <<>> \in Seq({"."} \union STRING) /\ <<".">> \in Seq({"."} \union STRING) OBVIOUS
<1>. QED BY <1>1, <1>2, <1>3 DEF CanonicalName

\* The request of each form of command.
LEMMA FoldersRequest ==
  ASSUME NEW v \in {"plan", "apply", "destroy"}, NEW l \in Seq(Names) \ {<<>>}, NEW d \in BOOLEAN,
         NEW c, c = ForFolders(v, l, d), Request(c) # NoRequest
  PROVE  Request(c) = [action |-> EffectiveAction(c), mode |-> "explicit", folders |-> Distinct(l),
                       pipeline |-> <<>>, step |-> 0]
<1>1. c.action = v /\ c.folders = l /\ c.all = FALSE /\ c.pipeline = <<>> /\ c.step = 0 BY FieldsOfForms
<1>2. l # <<>> OBVIOUS
<1>3. FolderMode(c) = "explicit" BY <1>1, <1>2 DEF FolderMode
<1>4. PICK x : x = Distinct(l) OBVIOUS
<1>5. Distinct(c.folders) = x BY <1>1, <1>4
<1>. QED BY <1>1, <1>3, <1>4, <1>5 DEF Request

LEMMA AllRequest ==
  Request(ForAll) = [action |-> "report", mode |-> "all", folders |-> <<>>, pipeline |-> <<>>, step |-> 0]
<1>1. PICK c : c = ForAll OBVIOUS
<1>2. /\ c.action = "report" /\ c.folders = <<>> /\ c.all = TRUE /\ c.destroy = FALSE /\ c.pipeline = <<>> /\ c.step = 0
  BY <1>1, FieldsOfForms
<1>3. "report" \notin Mutations BY DEF Mutations
<1>4. FolderMode(c) = "all" BY <1>2, <1>3 DEF FolderMode
<1>5. c # Rejected BY <1>2, FieldsOfForms
<1>6. EffectiveAction(c) = "report" BY <1>2 DEF EffectiveAction
<1>7. Request(c) = [action |-> "report", mode |-> "all", folders |-> <<>>, pipeline |-> <<>>, step |-> 0]
  BY <1>2, <1>3, <1>4, <1>5, <1>6 DEF Request
<1>. QED BY <1>1, <1>7

LEMMA PipelineRequest ==
  ASSUME NEW v \in {"plan", "drift"}, NEW n \in Names, NEW d \in BOOLEAN,
         NEW c, c = ForPipeline(v, n, d), Request(c) # NoRequest
  PROVE  /\ Request(c) = [action |-> EffectiveAction(c), mode |-> "pipeline", folders |-> <<>>,
                          pipeline |-> CanonicalName(n), step |-> 0]
         /\ CanonicalName(n) # <<>>
<1>1. c.action = v /\ c.pipeline = n /\ c.step = 0 BY FieldsOfForms
<1>2. n # <<>> BY DEF Names
<1>3. FolderMode(c) = "pipeline" BY <1>1, <1>2 DEF FolderMode
<1>4. PICK x : x = CanonicalName(n) OBVIOUS
<1>5. CanonicalName(c.pipeline) = x BY <1>1, <1>4
<1>6. v \notin Mutations BY DEF Mutations
<1>. QED BY <1>1, <1>3, <1>4, <1>5, <1>6 DEF Request

LEMMA StepRequest ==
  ASSUME NEW v \in Mutations, NEW n \in Names, NEW k \in {1, 2},
         NEW c, c = ForStep(v, n, k), Request(c) # NoRequest
  PROVE  /\ Request(c) = [action |-> v, mode |-> "pipeline", folders |-> <<>>,
                          pipeline |-> CanonicalName(n), step |-> k]
         /\ CanonicalName(n) # <<>>
<1>1. c.action = v /\ c.pipeline = n /\ c.step = k /\ c.destroy = FALSE BY FieldsOfForms
<1>2. n # <<>> BY DEF Names
<1>3. FolderMode(c) = "pipeline" BY <1>1, <1>2 DEF FolderMode
<1>4. PICK x : x = CanonicalName(n) OBVIOUS
<1>5. CanonicalName(c.pipeline) = x BY <1>1, <1>4
<1>6. EffectiveAction(c) = v BY <1>1 DEF EffectiveAction
<1>. QED BY <1>1, <1>3, <1>4, <1>5, <1>6 DEF Request

LEMMA ConfirmRequest ==
  ASSUME NEW v \in Mutations, NEW k
  PROVE  Request(ForConfirm(v, k)) =
           [action |-> v, mode |-> "affected", folders |-> <<>>, pipeline |-> <<>>, step |-> 0]
<1>1. PICK c : c = ForConfirm(v, k) OBVIOUS
<1>2. /\ c.action = v /\ c.folders = <<>> /\ c.all = FALSE /\ c.destroy = FALSE /\ c.pipeline = <<>> /\ c.step = 0
  BY <1>1, FieldsOfForms
<1>3. v # "noop" BY DEF Mutations
<1>4. FolderMode(c) = "affected" BY <1>2 DEF FolderMode
<1>5. c # Rejected BY <1>2, <1>3, FieldsOfForms
<1>6. EffectiveAction(c) = v BY <1>2 DEF EffectiveAction
<1>7. Request(c) = [action |-> v, mode |-> "affected", folders |-> <<>>, pipeline |-> <<>>, step |-> 0]
  BY <1>2, <1>4, <1>5, <1>6 DEF Request
<1>. QED BY <1>1, <1>7

\* The input of the execution a confirmation starts.
LEMMA ConfirmationIs ==
  ASSUME NEW req, req.action \in Mutations
  PROVE  LET event == Confirmation(req)
         IN  /\ event.action = req.action /\ event.folders = Pinned(req) /\ event.all = FALSE
             /\ event.affected = FALSE /\ event.pipeline = <<>>
<1>1. PICK v \in Mutations : v = req.action OBVIOUS
<1>2. PICK k : k = <<CHOOSE t \in Tokens : TRUE>> OBVIOUS
<1>3. PICK q : q = Request(ForConfirm(v, k)) OBVIOUS
<1>4. q = [action |-> v, mode |-> "affected", folders |-> <<>>, pipeline |-> <<>>, step |-> 0]
  BY <1>3, ConfirmRequest
<1>5. PICK e : e = Event(q) OBVIOUS
<1>6. e = [action |-> v, folders |-> <<>>, all |-> FALSE, affected |-> TRUE, pipeline |-> <<>>, step |-> 0]
  BY <1>4, <1>5 DEF Event
<1>7. PICK p : p = Pinned(req) OBVIOUS
<1>8. PICK x : x = Confirmed(e, req) OBVIOUS
<1>9. x = [e EXCEPT !.action = v, !.folders = p, !.all = FALSE, !.affected = FALSE]
  BY <1>1, <1>7, <1>8 DEF Confirmed
<1>10. x.action = v /\ x.folders = p /\ x.all = FALSE /\ x.affected = FALSE /\ x.pipeline = <<>> BY <1>6, <1>9
<1>11. Confirmation(req) = x BY <1>1, <1>2, <1>3, <1>5, <1>8 DEF Confirmation, ForConfirm
<1>. QED BY <1>1, <1>7, <1>10, <1>11

\* These folders, each once.
Lines(steps, S, set) ==
  FlattenSeq(steps) \in Seq(S) /\ IsInjective(FlattenSeq(steps)) /\ ToSet(FlattenSeq(steps)) = set

LEMMA OneLine ==
  ASSUME NEW S, NEW fs \in Seq(S), IsInjective(fs)
  PROVE  Lines(<<fs>>, S, ToSet(fs))
<1>1. PICK s \in Seq(Seq(S)) : s = <<fs>> /\ Len(s) = 1 /\ DOMAIN s = {1} /\ s[1] = fs
  <2>1. PICK x \in Seq(S) : x = fs OBVIOUS
  <2>2. <<x>> \in Seq(Seq(S)) /\ Len(<<x>>) = 1 /\ DOMAIN <<x>> = {1} /\ <<x>>[1] = x OBVIOUS
  <2>. QED BY <2>1, <2>2
<1>2. FlattenSeq(s) \in Seq(S) BY FlattenSpread
<1>3. ToSet(FlattenSeq(s)) = ToSet(fs)
  <2>1. ToSet(FlattenSeq(s)) = UNION {ToSet(s[i]) : i \in DOMAIN s} BY FlattenRange
  <2>2. {ToSet(s[i]) : i \in DOMAIN s} = {ToSet(fs)} BY <1>1
  <2>. QED BY <2>1, <2>2
<1>4. Disjointly(s) BY <1>1 DEF Disjointly, IsInjective
<1>5. IsInjective(FlattenSeq(s)) BY <1>4, FlattenInjective
<1>. QED BY <1>1, <1>2, <1>3, <1>5 DEF Lines

LEMMA NoLine == \A S : Lines(<<>>, S, {})
<1>. TAKE S
<1>1. FlattenSeq(<<>>) = <<>>
  <2>1. Len(<<>>) = 0 OBVIOUS
  <2>. QED BY <2>1 DEF FlattenSeq
<1>2. <<>> \in Seq(S) /\ IsInjective(<<>>) /\ ToSet(<<>>) = {} BY DEF IsInjective, ToSet
<1>. QED BY <1>1, <1>2 DEF Lines

LEMMA ReverseIs ==
  ASSUME NEW S, NEW s \in Seq(S)
  PROVE  /\ Reverse(s) \in Seq(S) /\ Len(Reverse(s)) = Len(s) /\ DOMAIN Reverse(s) = DOMAIN s
         /\ \A i \in DOMAIN s : (Len(s) - i) + 1 \in DOMAIN s /\ Reverse(s)[i] = s[(Len(s) - i) + 1]
<1>1. Len(s) \in Nat /\ DOMAIN s = 1..Len(s) OBVIOUS
<1>2. \A i \in 1..Len(s) : (Len(s) - i) + 1 \in 1..Len(s) BY <1>1
<1>3. \A i \in 1..Len(s) : s[(Len(s) - i) + 1] \in S BY <1>1, <1>2
<1>4. PICK n \in Nat : n = Len(s) BY <1>1
<1>5. PICK r : r = [i \in 1..n |-> s[(n - i) + 1]] OBVIOUS
<1>6. r \in Seq(S) /\ Len(r) = n /\ DOMAIN r = 1..n
  <2>1. \A i \in 1..n : s[(n - i) + 1] \in S BY <1>3, <1>4
  <2>2. r \in [1..n -> S] BY <1>5, <2>1
  <2>. QED BY <1>4, <2>2
<1>7. Reverse(s) = r BY <1>4, <1>5 DEF Reverse
<1>. QED BY <1>1, <1>2, <1>4, <1>5, <1>6, <1>7

LEMMA ReversedLines ==
  ASSUME NEW S, NEW seqs \in Seq(Seq(S)), NEW set, Lines(seqs, S, set)
  PROVE  Lines(Reverse(seqs), S, set)
<1>1. PICK r \in Seq(Seq(S)) : /\ r = Reverse(seqs) /\ DOMAIN r = DOMAIN seqs
                               /\ \A i \in DOMAIN seqs : r[i] = seqs[(Len(seqs) - i) + 1]
  BY ReverseIs
<1>2. PICK n \in Nat : n = Len(seqs) /\ DOMAIN seqs = 1..n OBVIOUS
<1>3. \A i \in DOMAIN seqs : (n - i) + 1 \in DOMAIN seqs /\ r[i] = seqs[(n - i) + 1] /\ (n - ((n - i) + 1)) + 1 = i
  <2>. TAKE i \in DOMAIN seqs
  <2>1. (n - i) + 1 \in 1..n /\ (n - ((n - i) + 1)) + 1 = i BY <1>2
  <2>. QED BY <1>1, <1>2, <2>1
<1>4. {ToSet(r[i]) : i \in DOMAIN r} = {ToSet(seqs[i]) : i \in DOMAIN seqs}
  <2>1. ASSUME NEW i \in DOMAIN r PROVE ToSet(r[i]) \in {ToSet(seqs[k]) : k \in DOMAIN seqs}
    BY <1>1, <1>3
  <2>2. ASSUME NEW i \in DOMAIN seqs PROVE ToSet(seqs[i]) \in {ToSet(r[k]) : k \in DOMAIN r}
    <3>1. PICK k \in DOMAIN seqs : k = (n - i) + 1 BY <1>3
    <3>2. r[k] = seqs[i] BY <1>3, <3>1
    <3>. QED BY <1>1, <3>2
  <2>. QED BY <2>1, <2>2
<1>5. ToSet(FlattenSeq(r)) = set
  <2>1. ToSet(FlattenSeq(r)) = UNION {ToSet(r[i]) : i \in DOMAIN r} BY FlattenRange
  <2>2. ToSet(FlattenSeq(seqs)) = UNION {ToSet(seqs[i]) : i \in DOMAIN seqs} BY FlattenRange
  <2>. QED BY <1>4, <2>1, <2>2 DEF Lines
<1>6. Disjointly(seqs) BY FlattenInjective DEF Lines
<1>7. Disjointly(r)
  <2>. SUFFICES ASSUME NEW i \in DOMAIN r, NEW k \in DOMAIN r, NEW j \in DOMAIN r[i], NEW l \in DOMAIN r[k],
                       r[i][j] = r[k][l]
                PROVE  i = k /\ j = l
    BY DEF Disjointly
  <2>1. PICK a \in DOMAIN seqs, b \in DOMAIN seqs : a = (n - i) + 1 /\ b = (n - k) + 1 BY <1>1, <1>3
  <2>2. r[i] = seqs[a] /\ r[k] = seqs[b] BY <1>1, <1>3, <2>1
  <2>3. a = b /\ j = l BY <1>6, <2>2 DEF Disjointly
  <2>4. i \in Nat /\ k \in Nat BY <1>1, <1>2
  <2>. QED BY <1>2, <2>1, <2>3, <2>4
<1>8. IsInjective(FlattenSeq(r)) BY <1>7, FlattenInjective
<1>9. FlattenSeq(r) \in Seq(S) BY FlattenSpread
<1>. QED BY <1>1, <1>5, <1>8, <1>9 DEF Lines

Asked(steps, c) == AreAsked(steps, c) /\ FlattenSeq(steps) \in Seq(Names)

LEMMA AskedFrom ==
  ASSUME NEW steps, NEW c,
         Lines(steps, Names, IF Named(c) \subseteq ToSet(Configured) THEN Named(c) ELSE {}),
         CanonicalName(c.pipeline) \in DOMAIN Pipelines /\ c.action \notin Mutations => InOrder(steps, c)
  PROVE  Asked(steps, c)
<1>1. PICK run : run = FlattenSeq(steps) OBVIOUS
<1>2. run \in Seq(Names) /\ IsInjective(run) /\ ToSet(run) = IF Named(c) \subseteq ToSet(Configured) THEN Named(c) ELSE {}
  BY <1>1 DEF Lines
<1>. QED BY <1>1, <1>2, Zenon DEF Asked, AreAsked

LEMMA ExplicitSteps ==
  ASSUME NEW event, event.pipeline = <<>>, NEW fs \in Seq(Names), IsInjective(fs), SelectedFolders(event) = fs
  PROVE  /\ Lines(Steps(event), Names, IF ToSet(fs) \subseteq ToSet(Configured) THEN ToSet(fs) ELSE {})
         /\ \A c : InOrder(Steps(event), c)
<1>1. Steps(event) = IF fs # <<>> /\ ToSet(fs) \subseteq ToSet(Configured) THEN <<fs>> ELSE <<>> BY DEF Steps
<1>2. fs = <<>> => ToSet(fs) = {} BY DEF ToSet
<1>3. Lines(<<fs>>, Names, ToSet(fs)) BY OneLine
<1>4. Lines(<<>>, Names, {}) BY NoLine
<1>5. Lines(Steps(event), Names, IF ToSet(fs) \subseteq ToSet(Configured) THEN ToSet(fs) ELSE {})
  BY <1>1, <1>2, <1>3, <1>4
<1>6. DOMAIN Steps(event) \subseteq {1}
  <2>1. DOMAIN <<>> = {} /\ DOMAIN <<fs>> = {1} OBVIOUS
  <2>. QED BY <1>1, <2>1
<1>7. PICK steps : steps = Steps(event) OBVIOUS
<1>8. \A i, j \in DOMAIN steps : ~ (i < j) BY <1>6, <1>7
<1>9. \A c : InOrder(steps, c) BY <1>8 DEF InOrder
<1>. QED BY <1>5, <1>7, <1>9

\* Plans and mutations of folders.
LEMMA FoldersAsked ==
  ASSUME NEW v \in {"plan", "apply", "destroy"}, NEW l \in Seq(Names) \ {<<>>}, NEW d \in BOOLEAN,
         NEW c, c = ForFolders(v, l, d), Request(c) # NoRequest
  PROVE  /\ v = "plan" => Asked(Steps(Event(Request(c))), c)
         /\ v \in Mutations => Asked(Steps(Confirmation(Request(c))), c)
<1>1. PICK fs \in Seq(Names) : fs = Distinct(l) /\ ToSet(fs) = ToSet(l) /\ IsInjective(fs) BY DistinctIs
<1>2. PICK req : req = Request(c) OBVIOUS
<1>3. req = [action |-> EffectiveAction(c), mode |-> "explicit", folders |-> fs, pipeline |-> <<>>, step |-> 0]
  BY <1>1, <1>2, FoldersRequest
<1>4. c.action = v /\ c.folders = l /\ c.all = FALSE /\ c.destroy = d /\ c.pipeline = <<>> BY FieldsOfForms
<1>5. Named(c) = ToSet(fs) BY <1>1, <1>4 DEF Named
<1>6. ASSUME NEW event, event.pipeline = <<>>, SelectedFolders(event) = fs PROVE Asked(Steps(event), c)
  <2>1. Lines(Steps(event), Names, IF ToSet(fs) \subseteq ToSet(Configured) THEN ToSet(fs) ELSE {})
    BY <1>1, <1>6, ExplicitSteps
  <2>2. InOrder(Steps(event), c) BY <1>1, <1>6, ExplicitSteps
  <2>. QED BY <1>5, <2>1, <2>2, AskedFrom
<1>7. Asked(Steps(Event(req)), c)
  <2>1. PICK e : e = Event(req) OBVIOUS
  <2>2. e.pipeline = <<>> /\ e.folders = fs /\ e.all = FALSE /\ e.affected = FALSE BY <1>3, <2>1 DEF Event
  <2>3. SelectedFolders(e) = fs BY <2>2 DEF SelectedFolders
  <2>. QED BY <1>6, <2>1, <2>2, <2>3
<1>8. ASSUME v \in Mutations PROVE Asked(Steps(Confirmation(req)), c)
  <2>1. PICK e : e = Confirmation(req) OBVIOUS
  <2>2. v # "plan" BY <1>8 DEF Mutations
  <2>3. req.action \in Mutations /\ req.pipeline = <<>> /\ req.folders = fs
    BY <1>3, <1>4, <1>8, <2>2 DEF EffectiveAction
  <2>4. Pinned(req) = fs
    <3>1. req.pipeline \notin DOMAIN Pipelines BY <2>3, PipelinesAreValid
    <3>. QED BY <2>3, <3>1 DEF Pinned
  <2>5. e.pipeline = <<>> /\ e.folders = fs /\ e.all = FALSE /\ e.affected = FALSE BY <2>1, <2>3, <2>4, ConfirmationIs
  <2>6. SelectedFolders(e) = fs BY <2>5 DEF SelectedFolders
  <2>. QED BY <1>6, <2>1, <2>5, <2>6
<1>. QED BY <1>2, <1>7, <1>8

LEMMA AllAsked == Asked(Steps(Event(Request(ForAll))), ForAll)
<1>1. PICK c : c = ForAll OBVIOUS
<1>2. /\ c.action = "report" /\ c.folders = <<>> /\ c.all = TRUE /\ c.destroy = FALSE /\ c.pipeline = <<>>
  BY <1>1, FieldsOfForms
<1>3. Configured \in Seq(Names) /\ IsInjective(Configured) BY ConfiguredAreFolders
<1>4. PICK fs \in Seq(Names) : fs = Configured BY <1>3
<1>5. PICK req : req = Request(c) OBVIOUS
<1>6. req = [action |-> "report", mode |-> "all", folders |-> <<>>, pipeline |-> <<>>, step |-> 0]
  BY <1>1, <1>5, AllRequest
<1>7. PICK e : e = Event(req) OBVIOUS
<1>8. e.pipeline = <<>> /\ e.all = TRUE /\ e.affected = FALSE BY <1>6, <1>7 DEF Event
<1>9. SelectedFolders(e) = fs BY <1>4, <1>8 DEF SelectedFolders
<1>10. Named(c) = ToSet(fs) BY <1>2, <1>4 DEF Named
<1>11. Lines(Steps(e), Names, IF ToSet(fs) \subseteq ToSet(Configured) THEN ToSet(fs) ELSE {})
  BY <1>3, <1>4, <1>8, <1>9, ExplicitSteps
<1>12. InOrder(Steps(e), c) BY <1>3, <1>4, <1>8, <1>9, ExplicitSteps
<1>13. Asked(Steps(e), c) BY <1>10, <1>11, <1>12, AskedFrom
<1>. QED BY <1>1, <1>5, <1>7, <1>13

\* The steps of a pipeline.
LEMMA PipelineIs ==
  ASSUME NEW p \in DOMAIN Pipelines
  PROVE  /\ Pipelines[p] \in Seq(Seq(Names)) /\ Disjointly(Pipelines[p]) /\ p # <<>>
         /\ FlattenSeq(Pipelines[p]) \in Seq(Names)
         /\ Lines(Pipelines[p], Names, ToSet(FlattenSeq(Pipelines[p])))
         /\ ToSet(FlattenSeq(Pipelines[p])) \subseteq ToSet(Configured)
<1>1. PICK seqs : seqs = Pipelines[p] OBVIOUS
<1>2. /\ p # <<>> /\ seqs \in Seq(Seq(Names) \ {<<>>}) /\ IsInjective(FlattenSeq(seqs))
      /\ ToSet(FlattenSeq(seqs)) \subseteq ToSet(Configured)
  BY <1>1, PipelinesAreValid
<1>3. seqs \in Seq(Seq(Names))
  <2>1. Seq(Names) \ {<<>>} \subseteq Seq(Names) OBVIOUS
  <2>. QED BY <1>2, <2>1, SeqsGrow
<1>4. FlattenSeq(seqs) \in Seq(Names) BY <1>3, FlattenSpread
<1>5. Disjointly(seqs) BY <1>2, <1>3, FlattenInjective
<1>. QED BY <1>1, <1>2, <1>3, <1>4, <1>5 DEF Lines

\* Where a folder of a pipeline is.
LEMMA PlaceIs ==
  ASSUME NEW S, NEW s \in Seq(S), IsInjective(s), NEW f \in ToSet(s)
  PROVE  LET n == CHOOSE k \in DOMAIN s : s[k] = f IN n \in DOMAIN s /\ s[n] = f
<1>1. \E k \in DOMAIN s : s[k] = f BY DEF ToSet
<1>. QED BY <1>1

LEMMA PipelineInOrder ==
  ASSUME NEW c, NEW p \in DOMAIN Pipelines, CanonicalName(c.pipeline) = p
  PROVE  /\ ~ c.destroy => InOrder(Pipelines[p], c)
         /\ c.destroy => InOrder(Reverse(Pipelines[p]), c)
<1>1. PICK seqs \in Seq(Seq(Names)) : seqs = Pipelines[p] /\ Disjointly(seqs) BY PipelineIs
<1>. DEFINE all == FlattenSeq(Pipelines[CanonicalName(c.pipeline)])
            At(f) == CHOOSE n \in DOMAIN all : all[n] = f
<1>2. all = FlattenSeq(seqs) /\ all \in Seq(Names) BY <1>1, FlattenSpread
<1>3. IsInjective(all) BY <1>1, <1>2, FlattenInjective
<1>. HIDE DEF all
<1>4. \A f \in ToSet(all) : At(f) \in DOMAIN all /\ all[At(f)] = f BY <1>2, <1>3, PlaceIs
<1>. HIDE DEF At
<1>5. \A i \in DOMAIN seqs : \A f \in ToSet(seqs[i]) : f \in ToSet(all)
  <2>1. ToSet(all) = UNION {ToSet(seqs[i]) : i \in DOMAIN seqs} BY <1>2, FlattenRange
  <2>. QED BY <2>1
<1>6. ASSUME NEW i \in DOMAIN seqs, NEW k \in DOMAIN seqs, i < k, NEW f \in ToSet(seqs[i]), NEW g \in ToSet(seqs[k])
      PROVE  At(f) < At(g)
  <2>1. At(f) \in DOMAIN all /\ all[At(f)] = f /\ At(g) \in DOMAIN all /\ all[At(g)] = g BY <1>4, <1>5
  <2>2. PICK m \in DOMAIN FlattenSeq(seqs), n \in DOMAIN FlattenSeq(seqs) :
          m = At(f) /\ n = At(g) /\ FlattenSeq(seqs)[m] = f /\ FlattenSeq(seqs)[n] = g
    BY <1>2, <2>1
  <2>3. m < n BY <1>1, <1>6, <2>2, FlattenOrder
  <2>. QED BY <2>2, <2>3
<1>7. ASSUME ~ c.destroy PROVE InOrder(seqs, c)
  <2>1. ASSUME NEW i \in DOMAIN seqs, NEW k \in DOMAIN seqs, i < k, NEW f \in ToSet(seqs[i]), NEW g \in ToSet(seqs[k])
        PROVE  IF c.destroy THEN At(f) > At(g) ELSE At(f) < At(g)
    BY <1>6, <1>7, <2>1
  <2>. QED BY <2>1, Zenon DEF InOrder, At, all
<1>8. ASSUME c.destroy PROVE InOrder(Reverse(seqs), c)
  <2>0. PICK n \in Nat : n = Len(seqs) /\ DOMAIN seqs = 1..n OBVIOUS
  <2>1. PICK r : /\ r = Reverse(seqs) /\ DOMAIN r = DOMAIN seqs
                 /\ \A i \in DOMAIN seqs : (n - i) + 1 \in DOMAIN seqs /\ r[i] = seqs[(n - i) + 1]
    BY <2>0, ReverseIs
  <2>2. ASSUME NEW i \in DOMAIN r, NEW k \in DOMAIN r, i < k, NEW f \in ToSet(r[i]), NEW g \in ToSet(r[k])
        PROVE  IF c.destroy THEN At(f) > At(g) ELSE At(f) < At(g)
    <3>1. PICK a \in DOMAIN seqs, b \in DOMAIN seqs : a = (n - i) + 1 /\ b = (n - k) + 1 BY <2>1
    <3>2. r[i] = seqs[a] /\ r[k] = seqs[b] BY <2>1, <3>1
    <3>3. b < a BY <2>0, <2>1, <2>2, <3>1
    <3>4. At(g) < At(f) BY <1>6, <2>2, <3>2, <3>3
    <3>5. At(f) > At(g)
      <4>1. f \in ToSet(all) /\ g \in ToSet(all) BY <1>5, <2>2, <3>2
      <4>2. PICK x \in Nat, y \in Nat : x = At(f) /\ y = At(g) BY <1>2, <1>4, <4>1
      <4>. QED BY <3>4, <4>2
    <3>. QED BY <1>8, <3>5
  <2>3. InOrder(r, c) BY <2>2, Zenon DEF InOrder, At, all
  <2>. QED BY <2>1, <2>3
<1>. QED BY <1>1, <1>7, <1>8

\* Plans and drift checks of a pipeline.
LEMMA PipelineAsked ==
  ASSUME NEW v \in {"plan", "drift"}, NEW n \in Names, NEW d \in BOOLEAN, d => v = "plan",
         NEW c, c = ForPipeline(v, n, d), Request(c) # NoRequest
  PROVE  Asked(Steps(Event(Request(c))), c)
<1>1. PICK p : p = CanonicalName(n) OBVIOUS
<1>2. PICK req : req = Request(c) OBVIOUS
<1>3. /\ req = [action |-> EffectiveAction(c), mode |-> "pipeline", folders |-> <<>>, pipeline |-> p, step |-> 0]
      /\ p # <<>>
  BY <1>1, <1>2, PipelineRequest
<1>4. c.action = v /\ c.folders = <<>> /\ c.destroy = d /\ c.pipeline = n /\ c.all = FALSE BY FieldsOfForms
<1>5. PICK e : e = Event(req) OBVIOUS
<1>6. e.pipeline = p /\ e.action = EffectiveAction(c) BY <1>3, <1>5 DEF Event
<1>7. e.action = "plan_destroy" <=> c.destroy BY <1>4, <1>6 DEF EffectiveAction
<1>8. CanonicalName(c.pipeline) = p /\ n # <<>> /\ c.pipeline # <<>> /\ c.action \notin Mutations
  BY <1>1, <1>4 DEF Names, Mutations
<1>9. CASE p \in DOMAIN Pipelines
  <2>1. PICK seqs \in Seq(Seq(Names)) : seqs = Pipelines[p] BY <1>9, PipelineIs
  <2>2. PICK set : set = ToSet(FlattenSeq(seqs)) OBVIOUS
  <2>3. Lines(seqs, Names, set) /\ set \subseteq ToSet(Configured) BY <1>9, <2>1, <2>2, PipelineIs
  <2>4. Named(c) = set BY <1>8, <1>9, <2>1, <2>2 DEF Named
  <2>5. Steps(e) = IF c.destroy THEN Reverse(seqs) ELSE seqs BY <1>3, <1>6, <1>7, <1>9, <2>1 DEF Steps
  <2>6. InOrder(Steps(e), c)
    <3>1. ~ c.destroy => InOrder(seqs, c) BY <1>8, <1>9, <2>1, PipelineInOrder
    <3>2. c.destroy => InOrder(Reverse(seqs), c) BY <1>8, <1>9, <2>1, PipelineInOrder
    <3>. QED BY <2>5, <3>1, <3>2
  <2>7. Lines(Steps(e), Names, set)
    <3>1. Lines(Reverse(seqs), Names, set) BY <2>3, ReversedLines
    <3>. QED BY <2>3, <2>5, <3>1
  <2>8. Lines(Steps(e), Names, IF Named(c) \subseteq ToSet(Configured) THEN Named(c) ELSE {}) BY <2>3, <2>4, <2>7
  <2>. QED BY <1>2, <1>5, <2>6, <2>8, AskedFrom
<1>10. CASE p \notin DOMAIN Pipelines
  <2>1. Steps(e) = <<>> BY <1>3, <1>6, <1>10 DEF Steps
  <2>2. Named(c) = {}
    <3>1. ToSet(<<>>) = {} BY DEF ToSet
    <3>. QED BY <1>8, <1>10, <3>1 DEF Named
  <2>3. Lines(Steps(e), Names, IF Named(c) \subseteq ToSet(Configured) THEN Named(c) ELSE {})
    BY <2>1, <2>2, NoLine
  <2>. QED BY <1>2, <1>5, <1>8, <1>10, <2>3, AskedFrom
<1>. QED BY <1>9, <1>10

\* The folder of a step of a pipeline.
LEMMA StepFolder ==
  ASSUME NEW p \in DOMAIN Pipelines, NEW v \in Mutations, NEW k \in {1, 2},
         NEW c, c.action = v, c.step = k, c.pipeline # <<>>, CanonicalName(c.pipeline) = p
  PROVE  /\ Named(c) = {FolderAt(p, k, v)} \ {<<>>}
         /\ FolderAt(p, k, v) # <<>> => FolderAt(p, k, v) \in Names
         /\ Named(c) \subseteq ToSet(Configured)
<1>1. PICK all \in Seq(Names) : all = FlattenSeq(Pipelines[p]) /\ ToSet(all) \subseteq ToSet(Configured) BY PipelineIs
<1>2. PICK m \in Nat : m = Len(all) /\ DOMAIN all = 1..m OBVIOUS
<1>3. PICK r \in Seq(Names) : /\ r = Reverse(all) /\ DOMAIN r = DOMAIN all
                              /\ \A i \in DOMAIN all : r[i] = all[(m - i) + 1]
  BY <1>2, ReverseIs
<1>4. FolderAt(p, k, v) = IF v = "destroy" THEN IF k \in DOMAIN r THEN r[k] ELSE <<>>
                                            ELSE IF k \in DOMAIN all THEN all[k] ELSE <<>>
  BY <1>1, <1>3 DEF FolderAt
<1>5. Named(c) = {all[i] : i \in {j \in DOMAIN all : (IF c.action = "destroy" THEN m - j ELSE j - 1) = c.step - 1}}
  BY <1>1, <1>2 DEF Named
<1>6. \A i \in DOMAIN all : all[i] \in Names /\ all[i] # <<>> /\ all[i] \in ToSet(Configured)
  <2>. TAKE i \in DOMAIN all
  <2>1. all[i] \in Names OBVIOUS
  <2>2. all[i] \in ToSet(all) BY DEF ToSet
  <2>3. \A n \in Names : n # <<>> BY DEF Names
  <2>. QED BY <1>1, <2>1, <2>2, <2>3
<1>7. CASE v = "destroy"
  <2>1. Named(c) = {all[i] : i \in {j \in DOMAIN all : m - j = k - 1}} BY <1>5, <1>7
  <2>2. \A j \in DOMAIN all : m - j = k - 1 <=> j = (m - k) + 1 BY <1>2
  <2>3. CASE k \in DOMAIN all
    <3>1. PICK i \in DOMAIN all : i = (m - k) + 1
      <4>1. (m - k) + 1 \in 1..m BY <1>2, <2>3
      <4>. QED BY <1>2, <4>1
    <3>2. {j \in DOMAIN all : m - j = k - 1} = {i} BY <2>2, <3>1
    <3>3. Named(c) = {all[i]} BY <2>1, <3>2
    <3>4. FolderAt(p, k, v) = all[i] BY <1>3, <1>4, <1>7, <2>3, <3>1
    <3>. QED BY <1>6, <3>3, <3>4
  <2>4. CASE k \notin DOMAIN all
    <3>1. \A j \in DOMAIN all : m - j # k - 1 BY <1>2, <2>4
    <3>2. Named(c) = {} BY <2>1, <3>1
    <3>3. FolderAt(p, k, v) = <<>> BY <1>3, <1>4, <1>7, <2>4
    <3>. QED BY <3>2, <3>3
  <2>. QED BY <2>3, <2>4
<1>8. CASE v # "destroy"
  <2>1. Named(c) = {all[i] : i \in {j \in DOMAIN all : j - 1 = k - 1}} BY <1>5, <1>8
  <2>2. {j \in DOMAIN all : j - 1 = k - 1} = {k} \intersect DOMAIN all BY <1>2
  <2>. QED BY <1>4, <1>6, <1>8, <2>1, <2>2
<1>. QED BY <1>7, <1>8

LEMMA StepAsked ==
  ASSUME NEW v \in Mutations, NEW n \in Names, NEW k \in {1, 2},
         NEW c, c = ForStep(v, n, k), Request(c) # NoRequest
  PROVE  Asked(Steps(Confirmation(Request(c))), c)
<1>1. PICK p : p = CanonicalName(n) OBVIOUS
<1>2. PICK req : req = Request(c) OBVIOUS
<1>3. /\ req = [action |-> v, mode |-> "pipeline", folders |-> <<>>, pipeline |-> p, step |-> k]
      /\ p # <<>>
  BY <1>1, <1>2, StepRequest
<1>4. c.action = v /\ c.pipeline = n /\ c.step = k BY FieldsOfForms
<1>5. CanonicalName(c.pipeline) = p /\ c.pipeline # <<>> BY <1>1, <1>4 DEF Names
<1>6. req.action = v /\ req.pipeline = p /\ req.step = k BY <1>3
<1>7. PICK fs \in Seq(Names) : /\ fs = Pinned(req) /\ IsInjective(fs)
                               /\ (IF ToSet(fs) \subseteq ToSet(Configured) THEN ToSet(fs) ELSE {})
                                    = IF Named(c) \subseteq ToSet(Configured) THEN Named(c) ELSE {}
  <2>1. <<>> \in Seq(Names) /\ IsInjective(<<>>) /\ ToSet(<<>>) = {} BY DEF IsInjective, ToSet
  <2>2. CASE p \in DOMAIN Pipelines
    <3>1. PICK f : f = FolderAt(p, k, v) OBVIOUS
    <3>2. Named(c) = {f} \ {<<>>} /\ (f # <<>> => f \in Names) /\ Named(c) \subseteq ToSet(Configured)
      BY <1>4, <1>5, <2>2, <3>1, StepFolder
    <3>3. Pinned(req) = IF f = <<>> THEN <<>> ELSE <<f>> BY <1>3, <1>6, <2>2, <3>1 DEF Pinned
    <3>4. f # <<>> => <<f>> \in Seq(Names) /\ IsInjective(<<f>>) /\ ToSet(<<f>>) = {f}
      BY <3>2 DEF IsInjective, ToSet
    <3>5. CASE f = <<>> BY <2>1, <3>2, <3>3, <3>5
    <3>6. CASE f # <<>>
      <4>1. PICK x \in Seq(Names) : x = <<f>> /\ IsInjective(x) /\ ToSet(x) = {f} BY <3>4, <3>6
      <4>2. Pinned(req) = x /\ Named(c) = {f} BY <3>2, <3>3, <3>6, <4>1
      <4>. QED BY <4>1, <4>2
    <3>. QED BY <3>5, <3>6
  <2>3. CASE p \notin DOMAIN Pipelines
    <3>1. Pinned(req) = <<>> BY <1>3, <1>6, <2>3 DEF Pinned
    <3>2. Named(c) = {} BY <1>4, <1>5, <2>3 DEF Named
    <3>. QED BY <2>1, <3>1, <3>2
  <2>. QED BY <2>2, <2>3
<1>8. PICK e : e = Confirmation(req) OBVIOUS
<1>9. e.pipeline = <<>> /\ e.folders = fs /\ e.all = FALSE /\ e.affected = FALSE BY <1>6, <1>7, <1>8, ConfirmationIs
<1>10. SelectedFolders(e) = fs BY <1>9 DEF SelectedFolders
<1>11. Lines(Steps(e), Names, IF ToSet(fs) \subseteq ToSet(Configured) THEN ToSet(fs) ELSE {})
  BY <1>7, <1>9, <1>10, ExplicitSteps
<1>12. Lines(Steps(e), Names, IF Named(c) \subseteq ToSet(Configured) THEN Named(c) ELSE {})
  <2>1. PICK a, b : /\ a = IF ToSet(fs) \subseteq ToSet(Configured) THEN ToSet(fs) ELSE {}
                    /\ b = IF Named(c) \subseteq ToSet(Configured) THEN Named(c) ELSE {}
    OBVIOUS
  <2>2. a = b BY <1>7, <2>1
  <2>. QED BY <1>11, <2>1, <2>2
<1>13. c.action \in Mutations BY <1>4
<1>. QED BY <1>2, <1>8, <1>12, <1>13, AskedFrom

\* What a comment asks for is what its run works on, at once or once confirmed.
LEMMA CommandAsked ==
  ASSUME NEW t \in Texts, NEW c, c = Parse(t), Request(c) # NoRequest, c.confirm = <<>>
  PROVE  /\ c.action \in Mutations => Asked(Steps(Confirmation(Request(c))), c)
         /\ c.action \notin Mutations => Asked(Steps(Event(Request(c))), c)
         /\ c # Rejected
<1>0. c # Rejected
  <2>. SUFFICES ASSUME c = Rejected PROVE Request(c) = NoRequest OBVIOUS
  <2>. QED BY DEF Request
<1>1. CASE OfFolders(c)
  <2>1. PICK v \in {"plan", "apply", "destroy"}, l \in Seq(Names) \ {<<>>}, d \in BOOLEAN : c = ForFolders(v, l, d)
    BY <1>1 DEF OfFolders
  <2>2. c.action = v BY <2>1, FieldsOfForms
  <2>3. v = "plan" => Asked(Steps(Event(Request(c))), c) BY <2>1, FoldersAsked
  <2>4. v \in Mutations => Asked(Steps(Confirmation(Request(c))), c) BY <2>1, FoldersAsked
  <2>5. v # "plan" => v \in Mutations BY DEF Mutations
  <2>. QED BY <1>0, <2>2, <2>3, <2>4, <2>5
<1>2. CASE c = ForAll
  <2>1. c.action = "report" BY <1>2, FieldsOfForms
  <2>. QED BY <1>0, <1>2, <2>1, AllAsked DEF Mutations
<1>3. CASE OfPipeline(c)
  <2>1. PICK v \in {"plan", "drift"}, n \in Names, d \in BOOLEAN : c = ForPipeline(v, n, d) /\ (d => v = "plan")
    BY <1>3 DEF OfPipeline
  <2>2. c.action = v BY <2>1, FieldsOfForms
  <2>3. Asked(Steps(Event(Request(c))), c) BY <2>1, PipelineAsked
  <2>. QED BY <1>0, <2>2, <2>3 DEF Mutations
<1>4. CASE OfStep(c)
  <2>1. PICK v \in Mutations, n \in Names, k \in {1, 2} : c = ForStep(v, n, k) BY <1>4 DEF OfStep
  <2>2. c.action = v BY <2>1, FieldsOfForms
  <2>3. Asked(Steps(Confirmation(Request(c))), c) BY <2>1, StepAsked
  <2>. QED BY <1>0, <2>2, <2>3
<1>5. CASE OfConfirm(c)
  <2>1. PICK v, k : c = ForConfirm(v, k) /\ k # <<>> BY <1>5 DEF OfConfirm
  <2>2. c.confirm = k BY <2>1, FieldsOfForms
  <2>. QED BY <2>1, <2>2
<1>. QED BY <1>0, <1>1, <1>2, <1>3, <1>4, <1>5, CommandForms

LEMMA ReadsAsked == ReadsAsAsked
<1>. SUFFICES ASSUME NEW c \in Commanded({"plan", "report", "drift"}) PROVE AreAsked(Steps(Event(Request(c))), c)
  BY DEF ReadsAsAsked
<1>1. PICK t \in Texts : c = Parse(t) BY DEF Commanded
<1>2. c.action \in {"plan", "report", "drift"} /\ c.confirm = <<>> /\ Request(c) # NoRequest BY DEF Commanded
<1>3. c.action \notin Mutations BY <1>2 DEF Mutations
<1>4. Asked(Steps(Event(Request(c))), c) BY <1>1, <1>2, <1>3, CommandAsked
<1>. QED BY <1>4 DEF Asked

LEMMA ConfirmedAsked == ConfirmedAsAsked
<1>. SUFFICES ASSUME NEW c \in Commanded(Mutations) PROVE AreAsked(Steps(Confirmation(Request(c))), c)
  BY DEF ConfirmedAsAsked
<1>1. PICK t \in Texts : c = Parse(t) BY DEF Commanded
<1>2. c.action \in Mutations /\ c.confirm = <<>> /\ Request(c) # NoRequest BY DEF Commanded
<1>3. Asked(Steps(Confirmation(Request(c))), c) BY <1>1, <1>2, CommandAsked
<1>. QED BY <1>3 DEF Asked

\* What a request carries.
LEMMA RequestFields ==
  ASSUME NEW t \in Texts, NEW c, c = Parse(t), Request(c) # NoRequest, c.confirm = <<>>
  PROVE  /\ Request(c) \in [action : Verbs \union {"plan_destroy", "drift"}, mode : {"pipeline", "all", "explicit", "affected"},
                            folders : Seq(Names), pipeline : Seq({"."} \union STRING), step : Nat]
         /\ Request(c).action \in Mutations <=> c.action \in Mutations
         /\ Request(c).action = c.action \/ Request(c).action \notin Mutations
<1>0. c # Rejected BY CommandAsked
<1>. DEFINE R == [action : Verbs \union {"plan_destroy", "drift"}, mode : {"pipeline", "all", "explicit", "affected"},
                  folders : Seq(Names), pipeline : Seq({"."} \union STRING), step : Nat]
<1>a. <<>> \in Seq(Names) /\ <<>> \in Seq({"."} \union STRING) OBVIOUS
<1>b. c.action \in Verbs \union {"drift"} =>
        /\ EffectiveAction(c) \in Verbs \union {"plan_destroy", "drift"}
        /\ EffectiveAction(c) \in Mutations <=> c.action \in Mutations
        /\ EffectiveAction(c) = c.action \/ EffectiveAction(c) \notin Mutations
  BY DEF EffectiveAction, Verbs, Mutations
<1>c. \A n \in Names : CanonicalName(n) \in Seq({"."} \union STRING) BY CanonicalNameIs DEF Names
<1>1. CASE OfFolders(c)
  <2>1. PICK v \in {"plan", "apply", "destroy"}, l \in Seq(Names) \ {<<>>}, d \in BOOLEAN : c = ForFolders(v, l, d)
    BY <1>1 DEF OfFolders
  <2>2. c.action = v /\ v \in Verbs BY <2>1, FieldsOfForms DEF Verbs
  <2>3. PICK fs \in Seq(Names) : fs = Distinct(l) BY DistinctIs
  <2>4. PICK a : a = EffectiveAction(c) OBVIOUS
  <2>5. Request(c) = [action |-> a, mode |-> "explicit", folders |-> fs, pipeline |-> <<>>, step |-> 0]
    BY <2>1, <2>3, <2>4, FoldersRequest
  <2>. QED BY <1>a, <1>b, <2>2, <2>4, <2>5
<1>2. CASE c = ForAll
  <2>1. c.action = "report" /\ "report" \in Verbs BY <1>2, FieldsOfForms DEF Verbs
  <2>2. Request(c) = [action |-> "report", mode |-> "all", folders |-> <<>>, pipeline |-> <<>>, step |-> 0]
    BY <1>2, AllRequest
  <2>. QED BY <1>a, <2>1, <2>2
<1>3. CASE OfPipeline(c)
  <2>1. PICK v \in {"plan", "drift"}, n \in Names, d \in BOOLEAN : c = ForPipeline(v, n, d) BY <1>3 DEF OfPipeline
  <2>2. c.action = v /\ v \in Verbs \union {"drift"} BY <2>1, FieldsOfForms DEF Verbs
  <2>3. PICK p \in Seq({"."} \union STRING) : p = CanonicalName(n) BY <1>c
  <2>4. PICK a : a = EffectiveAction(c) OBVIOUS
  <2>5. Request(c) = [action |-> a, mode |-> "pipeline", folders |-> <<>>, pipeline |-> p, step |-> 0]
    BY <2>1, <2>3, <2>4, PipelineRequest
  <2>. QED BY <1>a, <1>b, <2>2, <2>4, <2>5
<1>4. CASE OfStep(c)
  <2>1. PICK v \in Mutations, n \in Names, k \in {1, 2} : c = ForStep(v, n, k) BY <1>4 DEF OfStep
  <2>2. c.action = v /\ v \in Verbs BY <2>1, FieldsOfForms DEF Verbs, Mutations
  <2>3. PICK p \in Seq({"."} \union STRING) : p = CanonicalName(n) BY <1>c
  <2>5. Request(c) = [action |-> v, mode |-> "pipeline", folders |-> <<>>, pipeline |-> p, step |-> k]
    BY <2>1, <2>3, StepRequest
  <2>6. k \in Nat OBVIOUS
  <2>. QED BY <1>a, <2>2, <2>5, <2>6
<1>5. CASE OfConfirm(c)
  <2>1. PICK v, k : c = ForConfirm(v, k) /\ k # <<>> BY <1>5 DEF OfConfirm
  <2>2. c.confirm = k BY <2>1, FieldsOfForms
  <2>. QED BY <2>1, <2>2
<1>. QED BY <1>0, <1>1, <1>2, <1>3, <1>4, <1>5, CommandForms

(***************************************************************************)
(* Scripts                                                                 *)
(***************************************************************************)

\* Before each of the calls X of a script there is one of the calls Y.
After(s, X, Y) == \A n \in DOMAIN s : s[n] \in X => \E m \in 1..(n - 1) : s[m] \in Y

\* None of the calls X comes after one of the calls Y.
Never(s, X, Y) == \A n \in DOMAIN s : s[n] \in X => \A m \in 1..(n - 1) : s[m] \notin Y

Meets(s, Y) == \E n \in DOMAIN s : s[n] \in Y

Avoids(s, X) == \A n \in DOMAIN s : s[n] \notin X

LEMMA TailPlaces ==
  ASSUME NEW S, NEW s \in Seq(S), s # <<>>
  PROVE  /\ Tail(s) \in Seq(S) /\ Head(s) = s[1] /\ 1 \in DOMAIN s
         /\ \A n \in DOMAIN Tail(s) : n + 1 \in DOMAIN s /\ Tail(s)[n] = s[n + 1]
         /\ \A n \in DOMAIN s : n # 1 => n - 1 \in DOMAIN Tail(s) /\ Tail(s)[n - 1] = s[n]
<1>1. Len(s) \in Nat /\ Len(s) >= 1 /\ DOMAIN s = 1..Len(s) OBVIOUS
<1>2. Tail(s) \in Seq(S) /\ DOMAIN Tail(s) = 1..(Len(s) - 1) BY <1>1
<1>3. \A n \in 1..(Len(s) - 1) : Tail(s)[n] = s[n + 1] BY <1>1
<1>4. \A n \in 1..Len(s) : n # 1 => n - 1 \in 1..(Len(s) - 1) /\ (n - 1) + 1 = n BY <1>1
<1>. QED BY <1>1, <1>2, <1>3, <1>4

LEMMA ConcatPlaces ==
  ASSUME NEW S, NEW a \in Seq(S), NEW b \in Seq(S)
  PROVE  /\ a \o b \in Seq(S) /\ Len(a) \in Nat
         /\ \A n \in DOMAIN a : n \in DOMAIN (a \o b) /\ (a \o b)[n] = a[n] /\ n \in 1..Len(a)
         /\ \A n \in DOMAIN b : Len(a) + n \in DOMAIN (a \o b) /\ (a \o b)[Len(a) + n] = b[n] /\ n \in Nat /\ n >= 1
         /\ \A n \in DOMAIN (a \o b) :
              \/ n \in DOMAIN a
              \/ n \in Nat /\ n > Len(a) /\ n - Len(a) \in DOMAIN b /\ (a \o b)[n] = b[n - Len(a)]
<1>1. Len(a) \in Nat /\ Len(b) \in Nat /\ DOMAIN a = 1..Len(a) /\ DOMAIN b = 1..Len(b)
      /\ a \o b \in Seq(S) /\ Len(a \o b) = Len(a) + Len(b) /\ DOMAIN (a \o b) = 1..(Len(a) + Len(b))
  OBVIOUS
<1>2. \A n \in 1..(Len(a) + Len(b)) : (a \o b)[n] = IF n <= Len(a) THEN a[n] ELSE b[n - Len(a)] OBVIOUS
<1>3. \A n \in 1..Len(a) : n \in 1..(Len(a) + Len(b)) /\ n <= Len(a) BY <1>1
<1>4. \A n \in 1..Len(b) : Len(a) + n \in 1..(Len(a) + Len(b)) /\ ~ (Len(a) + n <= Len(a))
        /\ (Len(a) + n) - Len(a) = n
  BY <1>1
<1>5. \A n \in 1..(Len(a) + Len(b)) : n <= Len(a) \/ n - Len(a) \in 1..Len(b) BY <1>1
<1>6. \A n \in DOMAIN b : (a \o b)[Len(a) + n] = b[n]
  <2>. TAKE n \in DOMAIN b
  <2>1. Len(a) + n \in 1..(Len(a) + Len(b)) BY <1>1, <1>4
  <2>. QED BY <2>1, <1>1, <1>2, <1>4
<1>7. \A n \in DOMAIN (a \o b) : n \notin DOMAIN a =>
        n \in Nat /\ n > Len(a) /\ n - Len(a) \in DOMAIN b /\ (a \o b)[n] = b[n - Len(a)]
  BY <1>1, <1>2, <1>5
<1>. QED BY <1>1, <1>2, <1>3, <1>4, <1>6, <1>7

LEMMA AfterConcat ==
  ASSUME NEW S, NEW a \in Seq(S), NEW b \in Seq(S), NEW X, NEW Y,
         After(a, X, Y), After(b, X, Y) \/ Meets(a, Y)
  PROVE  After(a \o b, X, Y)
<1>. SUFFICES ASSUME NEW n \in DOMAIN (a \o b), (a \o b)[n] \in X
     PROVE  \E m \in 1..(n - 1) : (a \o b)[m] \in Y
  BY DEF After
<1>1. CASE n \in DOMAIN a
  <2>1. a[n] \in X BY <1>1, ConcatPlaces
  <2>2. PICK m \in 1..(n - 1) : a[m] \in Y BY <1>1, <2>1 DEF After
  <2>3. m \in DOMAIN a BY <1>1
  <2>. QED BY <2>2, <2>3, ConcatPlaces
<1>2. CASE n \notin DOMAIN a
  <2>1. n \in Nat /\ n > Len(a) /\ n - Len(a) \in DOMAIN b /\ b[n - Len(a)] \in X /\ Len(a) \in Nat
    BY <1>2, ConcatPlaces
  <2>2. CASE Meets(a, Y)
    <3>1. PICK m \in DOMAIN a : a[m] \in Y BY <2>2 DEF Meets
    <3>2. m \in 1..Len(a) /\ (a \o b)[m] \in Y BY <3>1, ConcatPlaces
    <3>3. m \in 1..(n - 1) BY <2>1, <3>2
    <3>. QED BY <3>2, <3>3
  <2>3. CASE After(b, X, Y)
    <3>1. PICK m \in 1..((n - Len(a)) - 1) : b[m] \in Y BY <2>1, <2>3 DEF After
    <3>2. m \in DOMAIN b BY <2>1
    <3>3. (a \o b)[Len(a) + m] \in Y BY <3>1, <3>2, ConcatPlaces
    <3>4. Len(a) + m \in 1..(n - 1) BY <2>1, <3>1
    <3>. QED BY <3>3, <3>4
  <2>. QED BY <2>2, <2>3
<1>. QED BY <1>1, <1>2

LEMMA NeverConcat ==
  ASSUME NEW S, NEW a \in Seq(S), NEW b \in Seq(S), NEW X, NEW Y,
         Never(a, X, Y), Never(b, X, Y), Avoids(a, Y) \/ Avoids(b, X)
  PROVE  Never(a \o b, X, Y)
<1>. SUFFICES ASSUME NEW n \in DOMAIN (a \o b), (a \o b)[n] \in X, NEW m \in 1..(n - 1), (a \o b)[m] \in Y
     PROVE  FALSE
  BY DEF Never
<1>0. m \in DOMAIN (a \o b) /\ m < n
  <2>. DOMAIN (a \o b) = 1..Len(a \o b) /\ Len(a \o b) \in Nat OBVIOUS
  <2>. QED OBVIOUS
<1>1. CASE n \in DOMAIN a
  <2>1. a[n] \in X /\ m \in DOMAIN a BY <1>1, ConcatPlaces
  <2>2. a[m] \in Y BY <2>1, ConcatPlaces
  <2>. QED BY <2>1, <2>2, <1>1 DEF Never
<1>2. CASE n \notin DOMAIN a
  <2>1. n \in Nat /\ n > Len(a) /\ n - Len(a) \in DOMAIN b /\ b[n - Len(a)] \in X /\ Len(a) \in Nat
    BY <1>2, ConcatPlaces
  <2>2. CASE m \in DOMAIN a
    <3>1. a[m] \in Y BY <2>2, ConcatPlaces
    <3>. QED BY <2>2, <3>1, <2>1 DEF Avoids
  <2>3. CASE m \notin DOMAIN a
    <3>1. m - Len(a) \in DOMAIN b /\ b[m - Len(a)] \in Y /\ m \in Nat /\ m > Len(a) BY <2>3, <1>0, ConcatPlaces
    <3>2. m - Len(a) \in 1..((n - Len(a)) - 1) BY <1>0, <2>1, <3>1
    <3>. QED BY <3>1, <3>2, <2>1 DEF Never
  <2>. QED BY <2>2, <2>3
<1>. QED BY <1>1, <1>2

LEMMA MeetsConcat ==
  ASSUME NEW S, NEW a \in Seq(S), NEW b \in Seq(S), NEW Y
  PROVE  /\ Meets(a \o b, Y) <=> Meets(a, Y) \/ Meets(b, Y)
         /\ Avoids(a \o b, Y) <=> Avoids(a, Y) /\ Avoids(b, Y)
<1>1. ASSUME Meets(a, Y) \/ Meets(b, Y) PROVE Meets(a \o b, Y)
  <2>1. CASE Meets(a, Y)
    <3>1. PICK n \in DOMAIN a : a[n] \in Y BY <2>1 DEF Meets
    <3>. QED BY <3>1, ConcatPlaces DEF Meets
  <2>2. CASE Meets(b, Y)
    <3>1. PICK n \in DOMAIN b : b[n] \in Y BY <2>2 DEF Meets
    <3>. QED BY <3>1, ConcatPlaces DEF Meets
  <2>. QED BY <1>1, <2>1, <2>2
<1>2. ASSUME NEW n \in DOMAIN (a \o b), (a \o b)[n] \in Y PROVE Meets(a, Y) \/ Meets(b, Y)
  <2>1. CASE n \in DOMAIN a BY <2>1, <1>2, ConcatPlaces DEF Meets
  <2>2. CASE n \notin DOMAIN a
    <3>1. n - Len(a) \in DOMAIN b /\ (a \o b)[n] = b[n - Len(a)] BY <2>2, ConcatPlaces
    <3>. QED BY <3>1, <1>2 DEF Meets
  <2>. QED BY <2>1, <2>2
<1>. QED BY <1>1, <1>2 DEF Meets, Avoids

LEMMA AfterTail ==
  ASSUME NEW S, NEW s \in Seq(S), s # <<>>, NEW X, NEW Y, After(s, X, Y)
  PROVE  /\ Head(s) \notin X
         /\ Head(s) \notin Y => After(Tail(s), X, Y)
<1>1. Head(s) \notin X
  <2>1. 1 \in DOMAIN s /\ Head(s) = s[1] BY TailPlaces
  <2>. QED BY <2>1 DEF After
<1>2. ASSUME Head(s) \notin Y PROVE After(Tail(s), X, Y)
  <2>. SUFFICES ASSUME NEW n \in DOMAIN Tail(s), Tail(s)[n] \in X
       PROVE  \E m \in 1..(n - 1) : Tail(s)[m] \in Y
    BY DEF After
  <2>1. n + 1 \in DOMAIN s /\ s[n + 1] \in X /\ n \in Nat /\ n >= 1 /\ s[1] \notin Y
    <3>1. n \in Nat /\ n >= 1 OBVIOUS
    <3>. QED BY <3>1, <1>2, TailPlaces
  <2>2. PICK m \in 1..((n + 1) - 1) : s[m] \in Y BY <2>1 DEF After
  <2>3. m # 1 /\ m \in DOMAIN s
    <3>. DOMAIN s = 1..Len(s) OBVIOUS
    <3>. QED BY <2>1, <2>2
  <2>4. Tail(s)[m - 1] \in Y BY <2>2, <2>3, TailPlaces
  <2>5. m - 1 \in 1..(n - 1) BY <2>1, <2>2, <2>3
  <2>. QED BY <2>4, <2>5
<1>. QED BY <1>1, <1>2

LEMMA NeverTail ==
  ASSUME NEW S, NEW s \in Seq(S), s # <<>>, NEW X, NEW Y, Never(s, X, Y)
  PROVE  /\ Never(Tail(s), X, Y)
         /\ Head(s) \in Y => Avoids(Tail(s), X)
<1>0. \A n \in DOMAIN Tail(s) : n \in Nat /\ n >= 1 OBVIOUS
<1>1. ASSUME NEW n \in DOMAIN Tail(s), Tail(s)[n] \in X, NEW m \in 1..(n - 1) PROVE Tail(s)[m] \notin Y
  <2>1. n + 1 \in DOMAIN s /\ s[n + 1] \in X BY <1>1, TailPlaces
  <2>2. m \in DOMAIN Tail(s) BY <1>1
  <2>3. Tail(s)[m] = s[m + 1] BY <2>2, TailPlaces
  <2>4. m + 1 \in 1..((n + 1) - 1) BY <1>0, <1>1
  <2>. QED BY <2>1, <2>3, <2>4 DEF Never
<1>2. ASSUME Head(s) \in Y, NEW n \in DOMAIN Tail(s) PROVE Tail(s)[n] \notin X
  <2>1. n + 1 \in DOMAIN s /\ Tail(s)[n] = s[n + 1] /\ s[1] \in Y BY <1>2, TailPlaces
  <2>2. 1 \in 1..((n + 1) - 1) BY <1>0, <1>2
  <2>. QED BY <2>1, <2>2 DEF Never
<1>. QED BY <1>1, <1>2 DEF Never, Avoids

LEMMA MeetsTail ==
  ASSUME NEW S, NEW s \in Seq(S), s # <<>>, NEW Y
  PROVE  /\ Meets(s, Y) => Head(s) \in Y \/ Meets(Tail(s), Y)
         /\ Avoids(s, Y) => Head(s) \notin Y /\ Avoids(Tail(s), Y)
<1>1. \A n \in DOMAIN s : s[n] = Head(s) \/ (n - 1 \in DOMAIN Tail(s) /\ Tail(s)[n - 1] = s[n]) BY TailPlaces
<1>2. \A n \in DOMAIN Tail(s) : n + 1 \in DOMAIN s /\ Tail(s)[n] = s[n + 1] BY TailPlaces
<1>3. 1 \in DOMAIN s /\ Head(s) = s[1] BY TailPlaces
<1>. QED BY <1>1, <1>2, <1>3 DEF Meets, Avoids

(***************************************************************************)
(* Comments and calls                                                      *)
(***************************************************************************)

AllPlaces == Folders \union {All, Config, Failed}
Actions == Verbs \union {"plan_destroy", "drift"}

\* What a comment may be.  What carries a marker has a type that has one.
Comments ==
  {c \in [run : Runs \union {Earlier}, kind : Kinds, type : Types \union {"plan_destroy", "failure"},
          place : AllPlaces, managed : BOOLEAN] : c.managed => c.type \in Types}

\* The comments another run may delete.
Deletable == {c \in Comments : c.managed \/ c.kind \in {"failure", "status"}}

\* The comments of an aggregate.
AggregateComments == [run : Runs \union {Earlier}, kind : {"aggregate"}, type : Mutations,
                      place : {All}, managed : {TRUE}]

FindCalls == [op : {"find"}, by : {"marker", "failure", "mention"},
              type : Types \union {"status", "failure"}, place : AllPlaces, run : Runs \union {Nobody}]
DeleteCalls == [op : {"delete"}, set : SUBSET Deletable]
SweepCalls == [op : {"sweep"}, kinds : SUBSET (Asking \union {"status"})]
CreateCalls == [op : {"create"}, comment : Comments]
ReleaseCalls == [op : {"release"}, folder : Folders]
SaveCalls == [op : {"save"}, comment : AggregateComments]
RunCalls == [op : {"run"}, folder : Folders]
DoCalls == [op : {"read", "upsert", "record"}]

Calls == FindCalls \union DeleteCalls \union SweepCalls \union CreateCalls \union ReleaseCalls
           \union SaveCalls \union RunCalls \union DoCalls

\* A mutation of a pipeline works on one of its checkpoints.
OnCheckpoint(j) == j.action \in Mutations /\ j.pipeline # <<>>

\* Which calls a run makes in a state of its execution.
Fits(r, j, state, k) ==
  /\ k.op = "create" =>
       /\ k.comment.run = r
       /\ state = "placing" => k.comment.managed /\ k.comment.kind \in {"pending", "status"}
       /\ state = "working" => ~ k.comment.managed /\ k.comment.kind = "status"
       /\ state = "rendering" =>
            /\ k.comment.kind \in {"result", "preview", "summary", "aggregate"}
            /\ k.comment.kind \in {"result", "summary"} /\ j.action \in Mutations => ~ k.comment.managed
       /\ state = "failing" =>
            k.comment.kind = "failure" /\ ~ k.comment.managed /\ k.comment.place = Failed
  /\ k.op = "sweep" => state \in {"placing", "rendering", "failing"}
                         /\ (state = "placing" => j.action \notin Mutations)
  /\ k.op \in {"read", "upsert", "save", "record"} => state = "rendering" /\ OnCheckpoint(j)
  /\ k.op = "run" => state = "working"
  /\ k.op = "release" => state = "rendering"

\* The calls that clear a comment away.
Clears(k, c) ==
  \/ k.op = "find" /\ Matches(c, k)
  \/ k.op = "delete" /\ c \in k.set
  \/ k.op = "sweep" /\ c.kind \in k.kinds /\ ~ c.managed
Clearing(c) == {k \in Calls : Clears(k, c)}

\* The calls that show an outcome at a place, and those that put a comment at it.
PostsAt(p) == {k \in Calls : k.op = "create" /\ k.comment.place = p
                               /\ k.comment.kind \notin {"pending", "status"}}
CreatesAt(p) == {k \in Calls : k.op = "create" /\ k.comment.place = p}
TellsAt(p) == PostsAt(p) \union IF p = All THEN {k \in Calls : k.op = "upsert"} ELSE {}

AskingSweeps == {k \in Calls : k.op = "sweep" /\ k.kinds \intersect Asking # {}}
Records == {k \in Calls : k.op = "record"}
Saves == {k \in Calls : k.op \in {"upsert", "save"}}
Releases(f) == {k \in Calls : k.op = "release" /\ k.folder = f}

LEMMA PlacesAreDistinct ==
  /\ All \notin Folders /\ Config \notin Folders /\ Failed \notin Folders
  /\ All # Config /\ All # Failed /\ Config # Failed
<1>1. Failed \notin Folders
  <2>. SUFFICES ASSUME NEW i \in DOMAIN Configured, Configured[i] = Failed PROVE FALSE
    BY DEF Folders, ToSet
  <2>1. "" \notin ToSet(Failed) BY ConfiguredAreFolders DEF IsFolderPath
  <2>2. Failed[1] = "" /\ 1 \in DOMAIN Failed
    <3>1. DOMAIN <<"", "failure">> = 1..2 OBVIOUS
    <3>2. 1 \in 1..2 OBVIOUS
    <3>. QED BY <3>1, <3>2 DEF Failed
  <2>. QED BY <2>1, <2>2 DEF ToSet
<1>2. All[1] = "all" /\ Config[1] = "config" /\ Failed[1] = "" BY DEF All, Config, Failed
<1>3. "all" # "config" /\ "all" # "" /\ "config" # "" OBVIOUS
<1>. QED BY <1>1, <1>2, <1>3, NoFolderIsReserved

LEMMA CallForms ==
  ASSUME NEW k \in Calls
  PROVE  /\ k.op = "find" => k \in FindCalls
         /\ k.op = "delete" => k \in DeleteCalls
         /\ k.op = "sweep" => k \in SweepCalls
         /\ k.op = "create" => k \in CreateCalls
         /\ k.op = "release" => k \in ReleaseCalls
         /\ k.op = "save" => k \in SaveCalls
         /\ k.op = "run" => k \in RunCalls
         /\ k.op \in {"find", "delete", "sweep", "create", "release", "save", "run", "read", "upsert", "record"}
<1>1. CASE k \in FindCalls BY <1>1 DEF FindCalls
<1>2. CASE k \in DeleteCalls BY <1>2 DEF DeleteCalls
<1>3. CASE k \in SweepCalls BY <1>3 DEF SweepCalls
<1>4. CASE k \in CreateCalls BY <1>4 DEF CreateCalls
<1>5. CASE k \in ReleaseCalls BY <1>5 DEF ReleaseCalls
<1>6. CASE k \in SaveCalls BY <1>6 DEF SaveCalls
<1>7. CASE k \in RunCalls BY <1>7 DEF RunCalls
<1>8. CASE k \in DoCalls BY <1>8 DEF DoCalls
<1>. QED BY <1>1, <1>2, <1>3, <1>4, <1>5, <1>6, <1>7, <1>8 DEF Calls

\* The calls the scripts are made of.
LEMMA CallsAre ==
  /\ \A t \in Types, p \in AllPlaces : Managed(t, p) \in Calls
  /\ Failures \in Calls
  /\ \A r \in Runs : Mentions(r) \in Calls
  /\ \A D \in SUBSET Deletable : Delete(D) \in Calls
  /\ \A K \in SUBSET (Asking \union {"status"}) : Sweep(K) \in Calls
  /\ \A c \in Comments : Create(c) \in Calls
  /\ \A f \in Folders : Release(f) \in Calls /\ RunFolder(f) \in Calls
  /\ \A c \in AggregateComments : Save(c) \in Calls
  /\ \A op \in {"read", "upsert", "record"} : Do(op) \in Calls
<1>1. \A t \in Types, p \in AllPlaces : Managed(t, p) \in FindCalls BY DEF Managed, FindCalls
<1>2. Failures \in FindCalls BY DEF Failures, FindCalls, AllPlaces
<1>3. \A r \in Runs : Mentions(r) \in FindCalls BY DEF Mentions, FindCalls, AllPlaces
<1>4. \A D \in SUBSET Deletable : Delete(D) \in DeleteCalls BY DEF Delete, DeleteCalls
<1>5. \A K \in SUBSET (Asking \union {"status"}) : Sweep(K) \in SweepCalls BY DEF Sweep, SweepCalls
<1>6. \A c \in Comments : Create(c) \in CreateCalls BY DEF Create, CreateCalls
<1>7. \A f \in Folders : Release(f) \in ReleaseCalls /\ RunFolder(f) \in RunCalls
  BY DEF Release, RunFolder, ReleaseCalls, RunCalls
<1>8. \A c \in AggregateComments : Save(c) \in SaveCalls BY DEF Save, SaveCalls
<1>9. \A op \in {"read", "upsert", "record"} : Do(op) \in DoCalls BY DEF Do, DoCalls
<1>. QED BY <1>1, <1>2, <1>3, <1>4, <1>5, <1>6, <1>7, <1>8, <1>9 DEF Calls

(***************************************************************************)
(* What the Lambdas do                                                     *)
(***************************************************************************)

\* What is known of a run that has started.
JobOK(j) ==
  /\ j.action \in Actions
  /\ j.step \in Nat
  /\ OnCheckpoint(j) => j.pipeline \in DOMAIN Pipelines

\* Its items once it resolved its folders.
ItemsOK(its) ==
  /\ its.launched = <<Config>> \/ its.launched \in Seq(Folders)
  /\ its.skipped \in Seq(Folders)
  /\ IsInjective(its.launched)
  /\ ToSet(its.launched) \intersect ToSet(its.skipped) = {}

LEMMA TypesAre ==
  ASSUME NEW r \in Runs, JobOK(job[r])
  PROVE  /\ TypeOf(job[r].action) \in Types /\ SummaryType(job[r].action) \in Types
         /\ job[r].action \in Types \union {"plan_destroy", "failure"}
         /\ IsPipelineMutation(r) => job[r].action \in Mutations /\ Key(r) \in Aggregates
BY DEF JobOK, OnCheckpoint, TypeOf, SummaryType, Actions, Verbs, Types, Mutations, IsPipelineMutation, Key, Aggregates

LEMMA CommentIs ==
  ASSUME NEW r \in Runs, NEW kind \in Kinds, NEW type \in Types \union {"plan_destroy", "failure"},
         NEW place \in AllPlaces, NEW managed \in BOOLEAN, managed => type \in Types
  PROVE  /\ Comment(r, kind, type, place, managed) \in Comments
         /\ Comment(r, kind, type, place, managed).run = r
         /\ Comment(r, kind, type, place, managed).kind = kind
         /\ Comment(r, kind, type, place, managed).type = type
         /\ Comment(r, kind, type, place, managed).place = place
         /\ Comment(r, kind, type, place, managed).managed = managed
BY DEF Comment, Comments

LEMMA ManagedCommentIs ==
  ASSUME NEW r \in Runs, NEW kind \in Kinds, NEW type \in Types,
         NEW place \in AllPlaces
  PROVE  LET c == Comment(r, kind, type, place, TRUE)
         IN  c \in Comments /\ c.run = r /\ c.kind = kind /\ c.type = type /\ c.place = place /\ c.managed
<1>. QED BY DEF Comment, Comments

\* What takes the place of a comment is searched before.
LEMMA ReplaceIs ==
  ASSUME NEW r \in Runs, NEW c \in Comments, c.run = r, c.type \in Types
  PROVE  /\ Replace(c) \in Seq(Calls)
         /\ DOMAIN Replace(c) = {1, 2}
         /\ Replace(c)[1] = Managed(c.type, c.place) /\ Replace(c)[1] \in Calls /\ Replace(c)[1].op = "find"
         /\ Replace(c)[2] = Create(c) /\ Replace(c)[2] \in Calls
         /\ Create(c).op = "create" /\ Create(c).comment = c
         /\ \A d \in Comments : d.managed /\ d.type = c.type /\ d.place = c.place =>
              Meets(Replace(c), Clearing(d)) /\ \A p \in AllPlaces : After(Replace(c), CreatesAt(p), Clearing(d))
<1>1. c.place \in AllPlaces BY DEF Comments
<1>2. Managed(c.type, c.place) \in Calls /\ Create(c) \in Calls BY <1>1, CallsAre
<1>3. PICK k \in Calls : k = Managed(c.type, c.place) BY <1>2
<1>4. PICK l \in Calls : l = Create(c) BY <1>2
<1>5. Replace(c) = <<k, l>> BY <1>3, <1>4 DEF Replace
<1>6. /\ <<k, l>> \in Seq(Calls) /\ DOMAIN <<k, l>> = {1, 2} /\ <<k, l>>[1] = k /\ <<k, l>>[2] = l
  OBVIOUS
<1>7. k.op = "find" /\ l.op = "create" /\ l.comment = c BY <1>3, <1>4 DEF Managed, Create
<1>8. ASSUME NEW d \in Comments, d.managed /\ d.type = c.type /\ d.place = c.place
      PROVE  k \in Clearing(d)
  BY <1>8, <1>3 DEF Managed, Clearing, Clears, Matches
<1>9. \A p : k \notin CreatesAt(p) BY <1>7 DEF CreatesAt
<1>10. 1 \in 1..(2 - 1) OBVIOUS
<1>11. ASSUME NEW d \in Comments, d.managed /\ d.type = c.type /\ d.place = c.place
       PROVE  Meets(<<k, l>>, Clearing(d)) /\ \A p \in AllPlaces : After(<<k, l>>, CreatesAt(p), Clearing(d))
  <2>1. k \in Clearing(d) BY <1>8, <1>11
  <2>2. Meets(<<k, l>>, Clearing(d)) BY <2>1, <1>6 DEF Meets
  <2>3. \A p \in AllPlaces : After(<<k, l>>, CreatesAt(p), Clearing(d)) BY <2>1, <1>6, <1>9, <1>10 DEF After
  <2>. QED BY <2>2, <2>3
<1>. QED BY <1>3, <1>4, <1>5, <1>6, <1>7, <1>11

\* What holds of each row of a flattened sequence holds of the whole.
LEMMA FlattenMeets ==
  ASSUME NEW S, NEW seqs \in Seq(Seq(S)), NEW Y
  PROVE  Meets(FlattenSeq(seqs), Y) <=> \E i \in DOMAIN seqs : Meets(seqs[i], Y)
<1>0. PICK flat \in Seq(S) : flat = FlattenSeq(seqs) /\ \E row, col : Spread(seqs, flat, row, col)
  BY FlattenSpread
<1>1. PICK row, col : flat = FlattenSeq(seqs) /\ Spread(seqs, flat, row, col) BY <1>0
<1>2. ASSUME NEW i \in DOMAIN seqs, Meets(seqs[i], Y) PROVE Meets(flat, Y)
  <2>1. PICK j \in DOMAIN seqs[i] : seqs[i][j] \in Y BY <1>2 DEF Meets
  <2>2. PICK n \in DOMAIN flat : row[n] = i /\ col[n] = j BY <1>1, Zenon DEF Spread
  <2>3. flat[n] = seqs[i][j] BY <1>1, <2>2, Zenon DEF Spread
  <2>. QED BY <2>1, <2>2, <2>3 DEF Meets
<1>3. ASSUME Meets(flat, Y) PROVE \E i \in DOMAIN seqs : Meets(seqs[i], Y)
  <2>1. PICK n \in DOMAIN flat : flat[n] \in Y BY <1>3 DEF Meets
  <2>2. row[n] \in DOMAIN seqs /\ col[n] \in DOMAIN seqs[row[n]] /\ flat[n] = seqs[row[n]][col[n]]
    BY <1>1 DEF Spread
  <2>3. Meets(seqs[row[n]], Y) BY <2>1, <2>2 DEF Meets
  <2>. QED BY <2>2, <2>3
<1>. QED BY <1>1, <1>2, <1>3

LEMMA FlattenAvoids ==
  ASSUME NEW S, NEW seqs \in Seq(Seq(S)), NEW X, \A i \in DOMAIN seqs : Avoids(seqs[i], X)
  PROVE  Avoids(FlattenSeq(seqs), X)
<1>1. \A s : Avoids(s, X) <=> ~ Meets(s, X) BY DEF Avoids, Meets
<1>. QED BY <1>1, FlattenMeets

LEMMA FlattenAfter ==
  ASSUME NEW S, NEW seqs \in Seq(Seq(S)), NEW X, NEW Y, \A i \in DOMAIN seqs : After(seqs[i], X, Y)
  PROVE  After(FlattenSeq(seqs), X, Y)
<1>0. PICK flat \in Seq(S) : flat = FlattenSeq(seqs) /\ \E row, col : Spread(seqs, flat, row, col)
  BY FlattenSpread
<1>1. PICK row, col : flat = FlattenSeq(seqs) /\ Spread(seqs, flat, row, col) BY <1>0
<1>2. ASSUME NEW n \in DOMAIN flat, flat[n] \in X PROVE \E m \in 1..(n - 1) : flat[m] \in Y
  <2>1. row[n] \in DOMAIN seqs /\ col[n] \in DOMAIN seqs[row[n]] /\ flat[n] = seqs[row[n]][col[n]]
    BY <1>1 DEF Spread
  <2>2. PICK j \in 1..(col[n] - 1) : seqs[row[n]][j] \in Y
    <3>1. After(seqs[row[n]], X, Y) BY <2>1
    <3>. QED BY <2>1, <3>1, <1>2 DEF After
  <2>3. seqs[row[n]] \in Seq(S) BY <2>1
  <2>4. col[n] \in Nat /\ j \in Nat /\ j < col[n] /\ j \in DOMAIN seqs[row[n]] BY <2>1, <2>2, <2>3
  <2>5. PICK m \in DOMAIN flat : row[m] = row[n] /\ col[m] = j
    <3>1. \A i \in DOMAIN seqs : \A l \in DOMAIN seqs[i] : \E m \in DOMAIN flat : row[m] = i /\ col[m] = l
      BY <1>1, Zenon DEF Spread
    <3>. QED BY <2>1, <2>4, <3>1
  <2>6. flat[m] = seqs[row[n]][j] BY <1>1, <2>5, Zenon DEF Spread
  <2>7. n < m => row[n] < row[m] \/ (row[n] = row[m] /\ col[n] < col[m]) BY <1>1, Zenon DEF Spread
  <2>8. row[n] \in Nat /\ m \in Nat /\ n \in Nat /\ m >= 1 BY <2>1
  <2>9. m \in 1..(n - 1)
    <3>1. m # n BY <2>4, <2>5
    <3>2. ~ (n < m) BY <2>4, <2>5, <2>7, <2>8
    <3>. QED BY <3>1, <3>2, <2>8
  <2>. QED BY <2>2, <2>6, <2>9
<1>. QED BY <1>1, <1>2 DEF After

LEMMA FlattenNever ==
  ASSUME NEW S, NEW seqs \in Seq(Seq(S)), NEW X, NEW Y,
         \A i \in DOMAIN seqs : Never(seqs[i], X, Y),
         \A i, k \in DOMAIN seqs : i # k => Avoids(seqs[i], Y) \/ Avoids(seqs[k], X)
  PROVE  Never(FlattenSeq(seqs), X, Y)
<1>0. PICK flat \in Seq(S) : flat = FlattenSeq(seqs) /\ \E row, col : Spread(seqs, flat, row, col)
  BY FlattenSpread
<1>1. PICK row, col : flat = FlattenSeq(seqs) /\ Spread(seqs, flat, row, col) BY <1>0
<1>2. ASSUME NEW n \in DOMAIN flat, flat[n] \in X, NEW m \in 1..(n - 1), flat[m] \in Y PROVE FALSE
  <2>1. m \in DOMAIN flat /\ m < n BY <1>2
  <2>2. row[n] \in DOMAIN seqs /\ col[n] \in DOMAIN seqs[row[n]] /\ flat[n] = seqs[row[n]][col[n]]
    BY <1>1 DEF Spread
  <2>3. row[m] \in DOMAIN seqs /\ col[m] \in DOMAIN seqs[row[m]] /\ flat[m] = seqs[row[m]][col[m]]
    BY <1>1, <2>1 DEF Spread
  <2>4. row[m] = row[n]
    <3>. SUFFICES ASSUME row[m] # row[n] PROVE FALSE OBVIOUS
    <3>1. Avoids(seqs[row[m]], Y) \/ Avoids(seqs[row[n]], X) BY <2>2, <2>3
    <3>. QED BY <3>1, <2>2, <2>3, <1>2 DEF Avoids
  <2>5. row[m] < row[n] \/ (row[m] = row[n] /\ col[m] < col[n]) BY <1>1, <2>1, Zenon DEF Spread
  <2>6. seqs[row[n]] \in Seq(S) /\ row[n] \in Nat BY <2>2
  <2>7. col[n] \in Nat /\ col[m] \in Nat /\ col[m] >= 1 BY <2>2, <2>3, <2>4, <2>6
  <2>8. col[m] \in 1..(col[n] - 1) BY <2>4, <2>5, <2>6, <2>7
  <2>9. Never(seqs[row[n]], X, Y) BY <2>2
  <2>. QED BY <2>2, <2>3, <2>4, <2>8, <2>9, <1>2 DEF Never
<1>. QED BY <1>1, <1>2 DEF Never

\* The calls a run does not make in a state of its execution.
Misfits(r, j, state) == {k \in Calls : ~ Fits(r, j, state, k)}

\* The comments a run clears before it puts one at the same place.
Shadowed(j) == {d \in Comments : d.managed /\ d.type = TypeOf(j.action) /\ d.place \in Folders}

\* The comment of a folder, once the run is over.
LEMMA ShowIs ==
  ASSUME NEW r \in Runs, JobOK(job[r]), NEW its, NEW f \in Folders \union {Config}
  PROVE  /\ Show(r, its, f) \in Seq(Calls)
         /\ Avoids(Show(r, its, f), Misfits(r, job[r], "rendering"))
         /\ Avoids(Show(r, its, f), AskingSweeps) /\ Avoids(Show(r, its, f), Records)
         /\ \A g : Avoids(Show(r, its, f), Releases(g))
         /\ \A g \in Folders : g # f => Avoids(Show(r, its, f), CreatesAt(g))
         /\ \A d \in Shadowed(job[r]) : After(Show(r, its, f), CreatesAt(d.place), Clearing(d))
         /\ ~ IsFocus(r, its) /\ ~ IsPipelineMutation(r) =>
              /\ Meets(Show(r, its, f), PostsAt(f))
              /\ \A d \in Comments : d.managed /\ d.type = TypeOf(job[r].action) /\ d.place = f =>
                   Meets(Show(r, its, f), Clearing(d))
<1>1. CASE IsFocus(r, its) \/ IsPipelineMutation(r)
  <2>1. Show(r, its, f) = <<>> BY <1>1 DEF Show
  <2>2. <<>> \in Seq(Calls) /\ DOMAIN <<>> = {} OBVIOUS
  <2>. QED BY <1>1, <2>1, <2>2 DEF Avoids, After
<1>2. CASE ~ (IsFocus(r, its) \/ IsPipelineMutation(r))
  <2>. DEFINE c == Comment(r, "result", TypeOf(job[r].action), f, EmitsMarker(job[r].action))
  <2>1. Show(r, its, f) = Replace(c) BY <1>2 DEF Show
  <2>2. /\ c \in Comments /\ c.run = r /\ c.kind = "result" /\ c.type = TypeOf(job[r].action)
        /\ c.place = f /\ (c.managed <=> job[r].action \notin Mutations)
    <3>1. "result" \in Kinds /\ f \in AllPlaces /\ EmitsMarker(job[r].action) \in BOOLEAN
      BY DEF Kinds, AllPlaces, EmitsMarker
    <3>2. EmitsMarker(job[r].action) = (job[r].action \notin Mutations) BY DEF EmitsMarker
    <3>3. TypeOf(job[r].action) \in Types BY TypesAre
    <3>4. PICK m \in BOOLEAN : m = EmitsMarker(job[r].action) BY <3>1
    <3>5. PICK t \in Types : t = TypeOf(job[r].action) BY <3>3
    <3>6. c = Comment(r, "result", t, f, m) BY <3>4, <3>5
    <3>. HIDE DEF c
    <3>7. c \in Comments /\ c.run = r /\ c.kind = "result" /\ c.type = t /\ c.place = f /\ c.managed = m
      BY <3>1, <3>6, CommentIs
    <3>. QED BY <3>2, <3>4, <3>5, <3>7
  <2>. HIDE DEF c
  <2>3. c.type \in Types BY <2>2, TypesAre
  <2>4. PICK s \in Seq(Calls) : s = Replace(c) BY <2>2, <2>3, ReplaceIs
  <2>5. /\ DOMAIN s = {1, 2} /\ s[1] \in Calls /\ s[2] \in Calls /\ s[1].op = "find"
        /\ s[2].op = "create" /\ s[2].comment = c
    BY <2>2, <2>3, <2>4, ReplaceIs
  <2>6. \A d \in Comments : d.managed /\ d.type = c.type /\ d.place = c.place =>
          Meets(s, Clearing(d)) /\ \A p \in AllPlaces : After(s, CreatesAt(p), Clearing(d))
    BY <2>2, <2>3, <2>4, ReplaceIs
  <2>7. Avoids(s, Misfits(r, job[r], "rendering")) BY <2>2, <2>5 DEF Avoids, Misfits, Fits, OnCheckpoint, IsPipelineMutation
  <2>8. Avoids(s, AskingSweeps) /\ Avoids(s, Records) /\ \A g : Avoids(s, Releases(g))
    BY <2>5 DEF Avoids, AskingSweeps, Records, Releases
  <2>9. \A g \in Folders : g # f => Avoids(s, CreatesAt(g)) BY <2>2, <2>5 DEF Avoids, CreatesAt
  <2>10. Meets(s, PostsAt(f)) BY <2>2, <2>5 DEF Meets, PostsAt
  <2>11. ASSUME NEW d \in Shadowed(job[r]) PROVE After(s, CreatesAt(d.place), Clearing(d))
    <3>1. d \in Comments /\ d.managed /\ d.type = c.type /\ d.place \in Folders BY <2>2 DEF Shadowed
    <3>2. CASE d.place = f
      <4>1. d.place \in AllPlaces BY <3>1 DEF AllPlaces
      <4>. QED BY <2>2, <2>6, <3>1, <3>2, <4>1
    <3>3. CASE d.place # f BY <2>9, <3>1, <3>3 DEF Avoids, After
    <3>. QED BY <3>2, <3>3
  <2>12. \A d \in Comments : d.managed /\ d.type = TypeOf(job[r].action) /\ d.place = f =>
                   Meets(s, Clearing(d))
    BY <2>2, <2>6
  <2>. QED BY <2>1, <2>4, <2>7, <2>8, <2>9, <2>10, <2>11, <2>12
<1>. QED BY <1>1, <1>2

\* The comment of a folder and its lock.
LEMMA FinishIs ==
  ASSUME NEW r \in Runs, JobOK(job[r]), NEW its, NEW f \in Folders \union {Config}
  PROVE  /\ Finish(r, its, f) \in Seq(Calls)
         /\ Avoids(Finish(r, its, f), Misfits(r, job[r], "rendering"))
         /\ Avoids(Finish(r, its, f), AskingSweeps) /\ Avoids(Finish(r, its, f), Records)
         /\ \A g \in Folders : g # f => /\ Avoids(Finish(r, its, f), CreatesAt(g))
                                        /\ Avoids(Finish(r, its, f), Releases(g))
         /\ \A g \in Folders : Never(Finish(r, its, f), CreatesAt(g), Releases(g))
         /\ \A d \in Shadowed(job[r]) : After(Finish(r, its, f), CreatesAt(d.place), Clearing(d))
         /\ ~ IsFocus(r, its) /\ ~ IsPipelineMutation(r) =>
              /\ Meets(Finish(r, its, f), PostsAt(f))
              /\ \A d \in Comments : d.managed /\ d.type = TypeOf(job[r].action) /\ d.place = f =>
                   Meets(Finish(r, its, f), Clearing(d))
<1>1. PICK a \in Seq(Calls) : a = Show(r, its, f) BY ShowIs
<1>2. PICK b \in Seq(Calls) :
        /\ b = IF f = Config THEN <<>> ELSE <<Release(f)>>
        /\ \A n \in DOMAIN b : n = 1 /\ b[n].op = "release" /\ b[n].folder = f
  <2>1. CASE f = Config
    <3>1. <<>> \in Seq(Calls) /\ DOMAIN <<>> = {} OBVIOUS
    <3>. QED BY <2>1, <3>1
  <2>2. CASE f # Config
    <3>1. Release(f) \in Calls BY <2>2, CallsAre
    <3>2. PICK k \in Calls : k = Release(f) BY <3>1
    <3>3. k.op = "release" /\ k.folder = f BY <3>2 DEF Release
    <3>4. <<k>> \in Seq(Calls) /\ DOMAIN <<k>> = {1} /\ <<k>>[1] = k OBVIOUS
    <3>. QED BY <2>2, <3>2, <3>3, <3>4
  <2>. QED BY <2>1, <2>2
<1>3. Finish(r, its, f) = a \o b BY <1>1, <1>2 DEF Finish
<1>4. Avoids(b, Misfits(r, job[r], "rendering")) BY <1>2 DEF Avoids, Misfits, Fits, OnCheckpoint, IsPipelineMutation
<1>5. Avoids(b, AskingSweeps) /\ Avoids(b, Records) /\ \A g : Avoids(b, CreatesAt(g))
  BY <1>2 DEF Avoids, AskingSweeps, Records, CreatesAt
<1>6. \A g : g # f => Avoids(b, Releases(g)) BY <1>2 DEF Avoids, Releases
<1>7. \A g, X : After(b, CreatesAt(g), X) /\ Never(b, CreatesAt(g), X) BY <1>5 DEF Avoids, After, Never
<1>8. \A g \in Folders : Never(a, CreatesAt(g), Releases(g))
  <2>1. \A g : Avoids(a, Releases(g)) BY <1>1, ShowIs
  <2>2. \A g, n : n \in DOMAIN a => \A m \in 1..(n - 1) : m \in DOMAIN a OBVIOUS
  <2>. QED BY <2>1, <2>2 DEF Avoids, Never
<1>9. \A g \in Folders : Never(a \o b, CreatesAt(g), Releases(g)) BY <1>5, <1>7, <1>8, NeverConcat
<1>10. \A d \in Shadowed(job[r]) : After(a \o b, CreatesAt(d.place), Clearing(d))
  <2>1. \A d \in Shadowed(job[r]) : After(a, CreatesAt(d.place), Clearing(d)) BY <1>1, ShowIs
  <2>. QED BY <2>1, <1>7, AfterConcat
<1>11. a \o b \in Seq(Calls) OBVIOUS
<1>12. Avoids(a \o b, Misfits(r, job[r], "rendering")) /\ Avoids(a \o b, AskingSweeps) /\ Avoids(a \o b, Records)
  <2>1. Avoids(a, Misfits(r, job[r], "rendering")) /\ Avoids(a, AskingSweeps) /\ Avoids(a, Records) BY <1>1, ShowIs
  <2>. QED BY <2>1, <1>4, <1>5, MeetsConcat
<1>13. \A g \in Folders : g # f => Avoids(a \o b, CreatesAt(g)) /\ Avoids(a \o b, Releases(g))
  <2>1. \A g \in Folders : g # f => Avoids(a, CreatesAt(g)) /\ Avoids(a, Releases(g)) BY <1>1, ShowIs
  <2>. QED BY <2>1, <1>5, <1>6, MeetsConcat
<1>14. ASSUME ~ IsFocus(r, its) /\ ~ IsPipelineMutation(r)
       PROVE  /\ Meets(a \o b, PostsAt(f))
              /\ \A d \in Comments : d.managed /\ d.type = TypeOf(job[r].action) /\ d.place = f =>
                   Meets(a \o b, Clearing(d))
  <2>1. /\ Meets(a, PostsAt(f))
        /\ \A d \in Comments : d.managed /\ d.type = TypeOf(job[r].action) /\ d.place = f =>
             Meets(a, Clearing(d))
    BY <1>1, <1>14, ShowIs
  <2>. QED BY <2>1, MeetsConcat
<1>. QED BY <1>3, <1>9, <1>10, <1>11, <1>12, <1>13, <1>14

\* The summary of a run, or what clears its placeholder.
LEMMA SummaryIs ==
  ASSUME NEW r \in Runs, JobOK(job[r]), NEW its
  PROVE  /\ Summary(r, its) \in Seq(Calls)
         /\ Avoids(Summary(r, its), Misfits(r, job[r], "rendering"))
         /\ Avoids(Summary(r, its), AskingSweeps) /\ Avoids(Summary(r, its), Records)
         /\ \A g \in Folders : Avoids(Summary(r, its), Releases(g)) /\ Avoids(Summary(r, its), CreatesAt(g))
         /\ IsPipelineMutation(r) => Meets(Summary(r, its), TellsAt(All)) /\ Meets(Summary(r, its), Saves)
         /\ ~ IsPipelineMutation(r) =>
              \A d \in Comments : d.managed /\ d.type = SummaryType(job[r].action) /\ d.place = All =>
                Meets(Summary(r, its), Clearing(d))
<1>. DEFINE action == job[r].action
            posts == action = "report" \/ Len(its.launched) + Len(its.skipped) > 1
<1>0. All \in AllPlaces /\ All \notin Folders /\ \A g \in Folders : g # All BY PlacesAreDistinct DEF AllPlaces
<1>1. CASE IsPipelineMutation(r)
  <2>. DEFINE t == IF action = "destroy" THEN "destroy" ELSE "plan"
  <2>0. ~ IsFocus(r, its) BY <1>1 DEF IsFocus, IsPipelineMutation, Mutations
  <2>1. Summary(r, its) = <<Do("read"), Managed(t, All), Do("upsert")>> BY <1>1, <2>0 DEF Summary
  <2>2. t \in Types BY DEF Types
  <2>3. PICK k \in Calls : k = Do("read") /\ k.op = "read"
    <3>1. Do("read") \in Calls BY CallsAre
    <3>. QED BY <3>1 DEF Do
  <2>4. PICK l \in Calls : l = Managed(t, All) /\ l.op = "find"
    <3>1. Managed(t, All) \in Calls BY CallsAre, <2>2, <1>0
    <3>. QED BY <3>1 DEF Managed
  <2>5. PICK m \in Calls : m = Do("upsert") /\ m.op = "upsert"
    <3>1. Do("upsert") \in Calls BY CallsAre
    <3>. QED BY <3>1 DEF Do
  <2>6. <<k, l, m>> \in Seq(Calls) /\ DOMAIN <<k, l, m>> = {1, 2, 3} /\ <<k, l, m>>[1] = k
        /\ <<k, l, m>>[2] = l /\ <<k, l, m>>[3] = m
    OBVIOUS
  <2>7. PICK s \in Seq(Calls) :
          s = Summary(r, its) /\ DOMAIN s = {1, 2, 3} /\ s[1] = k /\ s[2] = l /\ s[3] = m
    BY <2>1, <2>3, <2>4, <2>5, <2>6
  <2>8. Avoids(s, Misfits(r, job[r], "rendering")) BY <1>1, <2>3, <2>4, <2>5, <2>7 DEF Avoids, Misfits, Fits, OnCheckpoint, IsPipelineMutation
  <2>9. Avoids(s, AskingSweeps) /\ Avoids(s, Records) /\ \A g : Avoids(s, Releases(g)) /\ Avoids(s, CreatesAt(g))
    BY <2>3, <2>4, <2>5, <2>7 DEF Avoids, AskingSweeps, Records, Releases, CreatesAt
  <2>10. Meets(s, TellsAt(All)) /\ Meets(s, Saves) BY <2>5, <2>7 DEF Meets, TellsAt, Saves
  <2>. QED BY <1>1, <2>7, <2>8, <2>9, <2>10
<1>2. ASSUME NEW kind \in {"preview", "summary"}, NEW managed \in BOOLEAN,
             kind = "summary" /\ job[r].action \in Mutations => ~ managed,
             ~ IsPipelineMutation(r),
             Summary(r, its) = Replace(Comment(r, kind, SummaryType(action), All, managed))
      PROVE  /\ Summary(r, its) \in Seq(Calls)
             /\ Avoids(Summary(r, its), Misfits(r, job[r], "rendering"))
             /\ Avoids(Summary(r, its), AskingSweeps) /\ Avoids(Summary(r, its), Records)
             /\ \A g \in Folders : Avoids(Summary(r, its), Releases(g)) /\ Avoids(Summary(r, its), CreatesAt(g))
             /\ \A d \in Comments : d.managed /\ d.type = SummaryType(job[r].action) /\ d.place = All =>
                  Meets(Summary(r, its), Clearing(d))
  <2>. DEFINE c == Comment(r, kind, SummaryType(action), All, managed)
  <2>1. /\ c \in Comments /\ c.run = r /\ c.kind = kind /\ c.type = SummaryType(action)
        /\ c.place = All /\ c.managed = managed
    <3>1. kind \in Kinds BY DEF Kinds
    <3>2. SummaryType(action) \in Types BY TypesAre
    <3>. QED BY <3>1, <3>2, <1>0, CommentIs
  <2>. HIDE DEF c
  <2>2. c.type \in Types BY <2>1, TypesAre
  <2>3. Summary(r, its) = Replace(c) BY <1>2 DEF c
  <2>4. PICK s \in Seq(Calls) : s = Replace(c) BY <2>1, <2>2, ReplaceIs
  <2>5. /\ DOMAIN s = {1, 2} /\ s[1] \in Calls /\ s[2] \in Calls /\ s[1].op = "find"
        /\ s[2].op = "create" /\ s[2].comment = c
    BY <2>1, <2>2, <2>4, ReplaceIs
  <2>6. \A d \in Comments : d.managed /\ d.type = c.type /\ d.place = c.place => Meets(s, Clearing(d))
    BY <2>1, <2>2, <2>4, ReplaceIs
  <2>7. Avoids(s, Misfits(r, job[r], "rendering")) BY <1>2, <2>1, <2>5 DEF Avoids, Misfits, Fits, OnCheckpoint, IsPipelineMutation
  <2>8. Avoids(s, AskingSweeps) /\ Avoids(s, Records) /\ \A g : Avoids(s, Releases(g))
    BY <2>5 DEF Avoids, AskingSweeps, Records, Releases
  <2>9. \A g \in Folders : Avoids(s, CreatesAt(g)) BY <1>0, <2>1, <2>5 DEF Avoids, CreatesAt
  <2>. QED BY <2>1, <2>3, <2>4, <2>6, <2>7, <2>8, <2>9
<1>3. CASE IsFocus(r, its)
  <2>1. ~ IsPipelineMutation(r) BY <1>3 DEF IsFocus, IsPipelineMutation, Mutations
  <2>2. SummaryType(action) = TypeOf(action) BY <1>3 DEF IsFocus, SummaryType
  <2>3. Summary(r, its) = Replace(Comment(r, "preview", SummaryType(action), All, TRUE))
    BY <1>3, <2>1, <2>2 DEF Summary
  <2>. QED BY <1>2, <2>1, <2>3
<1>4. CASE ~ IsPipelineMutation(r) /\ ~ IsFocus(r, its) /\ posts
  <2>1. Summary(r, its) = Replace(Comment(r, "summary", SummaryType(action), All, EmitsMarker(action)))
    BY <1>4 DEF Summary
  <2>2. EmitsMarker(action) \in BOOLEAN /\ (job[r].action \in Mutations => ~ EmitsMarker(action)) BY DEF EmitsMarker
  <2>. QED BY <1>2, <1>4, <2>1, <2>2
<1>5. CASE ~ IsPipelineMutation(r) /\ ~ IsFocus(r, its) /\ ~ posts
  <2>1. Summary(r, its) = <<Managed(SummaryType(action), All)>> BY <1>5 DEF Summary
  <2>2. SummaryType(action) \in Types BY TypesAre
  <2>3. PICK k \in Calls : k = Managed(SummaryType(action), All)
    <3>1. Managed(SummaryType(action), All) \in Calls BY <2>2, <1>0, CallsAre
    <3>. QED BY <3>1
  <2>4. <<k>> \in Seq(Calls) /\ DOMAIN <<k>> = {1} /\ <<k>>[1] = k OBVIOUS
  <2>5. PICK s \in Seq(Calls) : s = Summary(r, its) /\ DOMAIN s = {1} /\ s[1] = k BY <2>1, <2>3, <2>4
  <2>6. k.op = "find" BY <2>3 DEF Managed
  <2>7. Avoids(s, Misfits(r, job[r], "rendering")) BY <2>5, <2>6 DEF Avoids, Misfits, Fits, OnCheckpoint, IsPipelineMutation
  <2>8. Avoids(s, AskingSweeps) /\ Avoids(s, Records) /\ \A g : Avoids(s, Releases(g)) /\ Avoids(s, CreatesAt(g))
    BY <2>5, <2>6 DEF Avoids, AskingSweeps, Records, Releases, CreatesAt
  <2>9. \A d \in Comments : d.managed /\ d.type = SummaryType(action) /\ d.place = All => k \in Clearing(d)
    BY <2>3 DEF Managed, Clearing, Clears, Matches
  <2>10. \A d \in Comments : d.managed /\ d.type = SummaryType(job[r].action) /\ d.place = All =>
           Meets(s, Clearing(d))
    BY <2>5, <2>9 DEF Meets
  <2>. QED BY <1>5, <2>5, <2>7, <2>8, <2>10
<1>. QED BY <1>1, <1>3, <1>4, <1>5

Finishes(r, its) == FlattenSeq([i \in DOMAIN its.launched |-> Finish(r, its, its.launched[i])])
Showings(r, its) == FlattenSeq([i \in DOMAIN its.skipped |-> Show(r, its, its.skipped[i])])

\* Rows made of the elements of a sequence.
LEMMA RowsAre ==
  ASSUME NEW T, NEW S, NEW s \in Seq(T), NEW seqs, DOMAIN seqs = DOMAIN s,
         seqs = [i \in DOMAIN s |-> seqs[i]], \A i \in DOMAIN s : seqs[i] \in Seq(S)
  PROVE  seqs \in Seq(Seq(S))
<1>1. Len(s) \in Nat /\ DOMAIN s = 1..Len(s) OBVIOUS
<1>2. seqs \in [1..Len(s) -> Seq(S)] BY <1>1
<1>. QED BY <1>1, <1>2

LEMMA LaunchedAre ==
  ASSUME NEW its, ItemsOK(its)
  PROVE  its.launched \in Seq(Folders \union {Config}) /\ its.skipped \in Seq(Folders \union {Config})
<1>1. CASE its.launched = <<Config>>
  <2>1. <<Config>> \in Seq(Folders \union {Config}) OBVIOUS
  <2>. QED BY <1>1, <2>1 DEF ItemsOK
<1>2. CASE its.launched # <<Config>> BY <1>2 DEF ItemsOK
<1>. QED BY <1>1, <1>2

LEMMA FinishesAre ==
  ASSUME NEW r \in Runs, JobOK(job[r]), NEW its, ItemsOK(its)
  PROVE  /\ Finishes(r, its) \in Seq(Calls)
         /\ Avoids(Finishes(r, its), Misfits(r, job[r], "rendering"))
         /\ Avoids(Finishes(r, its), AskingSweeps) /\ Avoids(Finishes(r, its), Records)
         /\ \A d \in Shadowed(job[r]) : After(Finishes(r, its), CreatesAt(d.place), Clearing(d))
         /\ \A g \in Folders : Never(Finishes(r, its), CreatesAt(g), Releases(g))
         /\ ~ IsFocus(r, its) /\ ~ IsPipelineMutation(r) =>
              \A p \in ToSet(its.launched) :
                /\ Meets(Finishes(r, its), PostsAt(p))
                /\ \A d \in Comments : d.managed /\ d.type = TypeOf(job[r].action) /\ d.place = p =>
                     Meets(Finishes(r, its), Clearing(d))
<1>. DEFINE L == its.launched
            seqs == [i \in DOMAIN L |-> Finish(r, its, L[i])]
<1>1. L \in Seq(Folders \union {Config}) BY LaunchedAre
<1>2. \A i \in DOMAIN L : L[i] \in Folders \union {Config} BY <1>1
<1>3. DOMAIN seqs = DOMAIN L /\ \A i \in DOMAIN L : seqs[i] = Finish(r, its, L[i]) OBVIOUS
<1>4. seqs = [i \in DOMAIN L |-> seqs[i]] OBVIOUS
<1>5. Finishes(r, its) = FlattenSeq(seqs) BY DEF Finishes
<1>. HIDE DEF seqs
<1>6. seqs \in Seq(Seq(Calls))
  <2>1. \A i \in DOMAIN L : seqs[i] \in Seq(Calls) BY <1>2, <1>3, FinishIs
  <2>. HIDE DEF L
  <2>. QED BY <2>1, <1>1, <1>3, <1>4, RowsAre
<1>7. FlattenSeq(seqs) \in Seq(Calls) BY <1>6, FlattenSpread
<1>8. Avoids(FlattenSeq(seqs), Misfits(r, job[r], "rendering"))
  <2>1. \A i \in DOMAIN seqs : Avoids(seqs[i], Misfits(r, job[r], "rendering")) BY <1>2, <1>3, FinishIs
  <2>. QED BY <2>1, <1>6, FlattenAvoids
<1>9. Avoids(FlattenSeq(seqs), AskingSweeps)
  <2>1. \A i \in DOMAIN seqs : Avoids(seqs[i], AskingSweeps) BY <1>2, <1>3, FinishIs
  <2>. QED BY <2>1, <1>6, FlattenAvoids
<1>10. Avoids(FlattenSeq(seqs), Records)
  <2>1. \A i \in DOMAIN seqs : Avoids(seqs[i], Records) BY <1>2, <1>3, FinishIs
  <2>. QED BY <2>1, <1>6, FlattenAvoids
<1>11. ASSUME NEW d \in Shadowed(job[r]) PROVE After(FlattenSeq(seqs), CreatesAt(d.place), Clearing(d))
  <2>1. \A i \in DOMAIN seqs : After(seqs[i], CreatesAt(d.place), Clearing(d)) BY <1>2, <1>3, FinishIs
  <2>. QED BY <2>1, <1>6, FlattenAfter
<1>12. ASSUME NEW g \in Folders PROVE Never(FlattenSeq(seqs), CreatesAt(g), Releases(g))
  <2>1. \A i \in DOMAIN seqs : Never(seqs[i], CreatesAt(g), Releases(g)) BY <1>2, <1>3, FinishIs
  <2>2. ASSUME NEW i \in DOMAIN seqs, NEW k \in DOMAIN seqs, i # k
        PROVE  Avoids(seqs[i], Releases(g)) \/ Avoids(seqs[k], CreatesAt(g))
    <3>1. L[i] # L[k] BY <1>3, <2>2 DEF ItemsOK, IsInjective
    <3>2. CASE L[i] # g BY <3>2, <1>2, <1>3, FinishIs
    <3>3. CASE L[k] # g BY <3>3, <1>2, <1>3, FinishIs
    <3>. QED BY <3>1, <3>2, <3>3
  <2>. QED BY <2>1, <2>2, <1>6, FlattenNever
<1>13. ASSUME ~ IsFocus(r, its), ~ IsPipelineMutation(r), NEW p \in ToSet(L)
       PROVE  /\ Meets(FlattenSeq(seqs), PostsAt(p))
              /\ \A d \in Comments : d.managed /\ d.type = TypeOf(job[r].action) /\ d.place = p =>
                     Meets(FlattenSeq(seqs), Clearing(d))
  <2>1. PICK i \in DOMAIN L : L[i] = p BY <1>13 DEF ToSet
  <2>2. /\ Meets(seqs[i], PostsAt(p))
        /\ \A d \in Comments : d.managed /\ d.type = TypeOf(job[r].action) /\ d.place = p =>
             Meets(seqs[i], Clearing(d))
    BY <2>1, <1>2, <1>3, <1>13, FinishIs
  <2>. QED BY <2>1, <2>2, <1>3, <1>6, FlattenMeets
<1>. QED BY <1>5, <1>7, <1>8, <1>9, <1>10, <1>11, <1>12, <1>13

LEMMA ShowingsAre ==
  ASSUME NEW r \in Runs, JobOK(job[r]), NEW its, ItemsOK(its)
  PROVE  /\ Showings(r, its) \in Seq(Calls)
         /\ Avoids(Showings(r, its), Misfits(r, job[r], "rendering"))
         /\ Avoids(Showings(r, its), AskingSweeps) /\ Avoids(Showings(r, its), Records)
         /\ \A d \in Shadowed(job[r]) : After(Showings(r, its), CreatesAt(d.place), Clearing(d))
         /\ \A g \in Folders : Avoids(Showings(r, its), Releases(g))
         /\ \A g \in Folders : g \in ToSet(its.launched) => Avoids(Showings(r, its), CreatesAt(g))
<1>. DEFINE L == its.skipped
            seqs == [i \in DOMAIN L |-> Show(r, its, L[i])]
<1>1. L \in Seq(Folders \union {Config}) BY LaunchedAre
<1>2. \A i \in DOMAIN L : L[i] \in Folders \union {Config} BY <1>1
<1>3. DOMAIN seqs = DOMAIN L /\ \A i \in DOMAIN L : seqs[i] = Show(r, its, L[i]) OBVIOUS
<1>4. seqs = [i \in DOMAIN L |-> seqs[i]] OBVIOUS
<1>5. Showings(r, its) = FlattenSeq(seqs) BY DEF Showings
<1>. HIDE DEF seqs
<1>6. seqs \in Seq(Seq(Calls))
  <2>1. \A i \in DOMAIN L : seqs[i] \in Seq(Calls) BY <1>2, <1>3, ShowIs
  <2>. HIDE DEF L
  <2>. QED BY <2>1, <1>1, <1>3, <1>4, RowsAre
<1>7. FlattenSeq(seqs) \in Seq(Calls) BY <1>6, FlattenSpread
<1>8. Avoids(FlattenSeq(seqs), Misfits(r, job[r], "rendering"))
  <2>1. \A i \in DOMAIN seqs : Avoids(seqs[i], Misfits(r, job[r], "rendering")) BY <1>2, <1>3, ShowIs
  <2>. QED BY <2>1, <1>6, FlattenAvoids
<1>9. Avoids(FlattenSeq(seqs), AskingSweeps)
  <2>1. \A i \in DOMAIN seqs : Avoids(seqs[i], AskingSweeps) BY <1>2, <1>3, ShowIs
  <2>. QED BY <2>1, <1>6, FlattenAvoids
<1>10. Avoids(FlattenSeq(seqs), Records)
  <2>1. \A i \in DOMAIN seqs : Avoids(seqs[i], Records) BY <1>2, <1>3, ShowIs
  <2>. QED BY <2>1, <1>6, FlattenAvoids
<1>11. ASSUME NEW d \in Shadowed(job[r]) PROVE After(FlattenSeq(seqs), CreatesAt(d.place), Clearing(d))
  <2>1. \A i \in DOMAIN seqs : After(seqs[i], CreatesAt(d.place), Clearing(d)) BY <1>2, <1>3, ShowIs
  <2>. QED BY <2>1, <1>6, FlattenAfter
<1>12. ASSUME NEW g \in Folders PROVE Avoids(FlattenSeq(seqs), Releases(g))
  <2>1. \A i \in DOMAIN seqs : Avoids(seqs[i], Releases(g)) BY <1>2, <1>3, ShowIs
  <2>. QED BY <2>1, <1>6, FlattenAvoids
<1>13. ASSUME NEW g \in Folders, g \in ToSet(its.launched) PROVE Avoids(FlattenSeq(seqs), CreatesAt(g))
  <2>1. \A i \in DOMAIN L : L[i] # g BY <1>13 DEF ItemsOK, ToSet
  <2>2. \A i \in DOMAIN seqs : Avoids(seqs[i], CreatesAt(g)) BY <2>1, <1>2, <1>3, ShowIs
  <2>. QED BY <2>2, <1>6, FlattenAvoids
<1>. QED BY <1>5, <1>7, <1>8, <1>9, <1>10, <1>11, <1>12, <1>13

\* The whole of RenderPR.
LEMMA RenderIs ==
  ASSUME NEW r \in Runs, JobOK(job[r]), NEW its, ItemsOK(its)
  PROVE  /\ Render(r, its) \in Seq(Calls)
         /\ Avoids(Render(r, its), Misfits(r, job[r], "rendering"))
         /\ \A d \in Shadowed(job[r]) : After(Render(r, its), CreatesAt(d.place), Clearing(d))
         /\ \A g \in Folders : g \in ToSet(its.launched) => Never(Render(r, its), CreatesAt(g), Releases(g))
         /\ IsPipelineMutation(r) => /\ After(Render(r, its), AskingSweeps, TellsAt(All))
                                     /\ After(Render(r, its), Records, Saves)
         /\ ~ IsFocus(r, its) /\ ~ IsPipelineMutation(r) =>
              \A p \in ToSet(its.launched) :
                /\ After(Render(r, its), AskingSweeps, PostsAt(p))
                /\ \A d \in Comments : d.managed /\ d.type = TypeOf(job[r].action) /\ d.place = p =>
                     Meets(Render(r, its), Clearing(d))
         /\ ~ IsPipelineMutation(r) =>
              \A d \in Comments : d.managed /\ d.type = SummaryType(job[r].action) /\ d.place = All =>
                Meets(Render(r, its), Clearing(d))
         /\ \A d \in Comments : ~ d.managed /\ d.kind = "status" => Meets(Render(r, its), Clearing(d))
<1>1. PICK a \in Seq(Calls) : a = Finishes(r, its) BY FinishesAre
<1>2. PICK b \in Seq(Calls) : b = Showings(r, its) BY ShowingsAre
<1>3. PICK c \in Seq(Calls) : c = Summary(r, its) BY SummaryIs
<1>4. PICK k \in Calls : k = Sweep(Asking \union {"status"}) /\ k.op = "sweep" /\ k.kinds = Asking \union {"status"}
  <2>1. Sweep(Asking \union {"status"}) \in Calls BY CallsAre
  <2>. QED BY <2>1 DEF Sweep
<1>5. PICK d \in Seq(Calls) : d = <<k>> /\ DOMAIN d = {1} /\ d[1] = k
  <2>1. <<k>> \in Seq(Calls) /\ DOMAIN <<k>> = {1} /\ <<k>>[1] = k OBVIOUS
  <2>. QED BY <2>1
<1>6. PICK e \in Seq(Calls) :
        /\ e = IF IsPipelineMutation(r) THEN <<Do("record")>> ELSE <<>>
        /\ \A n \in DOMAIN e : e[n].op = "record" /\ IsPipelineMutation(r)
  <2>1. CASE IsPipelineMutation(r)
    <3>1. Do("record") \in Calls BY CallsAre
    <3>2. PICK l \in Calls : l = Do("record") BY <3>1
    <3>3. l.op = "record" BY <3>2 DEF Do
    <3>4. <<l>> \in Seq(Calls) /\ DOMAIN <<l>> = {1} /\ <<l>>[1] = l OBVIOUS
    <3>. QED BY <2>1, <3>2, <3>3, <3>4
  <2>2. CASE ~ IsPipelineMutation(r)
    <3>1. <<>> \in Seq(Calls) /\ DOMAIN <<>> = {} OBVIOUS
    <3>. QED BY <2>2, <3>1
  <2>. QED BY <2>1, <2>2
<1>7. PICK ab \in Seq(Calls) : ab = a \o b
  <2>1. a \o b \in Seq(Calls) OBVIOUS
  <2>. QED BY <2>1
<1>8. PICK abc \in Seq(Calls) : abc = ab \o c
  <2>1. ab \o c \in Seq(Calls) OBVIOUS
  <2>. QED BY <2>1
<1>9. PICK abcd \in Seq(Calls) : abcd = abc \o d
  <2>1. abc \o d \in Seq(Calls) OBVIOUS
  <2>. QED BY <2>1
<1>10. PICK s \in Seq(Calls) : s = abcd \o e
  <2>1. abcd \o e \in Seq(Calls) OBVIOUS
  <2>. QED BY <2>1
<1>11. Render(r, its) = s
  BY <1>1, <1>2, <1>3, <1>4, <1>5, <1>6, <1>7, <1>8, <1>9, <1>10 DEF Render, Finishes, Showings
<1>12. /\ k \notin Misfits(r, job[r], "rendering") /\ k \in AskingSweeps /\ k \notin Records /\ k \notin Saves
       /\ \A g : k \notin Releases(g) /\ k \notin CreatesAt(g) /\ k \notin PostsAt(g)
  BY <1>4 DEF Misfits, Fits, OnCheckpoint, IsPipelineMutation, AskingSweeps, Records, Saves, Releases, CreatesAt, PostsAt, Asking
<1>13. /\ Avoids(d, Misfits(r, job[r], "rendering")) /\ Avoids(d, Records)
       /\ \A g : Avoids(d, Releases(g)) /\ Avoids(d, CreatesAt(g))
  BY <1>5, <1>12 DEF Avoids
<1>14. /\ Avoids(e, Misfits(r, job[r], "rendering")) /\ Avoids(e, AskingSweeps)
       /\ \A g : Avoids(e, Releases(g)) /\ Avoids(e, CreatesAt(g))
  BY <1>6 DEF Avoids, Misfits, Fits, OnCheckpoint, IsPipelineMutation, AskingSweeps, Releases, CreatesAt
<1>15. \A q, X, Y : Avoids(q, X) => After(q, X, Y) /\ Never(q, X, Y) BY DEF Avoids, After, Never
<1>16. \A Y : Meets(s, Y) <=> Meets(a, Y) \/ Meets(b, Y) \/ Meets(c, Y) \/ Meets(d, Y) \/ Meets(e, Y)
  <2>. TAKE Y
  <2>1. Meets(ab, Y) <=> Meets(a, Y) \/ Meets(b, Y) BY <1>7, MeetsConcat
  <2>2. Meets(abc, Y) <=> Meets(ab, Y) \/ Meets(c, Y) BY <1>8, MeetsConcat
  <2>3. Meets(abcd, Y) <=> Meets(abc, Y) \/ Meets(d, Y) BY <1>9, MeetsConcat
  <2>4. Meets(s, Y) <=> Meets(abcd, Y) \/ Meets(e, Y) BY <1>10, MeetsConcat
  <2>. QED BY <2>1, <2>2, <2>3, <2>4
<1>17. \A q, X : Avoids(q, X) <=> ~ Meets(q, X) BY DEF Avoids, Meets
<1>18. Avoids(s, Misfits(r, job[r], "rendering"))
  <2>1. Avoids(a, Misfits(r, job[r], "rendering")) /\ Avoids(b, Misfits(r, job[r], "rendering")) /\ Avoids(c, Misfits(r, job[r], "rendering"))
    BY <1>1, <1>2, <1>3, FinishesAre, ShowingsAre, SummaryIs
  <2>. QED BY <2>1, <1>13, <1>14, <1>16, <1>17
<1>19. ASSUME NEW x \in Shadowed(job[r]) PROVE After(s, CreatesAt(x.place), Clearing(x))
  <2>. DEFINE X == CreatesAt(x.place)
              Y == Clearing(x)
  <2>0. x.place \in Folders BY DEF Shadowed
  <2>1. After(a, X, Y) BY <1>1, FinishesAre
  <2>2. After(b, X, Y) BY <1>2, ShowingsAre
  <2>3. After(c, X, Y)
    <3>1. Avoids(c, X) BY <1>3, <2>0, SummaryIs
    <3>. QED BY <3>1, <1>15
  <2>4. After(d, X, Y) /\ After(e, X, Y) BY <1>13, <1>14, <1>15
  <2>. HIDE DEF X, Y
  <2>5. After(ab, X, Y) BY <2>1, <2>2, <1>7, AfterConcat
  <2>6. After(abc, X, Y) BY <2>5, <2>3, <1>8, AfterConcat
  <2>7. After(abcd, X, Y) BY <2>6, <2>4, <1>9, AfterConcat
  <2>8. After(s, X, Y) BY <2>7, <2>4, <1>10, AfterConcat
  <2>. QED BY <2>8 DEF X, Y
<1>20. ASSUME NEW g \in Folders, g \in ToSet(its.launched) PROVE Never(s, CreatesAt(g), Releases(g))
  <2>. DEFINE X == CreatesAt(g)
              Y == Releases(g)
  <2>1. Never(a, X, Y) BY <1>1, FinishesAre
  <2>2. Avoids(b, X) /\ Avoids(c, X) /\ Avoids(d, X) /\ Avoids(e, X)
    BY <1>2, <1>3, <1>13, <1>14, <1>20, ShowingsAre, SummaryIs
  <2>3. Never(b, X, Y) /\ Never(c, X, Y) /\ Never(d, X, Y) /\ Never(e, X, Y) BY <2>2, <1>15
  <2>. HIDE DEF X, Y
  <2>4. Never(ab, X, Y) BY <2>1, <2>2, <2>3, <1>7, NeverConcat
  <2>5. Never(abc, X, Y) BY <2>4, <2>2, <2>3, <1>8, NeverConcat
  <2>6. Never(abcd, X, Y) BY <2>5, <2>2, <2>3, <1>9, NeverConcat
  <2>7. Never(s, X, Y) BY <2>6, <2>2, <2>3, <1>10, NeverConcat
  <2>. QED BY <2>7 DEF X, Y
<1>21. Avoids(abc, AskingSweeps)
  <2>1. Avoids(a, AskingSweeps) /\ Avoids(b, AskingSweeps) /\ Avoids(c, AskingSweeps)
    BY <1>1, <1>2, <1>3, FinishesAre, ShowingsAre, SummaryIs
  <2>2. Avoids(ab, AskingSweeps) BY <2>1, <1>7, MeetsConcat
  <2>. QED BY <2>1, <2>2, <1>8, MeetsConcat
<1>22. ASSUME NEW Y, Meets(abc, Y) PROVE After(s, AskingSweeps, Y)
  <2>1. After(abc, AskingSweeps, Y) BY <1>21, <1>15
  <2>2. After(abcd, AskingSweeps, Y) BY <2>1, <1>9, <1>22, AfterConcat
  <2>3. After(e, AskingSweeps, Y) BY <1>14, <1>15
  <2>. QED BY <2>2, <2>3, <1>10, AfterConcat
<1>23. ASSUME NEW Y, Meets(c, Y) \/ Meets(a, Y) PROVE Meets(abc, Y)
  <2>1. Meets(ab, Y) <=> Meets(a, Y) \/ Meets(b, Y) BY <1>7, MeetsConcat
  <2>2. Meets(abc, Y) <=> Meets(ab, Y) \/ Meets(c, Y) BY <1>8, MeetsConcat
  <2>. QED BY <2>1, <2>2, <1>23
<1>24. ASSUME IsPipelineMutation(r) PROVE After(s, AskingSweeps, TellsAt(All)) /\ After(s, Records, Saves)
  <2>1. Meets(c, TellsAt(All)) /\ Meets(c, Saves) BY <1>3, <1>24, SummaryIs
  <2>2. After(s, AskingSweeps, TellsAt(All)) BY <2>1, <1>22, <1>23
  <2>3. Meets(abc, Saves) BY <2>1, <1>23
  <2>4. Meets(abcd, Saves) BY <2>3, <1>9, MeetsConcat
  <2>5. Avoids(a, Records) /\ Avoids(b, Records) /\ Avoids(c, Records) /\ Avoids(d, Records)
    BY <1>1, <1>2, <1>3, <1>13, FinishesAre, ShowingsAre, SummaryIs
  <2>6. Avoids(ab, Records) BY <2>5, <1>7, MeetsConcat
  <2>7. Avoids(abc, Records) BY <2>5, <2>6, <1>8, MeetsConcat
  <2>8. Avoids(abcd, Records) BY <2>5, <2>7, <1>9, MeetsConcat
  <2>9. After(s, Records, Saves) BY <2>4, <2>8, <1>10, <1>15, AfterConcat
  <2>. QED BY <2>2, <2>9
<1>25. ASSUME ~ IsFocus(r, its), ~ IsPipelineMutation(r), NEW p \in ToSet(its.launched)
       PROVE  /\ After(s, AskingSweeps, PostsAt(p))
              /\ \A x \in Comments : x.managed /\ x.type = TypeOf(job[r].action) /\ x.place = p =>
                     Meets(s, Clearing(x))
  <2>1. /\ Meets(a, PostsAt(p))
        /\ \A x \in Comments : x.managed /\ x.type = TypeOf(job[r].action) /\ x.place = p =>
             Meets(a, Clearing(x))
    BY <1>1, <1>25, FinishesAre
  <2>. QED BY <2>1, <1>16, <1>22, <1>23
<1>26. ASSUME ~ IsPipelineMutation(r), NEW x \in Comments, x.managed, x.type = SummaryType(job[r].action), x.place = All
       PROVE  Meets(s, Clearing(x))
  <2>1. Meets(c, Clearing(x)) BY <1>3, <1>26, SummaryIs
  <2>. QED BY <2>1, <1>16
<1>27. ASSUME NEW x \in Comments, ~ x.managed, x.kind = "status" PROVE Meets(s, Clearing(x))
  <2>1. k \in Clearing(x) BY <1>4, <1>27 DEF Clearing, Clears
  <2>2. Meets(d, Clearing(x)) BY <2>1, <1>5 DEF Meets
  <2>. QED BY <2>2, <1>16
<1>. QED BY <1>11, <1>18, <1>19, <1>20, <1>24, <1>25, <1>26, <1>27

\* The placeholders and notices RenderPR clears.
Clearable(j, its, c) ==
  \/ ~ c.managed /\ c.kind = "status"
  \/ c.managed /\ ~ OnCheckpoint(j) /\ c.type = SummaryType(j.action) /\ c.place = All
  \/ /\ c.managed /\ ~ OnCheckpoint(j) /\ c.type = TypeOf(j.action) /\ c.place \in ToSet(its.launched)
     /\ ~ (j.action \in {"plan", "plan_destroy"} /\ j.pipeline # <<>> /\ its.launched # <<Config>>)

LEMMA ClearableIs ==
  ASSUME NEW r \in Runs, JobOK(job[r]), NEW its, ItemsOK(its), NEW c \in Comments, Clearable(job[r], its, c)
  PROVE  Meets(Render(r, its), Clearing(c))
<1>1. OnCheckpoint(job[r]) <=> IsPipelineMutation(r) BY DEF OnCheckpoint, IsPipelineMutation
<1>2. CASE ~ c.managed /\ c.kind = "status" BY <1>2, RenderIs
<1>3. CASE c.managed /\ ~ OnCheckpoint(job[r]) /\ c.type = SummaryType(job[r].action) /\ c.place = All
  BY <1>1, <1>3, RenderIs
<1>4. CASE /\ c.managed /\ ~ OnCheckpoint(job[r]) /\ c.type = TypeOf(job[r].action) /\ c.place \in ToSet(its.launched)
           /\ ~ IsFocus(r, its)
  BY <1>1, <1>4, RenderIs
<1>. QED BY <1>2, <1>3, <1>4 DEF Clearable, IsFocus

\* The calls that leave a comment which RenderPR does not clear.
Leaves(j, its) == {k \in Calls : k.op = "create" /\ ~ Clearable(j, its, k.comment)}

\* A placeholder: managed, and about the run.
LEMMA PlaceholderIs ==
  ASSUME NEW r \in Runs, JobOK(job[r]), NEW kind \in {"pending", "status"}, NEW type \in Types, NEW p \in AllPlaces,
         NEW its, \A d \in Comments : d.managed /\ d.type = type /\ d.place = p => Clearable(job[r], its, d)
  PROVE  LET s == Replace(Comment(r, kind, type, p, TRUE))
         IN  s \in Seq(Calls) /\ Avoids(s, Misfits(r, job[r], "placing")) /\ Avoids(s, Leaves(job[r], its))
<1>. DEFINE c == Comment(r, kind, type, p, TRUE)
<1>1. c \in Comments /\ c.run = r /\ c.kind = kind /\ c.type = type /\ c.place = p /\ c.managed
  <2>1. kind \in Kinds BY DEF Kinds
  <2>. QED BY <2>1, ManagedCommentIs
<1>. HIDE DEF c
<1>2. c.type \in Types BY <1>1
<1>3. PICK s \in Seq(Calls) : s = Replace(c) BY <1>1, <1>2, ReplaceIs
<1>4. /\ DOMAIN s = {1, 2} /\ s[1] \in Calls /\ s[2] \in Calls /\ s[1].op = "find"
      /\ s[2].op = "create" /\ s[2].comment = c
  BY <1>1, <1>2, <1>3, ReplaceIs
<1>5. Avoids(s, Misfits(r, job[r], "placing")) BY <1>1, <1>4 DEF Avoids, Misfits, Fits, OnCheckpoint, IsPipelineMutation
<1>6. Clearable(job[r], its, c) BY <1>1
<1>7. Avoids(s, Leaves(job[r], its)) BY <1>4, <1>6 DEF Avoids, Leaves
<1>. QED BY <1>3, <1>5, <1>7 DEF c

\* The placeholders RenderPlaceholder posts are those RenderPR clears.
LEMMA PlaceholdersAre ==
  ASSUME NEW r \in Runs, JobOK(job[r]), NEW its, ItemsOK(its), its.launched # <<Config>>
  PROVE  /\ Placeholders(r, its) \in Seq(Calls)
         /\ Avoids(Placeholders(r, its), Misfits(r, job[r], "placing"))
         /\ Avoids(Placeholders(r, its), Leaves(job[r], its))
<1>1. CASE IsPipelineMutation(r)
  <2>1. Placeholders(r, its) = <<>> BY <1>1 DEF Placeholders
  <2>2. <<>> \in Seq(Calls) /\ DOMAIN <<>> = {} OBVIOUS
  <2>. QED BY <2>1, <2>2 DEF Avoids
<1>2. CASE ~ IsPipelineMutation(r)
  <2>. DEFINE action == job[r].action
              L == its.launched
              kind == IF action \in Mutations THEN "status" ELSE "pending"
              seqs == [i \in DOMAIN L |-> Replace(Comment(r, kind, TypeOf(action), L[i], TRUE))]
  <2>0. L \in Seq(Folders) /\ \A i \in DOMAIN L : L[i] \in AllPlaces /\ L[i] \in ToSet(L)
    BY DEF ItemsOK, AllPlaces, ToSet
  <2>1. PICK a \in Seq(Calls) :
          /\ a = IF IsFocus(r, its) THEN <<>> ELSE FlattenSeq(seqs)
          /\ Avoids(a, Misfits(r, job[r], "placing")) /\ Avoids(a, Leaves(job[r], its))
    <3>1. CASE IsFocus(r, its)
      <4>1. <<>> \in Seq(Calls) /\ DOMAIN <<>> = {} OBVIOUS
      <4>. QED BY <3>1, <4>1 DEF Avoids
    <3>2. CASE ~ IsFocus(r, its)
      <4>1. TypeOf(action) \in Types /\ kind \in {"pending", "status"} BY TypesAre
      <4>2. DOMAIN seqs = DOMAIN L /\ seqs = [i \in DOMAIN L |-> seqs[i]]
            /\ \A i \in DOMAIN L : seqs[i] = Replace(Comment(r, kind, TypeOf(action), L[i], TRUE))
        OBVIOUS
      <4>. HIDE DEF seqs
      <4>3. ASSUME NEW i \in DOMAIN L
            PROVE  seqs[i] \in Seq(Calls) /\ Avoids(seqs[i], Misfits(r, job[r], "placing")) /\ Avoids(seqs[i], Leaves(job[r], its))
        <5>1. L[i] \in ToSet(L) /\ L[i] \in AllPlaces BY <2>0
        <5>2. \A d \in Comments : d.managed /\ d.type = TypeOf(action) /\ d.place = L[i] =>
                Clearable(job[r], its, d)
          BY <1>2, <3>2, <5>1 DEF Clearable, IsFocus, IsPipelineMutation, OnCheckpoint
        <5>3. PICK k \in {"pending", "status"} : k = kind BY <4>1
        <5>4. seqs[i] = Replace(Comment(r, k, TypeOf(action), L[i], TRUE)) BY <4>2, <5>3
        <5>. QED BY <4>1, <5>1, <5>2, <5>4, PlaceholderIs
      <4>4. seqs \in Seq(Seq(Calls))
        <5>. HIDE DEF L
        <5>. QED BY <2>0, <4>2, <4>3, RowsAre
      <4>5. FlattenSeq(seqs) \in Seq(Calls) BY <4>4, FlattenSpread
      <4>6. Avoids(FlattenSeq(seqs), Misfits(r, job[r], "placing")) BY <4>2, <4>3, <4>4, FlattenAvoids
      <4>7. Avoids(FlattenSeq(seqs), Leaves(job[r], its)) BY <4>2, <4>3, <4>4, FlattenAvoids
      <4>. QED BY <3>2, <4>5, <4>6, <4>7
    <3>. QED BY <3>1, <3>2
  <2>2. PICK b \in Seq(Calls) :
          /\ b = Replace(Comment(r, "pending", SummaryType(action), All, TRUE))
          /\ Avoids(b, Misfits(r, job[r], "placing")) /\ Avoids(b, Leaves(job[r], its))
    <3>1. SummaryType(action) \in Types /\ All \in AllPlaces BY TypesAre DEF AllPlaces
    <3>2. \A d \in Comments : d.managed /\ d.type = SummaryType(action) /\ d.place = All =>
            Clearable(job[r], its, d)
      BY <1>2 DEF Clearable, IsPipelineMutation, OnCheckpoint
    <3>3. "pending" \in {"pending", "status"} OBVIOUS
    <3>. QED BY <3>1, <3>2, <3>3, PlaceholderIs
  <2>3. PICK c \in Seq(Calls) :
          /\ c = IF action \in Mutations THEN <<>> ELSE <<Sweep(Asking)>>
          /\ \A n \in DOMAIN c : c[n].op = "sweep" /\ action \notin Mutations
    <3>1. CASE action \in Mutations
      <4>1. <<>> \in Seq(Calls) /\ DOMAIN <<>> = {} OBVIOUS
      <4>. QED BY <3>1, <4>1
    <3>2. CASE action \notin Mutations
      <4>1. Sweep(Asking) \in Calls BY CallsAre
      <4>2. PICK k \in Calls : k = Sweep(Asking) /\ k.op = "sweep" BY <4>1 DEF Sweep
      <4>3. <<k>> \in Seq(Calls) /\ DOMAIN <<k>> = {1} /\ <<k>>[1] = k OBVIOUS
      <4>. QED BY <3>2, <4>2, <4>3
    <3>. QED BY <3>1, <3>2
  <2>4. Avoids(c, Misfits(r, job[r], "placing")) /\ Avoids(c, Leaves(job[r], its)) BY <2>3 DEF Avoids, Misfits, Fits, OnCheckpoint, IsPipelineMutation, Leaves
  <2>5. Placeholders(r, its) = (a \o b) \o c BY <1>2, <2>1, <2>2, <2>3 DEF Placeholders
  <2>6. a \o b \in Seq(Calls) OBVIOUS
  <2>7. PICK ab \in Seq(Calls) : ab = a \o b BY <2>6
  <2>8. ab \o c \in Seq(Calls) OBVIOUS
  <2>9. Avoids(ab, Misfits(r, job[r], "placing")) /\ Avoids(ab, Leaves(job[r], its))
    <3>. HIDE DEF seqs, kind, L, action
    <3>1. Avoids(a, Misfits(r, job[r], "placing")) /\ Avoids(b, Misfits(r, job[r], "placing")) BY <2>1, <2>2
    <3>2. Avoids(a, Leaves(job[r], its)) /\ Avoids(b, Leaves(job[r], its)) BY <2>1, <2>2
    <3>. QED BY <3>1, <3>2, <2>7, MeetsConcat
  <2>10. Avoids(ab \o c, Misfits(r, job[r], "placing")) /\ Avoids(ab \o c, Leaves(job[r], its)) BY <2>4, <2>9, MeetsConcat
  <2>. QED BY <2>5, <2>7, <2>8, <2>10
<1>. QED BY <1>1, <1>2

\* The folders of a mutation, to be run one after the other.
LEMMA RunsAre ==
  ASSUME NEW r \in Runs, NEW its, ItemsOK(its), its.launched # <<Config>>
  PROVE  LET s == [i \in DOMAIN its.launched |-> RunFolder(its.launched[i])]
         IN  /\ s \in Seq(Calls)
             /\ Avoids(s, Misfits(r, job[r], "working")) /\ Avoids(s, Leaves(job[r], its))
<1>. DEFINE s == [i \in DOMAIN its.launched |-> RunFolder(its.launched[i])]
<1>1. its.launched \in Seq(Folders) BY DEF ItemsOK
<1>2. \A i \in DOMAIN its.launched : s[i] \in Calls /\ s[i].op = "run"
  <2>. TAKE i \in DOMAIN its.launched
  <2>1. its.launched[i] \in Folders BY <1>1
  <2>2. RunFolder(its.launched[i]) \in Calls BY <2>1, CallsAre
  <2>. QED BY <2>2 DEF RunFolder
<1>3. DOMAIN s = DOMAIN its.launched OBVIOUS
<1>4. s \in Seq(Calls)
  <2>1. Len(its.launched) \in Nat /\ DOMAIN its.launched = 1..Len(its.launched) BY <1>1
  <2>2. s = [i \in DOMAIN its.launched |-> s[i]] OBVIOUS
  <2>. HIDE DEF s
  <2>3. s \in [1..Len(its.launched) -> Calls] BY <1>2, <2>1, <2>2
  <2>. QED BY <2>1, <2>3
<1>. HIDE DEF s
<1>5. Avoids(s, Misfits(r, job[r], "working")) /\ Avoids(s, Leaves(job[r], its)) BY <1>2, <1>3 DEF Avoids, Misfits, Fits, OnCheckpoint, IsPipelineMutation, Leaves
<1>. QED BY <1>4, <1>5 DEF s

\* The notice of a folder that the engine accepted.
LEMMA ProgressIs ==
  ASSUME NEW r \in Runs, JobOK(job[r]), NEW its, ItemsOK(its), NEW f \in Folders
  PROVE  /\ Progress(r, f) \in Seq(Calls)
         /\ Avoids(Progress(r, f), Misfits(r, job[r], "working")) /\ Avoids(Progress(r, f), Leaves(job[r], its))
         /\ \A p : Avoids(Progress(r, f), PostsAt(p)) /\ Avoids(Progress(r, f), Releases(p))
         /\ Avoids(Progress(r, f), AskingSweeps) /\ Avoids(Progress(r, f), Records)
<1>. DEFINE c == Comment(r, "status", job[r].action, f, FALSE)
<1>1. c \in Comments /\ c.run = r /\ c.kind = "status" /\ c.place = f /\ ~ c.managed
  <2>1. "status" \in Kinds /\ f \in AllPlaces BY DEF Kinds, AllPlaces
  <2>2. job[r].action \in Types \union {"plan_destroy", "failure"} BY TypesAre
  <2>. QED BY <2>1, <2>2 DEF Comment, Comments
<1>. HIDE DEF c
<1>2. PICK k \in Calls : k = Mentions(r) /\ k.op = "find"
  <2>1. Mentions(r) \in Calls BY CallsAre
  <2>. QED BY <2>1 DEF Mentions
<1>3. PICK l \in Calls : l = Create(c) /\ l.op = "create" /\ l.comment = c
  <2>1. Create(c) \in Calls BY <1>1, CallsAre
  <2>. QED BY <2>1 DEF Create
<1>4. PICK s \in Seq(Calls) : s = <<k, l>> /\ DOMAIN s = {1, 2} /\ s[1] = k /\ s[2] = l
  <2>1. <<k, l>> \in Seq(Calls) /\ DOMAIN <<k, l>> = {1, 2} /\ <<k, l>>[1] = k /\ <<k, l>>[2] = l OBVIOUS
  <2>. QED BY <2>1
<1>5. Progress(r, f) = s BY <1>2, <1>3, <1>4 DEF Progress, c
<1>6. Avoids(s, Misfits(r, job[r], "working")) BY <1>1, <1>2, <1>3, <1>4 DEF Avoids, Misfits, Fits, OnCheckpoint, IsPipelineMutation
<1>7. Clearable(job[r], its, c) BY <1>1 DEF Clearable
<1>8. Avoids(s, Leaves(job[r], its)) BY <1>2, <1>3, <1>4, <1>7 DEF Avoids, Leaves
<1>9. /\ \A p : Avoids(s, PostsAt(p)) /\ Avoids(s, Releases(p))
      /\ Avoids(s, AskingSweeps) /\ Avoids(s, Records)
  BY <1>1, <1>2, <1>3, <1>4 DEF Avoids, PostsAt, Releases, AskingSweeps, Records
<1>. QED BY <1>5, <1>6, <1>8, <1>9

\* The comment that says a run failed comes before the others go.
LEMMA FailureIs ==
  ASSUME NEW r \in Runs
  PROVE  /\ Failure(r) \in Seq(Calls)
         /\ Avoids(Failure(r), Misfits(r, job[r], "failing"))
         /\ After(Failure(r), AskingSweeps, PostsAt(Failed))
<1>. DEFINE c == Comment(r, "failure", "failure", Failed, FALSE)
            kinds == {"status"} \union IF job[r].action \in Mutations THEN Asking ELSE {}
<1>1. c \in Comments /\ c.run = r /\ c.kind = "failure" /\ c.place = Failed /\ ~ c.managed
  <2>1. "failure" \in Kinds /\ Failed \in AllPlaces BY DEF Kinds, AllPlaces
  <2>2. "failure" \in Types \union {"plan_destroy", "failure"} OBVIOUS
  <2>. QED BY <2>1, <2>2 DEF Comment, Comments
<1>2. PICK k \in Calls : k = Failures /\ k.op = "find"
  <2>1. Failures \in Calls BY CallsAre
  <2>. QED BY <2>1 DEF Failures
<1>3. PICK l \in Calls : l = Create(c) /\ l.op = "create" /\ l.comment = c
  <2>1. Create(c) \in Calls BY <1>1, CallsAre
  <2>. QED BY <2>1 DEF Create
<1>4. PICK m \in Calls : m = Sweep(kinds) /\ m.op = "sweep"
  <2>1. kinds \in SUBSET (Asking \union {"status"}) OBVIOUS
  <2>2. Sweep(kinds) \in Calls BY <2>1, CallsAre
  <2>. QED BY <2>2 DEF Sweep
<1>5. PICK s \in Seq(Calls) : s = <<k, l, m>> /\ DOMAIN s = {1, 2, 3} /\ s[1] = k /\ s[2] = l /\ s[3] = m
  <2>1. <<k, l, m>> \in Seq(Calls) /\ DOMAIN <<k, l, m>> = {1, 2, 3} /\ <<k, l, m>>[1] = k
        /\ <<k, l, m>>[2] = l /\ <<k, l, m>>[3] = m
    OBVIOUS
  <2>. QED BY <2>1
<1>6. Failure(r) = s BY <1>2, <1>3, <1>4, <1>5 DEF Failure
<1>. HIDE DEF c, kinds
<1>7. Avoids(s, Misfits(r, job[r], "failing")) BY <1>1, <1>2, <1>3, <1>4, <1>5 DEF Avoids, Misfits, Fits, OnCheckpoint, IsPipelineMutation
<1>8. s[2] \in PostsAt(Failed) BY <1>1, <1>3, <1>5 DEF PostsAt
<1>9. s[1] \notin AskingSweeps /\ s[2] \notin AskingSweeps BY <1>2, <1>3, <1>5 DEF AskingSweeps
<1>10. 2 \in 1..(3 - 1) OBVIOUS
<1>11. After(s, AskingSweeps, PostsAt(Failed)) BY <1>5, <1>8, <1>9, <1>10 DEF After
<1>. QED BY <1>6, <1>7, <1>11

(***************************************************************************)
(* The inductive invariant                                                 *)
(***************************************************************************)

States == {"idle", "resolving", "placing", "working", "rendering", "failing",
           "finalizing", "done", "failed"}
Busy == {"placing", "working", "rendering", "failing"}
Requests == [action : Actions \union {"noop"}, mode : {"pipeline", "all", "explicit", "affected"},
             folders : Seq(Names), pipeline : Seq({"."} \union STRING), step : Nat]
Items == [launched : Seq(Folders \union {Config}), skipped : Seq(Folders)]
AggregateRows == [comment : AggregateComments \union {Nobody}, rows : SUBSET Nat]

StateOK ==
  /\ asked \in [Runs -> Typed \union {<<>>}]
  /\ job \in [Runs -> Requests]
  /\ pc \in [Runs -> States]
  /\ script \in [Runs -> Seq(Calls)]
  /\ comments \subseteq Comments
  /\ holder \in [Folders -> Runs \union {Nobody}]
  /\ turns \in [Folders -> Seq(Runs)]
  /\ items \in [Runs -> Items]
  /\ aggregate \in [Aggregates -> AggregateRows]
  /\ read \in [Runs -> AggregateRows]
  /\ marked \subseteq Aggregates \X Nat
  /\ overlapped \subseteq Aggregates
  /\ shown \in [Runs -> SUBSET AllPlaces]
  /\ loose \subseteq Runs /\ IsFiniteSet(loose)
  /\ faults \in 0..MaxTrouble

\* The folders of a run are those its comment names.
WorksOnNamed(its, text) ==
  Config \notin ToSet(its.launched) => ToSet(its.launched \o its.skipped) = Named(Parse(text))

\* A run has its request from its start on, its items once it resolved its
\* folders, and a script that fits its state.
RunOK(r) ==
  /\ pc[r] = "idle" => asked[r] = <<>>
  /\ pc[r] # "idle" => /\ asked[r] \in Typed /\ job[r] = Request(Parse(asked[r]))
                       /\ job[r] # NoRequest /\ JobOK(job[r])
  /\ pc[r] \in {"idle", "resolving"} => items[r] = NoItems /\ shown[r] = {} /\ r \notin loose
  /\ pc[r] \in {"placing", "working"} => items[r].launched # <<Config>>
  /\ pc[r] \in {"placing", "working", "rendering"} => items[r] # NoItems
  /\ ItemsOK(items[r])
  /\ items[r] # NoItems => WorksOnNamed(items[r], asked[r])
  /\ pc[r] \notin Busy => script[r] = <<>>
  /\ Avoids(script[r], Misfits(r, job[r], pc[r]))

\* What is on the pull request of a run fits its state.
CommentsFit ==
  \A c \in comments :
    /\ c.kind \in Asking => ~ c.managed
    /\ c.run \in Runs =>
         /\ pc[c.run] = "idle" => c.kind = "aggregate"
         /\ pc[c.run] = "resolving" => c.kind \in Asking \union {"aggregate"}
         /\ c.kind \in {"result", "summary"} /\ job[c.run].action \in Mutations => ~ c.managed

\* The lock of a folder is with the last run that got it, or free; a run that
\* did not lose its locks has it until the comment of the folder is posted.
LocksAreInTurn ==
  \A f \in Folders :
    /\ IsInjective(turns[f])
    /\ holder[f] # Nobody => turns[f] # <<>> /\ holder[f] = turns[f][Len(turns[f])]
    /\ \A p \in Runs : p \in ToSet(turns[f]) <=> f \in ToSet(items[p].launched)

Holds(r) ==
  \A f \in Folders : f \in ToSet(items[r].launched) =>
    /\ r \notin loose /\ (\/ pc[r] \in {"placing", "working"}
                          \/ pc[r] = "rendering" /\ Meets(script[r], CreatesAt(f))) => holder[f] = r
    /\ pc[r] = "rendering" => Never(script[r], CreatesAt(f), Releases(f))

\* The run q got the lock of f after the run p.
Follows(f, p, q) ==
  \E i, j \in DOMAIN turns[f] : i < j /\ turns[f][i] = p /\ turns[f][j] = q

\* What an earlier run left at a folder goes before the later one posts there.
Supersedes(q) ==
  \A f \in Folders : \A p \in Runs \ loose : Follows(f, p, q) =>
    \A c \in comments :
      c.managed /\ c.place = f /\ c.run = p /\ c.type = TypeOf(job[q].action) =>
        f \notin shown[q] /\ (pc[q] = "rendering" => After(script[q], PostsAt(f), Clearing(c)))

\* The placeholders of a run are some that RenderPR clears, and are cleared.
Placed(r) ==
  /\ pc[r] \in {"placing", "working"} => Avoids(script[r], Leaves(job[r], items[r]))
  /\ \A c \in comments : c.run = r /\ c.kind \in {"pending", "status"} =>
       /\ pc[r] \in {"placing", "working"} => Clearable(job[r], items[r], c)
       /\ pc[r] = "rendering" => Meets(script[r], Clearing(c))
       /\ pc[r] # "done"

\* The comments that asked for a mutation go after its outcome is shown.
Tells(r) ==
  job[r].action \in Mutations =>
    /\ pc[r] = "failing" => Failed \in shown[r] \/ After(script[r], AskingSweeps, PostsAt(Failed))
    /\ pc[r] = "rendering" =>
         IF OnCheckpoint(job[r]) THEN All \in shown[r] \/ After(script[r], AskingSweeps, TellsAt(All))
         ELSE \A p \in ToSet(items[r].launched) : p \in shown[r] \/ After(script[r], AskingSweeps, PostsAt(p))

\* A step is recorded after its row was saved.
HasRow(a, o, k, step) == step \in a[k].rows \/ k \in o

Marks(r) ==
  pc[r] = "rendering" /\ OnCheckpoint(job[r]) =>
    \/ HasRow(aggregate, overlapped, <<job[r].action, job[r].pipeline>>, job[r].step)
    \/ After(script[r], Records, Saves)

EachRun(r) == RunOK(r) /\ Holds(r) /\ Supersedes(r) /\ Placed(r) /\ Tells(r) /\ Marks(r)

IInv ==
  /\ StateOK
  /\ \A r \in Runs : EachRun(r)
  /\ CommentsFit
  /\ LocksAreInTurn
  /\ MarkedCheckpointsAreShown

\* A run that another one followed at a folder has not its lock.
LEMMA FollowedIs ==
  ASSUME StateOK, LocksAreInTurn, NEW f \in Folders, NEW p, NEW q, Follows(f, p, q)
  PROVE  p \in Runs /\ q \in Runs /\ p # q /\ holder[f] # p /\ p \in ToSet(turns[f]) /\ q \in ToSet(turns[f])
<1>1. PICK i \in DOMAIN turns[f], j \in DOMAIN turns[f] : i < j /\ turns[f][i] = p /\ turns[f][j] = q
  BY DEF Follows
<1>2. turns[f] \in Seq(Runs) BY DEF StateOK
<1>3. p \in Runs /\ q \in Runs BY <1>1, <1>2
<1>4. IsInjective(turns[f]) BY DEF LocksAreInTurn
<1>5. p # q
  <2>1. i # j BY <1>1, <1>2
  <2>. QED BY <2>1, <1>1, <1>4 DEF IsInjective
<1>6. holder[f] # p
  <2>. SUFFICES ASSUME holder[f] = p PROVE FALSE OBVIOUS
  <2>1. p # Nobody BY <1>3, NobodyIsNoRun
  <2>2. p = turns[f][Len(turns[f])] BY <2>1 DEF LocksAreInTurn
  <2>3. Len(turns[f]) \in DOMAIN turns[f] BY <1>1, <1>2
  <2>4. i = Len(turns[f]) BY <1>1, <1>4, <2>2, <2>3 DEF IsInjective
  <2>. QED BY <1>1, <1>2, <2>4
<1>. QED BY <1>1, <1>3, <1>5, <1>6 DEF ToSet

\* A step of one run, as the others see it.
Apart(r) ==
  /\ \A q \in Runs \ {r} :
       /\ asked'[q] = asked[q] /\ job'[q] = job[q] /\ pc'[q] = pc[q] /\ script'[q] = script[q]
       /\ items'[q] = items[q] /\ shown'[q] = shown[q] /\ (q \in loose' <=> q \in loose)
       /\ \A f \in Folders : holder[f] = q => holder'[f] = q
  /\ loose \subseteq loose'
  /\ \A c \in comments' \ comments :
       /\ c.run = r
       /\ \A f \in Folders, q \in Runs :
            c.managed /\ c.place = f /\ Follows(f, r, q) => r \in loose'
  /\ \A f \in Folders, p \in Runs, q \in Runs \ {r} : Follows(f, p, q)' => Follows(f, p, q)
  /\ \A k \in Aggregates, step \in Nat : 
       HasRow(aggregate, overlapped, k, step) => HasRow(aggregate', overlapped', k, step)

LEMMA OthersKeep ==
  ASSUME IInv, NEW r \in Runs, Apart(r), NEW q \in Runs, q # r
  PROVE  EachRun(q)'
<1>. q \in Runs \ {r} OBVIOUS
<1>1. /\ asked'[q] = asked[q] /\ job'[q] = job[q] /\ pc'[q] = pc[q] /\ script'[q] = script[q]
      /\ items'[q] = items[q] /\ shown'[q] = shown[q] /\ (q \in loose' <=> q \in loose)
      /\ \A f \in Folders : holder[f] = q => holder'[f] = q
  BY DEF Apart
<1>2. RunOK(q) /\ Holds(q) /\ Supersedes(q) /\ Placed(q) /\ Tells(q) /\ Marks(q)
  BY DEF IInv, EachRun
<1>3. RunOK(q)' BY <1>1, <1>2 DEF RunOK
<1>4. Holds(q)' BY <1>1, <1>2 DEF Holds
<1>5. Supersedes(q)'
  <2>. SUFFICES ASSUME NEW f \in Folders, NEW p \in Runs, p \notin loose', Follows(f, p, q)',
                       NEW c \in comments', c.managed, c.place = f, c.run = p, c.type = TypeOf(job'[q].action)
       PROVE  f \notin shown'[q] /\ (pc'[q] = "rendering" => After(script'[q], PostsAt(f), Clearing(c)))
    BY DEF Supersedes
  <2>1. Follows(f, p, q) /\ p \notin loose BY DEF Apart
  <2>2. c \in comments
    <3>. SUFFICES ASSUME c \notin comments PROVE FALSE OBVIOUS
    <3>1. c.run = r /\ (Follows(f, r, q) => r \in loose') BY DEF Apart
    <3>. QED BY <2>1, <3>1
  <2>. QED BY <1>1, <1>2, <2>1, <2>2 DEF Supersedes
<1>6. Placed(q)'
  <2>1. \A c \in comments' : c.run = q => c \in comments BY DEF Apart
  <2>. QED BY <1>1, <1>2, <2>1 DEF Placed
<1>7. Tells(q)' BY <1>1, <1>2 DEF Tells
<1>8. Marks(q)'
  <2>. DEFINE k == <<job[q].action, job[q].pipeline>>
  <2>. SUFFICES ASSUME pc[q] = "rendering", OnCheckpoint(job[q])
       PROVE  HasRow(aggregate', overlapped', k, job[q].step) \/ After(script[q], Records, Saves)
    BY <1>1 DEF Marks
  <2>1. JobOK(job[q]) BY <1>1, <1>2 DEF RunOK
  <2>2. k \in Aggregates /\ job[q].step \in Nat BY <1>1, <2>1 DEF JobOK, OnCheckpoint, Aggregates
  <2>3. HasRow(aggregate, overlapped, k, job[q].step) \/ After(script[q], Records, Saves) BY <1>1, <1>2 DEF Marks
  <2>. QED BY <2>2, <2>3 DEF Apart
<1>. QED BY <1>3, <1>4, <1>5, <1>6, <1>7, <1>8 DEF EachRun

\* What is left of a script after its first call, with the calls that one leads to.
LEMMA Advance ==
  ASSUME NEW S, NEW s \in Seq(S), s # <<>>, NEW calls \in Seq(S)
  PROVE  /\ calls \o Tail(s) \in Seq(S)
         /\ \A Y : Meets(s, Y) /\ (Head(s) \in Y => Meets(calls, Y)) => Meets(calls \o Tail(s), Y)
         /\ \A X : Avoids(calls, X) /\ Avoids(s, X) => Avoids(calls \o Tail(s), X)
         /\ \A X, Y : Avoids(calls, X) /\ After(s, X, Y) /\ (Head(s) \in Y => Meets(calls, Y)) =>
              After(calls \o Tail(s), X, Y)
         /\ \A X, Y : Avoids(calls, Y) /\ Never(s, X, Y) => Never(calls \o Tail(s), X, Y)
         /\ \A X : Avoids(calls, X) /\ Meets(calls \o Tail(s), X) => Meets(s, X) /\ Meets(Tail(s), X)
<1>1. Tail(s) \in Seq(S) BY TailPlaces
<1>2. calls \o Tail(s) \in Seq(S) BY <1>1
<1>3. ASSUME NEW Y, Meets(s, Y), Head(s) \in Y => Meets(calls, Y) PROVE Meets(calls \o Tail(s), Y)
  BY <1>1, <1>3, MeetsTail, MeetsConcat
<1>4. ASSUME NEW X, Avoids(calls, X), Avoids(s, X) PROVE Avoids(calls \o Tail(s), X)
  BY <1>1, <1>4, MeetsTail, MeetsConcat
<1>5. \A q, X, Y : Avoids(q, X) => After(q, X, Y) BY DEF Avoids, After
<1>6. ASSUME NEW X, NEW Y, Avoids(calls, X), After(s, X, Y), Head(s) \in Y => Meets(calls, Y)
      PROVE  After(calls \o Tail(s), X, Y)
  <2>1. After(calls, X, Y) BY <1>5, <1>6
  <2>2. CASE Head(s) \in Y BY <1>1, <1>6, <2>1, <2>2, AfterConcat
  <2>3. CASE Head(s) \notin Y
    <3>1. After(Tail(s), X, Y) BY <1>6, <2>3, AfterTail
    <3>. QED BY <1>1, <2>1, <3>1, AfterConcat
  <2>. QED BY <2>2, <2>3
<1>7. ASSUME NEW X, NEW Y, Avoids(calls, Y), Never(s, X, Y) PROVE Never(calls \o Tail(s), X, Y)
  <2>1. Never(Tail(s), X, Y) BY <1>7, NeverTail
  <2>2. Never(calls, X, Y)
    <3>1. \A n \in DOMAIN calls : \A m \in 1..(n - 1) : m \in DOMAIN calls OBVIOUS
    <3>. QED BY <1>7, <3>1 DEF Never, Avoids
  <2>. QED BY <1>1, <1>7, <2>1, <2>2, NeverConcat
<1>8. ASSUME NEW X, Avoids(calls, X), Meets(calls \o Tail(s), X) PROVE Meets(s, X) /\ Meets(Tail(s), X)
  <2>1. Meets(Tail(s), X)
    <3>1. Meets(calls, X) \/ Meets(Tail(s), X) BY <1>1, <1>8, MeetsConcat
    <3>. QED BY <3>1, <1>8 DEF Meets, Avoids
  <2>2. Meets(s, X)
    <3>1. PICK n \in DOMAIN Tail(s) : Tail(s)[n] \in X BY <2>1 DEF Meets
    <3>2. n + 1 \in DOMAIN s /\ Tail(s)[n] = s[n + 1] BY TailPlaces
    <3>. QED BY <3>1, <3>2 DEF Meets
  <2>. QED BY <2>1, <2>2
<1>. QED BY <1>2, <1>3, <1>4, <1>6, <1>7, <1>8

\* The effect of a call on what the invariant speaks of.
Effect(r, calls) ==
  /\ Goes(r, calls) /\ UNCHANGED <<pc, asked, job, items, turns, loose>>
  /\ Avoids(calls, Misfits(r, job[r], pc[r]))
  /\ pc[r] \in {"placing", "working"} => Avoids(calls, Leaves(job[r], items[r]))
  /\ \A f \in Folders : (pc[r] = "rendering" => Avoids(calls, CreatesAt(f))) /\ Avoids(calls, Releases(f))
  /\ \A p \in AllPlaces : p \in Folders => Avoids(calls, PostsAt(p)) \/ pc[r] # "rendering"
  /\ Avoids(calls, AskingSweeps) /\ Avoids(calls, Records)
  /\ \A c \in comments \intersect comments' :
       (c.run = r \/ c.managed) /\ Head(script[r]) \in Clearing(c) => Meets(calls, Clearing(c))
  /\ \A p \in AllPlaces :
       /\ Head(script[r]) \in PostsAt(p) => p \in shown'[r]
       /\ Head(script[r]) \in TellsAt(p) => p \in shown'[r] \/ Meets(calls, TellsAt(p))
  /\ Head(script[r]) \in Saves =>
       \/ HasRow(aggregate', overlapped', <<job[r].action, job[r].pipeline>>, job[r].step)
       \/ Meets(calls, Saves)
  /\ \A q \in Runs \ {r} : shown'[q] = shown[q]
  /\ shown[r] \subseteq shown'[r]
  /\ \A p \in shown'[r] : p \in shown[r] \/ p \notin Folders \/ Head(script[r]) \in PostsAt(p)
  /\ \A c \in comments' : c \in comments \/ (Head(script[r]).op = "create" /\ c = Head(script[r]).comment)
  /\ \A f \in Folders : holder'[f] = holder[f]
       \/ (Head(script[r]) \in Releases(f) /\ holder[f] = r /\ holder'[f] = Nobody)
  /\ \A k \in Aggregates, step \in Nat :
       HasRow(aggregate, overlapped, k, step) => HasRow(aggregate', overlapped', k, step)

LEMMA CallKeeps ==
  ASSUME IInv, StateOK', NEW r \in Runs, script[r] # <<>>, NEW calls \in Seq(Calls), Effect(r, calls)
  PROVE  (\A q \in Runs : EachRun(q)') /\ CommentsFit' /\ LocksAreInTurn'
<1>. DEFINE s == script[r]
            h == Head(s)
            t == calls \o Tail(s)
<1>0. /\ RunOK(r) /\ Holds(r) /\ Supersedes(r) /\ Placed(r) /\ Tells(r) /\ Marks(r)
      /\ StateOK /\ CommentsFit /\ LocksAreInTurn
  BY DEF IInv, EachRun
<1>1. s \in Seq(Calls) /\ s # <<>> BY <1>0 DEF StateOK
<1>2. h \in Calls /\ h = s[1] /\ 1 \in DOMAIN s
  <2>1. h = s[1] /\ 1 \in DOMAIN s BY <1>1, TailPlaces
  <2>. QED BY <2>1, <1>1
<1>3. script' = [script EXCEPT ![r] = t] BY DEF Effect, Goes
<1>4. script'[r] = t BY <1>0, <1>3 DEF StateOK
<1>5. /\ pc' = pc /\ asked' = asked /\ job' = job /\ items' = items /\ turns' = turns /\ loose' = loose
  BY DEF Effect
<1>6. pc[r] \in Busy BY <1>0, <1>1 DEF RunOK
<1>7. pc[r] # "idle" /\ pc[r] # "resolving" /\ pc[r] # "done" BY <1>6 DEF Busy
<1>8. h \notin Misfits(r, job[r], pc[r]) BY <1>0, <1>2 DEF RunOK, Avoids
<1>9. Fits(r, job[r], pc[r], h) BY <1>2, <1>8 DEF Misfits
<1>10. \A c \in comments' : c \notin comments => h.op = "create" /\ c = h.comment /\ c.run = r /\ c \in Comments
  <2>1. h.op = "create" => h.comment \in Comments /\ h.comment.run = r
    BY <1>2, <1>9, CallForms DEF CreateCalls, Fits
  <2>. QED BY <2>1 DEF Effect
<1>. HIDE DEF t
<1>11. t \in Seq(Calls)
       /\ (\A Y : Meets(s, Y) /\ (h \in Y => Meets(calls, Y)) => Meets(t, Y))
       /\ (\A X : Avoids(calls, X) /\ Avoids(s, X) => Avoids(t, X))
       /\ (\A X, Y : Avoids(calls, X) /\ After(s, X, Y) /\ (h \in Y => Meets(calls, Y)) => After(t, X, Y))
       /\ (\A X, Y : Avoids(calls, Y) /\ Never(s, X, Y) => Never(t, X, Y))
       /\ (\A X : Avoids(calls, X) /\ Meets(t, X) => Meets(s, X) /\ Meets(Tail(s), X))
  BY <1>1, Advance DEF t
<1>12. \A X, Y : After(s, X, Y) => h \notin X BY <1>1, AfterTail
<1>13. \A X, Y : Never(s, X, Y) /\ h \in Y => Avoids(Tail(s), X) BY <1>1, NeverTail
<1>14. \A X : Avoids(s, X) => h \notin X BY <1>2 DEF Avoids
<1>. HIDE DEF h, s
<1>15. \A X : ~ (Avoids(Tail(s), X) /\ Meets(Tail(s), X)) BY DEF Avoids, Meets
<1>h. h = Head(script[r]) /\ s = script[r] BY DEF h, s
<1>16. \A f \in Folders, q \in Runs : holder[f] = q /\ q # r => holder'[f] = q BY DEF Effect
\* A managed comment at a folder is put there by its holder.
<1>17. ASSUME NEW c \in comments', c \notin comments, c.managed, NEW f \in Folders, c.place = f,
              f \in ToSet(items[r].launched)
       PROVE  r \in loose \/ holder[f] = r
  <2>1. h.op = "create" /\ h.comment = c BY <1>10, <1>17
  <2>2. h \in CreatesAt(f) BY <1>2, <1>17, <2>1 DEF CreatesAt
  <2>3. f # Failed BY PlacesAreDistinct
  <2>4. pc[r] \in {"placing", "rendering"} BY <1>6, <1>9, <1>17, <2>1, <2>3 DEF Fits, Busy
  <2>5. Meets(s, CreatesAt(f)) BY <1>h, <1>2, <2>2 DEF Meets, h, s
  <2>. QED BY <1>0, <1>h, <1>17, <2>4, <2>5 DEF Holds
<1>18. ASSUME NEW c \in comments', c \notin comments, c.managed, NEW f \in Folders, c.place = f,
              NEW q \in Runs, Follows(f, r, q)
       PROVE  r \in loose
  <2>1. holder[f] # r /\ r \in ToSet(turns[f]) BY <1>0, <1>18, FollowedIs
  <2>2. f \in ToSet(items[r].launched) BY <1>0, <2>1 DEF LocksAreInTurn
  <2>. QED BY <1>17, <1>18, <2>1, <2>2
<1>19. Apart(r)
  <2>1. ASSUME NEW q \in Runs \ {r}
        PROVE  /\ asked'[q] = asked[q] /\ job'[q] = job[q] /\ pc'[q] = pc[q] /\ script'[q] = script[q]
               /\ items'[q] = items[q] /\ shown'[q] = shown[q] /\ (q \in loose' <=> q \in loose)
               /\ \A f \in Folders : holder[f] = q => holder'[f] = q
    <3>1. script'[q] = script[q] BY <1>0, <1>3 DEF StateOK
    <3>2. shown'[q] = shown[q] BY DEF Effect
    <3>. QED BY <3>1, <3>2, <1>5, <1>16
  <2>2. \A f \in Folders, p \in Runs, q \in Runs \ {r} : Follows(f, p, q)' => Follows(f, p, q)
    BY <1>5 DEF Follows
  <2>3. \A k \in Aggregates, step \in Nat :
          HasRow(aggregate, overlapped, k, step) => HasRow(aggregate', overlapped', k, step)
    BY DEF Effect
  <2>4. \A c \in comments' \ comments :
          /\ c.run = r
          /\ \A f \in Folders, q \in Runs : c.managed /\ c.place = f /\ Follows(f, r, q) => r \in loose'
    BY <1>5, <1>10, <1>18
  <2>. QED BY <2>1, <2>2, <2>3, <2>4, <1>5 DEF Apart
<1>20. RunOK(r)'
  <2>1. Avoids(t, Misfits(r, job[r], pc[r])) BY <1>0, <1>h, <1>11 DEF RunOK, Effect
  <2>. QED BY <1>0, <1>4, <1>5, <1>6, <1>7, <2>1 DEF RunOK
<1>21. Holds(r)'
  <2>1. ASSUME NEW f \in Folders, f \in ToSet(items[r].launched)
        PROVE  /\ (r \notin loose /\ (pc[r] \in {"placing", "working"} \/ (pc[r] = "rendering" /\ Meets(t, CreatesAt(f)))))
                     => holder'[f] = r
               /\ pc[r] = "rendering" => Never(t, CreatesAt(f), Releases(f))
    <3>1. pc[r] = "rendering" => Never(s, CreatesAt(f), Releases(f)) BY <1>0, <1>h, <2>1 DEF Holds
    <3>2. Avoids(calls, Releases(f)) /\ (pc[r] = "rendering" => Avoids(calls, CreatesAt(f))) BY DEF Effect
    <3>3. CASE h \in Releases(f)
      <4>1. pc[r] = "rendering" BY <1>9, <3>3 DEF Fits, Releases
      <4>2. ~ Meets(t, CreatesAt(f)) BY <3>1, <3>2, <3>3, <4>1, <1>11, <1>13, <1>15
      <4>. QED BY <3>1, <3>2, <4>1, <4>2, <1>11
    <3>4. CASE h \notin Releases(f)
      <4>1. holder'[f] = holder[f] BY <1>h, <3>4 DEF Effect
      <4>2. pc[r] = "rendering" /\ Meets(t, CreatesAt(f)) => Meets(s, CreatesAt(f)) BY <3>2, <1>11
      <4>. QED BY <1>0, <1>h, <1>11, <2>1, <3>1, <3>2, <4>1, <4>2 DEF Holds
    <3>. QED BY <3>3, <3>4
  <2>. QED BY <2>1, <1>4, <1>5 DEF Holds
<1>22. Supersedes(r)'
  <2>. SUFFICES ASSUME NEW f \in Folders, NEW p \in Runs, p \notin loose, Follows(f, p, r),
                       NEW c \in comments', c.managed, c.place = f, c.run = p, c.type = TypeOf(job[r].action)
       PROVE  f \notin shown'[r] /\ (pc[r] = "rendering" => After(t, PostsAt(f), Clearing(c)))
    BY <1>4, <1>5 DEF Supersedes, Follows
  <2>1. p # r BY <1>0, FollowedIs
  <2>2. c \in comments BY <1>10, <2>1
  <2>3. f \notin shown[r] /\ (pc[r] = "rendering" => After(s, PostsAt(f), Clearing(c)))
    BY <1>0, <1>h, <2>2 DEF Supersedes
  <2>4. f \in AllPlaces /\ f # Failed BY PlacesAreDistinct DEF AllPlaces
  <2>5. h \notin PostsAt(f)
    <3>. SUFFICES ASSUME h \in PostsAt(f) PROVE FALSE OBVIOUS
    <3>1. h.op = "create" /\ h.comment.place = f /\ h.comment.kind \notin {"pending", "status"} BY DEF PostsAt
    <3>2. pc[r] = "rendering" BY <3>1, <1>6, <1>9, <2>4 DEF Fits, Busy
    <3>. QED BY <3>2, <2>3, <1>12
  <2>6. f \notin shown'[r] BY <1>h, <2>3, <2>5 DEF Effect
  <2>7. h \in Clearing(c) => Meets(calls, Clearing(c)) BY <1>h, <2>2 DEF Effect
  <2>8. pc[r] = "rendering" => After(t, PostsAt(f), Clearing(c))
    <3>1. pc[r] = "rendering" => Avoids(calls, PostsAt(f)) BY <2>4 DEF Effect
    <3>. QED BY <3>1, <2>3, <2>7, <1>11
  <2>. QED BY <2>6, <2>8
<1>23. Placed(r)'
  <2>1. pc[r] \in {"placing", "working"} => Avoids(t, Leaves(job[r], items[r]))
    BY <1>0, <1>h, <1>11 DEF Placed, Effect
  <2>2. ASSUME NEW c \in comments', c.run = r, c.kind \in {"pending", "status"}
        PROVE  /\ pc[r] \in {"placing", "working"} => Clearable(job[r], items[r], c)
               /\ pc[r] = "rendering" => Meets(t, Clearing(c))
    <3>1. CASE c \in comments
      <4>1. h \in Clearing(c) => Meets(calls, Clearing(c)) BY <1>h, <2>2, <3>1 DEF Effect
      <4>. QED BY <4>1, <1>0, <1>h, <1>11, <2>2, <3>1 DEF Placed
    <3>2. CASE c \notin comments
      <4>1. h.op = "create" /\ h.comment = c BY <1>10, <3>2
      <4>2. pc[r] # "rendering" BY <4>1, <1>9, <2>2 DEF Fits
      <4>3. pc[r] \in {"placing", "working"} => h \notin Leaves(job[r], items[r]) BY <1>0, <1>h, <1>14 DEF Placed
      <4>. QED BY <4>1, <4>2, <4>3, <1>2 DEF Leaves
    <3>. QED BY <3>1, <3>2
  <2>. QED BY <1>4, <1>5, <1>7, <2>1, <2>2 DEF Placed
<1>24. Tells(r)'
  <2>. SUFFICES ASSUME job[r].action \in Mutations
       PROVE  /\ pc[r] = "failing" => Failed \in shown'[r] \/ After(t, AskingSweeps, PostsAt(Failed))
              /\ pc[r] = "rendering" =>
                   IF OnCheckpoint(job[r]) THEN All \in shown'[r] \/ After(t, AskingSweeps, TellsAt(All))
                   ELSE \A p \in ToSet(items[r].launched) : p \in shown'[r] \/ After(t, AskingSweeps, PostsAt(p))
    BY <1>4, <1>5 DEF Tells
  <2>1. ASSUME NEW p \in AllPlaces, p \in shown[r] \/ After(s, AskingSweeps, PostsAt(p))
        PROVE  p \in shown'[r] \/ After(t, AskingSweeps, PostsAt(p))
    BY <1>h, <1>11, <2>1 DEF Effect
  <2>2. ASSUME NEW p \in AllPlaces, p \in shown[r] \/ After(s, AskingSweeps, TellsAt(p))
        PROVE  p \in shown'[r] \/ After(t, AskingSweeps, TellsAt(p))
    BY <1>h, <1>11, <2>2 DEF Effect
  <2>3. All \in AllPlaces /\ Failed \in AllPlaces /\ ToSet(items[r].launched) \subseteq AllPlaces
    <3>1. items[r].launched \in Seq(Folders \union {Config}) BY <1>0 DEF StateOK, Items
    <3>. QED BY <3>1 DEF ToSet, AllPlaces
  <2>4. pc[r] = "failing" => Failed \in shown[r] \/ After(s, AskingSweeps, PostsAt(Failed)) BY <1>0, <1>h DEF Tells
  <2>5. pc[r] = "rendering" =>
          IF OnCheckpoint(job[r]) THEN All \in shown[r] \/ After(s, AskingSweeps, TellsAt(All))
          ELSE \A p \in ToSet(items[r].launched) : p \in shown[r] \/ After(s, AskingSweeps, PostsAt(p))
    BY <1>0, <1>h DEF Tells
  <2>. QED BY <2>1, <2>2, <2>3, <2>4, <2>5
<1>25. Marks(r)'
  <2>. DEFINE k == <<job[r].action, job[r].pipeline>>
  <2>. SUFFICES ASSUME pc[r] = "rendering", OnCheckpoint(job[r])
       PROVE  HasRow(aggregate', overlapped', k, job[r].step) \/ After(t, Records, Saves)
    BY <1>4, <1>5 DEF Marks
  <2>1. JobOK(job[r]) BY <1>0 DEF RunOK
  <2>2. k \in Aggregates /\ job[r].step \in Nat BY <2>1 DEF JobOK, OnCheckpoint, Aggregates
  <2>3. HasRow(aggregate, overlapped, k, job[r].step) \/ After(s, Records, Saves) BY <1>0, <1>h DEF Marks
  <2>. HIDE DEF k
  <2>4. HasRow(aggregate, overlapped, k, job[r].step) => HasRow(aggregate', overlapped', k, job[r].step)
    BY <2>2 DEF Effect
  <2>5. h \in Saves => HasRow(aggregate', overlapped', k, job[r].step) \/ Meets(calls, Saves)
    BY <1>h DEF Effect, k
  <2>6. Avoids(calls, Records) BY DEF Effect
  <2>. QED BY <2>3, <2>4, <2>5, <2>6, <1>11
<1>26. CommentsFit'
  <2>. SUFFICES ASSUME NEW c \in comments'
       PROVE  /\ c.kind \in Asking => ~ c.managed
              /\ c.run \in Runs =>
                   /\ pc[c.run] = "idle" => c.kind = "aggregate"
                   /\ pc[c.run] = "resolving" => c.kind \in Asking \union {"aggregate"}
                   /\ c.kind \in {"result", "summary"} /\ job[c.run].action \in Mutations => ~ c.managed
    BY <1>5 DEF CommentsFit
  <2>1. CASE c \in comments BY <1>0, <2>1 DEF CommentsFit
  <2>2. CASE c \notin comments
    <3>1. h.op = "create" /\ h.comment = c /\ c.run = r BY <1>10, <2>2
    <3>2. c.kind \notin Asking BY <3>1, <1>6, <1>9 DEF Fits, Busy, Asking
    <3>3. c.kind \in {"result", "summary"} /\ job[r].action \in Mutations => ~ c.managed
      BY <3>1, <1>6, <1>9 DEF Fits, Busy
    <3>. QED BY <3>1, <3>2, <3>3, <1>7
  <2>. QED BY <2>1, <2>2
<1>27. LocksAreInTurn'
  <2>1. \A f \in Folders : holder'[f] = holder[f] \/ holder'[f] = Nobody BY DEF Effect
  <2>. QED BY <1>0, <1>5, <2>1 DEF LocksAreInTurn
<1>28. ASSUME NEW q \in Runs PROVE EachRun(q)'
  <2>1. CASE q = r BY <2>1, <1>20, <1>21, <1>22, <1>23, <1>24, <1>25 DEF EachRun
  <2>2. CASE q # r BY <2>2, <1>19, OthersKeep
  <2>. QED BY <2>1, <2>2
<1>. QED BY <1>26, <1>27, <1>28

(***************************************************************************)
(* The calls keep the invariant                                            *)
(***************************************************************************)

\* The next call of a run fits its state.
LEMMA CallIs ==
  ASSUME IInv, NEW r \in Runs, script[r] # <<>>
  PROVE  /\ script[r] \in Seq(Calls) /\ Tail(script[r]) \in Seq(Calls)
         /\ Head(script[r]) \in Calls /\ Fits(r, job[r], pc[r], Head(script[r]))
         /\ pc[r] \in {"placing", "working"} => Head(script[r]) \notin Leaves(job[r], items[r])
         /\ pc[r] \in Busy /\ JobOK(job[r]) /\ ItemsOK(items[r])
<1>1. StateOK /\ RunOK(r) /\ Placed(r) BY DEF IInv, EachRun
<1>2. script[r] \in Seq(Calls) BY <1>1 DEF StateOK
<1>3. Head(script[r]) = script[r][1] /\ 1 \in DOMAIN script[r] /\ Tail(script[r]) \in Seq(Calls) BY <1>2, TailPlaces
<1>4. Head(script[r]) \in Calls BY <1>2, <1>3
<1>5. pc[r] \in Busy BY <1>1 DEF RunOK
<1>6. Head(script[r]) \notin Misfits(r, job[r], pc[r]) BY <1>1, <1>3 DEF RunOK, Avoids
<1>7. Fits(r, job[r], pc[r], Head(script[r])) BY <1>4, <1>6 DEF Misfits
<1>8. pc[r] \in {"placing", "working"} => Head(script[r]) \notin Leaves(job[r], items[r])
  BY <1>1, <1>3 DEF Placed, Avoids
<1>9. JobOK(job[r]) /\ ItemsOK(items[r]) BY <1>1, <1>5 DEF RunOK, Busy
<1>. QED BY <1>2, <1>3, <1>4, <1>5, <1>7, <1>8, <1>9

\* Searches and deletions do no harm to the rest of a script.
LEMMA QuietCalls ==
  ASSUME NEW r \in Runs, NEW calls \in Seq(Calls), \A n \in DOMAIN calls : calls[n].op \in {"find", "delete"}
  PROVE  /\ \A j, state : Avoids(calls, Misfits(r, j, state))
         /\ \A j, its : Avoids(calls, Leaves(j, its))
         /\ \A p : Avoids(calls, CreatesAt(p)) /\ Avoids(calls, Releases(p)) /\ Avoids(calls, PostsAt(p))
         /\ Avoids(calls, AskingSweeps) /\ Avoids(calls, Records)
BY DEF Avoids, Misfits, Fits, Leaves, CreatesAt, Releases, PostsAt, AskingSweeps, Records

LEMMA CallStep ==
  ASSUME IInv, StateOK', NEW r \in Runs, script[r] # <<>>, NEW calls \in Seq(Calls), Effect(r, calls), marked' = marked
  PROVE  IInv'
<1>1. (\A q \in Runs : EachRun(q)') /\ CommentsFit' /\ LocksAreInTurn' BY CallKeeps
<1>2. MarkedCheckpointsAreShown'
  <2>. SUFFICES ASSUME NEW m \in marked PROVE HasRow(aggregate', overlapped', m[1], m[2])
    BY DEF MarkedCheckpointsAreShown, HasRow
  <2>1. m[1] \in Aggregates /\ m[2] \in Nat BY DEF IInv, StateOK
  <2>2. HasRow(aggregate, overlapped, m[1], m[2]) BY DEF IInv, MarkedCheckpointsAreShown, HasRow
  <2>. QED BY <2>1, <2>2 DEF Effect
<1>. QED BY <1>1, <1>2 DEF IInv

LEMMA ScriptGoes ==
  ASSUME IInv, NEW r \in Runs, script[r] # <<>>, NEW calls \in Seq(Calls), Goes(r, calls)
  PROVE  /\ script' = [script EXCEPT ![r] = calls \o Tail(script[r])]
         /\ script' \in [Runs -> Seq(Calls)]
<1>1. script' = [script EXCEPT ![r] = calls \o Tail(script[r])] BY DEF Goes
<1>2. calls \o Tail(script[r]) \in Seq(Calls) BY CallIs
<1>3. script \in [Runs -> Seq(Calls)] BY DEF IInv, StateOK
<1>. QED BY <1>1, <1>2, <1>3

LEMMA FindKeeps ==
  ASSUME IInv, NEW r \in Runs, Find(r)
  PROVE  IInv'
<1>. DEFINE h == Head(script[r])
            found == {c \in comments : Matches(c, h)}
            calls == IF found = {} THEN <<>> ELSE <<Delete(found)>>
<1>1. script[r] # <<>> /\ h.op = "find" BY DEF Find, Next_
<1>2. Goes(r, calls) BY DEF Find
<1>3. /\ asked' = asked /\ job' = job /\ pc' = pc /\ comments' = comments /\ holder' = holder /\ turns' = turns
      /\ items' = items /\ aggregate' = aggregate /\ read' = read /\ marked' = marked
      /\ overlapped' = overlapped /\ shown' = shown /\ loose' = loose /\ faults' = faults
  BY DEF Find, input, locks, registry, trouble
<1>4. h \in FindCalls BY <1>1, CallIs, CallForms
<1>5. found \in SUBSET Deletable
  <2>. SUFFICES ASSUME NEW c \in comments, Matches(c, h) PROVE c \in Deletable OBVIOUS
  <2>1. c \in Comments BY DEF IInv, StateOK
  <2>2. h.by \in {"marker", "failure", "mention"} BY <1>4 DEF FindCalls
  <2>. QED BY <2>1, <2>2 DEF Matches, Deletable
<1>6. Delete(found) \in Calls /\ Delete(found).op = "delete" /\ Delete(found).set = found BY <1>5, CallsAre DEF Delete
<1>. HIDE DEF h
<1>h. h = Head(script[r]) BY DEF h
<1>7. PICK D : D = Delete(found) OBVIOUS
<1>8. calls = IF found = {} THEN <<>> ELSE <<D>> BY <1>7
<1>9. D \in Calls /\ D.op = "delete" /\ D.set = found BY <1>6, <1>7
<1>. HIDE DEF calls, found
<1>10. calls \in Seq(Calls) /\ \A n \in DOMAIN calls : calls[n].op \in {"find", "delete"} BY <1>8, <1>9
<1>11. found # {} => Meets(calls, {D})
  <2>1. DOMAIN <<D>> = {1} /\ <<D>>[1] = D OBVIOUS
  <2>. QED BY <1>8, <2>1 DEF Meets
<1>12. \A c \in comments : h \in Clearing(c) => Meets(calls, Clearing(c))
  <2>. SUFFICES ASSUME NEW c \in comments, h \in Clearing(c) PROVE Meets(calls, Clearing(c)) OBVIOUS
  <2>1. c \in found BY <1>1, <1>h DEF Clearing, Clears, found
  <2>2. D \in Clearing(c) BY <2>1, <1>9 DEF Clearing, Clears
  <2>. QED BY <2>1, <2>2, <1>11 DEF Meets
<1>13. StateOK' BY <1>1, <1>2, <1>3, <1>10, ScriptGoes DEF StateOK, IInv
<1>14. Effect(r, calls)
  <2>1. /\ \A p : h \notin PostsAt(p) /\ h \notin TellsAt(p)
        /\ h \notin Saves
    BY <1>1, <1>h DEF PostsAt, TellsAt, Saves
  <2>2. /\ \A j, state : Avoids(calls, Misfits(r, j, state))
        /\ \A j, its : Avoids(calls, Leaves(j, its))
        /\ \A p : Avoids(calls, CreatesAt(p)) /\ Avoids(calls, Releases(p)) /\ Avoids(calls, PostsAt(p))
        /\ Avoids(calls, AskingSweeps) /\ Avoids(calls, Records)
    BY <1>10, QuietCalls
  <2>. QED BY <2>1, <2>2, <1>h, <1>2, <1>3, <1>12 DEF Effect
<1>. QED BY <1>1, <1>3, <1>10, <1>13, <1>14, CallStep

\* A call that leads to no other one.
LEMMA NoCallsAre ==
  /\ <<>> \in Seq(Calls)
  /\ \A X : Avoids(<<>>, X)
BY DEF Avoids

LEMMA SweepKeeps ==
  ASSUME IInv, NEW r \in Runs, SweepOwn(r)
  PROVE  IInv'
<1>. DEFINE h == Head(script[r])
<1>1. script[r] # <<>> /\ h.op = "sweep" /\ Goes(r, <<>>) BY DEF SweepOwn, Next_
<1>2. /\ asked' = asked /\ job' = job /\ pc' = pc /\ holder' = holder /\ turns' = turns
      /\ items' = items /\ aggregate' = aggregate /\ read' = read /\ marked' = marked
      /\ overlapped' = overlapped /\ shown' = shown /\ loose' = loose /\ faults' = faults
  BY DEF SweepOwn, input, locks, registry, trouble
<1>3. comments' = {c \in comments : ~ (c.run = r /\ c.kind \in h.kinds /\ ~ c.managed)} BY DEF SweepOwn
<1>. HIDE DEF h
<1>h. h = Head(script[r]) BY DEF h
<1>4. StateOK' BY <1>1, <1>2, <1>3, NoCallsAre, ScriptGoes DEF StateOK, IInv
<1>5. \A c \in comments' : (c.run = r \/ c.managed) => h \notin Clearing(c)
  BY <1>1, <1>3 DEF Clearing, Clears
<1>6. Effect(r, <<>>)
  <2>1. /\ \A p : h \notin PostsAt(p) /\ h \notin TellsAt(p)
        /\ h \notin Saves
    BY <1>1 DEF PostsAt, TellsAt, Saves
  <2>. QED BY <2>1, <1>h, <1>1, <1>2, <1>3, <1>5, NoCallsAre DEF Effect
<1>. QED BY <1>1, <1>2, <1>4, <1>6, NoCallsAre, CallStep

LEMMA CreateKeeps ==
  ASSUME IInv, NEW r \in Runs, CreateOne(r)
  PROVE  IInv'
<1>. DEFINE h == Head(script[r])
            c == h.comment
<1>1. script[r] # <<>> /\ h.op = "create" /\ Goes(r, <<>>) BY DEF CreateOne, Next_
<1>2. /\ asked' = asked /\ job' = job /\ pc' = pc /\ holder' = holder /\ turns' = turns
      /\ items' = items /\ aggregate' = aggregate /\ read' = read /\ marked' = marked
      /\ overlapped' = overlapped /\ loose' = loose /\ faults' = faults
  BY DEF CreateOne, input, locks, registry, trouble
<1>3. comments' = comments \union {c} BY DEF CreateOne
<1>4. shown' = [shown EXCEPT ![r] = shown[r] \union IF c.kind \in {"pending", "status"} THEN {} ELSE {c.place}]
  BY DEF CreateOne, Shows
<1>5. h \in Calls BY <1>1, CallIs
<1>6. c \in Comments BY <1>1, <1>5, CallForms DEF CreateCalls
<1>7. c.place \in AllPlaces BY <1>6 DEF Comments
<1>. HIDE DEF h
<1>h. h = Head(script[r]) BY DEF h
<1>8. shown \in [Runs -> SUBSET AllPlaces] BY DEF IInv, StateOK
<1>9. shown' \in [Runs -> SUBSET AllPlaces] BY <1>4, <1>7, <1>8
<1>10. StateOK' BY <1>1, <1>2, <1>3, <1>6, <1>9, NoCallsAre, ScriptGoes DEF StateOK, IInv
<1>11. /\ shown'[r] = shown[r] \union IF c.kind \in {"pending", "status"} THEN {} ELSE {c.place}
       /\ \A q \in Runs \ {r} : shown'[q] = shown[q]
  BY <1>4, <1>8
<1>12. \A p : h \in PostsAt(p) <=> c.place = p /\ c.kind \notin {"pending", "status"}
  BY <1>1, <1>5 DEF PostsAt
<1>13. \A p : h \in TellsAt(p) => h \in PostsAt(p)
  BY <1>1 DEF TellsAt
<1>14. h \notin Saves /\ \A x : h \notin Clearing(x) BY <1>1 DEF Saves, Clearing, Clears
<1>15. Effect(r, <<>>)
  <2>1. /\ \A p : h \in PostsAt(p) => p \in shown'[r]
        /\ \A p \in shown'[r] : p \in shown[r] \/ h \in PostsAt(p)
        /\ shown[r] \subseteq shown'[r]
    BY <1>11, <1>12
  <2>2. \A d \in comments' : d \in comments \/ d = c BY <1>3
  <2>. HIDE DEF c
  <2>3. c = h.comment BY DEF c
  <2>. QED BY <2>1, <2>2, <2>3, <1>h, <1>1, <1>2, <1>11, <1>13, <1>14, NoCallsAre DEF Effect
<1>. QED BY <1>1, <1>2, <1>10, <1>15, NoCallsAre, CallStep

LEMMA ReleaseKeeps ==
  ASSUME IInv, NEW r \in Runs, ReleaseFolder(r)
  PROVE  IInv'
<1>. DEFINE h == Head(script[r])
<1>1. script[r] # <<>> /\ h.op = "release" /\ Goes(r, <<>>) BY DEF ReleaseFolder, Next_
<1>2. /\ asked' = asked /\ job' = job /\ pc' = pc /\ comments' = comments /\ turns' = turns
      /\ items' = items /\ aggregate' = aggregate /\ read' = read /\ marked' = marked
      /\ overlapped' = overlapped /\ shown' = shown /\ loose' = loose /\ faults' = faults
  BY DEF ReleaseFolder, input, locks, registry, trouble
<1>3. holder' = [holder EXCEPT ![h.folder] = IF holder[h.folder] = r THEN Nobody ELSE holder[h.folder]]
  BY DEF ReleaseFolder
<1>4. h \in Calls BY <1>1, CallIs
<1>5. h.folder \in Folders BY <1>1, <1>4, CallForms DEF ReleaseCalls
<1>. HIDE DEF h
<1>h. h = Head(script[r]) BY DEF h
<1>6. holder \in [Folders -> Runs \union {Nobody}] BY DEF IInv, StateOK
<1>7. holder' \in [Folders -> Runs \union {Nobody}] BY <1>3, <1>5, <1>6
<1>8. StateOK' BY <1>1, <1>2, <1>7, NoCallsAre, ScriptGoes DEF StateOK, IInv
<1>9. \A f \in Folders : holder'[f] = holder[f] \/ (h \in Releases(f) /\ holder[f] = r /\ holder'[f] = Nobody)
  <2>. TAKE f \in Folders
  <2>1. CASE f = h.folder BY <2>1, <1>1, <1>3, <1>4, <1>5, <1>6 DEF Releases
  <2>2. CASE f # h.folder BY <2>2, <1>3, <1>5, <1>6
  <2>. QED BY <2>1, <2>2
<1>10. Effect(r, <<>>)
  <2>1. /\ \A p : h \notin PostsAt(p) /\ h \notin TellsAt(p)
        /\ h \notin Saves /\ \A x : h \notin Clearing(x)
    BY <1>1 DEF PostsAt, TellsAt, Saves, Clearing, Clears
  <2>. QED BY <2>1, <1>h, <1>1, <1>2, <1>9, NoCallsAre DEF Effect
<1>. QED BY <1>1, <1>2, <1>8, <1>10, NoCallsAre, CallStep

\* The key of a run that works on a checkpoint.
LEMMA KeyIs ==
  ASSUME NEW r \in Runs, JobOK(job[r]), OnCheckpoint(job[r])
  PROVE  /\ Key(r) \in Aggregates /\ Key(r) = <<job[r].action, job[r].pipeline>> /\ job[r].step \in Nat
         /\ IsPipelineMutation(r)
BY DEF Key, JobOK, OnCheckpoint, Aggregates, IsPipelineMutation

LEMMA ReadKeeps ==
  ASSUME IInv, NEW r \in Runs, ReadAggregate(r)
  PROVE  IInv'
<1>. DEFINE h == Head(script[r])
<1>1. script[r] # <<>> /\ h.op = "read" /\ Goes(r, <<>>) BY DEF ReadAggregate, Next_
<1>2. /\ asked' = asked /\ job' = job /\ pc' = pc /\ comments' = comments /\ holder' = holder /\ turns' = turns
      /\ items' = items /\ aggregate' = aggregate /\ marked' = marked
      /\ overlapped' = overlapped /\ shown' = shown /\ loose' = loose /\ faults' = faults
  BY DEF ReadAggregate, input, locks, registry, trouble
<1>3. read' = [read EXCEPT ![r] = aggregate[Key(r)]] BY DEF ReadAggregate
<1>4. JobOK(job[r]) /\ OnCheckpoint(job[r]) BY <1>1, CallIs DEF Fits
<1>5. Key(r) \in Aggregates BY <1>4, KeyIs
<1>6. aggregate \in [Aggregates -> AggregateRows] /\ read \in [Runs -> AggregateRows] BY DEF IInv, StateOK
<1>7. read' \in [Runs -> AggregateRows] BY <1>3, <1>5, <1>6
<1>. HIDE DEF h
<1>h. h = Head(script[r]) BY DEF h
<1>8. StateOK' BY <1>1, <1>2, <1>7, NoCallsAre, ScriptGoes DEF StateOK, IInv
<1>9. Effect(r, <<>>)
  <2>1. /\ \A p : h \notin PostsAt(p) /\ h \notin TellsAt(p)
        /\ h \notin Saves /\ \A x : h \notin Clearing(x)
    BY <1>1 DEF PostsAt, TellsAt, Saves, Clearing, Clears
  <2>. QED BY <2>1, <1>h, <1>1, <1>2, NoCallsAre DEF Effect
<1>. QED BY <1>1, <1>2, <1>8, <1>9, NoCallsAre, CallStep

LEMMA SaveKeeps ==
  ASSUME IInv, NEW r \in Runs, SaveAggregate(r)
  PROVE  IInv'
<1>. DEFINE h == Head(script[r])
            row == [comment |-> h.comment, rows |-> read[r].rows \union {job[r].step}]
<1>1. script[r] # <<>> /\ h.op = "save" /\ Goes(r, <<>>) BY DEF SaveAggregate, Next_
<1>2. /\ asked' = asked /\ job' = job /\ pc' = pc /\ comments' = comments /\ holder' = holder /\ turns' = turns
      /\ items' = items /\ read' = read /\ marked' = marked
      /\ shown' = shown /\ loose' = loose /\ faults' = faults
  BY DEF SaveAggregate, input, locks, registry, trouble
<1>3. /\ aggregate' = [aggregate EXCEPT ![Key(r)] = row]
      /\ overlapped' = IF aggregate[Key(r)] = read[r] THEN overlapped ELSE overlapped \union {Key(r)}
  BY DEF SaveAggregate, Merge
<1>4. h \in Calls /\ JobOK(job[r]) /\ OnCheckpoint(job[r]) BY <1>1, CallIs DEF Fits
<1>5. Key(r) \in Aggregates /\ Key(r) = <<job[r].action, job[r].pipeline>> /\ job[r].step \in Nat BY <1>4, KeyIs
<1>6. h.comment \in AggregateComments BY <1>1, <1>4, CallForms DEF SaveCalls
<1>7. aggregate \in [Aggregates -> AggregateRows] /\ read[r] \in AggregateRows BY DEF IInv, StateOK
<1>8. row \in AggregateRows /\ row.rows = read[r].rows \union {job[r].step} BY <1>5, <1>6, <1>7 DEF AggregateRows
<1>9. PICK k : k = Key(r) OBVIOUS
<1>10. PICK w : w = row OBVIOUS
<1>. HIDE DEF h, row
<1>h. h = Head(script[r]) BY DEF h
<1>11. /\ aggregate' = [aggregate EXCEPT ![k] = w] /\ w \in AggregateRows /\ w.rows = read[r].rows \union {job[r].step}
       /\ k \in Aggregates /\ overlapped' = IF aggregate[k] = read[r] THEN overlapped ELSE overlapped \union {k}
       /\ k = <<job[r].action, job[r].pipeline>>
  BY <1>3, <1>5, <1>8, <1>9, <1>10
<1>12. aggregate' \in [Aggregates -> AggregateRows] /\ overlapped' \subseteq Aggregates
  <2>1. overlapped \subseteq Aggregates BY DEF IInv, StateOK
  <2>. QED BY <2>1, <1>7, <1>11
<1>13. StateOK' BY <1>1, <1>2, <1>12, NoCallsAre, ScriptGoes DEF StateOK, IInv
<1>14. HasRow(aggregate', overlapped', k, job[r].step)
  BY <1>7, <1>11 DEF HasRow
<1>15. ASSUME NEW a \in Aggregates, NEW step \in Nat, HasRow(aggregate, overlapped, a, step)
       PROVE  HasRow(aggregate', overlapped', a, step)
  <2>1. CASE a # k
    <3>1. aggregate'[a] = aggregate[a] BY <2>1, <1>7, <1>11
    <3>. QED BY <3>1, <1>11, <1>15 DEF HasRow
  <2>2. CASE a = k /\ aggregate[k] = read[r]
    <3>1. aggregate'[a] = w BY <2>2, <1>7, <1>11
    <3>. QED BY <3>1, <2>2, <1>11, <1>15 DEF HasRow
  <2>3. CASE a = k /\ aggregate[k] # read[r] BY <2>3, <1>11 DEF HasRow
  <2>. QED BY <2>1, <2>2, <2>3
<1>16. Effect(r, <<>>)
  <2>1. /\ \A p : h \notin PostsAt(p) /\ h \notin TellsAt(p)
        /\ \A x : h \notin Clearing(x)
    BY <1>1 DEF PostsAt, TellsAt, Clearing, Clears
  <2>2. HasRow(aggregate', overlapped', <<job[r].action, job[r].pipeline>>, job[r].step) BY <1>11, <1>14
  <2>. QED BY <2>1, <2>2, <1>h, <1>1, <1>2, <1>15, NoCallsAre DEF Effect
<1>. QED BY <1>1, <1>2, <1>13, <1>16, NoCallsAre, CallStep

LEMMA RecordKeeps ==
  ASSUME IInv, NEW r \in Runs, Record(r)
  PROVE  IInv'
<1>. DEFINE h == Head(script[r])
<1>1. script[r] # <<>> /\ h.op = "record" /\ Goes(r, <<>>) BY DEF Record, Next_
<1>2. /\ asked' = asked /\ job' = job /\ pc' = pc /\ comments' = comments /\ holder' = holder /\ turns' = turns
      /\ items' = items /\ aggregate' = aggregate /\ read' = read
      /\ overlapped' = overlapped /\ shown' = shown /\ loose' = loose /\ faults' = faults
  BY DEF Record, input, locks, registry, trouble
<1>3. marked' = IF items[r].launched # <<Config>> THEN marked \union {<<Key(r), job[r].step>>} ELSE marked
  BY DEF Record
<1>4. h \in Calls /\ JobOK(job[r]) /\ OnCheckpoint(job[r]) /\ pc[r] = "rendering" /\ script[r] \in Seq(Calls)
  BY <1>1, CallIs DEF Fits
<1>5. Key(r) \in Aggregates /\ Key(r) = <<job[r].action, job[r].pipeline>> /\ job[r].step \in Nat BY <1>4, KeyIs
<1>6. h \in Records BY <1>1, <1>4 DEF Records
<1>7. HasRow(aggregate, overlapped, Key(r), job[r].step)
  <2>1. Marks(r) BY DEF IInv, EachRun
  <2>2. ~ After(script[r], Records, Saves) BY <1>1, <1>4, <1>6, AfterTail
  <2>. QED BY <2>1, <2>2, <1>4, <1>5 DEF Marks
<1>. HIDE DEF h
<1>h. h = Head(script[r]) BY DEF h
<1>8. marked' \subseteq Aggregates \X Nat
  <2>1. marked \subseteq Aggregates \X Nat BY DEF IInv, StateOK
  <2>. QED BY <2>1, <1>3, <1>5
<1>9. StateOK' BY <1>1, <1>2, <1>8, NoCallsAre, ScriptGoes DEF StateOK, IInv
<1>10. Effect(r, <<>>)
  <2>1. /\ \A p : h \notin PostsAt(p) /\ h \notin TellsAt(p)
        /\ h \notin Saves /\ \A x : h \notin Clearing(x)
    BY <1>1 DEF PostsAt, TellsAt, Saves, Clearing, Clears
  <2>. QED BY <2>1, <1>h, <1>1, <1>2, NoCallsAre DEF Effect
<1>11. MarkedCheckpointsAreShown'
  <2>. SUFFICES ASSUME NEW m \in marked' PROVE m[2] \in aggregate[m[1]].rows \/ m[1] \in overlapped
    BY <1>2 DEF MarkedCheckpointsAreShown
  <2>1. CASE m \in marked BY <2>1 DEF IInv, MarkedCheckpointsAreShown
  <2>2. CASE m \notin marked
    <3>1. m = <<Key(r), job[r].step>> BY <2>2, <1>3
    <3>. QED BY <3>1, <1>7 DEF HasRow
  <2>. QED BY <2>1, <2>2
<1>12. (\A q \in Runs : EachRun(q)') /\ CommentsFit' /\ LocksAreInTurn'
  BY <1>1, <1>9, <1>10, NoCallsAre, CallKeeps
<1>. QED BY <1>9, <1>11, <1>12 DEF IInv

LEMMA NoticeKeeps ==
  ASSUME IInv, NEW r \in Runs, Next_(r, "run"), pc[r] = "working", pc' = pc,
         NEW notice \in {<<>>, Progress(r, Head(script[r]).folder)}, Goes(r, notice),
         UNCHANGED <<input, comments, locks, items, registry, shown, trouble>>
  PROVE  IInv'
<1>. DEFINE h == Head(script[r])
<1>1. script[r] # <<>> /\ h.op = "run" BY DEF Next_
<1>2. /\ asked' = asked /\ job' = job /\ comments' = comments /\ holder' = holder /\ turns' = turns
      /\ items' = items /\ aggregate' = aggregate /\ read' = read /\ marked' = marked
      /\ overlapped' = overlapped /\ shown' = shown /\ loose' = loose /\ faults' = faults
  BY DEF input, locks, registry, trouble
<1>3. h \in Calls /\ JobOK(job[r]) /\ ItemsOK(items[r]) BY <1>1, CallIs
<1>4. h.folder \in Folders BY <1>1, <1>3, CallForms DEF RunCalls
<1>5. /\ notice \in Seq(Calls)
      /\ Avoids(notice, Misfits(r, job[r], "working")) /\ Avoids(notice, Leaves(job[r], items[r]))
      /\ \A p : Avoids(notice, PostsAt(p)) /\ Avoids(notice, Releases(p))
      /\ Avoids(notice, AskingSweeps) /\ Avoids(notice, Records)
  <2>1. CASE notice = <<>> BY <2>1, NoCallsAre
  <2>2. CASE notice = Progress(r, h.folder) BY <2>2, <1>3, <1>4, ProgressIs
  <2>. QED BY <2>1, <2>2
<1>. HIDE DEF h
<1>h. h = Head(script[r]) BY DEF h
<1>6. StateOK' BY <1>1, <1>2, <1>5, ScriptGoes DEF StateOK, IInv
<1>7. Effect(r, notice)
  <2>1. /\ \A p : h \notin PostsAt(p) /\ h \notin TellsAt(p)
        /\ h \notin Saves /\ \A x : h \notin Clearing(x)
    BY <1>1 DEF PostsAt, TellsAt, Saves, Clearing, Clears
  <2>. QED BY <2>1, <1>h, <1>1, <1>2, <1>5 DEF Effect
<1>. QED BY <1>1, <1>2, <1>5, <1>6, <1>7, CallStep

\* The comment of an aggregate that a run read is one, if it is there at all.
LEMMA ReadCommentIs ==
  ASSUME IInv, NEW r \in Runs, read[r].comment \in comments
  PROVE  /\ read[r].comment \in AggregateComments /\ read[r].comment.place = All
         /\ read[r].comment.kind = "aggregate"
<1>1. read[r] \in AggregateRows /\ comments \subseteq Comments BY DEF IInv, StateOK
<1>2. read[r].comment \in AggregateComments \union {Nobody} BY <1>1 DEF AggregateRows
<1>3. Nobody \notin comments
  <2>1. Comments \subseteq [run : Runs \union {Earlier}, kind : Kinds, type : Types \union {"plan_destroy", "failure"},
                            place : Folders \union {All, Config, Failed}, managed : BOOLEAN]
    BY DEF Comments, AllPlaces
  <2>. QED BY <2>1, <1>1, NobodyIsNoComment
<1>4. read[r].comment \in AggregateComments BY <1>2, <1>3
<1>. QED BY <1>4 DEF AggregateComments

LEMMA UpsertKeeps ==
  ASSUME IInv, NEW r \in Runs, Upsert(r)
  PROVE  IInv'
<1>. DEFINE h == Head(script[r])
            old == read[r].comment
            new == Aggregate(r)
<1>1. script[r] # <<>> /\ h.op = "upsert" BY DEF Upsert, Next_
<1>2. /\ asked' = asked /\ job' = job /\ pc' = pc /\ comments' = comments /\ holder' = holder /\ turns' = turns
      /\ items' = items /\ aggregate' = aggregate /\ read' = read /\ marked' = marked
      /\ overlapped' = overlapped /\ loose' = loose /\ faults' = faults
  BY DEF Upsert, input, locks, registry, trouble
<1>3. h \in Calls /\ JobOK(job[r]) /\ OnCheckpoint(job[r]) /\ pc[r] = "rendering" BY <1>1, CallIs DEF Fits
<1>4. shown \in [Runs -> SUBSET AllPlaces] BY DEF IInv, StateOK
<1>5. h \in TellsAt(All) /\ (\A p : p # All => h \notin TellsAt(p)) /\ (\A p : h \notin PostsAt(p))
      /\ \A x : h \notin Clearing(x)
  BY <1>1, <1>3 DEF TellsAt, PostsAt, Clearing, Clears
<1>6. All \in AllPlaces /\ All \notin Folders BY PlacesAreDistinct DEF AllPlaces
<1>. HIDE DEF h
<1>h. h = Head(script[r]) BY DEF h
<1>7. CASE old \in comments
  <2>1. Goes(r, <<Save(old)>>) /\ Shows(r, old) BY <1>7 DEF Upsert
  <2>2. old \in AggregateComments /\ old.place = All /\ old.kind = "aggregate" BY <1>7, ReadCommentIs
  <2>3. Save(old) \in Calls /\ Save(old).op = "save" BY <2>2, CallsAre DEF Save
  <2>4. PICK k \in Calls : k = Save(old) /\ k.op = "save" BY <2>3
  <2>5. PICK calls \in Seq(Calls) : calls = <<k>> /\ DOMAIN calls = {1} /\ calls[1] = k
    <3>1. <<k>> \in Seq(Calls) /\ DOMAIN <<k>> = {1} /\ <<k>>[1] = k OBVIOUS
    <3>. QED BY <3>1
  <2>6. Goes(r, calls) BY <2>1, <2>4, <2>5
  <2>7. shown' = [shown EXCEPT ![r] = shown[r] \union {All}] BY <2>1, <2>2 DEF Shows
  <2>8. shown' \in [Runs -> SUBSET AllPlaces] /\ shown'[r] = shown[r] \union {All}
        /\ \A q \in Runs \ {r} : shown'[q] = shown[q]
    BY <2>7, <1>4, <1>6
  <2>9. StateOK' BY <1>1, <1>2, <2>6, <2>8, ScriptGoes DEF StateOK, IInv
  <2>10. /\ Avoids(calls, Misfits(r, job[r], pc[r]))
         /\ \A p : Avoids(calls, CreatesAt(p)) /\ Avoids(calls, Releases(p)) /\ Avoids(calls, PostsAt(p))
         /\ Avoids(calls, AskingSweeps) /\ Avoids(calls, Records)
         /\ Meets(calls, Saves)
    BY <2>4, <2>5, <1>3 DEF Avoids, Meets, Misfits, Fits, CreatesAt, Releases, PostsAt, AskingSweeps, Records, Saves
  <2>11. Effect(r, calls) BY <2>6, <2>8, <2>10, <1>h, <1>2, <1>3, <1>5, <1>6 DEF Effect
  <2>. QED BY <1>1, <1>2, <2>9, <2>11, CallStep
<1>8. CASE old \notin comments
  <2>1. Goes(r, Replace(new) \o <<Save(new)>>) /\ shown' = shown BY <1>8 DEF Upsert
  <2>2. job[r].action \in Types /\ job[r].action \in Mutations BY <1>3 DEF OnCheckpoint, Types, Mutations
  <2>3. new \in Comments /\ new.run = r /\ new.kind = "aggregate" /\ new.type \in Types /\ new.place = All /\ new.managed
    <3>1. "aggregate" \in Kinds BY DEF Kinds
    <3>2. PICK x : x = Comment(r, "aggregate", job[r].action, All, TRUE) OBVIOUS
    <3>3. x \in Comments /\ x.run = r /\ x.kind = "aggregate" /\ x.type = job[r].action /\ x.place = All /\ x.managed
      <4>1. PICK y \in Types : y = job[r].action BY <2>2
      <4>2. PICK p \in AllPlaces : p = All BY <1>6
      <4>3. x = Comment(r, "aggregate", y, p, TRUE) BY <3>2, <4>1, <4>2
      <4>. QED BY <3>1, <4>1, <4>2, <4>3 DEF Comment, Comments
    <3>4. new = x BY <3>2 DEF Aggregate
    <3>. QED BY <3>3, <3>4, <2>2
  <2>4. new \in AggregateComments
    BY <2>2 DEF Aggregate, Comment, AggregateComments
  <2>5. PICK a \in Seq(Calls) : a = Replace(new) /\ DOMAIN a = {1, 2} /\ a[1].op = "find" /\ a[2].op = "create" /\ a[2].comment = new /\ a[1] \in Calls /\ a[2] \in Calls
    BY <2>3, ReplaceIs
  <2>6. PICK k \in Calls : k = Save(new) /\ k.op = "save"
    <3>1. Save(new) \in Calls BY <2>4, CallsAre
    <3>. QED BY <3>1 DEF Save
  <2>7. PICK b \in Seq(Calls) : b = <<k>> /\ DOMAIN b = {1} /\ b[1] = k
    <3>1. <<k>> \in Seq(Calls) /\ DOMAIN <<k>> = {1} /\ <<k>>[1] = k OBVIOUS
    <3>. QED BY <3>1
  <2>. DEFINE calls == a \o b
  <2>8. Goes(r, calls) BY <2>1, <2>5, <2>6, <2>7
  <2>. HIDE DEF calls, new
  <2>9. /\ Avoids(a, Misfits(r, job[r], pc[r]))
        /\ \A g \in Folders : Avoids(a, CreatesAt(g)) /\ Avoids(a, Releases(g)) /\ Avoids(a, PostsAt(g))
        /\ Avoids(a, AskingSweeps) /\ Avoids(a, Records)
        /\ Meets(a, TellsAt(All))
    <3>1. /\ Avoids(a, Misfits(r, job[r], pc[r]))
          /\ Avoids(a, AskingSweeps) /\ Avoids(a, Records)
      BY <2>3, <2>5, <1>3 DEF Avoids, Misfits, Fits, AskingSweeps, Records
    <3>2. \A g \in Folders : Avoids(a, CreatesAt(g)) /\ Avoids(a, Releases(g)) /\ Avoids(a, PostsAt(g))
      BY <2>3, <2>5, <1>6 DEF Avoids, CreatesAt, Releases, PostsAt
    <3>3. a[2] \in TellsAt(All) BY <2>3, <2>5 DEF TellsAt, PostsAt
    <3>. QED BY <3>1, <3>2, <3>3, <2>5 DEF Meets
  <2>10. /\ Avoids(b, Misfits(r, job[r], pc[r]))
         /\ \A p : Avoids(b, CreatesAt(p)) /\ Avoids(b, Releases(p)) /\ Avoids(b, PostsAt(p))
         /\ Avoids(b, AskingSweeps) /\ Avoids(b, Records)
         /\ Meets(b, Saves)
    BY <2>6, <2>7, <1>3 DEF Avoids, Meets, Misfits, Fits, CreatesAt, Releases, PostsAt, AskingSweeps, Records, Saves
  <2>11. calls \in Seq(Calls) BY DEF calls
  <2>12. /\ Avoids(calls, Misfits(r, job[r], pc[r]))
         /\ \A g \in Folders : Avoids(calls, CreatesAt(g)) /\ Avoids(calls, Releases(g)) /\ Avoids(calls, PostsAt(g))
         /\ Avoids(calls, AskingSweeps) /\ Avoids(calls, Records)
         /\ Meets(calls, TellsAt(All)) /\ Meets(calls, Saves)
    BY <2>9, <2>10, MeetsConcat DEF calls
  <2>13. StateOK' BY <1>1, <1>2, <2>1, <2>8, <2>11, ScriptGoes DEF StateOK, IInv
  <2>14. Effect(r, calls) BY <2>1, <2>8, <2>12, <1>h, <1>2, <1>3, <1>5 DEF Effect
  <2>. QED BY <1>1, <1>2, <2>11, <2>13, <2>14, CallStep
<1>. QED BY <1>7, <1>8

\* A comment that is still there goes.
LEMMA DeletionKeeps ==
  ASSUME IInv, NEW r \in Runs, Next_(r, "delete"), NEW c \in Head(script[r]).set, c \in comments,
         comments' = comments \ {c},
         Goes(r, IF Head(script[r]).set = {c} THEN <<>> ELSE <<[Head(script[r]) EXCEPT !.set = @ \ {c}]>>),
         UNCHANGED <<input, pc, locks, items, registry, shown, trouble>>
  PROVE  IInv'
<1>. DEFINE h == Head(script[r])
            d == [h EXCEPT !.set = @ \ {c}]
<1>1. script[r] # <<>> /\ h.op = "delete" BY DEF Next_
<1>2. /\ asked' = asked /\ job' = job /\ pc' = pc /\ holder' = holder /\ turns' = turns
      /\ items' = items /\ aggregate' = aggregate /\ read' = read /\ marked' = marked
      /\ overlapped' = overlapped /\ shown' = shown /\ loose' = loose /\ faults' = faults
  BY DEF input, locks, registry, trouble
<1>3. h \in DeleteCalls BY <1>1, CallIs, CallForms
<1>4. d = Delete(h.set \ {c}) /\ h.set \in SUBSET Deletable
  <2>1. PICK D \in SUBSET Deletable : h = [op |-> "delete", set |-> D] BY <1>3 DEF DeleteCalls
  <2>2. d = [op |-> "delete", set |-> D \ {c}] BY <2>1
  <2>3. h.set = D BY <2>1
  <2>. QED BY <2>2, <2>3 DEF Delete
<1>5. d \in Calls /\ d.op = "delete" /\ d.set = h.set \ {c}
  <2>1. Delete(h.set \ {c}) \in Calls BY <1>4, CallsAre
  <2>. QED BY <2>1, <1>4 DEF Delete
<1>6. PICK k \in Calls : k = d BY <1>5
<1>7. PICK calls : calls = IF h.set = {c} THEN <<>> ELSE <<k>> OBVIOUS
<1>8. Goes(r, calls) BY <1>6, <1>7
<1>9. k.op = "delete" /\ k.set = h.set \ {c} BY <1>5, <1>6
<1>. HIDE DEF h, d
<1>h. h = Head(script[r]) BY DEF h
<1>10. calls \in Seq(Calls) /\ \A n \in DOMAIN calls : calls[n].op \in {"find", "delete"} BY <1>7, <1>9
<1>11. h.set # {c} => Meets(calls, {k})
  <2>1. DOMAIN <<k>> = {1} /\ <<k>>[1] = k OBVIOUS
  <2>. QED BY <1>7, <2>1 DEF Meets
<1>12. \A x \in comments' : h \in Clearing(x) => Meets(calls, Clearing(x))
  <2>. SUFFICES ASSUME NEW x \in comments', h \in Clearing(x) PROVE Meets(calls, Clearing(x)) OBVIOUS
  <2>1. x \in h.set /\ x # c BY <1>1 DEF Clearing, Clears
  <2>2. k \in Clearing(x) BY <2>1, <1>9 DEF Clearing, Clears
  <2>. QED BY <2>1, <2>2, <1>11 DEF Meets
<1>13. StateOK' BY <1>1, <1>2, <1>8, <1>10, ScriptGoes DEF StateOK, IInv
<1>14. Effect(r, calls)
  <2>1. /\ \A p : h \notin PostsAt(p) /\ h \notin TellsAt(p)
        /\ h \notin Saves
    BY <1>1 DEF PostsAt, TellsAt, Saves
  <2>2. /\ \A j, state : Avoids(calls, Misfits(r, j, state))
        /\ \A j, its : Avoids(calls, Leaves(j, its))
        /\ \A p : Avoids(calls, CreatesAt(p)) /\ Avoids(calls, Releases(p)) /\ Avoids(calls, PostsAt(p))
        /\ Avoids(calls, AskingSweeps) /\ Avoids(calls, Records)
    BY <1>10, QuietCalls
  <2>. QED BY <2>1, <2>2, <1>h, <1>2, <1>8, <1>12 DEF Effect
<1>. QED BY <1>1, <1>2, <1>10, <1>13, <1>14, CallStep

(***************************************************************************)
(* Failures keep it, and the steps of the execution                        *)
(***************************************************************************)

LEMMA SelectedAvoids ==
  ASSUME NEW S, NEW s \in Seq(S), NEW X, NEW Y, Avoids(s, Y)
  PROVE  Selected(s, X) \in Seq(S) /\ Avoids(Selected(s, X), Y)
<1>1. Selected(s, X) \in Seq(S) /\ ToSet(Selected(s, X)) = ToSet(s) \intersect X BY SelectedIs
<1>. HIDE DEF Selected
<1>2. \A n \in DOMAIN Selected(s, X) : Selected(s, X)[n] \in ToSet(s) BY <1>1 DEF ToSet
<1>. QED BY <1>1, <1>2 DEF Avoids, ToSet

\* A raised call gives back at most one lock, of the run that raised.
LEMMA UnwoundIs ==
  ASSUME IInv, NEW r \in Runs, script[r] # <<>>
  PROVE  /\ Unwound(r) \in [Folders -> Runs \union {Nobody}]
         /\ \A f \in Folders : Unwound(r)[f] = holder[f] \/ (holder[f] = r /\ Unwound(r)[f] = Nobody)
         /\ pc[r] # "rendering" => Unwound(r) = holder
<1>. DEFINE X == {Release(f) : f \in Folders}
            kept == Selected(script[r], X)
            g == Head(kept).folder
<1>1. holder \in [Folders -> Runs \union {Nobody}] BY DEF IInv, StateOK
<1>2. script[r] \in Seq(Calls) BY CallIs
<1>3. kept \in Seq(Calls) /\ ToSet(kept) = ToSet(script[r]) \intersect X BY <1>2, SelectedIs
<1>. HIDE DEF kept
<1>4. ASSUME kept # <<>> PROVE g \in Folders
  <2>1. Head(kept) = kept[1] /\ 1 \in DOMAIN kept BY <1>3, <1>4, TailPlaces
  <2>2. Head(kept) \in X BY <1>3, <2>1 DEF ToSet
  <2>3. PICK f \in Folders : Head(kept) = Release(f) BY <2>2
  <2>. QED BY <2>3 DEF Release
<1>5. Unwound(r) = IF pc[r] = "rendering" /\ kept # <<>> /\ holder[g] = r THEN [holder EXCEPT ![g] = Nobody] ELSE holder
  BY DEF Unwound, kept
<1>. HIDE DEF g
<1>. QED BY <1>1, <1>4, <1>5

\* A step of a run that makes no call.
LEMMA RestKeeps ==
  ASSUME IInv, NEW r \in Runs, NEW st \in States \ {"idle", "resolving"}, NEW s \in Seq(Calls), pc[r] # "idle",
         asked' = asked, job' = job, comments' = comments, turns' = turns, items' = items, aggregate' = aggregate,
         read' = read, marked' = marked, overlapped' = overlapped, shown' = shown,
         pc' = [pc EXCEPT ![r] = st], script' = [script EXCEPT ![r] = s],
         holder' \in [Folders -> Runs \union {Nobody}],
         \A f \in Folders : holder'[f] = holder[f] \/ (holder[f] = r /\ holder'[f] = Nobody),
         loose' = loose \/ loose' = loose \union {r}, faults' \in 0..MaxTrouble,
         EachRun(r)'
  PROVE  IInv'
<1>1. StateOK /\ CommentsFit /\ LocksAreInTurn /\ MarkedCheckpointsAreShown BY DEF IInv
<1>2. /\ pc'[r] = st /\ script'[r] = s
      /\ \A q \in Runs \ {r} : pc'[q] = pc[q] /\ script'[q] = script[q]
  BY <1>1 DEF StateOK
<1>3. IsFiniteSet(loose') /\ loose' \subseteq Runs /\ loose \subseteq loose' /\ \A q \in Runs \ {r} : q \in loose' <=> q \in loose
  <2>1. IsFiniteSet(loose) /\ loose \subseteq Runs BY <1>1 DEF StateOK
  <2>2. IsFiniteSet(loose \union {r}) BY <2>1, FS_AddElement
  <2>. QED BY <2>1, <2>2
<1>4. StateOK' BY <1>1, <1>3 DEF StateOK
<1>5. Apart(r)
  <2>1. \A f \in Folders, p \in Runs, q \in Runs \ {r} : Follows(f, p, q)' => Follows(f, p, q) BY DEF Follows
  <2>2. \A k \in Aggregates, step \in Nat :
          HasRow(aggregate, overlapped, k, step) => HasRow(aggregate', overlapped', k, step)
    OBVIOUS
  <2>3. \A q \in Runs \ {r} : \A f \in Folders : holder[f] = q => holder'[f] = q OBVIOUS
  <2>. QED BY <1>2, <1>3, <2>1, <2>2, <2>3 DEF Apart
<1>6. \A q \in Runs : EachRun(q)' BY <1>5, OthersKeep
<1>7. CommentsFit'
  <2>. SUFFICES ASSUME NEW c \in comments
       PROVE  /\ c.kind \in Asking => ~ c.managed
              /\ c.run \in Runs =>
                   /\ pc'[c.run] = "idle" => c.kind = "aggregate"
                   /\ pc'[c.run] = "resolving" => c.kind \in Asking \union {"aggregate"}
                   /\ c.kind \in {"result", "summary"} /\ job[c.run].action \in Mutations => ~ c.managed
    BY DEF CommentsFit
  <2>1. c.run \in Runs => pc'[c.run] = pc[c.run] \/ pc'[c.run] = st BY <1>2
  <2>. QED BY <1>1, <2>1 DEF CommentsFit
<1>8. LocksAreInTurn'
  <2>1. \A f \in Folders : holder'[f] = holder[f] \/ holder'[f] = Nobody OBVIOUS
  <2>. QED BY <1>1, <2>1 DEF LocksAreInTurn
<1>9. MarkedCheckpointsAreShown' BY <1>1 DEF MarkedCheckpointsAreShown
<1>. QED BY <1>4, <1>6, <1>7, <1>8, <1>9 DEF IInv

\* A run stops working on its folders.
LEMMA LeaveKeeps ==
  ASSUME IInv, NEW r \in Runs, NEW st \in {"failing", "finalizing", "done", "failed"}, NEW s \in Seq(Calls), pc[r] # "idle",
         asked' = asked, job' = job, comments' = comments, turns' = turns, items' = items, aggregate' = aggregate,
         read' = read, marked' = marked, overlapped' = overlapped, shown' = shown,
         pc' = [pc EXCEPT ![r] = st], script' = [script EXCEPT ![r] = s],
         holder' \in [Folders -> Runs \union {Nobody}],
         \A f \in Folders : holder'[f] = holder[f] \/ (holder[f] = r /\ holder'[f] = Nobody),
         loose' = loose, faults' \in 0..MaxTrouble,
         st # "failing" => s = <<>>,
         st = "failing" => s = Failure(r),
         st = "done" => \A c \in comments : c.run = r => c.kind \notin {"pending", "status"}
  PROVE  IInv'
<1>1. RunOK(r) /\ Holds(r) /\ Supersedes(r) /\ Placed(r) /\ Tells(r) /\ Marks(r) /\ StateOK BY DEF IInv, EachRun
<1>2. pc'[r] = st /\ script'[r] = s BY <1>1 DEF StateOK
<1>3. Avoids(s, Misfits(r, job[r], st))
  <2>1. CASE st = "failing" BY <2>1, FailureIs
  <2>2. CASE st # "failing" BY <2>2, NoCallsAre
  <2>. QED BY <2>1, <2>2
<1>4. RunOK(r)' BY <1>1, <1>2, <1>3 DEF RunOK, Busy
<1>5. Holds(r)' BY <1>2 DEF Holds
<1>6. Supersedes(r)'
  <2>1. \A f, p : Follows(f, p, r)' <=> Follows(f, p, r) BY DEF Follows
  <2>. QED BY <1>1, <1>2, <2>1 DEF Supersedes
<1>7. Placed(r)' BY <1>2 DEF Placed
<1>8. Tells(r)'
  <2>1. st = "failing" => After(s, AskingSweeps, PostsAt(Failed)) BY FailureIs
  <2>. QED BY <1>2, <2>1 DEF Tells
<1>9. Marks(r)' BY <1>2 DEF Marks
<1>10. EachRun(r)' BY <1>4, <1>5, <1>6, <1>7, <1>8, <1>9 DEF EachRun
<1>11. st \in States \ {"idle", "resolving"} BY DEF States
<1>. QED BY <1>10, <1>11, RestKeeps

\* A run goes on with its folders.
LEMMA WorkKeeps ==
  ASSUME IInv, NEW r \in Runs, NEW st \in {"placing", "working"}, NEW s \in Seq(Calls), pc[r] \in {"placing", "working"},
         asked' = asked, job' = job, comments' = comments, turns' = turns, items' = items, aggregate' = aggregate,
         read' = read, marked' = marked, overlapped' = overlapped, shown' = shown,
         pc' = [pc EXCEPT ![r] = st], script' = [script EXCEPT ![r] = s],
         holder' = holder, loose' = loose, faults' \in 0..MaxTrouble,
         Avoids(s, Misfits(r, job[r], st)), Avoids(s, Leaves(job[r], items[r]))
  PROVE  IInv'
<1>1. RunOK(r) /\ Holds(r) /\ Supersedes(r) /\ Placed(r) /\ Tells(r) /\ Marks(r) /\ StateOK BY DEF IInv, EachRun
<1>2. pc'[r] = st /\ script'[r] = s BY <1>1 DEF StateOK
<1>4. RunOK(r)' BY <1>1, <1>2 DEF RunOK, Busy
<1>5. Holds(r)' BY <1>1, <1>2 DEF Holds
<1>6. Supersedes(r)'
  <2>1. \A f, p : Follows(f, p, r)' <=> Follows(f, p, r) BY DEF Follows
  <2>. QED BY <1>1, <1>2, <2>1 DEF Supersedes
<1>7. Placed(r)' BY <1>1, <1>2 DEF Placed
<1>8. Tells(r)' BY <1>2 DEF Tells
<1>9. Marks(r)' BY <1>2 DEF Marks
<1>10. EachRun(r)' BY <1>4, <1>5, <1>6, <1>7, <1>8, <1>9 DEF EachRun
<1>11. st \in States \ {"idle", "resolving"} /\ holder' \in [Folders -> Runs \union {Nobody}] /\ pc[r] # "idle"
  BY <1>1 DEF States, StateOK
<1>. QED BY <1>10, <1>11, RestKeeps

\* A call raises.
LEMMA RaiseKeeps ==
  ASSUME IInv, NEW r \in Runs, script[r] # <<>>, Raise(r), faults' \in 0..MaxTrouble
  PROVE  IInv'
<1>1. /\ asked' = asked /\ job' = job /\ comments' = comments /\ turns' = turns
      /\ items' = items /\ aggregate' = aggregate /\ read' = read /\ marked' = marked
      /\ overlapped' = overlapped /\ shown' = shown /\ loose' = loose /\ holder' = Unwound(r)
  BY DEF Raise, input, registry
<1>2. pc[r] \in Busy /\ script[r] \in Seq(Calls) /\ pc[r] # "idle" BY CallIs DEF Busy
<1>3. /\ holder' \in [Folders -> Runs \union {Nobody}]
      /\ \A f \in Folders : holder'[f] = holder[f] \/ (holder[f] = r /\ holder'[f] = Nobody)
      /\ pc[r] # "rendering" => holder' = holder
  BY <1>1, UnwoundIs
<1>4. CASE pc[r] = "working"
  <2>. DEFINE s == Selected(script[r], {RunFolder(f) : f \in Folders})
  <2>1. pc' = [pc EXCEPT ![r] = "working"] /\ script' = [script EXCEPT ![r] = s] BY <1>4 DEF Raise, Enter
  <2>2. Avoids(script[r], Misfits(r, job[r], "working")) /\ Avoids(script[r], Leaves(job[r], items[r]))
    BY <1>4 DEF IInv, EachRun, RunOK, Placed
  <2>3. s \in Seq(Calls) /\ Avoids(s, Misfits(r, job[r], "working")) /\ Avoids(s, Leaves(job[r], items[r]))
    BY <1>2, <2>2, SelectedAvoids
  <2>. HIDE DEF s
  <2>. QED BY <1>1, <1>3, <1>4, <2>1, <2>3, WorkKeeps
<1>5. CASE pc[r] = "placing"
  <2>1. pc' = [pc EXCEPT ![r] = "placing"] /\ script' = [script EXCEPT ![r] = <<>>] BY <1>5 DEF Raise, Enter
  <2>. QED BY <1>1, <1>3, <1>5, <2>1, NoCallsAre, WorkKeeps
<1>6. CASE pc[r] = "rendering" /\ job[r].action \in Mutations
  <2>1. pc' = [pc EXCEPT ![r] = "failing"] /\ script' = [script EXCEPT ![r] = Failure(r)] BY <1>6 DEF Raise, Enter
  <2>. QED BY <1>1, <1>2, <1>3, <2>1, FailureIs, LeaveKeeps
<1>7. CASE pc[r] = "failing" \/ (pc[r] = "rendering" /\ job[r].action \notin Mutations)
  <2>1. pc' = [pc EXCEPT ![r] = "finalizing"] /\ script' = [script EXCEPT ![r] = <<>>] BY <1>7 DEF Raise, Enter
  <2>. QED BY <1>1, <1>2, <1>3, <2>1, NoCallsAre, LeaveKeeps
<1>. QED BY <1>2, <1>4, <1>5, <1>6, <1>7 DEF Busy

LEMMA TroubleIs ==
  ASSUME IInv, faults + Cardinality(loose) < MaxTrouble
  PROVE  faults + 1 \in 0..MaxTrouble
<1>1. faults \in 0..MaxTrouble /\ IsFiniteSet(loose) BY DEF IInv, StateOK
<1>2. Cardinality(loose) \in Nat BY <1>1, FS_CardinalityType
<1>. QED BY <1>1, <1>2, TroubleIsBounded

LEMMA FaultKeeps ==
  ASSUME IInv, NEW r \in Runs, Fault(r)
  PROVE  IInv'
<1>1. faults' \in 0..MaxTrouble BY TroubleIs DEF Fault
<1>2. CASE script[r] # <<>> /\ Raise(r) BY <1>1, <1>2, RaiseKeeps
<1>3. CASE pc[r] = "resolving" /\ Enter(r, "failing", Failure(r))
           /\ UNCHANGED <<input, comments, locks, items, registry, shown, loose>>
  <2>1. /\ asked' = asked /\ job' = job /\ comments' = comments /\ turns' = turns
        /\ items' = items /\ aggregate' = aggregate /\ read' = read /\ marked' = marked
        /\ overlapped' = overlapped /\ shown' = shown /\ loose' = loose /\ holder' = holder
        /\ pc' = [pc EXCEPT ![r] = "failing"] /\ script' = [script EXCEPT ![r] = Failure(r)]
    BY <1>3 DEF input, locks, registry, Enter
  <2>2. holder' \in [Folders -> Runs \union {Nobody}] BY <2>1 DEF IInv, StateOK
  <2>3. Failure(r) \in Seq(Calls) BY FailureIs
  <2>. QED BY <1>1, <1>3, <2>1, <2>2, <2>3, LeaveKeeps
<1>. QED BY <1>2, <1>3 DEF Fault

LEMMA DeleteKeeps ==
  ASSUME IInv, NEW r \in Runs, DeleteOne(r)
  PROVE  IInv'
<1>1. Next_(r, "delete") /\ script[r] # <<>> BY DEF DeleteOne, Next_
<1>2. PICK c \in Head(script[r]).set :
        \/ /\ c \in comments /\ comments' = comments \ {c}
           /\ Goes(r, IF Head(script[r]).set = {c} THEN <<>> ELSE <<[Head(script[r]) EXCEPT !.set = @ \ {c}]>>)
           /\ UNCHANGED <<input, pc, locks, items, registry, shown, trouble>>
        \/ c \notin comments /\ Raise(r) /\ UNCHANGED faults
  BY DEF DeleteOne
<1>3. CASE c \in comments BY <1>1, <1>2, <1>3, DeletionKeeps
<1>4. CASE c \notin comments
  <2>1. faults \in 0..MaxTrouble BY DEF IInv, StateOK
  <2>. QED BY <1>1, <1>2, <1>4, <2>1, RaiseKeeps
<1>. QED BY <1>3, <1>4

LEMMA RunKeeps ==
  ASSUME IInv, NEW r \in Runs, RunOne(r)
  PROVE  IInv'
<1>1. pc[r] = "working" /\ UNCHANGED <<input, comments, locks, items, registry, shown, trouble>>
  BY DEF RunOne
<1>2. CASE /\ Next_(r, "run") /\ pc' = pc
           /\ \E notice \in {<<>>, Progress(r, Head(script[r]).folder)} : Goes(r, notice)
  BY <1>1, <1>2, NoticeKeeps
<1>3. CASE Enter(r, "failing", Failure(r))
  <2>1. /\ asked' = asked /\ job' = job /\ comments' = comments /\ turns' = turns
        /\ items' = items /\ aggregate' = aggregate /\ read' = read /\ marked' = marked
        /\ overlapped' = overlapped /\ shown' = shown /\ loose' = loose /\ holder' = holder /\ faults' = faults
        /\ pc' = [pc EXCEPT ![r] = "failing"] /\ script' = [script EXCEPT ![r] = Failure(r)]
    BY <1>1, <1>3 DEF input, locks, registry, trouble, Enter
  <2>2. holder' \in [Folders -> Runs \union {Nobody}] /\ faults' \in 0..MaxTrouble BY <2>1 DEF IInv, StateOK
  <2>3. Failure(r) \in Seq(Calls) BY FailureIs
  <2>. QED BY <1>1, <2>1, <2>2, <2>3, LeaveKeeps
<1>. QED BY <1>2, <1>3 DEF RunOne

\* The calls RenderPR starts with suit what the run has done so far.
LEMMA RenderSuits ==
  ASSUME NEW r \in Runs, JobOK(job[r]), NEW its, ItemsOK(its), NEW s, s = Render(r, its)
  PROVE  /\ s \in Seq(Calls) /\ Avoids(s, Misfits(r, job[r], "rendering"))
         /\ \A f \in Folders : f \in ToSet(its.launched) => Never(s, CreatesAt(f), Releases(f))
         /\ \A c \in Shadowed(job[r]) : After(s, PostsAt(c.place), Clearing(c))
         /\ \A c \in Comments : Clearable(job[r], its, c) => Meets(s, Clearing(c))
         /\ job[r].action \in Mutations =>
              IF OnCheckpoint(job[r]) THEN After(s, AskingSweeps, TellsAt(All))
              ELSE \A p \in ToSet(its.launched) : After(s, AskingSweeps, PostsAt(p))
         /\ OnCheckpoint(job[r]) => After(s, Records, Saves)
<1>1. OnCheckpoint(job[r]) <=> IsPipelineMutation(r) BY DEF OnCheckpoint, IsPipelineMutation
<1>2. job[r].action \in Mutations => ~ IsFocus(r, its) BY DEF IsFocus, Mutations
<1>3. \A c \in Shadowed(job[r]) : After(s, PostsAt(c.place), Clearing(c))
  <2>. TAKE c \in Shadowed(job[r])
  <2>1. After(s, CreatesAt(c.place), Clearing(c)) BY RenderIs
  <2>2. PostsAt(c.place) \subseteq CreatesAt(c.place) BY DEF PostsAt, CreatesAt
  <2>. QED BY <2>1, <2>2 DEF After
<1>4. \A c \in Comments : Clearable(job[r], its, c) => Meets(s, Clearing(c)) BY ClearableIs
<1>5. /\ s \in Seq(Calls) /\ Avoids(s, Misfits(r, job[r], "rendering"))
      /\ \A f \in Folders : f \in ToSet(its.launched) => Never(s, CreatesAt(f), Releases(f))
  BY RenderIs
<1>6. IsPipelineMutation(r) => After(s, AskingSweeps, TellsAt(All)) /\ After(s, Records, Saves) BY RenderIs
<1>7. ~ IsFocus(r, its) /\ ~ IsPipelineMutation(r) =>
        \A p \in ToSet(its.launched) : After(s, AskingSweeps, PostsAt(p))
  BY RenderIs
<1>. QED BY <1>1, <1>2, <1>3, <1>4, <1>5, <1>6, <1>7

\* The folders of a run are over and RenderPR starts.
LEMMA RenderKeeps ==
  ASSUME IInv, NEW r \in Runs, pc[r] = "working", NEW s, s = Render(r, items[r]),
         asked' = asked, job' = job, comments' = comments, turns' = turns, items' = items, aggregate' = aggregate,
         read' = read, marked' = marked, overlapped' = overlapped, shown' = shown,
         pc' = [pc EXCEPT ![r] = "rendering"], script' = [script EXCEPT ![r] = s],
         holder' = holder, loose' = loose, faults' = faults
  PROVE  IInv'
<1>1. RunOK(r) /\ Holds(r) /\ Supersedes(r) /\ Placed(r) /\ Tells(r) /\ Marks(r) /\ StateOK BY DEF IInv, EachRun
<1>2. pc'[r] = "rendering" /\ script'[r] = s BY <1>1 DEF StateOK
<1>3. JobOK(job[r]) /\ ItemsOK(items[r]) BY <1>1 DEF RunOK
<1>4. /\ s \in Seq(Calls) /\ Avoids(s, Misfits(r, job[r], "rendering"))
      /\ \A f \in Folders : f \in ToSet(items[r].launched) => Never(s, CreatesAt(f), Releases(f))
      /\ \A c \in Shadowed(job[r]) : After(s, PostsAt(c.place), Clearing(c))
      /\ \A c \in Comments : Clearable(job[r], items[r], c) => Meets(s, Clearing(c))
      /\ job[r].action \in Mutations =>
           IF OnCheckpoint(job[r]) THEN After(s, AskingSweeps, TellsAt(All))
           ELSE \A p \in ToSet(items[r].launched) : After(s, AskingSweeps, PostsAt(p))
      /\ OnCheckpoint(job[r]) => After(s, Records, Saves)
  BY <1>3, RenderSuits
<1>5. RunOK(r)' BY <1>1, <1>2, <1>4 DEF RunOK, Busy
<1>6. Holds(r)' BY <1>1, <1>2, <1>4 DEF Holds
<1>7. Supersedes(r)'
  <2>. SUFFICES ASSUME NEW f \in Folders, NEW p \in Runs \ loose, Follows(f, p, r),
                       NEW c \in comments, c.managed, c.place = f, c.run = p, c.type = TypeOf(job[r].action)
       PROVE  f \notin shown[r] /\ After(s, PostsAt(f), Clearing(c))
    BY <1>2 DEF Supersedes, Follows
  <2>1. c \in Shadowed(job[r]) BY <1>1 DEF StateOK, Shadowed
  <2>. QED BY <1>1, <1>4, <2>1 DEF Supersedes
<1>8. Placed(r)'
  <2>1. \A c \in comments : c.run = r /\ c.kind \in {"pending", "status"} => Clearable(job[r], items[r], c) /\ c \in Comments
    BY <1>1 DEF Placed, StateOK
  <2>. QED BY <1>2, <1>4, <2>1 DEF Placed
<1>9. Tells(r)' BY <1>2, <1>4 DEF Tells
<1>10. Marks(r)' BY <1>2, <1>4 DEF Marks
<1>11. EachRun(r)' BY <1>5, <1>6, <1>7, <1>8, <1>9, <1>10 DEF EachRun
<1>12. "rendering" \in States \ {"idle", "resolving"} /\ holder' \in [Folders -> Runs \union {Nobody}] /\ pc[r] # "idle"
       /\ faults' \in 0..MaxTrouble
  BY <1>1 DEF States, StateOK
<1>. QED BY <1>4, <1>11, <1>12, RestKeeps

LEMMA ProceedKeeps ==
  ASSUME IInv, NEW r \in Runs, Proceed(r)
  PROVE  IInv'
<1>1. /\ asked' = asked /\ job' = job /\ comments' = comments /\ turns' = turns
      /\ items' = items /\ aggregate' = aggregate /\ read' = read /\ marked' = marked
      /\ overlapped' = overlapped /\ shown' = shown /\ loose' = loose /\ holder' = holder /\ faults' = faults
      /\ script[r] = <<>>
  BY DEF Proceed, input, locks, registry, trouble
<1>2. RunOK(r) /\ Placed(r) /\ StateOK BY DEF IInv, EachRun
<1>3. holder' \in [Folders -> Runs \union {Nobody}] /\ faults' \in 0..MaxTrouble BY <1>1, <1>2 DEF StateOK
<1>4. CASE pc[r] = "placing"
  <2>. DEFINE runs == [i \in DOMAIN items[r].launched |-> RunFolder(items[r].launched[i])]
              s == IF job[r].action \in Mutations THEN runs ELSE <<>>
  <2>1. pc' = [pc EXCEPT ![r] = "working"] /\ script' = [script EXCEPT ![r] = s] BY <1>4 DEF Proceed, Enter
  <2>2. /\ runs \in Seq(Calls)
        /\ Avoids(runs, Misfits(r, job[r], "working")) /\ Avoids(runs, Leaves(job[r], items[r]))
    BY <1>2, <1>4, RunsAre DEF RunOK
  <2>. HIDE DEF runs
  <2>3. s \in Seq(Calls) /\ Avoids(s, Misfits(r, job[r], "working")) /\ Avoids(s, Leaves(job[r], items[r]))
    BY <2>2, NoCallsAre
  <2>. HIDE DEF s
  <2>. QED BY <1>1, <1>3, <1>4, <2>1, <2>3, WorkKeeps
<1>5. CASE pc[r] = "working"
  <2>1. pc' = [pc EXCEPT ![r] = "rendering"] /\ script' = [script EXCEPT ![r] = Render(r, items[r])]
    BY <1>5 DEF Proceed, Enter
  <2>. QED BY <1>1, <1>5, <2>1, RenderKeeps
<1>6. CASE pc[r] = "rendering"
  <2>1. pc' = [pc EXCEPT ![r] = "done"] /\ script' = [script EXCEPT ![r] = <<>>] BY <1>6 DEF Proceed, Enter
  <2>2. \A Y : ~ Meets(<<>>, Y) BY DEF Meets
  <2>3. \A c \in comments : c.run = r => c.kind \notin {"pending", "status"} BY <1>1, <1>2, <1>6, <2>2 DEF Placed
  <2>. QED BY <1>1, <1>3, <1>6, <2>1, <2>3, NoCallsAre, LeaveKeeps
<1>7. CASE pc[r] = "failing"
  <2>1. pc' = [pc EXCEPT ![r] = "finalizing"] /\ script' = [script EXCEPT ![r] = <<>>] BY <1>7 DEF Proceed, Enter
  <2>. QED BY <1>1, <1>3, <1>7, <2>1, NoCallsAre, LeaveKeeps
<1>. QED BY <1>4, <1>5, <1>6, <1>7 DEF Proceed

\* The locks of a run are given back.
LEMMA GivenBackIs ==
  ASSUME StateOK, NEW r \in Runs
  PROVE  /\ GivenBack(r) \in [Folders -> Runs \union {Nobody}]
         /\ \A f \in Folders : GivenBack(r)[f] = holder[f] \/ (holder[f] = r /\ GivenBack(r)[f] = Nobody)
BY DEF StateOK, GivenBack

LEMMA FinalizeKeeps ==
  ASSUME IInv, NEW r \in Runs, Finalize(r)
  PROVE  IInv'
<1>1. /\ asked' = asked /\ job' = job /\ comments' = comments /\ turns' = turns
      /\ items' = items /\ aggregate' = aggregate /\ read' = read /\ marked' = marked
      /\ overlapped' = overlapped /\ shown' = shown /\ loose' = loose /\ holder' = GivenBack(r) /\ faults' = faults
      /\ pc' = [pc EXCEPT ![r] = "failed"] /\ script' = [script EXCEPT ![r] = <<>>] /\ pc[r] = "finalizing"
  BY DEF Finalize, input, registry, trouble, Enter
<1>2. StateOK BY DEF IInv
<1>3. /\ holder' \in [Folders -> Runs \union {Nobody}]
      /\ \A f \in Folders : holder'[f] = holder[f] \/ (holder[f] = r /\ holder'[f] = Nobody)
  BY <1>1, <1>2, GivenBackIs
<1>4. faults' \in 0..MaxTrouble BY <1>1, <1>2 DEF StateOK
<1>. QED BY <1>1, <1>3, <1>4, NoCallsAre, LeaveKeeps

LEMMA LoosenKeeps ==
  ASSUME IInv, NEW r \in Runs, Loosen(r)
  PROVE  IInv'
<1>1. /\ asked' = asked /\ job' = job /\ comments' = comments /\ turns' = turns
      /\ items' = items /\ aggregate' = aggregate /\ read' = read /\ marked' = marked
      /\ overlapped' = overlapped /\ shown' = shown /\ loose' = loose \union {r} /\ holder' = GivenBack(r)
      /\ faults' = faults /\ pc' = pc /\ script' = script /\ pc[r] \in {"placing", "working", "rendering", "failing"}
  BY DEF Loosen, input, registry
<1>2. RunOK(r) /\ Holds(r) /\ Supersedes(r) /\ Placed(r) /\ Tells(r) /\ Marks(r) /\ StateOK BY DEF IInv, EachRun
<1>3. /\ holder' \in [Folders -> Runs \union {Nobody}]
      /\ \A f \in Folders : holder'[f] = holder[f] \/ (holder[f] = r /\ holder'[f] = Nobody)
  BY <1>1, <1>2, GivenBackIs
<1>4. pc' = [pc EXCEPT ![r] = pc[r]] /\ script' = [script EXCEPT ![r] = script[r]] BY <1>1, <1>2 DEF StateOK
<1>5. pc[r] \in States \ {"idle", "resolving"} /\ script[r] \in Seq(Calls) /\ faults' \in 0..MaxTrouble
  BY <1>1, <1>2 DEF States, StateOK
<1>6. RunOK(r)' BY <1>1, <1>2 DEF RunOK
<1>7. Holds(r)' BY <1>1, <1>2 DEF Holds
<1>8. Supersedes(r)'
  <2>1. \A f, p : Follows(f, p, r)' <=> Follows(f, p, r) BY <1>1 DEF Follows
  <2>. QED BY <1>1, <1>2, <2>1 DEF Supersedes
<1>9. Placed(r)' BY <1>1, <1>2 DEF Placed
<1>10. Tells(r)' BY <1>1, <1>2 DEF Tells
<1>11. Marks(r)' BY <1>1, <1>2 DEF Marks
<1>12. EachRun(r)' BY <1>6, <1>7, <1>8, <1>9, <1>10, <1>11 DEF EachRun
<1>13. pc[r] # "idle" BY <1>1
<1>. QED BY <1>1, <1>3, <1>4, <1>5, <1>12, <1>13, RestKeeps

(***************************************************************************)
(* A run starts, and resolves its folders                                  *)
(***************************************************************************)

\* A comment is in the vocabulary, and is no confirmation.
LEMMA StartedIs ==
  ASSUME NEW t \in Typed, Request(Parse(t)) # NoRequest,
         Request(Parse(t)).action \in Mutations => Pinned(Request(Parse(t))) # <<>>
  PROVE  Request(Parse(t)) \in Requests /\ JobOK(Request(Parse(t)))
<1>1. t \in Texts /\ Parse(t).confirm = <<>> BY TypedIsKnown
<1>2. PICK c : c = Parse(t) OBVIOUS
<1>3. PICK req : req = Request(c) OBVIOUS
<1>4. req \in [action : Verbs \union {"plan_destroy", "drift"}, mode : {"pipeline", "all", "explicit", "affected"},
               folders : Seq(Names), pipeline : Seq({"."} \union STRING), step : Nat]
  BY <1>1, <1>2, <1>3, RequestFields
<1>5. req \in Requests /\ req.action \in Actions /\ req.step \in Nat BY <1>4 DEF Requests, Actions
<1>6. OnCheckpoint(req) => req.pipeline \in DOMAIN Pipelines
  <2>. SUFFICES ASSUME OnCheckpoint(req), req.pipeline \notin DOMAIN Pipelines PROVE FALSE OBVIOUS
  <2>1. req.action \in Mutations /\ req.pipeline # <<>> BY DEF OnCheckpoint
  <2>2. Pinned(req) = <<>> BY <2>1 DEF Pinned
  <2>. QED BY <1>2, <1>3, <2>1, <2>2
<1>. QED BY <1>2, <1>3, <1>5, <1>6 DEF JobOK

LEMMA StartKeeps ==
  ASSUME IInv, NEW r \in Runs, Start(r)
  PROVE  IInv'
<1>1. RunOK(r) /\ StateOK /\ CommentsFit /\ LocksAreInTurn /\ MarkedCheckpointsAreShown BY DEF IInv, EachRun
<1>0. PICK t \in Typed : \E x :
        /\ x = Request(Parse(t)) /\ x # NoRequest /\ (x.action \in Mutations => Pinned(x) # <<>>)
        /\ job' = [job EXCEPT ![r] = x] /\ asked' = [asked EXCEPT ![r] = t]
  BY DEF Start
<1>2. PICK req :
        /\ req = Request(Parse(t)) /\ req # NoRequest /\ (req.action \in Mutations => Pinned(req) # <<>>)
        /\ job' = [job EXCEPT ![r] = req] /\ asked' = [asked EXCEPT ![r] = t]
  BY <1>0
<1>3. req \in Requests /\ JobOK(req) BY <1>2, StartedIs
<1>4. /\ pc[r] = "idle" /\ pc' = [pc EXCEPT ![r] = "resolving"]
      /\ UNCHANGED <<script, locks, items, registry, shown, trouble>>
  BY DEF Start
<1>5. /\ job'[r] = req /\ asked'[r] = t /\ pc'[r] = "resolving"
      /\ \A q \in Runs \ {r} : job'[q] = job[q] /\ asked'[q] = asked[q] /\ pc'[q] = pc[q]
  BY <1>1, <1>2, <1>4 DEF StateOK
<1>6. script' = script /\ holder' = holder /\ turns' = turns /\ items' = items /\ aggregate' = aggregate /\ read' = read
      /\ marked' = marked /\ overlapped' = overlapped /\ shown' = shown /\ loose' = loose /\ faults' = faults
  BY <1>4 DEF locks, registry, trouble
<1>7. comments \subseteq comments' /\ \A c \in comments' \ comments :
        \E kind \in Asking : c = Comment(r, kind, req.action, All, FALSE)
  <2>1. comments' = comments \union Raw(r)' BY DEF Start
  <2>2. \A c \in Raw(r)' : \E kind \in Asking : c = Comment(r, kind, req.action, All, FALSE)
    BY <1>5 DEF Raw, Asking
  <2>. QED BY <2>1, <2>2
<1>8. \A c \in comments' \ comments :
        c \in Comments /\ c.run = r /\ c.kind \in Asking /\ c.managed = FALSE
  <2>. TAKE c \in comments' \ comments
  <2>1. PICK kind \in Asking : c = Comment(r, kind, req.action, All, FALSE) BY <1>7
  <2>2. kind \in Kinds BY DEF Kinds
  <2>3. req.action \in Types \union {"plan_destroy", "failure"} BY <1>3 DEF JobOK, Actions, Types, Verbs
  <2>4. PICK no \in BOOLEAN : no = FALSE OBVIOUS
  <2>5. All \in AllPlaces BY DEF AllPlaces
  <2>6. PICK type \in Types \union {"plan_destroy", "failure"} : type = req.action BY <2>3
  <2>7. PICK d : d = Comment(r, kind, type, All, no) OBVIOUS
  <2>8. d \in Comments /\ d.run = r /\ d.kind = kind /\ d.managed = no BY <2>2, <2>4, <2>5, <2>7, CommentIs
  <2>. QED BY <2>1, <2>4, <2>6, <2>7, <2>8
<1>9. StateOK'
  <2>1. asked' \in [Runs -> Typed \union {<<>>}] /\ job' \in [Runs -> Requests] /\ pc' \in [Runs -> States]
    BY <1>1, <1>2, <1>3, <1>4 DEF StateOK, States
  <2>2. comments' \subseteq Comments BY <1>1, <1>8 DEF StateOK
  <2>. QED BY <1>1, <1>6, <2>1, <2>2 DEF StateOK
<1>10. Apart(r)
  <2>1. \A f \in Folders, p \in Runs, q \in Runs \ {r} : Follows(f, p, q)' => Follows(f, p, q) BY <1>6 DEF Follows
  <2>2. \A k \in Aggregates, step \in Nat :
          HasRow(aggregate, overlapped, k, step) => HasRow(aggregate', overlapped', k, step)
    BY <1>6
  <2>. QED BY <1>5, <1>6, <1>8, <2>1, <2>2 DEF Apart
<1>11. items[r] = NoItems /\ shown[r] = {} /\ r \notin loose /\ ToSet(items[r].launched) = {} /\ script[r] = <<>>
  <2>1. items[r] = NoItems /\ shown[r] = {} /\ r \notin loose /\ script[r] = <<>> BY <1>1, <1>4 DEF RunOK, Busy
  <2>2. items[r].launched = <<>> BY <2>1 DEF NoItems
  <2>. QED BY <2>1, <2>2 DEF ToSet
<1>12. EachRun(r)'
  <2>1. RunOK(r)'
    <3>1. Avoids(script[r], Misfits(r, req, "resolving")) BY <1>11, NoCallsAre
    <3>. QED BY <1>1, <1>2, <1>3, <1>5, <1>6, <1>11, <3>1 DEF RunOK, Busy
  <2>2. Holds(r)' BY <1>6, <1>11 DEF Holds
  <2>3. Supersedes(r)'
    <3>1. \A f \in Folders, p \in Runs : ~ Follows(f, p, r)
      <4>. SUFFICES ASSUME NEW f \in Folders, NEW p \in Runs, Follows(f, p, r) PROVE FALSE OBVIOUS
      <4>1. r \in ToSet(turns[f]) BY <1>1, FollowedIs
      <4>. QED BY <1>1, <1>11, <4>1 DEF LocksAreInTurn
    <3>2. \A f \in Folders, p \in Runs : ~ Follows(f, p, r)' BY <1>6, <3>1 DEF Follows
    <3>. QED BY <1>6, <3>2 DEF Supersedes
  <2>4. Placed(r)' BY <1>5 DEF Placed
  <2>5. Tells(r)' BY <1>5 DEF Tells
  <2>6. Marks(r)' BY <1>5 DEF Marks
  <2>. QED BY <2>1, <2>2, <2>3, <2>4, <2>5, <2>6 DEF EachRun
<1>13. CommentsFit'
  <2>. SUFFICES ASSUME NEW c \in comments'
       PROVE  /\ c.kind \in Asking => ~ c.managed
              /\ c.run \in Runs =>
                   /\ pc'[c.run] = "idle" => c.kind = "aggregate"
                   /\ pc'[c.run] = "resolving" => c.kind \in Asking \union {"aggregate"}
                   /\ c.kind \in {"result", "summary"} /\ job'[c.run].action \in Mutations => ~ c.managed
    BY DEF CommentsFit
  <2>1. CASE c \in comments
    <3>1. c.run = r => c.kind = "aggregate" BY <1>1, <1>4, <2>1 DEF CommentsFit
    <3>2. c.run \in Runs /\ c.run # r => pc'[c.run] = pc[c.run] /\ job'[c.run] = job[c.run] BY <1>5
    <3>. QED BY <1>1, <1>5, <2>1, <3>1, <3>2 DEF CommentsFit
  <2>2. CASE c \notin comments
    <3>1. c.run = r /\ c.kind \in Asking /\ ~ c.managed BY <1>8, <2>2
    <3>. QED BY <1>5, <3>1 DEF Asking
  <2>. QED BY <2>1, <2>2
<1>14. LocksAreInTurn' BY <1>1, <1>6 DEF LocksAreInTurn
<1>15. MarkedCheckpointsAreShown' BY <1>1, <1>6 DEF MarkedCheckpointsAreShown
<1>16. \A q \in Runs : EachRun(q)' BY <1>10, <1>12, OthersKeep
<1>. QED BY <1>9, <1>13, <1>14, <1>15, <1>16 DEF IInv

LEMMA SeqsShrink ==
  ASSUME NEW S, NEW T, NEW s \in Seq(S), ToSet(s) \subseteq T
  PROVE  s \in Seq(T)
<1>1. \A i \in DOMAIN s : s[i] \in T BY DEF ToSet
<1>. QED BY <1>1

\* The folders a run resolves.
ResolvedEvent(r) == IF job[r].action \in Mutations THEN Confirmation(job[r]) ELSE Event(job[r])

LEMMA ResolvedAre ==
  ASSUME IInv, NEW r \in Runs, pc[r] = "resolving", NEW folders, folders = FlattenSeq(Steps(ResolvedEvent(r)))
  PROVE  /\ folders \in Seq(Folders) /\ IsInjective(folders)
         /\ folders # <<>> => ToSet(folders) = Named(Parse(asked[r]))
<1>1. asked[r] \in Typed /\ job[r] = Request(Parse(asked[r])) /\ job[r] # NoRequest BY DEF IInv, EachRun, RunOK
<1>2. asked[r] \in Texts /\ Parse(asked[r]).confirm = <<>> BY <1>1, TypedIsKnown
<1>3. PICK c : c = Parse(asked[r]) OBVIOUS
<1>4. job[r].action \in Mutations <=> c.action \in Mutations BY <1>1, <1>2, <1>3, RequestFields
<1>5. /\ c.action \in Mutations => Asked(Steps(Confirmation(Request(c))), c)
      /\ c.action \notin Mutations => Asked(Steps(Event(Request(c))), c)
  BY <1>1, <1>2, <1>3, CommandAsked
<1>6. Asked(Steps(ResolvedEvent(r)), c)
  <2>1. CASE c.action \in Mutations
    <3>1. ResolvedEvent(r) = Confirmation(Request(c)) BY <1>1, <1>3, <1>4, <2>1 DEF ResolvedEvent
    <3>. QED BY <1>5, <2>1, <3>1
  <2>2. CASE c.action \notin Mutations
    <3>1. ResolvedEvent(r) = Event(Request(c)) BY <1>1, <1>3, <1>4, <2>2 DEF ResolvedEvent
    <3>. QED BY <1>5, <2>2, <3>1
  <2>. QED BY <2>1, <2>2
<1>7. PICK set : set = IF Named(c) \subseteq ToSet(Configured) THEN Named(c) ELSE {} OBVIOUS
<1>8. folders \in Seq(Names) /\ IsInjective(folders) /\ ToSet(folders) = set
  BY <1>6, <1>7 DEF Asked, AreAsked
<1>9. set \subseteq Folders BY <1>7 DEF Folders
<1>10. folders \in Seq(Folders) BY <1>8, <1>9, SeqsShrink
<1>11. folders # <<>> => ToSet(folders) # {}
  <2>. SUFFICES ASSUME folders # <<>> PROVE ToSet(folders) # {} OBVIOUS
  <2>1. 1 \in DOMAIN folders BY <1>10
  <2>. QED BY <2>1 DEF ToSet
<1>12. set # {} => set = Named(c) BY <1>7
<1>. QED BY <1>3, <1>8, <1>10, <1>11, <1>12

\* What is launched of them, and what is skipped.
Resolved(r, its) ==
  /\ its \in Items /\ its # NoItems /\ ItemsOK(its) /\ WorksOnNamed(its, asked[r])
  /\ \A f \in Folders : f \in ToSet(its.launched) => holder[f] = Nobody
  /\ its.launched # <<Config>> => its.launched \in Seq(Folders)

LEMMA ConfigIs == <<Config>> \in Seq(Folders \union {Config}) /\ IsInjective(<<Config>>) /\ ToSet(<<Config>>) = {Config}
<1>1. <<Config>> \in Seq(Folders \union {Config}) OBVIOUS
<1>2. DOMAIN <<Config>> = {1} /\ <<Config>>[1] = Config OBVIOUS
<1>. QED BY <1>1, <1>2 DEF IsInjective, ToSet

LEMMA UnresolvedIs ==
  ASSUME StateOK, NEW r \in Runs, NEW its, its = [launched |-> <<Config>>, skipped |-> <<>>]
  PROVE  Resolved(r, its)
<1>1. its.launched = <<Config>> /\ its.skipped = <<>> OBVIOUS
<1>2. <<>> \in Seq(Folders) /\ ToSet(<<>>) = {} BY DEF ToSet
<1>3. its \in Items
  <2>1. PICK l \in Seq(Folders \union {Config}), s \in Seq(Folders) : l = <<Config>> /\ s = <<>> BY <1>2, ConfigIs
  <2>2. [launched |-> l, skipped |-> s] \in Items BY DEF Items
  <2>. QED BY <2>1, <2>2
<1>4. its # NoItems
  <2>1. NoItems.launched = <<>> BY DEF NoItems
  <2>2. <<Config>> # <<>> OBVIOUS
  <2>. QED BY <1>1, <2>1, <2>2
<1>5. ItemsOK(its) BY <1>1, <1>2, ConfigIs DEF ItemsOK
<1>6. WorksOnNamed(its, asked[r]) BY <1>1, ConfigIs DEF WorksOnNamed
<1>7. \A f \in Folders : f \notin ToSet(its.launched) BY <1>1, ConfigIs, PlacesAreDistinct
<1>. QED BY <1>1, <1>3, <1>4, <1>5, <1>6, <1>7 DEF Resolved

LEMMA SharedOutIs ==
  ASSUME StateOK, NEW r \in Runs, NEW folders \in Seq(Folders), IsInjective(folders), folders # <<>>,
         ToSet(folders) = Named(Parse(asked[r])), NEW its,
         its = [launched |-> Selected(folders, {f \in Folders : holder[f] = Nobody}),
                skipped |-> Selected(folders, {f \in Folders : ~ holder[f] = Nobody})]
  PROVE  Resolved(r, its)
<1>1. PICK Free : Free = {f \in Folders : holder[f] = Nobody} OBVIOUS
<1>2. PICK Taken : Taken = {f \in Folders : ~ holder[f] = Nobody} OBVIOUS
<1>3. PICK l \in Seq(Folders) : /\ l = Selected(folders, Free) /\ ToSet(l) = ToSet(folders) \intersect Free
                                /\ IsInjective(l)
  BY SelectedIs
<1>4. PICK s \in Seq(Folders) : s = Selected(folders, Taken) /\ ToSet(s) = ToSet(folders) \intersect Taken
  BY SelectedIs
<1>5. its = [launched |-> l, skipped |-> s] BY <1>1, <1>2, <1>3, <1>4
<1>6. its.launched = l /\ its.skipped = s BY <1>5
<1>7. its \in Items
  <2>1. l \in Seq(Folders \union {Config}) BY SeqsGrow
  <2>. QED BY <1>5, <2>1 DEF Items
<1>8. ToSet(folders) \subseteq Folders BY DEF ToSet
<1>9. ToSet(l \o s) = ToSet(folders)
  <2>1. ToSet(l \o s) = ToSet(l) \union ToSet(s)
    <3>1. PICK x \in Seq(Folders) : x = l \o s BY ConcatPlaces
    <3>2. \A n \in DOMAIN l : n \in DOMAIN x /\ x[n] = l[n] BY <3>1, ConcatPlaces
    <3>3. \A n \in DOMAIN s : Len(l) + n \in DOMAIN x /\ x[Len(l) + n] = s[n] BY <3>1, ConcatPlaces
    <3>4. \A n \in DOMAIN x : n \in DOMAIN l \/ (n - Len(l) \in DOMAIN s /\ x[n] = s[n - Len(l)])
      BY <3>1, ConcatPlaces
    <3>5. \A f \in ToSet(l) \union ToSet(s) : f \in ToSet(x) BY <3>2, <3>3 DEF ToSet
    <3>6. \A f \in ToSet(x) : f \in ToSet(l) \union ToSet(s)
      <4>. TAKE f \in ToSet(x)
      <4>1. PICK n \in DOMAIN x : x[n] = f BY DEF ToSet
      <4>2. (\E m \in DOMAIN l : l[m] = f) \/ \E k \in DOMAIN s : s[k] = f
        <5>1. CASE n \in DOMAIN l BY <3>2, <4>1, <5>1
        <5>2. CASE n \notin DOMAIN l BY <3>4, <4>1, <5>2
        <5>. QED BY <5>1, <5>2
      <4>. QED BY <4>2 DEF ToSet
    <3>. QED BY <3>1, <3>5, <3>6
  <2>2. ToSet(l) \union ToSet(s) = ToSet(folders) BY <1>1, <1>2, <1>3, <1>4, <1>8
  <2>. QED BY <2>1, <2>2
<1>10. its # NoItems
  <2>. SUFFICES ASSUME its = NoItems PROVE FALSE OBVIOUS
  <2>1. l = <<>> /\ s = <<>> BY <1>6 DEF NoItems
  <2>2. ToSet(<<>>) = {} BY DEF ToSet
  <2>3. ToSet(folders) = {} BY <1>1, <1>2, <1>3, <1>4, <1>8, <2>1, <2>2
  <2>4. folders[1] \in ToSet(folders)
    <3>1. 1 \in DOMAIN folders OBVIOUS
    <3>. QED BY <3>1 DEF ToSet
  <2>. QED BY <2>3, <2>4
<1>11. ItemsOK(its)
  <2>1. ToSet(l) \intersect ToSet(s) = {} BY <1>1, <1>2, <1>3, <1>4
  <2>. QED BY <1>3, <1>6, <2>1 DEF ItemsOK
<1>12. WorksOnNamed(its, asked[r]) BY <1>6, <1>9 DEF WorksOnNamed
<1>13. \A f \in Folders : f \in ToSet(its.launched) => holder[f] = Nobody BY <1>1, <1>3, <1>6
<1>. QED BY <1>6, <1>7, <1>10, <1>11, <1>12, <1>13 DEF Resolved

LEMMA AppendIs ==
  ASSUME NEW S, NEW s \in Seq(S), NEW x \in S
  PROVE  /\ Append(s, x) \in Seq(S) /\ Len(Append(s, x)) = Len(s) + 1 /\ Append(s, x)[Len(s) + 1] = x
         /\ \A n \in DOMAIN s : n \in DOMAIN Append(s, x) /\ Append(s, x)[n] = s[n]
         /\ \A n \in DOMAIN Append(s, x) : n \in DOMAIN s \/ n = Len(s) + 1
         /\ ToSet(Append(s, x)) = ToSet(s) \union {x}
         /\ IsInjective(s) /\ x \notin ToSet(s) => IsInjective(Append(s, x))
<1>1. PICK n \in Nat : n = Len(s) /\ DOMAIN s = 1..n OBVIOUS
<1>2. PICK t \in Seq(S) : t = Append(s, x) /\ Len(t) = n + 1 /\ t[n + 1] = x /\ DOMAIN t = 1..(n + 1)
  <2>1. Append(s, x) \in Seq(S) /\ Len(Append(s, x)) = n + 1 /\ Append(s, x)[n + 1] = x BY <1>1
  <2>2. PICK t \in Seq(S) : t = Append(s, x) BY <2>1
  <2>3. Len(t) = n + 1 /\ t[n + 1] = x BY <2>1, <2>2
  <2>4. DOMAIN t = 1..(n + 1) BY <2>3
  <2>. QED BY <2>2, <2>3, <2>4
<1>3. \A k \in 1..n : t[k] = s[k] BY <1>1, <1>2
<1>4. \A k \in 1..(n + 1) : k \in 1..n \/ k = n + 1 BY <1>1
<1>5. \A k \in 1..n : k \in 1..(n + 1) /\ k # n + 1 BY <1>1
<1>6. n + 1 \in 1..(n + 1) BY <1>1
<1>7. \A y : y \in ToSet(t) <=> y \in ToSet(s) \/ y = x
  <2>1. ASSUME NEW y \in ToSet(t) PROVE y \in ToSet(s) \/ y = x
    <3>1. PICK k \in 1..(n + 1) : t[k] = y BY <1>2 DEF ToSet
    <3>2. CASE k \in 1..n BY <1>1, <1>3, <3>1, <3>2 DEF ToSet
    <3>3. CASE k = n + 1 BY <1>2, <3>1, <3>3
    <3>. QED BY <1>4, <3>2, <3>3
  <2>2. ASSUME NEW y \in ToSet(s) PROVE y \in ToSet(t)
    <3>1. PICK k \in 1..n : s[k] = y BY <1>1 DEF ToSet
    <3>. QED BY <1>2, <1>3, <1>5, <3>1 DEF ToSet
  <2>3. x \in ToSet(t) BY <1>2, <1>6 DEF ToSet
  <2>. QED BY <2>1, <2>2, <2>3
<1>8. ASSUME IsInjective(s), x \notin ToSet(s) PROVE IsInjective(t)
  <2>1. \A k \in 1..n : s[k] # x BY <1>1, <1>8 DEF ToSet
  <2>2. \A k, m \in 1..n : s[k] = s[m] => k = m BY <1>1, <1>8 DEF IsInjective
  <2>3. \A k, m \in 1..(n + 1) : t[k] = t[m] => k = m BY <1>2, <1>3, <1>4, <2>1, <2>2
  <2>. QED BY <1>2, <2>3 DEF IsInjective
<1>9. ToSet(t) = ToSet(s) \union {x} BY <1>7
<1>. QED BY <1>1, <1>2, <1>3, <1>4, <1>5, <1>8, <1>9

\* A run that resolved its folders has their locks, and starts to show them.
LEMMA ResolvedKeeps ==
  ASSUME IInv, NEW r \in Runs, pc[r] = "resolving", NEW its, Resolved(r, its),
         NEW st \in {"placing", "rendering"}, NEW s,
         st = "placing" => its.launched # <<Config>> /\ s = Placeholders(r, its),
         st = "rendering" => its.launched = <<Config>> /\ s = Render(r, its),
         asked' = asked, job' = job, comments' = comments, aggregate' = aggregate, read' = read, marked' = marked,
         overlapped' = overlapped, shown' = shown, loose' = loose, faults' = faults,
         pc' = [pc EXCEPT ![r] = st], script' = [script EXCEPT ![r] = s], items' = [items EXCEPT ![r] = its],
         holder' = [f \in Folders |-> IF f \in ToSet(its.launched) THEN r ELSE holder[f]],
         turns' = [f \in Folders |-> IF f \in ToSet(its.launched) THEN Append(turns[f], r) ELSE turns[f]]
  PROVE  IInv'
<1>1. RunOK(r) /\ Supersedes(r) /\ StateOK /\ CommentsFit /\ LocksAreInTurn /\ MarkedCheckpointsAreShown
  BY DEF IInv, EachRun
<1>2. /\ pc'[r] = st /\ script'[r] = s /\ items'[r] = its
      /\ \A q \in Runs \ {r} : pc'[q] = pc[q] /\ script'[q] = script[q] /\ items'[q] = items[q]
  BY <1>1 DEF StateOK
<1>3. JobOK(job[r]) /\ ItemsOK(its) /\ its \in Items /\ its # NoItems /\ WorksOnNamed(its, asked[r])
  BY <1>1 DEF RunOK, Resolved
<1>4. items[r] = NoItems /\ shown[r] = {} /\ r \notin loose /\ ToSet(items[r].launched) = {}
  <2>1. items[r] = NoItems /\ shown[r] = {} /\ r \notin loose BY <1>1 DEF RunOK
  <2>2. items[r].launched = <<>> BY <2>1 DEF NoItems
  <2>. QED BY <2>1, <2>2 DEF ToSet
<1>5. \A f \in Folders : f \in ToSet(its.launched) => holder[f] = Nobody BY DEF Resolved
<1>6. s \in Seq(Calls) /\ Avoids(s, Misfits(r, job[r], st))
  <2>1. CASE st = "placing" BY <1>3, <2>1, PlaceholdersAre
  <2>2. CASE st = "rendering" BY <1>3, <2>2, RenderSuits
  <2>. QED BY <2>1, <2>2
<1>7. \A f \in Folders : r \notin ToSet(turns[f]) BY <1>1, <1>4 DEF LocksAreInTurn
<1>8. ASSUME NEW f \in Folders
      PROVE  /\ turns[f] \in Seq(Runs) /\ IsInjective(turns[f]) /\ turns'[f] \in Seq(Runs) /\ IsInjective(turns'[f])
             /\ \A n \in DOMAIN turns'[f] : turns'[f][n] # r => n \in DOMAIN turns[f] /\ turns'[f][n] = turns[f][n]
             /\ f \in ToSet(its.launched) => /\ turns'[f] # <<>> /\ turns'[f][Len(turns'[f])] = r
                                             /\ ToSet(turns'[f]) = ToSet(turns[f]) \union {r}
             /\ f \notin ToSet(its.launched) => turns'[f] = turns[f]
             /\ holder'[f] = IF f \in ToSet(its.launched) THEN r ELSE holder[f]
  <2>1. turns[f] \in Seq(Runs) /\ IsInjective(turns[f]) BY <1>1 DEF StateOK, LocksAreInTurn
  <2>2. PICK t \in Seq(Runs) : t = turns[f] BY <2>1
  <2>3. CASE f \in ToSet(its.launched)
    <3>1. PICK u \in Seq(Runs) : u = Append(t, r) BY AppendIs
    <3>2. turns'[f] = u /\ holder'[f] = r BY <2>2, <2>3, <3>1
    <3>3. Len(u) = Len(t) + 1 /\ u[Len(t) + 1] = r BY <3>1, AppendIs
    <3>4. \A n \in DOMAIN t : u[n] = t[n] BY <3>1, AppendIs
    <3>5. \A n \in DOMAIN u : n \in DOMAIN t \/ n = Len(t) + 1 BY <3>1, AppendIs
    <3>6. ToSet(u) = ToSet(t) \union {r} BY <3>1, AppendIs
    <3>7. IsInjective(u) BY <1>7, <2>1, <2>2, <3>1, AppendIs
    <3>8. u # <<>> /\ u[Len(u)] = r BY <3>3
    <3>9. \A n \in DOMAIN u : u[n] # r => n \in DOMAIN t /\ u[n] = t[n] BY <3>3, <3>4, <3>5
    <3>. QED BY <2>1, <2>2, <2>3, <3>2, <3>6, <3>7, <3>8, <3>9
  <2>4. CASE f \notin ToSet(its.launched) BY <2>1, <2>4
  <2>. QED BY <2>3, <2>4
<1>9. \A f \in Folders, p \in Runs, q \in Runs \ {r} : Follows(f, p, q)' => Follows(f, p, q)
  <2>. SUFFICES ASSUME NEW f \in Folders, NEW p \in Runs, NEW q \in Runs \ {r}, Follows(f, p, q)'
                PROVE  Follows(f, p, q)
    OBVIOUS
  <2>1. PICK i \in DOMAIN turns'[f], j \in DOMAIN turns'[f] : i < j /\ turns'[f][i] = p /\ turns'[f][j] = q
    BY DEF Follows
  <2>2. j \in DOMAIN turns[f] /\ turns[f][j] = q BY <1>8, <2>1
  <2>3. i \in DOMAIN turns[f]
    <3>1. PICK t \in Seq(Runs) : t = turns[f] BY <1>8
    <3>2. PICK u \in Seq(Runs) : u = turns'[f] BY <1>8
    <3>. QED BY <2>1, <2>2, <3>1, <3>2
  <2>4. turns[f][i] = p
    <3>1. CASE turns'[f][i] # r BY <1>8, <2>1, <3>1
    <3>2. CASE turns'[f][i] = r
      <4>1. f \in ToSet(its.launched) => turns'[f] = Append(turns[f], r) BY <1>8
      <4>2. turns'[f][i] = turns[f][i]
        <5>1. CASE f \in ToSet(its.launched)
          <6>1. PICK t \in Seq(Runs) : t = turns[f] BY <1>8
          <6>2. Append(t, r)[i] = t[i] BY <2>3, <6>1, AppendIs
          <6>. QED BY <4>1, <5>1, <6>1, <6>2
        <5>2. CASE f \notin ToSet(its.launched) BY <1>8, <5>2
        <5>. QED BY <5>1, <5>2
      <4>. QED BY <2>1, <4>2
    <3>. QED BY <3>1, <3>2
  <2>. QED BY <2>1, <2>2, <2>3, <2>4 DEF Follows
<1>10. Apart(r)
  <2>1. \A q \in Runs \ {r} : \A f \in Folders : holder[f] = q => holder'[f] = q
    <3>. TAKE q \in Runs \ {r}
    <3>. TAKE f \in Folders
    <3>1. q # Nobody BY NobodyIsNoRun
    <3>. QED BY <1>5, <1>8, <3>1
  <2>2. \A k \in Aggregates, step \in Nat :
          HasRow(aggregate, overlapped, k, step) => HasRow(aggregate', overlapped', k, step)
    OBVIOUS
  <2>. QED BY <1>2, <1>9, <2>1, <2>2 DEF Apart
<1>11. StateOK'
  <2>1. pc' \in [Runs -> States] /\ script' \in [Runs -> Seq(Calls)] /\ items' \in [Runs -> Items]
    BY <1>1, <1>3, <1>6 DEF StateOK, States
  <2>2. holder' \in [Folders -> Runs \union {Nobody}] BY <1>1 DEF StateOK
  <2>3. turns' \in [Folders -> Seq(Runs)]
    <3>1. \A f \in Folders : turns'[f] \in Seq(Runs) BY <1>8
    <3>. QED BY <3>1
  <2>. QED BY <1>1, <2>1, <2>2, <2>3 DEF StateOK
<1>12. CommentsFit'
  <2>. SUFFICES ASSUME NEW c \in comments
       PROVE  /\ c.kind \in Asking => ~ c.managed
              /\ c.run \in Runs =>
                   /\ pc'[c.run] = "idle" => c.kind = "aggregate"
                   /\ pc'[c.run] = "resolving" => c.kind \in Asking \union {"aggregate"}
                   /\ c.kind \in {"result", "summary"} /\ job[c.run].action \in Mutations => ~ c.managed
    BY DEF CommentsFit
  <2>1. c.run \in Runs => pc'[c.run] = pc[c.run] \/ pc'[c.run] = st BY <1>2
  <2>. QED BY <1>1, <2>1 DEF CommentsFit
<1>13. LocksAreInTurn'
  <2>. SUFFICES ASSUME NEW f \in Folders
       PROVE  /\ IsInjective(turns'[f])
              /\ holder'[f] # Nobody => turns'[f] # <<>> /\ holder'[f] = turns'[f][Len(turns'[f])]
              /\ \A p \in Runs : p \in ToSet(turns'[f]) <=> f \in ToSet(items'[p].launched)
    BY DEF LocksAreInTurn
  <2>1. holder[f] # Nobody => turns[f] # <<>> /\ holder[f] = turns[f][Len(turns[f])] BY <1>1 DEF LocksAreInTurn
  <2>2. \A p \in Runs : p \in ToSet(turns[f]) <=> f \in ToSet(items[p].launched) BY <1>1 DEF LocksAreInTurn
  <2>3. CASE f \in ToSet(its.launched)
    <3>0. ToSet(turns'[f]) = ToSet(turns[f]) \union {r} BY <1>8, <2>3
    <3>1. \A p \in Runs : p \in ToSet(turns'[f]) <=> p \in ToSet(turns[f]) \/ p = r BY <3>0
    <3>2. \A p \in Runs : p # r => items'[p] = items[p] BY <1>2
    <3>3. \A p \in Runs : p \in ToSet(turns'[f]) <=> f \in ToSet(items'[p].launched)
      BY <1>2, <2>2, <2>3, <3>1, <3>2
    <3>. QED BY <1>8, <2>3, <3>3
  <2>4. CASE f \notin ToSet(its.launched)
    <3>1. turns'[f] = turns[f] /\ holder'[f] = holder[f] BY <1>8, <2>4
    <3>2. \A p \in Runs : p # r => items'[p] = items[p] BY <1>2
    <3>3. \A p \in Runs : p \in ToSet(turns'[f]) <=> f \in ToSet(items'[p].launched)
      BY <1>2, <1>7, <2>2, <2>4, <3>1, <3>2
    <3>. QED BY <1>8, <2>1, <3>1, <3>3
  <2>. QED BY <2>3, <2>4
<1>14. MarkedCheckpointsAreShown' BY <1>1 DEF MarkedCheckpointsAreShown
<1>15. RunOK(r)' BY <1>1, <1>2, <1>3, <1>4, <1>6 DEF RunOK, Busy
<1>16. Holds(r)'
  <2>. SUFFICES ASSUME NEW f \in Folders, f \in ToSet(its.launched)
       PROVE  holder'[f] = r /\ (st = "rendering" => Never(s, CreatesAt(f), Releases(f)))
    BY <1>2 DEF Holds
  <2>1. st = "rendering" => Never(s, CreatesAt(f), Releases(f)) BY <1>3, RenderSuits
  <2>. QED BY <1>8, <2>1
<1>17. Supersedes(r)'
  <2>. SUFFICES ASSUME NEW f \in Folders, NEW c \in comments, c.managed, c.place = f, c.type = TypeOf(job[r].action)
       PROVE  f \notin shown[r] /\ (st = "rendering" => After(s, PostsAt(f), Clearing(c)))
    BY <1>2 DEF Supersedes
  <2>1. c \in Shadowed(job[r]) BY <1>1 DEF StateOK, Shadowed
  <2>2. st = "rendering" => After(s, PostsAt(f), Clearing(c)) BY <1>3, <2>1, RenderSuits
  <2>. QED BY <1>4, <2>2
<1>18. Placed(r)'
  <2>1. \A c \in comments : c.run = r => c.kind \notin {"pending", "status"}
    <3>1. \A c \in comments : c.run = r => c.kind \in Asking \union {"aggregate"} BY <1>1 DEF CommentsFit
    <3>. QED BY <3>1 DEF Asking
  <2>2. st = "placing" => Avoids(s, Leaves(job[r], its)) BY <1>3, PlaceholdersAre
  <2>. QED BY <1>2, <2>1, <2>2 DEF Placed
<1>19. Tells(r)'
  <2>1. st = "rendering" /\ job[r].action \in Mutations =>
           IF OnCheckpoint(job[r]) THEN After(s, AskingSweeps, TellsAt(All))
           ELSE \A p \in ToSet(its.launched) : After(s, AskingSweeps, PostsAt(p))
    BY <1>3, RenderSuits
  <2>. QED BY <1>2, <2>1 DEF Tells
<1>20. Marks(r)'
  <2>1. st = "rendering" /\ OnCheckpoint(job[r]) => After(s, Records, Saves) BY <1>3, RenderSuits
  <2>. QED BY <1>2, <2>1 DEF Marks
<1>21. EachRun(r)' BY <1>15, <1>16, <1>17, <1>18, <1>19, <1>20 DEF EachRun
<1>22. \A q \in Runs : EachRun(q)' BY <1>10, <1>21, OthersKeep
<1>. QED BY <1>11, <1>12, <1>13, <1>14, <1>22 DEF IInv

LEMMA ResolveKeeps == ASSUME IInv, NEW r \in Runs, Resolve(r) PROVE IInv'
<1>1. StateOK /\ pc[r] = "resolving" BY DEF IInv, Resolve
<1>2. PICK folders : folders = FlattenSeq(Steps(ResolvedEvent(r))) OBVIOUS
<1>3. /\ folders \in Seq(Folders) /\ IsInjective(folders)
      /\ folders # <<>> => ToSet(folders) = Named(Parse(asked[r]))
  BY <1>1, <1>2, ResolvedAre
<1>. DEFINE all == FlattenSeq(Steps(IF job[r].action \in Mutations THEN Confirmation(job[r]) ELSE Event(job[r])))
            free == Selected(all, {f \in Folders : holder[f] = Nobody})
            held == Selected(all, {f \in Folders : ~ (holder[f] = Nobody)})
            none == all = <<>> \/ (free # all /\ ~ (job[r].pipeline = <<>> /\ job[r].action \notin Mutations))
            it == IF none THEN [launched |-> <<Config>>, skipped |-> <<>>]
                          ELSE [launched |-> free, skipped |-> held]
<1>4. /\ items' = [items EXCEPT ![r] = it]
      /\ holder' = [f \in Folders |-> IF f \in ToSet(it.launched) \intersect Folders THEN r ELSE holder[f]]
      /\ turns' = [f \in Folders |-> IF f \in ToSet(it.launched) \intersect Folders THEN Append(turns[f], r) ELSE turns[f]]
      /\ IF it.launched = <<Config>> THEN Enter(r, "rendering", Render(r, it))
                                     ELSE Enter(r, "placing", Placeholders(r, it))
  BY Zenon DEF Resolve
<1>5. /\ folders = all
      /\ \/ it = [launched |-> <<Config>>, skipped |-> <<>>]
         \/ folders # <<>> /\ it = [launched |-> Selected(folders, {f \in Folders : holder[f] = Nobody}),
                                    skipped |-> Selected(folders, {f \in Folders : ~ holder[f] = Nobody})]
  <2>1. folders = all BY <1>2 DEF ResolvedEvent
  <2>2. CASE none BY <2>2, <2>1
  <2>3. CASE ~ none
    <3>1. all # <<>> BY <2>3
    <3>2. it = [launched |-> free, skipped |-> held] BY <2>3
    <3>. QED BY <2>1, <3>1, <3>2
  <2>. QED BY <2>2, <2>3, <2>1
<1>0. PICK its : its = it OBVIOUS
<1>. HIDE DEF it
<1>6. Resolved(r, its)
  <2>1. CASE its = [launched |-> <<Config>>, skipped |-> <<>>] BY <1>1, <2>1, UnresolvedIs
  <2>2. CASE folders # <<>> /\ its = [launched |-> Selected(folders, {f \in Folders : holder[f] = Nobody}),
                                     skipped |-> Selected(folders, {f \in Folders : ~ holder[f] = Nobody})]
    BY <1>1, <1>3, <2>2, SharedOutIs
  <2>. QED BY <1>0, <1>5, <2>1, <2>2
<1>7. holder' = [f \in Folders |-> IF f \in ToSet(its.launched) THEN r ELSE holder[f]] BY <1>0, <1>4
<1>8. turns' = [f \in Folders |-> IF f \in ToSet(its.launched) THEN Append(turns[f], r) ELSE turns[f]] BY <1>0, <1>4
<1>9. /\ asked' = asked /\ job' = job /\ comments' = comments /\ aggregate' = aggregate /\ read' = read
      /\ marked' = marked /\ overlapped' = overlapped /\ shown' = shown /\ loose' = loose /\ faults' = faults
  BY DEF Resolve, input, registry, trouble
<1>10. CASE its.launched = <<Config>>
  <2>1. pc' = [pc EXCEPT ![r] = "rendering"] /\ script' = [script EXCEPT ![r] = Render(r, its)]
    BY <1>0, <1>4, <1>10 DEF Enter
  <2>2. items' = [items EXCEPT ![r] = its] BY <1>0, <1>4
  <2>3. PICK s : s = Render(r, its) OBVIOUS
  <2>4. PICK st : st = "rendering" OBVIOUS
  <2>5. st \in {"placing", "rendering"} BY <2>4
  <2>6. st = "placing" => its.launched # <<Config>> /\ s = Placeholders(r, its) BY <1>10, <2>3, <2>4
  <2>7. st = "rendering" => its.launched = <<Config>> /\ s = Render(r, its) BY <1>10, <2>3, <2>4
  <2>8. pc' = [pc EXCEPT ![r] = st] /\ script' = [script EXCEPT ![r] = s] BY <2>1, <2>3, <2>4
  <2>. QED BY <1>1, <1>6, <1>7, <1>8, <1>9, <2>2, <2>5, <2>6, <2>7, <2>8, ResolvedKeeps
<1>11. CASE its.launched # <<Config>>
  <2>1. pc' = [pc EXCEPT ![r] = "placing"] /\ script' = [script EXCEPT ![r] = Placeholders(r, its)]
    BY <1>0, <1>4, <1>11 DEF Enter
  <2>2. items' = [items EXCEPT ![r] = its] BY <1>0, <1>4
  <2>3. PICK s : s = Placeholders(r, its) OBVIOUS
  <2>4. PICK st : st = "placing" OBVIOUS
  <2>5. st \in {"placing", "rendering"} BY <2>4
  <2>6. st = "placing" => its.launched # <<Config>> /\ s = Placeholders(r, its) BY <1>11, <2>3, <2>4
  <2>7. st = "rendering" => its.launched = <<Config>> /\ s = Render(r, its) BY <1>11, <2>3, <2>4
  <2>8. pc' = [pc EXCEPT ![r] = st] /\ script' = [script EXCEPT ![r] = s] BY <2>1, <2>3, <2>4
  <2>. QED BY <1>1, <1>6, <1>7, <1>8, <1>9, <2>2, <2>5, <2>6, <2>7, <2>8, ResolvedKeeps
<1>. QED BY <1>10, <1>11

(***************************************************************************)
(* The theorems                                                            *)
(***************************************************************************)

LEMMA InitIs == Init => IInv
<1>. SUFFICES ASSUME Init PROVE IInv OBVIOUS
<1>a. <<>> \in Seq(Calls) /\ <<>> \in Seq(Runs) OBVIOUS
<1>1. PICK empty \in Seq(Calls) : empty = <<>> BY <1>a
<1>b. PICK e \in Seq(Runs) : e = <<>> BY <1>a
<1>. USE DEF Init
<1>2. DOMAIN <<>> = {} /\ ToSet(<<>>) = {} BY DEF ToSet
<1>3. /\ NoItems \in Items /\ NoItems.launched = <<>> /\ NoItems.skipped = <<>> /\ ItemsOK(NoItems)
  <2>1. NoItems \in Items /\ NoItems.launched = <<>> /\ NoItems.skipped = <<>> BY DEF NoItems, Items
  <2>2. <<>> \in Seq(Folders) /\ IsInjective(<<>>) BY <1>2 DEF IsInjective
  <2>. QED BY <1>2, <2>1, <2>2 DEF ItemsOK
<1>4. NoRequest \in Requests BY DEF NoRequest, Requests
<1>5. NoAggregate \in AggregateRows BY DEF NoAggregate, AggregateRows
<1>6. ASSUME NEW k \in Begun
      PROVE  /\ EarlierComment(k) \in AggregateComments /\ EarlierComment(k) \in Comments
             /\ EarlierComment(k).kind = "aggregate" /\ EarlierAggregate(k) \in AggregateRows
             /\ EarlierAggregate(k).rows = {1} /\ k \in Aggregates
  <2>1. k[1] \in Mutations /\ k \in Aggregates BY BegunIsKnown DEF Aggregates
  <2>2. PICK yes \in BOOLEAN : yes = TRUE OBVIOUS
  <2>3. PICK m \in Mutations : m = k[1] BY <2>1
  <2>4. m \in Types /\ "aggregate" \in Kinds /\ All \in AllPlaces BY DEF Types, Mutations, Kinds, AllPlaces
  <2>5. PICK c : c = Comment(Earlier, "aggregate", m, All, yes) OBVIOUS
  <2>6. c = EarlierComment(k) BY <2>2, <2>3, <2>5 DEF EarlierComment
  <2>7. c \in Comments /\ c \in AggregateComments /\ c.kind = "aggregate"
    BY <2>2, <2>4, <2>5 DEF Comment, Comments, AggregateComments
  <2>8. EarlierAggregate(k) \in AggregateRows /\ EarlierAggregate(k).rows = {1}
    BY <2>6, <2>7 DEF EarlierAggregate, AggregateRows
  <2>. QED BY <2>1, <2>6, <2>7, <2>8
<1>7. /\ StateOK
  <2>1. asked \in [Runs -> Typed \union {<<>>}] /\ job \in [Runs -> Requests] /\ pc \in [Runs -> States]
    BY <1>4 DEF States
  <2>2. script \in [Runs -> Seq(Calls)] BY <1>1
  <2>3. comments \subseteq Comments BY <1>6
  <2>4. holder \in [Folders -> Runs \union {Nobody}] OBVIOUS
  <2>5. turns \in [Folders -> Seq(Runs)] BY <1>b
  <2>6. items \in [Runs -> Items] /\ read \in [Runs -> AggregateRows] BY <1>3, <1>5
  <2>7. aggregate \in [Aggregates -> AggregateRows] BY <1>5, <1>6
  <2>8. marked \subseteq Aggregates \X Nat /\ overlapped \subseteq Aggregates BY <1>6
  <2>9. shown \in [Runs -> SUBSET AllPlaces] OBVIOUS
  <2>10. loose \subseteq Runs /\ IsFiniteSet(loose) BY FS_EmptySet
  <2>11. faults \in 0..MaxTrouble BY TroubleIsBounded
  <2>. QED BY <2>1, <2>2, <2>3, <2>4, <2>5, <2>6, <2>7, <2>8, <2>9, <2>10, <2>11 DEF StateOK
<1>8. \A c \in comments : c.kind = "aggregate" BY <1>6
<1>9. CommentsFit BY <1>8 DEF CommentsFit, Asking
<1>10. LocksAreInTurn
  <2>1. \A f \in Folders : turns[f] = <<>> /\ holder[f] = Nobody OBVIOUS
  <2>2. \A p \in Runs : items[p].launched = <<>> BY <1>3
  <2>3. IsInjective(<<>>) BY <1>2 DEF IsInjective
  <2>. QED BY <1>2, <2>1, <2>2, <2>3 DEF LocksAreInTurn
<1>11. MarkedCheckpointsAreShown
  <2>1. \A k \in Begun : aggregate[k].rows = {1} BY <1>6
  <2>2. \A m \in marked : m[1] \in Begun /\ m[2] = 1 OBVIOUS
  <2>. QED BY <2>1, <2>2 DEF MarkedCheckpointsAreShown
<1>12. ASSUME NEW r \in Runs PROVE EachRun(r)
  <2>1. /\ asked[r] = <<>> /\ pc[r] = "idle" /\ script[r] = <<>> /\ items[r] = NoItems /\ shown[r] = {}
        /\ r \notin loose
    OBVIOUS
  <2>2. RunOK(r)
    <3>1. Avoids(script[r], Misfits(r, job[r], pc[r])) BY <1>2, <2>1 DEF Avoids
    <3>. QED BY <1>3, <2>1, <3>1 DEF RunOK, Busy
  <2>3. Holds(r) BY <1>2, <1>3, <2>1 DEF Holds
  <2>4. Supersedes(r)
    <3>1. \A f \in Folders : \A p : ~ Follows(f, p, r) BY <1>2 DEF Follows
    <3>. QED BY <3>1 DEF Supersedes
  <2>5. Placed(r) BY <1>8, <2>1 DEF Placed
  <2>6. Tells(r) /\ Marks(r) BY <2>1 DEF Tells, Marks
  <2>. QED BY <2>2, <2>3, <2>4, <2>5, <2>6 DEF EachRun
<1>. QED BY <1>7, <1>9, <1>10, <1>11, <1>12 DEF IInv

LEMMA StutterKeeps == IInv /\ UNCHANGED vars => IInv'
<1>. SUFFICES ASSUME IInv, UNCHANGED vars PROVE IInv' OBVIOUS
<1>1. /\ asked' = asked /\ job' = job /\ pc' = pc /\ script' = script /\ comments' = comments
      /\ holder' = holder /\ turns' = turns /\ items' = items /\ aggregate' = aggregate /\ read' = read
      /\ marked' = marked /\ overlapped' = overlapped /\ shown' = shown /\ loose' = loose /\ faults' = faults
  BY DEF vars, input, locks, registry, trouble
<1>2. StateOK' BY <1>1 DEF IInv, StateOK
<1>3. CommentsFit' /\ LocksAreInTurn' /\ MarkedCheckpointsAreShown'
  BY <1>1 DEF IInv, CommentsFit, LocksAreInTurn, MarkedCheckpointsAreShown
<1>4. ASSUME NEW r \in Runs PROVE EachRun(r)'
  <2>. EachRun(r) BY DEF IInv
  <2>1. RunOK(r)' BY <1>1 DEF EachRun, RunOK
  <2>2. Holds(r)' BY <1>1 DEF EachRun, Holds
  <2>3. Supersedes(r)' BY <1>1 DEF EachRun, Supersedes, Follows
  <2>4. Placed(r)' BY <1>1 DEF EachRun, Placed
  <2>5. Tells(r)' /\ Marks(r)' BY <1>1 DEF EachRun, Tells, Marks, HasRow
  <2>. QED BY <2>1, <2>2, <2>3, <2>4, <2>5 DEF EachRun
<1>. QED BY <1>2, <1>3, <1>4 DEF IInv

LEMMA ReconfirmKeeps ==
  ASSUME IInv, NEW r \in Runs, Reconfirm(r)
  PROVE  IInv'
<1>1. /\ asked' = asked /\ job' = job /\ pc' = pc /\ script' = script /\ holder' = holder /\ turns' = turns
      /\ items' = items /\ aggregate' = aggregate /\ read' = read /\ marked' = marked
      /\ overlapped' = overlapped /\ shown' = shown /\ loose' = loose
  BY DEF Reconfirm, input, locks, registry
<1>2. faults' \in 0..MaxTrouble BY TroubleIs DEF Reconfirm
<1>3. comments' \subseteq comments BY DEF Reconfirm
<1>4. StateOK' BY <1>1, <1>2, <1>3 DEF IInv, StateOK
<1>5. CommentsFit' BY <1>1, <1>3 DEF IInv, CommentsFit
<1>6. LocksAreInTurn' /\ MarkedCheckpointsAreShown' BY <1>1 DEF IInv, LocksAreInTurn, MarkedCheckpointsAreShown
<1>7. ASSUME NEW q \in Runs PROVE EachRun(q)'
  <2>. EachRun(q) BY DEF IInv
  <2>1. RunOK(q)' BY <1>1 DEF EachRun, RunOK
  <2>2. Holds(q)' BY <1>1 DEF EachRun, Holds
  <2>3. Supersedes(q)' BY <1>1, <1>3 DEF EachRun, Supersedes, Follows
  <2>4. Placed(q)' BY <1>1, <1>3 DEF EachRun, Placed
  <2>5. Tells(q)' /\ Marks(q)' BY <1>1 DEF EachRun, Tells, Marks, HasRow
  <2>. QED BY <2>1, <2>2, <2>3, <2>4, <2>5 DEF EachRun
<1>. QED BY <1>4, <1>5, <1>6, <1>7 DEF IInv

LEMMA StepKeeps == IInv /\ [Next]_vars => IInv'
<1>. SUFFICES ASSUME IInv, [Next]_vars PROVE IInv' OBVIOUS
<1>1. CASE UNCHANGED vars BY <1>1, StutterKeeps
<1>2. CASE Next
  <2>1. PICK r \in Runs :
          \/ Start(r) \/ Resolve(r) \/ Proceed(r) \/ Finalize(r) \/ Loosen(r) \/ Fault(r)
          \/ Find(r) \/ DeleteOne(r) \/ SweepOwn(r) \/ CreateOne(r) \/ ReleaseFolder(r) \/ RunOne(r)
          \/ ReadAggregate(r) \/ Upsert(r) \/ SaveAggregate(r) \/ Record(r) \/ Reconfirm(r)
    BY <1>2 DEF Next
  <2>2. CASE Start(r) BY <2>2, StartKeeps
  <2>3. CASE Resolve(r) BY <2>3, ResolveKeeps
  <2>4. CASE Proceed(r) BY <2>4, ProceedKeeps
  <2>5. CASE Finalize(r) BY <2>5, FinalizeKeeps
  <2>6. CASE Loosen(r) BY <2>6, LoosenKeeps
  <2>7. CASE Fault(r) BY <2>7, FaultKeeps
  <2>8. CASE Find(r) BY <2>8, FindKeeps
  <2>9. CASE DeleteOne(r) BY <2>9, DeleteKeeps
  <2>10. CASE SweepOwn(r) BY <2>10, SweepKeeps
  <2>11. CASE CreateOne(r) BY <2>11, CreateKeeps
  <2>12. CASE ReleaseFolder(r) BY <2>12, ReleaseKeeps
  <2>13. CASE RunOne(r) BY <2>13, RunKeeps
  <2>14. CASE ReadAggregate(r) BY <2>14, ReadKeeps
  <2>15. CASE Upsert(r) BY <2>15, UpsertKeeps
  <2>16. CASE SaveAggregate(r) BY <2>16, SaveKeeps
  <2>17. CASE Record(r) BY <2>17, RecordKeeps
  <2>18. CASE Reconfirm(r) BY <2>18, ReconfirmKeeps
  <2>. QED BY <2>1, <2>2, <2>3, <2>4, <2>5, <2>6, <2>7, <2>8, <2>9, <2>10, <2>11, <2>12, <2>13, <2>14,
              <2>15, <2>16, <2>17, <2>18
<1>. QED BY <1>1, <1>2

LEMMA Inductive == Spec => []IInv
<1>. QED BY InitIs, StepKeeps, PTL DEF Spec

\* The variables keep their types: whatever runs write at once, a comment
\* that carries a marker has one of the types comment_type_for_action allows,
\* and no run gets the lock of a folder twice.
THEOREM TypeCorrect == Spec => []TypeOK
<1>1. IInv => TypeOK
  <2>. SUFFICES ASSUME IInv PROVE TypeOK OBVIOUS
  <2>. StateOK BY DEF IInv
  <2>1. ASSUME NEW r \in Runs
        PROVE  /\ pc[r] \in States /\ (pc[r] # "idle" => job[r].action \in Actions)
               /\ ToSet(items[r].launched) \subseteq Folders \union {Config}
               /\ ToSet(items[r].skipped) \subseteq Folders
               /\ shown[r] \subseteq AllPlaces
    <3>1. RunOK(r) BY DEF IInv, EachRun
    <3>2. pc[r] \in States /\ shown[r] \subseteq AllPlaces BY DEF StateOK
    <3>3. pc[r] # "idle" => job[r].action \in Actions BY <3>1 DEF RunOK, JobOK
    <3>4. items[r].launched \in Seq(Folders \union {Config}) /\ items[r].skipped \in Seq(Folders)
      BY DEF StateOK, Items
    <3>5. ToSet(items[r].launched) \subseteq Folders \union {Config} BY <3>4 DEF ToSet
    <3>6. ToSet(items[r].skipped) \subseteq Folders BY <3>4 DEF ToSet
    <3>. QED BY <3>2, <3>3, <3>5, <3>6
  <2>2. \A c \in comments : /\ c.run \in Runs \union {Earlier} /\ c.kind \in Kinds /\ c.place \in AllPlaces
                            /\ c.managed => c.type \in Types
    BY DEF StateOK, Comments
  <2>3. \A f \in Folders : holder[f] \in Runs \union {Nobody} /\ IsInjective(turns[f])
    BY DEF StateOK, IInv, LocksAreInTurn
  <2>4. \A k \in Aggregates : aggregate[k].comment \in {Nobody} \union AggregateComments
    BY DEF StateOK, AggregateRows
  <2>5. loose \subseteq Runs /\ faults \in 0..MaxTrouble BY DEF StateOK
  <2>. QED BY <2>1, <2>2, <2>3, <2>4, <2>5 DEF TypeOK, States, Actions, AllPlaces, AggregateComments
<1>. QED BY <1>1, Inductive, PTL

\* The grammar of the comments: parse_command and its helpers take a comment
\* for a command only when it spells that command, and none of its spellings
\* is refused; so the comment that started a run spells what the run does.
THEOREM CommandsAreUnderstood == Spec => []ParseInvertsSpelling
<1>1. IInv => ParseInvertsSpelling
  <2>. SUFFICES ASSUME IInv, NEW r \in Runs, asked[r] # <<>> PROVE asked[r] \in Spellings(Parse(asked[r]))
    BY MisreadNone, RefusedNone DEF ParseInvertsSpelling
  <2>1. RunOK(r) BY DEF IInv, EachRun
  <2>2. asked[r] \in Typed /\ Request(Parse(asked[r])) # NoRequest BY <2>1 DEF RunOK
  <2>3. asked[r] \in Texts /\ Parse(asked[r]).confirm = <<>> BY <2>2, TypedIsKnown
  <2>4. PICK c : c = Parse(asked[r]) OBVIOUS
  <2>5. c # Rejected BY <2>2, <2>3, <2>4, CommandAsked
  <2>. QED BY <2>3, <2>4, <2>5, MisreadNone DEF NothingMisread
<1>. QED BY <1>1, Inductive, PTL

\* Every command of the grammar resolves to the folders its comment names, each
\* once and in the order of its pipeline, and a confirmed one to those of the
\* request it confirms; so each run works on what its comment names, whatever
\* the folders, the pipelines and the changed files of the pull request are
\* (github_run_request, confirm_handler, resolve_outer_state).
THEOREM NamedFoldersRun == Spec => []RunsNamedFolders
<1>1. IInv => RunsNamedFolders
  <2>. SUFFICES ASSUME IInv, NEW r \in Runs, items[r] # NoItems, Config \notin ToSet(items[r].launched)
                PROVE  ToSet(items[r].launched \o items[r].skipped) = Named(Parse(asked[r]))
    BY ReadsAsked, ConfirmedAsked DEF RunsNamedFolders
  <2>1. WorksOnNamed(items[r], asked[r]) BY DEF IInv, EachRun, RunOK
  <2>. QED BY <2>1 DEF WorksOnNamed
<1>. QED BY <1>1, Inductive, PTL

\* A run whose RenderPR returned has left no placeholder and no progress
\* notice, whatever the other runs delete and post in between.
THEOREM PendingIsCleared == Spec => []NothingPendingAfterRender
<1>1. IInv => NothingPendingAfterRender
  <2>. SUFFICES ASSUME IInv, NEW r \in Runs, pc[r] = "done", NEW c \in comments, c.run = r,
                       c.kind \in {"pending", "status"}
                PROVE  FALSE
    BY DEF NothingPendingAfterRender
  <2>1. Placed(r) BY DEF IInv, EachRun
  <2>. QED BY <2>1 DEF Placed
<1>. QED BY <1>1, Inductive, PTL

\* The result a run shows at a folder replaces what the runs before it left
\* there: the order of the locks is the order of the comments.
THEOREM NewestCommentStays == Spec => []NewestFolderComment
<1>1. IInv => NewestFolderComment
  <2>. SUFFICES ASSUME IInv, NEW f \in Folders, NEW i \in DOMAIN turns[f], NEW j \in DOMAIN turns[f], i < j,
                       f \in shown[turns[f][j]], turns[f][i] \notin loose, NEW c \in comments,
                       c.managed, c.place = f, c.run = turns[f][i], c.type = TypeOf(job[turns[f][j]].action)
                PROVE  FALSE
    BY DEF NewestFolderComment
  <2>1. turns[f] \in Seq(Runs) BY DEF IInv, StateOK
  <2>2. PICK p \in Runs \ loose : p = turns[f][i] BY <2>1
  <2>3. PICK q \in Runs : q = turns[f][j] BY <2>1
  <2>4. Follows(f, p, q) BY <2>2, <2>3 DEF Follows
  <2>5. Supersedes(q) BY DEF IInv, EachRun
  <2>. QED BY <2>2, <2>3, <2>4, <2>5 DEF Supersedes
<1>. QED BY <1>1, Inductive, PTL

\* A step the registry marks as done has its row in the aggregate of its
\* pipeline, unless a run saved over rows it had not read: RenderPR records
\* the step only after it saved the row.
THEOREM MarksAreShown == Spec => []MarkedCheckpointsAreShown
<1>1. IInv => MarkedCheckpointsAreShown BY DEF IInv
<1>. QED BY <1>1, Inductive, PTL

\* The comments that go with a step of a run.
LEMMA SweptAre ==
  ASSUME IInv, NEW r \in Runs, SweepOwn(r), NEW c \in comments, c \notin comments', c.run \in Runs,
         job[c.run].action \in Mutations
  PROVE  c.kind \notin {"result", "summary"} /\ (c.kind \in Asking => IsTold(c.run))
<1>. DEFINE h == Head(script[r])
<1>1. script[r] # <<>> /\ h.op = "sweep" BY DEF SweepOwn, Next_
<1>2. c.run = r /\ c.kind \in h.kinds /\ ~ c.managed
  <2>1. comments' = {x \in comments : ~ (x.run = r /\ x.kind \in h.kinds /\ ~ x.managed)} BY DEF SweepOwn
  <2>. QED BY <2>1
<1>3. h \in Calls /\ h \in SweepCalls BY <1>1, CallIs, CallForms
<1>4. h.kinds \subseteq Asking \union {"status"} BY <1>3 DEF SweepCalls
<1>5. StateOK /\ RunOK(r) /\ Tells(r) BY DEF IInv, EachRun
<1>6. ASSUME c.kind \in Asking PROVE IsTold(r)
  <2>1. h \in AskingSweeps BY <1>1, <1>2, <1>3, <1>6 DEF AskingSweeps
  <2>2. script[r] \in Seq(Calls) BY <1>5 DEF StateOK
  <2>3. \A Y : ~ After(script[r], AskingSweeps, Y) BY <1>1, <2>1, <2>2, AfterTail
  <2>4. Fits(r, job[r], pc[r], h)
    <3>1. h \notin Misfits(r, job[r], pc[r]) BY <1>1, <1>5, <2>2, MeetsTail DEF RunOK
    <3>. QED BY <1>3, <3>1 DEF Misfits
  <2>5. pc[r] \in {"rendering", "failing"} BY <1>1, <1>2, <2>4 DEF Fits
  <2>6. CASE pc[r] = "failing"
    <3>1. Failed \in shown[r] BY <1>2, <1>5, <2>3, <2>6 DEF Tells
    <3>. QED BY <3>1 DEF IsTold
  <2>7. CASE pc[r] = "rendering"
    <3>1. items[r] # NoItems BY <1>5, <2>7 DEF RunOK
    <3>2. CASE OnCheckpoint(job[r])
      <4>1. All \in shown[r] BY <1>2, <1>5, <2>3, <2>7, <3>2 DEF Tells
      <4>. QED BY <3>2, <4>1 DEF IsTold, IsPipelineMutation, OnCheckpoint
    <3>3. CASE ~ OnCheckpoint(job[r])
      <4>1. \A p \in ToSet(items[r].launched) : p \in shown[r] BY <1>2, <1>5, <2>3, <2>7, <3>3 DEF Tells
      <4>. QED BY <3>1, <3>3, <4>1 DEF IsTold, IsPipelineMutation, OnCheckpoint
    <3>. QED BY <3>2, <3>3
  <2>. QED BY <2>5, <2>6, <2>7
<1>. QED BY <1>2, <1>4, <1>6 DEF Asking

LEMMA DeletedAre ==
  ASSUME IInv, NEW r \in Runs, DeleteOne(r), NEW c \in comments, c \notin comments', c.run \in Runs,
         job[c.run].action \in Mutations
  PROVE  c.kind \notin {"result", "summary"} /\ c.kind \notin Asking
<1>1. script[r] # <<>> /\ Head(script[r]).op = "delete" BY DEF DeleteOne, Next_
<1>2. PICK x \in Head(script[r]).set : comments' = comments \ {x} \/ comments' = comments BY DEF DeleteOne, Raise
<1>3. x = c BY <1>2
<1>4. Head(script[r]) \in DeleteCalls BY <1>1, CallIs, CallForms
<1>5. c \in Deletable BY <1>2, <1>3, <1>4 DEF DeleteCalls
<1>6. CommentsFit BY DEF IInv
<1>. QED BY <1>5, <1>6 DEF Deletable, CommentsFit, Asking

\* A refused confirmation takes the intent and the request, never the
\* confirmation that was accepted.
LEMMA RefusedAre ==
  ASSUME NEW r \in Runs, Reconfirm(r), NEW c \in comments, c \notin comments'
  PROVE  c.run = r /\ c.kind \in {"intent", "request"}
BY DEF Reconfirm

\* No step of any run, in any interleaving, takes the result or the summary of
\* an apply or a destroy away; the comment that confirmed it goes only after
\* its outcome was shown, and its request and its intent only then or when its
\* spent token is confirmed again.
THEOREM HistoryStays == Spec => MutationHistoryStays
<1>. DEFINE Kept ==
       \A c \in comments \ comments' :
         c.run \in Runs /\ job[c.run].action \in Mutations =>
           /\ c.kind \notin {"result", "summary"}
           /\ c.kind \in Asking => \/ IsTold(c.run)
                                   \/ c.kind # "confirm" /\ Reconfirm(c.run)
<1>1. IInv /\ [Next]_vars => [Kept]_vars
  <2>. SUFFICES ASSUME IInv, Next, NEW c \in comments \ comments', c.run \in Runs, job[c.run].action \in Mutations
                PROVE  /\ c.kind \notin {"result", "summary"}
                       /\ c.kind \in Asking => IsTold(c.run) \/ (c.kind # "confirm" /\ Reconfirm(c.run))
    OBVIOUS
  <2>1. PICK r \in Runs :
          \/ Start(r) \/ Resolve(r) \/ Proceed(r) \/ Finalize(r) \/ Loosen(r) \/ Fault(r)
          \/ Find(r) \/ DeleteOne(r) \/ SweepOwn(r) \/ CreateOne(r) \/ ReleaseFolder(r) \/ RunOne(r)
          \/ ReadAggregate(r) \/ Upsert(r) \/ SaveAggregate(r) \/ Record(r) \/ Reconfirm(r)
    BY DEF Next
  <2>2. CASE SweepOwn(r) BY <2>2, SweptAre
  <2>3. CASE DeleteOne(r) BY <2>3, DeletedAre
  <2>4. CASE Reconfirm(r) BY <2>4, RefusedAre
  <2>5. CASE ~ SweepOwn(r) /\ ~ DeleteOne(r) /\ ~ Reconfirm(r)
    <3>1. Start(r) => c \in comments' BY DEF Start
    <3>2. CreateOne(r) => c \in comments' BY DEF CreateOne
    <3>3. Fault(r) => comments' = comments BY DEF Fault, Raise
    <3>4. Resolve(r) \/ Proceed(r) \/ Finalize(r) \/ Loosen(r) => comments' = comments
      BY DEF Resolve, Proceed, Finalize, Loosen
    <3>5. Find(r) \/ ReleaseFolder(r) \/ RunOne(r) \/ ReadAggregate(r) => comments' = comments
      BY DEF Find, ReleaseFolder, RunOne, ReadAggregate
    <3>6. Upsert(r) \/ SaveAggregate(r) \/ Record(r) => comments' = comments
      BY DEF Upsert, SaveAggregate, Record
    <3>. QED BY <2>1, <2>5, <3>1, <3>2, <3>3, <3>4, <3>5, <3>6
  <2>. QED BY <2>2, <2>3, <2>4, <2>5
<1>. QED BY <1>1, Inductive, PTL DEF Spec, MutationHistoryStays

=============================================================================
