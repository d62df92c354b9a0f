------------------------ MODULE ScopedRunnerProofs ------------------------
(***************************************************************************)
(* Theorems about PageTasks and ScopedRunner, for any number of slots,     *)
(* attempts, products and chunks, any listing, and any pages a kind may    *)
(* show.                                                                   *)
(*                                                                         *)
(* The invariant has a part for the pages and one for the runner.  The     *)
(* first says how far an execution has come with the page it has read      *)
(* (HeldInv), what was reported of every page (ReadInv), what the chunks   *)
(* of a continuation wait for and have found (StreamInv), that the rows of *)
(* a rank list are those that its pages showed, in the order of the list   *)
(* (RankInv), and why an item was given up (EndInv).  The second says that *)
(* what the runner has read of a job that is over stays true, and that it  *)
(* has found all that follows from the jobs it knows but what others       *)
(* completed meanwhile.                                                    *)
(***************************************************************************)
EXTENDS ScopedRunner, FiniteSetTheorems, TLAPS
-----------------------------------------------------------------------------
(* Numbers and sequences *)

\* A set of naturals has a least member: T is the set of the numbers below all of S, and
\* counting T shows that it ends where S begins.
LEMMA Least ==
  ASSUME NEW S \in SUBSET Nat, NEW w \in S
  PROVE  \E m \in S : \A x \in S : m <= x
  <1> DEFINE T == {k \in 0 .. w : \A x \in S : k < x}
             c == Cardinality(T)
  <1>1. IsFiniteSet(0 .. w) /\ T \in SUBSET (0 .. w)
    <2>1. 0 \in Int /\ w \in Int
      OBVIOUS
    <2> QED
      BY <2>1, FS_Interval
  <1>2. IsFiniteSet(T) /\ c \in Nat
    BY <1>1, FS_Subset, FS_CardinalityType
  <1>3. ASSUME NEW k \in T PROVE k + 1 <= c
    <2>1. (0 .. k) \in SUBSET T
      OBVIOUS
    <2>2. Cardinality(0 .. k) = k + 1
      BY FS_Interval
    <2> QED
      BY <1>2, <2>1, <2>2, FS_Subset
  <1>4. ASSUME NEW k \in Nat, k \notin T PROVE c <= k
    <2>1. PICK x \in S : x <= k
      <3>1. CASE k <= w
        BY <1>4, <3>1
      <3>2. CASE ~(k <= w)
        BY <3>2
      <3> QED
        BY <3>1, <3>2
    <2>2. T \in SUBSET (0 .. k - 1)
      BY <2>1
    <2>3. IsFiniteSet(0 .. k - 1) /\ Cardinality(0 .. k - 1) = k
      <3>1. k - 1 \in Int /\ 0 \in Int
        OBVIOUS
      <3> QED
        BY <3>1, FS_Interval
    <2> QED
      BY <2>2, <2>3, FS_Subset
  <1>5. c \notin T
    <2>1. \A k \in T : k + 1 <= c
      BY <1>3
    <2>2. c + 1 > c
      BY <1>2
    <2> HIDE DEF c, T
    <2> QED
      BY <1>2, <2>1, <2>2
  <1>6. \A x \in S : x \notin T
    OBVIOUS
  <1> HIDE DEF c
  <1>7. \A x \in S : c <= x
    BY <1>4, <1>6
  <1>8. \E x \in S : x <= c
    BY <1>2, <1>5, <1>7
  <1> QED
    BY <1>2, <1>7, <1>8

\* Ascending(S) goes through S from the least to the greatest number.
LEMMA AscendingSound ==
  ASSUME NEW S \in SUBSET Nat, IsFiniteSet(S)
  PROVE  /\ Cardinality(S) \in Nat
         /\ Ascending(S) \in [1 .. Cardinality(S) -> S]
         /\ \A i, j \in 1 .. Cardinality(S) : i < j => Ascending(S)[i] < Ascending(S)[j]
         /\ \A x \in S : \E i \in 1 .. Cardinality(S) : Ascending(S)[i] = x
  <1> DEFINE below(x) == {y \in S : y <= x}
             rank(x) == Cardinality(below(x))
             c == Cardinality(S)
             q == Ascending(S)
             f == [x \in S |-> rank(x)]
  <1>0. \A x, z \in S : x \in Nat /\ (x < z \/ z < x \/ x = z)
    <2>1. \A x, z \in Nat : x < z \/ z < x \/ x = z
      OBVIOUS
    <2> QED
      BY <2>1
  <1>1. c \in Nat
    BY FS_CardinalityType
  <1>2. ASSUME NEW x \in S PROVE IsFiniteSet(below(x)) /\ rank(x) \in 1 .. c
    <2>1. below(x) \in SUBSET S /\ x \in below(x)
      OBVIOUS
    <2> HIDE DEF below
    <2>2. IsFiniteSet(below(x)) /\ rank(x) <= c
      BY <2>1, FS_Subset
    <2>3. rank(x) \in Nat /\ rank(x) # 0
      BY <2>1, <2>2, FS_CardinalityType, FS_EmptySet
    <2> QED
      BY <1>1, <2>2, <2>3
  <1>3. ASSUME NEW x \in S, NEW z \in S, x < z PROVE rank(x) < rank(z)
    <2>1. below(x) \in SUBSET below(z) /\ z \in below(z) /\ z \notin below(x)
      <3>1. \A a, b, y \in Nat : a < b => (y <= a => y <= b) /\ ~(b <= a) /\ b <= b
        OBVIOUS
      <3> QED
        BY <1>0, <1>3, <3>1
    <2>2. IsFiniteSet(below(z)) /\ rank(z) \in Nat /\ rank(x) \in Nat
      BY <1>2
    <2> HIDE DEF below
    <2>3. rank(x) <= rank(z) /\ rank(x) # rank(z)
      BY <2>1, <2>2, FS_Subset
    <2> QED
      BY <2>2, <2>3
  <1>4. f \in Injection(S, 1 .. c)
    <2>1. f \in [S -> 1 .. c]
      BY <1>2
    <2>2. \A x, z \in S : rank(x) = rank(z) => x = z
      <3> SUFFICES ASSUME NEW x \in S, NEW z \in S, rank(x) = rank(z), x # z PROVE FALSE
        OBVIOUS
      <3>1. x < z \/ z < x
        OBVIOUS
      <3>2. rank(x) \in Nat /\ rank(z) \in Nat
        BY <1>2
      <3> HIDE DEF rank
      <3> QED
        BY <1>3, <3>1, <3>2
    <2> HIDE DEF rank
    <2>3. IsInjective(f)
      BY <2>2 DEF IsInjective
    <2> QED
      BY <2>1, <2>3 DEF Injection
  <1>5. ASSUME NEW n \in 1 .. c PROVE q[n] \in S /\ rank(q[n]) = n
    <2>1. IsFiniteSet(1 .. c) /\ Cardinality(1 .. c) = c
      <3>1. 1 \in Int /\ c \in Int
        BY <1>1
      <3> QED
        BY <1>1, <3>1, FS_Interval
    <2>2. f \in Surjection(S, 1 .. c)
      BY <1>4, <2>1, FS_Injection
    <2>3. \E x \in S : rank(x) = n
      <3> HIDE DEF rank
      <3> QED
        BY <2>2 DEF Surjection
    <2>4. q[n] = CHOOSE x \in S : rank(x) = n
      BY DEF Ascending
    <2> HIDE DEF rank, q
    <2> QED
      BY <2>3, <2>4
  <1>6. q \in [1 .. c -> S]
    <2>1. q = [n \in 1 .. c |-> q[n]]
      BY DEF Ascending
    <2> HIDE DEF q
    <2> QED
      BY <1>5, <2>1
  <1>7. \A i, j \in 1 .. c : i < j => q[i] < q[j]
    <2> SUFFICES ASSUME NEW i \in 1 .. c, NEW j \in 1 .. c, i < j, ~(q[i] < q[j]) PROVE FALSE
      OBVIOUS
    <2> HIDE DEF rank, q
    <2>1. q[i] \in S /\ q[j] \in S /\ rank(q[i]) = i /\ rank(q[j]) = j
      BY <1>5
    <2>2. q[j] < q[i] \/ q[j] = q[i]
      BY <1>0, <2>1
    <2>3. j < i \/ j = i
      BY <1>3, <2>1, <2>2
    <2> QED
      BY <1>1, <2>3
  <1>8. \A x \in S : \E i \in 1 .. c : q[i] = x
    <2> SUFFICES ASSUME NEW x \in S PROVE \E i \in 1 .. c : q[i] = x
      OBVIOUS
    <2> HIDE DEF rank, q
    <2>1. rank(x) \in 1 .. c
      BY <1>2
    <2>2. q[rank(x)] \in S /\ rank(q[rank(x)]) = rank(x)
      BY <1>5, <2>1
    <2>3. rank(x) \in Nat
      BY <1>1, <2>1
    <2>4. q[rank(x)] = x
      <3> DEFINE y == q[rank(x)]
      <3>1. y \in S /\ rank(y) = rank(x)
        BY <2>2
      <3> HIDE DEF y
      <3>2. ~(y < x) /\ ~(x < y)
        BY <1>3, <2>3, <3>1
      <3>3. y = x
        BY <1>0, <3>1, <3>2
      <3> QED
        BY <3>3 DEF y
    <2> QED
      BY <2>1, <2>4
  <1> QED
    BY <1>1, <1>6, <1>7, <1>8

\* The rows picked at the positions S are those, in their order.
LEMMA PickedSound ==
  ASSUME NEW R, NEW rows \in Seq(R), NEW S \in SUBSET DOMAIN rows
  PROVE  /\ Picked(rows, S) \in Seq(R)
         /\ \E q \in [DOMAIN Picked(rows, S) -> S] :
              /\ \A i, j \in DOMAIN Picked(rows, S) : i < j => q[i] < q[j]
              /\ \A n \in S : \E i \in DOMAIN Picked(rows, S) : q[i] = n
              /\ \A i \in DOMAIN Picked(rows, S) : Picked(rows, S)[i] = rows[q[i]]
  <1> DEFINE q == Ascending(S)
             c == Cardinality(S)
  <1>1. S \in SUBSET Nat /\ IsFiniteSet(S)
    <2>1. Len(rows) \in Int /\ 1 \in Int /\ S \in SUBSET (1 .. Len(rows))
      OBVIOUS
    <2>2. IsFiniteSet(1 .. Len(rows))
      BY <2>1, FS_Interval
    <2>3. IsFiniteSet(S)
      BY <2>1, <2>2, FS_Subset
    <2> QED
      BY <2>1, <2>3
  <1>2. /\ c \in Nat /\ q \in [1 .. c -> S]
        /\ \A i, j \in 1 .. c : i < j => q[i] < q[j]
        /\ \A x \in S : \E i \in 1 .. c : q[i] = x
    BY <1>1, AscendingSound
  <1> HIDE DEF q, c
  <1>3. Picked(rows, S) = [k \in 1 .. c |-> rows[q[k]]]
    BY <1>2 DEF Picked, q
  <1>4. \A k \in 1 .. c : rows[q[k]] \in R
    BY <1>2
  <1>5. Picked(rows, S) \in Seq(R) /\ DOMAIN Picked(rows, S) = 1 .. c
    BY <1>2, <1>3, <1>4
  <1>6. \A i \in 1 .. c : Picked(rows, S)[i] = rows[q[i]]
    BY <1>3
  <1> QED
    BY <1>2, <1>5, <1>6

\* Unique(rows) holds each row once, in the order of their first places.
LEMMA UniqueSound ==
  ASSUME NEW R, NEW rows \in Seq(R)
  PROVE  LET kept == Unique(rows) IN
         /\ kept \in Seq(R)
         /\ ToSet(kept) = ToSet(rows)
         /\ \A i, j \in DOMAIN kept : kept[i] = kept[j] => i = j
         /\ \E q \in [DOMAIN kept -> Firsts(rows)] :
              /\ \A i, j \in DOMAIN kept : i < j => q[i] < q[j]
              /\ \A i \in DOMAIN kept : kept[i] = rows[q[i]]
  <1> DEFINE kept == Unique(rows)
             F == Firsts(rows)
  <1>1. F \in SUBSET DOMAIN rows
    BY DEF Firsts
  <1>a. kept = Picked(rows, F)
    BY DEF Unique
  <1>2. kept \in Seq(R)
    BY <1>1, <1>a, PickedSound
  <1>3. PICK q \in [DOMAIN kept -> F] :
          /\ \A i, j \in DOMAIN kept : i < j => q[i] < q[j]
          /\ \A n \in F : \E i \in DOMAIN kept : q[i] = n
          /\ \A i \in DOMAIN kept : kept[i] = rows[q[i]]
    <2> HIDE DEF kept, F
    <2> QED
      BY <1>1, <1>a, PickedSound
  <1>4. \A i, j \in DOMAIN kept : kept[i] = kept[j] => i = j
    <2> SUFFICES ASSUME NEW i \in DOMAIN kept, NEW j \in DOMAIN kept, i < j PROVE kept[i] # kept[j]
      <3>1. DOMAIN kept = 1 .. Len(kept) /\ Len(kept) \in Nat
        BY <1>2
      <3> HIDE DEF kept
      <3> QED
        BY <3>1
    <2>1. q[i] < q[j] /\ q[j] \in F /\ q[i] \in DOMAIN rows
      BY <1>1, <1>3
    <2>2. q[i] \in 1 .. q[j] - 1
      BY <2>1, <1>1
    <2>3. rows[q[i]] # rows[q[j]]
      BY <2>1, <2>2 DEF Firsts
    <2> QED
      BY <1>3, <2>3
  <1>5. ASSUME NEW n \in DOMAIN rows PROVE \E m \in F : rows[m] = rows[n]
    <2> DEFINE E == {m \in DOMAIN rows : rows[m] = rows[n]}
    <2>1. PICK m \in E : \A x \in E : m <= x
      <3>1. E \in SUBSET Nat /\ n \in E
        OBVIOUS
      <3> QED
        BY <3>1, Least
    <2>2. \A x \in 1 .. m - 1 : x \in DOMAIN rows /\ x \notin E
      BY <2>1
    <2> QED
      BY <2>1, <2>2 DEF Firsts
  <1>6. ToSet(kept) = ToSet(rows)
    <2>1. ASSUME NEW i \in DOMAIN kept PROVE kept[i] \in ToSet(rows)
      BY <1>1, <1>3 DEF ToSet
    <2>2. ASSUME NEW n \in DOMAIN rows PROVE rows[n] \in ToSet(kept)
      <3>1. PICK m \in F : rows[m] = rows[n]
        BY <1>5
      <3>2. PICK i \in DOMAIN kept : q[i] = m
        BY <1>3
      <3> QED
        BY <1>3, <3>1, <3>2 DEF ToSet
    <2> QED
      BY <2>1, <2>2 DEF ToSet
  <1> QED
    BY <1>2, <1>3, <1>4, <1>6

\* FlattenSeq is the last of the concatenations g: the recursive function exists, since
\* there is no least position up to which it does not.
LEMMA FlattenUnfolds ==
  ASSUME NEW R, NEW seqs \in Seq(Seq(R)), Len(seqs) # 0
  PROVE  \E g \in [1 .. Len(seqs) -> Seq(R)] :
           /\ FlattenSeq(seqs) = g[Len(seqs)]
           /\ g[1] = seqs[1]
           /\ \A c \in 2 .. Len(seqs) : g[c] = g[c - 1] \o seqs[c]
  <1> DEFINE n == Len(seqs)
             Step(g, c) == IF c = 1 THEN seqs[c] ELSE g[c - 1] \o seqs[c]
             Upto(m, g) == g \in [1 .. m -> Seq(R)] /\ \A c \in 1 .. m : g[c] = Step(g, c)
             Bad == {m \in 1 .. n : ~ \E g : Upto(m, g)}
  <1>1. n \in Nat \ {0} /\ \A c \in 1 .. n : seqs[c] \in Seq(R)
    OBVIOUS
  <1>2. Upto(1, [c \in 1 .. 1 |-> seqs[1]])
    BY <1>1
  <1>3. ASSUME NEW m \in 1 .. n, m # 1, NEW g, Upto(m - 1, g)
        PROVE  Upto(m, [c \in 1 .. m |-> IF c = m THEN g[m - 1] \o seqs[m] ELSE g[c]])
    <2> DEFINE h == [c \in 1 .. m |-> IF c = m THEN g[m - 1] \o seqs[m] ELSE g[c]]
    <2>1. m - 1 \in 1 .. m - 1 /\ m \in Nat
      BY <1>1, <1>3
    <2>2. g[m - 1] \in Seq(R) /\ seqs[m] \in Seq(R)
      BY <1>1, <1>3, <2>1
    <2>3. g[m - 1] \o seqs[m] \in Seq(R)
      BY <2>2
    <2>4. h \in [1 .. m -> Seq(R)]
      BY <1>3, <2>1, <2>3
    <2>5. ASSUME NEW c \in 1 .. m PROVE h[c] = Step(h, c)
      <3>1. CASE c = m
        <4>1. m - 1 \in 1 .. m /\ m - 1 # m /\ m \in 1 .. m
          BY <1>3, <2>1
        <4>2. h[m - 1] = g[m - 1] /\ h[m] = g[m - 1] \o seqs[m]
          BY <4>1
        <4> HIDE DEF h
        <4> QED
          BY <1>3, <3>1, <4>2
      <3>2. CASE c # m
        <4>1. c \in 1 .. m - 1 /\ (c # 1 => c - 1 \in 1 .. m - 1 /\ c - 1 \in 1 .. m /\ c - 1 # m)
          BY <2>1, <3>2
        <4>2. h[c] = g[c] /\ (c # 1 => h[c - 1] = g[c - 1])
          BY <3>2, <4>1
        <4> QED
          BY <1>3, <4>1, <4>2
      <3> QED
        BY <3>1, <3>2
    <2> QED
      BY <2>4, <2>5
  <1>4. Bad = {}
    <2> SUFFICES ASSUME NEW w \in Bad PROVE FALSE
      OBVIOUS
    <2>1. Bad \in SUBSET Nat
      BY <1>1
    <2> HIDE DEF Bad
    <2>2. PICK m \in Bad : \A x \in Bad : m <= x
      BY <2>1, Least
    <2>3. m \in 1 .. n /\ ~ \E g : Upto(m, g)
      BY DEF Bad
    <2> HIDE DEF Upto
    <2>4. m # 1
      BY <1>2, <2>3
    <2>5. m - 1 \in 1 .. n /\ ~(m <= m - 1)
      BY <1>1, <2>3, <2>4
    <2>6. PICK g : Upto(m - 1, g)
      BY <2>2, <2>5 DEF Bad
    <2> QED
      BY <1>3, <2>3, <2>4, <2>6
  <1>5. PICK g : Upto(n, g)
    <2>1. n \in 1 .. n
      BY <1>1
    <2>2. n \notin Bad
      <3> HIDE DEF Bad
      <3> QED
        BY <1>4
    <2> HIDE DEF Upto
    <2> QED
      BY <2>1, <2>2
  <1> DEFINE Body(h) == [c \in 1 .. n |-> Step(h, c)]
             flat == CHOOSE h : h = Body(h)
  <1>6. g = Body(g)
    BY <1>5
  <1>7. flat = Body(flat)
    <2> HIDE DEF Body
    <2> QED
      BY <1>6
  <1>8. FlattenSeq(seqs) = flat[n]
    BY <1>1 DEF FlattenSeq
  <1> HIDE DEF flat
  <1>9. \A c \in 1 .. n : flat[c] = Step(flat, c)
    BY <1>7
  <1>10. \A c \in 1 .. n : flat[c] = g[c]
    <2> DEFINE Odd == {c \in 1 .. n : flat[c] # g[c]}
    <2> SUFFICES ASSUME NEW w \in Odd PROVE FALSE
      OBVIOUS
    <2>1. Odd \in SUBSET Nat
      BY <1>1
    <2> HIDE DEF Odd
    <2>2. PICK m \in Odd : \A x \in Odd : m <= x
      BY <2>1, Least
    <2>3. m \in 1 .. n /\ flat[m] # g[m]
      BY DEF Odd
    <2>4. m # 1
      BY <1>5, <1>9, <2>3
    <2>5. m - 1 \in 1 .. n /\ ~(m <= m - 1)
      BY <1>1, <2>3, <2>4
    <2>6. flat[m - 1] = g[m - 1]
      BY <2>2, <2>5 DEF Odd
    <2> QED
      BY <1>5, <1>9, <2>3, <2>4, <2>6
  <1>11. n \in 1 .. n /\ 1 \in 1 .. n /\ \A c \in 2 .. n : c \in 1 .. n /\ c # 1
    BY <1>1
  <1>12. FlattenSeq(seqs) = g[n] /\ g[1] = seqs[1] /\ \A c \in 2 .. n : g[c] = g[c - 1] \o seqs[c]
    BY <1>5, <1>8, <1>10, <1>11
  <1> QED
    BY <1>5, <1>12

\* Where the members of the sequences are in their concatenation: those of seqs[c] after
\* place start[c], each sequence after those before it.
LEMMA FlattenPlaces ==
  ASSUME NEW R, NEW seqs \in Seq(Seq(R)), Len(seqs) # 0
  PROVE  /\ FlattenSeq(seqs) \in Seq(R)
         /\ \E start \in [1 .. Len(seqs) -> Nat] :
              /\ \A c \in 1 .. Len(seqs) : \A n \in DOMAIN seqs[c] :
                   /\ start[c] + n \in DOMAIN FlattenSeq(seqs)
                   /\ FlattenSeq(seqs)[start[c] + n] = seqs[c][n]
              /\ \A x \in DOMAIN FlattenSeq(seqs) :
                   \E c \in 1 .. Len(seqs) : \E n \in DOMAIN seqs[c] : x = start[c] + n
              /\ \A c, d \in 1 .. Len(seqs) : c < d => start[c] + Len(seqs[c]) <= start[d]
  <1> DEFINE N == Len(seqs)
  <1>1. PICK g \in [1 .. N -> Seq(R)] :
          /\ FlattenSeq(seqs) = g[N]
          /\ g[1] = seqs[1]
          /\ \A c \in 2 .. N : g[c] = g[c - 1] \o seqs[c]
    BY FlattenUnfolds
  <1>2. /\ N \in Nat \ {0} /\ N \in 1 .. N /\ 1 \in 1 .. N
        /\ \A c \in 1 .. N : seqs[c] \in Seq(R) /\ g[c] \in Seq(R)
    <2>1. N \in Nat /\ N # 0 /\ \A c \in 1 .. N : seqs[c] \in Seq(R)
      OBVIOUS
    <2> HIDE DEF N
    <2> QED
      BY <2>1
  <1>a. \A c \in 1 .. N : /\ Len(seqs[c]) \in Nat /\ DOMAIN seqs[c] = 1 .. Len(seqs[c])
                          /\ Len(g[c]) \in Nat /\ DOMAIN g[c] = 1 .. Len(g[c])
    <2>1. \A f \in Seq(R) : Len(f) \in Nat /\ DOMAIN f = 1 .. Len(f)
      OBVIOUS
    <2> HIDE DEF N
    <2> QED
      BY <1>2, <2>1
  <1> DEFINE start == [c \in 1 .. N |-> IF c = 1 THEN 0 ELSE Len(g[c - 1])]
             Placed(c, d) == \A n \in DOMAIN seqs[d] :
               start[d] + n \in DOMAIN g[c] /\ g[c][start[d] + n] = seqs[d][n]
             Right(c) ==
               /\ \A d \in 1 .. c : Placed(c, d) /\ start[d] + Len(seqs[d]) <= Len(g[c])
               /\ \A x \in DOMAIN g[c] : \E d \in 1 .. c : \E n \in DOMAIN seqs[d] : x = start[d] + n
               /\ \A d, e \in 1 .. c : d < e => start[d] + Len(seqs[d]) <= start[e]
             Bad == {c \in 1 .. N : ~Right(c)}
  <1>3. /\ start \in [1 .. N -> Nat] /\ start[1] = 0
        /\ \A c \in 2 .. N : c \in 1 .. N /\ c - 1 \in 1 .. N /\ start[c] = Len(g[c - 1])
    <2>1. \A c \in 1 .. N : c # 1 => c - 1 \in 1 .. N
      BY <1>2
    <2>2. \A c \in 1 .. N : c # 1 => Len(g[c - 1]) \in Nat
      BY <1>2, <2>1
    <2> HIDE DEF N
    <2> QED
      BY <1>2, <2>1, <2>2
  <1> HIDE DEF start, N
  <1>4. Right(1)
    <2>1. \A d \in 1 .. 1 : d = 1
      OBVIOUS
    <2>2. \A n \in DOMAIN seqs[1] : 0 + n = n
      BY <1>2, <1>a
    <2>3. 0 + Len(seqs[1]) <= Len(seqs[1])
      BY <1>2, <1>a
    <2>4. Placed(1, 1) /\ start[1] + Len(seqs[1]) <= Len(g[1])
      BY <1>1, <1>3, <2>2, <2>3
    <2>5. \A x \in DOMAIN g[1] : 1 \in 1 .. 1 /\ x \in DOMAIN seqs[1] /\ x = start[1] + x
      BY <1>1, <1>3, <2>2
    <2>6. \A d, e \in 1 .. 1 : ~(d < e)
      OBVIOUS
    <2> QED
      BY <2>1, <2>4, <2>5, <2>6
  <1>5. ASSUME NEW c \in 2 .. N, Right(c - 1) PROVE Right(c)
    <2>a. /\ c - 1 \in 1 .. N /\ c \in 1 .. N /\ start[c] = Len(g[c - 1])
          /\ g[c] = g[c - 1] \o seqs[c] /\ g[c - 1] \in Seq(R) /\ seqs[c] \in Seq(R)
      BY <1>1, <1>2, <1>3
    <2>b. /\ c \in Nat /\ \A d \in 1 .. c : d = c \/ d \in 1 .. c - 1
          /\ \A d \in 1 .. c - 1 : d \in 1 .. N /\ d \in 1 .. c
      BY <1>2
    <2>1. /\ c - 1 \in 1 .. N /\ c \in 1 .. N /\ start[c] = Len(g[c - 1])
          /\ g[c] = g[c - 1] \o seqs[c] /\ g[c - 1] \in Seq(R) /\ seqs[c] \in Seq(R)
          /\ \A d \in 1 .. c : d = c \/ d \in 1 .. c - 1
          /\ \A d \in 1 .. c - 1 : d \in 1 .. N /\ d \in 1 .. c
      BY <2>a, <2>b
    <2> DEFINE a == Len(g[c - 1])  z == Len(seqs[c])
    <2>2. /\ a \in Nat /\ z \in Nat /\ Len(g[c]) = a + z
          /\ DOMAIN g[c] = 1 .. a + z /\ DOMAIN g[c - 1] = 1 .. a /\ DOMAIN seqs[c] = 1 .. z
          /\ \A x \in 1 .. a : g[c][x] = g[c - 1][x]
          /\ \A n \in 1 .. z : g[c][a + n] = seqs[c][n]
      <3> DEFINE u == g[c - 1]  v == seqs[c]
      <3>1. u \in Seq(R) /\ v \in Seq(R) /\ g[c] = u \o v
        BY <2>1
      <3> HIDE DEF u, v
      <3>2. /\ Len(u) \in Nat /\ Len(v) \in Nat /\ Len(u \o v) = Len(u) + Len(v)
            /\ DOMAIN (u \o v) = 1 .. Len(u) + Len(v)
            /\ DOMAIN u = 1 .. Len(u) /\ DOMAIN v = 1 .. Len(v)
        BY <3>1
      <3>3. \A x \in 1 .. Len(u) : (u \o v)[x] = u[x]
        BY <3>1
      <3>4. \A n \in 1 .. Len(v) : (u \o v)[Len(u) + n] = v[n]
        <4> SUFFICES ASSUME NEW n \in 1 .. Len(v) PROVE (u \o v)[Len(u) + n] = v[n]
          OBVIOUS
        <4>1. Len(u) + n \in 1 .. Len(u) + Len(v) /\ ~(Len(u) + n <= Len(u))
              /\ (Len(u) + n) - Len(u) = n
          BY <3>2
        <4> QED
          BY <3>1, <3>2, <4>1
      <3> QED
        BY <3>1, <3>2, <3>3, <3>4 DEF u, v
    <2> HIDE DEF a, z
    <2>3. ASSUME NEW d \in 1 .. c PROVE Placed(c, d) /\ start[d] + Len(seqs[d]) <= Len(g[c])
      <3>1. CASE d = c
        <4>1. \A n \in 1 .. z : a + n \in 1 .. a + z
          BY <2>2
        <4>2. start[c] = a
          BY <2>1 DEF a
        <4>3. Len(seqs[c]) = z
          BY DEF z
        <4>4. a + z <= Len(g[c])
          BY <2>2
        <4> QED
          BY <2>2, <3>1, <4>1, <4>2, <4>3, <4>4
      <3>2. CASE d \in 1 .. c - 1
        <4>1. Placed(c - 1, d) /\ start[d] + Len(seqs[d]) <= a
          BY <1>5, <3>2 DEF a
        <4>2. \A x \in 1 .. a : x \in 1 .. a + z
          BY <2>2
        <4>3. Placed(c, d)
          BY <2>2, <4>1, <4>2
        <4>4. start[d] \in Nat /\ Len(seqs[d]) \in Nat
          <5>1. d \in 1 .. N
            BY <2>1, <3>2
          <5> QED
            BY <1>3, <1>a, <5>1
        <4>5. start[d] + Len(seqs[d]) <= Len(g[c])
          <5> DEFINE u == start[d] + Len(seqs[d])
          <5>1. u \in Nat
            BY <4>4
          <5>2. u <= a
            BY <4>1
          <5> HIDE DEF u
          <5>3. u <= Len(g[c])
            BY <2>2, <5>1, <5>2
          <5> QED
            BY <5>3 DEF u
        <4> QED
          BY <4>3, <4>5
      <3> QED
        BY <2>1, <3>1, <3>2
    <2>4. ASSUME NEW x \in DOMAIN g[c]
          PROVE  \E d \in 1 .. c : \E n \in DOMAIN seqs[d] : x = start[d] + n
      <3>1. CASE x \in 1 .. a
        <4>1. \E d \in 1 .. c - 1 : \E n \in DOMAIN seqs[d] : x = start[d] + n
          BY <1>5, <2>2, <3>1
        <4> QED
          BY <2>1, <4>1
      <3>2. CASE x \notin 1 .. a
        <4>1. x - a \in 1 .. z /\ x = a + (x - a)
          BY <2>2, <2>4, <3>2
        <4>2. c \in 1 .. c
          BY <2>1
        <4>3. start[c] = a /\ DOMAIN seqs[c] = 1 .. z
          BY <2>1, <2>2 DEF a
        <4> QED
          BY <4>1, <4>2, <4>3
      <3> QED
        BY <3>1, <3>2
    <2>5. ASSUME NEW d \in 1 .. c, NEW e \in 1 .. c, d < e
          PROVE  start[d] + Len(seqs[d]) <= start[e]
      <3>1. d \in 1 .. c - 1
        BY <2>b, <2>5
      <3>2. CASE e = c
        <4>1. start[d] + Len(seqs[d]) <= Len(g[c - 1])
          BY <1>5, <3>1
        <4> QED
          BY <2>1, <3>2, <4>1
      <3>3. CASE e \in 1 .. c - 1
        BY <1>5, <2>5, <3>1, <3>3
      <3> QED
        BY <2>1, <3>2, <3>3
    <2> QED
      BY <2>3, <2>4, <2>5
  <1>6. Right(N)
    <2> SUFFICES ASSUME N \in Bad PROVE FALSE
      BY <1>2
    <2>1. Bad \in SUBSET Nat
      BY <1>2
    <2> HIDE DEF Bad
    <2>2. PICK m \in Bad : \A x \in Bad : m <= x
      BY <2>1, Least
    <2>3. m \in 1 .. N /\ ~Right(m)
      BY DEF Bad
    <2> HIDE DEF Right
    <2>4. m # 1
      BY <1>4, <2>3
    <2>5. m - 1 \in 1 .. N /\ ~(m <= m - 1) /\ m \in 2 .. N
      BY <1>2, <2>3, <2>4
    <2>6. Right(m - 1)
      BY <2>2, <2>5 DEF Bad
    <2> QED
      BY <1>5, <2>3, <2>5, <2>6
  <1>7. N \in 1 .. N /\ \A c \in 1 .. N : Placed(N, c)
    BY <1>2, <1>6
  <1>8. /\ \A x \in DOMAIN g[N] : \E c \in 1 .. N : \E n \in DOMAIN seqs[c] : x = start[c] + n
        /\ \A c, d \in 1 .. N : c < d => start[c] + Len(seqs[c]) <= start[d]
    BY <1>6
  <1>9. FlattenSeq(seqs) = g[N] /\ g[N] \in Seq(R)
    BY <1>1, <1>2
  <1>10. \E first \in [1 .. N -> Nat] :
           /\ \A c \in 1 .. N : \A n \in DOMAIN seqs[c] :
                first[c] + n \in DOMAIN g[N] /\ g[N][first[c] + n] = seqs[c][n]
           /\ \A x \in DOMAIN g[N] :
                \E c \in 1 .. N : \E n \in DOMAIN seqs[c] : x = first[c] + n
           /\ \A c, d \in 1 .. N : c < d => first[c] + Len(seqs[c]) <= first[d]
    <2> start \in [1 .. N -> Nat]
      BY <1>3
    <2> WITNESS start \in [1 .. N -> Nat]
    <2> QED
      BY <1>7, <1>8
  <1>11. N = Len(seqs)
    BY DEF N
  <1>12. PICK first \in [1 .. N -> Nat] :
           /\ \A c \in 1 .. N : \A n \in DOMAIN seqs[c] :
                first[c] + n \in DOMAIN g[N] /\ g[N][first[c] + n] = seqs[c][n]
           /\ \A x \in DOMAIN g[N] :
                \E c \in 1 .. N : \E n \in DOMAIN seqs[c] : x = first[c] + n
           /\ \A c, d \in 1 .. N : c < d => first[c] + Len(seqs[c]) <= first[d]
    BY <1>10
  <1>13. FlattenSeq(seqs) \in Seq(R)
    BY <1>9
  <1> SUFFICES \E f \in [1 .. Len(seqs) -> Nat] :
         /\ \A c \in 1 .. Len(seqs) : \A n \in DOMAIN seqs[c] :
              /\ f[c] + n \in DOMAIN FlattenSeq(seqs)
              /\ FlattenSeq(seqs)[f[c] + n] = seqs[c][n]
         /\ \A x \in DOMAIN FlattenSeq(seqs) :
              \E c \in 1 .. Len(seqs) : \E n \in DOMAIN seqs[c] : x = f[c] + n
         /\ \A c, d \in 1 .. Len(seqs) : c < d => f[c] + Len(seqs[c]) <= f[d]
    BY <1>13
  <1> first \in [1 .. Len(seqs) -> Nat]
    BY <1>11
  <1> WITNESS first \in [1 .. Len(seqs) -> Nat]
  <1> QED
    BY <1>9, <1>11, <1>12

\* The rows of pages that follow one another, equal ones once, are in the order of the pages.
LEMMA MergedSound ==
  ASSUME NEW seqs \in Seq(Seq(Nat)), Len(seqs) # 0, NEW shown,
         DOMAIN shown = 0 .. Len(seqs) - 1,
         \A c \in DOMAIN shown : shown[c] = seqs[c + 1]
  PROVE  LET rows == Unique(FlattenSeq(seqs)) IN rows \in Seq(Nat) /\ InListOrder(rows, shown)
  <1> DEFINE N == Len(seqs)
             all == FlattenSeq(seqs)
             rows == Unique(all)
  <1>1. all \in Seq(Nat)
    BY FlattenPlaces
  <1>2. PICK start \in [1 .. N -> Nat] :
          /\ \A c \in 1 .. N : \A n \in DOMAIN seqs[c] :
               start[c] + n \in DOMAIN all /\ all[start[c] + n] = seqs[c][n]
          /\ \A x \in DOMAIN all : \E c \in 1 .. N : \E n \in DOMAIN seqs[c] : x = start[c] + n
          /\ \A c, d \in 1 .. N : c < d => start[c] + Len(seqs[c]) <= start[d]
    BY FlattenPlaces
  <1>3. /\ N \in Nat \ {0}
        /\ \A c \in 1 .. N : c - 1 \in DOMAIN shown /\ (c - 1) + 1 = c
        /\ \A c \in DOMAIN shown : c + 1 \in 1 .. N /\ c \in Nat
        /\ \A c \in 1 .. N : DOMAIN seqs[c] = 1 .. Len(seqs[c]) /\ Len(seqs[c]) \in Nat
    OBVIOUS
  <1> HIDE DEF all, N
  <1>4. /\ rows \in Seq(Nat) /\ ToSet(rows) = ToSet(all)
        /\ \A i, j \in DOMAIN rows : rows[i] = rows[j] => i = j
    BY <1>1, UniqueSound
  <1>5. PICK q \in [DOMAIN rows -> Firsts(all)] :
          /\ \A i, j \in DOMAIN rows : i < j => q[i] < q[j]
          /\ \A i \in DOMAIN rows : rows[i] = all[q[i]]
    BY <1>1, UniqueSound
  <1> HIDE DEF rows
  <1>6. ToSet(all) = UNION {ToSet(shown[c]) : c \in DOMAIN shown}
    <2>1. ASSUME NEW x \in DOMAIN all PROVE \E c \in DOMAIN shown : all[x] \in ToSet(shown[c])
      <3>1. PICK c \in 1 .. N : \E n \in DOMAIN seqs[c] : x = start[c] + n
        BY <1>2
      <3>2. PICK n \in DOMAIN seqs[c] : x = start[c] + n
        BY <3>1
      <3>3. all[x] = seqs[c][n] /\ shown[c - 1] = seqs[c] /\ c - 1 \in DOMAIN shown
        BY <1>2, <1>3, <3>2
      <3> QED
        BY <3>3 DEF ToSet
    <2>2. ASSUME NEW c \in DOMAIN shown, NEW n \in DOMAIN shown[c] PROVE shown[c][n] \in ToSet(all)
      <3>1. c + 1 \in 1 .. N /\ shown[c] = seqs[c + 1]
        BY <1>3
      <3>2. start[c + 1] + n \in DOMAIN all /\ all[start[c + 1] + n] = shown[c][n]
        BY <1>2, <3>1
      <3> QED
        BY <3>2 DEF ToSet
    <2> QED
      BY <2>1, <2>2 DEF ToSet
  <1>7. ASSUME NEW i \in DOMAIN rows, NEW j \in DOMAIN rows, i < j
        PROVE  \E c \in DOMAIN shown : \E n \in DOMAIN shown[c] :
                 /\ shown[c][n] = rows[i]
                 /\ \A d \in DOMAIN shown : \A m \in DOMAIN shown[d] :
                      shown[d][m] = rows[j] => c < d \/ (c = d /\ n < m)
    <2>1. /\ q[i] \in Firsts(all) /\ q[j] \in Firsts(all) /\ q[i] < q[j]
          /\ all[q[i]] = rows[i] /\ all[q[j]] = rows[j]
      BY <1>5, <1>7
    <2>2. q[i] \in DOMAIN all /\ q[j] \in DOMAIN all /\ DOMAIN all \subseteq Nat \ {0}
      BY <1>1, <2>1 DEF Firsts
    <2>3. PICK c \in 1 .. N : \E n \in DOMAIN seqs[c] : q[i] = start[c] + n
      BY <1>2, <2>2
    <2>6. PICK n \in DOMAIN seqs[c] : q[i] = start[c] + n
      BY <2>3
    <2>4. c - 1 \in DOMAIN shown /\ shown[c - 1] = seqs[c] /\ seqs[c][n] = rows[i]
      BY <1>2, <1>3, <2>1, <2>6
    <2>5. ASSUME NEW d \in DOMAIN shown, NEW m \in DOMAIN shown[d], shown[d][m] = rows[j]
          PROVE  c - 1 < d \/ (c - 1 = d /\ n < m)
      <3> DEFINE e == d + 1  y == start[e] + m
      <3>a. e \in 1 .. N /\ m \in DOMAIN seqs[e] /\ seqs[e][m] = rows[j]
        BY <1>3, <2>5
      <3>1. /\ e \in 1 .. N /\ m \in DOMAIN seqs[e] /\ seqs[e][m] = rows[j]
            /\ y \in DOMAIN all /\ all[y] = rows[j]
        <4> HIDE DEF e
        <4> QED
          BY <1>2, <3>a
      <3>2. y \in Nat \ {0} /\ q[j] \in Nat \ {0} /\ q[i] \in Nat \ {0}
        BY <2>2, <3>1
      <3> HIDE DEF y
      <3>3. q[j] <= y
        <4>1. ~(y < q[j]) \/ y \in 1 .. q[j] - 1
          BY <3>2
        <4> QED
          BY <2>1, <3>1, <3>2, <4>1 DEF Firsts
      <3>4. q[i] < y
        BY <2>1, <3>2, <3>3
      <3>5. start[c] \in Nat /\ start[e] \in Nat /\ d \in Nat /\ c \in Nat
            /\ n \in Nat /\ m \in Nat /\ m <= Len(seqs[e]) /\ Len(seqs[e]) \in Nat /\ 0 < n
        <4>1. d \in Nat /\ c \in Nat
          BY <1>3
        <4>2. n \in 1 .. Len(seqs[c]) /\ Len(seqs[c]) \in Nat
          BY <1>3
        <4> HIDE DEF e
        <4>3. m \in 1 .. Len(seqs[e]) /\ Len(seqs[e]) \in Nat
          BY <1>3, <3>1
        <4>4. start[c] \in Nat /\ start[e] \in Nat
          BY <3>1
        <4>5. \A k \in Nat : \A x \in 1 .. k : x \in Nat /\ x <= k /\ 0 < x
          OBVIOUS
        <4> QED
          BY <4>1, <4>2, <4>3, <4>4, <4>5
      <3>6. start[c] + n < start[e] + m
        BY <2>6, <3>4 DEF y
      <3>7. e < c => start[e] + Len(seqs[e]) <= start[c]
        BY <1>2, <3>1
      <3>8. ~(e < c)
        <4>1. e \in Nat
          BY <1>3, <3>1
        <4> HIDE DEF e
        <4>2. \A u, v, x, z, l \in Nat : ~(u + x < v + z /\ z <= l /\ v + l <= u)
          OBVIOUS
        <4> QED
          BY <3>5, <3>6, <3>7, <4>2
      <3>9. c = e => n < m
        <4> HIDE DEF e
        <4> QED
          BY <3>5, <3>6
      <3> QED
        BY <3>5, <3>8, <3>9
    <2> QED
      BY <2>4, <2>5
  <1> QED
    BY <1>4, <1>6, <1>7 DEF InListOrder, rows, all
-----------------------------------------------------------------------------
(* The inductive invariant of the pages *)

Code == Retryable \cup Terminal \cup {NoCode}
StreamCode == {"fetch_failed", "fetch_refused", "parse_error", "upstream_incomplete"}
Verdicts == {"success", "blocked", "parse_error"}
PageType ==
  [signs : SUBSET {"blocked", "missing", "temporary"},
   shape : {"whole", "partial", "unsupported", "reversed", "zero"},
   parsed : BOOLEAN, rows : Seq(Nat), more : Nat]
Id == Seq(Nat) \X Nat \X Nat
ItemType ==
  [status : {"pending", "running", "succeeded", "failed"}, attempts : 0 .. MaxAttempts,
   code : Code, rows : Seq(Nat)]

\* Items have types, an item that may be claimed has attempts left, and the items of a job
\* follow from an item that succeeded.
ItemInv ==
  /\ root \in Roots /\ broken \in Nat
  /\ IsFiniteSet(DOMAIN item) /\ DOMAIN item \subseteq Seq(Nat) /\ << >> \in DOMAIN item
  /\ item \in [DOMAIN item -> ItemType]
  /\ \A i \in DOMAIN item : item[i].status = "pending" => item[i].attempts < MaxAttempts
  /\ \A i \in DOMAIN item : i # << >> => /\ Front(i) \in DOMAIN item
                                         /\ item[Front(i)].status = "succeeded"

ExecType(I) ==
  [item : I, code : Code, rows : Seq(Nat), more : Nat,
   pc : {"fetching", "issue", "error", "empty", "gathering", "partial", "usable"}]
\* A slot executes a running item, no other slot the same.
ExecInv ==
  /\ exec \in [Slot -> {Idle} \cup ExecType(DOMAIN item)]
  /\ \A s \in Slot : exec[s] # Idle => item[exec[s].item].status = "running"
  /\ \A s, t \in Slot : s # t /\ Idle \notin {exec[s], exec[t]} => exec[s].item # exec[t].item

\* How far execution e of an item of kind and page n has come is what page p, and its
\* reports so far, make of it; b evidence files were not kept.
Held(e, p, said, kind, n, b) ==
  /\ e.more = p.more
  /\ said # << >> => e.pc = "error" /\ ToSet(said) = {"parse_error"}
  /\ e.pc = "issue" => e.code = Issue(kind, p) /\ e.code # NoCode
  /\ e.pc # "issue" => Issue(kind, p) = NoCode
  /\ e.pc = "error" => e.code = "parse_error" /\ (Good(p) => b > 0)
  /\ e.pc = "empty" => e.code = Empty(kind, n) /\ p.parsed /\ p.rows = << >> /\ ~Good(p)
  /\ e.pc = "gathering" => p.more > 0 /\ e.rows = p.rows /\ kind = "rank_list"
  /\ e.pc = "partial" => e.code \in StreamCode /\ Good(p)
  /\ e.pc = "usable" => Good(p)
HeldAt(s) ==
  LET i == exec[s].item  id == PageId(i, 0) IN
  /\ id \in DOMAIN read
  /\ Held(exec[s], read[id].seen, read[id].said, KindOf(i), PageOf(i), broken)
HeldInv == \A s \in Slot : exec[s] # Idle /\ exec[s].pc # "fetching" => HeldAt(s)

\* The attempt a page belongs to is over.
Past(id, I) == I[id[1]].attempts > id[2] \/ I[id[1]].status # "running"
\* While the first page of an item is being fetched nothing was read of this attempt.
NotNow(id, I, E) ==
  \A s \in Slot : E[s] # Idle /\ E[s].pc = "fetching" /\ E[s].item = id[1] =>
    id[2] < I[id[1]].attempts
Fair(id, page, said, b) ==
  /\ Cardinality(said) <= 1
  /\ "success" \in said => Good(page)
  /\ (Good(page) /\ (id[3] # 0 \/ b = 0)) => said \subseteq {"success"}
  /\ said # {} => ("blocked" \in said <=> "blocked" \in page.signs)
ReadAt(id) ==
  /\ id[1] \in DOMAIN item /\ id[2] <= item[id[1]].attempts /\ NotNow(id, item, exec)
  /\ id[3] = 0 => read[id].seen \in Page(KindOf(id[1]), PageOf(id[1]))
  /\ Fair(id, read[id].seen, ToSet(read[id].said), broken)
  /\ id[3] = 0 /\ Past(id, item) => read[id].said # << >>
  /\ id[3] # 0 /\ read[id].said = << >> => id \in DOMAIN stream
ReadType == [seen : PageType, said : Seq(Verdicts)]
ReadInv ==
  /\ DOMAIN read \subseteq Id
  /\ read \in [DOMAIN read -> ReadType]
  /\ \A id \in DOMAIN read : ReadAt(id)

\* A chunk c under way belongs to a page that was read, and is reported once.
ChunkRight(k, c, R, b) ==
  /\ <<k[1], k[2], 0>> \in DOMAIN R
  /\ c.pc \in {"reporting", "done"} => (c.code = NoCode <=> c.rows # << >>)
  /\ c.pc \in {"waiting", "fetching"} => c.code = NoCode /\ c.rows = << >>
  /\ c.pc = "reporting" =>
       /\ k \in DOMAIN R /\ R[k].said = << >> /\ "blocked" \notin R[k].seen.signs
       /\ c.code = NoCode <=> Good(R[k].seen)
  /\ c.pc # "reporting" /\ k \in DOMAIN R => R[k].said # << >>
  /\ c.pc = "raised" => c.code # NoCode /\ b > 0
ChunkAt(k) ==
  /\ k[1] \in DOMAIN item /\ k[2] <= item[k[1]].attempts /\ k[3] # 0
  /\ NotNow(k, item, exec)
  /\ ChunkRight(k, stream[k], read, broken)
\* The chunks an execution waits for are all there.
OwnAt(s) == Own(s) = {PageId(exec[s].item, n) : n \in Chunks(exec[s].more)}
ChunkType ==
  [pc : {"waiting", "fetching", "reporting", "done", "raised"},
   code : StreamCode \cup {NoCode}, rows : Seq(Nat)]
StreamInv ==
  /\ DOMAIN stream \subseteq Id
  /\ stream \in [DOMAIN stream -> ChunkType]
  /\ \A k \in DOMAIN stream : ChunkAt(k)
  /\ \A s \in Slot : exec[s] # Idle /\ exec[s].pc = "gathering" => OwnAt(s)

\* Why an item of kind was given up after page.
Deserved(code, kind, page) ==
  /\ code \in Terminal
  /\ "blocked" \notin page.signs
  /\ "temporary" \in page.signs =>
       kind \notin SearchKinds \cup {"category_asin_list", "merchant_home", "merchant_products"}
  /\ \/ "missing" \in page.signs
     \/ page.shape \in {"unsupported", "reversed", "zero"}
     \/ page.parsed /\ page.rows = << >> /\ kind \notin ProductKinds
EndAt(i) ==
  item[i].status = "failed" =>
    \/ item[i].code \in Retryable /\ item[i].attempts = MaxAttempts
    \/ item[i].code = "fetch_refused"
    \/ /\ PageId(i, 0) \in DOMAIN read
       /\ Deserved(item[i].code, KindOf(i), read[PageId(i, 0)].seen)
RankEnd ==
  item[<< >>].status = "succeeded" /\ root.kind = "rank_list" =>
    PageId(<< >>, 0) \in DOMAIN read
EndInv == (\A i \in DOMAIN item : EndAt(i)) /\ RankEnd

PagesInv == ItemInv /\ ExecInv /\ HeldInv /\ ReadInv /\ StreamInv /\ EndInv

\* rows are the merged rows of the pages R of attempt a of the root item.
RankPage(a, n) == << << >>, a, n>>
Whole(rows, a, R) ==
  /\ RankPage(a, 0) \in DOMAIN R
  /\ \A c \in Chunks(R[RankPage(a, 0)].seen.more) :
       RankPage(a, c) \in DOMAIN R /\ R[RankPage(a, c)].seen.rows # << >>
  /\ InListOrder(rows, [c \in {0} \cup Chunks(R[RankPage(a, 0)].seen.more)
                         |-> R[RankPage(a, c)].seen.rows])
\* The page of a chunk has not been read, or the chunk has its rows.
ChunkRows(k) ==
  /\ stream[k].pc \in {"waiting", "fetching"} => k \notin DOMAIN read
  /\ stream[k].pc \in {"reporting", "done"} /\ stream[k].code = NoCode =>
       k \in DOMAIN read /\ read[k].seen.rows = stream[k].rows
RankUsable(s) ==
  exec[s] # Idle /\ exec[s].pc = "usable" /\ KindOf(exec[s].item) = "rank_list" =>
    Whole(exec[s].rows, item[<< >>].attempts, read)
RankWhole ==
  item[<< >>].status = "succeeded" /\ root.kind = "rank_list" =>
    Whole(item[<< >>].rows, item[<< >>].attempts, read)
RankInv ==
  (\A k \in DOMAIN stream : ChunkRows(k)) /\ (\A s \in Slot : RankUsable(s)) /\ RankWhole
-----------------------------------------------------------------------------
(* The inductive invariant of the runner *)

JobSet == Seq(Nat) \cup {RootJob}
RunnerType ==
  [pc : {"discover", "read", "decide", "work", "busy", "reread", "collect", "done"},
   known : Seq(JobSet), at : Nat, found : BOOLEAN,
   status : Seq({"succeeded", "partial", "failed", "paused", "running"}),
   reason : {"timeout", "terminal", "operator_controlled"}]
\* A reading that says a job is over stays true; all that follows from a job is known, or was
\* completed by another worker since its events were listed.
StatusTrue(j, said) == said \in TerminalStates => Settled(j) /\ said = JobStatus(j)
Explored(j) == ChildrenOf(j) \subseteq Known \cup others

\* What the runner knows, by what it does
RunnerShape ==
  /\ runner \in RunnerType
  /\ runner.at \in 1 .. Len(runner.known) /\ RootJob \in Known
  /\ \A j \in Known : j = RootJob \/ (j \in DOMAIN item /\ item[j].status = "succeeded")
  /\ exec[Runner] # Idle => runner.pc = "busy"
  /\ runner.pc \in {"read", "reread"} => Len(runner.status) = runner.at - 1
  /\ runner.pc \in {"decide", "work", "busy", "collect", "done"} =>
       Len(runner.status) = Len(runner.known)
RunnerReads ==
  /\ runner.pc \in {"read", "decide", "reread", "collect", "done"} =>
       /\ \A n \in 1 .. Len(runner.status) :
            \A j \in {runner.known[n]}, said \in {runner.status[n]} : StatusTrue(j, said)
       /\ \A j \in Known : Explored(j)
  /\ runner.pc = "discover" =>
       \A n \in 1 .. runner.at - 1 : \A j \in {runner.known[n]} : Explored(j)
RunnerEnds ==
  runner.reason = "terminal" =>
    /\ runner.pc \in {"reread", "collect", "done"}
    /\ \A j \in Known : Settled(j)
    /\ runner.pc = "collect" /\ ~runner.found =>
         \A n \in 1 .. runner.at - 1 : \A j \in {runner.known[n]} : WonItems(j) = {}
    /\ runner.pc = "done" /\ ~runner.found => \A j \in Known : WonItems(j) = {}
RunnerInv == RunnerShape /\ RunnerReads /\ RunnerEnds

TreeInv == PagesInv /\ RankInv /\ RunnerInv
-----------------------------------------------------------------------------
(* What the classifier and the parser make of a page *)

LEMMA RootFacts ==
  ASSUME root \in Roots
  PROVE  /\ root.kind \in Kind /\ root.page \in 1 .. 2 /\ root.expand \in BOOLEAN /\ root.total \in Nat
         /\ \A i : KindOf(i) \in Kind /\ PageOf(i) \in 1 .. 2
  <1>1. root \in [kind : Kind, page : 1 .. 2, expand : BOOLEAN, total : Nat, shared : BOOLEAN]
    BY PageConstants
  <1>2. "product" \in Kind /\ "merchant_products" \in Kind /\ 1 \in 1 .. 2
    BY DEF Kind, MerchantKinds, ProductKinds
  <1> QED
    BY <1>1, <1>2 DEF KindOf, PageOf

LEMMA CodesApart ==
  /\ NoCode \notin Retryable /\ NoCode \notin Terminal
  /\ StreamCode \subseteq Retryable \cup {"fetch_refused"}
  /\ \A k : NotFound(k) \notin Retryable /\ NotFound(k) # "fetch_refused"
  /\ \A k \in Kind : NotFound(k) \in Terminal
  /\ StreamCode \subseteq Code \ {NoCode}
  BY NoCodeIsNoCode DEF Retryable, Terminal, StreamCode, NotFound, Code

\* The codes that a page's signs stand for.
LEMMA SignsFacts ==
  ASSUME NEW kind \in Kind, NEW signs \in SUBSET {"blocked", "missing", "temporary"}
  PROVE  LET code == PageIssue(kind, signs) IN
         /\ code = NoCode <=> signs = {}
         /\ code \in {"blocked_page", "upstream_incomplete", NotFound(kind), NoCode}
         /\ code = "blocked_page" <=> "blocked" \in signs
         /\ code = NotFound(kind) => /\ "missing" \in signs
                                     /\ "temporary" \in signs => kind \in MissingFirst
  <1> DEFINE code == PageIssue(kind, signs)
  <1>1. NotFound(kind) # NoCode /\ NotFound(kind) \notin {"blocked_page", "upstream_incomplete"}
    BY CodesApart DEF Retryable
  <1>2. NoCode \notin {"blocked_page", "upstream_incomplete"}
    BY CodesApart DEF Retryable
  <1>3. signs = {} <=> ("blocked" \notin signs /\ "missing" \notin signs /\ "temporary" \notin signs)
    OBVIOUS
  <1>4. CASE "blocked" \in signs
    <2>1. code = "blocked_page"
      BY <1>4 DEF PageIssue
    <2> QED
      BY <1>1, <1>2, <1>3, <1>4, <2>1
  <1>5. CASE "blocked" \notin signs /\ "missing" \in signs /\ ("temporary" \notin signs \/ kind \in MissingFirst)
    <2>1. code = NotFound(kind)
      BY <1>5 DEF PageIssue
    <2> QED
      BY <1>1, <1>2, <1>3, <1>5, <2>1
  <1>6. CASE /\ "blocked" \notin signs /\ "temporary" \in signs
             /\ ~("missing" \in signs /\ ("temporary" \notin signs \/ kind \in MissingFirst))
    <2>1. code = "upstream_incomplete"
      BY <1>6 DEF PageIssue
    <2> QED
      BY <1>1, <1>2, <1>3, <1>6, <2>1
  <1>7. CASE signs = {}
    <2>1. code = NoCode
      BY <1>7 DEF PageIssue
    <2> QED
      BY <1>1, <1>2, <1>7, <2>1
  <1> QED
    BY <1>3, <1>4, <1>5, <1>6, <1>7

LEMMA ShapeFacts ==
  ASSUME NEW kind \in Kind, NEW shape \in {"whole", "partial", "unsupported", "reversed", "zero"}
  PROVE  LET code == ShapeIssue(kind, shape) IN
         /\ code = NoCode <=> shape = "whole"
         /\ code \in Code
         /\ code # "blocked_page"
         /\ code \in Terminal => shape \in {"unsupported", "reversed", "zero"}
  <1>1. /\ NoCode \notin Retryable /\ NoCode \notin Terminal
        /\ NotFound(kind) \in Terminal /\ NotFound(kind) \notin Retryable
    BY CodesApart
  <1>2. /\ "upstream_incomplete" \in Retryable \ Terminal /\ "blocked_page" \in Retryable
        /\ "unsupported_product_type" \in Terminal /\ "one_page_only" \in Terminal
    BY DEF Retryable, Terminal, NotFound
  <1>3. "unsupported_product_type" \notin Retryable /\ "one_page_only" \notin Retryable
    BY DEF Retryable
  <1>4. /\ shape = "partial" => ShapeIssue(kind, shape) = "upstream_incomplete"
        /\ shape = "unsupported" => ShapeIssue(kind, shape) = "unsupported_product_type"
        /\ shape = "reversed" => ShapeIssue(kind, shape) = "one_page_only"
        /\ shape = "zero" => ShapeIssue(kind, shape) = NotFound(kind)
        /\ shape = "whole" => ShapeIssue(kind, shape) = NoCode
    BY DEF ShapeIssue
  <1> QED
    BY <1>1, <1>2, <1>3, <1>4 DEF Code

LEMMA IssueFacts ==
  ASSUME NEW kind \in Kind, NEW p \in PageType
  PROVE  LET code == Issue(kind, p) IN
         /\ code = NoCode <=> p.signs = {} /\ p.shape = "whole"
         /\ code \in Code
         /\ code = "blocked_page" <=> "blocked" \in p.signs
         /\ code # NoCode => code \in Retryable \/ Deserved(code, kind, p)
  <1> DEFINE signs == p.signs  shape == p.shape  code == Issue(kind, p)
             sign == PageIssue(kind, signs)  form == ShapeIssue(kind, shape)
  <1>1. /\ signs \in SUBSET {"blocked", "missing", "temporary"}
        /\ shape \in {"whole", "partial", "unsupported", "reversed", "zero"}
    BY DEF PageType
  <1>2. /\ sign = NoCode <=> signs = {}
        /\ sign \in {"blocked_page", "upstream_incomplete", NotFound(kind), NoCode}
        /\ sign = "blocked_page" <=> "blocked" \in signs
        /\ sign = NotFound(kind) => /\ "missing" \in signs
                                    /\ "temporary" \in signs => kind \in MissingFirst
    BY <1>1, SignsFacts
  <1>3. /\ form = NoCode <=> shape = "whole"
        /\ form \in Code /\ form # "blocked_page"
        /\ form \in Terminal => shape \in {"unsupported", "reversed", "zero"}
    BY <1>1, ShapeFacts
  <1>4. (sign # NoCode => code = sign) /\ (sign = NoCode => code = form)
    BY DEF Issue
  <1>5. /\ NoCode \notin Retryable /\ NoCode \notin Terminal
        /\ NotFound(kind) \in Terminal /\ NotFound(kind) \notin Retryable
        /\ {"blocked_page", "upstream_incomplete"} \subseteq Retryable
        /\ NotFound(kind) # "blocked_page"
    <2>1. "blocked_page" \in Retryable /\ "upstream_incomplete" \in Retryable
      BY DEF Retryable
    <2> QED
      BY <2>1, CodesApart
  <1>6. kind \in MissingFirst =>
          kind \notin SearchKinds \cup {"category_asin_list", "merchant_home", "merchant_products"}
    BY DEF MissingFirst, SearchKinds, ProductKinds
  <1> HIDE DEF signs, shape, code, sign, form
  <1>7. CASE sign # NoCode
    <2>1. code \in Code /\ (code = NoCode <=> signs = {} /\ shape = "whole")
      BY <1>2, <1>4, <1>5, <1>7 DEF Code
    <2>2. code = "blocked_page" <=> "blocked" \in signs
      BY <1>2, <1>4, <1>7
    <2>3. code \in Retryable \/ Deserved(code, kind, p)
      <3>1. CASE code = NotFound(kind)
        <4>1. "blocked" \notin signs
          BY <1>2, <1>4, <1>5, <1>7, <3>1
        <4>2. code \in Terminal /\ "missing" \in signs /\ ("temporary" \in signs => kind \in MissingFirst)
          BY <1>2, <1>4, <1>5, <1>7, <3>1
        <4> QED
          BY <1>6, <4>1, <4>2 DEF Deserved, signs
      <3>2. CASE code # NotFound(kind)
        BY <1>2, <1>4, <1>5, <1>7, <3>2
      <3> QED
        BY <3>1, <3>2
    <2> QED
      BY <2>1, <2>2, <2>3 DEF code, signs, shape
  <1>8. CASE sign = NoCode
    <2>1. code \in Code /\ (code = NoCode <=> signs = {} /\ shape = "whole") /\ signs = {}
      BY <1>2, <1>3, <1>4, <1>8
    <2>2. code = "blocked_page" <=> "blocked" \in signs
      BY <1>3, <1>4, <1>8, <2>1
    <2>3. code # NoCode => code \in Retryable \/ Deserved(code, kind, p)
      <3>1. code # NoCode /\ code \notin Retryable => code \in Terminal /\ shape \in {"unsupported", "reversed", "zero"}
        BY <1>3, <1>4, <1>8 DEF Code
      <3> QED
        BY <2>1, <3>1 DEF Deserved, signs, shape
    <2> QED
      BY <2>1, <2>2, <2>3 DEF code, signs, shape
  <1> QED
    BY <1>7, <1>8

\* Only a whole page without a sign has rows or a continuation, and only a rank list one.
LEMMA PageFacts ==
  ASSUME root \in Roots, NEW kind \in Kind, NEW page \in 1 .. 2, NEW p \in Page(kind, page)
  PROVE  /\ p \in PageType
         /\ p.rows # << >> \/ p.more > 0 => Good(p)
         /\ p.more > 0 => kind = "rank_list" /\ p.parsed
  <1>1. RowsOf(kind) \subseteq Seq(Nat)
    <2>a. << >> \in Seq(Nat) /\ <<1>> \in Seq(Nat)
      OBVIOUS
    <2>1. \A total \in Nat : [n \in PageNumbers(total) |-> n] \in Seq(Nat)
      <3> SUFFICES ASSUME NEW total \in Nat PROVE [n \in PageNumbers(total) |-> n] \in Seq(Nat)
        OBVIOUS
      <3>1. (total + 15) \div 16 \in Nat
        OBVIOUS
      <3>2. PICK m \in Nat : PageNumbers(total) = 1 .. m
        BY <3>1 DEF PageNumbers
      <3> QED
        BY <3>2
    <2>2. /\ Listings \subseteq Seq(Nat) /\ {<< >>} \cup RankRows \subseteq Seq(Nat)
          /\ << >> \in Seq(Nat) /\ <<1>> \in Seq(Nat)
      BY <2>a, PageConstants
    <2>3. root.total \in Nat
      BY RootFacts
    <2>4. CASE kind = "merchant_home"
      <3>1. RowsOf(kind) = {<< >>, [n \in PageNumbers(root.total) |-> n]}
        BY <2>4 DEF RowsOf
      <3> QED
        BY <2>1, <2>2, <2>3, <2>4, <3>1
    <2>5. CASE kind # "merchant_home"
      <3>1. RowsOf(kind) \in {Listings, {<<1>>}, {<< >>} \cup RankRows, {<< >>, <<1>>}}
        BY <2>5 DEF RowsOf
      <3> QED
        BY <2>2, <3>1
    <2> QED
      BY <2>4, <2>5
  <1>2. \A shape \in Shapes(kind, page) : shape \in {"whole", "partial", "unsupported", "reversed", "zero"}
    BY DEF Shapes
  <1>3. MaxListed \in Nat /\ \A signs \in Signs : signs \in SUBSET {"blocked", "missing", "temporary"}
    BY PageConstants
  <1> DEFINE Bare(signs, shape) ==
        [signs |-> signs, shape |-> shape, parsed |-> TRUE, rows |-> << >>, more |-> 0]
  <1>4. << >> \in Seq(Nat)
    OBVIOUS
  <1> DEFINE M == IF kind = "rank_list" THEN {0, MaxListed} ELSE {0}
  <1>5. CASE p \in [signs : {{}}, shape : {"whole"}, parsed : {TRUE}, rows : RowsOf(kind), more : M]
    <2>0. \A m \in M : m \in Nat /\ (m > 0 => kind = "rank_list")
      BY <1>3
    <2> HIDE DEF M
    <2>1. /\ p.signs = {} /\ p.shape = "whole" /\ p.parsed = TRUE /\ p.rows \in RowsOf(kind)
          /\ p.more \in Nat /\ (p.more > 0 => kind = "rank_list")
      BY <1>5, <2>0
    <2>2. p = [signs |-> p.signs, shape |-> p.shape, parsed |-> p.parsed, rows |-> p.rows, more |-> p.more]
      BY <1>5
    <2> QED
      BY <1>1, <2>1, <2>2 DEF PageType, Good
  <1>6. CASE p = [Bare({}, "whole") EXCEPT !.parsed = FALSE]
    <2>1. p = [signs |-> {}, shape |-> "whole", parsed |-> FALSE, rows |-> << >>, more |-> 0]
      BY <1>6
    <2> QED
      BY <1>4, <2>1 DEF PageType, Good
  <1>7. CASE \E shape \in Shapes(kind, page) \ {"whole"} : p = Bare({}, shape)
    BY <1>2, <1>4, <1>7 DEF PageType, Good
  <1>8. CASE \E signs \in Signs \ {{}} : p = Bare(signs, "whole")
    BY <1>3, <1>4, <1>8 DEF PageType, Good
  <1> QED
    BY <1>5, <1>6, <1>7, <1>8 DEF Page

LEMMA GoodFacts ==
  ASSUME NEW kind \in Kind, NEW p \in PageType, Good(p)
  PROVE  Issue(kind, p) = NoCode /\ "blocked" \notin p.signs /\ p.parsed
  BY IssueFacts DEF Good

\* The code of an empty page.
LEMMA EmptyFacts ==
  ASSUME NEW kind \in Kind, NEW page \in 1 .. 2, NEW p \in PageType,
         Issue(kind, p) = NoCode, p.parsed, p.rows = << >>
  PROVE  LET code == Empty(kind, page) IN
         code \in Code \ {NoCode} /\ (code \in Retryable \/ Deserved(code, kind, p))
  <1>1. p.signs = {}
    BY IssueFacts
  <1>2. CASE kind \in ProductKinds
    <2>1. Empty(kind, page) = "missing_product_identity"
      BY <1>2 DEF Empty, ProductKinds, SearchKinds
    <2> QED
      BY <2>1, CodesApart DEF Retryable, Code
  <1>3. CASE kind \notin ProductKinds
    <2>1. Empty(kind, page) \in {"one_page_only", NotFound(kind)}
      BY <1>3 DEF Empty
    <2>2. "one_page_only" \in Terminal
      BY DEF Terminal
    <2>3. Empty(kind, page) \in Terminal
      BY <2>1, <2>2, CodesApart
    <2> QED
      BY <1>1, <1>3, <2>3, CodesApart DEF Deserved, Code
  <1> QED
    BY <1>2, <1>3

LEMMA ProductsSound ==
  ASSUME NEW i, NEW p, p.rows \in Seq(Nat), p.more \in Nat
  PROVE  /\ Products(i, p) \in Seq(Nat)
         /\ KindOf(i) = "rank_list" /\ p.more > 0 => Products(i, p) = p.rows
         /\ KindOf(i) = "rank_list" /\ p.more = 0 => Products(i, p) = Unique(p.rows)
  <1> DEFINE kept == {n \in Firsts(p.rows) : p.rows[n] # 0}
  <1>1. kept \in SUBSET DOMAIN p.rows
    BY DEF Firsts
  <1> HIDE DEF kept
  <1>2. Picked(p.rows, kept) \in Seq(Nat) /\ Unique(p.rows) \in Seq(Nat)
    BY <1>1, PickedSound, UniqueSound
  <1>3. ~(p.more > 0 /\ p.more = 0)
    OBVIOUS
  <1> QED
    BY <1>2, <1>3 DEF Products, kept
-----------------------------------------------------------------------------
(* The rows of a rank list *)

LEMMA ChunksFacts ==
  ASSUME NEW more \in Nat
  PROVE  \E n \in Nat : Chunks(more) = 1 .. n /\ n = (more + ChunkSize - 1) \div ChunkSize
  <1>1. \A n \in Nat \ {0} : (more + n - 1) \div n \in Nat
    OBVIOUS
  <1> QED
    BY <1>1, PageConstants DEF Chunks
-----------------------------------------------------------------------------
(* Items *)

LEMMA SameKind ==
  ASSUME root' = root
  PROVE  \A i : KindOf(i)' = KindOf(i) /\ PageOf(i)' = PageOf(i)
  BY DEF KindOf, PageOf

LEMMA SamePages ==
  ASSUME root' = root
  PROVE  \A kind, n : Page(kind, n)' = Page(kind, n)
  BY DEF Page, RowsOf

LEMMA ItemFacts ==
  ASSUME ItemInv, NEW i \in DOMAIN item
  PROVE  /\ i \in Seq(Nat) /\ item[i] \in ItemType
         /\ item[i].status \in {"pending", "running", "succeeded", "failed"}
         /\ item[i].attempts \in 0 .. MaxAttempts /\ item[i].attempts \in Nat
         /\ item[i].code \in Code /\ item[i].rows \in Seq(Nat)
         /\ item[i] = [status |-> item[i].status, attempts |-> item[i].attempts,
                       code |-> item[i].code, rows |-> item[i].rows]
         /\ MaxAttempts \in Nat \ {0}
  <1>1. item[i] \in ItemType /\ i \in Seq(Nat)
    BY DEF ItemInv
  <1>2. MaxAttempts \in Nat \ {0}
    BY PageConstants
  <1> QED
    BY <1>1, <1>2 DEF ItemType

\* Item i of I is over, or to be tried again, in J, where the items that follow from it are new.
Ends(i, I, J) ==
  /\ DOMAIN I \subseteq DOMAIN J /\ IsFiniteSet(DOMAIN J) /\ DOMAIN J \subseteq Seq(Nat)
  /\ J \in [DOMAIN J -> ItemType]
  /\ \A j \in DOMAIN I \ {i} : J[j] = I[j]
  /\ J[i].attempts = I[i].attempts /\ J[i].status # "running"
  /\ J[i].status = "pending" => J[i].attempts < MaxAttempts
  /\ \A j \in DOMAIN J \ DOMAIN I :
       J[j] = NewItem /\ j # << >> /\ Front(j) = i /\ J[i].status = "succeeded"

LEMMA NewItemFacts ==
  NewItem \in ItemType /\ NewItem.status = "pending" /\ NewItem.attempts = 0 /\ 0 < MaxAttempts
  BY PageConstants DEF NewItem, ItemType, Code

LEMMA CompletedEnds ==
  ASSUME ItemInv, NEW i \in DOMAIN item, item[i].status = "running", NEW rows \in Seq(Nat)
  PROVE  LET J == Completed(i, rows) IN
         Ends(i, item, J) /\ J[i].status = "succeeded" /\ J[i].rows = rows
  <1> DEFINE J == Completed(i, rows)
             D == Derived(i, rows)
  <1>1. i \in Seq(Nat) /\ item[i] \in ItemType
    BY ItemFacts
  <1>2. IsFiniteSet(D) /\ \A j \in D : j \in Seq(Nat) /\ j # << >> /\ Front(j) = i
    <2> DEFINE P == {Append(i, rows[n]) : n \in DOMAIN rows}
               f == [n \in DOMAIN rows |-> Append(i, rows[n])]
    <2>1. IsFiniteSet(DOMAIN rows)
      <3>1. DOMAIN rows = 1 .. Len(rows) /\ 1 \in Int /\ Len(rows) \in Int
        OBVIOUS
      <3> QED
        BY <3>1, FS_Interval
    <2>2. f \in Surjection(DOMAIN rows, P)
      BY DEF Surjection
    <2>3. IsFiniteSet(P)
      BY <2>1, <2>2, FS_Surjection
    <2>4. \A x \in Nat : Append(i, x) \in Seq(Nat) /\ Append(i, x) # << >> /\ Front(Append(i, x)) = i
      BY <1>1 DEF Front
    <2>5. \A j \in P : j \in Seq(Nat) /\ j # << >> /\ Front(j) = i
      <3>1. \A n \in DOMAIN rows : rows[n] \in Nat
        OBVIOUS
      <3>2. \A j \in P : \E x \in Nat : j = Append(i, x)
        BY <3>1
      <3> HIDE DEF P
      <3> QED
        BY <2>4, <3>2
    <2>6. D = P \/ D = {}
      BY DEF Derived
    <2> HIDE DEF P, D
    <2> QED
      BY <2>3, <2>5, <2>6, FS_EmptySet
  <1> HIDE DEF D
  <1>3. DOMAIN J = DOMAIN item \cup D
    BY DEF Completed, D
  <1>4. J[i] = [status |-> "succeeded", attempts |-> item[i].attempts, code |-> NoCode, rows |-> rows]
    <2>1. J[i] = [item[i] EXCEPT !.status = "succeeded", !.rows = rows, !.code = NoCode]
      BY DEF Completed
    <2> QED
      BY <1>1, <2>1 DEF ItemType
  <1>5. \A j \in DOMAIN item \ {i} : J[j] = item[j]
    BY DEF Completed
  <1>6. \A j \in D \ DOMAIN item : J[j] = NewItem
    BY DEF Completed, D
  <1> HIDE DEF J
  <1>7. \A j \in DOMAIN J : J[j] \in ItemType
    <2>1. J[i] \in ItemType
      BY <1>1, <1>4 DEF ItemType, Code
    <2>2. \A j \in DOMAIN item : item[j] \in ItemType
      BY DEF ItemInv
    <2> QED
      BY <1>3, <1>5, <1>6, <2>1, <2>2, NewItemFacts
  <1>8. J = [j \in DOMAIN J |-> J[j]]
    BY DEF J, Completed
  <1>9. IsFiniteSet(DOMAIN J) /\ DOMAIN J \subseteq Seq(Nat)
    BY <1>2, <1>3, FS_Union DEF ItemInv
  <1>10. J \in [DOMAIN J -> ItemType]
    BY <1>7, <1>8
  <1>11. /\ DOMAIN item \subseteq DOMAIN J
         /\ J[i].attempts = item[i].attempts /\ J[i].status = "succeeded" /\ J[i].rows = rows
         /\ \A j \in DOMAIN J \ DOMAIN item : J[j] = NewItem /\ j # << >> /\ Front(j) = i
    BY <1>2, <1>3, <1>4, <1>6
  <1> QED
    BY <1>5, <1>9, <1>10, <1>11 DEF Ends, J

LEMMA FailedEnds ==
  ASSUME ItemInv, NEW i \in DOMAIN item, item[i].status = "running", NEW code \in Code
  PROVE  LET J == Failed(i, code) IN
         /\ Ends(i, item, J) /\ DOMAIN J = DOMAIN item /\ J[i].status \in {"pending", "failed"}
         /\ J[i].status = "failed" =>
              J[i].code = code /\ (code \in Retryable => J[i].attempts = MaxAttempts)
  <1> DEFINE J == Failed(i, code)
             again == code \in Retryable /\ item[i].attempts < MaxAttempts
             st == IF again THEN "pending" ELSE "failed"
  <1>1. /\ item[i] \in ItemType /\ item[i].attempts \in 0 .. MaxAttempts /\ MaxAttempts \in Nat
        /\ item[i].attempts \in Nat
    BY ItemFacts
  <1>2. item \in [DOMAIN item -> ItemType]
    BY DEF ItemInv
  <1>3. st \in {"pending", "failed"}
    OBVIOUS
  <1>4. J = [item EXCEPT ![i].status = st, ![i].code = code]
    BY DEF Failed
  <1> HIDE DEF J, st
  <1>5. /\ DOMAIN J = DOMAIN item
        /\ J[i] = [status |-> st, attempts |-> item[i].attempts, code |-> code, rows |-> item[i].rows]
        /\ \A j \in DOMAIN item \ {i} : J[j] = item[j]
    <2>1. J[i] = [[item[i] EXCEPT !.status = st] EXCEPT !.code = code]
      BY <1>2, <1>4
    <2>2. \A r \in ItemType, x \in {"pending", "failed"} :
            [r EXCEPT !.status = x] =
              [status |-> x, attempts |-> r.attempts, code |-> r.code, rows |-> r.rows]
      BY DEF ItemType
    <2>3. \A a, b, c, d, x, y : x = [status |-> a, attempts |-> b, code |-> c, rows |-> d] =>
            [x EXCEPT !.code = y] = [status |-> a, attempts |-> b, code |-> y, rows |-> d]
      OBVIOUS
    <2> DEFINE x == [item[i] EXCEPT !.status = st]
               a == item[i].attempts
               d == item[i].rows
    <2>6. x = [status |-> st, attempts |-> a, code |-> item[i].code, rows |-> d]
      BY <1>1, <1>3, <2>2
    <2> HIDE DEF x, a, d
    <2>7. [x EXCEPT !.code = code] = [status |-> st, attempts |-> a, code |-> code, rows |-> d]
      BY <2>3, <2>6
    <2>4. [[item[i] EXCEPT !.status = st] EXCEPT !.code = code] =
            [status |-> st, attempts |-> item[i].attempts, code |-> code, rows |-> item[i].rows]
      BY <2>7 DEF x, a, d
    <2>5. DOMAIN J = DOMAIN item /\ \A j \in DOMAIN item \ {i} : J[j] = item[j]
      BY <1>2, <1>4
    <2> QED
      BY <2>1, <2>4, <2>5
  <1>6. J[i] \in ItemType
    BY <1>1, <1>3, <1>5 DEF ItemType
  <1>7. J \in [DOMAIN J -> ItemType]
    BY <1>2, <1>4, <1>5, <1>6
  <1>8. st = "failed" /\ code \in Retryable => item[i].attempts = MaxAttempts
    BY <1>1 DEF st
  <1>9. st = "pending" => item[i].attempts < MaxAttempts
    BY DEF st
  <1> QED
    BY <1>3, <1>5, <1>7, <1>8, <1>9 DEF Ends, ItemInv, J

LEMMA EndsItemInv ==
  ASSUME ItemInv, NEW i \in DOMAIN item, item[i].status = "running", Ends(i, item, item'),
         root' = root, broken' \in Nat
  PROVE  ItemInv'
  <1>1. /\ root' \in Roots /\ broken' \in Nat
        /\ IsFiniteSet(DOMAIN item') /\ DOMAIN item' \subseteq Seq(Nat) /\ << >> \in DOMAIN item'
        /\ item' \in [DOMAIN item' -> ItemType]
    BY DEF ItemInv, Ends
  <1>2. ASSUME NEW j \in DOMAIN item', item'[j].status = "pending" PROVE item'[j].attempts < MaxAttempts
    <2>1. CASE j = i
      BY <1>2, <2>1 DEF Ends
    <2>2. CASE j \in DOMAIN item \ {i}
      BY <1>2, <2>2 DEF Ends, ItemInv
    <2>3. CASE j \notin DOMAIN item
      BY <1>2, <2>3, NewItemFacts DEF Ends
    <2> QED
      BY <2>1, <2>2, <2>3
  <1>3. ASSUME NEW j \in DOMAIN item', j # << >>
        PROVE  Front(j) \in DOMAIN item' /\ item'[Front(j)].status = "succeeded"
    <2>1. CASE j \in DOMAIN item
      <3>1. Front(j) \in DOMAIN item /\ item[Front(j)].status = "succeeded"
        BY <1>3, <2>1 DEF ItemInv
      <3>2. Front(j) # i
        BY <3>1
      <3> QED
        BY <3>1, <3>2 DEF Ends
    <2>2. CASE j \notin DOMAIN item
      BY <1>3, <2>2 DEF Ends
    <2> QED
      BY <2>1, <2>2
  <1> QED
    BY <1>1, <1>2, <1>3 DEF ItemInv
-----------------------------------------------------------------------------
(* What a step leaves as it was *)

LEMMA SameExecution ==
  ASSUME NEW t \in Slot, HeldAt(t), root' = root, broken \in Nat, broken' \in Nat, broken <= broken',
         exec'[t] = exec[t], item'[exec[t].item].attempts = item[exec[t].item].attempts,
         PageId(exec[t].item, 0) \in DOMAIN read',
         read'[PageId(exec[t].item, 0)] = read[PageId(exec[t].item, 0)]
  PROVE  HeldAt(t)'
  <1> DEFINE i == exec[t].item  id == PageId(i, 0)
  <1>1. PageId(i, 0)' = id /\ exec'[t].item = i
    BY DEF PageId
  <1>2. KindOf(i)' = KindOf(i) /\ PageOf(i)' = PageOf(i)
    BY SameKind
  <1>3. \A e, p, said, kind, n : Held(e, p, said, kind, n, broken) => Held(e, p, said, kind, n, broken')
    BY DEF Held
  <1>4. id \in DOMAIN read' /\ Held(exec'[t], read'[id].seen, read'[id].said, KindOf(i)', PageOf(i)', broken')
    BY <1>2, <1>3 DEF HeldAt
  <1> HIDE DEF id
  <1> QED
    BY <1>1, <1>2, <1>4 DEF HeldAt, PageId, id

LEMMA SamePage ==
  ASSUME NEW id, ReadAt(id), root' = root, broken \in Nat, broken' \in Nat, broken <= broken',
         read'[id] = read[id], id[1] \in DOMAIN item', id[2] <= item'[id[1]].attempts,
         NotNow(id, item', exec'),
         id[3] = 0 /\ Past(id, item') => Past(id, item),
         id[3] # 0 /\ read[id].said = << >> => id \in DOMAIN stream'
  PROVE  ReadAt(id)'
  <1>1. Page(KindOf(id[1]), PageOf(id[1]))' = Page(KindOf(id[1]), PageOf(id[1]))
    BY SameKind, SamePages
  <1>2. Fair(id, read'[id].seen, ToSet(read'[id].said), broken')
    BY DEF ReadAt, Fair
  <1> QED
    BY <1>1, <1>2 DEF ReadAt

LEMMA SameChunk ==
  ASSUME NEW k, ChunkAt(k), broken \in Nat, broken' \in Nat, broken <= broken',
         stream'[k] = stream[k], k[1] \in DOMAIN item', k[2] <= item'[k[1]].attempts,
         NotNow(k, item', exec'),
         <<k[1], k[2], 0>> \in DOMAIN read',
         read'[<<k[1], k[2], 0>>].seen = read[<<k[1], k[2], 0>>].seen,
         k \in DOMAIN read' <=> k \in DOMAIN read,
         k \in DOMAIN read => read'[k] = read[k]
  PROVE  ChunkAt(k)'
  <1>1. ChunkRight(k, stream'[k], read', broken')
    BY DEF ChunkAt, ChunkRight
  <1> QED
    BY <1>1 DEF ChunkAt

LEMMA SameEnd ==
  ASSUME NEW i, EndAt(i), root' = root, item'[i] = item[i],
         PageId(i, 0) \in DOMAIN read =>
           PageId(i, 0) \in DOMAIN read' /\ read'[PageId(i, 0)].seen = read[PageId(i, 0)].seen
  PROVE  EndAt(i)'
  <1>1. PageId(i, 0)' = PageId(i, 0) /\ KindOf(i)' = KindOf(i)
    BY SameKind DEF PageId
  <1> QED
    BY <1>1 DEF EndAt

LEMMA SameRankEnd ==
  ASSUME RankEnd, root' = root, item'[<< >>] = item[<< >>],
         PageId(<< >>, 0) \in DOMAIN read =>
           /\ PageId(<< >>, 0) \in DOMAIN read'
           /\ read'[PageId(<< >>, 0)].seen = read[PageId(<< >>, 0)].seen
  PROVE  RankEnd'
  <1>1. PageId(<< >>, 0)' = PageId(<< >>, 0)
    BY DEF PageId
  <1> QED
    BY <1>1 DEF RankEnd

LEMMA ExecFacts ==
  ASSUME ExecInv, NEW s \in Slot, exec[s] # Idle
  PROVE  /\ exec[s] \in ExecType(DOMAIN item)
         /\ exec[s].item \in DOMAIN item /\ item[exec[s].item].status = "running"
         /\ exec[s].code \in Code /\ exec[s].rows \in Seq(Nat) /\ exec[s].more \in Nat
         /\ exec[s].pc \in {"fetching", "issue", "error", "empty", "gathering", "partial", "usable"}
  BY DEF ExecInv, ExecType

\* Page ids are told apart by their parts.
LEMMA IdFacts ==
  /\ \A id \in Id : id = <<id[1], id[2], id[3]>> /\ id[1] \in Seq(Nat) /\ id[2] \in Nat /\ id[3] \in Nat
  /\ \A i, n : PageId(i, n)[1] = i /\ PageId(i, n)[2] = item[i].attempts /\ PageId(i, n)[3] = n
  BY DEF Id, PageId
-----------------------------------------------------------------------------
(* An item is claimed. *)

LEMMA ClaimEffect ==
  ASSUME PagesInv, NEW s \in Slot, NEW i \in DOMAIN item, Claim(s, i)
  PROVE  /\ item[i].attempts < MaxAttempts
         /\ item' \in [DOMAIN item -> ItemType]
         /\ item'[i].status = "running" /\ item'[i].attempts = item[i].attempts + 1
         /\ \A j \in DOMAIN item \ {i} : item'[j] = item[j]
         /\ exec'[s].item = i /\ exec'[s].pc = "fetching" /\ exec'[s] \in ExecType(DOMAIN item)
         /\ \A t \in Slot \ {s} : exec'[t] = exec[t] /\ (exec[t] # Idle => exec[t].item # i)
         /\ exec' \in [Slot -> {Idle} \cup ExecType(DOMAIN item)]
  <1> USE DEF PagesInv
  <1>1. /\ item[i] \in ItemType /\ item[i].status = "pending" /\ item[i].attempts < MaxAttempts
        /\ item[i].attempts \in Nat /\ MaxAttempts \in Nat
    BY ItemFacts DEF Claim, ItemInv
  <1>2. item \in [DOMAIN item -> ItemType] /\ exec \in [Slot -> {Idle} \cup ExecType(DOMAIN item)]
    BY DEF ItemInv, ExecInv
  <1>3. item' = [item EXCEPT ![i].status = "running", ![i].attempts = @ + 1]
    BY DEF Claim
  <1>4. /\ DOMAIN item' = DOMAIN item
        /\ item'[i] = [[item[i] EXCEPT !.status = "running"] EXCEPT !.attempts = item[i].attempts + 1]
        /\ \A j \in DOMAIN item \ {i} : item'[j] = item[j]
        /\ item' = [j \in DOMAIN item |-> item'[j]]
    BY <1>1, <1>2, <1>3 DEF ItemType
  <1>5. item'[i] = [status |-> "running", attempts |-> item[i].attempts + 1, code |-> item[i].code,
                    rows |-> item[i].rows]
    <2>1. [item[i] EXCEPT !.status = "running"] =
            [status |-> "running", attempts |-> item[i].attempts, code |-> item[i].code,
             rows |-> item[i].rows]
      BY <1>1 DEF ItemType
    <2> DEFINE x == [item[i] EXCEPT !.status = "running"]
               a == item[i].attempts
               c == item[i].code
               d == item[i].rows
    <2>2. x = [status |-> "running", attempts |-> a, code |-> c, rows |-> d]
      BY <2>1
    <2>3. item'[i] = [x EXCEPT !.attempts = a + 1]
      BY <1>4
    <2> HIDE DEF x, a, c, d
    <2>4. item'[i] = [status |-> "running", attempts |-> a + 1, code |-> c, rows |-> d]
      BY <2>2, <2>3
    <2> QED
      BY <2>4 DEF a, c, d
  <1>6. item'[i] \in ItemType
    BY <1>1, <1>5 DEF ItemType
  <1>7. item' \in [DOMAIN item -> ItemType]
    BY <1>2, <1>4, <1>6
  <1>8. exec' = [exec EXCEPT ![s] = [item |-> i, pc |-> "fetching", code |-> NoCode,
                                     rows |-> << >>, more |-> 0]]
    BY DEF Claim
  <1>9. [item |-> i, pc |-> "fetching", code |-> NoCode, rows |-> << >>, more |-> 0] \in ExecType(DOMAIN item)
    BY DEF ExecType, Code
  <1>10. \A t \in Slot \ {s} : exec'[t] = exec[t] /\ (exec[t] # Idle => exec[t].item # i)
    <2>1. \A t \in Slot \ {s} : exec'[t] = exec[t]
      BY <1>2, <1>8
    <2>2. \A t \in Slot : exec[t] # Idle => exec[t].item # i
      BY <1>1 DEF ExecInv
    <2> QED
      BY <2>1, <2>2
  <1>11. /\ exec'[s].item = i /\ exec'[s].pc = "fetching" /\ exec'[s] \in ExecType(DOMAIN item)
         /\ exec' \in [Slot -> {Idle} \cup ExecType(DOMAIN item)]
    BY <1>2, <1>8, <1>9
  <1> QED
    BY <1>1, <1>4, <1>5, <1>7, <1>10, <1>11

LEMMA ClaimStep ==
  ASSUME PagesInv, NEW s \in Slot, NEW i \in DOMAIN item, Claim(s, i)
  PROVE  PagesInv'
  <1> USE DEF PagesInv
  <1>1. /\ item[i].status = "pending" /\ exec[s] = Idle
        /\ root' = root /\ stream' = stream /\ broken' = broken
        /\ read' = [id \in {l \in DOMAIN read : l[1] # i \/ \E k \in DOMAIN stream : k[1] = i} |-> read[id]]
    BY DEF Claim
  <1>2. /\ item[i].attempts < MaxAttempts
        /\ item' \in [DOMAIN item -> ItemType]
        /\ item'[i].status = "running" /\ item'[i].attempts = item[i].attempts + 1
        /\ \A j \in DOMAIN item \ {i} : item'[j] = item[j]
        /\ exec'[s].item = i /\ exec'[s].pc = "fetching" /\ exec'[s] \in ExecType(DOMAIN item)
        /\ \A t \in Slot \ {s} : exec'[t] = exec[t] /\ (exec[t] # Idle => exec[t].item # i)
        /\ exec' \in [Slot -> {Idle} \cup ExecType(DOMAIN item)]
    BY ClaimEffect
  <1>3. /\ broken \in Nat /\ broken' \in Nat /\ broken <= broken'
        /\ \A j \in DOMAIN item : item[j].attempts \in Nat
        /\ DOMAIN item' = DOMAIN item
    BY <1>1, <1>2, ItemFacts DEF ItemInv
  <1>4. /\ \A id \in DOMAIN read' : id \in DOMAIN read /\ read'[id] = read[id]
        /\ \A id \in DOMAIN read : id[1] # i => id \in DOMAIN read'
        /\ \A id \in DOMAIN read, k \in DOMAIN stream : k[1] = id[1] => id \in DOMAIN read'
    BY <1>1
  <1>5. \A id \in Id : id[1] \in DOMAIN item /\ id[2] <= item[id[1]].attempts =>
                   id[2] <= item'[id[1]].attempts
                   /\ (NotNow(id, item, exec) => NotNow(id, item', exec'))
                   /\ (Past(id, item') => Past(id, item))
    <2> SUFFICES ASSUME NEW id \in Id, id[1] \in DOMAIN item, id[2] <= item[id[1]].attempts
                 PROVE  /\ id[2] <= item'[id[1]].attempts
                        /\ (NotNow(id, item, exec) => NotNow(id, item', exec'))
                        /\ (Past(id, item') => Past(id, item))
      OBVIOUS
    <2>1. CASE id[1] = i
      <3>1. id[2] < item'[i].attempts /\ Past(id, item)
        <4>1. id[2] \in Nat /\ item[i].attempts \in Nat
          BY <1>3, IdFacts
        <4> QED
          BY <1>1, <1>2, <2>1, <4>1 DEF Past
      <3>2. id[2] \in Nat /\ item'[i].attempts \in Nat
        BY <1>2, <1>3, IdFacts
      <3> QED
        BY <2>1, <3>1, <3>2 DEF NotNow
    <2>2. CASE id[1] # i
      <3>1. item'[id[1]] = item[id[1]]
        BY <1>2, <2>2
      <3>2. NotNow(id, item, exec) => NotNow(id, item', exec')
        BY <1>2, <2>2, <3>1 DEF NotNow
      <3> QED
        BY <3>1, <3>2 DEF Past
    <2> QED
      BY <2>1, <2>2
  <1>6. ItemInv'
    <2>1. \A j \in DOMAIN item' : item'[j].status = "pending" => item'[j].attempts < MaxAttempts
      BY <1>2, <1>3 DEF ItemInv
    <2>2. ASSUME NEW j \in DOMAIN item', j # << >>
          PROVE  Front(j) \in DOMAIN item' /\ item'[Front(j)].status = "succeeded"
      <3>1. Front(j) \in DOMAIN item /\ item[Front(j)].status = "succeeded"
        BY <1>3, <2>2 DEF ItemInv
      <3>2. Front(j) # i
        BY <1>1, <3>1
      <3> QED
        BY <1>2, <1>3, <3>1, <3>2
    <2> QED
      BY <1>1, <1>2, <1>3, <2>1, <2>2 DEF ItemInv
  <1>7. ExecInv'
    <2>1. \A t \in Slot : exec'[t] # Idle => item'[exec'[t].item].status = "running"
      BY <1>2 DEF ExecInv, ExecType
    <2>2. \A t, u \in Slot : t # u /\ Idle \notin {exec'[t], exec'[u]} => exec'[t].item # exec'[u].item
      BY <1>2 DEF ExecInv
    <2> QED
      BY <1>2, <1>3, <2>1, <2>2 DEF ExecInv
  <1>8. HeldInv'
    <2> SUFFICES ASSUME NEW t \in Slot, exec'[t] # Idle, exec'[t].pc # "fetching" PROVE HeldAt(t)'
      BY DEF HeldInv
    <2>1. t # s
      BY <1>2
    <2>2. exec'[t] = exec[t] /\ exec[t].item \in DOMAIN item \ {i}
      BY <1>2, <2>1, ExecFacts
    <2>3. HeldAt(t)
      BY <2>2 DEF HeldInv
    <2>4. PageId(exec[t].item, 0) \in DOMAIN read /\ PageId(exec[t].item, 0)[1] # i
      BY <2>2, <2>3, IdFacts DEF HeldAt
    <2>5. PageId(exec[t].item, 0) \in DOMAIN read'
      BY <1>4, <2>4
    <2> QED
      BY <1>1, <1>2, <1>3, <1>4, <2>2, <2>3, <2>5, SameExecution
  <1>9. ReadInv'
    <2>1. ASSUME NEW id \in DOMAIN read' PROVE ReadAt(id)'
      <3>1. id \in DOMAIN read /\ id \in Id /\ ReadAt(id) /\ read'[id] = read[id]
        BY <1>4 DEF ReadInv
      <3>2. id[1] \in DOMAIN item' /\ id[2] <= item'[id[1]].attempts /\ NotNow(id, item', exec')
            /\ (Past(id, item') => Past(id, item))
        BY <1>3, <1>5, <3>1 DEF ReadAt
      <3>3. id[3] # 0 /\ read[id].said = << >> => id \in DOMAIN stream'
        BY <1>1, <3>1 DEF ReadAt
      <3> QED
        BY <1>1, <1>3, <3>1, <3>2, <3>3, SamePage
    <2>2. read' \in [DOMAIN read' -> ReadType]
      <3>1. \A id \in DOMAIN read' : read'[id] \in ReadType
        BY <1>4 DEF ReadInv
      <3>2. read' = [id \in DOMAIN read' |-> read'[id]]
        BY <1>1
      <3> QED
        BY <3>1, <3>2
    <2> QED
      BY <1>4, <2>1, <2>2 DEF ReadInv
  <1>10. StreamInv'
    <2>1. ASSUME NEW k \in DOMAIN stream PROVE ChunkAt(k)'
      <3>1. k \in Id /\ ChunkAt(k)
        BY DEF StreamInv
      <3>2. k[1] \in DOMAIN item' /\ k[2] <= item'[k[1]].attempts /\ NotNow(k, item', exec')
        BY <1>3, <1>5, <3>1 DEF ChunkAt
      <3>3. <<k[1], k[2], 0>> \in DOMAIN read
        BY <3>1 DEF ChunkAt, ChunkRight
      <3>4. /\ <<k[1], k[2], 0>> \in DOMAIN read'
            /\ read'[<<k[1], k[2], 0>>].seen = read[<<k[1], k[2], 0>>].seen
        BY <1>4, <3>3
      <3>5. /\ k \in DOMAIN read' <=> k \in DOMAIN read
            /\ k \in DOMAIN read => read'[k] = read[k]
        BY <1>4
      <3>6. stream'[k] = stream[k]
        BY <1>1
      <3> HIDE DEF PagesInv
      <3> QED
        BY <1>3, <3>1, <3>2, <3>4, <3>5, <3>6, SameChunk
    <2>2. ASSUME NEW t \in Slot, exec'[t] # Idle, exec'[t].pc = "gathering" PROVE OwnAt(t)'
      <3>1. t # s /\ exec'[t] = exec[t] /\ exec[t].item \in DOMAIN item \ {i}
        BY <1>2, <2>2, ExecFacts
      <3>2. OwnAt(t)
        BY <2>2, <3>1 DEF StreamInv
      <3>3. item'[exec[t].item] = item[exec[t].item]
        BY <1>2, <3>1
      <3> QED
        BY <1>1, <3>1, <3>2, <3>3 DEF OwnAt, Own, PageId
    <2> QED
      BY <1>1, <2>1, <2>2 DEF StreamInv
  <1>11. EndInv'
    <2>1. ASSUME NEW j \in DOMAIN item' PROVE EndAt(j)'
      <3>1. CASE j = i
        BY <1>2, <3>1 DEF EndAt
      <3>2. CASE j # i
        <4>1. EndAt(j) /\ item'[j] = item[j]
          BY <1>2, <1>3, <3>2 DEF EndInv
        <4>2. PageId(j, 0)[1] # i
          BY <3>2, IdFacts
        <4> HIDE DEF PagesInv
        <4> QED
          BY <1>1, <1>4, <4>1, <4>2, SameEnd
      <3> QED
        BY <3>1, <3>2
    <2>2. RankEnd'
      <3>1. CASE << >> = i
        BY <1>2, <3>1 DEF RankEnd
      <3>2. CASE << >> # i
        <4>1. << >> \in DOMAIN item
          BY DEF ItemInv
        <4> QED
          BY <1>1, <1>2, <1>3, <1>4, <3>2, <4>1, SameRankEnd, IdFacts DEF EndInv
      <3> QED
        BY <3>1, <3>2
    <2> QED
      BY <2>1, <2>2 DEF EndInv
  <1> QED
    BY <1>6, <1>7, <1>8, <1>9, <1>10, <1>11
-----------------------------------------------------------------------------
(* An execution returns. *)

\* The slot is free, the page of its item has been reported and the item is over or to
\* be tried again.
LEMMA Returned ==
  ASSUME PagesInv, NEW s \in Slot, exec[s] # Idle, NEW i, i = exec[s].item,
         Ends(i, item, item'), exec' = [exec EXCEPT ![s] = Idle],
         root' = root, stream' = stream, broken' \in Nat, broken <= broken',
         read' \in [DOMAIN read -> ReadType],
         \A id \in DOMAIN read : id # PageId(i, 0) => read'[id] = read[id],
         PageId(i, 0) \in DOMAIN read =>
           /\ read'[PageId(i, 0)].seen = read[PageId(i, 0)].seen
           /\ read'[PageId(i, 0)].said # << >>
           /\ Fair(PageId(i, 0), read'[PageId(i, 0)].seen, ToSet(read'[PageId(i, 0)].said), broken'),
         EndAt(i)', i = << >> => RankEnd'
  PROVE  PagesInv'
  <1> USE DEF PagesInv
  <1> DEFINE own == PageId(i, 0)
  <1>1. /\ i \in DOMAIN item /\ item[i].status = "running" /\ i \in Seq(Nat)
        /\ item[i].attempts \in Nat /\ broken \in Nat
        /\ exec \in [Slot -> {Idle} \cup ExecType(DOMAIN item)]
    BY ExecFacts, ItemFacts DEF ItemInv, ExecInv
  <1>2. ItemInv'
    BY <1>1, EndsItemInv
  <1>3. /\ \A t \in Slot \ {s} : exec'[t] = exec[t] /\ (exec[t] # Idle => exec[t].item # i)
        /\ exec'[s] = Idle
        /\ exec' \in [Slot -> {Idle} \cup ExecType(DOMAIN item)]
    BY <1>1 DEF ExecInv
  <1>4. /\ DOMAIN item \subseteq DOMAIN item'
        /\ \A j \in DOMAIN item : j # i => item'[j] = item[j]
        /\ \A j \in DOMAIN item : item'[j].attempts = item[j].attempts
        /\ item'[i].status # "running"
    BY <1>1 DEF Ends
  <1>5. ExecInv'
    <2>1. \A t \in Slot : exec'[t] # Idle =>
            /\ t # s /\ exec'[t] = exec[t] /\ exec[t].item \in DOMAIN item
            /\ item'[exec[t].item] = item[exec[t].item]
      BY <1>3, <1>4, ExecFacts
    <2>2. exec' \in [Slot -> {Idle} \cup ExecType(DOMAIN item')]
      <3>1. ExecType(DOMAIN item) \subseteq ExecType(DOMAIN item')
        BY <1>4 DEF ExecType
      <3> HIDE DEF PagesInv
      <3> QED
        BY <1>3, <3>1
    <2>3. \A t \in Slot : exec'[t] # Idle => item'[exec'[t].item].status = "running"
      BY <2>1 DEF ExecInv
    <2>4. \A t, u \in Slot : t # u /\ Idle \notin {exec'[t], exec'[u]} => exec'[t].item # exec'[u].item
      BY <2>1 DEF ExecInv
    <2> HIDE DEF PagesInv
    <2> QED
      BY <2>2, <2>3, <2>4 DEF ExecInv
  <1>6. HeldInv'
    <2> SUFFICES ASSUME NEW t \in Slot, exec'[t] # Idle, exec'[t].pc # "fetching" PROVE HeldAt(t)'
      BY DEF HeldInv
    <2>1. t # s /\ exec'[t] = exec[t] /\ exec[t].item \in DOMAIN item \ {i}
      BY <1>3, ExecFacts
    <2>2. HeldAt(t)
      BY <2>1 DEF HeldInv
    <2>3. PageId(exec[t].item, 0) \in DOMAIN read /\ PageId(exec[t].item, 0) # own
      BY <2>1, <2>2, IdFacts DEF HeldAt
    <2>4. read'[PageId(exec[t].item, 0)] = read[PageId(exec[t].item, 0)]
      BY <2>3
    <2> HIDE DEF PagesInv, own
    <2> QED
      BY <1>1, <1>4, <2>1, <2>2, <2>3, <2>4, SameExecution
  <1>7. ASSUME NEW id, id[1] \in DOMAIN item, NotNow(id, item, exec) PROVE NotNow(id, item', exec')
    BY <1>3, <1>4, <1>7 DEF NotNow
  <1>8. ReadInv'
    <2>1. ASSUME NEW id \in DOMAIN read PROVE ReadAt(id)'
      <3>1. id \in Id /\ ReadAt(id)
        BY DEF ReadInv
      <3>2. /\ id[1] \in DOMAIN item' /\ id[2] <= item'[id[1]].attempts /\ NotNow(id, item', exec')
            /\ id[3] # 0 /\ read[id].said = << >> => id \in DOMAIN stream'
        BY <1>4, <1>7, <3>1 DEF ReadAt
      <3>3. CASE id = own
        <4>1. Page(KindOf(id[1]), PageOf(id[1]))' = Page(KindOf(id[1]), PageOf(id[1]))
          BY SameKind, SamePages
        <4>2. Fair(id, read'[id].seen, ToSet(read'[id].said), broken') /\ read'[id].said # << >>
              /\ read'[id].seen = read[id].seen /\ id[3] = 0
          BY <3>3, IdFacts
        <4> HIDE DEF PagesInv, own
        <4> QED
          BY <3>1, <3>2, <4>1, <4>2 DEF ReadAt
      <3>4. CASE id # own
        <4>1. id[3] = 0 /\ Past(id, item') => Past(id, item)
          <5>1. CASE id[1] = i
            <6>1. id[3] = 0 => id[2] # item[i].attempts
              BY <3>1, <3>4, <5>1, IdFacts DEF PageId
            <6>2. id[2] <= item[i].attempts /\ id[2] \in Nat
              BY <3>1, <5>1, IdFacts DEF ReadAt
            <6>3. id[3] = 0 => item[i].attempts > id[2]
              BY <1>1, <6>1, <6>2
            <6> QED
              BY <5>1, <6>3 DEF Past
          <5>2. CASE id[1] # i
            BY <1>4, <3>1, <5>2 DEF Past, ReadAt
          <5> QED
            BY <5>1, <5>2
        <4>2. read'[id] = read[id]
          BY <3>4
        <4> HIDE DEF PagesInv, own
        <4> QED
          BY <1>1, <3>1, <3>2, <4>1, <4>2, SamePage
      <3> QED
        BY <3>3, <3>4
    <2>2. DOMAIN read' = DOMAIN read
      OBVIOUS
    <2> QED
      BY <2>1, <2>2 DEF ReadInv
  <1>9. StreamInv'
    <2>1. ASSUME NEW k \in DOMAIN stream PROVE ChunkAt(k)'
      <3>1. k \in Id /\ ChunkAt(k)
        BY DEF StreamInv
      <3>2. k[1] \in DOMAIN item' /\ k[2] <= item'[k[1]].attempts /\ NotNow(k, item', exec')
        BY <1>4, <1>7, <3>1 DEF ChunkAt
      <3>3. <<k[1], k[2], 0>> \in DOMAIN read
        BY <3>1 DEF ChunkAt, ChunkRight
      <3>4. /\ <<k[1], k[2], 0>> \in DOMAIN read'
            /\ read'[<<k[1], k[2], 0>>].seen = read[<<k[1], k[2], 0>>].seen
        BY <3>3
      <3>5. k # own
        BY <3>1, IdFacts DEF ChunkAt
      <3>6. /\ k \in DOMAIN read' <=> k \in DOMAIN read
            /\ k \in DOMAIN read => read'[k] = read[k]
        BY <3>5
      <3>7. stream'[k] = stream[k]
        OBVIOUS
      <3> HIDE DEF PagesInv
      <3> QED
        BY <1>1, <3>1, <3>2, <3>4, <3>6, <3>7, SameChunk
    <2>2. ASSUME NEW t \in Slot, exec'[t] # Idle, exec'[t].pc = "gathering" PROVE OwnAt(t)'
      <3>1. t # s /\ exec'[t] = exec[t] /\ exec[t].item \in DOMAIN item \ {i}
        BY <1>3, <2>2, ExecFacts
      <3>2. OwnAt(t)
        BY <2>2, <3>1 DEF StreamInv
      <3>3. item'[exec[t].item] = item[exec[t].item]
        BY <1>4, <3>1
      <3> QED
        BY <3>1, <3>2, <3>3 DEF OwnAt, Own, PageId
    <2> QED
      BY <2>1, <2>2 DEF StreamInv
  <1>10. EndInv'
    <2>0. \A id \in DOMAIN read : id \in DOMAIN read' /\ read'[id].seen = read[id].seen
      <3> SUFFICES ASSUME NEW id \in DOMAIN read PROVE id \in DOMAIN read' /\ read'[id].seen = read[id].seen
        OBVIOUS
      <3> QED
        BY DEF own
    <2>1. ASSUME NEW j \in DOMAIN item' PROVE EndAt(j)'
      <3>1. CASE j = i
        BY <3>1
      <3>2. CASE j \in DOMAIN item \ {i}
        <4>1. EndAt(j) /\ item'[j] = item[j]
          BY <1>4, <3>2 DEF EndInv
        <4> HIDE DEF PagesInv
        <4> QED
          BY <2>0, <4>1, SameEnd
      <3>3. CASE j \notin DOMAIN item
        <4>1. item'[j] = NewItem
          BY <2>1, <3>3 DEF Ends
        <4> QED
          BY <4>1, NewItemFacts DEF EndAt
      <3> QED
        BY <3>1, <3>2, <3>3
    <2>2. CASE i # << >>
      <3>1. RankEnd /\ item'[<< >>] = item[<< >>]
        BY <1>4, <2>2 DEF EndInv, ItemInv
      <3>2. RankEnd'
        <4> HIDE DEF PagesInv
        <4> QED
          BY <2>0, <3>1, SameRankEnd
      <3> QED
        BY <2>1, <3>2 DEF EndInv
    <2>3. CASE i = << >>
      BY <2>1, <2>3 DEF EndInv
    <2> QED
      BY <2>2, <2>3
  <1> HIDE DEF PagesInv
  <1> QED
    BY <1>2, <1>5, <1>6, <1>8, <1>9, <1>10 DEF PagesInv

\* The fetcher gives up on the first page.
LEMMA FetchFailsStep ==
  ASSUME PagesInv, NEW s \in Slot, FetchFails(s)
  PROVE  PagesInv'
  <1>10. PICK i : i = exec[s].item
    OBVIOUS
  <1>1. PICK code \in {"fetch_failed", "fetch_refused"} :
          exec' = [exec EXCEPT ![s] = Idle] /\ item' = Failed(i, code)
    BY <1>10 DEF FetchFails, Return
  <1>2. /\ exec[s] # Idle /\ exec[s].pc = "fetching"
        /\ root' = root /\ stream' = stream /\ read' = read /\ broken' = broken
    BY DEF FetchFails
  <1>3. i \in DOMAIN item /\ item[i].status = "running" /\ item[i].attempts \in Nat
    BY <1>2, <1>10, ExecFacts, ItemFacts DEF PagesInv
  <1>4. code \in Code
    BY DEF Code, Retryable, Terminal
  <1>5. /\ Ends(i, item, item') /\ item'[i].status \in {"pending", "failed"}
        /\ item'[i].status = "failed" =>
             item'[i].code = code /\ (code \in Retryable => item'[i].attempts = MaxAttempts)
    BY <1>1, <1>3, <1>4, FailedEnds DEF PagesInv
  <1>6. EndAt(i)'
    <2>1. code \in Retryable \/ code = "fetch_refused"
      BY DEF Retryable
    <2>2. item'[i].status = "failed" => 
            \/ item'[i].code \in Retryable /\ item'[i].attempts = MaxAttempts
            \/ item'[i].code = "fetch_refused"
      BY <1>5, <2>1
    <2> QED
      BY <2>2 DEF EndAt
  <1>7. i = << >> => RankEnd'
    BY <1>5 DEF RankEnd
  <1>8. PageId(i, 0) \notin DOMAIN read
    <2> SUFFICES ASSUME PageId(i, 0) \in DOMAIN read PROVE FALSE
      OBVIOUS
    <2>1. NotNow(PageId(i, 0), item, exec)
      BY DEF PagesInv, ReadInv, ReadAt
    <2>2. item[i].attempts < item[i].attempts
      BY <1>2, <1>10, <2>1, IdFacts DEF NotNow
    <2> QED
      BY <1>3, <2>2
  <1>9. /\ broken' \in Nat /\ broken <= broken'
        /\ read' \in [DOMAIN read -> ReadType]
        /\ \A id \in DOMAIN read : id # PageId(i, 0) => read'[id] = read[id]
    BY <1>2 DEF PagesInv, ItemInv, ReadInv
  <1> QED
    BY <1>1, <1>2, <1>5, <1>6, <1>7, <1>8, <1>9, <1>10, Returned
-----------------------------------------------------------------------------
(* An execution reports its page. *)

\* A report more
LEMMA SaidFacts ==
  ASSUME NEW said \in Seq(Verdicts), NEW v \in Verdicts, said = << >> \/ ToSet(said) = {v}
  PROVE  /\ Append(said, v) \in Seq(Verdicts) /\ Append(said, v) # << >>
         /\ ToSet(Append(said, v)) = {v}
  <1> DEFINE more == Append(said, v)
  <1>1. /\ more \in Seq(Verdicts) /\ Len(more) = Len(said) + 1 /\ Len(said) \in Nat
        /\ DOMAIN more = 1 .. Len(said) + 1 /\ DOMAIN said = 1 .. Len(said)
        /\ more[Len(said) + 1] = v
        /\ \A n \in 1 .. Len(said) : more[n] = said[n]
    OBVIOUS
  <1> HIDE DEF more
  <1>2. \A n \in 1 .. Len(said) : said[n] = v
    <2>1. CASE said = << >>
      <3>1. Len(said) = 0
        BY <2>1
      <3> QED
        BY <3>1
    <2>2. CASE ToSet(said) = {v}
      BY <1>1, <2>2 DEF ToSet
    <2> QED
      BY <2>1, <2>2
  <1>3. \A n \in DOMAIN more : more[n] = v
    <2>1. \A n \in 1 .. Len(said) + 1 : n = Len(said) + 1 \/ n \in 1 .. Len(said)
      BY <1>1
    <2> QED
      BY <1>1, <1>2, <2>1
  <1>4. Len(said) + 1 \in DOMAIN more
    BY <1>1
  <1>5. ToSet(more) = {v}
    BY <1>3, <1>4 DEF ToSet
  <1>6. more # << >>
    BY <1>1
  <1> QED
    BY <1>1, <1>5, <1>6 DEF more

LEMMA ReportFacts ==
  ASSUME PagesInv, NEW s \in Slot, Report(s), NEW i, i = exec[s].item, NEW id, id = PageId(i, 0)
  PROVE  /\ exec[s] # Idle /\ exec[s].pc \in {"issue", "error", "empty", "partial", "usable"}
         /\ id \in DOMAIN read /\ read' \in [DOMAIN read -> ReadType]
         /\ \A l \in DOMAIN read : l # id => read'[l] = read[l]
         /\ read[id].seen \in PageType /\ KindOf(i) \in Kind /\ PageOf(i) \in 1 .. 2
         /\ read'[id].seen = read[id].seen
         /\ read'[id].said # << >>
         /\ ToSet(read'[id].said) = {Verdict(exec[s])}
         /\ read[id].said # << >> => exec[s].pc = "error"
         /\ \A b \in Nat : broken <= b => Fair(id, read[id].seen, ToSet(read'[id].said), b)
         /\ Held(exec[s], read[id].seen, read[id].said, KindOf(i), PageOf(i), broken)
  <1> DEFINE e == exec[s]  v == Verdict(e)  p == read[id].seen  said == read[id].said
             kind == KindOf(i)
  <1>1. /\ e # Idle /\ e.pc \in {"issue", "error", "empty", "partial", "usable"}
        /\ read' = [read EXCEPT ![id].said = Append(@, v)]
    BY DEF Report
  <1>2. HeldAt(s)
    BY <1>1 DEF PagesInv, HeldInv
  <1>3. id \in DOMAIN read /\ Held(e, p, said, kind, PageOf(i), broken)
    BY <1>2 DEF HeldAt
  <1>4. read \in [DOMAIN read -> ReadType] /\ read[id] \in ReadType
    BY <1>3 DEF PagesInv, ReadInv
  <1>5. p \in PageType /\ said \in Seq(Verdicts) /\ kind \in Kind /\ PageOf(i) \in 1 .. 2
    BY <1>4, RootFacts DEF ReadType, PagesInv, ItemInv
  <1>6. v \in Verdicts
    BY DEF Verdict, Verdicts
  <1>7. said # << >> => e.pc = "error" /\ ToSet(said) = {v}
    BY <1>3 DEF Held, Verdict
  <1>8. /\ Append(said, v) \in Seq(Verdicts) /\ Append(said, v) # << >>
        /\ ToSet(Append(said, v)) = {v}
    BY <1>5, <1>6, <1>7, SaidFacts
  <1>9. /\ read'[id] = [read[id] EXCEPT !.said = Append(said, v)]
        /\ \A l \in DOMAIN read : l # id => read'[l] = read[l]
        /\ DOMAIN read' = DOMAIN read
        /\ read' = [l \in DOMAIN read |-> read'[l]]
    BY <1>1, <1>3, <1>4
  <1>10. read'[id].seen = p /\ read'[id].said = Append(said, v) /\ read'[id] \in ReadType
    BY <1>4, <1>5, <1>8, <1>9 DEF ReadType
  <1>11. read' \in [DOMAIN read -> ReadType]
    BY <1>4, <1>9, <1>10
  <1>12. Fair(id, p, {v}, broken)
    <2>0. id[3] = 0
      BY IdFacts
    <2>1. Cardinality({v}) <= 1
      BY FS_Singleton
    <2>2. v = "success" => Good(p)
      <3>1. v = "success" => e.pc \in {"usable", "partial"}
        BY DEF Verdict
      <3> QED
        BY <1>3, <3>1 DEF Held
    <2>3. Good(p) /\ broken = 0 => v = "success"
      <3>1. e.pc = "issue" => ~Good(p)
        BY <1>3, <1>5, GoodFacts DEF Held
      <3>2. e.pc = "error" => ~Good(p) \/ broken > 0
        BY <1>3 DEF Held
      <3>3. e.pc = "empty" => ~Good(p)
        BY <1>3 DEF Held
      <3>4. e.pc \in {"usable", "partial"} => v = "success"
        BY DEF Verdict
      <3> HIDE DEF e, v, p
      <3> QED
        BY <1>1, <3>1, <3>2, <3>3, <3>4
    <2>4. v = "blocked" <=> "blocked" \in p.signs
      <3>1. CASE e.pc = "issue"
        <4>1. e.code = Issue(kind, p)
          BY <1>3, <3>1 DEF Held
        <4>2. Issue(kind, p) = "blocked_page" <=> "blocked" \in p.signs
          BY <1>5, IssueFacts
        <4>3. v = "blocked" <=> e.code = "blocked_page"
          BY <3>1 DEF Verdict
        <4> QED
          BY <4>1, <4>2, <4>3
      <3>2. CASE e.pc # "issue"
        <4>1. p.signs = {}
          BY <1>3, <1>5, <3>2, IssueFacts DEF Held
        <4>2. v # "blocked"
          BY <3>2 DEF Verdict
        <4> QED
          BY <4>1, <4>2
      <3> QED
        BY <3>1, <3>2
    <2> HIDE DEF v, p
    <2> QED
      BY <2>0, <2>1, <2>2, <2>3, <2>4 DEF Fair
  <1>13. \A b \in Nat : broken <= b => Fair(id, p, {v}, b)
    <2>1. broken \in Nat
      BY DEF PagesInv, ItemInv
    <2> HIDE DEF v, p
    <2> QED
      BY <1>12, <2>1 DEF Fair
  <1>14. ToSet(read'[id].said) = {v} /\ read'[id].said # << >>
    BY <1>8, <1>10
  <1>15. \A b \in Nat : broken <= b => Fair(id, p, ToSet(read'[id].said), b)
    BY <1>13, <1>14
  <1> QED
    BY <1>1, <1>3, <1>5, <1>7, <1>9, <1>10, <1>11, <1>14, <1>15

\* The item fails with code, which the page deserves.
LEMMA ReportedFailure ==
  ASSUME PagesInv, NEW s \in Slot, Report(s), NEW code \in Code,
         exec' = [exec EXCEPT ![s] = Idle], item' = Failed(exec[s].item, code),
         broken' \in Nat, broken <= broken',
         \/ code \in Retryable \cup {"fetch_refused"}
         \/ Deserved(code, KindOf(exec[s].item), read[PageId(exec[s].item, 0)].seen)
  PROVE  PagesInv'
  <1>1. PICK i : i = exec[s].item
    OBVIOUS
  <1>2. PICK id : id = PageId(i, 0)
    OBVIOUS
  <1>3. /\ exec[s] # Idle
        /\ id \in DOMAIN read /\ read' \in [DOMAIN read -> ReadType]
        /\ \A l \in DOMAIN read : l # id => read'[l] = read[l]
        /\ read'[id].seen = read[id].seen
        /\ read'[id].said # << >>
        /\ \A b \in Nat : broken <= b => Fair(id, read[id].seen, ToSet(read'[id].said), b)
    BY <1>1, <1>2, ReportFacts
  <1>4. i \in DOMAIN item /\ item[i].status = "running" /\ root' = root /\ stream' = stream
    BY <1>1, <1>3, ExecFacts DEF PagesInv, Report
  <1>5. /\ Ends(i, item, item') /\ item'[i].status \in {"pending", "failed"}
        /\ item'[i].status = "failed" =>
             item'[i].code = code /\ (code \in Retryable => item'[i].attempts = MaxAttempts)
    BY <1>1, <1>4, FailedEnds DEF PagesInv
  <1>6. EndAt(i)'
    <2>1. PageId(i, 0)' = id /\ KindOf(i)' = KindOf(i)
      BY <1>2, <1>4, <1>5, SameKind DEF PageId, Ends
    <2>2. CASE code \in Retryable \cup {"fetch_refused"}
      <3>1. item'[i].status = "failed" =>
            \/ item'[i].code \in Retryable /\ item'[i].attempts = MaxAttempts
            \/ item'[i].code = "fetch_refused"
        BY <1>5, <2>2
      <3> QED
        BY <3>1 DEF EndAt
    <2>3. CASE Deserved(code, KindOf(i), read[id].seen)
      <3>1. item'[i].status = "failed" => Deserved(item'[i].code, KindOf(i)', read'[id].seen)
        BY <1>3, <1>5, <2>1, <2>3
      <3>2. PageId(i, 0)' \in DOMAIN read' /\ read'[PageId(i, 0)'].seen = read'[id].seen
        BY <1>3, <2>1
      <3> QED
        BY <3>1, <3>2 DEF EndAt
    <2> QED
      BY <1>1, <1>2, <2>2, <2>3
  <1>7. i = << >> => RankEnd'
    BY <1>5 DEF RankEnd
  <1> QED
    BY <1>1, <1>2, <1>3, <1>4, <1>5, <1>6, <1>7, Returned

LEMMA ReportedSuccess ==
  ASSUME PagesInv, NEW s \in Slot, Report(s), exec[s].pc = "usable",
         exec' = [exec EXCEPT ![s] = Idle], item' = Completed(exec[s].item, exec[s].rows),
         broken' = broken
  PROVE  PagesInv'
  <1>1. PICK i : i = exec[s].item
    OBVIOUS
  <1>2. PICK id : id = PageId(i, 0)
    OBVIOUS
  <1>3. /\ exec[s] # Idle
        /\ id \in DOMAIN read /\ read' \in [DOMAIN read -> ReadType]
        /\ \A l \in DOMAIN read : l # id => read'[l] = read[l]
        /\ read'[id].seen = read[id].seen
        /\ read'[id].said # << >>
        /\ \A b \in Nat : broken <= b => Fair(id, read[id].seen, ToSet(read'[id].said), b)
        /\ Held(exec[s], read[id].seen, read[id].said, KindOf(i), PageOf(i), broken)
    BY <1>1, <1>2, ReportFacts
  <1>4. /\ i \in DOMAIN item /\ item[i].status = "running" /\ root' = root /\ stream' = stream
        /\ exec[s].rows \in Seq(Nat) /\ broken' \in Nat /\ broken <= broken'
    BY <1>1, <1>3, ExecFacts DEF PagesInv, Report, ItemInv
  <1>5. Ends(i, item, item') /\ item'[i].status = "succeeded" /\ item'[i].rows = exec[s].rows
    BY <1>1, <1>4, CompletedEnds DEF PagesInv
  <1>6. EndAt(i)'
    BY <1>5 DEF EndAt
  <1>7. i = << >> => RankEnd'
    <2>1. PageId(i, 0)' = id
      BY <1>2, <1>4, <1>5, SameKind DEF PageId, Ends
    <2> QED
      BY <1>3, <2>1 DEF RankEnd
  <1> QED
    BY <1>1, <1>2, <1>3, <1>4, <1>5, <1>6, <1>7, Returned

LEMMA SameOwn ==
  ASSUME NEW t \in Slot, OwnAt(t), exec'[t] = exec[t],
         item'[exec[t].item].attempts = item[exec[t].item].attempts,
         \A l : l[1] = exec[t].item /\ l[2] = item[exec[t].item].attempts =>
           (l \in DOMAIN stream' <=> l \in DOMAIN stream)
  PROVE  OwnAt(t)'
  <1>1. Own(t)' = Own(t)
    BY DEF Own
  <1>2. \A n : PageId(exec[t].item, n)' = PageId(exec[t].item, n)
    BY DEF PageId
  <1>3. {PageId(exec[t].item, n) : n \in Chunks(exec[t].more)}' =
          {PageId(exec[t].item, n) : n \in Chunks(exec[t].more)}
    BY DEF PageId
  <1> QED
    BY <1>1, <1>3 DEF OwnAt

\* A step that leaves the items as they are and takes no execution back to its fetch
LEMMA SameItems ==
  ASSUME PagesInv, root' = root, item' = item, broken' \in Nat, broken <= broken',
         exec' \in [Slot -> {Idle} \cup ExecType(DOMAIN item)],
         \A t \in Slot : exec'[t] # Idle =>
           /\ exec[t] # Idle /\ exec'[t].item = exec[t].item
           /\ exec'[t].pc = "fetching" => exec[t].pc = "fetching",
         \A id \in DOMAIN read : id[3] = 0 => id \in DOMAIN read' /\ read'[id].seen = read[id].seen
  PROVE  /\ ItemInv' /\ ExecInv' /\ EndInv' /\ broken \in Nat
         /\ \A id : NotNow(id, item, exec) => NotNow(id, item', exec')
  <1>1. ItemInv' /\ broken \in Nat
    BY DEF PagesInv, ItemInv
  <1>2. ExecInv'
    <2>1. \A t \in Slot : exec'[t] # Idle => item'[exec'[t].item].status = "running"
      BY DEF PagesInv, ExecInv
    <2>2. \A t, u \in Slot : t # u /\ Idle \notin {exec'[t], exec'[u]} => exec'[t].item # exec'[u].item
      BY DEF PagesInv, ExecInv
    <2> QED
      BY <2>1, <2>2 DEF ExecInv
  <1>3. EndInv'
    <2>1. ASSUME NEW i \in DOMAIN item PROVE EndAt(i)'
      <3>1. EndAt(i)
        BY DEF PagesInv, EndInv
      <3> QED
        BY <3>1, SameEnd, IdFacts
    <2>2. RankEnd'
      <3>1. RankEnd
        BY DEF PagesInv, EndInv
      <3> QED
        BY <3>1, SameRankEnd, IdFacts
    <2> QED
      BY <2>1, <2>2 DEF EndInv
  <1>4. \A id : NotNow(id, item, exec) => NotNow(id, item', exec')
    BY DEF NotNow
  <1> QED
    BY <1>1, <1>2, <1>3, <1>4

\* A step that changes no more of an execution than how far it is
LEMMA PcFacts ==
  ASSUME ExecInv, NEW s \in Slot, exec[s] # Idle, NEW code \in Code,
         NEW pc \in {"error", "partial"}, exec' = [exec EXCEPT ![s].pc = pc, ![s].code = code]
  PROVE  /\ exec'[s].item = exec[s].item /\ exec'[s].pc = pc /\ exec'[s].code = code
         /\ exec'[s].more = exec[s].more
         /\ \A t \in Slot \ {s} : exec'[t] = exec[t]
         /\ exec' \in [Slot -> {Idle} \cup ExecType(DOMAIN item)]
  <1>1. exec \in [Slot -> {Idle} \cup ExecType(DOMAIN item)] /\ exec[s] \in ExecType(DOMAIN item)
    BY ExecFacts DEF ExecInv
  <1>2. /\ exec'[s] = [[exec[s] EXCEPT !.pc = pc] EXCEPT !.code = code]
        /\ \A t \in Slot \ {s} : exec'[t] = exec[t]
        /\ exec' = [t \in Slot |-> exec'[t]]
    BY <1>1
  <1>3. exec'[s] = [item |-> exec[s].item, code |-> code, rows |-> exec[s].rows,
                    more |-> exec[s].more, pc |-> pc]
    <2> DEFINE x == [exec[s] EXCEPT !.pc = pc]
               a == exec[s].item
               b == exec[s].code
               c == exec[s].rows
               d == exec[s].more
    <2>1. x = [item |-> a, code |-> b, rows |-> c, more |-> d, pc |-> pc]
      BY <1>1 DEF ExecType
    <2>2. exec'[s] = [x EXCEPT !.code = code]
      BY <1>2
    <2> HIDE DEF x, a, b, c, d
    <2>3. exec'[s] = [item |-> a, code |-> code, rows |-> c, more |-> d, pc |-> pc]
      BY <2>1, <2>2
    <2> QED
      BY <2>3 DEF a, c, d
  <1>4. exec'[s] \in ExecType(DOMAIN item)
    BY <1>1, <1>3 DEF ExecType
  <1>5. exec' \in [Slot -> {Idle} \cup ExecType(DOMAIN item)]
    <2>1. \A t \in Slot : exec'[t] \in {Idle} \cup ExecType(DOMAIN item)
      BY <1>1, <1>2, <1>4
    <2> QED
      BY <1>2, <2>1
  <1> QED
    BY <1>2, <1>3, <1>5

\* The page of a merchant plugin is taken for one that cannot be parsed.
LEMMA ReportedAgain ==
  ASSUME PagesInv, NEW s \in Slot, Report(s), exec[s].pc = "empty",
         exec' = [exec EXCEPT ![s].pc = "error", ![s].code = "parse_error"], item' = item,
         broken' = broken + 1
  PROVE  PagesInv'
  <1>1. PICK i : i = exec[s].item
    OBVIOUS
  <1>2. PICK id : id = PageId(i, 0)
    OBVIOUS
  <1>3. /\ exec[s] # Idle
        /\ id \in DOMAIN read /\ read' \in [DOMAIN read -> ReadType]
        /\ \A l \in DOMAIN read : l # id => read'[l] = read[l]
        /\ read'[id].seen = read[id].seen
        /\ read'[id].said # << >>
        /\ ToSet(read'[id].said) = {Verdict(exec[s])}
        /\ \A b \in Nat : broken <= b => Fair(id, read[id].seen, ToSet(read'[id].said), b)
        /\ Held(exec[s], read[id].seen, read[id].said, KindOf(i), PageOf(i), broken)
    BY <1>1, <1>2, ReportFacts
  <1>4. /\ root' = root /\ stream' = stream /\ broken \in Nat /\ broken' \in Nat /\ broken <= broken'
        /\ broken' > 0
    BY DEF PagesInv, Report, ItemInv
  <1>5. "parse_error" \in Code
    BY DEF Code, Retryable
  <1>6. /\ exec'[s].item = exec[s].item /\ exec'[s].pc = "error" /\ exec'[s].code = "parse_error"
        /\ exec'[s].more = exec[s].more
        /\ \A t \in Slot \ {s} : exec'[t] = exec[t]
        /\ exec' \in [Slot -> {Idle} \cup ExecType(DOMAIN item)]
    BY <1>3, <1>5, PcFacts DEF PagesInv
  <1>7. \A l \in DOMAIN read : l \in DOMAIN read' /\ read'[l].seen = read[l].seen
    <2> SUFFICES ASSUME NEW l \in DOMAIN read PROVE l \in DOMAIN read' /\ read'[l].seen = read[l].seen
      OBVIOUS
    <2> QED
      BY <1>3
  <1>8. \A t \in Slot : exec'[t] # Idle =>
           /\ exec[t] # Idle /\ exec'[t].item = exec[t].item
           /\ exec'[t].pc = "fetching" => exec[t].pc = "fetching"
    BY <1>3, <1>6
  <1>9. /\ ItemInv' /\ ExecInv' /\ EndInv'
        /\ \A l : NotNow(l, item, exec) => NotNow(l, item', exec')
    BY <1>4, <1>6, <1>7, <1>8, SameItems
  <1>10. HeldInv'
    <2> SUFFICES ASSUME NEW t \in Slot, exec'[t] # Idle, exec'[t].pc # "fetching" PROVE HeldAt(t)'
      BY DEF HeldInv
    <2>1. CASE t = s
      <3>1. exec'[s].item = i /\ <<i, item'[i].attempts, 0>> = id /\ KindOf(i)' = KindOf(i)
            /\ PageOf(i)' = PageOf(i)
        BY <1>1, <1>2, <1>4, <1>6, SameKind DEF PageId
      <3>2. Verdict(exec[s]) = "parse_error"
        BY DEF Verdict
      <3>3. Held(exec'[s], read'[id].seen, read'[id].said, KindOf(i)', PageOf(i)', broken')
        BY <1>3, <1>4, <1>6, <3>1, <3>2 DEF Held
      <3>4. id \in DOMAIN read'
        BY <1>3
      <3> QED
        BY <2>1, <3>1, <3>3, <3>4 DEF HeldAt, PageId
    <2>2. CASE t # s
      <3>1. exec'[t] = exec[t] /\ exec[t] # Idle
        BY <1>6, <2>2
      <3>2. HeldAt(t)
        BY <3>1 DEF PagesInv, HeldInv
      <3>3. exec[t].item # i
        BY <1>1, <1>3, <2>2, <3>1 DEF PagesInv, ExecInv
      <3>4. PageId(exec[t].item, 0) \in DOMAIN read /\ PageId(exec[t].item, 0) # id
        BY <1>2, <3>2, <3>3, IdFacts DEF HeldAt
      <3>5. /\ PageId(exec[t].item, 0) \in DOMAIN read'
            /\ read'[PageId(exec[t].item, 0)] = read[PageId(exec[t].item, 0)]
        BY <1>3, <3>4
      <3> QED
        BY <1>4, <3>1, <3>2, <3>5, SameExecution
    <2> QED
      BY <2>1, <2>2
  <1>11. ReadInv'
    <2>1. ASSUME NEW l \in DOMAIN read PROVE ReadAt(l)'
      <3>1. ReadAt(l)
        BY DEF PagesInv, ReadInv
      <3>2. /\ l[1] \in DOMAIN item' /\ l[2] <= item'[l[1]].attempts /\ NotNow(l, item', exec')
            /\ l[3] # 0 /\ read[l].said = << >> => l \in DOMAIN stream'
            /\ Past(l, item') => Past(l, item)
        BY <1>4, <1>9, <3>1 DEF ReadAt
      <3>3. CASE l = id
        <4>1. Page(KindOf(l[1]), PageOf(l[1]))' = Page(KindOf(l[1]), PageOf(l[1]))
          BY <1>4, SameKind, SamePages
        <4>0. Fair(id, read[id].seen, ToSet(read'[id].said), broken')
          BY <1>3, <1>4
        <4>3. l[3] = 0
          BY <1>2, <3>3, IdFacts
        <4>4. read'[l].seen = read[l].seen /\ read'[l].said # << >>
          BY <1>3, <3>3
        <4>2. Fair(l, read'[l].seen, ToSet(read'[l].said), broken') /\ read'[l].said # << >>
              /\ read'[l].seen = read[l].seen /\ l[3] = 0
          BY <3>3, <4>0, <4>3, <4>4
        <4> QED
          BY <3>1, <3>2, <4>1, <4>2 DEF ReadAt
      <3>4. CASE l # id
        BY <1>3, <1>4, <3>1, <3>2, <3>4, SamePage
      <3> QED
        BY <3>3, <3>4
    <2>2. DOMAIN read' = DOMAIN read
      BY <1>3
    <2>3. DOMAIN read \subseteq Id
      BY DEF PagesInv, ReadInv
    <2> QED
      BY <1>3, <2>1, <2>2, <2>3 DEF ReadInv
  <1>12. StreamInv'
    <2>1. ASSUME NEW k \in DOMAIN stream PROVE ChunkAt(k)'
      <3>1. ChunkAt(k) /\ k \in Id
        BY DEF PagesInv, StreamInv
      <3>2. k[1] \in DOMAIN item' /\ k[2] <= item'[k[1]].attempts /\ NotNow(k, item', exec')
        BY <1>9, <3>1 DEF ChunkAt
      <3>3. <<k[1], k[2], 0>> \in DOMAIN read
        BY <3>1 DEF ChunkAt, ChunkRight
      <3>4. k # id
        BY <1>2, <3>1, IdFacts DEF ChunkAt
      <3>5. /\ k \in DOMAIN read' <=> k \in DOMAIN read
            /\ k \in DOMAIN read => read'[k] = read[k]
        BY <1>3, <3>4
      <3> QED
        BY <1>4, <1>7, <3>1, <3>2, <3>3, <3>5, SameChunk
    <2>2. ASSUME NEW t \in Slot, exec'[t] # Idle, exec'[t].pc = "gathering" PROVE OwnAt(t)'
      <3>1. exec'[t] = exec[t]
        BY <1>6, <2>2
      <3>2. OwnAt(t)
        BY <2>2, <3>1 DEF PagesInv, StreamInv
      <3>3. \A l : l \in DOMAIN stream' <=> l \in DOMAIN stream
        BY <1>4
      <3> QED
        BY <3>1, <3>2, <3>3, SameOwn
    <2> QED
      BY <1>4, <2>1, <2>2 DEF PagesInv, StreamInv
  <1> QED
    BY <1>9, <1>10, <1>11, <1>12 DEF PagesInv

LEMMA ReportStep ==
  ASSUME PagesInv, NEW s \in Slot, Report(s)
  PROVE  PagesInv'
  <1> DEFINE e == exec[s]  i == e.item  p == read[PageId(i, 0)].seen
  <1>1. /\ e # Idle /\ e.pc \in {"issue", "error", "empty", "partial", "usable"}
        /\ EvidenceKept(s) \/ EvidenceRaises(s)
    BY DEF Report
  <1>2. /\ p \in PageType /\ KindOf(i) \in Kind /\ PageOf(i) \in 1 .. 2
        /\ Held(e, p, read[PageId(i, 0)].said, KindOf(i), PageOf(i), broken)
    <2>1. \A j, id : j = exec[s].item /\ id = PageId(j, 0) =>
            /\ read[id].seen \in PageType /\ KindOf(j) \in Kind /\ PageOf(j) \in 1 .. 2
            /\ Held(exec[s], read[id].seen, read[id].said, KindOf(j), PageOf(j), broken)
      BY ReportFacts
    <2> QED
      BY <2>1
  <1>3. e.code \in Code /\ broken \in Nat
    BY <1>1, ExecFacts DEF PagesInv, ItemInv
  <1>4. CASE EvidenceKept(s) /\ e.pc = "usable"
    <2>1. /\ exec' = [exec EXCEPT ![s] = Idle] /\ item' = Completed(i, e.rows) /\ broken' = broken
      BY <1>4 DEF EvidenceKept, Return
    <2> QED
      BY <1>4, <2>1, ReportedSuccess
  <1>5. CASE EvidenceKept(s) /\ e.pc # "usable"
    <2>1. /\ exec' = [exec EXCEPT ![s] = Idle] /\ item' = Failed(i, e.code) /\ broken' = broken
      BY <1>5 DEF EvidenceKept, Return
    <2>2. e.code \in Retryable \cup {"fetch_refused"} \/ Deserved(e.code, KindOf(i), p)
      <3>1. CASE e.pc = "issue"
        <4>1. e.code = Issue(KindOf(i), p) /\ e.code # NoCode
          BY <1>2, <3>1 DEF Held
        <4> QED
          BY <1>2, <4>1, IssueFacts
      <3>2. CASE e.pc = "error"
        BY <1>2, <3>2 DEF Held, Retryable
      <3>3. CASE e.pc = "empty"
        <4>1. /\ e.code = Empty(KindOf(i), PageOf(i)) /\ p.parsed /\ p.rows = << >>
              /\ Issue(KindOf(i), p) = NoCode
          BY <1>2, <3>3 DEF Held
        <4> QED
          BY <1>2, <4>1, EmptyFacts
      <3>4. CASE e.pc = "partial"
        BY <1>2, <3>4, CodesApart DEF Held
      <3> QED
        BY <1>1, <1>5, <3>1, <3>2, <3>3, <3>4
    <2>3. broken' \in Nat /\ broken <= broken'
      BY <1>3, <2>1
    <2> QED
      BY <1>3, <2>1, <2>2, <2>3, ReportedFailure
  <1>6. CASE EvidenceRaises(s) /\ e.pc = "empty" /\ KindOf(i) \in MerchantKinds
    BY <1>6, ReportedAgain DEF EvidenceRaises
  <1>7. CASE EvidenceRaises(s) /\ ~(e.pc = "empty" /\ KindOf(i) \in MerchantKinds)
    <2>1. /\ exec' = [exec EXCEPT ![s] = Idle] /\ item' = Failed(i, "worker_internal_error")
          /\ broken' = broken + 1
      BY <1>7 DEF EvidenceRaises, Return
    <2>2. "worker_internal_error" \in Code /\ "worker_internal_error" \in Retryable
      BY DEF Code, Retryable
    <2>3. broken' \in Nat /\ broken <= broken'
      BY <1>3, <2>1
    <2> QED
      BY <2>1, <2>2, <2>3, ReportedFailure
  <1> QED
    BY <1>1, <1>4, <1>5, <1>6, <1>7
-----------------------------------------------------------------------------
(* The first page is read. *)

LEMMA JudgedFacts ==
  ASSUME root \in Roots, NEW I, NEW e, e.item \in I, NEW b \in Nat,
         NEW p \in Page(KindOf(e.item), PageOf(e.item))
  PROVE  LET next == Judged(e, p) IN
         /\ next \in ExecType(I) /\ next.item = e.item /\ next.more = p.more
         /\ next.pc \in {"issue", "error", "empty", "gathering", "usable"}
         /\ next.pc = "usable" => p.more = 0 /\ next.rows = Products(e.item, p)
         /\ Held(next, p, << >>, KindOf(e.item), PageOf(e.item), b)
  <1> DEFINE kind == KindOf(e.item)
             page == PageOf(e.item)
             issue == Issue(kind, p)
             rows == Products(e.item, p)
             next(pc, code) == [item |-> e.item, pc |-> pc, code |-> code, rows |-> rows, more |-> p.more]
             Right(n) == /\ n \in ExecType(I) /\ n.item = e.item /\ n.more = p.more
                         /\ n.pc \in {"issue", "error", "empty", "gathering", "usable"}
                         /\ Held(n, p, << >>, kind, page, b)
  <1>1. /\ kind \in Kind /\ page \in 1 .. 2 /\ p \in PageType
        /\ p.rows # << >> \/ p.more > 0 => Good(p)
        /\ p.more > 0 => kind = "rank_list" /\ p.parsed
    BY RootFacts, PageFacts
  <1>2. /\ p.rows \in Seq(Nat) /\ p.more \in Nat /\ p.parsed \in BOOLEAN
        /\ rows \in Seq(Nat) /\ (kind = "rank_list" /\ p.more > 0 => rows = p.rows)
    <2>1. p.rows \in Seq(Nat) /\ p.more \in Nat /\ p.parsed \in BOOLEAN
      BY <1>1 DEF PageType
    <2> QED
      BY <2>1, ProductsSound
  <1>3. /\ issue \in Code
        /\ issue = NoCode <=> p.signs = {} /\ p.shape = "whole"
    BY <1>1, IssueFacts
  <1>4. /\ issue # NoCode => Judged(e, p) = next("issue", issue)
        /\ issue = NoCode /\ ~p.parsed => Judged(e, p) = next("error", "parse_error")
        /\ issue = NoCode /\ p.parsed /\ p.more > 0 => Judged(e, p) = next("gathering", NoCode)
        /\ issue = NoCode /\ p.parsed /\ p.more = 0 /\ p.rows = << >> =>
             Judged(e, p) = next("empty", Empty(kind, page))
        /\ issue = NoCode /\ p.parsed /\ p.more = 0 /\ p.rows # << >> =>
             Judged(e, p) = next("usable", NoCode)
    <2> HIDE DEF issue, rows, kind, page
    <2>1. Judged(e, p) =
            CASE issue # NoCode -> next("issue", issue)
              [] issue = NoCode /\ ~p.parsed -> next("error", "parse_error")
              [] issue = NoCode /\ p.parsed /\ p.more > 0 -> next("gathering", NoCode)
              [] issue = NoCode /\ p.parsed /\ p.more = 0 /\ p.rows = << >> -> next("empty", Empty(kind, page))
              [] OTHER -> next("usable", NoCode)
      BY DEF Judged, issue, rows, kind, page
    <2> HIDE DEF next
    <2>2. ~(p.more > 0 /\ p.more = 0)
      BY <1>2
    <2> QED
      BY <2>1, <2>2
  <1> HIDE DEF issue, rows
  <1>5. \A pc, code : LET n == next(pc, code) IN
          n.item = e.item /\ n.pc = pc /\ n.code = code /\ n.rows = rows /\ n.more = p.more
    OBVIOUS
  <1>6. \A pc \in {"issue", "error", "empty", "gathering", "usable"}, code \in Code :
          next(pc, code) \in ExecType(I)
    BY <1>2 DEF ExecType
  <1> HIDE DEF next, kind, page
  <1>7. CASE issue # NoCode
    <2>1. Held(next("issue", issue), p, << >>, kind, page, b)
      BY <1>5, <1>7 DEF Held, issue
    <2> QED
      BY <1>3, <1>4, <1>5, <1>6, <1>7, <2>1 DEF kind, page
  <1>8. CASE issue = NoCode /\ ~p.parsed
    <2>1. Held(next("error", "parse_error"), p, << >>, kind, page, b)
      BY <1>5, <1>8 DEF Held, issue, Good
    <2>2. "parse_error" \in Code
      BY DEF Code, Retryable
    <2> QED
      BY <1>4, <1>5, <1>6, <1>8, <2>1, <2>2 DEF kind, page
  <1>9. CASE issue = NoCode /\ p.parsed /\ p.more > 0
    <2>1. Held(next("gathering", NoCode), p, << >>, kind, page, b)
      BY <1>1, <1>2, <1>5, <1>9 DEF Held, issue
    <2>2. NoCode \in Code
      BY DEF Code
    <2> QED
      BY <1>4, <1>5, <1>6, <1>9, <2>1, <2>2 DEF kind, page
  <1>10. CASE issue = NoCode /\ p.parsed /\ p.more = 0 /\ p.rows = << >>
    <2>1. ~Good(p)
      BY <1>10 DEF Good
    <2>2. Held(next("empty", Empty(kind, page)), p, << >>, kind, page, b)
      BY <1>5, <1>10, <2>1 DEF Held, issue
    <2>3. Empty(kind, page) \in Code
      BY <1>1, <1>10, EmptyFacts DEF issue
    <2> QED
      BY <1>4, <1>5, <1>6, <1>10, <2>2, <2>3 DEF kind, page
  <1>11. CASE issue = NoCode /\ p.parsed /\ p.more = 0 /\ p.rows # << >>
    <2>1. Good(p)
      BY <1>1, <1>11
    <2>2. Held(next("usable", NoCode), p, << >>, kind, page, b)
      BY <1>5, <1>11, <2>1 DEF Held, issue
    <2>3. NoCode \in Code
      BY DEF Code
    <2> QED
      BY <1>4, <1>5, <1>6, <1>11, <2>2, <2>3 DEF kind, page, rows
  <1>12. p.more > 0 \/ p.more = 0
    BY <1>2
  <1> QED
    BY <1>7, <1>8, <1>9, <1>10, <1>11, <1>12

LEMMA FirstPageStep ==
  ASSUME PagesInv, NEW s \in Slot, FirstPage(s)
  PROVE  PagesInv'
  <1>1. PICK i : i = exec[s].item
    OBVIOUS
  <1>2. PICK id : id = PageId(i, 0)
    OBVIOUS
  <1>3. PICK p \in Page(KindOf(i), PageOf(i)) :
          LET next == Judged(exec[s], p)
              chunks == IF next.pc = "gathering" THEN Chunks(p.more) ELSE {} IN
          /\ exec' = [exec EXCEPT ![s] = next]
          /\ stream' = Over([k \in {PageId(i, n) : n \in chunks} |-> NewStream], stream)
          /\ read' = With(PageId(i, 0), [seen |-> p, said |-> << >>], read)
    BY <1>1 DEF FirstPage
  <1>4. PICK next : next = Judged(exec[s], p)
    OBVIOUS
  <1>5. PICK chunks : chunks = IF next.pc = "gathering" THEN Chunks(p.more) ELSE {}
    OBVIOUS
  <1>6. PICK fresh : fresh = {PageId(i, n) : n \in chunks}
    OBVIOUS
  <1>7. PICK new : new = [k \in fresh |-> NewStream]
    OBVIOUS
  <1>8. /\ exec' = [exec EXCEPT ![s] = next] /\ stream' = Over(new, stream)
        /\ read' = With(id, [seen |-> p, said |-> << >>], read)
    <2>1. /\ exec' = [exec EXCEPT ![s] = Judged(exec[s], p)]
          /\ stream' = Over([k \in {PageId(i, n) : n \in
               IF Judged(exec[s], p).pc = "gathering" THEN Chunks(p.more) ELSE {}} |-> NewStream], stream)
          /\ read' = With(PageId(i, 0), [seen |-> p, said |-> << >>], read)
      BY <1>3
    <2> QED
      BY <1>2, <1>4, <1>5, <1>6, <1>7, <2>1
  <1>9. /\ exec[s] # Idle /\ exec[s].pc = "fetching"
        /\ root' = root /\ item' = item /\ broken' = broken
        /\ root \in Roots /\ broken \in Nat /\ broken' \in Nat /\ broken <= broken'
    BY DEF FirstPage, PagesInv, ItemInv
  <1>10. /\ i \in DOMAIN item /\ item[i].status = "running" /\ item[i].attempts \in Nat /\ i \in Seq(Nat)
         /\ exec \in [Slot -> {Idle} \cup ExecType(DOMAIN item)]
    BY <1>1, <1>9, ExecFacts, ItemFacts DEF PagesInv, ExecInv
  <1>11. /\ next \in ExecType(DOMAIN item) /\ next.item = i /\ next.more = p.more
         /\ next.pc \in {"issue", "error", "empty", "gathering", "usable"}
         /\ Held(next, p, << >>, KindOf(i), PageOf(i), broken)
    <2>1. exec[s].item \in DOMAIN item /\ p \in Page(KindOf(exec[s].item), PageOf(exec[s].item))
      BY <1>1, <1>10
    <2> QED
      BY <1>1, <1>4, <1>9, <2>1, JudgedFacts
  <1>12. p \in PageType /\ KindOf(i) \in Kind /\ PageOf(i) \in 1 .. 2 /\ p.more \in Nat
    <2>1. p \in PageType /\ KindOf(i) \in Kind /\ PageOf(i) \in 1 .. 2
      BY <1>9, RootFacts, PageFacts
    <2> QED
      BY <2>1 DEF PageType
  <1>13. \A l : l[1] = i /\ l[2] = item[i].attempts => l \notin DOMAIN read /\ l \notin DOMAIN stream
    <2>1. \A l : l[1] = i /\ l[2] = item[i].attempts => ~NotNow(l, item, exec)
      BY <1>1, <1>9, <1>10 DEF NotNow
    <2> QED
      BY <2>1 DEF PagesInv, ReadInv, ReadAt, StreamInv, ChunkAt
  <1>14. chunks \subseteq Nat \ {0}
    <2>1. PICK n \in Nat : Chunks(p.more) = 1 .. n
      BY <1>12, ChunksFacts
    <2> QED
      BY <1>5, <2>1
  <1>15. /\ \A k \in fresh : /\ k \in Id /\ k[1] = i /\ k[2] = item[i].attempts /\ k[3] # 0
                             /\ k \notin DOMAIN read /\ k \notin DOMAIN stream /\ k # id
                             /\ <<k[1], k[2], 0>> = id
         /\ id \notin DOMAIN read /\ id \notin DOMAIN stream /\ id \in Id
         /\ id[1] = i /\ id[2] = item[i].attempts /\ id[3] = 0
         /\ id = <<i, item[i].attempts, 0>>
    <2>1. id[1] = i /\ id[2] = item[i].attempts /\ id[3] = 0 /\ id = <<i, item[i].attempts, 0>>
      BY <1>2 DEF PageId
    <2>2. id \in Id
      BY <1>10, <2>1 DEF Id
    <2>3. ASSUME NEW k \in fresh PROVE k[1] = i /\ k[2] = item[i].attempts /\ k[3] # 0 /\ k \in Id
      <3>1. PICK n \in chunks : k = <<i, item[i].attempts, n>>
        BY <1>6 DEF PageId
      <3> QED
        BY <1>10, <1>14, <3>1 DEF Id
    <2> QED
      BY <1>13, <2>1, <2>2, <2>3
  <1>16. /\ DOMAIN read' = DOMAIN read \cup {id} /\ read'[id] = [seen |-> p, said |-> << >>]
         /\ \A x \in DOMAIN read : read'[x] = read[x]
         /\ read' = [x \in DOMAIN read' |-> read'[x]]
    <2>1. \A x \in DOMAIN read : x # id
      BY <1>15
    <2> QED
      BY <1>8, <2>1 DEF With, Over
  <1>17. /\ DOMAIN stream' = fresh \cup DOMAIN stream
         /\ \A k \in fresh : stream'[k] = NewStream
         /\ \A k \in DOMAIN stream : stream'[k] = stream[k]
         /\ stream' = [k \in DOMAIN stream' |-> stream'[k]]
    <2>1. DOMAIN new = fresh /\ \A k \in fresh : new[k] = NewStream
      BY <1>7
    <2>2. \A k \in DOMAIN stream : k \notin fresh
      BY <1>15
    <2> QED
      BY <1>8, <2>1, <2>2 DEF Over
  <1>18. /\ exec'[s] = next /\ \A t \in Slot \ {s} : exec'[t] = exec[t]
         /\ exec' \in [Slot -> {Idle} \cup ExecType(DOMAIN item)]
    BY <1>8, <1>10, <1>11
  <1>19. /\ ItemInv' /\ ExecInv' /\ EndInv'
         /\ \A l : NotNow(l, item, exec) => NotNow(l, item', exec')
    <2>1. \A t \in Slot : exec'[t] # Idle =>
           /\ exec[t] # Idle /\ exec'[t].item = exec[t].item
           /\ exec'[t].pc = "fetching" => exec[t].pc = "fetching"
      BY <1>1, <1>9, <1>11, <1>18
    <2>2. \A l \in DOMAIN read : l \in DOMAIN read' /\ read'[l].seen = read[l].seen
      BY <1>16
    <2> QED
      BY <1>9, <1>18, <2>1, <2>2, SameItems
  <1>20. \A l : l[1] = i /\ l[2] = item[i].attempts => NotNow(l, item', exec')
    <2>1. \A t \in Slot : exec'[t] # Idle /\ exec'[t].pc = "fetching" => exec'[t].item # i
      BY <1>1, <1>9, <1>11, <1>18 DEF PagesInv, ExecInv
    <2> QED
      BY <2>1 DEF NotNow
  <1>21. \A k : KindOf(k)' = KindOf(k) /\ PageOf(k)' = PageOf(k) /\
                Page(KindOf(k), PageOf(k))' = Page(KindOf(k), PageOf(k))
    BY <1>9, SameKind, SamePages
  <1>22. HeldInv'
    <2> SUFFICES ASSUME NEW t \in Slot, exec'[t] # Idle, exec'[t].pc # "fetching" PROVE HeldAt(t)'
      BY DEF HeldInv
    <2>1. CASE t = s
      <3>1. exec'[t] = next /\ <<i, item'[i].attempts, 0>> = id /\ id \in DOMAIN read'
        BY <1>9, <1>15, <1>16, <1>18, <2>1
      <3>2. Held(next, read'[id].seen, read'[id].said, KindOf(i)', PageOf(i)', broken')
        BY <1>9, <1>11, <1>16, <1>21
      <3> QED
        BY <1>11, <3>1, <3>2 DEF HeldAt, PageId
    <2>2. CASE t # s
      <3>1. exec'[t] = exec[t] /\ exec[t] # Idle
        BY <1>18, <2>2
      <3>2. HeldAt(t)
        BY <3>1 DEF PagesInv, HeldInv
      <3>3. /\ PageId(exec[t].item, 0) \in DOMAIN read'
            /\ read'[PageId(exec[t].item, 0)] = read[PageId(exec[t].item, 0)]
        BY <1>16, <3>2 DEF HeldAt
      <3> QED
        BY <1>9, <3>1, <3>2, <3>3, SameExecution
    <2> QED
      BY <2>1, <2>2
  <1>23. ReadInv'
    <2>1. ASSUME NEW l \in DOMAIN read PROVE ReadAt(l)'
      <3>1. ReadAt(l)
        BY DEF PagesInv, ReadInv
      <3>2. /\ l[1] \in DOMAIN item' /\ l[2] <= item'[l[1]].attempts /\ NotNow(l, item', exec')
            /\ l[3] # 0 /\ read[l].said = << >> => l \in DOMAIN stream'
            /\ Past(l, item') => Past(l, item)
        BY <1>9, <1>17, <1>19, <3>1 DEF ReadAt
      <3> QED
        BY <1>9, <1>16, <3>1, <3>2, SamePage
    <2>2. ReadAt(id)'
      <3>1. read'[id].seen = p /\ read'[id].said = << >>
        BY <1>16
      <3>2. ToSet(read'[id].said) = {}
        BY <3>1 DEF ToSet
      <3>3. Fair(id, read'[id].seen, ToSet(read'[id].said), broken')
        BY <3>2, FS_EmptySet DEF Fair
      <3>4. ~Past(id, item')
        BY <1>9, <1>10, <1>15 DEF Past
      <3>5. id[1] \in DOMAIN item' /\ id[2] <= item'[id[1]].attempts /\ NotNow(id, item', exec')
        BY <1>9, <1>10, <1>15, <1>20
      <3>6. read'[id].seen \in Page(KindOf(id[1]), PageOf(id[1]))'
        BY <1>15, <1>21, <3>1
      <3>7. id[3] = 0
        BY <1>15
      <3> QED
        BY <3>3, <3>4, <3>5, <3>6, <3>7 DEF ReadAt
    <2>3. \A x \in DOMAIN read' : read'[x] \in ReadType
      <3>1. << >> \in Seq(Verdicts)
        OBVIOUS
      <3>2. read'[id] \in ReadType
        BY <1>12, <1>16, <3>1 DEF ReadType
      <3>3. \A x \in DOMAIN read : read[x] \in ReadType
        BY DEF PagesInv, ReadInv
      <3> QED
        BY <1>16, <3>2, <3>3
    <2>4. read' \in [DOMAIN read' -> ReadType] /\ DOMAIN read' \subseteq Id
      <3>1. DOMAIN read \subseteq Id
        BY DEF PagesInv, ReadInv
      <3> QED
        BY <1>15, <1>16, <2>3, <3>1
    <2> QED
      BY <1>16, <2>1, <2>2, <2>4 DEF ReadInv
  <1>24. StreamInv'
    <2>1. ASSUME NEW k \in DOMAIN stream PROVE ChunkAt(k)'
      <3>1. ChunkAt(k) /\ k \in Id
        BY DEF PagesInv, StreamInv
      <3>2. k[1] \in DOMAIN item' /\ k[2] <= item'[k[1]].attempts /\ NotNow(k, item', exec')
        BY <1>9, <1>19, <3>1 DEF ChunkAt
      <3>3. <<k[1], k[2], 0>> \in DOMAIN read
        BY <3>1 DEF ChunkAt, ChunkRight
      <3>4. k # id
        BY <1>15
      <3>5. /\ k \in DOMAIN read' <=> k \in DOMAIN read
            /\ k \in DOMAIN read => read'[k] = read[k]
        BY <1>16, <3>4
      <3>6. /\ <<k[1], k[2], 0>> \in DOMAIN read'
            /\ read'[<<k[1], k[2], 0>>].seen = read[<<k[1], k[2], 0>>].seen
        BY <1>16, <3>3
      <3> QED
        BY <1>9, <1>17, <3>1, <3>2, <3>5, <3>6, SameChunk
    <2>2. ASSUME NEW k \in fresh PROVE ChunkAt(k)'
      <3>1. /\ k[1] \in DOMAIN item' /\ k[2] <= item'[k[1]].attempts /\ k[3] # 0
            /\ NotNow(k, item', exec') /\ k \notin DOMAIN read' /\ <<k[1], k[2], 0>> \in DOMAIN read'
        BY <1>9, <1>10, <1>15, <1>16, <1>20
      <3>2. stream'[k].pc = "waiting" /\ stream'[k].code = NoCode /\ stream'[k].rows = << >>
        BY <1>17 DEF NewStream
      <3>3. ChunkRight(k, stream'[k], read', broken')
        BY <3>1, <3>2 DEF ChunkRight
      <3> QED
        BY <3>1, <3>3 DEF ChunkAt
    <2>3. ASSUME NEW t \in Slot, exec'[t] # Idle, exec'[t].pc = "gathering" PROVE OwnAt(t)'
      <3>1. CASE t = s
        <4>1. exec'[t] = next /\ next.pc = "gathering" /\ next.item = i /\ next.more = p.more
          BY <1>11, <1>18, <2>3, <3>1
        <4>2. fresh = {<<i, item'[i].attempts, n>> : n \in Chunks(p.more)}
          BY <1>5, <1>6, <1>9, <4>1 DEF PageId
        <4>3. {l \in DOMAIN stream' : l[1] = i /\ l[2] = item'[i].attempts} = fresh
          BY <1>9, <1>13, <1>15, <1>17
        <4> QED
          BY <4>1, <4>2, <4>3 DEF OwnAt, Own, PageId
      <3>2. CASE t # s
        <4>1. exec'[t] = exec[t] /\ exec[t] # Idle
          BY <1>18, <2>3, <3>2
        <4>2. OwnAt(t) /\ exec[t].item # i
          BY <1>1, <1>9, <2>3, <3>2, <4>1 DEF PagesInv, StreamInv, ExecInv
        <4>3. \A l : l[1] = exec[t].item => (l \in DOMAIN stream' <=> l \in DOMAIN stream)
          BY <1>15, <1>17, <4>2
        <4> QED
          BY <1>9, <4>1, <4>2, <4>3, SameOwn
      <3> QED
        BY <3>1, <3>2
    <2>4. \A k \in DOMAIN stream' : stream'[k] \in ChunkType
      <3>1. NewStream \in ChunkType
        BY DEF NewStream, ChunkType
      <3>2. \A k \in DOMAIN stream : stream[k] \in ChunkType
        BY DEF PagesInv, StreamInv
      <3> QED
        BY <1>17, <3>1, <3>2
    <2>5. stream' \in [DOMAIN stream' -> ChunkType] /\ DOMAIN stream' \subseteq Id
      <3>1. DOMAIN stream \subseteq Id
        BY DEF PagesInv, StreamInv
      <3> QED
        BY <1>15, <1>17, <2>4, <3>1
    <2> QED
      BY <1>17, <2>1, <2>2, <2>3, <2>5 DEF StreamInv
  <1> QED
    BY <1>19, <1>22, <1>23, <1>24 DEF PagesInv
-----------------------------------------------------------------------------
(* The chunks of a continuation *)

\* Chunk k goes on: it is there as before, or nobody waits for it and it is gone, and no
\* page but its own is touched.
LEMMA ChunkMoves ==
  ASSUME PagesInv, NEW k \in DOMAIN stream,
         root' = root, item' = item, exec' = exec, broken' \in Nat, broken <= broken',
         DOMAIN stream' \subseteq DOMAIN stream, stream' \in [DOMAIN stream' -> ChunkType],
         \A l \in DOMAIN stream : l # k => l \in DOMAIN stream' /\ stream'[l] = stream[l],
         k \in DOMAIN stream' => ChunkRight(k, stream'[k], read', broken'),
         k \notin DOMAIN stream' => ~Awaited(k),
         DOMAIN read \subseteq DOMAIN read', DOMAIN read' \subseteq DOMAIN read \cup {k},
         read' \in [DOMAIN read' -> ReadType],
         \A id \in DOMAIN read : id # k => read'[id] = read[id],
         k \in DOMAIN read' =>
           /\ Fair(k, read'[k].seen, ToSet(read'[k].said), broken')
           /\ read'[k].said = << >> => k \in DOMAIN stream'
  PROVE  PagesInv'
  <1>1. /\ k \in Id /\ ChunkAt(k) /\ k[3] # 0 /\ broken \in Nat
        /\ exec \in [Slot -> {Idle} \cup ExecType(DOMAIN item)]
    BY DEF PagesInv, StreamInv, ChunkAt, ItemInv, ExecInv
  <1>2. \A id \in DOMAIN read : id[3] = 0 => id \in DOMAIN read' /\ read'[id] = read[id]
    BY <1>1
  <1>3. /\ ItemInv' /\ ExecInv' /\ EndInv'
        /\ \A l : NotNow(l, item, exec) => NotNow(l, item', exec')
    <2>1. \A id \in DOMAIN read : id[3] = 0 => id \in DOMAIN read' /\ read'[id].seen = read[id].seen
      BY <1>2
    <2>2. exec' \in [Slot -> {Idle} \cup ExecType(DOMAIN item)]
      BY <1>1
    <2> QED
      BY <1>1, <2>1, <2>2, SameItems
  <1>4. HeldInv'
    <2> SUFFICES ASSUME NEW t \in Slot, exec'[t] # Idle, exec'[t].pc # "fetching" PROVE HeldAt(t)'
      BY DEF HeldInv
    <2>1. HeldAt(t)
      BY DEF PagesInv, HeldInv
    <2>2. /\ PageId(exec[t].item, 0) \in DOMAIN read'
          /\ read'[PageId(exec[t].item, 0)] = read[PageId(exec[t].item, 0)]
      BY <1>2, <2>1, IdFacts DEF HeldAt
    <2> QED
      BY <1>1, <2>1, <2>2, SameExecution
  <1>5. ReadInv'
    <2>1. ASSUME NEW l \in DOMAIN read, l # k PROVE ReadAt(l)'
      <3>1. ReadAt(l)
        BY DEF PagesInv, ReadInv
      <3>2. /\ l[1] \in DOMAIN item' /\ l[2] <= item'[l[1]].attempts /\ NotNow(l, item', exec')
            /\ l[3] # 0 /\ read[l].said = << >> => l \in DOMAIN stream'
            /\ Past(l, item') => Past(l, item)
        BY <1>3, <2>1, <3>1 DEF ReadAt
      <3> QED
        BY <1>1, <2>1, <3>1, <3>2, SamePage
    <2>2. ASSUME k \in DOMAIN read' PROVE ReadAt(k)'
      <3>1. k[1] \in DOMAIN item' /\ k[2] <= item'[k[1]].attempts /\ NotNow(k, item', exec')
        BY <1>1, <1>3 DEF ChunkAt
      <3> QED
        BY <1>1, <2>2, <3>1 DEF ReadAt
    <2>3. DOMAIN read' \subseteq Id
      BY <1>1 DEF PagesInv, ReadInv
    <2> QED
      BY <2>1, <2>2, <2>3 DEF ReadInv
  <1>6. StreamInv'
    <2>1. ASSUME NEW l \in DOMAIN stream' PROVE ChunkAt(l)'
      <3>1. l \in DOMAIN stream /\ ChunkAt(l) /\ l \in Id
        BY DEF PagesInv, StreamInv
      <3>2. l[1] \in DOMAIN item' /\ l[2] <= item'[l[1]].attempts /\ NotNow(l, item', exec')
        BY <1>3, <3>1 DEF ChunkAt
      <3>3. CASE l = k
        BY <3>1, <3>2, <3>3 DEF ChunkAt
      <3>4. CASE l # k
        <4>1. <<l[1], l[2], 0>> \in DOMAIN read /\ <<l[1], l[2], 0>>[3] = 0
          BY <3>1 DEF ChunkAt, ChunkRight
        <4>2. /\ <<l[1], l[2], 0>> \in DOMAIN read'
              /\ read'[<<l[1], l[2], 0>>].seen = read[<<l[1], l[2], 0>>].seen
          BY <1>2, <4>1
        <4>3. /\ l \in DOMAIN read' <=> l \in DOMAIN read
              /\ l \in DOMAIN read => read'[l] = read[l]
          BY <3>4
        <4>4. stream'[l] = stream[l]
          BY <3>1, <3>4
        <4> QED
          BY <1>1, <3>1, <3>2, <4>2, <4>3, <4>4, SameChunk
      <3> QED
        BY <3>3, <3>4
    <2>2. ASSUME NEW t \in Slot, exec'[t] # Idle, exec'[t].pc = "gathering" PROVE OwnAt(t)'
      <3>1. OwnAt(t)
        BY <2>2 DEF PagesInv, StreamInv
      <3>2. \A l : l[1] = exec[t].item /\ l[2] = item[exec[t].item].attempts =>
              (l \in DOMAIN stream' <=> l \in DOMAIN stream)
        <4> SUFFICES ASSUME NEW l, l[1] = exec[t].item, l[2] = item[exec[t].item].attempts,
                            l \in DOMAIN stream, l \notin DOMAIN stream'
                     PROVE  FALSE
          OBVIOUS
        <4>1. l = k /\ ~Awaited(k)
          OBVIOUS
        <4>2. k \in Own(t)
          BY <4>1 DEF Own
        <4> QED
          BY <2>2, <4>1, <4>2 DEF Awaited
      <3> QED
        BY <3>1, <3>2, SameOwn
    <2>3. DOMAIN stream' \subseteq Id
      BY DEF PagesInv, StreamInv
    <2> QED
      BY <2>1, <2>2, <2>3 DEF StreamInv
  <1> QED
    BY <1>3, <1>4, <1>5, <1>6 DEF PagesInv

\* What Ended makes of the chunks
LEMMA EndedFacts ==
  ASSUME StreamInv, NEW k \in DOMAIN stream, NEW c \in ChunkType, Ended(k, c)
  PROVE  /\ DOMAIN stream' \subseteq DOMAIN stream /\ stream' \in [DOMAIN stream' -> ChunkType]
         /\ \A l \in DOMAIN stream : l # k => l \in DOMAIN stream' /\ stream'[l] = stream[l]
         /\ k \in DOMAIN stream' => stream'[k] = c
         /\ k \notin DOMAIN stream' => ~Awaited(k)
  <1>1. stream \in [DOMAIN stream -> ChunkType]
    BY DEF StreamInv
  <1>2. CASE Awaited(k)
    <2>1. stream' = [stream EXCEPT ![k] = c]
      BY <1>2 DEF Ended
    <2> QED
      BY <1>1, <2>1
  <1>3. CASE ~Awaited(k)
    <2>1. stream' = [l \in DOMAIN stream \ {k} |-> stream[l]]
      BY <1>3 DEF Ended
    <2> QED
      BY <1>1, <1>3, <2>1
  <1> QED
    BY <1>2, <1>3

LEMMA ChunkFacts ==
  ASSUME PagesInv, NEW k \in DOMAIN stream
  PROVE  /\ k \in Id /\ k[3] # 0 /\ stream[k] \in ChunkType /\ ChunkRight(k, stream[k], read, broken)
         /\ stream \in [DOMAIN stream -> ChunkType] /\ StreamInv /\ broken \in Nat
         /\ read \in [DOMAIN read -> ReadType]
         /\ k \in DOMAIN read =>
              /\ Fair(k, read[k].seen, ToSet(read[k].said), broken)
              /\ read[k].said = << >> => k \in DOMAIN stream
  BY DEF PagesInv, StreamInv, ChunkAt, ReadInv, ReadAt, ItemInv

LEMMA EnterStreamStep ==
  ASSUME PagesInv, NEW k \in DOMAIN stream, EnterStream(k)
  PROVE  PagesInv'
  <1>1. /\ stream[k].pc = "waiting" /\ stream' = [stream EXCEPT ![k].pc = "fetching"]
        /\ root' = root /\ item' = item /\ exec' = exec /\ read' = read /\ broken' = broken
    BY DEF EnterStream
  <1>2. /\ stream[k] \in ChunkType /\ ChunkRight(k, stream[k], read, broken)
        /\ stream \in [DOMAIN stream -> ChunkType] /\ broken \in Nat
        /\ read \in [DOMAIN read -> ReadType]
        /\ k \in DOMAIN read =>
              /\ Fair(k, read[k].seen, ToSet(read[k].said), broken)
              /\ read[k].said = << >> => k \in DOMAIN stream
    BY ChunkFacts
  <1>3. /\ DOMAIN stream' = DOMAIN stream
        /\ stream'[k] = [stream[k] EXCEPT !.pc = "fetching"]
        /\ \A l \in DOMAIN stream : l # k => stream'[l] = stream[l]
        /\ stream' = [l \in DOMAIN stream |-> stream'[l]]
    BY <1>1, <1>2
  <1>4. /\ stream'[k].pc = "fetching" /\ stream'[k].code = stream[k].code
        /\ stream'[k].rows = stream[k].rows /\ stream'[k] \in ChunkType
    BY <1>2, <1>3 DEF ChunkType
  <1>5. ChunkRight(k, stream'[k], read', broken')
    BY <1>1, <1>2, <1>4 DEF ChunkRight
  <1>6. stream' \in [DOMAIN stream' -> ChunkType]
    BY <1>2, <1>3, <1>4
  <1> QED
    BY <1>1, <1>2, <1>3, <1>5, <1>6, ChunkMoves

LEMMA StreamFailsStep ==
  ASSUME PagesInv, NEW k \in DOMAIN stream, StreamFails(k)
  PROVE  PagesInv'
  <1>1. PICK code \in {"fetch_failed", "fetch_refused"} :
          Ended(k, [pc |-> "done", code |-> code, rows |-> << >>])
    BY DEF StreamFails
  <1>2. /\ stream[k].pc = "fetching"
        /\ root' = root /\ item' = item /\ exec' = exec /\ read' = read /\ broken' = broken
    BY DEF StreamFails
  <1>3. /\ stream[k] \in ChunkType /\ ChunkRight(k, stream[k], read, broken)
        /\ StreamInv /\ broken \in Nat
        /\ read \in [DOMAIN read -> ReadType]
        /\ k \in DOMAIN read => Fair(k, read[k].seen, ToSet(read[k].said), broken)
    BY ChunkFacts
  <1>4. PICK c : c = [pc |-> "done", code |-> code, rows |-> << >>]
    OBVIOUS
  <1>5. c \in ChunkType /\ c.pc = "done" /\ c.code # NoCode /\ c.rows = << >>
    <2>1. code \in StreamCode /\ NoCode \notin StreamCode
      BY CodesApart DEF StreamCode
    <2>2. << >> \in Seq(Nat)
      OBVIOUS
    <2> QED
      BY <1>4, <2>1, <2>2 DEF ChunkType
  <1>6. /\ DOMAIN stream' \subseteq DOMAIN stream /\ stream' \in [DOMAIN stream' -> ChunkType]
        /\ \A l \in DOMAIN stream : l # k => l \in DOMAIN stream' /\ stream'[l] = stream[l]
        /\ k \in DOMAIN stream' => stream'[k] = c
        /\ k \notin DOMAIN stream' => ~Awaited(k)
    <2>1. Ended(k, c)
      BY <1>1, <1>4
    <2> QED
      BY <1>3, <1>5, <2>1, EndedFacts
  <1>7. ChunkRight(k, c, read', broken')
    BY <1>2, <1>3, <1>5 DEF ChunkRight
  <1>8. k \in DOMAIN read => read[k].said # << >>
    BY <1>2, <1>3 DEF ChunkRight
  <1> QED
    BY <1>2, <1>3, <1>6, <1>7, <1>8, ChunkMoves

LEMMA StreamReportStep ==
  ASSUME PagesInv, NEW k \in DOMAIN stream, StreamReport(k)
  PROVE  PagesInv'
  <1>1. PICK v : v = IF stream[k].code = NoCode THEN "success" ELSE "parse_error"
    OBVIOUS
  <1>2. /\ stream[k].pc = "reporting" /\ read' = [read EXCEPT ![k].said = Append(@, v)]
        /\ root' = root /\ item' = item /\ exec' = exec
    BY <1>1 DEF StreamReport
  <1>3. /\ stream[k] \in ChunkType /\ ChunkRight(k, stream[k], read, broken)
        /\ StreamInv /\ broken \in Nat /\ k[3] # 0 /\ k \in Id
        /\ read \in [DOMAIN read -> ReadType]
    BY ChunkFacts
  <1>4. /\ k \in DOMAIN read /\ read[k].said = << >> /\ "blocked" \notin read[k].seen.signs
        /\ stream[k].code = NoCode <=> Good(read[k].seen)
        /\ stream[k].code = NoCode <=> stream[k].rows # << >>
    BY <1>2, <1>3 DEF ChunkRight
  <1>5. v \in Verdicts /\ (v = "success" <=> Good(read[k].seen)) /\ v # "blocked"
    BY <1>1, <1>4 DEF Verdicts
  <1>6. read[k].said \in Seq(Verdicts) /\ read[k].seen \in PageType /\ read[k] \in ReadType
    BY <1>3, <1>4 DEF ReadType
  <1>7. /\ Append(read[k].said, v) \in Seq(Verdicts) /\ Append(read[k].said, v) # << >>
        /\ ToSet(Append(read[k].said, v)) = {v}
    BY <1>4, <1>5, <1>6, SaidFacts
  <1>8. /\ read'[k] = [read[k] EXCEPT !.said = Append(read[k].said, v)]
        /\ \A id \in DOMAIN read : id # k => read'[id] = read[id]
        /\ DOMAIN read' = DOMAIN read
        /\ read' = [id \in DOMAIN read |-> read'[id]]
    BY <1>2, <1>3, <1>4
  <1>9. read'[k].seen = read[k].seen /\ read'[k].said = Append(read[k].said, v) /\ read'[k] \in ReadType
    BY <1>6, <1>7, <1>8 DEF ReadType
  <1>10. read' \in [DOMAIN read' -> ReadType]
    BY <1>3, <1>8, <1>9
  <1>11. \A b : Fair(k, read'[k].seen, ToSet(read'[k].said), b)
    <2>1. ToSet(read'[k].said) = {v} /\ read'[k].seen = read[k].seen
      BY <1>7, <1>9
    <2>2. Cardinality({v}) <= 1
      BY FS_Singleton
    <2> QED
      BY <1>3, <1>4, <1>5, <2>1, <2>2 DEF Fair
  <1>12. \E pc \in {"done", "raised"} :
           /\ Ended(k, [stream[k] EXCEPT !.pc = pc])
           /\ broken' \in Nat /\ broken <= broken'
           /\ pc = "raised" => stream[k].code # NoCode /\ broken' > 0
    <2>1. CASE Ended(k, [stream[k] EXCEPT !.pc = "done"]) /\ broken' = broken
      BY <1>3, <2>1
    <2>2. CASE /\ stream[k].code # NoCode /\ broken' = broken + 1
               /\ Ended(k, [stream[k] EXCEPT !.pc = "raised"])
      <3>1. broken' \in Nat /\ broken <= broken' /\ broken' > 0
        BY <1>3, <2>2
      <3> QED
        BY <2>2, <3>1
    <2> QED
      BY <2>1, <2>2 DEF StreamReport
  <1>13. PICK pc \in {"done", "raised"} :
           /\ Ended(k, [stream[k] EXCEPT !.pc = pc])
           /\ broken' \in Nat /\ broken <= broken'
           /\ pc = "raised" => stream[k].code # NoCode /\ broken' > 0
    BY <1>12
  <1>14. PICK c : c = [stream[k] EXCEPT !.pc = pc]
    OBVIOUS
  <1>15. c \in ChunkType /\ c.pc = pc /\ c.code = stream[k].code /\ c.rows = stream[k].rows
    BY <1>3, <1>13, <1>14 DEF ChunkType
  <1>16. /\ DOMAIN stream' \subseteq DOMAIN stream /\ stream' \in [DOMAIN stream' -> ChunkType]
         /\ \A l \in DOMAIN stream : l # k => l \in DOMAIN stream' /\ stream'[l] = stream[l]
         /\ k \in DOMAIN stream' => stream'[k] = c
         /\ k \notin DOMAIN stream' => ~Awaited(k)
    <2>1. Ended(k, c)
      BY <1>13, <1>14
    <2> QED
      BY <1>3, <1>15, <2>1, EndedFacts
  <1>17. ChunkRight(k, c, read', broken')
    <2>1. /\ <<k[1], k[2], 0>> \in DOMAIN read' 
          /\ read'[<<k[1], k[2], 0>>].seen = read[<<k[1], k[2], 0>>].seen
      <3>1. <<k[1], k[2], 0>> \in DOMAIN read
        BY <1>3 DEF ChunkRight
      <3> QED
        BY <1>8, <1>9, <3>1
    <2>2. read'[k].said # << >>
      BY <1>7, <1>9
    <2> QED
      BY <1>3, <1>4, <1>13, <1>15, <2>1, <2>2 DEF ChunkRight
  <1>18. read'[k].said # << >>
    BY <1>7, <1>9
  <1>19. k \in DOMAIN stream' => ChunkRight(k, stream'[k], read', broken')
    BY <1>16, <1>17
  <1>20. Fair(k, read'[k].seen, ToSet(read'[k].said), broken')
    BY <1>11
  <1>21. /\ DOMAIN read' = DOMAIN read
         /\ \A id \in DOMAIN read : id # k => read'[id] = read[id]
    BY <1>8
  <1> QED
    BY <1>2, <1>10, <1>13, <1>16, <1>18, <1>19, <1>20, <1>21, ChunkMoves

LEMMA StreamPageStep ==
  ASSUME PagesInv, NEW k \in DOMAIN stream, StreamPage(k)
  PROVE  PagesInv'
  <1>1. /\ stream[k].pc = "fetching"
        /\ root' = root /\ item' = item /\ exec' = exec /\ broken' = broken
    BY DEF StreamPage
  <1>2. PICK parsed \in BOOLEAN, rows \in {<< >>} \cup RankRows :
          /\ ~parsed => rows = << >>
          /\ stream' = [stream EXCEPT ![k] =
               [pc |-> "reporting", rows |-> rows,
                code |-> CASE ~parsed -> "parse_error"
                           [] parsed /\ rows = << >> -> "upstream_incomplete"
                           [] OTHER -> NoCode]]
          /\ read' = With(k, [seen |-> [signs |-> {}, shape |-> "whole", parsed |-> parsed,
                                       rows |-> rows, more |-> 0], said |-> << >>], read)
    BY DEF StreamPage
  <1>3. PICK code : code = CASE ~parsed -> "parse_error"
                             [] parsed /\ rows = << >> -> "upstream_incomplete"
                             [] OTHER -> NoCode
    OBVIOUS
  <1>4. PICK c : c = [pc |-> "reporting", rows |-> rows, code |-> code]
    OBVIOUS
  <1>5. PICK page : page = [signs |-> {}, shape |-> "whole", parsed |-> parsed, rows |-> rows, more |-> 0]
    OBVIOUS
  <1>6. /\ stream' = [stream EXCEPT ![k] = c]
        /\ read' = With(k, [seen |-> page, said |-> << >>], read)
    BY <1>2, <1>3, <1>4, <1>5
  <1>7. /\ stream[k] \in ChunkType /\ ChunkRight(k, stream[k], read, broken)
        /\ StreamInv /\ broken \in Nat /\ k[3] # 0 /\ k \in Id
        /\ read \in [DOMAIN read -> ReadType] /\ stream \in [DOMAIN stream -> ChunkType]
    BY ChunkFacts
  <1>8. PICK first : first = <<k[1], k[2], 0>>
    OBVIOUS
  <1>9. first \in DOMAIN read /\ first # k /\ read[first].seen.more \in Nat
    <2>1. first \in DOMAIN read
      BY <1>7, <1>8 DEF ChunkRight
    <2>2. first # k
      BY <1>7, <1>8
    <2>3. read[first] \in ReadType
      BY <1>7, <2>1
    <2> QED
      BY <2>1, <2>2, <2>3 DEF ReadType, PageType
  <1>10. rows \in Seq(Nat)
    <2>1. << >> \in Seq(Nat)
      OBVIOUS
    <2> QED
      BY <1>2, <2>1, PageConstants
  <1>11. /\ code \in StreamCode \cup {NoCode}
         /\ code = NoCode <=> parsed /\ rows # << >>
    <2>1. "parse_error" \in StreamCode /\ "upstream_incomplete" \in StreamCode /\ NoCode \notin StreamCode
      BY CodesApart DEF StreamCode
    <2>2. /\ ~parsed => code = "parse_error"
          /\ parsed /\ rows = << >> => code = "upstream_incomplete"
          /\ parsed /\ rows # << >> => code = NoCode
      BY <1>3
    <2> QED
      BY <2>1, <2>2
  <1>12. code = NoCode <=> rows # << >>
    BY <1>2, <1>11
  <1>13. c \in ChunkType /\ c.pc = "reporting" /\ c.code = code /\ c.rows = rows
    BY <1>4, <1>10, <1>11 DEF ChunkType
  <1>14. page \in PageType /\ page.signs = {} /\ (Good(page) <=> parsed /\ rows # << >>)
    <2>1. page \in PageType
      BY <1>5, <1>10 DEF PageType
    <2> QED
      BY <1>5, <2>1 DEF Good
  <1>15. /\ DOMAIN read' = DOMAIN read \cup {k} /\ read'[k] = [seen |-> page, said |-> << >>]
         /\ \A x \in DOMAIN read : x # k => read'[x] = read[x]
         /\ read' = [x \in DOMAIN read' |-> read'[x]]
    BY <1>6 DEF With, Over
  <1>16. read'[k].seen = page /\ read'[k].said = << >> /\ read'[k] \in ReadType
    <2>1. << >> \in Seq(Verdicts)
      OBVIOUS
    <2> QED
      BY <1>14, <1>15, <2>1 DEF ReadType
  <1>17. read' \in [DOMAIN read' -> ReadType]
    BY <1>7, <1>15, <1>16
  <1>18. /\ DOMAIN stream' = DOMAIN stream /\ stream'[k] = c
         /\ \A l \in DOMAIN stream : l # k => stream'[l] = stream[l]
         /\ stream' \in [DOMAIN stream' -> ChunkType]
    BY <1>6, <1>7, <1>13
  <1>19. ChunkRight(k, stream'[k], read', broken')
    <2>1. first \in DOMAIN read' /\ read'[first].seen = read[first].seen
      BY <1>9, <1>15
    <2>2. k \in DOMAIN read'
      BY <1>15
    <2>3. code = NoCode <=> Good(page)
      BY <1>11, <1>14
    <2> QED
      BY <1>8, <1>10, <1>12, <1>13, <1>14, <1>16, <1>18, <2>1, <2>2, <2>3 DEF ChunkRight
  <1>20. Fair(k, read'[k].seen, ToSet(read'[k].said), broken')
    <2>1. ToSet(read'[k].said) = {}
      BY <1>16 DEF ToSet
    <2> QED
      BY <2>1, FS_EmptySet DEF Fair
  <1>21. broken' \in Nat /\ broken <= broken'
    BY <1>1, <1>7
  <1> QED
    BY <1>1, <1>15, <1>17, <1>18, <1>19, <1>20, <1>21, ChunkMoves
-----------------------------------------------------------------------------
(* The continuation is over. *)

\* The execution in slot s goes on as its page and its chunks say, and chunks that are over
\* are dropped.
LEMMA GatherEnds ==
  ASSUME PagesInv, NEW s \in Slot, exec[s] # Idle, exec[s].pc = "gathering",
         NEW i, i = exec[s].item, NEW id, id = PageId(i, 0),
         root' = root, item' = item, read' = read, broken' = broken,
         exec'[s].item = i, exec'[s].pc \notin {"fetching", "gathering"},
         \A t \in Slot \ {s} : exec'[t] = exec[t],
         exec' \in [Slot -> {Idle} \cup ExecType(DOMAIN item)],
         Held(exec'[s], read[id].seen, read[id].said, KindOf(i), PageOf(i), broken),
         NEW gone \in SUBSET Own(s), \A k \in gone : stream[k].pc \in {"done", "raised"},
         stream' = [k \in DOMAIN stream \ gone |-> stream[k]]
  PROVE  PagesInv'
  <1>1. /\ broken \in Nat /\ broken' \in Nat /\ broken <= broken'
        /\ \A l \in DOMAIN read : l[3] = 0 => l \in DOMAIN read' /\ read'[l].seen = read[l].seen
    BY DEF PagesInv, ItemInv
  <1>2. /\ ItemInv' /\ ExecInv' /\ EndInv'
        /\ \A l : NotNow(l, item, exec) => NotNow(l, item', exec')
    <2>1. \A t \in Slot : exec'[t] # Idle =>
           /\ exec[t] # Idle /\ exec'[t].item = exec[t].item
           /\ exec'[t].pc = "fetching" => exec[t].pc = "fetching"
      OBVIOUS
    <2> QED
      BY <1>1, <2>1, SameItems
  <1>3. HeldInv'
    <2> SUFFICES ASSUME NEW t \in Slot, exec'[t] # Idle, exec'[t].pc # "fetching" PROVE HeldAt(t)'
      BY DEF HeldInv
    <2>1. CASE t = s
      <3>1. HeldAt(s)
        BY DEF PagesInv, HeldInv
      <3>2. id \in DOMAIN read' /\ <<i, item'[i].attempts, 0>> = id
        BY <3>1 DEF HeldAt, PageId
      <3>3. KindOf(i)' = KindOf(i) /\ PageOf(i)' = PageOf(i)
        BY SameKind
      <3>4. Held(exec'[t], read'[id].seen, read'[id].said, KindOf(i)', PageOf(i)', broken')
        BY <2>1, <3>3
      <3> QED
        BY <2>1, <3>2, <3>4 DEF HeldAt, PageId
    <2>2. CASE t # s
      <3>1. exec'[t] = exec[t] /\ exec[t] # Idle
        BY <2>2
      <3>2. HeldAt(t)
        BY <3>1 DEF PagesInv, HeldInv
      <3>3. /\ PageId(exec[t].item, 0) \in DOMAIN read'
            /\ read'[PageId(exec[t].item, 0)] = read[PageId(exec[t].item, 0)]
        BY <3>2 DEF HeldAt
      <3> QED
        BY <1>1, <3>1, <3>2, <3>3, SameExecution
    <2> QED
      BY <2>1, <2>2
  <1>4. ReadInv'
    <2>1. ASSUME NEW l \in DOMAIN read PROVE ReadAt(l)'
      <3>1. ReadAt(l)
        BY DEF PagesInv, ReadInv
      <3>2. /\ l[1] \in DOMAIN item' /\ l[2] <= item'[l[1]].attempts /\ NotNow(l, item', exec')
            /\ Past(l, item') => Past(l, item)
        BY <1>2, <3>1 DEF ReadAt
      <3>3. l[3] # 0 /\ read[l].said = << >> => l \in DOMAIN stream'
        <4> SUFFICES ASSUME l[3] # 0, read[l].said = << >> PROVE l \in DOMAIN stream'
          OBVIOUS
        <4>1. l \in DOMAIN stream
          BY <3>1 DEF ReadAt
        <4>2. ChunkRight(l, stream[l], read, broken)
          BY <4>1, ChunkFacts
        <4>3. l \notin gone
          BY <4>2 DEF ChunkRight
        <4> QED
          BY <4>1, <4>3
      <3> QED
        BY <1>1, <3>1, <3>2, <3>3, SamePage
    <2> QED
      BY <2>1 DEF ReadInv, PagesInv
  <1>5. StreamInv'
    <2>1. ASSUME NEW k \in DOMAIN stream' PROVE ChunkAt(k)'
      <3>1. k \in DOMAIN stream /\ ChunkAt(k) /\ stream'[k] = stream[k]
        BY DEF PagesInv, StreamInv
      <3>2. k[1] \in DOMAIN item' /\ k[2] <= item'[k[1]].attempts /\ NotNow(k, item', exec')
        BY <1>2, <3>1 DEF ChunkAt
      <3>3. /\ <<k[1], k[2], 0>> \in DOMAIN read'
            /\ read'[<<k[1], k[2], 0>>].seen = read[<<k[1], k[2], 0>>].seen
        BY <3>1 DEF ChunkAt, ChunkRight
      <3> QED
        BY <1>1, <3>1, <3>2, <3>3, SameChunk
    <2>2. ASSUME NEW t \in Slot, exec'[t] # Idle, exec'[t].pc = "gathering" PROVE OwnAt(t)'
      <3>1. t # s /\ exec'[t] = exec[t] /\ exec[t] # Idle
        BY <2>2
      <3>2. OwnAt(t) /\ exec[t].item # i
        BY <2>2, <3>1 DEF PagesInv, StreamInv, ExecInv
      <3>3. \A l : l[1] = exec[t].item => (l \in DOMAIN stream' <=> l \in DOMAIN stream)
        <4>1. \A l \in gone : l[1] = i
          BY DEF Own
        <4> QED
          BY <3>2, <4>1
      <3> QED
        BY <3>1, <3>2, <3>3, SameOwn
    <2>3. stream' \in [DOMAIN stream' -> ChunkType] /\ DOMAIN stream' \subseteq Id
      BY DEF PagesInv, StreamInv
    <2> QED
      BY <2>1, <2>2, <2>3 DEF StreamInv
  <1> QED
    BY <1>2, <1>3, <1>4, <1>5 DEF PagesInv

\* What an execution that waits for its chunks knows
LEMMA GatheringFacts ==
  ASSUME PagesInv, NEW s \in Slot, exec[s] # Idle, exec[s].pc = "gathering",
         NEW i, i = exec[s].item, NEW id, id = PageId(i, 0)
  PROVE  /\ id \in DOMAIN read /\ exec[s].more = read[id].seen.more /\ exec[s].more \in Nat
         /\ Issue(KindOf(i), read[id].seen) = NoCode /\ Good(read[id].seen)
         /\ read[id].said = << >> /\ KindOf(i) = "rank_list" /\ exec[s].rows = read[id].seen.rows
         /\ exec[s] \in ExecType(DOMAIN item) /\ i \in DOMAIN item
         /\ exec \in [Slot -> {Idle} \cup ExecType(DOMAIN item)]
         /\ Own(s) \subseteq DOMAIN stream /\ OwnAt(s)
  <1>1. HeldAt(s) /\ OwnAt(s)
    BY DEF PagesInv, HeldInv, StreamInv
  <1>2. /\ id \in DOMAIN read
        /\ Held(exec[s], read[id].seen, read[id].said, KindOf(i), PageOf(i), broken)
    BY <1>1 DEF HeldAt
  <1>3. read[id].seen \in Page(KindOf(i), PageOf(i)) /\ read[id].said \in Seq(Verdicts)
    <2>1. ReadAt(id) /\ read[id] \in ReadType
      BY <1>2 DEF PagesInv, ReadInv
    <2>2. id[1] = i /\ id[3] = 0
      BY IdFacts
    <2> QED
      BY <2>1, <2>2 DEF ReadAt, ReadType
  <1>4. exec[s].more = read[id].seen.more /\ read[id].seen.more > 0 /\ read[id].said = << >>
    BY <1>2 DEF Held
  <1>5. Good(read[id].seen)
    BY <1>3, <1>4, RootFacts, PageFacts DEF PagesInv, ItemInv
  <1>6. Own(s) \subseteq DOMAIN stream
    BY DEF Own
  <1> QED
    BY <1>1, <1>2, <1>4, <1>5, <1>6, ExecFacts DEF Held, PagesInv, ExecInv

LEMMA GatherRaisesStep ==
  ASSUME PagesInv, NEW s \in Slot, GatherRaises(s)
  PROVE  PagesInv'
  <1>1. PICK i : i = exec[s].item
    OBVIOUS
  <1>2. PICK id : id = PageId(i, 0)
    OBVIOUS
  <1>3. /\ exec[s] # Idle /\ exec[s].pc = "gathering"
        /\ exec' = [exec EXCEPT ![s].pc = "error", ![s].code = "parse_error"]
        /\ root' = root /\ item' = item /\ read' = read /\ broken' = broken
    BY DEF GatherRaises
  <1>4. /\ id \in DOMAIN read /\ exec[s].more = read[id].seen.more
        /\ Issue(KindOf(i), read[id].seen) = NoCode
        /\ read[id].said = << >> /\ Own(s) \subseteq DOMAIN stream
    BY <1>1, <1>2, <1>3, GatheringFacts
  <1>5. "parse_error" \in Code
    BY DEF Code, Retryable
  <1>6. /\ exec'[s].item = exec[s].item /\ exec'[s].pc = "error" /\ exec'[s].code = "parse_error"
        /\ exec'[s].more = exec[s].more
        /\ \A t \in Slot \ {s} : exec'[t] = exec[t]
        /\ exec' \in [Slot -> {Idle} \cup ExecType(DOMAIN item)]
    BY <1>3, <1>5, PcFacts DEF PagesInv
  <1>7. broken > 0
    <2>1. PICK k \in Own(s) : stream[k].pc = "raised"
      BY DEF GatherRaises
    <2>2. ChunkRight(k, stream[k], read, broken)
      BY <1>4, <2>1, ChunkFacts
    <2> QED
      BY <2>1, <2>2 DEF ChunkRight
  <1>8. Held(exec'[s], read[id].seen, read[id].said, KindOf(i), PageOf(i), broken)
    BY <1>4, <1>6, <1>7 DEF Held
  <1>9. PICK gone : gone = {k \in Own(s) : stream[k].pc \in {"done", "raised"}}
    OBVIOUS
  <1>10. stream' = [k \in DOMAIN stream \ gone |-> stream[k]]
    <2>1. DOMAIN stream \ gone =
            {l \in DOMAIN stream : l \notin Own(s) \/ stream[l].pc \notin {"done", "raised"}}
      BY <1>9
    <2> QED
      BY <2>1 DEF GatherRaises
  <1>11. gone \in SUBSET Own(s) /\ \A k \in gone : stream[k].pc \in {"done", "raised"}
    BY <1>9
  <1> QED
    BY <1>1, <1>2, <1>3, <1>6, <1>8, <1>10, <1>11, GatherEnds

\* Every chunk has been answered: the rows are merged.
LEMMA MergedFacts ==
  ASSUME PagesInv, NEW s \in Slot, exec[s] # Idle, exec[s].pc = "gathering",
         NEW shown,
         shown = [c \in {0} \cup Chunks(exec[s].more) |->
                    IF c = 0 THEN exec[s].rows ELSE stream[PageId(exec[s].item, c)].rows]
  PROVE  Merged(s) \in Seq(Nat) /\ InListOrder(Merged(s), shown)
  <1>1. PICK i : i = exec[s].item
    OBVIOUS
  <1>2. PICK id : id = PageId(i, 0)
    OBVIOUS
  <1>3. PICK more : more = exec[s].more
    OBVIOUS
  <1>4. /\ more \in Nat /\ exec[s].rows \in Seq(Nat)
        /\ Own(s) \subseteq DOMAIN stream
        /\ Own(s) = {PageId(i, n) : n \in Chunks(more)}
    <2>1. /\ exec[s].more \in Nat /\ exec[s] \in ExecType(DOMAIN item)
          /\ Own(s) \subseteq DOMAIN stream /\ OwnAt(s)
      BY <1>1, <1>2, GatheringFacts
    <2>2. Own(s) = {PageId(i, n) : n \in Chunks(more)}
      BY <1>1, <1>3, <2>1 DEF OwnAt
    <2>3. exec[s].rows \in Seq(Nat)
      BY <2>1 DEF ExecType
    <2> QED
      BY <1>3, <2>1, <2>2, <2>3
  <1>5. PICK N \in Nat : Chunks(more) = 1 .. N
    BY <1>4, ChunksFacts
  <1>6. Cardinality(Own(s)) = N
    <2> DEFINE f == [n \in 1 .. N |-> PageId(i, n)]
    <2>1. f \in Bijection(1 .. N, Own(s))
      <3>1. \A n \in 1 .. N : f[n] = PageId(i, n) /\ f[n] \in Own(s)
        BY <1>4, <1>5
      <3>2. \A n, m \in 1 .. N : f[n] = f[m] => n = m
        BY IdFacts
      <3>3. \A k \in Own(s) : \E n \in 1 .. N : f[n] = k
        BY <1>4, <1>5
      <3>4. f \in [1 .. N -> Own(s)]
        BY <3>1
      <3> HIDE DEF f
      <3> QED
        BY <3>2, <3>3, <3>4 DEF Bijection, Injection, Surjection, IsInjective
    <2>2. 1 \in Int /\ N \in Int
      OBVIOUS
    <2>3. IsFiniteSet(1 .. N) /\ Cardinality(1 .. N) = N
      <3>1. Cardinality(1 .. N) = IF 1 > N THEN 0 ELSE N - 1 + 1
        BY <2>2, FS_Interval
      <3>2. IsFiniteSet(1 .. N)
        BY <2>2, FS_Interval
      <3> QED
        BY <3>1, <3>2
    <2> HIDE DEF f
    <2> QED
      BY <2>1, <2>3, FS_Bijection DEF ExistsBijection
  <1>7. PICK parts : parts = [c \in 1 .. N + 1 |-> IF c = 1 THEN exec[s].rows
                                                 ELSE stream[PageId(i, c - 1)].rows]
    OBVIOUS
  <1>8. ASSUME NEW c \in 1 .. N + 1 PROVE parts[c] \in Seq(Nat)
    <2>1. CASE c = 1
      BY <1>4, <1>7, <2>1
    <2>2. CASE c # 1
      <3>1. c - 1 \in 1 .. N
        BY <1>5, <2>2
      <3>2. PageId(i, c - 1) \in DOMAIN stream
        BY <1>4, <1>5, <3>1
      <3>3. stream[PageId(i, c - 1)] \in ChunkType
        BY <3>2, ChunkFacts
      <3>4. stream[PageId(i, c - 1)].rows \in Seq(Nat)
        BY <3>3 DEF ChunkType
      <3> QED
        BY <1>7, <2>2, <3>4
    <2> QED
      BY <2>1, <2>2
  <1>9. parts \in Seq(Seq(Nat)) /\ Len(parts) = N + 1
    <2>1. parts \in [1 .. N + 1 -> Seq(Nat)]
      BY <1>7, <1>8
    <2> QED
      BY <1>5, <2>1
  <1>10. Merged(s) = Unique(FlattenSeq(parts))
    BY <1>1, <1>6, <1>7 DEF Merged
  <1>11. DOMAIN shown = 0 .. Len(parts) - 1
    <2>1. {0} \cup (1 .. N) = 0 .. (N + 1) - 1
      OBVIOUS
    <2> QED
      BY <1>3, <1>5, <1>9, <2>1
  <1>12. ASSUME NEW c \in DOMAIN shown PROVE shown[c] = parts[c + 1]
    <2>1. c \in Nat /\ c + 1 \in 1 .. N + 1 /\ (c + 1) - 1 = c /\ (c = 0 <=> c + 1 = 1)
      BY <1>9, <1>11
    <2> QED
      BY <1>1, <1>3, <1>7, <1>11, <2>1
  <1>13. Len(parts) # 0
    BY <1>5, <1>9
  <1> QED
    BY <1>9, <1>10, <1>11, <1>12, <1>13, MergedSound

LEMMA GatheredStep ==
  ASSUME PagesInv, NEW s \in Slot, Gathered(s)
  PROVE  PagesInv'
  <1>1. PICK i : i = exec[s].item
    OBVIOUS
  <1>2. PICK id : id = PageId(i, 0)
    OBVIOUS
  <1>3. /\ exec[s] # Idle /\ exec[s].pc = "gathering" /\ \A k \in Own(s) : stream[k].pc = "done"
        /\ exec' = [exec EXCEPT ![s] =
             IF StreamFailures(s) # {} THEN [exec[s] EXCEPT !.pc = "partial", !.code = FirstFailure(s)]
             ELSE [exec[s] EXCEPT !.pc = "usable", !.rows = Merged(s)]]
        /\ stream' = [k \in DOMAIN stream \ Own(s) |-> stream[k]]
        /\ root' = root /\ item' = item /\ read' = read /\ broken' = broken
    BY DEF Gathered, Failures
  <1>4. /\ id \in DOMAIN read /\ exec[s].more = read[id].seen.more /\ exec[s].more \in Nat
        /\ Issue(KindOf(i), read[id].seen) = NoCode /\ Good(read[id].seen)
        /\ read[id].said = << >> /\ KindOf(i) = "rank_list"
        /\ exec[s] \in ExecType(DOMAIN item) /\ i \in DOMAIN item
        /\ exec \in [Slot -> {Idle} \cup ExecType(DOMAIN item)]
        /\ Own(s) \subseteq DOMAIN stream
    BY <1>1, <1>2, <1>3, GatheringFacts
  <1>5. PICK gone \in SUBSET Own(s) : gone = Own(s)
    OBVIOUS
  <1>8. /\ \A k \in gone : stream[k].pc \in {"done", "raised"}
        /\ stream' = [k \in DOMAIN stream \ gone |-> stream[k]]
    BY <1>3, <1>5
  <1>6. CASE StreamFailures(s) # {}
    <2>1. FirstFailure(s) \in StreamCode /\ FirstFailure(s) \in Code
      <3> DEFINE F == StreamFailures(s)
                 least(k) == \A l \in F : k[3] <= l[3]
      <3>1. \A k \in F : /\ k \in Id /\ k[3] \in Nat /\ stream[k] \in ChunkType /\ stream[k].code # NoCode
        BY <1>4, ChunkFacts, IdFacts DEF StreamFailures
      <3>2. \E k \in F : least(k)
        <4> DEFINE P == {k[3] : k \in F}
        <4>1. P \in SUBSET Nat
          BY <3>1
        <4>2. PICK w \in P : TRUE
          BY <1>6
        <4> HIDE DEF P
        <4>3. PICK m \in P : \A x \in P : m <= x
          BY <4>1, <4>2, Least
        <4> QED
          BY <4>3 DEF P
      <3>3. FirstFailure(s) = stream[CHOOSE k \in F : least(k)].code
        BY DEF FirstFailure, Failures
      <3> HIDE DEF F, least
      <3>4. PICK k \in F : FirstFailure(s) = stream[k].code
        BY <3>2, <3>3
      <3>5. stream[k].code \in StreamCode
        BY <3>1 DEF ChunkType
      <3> QED
        BY <3>4, <3>5, CodesApart
    <2>2. PICK code \in Code : code = FirstFailure(s)
      BY <2>1
    <2>3. exec' = [exec EXCEPT ![s].pc = "partial", ![s].code = code]
      <3>1. exec' = [exec EXCEPT ![s] = [exec[s] EXCEPT !.pc = "partial", !.code = code]]
        BY <1>3, <1>6, <2>2
      <3> QED
        BY <1>4, <3>1
    <2>4. /\ exec'[s].item = exec[s].item /\ exec'[s].pc = "partial" /\ exec'[s].code = code
          /\ exec'[s].more = exec[s].more
          /\ \A t \in Slot \ {s} : exec'[t] = exec[t]
          /\ exec' \in [Slot -> {Idle} \cup ExecType(DOMAIN item)]
      BY <1>3, <2>3, PcFacts DEF PagesInv
    <2>5. Held(exec'[s], read[id].seen, read[id].said, KindOf(i), PageOf(i), broken)
      BY <1>4, <2>1, <2>2, <2>4 DEF Held
    <2>6. exec'[s].item = i /\ exec'[s].pc \notin {"fetching", "gathering"}
      BY <1>1, <2>4
    <2> QED
      BY <1>1, <1>2, <1>3, <1>8, <2>4, <2>5, <2>6, GatherEnds
  <1>7. CASE StreamFailures(s) = {}
    <2>1. Merged(s) \in Seq(Nat)
      BY <1>3, MergedFacts
    <2>2. PICK rows \in Seq(Nat) : rows = Merged(s)
      BY <2>1
    <2>3. exec' = [exec EXCEPT ![s] = [exec[s] EXCEPT !.pc = "usable", !.rows = rows]]
      BY <1>3, <1>7, <2>2
    <2>4. exec'[s] = [[exec[s] EXCEPT !.pc = "usable"] EXCEPT !.rows = rows]
      BY <1>4, <2>3
    <2>5. exec'[s] = [item |-> exec[s].item, code |-> exec[s].code, rows |-> rows,
                      more |-> exec[s].more, pc |-> "usable"]
      <3>4. PICK pc : pc = "usable"
        OBVIOUS
      <3> DEFINE x == [exec[s] EXCEPT !.pc = pc]
                 a == exec[s].item
                 b == exec[s].code
                 c == exec[s].rows
                 d == exec[s].more
      <3>0. exec[s] \in ExecType(DOMAIN item)
        BY <1>4
      <3>1. x = [item |-> a, code |-> b, rows |-> c, more |-> d, pc |-> pc]
        BY <3>0 DEF ExecType
      <3>2. exec'[s] = [x EXCEPT !.rows = rows]
        BY <2>4, <3>4
      <3> HIDE DEF x, a, b, c, d
      <3>3. exec'[s] = [item |-> a, code |-> b, rows |-> rows, more |-> d, pc |-> pc]
        BY <3>1, <3>2
      <3> QED
        BY <3>3, <3>4 DEF a, b, d
    <2>6. exec'[s] \in ExecType(DOMAIN item)
      BY <1>4, <2>5 DEF ExecType
    <2>7. /\ \A t \in Slot \ {s} : exec'[t] = exec[t]
          /\ exec' \in [Slot -> {Idle} \cup ExecType(DOMAIN item)]
      BY <1>4, <2>3, <2>6
    <2>8. Held(exec'[s], read[id].seen, read[id].said, KindOf(i), PageOf(i), broken)
      BY <1>4, <2>1, <2>2, <2>5 DEF Held
    <2>9. exec'[s].item = i /\ exec'[s].pc \notin {"fetching", "gathering"}
      BY <1>1, <2>5
    <2> QED
      BY <1>1, <1>2, <1>3, <1>8, <2>7, <2>8, <2>9, GatherEnds
  <1> QED
    BY <1>6, <1>7
-----------------------------------------------------------------------------
(* The invariant of the pages holds, and what follows from it. *)

LEMMA InitPages ==
  ASSUME Init
  PROVE  PagesInv
  <1>1. /\ DOMAIN item = {<< >>} /\ item[<< >>] = NewItem /\ item \in [{<< >>} -> {NewItem}]
        /\ exec \in [Slot -> {Idle}] /\ \A s \in Slot : exec[s] = Idle
        /\ root \in Roots /\ broken = 0 /\ DOMAIN stream = {} /\ DOMAIN read = {}
        /\ stream = [k \in {} |-> 0] /\ read = [k \in {} |-> 0]
    BY DEF Init
  <1>2. ItemInv
    <2>1. IsFiniteSet({<< >>})
      BY FS_Singleton
    <2>2. << >> \in Seq(Nat)
      OBVIOUS
    <2>3. item \in [DOMAIN item -> ItemType]
      BY <1>1, NewItemFacts
    <2> QED
      BY <1>1, <2>1, <2>2, <2>3, NewItemFacts DEF ItemInv
  <1>3. ExecInv
    BY <1>1 DEF ExecInv
  <1>4. HeldInv
    BY <1>1 DEF HeldInv
  <1>5. ReadInv
    BY <1>1 DEF ReadInv
  <1>6. StreamInv
    BY <1>1 DEF StreamInv
  <1>7. EndInv
    <2>1. item[<< >>].status = "pending"
      BY <1>1, NewItemFacts
    <2> QED
      BY <1>1, <2>1 DEF EndInv, EndAt, RankEnd
  <1> QED
    BY <1>2, <1>3, <1>4, <1>5, <1>6, <1>7 DEF PagesInv

LEMMA PagesKept ==
  ASSUME PagesInv, UNCHANGED vars
  PROVE  PagesInv'
  <1>1. /\ root' = root /\ item' = item /\ exec' = exec /\ stream' = stream /\ read' = read
        /\ broken' = broken /\ broken \in Nat /\ broken <= broken'
    BY DEF vars, PagesInv, ItemInv
  <1>2. ItemInv' /\ ExecInv' /\ EndInv'
    <2>1. exec' \in [Slot -> {Idle} \cup ExecType(DOMAIN item)]
      BY <1>1 DEF PagesInv, ExecInv
    <2> QED
      BY <1>1, <2>1, SameItems
  <1>3. HeldInv'
    BY <1>1, SameExecution DEF PagesInv, HeldInv, HeldAt
  <1>4. ReadInv'
    <2>1. ASSUME NEW l \in DOMAIN read PROVE ReadAt(l)'
      <3>1. ReadAt(l)
        BY DEF PagesInv, ReadInv
      <3> QED
        BY <1>1, <3>1, SamePage DEF ReadAt
    <2> QED
      BY <1>1, <2>1 DEF PagesInv, ReadInv
  <1>5. StreamInv'
    <2>1. ASSUME NEW k \in DOMAIN stream PROVE ChunkAt(k)'
      <3>1. ChunkAt(k)
        BY DEF PagesInv, StreamInv
      <3> QED
        BY <1>1, <3>1, SameChunk DEF ChunkAt, ChunkRight
    <2>2. ASSUME NEW t \in Slot, exec'[t] # Idle, exec'[t].pc = "gathering" PROVE OwnAt(t)'
      <3>1. OwnAt(t)
        BY <1>1, <2>2 DEF PagesInv, StreamInv
      <3> QED
        BY <1>1, <3>1, SameOwn
    <2> QED
      BY <1>1, <2>1, <2>2 DEF PagesInv, StreamInv
  <1> QED
    BY <1>2, <1>3, <1>4, <1>5 DEF PagesInv

LEMMA ExecuteStep ==
  ASSUME PagesInv, NEW s \in Slot, Execute(s)
  PROVE  PagesInv'
  BY FetchFailsStep, FirstPageStep, ReportStep, GatheredStep, GatherRaisesStep DEF Execute

LEMMA LoadChunkStep ==
  ASSUME PagesInv, NEW k \in DOMAIN stream, LoadChunk(k)
  PROVE  PagesInv'
  BY EnterStreamStep, StreamFailsStep, StreamPageStep, StreamReportStep DEF LoadChunk

\* The invariant of the pages is kept by whatever the runner, the slots and an operator do.
LEMMA PagesStep ==
  ASSUME PagesInv, [ScopedNext]_treeVars
  PROVE  PagesInv'
  <1>1. \A j : Claimable(j) \subseteq DOMAIN item
    BY DEF Claimable, ItemsOf
  <1>2. CASE UNCHANGED vars
    BY <1>2, PagesKept
  <1>3. CASE Process
    BY <1>1, <1>3, ClaimStep, RunnerIsASlot DEF Process
  <1>4. CASE \E s \in Slot : OtherClaims(s)
    BY <1>1, <1>4, ClaimStep DEF OtherClaims
  <1>5. CASE \E s \in Slot : Work(s)
    BY <1>5, ExecuteStep DEF Work
  <1>6. CASE Continue
    BY <1>6, LoadChunkStep DEF Continue
  <1>7. Discover \/ Read \/ Decide \/ PassBy \/ Collect => UNCHANGED vars
    BY DEF Discover, Read, Decide, PassBy, Collect
  <1>8. \A j : Pause(j) \/ Resume(j) => UNCHANGED vars
    BY DEF Pause, Resume
  <1>9. UNCHANGED treeVars => UNCHANGED vars
    BY DEF treeVars
  <1> QED
    BY <1>2, <1>3, <1>4, <1>5, <1>6, <1>7, <1>8, <1>9 DEF ScopedNext, RunnerStep

LEMMA FairReports ==
  ASSUME PagesInv
  PROVE  ReportsFair
  <1> SUFFICES ASSUME NEW id \in DOMAIN read
               PROVE  LET page == read[id].seen  said == ToSet(read[id].said)
                          over == item[id[1]].attempts > id[2] \/ item[id[1]].status # "running" IN
                      /\ Cardinality(said) <= 1
                      /\ "success" \in said => Good(page)
                      /\ (Good(page) /\ (id[3] # 0 \/ broken = 0)) => said \subseteq {"success"}
                      /\ said # {} => ("blocked" \in said <=> "blocked" \in page.signs)
                      /\ (over /\ said = {}) => id \in DOMAIN stream
    BY DEF ReportsFair
  <1>1. ReadAt(id) /\ read[id].said \in Seq(Verdicts)
    BY DEF PagesInv, ReadInv, ReadType
  <1>2. ToSet(read[id].said) = {} => read[id].said = << >>
    <2>1. \A q \in Seq(Verdicts) : q # << >> => q[1] \in {q[n] : n \in DOMAIN q}
      <3>1. \A q \in Seq(Verdicts) : q # << >> => 1 \in DOMAIN q
        OBVIOUS
      <3> QED
        BY <3>1
    <2> QED
      BY <1>1, <2>1 DEF ToSet
  <1>3. Past(id, item) /\ ToSet(read[id].said) = {} => id \in DOMAIN stream
    BY <1>1, <1>2 DEF ReadAt
  <1> QED
    BY <1>1, <1>3 DEF ReadAt, Fair, Past

LEMMA RightlyGivenUp ==
  ASSUME PagesInv
  PROVE  GivenUpRightly
  BY DEF GivenUpRightly, PagesInv, EndInv, EndAt, Deserved
-----------------------------------------------------------------------------
(* The rows of a rank list.  What a page showed is kept while its attempt   *)
(* lasts, and what has been merged stays what the pages showed.             *)

\* The pages of the root item that were read are still known.
PagesStay(a) ==
  \A n : RankPage(a, n) \in DOMAIN read =>
    /\ RankPage(a, n) \in DOMAIN read'
    /\ read'[RankPage(a, n)].seen = read[RankPage(a, n)].seen
ReadGrows ==
  \A id \in DOMAIN read : id \in DOMAIN read' /\ read'[id].seen = read[id].seen

LEMMA WholeStays ==
  ASSUME NEW rows, NEW a, Whole(rows, a, read), PagesStay(a)
  PROVE  Whole(rows, a, read')
  <1> DEFINE more == read[RankPage(a, 0)].seen.more
             shown == [c \in {0} \cup Chunks(more) |-> read[RankPage(a, c)].seen.rows]
             now == [c \in {0} \cup Chunks(more) |-> read'[RankPage(a, c)].seen.rows]
  <1>1. /\ RankPage(a, 0) \in DOMAIN read' /\ read'[RankPage(a, 0)].seen.more = more
        /\ \A c \in {0} \cup Chunks(more) :
             /\ RankPage(a, c) \in DOMAIN read /\ RankPage(a, c) \in DOMAIN read'
             /\ read'[RankPage(a, c)].seen = read[RankPage(a, c)].seen
    BY DEF Whole, PagesStay
  <1>2. now = shown
    BY <1>1
  <1>3. \A c \in Chunks(more) : read'[RankPage(a, c)].seen.rows # << >>
    BY <1>1 DEF Whole
  <1>4. InListOrder(rows, now)
    BY <1>2 DEF Whole
  <1> HIDE DEF more
  <1> QED
    BY <1>1, <1>3, <1>4 DEF Whole

\* A step that forgets no page, or only such of other items.
LEMMA RankStays ==
  ASSUME RankInv, root' = root,
         item'[<< >>].status = "succeeded" /\ root.kind = "rank_list" =>
           \/ item'[<< >>] = item[<< >>] /\ PagesStay(item[<< >>].attempts)
           \/ Whole(item'[<< >>].rows, item'[<< >>].attempts, read'),
         \A t \in Slot : exec'[t] # Idle /\ exec'[t].pc = "usable" /\ KindOf(exec'[t].item) = "rank_list" =>
           \/ /\ exec'[t] = exec[t] /\ item'[<< >>].attempts = item[<< >>].attempts
              /\ PagesStay(item[<< >>].attempts)
           \/ Whole(exec'[t].rows, item'[<< >>].attempts, read'),
         \A k \in DOMAIN stream' : ChunkRows(k)'
  PROVE  RankInv'
  <1>1. RankWhole'
    BY WholeStays DEF RankInv, RankWhole
  <1>2. ASSUME NEW t \in Slot PROVE RankUsable(t)'
    <2> SUFFICES ASSUME exec'[t] # Idle, exec'[t].pc = "usable", KindOf(exec[t].item)' = "rank_list"
                 PROVE  Whole(exec'[t].rows, item'[<< >>].attempts, read')
      BY DEF RankUsable
    <2>1. KindOf(exec'[t].item) = "rank_list"
      BY DEF KindOf
    <2>2. CASE /\ exec'[t] = exec[t] /\ item'[<< >>].attempts = item[<< >>].attempts
               /\ PagesStay(item[<< >>].attempts)
      <3>1. Whole(exec[t].rows, item[<< >>].attempts, read)
        BY <2>1, <2>2 DEF RankInv, RankUsable
      <3>2. Whole(exec[t].rows, item[<< >>].attempts, read')
        BY <2>2, <3>1, WholeStays
      <3> QED
        BY <2>2, <3>2
    <2> QED
      BY <2>1, <2>2
  <1> QED
    BY <1>1, <1>2 DEF RankInv

\* Only the root item is a rank list.
LEMMA RankIsRoot ==
  ASSUME NEW i, KindOf(i) = "rank_list"
  PROVE  i = << >> /\ root.kind = "rank_list"
  BY DEF KindOf

LEMMA GrowsStays ==
  ASSUME ReadGrows
  PROVE  \A a : PagesStay(a)
  BY DEF ReadGrows, PagesStay

LEMMA RankInit ==
  ASSUME Init
  PROVE  RankInv
  <1>1. DOMAIN stream = {} /\ item[<< >>].status = "pending" /\ \A s \in Slot : exec[s] = Idle
    BY NewItemFacts DEF Init
  <1> QED
    BY <1>1 DEF RankInv, RankUsable, RankWhole

LEMMA RankClaim ==
  ASSUME PagesInv, RankInv, NEW s \in Slot, NEW i \in DOMAIN item, Claim(s, i)
  PROVE  RankInv'
  <1>1. /\ item[i].status = "pending" /\ root' = root /\ stream' = stream
        /\ read' = [id \in {l \in DOMAIN read : l[1] # i \/ \E k \in DOMAIN stream : k[1] = i} |-> read[id]]
    BY DEF Claim
  <1>2. /\ item'[i].status = "running"
        /\ \A j \in DOMAIN item \ {i} : item'[j] = item[j]
        /\ exec'[s].pc = "fetching"
        /\ \A t \in Slot \ {s} : exec'[t] = exec[t] /\ (exec[t] # Idle => exec[t].item # i)
    BY ClaimEffect
  <1>3. i # << >> => \A a : PagesStay(a)
    <2>1. \A a, n : RankPage(a, n)[1] = << >>
      BY DEF RankPage
    <2> QED
      BY <1>1, <2>1 DEF PagesStay
  <1>4. << >> \in DOMAIN item
    BY DEF PagesInv, ItemInv
  <1>5. \A k \in DOMAIN stream' : ChunkRows(k)'
    BY <1>1 DEF RankInv, ChunkRows
  <1>6. item'[<< >>].status = "succeeded" => item'[<< >>] = item[<< >>] /\ i # << >>
    BY <1>2, <1>4
  <1>7. ASSUME NEW t \in Slot, exec'[t] # Idle, exec'[t].pc = "usable", KindOf(exec'[t].item) = "rank_list"
        PROVE  exec'[t] = exec[t] /\ item'[<< >>].attempts = item[<< >>].attempts /\ i # << >>
    <2>1. t # s /\ exec'[t] = exec[t] /\ exec[t].item = << >> /\ i # << >>
      BY <1>2, <1>7, RankIsRoot
    <2> QED
      BY <1>2, <1>4, <2>1
  <1> QED
    BY <1>1, <1>3, <1>5, <1>6, <1>7, RankStays

LEMMA RankFetchFails ==
  ASSUME PagesInv, RankInv, NEW s \in Slot, FetchFails(s)
  PROVE  RankInv'
  <1>1. PICK code \in {"fetch_failed", "fetch_refused"} : Return(s, Failed(exec[s].item, code))
    BY DEF FetchFails
  <1>2. /\ exec[s] # Idle /\ root' = root /\ stream' = stream /\ read' = read
        /\ exec' = [exec EXCEPT ![s] = Idle] /\ item' = Failed(exec[s].item, code)
    BY <1>1 DEF FetchFails, Return
  <1>3. code \in Code
    BY DEF Code, Retryable, Terminal
  <1>4. /\ Ends(exec[s].item, item, item') /\ item'[exec[s].item].status \in {"pending", "failed"}
    BY <1>2, <1>3, ExecFacts, FailedEnds DEF PagesInv
  <1>5. << >> \in DOMAIN item
    BY DEF PagesInv, ItemInv
  <1>6. /\ item'[<< >>].attempts = item[<< >>].attempts
        /\ item'[<< >>].status = "succeeded" => item'[<< >>] = item[<< >>]
    BY <1>4, <1>5 DEF Ends
  <1>7. \A t \in Slot : exec'[t] # Idle => exec'[t] = exec[t]
    BY <1>2 DEF PagesInv, ExecInv
  <1>8. ReadGrows /\ \A k \in DOMAIN stream' : ChunkRows(k)'
    BY <1>2 DEF ReadGrows, RankInv, ChunkRows
  <1> QED
    BY <1>2, <1>6, <1>7, <1>8, GrowsStays, RankStays

LEMMA RankReport ==
  ASSUME PagesInv, RankInv, NEW s \in Slot, Report(s)
  PROVE  RankInv'
  <1>1. PICK i : i = exec[s].item
    OBVIOUS
  <1>2. PICK id : id = PageId(i, 0)
    OBVIOUS
  <1>3. /\ exec[s] # Idle /\ id \in DOMAIN read /\ read' \in [DOMAIN read -> ReadType]
        /\ \A l \in DOMAIN read : l # id => read'[l] = read[l]
        /\ read'[id].seen = read[id].seen
    BY <1>1, <1>2, ReportFacts
  <1>4. ReadGrows /\ DOMAIN read' = DOMAIN read /\ root' = root /\ stream' = stream
    BY <1>3 DEF ReadGrows, Report
  <1>5. \A k \in DOMAIN stream' : ChunkRows(k)'
    BY <1>4 DEF RankInv, ChunkRows, ReadGrows
  <1>6. /\ i \in DOMAIN item /\ item[i].status = "running" /\ exec[s].code \in Code
        /\ exec[s].rows \in Seq(Nat) /\ << >> \in DOMAIN item
        /\ exec \in [Slot -> {Idle} \cup ExecType(DOMAIN item)]
    BY <1>1, <1>3, ExecFacts DEF PagesInv, ItemInv, ExecInv
  <1>7. \A t \in Slot : exec'[t] # Idle /\ exec'[t].pc = "usable" => exec'[t] = exec[t]
    <2>1. CASE exec' = [exec EXCEPT ![s] = Idle]
      BY <1>6, <2>1
    <2>2. CASE exec' = [exec EXCEPT ![s].pc = "error", ![s].code = "parse_error"]
      <3>1. "parse_error" \in Code
        BY DEF Code, Retryable
      <3>2. exec'[s].pc = "error" /\ \A t \in Slot \ {s} : exec'[t] = exec[t]
        BY <1>3, <2>2, <3>1, PcFacts DEF PagesInv
      <3> QED
        BY <3>2
    <2> QED
      BY <2>1, <2>2 DEF Report, EvidenceKept, EvidenceRaises, Return
  <1>8. \/ item' = item
        \/ \E code \in Code : item' = Failed(i, code)
        \/ exec[s].pc = "usable" /\ item' = Completed(i, exec[s].rows)
    <2>1. "worker_internal_error" \in Code
      BY DEF Code, Retryable
    <2> QED
      BY <1>1, <1>6, <2>1 DEF Report, EvidenceKept, EvidenceRaises, Return
  <1>9. CASE item' = item
    BY <1>4, <1>5, <1>7, <1>9, GrowsStays, RankStays
  <1>10. CASE \E code \in Code : item' = Failed(i, code)
    <2>1. Ends(i, item, item') /\ item'[i].status \in {"pending", "failed"}
      BY <1>6, <1>10, FailedEnds DEF PagesInv
    <2>2. /\ item'[<< >>].attempts = item[<< >>].attempts
          /\ item'[<< >>].status = "succeeded" => item'[<< >>] = item[<< >>]
      BY <1>6, <2>1 DEF Ends
    <2> QED
      BY <1>4, <1>5, <1>7, <2>2, GrowsStays, RankStays
  <1>11. CASE exec[s].pc = "usable" /\ item' = Completed(i, exec[s].rows)
    <2>1. Ends(i, item, item') /\ item'[i].rows = exec[s].rows
      BY <1>6, <1>11, CompletedEnds DEF PagesInv
    <2>2. item'[<< >>].attempts = item[<< >>].attempts
      BY <1>6, <2>1 DEF Ends
    <2>3. i # << >> => item'[<< >>] = item[<< >>]
      BY <1>6, <2>1 DEF Ends
    <2>4. i = << >> /\ root.kind = "rank_list" =>
            Whole(item'[<< >>].rows, item'[<< >>].attempts, read')
      <3> SUFFICES ASSUME i = << >>, root.kind = "rank_list"
                   PROVE  Whole(item'[<< >>].rows, item'[<< >>].attempts, read')
        OBVIOUS
      <3>1. KindOf(exec[s].item) = "rank_list"
        BY <1>1 DEF KindOf
      <3>2. Whole(exec[s].rows, item[<< >>].attempts, read)
        BY <1>3, <1>11, <3>1 DEF RankInv, RankUsable
      <3>3. Whole(exec[s].rows, item[<< >>].attempts, read')
        BY <1>4, <3>2, GrowsStays, WholeStays
      <3> QED
        BY <2>1, <2>2, <3>3
    <2> QED
      BY <1>4, <1>5, <1>7, <2>2, <2>3, <2>4, GrowsStays, RankStays
  <1> QED
    BY <1>8, <1>9, <1>10, <1>11

LEMMA RankFirstPage ==
  ASSUME PagesInv, RankInv, NEW s \in Slot, FirstPage(s)
  PROVE  RankInv'
  <1>1. PICK i : i = exec[s].item
    OBVIOUS
  <1>2. PICK id : id = PageId(i, 0)
    OBVIOUS
  <1>3. PICK p \in Page(KindOf(i), PageOf(i)) :
          LET next == Judged(exec[s], p)
              chunks == IF next.pc = "gathering" THEN Chunks(p.more) ELSE {} IN
          /\ exec' = [exec EXCEPT ![s] = next]
          /\ stream' = Over([k \in {PageId(i, n) : n \in chunks} |-> NewStream], stream)
          /\ read' = With(PageId(i, 0), [seen |-> p, said |-> << >>], read)
    BY <1>1 DEF FirstPage
  <1>4. PICK next : next = Judged(exec[s], p)
    OBVIOUS
  <1>5. PICK new : new = {PageId(i, n) : n \in IF next.pc = "gathering" THEN Chunks(p.more) ELSE {}}
    OBVIOUS
  <1>6. /\ exec' = [exec EXCEPT ![s] = next]
        /\ stream' = Over([k \in new |-> NewStream], stream)
        /\ read' = With(id, [seen |-> p, said |-> << >>], read)
        /\ exec[s] # Idle /\ exec[s].pc = "fetching" /\ root' = root /\ item' = item
    BY <1>2, <1>3, <1>4, <1>5 DEF FirstPage
  <1>7. /\ root \in Roots /\ i \in DOMAIN item /\ broken \in Nat
        /\ exec \in [Slot -> {Idle} \cup ExecType(DOMAIN item)]
    BY <1>1, <1>6, ExecFacts DEF PagesInv, ItemInv, ExecInv
  <1>8. /\ next.item = i
        /\ next.pc = "usable" => p.more = 0 /\ next.rows = Products(i, p)
    BY <1>1, <1>3, <1>4, <1>7, JudgedFacts
  <1>9. p \in PageType /\ p.rows \in Seq(Nat) /\ p.more \in Nat
    <2>1. p \in PageType
      BY <1>3, <1>7, RootFacts, PageFacts
    <2> QED
      BY <2>1 DEF PageType
  <1>10. \A n : PageId(i, n) \notin DOMAIN read
    <2> SUFFICES ASSUME NEW n, PageId(i, n) \in DOMAIN read PROVE FALSE
      OBVIOUS
    <2>1. NotNow(PageId(i, n), item, exec)
      BY DEF PagesInv, ReadInv, ReadAt
    <2>2. PageId(i, n)[1] = i /\ PageId(i, n)[2] = item[i].attempts
      BY IdFacts
    <2>3. item[i].attempts < item[i].attempts
      BY <1>1, <1>6, <2>1, <2>2 DEF NotNow
    <2>4. item[i].attempts \in Nat
      BY <1>7, ItemFacts DEF PagesInv
    <2> QED
      BY <2>3, <2>4
  <1>11. /\ DOMAIN read' = DOMAIN read \cup {id}
         /\ read'[id] = [seen |-> p, said |-> << >>]
         /\ \A x \in DOMAIN read : x # id => read'[x] = read[x]
    BY <1>6 DEF With, Over
  <1>12. ReadGrows
    BY <1>2, <1>10, <1>11 DEF ReadGrows
  <1>13. /\ DOMAIN stream' = new \cup DOMAIN stream
         /\ \A k \in new : stream'[k] = NewStream
         /\ \A k \in DOMAIN stream \ new : stream'[k] = stream[k]
    BY <1>6 DEF Over
  <1>14. \A k \in new : k \notin DOMAIN read /\ k # id
    <2> SUFFICES ASSUME NEW k \in new PROVE k \notin DOMAIN read /\ k # id
      OBVIOUS
    <2>1. PICK n \in Chunks(p.more) : k = PageId(i, n)
      BY <1>5
    <2>2. n # 0
      <3>1. PICK m \in Nat : Chunks(p.more) = 1 .. m
        BY <1>9, ChunksFacts
      <3> QED
        BY <2>1, <3>1
    <2>3. k # id
      BY <1>2, <2>1, <2>2, IdFacts
    <2> QED
      BY <1>10, <2>1, <2>3
  <1>15. ASSUME NEW k \in DOMAIN stream' PROVE ChunkRows(k)'
    <2>1. CASE k \in new
      <3>1. stream'[k].pc = "waiting" /\ k \notin DOMAIN read'
        BY <1>11, <1>13, <1>14, <2>1 DEF NewStream
      <3> QED
        BY <3>1 DEF ChunkRows
    <2>2. CASE k \notin new
      <3>1. k \in DOMAIN stream /\ stream'[k] = stream[k] /\ ChunkRows(k)
        BY <1>13, <1>15, <2>2 DEF RankInv
      <3>2. k # id
        BY <1>2, <3>1, ChunkFacts, IdFacts
      <3> QED
        BY <1>11, <3>1, <3>2 DEF ChunkRows
    <2> QED
      BY <2>1, <2>2
  <1>16. ASSUME next.pc = "usable", KindOf(i) = "rank_list"
         PROVE  Whole(next.rows, item'[<< >>].attempts, read')
    <2>1. i = << >> /\ next.rows = Unique(p.rows) /\ p.more = 0
      BY <1>8, <1>9, <1>16, RankIsRoot, ProductsSound
    <2> DEFINE a == item[<< >>].attempts  seqs == <<p.rows>>  shown == [c \in {0} |-> p.rows]
    <2>2. RankPage(a, 0) = id /\ read'[id].seen = p
      BY <1>2, <1>11, <2>1 DEF RankPage, PageId
    <2>3. Chunks(0) = {}
      <3>1. PICK n \in Nat : Chunks(0) = 1 .. n /\ n = (0 + ChunkSize - 1) \div ChunkSize
        BY ChunksFacts
      <3>2. \A m \in Nat \ {0} : (0 + m - 1) \div m = 0
        OBVIOUS
      <3>3. n = 0
        BY <3>1, <3>2, PageConstants
      <3> QED
        BY <3>1, <3>3
    <2>4. FlattenSeq(seqs) = p.rows
      <3>1. seqs \in Seq(Seq(Nat)) /\ Len(seqs) = 1 /\ seqs[1] = p.rows
        BY <1>9
      <3> HIDE DEF seqs
      <3>a. Len(seqs) # 0
        BY <3>1
      <3>2. PICK g \in [1 .. Len(seqs) -> Seq(Nat)] :
              /\ FlattenSeq(seqs) = g[Len(seqs)]
              /\ g[1] = seqs[1]
              /\ \A c \in 2 .. Len(seqs) : g[c] = g[c - 1] \o seqs[c]
        BY <3>1, <3>a, FlattenUnfolds
      <3> QED
        BY <3>1, <3>2
    <2>5. InListOrder(next.rows, shown)
      <3>1. seqs \in Seq(Seq(Nat)) /\ Len(seqs) = 1 /\ seqs[1] = p.rows
        BY <1>9
      <3>2. DOMAIN shown = 0 .. Len(seqs) - 1 /\ \A c \in DOMAIN shown : shown[c] = seqs[c + 1]
        <4>1. 0 .. 1 - 1 = {0} /\ 0 + 1 = 1
          OBVIOUS
        <4> HIDE DEF seqs
        <4> QED
          BY <3>1, <4>1
      <3>4. Len(seqs) # 0
        BY <3>1
      <3> HIDE DEF seqs, shown
      <3>3. InListOrder(Unique(FlattenSeq(seqs)), shown)
        BY <3>1, <3>2, <3>4, MergedSound
      <3> QED
        BY <2>1, <2>4, <3>3
    <2>6. [c \in {0} \cup Chunks(0) |-> read'[RankPage(a, c)].seen.rows] = shown
      BY <2>2, <2>3
    <2>7. RankPage(a, 0) \in DOMAIN read' /\ read'[RankPage(a, 0)].seen.more = 0
      BY <1>11, <2>1, <2>2
    <2> HIDE DEF shown
    <2>8. Whole(next.rows, a, read')
      BY <2>3, <2>5, <2>6, <2>7 DEF Whole
    <2> QED
      BY <1>6, <2>8
  <1>17. ASSUME NEW t \in Slot, exec'[t] # Idle, exec'[t].pc = "usable", KindOf(exec'[t].item) = "rank_list"
         PROVE  exec'[t] = exec[t] \/ Whole(exec'[t].rows, item'[<< >>].attempts, read')
    <2>1. t # s => exec'[t] = exec[t]
      BY <1>6, <1>7
    <2>2. exec'[s] = next
      BY <1>6, <1>7
    <2> QED
      BY <1>8, <1>16, <1>17, <2>1, <2>2
  <1> QED
    BY <1>6, <1>12, <1>15, <1>17, GrowsStays, RankStays

LEMMA RankGathered ==
  ASSUME PagesInv, RankInv, NEW s \in Slot, Gathered(s)
  PROVE  RankInv'
  <1>1. PICK i : i = exec[s].item
    OBVIOUS
  <1>2. PICK id : id = PageId(i, 0)
    OBVIOUS
  <1>3. /\ exec[s] # Idle /\ exec[s].pc = "gathering" /\ \A k \in Own(s) : stream[k].pc = "done"
        /\ exec' = [exec EXCEPT ![s] =
             IF StreamFailures(s) # {} THEN [exec[s] EXCEPT !.pc = "partial", !.code = FirstFailure(s)]
             ELSE [exec[s] EXCEPT !.pc = "usable", !.rows = Merged(s)]]
        /\ stream' = [k \in DOMAIN stream \ Own(s) |-> stream[k]]
        /\ root' = root /\ item' = item /\ read' = read
    BY DEF Gathered, Failures
  <1>4. /\ id \in DOMAIN read /\ exec[s].more = read[id].seen.more /\ exec[s].more \in Nat
        /\ KindOf(i) = "rank_list" /\ exec[s].rows = read[id].seen.rows
        /\ exec[s] \in ExecType(DOMAIN item)
        /\ exec \in [Slot -> {Idle} \cup ExecType(DOMAIN item)]
        /\ Own(s) \subseteq DOMAIN stream /\ OwnAt(s)
    BY <1>1, <1>2, <1>3, GatheringFacts
  <1>5. ReadGrows /\ \A k \in DOMAIN stream' : ChunkRows(k)'
    BY <1>3 DEF ReadGrows, RankInv, ChunkRows
  <1>6. i = << >>
    BY <1>4, RankIsRoot
  <1>7. ASSUME StreamFailures(s) = {}
        PROVE  exec'[s].pc = "usable" => Whole(exec'[s].rows, item[<< >>].attempts, read)
    <2> DEFINE a == item[<< >>].attempts  more == exec[s].more
               taken == [c \in {0} \cup Chunks(more) |->
                          IF c = 0 THEN exec[s].rows ELSE stream[PageId(exec[s].item, c)].rows]
               shown == [c \in {0} \cup Chunks(more) |-> read[RankPage(a, c)].seen.rows]
    <2>1. InListOrder(Merged(s), taken)
      BY <1>3, MergedFacts
    <2>2. \A n : PageId(exec[s].item, n) = RankPage(a, n)
      BY <1>1, <1>6 DEF PageId, RankPage
    <2>3. RankPage(a, 0) = id
      BY <1>1, <1>2, <2>2
    <2>4. ASSUME NEW c \in Chunks(more)
          PROVE  /\ c # 0 /\ RankPage(a, c) \in DOMAIN read
                 /\ read[RankPage(a, c)].seen.rows # << >>
                 /\ read[RankPage(a, c)].seen.rows = stream[PageId(exec[s].item, c)].rows
      <3> DEFINE k == PageId(exec[s].item, c)
      <3>1. c # 0
        <4>1. PICK m \in Nat : Chunks(more) = 1 .. m
          BY <1>4, ChunksFacts
        <4> QED
          BY <2>4, <4>1
      <3>2. k \in Own(s) /\ k \in DOMAIN stream
        BY <1>4 DEF OwnAt
      <3>3. stream[k].pc = "done" /\ stream[k].code = NoCode
        BY <1>3, <1>7, <3>2 DEF StreamFailures
      <3>4. ChunkRight(k, stream[k], read, broken) /\ ChunkRows(k)
        BY <3>2, ChunkFacts DEF RankInv
      <3>5. stream[k].rows # << >>
        BY <3>3, <3>4 DEF ChunkRight
      <3>6. k \in DOMAIN read /\ read[k].seen.rows = stream[k].rows
        BY <3>3, <3>4 DEF ChunkRows
      <3> QED
        BY <2>2, <3>1, <3>5, <3>6
    <2>5. taken = shown
      <3>1. \A c \in {0} \cup Chunks(more) : taken[c] = shown[c]
        BY <1>4, <2>3, <2>4
      <3> QED
        BY <3>1
    <2>6. exec'[s].pc = "usable" => exec'[s].rows = Merged(s)
      <3>1. exec'[s] = [exec[s] EXCEPT !.pc = "usable", !.rows = Merged(s)]
        BY <1>3, <1>4, <1>7
      <3>2. "rows" \in DOMAIN exec[s]
        BY <1>4 DEF ExecType
      <3> QED
        BY <3>1, <3>2
    <2> HIDE DEF taken
    <2>7. InListOrder(Merged(s), shown)
      BY <2>1, <2>5
    <2>8. read[RankPage(a, 0)].seen.more = more /\ RankPage(a, 0) \in DOMAIN read
      BY <1>4, <2>3
    <2> HIDE DEF more, a
    <2>9. Whole(Merged(s), a, read)
      BY <2>4, <2>7, <2>8 DEF Whole
    <2> QED
      BY <2>6, <2>9 DEF a
  <1>8. ASSUME StreamFailures(s) # {}
        PROVE  exec'[s].pc # "usable"
    <2>1. exec'[s] = [exec[s] EXCEPT !.pc = "partial", !.code = FirstFailure(s)]
      BY <1>3, <1>4, <1>8
    <2>2. "pc" \in DOMAIN exec[s]
      BY <1>4 DEF ExecType
    <2> QED
      BY <2>1, <2>2
  <1>9. \A t \in Slot : t # s => exec'[t] = exec[t]
    BY <1>3, <1>4
  <1> QED
    BY <1>3, <1>5, <1>7, <1>8, <1>9, GrowsStays, RankStays

LEMMA RankGatherRaises ==
  ASSUME PagesInv, RankInv, NEW s \in Slot, GatherRaises(s)
  PROVE  RankInv'
  <1>1. /\ exec[s] # Idle /\ exec' = [exec EXCEPT ![s].pc = "error", ![s].code = "parse_error"]
        /\ stream' = [k \in {l \in DOMAIN stream : l \notin Own(s) \/ stream[l].pc \notin {"done", "raised"}}
                        |-> stream[k]]
        /\ root' = root /\ item' = item /\ read' = read
    BY DEF GatherRaises
  <1>2. exec'[s].pc = "error" /\ \A t \in Slot \ {s} : exec'[t] = exec[t]
    <2>1. "parse_error" \in Code
      BY DEF Code, Retryable
    <2> QED
      BY <1>1, <2>1, PcFacts DEF PagesInv
  <1>3. ReadGrows /\ \A k \in DOMAIN stream' : ChunkRows(k)'
    BY <1>1 DEF ReadGrows, RankInv, ChunkRows
  <1> QED
    BY <1>1, <1>2, <1>3, GrowsStays, RankStays

\* A step of a chunk
LEMMA RankChunk ==
  ASSUME RankInv, root' = root, item' = item, exec' = exec, ReadGrows,
         \A k \in DOMAIN stream' : ChunkRows(k)'
  PROVE  RankInv'
  BY GrowsStays, RankStays

LEMMA RankLoadChunk ==
  ASSUME PagesInv, RankInv, NEW k \in DOMAIN stream, LoadChunk(k)
  PROVE  RankInv'
  <1>1. /\ root' = root /\ item' = item /\ exec' = exec
    BY DEF LoadChunk, EnterStream, StreamFails, StreamPage, StreamReport
  <1>2. /\ stream[k] \in ChunkType /\ StreamInv
        /\ read \in [DOMAIN read -> ReadType] /\ stream \in [DOMAIN stream -> ChunkType]
        /\ ChunkRows(k) /\ \A l \in DOMAIN stream : ChunkRows(l)
    BY ChunkFacts DEF RankInv
  <1>3. CASE EnterStream(k)
    <2>1. /\ stream[k].pc = "waiting" /\ stream' = [stream EXCEPT ![k].pc = "fetching"] /\ read' = read
      BY <1>3 DEF EnterStream
    <2>2. /\ stream'[k].pc = "fetching" /\ DOMAIN stream' = DOMAIN stream
          /\ \A l \in DOMAIN stream : l # k => stream'[l] = stream[l]
      BY <1>2, <2>1 DEF ChunkType
    <2>3. ReadGrows /\ \A l \in DOMAIN stream' : ChunkRows(l)'
      BY <1>2, <2>1, <2>2 DEF ReadGrows, ChunkRows
    <2> QED
      BY <1>1, <2>3, RankChunk
  <1>4. CASE StreamFails(k)
    <2>1. PICK code \in {"fetch_failed", "fetch_refused"} :
            Ended(k, [pc |-> "done", code |-> code, rows |-> << >>]) /\ read' = read
      BY <1>4 DEF StreamFails
    <2>2. PICK c : c = [pc |-> "done", code |-> code, rows |-> << >>]
      OBVIOUS
    <2>3. c \in ChunkType /\ c.pc = "done" /\ c.code # NoCode
      <3>1. code \in StreamCode /\ code # NoCode
        BY CodesApart DEF StreamCode
      <3> QED
        BY <2>2, <3>1 DEF ChunkType
    <2>4. /\ DOMAIN stream' \subseteq DOMAIN stream
          /\ \A l \in DOMAIN stream : l # k => stream'[l] = stream[l]
          /\ k \in DOMAIN stream' => stream'[k] = c
      BY <1>2, <2>1, <2>2, <2>3, EndedFacts
    <2>5. ReadGrows /\ \A l \in DOMAIN stream' : ChunkRows(l)'
      BY <1>2, <2>1, <2>3, <2>4 DEF ReadGrows, ChunkRows
    <2> QED
      BY <1>1, <2>5, RankChunk
  <1>5. CASE StreamPage(k)
    <2>1. PICK parsed \in BOOLEAN, rows \in {<< >>} \cup RankRows : \E code :
            /\ stream' = [stream EXCEPT ![k] = [pc |-> "reporting", rows |-> rows, code |-> code]]
            /\ read' = With(k, [seen |-> [signs |-> {}, shape |-> "whole", parsed |-> parsed,
                                         rows |-> rows, more |-> 0], said |-> << >>], read)
      BY <1>5 DEF StreamPage
    <2>2. k \notin DOMAIN read
      BY <1>2, <1>5 DEF StreamPage, ChunkRows
    <2>3. /\ DOMAIN read' = DOMAIN read \cup {k} /\ read'[k].seen.rows = rows
          /\ \A x \in DOMAIN read : x # k => read'[x] = read[x]
      BY <2>1 DEF With, Over
    <2>4. /\ stream'[k].pc = "reporting" /\ stream'[k].rows = rows /\ DOMAIN stream' = DOMAIN stream
          /\ \A l \in DOMAIN stream : l # k => stream'[l] = stream[l]
      BY <1>2, <2>1
    <2>5. ReadGrows
      BY <2>2, <2>3 DEF ReadGrows
    <2>6. \A l \in DOMAIN stream' : ChunkRows(l)'
      BY <1>2, <2>3, <2>4 DEF ChunkRows
    <2> QED
      BY <1>1, <2>5, <2>6, RankChunk
  <1>6. CASE StreamReport(k)
    <2>1. PICK v : stream[k].pc = "reporting" /\ read' = [read EXCEPT ![k].said = Append(@, v)]
      BY <1>6 DEF StreamReport
    <2>2. PICK pc \in {"done", "raised"} : Ended(k, [stream[k] EXCEPT !.pc = pc])
      BY <1>6 DEF StreamReport
    <2>3. PICK c : c = [stream[k] EXCEPT !.pc = pc]
      OBVIOUS
    <2>4. c = [pc |-> pc, code |-> stream[k].code, rows |-> stream[k].rows] /\ c \in ChunkType
      BY <1>2, <2>3 DEF ChunkType
    <2>5. c.pc = pc /\ c.code = stream[k].code /\ c.rows = stream[k].rows
      BY <2>4
    <2>6. /\ DOMAIN stream' \subseteq DOMAIN stream
          /\ \A l \in DOMAIN stream : l # k => stream'[l] = stream[l]
          /\ k \in DOMAIN stream' => stream'[k] = c
      BY <1>2, <2>2, <2>3, <2>4, EndedFacts
    <2>7. /\ DOMAIN read' = DOMAIN read
          /\ \A x \in DOMAIN read : read'[x].seen = read[x].seen
      <3>1. \A x \in DOMAIN read : x # k => read'[x] = read[x]
        BY <1>2, <2>1
      <3>2. k \in DOMAIN read => read'[k].seen = read[k].seen
        BY <1>2, <2>1 DEF ReadType
      <3> QED
        BY <1>2, <2>1, <3>1, <3>2
    <2>8. ReadGrows
      BY <2>7 DEF ReadGrows
    <2>9. \A l \in DOMAIN stream' : ChunkRows(l)'
      BY <1>2, <2>1, <2>5, <2>6, <2>7 DEF ChunkRows
    <2> QED
      BY <1>1, <2>8, <2>9, RankChunk
  <1> QED
    BY <1>3, <1>4, <1>5, <1>6 DEF LoadChunk

LEMMA RankStep ==
  ASSUME PagesInv, RankInv, [ScopedNext]_treeVars
  PROVE  RankInv'
  <1>1. \A j : Claimable(j) \subseteq DOMAIN item
    BY DEF Claimable, ItemsOf
  <1>2. CASE UNCHANGED vars
    <2>1. /\ root' = root /\ item' = item /\ exec' = exec /\ read' = read /\ stream' = stream
      BY <1>2 DEF vars
    <2>2. ReadGrows /\ \A k \in DOMAIN stream' : ChunkRows(k)'
      BY <2>1 DEF ReadGrows, RankInv, ChunkRows
    <2> QED
      BY <2>1, <2>2, RankChunk
  <1>3. CASE Process
    BY <1>1, <1>3, RankClaim, RunnerIsASlot DEF Process
  <1>4. CASE \E s \in Slot : OtherClaims(s)
    BY <1>1, <1>4, RankClaim DEF OtherClaims
  <1>5. CASE \E s \in Slot : Work(s)
    BY <1>5, RankFetchFails, RankFirstPage, RankReport, RankGathered, RankGatherRaises DEF Work, Execute
  <1>6. CASE Continue
    BY <1>6, RankLoadChunk DEF Continue
  <1>7. Discover \/ Read \/ Decide \/ PassBy \/ Collect => UNCHANGED vars
    BY DEF Discover, Read, Decide, PassBy, Collect
  <1>8. \A j : Pause(j) \/ Resume(j) => UNCHANGED vars
    BY DEF Pause, Resume
  <1>9. UNCHANGED treeVars => UNCHANGED vars
    BY DEF treeVars
  <1> QED
    BY <1>2, <1>3, <1>4, <1>5, <1>6, <1>7, <1>8, <1>9 DEF ScopedNext, RunnerStep

LEMMA SoundRankRows ==
  ASSUME RankInv
  PROVE  RankRowsSound
  <1> SUFFICES ASSUME item[<< >>].status = "succeeded", root.kind = "rank_list"
               PROVE  LET more == read[PageId(<< >>, 0)].seen.more
                          shown == [c \in {0} \cup Chunks(more) |-> read[PageId(<< >>, c)].seen.rows] IN
                      /\ \A c \in Chunks(more) :
                           PageId(<< >>, c) \in DOMAIN read /\ read[PageId(<< >>, c)].seen.rows # << >>
                      /\ InListOrder(item[<< >>].rows, shown)
    BY DEF RankRowsSound
  <1>1. Whole(item[<< >>].rows, item[<< >>].attempts, read)
    BY DEF RankInv, RankWhole
  <1> QED
    BY <1>1 DEF Whole, RankPage, PageId
-----------------------------------------------------------------------------
(* The runner and the others *)

\* What other slots do to the items: an item that is over stays as it is, and new ones
\* follow from an item that has just succeeded.
ItemsGrow ==
  /\ DOMAIN item \subseteq DOMAIN item'
  /\ \A i \in DOMAIN item : item[i].status \in {"succeeded", "failed"} => item'[i] = item[i]
  /\ \A i \in DOMAIN item' \ DOMAIN item :
       /\ i \in Seq(Nat) /\ i # << >> /\ Front(i) \in DOMAIN item
       /\ item[Front(i)].status = "running" /\ item'[Front(i)].status = "succeeded"

LEMMA ExecuteEnds ==
  ASSUME PagesInv, NEW s \in Slot, Execute(s)
  PROVE  exec[s] # Idle /\ (item' = item \/ Ends(exec[s].item, item, item'))
  <1>1. exec[s] # Idle
    BY DEF Execute, FetchFails, FirstPage, Report, Gathered, GatherRaises
  <1>2. /\ exec[s].item \in DOMAIN item /\ item[exec[s].item].status = "running"
        /\ exec[s].code \in Code /\ exec[s].rows \in Seq(Nat)
    BY <1>1, ExecFacts DEF PagesInv
  <1>3. /\ \A code \in Code : Ends(exec[s].item, item, Failed(exec[s].item, code))
        /\ Ends(exec[s].item, item, Completed(exec[s].item, exec[s].rows))
    BY <1>2, FailedEnds, CompletedEnds DEF PagesInv
  <1>4. {"fetch_failed", "fetch_refused", "worker_internal_error"} \subseteq Code
    BY DEF Code, Retryable, Terminal
  <1>5. CASE FetchFails(s)
    BY <1>1, <1>3, <1>4, <1>5 DEF FetchFails, Return
  <1>6. CASE Report(s)
    <2>1. CASE EvidenceKept(s)
      BY <1>1, <1>2, <1>3, <2>1 DEF EvidenceKept, Return
    <2>2. CASE EvidenceRaises(s)
      BY <1>1, <1>3, <1>4, <2>2 DEF EvidenceRaises, Return
    <2> QED
      BY <1>6, <2>1, <2>2 DEF Report
  <1>7. CASE FirstPage(s) \/ Gathered(s) \/ GatherRaises(s)
    BY <1>1, <1>7 DEF FirstPage, Gathered, GatherRaises
  <1> QED
    BY <1>5, <1>6, <1>7 DEF Execute

LEMMA EndsGrow ==
  ASSUME PagesInv, NEW i \in DOMAIN item, item[i].status = "running", Ends(i, item, item')
  PROVE  ItemsGrow
  BY DEF Ends, ItemsGrow

LEMMA ClaimGrows ==
  ASSUME PagesInv, NEW s \in Slot, NEW i \in DOMAIN item, Claim(s, i)
  PROVE  ItemsGrow
  <1>1. item[i].status = "pending"
    BY DEF Claim
  <1> QED
    BY <1>1, ClaimEffect DEF ItemsGrow

\* A known job keeps its items, and once it is over its results.
LEMMA KnownStays ==
  ASSUME PagesInv, ItemsGrow, NEW j,
         j = RootJob \/ (j \in DOMAIN item /\ item[j].status = "succeeded")
  PROVE  /\ j = RootJob \/ (j \in DOMAIN item' /\ item'[j].status = "succeeded")
         /\ ItemsOf(j)' = ItemsOf(j)
         /\ Settled(j) => Settled(j)' /\ WonItems(j)' = WonItems(j) /\ JobStatus(j)' = JobStatus(j)
  <1>1. j = RootJob \/ (j \in DOMAIN item' /\ item'[j].status = "succeeded")
    BY DEF ItemsGrow
  <1>2. ASSUME NEW i \in DOMAIN item' \ DOMAIN item PROVE JobOf(i) # j
    <2>1. i # << >> /\ Front(i) \in DOMAIN item /\ item[Front(i)].status = "running"
      BY DEF ItemsGrow
    <2>2. Front(i) # RootJob
      BY <2>1, RootJobIsNoItem, ItemFacts DEF PagesInv
    <2> QED
      BY <2>1, <2>2 DEF JobOf
  <1>3. ItemsOf(j)' = ItemsOf(j)
    <2>1. DOMAIN item \subseteq DOMAIN item'
      BY DEF ItemsGrow
    <2>2. \A i \in DOMAIN item' : JobOf(i) = j => i \in DOMAIN item
      BY <1>2
    <2> QED
      BY <2>1, <2>2 DEF ItemsOf, JobOf
  <1>4. ASSUME Settled(j)
        PROVE  Settled(j)' /\ WonItems(j)' = WonItems(j) /\ JobStatus(j)' = JobStatus(j)
    <2>1. \A i \in ItemsOf(j) : item'[i] = item[i]
      BY <1>4 DEF Settled, ItemsOf, ItemsGrow
    <2>2. Settled(j)'
      BY <1>3, <1>4, <2>1 DEF Settled
    <2>3. WonItems(j)' = WonItems(j)
      BY <1>3, <2>1 DEF WonItems
    <2> QED
      BY <1>3, <1>4, <2>2, <2>3 DEF JobStatus
  <1> QED
    BY <1>1, <1>3, <1>4

\* A job that follows from a known one is new only when one of its items has just succeeded.
LEMMA ChildrenGrow ==
  ASSUME PagesInv, ItemsGrow, NEW j,
         j = RootJob \/ (j \in DOMAIN item /\ item[j].status = "succeeded"),
         NEW c \in ChildrenOf(j)', c \notin ChildrenOf(j)
  PROVE  c \in DOMAIN item /\ item[c].status = "running" /\ item'[c].status = "succeeded"
  <1>1. c \in ItemsOf(j) /\ c \in Jobs' /\ c \notin Jobs
    BY KnownStays DEF ChildrenOf
  <1>2. PICK i \in DOMAIN item' : c = JobOf(i)
    BY <1>1 DEF Jobs, JobOf
  <1>3. i \notin DOMAIN item
    BY <1>1, <1>2 DEF Jobs
  <1>4. i # << >> /\ Front(i) \in DOMAIN item /\ item[Front(i)].status = "running"
        /\ item'[Front(i)].status = "succeeded"
    BY <1>2, <1>3 DEF ItemsGrow
  <1> QED
    BY <1>2, <1>4 DEF JobOf

\* A step of somebody else
LEMMA OthersStep ==
  ASSUME PagesInv, RunnerInv, ItemsGrow, runner' = runner, others \subseteq others',
         exec'[Runner] # Idle => exec[Runner] # Idle,
         \A i \in DOMAIN item : item[i].status = "running" /\ item'[i].status = "succeeded" =>
           i \in others' \/ exec[Runner] # Idle
  PROVE  RunnerInv'
  <1>1. /\ runner \in RunnerType /\ Known' = Known
        /\ \A j \in Known : j = RootJob \/ (j \in DOMAIN item /\ item[j].status = "succeeded")
        /\ \A n \in 1 .. Len(runner.known) : runner.known[n] \in Known
    <2>1. runner \in RunnerType
      BY DEF RunnerInv, RunnerShape
    <2>2. runner.known \in Seq(JobSet)
      BY <2>1 DEF RunnerType
    <2> QED
      BY <2>1, <2>2 DEF RunnerInv, RunnerShape, Known, ToSet
  <1>2. RunnerShape'
    <2>1. \A j \in Known' : j = RootJob \/ (j \in DOMAIN item' /\ item'[j].status = "succeeded")
      BY <1>1, KnownStays
    <2> QED
      BY <1>1, <2>1 DEF RunnerInv, RunnerShape
  <1>3. ASSUME NEW j \in Known, NEW said, StatusTrue(j, said) PROVE StatusTrue(j, said)'
    BY <1>1, <1>3, KnownStays DEF StatusTrue
  <1>4. ASSUME exec[Runner] = Idle, NEW j \in Known, Explored(j) PROVE Explored(j)'
    <2> SUFFICES ASSUME NEW c \in ChildrenOf(j)' PROVE c \in Known \cup others'
      BY <1>1 DEF Explored
    <2>1. CASE c \in ChildrenOf(j)
      BY <1>4, <2>1 DEF Explored
    <2>2. CASE c \notin ChildrenOf(j)
      <3>1. c \in DOMAIN item /\ item[c].status = "running" /\ item'[c].status = "succeeded"
        BY <1>1, <2>2, ChildrenGrow
      <3> QED
        BY <1>4, <3>1
    <2> QED
      BY <2>1, <2>2
  <1>5. RunnerReads'
    <2>1. CASE runner.pc \in {"read", "decide", "reread", "collect", "done"}
      <3>1. exec[Runner] = Idle
        BY <2>1 DEF RunnerInv, RunnerShape
      <3>2. \A j \in Known' : Explored(j)'
        BY <1>1, <1>4, <2>1, <3>1 DEF RunnerInv, RunnerReads
      <3>3. ASSUME NEW n \in 1 .. Len(runner.status), NEW j \in {runner.known[n]}, NEW said \in {runner.status[n]}
            PROVE  StatusTrue(j, said)'
        <4>1. Len(runner.status) <= Len(runner.known) /\ Len(runner.status) \in Nat /\ Len(runner.known) \in Nat
          <5>1. Len(runner.status) \in Nat /\ Len(runner.known) \in Nat /\ runner.at \in Nat
            BY <1>1 DEF RunnerType
          <5> QED
            BY <2>1, <5>1 DEF RunnerInv, RunnerShape
        <4>2. j \in Known
          BY <1>1, <4>1
        <4>3. StatusTrue(j, said)
          BY <2>1 DEF RunnerInv, RunnerReads
        <4> QED
          BY <1>3, <4>2, <4>3
      <3> QED
        BY <2>1, <3>2, <3>3 DEF RunnerReads
    <2>2. CASE runner.pc = "discover"
      <3>1. exec[Runner] = Idle
        BY <2>2 DEF RunnerInv, RunnerShape
      <3>2. ASSUME NEW n \in 1 .. runner.at - 1, NEW j \in {runner.known[n]} PROVE Explored(j)'
        <4>1. n \in 1 .. Len(runner.known)
          BY <1>1 DEF RunnerInv, RunnerShape, RunnerType
        <4>2. j \in Known /\ Explored(j)
          BY <1>1, <2>2, <4>1 DEF RunnerInv, RunnerReads
        <4> QED
          BY <1>4, <3>1, <4>2
      <3> QED
        BY <2>2, <3>2 DEF RunnerReads
    <2>3. CASE runner.pc \notin {"read", "decide", "reread", "collect", "done", "discover"}
      BY <2>3 DEF RunnerReads
    <2> QED
      BY <2>1, <2>2, <2>3
  <1>6. RunnerEnds'
    <2> SUFFICES ASSUME runner.reason = "terminal" PROVE RunnerEnds'
      BY DEF RunnerEnds
    <2>1. /\ runner.pc \in {"reread", "collect", "done"} /\ \A j \in Known : Settled(j)
          /\ runner.pc = "collect" /\ ~runner.found =>
               \A n \in 1 .. runner.at - 1 : \A j \in {runner.known[n]} : WonItems(j) = {}
          /\ runner.pc = "done" /\ ~runner.found => \A j \in Known : WonItems(j) = {}
      BY DEF RunnerInv, RunnerEnds
    <2>2. \A j \in Known : Settled(j)' /\ WonItems(j)' = WonItems(j)
      BY <1>1, <2>1, KnownStays
    <2>3. ASSUME runner.pc = "collect", ~runner.found, NEW n \in 1 .. runner.at - 1, NEW j \in {runner.known[n]}
          PROVE  WonItems(j)' = {}
      <3>1. n \in 1 .. Len(runner.known)
        BY <1>1 DEF RunnerInv, RunnerShape, RunnerType
      <3>2. j \in Known
        BY <1>1, <3>1
      <3> QED
        BY <2>1, <2>2, <2>3, <3>2
    <2> QED
      BY <1>1, <2>1, <2>2, <2>3 DEF RunnerEnds
  <1> QED
    BY <1>2, <1>5, <1>6 DEF RunnerInv
-----------------------------------------------------------------------------
(* The steps of the runner *)

LEMMA RunnerFacts ==
  ASSUME RunnerShape
  PROVE  /\ runner \in RunnerType /\ runner.known \in Seq(JobSet) /\ Len(runner.known) \in Nat
         /\ runner.at \in Nat /\ 1 <= runner.at /\ runner.at <= Len(runner.known)
         /\ Len(runner.status) \in Nat /\ Current \in Known
         /\ \A n \in 1 .. Len(runner.known) : runner.known[n] \in Known
         /\ \A j \in Known : \E n \in 1 .. Len(runner.known) : j = runner.known[n]
         /\ runner = [pc |-> runner.pc, known |-> runner.known, at |-> runner.at,
                      found |-> runner.found, status |-> runner.status, reason |-> runner.reason]
  <1>1. runner \in RunnerType /\ runner.at \in 1 .. Len(runner.known)
    BY DEF RunnerShape
  <1>2. runner.known \in Seq(JobSet) /\ Len(runner.status) \in Nat
    BY <1>1 DEF RunnerType
  <1>3. runner = [pc |-> runner.pc, known |-> runner.known, at |-> runner.at,
                  found |-> runner.found, status |-> runner.status, reason |-> runner.reason]
    BY <1>1 DEF RunnerType
  <1>4. Len(runner.known) \in Nat /\ DOMAIN runner.known = 1 .. Len(runner.known)
    BY <1>2
  <1>5. /\ \A n \in 1 .. Len(runner.known) : runner.known[n] \in Known
        /\ \A j \in Known : \E n \in 1 .. Len(runner.known) : j = runner.known[n]
    BY <1>4 DEF Known, ToSet
  <1>6. Current \in Known
    BY <1>1, <1>5 DEF Current
  <1>7. runner.at \in Nat /\ 1 <= runner.at /\ runner.at <= Len(runner.known)
    BY <1>1, <1>4
  <1> QED
    BY <1>1, <1>2, <1>3, <1>4, <1>5, <1>6, <1>7

LEMMA LaterIs ==
  ASSUME RunnerShape, NEW pc
  PROVE  Later(pc) =
           [pc |-> IF runner.at < Len(runner.known) THEN runner.pc ELSE pc,
            known |-> runner.known,
            at |-> IF runner.at < Len(runner.known) THEN runner.at + 1 ELSE 1,
            found |-> runner.found, status |-> runner.status, reason |-> runner.reason]
  BY RunnerFacts DEF Later, RunnerType

\* The elements of a finite set, each once, in some order
LEMMA SetToSeqSound ==
  ASSUME NEW S, IsFiniteSet(S)
  PROVE  SetToSeq(S) \in Seq(S) /\ ToSet(SetToSeq(S)) = S
  <1> DEFINE n == Cardinality(S)  f == SetToSeq(S)
  <1>1. n \in Nat /\ ExistsBijection(1 .. n, S)
    BY FS_CardinalityType
  <1>2. PICK g : g \in Bijection(1 .. n, S)
    BY <1>1 DEF ExistsBijection
  <1>3. g \in [1 .. n -> S] /\ IsInjective(g)
    BY <1>2 DEF Bijection, Injection, IsInjective
  <1>4. f \in [1 .. n -> S] /\ IsInjective(f)
    BY <1>3 DEF SetToSeq
  <1>5. f \in Injection(1 .. n, S)
    BY <1>4 DEF Injection, IsInjective
  <1>6. Cardinality(1 .. n) = n
    BY <1>1, FS_Interval
  <1>7. f \in Surjection(1 .. n, S)
    BY <1>5, <1>6, FS_Injection
  <1>8. f \in Seq(S)
    BY <1>1, <1>4
  <1>9. \A x \in S : \E k \in 1 .. n : f[k] = x
    BY <1>7 DEF Surjection
  <1> QED
    BY <1>4, <1>8, <1>9 DEF ToSet

LEMMA ChildFacts ==
  ASSUME PagesInv, NEW j, NEW c \in ChildrenOf(j)
  PROVE  c \in DOMAIN item /\ c \in Seq(Nat) /\ item[c].status = "succeeded"
  <1>1. c \in DOMAIN item /\ c \in Jobs
    BY DEF ChildrenOf, ItemsOf
  <1>2. c \in Seq(Nat) /\ c # RootJob
    BY <1>1, RootJobIsNoItem, ItemFacts DEF PagesInv
  <1>3. PICK i \in DOMAIN item : c = JobOf(i)
    BY <1>1 DEF Jobs
  <1>4. i # << >> /\ c = Front(i)
    BY <1>2, <1>3 DEF JobOf
  <1> QED
    BY <1>1, <1>2, <1>4 DEF PagesInv, ItemInv

\* Nothing happens to the items.
LEMMA StillTree ==
  ASSUME item' = item
  PROVE  /\ ItemsGrow
         /\ \A j : ChildrenOf(j)' = ChildrenOf(j) /\ ItemsOf(j)' = ItemsOf(j) /\ WonItems(j)' = WonItems(j)
         /\ \A j : Settled(j)' <=> Settled(j)
         /\ \A j, said : StatusTrue(j, said)' <=> StatusTrue(j, said)
  <1>1. ItemsGrow
    BY DEF ItemsGrow
  <1>2. \A j : ItemsOf(j)' = ItemsOf(j)
    BY DEF ItemsOf, JobOf
  <1>3. Jobs' = Jobs
    BY DEF Jobs, JobOf
  <1>4. \A j : ChildrenOf(j)' = ChildrenOf(j)
    BY <1>2, <1>3 DEF ChildrenOf
  <1>5. \A j : (Settled(j)' <=> Settled(j)) /\ WonItems(j)' = WonItems(j)
    BY <1>2 DEF Settled, WonItems
  <1>6. \A j : Settled(j) => JobStatus(j)' = JobStatus(j)
    BY <1>2, <1>5 DEF JobStatus
  <1>7. \A j, said : StatusTrue(j, said)' <=> StatusTrue(j, said)
    BY <1>5, <1>6 DEF StatusTrue
  <1> QED
    BY <1>1, <1>2, <1>4, <1>5, <1>7

LEMMA ReadingIsTrue ==
  ASSUME NEW j
  PROVE  /\ StatusTrue(j, JobStatus(j))
         /\ JobStatus(j) \in {"succeeded", "partial", "failed", "paused", "running"}
  BY DEF StatusTrue, JobStatus, TerminalStates

LEMMA DiscoverStep ==
  ASSUME PagesInv, RunnerInv, Discover
  PROVE  RunnerInv'
  <1> DEFINE S == ChildrenOf(Current) \ Known
             f == SetToSeq(S)
             known == runner.known \o f
             last == ~(runner.at < Len(known))
  <1>1. /\ runner.pc = "discover" /\ item' = item /\ exec' = exec /\ others' = others \ ItemsOf(Current)
        /\ runner' = IF runner.at < Len(known)
                     THEN [runner EXCEPT !.known = known, !.at = @ + 1]
                     ELSE [runner EXCEPT !.known = known, !.at = 1, !.pc = "read", !.status = << >>]
    BY DEF Discover, vars
  <1>2. RunnerShape
    BY DEF RunnerInv
  <1>3. IsFiniteSet(S) /\ S \subseteq DOMAIN item /\ S \subseteq Seq(Nat)
    <2>1. S \subseteq DOMAIN item
      BY ChildFacts
    <2>2. IsFiniteSet(DOMAIN item) /\ DOMAIN item \subseteq Seq(Nat)
      BY DEF PagesInv, ItemInv
    <2>3. IsFiniteSet(S)
      BY <2>1, <2>2, FS_Subset
    <2> QED
      BY <2>1, <2>2, <2>3
  <1>4. f \in Seq(S) /\ ToSet(f) = S
    BY <1>3, SetToSeqSound
  <1>5. f \in Seq(JobSet)
    <2>1. S \subseteq JobSet
      BY <1>3 DEF JobSet
    <2> HIDE DEF S, f
    <2> QED
      BY <1>4, <2>1
  <1>6. /\ known \in Seq(JobSet) /\ Len(known) \in Nat /\ Len(runner.known) <= Len(known)
        /\ \A n \in 1 .. Len(runner.known) : known[n] = runner.known[n]
        /\ ToSet(known) = Known \cup S
    <2>1. runner.known \in Seq(JobSet)
      BY <1>2, RunnerFacts
    <2> DEFINE k == runner.known
    <2>2. Known = ToSet(k)
      BY DEF Known
    <2> HIDE DEF S, f, k
    <2>3. k \o f \in Seq(JobSet) /\ Len(k \o f) = Len(k) + Len(f) /\ Len(k) \in Nat /\ Len(f) \in Nat
          /\ DOMAIN k = 1 .. Len(k) /\ DOMAIN f = 1 .. Len(f) /\ DOMAIN (k \o f) = 1 .. Len(k) + Len(f)
      BY <1>5, <2>1 DEF k
    <2>4. /\ \A n \in 1 .. Len(k) : (k \o f)[n] = k[n]
          /\ \A n \in 1 .. Len(f) : (k \o f)[Len(k) + n] = f[n]
      BY <1>5, <2>1 DEF k
    <2>5. ToSet(k \o f) \subseteq ToSet(k) \cup ToSet(f)
      <3> SUFFICES ASSUME NEW n \in 1 .. Len(k) + Len(f) PROVE (k \o f)[n] \in ToSet(k) \cup ToSet(f)
        BY <2>3 DEF ToSet
      <3>1. CASE n <= Len(k)
        BY <2>3, <2>4, <3>1 DEF ToSet
      <3>2. CASE n > Len(k)
        <4>1. n - Len(k) \in 1 .. Len(f) /\ Len(k) + (n - Len(k)) = n
          BY <2>3, <3>2
        <4> QED
          BY <2>3, <2>4, <4>1 DEF ToSet
      <3> QED
        BY <2>3, <3>1, <3>2
    <2>6. ToSet(k) \subseteq ToSet(k \o f)
      BY <2>3, <2>4 DEF ToSet
    <2>7. ToSet(f) \subseteq ToSet(k \o f)
      <3> SUFFICES ASSUME NEW n \in 1 .. Len(f) PROVE f[n] \in ToSet(k \o f)
        BY <2>3 DEF ToSet
      <3>1. Len(k) + n \in 1 .. Len(k) + Len(f)
        BY <2>3
      <3> QED
        BY <2>3, <2>4, <3>1 DEF ToSet
    <2> QED
      BY <1>4, <2>2, <2>3, <2>4, <2>5, <2>6, <2>7 DEF k
  <1> HIDE DEF known, f
  <1>7. runner' = [pc |-> IF last THEN "read" ELSE "discover", known |-> known,
                   at |-> IF last THEN 1 ELSE runner.at + 1, found |-> runner.found,
                   status |-> IF last THEN << >> ELSE runner.status, reason |-> runner.reason]
    BY <1>1, <1>2, RunnerFacts DEF RunnerType
  <1>8. runner' \in RunnerType /\ Known' = Known \cup S
    <2>1. runner \in RunnerType
      BY <1>2, RunnerFacts
    <2>2. Known' = ToSet(known)
      BY <1>7 DEF Known
    <2> QED
      BY <1>6, <1>7, <2>1, <2>2 DEF RunnerType
  <1>9. PICK c : c = Current
    OBVIOUS
  <1>10. Explored(c)'
    BY <1>1, <1>8, <1>9, StillTree DEF Explored
  <1>11. ASSUME NEW j, Explored(j) PROVE Explored(j)'
    <2>1. CASE j = c
      BY <1>10, <2>1
    <2>2. CASE j # c
      <3>1. \A x \in ChildrenOf(j) : x \notin ItemsOf(c)
        BY <2>2 DEF ChildrenOf, ItemsOf
      <3> QED
        BY <1>1, <1>8, <1>9, <1>11, <3>1, StillTree DEF Explored
    <2> QED
      BY <2>1, <2>2
  <1>12. \A j \in Known' : j = RootJob \/ (j \in DOMAIN item' /\ item'[j].status = "succeeded")
    <2>1. \A j \in Known : j = RootJob \/ (j \in DOMAIN item /\ item[j].status = "succeeded")
      BY <1>2 DEF RunnerShape
    <2>2. \A j \in S : j \in DOMAIN item /\ item[j].status = "succeeded"
      BY ChildFacts
    <2> QED
      BY <1>1, <1>8, <2>1, <2>2
  <1>13. runner'.at \in 1 .. Len(runner'.known)
    BY <1>2, <1>6, <1>7, RunnerFacts
  <1>14. RunnerShape'
    <2>1. RootJob \in Known' /\ exec'[Runner] = Idle
      BY <1>1, <1>2, <1>8 DEF RunnerShape
    <2> QED
      BY <1>7, <1>8, <1>12, <1>13, <2>1 DEF RunnerShape
  <1>15. ASSUME NEW n \in 1 .. runner.at, NEW j \in {known[n]} PROVE Explored(j)'
    <2>1. n \in 1 .. Len(runner.known) /\ j = runner.known[n]
      BY <1>2, <1>6, RunnerFacts
    <2>2. CASE n = runner.at
      BY <1>9, <1>10, <2>1, <2>2 DEF Current
    <2>3. CASE n # runner.at
      <3>1. n \in 1 .. runner.at - 1
        BY <1>2, <2>3, RunnerFacts
      <3>2. Explored(j)
        BY <1>1, <2>1, <3>1 DEF RunnerInv, RunnerReads
      <3> QED
        BY <1>11, <3>2
    <2> QED
      BY <2>2, <2>3
  <1>16. runner.reason # "terminal"
    BY <1>1 DEF RunnerInv, RunnerEnds
  <1>17. CASE last
    <2>1. /\ runner'.pc = "read" /\ runner'.status = << >> /\ runner'.reason # "terminal"
          /\ runner'.known = known
      BY <1>7, <1>16, <1>17
    <2>2. Known' = ToSet(known) /\ DOMAIN known = 1 .. runner.at
      BY <1>2, <1>6, <1>17, <2>1, RunnerFacts DEF Known
    <2>3. \A j \in Known' : Explored(j)'
      BY <1>15, <2>2 DEF ToSet
    <2>4. RunnerReads'
      BY <2>1, <2>3 DEF RunnerReads
    <2> QED
      BY <1>14, <2>1, <2>4 DEF RunnerInv, RunnerEnds
  <1>18. CASE ~last
    <2>1. /\ runner'.pc = "discover" /\ runner'.known = known /\ runner'.reason # "terminal"
          /\ runner'.at - 1 = runner.at
      BY <1>2, <1>7, <1>16, <1>18, RunnerFacts
    <2>2. \A n \in 1 .. runner'.at - 1 : \A j \in {runner'.known[n]} : Explored(j)'
      BY <1>15, <2>1
    <2>3. RunnerReads'
      BY <2>1, <2>2 DEF RunnerReads
    <2> QED
      BY <1>14, <2>1, <2>3 DEF RunnerInv, RunnerEnds
  <1> QED
    BY <1>17, <1>18

LEMMA ReadStep ==
  ASSUME PagesInv, RunnerInv, Read
  PROVE  RunnerInv'
  <1> DEFINE last == ~(runner.at < Len(runner.known))
             pc == IF ~last THEN runner.pc ELSE IF runner.pc = "read" THEN "decide" ELSE "collect"
  <1>1. /\ runner.pc \in {"read", "reread"} /\ item' = item /\ exec' = exec /\ others' = others
        /\ runner' = [Later(IF runner.pc = "read" THEN "decide" ELSE "collect")
                        EXCEPT !.status = Append(@, JobStatus(Current))]
    BY DEF Read, vars, scopeVars
  <1>2. RunnerShape /\ runner \in RunnerType
    BY RunnerFacts DEF RunnerInv
  <1>3. runner' = [pc |-> pc, known |-> runner.known, at |-> IF last THEN 1 ELSE runner.at + 1,
                   found |-> runner.found, status |-> Append(runner.status, JobStatus(Current)),
                   reason |-> runner.reason]
    <2>1. PICK st : st = Append(runner.status, JobStatus(Current))
      OBVIOUS
    <2>2. PICK next : next = IF runner.pc = "read" THEN "decide" ELSE "collect"
      OBVIOUS
    <2>3. Later(next) = [pc |-> pc, known |-> runner.known, at |-> IF last THEN 1 ELSE runner.at + 1,
                         found |-> runner.found, status |-> runner.status, reason |-> runner.reason]
      BY <1>2, <2>2, LaterIs
    <2>4. runner' = [Later(next) EXCEPT !.status = Append(@, JobStatus(Current))]
      BY <1>1, <2>2
    <2>5. Later(next).status = runner.status
      BY <2>3
    <2>6. runner' = [Later(next) EXCEPT !.status = st]
      BY <2>1, <2>4, <2>5
    <2>7. PICK a : a = IF last THEN 1 ELSE runner.at + 1
      OBVIOUS
    <2>8. PICK c : c = pc
      OBVIOUS
    <2>9. Later(next) = [pc |-> c, known |-> runner.known, at |-> a,
                         found |-> runner.found, status |-> runner.status, reason |-> runner.reason]
      BY <2>3, <2>7, <2>8
    <2> HIDE DEF last, pc
    <2>10. runner' = [pc |-> c, known |-> runner.known, at |-> a,
                      found |-> runner.found, status |-> st, reason |-> runner.reason]
      BY <2>6, <2>9
    <2> QED
      BY <2>1, <2>7, <2>8, <2>10
  <1>4. /\ runner.status \in Seq({"succeeded", "partial", "failed", "paused", "running"})
        /\ Len(runner.status) = runner.at - 1
    BY <1>1, <1>2 DEF RunnerType, RunnerShape
  <1>5. /\ runner'.status \in Seq({"succeeded", "partial", "failed", "paused", "running"})
        /\ Len(runner'.status) = runner.at
        /\ \A n \in 1 .. runner.at - 1 : runner'.status[n] = runner.status[n]
        /\ runner'.status[runner.at] = JobStatus(Current)
    BY <1>2, <1>3, <1>4, ReadingIsTrue, RunnerFacts
  <1>6. runner' \in RunnerType /\ Known' = Known
    <2>1. runner'.known = runner.known
      BY <1>3
    <2> QED
      <3>1. runner'.status \in Seq({"succeeded", "partial", "failed", "paused", "running"})
        BY <1>5
      <3>2. pc \in {"read", "decide", "reread", "collect"} /\ runner'.pc = pc
        BY <1>1, <1>3
      <3>3. runner'.at \in Nat
        BY <1>2, <1>3, RunnerFacts
      <3>4. /\ runner'.found = runner.found /\ runner'.reason = runner.reason
            /\ DOMAIN runner' = {"pc", "known", "at", "found", "status", "reason"}
        BY <1>3
      <3>5. runner' = [pc |-> runner'.pc, known |-> runner'.known, at |-> runner'.at,
                       found |-> runner'.found, status |-> runner'.status, reason |-> runner'.reason]
        BY <1>3
      <3>6. runner.known \in Seq(JobSet) /\ runner.found \in BOOLEAN
            /\ runner.reason \in {"timeout", "terminal", "operator_controlled"}
        BY <1>2 DEF RunnerType
      <3> HIDE DEF pc
      <3>7. runner' \in RunnerType
        BY <2>1, <3>1, <3>2, <3>3, <3>4, <3>5, <3>6 DEF RunnerType
      <3> QED
        BY <2>1, <3>7 DEF Known
  <1>7. RunnerShape'
    <2>1. \A j \in Known : j = RootJob \/ (j \in DOMAIN item' /\ item'[j].status = "succeeded")
      BY <1>1, <1>2 DEF RunnerShape
    <2>2. RootJob \in Known /\ exec'[Runner] = Idle
      BY <1>1, <1>2 DEF RunnerShape
    <2>3. runner'.at \in 1 .. Len(runner'.known)
      BY <1>2, <1>3, RunnerFacts
    <2>4. Len(runner'.status) = IF last THEN Len(runner'.known) ELSE runner'.at - 1
      BY <1>2, <1>3, <1>5, RunnerFacts
    <2>5. /\ last => runner'.pc \in {"decide", "collect"}
          /\ ~last => runner'.pc \in {"read", "reread"}
      BY <1>1, <1>3
    <2> QED
      BY <1>6, <2>1, <2>2, <2>3, <2>4, <2>5 DEF RunnerShape
  <1>8. RunnerReads'
    <2>1. \A j \in Known : Explored(j)'
      BY <1>1, <1>6, StillTree DEF RunnerInv, RunnerReads, Explored
    <2>2. ASSUME NEW n \in 1 .. runner.at, NEW j \in {runner.known[n]}, NEW said \in {runner'.status[n]}
          PROVE  StatusTrue(j, said)'
      <3>1. CASE n = runner.at
        <4>1. StatusTrue(j, said)
          BY <1>5, <3>1, ReadingIsTrue DEF Current
        <4> QED
          BY <1>1, <4>1, StillTree
      <3>2. CASE n # runner.at
        <4>1. n \in 1 .. runner.at - 1
          BY <1>2, <3>2, RunnerFacts
        <4>2. StatusTrue(j, said)
          BY <1>1, <1>4, <1>5, <4>1 DEF RunnerInv, RunnerReads
        <4> QED
          BY <1>1, <4>2, StillTree
      <3> QED
        BY <3>1, <3>2
    <2>3. runner'.pc # "discover" /\ runner'.known = runner.known
      BY <1>1, <1>3
    <2> QED
      BY <1>5, <1>6, <2>1, <2>2, <2>3 DEF RunnerReads
  <1>9. RunnerEnds'
    <2> SUFFICES ASSUME runner'.reason = "terminal" PROVE RunnerEnds'
      BY DEF RunnerEnds
    <2>1. runner.pc = "reread" /\ \A j \in Known : Settled(j)
      BY <1>1, <1>3 DEF RunnerInv, RunnerEnds
    <2>2. \A j \in Known : Settled(j)'
      BY <1>1, <2>1, StillTree
    <2>3. runner'.pc \in {"reread", "collect"} /\ (runner'.pc = "collect" => runner'.at = 1)
      BY <1>3, <2>1
    <2> QED
      BY <1>6, <2>2, <2>3 DEF RunnerEnds
  <1> QED
    BY <1>7, <1>8, <1>9 DEF RunnerInv

LEMMA DecideStep ==
  ASSUME PagesInv, RunnerInv, Decide
  PROVE  RunnerInv'
  <1>1. /\ runner.pc = "decide" /\ item' = item /\ exec' = exec /\ others' = others
        /\ \/ Stop("terminal") /\ Statuses \subseteq TerminalStates
           \/ Stop("operator_controlled")
           \/ Stop("timeout")
           \/ runner' = [runner EXCEPT !.pc = "work"]
    BY DEF Decide, vars, scopeVars
  <1>2. RunnerShape /\ runner \in RunnerType /\ runner.reason # "terminal"
    BY <1>1, RunnerFacts DEF RunnerInv, RunnerEnds
  <1>3. /\ Len(runner.status) = Len(runner.known) /\ RootJob \in Known /\ exec[Runner] = Idle
        /\ \A j \in Known : j = RootJob \/ (j \in DOMAIN item /\ item[j].status = "succeeded")
    BY <1>1, <1>2 DEF RunnerShape
  <1>4. CASE runner' = [runner EXCEPT !.pc = "work"]
    <2>1. runner' = [pc |-> "work", known |-> runner.known, at |-> runner.at, found |-> runner.found,
                     status |-> runner.status, reason |-> runner.reason]
      BY <1>2, <1>4, RunnerFacts
    <2>2. runner' \in RunnerType /\ Known' = Known /\ runner'.at \in 1 .. Len(runner'.known)
      BY <1>2, <2>1, RunnerFacts DEF RunnerType, Known
    <2>3. RunnerShape'
      BY <1>1, <1>3, <2>1, <2>2 DEF RunnerShape
    <2> QED
      BY <1>2, <2>1, <2>3 DEF RunnerInv, RunnerReads, RunnerEnds
  <1>5. ASSUME NEW reason \in {"terminal", "operator_controlled", "timeout"}, Stop(reason),
               reason = "terminal" => Statuses \subseteq TerminalStates
        PROVE  RunnerInv'
    <2>1. runner' = [pc |-> "reread", known |-> runner.known, at |-> 1, found |-> runner.found,
                     status |-> << >>, reason |-> reason]
      BY <1>2, <1>5, RunnerFacts DEF Stop
    <2>2. runner' \in RunnerType /\ Known' = Known /\ runner'.at \in 1 .. Len(runner'.known)
      BY <1>2, <2>1, RunnerFacts DEF RunnerType, Known
    <2>3. RunnerShape'
      BY <1>1, <1>3, <2>1, <2>2 DEF RunnerShape
    <2>4. \A j \in Known : Explored(j)'
      BY <1>1, <2>2, StillTree DEF RunnerInv, RunnerReads, Explored
    <2>5. ASSUME reason = "terminal", NEW j \in Known PROVE Settled(j)'
      <3>1. PICK n \in 1 .. Len(runner.known) : j = runner.known[n]
        BY <1>2, RunnerFacts
      <3>2. StatusTrue(j, runner.status[n])
        BY <1>1, <1>3, <3>1 DEF RunnerInv, RunnerReads
      <3>3. DOMAIN runner.status = 1 .. Len(runner.known)
        BY <1>2, <1>3 DEF RunnerType
      <3>4. runner.status[n] \in TerminalStates
        BY <1>5, <2>5, <3>1, <3>3 DEF Statuses, ToSet
      <3>5. Settled(j)
        BY <3>2, <3>4 DEF StatusTrue
      <3> QED
        BY <1>1, <3>5, StillTree
    <2>6. runner'.pc = "reread" /\ runner'.status = << >> /\ Len(runner'.status) = 0 /\ runner'.reason = reason
      BY <2>1
    <2>7. RunnerReads'
      BY <2>2, <2>4, <2>6 DEF RunnerReads
    <2>8. RunnerEnds'
      BY <2>2, <2>5, <2>6 DEF RunnerEnds
    <2> QED
      BY <2>3, <2>7, <2>8 DEF RunnerInv
  <1> QED
    BY <1>1, <1>4, <1>5

LEMMA ProcessStep ==
  ASSUME PagesInv, RunnerInv, Process
  PROVE  RunnerInv'
  <1>1. /\ runner.pc = "work" /\ runner' = [runner EXCEPT !.pc = "busy"]
        /\ \E i \in Claimable(Current) : Claim(Runner, i)
    BY DEF Process
  <1>2. RunnerShape /\ runner \in RunnerType /\ runner.reason # "terminal"
    BY <1>1, RunnerFacts DEF RunnerInv, RunnerEnds
  <1>3. ItemsGrow
    <2>1. PICK i \in Claimable(Current) : Claim(Runner, i)
      BY <1>1
    <2>2. i \in DOMAIN item
      BY DEF Claimable, ItemsOf
    <2> QED
      BY <2>1, <2>2, ClaimGrows, RunnerIsASlot
  <1>4. runner' = [pc |-> "busy", known |-> runner.known, at |-> runner.at, found |-> runner.found,
                   status |-> runner.status, reason |-> runner.reason]
    BY <1>1, <1>2, RunnerFacts
  <1>5. runner' \in RunnerType /\ Known' = Known /\ runner'.at \in 1 .. Len(runner'.known)
    BY <1>2, <1>4, RunnerFacts DEF RunnerType, Known
  <1>6. \A j \in Known : j = RootJob \/ (j \in DOMAIN item' /\ item'[j].status = "succeeded")
    BY <1>2, <1>3, KnownStays DEF RunnerShape
  <1>7. RunnerShape'
    BY <1>1, <1>2, <1>4, <1>5, <1>6 DEF RunnerShape
  <1> QED
    BY <1>2, <1>4, <1>7 DEF RunnerInv, RunnerReads, RunnerEnds

LEMMA PassByStep ==
  ASSUME PagesInv, RunnerInv, PassBy
  PROVE  RunnerInv'
  <1> DEFINE last == ~(runner.at < Len(runner.known))
  <1>1. /\ runner.pc \in {"work", "busy"} /\ item' = item /\ exec' = exec /\ exec[Runner] = Idle
        /\ others' = others
        /\ runner' = [Later("discover") EXCEPT !.pc = IF runner.at < Len(runner.known) THEN "work" ELSE @]
    BY DEF PassBy, vars, scopeVars
  <1>2. RunnerShape /\ runner \in RunnerType /\ runner.reason # "terminal"
    BY <1>1, RunnerFacts DEF RunnerInv, RunnerEnds
  <1>3. runner' = [pc |-> IF last THEN "discover" ELSE "work", known |-> runner.known,
                   at |-> IF last THEN 1 ELSE runner.at + 1,
                   found |-> runner.found, status |-> runner.status, reason |-> runner.reason]
    BY <1>1, <1>2, LaterIs
  <1>4. runner' \in RunnerType /\ Known' = Known /\ runner'.at \in 1 .. Len(runner'.known)
    BY <1>2, <1>3, RunnerFacts DEF RunnerType, Known
  <1>5. RunnerShape'
    <2>1. /\ Len(runner.status) = Len(runner.known) /\ RootJob \in Known
          /\ \A j \in Known : j = RootJob \/ (j \in DOMAIN item /\ item[j].status = "succeeded")
      BY <1>1, <1>2 DEF RunnerShape
    <2>2. /\ runner'.status = runner.status /\ runner'.known = runner.known
          /\ runner'.pc \in {"discover", "work"}
      BY <1>3
    <2> QED
      BY <1>1, <1>4, <2>1, <2>2 DEF RunnerShape
  <1>6. /\ runner'.pc \in {"discover", "work"} /\ runner'.reason # "terminal"
        /\ runner'.pc = "discover" => runner'.at = 1
    BY <1>2, <1>3
  <1>7. RunnerReads'
    BY <1>6 DEF RunnerReads
  <1> QED
    BY <1>5, <1>6, <1>7 DEF RunnerInv, RunnerEnds

LEMMA CollectStep ==
  ASSUME PagesInv, RunnerInv, Collect
  PROVE  RunnerInv'
  <1> DEFINE last == ~(runner.at < Len(runner.known))
  <1>1. /\ runner.pc = "collect" /\ item' = item /\ exec' = exec /\ others' = others
        /\ runner' = [Later("done") EXCEPT !.found = @ \/ WonItems(Current) # {}]
    BY DEF Collect, vars, scopeVars
  <1>2. RunnerShape /\ runner \in RunnerType
    BY RunnerFacts DEF RunnerInv
  <1>3. runner' = [pc |-> IF last THEN "done" ELSE runner.pc, known |-> runner.known,
                   at |-> IF last THEN 1 ELSE runner.at + 1,
                   found |-> (runner.found \/ WonItems(Current) # {}),
                   status |-> runner.status, reason |-> runner.reason]
    BY <1>1, <1>2, LaterIs
  <1>4. runner' \in RunnerType /\ Known' = Known /\ runner'.at \in 1 .. Len(runner'.known)
    <2>1. (runner.found \/ WonItems(Current) # {}) \in BOOLEAN
      OBVIOUS
    <2>2. PICK won \in BOOLEAN : won = (runner.found \/ WonItems(Current) # {})
      BY <2>1
    <2>3. runner' = [pc |-> IF last THEN "done" ELSE runner.pc, known |-> runner.known,
                     at |-> IF last THEN 1 ELSE runner.at + 1, found |-> won,
                     status |-> runner.status, reason |-> runner.reason]
      BY <1>3, <2>2
    <2>4. /\ runner'.known = runner.known /\ runner'.at = (IF last THEN 1 ELSE runner.at + 1)
          /\ runner'.found = won /\ runner'.pc \in {"done", "collect"}
          /\ runner'.status = runner.status /\ runner'.reason = runner.reason
          /\ runner' = [pc |-> runner'.pc, known |-> runner'.known, at |-> runner'.at,
                        found |-> runner'.found, status |-> runner'.status, reason |-> runner'.reason]
      BY <1>1, <2>3
    <2>5. runner'.at \in 1 .. Len(runner'.known) /\ runner'.at \in Nat
      BY <1>2, <2>4, RunnerFacts
    <2>6. /\ runner.known \in Seq(JobSet)
          /\ runner.status \in Seq({"succeeded", "partial", "failed", "paused", "running"})
          /\ runner.reason \in {"timeout", "terminal", "operator_controlled"}
      BY <1>2 DEF RunnerType
    <2>7. runner' \in RunnerType
      BY <2>2, <2>4, <2>5, <2>6 DEF RunnerType
    <2> QED
      BY <2>4, <2>5, <2>7 DEF Known
  <1>5. /\ runner'.status = runner.status /\ runner'.known = runner.known
        /\ runner'.pc = (IF last THEN "done" ELSE "collect") /\ runner'.reason = runner.reason
    BY <1>1, <1>3
  <1>6. RunnerShape'
    <2>1. /\ Len(runner.status) = Len(runner.known) /\ RootJob \in Known /\ exec[Runner] = Idle
          /\ \A j \in Known : j = RootJob \/ (j \in DOMAIN item /\ item[j].status = "succeeded")
      BY <1>1, <1>2 DEF RunnerShape
    <2> QED
      BY <1>1, <1>4, <1>5, <2>1 DEF RunnerShape
  <1>7. RunnerReads'
    <2>1. \A j \in Known : Explored(j)'
      BY <1>1, <1>4, StillTree DEF RunnerInv, RunnerReads, Explored
    <2>2. \A n \in 1 .. Len(runner.status) : \A j \in {runner.known[n]}, said \in {runner.status[n]} :
            StatusTrue(j, said)'
      BY <1>1, StillTree DEF RunnerInv, RunnerReads
    <2> QED
      BY <1>4, <1>5, <2>1, <2>2 DEF RunnerReads
  <1>8. RunnerEnds'
    <2> SUFFICES ASSUME runner.reason = "terminal" PROVE RunnerEnds'
      BY <1>5 DEF RunnerEnds
    <2>1. /\ \A j \in Known : Settled(j)'
          /\ ~runner.found => \A n \in 1 .. runner.at - 1 : \A j \in {runner.known[n]} : WonItems(j)' = {}
      BY <1>1, StillTree DEF RunnerInv, RunnerEnds
    <2>2. ASSUME ~runner'.found, NEW n \in 1 .. runner.at, NEW j \in {runner.known[n]} PROVE WonItems(j)' = {}
      <3>1. ~runner.found /\ WonItems(Current) = {}
        BY <1>3, <2>2
      <3>2. CASE n = runner.at
        BY <1>1, <3>1, <3>2, StillTree DEF Current
      <3>3. CASE n # runner.at
        <4>1. n \in 1 .. runner.at - 1
          BY <1>2, <3>3, RunnerFacts
        <4> QED
          BY <2>1, <3>1, <4>1
      <3> QED
        BY <3>2, <3>3
    <2>3. last => runner.at = Len(runner.known)
      BY <1>2, RunnerFacts
    <2>4. ASSUME last, ~runner'.found, NEW j \in Known PROVE WonItems(j)' = {}
      <3>1. PICK n \in 1 .. Len(runner.known) : j = runner.known[n]
        BY <1>2, RunnerFacts
      <3> QED
        BY <2>2, <2>3, <2>4, <3>1
    <2>5. ~last => runner'.at - 1 = runner.at
      BY <1>2, <1>3, RunnerFacts
    <2>6. CASE last
      BY <1>4, <1>5, <2>1, <2>4, <2>6 DEF RunnerEnds
    <2>7. CASE ~last
      BY <1>4, <1>5, <2>1, <2>2, <2>5, <2>7 DEF RunnerEnds
    <2> QED
      BY <2>6, <2>7
  <1> QED
    BY <1>6, <1>7, <1>8 DEF RunnerInv
-----------------------------------------------------------------------------
(* The steps of the others, and the theorems *)

LEMMA WorkStep ==
  ASSUME PagesInv, RunnerInv, NEW s \in Slot, Work(s)
  PROVE  RunnerInv'
  <1>1. /\ Execute(s) /\ runner' = runner
        /\ others' = others \cup {i \in {exec[s].item} : s # Runner /\ item'[i].status = "succeeded"}
    BY DEF Work
  <1>2. exec[s] # Idle /\ (item' = item \/ Ends(exec[s].item, item, item'))
    BY <1>1, ExecuteEnds
  <1>3. PICK i : i = exec[s].item
    OBVIOUS
  <1>4. i \in DOMAIN item /\ item[i].status = "running"
    BY <1>2, <1>3, ExecFacts DEF PagesInv
  <1>5. ItemsGrow
    BY <1>2, <1>3, <1>4, StillTree, EndsGrow
  <1>6. exec'[Runner] # Idle => exec[Runner] # Idle
    <2>1. CASE s = Runner
      BY <1>2, <2>1
    <2>2. CASE s # Runner
      <3>1. exec'[Runner] = exec[Runner]
        <4>1. exec \in [Slot -> {Idle} \cup ExecType(DOMAIN item)]
          BY DEF PagesInv, ExecInv
        <4>2. \A t \in Slot \ {s} : exec'[t] = exec[t]
          <5>1. CASE FetchFails(s) \/ FirstPage(s) \/ Gathered(s)
            BY <4>1, <5>1 DEF FetchFails, Return, FirstPage, Gathered
          <5>2. CASE Report(s)
            BY <4>1, <5>2 DEF Report, EvidenceKept, EvidenceRaises, Return
          <5>3. CASE GatherRaises(s)
            BY <4>1, <5>3 DEF GatherRaises
          <5> QED
            BY <1>1, <5>1, <5>2, <5>3 DEF Execute
        <4> QED
          BY <2>2, <4>2, RunnerIsASlot
      <3> QED
        BY <3>1
    <2> QED
      BY <2>1, <2>2
  <1>7. ASSUME NEW j \in DOMAIN item, item[j].status = "running", item'[j].status = "succeeded"
        PROVE  j \in others' \/ exec[Runner] # Idle
    <2>1. j = i
      BY <1>2, <1>3, <1>7 DEF Ends
    <2> QED
      BY <1>1, <1>2, <1>3, <1>7, <2>1
  <1> QED
    BY <1>1, <1>5, <1>6, <1>7, OthersStep

LEMMA OtherClaimsStep ==
  ASSUME PagesInv, RunnerInv, NEW s \in Slot, OtherClaims(s)
  PROVE  RunnerInv'
  <1>1. /\ s # Runner /\ runner' = runner /\ others' = others
        /\ \E j \in Jobs : \E i \in Claimable(j) : Claim(s, i)
    BY DEF OtherClaims, scopeVars
  <1>2. PICK i \in DOMAIN item : Claim(s, i)
    BY <1>1 DEF Claimable, ItemsOf
  <1>3. ItemsGrow /\ item[i].status = "pending"
    BY <1>2, ClaimGrows DEF Claim
  <1>4. exec'[Runner] = exec[Runner]
    BY <1>1, <1>2, RunnerIsASlot DEF Claim, PagesInv, ExecInv
  <1>5. \A j \in DOMAIN item : item[j].status = "running" => item'[j] = item[j]
    BY <1>2, <1>3, ClaimEffect DEF PagesInv
  <1> QED
    BY <1>1, <1>3, <1>4, <1>5, OthersStep

LEMMA StillStep ==
  ASSUME PagesInv, RunnerInv, UNCHANGED <<item, exec, others, runner>>
  PROVE  RunnerInv'
  BY StillTree, OthersStep

LEMMA RunnerKept ==
  ASSUME PagesInv, RunnerInv, [ScopedNext]_treeVars
  PROVE  RunnerInv'
  <1>1. CASE RunnerStep
    BY <1>1, DiscoverStep, ReadStep, DecideStep, ProcessStep, PassByStep, CollectStep DEF RunnerStep
  <1>2. ASSUME NEW s \in Slot, OtherClaims(s) \/ Work(s) PROVE RunnerInv'
    BY <1>2, OtherClaimsStep, WorkStep
  <1>3. CASE Continue
    BY <1>3, StillStep
       DEF Continue, LoadChunk, EnterStream, StreamFails, StreamPage, StreamReport, scopeVars
  <1>4. ASSUME NEW j, Pause(j) \/ Resume(j) PROVE RunnerInv'
    BY <1>4, StillStep DEF Pause, Resume, vars
  <1>5. CASE UNCHANGED treeVars
    BY <1>5, StillStep DEF treeVars, vars, scopeVars
  <1> QED
    BY <1>1, <1>2, <1>3, <1>4, <1>5 DEF ScopedNext

LEMMA InitRunner ==
  ASSUME ScopedInit
  PROVE  RunnerInv
  <1>1. /\ runner = [pc |-> "discover", known |-> <<RootJob>>, at |-> 1, status |-> << >>,
                     found |-> FALSE, reason |-> "timeout"]
        /\ exec = [s \in Slot |-> Idle]
    BY DEF ScopedInit, Init
  <1>2. runner \in RunnerType
    BY <1>1 DEF RunnerType, JobSet
  <1>3. Len(runner.known) = 1 /\ runner.known[1] = RootJob /\ DOMAIN runner.known = 1 .. 1
    BY <1>1
  <1>4. Known = {RootJob}
    BY <1>3 DEF Known, ToSet
  <1>5. RunnerShape
    BY <1>1, <1>2, <1>3, <1>4, RunnerIsASlot DEF RunnerShape
  <1> QED
    BY <1>1, <1>5 DEF RunnerInv, RunnerReads, RunnerEnds

\* All that the properties say of a tree of items and of what the runner knows of it follows
\* from an invariant that every step keeps.
THEOREM TreeInvariant == ScopedSpec => []TreeInv
  <1>1. ScopedInit => TreeInv
    BY InitPages, RankInit, InitRunner DEF ScopedInit, TreeInv
  <1>2. TreeInv /\ [ScopedNext]_treeVars => TreeInv'
    BY PagesStep, RankStep, RunnerKept DEF TreeInv
  <1> QED
    BY <1>1, <1>2, PTL DEF ScopedSpec

LEMMA FollowedLineage ==
  ASSUME PagesInv, RunnerInv
  PROVE  LineageFollowed
  <1> SUFFICES ASSUME runner.pc = "done" PROVE LineageFollowed
    BY DEF LineageFollowed
  <1>1. /\ RunnerShape /\ Len(runner.status) = Len(runner.known)
        /\ \A j \in Known : j = RootJob \/ (j \in DOMAIN item /\ item[j].status = "succeeded")
        /\ RootJob \in Known /\ \A j \in Known : Explored(j)
    BY DEF RunnerInv, RunnerShape, RunnerReads
  <1>2. runner.reason = "terminal" => \A j \in Known : Settled(j)
    BY DEF RunnerInv, RunnerEnds
  <1>3. ASSUME NEW j \in Jobs \ Known, JobOf(j) \in Known PROVE j \in others
    <2>1. PICK i \in DOMAIN item : j = JobOf(i)
      BY DEF Jobs
    <2>2. i # << >> /\ j = Front(i)
      BY <1>1, <2>1 DEF JobOf
    <2>3. j \in DOMAIN item
      BY <2>2 DEF PagesInv, ItemInv
    <2>4. j \in ChildrenOf(JobOf(j))
      BY <2>3 DEF ChildrenOf, ItemsOf
    <2> QED
      BY <1>1, <1>3, <2>4 DEF Explored
  <1>4. ASSUME LineageStatus = "succeeded", NEW j \in Known PROVE WonItems(j) = ItemsOf(j)
    <2>1. Statuses = {"succeeded"}
      BY <1>4 DEF LineageStatus
    <2>2. PICK n \in 1 .. Len(runner.known) : j = runner.known[n]
      BY <1>1, RunnerFacts
    <2>3. StatusTrue(j, runner.status[n])
      BY <1>1, <2>2 DEF RunnerInv, RunnerReads
    <2>4. DOMAIN runner.status = 1 .. Len(runner.known)
      BY <1>1, RunnerFacts DEF RunnerType
    <2>5. runner.status[n] = "succeeded"
      BY <2>1, <2>4 DEF Statuses, ToSet
    <2>6. Settled(j) /\ JobStatus(j) = "succeeded"
      BY <2>3, <2>5 DEF StatusTrue, TerminalStates
    <2> QED
      BY <2>6 DEF JobStatus
  <1>5. ASSUME LineageStatus = "failed", NEW j \in Known PROVE WonItems(j) = {}
    <2>1. ~runner.found /\ runner.reason = "terminal"
      BY <1>5 DEF LineageStatus
    <2> QED
      BY <2>1 DEF RunnerInv, RunnerEnds
  <1> QED
    BY <1>2, <1>3, <1>4, <1>5 DEF LineageFollowed

\* (ReportsFair) What a cookie and a proxy are told of a page is true of it, and they are told
\* of every page of an attempt that is over (execute, load_chunk).
THEOREM ReportsAreFair == ScopedSpec => []ReportsFair
  <1>1. TreeInv => ReportsFair
    BY FairReports DEF TreeInv
  <1> QED
    BY <1>1, TreeInvariant, PTL

\* (GivenUpRightly) An item is given up only for what its last page shows or after its last
\* attempt (response_policy.py, fail_item).
THEOREM ItemsAreGivenUpRightly == ScopedSpec => []GivenUpRightly
  <1>1. TreeInv => GivenUpRightly
    BY RightlyGivenUp DEF TreeInv
  <1> QED
    BY <1>1, TreeInvariant, PTL

\* (RankRowsSound) A rank list that succeeds holds the rows of all its pages, each row once
\* and in the order of the list, and every chunk has given some, whatever rows the site answers
\* with, however many chunks there are and in whatever order they end (load_chunk, execute).
THEOREM RankRowsAreSound == ScopedSpec => []RankRowsSound
  <1>1. TreeInv => RankRowsSound
    BY SoundRankRows DEF TreeInv
  <1> QED
    BY <1>1, TreeInvariant, PTL

\* (LineageFollowed) What the runner says of a job and of those that follow from it agrees with
\* the items, whatever other workers and an operator do meanwhile (run_scoped_job).
THEOREM LineageIsFollowed == ScopedSpec => []LineageFollowed
  <1>1. TreeInv => LineageFollowed
    BY FollowedLineage DEF TreeInv
  <1> QED
    BY <1>1, TreeInvariant, PTL
=============================================================================
