--------------------------- MODULE WhpMutexProofs ---------------------------
(***************************************************************************)
(* Proof that every mutex slot of WhpSync implements MutexService.         *)
(*                                                                         *)
(* The list of those that wait is put together from the thread table by    *)
(* counting: the k-th is the one that k - 1 others came before.  The first *)
(* part shows, for any table, what becomes of such a list when a waiter    *)
(* leaves or one comes last; the second which of the two a step does.      *)
(***************************************************************************)
EXTENDS WhpSyncProofs, FiniteSetTheorems

-----------------------------------------------------------------------------
(***************************************************************************)
(* Lists by order                                                          *)
(***************************************************************************)

\* How many of those in W came before s, in table T.
Rank(T, W, s) == Cardinality({r \in W : T[r].order < T[s].order})

\* The k-th of them, and the ids of all in their order.
At(T, W, k) == CHOOSE s \in W : Rank(T, W, s) = k - 1
Line(T, W) == [k \in 1..Cardinality(W) |-> T[At(T, W, k)].tid]

\* Finitely many, each with an order of its own.
Ordered(T, W) ==
    /\ IsFiniteSet(W)
    /\ \A s \in W : T[s].order \in Nat /\ T[s].tid \in Nat
    /\ \A r, s \in W : T[r].order = T[s].order => r = s

\* Whoever came later has more before it, and nobody has all before it.
LEMMA RankGrows ==
  ASSUME NEW T, NEW W, Ordered(T, W), NEW s \in W
  PROVE  /\ Rank(T, W, s) \in 0..Cardinality(W) - 1
         /\ \A r \in W : T[s].order < T[r].order => Rank(T, W, s) < Rank(T, W, r)
<1> DEFINE B(x) == {r \in W : T[r].order < T[x].order}
<1>1. IsFiniteSet(W) /\ \A x \in W : T[x].order \in Nat
  BY DEF Ordered
<1>2. ASSUME NEW x \in W
      PROVE  IsFiniteSet(B(x)) /\ Cardinality(B(x)) \in Nat
  <2>1. B(x) \in SUBSET W
    OBVIOUS
  <2> QED
    BY <1>1, <2>1, FS_Subset, FS_CardinalityType
<1>3. s \notin B(s) /\ B(s) \cup {s} \in SUBSET W
  BY <1>1
<1>4. IsFiniteSet(B(s) \cup {s}) /\ Cardinality(B(s) \cup {s}) = Cardinality(B(s)) + 1
  BY <1>2, <1>3, FS_AddElement
<1>5. Cardinality(B(s) \cup {s}) <= Cardinality(W) /\ Cardinality(W) \in Nat
  BY <1>1, <1>3, FS_Subset, FS_CardinalityType
<1>6. ASSUME NEW r \in W, T[s].order < T[r].order
      PROVE  Cardinality(B(s)) < Cardinality(B(r))
  <2>1. B(s) \cup {s} \in SUBSET B(r)
    BY <1>1, <1>6
  <2>2. Cardinality(B(s) \cup {s}) <= Cardinality(B(r))
    BY <1>2, <2>1, FS_Subset
  <2> QED
    BY <1>2, <1>4, <2>2
<1> HIDE DEF B
<1>7. Cardinality(B(s)) \in 0..Cardinality(W) - 1
  BY <1>2, <1>4, <1>5
<1> QED
  BY <1>6, <1>7 DEF Rank, B

\* No two have the same number before them.
LEMMA RankOwn ==
  ASSUME NEW T, NEW W, Ordered(T, W), NEW s \in W, NEW r \in W,
         Rank(T, W, s) = Rank(T, W, r)
  PROVE  s = r
<1>1. T[s].order \in Nat /\ T[r].order \in Nat /\ (T[s].order = T[r].order => s = r)
  BY DEF Ordered
<1>2. /\ Rank(T, W, s) \in 0..Cardinality(W) - 1
      /\ T[s].order < T[r].order => Rank(T, W, s) < Rank(T, W, r)
      /\ T[r].order < T[s].order => Rank(T, W, r) < Rank(T, W, s)
      /\ Cardinality(W) \in Nat
  BY RankGrows, FS_CardinalityType DEF Ordered
<1> QED
  BY <1>1, <1>2

\* Every place is taken, by the one that is At it.
LEMMA AtPlace ==
  ASSUME NEW T, NEW W, Ordered(T, W), NEW k \in 1..Cardinality(W)
  PROVE  At(T, W, k) \in W /\ Rank(T, W, At(T, W, k)) = k - 1
<1> DEFINE n == Cardinality(W)
           f == [s \in W |-> Rank(T, W, s)]
<1>1. IsFiniteSet(W) /\ n \in Nat
  BY FS_CardinalityType DEF Ordered
<1>2. IsFiniteSet(0..n - 1) /\ Cardinality(0..n - 1) = n
  <2>1. n - 1 \in Int /\ 0 \in Int
    BY <1>1
  <2>2. /\ IsFiniteSet(0..n - 1)
        /\ Cardinality(0..n - 1) = IF 0 > n - 1 THEN 0 ELSE n - 1 - 0 + 1
    BY <2>1, FS_Interval
  <2> HIDE DEF n
  <2> QED
    BY <1>1, <2>2
<1>3. f \in Injection(W, 0..n - 1)
  <2>1. f \in [W -> 0..n - 1]
    BY RankGrows
  <2>2. \A s, r \in W : f[s] = f[r] => s = r
    BY RankOwn
  <2> HIDE DEF f
  <2> QED
    BY <2>1, <2>2 DEF Injection, IsInjective
<1>4. f \in Surjection(W, 0..n - 1)
  <2> HIDE DEF f, n
  <2> QED
    BY <1>2, <1>3, FS_Injection DEF n
<1>5. k - 1 \in 0..n - 1
  BY <1>1
<1>6. \E s \in W : f[s] = k - 1
  BY <1>4, <1>5 DEF Surjection
<1>7. \E s \in W : Rank(T, W, s) = k - 1
  BY <1>6
<1> QED
  BY <1>7 DEF At

\* Whoever has k - 1 before it is the k-th.
LEMMA PlaceOf ==
  ASSUME NEW T, NEW W, Ordered(T, W), NEW s \in W, NEW k \in Nat, Rank(T, W, s) = k - 1
  PROVE  k \in 1..Cardinality(W) /\ At(T, W, k) = s
<1>1. Rank(T, W, s) \in 0..Cardinality(W) - 1 /\ Cardinality(W) \in Nat
  BY RankGrows, FS_CardinalityType DEF Ordered
<1>2. k \in 1..Cardinality(W)
  BY <1>1
<1>3. At(T, W, k) \in W /\ Rank(T, W, At(T, W, k)) = k - 1
  BY <1>2, AtPlace
<1> QED
  BY <1>2, <1>3, RankOwn

\* The list has their number, and the ids.
LEMMA LineIs ==
  ASSUME NEW T, NEW W, Ordered(T, W)
  PROVE  /\ Line(T, W) \in Seq(Nat) /\ Len(Line(T, W)) = Cardinality(W)
         /\ Cardinality(W) \in Nat
         /\ \A k \in 1..Cardinality(W) : /\ Line(T, W)[k] = T[At(T, W, k)].tid
                                         /\ At(T, W, k) \in W
<1>1. Cardinality(W) \in Nat
  BY FS_CardinalityType DEF Ordered
<1>2. \A k \in 1..Cardinality(W) : At(T, W, k) \in W /\ T[At(T, W, k)].tid \in Nat
  BY AtPlace DEF Ordered
<1> QED
  BY <1>1, <1>2 DEF Line

\* What a table U tells of those in V is what T tells of them.
Alike(T, U, V) == \A s \in V : U[s].order = T[s].order /\ U[s].tid = T[s].tid

\* Lists of the same are the same.
LEMMA LineAlike ==
  ASSUME NEW T, NEW U, NEW W, Ordered(T, W), Alike(T, U, W)
  PROVE  Ordered(U, W) /\ Line(U, W) = Line(T, W)
<1>1. Ordered(U, W)
  BY DEF Ordered, Alike
<1>2. \A s \in W : Rank(U, W, s) = Rank(T, W, s)
  <2> SUFFICES ASSUME NEW s \in W
               PROVE  {r \in W : U[r].order < U[s].order} = {r \in W : T[r].order < T[s].order}
    BY DEF Rank
  <2> QED
    BY DEF Alike
<1>3. \A k \in 1..Cardinality(W) : U[At(U, W, k)].tid = T[At(T, W, k)].tid
  <2> SUFFICES ASSUME NEW k \in 1..Cardinality(W)
               PROVE  U[At(U, W, k)].tid = T[At(T, W, k)].tid
    OBVIOUS
  <2>1. At(T, W, k) \in W /\ Rank(T, W, At(T, W, k)) = k - 1
    BY AtPlace
  <2>2. Rank(U, W, At(T, W, k)) = k - 1 /\ k \in Nat
    BY <1>2, <2>1, FS_CardinalityType DEF Ordered
  <2>3. At(U, W, k) = At(T, W, k)
    BY <1>1, <2>1, <2>2, PlaceOf
  <2> QED
    BY <2>1, <2>3 DEF Alike
<1> QED
  BY <1>1, <1>3 DEF Line

\* One leaves: the others keep their order, and those behind it move up.
LEMMA LineLeft ==
  ASSUME NEW T, NEW U, NEW W, Ordered(T, W), NEW x \in W, Alike(T, U, W \ {x})
  PROVE  LET p == Rank(T, W, x) + 1
             V == W \ {x}
         IN  /\ p \in 1..Cardinality(W)
             /\ Ordered(U, V) /\ Cardinality(V) = Cardinality(W) - 1
             /\ \A k \in 1..Cardinality(V) :
                   Line(U, V)[k] = Line(T, W)[IF k < p THEN k ELSE k + 1]
<1> DEFINE n == Cardinality(W)
           p == Rank(T, W, x) + 1
           V == W \ {x}
           From(k) == IF k < p THEN k ELSE k + 1
<1>1. IsFiniteSet(W) /\ n \in Nat /\ p \in 1..n
  BY RankGrows, FS_CardinalityType DEF Ordered
<1>2. IsFiniteSet(V) /\ Cardinality(V) = n - 1
  BY <1>1, FS_RemoveElement
<1>3. Ordered(U, V)
  BY <1>2 DEF Ordered, Alike
<1>4. ASSUME NEW s \in V
      PROVE  Rank(U, V, s) = IF Rank(T, W, s) < p THEN Rank(T, W, s) ELSE Rank(T, W, s) - 1
  <2> DEFINE B == {r \in W : T[r].order < T[s].order}
  <2>1. s \in W /\ s # x /\ T[s].order \in Nat /\ T[x].order \in Nat
        /\ T[s].order # T[x].order
    BY DEF Ordered
  <2>2. {r \in V : U[r].order < U[s].order} = B \ {x}
    BY DEF Alike
  <2>3. IsFiniteSet(B)
    BY <1>1, FS_Subset
  <2>4. Cardinality(B \ {x}) = IF x \in B THEN Cardinality(B) - 1 ELSE Cardinality(B)
    BY <2>3, FS_RemoveElement
  <2>5. Rank(U, V, s) = IF T[x].order < T[s].order THEN Rank(T, W, s) - 1 ELSE Rank(T, W, s)
    BY <2>2, <2>4 DEF Rank
  <2>6. /\ Rank(T, W, s) \in 0..n - 1 /\ Rank(T, W, x) \in 0..n - 1
        /\ T[x].order < T[s].order => Rank(T, W, x) < Rank(T, W, s)
        /\ T[s].order < T[x].order => Rank(T, W, s) < Rank(T, W, x)
    BY <2>1, RankGrows
  <2> HIDE DEF V
  <2> QED
    BY <1>1, <2>1, <2>5, <2>6
<1>5. ASSUME NEW k \in 1..n - 1
      PROVE  Line(U, V)[k] = Line(T, W)[From(k)]
  <2> DEFINE y == At(T, W, From(k))
  <2>1. From(k) \in 1..n /\ k \in Nat /\ From(k) # p
    BY <1>1
  <2>2. y \in W /\ Rank(T, W, y) = From(k) - 1
    <3> HIDE DEF From
    <3> QED
      BY <2>1, AtPlace
  <2>3. Rank(T, W, x) = p - 1
    BY <1>1, RankGrows
  <2>4. y # x
    <3>1. From(k) - 1 # p - 1
      BY <1>1, <2>1
    <3> HIDE DEF From, p, y
    <3> QED
      BY <2>2, <2>3, <3>1
  <2> HIDE DEF y
  <2>5. y \in V
    BY <2>2, <2>4
  <2>6. Rank(U, V, y) = k - 1
    <3>1. Rank(U, V, y) = IF From(k) - 1 < p THEN From(k) - 1 ELSE From(k) - 1 - 1
      BY <1>4, <2>2, <2>5
    <3>2. p \in Int
      BY <1>1
    <3> HIDE DEF p, V
    <3> QED
      BY <2>1, <3>1, <3>2
  <2>7. At(U, V, k) = y
    BY <1>3, <2>1, <2>5, <2>6, PlaceOf
  <2>8. Line(U, V)[k] = U[y].tid
    BY <1>2, <1>3, <2>7, LineIs
  <2>9. Line(T, W)[From(k)] = T[y].tid
    <3> HIDE DEF From
    <3> QED
      BY <2>1, LineIs DEF y
  <2> QED
    BY <2>5, <2>8, <2>9 DEF Alike
<1> QED
  BY <1>1, <1>2, <1>3, <1>5

\* An empty list, and one that is not.
LEMMA LineEmpty ==
  ASSUME NEW T, NEW W, Ordered(T, W)
  PROVE  W = {} <=> Line(T, W) = <<>>
<1>1. Cardinality(W) = 0 <=> W = {}
  BY FS_EmptySet DEF Ordered
<1>2. Line(T, W) \in Seq(Nat) /\ Len(Line(T, W)) = Cardinality(W)
  BY LineIs
<1> HIDE DEF Line
<1> QED
  BY <1>1, <1>2

\* List r is s without one of its elements, or without its first, which is e.
Without(s, r) ==
    \E p \in 1..Len(s) : r = SubSeq(s, 1, p - 1) \o SubSeq(s, p + 1, Len(s))

WithoutHead(s, e, r) == s # <<>> /\ Head(s) = e /\ r = Tail(s)

\* One leaves from anywhere.
LEMMA LineGone ==
  ASSUME NEW T, NEW U, NEW W, Ordered(T, W), NEW x \in W, Alike(T, U, W \ {x})
  PROVE  Without(Line(T, W), Line(U, W \ {x}))
<1>10. /\ Ordered(U, W \ {x}) /\ Cardinality(W \ {x}) = Cardinality(W) - 1
       /\ \A k \in 1..Cardinality(W \ {x}) :
             Line(U, W \ {x})[k] = Line(T, W)[IF k < Rank(T, W, x) + 1 THEN k ELSE k + 1]
  BY LineLeft
<1>0. PICK s, r : s = Line(T, W) /\ r = Line(U, W \ {x})
  OBVIOUS
<1>1. PICK n \in Nat, p \in Nat : n = Cardinality(W) /\ p = Rank(T, W, x) + 1
  <2>1. Cardinality(W) \in Nat /\ Rank(T, W, x) + 1 \in Nat
    BY RankGrows, FS_CardinalityType DEF Ordered
  <2> QED
    BY <2>1
<1>2. /\ p \in 1..n /\ Ordered(U, W \ {x}) /\ Cardinality(W \ {x}) = n - 1
      /\ \A k \in 1..n - 1 : r[k] = s[IF k < p THEN k ELSE k + 1]
  <2>0. Rank(T, W, x) + 1 \in 1..Cardinality(W)
    BY <1>1, RankGrows
  <2> QED
    BY <1>0, <1>1, <1>10, <2>0
<1>3. s \in Seq(Nat) /\ Len(s) = n /\ r \in Seq(Nat) /\ Len(r) = n - 1
  BY <1>0, <1>1, <1>2, LineIs
<1> DEFINE a == SubSeq(s, 1, p - 1)
           b == SubSeq(s, p + 1, n)
<1>4. a \in Seq(Nat) /\ Len(a) = p - 1 /\ \A k \in 1..p - 1 : a[k] = s[k]
  BY <1>2, <1>3
<1>5. b \in Seq(Nat) /\ Len(b) = n - p /\ \A k \in 1..n - p : b[k] = s[p + k]
  BY <1>2, <1>3
<1> HIDE DEF a, b
<1>6. Len(a \o b) = n - 1 /\ a \o b \in Seq(Nat)
  <2>1. Len(a \o b) = Len(a) + Len(b) /\ a \o b \in Seq(Nat)
    BY SMTT(30), <1>4, <1>5
  <2>2. p - 1 + (n - p) = n - 1
    BY <1>2
  <2> QED
    BY <1>4, <1>5, <2>1, <2>2
<1>7. ASSUME NEW k \in 1..n - 1
      PROVE  (a \o b)[k] = r[k]
  <2>1. (a \o b)[k] = IF k <= p - 1 THEN a[k] ELSE b[k - (p - 1)]
    BY <1>4, <1>5, <1>2
  <2>2. CASE k < p
    BY <1>2, <1>4, <2>1, <2>2
  <2>3. CASE ~ (k < p)
    <3>1. k - (p - 1) \in 1..n - p
      BY <1>2, <2>3
    <3>2. p + (k - (p - 1)) = k + 1
      BY <1>2
    <3>3. b[k - (p - 1)] = s[k + 1]
      BY <1>5, <3>1, <3>2
    <3> QED
      BY <1>2, <2>1, <2>3, <3>3
  <2> QED
    BY <2>2, <2>3
<1>8. a \o b = r
  <2>1. PICK c \in Seq(Nat) : c = a \o b
    BY <1>6
  <2>2. Len(c) = n - 1 /\ \A k \in 1..n - 1 : c[k] = r[k]
    BY <1>6, <1>7, <2>1
  <2>3. c = r
    BY <1>3, <2>2
  <2> QED
    BY <2>1, <2>3
<1>9. p \in 1..Len(s) /\ n = Len(s)
  BY <1>2, <1>3
<1> QED
  BY <1>0, <1>8, <1>9 DEF a, b, Without

\* The first leaves.
LEMMA LineServed ==
  ASSUME NEW T, NEW U, NEW W, Ordered(T, W), NEW f \in W, Alike(T, U, W \ {f}),
         \A r \in W : T[f].order <= T[r].order
  PROVE  WithoutHead(Line(T, W), T[f].tid, Line(U, W \ {f}))
<1>0. PICK s, r : s = Line(T, W) /\ r = Line(U, W \ {f})
  OBVIOUS
<1>1. PICK n \in Nat : n = Cardinality(W)
  BY FS_CardinalityType DEF Ordered
<1>2. Rank(T, W, f) = 0
  <2>1. {q \in W : T[q].order < T[f].order} = {}
    BY DEF Ordered
  <2> QED
    BY <2>1, FS_EmptySet DEF Rank
<1>3. 1 \in 1..n /\ At(T, W, 1) = f
  BY <1>1, <1>2, PlaceOf
<1>4. /\ Ordered(U, W \ {f}) /\ Cardinality(W \ {f}) = n - 1
      /\ \A k \in 1..n - 1 : r[k] = s[IF k < 1 THEN k ELSE k + 1]
  <2>1. Rank(T, W, f) + 1 = 1
    BY <1>2
  <2>2. /\ Ordered(U, W \ {f}) /\ Cardinality(W \ {f}) = Cardinality(W) - 1
        /\ \A k \in 1..Cardinality(W \ {f}) :
              Line(U, W \ {f})[k] = Line(T, W)[IF k < Rank(T, W, f) + 1 THEN k ELSE k + 1]
    BY LineLeft
  <2> QED
    BY <1>0, <1>1, <2>1, <2>2
<1>5. s \in Seq(Nat) /\ Len(s) = n /\ r \in Seq(Nat) /\ Len(r) = n - 1 /\ s[1] = T[f].tid
  BY <1>0, <1>1, <1>3, <1>4, LineIs
<1>6. s # <<>> /\ Head(s) = T[f].tid
  BY <1>3, <1>5
<1>7. Tail(s) \in Seq(Nat) /\ Len(Tail(s)) = n - 1 /\ \A k \in 1..n - 1 : Tail(s)[k] = s[k + 1]
  BY <1>3, <1>5
<1>8. r = Tail(s)
  <2>1. \A k \in 1..n - 1 : r[k] = Tail(s)[k]
    BY <1>4, <1>7
  <2> QED
    BY SMTT(30), <1>5, <1>7, <2>1
<1> QED
  BY <1>0, <1>6, <1>8 DEF WithoutHead

\* One comes last.
LEMMA LineJoined ==
  ASSUME NEW T, NEW U, NEW W, Ordered(T, W), NEW x, x \notin W, Alike(T, U, W),
         U[x].order \in Nat, U[x].tid \in Nat, \A r \in W : T[r].order < U[x].order
  PROVE  Line(U, W \cup {x}) = Append(Line(T, W), U[x].tid)
<1> DEFINE V == W \cup {x}
<1>1. IsFiniteSet(V) /\ Cardinality(V) = Cardinality(W) + 1
  BY FS_AddElement DEF Ordered
<1>2. Ordered(U, V)
  BY <1>1 DEF Ordered, Alike
<1>3. Rank(U, V, x) = Cardinality(W)
  <2>1. {r \in V : U[r].order < U[x].order} = W
    BY DEF Ordered, Alike
  <2> QED
    BY <2>1 DEF Rank
<1>0. PICK s, r : s = Line(T, W) /\ r = Line(U, V)
  OBVIOUS
<1>4. PICK n \in Nat : n = Cardinality(W)
  BY FS_CardinalityType DEF Ordered
<1>5. At(U, V, n + 1) = x
  BY <1>2, <1>3, <1>4, PlaceOf
<1>6. \A k \in 1..n : s[k] = r[k]
  <2>1. V \ {x} = W /\ Alike(U, T, V \ {x})
    BY DEF Alike
  <2>2. \A k \in 1..n : s[k] = r[IF k < n + 1 THEN k ELSE k + 1]
    <3>1. x \in V
      OBVIOUS
    <3> HIDE DEF V
    <3> QED
      BY <1>0, <1>2, <1>3, <1>4, <2>1, <3>1, LineLeft
  <2> QED
    BY <2>2
<1>7. s \in Seq(Nat) /\ Len(s) = n /\ r \in Seq(Nat) /\ Len(r) = n + 1 /\ r[n + 1] = U[x].tid
  <2>1. n + 1 \in 1..n + 1
    OBVIOUS
  <2> HIDE DEF V
  <2> QED
    BY <1>0, <1>1, <1>2, <1>4, <1>5, <2>1, LineIs
<1>8. PICK tid \in Nat : tid = U[x].tid
  OBVIOUS
<1>9. /\ Append(s, tid) \in Seq(Nat) /\ Len(Append(s, tid)) = n + 1
      /\ \A k \in 1..n + 1 : Append(s, tid)[k] = IF k <= n THEN s[k] ELSE tid
  BY <1>7
<1>10. \A k \in 1..n + 1 : r[k] = Append(s, tid)[k]
  <2> SUFFICES ASSUME NEW k \in 1..n + 1
               PROVE  r[k] = Append(s, tid)[k]
    OBVIOUS
  <2>1. k \in 1..n \/ k = n + 1
    OBVIOUS
  <2> QED
    BY <1>6, <1>7, <1>8, <1>9, <2>1
<1>11. r = Append(s, tid)
  BY <1>7, <1>9, <1>10
<1> QED
  BY <1>0, <1>8, <1>11

-----------------------------------------------------------------------------
(***************************************************************************)
(* The invariant: a mutex that does not exist has no owner                 *)
(***************************************************************************)

Unowned == \A i \in MutexSlots : ~ mutexes[i].used => mutexes[i].owner = 0

MInv == WInv /\ Unowned

\* Mutex i stays, or is closed when nobody owns it or waits for it.
Lasting(i) ==
    /\ mutexes'[i].owner = mutexes[i].owner /\ mutexes'[i].count = mutexes[i].count
    /\ mutexes'[i].abandoned = mutexes[i].abandoned
    /\ mutexes'[i].generation = mutexes[i].generation
    /\ mutexes'[i].used \/ mutexes'[i].owner = 0

\* Mutex i is made.
Made(i) ==
    /\ ~ mutexes[i].used
    /\ \/ mutexes'[i].owner \in 1..MaxTid /\ mutexes'[i].count = 1
       \/ mutexes'[i].owner = 0 /\ mutexes'[i].count = 0
    /\ mutexes'[i].abandoned = FALSE
    /\ mutexes'[i].used

\* Mutexes no step touches.
LEMMA Untouched ==
  ASSUME MInv, NEW i \in MutexSlots, mutexes'[i] = mutexes[i]
  PROVE  Lasting(i)
BY DEF MInv, Unowned, Lasting

\* An id that was given out.
LEMMA MyTid ==
  ASSUME WInv, Guest
  PROVE  Me.tid \in 1..MaxTid
<1>1. Me.tid \in 1..nextTid - 1
  BY MeRuns DEF WInv, Sound, Tids, Me, Live, Gone
<1>2. nextTid \in 2..MaxTid /\ MaxTid \in Nat
  BY SyncAssumption DEF WInv, TypeOK
<1> QED
  BY <1>1, <1>2

\* DosCreateMutexSem makes one mutex.
LEMMA CreateMakes ==
  ASSUME MInv, NEW name, NEW owned \in BOOLEAN, CreateMutex(name, owned)
  PROVE  \A j \in MutexSlots : Lasting(j) \/ Made(j)
<1>0. WInv /\ Guest
  BY DEF MInv, CreateMutex
<1>1. mutexes \in [MutexSlots -> MutexType]
  BY <1>0 DEF WInv, TypeOK
<1>2. CASE UNCHANGED mutexes
  BY <1>2, Untouched
<1>3. CASE ~ UNCHANGED mutexes
  <2> DEFINE New(i) ==
        [used |-> TRUE, generation |-> mutexes[i].generation + 1, refs |-> 1,
         owner |-> IF owned THEN Me.tid ELSE 0,
         count |-> IF owned THEN 1 ELSE 0,
         abandoned |-> FALSE, name |-> name]
  <2>1. PICK i \in MutexSlots :
          FirstFreeMutex(i) /\ mutexes' = [mutexes EXCEPT ![i] = New(i)]
    BY <1>3 DEF CreateMutex, Refuse
  <2>2. mutexes'[i] = New(i) /\ \A j \in MutexSlots \ {i} : mutexes'[j] = mutexes[j]
    BY <1>1, <2>1
  <2>3. Me.tid \in 1..MaxTid
    BY <1>0, MyTid
  <2>4. /\ New(i).owner = IF owned THEN Me.tid ELSE 0
        /\ New(i).count = IF owned THEN 1 ELSE 0
        /\ New(i).abandoned = FALSE /\ New(i).used
    OBVIOUS
  <2> HIDE DEF New
  <2>5. Made(i)
    BY <2>1, <2>2, <2>3, <2>4 DEF Made, FirstFreeMutex
  <2> QED
    BY <2>2, <2>5, Untouched
<1> QED
  BY <1>2, <1>3

\* DosOpenMutexSem counts.
LEMMA OpenLasts ==
  ASSUME MInv, NEW i \in MutexSlots, mutexes[i].used, OpenMutexSlot(i)
  PROVE  \A j \in MutexSlots : Lasting(j)
<1>1. mutexes \in [MutexSlots -> MutexType]
  BY DEF MInv, WInv, TypeOK
<1>2. CASE UNCHANGED mutexes
  BY <1>2, Untouched
<1>3. CASE mutexes' = [mutexes EXCEPT ![i].refs = @ + 1]
  <2>1. mutexes'[i] = [mutexes[i] EXCEPT !.refs = @ + 1]
        /\ \A j \in MutexSlots \ {i} : mutexes'[j] = mutexes[j]
    BY <1>1, <1>3
  <2>2. Lasting(i)
    BY <1>1, <2>1 DEF Lasting, MutexType
  <2> QED
    BY <2>1, <2>2, Untouched
<1> QED
  BY <1>2, <1>3 DEF OpenMutexSlot, Refuse

\* DosCloseMutexSem leaves a mutex that is owned.
LEMMA CloseLasts ==
  ASSUME MInv, NEW h \in MutexHandles, CloseMutex(h)
  PROVE  \A j \in MutexSlots : Lasting(j)
<1>1. mutexes \in [MutexSlots -> MutexType]
  BY DEF MInv, WInv, TypeOK
<1>2. PICK i \in MutexSlots : i = h.slot /\ mutexes[i].used
  BY <1>1, MutexOf DEF CloseMutex, OnMutex, MInv
<1>3. CASE UNCHANGED mutexes
  BY <1>3, Untouched
<1>4. CASE /\ mutexes[i].refs > 1 \/ ~ MutexBusy(i)
           /\ mutexes' = [mutexes EXCEPT ![i] = ClosedMutex(@)]
  <2>1. /\ mutexes'[i] = ClosedMutex(mutexes[i])
        /\ \A j \in MutexSlots \ {i} : mutexes'[j] = mutexes[j]
    BY <1>1, <1>4
  <2>2. LET m == ClosedMutex(mutexes[i])
        IN  /\ m.owner = mutexes[i].owner /\ m.count = mutexes[i].count
            /\ m.abandoned = mutexes[i].abandoned /\ m.generation = mutexes[i].generation
    BY <1>1 DEF ClosedMutex, MutexType
  <2>3. mutexes[i].refs > 1 => ClosedMutex(mutexes[i]).used
    BY <1>1, <1>2 DEF ClosedMutex, MutexType
  <2>4. ~ MutexBusy(i) => mutexes[i].owner = 0
    BY DEF MutexBusy
  <2>5. Lasting(i)
    BY <1>4, <2>1, <2>2, <2>3, <2>4 DEF Lasting
  <2> QED
    BY <2>1, <2>5, Untouched
<1> QED
  BY <1>2, <1>3, <1>4 DEF CloseMutex, Refuse

\* In other steps than these mutexes stay, or are made.
LEMMA MutexesLast ==
  ASSUME MInv, [Next]_vars
  PROVE  \/ \A i \in MutexSlots : Lasting(i) \/ Made(i)
         \/ OwnersStep
<1>0. /\ UNCHANGED mutexes => \A i \in MutexSlots : Lasting(i)
      /\ ExitThread => OwnersStep
      /\ WInv
  BY Untouched DEF OwnersStep, MInv
<1>1. CASE ThreadCall
  <2>1. ThreadCall => ExitThread \/ UNCHANGED mutexes
    BY DEF ThreadCall, Sleep, CreateThread, WaitThread, ExitProcess
  <2> QED
    BY <1>0, <1>1, <2>1
<1>2. CASE MutexCall
  <2>1. \A name : OpenMutexNamed(name) =>
           \/ UNCHANGED mutexes
           \/ \E i \in MutexSlots : mutexes[i].used /\ OpenMutexSlot(i)
    BY DEF OpenMutexNamed, MutexNamed, Refuse
  <2>2. \A h \in MutexHandles : OpenMutex(h) =>
           \E i \in MutexSlots : mutexes[i].used /\ OpenMutexSlot(i)
    BY <1>0, MutexOf DEF OpenMutex, OnMutex
  <2>3. \A h : BadHandle(h) => UNCHANGED mutexes
    BY DEF BadHandle, Refuse
  <2> QED
    BY <1>0, <1>2, <2>1, <2>2, <2>3, CreateMakes, OpenLasts, CloseLasts
       DEF MutexCall, OwnersStep
<1>3. CASE EventCall
  <2>1. EventCall => UNCHANGED mutexes
    BY DEF EventCall, CreateEvent, OpenEventNamed, OpenEvent, OpenEventSlot, CloseEvent,
           ResetEvent, PostEvent, WaitEvent, BadHandle, Refuse
  <2> QED
    BY <1>0, <1>3, <2>1
<1>4. CASE Host
  <2>1. Host => UNCHANGED mutexes
    BY DEF Host, Schedule, ScheduleFails, DeadlinePasses
  <2> QED
    BY <1>0, <1>4, <2>1
<1>5. CASE UNCHANGED vars
  BY <1>0, <1>5 DEF vars
<1> QED
  BY <1>1, <1>2, <1>3, <1>4, <1>5 DEF Next, Ended

-----------------------------------------------------------------------------
(***************************************************************************)
(* Steps of the service, for mutex i                                       *)
(***************************************************************************)

\* What mutex i shows does not change.
LEMMA ShowsSame ==
  ASSUME NEW i \in MutexSlots,
         mutexes'[i].owner = mutexes[i].owner, mutexes'[i].count = mutexes[i].count,
         mutexes'[i].abandoned = mutexes[i].abandoned, WaitingTids(i)' = WaitingTids(i)
  PROVE  UNCHANGED Service(i)!svcVars
BY DEF Service!svcVars

\* A mutex is made.
LEMMA ShowsCreate ==
  ASSUME NEW i \in MutexSlots, mutexes[i].owner = 0, Made(i),
         WaitingTids(i) = <<>>, WaitingTids(i)' = <<>>
  PROVE  Service(i)!Next
BY DEF Service!Next, Service!Create, Made

\* It is taken.
LEMMA ShowsTake ==
  ASSUME NEW i \in MutexSlots, mutexes[i].owner = 0,
         mutexes'[i].owner \in 1..MaxTid, mutexes'[i].count = 1,
         mutexes'[i].abandoned = FALSE, WaitingTids(i)' = WaitingTids(i)
  PROVE  Service(i)!Next
BY DEF Service!Next, Service!Take

\* It is taken again.
LEMMA ShowsTakeAgain ==
  ASSUME NEW i \in MutexSlots, mutexes[i].owner # 0, mutexes[i].count < MaxCount,
         mutexes'[i].count = mutexes[i].count + 1, mutexes'[i].owner = mutexes[i].owner,
         mutexes'[i].abandoned = mutexes[i].abandoned, WaitingTids(i)' = WaitingTids(i)
  PROVE  Service(i)!Next
BY DEF Service!Next, Service!TakeAgain

\* Somebody asks for it.
LEMMA ShowsAsk ==
  ASSUME NEW i \in MutexSlots, NEW t \in 1..MaxTid, mutexes[i].owner \notin {0, t},
         \A k \in 1..Len(WaitingTids(i)) : WaitingTids(i)[k] # t,
         mutexes'[i] = mutexes[i], WaitingTids(i)' = Append(WaitingTids(i), t)
  PROVE  Service(i)!Next
<1>1. Service(i)!Ask(t)
  BY DEF Service!Ask
<1> QED
  BY <1>1 DEF Service!Next

\* Somebody gives up.
LEMMA ShowsGiveUp ==
  ASSUME NEW i \in MutexSlots, NEW p \in 1..Len(WaitingTids(i)), mutexes'[i] = mutexes[i],
         WaitingTids(i)' = SubSeq(WaitingTids(i), 1, p - 1)
                              \o SubSeq(WaitingTids(i), p + 1, Len(WaitingTids(i)))
  PROVE  Service(i)!Next
<1>1. Service(i)!GiveUp(p)
  BY DEF Service!GiveUp
<1> QED
  BY <1>1 DEF Service!Next

\* It is released, once or for the last time, and its owner ends.
LEMMA ShowsRelease ==
  ASSUME NEW i \in MutexSlots
  PROVE  /\ /\ mutexes[i].count > 1 /\ mutexes'[i].count = mutexes[i].count - 1
            /\ mutexes'[i].owner = mutexes[i].owner
            /\ mutexes'[i].abandoned = mutexes[i].abandoned
            /\ WaitingTids(i)' = WaitingTids(i)
            => Service(i)!Next
         /\ mutexes[i].count = 1 /\ Service(i)!PassOn(FALSE) => Service(i)!Next
         /\ mutexes[i].owner # 0 /\ Service(i)!PassOn(TRUE) => Service(i)!Next
BY DEF Service!Next, Service!Release, Service!OwnerEnds

-----------------------------------------------------------------------------
(***************************************************************************)
(* The list of those that wait for mutex i                                 *)
(***************************************************************************)

Queuing(i) == Waiters(threads, "WAIT_MUTEX", MutexHandle(i))

\* They wait in an order.
LEMMA QueuingOrdered ==
  ASSUME WInv, NEW i \in MutexSlots
  PROVE  /\ Queuing(i) \in SUBSET Slots
         /\ Ordered(threads, Queuing(i))
         /\ WaitingTids(i) = Line(threads, Queuing(i))
<1>1. Queuing(i) \in SUBSET Slots
  BY DEF Queuing, Waiters
<1>2. IsFiniteSet(Slots)
  <2>1. NThreads - 1 \in Int /\ 0 \in Int
    BY SyncAssumption
  <2> QED
    BY <2>1, FS_Interval DEF Slots
<1>3. IsFiniteSet(Queuing(i))
  BY <1>1, <1>2, FS_Subset
<1>4. threads \in [Slots -> ThreadType] /\ Orders(threads, waitSerial)
  BY DEF WInv, TypeOK, Sound
<1>5. \A s \in Queuing(i) : threads[s].order \in Nat /\ threads[s].tid \in Nat
                            /\ threads[s].state = "WAIT_MUTEX"
  BY <1>4 DEF ThreadType, Queuing, Waiters, Waits
<1>6. Ordered(threads, Queuing(i))
  BY <1>1, <1>3, <1>4, <1>5 DEF Ordered, Orders
<1>7. WaitingTids(i) = Line(threads, Queuing(i))
  BY DEF WaitingTids, Line, At, Rank, Queuing
<1> QED
  BY <1>1, <1>6, <1>7

\* The list after a step that keeps the handle.
LEMMA NextList ==
  ASSUME NEW i \in MutexSlots, mutexes'[i].generation = mutexes[i].generation
  PROVE  /\ MutexHandle(i)' = MutexHandle(i)
         /\ Queuing(i)' = Waiters(threads', "WAIT_MUTEX", MutexHandle(i))
         /\ WaitingTids(i)' = Line(threads', Queuing(i)')
<1>1. MutexHandle(i)' = MutexHandle(i)
  BY DEF MutexHandle
<1>2. Queuing(i)' = Waiters(threads', "WAIT_MUTEX", MutexHandle(i))
  BY <1>1 DEF Queuing, Waiters
<1>3. WaitingTids(i)' = Line(threads', Queuing(i)')
  BY DEF WaitingTids, Line, At, Rank, Queuing, Waiters
<1> QED
  BY <1>1, <1>2, <1>3

\* The same wait, in the same order.
LEMMA ListKept ==
  ASSUME WInv, NEW i \in MutexSlots, mutexes'[i].generation = mutexes[i].generation,
         \A s \in Queuing(i) : threads'[s] = threads[s],
         \A s \in Slots : Waits(threads'[s], "WAIT_MUTEX", MutexHandle(i)) => s \in Queuing(i)
  PROVE  WaitingTids(i)' = WaitingTids(i)
<1>1. Queuing(i)' = Queuing(i)
  <2>1. \A s \in Queuing(i) : s \in Slots /\ Waits(threads'[s], "WAIT_MUTEX", MutexHandle(i))
    BY DEF Queuing, Waiters
  <2> QED
    BY <2>1, NextList DEF Waiters
<1>2. Alike(threads, threads', Queuing(i))
  BY DEF Alike
<1>3. Line(threads', Queuing(i)) = Line(threads, Queuing(i))
  BY <1>2, QueuingOrdered, LineAlike
<1> QED
  BY <1>1, <1>3, QueuingOrdered, NextList

\* Nobody waits for a mutex that does not exist.
LEMMA NobodyWaits ==
  ASSUME WInv, NEW i \in MutexSlots, ~ mutexes[i].used, NEW s \in Slots, NEW g,
         threads[s].state = "WAIT_MUTEX"
  PROVE  threads[s].on # Handle("mutex", i, g)
<1>1. PICK j \in MutexSlots :
         threads[s].on = Handle("mutex", j, mutexes[j].generation) /\ mutexes[j].used
  BY DEF WInv, Sound, Waiting, OnMutexOf
<1>2. j # i
  BY <1>1
<1> QED
  BY <1>1, <1>2 DEF Handle

\* The list is empty exactly when nobody waits.
LEMMA ListEmpty ==
  ASSUME WInv, NEW i \in MutexSlots
  PROVE  Queuing(i) = {} <=> WaitingTids(i) = <<>>
BY QueuingOrdered, LineEmpty

-----------------------------------------------------------------------------
(***************************************************************************)
(* The steps                                                               *)
(***************************************************************************)

\* What mutex i shows is a step of the service, or none.
Serves(i) == UNCHANGED Service(i)!svcVars \/ Service(i)!Next

\* Where nobody starts or stops waiting the list stays.
LEMMA SteadyList ==
  ASSUME WInv, Steady, NEW i \in MutexSlots, mutexes'[i].generation = mutexes[i].generation
  PROVE  WaitingTids(i)' = WaitingTids(i)
<1>1. \A s \in Queuing(i) : threads'[s] = threads[s]
  BY DEF Steady, Queuing, Waiters, Waits
<1>2. \A s \in Slots : Waits(threads'[s], "WAIT_MUTEX", MutexHandle(i)) => s \in Queuing(i)
  BY DEF Steady, Queuing, Waiters, Waits
<1> QED
  BY <1>1, <1>2, ListKept

\* Mutexes that stay, or are made, while nobody starts or stops waiting.
LEMMA SteadyServes ==
  ASSUME MInv, Steady, NEW i \in MutexSlots, Lasting(i) \/ Made(i)
  PROVE  Serves(i)
<1>0. WInv
  BY DEF MInv
<1>1. CASE Lasting(i)
  <2>1. WaitingTids(i)' = WaitingTids(i)
    BY <1>0, <1>1, SteadyList DEF Lasting
  <2> QED
    BY <1>1, <2>1, ShowsSame DEF Serves, Lasting
<1>2. CASE Made(i)
  <2>1. ~ mutexes[i].used /\ mutexes[i].owner = 0
    BY <1>2 DEF Made, MInv, Unowned
  <2>2. Queuing(i) = {}
    BY <1>0, <2>1, NobodyWaits DEF Queuing, Waiters, Waits, MutexHandle
  <2>3. Queuing(i)' = {}
    <3>1. \A s \in Slots : ~ (threads'[s].state = "WAIT_MUTEX"
                              /\ threads'[s].on = Handle("mutex", i, mutexes'[i].generation))
      BY <1>0, <2>1, NobodyWaits DEF Steady
    <3> QED
      BY <3>1 DEF Queuing, Waiters, Waits, MutexHandle
  <2>4. WaitingTids(i) = <<>>
    BY <1>0, <2>2, ListEmpty
  <2>5. WaitingTids(i)' = <<>>
    <3>1. WaitingTids(i)' = Line(threads', Queuing(i)')
      BY DEF WaitingTids, Line, At, Rank, Queuing, Waiters
    <3>2. Cardinality(Queuing(i)') = 0
      BY <2>3, FS_EmptySet
    <3> QED
      BY <3>1, <3>2 DEF Line
  <2> QED
    BY <1>2, <2>1, <2>4, <2>5, ShowsCreate DEF Serves
<1> QED
  BY <1>1, <1>2

\* A deadline takes one thread from the list it is in.
LEMMA DeadlineServes ==
  ASSUME MInv, NEW x \in Slots, DeadlinePasses(x), NEW i \in MutexSlots
  PROVE  Serves(i)
<1>0. WInv /\ threads \in [Slots -> ThreadType] /\ mutexes' = mutexes
  BY DEF MInv, WInv, TypeOK, DeadlinePasses
<1>1. PICK code \in Codes : threads' = [threads EXCEPT ![x] = Ready(threads[x], code)]
  BY DEF DeadlinePasses, Codes
<1>2. LET u == Ready(threads[x], code) IN u.state = "RUNNABLE"
  BY <1>0, ReadyFields
<1>3. threads'[x].state = "RUNNABLE" /\ \A r \in Slots \ {x} : threads'[r] = threads[r]
  BY <1>0, <1>1, <1>2
<1>4. CASE x \in Queuing(i)
  <2>1. Queuing(i)' = Queuing(i) \ {x}
    <3>1. Queuing(i)' = Waiters(threads', "WAIT_MUTEX", MutexHandle(i))
      BY <1>0, NextList
    <3>2. \A s \in Slots : Waits(threads'[s], "WAIT_MUTEX", MutexHandle(i))
                           <=> s # x /\ Waits(threads[s], "WAIT_MUTEX", MutexHandle(i))
      BY <1>3 DEF Waits
    <3> QED
      BY <3>1, <3>2 DEF Queuing, Waiters
  <2>2. Alike(threads, threads', Queuing(i) \ {x})
    BY <1>0, <1>3, QueuingOrdered DEF Alike
  <2>3. WaitingTids(i)' = Line(threads', Queuing(i) \ {x})
    BY <1>0, <2>1, NextList
  <2>4. PICK p \in 1..Len(WaitingTids(i)) :
           WaitingTids(i)' = SubSeq(WaitingTids(i), 1, p - 1)
                                \o SubSeq(WaitingTids(i), p + 1, Len(WaitingTids(i)))
    <3>1. Ordered(threads, Queuing(i)) /\ WaitingTids(i) = Line(threads, Queuing(i))
      BY <1>0, QueuingOrdered
    <3>2. Without(Line(threads, Queuing(i)), Line(threads', Queuing(i) \ {x}))
      BY <1>4, <2>2, <3>1, LineGone
    <3> QED
      BY <2>3, <3>1, <3>2 DEF Without
  <2> QED
    BY <1>0, <2>4, ShowsGiveUp DEF Serves
<1>5. CASE x \notin Queuing(i)
  <2>1. \A s \in Queuing(i) : threads'[s] = threads[s]
    BY <1>0, <1>3, <1>5, QueuingOrdered
  <2>2. \A s \in Slots : Waits(threads'[s], "WAIT_MUTEX", MutexHandle(i)) => s \in Queuing(i)
    BY <1>3 DEF Waits, Queuing, Waiters
  <2>3. WaitingTids(i)' = WaitingTids(i)
    BY <1>0, <2>1, <2>2, ListKept
  <2> QED
    BY <1>0, <2>3, ShowsSame DEF Serves
<1> QED
  BY <1>4, <1>5

\* Who asks comes last in the list of that mutex.
LEMMA AskServes ==
  ASSUME MInv, NEW h \in MutexHandles, NEW timeout \in Timeouts, Asks(h, timeout),
         NEW i \in MutexSlots
  PROVE  Serves(i)
<1>0. WInv /\ Guest /\ IsMutex(h) /\ mutexes' = mutexes
  BY DEF MInv, Asks, RequestMutex, OnMutex
<1>1. PICK j \in MutexSlots : j = h.slot /\ mutexes[j].used /\ h = MutexHandle(j)
  BY <1>0, MutexOf
<1>2. /\ current \in Slots /\ threads[current].state = "RUNNING"
      /\ threads'[current] = Parked(Me, "WAIT_MUTEX", h, timeout, waitSerial + 1)
      /\ \A s \in Slots \ {current} : threads'[s] = threads[s]
  BY <1>0, AskParks
<1>3. /\ threads'[current].state = "WAIT_MUTEX" /\ threads'[current].on = h
      /\ threads'[current].order = waitSerial + 1 /\ threads'[current].tid = Me.tid
  BY <1>0, <1>2, MeRuns DEF Parked, ThreadType
<1>4. Me.tid \in 1..MaxTid /\ waitSerial \in Nat
  BY <1>0, MyTid DEF WInv, TypeOK
<1>5. Queuing(i) \in SUBSET (Slots \ {current})
  BY <1>2 DEF Queuing, Waiters, Waits
<1>6. \A s \in Queuing(i) : threads'[s] = threads[s]
  BY <1>2, <1>5
<1>7. CASE i # j
  <2>1. h # MutexHandle(i)
    BY <1>1, <1>7 DEF MutexHandle, Handle
  <2>2. \A s \in Slots : Waits(threads'[s], "WAIT_MUTEX", MutexHandle(i)) => s \in Queuing(i)
    BY <1>2, <1>3, <2>1 DEF Waits, Queuing, Waiters
  <2>3. WaitingTids(i)' = WaitingTids(i)
    BY <1>0, <1>6, <2>2, ListKept
  <2> QED
    BY <1>0, <2>3, ShowsSame DEF Serves
<1>8. CASE i = j
  <2>1. Queuing(i)' = Queuing(i) \cup {current}
    <3>1. Queuing(i)' = Waiters(threads', "WAIT_MUTEX", h)
      BY <1>0, <1>1, <1>8, NextList
    <3>2. \A s \in Slots : Waits(threads'[s], "WAIT_MUTEX", h)
                           <=> s = current \/ Waits(threads[s], "WAIT_MUTEX", h)
      BY <1>2, <1>3 DEF Waits
    <3> QED
      BY <1>1, <1>2, <1>8, <3>1, <3>2 DEF Queuing, Waiters
  <2>2. \A r \in Queuing(i) : threads[r].order < threads'[current].order
    <3>1. \A r \in Queuing(i) : threads[r].order \in Nat /\ threads[r].order <= waitSerial
      BY <1>0 DEF WInv, TypeOK, ThreadType, Sound, Orders, Queuing, Waiters, Waits
    <3> QED
      BY <1>3, <1>4, <3>1
  <2>3. Alike(threads, threads', Queuing(i))
    BY <1>6 DEF Alike
  <2>4. current \notin Queuing(i) /\ threads'[current].order \in Nat
        /\ threads'[current].tid \in Nat
    BY <1>3, <1>4, <1>5
  <2>5. Line(threads', Queuing(i) \cup {current})
           = Append(Line(threads, Queuing(i)), threads'[current].tid)
    <3> HIDE DEF Queuing
    <3> QED
      BY <1>0, <2>2, <2>3, <2>4, QueuingOrdered, LineJoined
  <2>6. WaitingTids(i)' = Append(WaitingTids(i), Me.tid)
    BY <1>0, <1>3, <2>1, <2>5, QueuingOrdered, NextList
  <2>7. \A k \in 1..Len(WaitingTids(i)) : WaitingTids(i)[k] # Me.tid
    <3>1. \A s \in Queuing(i) : threads[s].tid # Me.tid
      BY <1>0, <1>2, <1>5 DEF WInv, Sound, Tids, Me, Queuing, Waiters, Waits
    <3>2. \A k \in 1..Len(WaitingTids(i)) :
             \E s \in Queuing(i) : WaitingTids(i)[k] = threads[s].tid
      BY <1>0, QueuingOrdered, LineIs
    <3> QED
      BY <3>1, <3>2
  <2>8. mutexes[i].owner \notin {0, Me.tid}
    BY <1>1, <1>8 DEF Asks
  <2> QED
    BY <1>0, <1>4, <2>6, <2>7, <2>8, ShowsAsk DEF Serves
<1> QED
  BY <1>7, <1>8

\* A mutex that nobody owns any more goes to the first in its list.
LEMMA HandingServes ==
  ASSUME MInv, NEW i \in MutexSlots, NEW m \in MutexType,
         m.owner = 0, m.count = 0, m.used, m.generation = mutexes[i].generation,
         mutexes'[i] = HandedMutex(threads, m, MutexHandle(i)),
         NEW f, f = FirstWaiter(threads, "WAIT_MUTEX", MutexHandle(i)),
         \A s \in Queuing(i) \ {f} : threads'[s] = threads[s],
         \A s \in Slots : Waits(threads'[s], "WAIT_MUTEX", MutexHandle(i)) =>
                             s \in Queuing(i) \ {f}
  PROVE  Service(i)!PassOn(m.abandoned)
<1>0. WInv /\ threads \in [Slots -> ThreadType]
  BY DEF MInv, WInv, TypeOK
<1>1. /\ mutexes'[i].generation = mutexes[i].generation
      /\ Queuing(i) = {} => mutexes'[i] = m
      /\ Queuing(i) # {} => mutexes'[i] = [m EXCEPT !.owner = threads[f].tid,
                                                    !.count = 1, !.abandoned = FALSE]
  BY DEF HandedMutex, Queuing, MutexType
<1>2. Queuing(i)' = Queuing(i) \ {f}
  <2>1. Queuing(i)' = Waiters(threads', "WAIT_MUTEX", MutexHandle(i))
    BY <1>1, NextList
  <2>2. \A s \in Queuing(i) \ {f} : s \in Slots /\ Waits(threads'[s], "WAIT_MUTEX", MutexHandle(i))
    BY DEF Queuing, Waiters
  <2> QED
    BY <2>1, <2>2 DEF Waiters
<1>3. WaitingTids(i)' = Line(threads', Queuing(i) \ {f})
  BY <1>1, <1>2, NextList
<1>4. Alike(threads, threads', Queuing(i) \ {f})
  BY DEF Alike
<1>5. CASE Queuing(i) = {}
  <2>1. WaitingTids(i) = <<>>
    BY <1>0, <1>5, ListEmpty
  <2>2. WaitingTids(i)' = WaitingTids(i)
    <3>1. \A s \in Queuing(i) : threads'[s] = threads[s]
      BY <1>5
    <3>2. \A s \in Slots : Waits(threads'[s], "WAIT_MUTEX", MutexHandle(i)) => s \in Queuing(i)
      OBVIOUS
    <3> QED
      BY <1>0, <1>1, <3>1, <3>2, ListKept
  <2>3. mutexes'[i].owner = 0 /\ mutexes'[i].count = 0 /\ mutexes'[i].abandoned = m.abandoned
    BY <1>1, <1>5
  <2> QED
    BY <2>1, <2>2, <2>3 DEF Service!PassOn
<1>6. CASE Queuing(i) # {}
  <2>1. f \in Queuing(i) /\ \A r \in Queuing(i) : threads[f].order <= threads[r].order
    BY <1>0, <1>6, FirstWaiterIs DEF Queuing, Waiters, Waits
  <2>2. /\ mutexes'[i].owner = threads[f].tid /\ mutexes'[i].count = 1
        /\ mutexes'[i].abandoned = FALSE
    <3>1. threads[f].tid \in Nat
      BY <1>0, <2>1 DEF ThreadType, Queuing, Waiters
    <3>2. mutexes'[i] = [m EXCEPT !.owner = threads[f].tid, !.count = 1, !.abandoned = FALSE]
      BY <1>1, <1>6
    <3> QED
      <4>1. LET n == [m EXCEPT !.owner = threads[f].tid, !.count = 1, !.abandoned = FALSE]
            IN  n.owner = threads[f].tid /\ n.count = 1 /\ ~ n.abandoned
        BY <3>1, OwnedFields
      <4>2. mutexes'[i].owner = threads[f].tid /\ mutexes'[i].count = 1
        BY <3>2, <4>1
      <4>3. mutexes'[i].abandoned = FALSE
        BY <3>2 DEF MutexType
      <4> QED
        BY <4>2, <4>3
  <2>3. WithoutHead(Line(threads, Queuing(i)), threads[f].tid,
                    Line(threads', Queuing(i) \ {f}))
    BY <1>0, <1>4, <2>1, QueuingOrdered, LineServed
  <2>4. /\ WaitingTids(i) # <<>> /\ Head(WaitingTids(i)) = threads[f].tid
        /\ WaitingTids(i)' = Tail(WaitingTids(i))
    BY <1>0, <1>3, <2>3, QueuingOrdered DEF WithoutHead
  <2> QED
    BY <2>2, <2>4 DEF Service!PassOn
<1> QED
  BY <1>5, <1>6

\* A request that is answered.
LEMMA RequestServes ==
  ASSUME MInv, NEW h \in MutexHandles, NEW timeout \in Timeouts, RequestMutex(h, timeout),
         NEW i \in MutexSlots
  PROVE  Serves(i)
<1>0. WInv /\ Guest /\ IsMutex(h) /\ mutexes \in [MutexSlots -> MutexType]
  BY DEF MInv, WInv, TypeOK, RequestMutex, OnMutex
<1>1. PICK j \in MutexSlots : j = h.slot /\ mutexes[j].used /\ h = MutexHandle(j)
  BY <1>0, MutexOf
<1>2. CASE Asks(h, timeout)
  BY <1>2, AskServes
<1>3. CASE Steady
  <2>1. CASE mutexes'[i] = mutexes[i]
    BY <1>3, <2>1, Untouched, SteadyServes
  <2>2. CASE /\ i = j /\ mutexes[j].owner = Me.tid /\ mutexes[j].count # MaxCount
             /\ mutexes' = [mutexes EXCEPT ![j].count = @ + 1]
    <3>1. /\ mutexes'[i].count = mutexes[i].count + 1
          /\ mutexes'[i].owner = mutexes[i].owner
          /\ mutexes'[i].abandoned = mutexes[i].abandoned
          /\ mutexes'[i].generation = mutexes[i].generation
      BY <1>0, <2>2 DEF MutexType
    <3>2. mutexes[i].owner # 0 /\ mutexes[i].count < MaxCount
      <4>1. Me.tid # 0 /\ mutexes[i].count \in 0..MaxCount /\ MaxCount \in Nat
        BY <1>0, MeRuns, SyncAssumption DEF MutexType
      <4> QED
        BY <2>2, <4>1
    <3>3. WaitingTids(i)' = WaitingTids(i)
      BY <1>0, <1>3, <3>1, SteadyList
    <3> QED
      BY <3>1, <3>2, <3>3, ShowsTakeAgain DEF Serves
  <2>3. CASE /\ i = j /\ mutexes[j].owner = 0
             /\ mutexes' = [mutexes EXCEPT ![j].owner = Me.tid, ![j].count = 1,
                                           ![j].abandoned = FALSE]
    <3>1. /\ mutexes'[i].owner = Me.tid /\ mutexes'[i].count = 1
          /\ mutexes'[i].abandoned = FALSE
          /\ mutexes'[i].generation = mutexes[i].generation
      BY <1>0, <2>3 DEF MutexType
    <3>2. Me.tid \in 1..MaxTid
      BY <1>0, MyTid
    <3>3. WaitingTids(i)' = WaitingTids(i)
      BY <1>0, <1>3, <3>1, SteadyList
    <3> QED
      BY <2>3, <3>1, <3>2, <3>3, ShowsTake DEF Serves
  <2> QED
    <3>1. \/ mutexes' = mutexes
          \/ /\ mutexes[j].owner = Me.tid /\ mutexes[j].count # MaxCount
             /\ mutexes' = [mutexes EXCEPT ![j].count = @ + 1]
          \/ /\ mutexes[j].owner = 0
             /\ mutexes' = [mutexes EXCEPT ![j].owner = Me.tid, ![j].count = 1,
                                           ![j].abandoned = FALSE]
      BY <1>1 DEF RequestMutex, Refuse
    <3>2. i # j => mutexes'[i] = mutexes[i]
      BY <1>0, <3>1
    <3> QED
      BY <2>1, <2>2, <2>3, <3>1, <3>2
<1> QED
  BY <1>0, <1>2, <1>3, RequestSteady

\* A release of mutex j: its first waiter leaves the list, if it was the last release.
LEMMA ReleaseServes ==
  ASSUME MInv, NEW h \in MutexHandles, ReleaseMutex(h), NEW i \in MutexSlots
  PROVE  Serves(i)
<1>0. /\ WInv /\ Guest /\ IsMutex(h) /\ mutexes \in [MutexSlots -> MutexType]
      /\ threads \in [Slots -> ThreadType]
  BY DEF MInv, WInv, TypeOK, ReleaseMutex, OnMutex
<1>1. PICK j \in MutexSlots : j = h.slot /\ mutexes[j].used /\ h = MutexHandle(j)
  BY <1>0, MutexOf
<1>2. CASE Guest /\ Answer("ERROR") /\ UNCHANGED mutexes
  BY <1>0, <1>2, AnswerSteady, Untouched, SteadyServes
<1>3. CASE /\ mutexes[j].count > 1 /\ Answer("NO_ERROR")
           /\ mutexes' = [mutexes EXCEPT ![j].count = @ - 1]
  <2>1. Steady
    BY <1>0, <1>3, AnswerSteady
  <2>2. CASE i # j
    <3>1. mutexes'[i] = mutexes[i]
      BY <1>0, <1>3, <2>2
    <3> QED
      BY <2>1, <3>1, Untouched, SteadyServes
  <2>3. CASE i = j
    <3>1. /\ mutexes'[i].count = mutexes[i].count - 1
          /\ mutexes'[i].owner = mutexes[i].owner
          /\ mutexes'[i].abandoned = mutexes[i].abandoned
          /\ mutexes'[i].generation = mutexes[i].generation
      BY <1>0, <1>3, <2>3 DEF MutexType
    <3>2. WaitingTids(i)' = WaitingTids(i)
      BY <1>0, <2>1, <3>1, SteadyList
    <3> QED
      BY <1>3, <2>3, <3>1, <3>2, ShowsRelease DEF Serves
  <2> QED
    BY <2>2, <2>3
<1>4. ASSUME mutexes[j].count = 1,
             mutexes' = [mutexes EXCEPT ![j] = HandedMutex(threads,
                            [mutexes[j] EXCEPT !.owner = 0, !.count = 0], h)],
             threads' = [HandedThreads(threads,
                            [mutexes[j] EXCEPT !.owner = 0, !.count = 0], h)
                         EXCEPT ![current].rc = "NO_ERROR"]
      PROVE  Serves(i)
  <2> DEFINE m == [mutexes[j] EXCEPT !.owner = 0, !.count = 0]
             f == FirstWaiter(threads, "WAIT_MUTEX", MutexHandle(j))
  <2>1. /\ m \in MutexType /\ m.owner = 0 /\ m.count = 0 /\ m.used
        /\ m.generation = mutexes[j].generation
        /\ m.abandoned = mutexes[j].abandoned
    <3>1. 0 \in 0..MaxCount /\ mutexes[j] \in MutexType
      BY <1>0, SyncAssumption
    <3> QED
      BY <1>1, <3>1 DEF MutexType
  <2>2. mutexes'[j] = HandedMutex(threads, m, MutexHandle(j))
        /\ \A k \in MutexSlots \ {j} : mutexes'[k] = mutexes[k]
    BY <1>0, <1>1, <1>4
  <2>3. threads' = [HandedThreads(threads, m, MutexHandle(j)) EXCEPT ![current].rc = "NO_ERROR"]
    BY <1>1, <1>4
  <2> HIDE DEF m
  <2>4. current \in Slots /\ threads[current].state = "RUNNING"
    BY <1>0 DEF WInv, TypeOK, OneRuns
  <2>5. Queuing(j) # {} => f \in Queuing(j)
    BY <1>0, FirstWaiterIs DEF Queuing, Waiters, Waits
  <2>6. \A s \in Slots : threads[s].state = "WAIT_MUTEX" /\ s \notin Queuing(j) \cap {f} =>
           threads'[s] = threads[s]
    <3> SUFFICES ASSUME NEW s \in Slots, threads[s].state = "WAIT_MUTEX",
                        s \notin Queuing(j) \cap {f}
                 PROVE  threads'[s] = threads[s]
      OBVIOUS
    <3>1. s # current
      BY <2>4
    <3>2. CASE Queuing(j) = {}
      <4>1. HandedThreads(threads, m, MutexHandle(j)) = threads
        BY <3>2 DEF HandedThreads, Queuing
      <4> QED
        BY <1>0, <2>3, <3>1, <4>1
    <3>3. CASE Queuing(j) # {}
      <4>1. f \in Slots /\ s # f
        BY <2>5, <3>3 DEF Queuing, Waiters
      <4>2. PICK u : HandedThreads(threads, m, MutexHandle(j)) = [threads EXCEPT ![f] = u]
        BY <3>3 DEF HandedThreads, Queuing
      <4> HIDE DEF f
      <4> QED
        BY <1>0, <2>3, <2>4, <3>1, <4>1, <4>2
    <3> QED
      BY <3>2, <3>3
  <2>7. \A s \in Slots : threads'[s].state = "WAIT_MUTEX" =>
           threads[s].state = "WAIT_MUTEX" /\ s \notin Queuing(j) \cap {f}
    <3>1. \A s \in Slots : threads'[s].state = "WAIT_MUTEX" =>
             /\ threads[s].state = "WAIT_MUTEX"
             /\ Waits(threads[s], "WAIT_MUTEX", MutexHandle(j)) => s # f
      BY <1>0, <2>3, WokenHeir
    <3> QED
      BY <3>1 DEF Queuing, Waiters
  <2>8. CASE i = j
    <3>1. \A s \in Queuing(i) \ {f} : threads'[s] = threads[s]
      BY <2>6, <2>8 DEF Queuing, Waiters, Waits
    <3>2. \A s \in Slots : Waits(threads'[s], "WAIT_MUTEX", MutexHandle(i)) =>
             s \in Queuing(i) \ {f}
      <4> SUFFICES ASSUME NEW s \in Slots, Waits(threads'[s], "WAIT_MUTEX", MutexHandle(i))
                   PROVE  s \in Queuing(i) \ {f}
        OBVIOUS
      <4>1. threads'[s].state = "WAIT_MUTEX" /\ threads'[s].on = MutexHandle(i)
        BY DEF Waits
      <4>2. threads[s].state = "WAIT_MUTEX" /\ s \notin Queuing(j) \cap {f}
        BY <2>7, <4>1
      <4>3. threads'[s] = threads[s]
        BY <2>6, <4>2
      <4>4. s \in Queuing(i)
        BY <4>1, <4>2, <4>3 DEF Queuing, Waiters, Waits
      <4> QED
        BY <2>8, <4>2, <4>4
    <3>3. Service(i)!PassOn(m.abandoned)
      BY <2>1, <2>2, <2>8, <3>1, <3>2, HandingServes
    <3>4. mutexes[i].abandoned = FALSE
      <4>1. /\ mutexes[i].used /\ mutexes[i].abandoned \in BOOLEAN
            /\ mutexes[i].owner = 0 <=> mutexes[i].count = 0
            /\ mutexes[i].abandoned => mutexes[i].owner = 0
        BY <1>0, <1>1, <2>8 DEF WInv, Sound, Owners, OwnerOK, MutexType
      <4> QED
        BY <1>4, <2>8, <4>1
    <3>5. Service(i)!PassOn(FALSE)
      BY <2>1, <2>8, <3>3, <3>4
    <3> QED
      BY <1>4, <2>8, <3>5, ShowsRelease DEF Serves
  <2>9. CASE i # j
    <3>1. mutexes'[i] = mutexes[i] /\ MutexHandle(i) # MutexHandle(j)
      BY <2>2, <2>9 DEF MutexHandle, Handle
    <3>2. \A s \in Queuing(i) : s \notin Queuing(j)
      BY <3>1 DEF Queuing, Waiters, Waits
    <3>3. \A s \in Queuing(i) : threads'[s] = threads[s]
      BY <2>6, <3>2 DEF Queuing, Waiters, Waits
    <3>4. \A s \in Slots : Waits(threads'[s], "WAIT_MUTEX", MutexHandle(i)) => s \in Queuing(i)
      BY <2>6, <2>7 DEF Queuing, Waiters, Waits
    <3>5. WaitingTids(i)' = WaitingTids(i)
      BY <1>0, <3>1, <3>3, <3>4, ListKept
    <3> QED
      BY <3>1, <3>5, ShowsSame DEF Serves
  <2> QED
    BY <2>8, <2>9
<1> QED
  BY <1>0, <1>1, <1>2, <1>3, <1>4 DEF ReleaseMutex, Refuse

\* The end of a thread: the first waiters of its mutexes leave their lists.
LEMMA ExitServes ==
  ASSUME MInv, ExitThread, NEW i \in MutexSlots
  PROVE  Serves(i)
<1>0. /\ WInv /\ Guest /\ mutexes \in [MutexSlots -> MutexType]
      /\ threads \in [Slots -> ThreadType]
      /\ current \in Slots /\ threads[current].state = "RUNNING"
      /\ threads' = ThreadsLeft /\ mutexes' = MutexesLeft
  BY DEF MInv, WInv, TypeOK, OneRuns, ExitThread
<1>1. \A s \in Slots : threads[s].state = "WAIT_MUTEX" /\ ~ IsHeir(s) => threads'[s] = threads[s]
  BY <1>0 DEF ThreadsLeft, Awaits
<1>2. \A s \in Slots : threads'[s].state = "WAIT_MUTEX" =>
         threads[s].state = "WAIT_MUTEX" /\ ~ IsHeir(s)
  <2>1. \A s \in Slots \ {current} : threads'[s].state = "WAIT_MUTEX" =>
           threads[s].state = "WAIT_MUTEX" /\ ~ IsHeir(s)
    BY <1>0, OthersLeft DEF Mild
  <2>2. threads'[current].state # "WAIT_MUTEX"
    BY <1>0, OthersLeft DEF Gone
  <2> QED
    BY <2>1, <2>2
<1>3. \A s \in Slots : Waits(threads'[s], "WAIT_MUTEX", MutexHandle(i)) =>
         s \in Queuing(i) /\ ~ IsHeir(s)
  BY <1>1, <1>2 DEF Queuing, Waiters, Waits
<1> DEFINE f == FirstWaiter(threads, "WAIT_MUTEX", MutexHandle(i))
\* Whoever waits for mutex i is an heir only as the first, and of mutex i.
<1>4. \A s \in Queuing(i) : IsHeir(s) <=> Orphaned(i) /\ s = f
  <2> SUFFICES ASSUME NEW s \in Queuing(i)
               PROVE  IsHeir(s) <=> Orphaned(i) /\ s = f
    OBVIOUS
  <2>1. s \in Slots /\ threads[s].on = MutexHandle(i)
    BY DEF Queuing, Waiters, Waits
  <2>2. ASSUME NEW j \in MutexSlots, Waiters(threads, "WAIT_MUTEX", MutexHandle(j)) # {},
               s = FirstWaiter(threads, "WAIT_MUTEX", MutexHandle(j))
        PROVE  j = i
    <3>1. threads[s].on = MutexHandle(j)
      BY <1>0, <2>2, FirstWaiterIs
    <3> QED
      BY <2>1, <3>1 DEF MutexHandle, Handle
  <2>3. Waiters(threads, "WAIT_MUTEX", MutexHandle(i)) # {}
    BY DEF Queuing
  <2> QED
    BY <2>2, <2>3 DEF IsHeir
<1>5. CASE Orphaned(i)
  <2> DEFINE m == Orphan(mutexes[i])
  <2>1. /\ m \in MutexType /\ m.owner = 0 /\ m.count = 0 /\ m.used
        /\ m.generation = mutexes[i].generation
    BY <1>0, <1>5, OrphanFields DEF Orphaned
  <2>2. m.abandoned = TRUE
    BY <1>0 DEF Orphan, MutexType
  <2>3. mutexes'[i] = HandedMutex(threads, m, MutexHandle(i))
    BY <1>0, <1>5 DEF MutexesLeft
  <2> HIDE DEF m
  <2>4. \A s \in Queuing(i) \ {f} : threads'[s] = threads[s]
    BY <1>1, <1>4 DEF Queuing, Waiters, Waits
  <2>5. \A s \in Slots : Waits(threads'[s], "WAIT_MUTEX", MutexHandle(i)) =>
           s \in Queuing(i) \ {f}
    BY <1>3, <1>4, <1>5
  <2>6. Service(i)!PassOn(m.abandoned)
    BY <2>1, <2>3, <2>4, <2>5, HandingServes
  <2>7. mutexes[i].owner # 0
    BY <1>0, <1>5, MeRuns DEF Orphaned
  <2>8. Service(i)!PassOn(TRUE)
    BY <2>2, <2>6
  <2> QED
    BY <2>7, <2>8, ShowsRelease DEF Serves
<1>6. CASE ~ Orphaned(i)
  <2>1. mutexes'[i] = mutexes[i]
    BY <1>0, <1>6 DEF MutexesLeft
  <2>2. \A s \in Queuing(i) : threads'[s] = threads[s]
    BY <1>1, <1>4, <1>6 DEF Queuing, Waiters, Waits
  <2>3. WaitingTids(i)' = WaitingTids(i)
    BY <1>0, <1>3, <2>1, <2>2, ListKept
  <2> QED
    BY <2>1, <2>3, ShowsSame DEF Serves
<1> QED
  BY <1>5, <1>6

\* Every step is one of the service for every mutex, or none.
LEMMA NextServes ==
  ASSUME MInv, [Next]_vars, NEW i \in MutexSlots
  PROVE  Serves(i)
<1>1. CASE OwnersStep
  BY <1>1, ExitServes, RequestServes, ReleaseServes DEF OwnersStep
<1>2. CASE \A j \in MutexSlots : Lasting(j) \/ Made(j)
  <2>1. \/ Steady
        \/ ExitThread
        \/ \E h \in MutexHandles : ReleaseMutex(h)
        \/ \E s \in Slots : DeadlinePasses(s)
        \/ \E h \in MutexHandles, timeout \in Timeouts : Asks(h, timeout)
    BY NextSteady DEF MInv
  <2> QED
    BY <1>2, <2>1, SteadyServes, ExitServes, ReleaseServes, DeadlineServes, AskServes
<1> QED
  BY <1>1, <1>2, MutexesLast

-----------------------------------------------------------------------------
(***************************************************************************)
(* The specification implements the service                                *)
(***************************************************************************)

\* Owners change only of mutexes that exist, and stay.
LEMMA OwnersStepUnowned ==
  ASSUME MInv, OwnersStep
  PROVE  Unowned'
<1>0. WInv /\ mutexes \in [MutexSlots -> MutexType]
  BY DEF MInv, WInv, TypeOK
<1>1. SUFFICES ASSUME NEW i \in MutexSlots
               PROVE  ~ mutexes'[i].used => mutexes'[i].owner = 0
  BY DEF Unowned
<1>2. mutexes'[i] = mutexes[i] => (~ mutexes'[i].used => mutexes'[i].owner = 0)
  BY DEF MInv, Unowned
<1>3. CASE ExitThread
  <2>1. Guest /\ mutexes' = MutexesLeft
    BY <1>3 DEF ExitThread
  <2>2. CASE mutexes[i].used
    BY <1>0, <2>1, <2>2, Left
  <2>3. CASE ~ mutexes[i].used
    BY <1>2, <2>1, <2>3 DEF MutexesLeft, Orphaned
  <2> QED
    BY <2>2, <2>3
<1>4. ASSUME NEW h \in MutexHandles,
             ReleaseMutex(h) \/ \E timeout \in Timeouts : RequestMutex(h, timeout)
      PROVE  ~ mutexes'[i].used => mutexes'[i].owner = 0
  <2>1. PICK j \in MutexSlots : j = h.slot /\ mutexes[j].used /\ h = MutexHandle(j)
    <3>1. Guest /\ IsMutex(h)
      BY <1>4 DEF ReleaseMutex, RequestMutex, OnMutex
    <3> QED
      BY <1>0, <3>1, MutexOf
  <2>2. \/ mutexes' = mutexes
        \/ mutexes' = [mutexes EXCEPT ![j].count = @ + 1]
        \/ mutexes' = [mutexes EXCEPT ![j].count = @ - 1]
        \/ mutexes' = [mutexes EXCEPT ![j].owner = Me.tid, ![j].count = 1,
                                      ![j].abandoned = FALSE]
        \/ mutexes' = [mutexes EXCEPT ![j] = HandedMutex(threads,
                           [mutexes[j] EXCEPT !.owner = 0, !.count = 0], h)]
    BY <1>4, <2>1 DEF ReleaseMutex, RequestMutex, Refuse
  <2>3. CASE i # j
    <3>1. mutexes'[i] = mutexes[i]
      BY <1>0, <2>2, <2>3
    <3> QED
      BY <1>2, <3>1
  <2>4. CASE i = j
    <3> DEFINE m == [mutexes[j] EXCEPT !.owner = 0, !.count = 0]
    <3>1. HandedMutex(threads, m, h).used = mutexes[j].used
      BY <1>0 DEF HandedMutex, MutexType
    <3>2. CASE mutexes' = [mutexes EXCEPT ![j] = HandedMutex(threads, m, h)]
      <4>1. mutexes'[j] = HandedMutex(threads, m, h)
        BY <1>0, <3>2
      <4> QED
        BY <2>1, <2>4, <3>1, <4>1
    <3>3. CASE \/ mutexes' = mutexes
               \/ mutexes' = [mutexes EXCEPT ![j].count = @ + 1]
               \/ mutexes' = [mutexes EXCEPT ![j].count = @ - 1]
               \/ mutexes' = [mutexes EXCEPT ![j].owner = Me.tid, ![j].count = 1,
                                             ![j].abandoned = FALSE]
      <4>1. mutexes'[j].used = mutexes[j].used
        BY <1>0, <3>3 DEF MutexType
      <4> QED
        BY <2>1, <2>4, <4>1
    <3> QED
      BY <2>2, <3>2, <3>3
  <2> QED
    BY <2>3, <2>4
<1> QED
  BY <1>3, <1>4 DEF OwnersStep

\* The invariant holds at first, and every step keeps it.
LEMMA MInvInductive ==
  /\ Init => MInv
  /\ MInv /\ [Next]_vars => MInv'
<1>1. ASSUME Init
      PROVE  MInv
  <2>1. \A i \in MutexSlots : mutexes[i].owner = 0
    BY <1>1 DEF Init, ZeroMutex
  <2> QED
    BY <1>1, <2>1, InitSound DEF MInv, Unowned
<1>2. ASSUME MInv, [Next]_vars
      PROVE  MInv'
  <2>1. WInv'
    BY <1>2, NextPreserves, StutterPreserves DEF MInv
  <2>2. CASE OwnersStep
    BY <1>2, <2>1, <2>2, OwnersStepUnowned DEF MInv
  <2>3. CASE \A i \in MutexSlots : Lasting(i) \/ Made(i)
    BY <2>1, <2>3 DEF MInv, Unowned, Lasting, Made
  <2> QED
    BY <1>2, <2>2, <2>3, MutexesLast
<1> QED
  BY <1>1, <1>2

\* At first nobody owns a mutex, and nobody waits.
LEMMA InitServes ==
  ASSUME Init, NEW i \in MutexSlots
  PROVE  Service(i)!Init
<1>1. WInv
  BY InitSound
<1>2. Queuing(i) = {}
  BY DEF Init, Queuing, Waiters, Waits, ZeroThread
<1>3. WaitingTids(i) = <<>>
  BY <1>1, <1>2, ListEmpty
<1>4. mutexes[i].owner = 0 /\ mutexes[i].count = 0 /\ mutexes[i].abandoned = FALSE
  BY DEF Init, ZeroMutex
<1> QED
  BY <1>3, <1>4 DEF Service!Init

\* Whatever the guests do, every mutex slot behaves as MutexService: one owner at a time,
\* as often as it asks up to the limit; the others in the order they asked; and the next
\* owner told when one ended (dispatch_mutex, mutex_handoff, mutex_owner_exit,
\* wake_expired_waiters).
THEOREM MutexesImplement == Spec => ServiceSpec
<1>1. Init => \A i \in MutexSlots : Service(i)!Init
  BY InitServes
<1>2. MInv /\ [Next]_vars => [ServiceStep]_vars
  BY NextServes DEF ServiceStep, Serves
<1> QED
  BY <1>1, <1>2, MInvInductive, PTL DEF Spec, ServiceSpec
=============================================================================
