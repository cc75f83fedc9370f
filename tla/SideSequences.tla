----------------------------- MODULE SideSequences -----------------------------
(***************************************************************************)
(* Lemmas about the sequences that stand for the kernel's linked lists     *)
(* (what is in a list, and where, after an element is removed, appended or *)
(* inserted), and about what loops over lists compute: least and greatest  *)
(* elements, functions defined by recursion over 0 .. n, and the elements  *)
(* of a finite set in the order of a key.                                  *)
(***************************************************************************)
EXTENDS Integers, Sequences, SequencesExt, SequenceTheorems, FiniteSetTheorems,
        WellFoundedInduction, TLAPS

\* The elements of a sequence without the i-th one.
LEMMA Removed ==
  ASSUME NEW S, NEW q \in Seq(S), NEW i \in 1 .. Len(q)
  PROVE  /\ RemoveAt(q, i) \in Seq(S) /\ Len(RemoveAt(q, i)) = Len(q) - 1
         /\ Len(q) \in Nat \ {0}
         /\ \A j \in 1 .. Len(q) - 1 : RemoveAt(q, i)[j] = IF j < i THEN q[j] ELSE q[j + 1]
<1>1. /\ Len(q) \in Nat /\ i \in Nat /\ 1 <= i /\ i <= Len(q) /\ \A j \in 1 .. Len(q) : q[j] \in S
  OBVIOUS
<1> DEFINE a == SubSeq(q, 1, i - 1)
           b == SubSeq(q, i + 1, Len(q))
<1>2. /\ a \in Seq(S) /\ Len(a) = i - 1 /\ \A j \in 1 .. i - 1 : a[j] = q[j]
  BY <1>1
<1>3. /\ b \in Seq(S) /\ Len(b) = Len(q) - i
      /\ \A j \in 1 .. Len(q) - i : b[j] = q[i + j]
  BY <1>1
<1> HIDE DEF a, b
<1>4. /\ a \o b \in Seq(S) /\ Len(a \o b) = Len(a) + Len(b)
      /\ \A j \in 1 .. Len(a) + Len(b) : (a \o b)[j] = IF j <= Len(a) THEN a[j] ELSE b[j - Len(a)]
  BY <1>2, <1>3, ConcatProperties
<1>5. ASSUME NEW j \in 1 .. Len(q) - 1
      PROVE  (a \o b)[j] = IF j < i THEN q[j] ELSE q[j + 1]
  <2>1. CASE j < i
    BY <2>1, <1>1, <1>2, <1>3, <1>4
  <2>2. CASE ~ (j < i)
    <3>1. j - Len(a) \in 1 .. Len(q) - i /\ i + (j - Len(a)) = j + 1
      BY <2>2, <1>1, <1>2
    <3>2. (a \o b)[j] = b[j - Len(a)]
      BY <2>2, <1>1, <1>2, <1>3, <1>4
    <3>3. QED  BY <2>2, <3>1, <3>2, <1>3
  <2>3. QED  BY <2>1, <2>2
<1>6. RemoveAt(q, i) = a \o b
  BY DEF RemoveAt, a, b
<1>7. Len(a) + Len(b) = Len(q) - 1
  BY <1>1, <1>2, <1>3
<1>8. QED  BY <1>1, <1>4, <1>5, <1>6, <1>7

\* A list without duplicates loses one element.
LEMMA RemovedSet ==
  ASSUME NEW S, NEW q \in Seq(S), NEW i \in 1 .. Len(q),
         \A j, k \in DOMAIN q : j < k => q[j] # q[k]
  PROVE  ToSet(RemoveAt(q, i)) = ToSet(q) \ {q[i]}
<1> DEFINE r == RemoveAt(q, i)
<1>1. /\ r \in Seq(S) /\ Len(r) = Len(q) - 1 /\ Len(q) \in Nat \ {0}
      /\ \A j \in 1 .. Len(q) - 1 : r[j] = IF j < i THEN q[j] ELSE q[j + 1]
  BY Removed
<1> HIDE DEF r
<1>2. DOMAIN r = 1 .. Len(q) - 1 /\ DOMAIN q = 1 .. Len(q) /\ i \in Nat
  BY <1>1
<1>3. \A j, k \in 1 .. Len(q) : j # k => q[j] # q[k]
  BY <1>1, <1>2
<1>4. ASSUME NEW j \in DOMAIN r
      PROVE  r[j] \in ToSet(q) \ {q[i]}
  <2>1. CASE j < i
    BY <2>1, <1>1, <1>2, <1>3 DEF ToSet
  <2>2. CASE ~ (j < i)
    <3>1. j + 1 \in 1 .. Len(q) /\ j + 1 # i /\ r[j] = q[j + 1]
      BY <2>2, <1>1, <1>2
    <3>2. QED  BY <3>1, <1>2, <1>3 DEF ToSet
  <2>3. QED  BY <2>1, <2>2
<1>5. ASSUME NEW k \in DOMAIN q, k # i
      PROVE  q[k] \in ToSet(r)
  <2>1. CASE k < i
    <3>1. k \in DOMAIN r /\ r[k] = q[k]
      BY <2>1, <1>1, <1>2
    <3>2. QED  BY <3>1 DEF ToSet
  <2>2. CASE ~ (k < i)
    <3>1. k - 1 \in DOMAIN r /\ r[k - 1] = q[k]
      BY <2>2, <1>5, <1>1, <1>2
    <3>2. QED  BY <3>1 DEF ToSet
  <2>3. QED  BY <2>1, <2>2
<1>6. ToSet(r) \subseteq ToSet(q) \ {q[i]}
  BY <1>4 DEF ToSet
<1>7. ToSet(q) \ {q[i]} \subseteq ToSet(r)
  BY <1>5 DEF ToSet
<1>8. QED  BY <1>6, <1>7 DEF r

LEMMA AddedSet ==
  ASSUME NEW S, NEW q \in Seq(S), NEW a \in S
  PROVE  /\ Append(q, a) \in Seq(S) /\ Len(Append(q, a)) = Len(q) + 1 /\ Len(q) \in Nat
         /\ \A i \in 1 .. Len(q) : Append(q, a)[i] = q[i]
         /\ Append(q, a)[Len(q) + 1] = a
         /\ ToSet(Append(q, a)) = ToSet(q) \cup {a}
<1>1. /\ Append(q, a) \in Seq(S) /\ Len(Append(q, a)) = Len(q) + 1 /\ Len(q) \in Nat
      /\ DOMAIN Append(q, a) = 1 .. Len(q) + 1 /\ DOMAIN q = 1 .. Len(q)
      /\ \A i \in 1 .. Len(q) : Append(q, a)[i] = q[i]
      /\ Append(q, a)[Len(q) + 1] = a
  OBVIOUS
<1>2. \A i \in 1 .. Len(q) + 1 : i \in 1 .. Len(q) \/ i = Len(q) + 1
  BY <1>1
<1>3. 1 .. Len(q) \subseteq 1 .. Len(q) + 1 /\ Len(q) + 1 \in 1 .. Len(q) + 1
  BY <1>1
<1> DEFINE r == Append(q, a)
<1> HIDE DEF r
<1>4. ToSet(r) = ToSet(q) \cup {a}
  BY <1>1, <1>2, <1>3 DEF ToSet, r
<1>5. QED  BY <1>1, <1>4 DEF r

\* The elements of a sequence with another one at the i-th place.
LEMMA Inserted ==
  ASSUME NEW S, NEW q \in Seq(S), NEW i \in 1 .. Len(q) + 1, NEW x \in S
  PROVE  /\ InsertAt(q, i, x) \in Seq(S) /\ Len(InsertAt(q, i, x)) = Len(q) + 1
         /\ Len(q) \in Nat
         /\ \A j \in 1 .. Len(q) + 1 :
              InsertAt(q, i, x)[j] = IF j < i THEN q[j] ELSE IF j = i THEN x ELSE q[j - 1]
<1>1. /\ Len(q) \in Nat /\ i \in Nat /\ 1 <= i /\ i <= Len(q) + 1 /\ \A j \in 1 .. Len(q) : q[j] \in S
  OBVIOUS
<1> DEFINE a == SubSeq(q, 1, i - 1)
           b == SubSeq(q, i, Len(q))
           c == a \o <<x>>
<1>2. /\ a \in Seq(S) /\ Len(a) = i - 1 /\ \A j \in 1 .. i - 1 : a[j] = q[j]
  BY <1>1
<1>3. /\ b \in Seq(S) /\ Len(b) = Len(q) - i + 1
      /\ \A j \in 1 .. Len(q) - i + 1 : b[j] = q[i + j - 1]
  BY <1>1
<1>4. <<x>> \in Seq(S) /\ Len(<<x>>) = 1 /\ <<x>>[1] = x
  OBVIOUS
<1> HIDE DEF a, b
<1>5. /\ c \in Seq(S) /\ Len(c) = i
      /\ \A j \in 1 .. i : c[j] = IF j < i THEN q[j] ELSE x
  <2>1. /\ c \in Seq(S) /\ Len(c) = Len(a) + 1
        /\ \A j \in 1 .. Len(a) + 1 : c[j] = IF j <= Len(a) THEN a[j] ELSE <<x>>[j - Len(a)]
    BY <1>2, <1>4, ConcatProperties
  <2>2. ASSUME NEW j \in 1 .. i
        PROVE  c[j] = IF j < i THEN q[j] ELSE x
    BY <2>1, <1>1, <1>2, <1>4
  <2>3. QED  BY <2>1, <2>2, <1>1, <1>2
<1> HIDE DEF c
<1>6. /\ c \o b \in Seq(S) /\ Len(c \o b) = Len(c) + Len(b)
      /\ \A j \in 1 .. Len(c) + Len(b) : (c \o b)[j] = IF j <= Len(c) THEN c[j] ELSE b[j - Len(c)]
  BY <1>3, <1>5, ConcatProperties
<1>7. ASSUME NEW j \in 1 .. Len(q) + 1
      PROVE  (c \o b)[j] = IF j < i THEN q[j] ELSE IF j = i THEN x ELSE q[j - 1]
  <2>1. CASE j <= i
    BY <2>1, <1>1, <1>3, <1>5, <1>6
  <2>2. CASE ~ (j <= i)
    <3>1. j - i \in 1 .. Len(q) - i + 1 /\ i + (j - i) - 1 = j - 1
      BY <2>2, <1>1
    <3>2. (c \o b)[j] = b[j - i]
      BY <2>2, <1>1, <1>3, <1>5, <1>6
    <3>3. QED  BY <2>2, <3>1, <3>2, <1>1, <1>3
  <2>3. QED  BY <2>1, <2>2
<1>8. InsertAt(q, i, x) = c \o b
  BY DEF InsertAt, a, b, c
<1>9. Len(c) + Len(b) = Len(q) + 1
  BY <1>1, <1>3, <1>5
<1>10. QED  BY <1>1, <1>6, <1>7, <1>8, <1>9

LEMMA InsertedSet ==
  ASSUME NEW S, NEW q \in Seq(S), NEW i \in 1 .. Len(q) + 1, NEW x \in S
  PROVE  ToSet(InsertAt(q, i, x)) = ToSet(q) \cup {x}
<1> DEFINE r == InsertAt(q, i, x)
<1>1. /\ r \in Seq(S) /\ Len(r) = Len(q) + 1 /\ Len(q) \in Nat /\ i \in Nat
      /\ \A j \in 1 .. Len(q) + 1 : r[j] = IF j < i THEN q[j] ELSE IF j = i THEN x ELSE q[j - 1]
  BY Inserted
<1> HIDE DEF r
<1>2. DOMAIN r = 1 .. Len(q) + 1 /\ DOMAIN q = 1 .. Len(q)
  BY <1>1
<1>3. ASSUME NEW j \in DOMAIN r
      PROVE  r[j] \in ToSet(q) \cup {x}
  <2>1. CASE j <= i
    BY <2>1, <1>1, <1>2 DEF ToSet
  <2>2. CASE ~ (j <= i)
    <3>1. j - 1 \in DOMAIN q /\ r[j] = q[j - 1]
      BY <2>2, <1>1, <1>2
    <3>2. QED  BY <3>1 DEF ToSet
  <2>3. QED  BY <2>1, <2>2
<1>4. ASSUME NEW k \in DOMAIN q
      PROVE  q[k] \in ToSet(r)
  <2>1. CASE k < i
    <3>1. k \in DOMAIN r /\ r[k] = q[k]
      BY <2>1, <1>1, <1>2
    <3>2. QED  BY <3>1 DEF ToSet
  <2>2. CASE ~ (k < i)
    <3>1. k + 1 \in DOMAIN r /\ r[k + 1] = q[k]
      BY <2>2, <1>1, <1>2
    <3>2. QED  BY <3>1 DEF ToSet
  <2>3. QED  BY <2>1, <2>2
<1>5. x \in ToSet(r)
  <2>1. i \in DOMAIN r /\ r[i] = x
    BY <1>1, <1>2
  <2>2. QED  BY <2>1 DEF ToSet
<1>6. ToSet(r) \subseteq ToSet(q) \cup {x}
  BY <1>3 DEF ToSet
<1>7. ToSet(q) \subseteq ToSet(r)
  BY <1>4 DEF ToSet
<1>8. QED  BY <1>5, <1>6, <1>7 DEF r

\* A bounded set of natural numbers has a least and a largest element.
LEMMA Extremes ==
  ASSUME NEW n \in Nat, NEW S \in SUBSET (0 .. n), S # {}
  PROVE  /\ \E x \in S : \A y \in S : x <= y
         /\ \E x \in S : \A y \in S : x >= y
<1> DEFINE R == StrictSubsetOrdering(0 .. n)
           Below(x) == 0 .. x
           Above(x) == x .. n
<1>1. FiniteSubsetsOf(0 .. n) = SUBSET (0 .. n) /\ IsWellFoundedOn(R, SUBSET (0 .. n))
  <2>1. IsFiniteSet(0 .. n)
    BY FS_Interval
  <2>2. FiniteSubsetsOf(0 .. n) = SUBSET (0 .. n)
    BY <2>1, FS_FiniteSubsetsOfFinite
  <2>3. IsWellFoundedOn(R, FiniteSubsetsOf(0 .. n))
    BY FS_StrictSubsetOrderingWellFounded
  <2>4. QED  BY <2>2, <2>3
<1>2. \E x \in S : \A y \in S : x <= y
  <2> DEFINE T == {Below(x) : x \in S}
  <2>1. T \subseteq SUBSET (0 .. n) /\ T # {}
    <3>1. \A x \in S : Below(x) \subseteq 0 .. n
      OBVIOUS
    <3> HIDE DEF Below
    <3>2. QED  BY <3>1
  <2> HIDE DEF R, T
  <2>2. PICK t \in T : \A u \in T : ~ (<<u, t>> \in R)
    BY <1>1, <2>1, WFMin
  <2>3. PICK x \in S : t = Below(x)
    BY DEF T
  <2>4. ASSUME NEW y \in S, y < x
        PROVE  FALSE
    <3>1. Below(y) \in T /\ Below(y) \subseteq Below(x) /\ Below(y) # Below(x)
      BY <2>4 DEF T
    <3>2. <<Below(y), t>> \in R
      BY <2>1, <2>3, <3>1 DEF R, StrictSubsetOrdering
    <3>3. QED  BY <2>2, <3>1, <3>2
  <2>5. QED  BY <2>4
<1>3. \E x \in S : \A y \in S : x >= y
  <2> DEFINE T == {Above(x) : x \in S}
  <2>1. T \subseteq SUBSET (0 .. n) /\ T # {}
    <3>1. \A x \in S : Above(x) \subseteq 0 .. n
      OBVIOUS
    <3> HIDE DEF Above
    <3>2. QED  BY <3>1
  <2> HIDE DEF R, T
  <2>2. PICK t \in T : \A u \in T : ~ (<<u, t>> \in R)
    BY <1>1, <2>1, WFMin
  <2>3. PICK x \in S : t = Above(x)
    BY DEF T
  <2>4. ASSUME NEW y \in S, y > x
        PROVE  FALSE
    <3>1. Above(y) \in T /\ Above(y) \subseteq Above(x) /\ Above(y) # Above(x)
      BY <2>4 DEF T
    <3>2. <<Above(y), t>> \in R
      BY <2>1, <2>3, <3>1 DEF R, StrictSubsetOrdering
    <3>3. QED  BY <2>2, <3>1, <3>2
  <2>5. QED  BY <2>4
<1>4. QED  BY <1>2, <1>3

\* Induction up to n, over a set in the place of a predicate.
LEMMA Reached ==
  ASSUME NEW n \in Nat, NEW S, 0 \in S, \A k \in 0 .. n - 1 : k \in S => k + 1 \in S
  PROVE  \A k \in 0 .. n : k \in S
<1> DEFINE B == {k \in 0 .. n : k \notin S}
<1>1. SUFFICES ASSUME B # {}
               PROVE  FALSE
  OBVIOUS
<1>2. B \in SUBSET (0 .. n)
  OBVIOUS
<1>3. PICK x \in B : \A y \in B : x <= y
  BY <1>1, <1>2, Extremes
<1>4. x \in 1 .. n
  BY <1>3
<1>5. x - 1 \notin B /\ x - 1 \in 0 .. n - 1
  BY <1>3, <1>4
<1>6. x - 1 \in S
  BY <1>5
<1>7. x \in S
  BY <1>4, <1>5, <1>6
<1>8. QED  BY <1>3, <1>7

\* A function defined by recursion up to n: F gives the next value.
Recurs(f, n, T, b, F) ==
  /\ f \in [0 .. n -> T] /\ f[0] = b
  /\ \A k \in 1 .. n : f[k] = F[k][f[k - 1]]

\* There is one.
LEMMA Recursive ==
  ASSUME NEW n \in Nat, NEW T, NEW b \in T, NEW F \in [1 .. n -> [T -> T]]
  PROVE  \E f : Recurs(f, n, T, b, F)
<1> DEFINE Good(m, f) == f[0] = b /\ \A k \in 1 .. m : f[k] = F[k][f[k - 1]]
           S == {m \in 0 .. n : \E f \in [0 .. m -> T] : Good(m, f)}
<1>1. 0 \in S
  <2> DEFINE f == [k \in 0 .. 0 |-> b]
  <2>1. f \in [0 .. 0 -> T] /\ Good(0, f)
    OBVIOUS
  <2> HIDE DEF f, Good
  <2>2. QED  BY <2>1
<1>2. ASSUME NEW m \in 0 .. n - 1, m \in S
      PROVE  m + 1 \in S
  <2>1. PICK f \in [0 .. m -> T] : Good(m, f)
    BY <1>2
  <2>2. F[m + 1][f[m]] \in T
    <3>1. F[m + 1] \in [T -> T] /\ f[m] \in T
      OBVIOUS
    <3>2. QED  BY <3>1
  <2> DEFINE g == [k \in 0 .. m + 1 |-> IF k = m + 1 THEN F[m + 1][f[m]] ELSE f[k]]
  <2>3. g \in [0 .. m + 1 -> T]
    BY <2>2
  <2>4. \A k \in 0 .. m : g[k] = f[k]
    OBVIOUS
  <2>5. g[m + 1] = F[m + 1][f[m]]
    OBVIOUS
  <2> HIDE DEF g
  <2>6. Good(m + 1, g)
    <3>1. g[0] = b
      BY <2>1, <2>4
    <3>2. ASSUME NEW k \in 1 .. m + 1
          PROVE  g[k] = F[k][g[k - 1]]
      <4>1. CASE k = m + 1
        BY <4>1, <2>4, <2>5
      <4>2. CASE k # m + 1
        BY <4>2, <2>1, <2>4
      <4>3. QED  BY <4>1, <4>2
    <3>3. QED  BY <3>1, <3>2
  <2>7. QED  BY <2>3, <2>6
<1> HIDE DEF S
<1>3. \A m \in 0 .. n : m \in S
  BY <1>1, <1>2, Reached
<1>4. n \in S
  BY <1>3
<1>5. QED  BY <1>4 DEF S, Recurs

\* The same, with a set of values for each step: F takes the values of one to those of the next.
Stages(n, T, F) == \A k \in 1 .. n : F[k] \in [T[k - 1] -> T[k]]

Passes(f, n, T, b, F) ==
  /\ f = [k \in 0 .. n |-> f[k]] /\ f[0] = b
  /\ \A k \in 1 .. n : f[k] = F[k][f[k - 1]]
  /\ \A k \in 0 .. n : f[k] \in T[k]

LEMMA Staged ==
  ASSUME NEW n \in Nat, NEW T, NEW b \in T[0], NEW F, Stages(n, T, F)
  PROVE  \E f : Passes(f, n, T, b, F)
<1> DEFINE S == {m \in 0 .. n : \E f : Passes(f, m, T, b, F)}
<1>1. 0 \in S
  <2> DEFINE f == [k \in 0 .. 0 |-> b]
  <2>1. Passes(f, 0, T, b, F)
    BY DEF Passes
  <2> HIDE DEF f
  <2>2. QED  BY <2>1
<1>2. ASSUME NEW m \in 0 .. n - 1, m \in S
      PROVE  m + 1 \in S
  <2>1. PICK f : Passes(f, m, T, b, F)
    BY <1>2
  <2>2. /\ f[0] = b /\ (\A k \in 1 .. m : f[k] = F[k][f[k - 1]]) /\ \A k \in 0 .. m : f[k] \in T[k]
        /\ m + 1 \in 1 .. n /\ (m + 1) - 1 = m /\ m \in 0 .. m
    <3>1. /\ f[0] = b /\ (\A k \in 1 .. m : f[k] = F[k][f[k - 1]]) /\ \A k \in 0 .. m : f[k] \in T[k]
      BY <2>1, Zenon DEF Passes
    <3>2. m + 1 \in 1 .. n /\ (m + 1) - 1 = m /\ m \in 0 .. m
      OBVIOUS
    <3>3. QED  BY <3>1, <3>2
  <2>3. F[m + 1][f[m]] \in T[m + 1]
    <3>1. F[m + 1] \in [T[m] -> T[m + 1]] /\ f[m] \in T[m]
      BY <2>2 DEF Stages
    <3>2. QED  BY <3>1
  <2> DEFINE g == [k \in 0 .. m + 1 |-> IF k = m + 1 THEN F[m + 1][f[m]] ELSE f[k]]
  <2>4. g = [k \in 0 .. m + 1 |-> g[k]]
    OBVIOUS
  <2>5. \A k \in 0 .. m : g[k] = f[k]
    OBVIOUS
  <2>6. g[m + 1] = F[m + 1][f[m]]
    OBVIOUS
  <2> HIDE DEF g
  <2>7. g[0] = b
    BY <2>2, <2>5
  <2>8. ASSUME NEW k \in 1 .. m + 1
        PROVE  g[k] = F[k][g[k - 1]]
    <3>1. CASE k = m + 1
      BY <3>1, <2>2, <2>5, <2>6
    <3>2. CASE k # m + 1
      BY <3>2, <2>2, <2>5
    <3>3. QED  BY <3>1, <3>2
  <2>9. ASSUME NEW k \in 0 .. m + 1
        PROVE  g[k] \in T[k]
    <3>1. CASE k = m + 1
      BY <3>1, <2>3, <2>6
    <3>2. CASE k # m + 1
      BY <3>2, <2>2, <2>5
    <3>3. QED  BY <3>1, <3>2
  <2>10. Passes(g, m + 1, T, b, F)
    BY <2>4, <2>7, <2>8, <2>9 DEF Passes
  <2>11. QED  BY <2>10
<1> HIDE DEF S
<1>3. \A m \in 0 .. n : m \in S
  BY <1>1, <1>2, Reached
<1>4. n \in S
  BY <1>3
<1>5. QED  BY <1>4 DEF S

\* A function on a finite set is bounded: of the subsets on which it is not, none would be
\* the smallest.
LEMMA Bounded ==
  ASSUME NEW S, IsFiniteSet(S), NEW f \in [S -> Nat]
  PROVE  \E n \in Nat : \A x \in S : f[x] <= n
<1> DEFINE Limited(T) == \E n \in Nat : \A x \in T : f[x] <= n
           Bad == {T \in SUBSET S : ~ Limited(T)}
           R == StrictSubsetOrdering(S)
<1>1. IsWellFoundedOn(R, SUBSET S)
  BY FS_FiniteSubsetsOfFinite, FS_StrictSubsetOrderingWellFounded
<1>2. SUFFICES ASSUME Bad # {}
               PROVE  FALSE
  BY DEF Bad
<1>3. PICK T \in Bad : \A U \in Bad : ~ (<<U, T>> \in R)
  <2>1. Bad \subseteq SUBSET S
    BY DEF Bad
  <2> HIDE DEF Bad, R
  <2>2. QED  BY <1>1, <1>2, <2>1, WFMin
<1>4. T # {}
  <2>1. 0 \in Nat /\ \A x \in {} : f[x] <= 0
    OBVIOUS
  <2>2. QED  BY <1>3, <2>1 DEF Bad, Limited
<1>5. PICK y \in T : TRUE
  BY <1>4
<1>6. T \ {y} \in SUBSET S /\ <<T \ {y}, T>> \in R
  BY <1>3, <1>5 DEF Bad, R, StrictSubsetOrdering
<1>7. Limited(T \ {y})
  BY <1>3, <1>6 DEF Bad
<1>8. PICK n \in Nat : \A x \in T \ {y} : f[x] <= n
  BY <1>7 DEF Limited
<1>9. \A x \in T : f[x] \in Nat
  BY <1>3 DEF Bad
<1>10. \A x \in T : f[x] <= n + f[y]
  BY <1>5, <1>8, <1>9
<1>11. n + f[y] \in Nat
  BY <1>5, <1>9
<1>12. QED  BY <1>3, <1>10, <1>11 DEF Bad, Limited

\* The set S in the order of a key.
Ascending(s, S, key) ==
  /\ s \in [1 .. Cardinality(S) -> S]
  /\ \A i, j \in DOMAIN s : i < j => s[i] # s[j] /\ key[s[i]] <= key[s[j]]

\* A finite set can be put in order.
LEMMA InOrder ==
  ASSUME NEW S, IsFiniteSet(S), NEW key \in [S -> Nat]
  PROVE  \E s : Ascending(s, S, key)
<1> DEFINE n == Cardinality(S)
           Ordered(s) == \A i, j \in DOMAIN s : i < j => s[i] # s[j] /\ key[s[i]] <= key[s[j]]
           G == {m \in 0 .. n : \A T \in SUBSET S : Cardinality(T) = m => \E s \in [1 .. m -> T] : Ordered(s)}
<1>1. n \in Nat
  BY FS_CardinalityType
<1>2. 0 \in G
  <2> DEFINE s == [i \in 1 .. 0 |-> i]
  <2>1. ASSUME NEW T \in SUBSET S
        PROVE  s \in [1 .. 0 -> T] /\ Ordered(s)
    OBVIOUS
  <2> HIDE DEF s, Ordered
  <2>2. QED  BY <1>1, <2>1
<1>3. ASSUME NEW m \in 0 .. n - 1, m \in G
      PROVE  m + 1 \in G
  <2>1. ASSUME NEW T \in SUBSET S, Cardinality(T) = m + 1
        PROVE  \E s \in [1 .. m + 1 -> T] : Ordered(s)
    <3>1. IsFiniteSet(T) /\ T # {}
      <4>1. IsFiniteSet(T)
        BY FS_Subset
      <4>2. T # {}
        BY <2>1, <1>1, FS_EmptySet
      <4>3. QED  BY <4>1, <4>2
    <3>2. PICK x \in T : \A y \in T : key[y] <= key[x]
      <4>1. PICK t \in Nat : \A y \in S : key[y] <= t
        BY Bounded
      <4> DEFINE K == {key[y] : y \in T}
      <4>2. K \in SUBSET (0 .. t) /\ K # {}
        BY <3>1, <4>1
      <4>3. PICK k \in K : \A y \in K : k >= y
        <5> HIDE DEF K
        <5>1. QED  BY <4>2, Extremes
      <4>4. PICK x \in T : k = key[x]
        BY <4>3
      <4>5. \A y \in T : key[y] \in K /\ key[y] \in Nat
        OBVIOUS
      <4>6. \A y \in T : key[y] <= key[x]
        BY <4>3, <4>4, <4>5
      <4>7. QED  BY <4>6
    <3>3. Cardinality(T \ {x}) = m /\ T \ {x} \in SUBSET S
      <4>1. Cardinality(T \ {x}) = Cardinality(T) - 1
        BY <3>1, <3>2, FS_RemoveElement
      <4>2. QED  BY <2>1, <4>1
    <3>4. PICK s \in [1 .. m -> T \ {x}] : Ordered(s)
      BY <1>3, <3>3
    <3> DEFINE r == [i \in 1 .. m + 1 |-> IF i = m + 1 THEN x ELSE s[i]]
    <3>5. r \in [1 .. m + 1 -> T]
      OBVIOUS
    <3>6. ASSUME NEW i \in 1 .. m + 1, NEW j \in 1 .. m + 1, i < j
          PROVE  r[i] # r[j] /\ key[r[i]] <= key[r[j]]
      <4>1. CASE j = m + 1
        BY <4>1, <3>2, <3>6
      <4>2. CASE j # m + 1
        BY <4>2, <3>4, <3>6
      <4>3. QED  BY <4>1, <4>2
    <3>7. QED  BY <3>5, <3>6
  <2>2. QED  BY <1>1, <2>1
<1> HIDE DEF G
<1>4. \A m \in 0 .. n : m \in G
  BY <1>1, <1>2, <1>3, Reached
<1>5. n \in G
  BY <1>1, <1>4
<1>6. QED  BY <1>5 DEF G, Ascending

\* n different elements.
Different(s, n, S) == s \in [1 .. n -> S] /\ \A i, j \in 1 .. n : i < j => s[i] # s[j]

\* As many different elements as the set has are all of them.
LEMMA AllOf ==
  ASSUME NEW S, IsFiniteSet(S), NEW n, n = Cardinality(S), NEW s, Different(s, n, S)
  PROVE  \A x \in S : \E i \in 1 .. n : s[i] = x
<1>1. n \in Nat
  BY FS_CardinalityType
<1>2. IsFiniteSet(1 .. n) /\ Cardinality(1 .. n) = n
  BY <1>1, FS_Interval
<1> DEFINE R == {s[i] : i \in 1 .. n}
<1>3. s \in [1 .. n -> S] /\ \A i, j \in 1 .. n : s[i] = s[j] => i = j
  BY <1>1 DEF Different
<1>4. s \in Bijection(1 .. n, R)
  BY <1>3 DEF Bijection, Injection, IsInjective, Surjection
<1>5. IsFiniteSet(R) /\ Cardinality(R) = n
  <2>1. ExistsBijection(1 .. n, R)
    BY <1>4 DEF ExistsBijection
  <2> HIDE DEF R
  <2>2. QED  BY <1>2, <2>1, FS_Bijection
<1>6. R \subseteq S
  BY <1>3
<1> HIDE DEF R
<1>7. R = S
  BY <1>5, <1>6, FS_Subset
<1>8. QED  BY <1>7 DEF R

=============================================================================
