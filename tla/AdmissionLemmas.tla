--------------------------- MODULE AdmissionLemmas ---------------------------
(***************************************************************************)
(* Lemmas about the operators of Admission: what Without leaves of a       *)
(* sequence, and how paths are ordered.  They are by induction.  The       *)
(* theorems of the library that state induction take a predicate as a      *)
(* parameter; here a set of numbers takes its place, and a set of numbers  *)
(* has a least element because finite sets are well-founded under strict   *)
(* inclusion.                                                              *)
(***************************************************************************)
EXTENDS Admission, FiniteSetTheorems, WellFoundedInduction, SequenceTheorems, TLAPS

-----------------------------------------------------------------------------
(***************************************************************************)
(* Induction                                                               *)
(***************************************************************************)

\* A set of numbers has a least element: n is least where 0..n is minimal.
LEMMA Least ==
  ASSUME NEW T, T \subseteq Nat, T # {}
  PROVE  \E n \in T : \A m \in T : n <= m
<1> DEFINE F == FiniteSubsetsOf(Nat)
           R == StrictSubsetOrdering(Nat)
           U == {0..n : n \in T}
<1>1. IsWellFoundedOn(R, F)
  BY FS_StrictSubsetOrderingWellFounded
<1>2. U \subseteq F /\ U # {}
  <2>1. \A n \in T : IsFiniteSet(0..n)
    BY FS_Interval
  <2>2. \A n \in T : 0..n \in SUBSET Nat
    OBVIOUS
  <2>3. \A n \in T : 0..n \in F
    BY <2>1, <2>2, Zenon DEF FiniteSubsetsOf
  <2> HIDE DEF F
  <2> QED
    BY <2>3
<1>3. PICK X \in U : \A Y \in U : ~(<<Y, X>> \in R)
  <2> HIDE DEF R, F, U
  <2> QED
    BY <1>1, <1>2, WFMin
<1>4. PICK n \in T : X = 0..n
  OBVIOUS
<1>5. ASSUME NEW m \in T, m < n
      PROVE  FALSE
  <2>1. 0..m \in U
    OBVIOUS
  <2>2. <<0..m, X>> \in R
    BY <1>4, <1>5, SMT DEF StrictSubsetOrdering
  <2> QED
    BY <1>3, <2>1, <2>2
<1> QED
  BY <1>5

\* A set with 0 and the successor of each of its numbers holds every number.
LEMMA Induction ==
  ASSUME NEW S, 0 \in S, \A n \in Nat : n \in S => n + 1 \in S
  PROVE  Nat \subseteq S
<1> DEFINE T == Nat \ S
<1> SUFFICES ASSUME T # {} PROVE FALSE
  OBVIOUS
<1>1. PICK n \in T : \A m \in T : n <= m
  <2>1. T \subseteq Nat
    OBVIOUS
  <2> HIDE DEF T
  <2> QED
    BY <2>1, Least
<1>2. n - 1 \in Nat /\ n - 1 \in S
  BY <1>1
<1> QED
  BY <1>2

-----------------------------------------------------------------------------
(***************************************************************************)
(* Without                                                                 *)
(***************************************************************************)

\* f is the function of Without on the first k elements of s.
Keeps(f, s, drop, k) ==
  f = [n \in 0..k |->
         IF n = 0 THEN <<>>
         ELSE IF s[n] \in drop THEN f[n - 1] ELSE Append(f[n - 1], s[n])]

\* There is such a function, so Without is its last value.
LEMMA WithoutDef ==
  ASSUME NEW s, Len(s) \in Nat, NEW drop
  PROVE  \E f : Keeps(f, s, drop, Len(s)) /\ Without(s, drop) = f[Len(s)]
<1> DEFINE S == {k \in Nat : \E f : Keeps(f, s, drop, k)}
<1>1. 0 \in S
  <2>1. Keeps([n \in 0..0 |-> <<>>], s, drop, 0)
    BY DEF Keeps
  <2> QED
    BY <2>1
<1>2. ASSUME NEW k \in Nat, k \in S
      PROVE  k + 1 \in S
  <2>1. PICK f : Keeps(f, s, drop, k)
    BY <1>2
  <2> DEFINE g == [n \in 0..(k + 1) |->
                     IF n <= k THEN f[n]
                     ELSE IF s[n] \in drop THEN f[n - 1] ELSE Append(f[n - 1], s[n])]
             h == [n \in 0..(k + 1) |->
                     IF n = 0 THEN <<>>
                     ELSE IF s[n] \in drop THEN g[n - 1] ELSE Append(g[n - 1], s[n])]
  <2>2. ASSUME NEW n \in 0..(k + 1)
        PROVE  g[n] = h[n]
    <3>1. CASE n = 0
      BY <3>1, <2>1 DEF Keeps
    <3>2. CASE n = k + 1
      BY <3>2
    <3>3. CASE n \in 1..k
      <4>1. n # 0 /\ n \in 0..k /\ n - 1 \in 0..k /\ n - 1 \in 0..(k + 1)
        BY <3>3
      <4>2. g[n] = f[n] /\ g[n - 1] = f[n - 1]
        BY <4>1
      <4>3. f[n] = IF s[n] \in drop THEN f[n - 1] ELSE Append(f[n - 1], s[n])
        BY <4>1, <2>1 DEF Keeps
      <4> HIDE DEF g
      <4> QED
        BY <4>1, <4>2, <4>3
    <3> QED
      BY <3>1, <3>2, <3>3
  <2>3. g = h
    <3>1. g = [n \in 0..(k + 1) |-> g[n]] /\ h = [n \in 0..(k + 1) |-> h[n]]
      OBVIOUS
    <3> HIDE DEF g, h
    <3> QED
      BY <2>2, <3>1
  <2> HIDE DEF g
  <2>4. Keeps(g, s, drop, k + 1)
    BY <2>3 DEF Keeps
  <2> QED
    BY <2>4
<1>3. \E f : Keeps(f, s, drop, Len(s))
  <2> HIDE DEF S
  <2>1. Nat \subseteq S
    BY <1>1, <1>2, Induction
  <2> QED
    BY <2>1 DEF S
<1>4. Without(s, drop) = (CHOOSE f : Keeps(f, s, drop, Len(s)))[Len(s)]
  BY Zenon DEF Without, Keeps
<1>5. Keeps(CHOOSE f : Keeps(f, s, drop, Len(s)), s, drop, Len(s))
  BY <1>3, Zenon
<1> QED
  BY <1>4, <1>5

\* What f[n] holds: the first n elements of s that are not in drop, each once if
\* they are in s once, and all of them if none is in drop.
KeptUpTo(f, s, drop, S, n) ==
  /\ f[n] \in Seq(S)
  /\ \A j \in DOMAIN f[n] : f[n][j] \notin drop /\ \E i \in 1..n : s[i] = f[n][j]
  /\ \A i \in 1..n : s[i] \notin drop => \E j \in DOMAIN f[n] : f[n][j] = s[i]
  /\ (\A i, j \in 1..n : s[i] = s[j] => i = j) =>
       \A i, j \in DOMAIN f[n] : f[n][i] = f[n][j] => i = j

\* One more element of s keeps what is known of f.
LEMMA KeptStep ==
  ASSUME NEW S, NEW s \in Seq(S), NEW drop, NEW f, Keeps(f, s, drop, Len(s)),
         NEW n \in Nat, n + 1 <= Len(s), KeptUpTo(f, s, drop, S, n)
  PROVE  KeptUpTo(f, s, drop, S, n + 1)
<1> DEFINE x == s[n + 1]
           t == f[n]
           u == f[n + 1]
<1>1. x \in S /\ t \in Seq(S) /\ \A i \in 1..(n + 1) : i \in 1..n \/ i = n + 1
  BY DEF KeptUpTo
<1>2. u = IF x \in drop THEN t ELSE Append(t, x)
  <2>1. n + 1 \in 0..Len(s) /\ n + 1 # 0 /\ (n + 1) - 1 = n
    OBVIOUS
  <2> QED
    BY <2>1 DEF Keeps
<1>3. CASE x \in drop
  <2>1. u = t
    BY <1>2, <1>3
  <2> QED
    BY <1>3, <2>1, \A i \in 1..n : i \in 1..(n + 1) DEF KeptUpTo
<1>4. CASE x \notin drop
  <2>1. /\ u \in Seq(S)
        /\ Len(u) = Len(t) + 1
        /\ \A j \in DOMAIN u : u[j] = IF j = Len(u) THEN x ELSE t[j]
        /\ DOMAIN u = 1..(Len(t) + 1) /\ DOMAIN t = 1..Len(t) /\ Len(t) \in Nat
    BY <1>1, <1>2, <1>4
  <2> HIDE DEF t, u, x
  <2>2. \A j \in DOMAIN u : j = Len(u) \/ j \in DOMAIN t
    BY <2>1
  <2>3. \A j \in DOMAIN t : j \in DOMAIN u /\ u[j] = t[j]
    BY <2>1
  <2>4. Len(u) \in DOMAIN u /\ u[Len(u)] = x
    BY <2>1
  <2>5. ASSUME NEW j \in DOMAIN u
        PROVE  u[j] \notin drop /\ \E i \in 1..(n + 1) : s[i] = u[j]
    <3>1. CASE j = Len(u)
      BY <3>1, <2>4, <1>4, n + 1 \in 1..(n + 1) DEF x
    <3>2. CASE j \in DOMAIN t
      <4>1. u[j] = t[j] /\ t[j] \notin drop /\ \E i \in 1..n : s[i] = t[j]
        BY <3>2, <2>3 DEF KeptUpTo, t
      <4> QED
        BY <4>1, \A i \in 1..n : i \in 1..(n + 1)
    <3> QED
      BY <3>1, <3>2, <2>2
  <2>6. ASSUME NEW i \in 1..(n + 1), s[i] \notin drop
        PROVE  \E j \in DOMAIN u : u[j] = s[i]
    <3>1. CASE i = n + 1
      BY <3>1, <2>4 DEF x
    <3>2. CASE i \in 1..n
      BY <3>2, <2>3, <2>6 DEF KeptUpTo, t
    <3> QED
      BY <3>1, <3>2, <1>1
  <2>7. ASSUME \A i, j \in 1..(n + 1) : s[i] = s[j] => i = j,
               NEW i \in DOMAIN u, NEW j \in DOMAIN u, u[i] = u[j]
        PROVE  i = j
    <3>1. \A k \in DOMAIN t : t[k] # x
      <4> SUFFICES ASSUME NEW k \in DOMAIN t, t[k] = x PROVE FALSE
        OBVIOUS
      <4>1. PICK m \in 1..n : s[m] = t[k]
        BY DEF KeptUpTo, t
      <4>2. m \in 1..(n + 1) /\ n + 1 \in 1..(n + 1) /\ m # n + 1
        OBVIOUS
      <4> QED
        BY <4>1, <4>2, <2>7 DEF x
    <3>2. \A k, m \in DOMAIN t : t[k] = t[m] => k = m
      <4>1. \A k, m \in 1..n : s[k] = s[m] => k = m
        BY <2>7
      <4> QED
        BY <4>1 DEF KeptUpTo, t
    <3> QED
      BY <3>1, <3>2, <2>2, <2>3, <2>4, <2>7
  <2> QED
    BY <2>1, <2>5, <2>6, <2>7 DEF KeptUpTo, u
<1> QED
  BY <1>3, <1>4

\* Without keeps, of a sequence over S, exactly the elements that are not in drop,
\* and no element twice that is there once.
LEMMA WithoutFacts ==
  ASSUME NEW S, NEW s \in Seq(S), NEW drop
  PROVE  LET w == Without(s, drop)
         IN  /\ w \in Seq(S)
             /\ \A j \in DOMAIN w : w[j] \notin drop /\ \E i \in DOMAIN s : s[i] = w[j]
             /\ \A i \in DOMAIN s : s[i] \notin drop => \E j \in DOMAIN w : w[j] = s[i]
             /\ (\A i, j \in DOMAIN s : s[i] = s[j] => i = j) =>
                  \A i, j \in DOMAIN w : w[i] = w[j] => i = j
<1>1. Len(s) \in Nat /\ DOMAIN s = 1..Len(s)
  OBVIOUS
<1>2. PICK f : Keeps(f, s, drop, Len(s)) /\ Without(s, drop) = f[Len(s)]
  BY <1>1, WithoutDef
<1> DEFINE T == {n \in Nat : n <= Len(s) => KeptUpTo(f, s, drop, S, n)}
<1>3. 0 \in T
  <2>1. f[0] = <<>>
    BY <1>1, <1>2 DEF Keeps
  <2>2. f[0] \in Seq(S) /\ DOMAIN f[0] = {} /\ 1..0 = {}
    BY <2>1
  <2>3. KeptUpTo(f, s, drop, S, 0)
    BY <2>2 DEF KeptUpTo
  <2> QED
    BY <2>3
<1>4. ASSUME NEW n \in Nat, n \in T
      PROVE  n + 1 \in T
  BY <1>1, <1>2, <1>4, KeptStep
<1>5. Nat \subseteq T
  <2> HIDE DEF T
  <2> QED
    BY <1>3, <1>4, Induction
<1>6. KeptUpTo(f, s, drop, S, Len(s))
  BY <1>1, <1>5
<1> HIDE DEF T
<1> QED
  BY <1>1, <1>2, <1>6 DEF KeptUpTo

-----------------------------------------------------------------------------
(***************************************************************************)
(* The order of strings and of paths                                       *)
(***************************************************************************)

\* Equal prefixes are equal element by element.
LEMMA SamePrefix ==
  ASSUME NEW S, NEW s \in Seq(S), NEW t \in Seq(S), NEW n \in Nat,
         n <= Len(s), n <= Len(t)
  PROVE  SubSeq(s, 1, n) = SubSeq(t, 1, n) <=> \A k \in 1..n : s[k] = t[k]
<1>1. /\ SubSeq(s, 1, n) = [k \in 1..n |-> s[k]]
      /\ SubSeq(t, 1, n) = [k \in 1..n |-> t[k]]
  OBVIOUS
<1> QED
  BY <1>1

\* String s is before t because of what they have at i.
BytesBeforeAt(s, t, i) ==
  /\ i \in 1..Len(t) /\ i <= Len(s) + 1
  /\ \A k \in 1..(i - 1) : s[k] = t[k]
  /\ i <= Len(s) => s[i] < t[i]

\* One string sorts before another when it does so at some byte.
LEMMA BytesBeforeIsAt ==
  ASSUME NEW s \in Seq(Int), NEW t \in Seq(Int)
  PROVE  BytesBefore(s, t) <=> \E i \in 1..Len(t) : BytesBeforeAt(s, t, i)
<1>1. ASSUME NEW i \in 1..Len(t), i <= Len(s) + 1
      PROVE  SubSeq(s, 1, i - 1) = SubSeq(t, 1, i - 1) <=>
               \A k \in 1..(i - 1) : s[k] = t[k]
  <2>1. i - 1 \in Nat /\ i - 1 <= Len(s) /\ i - 1 <= Len(t)
    BY <1>1
  <2> QED
    BY <2>1, SamePrefix
<1> QED
  BY <1>1 DEF BytesBefore, BytesBeforeAt

\* No string sorts before itself,
LEMMA BytesBeforeIrreflexive ==
  ASSUME NEW s \in Seq(Int)
  PROVE  ~BytesBefore(s, s)
<1> SUFFICES ASSUME NEW i \in 1..Len(s), BytesBeforeAt(s, s, i)
             PROVE  FALSE
  BY BytesBeforeIsAt
<1>1. i \in DOMAIN s /\ s[i] \in Int /\ s[i] < s[i]
  BY DEF BytesBeforeAt
<1> QED
  BY <1>1

\* and the order of strings is transitive.
LEMMA BytesBeforeTransitive ==
  ASSUME NEW s \in Seq(Int), NEW t \in Seq(Int), NEW u \in Seq(Int),
         BytesBefore(s, t), BytesBefore(t, u)
  PROVE  BytesBefore(s, u)
<1>1. PICK i \in 1..Len(t) : BytesBeforeAt(s, t, i)
  BY BytesBeforeIsAt
<1>2. PICK j \in 1..Len(u) : BytesBeforeAt(t, u, j)
  BY BytesBeforeIsAt
<1>3. Len(s) \in Nat /\ Len(t) \in Nat /\ Len(u) \in Nat
  OBVIOUS
<1>4. CASE i < j
  <2>1. i \in 1..Len(u) /\ i <= Len(s) + 1
    BY <1>1, <1>3, <1>4 DEF BytesBeforeAt
  <2>2. \A k \in 1..i : t[k] = u[k]
    BY <1>2, <1>4 DEF BytesBeforeAt
  <2>3. \A k \in 1..(i - 1) : s[k] = t[k] /\ t[k] = u[k]
    BY <1>1, <2>2 DEF BytesBeforeAt
  <2>4. i <= Len(s) => s[i] < u[i]
    BY <1>1, <2>2 DEF BytesBeforeAt
  <2>5. BytesBeforeAt(s, u, i)
    BY <2>1, <2>3, <2>4 DEF BytesBeforeAt
  <2> QED
    BY <2>1, <2>5, BytesBeforeIsAt
<1>5. CASE j < i
  <2>1. j \in 1..Len(u) /\ j <= Len(s) /\ j <= Len(t)
    BY <1>1, <1>2, <1>3, <1>5 DEF BytesBeforeAt
  <2>2. \A k \in 1..j : s[k] = t[k]
    BY <1>1, <1>5 DEF BytesBeforeAt
  <2>3. \A k \in 1..(j - 1) : s[k] = t[k] /\ t[k] = u[k]
    BY <1>2, <2>2 DEF BytesBeforeAt
  <2>4. s[j] = t[j] /\ t[j] < u[j]
    BY <1>2, <2>1, <2>2 DEF BytesBeforeAt
  <2>5. BytesBeforeAt(s, u, j)
    BY <2>1, <2>3, <2>4 DEF BytesBeforeAt
  <2> QED
    BY <2>1, <2>5, BytesBeforeIsAt
<1>6. CASE i = j
  <2>1. t[i] < u[i] /\ (i <= Len(s) => s[i] < t[i])
    BY <1>1, <1>2, <1>6 DEF BytesBeforeAt
  <2>2. i <= Len(s) => s[i] \in Int /\ t[i] \in Int /\ u[i] \in Int
    BY <1>2, <1>6
  <2>3. i <= Len(s) => s[i] < u[i]
    BY <2>1, <2>2
  <2>4. \A k \in 1..(i - 1) : s[k] = u[k]
    BY <1>1, <1>2, <1>6 DEF BytesBeforeAt
  <2>5. BytesBeforeAt(s, u, i)
    BY <1>1, <1>2, <1>6, <2>3, <2>4 DEF BytesBeforeAt
  <2> QED
    BY <1>2, <1>6, <2>5, BytesBeforeIsAt
<1> QED
  BY <1>4, <1>5, <1>6

\* A string is before itself with something after it.
LEMMA BytesBeforeLonger ==
  ASSUME NEW s \in Seq(Int), NEW b \in Int
  PROVE  Append(s, b) \in Seq(Int) /\ BytesBefore(s, Append(s, b))
<1> DEFINE t == Append(s, b)
           n == Len(s) + 1
<1>1. /\ t \in Seq(Int) /\ Len(t) = n /\ Len(s) \in Nat
      /\ \A k \in 1..Len(s) : s[k] = t[k]
  OBVIOUS
<1> HIDE DEF t
<1>2. BytesBeforeAt(s, t, n) /\ n \in 1..Len(t)
  BY <1>1 DEF BytesBeforeAt
<1> QED
  BY <1>1, <1>2, BytesBeforeIsAt DEF t

\* A path is a sequence of sequences of numbers.
LEMMA PathType ==
  ASSUME NEW p \in Path
  PROVE  /\ p.segments \in Seq(Seq(Int))
         /\ Len(p.segments) \in Nat /\ DOMAIN p.segments = 1..Len(p.segments)
         /\ \A i \in DOMAIN p.segments :
              /\ p.segments[i] \in Seq(Int)
              /\ Bytes(p, i) = p.segments[i] \/ Bytes(p, i) = Append(p.segments[i], Slash)
              /\ Bytes(p, i) \in Seq(Int)
<1>1. p.segments \in Seq(Segment)
  BY DEF Path
<1>2. Segment \subseteq Seq(Int)
  <2>1. 1..126 \ {Slash} \subseteq Int
    OBVIOUS
  <2> QED
    BY <2>1, SeqMonotonic DEF Segment
<1>3. Len(p.segments) \in Nat /\ DOMAIN p.segments = 1..Len(p.segments)
  BY <1>1
<1>4. \A i \in DOMAIN p.segments : p.segments[i] \in Seq(Int)
  BY <1>1, <1>2, <1>3
<1>5. p.segments \in Seq(Seq(Int))
  BY <1>1, <1>2, SeqMonotonic
<1>6. ASSUME NEW i \in DOMAIN p.segments
      PROVE  /\ Bytes(p, i) = p.segments[i] \/ Bytes(p, i) = Append(p.segments[i], Slash)
             /\ Bytes(p, i) \in Seq(Int)
  <2>1. Append(p.segments[i], Slash) \in Seq(Int)
    BY <1>4 DEF Slash
  <2> QED
    BY <1>4, <2>1 DEF Bytes
<1> QED
  BY <1>3, <1>4, <1>5, <1>6

\* Path p is before q because of what they have at segment i.
BeforeAt(p, q, i) ==
  /\ i \in 1..Len(q.segments) /\ i <= Len(p.segments) + 1
  /\ \A k \in 1..(i - 1) : p.segments[k] = q.segments[k]
  /\ i <= Len(p.segments) =>
       p.segments[i] # q.segments[i] /\ BytesBefore(Bytes(p, i), Bytes(q, i))

\* A path lies under those that its segments begin with.
LEMMA UnderIsPrefix ==
  ASSUME NEW p \in Path, NEW q \in Path
  PROVE  Under(q, p) <=>
           /\ Len(p.segments) < Len(q.segments)
           /\ \A k \in 1..Len(p.segments) : q.segments[k] = p.segments[k]
<1> DEFINE a == p.segments
           b == q.segments
           n == Len(a)
<1>1. a \in Seq(Seq(Int)) /\ b \in Seq(Seq(Int)) /\ n \in Nat /\ SubSeq(a, 1, n) = a
  BY PathType
<1>2. n < Len(b) =>
        (SubSeq(b, 1, n) = SubSeq(a, 1, n) <=> \A k \in 1..n : b[k] = a[k])
  <2> HIDE DEF a, b
  <2>1. Len(b) \in Nat
    BY <1>1
  <2> QED
    BY <1>1, <2>1, SamePrefix
<1> QED
  BY <1>1, <1>2 DEF Under

\* One path sorts before another when it does so at some segment.
LEMMA BeforeIsAt ==
  ASSUME NEW p \in Path, NEW q \in Path
  PROVE  Before(p, q) <=> \E i \in 1..Len(q.segments) : BeforeAt(p, q, i)
<1> DEFINE a == p.segments
           b == q.segments
<1>1. /\ a \in Seq(Seq(Int)) /\ Len(a) \in Nat /\ DOMAIN a = 1..Len(a)
      /\ b \in Seq(Seq(Int)) /\ Len(b) \in Nat /\ DOMAIN b = 1..Len(b)
  BY PathType
<1>2. \A i \in DOMAIN a \cap DOMAIN b :
        SubSeq(a, 1, i - 1) = SubSeq(b, 1, i - 1) <=> \A k \in 1..(i - 1) : a[k] = b[k]
  <2> HIDE DEF a, b
  <2> SUFFICES ASSUME NEW i \in DOMAIN a \cap DOMAIN b
               PROVE  SubSeq(a, 1, i - 1) = SubSeq(b, 1, i - 1) <=>
                        \A k \in 1..(i - 1) : a[k] = b[k]
    OBVIOUS
  <2>1. i - 1 \in Nat /\ i - 1 <= Len(a) /\ i - 1 <= Len(b)
    BY <1>1
  <2> QED
    BY <1>1, <2>1, SamePrefix
<1>3. ASSUME Before(p, q)
      PROVE  \E i \in 1..Len(b) : BeforeAt(p, q, i)
  <2>1. CASE Under(q, p)
    <3>1. Len(a) < Len(b) /\ \A k \in 1..Len(a) : a[k] = b[k]
      BY <2>1, UnderIsPrefix
    <3> DEFINE i == Len(a) + 1
    <3>2. i \in 1..Len(b) /\ ~(i <= Len(a)) /\ i - 1 = Len(a) /\ i <= Len(a) + 1
      BY <1>1, <3>1
    <3> HIDE DEF i
    <3>3. BeforeAt(p, q, i)
      BY <3>1, <3>2 DEF BeforeAt
    <3> QED
      BY <3>2, <3>3
  <2>2. ASSUME NEW i \in DOMAIN a \cap DOMAIN b,
               SubSeq(a, 1, i - 1) = SubSeq(b, 1, i - 1), a[i] # b[i],
               BytesBefore(Bytes(p, i), Bytes(q, i))
        PROVE  \E j \in 1..Len(b) : BeforeAt(p, q, j)
    <3>1. i \in 1..Len(b) /\ i <= Len(a) + 1
      BY <1>1
    <3>2. BeforeAt(p, q, i)
      BY <1>2, <2>2, <3>1 DEF BeforeAt
    <3> QED
      BY <3>1, <3>2
  <2> QED
    BY <1>3, <2>1, <2>2 DEF Before
<1>4. ASSUME NEW i \in 1..Len(b), BeforeAt(p, q, i)
      PROVE  Before(p, q)
  <2>1. CASE i <= Len(a)
    <3>1. i \in DOMAIN a \cap DOMAIN b
      BY <1>1, <2>1
    <3>2. SubSeq(a, 1, i - 1) = SubSeq(b, 1, i - 1)
      BY <1>2, <1>4, <3>1 DEF BeforeAt
    <3> QED
      BY <1>4, <2>1, <3>1, <3>2 DEF Before, BeforeAt
  <2>2. CASE ~(i <= Len(a))
    <3>1. i = Len(a) + 1 /\ Len(a) < Len(b) /\ i - 1 = Len(a)
      BY <1>1, <1>4, <2>2 DEF BeforeAt
    <3>2. \A k \in 1..Len(a) : b[k] = a[k]
      BY <1>4, <3>1 DEF BeforeAt
    <3>3. Under(q, p)
      BY <3>1, <3>2, UnderIsPrefix
    <3> QED
      BY <3>3 DEF Before
  <2> QED
    BY <2>1, <2>2
<1> QED
  BY <1>3, <1>4

\* No path sorts before itself.
LEMMA BeforeIrreflexive ==
  ASSUME NEW p \in Path
  PROVE  ~Before(p, p)
<1> SUFFICES ASSUME NEW i \in 1..Len(p.segments), BeforeAt(p, p, i)
             PROVE  FALSE
  BY BeforeIsAt
<1> QED
  BY DEF BeforeAt

\* The step of transitivity where p has the segment of q, and r another one.
LEMMA BeforeSameThenLess ==
  ASSUME NEW p \in Path, NEW q \in Path, NEW i \in Nat,
         i \in DOMAIN p.segments, i \in DOMAIN q.segments, i < Len(q.segments),
         p.segments[i] = q.segments[i],
         NEW u \in Seq(Int), BytesBefore(Bytes(q, i), u)
  PROVE  BytesBefore(Bytes(p, i), u)
<1> DEFINE x == p.segments[i]
<1>1. x \in Seq(Int) /\ Slash \in Int /\ i # Len(q.segments)
  BY PathType DEF Slash
<1>2. Bytes(q, i) = Append(x, Slash)
  BY <1>1 DEF Bytes
<1>3. Bytes(p, i) = x \/ Bytes(p, i) = Bytes(q, i)
  BY <1>2 DEF Bytes
<1> HIDE DEF x
<1>4. Append(x, Slash) \in Seq(Int) /\ BytesBefore(x, Append(x, Slash))
  BY <1>1, BytesBeforeLonger
<1> QED
  BY <1>1, <1>2, <1>3, <1>4, BytesBeforeTransitive

\* The one where r has the segment of q, and p another one.
LEMMA BeforeLessThenSame ==
  ASSUME NEW q \in Path, NEW r \in Path, NEW i \in Nat,
         i \in DOMAIN q.segments, i \in DOMAIN r.segments, i < Len(r.segments),
         q.segments[i] = r.segments[i],
         NEW s \in Seq(Int), BytesBefore(s, Bytes(q, i))
  PROVE  BytesBefore(s, Bytes(r, i))
<1> DEFINE x == r.segments[i]
<1>1. x \in Seq(Int) /\ Slash \in Int /\ i # Len(r.segments)
  BY PathType DEF Slash
<1>2. Bytes(r, i) = Append(x, Slash)
  BY <1>1 DEF Bytes
<1>3. Bytes(q, i) = x \/ Bytes(q, i) = Bytes(r, i)
  BY <1>2 DEF Bytes
<1> HIDE DEF x
<1>4. Append(x, Slash) \in Seq(Int) /\ BytesBefore(x, Append(x, Slash))
  BY <1>1, BytesBeforeLonger
<1> QED
  BY <1>1, <1>2, <1>3, <1>4, BytesBeforeTransitive

\* Bytes(p, i) is not before Bytes(r, i), the segments being the same, unless the
\* segment is the last one of p only.
LEMMA BeforeSame ==
  ASSUME NEW p \in Path, NEW r \in Path, NEW i \in Nat,
         i \in DOMAIN p.segments, i \in DOMAIN r.segments,
         p.segments[i] = r.segments[i], BytesBefore(Bytes(p, i), Bytes(r, i))
  PROVE  i = Len(p.segments) /\ i < Len(r.segments)
<1> DEFINE x == p.segments[i]
<1>1. /\ x \in Seq(Int) /\ Slash \in Int
      /\ Len(p.segments) \in Nat /\ Len(r.segments) \in Nat
      /\ DOMAIN p.segments = 1..Len(p.segments) /\ DOMAIN r.segments = 1..Len(r.segments)
      /\ Bytes(p, i) \in Seq(Int)
  BY PathType DEF Slash
<1>2. /\ Bytes(p, i) = IF i = Len(p.segments) THEN x ELSE Append(x, Slash)
      /\ Bytes(r, i) = IF i = Len(r.segments) THEN x ELSE Append(x, Slash)
  BY DEF Bytes
<1> HIDE DEF x
<1>3. Append(x, Slash) \in Seq(Int) /\ BytesBefore(x, Append(x, Slash))
  BY <1>1, BytesBeforeLonger
<1>4. Bytes(p, i) # Bytes(r, i)
  BY <1>1, BytesBeforeIrreflexive
<1>5. ~BytesBefore(Append(x, Slash), x)
  BY <1>1, <1>3, BytesBeforeTransitive, BytesBeforeIrreflexive
<1>6. i = Len(p.segments) /\ i # Len(r.segments)
  BY <1>2, <1>4, <1>5
<1> QED
  BY <1>1, <1>6

\* The order of paths, which is that of the strings they are written as, is transitive
\* (sort.Strings in rejectOverlappingMountPaths).
LEMMA BeforeTransitive ==
  ASSUME NEW p \in Path, NEW q \in Path, NEW r \in Path, Before(p, q), Before(q, r)
  PROVE  Before(p, r)
<1> DEFINE a == p.segments
           b == q.segments
           c == r.segments
<1>1. /\ Len(a) \in Nat /\ DOMAIN a = 1..Len(a)
      /\ Len(b) \in Nat /\ DOMAIN b = 1..Len(b)
      /\ Len(c) \in Nat /\ DOMAIN c = 1..Len(c)
  BY PathType
<1>2. PICK i \in 1..Len(b) : BeforeAt(p, q, i)
  BY BeforeIsAt
<1>3. PICK j \in 1..Len(c) : BeforeAt(q, r, j)
  BY BeforeIsAt
<1>4. /\ i \in Nat /\ i <= Len(a) + 1 /\ i <= Len(b) /\ 1 <= i
      /\ \A k \in 1..(i - 1) : a[k] = b[k]
      /\ i <= Len(a) => a[i] # b[i] /\ BytesBefore(Bytes(p, i), Bytes(q, i))
  BY <1>2 DEF BeforeAt
<1>5. /\ j \in Nat /\ j <= Len(b) + 1 /\ j <= Len(c) /\ 1 <= j
      /\ \A k \in 1..(j - 1) : b[k] = c[k]
      /\ j <= Len(b) => b[j] # c[j] /\ BytesBefore(Bytes(q, j), Bytes(r, j))
  BY <1>3 DEF BeforeAt
<1>6. /\ \A k \in DOMAIN a : Bytes(p, k) \in Seq(Int)
      /\ \A k \in DOMAIN b : Bytes(q, k) \in Seq(Int)
      /\ \A k \in DOMAIN c : Bytes(r, k) \in Seq(Int)
  BY PathType
<1>7. CASE i < j
  <2>1. i \in 1..Len(c) /\ i < Len(c) /\ i \in 1..(j - 1) /\ i \in DOMAIN b /\ i \in DOMAIN c
    BY <1>1, <1>4, <1>5, <1>7
  <2>2. b[i] = c[i]
    BY <1>5, <2>1
  <2>3. \A k \in 1..(i - 1) : a[k] = c[k]
    BY <1>4, <1>5, <1>7
  <2>4. i <= Len(a) => BytesBefore(Bytes(p, i), Bytes(r, i))
    <3> SUFFICES ASSUME i <= Len(a) PROVE BytesBefore(Bytes(p, i), Bytes(r, i))
      OBVIOUS
    <3>1. i \in DOMAIN a
      BY <1>1, <1>4
    <3> QED
      BY <1>4, <1>6, <2>1, <2>2, <3>1, BeforeLessThenSame
  <2>5. BeforeAt(p, r, i)
    BY <1>4, <2>1, <2>2, <2>3, <2>4 DEF BeforeAt
  <2> QED
    BY <2>1, <2>5, BeforeIsAt
<1>8. CASE j < i
  <2>1. /\ j \in DOMAIN a /\ j \in DOMAIN b /\ j \in DOMAIN c /\ j < Len(b)
        /\ j \in 1..(i - 1) /\ j <= Len(a) /\ j <= Len(b)
    BY <1>1, <1>4, <1>5, <1>8
  <2>2. a[j] = b[j]
    BY <1>4, <2>1
  <2>3. \A k \in 1..(j - 1) : a[k] = c[k]
    BY <1>4, <1>5, <1>8
  <2>4. BytesBefore(Bytes(p, j), Bytes(r, j))
    BY <1>5, <1>6, <2>1, <2>2, BeforeSameThenLess
  <2>5. BeforeAt(p, r, j)
    BY <1>5, <2>1, <2>2, <2>3, <2>4 DEF BeforeAt
  <2> QED
    BY <1>3, <2>5, BeforeIsAt
<1>9. CASE i = j
  <2>1. i \in 1..Len(c) /\ i \in DOMAIN b /\ i \in DOMAIN c
    BY <1>1, <1>3, <1>9
  <2>2. \A k \in 1..(i - 1) : a[k] = c[k]
    BY <1>4, <1>5, <1>9
  <2>3. CASE ~(i <= Len(a))
    <3>1. BeforeAt(p, r, i)
      BY <1>4, <2>1, <2>2, <2>3 DEF BeforeAt
    <3> QED
      BY <2>1, <3>1, BeforeIsAt
  <2>4. CASE i <= Len(a)
    <3>1. i \in DOMAIN a
      BY <1>1, <1>4, <2>4
    <3>2. BytesBefore(Bytes(p, i), Bytes(r, i))
      <4>1. BytesBefore(Bytes(p, i), Bytes(q, i)) /\ BytesBefore(Bytes(q, i), Bytes(r, i))
        BY <1>4, <1>5, <1>9, <2>4
      <4> QED
        BY <1>6, <2>1, <3>1, <4>1, BytesBeforeTransitive
    <3>3. CASE a[i] # c[i]
      <4>1. BeforeAt(p, r, i)
        BY <1>4, <2>1, <2>2, <3>2, <3>3 DEF BeforeAt
      <4> QED
        BY <2>1, <4>1, BeforeIsAt
    <3>4. CASE a[i] = c[i]
      <4>1. i = Len(a) /\ i < Len(c)
        BY <1>4, <2>1, <3>1, <3>2, <3>4, BeforeSame
      <4>2. \A k \in 1..Len(a) : c[k] = a[k]
        <5>1. \A k \in 1..Len(a) : k \in 1..(i - 1) \/ k = i
          BY <1>1, <4>1
        <5> QED
          BY <2>2, <3>4, <5>1
      <4>3. Under(r, p)
        BY <4>1, <4>2, UnderIsPrefix
      <4> QED
        BY <4>3 DEF Before
    <3> QED
      BY <3>3, <3>4
  <2> QED
    BY <2>3, <2>4
<1> QED
  BY <1>4, <1>5, <1>7, <1>8, <1>9

\* Of finitely many paths one has none before it.
LEMMA MinimalPath ==
  ASSUME NEW T, T \subseteq Path, IsFiniteSet(T), T # {}
  PROVE  \E x \in T : \A y \in T : ~Before(y, x)
<1> DEFINE Down(x) == {y \in T : Before(y, x)}
           F == FiniteSubsetsOf(T)
           R == StrictSubsetOrdering(T)
           U == {Down(x) : x \in T}
<1>1. IsWellFoundedOn(R, F)
  BY FS_StrictSubsetOrderingWellFounded
<1>2. U \subseteq F /\ U # {}
  <2>1. F = SUBSET T
    BY FS_FiniteSubsetsOfFinite
  <2>2. \A x \in T : Down(x) \in SUBSET T
    OBVIOUS
  <2> HIDE DEF F, Down
  <2> QED
    BY <2>1, <2>2
<1>3. PICK X \in U : \A Y \in U : ~(<<Y, X>> \in R)
  <2> HIDE DEF R, F, U
  <2> QED
    BY <1>1, <1>2, WFMin
<1>4. PICK x \in T : X = Down(x)
  OBVIOUS
<1>5. ASSUME NEW y \in T, Before(y, x)
      PROVE  FALSE
  <2>1. Down(y) \subseteq Down(x)
    BY <1>5, BeforeTransitive
  <2>2. y \in Down(x) /\ y \notin Down(y)
    BY <1>5, BeforeIrreflexive
  <2>3. Down(y) \in U /\ Down(y) \in SUBSET T /\ Down(x) \in SUBSET T
    OBVIOUS
  <2> HIDE DEF Down, U
  <2>4. <<Down(y), Down(x)>> \in R
    BY <2>1, <2>2, <2>3 DEF StrictSubsetOrdering
  <2> QED
    BY <1>3, <1>4, <2>3, <2>4
<1> QED
  BY <1>5

\* A string between s and s followed by a slash is s followed by a smaller byte.
LEMMA BetweenBytes ==
  ASSUME NEW s \in Seq(Int), NEW t \in Seq(Int),
         BytesBefore(s, t), BytesBefore(t, Append(s, Slash))
  PROVE  /\ Len(t) > Len(s)
         /\ \A k \in 1..Len(s) : t[k] = s[k]
         /\ t[Len(s) + 1] < Slash
<1> DEFINE u == Append(s, Slash)
           n == Len(s)
<1>1. /\ u \in Seq(Int) /\ Len(u) = n + 1 /\ n \in Nat /\ Len(t) \in Nat
      /\ \A k \in 1..n : s[k] = u[k] /\ s[k] \in Int /\ u[k] \in Int
      /\ u[n + 1] = Slash
      /\ \A k \in 1..Len(t) : t[k] \in Int
  BY DEF Slash
<1> HIDE DEF u, n
<1>2. PICK i \in 1..Len(t) : BytesBeforeAt(s, t, i)
  BY BytesBeforeIsAt
<1>3. PICK j \in 1..Len(u) : BytesBeforeAt(t, u, j)
  BY <1>1, BytesBeforeIsAt DEF u
<1>4. /\ i <= n + 1 /\ i <= Len(t)
      /\ \A k \in 1..(i - 1) : s[k] = t[k]
      /\ i <= n => s[i] < t[i]
  BY <1>2 DEF BytesBeforeAt, n
<1>5. /\ j <= n + 1 /\ j <= Len(t) + 1
      /\ \A k \in 1..(j - 1) : t[k] = u[k]
      /\ j <= Len(t) => t[j] < u[j]
  BY <1>1, <1>3 DEF BytesBeforeAt
<1>6. ~(j < i)
  <2> SUFFICES ASSUME j < i PROVE FALSE
    OBVIOUS
  <2>1. j \in 1..(i - 1) /\ j \in 1..n /\ j <= Len(t) /\ j \in 1..Len(t)
    BY <1>1, <1>4, <1>5
  <2>2. s[j] = t[j] /\ t[j] < u[j] /\ s[j] = u[j] /\ t[j] \in Int
    BY <1>1, <1>4, <1>5, <2>1
  <2> QED
    BY <2>2
<1>7. i = n + 1
  <2> SUFFICES ASSUME i <= n PROVE FALSE
    BY <1>1, <1>4
  <2>1. i \in 1..n /\ i \in 1..Len(t) /\ s[i] < t[i] /\ s[i] = u[i]
    BY <1>1, <1>4
  <2>2. CASE i = j
    <3>1. t[i] < u[i]
      BY <1>4, <1>5, <2>2
    <3> QED
      BY <1>1, <2>1, <3>1
  <2>3. CASE i < j
    <3>1. i \in 1..(j - 1)
      BY <2>3
    <3>2. t[i] = u[i]
      BY <1>5, <3>1
    <3> QED
      BY <1>1, <2>1, <3>2
  <2> QED
    BY <1>6, <2>2, <2>3
<1>8. j = n + 1
  BY <1>1, <1>5, <1>6, <1>7
<1>9. n + 1 <= Len(t) /\ t[n + 1] < Slash
  BY <1>1, <1>4, <1>5, <1>7, <1>8
<1>10. \A k \in 1..n : t[k] = s[k]
  BY <1>1, <1>4, <1>7
<1> QED
  BY <1>1, <1>9, <1>10 DEF n

\* What sorts between a path and one under it is under it too, or is its sibling.
LEMMA BetweenIsSibling ==
  ASSUME NEW p \in Path, NEW q \in Path, NEW r \in Path, p.segments # <<>>,
         Under(q, p), Before(p, r), Before(r, q), ~Under(r, p)
  PROVE  Sibling(r, p)
<1> DEFINE a == p.segments
           b == q.segments
           c == r.segments
           n == Len(a)
<1>1. /\ a \in Seq(Seq(Int)) /\ n \in Nat /\ DOMAIN a = 1..n
      /\ b \in Seq(Seq(Int)) /\ Len(b) \in Nat /\ DOMAIN b = 1..Len(b)
      /\ c \in Seq(Seq(Int)) /\ Len(c) \in Nat /\ DOMAIN c = 1..Len(c)
  BY PathType
<1>2. n >= 1
  BY <1>1
<1>3. n < Len(b) /\ \A k \in 1..n : b[k] = a[k]
  BY UnderIsPrefix
<1>4. PICK i \in 1..Len(c) : BeforeAt(p, r, i)
  BY BeforeIsAt
<1>5. PICK j \in 1..Len(b) : BeforeAt(r, q, j)
  BY BeforeIsAt
<1>6. /\ i <= n + 1
      /\ \A k \in 1..(i - 1) : a[k] = c[k]
      /\ i <= n => a[i] # c[i] /\ BytesBefore(Bytes(p, i), Bytes(r, i))
  BY <1>4 DEF BeforeAt
<1>7. /\ j <= Len(c) + 1
      /\ \A k \in 1..(j - 1) : c[k] = b[k]
      /\ j <= Len(c) => c[j] # b[j] /\ BytesBefore(Bytes(r, j), Bytes(q, j))
  BY <1>5 DEF BeforeAt
<1>8. i <= n
  <2> SUFFICES ASSUME i = n + 1 PROVE FALSE
    BY <1>1, <1>6
  <2>1. n < Len(c) /\ \A k \in 1..n : c[k] = a[k]
    BY <1>1, <1>6
  <2> QED
    BY <2>1, UnderIsPrefix
<1>9. i = j
  <2>1. ~(i < j)
    <3> SUFFICES ASSUME i < j PROVE FALSE
      OBVIOUS
    <3>1. i \in 1..(j - 1) /\ i \in 1..n
      BY <1>1, <1>8
    <3> QED
      BY <1>3, <1>6, <1>7, <1>8, <3>1
  <2>2. ~(j < i)
    <3> SUFFICES ASSUME j < i PROVE FALSE
      OBVIOUS
    <3>1. j \in 1..(i - 1) /\ j \in 1..n /\ j <= Len(c)
      BY <1>1, <1>8
    <3> QED
      BY <1>3, <1>6, <1>7, <3>1
  <2> QED
    BY <2>1, <2>2
<1>10. /\ i \in DOMAIN a /\ i \in DOMAIN b /\ i \in DOMAIN c /\ a[i] = b[i]
       /\ BytesBefore(Bytes(p, i), Bytes(r, i)) /\ BytesBefore(Bytes(r, i), Bytes(q, i))
  BY <1>1, <1>3, <1>6, <1>7, <1>8, <1>9
<1>11. Bytes(q, i) = Append(a[i], Slash)
  <2>1. i # Len(b)
    BY <1>1, <1>3, <1>8
  <2> QED
    BY <1>10, <2>1 DEF Bytes
<1>12. Bytes(p, i) \in Seq(Int) /\ Bytes(r, i) \in Seq(Int) /\ a[i] \in Seq(Int)
       /\ c[i] \in Seq(Int)
  BY <1>10, PathType
<1>13. i = n /\ Bytes(p, i) = a[i]
  <2>1. Bytes(p, i) # Bytes(q, i)
    BY <1>10, <1>12, BytesBeforeTransitive, BytesBeforeIrreflexive
  <2> QED
    BY <1>11, <2>1 DEF Bytes
<1> DEFINE k == Len(a[n])
           t == Bytes(r, n)
<1>14. /\ Len(t) > k
       /\ \A m \in 1..k : t[m] = a[n][m]
       /\ t[k + 1] < Slash
  BY <1>10, <1>11, <1>12, <1>13, BetweenBytes
<1>15. t = c[n] \/ t = Append(c[n], Slash)
  BY <1>10, <1>13, PathType
<1>16. /\ Len(c[n]) > k
       /\ \A m \in 1..k : c[n][m] = a[n][m]
       /\ c[n][k + 1] < Slash
  <2>1. k \in Nat /\ c[n] \in Seq(Int) /\ Len(c[n]) \in Nat
    BY <1>12, <1>13
  <2>2. CASE t = c[n]
    BY <1>14, <2>2
  <2>3. CASE t = Append(c[n], Slash)
    <3>1. /\ Len(t) = Len(c[n]) + 1 /\ t[Len(c[n]) + 1] = Slash
          /\ \A m \in 1..Len(c[n]) : t[m] = c[n][m]
      BY <2>1, <2>3
    <3>2. k + 1 # Len(c[n]) + 1
      BY <1>14, <3>1 DEF Slash
    <3>3. Len(c[n]) > k
      <4>1. Len(c[n]) + 1 > k
        BY <1>14, <3>1
      <4> QED
        BY <2>1, <3>2, <4>1
    <3>4. k + 1 \in 1..Len(c[n]) /\ \A m \in 1..k : m \in 1..Len(c[n])
      <4>1. \A x, y \in Nat : y > x => x + 1 \in 1..y /\ \A m \in 1..x : m \in 1..y
        OBVIOUS
      <4> HIDE DEF k, c, n
      <4> QED
        BY <2>1, <3>3, <4>1
    <3>5. t[k + 1] = c[n][k + 1] /\ \A m \in 1..k : t[m] = c[n][m]
      BY <3>1, <3>4
    <3> QED
      BY <1>14, <3>3, <3>5
  <2> QED
    BY <1>15, <2>2, <2>3
<1>17. SubSeq(c, 1, n - 1) = SubSeq(a, 1, n - 1)
  <2>1. n - 1 \in Nat /\ n - 1 <= Len(c) /\ n - 1 <= Len(a) /\ \A m \in 1..(n - 1) : c[m] = a[m]
    BY <1>1, <1>2, <1>6, <1>10, <1>13
  <2> HIDE DEF a, c, n
  <2> QED
    BY <1>1, <2>1, SamePrefix
<1>18. SubSeq(c[n], 1, k) = a[n]
  <2>1. /\ c[n] \in Seq(Int) /\ a[n] \in Seq(Int) /\ k \in Nat /\ k <= Len(c[n])
        /\ SubSeq(a[n], 1, k) = a[n]
    BY <1>12, <1>13, <1>16
  <2>2. SubSeq(c[n], 1, k) = SubSeq(a[n], 1, k) <=> \A m \in 1..k : c[n][m] = a[n][m]
    BY <2>1, SamePrefix
  <2> QED
    BY <1>16, <2>1, <2>2
<1>19. Len(c) >= n
  BY <1>1, <1>10, <1>13
<1> QED
  BY <1>16, <1>17, <1>18, <1>19 DEF Sibling

\* Paths of which no two neighbours are nested are nested only past a sibling.
LEMMA NestedHasSibling ==
  ASSUME NEW paths, paths \subseteq Path, IsFiniteSet(paths), ~Overlapping(paths),
         NEW p \in paths, NEW q \in paths, p.segments # <<>>, Under(q, p)
  PROVE  \E r \in paths : Sibling(r, p)
<1> DEFINE T == {x \in paths : Under(x, p)}
<1>1. T \subseteq Path /\ T # {} /\ IsFiniteSet(T)
  BY FS_Subset
<1>2. PICK x \in T : \A y \in T : ~Before(y, x)
  <2> HIDE DEF T
  <2> QED
    BY <1>1, MinimalPath
<1>3. PICK r \in paths : Before(p, r) /\ Before(r, x)
  BY DEF Overlapping
<1>4. ~Under(r, p)
  BY <1>2, <1>3
<1> QED
  BY <1>3, <1>4, BetweenIsSibling
=============================================================================
