----------------------------- MODULE ListProofs -----------------------------
(***************************************************************************)
(* Facts about queues and lists that hold each of their elements once      *)
(* (IsInjective), about finite sets turned into lists, about the least of  *)
(* a set of numbers, about sums, and about recursion: folds from the left  *)
(* and lists of lists.  The proofs of several components need them.        *)
(* LeastOf stands in for induction: what holds of all naturals has no      *)
(* least exception.                                                        *)
(***************************************************************************)
EXTENDS Integers, Sequences, FiniteSets, SequencesExt, FiniteSetTheorems, SequenceTheorems,
        WellFoundedInduction, TLAPS

\* A new element joins at the end.
LEMMA QueueAppended ==
    ASSUME NEW S, NEW q \in Seq(S), IsInjective(q), NEW x \in S, x \notin ToSet(q)
    PROVE  /\ Append(q, x) \in Seq(S) /\ IsInjective(Append(q, x))
           /\ ToSet(Append(q, x)) = ToSet(q) \cup {x} /\ Append(q, x) # <<>>
<1> DEFINE p == Append(q, x)
           n == Len(q)
<1>1. /\ p \in Seq(S) /\ p # <<>> /\ n \in Nat /\ DOMAIN q = 1 .. n /\ DOMAIN p = 1 .. n + 1
      /\ \A i \in 1 .. n : p[i] = q[i]
      /\ p[n + 1] = x
  BY AppendProperties, LenProperties
<1> HIDE DEF p, n
<1>2. \A i \in 1 .. n : q[i] # x
  BY <1>1 DEF ToSet
<1>3. IsInjective(p)
  BY <1>1, <1>2 DEF IsInjective
<1>4. ToSet(p) = ToSet(q) \cup {x}
  BY <1>1 DEF ToSet
<1> QED
  BY <1>1, <1>3, <1>4 DEF p

\* The first one leaves.
LEMMA QueueAdvanced ==
    ASSUME NEW S, NEW q \in Seq(S), IsInjective(q), q # <<>>
    PROVE  /\ Head(q) \in ToSet(q) /\ Tail(q) \in Seq(S) /\ IsInjective(Tail(q))
           /\ ToSet(Tail(q)) = ToSet(q) \ {Head(q)}
<1> DEFINE p == Tail(q)
           n == Len(q)
<1>1. /\ p \in Seq(S) /\ n \in Nat \ {0} /\ DOMAIN q = 1 .. n /\ DOMAIN p = 1 .. n - 1
      /\ \A i \in 1 .. n - 1 : p[i] = q[i + 1]
      /\ Head(q) = q[1]
  BY HeadTailProperties, LenProperties, EmptySeq
<1> HIDE DEF p, n
<1>a. \A i, j \in 1 .. n : q[i] = q[j] => i = j
  BY <1>1 DEF IsInjective
<1>2. IsInjective(p)
  <2> SUFFICES ASSUME NEW i \in 1 .. n - 1, NEW j \in 1 .. n - 1, p[i] = p[j] PROVE i = j
    BY <1>1 DEF IsInjective
  <2>1. i + 1 \in 1 .. n /\ j + 1 \in 1 .. n /\ q[i + 1] = q[j + 1]
    BY <1>1
  <2> QED BY <1>a, <2>1
<1>3. ToSet(p) = ToSet(q) \ {Head(q)}
  <2>1. \A i \in 2 .. n : q[i] # q[1] /\ i - 1 \in 1 .. n - 1 /\ p[i - 1] = q[i]
    <3> SUFFICES ASSUME NEW i \in 2 .. n
                 PROVE  q[i] # q[1] /\ i - 1 \in 1 .. n - 1 /\ p[i - 1] = q[i]
      OBVIOUS
    <3>1. i \in 1 .. n /\ 1 \in 1 .. n /\ i # 1 /\ i - 1 \in 1 .. n - 1 /\ (i - 1) + 1 = i
      BY <1>1
    <3> QED BY <1>1, <1>a, <3>1
  <2>2. ASSUME NEW y \in ToSet(q) \ {Head(q)} PROVE y \in ToSet(p)
    <3>1. PICK i \in 2 .. n : q[i] = y
      BY <1>1 DEF ToSet
    <3> QED BY <1>1, <2>1, <3>1 DEF ToSet
  <2>3. ASSUME NEW y \in ToSet(p) PROVE y \in ToSet(q) \ {Head(q)}
    <3>1. PICK i \in 1 .. n - 1 : p[i] = y
      BY <1>1 DEF ToSet
    <3>2. i + 1 \in 1 .. n /\ i + 1 \in 2 .. n /\ y = q[i + 1]
      BY <1>1, <3>1
    <3>3. y # Head(q)
      BY <1>1, <2>1, <3>2
    <3>4. y \in ToSet(q)
      BY <1>1, <3>2 DEF ToSet
    <3> QED BY <3>3, <3>4
  <2> QED BY <2>2, <2>3
<1>4. Head(q) \in ToSet(q)
  BY <1>1 DEF ToSet
<1> QED
  BY <1>1, <1>2, <1>3, <1>4 DEF p

\* One in the middle leaves.
LEMMA QueueLeft ==
    ASSUME NEW S, NEW q \in Seq(S), IsInjective(q), NEW k \in DOMAIN q
    PROVE  /\ RemoveAt(q, k) \in Seq(S) /\ IsInjective(RemoveAt(q, k))
           /\ ToSet(RemoveAt(q, k)) = ToSet(q) \ {q[k]}
<1> DEFINE n == Len(q)
           front == SubSeq(q, 1, k - 1)
           back == SubSeq(q, k + 1, n)
           p == front \o back
<1>1. n \in Nat /\ k \in 1 .. n /\ DOMAIN q = 1 .. n /\ \A i \in 1 .. n : q[i] \in S
  BY LenProperties, ElementOfSeq
<1>2. /\ front \in Seq(S) /\ Len(front) = k - 1 /\ \A i \in 1 .. k - 1 : front[i] = q[i]
  <2>1. k - 1 \in Int /\ \A i \in 1 .. k - 1 : q[i] \in S /\ 1 + i - 1 = i /\ k - 1 - 1 + 1 = k - 1
    BY <1>1
  <2> QED BY <1>1, <2>1, SubSeqProperties
<1>3. /\ back \in Seq(S) /\ Len(back) = n - k /\ \A i \in 1 .. n - k : back[i] = q[i + k]
  <2>1. k + 1 \in Int /\ n \in Int /\ \A i \in k + 1 .. n : q[i] \in S
    BY <1>1
  <2>2. /\ back \in Seq(S) /\ Len(back) = IF k + 1 <= n THEN n - (k + 1) + 1 ELSE 0
        /\ \A i \in 1 .. n - (k + 1) + 1 : back[i] = q[k + 1 + i - 1]
    BY <2>1, SubSeqProperties
  <2>3. n - (k + 1) + 1 = n - k /\ \A i \in 1 .. n - k : k + 1 + i - 1 = i + k
    BY <1>1
  <2> QED BY <1>1, <2>2, <2>3
<1> HIDE DEF front, back, n
<1>4. /\ p \in Seq(S) /\ Len(p) = n - 1 /\ DOMAIN p = 1 .. n - 1
      /\ \A i \in 1 .. n - 1 : p[i] = IF i < k THEN q[i] ELSE q[i + 1]
  <2>0. Len(front) = k - 1 /\ Len(back) = n - k /\ front \in Seq(S) /\ back \in Seq(S)
    BY <1>2, <1>3
  <2>1. /\ p \in Seq(S) /\ Len(p) = (k - 1) + (n - k)
        /\ \A i \in 1 .. (k - 1) + (n - k) : p[i] = IF i <= k - 1 THEN front[i] ELSE back[i - (k - 1)]
    <3>1. /\ p \in Seq(S) /\ Len(p) = Len(front) + Len(back)
          /\ \A i \in 1 .. Len(front) + Len(back) :
                p[i] = IF i <= Len(front) THEN front[i] ELSE back[i - Len(front)]
      BY <2>0, ConcatProperties
    <3> QED BY <2>0, <3>1
  <2>2. (k - 1) + (n - k) = n - 1
    BY <1>1
  <2>3. \A i \in k .. n - 1 : i - (k - 1) \in 1 .. n - k /\ i - (k - 1) + k = i + 1
    BY <1>1
  <2>4. DOMAIN p = 1 .. n - 1
    BY <2>1, <2>2, LenProperties
  <2>5. ASSUME NEW i \in 1 .. n - 1 PROVE p[i] = IF i < k THEN q[i] ELSE q[i + 1]
    <3>1. p[i] = IF i <= k - 1 THEN front[i] ELSE back[i - (k - 1)]
      BY <2>1, <2>2
    <3>2. CASE i < k
      <4>1. i <= k - 1 /\ i \in 1 .. k - 1
        BY <1>1, <3>2
      <4> QED BY <1>2, <3>1, <3>2, <4>1
    <3>3. CASE ~(i < k)
      <4>1. ~(i <= k - 1) /\ i \in k .. n - 1
        BY <1>1, <3>3
      <4> QED BY <1>3, <2>3, <3>1, <3>3, <4>1
    <3> QED BY <3>2, <3>3
  <2> QED BY <2>1, <2>2, <2>4, <2>5
<1>5. RemoveAt(q, k) = p
  BY DEF RemoveAt, front, back, p, n
<1> HIDE DEF p
<1>a. \A i, j \in 1 .. n : q[i] = q[j] => i = j
  BY <1>1 DEF IsInjective
<1> DEFINE src(i) == IF i < k THEN i ELSE i + 1
<1>b. \A i \in 1 .. n - 1 : src(i) \in 1 .. n /\ src(i) # k /\ p[i] = q[src(i)]
  BY <1>1, <1>4
<1>c. \A i, j \in 1 .. n - 1 : src(i) = src(j) => i = j
  BY <1>1
<1> HIDE DEF src
<1>d. DOMAIN p = 1 .. n - 1
  BY <1>4
<1>6. IsInjective(p)
  <2> SUFFICES ASSUME NEW i \in 1 .. n - 1, NEW j \in 1 .. n - 1, p[i] = p[j] PROVE i = j
    BY <1>d DEF IsInjective
  <2>1. src(i) = src(j)
    BY <1>a, <1>b
  <2> QED BY <1>c, <2>1
<1>7. ToSet(p) = ToSet(q) \ {q[k]}
  <2>1. ASSUME NEW y \in ToSet(q) \ {q[k]} PROVE y \in ToSet(p)
    <3>1. PICK i \in 1 .. n : q[i] = y /\ i # k
      BY <1>1 DEF ToSet
    <3>2. CASE i < k
      <4>1. i \in 1 .. n - 1 /\ p[i] = y
        BY <1>1, <1>4, <3>1, <3>2
      <4> QED BY <1>d, <4>1 DEF ToSet
    <3>3. CASE i > k
      <4>1. i - 1 \in 1 .. n - 1 /\ p[i - 1] = y
        BY <1>1, <1>4, <3>1, <3>3
      <4> QED BY <1>d, <4>1 DEF ToSet
    <3> QED BY <1>1, <3>1, <3>2, <3>3
  <2>2. ASSUME NEW y \in ToSet(p) PROVE y \in ToSet(q) \ {q[k]}
    <3>1. PICK i \in 1 .. n - 1 : p[i] = y
      BY <1>4 DEF ToSet
    <3>2. src(i) \in 1 .. n /\ src(i) # k /\ y = q[src(i)]
      BY <1>b, <3>1
    <3> QED BY <1>1, <1>a, <3>2 DEF ToSet
  <2> QED BY <2>1, <2>2
<1> QED
  BY <1>4, <1>5, <1>6, <1>7

\* Two lists without a common element, one after the other.
LEMMA ListsJoined ==
    ASSUME NEW S, NEW p \in Seq(S), NEW q \in Seq(S), IsInjective(p), IsInjective(q),
           ToSet(p) \cap ToSet(q) = {}
    PROVE  /\ p \o q \in Seq(S) /\ IsInjective(p \o q)
           /\ ToSet(p \o q) = ToSet(p) \cup ToSet(q)
           /\ Len(p) <= Len(p \o q)
           /\ \A i \in 1 .. Len(p) : (p \o q)[i] = p[i]
<1> DEFINE w == p \o q
           m == Len(p)
           n == Len(q)
<1>1. /\ m \in Nat /\ n \in Nat /\ DOMAIN p = 1 .. m /\ DOMAIN q = 1 .. n
      /\ w \in Seq(S) /\ DOMAIN w = 1 .. m + n /\ Len(w) = m + n
      /\ \A i \in 1 .. m + n : w[i] = IF i <= m THEN p[i] ELSE q[i - m]
  BY ConcatProperties, LenProperties
<1> HIDE DEF w, m, n
<1>2. /\ \A i, j \in 1 .. m : p[i] = p[j] => i = j
      /\ \A i, j \in 1 .. n : q[i] = q[j] => i = j
      /\ \A i \in 1 .. m, j \in 1 .. n : p[i] # q[j]
  <2>1. \A i, j \in 1 .. m : p[i] = p[j] => i = j
    BY <1>1 DEF IsInjective
  <2>2. \A i, j \in 1 .. n : q[i] = q[j] => i = j
    BY <1>1 DEF IsInjective
  <2>3. (\A i \in 1 .. m : p[i] \in ToSet(p)) /\ \A j \in 1 .. n : q[j] \in ToSet(q)
    BY <1>1 DEF ToSet
  <2>4. \A i \in 1 .. m, j \in 1 .. n : p[i] # q[j]
    BY <2>3
  <2> QED BY <2>1, <2>2, <2>4
<1>3. \A i \in 1 .. m + n : \/ i \in 1 .. m /\ w[i] = p[i]
                            \/ i > m /\ i - m \in 1 .. n /\ w[i] = q[i - m]
  BY <1>1
<1>4. /\ \A i \in 1 .. m : i \in 1 .. m + n /\ w[i] = p[i]
      /\ \A i \in 1 .. n : i + m \in 1 .. m + n /\ w[i + m] = q[i]
  BY <1>1
<1>5. IsInjective(w)
  <2> SUFFICES ASSUME NEW i \in 1 .. m + n, NEW j \in 1 .. m + n, w[i] = w[j] PROVE i = j
    BY <1>1 DEF IsInjective
  <2>1. CASE i \in 1 .. m /\ j \in 1 .. m
    BY <1>2, <1>4, <2>1
  <2>2. CASE i > m /\ j > m
    <3>1. /\ i - m \in 1 .. n /\ j - m \in 1 .. n /\ w[i] = q[i - m] /\ w[j] = q[j - m]
      BY <1>1, <1>3, <2>2
    <3>2. i - m = j - m
      BY <1>2, <3>1
    <3> QED BY <1>1, <3>2
  <2>3. CASE (i \in 1 .. m /\ j > m) \/ (i > m /\ j \in 1 .. m)
    BY <1>1, <1>2, <1>3, <2>3
  <2> QED BY <1>1, <1>3, <2>1, <2>2, <2>3
<1>6. ToSet(w) = ToSet(p) \cup ToSet(q)
  <2>1. ASSUME NEW y \in ToSet(w) PROVE y \in ToSet(p) \cup ToSet(q)
    BY <1>1, <1>3 DEF ToSet
  <2>2. ASSUME NEW y \in ToSet(p) PROVE y \in ToSet(w)
    BY <1>1, <1>4 DEF ToSet
  <2>3. ASSUME NEW y \in ToSet(q) PROVE y \in ToSet(w)
    <3>1. PICK i \in 1 .. n : q[i] = y
      BY <1>1 DEF ToSet
    <3>2. i + m \in DOMAIN w /\ w[i + m] = y
      BY <1>1, <1>4, <3>1
    <3> QED BY <3>2 DEF ToSet
  <2> QED BY <2>1, <2>2, <2>3
<1>7. m <= Len(w)
  BY <1>1
<1> QED
  BY <1>1, <1>4, <1>5, <1>6, <1>7 DEF w, m

\* A piece of a list.
LEMMA ListCut ==
    ASSUME NEW S, NEW q \in Seq(S), IsInjective(q), NEW m \in Nat \ {0}, NEW n \in Nat, n <= Len(q)
    PROVE  /\ SubSeq(q, m, n) \in Seq(S) /\ IsInjective(SubSeq(q, m, n))
           /\ ToSet(SubSeq(q, m, n)) = {q[j] : j \in m .. n}
<1> DEFINE c == SubSeq(q, m, n)
           l == Len(q)
<1>1. /\ l \in Nat /\ DOMAIN q = 1 .. l /\ n <= l /\ \A i \in 1 .. l : q[i] \in S
  BY LenProperties, ElementOfSeq
<1>2. /\ c \in Seq(S) /\ Len(c) = IF m <= n THEN n - m + 1 ELSE 0
      /\ \A i \in 1 .. n - m + 1 : c[i] = q[m + i - 1]
  <2>1. \A i \in m .. n : q[i] \in S
    BY <1>1
  <2> QED BY <2>1, SubSeqProperties
<1>3. DOMAIN c = 1 .. n - m + 1
  <2>1. DOMAIN c = 1 .. Len(c)
    BY <1>2, LenProperties
  <2> QED BY <1>2, <2>1
<1> HIDE DEF c, l
<1>4. \A i, j \in 1 .. l : q[i] = q[j] => i = j
  BY <1>1 DEF IsInjective
<1>5. \A i \in 1 .. n - m + 1 : m + i - 1 \in 1 .. l /\ m + i - 1 \in m .. n /\ c[i] = q[m + i - 1]
  BY <1>1, <1>2
<1>6. \A j \in m .. n : j - m + 1 \in 1 .. n - m + 1 /\ c[j - m + 1] = q[j]
  <2>1. \A j \in m .. n : j - m + 1 \in 1 .. n - m + 1 /\ m + (j - m + 1) - 1 = j
    OBVIOUS
  <2> QED BY <1>5, <2>1
<1>7. IsInjective(c)
  <2> SUFFICES ASSUME NEW i \in 1 .. n - m + 1, NEW j \in 1 .. n - m + 1, c[i] = c[j] PROVE i = j
    BY <1>3 DEF IsInjective
  <2>1. m + i - 1 = m + j - 1
    BY <1>4, <1>5
  <2> QED BY <2>1
<1>8. ToSet(c) = {q[j] : j \in m .. n}
  <2>1. ASSUME NEW y \in ToSet(c) PROVE y \in {q[j] : j \in m .. n}
    BY <1>3, <1>5 DEF ToSet
  <2>2. ASSUME NEW j \in m .. n PROVE q[j] \in ToSet(c)
    BY <1>3, <1>6 DEF ToSet
  <2> QED BY <2>1, <2>2
<1> QED
  BY <1>2, <1>7, <1>8 DEF c

\* A finite set as a list.
LEMMA ListOfSet ==
    ASSUME NEW S, NEW T \in SUBSET S, IsFiniteSet(T)
    PROVE  SetToSeq(T) \in Seq(S) /\ IsInjective(SetToSeq(T)) /\ ToSet(SetToSeq(T)) = T
<1> DEFINE n == Cardinality(T)
           q == SetToSeq(T)
<1>1. n \in Nat /\ \E f : f \in Bijection(1 .. n, T)
  BY FS_CardinalityType DEF ExistsBijection
<1>2. \E f \in [1 .. n -> T] : IsInjective(f)
  BY <1>1 DEF Bijection, Injection
<1>3. q \in [1 .. n -> T] /\ IsInjective(q)
  BY <1>2 DEF SetToSeq
<1> HIDE DEF q
<1>4. IsFiniteSet(1 .. n) /\ Cardinality(1 .. n) = n
  BY <1>1, FS_Interval
<1>5. q \in Surjection(1 .. n, T)
  <2>1. q \in Injection(1 .. n, T)
    BY <1>3 DEF Injection
  <2> QED BY <1>4, <2>1, FS_Injection
<1>6. ToSet(q) = T
  BY <1>3, <1>5 DEF Surjection, ToSet
<1>7. q \in Seq(S)
  <2>1. q \in [1 .. n -> S]
    BY <1>3
  <2> HIDE DEF n
  <2> QED BY <1>1, <2>1, SeqDef
<1> QED
  BY <1>3, <1>6, <1>7 DEF q

\* A set of naturals has a least element.
LEMMA LeastOf == ASSUME NEW T \in SUBSET Nat, T # {} PROVE \E m \in T : \A n \in T : m <= n
<1>1. PICK m \in T : \A n \in T : ~(<<n, m>> \in OpToRel(<, Nat))
  BY NatLessThanWellFounded, WFMin
<1>2. \A n \in T : ~(n < m)
  <2> SUFFICES ASSUME NEW n \in T, n < m PROVE FALSE
    OBVIOUS
  <2>1. <<n, m>> \in OpToRel(<, Nat)
    BY Zenon DEF OpToRel
  <2> QED BY <1>1, <2>1
<1> QED BY <1>2

-----------------------------------------------------------------------------
(* Sums over a finite set, which the community modules write as a fold, as  *)
(* the size of a set.                                                       *)

Total(g, T) == MapThenSumSet(LAMBDA x : g[x], T)

\* g[x] things for each x of T.
Pile(g, T) == {p \in T \X Nat : p[2] \in 1 .. g[p[1]]}

Picked(T) == CHOOSE x \in T : TRUE

LEMMA PileOfOne ==
    ASSUME NEW g, NEW x, g[x] \in Nat
    PROVE  /\ Pile(g, {x}) = {x} \X (1 .. g[x])
           /\ IsFiniteSet(Pile(g, {x})) /\ Cardinality(Pile(g, {x})) = g[x]
<1>1. Pile(g, {x}) = {x} \X (1 .. g[x])
  <2>1. 1 .. g[x] \subseteq Nat
    OBVIOUS
  <2>2. ASSUME NEW p \in {x} \X Nat, p[2] \in 1 .. g[p[1]] PROVE p \in {x} \X (1 .. g[x])
    <3>1. p = <<p[1], p[2]>> /\ p[1] = x
      OBVIOUS
    <3>2. p[2] \in 1 .. g[x]
      BY <2>2, <3>1
    <3> QED BY <3>1, <3>2
  <2>3. ASSUME NEW p \in {x} \X (1 .. g[x]) PROVE p \in {x} \X Nat /\ p[2] \in 1 .. g[p[1]]
    <3>1. p[1] = x /\ p[2] \in 1 .. g[x]
      OBVIOUS
    <3>2. p \in {x} \X Nat
      BY <2>1
    <3> QED BY <3>1, <3>2
  <2> QED BY <2>2, <2>3, Zenon DEF Pile
<1> DEFINE I == 1 .. g[x]
<1>2. IsFiniteSet(I) /\ Cardinality(I) = g[x]
  <2>1. \A n \in Nat : IsFiniteSet(1 .. n) /\ Cardinality(1 .. n) = n
    BY FS_Interval
  <2> QED BY <2>1
<1>3. IsFiniteSet({x}) /\ Cardinality({x}) = 1
  BY FS_Singleton
<1> HIDE DEF I
<1>4. IsFiniteSet({x} \X I) /\ Cardinality({x} \X I) = Cardinality({x}) * Cardinality(I)
  BY <1>2, <1>3, FS_Product
<1>5. 1 * g[x] = g[x]
  OBVIOUS
<1>6. Pile(g, {x}) = {x} \X I
  BY <1>1 DEF I
<1>7. IsFiniteSet(Pile(g, {x}))
  BY <1>4, <1>6
<1>8. Cardinality(Pile(g, {x})) = g[x]
  BY <1>2, <1>3, <1>4, <1>5, <1>6
<1> QED BY <1>1, <1>7, <1>8

\* One more element brings its own part.
LEMMA PileWithOneMore ==
    ASSUME NEW g, NEW T, NEW x, x \notin T, g[x] \in Nat, IsFiniteSet(Pile(g, T))
    PROVE  /\ IsFiniteSet(Pile(g, T \cup {x}))
           /\ Cardinality(Pile(g, T \cup {x})) = Cardinality(Pile(g, T)) + g[x]
<1>1. Pile(g, T \cup {x}) = Pile(g, T) \cup Pile(g, {x})
  <2>1. (T \cup {x}) \X Nat = (T \X Nat) \cup ({x} \X Nat)
    OBVIOUS
  <2> QED BY <2>1, Zenon DEF Pile
<1>2. Pile(g, T) \cap Pile(g, {x}) = {}
  BY DEF Pile
<1>3. IsFiniteSet(Pile(g, {x})) /\ Cardinality(Pile(g, {x})) = g[x]
  BY PileOfOne
<1>4. /\ IsFiniteSet(Pile(g, T) \cup Pile(g, {x}))
      /\ Cardinality(Pile(g, T) \cup Pile(g, {x})) =
           Cardinality(Pile(g, T)) + g[x] - Cardinality(Pile(g, T) \cap Pile(g, {x}))
  BY <1>3, FS_Union
<1>5. Cardinality(Pile(g, T)) \in Nat /\ Cardinality({}) = 0
  BY FS_CardinalityType, FS_EmptySet
<1> DEFINE a == Cardinality(Pile(g, T))
           b == Cardinality(Pile(g, T) \cup Pile(g, {x}))
<1>6. b = a + g[x] - 0 /\ a \in Nat
  BY <1>2, <1>4, <1>5
<1> HIDE DEF a, b
<1>7. b = a + g[x]
  BY <1>6
<1> QED BY <1>1, <1>4, <1>7 DEF a, b

LEMMA PileOfNone == ASSUME NEW g PROVE Pile(g, {}) = {}
<1>1. ASSUME NEW p \in Pile(g, {}) PROVE FALSE
  <2>1. p \in {} \X Nat
    BY <1>1, Zenon DEF Pile
  <2> QED BY <2>1
<1> QED BY <1>1

LEMMA PilesFinite ==
    ASSUME NEW T, IsFiniteSet(T), NEW g, \A x \in T : g[x] \in Nat
    PROVE  IsFiniteSet(Pile(g, T))
<1> DEFINE Part(x) == Pile(g, {x})
           parts == {Part(x) : x \in T}
<1>1. Pile(g, T) = UNION parts
  <2>1. ASSUME NEW p \in Pile(g, T) PROVE p \in UNION parts
    <3>1. p[1] \in T /\ p \in Pile(g, {p[1]})
      BY <2>1 DEF Pile
    <3> QED BY <3>1
  <2>2. ASSUME NEW x \in T, NEW p \in Pile(g, {x}) PROVE p \in Pile(g, T)
    BY <2>2 DEF Pile
  <2> QED BY <2>1, <2>2
<1>2. \A x \in T : IsFiniteSet(Part(x))
  BY PileOfOne
<1> HIDE DEF Part
<1>3. IsFiniteSet(parts)
  <2> DEFINE f == [x \in T |-> Part(x)]
  <2>1. f \in Surjection(T, parts)
    BY DEF Surjection
  <2> HIDE DEF f, parts
  <2> QED BY <2>1, FS_Surjection
<1> QED BY <1>1, <1>2, <1>3, FS_UNION

LEMMA SumIsPile ==
    ASSUME NEW T, IsFiniteSet(T), NEW g, \A x \in T : g[x] \in Nat
    PROVE  Total(g, T) = Cardinality(Pile(g, T))
<1> DEFINE Good(f) == f = [s \in SUBSET T |-> IF s = {} THEN 0 ELSE g[Picked(s)] + f[s \ {Picked(s)}]]
           iter == CHOOSE f : Good(f)
           size == [s \in SUBSET T |-> Cardinality(Pile(g, s))]
<1>1. Total(g, T) = iter[T]
  BY DEF Picked, Total, MapThenSumSet, MapThenFoldSet
<1>2. \A s \in SUBSET T : s # {} => Picked(s) \in s
  BY DEF Picked
<1>3. \A s \in SUBSET T : IsFiniteSet(s) /\ IsFiniteSet(Pile(g, s))
  BY FS_Subset, PilesFinite
<1>4. ASSUME NEW s \in SUBSET T, s # {}
      PROVE  size[s] = g[Picked(s)] + size[s \ {Picked(s)}]
  <2> DEFINE x == Picked(s)
             r == s \ {x}
  <2>1. x \in s /\ g[x] \in Nat /\ s = r \cup {x} /\ x \notin r /\ r \in SUBSET T
    BY <1>2, <1>4
  <2> HIDE DEF x, r
  <2>2. Cardinality(Pile(g, s)) = Cardinality(Pile(g, r)) + g[x]
    BY <1>3, <2>1, PileWithOneMore
  <2>3. Cardinality(Pile(g, r)) \in Nat
    BY <1>3, <2>1, FS_CardinalityType
  <2>4. size[s] = g[x] + size[r]
    BY <2>1, <2>2, <2>3
  <2> QED BY <2>4 DEF r, x
<1>5. size[{}] = 0
  BY PileOfNone, FS_EmptySet
<1> HIDE DEF size
<1>6. Good(size)
  <2>1. size = [s \in SUBSET T |-> size[s]]
    BY DEF size
  <2> QED BY <1>4, <1>5, <2>1
<1>7. Good(iter)
  BY <1>6
<1> HIDE DEF iter
<1>8. \A s \in SUBSET T : iter[s] = IF s = {} THEN 0 ELSE g[Picked(s)] + iter[s \ {Picked(s)}]
  BY <1>7
<1> DEFINE wrong == {n \in Nat : \E s \in SUBSET T : Cardinality(s) = n /\ iter[s] # size[s]}
<1>9. wrong = {}
  <2> SUFFICES ASSUME wrong # {} PROVE FALSE
    OBVIOUS
  <2>1. PICK n \in wrong : \A m \in wrong : n <= m
    BY LeastOf
  <2>2. PICK s \in SUBSET T : Cardinality(s) = n /\ iter[s] # size[s]
    BY <2>1
  <2>3. s # {}
    BY <1>5, <1>8, <2>2
  <2> DEFINE r == s \ {Picked(s)}
  <2>4. r \in SUBSET T /\ Picked(s) \in s
    BY <1>2, <2>3
  <2>5. Cardinality(r) = n - 1 /\ n - 1 \in Nat /\ n \in Nat
    <3>1. IsFiniteSet(s) /\ n \in Nat
      BY <1>3, <2>1
    <3>2. n # 0
      BY <2>2, <2>3, <3>1, FS_EmptySet
    <3>3. Cardinality(r) = n - 1
      BY <2>2, <2>4, <3>1, FS_RemoveElement
    <3> QED BY <3>1, <3>2, <3>3
  <2>6. n - 1 \notin wrong
    BY <2>1, <2>5
  <2>7. iter[r] = size[r]
    BY <2>4, <2>5, <2>6
  <2> QED BY <1>4, <1>8, <2>2, <2>3, <2>7
<1>10. iter[T] = size[T]
  <2>1. Cardinality(T) \in Nat
    BY FS_CardinalityType
  <2> QED BY <1>9, <2>1
<1> QED BY <1>1, <1>10 DEF size

\* A part of a finite set sums up to no more than all of it.
LEMMA SumGrows ==
    ASSUME NEW T, IsFiniteSet(T), NEW g, \A x \in T : g[x] \in Nat, NEW S \in SUBSET T
    PROVE  Total(g, S) \in Nat /\ Total(g, T) \in Nat /\ Total(g, S) <= Total(g, T)
<1>1. IsFiniteSet(S) /\ IsFiniteSet(Pile(g, S)) /\ IsFiniteSet(Pile(g, T))
  BY FS_Subset, PilesFinite
<1>2. Total(g, S) = Cardinality(Pile(g, S)) /\ Total(g, T) = Cardinality(Pile(g, T))
  BY <1>1, SumIsPile
<1>3. Pile(g, S) \subseteq Pile(g, T)
  BY DEF Pile
<1> QED BY <1>1, <1>2, <1>3, FS_Subset, FS_CardinalityType

LEMMA SumOfNone == ASSUME NEW g PROVE Total(g, {}) = 0
  BY SumIsPile, PileOfNone, FS_EmptySet

\* What counts nothing adds nothing.
LEMMA SumOfCounted ==
    ASSUME NEW T, IsFiniteSet(T), NEW g, \A x \in T : g[x] \in Nat
    PROVE  Total(g, {x \in T : g[x] > 0}) = Total(g, T)
<1> DEFINE S == {x \in T : g[x] > 0}
<1>1. IsFiniteSet(S)
  BY FS_Subset
<1>2. ASSUME NEW p \in Pile(g, T) PROVE p \in Pile(g, S)
  <2>1. p \in T \X Nat /\ p[2] \in 1 .. g[p[1]]
    BY <1>2, Zenon DEF Pile
  <2>2. p[1] \in T /\ p[2] \in Nat /\ p = <<p[1], p[2]>>
    BY <2>1
  <2>3. g[p[1]] > 0
    BY <2>1, <2>2
  <2>4. p \in S \X Nat
    BY <2>2, <2>3
  <2> QED BY <2>1, <2>4, Zenon DEF Pile
<1>3. Pile(g, S) \subseteq Pile(g, T)
  BY DEF Pile
<1>4. Pile(g, S) = Pile(g, T)
  BY <1>2, <1>3
<1> HIDE DEF S
<1>5. \A x \in S : g[x] \in Nat
  BY DEF S
<1>6. Total(g, S) = Total(g, T)
  BY <1>1, <1>4, <1>5, SumIsPile
<1> QED BY <1>6 DEF S

\* One more of x.
LEMMA SumStepped ==
    ASSUME NEW T, IsFiniteSet(T), NEW g \in [T -> Nat], NEW x \in T
    PROVE  Total([g EXCEPT ![x] = @ + 1], T) = Total(g, T) + 1
<1> DEFINE h == [g EXCEPT ![x] = @ + 1]
           R == T \ {x}
<1>1. /\ h \in [T -> Nat] /\ h[x] = g[x] + 1 /\ \A y \in R : h[y] = g[y]
      /\ IsFiniteSet(R) /\ T = R \cup {x} /\ x \notin R /\ g[x] \in Nat
  BY FS_RemoveElement
<1> HIDE DEF h, R
<1>2. Pile(h, R) = Pile(g, R)
  <2>1. \A p \in R \X Nat : p[1] \in R
    OBVIOUS
  <2>2. \A p \in R \X Nat : h[p[1]] = g[p[1]]
    BY <1>1, <2>1, Zenon
  <2> QED BY <2>2, Zenon DEF Pile
<1>3. IsFiniteSet(Pile(g, R)) /\ IsFiniteSet(Pile(h, R)) /\ Cardinality(Pile(g, R)) \in Nat
  BY <1>1, <1>2, PilesFinite, FS_CardinalityType
<1>4. /\ Cardinality(Pile(g, R \cup {x})) = Cardinality(Pile(g, R)) + g[x]
      /\ Cardinality(Pile(h, R \cup {x})) = Cardinality(Pile(h, R)) + h[x]
  BY <1>1, <1>3, PileWithOneMore
<1>5. Total(g, T) = Cardinality(Pile(g, T)) /\ Total(h, T) = Cardinality(Pile(h, T))
  BY <1>1, SumIsPile
<1>6. Total(g, T) = Cardinality(Pile(g, R)) + g[x]
  BY <1>1, <1>4, <1>5, Zenon
<1>7. Total(h, T) = Cardinality(Pile(g, R)) + h[x]
  BY <1>1, <1>2, <1>4, <1>5, Zenon
<1>8. Total(h, T) = Total(g, T) + 1
  <2> DEFINE c == Cardinality(Pile(g, R))
  <2>1. c \in Nat /\ Total(g, T) = c + g[x] /\ Total(h, T) = c + (g[x] + 1)
    BY <1>1, <1>3, <1>6, <1>7
  <2> HIDE DEF c
  <2> QED BY <1>1, <2>1
<1> QED BY <1>8 DEF h

\* Sets of integers: the least one, bounded or finite.
LEMMA LeastAbove ==
    ASSUME NEW S \in SUBSET Int, NEW low \in Int, \A o \in S : low <= o, S # {}
    PROVE  \E o \in S : \A p \in S : o <= p
<1> DEFINE T == {o - low : o \in S}
<1>0. \A o \in S : o - low \in Nat
  OBVIOUS
<1>1. T \in SUBSET Nat /\ T # {}
  BY <1>0, Zenon
<1>2. PICK t \in T : \A u \in T : t <= u
  BY <1>1, LeastOf
<1>3. PICK o \in S : t = o - low
  BY <1>2
<1>4. \A p \in S : p - low \in T /\ p \in Int
  OBVIOUS
<1> HIDE DEF T
<1>5. \A p \in S : o - low <= p - low
  BY <1>2, <1>3, <1>4
<1> QED BY <1>4, <1>5

LEMMA GreatestBelow ==
    ASSUME NEW S \in SUBSET Int, NEW high \in Int, \A o \in S : o <= high, S # {}
    PROVE  \E o \in S : \A p \in S : p <= o
<1> DEFINE T == {high - o : o \in S}
<1>0. \A o \in S : high - o \in Nat
  OBVIOUS
<1>1. T \in SUBSET Nat /\ T # {}
  BY <1>0, Zenon
<1>2. PICK t \in T : \A u \in T : t <= u
  BY <1>1, LeastOf
<1>3. PICK o \in S : t = high - o
  BY <1>2
<1>4. \A p \in S : high - p \in T /\ p \in Int
  BY Zenon
<1> HIDE DEF T
<1>5. \A p \in S : high - o <= high - p
  BY <1>2, <1>3, <1>4
<1> QED BY <1>4, <1>5

LEMMA FiniteBounds ==
    ASSUME NEW S \in SUBSET Int, IsFiniteSet(S), S # {}
    PROVE  /\ \E o \in S : \A p \in S : o <= p
           /\ \E o \in S : \A p \in S : p <= o
<1> DEFINE Below(o) == {p \in S : p < o}
           Above(o) == {p \in S : p > o}
<1>1. \A o \in S : /\ IsFiniteSet(Below(o)) /\ Cardinality(Below(o)) \in Nat
                   /\ IsFiniteSet(Above(o)) /\ Cardinality(Above(o)) \in Nat
  BY FS_Subset, FS_CardinalityType
<1>2. \E o \in S : \A p \in S : o <= p
  <2> DEFINE T == {Cardinality(Below(o)) : o \in S}
  <2>1. PICK t \in T : \A u \in T : t <= u
    <3>1. T \in SUBSET Nat /\ T # {}
      BY <1>1
    <3> QED BY <3>1, LeastOf
  <2>2. PICK o \in S : t = Cardinality(Below(o))
    BY <2>1
  <2>3. ASSUME NEW p \in S, p < o PROVE FALSE
    <3>0. (\A q \in S : q < p => q < o) /\ ~(p < p)
      BY <2>3
    <3> DEFINE b == Below(p)
               a == Below(o)
    <3>1. p \in Int /\ o \in Int /\ \A q \in S : q \in Int
      OBVIOUS
    <3>2. b \subseteq a /\ p \in a /\ p \notin b
      BY <2>3, <3>0, <3>1
    <3>3. IsFiniteSet(a) /\ Cardinality(a) = t /\ Cardinality(b) \in T /\ t \in Nat
          /\ Cardinality(b) \in Nat
      BY <1>1, <2>2
    <3> HIDE DEF a, b, T
    <3>4. Cardinality(b) <= t /\ Cardinality(b) # t
      BY <3>2, <3>3, FS_Subset
    <3>5. t <= Cardinality(b)
      BY <2>1, <3>3
    <3> QED BY <3>3, <3>4, <3>5
  <2> QED BY <2>3
<1>3. \E o \in S : \A p \in S : p <= o
  <2> DEFINE T == {Cardinality(Above(o)) : o \in S}
  <2>1. PICK t \in T : \A u \in T : t <= u
    <3>1. T \in SUBSET Nat /\ T # {}
      BY <1>1
    <3> QED BY <3>1, LeastOf
  <2>2. PICK o \in S : t = Cardinality(Above(o))
    BY <2>1
  <2>3. ASSUME NEW p \in S, o < p PROVE FALSE
    <3>0. (\A q \in S : q > p => q > o) /\ ~(p < p)
      BY <2>3
    <3> DEFINE b == Above(p)
               a == Above(o)
    <3>1. p \in Int /\ o \in Int /\ \A q \in S : q \in Int
      OBVIOUS
    <3>2. b \subseteq a /\ p \in a /\ p \notin b
      BY <2>3, <3>0, <3>1
    <3>3. IsFiniteSet(a) /\ Cardinality(a) = t /\ Cardinality(b) \in T /\ t \in Nat
          /\ Cardinality(b) \in Nat
      BY <1>1, <2>2
    <3> HIDE DEF a, b, T
    <3>4. Cardinality(b) <= t /\ Cardinality(b) # t
      BY <3>2, <3>3, FS_Subset
    <3>5. t <= Cardinality(b)
      BY <2>1, <3>3
    <3> QED BY <3>3, <3>4, <3>5
  <2> QED BY <2>3
<1> QED BY <1>2, <1>3
-----------------------------------------------------------------------------
(* Recursion.  A step that is a function defines a function on the naturals, *)
(* and a fold from the left.                                               *)

\* The first m values of a recursion.
Prefix(h, m, V, a, F) ==
    h \in [0 .. m -> V] /\ h[0] = a /\ \A i \in 0 .. m - 1 : h[i + 1] = F[<<i, h[i]>>]

LEMMA PrefixesExist ==
    ASSUME NEW V, NEW a \in V, NEW F \in [Nat \X V -> V]
    PROVE  \A m \in Nat : \E h : Prefix(h, m, V, a, F)
<1> DEFINE T == {m \in Nat : ~\E h : Prefix(h, m, V, a, F)}
<1> SUFFICES ASSUME T # {} PROVE FALSE
  OBVIOUS
<1>1. PICK m \in T : \A k \in T : m <= k
  BY LeastOf
<1>2. m # 0
  <2> DEFINE h == [i \in 0 .. 0 |-> a]
  <2>1. h \in [0 .. 0 -> V] /\ h[0] = a /\ 0 .. 0 - 1 = {}
    OBVIOUS
  <2>2. Prefix(h, 0, V, a, F)
    BY <2>1 DEF Prefix
  <2> QED BY <2>2
<1>3. m \in Nat /\ m - 1 \in Nat /\ m - 1 \notin T
  BY <1>1, <1>2
<1>4. PICK h : Prefix(h, m - 1, V, a, F)
  BY <1>3
<1> DEFINE k == m - 1
           new == F[<<k, h[k]>>]
           g == [i \in 0 .. m |-> IF i = m THEN new ELSE h[i]]
<1>5. /\ h \in [0 .. k -> V] /\ h[0] = a /\ \A i \in 0 .. k - 1 : h[i + 1] = F[<<i, h[i]>>]
      /\ k \in Nat /\ m = k + 1
  BY <1>3, <1>4 DEF Prefix
<1> HIDE DEF k
<1>6. h[k] \in V
  BY <1>5
<1>7. new \in V
  BY <1>5, <1>6
<1> HIDE DEF new
<1>8. g \in [0 .. m -> V]
  BY <1>5, <1>7
<1>9. g[0] = a
  BY <1>5
<1>10. ASSUME NEW i \in 0 .. m - 1 PROVE g[i + 1] = F[<<i, g[i]>>]
  <2>1. g[i] = h[i] /\ i \in 0 .. k
    BY <1>5
  <2>2. CASE i = k
    <3>1. g[i + 1] = new
      BY <1>5, <2>2
    <3> QED BY <2>1, <2>2, <3>1 DEF new
  <2>3. CASE i # k
    <3>1. g[i + 1] = h[i + 1] /\ i \in 0 .. k - 1
      BY <1>5, <2>1, <2>3
    <3> QED BY <1>5, <2>1, <3>1
  <2> QED BY <2>2, <2>3
<1>11. Prefix(g, m, V, a, F)
  <2> HIDE DEF g
  <2> QED BY <1>8, <1>9, <1>10 DEF Prefix
<1> QED BY <1>1, <1>11

\* There is one only.
LEMMA PrefixesAgree ==
    ASSUME NEW V, NEW a, NEW F, NEW m \in Nat, NEW n \in Nat, NEW g, NEW h,
           Prefix(g, m, V, a, F), Prefix(h, n, V, a, F)
    PROVE  \A i \in Nat : i <= m /\ i <= n => g[i] = h[i]
<1> DEFINE T == {i \in Nat : i <= m /\ i <= n /\ g[i] # h[i]}
<1> SUFFICES ASSUME T # {} PROVE FALSE
  OBVIOUS
<1>1. PICK i \in T : \A k \in T : i <= k
  BY LeastOf
<1>2. i # 0
  BY DEF Prefix
<1>3. i \in Nat /\ i - 1 \in Nat /\ i - 1 \notin T /\ i <= m /\ i <= n
  BY <1>1, <1>2
<1>4. g[i - 1] = h[i - 1]
  BY <1>3
<1>5. i - 1 \in 0 .. m - 1 /\ i - 1 \in 0 .. n - 1 /\ i - 1 + 1 = i
  BY <1>3
<1>6. g[i] = h[i]
  BY <1>4, <1>5 DEF Prefix
<1> QED BY <1>6

Recursion(g, V, a, F) == g \in [Nat -> V] /\ g[0] = a /\ \A i \in Nat : g[i + 1] = F[<<i, g[i]>>]

LEMMA RecursionExists ==
    ASSUME NEW V, NEW a \in V, NEW F \in [Nat \X V -> V]
    PROVE  \E g : Recursion(g, V, a, F)
<1> DEFINE p(m) == CHOOSE h : Prefix(h, m, V, a, F)
           g == [i \in Nat |-> p(i)[i]]
<1>1. \A m \in Nat : Prefix(p(m), m, V, a, F)
  BY PrefixesExist
<1> HIDE DEF p
<1>2. \A i \in Nat : p(i)[i] \in V /\ p(i)[0] = a
  BY <1>1 DEF Prefix
<1>3. ASSUME NEW i \in Nat PROVE g[i + 1] = F[<<i, g[i]>>]
  <2>1. i + 1 \in Nat /\ i <= i + 1 /\ i <= i /\ i \in 0 .. i + 1 - 1
    OBVIOUS
  <2>2. p(i + 1)[i] = p(i)[i]
    BY <1>1, <2>1, PrefixesAgree
  <2>3. p(i + 1)[i + 1] = F[<<i, p(i + 1)[i]>>]
    BY <1>1, <2>1 DEF Prefix
  <2> QED BY <2>1, <2>2, <2>3
<1>4. g \in [Nat -> V] /\ g[0] = a
  BY <1>2
<1> HIDE DEF g
<1>5. Recursion(g, V, a, F)
  BY <1>3, <1>4 DEF Recursion
<1> QED BY <1>5

\* What FoldLeft computes of the parts of 1 .. n, if F is the step.
FoldedBy(f, n, a, F) ==
    f = [s \in SUBSET (1 .. n) |-> IF s = {} THEN a ELSE F[<<f[s \ {Max(s)}], Max(s)>>]]

LEMMA GreatestOf ==
    ASSUME NEW n \in Nat, NEW s \in SUBSET (1 .. n), s # {}
    PROVE  Max(s) \in s /\ \A i \in s : i <= Max(s)
<1>1. s \in SUBSET Int /\ n \in Int /\ \A o \in s : o <= n
  OBVIOUS
<1>2. \E x \in s : \A y \in s : y <= x
  BY <1>1, GreatestBelow
<1>3. \E x \in s : \A y \in s : x >= y
  BY <1>1, <1>2
<1>4. Max(s) \in s /\ \A y \in s : Max(s) >= y
  BY <1>3, Zenon DEF Max
<1> QED BY <1>1, <1>4

LEMMA FoldExists ==
    ASSUME NEW n \in Nat, NEW V, NEW a \in V, NEW F \in [V \X (1 .. n) -> V]
    PROVE  \E f \in [SUBSET (1 .. n) -> V] : FoldedBy(f, n, a, F)
<1> DEFINE P == SUBSET (1 .. n)
           W == [P -> V]
           b == [s \in P |-> a]
           G == [q \in Nat \X W |-> [s \in P |-> IF q[1] + 1 \in s THEN F[<<q[2][s], q[1] + 1>>]
                                                 ELSE q[2][s]]]
<1>1. b \in W
  OBVIOUS
<1>2. G \in [Nat \X W -> W]
  <2>1. ASSUME NEW q \in Nat \X W, NEW s \in P
        PROVE  (IF q[1] + 1 \in s THEN F[<<q[2][s], q[1] + 1>>] ELSE q[2][s]) \in V
    <3>1. q[2][s] \in V
      OBVIOUS
    <3>2. q[1] + 1 \in s => q[1] + 1 \in 1 .. n
      OBVIOUS
    <3> QED BY <3>1, <3>2
  <2> QED BY <2>1
<1>3. PICK g : Recursion(g, W, b, G)
  <2> HIDE DEF W, b, G
  <2> QED BY <1>1, <1>2, RecursionExists
<1>a. g \in [Nat -> W] /\ g[0] = b /\ \A i \in Nat : g[i + 1] = G[<<i, g[i]>>]
  BY <1>3 DEF Recursion
<1>4. ASSUME NEW i \in Nat, NEW s \in P
      PROVE  /\ g[i][s] \in V
             /\ g[i + 1][s] = IF i + 1 \in s THEN F[<<g[i][s], i + 1>>] ELSE g[i][s]
  <2>1. g[i] \in W
    BY <1>a
  <2>2. G[<<i, g[i]>>] = [t \in P |-> IF i + 1 \in t THEN F[<<g[i][t], i + 1>>] ELSE g[i][t]]
    BY <2>1
  <2> QED BY <1>a, <2>1, <2>2
<1>5. \A s \in P : g[0][s] = a
  BY <1>a
<1> HIDE DEF W, b, G
\* Up to m only the members up to m count.
<1>6. ASSUME NEW s \in P, NEW t \in P, NEW m \in Nat, \A i \in 1 .. m : i \in s <=> i \in t
      PROVE  g[m][s] = g[m][t]
  <2> DEFINE T == {i \in Nat : i <= m /\ g[i][s] # g[i][t]}
  <2> SUFFICES ASSUME T # {} PROVE FALSE
    OBVIOUS
  <2>1. PICK i \in T : \A k \in T : i <= k
    BY LeastOf
  <2>2. i # 0
    BY <1>5
  <2> DEFINE k == i - 1
  <2>3. k \in Nat /\ k \notin T /\ k + 1 = i /\ i \in 1 .. m
    BY <2>1, <2>2
  <2>4. g[k][s] = g[k][t]
    BY <2>3
  <2> HIDE DEF k
  <2>5. g[k + 1][s] = g[k + 1][t]
    <3>1. k + 1 \in s <=> k + 1 \in t
      BY <1>6, <2>3
    <3>2. /\ g[k + 1][s] = IF k + 1 \in s THEN F[<<g[k][s], k + 1>>] ELSE g[k][s]
          /\ g[k + 1][t] = IF k + 1 \in t THEN F[<<g[k][t], k + 1>>] ELSE g[k][t]
      BY <1>4, <2>3
    <3> QED BY <2>4, <3>1, <3>2
  <2> QED BY <2>1, <2>3, <2>5
\* Beyond the greatest nothing changes.
<1>7. ASSUME NEW s \in P, NEW m \in Nat, \A i \in s : i <= m
      PROVE  \A i \in Nat : m <= i => g[i][s] = g[m][s]
  <2> DEFINE T == {i \in Nat : m <= i /\ g[i][s] # g[m][s]}
  <2> SUFFICES ASSUME T # {} PROVE FALSE
    OBVIOUS
  <2>1. PICK i \in T : \A k \in T : i <= k
    BY LeastOf
  <2> DEFINE k == i - 1
  <2>2. k \in Nat /\ k \notin T /\ k + 1 = i /\ m <= k /\ i \notin s
    BY <1>7, <2>1
  <2>3. g[k][s] = g[m][s]
    BY <2>2
  <2> HIDE DEF k
  <2>4. g[k + 1][s] = g[k][s]
    BY <1>4, <2>2
  <2> QED BY <2>1, <2>2, <2>3, <2>4
<1> DEFINE f == [s \in P |-> g[n][s]]
<1>8. ASSUME NEW s \in P, s # {}
      PROVE  f[s] = F[<<f[s \ {Max(s)}], Max(s)>>]
  <2> DEFINE k == Max(s) - 1
             r == s \ {Max(s)}
  <2>1. Max(s) \in s /\ \A i \in s : i <= Max(s)
    BY <1>8, GreatestOf
  <2>a. Max(s) \in 1 .. n
    BY <2>1
  <2>b. k \in Nat /\ k + 1 = Max(s)
    BY <2>a
  <2>2. k \in Nat /\ k + 1 = Max(s) /\ k + 1 \in 1 .. n /\ r \in P
    BY <2>a, <2>b
  <2>3. /\ \A i \in s : i <= k + 1
        /\ \A i \in r : i <= k
        /\ \A i \in 1 .. k : i \in s <=> i \in r
        /\ k + 1 \in s
    BY <2>1, <2>2
  <2> HIDE DEF k, r
  <2>4. g[n][s] = g[k + 1][s] /\ g[n][r] = g[k][r] /\ g[k][s] = g[k][r]
    <3>1. k + 1 \in Nat /\ k + 1 <= n /\ k <= n /\ n \in Nat
      BY <2>2
    <3> QED BY <1>6, <1>7, <2>2, <2>3, <3>1
  <2>5. g[k + 1][s] = F[<<g[k][s], k + 1>>]
    BY <1>4, <2>2, <2>3
  <2> QED BY <2>2, <2>4, <2>5 DEF r
<1>9. f[{}] = a
  <2>1. \A i \in {} : i <= 0
    OBVIOUS
  <2>2. {} \in P /\ 0 \in Nat /\ n \in Nat /\ 0 <= n
    OBVIOUS
  <2> QED BY <1>5, <1>7, <2>1, <2>2
<1>10. f \in [P -> V]
  BY <1>4
<1>11. f = [s \in P |-> f[s]]
  OBVIOUS
<1> HIDE DEF f
<1>12. FoldedBy(f, n, a, F)
  BY <1>8, <1>9, <1>11 DEF FoldedBy
<1> QED BY <1>10, <1>12

\* So a fold goes through the prefixes of its list.
LEMMA FoldStep ==
    ASSUME NEW n \in Nat, NEW f, NEW a, NEW F, FoldedBy(f, n, a, F)
    PROVE  f[{}] = a /\ \A k \in 0 .. n - 1 : f[1 .. k + 1] = F[<<f[1 .. k], k + 1>>]
<1>1. f[{}] = a
  BY DEF FoldedBy
<1>2. ASSUME NEW k \in 0 .. n - 1 PROVE f[1 .. k + 1] = F[<<f[1 .. k], k + 1>>]
  <2> DEFINE s == 1 .. k + 1
  <2>1. s \in SUBSET (1 .. n) /\ s # {} /\ k + 1 \in s
    OBVIOUS
  <2>2. Max(s) \in s /\ k + 1 <= Max(s)
    BY <2>1, GreatestOf
  <2>3. Max(s) = k + 1 /\ s \ {k + 1} = 1 .. k
    BY <2>2
  <2>4. f[s] = F[<<f[s \ {Max(s)}], Max(s)>>]
    BY <2>1 DEF FoldedBy
  <2> QED BY <2>3, <2>4
<1> QED BY <1>1, <1>2

\* FlattenSeq, one list after the other.
Flattening(f, n, S, lists) ==
    /\ f \in [0 .. n -> Seq(S)] /\ f[0] = <<>>
    /\ \A k \in 0 .. n - 1 : f[k + 1] = f[k] \o lists[k + 1]

LEMMA FlattenSteps ==
    ASSUME NEW S, NEW n \in Nat, NEW lists \in [1 .. n -> Seq(S)]
    PROVE  \E f : Flattening(f, n, S, lists) /\ FlattenSeq(lists) = f[n]
<1> DEFINE V == Seq(S)
           F == [q \in Nat \X V |-> IF q[1] + 1 \in 1 .. n THEN q[2] \o lists[q[1] + 1] ELSE q[2]]
<1>1. <<>> \in V
  BY EmptySeq
<1>2. F \in [Nat \X V -> V]
  <2>1. ASSUME NEW q \in Nat \X V, q[1] + 1 \in 1 .. n PROVE q[2] \o lists[q[1] + 1] \in V
    <3>1. q[2] \in Seq(S) /\ lists[q[1] + 1] \in Seq(S)
      BY <2>1
    <3> QED BY <3>1, ConcatProperties
  <2>2. \A q \in Nat \X V : q[2] \in V
    OBVIOUS
  <2> QED BY <2>1, <2>2
<1>3. PICK g : Recursion(g, V, <<>>, F)
  <2> HIDE DEF V, F
  <2> QED BY <1>1, <1>2, RecursionExists
<1>4. g \in [Nat -> V] /\ g[0] = <<>> /\ \A i \in Nat : g[i + 1] = F[<<i, g[i]>>]
  BY <1>3 DEF Recursion
<1>5. \A i \in 0 .. n - 1 : g[i + 1] = g[i] \o lists[i + 1]
  <2> SUFFICES ASSUME NEW i \in 0 .. n - 1 PROVE g[i + 1] = g[i] \o lists[i + 1]
    OBVIOUS
  <2>1. i \in Nat /\ i + 1 \in 1 .. n /\ g[i] \in V
    BY <1>4
  <2>2. F[<<i, g[i]>>] = g[i] \o lists[i + 1]
    BY <2>1
  <2> QED BY <1>4, <2>1, <2>2
<1> HIDE DEF F
<1> DEFINE f == [k \in 0 .. n |-> g[k]]
<1>6. Flattening(f, n, S, lists)
  <2>1. f \in [0 .. n -> Seq(S)] /\ f[0] = <<>>
    BY <1>4
  <2>3. \A k \in 0 .. n : f[k] = g[k]
    OBVIOUS
  <2> HIDE DEF f
  <2>2. \A k \in 0 .. n - 1 : f[k + 1] = f[k] \o lists[k + 1]
    <3> SUFFICES ASSUME NEW k \in 0 .. n - 1 PROVE f[k + 1] = f[k] \o lists[k + 1]
      OBVIOUS
    <3>1. f[k] = g[k] /\ f[k + 1] = g[k + 1]
      BY <2>3
    <3> QED BY <1>5, <3>1
  <2> QED BY <2>1, <2>2 DEF Flattening
<1>7. Len(lists) = n /\ lists \in Seq(Seq(S)) /\ DOMAIN lists = 1 .. n
  BY SeqDef, LenProperties
<1>8. FlattenSeq(lists) = f[n]
  <2>1. CASE n = 0
    <3>1. lists = <<>>
      BY <1>7, <2>1, EmptySeq
    <3>2. f[n] = <<>>
      BY <1>4, <2>1
    <3>3. FlattenSeq(lists) = lists
      BY <1>7, <2>1 DEF FlattenSeq
    <3> QED BY <3>1, <3>2, <3>3
  <2>2. CASE n # 0
    <3> DEFINE Good(h) == h = [i \in 1 .. n |-> IF i = 1 THEN lists[i] ELSE h[i - 1] \o lists[i]]
               h == CHOOSE x : Good(x)
               e == [i \in 1 .. n |-> g[i]]
    <3>0. Len(lists) = n /\ n # 0
      BY <1>7, <2>2
    <3>1. FlattenSeq(lists) = h[n]
      BY <3>0, Zenon DEF FlattenSeq
    <3>2. g[1] = lists[1]
      <4>a. 0 \in 0 .. n - 1
        BY <2>2
      <4>1. g[0 + 1] = g[0] \o lists[0 + 1]
        BY <1>5, <4>a, Zenon
      <4>2. lists[1] \in Seq(S)
        BY <2>2
      <4> QED BY <1>4, <4>1, <4>2, ConcatEmptySeq
    <3>3. \A i \in 1 .. n : i # 1 => g[i] = g[i - 1] \o lists[i]
      <4> SUFFICES ASSUME NEW i \in 1 .. n, i # 1 PROVE g[i] = g[i - 1] \o lists[i]
        OBVIOUS
      <4>1. i - 1 \in 0 .. n - 1 /\ (i - 1) + 1 = i
        BY <2>2
      <4> QED BY <1>5, <4>1
    <3>4. Good(e)
      <4>1. \A i \in 1 .. n : i # 1 => i - 1 \in 1 .. n
        OBVIOUS
      <4> QED BY <3>2, <3>3, <4>1
    <3>5. Good(h)
      BY <3>4
    <3> HIDE DEF h
    <3>6. \A i \in 1 .. n : h[i] = IF i = 1 THEN lists[i] ELSE h[i - 1] \o lists[i]
      BY <3>5
    <3> DEFINE T == {i \in Nat : i \in 1 .. n /\ h[i] # g[i]}
    <3>7. T = {}
      <4> SUFFICES ASSUME T # {} PROVE FALSE
        OBVIOUS
      <4>1. PICK i \in T : \A j \in T : i <= j
        BY LeastOf
      <4>2. i \in 1 .. n /\ h[i] # g[i]
        BY <4>1
      <4>3. i # 1
        BY <3>2, <3>6, <4>2
      <4>4. i - 1 \in 1 .. n /\ i - 1 \in Nat /\ i - 1 \notin T
        BY <4>1, <4>2, <4>3
      <4>5. h[i - 1] = g[i - 1]
        BY <4>4
      <4> QED BY <3>3, <3>6, <4>2, <4>3, <4>5
    <3>8. n \in 1 .. n
      BY <2>2
    <3> QED BY <3>1, <3>7, <3>8
  <2> QED BY <2>1, <2>2
<1> HIDE DEF f
<1> QED BY <1>6, <1>8

PartAt(f, n, lists, k) ==
    /\ Len(f[k + 1]) = Len(f[k]) + Len(lists[k + 1])
    /\ SubSeq(f[n], Len(f[k]) + 1, Len(f[k + 1])) = lists[k + 1]

\* Each list is where the ones before it end.
LEMMA FlattenPart ==
    ASSUME NEW S, NEW n \in Nat, NEW lists \in [1 .. n -> Seq(S)], NEW f,
           Flattening(f, n, S, lists), NEW k \in 0 .. n - 1
    PROVE  PartAt(f, n, lists, k)
<1> DEFINE a == Len(f[k])
           b == Len(f[k + 1])
           l == lists[k + 1]
           c == Len(l)
<1>1. /\ \A m \in 0 .. n : f[m] \in Seq(S) /\ Len(f[m]) \in Nat
      /\ \A m \in 0 .. n - 1 : f[m + 1] = f[m] \o lists[m + 1] /\ lists[m + 1] \in Seq(S)
                            /\ Len(lists[m + 1]) \in Nat
  <2>1. \A m \in 0 .. n : f[m] \in Seq(S)
    BY DEF Flattening
  <2>2. \A m \in 0 .. n - 1 : m + 1 \in 1 .. n
    OBVIOUS
  <2>3. \A m \in 0 .. n - 1 : lists[m + 1] \in Seq(S)
    BY <2>2
  <2>4. \A m \in 0 .. n - 1 : f[m + 1] = f[m] \o lists[m + 1]
    BY Zenon DEF Flattening
  <2>5. \A s \in Seq(S) : Len(s) \in Nat
    BY LenProperties
  <2> QED BY <2>1, <2>3, <2>4, <2>5, Zenon
<1>2. \A m \in 0 .. n - 1 : /\ Len(f[m + 1]) = Len(f[m]) + Len(lists[m + 1])
                            /\ \A i \in 1 .. Len(f[m]) : f[m + 1][i] = f[m][i]
                            /\ \A i \in 1 .. Len(lists[m + 1]) : f[m + 1][Len(f[m]) + i] = lists[m + 1][i]
  <2> SUFFICES ASSUME NEW m \in 0 .. n - 1
               PROVE  /\ Len(f[m + 1]) = Len(f[m]) + Len(lists[m + 1])
                      /\ \A i \in 1 .. Len(f[m]) : f[m + 1][i] = f[m][i]
                      /\ \A i \in 1 .. Len(lists[m + 1]) : f[m + 1][Len(f[m]) + i] = lists[m + 1][i]
    OBVIOUS
  <2> DEFINE s == f[m]
             t == lists[m + 1]
  <2>1. f[m + 1] = s \o t /\ s \in Seq(S) /\ t \in Seq(S) /\ Len(s) \in Nat /\ Len(t) \in Nat
    <3>1. m \in 0 .. n
      OBVIOUS
    <3> QED BY <1>1, <3>1, Zenon
  <2> HIDE DEF s, t
  <2>2. /\ Len(s \o t) = Len(s) + Len(t)
        /\ \A i \in 1 .. Len(s) + Len(t) : (s \o t)[i] = IF i <= Len(s) THEN s[i] ELSE t[i - Len(s)]
    BY <2>1, ConcatProperties
  <2>3. \A i \in 1 .. Len(s) : (s \o t)[i] = s[i]
    <3> SUFFICES ASSUME NEW i \in 1 .. Len(s) PROVE (s \o t)[i] = s[i]
      OBVIOUS
    <3>1. i \in 1 .. Len(s) + Len(t) /\ i <= Len(s)
      BY <2>1
    <3> QED BY <2>2, <3>1
  <2>4. \A i \in 1 .. Len(t) : (s \o t)[Len(s) + i] = t[i]
    <3> SUFFICES ASSUME NEW i \in 1 .. Len(t) PROVE (s \o t)[Len(s) + i] = t[i]
      OBVIOUS
    <3>1. Len(s) + i \in 1 .. Len(s) + Len(t) /\ ~(Len(s) + i <= Len(s)) /\ (Len(s) + i) - Len(s) = i
      BY <2>1
    <3> QED BY <2>2, <3>1
  <2> QED BY <2>1, <2>2, <2>3, <2>4 DEF s, t
<1>3. a \in Nat /\ c \in Nat /\ b = a + c /\ k + 1 \in 0 .. n
  <2>1. k \in 0 .. n /\ k + 1 \in 0 .. n
    OBVIOUS
  <2>2. a \in Nat /\ c \in Nat
    BY <1>1, <2>1
  <2>3. b = a + c
    BY <1>2
  <2> QED BY <2>1, <2>2, <2>3
<1> HIDE DEF a, b, c
\* What is there stays there.
<1>4. \A m \in Nat : m \in k + 1 .. n => b <= Len(f[m]) /\ \A i \in 1 .. b : f[m][i] = f[k + 1][i]
  <2> DEFINE Stays(m) == b <= Len(f[m]) /\ \A i \in 1 .. b : f[m][i] = f[k + 1][i]
             T == {m \in Nat : m \in k + 1 .. n /\ ~Stays(m)}
  <2> SUFFICES ASSUME T # {} PROVE FALSE
    OBVIOUS
  <2>1. PICK m \in T : \A j \in T : m <= j
    BY LeastOf
  <2>2. m \in k + 1 .. n /\ ~Stays(m)
    BY <2>1
  <2>3. m # k + 1
    BY <1>3, <2>2 DEF b
  <2> DEFINE j == m - 1
  <2>4. j \in Nat /\ j \in k + 1 .. n /\ j \notin T /\ j \in 0 .. n - 1 /\ j + 1 = m
    BY <2>1, <2>2, <2>3
  <2> HIDE DEF j
  <2>5. Stays(j)
    BY <2>4
  <2>6. b <= Len(f[j + 1]) /\ Len(f[j]) \in Nat /\ b \in Nat
    <3> DEFINE x == Len(f[j])
               y == Len(lists[j + 1])
               z == Len(f[j + 1])
    <3>1. x \in Nat /\ y \in Nat /\ b \in Nat
      <4>1. j \in 0 .. n
        BY <2>4
      <4> QED BY <1>1, <1>3, <2>4, <4>1
    <3>2. z = x + y
      BY <1>2, <2>4
    <3>3. b <= x
      BY <2>5
    <3> HIDE DEF x, y, z
    <3>4. b <= z
      BY <3>1, <3>2, <3>3
    <3> QED BY <3>1, <3>4 DEF x, z
  <2>7. \A i \in 1 .. b : f[j + 1][i] = f[k + 1][i]
    <3> SUFFICES ASSUME NEW i \in 1 .. b PROVE f[j + 1][i] = f[k + 1][i]
      OBVIOUS
    <3>1. i \in 1 .. Len(f[j])
      BY <2>5, <2>6
    <3> QED BY <1>2, <2>4, <2>5, <3>1
  <2> QED BY <2>2, <2>4, <2>6, <2>7
<1> DEFINE w == f[n]
<1>5. w \in Seq(S) /\ b <= Len(w) /\ Len(w) \in Nat /\ \A i \in 1 .. b : w[i] = f[k + 1][i]
  <2>1. n \in Nat /\ n \in k + 1 .. n /\ n \in 0 .. n
    OBVIOUS
  <2> QED BY <1>1, <1>4, <2>1
<1> HIDE DEF w
<1>6. \A i \in 1 .. c : w[a + i] = l[i]
  <2> SUFFICES ASSUME NEW i \in 1 .. c PROVE w[a + i] = l[i]
    OBVIOUS
  <2>1. a + i \in 1 .. b
    BY <1>3
  <2>2. f[k + 1][a + i] = l[i]
    BY <1>2 DEF a, c
  <2> QED BY <1>5, <2>1, <2>2
<1>7. SubSeq(w, a + 1, b) = l
  <2> DEFINE p == SubSeq(w, a + 1, b)
  <2>1. p = [i \in 1 .. (1 + b - (a + 1)) |-> w[i + (a + 1) - 1]]
    BY <1>3
  <2>2. 1 + b - (a + 1) = c /\ \A i \in 1 .. c : i + (a + 1) - 1 = a + i
    BY <1>3
  <2>3. p = [i \in 1 .. c |-> w[a + i]]
    BY <2>1, <2>2
  <2>4. l \in Seq(S) /\ DOMAIN l = 1 .. c /\ l = [i \in DOMAIN l |-> l[i]]
    <3>1. l \in Seq(S)
      BY <1>1
    <3>2. DOMAIN l = 1 .. c
      BY <3>1, LenProperties DEF c
    <3>3. l = [i \in DOMAIN l |-> l[i]]
      BY <3>1
    <3> QED BY <3>1, <3>2, <3>3
  <2>5. \A i \in 1 .. c : w[a + i] = l[i]
    BY <1>6
  <2> HIDE DEF p, l
  <2>6. p = l
    BY <2>3, <2>4, <2>5
  <2> QED BY <2>6 DEF p
<1> QED BY <1>3, <1>7 DEF PartAt, a, b, c, w
=============================================================================
