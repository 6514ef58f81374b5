------------------------------- MODULE FoldFacts -------------------------------
(***************************************************************************)
(* What the proofs need to know of folds over sequences.  The theorems of  *)
(* the library take the statement to be proved by induction as an operator *)
(* and cannot be used with it; here induction is over a set of numbers, and *)
(* the step of a fold is a function.                                       *)
(***************************************************************************)
EXTENDS Lists, FiniteSetTheorems, WellFoundedInduction, TLAPS

\* Induction: a set that has 0 and with every number the next has them all.
LEMMA SetInduction ==
    ASSUME NEW S \in SUBSET Nat, 0 \in S, \A n \in S : n + 1 \in S
    PROVE  S = Nat
<1> SUFFICES ASSUME Nat \ S # {} PROVE FALSE
    OBVIOUS
<1>1. \E x \in Nat \ S : \A y \in Nat \ S : ~ (<<y, x>> \in OpToRel(<, Nat))
    BY NatLessThanWellFounded, WFMin
<1>2. PICK x \in Nat \ S : \A y \in Nat \ S : ~ (y < x)
    <2>1. \A x, y \in Nat : y < x => <<y, x>> \in OpToRel(<, Nat)
        BY DEF OpToRel
    <2> QED
        BY <1>1, <2>1
<1>3. x - 1 \in Nat /\ x - 1 < x
    OBVIOUS
<1> QED
    BY <1>2, <1>3

\* ... and up to a bound.
LEMMA BoundedInduction ==
    ASSUME NEW n \in Nat, NEW S, 0 \in S, \A k \in 0 .. n : k < n /\ k \in S => k + 1 \in S
    PROVE  0 .. n \subseteq S
<1> DEFINE T == {k \in Nat : k <= n => k \in S}
<1>1. 0 \in T
    OBVIOUS
<1>2. \A k \in T : k + 1 \in T
    OBVIOUS
<1>3. T = Nat
    BY <1>1, <1>2, SetInduction
<1> QED
    BY <1>3

\* The largest number of a set of numbers up to n.
LEMMA MaxOfInterval ==
    ASSUME NEW n \in Nat, NEW u \in SUBSET (1 .. n), u # {}
    PROVE  Max(u) \in u /\ \A x \in u : x <= Max(u)
<1> DEFINE S == {k \in Nat : \A v \in SUBSET (1 .. k) :
                    v # {} => \E x \in v : \A y \in v : x >= y}
<1>1. 0 \in S
    <2>1. 1 .. 0 = {}
        OBVIOUS
    <2> QED
        BY <2>1
<1>2. ASSUME NEW k \in S
      PROVE  k + 1 \in S
    <2> SUFFICES ASSUME NEW v \in SUBSET (1 .. k + 1), v # {}
                 PROVE  \E x \in v : \A y \in v : x >= y
        OBVIOUS
    <2>1. CASE k + 1 \in v
        BY <2>1
    <2>2. CASE k + 1 \notin v
        BY <2>2
    <2> QED
        BY <2>1, <2>2
<1>3. S = Nat
    BY <1>1, <1>2, SetInduction
<1>4. \E x \in u : \A y \in u : x >= y
    BY <1>3
<1> QED
    BY <1>4 DEF Max

\* The folds g of a sequence of n elements, with a step h whose results are of
\* V: g[u] is the result for the elements at the places u.
FoldsOf(V, base, h, n, s) ==
    {g \in [SUBSET (1 .. n) -> V] : \A u \in SUBSET (1 .. n) :
        g[u] = IF u = {} THEN base ELSE h[<<g[u \ {Max(u)}], s[Max(u)]>>]}

\* The results acc of a fold, place by place, the last of them that of f.
ResultsOf(f, V, base, h, n, s) ==
    {acc \in [0 .. n -> V] :
        /\ acc[0] = base
        /\ acc[n] = f[1 .. n]
        /\ \A k \in 0 .. n : k < n => acc[k + 1] = h[<<acc[k], s[k + 1]>>]}

\* f computes the fold.
Computes(f, V, base, h, n, s) ==
    /\ f[{}] = base
    /\ \A u \in SUBSET (1 .. n) : u # {} /\ f[u \ {Max(u)}] \in V
          => f[u] = h[<<f[u \ {Max(u)}], s[Max(u)]>>]

\* A fold exists, whatever its step.
LEMMA FoldExists ==
    ASSUME NEW W, NEW V, NEW base \in V, NEW h \in [V \X W -> V],
           NEW n \in Nat, NEW s \in [1 .. n -> W]
    PROVE  FoldsOf(V, base, h, n, s) # {}
<1> DEFINE Is(g, k) == /\ g \in [SUBSET (1 .. k) -> V]
                       /\ \A u \in SUBSET (1 .. k) :
                             g[u] = IF u = {} THEN base ELSE h[<<g[u \ {Max(u)}], s[Max(u)]>>]
           S == {k \in 0 .. n : \E g : Is(g, k)}
<1>1. 0 \in S
    <2> DEFINE g == [u \in SUBSET (1 .. 0) |-> base]
    <2>1. Is(g, 0)
        OBVIOUS
    <2> HIDE DEF g
    <2>2. \E f : Is(f, 0)
        BY <2>1
    <2> HIDE DEF Is
    <2>3. 0 \in 0 .. n
        OBVIOUS
    <2> QED
        BY <2>2, <2>3
<1>2. ASSUME NEW k \in 0 .. n, k < n, k \in S
      PROVE  k + 1 \in S
    <2>1. PICK g : Is(g, k)
        BY <1>2
    <2> DEFINE next == [u \in SUBSET (1 .. k + 1) |->
                           IF k + 1 \in u THEN h[<<g[u \ {k + 1}], s[k + 1]>>] ELSE g[u]]
    <2>2. s[k + 1] \in W /\ k + 1 \in 0 .. n /\ k \in Nat
        BY <1>2
    <2>3. \A u \in SUBSET (1 .. k + 1) :
             /\ k + 1 \notin u => u \in SUBSET (1 .. k)
             /\ u \ {k + 1} \in SUBSET (1 .. k)
        BY <2>2
    <2>4. next \in [SUBSET (1 .. k + 1) -> V]
        BY <2>1, <2>2, <2>3
    <2>5. ASSUME NEW u \in SUBSET (1 .. k + 1), u # {}
          PROVE  next[u] = h[<<next[u \ {Max(u)}], s[Max(u)]>>]
        <3>1. Max(u) \in u /\ \A x \in u : x <= Max(u)
            <4>1. k + 1 \in Nat
                BY <2>2
            <4> HIDE DEF next
            <4> QED
                BY <2>5, <4>1, MaxOfInterval
        <3>2. u \ {Max(u)} \in SUBSET (1 .. k + 1)
            OBVIOUS
        <3>3. CASE k + 1 \in u
            <4>1. Max(u) = k + 1
                <5>1. Max(u) \in 1 .. k + 1 /\ k + 1 <= Max(u)
                    BY <3>1, <3>3
                <5> QED
                    BY <2>2, <5>1
            <4>2. next[u \ {k + 1}] = g[u \ {k + 1}]
                BY <2>3
            <4> QED
                BY <3>3, <4>1, <4>2
        <3>4. CASE k + 1 \notin u
            <4>1. u \in SUBSET (1 .. k) /\ k + 1 \notin u \ {Max(u)}
                BY <2>3, <3>4
            <4>2. g[u] = h[<<g[u \ {Max(u)}], s[Max(u)]>>]
                BY <2>1, <2>5, <4>1
            <4>3. next[u] = g[u] /\ next[u \ {Max(u)}] = g[u \ {Max(u)}]
                BY <3>2, <3>4, <4>1
            <4> QED
                BY <4>2, <4>3
        <3> QED
            BY <3>3, <3>4
    <2>6. next[{}] = base
        <3>1. next[{}] = g[{}] /\ g[{}] = base
            BY <2>1
        <3> QED
            BY <3>1
    <2> HIDE DEF next
    <2>7. Is(next, k + 1)
        BY <2>4, <2>5, <2>6
    <2> QED
        BY <2>2, <2>7
<1> HIDE DEF S
<1>3. 0 .. n \subseteq S
    BY <1>1, <1>2, BoundedInduction
<1>4. n \in S
    BY <1>3
<1> QED
    BY <1>4 DEF S, FoldsOf

\* The results of a fold that f computes, place by place.
LEMMA FoldResults ==
    ASSUME NEW W, NEW V, NEW base \in V, NEW h \in [V \X W -> V],
           NEW n \in Nat, NEW s \in [1 .. n -> W],
           NEW f, Computes(f, V, base, h, n, s)
    PROVE  ResultsOf(f, V, base, h, n, s) # {}
<1> DEFINE S == {k \in 0 .. n : f[1 .. k] \in V}
           acc == [k \in 0 .. n |-> f[1 .. k]]
<1>1. /\ f[{}] = base
      /\ \A u \in SUBSET (1 .. n) : u # {} /\ f[u \ {Max(u)}] \in V
            => f[u] = h[<<f[u \ {Max(u)}], s[Max(u)]>>]
    BY DEF Computes
<1>2. 1 .. 0 = {} /\ 0 \in 0 .. n /\ n \in 0 .. n
    OBVIOUS
<1>3. ASSUME NEW k \in 0 .. n, k < n, f[1 .. k] \in V
      PROVE  /\ f[1 .. (k + 1)] = h[<<f[1 .. k], s[k + 1]>>]
             /\ f[1 .. (k + 1)] \in V
             /\ k + 1 \in 0 .. n
    <2> DEFINE u == 1 .. (k + 1)
    <2>1. u \in SUBSET (1 .. n) /\ u # {} /\ k + 1 \in Nat /\ k + 1 \in 1 .. n
        <3>1. k + 1 \in Nat /\ k + 1 \in 1 .. n /\ k + 1 \in u
            BY <1>3
        <3>2. u \subseteq 1 .. n
            BY <1>3
        <3> QED
            BY <3>1, <3>2
    <2>2. Max(u) \in u /\ \A x \in u : x <= Max(u)
        <3>1. u \in SUBSET (1 .. k + 1)
            OBVIOUS
        <3> QED
            BY <2>1, <3>1, MaxOfInterval
    <2>3. Max(u) = k + 1
        <3>1. k + 1 \in u
            BY <2>1
        <3>2. Max(u) \in 1 .. (k + 1) /\ k + 1 <= Max(u)
            BY <2>2, <3>1
        <3> QED
            BY <1>3, <3>2
    <2>4. u \ {k + 1} = 1 .. k
        BY <1>3
    <2> HIDE DEF u
    <2>5. f[u] = h[<<f[1 .. k], s[k + 1]>>]
        BY <1>1, <1>3, <2>1, <2>3, <2>4
    <2>6. s[k + 1] \in W
        BY <2>1
    <2>7. h[<<f[1 .. k], s[k + 1]>>] \in V
        BY <1>3, <2>6
    <2> QED
        BY <1>3, <2>1, <2>5, <2>7 DEF u
<1>4. 0 .. n \subseteq S
    <2>1. 0 \in S
        BY <1>1, <1>2
    <2>2. \A k \in 0 .. n : k < n /\ k \in S => k + 1 \in S
        BY <1>3
    <2> HIDE DEF S
    <2> QED
        BY <2>1, <2>2, BoundedInduction
<1>5. \A k \in 0 .. n : f[1 .. k] \in V
    BY <1>4
<1>6. acc \in [0 .. n -> V] /\ acc[0] = base /\ acc[n] = f[1 .. n]
    BY <1>1, <1>2, <1>5
<1>7. \A k \in 0 .. n : k < n => acc[k + 1] = h[<<acc[k], s[k + 1]>>]
    BY <1>3, <1>5
<1> HIDE DEF acc
<1>8. acc \in ResultsOf(f, V, base, h, n, s)
    BY <1>6, <1>7 DEF ResultsOf
<1> QED
    BY <1>8

\* An injective sequence has as many elements as its set.
LEMMA InjectiveSeq ==
    ASSUME NEW C, NEW s \in Seq(C), IsInjective(s)
    PROVE  IsFiniteSet(ToSet(s)) /\ Cardinality(ToSet(s)) = Len(s)
<1>1. DOMAIN s = 1 .. Len(s) /\ Len(s) \in Nat
    OBVIOUS
<1>2. s \in Bijection(1 .. Len(s), ToSet(s))
    <2>1. s \in [1 .. Len(s) -> ToSet(s)]
        BY <1>1 DEF ToSet
    <2>2. \A x \in ToSet(s) : \E i \in 1 .. Len(s) : s[i] = x
        BY <1>1 DEF ToSet
    <2> QED
        BY <1>1, <2>1, <2>2 DEF Bijection, Injection, Surjection, IsInjective
<1>3. IsFiniteSet(1 .. Len(s)) /\ Cardinality(1 .. Len(s)) = Len(s)
    BY <1>1, FS_Interval
<1>4. ExistsBijection(1 .. Len(s), ToSet(s))
    BY <1>2 DEF ExistsBijection
<1> QED
    BY <1>3, <1>4, FS_Bijection

\* SetToSeq lists a finite set.
LEMMA SetListed ==
    ASSUME NEW S, IsFiniteSet(S)
    PROVE  SetToSeq(S) \in Seq(S) /\ ToSet(SetToSeq(S)) = S
<1> DEFINE n == Cardinality(S)
<1>1. n \in Nat /\ ExistsBijection(1 .. n, S)
    BY FS_CardinalityType
<1>2. PICK f : f \in Bijection(1 .. n, S)
    BY <1>1 DEF ExistsBijection
<1>3. f \in [1 .. n -> S] /\ IsInjective(f)
    BY <1>2 DEF Bijection, Injection, IsInjective
<1>4. SetToSeq(S) \in [1 .. n -> S] /\ IsInjective(SetToSeq(S))
    BY <1>3 DEF SetToSeq
<1>5. SetToSeq(S) \in Seq(S)
    BY <1>1, <1>4
<1>6. IsFiniteSet(1 .. n) /\ Cardinality(1 .. n) = n
    BY <1>1, FS_Interval
<1>7. SetToSeq(S) \in Injection(1 .. n, S)
    BY <1>4 DEF Injection
<1>8. SetToSeq(S) \in Surjection(1 .. n, S)
    BY <1>6, <1>7, FS_Injection
<1>9. \A x \in S : \E i \in 1 .. n : SetToSeq(S)[i] = x
    BY <1>8 DEF Surjection
<1> QED
    BY <1>4, <1>5, <1>9 DEF ToSet

\* What an appended element changes.
LEMMA AppendedTo ==
    ASSUME NEW C, NEW a \in Seq(C), NEW x \in C
    PROVE  /\ Append(a, x) \in Seq(C)
           /\ ToSet(Append(a, x)) = ToSet(a) \cup {x}
           /\ IsInjective(a) /\ x \notin ToSet(a) => IsInjective(Append(a, x))
           /\ Contains(a, x) <=> x \in ToSet(a)
<1> DEFINE b == Append(a, x)
<1>1. /\ b \in Seq(C) /\ DOMAIN a = 1 .. Len(a) /\ DOMAIN b = 1 .. Len(a) + 1
      /\ Len(a) \in Nat
      /\ \A i \in 1 .. Len(a) : b[i] = a[i]
      /\ b[Len(a) + 1] = x
    OBVIOUS
<1> HIDE DEF b
<1>2. ToSet(b) = ToSet(a) \cup {x}
    <2>1. ToSet(b) \subseteq ToSet(a) \cup {x}
        <3> SUFFICES ASSUME NEW i \in DOMAIN b
                     PROVE  b[i] \in ToSet(a) \cup {x}
            BY DEF ToSet
        <3> QED
            BY <1>1 DEF ToSet
    <2>2. ToSet(a) \cup {x} \subseteq ToSet(b)
        <3>1. x \in ToSet(b)
            BY <1>1 DEF ToSet
        <3>2. ASSUME NEW i \in DOMAIN a
              PROVE  a[i] \in ToSet(b)
            <4>1. i \in DOMAIN b /\ b[i] = a[i]
                BY <1>1
            <4> QED
                BY <4>1 DEF ToSet
        <3> QED
            BY <3>1, <3>2 DEF ToSet
    <2> QED
        BY <2>1, <2>2
<1>3. ASSUME IsInjective(a), x \notin ToSet(a)
      PROVE  IsInjective(b)
    <2> SUFFICES ASSUME NEW i \in DOMAIN b, NEW j \in DOMAIN b, b[i] = b[j]
                 PROVE  i = j
        BY DEF IsInjective
    <2>1. CASE i \in DOMAIN a /\ j \in DOMAIN a
        BY <1>1, <1>3, <2>1 DEF IsInjective
    <2>2. \A k \in DOMAIN a : b[k] \in ToSet(a)
        BY <1>1 DEF ToSet
    <2>3. CASE i \notin DOMAIN a \/ j \notin DOMAIN a
        <3>1. i = Len(a) + 1 \/ i \in DOMAIN a
            BY <1>1
        <3>2. j = Len(a) + 1 \/ j \in DOMAIN a
            BY <1>1
        <3> QED
            BY <1>1, <1>3, <2>2, <2>3, <3>1, <3>2
    <2> QED
        BY <2>1, <2>3
<1>4. Contains(a, x) <=> x \in ToSet(a)
    BY <1>1 DEF Contains, ToSet
<1> QED
    BY <1>1, <1>2, <1>3, <1>4 DEF b

\* What a concatenation has.
LEMMA Concatenated ==
    ASSUME NEW C, NEW a \in Seq(C), NEW b \in Seq(C)
    PROVE  a \o b \in Seq(C) /\ ToSet(a \o b) = ToSet(a) \cup ToSet(b)
<1> DEFINE c == a \o b
<1>1. /\ c \in Seq(C) /\ DOMAIN a = 1 .. Len(a) /\ DOMAIN b = 1 .. Len(b)
      /\ DOMAIN c = 1 .. Len(a) + Len(b)
      /\ Len(a) \in Nat /\ Len(b) \in Nat
      /\ \A i \in 1 .. Len(a) : c[i] = a[i]
      /\ \A i \in 1 .. Len(a) + Len(b) : i > Len(a) => c[i] = b[i - Len(a)]
    OBVIOUS
<1> HIDE DEF c
<1>2. ASSUME NEW i \in DOMAIN c
      PROVE  c[i] \in ToSet(a) \cup ToSet(b)
    <2>1. CASE i <= Len(a)
        BY <1>1, <2>1 DEF ToSet
    <2>2. CASE i > Len(a)
        <3>1. i - Len(a) \in DOMAIN b
            BY <1>1, <2>2
        <3> QED
            BY <1>1, <2>2, <3>1 DEF ToSet
    <2> QED
        BY <1>1, <2>1, <2>2
<1>3. ASSUME NEW i \in DOMAIN a
      PROVE  a[i] \in ToSet(c)
    <2>1. i \in DOMAIN c /\ c[i] = a[i]
        BY <1>1
    <2> QED
        BY <2>1 DEF ToSet
<1>4. ASSUME NEW i \in DOMAIN b
      PROVE  b[i] \in ToSet(c)
    <2>1. Len(a) + i \in DOMAIN c /\ Len(a) + i > Len(a) /\ (Len(a) + i) - Len(a) = i
        BY <1>1
    <2>2. c[Len(a) + i] = b[i]
        BY <1>1, <2>1
    <2> QED
        BY <2>1, <2>2 DEF ToSet
<1>5. ToSet(c) = ToSet(a) \cup ToSet(b)
    BY <1>2, <1>3, <1>4 DEF ToSet
<1> QED
    BY <1>1, <1>5 DEF c

\* What FlattenSeq computes of the lists s, place by place.
FlattenStep(s, g) ==
    [i \in 1 .. Len(s) |-> IF i = 1 THEN s[i] ELSE g[i - 1] \o s[i]]

Flattening(s) == CHOOSE g : g = FlattenStep(s, g)

\* Flattening a list of lists gives a list of their elements.
LEMMA Flattened ==
    ASSUME NEW C, NEW s \in Seq(Seq(C))
    PROVE  FlattenSeq(s) \in Seq(C)
<1> DEFINE V == Seq(C)
<1>1. Len(s) = 0 => FlattenSeq(s) \in Seq(C)
    <2>1. Len(s) = 0 => s = <<>>
        OBVIOUS
    <2>2. <<>> \in Seq(C)
        OBVIOUS
    <2> QED
        BY <2>1, <2>2 DEF FlattenSeq
<1> SUFFICES ASSUME Len(s) # 0
             PROVE  FlattenSeq(s) \in V
    BY <1>1
<1>2. PICK n \in Nat : n = Len(s) /\ n # 0
    OBVIOUS
<1>3. \A i \in 1 .. n : s[i] \in V
    BY <1>2
<1>4. \A a, b \in V : a \o b \in V
    OBVIOUS
<1> DEFINE f == Flattening(s)
<1>5. FlattenSeq(s) = f[n]
    BY <1>2 DEF FlattenSeq, Flattening, FlattenStep
<1> HIDE DEF V
<1> DEFINE Is(g, k) == /\ g \in [1 .. k -> V]
                       /\ \A i \in 1 .. k : g[i] = IF i = 1 THEN s[i] ELSE g[i - 1] \o s[i]
           S == {k \in 0 .. n : \E g : Is(g, k)}
<1>6. 0 \in S
    <2>1. Is([i \in 1 .. 0 |-> s[i]], 0)
        OBVIOUS
    <2> HIDE DEF Is
    <2> QED
        BY <2>1, <1>2
<1>7. ASSUME NEW k \in 0 .. n, k < n, k \in S
      PROVE  k + 1 \in S
    <2>1. PICK g : Is(g, k)
        BY <1>7
    <2>2. k \in Nat /\ k + 1 \in 1 .. n /\ k + 1 \in 0 .. n /\ s[k + 1] \in V
        BY <1>2, <1>3, <1>7
    <2> DEFINE next == [i \in 1 .. k + 1 |->
                            IF i = k + 1 THEN IF i = 1 THEN s[i] ELSE g[i - 1] \o s[i] ELSE g[i]]
    <2>3. k # 0 => g[k] \in V
        BY <2>1, <2>2
    <2>4. next \in [1 .. k + 1 -> V]
        <3> SUFFICES ASSUME NEW i \in 1 .. k + 1
                     PROVE  next[i] \in V
            OBVIOUS
        <3>1. CASE i = k + 1
            <4>1. i - 1 = k
                BY <2>2, <3>1
            <4> QED
                BY <1>4, <2>2, <2>3, <3>1, <4>1
        <3>2. CASE i # k + 1
            <4>1. i \in 1 .. k
                BY <2>2, <3>2
            <4> QED
                BY <2>1, <3>2, <4>1
        <3> QED
            BY <3>1, <3>2
    <2>5. ASSUME NEW i \in 1 .. k + 1
          PROVE  next[i] = IF i = 1 THEN s[i] ELSE next[i - 1] \o s[i]
        <3>1. i # 1 => i - 1 \in 1 .. k /\ i - 1 \in 1 .. k + 1 /\ i - 1 # k + 1
            BY <2>2
        <3>2. i # 1 => next[i - 1] = g[i - 1]
            BY <3>1
        <3>3. CASE i = k + 1
            BY <3>2, <3>3
        <3>4. CASE i # k + 1
            <4>1. i \in 1 .. k
                BY <2>2, <3>4
            <4>2. g[i] = IF i = 1 THEN s[i] ELSE g[i - 1] \o s[i]
                BY <2>1, <4>1
            <4> QED
                BY <3>2, <3>4, <4>2
        <3> QED
            BY <3>3, <3>4
    <2> HIDE DEF next
    <2>6. Is(next, k + 1)
        BY <2>4, <2>5
    <2> QED
        BY <2>2, <2>6
<1> HIDE DEF S
<1>8. n \in S
    <2>1. 0 .. n \subseteq S
        BY <1>2, <1>6, <1>7, BoundedInduction
    <2> QED
        BY <1>2, <2>1
<1>9. f = FlattenStep(s, f)
    <2>1. PICK g : Is(g, n)
        BY <1>8 DEF S
    <2>2. g = FlattenStep(s, g)
        BY <1>2, <2>1 DEF FlattenStep
    <2> QED
        BY <2>2 DEF Flattening
<1> HIDE DEF f, Is
<1>10. \A i \in 1 .. n : f[i] = IF i = 1 THEN s[i] ELSE f[i - 1] \o s[i]
    BY <1>2, <1>9 DEF FlattenStep
<1> DEFINE T == {k \in 0 .. n : k # 0 => f[k] \in V}
<1>11. 0 \in T
    BY <1>2
<1>12. ASSUME NEW k \in 0 .. n, k < n, k \in T
       PROVE  k + 1 \in T
    <2>1. k \in Nat /\ k + 1 \in 1 .. n /\ k + 1 \in 0 .. n /\ (k + 1) - 1 = k
        BY <1>2, <1>12
    <2>2. f[k + 1] = IF k = 0 THEN s[k + 1] ELSE f[k] \o s[k + 1]
        BY <1>10, <2>1
    <2> QED
        BY <1>3, <1>4, <1>12, <2>1, <2>2
<1> HIDE DEF T
<1>13. n \in T
    <2>1. 0 .. n \subseteq T
        BY <1>2, <1>11, <1>12, BoundedInduction
    <2> QED
        BY <1>2, <2>1
<1> QED
    BY <1>2, <1>5, <1>13 DEF T

\* The elements of the first k places of a list.
Beginning(s, k) == {s[i] : i \in 1 .. k}

LEMMA BeginningGrows ==
    ASSUME NEW C, NEW s \in Seq(C), NEW k \in 0 .. Len(s), k < Len(s)
    PROVE  /\ Beginning(s, k + 1) = Beginning(s, k) \cup {s[k + 1]}
           /\ s[k + 1] \in C
           /\ k + 1 \in 0 .. Len(s)
<1>1. Len(s) \in Nat /\ 1 .. k + 1 = (1 .. k) \cup {k + 1} /\ k + 1 \in 1 .. Len(s)
    OBVIOUS
<1> QED
    BY <1>1 DEF Beginning

(***************************************************************************)
(* What Only leaves of a list.                                             *)
(***************************************************************************)
OnlyStep(S, acc, x) == IF x \in S THEN Append(acc, x) ELSE acc

OnlyFold(s, S, g) ==
    [u \in SUBSET (DOMAIN s) |->
        IF u = {} THEN <<>> ELSE OnlyStep(S, g[u \ {Max(u)}], s[Max(u)])]

OnlyResults(s, S) == CHOOSE g : g = OnlyFold(s, S, g)

\* The results of Only, place by place.
OnlyRuns(C, S, s) ==
    {acc \in [0 .. Len(s) -> Seq(C)] :
        /\ acc[0] = <<>>
        /\ acc[Len(s)] = Only(s, S)
        /\ \A k \in 0 .. Len(s) : k < Len(s) => acc[k + 1] = OnlyStep(S, acc[k], s[k + 1])}

LEMMA OnlyRun ==
    ASSUME NEW C, NEW s \in Seq(C), NEW S
    PROVE  OnlyRuns(C, S, s) # {}
<1> DEFINE V == Seq(C)
           h == [p \in V \X C |-> OnlyStep(S, p[1], p[2])]
<1>1. PICK n \in Nat : n = Len(s)
    OBVIOUS
<1>2. PICK r \in [1 .. n -> C] : r = s
    BY <1>1
<1>3. n = Len(s) /\ r = s
    BY <1>1, <1>2
<1>4. n \in Nat /\ r \in [1 .. n -> C] /\ DOMAIN r = 1 .. n /\ <<>> \in V
    OBVIOUS
<1> DEFINE f == OnlyResults(r, S)
<1>5. Only(r, S) = f[DOMAIN r]
    BY DEF Only, FoldLeft, MapThenFoldSet, OnlyResults, OnlyFold, OnlyStep
<1>6. \A a \in V, x \in C : OnlyStep(S, a, x) \in V
    BY DEF OnlyStep
<1>7. h \in [V \X C -> V]
    BY <1>6
<1>8. \A a \in V, x \in C : h[<<a, x>>] = OnlyStep(S, a, x)
    OBVIOUS
<1> HIDE DEF h
<1>9. f = OnlyFold(r, S, f)
    <2>1. FoldsOf(V, <<>>, h, n, r) # {}
        <3> HIDE DEF V
        <3> QED
            BY <1>4, <1>7, FoldExists
    <2>2. PICK g : g \in FoldsOf(V, <<>>, h, n, r)
        BY <2>1
    <2>3. /\ g \in [SUBSET (1 .. n) -> V]
          /\ \A u \in SUBSET (1 .. n) :
                g[u] = IF u = {} THEN <<>> ELSE h[<<g[u \ {Max(u)}], r[Max(u)]>>]
        BY <2>2 DEF FoldsOf
    <2>4. ASSUME NEW u \in SUBSET (1 .. n), u # {}
          PROVE  h[<<g[u \ {Max(u)}], r[Max(u)]>>] = OnlyStep(S, g[u \ {Max(u)}], r[Max(u)])
        <3>1. Max(u) \in 1 .. n
            BY <1>4, <2>4, MaxOfInterval
        <3>2. r[Max(u)] \in C /\ g[u \ {Max(u)}] \in V
            BY <1>4, <2>3, <3>1
        <3> QED
            BY <1>8, <3>2
    <2>5. g = OnlyFold(r, S, g)
        BY <1>4, <2>3, <2>4 DEF OnlyFold
    <2> QED
        BY <2>5 DEF OnlyResults
<1>10. \A u \in SUBSET (1 .. n) :
          f[u] = IF u = {} THEN <<>> ELSE OnlyStep(S, f[u \ {Max(u)}], r[Max(u)])
    <2> HIDE DEF f
    <2> QED
        BY <1>4, <1>9 DEF OnlyFold
<1> HIDE DEF f
<1>11. f[{}] = <<>>
    BY <1>10
<1>12. ASSUME NEW u \in SUBSET (1 .. n), u # {}, f[u \ {Max(u)}] \in V
       PROVE  f[u] = h[<<f[u \ {Max(u)}], r[Max(u)]>>]
    <2>1. Max(u) \in 1 .. n
        BY <1>4, <1>12, MaxOfInterval
    <2>2. r[Max(u)] \in C
        BY <1>4, <2>1
    <2> QED
        BY <1>8, <1>10, <1>12, <2>2
<1>13. PICK acc \in [0 .. n -> V] :
          /\ acc[0] = <<>>
          /\ acc[n] = f[1 .. n]
          /\ \A k \in 0 .. n : k < n => acc[k + 1] = h[<<acc[k], r[k + 1]>>]
    <2> HIDE DEF V
    <2>1. Computes(f, V, <<>>, h, n, r)
        BY <1>11, <1>12 DEF Computes
    <2>2. ResultsOf(f, V, <<>>, h, n, r) # {}
        BY <1>4, <1>7, <2>1, FoldResults
    <2> QED
        BY <2>2 DEF ResultsOf
<1>14. ASSUME NEW k \in 0 .. n, k < n
       PROVE  acc[k + 1] = OnlyStep(S, acc[k], s[k + 1])
    <2>1. k + 1 \in 1 .. n /\ r[k + 1] \in C /\ acc[k] \in V
        BY <1>4, <1>14
    <2> QED
        BY <1>3, <1>8, <1>13, <1>14, <2>1
<1>15. acc[n] = Only(s, S)
    BY <1>3, <1>4, <1>5, <1>13
<1>16. acc \in OnlyRuns(C, S, s)
    BY <1>3, <1>13, <1>14, <1>15 DEF OnlyRuns
<1> QED
    BY <1>16

\* Only keeps the elements of a list that are in S, each as often as before.
LEMMA OnlyList ==
    ASSUME NEW C, NEW s \in Seq(C), NEW S
    PROVE  /\ Only(s, S) \in Seq(C)
           /\ IsInjective(s) => IsInjective(Only(s, S))
           /\ ToSet(Only(s, S)) = ToSet(s) \cap S
<1>1. PICK n \in Nat : n = Len(s) /\ DOMAIN s = 1 .. n
    OBVIOUS
<1>2. PICK acc \in [0 .. n -> Seq(C)] :
          /\ acc[0] = <<>>
          /\ acc[n] = Only(s, S)
          /\ \A k \in 0 .. n : k < n => acc[k + 1] = OnlyStep(S, acc[k], s[k + 1])
    <2>1. OnlyRuns(C, S, s) # {}
        BY OnlyRun
    <2>2. PICK acc \in OnlyRuns(C, S, s) : TRUE
        BY <2>1
    <2>3. /\ acc \in [0 .. n -> Seq(C)]
          /\ acc[0] = <<>>
          /\ acc[n] = Only(s, S)
          /\ \A k \in 0 .. n : k < n => acc[k + 1] = OnlyStep(S, acc[k], s[k + 1])
        BY <1>1, <2>2 DEF OnlyRuns
    <2> QED
        BY <2>3
<1> DEFINE T == {k \in 0 .. n : /\ IsInjective(s) => IsInjective(acc[k])
                                /\ ToSet(acc[k]) = Beginning(s, k) \cap S}
<1>3. 0 \in T
    <2>1. 1 .. 0 = {} /\ DOMAIN <<>> = {} /\ 0 \in 0 .. n
        OBVIOUS
    <2>2. IsInjective(<<>>) /\ ToSet(<<>>) = {} /\ Beginning(s, 0) = {}
        BY <2>1 DEF IsInjective, ToSet, Beginning
    <2> QED
        BY <1>2, <2>1, <2>2
<1>4. ASSUME NEW k \in 0 .. n, k < n, k \in T
      PROVE  k + 1 \in T
    <2>1. /\ Beginning(s, k + 1) = Beginning(s, k) \cup {s[k + 1]}
          /\ s[k + 1] \in C
          /\ k + 1 \in 0 .. n
        BY <1>1, <1>4, BeginningGrows
    <2>2. acc[k] \in Seq(C) /\ acc[k + 1] = OnlyStep(S, acc[k], s[k + 1])
        BY <1>2, <1>4
    <2>3. /\ ToSet(Append(acc[k], s[k + 1])) = ToSet(acc[k]) \cup {s[k + 1]}
          /\ IsInjective(acc[k]) /\ s[k + 1] \notin ToSet(acc[k])
                => IsInjective(Append(acc[k], s[k + 1]))
        BY <2>1, <2>2, AppendedTo
    <2>4. IsInjective(s) => s[k + 1] \notin Beginning(s, k)
        <3>1. \A i \in 1 .. k : i \in DOMAIN s /\ i # k + 1
            BY <1>1, <1>4
        <3>2. k + 1 \in DOMAIN s
            BY <1>1, <1>4
        <3> QED
            BY <3>1, <3>2 DEF IsInjective, Beginning
    <2> QED
        BY <1>4, <2>1, <2>2, <2>3, <2>4 DEF OnlyStep
<1> HIDE DEF T
<1>5. n \in T
    <2>1. 0 .. n \subseteq T
        BY <1>3, <1>4, BoundedInduction
    <2> QED
        BY <2>1
<1>6. Beginning(s, n) = ToSet(s)
    BY <1>1 DEF Beginning, ToSet
<1>7. Only(s, S) \in Seq(C)
    BY <1>2
<1>8. acc[n] = Only(s, S)
    BY <1>2
<1> QED
    BY <1>5, <1>6, <1>7, <1>8 DEF T

\* A list all of whose elements are in S stays as it is.
LEMMA OnlyAll ==
    ASSUME NEW C, NEW s \in Seq(C), NEW S, ToSet(s) \subseteq S
    PROVE  Only(s, S) = s
<1>1. PICK n \in Nat : n = Len(s) /\ DOMAIN s = 1 .. n
    OBVIOUS
<1>2. PICK acc \in [0 .. n -> Seq(C)] :
          /\ acc[0] = <<>>
          /\ acc[n] = Only(s, S)
          /\ \A k \in 0 .. n : k < n => acc[k + 1] = OnlyStep(S, acc[k], s[k + 1])
    <2>1. OnlyRuns(C, S, s) # {}
        BY OnlyRun
    <2>2. PICK acc \in OnlyRuns(C, S, s) : TRUE
        BY <2>1
    <2>3. /\ acc \in [0 .. n -> Seq(C)]
          /\ acc[0] = <<>>
          /\ acc[n] = Only(s, S)
          /\ \A k \in 0 .. n : k < n => acc[k + 1] = OnlyStep(S, acc[k], s[k + 1])
        BY <1>1, <2>2 DEF OnlyRuns
    <2> QED
        BY <2>3
<1> DEFINE T == {k \in 0 .. n : Len(acc[k]) = k /\ \A i \in 1 .. k : acc[k][i] = s[i]}
<1>3. 0 \in T
    BY <1>2
<1>4. ASSUME NEW k \in 0 .. n, k < n, k \in T
      PROVE  k + 1 \in T
    <2>1. k + 1 \in 1 .. n /\ s[k + 1] \in ToSet(s)
        BY <1>1, <1>4, SMTT(30) DEF ToSet
    <2>2. s[k + 1] \in C
        BY <1>1, <2>1
    <2>3. acc[k] \in Seq(C) /\ acc[k + 1] = Append(acc[k], s[k + 1])
        BY <1>2, <1>4, <2>1 DEF OnlyStep
    <2>4. Len(acc[k]) = k /\ \A i \in 1 .. k : acc[k][i] = s[i]
        BY <1>4
    <2>5. PICK a \in Seq(C) : a = acc[k]
        BY <2>3
    <2>6. /\ Len(Append(a, s[k + 1])) = k + 1
          /\ Append(a, s[k + 1])[k + 1] = s[k + 1]
          /\ \A i \in 1 .. k : Append(a, s[k + 1])[i] = a[i]
        BY <2>2, <2>4, <2>5
    <2>7. k \in Nat /\ n \in Nat /\ k < n
        BY <1>4
    <2>8. k + 1 \in 0 .. n /\ \A i \in 1 .. k + 1 : i = k + 1 \/ i \in 1 .. k
        BY <2>7
    <2> QED
        BY <2>3, <2>4, <2>5, <2>6, <2>8
<1> HIDE DEF T
<1>5. n \in T
    <2>1. 0 .. n \subseteq T
        BY <1>3, <1>4, BoundedInduction
    <2> QED
        BY <2>1
<1>6. acc[n] \in Seq(C) /\ Len(acc[n]) = Len(s) /\ \A i \in 1 .. Len(s) : acc[n][i] = s[i]
    BY <1>1, <1>5 DEF T
<1>7. acc[n] = s
    BY <1>6
<1> QED
    BY <1>2, <1>7

(***************************************************************************)
(* What Sorted makes of a set.                                             *)
(***************************************************************************)
\* R is a strict order on S.
StrictOrder(R, S) ==
    /\ \A x \in S : <<x, x>> \notin R
    /\ \A x, y, z \in S : <<x, y>> \in R /\ <<y, z>> \in R => <<x, z>> \in R

\* A finite set has an element before no other.
LEMMA LastElement ==
    ASSUME NEW S, IsFiniteSet(S), NEW R, StrictOrder(R, S)
    PROVE  \A T \in SUBSET S : T # {} => \E x \in T : \A y \in T : <<x, y>> \notin R
<1> DEFINE N == {n \in Nat : \A T \in SUBSET S :
                    T # {} /\ Cardinality(T) = n => \E x \in T : \A y \in T : <<x, y>> \notin R}
<1>1. \A T \in SUBSET S : IsFiniteSet(T) /\ Cardinality(T) \in Nat
    BY FS_Subset, FS_CardinalityType
<1>2. 0 \in N
    BY <1>1, FS_EmptySet
<1>3. ASSUME NEW n \in N
      PROVE  n + 1 \in N
    <2> SUFFICES ASSUME NEW T \in SUBSET S, T # {}, Cardinality(T) = n + 1
                 PROVE  \E x \in T : \A y \in T : <<x, y>> \notin R
        OBVIOUS
    <2>1. PICK z \in T : TRUE
        OBVIOUS
    <2>2. T \ {z} \in SUBSET S /\ Cardinality(T \ {z}) = n
        <3>1. IsFiniteSet(T)
            BY <1>1
        <3>2. Cardinality(T \ {z}) = Cardinality(T) - 1
            BY <2>1, <3>1, FS_RemoveElement
        <3> QED
            BY <3>2
    <2>3. \A x \in S : <<x, x>> \notin R
        BY DEF StrictOrder
    <2>4. CASE T \ {z} = {}
        <3>1. \A y \in T : y = z
            BY <2>4
        <3> QED
            BY <2>1, <2>3, <3>1
    <2>5. CASE T \ {z} # {}
        <3>1. PICK m \in T \ {z} : \A y \in T \ {z} : <<m, y>> \notin R
            BY <2>2, <2>5
        <3>2. CASE <<m, z>> \in R
            <4>1. ASSUME NEW y \in T, <<z, y>> \in R
                  PROVE  FALSE
                <5>1. <<m, y>> \in R
                    BY <2>1, <3>1, <3>2, <4>1 DEF StrictOrder
                <5>2. y # z
                    BY <2>3, <4>1
                <5> QED
                    BY <3>1, <5>1, <5>2
            <4> QED
                BY <2>1, <4>1
        <3>3. CASE <<m, z>> \notin R
            BY <3>1, <3>3
        <3> QED
            BY <3>2, <3>3
    <2> QED
        BY <2>4, <2>5
<1> HIDE DEF N
<1>4. N = Nat
    <2>1. N \subseteq Nat
        BY DEF N
    <2> QED
        BY <1>2, <1>3, <2>1, SetInduction
<1> QED
    BY <1>1, <1>4 DEF N

\* The lists of a finite set in which no element is after one that it belongs before.
SortedLists(S, R) ==
    {s \in [1 .. Cardinality(S) -> S] :
        /\ IsInjective(s)
        /\ \A i, j \in DOMAIN s : i < j => <<s[j], s[i]>> \notin R}

\* There is such a list.
LEMMA SortedExists ==
    ASSUME NEW S, IsFiniteSet(S), NEW R, StrictOrder(R, S)
    PROVE  SortedLists(S, R) # {}
<1> DEFINE N == {n \in Nat : \A T \in SUBSET S : Cardinality(T) = n => SortedLists(T, R) # {}}
<1>1. \A T \in SUBSET S : IsFiniteSet(T) /\ Cardinality(T) \in Nat
    BY FS_Subset, FS_CardinalityType
<1>2. 0 \in N
    <2> SUFFICES ASSUME NEW T \in SUBSET S, Cardinality(T) = 0
                 PROVE  SortedLists(T, R) # {}
        OBVIOUS
    <2>1. 1 .. 0 = {} /\ T = {}
        BY <1>1, FS_EmptySet
    <2> DEFINE s == [i \in 1 .. 0 |-> i]
    <2>2. s \in [1 .. Cardinality(T) -> T] /\ DOMAIN s = {}
        BY <2>1
    <2> HIDE DEF s
    <2>3. s \in SortedLists(T, R)
        BY <2>2 DEF SortedLists, IsInjective
    <2> QED
        BY <2>3
<1>3. ASSUME NEW n \in N
      PROVE  n + 1 \in N
    <2> SUFFICES ASSUME NEW T \in SUBSET S, Cardinality(T) = n + 1
                 PROVE  SortedLists(T, R) # {}
        OBVIOUS
    <2>1. T # {}
        BY FS_EmptySet
    <2>2. PICK x \in T : \A y \in T : <<x, y>> \notin R
        BY <2>1, LastElement
    <2>3. T \ {x} \in SUBSET S /\ Cardinality(T \ {x}) = n
        <3>1. IsFiniteSet(T)
            BY <1>1
        <3>2. Cardinality(T \ {x}) = Cardinality(T) - 1
            BY <2>2, <3>1, FS_RemoveElement
        <3> QED
            BY <3>2
    <2>4. PICK s : s \in SortedLists(T \ {x}, R)
        BY <2>3
    <2>5. /\ s \in [1 .. n -> T \ {x}]
          /\ IsInjective(s)
          /\ \A i, j \in 1 .. n : i < j => <<s[j], s[i]>> \notin R
        BY <2>3, <2>4 DEF SortedLists
    <2> DEFINE next == [i \in 1 .. n + 1 |-> IF i = n + 1 THEN x ELSE s[i]]
    <2>6. \A i \in 1 .. n + 1 : i = n + 1 \/ i \in 1 .. n
        OBVIOUS
    <2>7. next \in [1 .. n + 1 -> T]
        BY <2>2, <2>5, <2>6
    <2>8. IsInjective(next)
        <3> SUFFICES ASSUME NEW i \in 1 .. n + 1, NEW j \in 1 .. n + 1, next[i] = next[j]
                     PROVE  i = j
            BY DEF IsInjective
        <3>1. \A k \in 1 .. n : next[k] = s[k] /\ s[k] # x
            BY <2>5
        <3>2. next[n + 1] = x
            OBVIOUS
        <3> HIDE DEF next
        <3> QED
            BY <2>5, <2>6, <3>1, <3>2 DEF IsInjective
    <2>9. ASSUME NEW i \in 1 .. n + 1, NEW j \in 1 .. n + 1, i < j
          PROVE  <<next[j], next[i]>> \notin R
        <3>1. i \in 1 .. n
            BY <2>9
        <3>2. next[i] = s[i] /\ s[i] \in T
            BY <2>5, <3>1
        <3>3. CASE j = n + 1
            BY <2>2, <3>2, <3>3
        <3>4. CASE j # n + 1
            BY <2>5, <2>6, <2>9, <3>1, <3>2, <3>4
        <3> QED
            BY <3>3, <3>4
    <2> HIDE DEF next
    <2>10. next \in SortedLists(T, R)
        BY <2>7, <2>8, <2>9 DEF SortedLists
    <2> QED
        BY <2>10
<1> HIDE DEF N
<1>4. N = Nat
    <2>1. N \subseteq Nat
        BY DEF N
    <2> QED
        BY <1>2, <1>3, <2>1, SetInduction
<1> QED
    BY <1>1, <1>4 DEF N

\* A list of a finite set without repetitions and as long as it has all elements.
LEMMA Enumerates ==
    ASSUME NEW S, IsFiniteSet(S), NEW s \in [1 .. Cardinality(S) -> S], IsInjective(s)
    PROVE  s \in Seq(S) /\ ToSet(s) = S /\ Len(s) = Cardinality(S)
<1> DEFINE n == Cardinality(S)
<1>1. n \in Nat
    BY FS_CardinalityType
<1>2. s \in Seq(S) /\ Len(s) = n /\ DOMAIN s = 1 .. n
    BY <1>1
<1>3. IsFiniteSet(1 .. n) /\ Cardinality(1 .. n) = n
    BY <1>1, FS_Interval
<1>4. s \in Injection(1 .. n, S)
    BY DEF Injection, IsInjective
<1>5. s \in Surjection(1 .. n, S)
    BY <1>3, <1>4, FS_Injection
<1>6. \A x \in S : \E i \in 1 .. n : s[i] = x
    BY <1>5 DEF Surjection
<1> QED
    BY <1>2, <1>6 DEF ToSet

(***************************************************************************)
(* Lists one after another                                                 *)
(***************************************************************************)
\* Lists are the same that have the same elements, place by place.
LEMMA SameList ==
    ASSUME NEW C, NEW s \in Seq(C), NEW t \in Seq(C),
           Len(s) = Len(t), \A i \in 1 .. Len(s) : s[i] = t[i]
    PROVE  s = t
OBVIOUS

\* \o and Append under names of their own, for facts that are cited where the
\* provers should not expand them.
Glue(a, b) == a \o b
With(a, x) == Append(a, x)

LEMMA BothAppended ==
    ASSUME NEW C, NEW a \in Seq(C), NEW b \in Seq(C), NEW x \in C,
           NEW s, s = Append(a \o b, x), NEW t, t = a \o Append(b, x)
    PROVE  s = t
<1>1. s \in Seq(C) /\ t \in Seq(C) /\ Len(s) = Len(t)
    OBVIOUS
<1>2. \A i \in 1 .. Len(s) : s[i] = t[i]
    OBVIOUS
<1> QED
    BY ONLY <1>1, <1>2, SameList

\* What is appended to two lists is appended to the second.
LEMMA AppendedToBoth ==
    ASSUME NEW C, NEW a \in Seq(C), NEW b \in Seq(C), NEW x \in C
    PROVE  With(Glue(a, b), x) = Glue(a, With(b, x))
<1>1. Append(a \o b, x) = a \o Append(b, x)
    BY BothAppended
<1> QED
    BY <1>1 DEF With, Glue

LEMMA GluedThree ==
    ASSUME NEW C, NEW a \in Seq(C), NEW b \in Seq(C), NEW c \in Seq(C),
           NEW s, s = (a \o b) \o c, NEW t, t = a \o (b \o c)
    PROVE  s = t
<1>1. s \in Seq(C) /\ t \in Seq(C) /\ Len(s) = Len(t)
    OBVIOUS
<1>2. \A i \in 1 .. Len(s) : s[i] = t[i]
    OBVIOUS
<1> QED
    BY ONLY <1>1, <1>2, SameList

\* The order in which three lists are joined.
LEMMA GluedTwice ==
    ASSUME NEW C, NEW a \in Seq(C), NEW b \in Seq(C), NEW c \in Seq(C)
    PROVE  Glue(Glue(a, b), c) = Glue(a, Glue(b, c)) /\ Glue(b, c) \in Seq(C)
<1>1. (a \o b) \o c = a \o (b \o c)
    BY GluedThree
<1>2. b \o c \in Seq(C)
    OBVIOUS
<1> QED
    BY <1>1, <1>2 DEF Glue

LEMMA GluedOn ==
    ASSUME NEW C, NEW a \in Seq(C), NEW x \in C
    PROVE  /\ a \o <<>> = a
           /\ a \o <<x>> = Append(a, x)
           /\ <<>> \o a = a
<1>2. a \o <<>> = a
  <2> DEFINE s == a \o <<>>
  <2>1. s \in Seq(C) /\ Len(s) = Len(a)
    OBVIOUS
  <2>2. \A i \in 1 .. Len(s) : s[i] = a[i]
    OBVIOUS
  <2> HIDE DEF s
  <2>3. s = a
     BY <2>1, <2>2, SameList
  <2> QED BY <2>3 DEF s
<1>3. a \o <<x>> = Append(a, x)
  <2> DEFINE s == a \o <<x>>
             t == Append(a, x)
  <2>1. s \in Seq(C) /\ t \in Seq(C) /\ Len(s) = Len(t)
    OBVIOUS
  <2>2. \A i \in 1 .. Len(s) : s[i] = t[i]
    OBVIOUS
  <2> HIDE DEF s, t
  <2>3. s = t
     BY <2>1, <2>2, SameList
  <2> QED BY <2>3 DEF s, t
<1>4. <<>> \o a = a
  <2> DEFINE s == <<>> \o a
  <2>1. s \in Seq(C) /\ Len(s) = Len(a)
    OBVIOUS
  <2>2. \A i \in 1 .. Len(s) : s[i] = a[i]
    OBVIOUS
  <2> HIDE DEF s
  <2>3. s = a
     BY <2>1, <2>2, SameList
  <2> QED BY <2>3 DEF s
<1> QED BY <1>2, <1>3, <1>4

\* Two runs that begin alike and go on alike.
RunsAlike(n, acc, run) ==
    /\ acc[0] = run[0]
    /\ \A k \in 0 .. n : k < n /\ acc[k] = run[k] => acc[k + 1] = run[k + 1]

LEMMA AlikeRuns ==
    ASSUME NEW n \in Nat, NEW acc, NEW run, RunsAlike(n, acc, run)
    PROVE  \A k \in 0 .. n : acc[k] = run[k]
<1> DEFINE T == {k \in 0 .. n : acc[k] = run[k]}
<1>1. 0 \in T
    BY DEF RunsAlike
<1>2. \A k \in 0 .. n : k < n /\ k \in T => k + 1 \in T
    BY DEF RunsAlike
<1> HIDE DEF T
<1>3. 0 .. n \subseteq T
    BY <1>1, <1>2, BoundedInduction
<1> QED
    BY <1>3 DEF T

LEMMA RunsAgree ==
    ASSUME NEW n \in Nat, NEW acc, NEW run, acc[0] = run[0],
           \A k \in 0 .. n : k < n /\ acc[k] = run[k] => acc[k + 1] = run[k + 1]
    PROVE  \A k \in 0 .. n : acc[k] = run[k]
BY AlikeRuns DEF RunsAlike

\* Only works through one list and then through another.
LEMMA OnlyJoined ==
    ASSUME NEW C, NEW a \in Seq(C), NEW b \in Seq(C), NEW S
    PROVE  Only(a \o b, S) = Only(a, S) \o Only(b, S)
<1> DEFINE s == a \o b
<1>1. PICK n \in Nat : n = Len(a)
    OBVIOUS
<1>2. PICK m \in Nat : m = Len(b)
    OBVIOUS
<1>3. /\ s \in Seq(C) /\ Len(s) = n + m
      /\ \A k \in 0 .. n : k < n => s[k + 1] = a[k + 1] /\ a[k + 1] \in C
      /\ \A k \in 0 .. m : k < m => s[n + k + 1] = b[k + 1] /\ b[k + 1] \in C
    BY <1>1, <1>2
<1> HIDE DEF s
<1>4. PICK acc \in OnlyRuns(C, S, s) : TRUE
    BY <1>3, OnlyRun
<1>5. PICK left \in OnlyRuns(C, S, a) : TRUE
    BY OnlyRun
<1>6. PICK right \in OnlyRuns(C, S, b) : TRUE
    BY OnlyRun
<1>7. /\ acc[0] = <<>> /\ acc[n + m] = Only(s, S)
      /\ \A k \in 0 .. n + m : k < n + m => acc[k + 1] = OnlyStep(S, acc[k], s[k + 1])
    BY <1>3, <1>4 DEF OnlyRuns
<1>8. /\ left \in [0 .. n -> Seq(C)] /\ left[0] = <<>> /\ left[n] = Only(a, S)
      /\ \A k \in 0 .. n : k < n => left[k + 1] = OnlyStep(S, left[k], a[k + 1])
    BY <1>1, <1>5 DEF OnlyRuns
<1>9. /\ right \in [0 .. m -> Seq(C)] /\ right[0] = <<>> /\ right[m] = Only(b, S)
      /\ \A k \in 0 .. m : k < m => right[k + 1] = OnlyStep(S, right[k], b[k + 1])
    BY <1>2, <1>6 DEF OnlyRuns
<1>10. acc[n] = left[n]
    <2>1. \A k \in 0 .. n : k < n /\ acc[k] = left[k] => acc[k + 1] = left[k + 1]
        BY <1>3, <1>7, <1>8
    <2>2. acc[0] = left[0]
        BY <1>7, <1>8
    <2>3. \A k \in 0 .. n : acc[k] = left[k]
        BY <2>1, <2>2, RunsAgree, ZenonT(60)
    <2> QED
        BY <2>3
<1> DEFINE whole == [k \in 0 .. m |-> acc[n + k]]
           glued == [k \in 0 .. m |-> left[n] \o right[k]]
<1>11. \A k \in 0 .. m : k < m /\ whole[k] = glued[k] => whole[k + 1] = glued[k + 1]
    <2> SUFFICES ASSUME NEW k \in 0 .. m, k < m, acc[n + k] = left[n] \o right[k]
                 PROVE  acc[n + (k + 1)] = left[n] \o right[k + 1]
        <3>1. \A k \in 0 .. m : k < m => k + 1 \in 0 .. m
            OBVIOUS
        <3> QED
            BY <3>1
    <2>1. acc[n + (k + 1)] = OnlyStep(S, acc[n + k], b[k + 1])
        <3>1. n + k \in 0 .. n + m /\ n + k < n + m /\ n + (k + 1) = (n + k) + 1 /\ s[(n + k) + 1] = b[k + 1]
            BY <1>3
        <3> QED
            BY <1>7, <3>1
    <2>2. right[k + 1] = OnlyStep(S, right[k], b[k + 1])
        BY <1>9
    <2>3. /\ left[n] \in Seq(C) /\ right[k] \in Seq(C) /\ b[k + 1] \in C
        BY <1>3, <1>8, <1>9
    <2>4. Append(left[n] \o right[k], b[k + 1]) = left[n] \o Append(right[k], b[k + 1])
        <3>1. With(Glue(left[n], right[k]), b[k + 1]) = Glue(left[n], With(right[k], b[k + 1]))
            BY <2>3, AppendedToBoth
        <3> QED
            BY <3>1 DEF With, Glue
    <2> QED
        BY <2>1, <2>2, <2>4 DEF OnlyStep
<1>12. whole[0] = glued[0]
    <2>1. left[n] \in Seq(C) /\ 0 \in 0 .. m
        BY <1>8
    <2>2. left[n] \o <<>> = left[n]
        BY <2>1, GluedOn
    <2>3. whole[0] = acc[n + 0]
        BY <2>1
    <2>4. glued[0] = left[n] \o right[0]
        BY <2>1
    <2>5. n + 0 = n
        BY <1>1
    <2> HIDE DEF whole, glued
    <2> QED
        BY <1>9, <1>10, <2>2, <2>3, <2>4, <2>5
<1>13. whole[m] = glued[m]
    <2> HIDE DEF whole, glued
    <2>1. \A k \in 0 .. m : whole[k] = glued[k]
        BY <1>11, <1>12, RunsAgree, ZenonT(60)
    <2> QED
        BY <2>1
<1>14. whole[m] = acc[n + m] /\ glued[m] = left[n] \o right[m]
    <2>1. m \in 0 .. m
        BY <1>2
    <2> QED
        BY <2>1
<1> QED
    BY <1>7, <1>8, <1>9, <1>13, <1>14 DEF s

\* What Only does depends on the elements of the list that are in the set.
LEMMA OnlySame ==
    ASSUME NEW C, NEW s \in Seq(C), NEW S, NEW R, ToSet(s) \cap S = ToSet(s) \cap R
    PROVE  Only(s, S) = Only(s, R)
<1>1. PICK n \in Nat : n = Len(s)
    OBVIOUS
<1>2. PICK acc \in OnlyRuns(C, S, s) : TRUE
    BY OnlyRun
<1>3. PICK run \in OnlyRuns(C, R, s) : TRUE
    BY OnlyRun
<1>4. /\ acc[0] = <<>> /\ acc[n] = Only(s, S)
      /\ \A k \in 0 .. n : k < n => acc[k + 1] = OnlyStep(S, acc[k], s[k + 1])
    BY <1>1, <1>2 DEF OnlyRuns
<1>5. /\ run[0] = <<>> /\ run[n] = Only(s, R)
      /\ \A k \in 0 .. n : k < n => run[k + 1] = OnlyStep(R, run[k], s[k + 1])
    BY <1>1, <1>3 DEF OnlyRuns
<1>6. \A k \in 0 .. n : k < n => (s[k + 1] \in S <=> s[k + 1] \in R)
    <2>1. \A k \in 0 .. n : k < n => s[k + 1] \in ToSet(s)
        BY <1>1 DEF ToSet
    <2> QED
        BY <2>1
<1>7. \A k \in 0 .. n : k < n /\ acc[k] = run[k] => acc[k + 1] = run[k + 1]
    BY <1>4, <1>5, <1>6 DEF OnlyStep
<1>8. acc[0] = run[0]
    BY <1>4, <1>5
<1>9. \A k \in 0 .. n : acc[k] = run[k]
    BY <1>7, <1>8, RunsAgree
<1> QED
    BY <1>4, <1>5, <1>9

\* A list one place of which is in S.
LEMMA OnlyOne ==
    ASSUME NEW C, NEW s \in Seq(C), NEW S, NEW i \in DOMAIN s,
           \A j \in DOMAIN s : s[j] \in S <=> j = i
    PROVE  Only(s, S) = <<s[i]>>
<1>1. PICK n \in Nat : n = Len(s) /\ DOMAIN s = 1 .. n
    OBVIOUS
<1>2. PICK acc \in OnlyRuns(C, S, s) : TRUE
    BY OnlyRun
<1>3. /\ acc[0] = <<>> /\ acc[n] = Only(s, S)
      /\ \A k \in 0 .. n : k < n => acc[k + 1] = OnlyStep(S, acc[k], s[k + 1])
    BY <1>1, <1>2 DEF OnlyRuns
<1> DEFINE run == [k \in 0 .. n |-> IF k < i THEN <<>> ELSE <<s[i]>>]
<1>4. i \in 1 .. n
    BY <1>1
<1>5. run[0] = <<>> /\ run[n] = <<s[i]>>
    BY <1>4
<1>6. ASSUME NEW k \in 0 .. n, k < n, acc[k] = run[k]
      PROVE  acc[k + 1] = run[k + 1]
    <2>1. acc[k + 1] = OnlyStep(S, run[k], s[k + 1])
        BY <1>3, <1>6
    <2>2. k + 1 \in DOMAIN s /\ (s[k + 1] \in S <=> k + 1 = i) /\ k + 1 \in 0 .. n
        BY <1>1, <1>6
    <2>3. CASE k + 1 = i
        <3>1. run[k] = <<>> /\ run[k + 1] = <<s[i]>>
            BY <1>4, <1>6, <2>2, <2>3
        <3>2. Append(<<>>, s[k + 1]) = <<s[i]>>
            BY <2>3
        <3> QED
            BY <2>1, <2>2, <2>3, <3>1, <3>2 DEF OnlyStep
    <2>4. CASE k + 1 # i
        <3>1. run[k] = run[k + 1]
            BY <1>4, <1>6, <2>2, <2>4
        <3> QED
            BY <2>1, <2>2, <2>4, <3>1 DEF OnlyStep
    <2> QED
        BY <2>3, <2>4
<1> HIDE DEF run
<1>7. acc[0] = run[0]
    BY <1>3, <1>5
<1>8. \A k \in 0 .. n : acc[k] = run[k]
    BY <1>6, <1>7, RunsAgree
<1>9. acc[n] = run[n]
    BY <1>1, <1>8
<1> QED
    BY <1>3, <1>5, <1>9

(***************************************************************************)
(* What Firsts leaves of a list: elements with different keys.             *)
(***************************************************************************)
Seen(key, kept, x) == \E y \in ToSet(kept) : key[y] = key[x]
FirstsStep(key, kept, x) == IF Seen(key, kept, x) THEN kept ELSE Append(kept, x)

FirstsFold(s, key, g) ==
    [u \in SUBSET (DOMAIN s) |->
        IF u = {} THEN <<>> ELSE FirstsStep(key, g[u \ {Max(u)}], s[Max(u)])]

FirstsResults(s, key) == CHOOSE g : g = FirstsFold(s, key, g)

\* The results of Firsts, place by place.
FirstsRuns(C, key, s) ==
    {acc \in [0 .. Len(s) -> Seq(C)] :
        /\ acc[0] = <<>>
        /\ acc[Len(s)] = Firsts(s, key)
        /\ \A k \in 0 .. Len(s) : k < Len(s) => acc[k + 1] = FirstsStep(key, acc[k], s[k + 1])}

LEMMA FirstsRun ==
    ASSUME NEW C, NEW s \in Seq(C), NEW key
    PROVE  FirstsRuns(C, key, s) # {}
<1> DEFINE V == Seq(C)
           h == [p \in V \X C |-> FirstsStep(key, p[1], p[2])]
<1>1. PICK n \in Nat : n = Len(s)
    OBVIOUS
<1>2. PICK r \in [1 .. n -> C] : r = s
    BY <1>1
<1>3. n = Len(s) /\ r = s
    BY <1>1, <1>2
<1>4. n \in Nat /\ r \in [1 .. n -> C] /\ DOMAIN r = 1 .. n /\ <<>> \in V
    OBVIOUS
<1> DEFINE f == FirstsResults(r, key)
<1>5. Firsts(r, key) = f[DOMAIN r]
    BY DEF Firsts, FoldLeft, MapThenFoldSet, FirstsResults, FirstsFold, FirstsStep, Seen
<1>6. \A a \in V, x \in C : FirstsStep(key, a, x) \in V
    BY DEF FirstsStep
<1>7. h \in [V \X C -> V]
    BY <1>6
<1>8. \A a \in V, x \in C : h[<<a, x>>] = FirstsStep(key, a, x)
    OBVIOUS
<1> HIDE DEF h
<1>9. f = FirstsFold(r, key, f)
    <2>1. FoldsOf(V, <<>>, h, n, r) # {}
        <3> HIDE DEF V
        <3> QED
            BY <1>4, <1>7, FoldExists
    <2>2. PICK g : g \in FoldsOf(V, <<>>, h, n, r)
        BY <2>1
    <2>3. /\ g \in [SUBSET (1 .. n) -> V]
          /\ \A u \in SUBSET (1 .. n) :
                g[u] = IF u = {} THEN <<>> ELSE h[<<g[u \ {Max(u)}], r[Max(u)]>>]
        BY <2>2 DEF FoldsOf
    <2>4. ASSUME NEW u \in SUBSET (1 .. n), u # {}
          PROVE  h[<<g[u \ {Max(u)}], r[Max(u)]>>] = FirstsStep(key, g[u \ {Max(u)}], r[Max(u)])
        <3>1. Max(u) \in 1 .. n
            BY <1>4, <2>4, MaxOfInterval
        <3>2. r[Max(u)] \in C /\ g[u \ {Max(u)}] \in V
            BY <1>4, <2>3, <3>1
        <3> QED
            BY <1>8, <3>2
    <2>5. g = FirstsFold(r, key, g)
        BY <1>4, <2>3, <2>4 DEF FirstsFold
    <2> QED
        BY <2>5 DEF FirstsResults
<1>10. \A u \in SUBSET (1 .. n) :
          f[u] = IF u = {} THEN <<>> ELSE FirstsStep(key, f[u \ {Max(u)}], r[Max(u)])
    <2> HIDE DEF f
    <2> QED
        BY <1>4, <1>9 DEF FirstsFold
<1> HIDE DEF f
<1>11. f[{}] = <<>>
    BY <1>10
<1>12. ASSUME NEW u \in SUBSET (1 .. n), u # {}, f[u \ {Max(u)}] \in V
       PROVE  f[u] = h[<<f[u \ {Max(u)}], r[Max(u)]>>]
    <2>1. Max(u) \in 1 .. n
        BY <1>4, <1>12, MaxOfInterval
    <2>2. r[Max(u)] \in C
        BY <1>4, <2>1
    <2> QED
        BY <1>8, <1>10, <1>12, <2>2
<1>13. PICK acc \in [0 .. n -> V] :
          /\ acc[0] = <<>>
          /\ acc[n] = f[1 .. n]
          /\ \A k \in 0 .. n : k < n => acc[k + 1] = h[<<acc[k], r[k + 1]>>]
    <2> HIDE DEF V
    <2>1. Computes(f, V, <<>>, h, n, r)
        BY <1>11, <1>12 DEF Computes
    <2>2. ResultsOf(f, V, <<>>, h, n, r) # {}
        BY <1>4, <1>7, <2>1, FoldResults
    <2> QED
        BY <2>2 DEF ResultsOf
<1>14. ASSUME NEW k \in 0 .. n, k < n
       PROVE  acc[k + 1] = FirstsStep(key, acc[k], s[k + 1])
    <2>1. k + 1 \in 1 .. n /\ r[k + 1] \in C /\ acc[k] \in V
        BY <1>4, <1>14
    <2> QED
        BY <1>3, <1>8, <1>13, <1>14, <2>1
<1>15. acc[n] = Firsts(s, key)
    BY <1>3, <1>4, <1>5, <1>13
<1>16. acc \in FirstsRuns(C, key, s)
    BY <1>3, <1>13, <1>14, <1>15 DEF FirstsRuns
<1> QED
    BY <1>16

\* No two elements of s have the same key.
Distinct(s, key) == \A i, j \in DOMAIN s : key[s[i]] = key[s[j]] => i = j

Prefix(s, k) == [i \in 1 .. k |-> s[i]]

LEMMA DistinctEmpty ==
    ASSUME NEW C, NEW key
    PROVE  Distinct(<<>>, key) /\ <<>> \in Seq(C)
<1>1. DOMAIN <<>> = {}
    OBVIOUS
<1> QED
    BY <1>1 DEF Distinct

LEMMA DistinctGrows ==
    ASSUME NEW C, NEW a \in Seq(C), NEW x \in C, NEW key, Distinct(a, key), ~Seen(key, a, x)
    PROVE  Distinct(Append(a, x), key)
<1> DEFINE b == Append(a, x)
<1>1. /\ DOMAIN a = 1 .. Len(a) /\ DOMAIN b = 1 .. Len(a) + 1
      /\ Len(a) \in Nat
      /\ \A i \in 1 .. Len(a) : b[i] = a[i]
      /\ b[Len(a) + 1] = x
    OBVIOUS
<1> HIDE DEF b
<1>2. \A i \in DOMAIN a : key[a[i]] # key[x]
    BY DEF Seen, ToSet
<1>3. ASSUME NEW i \in DOMAIN b, NEW j \in DOMAIN b, key[b[i]] = key[b[j]]
      PROVE  i = j
    <2>1. CASE i \in DOMAIN a /\ j \in DOMAIN a
        BY <1>1, <1>3, <2>1 DEF Distinct
    <2>2. CASE i \in DOMAIN a /\ j \notin DOMAIN a
        <3>1. j = Len(a) + 1
            BY <1>1, <2>2
        <3>2. b[j] = x /\ b[i] = a[i]
            BY <1>1, <2>2, <3>1
        <3> QED
            BY <1>2, <1>3, <2>2, <3>2
    <2>3. CASE i \notin DOMAIN a /\ j \in DOMAIN a
        <3>1. i = Len(a) + 1
            BY <1>1, <2>3
        <3>2. b[i] = x /\ b[j] = a[j]
            BY <1>1, <2>3, <3>1
        <3> QED
            BY <1>2, <1>3, <2>3, <3>2
    <2>4. CASE i \notin DOMAIN a /\ j \notin DOMAIN a
        BY <1>1, <2>4
    <2> QED
        BY <2>1, <2>2, <2>3, <2>4
<1> QED
    BY <1>3 DEF b, Distinct

\* What Firsts leaves has different keys, and is something if there was something.
LEMMA FirstsList ==
    ASSUME NEW C, NEW s \in Seq(C), NEW key
    PROVE  /\ Firsts(s, key) \in Seq(C)
           /\ Distinct(Firsts(s, key), key)
           /\ s # <<>> => Firsts(s, key) # <<>>
<1>1. PICK n \in Nat : n = Len(s)
    OBVIOUS
<1>2. PICK acc \in FirstsRuns(C, key, s) : TRUE
    BY FirstsRun
<1>3. /\ acc \in [0 .. n -> Seq(C)] /\ acc[0] = <<>> /\ acc[n] = Firsts(s, key)
      /\ \A k \in 0 .. n : k < n => acc[k + 1] = FirstsStep(key, acc[k], s[k + 1])
    BY <1>1, <1>2 DEF FirstsRuns
<1> DEFINE T == {k \in 0 .. n : Distinct(acc[k], key) /\ (k # 0 => acc[k] # <<>>)}
<1>4. 0 \in T
    BY <1>1, <1>3, DistinctEmpty
<1>5. ASSUME NEW k \in 0 .. n, k < n, k \in T
      PROVE  k + 1 \in T
    <2>1. s[k + 1] \in C /\ acc[k] \in Seq(C) /\ k + 1 \in 0 .. n
        BY <1>1, <1>3, <1>5
    <2>2. acc[k + 1] = FirstsStep(key, acc[k], s[k + 1]) /\ Distinct(acc[k], key)
        BY <1>3, <1>5
    <2>3. CASE Seen(key, acc[k], s[k + 1])
        <3>1. acc[k + 1] = acc[k]
            BY <2>2, <2>3 DEF FirstsStep
        <3>2. acc[k] # <<>>
            <4>1. PICK y \in ToSet(acc[k]) : TRUE
                BY <2>3 DEF Seen
            <4>2. PICK i \in DOMAIN acc[k] : TRUE
                BY <4>1 DEF ToSet
            <4> QED
                BY <4>2
        <3> QED
            BY <2>1, <2>2, <3>1, <3>2
    <2>4. CASE ~Seen(key, acc[k], s[k + 1])
        <3>1. acc[k + 1] = Append(acc[k], s[k + 1])
            BY <2>2, <2>4 DEF FirstsStep
        <3>2. Distinct(acc[k + 1], key)
            BY <2>1, <2>2, <2>4, <3>1, DistinctGrows
        <3>3. acc[k + 1] # <<>>
            BY <2>1, <3>1
        <3> QED
            BY <2>1, <3>2, <3>3
    <2> QED
        BY <2>3, <2>4
<1> HIDE DEF T
<1>6. n \in T
    <2>1. 0 .. n \subseteq T
        BY <1>4, <1>5, BoundedInduction
    <2> QED
        BY <2>1
<1>7. s # <<>> => n # 0
    BY <1>1
<1> QED
    BY <1>3, <1>6, <1>7 DEF T

-----------------------------------------------------------------------------
\* The beginnings of a list with different keys.
LEMMA PrefixStep ==
    ASSUME NEW C, NEW r \in Seq(C), NEW key, Distinct(r, key), NEW k \in 0 .. Len(r)
    PROVE  /\ Prefix(r, k) \in Seq(C)
           /\ Prefix(r, 0) = <<>>
           /\ Prefix(r, Len(r)) = r
           /\ k < Len(r) => FirstsStep(key, Prefix(r, k), r[k + 1]) = Prefix(r, k + 1)
           /\ \A i \in 1 .. k : FirstsStep(key, Prefix(r, k), r[i]) = Prefix(r, k)
<1>1. Len(r) \in Nat /\ DOMAIN r = 1 .. Len(r) /\ k \in Nat
    OBVIOUS
<1>2. \A i \in 1 .. k : i \in DOMAIN r /\ r[i] \in C
    BY <1>1
<1>3. Prefix(r, k) \in Seq(C) /\ Len(Prefix(r, k)) = k /\ DOMAIN Prefix(r, k) = 1 .. k
    BY <1>1, <1>2 DEF Prefix
<1>4. ToSet(Prefix(r, k)) = {r[i] : i \in 1 .. k}
    BY <1>3 DEF ToSet, Prefix
<1>5. \A i \in 1 .. k : FirstsStep(key, Prefix(r, k), r[i]) = Prefix(r, k)
    BY <1>4 DEF FirstsStep, Seen
<1>6. Prefix(r, 0) = <<>>
    BY DEF Prefix
<1>7. Prefix(r, Len(r)) = r
    BY <1>1 DEF Prefix
<1>8. ASSUME k < Len(r)
      PROVE  FirstsStep(key, Prefix(r, k), r[k + 1]) = Prefix(r, k + 1)
    <2>1. k + 1 \in DOMAIN r /\ r[k + 1] \in C /\ k + 1 \in Nat
        BY <1>1, <1>8
    <2>2. ~Seen(key, Prefix(r, k), r[k + 1])
        <3> SUFFICES ASSUME NEW y \in ToSet(Prefix(r, k)), key[y] = key[r[k + 1]]
                     PROVE  FALSE
            BY DEF Seen
        <3>1. PICK i \in 1 .. k : y = r[i]
            BY <1>4
        <3>2. i = k + 1
            BY <1>2, <2>1, <3>1 DEF Distinct
        <3> QED
            BY <1>1, <3>1, <3>2
    <2>3. Append(Prefix(r, k), r[k + 1]) = Prefix(r, k + 1)
        <3> DEFINE s == Append(Prefix(r, k), r[k + 1])
                   t == Prefix(r, k + 1)
        <3>1. \A i \in 1 .. k + 1 : r[i] \in C
            BY <1>1, <1>8
        <3>2. t \in Seq(C) /\ Len(t) = k + 1
            BY <2>1, <3>1 DEF Prefix
        <3>3. s \in Seq(C) /\ Len(s) = k + 1
            BY <1>3, <2>1
        <3>4. \A i \in 1 .. k : s[i] = Prefix(r, k)[i]
            BY <1>1, <1>3, <2>1
        <3>5. s[k + 1] = r[k + 1]
            BY <1>1, <1>3, <2>1
        <3>6. \A i \in 1 .. k + 1 : t[i] = r[i]
            BY <2>1 DEF Prefix
        <3>7. \A i \in 1 .. k : Prefix(r, k)[i] = r[i]
            BY <1>1 DEF Prefix
        <3> HIDE DEF s, t
        <3>8. \A i \in 1 .. Len(s) : s[i] = t[i]
            <4>1. \A i \in 1 .. k + 1 : i \in 1 .. k \/ i = k + 1
                BY <1>1
            <4> QED
                BY <2>1, <3>3, <3>4, <3>5, <3>6, <3>7, <4>1
        <3>9. s = t
            BY <3>2, <3>3, <3>8, SameList
        <3> QED
            BY <3>9 DEF s, t
    <2> QED
        BY <2>2, <2>3 DEF FirstsStep
<1> QED
    BY <1>3, <1>5, <1>6, <1>7, <1>8

\* A list with different keys that comes after its own beginning.
LEMMA FirstsAgain ==
    ASSUME NEW C, NEW r \in Seq(C), NEW key, Distinct(r, key), NEW n \in 0 .. Len(r)
    PROVE  Firsts(Prefix(r, n) \o r, key) = r
<1>1. PICK m \in Nat : m = Len(r) /\ n <= m /\ n \in Nat /\ DOMAIN r = 1 .. m
    OBVIOUS
<1> DEFINE s == Prefix(r, n) \o r
<1>2. Prefix(r, n) \in Seq(C) /\ Len(Prefix(r, n)) = n
      /\ \A i \in 1 .. n : Prefix(r, n)[i] = r[i]
    <2>1. Prefix(r, n) \in Seq(C)
        BY PrefixStep
    <2> QED
        BY <1>1, <2>1 DEF Prefix
<1>3. /\ s \in Seq(C) /\ Len(s) = n + m
      /\ \A k \in 0 .. n : k < n => s[k + 1] = r[k + 1]
      /\ \A k \in 0 .. m : k < m => s[(n + k) + 1] = r[k + 1]
    <2>1. s \in Seq(C) /\ Len(s) = n + m
        BY <1>1, <1>2
    <2>2. \A k \in 0 .. n : k < n => s[k + 1] = Prefix(r, n)[k + 1]
        BY <1>1, <1>2
    <2>3. \A k \in 0 .. m : k < m => s[(n + k) + 1] = r[k + 1]
        BY <1>1, <1>2
    <2>4. \A k \in 0 .. n : k < n => k + 1 \in 1 .. n
        BY <1>1
    <2> QED
        BY <1>2, <2>1, <2>2, <2>3, <2>4
<1> HIDE DEF s
<1>4. PICK acc \in FirstsRuns(C, key, s) : TRUE
    BY <1>3, FirstsRun
<1>5. /\ acc[0] = <<>> /\ acc[n + m] = Firsts(s, key)
      /\ \A k \in 0 .. n + m : k < n + m => acc[k + 1] = FirstsStep(key, acc[k], s[k + 1])
    BY <1>3, <1>4 DEF FirstsRuns
<1>6. /\ Prefix(r, 0) = <<>> /\ Prefix(r, m) = r
      /\ \A k \in 0 .. m : k < m => FirstsStep(key, Prefix(r, k), r[k + 1]) = Prefix(r, k + 1)
      /\ \A k \in 0 .. m : \A i \in 1 .. k : FirstsStep(key, Prefix(r, k), r[i]) = Prefix(r, k)
    BY <1>1, PrefixStep, SMTT(30)
<1> DEFINE begun == [k \in 0 .. n |-> Prefix(r, k)]
<1>7. acc[n] = Prefix(r, n)
    <2>1. \A k \in 0 .. n : k < n /\ acc[k] = begun[k] => acc[k + 1] = begun[k + 1]
        <3> SUFFICES ASSUME NEW k \in 0 .. n, k < n, acc[k] = Prefix(r, k)
                     PROVE  acc[k + 1] = Prefix(r, k + 1)
            <4>1. \A k \in 0 .. n : k < n => k + 1 \in 0 .. n
                BY <1>1
            <4> QED
                BY <4>1
        <3>1. k \in 0 .. m /\ k < m /\ k \in 0 .. n + m /\ k < n + m
            BY <1>1
        <3>2. acc[k + 1] = FirstsStep(key, Prefix(r, k), r[k + 1])
            BY <1>3, <1>5, <3>1
        <3> QED
            BY <1>6, <3>1, <3>2
    <2>2. acc[0] = begun[0]
        <3>1. 0 \in 0 .. n
            BY <1>1
        <3>2. begun[0] = Prefix(r, 0)
            BY <3>1
        <3> QED
            BY <1>5, <1>6, <3>2
    <2> HIDE DEF begun
    <2>3. \A k \in 0 .. n : acc[k] = begun[k]
        BY <1>1, <2>1, <2>2, RunsAgree, SMTT(30)
    <2>4. n \in 0 .. n
        BY <1>1
    <2> QED
        BY <2>3, <2>4 DEF begun
<1> DEFINE rest == [k \in 0 .. m |-> acc[n + k]]
           grown == [k \in 0 .. m |-> Prefix(r, IF k <= n THEN n ELSE k)]
<1>8. \A k \in 0 .. m : k < m /\ rest[k] = grown[k] => rest[k + 1] = grown[k + 1]
    <2> SUFFICES ASSUME NEW k \in 0 .. m, k < m,
                        acc[n + k] = Prefix(r, IF k <= n THEN n ELSE k)
                 PROVE  acc[n + (k + 1)] = Prefix(r, IF k + 1 <= n THEN n ELSE k + 1)
        <3>1. \A k \in 0 .. m : k < m => k + 1 \in 0 .. m
            BY <1>1
        <3> QED
            BY <3>1
    <2>1. n + k \in 0 .. n + m /\ n + k < n + m /\ n + (k + 1) = (n + k) + 1
        BY <1>1
    <2>2. acc[n + (k + 1)] = FirstsStep(key, acc[n + k], r[k + 1])
        BY <1>3, <1>5, <2>1
    <2>3. CASE k + 1 <= n
        <3>1. k <= n /\ n \in 0 .. m /\ k + 1 \in 1 .. n
            BY <1>1, <2>3
        <3> QED
            BY <1>6, <2>2, <2>3, <3>1
    <2>4. CASE ~(k + 1 <= n)
        <3>1. (IF k <= n THEN n ELSE k) = k
            BY <1>1, <2>4
        <3> QED
            BY <1>6, <2>2, <2>4, <3>1
    <2> QED
        BY <2>3, <2>4
<1>9. rest[0] = grown[0]
    <2>1. 0 \in 0 .. m /\ 0 <= n /\ n + 0 = n
        BY <1>1
    <2>2. rest[0] = acc[n + 0] /\ grown[0] = Prefix(r, n)
        BY <2>1
    <2> QED
        BY <1>7, <2>1, <2>2
<1>10. rest[m] = acc[n + m] /\ grown[m] = Prefix(r, m)
    <2>1. m \in 0 .. m /\ (IF m <= n THEN n ELSE m) = m
        BY <1>1
    <2> QED
        BY <2>1
<1> HIDE DEF rest, grown
<1>11. \A k \in 0 .. m : rest[k] = grown[k]
    BY <1>8, <1>9, RunsAgree, ZenonT(60)
<1>12. rest[m] = grown[m]
    BY <1>1, <1>11
<1> QED
    BY <1>5, <1>6, <1>10, <1>12 DEF s

\* A list with different keys stays as it is.
LEMMA FirstsSame ==
    ASSUME NEW C, NEW r \in Seq(C), NEW key, Distinct(r, key)
    PROVE  Firsts(r, key) = r
<1>1. 0 \in 0 .. Len(r)
    OBVIOUS
<1>2. Firsts(Prefix(r, 0) \o r, key) = r /\ Prefix(r, 0) = <<>>
    BY <1>1, FirstsAgain, PrefixStep
<1>3. <<>> \o r = r
    BY GluedOn
<1> QED
    BY <1>2, <1>3

\* A list with different keys that another follows: the result begins with it.
LEMMA FirstsBegins ==
    ASSUME NEW C, NEW a \in Seq(C), NEW b \in Seq(C), NEW key, Distinct(a, key)
    PROVE  \E c \in Seq(C) : Firsts(Glue(a, b), key) = Glue(a, c)
<1>1. PICK n \in Nat : n = Len(a)
    OBVIOUS
<1>2. PICK m \in Nat : m = Len(b)
    OBVIOUS
<1> DEFINE s == a \o b
<1>3. /\ s \in Seq(C) /\ Len(s) = n + m
      /\ \A k \in 0 .. n : k < n => s[k + 1] = a[k + 1] /\ a[k + 1] \in C
      /\ \A k \in 0 .. m : k < m => s[(n + k) + 1] = b[k + 1] /\ b[k + 1] \in C
    BY <1>1, <1>2
<1> HIDE DEF s
<1>4. PICK acc \in FirstsRuns(C, key, s) : TRUE
    BY <1>3, FirstsRun
<1>5. /\ acc[0] = <<>> /\ acc[n + m] = Firsts(s, key)
      /\ \A k \in 0 .. n + m : k < n + m => acc[k + 1] = FirstsStep(key, acc[k], s[k + 1])
    BY <1>3, <1>4 DEF FirstsRuns
<1>6. /\ Prefix(a, 0) = <<>> /\ Prefix(a, n) = a
      /\ \A k \in 0 .. n : k < n => FirstsStep(key, Prefix(a, k), a[k + 1]) = Prefix(a, k + 1)
    BY <1>1, PrefixStep
<1> DEFINE begun == [k \in 0 .. n |-> Prefix(a, k)]
<1>7. acc[n] = a
    <2>1. \A k \in 0 .. n : k < n /\ acc[k] = begun[k] => acc[k + 1] = begun[k + 1]
        <3> SUFFICES ASSUME NEW k \in 0 .. n, k < n, acc[k] = Prefix(a, k)
                     PROVE  acc[k + 1] = Prefix(a, k + 1)
            <4>1. \A k \in 0 .. n : k < n => k + 1 \in 0 .. n
                BY <1>1
            <4> QED
                BY <4>1
        <3>1. k \in 0 .. n + m /\ k < n + m
            BY <1>1, <1>2
        <3>2. acc[k + 1] = FirstsStep(key, Prefix(a, k), a[k + 1])
            BY <1>3, <1>5, <3>1
        <3> QED
            BY <1>6, <3>1, <3>2
    <2>2. acc[0] = begun[0]
        <3>1. 0 \in 0 .. n
            BY <1>1
        <3>2. begun[0] = Prefix(a, 0)
            BY <3>1
        <3> QED
            BY <1>5, <1>6, <3>2
    <2> HIDE DEF begun
    <2>3. \A k \in 0 .. n : acc[k] = begun[k]
        BY <2>1, <2>2, RunsAgree, SMTT(30)
    <2>4. n \in 0 .. n
        BY <1>1
    <2> QED
        BY <1>6, <2>3, <2>4 DEF begun
<1> DEFINE T == {k \in 0 .. m : \E c \in Seq(C) : acc[n + k] = a \o c}
<1>8. 0 \in T
    <2>1. 0 \in 0 .. m /\ n + 0 = n /\ <<>> \in Seq(C)
        BY <1>1, <1>2
    <2>2. a \o <<>> = a
        BY GluedOn
    <2> QED
        BY <1>7, <2>1, <2>2
<1>9. ASSUME NEW k \in 0 .. m, k < m, k \in T
      PROVE  k + 1 \in T
    <2>1. PICK c \in Seq(C) : acc[n + k] = a \o c
        BY <1>9
    <2>2. n + k \in 0 .. n + m /\ n + k < n + m /\ n + (k + 1) = (n + k) + 1 /\ k + 1 \in 0 .. m
        BY <1>1, <1>9
    <2>3. acc[n + (k + 1)] = FirstsStep(key, a \o c, b[k + 1]) /\ b[k + 1] \in C
        BY <1>3, <1>5, <1>9, <2>1, <2>2
    <2>4. CASE Seen(key, a \o c, b[k + 1])
        BY <2>2, <2>3, <2>4 DEF FirstsStep
    <2>5. CASE ~Seen(key, a \o c, b[k + 1])
        <3>1. With(Glue(a, c), b[k + 1]) = Glue(a, With(c, b[k + 1]))
            BY <2>3, AppendedToBoth
        <3>2. acc[n + (k + 1)] = a \o Append(c, b[k + 1])
            BY <2>3, <2>5, <3>1 DEF FirstsStep, With, Glue
        <3>3. Append(c, b[k + 1]) \in Seq(C)
            BY <2>3
        <3> QED
            BY <2>2, <3>2, <3>3
    <2> QED
        BY <2>4, <2>5
<1> HIDE DEF T
<1>10. m \in T
    <2>1. 0 .. m \subseteq T
        BY <1>8, <1>9, BoundedInduction
    <2> QED
        BY <1>2, <2>1
<1> QED
    BY <1>5, <1>10 DEF T, s, Glue
===============================================================================
