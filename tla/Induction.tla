----------------------------- MODULE Induction -----------------------------
(***************************************************************************)
(* Induction for the other proofs: a set of numbers that has 0 and with a  *)
(* number the next one has them all.  It follows from the natural numbers  *)
(* being well founded (WellFoundedInduction), and takes a set where the    *)
(* library's theorem takes a predicate: the provers can instantiate it.    *)
(* With it: least and greatest numbers, and joining lists with FlattenSeq. *)
(***************************************************************************)
EXTENDS SequencesExt, TLAPS, WellFoundedInduction, SequenceTheorems, FiniteSetTheorems

\* The principle.
LEMMA SetInduction ==
  ASSUME NEW S, 0 \in S, \A n \in Nat : n \in S => n + 1 \in S
  PROVE  Nat \subseteq S
<1> DEFINE T == Nat \ S
<1> SUFFICES ASSUME T # {} PROVE FALSE
  OBVIOUS
<1>1. IsWellFoundedOn(OpToRel(<, Nat), Nat)
  BY NatLessThanWellFounded
<1>2. PICK x \in T : \A y \in T : ~ (<<y, x>> \in OpToRel(<, Nat))
  <2>. HIDE DEF T
  <2>1. T \subseteq Nat BY DEF T
  <2> QED BY <1>1, <2>1, WFMin
<1>3. \A y \in T : ~ (y < x)
  BY <1>2 DEF OpToRel
<1>4. x # 0 /\ x - 1 \in Nat
  OBVIOUS
<1>5. x - 1 \in T
  OBVIOUS
<1> QED BY <1>3, <1>5

\* The same up to a number.
LEMMA SetInductionTo ==
  ASSUME NEW N \in Nat, NEW S, 0 \in S, \A n \in 0 .. N - 1 : n \in S => n + 1 \in S
  PROVE  0 .. N \subseteq S
<1> DEFINE T == S \cup {n \in Nat : n > N}
<1>1. \A n \in Nat : n \in T => n + 1 \in T
  OBVIOUS
<1>2. 0 \in T
  OBVIOUS
<1> HIDE DEF T
<1>3. Nat \subseteq T
  BY <1>1, <1>2, SetInduction
<1> QED BY <1>3 DEF T

\* A function on 1 .. n is a list of n elements.
LEMMA IsList ==
  ASSUME NEW S, NEW n \in Nat, NEW f \in [1 .. n -> S]
  PROVE  f \in Seq(S) /\ Len(f) = n
<1>1. f \in Seq(S)
  BY SeqDef
<1> QED BY <1>1, LenProperties

\* A set of numbers with something in it has a least number, and one that is
\* bounded a greatest.
LEMMA Least ==
  ASSUME NEW S, S \subseteq Nat, S # {}
  PROVE  \E x \in S : \A y \in S : x <= y
<1> SUFFICES ASSUME \A x \in S : \E y \in S : y < x PROVE FALSE
  OBVIOUS
<1> DEFINE Above == {n \in Nat : \A x \in S : n < x}
<1>1. 0 \in Above
  <2> SUFFICES ASSUME NEW x \in S PROVE 0 < x
    OBVIOUS
  <2> QED OBVIOUS
<1>2. ASSUME NEW n \in Nat, n \in Above PROVE n + 1 \in Above
  <2> SUFFICES ASSUME NEW x \in S PROVE n + 1 < x
    OBVIOUS
  <2>1. PICK y \in S : y < x
    OBVIOUS
  <2>2. n < y
    BY <1>2
  <2> QED BY <2>1, <2>2
<1>3. Nat \subseteq Above
  <2> HIDE DEF Above
  <2> QED BY <1>1, <1>2, SetInduction
<1>4. PICK x \in S : TRUE
  OBVIOUS
<1>5. x < x
  BY <1>3, <1>4
<1> QED BY <1>4, <1>5

LEMMA Greatest ==
  ASSUME NEW S, S \subseteq Nat, S # {}, NEW B \in Nat, \A x \in S : x <= B
  PROVE  \E x \in S : \A y \in S : y <= x
<1> DEFINE T == {B - x : x \in S}
<1>1. T \subseteq Nat /\ T # {}
  <2>1. \A x \in S : B - x \in Nat
    OBVIOUS
  <2> QED BY <2>1
<1>2. PICK t \in T : \A u \in T : t <= u
  <2> HIDE DEF T
  <2> QED BY <1>1, Least
<1>3. PICK x \in S : t = B - x
  OBVIOUS
<1>4. \A y \in S : B - x <= B - y
  BY <1>2, <1>3
<1>5. \A y \in S : y <= x
  BY <1>4
<1> QED BY <1>5

\* f is what it is at 0, and each value follows from the one before.
Follows(f, N, S, base, step) ==
  /\ f \in [0 .. N -> S]
  /\ f[0] = base
  /\ \A i \in 1 .. N : f[i] = step[i][f[i - 1]]

\* There is such a function.
LEMMA Recursion ==
  ASSUME NEW N \in Nat, NEW S, NEW base \in S, NEW step \in [1 .. N -> [S -> S]]
  PROVE  \E f : Follows(f, N, S, base, step)
<1> DEFINE Upto(n, f) == f[0] = base /\ \A i \in 1 .. n : f[i] = step[i][f[i - 1]]
           Reached == {n \in 0 .. N : \E f \in [0 .. n -> S] : Upto(n, f)}
<1>1. 0 \in Reached
  <2> DEFINE g == [i \in 0 .. 0 |-> base]
  <2>1. g \in [0 .. 0 -> S] /\ g[0] = base /\ 1 .. 0 = {} /\ 0 \in 0 .. N
    OBVIOUS
  <2> HIDE DEF g
  <2> QED BY <2>1
<1>2. ASSUME NEW n \in 0 .. N - 1, n \in Reached PROVE n + 1 \in Reached
  <2>1. PICK f \in [0 .. n -> S] : Upto(n, f)
    BY <1>2
  <2> DEFINE g == [i \in 0 .. n + 1 |-> IF i <= n THEN f[i] ELSE step[n + 1][f[n]]]
  <2>2. step[n + 1][f[n]] \in S
    OBVIOUS
  <2>3. g \in [0 .. n + 1 -> S]
    BY <2>2
  <2>4. g[0] = base
    BY <2>1
  <2>5. ASSUME NEW i \in 1 .. n + 1 PROVE g[i] = step[i][g[i - 1]]
    <3>1. CASE i = n + 1
      <4>1. (n + 1) - 1 = n /\ n \in 0 .. n /\ n <= n
        OBVIOUS
      <4> QED BY <3>1, <4>1
    <3>2. CASE i \in 1 .. n
      <4>1. i - 1 \in 0 .. n /\ i \in 0 .. n
        BY <3>2
      <4>2. g[i] = f[i] /\ g[i - 1] = f[i - 1]
        BY <4>1
      <4> QED BY <2>1, <3>2, <4>2
    <3> QED BY <3>1, <3>2
  <2> HIDE DEF g
  <2> QED BY <2>3, <2>4, <2>5
<1>3. 0 .. N \subseteq Reached
  <2> HIDE DEF Reached
  <2> QED BY <1>1, <1>2, SetInductionTo
<1> HIDE DEF Upto
<1>4. N \in 0 .. N
  OBVIOUS
<1>5. PICK f \in [0 .. N -> S] : Upto(N, f)
  BY <1>3, <1>4
<1> QED BY <1>5 DEF Upto, Follows

\* f[i] is the first i lists joined.
Joins(f, S, N, ss) ==
  /\ f \in [1 .. N -> Seq(S)]
  /\ f[1] = ss[1]
  /\ \A n \in 1 .. N - 1 : f[n + 1] = f[n] \o ss[n + 1]

\* What joining the lists one after the other comes to.
LEMMA Flatten ==
  ASSUME NEW S, NEW N \in Nat \ {0}, NEW ss \in [1 .. N -> Seq(S)]
  PROVE  \E f : Joins(f, S, N, ss) /\ FlattenSeq(ss) = f[N]
<1> DEFINE D(g, i) == IF i = 1 THEN ss[i] ELSE g[i - 1] \o ss[i]
           Joined(n) == \E g \in [1 .. n -> Seq(S)] : \A i \in 1 .. n : g[i] = D(g, i)
           Upto == {n \in 0 .. N : Joined(n)}
<1>0. N \in Nat /\ N > 0 /\ Len(ss) = N /\ \A i \in 1 .. N : ss[i] \in Seq(S)
  OBVIOUS
<1>1. Joined(0)
  <2>1. [i \in 1 .. 0 |-> <<>>] \in [1 .. 0 -> Seq(S)]
    OBVIOUS
  <2>2. \A i \in 1 .. 0 : FALSE
    OBVIOUS
  <2>3. \A i \in 2 .. N : i \in 1 .. N /\ i # 1
    OBVIOUS
  <2> HIDE DEF D
  <2> QED BY ONLY <2>1, <2>2, <2>3
<1>2. ASSUME NEW n \in 0 .. N - 1, Joined(n)
      PROVE  Joined(n + 1)
  <2>1. PICK g \in [1 .. n -> Seq(S)] : \A i \in 1 .. n : g[i] = D(g, i)
    BY <1>2
  <2> DEFINE h == [i \in 1 .. n + 1 |-> IF i <= n THEN g[i] ELSE D(g, n + 1)]
  <2>2. D(g, n + 1) \in Seq(S)
    BY <1>0
  <2>3. h \in [1 .. n + 1 -> Seq(S)]
    <3> HIDE DEF D
    <3> QED BY <2>2
  <2>4. ASSUME NEW i \in 1 .. n + 1 PROVE h[i] = D(g, i)
    <3>1. CASE i = n + 1 BY <3>1
    <3>2. CASE i \in 1 .. n
      <4> HIDE DEF D
      <4> QED BY <3>2, <2>1
    <3> QED BY <3>1, <3>2
  <2>5. ASSUME NEW i \in 1 .. n + 1 PROVE D(g, i) = D(h, i)
    <3>1. i # 1 => i - 1 \in 1 .. n OBVIOUS
    <3>2. i # 1 => h[i - 1] = g[i - 1] BY <3>1
    <3> QED BY <3>2
  <2> HIDE DEF h, D
  <2> QED BY <2>3, <2>4, <2>5
<1>3. N \in Upto
  <2> HIDE DEF Joined
  <2>1. 0 \in Upto /\ \A n \in 0 .. N - 1 : n \in Upto => n + 1 \in Upto
    BY <1>0, <1>1, <1>2
  <2> HIDE DEF Upto
  <2>2. 0 .. N \subseteq Upto
    BY ONLY <2>1, SetInductionTo, N \in Nat
  <2> QED BY <2>2
<1>4. PICK g \in [1 .. N -> Seq(S)] : \A i \in 1 .. N : g[i] = D(g, i)
  BY <1>3
<1> DEFINE f == CHOOSE f : f = [i \in 1 .. N |-> D(f, i)]
<1>5. g = [i \in 1 .. N |-> D(g, i)]
  BY <1>4
<1>6. f = [i \in 1 .. N |-> D(f, i)]
  <2> HIDE DEF D
  <2> QED BY <1>5
<1>7. FlattenSeq(ss) = f[N]
  BY <1>0 DEF FlattenSeq
<1> HIDE DEF f
<1> DEFINE Same == {n \in 0 .. N : \A i \in 1 .. n : f[i] = g[i]}
<1>8. N \in Same
  <2>1. 0 \in Same
    BY <1>0
  <2>2. ASSUME NEW n \in 0 .. N - 1, n \in Same PROVE n + 1 \in Same
    <3>1. f[n + 1] = D(f, n + 1) /\ g[n + 1] = D(g, n + 1)
      <4> HIDE DEF D
      <4>1. n + 1 \in 1 .. N BY <1>0
      <4> QED BY <1>4, <1>6, <4>1
    <3>2. n + 1 # 1 => f[n] = g[n]
      BY <2>2
    <3>3. f[n + 1] = g[n + 1]
      BY <3>1, <3>2
    <3>4. \A i \in 1 .. n + 1 : i = n + 1 \/ i \in 1 .. n
      OBVIOUS
    <3>5. n + 1 \in 0 .. N /\ \A i \in 1 .. n : f[i] = g[i]
      BY <2>2, <1>0
    <3> HIDE DEF D
    <3> QED BY <3>3, <3>4, <3>5
  <2> HIDE DEF Same
  <2>3. 0 .. N \subseteq Same
    BY ONLY <2>1, <2>2, SetInductionTo, N \in Nat
  <2> QED BY <2>3
<1>9. f = g
  <2> HIDE DEF D
  <2> QED BY <1>4, <1>6, <1>8, <1>0
<1>10. g[1] = ss[1] /\ \A n \in 1 .. N - 1 : g[n + 1] = g[n] \o ss[n + 1]
  <2>1. g[1] = ss[1]
    BY <1>0, <1>4
  <2>2. ASSUME NEW n \in 1 .. N - 1 PROVE g[n + 1] = g[n] \o ss[n + 1]
    <3>1. n + 1 \in 1 .. N /\ n + 1 # 1 /\ (n + 1) - 1 = n
      OBVIOUS
    <3>2. g[n + 1] = D(g, n + 1)
      <4> HIDE DEF D
      <4> QED BY <1>4, <3>1
    <3>3. \A j \in 1 .. N : j # 1 => D(g, j) = g[j - 1] \o ss[j]
      BY Zenon
    <3> HIDE DEF D
    <3>4. g[(n + 1) - 1] = g[n]
      BY <3>1
    <3>5. D(g, n + 1) = g[(n + 1) - 1] \o ss[n + 1]
      BY ONLY <3>1, <3>3, Zenon
    <3> QED BY ONLY <3>2, <3>4, <3>5
  <2> HIDE DEF D
  <2> QED BY <2>1, <2>2
<1> HIDE DEF D
<1> QED BY <1>4, <1>7, <1>9, <1>10 DEF Joins


\* What is in two lists joined.
LEMMA Concatenated ==
  ASSUME NEW S, NEW s \in Seq(S), NEW t \in Seq(S)
  PROVE  /\ s \o t \in Seq(S)
         /\ Range(s \o t) = Range(s) \cup Range(t)
         /\ IsInjective(s) /\ IsInjective(t) /\ Range(s) \cap Range(t) = {} =>
              IsInjective(s \o t)
<1> DEFINE u == s \o t
<1>1. /\ u \in Seq(S) /\ Len(u) = Len(s) + Len(t)
      /\ \A i \in 1 .. Len(s) + Len(t) :
           u[i] = IF i <= Len(s) THEN s[i] ELSE t[i - Len(s)]
  BY ConcatProperties
<1>2. /\ Len(s) \in Nat /\ Len(t) \in Nat
      /\ DOMAIN s = 1 .. Len(s) /\ DOMAIN t = 1 .. Len(t) /\ DOMAIN u = 1 .. Len(s) + Len(t)
  BY <1>1
<1> HIDE DEF u
<1>3. \A i \in DOMAIN s : i \in DOMAIN u /\ u[i] = s[i]
  BY <1>1, <1>2
<1>4. \A i \in DOMAIN t : i + Len(s) \in DOMAIN u /\ u[i + Len(s)] = t[i]
  <2> TAKE i \in DOMAIN t
  <2>1. i + Len(s) \in 1 .. Len(s) + Len(t) /\ ~ (i + Len(s) <= Len(s))
        /\ i + Len(s) - Len(s) = i
    BY <1>2
  <2> QED BY <1>1, <1>2, <2>1
<1>5. \A i \in DOMAIN u : \/ i \in DOMAIN s /\ u[i] = s[i]
                          \/ i - Len(s) \in DOMAIN t /\ u[i] = t[i - Len(s)]
  <2> TAKE i \in DOMAIN u
  <2>1. i \in 1 .. Len(s) + Len(t) /\ i \in Nat
    BY <1>2
  <2>2. CASE i <= Len(s)
    <3>1. i \in DOMAIN s
      BY <1>2, <2>1, <2>2
    <3>2. u[i] = s[i]
      BY <1>1, <2>1, <2>2
    <3> QED BY <3>1, <3>2
  <2>3. CASE ~ (i <= Len(s))
    <3>1. i - Len(s) \in 1 .. Len(t)
      BY <1>2, <2>1, <2>3
    <3>2. u[i] = t[i - Len(s)]
      BY <1>1, <2>1, <2>3
    <3>3. i - Len(s) \in DOMAIN t
      BY <1>2, <3>1
    <3> QED BY ONLY <3>2, <3>3
  <2> QED BY <2>2, <2>3
<1>6. Range(u) = Range(s) \cup Range(t)
  <2>1. Range(u) \subseteq Range(s) \cup Range(t)
    BY <1>5 DEF Range
  <2>2. Range(s) \subseteq Range(u)
    BY <1>3 DEF Range
  <2>3. Range(t) \subseteq Range(u)
    BY <1>4 DEF Range
  <2> QED BY <2>1, <2>2, <2>3
<1>7. ASSUME IsInjective(s), IsInjective(t), Range(s) \cap Range(t) = {}
      PROVE  IsInjective(u)
  <2> SUFFICES ASSUME NEW i \in DOMAIN u, NEW j \in DOMAIN u, u[i] = u[j] PROVE i = j
    BY DEF IsInjective
  <2>0. i \in Nat /\ j \in Nat
    BY <1>2
  <2>1. CASE i \in DOMAIN s /\ u[i] = s[i] /\ j \in DOMAIN s /\ u[j] = s[j]
    BY <1>7, <2>1 DEF IsInjective
  <2>2. CASE /\ i - Len(s) \in DOMAIN t /\ u[i] = t[i - Len(s)]
             /\ j - Len(s) \in DOMAIN t /\ u[j] = t[j - Len(s)]
    <3>1. i - Len(s) = j - Len(s)
      BY <1>7, <2>2 DEF IsInjective
    <3> QED BY <3>1, <2>0, <1>2
  <2>3. ~ \E a \in DOMAIN s, b \in DOMAIN t : s[a] = t[b]
    BY <1>7 DEF Range
  <2> QED BY <1>5, <2>1, <2>2, <2>3
<1> QED BY <1>1, <1>6, <1>7 DEF u

\* What is in a list of lists joined: everything that is in one of them, and
\* nothing twice when they have nothing in common.
LEMMA Flattened ==
  ASSUME NEW S, NEW N \in Nat \ {0}, NEW ss \in [1 .. N -> Seq(S)]
  PROVE  /\ FlattenSeq(ss) \in Seq(S)
         /\ Range(FlattenSeq(ss)) = UNION {Range(ss[i]) : i \in 1 .. N}
         /\ ( /\ \A i \in 1 .. N : IsInjective(ss[i])
              /\ \A i, j \in 1 .. N : i # j => Range(ss[i]) \cap Range(ss[j]) = {} ) =>
                IsInjective(FlattenSeq(ss))
<1>1. PICK f : Joins(f, S, N, ss) /\ FlattenSeq(ss) = f[N]
  BY Flatten
<1> DEFINE Apart == /\ \A i \in 1 .. N : IsInjective(ss[i])
                    /\ \A i, j \in 1 .. N : i # j => Range(ss[i]) \cap Range(ss[j]) = {}
           Good(n) == /\ Range(f[n]) = UNION {Range(ss[i]) : i \in 1 .. n}
                      /\ Apart => IsInjective(f[n])
           Upto == {n \in 0 .. N : n > 0 => Good(n)}
<1>2. Good(1)
  <2>1. 1 \in 1 .. N /\ 1 .. 1 = {1}
    OBVIOUS
  <2> QED BY <1>1, <2>1 DEF Joins
<1>3. ASSUME NEW n \in 1 .. N - 1, Good(n) PROVE Good(n + 1)
  <2>1. n \in 1 .. N /\ n + 1 \in 1 .. N /\ n + 1 \in 2 .. N /\ (n + 1) - 1 = n
        /\ 1 .. n + 1 = (1 .. n) \cup {n + 1}
    OBVIOUS
  <2>2. f[n + 1] = f[n] \o ss[n + 1] /\ f[n] \in Seq(S) /\ ss[n + 1] \in Seq(S)
    <3>1. f[n + 1] = f[n] \o ss[n + 1]
      BY <1>1 DEF Joins
    <3>2. f[n] \in Seq(S) /\ ss[n + 1] \in Seq(S)
      BY <1>1, <2>1 DEF Joins
    <3> QED BY <3>1, <3>2
  <2>3. Range(f[n + 1]) = Range(f[n]) \cup Range(ss[n + 1])
    BY <2>2, Concatenated
  <2>4. Range(f[n + 1]) = UNION {Range(ss[i]) : i \in 1 .. n + 1}
    BY <1>3, <2>1, <2>3
  <2>5. ASSUME Apart PROVE IsInjective(f[n + 1])
    <3>1. \A i \in 1 .. n : i # n + 1 /\ i \in 1 .. N
      OBVIOUS
    <3>2. Range(f[n]) \cap Range(ss[n + 1]) = {}
      BY <1>3, <2>1, <2>5, <3>1
    <3> QED BY <1>3, <2>1, <2>2, <2>5, <3>2, Concatenated
  <2> QED BY <2>4, <2>5
<1>4. Good(N)
  <2> HIDE DEF Good
  <2>1. 0 \in Upto /\ \A n \in 0 .. N - 1 : n \in Upto => n + 1 \in Upto
    BY <1>2, <1>3
  <2> HIDE DEF Upto
  <2>2. 0 .. N \subseteq Upto
    BY ONLY <2>1, SetInductionTo, N \in Nat
  <2> QED BY <2>2 DEF Upto
<1>5. f[N] \in Seq(S)
  BY <1>1 DEF Joins
<1> QED BY <1>1, <1>4, <1>5

=============================================================================
