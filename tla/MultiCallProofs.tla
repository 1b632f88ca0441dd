-------------------------- MODULE MultiCallProofs --------------------------
(***************************************************************************)
(* Proofs about MultiCall, for programs of any width and depth.  First     *)
(* places, and what a group means in terms of its calls, by induction      *)
(* along a place; then the invariant of the stack: every frame executes    *)
(* the group at its place, nothing before its next call stopped it, and    *)
(* what it would undo to is what took effect before it began.              *)
(***************************************************************************)
EXTENDS MultiCall, Induction

-----------------------------------------------------------------------------
(* Places.                                                                 *)

\* The start of a place, and of two places one after the other.
LEMMA Starts ==
  ASSUME NEW r \in Seq(Nat), NEW d \in 0 .. Len(r)
  PROVE  /\ SubSeq(r, 1, d) \in Seq(Nat) /\ Len(SubSeq(r, 1, d)) = d
         /\ \A k \in 1 .. d : SubSeq(r, 1, d)[k] = r[k]
<1>1. Len(r) \in Nat /\ 1 \in Nat /\ d \in Nat /\ \A k \in 1 .. Len(r) : r[k] \in Nat
  OBVIOUS
<1>2. \A k \in 1 .. d : r[k] \in Nat
  BY <1>1
<1> QED BY <1>1, <1>2

\* A start and the next index.
LEMMA StartsStep ==
  ASSUME NEW r \in Seq(Nat), NEW d \in 1 .. Len(r)
  PROVE  SubSeq(r, 1, d) = Append(SubSeq(r, 1, d - 1), r[d])
<1> DEFINE s == SubSeq(r, 1, d)  t == SubSeq(r, 1, d - 1)
<1>1. d \in Nat /\ d \in 0 .. Len(r) /\ d - 1 \in 0 .. Len(r) /\ r[d] \in Nat
  OBVIOUS
<1>2. /\ s \in Seq(Nat) /\ Len(s) = d /\ \A k \in 1 .. d : s[k] = r[k]
      /\ t \in Seq(Nat) /\ Len(t) = d - 1 /\ \A k \in 1 .. d - 1 : t[k] = r[k]
  BY <1>1, Starts
<1> HIDE DEF s, t
<1>3. Append(t, r[d]) \in Seq(Nat) /\ Len(Append(t, r[d])) = d
      /\ \A k \in 1 .. d : Append(t, r[d])[k] = IF k <= d - 1 THEN t[k] ELSE r[d]
  BY <1>1, <1>2
<1>4. \A k \in 1 .. d : Append(t, r[d])[k] = r[k]
  BY <1>1, <1>2, <1>3
<1>5. s = Append(t, r[d])
  BY <1>1, <1>2, <1>3, <1>4, SeqEqual
<1> QED BY <1>5 DEF s, t

\* The starts of two places joined.
LEMMA StartsJoined ==
  ASSUME NEW p \in Seq(Nat), NEW r \in Seq(Nat)
  PROVE  /\ p \o r \in Seq(Nat) /\ Len(p \o r) = Len(p) + Len(r)
         /\ \A d \in 0 .. Len(p) : SubSeq(p \o r, 1, d) = SubSeq(p, 1, d)
         /\ \A d \in 0 .. Len(r) : SubSeq(p \o r, 1, Len(p) + d) = p \o SubSeq(r, 1, d)
         /\ \A d \in 1 .. Len(p) : (p \o r)[d] = p[d]
         /\ \A d \in 1 .. Len(r) : (p \o r)[Len(p) + d] = r[d]
<1> DEFINE u == p \o r
<1>1. /\ u \in Seq(Nat) /\ Len(u) = Len(p) + Len(r) /\ Len(p) \in Nat /\ Len(r) \in Nat
      /\ \A k \in 1 .. Len(p) + Len(r) : u[k] = IF k <= Len(p) THEN p[k] ELSE r[k - Len(p)]
  BY ConcatProperties
<1> HIDE DEF u
<1>2. ASSUME NEW d \in 0 .. Len(p) PROVE SubSeq(u, 1, d) = SubSeq(p, 1, d)
  <2>1. d \in 0 .. Len(u) /\ \A k \in 1 .. d : u[k] = p[k]
    BY <1>1
  <2>2. /\ SubSeq(u, 1, d) \in Seq(Nat) /\ Len(SubSeq(u, 1, d)) = d
        /\ \A k \in 1 .. d : SubSeq(u, 1, d)[k] = u[k]
        /\ SubSeq(p, 1, d) \in Seq(Nat) /\ Len(SubSeq(p, 1, d)) = d
        /\ \A k \in 1 .. d : SubSeq(p, 1, d)[k] = p[k]
    BY <1>1, <2>1, Starts
  <2>3. \A k \in 1 .. d : SubSeq(u, 1, d)[k] = SubSeq(p, 1, d)[k]
    BY <2>1, <2>2
  <2> QED BY <2>2, <2>3, SeqEqual
<1>3. ASSUME NEW d \in 0 .. Len(r) PROVE SubSeq(u, 1, Len(p) + d) = p \o SubSeq(r, 1, d)
  <2> DEFINE s == SubSeq(r, 1, d)  v == SubSeq(u, 1, Len(p) + d)
  <2>1. Len(p) + d \in 0 .. Len(u) /\ d \in Nat
    BY <1>1
  <2>2. /\ s \in Seq(Nat) /\ Len(s) = d /\ \A k \in 1 .. d : s[k] = r[k]
        /\ v \in Seq(Nat) /\ Len(v) = Len(p) + d /\ \A k \in 1 .. Len(p) + d : v[k] = u[k]
    BY <1>1, <2>1, Starts
  <2> HIDE DEF s, v
  <2>3. /\ p \o s \in Seq(Nat) /\ Len(p \o s) = Len(p) + d
        /\ \A k \in 1 .. Len(p) + d : (p \o s)[k] = IF k <= Len(p) THEN p[k] ELSE s[k - Len(p)]
    BY <2>2, ConcatProperties
  <2>4. \A k \in 1 .. Len(p) + d : (p \o s)[k] = v[k]
    <3> SUFFICES ASSUME NEW k \in 1 .. Len(p) + d PROVE (p \o s)[k] = v[k]
      OBVIOUS
    <3>1. CASE k <= Len(p)
      <4>1. k \in 1 .. Len(p) /\ k \in 1 .. Len(p) + Len(r)
        BY <1>1, <2>1, <3>1
      <4>2. (p \o s)[k] = p[k] /\ u[k] = p[k] /\ v[k] = u[k]
        BY <1>1, <2>2, <2>3, <3>1, <4>1
      <4> QED BY <4>2
    <3>2. CASE ~(k <= Len(p))
      <4> DEFINE e == k - Len(p)
      <4>1. e \in 1 .. d /\ e \in 1 .. Len(r) /\ k \in 1 .. Len(p) + Len(r)
        BY <1>1, <2>1, <3>2
      <4>2. (p \o s)[k] = s[e] /\ u[k] = r[e]
        BY <1>1, <2>3, <3>2, <4>1
      <4> HIDE DEF e
      <4>3. s[e] = r[e] /\ v[k] = u[k]
        BY <2>2, <4>1
      <4> QED BY <4>2, <4>3
    <3> QED BY <3>1, <3>2
  <2>5. p \o s = v
    BY <2>1, <2>2, <2>3, <2>4, SeqEqual
  <2> QED BY <2>5 DEF s, v
<1>4. \A d \in 1 .. Len(p) : u[d] = p[d]
  BY <1>1
<1>5. \A d \in 1 .. Len(r) : u[Len(p) + d] = r[d]
  <2> SUFFICES ASSUME NEW d \in 1 .. Len(r) PROVE u[Len(p) + d] = r[d]
    OBVIOUS
  <2>1. Len(p) + d \in 1 .. Len(p) + Len(r) /\ ~(Len(p) + d <= Len(p)) /\ (Len(p) + d) - Len(p) = d
    BY <1>1
  <2> QED BY <1>1, <2>1
<1> QED BY <1>1, <1>2, <1>3, <1>4, <1>5 DEF u

\* An index in front of a place, and behind it.
LEMMA Ends ==
  ASSUME NEW p \in Seq(Nat), NEW i \in Nat
  PROVE  /\ <<i>> \in Seq(Nat) /\ Len(<<i>>) = 1 /\ <<i>>[1] = i
         /\ Append(p, i) \in Seq(Nat) /\ Append(p, i) = p \o <<i>>
         /\ Len(Append(p, i)) = Len(p) + 1
         /\ <<>> \in Seq(Nat) /\ Len(<<>>) = 0 /\ p \o <<>> = p /\ <<>> \o p = p
<1>1. <<i>> \in Seq(Nat) /\ Len(<<i>>) = 1 /\ <<i>>[1] = i
  OBVIOUS
<1>2. Append(p, i) = p \o <<i>>
  BY AppendIsConcat
<1> QED BY <1>1, <1>2

-----------------------------------------------------------------------------
(* The call at a place.                                                    *)

Walk(f, c, r) == f = [d \in 0 .. Len(r) |-> IF d = 0 THEN c ELSE f[d - 1].calls[r[d]]]

\* There is a walk along every place.
LEMMA Walks ==
  ASSUME NEW c, NEW r \in Seq(Nat)
  PROVE  \E f : Walk(f, c, r)
<1> DEFINE D(f, d) == IF d = 0 THEN c ELSE f[d - 1].calls[r[d]]
           Upto(n) == \E f : f = [d \in 0 .. n |-> D(f, d)]
           T == {n \in 0 .. Len(r) : Upto(n)}
<1>0. Len(r) \in Nat
  OBVIOUS
<1>1. 0 \in T
  <2> DEFINE f == [d \in 0 .. 0 |-> c]
  <2>1. f = [d \in 0 .. 0 |-> D(f, d)]
    OBVIOUS
  <2>2. Upto(0)
    <3> HIDE DEF f, D
    <3> QED BY <2>1
  <2> HIDE DEF Upto
  <2> QED BY <1>0, <2>2
<1>2. \A n \in 0 .. Len(r) - 1 : n \in T => n + 1 \in T
  <2> SUFFICES ASSUME NEW n \in 0 .. Len(r) - 1, Upto(n) PROVE Upto(n + 1)
    <3> HIDE DEF Upto
    <3> QED BY <1>0
  <2>1. PICK f : f = [d \in 0 .. n |-> D(f, d)]
    <3> HIDE DEF D
    <3> QED OBVIOUS
  <2> DEFINE g == [d \in 0 .. n + 1 |-> IF d <= n THEN f[d] ELSE f[n].calls[r[n + 1]]]
  <2>2. \A d \in 0 .. n : f[d] = D(f, d)
    <3> HIDE DEF D
    <3> QED BY <2>1
  <2>3. ASSUME NEW d \in 0 .. n + 1 PROVE g[d] = D(g, d)
    <3>1. CASE d = 0
      <4>1. 0 \in 0 .. n /\ g[0] = f[0]
        BY <1>0
      <4>2. f[0] = c
        <5> HIDE DEF g
        <5> QED BY <2>2, <4>1
      <4> QED BY <3>1, <4>1, <4>2
    <3>2. CASE d # 0 /\ d <= n
      <4>1. d \in 0 .. n /\ d - 1 \in 0 .. n /\ g[d] = f[d] /\ g[d - 1] = f[d - 1]
        BY <1>0, <3>2
      <4>2. f[d] = f[d - 1].calls[r[d]]
        <5> HIDE DEF g
        <5> QED BY <2>2, <3>2, <4>1
      <4> HIDE DEF g
      <4> QED BY <3>2, <4>1, <4>2
    <3>3. CASE ~(d <= n)
      <4>1. d = n + 1 /\ d # 0 /\ d - 1 = n /\ g[n] = f[n] /\ g[d] = f[n].calls[r[n + 1]]
        BY <1>0, <3>3
      <4> HIDE DEF g
      <4> QED BY <4>1
    <3> QED BY <3>1, <3>2, <3>3
  <2>4. g = [d \in 0 .. n + 1 |-> D(g, d)]
    <3>1. g = [d \in 0 .. n + 1 |-> g[d]]
      OBVIOUS
    <3> HIDE DEF g, D
    <3> QED BY <2>3, <3>1
  <2> HIDE DEF g, D
  <2> QED BY <2>4
<1>3. 0 .. Len(r) \subseteq T
  <2> HIDE DEF T
  <2> QED BY <1>0, <1>1, <1>2, SetInductionTo
<1>4. Upto(Len(r))
  <2> HIDE DEF Upto
  <2> QED BY <1>0, <1>3
<1> QED BY <1>4 DEF Walk

\* At goes along such a walk, and equal starts lead to equal calls.
LEMMA AtWalks ==
  ASSUME NEW c, NEW r \in Seq(Nat)
  PROVE  \E f : Walk(f, c, r) /\ At(c, r) = f[Len(r)]
<1> DEFINE h == CHOOSE f : Walk(f, c, r)
<1>1. At(c, r) = h[Len(r)]
  BY DEF At, Walk
<1>2. Walk(h, c, r)
  BY Walks
<1> HIDE DEF h
<1> QED BY <1>1, <1>2

Share(r, s, n) ==
  /\ n <= Len(r) /\ n <= Len(s) /\ \A k \in 1 .. n : r[k] = s[k]

\* Walks along places that agree up to n meet the same calls up to there.
LEMMA WalksAgree ==
  ASSUME NEW c, NEW r \in Seq(Nat), NEW s \in Seq(Nat), NEW f, NEW g, Walk(f, c, r), Walk(g, c, s),
         NEW n \in Nat, Share(r, s, n)
  PROVE  f[n] = g[n]
<1> DEFINE T == {d \in 0 .. n : f[d] = g[d]}
<1>0. /\ Len(r) \in Nat /\ Len(s) \in Nat /\ n <= Len(r) /\ n <= Len(s)
      /\ \A k \in 1 .. n : r[k] = s[k]
  BY DEF Share
<1>1. /\ \A d \in 0 .. Len(r) : f[d] = IF d = 0 THEN c ELSE f[d - 1].calls[r[d]]
      /\ \A d \in 0 .. Len(s) : g[d] = IF d = 0 THEN c ELSE g[d - 1].calls[s[d]]
  BY DEF Walk
<1>2. 0 \in T
  <2>1. 0 \in 0 .. Len(r) /\ 0 \in 0 .. Len(s) /\ 0 \in 0 .. n
    BY <1>0
  <2> QED BY <1>1, <2>1
<1>3. \A d \in 0 .. n - 1 : d \in T => d + 1 \in T
  <2> SUFFICES ASSUME NEW d \in 0 .. n - 1, f[d] = g[d] PROVE f[d + 1] = g[d + 1]
    OBVIOUS
  <2> DEFINE e == d + 1
  <2>1. e \in 0 .. Len(r) /\ e \in 0 .. Len(s) /\ e # 0 /\ e - 1 = d /\ e \in 1 .. n
    BY <1>0
  <2> HIDE DEF e
  <2>2. f[e] = f[e - 1].calls[r[e]] /\ g[e] = g[e - 1].calls[s[e]] /\ r[e] = s[e]
    <3>1. f[e] = f[e - 1].calls[r[e]]
      BY <1>1, <2>1
    <3>2. g[e] = g[e - 1].calls[s[e]]
      BY <1>1, <2>1
    <3> QED BY <1>0, <2>1, <3>1, <3>2
  <2>3. f[e - 1] = g[e - 1]
    BY <2>1
  <2> QED BY <2>2, <2>3 DEF e
<1>4. 0 .. n \subseteq T
  <2> HIDE DEF T
  <2> QED BY <1>2, <1>3, SetInductionTo
<1> QED BY <1>4

\* The place without an index is the call itself, another index goes on to one
\* of the calls.
LEMMA AtStep ==
  ASSUME NEW c, NEW r \in Seq(Nat), NEW i \in Nat
  PROVE  At(c, <<>>) = c /\ At(c, Append(r, i)) = At(c, r).calls[i]
<1>1. At(c, <<>>) = c
  <2>0. <<>> \in Seq(Nat)
    OBVIOUS
  <2>1. PICK f : Walk(f, c, <<>>) /\ At(c, <<>>) = f[Len(<<>>)]
    BY <2>0, AtWalks
  <2>2. Len(<<>>) = 0 /\ 0 \in 0 .. 0
    OBVIOUS
  <2> QED BY <2>1, <2>2 DEF Walk
<1>2. At(c, Append(r, i)) = At(c, r).calls[i]
  <2> DEFINE s == Append(r, i)
  <2>1. /\ s \in Seq(Nat) /\ Len(s) = Len(r) + 1 /\ s[Len(r) + 1] = i /\ Len(r) \in Nat
        /\ \A k \in 1 .. Len(r) : s[k] = r[k]
    OBVIOUS
  <2> HIDE DEF s
  <2>2. PICK f : Walk(f, c, r) /\ At(c, r) = f[Len(r)]
    BY AtWalks
  <2>3. PICK g : Walk(g, c, s) /\ At(c, s) = g[Len(s)]
    BY <2>1, AtWalks
  <2>4. f[Len(r)] = g[Len(r)]
    <3>1. Len(r) <= Len(r) /\ Len(r) <= Len(s) /\ \A k \in 1 .. Len(r) : r[k] = s[k]
      BY <2>1
    <3>2. Share(r, s, Len(r))
      BY <2>1, <3>1 DEF Share
    <3> QED BY <2>1, <2>2, <2>3, <3>2, WalksAgree
  <2>5. g[Len(r) + 1] = g[Len(r)].calls[s[Len(r) + 1]]
    <3>1. Len(r) + 1 \in 0 .. Len(s) /\ Len(r) + 1 # 0 /\ (Len(r) + 1) - 1 = Len(r)
      BY <2>1
    <3>2. \A d \in 0 .. Len(s) : g[d] = IF d = 0 THEN c ELSE g[d - 1].calls[s[d]]
      BY <2>3 DEF Walk
    <3> QED BY <3>1, <3>2
  <2> QED BY <2>1, <2>2, <2>3, <2>4, <2>5 DEF s
<1> QED BY <1>1, <1>2

\* A place behind a place.
LEMMA AtJoined ==
  ASSUME NEW c, NEW p \in Seq(Nat), NEW r \in Seq(Nat)
  PROVE  At(c, p \o r) = At(At(c, p), r)
<1> DEFINE T == {n \in 0 .. Len(r) : At(c, p \o SubSeq(r, 1, n)) = At(At(c, p), SubSeq(r, 1, n))}
<1>0. Len(r) \in Nat /\ Len(p) \in Nat /\ \A k \in 1 .. Len(r) : r[k] \in Nat
  OBVIOUS
<1>1. 0 \in T
  <2>1. SubSeq(r, 1, 0) = <<>> /\ p \o <<>> = p /\ 0 \in Nat
    BY EmptySeq, Starts
  <2>2. At(At(c, p), <<>>) = At(c, p)
    BY <2>1, AtStep
  <2>3. At(c, p \o SubSeq(r, 1, 0)) = At(At(c, p), SubSeq(r, 1, 0))
    BY <2>1, <2>2
  <2> QED BY <1>0, <2>3
<1>2. \A n \in 0 .. Len(r) - 1 : n \in T => n + 1 \in T
  <2> SUFFICES ASSUME NEW n \in 0 .. Len(r) - 1,
                      At(c, p \o SubSeq(r, 1, n)) = At(At(c, p), SubSeq(r, 1, n))
               PROVE  /\ n + 1 \in 0 .. Len(r)
                      /\ At(c, p \o SubSeq(r, 1, n + 1)) = At(At(c, p), SubSeq(r, 1, n + 1))
    OBVIOUS
  <2> DEFINE s == SubSeq(r, 1, n)  i == r[n + 1]
  <2>1. n + 1 \in 1 .. Len(r) /\ (n + 1) - 1 = n /\ n \in 0 .. Len(r) /\ n + 1 \in 0 .. Len(r)
    BY <1>0
  <2>2. SubSeq(r, 1, n + 1) = Append(s, i) /\ s \in Seq(Nat) /\ i \in Nat
    <3>1. SubSeq(r, 1, n + 1) = Append(SubSeq(r, 1, (n + 1) - 1), r[n + 1])
      BY <2>1, StartsStep
    <3>2. SubSeq(r, 1, n) \in Seq(Nat)
      BY <2>1, Starts
    <3> QED BY <1>0, <2>1, <3>1, <3>2
  <2>3. At(c, p \o s) = At(At(c, p), s)
    OBVIOUS
  <2> HIDE DEF s, i
  <2>4. p \o Append(s, i) = Append(p \o s, i) /\ p \o s \in Seq(Nat)
    <3>1. \A a, b, x \in Seq(Nat) : (a \o b) \o x = a \o (b \o x)
      BY ConcatAssociative, SMTT(60)
    <3>2. <<i>> \in Seq(Nat) /\ p \o s \in Seq(Nat)
      BY <2>2, StartsJoined, Ends
    <3>3. Append(s, i) = s \o <<i>>
      BY <2>2, Ends
    <3>4. Append(p \o s, i) = (p \o s) \o <<i>>
      BY <2>2, <3>2, Ends
    <3>5. (p \o s) \o <<i>> = p \o (s \o <<i>>)
      BY <2>2, <3>1, <3>2
    <3> QED BY <3>2, <3>3, <3>4, <3>5
  <2>5. At(c, Append(p \o s, i)) = At(c, p \o s).calls[i]
        /\ At(At(c, p), Append(s, i)) = At(At(c, p), s).calls[i]
    <3> DEFINE v == p \o s
    <3>1. v \in Seq(Nat)
      BY <2>4
    <3> HIDE DEF v
    <3>2. At(c, Append(v, i)) = At(c, v).calls[i]
      BY <2>2, <3>1, AtStep
    <3>3. At(At(c, p), Append(s, i)) = At(At(c, p), s).calls[i]
      BY <2>2, AtStep
    <3> QED BY <3>2, <3>3 DEF v
  <2> QED BY <2>1, <2>2, <2>3, <2>4, <2>5
<1>3. 0 .. Len(r) \subseteq T
  <2> HIDE DEF T
  <2> QED BY <1>0, <1>1, <1>2, SetInductionTo
<1>4. SubSeq(r, 1, Len(r)) = r /\ Len(r) \in T
  <2>1. SubSeq(r, 1, Len(r)) = r
    OBVIOUS
  <2> HIDE DEF T
  <2> QED BY <1>0, <1>3, <2>1
<1> QED BY <1>4

\* Staying within a call, along one place and then another.
LEMMA WithinJoined ==
  ASSUME NEW c, NEW p \in Seq(Nat), NEW r \in Seq(Nat)
  PROVE  Within(c, p \o r) <=> Within(c, p) /\ Within(At(c, p), r)
<1> DEFINE u == p \o r
           In(x, q, d) == q[d] \in DOMAIN At(x, SubSeq(q, 1, d - 1)).calls
<1>1. /\ Len(p) \in Nat /\ Len(r) \in Nat /\ u \in Seq(Nat) /\ Len(u) = Len(p) + Len(r)
      /\ \A d \in 0 .. Len(p) : SubSeq(u, 1, d) = SubSeq(p, 1, d)
      /\ \A d \in 0 .. Len(r) : SubSeq(u, 1, Len(p) + d) = p \o SubSeq(r, 1, d)
      /\ \A d \in 1 .. Len(p) : u[d] = p[d]
      /\ \A d \in 1 .. Len(r) : u[Len(p) + d] = r[d]
  BY StartsJoined
<1> HIDE DEF u
<1>2. \A d \in 1 .. Len(p) : In(c, u, d) <=> In(c, p, d)
  <2> SUFFICES ASSUME NEW d \in 1 .. Len(p) PROVE In(c, u, d) <=> In(c, p, d)
    OBVIOUS
  <2>1. d - 1 \in 0 .. Len(p)
    BY <1>1
  <2> QED BY <1>1, <2>1
<1>3. \A d \in 1 .. Len(r) : In(c, u, Len(p) + d) <=> In(At(c, p), r, d)
  <2> SUFFICES ASSUME NEW d \in 1 .. Len(r)
               PROVE  In(c, u, Len(p) + d) <=> In(At(c, p), r, d)
    OBVIOUS
  <2>1. d - 1 \in 0 .. Len(r) /\ (Len(p) + d) - 1 = Len(p) + (d - 1)
    BY <1>1
  <2>2. SubSeq(u, 1, (Len(p) + d) - 1) = p \o SubSeq(r, 1, d - 1)
    BY <1>1, <2>1
  <2>3. SubSeq(r, 1, d - 1) \in Seq(Nat)
    BY <2>1, Starts
  <2>4. At(c, p \o SubSeq(r, 1, d - 1)) = At(At(c, p), SubSeq(r, 1, d - 1))
    BY <2>3, AtJoined
  <2> QED BY <1>1, <2>2, <2>4
<1> HIDE DEF In
<1>4. Within(c, u) <=> \A d \in 1 .. Len(p) + Len(r) : In(c, u, d)
  BY <1>1 DEF Within, In
<1>5. (\A d \in 1 .. Len(p) + Len(r) : In(c, u, d)) <=>
        (\A d \in 1 .. Len(p) : In(c, u, d)) /\ (\A d \in 1 .. Len(r) : In(c, u, Len(p) + d))
  <2>1. ASSUME \A d \in 1 .. Len(p) : In(c, u, d), \A d \in 1 .. Len(r) : In(c, u, Len(p) + d),
               NEW d \in 1 .. Len(p) + Len(r)
        PROVE  In(c, u, d)
    <3>1. CASE d <= Len(p)
      <4>1. d \in 1 .. Len(p)
        BY <1>1, <3>1
      <4> QED BY <2>1, <4>1
    <3>2. CASE ~(d <= Len(p))
      <4>1. d - Len(p) \in 1 .. Len(r) /\ Len(p) + (d - Len(p)) = d
        BY <1>1, <3>2
      <4>2. In(c, u, Len(p) + (d - Len(p)))
        BY <2>1, <4>1
      <4> QED BY <4>1, <4>2
    <3> QED BY <3>1, <3>2
  <2>2. ASSUME \A d \in 1 .. Len(p) + Len(r) : In(c, u, d)
        PROVE  (\A d \in 1 .. Len(p) : In(c, u, d)) /\ (\A d \in 1 .. Len(r) : In(c, u, Len(p) + d))
    <3>1. \A d \in 1 .. Len(p) : d \in 1 .. Len(p) + Len(r)
      BY <1>1
    <3>2. \A d \in 1 .. Len(r) : Len(p) + d \in 1 .. Len(p) + Len(r)
      BY <1>1
    <3> QED BY <2>2, <3>1, <3>2
  <2> QED BY <2>1, <2>2
<1>6. Within(c, p) <=> \A d \in 1 .. Len(p) : In(c, p, d)
  BY DEF Within, In
<1>7. Within(At(c, p), r) <=> \A d \in 1 .. Len(r) : In(At(c, p), r, d)
  BY DEF Within, In
<1>8. Within(c, u) <=> Within(c, p) /\ Within(At(c, p), r)
  <2>1. (\A d \in 1 .. Len(p) : In(c, u, d)) <=> Within(c, p)
    BY <1>2, <1>6
  <2>2. (\A d \in 1 .. Len(r) : In(c, u, Len(p) + d)) <=> Within(At(c, p), r)
    BY <1>3, <1>7
  <2> QED BY <1>4, <1>5, <2>1, <2>2
<1> QED BY <1>8 DEF u

\* One index more, at either end.
LEMMA WithinStep ==
  ASSUME NEW c, NEW p \in Seq(Nat), NEW i \in Nat
  PROVE  /\ Within(c, <<>>)
         /\ Within(c, Append(p, i)) <=> Within(c, p) /\ i \in DOMAIN At(c, p).calls
         /\ At(c, <<i>>) = c.calls[i]
         /\ At(c, <<i>> \o p) = At(c.calls[i], p)
         /\ Within(c, <<i>> \o p) <=> i \in DOMAIN c.calls /\ Within(c.calls[i], p)
<1>1. /\ <<i>> \in Seq(Nat) /\ Len(<<i>>) = 1 /\ <<i>>[1] = i /\ Append(p, i) = p \o <<i>>
      /\ <<>> \in Seq(Nat) /\ Len(<<>>) = 0
  BY Ends
<1>2. Within(c, <<>>)
  BY <1>1 DEF Within
<1>3. \A x : Within(x, <<i>>) <=> i \in DOMAIN x.calls
  <2> SUFFICES ASSUME NEW x PROVE Within(x, <<i>>) <=> i \in DOMAIN x.calls
    OBVIOUS
  <2>1. SubSeq(<<i>>, 1, 1 - 1) = <<>> /\ 1 .. 1 = {1}
    BY <1>1
  <2>2. At(x, <<>>) = x
    BY AtStep
  <2>3. Within(x, <<i>>) <=> \A d \in 1 .. 1 : <<i>>[d] \in DOMAIN At(x, SubSeq(<<i>>, 1, d - 1)).calls
    BY <1>1 DEF Within
  <2> QED BY <1>1, <2>1, <2>2, <2>3
<1>4. At(c, <<i>>) = c.calls[i]
  <2>1. Append(<<>>, i) = <<i>> /\ <<>> \in Seq(Nat)
    OBVIOUS
  <2>2. At(c, Append(<<>>, i)) = At(c, <<>>).calls[i] /\ At(c, <<>>) = c
    BY <2>1, AtStep
  <2> QED BY <2>1, <2>2
<1>5. Within(c, p \o <<i>>) <=> Within(c, p) /\ Within(At(c, p), <<i>>)
  BY <1>1, WithinJoined
<1>6. At(c, <<i>> \o p) = At(At(c, <<i>>), p)
  BY <1>1, AtJoined
<1>7. Within(c, <<i>> \o p) <=> Within(c, <<i>>) /\ Within(At(c, <<i>>), p)
  BY <1>1, WithinJoined
<1>8. Within(c, Append(p, i)) <=> Within(c, p) /\ i \in DOMAIN At(c, p).calls
  BY <1>1, <1>3, <1>5
<1>9. Within(c, <<i>> \o p) <=> i \in DOMAIN c.calls /\ Within(c.calls[i], p)
  BY <1>3, <1>4, <1>7
<1> QED BY <1>2, <1>4, <1>6, <1>8, <1>9

-----------------------------------------------------------------------------
(* Calls that fit.                                                         *)

\* The places of at most n indices.
LEMMA PlacesOf ==
  ASSUME NEW n \in Nat, NEW r
  PROVE  r \in SeqOf(1 .. Width, n) <=>
           r \in Seq(Nat) /\ Len(r) <= n /\ \A k \in 1 .. Len(r) : r[k] \in 1 .. Width
<1>1. ASSUME r \in SeqOf(1 .. Width, n)
      PROVE  r \in Seq(Nat) /\ Len(r) <= n /\ \A k \in 1 .. Len(r) : r[k] \in 1 .. Width
  <2>1. PICK m \in 0 .. n : r \in [1 .. m -> 1 .. Width]
    BY <1>1 DEF SeqOf
  <2>2. m \in Nat /\ \A k \in 1 .. m : r[k] \in 1 .. Width /\ r[k] \in Nat
    BY <2>1, BoundsAssumption
  <2>3. r \in Seq(Nat) /\ Len(r) = m
    BY <2>1, <2>2
  <2> QED BY <2>1, <2>2, <2>3
<1>2. ASSUME r \in Seq(Nat), Len(r) <= n, \A k \in 1 .. Len(r) : r[k] \in 1 .. Width
      PROVE  r \in SeqOf(1 .. Width, n)
  <2>1. Len(r) \in 0 .. n /\ r \in [1 .. Len(r) -> 1 .. Width]
    BY <1>2
  <2> QED BY <2>1 DEF SeqOf
<1> QED BY <1>1, <1>2

\* What is within a call starts within it.
LEMMA WithinStarts ==
  ASSUME NEW c, NEW r \in Seq(Nat), Within(c, r)
  PROVE  \A d \in 0 .. Len(r) : Within(c, SubSeq(r, 1, d))
<1> DEFINE s(d) == SubSeq(r, 1, d)
<1>0. Len(r) \in Nat /\ \A k \in 1 .. Len(r) : r[k] \in Nat
  OBVIOUS
<1>1. \A d \in 0 .. Len(r) : s(d) \in Seq(Nat) /\ Len(s(d)) = d /\ \A k \in 1 .. d : s(d)[k] = r[k]
  BY Starts
<1>2. \A d \in 0 .. Len(r) : Within(c, s(d))
  <2> SUFFICES ASSUME NEW d \in 0 .. Len(r) PROVE Within(c, s(d))
    OBVIOUS
  <2>1. \A k \in 1 .. d : k \in 1 .. Len(r) /\ k - 1 \in 0 .. d
    BY <1>0
  <2>2. \A k \in 1 .. d : SubSeq(s(d), 1, k - 1) = s(k - 1)
    <3> SUFFICES ASSUME NEW k \in 1 .. d PROVE SubSeq(s(d), 1, k - 1) = s(k - 1)
      OBVIOUS
    <3>1. k - 1 \in 0 .. d /\ k - 1 \in 0 .. Len(r)
      BY <1>0
    <3>2. /\ s(k - 1) \in Seq(Nat) /\ Len(s(k - 1)) = k - 1
          /\ \A j \in 1 .. k - 1 : s(k - 1)[j] = r[j]
      BY <1>1, <3>1
    <3>3. s(d) \in Seq(Nat) /\ Len(s(d)) = d /\ \A j \in 1 .. d : s(d)[j] = r[j]
      BY <1>1
    <3> HIDE DEF s
    <3>4. /\ SubSeq(s(d), 1, k - 1) \in Seq(Nat) /\ Len(SubSeq(s(d), 1, k - 1)) = k - 1
          /\ \A j \in 1 .. k - 1 : SubSeq(s(d), 1, k - 1)[j] = s(d)[j]
      BY <3>1, <3>3, Starts
    <3>5. \A j \in 1 .. k - 1 : SubSeq(s(d), 1, k - 1)[j] = s(k - 1)[j]
      <4> SUFFICES ASSUME NEW j \in 1 .. k - 1 PROVE SubSeq(s(d), 1, k - 1)[j] = s(k - 1)[j]
        OBVIOUS
      <4>1. j \in 1 .. d
        BY <1>0
      <4>2. SubSeq(s(d), 1, k - 1)[j] = s(d)[j]
        BY <3>4
      <4>3. s(d)[j] = r[j] /\ s(k - 1)[j] = r[j]
        BY <3>2, <3>3, <4>1
      <4> QED BY <4>2, <4>3
    <3> QED BY <3>2, <3>4, <3>5, SeqEqual
  <2>3. \A k \in 1 .. Len(r) : r[k] \in DOMAIN At(c, s(k - 1)).calls
    BY DEF Within
  <2> HIDE DEF s
  <2>4. \A k \in 1 .. d : s(d)[k] \in DOMAIN At(c, SubSeq(s(d), 1, k - 1)).calls
    BY <1>1, <2>1, <2>2, <2>3
  <2> QED BY <1>1, <2>4 DEF Within
<1> QED BY <1>2

\* What fits stays within the bounds, at every place in it.
LEMMA Fitting ==
  ASSUME NEW c, NEW n \in Nat, FitsIn(c, n), NEW r \in Seq(Nat), Within(c, r)
  PROVE  /\ Len(r) <= n /\ r \in SeqOf(1 .. Width, n)
         /\ CallOk(At(c, r)) /\ FitsIn(At(c, r), n - Len(r))
<1> DEFINE s(d) == SubSeq(r, 1, d)
           T == {d \in 0 .. Len(r) : s(d) \in SeqOf(1 .. Width, n)}
<1>0. Len(r) \in Nat /\ \A k \in 1 .. Len(r) : r[k] \in Nat
  OBVIOUS
<1>1. \A d \in 0 .. Len(r) : s(d) \in Seq(Nat) /\ Len(s(d)) = d /\ \A k \in 1 .. d : s(d)[k] = r[k]
  BY Starts
<1>2. \A d \in 0 .. Len(r) : Within(c, s(d))
  BY WithinStarts
<1>3. 0 \in T
  <2>1. s(0) \in Seq(Nat) /\ Len(s(0)) = 0
    BY <1>0, <1>1
  <2> HIDE DEF s
  <2>2. s(0) \in SeqOf(1 .. Width, n)
    BY <2>1, PlacesOf
  <2> QED BY <1>0, <2>2
<1>4. ASSUME NEW d \in 0 .. Len(r), d \in T
      PROVE  CallOk(At(c, s(d))) /\ (d = n => ~IsGroup(At(c, s(d))))
  <2> HIDE DEF s
  <2> QED BY <1>1, <1>2, <1>4 DEF FitsIn
<1>5. \A d \in 0 .. Len(r) - 1 : d \in T => d + 1 \in T
  <2> SUFFICES ASSUME NEW d \in 0 .. Len(r) - 1, d \in T PROVE d + 1 \in T
    OBVIOUS
  <2> DEFINE x == At(c, s(d))  e == d + 1
  <2>1. d \in 0 .. Len(r) /\ e \in 1 .. Len(r) /\ e - 1 = d /\ e \in 0 .. Len(r)
    BY <1>0
  <2>2. CallOk(x) /\ (d = n => ~IsGroup(x))
    BY <1>4, <2>1
  <2>3. r[e] \in DOMAIN x.calls
    <3>1. \A k \in 1 .. Len(r) : r[k] \in DOMAIN At(c, s(k - 1)).calls
      BY DEF Within
    <3> HIDE DEF s, e
    <3> QED BY <2>1, <3>1
  <2>4. r[e] \in 1 .. Width /\ IsGroup(x)
    <3> HIDE DEF x, e, T
    <3>1. Len(x.calls) \in 0 .. Width /\ DOMAIN x.calls = 1 .. Len(x.calls)
          /\ (IsGroup(x) \/ x.calls = <<>>)
      BY <2>2 DEF CallOk
    <3>2. x.calls # <<>>
      BY <2>3, <3>1
    <3> QED BY <2>3, <3>1, <3>2, BoundsAssumption
  <2>5. d # n /\ d <= n
    <3>1. s(d) \in SeqOf(1 .. Width, n)
      OBVIOUS
    <3>2. Len(s(d)) = d /\ Len(s(d)) <= n
      <4> HIDE DEF s
      <4> QED BY <1>1, <2>1, <3>1, PlacesOf
    <3> HIDE DEF s
    <3> QED BY <2>2, <2>4, <3>2
  <2>6. s(e) \in SeqOf(1 .. Width, n)
    <3>1. \A k \in 1 .. d : r[k] \in 1 .. Width
      <4>1. s(d) \in SeqOf(1 .. Width, n)
        OBVIOUS
      <4> HIDE DEF s, T
      <4> QED BY <1>1, <2>1, <4>1, PlacesOf
    <3>2. \A k \in 1 .. e : r[k] \in 1 .. Width
      BY <2>4, <3>1
    <3>3. e <= n
      BY <2>5
    <3> HIDE DEF s, e, T, x
    <3> QED BY <1>1, <2>1, <3>2, <3>3, PlacesOf
  <2> HIDE DEF s
  <2> QED BY <2>1, <2>6
<1>6. Len(r) \in T
  <2> HIDE DEF T
  <2>1. 0 .. Len(r) \subseteq T
    BY <1>0, <1>3, <1>5, SetInductionTo
  <2> QED BY <1>0, <2>1
<1>7. s(Len(r)) = r
  OBVIOUS
<1>8. r \in SeqOf(1 .. Width, n) /\ CallOk(At(c, r))
  <2>1. Len(r) \in 0 .. Len(r)
    BY <1>0
  <2> QED BY <1>4, <1>6, <1>7, <2>1
<1>9. Len(r) <= n
  BY <1>8, PlacesOf
<1>10. FitsIn(At(c, r), n - Len(r))
  <2> DEFINE m == n - Len(r)
  <2>0. m \in Nat
    BY <1>0, <1>9
  <2> HIDE DEF m
  <2> SUFFICES ASSUME NEW q \in SeqOf(1 .. Width, m), Within(At(c, r), q)
               PROVE  CallOk(At(At(c, r), q)) /\ (Len(q) = m => ~IsGroup(At(At(c, r), q)))
    BY DEF FitsIn, m
  <2>1. q \in Seq(Nat) /\ Len(q) <= m /\ \A k \in 1 .. Len(q) : q[k] \in 1 .. Width
    BY <2>0, PlacesOf
  <2>2. /\ r \o q \in Seq(Nat) /\ Len(r \o q) = Len(r) + Len(q)
        /\ \A d \in 1 .. Len(r) : (r \o q)[d] = r[d]
        /\ \A d \in 1 .. Len(q) : (r \o q)[Len(r) + d] = q[d]
    BY <2>1, StartsJoined
  <2>3. \A k \in 1 .. Len(r) : r[k] \in 1 .. Width
    BY <1>8, PlacesOf
  <2>4. \A k \in 1 .. Len(r \o q) : (r \o q)[k] \in 1 .. Width
    <3> SUFFICES ASSUME NEW k \in 1 .. Len(r) + Len(q) PROVE (r \o q)[k] \in 1 .. Width
      BY <2>2
    <3>1. CASE k <= Len(r)
      <4>1. k \in 1 .. Len(r)
        BY <1>0, <3>1
      <4> QED BY <2>2, <2>3, <4>1
    <3>2. CASE ~(k <= Len(r))
      <4>1. k - Len(r) \in 1 .. Len(q) /\ Len(r) + (k - Len(r)) = k
        BY <1>0, <2>1, <3>2
      <4>2. (r \o q)[Len(r) + (k - Len(r))] = q[k - Len(r)]
        BY <2>2, <4>1
      <4> QED BY <2>1, <4>1, <4>2
    <3> QED BY <3>1, <3>2
  <2>5. Len(r \o q) <= n /\ (Len(q) = m => Len(r \o q) = n)
    BY <1>0, <2>1, <2>2, <2>0 DEF m
  <2>6. r \o q \in SeqOf(1 .. Width, n)
    BY <2>2, <2>4, <2>5, PlacesOf
  <2>7. Within(c, r \o q) /\ At(c, r \o q) = At(At(c, r), q)
    BY <2>1, WithinJoined, AtJoined
  <2>8. CallOk(At(c, r \o q)) /\ (Len(r \o q) = n => ~IsGroup(At(c, r \o q)))
    BY <2>6, <2>7 DEF FitsIn
  <2> QED BY <2>5, <2>7, <2>8
<1> QED BY <1>8, <1>9, <1>10

\* A call that fits in the bounds of the programs.
Fit(c) == \E n \in 0 .. Depth : FitsIn(c, n)

\* The calls of such a call, and its leaves without the bounds.
LEMMA FitCalls ==
  ASSUME NEW c, Fit(c)
  PROVE  /\ CallOk(c)
         /\ \A i \in DOMAIN c.calls : i \in Nat /\ Fit(c.calls[i])
         /\ \A r : r \in LeavesOf(c) <=> r \in Seq(Nat) /\ Within(c, r) /\ ~IsGroup(At(c, r))
<1>1. PICK n \in 0 .. Depth : FitsIn(c, n)
  BY DEF Fit
<1>2. n \in Nat /\ n <= Depth /\ Depth \in Nat
  BY BoundsAssumption
<1>3. CallOk(c)
  <2>1. <<>> \in Seq(Nat) /\ Within(c, <<>>) /\ At(c, <<>>) = c
    <3>1. <<>> \in Seq(Nat) /\ 0 \in Nat
      OBVIOUS
    <3> QED BY <3>1, WithinStep, AtStep
  <2> QED BY <1>1, <1>2, <2>1, Fitting
<1>4. ASSUME NEW i \in DOMAIN c.calls PROVE i \in Nat /\ Fit(c.calls[i])
  <2>1. i \in Nat
    BY <1>3 DEF CallOk
  <2>2. <<i>> \in Seq(Nat) /\ Len(<<i>>) = 1 /\ Within(c, <<i>>) /\ At(c, <<i>>) = c.calls[i]
    <3>1. <<>> \in Seq(Nat) /\ <<i>> \o <<>> = <<i>> /\ <<i>> \in Seq(Nat) /\ Len(<<i>>) = 1
      BY <2>1, Ends
    <3>2. /\ Within(c.calls[i], <<>>) /\ At(c, <<i>>) = c.calls[i]
          /\ Within(c, <<i>> \o <<>>) <=> i \in DOMAIN c.calls /\ Within(c.calls[i], <<>>)
      BY <2>1, <3>1, WithinStep
    <3> QED BY <3>1, <3>2
  <2>3. 1 <= n /\ FitsIn(c.calls[i], n - 1)
    BY <1>1, <1>2, <2>2, Fitting
  <2>4. n - 1 \in 0 .. Depth
    BY <1>2, <2>3
  <2> QED BY <2>1, <2>3, <2>4 DEF Fit
<1>5. ASSUME NEW r PROVE r \in LeavesOf(c) <=> r \in Seq(Nat) /\ Within(c, r) /\ ~IsGroup(At(c, r))
  <2>1. ASSUME r \in LeavesOf(c) PROVE r \in Seq(Nat) /\ Within(c, r) /\ ~IsGroup(At(c, r))
    BY <1>2, <2>1, PlacesOf DEF LeavesOf, Places
  <2>2. ASSUME r \in Seq(Nat), Within(c, r), ~IsGroup(At(c, r)) PROVE r \in LeavesOf(c)
    <3>1. Len(r) <= n /\ r \in SeqOf(1 .. Width, n)
      BY <1>1, <1>2, <2>2, Fitting
    <3>2. Len(r) <= Depth /\ \A k \in 1 .. Len(r) : r[k] \in 1 .. Width
      <4>1. Len(r) \in Nat
        BY <2>2
      <4> QED BY <1>2, <3>1, <4>1, PlacesOf
    <3>3. r \in SeqOf(1 .. Width, Depth)
      BY <1>2, <2>2, <3>2, PlacesOf
    <3> QED BY <2>2, <3>3 DEF LeavesOf, Places
  <2> QED BY <2>1, <2>2
<1> QED BY <1>3, <1>4, <1>5

-----------------------------------------------------------------------------
(* What a call means, by its calls.                                        *)

Musts(c, r) == \A d \in 1 .. Len(r) : ~At(c, SubSeq(r, 1, d)).may
Stays(c, p, r) == \A d \in 0 .. Len(r) : ~Fails(At(c, SubSeq(r, 1, d)), p \o SubSeq(r, 1, d))

\* A place that begins with the index i.
Conses(r, i, s, c, p) ==
  /\ r \in Seq(Nat) /\ Len(r) = Len(s) + 1 /\ Append(p, i) \in Seq(Nat)
  /\ p \o r = Append(p, i) \o s /\ r[1] = i
  /\ At(c, SubSeq(r, 1, 0)) = c /\ p \o SubSeq(r, 1, 0) = p
  /\ \A e \in 0 .. Len(s) : /\ At(c, SubSeq(r, 1, e + 1)) = At(c.calls[i], SubSeq(s, 1, e))
                            /\ p \o SubSeq(r, 1, e + 1) = Append(p, i) \o SubSeq(s, 1, e)
                            /\ SubSeq(r, 1, e + 1) = <<i>> \o SubSeq(s, 1, e)

\* What the calls of a group see of such a place.
LEMMA ConsStarts ==
  ASSUME NEW c, NEW i \in Nat, NEW s \in Seq(Nat), NEW p \in Seq(Nat),
         NEW r, r = <<i>> \o s
  PROVE  Conses(r, i, s, c, p)
<1>1. /\ <<i>> \in Seq(Nat) /\ Len(<<i>>) = 1 /\ Append(p, i) = p \o <<i>>
      /\ Append(p, i) \in Seq(Nat) /\ p \o <<>> = p /\ <<i>>[1] = i
  BY Ends
<1>2. \A a, b, x \in Seq(Nat) : (a \o b) \o x = a \o (b \o x)
  BY ConcatAssociative, SMTT(60)
<1>3. /\ r \in Seq(Nat) /\ Len(r) = 1 + Len(s) /\ \A d \in 1 .. 1 : r[d] = <<i>>[d]
      /\ \A e \in 0 .. Len(s) : SubSeq(r, 1, 1 + e) = <<i>> \o SubSeq(s, 1, e)
  BY <1>1, StartsJoined
<1>4. Len(s) \in Nat /\ p \o r = Append(p, i) \o s
  <2>1. (p \o <<i>>) \o s = p \o (<<i>> \o s)
    BY <1>1, <1>2
  <2>2. p \o r = Append(p, i) \o s
    BY <1>1, <2>1, Zenon
  <2>3. Len(s) \in Nat
    OBVIOUS
  <2> QED BY <2>2, <2>3, Zenon
<1>5. SubSeq(r, 1, 0) = <<>> /\ At(c, <<>>) = c
  <2>1. 0 \in 0 .. Len(r) /\ 0 \in Nat
    BY <1>3, <1>4
  <2>2. SubSeq(r, 1, 0) \in Seq(Nat) /\ Len(SubSeq(r, 1, 0)) = 0
    BY <1>3, <2>1, Starts
  <2>3. SubSeq(r, 1, 0) = <<>>
    BY <2>2, EmptySeq
  <2>4. <<>> \in Seq(Nat)
    OBVIOUS
  <2> QED BY <2>1, <2>3, <2>4, AtStep
<1>6. ASSUME NEW e \in 0 .. Len(s)
      PROVE  /\ At(c, SubSeq(r, 1, e + 1)) = At(c.calls[i], SubSeq(s, 1, e))
             /\ p \o SubSeq(r, 1, e + 1) = Append(p, i) \o SubSeq(s, 1, e)
             /\ SubSeq(r, 1, e + 1) = <<i>> \o SubSeq(s, 1, e)
  <2> DEFINE t == SubSeq(s, 1, e)
  <2>1. t \in Seq(Nat) /\ e \in Nat /\ e + 1 = 1 + e
    BY Starts
  <2>2. SubSeq(r, 1, e + 1) = <<i>> \o t
    BY <1>3, <2>1
  <2> HIDE DEF t
  <2>3. At(c, <<i>> \o t) = At(c.calls[i], t)
    BY <2>1, WithinStep
  <2>4. p \o (<<i>> \o t) = Append(p, i) \o t
    <3>1. (p \o <<i>>) \o t = p \o (<<i>> \o t)
      BY <1>1, <1>2, <2>1
    <3> QED BY <1>1, <3>1
  <2> QED BY <2>2, <2>3, <2>4 DEF t
<1>7. r[1] = i
  BY <1>1, <1>3
<1>8. Len(r) = Len(s) + 1 /\ p \o SubSeq(r, 1, 0) = p /\ At(c, SubSeq(r, 1, 0)) = c
  <2>1. Len(r) = Len(s) + 1
    BY <1>3, <1>4
  <2>2. p \o SubSeq(r, 1, 0) = p
    BY <1>1, <1>5
  <2> QED BY <1>5, <2>1, <2>2
<1> QED BY <1>1, <1>3, <1>4, <1>6, <1>7, <1>8, Zenon DEF Conses

\* No call on the way may fail, seen from the group and from its call.
LEMMA MustsCons ==
  ASSUME NEW c, NEW i \in Nat, NEW s \in Seq(Nat)
  PROVE  Musts(c, <<i>> \o s) <=> ~c.calls[i].may /\ Musts(c.calls[i], s)
<1> DEFINE r == <<i>> \o s  x == c.calls[i]
<1>r. r = <<i>> \o s
  OBVIOUS
<1> HIDE DEF r
<1> DEFINE M(d) == ~At(c, SubSeq(r, 1, d)).may
           N(d) == ~At(x, SubSeq(s, 1, d)).may
<1>0. <<>> \in Seq(Nat) /\ Len(s) \in Nat /\ 0 \in Nat
  OBVIOUS
<1>1. /\ Len(r) = Len(s) + 1
      /\ \A e \in 0 .. Len(s) : At(c, SubSeq(r, 1, e + 1)) = At(x, SubSeq(s, 1, e))
  <2>1. Conses(r, i, s, c, <<>>)
    BY <1>0, <1>r, ConsStarts
  <2> QED BY <2>1 DEF Conses
<1>2. \A e \in 0 .. Len(s) : M(e + 1) <=> N(e)
  BY <1>1
<1>3. N(0) <=> ~x.may
  <2>1. SubSeq(s, 1, 0) = <<>>
    OBVIOUS
  <2>2. At(x, <<>>) = x
    BY <1>0, AtStep
  <2> QED BY <2>1, <2>2
<1>4. Musts(c, r) <=> \A d \in 1 .. Len(s) + 1 : M(d)
  BY <1>1 DEF Musts
<1>5. Musts(x, s) <=> \A d \in 1 .. Len(s) : N(d)
  BY DEF Musts
<1> HIDE DEF r, x, M, N
<1>6. (\A d \in 1 .. Len(s) + 1 : M(d)) <=> \A e \in 0 .. Len(s) : M(e + 1)
  <2>1. \A e \in 0 .. Len(s) : e + 1 \in 1 .. Len(s) + 1
    BY <1>0
  <2>2. \A d \in 1 .. Len(s) + 1 : d - 1 \in 0 .. Len(s) /\ (d - 1) + 1 = d
    BY <1>0
  <2>3. ASSUME \A e \in 0 .. Len(s) : M(e + 1), NEW d \in 1 .. Len(s) + 1 PROVE M(d)
    <3>1. M((d - 1) + 1)
      BY <2>2, <2>3
    <3> QED BY <2>2, <3>1
  <2> QED BY <2>1, <2>3
<1>7. (\A e \in 0 .. Len(s) : N(e)) <=> N(0) /\ \A e \in 1 .. Len(s) : N(e)
  BY <1>0
<1>8. Musts(c, r) <=> ~x.may /\ Musts(x, s)
  BY <1>2, <1>3, <1>4, <1>5, <1>6, <1>7
<1> QED BY <1>8 DEF r, x

\* Nothing around the place fails, seen from the group and from its call.
LEMMA StaysCons ==
  ASSUME NEW c, NEW i \in Nat, NEW s \in Seq(Nat), NEW p \in Seq(Nat)
  PROVE  Stays(c, p, <<i>> \o s) <=> ~Fails(c, p) /\ Stays(c.calls[i], Append(p, i), s)
<1> DEFINE r == <<i>> \o s  x == c.calls[i]  q == Append(p, i)
<1>r. r = <<i>> \o s
  OBVIOUS
<1> HIDE DEF r
<1> DEFINE M(d) == ~Fails(At(c, SubSeq(r, 1, d)), p \o SubSeq(r, 1, d))
           N(d) == ~Fails(At(x, SubSeq(s, 1, d)), q \o SubSeq(s, 1, d))
<1>0. Len(s) \in Nat
  OBVIOUS
<1>1. /\ Len(r) = Len(s) + 1 /\ At(c, SubSeq(r, 1, 0)) = c /\ p \o SubSeq(r, 1, 0) = p
      /\ \A e \in 0 .. Len(s) : /\ At(c, SubSeq(r, 1, e + 1)) = At(x, SubSeq(s, 1, e))
                                /\ p \o SubSeq(r, 1, e + 1) = q \o SubSeq(s, 1, e)
  <2>1. Conses(r, i, s, c, p)
    BY <1>r, ConsStarts
  <2> QED BY <2>1 DEF Conses
<1>2. \A e \in 0 .. Len(s) : M(e + 1) <=> N(e)
  BY <1>1
<1>3. M(0) <=> ~Fails(c, p)
  BY <1>1
<1>4. Stays(c, p, r) <=> \A d \in 0 .. Len(s) + 1 : M(d)
  BY <1>1 DEF Stays
<1>5. Stays(x, q, s) <=> \A d \in 0 .. Len(s) : N(d)
  BY DEF Stays
<1> HIDE DEF r, x, q, M, N
<1>6. (\A d \in 0 .. Len(s) + 1 : M(d)) <=> M(0) /\ \A e \in 0 .. Len(s) : M(e + 1)
  <2>1. \A e \in 0 .. Len(s) : e + 1 \in 0 .. Len(s) + 1
    BY <1>0
  <2>2. ASSUME M(0), \A e \in 0 .. Len(s) : M(e + 1), NEW d \in 0 .. Len(s) + 1 PROVE M(d)
    <3>1. CASE d = 0
      BY <2>2, <3>1
    <3>2. CASE d # 0
      <4>1. d - 1 \in 0 .. Len(s) /\ (d - 1) + 1 = d
        BY <1>0, <3>2
      <4>2. M((d - 1) + 1)
        BY <2>2, <4>1
      <4> QED BY <4>1, <4>2
    <3> QED BY <3>1, <3>2
  <2>3. 0 \in 0 .. Len(s) + 1
    BY <1>0
  <2> QED BY <2>1, <2>2, <2>3
<1>7. Stays(c, p, r) <=> ~Fails(c, p) /\ Stays(x, q, s)
  BY <1>2, <1>3, <1>4, <1>5, <1>6
<1> QED BY <1>7 DEF r, x, q

\* Every place but the first begins with an index.
LEMMA Uncons ==
  ASSUME NEW r \in Seq(Nat), r # <<>>
  PROVE  \E i \in Nat : \E s \in Seq(Nat) : r = <<i>> \o s
<1> DEFINE i == Head(r)  s == Tail(r)
<1>1. i \in Nat /\ s \in Seq(Nat) /\ Len(s) = Len(r) - 1 /\ \A k \in 1 .. Len(s) : s[k] = r[k + 1]
  BY HeadTailProperties
<1>2. i = r[1] /\ Len(r) \in Nat /\ Len(r) >= 1
  OBVIOUS
<1> HIDE DEF i, s
<1>3. <<i>> \in Seq(Nat) /\ Len(<<i>>) = 1 /\ <<i>>[1] = i
  BY <1>1, Ends
<1>4. /\ <<i>> \o s \in Seq(Nat) /\ Len(<<i>> \o s) = 1 + Len(s)
      /\ \A d \in 1 .. 1 : (<<i>> \o s)[d] = <<i>>[d]
      /\ \A d \in 1 .. Len(s) : (<<i>> \o s)[1 + d] = s[d]
  BY <1>1, <1>3, StartsJoined
<1>5. \A k \in 1 .. Len(r) : (<<i>> \o s)[k] = r[k]
  <2> SUFFICES ASSUME NEW k \in 1 .. Len(r) PROVE (<<i>> \o s)[k] = r[k]
    OBVIOUS
  <2>1. CASE k = 1
    BY <1>2, <1>3, <1>4, <2>1
  <2>2. CASE k # 1
    <3> DEFINE d == k - 1
    <3>1. d \in 1 .. Len(s) /\ 1 + d = k /\ d + 1 = k
      BY <1>1, <1>2, <2>2
    <3> HIDE DEF d
    <3>2. (<<i>> \o s)[1 + d] = s[d] /\ s[d] = r[d + 1]
      BY <1>1, <1>4, <3>1
    <3> QED BY <3>1, <3>2
  <2> QED BY <2>1, <2>2
<1>6. Len(<<i>> \o s) = Len(r)
  BY <1>1, <1>2, <1>4
<1>7. r = <<i>> \o s
  BY <1>4, <1>5, <1>6, SeqEqual
<1> QED BY <1>1, <1>7

\* The leaves of a group are those of its calls; another call is one itself.
LEMMA LeavesOfGroup ==
  ASSUME NEW c, Fit(c), IsGroup(c)
  PROVE  \A r : r \in LeavesOf(c) <=>
           \E i \in DOMAIN c.calls : \E s \in LeavesOf(c.calls[i]) : r = <<i>> \o s
<1> SUFFICES ASSUME NEW r
             PROVE  r \in LeavesOf(c) <=>
                      \E i \in DOMAIN c.calls : \E s \in LeavesOf(c.calls[i]) : r = <<i>> \o s
  OBVIOUS
<1>1. /\ \A i \in DOMAIN c.calls : i \in Nat /\ Fit(c.calls[i])
      /\ \A q : q \in LeavesOf(c) <=> q \in Seq(Nat) /\ Within(c, q) /\ ~IsGroup(At(c, q))
  BY FitCalls
<1>2. ASSUME NEW i \in DOMAIN c.calls, NEW s
      PROVE  s \in LeavesOf(c.calls[i]) <=>
               s \in Seq(Nat) /\ Within(c.calls[i], s) /\ ~IsGroup(At(c.calls[i], s))
  BY <1>1, FitCalls
<1>3. ASSUME NEW i \in DOMAIN c.calls, NEW s \in LeavesOf(c.calls[i])
      PROVE  <<i>> \o s \in LeavesOf(c)
  <2>1. i \in Nat /\ s \in Seq(Nat) /\ Within(c.calls[i], s) /\ ~IsGroup(At(c.calls[i], s))
    BY <1>1, <1>2
  <2>2. At(c, <<i>> \o s) = At(c.calls[i], s) /\ Within(c, <<i>> \o s)
    BY <2>1, WithinStep
  <2>3. <<i>> \o s \in Seq(Nat)
    BY <2>1, Ends, StartsJoined
  <2> QED BY <1>1, <2>1, <2>2, <2>3
<1>4. ASSUME r \in LeavesOf(c)
      PROVE  \E i \in DOMAIN c.calls : \E s \in LeavesOf(c.calls[i]) : r = <<i>> \o s
  <2>1. r \in Seq(Nat) /\ Within(c, r) /\ ~IsGroup(At(c, r))
    BY <1>1, <1>4
  <2>2. r # <<>>
    <3>1. <<>> \in Seq(Nat) /\ 0 \in Nat
      OBVIOUS
    <3>2. At(c, <<>>) = c
      BY <3>1, AtStep
    <3> QED BY <2>1, <3>2
  <2>3. PICK i \in Nat, s \in Seq(Nat) : r = <<i>> \o s
    BY <2>1, <2>2, Uncons
  <2>4. i \in DOMAIN c.calls /\ Within(c.calls[i], s) /\ At(c, r) = At(c.calls[i], s)
    BY <2>1, <2>3, WithinStep
  <2>5. s \in LeavesOf(c.calls[i])
    BY <1>2, <2>1, <2>3, <2>4
  <2> QED BY <2>3, <2>4, <2>5
<1> QED BY <1>3, <1>4

\* A call that is no group has one leaf, itself.
LEMMA LeavesOfLeaf ==
  ASSUME NEW c, Fit(c), ~IsGroup(c)
  PROVE  LeavesOf(c) = {<<>>}
<1>1. /\ CallOk(c)
      /\ \A q : q \in LeavesOf(c) <=> q \in Seq(Nat) /\ Within(c, q) /\ ~IsGroup(At(c, q))
  BY FitCalls
<1>2. c.calls = <<>> /\ DOMAIN c.calls = {}
  BY <1>1 DEF CallOk
<1>3. <<>> \in Seq(Nat) /\ 0 \in Nat
  OBVIOUS
<1>4. <<>> \in LeavesOf(c)
  BY <1>1, <1>3, WithinStep, AtStep
<1>5. ASSUME NEW q \in LeavesOf(c) PROVE q = <<>>
  <2>1. q \in Seq(Nat) /\ Within(c, q)
    BY <1>1
  <2>2. ASSUME Len(q) # 0 PROVE FALSE
    <3>1. 1 \in 1 .. Len(q) /\ SubSeq(q, 1, 1 - 1) = <<>>
      BY <2>1, <2>2
    <3>2. q[1] \in DOMAIN At(c, <<>>).calls
      BY <2>1, <3>1 DEF Within
    <3>3. At(c, <<>>) = c
      BY <1>3, AtStep
    <3> QED BY <1>2, <3>2, <3>3
  <2> QED BY <2>1, <2>2, EmptySeq
<1> QED BY <1>4, <1>5

\* A group fails if one of its calls stops it; another call if it is bad.
LEMMA GroupFails ==
  ASSUME NEW c, Fit(c), IsGroup(c), NEW p \in Seq(Nat)
  PROVE  Fails(c, p) <=> \E i \in DOMAIN c.calls : Stops(c.calls[i], Append(p, i))
<1>1. \A i \in DOMAIN c.calls : i \in Nat /\ Fit(c.calls[i])
  BY FitCalls
<1>2. \A x, q : Fails(x, q) <=> \E r \in LeavesOf(x) : q \o r \in bad /\ Musts(x, r)
  BY DEF Fails, Musts
<1>3. ASSUME NEW i \in DOMAIN c.calls, NEW s \in LeavesOf(c.calls[i])
      PROVE  (p \o (<<i>> \o s) \in bad /\ Musts(c, <<i>> \o s)) <=>
               (Append(p, i) \o s \in bad /\ ~c.calls[i].may /\ Musts(c.calls[i], s))
  <2>1. i \in Nat /\ s \in Seq(Nat)
    BY <1>1, FitCalls
  <2>2. p \o (<<i>> \o s) = Append(p, i) \o s
    <3>1. \A r : r = <<i>> \o s => Conses(r, i, s, c, p)
      BY <2>1, ConsStarts
    <3> QED BY <3>1 DEF Conses
  <2>3. Musts(c, <<i>> \o s) <=> ~c.calls[i].may /\ Musts(c.calls[i], s)
    BY <2>1, MustsCons
  <2> QED BY <2>2, <2>3
<1>4. ASSUME Fails(c, p) PROVE \E i \in DOMAIN c.calls : Stops(c.calls[i], Append(p, i))
  <2>1. PICK r \in LeavesOf(c) : p \o r \in bad /\ Musts(c, r)
    BY <1>2, <1>4
  <2>2. PICK i \in DOMAIN c.calls : \E s \in LeavesOf(c.calls[i]) : r = <<i>> \o s
    <3>1. \A q : q \in LeavesOf(c) <=>
            \E j \in DOMAIN c.calls : \E t \in LeavesOf(c.calls[j]) : q = <<j>> \o t
      BY LeavesOfGroup
    <3> QED BY <3>1, Zenon
  <2>3. PICK s \in LeavesOf(c.calls[i]) : r = <<i>> \o s
    BY <2>2
  <2>4. Append(p, i) \o s \in bad /\ ~c.calls[i].may /\ Musts(c.calls[i], s)
    BY <1>3, <2>1, <2>3
  <2>5. Fails(c.calls[i], Append(p, i))
    BY <1>2, <2>4
  <2> QED BY <2>4, <2>5 DEF Stops
<1>5. ASSUME NEW i \in DOMAIN c.calls, Stops(c.calls[i], Append(p, i)) PROVE Fails(c, p)
  <2>1. ~c.calls[i].may /\ Fails(c.calls[i], Append(p, i))
    BY <1>5 DEF Stops
  <2>2. PICK s \in LeavesOf(c.calls[i]) : Append(p, i) \o s \in bad /\ Musts(c.calls[i], s)
    BY <1>2, <2>1
  <2>3. p \o (<<i>> \o s) \in bad /\ Musts(c, <<i>> \o s)
    BY <1>3, <2>1, <2>2
  <2>4. <<i>> \o s \in LeavesOf(c)
    BY LeavesOfGroup
  <2> QED BY <1>2, <2>3, <2>4
<1> QED BY <1>4, <1>5

\* A call that is no group fails when it is bad.
LEMMA LeafFails ==
  ASSUME NEW c, Fit(c), ~IsGroup(c), NEW p \in Seq(Nat)
  PROVE  Fails(c, p) <=> p \in bad
<1>1. LeavesOf(c) = {<<>>} /\ p \o <<>> = p /\ \A d \in 1 .. Len(<<>>) : FALSE
  <2>1. 0 \in Nat /\ Len(<<>>) = 0
    OBVIOUS
  <2> QED BY <2>1, LeavesOfLeaf, Ends
<1> QED BY <1>1 DEF Fails

\* What a group does is what its calls do, if none stops it.
LEMMA GroupMeans ==
  ASSUME NEW c, Fit(c), IsGroup(c), NEW p \in Seq(Nat), NEW e
  PROVE  e \in Meaning(c, p) <=>
           /\ ~Fails(c, p)
           /\ \E i \in DOMAIN c.calls : e \in Meaning(c.calls[i], Append(p, i))
<1>1. \A i \in DOMAIN c.calls : i \in Nat /\ Fit(c.calls[i])
  BY FitCalls
<1>2. \A x, q, y : y \in Meaning(x, q) <=> \E r \in LeavesOf(x) : y = q \o r /\ Stays(x, q, r)
  BY DEF Meaning, Stays
<1>3. ASSUME NEW i \in DOMAIN c.calls, NEW s \in LeavesOf(c.calls[i])
      PROVE  /\ p \o (<<i>> \o s) = Append(p, i) \o s
             /\ Stays(c, p, <<i>> \o s) <=> ~Fails(c, p) /\ Stays(c.calls[i], Append(p, i), s)
  <2>1. i \in Nat /\ s \in Seq(Nat)
    BY <1>1, FitCalls
  <2>2. p \o (<<i>> \o s) = Append(p, i) \o s
    <3>1. \A r : r = <<i>> \o s => Conses(r, i, s, c, p)
      BY <2>1, ConsStarts
    <3> QED BY <3>1 DEF Conses
  <2>3. Stays(c, p, <<i>> \o s) <=> ~Fails(c, p) /\ Stays(c.calls[i], Append(p, i), s)
    BY <2>1, StaysCons
  <2> QED BY <2>2, <2>3
<1>4. ASSUME e \in Meaning(c, p)
      PROVE  ~Fails(c, p) /\ \E i \in DOMAIN c.calls : e \in Meaning(c.calls[i], Append(p, i))
  <2>1. PICK r \in LeavesOf(c) : e = p \o r /\ Stays(c, p, r)
    BY <1>2, <1>4
  <2>2. PICK i \in DOMAIN c.calls : \E s \in LeavesOf(c.calls[i]) : r = <<i>> \o s
    <3>1. \A q : q \in LeavesOf(c) <=>
            \E j \in DOMAIN c.calls : \E t \in LeavesOf(c.calls[j]) : q = <<j>> \o t
      BY LeavesOfGroup
    <3> QED BY <3>1, Zenon
  <2>3. PICK s \in LeavesOf(c.calls[i]) : r = <<i>> \o s
    BY <2>2
  <2>4. e = Append(p, i) \o s /\ ~Fails(c, p) /\ Stays(c.calls[i], Append(p, i), s)
    BY <1>3, <2>1, <2>3
  <2> QED BY <1>2, <2>4
<1>5. ASSUME ~Fails(c, p), NEW i \in DOMAIN c.calls, e \in Meaning(c.calls[i], Append(p, i))
      PROVE  e \in Meaning(c, p)
  <2>1. PICK s \in LeavesOf(c.calls[i]) : e = Append(p, i) \o s /\ Stays(c.calls[i], Append(p, i), s)
    BY <1>2, <1>5
  <2>2. <<i>> \o s \in LeavesOf(c)
    BY LeavesOfGroup
  <2>3. e = p \o (<<i>> \o s) /\ Stays(c, p, <<i>> \o s)
    BY <1>3, <1>5, <2>1
  <2> QED BY <1>2, <2>2, <2>3
<1> QED BY <1>4, <1>5

\* A call that is no group takes effect unless it is bad.
LEMMA LeafMeans ==
  ASSUME NEW c, Fit(c), ~IsGroup(c), NEW p \in Seq(Nat)
  PROVE  Meaning(c, p) = IF p \in bad THEN {} ELSE {p}
<1>1. LeavesOf(c) = {<<>>} /\ p \o <<>> = p /\ (Fails(c, p) <=> p \in bad)
  <2>1. 0 \in Nat
    OBVIOUS
  <2> QED BY <2>1, LeavesOfLeaf, LeafFails, Ends
<1>2. \A y : y \in Meaning(c, p) <=> \E r \in LeavesOf(c) : y = p \o r /\ Stays(c, p, r)
  BY DEF Meaning, Stays
<1>3. Stays(c, p, <<>>) <=> ~Fails(c, p)
  <2>1. 0 .. Len(<<>>) = {0} /\ SubSeq(<<>>, 1, 0) = <<>> /\ <<>> \in Seq(Nat) /\ 0 \in Nat
    OBVIOUS
  <2>2. At(c, <<>>) = c
    BY <2>1, AtStep
  <2> QED BY <1>1, <2>1, <2>2 DEF Stays
<1> QED BY <1>1, <1>2, <1>3

\* A call that fails has no effect.
LEMMA FailsMeans ==
  ASSUME NEW c, Fit(c), NEW p \in Seq(Nat), Fails(c, p)
  PROVE  Meaning(c, p) = {}
BY GroupMeans, LeafMeans, LeafFails

-----------------------------------------------------------------------------
(* A call instead of a group of it.                                        *)

\* Calls of the same kind with the same calls have the same meaning.
LEMMA SameCalls ==
  ASSUME NEW x, NEW y, Fit(x), CallOk(y), y.kind = x.kind, y.calls = x.calls,
         NEW q \in Seq(Nat)
  PROVE  /\ Fit(y)
         /\ Fails(y, q) <=> Fails(x, q)
         /\ Meaning(y, q) = Meaning(x, q)
<1>1. PICK n \in 0 .. Depth : FitsIn(x, n)
  BY DEF Fit
<1>2. n \in Nat
  BY BoundsAssumption
<1>3. IsGroup(y) <=> IsGroup(x)
  BY DEF IsGroup
<1>4. Fit(y)
  <2>1. ASSUME NEW r \in SeqOf(1 .. Width, n), Within(y, r)
        PROVE  CallOk(At(y, r)) /\ (Len(r) = n => ~IsGroup(At(y, r)))
    <3>1. r \in Seq(Nat)
      BY <1>2, <2>1, PlacesOf
    <3>2. CASE r = <<>>
      <4>1. <<>> \in Seq(Nat) /\ 0 \in Nat
        OBVIOUS
      <4>2. At(y, r) = y /\ At(x, r) = x /\ Within(x, r)
        BY <3>2, <4>1, AtStep, WithinStep
      <4> QED BY <1>1, <1>3, <4>2 DEF FitsIn
    <3>3. CASE r # <<>>
      <4>1. PICK i \in Nat, s \in Seq(Nat) : r = <<i>> \o s
        BY <3>1, <3>3, Uncons
      <4>2. At(y, r) = At(x, r) /\ Within(x, r)
        <5>1. At(y, r) = At(y.calls[i], s) /\ At(x, r) = At(x.calls[i], s)
          BY <4>1, WithinStep
        <5>2. /\ Within(y, r) <=> i \in DOMAIN y.calls /\ Within(y.calls[i], s)
              /\ Within(x, r) <=> i \in DOMAIN x.calls /\ Within(x.calls[i], s)
          BY <4>1, WithinStep
        <5> QED BY <2>1, <5>1, <5>2
      <4> QED BY <1>1, <4>2 DEF FitsIn
    <3> QED BY <3>2, <3>3
  <2>2. FitsIn(y, n)
    BY <2>1 DEF FitsIn
  <2> QED BY <2>2 DEF Fit
<1>5. Fails(y, q) <=> Fails(x, q)
  <2>1. CASE IsGroup(x)
    BY <1>3, <1>4, <2>1, GroupFails
  <2>2. CASE ~IsGroup(x)
    BY <1>3, <1>4, <2>2, LeafFails
  <2> QED BY <2>1, <2>2
<1>6. Meaning(y, q) = Meaning(x, q)
  <2>1. CASE IsGroup(x)
    <3>1. \A e : e \in Meaning(x, q) <=>
            ~Fails(x, q) /\ \E i \in DOMAIN x.calls : e \in Meaning(x.calls[i], Append(q, i))
      BY <2>1, GroupMeans
    <3>2. \A e : e \in Meaning(y, q) <=>
            ~Fails(y, q) /\ \E i \in DOMAIN y.calls : e \in Meaning(y.calls[i], Append(q, i))
      BY <1>3, <1>4, <2>1, GroupMeans
    <3>3. \A e : e \in Meaning(x, q) <=> e \in Meaning(y, q)
      BY <1>5, <3>1, <3>2
    <3> QED BY <3>3 DEF Meaning
  <2>2. CASE ~IsGroup(x)
    BY <1>3, <1>4, <2>2, LeafMeans
  <2> QED BY <2>1, <2>2
<1> QED BY <1>4, <1>5, <1>6

\* What Reduce makes of a group of one call.
LEMMA Reduced ==
  ASSUME NEW c, Fit(c), Len(c.calls) = 1, NEW p \in Seq(Nat)
  PROVE  /\ Meaning(Reduce(c), Append(p, 1)) = Meaning(c, p)
         /\ Stops(Reduce(c), Append(p, 1)) <=> Stops(c, p)
<1> DEFINE x == c.calls[1]  y == Reduce(c)  q == Append(p, 1)
<1>1. CallOk(c) /\ IsGroup(c) /\ DOMAIN c.calls = {1}
  <2>1. CallOk(c)
    BY FitCalls
  <2>2. DOMAIN c.calls = 1 .. 1
    BY <2>1 DEF CallOk
  <2>3. c.calls # <<>>
    <3>1. Len(<<>>) # 1
      OBVIOUS
    <3>2. Len(c.calls) = 1
      OBVIOUS
    <3> QED BY ONLY <3>1, <3>2, Zenon
  <2> QED BY <2>1, <2>2, <2>3 DEF CallOk
<1>2. Fit(x) /\ CallOk(x)
  BY <1>1, FitCalls
<1>3. q \in Seq(Nat)
  OBVIOUS
<1>4. /\ DOMAIN y = DOMAIN x /\ y.kind = x.kind /\ y.calls = x.calls
      /\ y.may = (x.may \/ c.may)
  BY <1>2 DEF CallOk, Reduce
<1>5. CallOk(y)
  <2>1. c.may \in BOOLEAN /\ x.may \in BOOLEAN
    BY <1>1, <1>2 DEF CallOk
  <2>2. y.may \in BOOLEAN
    BY <1>4, <2>1
  <2> HIDE DEF x, y
  <2> QED BY <1>2, <1>4, <2>2 DEF CallOk, IsGroup
<1> HIDE DEF x, y, q
<1>6. (Fails(y, q) <=> Fails(x, q)) /\ Meaning(y, q) = Meaning(x, q)
  BY <1>2, <1>3, <1>4, <1>5, SameCalls
<1>7. Fails(c, p) <=> ~x.may /\ Fails(x, q)
  <2>1. Fails(c, p) <=> \E i \in DOMAIN c.calls : Stops(c.calls[i], Append(p, i))
    BY <1>1, GroupFails
  <2>2. Fails(c, p) <=> Stops(x, q)
    BY <1>1, <2>1 DEF x, q
  <2> QED BY <2>2 DEF Stops
<1>8. Meaning(c, p) = Meaning(x, q)
  <2>1. \A e : e \in Meaning(c, p) <=>
          ~Fails(c, p) /\ \E i \in DOMAIN c.calls : e \in Meaning(c.calls[i], Append(p, i))
    BY <1>1, GroupMeans
  <2>2. \A e : e \in Meaning(c, p) <=> ~Fails(c, p) /\ e \in Meaning(x, q)
    BY <1>1, <2>1 DEF x, q
  <2>3. Fails(c, p) => Meaning(x, q) = {}
    BY <1>2, <1>3, <1>7, FailsMeans
  <2>4. \A e : e \in Meaning(c, p) <=> e \in Meaning(x, q)
    BY <2>2, <2>3
  <2> QED BY <2>4 DEF Meaning
<1>9. Stops(y, q) <=> Stops(c, p)
  BY <1>4, <1>6, <1>7 DEF Stops
<1> QED BY <1>6, <1>8, <1>9 DEF x, y, q

\* The multicall itself.
LEMMA WholeFits ==
  ASSUME prog \in Programs
  PROVE  /\ FitsIn(Whole, Depth) /\ Fit(Whole) /\ IsGroup(Whole) /\ Whole.calls = prog
         /\ ~Whole.may /\ <<>> \in Seq(Nat)
<1>1. FitsIn(Whole, Depth)
  BY ProgramsAssumption DEF Whole
<1>2. Depth \in 0 .. Depth
  BY BoundsAssumption
<1>3. IsGroup(Whole) /\ Whole.calls = prog /\ ~Whole.may
  BY DEF Whole, Group, IsGroup
<1>4. Fit(Whole)
  BY <1>1, <1>2 DEF Fit
<1> QED BY <1>1, <1>3, <1>4

\* The same, of the calls of the multicall.
LEMMA ReduceHolds == prog \in Programs => ReduceKeepsMeaning
<1> SUFFICES ASSUME prog \in Programs, NEW i \in DOMAIN prog, Len(prog[i].calls) = 1
             PROVE  /\ Meaning(Reduce(prog[i]), <<i, 1>>) = Meaning(prog[i], <<i>>)
                    /\ Stops(Reduce(prog[i]), <<i, 1>>) <=> Stops(prog[i], <<i>>)
  BY DEF ReduceKeepsMeaning
<1>1. Fit(Whole) /\ Whole.calls = prog
  BY WholeFits
<1>2. i \in Nat /\ Fit(prog[i])
  BY <1>1, FitCalls
<1>3. <<i>> \in Seq(Nat) /\ Append(<<i>>, 1) = <<i, 1>>
  <2>1. <<i>> \in Seq(Nat) /\ Len(<<i>>) = 1 /\ <<i>>[1] = i
    BY <1>2, Ends
  <2> DEFINE a == Append(<<i>>, 1)  b == <<i, 1>>
  <2>2. b \in Seq(Nat) /\ Len(b) = 2 /\ b[1] = i /\ b[2] = 1
    BY <1>2
  <2>3. a \in Seq(Nat) /\ Len(a) = 2 /\ a[1] = i /\ a[2] = 1
    <3> DEFINE t == <<i>>  v == <<1>>
    <3>1. t \in Seq(Nat) /\ Len(t) = 1 /\ t[1] = i
      BY <2>1
    <3>2. v \in Seq(Nat) /\ Len(v) = 1 /\ v[1] = 1 /\ Append(t, 1) = t \o v
      <4>1. 1 \in Nat
        OBVIOUS
      <4> HIDE DEF t
      <4> QED BY <3>1, <4>1, Ends
    <3> HIDE DEF t, v
    <3>3. /\ t \o v \in Seq(Nat) /\ Len(t \o v) = 1 + 1
          /\ \A d \in 1 .. 1 : (t \o v)[d] = t[d]
          /\ \A d \in 1 .. 1 : (t \o v)[1 + d] = v[d]
      BY <3>1, <3>2, StartsJoined
    <3>4. (t \o v)[1] = i /\ (t \o v)[2] = 1
      <4>1. 1 \in 1 .. 1 /\ 1 + 1 = 2
        OBVIOUS
      <4> QED BY <3>1, <3>2, <3>3, <4>1
    <3>5. a = t \o v
      BY <3>2 DEF t
    <3> HIDE DEF a
    <3> QED BY <3>3, <3>4, <3>5
  <2> HIDE DEF a, b
  <2>4. a = b
    <3>1. \A k \in 1 .. 2 : a[k] = b[k]
      BY <2>2, <2>3
    <3> QED BY <2>2, <2>3, <3>1, SeqEqual
  <2> QED BY <2>1, <2>4 DEF a, b
<1>4. /\ Meaning(Reduce(prog[i]), Append(<<i>>, 1)) = Meaning(prog[i], <<i>>)
      /\ Stops(Reduce(prog[i]), Append(<<i>>, 1)) <=> Stops(prog[i], <<i>>)
  BY <1>2, <1>3, Reduced
<1> QED BY <1>3, <1>4, Zenon

-----------------------------------------------------------------------------
(* The invariant.                                                          *)

\* The place of a frame, and what took effect when it is at its next call.
PlaceIn(s, d) == [k \in 1 .. d - 1 |-> s[k].next]
After(s, d) ==
  s[d].undo \cup
    UNION {Meaning(s[d].calls[i], Append(PlaceIn(s, d), i)) : i \in 1 .. s[d].next - 1}

\* A frame executes the group at its place, and nothing stopped it yet.
FrameIn(s, d) ==
  /\ Within(Whole, PlaceIn(s, d)) /\ IsGroup(At(Whole, PlaceIn(s, d)))
  /\ s[d].calls = At(Whole, PlaceIn(s, d)).calls
  /\ s[d].next \in 1 .. Len(s[d].calls) + 1
  /\ \A i \in 1 .. s[d].next - 1 : ~Stops(s[d].calls[i], Append(PlaceIn(s, d), i))

Frames ==
  [calls : {At(Whole, r).calls : r \in {q \in Places : Within(Whole, q)}}, next : 1 .. Width + 1,
   undo : SUBSET LeavesOf(Whole), bits : Seq(SUBSET Nat)]

\* Each frame but the innermost is at the call that the next one executes, and
\* what that one undoes to is what had taken effect before the call.
StackIn(s) ==
  /\ s \in Seq(Frames)
  /\ \A d \in 1 .. Len(s) : FrameIn(s, d)
  /\ s # <<>> => s[1].undo = {} /\ sender = "owner"
  /\ \A d \in 1 .. Len(s) - 1 : s[d].next \in DOMAIN s[d].calls /\ s[d + 1].undo = After(s, d)

\* The call in c at the place r is the first that fails and must not, and so is
\* every group around it.
Blocks(c, p, r, d) ==
  /\ ~At(c, SubSeq(r, 1, d)).may
  /\ \A i \in 1 .. r[d] - 1 :
       ~Stops(At(c, Append(SubSeq(r, 1, d - 1), i)), p \o Append(SubSeq(r, 1, d - 1), i))
Culprit(c, p, r) ==
  /\ r \in LeavesOf(c) /\ p \o r \in bad
  /\ \A d \in 1 .. Len(r) : Blocks(c, p, r, d)

\* The answer a and the effects e after the call c at p.
Outcome(a, e, c, p, before) ==
  /\ a.ok \in BOOLEAN
  /\ a.ok => ~Fails(c, p) /\ e = before \cup Meaning(c, p)
  /\ ~a.ok => Culprit(c, p, a.blame) /\ e = before

AnswerIn(s, a, e) ==
  /\ a = NoAnswer => e = IF s = <<>> THEN {} ELSE After(s, Len(s))
  /\ a # NoAnswer /\ s # <<>> =>
       LET f == s[Len(s)] IN
       /\ f.next \in DOMAIN f.calls
       /\ Outcome(a, e, f.calls[f.next], Append(PlaceIn(s, Len(s)), f.next), After(s, Len(s)))
  /\ a # NoAnswer /\ s = <<>> =>
       IF sender = "owner" THEN Outcome(a, e, Whole, <<>>, {}) ELSE ~a.ok /\ e = {}

Inv(s, a, e) ==
  /\ prog \in Programs /\ sender \in Senders /\ e \subseteq LeavesOf(Whole)
  /\ bad \subseteq {p \in LeavesOf(Whole) : At(Whole, p).kind # "balance"}
  /\ StackIn(s) /\ AnswerIn(s, a, e)

IInv == Inv(stack, ret, effects)

-----------------------------------------------------------------------------
(* Lemmas of the invariant.                                                *)

\* The places of the frames, each one index longer than the one before.
LEMMA Place ==
  ASSUME NEW s \in Seq(Frames)
  PROVE  /\ \A d \in 1 .. Len(s) + 1 : PlaceIn(s, d) \in Seq(Nat) /\ Len(PlaceIn(s, d)) = d - 1
         /\ PlaceIn(s, 1) = <<>>
         /\ \A d \in 1 .. Len(s) : PlaceIn(s, d + 1) = Append(PlaceIn(s, d), s[d].next)
<1>1. Len(s) \in Nat /\ \A d \in 1 .. Len(s) : s[d] \in Frames /\ s[d].next \in Nat
  <2>1. Len(s) \in Nat /\ \A d \in 1 .. Len(s) : s[d] \in Frames
    OBVIOUS
  <2>2. \A f \in Frames : f.next \in Nat
    BY BoundsAssumption DEF Frames
  <2> QED BY <2>1, <2>2
<1>2. ASSUME NEW d \in 1 .. Len(s) + 1
      PROVE  PlaceIn(s, d) \in Seq(Nat) /\ Len(PlaceIn(s, d)) = d - 1
  <2>1. d - 1 \in Nat /\ \A k \in 1 .. d - 1 : s[k].next \in Nat
    BY <1>1
  <2> QED BY <2>1 DEF PlaceIn
<1>3. PlaceIn(s, 1) = <<>>
  <2>1. 1 \in 1 .. Len(s) + 1
    BY <1>1
  <2>2. PlaceIn(s, 1) \in Seq(Nat) /\ Len(PlaceIn(s, 1)) = 0
    BY <1>2, <2>1
  <2> QED BY <2>2, EmptySeq
<1>4. ASSUME NEW d \in 1 .. Len(s) PROVE PlaceIn(s, d + 1) = Append(PlaceIn(s, d), s[d].next)
  <2> DEFINE u == PlaceIn(s, d)  v == PlaceIn(s, d + 1)  i == s[d].next
  <2>1. d \in 1 .. Len(s) + 1 /\ d + 1 \in 1 .. Len(s) + 1 /\ (d + 1) - 1 = d /\ i \in Nat
    BY <1>1
  <2>2. /\ u \in Seq(Nat) /\ Len(u) = d - 1 /\ v \in Seq(Nat) /\ Len(v) = d
        /\ \A k \in 1 .. d - 1 : u[k] = s[k].next
        /\ \A k \in 1 .. d : v[k] = s[k].next
    <3>1. u \in Seq(Nat) /\ Len(u) = d - 1 /\ v \in Seq(Nat) /\ Len(v) = d
      BY <1>2, <2>1
    <3>2. \A k \in 1 .. d - 1 : u[k] = s[k].next
      BY DEF PlaceIn
    <3>3. \A k \in 1 .. d : v[k] = s[k].next
      BY <2>1 DEF PlaceIn
    <3> QED BY <3>1, <3>2, <3>3
  <2> HIDE DEF u, v
  <2>3. /\ Append(u, i) \in Seq(Nat) /\ Len(Append(u, i)) = d
        /\ \A k \in 1 .. d : Append(u, i)[k] = IF k <= d - 1 THEN u[k] ELSE i
    BY <2>1, <2>2
  <2>4. \A k \in 1 .. d : Append(u, i)[k] = v[k]
    <3> SUFFICES ASSUME NEW k \in 1 .. d PROVE Append(u, i)[k] = v[k]
      OBVIOUS
    <3>1. CASE k = d
      <4>1. ~(k <= d - 1) /\ v[k] = s[d].next
        BY <2>2, <3>1
      <4>2. Append(u, i)[k] = i
        <5> HIDE DEF i
        <5> QED BY <2>3, <4>1
      <4> QED BY <4>1, <4>2
    <3>2. CASE k # d
      <4>1. k <= d - 1 /\ k \in 1 .. d - 1
        BY <3>2
      <4> HIDE DEF i
      <4> QED BY <2>2, <2>3, <4>1
    <3> QED BY <3>1, <3>2
  <2>5. v = Append(u, i)
    <3> HIDE DEF i
    <3> QED BY <2>2, <2>3, <2>4, SeqEqual
  <2> QED BY <2>5 DEF u, v
<1> QED BY <1>2, <1>3, <1>4

\* Stacks with the same frames up to n.
LEMMA SameFrames ==
  ASSUME NEW s, NEW t, NEW n \in Nat, \A d \in 1 .. n : t[d] = s[d]
  PROVE  /\ \A d \in 1 .. n + 1 : PlaceIn(t, d) = PlaceIn(s, d)
         /\ \A d \in 1 .. n : (FrameIn(t, d) <=> FrameIn(s, d)) /\ After(t, d) = After(s, d)
<1>1. ASSUME NEW d \in 1 .. n + 1 PROVE PlaceIn(t, d) = PlaceIn(s, d)
  <2>1. \A k \in 1 .. d - 1 : t[k] = s[k]
    OBVIOUS
  <2> QED BY <2>1 DEF PlaceIn
<1>2. ASSUME NEW d \in 1 .. n PROVE (FrameIn(t, d) <=> FrameIn(s, d)) /\ After(t, d) = After(s, d)
  <2>1. d \in 1 .. n + 1 /\ t[d] = s[d]
    OBVIOUS
  <2>2. PlaceIn(t, d) = PlaceIn(s, d)
    BY <1>1, <2>1
  <2> QED BY <2>1, <2>2 DEF FrameIn, After
<1> QED BY <1>1, <1>2

\* What is within the multicall fits.
LEMMA Inside ==
  ASSUME prog \in Programs, NEW p \in Seq(Nat), Within(Whole, p)
  PROVE  Fit(At(Whole, p)) /\ p \in Places
<1>1. FitsIn(Whole, Depth) /\ Depth \in Nat /\ Len(p) \in Nat
  BY WholeFits, BoundsAssumption
<1>2. Len(p) <= Depth /\ p \in Places /\ FitsIn(At(Whole, p), Depth - Len(p))
  BY <1>1, Fitting DEF Places
<1>3. Depth - Len(p) \in 0 .. Depth
  BY <1>1, <1>2
<1> QED BY <1>2, <1>3 DEF Fit

\* The calls of a frame.
CallsIn(s, d) ==
  LET p == PlaceIn(s, d)  f == s[d]  c == At(Whole, p) IN
  /\ p \in Seq(Nat) /\ p \in Places /\ Fit(c) /\ IsGroup(c) /\ f.calls = c.calls
  /\ Len(f.calls) \in 0 .. Width /\ DOMAIN f.calls = 1 .. Len(f.calls)
  /\ \A i \in DOMAIN f.calls :
       /\ i \in Nat /\ Append(p, i) \in Seq(Nat) /\ Fit(f.calls[i])
       /\ At(Whole, Append(p, i)) = f.calls[i] /\ Within(Whole, Append(p, i))

\* They are calls of the multicall that fit.
LEMMA FrameCalls ==
  ASSUME prog \in Programs, NEW s \in Seq(Frames), NEW d \in 1 .. Len(s), FrameIn(s, d)
  PROVE  CallsIn(s, d)
<1> DEFINE p == PlaceIn(s, d)  f == s[d]  c == At(Whole, p)
<1>1. p \in Seq(Nat)
  <2>1. d \in 1 .. Len(s) + 1
    OBVIOUS
  <2> QED BY <2>1, Place
<1>2. Within(Whole, p) /\ IsGroup(c) /\ f.calls = c.calls
  BY DEF FrameIn
<1> HIDE DEF p, f, c
<1>3. Fit(c) /\ p \in Places
  BY <1>1, <1>2, Inside DEF c
<1>4. CallOk(c) /\ \A i \in DOMAIN c.calls : i \in Nat /\ Fit(c.calls[i])
  BY <1>3, FitCalls
<1>5. Len(f.calls) \in 0 .. Width /\ DOMAIN f.calls = 1 .. Len(f.calls)
  BY <1>2, <1>4 DEF CallOk
<1>6. ASSUME NEW i \in DOMAIN f.calls
      PROVE  /\ i \in Nat /\ Append(p, i) \in Seq(Nat) /\ Fit(f.calls[i])
             /\ At(Whole, Append(p, i)) = f.calls[i] /\ Within(Whole, Append(p, i))
  <2>1. i \in Nat /\ Fit(f.calls[i]) /\ i \in DOMAIN c.calls
    BY <1>2, <1>4
  <2>2. At(Whole, Append(p, i)) = At(Whole, p).calls[i]
    BY <1>1, <2>1, AtStep
  <2>3. Within(Whole, Append(p, i)) <=> Within(Whole, p) /\ i \in DOMAIN At(Whole, p).calls
    BY <1>1, <2>1, WithinStep
  <2>4. Append(p, i) \in Seq(Nat)
    BY <1>1, <2>1
  <2> QED BY <1>2, <2>1, <2>2, <2>3, <2>4 DEF c
<1> QED BY <1>1, <1>2, <1>3, <1>5, <1>6 DEF CallsIn, p, f, c

\* A new frame.
LEMMA NewFrame ==
  ASSUME NEW r \in Places, Within(Whole, r), NEW calls, calls = At(Whole, r).calls,
         Len(calls) \in Nat, effects \subseteq LeavesOf(Whole)
  PROVE  /\ Frame(calls) \in Frames
         /\ Frame(calls).calls = calls /\ Frame(calls).next = 1 /\ Frame(calls).undo = effects
<1>1. [b \in 1 .. (Len(calls) + 7) \div 8 |-> {}] \in Seq(SUBSET Nat)
  <2>1. (Len(calls) + 7) \div 8 \in Nat
    <3> DEFINE l == Len(calls) + 7
    <3>1. l \in Nat
      OBVIOUS
    <3> HIDE DEF l
    <3>2. l \div 8 \in Nat
      BY <3>1
    <3> QED BY <3>2 DEF l
  <2> DEFINE n == (Len(calls) + 7) \div 8
  <2> HIDE DEF n
  <2>2. n \in Nat => [b \in 1 .. n |-> {}] \in Seq(SUBSET Nat)
    OBVIOUS
  <2> QED BY <2>1, <2>2 DEF n
<1>2. 1 \in 1 .. Width + 1
  BY BoundsAssumption
<1>3. calls \in {At(Whole, q).calls : q \in {q \in Places : Within(Whole, q)}}
  OBVIOUS
<1>4. effects \in SUBSET LeavesOf(Whole)
  OBVIOUS
<1> QED BY <1>1, <1>2, <1>3, <1>4 DEF Frame, Frames

\* A record of this form with two fields replaced.
LEMMA Updated ==
  ASSUME NEW A, NEW B, NEW C, NEW D, NEW f \in [calls : A, next : B, undo : C, bits : D],
         NEW n \in B, NEW m \in D
  PROVE  LET g == [f EXCEPT !.next = n, !.bits = m] IN
         /\ g \in [calls : A, next : B, undo : C, bits : D]
         /\ g.calls = f.calls /\ g.undo = f.undo /\ g.next = n
OBVIOUS

\* A frame after an answer.
LEMMA NextFrame ==
  ASSUME NEW f \in Frames, NEW a, f.next \in 1 .. Width
  PROVE  /\ Took(f, a) \in Frames /\ Took(f, a).calls = f.calls
         /\ Took(f, a).undo = f.undo /\ Took(f, a).next = f.next + 1
<1>1. /\ f = [calls |-> f.calls, next |-> f.next, undo |-> f.undo, bits |-> f.bits]
      /\ f.bits \in Seq(SUBSET Nat)
      /\ f.calls \in {At(Whole, q).calls : q \in {q \in Places : Within(Whole, q)}}
      /\ f.undo \in SUBSET LeavesOf(Whole)
  BY DEF Frames
<1>2. f.next + 1 \in 1 .. Width + 1 /\ f.next - 1 \in Nat
  BY BoundsAssumption
<1>3. BitOf(f.next - 1) \subseteq Nat
  <2> DEFINE i == f.next - 1
  <2>1. i \in Nat
    BY <1>2
  <2> HIDE DEF i
  <2>2. BitOf(i) \subseteq Nat
    BY <2>1 DEF BitOf
  <2> QED BY <2>2 DEF i
<1>4. Mark(f) \in Seq(SUBSET Nat)
  <2> DEFINE b == f.bits  x == BitOf(f.next - 1)  k == (f.next - 1) \div 8 + 1
  <2>1. Mark(f) = [b EXCEPT ![k] = b[k] \cup x]
    BY DEF Mark
  <2>2. b \in Seq(SUBSET Nat) /\ x \in SUBSET Nat
    BY <1>1, <1>3
  <2> HIDE DEF b, x, k
  <2>3. [b EXCEPT ![k] = b[k] \cup x] \in Seq(SUBSET Nat)
    <3> DEFINE c == [b EXCEPT ![k] = b[k] \cup x]
    <3>0. DOMAIN b = 1 .. Len(b)
      BY <2>2
    <3>1. DOMAIN c = 1 .. Len(b) /\ Len(b) \in Nat
      BY <2>2
    <3>2. \A j \in 1 .. Len(b) : c[j] = IF j = k THEN b[k] \cup x ELSE b[j]
      BY <3>0
    <3>3. \A j \in 1 .. Len(b) : b[j] \in SUBSET Nat
      BY <2>2
    <3>4. \A j \in 1 .. Len(b) : c[j] \in SUBSET Nat
      <4> SUFFICES ASSUME NEW j \in 1 .. Len(b) PROVE c[j] \in SUBSET Nat
        OBVIOUS
      <4> HIDE DEF c
      <4>1. b[j] \in SUBSET Nat
        BY <3>3
      <4>2. c[j] = IF j = k THEN b[k] \cup x ELSE b[j]
        BY <3>2
      <4>3. CASE j = k
        BY <2>2, <4>1, <4>2, <4>3
      <4> QED BY <4>1, <4>2, <4>3
    <3>5. c = [j \in 1 .. Len(b) |-> c[j]]
      BY <3>1
    <3> HIDE DEF c
    <3>6. c \in [1 .. Len(b) -> SUBSET Nat]
      BY <3>4, <3>5
    <3>7. c \in Seq(SUBSET Nat)
      BY <3>1, <3>6
    <3> QED BY <3>7 DEF c
  <2> QED BY <2>1, <2>3
<1> DEFINE m == IF a.ok THEN Mark(f) ELSE f.bits  n == f.next + 1
<1>5. m \in Seq(SUBSET Nat) /\ n \in 1 .. Width + 1
  BY <1>1, <1>2, <1>4
<1>6. Took(f, a) = [f EXCEPT !.next = n, !.bits = m]
  BY DEF Took
<1> HIDE DEF m, n
<1>7. LET g == [f EXCEPT !.next = n, !.bits = m] IN
      g \in Frames /\ g.calls = f.calls /\ g.undo = f.undo /\ g.next = n
  BY <1>5, Updated DEF Frames
<1> QED BY <1>6, <1>7 DEF n

\* The answers that are given are none of them NoAnswer.
LEMMA Answered ==
  /\ \A ok, bits, outs : Answer(ok, bits, outs, <<>>) # NoAnswer
  /\ \A ok, bits, outs : \A b \in Seq(Nat), k \in Nat \ {0} :
       Answer(ok, bits, outs, <<k>> \o b) # NoAnswer
<1>1. ASSUME NEW ok, NEW bits, NEW outs PROVE Answer(ok, bits, outs, <<>>) # NoAnswer
  <2>1. Answer(ok, bits, outs, <<>>).blame = <<>> /\ NoAnswer.blame = <<0>>
    BY DEF Answer, NoAnswer
  <2>2. <<>> # <<0>>
    OBVIOUS
  <2> QED BY <2>1, <2>2
<1>2. ASSUME NEW ok, NEW bits, NEW outs, NEW b \in Seq(Nat), NEW k \in Nat \ {0}
      PROVE  Answer(ok, bits, outs, <<k>> \o b) # NoAnswer
  <2> DEFINE x == <<k>> \o b
  <2>0. x = <<k>> \o b /\ <<>> \in Seq(Nat) /\ k \in Nat
    OBVIOUS
  <2> HIDE DEF x
  <2>1. x[1] = k
    <3>1. Conses(x, k, b, 0, <<>>)
      BY <2>0, ConsStarts
    <3> QED BY <3>1 DEF Conses
  <2> HIDE DEF x
  <2>2. x # <<0>>
    BY <2>1
  <2>3. Answer(ok, bits, outs, x).blame = x /\ NoAnswer.blame = <<0>>
    BY DEF Answer, NoAnswer
  <2>4. Answer(ok, bits, outs, x) # NoAnswer
    BY <2>2, <2>3
  <2> QED BY <2>4 DEF x
<1> QED BY <1>1, <1>2

-----------------------------------------------------------------------------
(* Culprits.                                                               *)

\* One index further out.
LEMMA BlocksCons ==
  ASSUME NEW c, NEW i \in Nat, NEW s \in Seq(Nat), NEW p \in Seq(Nat), NEW e \in 1 .. Len(s),
         Blocks(c.calls[i], Append(p, i), s, e)
  PROVE  Blocks(c, p, <<i>> \o s, e + 1)
<1> DEFINE r == <<i>> \o s  x == c.calls[i]  q == Append(p, i)  t == SubSeq(s, 1, e - 1)
<1>0. /\ e \in 0 .. Len(s) /\ e - 1 \in 0 .. Len(s) /\ (e - 1) + 1 = e /\ (e + 1) - 1 = e
      /\ 1 + e = e + 1 /\ Len(s) \in Nat /\ s[e] \in Nat
  OBVIOUS
<1>1. Conses(r, i, s, c, p)
  BY ConsStarts
<1>2. /\ <<i>> \in Seq(Nat) /\ Len(<<i>>) = 1 /\ t \in Seq(Nat) /\ q \in Seq(Nat)
  BY <1>0, Starts, Ends
<1>3. r[e + 1] = s[e]
  <2>1. \A d \in 1 .. Len(s) : r[1 + d] = s[d]
    BY <1>2, StartsJoined
  <2> HIDE DEF r
  <2> QED BY <1>0, <2>1
<1>4. At(c, SubSeq(r, 1, e + 1)) = At(x, SubSeq(s, 1, e)) /\ SubSeq(r, 1, e) = <<i>> \o t
  <2> HIDE DEF r, x, q
  <2>1. At(c, SubSeq(r, 1, e + 1)) = At(c.calls[i], SubSeq(s, 1, e))
    BY <1>0, <1>1 DEF Conses
  <2>2. SubSeq(r, 1, (e - 1) + 1) = <<i>> \o SubSeq(s, 1, e - 1)
    BY <1>0, <1>1 DEF Conses
  <2> QED BY <1>0, <2>1, <2>2 DEF x
<1>5. ASSUME NEW j \in Nat
      PROVE  /\ At(c, Append(<<i>> \o t, j)) = At(x, Append(t, j))
             /\ p \o Append(<<i>> \o t, j) = q \o Append(t, j)
  <2> DEFINE u == Append(t, j)
  <2>1. u \in Seq(Nat)
    BY <1>2
  <2>2. Append(<<i>> \o t, j) = <<i>> \o u
    <3>1. \A a, b, y \in Seq(Nat) : (a \o b) \o y = a \o (b \o y)
      BY ConcatAssociative, SMTT(60)
    <3>2. <<j>> \in Seq(Nat) /\ Append(t, j) = t \o <<j>>
      BY <1>2, Ends
    <3>3. <<i>> \o t \in Seq(Nat)
      BY <1>2, StartsJoined
    <3>4. Append(<<i>> \o t, j) = (<<i>> \o t) \o <<j>>
      BY <3>3, Ends
    <3>5. (<<i>> \o t) \o <<j>> = <<i>> \o (t \o <<j>>)
      BY <1>2, <3>1, <3>2
    <3> QED BY <3>2, <3>4, <3>5
  <2> HIDE DEF u, t
  <2>3. Conses(<<i>> \o u, i, u, c, p)
    BY <2>1, ConsStarts
  <2>4. p \o (<<i>> \o u) = q \o u
    BY <2>3 DEF Conses
  <2>5. At(c, <<i>> \o u) = At(x, u)
    BY <2>1, WithinStep
  <2> QED BY <2>2, <2>4, <2>5 DEF u
<1>6. /\ ~At(x, SubSeq(s, 1, e)).may
      /\ \A j \in 1 .. s[e] - 1 : ~Stops(At(x, Append(t, j)), q \o Append(t, j))
  BY DEF Blocks
<1> HIDE DEF r, x, q, t
<1>7. ~At(c, SubSeq(r, 1, e + 1)).may
  BY <1>4, <1>6
<1>8. ASSUME NEW j \in 1 .. r[e + 1] - 1
      PROVE  ~Stops(At(c, Append(SubSeq(r, 1, e), j)), p \o Append(SubSeq(r, 1, e), j))
  <2>1. j \in 1 .. s[e] - 1 /\ j \in Nat
    BY <1>0, <1>3
  <2>2. ~Stops(At(x, Append(t, j)), q \o Append(t, j))
    BY <1>6, <2>1
  <2> QED BY <1>4, <1>5, <2>1, <2>2
<1>9. Blocks(c, p, r, e + 1)
  BY <1>0, <1>7, <1>8 DEF Blocks
<1> QED BY <1>9 DEF r

\* The call of a group that stops it passes its culprit on.
LEMMA CulpritCons ==
  ASSUME NEW c, Fit(c), IsGroup(c), NEW p \in Seq(Nat), NEW i \in DOMAIN c.calls, NEW s,
         \A j \in 1 .. i - 1 : ~Stops(c.calls[j], Append(p, j)),
         ~c.calls[i].may, Culprit(c.calls[i], Append(p, i), s)
  PROVE  Culprit(c, p, <<i>> \o s)
<1> DEFINE r == <<i>> \o s  x == c.calls[i]
<1>1. i \in Nat /\ Fit(x) /\ s \in LeavesOf(x) /\ s \in Seq(Nat)
  BY FitCalls DEF Culprit
<1>2. r \in LeavesOf(c)
  BY <1>1, LeavesOfGroup
<1>3. Conses(r, i, s, c, p)
  BY <1>1, ConsStarts
<1>4. p \o r \in bad
  <2>1. p \o r = Append(p, i) \o s
    BY <1>3 DEF Conses
  <2>2. Append(p, i) \o s \in bad
    BY DEF Culprit
  <2> QED BY <2>1, <2>2
<1>5. Blocks(c, p, r, 1)
  <2>0. Len(s) \in Nat /\ 0 \in 0 .. Len(s) /\ 0 + 1 = 1 /\ 1 - 1 = 0 /\ <<>> \in Seq(Nat)
    BY <1>1
  <2> HIDE DEF r, x
  <2>1. At(c, SubSeq(r, 1, 1)) = At(c.calls[i], SubSeq(s, 1, 0)) /\ r[1] = i
    BY <2>0, <1>3 DEF Conses
  <2>2. At(c.calls[i], SubSeq(s, 1, 0)) = c.calls[i]
    <3>1. SubSeq(s, 1, 0) = <<>>
      <4>1. SubSeq(s, 1, 0) \in Seq(Nat) /\ Len(SubSeq(s, 1, 0)) = 0
        BY <1>1, <2>0, Starts
      <4> QED BY <4>1, EmptySeq
    <3> QED BY <1>1, <2>0, <3>1, AtStep
  <2>3. SubSeq(r, 1, 0) = <<>>
    <3>1. r \in Seq(Nat) /\ Len(r) = Len(s) + 1
      BY <1>3 DEF Conses
    <3>2. SubSeq(r, 1, 0) \in Seq(Nat) /\ Len(SubSeq(r, 1, 0)) = 0
      BY <2>0, <3>1, Starts
    <3> QED BY <3>2, EmptySeq
  <2>4. ASSUME NEW j \in 1 .. r[1] - 1
        PROVE  ~Stops(At(c, Append(SubSeq(r, 1, 0), j)), p \o Append(SubSeq(r, 1, 0), j))
    <3>1. j \in Nat /\ j \in 1 .. i - 1
      BY <1>1, <2>1
    <3>2. Append(<<>>, j) = <<j>> /\ Append(p, j) = p \o <<j>>
      <4>1. Append(<<>>, j) = <<>> \o <<j>> /\ <<j>> \in Seq(Nat)
        BY <2>0, <3>1, Ends
      <4>2. <<>> \o <<j>> = <<j>>
        BY <3>1, <4>1, Ends
      <4> QED BY <3>1, <4>1, <4>2, Ends
    <3>3. At(c, <<j>>) = c.calls[j]
      BY <2>0, <3>1, WithinStep
    <3>4. ~Stops(c.calls[j], Append(p, j))
      BY <3>1
    <3> QED BY <2>3, <3>2, <3>3, <3>4
  <2>5. ~At(c, SubSeq(r, 1, 1)).may
    BY <2>1, <2>2
  <2> QED BY <2>0, <2>4, <2>5 DEF Blocks
<1>6. ASSUME NEW d \in 1 .. Len(r) PROVE Blocks(c, p, r, d)
  <2>1. Len(r) = Len(s) + 1 /\ Len(s) \in Nat
    BY <1>1, <1>3 DEF Conses
  <2>2. CASE d = 1
    BY <1>5, <2>2
  <2>3. CASE d # 1
    <3> DEFINE e == d - 1
    <3>1. e \in 1 .. Len(s) /\ e + 1 = d
      BY <2>1, <2>3
    <3> HIDE DEF e
    <3>2. Blocks(x, Append(p, i), s, e)
      BY <3>1 DEF Culprit
    <3>3. Blocks(c, p, r, e + 1)
      BY <1>1, <3>1, <3>2, BlocksCons
    <3> QED BY <3>1, <3>3
  <2> QED BY <2>2, <2>3
<1> QED BY <1>2, <1>4, <1>6 DEF Culprit

\* A bad call that is no group is its own culprit.
LEMMA CulpritLeaf ==
  ASSUME NEW c, Fit(c), ~IsGroup(c), NEW p \in Seq(Nat), p \in bad
  PROVE  Culprit(c, p, <<>>)
<1>1. LeavesOf(c) = {<<>>} /\ p \o <<>> = p /\ \A d \in 1 .. Len(<<>>) : FALSE
  <2>1. 0 \in Nat /\ Len(<<>>) = 0
    OBVIOUS
  <2> QED BY <2>1, LeavesOfLeaf, Ends
<1> QED BY <1>1 DEF Culprit

\* What has a culprit fails.
LEMMA CulpritFails ==
  ASSUME NEW c, NEW p, NEW r, Culprit(c, p, r)
  PROVE  Fails(c, p)
BY DEF Culprit, Blocks, Fails

-----------------------------------------------------------------------------
(* Stacks.                                                                 *)

\* Without the innermost frame.
LEMMA Popped ==
  ASSUME NEW s, StackIn(s), s # <<>>
  PROVE  LET t == SubSeq(s, 1, Len(s) - 1) IN
         /\ t \in Seq(Frames) /\ Len(t) = Len(s) - 1 /\ Len(s) \in Nat \ {0}
         /\ \A d \in 1 .. Len(t) : t[d] = s[d]
         /\ StackIn(t)
         /\ \A d \in 1 .. Len(t) : After(t, d) = After(s, d)
         /\ \A d \in 1 .. Len(s) : PlaceIn(t, d) = PlaceIn(s, d)
<1> DEFINE t == SubSeq(s, 1, Len(s) - 1)  n == Len(s) - 1
<1>1. s \in Seq(Frames) /\ Len(s) \in Nat \ {0} /\ n \in Nat /\ n + 1 = Len(s)
  <2>1. s \in Seq(Frames)
    BY DEF StackIn
  <2> QED BY <2>1
<1>2. t \in Seq(Frames) /\ Len(t) = n /\ \A d \in 1 .. n : t[d] = s[d]
  <2>1. \A k \in 1 .. Len(s) : s[k] \in Frames
    BY <1>1
  <2> QED BY <1>1, <2>1
<1> HIDE DEF t, n
<1>3. /\ \A d \in 1 .. n + 1 : PlaceIn(t, d) = PlaceIn(s, d)
      /\ \A d \in 1 .. n : (FrameIn(t, d) <=> FrameIn(s, d)) /\ After(t, d) = After(s, d)
  BY <1>1, <1>2, SameFrames
<1>4. \A d \in 1 .. n : FrameIn(t, d)
  BY <1>1, <1>3 DEF StackIn
<1>5. t # <<>> => t[1].undo = {} /\ sender = "owner"
  <2> SUFFICES ASSUME t # <<>> PROVE t[1].undo = {} /\ sender = "owner"
    OBVIOUS
  <2>1. 1 \in 1 .. n
    <3>1. Len(t) # 0
      BY <1>2, EmptySeq
    <3> QED BY <1>1, <1>2, <3>1
  <2>2. t[1] = s[1]
    BY <1>2, <2>1
  <2> QED BY <2>2 DEF StackIn
<1>6. \A d \in 1 .. n - 1 : t[d].next \in DOMAIN t[d].calls /\ t[d + 1].undo = After(t, d)
  <2> SUFFICES ASSUME NEW d \in 1 .. n - 1
               PROVE  t[d].next \in DOMAIN t[d].calls /\ t[d + 1].undo = After(t, d)
    OBVIOUS
  <2>1. d \in 1 .. n /\ d + 1 \in 1 .. n /\ d \in 1 .. Len(s) - 1
    BY <1>1
  <2>2. s[d].next \in DOMAIN s[d].calls /\ s[d + 1].undo = After(s, d)
    BY <2>1 DEF StackIn
  <2> QED BY <1>2, <1>3, <2>1, <2>2
<1>7. StackIn(t)
  BY <1>2, <1>4, <1>5, <1>6 DEF StackIn
<1> QED BY <1>1, <1>2, <1>3, <1>7 DEF t, n

\* With another frame on top.
LEMMA Pushed ==
  ASSUME NEW s, StackIn(s), NEW f \in Frames, f.next = 1, sender = "owner",
         Within(Whole, PlaceIn(s, Len(s) + 1)), IsGroup(At(Whole, PlaceIn(s, Len(s) + 1))),
         f.calls = At(Whole, PlaceIn(s, Len(s) + 1)).calls, Len(f.calls) \in Nat,
         s = <<>> => f.undo = {},
         s # <<>> => /\ s[Len(s)].next \in DOMAIN s[Len(s)].calls
                     /\ f.undo = After(s, Len(s))
  PROVE  LET t == Append(s, f) IN
         StackIn(t) /\ Len(t) = Len(s) + 1 /\ t[Len(t)] = f /\ t # <<>> /\ After(t, Len(t)) = f.undo
<1> DEFINE t == Append(s, f)  n == Len(s)
<1>1. s \in Seq(Frames) /\ n \in Nat
  <2>1. s \in Seq(Frames)
    BY DEF StackIn
  <2> QED BY <2>1
<1>2. /\ t \in Seq(Frames) /\ Len(t) = n + 1 /\ t[n + 1] = f
      /\ \A d \in 1 .. n : t[d] = s[d]
  BY <1>1
<1>0. t # <<>>
  <2>1. Len(t) # 0
    BY <1>1, <1>2
  <2> HIDE DEF t
  <2> QED BY <2>1, <1>2, EmptySeq
<1> HIDE DEF t
<1>3. /\ \A d \in 1 .. n + 1 : PlaceIn(t, d) = PlaceIn(s, d)
      /\ \A d \in 1 .. n : (FrameIn(t, d) <=> FrameIn(s, d)) /\ After(t, d) = After(s, d)
  <2> HIDE DEF n
  <2> QED BY <1>1, <1>2, SameFrames
<1>4. PlaceIn(t, n + 1) = PlaceIn(s, Len(s) + 1)
  BY <1>1, <1>3
<1>5. FrameIn(t, n + 1)
  <2>1. 1 \in 1 .. Len(f.calls) + 1 /\ 1 .. 1 - 1 = {}
    OBVIOUS
  <2> HIDE DEF n
  <2> QED BY <1>2, <1>4, <2>1 DEF FrameIn
<1>6. ASSUME NEW d \in 1 .. n + 1 PROVE FrameIn(t, d)
  <2>1. CASE d = n + 1
    BY <1>5, <2>1
  <2>2. CASE d # n + 1
    <3>1. d \in 1 .. n
      BY <1>1, <2>2
    <3> QED BY <1>3, <3>1 DEF StackIn
  <2> QED BY <2>1, <2>2
<1>7. t[1].undo = {}
  <2>1. CASE n = 0
    <3>1. s = <<>> /\ n + 1 = 1
      BY <1>1, <2>1, EmptySeq
    <3> QED BY <1>2, <3>1
  <2>2. CASE n # 0
    <3>1. 1 \in 1 .. n /\ s # <<>>
      BY <1>1, <2>2
    <3> QED BY <1>2, <3>1 DEF StackIn
  <2> QED BY <2>1, <2>2
<1>8. ASSUME NEW d \in 1 .. (n + 1) - 1
      PROVE  t[d].next \in DOMAIN t[d].calls /\ t[d + 1].undo = After(t, d)
  <2>0. d \in 1 .. n /\ t[d] = s[d] /\ After(t, d) = After(s, d)
    <3>1. d \in 1 .. n
      BY <1>1
    <3> QED BY <1>2, <1>3, <3>1
  <2>1. CASE d = n
    <3>1. s # <<>>
      BY <1>1, <2>0
    <3> QED BY <1>2, <2>0, <2>1, <3>1
  <2>2. CASE d # n
    <3>1. d \in 1 .. n - 1 /\ d + 1 \in 1 .. n
      BY <1>1, <2>0, <2>2
    <3>2. t[d + 1] = s[d + 1]
      BY <1>2, <3>1
    <3> QED BY <2>0, <3>1, <3>2 DEF StackIn
  <2> QED BY <2>1, <2>2
<1>9. After(t, n + 1) = f.undo
  <2>1. t[n + 1].next = 1 /\ 1 .. 1 - 1 = {} /\ t[n + 1].undo = f.undo
    BY <1>2
  <2> HIDE DEF n
  <2> QED BY <2>1 DEF After
<1>10. StackIn(t)
  BY <1>0, <1>2, <1>6, <1>7, <1>8 DEF StackIn
<1> QED BY <1>0, <1>2, <1>9, <1>10 DEF t

\* With the innermost frame at its next call.
LEMMA Stepped ==
  ASSUME prog \in Programs, NEW s, StackIn(s), s # <<>>, NEW f \in Frames,
         f.calls = s[Len(s)].calls, f.undo = s[Len(s)].undo, f.next = s[Len(s)].next + 1,
         s[Len(s)].next \in DOMAIN s[Len(s)].calls,
         ~Stops(s[Len(s)].calls[s[Len(s)].next], Append(PlaceIn(s, Len(s)), s[Len(s)].next))
  PROVE  LET t == Append(SubSeq(s, 1, Len(s) - 1), f) IN
         /\ StackIn(t) /\ Len(t) = Len(s) /\ t # <<>>
         /\ After(t, Len(s)) =
              After(s, Len(s)) \cup
                Meaning(s[Len(s)].calls[s[Len(s)].next], Append(PlaceIn(s, Len(s)), s[Len(s)].next))
<1> DEFINE b == SubSeq(s, 1, Len(s) - 1)  t == Append(b, f)  n == Len(s) - 1
           g == s[Len(s)]  p == PlaceIn(s, Len(s))  k == g.next
<1>1. /\ b \in Seq(Frames) /\ Len(b) = n /\ n \in Nat /\ n + 1 = Len(s) /\ s \in Seq(Frames)
      /\ \A d \in 1 .. n : b[d] = s[d]
      /\ \A d \in 1 .. n + 1 : PlaceIn(b, d) = PlaceIn(s, d)
  <2>1. /\ b \in Seq(Frames) /\ Len(b) = n /\ Len(s) \in Nat \ {0}
        /\ \A d \in 1 .. Len(b) : b[d] = s[d]
        /\ \A d \in 1 .. Len(s) : PlaceIn(b, d) = PlaceIn(s, d)
    BY Popped
  <2>2. s \in Seq(Frames) /\ n \in Nat /\ n + 1 = Len(s)
    BY <2>1 DEF StackIn
  <2> HIDE DEF b, n
  <2> QED BY <2>1, <2>2
<1> HIDE DEF b
<1>2. /\ t \in Seq(Frames) /\ Len(t) = n + 1 /\ t[n + 1] = f
      /\ \A d \in 1 .. n : t[d] = s[d]
  BY <1>1
<1> HIDE DEF t
<1>3. /\ \A d \in 1 .. n + 1 : PlaceIn(t, d) = PlaceIn(s, d)
      /\ \A d \in 1 .. n : (FrameIn(t, d) <=> FrameIn(s, d)) /\ After(t, d) = After(s, d)
  <2> HIDE DEF n
  <2> QED BY <1>1, <1>2, SameFrames
<1>0. t # <<>>
  <2>1. Len(t) # 0
    BY <1>1, <1>2
  <2> QED BY <2>1, <1>2, EmptySeq
<1>4. PlaceIn(t, n + 1) = p /\ g = s[n + 1]
  BY <1>1, <1>3
<1>5. FrameIn(s, n + 1) /\ n + 1 \in 1 .. Len(s)
  <2>1. n + 1 \in 1 .. Len(s)
    BY <1>1
  <2> HIDE DEF n
  <2> QED BY <2>1 DEF StackIn
<1>6. k \in DOMAIN g.calls /\ DOMAIN g.calls = 1 .. Len(g.calls) /\ Len(g.calls) \in Nat
  <2>1. CallsIn(s, n + 1)
    <3> HIDE DEF n
    <3> QED BY <1>1, <1>5, FrameCalls
  <2>2. DOMAIN g.calls = 1 .. Len(g.calls) /\ Len(g.calls) \in 0 .. Width
    <3> HIDE DEF n, g
    <3> QED BY <1>4, <2>1 DEF CallsIn
  <2> QED BY <2>2, BoundsAssumption
<1> HIDE DEF n, p, g, k
<1>7. /\ Within(Whole, p) /\ IsGroup(At(Whole, p)) /\ g.calls = At(Whole, p).calls
      /\ \A i \in 1 .. k - 1 : ~Stops(g.calls[i], Append(p, i))
  <2>1. PlaceIn(s, n + 1) = p
    BY <1>1 DEF p
  <2> QED BY <1>4, <1>5, <2>1 DEF FrameIn, k
<1>8. ~Stops(g.calls[k], Append(p, k)) /\ f.next = k + 1 /\ f.calls = g.calls /\ f.undo = g.undo
  BY DEF g, p, k
<1>9. FrameIn(t, n + 1)
  <2>1. k + 1 \in 1 .. Len(g.calls) + 1 /\ k \in Nat
    BY <1>6
  <2>2. ASSUME NEW i \in 1 .. (k + 1) - 1 PROVE ~Stops(g.calls[i], Append(p, i))
    <3>1. i = k \/ i \in 1 .. k - 1
      BY <2>1
    <3> QED BY <1>7, <1>8, <3>1
  <2> QED BY <1>2, <1>4, <1>7, <1>8, <2>1, <2>2 DEF FrameIn
<1>10. ASSUME NEW d \in 1 .. n + 1 PROVE FrameIn(t, d)
  <2>1. CASE d = n + 1
    BY <1>9, <2>1
  <2>2. CASE d # n + 1
    <3>1. d \in 1 .. n /\ d \in 1 .. Len(s)
      BY <1>1, <2>2
    <3> QED BY <1>3, <3>1 DEF StackIn
  <2> QED BY <2>1, <2>2
<1>11. t[1].undo = {} /\ sender = "owner"
  <2>1. t[1].undo = s[1].undo
    <3>1. CASE n = 0
      <4>1. t[1] = f /\ s[1] = g
        BY <1>1, <1>2, <1>4, <3>1
      <4> QED BY <1>8, <4>1
    <3>2. CASE n # 0
      <4>1. 1 \in 1 .. n
        BY <1>1, <3>2
      <4> QED BY <1>2, <4>1
    <3> QED BY <3>1, <3>2
  <2> QED BY <2>1 DEF StackIn
<1>12. ASSUME NEW d \in 1 .. (n + 1) - 1
       PROVE  t[d].next \in DOMAIN t[d].calls /\ t[d + 1].undo = After(t, d)
  <2>1. d \in 1 .. n /\ t[d] = s[d] /\ After(t, d) = After(s, d) /\ d \in 1 .. Len(s) - 1
    <3>1. d \in 1 .. n /\ d \in 1 .. Len(s) - 1
      BY <1>1
    <3> QED BY <1>2, <1>3, <3>1
  <2>2. t[d + 1].undo = s[d + 1].undo
    <3>1. CASE d = n
      BY <1>2, <1>4, <1>8, <3>1
    <3>2. CASE d # n
      <4>1. d + 1 \in 1 .. n
        BY <1>1, <2>1, <3>2
      <4> QED BY <1>2, <4>1
    <3> QED BY <3>1, <3>2
  <2> QED BY <2>1, <2>2 DEF StackIn
<1>13. StackIn(t)
  BY <1>0, <1>1, <1>2, <1>10, <1>11, <1>12 DEF StackIn
<1>14. After(t, n + 1) = After(s, n + 1) \cup Meaning(g.calls[k], Append(p, k))
  <2> DEFINE M(i) == Meaning(g.calls[i], Append(p, i))
  <2>1. 1 .. (k + 1) - 1 = (1 .. k - 1) \cup {k}
    BY <1>6
  <2>2. After(t, n + 1) = g.undo \cup UNION {M(i) : i \in 1 .. (k + 1) - 1}
    BY <1>2, <1>4, <1>8 DEF After
  <2>3. After(s, n + 1) = g.undo \cup UNION {M(i) : i \in 1 .. k - 1}
    <3>1. PlaceIn(s, n + 1) = p
      BY <1>1 DEF p
    <3> QED BY <1>4, <3>1 DEF After, k
  <2> HIDE DEF M
  <2>4. After(t, n + 1) = After(s, n + 1) \cup M(k)
    BY <2>1, <2>2, <2>3
  <2> QED BY <2>4 DEF M
<1> QED BY <1>0, <1>1, <1>2, <1>13, <1>14 DEF t, b, g, p, k

-----------------------------------------------------------------------------
(* The steps.                                                              *)

\* The multicall, what fails and who calls stay.
LEMMA Primed ==
  ASSUME UNCHANGED <<prog, bad, sender>>, Inv(stack', ret', effects')
  PROVE  IInv'
<1>1. Whole' = Whole
  BY DEF Whole
<1>2. \A c, p : Fails(c, p)' <=> Fails(c, p)
  BY DEF Fails
<1>3. \A c, p : Stops(c, p)' <=> Stops(c, p)
  BY <1>2 DEF Stops
<1>4. \A c, p : Meaning(c, p)' = Meaning(c, p)
  BY <1>2 DEF Meaning
<1>5. \A s, d : After(s, d)' = After(s, d)
  BY <1>4 DEF After
<1>6. \A s, d : FrameIn(s, d)' <=> FrameIn(s, d)
  BY <1>1, <1>3 DEF FrameIn
<1>7. Frames' = Frames
  BY <1>1 DEF Frames
<1>8. \A s : StackIn(s)' <=> StackIn(s)
  BY <1>5, <1>6, <1>7 DEF StackIn
<1>9. \A c, p, r, d : Blocks(c, p, r, d)' <=> Blocks(c, p, r, d)
  BY <1>3 DEF Blocks
<1>10. \A c, p, r : Culprit(c, p, r)' <=> Culprit(c, p, r)
  BY <1>9 DEF Culprit
<1>11. \A a, e, c, p, b : Outcome(a, e, c, p, b)' <=> Outcome(a, e, c, p, b)
  BY <1>2, <1>4, <1>10 DEF Outcome
<1>12. \A s, a, e : AnswerIn(s, a, e)' <=> AnswerIn(s, a, e)
  BY <1>1, <1>5, <1>11 DEF AnswerIn
<1>13. \A s, a, e : Inv(s, a, e)' <=> Inv(s, a, e)
  BY <1>1, <1>8, <1>12 DEF Inv
<1> QED BY <1>13 DEF IInv

\* The innermost frame.
LEMMA Innermost ==
  ASSUME IInv, stack # <<>>
  PROVE  /\ stack \in Seq(Frames) /\ Len(stack) \in Nat \ {0} /\ Len(stack) \in 1 .. Len(stack)
         /\ FrameIn(stack, Len(stack)) /\ CallsIn(stack, Len(stack)) /\ Top \in Frames
         /\ Top = stack[Len(stack)] /\ Top.next \in Nat \ {0}
         /\ Path = Append(PlaceIn(stack, Len(stack)), Top.next)
         /\ Path = PlaceIn(stack, Len(stack) + 1)
         /\ prog \in Programs /\ sender = "owner"
<1>1. prog \in Programs /\ StackIn(stack)
  BY DEF IInv, Inv
<1>2. stack \in Seq(Frames) /\ sender = "owner"
  BY <1>1 DEF StackIn
<1>3. Len(stack) \in Nat \ {0} /\ Len(stack) \in 1 .. Len(stack) /\ DOMAIN stack = 1 .. Len(stack)
  BY <1>2
<1>4. FrameIn(stack, Len(stack))
  BY <1>1, <1>3 DEF StackIn
<1>5. CallsIn(stack, Len(stack))
  BY <1>1, <1>2, <1>3, <1>4, FrameCalls
<1>6. Top = stack[Len(stack)] /\ Top \in Frames
  BY <1>2, <1>3 DEF Top
<1>7. Top.next \in Nat \ {0}
  BY <1>6, BoundsAssumption DEF Frames
<1>8. Path = PlaceIn(stack, Len(stack) + 1)
  <2>1. (Len(stack) + 1) - 1 = Len(stack)
    BY <1>3
  <2> QED BY <1>3, <2>1 DEF Path, PlaceIn
<1>9. PlaceIn(stack, Len(stack) + 1) = Append(PlaceIn(stack, Len(stack)), stack[Len(stack)].next)
  BY <1>2, <1>3, Place
<1> QED BY <1>1, <1>2, <1>3, <1>4, <1>5, <1>6, <1>7, <1>8, <1>9

\* The current call is at the path.
LEMMA AtPath ==
  ASSUME IInv, stack # <<>>, Top.next \in DOMAIN Top.calls
  PROVE  /\ Fit(Current) /\ Path \in Seq(Nat) /\ Within(Whole, Path) /\ At(Whole, Path) = Current
         /\ Top.next \in 1 .. Width
<1>1. CallsIn(stack, Len(stack)) /\ Top = stack[Len(stack)] /\ Top.next \in Nat
      /\ Path = Append(PlaceIn(stack, Len(stack)), Top.next)
  BY Innermost
<1>2. Top.next \in 1 .. Width
  BY <1>1, BoundsAssumption DEF CallsIn
<1> QED BY <1>1, <1>2 DEF CallsIn, Current

\* The innermost multicall answers the frame below, or the transaction.
LEMMA Answers ==
  ASSUME IInv, stack # <<>>, NEW a, a # NoAnswer, NEW e, e \subseteq LeavesOf(Whole),
         Outcome(a, e, At(Whole, PlaceIn(stack, Len(stack))), PlaceIn(stack, Len(stack)), Top.undo)
  PROVE  Inv(Below, a, e)
<1> DEFINE n == Len(stack)  t == Below
<1>1. /\ stack \in Seq(Frames) /\ n \in Nat \ {0} /\ Top = stack[n] /\ sender = "owner"
      /\ prog \in Programs /\ StackIn(stack)
  <2>1. StackIn(stack)
    BY DEF IInv, Inv
  <2> QED BY <2>1, Innermost
<1>2. /\ t \in Seq(Frames) /\ Len(t) = n - 1 /\ StackIn(t)
      /\ \A d \in 1 .. n - 1 : t[d] = stack[d] /\ After(t, d) = After(stack, d)
      /\ \A d \in 1 .. n : PlaceIn(t, d) = PlaceIn(stack, d)
  <2>1. t = SubSeq(stack, 1, Len(stack) - 1)
    BY DEF Below
  <2> HIDE DEF t
  <2> QED BY <1>1, <2>1, Popped
<1> HIDE DEF t, n
<1>3. AnswerIn(t, a, e)
  <2>1. CASE n = 1
    <3>1. t = <<>>
      BY <1>2, <2>1, EmptySeq
    <3>2. PlaceIn(stack, n) = <<>> /\ At(Whole, <<>>) = Whole /\ Top.undo = {}
      <4>1. PlaceIn(stack, 1) = <<>>
        BY <1>1, Place
      <4>2. <<>> \in Seq(Nat) /\ 0 \in Nat
        OBVIOUS
      <4>3. stack[1].undo = {}
        BY <1>1 DEF StackIn
      <4> QED BY <1>1, <2>1, <4>1, <4>2, <4>3, AtStep
    <3>3. Outcome(a, e, Whole, <<>>, {})
      BY <3>2 DEF n
    <3> QED BY <1>1, <3>1, <3>3 DEF AnswerIn
  <2>2. CASE n # 1
    <3> DEFINE m == n - 1  f == stack[m]
    <3>1. m \in 1 .. n - 1 /\ m + 1 = n /\ m \in 1 .. n /\ m = Len(t) /\ m # 0
      BY <1>1, <1>2, <2>2
    <3>2. t # <<>>
      <4> HIDE DEF m
      <4> QED BY <1>2, <3>1, EmptySeq
    <3> HIDE DEF m
    <3>3. f.next \in DOMAIN f.calls /\ Top.undo = After(stack, m)
      BY <1>1, <3>1 DEF StackIn, n
    <3>4. PlaceIn(stack, n) = Append(PlaceIn(stack, m), f.next)
      <4>1. \A d \in 1 .. n : PlaceIn(stack, d + 1) = Append(PlaceIn(stack, d), stack[d].next)
        BY <1>1, Place DEF n
      <4> QED BY <3>1, <4>1
    <3>5. At(Whole, Append(PlaceIn(stack, m), f.next)) = f.calls[f.next]
      <4>1. FrameIn(stack, m) /\ m \in 1 .. Len(stack)
        BY <1>1, <3>1 DEF StackIn, n
      <4>2. CallsIn(stack, m)
        BY <1>1, <4>1, FrameCalls
      <4> QED BY <3>3, <4>2 DEF CallsIn
    <3>6. t[m] = f /\ After(t, m) = After(stack, m) /\ PlaceIn(t, m) = PlaceIn(stack, m)
      BY <1>2, <3>1
    <3> HIDE DEF f
    <3>7. Outcome(a, e, f.calls[f.next], Append(PlaceIn(t, m), f.next), After(t, m))
      <4>1. Outcome(a, e, At(Whole, PlaceIn(stack, n)), PlaceIn(stack, n), Top.undo)
        BY DEF n
      <4> QED BY <3>3, <3>4, <3>5, <3>6, <4>1
    <3> QED BY <3>1, <3>2, <3>3, <3>6, <3>7 DEF AnswerIn
  <2> QED BY <2>1, <2>2
<1>4. Inv(t, a, e)
  BY <1>2, <1>3 DEF IInv, Inv
<1> QED BY <1>4 DEF t

\* At first there is no frame and no effect.
LEMMA InitIInv == Init => IInv
<1> SUFFICES ASSUME Init PROVE IInv
  OBVIOUS
<1>1. StackIn(<<>>)
  <2>1. <<>> \in Seq(Frames) /\ Len(<<>>) = 0
    OBVIOUS
  <2> QED BY <2>1 DEF StackIn
<1>2. AnswerIn(<<>>, NoAnswer, {})
  BY DEF AnswerIn
<1> QED BY <1>1, <1>2 DEF Init, IInv, Inv

\* The owner's multicall begins with a frame of its calls.
LEMMA EnterIInv == IInv /\ Enter => IInv'
<1> SUFFICES ASSUME IInv, Enter PROVE IInv'
  OBVIOUS
<1> USE DEF Enter
<1>1. /\ prog \in Programs /\ StackIn(stack) /\ AnswerIn(stack, ret, effects) /\ effects = {}
      /\ sender = "owner"
  BY DEF IInv, Inv, AnswerIn, Admitted
<1> DEFINE f == Frame(prog)
<1>2. /\ FitsIn(Whole, Depth) /\ Fit(Whole) /\ IsGroup(Whole) /\ Whole.calls = prog
      /\ <<>> \in Seq(Nat)
  BY <1>1, WholeFits
<1>3. At(Whole, <<>>) = Whole /\ Within(Whole, <<>>) /\ <<>> \in Places /\ Len(prog) \in Nat
  <2>1. 0 \in Nat
    OBVIOUS
  <2>2. At(Whole, <<>>) = Whole /\ Within(Whole, <<>>)
    BY <1>2, <2>1, AtStep, WithinStep
  <2>3. CallOk(Whole)
    BY <1>2, FitCalls
  <2>4. Len(prog) \in Nat
    BY <1>2, <2>3, BoundsAssumption DEF CallOk
  <2> QED BY <1>1, <1>2, <2>2, <2>4, Inside
<1>4. f \in Frames /\ f.calls = prog /\ f.next = 1 /\ f.undo = effects
  BY <1>1, <1>2, <1>3, NewFrame
<1>5. PlaceIn(<<>>, Len(<<>>) + 1) = <<>>
  <2>1. <<>> \in Seq(Frames) /\ Len(<<>>) + 1 = 1
    OBVIOUS
  <2> QED BY <2>1, Place
<1> DEFINE t == Append(<<>>, f)
<1> HIDE DEF f
<1>6. StackIn(t) /\ t # <<>> /\ After(t, Len(t)) = f.undo
  <2> DEFINE s == <<>>
  <2>1. StackIn(s) /\ s = <<>> /\ PlaceIn(s, Len(s) + 1) = <<>>
    BY <1>1, <1>5
  <2> HIDE DEF s
  <2>2. LET u == Append(s, f) IN StackIn(u) /\ u # <<>> /\ After(u, Len(u)) = f.undo
    <3> DEFINE q == PlaceIn(s, Len(s) + 1)
    <3>1. q = <<>> /\ f.undo = {}
      BY <1>1, <1>4, <2>1
    <3>2. /\ Within(Whole, q) /\ IsGroup(At(Whole, q)) /\ f.calls = At(Whole, q).calls
          /\ Len(f.calls) \in Nat
      BY <1>2, <1>3, <1>4, <3>1
    <3>3. f \in Frames /\ f.next = 1 /\ sender = "owner"
      BY <1>1, <1>4
    <3>4. StackIn(s) /\ (s = <<>> => f.undo = {}) /\ ~(s # <<>>)
      BY <2>1, <3>1
    <3> QED BY ONLY <3>2, <3>3, <3>4, Pushed
  <2> QED BY <2>1, <2>2
<1>7. stack' = t
  BY DEF f
<1> HIDE DEF t
<1>8. AnswerIn(t, NoAnswer, effects)
  BY <1>1, <1>4, <1>6 DEF AnswerIn
<1>9. Inv(t, NoAnswer, effects)
  BY <1>6, <1>8 DEF IInv, Inv
<1> QED BY <1>7, <1>9, Primed

\* Who is refused has no effect.
LEMMA RefuseIInv == IInv /\ Refuse => IInv'
<1> SUFFICES ASSUME IInv, Refuse PROVE IInv'
  OBVIOUS
<1> USE DEF Refuse
<1>1. StackIn(stack) /\ effects = {} /\ sender # "owner"
  BY DEF IInv, Inv, AnswerIn, Admitted
<1>2. ret' # NoAnswer
  BY Answered
<1>3. ~ret'.ok
  BY DEF Answer
<1>4. AnswerIn(stack, ret', effects)
  BY <1>1, <1>2, <1>3 DEF AnswerIn
<1>5. Inv(stack, ret', effects)
  BY <1>4 DEF IInv, Inv
<1> QED BY <1>5, Primed

\* A call that is no group takes effect or is bad.
LEMMA DispatchIInv == IInv /\ Dispatch => IInv'
<1> SUFFICES ASSUME IInv, Dispatch PROVE IInv'
  OBVIOUS
<1> USE DEF Dispatch
<1> DEFINE n == Len(stack)
<1>1. stack # <<>> /\ ret = NoAnswer /\ Top.next <= Len(Top.calls)
  BY DEF Running, Working
<1>2. /\ stack \in Seq(Frames) /\ CallsIn(stack, n) /\ Top = stack[n] /\ Top.next \in Nat \ {0}
      /\ Path = Append(PlaceIn(stack, n), Top.next) /\ prog \in Programs
  BY <1>1, Innermost
<1> HIDE DEF n
<1>3. Top.next \in DOMAIN Top.calls
  BY <1>1, <1>2, BoundsAssumption DEF CallsIn
<1>4. Fit(Current) /\ Path \in Seq(Nat) /\ Within(Whole, Path) /\ At(Whole, Path) = Current
  BY <1>1, <1>3, AtPath
<1>5. effects = After(stack, n)
  BY <1>1 DEF IInv, Inv, AnswerIn, n
<1>6. ret' # NoAnswer /\ ret'.ok = (Path \notin bad) /\ ret'.blame = <<>>
  <2>1. ret' # NoAnswer
    BY Answered
  <2> QED BY <2>1 DEF Answer
<1>7. Outcome(ret', effects', Current, Path, After(stack, n))
  <2>1. CASE Path \in bad
    <3>1. ret'.ok = FALSE /\ effects' = effects
      BY <1>6, <2>1
    <3>2. Culprit(Current, Path, <<>>)
      BY <1>4, <2>1, CulpritLeaf
    <3> QED BY <1>5, <1>6, <3>1, <3>2 DEF Outcome
  <2>2. CASE Path \notin bad
    <3>1. ret'.ok = TRUE /\ effects' = effects \cup {Path}
      BY <1>6, <2>2
    <3>2. ~Fails(Current, Path) /\ Meaning(Current, Path) = {Path}
      BY <1>4, <2>2, LeafFails, LeafMeans
    <3> QED BY <1>5, <3>1, <3>2 DEF Outcome
  <2> QED BY <2>1, <2>2
<1>8. effects' \subseteq LeavesOf(Whole)
  <2>1. Path \in LeavesOf(Whole)
    BY <1>2, <1>4, WholeFits, FitCalls
  <2> QED BY <2>1 DEF IInv, Inv
<1>9. AnswerIn(stack, ret', effects')
  BY <1>1, <1>2, <1>3, <1>6, <1>7 DEF AnswerIn, n, Current
<1>10. Inv(stack, ret', effects')
  BY <1>8, <1>9 DEF IInv, Inv
<1> QED BY <1>10, Primed

\* A group begins: what takes effect so far is what it would undo to.
LEMMA DispatchGroupIInv == IInv /\ DispatchGroup => IInv'
<1> SUFFICES ASSUME IInv, DispatchGroup PROVE IInv'
  OBVIOUS
<1> USE DEF DispatchGroup
<1> DEFINE n == Len(stack)  f == Frame(Current.calls)  t == Append(stack, f)
<1>1. stack # <<>> /\ ret = NoAnswer /\ Top.next <= Len(Top.calls)
  BY DEF Running, Working
<1>2. /\ stack \in Seq(Frames) /\ CallsIn(stack, n) /\ Top = stack[n] /\ Top.next \in Nat \ {0}
      /\ Path = PlaceIn(stack, n + 1) /\ prog \in Programs /\ sender = "owner"
  BY <1>1, Innermost
<1> HIDE DEF n
<1>3. Top.next \in DOMAIN Top.calls
  BY <1>1, <1>2, BoundsAssumption DEF CallsIn
<1>4. Fit(Current) /\ Path \in Seq(Nat) /\ Within(Whole, Path) /\ At(Whole, Path) = Current
  BY <1>1, <1>3, AtPath
<1>5. effects = After(stack, n) /\ StackIn(stack) /\ effects \subseteq LeavesOf(Whole)
  BY <1>1 DEF IInv, Inv, AnswerIn, n
<1>6. Path \in Places /\ Len(Current.calls) \in Nat
  <2>1. CallOk(Current)
    BY <1>4, FitCalls
  <2> QED BY <1>2, <1>4, <2>1, Inside, BoundsAssumption DEF CallOk
<1>7. f \in Frames /\ f.calls = Current.calls /\ f.next = 1 /\ f.undo = effects
  BY <1>4, <1>5, <1>6, NewFrame
<1> HIDE DEF f
<1>8. StackIn(t) /\ t # <<>> /\ After(t, Len(t)) = f.undo
  <2>1. stack[n].next \in DOMAIN stack[n].calls /\ f.undo = After(stack, n) /\ IsGroup(Current)
    BY <1>2, <1>3, <1>5, <1>7
  <2> QED BY <1>1, <1>2, <1>4, <1>5, <1>6, <1>7, <2>1, Pushed DEF n
<1>9. stack' = t
  BY DEF f
<1> HIDE DEF t
<1>10. AnswerIn(t, NoAnswer, effects)
  BY <1>7, <1>8 DEF AnswerIn
<1>11. Inv(t, NoAnswer, effects)
  BY <1>8, <1>10 DEF IInv, Inv
<1> QED BY <1>1, <1>9, <1>11, Primed

\* A group whose calls are all made has the effects of its meaning.
LEMMA ReturnIInv == IInv /\ Return => IInv'
<1> SUFFICES ASSUME IInv, Return PROVE IInv'
  OBVIOUS
<1> USE DEF Return
<1> DEFINE n == Len(stack)  p == PlaceIn(stack, n)  c == At(Whole, p)
<1>1. stack # <<>> /\ ret = NoAnswer /\ Top.next > Len(Top.calls)
  BY DEF Working
<1>2. CallsIn(stack, n) /\ FrameIn(stack, n) /\ Top = stack[n] /\ Top.next \in Nat \ {0}
  BY <1>1, Innermost
<1>3. effects = After(stack, n) /\ effects \subseteq LeavesOf(Whole)
  BY <1>1 DEF IInv, Inv, AnswerIn
<1>4. /\ p \in Seq(Nat) /\ Fit(c) /\ IsGroup(c) /\ Top.calls = c.calls
      /\ Len(Top.calls) \in Nat /\ DOMAIN c.calls = 1 .. Len(Top.calls)
  BY <1>2, BoundsAssumption DEF CallsIn
<1>5. Top.next = Len(Top.calls) + 1
  <2>1. Top.next \in 1 .. Len(Top.calls) + 1
    BY <1>2 DEF FrameIn
  <2> QED BY <1>1, <1>4, <2>1
<1>6. 1 .. Top.next - 1 = DOMAIN c.calls
  <2>1. Top.next - 1 = Len(Top.calls)
    BY <1>4, <1>5
  <2> QED BY <1>4, <2>1
<1>7. \A i \in DOMAIN c.calls : ~Stops(c.calls[i], Append(p, i))
  BY <1>2, <1>4, <1>6 DEF FrameIn
<1>8. effects = Top.undo \cup UNION {Meaning(c.calls[i], Append(p, i)) : i \in DOMAIN c.calls}
  BY <1>2, <1>3, <1>4, <1>6 DEF After
<1> HIDE DEF p, c
<1>9. ~Fails(c, p)
  BY <1>4, <1>7, GroupFails
<1>10. Meaning(c, p) = UNION {Meaning(c.calls[i], Append(p, i)) : i \in DOMAIN c.calls}
  <2>1. \A e : e \in Meaning(c, p) <=>
          ~Fails(c, p) /\ \E i \in DOMAIN c.calls : e \in Meaning(c.calls[i], Append(p, i))
    BY <1>4, GroupMeans
  <2> DEFINE M(i) == Meaning(c.calls[i], Append(p, i))
             S == Meaning(c, p)
  <2>2. \A e : e \in S <=> \E i \in DOMAIN c.calls : e \in M(i)
    BY <1>9, <2>1
  <2> HIDE DEF M, S
  <2>3. S = UNION {M(i) : i \in DOMAIN c.calls}
    BY <2>2
  <2> QED BY <2>3 DEF M, S
<1>11. ret' # NoAnswer /\ ret'.ok = TRUE
  <2>1. ret' # NoAnswer
    BY Answered
  <2> QED BY <2>1 DEF Answer
<1>12. Outcome(ret', effects, c, p, Top.undo)
  BY <1>8, <1>9, <1>10, <1>11 DEF Outcome
<1>13. Inv(Below, ret', effects)
  BY <1>1, <1>3, <1>11, <1>12, Answers DEF c, p
<1> QED BY <1>13, Primed

\* The call just made, as the frame sees it.
LEMMA Answering ==
  ASSUME IInv, stack # <<>>, ret # NoAnswer
  PROVE  /\ Top.next \in DOMAIN Top.calls /\ ret.ok \in BOOLEAN
         /\ ret.ok => ~Fails(Current, Path)
                      /\ effects = After(stack, Len(stack)) \cup Meaning(Current, Path)
         /\ ~ret.ok => Culprit(Current, Path, ret.blame) /\ effects = After(stack, Len(stack))
<1>1. Top = stack[Len(stack)] /\ Path = Append(PlaceIn(stack, Len(stack)), Top.next)
  BY Innermost
<1>2. /\ Top.next \in DOMAIN Top.calls
      /\ Outcome(ret, effects, Top.calls[Top.next], Append(PlaceIn(stack, Len(stack)), Top.next),
                 After(stack, Len(stack)))
  BY <1>1 DEF IInv, Inv, AnswerIn
<1>3. Outcome(ret, effects, Current, Path, After(stack, Len(stack)))
  BY <1>1, <1>2 DEF Current
<1> QED BY <1>2, <1>3 DEF Outcome

\* The frame goes on after a call that did not stop it.
LEMMA ContinueIInv == IInv /\ Continue => IInv'
<1> SUFFICES ASSUME IInv, Continue PROVE IInv'
  OBVIOUS
<1> USE DEF Continue
<1> DEFINE n == Len(stack)  f == Took(Top, ret)  t == Append(Below, f)
<1>1. /\ Top.next \in DOMAIN Top.calls /\ ret.ok \in BOOLEAN
      /\ ret.ok => ~Fails(Current, Path) /\ effects = After(stack, n) \cup Meaning(Current, Path)
      /\ ~ret.ok => Culprit(Current, Path, ret.blame) /\ effects = After(stack, n)
  BY Answering
<1>2. /\ Top = stack[n] /\ Path = Append(PlaceIn(stack, n), Top.next) /\ Top \in Frames
      /\ prog \in Programs /\ StackIn(stack) /\ effects \subseteq LeavesOf(Whole)
  <2>1. StackIn(stack) /\ effects \subseteq LeavesOf(Whole)
    BY DEF IInv, Inv
  <2> QED BY <2>1, Innermost
<1>3. Fit(Current) /\ Path \in Seq(Nat) /\ Top.next \in 1 .. Width
  BY <1>1, AtPath
<1>4. f \in Frames /\ f.calls = Top.calls /\ f.undo = Top.undo /\ f.next = Top.next + 1
  BY <1>2, <1>3, NextFrame
<1>5. ~Stops(Current, Path)
  BY <1>1 DEF MayContinue, Stops
<1>6. effects = After(stack, n) \cup Meaning(Current, Path)
  <2>1. CASE ret.ok
    BY <1>1, <2>1
  <2>2. CASE ~ret.ok
    <3>1. Fails(Current, Path)
      BY <1>1, <2>2, CulpritFails
    <3>2. Meaning(Current, Path) = {}
      BY <1>3, <3>1, FailsMeans
    <3> QED BY <1>1, <2>2, <3>2
  <2> QED BY <2>1, <2>2
<1> HIDE DEF f, n
<1>7. StackIn(t) /\ Len(t) = n /\ t # <<>> /\ After(t, n) = effects
  <2>1. Current = stack[n].calls[stack[n].next] /\ Path = Append(PlaceIn(stack, n), stack[n].next)
        /\ t = Append(SubSeq(stack, 1, n - 1), f)
    BY <1>2 DEF Current, Below, n
  <2> HIDE DEF t
  <2>2. LET u == Append(SubSeq(stack, 1, n - 1), f) IN
        /\ StackIn(u) /\ Len(u) = n /\ u # <<>>
        /\ After(u, n) = After(stack, n) \cup Meaning(Current, Path)
    BY <1>1, <1>2, <1>4, <1>5, <2>1, Stepped DEF n
  <2> QED BY <1>6, <2>1, <2>2
<1>8. stack' = t /\ ret' = NoAnswer
  BY DEF f
<1> HIDE DEF t
<1>9. AnswerIn(t, NoAnswer, effects)
  BY <1>7 DEF AnswerIn
<1>10. Inv(t, NoAnswer, effects)
  BY <1>7, <1>9 DEF IInv, Inv
<1> QED BY <1>8, <1>10, Primed

\* The frame passes the culprit on and undoes its effects.
LEMMA RevertIInv == IInv /\ Revert => IInv'
<1> SUFFICES ASSUME IInv, Revert PROVE IInv'
  OBVIOUS
<1> USE DEF Revert
<1> DEFINE n == Len(stack)  p == PlaceIn(stack, n)  c == At(Whole, p)  i == Top.next
<1>1. i \in DOMAIN Top.calls /\ ~ret.ok /\ ~Current.may /\ Culprit(Current, Path, ret.blame)
  BY Answering DEF MayContinue
<1>2. /\ CallsIn(stack, n) /\ FrameIn(stack, n) /\ Top = stack[n] /\ i \in Nat \ {0}
      /\ Path = Append(p, i) /\ Top \in Frames
  BY Innermost
<1>3. p \in Seq(Nat) /\ Fit(c) /\ IsGroup(c) /\ Top.calls = c.calls
  BY <1>2 DEF CallsIn
<1>4. \A j \in 1 .. i - 1 : ~Stops(c.calls[j], Append(p, j))
  BY <1>2, <1>3 DEF FrameIn
<1>5. Current = c.calls[i] /\ i \in DOMAIN c.calls
  BY <1>1, <1>3 DEF Current
<1>6. ret.blame \in Seq(Nat)
  <2>1. Fit(Current)
    BY <1>1, AtPath
  <2> QED BY <1>1, <2>1, FitCalls DEF Culprit
<1> HIDE DEF p, c, i
<1>7. Culprit(c, p, <<i>> \o ret.blame)
  BY <1>1, <1>2, <1>3, <1>4, <1>5, CulpritCons
<1>8. ret' # NoAnswer /\ ret'.ok = FALSE /\ ret'.blame = <<i>> \o ret.blame
  <2>1. ret' = Answer(FALSE, <<>>, <<>>, <<i>> \o ret.blame)
    BY DEF Blame, i
  <2>2. ret' # NoAnswer
    BY <1>2, <1>6, <2>1, Answered
  <2> QED BY <2>1, <2>2 DEF Answer
<1>9. effects' = Top.undo /\ effects' \subseteq LeavesOf(Whole)
  BY <1>2 DEF Undone, Frames
<1>10. Outcome(ret', effects', c, p, Top.undo)
  BY <1>7, <1>8, <1>9 DEF Outcome
<1>11. Inv(Below, ret', effects')
  BY <1>8, <1>9, <1>10, Answers DEF c, p, n
<1> QED BY <1>11, Primed

-----------------------------------------------------------------------------
(* The theorems.                                                           *)

\* The invariant holds.
LEMMA Safety == Spec => []IInv
<1>1. IInv /\ [Next]_vars => IInv'
  <2> SUFFICES ASSUME IInv, [Next]_vars PROVE IInv'
    OBVIOUS
  <2>1. CASE UNCHANGED vars
    <3>1. Inv(stack', ret', effects')
      BY <2>1 DEF vars, IInv
    <3> QED BY <2>1, <3>1, Primed DEF vars
  <2> QED BY <2>1, EnterIInv, RefuseIInv, DispatchIInv, DispatchGroupIInv, ReturnIInv,
             ContinueIInv, RevertIInv DEF Next
<1> QED BY <1>1, InitIInv, PTL DEF Spec

\* Frames nest like the groups of the program, and only calls of the program
\* take effect.
THEOREM FramesNest == Spec => []TypeOK
<1>1. IInv => TypeOK
  <2> SUFFICES ASSUME IInv PROVE TypeOK
    OBVIOUS
  <2>1. /\ prog \in Programs /\ sender \in Senders /\ StackIn(stack)
        /\ effects \subseteq LeavesOf(Whole)
    BY DEF IInv, Inv
  <2>2. stack \in Seq(Frames) /\ DOMAIN stack = 1 .. Len(stack) /\ Len(stack) \in Nat
    <3>1. stack \in Seq(Frames)
      BY <2>1 DEF StackIn
    <3> QED BY <3>1
  <2>3. ASSUME NEW d \in DOMAIN stack
        PROVE  /\ stack[d].next \in 1 .. Len(stack[d].calls) + 1
               /\ d < Len(stack) => stack[d].calls[stack[d].next].calls = stack[d + 1].calls
    <3>1. d \in 1 .. Len(stack) /\ FrameIn(stack, d)
      BY <2>1, <2>2 DEF StackIn
    <3>2. ASSUME d < Len(stack)
          PROVE  stack[d].calls[stack[d].next].calls = stack[d + 1].calls
      <4>1. d \in 1 .. Len(stack) - 1 /\ d + 1 \in 1 .. Len(stack)
        BY <2>2, <3>1, <3>2
      <4>2. stack[d].next \in DOMAIN stack[d].calls /\ FrameIn(stack, d + 1)
        BY <2>1, <4>1 DEF StackIn
      <4>3. CallsIn(stack, d)
        BY <2>1, <2>2, <3>1, FrameCalls
      <4>4. PlaceIn(stack, d + 1) = Append(PlaceIn(stack, d), stack[d].next)
        BY <2>2, <3>1, Place
      <4>5. At(Whole, PlaceIn(stack, d + 1)) = stack[d].calls[stack[d].next]
        BY <4>2, <4>3, <4>4 DEF CallsIn
      <4> QED BY <4>2, <4>5 DEF FrameIn
    <3> QED BY <3>1, <3>2 DEF FrameIn
  <2> QED BY <2>1, <2>3, WholeFits DEF TypeOK
<1> QED BY <1>1, Safety, PTL

\* Executing frame by frame, with undo, has the effects of the meaning.
THEOREM MeaningExecuted == Spec => []ExecutesMeaning
<1>1. IInv => ExecutesMeaning
  <2> SUFFICES ASSUME IInv, Done
               PROVE  /\ effects = IF sender = "owner" THEN Meaning(Whole, <<>>) ELSE {}
                      /\ ret.ok <=> sender = "owner" /\ ~Fails(Whole, <<>>)
    BY DEF ExecutesMeaning
  <2>1. prog \in Programs /\ AnswerIn(stack, ret, effects)
    BY DEF IInv, Inv
  <2>2. CASE sender # "owner"
    <3>1. ~ret.ok /\ effects = {}
      BY <2>1, <2>2 DEF AnswerIn, Done
    <3> QED BY <2>2, <3>1
  <2>3. CASE sender = "owner"
    <3>1. Outcome(ret, effects, Whole, <<>>, {})
      BY <2>1, <2>3 DEF AnswerIn, Done
    <3>2. CASE ret.ok
      BY <2>3, <3>1, <3>2 DEF Outcome
    <3>3. CASE ~ret.ok
      <4>1. Fails(Whole, <<>>) /\ effects = {}
        BY <3>1, <3>3, CulpritFails DEF Outcome
      <4>2. Meaning(Whole, <<>>) = {}
        BY <2>1, <4>1, WholeFits, FailsMeans
      <4> QED BY <2>3, <3>3, <4>1, <4>2
    <3> QED BY <3>2, <3>3
  <2> QED BY <2>2, <2>3
<1> QED BY <1>1, Safety, PTL

\* Rust reads the revert that a call caused as one of that kind of call.
LEMMA Decoded ==
  ASSUME prog \in Programs, NEW b \in LeavesOf(Whole), At(Whole, b).kind # "balance"
  PROVE  DecodeReverted(prog, b) = At(Whole, b).kind
<1> DEFINE n == Len(b)  K == At(Whole, b).kind
           call(d) == At(Whole, SubSeq(b, 1, d))
           D(f, d) ==
             IF d = n THEN AbiError
             ELSE IF b[d + 1] \notin DOMAIN call(d).calls THEN IndexTooBig
             ELSE IF IsGroup(call(d + 1)) THEN f[d + 1]
             ELSE IF call(d + 1).kind = "balance" THEN WrongCommand
             ELSE call(d + 1).kind
           h == CHOOSE f : f = [d \in 0 .. n |-> D(f, d)]
<1>1. DecodeReverted(prog, b) = h[0]
  BY DEF DecodeReverted, Whole
<1>2. /\ b \in Seq(Nat) /\ Within(Whole, b) /\ ~IsGroup(At(Whole, b)) /\ IsGroup(Whole)
      /\ FitsIn(Whole, Depth) /\ Depth \in Nat
  BY WholeFits, FitCalls, BoundsAssumption
<1>3. n \in Nat /\ n # 0 /\ call(n) = At(Whole, b)
  <2>1. n \in Nat /\ SubSeq(b, 1, n) = b
    BY <1>2
  <2>2. ASSUME n = 0 PROVE FALSE
    <3>1. b = <<>> /\ <<>> \in Seq(Nat) /\ 0 \in Nat
      BY <1>2, <2>2, EmptySeq
    <3> QED BY <1>2, <3>1, AtStep
  <2> QED BY <2>1, <2>2
<1>4. \A d \in 0 .. n - 1 : b[d + 1] \in DOMAIN call(d).calls
  <2> SUFFICES ASSUME NEW d \in 0 .. n - 1 PROVE b[d + 1] \in DOMAIN call(d).calls
    OBVIOUS
  <2>1. d + 1 \in 1 .. n /\ (d + 1) - 1 = d
    BY <1>3
  <2>2. \A k \in 1 .. n : b[k] \in DOMAIN At(Whole, SubSeq(b, 1, k - 1)).calls
    BY <1>2 DEF Within
  <2> HIDE DEF n
  <2> QED BY <2>1, <2>2
<1>5. \A d \in 1 .. n - 1 : call(d).kind = "group"
  <2> SUFFICES ASSUME NEW d \in 1 .. n - 1 PROVE call(d).kind = "group"
    OBVIOUS
  <2>1. d \in 0 .. n - 1 /\ d \in 0 .. n
    BY <1>3
  <2>2. SubSeq(b, 1, d) \in Seq(Nat) /\ Within(Whole, SubSeq(b, 1, d))
    BY <1>2, <2>1, Starts, WithinStarts
  <2>3. CallOk(call(d))
    BY <1>2, <2>2, Fitting
  <2>4. b[d + 1] \in DOMAIN call(d).calls
    BY <1>4, <2>1
  <2> HIDE DEF call, n
  <2>5. call(d).calls # <<>>
    BY <2>4
  <2> QED BY <2>3, <2>5 DEF CallOk, IsGroup
<1> HIDE DEF call, n, K
<1>6. call(n).kind = K /\ K # "balance" /\ K # "group"
  BY <1>2, <1>3 DEF K, IsGroup
<1>7. \A f : /\ D(f, n - 1) = K
             /\ \A d \in 0 .. n - 2 : D(f, d) = f[d + 1]
  <2> SUFFICES ASSUME NEW f
               PROVE  D(f, n - 1) = K /\ \A d \in 0 .. n - 2 : D(f, d) = f[d + 1]
    OBVIOUS
  <2>1. D(f, n - 1) = K
    <3>1. n - 1 # n /\ n - 1 \in 0 .. n - 1 /\ (n - 1) + 1 = n
      BY <1>3
    <3>2. b[(n - 1) + 1] \in DOMAIN call(n - 1).calls
      BY <1>4, <3>1
    <3>3. call((n - 1) + 1).kind = K
      BY <1>6, <3>1
    <3> QED BY <1>6, <3>1, <3>2, <3>3 DEF IsGroup
  <2>2. ASSUME NEW d \in 0 .. n - 2 PROVE D(f, d) = f[d + 1]
    <3>1. d # n /\ d \in 0 .. n - 1 /\ d + 1 \in 1 .. n - 1
      BY <1>3
    <3>2. b[d + 1] \in DOMAIN call(d).calls /\ call(d + 1).kind = "group"
      BY <1>4, <1>5, <3>1
    <3> QED BY <3>1, <3>2 DEF IsGroup
  <2> QED BY <2>1, <2>2
<1>8. h = [d \in 0 .. n |-> D(h, d)]
  <2> DEFINE g == [d \in 0 .. n |-> IF d = n THEN AbiError ELSE K]
  <2>1. ASSUME NEW d \in 0 .. n PROVE g[d] = D(g, d)
    <3>1. CASE d = n
      BY <3>1
    <3>2. CASE d = n - 1
      <4>1. g[d] = K
        BY <1>3, <3>2
      <4> HIDE DEF g, D
      <4> QED BY <1>7, <3>2, <4>1
    <3>3. CASE d # n /\ d # n - 1
      <4>1. d \in 0 .. n - 2 /\ d + 1 \in 0 .. n /\ d + 1 # n
        BY <1>3, <3>3
      <4>2. g[d] = K /\ g[d + 1] = K
        BY <3>3, <4>1
      <4> HIDE DEF g, D
      <4>3. D(g, d) = g[d + 1]
        BY <1>7, <4>1
      <4> QED BY <4>2, <4>3
    <3> QED BY <3>1, <3>2, <3>3
  <2>2. g = [d \in 0 .. n |-> g[d]]
    OBVIOUS
  <2> HIDE DEF g, D
  <2>3. g = [d \in 0 .. n |-> D(g, d)]
    BY <2>1, <2>2
  <2> QED BY <2>3
<1> HIDE DEF h
<1>9. /\ h[n - 1] = K
      /\ \A d \in 0 .. n - 2 : h[d] = h[d + 1]
  <2>1. n - 1 \in 0 .. n /\ \A d \in 0 .. n - 2 : d \in 0 .. n
    BY <1>3
  <2>2. \A d \in 0 .. n : h[d] = D(h, d)
    <3> HIDE DEF D
    <3> QED BY <1>8
  <2> HIDE DEF D
  <2> QED BY <1>7, <2>1, <2>2
<1> DEFINE N == n - 1
           T == {k \in 0 .. N : h[N - k] = K}
<1>10. N \in Nat /\ N - N = 0 /\ N - 0 = N
  BY <1>3
<1>11. 0 \in T
  BY <1>9, <1>10
<1>12. \A k \in 0 .. N - 1 : k \in T => k + 1 \in T
  <2> SUFFICES ASSUME NEW k \in 0 .. N - 1, h[N - k] = K PROVE h[N - (k + 1)] = K
    BY <1>10
  <2>1. N - (k + 1) \in 0 .. n - 2 /\ (N - (k + 1)) + 1 = N - k
    BY <1>3
  <2> HIDE DEF N
  <2> QED BY <1>9, <2>1
<1>13. N \in T
  <2> HIDE DEF T, N
  <2>1. 0 .. N \subseteq T
    BY <1>10, <1>11, <1>12, SetInductionTo
  <2> QED BY <1>10, <2>1
<1>14. h[0] = K
  BY <1>10, <1>13
<1> QED BY <1>1, <1>14 DEF h, K

\* A revert blames the first call that fails and must not, through every group
\* on the way, and Rust reads it as one of that kind of call.
THEOREM CulpritBlamed == Spec => []BlamesTheCulprit
<1>1. IInv => BlamesTheCulprit
  <2> SUFFICES ASSUME IInv, Done, ~ret.ok, sender = "owner"
               PROVE  /\ ret.blame \in bad
                      /\ \A d \in 1 .. Len(ret.blame) :
                           LET around == SubSeq(ret.blame, 1, d - 1) IN
                           /\ ~At(Whole, SubSeq(ret.blame, 1, d)).may
                           /\ \A i \in 1 .. ret.blame[d] - 1 :
                                ~Stops(At(Whole, Append(around, i)), Append(around, i))
                      /\ DecodeReverted(prog, ret.blame) = At(Whole, ret.blame).kind
    BY DEF BlamesTheCulprit
  <2> DEFINE b == ret.blame
  <2>1. /\ prog \in Programs /\ AnswerIn(stack, ret, effects)
        /\ bad \subseteq {p \in LeavesOf(Whole) : At(Whole, p).kind # "balance"}
    BY DEF IInv, Inv
  <2>2. Culprit(Whole, <<>>, b)
    <3>1. Outcome(ret, effects, Whole, <<>>, {})
      BY <2>1 DEF AnswerIn, Done
    <3> QED BY <3>1 DEF Outcome
  <2> HIDE DEF b
  <2>3. b \in LeavesOf(Whole) /\ <<>> \o b \in bad /\ \A d \in 1 .. Len(b) : Blocks(Whole, <<>>, b, d)
    BY <2>2 DEF Culprit
  <2>4. b \in Seq(Nat) /\ <<>> \o b = b
    <3>1. b \in Seq(Nat) /\ 0 \in Nat
      BY <2>1, <2>3, WholeFits, FitCalls
    <3> QED BY <3>1, Ends
  <2>5. DecodeReverted(prog, b) = At(Whole, b).kind
    BY <2>1, <2>3, <2>4, Decoded
  <2>6. ASSUME NEW d \in 1 .. Len(b)
        PROVE  /\ ~At(Whole, SubSeq(b, 1, d)).may
               /\ \A i \in 1 .. b[d] - 1 :
                    ~Stops(At(Whole, Append(SubSeq(b, 1, d - 1), i)), Append(SubSeq(b, 1, d - 1), i))
    <3>1. Blocks(Whole, <<>>, b, d)
      BY <2>3
    <3>2. SubSeq(b, 1, d - 1) \in Seq(Nat) /\ b[d] \in Nat
      <4>1. d - 1 \in 0 .. Len(b) /\ b[d] \in Nat
        BY <2>4
      <4> QED BY <2>4, <4>1, Starts
    <3>3. \A i \in 1 .. b[d] - 1 :
            <<>> \o Append(SubSeq(b, 1, d - 1), i) = Append(SubSeq(b, 1, d - 1), i)
      <4> SUFFICES ASSUME NEW i \in 1 .. b[d] - 1
                   PROVE  <<>> \o Append(SubSeq(b, 1, d - 1), i) = Append(SubSeq(b, 1, d - 1), i)
        OBVIOUS
      <4> DEFINE u == Append(SubSeq(b, 1, d - 1), i)
      <4>1. u \in Seq(Nat) /\ 0 \in Nat
        BY <3>2
      <4> HIDE DEF u
      <4>2. <<>> \o u = u
        BY <4>1, Ends
      <4> QED BY <4>2 DEF u
    <3> QED BY <3>1, <3>3 DEF Blocks
  <2> QED BY <2>3, <2>4, <2>5, <2>6 DEF b
<1> QED BY <1>1, Safety, PTL

\* A group of one call may be replaced by that call.
THEOREM ReduceKept == Spec => []ReduceKeepsMeaning
<1>1. IInv => ReduceKeepsMeaning
  BY ReduceHolds DEF IInv, Inv
<1> QED BY <1>1, Safety, PTL

=============================================================================
