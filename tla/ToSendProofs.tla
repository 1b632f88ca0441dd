---------------------------- MODULE ToSendProofs ----------------------------
(***************************************************************************)
(* Proofs about ToSend, for any monitors, answers, fees and shapes of      *)
(* multicalls.                                                             *)
(*                                                                         *)
(* The first part is about the answers: every transaction gets its own     *)
(* logs, and converts faithfully.  The second proves that half of a plan   *)
(* is never sent: it is inductive with what a half plan looks like on the  *)
(* way, whose monitor is at that level, still has to add behind it and     *)
(* cannot return before it has.  The rest is about what is sent.  The      *)
(* maximal runs of one fee divide the list, `Sorted` orders them, and what *)
(* `Merge` makes of a run is known item by item.  The invariant SendInv    *)
(* says what every multicall offers and that the transactions are those of *)
(* an order of the runs; the properties are lemmas about such a state.     *)
(***************************************************************************)
EXTENDS ToSend, Induction

-----------------------------------------------------------------------------
(* The answers.                                                            *)

\* The leading logs of a transaction, and what is left, are the list; the first
\* that is left is another transaction's.
LEMMA LogsSplit ==
  ASSUME NEW S, NEW logs \in Seq(S), NEW i
  PROVE  /\ OwnLogs(logs, i) \in Seq(S) /\ LogsLeft(logs, i) \in Seq(S)
         /\ logs = OwnLogs(logs, i) \o LogsLeft(logs, i)
         /\ \A k \in DOMAIN OwnLogs(logs, i) : OwnLogs(logs, i)[k] = i
         /\ LogsLeft(logs, i) # <<>> => LogsLeft(logs, i)[1] # i
<1> DEFINE other == SelectInSeq(logs, LAMBDA l : l # i)
           Others == {k \in 1 .. Len(logs) : logs[k] # i}
<1>0. Len(logs) \in Nat /\ DOMAIN logs = 1 .. Len(logs)
  OBVIOUS
<1>1. other = IF Others # {} THEN Min(Others) ELSE 0
  BY DEF SelectInSeq
<1>2. \/ other = 0 /\ Others = {}
      \/ other \in Others /\ \A k \in Others : other <= k
  <2>1. ASSUME Others # {} PROVE other \in Others /\ \A k \in Others : other <= k
    <3>1. \E x \in Others : \A y \in Others : x <= y
      <4>1. Others \subseteq Nat
        OBVIOUS
      <4> HIDE DEF Others
      <4> QED BY <2>1, <4>1, Least
    <3>2. Min(Others) \in Others /\ \A k \in Others : Min(Others) <= k
      <4> HIDE DEF Others
      <4> QED BY <3>1 DEF Min
    <3> HIDE DEF other, Others
    <3> QED BY <1>1, <2>1, <3>2
  <2> HIDE DEF Others
  <2> QED BY <1>1, <2>1
<1> DEFINE p == IF other = 0 THEN Len(logs) ELSE other - 1
<1>3. /\ p \in 0 .. Len(logs)
      /\ \A k \in 1 .. p : logs[k] = i
      /\ p < Len(logs) => logs[p + 1] # i
  <2>1. CASE other = 0 /\ Others = {}
    BY <1>0, <2>1
  <2>2. CASE other \in Others /\ \A k \in Others : other <= k
    <3> HIDE DEF other
    <3>1. other \in 1 .. Len(logs) /\ logs[other] # i /\ p = other - 1 /\ p + 1 = other
      BY <2>2
    <3>2. ASSUME NEW k \in 1 .. p PROVE logs[k] = i
      <4>1. k \notin Others /\ k \in 1 .. Len(logs)
        BY <2>2, <3>1
      <4> QED BY <4>1
    <3> QED BY <1>0, <3>1, <3>2
  <2> HIDE DEF other, Others
  <2> QED BY <1>2, <2>1, <2>2
<1>4. OwnLogs(logs, i) = SubSeq(logs, 1, p)
  <2>1. SubSeq(logs, 1, Len(logs)) = logs
    BY <1>0
  <2> QED BY <2>1 DEF OwnLogs
<1> DEFINE own == SubSeq(logs, 1, p)
           rest == SubSeq(logs, p + 1, Len(logs))
<1> HIDE DEF p, other, Others
<1>5. own \in Seq(S) /\ Len(own) = p /\ \A k \in 1 .. p : own[k] = logs[k]
  BY <1>0, <1>3
<1>6. LogsLeft(logs, i) = rest
  BY <1>4, <1>5 DEF LogsLeft
<1>7. /\ rest \in Seq(S) /\ (rest # <<>> => p < Len(logs))
      /\ p < Len(logs) => rest[1] = logs[p + 1]
  <2>1. p \in Nat /\ p <= Len(logs)
    BY <1>0, <1>3
  <2>2. \A k \in p + 1 .. Len(logs) : logs[k] \in S
    BY <1>0, <2>1
  <2>3. /\ rest \in Seq(S)
        /\ \A k \in 1 .. Len(logs) - (p + 1) + 1 : rest[k] = logs[p + 1 + k - 1]
    BY <1>0, <2>1, <2>2, SubSeqProperties
  <2>4. p < Len(logs) => 1 \in 1 .. Len(logs) - (p + 1) + 1 /\ p + 1 + 1 - 1 = p + 1
    BY <1>0, <2>1
  <2>5. ~ (p < Len(logs)) => rest = <<>>
    BY <1>0, <2>1, SubSeqEmpty
  <2> QED BY <2>3, <2>4, <2>5
<1>8. logs = own \o rest
  <2>1. 1 \in 1 .. Len(logs) + 1 /\ p \in 1 - 1 .. Len(logs) /\ Len(logs) \in p .. Len(logs)
    BY <1>0, <1>3
  <2>2. own \o rest = SubSeq(logs, 1, Len(logs))
    BY <2>1, ConcatAdjacentSubSeq
  <2>3. SubSeq(logs, 1, Len(logs)) = logs
    BY <1>0
  <2> QED BY <2>2, <2>3
<1>9. \A k \in DOMAIN own : own[k] = i
  BY <1>3, <1>5
<1>10. rest # <<>> => rest[1] # i
  BY <1>0, <1>3, <1>7
<1> HIDE DEF own, rest
<1> QED BY <1>4, <1>5, <1>6, <1>7, <1>8, <1>9, <1>10 DEF own, rest

\* The same for the logs of a block.
LEMMA NatLogsSplit ==
  \A logs \in Seq(Nat) : \A i :
    LET own == OwnLogs(logs, i) rest == LogsLeft(logs, i) IN
    /\ own \in Seq(Nat) /\ rest \in Seq(Nat) /\ logs = own \o rest
    /\ rest # <<>> => rest[1] # i
BY LogsSplit

\* What joining two lists of logs does.
LEMMA NatConcat ==
  /\ \A s, t, u \in Seq(Nat) : s \o (t \o u) = (s \o t) \o u
  /\ \A s, t \in Seq(Nat) : /\ Len(s) \in Nat /\ Len(t) \in Nat
                            /\ DOMAIN t = 1 .. Len(t) /\ DOMAIN s = 1 .. Len(s)
                            /\ DOMAIN (s \o t) = 1 .. Len(s) + Len(t)
                            /\ \A k \in 1 .. Len(t) : t[k] = (s \o t)[Len(s) + k] /\ t[k] \in Nat
<1>1. ASSUME NEW s \in Seq(Nat), NEW t \in Seq(Nat), NEW u \in Seq(Nat)
      PROVE  s \o (t \o u) = (s \o t) \o u
  BY ConcatAssociative, SMTT(60)
<1>2. ASSUME NEW s \in Seq(Nat), NEW t \in Seq(Nat)
      PROVE  /\ Len(s) \in Nat /\ Len(t) \in Nat
             /\ DOMAIN t = 1 .. Len(t) /\ DOMAIN s = 1 .. Len(s)
             /\ DOMAIN (s \o t) = 1 .. Len(s) + Len(t)
             /\ \A k \in 1 .. Len(t) : t[k] = (s \o t)[Len(s) + k] /\ t[k] \in Nat
  <2>1. /\ s \o t \in Seq(Nat) /\ Len(s \o t) = Len(s) + Len(t)
        /\ \A i \in 1 .. Len(s) + Len(t) : (s \o t)[i] = IF i <= Len(s) THEN s[i] ELSE t[i - Len(s)]
    BY ConcatProperties
  <2>2. Len(s) \in Nat /\ Len(t) \in Nat /\ DOMAIN t = 1 .. Len(t) /\ DOMAIN s = 1 .. Len(s)
    OBVIOUS
  <2>3. ASSUME NEW k \in 1 .. Len(t) PROVE t[k] = (s \o t)[Len(s) + k] /\ t[k] \in Nat
    <3>1. Len(s) + k \in 1 .. Len(s) + Len(t) /\ ~ (Len(s) + k <= Len(s)) /\ Len(s) + k - Len(s) = k
      BY <2>2
    <3> QED BY <2>1, <2>2, <3>1
  <2>4. DOMAIN (s \o t) = 1 .. Len(s) + Len(t)
    <3> DEFINE u == s \o t
    <3>1. u \in Seq(Nat) /\ Len(u) = Len(s) + Len(t)
      BY <2>1
    <3> HIDE DEF u
    <3>2. DOMAIN u = 1 .. Len(u)
      BY <3>1
    <3> QED BY <3>1, <3>2 DEF u
  <2> QED BY <2>2, <2>3, <2>4
<1> QED BY <1>1, <1>2

\* What is left after each transaction, and what each takes.
Shares(left, taken, n, logs) ==
  /\ left \in [0 .. n -> Seq(Nat)] /\ left[0] = logs
  /\ \A i \in 1 .. n : left[i] = LogsLeft(left[i - 1], i)
  /\ taken \in [1 .. n -> Seq(Nat)]
  /\ \A i \in 1 .. n : taken[i] = OwnLogs(left[i - 1], i)

\* `Distribute` computes them.
LEMMA Distributed ==
  ASSUME NEW n \in Nat, NEW logs \in Seq(Nat)
  PROVE  \E left : Shares(left, Distribute(n, logs), n, logs)
<1> DEFINE D(g, i) == IF i = 0 THEN logs ELSE LogsLeft(g[i - 1], i)
           left == CHOOSE g : g = [i \in 0 .. n |-> D(g, i)]
           step == [i \in 1 .. n |-> [l \in Seq(Nat) |-> LogsLeft(l, i)]]
<1>1. step \in [1 .. n -> [Seq(Nat) -> Seq(Nat)]]
  BY LogsSplit
<1>2. PICK f : Follows(f, n, Seq(Nat), logs, step)
  <2> HIDE DEF step
  <2> QED BY <1>1, Recursion
<1>3. f = [i \in 0 .. n |-> D(f, i)]
  <2>0. /\ f \in [0 .. n -> Seq(Nat)] /\ f[0] = logs
        /\ \A i \in 1 .. n : f[i] = step[i][f[i - 1]]
    <3> HIDE DEF step
    <3> QED BY <1>2 DEF Follows
  <2>1. ASSUME NEW i \in 0 .. n PROVE f[i] = D(f, i)
    <3>1. CASE i = 0
      BY <2>0, <3>1
    <3>2. CASE i # 0
      <4>1. i \in 1 .. n /\ i - 1 \in 0 .. n
        BY <3>2
      <4>2. f[i] = step[i][f[i - 1]] /\ f[i - 1] \in Seq(Nat)
        BY <2>0, <4>1
      <4> QED BY <3>2, <4>1, <4>2
    <3> QED BY <3>1, <3>2
  <2> HIDE DEF D, step
  <2> QED BY <2>0, <2>1
<1>4. left = [i \in 0 .. n |-> D(left, i)]
  <2> HIDE DEF D
  <2> QED BY <1>3
<1>5. Distribute(n, logs) = [i \in 1 .. n |-> OwnLogs(left[i - 1], i)]
  BY DEF Distribute
<1> HIDE DEF left
<1>6. left[0] = logs
  BY <1>4
<1>7. \A i \in 1 .. n : left[i] = LogsLeft(left[i - 1], i)
  <2> TAKE i \in 1 .. n
  <2>1. i \in 0 .. n /\ i # 0
    OBVIOUS
  <2>2. left[i] = D(left, i)
    <3> HIDE DEF D
    <3> QED BY <1>4, <2>1
  <2> QED BY <2>1, <2>2
<1>8. \A i \in 0 .. n : left[i] \in Seq(Nat)
  <2> DEFINE Typed == {i \in 0 .. n : left[i] \in Seq(Nat)}
  <2>1. 0 \in Typed
    BY <1>6
  <2>2. ASSUME NEW i \in 0 .. n - 1, i \in Typed PROVE i + 1 \in Typed
    <3>1. i + 1 \in 1 .. n /\ (i + 1) - 1 = i /\ i + 1 \in 0 .. n
      OBVIOUS
    <3>2. left[i + 1] = LogsLeft(left[(i + 1) - 1], i + 1)
      BY ONLY <1>7, <3>1
    <3>3. LogsLeft(left[i], i + 1) \in Seq(Nat)
      BY <2>2, LogsSplit
    <3> QED BY <3>1, <3>2, <3>3
  <2>3. 0 .. n \subseteq Typed
    <3> HIDE DEF Typed
    <3> QED BY <2>1, <2>2, SetInductionTo
  <2> QED BY <2>3
<1>9. left \in [0 .. n -> Seq(Nat)]
  <2> HIDE DEF D
  <2> QED BY <1>4, <1>8
<1>10. \A i \in 1 .. n : OwnLogs(left[i - 1], i) \in Seq(Nat)
  <2> TAKE i \in 1 .. n
  <2>1. i - 1 \in 0 .. n
    OBVIOUS
  <2> QED BY <1>8, <2>1, LogsSplit
<1>11. /\ Distribute(n, logs) \in [1 .. n -> Seq(Nat)]
       /\ \A i \in 1 .. n : Distribute(n, logs)[i] = OwnLogs(left[i - 1], i)
  BY <1>5, <1>10
<1> HIDE DEF D
<1> QED BY <1>6, <1>7, <1>9, <1>11 DEF Shares

\* The logs are those taken so far and those left.
LEMMA TakenPrefix ==
  ASSUME NEW n \in Nat \ {0}, NEW logs \in Seq(Nat), NEW left, NEW taken,
         Shares(left, taken, n, logs)
  PROVE  logs = FlattenSeq(taken) \o left[n] /\ FlattenSeq(taken) \in Seq(Nat)
<1>1. taken \in [1 .. n -> Seq(Nat)]
  BY DEF Shares
<1>2. PICK f : Joins(f, Nat, n, taken) /\ FlattenSeq(taken) = f[n]
  BY <1>1, Flatten
<1>3. /\ f \in [1 .. n -> Seq(Nat)] /\ f[1] = taken[1]
      /\ \A i \in 1 .. n - 1 : f[i + 1] = f[i] \o taken[i + 1]
  BY <1>2 DEF Joins
<1>4. \A i \in 1 .. n : left[i - 1] = taken[i] \o left[i]
  <2> TAKE i \in 1 .. n
  <2>1. i - 1 \in 0 .. n
    OBVIOUS
  <2>2. left[i - 1] \in Seq(Nat) /\ left[i] = LogsLeft(left[i - 1], i) /\ taken[i] = OwnLogs(left[i - 1], i)
    BY <2>1 DEF Shares
  <2>3. \A l \in Seq(Nat) : \A j : l = OwnLogs(l, j) \o LogsLeft(l, j)
    BY NatLogsSplit
  <2> QED BY ONLY <2>2, <2>3
<1> DEFINE Done == {i \in 0 .. n : i > 0 => logs = f[i] \o left[i]}
<1>5. 0 \in Done
  OBVIOUS
<1>6. ASSUME NEW i \in 0 .. n - 1, i \in Done PROVE i + 1 \in Done
  <2>0. SUFFICES logs = f[i + 1] \o left[i + 1]
    <3>1. i + 1 \in 0 .. n
      OBVIOUS
    <3> QED BY ONLY <3>1, logs = f[i + 1] \o left[i + 1]
  <2>1. i + 1 \in 1 .. n /\ (i + 1) - 1 = i
    OBVIOUS
  <2>2. left[i] = taken[i + 1] \o left[i + 1]
    BY <1>4, <2>1
  <2>3. CASE i = 0
    <3>1. logs = left[0] /\ i + 1 = 1
      BY <2>3 DEF Shares
    <3>2. logs = f[i + 1] \o left[i + 1]
      BY <1>3, <2>2, <2>3, <3>1
    <3> QED BY <3>2
  <2>4. CASE i # 0
    <3>1. i \in 1 .. n - 1 /\ i \in 1 .. n /\ i \in 0 .. n
      BY <2>4
    <3>2. f[i] \in Seq(Nat) /\ taken[i + 1] \in Seq(Nat) /\ left[i + 1] \in Seq(Nat)
      <4>1. left \in [0 .. n -> Seq(Nat)] /\ i + 1 \in 0 .. n
        BY <2>1 DEF Shares
      <4> QED BY <1>1, <1>3, <2>1, <3>1, <4>1
    <3>3. f[i] \o (taken[i + 1] \o left[i + 1]) = (f[i] \o taken[i + 1]) \o left[i + 1]
      BY <3>2, NatConcat
    <3>4. logs = f[i] \o left[i]
      <4>1. i > 0
        BY <3>1
      <4> QED BY <1>6, <4>1
    <3>5. f[i + 1] = f[i] \o taken[i + 1]
      BY <1>3, <3>1
    <3>6. logs = f[i + 1] \o left[i + 1]
      BY <2>2, <3>3, <3>4, <3>5
    <3> QED BY <3>6
  <2> QED BY <2>3, <2>4
<1>7. 0 .. n \subseteq Done
  <2> HIDE DEF Done
  <2> QED BY <1>5, <1>6, SetInductionTo
<1>8. n \in 0 .. n /\ n > 0 /\ n \in 1 .. n
  OBVIOUS
<1>9. logs = f[n] \o left[n]
  BY <1>7, <1>8
<1> HIDE DEF Done
<1> QED BY <1>2, <1>3, <1>8, <1>9

\* When the logs are in the block's order and none is of another block, those
\* left after a transaction are of later ones.
LEMMA LeftLater ==
  ASSUME NEW n \in Nat, NEW logs \in Seq(Nat), NEW left, NEW taken,
         Shares(left, taken, n, logs), 0 \notin Range(logs),
         \A j, k \in DOMAIN logs : j < k => logs[j] <= logs[k]
  PROVE  \A k \in DOMAIN left[n] : left[n][k] > n
<1> DEFINE Ordered(s) == \A j, k \in DOMAIN s : j < k => s[j] <= s[k]
           Later == {i \in 0 .. n : Ordered(left[i]) /\ \A k \in DOMAIN left[i] : left[i][k] > i}
<1>1. 0 \in Later
  <2>1. left[0] = logs
    BY DEF Shares
  <2>2. \A k \in DOMAIN logs : logs[k] \in Nat /\ logs[k] # 0
    BY DEF Range
  <2> QED BY <2>1, <2>2
<1>2. ASSUME NEW i \in 0 .. n - 1, i \in Later PROVE i + 1 \in Later
  <2>1. i + 1 \in 1 .. n /\ i \in 0 .. n /\ (i + 1) - 1 = i /\ i + 1 \in 0 .. n
    OBVIOUS
  <2> DEFINE s == left[i]
             own == OwnLogs(s, i + 1)
             rest == LogsLeft(s, i + 1)
  <2>2. s \in Seq(Nat)
    BY <2>1 DEF Shares
  <2>3. left[i + 1] = rest
    <3>1. \A j \in 1 .. n : left[j] = LogsLeft(left[j - 1], j)
      BY DEF Shares
    <3> QED BY <2>1, <3>1
  <2>4. /\ own \in Seq(Nat) /\ rest \in Seq(Nat) /\ s = own \o rest
        /\ rest # <<>> => rest[1] # i + 1
    BY <2>2, NatLogsSplit
  <2>5. Ordered(s) /\ \A k \in DOMAIN s : s[k] > i
    BY <1>2
  <2> HIDE DEF s, own, rest
  <2>6. /\ Len(own) \in Nat /\ DOMAIN rest = 1 .. Len(rest) /\ Len(rest) \in Nat
        /\ DOMAIN s = 1 .. Len(own) + Len(rest)
        /\ \A k \in 1 .. Len(rest) : rest[k] = s[Len(own) + k] /\ rest[k] \in Nat
    <3>1. /\ Len(own) \in Nat /\ Len(rest) \in Nat /\ DOMAIN rest = 1 .. Len(rest)
          /\ DOMAIN (own \o rest) = 1 .. Len(own) + Len(rest)
          /\ \A k \in 1 .. Len(rest) : rest[k] = (own \o rest)[Len(own) + k] /\ rest[k] \in Nat
      BY <2>4, NatConcat
    <3> QED BY <2>4, <3>1
  <2>7. Ordered(rest)
    <3> SUFFICES ASSUME NEW j \in DOMAIN rest, NEW k \in DOMAIN rest, j < k PROVE rest[j] <= rest[k]
      OBVIOUS
    <3>1. Len(own) + j \in DOMAIN s /\ Len(own) + k \in DOMAIN s /\ Len(own) + j < Len(own) + k
      BY <2>6
    <3> QED BY <2>5, <2>6, <3>1
  <2>8. ASSUME NEW k \in DOMAIN rest PROVE rest[k] > i + 1
    <3>1. k \in Nat /\ k >= 1 /\ 1 \in DOMAIN rest /\ rest # <<>>
      BY <2>6
    <3>2. rest[1] > i
      <4>1. Len(own) + 1 \in DOMAIN s
        BY <2>6, <3>1
      <4> QED BY <2>5, <2>6, <3>1, <4>1
    <3>3. rest[1] > i + 1
      BY <2>4, <2>6, <3>1, <3>2
    <3>4. k = 1 \/ rest[1] <= rest[k]
      BY <2>7, <3>1
    <3>5. rest[k] \in Nat /\ rest[1] \in Nat
      BY <2>6, <3>1
    <3> QED BY <3>3, <3>4, <3>5
  <2> QED BY <2>1, <2>3, <2>7, <2>8
<1>3. 0 .. n \subseteq Later
  <2> HIDE DEF Later
  <2> QED BY <1>1, <1>2, SetInductionTo
<1>4. n \in Later
  BY <1>3
<1> QED BY <1>4

\* The node's answers are lists of transactions and of logs.
LEMMA AnswerTypes ==
  \A a \in Answers \cup {NoAnswer} :
    /\ \E n \in 0 .. MaxBlockTxs : a.txs \in [1 .. n -> RawTxs]
    /\ a.txs \in Seq(RawTxs) /\ a.logs \in Seq(Nat)
    /\ \A k \in DOMAIN a.logs : a.logs[k] <= Len(a.txs)
<1> TAKE a \in Answers \cup {NoAnswer}
<1>1. /\ a.txs \in Seq(RawTxs) /\ a.logs \in Seq(0 .. MaxBlockTxs)
      /\ Len(a.txs) <= MaxBlockTxs /\ \A k \in DOMAIN a.logs : a.logs[k] <= Len(a.txs)
  <2>1. CASE a = NoAnswer
    BY <2>1, BlockAssumption DEF NoAnswer
  <2>2. CASE a \in Answers
    BY <2>2, AnswersAssumption
  <2> QED BY <2>1, <2>2
<1>2. a.logs \in Seq(Nat)
  <2>1. a.logs = [k \in 1 .. Len(a.logs) |-> a.logs[k]] /\ Len(a.logs) \in Nat
    BY <1>1
  <2>2. \A k \in 1 .. Len(a.logs) : a.logs[k] \in Nat
    BY <1>1, BlockAssumption
  <2>3. a.logs \in [1 .. Len(a.logs) -> Nat]
    BY <2>1, <2>2
  <2> QED BY <2>1, <2>3, SeqDef
<1>3. Len(a.txs) \in 0 .. MaxBlockTxs /\ a.txs \in [1 .. Len(a.txs) -> RawTxs]
  BY <1>1, BlockAssumption
<1> QED BY <1>1, <1>2, <1>3

\* Every transaction gets its own logs.
LEMMA LogsAreTheirs ==
  ASSUME NEW a \in Answers \cup {NoAnswer}
  PROVE  /\ LogsFollow(Distribute(Len(a.txs), a.logs), a.logs)
         /\ Distribute(Len(a.txs), a.logs) \in [1 .. Len(a.txs) -> Seq(Nat)]
<1> DEFINE n == Len(a.txs)
           logs == a.logs
           taken == Distribute(n, logs)
<1>1. n \in Nat /\ logs \in Seq(Nat) /\ \A k \in DOMAIN logs : logs[k] <= n
  BY AnswerTypes
<1> HIDE DEF n, logs
<1>2. PICK left : Shares(left, taken, n, logs)
  BY <1>1, Distributed
<1> HIDE DEF taken
<1>3. taken \in [1 .. n -> Seq(Nat)] /\ left[n] \in Seq(Nat)
  BY <1>1, <1>2 DEF Shares
<1>4. \A i \in DOMAIN taken : Range(taken[i]) \subseteq {i}
  <2> TAKE i \in DOMAIN taken
  <2>1. i \in 1 .. n /\ i - 1 \in 0 .. n
    BY <1>1, <1>3
  <2>2. left[i - 1] \in Seq(Nat) /\ taken[i] = OwnLogs(left[i - 1], i)
    BY <1>2, <2>1 DEF Shares
  <2>3. \A k \in DOMAIN taken[i] : taken[i][k] = i
    BY <2>2, LogsSplit
  <2> QED BY <2>3 DEF Range
<1>5. logs = FlattenSeq(taken) \o left[n] /\ FlattenSeq(taken) \in Seq(Nat)
  <2>1. CASE n = 0
    <3>1. taken = <<>> /\ Len(taken) = 0
      BY <1>3, <2>1
    <3>2. FlattenSeq(taken) = <<>>
      BY <3>1 DEF FlattenSeq
    <3>3. left[n] = logs
      BY <1>2, <2>1 DEF Shares
    <3> QED BY <1>1, <3>2, <3>3
  <2>2. CASE n # 0
    BY <1>1, <1>2, <2>2, TakenPrefix
  <2> QED BY <2>1, <2>2
<1> DEFINE s == FlattenSeq(taken)
           t == left[n]
<1>6. logs = s \o t /\ s \in Seq(Nat) /\ t \in Seq(Nat)
  BY <1>3, <1>5
<1>7. IsPrefix(s, logs)
  <2> HIDE DEF s, t
  <2>1. Len(s) <= Len(logs) /\ Len(s) \in Nat
    BY <1>6
  <2>2. SubSeq(s, 1, Len(s)) = SubSeq(logs, 1, Len(s))
    BY <1>6
  <2> QED BY <2>1, <2>2 DEF IsPrefix
<1>8. ASSUME 0 \notin Range(logs), \A j, k \in DOMAIN logs : j < k => logs[j] <= logs[k]
      PROVE  s = logs
  <2>1. \A k \in DOMAIN t : t[k] > n
    BY <1>1, <1>2, <1>8, LeftLater
  <2> HIDE DEF s, t
  <2>2. \A k \in DOMAIN t : t[k] \in Range(logs) /\ t[k] \in Nat
    <3> TAKE k \in DOMAIN t
    <3>1. Len(s) + k \in DOMAIN logs /\ logs[Len(s) + k] = t[k]
      BY <1>6
    <3> QED BY <1>6, <3>1 DEF Range
  <2>3. \A k \in DOMAIN t : FALSE
    <3> TAKE k \in DOMAIN t
    <3>1. t[k] > n /\ t[k] <= n /\ t[k] \in Nat
      BY <1>1, <2>1, <2>2 DEF Range
    <3> QED BY <1>1, <3>1
  <2>4. t = <<>>
    <3>1. Len(t) = 0
      <4>1. Len(t) \in Nat /\ DOMAIN t = 1 .. Len(t)
        BY <1>6
      <4> QED BY <2>3, <4>1
    <3> QED BY <1>6, <3>1
  <2> QED BY <1>6, <2>4
<1> QED BY <1>3, <1>4, <1>7, <1>8 DEF LogsFollow, n, logs, taken

\* A transaction converts when it names what it pays by.
LEMMA Complete ==
  ASSUME NEW r
  PROVE  Incomplete(r) <=> ~Converts(r)
<1>1. CASE IsDynamic(r)
  <2>1. Range([tip |-> r.tip, cap |-> r.cap]) = {r.tip, r.cap}
    BY DEF Range
  <2> QED BY <1>1, <2>1 DEF Incomplete, Converts, Payment
<1>2. CASE ~IsDynamic(r)
  <2>1. Range([gasPrice |-> r.gasPrice]) = {r.gasPrice}
    BY DEF Range
  <2> QED BY <1>2, <2>1 DEF Incomplete, Converts, Payment
<1> QED BY <1>1, <1>2

\* The conversions keep what a transaction pays.
LEMMA Converted ==
  ASSUME NEW r \in RawTxs, Converts(r)
  PROVE  Same(Convert(r), r)
<1>1. \A o : IsOption(o) /\ o # None => Some(The(o)) = o
  BY DEF IsOption, None, Some, The
<1>2. IsOption(r.type) /\ IsOption(r.gasPrice) /\ IsOption(r.tip) /\ IsOption(r.cap)
  BY RawTxsAssumption
<1> DEFINE t == Convert(r)
           b == Back(t)
<1>3. t.list = r.list /\ t.path = r.path
  BY DEF Convert, Transaction
<1>4. CASE IsDynamic(r)
  <2>1. t.fees = [tip |-> The(r.tip), cap |-> The(r.cap)]
    BY <1>4 DEF Convert, Transaction
  <2> HIDE DEF t
  <2>2. ~IsLegacy(t)
    BY <2>1 DEF IsLegacy
  <2>3. t.fees.tip = The(r.tip) /\ t.fees.cap = The(r.cap)
    BY <2>1
  <2>4. Some(The(r.tip)) = r.tip /\ Some(The(r.cap)) = r.cap
    BY <1>1, <1>2, <1>4 DEF Converts
  <2>5. /\ b.type = Some(2) /\ b.list = t.list /\ b.path = t.path
        /\ b.tip = Some(t.fees.tip) /\ b.cap = Some(t.fees.cap)
    BY <2>2 DEF Back, Back_Untyped
  <2> HIDE DEF b
  <2>6. IsDynamic(b)
    BY <2>5 DEF IsDynamic
  <2>7. Payment(b) = Payment(r)
    BY <1>4, <2>3, <2>4, <2>5, <2>6 DEF Payment
  <2>8. Some(PriorityFee(t)) = Offered(r)
    BY <1>4, <2>2, <2>3, <2>4 DEF PriorityFee, Offered
  <2> QED BY <1>3, <2>5, <2>7, <2>8 DEF Same, b, t
<1>5. CASE ~IsDynamic(r)
  <2>1. t.fees = [gasPrice |-> The(r.gasPrice)]
    BY <1>5 DEF Convert, Transaction
  <2> HIDE DEF t
  <2>2. IsLegacy(t)
    BY <2>1 DEF IsLegacy
  <2>3. t.fees.gasPrice = The(r.gasPrice)
    BY <2>1
  <2>4. Some(The(r.gasPrice)) = r.gasPrice
    BY <1>1, <1>2, <1>5 DEF Converts
  <2>5. /\ b.type \in {Some(1), None} /\ b.list = t.list /\ b.path = t.path
        /\ b.gasPrice = Some(t.fees.gasPrice)
    BY <2>2 DEF Back, Back_Untyped
  <2> HIDE DEF b
  <2>6. ~IsDynamic(b)
    BY <2>5 DEF IsDynamic, Some, None
  <2>7. Payment(b) = Payment(r)
    BY <1>5, <2>3, <2>4, <2>5, <2>6 DEF Payment
  <2>8. Some(PriorityFee(t)) = Offered(r)
    BY <1>5, <2>2, <2>3, <2>4 DEF PriorityFee, Offered
  <2> QED BY <1>3, <2>5, <2>7, <2>8 DEF Same, b, t
<1> QED BY <1>4, <1>5

\* The block is the one the answer describes.
LEMMA Described ==
  ASSUME NEW a \in Answers, IsBlock(a)
  PROVE  Describes(MakeBlock(a), a)
<1> DEFINE logs == Distribute(Len(a.txs), a.logs)
           made == MakeBlock(a)
<1>1. a.txs \in Seq(RawTxs) /\ DOMAIN a.txs = 1 .. Len(a.txs)
  BY AnswerTypes
<1>2. LogsFollow(logs, a.logs) /\ logs \in [1 .. Len(a.txs) -> Seq(Nat)]
  BY LogsAreTheirs
<1> HIDE DEF logs
<1>3. made = [i \in DOMAIN a.txs |-> [tx |-> Convert(a.txs[i]), logs |-> logs[i]]]
  BY DEF MakeBlock, logs
<1> HIDE DEF made
<1>4. DOMAIN made = DOMAIN a.txs
  BY <1>3
<1>5. \A i \in DOMAIN made : made[i].tx = Convert(a.txs[i]) /\ made[i].logs = logs[i]
  BY <1>3
<1>6. \A i \in DOMAIN made : Same(made[i].tx, a.txs[i])
  <2> TAKE i \in DOMAIN made
  <2>1. a.txs[i] \in RawTxs /\ Converts(a.txs[i])
    BY <1>1, <1>4 DEF IsBlock
  <2> QED BY <1>5, <2>1, Converted
<1>7. [i \in DOMAIN made |-> made[i].logs] = logs
  <2>1. [i \in DOMAIN made |-> made[i].logs] = [i \in 1 .. Len(a.txs) |-> logs[i]]
    BY <1>1, <1>4, <1>5
  <2>2. logs = [i \in 1 .. Len(a.txs) |-> logs[i]]
    BY <1>2
  <2> QED BY <2>1, <2>2
<1> QED BY <1>2, <1>4, <1>6, <1>7 DEF Describes, made

-----------------------------------------------------------------------------
(* Nothing by halves.                                                      *)

\* The k-th multicall is not a front one, or has its back one in the list, or
\* its monitor is about to add it.
HasBack(k) ==
  \E l \in DOMAIN toSend : /\ toSend[l].side = "back"
                          /\ toSend[l].mon = toSend[k].mon
                          /\ toSend[l].level = toSend[k].level
Awaited(k) == toSend[k].mon \in half /\ toSend[k].level = level[toSend[k].mon]

PlanInv ==
  /\ DOMAIN level = Monitors /\ level = [m \in Monitors |-> level[m]]
  /\ toSend \in Seq(Range(toSend))
  /\ \A k \in DOMAIN toSend : toSend[k].mon \in Monitors
  /\ half \subseteq running
  /\ txs # <<>> => outcome = "extracted"
  /\ outcome = "extracted" => running = {}
  /\ \A k \in DOMAIN toSend : toSend[k].side = "front" => HasBack(k) \/ Awaited(k)

\* A list is a list of the things in it.
LEMMA RangeSeq ==
  ASSUME NEW S, NEW s \in Seq(S)
  PROVE  s \in Seq(Range(s))
<1>1. s = [k \in 1 .. Len(s) |-> s[k]] /\ Len(s) \in Nat
  OBVIOUS
<1>2. \A k \in 1 .. Len(s) : s[k] \in Range(s)
  BY DEF Range
<1>3. s \in [1 .. Len(s) -> Range(s)]
  BY <1>1, <1>2
<1> QED BY <1>1, <1>3, SeqDef

\* What stays in the list stays accounted for.
LEMMA Unchanged ==
  ASSUME PlanInv, UNCHANGED <<toSend, level, half>>,
         half' \subseteq running', txs' # <<>> => outcome' = "extracted",
         outcome' = "extracted" => running' = {}
  PROVE  PlanInv'
BY DEF PlanInv, HasBack, Awaited, Range

LEMMA PlanInit == Init => PlanInv
BY DEF Init, PlanInv, Range

LEMMA SurroundPlan ==
  ASSUME PlanInv, NEW m \in Monitors, Surround(m)
  PROVE  PlanInv'
<1> PICK front, back \in CallsAround(m) :
        toSend' = toSend \o << Multicall(m, "front", FrontFee(level[m]), front),
                               Multicall(m, "back", BackFee(level[m]), back) >>
  BY DEF Surround
<1> DEFINE a == Multicall(m, "front", FrontFee(level[m]), front)
           b == Multicall(m, "back", BackFee(level[m]), back)
<1>1. /\ toSend' = toSend \o <<a, b>>
      /\ a.mon = m /\ a.level = level[m] /\ b.mon = m /\ b.level = level[m]
      /\ a.side = "front" /\ b.side = "back"
  BY DEF Multicall
<1> HIDE DEF a, b
<1>2. /\ m \notin half /\ level' = [level EXCEPT ![m] = NextLevel(@)]
      /\ UNCHANGED <<half, running, outcome, txs>>
  BY DEF Surround
<1>3. <<a, b>> \in Seq({a, b}) /\ Len(<<a, b>>) = 2 /\ <<a, b>>[1] = a /\ <<a, b>>[2] = b
  OBVIOUS
<1>4. /\ toSend' \in Seq(Range(toSend'))
      /\ DOMAIN toSend' = 1 .. Len(toSend) + 2
      /\ Len(toSend) \in Nat /\ DOMAIN toSend = 1 .. Len(toSend)
      /\ \A k \in DOMAIN toSend : toSend'[k] = toSend[k]
      /\ toSend'[Len(toSend) + 1] = a /\ toSend'[Len(toSend) + 2] = b
  <2> DEFINE added == <<a, b>>
             All == Range(toSend) \cup {a, b}
  <2>1. added \in Seq(All) /\ Len(added) = 2 /\ added[1] = a /\ added[2] = b
    BY <1>3
  <2>2. toSend \in Seq(All) /\ toSend' = toSend \o added
    BY <1>1 DEF PlanInv
  <2> HIDE DEF added, All
  <2>3. /\ Len(toSend') = Len(toSend) + 2
        /\ \A k \in 1 .. Len(toSend) + 2 :
             toSend'[k] = IF k <= Len(toSend) THEN toSend[k] ELSE added[k - Len(toSend)]
    BY <2>1, <2>2, ConcatProperties
  <2>4. toSend' \in Seq(All)
    BY <2>1, <2>2
  <2>5. /\ toSend' \in Seq(Range(toSend'))
        /\ Len(toSend) \in Nat /\ DOMAIN toSend = 1 .. Len(toSend)
        /\ DOMAIN toSend' = 1 .. Len(toSend')
    <3>1. toSend' \in Seq(Range(toSend'))
      BY ONLY <2>4, RangeSeq
    <3> QED BY <2>2, <2>4, <3>1
  <2>6. toSend'[Len(toSend) + 1] = added[1] /\ toSend'[Len(toSend) + 2] = added[2]
    <3>1. Len(toSend) + 1 - Len(toSend) = 1 /\ Len(toSend) + 2 - Len(toSend) = 2
      BY <2>5
    <3> QED BY <2>3, <2>5, <3>1
  <2>7. \A k \in DOMAIN toSend : toSend'[k] = toSend[k]
    BY <2>3, <2>5
  <2> QED BY <2>1, <2>3, <2>5, <2>6, <2>7
<1>5. DOMAIN toSend' = DOMAIN toSend \cup {Len(toSend) + 1, Len(toSend) + 2}
  BY <1>4
<1>6. \A k \in DOMAIN toSend' : toSend'[k].mon \in Monitors
  BY <1>1, <1>4, <1>5 DEF PlanInv
<1>7. /\ DOMAIN level' = Monitors /\ level' = [n \in Monitors |-> level'[n]]
      /\ \A n \in Monitors \ {m} : level'[n] = level[n]
  BY <1>2 DEF PlanInv
<1>8. ASSUME NEW k \in DOMAIN toSend', toSend'[k].side = "front"
      PROVE  HasBack(k)' \/ Awaited(k)'
  <2>1. CASE k \in DOMAIN toSend
    <3>1. HasBack(k) \/ Awaited(k)
      BY <1>4, <1>8, <2>1 DEF PlanInv
    <3>2. CASE HasBack(k)
      BY <1>4, <1>5, <2>1, <3>2 DEF HasBack
    <3>3. CASE Awaited(k)
      BY <1>2, <1>4, <1>7, <2>1, <3>3 DEF Awaited, PlanInv
    <3> QED BY <3>1, <3>2, <3>3
  <2>2. CASE k = Len(toSend) + 1
    BY <1>1, <1>4, <1>5, <2>2 DEF HasBack
  <2>3. CASE k = Len(toSend) + 2
    BY <1>1, <1>4, <1>8, <2>3
  <2> QED BY <1>5, <2>1, <2>2, <2>3
<1> QED BY <1>2, <1>4, <1>6, <1>7, <1>8 DEF PlanInv

\* One multicall more: whatever was accounted for stays so, unless its
\* monitor's level is over.
LEMMA AddOne ==
  ASSUME PlanInv, NEW m \in Monitors, NEW a, a.mon = m, toSend' = Append(toSend, a)
  PROVE  /\ toSend' \in Seq(Range(toSend'))
         /\ DOMAIN toSend' = DOMAIN toSend \cup {Len(toSend) + 1}
         /\ \A k \in DOMAIN toSend : toSend'[k] = toSend[k]
         /\ toSend'[Len(toSend) + 1] = a
         /\ \A k \in DOMAIN toSend' : toSend'[k].mon \in Monitors
         /\ \A k \in DOMAIN toSend : HasBack(k) => HasBack(k)'
<1>1. toSend \in Seq(Range(toSend) \cup {a}) /\ a \in Range(toSend) \cup {a}
  BY DEF PlanInv
<1>2. /\ toSend' \in Seq(Range(toSend) \cup {a})
      /\ Len(toSend) \in Nat /\ DOMAIN toSend = 1 .. Len(toSend)
      /\ DOMAIN toSend' = 1 .. Len(toSend) + 1
      /\ \A k \in 1 .. Len(toSend) : toSend'[k] = toSend[k]
      /\ toSend'[Len(toSend) + 1] = a
  BY <1>1
<1>3. toSend' \in Seq(Range(toSend'))
  BY <1>2, RangeSeq
<1>4. DOMAIN toSend' = DOMAIN toSend \cup {Len(toSend) + 1}
  BY <1>2
<1>5. \A k \in DOMAIN toSend' : toSend'[k].mon \in Monitors
  BY <1>2, <1>4 DEF PlanInv
<1>6. \A k \in DOMAIN toSend : HasBack(k) => HasBack(k)'
  BY <1>2, <1>4 DEF HasBack
<1> QED BY <1>2, <1>3, <1>4, <1>5, <1>6

LEMMA CandidateFrontPlan ==
  ASSUME PlanInv, NEW m \in Monitors, CandidateFront(m)
  PROVE  PlanInv'
<1>1. PICK a : toSend' = Append(toSend, a) /\ a.mon = m /\ a.level = level[m]
  BY DEF CandidateFront, Multicall
<1>2. /\ m \in running /\ half' = half \cup {m}
      /\ UNCHANGED <<level, running, outcome, txs>>
  BY DEF CandidateFront, Working
<1>3. \A k \in DOMAIN toSend : HasBack(k) => HasBack(k)'
  BY <1>1, AddOne
<1>4. /\ toSend' \in Seq(Range(toSend'))
      /\ DOMAIN toSend' = DOMAIN toSend \cup {Len(toSend) + 1}
      /\ \A k \in DOMAIN toSend : toSend'[k] = toSend[k]
      /\ toSend'[Len(toSend) + 1] = a
      /\ \A k \in DOMAIN toSend' : toSend'[k].mon \in Monitors
  BY <1>1, AddOne
<1>5. ASSUME NEW k \in DOMAIN toSend', toSend'[k].side = "front"
      PROVE  HasBack(k)' \/ Awaited(k)'
  <2>1. CASE k \in DOMAIN toSend
    BY <1>2, <1>3, <1>4, <1>5, <2>1 DEF PlanInv, Awaited
  <2>2. CASE k = Len(toSend) + 1
    BY <1>1, <1>2, <1>4, <2>2 DEF Awaited
  <2> QED BY <1>4, <2>1, <2>2
<1> QED BY <1>2, <1>4, <1>5 DEF PlanInv

LEMMA CandidateBackPlan ==
  ASSUME PlanInv, NEW m \in Monitors, CandidateBack(m)
  PROVE  PlanInv'
<1>1. PICK a : /\ toSend' = Append(toSend, a)
               /\ a.mon = m /\ a.level = level[m] /\ a.side = "back"
  BY DEF CandidateBack, Multicall
<1>2. /\ half' = half \ {m} /\ level' = [level EXCEPT ![m] = NextLevel(@)]
      /\ UNCHANGED <<running, outcome, txs>>
  BY DEF CandidateBack
<1>3. \A k \in DOMAIN toSend : HasBack(k) => HasBack(k)'
  BY <1>1, AddOne
<1>4. /\ toSend' \in Seq(Range(toSend'))
      /\ DOMAIN toSend' = DOMAIN toSend \cup {Len(toSend) + 1}
      /\ \A k \in DOMAIN toSend : toSend'[k] = toSend[k]
      /\ toSend'[Len(toSend) + 1] = a
      /\ \A k \in DOMAIN toSend' : toSend'[k].mon \in Monitors
  BY <1>1, AddOne
<1>5. /\ DOMAIN level' = Monitors /\ level' = [n \in Monitors |-> level'[n]]
      /\ \A n \in Monitors \ {m} : level'[n] = level[n]
  BY <1>2 DEF PlanInv
<1>6. ASSUME NEW k \in DOMAIN toSend', toSend'[k].side = "front"
      PROVE  HasBack(k)' \/ Awaited(k)'
  <2>1. k \in DOMAIN toSend
    BY <1>1, <1>4, <1>6
  <2>2. HasBack(k) \/ Awaited(k)
    BY <1>4, <1>6, <2>1 DEF PlanInv
  <2>3. CASE Awaited(k) /\ toSend[k].mon = m
    BY <1>1, <1>4, <2>1, <2>3 DEF Awaited, HasBack
  <2>4. CASE Awaited(k) /\ toSend[k].mon # m
    BY <1>2, <1>4, <1>5, <2>1, <2>4 DEF Awaited, PlanInv
  <2> QED BY <1>3, <2>1, <2>2, <2>3, <2>4
<1> QED BY <1>2, <1>4, <1>5, <1>6 DEF PlanInv

LEMMA LeadPlan ==
  ASSUME PlanInv, NEW m \in Monitors, Lead(m)
  PROVE  PlanInv'
<1>1. PICK a : toSend' = Append(toSend, a) /\ a.mon = m /\ a.side = "first"
  BY DEF Lead, Multicall
<1>2. UNCHANGED <<level, half, running, outcome, txs>>
  BY DEF Lead
<1>3. \A k \in DOMAIN toSend : HasBack(k) => HasBack(k)'
  BY <1>1, AddOne
<1>4. /\ toSend' \in Seq(Range(toSend'))
      /\ DOMAIN toSend' = DOMAIN toSend \cup {Len(toSend) + 1}
      /\ \A k \in DOMAIN toSend : toSend'[k] = toSend[k]
      /\ toSend'[Len(toSend) + 1] = a
      /\ \A k \in DOMAIN toSend' : toSend'[k].mon \in Monitors
  BY <1>1, AddOne
<1>5. \A k \in DOMAIN toSend' : toSend'[k].side = "front" => HasBack(k)' \/ Awaited(k)'
  BY <1>1, <1>2, <1>3, <1>4 DEF PlanInv, Awaited
<1> QED BY <1>2, <1>4, <1>5 DEF PlanInv

LEMMA PlanStep == PlanInv /\ [Next]_vars => PlanInv'
<1> SUFFICES ASSUME PlanInv, [Next]_vars PROVE PlanInv'
  OBVIOUS
<1>1. CASE MakePendingBlock
  BY <1>1, Unchanged DEF MakePendingBlock, PlanInv
<1>2. ASSUME NEW m \in Monitors, Surround(m) PROVE PlanInv'
  BY <1>2, SurroundPlan
<1>3. ASSUME NEW m \in Monitors, CandidateFront(m) PROVE PlanInv'
  BY <1>3, CandidateFrontPlan
<1>4. ASSUME NEW m \in Monitors, CandidateBack(m) PROVE PlanInv'
  BY <1>4, CandidateBackPlan
<1>5. ASSUME NEW m \in Monitors, Lead(m) PROVE PlanInv'
  BY <1>5, LeadPlan
<1>6. ASSUME NEW m \in Monitors, MonitorReturns(m) PROVE PlanInv'
  BY <1>6, Unchanged DEF MonitorReturns, Working, PlanInv
<1>7. ASSUME NEW m \in Monitors, MonitorFails(m) PROVE PlanInv'
  BY <1>7, Unchanged DEF MonitorFails, Working, PlanInv
<1>8. CASE Elapse
  BY <1>8, Unchanged DEF Elapse, PlanInv
<1>9. CASE ExtractPanics
  BY <1>9, Unchanged DEF ExtractPanics, MayExtract, PlanInv
<1>10. CASE Extract
  BY <1>10, Unchanged DEF Extract, MayExtract, PlanInv
<1>11. CASE UNCHANGED vars
  BY <1>11, Unchanged DEF vars, PlanInv
<1> QED BY <1>1, <1>2, <1>3, <1>4, <1>5, <1>6, <1>7, <1>8, <1>9, <1>10, <1>11 DEF Next

\* Whatever the monitors add and in which order, however their work ends, a
\* transaction in front of a level is sent only together with the one behind
\* it (block.rs, add_to_send; engine.rs, the deadline of the monitors).
THEOREM NothingByHalves == Spec => []AllOrNothing
<1>1. Init => PlanInv
  BY PlanInit
<1>2. PlanInv /\ [Next]_vars => PlanInv'
  BY PlanStep
<1>3. PlanInv => AllOrNothing
  BY DEF PlanInv, AllOrNothing, HasBack, Awaited
<1> QED BY <1>1, <1>2, <1>3, PTL DEF Spec

-----------------------------------------------------------------------------
(* Runs of multicalls, and their orders.                                   *)

\* Runs: every multicall is in exactly one.
LEMMA RunOf ==
  ASSUME NEW S, toSend \in Seq(S), NEW k \in DOMAIN toSend
  PROVE  \E r \in Runs : k \in r[1] .. r[2]
<1> DEFINE n == Len(toSend)
           F(i) == toSend[i].fee
           Lo == {i \in 1 .. k : \A j \in i .. k : F(j) = F(k)}
           Hi == {i \in k .. n : \A j \in k .. i : F(j) = F(k)}
<1>0. n \in Nat /\ DOMAIN toSend = 1 .. n /\ k \in 1 .. n
  OBVIOUS
<1> HIDE DEF n, F
<1>1. k \in Lo /\ Lo \subseteq Nat
  BY <1>0
<1>2. k \in Hi /\ Hi \subseteq Nat /\ \A i \in Hi : i <= n
  BY <1>0
<1>3. PICK lo \in Lo : \A i \in Lo : lo <= i
  <2> HIDE DEF Lo
  <2> QED BY <1>1, Least
<1>4. PICK hi \in Hi : \A i \in Hi : i <= hi
  <2> HIDE DEF Hi
  <2> QED BY <1>0, <1>2, Greatest
<1>5. /\ lo \in 1 .. k /\ hi \in k .. n /\ lo <= hi
      /\ \A j \in lo .. hi : F(j) = F(lo)
  <2>1. \A j \in lo .. k : F(j) = F(k)
    OBVIOUS
  <2>2. \A j \in k .. hi : F(j) = F(k)
    OBVIOUS
  <2>3. lo \in 1 .. k /\ hi \in k .. n
    OBVIOUS
  <2> HIDE DEF Lo, Hi
  <2>4. lo <= hi /\ lo \in lo .. k
    BY <1>0, <2>3
  <2>5. \A j \in lo .. hi : j \in lo .. k \/ j \in k .. hi
    BY <1>0, <2>3
  <2> QED BY <2>1, <2>2, <2>3, <2>4, <2>5
<1>6. lo > 1 => F(lo - 1) # F(lo)
  <2> SUFFICES ASSUME lo > 1, F(lo - 1) = F(lo) PROVE FALSE
    OBVIOUS
  <2>1. lo - 1 \in 1 .. k /\ \A j \in lo - 1 .. k : j = lo - 1 \/ j \in lo .. k
    BY <1>0, <1>5
  <2>2. lo \in lo .. k /\ \A j \in lo .. k : F(j) = F(k)
    BY <1>0, <1>5
  <2>3. lo - 1 \in Lo
    BY <2>1, <2>2
  <2> HIDE DEF Lo
  <2> QED BY <1>3, <1>5, <2>3
<1>7. hi < n => F(hi + 1) # F(lo)
  <2> SUFFICES ASSUME hi < n, F(hi + 1) = F(lo) PROVE FALSE
    OBVIOUS
  <2>1. hi + 1 \in k .. n /\ \A j \in k .. hi + 1 : j = hi + 1 \/ j \in k .. hi
    BY <1>0, <1>5
  <2>2. F(k) = F(lo) /\ \A j \in k .. hi : F(j) = F(k)
    BY <1>0, <1>5
  <2>3. hi + 1 \in Hi
    BY <2>1, <2>2
  <2> HIDE DEF Hi
  <2> QED BY <1>4, <1>5, <2>3
<1>8. <<lo, hi>> \in (DOMAIN toSend) \X (DOMAIN toSend)
  BY <1>0, <1>5
<1>9. <<lo, hi>> \in Runs /\ k \in lo .. hi
  BY <1>0, <1>5, <1>6, <1>7, <1>8 DEF Runs, n, F
<1> QED BY <1>9

\* The multicalls of a run pay the run's fee.
LEMMA RunFacts ==
  ASSUME NEW S, toSend \in Seq(S), NEW r \in Runs
  PROVE  /\ r = <<r[1], r[2]>>
         /\ r[1] \in DOMAIN toSend /\ r[2] \in DOMAIN toSend
         /\ r[1] \in Nat /\ r[2] \in Nat /\ r[1] <= r[2] /\ r[1] \in r[1] .. r[2]
         /\ \A k \in r[1] .. r[2] : k \in DOMAIN toSend /\ toSend[k].fee = FeeOf(r)
<1>1. DOMAIN toSend = 1 .. Len(toSend) /\ Len(toSend) \in Nat
  OBVIOUS
<1>2. /\ r \in (DOMAIN toSend) \X (DOMAIN toSend)
      /\ r[1] <= r[2] /\ \A k \in r[1] .. r[2] : toSend[k].fee = toSend[r[1]].fee
  BY DEF Runs
<1>3. r = <<r[1], r[2]>> /\ r[1] \in DOMAIN toSend /\ r[2] \in DOMAIN toSend
  BY <1>2
<1>4. r[1] \in Nat /\ r[2] \in Nat /\ r[1] \in r[1] .. r[2]
      /\ \A k \in r[1] .. r[2] : k \in DOMAIN toSend
  BY <1>1, <1>2, <1>3
<1> QED BY <1>2, <1>3, <1>4 DEF FeeOf

\* No multicall is in two runs.
LEMMA RunsApart ==
  ASSUME NEW S, toSend \in Seq(S), NEW r \in Runs, NEW s \in Runs,
         NEW k \in r[1] .. r[2], k \in s[1] .. s[2]
  PROVE  r = s
<1>1. \A q \in Runs :
        /\ q = <<q[1], q[2]>> /\ q[1] \in Nat /\ q[2] \in Nat /\ q[1] >= 1 /\ q[2] <= Len(toSend)
        /\ \A i \in q[1] .. q[2] : toSend[i].fee = toSend[q[1]].fee
        /\ q[1] > 1 => toSend[q[1] - 1].fee # toSend[q[1]].fee
        /\ q[2] < Len(toSend) => toSend[q[2] + 1].fee # toSend[q[1]].fee
  <2> TAKE q \in Runs
  <2>1. q[1] \in DOMAIN toSend /\ q[2] \in DOMAIN toSend /\ q = <<q[1], q[2]>>
    BY RunFacts
  <2>2. DOMAIN toSend = 1 .. Len(toSend) /\ Len(toSend) \in Nat
    OBVIOUS
  <2>3. q[1] \in Nat /\ q[2] \in Nat /\ q[1] >= 1 /\ q[2] <= Len(toSend)
    BY <2>1, <2>2
  <2> QED BY <2>1, <2>3 DEF Runs
<1>0. Len(toSend) \in Nat /\ k \in Nat
  BY <1>1
<1>2. ASSUME NEW p \in Runs, NEW q \in Runs, k \in p[1] .. p[2], k \in q[1] .. q[2]
      PROVE  ~ (p[1] < q[1]) /\ ~ (p[2] > q[2])
  <2>0. /\ p[1] \in Nat /\ p[2] \in Nat /\ q[1] \in Nat /\ q[2] \in Nat
        /\ p[1] >= 1 /\ p[1] <= k /\ k <= p[2] /\ q[1] <= k /\ k <= q[2] /\ p[2] <= Len(toSend)
    BY <1>0, <1>1, <1>2
  <2>1. ASSUME p[1] < q[1] PROVE FALSE
    <3>1. q[1] - 1 \in p[1] .. p[2] /\ q[1] > 1 /\ q[1] \in p[1] .. p[2]
      BY <2>0, <2>1, <1>0
    <3> QED BY <1>1, <3>1
  <2>2. ASSUME p[2] > q[2] PROVE FALSE
    <3>1. q[2] + 1 \in p[1] .. p[2] /\ q[2] < Len(toSend) /\ k \in q[1] .. q[2]
      BY <2>0, <2>2, <1>0
    <3>2. toSend[q[2] + 1].fee = toSend[k].fee /\ toSend[k].fee = toSend[q[1]].fee
      BY <1>1, <1>2, <3>1
    <3> QED BY <1>1, <3>1, <3>2
  <2> QED BY <2>1, <2>2
<1>3. r[1] = s[1] /\ r[2] = s[2]
  <2>1. ~ (r[1] < s[1]) /\ ~ (r[2] > s[2]) /\ ~ (s[1] < r[1]) /\ ~ (s[2] > r[2])
    BY <1>2
  <2> QED BY <1>1, <2>1
<1> QED BY <1>1, <1>3

\* There are finitely many runs: they can be sorted.
LEMMA RunsFinite ==
  ASSUME NEW S, toSend \in Seq(S)
  PROVE  IsFiniteSet(Runs)
<1>1. IsFiniteSet(1 .. Len(toSend))
  BY FS_Interval
<1>2. IsFiniteSet((1 .. Len(toSend)) \X (1 .. Len(toSend)))
  BY <1>1, FS_Product
<1>3. Runs \subseteq (1 .. Len(toSend)) \X (1 .. Len(toSend))
  BY DEF Runs
<1> QED BY <1>2, <1>3, FS_Subset

\* An order of the runs in R: each once, by falling fee.
IsOrder(o, R) ==
  /\ o \in Seq(Runs) /\ Range(o) = R /\ IsInjective(o)
  /\ \A i, j \in DOMAIN o : i < j => FeeOf(o[i]) >= FeeOf(o[j])

\* A dearest run in front of an order of the others.
LEMMA FirstOfOrder ==
  ASSUME NEW R \in SUBSET Runs, NEW r \in R, \A s \in R : FeeOf(r) >= FeeOf(s),
         NEW o, IsOrder(o, R \ {r})
  PROVE  IsOrder(<<r>> \o o, R)
<1> DEFINE u == <<r>> \o o
<1>1. <<r>> \in Seq(Runs) /\ o \in Seq(Runs) /\ Range(<<r>>) = {r} /\ IsInjective(<<r>>)
  <2>1. r \in Runs /\ o \in Seq(Runs)
    BY DEF IsOrder
  <2>2. <<r>> \in Seq(Runs) /\ DOMAIN <<r>> = {1} /\ <<r>>[1] = r
    BY <2>1
  <2> QED BY <2>1, <2>2 DEF Range, IsInjective
<1>2. u \in Seq(Runs) /\ Range(u) = {r} \cup (R \ {r}) /\ IsInjective(u)
  <2>1. Range(<<r>>) \cap Range(o) = {} /\ IsInjective(o) /\ Range(o) = R \ {r}
    BY <1>1 DEF IsOrder
  <2> DEFINE t == <<r>>
  <2>2. t \in Seq(Runs) /\ o \in Seq(Runs) /\ Range(t) = {r} /\ IsInjective(t)
    BY <1>1
  <2>3. Range(t) \cap Range(o) = {} /\ u = t \o o
    BY <2>1
  <2> HIDE DEF t, u
  <2>4. t \o o \in Seq(Runs) /\ Range(t \o o) = Range(t) \cup Range(o) /\ IsInjective(t \o o)
    BY <2>1, <2>2, <2>3, Concatenated
  <2> QED BY <2>1, <2>2, <2>3, <2>4
<1>3. /\ Len(u) = Len(o) + 1 /\ Len(o) \in Nat
      /\ u[1] = r /\ \A i \in 1 .. Len(o) : u[i + 1] = o[i]
  <2>1. Len(<<r>>) = 1 /\ <<r>>[1] = r
    OBVIOUS
  <2>2. /\ Len(u) = 1 + Len(o) /\ Len(o) \in Nat
        /\ \A i \in 1 .. 1 + Len(o) : u[i] = IF i <= 1 THEN <<r>>[i] ELSE o[i - 1]
    BY <1>1, <2>1, ConcatProperties
  <2> HIDE DEF u
  <2>3. \A i \in 1 .. Len(o) : i + 1 \in 1 .. 1 + Len(o) /\ ~ (i + 1 <= 1) /\ (i + 1) - 1 = i
    BY <2>2
  <2>4. \A i \in 1 .. Len(o) : u[i + 1] = o[i]
    BY <2>2, <2>3
  <2> QED BY <2>1, <2>2, <2>4
<1> HIDE DEF u
<1>4. ASSUME NEW i \in DOMAIN u, NEW j \in DOMAIN u, i < j
      PROVE  FeeOf(u[i]) >= FeeOf(u[j])
  <2>0. DOMAIN u = 1 .. Len(o) + 1 /\ DOMAIN o = 1 .. Len(o) /\ i \in Nat /\ j \in Nat
    BY <1>1, <1>2, <1>3
  <2>1. CASE i = 1
    <3>1. u[j] \in R
      BY <1>2 DEF Range
    <3> QED BY <1>3, <2>1, <3>1
  <2>2. CASE i # 1
    <3>1. i - 1 \in DOMAIN o /\ j - 1 \in DOMAIN o /\ i - 1 < j - 1
          /\ (i - 1) + 1 = i /\ (j - 1) + 1 = j
      BY <1>4, <2>0, <2>2
    <3>2. u[i] = o[i - 1] /\ u[j] = o[j - 1]
      BY <1>3, <2>0, <3>1
    <3>3. FeeOf(o[i - 1]) >= FeeOf(o[j - 1])
      BY <3>1 DEF IsOrder
    <3> QED BY <3>2, <3>3
  <2> QED BY <2>1, <2>2
<1>5. {r} \cup (R \ {r}) = R
  OBVIOUS
<1> QED BY <1>2, <1>4, <1>5 DEF IsOrder, u

\* What `Sorted` builds recursively are orders of the runs.
LEMMA SortedOrders ==
  ASSUME IsFiniteSet(Runs), NEW o \in Sorted
  PROVE  IsOrder(o, Runs)
<1> DEFINE Tops(R) == {q \in R : \A s \in R : FeeOf(q) >= FeeOf(s)}
           D(g, R) == IF R = {} THEN {<<>>}
                      ELSE UNION { {<<r>> \o p : p \in g[R \ {r}]} : r \in Tops(R) }
           Small(n) == {R \in SUBSET Runs : Cardinality(R) <= n}
           Ordered(n) == \E g : \A R \in Small(n) : g[R] = D(g, R)
           N == Cardinality(Runs)
           orders == CHOOSE g : g = [R \in SUBSET Runs |-> D(g, R)]
<1>1. \A R \in SUBSET Runs : IsFiniteSet(R) /\ Cardinality(R) \in Nat /\ Cardinality(R) <= N
  BY FS_Subset, FS_CardinalityType
<1>2. N \in Nat
  BY FS_CardinalityType
<1>3. ASSUME NEW n \in Nat, NEW R \in Small(n + 1), NEW r \in R
      PROVE  R \ {r} \in Small(n)
  <2>1. Cardinality(R \ {r}) = Cardinality(R) - 1
    BY <1>1, FS_RemoveElement
  <2> QED BY <1>1, <2>1
<1>4. \A R \in Small(0) : R = {}
  BY <1>1, FS_EmptySet
<1>5. Sorted = orders[Runs]
  BY Zenon DEF Sorted
<1>6. ASSUME NEW g, NEW h, NEW R \in SUBSET Runs, \A r \in R : g[R \ {r}] = h[R \ {r}]
      PROVE  D(g, R) = D(h, R)
  <2>1. \A r \in Tops(R) : g[R \ {r}] = h[R \ {r}]
    BY <1>6
  <2> HIDE DEF Tops
  <2> QED BY <2>1
<1> HIDE DEF D
<1>7. Ordered(0)
  <2> DEFINE g == [R \in {{}} |-> {<<>>}]
  <2>1. g[{}] = {<<>>}
    OBVIOUS
  <2>2. D(g, {}) = {<<>>}
    BY DEF D
  <2> QED BY <1>4, <2>1, <2>2
<1>8. ASSUME NEW n \in Nat, Ordered(n) PROVE Ordered(n + 1)
  <2>1. PICK g : \A R \in Small(n) : g[R] = D(g, R)
    BY <1>8
  <2> DEFINE h == [R \in Small(n + 1) |-> D(g, R)]
  <2>2. Small(n) \subseteq Small(n + 1)
    BY <1>1
  <2> HIDE DEF Small
  <2>3. \A R \in Small(n + 1) : h[R] = D(g, R)
    OBVIOUS
  <2>4. \A R \in Small(n) : h[R] = g[R]
    BY <2>1, <2>2, <2>3
  <2>5. \A R \in Small(n + 1) : D(g, R) = D(h, R)
    <3> HIDE DEF h
    <3> TAKE R \in Small(n + 1)
    <3>1. R \in SUBSET Runs
      BY DEF Small
    <3>2. \A r \in R : g[R \ {r}] = h[R \ {r}]
      BY <1>3, <2>4
    <3> QED BY <1>6, <3>1, <3>2
  <2> HIDE DEF h
  <2> QED BY <2>3, <2>5
<1>9. Ordered(N)
  <2> DEFINE Have == {n \in Nat : Ordered(n)}
  <2> HIDE DEF Ordered
  <2>1. 0 \in Have /\ \A n \in Nat : n \in Have => n + 1 \in Have
    BY <1>7, <1>8
  <2> HIDE DEF Have
  <2>2. Nat \subseteq Have
    BY <2>1, SetInduction
  <2> QED BY <1>2, <2>2 DEF Have
<1>10. orders = [R \in SUBSET Runs |-> D(orders, R)]
  <2>1. PICK g : \A R \in SUBSET Runs : g[R] = D(g, R)
    BY <1>1, <1>9
  <2> DEFINE h == [R \in SUBSET Runs |-> g[R]]
  <2>2. \A R \in SUBSET Runs : D(h, R) = D(g, R)
    BY <1>6
  <2>3. h = [R \in SUBSET Runs |-> D(h, R)]
    BY <2>1, <2>2
  <2> HIDE DEF h
  <2> QED BY <2>3
<1> HIDE DEF orders
<1>11. \A R \in SUBSET Runs : orders[R] = D(orders, R)
  BY <1>10
<1> DEFINE Good(n) == \A R \in Small(n) : \A p \in orders[R] : IsOrder(p, R)
<1>12. Good(0)
  <2> SUFFICES ASSUME NEW p \in orders[{}] PROVE IsOrder(p, {})
    BY <1>4
  <2>1. p = <<>>
    BY <1>11 DEF D
  <2> QED BY <2>1 DEF IsOrder, Range, IsInjective
<1>13. ASSUME NEW n \in Nat, Good(n) PROVE Good(n + 1)
  <2> SUFFICES ASSUME NEW R \in Small(n + 1), NEW p \in orders[R] PROVE IsOrder(p, R)
    OBVIOUS
  <2>1. R \in SUBSET Runs /\ p \in D(orders, R)
    BY <1>11
  <2>2. CASE R = {}
    <3>1. R \in Small(0)
      BY <2>2, <1>1, FS_EmptySet
    <3> QED BY <1>12, <3>1
  <2>3. CASE R # {}
    <3>1. PICK r \in Tops(R) : \E q \in orders[R \ {r}] : p = <<r>> \o q
      BY <2>1, <2>3 DEF D
    <3>2. PICK q \in orders[R \ {r}] : p = <<r>> \o q
      BY <3>1
    <3>3. r \in R /\ \A s \in R : FeeOf(r) >= FeeOf(s)
      OBVIOUS
    <3>4. IsOrder(q, R \ {r})
      BY <1>3, <1>13, <3>2, <3>3
    <3> QED BY <2>1, <3>2, <3>3, <3>4, FirstOfOrder
  <2> QED BY <2>2, <2>3
<1>14. Good(N)
  <2> DEFINE Have == {n \in Nat : Good(n)}
  <2> HIDE DEF Good
  <2>1. 0 \in Have /\ \A n \in Nat : n \in Have => n + 1 \in Have
    BY <1>12, <1>13
  <2> HIDE DEF Have
  <2>2. Nat \subseteq Have
    BY <2>1, SetInduction
  <2> QED BY <1>2, <2>2 DEF Have
<1>15. Runs \in Small(N)
  BY <1>1, <1>2
<1> QED BY <1>5, <1>14, <1>15

-----------------------------------------------------------------------------
(* The items of a run.                                                     *)

\* The items of a transaction.
Leader(k) == AsGroup(k)[1]
Members(k) == DOMAIN toSend[k].calls
ItemsOf(r) ==
  IF r[1] = r[2] THEN {Single(r[1], n, toSend[r[1]].calls[n]) : n \in Members(r[1])}
  ELSE {Leader(r[1])} \cup UNION {{Single(k, n, TRUE) : n \in Members(k)} : k \in r[1] + 1 .. r[2]}

\* An item of one call.
LEMMA SingleFacts ==
  \A k, n, may :
    /\ Single(k, n, may).may = may
    /\ DOMAIN Single(k, n, may).calls = {1}
    /\ Single(k, n, may).calls[1].id = <<k, n>>
    /\ Single(k, n, may).calls[1].may = FALSE
    /\ Ids(Single(k, n, may)) = {<<k, n>>}
<1> TAKE k, n, may
<1> DEFINE item == Single(k, n, may)
<1>1. item.may = may /\ item.calls = <<[id |-> <<k, n>>, may |-> FALSE]>>
  BY DEF Single, Id
<1>2. DOMAIN item.calls = {1} /\ item.calls[1] = [id |-> <<k, n>>, may |-> FALSE]
  BY <1>1
<1>3. Ids(item) = {item.calls[1].id}
  BY <1>2 DEF Ids
<1> QED BY <1>1, <1>2, <1>3

\* Items of different calls are different.
LEMMA SingleDiffers ==
  \A k, n, a, j, m, b : Single(k, n, a) = Single(j, m, b) => k = j /\ n = m
<1> TAKE k, n, a, j, m, b
<1> HAVE Single(k, n, a) = Single(j, m, b)
<1>1. Ids(Single(k, n, a)) = {<<k, n>>} /\ Ids(Single(j, m, b)) = {<<j, m>>}
  BY SingleFacts
<1>2. {<<k, n>>} = {<<j, m>>}
  BY <1>1
<1>3. <<k, n>> = <<j, m>>
  BY ONLY <1>2
<1> QED BY ONLY <1>3

\* The group a multicall becomes when others are appended to it.
LEMMA LeaderFacts ==
  \A k :
    /\ Leader(k).may = TRUE
    /\ DOMAIN Leader(k).calls = Members(k)
    /\ \A n \in Members(k) : /\ Leader(k).calls[n].id = <<k, n>>
                             /\ Leader(k).calls[n].may = toSend[k].calls[n]
    /\ Ids(Leader(k)) = CallsOf(k)
<1> TAKE k
<1> DEFINE item == Leader(k)
<1>1. item = [may |-> TRUE, calls |-> [n \in Members(k) |-> [id |-> <<k, n>>, may |-> toSend[k].calls[n]]]]
  BY DEF Leader, AsGroup, Id, Members
<1>2. /\ item.may = TRUE
      /\ item.calls = [n \in Members(k) |-> [id |-> <<k, n>>, may |-> toSend[k].calls[n]]]
  BY <1>1
<1> HIDE DEF item
<1>3. /\ DOMAIN item.calls = Members(k)
      /\ \A n \in Members(k) : item.calls[n] = [id |-> <<k, n>>, may |-> toSend[k].calls[n]]
  BY <1>2
<1>4. \A n \in Members(k) : item.calls[n].id = <<k, n>> /\ item.calls[n].may = toSend[k].calls[n]
  <2> TAKE n \in Members(k)
  <2>1. item.calls[n] = [id |-> <<k, n>>, may |-> toSend[k].calls[n]]
    BY <1>3
  <2> QED BY ONLY <2>1
<1>5. Ids(item) = {<<k, n>> : n \in Members(k)}
  BY <1>3, <1>4 DEF Ids
<1>6. Ids(item) = CallsOf(k)
  BY <1>5 DEF CallsOf, Id, Members
<1> QED BY <1>2, <1>3, <1>4, <1>6 DEF item

\* The items of what is appended, as a set.
LEMMA SinglesOf ==
  ASSUME toSend \in Seq(Multicalls), NEW k \in DOMAIN toSend, NEW s,
         \A n \in Members(k) : \E may : s[n] = Single(k, n, may),
         s = [n \in Members(k) |-> s[n]]
  PROVE  s \in Seq(Range(s)) /\ IsInjective(s)
<1>1. toSend[k].calls \in Seq(BOOLEAN)
  <2>1. toSend[k] \in Multicalls
    OBVIOUS
  <2> QED BY ONLY <2>1 DEF Multicalls
<1>2. Members(k) = 1 .. Len(toSend[k].calls) /\ Len(toSend[k].calls) \in Nat
  BY <1>1 DEF Members
<1>3. IsInjective(s)
  <2> SUFFICES ASSUME NEW i \in Members(k), NEW j \in Members(k), s[i] = s[j] PROVE i = j
    BY DEF IsInjective
  <2>1. PICK a : s[i] = Single(k, i, a)
    OBVIOUS
  <2>2. PICK b : s[j] = Single(k, j, b)
    OBVIOUS
  <2>3. Single(k, i, a) = Single(k, j, b)
    BY <2>1, <2>2
  <2> QED BY ONLY <2>3, SingleDiffers
<1>4. \A n \in Members(k) : s[n] \in Range(s)
  BY DEF Range
<1>5. s \in [1 .. Len(toSend[k].calls) -> Range(s)]
  BY <1>2, <1>4
<1>6. s \in Seq(Range(s))
  BY <1>2, <1>5, SeqDef
<1> QED BY <1>3, <1>6

\* The items of a transaction, each in one place.
LEMMA Merged ==
  ASSUME toSend \in Seq(Multicalls), NEW r \in Runs
  PROVE  /\ Range(Merge(r)) = ItemsOf(r)
         /\ IsInjective(Merge(r))
         /\ DOMAIN Merge(r) = 1 .. Len(Merge(r)) /\ Len(Merge(r)) \in Nat
<1>1. /\ r[1] \in DOMAIN toSend /\ r[2] \in Nat /\ r[1] \in Nat /\ r[1] <= r[2]
      /\ \A k \in r[1] .. r[2] : k \in DOMAIN toSend
  BY RunFacts
<1>2. CASE r[1] = r[2]
  <2> DEFINE s == Plain(r[1])
  <2>1. Merge(r) = s
    BY <1>2 DEF Merge
  <2>2. s = [n \in Members(r[1]) |-> Single(r[1], n, toSend[r[1]].calls[n])]
    BY DEF Plain, Members
  <2>3. /\ s = [n \in Members(r[1]) |-> s[n]]
        /\ \A n \in Members(r[1]) : s[n] = Single(r[1], n, toSend[r[1]].calls[n])
    BY <2>2
  <2> HIDE DEF s
  <2>4. s \in Seq(Range(s)) /\ IsInjective(s)
    BY <1>1, <2>3, SinglesOf
  <2>5. Range(s) = {Single(r[1], n, toSend[r[1]].calls[n]) : n \in Members(r[1])}
    BY <2>3 DEF Range
  <2> QED BY <1>2, <2>1, <2>4, <2>5 DEF ItemsOf
<1>3. CASE r[1] # r[2]
  <2> DEFINE N == r[2] - r[1]
             ss == [i \in 1 .. N |-> Added(r[1] + i)]
             t == FlattenSeq(ss)
             Added1(k) == {Single(k, n, TRUE) : n \in Members(k)}
             S == {Leader(r[1])} \cup UNION {Added1(k) : k \in r[1] + 1 .. r[2]}
  <2>0. /\ N \in Nat \ {0} /\ \A i \in 1 .. N : r[1] + i \in r[1] + 1 .. r[2]
        /\ \A i, j \in 1 .. N : i # j => r[1] + i # r[1] + j
        /\ \A k \in r[1] + 1 .. r[2] : k - r[1] \in 1 .. N /\ r[1] + (k - r[1]) = k /\ k # r[1]
                                       /\ k \in DOMAIN toSend
    <3>1. N \in Nat \ {0}
      BY <1>1, <1>3
    <3>2. \A i \in 1 .. N : r[1] + i \in r[1] + 1 .. r[2]
      BY <1>1
    <3>3. \A i, j \in 1 .. N : i # j => r[1] + i # r[1] + j
      BY <1>1
    <3>4. \A k \in r[1] + 1 .. r[2] : /\ k - r[1] \in 1 .. N /\ r[1] + (k - r[1]) = k /\ k # r[1]
                                      /\ k \in r[1] .. r[2]
      BY <1>1
    <3> HIDE DEF N
    <3> QED BY <1>1, <3>1, <3>2, <3>3, <3>4
  <2>1. ASSUME NEW k \in r[1] + 1 .. r[2]
        PROVE  /\ Added(k) \in Seq(Range(Added(k))) /\ IsInjective(Added(k))
               /\ Range(Added(k)) = Added1(k)
    <3> DEFINE a == Added(k)
    <3>1. a = [n \in Members(k) |-> Single(k, n, TRUE)]
      BY DEF Added, Members
    <3>2. a = [n \in Members(k) |-> a[n]] /\ \A n \in Members(k) : a[n] = Single(k, n, TRUE)
      BY <3>1
    <3> HIDE DEF a
    <3>3. a \in Seq(Range(a)) /\ IsInjective(a)
      BY <2>0, <3>2, SinglesOf
    <3>4. Range(a) = Added1(k)
      BY <3>2 DEF Range
    <3> QED BY <3>3, <3>4 DEF a
  <2>2. ss \in [1 .. N -> Seq(S)]
    <3> SUFFICES ASSUME NEW i \in 1 .. N PROVE Added(r[1] + i) \in Seq(S)
      OBVIOUS
    <3>1. Added(r[1] + i) \in Seq(Added1(r[1] + i)) /\ r[1] + i \in r[1] + 1 .. r[2]
      BY <2>0, <2>1
    <3>2. Added1(r[1] + i) \subseteq S
      BY <3>1
    <3> HIDE DEF Added1, S
    <3> QED BY <3>1, <3>2
  <2>3. \A i \in 1 .. N : IsInjective(ss[i]) /\ Range(ss[i]) = Added1(r[1] + i)
    BY <2>0, <2>1
  <2>4. ASSUME NEW i \in 1 .. N, NEW j \in 1 .. N, i # j
        PROVE  Range(ss[i]) \cap Range(ss[j]) = {}
    <3>1. r[1] + i # r[1] + j
      BY <2>0, <2>4
    <3>2. Added1(r[1] + i) \cap Added1(r[1] + j) = {}
      <4>1. \A k, n, l, m : Single(k, n, TRUE) = Single(l, m, TRUE) => k = l
        <5> SUFFICES ASSUME NEW k, NEW n, NEW l, NEW m, Single(k, n, TRUE) = Single(l, m, TRUE)
                     PROVE  k = l
          OBVIOUS
        <5>1. Ids(Single(k, n, TRUE)) = {<<k, n>>}
          BY SingleFacts, Zenon
        <5>2. Ids(Single(l, m, TRUE)) = {<<l, m>>}
          BY SingleFacts, Zenon
        <5>3. <<k, n>> = <<l, m>>
          BY <5>1, <5>2
        <5> QED BY ONLY <5>3
      <4> QED BY <3>1, <4>1
    <3> HIDE DEF ss, Added1
    <3> QED BY <2>3, <3>2
  <2> HIDE DEF N, ss, Added1, S
  <2>5. t \in Seq(S) /\ Range(t) = UNION {Range(ss[i]) : i \in 1 .. N} /\ IsInjective(t)
    <3>1. N \in Nat \ {0}
      BY <2>0
    <3>2. \A i \in 1 .. N : IsInjective(ss[i])
      BY <2>3
    <3>3. \A i, j \in 1 .. N : i # j => Range(ss[i]) \cap Range(ss[j]) = {}
      BY <2>4
    <3> QED BY ONLY <2>2, <3>1, <3>2, <3>3, Flattened DEF t
  <2>6. Range(t) = UNION {Added1(k) : k \in r[1] + 1 .. r[2]}
    <3>1. UNION {Range(ss[i]) : i \in 1 .. N} = UNION {Added1(r[1] + i) : i \in 1 .. N}
      BY <2>3
    <3>2. UNION {Added1(r[1] + i) : i \in 1 .. N} = UNION {Added1(k) : k \in r[1] + 1 .. r[2]}
      <4>1. ASSUME NEW x, NEW i \in 1 .. N, x \in Added1(r[1] + i)
            PROVE  \E k \in r[1] + 1 .. r[2] : x \in Added1(k)
        BY <2>0, <4>1
      <4>2. ASSUME NEW x, NEW k \in r[1] + 1 .. r[2], x \in Added1(k)
            PROVE  \E i \in 1 .. N : x \in Added1(r[1] + i)
        <5>1. k - r[1] \in 1 .. N /\ Added1(r[1] + (k - r[1])) = Added1(k)
          BY <2>0
        <5> QED BY <4>2, <5>1
      <4> QED BY <4>1, <4>2
    <3> HIDE DEF t
    <3> QED BY <2>5, <3>1, <3>2
  <2> DEFINE g == AsGroup(r[1])
  <2>7. g = <<Leader(r[1])>> /\ g \in Seq(S) /\ Range(g) = {Leader(r[1])} /\ IsInjective(g)
    <3>1. g = <<Leader(r[1])>>
      BY DEF Leader, AsGroup
    <3>2. DOMAIN g = {1} /\ g[1] = Leader(r[1])
      BY <3>1
    <3>3. Leader(r[1]) \in S
      BY DEF S
    <3> HIDE DEF g
    <3>4. g \in Seq(S)
      BY <3>1, <3>3
    <3> QED BY <3>1, <3>2, <3>4 DEF Range, IsInjective
  <2>8. Range(g) \cap Range(t) = {}
    <3> SUFFICES ASSUME NEW k \in r[1] + 1 .. r[2], Leader(r[1]) \in Added1(k) PROVE FALSE
      BY <2>6, <2>7
    <3>1. PICK n \in Members(k) : Leader(r[1]) = Single(k, n, TRUE)
      BY DEF Added1
    <3>2. DOMAIN Leader(r[1]).calls = {1} /\ Leader(r[1]).calls[1].id = <<k, n>>
      <4>1. /\ DOMAIN Single(k, n, TRUE).calls = {1}
            /\ Single(k, n, TRUE).calls[1].id = <<k, n>>
        BY SingleFacts, Zenon
      <4> QED BY <3>1, <4>1
    <3>3. 1 \in Members(r[1]) /\ Leader(r[1]).calls[1].id = <<r[1], 1>>
      BY <3>2, LeaderFacts
    <3>4. k = r[1]
      BY <3>2, <3>3
    <3> QED BY <2>0, <3>4
  <2>9. Merge(r) = g \o t
    BY <1>3 DEF Merge, t, ss, N
  <2> HIDE DEF g, t
  <2>10. g \o t \in Seq(S) /\ Range(g \o t) = Range(g) \cup Range(t) /\ IsInjective(g \o t)
    BY <2>5, <2>7, <2>8, Concatenated
  <2>11. Range(Merge(r)) = ItemsOf(r)
    BY <1>3, <2>6, <2>7, <2>9, <2>10 DEF ItemsOf, Added1
  <2> QED BY <2>9, <2>10, <2>11
<1> QED BY <1>2, <1>3

-----------------------------------------------------------------------------
(* The invariant, and what it says of the fees.                            *)

\* What a multicall offers, by where its monitor wants it.
Offers(c) ==
  /\ c.side = "first" => c.fee = FirstFee
  /\ c.side = "front" => c.level \in DOMAIN block /\ c.fee = FrontFee(c.level)
  /\ c.side = "back"  => c.level \in DOMAIN block /\ c.fee = BackFee(c.level)

\* The transactions are those of an order of the runs.
Built(o) ==
  /\ IsOrder(o, Runs)
  /\ txs = [i \in DOMAIN o |-> [nonce |-> FirstNonce + i - 1,
                                fee   |-> FeeOf(o[i]),
                                max   |-> baseFee + FeeOf(o[i]),
                                items |-> Merge(o[i])]]

\* Every multicall in the list offers what its place asks for, and the
\* transactions are those of an order of the runs.
SendInv ==
  /\ raw \in Answers \cup {NoAnswer}
  /\ baseFeeGiven \in BaseFees
  /\ block \in Seq(Range(block)) /\ Len(block) <= MaxBlockTxs
  /\ \A i \in DOMAIN block : PriorityFee(block[i].tx) \in Nat
  /\ level \in [Monitors -> 1 .. Len(block) + 1]
  /\ half \subseteq running /\ running \subseteq Monitors
  /\ \A m \in half : level[m] <= Len(block)
  /\ toSend \in Seq(Multicalls)
  /\ \A k \in DOMAIN toSend : Offers(toSend[k])
  /\ outcome \in {"answered", "running", "failed", "elapsed", "panicked", "extracted"}
  /\ outcome = "answered" => raw \in Answers /\ block = <<>> /\ toSend = <<>>
  /\ IF outcome = "extracted" THEN \E o : Built(o) ELSE txs = <<>>

\* What an order makes of the runs, transaction by transaction.
LEMMA BuiltFacts ==
  ASSUME toSend \in Seq(Multicalls), NEW o, Built(o)
  PROVE  /\ DOMAIN txs = DOMAIN o /\ DOMAIN o = 1 .. Len(o) /\ Len(o) \in Nat
         /\ \A i \in DOMAIN o : /\ o[i] \in Runs
                                /\ txs[i].nonce = FirstNonce + i - 1
                                /\ txs[i].fee = FeeOf(o[i])
                                /\ txs[i].max = baseFee + FeeOf(o[i])
                                /\ txs[i].items = Merge(o[i])
         /\ \A r \in Runs : \E i \in DOMAIN o : o[i] = r
         /\ \A i, j \in DOMAIN o : o[i] = o[j] => i = j
         /\ \A i, j \in DOMAIN o : i < j => FeeOf(o[i]) >= FeeOf(o[j])
<1>1. /\ o \in Seq(Runs) /\ Range(o) = Runs /\ IsInjective(o)
      /\ \A i, j \in DOMAIN o : i < j => FeeOf(o[i]) >= FeeOf(o[j])
  BY DEF Built, IsOrder
<1>2. DOMAIN txs = DOMAIN o
  BY DEF Built
<1>3. ASSUME NEW i \in DOMAIN o
      PROVE  /\ o[i] \in Runs
             /\ txs[i].nonce = FirstNonce + i - 1 /\ txs[i].fee = FeeOf(o[i])
             /\ txs[i].max = baseFee + FeeOf(o[i]) /\ txs[i].items = Merge(o[i])
  <2>1. txs[i] = [nonce |-> FirstNonce + i - 1, fee |-> FeeOf(o[i]),
                  max |-> baseFee + FeeOf(o[i]), items |-> Merge(o[i])]
    BY DEF Built
  <2> QED BY <1>1, <2>1
<1>4. \A r \in Runs : \E i \in DOMAIN o : o[i] = r
  BY <1>1 DEF Range
<1>5. \A i, j \in DOMAIN o : o[i] = o[j] => i = j
  BY <1>1 DEF IsInjective
<1>6. DOMAIN o = 1 .. Len(o) /\ Len(o) \in Nat
  BY <1>1
<1> QED BY <1>1, <1>2, <1>3, <1>4, <1>5, <1>6

\* The calls of a transaction are those of its run.
LEMMA CallsOfItems ==
  ASSUME toSend \in Seq(Multicalls), NEW r \in Runs
  PROVE  UNION {Ids(x) : x \in ItemsOf(r)} = UNION {CallsOf(k) : k \in r[1] .. r[2]}
<1>1. /\ r[1] \in Nat /\ r[2] \in Nat /\ r[1] <= r[2]
  BY RunFacts
<1>2. \A k : CallsOf(k) = {<<k, n>> : n \in Members(k)}
  BY DEF CallsOf, Id, Members
<1>3. \A k, n : Ids(Single(k, n, TRUE)) = {<<k, n>>}
  BY SingleFacts, Zenon
<1>4. \A k, n, a : Ids(Single(k, n, a)) = {<<k, n>>}
  BY SingleFacts
<1>5. CASE r[1] = r[2]
  <2>1. r[1] .. r[2] = {r[1]}
    BY <1>1, <1>5
  <2>2. UNION {Ids(x) : x \in ItemsOf(r)}
          = UNION {Ids(Single(r[1], n, toSend[r[1]].calls[n])) : n \in Members(r[1])}
    BY <1>5 DEF ItemsOf
  <2>3. @ = CallsOf(r[1])
    BY <1>2, <1>4
  <2> QED BY <2>1, <2>2, <2>3
<1>6. CASE r[1] # r[2]
  <2>1. r[1] .. r[2] = {r[1]} \cup (r[1] + 1 .. r[2])
    BY <1>1
  <2>2. Ids(Leader(r[1])) = CallsOf(r[1])
    BY LeaderFacts
  <2>3. UNION {Ids(x) : x \in UNION {{Single(k, n, TRUE) : n \in Members(k)} : k \in r[1] + 1 .. r[2]}}
          = UNION {CallsOf(k) : k \in r[1] + 1 .. r[2]}
    <3> DEFINE A(k) == {Single(k, n, TRUE) : n \in Members(k)}
    <3>1. ASSUME NEW k PROVE UNION {Ids(x) : x \in A(k)} = CallsOf(k)
      <4>1. UNION {Ids(x) : x \in A(k)} = UNION {Ids(Single(k, n, TRUE)) : n \in Members(k)}
        OBVIOUS
      <4>2. @ = UNION {{<<k, n>>} : n \in Members(k)}
        <5>1. \A n : Ids(Single(k, n, TRUE)) = {<<k, n>>}
          BY <1>3, Zenon
        <5> QED BY <5>1
      <4>3. @ = CallsOf(k)
        BY <1>2
      <4> HIDE DEF A
      <4> QED BY <4>1, <4>2, <4>3
    <3> HIDE DEF A
    <3>2. UNION {Ids(x) : x \in UNION {A(k) : k \in r[1] + 1 .. r[2]}}
            = UNION {UNION {Ids(x) : x \in A(k)} : k \in r[1] + 1 .. r[2]}
      OBVIOUS
    <3>3. @ = UNION {CallsOf(k) : k \in r[1] + 1 .. r[2]}
      BY <3>1
    <3> QED BY <3>2, <3>3 DEF A
  <2>4. ItemsOf(r) = {Leader(r[1])} \cup UNION {{Single(k, n, TRUE) : n \in Members(k)} : k \in r[1] + 1 .. r[2]}
    BY <1>6 DEF ItemsOf
  <2> QED BY <2>1, <2>2, <2>3, <2>4
<1> QED BY <1>5, <1>6

\* The same of the transaction.
LEMMA CallsOfTx ==
  ASSUME toSend \in Seq(Multicalls), NEW r \in Runs, NEW t, t.items = Merge(r)
  PROVE  TxIds(t) = UNION {CallsOf(k) : k \in r[1] .. r[2]}
<1>1. TxIds(t) = UNION {Ids(x) : x \in Range(Merge(r))}
  BY DEF TxIds, Range
<1>2. Range(Merge(r)) = ItemsOf(r)
  BY Merged
<1> QED BY <1>1, <1>2, CallsOfItems

\* Two multicalls share no call.
LEMMA CallsDiffer ==
  \A k, l : k # l => CallsOf(k) \cap CallsOf(l) = {}
BY DEF CallsOf, Id

\* A transaction pays the fee of every multicall it carries.
LEMMA CarriesRun ==
  ASSUME toSend \in Seq(Multicalls), NEW o, Built(o),
         NEW i \in DOMAIN txs, NEW k \in DOMAIN toSend, Carries(txs[i], k)
  PROVE  k \in o[i][1] .. o[i][2] /\ txs[i].fee = toSend[k].fee
<1>1. i \in DOMAIN o /\ o[i] \in Runs /\ txs[i].items = Merge(o[i]) /\ txs[i].fee = FeeOf(o[i])
  BY BuiltFacts
<1>2. TxIds(txs[i]) = UNION {CallsOf(l) : l \in o[i][1] .. o[i][2]}
  BY <1>1, CallsOfTx
<1>3. PICK l \in o[i][1] .. o[i][2] : CallsOf(k) \cap CallsOf(l) # {}
  BY <1>2 DEF Carries
<1>4. k = l
  BY <1>3, CallsDiffer
<1> QED BY <1>1, <1>3, <1>4, RunFacts

\* The order of the transactions is that of their runs.
LEMMA OrderedByFee ==
  SendInv => NoncesFollowFees
<1> SUFFICES ASSUME SendInv, NEW i \in DOMAIN txs, NEW j \in DOMAIN txs, i < j
             PROVE  txs[i].fee >= txs[j].fee
  BY DEF NoncesFollowFees
<1>1. outcome = "extracted"
  BY DEF SendInv
<1>2. PICK o : Built(o)
  BY <1>1 DEF SendInv
<1>3. toSend \in Seq(Multicalls)
  BY DEF SendInv
<1>4. i \in DOMAIN o /\ j \in DOMAIN o /\ txs[i].fee = FeeOf(o[i]) /\ txs[j].fee = FeeOf(o[j])
      /\ FeeOf(o[i]) >= FeeOf(o[j])
  BY <1>2, <1>3, BuiltFacts
<1> QED BY <1>4

\* The optional base fee is a number, 0 when there is none.
LEMMA BaseFeeNat == SendInv => baseFee \in Nat
<1> SUFFICES ASSUME SendInv PROVE baseFee \in Nat
  OBVIOUS
<1>1. IsOption(baseFeeGiven)
  BY FeesAssumption DEF SendInv
<1> QED BY <1>1 DEF IsOption, baseFee, OrElse, The, None

\* All fees are numbers.
LEMMA FeesNat ==
  SendInv => /\ \A k \in DOMAIN toSend : toSend[k].fee \in Nat
             /\ FirstFee \in Nat
             /\ \A i \in DOMAIN block : FrontFee(i) \in Nat /\ BackFee(i) \in Nat
<1> SUFFICES ASSUME SendInv
             PROVE  /\ \A k \in DOMAIN toSend : toSend[k].fee \in Nat
                    /\ FirstFee \in Nat
                    /\ \A i \in DOMAIN block : FrontFee(i) \in Nat /\ BackFee(i) \in Nat
  OBVIOUS
<1>1. baseFee \in Nat
  BY BaseFeeNat
<1>2. \A i \in DOMAIN block : PriorityFee(block[i].tx) \in Nat
  BY DEF SendInv
<1>3. \A i \in DOMAIN block : FrontFee(i) \in Nat /\ BackFee(i) \in Nat
  BY <1>1, <1>2 DEF FrontFee, BackFee
<1>4. FirstFee \in Nat
  <2>1. block # <<>> => 1 \in DOMAIN block
    BY DEF SendInv
  <2> QED BY <1>2, <2>1 DEF FirstFee
<1>5. \A k \in DOMAIN toSend : toSend[k].fee \in Nat
  <2>1. \A k \in DOMAIN toSend : toSend[k] \in Multicalls
    BY DEF SendInv
  <2> QED BY <2>1 DEF Multicalls
<1> QED BY <1>3, <1>4, <1>5

\* A multicall in front of a level is dearer, so it is in an earlier
\* transaction.
LEMMA SurroundsByFee ==
  SendInv => SurroundsLevel
<1> SUFFICES ASSUME SendInv, NEW k \in DOMAIN toSend, NEW l \in DOMAIN toSend,
                    NEW i \in DOMAIN txs, NEW j \in DOMAIN txs,
                    toSend[k].side = "front", toSend[l].side = "back",
                    toSend[k].mon = toSend[l].mon, toSend[k].level = toSend[l].level,
                    Carries(txs[i], k), Carries(txs[j], l)
             PROVE  /\ i < j
                    /\ txs[i].fee > baseFee + PriorityFee(block[toSend[k].level].tx)
                    /\ txs[j].fee = baseFee + PriorityFee(block[toSend[k].level].tx)
  BY DEF SurroundsLevel
<1>1. PICK o : Built(o)
  BY DEF SendInv
<1>2. toSend \in Seq(Multicalls)
  BY DEF SendInv
<1>3. txs[i].fee = toSend[k].fee /\ txs[j].fee = toSend[l].fee
  BY <1>1, <1>2, CarriesRun
<1>4. /\ toSend[k].level \in DOMAIN block
      /\ toSend[k].fee = FrontFee(toSend[k].level)
      /\ toSend[l].fee = BackFee(toSend[k].level)
  BY DEF SendInv, Offers
<1>5. BackFee(toSend[k].level) \in Nat
  BY <1>4, FeesNat
<1>6. txs[i].fee > BackFee(toSend[k].level) /\ txs[j].fee = BackFee(toSend[k].level)
  BY <1>3, <1>4, <1>5 DEF FrontFee
<1>7. i \in Nat /\ j \in Nat
  BY <1>1, <1>2, BuiltFacts
<1>8. i < j
  <2>1. ~ (j < i)
    <3>1. j < i => txs[j].fee >= txs[i].fee
      BY OrderedByFee DEF NoncesFollowFees
    <3> QED BY <1>3, <1>4, <1>5, <1>6, <3>1 DEF FrontFee
  <2>2. i # j
    BY <1>5, <1>6, <1>3, <1>4
  <2> QED BY <1>7, <2>1, <2>2
<1> QED BY <1>6, <1>8 DEF BackFee

\* What wants to be first offers more than what a cheaper level is served with.
LEMMA FirstIsDearest ==
  SendInv => FirstLeads
<1> SUFFICES ASSUME SendInv, NEW k \in DOMAIN toSend, NEW l \in DOMAIN toSend,
                    NEW i \in DOMAIN txs, NEW j \in DOMAIN txs,
                    toSend[k].side = "first", toSend[l].side # "first",
                    Carries(txs[i], k), Carries(txs[j], l),
                    LET ofLevel == baseFee + PriorityFee(block[toSend[l].level].tx)
                        ofFirst == PriorityFee(block[1].tx)
                    IN  IF toSend[l].side = "front" THEN ofLevel < ofFirst ELSE ofLevel <= ofFirst
             PROVE  i < j
  BY DEF FirstLeads
<1>1. PICK o : Built(o)
  BY DEF SendInv
<1>2. toSend \in Seq(Multicalls)
  BY DEF SendInv
<1>3. txs[i].fee = toSend[k].fee /\ txs[j].fee = toSend[l].fee
  BY <1>1, <1>2, CarriesRun
<1>4. toSend[k].fee = FirstFee
  BY DEF SendInv, Offers
<1>5. toSend[l].side \in {"front", "back"} /\ Offers(toSend[l])
  <2>1. toSend[l] \in Multicalls
    BY <1>2
  <2> QED BY <2>1 DEF Multicalls, Sides, SendInv
<1> DEFINE n == toSend[l].level
<1>6. n \in DOMAIN block /\ 1 \in DOMAIN block /\ block # <<>>
  <2>1. n \in DOMAIN block
    BY <1>5 DEF Offers
  <2> QED BY <2>1 DEF SendInv
<1>7. /\ baseFee \in Nat /\ PriorityFee(block[n].tx) \in Nat /\ PriorityFee(block[1].tx) \in Nat
      /\ FirstFee = PriorityFee(block[1].tx) + 1
  BY <1>6, BaseFeeNat DEF SendInv, FirstFee
<1>8. txs[j].fee < txs[i].fee
  <2>1. CASE toSend[l].side = "front"
    <3>1. toSend[l].fee = baseFee + PriorityFee(block[n].tx) + 1
      BY <1>5, <2>1 DEF Offers, FrontFee, BackFee
    <3> QED BY <1>3, <1>4, <1>7, <2>1, <3>1
  <2>2. CASE toSend[l].side = "back"
    <3>1. toSend[l].fee = baseFee + PriorityFee(block[n].tx)
      BY <1>5, <2>2 DEF Offers, BackFee
    <3> QED BY <1>3, <1>4, <1>7, <2>2, <3>1
  <2> QED BY <1>5, <2>1, <2>2
<1>9. txs[i].fee \in Nat /\ txs[j].fee \in Nat
  BY <1>3, FeesNat
<1>10. j < i => txs[j].fee >= txs[i].fee
  BY OrderedByFee DEF NoncesFollowFees
<1>11. i \in Nat /\ j \in Nat
  BY <1>1, <1>2, BuiltFacts
<1> QED BY <1>8, <1>9, <1>10, <1>11

-----------------------------------------------------------------------------
(* Where the calls are.                                                    *)

\* The two kinds of items: one call that must not fail, or the group of the
\* calls of the first multicall of a run of several.
IsSingle(x, k, n) ==
  /\ DOMAIN x.calls = {1} /\ x.calls[1].id = <<k, n>> /\ x.calls[1].may = FALSE
  /\ Ids(x) = {<<k, n>>}
SingleIn(r, k, n) ==
  IF r[1] = r[2] THEN Single(k, n, toSend[k].calls[n]) ELSE Single(k, n, TRUE)

\* Where a single call of a run stands.
LEMMA SingleInFacts ==
  \A r, k, n : /\ IsSingle(SingleIn(r, k, n), k, n)
               /\ r[1] = r[2] => SingleIn(r, k, n).may = toSend[k].calls[n]
               /\ r[1] # r[2] => SingleIn(r, k, n).may
<1> TAKE r, k, n
<1>1. CASE r[1] = r[2]
  <2>1. SingleIn(r, k, n) = Single(k, n, toSend[k].calls[n])
    BY <1>1 DEF SingleIn
  <2>2. IsSingle(Single(k, n, toSend[k].calls[n]), k, n)
    BY SingleFacts DEF IsSingle
  <2>3. Single(k, n, toSend[k].calls[n]).may = toSend[k].calls[n]
    BY SingleFacts
  <2> QED BY <1>1, <2>1, <2>2, <2>3
<1>2. CASE r[1] # r[2]
  <2>1. SingleIn(r, k, n) = Single(k, n, TRUE)
    BY <1>2 DEF SingleIn
  <2>2. IsSingle(Single(k, n, TRUE), k, n)
    BY SingleFacts, Zenon DEF IsSingle
  <2>3. Single(k, n, TRUE).may = TRUE
    BY SingleFacts, Zenon
  <2> QED BY <1>2, <2>1, <2>2, <2>3
<1> QED BY <1>1, <1>2

\* An item is a single call or the group of a run's first multicall.
LEMMA ItemKinds ==
  ASSUME toSend \in Seq(Multicalls), NEW r \in Runs
  PROVE  /\ \A x \in ItemsOf(r) :
              \/ \E k \in r[1] .. r[2] : \E n \in Members(k) :
                   x = SingleIn(r, k, n) /\ (r[1] # r[2] => k # r[1])
              \/ r[1] # r[2] /\ x = Leader(r[1])
         /\ r[1] = r[2] => \A n \in Members(r[1]) : SingleIn(r, r[1], n) \in ItemsOf(r)
<1>1. r[1] \in Nat /\ r[2] \in Nat /\ r[1] <= r[2] /\ r[1] \in r[1] .. r[2]
  BY RunFacts
<1>2. CASE r[1] = r[2]
  <2>1. \A n : SingleIn(r, r[1], n) = Single(r[1], n, toSend[r[1]].calls[n])
    BY <1>2 DEF SingleIn
  <2>2. ItemsOf(r) = {Single(r[1], n, toSend[r[1]].calls[n]) : n \in Members(r[1])}
    BY <1>2 DEF ItemsOf
  <2> QED BY <1>1, <1>2, <2>1, <2>2
<1>3. CASE r[1] # r[2]
  <2>1. \A k, n : SingleIn(r, k, n) = Single(k, n, TRUE)
    BY <1>3 DEF SingleIn
  <2>2. ItemsOf(r) = {Leader(r[1])} \cup UNION {{Single(k, n, TRUE) : n \in Members(k)} : k \in r[1] + 1 .. r[2]}
    BY <1>3 DEF ItemsOf
  <2>3. \A k \in r[1] + 1 .. r[2] : k \in r[1] .. r[2] /\ k # r[1]
    BY <1>1
  <2>4. ASSUME NEW x \in ItemsOf(r), x # Leader(r[1])
        PROVE  \E k \in r[1] .. r[2] : \E n \in Members(k) : x = SingleIn(r, k, n) /\ k # r[1]
    <3>1. PICK k \in r[1] + 1 .. r[2] : x \in {Single(k, n, TRUE) : n \in Members(k)}
      BY <2>2, <2>4
    <3>2. PICK n \in Members(k) : x = Single(k, n, TRUE)
      BY <3>1
    <3>3. x = SingleIn(r, k, n)
      BY <2>1, <3>2
    <3> QED BY <2>3, <3>3
  <2> QED BY <1>3, <2>4
<1> QED BY <1>2, <1>3

\* Two items of a transaction share no call.
LEMMA ItemsApart ==
  ASSUME toSend \in Seq(Multicalls), NEW r \in Runs,
         NEW x \in ItemsOf(r), NEW y \in ItemsOf(r), Ids(x) \cap Ids(y) # {}
  PROVE  x = y
<1>1. CASE \E k \in r[1] .. r[2] : \E n \in Members(k) :
             x = SingleIn(r, k, n) /\ (r[1] # r[2] => k # r[1])
  <2>1. PICK k \in r[1] .. r[2] : \E n \in Members(k) :
             x = SingleIn(r, k, n) /\ (r[1] # r[2] => k # r[1])
    BY <1>1
  <2>2. PICK n \in Members(k) : x = SingleIn(r, k, n) /\ (r[1] # r[2] => k # r[1])
    BY <2>1
  <2>3. Ids(x) = {<<k, n>>}
    BY <2>2, SingleInFacts DEF IsSingle
  <2>4. CASE \E l \in r[1] .. r[2] : \E m \in Members(l) : y = SingleIn(r, l, m)
    <3>1. PICK l \in r[1] .. r[2] : \E m \in Members(l) : y = SingleIn(r, l, m)
      BY <2>4
    <3>2. PICK m \in Members(l) : y = SingleIn(r, l, m)
      BY <3>1
    <3>3. Ids(y) = {<<l, m>>}
      BY <3>2, SingleInFacts DEF IsSingle
    <3>4. <<k, n>> = <<l, m>>
      BY <2>3, <3>3
    <3>5. k = l /\ n = m
      BY <3>4
    <3> QED BY <2>2, <3>2, <3>5
  <2>5. CASE r[1] # r[2] /\ y = Leader(r[1])
    <3>1. Ids(y) = CallsOf(r[1])
      BY <2>5, LeaderFacts
    <3>2. <<k, n>> \in CallsOf(r[1])
      BY <2>3, <3>1
    <3>3. k = r[1]
      BY <3>2 DEF CallsOf, Id
    <3> QED BY <2>2, <2>5, <3>3
  <2> QED BY <2>4, <2>5, ItemKinds
<1>2. CASE r[1] # r[2] /\ x = Leader(r[1])
  <2>1. Ids(x) = CallsOf(r[1])
    BY <1>2, LeaderFacts
  <2>2. CASE \E l \in r[1] .. r[2] : \E m \in Members(l) :
               y = SingleIn(r, l, m) /\ (r[1] # r[2] => l # r[1])
    <3>1. PICK l \in r[1] .. r[2] : \E m \in Members(l) : y = SingleIn(r, l, m) /\ l # r[1]
      BY <1>2, <2>2
    <3>2. PICK m \in Members(l) : y = SingleIn(r, l, m) /\ l # r[1]
      BY <3>1
    <3>3. Ids(y) = {<<l, m>>}
      BY <3>2, SingleInFacts DEF IsSingle
    <3>4. <<l, m>> \in CallsOf(r[1])
      BY <2>1, <3>3
    <3>5. l = r[1]
      BY <3>4 DEF CallsOf, Id
    <3> QED BY <3>2, <3>5
  <2>3. CASE y = Leader(r[1])
    BY <1>2, <2>3
  <2> QED BY <2>2, <2>3, ItemKinds
<1> QED BY <1>1, <1>2, ItemKinds

\* The calls of an item are each in it once.
LEMMA ItemCalls ==
  ASSUME toSend \in Seq(Multicalls), NEW r \in Runs, NEW x \in ItemsOf(r)
  PROVE  \A n, m \in DOMAIN x.calls : x.calls[n].id = x.calls[m].id => n = m
<1>1. ASSUME NEW k, NEW l, x = SingleIn(r, k, l)
      PROVE  \A n, m \in DOMAIN x.calls : n = m
  BY <1>1, SingleInFacts DEF IsSingle
<1>2. ASSUME x = Leader(r[1])
      PROVE  \A n, m \in DOMAIN x.calls : x.calls[n].id = x.calls[m].id => n = m
  <2>1. DOMAIN x.calls = Members(r[1]) /\ \A n \in Members(r[1]) : x.calls[n].id = <<r[1], n>>
    BY <1>2, LeaderFacts
  <2> QED BY <2>1
<1> QED BY <1>1, <1>2, ItemKinds

\* Every multicall is in the transaction of its run.
LEMMA TxOf ==
  ASSUME toSend \in Seq(Multicalls), NEW o, Built(o), NEW k \in DOMAIN toSend
  PROVE  \E i \in DOMAIN txs : /\ i \in DOMAIN o /\ o[i] \in Runs
                              /\ k \in o[i][1] .. o[i][2] /\ txs[i].items = Merge(o[i])
<1>1. PICK r \in Runs : k \in r[1] .. r[2]
  BY RunOf
<1>2. PICK i \in DOMAIN o : o[i] = r
  BY BuiltFacts
<1> QED BY <1>1, <1>2, BuiltFacts

\* No call is in two transactions.
LEMMA OneTransaction ==
  ASSUME toSend \in Seq(Multicalls), NEW o, Built(o),
         NEW i \in DOMAIN txs, NEW j \in DOMAIN txs, TxIds(txs[i]) \cap TxIds(txs[j]) # {}
  PROVE  i = j
<1>1. /\ i \in DOMAIN o /\ o[i] \in Runs /\ txs[i].items = Merge(o[i])
      /\ j \in DOMAIN o /\ o[j] \in Runs /\ txs[j].items = Merge(o[j])
  BY BuiltFacts
<1>2. /\ TxIds(txs[i]) = UNION {CallsOf(k) : k \in o[i][1] .. o[i][2]}
      /\ TxIds(txs[j]) = UNION {CallsOf(k) : k \in o[j][1] .. o[j][2]}
  BY <1>1, CallsOfTx
<1>3. PICK k \in o[i][1] .. o[i][2] : \E l \in o[j][1] .. o[j][2] : CallsOf(k) \cap CallsOf(l) # {}
  BY <1>2
<1>4. k \in o[j][1] .. o[j][2]
  BY <1>3, CallsDiffer
<1>5. o[i] = o[j]
  BY <1>1, <1>3, <1>4, RunsApart
<1> QED BY <1>1, <1>5, BuiltFacts

\* What a position is.
LEMMA PositionFacts ==
  ASSUME NEW p \in Positions
  PROVE  /\ p = <<p[1], p[2], p[3]>>
         /\ p[1] \in DOMAIN txs /\ p[2] \in DOMAIN txs[p[1]].items
         /\ p[3] \in DOMAIN txs[p[1]].items[p[2]].calls
         /\ IdAt(p) \in Ids(txs[p[1]].items[p[2]])
         /\ IdAt(p) \in TxIds(txs[p[1]])
<1>1. PICK i \in DOMAIN txs :
        p \in UNION {{<<i, j, n>> : n \in DOMAIN txs[i].items[j].calls} : j \in DOMAIN txs[i].items}
  BY DEF Positions
<1>2. PICK j \in DOMAIN txs[i].items : p \in {<<i, j, n>> : n \in DOMAIN txs[i].items[j].calls}
  BY <1>1
<1>3. PICK n \in DOMAIN txs[i].items[j].calls : p = <<i, j, n>>
  BY <1>2
<1>4. p[1] = i /\ p[2] = j /\ p[3] = n
  BY <1>3
<1>5. IdAt(p) \in Ids(txs[p[1]].items[p[2]])
  BY <1>4 DEF IdAt, Ids
<1> QED BY <1>3, <1>4, <1>5 DEF TxIds

\* Every call is sent, once.
LEMMA AllCallsSent ==
  SendInv => CallsConserved
<1> SUFFICES ASSUME SendInv, outcome = "extracted"
             PROVE  /\ Calls = UNION {TxIds(txs[i]) : i \in DOMAIN txs}
                    /\ \A p, q \in Positions : IdAt(p) = IdAt(q) => p = q
  BY DEF CallsConserved
<1>1. PICK o : Built(o)
  BY DEF SendInv
<1>2. toSend \in Seq(Multicalls)
  BY DEF SendInv
<1>3. Calls = UNION {CallsOf(k) : k \in DOMAIN toSend}
  BY DEF Calls, CallsOf
<1>4. ASSUME NEW i \in DOMAIN txs
      PROVE  TxIds(txs[i]) = UNION {CallsOf(k) : k \in o[i][1] .. o[i][2]}
             /\ o[i][1] .. o[i][2] \subseteq DOMAIN toSend
  <2>1. o[i] \in Runs /\ txs[i].items = Merge(o[i])
    BY <1>1, <1>2, BuiltFacts
  <2>2. TxIds(txs[i]) = UNION {CallsOf(k) : k \in o[i][1] .. o[i][2]}
    BY <1>2, <2>1, CallsOfTx
  <2>3. \A k \in o[i][1] .. o[i][2] : k \in DOMAIN toSend
    BY <1>2, <2>1, RunFacts
  <2> QED BY <2>2, <2>3
<1>5. Calls = UNION {TxIds(txs[i]) : i \in DOMAIN txs}
  <2>1. ASSUME NEW c \in Calls PROVE \E i \in DOMAIN txs : c \in TxIds(txs[i])
    <3>1. PICK k \in DOMAIN toSend : c \in CallsOf(k)
      BY <1>3
    <3>2. PICK i \in DOMAIN txs : k \in o[i][1] .. o[i][2]
      BY <1>1, <1>2, TxOf
    <3> QED BY <1>4, <3>1, <3>2
  <2>2. ASSUME NEW i \in DOMAIN txs PROVE TxIds(txs[i]) \subseteq Calls
    BY <1>3, <1>4
  <2> QED BY <2>1, <2>2
<1>6. ASSUME NEW p \in Positions, NEW q \in Positions, IdAt(p) = IdAt(q)
      PROVE  p = q
  <2>1. p[1] = q[1]
    BY <1>1, <1>2, <1>6, PositionFacts, OneTransaction
  <2> DEFINE i == p[1]
             r == o[i]
             x == txs[i].items[p[2]]
             y == txs[i].items[q[2]]
  <2>2. /\ p = <<p[1], p[2], p[3]>> /\ q = <<q[1], q[2], q[3]>>
        /\ i \in DOMAIN txs /\ p[2] \in DOMAIN txs[i].items /\ q[2] \in DOMAIN txs[i].items
        /\ p[3] \in DOMAIN x.calls /\ q[3] \in DOMAIN y.calls
        /\ IdAt(p) \in Ids(x) /\ IdAt(p) \in Ids(y)
    BY <1>6, <2>1, PositionFacts
  <2>3. r \in Runs /\ txs[i].items = Merge(r)
    BY <1>1, <1>2, <2>2, BuiltFacts
  <2>4. x \in ItemsOf(r) /\ y \in ItemsOf(r) /\ IsInjective(Merge(r))
    BY <1>2, <2>2, <2>3, Merged DEF Range
  <2>5. x = y
    <3> HIDE DEF x, y, r, i
    <3> QED BY <1>2, <2>2, <2>3, <2>4, ItemsApart
  <2>6. p[2] = q[2]
    BY <2>2, <2>3, <2>4, <2>5 DEF IsInjective
  <2>7. x.calls[p[3]].id = x.calls[q[3]].id
    BY <1>6, <2>1, <2>6 DEF IdAt
  <2>8. p[3] = q[3]
    <3>1. p[3] \in DOMAIN x.calls /\ q[3] \in DOMAIN x.calls
      BY <2>2, <2>5
    <3> HIDE DEF x, y, r, i
    <3> QED BY <1>2, <2>3, <2>4, <2>7, <3>1, ItemCalls
  <2> QED BY <2>1, <2>2, <2>6, <2>8
<1> QED BY <1>5, <1>6

-----------------------------------------------------------------------------
(* What fails, and what does not.                                          *)

\* A single call holds unless it fails.
LEMMA HoldsSingle ==
  ASSUME NEW x, NEW k, NEW n, IsSingle(x, k, n), NEW F
  PROVE  Holds(x, F) <=> <<k, n>> \notin F
BY DEF IsSingle, Holds

\* A group holds unless a call of it fails that must not.
LEMMA HoldsLeader ==
  ASSUME NEW k, NEW F
  PROVE  Holds(Leader(k), F) <=> \A n \in Members(k) : toSend[k].calls[n] \/ <<k, n>> \notin F
<1>1. /\ DOMAIN Leader(k).calls = Members(k)
      /\ \A n \in Members(k) : /\ Leader(k).calls[n].id = <<k, n>>
                               /\ Leader(k).calls[n].may = toSend[k].calls[n]
  BY LeaderFacts
<1> QED BY <1>1 DEF Holds

\* When only calls of others fail, however many, the calls of a multicall take
\* effect all the same.
LEMMA OthersTakeEffect ==
  ASSUME toSend \in Seq(Multicalls), NEW o, Built(o),
         NEW k \in DOMAIN toSend, NEW d \in CallsOf(k), NEW F, CallsOf(k) \cap F = {}
  PROVE  d \in AllEffects(F)
<1>1. PICK i \in DOMAIN txs : /\ o[i] \in Runs /\ k \in o[i][1] .. o[i][2]
                              /\ txs[i].items = Merge(o[i])
  BY TxOf
<1> DEFINE r == o[i]
<1>2. PICK x \in ItemsOf(r) : d \in Ids(x)
  <2>1. UNION {Ids(x) : x \in ItemsOf(r)} = UNION {CallsOf(h) : h \in r[1] .. r[2]}
    BY <1>1, CallsOfItems
  <2>2. d \in UNION {CallsOf(h) : h \in r[1] .. r[2]}
    BY <1>1
  <2> HIDE DEF r
  <2> QED BY <2>1, <2>2
<1>3. Range(Merge(r)) = ItemsOf(r)
  BY <1>1, Merged
<1>4. PICK j \in DOMAIN txs[i].items : txs[i].items[j] = x
  BY <1>1, <1>3 DEF Range
<1>5. d \notin F
  OBVIOUS
<1>6. Holds(x, F)
  <2>1. ASSUME NEW kk, NEW nn, x = SingleIn(r, kk, nn) PROVE Holds(x, F)
    <3>1. IsSingle(x, kk, nn)
      BY <2>1, SingleInFacts
    <3>2. d = <<kk, nn>>
      BY <1>2, <3>1 DEF IsSingle
    <3> QED BY <1>5, <3>1, <3>2, HoldsSingle
  <2>2. ASSUME x = Leader(r[1]) PROVE Holds(x, F)
    <3>1. Ids(x) = CallsOf(r[1])
      BY <2>2, LeaderFacts
    <3>2. k = r[1]
      BY <1>2, <3>1, CallsDiffer
    <3>3. \A mm \in Members(k) : <<k, mm>> \in CallsOf(k)
      BY DEF CallsOf, Id, Members
    <3>4. \A mm \in Members(k) : <<k, mm>> \notin F
      BY <3>3
    <3> QED BY <2>2, <3>2, <3>4, HoldsLeader
  <2> QED BY <1>1, <2>1, <2>2, ItemKinds
<1>7. ~Reverts(txs[i], F)
  <2> SUFFICES ASSUME NEW h \in DOMAIN txs[i].items,
                      ~txs[i].items[h].may, ~Holds(txs[i].items[h], F)
               PROVE  FALSE
    BY DEF Reverts
  <2> DEFINE y == txs[i].items[h]
  <2>1. y \in ItemsOf(r)
    BY <1>1, <1>3 DEF Range
  <2>2. ASSUME NEW kk \in r[1] .. r[2], NEW nn \in Members(kk), y = SingleIn(r, kk, nn) PROVE FALSE
    <3>1. r[1] = r[2]
      BY <2>2, SingleInFacts
    <3>2. IsSingle(y, kk, nn)
      BY <2>2, SingleInFacts
    <3>3. <<kk, nn>> \in F
      BY <3>2, HoldsSingle
    <3>4. r[1] \in Nat /\ r[2] \in Nat
      BY <1>1, RunFacts
    <3>5. kk = k
      BY <1>1, <3>1, <3>4
    <3>6. <<kk, nn>> \in CallsOf(k)
      BY <2>2, <3>5 DEF CallsOf, Id, Members
    <3> QED BY <3>3, <3>6
  <2>3. ASSUME y = Leader(r[1]) PROVE FALSE
    <3>1. y.may = TRUE
      BY <2>3, LeaderFacts
    <3> QED BY <3>1
  <2> HIDE DEF y
  <2> QED BY <1>1, <2>1, <2>2, <2>3, ItemKinds
<1>8. d \in Effects(txs[i], F)
  <2>1. d \in Ids(txs[i].items[j]) \ F
    BY <1>2, <1>4, <1>5
  <2>2. Holds(txs[i].items[j], F)
    BY <1>4, <1>6
  <2> QED BY <1>7, <2>1, <2>2 DEF Effects
<1> QED BY <1>8 DEF AllEffects

\* The same said of the calls that fail: one without effect, whatever set of calls
\* fails, has a failing one in its own multicall.
FailuresAtHome ==
  outcome = "extracted" =>
    \A F \in SUBSET Calls : \A d \in Calls \ AllEffects(F) : \E c \in F : c[1] = d[1]

\* So no failure undoes another multicall.
LEMMA IsolatesFailures ==
  SendInv => FailuresIsolated /\ FailuresAtHome
<1> SUFFICES ASSUME SendInv, outcome = "extracted" PROVE FailuresIsolated /\ FailuresAtHome
  BY DEF FailuresIsolated, FailuresAtHome
<1>1. PICK o : Built(o)
  BY DEF SendInv
<1>2. toSend \in Seq(Multicalls)
  BY DEF SendInv
<1>3. FailuresIsolated
  <2> SUFFICES ASSUME NEW k \in DOMAIN toSend, NEW d \in CallsOf(k)
               PROVE  d \in AllEffects(Calls \ CallsOf(k))
    BY DEF FailuresIsolated
  <2> DEFINE F == Calls \ CallsOf(k)
  <2>1. CallsOf(k) \cap F = {}
    OBVIOUS
  <2> HIDE DEF F
  <2>2. d \in AllEffects(F)
    BY <1>1, <1>2, <2>1, OthersTakeEffect
  <2> QED BY <2>2 DEF F
<1>4. FailuresAtHome
  <2> SUFFICES ASSUME NEW F \in SUBSET Calls, NEW d \in Calls, d \notin AllEffects(F)
               PROVE  \E c \in F : c[1] = d[1]
    BY DEF FailuresAtHome
  <2>1. PICK k \in DOMAIN toSend : d \in CallsOf(k)
    BY DEF Calls, CallsOf
  <2>2. PICK c \in F : c \in CallsOf(k)
    BY <1>1, <1>2, <2>1, OthersTakeEffect
  <2>3. \A e \in CallsOf(k) : e[1] = k
    BY DEF CallsOf, Id
  <2> QED BY <2>1, <2>2, <2>3
<1> QED BY <1>3, <1>4

\* The first multicall of a run fails as a whole.
LEMMA KeepsLeadersWhole ==
  SendInv => LeadersAtomic
<1> SUFFICES ASSUME SendInv, outcome = "extracted", NEW r \in Runs, NEW c \in CallsOf(r[1]),
                    ~toSend[c[1]].calls[c[2]],
                    NEW d \in CallsOf(r[1]) \cap AllEffects({c})
             PROVE  FALSE
  BY DEF LeadersAtomic
<1>1. PICK o : Built(o)
  BY DEF SendInv
<1>2. toSend \in Seq(Multicalls)
  BY DEF SendInv
<1>3. PICK i \in DOMAIN txs : d \in Effects(txs[i], {c})
  BY DEF AllEffects
<1>4. PICK m \in Members(r[1]) : c = <<r[1], m>> /\ ~toSend[r[1]].calls[m]
  <2>1. PICK m \in Members(r[1]) : c = <<r[1], m>>
    BY DEF CallsOf, Id, Members
  <2>2. c[1] = r[1] /\ c[2] = m
    BY <2>1
  <2> QED BY <2>1, <2>2
<1>5. ~Reverts(txs[i], {c})
  BY <1>3 DEF Effects
<1>6. PICK j \in DOMAIN txs[i].items : Holds(txs[i].items[j], {c}) /\ d \in Ids(txs[i].items[j])
  BY <1>3 DEF Effects
<1> DEFINE x == txs[i].items[j]
<1>7. o[i] \in Runs /\ txs[i].items = Merge(o[i])
  BY <1>1, <1>2, BuiltFacts
<1>8. o[i] = r
  <2>1. d \in TxIds(txs[i])
    BY <1>6 DEF TxIds
  <2>2. PICK k \in o[i][1] .. o[i][2] : d \in CallsOf(k)
    BY <1>2, <1>7, <2>1, CallsOfTx
  <2>3. k = r[1]
    BY <2>2, CallsDiffer
  <2>4. r[1] \in r[1] .. r[2]
    BY <1>2, RunFacts
  <2> QED BY <1>2, <1>7, <2>2, <2>3, <2>4, RunsApart
<1>9. x \in ItemsOf(r) /\ Range(txs[i].items) = ItemsOf(r)
  BY <1>2, <1>6, <1>7, <1>8, Merged DEF Range
<1>10. CASE r[1] = r[2]
  <2> DEFINE y == SingleIn(r, r[1], m)
  <2>1. y \in ItemsOf(r)
    BY <1>2, <1>10, ItemKinds
  <2>2. PICK h \in DOMAIN txs[i].items : txs[i].items[h] = y
    BY <1>9, <2>1 DEF Range
  <2>3. IsSingle(y, r[1], m) /\ ~y.may
    <3>1. IsSingle(y, r[1], m) /\ y.may = toSend[r[1]].calls[m]
      BY <1>10, SingleInFacts
    <3> QED BY <1>4, <3>1
  <2> HIDE DEF y
  <2>4. ~Holds(y, {c})
    BY <1>4, <2>3, HoldsSingle
  <2> QED BY <1>5, <2>2, <2>3, <2>4 DEF Reverts
<1>11. CASE r[1] # r[2]
  <2>1. x = Leader(r[1])
    <3> HIDE DEF x
    <3>1. ASSUME NEW k, k # r[1], NEW n, x = SingleIn(r, k, n) PROVE FALSE
      <4>1. Ids(x) = {<<k, n>>}
        BY <3>1, SingleInFacts DEF IsSingle
      <4>2. <<k, n>> \in CallsOf(r[1])
        BY <1>6, <4>1 DEF x
      <4> QED BY <3>1, <4>2 DEF CallsOf, Id
    <3> QED BY <1>2, <1>9, <1>11, <3>1, ItemKinds
  <2>2. ~Holds(Leader(r[1]), {c})
    BY <1>4, HoldsLeader
  <2> QED BY <1>6, <2>1, <2>2
<1> QED BY <1>10, <1>11

-----------------------------------------------------------------------------
(* Every step keeps the invariant.                                         *)

\* The next level is further on, at most just behind the block.
LEMMA NextLevelType ==
  ASSUME Len(block) \in Nat, NEW i \in 1 .. Len(block)
  PROVE  NextLevel(i) \in i + 1 .. Len(block) + 1
<1> DEFINE Ends == {j \in i + 1 .. Len(block) + 1 : j <= Len(block) => PriorityFee(block[j].tx) # PriorityFee(block[i].tx)}
<1>1. Ends \subseteq Nat /\ Len(block) + 1 \in Ends
  OBVIOUS
<1>2. PICK j \in Ends : \A k \in Ends : j <= k
  <2> HIDE DEF Ends
  <2> QED BY <1>1, Least
<1>3. \A k \in i .. j - 1 : PriorityFee(block[k].tx) = PriorityFee(block[i].tx)
  <2> SUFFICES ASSUME NEW k \in i .. j - 1, PriorityFee(block[k].tx) # PriorityFee(block[i].tx) PROVE FALSE
    OBVIOUS
  <2>1. k \in Ends /\ k < j
    OBVIOUS
  <2> HIDE DEF Ends
  <2>2. j <= k
    BY <1>2, <2>1
  <2>3. j \in Nat /\ k \in Nat
    BY <1>1, <2>1
  <2> QED BY <2>1, <2>2, <2>3
<1>4. \E n \in i + 1 .. Len(block) + 1 :
        /\ n <= Len(block) => PriorityFee(block[n].tx) # PriorityFee(block[i].tx)
        /\ \A k \in i .. n - 1 : PriorityFee(block[k].tx) = PriorityFee(block[i].tx)
  BY <1>3
<1> QED BY <1>4 DEF NextLevel

\* The calls around a level are a multicall's.
LEMMA CallsAroundType ==
  ASSUME Len(block) \in Nat, NEW m \in Monitors, level[m] \in 1 .. Len(block)
  PROVE  CallsAround(m) \subseteq Seq(BOOLEAN)
<1>1. CASE m \in Pancakes
  <2> DEFINE N == Cardinality(Playable(level[m]))
  <2>1. Playable(level[m]) \subseteq level[m] .. NextLevel(level[m]) - 1
    BY DEF Playable
  <2>2. NextLevel(level[m]) \in level[m] + 1 .. Len(block) + 1
    BY NextLevelType
  <2>3. IsFiniteSet(Playable(level[m]))
    <3>1. IsFiniteSet(level[m] .. NextLevel(level[m]) - 1)
      <4>1. level[m] \in Int /\ NextLevel(level[m]) - 1 \in Int
        BY <2>2
      <4> QED BY ONLY <4>1, FS_Interval
    <3> QED BY <2>1, <3>1, FS_Subset
  <2>4. N \in Nat
    BY <2>3, FS_CardinalityType
  <2>5. CallsAround(m) = {[n \in 1 .. N |-> TRUE]}
    BY <1>1 DEF CallsAround
  <2> HIDE DEF N
  <2>6. [n \in 1 .. N |-> TRUE] \in [1 .. N -> BOOLEAN]
    OBVIOUS
  <2>7. [n \in 1 .. N |-> TRUE] \in Seq(BOOLEAN)
    BY <2>4, <2>6, SeqDef
  <2> QED BY <2>5, <2>7
<1>2. CASE m \notin Pancakes
  BY <1>2, ShapesAssumption DEF CallsAround
<1> QED BY <1>1, <1>2

\* What `Multicall` makes is one.
LEMMA MulticallType ==
  ASSUME NEW m \in Monitors, level[m] \in 1 .. MaxBlockTxs + 1,
         NEW side \in Sides, NEW fee \in Nat, NEW calls \in Seq(BOOLEAN)
  PROVE  Multicall(m, side, fee, calls) \in Multicalls
BY DEF Multicall, Multicalls

\* A multicall more in the list.
LEMMA OneMore ==
  ASSUME NEW s \in Seq(Multicalls), \A k \in DOMAIN s : Offers(s[k]),
         NEW c \in Multicalls, Offers(c)
  PROVE  Append(s, c) \in Seq(Multicalls) /\ \A k \in DOMAIN Append(s, c) : Offers(Append(s, c)[k])
<1> DEFINE t == Append(s, c)
<1>1. /\ t \in Seq(Multicalls) /\ Len(t) = Len(s) + 1 /\ Len(s) \in Nat
      /\ t[Len(s) + 1] = c /\ \A k \in 1 .. Len(s) : t[k] = s[k]
  BY AppendProperties
<1>2. DOMAIN s = 1 .. Len(s) /\ DOMAIN t = 1 .. Len(s) + 1
  BY <1>1
<1> HIDE DEF t
<1>3. \A k \in DOMAIN t : Offers(t[k])
  <2> TAKE k \in DOMAIN t
  <2>1. CASE k = Len(s) + 1
    BY <1>1, <2>1
  <2>2. CASE k \in 1 .. Len(s)
    <3>1. t[k] = s[k] /\ Offers(s[k])
      BY <1>1, <1>2, <2>2
    <3> QED BY <3>1
  <2> QED BY <1>1, <1>2, <2>1, <2>2
<1> QED BY <1>1, <1>3 DEF t

\* Offers do not change while the block does not.
LEMMA OffersKept ==
  ASSUME UNCHANGED <<block, baseFeeGiven>>, \A k \in DOMAIN toSend' : Offers(toSend'[k])
  PROVE  (\A k \in DOMAIN toSend : Offers(toSend[k]))'
BY DEF Offers, FirstFee, FrontFee, BackFee, baseFee

\* The answers are there, nothing else is.
LEMMA SendInit == Init => SendInv
<1> SUFFICES ASSUME Init PROVE SendInv
  OBVIOUS
<1>1. block \in Seq(Range(block)) /\ Len(block) = 0 /\ DOMAIN block = {}
  BY DEF Init
<1>2. toSend \in Seq(Multicalls) /\ DOMAIN toSend = {}
  BY DEF Init
<1>3. level \in [Monitors -> 1 .. Len(block) + 1]
  BY <1>1 DEF Init
<1> QED BY <1>1, <1>2, <1>3, BlockAssumption DEF Init, SendInv

\* The monitors' steps leave the block alone, and there are no transactions.
LEMMA MonitorStep ==
  ASSUME SendInv, outcome = "running",
         UNCHANGED <<given, txs>>,
         level' \in [Monitors -> 1 .. Len(block) + 1],
         half' \subseteq running', running' \subseteq Monitors,
         \A m \in half' : level'[m] <= Len(block),
         toSend' \in Seq(Multicalls), \A k \in DOMAIN toSend' : Offers(toSend'[k]),
         outcome' \in {"running", "failed", "elapsed", "panicked"}
  PROVE  SendInv'
<1>1. (\A k \in DOMAIN toSend : Offers(toSend[k]))'
  BY OffersKept DEF given
<1>2. txs' = <<>>
  BY DEF SendInv
<1>3. raw' = raw /\ baseFeeGiven' = baseFeeGiven /\ block' = block
  BY DEF given
<1>4. /\ block' \in Seq(Range(block'))
      /\ Len(block') <= MaxBlockTxs /\ (\A i \in DOMAIN block' : PriorityFee(block'[i].tx) \in Nat)
      /\ raw' \in Answers \cup {NoAnswer} /\ baseFeeGiven' \in BaseFees
      /\ level' \in [Monitors -> 1 .. Len(block') + 1]
      /\ \A m \in half' : level'[m] <= Len(block')
  BY <1>3 DEF SendInv
<1>5. /\ outcome' \in {"answered", "running", "failed", "elapsed", "panicked", "extracted"}
      /\ outcome' # "answered" /\ outcome' # "extracted"
  OBVIOUS
<1> QED BY <1>1, <1>2, <1>4, <1>5 DEF SendInv

\* What the invariant says of one monitor.
LEMMA StateFacts ==
  ASSUME SendInv, NEW m \in Monitors
  PROVE  /\ Len(block) \in Nat /\ DOMAIN block = 1 .. Len(block)
         /\ level[m] \in 1 .. MaxBlockTxs + 1
         /\ level \in [Monitors -> 1 .. Len(block) + 1]
         /\ level[m] <= Len(block) => /\ level[m] \in 1 .. Len(block)
                                      /\ FrontFee(level[m]) \in Nat /\ BackFee(level[m]) \in Nat
                                      /\ CallsAround(m) \subseteq Seq(BOOLEAN)
                                      /\ [level EXCEPT ![m] = NextLevel(@)] \in [Monitors -> 1 .. Len(block) + 1]
         /\ toSend \in Seq(Multicalls) /\ \A k \in DOMAIN toSend : Offers(toSend[k])
<1>1. Len(block) \in Nat /\ DOMAIN block = 1 .. Len(block) /\ Len(block) <= MaxBlockTxs
      /\ level \in [Monitors -> 1 .. Len(block) + 1]
  BY DEF SendInv
<1>2. level[m] \in 1 .. Len(block) + 1
  BY <1>1
<1>3. level[m] \in 1 .. MaxBlockTxs + 1
  BY <1>1, <1>2, BlockAssumption
<1>4. ASSUME level[m] <= Len(block)
      PROVE  /\ level[m] \in 1 .. Len(block)
             /\ FrontFee(level[m]) \in Nat /\ BackFee(level[m]) \in Nat
             /\ CallsAround(m) \subseteq Seq(BOOLEAN)
             /\ [level EXCEPT ![m] = NextLevel(@)] \in [Monitors -> 1 .. Len(block) + 1]
  <2>1. level[m] \in 1 .. Len(block)
    BY <1>1, <1>2, <1>4
  <2>2. NextLevel(level[m]) \in 1 .. Len(block) + 1
    BY <1>1, <2>1, NextLevelType
  <2>3. [level EXCEPT ![m] = NextLevel(@)] \in [Monitors -> 1 .. Len(block) + 1]
    BY <1>1, <2>2
  <2>4. FrontFee(level[m]) \in Nat /\ BackFee(level[m]) \in Nat
    BY <1>1, <2>1, FeesNat
  <2>5. CallsAround(m) \subseteq Seq(BOOLEAN)
    BY <1>1, <2>1, CallsAroundType
  <2> QED BY <2>1, <2>3, <2>4, <2>5
<1> QED BY <1>1, <1>3, <1>4 DEF SendInv

\* What is added around a level offers what it should.
LEMMA Around ==
  ASSUME SendInv, NEW m \in Monitors, level[m] <= Len(block), NEW calls \in Seq(BOOLEAN)
  PROVE  /\ Multicall(m, "front", FrontFee(level[m]), calls) \in Multicalls
         /\ Offers(Multicall(m, "front", FrontFee(level[m]), calls))
         /\ Multicall(m, "back", BackFee(level[m]), calls) \in Multicalls
         /\ Offers(Multicall(m, "back", BackFee(level[m]), calls))
<1>1. /\ level[m] \in 1 .. MaxBlockTxs + 1 /\ level[m] \in DOMAIN block
      /\ FrontFee(level[m]) \in Nat /\ BackFee(level[m]) \in Nat
  BY StateFacts
<1>2. "front" \in Sides /\ "back" \in Sides
  BY DEF Sides
<1>3. /\ Multicall(m, "front", FrontFee(level[m]), calls) \in Multicalls
      /\ Multicall(m, "back", BackFee(level[m]), calls) \in Multicalls
  BY <1>1, <1>2, MulticallType
<1>4. Offers(Multicall(m, "front", FrontFee(level[m]), calls))
  BY <1>1 DEF Offers, Multicall
<1>5. Offers(Multicall(m, "back", BackFee(level[m]), calls))
  BY <1>1 DEF Offers, Multicall
<1> QED BY <1>3, <1>4, <1>5

\* Both sides of a level at once.
LEMMA SurroundSend ==
  ASSUME SendInv, NEW m \in Monitors, Surround(m)
  PROVE  SendInv'
<1>1. level[m] <= Len(block) /\ outcome = "running"
      /\ UNCHANGED <<given, half, running, outcome, txs>>
      /\ level' = [level EXCEPT ![m] = NextLevel(@)]
  BY DEF Surround, Working
<1>2. PICK front, back \in CallsAround(m) :
        toSend' = toSend \o << Multicall(m, "front", FrontFee(level[m]), front),
                               Multicall(m, "back", BackFee(level[m]), back) >>
  BY DEF Surround
<1> DEFINE a == Multicall(m, "front", FrontFee(level[m]), front)
           b == Multicall(m, "back", BackFee(level[m]), back)
<1>3. front \in Seq(BOOLEAN) /\ back \in Seq(BOOLEAN)
  BY <1>1, StateFacts
<1>4. a \in Multicalls /\ Offers(a) /\ b \in Multicalls /\ Offers(b)
  BY <1>1, <1>3, Around
<1>5. toSend' = toSend \o <<a, b>>
  BY <1>2
<1> HIDE DEF a, b
<1>6. toSend \in Seq(Multicalls) /\ \A k \in DOMAIN toSend : Offers(toSend[k])
  BY DEF SendInv
<1>7. toSend' = Append(Append(toSend, a), b)
  BY <1>4, <1>5, <1>6
<1>8. toSend' \in Seq(Multicalls) /\ \A k \in DOMAIN toSend' : Offers(toSend'[k])
  <2>1. Append(toSend, a) \in Seq(Multicalls) /\ \A k \in DOMAIN Append(toSend, a) : Offers(Append(toSend, a)[k])
    BY <1>4, <1>6, OneMore
  <2> DEFINE s == Append(toSend, a)
  <2>2. s \in Seq(Multicalls) /\ \A k \in DOMAIN s : Offers(s[k])
    BY <2>1
  <2> HIDE DEF s
  <2>3. Append(s, b) \in Seq(Multicalls) /\ \A k \in DOMAIN Append(s, b) : Offers(Append(s, b)[k])
    BY <1>4, <2>2, OneMore
  <2> QED BY <1>7, <2>3 DEF s
<1>9. level' \in [Monitors -> 1 .. Len(block) + 1] /\ \A n \in half' : level'[n] <= Len(block)
  <2>1. m \notin half /\ \A n \in Monitors \ {m} : level'[n] = level[n]
    BY <1>1, StateFacts DEF Surround
  <2> QED BY <1>1, <2>1, StateFacts DEF SendInv
<1> QED BY <1>1, <1>8, <1>9, MonitorStep DEF SendInv

\* One side,
LEMMA CandidateFrontSend ==
  ASSUME SendInv, NEW m \in Monitors, CandidateFront(m)
  PROVE  SendInv'
<1>1. level[m] <= Len(block) /\ outcome = "running" /\ m \in running
      /\ UNCHANGED <<given, level, running, outcome, txs>> /\ half' = half \cup {m}
  BY DEF CandidateFront, Working
<1>2. PICK front \in Shapes :
        toSend' = Append(toSend, Multicall(m, "front", FrontFee(level[m]), front))
  BY DEF CandidateFront
<1>3. front \in Seq(BOOLEAN)
  BY ShapesAssumption
<1>4. toSend' \in Seq(Multicalls) /\ \A k \in DOMAIN toSend' : Offers(toSend'[k])
  BY <1>1, <1>2, <1>3, Around, StateFacts, OneMore
<1> QED BY <1>1, <1>4, MonitorStep DEF SendInv

\* and the other.
LEMMA CandidateBackSend ==
  ASSUME SendInv, NEW m \in Monitors, CandidateBack(m)
  PROVE  SendInv'
<1>0. m \in half /\ level[m] <= Len(block)
  BY DEF CandidateBack, SendInv
<1>1. outcome = "running" /\ m \in running
      /\ UNCHANGED <<given, running, outcome, txs>> /\ half' = half \ {m}
      /\ level' = [level EXCEPT ![m] = NextLevel(@)]
  BY DEF CandidateBack, Working
<1>2. PICK back \in Shapes :
        toSend' = Append(toSend, Multicall(m, "back", BackFee(level[m]), back))
  BY DEF CandidateBack
<1>3. back \in Seq(BOOLEAN)
  BY ShapesAssumption
<1>4. toSend' \in Seq(Multicalls) /\ \A k \in DOMAIN toSend' : Offers(toSend'[k])
  BY <1>0, <1>1, <1>2, <1>3, Around, StateFacts, OneMore
<1>5. level' \in [Monitors -> 1 .. Len(block) + 1] /\ \A n \in half' : level'[n] <= Len(block)
  <2>1. \A n \in Monitors \ {m} : level'[n] = level[n]
    BY <1>1, StateFacts
  <2> QED BY <1>0, <1>1, <2>1, StateFacts DEF SendInv
<1> QED BY <1>1, <1>4, <1>5, MonitorStep DEF SendInv

\* What wants to be first.
LEMMA LeadSend ==
  ASSUME SendInv, NEW m \in Monitors, Lead(m)
  PROVE  SendInv'
<1>1. outcome = "running" /\ UNCHANGED <<given, level, half, running, outcome, txs>>
  BY DEF Lead, Working
<1>2. PICK calls \in Shapes : toSend' = Append(toSend, Multicall(m, "first", FirstFee, calls))
  BY DEF Lead
<1> DEFINE c == Multicall(m, "first", FirstFee, calls)
<1>3. calls \in Seq(BOOLEAN) /\ FirstFee \in Nat /\ "first" \in Sides
  BY ShapesAssumption, FeesNat DEF Sides
<1>4. c \in Multicalls
  BY <1>3, StateFacts, MulticallType
<1>5. Offers(c)
  BY DEF Offers, Multicall
<1> HIDE DEF c
<1>6. toSend' \in Seq(Multicalls) /\ \A k \in DOMAIN toSend' : Offers(toSend'[k])
  BY <1>2, <1>4, <1>5, StateFacts, OneMore DEF c
<1> QED BY <1>1, <1>6, MonitorStep DEF SendInv

\* The block made of the answers has fees that are numbers.
LEMMA BlockType ==
  ASSUME raw \in Answers, IsBlock(raw)
  PROVE  /\ MakeBlock(raw) \in Seq(Range(MakeBlock(raw)))
         /\ Len(MakeBlock(raw)) <= MaxBlockTxs
         /\ \A i \in DOMAIN MakeBlock(raw) : PriorityFee(MakeBlock(raw)[i].tx) \in Nat
<1> DEFINE b == MakeBlock(raw)
<1>1. PICK n \in 0 .. MaxBlockTxs : raw.txs \in [1 .. n -> RawTxs]
  BY AnswerTypes
<1>2. /\ DOMAIN b = 1 .. n
      /\ \A i \in 1 .. n : b[i].tx = Convert(raw.txs[i])
  BY <1>1 DEF MakeBlock
<1>3. b = [i \in 1 .. n |-> b[i]]
  BY <1>1 DEF MakeBlock
<1> HIDE DEF b
<1>4. \A i \in 1 .. n : b[i] \in Range(b)
  BY <1>2 DEF Range
<1>5. b \in [1 .. n -> Range(b)]
  BY <1>3, <1>4
<1>6. b \in Seq(Range(b)) /\ Len(b) = n
  <2>1. n \in Nat
    BY BlockAssumption
  <2>2. b \in Seq(Range(b))
    BY <1>5, <2>1, SeqDef
  <2> QED BY <1>2, <2>1, <2>2
<1>7. ASSUME NEW r \in RawTxs, Converts(r) PROVE PriorityFee(Convert(r)) \in Nat
  <2>1. r.type \subseteq Nat /\ IsOption(r.gasPrice) /\ IsOption(r.tip)
    BY RawTxsAssumption DEF IsOption
  <2>2. CASE IsDynamic(r)
    <3>1. Convert(r).fees = [tip |-> The(r.tip), cap |-> The(r.cap)]
      BY <2>2 DEF Convert, Transaction
    <3>2. "gasPrice" \notin DOMAIN Convert(r).fees /\ Convert(r).fees.tip = The(r.tip)
      BY <3>1
    <3>3. The(r.tip) \in Nat
      BY <1>7, <2>1, <2>2 DEF Converts, The, None, IsOption
    <3> QED BY <3>2, <3>3 DEF PriorityFee, IsLegacy
  <2>3. CASE ~IsDynamic(r)
    <3>1. Convert(r).fees = [gasPrice |-> The(r.gasPrice)]
      BY <2>3 DEF Convert, Transaction
    <3>2. "gasPrice" \in DOMAIN Convert(r).fees /\ Convert(r).fees.gasPrice = The(r.gasPrice)
      BY <3>1
    <3>3. The(r.gasPrice) \in Nat
      BY <1>7, <2>1, <2>3 DEF Converts, The, None, IsOption
    <3> QED BY <3>2, <3>3 DEF PriorityFee, IsLegacy
  <2> QED BY <2>2, <2>3
<1>8. \A i \in 1 .. n : PriorityFee(b[i].tx) \in Nat
  <2> TAKE i \in 1 .. n
  <2>1. raw.txs[i] \in RawTxs /\ Converts(raw.txs[i])
    BY <1>1 DEF IsBlock
  <2>2. b[i].tx = Convert(raw.txs[i])
    BY <1>2
  <2> QED BY <1>7, <2>1, <2>2
<1> QED BY <1>2, <1>6, <1>8 DEF b

\* The block is made, or is not.
LEMMA MakeBlockSend == SendInv /\ MakePendingBlock => SendInv'
<1> SUFFICES ASSUME SendInv, MakePendingBlock PROVE SendInv'
  OBVIOUS
<1>1. /\ outcome = "answered" /\ raw' = NoAnswer
      /\ UNCHANGED <<baseFeeGiven, level, half, running, toSend, txs>>
  BY DEF MakePendingBlock
<1>2. block = <<>> /\ toSend = <<>> /\ txs = <<>>
  BY <1>1 DEF SendInv
<1>3. level \in [Monitors -> {1}] /\ half = {}
  <2>1. 1 .. Len(block) + 1 = {1}
    BY <1>2
  <2>2. level \in [Monitors -> {1}]
    BY <2>1 DEF SendInv
  <2> QED BY <2>2, <1>2 DEF SendInv
<1>4. CASE IsBlock(raw)
  <2>1. block' = MakeBlock(raw) /\ outcome' = "running"
    BY <1>4 DEF MakePendingBlock
  <2>2. raw \in Answers
    BY <1>1 DEF SendInv
  <2>3. /\ block' \in Seq(Range(block')) /\ Len(block') <= MaxBlockTxs
        /\ \A i \in DOMAIN block' : PriorityFee(block'[i].tx) \in Nat
    BY <1>4, <2>1, <2>2, BlockType
  <2>4. Len(block') \in Nat
    BY <2>3
  <2>5. level' \in [Monitors -> 1 .. Len(block') + 1]
    BY <1>1, <1>3, <2>4
  <2>6. half' = {} /\ half' \subseteq running' /\ running' \subseteq Monitors
    BY <1>1, <1>3 DEF SendInv
  <2>7. toSend' \in Seq(Multicalls) /\ toSend' = <<>> /\ txs' = <<>>
    BY <1>1, <1>2 DEF SendInv
  <2>8. (\A k \in DOMAIN toSend : Offers(toSend[k]))'
    BY <2>7
  <2>9. raw' \in Answers \cup {NoAnswer} /\ baseFeeGiven' \in BaseFees
    BY <1>1 DEF SendInv
  <2> QED BY <2>1, <2>3, <2>5, <2>6, <2>7, <2>8, <2>9 DEF SendInv
<1>5. CASE ~IsBlock(raw)
  <2>1. block' = block /\ outcome' = "failed"
    BY <1>5 DEF MakePendingBlock
  <2>2. toSend' = <<>> /\ txs' = <<>> /\ toSend' \in Seq(Multicalls)
    BY <1>1, <1>2 DEF SendInv
  <2>3. (\A k \in DOMAIN toSend : Offers(toSend[k]))'
    BY <2>2
  <2>4. raw' \in Answers \cup {NoAnswer} /\ baseFeeGiven' \in BaseFees
    BY <1>1 DEF SendInv
  <2>5. half' = {} /\ half' \subseteq running' /\ running' \subseteq Monitors
    BY <1>1, <1>3 DEF SendInv
  <2>6. /\ block' \in Seq(Range(block')) /\ Len(block') <= MaxBlockTxs
        /\ (\A i \in DOMAIN block' : PriorityFee(block'[i].tx) \in Nat)
        /\ level' \in [Monitors -> 1 .. Len(block') + 1]
    BY <1>1, <2>1 DEF SendInv
  <2> QED BY <2>1, <2>2, <2>3, <2>4, <2>5, <2>6 DEF SendInv
<1> QED BY <1>4, <1>5

\* What orders the list is read from it alone.
LEMMA SameOrders ==
  ASSUME UNCHANGED <<toSend, baseFeeGiven>>
  PROVE  \A o : /\ IsOrder(o, Runs)' <=> IsOrder(o, Runs)
               /\ \A r : FeeOf(r)' = FeeOf(r) /\ Merge(r)' = Merge(r)
               /\ baseFee' = baseFee
BY DEF IsOrder, Runs, FeeOf, Merge, AsGroup, Added, Plain, baseFee

\* The transactions are built of an order of the runs.
LEMMA ExtractSend == SendInv /\ Extract => SendInv'
<1> SUFFICES ASSUME SendInv, Extract PROVE SendInv'
  OBVIOUS
<1>1. UNCHANGED <<given, level, half, running, toSend>> /\ outcome' = "extracted"
  BY DEF Extract
<1>2. PICK o \in Sorted :
        txs' = [i \in DOMAIN o |-> [nonce |-> FirstNonce + i - 1,
                                    fee   |-> FeeOf(o[i]),
                                    max   |-> baseFee + FeeOf(o[i]),
                                    items |-> Merge(o[i])]]
  BY DEF Extract
<1>3. IsOrder(o, Runs)
  <2>1. IsFiniteSet(Runs)
    BY RunsFinite DEF SendInv
  <2> QED BY <2>1, SortedOrders
<1>4. Built(o)'
  BY <1>1, <1>2, <1>3, SameOrders DEF Built, given
<1>5. (\A k \in DOMAIN toSend : Offers(toSend[k]))'
  <2>1. \A k \in DOMAIN toSend' : Offers(toSend'[k])
    BY <1>1 DEF SendInv
  <2> QED BY <1>1, <2>1, OffersKept DEF given
<1>6. raw' = raw /\ baseFeeGiven' = baseFeeGiven /\ block' = block
  BY <1>1 DEF given
<1>7. /\ block' \in Seq(Range(block'))
      /\ Len(block') <= MaxBlockTxs /\ (\A i \in DOMAIN block' : PriorityFee(block'[i].tx) \in Nat)
      /\ raw' \in Answers \cup {NoAnswer} /\ baseFeeGiven' \in BaseFees
      /\ level' \in [Monitors -> 1 .. Len(block') + 1]
      /\ \A m \in half' : level'[m] <= Len(block')
      /\ half' \subseteq running' /\ running' \subseteq Monitors
      /\ toSend' \in Seq(Multicalls)
  BY <1>1, <1>6 DEF SendInv
<1> QED BY <1>1, <1>4, <1>5, <1>7 DEF SendInv

\* The steps that only end something.
LEMMA OtherSteps ==
  ASSUME SendInv,
         \/ \E m \in Monitors : MonitorReturns(m) \/ MonitorFails(m)
         \/ Elapse \/ ExtractPanics
  PROVE  SendInv'
<1>1. /\ level \in [Monitors -> 1 .. Len(block) + 1]
      /\ half \subseteq running /\ running \subseteq Monitors
      /\ \A m \in half : level[m] <= Len(block)
      /\ toSend \in Seq(Multicalls) /\ \A k \in DOMAIN toSend : Offers(toSend[k])
  BY DEF SendInv
<1>2. outcome = "running" /\ UNCHANGED <<given, level, half, toSend, txs>>
  BY DEF MonitorReturns, MonitorFails, Elapse, ExtractPanics, Working, MayExtract
<1>3. half' \subseteq running' /\ running' \subseteq Monitors
  BY <1>1, <1>2 DEF MonitorReturns, MonitorFails, Elapse, ExtractPanics
<1>4. outcome' \in {"running", "failed", "elapsed", "panicked"}
  BY <1>2 DEF MonitorReturns, MonitorFails, Elapse, ExtractPanics
<1> HIDE DEF SendInv
<1> QED BY <1>1, <1>2, <1>3, <1>4, MonitorStep

\* Every step keeps the invariant.
LEMMA SendStep == SendInv /\ [Next]_vars => SendInv'
<1> SUFFICES ASSUME SendInv, [Next]_vars PROVE SendInv'
  OBVIOUS
<1>1. CASE MakePendingBlock
  BY <1>1, MakeBlockSend
<1>2. ASSUME NEW m \in Monitors,
             Surround(m) \/ CandidateFront(m) \/ CandidateBack(m) \/ Lead(m)
      PROVE  SendInv'
  BY <1>2, SurroundSend, CandidateFrontSend, CandidateBackSend, LeadSend
<1>3. ASSUME NEW m \in Monitors, MonitorReturns(m) \/ MonitorFails(m)
      PROVE  SendInv'
  BY <1>3, OtherSteps
<1>4. CASE Elapse \/ ExtractPanics
  BY <1>4, OtherSteps
<1>5. CASE Extract
  BY <1>5, ExtractSend
<1>6. CASE UNCHANGED vars
  <2>1. /\ UNCHANGED <<raw, baseFeeGiven, block, level, half, running, toSend, outcome, txs>>
    BY <1>6 DEF vars
  <2>2. \A o : Built(o)' <=> Built(o)
    BY <2>1, SameOrders DEF Built
  <2>3. (\A k \in DOMAIN toSend : Offers(toSend[k]))'
    <3>1. \A k \in DOMAIN toSend' : Offers(toSend'[k])
      BY <2>1 DEF SendInv
    <3> QED BY <2>1, <3>1, OffersKept
  <2> QED BY <2>1, <2>2, <2>3 DEF SendInv
<1> QED BY <1>1, <1>2, <1>3, <1>4, <1>5, <1>6 DEF Next

\* The invariant types the state.
LEMMA SendTypes == SendInv => TypeOK
<1> SUFFICES ASSUME SendInv PROVE TypeOK
  OBVIOUS
<1>1. raw \in [txs : Seq(RawTxs), logs : Seq(0 .. MaxBlockTxs)]
  <2>1. NoAnswer \in [txs : Seq(RawTxs), logs : Seq(0 .. MaxBlockTxs)]
    BY DEF NoAnswer
  <2>2. ASSUME NEW a \in Answers PROVE a \in [txs : Seq(RawTxs), logs : Seq(0 .. MaxBlockTxs)]
    BY AnswersAssumption
  <2> QED BY <2>1, <2>2 DEF SendInv
<1>2. level \in [Monitors -> 1 .. MaxBlockTxs + 1]
  <2>1. Len(block) \in Nat /\ Len(block) <= MaxBlockTxs
    BY DEF SendInv
  <2>2. 1 .. Len(block) + 1 \subseteq 1 .. MaxBlockTxs + 1
    BY <2>1, BlockAssumption
  <2> QED BY <2>2 DEF SendInv
<1>3. \A i \in DOMAIN txs : {txs[i].nonce, txs[i].fee, txs[i].max} \subseteq Nat
  <2>1. CASE outcome # "extracted"
    BY <2>1 DEF SendInv
  <2>2. CASE outcome = "extracted"
    <3>1. PICK o : Built(o)
      BY <2>2 DEF SendInv
    <3>2. toSend \in Seq(Multicalls)
      BY DEF SendInv
    <3> TAKE i \in DOMAIN txs
    <3>3. /\ i \in Nat /\ i >= 1 /\ o[i] \in Runs
          /\ txs[i].nonce = FirstNonce + i - 1 /\ txs[i].fee = FeeOf(o[i])
          /\ txs[i].max = baseFee + FeeOf(o[i])
      BY <3>1, <3>2, BuiltFacts
    <3>4. FeeOf(o[i]) \in Nat
      <4>1. o[i][1] \in DOMAIN toSend
        BY <3>2, <3>3, RunFacts
      <4>2. toSend[o[i][1]] \in Multicalls
        BY <3>2, <4>1
      <4> QED BY <4>2 DEF FeeOf, Multicalls
    <3>5. baseFee \in Nat
      BY BaseFeeNat DEF SendInv
    <3>6. FirstNonce + i - 1 \in Nat
      <4>1. FirstNonce \in Nat
        BY FeesAssumption
      <4> QED BY <3>3, <4>1
    <3>7. baseFee + FeeOf(o[i]) \in Nat
      BY <3>4, <3>5
    <3> QED BY <3>3, <3>4, <3>6, <3>7
  <2> QED BY <2>1, <2>2
<1> QED BY <1>1, <1>2, <1>3 DEF SendInv, TypeOK

-----------------------------------------------------------------------------
(* Theorems.                                                               *)

\* Every variable keeps to its values, whatever the node answered.
THEOREM SendTypeOK == Spec => []TypeOK
BY SendInit, SendStep, SendTypes, PTL DEF Spec

\* The pending block is the one the node's answers describe: its transactions in
\* their order, paying what they pay, none with a log of another and, when the
\* logs are in the block's order, each with all of its own; and an incomplete
\* answer is refused (block.rs, make_pending_block; transactions.rs).
THEOREM BlockIsTheNodes == Spec => BlockFaithful
<1> DEFINE Step == outcome = "answered" =>
             IF \E i \in DOMAIN raw.txs : Incomplete(raw.txs[i])
             THEN outcome' = "failed" /\ block' = <<>>
             ELSE outcome' = "running" /\ Describes(block', raw)
<1>1. SendInv /\ [Next]_vars => [Step]_vars
  <2> SUFFICES ASSUME SendInv, Next, outcome = "answered"
               PROVE  IF \E i \in DOMAIN raw.txs : Incomplete(raw.txs[i])
                      THEN outcome' = "failed" /\ block' = <<>>
                      ELSE outcome' = "running" /\ Describes(block', raw)
    OBVIOUS
  <2>1. MakePendingBlock
    BY DEF Next, Surround, CandidateFront, CandidateBack, Lead, MonitorReturns,
           MonitorFails, Elapse, ExtractPanics, Extract, Working, MayExtract
  <2>2. raw \in Answers /\ block = <<>>
    BY DEF SendInv
  <2>3. IsBlock(raw) <=> ~ \E i \in DOMAIN raw.txs : Incomplete(raw.txs[i])
    BY Complete DEF IsBlock
  <2>4. IsBlock(raw) => Describes(MakeBlock(raw), raw)
    BY <2>2, Described
  <2> QED BY <2>1, <2>2, <2>3, <2>4 DEF MakePendingBlock
<1> QED BY <1>1, SendInit, SendStep, PTL DEF Spec, BlockFaithful

\* However many monitors add and however their fees tie, a later nonce never
\* offers more (block.rs, sort_unstable_by_key; engine.rs, extract_txs_to_send).
THEOREM FeesFall == Spec => []NoncesFollowFees
BY OrderedByFee, SendInit, SendStep, PTL DEF Spec

\* What is sent around a level is around it, also when it was merged with what
\* other monitors added (block.rs, add_to_send; multicall.rs, merging).
THEOREM LevelsSurrounded == Spec => []SurroundsLevel
BY SurroundsByFee, SendInit, SendStep, PTL DEF Spec

\* What is to be first in the block comes before whatever is sent around a level
\* that pays less than the block's first transaction, base fee included, and
\* behind one that pays as much (block.rs, PriorityFeeEstimator).
THEOREM LeadersLead == Spec => []FirstLeads
BY FirstIsDearest, SendInit, SendStep, PTL DEF Spec

\* Merging and sorting lose no call and send none twice.
THEOREM NoCallLost == Spec => []CallsConserved
BY AllCallsSent, SendInit, SendStep, PTL DEF Spec

\* Multicalls that share a transaction do not undo one another, whatever set of
\* calls fails (block.rs, MultiCallGroups::extend).
THEOREM FailuresStayHome == Spec => [](FailuresIsolated /\ FailuresAtHome)
BY IsolatesFailures, SendInit, SendStep, PTL DEF Spec

\* What others are appended to stays all or nothing.
THEOREM LeadersStayWhole == Spec => []LeadersAtomic
BY KeepsLeadersWhole, SendInit, SendStep, PTL DEF Spec

=============================================================================
