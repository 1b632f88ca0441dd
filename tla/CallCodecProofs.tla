-------------------------- MODULE CallCodecProofs --------------------------
(***************************************************************************)
(* Proofs about CallCodec, for any base, widths and length of data: the    *)
(* contract executes what was encoded, and the decoder never misreads it.  *)
(*                                                                         *)
(* A word read back is what was written: its bytes are the remainders of   *)
(* dividing it again and again, of which nothing is left after WordLen     *)
(* times, and reading puts the quotients together again.  An input is a    *)
(* few lists joined, and a reader that knows the width of the first takes  *)
(* off exactly that.  The invariant then says what is on the wire.         *)
(***************************************************************************)
EXTENDS CallCodec, Induction

(* Powers, words and numbers.                                               *)

\* Division by the base.
LEMMA Division ==
  ASSUME NEW v \in Nat, NEW b \in Nat \ {0}
  PROVE  /\ v \div b \in Nat /\ v % b \in 0 .. b - 1
         /\ ((v \div b) * b) + (v % b) = v
         /\ \A p \in Nat : v < b * p => v \div b < p
<1>1. v \div b \in Nat /\ v % b \in 0 .. b - 1
  OBVIOUS
<1>2. ((v \div b) * b) + (v % b) = v
  OBVIOUS
<1>3. ASSUME NEW p \in Nat, v < b * p PROVE v \div b < p
  <2> DEFINE q == v \div b
  <2> SUFFICES ASSUME p <= q PROVE FALSE
    BY <1>1
  <2>1. q \in Nat /\ q * b <= v
    BY <1>1, <1>2
  <2> HIDE DEF q
  <2>2. PICK d \in Nat : q = p + d
    <3>1. q - p \in Nat /\ q = p + (q - p)
      BY <2>1
    <3> QED BY <3>1
  <2>3. q * b = p * b + d * b /\ d * b \in Nat /\ p * b = b * p /\ p * b \in Nat
    BY <2>2
  <2> QED BY <1>3, <2>1, <2>3
<1> QED BY <1>1, <1>2, <1>3

\* The widths, and the base.
LEMMA Bases == /\ Base \in Nat \ {0} /\ WordLen \in Nat \ {0} /\ AddrLen \in Nat \ {0}
               /\ AddrLen < WordLen /\ MaxData \in Nat
BY WidthAssumption

\* The powers of the base up to a word's.
LEMMA Powers ==
  /\ Power[0] = 1
  /\ \A k \in 1 .. WordLen : Power[k] = Base * Power[k - 1]
  /\ \A k \in 0 .. WordLen : Power[k] \in Nat \ {0}
<1> DEFINE D(g, k) == IF k = 0 THEN 1 ELSE Base * g[k - 1]
           step == [k \in 1 .. WordLen |-> [x \in Nat |-> Base * x]]
<1>0. WordLen \in Nat /\ Base \in Nat \ {0}
  BY Bases
<1>1. step \in [1 .. WordLen -> [Nat -> Nat]] /\ 1 \in Nat
  BY <1>0
<1>2. PICK f : Follows(f, WordLen, Nat, 1, step)
  <2> HIDE DEF step
  <2> QED BY <1>0, <1>1, Recursion
<1>3. f = [k \in 0 .. WordLen |-> D(f, k)]
  <2>1. /\ f \in [0 .. WordLen -> Nat] /\ f[0] = 1
        /\ \A k \in 1 .. WordLen : f[k] = step[k][f[k - 1]]
    <3> HIDE DEF step
    <3> QED BY <1>2 DEF Follows
  <2>2. ASSUME NEW k \in 0 .. WordLen PROVE f[k] = D(f, k)
    <3>1. CASE k = 0
      BY <2>1, <3>1
    <3>2. CASE k # 0
      <4>1. k \in 1 .. WordLen /\ k - 1 \in 0 .. WordLen
        BY <1>0, <3>2
      <4>2. f[k] = step[k][f[k - 1]] /\ f[k - 1] \in Nat
        BY <2>1, <4>1
      <4> QED BY <3>2, <4>1, <4>2
    <3> QED BY <3>1, <3>2
  <2> HIDE DEF D, step
  <2> QED BY <2>1, <2>2
<1>4. Power = CHOOSE g : g = [k \in 0 .. WordLen |-> D(g, k)]
  BY DEF Power
<1>5. Power = [k \in 0 .. WordLen |-> D(Power, k)]
  <2> HIDE DEF D
  <2> QED BY <1>3, <1>4
<1>6. Power[0] = 1
  BY <1>0, <1>5
<1>7. \A k \in 1 .. WordLen : Power[k] = Base * Power[k - 1]
  <2> TAKE k \in 1 .. WordLen
  <2>1. k \in 0 .. WordLen /\ k # 0
    BY <1>0
  <2>2. Power[k] = D(Power, k)
    <3> HIDE DEF D
    <3> QED BY <1>5, <2>1
  <2> QED BY <2>1, <2>2
<1> DEFINE Good == {k \in 0 .. WordLen : Power[k] \in Nat \ {0}}
<1>8. 0 .. WordLen \subseteq Good
  <2>1. 0 \in Good
    BY <1>0, <1>6
  <2>2. ASSUME NEW k \in 0 .. WordLen - 1, k \in Good PROVE k + 1 \in Good
    <3>1. k + 1 \in 1 .. WordLen /\ (k + 1) - 1 = k /\ k + 1 \in 0 .. WordLen
      BY <1>0
    <3>2. Power[k + 1] = Base * Power[k]
      BY <1>7, <3>1
    <3>3. Power[k] \in Nat \ {0}
      BY <2>2
    <3>4. \A x, y \in Nat \ {0} : x * y \in Nat \ {0}
      OBVIOUS
    <3> QED BY <1>0, <3>1, <3>2, <3>3, <3>4
  <2> HIDE DEF Good
  <2> QED BY <1>0, <2>1, <2>2, SetInductionTo
<1> QED BY <1>6, <1>7, <1>8

\* What is left of v after dividing it again and again.
Quotients(rest, v, n) ==
  /\ rest \in [0 .. n -> Nat] /\ rest[0] = v
  /\ \A i \in 1 .. n : rest[i] = rest[i - 1] \div Base

\* The quotients exist, and the bytes are their remainders.
LEMMA Digits ==
  ASSUME NEW n \in Nat, NEW v \in Nat
  PROVE  \E rest : /\ Quotients(rest, v, n)
                   /\ BigEndian(v, n) = [i \in 1 .. n |-> rest[n - i] % Base]
<1> DEFINE D(g, i) == IF i = 0 THEN v ELSE g[i - 1] \div Base
           rest == CHOOSE g : g = [i \in 0 .. n |-> D(g, i)]
           step == [i \in 1 .. n |-> [x \in Nat |-> x \div Base]]
<1>0. Base \in Nat \ {0}
  BY Bases
<1>1. step \in [1 .. n -> [Nat -> Nat]]
  BY <1>0, Division
<1>2. PICK f : Follows(f, n, Nat, v, step)
  <2> HIDE DEF step
  <2> QED BY <1>1, Recursion
<1>3. f = [i \in 0 .. n |-> D(f, i)]
  <2>1. /\ f \in [0 .. n -> Nat] /\ f[0] = v
        /\ \A k \in 1 .. n : f[k] = step[k][f[k - 1]]
    <3> HIDE DEF step
    <3> QED BY <1>2 DEF Follows
  <2>2. ASSUME NEW k \in 0 .. n PROVE f[k] = D(f, k)
    <3>1. CASE k = 0
      BY <2>1, <3>1
    <3>2. CASE k # 0
      <4>1. k \in 1 .. n /\ k - 1 \in 0 .. n
        BY <3>2
      <4>2. f[k] = step[k][f[k - 1]] /\ f[k - 1] \in Nat
        BY <2>1, <4>1
      <4> QED BY <3>2, <4>1, <4>2
    <3> QED BY <3>1, <3>2
  <2> HIDE DEF D, step
  <2> QED BY <2>1, <2>2
<1>4. rest = [i \in 0 .. n |-> D(rest, i)]
  <2> HIDE DEF D
  <2> QED BY <1>3
<1>5. BigEndian(v, n) = [i \in 1 .. n |-> rest[n - i] % Base]
  BY DEF BigEndian
<1> HIDE DEF rest
<1>6. rest[0] = v
  BY <1>4
<1>7. \A i \in 1 .. n : rest[i] = rest[i - 1] \div Base
  <2> TAKE i \in 1 .. n
  <2>1. i \in 0 .. n /\ i # 0
    OBVIOUS
  <2>2. rest[i] = D(rest, i)
    <3> HIDE DEF D
    <3> QED BY <1>4, <2>1
  <2> QED BY <2>1, <2>2
<1> DEFINE Good == {i \in 0 .. n : rest[i] \in Nat}
<1>8. 0 .. n \subseteq Good
  <2>1. 0 \in Good
    BY <1>6
  <2>2. ASSUME NEW i \in 0 .. n - 1, i \in Good PROVE i + 1 \in Good
    <3>1. i + 1 \in 1 .. n /\ (i + 1) - 1 = i /\ i + 1 \in 0 .. n
      OBVIOUS
    <3>2. rest[i + 1] = rest[i] \div Base
      BY <1>7, <3>1
    <3>3. rest[i] \in Nat
      BY <2>2
    <3>4. \A x \in Nat : x \div Base \in Nat
      BY <1>0, Division
    <3> QED BY <3>1, <3>2, <3>3, <3>4
  <2> HIDE DEF Good
  <2> QED BY <2>1, <2>2, SetInductionTo
<1>9. rest \in [0 .. n -> Nat]
  <2> HIDE DEF D
  <2> QED BY <1>4, <1>8
<1> HIDE DEF D
<1> QED BY <1>5, <1>6, <1>7, <1>9 DEF Quotients

\* What has been read of s so far.
Values(value, s, n) ==
  /\ value[0] = 0
  /\ \A i \in 1 .. n : value[i] = value[i - 1] * Base + s[i]

\* `Number` computes these.
LEMMA Reading ==
  ASSUME NEW s \in Seq(Nat)
  PROVE  \E value : Values(value, s, Len(s)) /\ Number(s) = value[Len(s)]
<1> DEFINE n == Len(s)
           D(g, i) == IF i = 0 THEN 0 ELSE g[i - 1] * Base + s[i]
           value == CHOOSE g : g = [i \in 0 .. n |-> D(g, i)]
           step == [i \in 1 .. n |-> [x \in Nat |-> x * Base + s[i]]]
<1>0. Base \in Nat /\ n \in Nat /\ 0 \in Nat /\ \A i \in 1 .. n : s[i] \in Nat
  BY Bases
<1>1. step \in [1 .. n -> [Nat -> Nat]]
  <2> HIDE DEF n
  <2>1. \A x, y, z \in Nat : x * y + z \in Nat
    OBVIOUS
  <2> QED BY <1>0, <2>1
<1>2. PICK f : Follows(f, n, Nat, 0, step)
  <2> HIDE DEF step, n
  <2> QED BY <1>0, <1>1, Recursion
<1>3. Number(s) = value[n]
  BY DEF Number
<1> HIDE DEF n
<1>4. f = [i \in 0 .. n |-> D(f, i)]
  <2>1. /\ f \in [0 .. n -> Nat] /\ f[0] = 0
        /\ \A k \in 1 .. n : f[k] = step[k][f[k - 1]]
    <3> HIDE DEF step
    <3> QED BY <1>2 DEF Follows
  <2>2. ASSUME NEW k \in 0 .. n PROVE f[k] = D(f, k)
    <3>1. CASE k = 0
      BY <2>1, <3>1
    <3>2. CASE k # 0
      <4>1. k \in 1 .. n /\ k - 1 \in 0 .. n
        BY <1>0, <3>2
      <4>2. f[k] = step[k][f[k - 1]] /\ f[k - 1] \in Nat
        BY <2>1, <4>1
      <4>3. step[k][f[k - 1]] = f[k - 1] * Base + s[k]
        BY <4>1, <4>2
      <4> QED BY <3>2, <4>2, <4>3
    <3> QED BY <3>1, <3>2
  <2> HIDE DEF D, step
  <2> QED BY <2>1, <2>2
<1>5. value = [i \in 0 .. n |-> D(value, i)]
  <2> HIDE DEF D
  <2> QED BY <1>4
<1> HIDE DEF value
<1>6. value[0] = 0
  BY <1>0, <1>5
<1>7. \A i \in 1 .. n : value[i] = value[i - 1] * Base + s[i]
  <2> TAKE i \in 1 .. n
  <2>1. i \in 0 .. n /\ i # 0
    BY <1>0
  <2>2. value[i] = D(value, i)
    <3> HIDE DEF D
    <3> QED BY <1>5, <2>1
  <2> QED BY <2>1, <2>2
<1> HIDE DEF D
<1> QED BY <1>3, <1>6, <1>7 DEF Values, n

\* A word read back is what was written.
LEMMA WordsRoundTrip ==
  ASSUME NEW v \in Words
  PROVE  /\ BigEndian(v, WordLen) \in Seq(Byte) /\ Len(BigEndian(v, WordLen)) = WordLen
         /\ Number(BigEndian(v, WordLen)) = v
<1> DEFINE n == WordLen
           s == BigEndian(v, n)
<1>0. n \in Nat \ {0} /\ Base \in Nat \ {0} /\ n \in 0 .. n
  BY Bases
<1>1. v \in Nat /\ v < Power[n]
  <2>1. Power[n] \in Nat \ {0}
    BY <1>0, Powers
  <2> QED BY <2>1 DEF Words
<1>2. PICK rest : Quotients(rest, v, n) /\ s = [i \in 1 .. n |-> rest[n - i] % Base]
  BY <1>0, <1>1, Digits
<1> HIDE DEF n, s
<1>3. /\ \A i \in 0 .. n : rest[i] \in Nat
      /\ rest[0] = v /\ \A i \in 1 .. n : rest[i] = rest[i - 1] \div Base
  BY <1>2 DEF Quotients
<1>4. ASSUME NEW i \in 1 .. n PROVE n - i \in 0 .. n /\ s[i] = rest[n - i] % Base /\ s[i] \in Byte
  <2>1. n - i \in 0 .. n
    BY <1>0
  <2>2. s[i] = rest[n - i] % Base
    BY <1>2
  <2>3. \A x \in Nat : x % Base \in Byte
    BY <1>0, Division DEF Byte
  <2> QED BY <1>3, <2>1, <2>2, <2>3
<1>5. s \in Seq(Byte) /\ Len(s) = n
  <2>1. s \in [1 .. n -> Byte]
    BY <1>2, <1>4
  <2>2. s \in Seq(Byte)
    BY <1>0, <2>1, SeqDef
  <2> QED BY <1>0, <2>1, <2>2
<1>6. s \in Seq(Nat)
  <2>1. s \in [1 .. n -> Nat]
    BY <1>2, <1>4, <1>0 DEF Byte
  <2> QED BY <1>0, <2>1, SeqDef
<1>7. PICK value : Values(value, s, Len(s)) /\ Number(s) = value[Len(s)]
  BY <1>6, Reading
<1>8. value[0] = 0 /\ \A i \in 1 .. n : value[i] = value[i - 1] * Base + s[i]
  BY <1>5, <1>7 DEF Values
\* After n divisions nothing is left,
<1> DEFINE Small == {i \in 0 .. n : rest[i] < Power[n - i]}
<1>9. 0 .. n \subseteq Small
  <2>1. 0 \in Small
    <3>1. 0 \in 0 .. n /\ n - 0 = n
      BY <1>0
    <3> QED BY <1>1, <1>3, <3>1
  <2>2. ASSUME NEW i \in 0 .. n - 1, i \in Small PROVE i + 1 \in Small
    <3>1. /\ i + 1 \in 1 .. n /\ (i + 1) - 1 = i /\ i + 1 \in 0 .. n /\ i \in 0 .. n
          /\ n - i \in 1 .. n /\ (n - i) - 1 = n - (i + 1) /\ n - (i + 1) \in 0 .. n
      BY <1>0
    <3>2. rest[i + 1] = rest[i] \div Base
      BY <1>3, <3>1
    <3>3. Power[n - i] = Base * Power[n - (i + 1)] /\ Power[n - (i + 1)] \in Nat
      BY <3>1, Powers DEF n
    <3>4. rest[i] < Base * Power[n - (i + 1)]
      BY <2>2, <3>3
    <3>5. rest[i] \div Base < Power[n - (i + 1)]
      BY <1>0, <1>3, <3>1, <3>3, <3>4, Division
    <3> QED BY <3>1, <3>2, <3>5
  <2> HIDE DEF Small
  <2> QED BY <1>0, <2>1, <2>2, SetInductionTo
<1>10. rest[n] = 0
  <2>1. rest[n] < Power[0] /\ Power[0] = 1 /\ rest[n] \in Nat
    <3>1. n - n = 0
      BY <1>0
    <3>2. rest[n] < Power[n - n]
      BY <1>0, <1>9
    <3> QED BY <1>0, <1>3, <3>1, <3>2, Powers
  <2> QED BY <2>1
\* and reading puts the quotients together again.
<1> DEFINE Back == {i \in 0 .. n : value[i] = rest[n - i]}
<1>11. 0 .. n \subseteq Back
  <2>1. 0 \in Back
    <3>1. 0 \in 0 .. n /\ n - 0 = n
      BY <1>0
    <3> QED BY <1>8, <1>10, <3>1
  <2>2. ASSUME NEW i \in 0 .. n - 1, i \in Back PROVE i + 1 \in Back
    <3>1. /\ i + 1 \in 1 .. n /\ (i + 1) - 1 = i /\ i + 1 \in 0 .. n
          /\ n - i \in 1 .. n /\ (n - i) - 1 = n - (i + 1) /\ n - (i + 1) \in 0 .. n
      BY <1>0
    <3>2. value[i + 1] = value[i] * Base + s[i + 1]
      BY <1>8, <3>1
    <3>3. value[i] = rest[n - (i + 1)] \div Base
      BY <1>3, <2>2, <3>1
    <3>4. s[i + 1] = rest[n - (i + 1)] % Base
      BY <1>4, <3>1
    <3>5. \A x \in Nat : ((x \div Base) * Base) + (x % Base) = x
      BY <1>0, Division
    <3>6. value[i + 1] = rest[n - (i + 1)]
      BY <1>3, <3>1, <3>2, <3>3, <3>4, <3>5
    <3> QED BY <3>1, <3>6
  <2> HIDE DEF Back
  <2> QED BY <1>0, <2>1, <2>2, SetInductionTo
<1>12. value[n] = v
  <2>1. n - n = 0
    BY <1>0
  <2> QED BY <1>0, <1>3, <1>11, <2>1
<1> QED BY <1>5, <1>7, <1>12 DEF n, s

\* Taking the front off two lists joined.
LEMMA FrontAndRest ==
  ASSUME NEW a \in Seq(Byte), NEW b \in Seq(Byte)
  PROVE  /\ a \o b \in Seq(Byte) /\ Len(a \o b) = Len(a) + Len(b)
         /\ SubSeq(a \o b, 1, Len(a)) = a
         /\ Rest(a \o b, Len(a)) = b
<1> DEFINE u == a \o b
<1>1. /\ u \in Seq(Byte) /\ Len(u) = Len(a) + Len(b) /\ Len(a) \in Nat /\ Len(b) \in Nat
      /\ \A i \in 1 .. Len(a) + Len(b) : u[i] = IF i <= Len(a) THEN a[i] ELSE b[i - Len(a)]
  BY ConcatProperties
<1>2. SubSeq(u, 1, Len(a)) = a
  <2> HIDE DEF u
  <2>1. \A i \in 1 .. Len(a) : u[i] = a[i] /\ i \in 1 .. Len(u)
    BY <1>1
  <2> QED BY <1>1, <2>1
<1>3. SubSeq(u, Len(a) + 1, Len(u)) = b
  <2> HIDE DEF u
  <2>1. \A i \in Len(a) + 1 .. Len(u) : u[i] \in Byte
    BY <1>1
  <2> DEFINE t == SubSeq(u, Len(a) + 1, Len(u))
  <2>2. /\ t \in Seq(Byte)
        /\ Len(t) = IF Len(a) + 1 <= Len(u) THEN Len(u) - (Len(a) + 1) + 1 ELSE 0
        /\ \A i \in 1 .. Len(u) - (Len(a) + 1) + 1 : t[i] = u[Len(a) + 1 + i - 1]
    BY <1>1, <2>1, SubSeqProperties
  <2> HIDE DEF t
  <2>3. Len(t) = Len(b)
    BY <1>1, <2>2
  <2>4. \A i \in 1 .. Len(b) : t[i] = b[i]
    <3> TAKE i \in 1 .. Len(b)
    <3>1. i \in 1 .. Len(u) - (Len(a) + 1) + 1 /\ Len(a) + 1 + i - 1 = Len(a) + i
      BY <1>1
    <3>2. t[i] = u[Len(a) + i]
      BY <2>2, <3>1
    <3>3. Len(a) + i \in 1 .. Len(a) + Len(b) /\ ~ (Len(a) + i <= Len(a)) /\ (Len(a) + i) - Len(a) = i
      BY <1>1
    <3> QED BY <1>1, <3>2, <3>3
  <2>5. t = b
    <3>1. t \in Seq(Byte) /\ b \in Seq(Byte)
      BY <2>2
    <3> QED BY <3>1, <2>3, <2>4, SeqEqual
  <2> QED BY <2>5 DEF t
<1> QED BY <1>1, <1>2, <1>3 DEF Rest

-----------------------------------------------------------------------------
(* The parts of an input.                                                   *)

\* Joining lists of bytes.
LEMMA ByteLists ==
  /\ <<>> \in Seq(Byte)
  /\ \A a \in Seq(Byte) : <<>> \o a = a /\ a \o <<>> = a
  /\ \A a, b \in Seq(Byte) : a \o b \in Seq(Byte)
  /\ \A a, b, c \in Seq(Byte) : (a \o b) \o c = a \o (b \o c)
<1>1. ASSUME NEW a \in Seq(Byte), NEW b \in Seq(Byte), NEW c \in Seq(Byte)
      PROVE  (a \o b) \o c = a \o (b \o c)
  BY ConcatAssociative, SMTT(60)
<1>2. ASSUME NEW a \in Seq(Byte) PROVE <<>> \o a = a /\ a \o <<>> = a
  BY ConcatEmptySeq
<1> QED BY <1>1, <1>2

\* The parts of an input are lists of bytes.
LEMMA Parts ==
  /\ \A t \in Addrs : t \in Seq(Byte) /\ Len(t) = AddrLen
  /\ \A v \in Words : /\ WordBytes(v) \in Seq(Byte) /\ Len(WordBytes(v)) = WordLen
                      /\ Number(WordBytes(v)) = v
  /\ Data \subseteq Seq(Byte)
<1>1. ASSUME NEW t \in Addrs PROVE t \in Seq(Byte) /\ Len(t) = AddrLen
  <2>1. t \in [1 .. AddrLen -> Byte] /\ AddrLen \in Nat
    BY Bases DEF Addrs
  <2>2. t \in Seq(Byte)
    BY <2>1, SeqDef
  <2> QED BY <2>1, <2>2
<1>2. ASSUME NEW v \in Words
      PROVE  /\ WordBytes(v) \in Seq(Byte) /\ Len(WordBytes(v)) = WordLen
             /\ Number(WordBytes(v)) = v
  BY WordsRoundTrip DEF WordBytes
<1>3. Data \subseteq Seq(Byte)
  <2>1. \A S, n : n \in Nat => SeqOf(S, n) \subseteq Seq(S)
    BY SeqDef DEF SeqOf
  <2> QED BY <2>1, Bases DEF Data
<1> QED BY <1>1, <1>2, <1>3

\* The front of an input that starts with an address or with a word.
LEMMA AddressFirst ==
  ASSUME NEW t \in Addrs, NEW b \in Seq(Byte)
  PROVE  /\ t \o b \in Seq(Byte) /\ Len(t \o b) = AddrLen + Len(b)
         /\ SubSeq(t \o b, 1, AddrLen) = t /\ Rest(t \o b, AddrLen) = b
<1>1. t \in Seq(Byte) /\ Len(t) = AddrLen
  BY Parts
<1> QED BY <1>1, FrontAndRest

\* The same of a word, which is read back as what was written.
LEMMA WordFirst ==
  ASSUME NEW v \in Words, NEW b \in Seq(Byte)
  PROVE  /\ WordBytes(v) \o b \in Seq(Byte) /\ Len(WordBytes(v) \o b) = WordLen + Len(b)
         /\ SubSeq(WordBytes(v) \o b, 1, WordLen) = WordBytes(v)
         /\ Number(SubSeq(WordBytes(v) \o b, 1, WordLen)) = v
         /\ Rest(WordBytes(v) \o b, WordLen) = b
<1> DEFINE w == WordBytes(v)
<1>1. w \in Seq(Byte) /\ Len(w) = WordLen /\ Number(w) = v
  BY Parts
<1> HIDE DEF w
<1>2. /\ w \o b \in Seq(Byte) /\ Len(w \o b) = WordLen + Len(b)
      /\ SubSeq(w \o b, 1, WordLen) = w /\ Rest(w \o b, WordLen) = b
  BY <1>1, FrontAndRest
<1>3. Number(SubSeq(w \o b, 1, WordLen)) = v
  BY <1>1, <1>2
<1> QED BY <1>2, <1>3 DEF w

\* The fields of a call.
LEMMA Fields ==
  \A k, t, v, s, d :
    /\ Call(k, t, v, s, d).kind = k /\ Call(k, t, v, s, d).target = t
    /\ Call(k, t, v, s, d).value = v /\ Call(k, t, v, s, d).salt = s
    /\ Call(k, t, v, s, d).data = d
BY DEF Call

\* What the input of each kind of call looks like.
LEMMA InputShapes ==
  /\ \A t \in Addrs, v \in Words, d \in Data :
       /\ v = 0 => InputOf(Call("call", t, v, 0, d)) = t \o d
       /\ v # 0 => InputOf(Call("call", t, v, 0, d)) = WordBytes(v) \o (t \o d)
  /\ \A t \in Addrs : InputOf(Call("balanceOf", t, 0, 0, <<>>)) = t \o <<>>
  /\ \A v \in Words, d \in Data :
       /\ v = 0 => InputOf(Call("create", NoAddr, v, 0, d)) = d
       /\ v # 0 => InputOf(Call("create", NoAddr, v, 0, d)) = WordBytes(v) \o d
  /\ \A v \in Words, s \in Words, d \in Data :
       /\ v = 0 => InputOf(Call("create2", NoAddr, v, s, d)) = WordBytes(s) \o d
       /\ v # 0 => InputOf(Call("create2", NoAddr, v, s, d)) = WordBytes(v) \o (WordBytes(s) \o d)
<1>1. \A c : InputOf(c) = ((ValueBytes(c) \o SaltBytes(c)) \o c.target) \o c.data
  BY DEF InputOf
<1>2. \A c : /\ c.value = 0 => ValueBytes(c) = <<>>
             /\ c.value # 0 => ValueBytes(c) = WordBytes(c.value)
             /\ c.kind # "create2" => SaltBytes(c) = <<>>
             /\ c.kind = "create2" => SaltBytes(c) = WordBytes(c.salt)
  BY DEF ValueBytes, SaltBytes
<1> DEFINE Plain(k, t, v, s, d) ==
             /\ v = 0 => InputOf(Call(k, t, v, s, d)) = t \o d
             /\ v # 0 => InputOf(Call(k, t, v, s, d)) = WordBytes(v) \o (t \o d)
<1>3. ASSUME NEW k, NEW t \in Seq(Byte), NEW v \in Words, NEW s, NEW d \in Seq(Byte), k # "create2"
      PROVE  Plain(k, t, v, s, d)
  <2> DEFINE c == Call(k, t, v, s, d)
  <2>1. c.kind = k /\ c.target = t /\ c.value = v /\ c.salt = s /\ c.data = d
    BY Fields
  <2> HIDE DEF c
  <2>2. InputOf(c) = ((ValueBytes(c) \o <<>>) \o t) \o d
    BY <1>1, <1>2, <1>3, <2>1
  <2>3. WordBytes(v) \in Seq(Byte)
    BY Parts
  <2>4. CASE v = 0
    <3>1. InputOf(c) = ((<<>> \o <<>>) \o t) \o d
      BY <1>2, <2>1, <2>2, <2>4
    <3>2. <<>> \o <<>> = <<>> /\ <<>> \o t = t
      BY ByteLists
    <3> QED BY <2>4, <3>1, <3>2 DEF c
  <2>5. CASE v # 0
    <3>1. InputOf(c) = ((WordBytes(v) \o <<>>) \o t) \o d
      BY <1>2, <2>1, <2>2, <2>5
    <3>2. WordBytes(v) \o <<>> = WordBytes(v) /\ (WordBytes(v) \o t) \o d = WordBytes(v) \o (t \o d)
      BY <2>3, ByteLists
    <3> QED BY <2>5, <3>1, <3>2 DEF c
  <2> QED BY <2>4, <2>5
<1>4. ASSUME NEW v \in Words, NEW s \in Words, NEW d \in Seq(Byte)
      PROVE  /\ v = 0 => InputOf(Call("create2", NoAddr, v, s, d)) = WordBytes(s) \o d
             /\ v # 0 => InputOf(Call("create2", NoAddr, v, s, d)) = WordBytes(v) \o (WordBytes(s) \o d)
  <2> DEFINE c == Call("create2", NoAddr, v, s, d)
  <2>1. c.kind = "create2" /\ c.target = <<>> /\ c.value = v /\ c.salt = s /\ c.data = d
    BY Fields DEF NoAddr
  <2> HIDE DEF c
  <2>2. InputOf(c) = ((ValueBytes(c) \o WordBytes(s)) \o <<>>) \o d
    BY <1>1, <1>2, <2>1
  <2>3. WordBytes(v) \in Seq(Byte) /\ WordBytes(s) \in Seq(Byte)
    BY Parts
  <2>4. CASE v = 0
    <3>1. InputOf(c) = ((<<>> \o WordBytes(s)) \o <<>>) \o d
      BY <1>2, <2>1, <2>2, <2>4
    <3>2. <<>> \o WordBytes(s) = WordBytes(s) /\ WordBytes(s) \o <<>> = WordBytes(s)
      BY <2>3, ByteLists
    <3> QED BY <2>4, <3>1, <3>2 DEF c
  <2>5. CASE v # 0
    <3>1. InputOf(c) = ((WordBytes(v) \o WordBytes(s)) \o <<>>) \o d
      BY <1>2, <2>1, <2>2, <2>5
    <3> DEFINE w == WordBytes(v) \o WordBytes(s)
    <3>2. w \in Seq(Byte) /\ w \o <<>> = w
      BY <2>3, ByteLists
    <3>3. w \o d = WordBytes(v) \o (WordBytes(s) \o d)
      BY <2>3, ByteLists
    <3> QED BY <2>5, <3>1, <3>2, <3>3 DEF c
  <2> QED BY <2>4, <2>5
<1>5. <<>> \in Seq(Byte) /\ NoAddr = <<>> /\ Data \subseteq Seq(Byte) /\ Addrs \subseteq Seq(Byte) /\ 0 \in Words
  <2>1. Power[WordLen] \in Nat \ {0}
    BY Powers, Bases
  <2>2. 0 \in Words
    BY <2>1 DEF Words
  <2> QED BY <2>2, Parts, ByteLists DEF NoAddr
<1> HIDE DEF Plain
<1>8. ASSUME NEW t \in Addrs, NEW v \in Words, NEW d \in Data
      PROVE  /\ v = 0 => InputOf(Call("call", t, v, 0, d)) = t \o d
             /\ v # 0 => InputOf(Call("call", t, v, 0, d)) = WordBytes(v) \o (t \o d)
  <2>1. "call" # "create2" /\ t \in Seq(Byte) /\ d \in Seq(Byte)
    BY <1>5
  <2>2. Plain("call", t, v, 0, d)
    BY <1>3, <2>1
  <2> QED BY <2>2 DEF Plain
<1>9. ASSUME NEW t \in Addrs
      PROVE  InputOf(Call("balanceOf", t, 0, 0, <<>>)) = t \o <<>>
  <2>1. "balanceOf" # "create2" /\ t \in Seq(Byte) /\ <<>> \in Seq(Byte) /\ 0 \in Words
    BY <1>5
  <2>2. Plain("balanceOf", t, 0, 0, <<>>)
    BY <1>3, <2>1
  <2> QED BY <2>2 DEF Plain
<1>10. ASSUME NEW v \in Words, NEW d \in Data
       PROVE  /\ v = 0 => InputOf(Call("create", NoAddr, v, 0, d)) = d
              /\ v # 0 => InputOf(Call("create", NoAddr, v, 0, d)) = WordBytes(v) \o d
  <2>1. "create" # "create2" /\ NoAddr \in Seq(Byte) /\ d \in Seq(Byte) /\ NoAddr \o d = d
    BY <1>5, ByteLists
  <2>2. Plain("create", NoAddr, v, 0, d)
    BY <1>3, <2>1
  <2> QED BY <2>1, <2>2 DEF Plain
<1>11. ASSUME NEW v \in Words, NEW s \in Words, NEW d \in Data
       PROVE  /\ v = 0 => InputOf(Call("create2", NoAddr, v, s, d)) = WordBytes(s) \o d
              /\ v # 0 => InputOf(Call("create2", NoAddr, v, s, d)) = WordBytes(v) \o (WordBytes(s) \o d)
  <2>1. d \in Seq(Byte)
    BY <1>5
  <2> QED BY <1>4, <2>1
<1> QED BY <1>8, <1>9, <1>10, <1>11

\* The commands.
LEMMA Commands ==
  /\ Cmd.call = 1 /\ Cmd.callValue = 2 /\ Cmd.balanceOfThis = 3 /\ Cmd.balanceOfSender = 4
  /\ Cmd.balanceOf = 5 /\ Cmd.create = 6 /\ Cmd.createValue = 7
  /\ Cmd.create2 = 8 /\ Cmd.create2Value = 9
BY DEF Cmd

\* The command of each kind of call.
LEMMA CommandFacts ==
  \A t, v, s, d :
    /\ CommandOf(Call("call", t, v, s, d)) = IF v = 0 THEN 1 ELSE 2
    /\ CommandOf(Call("balanceOfThis", t, 0, s, d)) = 3
    /\ CommandOf(Call("balanceOfSender", t, 0, s, d)) = 4
    /\ CommandOf(Call("balanceOf", t, 0, s, d)) = 5
    /\ CommandOf(Call("create", t, v, s, d)) = IF v = 0 THEN 6 ELSE 7
    /\ CommandOf(Call("create2", t, v, s, d)) = IF v = 0 THEN 8 ELSE 9
<1>1. /\ Cmd["call"] = 1 /\ Cmd["balanceOfThis"] = 3 /\ Cmd["balanceOfSender"] = 4
      /\ Cmd["balanceOf"] = 5 /\ Cmd["create"] = 6 /\ Cmd["create2"] = 8
      /\ Cmd["callValue"] = 2 /\ Cmd["createValue"] = 7 /\ Cmd["create2Value"] = 9
  BY DEF Cmd
<1> QED BY <1>1, Fields DEF CommandOf

\* The ways a call of the program comes about.
LEMMA CallKinds ==
  \A c \in AllCalls :
    \/ \E t \in Addrs, v \in Words, d \in Data : c = Call("call", t, v, 0, d)
    \/ c = Call("balanceOfThis", NoAddr, 0, 0, <<>>)
    \/ c = Call("balanceOfSender", NoAddr, 0, 0, <<>>)
    \/ \E t \in Addrs : c = Call("balanceOf", t, 0, 0, <<>>)
    \/ \E v \in Words, d \in Data : c = Call("create", NoAddr, v, 0, d)
    \/ \E v \in Words, s \in Words, d \in Data : c = Call("create2", NoAddr, v, s, d)
BY DEF AllCalls, ContractCalls, Balances, Creates, Creates2

\* The mark and the command share a byte.
LEMMA MarkedByte ==
  ASSUME NEW c \in AllCalls, NEW may \in BOOLEAN
  PROVE  /\ MayFail(CommandByte(c, may)) = may
         /\ CommandIn(CommandByte(c, may)) = CommandOf(c)
<1>1. CommandOf(c) \in 1 .. 9
  <2>1. \A n \in {1, 2, 3, 4, 5, 6, 7, 8, 9} : n \in 1 .. 9
    OBVIOUS
  <2> QED BY <2>1, CallKinds, CommandFacts
<1> DEFINE n == CommandOf(c)
<1> HIDE DEF n
<1>2. n \in 1 .. 9
  BY <1>1 DEF n
<1>3. n % 128 = n /\ (n + 128) % 128 = n /\ ~ (n >= 128) /\ n + 128 >= 128
  BY <1>2
<1>4. CommandByte(c, may) = IF may THEN n + 128 ELSE n
  BY DEF CommandByte, AllowFailure, n
<1> QED BY <1>3, <1>4 DEF MayFail, CommandIn, AllowFailure, n

-----------------------------------------------------------------------------
(* The readers, and the invariant.                                          *)

\* The contract reads its commands; the inputs are cut where they were joined.
LEMMA DispatchedAsEncoded ==
  ASSUME NEW c \in AllCalls
  PROVE  Dispatched(CommandOf(c), InputOf(c)) = c
<1>1. ASSUME NEW t \in Addrs, NEW v \in Words, NEW d \in Data, c = Call("call", t, v, 0, d)
      PROVE  Dispatched(CommandOf(c), InputOf(c)) = c
  <2> DEFINE i == InputOf(c)  tail == t \o d
  <2>1. d \in Seq(Byte)
    BY Parts
  <2>2. tail \in Seq(Byte) /\ SubSeq(tail, 1, AddrLen) = t /\ Rest(tail, AddrLen) = d
    BY <2>1, AddressFirst
  <2>3. CASE v = 0
    <3>1. CommandOf(c) = 1 /\ i = tail
      <4>1. CommandOf(c) = 1
        BY <1>1, <2>3, CommandFacts
      <4>2. i = tail
        BY <1>1, <2>3, InputShapes
      <4> QED BY <4>1, <4>2
    <3> HIDE DEF i, tail
    <3>2. DispatchValue(1, i) = <<0, i>>
      BY Commands DEF DispatchValue
    <3>3. Dispatched(1, i) = Call("call", SubSeq(i, 1, AddrLen), 0, 0, Rest(i, AddrLen))
      BY <3>2, Commands DEF Dispatched
    <3> QED BY <1>1, <2>2, <2>3, <3>1, <3>3 DEF i
  <2>4. CASE v # 0
    <3>1. CommandOf(c) = 2 /\ i = WordBytes(v) \o tail
      <4>1. CommandOf(c) = 2
        BY <1>1, <2>4, CommandFacts
      <4>2. i = WordBytes(v) \o tail
        BY <1>1, <2>4, InputShapes
      <4> QED BY <4>1, <4>2
    <3> HIDE DEF i, tail
    <3>2. Number(SubSeq(i, 1, WordLen)) = v /\ Rest(i, WordLen) = tail
      BY <2>2, <3>1, WordFirst
    <3>3. DispatchValue(2, i) = <<v, tail>>
      BY <3>2, Commands DEF DispatchValue
    <3>4. Dispatched(2, i) = Call("call", SubSeq(tail, 1, AddrLen), v, 0, Rest(tail, AddrLen))
      BY <3>3, Commands DEF Dispatched
    <3> QED BY <1>1, <2>2, <3>1, <3>4 DEF i
  <2> QED BY <2>3, <2>4
<1>2. ASSUME c = Call("balanceOfThis", NoAddr, 0, 0, <<>>)
      PROVE  Dispatched(CommandOf(c), InputOf(c)) = c
  <2>1. CommandOf(c) = 3
    BY <1>2, CommandFacts
  <2> QED BY <1>2, <2>1, Commands DEF Dispatched
<1>3. ASSUME c = Call("balanceOfSender", NoAddr, 0, 0, <<>>)
      PROVE  Dispatched(CommandOf(c), InputOf(c)) = c
  <2>1. CommandOf(c) = 4
    BY <1>3, CommandFacts
  <2> QED BY <1>3, <2>1, Commands DEF Dispatched
<1>4. ASSUME NEW t \in Addrs, c = Call("balanceOf", t, 0, 0, <<>>)
      PROVE  Dispatched(CommandOf(c), InputOf(c)) = c
  <2>1. CommandOf(c) = 5 /\ InputOf(c) = t \o <<>>
    BY <1>4, CommandFacts, InputShapes
  <2>2. SubSeq(t \o <<>>, 1, AddrLen) = t
    BY AddressFirst, ByteLists
  <2>3. \A i : Dispatched(5, i) = Call("balanceOf", SubSeq(i, 1, AddrLen), 0, 0, <<>>)
    BY Commands DEF Dispatched
  <2> QED BY <1>4, <2>1, <2>2, <2>3
<1>5. ASSUME NEW v \in Words, NEW d \in Data, c = Call("create", NoAddr, v, 0, d)
      PROVE  Dispatched(CommandOf(c), InputOf(c)) = c
  <2> DEFINE i == InputOf(c)
  <2>1. d \in Seq(Byte)
    BY Parts
  <2>2. CASE v = 0
    <3>1. CommandOf(c) = 6 /\ i = d
      <4>1. CommandOf(c) = 6
        BY <1>5, <2>2, CommandFacts
      <4>2. i = d
        BY <1>5, <2>2, InputShapes
      <4> QED BY <4>1, <4>2
    <3> HIDE DEF i
    <3>2. DispatchValue(6, i) = <<0, i>>
      BY Commands DEF DispatchValue
    <3>3. Dispatched(6, i) = Call("create", NoAddr, 0, 0, i)
      BY <3>2, Commands DEF Dispatched
    <3> QED BY <1>5, <2>2, <3>1, <3>3 DEF i
  <2>3. CASE v # 0
    <3>1. CommandOf(c) = 7 /\ i = WordBytes(v) \o d
      <4>1. CommandOf(c) = 7
        BY <1>5, <2>3, CommandFacts
      <4>2. i = WordBytes(v) \o d
        BY <1>5, <2>3, InputShapes
      <4> QED BY <4>1, <4>2
    <3> HIDE DEF i
    <3>2. Number(SubSeq(i, 1, WordLen)) = v /\ Rest(i, WordLen) = d
      BY <2>1, <3>1, WordFirst
    <3>3. DispatchValue(7, i) = <<v, d>>
      BY <3>2, Commands DEF DispatchValue
    <3>4. Dispatched(7, i) = Call("create", NoAddr, v, 0, d)
      BY <3>3, Commands DEF Dispatched
    <3> QED BY <1>5, <3>1, <3>4 DEF i
  <2> QED BY <2>2, <2>3
<1>6. ASSUME NEW v \in Words, NEW s \in Words, NEW d \in Data, c = Call("create2", NoAddr, v, s, d)
      PROVE  Dispatched(CommandOf(c), InputOf(c)) = c
  <2> DEFINE i == InputOf(c)  tail == WordBytes(s) \o d
  <2>1. d \in Seq(Byte)
    BY Parts
  <2>2. tail \in Seq(Byte) /\ Number(SubSeq(tail, 1, WordLen)) = s /\ Rest(tail, WordLen) = d
    BY <2>1, WordFirst
  <2>3. CASE v = 0
    <3>1. CommandOf(c) = 8 /\ i = tail
      <4>1. CommandOf(c) = 8
        BY <1>6, <2>3, CommandFacts
      <4>2. i = tail
        BY <1>6, <2>3, InputShapes
      <4> QED BY <4>1, <4>2
    <3> HIDE DEF i, tail
    <3>2. DispatchValue(8, i) = <<0, i>>
      BY Commands DEF DispatchValue
    <3>3. Dispatched(8, i) = Call("create2", NoAddr, 0, Number(SubSeq(i, 1, WordLen)), Rest(i, WordLen))
      BY <3>2, Commands DEF Dispatched
    <3> QED BY <1>6, <2>2, <2>3, <3>1, <3>3 DEF i
  <2>4. CASE v # 0
    <3>1. CommandOf(c) = 9 /\ i = WordBytes(v) \o tail
      <4>1. CommandOf(c) = 9
        BY <1>6, <2>4, CommandFacts
      <4>2. i = WordBytes(v) \o tail
        BY <1>6, <2>4, InputShapes
      <4> QED BY <4>1, <4>2
    <3> HIDE DEF i, tail
    <3>2. Number(SubSeq(i, 1, WordLen)) = v /\ Rest(i, WordLen) = tail
      BY <2>2, <3>1, WordFirst
    <3>3. DispatchValue(9, i) = <<v, tail>>
      BY <3>2, Commands DEF DispatchValue
    <3>4. Dispatched(9, i) = Call("create2", NoAddr, v, Number(SubSeq(tail, 1, WordLen)), Rest(tail, WordLen))
      BY <3>3, Commands DEF Dispatched
    <3> QED BY <1>6, <2>2, <3>1, <3>4 DEF i
  <2> QED BY <2>3, <2>4
<1> QED BY <1>1, <1>2, <1>3, <1>4, <1>5, <1>6, CallKinds

\* Lengths.
LEMMA EmptyRest ==
  /\ \A b \in Seq(Byte) : Len(b) \in Nat /\ (Len(b) = 0 => b = <<>>)
  /\ WordLen \in Nat \ {0} /\ AddrLen \in Nat \ {0} /\ AddrLen < WordLen
BY Bases

\* The decoder knows its own inputs or says that their length is wrong.
LEMMA DecodedAsEncoded ==
  ASSUME NEW c \in AllCalls
  PROVE  Decoded(CommandOf(c), InputOf(c)) \in {c, InvalidLength}
<1>1. ASSUME NEW t \in Addrs, NEW v \in Words, NEW d \in Data, c = Call("call", t, v, 0, d)
      PROVE  Decoded(CommandOf(c), InputOf(c)) \in {c, InvalidLength}
  <2> DEFINE i == InputOf(c)  tail == t \o d
  <2>1. d \in Seq(Byte)
    BY Parts
  <2>2. tail \in Seq(Byte) /\ SubSeq(tail, 1, AddrLen) = t /\ Rest(tail, AddrLen) = d
    BY <2>1, AddressFirst
  <2>3. ReadCall(v, tail) \in {c, InvalidLength}
    <3> HIDE DEF tail
    <3> QED BY <1>1, <2>2 DEF ReadCall
  <2>4. CASE v = 0
    <3>1. CommandOf(c) = 1 /\ i = tail
      <4>1. CommandOf(c) = 1
        BY <1>1, <2>4, CommandFacts
      <4>2. i = tail
        BY <1>1, <2>4, InputShapes
      <4> QED BY <4>1, <4>2
    <3> HIDE DEF i, tail
    <3>2. Decoded(1, i) = ReadCall(0, i)
      BY Commands DEF Decoded
    <3> QED BY <2>3, <2>4, <3>1, <3>2 DEF i
  <2>5. CASE v # 0
    <3>1. CommandOf(c) = 2 /\ i = WordBytes(v) \o tail
      <4>1. CommandOf(c) = 2
        BY <1>1, <2>5, CommandFacts
      <4>2. i = WordBytes(v) \o tail
        BY <1>1, <2>5, InputShapes
      <4> QED BY <4>1, <4>2
    <3> HIDE DEF i, tail
    <3>2. Number(SubSeq(i, 1, WordLen)) = v /\ Rest(i, WordLen) = tail
      BY <2>2, <3>1, WordFirst
    <3>3. Decoded(2, i) = ReadCallValue(i)
      BY Commands DEF Decoded
    <3>4. ReadCallValue(i) \in {ReadCall(v, tail), InvalidLength}
      BY <3>2 DEF ReadCallValue
    <3> QED BY <2>3, <3>1, <3>3, <3>4 DEF i
  <2> QED BY <2>4, <2>5
<1>2. ASSUME c = Call("balanceOfThis", NoAddr, 0, 0, <<>>)
      PROVE  Decoded(CommandOf(c), InputOf(c)) \in {c, InvalidLength}
  <2>1. CommandOf(c) = 3
    BY <1>2, CommandFacts
  <2>2. \A i : Decoded(3, i) = Call("balanceOfThis", NoAddr, 0, 0, <<>>)
    BY Commands DEF Decoded
  <2> QED BY <1>2, <2>1, <2>2
<1>3. ASSUME c = Call("balanceOfSender", NoAddr, 0, 0, <<>>)
      PROVE  Decoded(CommandOf(c), InputOf(c)) \in {c, InvalidLength}
  <2>1. CommandOf(c) = 4
    BY <1>3, CommandFacts
  <2>2. \A i : Decoded(4, i) = Call("balanceOfSender", NoAddr, 0, 0, <<>>)
    BY Commands DEF Decoded
  <2> QED BY <1>3, <2>1, <2>2
<1>4. ASSUME NEW t \in Addrs, c = Call("balanceOf", t, 0, 0, <<>>)
      PROVE  Decoded(CommandOf(c), InputOf(c)) \in {c, InvalidLength}
  <2>1. CommandOf(c) = 5 /\ InputOf(c) = t \o <<>>
    BY <1>4, CommandFacts, InputShapes
  <2>2. SubSeq(t \o <<>>, 1, AddrLen) = t
    BY AddressFirst, ByteLists
  <2>3. \A i : Decoded(5, i) = ReadBalanceOf(i)
    BY Commands DEF Decoded
  <2>4. ReadBalanceOf(t \o <<>>) \in {c, InvalidLength}
    BY <1>4, <2>2 DEF ReadBalanceOf
  <2> QED BY <2>1, <2>3, <2>4
<1>5. ASSUME NEW v \in Words, NEW d \in Data, c = Call("create", NoAddr, v, 0, d)
      PROVE  Decoded(CommandOf(c), InputOf(c)) \in {c, InvalidLength}
  <2> DEFINE i == InputOf(c)
  <2>1. d \in Seq(Byte)
    BY Parts
  <2>2. CASE v = 0
    <3>1. CommandOf(c) = 6 /\ i = d
      <4>1. CommandOf(c) = 6
        BY <1>5, <2>2, CommandFacts
      <4>2. i = d
        BY <1>5, <2>2, InputShapes
      <4> QED BY <4>1, <4>2
    <3> HIDE DEF i
    <3>2. Decoded(6, i) = Call("create", NoAddr, 0, 0, i)
      BY Commands DEF Decoded
    <3> QED BY <1>5, <2>2, <3>1, <3>2 DEF i
  <2>3. CASE v # 0
    <3>1. CommandOf(c) = 7 /\ i = WordBytes(v) \o d
      <4>1. CommandOf(c) = 7
        BY <1>5, <2>3, CommandFacts
      <4>2. i = WordBytes(v) \o d
        BY <1>5, <2>3, InputShapes
      <4> QED BY <4>1, <4>2
    <3> HIDE DEF i
    <3>2. Number(SubSeq(i, 1, WordLen)) = v /\ Rest(i, WordLen) = d
      BY <2>1, <3>1, WordFirst
    <3>3. Decoded(7, i) = ReadCreateValue(i)
      BY Commands DEF Decoded
    <3>4. ReadCreateValue(i) \in {c, InvalidLength}
      BY <1>5, <3>2 DEF ReadCreateValue
    <3> QED BY <3>1, <3>3, <3>4 DEF i
  <2> QED BY <2>2, <2>3
<1>6. ASSUME NEW v \in Words, NEW s \in Words, NEW d \in Data, c = Call("create2", NoAddr, v, s, d)
      PROVE  Decoded(CommandOf(c), InputOf(c)) \in {c, InvalidLength}
  <2> DEFINE i == InputOf(c)  tail == WordBytes(s) \o d
  <2>1. d \in Seq(Byte)
    BY Parts
  <2>2. /\ tail \in Seq(Byte) /\ Number(SubSeq(tail, 1, WordLen)) = s /\ Rest(tail, WordLen) = d
        /\ Len(tail) = WordLen + Len(d) /\ Len(d) \in Nat
    BY <2>1, WordFirst
  <2>3. \A cmd, x : cmd \in {8, 9} => Decoded(cmd, x) = ReadCreate2(x)
    BY Commands DEF Decoded
  <2>4. CASE v = 0
    <3>1. CommandOf(c) = 8 /\ i = tail
      <4>1. CommandOf(c) = 8
        BY <1>6, <2>4, CommandFacts
      <4>2. i = tail
        BY <1>6, <2>4, InputShapes
      <4> QED BY <4>1, <4>2
    <3> HIDE DEF i, tail
    <3>2. ReadCreate2(tail) \in {c, InvalidLength}
      BY <1>6, <2>2, <2>4 DEF ReadCreate2
    <3> QED BY <2>3, <3>1, <3>2 DEF i
  \* With a value there are two words: never the length the reader wants.
  <2>5. CASE v # 0
    <3>1. CommandOf(c) = 9 /\ i = WordBytes(v) \o tail
      <4>1. CommandOf(c) = 9
        BY <1>6, <2>5, CommandFacts
      <4>2. i = WordBytes(v) \o tail
        BY <1>6, <2>5, InputShapes
      <4> QED BY <4>1, <4>2
    <3> HIDE DEF i, tail
    <3>2. Len(i) = WordLen + (WordLen + Len(d))
      BY <2>2, <3>1, WordFirst
    <3>3. ~ CanRead(i, WordLen)
      BY <2>2, <3>2, EmptyRest DEF CanRead
    <3>4. ReadCreate2(i) = InvalidLength
      BY <3>3 DEF ReadCreate2
    <3> QED BY <2>3, <3>1, <3>4 DEF i
  <2> QED BY <2>4, <2>5
<1> QED BY <1>1, <1>2, <1>3, <1>4, <1>5, <1>6, CallKinds

\* What is on the wire is the call, and who read it did not misread it.
CodecInv ==
  /\ call \in [what : AllCalls, may : BOOLEAN]
  /\ wire # NoWire =>
       wire = [byte |-> CommandByte(call.what, call.may), input |-> InputOf(call.what)]
  /\ ContractAgrees /\ NeverMisread

\* What a reader finds on the wire.
LEMMA WireFacts ==
  ASSUME CodecInv, wire # NoWire
  PROVE  /\ call.what \in AllCalls /\ call.may \in BOOLEAN
         /\ MayFail(wire.byte) = call.may /\ CommandIn(wire.byte) = CommandOf(call.what)
         /\ wire.input = InputOf(call.what)
<1>1. /\ call.what \in AllCalls /\ call.may \in BOOLEAN
      /\ wire.byte = CommandByte(call.what, call.may) /\ wire.input = InputOf(call.what)
  BY DEF CodecInv
<1> QED BY <1>1, MarkedByte

\* At first nothing is on the wire.
LEMMA CodecInit == Init => CodecInv
<1> SUFFICES ASSUME Init PROVE CodecInv
  OBVIOUS
<1>1. NoReading.by = "nobody"
  BY DEF NoReading
<1>2. reading.by = "nobody"
  BY <1>1 DEF Init
<1>3. ContractAgrees /\ NeverMisread
  BY <1>2 DEF ContractAgrees, NeverMisread, Readers
<1> QED BY <1>3 DEF Init, CodecInv

\* Every step keeps the invariant.
LEMMA CodecStep == CodecInv /\ [Next]_vars => CodecInv'
<1> SUFFICES ASSUME CodecInv, [Next]_vars PROVE CodecInv'
  OBVIOUS
<1>1. CASE Encode
  BY <1>1 DEF Encode, CodecInv, ContractAgrees, NeverMisread
<1>2. CASE Dispatch
  <2>1. wire # NoWire /\ UNCHANGED <<call, wire>>
    BY <1>2 DEF Dispatch
  <2>2. reading' = [by |-> "contract", may |-> MayFail(wire.byte),
                    got |-> Dispatched(CommandIn(wire.byte), wire.input)]
    BY <1>2 DEF Dispatch
  <2>3. reading'.by = "contract" /\ reading'.may = call.may /\ reading'.got = call.what
    BY <2>1, <2>2, WireFacts, DispatchedAsEncoded
  <2> QED BY <2>1, <2>3 DEF CodecInv, ContractAgrees, NeverMisread, Readers
<1>3. ASSUME NEW reader \in Readers, Decode(reader) PROVE CodecInv'
  <2>1. wire # NoWire /\ UNCHANGED <<call, wire>>
    BY <1>3 DEF Decode
  <2> DEFINE got == Decoded(CommandIn(wire.byte), wire.input)
  <2>2. got \in {call.what, InvalidLength}
    BY <2>1, WireFacts, DecodedAsEncoded
  <2>3. /\ reading'.by = reader /\ reading'.may = MarkRead(reader, MayFail(wire.byte))
        /\ reading'.got \in {got, MustNotFail}
    <3> HIDE DEF got
    <3>1. reading' = [by |-> reader, may |-> MarkRead(reader, MayFail(wire.byte)),
                      got |-> IF got # InvalidLength /\ Refused(reader, MayFail(wire.byte))
                                THEN MustNotFail ELSE got]
      BY <1>3 DEF Decode, got
    <3> QED BY <3>1
  <2>4. reading'.by = "list" => reading'.may = call.may
    BY <2>1, <2>3, WireFacts DEF MarkRead
  <2> HIDE DEF got
  <2>5. reading'.got \in {call.what, InvalidLength, MustNotFail} /\ reading'.by # "contract"
    BY <2>2, <2>3 DEF Readers
  <2>6. ContractAgrees' /\ NeverMisread'
    BY <2>1, <2>4, <2>5 DEF ContractAgrees, NeverMisread, InvalidLength, MustNotFail, Error
  <2> QED BY <2>1, <2>6 DEF CodecInv
<1>4. CASE UNCHANGED vars
  BY <1>4 DEF vars, CodecInv, ContractAgrees, NeverMisread
<1> QED BY <1>1, <1>2, <1>3, <1>4 DEF Next

\* For words, addresses and data of any length over any bytes, the contract
\* executes what was encoded (calls.rs; MultiCall.sol, exec).
THEOREM ContractReadsRight == Spec => []ContractAgrees
<1>1. CodecInv => ContractAgrees
  BY DEF CodecInv
<1> QED BY <1>1, CodecInit, CodecStep, PTL DEF Spec

\* The Rust decoder refuses or returns the call, for every width, and in a list
\* with the mark it was encoded with (calls.rs, the decode functions).
THEOREM DecoderNeverMisreads == Spec => []NeverMisread
<1>1. CodecInv => NeverMisread
  BY DEF CodecInv
<1> QED BY <1>1, CodecInit, CodecStep, PTL DEF Spec

=============================================================================
