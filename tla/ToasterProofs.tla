--------------------------- MODULE ToasterProofs ---------------------------
(***************************************************************************)
(* Proofs about Toaster, for paths of any length, any reserves and         *)
(* amounts, any fee and words of any width.  First the arithmetic of one   *)
(* pair, then the amounts along a path, then the swaps.  That no balance   *)
(* is negative is inductive; the other properties follow from it at every  *)
(* state, because they are about the arithmetic.                           *)
(***************************************************************************)
EXTENDS Toaster, Induction

-----------------------------------------------------------------------------
(* One pair.                                                               *)

\* Multiplication keeps the order, strictly by a positive number.
LEMMA Products ==
  ASSUME NEW a \in Nat, NEW b \in Nat, NEW c \in Nat
  PROVE  /\ a * b \in Nat
         /\ a <= b => a * c <= b * c
         /\ a < b /\ 0 < c => a * c < b * c
         /\ a * c < b * c => a < b
BY SMTT(60)

\* What a quotient is.
LEMMA Quotient ==
  ASSUME NEW n \in Nat, NEW d \in Nat, 0 < d
  PROVE  /\ n \div d \in Nat
         /\ (n \div d) * d <= n
         /\ n < ((n \div d) + 1) * d
BY SMTT(60)

\* The root of a natural number, rounded down.
LEMMA Root ==
  ASSUME NEW n \in Nat
  PROVE  Sqrt(n) \in Nat /\ Sqrt(n) * Sqrt(n) <= n
<1> DEFINE S == {r \in 0 .. n : r * r <= n}
<1>1. 0 \in S
  OBVIOUS
<1>2. S \subseteq Nat /\ \A x \in S : x <= n
  OBVIOUS
<1>3. PICK r \in S : \A x \in S : x <= r
  <2> HIDE DEF S
  <2> QED BY <1>1, <1>2, Greatest
<1>4. r \in Nat /\ r <= n /\ r * r <= n
  BY <1>3
<1>5. n < (r + 1) * (r + 1)
  <2> SUFFICES ASSUME (r + 1) * (r + 1) <= n PROVE FALSE
    BY <1>4
  <2>1. r + 1 <= (r + 1) * (r + 1)
    BY <1>4
  <2>2. r + 1 \in S
    BY <2>1, <1>4
  <2> QED BY <2>2, <1>3, <1>4
<1>6. \E x \in 0 .. n : x * x <= n /\ n < (x + 1) * (x + 1)
  BY <1>4, <1>5
<1>7. Sqrt(n) \in 0 .. n /\ Sqrt(n) * Sqrt(n) <= n
  BY <1>6 DEF Sqrt
<1> QED BY <1>7

\* getAmountOut keeps the pair whole and leaves nothing on the table.
LEMMA AmountOut ==
  ASSUME NEW a \in Int, NEW rIn \in Nat, NEW rOut \in Nat,
         GetAmountOut(a, rIn, rOut) # Reverted
  PROVE  LET out == GetAmountOut(a, rIn, rOut)
             d == rIn * BIP + a * FEE
         IN  /\ a \in Nat /\ 0 < a /\ 0 < rIn /\ 0 < rOut
             /\ d \in Nat /\ 0 < d
             /\ out \in Nat /\ out < rOut
             /\ out * d <= rOut * a * FEE
             /\ rOut * a * FEE < (out + 1) * d
<1> DEFINE out == GetAmountOut(a, rIn, rOut)
           d == rIn * BIP + a * FEE
           n == rOut * a * FEE
<1>1. a > 0 /\ rIn > 0 /\ rOut > 0 /\ out = n \div d
  BY DEF GetAmountOut
<1>2. a \in Nat /\ FEE \in Nat /\ BIP \in Nat /\ 0 < FEE /\ 0 < BIP
  BY <1>1, FeeAssumption
<1>3. n \in Nat /\ a * FEE \in Nat /\ 0 < a * FEE /\ rIn * BIP \in Nat /\ 0 < rIn * BIP
  BY <1>1, <1>2, Products
<1>4. d \in Nat /\ 0 < d
  BY <1>3
<1>5. out \in Nat /\ out * d <= n /\ n < (out + 1) * d
  <2> HIDE DEF n, d, out
  <2> QED BY <1>1, <1>3, <1>4, Quotient
<1>6. out < rOut
  <2>1. n = rOut * (a * FEE)
    BY <1>2
  <2>2. rOut * (a * FEE) < rOut * d
    <3> DEFINE f == a * FEE
               g == rIn * BIP
    <3>1. f \in Nat /\ g \in Nat /\ 0 < g /\ d = g + f
      BY <1>3
    <3> HIDE DEF f, g, d
    <3>2. rOut * f < rOut * d
      BY <3>1, <1>1
    <3> QED BY <3>2 DEF f
  <2> HIDE DEF out, d, n
  <2>3. out * d < rOut * d
    BY <2>1, <2>2, <1>5, <1>3, <1>4
  <2> QED BY <2>3, <1>4, <1>5, Products
<1> QED BY <1>1, <1>2, <1>4, <1>5, <1>6

\* The pair accepts exactly what getAmountOut computes, and not one more.
LEMMA PairAccepts ==
  ASSUME NEW a \in Int, NEW rIn \in Nat, NEW rOut \in Nat,
         GetAmountOut(a, rIn, rOut) # Reverted
  PROVE  LET out == GetAmountOut(a, rIn, rOut) IN
         /\ out > 0 => PairTakes(rIn, rOut, a, out)
         /\ ~PairTakes(rIn, rOut, a, out + 1)
<1> DEFINE out == GetAmountOut(a, rIn, rOut)
           d == rIn * BIP + a * FEE
           g == rIn * BIP
           f == a * FEE
<1>1. /\ a \in Nat /\ out \in Nat /\ out < rOut /\ d \in Nat
      /\ out * d <= rOut * a * FEE /\ rOut * a * FEE < (out + 1) * d
  BY AmountOut
<1>2. FEE \in Nat /\ BIP \in Nat
  BY FeeAssumption
<1>3. rOut * a * FEE = rOut * f /\ g \in Nat /\ f \in Nat /\ d = g + f
  BY <1>1, <1>2, Products
<1>4. g * rOut = d * rOut - rOut * f
  <2> HIDE DEF d, f, g
  <2> QED BY <1>3, SMTT(60)
<1>5. d * (rOut - out) = d * rOut - out * d
  <2> HIDE DEF out, d
  <2> QED BY <1>1, SMTT(60)
<1>6. d * (rOut - (out + 1)) = d * rOut - (out + 1) * d
  <2> HIDE DEF out, d
  <2> QED BY <1>1, SMTT(60)
<1>7. d * (rOut - out) >= g * rOut
  <2> DEFINE x == d * (rOut - out)  y == d * rOut  z == out * d  w == rOut * f
  <2>1. x = y - z /\ z <= w /\ g * rOut = y - w /\ y \in Int /\ z \in Int /\ w \in Int
    <3> HIDE DEF f, g, d, out
    <3> QED BY <1>1, <1>3, <1>4, <1>5
  <2> HIDE DEF x, y, z, w
  <2>2. x >= y - w
    BY <2>1
  <2> QED BY <2>1, <2>2 DEF x
<1>8. ~(d * (rOut - (out + 1)) >= g * rOut)
  <2> DEFINE x == d * (rOut - (out + 1))  y == d * rOut  z == (out + 1) * d  w == rOut * f
  <2>1. x = y - z /\ w < z /\ g * rOut = y - w /\ y \in Int /\ z \in Int /\ w \in Int
    <3> HIDE DEF f, g, d, out
    <3> QED BY <1>1, <1>3, <1>4, <1>6
  <2> HIDE DEF x, y, z, w
  <2>2. ~(x >= y - w)
    BY <2>1
  <2> QED BY <2>1, <2>2 DEF x
<1>9. out > 0 => PairTakes(rIn, rOut, a, out)
  BY <1>1, <1>7 DEF PairTakes
<1>10. ~PairTakes(rIn, rOut, a, out + 1)
  BY <1>8 DEF PairTakes
<1> QED BY <1>9, <1>10

\* getAmountIn asks for a positive amount, from which on the pair gives what
\* is wanted.
LEMMA AmountIn ==
  ASSUME NEW b \in Int, NEW rIn \in Nat, NEW rOut \in Nat,
         GetAmountIn(b, rIn, rOut) # Reverted
  PROVE  /\ b \in Nat /\ GetAmountIn(b, rIn, rOut) \in Nat
         /\ \A x \in Nat :
              x >= GetAmountIn(b, rIn, rOut) /\ GetAmountOut(x, rIn, rOut) # Reverted =>
                GetAmountOut(x, rIn, rOut) >= b
<1> DEFINE in == GetAmountIn(b, rIn, rOut)
           n == rIn * b * BIP
           d == (rOut - b) * FEE
<1>1. b > 0 /\ b < rOut /\ rIn > 0 /\ in = (n \div d) + 1
  BY DEF GetAmountIn
<1>2. FEE \in Nat /\ BIP \in Nat /\ 0 < FEE /\ b \in Nat /\ rOut - b \in Nat /\ 0 < rOut - b
  BY <1>1, FeeAssumption
<1>3. n \in Nat /\ d \in Nat /\ 0 < d
  BY <1>2, Products
<1>4. in \in Nat /\ n < in * d
  <2> HIDE DEF n, d, in
  <2>1. n \div d \in Nat /\ n < ((n \div d) + 1) * d
    BY <1>3, Quotient
  <2> QED BY <2>1, <1>1
<1>5. ASSUME NEW x \in Nat, x >= in, GetAmountOut(x, rIn, rOut) # Reverted
      PROVE  GetAmountOut(x, rIn, rOut) >= b
  <2> DEFINE out == GetAmountOut(x, rIn, rOut)
             e == rIn * BIP + x * FEE
             f == x * FEE
             g == rIn * BIP
  <2>1. out \in Nat /\ e \in Nat /\ 0 < e /\ rOut * x * FEE < (out + 1) * e
    BY <1>5, AmountOut
  <2>2. n < x * d
    <3>1. in * d <= x * d
      <4> HIDE DEF in, d
      <4> QED BY <1>3, <1>4, <1>5, Products
    <3> HIDE DEF in, d, n
    <3> QED BY <3>1, <1>3, <1>4, <1>5, Products
  <2>3. f \in Nat /\ g \in Nat /\ e = g + f
    BY <1>2, Products
  <2>4. n = b * g
    <3>1. n = (rIn * b) * BIP /\ b * g = b * (rIn * BIP)
      OBVIOUS
    <3>2. (rIn * b) * BIP = b * (rIn * BIP)
      BY <1>2, SMTT(60)
    <3> QED BY <3>1, <3>2
  <2>5. x * d = rOut * f - b * f
    <3>1. x * ((rOut - b) * FEE) = rOut * (x * FEE) - b * (x * FEE)
      BY <1>2, SMTT(60)
    <3> QED BY <3>1
  <2>6. rOut * x * FEE = rOut * f
    BY <1>2
  <2>7. b * e = b * g + b * f
    <3> HIDE DEF e, f, g
    <3> QED BY <2>3, <1>2, SMTT(60)
  <2>8. b * e < rOut * f
    <3> DEFINE p == b * g  q == b * f  r == rOut * f
    <3>1. p \in Int /\ q \in Int /\ r \in Int /\ p < r - q /\ b * e = p + q
      <4> HIDE DEF n, d, e, f, g
      <4> QED BY <2>2, <2>3, <2>4, <2>5, <2>7, <1>2
    <3> HIDE DEF p, q, r, e
    <3>2. b * e < r
      BY <3>1
    <3> QED BY <3>2 DEF r
  <2>9. b * e < (out + 1) * e
    <3> DEFINE r == rOut * f
    <3>1. b * e < r /\ r < (out + 1) * e /\ r \in Int
      <4>1. r \in Int
        <5> HIDE DEF f
        <5> QED BY <2>3
      <4> HIDE DEF out, e, f
      <4> QED BY <2>1, <2>6, <2>8, <4>1
    <3> HIDE DEF r, e, out
    <3> QED BY <3>1, <2>1, <1>2
  <2>10. b < out + 1
    <3> HIDE DEF out, e
    <3> QED BY <2>1, <2>9, <1>2, Products
  <2> QED BY <2>1, <2>10, <1>2
<1> QED BY <1>2, <1>4, <1>5

\* getMaxFrontRunAmountIn rounds its quotient, its root and its half down, all
\* to the safe side.
LEMMA MaxAmountIn ==
  ASSUME NEW a \in Nat, NEW b \in Nat, NEW rIn \in Nat, NEW rOut \in Nat,
         GetMaxAmountIn(a, b, rIn, rOut) # Reverted
  PROVE  LET x == GetMaxAmountIn(a, b, rIn, rOut)
             in == rIn * BIP + FEE * x
         IN  /\ x \in Nat
             /\ rOut * rIn * BIP * FEE * a >= b * in * (in + FEE * a)
<1> DEFINE x == GetMaxAmountIn(a, b, rIn, rOut)
           in == rIn * BIP + FEE * x
           h == FEE * a
           m == 4 * BIP * rIn * rOut
           k == m \div b
           n == FEE * a * (k + FEE * a)
           s == Sqrt(n)
           g == rIn * BIP
           d == s - 2 * BIP * rIn - FEE * a
<1>1. b > 0 /\ d >= 0 /\ x = d \div (2 * FEE)
  <2>1. b # 0 /\ Word(4 * BIP * rIn * rOut)
    BY DEF GetMaxAmountIn
  <2>2. x = IF Word(n) /\ d >= 0 THEN d \div (2 * FEE) ELSE Reverted
    BY <2>1 DEF GetMaxAmountIn
  <2> HIDE DEF d, n
  <2> QED BY <2>1, <2>2
<1>2. FEE \in Nat /\ BIP \in Nat /\ 0 < FEE
  BY FeeAssumption
<1>3. m \in Nat /\ g \in Nat /\ h \in Nat /\ n = h * (k + h)
  BY <1>2, Products
<1>4. k \in Nat /\ k * b <= m
  <2> HIDE DEF m
  <2> QED BY <1>1, <1>3, Quotient
<1>5. n \in Nat
  <2> HIDE DEF k, h, n
  <2> QED BY <1>3, <1>4, Products
<1>6. s \in Nat /\ s * s <= n
  <2> HIDE DEF n
  <2> QED BY <1>5, Root
<1>7. d \in Nat /\ d = s - 2 * g - h
  <2>1. d = s - 2 * BIP * rIn - FEE * a /\ 2 * BIP * rIn = 2 * (rIn * BIP)
    <3> HIDE DEF s
    <3> QED BY <1>2, <1>6
  <2> HIDE DEF s
  <2> QED BY <1>1, <1>2, <1>6, <2>1
<1>8. x \in Nat /\ x * (2 * FEE) <= d
  <2>1. 2 * FEE \in Nat /\ 0 < 2 * FEE
    BY <1>2
  <2> HIDE DEF d, x
  <2> QED BY <1>1, <1>7, <2>1, Quotient
<1>9. in \in Nat /\ 2 * in + h <= s
  <2>1. FEE * x \in Nat /\ x * (2 * FEE) = 2 * (FEE * x)
    <3> HIDE DEF x
    <3> QED BY <1>2, <1>8
  <2>2. in = g + FEE * x
    OBVIOUS
  <2> HIDE DEF x, d, s, in, g, h
  <2> QED BY <1>3, <1>6, <1>7, <1>8, <2>1, <2>2
<1>10. 4 * (in * (in + h)) <= h * k
  <2>1. (2 * in + h) * (2 * in + h) <= s * s
    <3> HIDE DEF in, h, s
    <3>1. 2 * in + h \in Nat
      BY <1>3, <1>9
    <3> DEFINE y == 2 * in + h
    <3>2. y * y <= s * y /\ y * s <= s * s
      <4> HIDE DEF y
      <4> QED BY <3>1, <1>6, <1>9, Products DEF y
    <3>3. s * y = y * s /\ y * y \in Int /\ s * s \in Int /\ y * s \in Int
      <4> HIDE DEF y
      <4> QED BY <3>1, <1>6 DEF y
    <3>4. y * y <= s * s
      <4> DEFINE p == y * y  q == s * y  r == s * s
      <4>1. p <= q /\ q <= r /\ p \in Int /\ q \in Int /\ r \in Int
        BY <3>2, <3>3
      <4> HIDE DEF p, q, r
      <4>2. p <= r
        BY <4>1
      <4> QED BY <4>2 DEF p, r
    <3> QED BY <3>4
  <2>2. (2 * in + h) * (2 * in + h) = 4 * (in * (in + h)) + h * h
    <3> HIDE DEF in, h
    <3> QED BY <1>3, <1>9, SMTT(60)
  <2>3. h * (k + h) = h * k + h * h
    <3> HIDE DEF h, k
    <3> QED BY <1>3, <1>4, SMTT(60)
  <2> DEFINE p == in * (in + h)  q == h * h  r == h * k  t == s * s
  <2>4. p \in Int /\ q \in Int /\ r \in Int /\ t \in Int
    <3> HIDE DEF in, h, k, s
    <3> QED BY <1>3, <1>4, <1>6, <1>9
  <2>5. 4 * p + q <= t /\ t <= r + q
    <3> HIDE DEF in, h, k, s, n
    <3> QED BY <1>3, <1>6, <2>1, <2>2, <2>3
  <2> HIDE DEF p, q, r, t
  <2>6. 4 * p <= r
    BY <2>4, <2>5
  <2> QED BY <2>6 DEF p, r
<1>11. rOut * rIn * BIP * FEE * a >= b * in * (in + FEE * a)
  <2> DEFINE p == in * (in + h)  u == rOut * g
  <2>1. p \in Int /\ u \in Nat
    <3> HIDE DEF in, h, g
    <3> QED BY <1>3, <1>9, Products
  <2>2. m = 4 * u
    BY <1>2, SMTT(60)
  <2>3. b * (4 * p) <= b * (h * k)
    <3> HIDE DEF p, h, k
    <3>1. 4 * p <= h * k
      BY <1>10 DEF p
    <3>2. h * k \in Int
      BY <1>3, <1>4
    <3> DEFINE v == 4 * p  w == h * k
    <3>3. v <= w /\ v \in Int /\ w \in Int
      BY <2>1, <3>1, <3>2
    <3> HIDE DEF v, w
    <3>4. b * v <= b * w
      BY <3>3, SMTT(60)
    <3> QED BY <3>4 DEF v, w
  <2>4. b * (h * k) = h * (k * b) /\ h * (k * b) <= h * m
    <3> HIDE DEF h, k, m
    <3>1. b * (h * k) = h * (k * b)
      BY <1>3, <1>4, SMTT(60)
    <3> DEFINE v == k * b
    <3>2. v \in Nat /\ v <= m
      BY <1>4, Products
    <3> HIDE DEF v
    <3>3. v * h <= m * h
      BY <1>3, <3>2, Products
    <3>4. h * v <= h * m
      BY <1>3, <3>2, <3>3
    <3> QED BY <3>1, <3>4 DEF v
  <2>5. b * (4 * p) = 4 * (b * p) /\ h * m = 4 * (h * u)
    <3> HIDE DEF p, h, u, m
    <3> QED BY <2>1, <2>2, <1>3, SMTT(60)
  <2>6. b * p <= h * u
    <3> DEFINE v == b * p  w == h * u
               q == b * (h * k)
    <3>1. v \in Int /\ w \in Int /\ q \in Int
      <4> HIDE DEF p, h, u, k
      <4> QED BY <1>3, <1>4, <2>1
    <3>2. 4 * v <= q /\ q <= 4 * w
      <4> HIDE DEF p, h, u, k, m
      <4> QED BY <2>3, <2>4, <2>5
    <3> HIDE DEF v, w, q
    <3>3. v <= w
      BY <3>1, <3>2
    <3> QED BY <3>3 DEF v, w
  <2>7. b * in * (in + FEE * a) = b * p
    <3>1. b * in * (in + h) = b * (in * (in + h))
      <4> HIDE DEF in, h
      <4> QED BY <1>3, <1>9, SMTT(60)
    <3> QED BY <3>1
  <2>8. rOut * rIn * BIP * FEE * a = h * u
    BY <1>2, SMTT(60)
  <2> HIDE DEF in, p, u, h
  <2> QED BY <2>6, <2>7, <2>8
<1> QED BY <1>8, <1>11

-----------------------------------------------------------------------------
(* Along a path.                                                           *)

\* The pairs along a path are there.
Linked(p) ==
  /\ p \in Seq(Nat)
  /\ \A i \in 1 .. Len(p) - 1 : pairs[PairOf(p[i], p[i + 1])] \in Nat \X Nat

\* An amount, or a revert.
Amount == Nat \cup {Reverted}

\* What every token of a path receives, and what it must receive.
Forward(a, p, out) ==
  /\ out \in [1 .. Len(p) -> Amount]
  /\ out[1] = a
  /\ \A i \in 1 .. Len(p) - 1 :
       out[i + 1] = IF out[i] = Reverted THEN Reverted
                    ELSE GetAmountOut(out[i], ReservesOf(p[i], p[i + 1])[1], ReservesOf(p[i], p[i + 1])[2])

Backward(b, p, in) ==
  /\ in \in [1 .. Len(p) -> Amount]
  /\ in[Len(p)] = b
  /\ \A i \in 1 .. Len(p) - 1 :
       in[i] = IF in[i + 1] = Reverted THEN Reverted
               ELSE GetAmountIn(in[i + 1], ReservesOf(p[i], p[i + 1])[1], ReservesOf(p[i], p[i + 1])[2])

\* Reserves are naturals, and so are amounts that did not revert.
LEMMA ReservesAlong ==
  ASSUME NEW p, Linked(p), NEW i \in 1 .. Len(p) - 1
  PROVE  ReservesOf(p[i], p[i + 1])[1] \in Nat /\ ReservesOf(p[i], p[i + 1])[2] \in Nat
BY DEF Linked, ReservesOf

LEMMA AmountOutType ==
  ASSUME NEW a \in Int, NEW rIn \in Nat, NEW rOut \in Nat
  PROVE  GetAmountOut(a, rIn, rOut) \in Amount
<1>1. CASE GetAmountOut(a, rIn, rOut) # Reverted
  BY <1>1, AmountOut DEF Amount
<1> QED BY <1>1 DEF Amount

LEMMA AmountInType ==
  ASSUME NEW b \in Int, NEW rIn \in Nat, NEW rOut \in Nat
  PROVE  GetAmountIn(b, rIn, rOut) \in Amount
<1>1. CASE GetAmountIn(b, rIn, rOut) # Reverted
  BY <1>1, AmountIn DEF Amount
<1> QED BY <1>1 DEF Amount

\* The amounts forward along a path, and along each part of it from its start.
LEMMA ForwardAlong ==
  ASSUME NEW a \in Nat, NEW p, Linked(p), Len(p) >= 2
  PROVE  \E out : /\ Forward(a, p, out)
                  /\ \A k \in 2 .. Len(p) : PathOut(a, SubSeq(p, 1, k)) = out[k]
<1> DEFINE N == Len(p) - 1
           R(i) == ReservesOf(p[i], p[i + 1])
           step == [i \in 1 .. N |-> [x \in Amount |->
                      IF x = Reverted THEN Reverted ELSE GetAmountOut(x, R(i)[1], R(i)[2])]]
<1>0. p \in Seq(Nat) /\ Len(p) \in Nat /\ N \in Nat /\ a \in Amount
  BY DEF Linked, Amount
<1>1. step \in [1 .. N -> [Amount -> Amount]]
  <2>1. \A i \in 1 .. N : \A x \in Amount :
          (IF x = Reverted THEN Reverted ELSE GetAmountOut(x, R(i)[1], R(i)[2])) \in Amount
    <3> SUFFICES ASSUME NEW i \in 1 .. N, NEW x \in Amount, x # Reverted
                 PROVE  GetAmountOut(x, R(i)[1], R(i)[2]) \in Amount
      BY DEF Amount
    <3>1. R(i)[1] \in Nat /\ R(i)[2] \in Nat /\ x \in Int
      BY ReservesAlong DEF Amount
    <3> HIDE DEF R
    <3> QED BY <3>1, AmountOutType
  <2> QED BY <2>1
<1>2. PICK f : Follows(f, N, Amount, a, step)
  <2> HIDE DEF step, N
  <2> QED BY <1>0, <1>1, Recursion
<1> DEFINE out == [i \in 1 .. Len(p) |-> f[i - 1]]
<1>3. f \in [0 .. N -> Amount] /\ f[0] = a /\ \A i \in 1 .. N : f[i] = step[i][f[i - 1]]
  BY <1>2 DEF Follows
<1>4. /\ out \in [1 .. Len(p) -> Amount] /\ out[1] = a
      /\ \A i \in 1 .. N : out[i] \in Amount /\ out[i + 1] = step[i][out[i]]
  <2>1. \A i \in 1 .. Len(p) : i - 1 \in 0 .. N /\ out[i] = f[i - 1] /\ out[i] \in Amount
    BY <1>0, <1>3
  <2>2. \A i \in 1 .. N : i \in 1 .. Len(p) /\ i + 1 \in 1 .. Len(p) /\ (i + 1) - 1 = i
    BY <1>0
  <2>3. \A i \in 1 .. N : out[i + 1] = f[i] /\ out[i] = f[i - 1]
    BY <2>1, <2>2
  <2> HIDE DEF step
  <2>4. 1 \in 1 .. Len(p) /\ out[1] = f[0]
    BY <1>0
  <2>5. out \in [1 .. Len(p) -> Amount]
    BY <2>1
  <2> HIDE DEF out
  <2> QED BY <1>3, <2>1, <2>2, <2>3, <2>4, <2>5
<1>5. Forward(a, p, out)
  <2>1. \A i \in 1 .. N : out[i + 1] =
          IF out[i] = Reverted THEN Reverted ELSE GetAmountOut(out[i], R(i)[1], R(i)[2])
    <3> HIDE DEF out
    <3> QED BY <1>4
  <2> HIDE DEF out
  <2> QED BY <1>4, <2>1 DEF Forward
<1>6. ASSUME NEW k \in 2 .. Len(p) PROVE PathOut(a, SubSeq(p, 1, k)) = out[k]
  <2> HIDE DEF out
  <2> DEFINE q == SubSeq(p, 1, k)
             D(g, i) == IF i = 1 THEN a
                        ELSE IF g[i - 1] = Reverted THEN Reverted
                        ELSE LET r == ReservesOf(q[i - 1], q[i]) IN GetAmountOut(g[i - 1], r[1], r[2])
             h == CHOOSE g : g = [i \in DOMAIN q |-> D(g, i)]
  <2>1. Len(q) = k /\ DOMAIN q = 1 .. k /\ \A i \in 1 .. k : q[i] = p[i]
    BY <1>0, <1>6
  <2>2. PathOut(a, q) = h[k]
    <3> HIDE DEF q
    <3>1. ~(Len(q) < 2)
      BY <2>1
    <3> QED BY <2>1, <3>1 DEF PathOut
  <2>3. ASSUME NEW g, NEW i \in 1 .. k, i # 1, g[i - 1] = out[i - 1]
        PROVE  D(g, i) = out[i]
    <3>1. i - 1 \in 1 .. Len(p) - 1 /\ (i - 1) + 1 = i /\ q[i] = p[i] /\ q[i - 1] = p[i - 1]
      <4>1. k \in Nat /\ k <= Len(p) /\ i \in Nat /\ 2 <= i /\ i <= k
        BY <1>0, <1>6, <2>3
      <4>2. i - 1 \in 1 .. Len(p) - 1 /\ (i - 1) + 1 = i
        BY <1>0, <4>1
      <4>3. i \in 1 .. k /\ i - 1 \in 1 .. k
        BY <4>1
      <4> HIDE DEF q
      <4> QED BY <2>1, <4>2, <4>3
    <3>2. out[(i - 1) + 1] = IF out[i - 1] = Reverted THEN Reverted
             ELSE GetAmountOut(out[i - 1], ReservesOf(p[i - 1], p[(i - 1) + 1])[1],
                                           ReservesOf(p[i - 1], p[(i - 1) + 1])[2])
      BY <1>5, <3>1 DEF Forward
    <3> HIDE DEF q
    <3> QED BY <2>3, <3>1, <3>2
  <2> DEFINE e == [i \in 1 .. k |-> out[i]]
  <2>4. e = [i \in DOMAIN q |-> D(e, i)]
    <3>1. \A i \in 1 .. k : e[i] = D(e, i)
      <4> SUFFICES ASSUME NEW i \in 1 .. k PROVE e[i] = D(e, i)
        OBVIOUS
      <4>1. CASE i = 1
        BY <4>1, <1>4
      <4>2. CASE i # 1
        <5>1. i - 1 \in 1 .. k
          BY <4>2
        <5>2. e[i - 1] = out[i - 1] /\ e[i] = out[i]
          BY <5>1
        <5> HIDE DEF e, D
        <5> QED BY <4>2, <5>2, <2>3
      <4> QED BY <4>1, <4>2
    <3> HIDE DEF D, q
    <3> QED BY <2>1, <3>1
  <2>5. h = [i \in DOMAIN q |-> D(h, i)]
    <3> HIDE DEF e, D, q
    <3> QED BY <2>4
  <2>6. \A i \in 1 .. k : h[i] = D(h, i)
    <3> HIDE DEF h, D, q
    <3> QED BY <2>1, <2>5
  <2> DEFINE T == {j \in 0 .. k - 1 : h[j + 1] = out[j + 1]}
  <2>7. 0 \in T
    <3>1. h[1] = a
      <4>1. 1 \in 1 .. k
        OBVIOUS
      <4> HIDE DEF h, q
      <4> QED BY <2>6, <4>1
    <3> HIDE DEF h
    <3> QED BY <3>1, <1>4
  <2>8. \A j \in 0 .. (k - 1) - 1 : j \in T => j + 1 \in T
    <3> SUFFICES ASSUME NEW j \in 0 .. (k - 1) - 1, h[j + 1] = out[j + 1]
                 PROVE  h[(j + 1) + 1] = out[(j + 1) + 1]
      <4> HIDE DEF h
      <4> QED OBVIOUS
    <3> DEFINE i == (j + 1) + 1
    <3>1. i \in 1 .. k /\ i # 1 /\ i - 1 = j + 1
      OBVIOUS
    <3> HIDE DEF i, h
    <3>2. D(h, i) = out[i]
      BY <3>1, <2>3
    <3> QED BY <2>6, <3>1, <3>2 DEF i
  <2>9. 0 .. k - 1 \subseteq T
    <3> HIDE DEF T
    <3>1. k - 1 \in Nat
      OBVIOUS
    <3> QED BY <2>7, <2>8, <3>1, SetInductionTo
  <2>10. h[k] = out[k]
    <3>1. k - 1 \in T /\ (k - 1) + 1 = k
      <4> HIDE DEF T
      <4> QED BY <2>9
    <3> HIDE DEF h
    <3> QED BY <3>1
  <2> QED BY <2>2, <2>10
<1> QED
  <2> HIDE DEF out
  <2> QED BY <1>5, <1>6

\* The amounts backward along a path.
LEMMA BackwardAlong ==
  ASSUME NEW b \in Nat, NEW p, Linked(p), Len(p) >= 2
  PROVE  \E in : Backward(b, p, in) /\ PathIn(b, p) = in[1]
<1> DEFINE n == Len(p)
           N == n - 1
           R(i) == ReservesOf(p[i], p[i + 1])
           step == [j \in 1 .. N |-> [x \in Amount |->
                      IF x = Reverted THEN Reverted ELSE GetAmountIn(x, R(n - j)[1], R(n - j)[2])]]
<1>0. p \in Seq(Nat) /\ n \in Nat /\ n >= 2 /\ N \in Nat /\ b \in Amount /\ DOMAIN p = 1 .. n
  BY DEF Linked, Amount
<1>1. step \in [1 .. N -> [Amount -> Amount]]
  <2>1. \A j \in 1 .. N : \A x \in Amount :
          (IF x = Reverted THEN Reverted ELSE GetAmountIn(x, R(n - j)[1], R(n - j)[2])) \in Amount
    <3> SUFFICES ASSUME NEW j \in 1 .. N, NEW x \in Amount, x # Reverted
                 PROVE  GetAmountIn(x, R(n - j)[1], R(n - j)[2]) \in Amount
      BY DEF Amount
    <3>1. n - j \in 1 .. N
      BY <1>0
    <3>2. R(n - j)[1] \in Nat /\ R(n - j)[2] \in Nat /\ x \in Int
      BY <3>1, ReservesAlong DEF Amount
    <3> HIDE DEF R
    <3> QED BY <3>2, AmountInType
  <2> QED BY <2>1
<1>2. PICK f : Follows(f, N, Amount, b, step)
  <2> HIDE DEF step, N
  <2> QED BY <1>0, <1>1, Recursion
<1> DEFINE in == [i \in 1 .. n |-> f[n - i]]
<1>3. f \in [0 .. N -> Amount] /\ f[0] = b /\ \A i \in 1 .. N : f[i] = step[i][f[i - 1]]
  BY <1>2 DEF Follows
<1>4. /\ in \in [1 .. n -> Amount] /\ in[n] = b
      /\ \A i \in 1 .. N : in[i + 1] \in Amount /\ in[i] = step[n - i][in[i + 1]]
  <2> HIDE DEF n
  <2>1. \A i \in 1 .. n : n - i \in 0 .. N /\ in[i] = f[n - i] /\ in[i] \in Amount
    BY <1>0, <1>3
  <2>2. \A i \in 1 .. N : /\ i \in 1 .. n /\ i + 1 \in 1 .. n /\ n - (i + 1) = (n - i) - 1
                          /\ n - i \in 1 .. N
    BY <1>0
  <2>3. \A i \in 1 .. N : in[i + 1] = f[(n - i) - 1] /\ in[i] = f[n - i]
    BY <2>1, <2>2
  <2> HIDE DEF step
  <2>4. n \in 1 .. n /\ in[n] = f[0]
    BY <1>0
  <2>5. in \in [1 .. n -> Amount]
    BY <2>1
  <2> HIDE DEF in, N
  <2>6. \A i \in 1 .. N : in[i + 1] \in Amount
    BY <2>1, <2>2
  <2>7. \A i \in 1 .. N : in[i] = step[n - i][in[i + 1]]
    <3> SUFFICES ASSUME NEW i \in 1 .. N PROVE in[i] = step[n - i][in[i + 1]]
      OBVIOUS
    <3>1. n - i \in 1 .. N /\ in[i + 1] = f[(n - i) - 1] /\ in[i] = f[n - i]
      BY <2>2, <2>3
    <3> DEFINE j == n - i
    <3>2. f[j] = step[j][f[j - 1]]
      BY <1>3, <3>1
    <3> QED BY <3>1, <3>2
  <2> QED BY <1>3, <2>4, <2>5, <2>6, <2>7
<1>5. \A i \in 1 .. N : in[i] =
          IF in[i + 1] = Reverted THEN Reverted ELSE GetAmountIn(in[i + 1], R(i)[1], R(i)[2])
  <2> HIDE DEF in, n
  <2>1. \A i \in 1 .. N : n - i \in 1 .. N /\ n - (n - i) = i
    BY <1>0
  <2> QED BY <1>4, <2>1
<1>6. Backward(b, p, in)
  <2> HIDE DEF in
  <2> QED BY <1>4, <1>5 DEF Backward
<1>7. PathIn(b, p) = in[1]
  <2> HIDE DEF in
  <2> DEFINE D(g, i) == IF i = n THEN b
                        ELSE IF g[i + 1] = Reverted THEN Reverted
                        ELSE LET r == ReservesOf(p[i], p[i + 1]) IN GetAmountIn(g[i + 1], r[1], r[2])
             h == CHOOSE g : g = [i \in DOMAIN p |-> D(g, i)]
  <2>1. PathIn(b, p) = h[1]
    BY <1>0 DEF PathIn
  <2>2. ASSUME NEW g, NEW i \in 1 .. n, i # n, g[i + 1] = in[i + 1]
        PROVE  D(g, i) = in[i]
    <3>1. i \in 1 .. N
      <4>1. \A j \in 1 .. n : j # n => j \in 1 .. N
        <5> HIDE DEF n
        <5> QED BY <1>0
      <4> HIDE DEF n, N
      <4> QED BY <2>2, <4>1
    <3> HIDE DEF n, N
    <3> QED BY <1>5, <2>2, <3>1
  <2>3. in = [i \in DOMAIN p |-> D(in, i)]
    <3>1. \A i \in 1 .. n : in[i] = D(in, i)
      <4> SUFFICES ASSUME NEW i \in 1 .. n PROVE in[i] = D(in, i)
        OBVIOUS
      <4>1. CASE i = n
        BY <4>1, <1>4
      <4>2. CASE i # n
        <5> HIDE DEF D, n
        <5> QED BY <4>2, <2>2
      <4> QED BY <4>1, <4>2
    <3> HIDE DEF D, n
    <3> QED BY <1>0, <1>4, <3>1
  <2>4. h = [i \in DOMAIN p |-> D(h, i)]
    <3> HIDE DEF D
    <3> QED BY <2>3
  <2>5. \A i \in 1 .. n : h[i] = D(h, i)
    <3> HIDE DEF h, D, n
    <3> QED BY <1>0, <2>4
  <2> DEFINE T == {j \in 0 .. N : h[n - j] = in[n - j]}
  <2>6. 0 \in T
    <3>1. h[n] = b
      <4> HIDE DEF h, n
      <4> QED BY <1>0, <2>5
    <3>2. n - 0 = n /\ 0 \in 0 .. N
      <4> HIDE DEF n
      <4> QED BY <1>0
    <3> HIDE DEF h, n, N
    <3> QED BY <3>1, <3>2, <1>4
  <2>7. \A j \in 0 .. N - 1 : j \in T => j + 1 \in T
    <3> SUFFICES ASSUME NEW j \in 0 .. N - 1, h[n - j] = in[n - j]
                 PROVE  j + 1 \in 0 .. N /\ h[n - (j + 1)] = in[n - (j + 1)]
      OBVIOUS
    <3> DEFINE i == n - (j + 1)
    <3>1. i \in 1 .. n /\ i # n /\ i + 1 = n - j /\ j + 1 \in 0 .. N
      <4> HIDE DEF n
      <4> QED BY <1>0
    <3> HIDE DEF i, h, n, N
    <3>2. D(h, i) = in[i]
      BY <3>1, <2>2
    <3> QED BY <2>5, <3>1, <3>2 DEF i
  <2>8. 0 .. N \subseteq T
    <3> HIDE DEF T, N
    <3> QED BY <1>0, <2>6, <2>7, SetInductionTo
  <2>9. N \in T /\ n - N = 1
    <3> HIDE DEF T, n
    <3> QED BY <1>0, <2>8
  <2>10. h[1] = in[1]
    <3> HIDE DEF h, n, N
    <3> QED BY <2>9
  <2> QED BY <2>1, <2>10
<1> QED
  <2> HIDE DEF in
  <2> QED BY <1>6, <1>7

\* A part of a path is a path.
LEMMA PartLinked ==
  ASSUME NEW p, Linked(p), NEW i \in 1 .. Len(p), NEW j \in i .. Len(p)
  PROVE  Linked(SubSeq(p, i, j)) /\ Len(SubSeq(p, i, j)) = (j - i) + 1
<1> DEFINE q == SubSeq(p, i, j)
           n == (j - i) + 1
<1>1. p \in Seq(Nat) /\ Len(p) \in Nat
  BY DEF Linked
<1>2. i \in Nat /\ j \in Nat /\ i <= j /\ j <= Len(p) /\ 1 <= i
  BY <1>1
<1>3. q \in Seq(Nat) /\ Len(q) = n /\ \A k \in 1 .. n : q[k] = p[(i + k) - 1]
  <2>1. \A k \in i .. j : p[k] \in Nat
    BY <1>1, <1>2
  <2> QED BY <1>1, <1>2, <2>1
<1>4. ASSUME NEW k \in 1 .. n - 1
      PROVE  pairs[PairOf(q[k], q[k + 1])] \in Nat \X Nat
  <2>1. k \in 1 .. n /\ k + 1 \in 1 .. n /\ (i + (k + 1)) - 1 = ((i + k) - 1) + 1
        /\ (i + k) - 1 \in 1 .. Len(p) - 1
    BY <1>2
  <2>2. q[k] = p[(i + k) - 1] /\ q[k + 1] = p[((i + k) - 1) + 1]
    <3> HIDE DEF q, n
    <3> QED BY <1>3, <2>1
  <2>3. pairs[PairOf(p[(i + k) - 1], p[((i + k) - 1) + 1])] \in Nat \X Nat
    <3> DEFINE m == (i + k) - 1
    <3>1. m \in 1 .. Len(p) - 1
      BY <2>1
    <3> HIDE DEF m
    <3>2. pairs[PairOf(p[m], p[m + 1])] \in Nat \X Nat
      BY <3>1 DEF Linked
    <3> QED BY <3>2 DEF m
  <2> HIDE DEF q
  <2> QED BY <2>2, <2>3
<1> HIDE DEF q, n
<1>5. Linked(q)
  BY <1>3, <1>4 DEF Linked
<1> QED BY <1>3, <1>5 DEF q, n

\* Two numbers have a least one.
LEMMA LeastOfTwo ==
  ASSUME NEW m \in Int, NEW n \in Int
  PROVE  Min({m, n}) \in {m, n} /\ Min({m, n}) <= m /\ Min({m, n}) <= n
<1>1. \E x \in {m, n} : \A y \in {m, n} : x <= y
  <2>1. CASE m <= n
    BY <2>1
  <2>2. CASE n <= m
    BY <2>2
  <2> QED BY <2>1, <2>2
<1> QED BY <1>1 DEF Min

\* The path of the other swap has its pairs.
LEMMA PathLinked ==
  ASSUME TypeOK
  PROVE  /\ Linked(path) /\ Len(path) \in Nat
         /\ Hops(path) = 1 .. Len(path) - 1
         /\ \A i \in DOMAIN path : path[i] \in Tokens /\ path[i] \in Nat
<1>1. path \in Paths /\ path \in Seq(Nat)
  BY NumbersAssumption DEF TypeOK
<1>2. Len(path) \in Nat /\ DOMAIN path = 1 .. Len(path)
  BY <1>1
<1>3. Hops(path) = 1 .. Len(path) - 1
  BY <1>2 DEF Hops
<1>4. pairs \in [{PairOf(path[i], path[i + 1]) : i \in Hops(path)} -> Nat \X Nat]
  BY DEF TypeOK
<1>5. Linked(path)
  BY <1>1, <1>3, <1>4 DEF Linked
<1>6. \A i \in DOMAIN path : path[i] \in Tokens /\ path[i] \in Nat
  BY <1>1 DEF Tokens
<1> QED BY <1>2, <1>3, <1>5, <1>6

\* What the other swap has at a hop: amounts, or a revert.
LEMMA HisAmounts ==
  ASSUME TypeOK, NEW i \in Hops(path)
  PROVE  InAt(i) \in Amount /\ OutAt(i) \in Amount
<1>1. /\ Linked(path) /\ Len(path) \in Nat /\ Hops(path) = 1 .. Len(path) - 1
  BY PathLinked
<1>2. his.in \in Nat /\ his.out \in Nat
  BY NumbersAssumption DEF TypeOK
<1>3. i \in Nat /\ 1 <= i /\ i < Len(path)
  BY <1>1
<1>4. InAt(i) \in Amount
  <2>1. CASE i > 1
    <3>1. Len(path) >= 2 /\ i \in 2 .. Len(path)
      BY <1>1, <1>3, <2>1
    <3>2. PICK out : Forward(his.in, path, out) /\ \A k \in 2 .. Len(path) :
                       PathOut(his.in, SubSeq(path, 1, k)) = out[k]
      BY <1>1, <1>2, <3>1, ForwardAlong
    <3>3. out[i] \in Amount
      BY <1>1, <3>1, <3>2 DEF Forward
    <3> QED BY <2>1, <3>1, <3>2, <3>3 DEF InAt
  <2>2. CASE ~(i > 1)
    BY <2>2 DEF InAt, Amount
  <2> QED BY <2>1, <2>2
<1>5. OutAt(i) \in Amount
  <2>1. CASE i + 1 < Len(path)
    <3> DEFINE p == SubSeq(path, i + 1, Len(path))
    <3>1. Linked(p) /\ Len(p) = (Len(path) - (i + 1)) + 1
      <4>1. i + 1 \in 1 .. Len(path) /\ Len(path) \in (i + 1) .. Len(path)
        BY <1>1, <1>3, <2>1
      <4> QED BY <1>1, <4>1, PartLinked
    <3>2. Len(p) >= 2 /\ Len(p) \in Nat
      <4> HIDE DEF p
      <4> QED BY <1>1, <1>3, <2>1, <3>1
    <3> HIDE DEF p
    <3>3. PICK in : Backward(his.out, p, in) /\ PathIn(his.out, p) = in[1]
      BY <1>2, <3>1, <3>2, BackwardAlong
    <3>4. in[1] \in Amount
      BY <3>2, <3>3 DEF Backward
    <3> QED BY <2>1, <3>3, <3>4 DEF OutAt, p
  <2>2. CASE ~(i + 1 < Len(path))
    BY <2>2 DEF OutAt, Amount
  <2> QED BY <2>1, <2>2
<1> QED BY <1>4, <1>5

\* Our input is what is allowed or what there is, or reverts.
LEMMA OurInput ==
  ASSUME TypeOK, NEW i \in Hops(path)
  PROVE  /\ OurIn(i) \in Amount
         /\ OurIn(i) # Reverted => OurIn(i) <= sender[path[i]]
         /\ Hop(i)[1] \in Nat /\ Hop(i)[2] \in Nat
         /\ OurIn(i) # Reverted =>
              /\ InAt(i) \in Nat /\ OutAt(i) \in Nat
              /\ GetMaxAmountIn(InAt(i), OutAt(i), Hop(i)[1], Hop(i)[2]) # Reverted
<1> DEFINE r == ReservesOf(path[i], path[i + 1])
           most == IF Reverted \in {InAt(i), OutAt(i)} THEN Reverted
                   ELSE GetMaxAmountIn(InAt(i), OutAt(i), r[1], r[2])
<1>1. r[1] \in Nat /\ r[2] \in Nat
  BY PathLinked, ReservesAlong
<1>2. i \in DOMAIN path /\ sender[path[i]] \in Nat
  BY PathLinked DEF Hops, TypeOK
<1>3. OurIn(i) = Min({most, sender[path[i]]})
  BY DEF OurIn
<1>4. InAt(i) \in Amount /\ OutAt(i) \in Amount
  BY HisAmounts
<1>5. most \in Amount /\ (most # Reverted => InAt(i) \in Nat /\ OutAt(i) \in Nat)
  <2>1. CASE Reverted \in {InAt(i), OutAt(i)}
    BY <2>1 DEF Amount
  <2>2. CASE Reverted \notin {InAt(i), OutAt(i)}
    <3>1. InAt(i) \in Nat /\ OutAt(i) \in Nat
      BY <1>4, <2>2 DEF Amount
    <3>2. most = GetMaxAmountIn(InAt(i), OutAt(i), r[1], r[2])
      BY <2>2
    <3> HIDE DEF most, r
    <3>3. most \in Amount
      BY <1>1, <3>1, <3>2, MaxAmountIn DEF Amount
    <3> QED BY <3>1, <3>3
  <2> QED BY <2>1, <2>2
<1>6. most # Reverted => most = GetMaxAmountIn(InAt(i), OutAt(i), r[1], r[2])
  OBVIOUS
<1> DEFINE s == sender[path[i]]
<1> HIDE DEF most, r, s
<1>7. most \in Int /\ s \in Nat /\ OurIn(i) = Min({most, s}) /\ Reverted = -1
  BY <1>2, <1>3, <1>5 DEF Amount, Reverted, s
<1>8. OurIn(i) \in {most, s} /\ OurIn(i) <= most /\ OurIn(i) <= s
  BY <1>7, LeastOfTwo
<1>9. OurIn(i) \in Amount /\ (OurIn(i) # Reverted => most # Reverted)
  BY <1>5, <1>7, <1>8 DEF Amount
<1> QED BY <1>1, <1>5, <1>6, <1>8, <1>9 DEF Hop, r, s

-----------------------------------------------------------------------------
(* What follows from the types alone.                                      *)

\* The check of the pair, at every hop and for every amount.
LEMMA PairGives == TypeOK => MostThePairGives
<1> SUFFICES ASSUME TypeOK, NEW i \in Hops(path),
                    NEW a \in {his.in} \cup {OurIn(k) : k \in Hops(path)},
                    GetAmountOut(a, Hop(i)[1], Hop(i)[2]) # Reverted
             PROVE  LET out == GetAmountOut(a, Hop(i)[1], Hop(i)[2]) IN
                    /\ out > 0 => PairTakes(Hop(i)[1], Hop(i)[2], a, out)
                    /\ ~PairTakes(Hop(i)[1], Hop(i)[2], a, out + 1)
  BY DEF MostThePairGives
<1>1. Hop(i)[1] \in Nat /\ Hop(i)[2] \in Nat
  BY OurInput
<1>2. a \in Int
  <2>1. his.in \in Nat
    BY NumbersAssumption DEF TypeOK
  <2>2. \A k \in Hops(path) : OurIn(k) \in Int
    BY OurInput DEF Amount, Reverted
  <2> QED BY <2>1, <2>2
<1> QED BY <1>1, <1>2, PairAccepts

\* There and back along the whole path.
LEMMA EnoughReached == TypeOK => RequiredReached
<1> SUFFICES ASSUME TypeOK, PathIn(his.out, path) # Reverted,
                    PathOut(PathIn(his.out, path), path) # Reverted
             PROVE  PathOut(PathIn(his.out, path), path) >= his.out
  BY DEF RequiredReached
<1> DEFINE n == Len(path)
           R(i) == ReservesOf(path[i], path[i + 1])
<1>1. Linked(path) /\ path \in Seq(Nat) /\ n \in Nat /\ n >= 2
  <2>1. ~(n < 2)
    BY DEF PathIn
  <2>2. Linked(path) /\ n \in Nat
    BY PathLinked
  <2>3. path \in Seq(Nat)
    BY <2>2 DEF Linked
  <2> HIDE DEF n
  <2> QED BY <2>1, <2>2, <2>3
<1>2. his.out \in Nat
  BY NumbersAssumption DEF TypeOK
<1>3. PICK in : Backward(his.out, path, in) /\ PathIn(his.out, path) = in[1]
  BY <1>1, <1>2, BackwardAlong
<1>4. in[1] \in Nat
  BY <1>1, <1>3 DEF Backward, Amount
<1>5. PICK out : /\ Forward(in[1], path, out)
                 /\ \A k \in 2 .. Len(path) : PathOut(in[1], SubSeq(path, 1, k)) = out[k]
  BY <1>1, <1>4, ForwardAlong
<1>6. PathOut(in[1], path) = out[n]
  <2>1. SubSeq(path, 1, n) = path /\ n \in 2 .. Len(path)
    BY <1>1
  <2> QED BY <1>5, <2>1
<1> HIDE DEF n
<1>7. /\ in \in [1 .. n -> Amount] /\ in[n] = his.out
      /\ \A i \in 1 .. n - 1 :
           in[i] = IF in[i + 1] = Reverted THEN Reverted ELSE GetAmountIn(in[i + 1], R(i)[1], R(i)[2])
  BY <1>3 DEF Backward, n
<1>8. /\ out \in [1 .. n -> Amount] /\ out[1] = in[1]
      /\ \A i \in 1 .. n - 1 :
           out[i + 1] = IF out[i] = Reverted THEN Reverted ELSE GetAmountOut(out[i], R(i)[1], R(i)[2])
  BY <1>5 DEF Forward, n
<1>9. \A i \in 1 .. n - 1 : R(i)[1] \in Nat /\ R(i)[2] \in Nat
  BY <1>1, ReservesAlong DEF n
<1> HIDE DEF R
\* Forward never falls below backward, unless it reverts on the way.
<1> DEFINE Enough(i) == in[i] # Reverted /\ (out[i] # Reverted => out[i] >= in[i])
           T == {j \in 0 .. n - 1 : Enough(j + 1)}
<1>10. 0 \in T
  <2>1. Enough(1)
    BY <1>3, <1>4, <1>8 DEF Reverted
  <2> HIDE DEF Enough
  <2> QED BY <1>1, <2>1
<1>11. \A j \in 0 .. (n - 1) - 1 : j \in T => j + 1 \in T
  <2> SUFFICES ASSUME NEW j \in 0 .. (n - 1) - 1, Enough(j + 1) PROVE Enough((j + 1) + 1)
    <3> HIDE DEF Enough
    <3> QED BY <1>1
  <2> DEFINE i == j + 1
  <2>1. i \in 1 .. n - 1 /\ i + 1 \in 1 .. n /\ i \in 1 .. n
    BY <1>1
  <2> HIDE DEF i
  <2>2. Enough(i)
    BY DEF i
  <2>3. in[i + 1] # Reverted /\ in[i] = GetAmountIn(in[i + 1], R(i)[1], R(i)[2])
    BY <1>7, <2>1, <2>2
  <2>4. in[i + 1] \in Int /\ GetAmountIn(in[i + 1], R(i)[1], R(i)[2]) # Reverted
    BY <1>7, <2>1, <2>2, <2>3 DEF Amount, Reverted
  <2>5. ASSUME out[i + 1] # Reverted PROVE out[i + 1] >= in[i + 1]
    <3>1. out[i] # Reverted /\ out[i + 1] = GetAmountOut(out[i], R(i)[1], R(i)[2])
      BY <1>8, <2>1, <2>5
    <3>2. out[i] \in Nat /\ out[i] >= in[i]
      BY <1>8, <2>1, <2>2, <3>1 DEF Amount
    <3> DEFINE x == out[i]  b == in[i + 1]
    <3>3. x \in Nat /\ x >= GetAmountIn(b, R(i)[1], R(i)[2]) /\ GetAmountOut(x, R(i)[1], R(i)[2]) # Reverted
      BY <2>3, <2>5, <3>1, <3>2
    <3>4. b \in Int /\ GetAmountIn(b, R(i)[1], R(i)[2]) # Reverted /\ R(i)[1] \in Nat /\ R(i)[2] \in Nat
      BY <1>9, <2>1, <2>4
    <3> HIDE DEF x, b
    <3>5. GetAmountOut(x, R(i)[1], R(i)[2]) >= b
      BY <3>3, <3>4, AmountIn
    <3> QED BY <3>1, <3>5 DEF x, b
  <2> QED BY <2>3, <2>5 DEF i
<1>12. n - 1 \in Nat /\ (n - 1) + 1 = n
  BY <1>1
<1>13. 0 .. n - 1 \subseteq T
  <2> HIDE DEF T
  <2> QED BY <1>10, <1>11, <1>12, SetInductionTo
<1>14. Enough(n)
  <2> HIDE DEF Enough
  <2> QED BY <1>12, <1>13
<1> QED BY <1>3, <1>6, <1>7, <1>14

\* The limit of the front run, at every hop.
LEMMA LimitKept == TypeOK => NetLimitKept
<1> SUFFICES ASSUME TypeOK, NEW i \in Hops(path), InAt(i) > 0, OutAt(i) > 0,
                    GetMaxAmountIn(InAt(i), OutAt(i), Hop(i)[1], Hop(i)[2]) # Reverted
             PROVE  LET in == Hop(i)[1] * BIP +
                                FEE * GetMaxAmountIn(InAt(i), OutAt(i), Hop(i)[1], Hop(i)[2])
                    IN  Hop(i)[2] * Hop(i)[1] * BIP * FEE * InAt(i) >=
                          OutAt(i) * in * (in + FEE * InAt(i))
  BY DEF NetLimitKept
<1>1. Hop(i)[1] \in Nat /\ Hop(i)[2] \in Nat
  BY OurInput
<1>2. InAt(i) \in Nat /\ OutAt(i) \in Nat
  BY HisAmounts DEF Amount, Reverted
<1> QED BY <1>1, <1>2, MaxAmountIn

\* The first hop and the last one of a path revert.
LEMMA InnerOnly == TypeOK => OnlyInnerHops
<1> SUFFICES ASSUME TypeOK, NEW i \in Hops(path), OurIn(i) # Reverted, OurOut(i) > 0
             PROVE  1 < i /\ i + 1 < Len(path)
  BY DEF OnlyInnerHops
<1> DEFINE a == InAt(i)  b == OutAt(i)  rIn == Hop(i)[1]  rOut == Hop(i)[2]
<1>1. /\ a \in Nat /\ b \in Nat /\ rIn \in Nat /\ rOut \in Nat
      /\ GetMaxAmountIn(a, b, rIn, rOut) # Reverted
  BY OurInput
<1>2. i \in 1 .. Len(path) - 1 /\ Len(path) \in Nat
  BY PathLinked
<1>3. b # 0
  <2> HIDE DEF a, b, rIn, rOut
  <2> QED BY <1>1 DEF GetMaxAmountIn
<1>4. i + 1 < Len(path)
  BY <1>3 DEF OutAt
<1>5. 0 < rIn
  <2>1. GetAmountOut(OurIn(i), rIn, rOut) > 0 /\ GetAmountOut(OurIn(i), rIn, rOut) # Reverted
    BY DEF OurOut, Hop, Reverted
  <2>2. OurIn(i) \in Int
    BY OurInput DEF Amount, Reverted
  <2> HIDE DEF rIn, rOut
  <2> QED BY <1>1, <2>1, <2>2, AmountOut
<1>6. a # 0
  <2> SUFFICES ASSUME a = 0 PROVE FALSE
    OBVIOUS
  <2> DEFINE n == FEE * a * ((4 * BIP * rIn * rOut) \div b + FEE * a)
             d == Sqrt(n) - 2 * BIP * rIn - FEE * a
  <2>1. GetMaxAmountIn(a, b, rIn, rOut) = IF Word(n) /\ d >= 0 THEN d \div (2 * FEE) ELSE Reverted
    <3> HIDE DEF n, d
    <3>1. ~(b = 0 \/ ~Word(4 * BIP * rIn * rOut))
      <4> HIDE DEF a, b, rIn, rOut
      <4> QED BY <1>1 DEF GetMaxAmountIn
    <3> HIDE DEF a, b, rIn, rOut
    <3> QED BY <3>1 DEF GetMaxAmountIn, n, d
  <2>2. n = 0
    <3>1. FEE \in Nat /\ FEE * a = 0
      BY FeeAssumption
    <3>2. 4 * BIP * rIn * rOut \in Nat /\ (4 * BIP * rIn * rOut) \div b \in Nat
      <4>1. BIP \in Nat
        BY FeeAssumption
      <4> HIDE DEF a, b, rIn, rOut
      <4>2. 4 * BIP * rIn * rOut \in Nat
        BY <1>1, <4>1, Products
      <4> DEFINE m == 4 * BIP * rIn * rOut
      <4> HIDE DEF m
      <4>3. m \div b \in Nat
        BY <1>1, <1>3, <4>2, Quotient DEF m
      <4> QED BY <4>2, <4>3 DEF m
    <3> DEFINE k == (4 * BIP * rIn * rOut) \div b + FEE * a
               h == FEE * a
    <3>3. k \in Nat /\ h = 0
      <4> HIDE DEF a, b, rIn, rOut
      <4> QED BY <3>1, <3>2
    <3>4. n = h * k
      OBVIOUS
    <3> HIDE DEF n, h, k
    <3> QED BY <3>3, <3>4
  <2>3. Sqrt(n) = 0
    <3> HIDE DEF n
    <3>1. Sqrt(n) \in Nat /\ Sqrt(n) * Sqrt(n) <= 0
      BY <2>2, Root
    <3> QED BY <3>1
  <2>4. 2 * BIP * rIn > 0 /\ 2 * BIP * rIn \in Nat
    <3>1. BIP \in Nat /\ BIP > 0
      BY FeeAssumption
    <3> HIDE DEF rIn
    <3>2. BIP * rIn > 0 /\ 2 * BIP * rIn = 2 * (BIP * rIn)
      BY <1>1, <1>5, <3>1, SMTT(60)
    <3> QED BY <1>1, <3>1, <3>2
  <2>5. FEE * a = 0
    BY FeeAssumption
  <2>6. ~(d >= 0)
    <3> HIDE DEF n, a, rIn
    <3> QED BY <2>3, <2>4, <2>5
  <2> HIDE DEF n, d
  <2> QED BY <1>1, <2>1, <2>6
<1>7. 1 < i
  BY <1>2, <1>6 DEF InAt
<1> QED BY <1>4, <1>7

-----------------------------------------------------------------------------
(* The steps.                                                              *)

\* The pair of two tokens does not depend on their order.
LEMMA SamePair ==
  ASSUME NEW a \in Nat, NEW b \in Nat
  PROVE  PairOf(a, b) = PairOf(b, a)
BY DEF PairOf

\* What a swap leaves in a pair are naturals, as long as it gives no more than
\* the pair has.
LEMMA SwapLeaves ==
  ASSUME NEW a, NEW b, NEW D, pairs \in [D -> Nat \X Nat], PairOf(a, b) \in D,
         NEW in \in Nat, NEW out \in Nat, out <= ReservesOf(a, b)[2]
  PROVE  Swapped(a, b, in, out) \in [D -> Nat \X Nat]
<1> DEFINE r == ReservesOf(a, b)
           v == IF IsInverted(a, b) THEN <<r[2] - out, r[1] + in>> ELSE <<r[1] + in, r[2] - out>>
<1>1. r[1] \in Nat /\ r[2] \in Nat /\ out <= r[2]
  BY DEF ReservesOf
<1>2. r[2] - out \in Nat /\ r[1] + in \in Nat
  <2> HIDE DEF r
  <2> QED BY <1>1
<1>3. v \in Nat \X Nat
  <2> HIDE DEF r
  <2> QED BY <1>2
<1>4. Swapped(a, b, in, out) = [pairs EXCEPT ![PairOf(a, b)] = v]
  BY DEF Swapped
<1> HIDE DEF v
<1> QED BY <1>3, <1>4

LEMMA ToasterInit == Init => TypeOK
<1> SUFFICES ASSUME Init PROVE TypeOK
  OBVIOUS
<1>1. path \in Paths /\ path \in Seq(Nat)
  BY NumbersAssumption DEF Init
<1>2. pairs \in [{PairOf(path[i], path[i + 1]) : i \in Hops(path)} -> Nat \X Nat]
  <2> DEFINE D == {PairOf(path[i], path[i + 1]) : i \in Hops(path)}
             Of(q) == CHOOSE i \in Hops(path) : q = PairOf(path[i], path[i + 1])
  <2>1. PICK r \in [Hops(path) -> Reserves \X Reserves] :
          pairs = [q \in {PairOf(path[i], path[i + 1]) : i \in DOMAIN r} |->
                     r[CHOOSE i \in DOMAIN r : q = PairOf(path[i], path[i + 1])]]
    BY DEF Init, Hops
  <2>2. DOMAIN r = Hops(path)
    BY <2>1
  <2>3. pairs = [q \in D |-> r[Of(q)]]
    BY <2>1, <2>2
  <2>4. \A q \in D : Of(q) \in Hops(path)
    OBVIOUS
  <2>5. \A q \in D : r[Of(q)] \in Reserves \X Reserves
    <3> HIDE DEF D, Of
    <3> QED BY <2>4
  <2>6. \A q \in D : r[Of(q)] \in Nat \X Nat
    <3> HIDE DEF D, Of
    <3>1. \A x \in Reserves \X Reserves : x \in Nat \X Nat
      BY NumbersAssumption
    <3> QED BY <2>5, <3>1
  <2> HIDE DEF D, Of
  <2>7. pairs \in [D -> Nat \X Nat]
    BY <2>3, <2>6
  <2> QED BY <2>7 DEF D
<1>3. sender \in [Tokens -> Nat]
  BY NumbersAssumption DEF Init
<1>4. toaster \in [Tokens -> Nat]
  <2>1. PICK n \in Amounts \cup {0} : toaster = [t \in Tokens |-> n]
    BY DEF Init
  <2>2. n \in Nat
    BY NumbersAssumption
  <2> QED BY <2>1, <2>2
<1> QED BY <1>1, <1>2, <1>3, <1>4 DEF TypeOK, Init, Steps

LEMMA FrontRunType ==
  ASSUME TypeOK, NEW i \in DOMAIN path, FrontRunSwap(i) PROVE TypeOK'
<1> DEFINE D == {PairOf(path[k], path[k + 1]) : k \in Hops(path)}
<1>1. i \in Hops(path) /\ i + 1 \in DOMAIN path
  BY PathLinked DEF FrontRunSwap, Hops
<1>2. /\ OurIn(i) \in Nat /\ OurIn(i) <= sender[path[i]]
      /\ Hop(i)[1] \in Nat /\ Hop(i)[2] \in Nat
  BY <1>1, OurInput DEF FrontRunSwap, Amount
<1>3. OurOut(i) \in Nat /\ OurOut(i) <= Hop(i)[2]
  <2>1. GetAmountOut(OurIn(i), Hop(i)[1], Hop(i)[2]) > 0
        /\ OurOut(i) = GetAmountOut(OurIn(i), Hop(i)[1], Hop(i)[2])
    BY DEF FrontRunSwap, OurOut, Hop
  <2>2. OurIn(i) \in Int /\ GetAmountOut(OurIn(i), Hop(i)[1], Hop(i)[2]) # Reverted
    BY <1>2, <2>1 DEF Reverted
  <2>3. OurOut(i) \in Nat /\ OurOut(i) < Hop(i)[2]
    BY <1>2, <2>1, <2>2, AmountOut
  <2> QED BY <1>2, <2>3
<1>4. pairs' \in [D -> Nat \X Nat]
  <2>1. pairs \in [D -> Nat \X Nat] /\ PairOf(path[i], path[i + 1]) \in D
    BY <1>1 DEF TypeOK
  <2>2. OurOut(i) <= ReservesOf(path[i], path[i + 1])[2]
    BY <1>3 DEF Hop
  <2> HIDE DEF D
  <2>3. Swapped(path[i], path[i + 1], OurIn(i), OurOut(i)) \in [D -> Nat \X Nat]
    BY <1>2, <1>3, <2>1, <2>2, SwapLeaves
  <2> QED BY <2>3 DEF FrontRunSwap
<1>5. sender' \in [Tokens -> Nat]
  <2>1. path[i] \in Tokens /\ path[i + 1] \in Tokens /\ sender \in [Tokens -> Nat]
    BY <1>1, PathLinked DEF TypeOK
  <2>2. sender[path[i]] - OurIn(i) \in Nat
    BY <1>2, <2>1
  <2> DEFINE a == path[i]  b == path[i + 1]  x == OurIn(i)  y == OurOut(i)
  <2>3. sender' = [sender EXCEPT ![a] = @ - x, ![b] = @ + y]
    BY DEF FrontRunSwap
  <2>4. a \in Tokens /\ b \in Tokens /\ sender[a] - x \in Nat /\ x \in Nat /\ y \in Nat
    BY <1>2, <1>3, <2>1, <2>2
  <2> HIDE DEF a, b, x, y
  <2> QED BY <2>1, <2>3, <2>4
<1>6. todo' \subseteq Steps /\ UNCHANGED <<path, his, isOwner, toaster>>
  BY DEF FrontRunSwap, TypeOK
<1> QED BY <1>4, <1>5, <1>6 DEF TypeOK, Hops

LEMMA BackRunType ==
  ASSUME TypeOK, NEW i \in DOMAIN path, NEW j \in {i - 1, i + 1} \cap DOMAIN path,
         BackRunSwapAll(i, j)
  PROVE  TypeOK'
<1> DEFINE D == {PairOf(path[k], path[k + 1]) : k \in Hops(path)}
           r == ReservesOf(path[i], path[j])
           in == BackIn(i)
           out == GetAmountOut(in, r[1], r[2])
<1>0. DOMAIN path = 1 .. Len(path) /\ Len(path) \in Nat /\ Hops(path) = 1 .. Len(path) - 1
      /\ \A k \in DOMAIN path : path[k] \in Tokens /\ path[k] \in Nat
  BY PathLinked DEF Linked
<1>1. PairOf(path[i], path[j]) \in D
  <2>1. CASE j = i + 1
    BY <1>0, <2>1
  <2>2. CASE j = i - 1
    <3>1. j \in Hops(path) /\ i = j + 1 /\ path[i] \in Nat /\ path[j] \in Nat
      BY <1>0, <2>2
    <3>2. PairOf(path[j], path[i]) \in D
      BY <3>1
    <3> HIDE DEF D
    <3> QED BY <3>1, <3>2, SamePair
  <2> QED BY <2>1, <2>2
<1>2. pairs \in [D -> Nat \X Nat] /\ sender \in [Tokens -> Nat] /\ toaster \in [Tokens -> Nat]
  BY DEF TypeOK
<1>3. r[1] \in Nat /\ r[2] \in Nat
  <2>1. pairs[PairOf(path[i], path[j])] \in Nat \X Nat
    <3> HIDE DEF D
    <3> QED BY <1>1, <1>2
  <2> QED BY <2>1 DEF ReservesOf
<1>4. in \in Nat /\ in <= toaster[path[i]] /\ out # Reverted
      /\ toaster' = [toaster EXCEPT ![path[i]] = @ - in]
      /\ sender' = [sender EXCEPT ![path[j]] = @ + out]
      /\ pairs' = Swapped(path[i], path[j], in, out)
  BY <1>0, <1>2 DEF BackRunSwapAll, Paid, BackIn
<1>5. out \in Nat /\ out < r[2]
  <2>1. in \in Int
    BY <1>4
  <2> HIDE DEF r, in
  <2> QED BY <1>3, <1>4, <2>1, AmountOut
<1>6. pairs' \in [D -> Nat \X Nat]
  <2>1. out <= ReservesOf(path[i], path[j])[2]
    <3> HIDE DEF out
    <3> QED BY <1>3, <1>5
  <2> HIDE DEF D, out, in
  <2> QED BY <1>1, <1>2, <1>4, <1>5, <2>1, SwapLeaves
<1>7. sender' \in [Tokens -> Nat] /\ toaster' \in [Tokens -> Nat]
  <2>1. toaster[path[i]] - in \in Nat
    <3> HIDE DEF in
    <3> QED BY <1>0, <1>2, <1>4
  <2>2. sender[path[j]] + out \in Nat
    <3> HIDE DEF out
    <3> QED BY <1>0, <1>2, <1>5
  <2> HIDE DEF in, out
  <2> QED BY <1>0, <1>2, <1>4, <2>1, <2>2
<1>8. todo' \subseteq Steps /\ UNCHANGED <<path, his, isOwner>>
  BY DEF BackRunSwapAll, TypeOK
<1> HIDE DEF in, out, r
<1> QED BY <1>6, <1>7, <1>8 DEF TypeOK, Hops

LEMMA HisSwapType == ASSUME TypeOK, HisSwap PROVE TypeOK'
<1> DEFINE D == {PairOf(path[k], path[k + 1]) : k \in Hops(path)}
           n == Len(path)
           At(k) == IF k = 1 THEN his.in ELSE PathOut(his.in, SubSeq(path, 1, k))
           Then(k) == PathOut(his.in, SubSeq(path, 1, k + 1))
           Of(q) == CHOOSE k \in 1 .. n - 1 : q = PairOf(path[k], path[k + 1])
<1>1. his.in \in Nat /\ his.out \in Nat /\ pairs \in [D -> Nat \X Nat]
  BY NumbersAssumption DEF TypeOK
<1>2. Linked(path) /\ n \in Nat /\ Hops(path) = 1 .. n - 1 /\ path \in Seq(Nat)
  BY PathLinked DEF Linked
<1>3. n >= 2
  <2>1. PathOut(his.in, path) >= his.out
    BY DEF HisSwap
  <2>2. ~(n < 2)
    BY <1>1, <2>1 DEF PathOut, Reverted
  <2> HIDE DEF n
  <2> QED BY <1>2, <2>2
<1>4. PICK out : /\ Forward(his.in, path, out)
                 /\ \A k \in 2 .. n : PathOut(his.in, SubSeq(path, 1, k)) = out[k]
  BY <1>1, <1>2, <1>3, ForwardAlong
<1>5. out[n] # Reverted
  <2>1. SubSeq(path, 1, n) = path /\ n \in 2 .. n
    BY <1>2, <1>3
  <2>2. PathOut(his.in, path) = out[n]
    BY <1>4, <2>1
  <2>3. PathOut(his.in, path) >= his.out
    BY DEF HisSwap
  <2> QED BY <1>1, <2>2, <2>3 DEF Reverted
<1> HIDE DEF n
<1>6. /\ out \in [1 .. n -> Amount] /\ out[1] = his.in
      /\ \A k \in 1 .. n - 1 : out[k] = Reverted => out[k + 1] = Reverted
      /\ \A k \in 1 .. n - 1 : out[k] # Reverted =>
           out[k + 1] = GetAmountOut(out[k], ReservesOf(path[k], path[k + 1])[1], ReservesOf(path[k], path[k + 1])[2])
  BY <1>4 DEF Forward, n
\* Nothing on the way reverts, or the end would.
<1>7. \A k \in 1 .. n : out[k] # Reverted
  <2> DEFINE T == {j \in 0 .. n - 1 : out[n - j] # Reverted}
  <2>1. n - 1 \in Nat /\ n - 0 = n
    BY <1>2, <1>3
  <2>2. 0 \in T
    BY <1>5, <2>1
  <2>3. \A j \in 0 .. (n - 1) - 1 : j \in T => j + 1 \in T
    <3> SUFFICES ASSUME NEW j \in 0 .. (n - 1) - 1, out[n - j] # Reverted
                 PROVE  j + 1 \in 0 .. n - 1 /\ out[n - (j + 1)] # Reverted
      OBVIOUS
    <3>1. n - (j + 1) \in 1 .. n - 1 /\ (n - (j + 1)) + 1 = n - j /\ j + 1 \in 0 .. n - 1
      BY <1>2, <1>3
    <3> DEFINE k == n - (j + 1)
    <3>2. k \in 1 .. n - 1 /\ out[k + 1] # Reverted
      BY <3>1
    <3> HIDE DEF k
    <3>3. out[k] # Reverted
      BY <1>6, <3>2
    <3> QED BY <3>1, <3>3 DEF k
  <2>4. 0 .. n - 1 \subseteq T
    <3> HIDE DEF T
    <3> QED BY <2>1, <2>2, <2>3, SetInductionTo
  <2> SUFFICES ASSUME NEW k \in 1 .. n PROVE out[k] # Reverted
    OBVIOUS
  <2>5. n - k \in 0 .. n - 1 /\ n - (n - k) = k
    BY <1>2, <1>3
  <2>6. n - k \in T
    <3> HIDE DEF T
    <3> QED BY <2>4, <2>5
  <2> QED BY <2>5, <2>6
<1>8. ASSUME NEW k \in 1 .. n - 1
      PROVE  Swapped(path[k], path[k + 1], At(k), Then(k)) \in [D -> Nat \X Nat]
  <2>1. k \in 1 .. n /\ k + 1 \in 2 .. n /\ k + 1 \in 1 .. n /\ (k # 1 => k \in 2 .. n)
    BY <1>2, <1>3
  <2>2. At(k) = out[k] /\ Then(k) = out[k + 1]
    BY <1>4, <1>6, <2>1
  <2>3. out[k] \in Nat /\ out[k + 1] # Reverted
    BY <1>6, <1>7, <2>1 DEF Amount
  <2>4. ReservesOf(path[k], path[k + 1])[1] \in Nat /\ ReservesOf(path[k], path[k + 1])[2] \in Nat
    BY <1>2, ReservesAlong DEF n
  <2>5. out[k + 1] = GetAmountOut(out[k], ReservesOf(path[k], path[k + 1])[1], ReservesOf(path[k], path[k + 1])[2])
    BY <1>6, <2>3, <1>7, <2>1
  <2>6. out[k + 1] \in Nat /\ out[k + 1] < ReservesOf(path[k], path[k + 1])[2]
    <3>1. out[k] \in Int
      BY <2>3
    <3> QED BY <2>3, <2>4, <2>5, <3>1, AmountOut
  <2>7. PairOf(path[k], path[k + 1]) \in D
    BY <1>2
  <2> HIDE DEF D, At, Then
  <2>8. out[k + 1] <= ReservesOf(path[k], path[k + 1])[2]
    BY <2>4, <2>6
  <2> QED BY <1>1, <2>2, <2>3, <2>6, <2>7, <2>8, SwapLeaves
<1>9. pairs' \in [D -> Nat \X Nat]
  <2>1. pairs' = [q \in DOMAIN pairs |-> Swapped(path[Of(q)], path[Of(q) + 1], At(Of(q)), Then(Of(q)))[q]]
    BY DEF HisSwap, n
  <2>2. DOMAIN pairs = D
    <3> HIDE DEF D
    <3> QED BY <1>1
  <2>3. \A q \in D : Of(q) \in 1 .. n - 1
    BY <1>2
  <2> HIDE DEF D, Of, At, Then
  <2>4. \A q \in D : Swapped(path[Of(q)], path[Of(q) + 1], At(Of(q)), Then(Of(q)))[q] \in Nat \X Nat
    BY <1>8, <2>3
  <2> QED BY <2>1, <2>2, <2>4
<1>10. todo' \subseteq Steps /\ UNCHANGED <<path, his, isOwner, sender, toaster>>
  BY DEF HisSwap, TypeOK
<1> QED BY <1>9, <1>10 DEF TypeOK, Hops

LEMMA ToasterStep == TypeOK /\ [Next]_vars => TypeOK'
<1> SUFFICES ASSUME TypeOK, [Next]_vars PROVE TypeOK'
  OBVIOUS
<1>1. CASE HisSwap
  BY <1>1, HisSwapType
<1>2. ASSUME NEW i \in DOMAIN path, FrontRunSwap(i) PROVE TypeOK'
  BY <1>2, FrontRunType
<1>3. ASSUME NEW i \in DOMAIN path, NEW j \in {i - 1, i + 1} \cap DOMAIN path,
             BackRunSwapAll(i, j)
      PROVE  TypeOK'
  BY <1>3, BackRunType
<1>4. CASE UNCHANGED vars
  BY <1>4 DEF vars, TypeOK, Hops
<1> QED BY <1>1, <1>2, <1>3, <1>4 DEF Next

-----------------------------------------------------------------------------
(* Theorems.                                                               *)

\* No swap pays more than there is: of the sender, of the toaster or of a pair
\* (PancakeToaster.sol, frontRunSwap and backRunSwapAll).
THEOREM NothingOverdrawn == Spec => []TypeOK
BY ToasterInit, ToasterStep, PTL DEF Spec

\* For every reserve and amount the pair accepts what getAmountOut computes,
\* and would refuse one more (PancakeToasterLib.sol, getAmountOut).
THEOREM PairsGiveTheMost == Spec => []MostThePairGives
BY NothingOverdrawn, PairGives, PTL

\* Along paths of any length the input that getAmountIn computes is enough
\* (PancakeToasterLib.sol, getAmountIn).
THEOREM RequiredIsReached == Spec => []RequiredReached
BY NothingOverdrawn, EnoughReached, PTL

\* Of the front run the part that is left when the pair's fee is set aside leaves
\* the other swap what it must get, whatever its three roundings do
\* (PancakeToasterLib.sol, getMaxFrontRunAmountIn).  The pair keeps the fee as well,
\* so of the front run as a whole this is not claimed.
THEOREM LimitIsKept == Spec => []NetLimitKept
BY NothingOverdrawn, LimitKept, PTL

\* Whatever the path and the reserves, there is no front run at either end of
\* the path (PancakeToaster.sol, frontRunSwap).
THEOREM NoFrontRunAtTheEnds == Spec => []OnlyInnerHops
BY NothingOverdrawn, InnerOnly, PTL

=============================================================================
