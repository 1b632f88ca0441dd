------------------------------- MODULE Toaster -------------------------------
(***************************************************************************)
(* Swaps of the toaster contract (contracts/src/PancakeToaster.sol) and    *)
(* its integer arithmetic                                                  *)
(* (contracts/lib/pancake_toaster/PancakeToasterLib.sol).  Arithmetic is   *)
(* checked: an overflow, a negative difference or a division by zero       *)
(* reverts the transaction, which then changes nothing.                    *)
(*                                                                         *)
(* The pairs, the tokens and the router that makes the other swap are      *)
(* external.  Tokens are numbers, in the order of their addresses.         *)
(***************************************************************************)
EXTENDS Integers, Sequences, FiniteSetsExt

CONSTANTS
  BIP, FEE,      \* what is kept of an input: FEE of BIP parts (9975 of 10000)
  MaxWord,       \* largest number of a word (2^256 - 1)
  Paths,         \* paths of tokens the other swap may take
  Reserves,      \* reserves a pair starts with
  Amounts        \* amounts of the other swap, and balances of the sender

ASSUME FeeAssumption == FEE \in Nat /\ BIP \in Nat /\ 0 < FEE /\ FEE <= BIP
ASSUME NumbersAssumption ==
  Paths \subseteq Seq(Nat) /\ Reserves \subseteq Nat /\ Amounts \subseteq Nat /\ MaxWord \in Nat

VARIABLES
  path, his,     \* the other swap: its path, what it pays and whether it can,
                 \* what it must get
  isOwner,       \* the sender owns the toaster
  pairs,         \* reserves of every pair, by the order of its tokens
  sender,        \* balances of who calls the toaster, by token
  toaster,       \* balances of the toaster itself, by token
  todo           \* bound: each of the three steps happens at most once

vars == <<path, his, isOwner, pairs, sender, toaster, todo>>

Tokens == UNION {{p[i] : i \in DOMAIN p} : p \in Paths}
Steps == {"front", "his", "back"}

-----------------------------------------------------------------------------
(* PancakeToasterLib.                                                      *)

Reverted == -1
Word(n) == n <= MaxWord

GetAmountOut_Up(a, rIn, rOut) ==
  IF a > 0 THEN (rOut * a * FEE) \div (rIn * BIP + a * FEE) + 1 ELSE Reverted
GetAmountOut(a, rIn, rOut) ==
  IF a > 0 /\ rIn > 0 /\ rOut > 0 /\ Word(rOut * a * FEE) /\ Word(rIn * BIP + a * FEE)
    THEN (rOut * a * FEE) \div (rIn * BIP + a * FEE)
    ELSE Reverted

GetAmountIn_Down(b, rIn, rOut) ==
  IF b > 0 /\ b < rOut THEN (rIn * b * BIP) \div ((rOut - b) * FEE) ELSE Reverted
GetAmountIn(b, rIn, rOut) ==
  IF b > 0 /\ b < rOut /\ rIn > 0 /\ Word(rIn * b * BIP) /\ Word((rOut - b) * FEE)
    THEN (rIn * b * BIP) \div ((rOut - b) * FEE) + 1
    ELSE Reverted

\* FixedPointMathLib.sqrt rounds down.
Sqrt(n) == CHOOSE r \in 0 .. n : r * r <= n /\ n < (r + 1) * (r + 1)

\* The input after which an input `a` still gets `b`.
GetMaxAmountIn_Gross(a, b, rIn, rOut) ==
  IF b = 0 THEN Reverted
  ELSE LET n == FEE * a * ((4 * BIP * rIn * rOut) \div b + FEE * a)
           d == Sqrt(n) - 2 * BIP * rIn
       IN  IF d >= 0 THEN d \div (2 * FEE) ELSE Reverted
GetMaxAmountIn(a, b, rIn, rOut) ==
  IF b = 0 \/ ~Word(4 * BIP * rIn * rOut) THEN Reverted
  ELSE LET n == FEE * a * ((4 * BIP * rIn * rOut) \div b + FEE * a)
           d == Sqrt(n) - 2 * BIP * rIn - FEE * a
       IN  IF Word(n) /\ d >= 0 THEN d \div (2 * FEE) ELSE Reverted

\* sortTokens, pairFor: the pair of two tokens, and whether they are inverted.
PairOf(a, b) == IF a < b THEN <<a, b>> ELSE <<b, a>>
IsInverted(a, b) == b < a
ReservesOf(a, b) ==
  LET r == pairs[PairOf(a, b)] IN IF IsInverted(a, b) THEN <<r[2], r[1]>> ELSE r

\* The amounts along a path, from what goes in or from what comes out.
PathOut(a, p) ==
  LET out[i \in DOMAIN p] ==
        IF i = 1 THEN a
        ELSE IF out[i - 1] = Reverted THEN Reverted
        ELSE LET r == ReservesOf(p[i - 1], p[i]) IN GetAmountOut(out[i - 1], r[1], r[2])
  IN  IF Len(p) < 2 THEN Reverted ELSE out[Len(p)]

PathIn(b, p) ==
  LET in[i \in DOMAIN p] ==
        IF i = Len(p) THEN b
        ELSE IF in[i + 1] = Reverted THEN Reverted
        ELSE LET r == ReservesOf(p[i], p[i + 1]) IN GetAmountIn(in[i + 1], r[1], r[2])
  IN  IF Len(p) < 2 THEN Reverted ELSE in[1]

-----------------------------------------------------------------------------
(* A pair's swap.                                                          *)

\* The pair after it received `in` of a and gave `out` of b.
Swapped(a, b, in, out) ==
  LET r == ReservesOf(a, b)
  IN  [pairs EXCEPT ![PairOf(a, b)] =
         IF IsInverted(a, b) THEN <<r[2] - out, r[1] + in>> ELSE <<r[1] + in, r[2] - out>>]

\* The pair keeps the fee of the input and must not lose by the rest.
PairTakes(rIn, rOut, in, out) ==
  0 < out /\ out < rOut /\ (rIn * BIP + in * FEE) * (rOut - out) >= rIn * BIP * rOut

-----------------------------------------------------------------------------
Init ==
  /\ path \in Paths
  /\ his \in [in : Amounts, has : BOOLEAN, out : Amounts] /\ isOwner \in BOOLEAN
  /\ \E r \in [{i \in DOMAIN path : i < Len(path)} -> Reserves \X Reserves] :
       pairs = [q \in {PairOf(path[i], path[i + 1]) : i \in DOMAIN r} |->
                  r[CHOOSE i \in DOMAIN r : q = PairOf(path[i], path[i + 1])]]
  /\ \E n \in Amounts : sender = [t \in Tokens |-> n]
  /\ \E n \in Amounts \cup {0} : toaster = [t \in Tokens |-> n]
  /\ todo = Steps

\* frontRunSwap: what the other swap has at the i-th hop.  On the first hop
\* its input, on the last its output stays 0.
InAt_Given(i) == IF i > 1 THEN PathOut(his.in, SubSeq(path, 1, i)) ELSE his.in
InAt(i) == IF i > 1 THEN PathOut(his.in, SubSeq(path, 1, i)) ELSE 0
OutAt(i) == IF i + 1 < Len(path) THEN PathIn(his.out, SubSeq(path, i + 1, Len(path))) ELSE 0

\* frontRunSingleSwap: as much as allowed, or as there is.
OurIn(i) ==
  LET r == ReservesOf(path[i], path[i + 1])
      most == IF Reverted \in {InAt(i), OutAt(i)} THEN Reverted
              ELSE GetMaxAmountIn(InAt(i), OutAt(i), r[1], r[2])
  IN  Min({most, sender[path[i]]})
OurOut(i) ==
  LET r == ReservesOf(path[i], path[i + 1]) IN GetAmountOut(OurIn(i), r[1], r[2])

FrontRunSwap(i) ==
  /\ "front" \in todo /\ i < Len(path) /\ his.has /\ sender[path[i]] > 0
  /\ OurIn(i) # Reverted /\ OurOut(i) > 0
  /\ LET r == ReservesOf(path[i], path[i + 1]) IN PairTakes(r[1], r[2], OurIn(i), OurOut(i))
  /\ pairs' = Swapped(path[i], path[i + 1], OurIn(i), OurOut(i))
  /\ sender' = [sender EXCEPT ![path[i]] = @ - OurIn(i), ![path[i + 1]] = @ + OurOut(i)]
  /\ todo' = todo \ {"front"}
  /\ UNCHANGED <<path, his, isOwner, toaster>>

\* backRunSwapAll, from path[i] to path[j]: the balance is read of the sender, the
\* transfer made by the toaster.
BackIn(i) == sender[path[i]]
Paid_Unchecked(t, n) == toaster' = [toaster EXCEPT ![t] = @ - n]
Paid(t, n) == n <= toaster[t] /\ toaster' = [toaster EXCEPT ![t] = @ - n]

BackRunSwapAll(i, j) ==
  LET r == ReservesOf(path[i], path[j])
      out == GetAmountOut(BackIn(i), r[1], r[2])
  IN  /\ "back" \in todo /\ isOwner /\ BackIn(i) > 0 /\ out # Reverted
      /\ PairTakes(r[1], r[2], BackIn(i), out)
      /\ Paid(path[i], BackIn(i))
      /\ pairs' = Swapped(path[i], path[j], BackIn(i), out)
      /\ sender' = [sender EXCEPT ![path[j]] = @ + out]
      /\ todo' = todo \ {"back"}
      /\ UNCHANGED <<path, his, isOwner>>

\* The other swap, by a router that computes amounts in the same way.
HisSwap ==
  /\ "his" \in todo /\ his.has /\ PathOut(his.in, path) >= his.out
  /\ pairs' = [q \in DOMAIN pairs |->
       LET i == CHOOSE k \in 1 .. Len(path) - 1 : q = PairOf(path[k], path[k + 1])
           in == IF i = 1 THEN his.in ELSE PathOut(his.in, SubSeq(path, 1, i))
       IN  Swapped(path[i], path[i + 1], in, PathOut(his.in, SubSeq(path, 1, i + 1)))[q]]
  /\ todo' = todo \ {"his"}
  /\ UNCHANGED <<path, his, isOwner, sender, toaster>>

Next ==
  \/ HisSwap
  \/ \E i \in DOMAIN path :
       \/ FrontRunSwap(i)
       \/ \E j \in {i - 1, i + 1} \cap DOMAIN path : BackRunSwapAll(i, j)

Spec == Init /\ [][Next]_vars

-----------------------------------------------------------------------------
(* Properties.                                                             *)

\* The hops of a path, and the reserves of a hop.
Hops(p) == {i \in DOMAIN p : i < Len(p)}
Hop(i) == ReservesOf(path[i], path[i + 1])

\* Type correctness: no balance and no reserve is ever negative.
TypeOK ==
  /\ path \in Paths /\ todo \subseteq Steps /\ isOwner \in BOOLEAN
  /\ his \in [in : Amounts, has : BOOLEAN, out : Amounts]
  /\ pairs \in [{PairOf(path[i], path[i + 1]) : i \in Hops(path)} -> Nat \X Nat]
  /\ sender \in [Tokens -> Nat] /\ toaster \in [Tokens -> Nat]

\* getAmountOut asks for the most that the pair gives: its check passes, and
\* one more would fail it.
MostThePairGives ==
  \A i \in Hops(path) : \A a \in {his.in} \cup {OurIn(k) : k \in Hops(path)} :
    LET out == GetAmountOut(a, Hop(i)[1], Hop(i)[2]) IN
    out # Reverted => /\ out > 0 => PairTakes(Hop(i)[1], Hop(i)[2], a, out)
                      /\ ~PairTakes(Hop(i)[1], Hop(i)[2], a, out + 1)

\* getAmountIn, hop by hop backwards, asks for enough: the rounding of every
\* hop on the way forward does not eat the amount that is wanted.
RequiredReached ==
  LET in == PathIn(his.out, path) IN
  in # Reverted /\ PathOut(in, path) # Reverted => PathOut(in, path) >= his.out

\* getMaxFrontRunAmountIn rounds to the safe side of the limit it solves for:
\* with the fee of our own input set aside, the other input still gets what it
\* must.  (The pair keeps that fee, so the real limit is a little lower.)
NetLimitKept ==
  \A i \in Hops(path) :
    LET a == InAt(i)  b == OutAt(i)
        x == GetMaxAmountIn(a, b, Hop(i)[1], Hop(i)[2])
        in == Hop(i)[1] * BIP + FEE * x
    IN  a > 0 /\ b > 0 /\ x # Reverted =>
          Hop(i)[2] * Hop(i)[1] * BIP * FEE * a >= b * in * (in + FEE * a)

\* frontRunSwap reverts on the first hop of a path and on the last one: the
\* output 0 it has there underflows the square root's difference, or divides.
OnlyInnerHops ==
  \A i \in Hops(path) :
    OurIn(i) # Reverted /\ OurOut(i) > 0 => 1 < i /\ i + 1 < Len(path)

=============================================================================
