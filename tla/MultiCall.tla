----------------------------- MODULE MultiCall -----------------------------
(***************************************************************************)
(* Execution of one multicall by the contract                              *)
(* (contracts/lib/multicall/MultiCall.sol, contracts/src/MultiCall.sol)    *)
(* and the reading of its answer in Rust                                   *)
(* (crates/contracts/src/multicall/multicall.rs).                          *)
(*                                                                         *)
(* A group is a multicall of the contract to itself by delegatecall: a     *)
(* stack of frames.  A frame that reverts undoes what happened since it    *)
(* began, and its caller sees a failed call.                               *)
(***************************************************************************)
EXTENDS Naturals, Sequences, FiniteSets, SequencesExt

CONSTANTS
  Programs,      \* multicalls: sequences of calls
  Width, Depth   \* bounds: calls of one group, groups within one another

ASSUME BoundsAssumption == Width \in Nat /\ Depth \in Nat

VARIABLES
  prog,      \* the multicall
  bad,       \* the calls in it that fail when they are made
  sender,    \* who calls, and against which parent block
  stack,     \* the frames, the innermost last
  ret,       \* the answer of the call just made, for the frame above
  effects    \* the calls that took effect

vars == <<prog, bad, sender, stack, ret, effects>>

\* A call: a group has its calls, another call has none.
Kinds == {"group", "call", "create", "balance"}
IsGroup(c) == c.kind = "group"
CallOk(c) ==
  /\ DOMAIN c = {"kind", "may", "calls"} /\ c.kind \in Kinds /\ c.may \in BOOLEAN
  /\ Len(c.calls) \in 0 .. Width /\ DOMAIN c.calls = 1 .. Len(c.calls)
  /\ IsGroup(c) \/ c.calls = <<>>

Group(calls) == [kind |-> "group", may |-> FALSE, calls |-> calls]

\* A place in a call: the indices to follow through the groups.
Places == SeqOf(1 .. Width, Depth)
At(c, r) ==
  LET at[d \in 0 .. Len(r)] == IF d = 0 THEN c ELSE at[d - 1].calls[r[d]] IN at[Len(r)]
Within(c, r) == \A d \in 1 .. Len(r) : r[d] \in DOMAIN At(c, SubSeq(r, 1, d - 1)).calls
LeavesOf(c) == {r \in Places : Within(c, r) /\ ~IsGroup(At(c, r))}

\* Groups nest at most n deep.
FitsIn(c, n) ==
  \A r \in SeqOf(1 .. Width, n) : Within(c, r) =>
    CallOk(At(c, r)) /\ (Len(r) = n => ~IsGroup(At(c, r)))

ASSUME ProgramsAssumption == \A p \in Programs : FitsIn(Group(p), Depth)

Senders == {"owner", "stranger", "uncled"}

-----------------------------------------------------------------------------
(* Frames and answers.                                                     *)

\* A frame: its calls, the one to make next, the bytes of successes, the
\* effects before it.
Frame(calls) ==
  [calls |-> calls, next |-> 1, undo |-> effects,
   bits |-> [b \in 1 .. (Len(calls) + 7) \div 8 |-> {}]]

\* An answer is the calldata a call returns: of a multicall the bytes of
\* successes and the outputs, of a revert the place it blames.
Answer(ok, bits, outs, blame) ==
  [ok |-> ok, bits |-> bits, outs |-> outs, blame |-> blame]
NoAnswer == Answer(FALSE, <<>>, <<>>, <<0>>)

\* `outputs = new bytes[](len)`.  The loop assigns the answer of dispatch to
\* the local `output`, which only points it elsewhere: the outputs that are
\* returned stay as they were allocated.
EmptyOutput == <<>>
Outputs(frame) == [i \in DOMAIN frame.calls |-> EmptyOutput]

Top == stack[Len(stack)]
Below == SubSeq(stack, 1, Len(stack) - 1)
Current == Top.calls[Top.next]
Path == [d \in DOMAIN stack |-> stack[d].next]
Working == stack # <<>> /\ ret = NoAnswer
Running == Working /\ Top.next <= Len(Top.calls)

\* `bytes1(0x8) >> (i & 7)` of the i-th call, counted from 0: the bit of value
\* 8, 4, 2, 1, and none from the fifth call of a byte on.
BitOf(i) == IF i % 8 <= 3 THEN {3 - (i % 8)} ELSE {}

\* The frame after the answer of its current call.
Mark(frame) ==
  [frame.bits EXCEPT ![(frame.next - 1) \div 8 + 1] = @ \cup BitOf(frame.next - 1)]

Took_Skips(frame, a) ==
  [frame EXCEPT !.next = IF a.ok THEN @ + 1 ELSE @ + 2,
                !.bits = IF a.ok THEN Mark(frame) ELSE @]
Took(frame, a) ==
  [frame EXCEPT !.next = @ + 1,
                !.bits = IF a.ok THEN Mark(frame) ELSE @]

-----------------------------------------------------------------------------

Whole == Group(prog)

\* Reading a balance cannot fail.
Init ==
  /\ prog \in Programs
  /\ bad \in SUBSET {p \in LeavesOf(Whole) : At(Whole, p).kind # "balance"}
  /\ sender \in Senders
  /\ stack = <<>> /\ ret = NoAnswer /\ effects = {}

\* The modifiers `onlyOwner` and `ensureParentBlock`.
Admitted(s) == s = "owner"

Enter ==
  /\ stack = <<>> /\ ret = NoAnswer /\ Admitted(sender)
  /\ stack' = <<Frame(prog)>>
  /\ UNCHANGED <<prog, bad, sender, ret, effects>>

Refuse ==
  /\ stack = <<>> /\ ret = NoAnswer /\ ~Admitted(sender)
  /\ ret' = Answer(FALSE, <<>>, <<>>, <<>>)
  /\ UNCHANGED <<prog, bad, sender, stack, effects>>

\* dispatch: an external call, a creation or a balance.
Dispatch ==
  /\ Running /\ ~IsGroup(Current)
  /\ ret' = Answer(Path \notin bad, <<>>, <<>>, <<>>)
  /\ effects' = IF Path \in bad THEN effects ELSE effects \cup {Path}
  /\ UNCHANGED <<prog, bad, sender, stack>>

\* dispatch: `address(this).delegatecall`, the sender remains the owner.
DispatchGroup ==
  /\ Running /\ IsGroup(Current)
  /\ stack' = Append(stack, Frame(Current.calls))
  /\ UNCHANGED <<prog, bad, sender, ret, effects>>

\* The multicall of the innermost frame returns.
Return ==
  /\ Working /\ Top.next > Len(Top.calls)
  /\ ret' = Answer(TRUE, Top.bits, Outputs(Top), <<>>)
  /\ stack' = Below
  /\ UNCHANGED <<prog, bad, sender, effects>>

\* The call succeeded, or was allowed to fail.
MayContinue == ret.ok \/ Current.may

Continue ==
  /\ stack # <<>> /\ ret # NoAnswer /\ MayContinue
  /\ stack' = Append(Below, Took(Top, ret))
  /\ ret' = NoAnswer
  /\ UNCHANGED <<prog, bad, sender, effects>>

\* `revert Reverted(i, output)`: everything since the frame began is undone.
Undone_Nothing == effects
Undone == Top.undo

Blame_Inner(a) == a.blame
Blame(a) == <<Top.next>> \o a.blame

Revert ==
  /\ stack # <<>> /\ ret # NoAnswer /\ ~MayContinue
  /\ ret' = Answer(FALSE, <<>>, <<>>, Blame(ret))
  /\ effects' = Undone
  /\ stack' = Below
  /\ UNCHANGED <<prog, bad, sender>>

Next ==
  Enter \/ Refuse \/ Dispatch \/ DispatchGroup \/ Return \/ Continue \/ Revert

Spec == Init /\ [][Next]_vars

Done == stack = <<>> /\ ret # NoAnswer

-----------------------------------------------------------------------------
(* The answer in Rust.                                                     *)

AbiError == "abi error"
LengthMismatch == "length mismatch"
InvalidLength == "invalid input/output length"
IndexTooBig == "index too big"
WrongCommand == "wrong command"
MustNotFail == "call must not fail"

\* `decode_ok_raw` asks for as many bits as outputs.
LengthsAgree(a) == 8 * Len(a.bits) = Len(a.outs)

\* Lsb0: the i-th result, counted from 0, has the bit of value 2^(i % 8).
SaysOk(a, i) == (i - 1) % 8 \in a.bits[(i - 1) \div 8 + 1]

\* Outputs by the type of the call, here always of an empty output: a contract
\* call takes any bytes, a creation is an address, a balance and a group are
\* read as ABI values.
Created(output) == IF output = EmptyOutput THEN InvalidLength ELSE "created"
DecodeOk(c, output) ==
  CASE c.kind = "call"   -> "called"
    [] c.kind = "create" -> Created(output)
    [] OTHER             -> IF output = EmptyOutput THEN AbiError ELSE c.kind

\* A result that says failure: a `must` of a tuple panics.
DecodeFailed(c, output) ==
  CASE c.kind = "balance"                      -> WrongCommand
    [] IsGroup(c) /\ output = EmptyOutput      -> AbiError
    [] ~c.may                                  -> MustNotFail
    [] OTHER                                   -> "reverted"

Results(a) ==
  IF ~LengthsAgree(a) THEN <<LengthMismatch>>
  ELSE [i \in DOMAIN prog |-> IF SaysOk(a, i) THEN DecodeOk(prog[i], a.outs[i])
                                            ELSE DecodeFailed(prog[i], a.outs[i])]

\* `decode_reverted`: the index picks the type that reads the data of the
\* revert; of a group that is the revert of the multicall in it.
DecodeReverted(calls, blame) ==
  LET call(d) == At(Group(calls), SubSeq(blame, 1, d))
      read[d \in 0 .. Len(blame)] ==
        IF d = Len(blame) THEN AbiError
        ELSE IF blame[d + 1] \notin DOMAIN call(d).calls THEN IndexTooBig
        ELSE IF IsGroup(call(d + 1)) THEN read[d + 1]
        ELSE IF call(d + 1).kind = "balance" THEN WrongCommand
        ELSE call(d + 1).kind
  IN  read[0]

\* `DynTryCall::reduce`: a group of one call becomes that call.
Reduce_KeepMark(c) == c.calls[1]
Reduce(c) == [c.calls[1] EXCEPT !.may = @ \/ c.may]

-----------------------------------------------------------------------------
(* What a multicall means.                                                 *)

\* The call c at place p fails if a call in it does and all on the way to that
\* one must not.
Fails(c, p) ==
  \E r \in LeavesOf(c) : p \o r \in bad /\ \A d \in 1 .. Len(r) : ~At(c, SubSeq(r, 1, d)).may

\* What takes effect: the calls in c, unless they or something around them fails.
Meaning(c, p) ==
  {p \o r : r \in {s \in LeavesOf(c) : \A d \in 0 .. Len(s) :
                     ~Fails(At(c, SubSeq(s, 1, d)), p \o SubSeq(s, 1, d))}}

\* The multicall around the call reverts because of it.
Stops(c, p) == ~c.may /\ Fails(c, p)

-----------------------------------------------------------------------------
(* Properties.                                                             *)

\* The frames are nested groups of the program, each at one of its calls or
\* behind the last.
TypeOK ==
  /\ FitsIn(Whole, Depth) /\ sender \in Senders
  /\ \A d \in DOMAIN stack :
       /\ stack[d].next \in 1 .. Len(stack[d].calls) + 1
       /\ d < Len(stack) => stack[d].calls[stack[d].next].calls = stack[d + 1].calls
  /\ effects \subseteq LeavesOf(Whole)

\* Executing frame by frame with undo has the effects of the multicall's
\* meaning: a group happens as a whole or not at all, a call that may fail
\* stops nothing, and only the owner has any effect.
ExecutesMeaning ==
  Done => /\ effects = IF sender = "owner" THEN Meaning(Whole, <<>>) ELSE {}
          /\ ret.ok <=> sender = "owner" /\ ~Fails(Whole, <<>>)

\* A revert blames the first failing call that must not fail, through every
\* group on the way, and Rust reads the revert as one of that kind of call: no
\* index is beyond the calls that were sent, no type meets data of another.
BlamesTheCulprit ==
  Done /\ ~ret.ok /\ sender = "owner" =>
    /\ ret.blame \in bad
    /\ \A d \in 1 .. Len(ret.blame) :
         LET around == SubSeq(ret.blame, 1, d - 1) IN
         /\ ~At(Whole, SubSeq(ret.blame, 1, d)).may
         /\ \A i \in 1 .. ret.blame[d] - 1 :
              ~Stops(At(Whole, Append(around, i)), Append(around, i))
    /\ DecodeReverted(prog, ret.blame) = At(Whole, ret.blame).kind

\* Replacing a group of one call by that call changes neither what happens
\* nor whether the multicall around it reverts.
ReduceKeepsMeaning ==
  \A i \in DOMAIN prog : Len(prog[i].calls) = 1 =>
    /\ Meaning(Reduce(prog[i]), <<i, 1>>) = Meaning(prog[i], <<i>>)
    /\ Stops(Reduce(prog[i]), <<i, 1>>) <=> Stops(prog[i], <<i>>)

\* `panic!("{}", MustNotFail)` (calls.rs): an answer that Rust decodes never
\* reports the failure of a call that must not fail.
MustNeverFails ==
  Done /\ ret.ok => \A i \in DOMAIN Results(ret) : Results(ret)[i] # MustNotFail

\* "invalid input/output length" (errors.rs) is not said of an output that the
\* contract returned for a call of the same type.
OutputsAccepted ==
  Done /\ ret.ok => \A i \in DOMAIN Results(ret) : Results(ret)[i] # InvalidLength

=============================================================================
