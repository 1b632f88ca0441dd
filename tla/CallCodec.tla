----------------------------- MODULE CallCodec -----------------------------
(***************************************************************************)
(* One command of a multicall on its way from the Rust codec               *)
(* (crates/contracts/src/multicall/calls.rs) to the contract               *)
(* (contracts/lib/multicall/MultiCall.sol), and back through the Rust      *)
(* decoder.  Bytes are modelled one by one, with a small base and short    *)
(* words: a word is 32 bytes and an address 20 in the code.                *)
(***************************************************************************)
EXTENDS Naturals, Sequences, SequencesExt

CONSTANTS
  Base,       \* values of a byte (256)
  WordLen,    \* bytes of a U256 (32)
  AddrLen,    \* bytes of an address (20)
  MaxData     \* bound: bytes of calldata or bytecode

ASSUME WidthAssumption ==
  /\ Base \in Nat \ {0, 1} /\ WordLen \in Nat \ {0} /\ AddrLen \in Nat \ {0}
  /\ AddrLen < WordLen /\ MaxData \in Nat

VARIABLES
  call,      \* the call the program wants to make, and whether it may fail
  wire,      \* its command byte and input, or NoWire
  reading    \* what the reader of the command made of it, or NoReading

vars == <<call, wire, reading>>

Power[k \in 0 .. WordLen] == IF k = 0 THEN 1 ELSE Base * Power[k - 1]

Byte == 0 .. Base - 1
Words == 0 .. Power[WordLen] - 1
Addrs == [1 .. AddrLen -> Byte]
Data == SeqOf(Byte, MaxData)
NoAddr == <<>>

Call(kind, target, value, salt, data) ==
  [kind |-> kind, target |-> target, value |-> value, salt |-> salt, data |-> data]

\* A transfer is a call without calldata.
ContractCalls == {Call("call", t, v, 0, d) : t \in Addrs, v \in Words, d \in Data}
Balances == {Call(k, NoAddr, 0, 0, <<>>) : k \in {"balanceOfThis", "balanceOfSender"}}
            \cup {Call("balanceOf", t, 0, 0, <<>>) : t \in Addrs}
Creates == {Call("create", NoAddr, v, 0, d) : v \in Words, d \in Data}
Creates2 == {Call("create2", NoAddr, v, s, d) : v \in Words, s \in Words, d \in Data}
AllCalls == ContractCalls \cup Balances \cup Creates \cup Creates2

-----------------------------------------------------------------------------
(* Encoding.                                                               *)

AllowFailure == 128

\* Commands by name; the group, command 0, carries a whole multicall.
Cmd == [call |-> 1, callValue |-> 2, balanceOfThis |-> 3, balanceOfSender |-> 4,
        balanceOf |-> 5, create |-> 6, createValue |-> 7, create2 |-> 8, create2Value |-> 9]

CommandOf(c) ==
  IF c.value = 0 THEN Cmd[c.kind]
  ELSE CASE c.kind = "call" -> Cmd.callValue
         [] c.kind = "create" -> Cmd.createValue
         [] c.kind = "create2" -> Cmd.create2Value

BigEndian(v, n) ==
  LET rest[i \in 0 .. n] == IF i = 0 THEN v ELSE rest[i - 1] \div Base
  IN  [i \in 1 .. n |-> rest[n - i] % Base]
Number(s) ==
  LET value[i \in 0 .. Len(s)] == IF i = 0 THEN 0 ELSE value[i - 1] * Base + s[i]
  IN  value[Len(s)]

WordBytes(v) == BigEndian(v, WordLen)
ValueBytes(c) == IF c.value = 0 THEN <<>> ELSE WordBytes(c.value)
SaltBytes(c) == IF c.kind = "create2" THEN WordBytes(c.salt) ELSE <<>>

InputOf_SaltFirst(c) == SaltBytes(c) \o ValueBytes(c) \o c.target \o c.data
InputOf(c) == ValueBytes(c) \o SaltBytes(c) \o c.target \o c.data

CommandByte(c, may) == IF may THEN CommandOf(c) + AllowFailure ELSE CommandOf(c)

-----------------------------------------------------------------------------
(* Decoding in Rust.                                                       *)

Error(message) == Call(message, NoAddr, 0, 0, <<>>)
InvalidLength == Error("invalid input/output length")
MustNotFail == Error("call must not fail")

\* `try_read_from` converts the rest of the buffer into an array of n bytes,
\* which succeeds only when exactly n bytes are left.
CanRead_Prefix(input, n) == Len(input) >= n
CanRead(input, n) == Len(input) = n
Rest(input, n) == SubSeq(input, n + 1, Len(input))

\* The readers return the call, or the error.
ReadCall(value, input) ==
  IF CanRead(input, AddrLen)
    THEN Call("call", SubSeq(input, 1, AddrLen), value, 0, Rest(input, AddrLen))
    ELSE InvalidLength

ReadCallValue(input) ==
  IF CanRead(input, WordLen)
    THEN ReadCall(Number(SubSeq(input, 1, WordLen)), Rest(input, WordLen))
    ELSE InvalidLength

ReadBalanceOf(input) ==
  IF CanRead(input, AddrLen)
    THEN Call("balanceOf", SubSeq(input, 1, AddrLen), 0, 0, <<>>)
    ELSE InvalidLength

ReadCreateValue(input) ==
  IF CanRead(input, WordLen)
    THEN Call("create", NoAddr, Number(SubSeq(input, 1, WordLen)), 0, Rest(input, WordLen))
    ELSE InvalidLength

\* The value is read only when the command is CreateValue, which it never is.
ReadCreate2(input) ==
  IF CanRead(input, WordLen)
    THEN Call("create2", NoAddr, 0, Number(SubSeq(input, 1, WordLen)), Rest(input, WordLen))
    ELSE InvalidLength

Decoded(cmd, input) ==
  CASE cmd = Cmd.call            -> ReadCall(0, input)
    [] cmd = Cmd.callValue       -> ReadCallValue(input)
    [] cmd = Cmd.balanceOfThis   -> Call("balanceOfThis", NoAddr, 0, 0, <<>>)
    [] cmd = Cmd.balanceOfSender -> Call("balanceOfSender", NoAddr, 0, 0, <<>>)
    [] cmd = Cmd.balanceOf       -> ReadBalanceOf(input)
    [] cmd = Cmd.create          -> Call("create", NoAddr, 0, 0, input)
    [] cmd = Cmd.createValue     -> ReadCreateValue(input)
    [] cmd \in {Cmd.create2, Cmd.create2Value} -> ReadCreate2(input)

MayFail(byte) == byte >= AllowFailure
CommandIn(byte) == byte % AllowFailure

\* What decodes a command: a list of calls, or a tuple that expects a MustCall
\* or a MaybeCall at its place.
Readers == {"list", "must", "maybe"}

\* MustCall::from_dyn refuses a call that is not marked, MaybeCall::from_dyn
\* takes any.
Refused(reader, may) == reader = "must" /\ ~may

\* A list keeps the mark of the command.  from_dyn drops it: whether the call
\* may fail is then what its wrapper says.
MarkRead(reader, may) ==
  CASE reader = "list"  -> may
    [] reader = "must"  -> FALSE
    [] reader = "maybe" -> TRUE

-----------------------------------------------------------------------------
(* Dispatch in the contract.                                               *)

\* Solidity takes a prefix as it is; slicing beyond the end reverts.
DispatchValue(cmd, input) ==
  IF cmd \in {Cmd.callValue, Cmd.createValue, Cmd.create2Value}
    THEN <<Number(SubSeq(input, 1, WordLen)), Rest(input, WordLen)>>
    ELSE <<0, input>>

Dispatched(cmd, input) ==
  LET value == DispatchValue(cmd, input)[1]
      rest  == DispatchValue(cmd, input)[2]
  IN CASE cmd = Cmd.balanceOfThis   -> Call("balanceOfThis", NoAddr, 0, 0, <<>>)
       [] cmd = Cmd.balanceOfSender -> Call("balanceOfSender", NoAddr, 0, 0, <<>>)
       [] cmd = Cmd.balanceOf       -> Call("balanceOf", SubSeq(input, 1, AddrLen), 0, 0, <<>>)
       [] cmd \in {Cmd.call, Cmd.callValue} ->
            Call("call", SubSeq(rest, 1, AddrLen), value, 0, Rest(rest, AddrLen))
       [] cmd \in {Cmd.create, Cmd.createValue} -> Call("create", NoAddr, value, 0, rest)
       [] OTHER -> Call("create2", NoAddr, value, Number(SubSeq(rest, 1, WordLen)),
                        Rest(rest, WordLen))

-----------------------------------------------------------------------------

NoWire == [byte |-> 0, input |-> <<>>]
NoReading == [by |-> "nobody", may |-> FALSE, got |-> Error("nothing read yet")]

Init ==
  /\ call \in [what : AllCalls, may : BOOLEAN]
  /\ wire = NoWire
  /\ reading = NoReading

Encode ==
  /\ wire = NoWire
  /\ wire' = [byte |-> CommandByte(call.what, call.may), input |-> InputOf(call.what)]
  /\ UNCHANGED <<call, reading>>

\* The contract executes the command.
Dispatch ==
  /\ wire # NoWire /\ reading = NoReading
  /\ reading' = [by |-> "contract", may |-> MayFail(wire.byte),
                 got |-> Dispatched(CommandIn(wire.byte), wire.input)]
  /\ UNCHANGED <<call, wire>>

\* The Rust side decodes it.
Decode(reader) ==
  /\ wire # NoWire /\ reading = NoReading
  /\ reading' =
       LET may == MayFail(wire.byte)
           got == Decoded(CommandIn(wire.byte), wire.input)
       IN  [by |-> reader, may |-> MarkRead(reader, may),
            got |-> IF got # InvalidLength /\ Refused(reader, may) THEN MustNotFail ELSE got]
  /\ UNCHANGED <<call, wire>>

Next == Encode \/ Dispatch \/ \E reader \in Readers : Decode(reader)

Spec == Init /\ [][Next]_vars

-----------------------------------------------------------------------------
(* Properties.                                                             *)

\* The contract executes exactly the call the Rust side encoded, with its
\* mark, whatever its value, salt and data.
ContractAgrees ==
  reading.by = "contract" => reading.got = call.what /\ reading.may = call.may

\* The Rust decoder may refuse what the encoder wrote, but it never takes it
\* for another call, and a list of calls keeps its mark.  Of the mark of a call
\* in a tuple nothing is said: the type of the tuple takes its place.
NeverMisread ==
  reading.by \in Readers /\ reading.got \notin {InvalidLength, MustNotFail} =>
    /\ reading.got = call.what
    /\ reading.by = "list" => reading.may = call.may

\* "invalid input/output length" (errors.rs) is not said of an input that the
\* encoder of the same command wrote.
OwnInputsAccepted == reading.got # InvalidLength

\* "call must not fail" (errors.rs) is said of the calls that may fail, where
\* one is expected that must not, and of no others.
MustMarkRespected ==
  reading.by = "must" /\ reading.got # InvalidLength =>
    (reading.got = MustNotFail <=> call.may)

=============================================================================
