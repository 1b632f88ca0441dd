---------------------------- MODULE PendingBlock ----------------------------
(***************************************************************************)
(* How the node's answers become the pending block the monitors see        *)
(* (crates/engine/src/block.rs, make_pending_block, and transactions.rs):  *)
(* every transaction is converted, and takes its own logs off the front of *)
(* the logs, which are one list for the whole block.                       *)
(*                                                                         *)
(* An optional value is a set with at most one element.  A transaction is  *)
(* known by its fee fields and, when it is a swap of the router, by the    *)
(* path of its tokens; a log by the number of its transaction, 0 standing  *)
(* for a transaction that is not in the block.                             *)
(***************************************************************************)
EXTENDS Naturals, Sequences, FiniteSets, SequencesExt

CONSTANTS
  RawTxs,        \* transactions as the node describes them
  Answers,       \* what the node may answer: transactions, and one list of logs
  MaxBlockTxs    \* bound: transactions in the pending block

Some(x) == {x}
None == {}
The(option) == CHOOSE x \in option : TRUE
OrElse(option, x) == IF option = None THEN x ELSE The(option)

IsOption(o) == o \subseteq Nat /\ \A x, y \in o : x = y

ASSUME BlockAssumption == MaxBlockTxs \in Nat
ASSUME RawTxsAssumption ==
  \A r \in RawTxs : /\ \A o \in {r.type, r.gasPrice, r.tip, r.cap} : IsOption(o)
                    /\ r.list \in BOOLEAN
ASSUME AnswersAssumption ==
  /\ Answers \subseteq [txs : Seq(RawTxs), logs : Seq(0 .. MaxBlockTxs)]
  /\ \A a \in Answers : /\ Len(a.txs) <= MaxBlockTxs
                        /\ \A k \in DOMAIN a.logs : a.logs[k] <= Len(a.txs)

-----------------------------------------------------------------------------
(* Fees, and the two conversions of a transaction.                         *)

IsDynamic(r) == r.type = Some(2)

Converts(r) ==
  IF IsDynamic(r) THEN r.tip # None /\ r.cap # None ELSE r.gasPrice # None

\* The program's form: the fees, whether there is an access list, and the path of
\* the tokens its input names.  The other fields are copied.
Transaction(fees, list, path) == [fees |-> fees, list |-> list, path |-> path]

\* TryFrom of the node's transaction.  A type the code does not know is legacy.
Convert(r) ==
  Transaction(IF IsDynamic(r) THEN [tip |-> The(r.tip), cap |-> The(r.cap)]
                              ELSE [gasPrice |-> The(r.gasPrice)],
              r.list, r.path)

IsLegacy(t) == "gasPrice" \in DOMAIN t.fees

PriorityFee(t) == IF IsLegacy(t) THEN t.fees.gasPrice ELSE t.fees.tip

\* From, back to the node's form; the gas price of a dynamic transaction, and
\* a legacy type that was written out, are not restored.
Back_Untyped(t) ==
  [type |-> None, list |-> t.list, path |-> t.path,
   gasPrice |-> IF IsLegacy(t) THEN Some(t.fees.gasPrice) ELSE None,
   tip |-> IF IsLegacy(t) THEN None ELSE Some(t.fees.tip),
   cap |-> IF IsLegacy(t) THEN None ELSE Some(t.fees.cap)]
Back(t) ==
  [Back_Untyped(t) EXCEPT
     !.type = IF ~IsLegacy(t) THEN Some(2) ELSE IF t.list THEN Some(1) ELSE None]

-----------------------------------------------------------------------------
(* The logs.                                                               *)

\* `peeking_take_while`: the leading logs of transaction i.
OwnLogs(logs, i) ==
  LET other == SelectInSeq(logs, LAMBDA l : l # i)
  IN  IF other = 0 THEN logs ELSE SubSeq(logs, 1, other - 1)

\* A `take_while` would also use up the log it stops at.
LogsLeft_TakeWhile(logs, i) ==
  SubSeq(logs, Len(OwnLogs(logs, i)) + 2, Len(logs))
LogsLeft(logs, i) == SubSeq(logs, Len(OwnLogs(logs, i)) + 1, Len(logs))

\* The logs of each of n transactions, in order.
Distribute(n, logs) ==
  LET left[i \in 0 .. n] == IF i = 0 THEN logs ELSE LogsLeft(left[i - 1], i)
  IN  [i \in 1 .. n |-> OwnLogs(left[i - 1], i)]

-----------------------------------------------------------------------------
(* The block made of the answers.                                          *)

NoAnswer == [txs |-> <<>>, logs |-> <<>>]

\* One transaction that does not convert makes the whole block invalid.
IsBlock(raw) == \A i \in DOMAIN raw.txs : Converts(raw.txs[i])

\* The transactions of the block, each with its logs.
MakeBlock(raw) ==
  LET logs == Distribute(Len(raw.txs), raw.logs) IN
  [i \in DOMAIN raw.txs |-> [tx |-> Convert(raw.txs[i]), logs |-> logs[i]]]

-----------------------------------------------------------------------------
(* What a block must be for the answer it is made of.                      *)

\* The fields a transaction of its type pays by, as the node writes them.
Payment(r) ==
  IF IsDynamic(r) THEN [tip |-> r.tip, cap |-> r.cap] ELSE [gasPrice |-> r.gasPrice]
Offered(r) == IF IsDynamic(r) THEN r.tip ELSE r.gasPrice

\* One that lacks such a field.
Incomplete(r) == None \in Range(Payment(r))

\* Given back to the node's form, t is r: it pays by the same fields as much,
\* with the access list and the path it had.
Same(t, r) ==
  LET back == Back(t) IN
  /\ Payment(back) = Payment(r) /\ back.list = r.list /\ back.path = r.path
  /\ Some(PriorityFee(t)) = Offered(r)

\* No log is given to a transaction that did not write it, none is used up in
\* between, and when the node lists the logs in the block's order, with none
\* of another block, every transaction has all of its own.
LogsFollow(taken, logs) ==
  /\ \A i \in DOMAIN taken : Range(taken[i]) \subseteq {i}
  /\ IsPrefix(FlattenSeq(taken), logs)
  /\ ( /\ 0 \notin Range(logs)
       /\ \A j, k \in DOMAIN logs : j < k => logs[j] <= logs[k] ) =>
         FlattenSeq(taken) = logs

\* The node's transactions in the node's order, each with its own logs.
Describes(made, raw) ==
  /\ DOMAIN made = DOMAIN raw.txs
  /\ \A i \in DOMAIN made : Same(made[i].tx, raw.txs[i])
  /\ LogsFollow([i \in DOMAIN made |-> made[i].logs], raw.logs)

=============================================================================
