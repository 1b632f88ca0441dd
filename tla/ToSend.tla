------------------------------- MODULE ToSend -------------------------------
(***************************************************************************)
(* What happens to one pending block between the engine's nonce reads and  *)
(* its gas estimates: the block is made of the node's answers, the         *)
(* monitors run concurrently (crates/engine/src/monitor.rs) and add        *)
(* prioritised multicalls to the shared list `ToSend`                      *)
(* (crates/engine/src/block.rs); when all of them returned, `reduce`       *)
(* merges and orders the list, and the multicalls take consecutive nonces  *)
(* in that order (engine.rs, extract_txs_to_send).                         *)
(*                                                                         *)
(* A multicall is known by its fee and by which of its calls may fail.     *)
(***************************************************************************)
EXTENDS PendingBlock

CONSTANTS
  Monitors,      \* the monitors of a MultiMonitor
  Pancakes,      \* those of them that are a PancakeMonitor
  BaseToken,     \* the token a PancakeMonitor plays with
  BaseFees,      \* optional base fees a pending block may have
  Shapes,        \* multicalls: for each call, whether it may fail
  FirstNonce     \* the nonce read before

ASSUME FeesAssumption == (\A o \in BaseFees : IsOption(o)) /\ FirstNonce \in Nat
ASSUME ShapesAssumption == Shapes \subseteq Seq(BOOLEAN)
ASSUME MonitorsAssumption == Pancakes \subseteq Monitors

VARIABLES
  raw,       \* the node's answers, before the block is made of them
  baseFeeGiven,   \* the base fee per gas of the pending block, if it has one
  block,     \* the pending block's transactions, in order
  level,     \* first transaction of the fee level each monitor looks at next
  half,      \* monitors that added in front of their level, not yet behind it
  running,   \* monitors that have not returned
  toSend,    \* what the monitors added, in order
  outcome,   \* how far the processing of the block is, or how it ended
  txs        \* the transactions made of it

vars == <<raw, baseFeeGiven, block, level, half, running, toSend, outcome, txs>>
given == <<raw, baseFeeGiven, block>>

baseFee == OrElse(baseFeeGiven, 0)

Sides == {"first", "front", "back"}
Multicalls == [mon : Monitors, level : 1 .. MaxBlockTxs + 1, side : Sides,
               fee : Nat, calls : Seq(BOOLEAN)]

-----------------------------------------------------------------------------
(* The pending block, and the fees of multicalls around its levels.        *)

\* `iter_adjacent_txs` groups consecutive transactions of one priority fee.
\* The transactions of a block need not be ordered by their fees.
NextLevel(i) ==
  CHOOSE j \in i + 1 .. Len(block) + 1 :
    /\ j <= Len(block) => PriorityFee(block[j].tx) # PriorityFee(block[i].tx)
    /\ \A k \in i .. j - 1 : PriorityFee(block[k].tx) = PriorityFee(block[i].tx)

FrontFee_SameAsBack(i) == baseFee + PriorityFee(block[i].tx)
BackFee(i) == baseFee + PriorityFee(block[i].tx)
FrontFee_NetOfBase(i) == PriorityFee(block[i].tx) + 1 - baseFee
FrontFee(i) == BackFee(i) + 1

\* `PriorityFeeEstimator::estimate` looks at the first transaction only; the
\* base fee is not added.
FirstFee_NoTip == IF block = <<>> THEN 0 ELSE PriorityFee(block[1].tx)
FirstFee == IF block = <<>> THEN 1 ELSE PriorityFee(block[1].tx) + 1

Multicall(m, side, fee, calls) ==
  [mon |-> m, level |-> level[m], side |-> side, fee |-> fee, calls |-> calls]

\* The swaps of a level a PancakeMonitor plays with: the first place of the
\* base token on the path is not its last.  `into_independent` keeps them all,
\* no swap names a pair.
IndexIn(path) == SelectInSeq(path, LAMBDA token : token = BaseToken)
Playable(i) ==
  {k \in i .. NextLevel(i) - 1 :
     IndexIn(block[k].tx.path) \notin {0, Len(block[k].tx.path)}}

\* The calls of a monitor on either side of its level.  Those of a
\* PancakeMonitor may all fail, and there is one for each swap, or none.
CallsAround(m) ==
  IF m \in Pancakes
  THEN {[n \in 1 .. Cardinality(Playable(level[m])) |-> TRUE]}
  ELSE Shapes

-----------------------------------------------------------------------------
(* The monitors.                                                           *)

Init ==
  /\ raw \in Answers
  /\ baseFeeGiven \in BaseFees
  /\ block = <<>>
  /\ level = [m \in Monitors |-> 1]
  /\ half = {}
  /\ running = Monitors
  /\ toSend = <<>>
  /\ outcome = "answered"
  /\ txs = <<>>

\* make_pending_block.
MakePendingBlock ==
  /\ outcome = "answered"
  /\ IF IsBlock(raw)
     THEN block' = MakeBlock(raw) /\ outcome' = "running"
     ELSE block' = block /\ outcome' = "failed"
  /\ raw' = NoAnswer
  /\ UNCHANGED <<baseFeeGiven, level, half, running, toSend, txs>>

Working(m) == outcome = "running" /\ m \in running

\* One level of PancakeMonitor::process_pending_block: both multicalls are
\* added under one lock of the list.
Surround(m) ==
  /\ Working(m) /\ m \notin half /\ level[m] <= Len(block)
  /\ \E front, back \in CallsAround(m) :
       toSend' = toSend \o << Multicall(m, "front", FrontFee(level[m]), front),
                              Multicall(m, "back", BackFee(level[m]), back) >>
  /\ level' = [level EXCEPT ![m] = NextLevel(@)]
  /\ UNCHANGED <<given, half, running, outcome, txs>>

\* A monitor that tries its calls out first (CandidateToSend) adds the two one
\* after the other, and others may add in between.
CandidateFront(m) ==
  /\ Working(m) /\ m \notin Pancakes \cup half /\ level[m] <= Len(block)
  /\ \E front \in Shapes :
       toSend' = Append(toSend, Multicall(m, "front", FrontFee(level[m]), front))
  /\ half' = half \cup {m}
  /\ UNCHANGED <<given, level, running, outcome, txs>>

CandidateBack(m) ==
  /\ Working(m) /\ m \in half
  /\ \E back \in Shapes :
       toSend' = Append(toSend, Multicall(m, "back", BackFee(level[m]), back))
  /\ half' = half \ {m}
  /\ level' = [level EXCEPT ![m] = NextLevel(@)]
  /\ UNCHANGED <<given, running, outcome, txs>>

\* A monitor that wants to be first in the block says so before the levels.
Lead(m) ==
  /\ Working(m) /\ m \notin Pancakes /\ level[m] = 1
  /\ \A k \in DOMAIN toSend : toSend[k].mon # m
  /\ \E calls \in Shapes :
       toSend' = Append(toSend, Multicall(m, "first", FirstFee, calls))
  /\ UNCHANGED <<given, level, half, running, outcome, txs>>

\* PancakeMonitor returns after the last level, NoopMonitor at once.
MonitorReturns(m) ==
  /\ Working(m) /\ m \notin half
  /\ level[m] = Len(block) + 1 \/ (level[m] = 1 /\ m \notin Pancakes)
  /\ running' = running \ {m}
  /\ UNCHANGED <<given, level, half, toSend, outcome, txs>>

\* The first error ends `try_join`: the other monitors are dropped where they
\* are, and the pending block goes with what they added.
MonitorFails(m) ==
  /\ Working(m)
  /\ outcome' = "failed"
  /\ UNCHANGED <<given, level, half, running, toSend, txs>>

\* timeout_at: the monitors are out of time.
Elapse ==
  /\ outcome = "running" /\ running # {}
  /\ outcome' = "elapsed"
  /\ UNCHANGED <<given, level, half, running, toSend, txs>>

-----------------------------------------------------------------------------
(* `reduce` and the nonces.  A transaction is a sequence of items.  An item *)
(* is one call, or a nested group of the calls of one multicall; a group    *)
(* takes effect only as a whole, so one call is a group of a call that must *)
(* not fail.                                                               *)

\* A maximal run of consecutive multicalls with the same fee.
Runs ==
  {r \in (DOMAIN toSend) \X (DOMAIN toSend) :
     LET lo == r[1] hi == r[2] IN
     /\ lo <= hi
     /\ \A k \in lo .. hi : toSend[k].fee = toSend[lo].fee
     /\ lo > 1 => toSend[lo - 1].fee # toSend[lo].fee
     /\ hi < Len(toSend) => toSend[hi + 1].fee # toSend[lo].fee}

\* The n-th call of the k-th multicall.
Id(k, n) == <<k, n>>

Single(k, n, may) == [may |-> may, calls |-> <<[id |-> Id(k, n), may |-> FALSE]>>]

Plain(k) == [n \in DOMAIN toSend[k].calls |-> Single(k, n, toSend[k].calls[n])]

\* Extending: what was there becomes one group that may fail; what is added
\* loses its own mark, every call of it may fail.
AsGroup_Loose(k) == [n \in DOMAIN toSend[k].calls |-> Single(k, n, TRUE)]
AsGroup(k) ==
  << [may   |-> TRUE,
      calls |-> [n \in DOMAIN toSend[k].calls |->
                   [id |-> Id(k, n), may |-> toSend[k].calls[n]]]] >>
Added_Marked(k) == Plain(k)
Added(k) == [n \in DOMAIN toSend[k].calls |-> Single(k, n, TRUE)]

Merge_DropFirst(r) ==
  IF r[1] = r[2] THEN Plain(r[1])
  ELSE FlattenSeq([i \in 1 .. r[2] - r[1] |-> Added(r[1] + i)])
Merge(r) ==
  IF r[1] = r[2] THEN Plain(r[1])
  ELSE AsGroup(r[1]) \o FlattenSeq([i \in 1 .. r[2] - r[1] |-> Added(r[1] + i)])

FeeOf(r) == toSend[r[1]].fee

\* `sort_unstable_by_key`: by falling fee, ties in any order.
Sorted_AsAdded ==
  {SetToSortSeq(Runs, LAMBDA r, s : r[1] < s[1])}
Sorted ==
  LET orders[R \in SUBSET Runs] ==
        IF R = {} THEN {<<>>}
        ELSE UNION { {<<r>> \o o : o \in orders[R \ {r}]} :
                     r \in {q \in R : \A s \in R : FeeOf(q) >= FeeOf(s)} }
  IN  orders[Runs]

MayExtract_OnElapse == outcome = "elapsed" \/ (outcome = "running" /\ running = {})
MayExtract == outcome = "running" /\ running = {}

\* make_tx needs the base fee for the most a transaction may pay: it panics
\* when the block has none, unless there is nothing to send.
Panics == baseFeeGiven = None /\ toSend # <<>>

ExtractPanics ==
  /\ MayExtract /\ Panics
  /\ outcome' = "panicked"
  /\ UNCHANGED <<given, level, half, running, toSend, txs>>

Extract ==
  /\ MayExtract /\ ~Panics
  /\ \E o \in Sorted :
       txs' = [i \in DOMAIN o |-> [nonce |-> FirstNonce + i - 1,
                                   fee   |-> FeeOf(o[i]),
                                   max   |-> baseFee + FeeOf(o[i]),
                                   items |-> Merge(o[i])]]
  /\ outcome' = "extracted"
  /\ UNCHANGED <<given, level, half, running, toSend>>

Next ==
  \/ MakePendingBlock
  \/ \E m \in Monitors :
       \/ Surround(m) \/ CandidateFront(m) \/ CandidateBack(m) \/ Lead(m)
       \/ MonitorReturns(m) \/ MonitorFails(m)
  \/ Elapse \/ ExtractPanics \/ Extract

Spec == Init /\ [][Next]_vars

-----------------------------------------------------------------------------
(* What a transaction does when the calls in F fail on chain.              *)

Ids(item) == {item.calls[n].id : n \in DOMAIN item.calls}
TxIds(t) == UNION {Ids(t.items[i]) : i \in DOMAIN t.items}

Holds(item, F) == \A n \in DOMAIN item.calls : item.calls[n].may \/ item.calls[n].id \notin F
Reverts(t, F) == \E i \in DOMAIN t.items : ~t.items[i].may /\ ~Holds(t.items[i], F)

Effects(t, F) ==
  IF Reverts(t, F) THEN {}
  ELSE UNION {Ids(t.items[i]) \ F : i \in {j \in DOMAIN t.items : Holds(t.items[j], F)}}

AllEffects(F) == UNION {Effects(txs[i], F) : i \in DOMAIN txs}

\* Where calls are in the transactions: transaction, item, place in the item.
Positions ==
  UNION {UNION {{<<i, j, n>> : n \in DOMAIN txs[i].items[j].calls} :
                j \in DOMAIN txs[i].items} : i \in DOMAIN txs}
IdAt(p) == txs[p[1]].items[p[2]].calls[p[3]].id

Calls == UNION {{Id(k, n) : n \in DOMAIN toSend[k].calls} : k \in DOMAIN toSend}
CallsOf(k) == {Id(k, n) : n \in DOMAIN toSend[k].calls}

\* A transaction that holds calls of the k-th multicall.
Carries(t, k) == CallsOf(k) \cap TxIds(t) # {}

-----------------------------------------------------------------------------
(* Properties.                                                             *)

\* Type correctness.
TypeOK ==
  /\ raw \in [txs : Seq(RawTxs), logs : Seq(0 .. MaxBlockTxs)]
  /\ baseFeeGiven \in BaseFees
  /\ \A i \in DOMAIN block : PriorityFee(block[i].tx) \in Nat
  /\ level \in [Monitors -> 1 .. MaxBlockTxs + 1]
  /\ half \subseteq running /\ running \subseteq Monitors
  /\ toSend \in Seq(Multicalls)
  /\ outcome \in {"answered", "running", "failed", "elapsed", "panicked", "extracted"}
  /\ \A i \in DOMAIN txs : {txs[i].nonce, txs[i].fee, txs[i].max} \subseteq Nat

\* The pending block the node's answers become is the block they describe: its
\* transactions in their order, each paying what the node says it pays, with no
\* log of another transaction and, when the logs are listed in the block's order,
\* all of its own.  An answer with a transaction that lacks a field it pays by
\* never becomes a block.
BlockFaithful ==
  [][outcome = "answered" =>
       IF \E i \in DOMAIN raw.txs : Incomplete(raw.txs[i])
       THEN outcome' = "failed" /\ block' = <<>>
       ELSE outcome' = "running" /\ Describes(block', raw)]_vars

\* Every call a monitor asked for is in exactly one transaction, once.
CallsConserved ==
  outcome = "extracted" =>
    /\ Calls = UNION {TxIds(txs[i]) : i \in DOMAIN txs}
    /\ \A p, q \in Positions : IdAt(p) = IdAt(q) => p = q

\* A transaction with a lower nonce never offers less: one that is priced out
\* does not hold back a better priced one behind it.
NoncesFollowFees == \A i, j \in DOMAIN txs : i < j => txs[i].fee >= txs[j].fee

\* Around a level the same monitor's front multicall has a strictly lower
\* nonce than its back multicall, and pays strictly more than the level.
SurroundsLevel ==
  \A k, l \in DOMAIN toSend : \A i, j \in DOMAIN txs :
    ( /\ toSend[k].side = "front" /\ toSend[l].side = "back"
      /\ toSend[k].mon = toSend[l].mon /\ toSend[k].level = toSend[l].level
      /\ Carries(txs[i], k) /\ Carries(txs[j], l) ) =>
        /\ i < j
        /\ txs[i].fee > baseFee + PriorityFee(block[toSend[k].level].tx)
        /\ txs[j].fee = baseFee + PriorityFee(block[toSend[k].level].tx)

\* Half of a plan is never sent: when anything is, every front multicall has its
\* back multicall, also when a monitor fails or runs out of time in between.
AllOrNothing ==
  txs # <<>> =>
    /\ outcome = "extracted"
    /\ \A k \in DOMAIN toSend : toSend[k].side = "front" =>
         \E l \in DOMAIN toSend : /\ toSend[l].side = "back"
                                 /\ toSend[l].mon = toSend[k].mon
                                 /\ toSend[l].level = toSend[k].level

\* Failing calls never undo a call of another multicall, however many fail: when
\* all the calls of all the others do, each of its own still takes effect.
FailuresIsolated ==
  outcome = "extracted" =>
    \A k \in DOMAIN toSend : CallsOf(k) \subseteq AllEffects(Calls \ CallsOf(k))

\* A multicall that was not appended to another one is atomic: when a call
\* of it fails that must not, none of its calls takes effect.
LeadersAtomic ==
  outcome = "extracted" =>
    \A r \in Runs : \A c \in CallsOf(r[1]) :
      ~toSend[c[1]].calls[c[2]] => CallsOf(r[1]) \cap AllEffects({c}) = {}

\* What a monitor wants first in the block comes before every multicall around
\* a level that with the base fee pays less than the block's first transaction,
\* and before those behind a level that pays as much.  In front of such a level
\* the fees tie, and either may come first; a level that pays more, as all of them
\* may when there is a base fee, is served before it.
FirstLeads ==
  \A k, l \in DOMAIN toSend : \A i, j \in DOMAIN txs :
    ( /\ toSend[k].side = "first" /\ toSend[l].side # "first"
      /\ Carries(txs[i], k) /\ Carries(txs[j], l)
      /\ LET ofLevel == baseFee + PriorityFee(block[toSend[l].level].tx)
             ofFirst == PriorityFee(block[1].tx)
         IN  IF toSend[l].side = "front" THEN ofLevel < ofFirst ELSE ofLevel <= ofFirst )
      => i < j

=============================================================================
