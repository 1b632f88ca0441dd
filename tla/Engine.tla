------------------------------- MODULE Engine -------------------------------
(***************************************************************************)
(* The event loop of crates/engine/src/engine.rs: `Engine::run` polls, in  *)
(* the fixed order of `select_biased!`, the sends in flight, the           *)
(* cancellation token, the stream of new heads and the processing of the   *)
(* pending block.  `pc` says which of the four is polled next; a branch    *)
(* that is not ready hands over to the next one.                           *)
(*                                                                         *)
(* The Ethereum node is external.  It mines blocks, answers each read with *)
(* its state at the time of the answer, and keeps the account's accepted   *)
(* transactions in a pool until they are mined.  Assumed of it: no         *)
(* reorganisation, no eviction from the pool, and no other program that    *)
(* signs with the same wallet.                                             *)
(***************************************************************************)
EXTENDS Integers, FiniteSets

CONSTANTS
  Owner,        \* the address the multicall contract obeys
  NoWallet,     \* no wallet configured: watch only
  Wallets,      \* what a run may be configured with
  MaxBlock,     \* bound: blocks mined after the one the model starts from
  MaxTxs,       \* bound: prioritised multicalls one pending block yields
  MaxNonce,     \* bound: nonces 0 .. MaxNonce-1
  MaxRuns       \* bound: times the program is started

ASSUME BoundsAssumption ==
  MaxBlock \in Nat /\ MaxTxs \in Nat /\ MaxNonce \in Nat /\ MaxRuns \in Nat \ {0}
ASSUME WalletAssumption == Wallets # {} /\ Owner # NoWallet

VARIABLES
  pc,           \* the branch polled next, or the phase around the loop
  result,       \* what `run` returns
  run,          \* which start of the program this is
  wallet,       \* the wallet of this run
  cancelled,    \* the CancellationToken
  seen,         \* the newest head delivered to the loop
  proc,         \* the future `process_pending_block`
  sends,        \* every transaction of `send_txs` so far, with its status
  late,         \* requests nobody waits for that the node may still accept
  nodeHead,     \* node: the number of its latest block
  nonceAt,      \* node: the account's transaction count after each block
  pool          \* node: nonces of the account accepted and not yet mined

engineVars == <<pc, result, run, wallet, cancelled, seen>>
nodeVars   == <<nodeHead, nonceAt, pool>>
vars       == <<engineVars, proc, sends, late, nodeVars>>

Blocks == 0 .. MaxBlock
Nonces == 0 .. MaxNonce - 1
Counts == 0 .. MaxNonce
Tx     == [run : 1 .. MaxRuns, head : Blocks, nonce : Nonces]

NoAnswer == -1

(***************************************************************************)
(* The processing of one head, `delayed_process_pending_block`, is a       *)
(* chain of awaits.  "join": the two nonce reads and the pending block;    *)
(* "monitor": the monitors run; "monitored": they returned; "estimate":    *)
(* gas estimates in flight; "estimated": they returned.  `clock` is 1 once *)
(* deadline - latency has passed and 2 once the deadline has.              *)
(***************************************************************************)
Stages == {"none", "join", "monitor", "monitored", "estimate", "estimated"}

Proc == [stage : Stages, head : Blocks, at : Counts \cup {NoAnswer},
         pending : Counts \cup {NoAnswer}, parent : Blocks \cup {NoAnswer},
         calls : 0 .. MaxTxs, failed : BOOLEAN, clock : 0 .. 2]

Idle == [stage |-> "none", head |-> 0, at |-> NoAnswer, pending |-> NoAnswer,
         parent |-> NoAnswer, calls |-> 0, failed |-> FALSE, clock |-> 0]

ProcessHead(b) == [Idle EXCEPT !.stage = "join", !.head = b]

(***************************************************************************)
(* A transaction is "queued" in `send_txs` until its future is first       *)
(* polled, on the "wire" until the node decides, "accepted" while the      *)
(* answer is on its way, "confirmed" or "refused" once the future is       *)
(* ready, and "ok" or "lost" after the loop took the result.               *)
(***************************************************************************)
InFlight == {"queued", "wire", "accepted", "confirmed", "refused"}
Statuses == InFlight \cup {"ok", "lost"}

Sent(s)     == {t \in DOMAIN sends : sends[t] = s}
Outstanding == {t \in DOMAIN sends : sends[t] \in InFlight}
SentNow     == {t \in DOMAIN sends : t.run = run}
Move(T, s)  == [t \in DOMAIN sends |-> IF t \in T THEN s ELSE sends[t]]

Count == nonceAt[nodeHead]

\* The account's pending transaction count: what is mined, then every pooled
\* nonce that follows without a gap.
IsPendingCount(n) ==
  /\ n >= Count
  /\ n \notin pool
  /\ \A m \in Count .. n - 1 : m \in pool

Goto(label) == pc' = label /\ UNCHANGED <<result, run, wallet, cancelled, seen>>

-----------------------------------------------------------------------------
(* Start and end of a run.                                                 *)

Init ==
  /\ pc = "init" /\ result = "none" /\ run = 1 /\ cancelled = FALSE /\ seen = 0
  /\ wallet \in Wallets
  /\ proc = Idle
  /\ sends = [t \in {} |-> "queued"]
  /\ late = {}
  /\ nodeHead = 0 /\ nonceAt = [b \in Blocks |-> 0] /\ pool = {}

Return(r) == pc' = "done" /\ result' = r

\* App::new asks the node for its network, chain and version, and makes the
\* monitors, the PancakeMonitor with its router's factory: when one of these
\* requests fails the program ends.
StartFails ==
  /\ pc = "init"
  /\ Return("err")
  /\ UNCHANGED <<run, wallet, cancelled, seen, proc, sends, late, nodeVars>>

\* `Engine::new` refuses a wallet that does not own the multicall contract.
WalletAccepted(w) == w \in {NoWallet, Owner}

New ==
  /\ pc = "init"
  /\ IF WalletAccepted(wallet)
       THEN pc' = "subscribe" /\ UNCHANGED result
       ELSE Return("err")
  /\ UNCHANGED <<run, wallet, cancelled, seen, proc, sends, late, nodeVars>>

\* with_abort polls the token before the subscription.
Subscribed ==
  /\ pc = "subscribe" /\ ~cancelled
  /\ pc' = "sends"
  /\ seen' = nodeHead
  /\ UNCHANGED <<result, run, wallet, cancelled, proc, sends, late, nodeVars>>

SubscribeFails ==
  /\ pc = "subscribe" /\ ~cancelled
  /\ Return("err")
  /\ UNCHANGED <<run, wallet, cancelled, seen, proc, sends, late, nodeVars>>

SubscribeAborted ==
  /\ pc = "subscribe" /\ cancelled
  /\ Return("err")
  /\ UNCHANGED <<run, wallet, cancelled, seen, proc, sends, late, nodeVars>>

\* The first interrupt cancels the token, which is made after the start.
Cancel ==
  /\ pc \notin {"init", "done"} /\ ~cancelled
  /\ cancelled' = TRUE
  /\ UNCHANGED <<pc, result, run, wallet, seen, proc, sends, late, nodeVars>>

\* The process is killed: requests on the wire lose their caller.
Crash ==
  /\ pc # "done" /\ run < MaxRuns
  /\ Return("killed")
  /\ proc' = Idle
  /\ late' = late \cup Sent("wire")
  /\ sends' = Move(Outstanding, "lost")
  /\ UNCHANGED <<run, wallet, cancelled, seen, nodeVars>>

\* The operator starts the program again.
Restart ==
  /\ pc = "done" /\ run < MaxRuns
  /\ pc' = "init" /\ result' = "none" /\ run' = run + 1
  /\ wallet' \in Wallets
  /\ cancelled' = FALSE
  /\ UNCHANGED <<seen, proc, sends, late, nodeVars>>

-----------------------------------------------------------------------------
(* Branch 1: `send_txs.select_next_some()`.                                *)

\* The first poll of a send future issues eth_sendRawTransaction.
EmitSends ==
  /\ pc \in {"sends", "drain"} /\ Sent("queued") # {}
  /\ sends' = Move(Sent("queued"), "wire")
  /\ UNCHANGED <<engineVars, proc, late, nodeVars>>

TakeConfirmed(t) ==
  /\ pc = "sends" /\ Sent("queued") = {} /\ t \in Sent("confirmed")
  /\ sends' = Move({t}, "ok")
  /\ UNCHANGED <<engineVars, proc, late, nodeVars>>

\* An error leaves the loop; the processing future is dropped with its scope.
TakeRefused(t) ==
  /\ pc = "sends" /\ Sent("queued") = {} /\ t \in Sent("refused")
  /\ sends' = Move({t}, "lost")
  /\ proc' = Idle
  /\ pc' = "drain" /\ result' = "err"
  /\ UNCHANGED <<run, wallet, cancelled, seen, late, nodeVars>>

NoSendReady ==
  /\ pc = "sends" /\ Sent("queued") \cup Sent("confirmed") \cup Sent("refused") = {}
  /\ Goto("cancel")
  /\ UNCHANGED <<proc, sends, late, nodeVars>>

-----------------------------------------------------------------------------
(* Branch 2: the cancellation token.                                       *)

TakeCancel ==
  /\ pc = "cancel" /\ cancelled
  /\ proc' = Idle
  /\ pc' = "drain" /\ result' = "ok"
  /\ UNCHANGED <<run, wallet, cancelled, seen, sends, late, nodeVars>>

NotCancelled ==
  /\ pc = "cancel" /\ ~cancelled
  /\ Goto("heads")
  /\ UNCHANGED <<proc, sends, late, nodeVars>>

-----------------------------------------------------------------------------
(* Branch 3: a new head.  The node announces heads in order and may skip   *)
(* some; one that is announced but not polled yet is one not delivered.    *)

\* A block is processed only when nothing of an earlier one is being sent.
MayProcess_Always == TRUE
MayProcess == Outstanding = {}

\* The future of the previous head is dropped, whether or not a new one starts.
Supersede_KeepRunning(b) ==
  IF proc.stage # "none" THEN proc ELSE ProcessHead(b)
Supersede(b) == IF MayProcess THEN ProcessHead(b) ELSE Idle

NewHead(b) ==
  /\ pc = "heads" /\ seen < b /\ b <= nodeHead
  /\ seen' = b
  /\ proc' = Supersede(b)
  /\ pc' = "sends"
  /\ UNCHANGED <<result, run, wallet, cancelled, sends, late, nodeVars>>

NoHead ==
  /\ pc = "heads"
  /\ Goto("process")
  /\ UNCHANGED <<proc, sends, late, nodeVars>>

-----------------------------------------------------------------------------
(* Branch 4: one poll of the processing future.  It runs on through every  *)
(* stage that is ready, and gives the turn back when it has to wait.       *)

JoinReady == NoAnswer \notin {proc.at, proc.pending, proc.parent}

\* `try_join!` stops at the first error; a pending count below the count at
\* the mined head is one.
JoinFails ==
  \/ proc.failed
  \/ NoAnswer \notin {proc.at, proc.pending} /\ proc.pending < proc.at

\* Transactions of ours that are not mined yet postpone the next batch.
NonceFree_IgnorePending(at, pending) == TRUE
NonceFree(at, pending) == pending = at

Waiting ==
  \/ proc.stage = "join" /\ ~JoinFails /\ ~JoinReady
  \/ proc.stage \in {"monitor", "estimate"} /\ ~proc.failed

\* The monitors get until deadline - latency, the rest until the deadline.
TimeLimit == IF proc.stage = "monitor" THEN 1 ELSE 2
TimesUp_Never == FALSE
TimesUp == proc.clock >= TimeLimit

\* Nothing is being processed.
ProcessTerminated ==
  /\ pc = "process" /\ proc.stage = "none"
  /\ Goto("sends")
  /\ UNCHANGED <<proc, sends, late, nodeVars>>

ProcessPending ==
  /\ pc = "process" /\ Waiting /\ ~TimesUp
  /\ Goto("sends")
  /\ UNCHANGED <<proc, sends, late, nodeVars>>

\* timeout_at: the work of this head, its partial results included, is dropped.
ProcessElapsed ==
  /\ pc = "process" /\ Waiting /\ TimesUp
  /\ proc' = Idle
  /\ Goto("sends")
  /\ UNCHANGED <<sends, late, nodeVars>>

CanSign == wallet # NoWallet

\* The wallet signs the whole batch before the first send is queued, and may
\* fail to: then none of it is.
MayFailToSign == proc.stage = "estimated" /\ CanSign /\ proc.calls > 0

\* A failed read, monitor, gas estimate or signature ends the run.
ProcessFails ==
  /\ pc = "process"
  /\ \/ proc.stage = "join" /\ JoinFails
     \/ proc.stage \in {"monitor", "estimate"} /\ proc.failed
     \/ MayFailToSign
  /\ proc' = Idle
  /\ pc' = "drain" /\ result' = "err"
  /\ UNCHANGED <<run, wallet, cancelled, seen, sends, late, nodeVars>>

\* `get_next_nonce_at` found pending transactions: nothing to do for this head.
SkipForPending ==
  /\ pc = "process" /\ proc.stage = "join" /\ JoinReady /\ ~JoinFails
  /\ ~NonceFree(proc.at, proc.pending)
  /\ proc' = Idle
  /\ Goto("sends")
  /\ UNCHANGED <<sends, late, nodeVars>>

\* The parent of the pending block is compared with the head; a mismatch is
\* logged and the monitors run all the same.
StartMonitor ==
  /\ pc = "process" /\ proc.stage = "join" /\ JoinReady /\ ~JoinFails
  /\ NonceFree(proc.at, proc.pending)
  /\ proc' = [proc EXCEPT !.stage = "monitor"]
  /\ UNCHANGED <<engineVars, sends, late, nodeVars>>

\* Estimating no transaction at all is ready at once.
ExtractTxs ==
  /\ pc = "process" /\ proc.stage = "monitored"
  /\ proc' = [proc EXCEPT !.stage = IF proc.calls = 0 THEN "estimated" ELSE "estimate"]
  /\ UNCHANGED <<engineVars, sends, late, nodeVars>>

\* The transactions carry consecutive nonces from the one that was read.
Batch_OffByOne == [run : {run}, head : {proc.head},
                   nonce : (proc.at + 1) .. (proc.at + proc.calls)]
Batch == [run : {run}, head : {proc.head},
          nonce : proc.at .. (proc.at + proc.calls - 1)]

QueueSends ==
  /\ pc = "process" /\ proc.stage = "estimated" /\ CanSign
  /\ sends' = [t \in DOMAIN sends \cup Batch |->
                 IF t \in Batch THEN "queued" ELSE sends[t]]
  /\ proc' = Idle
  /\ Goto("sends")
  /\ UNCHANGED <<late, nodeVars>>

DropUnsigned ==
  /\ pc = "process" /\ proc.stage = "estimated" /\ ~CanSign
  /\ proc' = Idle
  /\ Goto("sends")
  /\ UNCHANGED <<sends, late, nodeVars>>

-----------------------------------------------------------------------------
(* After the loop: wait for the sends that were started; errors are logged. *)

DrainTake(t) ==
  /\ pc = "drain" /\ Sent("queued") = {}
  /\ \/ t \in Sent("confirmed") /\ sends' = Move({t}, "ok")
     \/ t \in Sent("refused")   /\ sends' = Move({t}, "lost")
  /\ UNCHANGED <<engineVars, proc, late, nodeVars>>

MayReturn_Always == TRUE
MayReturn == Outstanding = {}

DrainDone ==
  /\ pc = "drain" /\ MayReturn
  /\ Goto("done")
  /\ UNCHANGED <<proc, sends, late, nodeVars>>

-----------------------------------------------------------------------------
(* Time, the node's answers to reads, and the monitors.                    *)

Tick ==
  /\ proc.stage # "none" /\ proc.clock < 2
  /\ proc' = [proc EXCEPT !.clock = @ + 1]
  /\ UNCHANGED <<engineVars, sends, late, nodeVars>>

AnswerAt ==
  /\ proc.stage = "join" /\ proc.at = NoAnswer
  /\ proc' = [proc EXCEPT !.at = nonceAt[proc.head]]
  /\ UNCHANGED <<engineVars, sends, late, nodeVars>>

AnswerPending ==
  /\ proc.stage = "join" /\ proc.pending = NoAnswer
  /\ \E n \in Counts : IsPendingCount(n) /\ proc' = [proc EXCEPT !.pending = n]
  /\ UNCHANGED <<engineVars, sends, late, nodeVars>>

\* The node builds its pending block on its newest block.
AnswerBlock ==
  /\ proc.stage = "join" /\ proc.parent = NoAnswer
  /\ proc' = [proc EXCEPT !.parent = nodeHead]
  /\ UNCHANGED <<engineVars, sends, late, nodeVars>>

\* A read, a monitor or a gas estimate fails or times out.
AwaitFails ==
  /\ Waiting
  /\ proc' = [proc EXCEPT !.failed = TRUE]
  /\ UNCHANGED <<engineVars, sends, late, nodeVars>>

MonitorReturns(m) ==
  /\ proc.stage = "monitor" /\ ~proc.failed
  /\ proc.at + m <= MaxNonce
  /\ proc' = [proc EXCEPT !.stage = "monitored", !.calls = m]
  /\ UNCHANGED <<engineVars, sends, late, nodeVars>>

EstimatesReturn ==
  /\ proc.stage = "estimate" /\ ~proc.failed
  /\ proc' = [proc EXCEPT !.stage = "estimated"]
  /\ UNCHANGED <<engineVars, sends, late, nodeVars>>

-----------------------------------------------------------------------------
(* The node: sends it receives, and blocks it mines.                       *)

Admissible(n) == n >= Count /\ n \notin pool

NodeAccepts(t) ==
  /\ t \in Sent("wire") /\ Admissible(t.nonce)
  /\ pool' = pool \cup {t.nonce}
  /\ sends' = Move({t}, "accepted")
  /\ UNCHANGED <<engineVars, proc, late, nodeHead, nonceAt>>

NodeRejects(t) ==
  /\ t \in Sent("wire")
  /\ sends' = Move({t}, "refused")
  /\ UNCHANGED <<engineVars, proc, late, nodeVars>>

Confirm(t) ==
  /\ t \in Sent("accepted")
  /\ sends' = Move({t}, "confirmed")
  /\ UNCHANGED <<engineVars, proc, late, nodeVars>>

\* The client gives up on the request; the node may still get to it.
SendTimesOut_Never(t) == FALSE /\ UNCHANGED vars
SendTimesOut(t) ==
  /\ t \in Sent("wire") \cup Sent("accepted")
  /\ late' = late \cup (Sent("wire") \cap {t})
  /\ sends' = Move({t}, "refused")
  /\ UNCHANGED <<engineVars, proc, nodeVars>>

LateArrival(t) ==
  /\ t \in late
  /\ late' = late \ {t}
  /\ pool' = IF Admissible(t.nonce) THEN pool \cup {t.nonce} ELSE pool
  /\ UNCHANGED <<engineVars, proc, sends, nodeHead, nonceAt>>

\* A block takes any number of the pooled transactions, in nonce order.
Mine ==
  /\ nodeHead < MaxBlock
  /\ nodeHead' = nodeHead + 1
  /\ \E c \in Counts :
       /\ c >= Count /\ Count .. c - 1 \subseteq pool
       /\ nonceAt' = [nonceAt EXCEPT ![nodeHead + 1] = c]
       /\ pool' = {n \in pool : n >= c}
  /\ UNCHANGED <<engineVars, proc, sends, late>>

-----------------------------------------------------------------------------

Loop ==
  \/ EmitSends \/ NoSendReady
  \/ \E t \in DOMAIN sends : TakeConfirmed(t) \/ TakeRefused(t)
  \/ TakeCancel \/ NotCancelled
  \/ NoHead \/ \E b \in Blocks : NewHead(b)
  \/ ProcessTerminated \/ ProcessPending \/ ProcessElapsed \/ ProcessFails
  \/ SkipForPending \/ StartMonitor \/ ExtractTxs \/ QueueSends \/ DropUnsigned

Drain == DrainDone \/ \E t \in DOMAIN sends : DrainTake(t)

\* The steps the engine's task takes by itself.
Task == New \/ SubscribeAborted \/ Loop \/ Drain

Answers ==
  \/ Tick \/ AnswerAt \/ AnswerPending \/ AnswerBlock \/ AwaitFails
  \/ EstimatesReturn \/ \E m \in 0 .. MaxTxs : MonitorReturns(m)

Network ==
  \/ \E t \in DOMAIN sends :
       NodeAccepts(t) \/ NodeRejects(t) \/ Confirm(t) \/ SendTimesOut(t)
  \/ \E t \in late : LateArrival(t)
  \/ Mine

Outside == StartFails \/ Subscribed \/ SubscribeFails \/ Cancel \/ Crash \/ Restart

Next == Task \/ Answers \/ Network \/ Outside

Spec == Init /\ [][Next]_vars

(***************************************************************************)
(* Fairness: the task is scheduled, time passes, and a request that is     *)
(* never answered times out (the request timeout of src/app.rs).  Nothing  *)
(* is assumed of the node, of the monitors or of the stream of heads.      *)
(***************************************************************************)
Fairness ==
  /\ WF_vars(Task)
  /\ WF_vars(Tick)
  /\ \A t \in Tx : WF_vars(SendTimesOut(t))

FairSpec == Spec /\ Fairness

-----------------------------------------------------------------------------
(* Properties.                                                             *)

\* Type correctness of the whole state.
TypeOK ==
  /\ pc \in {"init", "subscribe", "sends", "cancel", "heads", "process", "drain", "done"}
  /\ result \in {"none", "ok", "err", "killed"}
  /\ run \in 1 .. MaxRuns
  /\ wallet \in Wallets
  /\ cancelled \in BOOLEAN
  /\ seen \in Blocks
  /\ proc \in Proc
  /\ DOMAIN sends \subseteq Tx /\ sends \in [DOMAIN sends -> Statuses]
  /\ late \subseteq DOMAIN sends
  /\ nodeHead \in Blocks
  /\ nonceAt \in [Blocks -> Counts]
  /\ pool \subseteq Nonces

\* A pending block is never processed while transactions of an earlier one
\* are being sent (engine.rs: "we are still sending transactions, skipping").
ProcXorSend == proc.stage # "none" => Outstanding = {}

\* Within a run no nonce is ever given to two transactions.
NonceUnique == \A t, u \in SentNow : t.nonce = u.nonce => t = u

\* A batch for a head starts above everything the run sent before, and only
\* when all of that is already mined at that head.
BatchAfterMined ==
  \A t, u \in SentNow : t.head < u.head =>
     t.nonce < nonceAt[u.head] /\ nonceAt[u.head] <= u.nonce

\* Only the newest delivered head is ever processed: no transaction is built
\* for a head that another one has replaced.
NoStaleWork == proc.stage # "none" => proc.head = seen

\* However the run ends by itself, on an error, a cancellation or both, it
\* returns only after every send it started has a result.
DrainedAtExit == pc = "done" => Outstanding = {}

\* When every send of the earlier runs was confirmed, a restarted program
\* never reuses one of their nonces, whatever was mined in between.
CleanRestart ==
  (\A t \in DOMAIN sends : t.run < run => sends[t] = "ok") =>
     \A t, u \in DOMAIN sends : t.nonce = u.nonce => t = u

\* The engine implements the ledger: nonces are handed out when a batch is
\* queued, and settled by the node's newest block.
Ledger == INSTANCE NonceLedger WITH
            used <- {t.nonce : t \in SentNow}, settled <- Count,
            MaxBatch <- MaxTxs, MaxCount <- MaxNonce

LedgerSpec == Ledger!Spec

\* A cancelled run returns, whatever the node and the monitors do.
ShutdownCompletes == cancelled ~> pc = "done"

\* The processing of a head ends, by its deadline at the latest, even when
\* the node and the monitors never answer.
ProcessingEnds == proc.stage # "none" ~> proc.stage = "none"

\* Sends never keep the engine from processing heads for ever.
SendsSettle == Outstanding # {} ~> Outstanding = {}

=============================================================================
