---------------------------- MODULE EngineProofs ----------------------------
(***************************************************************************)
(* Proofs about the engine's loop, for every value of the constants.       *)
(***************************************************************************)
EXTENDS EngineInvariant, TLAPS

TypeInv == TypeOK /\ ProcOK

(***************************************************************************)
(* The types, one part of the state at a time.                             *)
(***************************************************************************)
LoopOK ==
  /\ pc \in {"init", "subscribe", "sends", "cancel", "heads", "process", "drain", "done"}
  /\ result \in {"none", "ok", "err", "killed"}
  /\ run \in 1 .. MaxRuns
  /\ wallet \in Wallets
  /\ cancelled \in BOOLEAN
  /\ seen \in Blocks

SendsOK ==
  /\ DOMAIN sends \subseteq Tx
  /\ sends \in [DOMAIN sends -> Statuses]
  /\ late \subseteq DOMAIN sends

NodeOK == nodeHead \in Blocks /\ nonceAt \in [Blocks -> Counts] /\ pool \subseteq Nonces

LEMMA TypeParts == TypeInv <=> LoopOK /\ SendsOK /\ NodeOK /\ proc \in Proc /\ ProcOK
  BY DEF TypeInv, TypeOK, LoopOK, SendsOK, NodeOK

LEMMA IdleIsProc == Idle \in Proc /\ Idle.stage = "none"
  BY BoundsAssumption DEF Idle, Proc, Stages, Blocks, Counts, NoAnswer

LEMMA ProcessHeadFields ==
  ASSUME NEW b
  PROVE  /\ ProcessHead(b).stage = "join" /\ ProcessHead(b).head = b
         /\ ProcessHead(b).at = NoAnswer /\ ProcessHead(b).pending = NoAnswer
         /\ b \in Blocks => ProcessHead(b) \in Proc
  <1>1. /\ ProcessHead(b).stage = "join" /\ ProcessHead(b).head = b
        /\ ProcessHead(b).at = NoAnswer /\ ProcessHead(b).pending = NoAnswer
    BY DEF ProcessHead, Idle
  <1>2. b \in Blocks => ProcessHead(b) \in Proc
    BY IdleIsProc DEF ProcessHead, Proc, Stages
  <1> QED
    BY <1>1, <1>2

LEMMA LoopOKNext ==
  ASSUME LoopOK, NodeOK, [Next]_vars
  PROVE  LoopOK'
  <1> USE DEF LoopOK, engineVars
  <1>1. CASE New \/ SubscribeAborted \/ StartFails \/ SubscribeFails
    BY <1>1 DEF New, SubscribeAborted, StartFails, SubscribeFails, Return
  <1>2. CASE Subscribed \/ Cancel
    BY <1>2 DEF Subscribed, Cancel, NodeOK
  <1>3. CASE Crash
    BY <1>3 DEF Crash, Return
  <1>4. CASE Restart
    <2>1. run' = run + 1 /\ run < MaxRuns
      BY <1>4 DEF Restart
    <2>2. run' \in 1 .. MaxRuns
      BY <2>1, BoundsAssumption
    <2>3. pc' = "init" /\ result' = "none" /\ wallet' \in Wallets /\ cancelled' = FALSE /\ seen' = seen
      BY <1>4 DEF Restart
    <2> QED
      BY <2>2, <2>3
  <1>5. CASE NoSendReady \/ NotCancelled \/ NoHead \/ ProcessTerminated \/ ProcessPending
             \/ ProcessElapsed \/ SkipForPending \/ QueueSends \/ DropUnsigned \/ DrainDone
    BY <1>5 DEF NoSendReady, NotCancelled, NoHead, ProcessTerminated, ProcessPending,
                ProcessElapsed, SkipForPending, QueueSends, DropUnsigned, DrainDone, Goto
  <1>6. CASE TakeCancel \/ ProcessFails
    BY <1>6 DEF TakeCancel, ProcessFails
  <1>7. ASSUME NEW b \in Blocks, NewHead(b) PROVE LoopOK'
    BY <1>7 DEF NewHead
  <1>8. ASSUME NEW t, TakeConfirmed(t) \/ TakeRefused(t) \/ DrainTake(t) PROVE LoopOK'
    BY <1>8 DEF TakeConfirmed, TakeRefused, DrainTake
  <1>9. CASE EmitSends \/ StartMonitor \/ ExtractTxs \/ Answers
    BY <1>9 DEF EmitSends, StartMonitor, ExtractTxs, Answers, Tick, AnswerAt, AnswerPending,
                AnswerBlock, AwaitFails, EstimatesReturn, MonitorReturns
  <1>10. CASE Network
    BY <1>10 DEF Network, NodeAccepts, NodeRejects, Confirm, SendTimesOut, LateArrival, Mine
  <1>11. CASE UNCHANGED vars
    BY <1>11 DEF vars
  <1> QED
    BY <1>1, <1>2, <1>3, <1>4, <1>5, <1>6, <1>7, <1>8, <1>9, <1>10, <1>11
    DEF Next, Task, Loop, Drain, Outside

LEMMA MoveType ==
  ASSUME SendsOK, NEW T, NEW s \in Statuses, sends' = Move(T, s), late' \subseteq DOMAIN sends
  PROVE  SendsOK'
  BY DEF SendsOK, Move

LEMMA BatchType ==
  ASSUME TypeInv, proc.stage = "estimated"
  PROVE  Batch \subseteq Tx
  BY BoundsAssumption
  DEF TypeInv, TypeOK, ProcOK, Past, Batch, Tx, Nonces, Counts, Proc

LEMMA SendsOKNext ==
  ASSUME TypeInv, [Next]_vars
  PROVE  SendsOK'
  <1>1. SendsOK
    BY TypeParts
  <1>2. {"wire", "accepted", "confirmed", "refused", "ok", "lost"} \subseteq Statuses
    BY DEF Statuses, InFlight
  <1>3. \A s : Sent(s) \subseteq DOMAIN sends
    BY DEF Sent
  <1>4. CASE EmitSends \/ Crash
    BY <1>1, <1>2, <1>3, <1>4, MoveType DEF EmitSends, Crash, SendsOK
  <1>5. ASSUME NEW t, TakeConfirmed(t) \/ TakeRefused(t) \/ DrainTake(t) PROVE SendsOK'
    BY <1>1, <1>2, <1>5, MoveType DEF TakeConfirmed, TakeRefused, DrainTake, SendsOK
  <1>6. ASSUME NEW t, NodeAccepts(t) \/ NodeRejects(t) \/ Confirm(t) PROVE SendsOK'
    BY <1>1, <1>2, <1>6, MoveType DEF NodeAccepts, NodeRejects, Confirm, SendsOK
  <1>7. ASSUME NEW t, SendTimesOut(t) PROVE SendsOK'
    BY <1>1, <1>2, <1>3, <1>7, MoveType DEF SendTimesOut, SendsOK
  <1>8. CASE QueueSends
    <2>1. Batch \subseteq Tx
      BY <1>8, BatchType DEF QueueSends
    <2>2. sends' = [t \in DOMAIN sends \cup Batch |-> IF t \in Batch THEN "queued" ELSE sends[t]]
          /\ late' = late
      BY <1>8 DEF QueueSends
    <2> QED
      BY <1>1, <2>1, <2>2 DEF SendsOK, Statuses, InFlight
  <1>9. ASSUME NEW t, LateArrival(t) PROVE SendsOK'
    BY <1>1, <1>9 DEF LateArrival, SendsOK
  <1>10. CASE UNCHANGED <<sends, late>>
    BY <1>1, <1>10 DEF SendsOK
  <1>11. CASE New \/ Subscribed \/ StartFails \/ SubscribeFails \/ SubscribeAborted \/ Cancel \/ Restart
              \/ NoSendReady \/ TakeCancel \/ NotCancelled \/ NoHead \/ \E b \in Blocks : NewHead(b)
    BY <1>10, <1>11 DEF New, Subscribed, StartFails, SubscribeFails, SubscribeAborted, Cancel, Restart,
                        NoSendReady, TakeCancel, NotCancelled, NoHead, NewHead
  <1>12. CASE ProcessTerminated \/ ProcessPending \/ ProcessElapsed \/ ProcessFails
              \/ SkipForPending \/ StartMonitor \/ ExtractTxs \/ DropUnsigned \/ DrainDone
    BY <1>10, <1>12 DEF ProcessTerminated, ProcessPending, ProcessElapsed, ProcessFails,
                        SkipForPending, StartMonitor, ExtractTxs, DropUnsigned, DrainDone
  <1>13. CASE Answers
    BY <1>10, <1>13 DEF Answers, Tick, AnswerAt, AnswerPending, AnswerBlock, AwaitFails,
                        EstimatesReturn, MonitorReturns
  <1>14. CASE Mine \/ UNCHANGED vars
    BY <1>10, <1>14 DEF Mine, vars
  <1> QED
    BY <1>4, <1>5, <1>6, <1>7, <1>8, <1>9, <1>11, <1>12, <1>13, <1>14
    DEF Next, Task, Loop, Drain, Network, Outside

LEMMA NodeOKNext ==
  ASSUME TypeInv, [Next]_vars
  PROVE  NodeOK'
  <1>1. NodeOK /\ SendsOK
    BY TypeParts
  <1>2. CASE Mine
    <2>1. nodeHead + 1 \in Blocks
      BY <1>1, <1>2, BoundsAssumption DEF Mine, NodeOK, Blocks
    <2>2. PICK c \in Counts : /\ nonceAt' = [nonceAt EXCEPT ![nodeHead + 1] = c]
                             /\ pool' = {n \in pool : n >= c}
      BY <1>2 DEF Mine
    <2>3. nodeHead' = nodeHead + 1
      BY <1>2 DEF Mine
    <2> QED
      BY <1>1, <2>1, <2>2, <2>3 DEF NodeOK
  <1>3. \A t \in DOMAIN sends : t.nonce \in Nonces
    BY <1>1 DEF SendsOK, Tx
  <1>4. ASSUME NEW t, NodeAccepts(t) \/ LateArrival(t) PROVE NodeOK'
    BY <1>1, <1>3, <1>4 DEF NodeAccepts, LateArrival, NodeOK, SendsOK, Sent
  <1>5. CASE UNCHANGED nodeVars
    BY <1>1, <1>5 DEF NodeOK, nodeVars
  <1>6. ASSUME NEW t, NodeRejects(t) \/ Confirm(t) \/ SendTimesOut(t) PROVE NodeOK'
    BY <1>5, <1>6 DEF NodeRejects, Confirm, SendTimesOut
  <1>7. CASE Task
    BY <1>5, <1>7
    DEF Task, New, SubscribeAborted, Loop, Drain, EmitSends, NoSendReady, TakeConfirmed,
        TakeRefused, TakeCancel, NotCancelled, NoHead, NewHead, ProcessTerminated,
        ProcessPending, ProcessElapsed, ProcessFails, SkipForPending, StartMonitor, ExtractTxs,
        QueueSends, DropUnsigned, DrainDone, DrainTake
  <1>8. CASE Answers
    BY <1>5, <1>8 DEF Answers, Tick, AnswerAt, AnswerPending, AnswerBlock, AwaitFails,
                      EstimatesReturn, MonitorReturns
  <1>9. CASE Outside
    BY <1>5, <1>9 DEF Outside, Subscribed, StartFails, SubscribeFails, Cancel, Crash, Restart
  <1>10. CASE UNCHANGED vars
    BY <1>5, <1>10 DEF vars
  <1> QED
    BY <1>2, <1>4, <1>6, <1>7, <1>8, <1>9, <1>10 DEF Next, Network

LEMMA ProcOKNext ==
  ASSUME TypeInv, [Next]_vars
  PROVE  proc' \in Proc /\ ProcOK'
  <1> DEFINE Goal == proc' \in Proc /\ ProcOK'
  <1>1. proc \in Proc /\ ProcOK /\ NodeOK
    BY TypeParts
  <1>2. CASE UNCHANGED proc
    BY <1>1, <1>2 DEF ProcOK
  <1>3. CASE proc' = Idle
    BY <1>3, IdleIsProc DEF ProcOK, Past
  <1>4. ASSUME NEW b \in Blocks, NewHead(b) PROVE Goal
    <2>1. proc' \in Proc /\ proc'.stage \in {"none", "join"}
      BY <1>4, IdleIsProc, ProcessHeadFields DEF NewHead, Supersede
    <2> QED
      BY <2>1 DEF ProcOK, Past
  <1>5. CASE StartMonitor
    <2>1. proc' = [proc EXCEPT !.stage = "monitor"] /\ proc.pending = proc.at /\ proc.at # NoAnswer
      BY <1>5 DEF StartMonitor, NonceFree, JoinReady
    <2> QED
      BY <1>1, <2>1 DEF Proc, Stages, ProcOK, Past
  <1>6. CASE ExtractTxs
    <2>1. /\ proc.stage = "monitored"
          /\ \/ proc' = [proc EXCEPT !.stage = "estimated"]
             \/ proc' = [proc EXCEPT !.stage = "estimate"]
      BY <1>6 DEF ExtractTxs
    <2> QED
      BY <1>1, <2>1 DEF Proc, Stages, ProcOK, Past
  <1>7. CASE Tick
    <2>1. proc.clock + 1 \in 0 .. 2 /\ proc' = [proc EXCEPT !.clock = proc.clock + 1]
      BY <1>1, <1>7 DEF Tick, Proc
    <2> QED
      BY <1>1, <2>1 DEF Proc, ProcOK
  <1>8. CASE AnswerAt
    <2>1. nonceAt[proc.head] \in Counts
      BY <1>1 DEF NodeOK, Proc
    <2>2. proc.stage = "join" /\ proc' = [proc EXCEPT !.at = nonceAt[proc.head]]
      BY <1>8 DEF AnswerAt
    <2> QED
      BY <1>1, <2>1, <2>2 DEF Proc, ProcOK, Past
  <1>9. CASE AnswerPending
    <2>1. proc.stage = "join" /\ \E n \in Counts : proc' = [proc EXCEPT !.pending = n]
      BY <1>9 DEF AnswerPending
    <2> QED
      BY <1>1, <2>1 DEF Proc, ProcOK, Past
  <1>10. CASE AnswerBlock
    <2>1. proc' = [proc EXCEPT !.parent = nodeHead] /\ nodeHead \in Blocks
      BY <1>1, <1>10 DEF AnswerBlock, NodeOK
    <2> QED
      BY <1>1, <2>1 DEF Proc, ProcOK
  <1>11. CASE AwaitFails
    BY <1>1, <1>11 DEF AwaitFails, Proc, ProcOK
  <1>12. CASE EstimatesReturn
    BY <1>1, <1>12 DEF EstimatesReturn, Proc, ProcOK, Stages, Past
  <1>13. ASSUME NEW m \in 0 .. MaxTxs, MonitorReturns(m) PROVE Goal
    BY <1>1, <1>13 DEF MonitorReturns, Proc, ProcOK, Stages, Past
  <1>14. CASE New \/ Subscribed \/ StartFails \/ SubscribeFails \/ SubscribeAborted \/ Cancel \/ Restart
              \/ EmitSends \/ NoSendReady \/ NotCancelled \/ NoHead \/ ProcessTerminated
              \/ ProcessPending \/ DrainDone \/ Network \/ UNCHANGED vars
    BY <1>2, <1>14
    DEF New, Subscribed, StartFails, SubscribeFails, SubscribeAborted, Cancel, Restart, EmitSends,
        NoSendReady, NotCancelled, NoHead, ProcessTerminated, ProcessPending, DrainDone, Network,
        NodeAccepts, NodeRejects, Confirm, SendTimesOut, LateArrival, Mine, vars
  <1>15. CASE Crash \/ TakeCancel \/ ProcessElapsed \/ ProcessFails \/ SkipForPending
              \/ QueueSends \/ DropUnsigned
    BY <1>3, <1>15
    DEF Crash, TakeCancel, ProcessElapsed, ProcessFails, SkipForPending, QueueSends, DropUnsigned
  <1>16. ASSUME NEW t, TakeConfirmed(t) \/ TakeRefused(t) \/ DrainTake(t) PROVE Goal
    BY <1>2, <1>3, <1>16 DEF TakeConfirmed, TakeRefused, DrainTake
  <1> QED
    BY <1>4, <1>5, <1>6, <1>7, <1>8, <1>9, <1>10, <1>11, <1>12, <1>13, <1>14, <1>15, <1>16
    DEF Next, Task, Loop, Drain, Answers, Outside

LEMMA TypeInvNext == TypeInv /\ [Next]_vars => TypeInv'
  BY TypeParts, LoopOKNext, SendsOKNext, NodeOKNext, ProcOKNext
  DEF TypeInv, TypeOK, LoopOK, SendsOK, NodeOK

LEMMA TypeInvInit == Init => TypeInv
  <1> SUFFICES ASSUME Init PROVE TypeInv
    OBVIOUS
  <1>1. 0 \in Blocks /\ 0 \in Counts /\ 1 \in 1 .. MaxRuns
    BY BoundsAssumption DEF Blocks, Counts
  <1>2. LoopOK
    BY <1>1 DEF Init, LoopOK
  <1>3. SendsOK
    BY DEF Init, SendsOK
  <1>4. NodeOK
    BY <1>1 DEF Init, NodeOK
  <1>5. proc \in Proc /\ ProcOK
    BY IdleIsProc DEF Init, ProcOK, Past
  <1> QED
    BY <1>2, <1>3, <1>4, <1>5, TypeParts

\* The state always has its type: every nonce and count stays under its bound
\* and every transaction is one of a batch that fits there.
THEOREM TypeCorrect == Spec => []TypeOK
  <1>1. TypeInv /\ [Next]_vars => TypeInv'
    BY TypeInvNext
  <1> QED
    BY <1>1, TypeInvInit, PTL DEF Spec, TypeInv

-----------------------------------------------------------------------------
(***************************************************************************)
(* The inductive invariant, preserved by each class of steps.  Its types   *)
(* come from TypeInvNext; what remains is History and Work.                *)
(***************************************************************************)

History == Landed /\ GapFree /\ KnownUnique /\ BatchAfterMined
Work    == Phases /\ Heads /\ ProcXorSend /\ Answered

LEMMA IInvParts == IInv <=> TypeInv /\ Work /\ History
  BY DEF IInv, TypeInv, Work, History

\* In the loop, with nothing in flight, all that must not be reused was
\* confirmed.
LEMMA KnownOk ==
  ASSUME IInv, InLoop, Outstanding = {}, NEW t \in Known
  PROVE  sends[t] = "ok"
  <1>1. t \in DOMAIN sends
    BY DEF Known, SentNow
  <1>2. CASE t.run = run
    BY <1>1, <1>2 DEF IInv, TypeOK, Phases, SentNow, Outstanding, Statuses
  <1>3. CASE t.run < run
    <2>1. Clean
      BY <1>3, <1>1, BoundsAssumption DEF Known, SentNow, IInv, TypeOK, Tx
    <2> QED
      BY <1>1, <1>3, <2>1 DEF Clean
  <1> QED
    BY <1>1, <1>2, <1>3, BoundsAssumption DEF IInv, Phases, TypeOK, Tx

\* A transaction of the same run as a known one is known.
LEMMA KnownRun ==
  ASSUME NEW t \in Known, NEW u \in DOMAIN sends, u.run = t.run
  PROVE  u \in Known
  BY DEF Known, SentNow

\* The heart of the argument: whenever nothing is in flight, the pending count
\* the node answers with is above every nonce that must not be reused.  If it
\* were not, that very nonce would have been sent (GapFree) and would be
\* pooled or mined (Landed).
LEMMA PendingAboveKnown ==
  ASSUME IInv, InLoop, Outstanding = {},
         NEW n \in Counts, IsPendingCount(n), NEW t \in Known
  PROVE  t.nonce < n
  <1> SUFFICES ASSUME n <= t.nonce PROVE FALSE
    BY BoundsAssumption DEF Known, SentNow, IInv, TypeOK, Tx, Nonces, Counts
  <1>1. t \in DOMAIN sends /\ t \in Tx
    BY DEF Known, SentNow, IInv, TypeOK
  <1>2. nonceAt[t.head] <= Count /\ Count \in Nat /\ nonceAt[t.head] \in Nat
    BY <1>1, BoundsAssumption DEF IInv, TypeOK, Heads, Tx, Counts, Count, Blocks
  <1>3. n \in nonceAt[t.head] .. t.nonce
    BY <1>1, <1>2, BoundsAssumption DEF IsPendingCount, Counts, Tx, Nonces
  <1>4. PICK u \in DOMAIN sends : u.run = t.run /\ u.nonce = n
    BY <1>1, <1>3 DEF IInv, GapFree
  <1>5. sends[u] = "ok"
    BY <1>4, KnownRun, KnownOk
  <1>6. n \in pool \/ n < Count
    BY <1>4, <1>5 DEF IInv, Landed
  <1> QED
    BY <1>2, <1>6 DEF IsPendingCount, Counts

LEMMA SameSends ==
  ASSUME UNCHANGED <<sends, run>>
  PROVE  /\ SentNow' = SentNow /\ Outstanding' = Outstanding
         /\ Clean' = Clean /\ Known' = Known
  BY DEF SentNow, Outstanding, Clean, Known

LEMMA SameHistory ==
  ASSUME History, UNCHANGED <<sends, run, nodeVars>>
  PROVE  History'
  BY SameSends DEF History, Landed, GapFree, KnownUnique, BatchAfterMined, nodeVars, Count

\* Steps that move no send and nothing at the node: the processing goes on
\* with the same head and answers, takes in a good answer, or is dropped.
LEMMA QuietStep ==
  ASSUME IInv, UNCHANGED <<sends, run, seen, nodeVars>>,
         \/ proc' = Idle
         \/ proc' = proc /\ InLoop'
         \/ /\ proc.stage # "none" /\ proc'.stage # "none" /\ InLoop'
            /\ proc'.head = proc.head
            /\ proc'.at \in {proc.at, nonceAt[proc.head]}
            /\ \/ proc'.pending = proc.pending
               \/ \A t \in Known : t.nonce < proc'.pending,
         InLoop' => InLoop,
         pc' \in {"init", "subscribe", "done"} => Outstanding = {},
         pc' \in {"init", "subscribe"} => SentNow = {}
  PROVE  Work' /\ History'
  <1>1. History'
    BY SameHistory DEF IInv, History
  <1>2. Phases'
    BY SameSends DEF IInv, Phases
  <1>3. Heads'
    BY SameSends DEF IInv, Heads, Idle, nodeVars, Count
  <1>4. ProcXorSend'
    BY SameSends DEF IInv, ProcXorSend, Idle
  <1>5. Answered'
    BY SameSends DEF IInv, Answered, Idle, nodeVars, Phases
  <1> QED
    BY <1>1, <1>2, <1>3, <1>4, <1>5 DEF Work

\* Steps that only move sends in flight from one status to the next.
LEMMA MoveStep ==
  ASSUME IInv, NEW T \in SUBSET Outstanding, NEW s \in Statuses, s # "queued",
         sends' = Move(T, s),
         pool \subseteq pool',
         s \in {"accepted", "confirmed", "ok"} =>
            \A t \in T : t.nonce \in pool' \/ t.nonce < Count,
         s = "lost" => ~InLoop',
         InLoop' => InLoop,
         pc' \in {"init", "subscribe", "done"} => pc' = pc,
         proc' = Idle \/ (proc' = proc /\ InLoop'),
         UNCHANGED <<run, seen, nodeHead, nonceAt>>
  PROVE  Work' /\ History'
  <1> USE BoundsAssumption
  <1>1. /\ DOMAIN sends' = DOMAIN sends
        /\ \A t \in DOMAIN sends : sends'[t] = IF t \in T THEN s ELSE sends[t]
        /\ T \subseteq DOMAIN sends
    BY DEF Move, Outstanding
  <1>2. SentNow' = SentNow /\ Outstanding' \subseteq Outstanding /\ Count' = Count
    BY <1>1 DEF SentNow, Outstanding, Count
  <1>3. \A t \in DOMAIN sends : t.run < run => sends'[t] = sends[t]
    BY <1>1 DEF IInv, Phases, Outstanding, InFlight
  <1>4. Clean' = Clean
    BY <1>1, <1>3 DEF Clean
  <1>5. Known' = Known
    BY <1>1, <1>2, <1>4 DEF Known
  <1>6. Phases'
    <2>1. pc' \in {"init", "subscribe", "done"} => Outstanding' = {}
      BY <1>2 DEF IInv, Phases
    <2>2. pc' \in {"init", "subscribe"} => SentNow' = {}
      BY <1>2 DEF IInv, Phases
    <2>3. InLoop' => \A t \in SentNow' : sends'[t] # "lost"
      BY <1>1, <1>2 DEF IInv, Phases, SentNow
    <2>4. \A t \in DOMAIN sends' : t.run <= run' /\ (t.run < run' => sends'[t] \in {"ok", "lost"})
      BY <1>1, <1>3 DEF IInv, Phases
    <2>5. (~InLoop' => proc' = Idle) /\ (proc'.stage = "none" => proc' = Idle)
      BY DEF IInv, Phases
    <2> QED
      BY <2>1, <2>2, <2>3, <2>4, <2>5 DEF Phases
  <1>7. Heads'
    BY <1>1, <1>2 DEF IInv, Heads, Idle
  <1>8. ProcXorSend'
    BY <1>2 DEF IInv, ProcXorSend, Idle
  <1>9. Answered'
    BY <1>5 DEF IInv, Answered, Idle
  <1>10. Landed'
    BY <1>1, <1>2 DEF IInv, Landed
  <1>11. GapFree'
    BY <1>1 DEF IInv, GapFree
  <1>12. KnownUnique' /\ BatchAfterMined'
    BY <1>2, <1>5 DEF IInv, KnownUnique, BatchAfterMined
  <1> QED
    BY <1>6, <1>7, <1>8, <1>9, <1>10, <1>11, <1>12 DEF Work, History

\* A block is mined: the counts of the earlier blocks stay, and what leaves
\* the pool is below the new count.
LEMMA MineStep ==
  ASSUME IInv, Mine
  PROVE  Work' /\ History'
  <1> USE BoundsAssumption
  <1>1. PICK c \in Counts : /\ c >= Count
                           /\ nonceAt' = [nonceAt EXCEPT ![nodeHead + 1] = c]
                           /\ pool' = {n \in pool : n >= c}
    BY DEF Mine
  <1>2. nodeHead \in Nat /\ nodeHead' = nodeHead + 1 /\ nodeHead' \in Blocks
    BY DEF Mine, IInv, TypeOK, Blocks
  <1>3. /\ Count' = c
        /\ \A b \in Blocks : b <= nodeHead => nonceAt'[b] = nonceAt[b]
    BY <1>1, <1>2 DEF IInv, TypeOK, Count, Blocks
  <1>4. UNCHANGED <<engineVars, proc, sends, late>>
    BY DEF Mine
  <1>5. SentNow' = SentNow /\ Outstanding' = Outstanding /\ Known' = Known
    BY <1>4, SameSends DEF engineVars
  <1>6. Count \in Nat /\ c \in Nat
    BY DEF IInv, TypeOK, Count, Counts
  <1>7. \A t \in DOMAIN sends : t.head \in Blocks /\ t.head <= nodeHead /\ t.nonce \in Nat
    BY DEF IInv, TypeOK, Heads, Tx, Nonces
  <1>8. Phases'
    BY <1>4, <1>5 DEF IInv, Phases, engineVars, InLoop
  <1>9. Heads'
    <2>1. seen' <= nodeHead' /\ \A t \in DOMAIN sends' : t.head <= nodeHead'
      BY <1>2, <1>4, <1>7 DEF IInv, Heads, TypeOK, engineVars, Blocks
    <2>2. \A b \in Blocks : b <= nodeHead' => nonceAt'[b] <= Count'
      <3> SUFFICES ASSUME NEW b \in Blocks, b <= nodeHead' PROVE nonceAt'[b] <= Count'
        OBVIOUS
      <3>1. CASE b <= nodeHead
        BY <1>1, <1>3, <1>6, <3>1 DEF IInv, Heads, TypeOK, Counts
      <3>2. CASE b = nodeHead'
        BY <1>1, <1>3, <1>6, <3>2 DEF Count
      <3> QED
        BY <1>2, <3>1, <3>2 DEF Blocks
    <2> QED
      BY <1>4, <1>5, <2>1, <2>2 DEF IInv, Heads, engineVars
  <1>10. ProcXorSend'
    BY <1>4, <1>5 DEF IInv, ProcXorSend
  <1>11. Answered'
    <2>1. proc.at # NoAnswer => proc.head \in Blocks /\ proc.head <= nodeHead
      BY DEF IInv, TypeOK, Proc, Heads, Phases, Idle
    <2> QED
      BY <1>3, <1>4, <1>5, <2>1 DEF IInv, Answered
  <1>12. Landed'
    BY <1>1, <1>3, <1>4, <1>6, <1>7 DEF IInv, Landed
  <1>13. GapFree'
    BY <1>3, <1>4, <1>7 DEF IInv, GapFree
  <1>14. KnownUnique' /\ BatchAfterMined'
    BY <1>3, <1>5, <1>7 DEF IInv, KnownUnique, BatchAfterMined, SentNow
  <1> QED
    BY <1>8, <1>9, <1>10, <1>11, <1>12, <1>13, <1>14 DEF Work, History

\* A request nobody waits for reaches the node: the pool only grows.
LEMMA LateStep ==
  ASSUME IInv, NEW t \in late, LateArrival(t)
  PROVE  Work' /\ History'
  <1>1. UNCHANGED <<engineVars, proc, sends, nodeHead, nonceAt>> /\ pool \subseteq pool'
    BY DEF LateArrival
  <1>2. SentNow' = SentNow /\ Outstanding' = Outstanding /\ Known' = Known
    BY <1>1, SameSends DEF engineVars
  <1>3. Phases' /\ Heads' /\ ProcXorSend' /\ Answered'
    BY <1>1, <1>2 DEF IInv, Phases, Heads, ProcXorSend, Answered, engineVars, InLoop, Count
  <1>4. Landed' /\ GapFree'
    BY <1>1 DEF IInv, Landed, GapFree, Count
  <1>5. KnownUnique' /\ BatchAfterMined'
    BY <1>1, <1>2 DEF IInv, KnownUnique, BatchAfterMined
  <1> QED
    BY <1>3, <1>4, <1>5 DEF Work, History

\* A new head is delivered, or the stream of heads starts.
LEMMA HeadStep ==
  ASSUME IInv, UNCHANGED <<run, sends, nodeVars>>, pc' = "sends",
         InLoop \/ pc = "subscribe",
         seen' \in Blocks, seen <= seen', seen' <= nodeHead,
         proc' = Idle \/ (Outstanding = {} /\ proc' = ProcessHead(seen'))
  PROVE  Work' /\ History'
  <1> USE BoundsAssumption
  <1>1. SentNow' = SentNow /\ Outstanding' = Outstanding /\ Known' = Known
    BY SameSends
  <1>2. History'
    BY SameHistory DEF IInv, History
  <1>3. Phases'
    <2>1. \A t \in SentNow : sends[t] # "lost"
      BY DEF IInv, Phases
    <2>2. proc'.stage = "none" => proc' = Idle
      BY DEF ProcessHead, Idle
    <2>3. \A t \in DOMAIN sends : t.run <= run /\ (t.run < run => sends[t] \in {"ok", "lost"})
      BY DEF IInv, Phases
    <2> QED
      BY <1>1, <2>1, <2>2, <2>3 DEF Phases, InLoop
  <1>4. \A t \in SentNow : t.head <= seen'
    <2> SUFFICES ASSUME NEW t \in SentNow PROVE t.head <= seen'
      OBVIOUS
    <2>1. t.head \in Nat /\ seen \in Nat /\ seen' \in Nat
      BY DEF IInv, TypeOK, SentNow, Tx, Blocks
    <2>2. t.head <= seen
      BY DEF IInv, Heads
    <2> QED
      BY <2>1, <2>2
  <1>5. Heads'
    <2>1. proc'.stage # "none" => proc'.head = seen'
      BY ProcessHeadFields DEF Idle
    <2>2. UNCHANGED <<nodeHead, nonceAt, sends>> /\ Count' = Count
      BY DEF nodeVars, Count
    <2>3. /\ \A t \in DOMAIN sends : t.head <= nodeHead
          /\ \A b \in Blocks : b <= nodeHead => nonceAt[b] <= Count
      BY DEF IInv, Heads
    <2> QED
      BY <1>1, <1>4, <2>1, <2>2, <2>3 DEF Heads
  <1>6. proc'.at = NoAnswer /\ proc'.pending = NoAnswer
    BY ProcessHeadFields DEF Idle
  <1>7. proc'.stage # "none" => Outstanding = {}
    BY DEF Idle
  <1>8. ProcXorSend' /\ Answered'
    BY <1>1, <1>6, <1>7 DEF ProcXorSend, Answered
  <1> QED
    BY <1>2, <1>3, <1>5, <1>8 DEF Work

\* A batch is queued: it starts at the count of its head, above everything
\* known, and follows it without a gap.
LEMMA QueueStep ==
  ASSUME IInv, TypeOK', QueueSends
  PROVE  Work' /\ History'
  <1> USE BoundsAssumption
  <1> DEFINE k == proc.at
  <1>1. /\ proc.stage = "estimated" /\ pc = "process" /\ pc' = "sends" /\ proc' = Idle
        /\ UNCHANGED <<run, seen, nodeHead, nonceAt, pool>>
    BY DEF QueueSends, Goto, nodeVars
  <1>2. k \in Counts /\ k = nonceAt[proc.head] /\ k = proc.pending /\ proc.calls \in 0 .. MaxTxs
    BY <1>1 DEF IInv, TypeOK, Proc, ProcOK, Past, Answered, Counts, NoAnswer
  <1>3. Outstanding = {} /\ proc.head = seen /\ seen \in Blocks /\ seen <= nodeHead
    BY <1>1 DEF IInv, ProcXorSend, Heads, TypeOK
  <1>4. \A t \in Known : t.nonce < k
    BY <1>2 DEF IInv, Answered, NoAnswer, Counts
  <1>5. SentNow \subseteq Known /\ Known \subseteq DOMAIN sends
    BY DEF Known, SentNow
  <1>6. \A t \in Batch : /\ t.run = run /\ t.head = seen /\ t.nonce \in k .. k + proc.calls - 1
    BY <1>3 DEF Batch
  <1>7. \A t, u \in Batch : t.nonce = u.nonce => t = u
    BY DEF Batch
  <1>8. /\ DOMAIN sends' = DOMAIN sends \cup Batch
        /\ \A t \in DOMAIN sends' : sends'[t] = IF t \in Batch THEN "queued" ELSE sends[t]
    BY DEF QueueSends
  <1>9. Batch \cap DOMAIN sends = {}
    <2> SUFFICES ASSUME NEW t \in Batch, t \in DOMAIN sends PROVE FALSE
      OBVIOUS
    <2>1. t \in SentNow
      BY <1>6 DEF SentNow
    <2>2. t.nonce < k /\ t.nonce \in k .. k + proc.calls - 1
      BY <1>4, <1>5, <1>6, <2>1
    <2> QED
      BY <1>2, <2>2 DEF Counts
  <1>10. SentNow' = SentNow \cup Batch
    BY <1>1, <1>6, <1>8 DEF SentNow
  <1>11. Known' = Known \cup Batch
    <2>1. Clean' = Clean
      BY <1>1, <1>6, <1>8, <1>9 DEF Clean, IInv, TypeOK
    <2> QED
      BY <1>8, <1>10, <2>1 DEF Known
  <1>12. Count' = Count /\ Count \in Nat /\ k \in Nat
    BY <1>1, <1>2 DEF Count, IInv, TypeOK, Counts
  <1>13. \A t \in Batch : nonceAt[t.head] = k /\ k <= t.nonce
    <2> SUFFICES ASSUME NEW t \in Batch PROVE nonceAt[t.head] = k /\ k <= t.nonce
      OBVIOUS
    <2>1. t.head = proc.head
      BY <1>3, <1>6
    <2>2. t.nonce \in k .. k + proc.calls - 1
      BY <1>6
    <2>3. proc.calls \in Int
      BY <1>2
    <2>4. k <= t.nonce
      BY <1>12, <2>2, <2>3
    <2> QED
      BY <1>2, <2>1, <2>4
  <1>14. Phases'
    <2>1. \A t \in SentNow' : sends'[t] # "lost"
      BY <1>1, <1>8, <1>9, <1>10 DEF IInv, Phases, InLoop, SentNow
    <2>2. \A t \in DOMAIN sends' : t.run <= run' /\ (t.run < run' => sends'[t] \in {"ok", "lost"})
      BY <1>1, <1>6, <1>8, <1>9 DEF IInv, Phases, TypeOK
    <2> QED
      BY <1>1, <2>1, <2>2 DEF Phases
  <1>15. Heads'
    <2>1. \A t \in DOMAIN sends' : t.head <= nodeHead'
      BY <1>1, <1>3, <1>6, <1>8 DEF IInv, Heads
    <2>2. \A t \in SentNow' : t.head <= seen'
      BY <1>1, <1>3, <1>6, <1>10 DEF IInv, Heads, Blocks
    <2> QED
      BY <1>1, <1>12, <2>1, <2>2 DEF IInv, Heads, Idle
  <1>16. ProcXorSend' /\ Answered'
    BY <1>1 DEF ProcXorSend, Answered, Idle
  <1>17. Landed'
    BY <1>1, <1>8, <1>9, <1>12 DEF IInv, Landed
  <1>18. GapFree'
    <2> SUFFICES ASSUME NEW t \in DOMAIN sends'
                 PROVE  /\ nonceAt[t.head] <= t.nonce
                        /\ \A n \in nonceAt[t.head] .. t.nonce :
                             \E u \in DOMAIN sends' : u.run = t.run /\ u.nonce = n
      BY <1>1 DEF GapFree
    <2>1. CASE t \in DOMAIN sends
      BY <1>8, <2>1 DEF IInv, GapFree
    <2>2. CASE t \in Batch
      <3>1. nonceAt[t.head] = k /\ k <= t.nonce
        BY <1>13, <2>2
      <3>2. ASSUME NEW n \in k .. t.nonce
            PROVE  \E u \in DOMAIN sends' : u.run = t.run /\ u.nonce = n
        <4> DEFINE u == [run |-> run, head |-> proc.head, nonce |-> n]
        <4>1. n \in k .. k + proc.calls - 1
          BY <1>2, <1>6, <2>2 DEF Counts
        <4>2. u \in Batch
          BY <4>1 DEF Batch
        <4> QED
          BY <1>6, <1>8, <2>2, <4>2
      <3> QED
        BY <3>1, <3>2
    <2> QED
      BY <1>8, <2>1, <2>2
  <1>19. KnownUnique'
    <2> SUFFICES ASSUME NEW t \in Known', NEW u \in Known', t.nonce = u.nonce PROVE t = u
      BY DEF KnownUnique
    <2>1. \A v \in Batch, w \in Known : w.nonce < v.nonce
      BY <1>2, <1>4, <1>5, <1>6 DEF Counts, IInv, TypeOK, Tx, Nonces
    <2>2. CASE t \in Known /\ u \in Known
      BY <2>2 DEF IInv, KnownUnique
    <2>3. CASE t \in Batch /\ u \in Batch
      BY <1>7, <2>3
    <2>4. \A w \in Known \cup Batch : w.nonce \in Int
      BY <1>2, <1>5, <1>6 DEF Counts, IInv, TypeOK, Tx, Nonces
    <2> QED
      BY <1>11, <2>1, <2>2, <2>3, <2>4
  <1>20. BatchAfterMined'
    <2> SUFFICES ASSUME NEW t \in SentNow', NEW u \in SentNow', t.head < u.head
                 PROVE  t.nonce < nonceAt[u.head] /\ nonceAt[u.head] <= u.nonce
      BY <1>1 DEF BatchAfterMined
    <2>1. CASE t \in SentNow /\ u \in SentNow
      BY <2>1 DEF IInv, BatchAfterMined
    <2>2. CASE u \in Batch
      <3>1. t \in SentNow
        BY <1>3, <1>6, <1>10, <2>2 DEF Blocks
      <3>2. t.nonce < k
        BY <1>4, <1>5, <3>1
      <3> QED
        BY <1>13, <2>2, <3>2
    <2>3. CASE t \in Batch /\ u \in SentNow
      <3>1. u.head <= seen /\ u.head \in Int /\ t.head = seen
        BY <1>6, <2>3 DEF IInv, Heads, TypeOK, SentNow, Tx, Blocks
      <3> QED
        BY <1>3, <3>1 DEF Blocks
    <2> QED
      BY <1>10, <2>1, <2>2, <2>3
  <1> QED
    BY <1>14, <1>15, <1>16, <1>17, <1>18, <1>19, <1>20 DEF Work, History

\* The program is killed: what was in flight is lost, and the loop is left.
LEMMA CrashStep ==
  ASSUME IInv, Crash
  PROVE  Work' /\ History'
  <1>1. Outstanding \subseteq DOMAIN sends
    BY DEF Outstanding
  <1>2. /\ sends' = Move(Outstanding, "lost") /\ pc' = "done" /\ proc' = Idle
        /\ UNCHANGED <<run, seen, nodeHead, nonceAt, pool>>
    BY DEF Crash, Return, nodeVars
  <1>3. /\ DOMAIN sends' = DOMAIN sends
        /\ \A t \in DOMAIN sends : sends'[t] = IF t \in Outstanding THEN "lost" ELSE sends[t]
    BY <1>2 DEF Move
  <1>4. SentNow' = SentNow /\ Outstanding' = {} /\ Count' = Count
    BY <1>2, <1>3 DEF SentNow, Outstanding, InFlight, Count
  <1>5. \A t \in DOMAIN sends : t.run < run => sends'[t] = sends[t]
    BY <1>3 DEF IInv, Phases, Outstanding, InFlight
  <1>6. Known' = Known
    BY <1>2, <1>3, <1>4, <1>5 DEF Known, Clean
  <1>7. Phases'
    BY <1>2, <1>3, <1>4, <1>5 DEF IInv, Phases, InLoop
  <1>8. Heads' /\ ProcXorSend' /\ Answered'
    BY <1>2, <1>3, <1>4 DEF IInv, Heads, ProcXorSend, Answered, Idle
  <1>9. Landed' /\ GapFree'
    BY <1>2, <1>3, <1>4 DEF IInv, Landed, GapFree
  <1>10. KnownUnique' /\ BatchAfterMined'
    BY <1>2, <1>4, <1>6 DEF IInv, KnownUnique, BatchAfterMined
  <1> QED
    BY <1>7, <1>8, <1>9, <1>10 DEF Work, History

\* The next run has sent nothing; it inherits the earlier transactions as
\* known only when all of them were confirmed.
LEMMA RestartStep ==
  ASSUME IInv, Restart
  PROVE  Work' /\ History'
  <1> USE BoundsAssumption
  <1>1. /\ pc = "done" /\ pc' = "init" /\ run' = run + 1
        /\ UNCHANGED <<seen, proc, sends, nodeHead, nonceAt, pool>>
    BY DEF Restart, nodeVars
  <1>2. run \in Nat /\ \A t \in DOMAIN sends : t.run \in Nat /\ t.run <= run
    BY DEF IInv, TypeOK, Phases, Tx
  <1>3. SentNow' = {} /\ Outstanding' = {}
    BY <1>1, <1>2 DEF SentNow, Outstanding, IInv, Phases
  <1>4. \A t \in DOMAIN sends : sends[t] \in {"ok", "lost"}
    BY <1>1, <1>3 DEF IInv, TypeOK, Outstanding, Statuses, Phases
  <1>5. Known' \subseteq Known
    <2>1. CASE Clean'
      <3>1. Clean
        BY <1>1, <1>2, <2>1 DEF Clean
      <3> QED
        BY <1>1, <2>1, <3>1 DEF Known
    <2>2. CASE ~Clean'
      BY <1>3, <2>2 DEF Known
    <2> QED
      BY <2>1, <2>2
  <1>6. Phases'
    BY <1>1, <1>2, <1>3, <1>4 DEF IInv, Phases, InLoop
  <1>7. Heads' /\ ProcXorSend'
    BY <1>1, <1>3 DEF IInv, Heads, ProcXorSend, Count
  <1>8. Answered'
    BY <1>1 DEF IInv, Phases, InLoop, Answered, Idle
  <1>9. Landed' /\ GapFree'
    BY <1>1 DEF IInv, Landed, GapFree, Count
  <1>10. KnownUnique' /\ BatchAfterMined'
    BY <1>3, <1>5 DEF IInv, KnownUnique, BatchAfterMined
  <1> QED
    BY <1>6, <1>7, <1>8, <1>9, <1>10 DEF Work, History

-----------------------------------------------------------------------------
\* Every step of the specification falls in one of those classes.
LEMMA WorkAndHistoryNext ==
  ASSUME IInv, TypeInv', [Next]_vars
  PROVE  Work' /\ History'
  <1> USE DEF engineVars
  <1>1. CASE New
    BY <1>1, QuietStep DEF New, Return, InLoop, IInv, Phases, WalletAccepted
  <1>2. CASE SubscribeAborted \/ StartFails \/ SubscribeFails
    BY <1>2, QuietStep DEF SubscribeAborted, StartFails, SubscribeFails, Return, InLoop, IInv, Phases
  <1>3. CASE Subscribed
    <2>1. /\ pc = "subscribe" /\ pc' = "sends" /\ seen' = nodeHead /\ proc' = Idle
          /\ UNCHANGED <<run, sends, nodeVars>>
      BY <1>3 DEF Subscribed, IInv, Phases, InLoop
    <2>2. seen' \in Blocks /\ seen <= seen' /\ seen' <= nodeHead
      BY <2>1 DEF IInv, TypeOK, Heads, Blocks
    <2> QED
      BY <2>1, <2>2, HeadStep
  <1>4. CASE Cancel
    BY <1>4, QuietStep DEF Cancel, InLoop, IInv, Phases
  <1>5. CASE Crash
    BY <1>5, CrashStep
  <1>6. CASE Restart
    BY <1>6, RestartStep
  <1>7. CASE NoSendReady \/ NotCancelled \/ NoHead \/ ProcessTerminated \/ ProcessPending
    BY <1>7, QuietStep
    DEF NoSendReady, NotCancelled, NoHead, ProcessTerminated, ProcessPending, Goto, InLoop
  <1>8. CASE TakeCancel \/ ProcessElapsed \/ ProcessFails \/ SkipForPending \/ DropUnsigned
    BY <1>8, QuietStep
    DEF TakeCancel, ProcessElapsed, ProcessFails, SkipForPending, DropUnsigned, Goto, InLoop
  <1>9. CASE DrainDone
    BY <1>9, QuietStep DEF DrainDone, MayReturn, Goto, InLoop, IInv, Phases
  <1>10. ASSUME NEW b \in Blocks, NewHead(b) PROVE Work' /\ History'
    BY <1>10, HeadStep, BoundsAssumption
    DEF NewHead, Supersede, MayProcess, InLoop, IInv, TypeOK, Blocks
  <1>11. CASE StartMonitor \/ ExtractTxs \/ EstimatesReturn
    <2>1. \/ proc.stage = "join" /\ proc' = [proc EXCEPT !.stage = "monitor"]
          \/ /\ proc.stage = "monitored"
             /\ proc' = [proc EXCEPT !.stage = IF proc.calls = 0 THEN "estimated" ELSE "estimate"]
          \/ proc.stage = "estimate" /\ proc' = [proc EXCEPT !.stage = "estimated"]
      BY <1>11 DEF StartMonitor, ExtractTxs, EstimatesReturn
    <2>2. /\ proc.stage # "none" /\ proc'.stage # "none" /\ proc'.head = proc.head
          /\ proc'.at = proc.at /\ proc'.pending = proc.pending
      BY <2>1 DEF IInv, TypeOK, Proc
    <2>3. UNCHANGED <<engineVars, sends, nodeVars>>
      BY <1>11 DEF StartMonitor, ExtractTxs, EstimatesReturn
    <2> QED
      BY <2>2, <2>3, QuietStep DEF IInv, Phases, InLoop, Idle
  <1>12. CASE Tick \/ AnswerBlock \/ AwaitFails \/ \E m \in 0 .. MaxTxs : MonitorReturns(m)
    <2>1. /\ proc.stage # "none"
          /\ \/ proc' = [proc EXCEPT !.clock = @ + 1]
             \/ proc' = [proc EXCEPT !.parent = nodeHead]
             \/ proc' = [proc EXCEPT !.failed = TRUE]
             \/ \E m \in 0 .. MaxTxs : proc' = [proc EXCEPT !.stage = "monitored", !.calls = m]
      BY <1>12 DEF Tick, AnswerBlock, AwaitFails, Waiting, MonitorReturns
    <2>2. /\ proc'.stage # "none" /\ proc'.head = proc.head
          /\ proc'.at = proc.at /\ proc'.pending = proc.pending
      BY <2>1 DEF IInv, TypeOK, Proc
    <2>3. UNCHANGED <<engineVars, sends, nodeVars>>
      BY <1>12 DEF Tick, AnswerBlock, AwaitFails, MonitorReturns
    <2>4. proc.stage # "none"
      BY <2>1
    <2>5. InLoop /\ InLoop'
      BY <2>3, <2>4 DEF IInv, Phases, InLoop, Idle
    <2> QED
      BY <2>2, <2>3, <2>4, <2>5, QuietStep DEF InLoop
  <1>13. CASE AnswerAt
    <2>1. /\ proc.stage # "none" /\ proc'.stage # "none" /\ proc'.head = proc.head
          /\ proc'.at = nonceAt[proc.head] /\ proc'.pending = proc.pending
          /\ UNCHANGED <<engineVars, sends, nodeVars>>
      BY <1>13 DEF AnswerAt, IInv, TypeOK, Proc
    <2> QED
      BY <2>1, QuietStep DEF IInv, Phases, InLoop, Idle
  <1>14. CASE AnswerPending
    <2>1. PICK n \in Counts : IsPendingCount(n) /\ proc' = [proc EXCEPT !.pending = n]
      BY <1>14 DEF AnswerPending
    <2>2. /\ proc.stage # "none" /\ proc'.stage # "none" /\ proc'.head = proc.head
          /\ proc'.at = proc.at /\ proc'.pending = n
          /\ UNCHANGED <<engineVars, sends, nodeVars>>
      BY <1>14, <2>1 DEF AnswerPending, IInv, TypeOK, Proc
    <2>3. InLoop /\ Outstanding = {}
      BY <2>2 DEF IInv, Phases, ProcXorSend, Idle
    <2>4. \A t \in Known : t.nonce < n
      BY <2>1, <2>3, PendingAboveKnown
    <2> QED
      BY <2>2, <2>3, <2>4, QuietStep DEF InLoop
  <1>15. CASE QueueSends
    BY <1>15, QueueStep DEF TypeInv
  <1>16. CASE EmitSends
    <2>1. Sent("queued") \in SUBSET Outstanding
      BY DEF Sent, Outstanding, InFlight
    <2> QED
      BY <1>16, <2>1, MoveStep DEF EmitSends, Statuses, InFlight, IInv, Phases, nodeVars, InLoop
  <1>17. ASSUME NEW t \in DOMAIN sends, TakeConfirmed(t) \/ TakeRefused(t) \/ DrainTake(t)
         PROVE  Work' /\ History'
    <2>1. {t} \in SUBSET Outstanding
      BY <1>17 DEF TakeConfirmed, TakeRefused, DrainTake, Sent, Outstanding, InFlight
    <2>2. t \in Sent("confirmed") => t.nonce \in pool \/ t.nonce < Count
      BY DEF Sent, IInv, Landed
    <2>3. CASE TakeConfirmed(t)
      BY <2>1, <2>2, <2>3, MoveStep DEF TakeConfirmed, Statuses, IInv, Phases, nodeVars, InLoop
    <2>4. CASE TakeRefused(t)
      BY <2>1, <2>4, MoveStep DEF TakeRefused, Statuses, nodeVars, InLoop
    <2>5. CASE DrainTake(t)
      BY <2>1, <2>2, <2>5, MoveStep DEF DrainTake, Statuses, IInv, Phases, nodeVars, InLoop
    <2> QED
      BY <1>17, <2>3, <2>4, <2>5
  <1>18. ASSUME NEW t \in DOMAIN sends,
                NodeAccepts(t) \/ NodeRejects(t) \/ Confirm(t) \/ SendTimesOut(t)
         PROVE  Work' /\ History'
    <2>1. {t} \in SUBSET Outstanding
      BY <1>18 DEF NodeAccepts, NodeRejects, Confirm, SendTimesOut, Sent, Outstanding, InFlight
    <2>2. t \in Sent("accepted") => t.nonce \in pool \/ t.nonce < Count
      BY DEF Sent, IInv, Landed
    <2>3. proc' = Idle \/ (proc' = proc /\ InLoop')
      BY <1>18 DEF NodeAccepts, NodeRejects, Confirm, SendTimesOut, IInv, Phases, InLoop
    <2>4. UNCHANGED engineVars /\ UNCHANGED <<nodeHead, nonceAt>>
      BY <1>18 DEF NodeAccepts, NodeRejects, Confirm, SendTimesOut, nodeVars
    <2>5. CASE NodeAccepts(t)
      BY <2>1, <2>3, <2>4, <2>5, MoveStep DEF NodeAccepts, Statuses, InFlight, InLoop
    <2>6. CASE NodeRejects(t) \/ SendTimesOut(t)
      BY <2>1, <2>3, <2>4, <2>6, MoveStep
      DEF NodeRejects, SendTimesOut, Statuses, InFlight, InLoop, nodeVars
    <2>7. CASE Confirm(t)
      BY <2>1, <2>2, <2>3, <2>4, <2>7, MoveStep DEF Confirm, Statuses, InFlight, InLoop, nodeVars
    <2> QED
      BY <1>18, <2>5, <2>6, <2>7
  <1>19. ASSUME NEW t \in late, LateArrival(t) PROVE Work' /\ History'
    BY <1>19, LateStep
  <1>20. CASE Mine
    BY <1>20, MineStep
  <1>21. CASE UNCHANGED vars
    BY <1>21, QuietStep DEF vars, InLoop, IInv, Phases
  <1> QED
    BY <1>1, <1>2, <1>3, <1>4, <1>5, <1>6, <1>7, <1>8, <1>9, <1>10, <1>11, <1>12, <1>13, <1>14,
       <1>15, <1>16, <1>17, <1>18, <1>19, <1>20, <1>21
    DEF Next, Task, Loop, Drain, Answers, Network, Outside

LEMMA IInvInit == Init => IInv
  <1> SUFFICES ASSUME Init PROVE IInv
    OBVIOUS
  <1>1. TypeInv
    BY TypeInvInit
  <1>2. Work
    BY BoundsAssumption
    DEF Init, Work, Phases, Heads, ProcXorSend, Answered, Outstanding, SentNow, InLoop, Idle,
        Blocks, Count
  <1>3. History
    BY DEF Init, History, Landed, GapFree, KnownUnique, BatchAfterMined, Known, SentNow
  <1> QED
    BY <1>1, <1>2, <1>3, IInvParts

THEOREM InductiveInvariant == Spec => []IInv
  <1>1. IInv /\ [Next]_vars => IInv'
    <2> SUFFICES ASSUME IInv, [Next]_vars PROVE IInv'
      OBVIOUS
    <2>1. TypeInv'
      BY IInvParts, TypeInvNext
    <2>2. Work' /\ History'
      BY <2>1, WorkAndHistoryNext
    <2> QED
      BY <2>1, <2>2 DEF IInv, TypeInv, Work, History
  <1> QED
    BY <1>1, IInvInit, PTL DEF Spec

\* Within a run no nonce is ever given to two transactions.
THEOREM NoncesNeverReused == Spec => []NonceUnique
  <1>1. IInv => NonceUnique
    BY DEF IInv, KnownUnique, Known, SentNow, NonceUnique
  <1> QED
    BY <1>1, InductiveInvariant, PTL

\* After a run whose sends were all confirmed, no later run reuses a nonce.
THEOREM RestartsAreClean == Spec => []CleanRestart
  <1>1. IInv => CleanRestart
    BY DEF IInv, KnownUnique, Known, Clean, CleanRestart
  <1> QED
    BY <1>1, InductiveInvariant, PTL

\* A batch for a head starts above everything the run sent before, and only
\* when all of that is mined at that head.
THEOREM BatchesFollowMining == Spec => []BatchAfterMined
  <1>1. IInv => BatchAfterMined
    BY DEF IInv
  <1> QED
    BY <1>1, InductiveInvariant, PTL

\* Only the newest delivered head is processed, and never while transactions
\* of an earlier one are being sent.
THEOREM ProcessingIsCurrent == Spec => [](NoStaleWork /\ ProcXorSend)
  <1>1. IInv => NoStaleWork /\ ProcXorSend
    BY DEF IInv, Heads, NoStaleWork
  <1> QED
    BY <1>1, InductiveInvariant, PTL

\* A run that ended has no send without a result.
THEOREM RunsEndDrained == Spec => []DrainedAtExit
  <1>1. IInv => DrainedAtExit
    BY DEF IInv, Phases, DrainedAtExit
  <1> QED
    BY <1>1, InductiveInvariant, PTL

-----------------------------------------------------------------------------
(***************************************************************************)
(* The engine implements NonceLedger.                                      *)
(***************************************************************************)

Used == {t.nonce : t \in SentNow}

\* What a step of the engine may do to the nonces of the run and the count.
LEMMA LedgerStep ==
  ASSUME IInv, [Next]_vars
  PROVE  Ledger!Next \/ (Used' = Used /\ Count' = Count)
  <1> USE BoundsAssumption
  <1>1. \A T, s : DOMAIN Move(T, s) = DOMAIN sends
    BY DEF Move
  <1>2. CASE DOMAIN sends' = DOMAIN sends /\ UNCHANGED <<run, nodeHead, nonceAt>>
    <2>1. SentNow' = SentNow /\ Count' = Count
      BY <1>2 DEF SentNow, Count
    <2> QED
      BY <2>1 DEF Used
  <1>3. CASE Mine
    <2>1. PICK c \in Counts : c >= Count /\ nonceAt' = [nonceAt EXCEPT ![nodeHead + 1] = c]
      BY <1>3 DEF Mine
    <2>2. nodeHead' = nodeHead + 1 /\ nodeHead + 1 \in Blocks
      BY <1>3 DEF Mine, IInv, TypeOK, Blocks
    <2>3. Count' = c
      BY <2>1, <2>2 DEF Count, IInv, TypeOK
    <2>4. Used' = Used
      BY <1>3, SameSends DEF Mine, engineVars, Used
    <2>5. Count \in Nat
      BY DEF IInv, TypeOK, Count, Counts
    <2>6. Count' = Count \/ Count' \in Count + 1 .. MaxNonce
      BY <2>1, <2>3, <2>5 DEF Counts
    <2> QED
      BY <2>4, <2>6 DEF Ledger!Next, Ledger!Settle, Used
  <1>4. CASE Restart
    <2>1. SentNow' = {}
      BY <1>4 DEF Restart, SentNow, IInv, TypeOK, Phases, Tx
    <2>2. Count' = Count
      BY <1>4 DEF Restart, nodeVars, Count
    <2> QED
      BY <2>1, <2>2 DEF Ledger!Next, Ledger!Forget
  <1>5. CASE QueueSends
    <2> DEFINE k == proc.at
               m == proc.calls
    <2>1. proc.stage = "estimated" /\ UNCHANGED <<run, nodeHead, nonceAt>>
      BY <1>5 DEF QueueSends, Goto, nodeVars
    <2>2. k \in Nat /\ k = nonceAt[proc.head] /\ k = proc.pending /\ m \in 0 .. MaxTxs
      BY <2>1 DEF IInv, TypeOK, Proc, ProcOK, Past, Answered, Counts, NoAnswer
    <2>3. k <= Count /\ Count \in Nat
      <3>1. proc.head = seen /\ seen \in Blocks /\ seen <= nodeHead
        BY <2>1 DEF IInv, TypeOK, Heads
      <3>2. nonceAt[seen] <= Count
        BY <3>1 DEF IInv, Heads
      <3>3. Count \in Nat
        BY DEF IInv, TypeOK, Count, Counts
      <3> QED
        BY <2>2, <3>1, <3>2, <3>3
    <2>4. \A t \in SentNow : t.nonce < k
      BY <2>2 DEF IInv, Answered, NoAnswer, Known, SentNow
    <2>5. SentNow' = SentNow \cup Batch
      BY <1>5, <2>1 DEF QueueSends, SentNow, Batch
    <2>6. {t.nonce : t \in Batch} = k .. k + m - 1
      <3>1. ASSUME NEW n \in k .. k + m - 1 PROVE \E t \in Batch : t.nonce = n
        <4>1. [run |-> run, head |-> proc.head, nonce |-> n] \in Batch
          BY DEF Batch
        <4> QED
          BY <4>1
      <3>2. \A t \in Batch : t.nonce \in k .. k + m - 1
        BY DEF Batch
      <3> QED
        BY <3>1, <3>2
    <2>7. Used' = Used \cup (k .. k + m - 1)
      BY <2>5, <2>6 DEF Used
    <2>8. Count' = Count
      BY <2>1 DEF Count
    <2>9. CASE m = 0
      <3>1. k .. k + m - 1 = {}
        BY <2>2, <2>9
      <3> QED
        BY <2>7, <2>8, <3>1
    <2>10. CASE m # 0
      <3>1. k \in 0 .. Count /\ m \in 1 .. MaxTxs
        BY <2>2, <2>3, <2>10
      <3>2. \A u \in Used : u < k
        BY <2>4 DEF Used
      <3> QED
        BY <2>7, <2>8, <3>1, <3>2 DEF Ledger!Next, Ledger!Issue, Used
    <2> QED
      BY <2>9, <2>10
  <1>6. CASE New \/ Subscribed \/ StartFails \/ SubscribeFails \/ SubscribeAborted \/ Cancel \/ Crash
             \/ UNCHANGED vars
    BY <1>1, <1>2, <1>6
    DEF New, Subscribed, StartFails, SubscribeFails, SubscribeAborted, Cancel, Crash, vars, engineVars, nodeVars
  <1>7. CASE EmitSends \/ NoSendReady \/ TakeCancel \/ NotCancelled \/ NoHead
             \/ \E b \in Blocks : NewHead(b)
    BY <1>1, <1>2, <1>7
    DEF EmitSends, NoSendReady, TakeCancel, NotCancelled, NoHead, NewHead, Goto, engineVars, nodeVars
  <1>8. CASE ProcessTerminated \/ ProcessPending \/ ProcessElapsed \/ ProcessFails
             \/ SkipForPending \/ StartMonitor \/ ExtractTxs \/ DropUnsigned \/ DrainDone
    BY <1>2, <1>8
    DEF ProcessTerminated, ProcessPending, ProcessElapsed, ProcessFails, SkipForPending,
        StartMonitor, ExtractTxs, DropUnsigned, DrainDone, Goto, engineVars, nodeVars
  <1>9. CASE Answers
    BY <1>2, <1>9
    DEF Answers, Tick, AnswerAt, AnswerPending, AnswerBlock, AwaitFails, EstimatesReturn,
        MonitorReturns, engineVars, nodeVars
  <1>10. ASSUME NEW t, TakeConfirmed(t) \/ TakeRefused(t) \/ DrainTake(t)
         PROVE  DOMAIN sends' = DOMAIN sends /\ UNCHANGED <<run, nodeHead, nonceAt>>
    BY <1>1, <1>10 DEF TakeConfirmed, TakeRefused, DrainTake, engineVars, nodeVars
  <1>11. ASSUME NEW t, NodeAccepts(t) \/ NodeRejects(t) \/ Confirm(t) \/ SendTimesOut(t) \/ LateArrival(t)
         PROVE  DOMAIN sends' = DOMAIN sends /\ UNCHANGED <<run, nodeHead, nonceAt>>
    BY <1>1, <1>11
    DEF NodeAccepts, NodeRejects, Confirm, SendTimesOut, LateArrival, engineVars, nodeVars
  <1> QED
    BY <1>2, <1>3, <1>4, <1>5, <1>6, <1>7, <1>8, <1>9, <1>10, <1>11
    DEF Next, Task, Loop, Drain, Network, Outside

\* Nonces are handed out as NonceLedger says: in gapless batches, each above
\* everything used before and only when all of that is mined.
THEOREM ImplementsLedger == Spec => LedgerSpec
  <1>1. Init => Ledger!Init
    BY BoundsAssumption DEF Init, Ledger!Init, SentNow, Count, Blocks
  <1>2. IInv /\ [Next]_vars => [Ledger!Next]_(Ledger!vars)
    BY LedgerStep DEF Ledger!vars, Used
  <1> QED
    BY <1>1, <1>2, InductiveInvariant, PTL DEF Spec, LedgerSpec, Ledger!Spec

=============================================================================
