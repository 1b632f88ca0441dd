-------------------------- MODULE EngineInvariant --------------------------
(***************************************************************************)
(* The inductive invariant of the engine's loop.  The uniqueness of nonces *)
(* is not inductive by itself: that a new batch starts above every earlier *)
(* nonce follows from the pending count, and the pending count is only     *)
(* above them because every batch landed in the node's pool without a gap. *)
(***************************************************************************)
EXTENDS Engine

InLoop == pc \in {"sends", "cancel", "heads", "process"}

\* The stages after the nonce reads agreed.
Past == {"monitor", "monitored", "estimate", "estimated"}

\* Every send of the earlier runs was confirmed.
Clean == \A t \in DOMAIN sends : t.run < run => sends[t] = "ok"

\* The transactions whose nonces must not be handed out again.
Known == IF Clean THEN DOMAIN sends ELSE SentNow

\* Once the monitors run the nonce is known, and the batch fits its bound.
ProcOK ==
  /\ proc.stage \in Past => proc.at \in Counts /\ proc.pending = proc.at
  /\ proc.stage \in Past \ {"monitor"} => proc.at + proc.calls <= MaxNonce

\* What each phase of a run knows about its work and its sends.
Phases ==
  /\ ~InLoop => proc = Idle
  /\ proc.stage = "none" => proc = Idle
  /\ pc \in {"init", "subscribe", "done"} => Outstanding = {}
  /\ pc \in {"init", "subscribe"} => SentNow = {}
  /\ InLoop => \A t \in SentNow : sends[t] # "lost"
  /\ \A t \in DOMAIN sends :
       t.run <= run /\ (t.run < run => sends[t] \in {"ok", "lost"})

\* Heads are mined before they are seen, and seen before they are worked on.
Heads ==
  /\ seen <= nodeHead
  /\ proc.stage # "none" => proc.head = seen
  /\ \A t \in DOMAIN sends : t.head <= nodeHead
  /\ \A t \in SentNow : t.head <= seen
  /\ \A b \in Blocks : b <= nodeHead => nonceAt[b] <= Count

\* The answers to the nonce reads are still good when they are used.
Answered ==
  /\ proc.at # NoAnswer => proc.at = nonceAt[proc.head]
  /\ proc.pending # NoAnswer => \A t \in Known : t.nonce < proc.pending

\* What the node accepted is pooled or mined.
Landed ==
  \A t \in DOMAIN sends : sends[t] \in {"accepted", "confirmed", "ok"} =>
     t.nonce \in pool \/ t.nonce < Count

\* A batch leaves no gap between the count at its head and each of its nonces.
GapFree ==
  \A t \in DOMAIN sends :
     /\ nonceAt[t.head] <= t.nonce
     /\ \A n \in nonceAt[t.head] .. t.nonce :
          \E u \in DOMAIN sends : u.run = t.run /\ u.nonce = n

KnownUnique == \A t, u \in Known : t.nonce = u.nonce => t = u

\* The invariant the theorems of EngineProofs rest on.
IInv ==
  /\ TypeOK /\ ProcOK /\ Phases /\ Heads /\ ProcXorSend
  /\ Answered /\ Landed /\ GapFree /\ KnownUnique /\ BatchAfterMined

=============================================================================
