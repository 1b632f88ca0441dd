----------------------------- MODULE NonceLedger -----------------------------
(***************************************************************************)
(* What the engine promises about the nonces of the account: within a run  *)
(* they are handed out in batches without gaps, a batch starts above every *)
(* nonce handed out before, and no batch starts while a nonce of an        *)
(* earlier one may still be unmined.                                       *)
(***************************************************************************)
EXTENDS Integers

CONSTANTS MaxBatch, MaxCount   \* bounds of a batch and of the count

VARIABLES
  used,      \* nonces handed out since the program was started
  settled    \* transactions of the account that are mined

vars == <<used, settled>>

Init == used = {} /\ settled = 0

\* Blocks are mined: the count never goes down.
Settle ==
  /\ \E c \in settled + 1 .. MaxCount : settled' = c
  /\ UNCHANGED used

\* A batch of k nonces from n on, everything used so far being mined below n.
Issue ==
  /\ \E n \in 0 .. settled, k \in 1 .. MaxBatch :
       /\ \A u \in used : u < n
       /\ used' = used \cup n .. (n + k - 1)
  /\ UNCHANGED settled

\* The program is started again and knows nothing of its earlier runs.
Forget == used' = {} /\ UNCHANGED settled

Next == Settle \/ Issue \/ Forget

Spec == Init /\ [][Next]_vars
=============================================================================
