---------------------------- MODULE MCAccounts ----------------------------
(* Accounts with the futures of small sets of callers.                     *)
EXTENDS Accounts, SequencesExt

MCClients == Callers \X Accts

\* In front, and behind; two of one price behind.
MCPlans == {<<1, 0>>, <<0, 2>>}

MCSymmetry == Permutations(Callers) \cup Permutations(Accts)

\* send_txs as it is written, one transaction after another.
OneByOne(n, lastPrice, prices) ==
  FoldLeft(Alloc, [next |-> n, last |-> lastPrice, txs |-> <<>>], prices)

\* Describing the batch as a whole says the same.
ASSUME AssignedAssumption ==
  \A lastPrice \in {None} \cup 0 .. 3, prices \in SeqOf(0 .. 3, 4) :
    OneByOne(1, lastPrice, prices) = Assigned(1, lastPrice, prices)
=============================================================================
