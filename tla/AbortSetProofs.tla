--------------------------- MODULE AbortSetProofs ---------------------------
(***************************************************************************)
(* Proofs about AbortSet.  The late removal in Take is the step to watch:  *)
(* it takes out the handle of another future only when two futures of one  *)
(* id are queued, and OneLivePerId says which of them that may be.         *)
(***************************************************************************)
EXTENDS AbortSet, TLAPS

\* Only a future that was aborted ends as aborted.
FlagFirst == \A n \in DOMAIN futs : futs[n].out = "aborted" => futs[n].aborted

IInv == TypeOK /\ HandlesWork /\ LostHandles /\ OneLivePerId /\ FlagFirst

LEMMA InitOK == Init => IInv
  <1> SUFFICES ASSUME Init PROVE IInv
    OBVIOUS
  <1>1. DOMAIN futs = {} /\ DOMAIN aborts = {}
    BY DEF Init
  <1>2. TypeOK
    <2>1. 0 \in 0 .. MaxInserts /\ 1 .. 0 = {}
      BY InsertsAssumption
    <2> QED
      BY <1>1, <2>1 DEF Init, TypeOK
  <1> QED
    BY <1>1, <1>2 DEF IInv, HandlesWork, LostHandles, OneLivePerId, FlagFirst

\* A step that leaves the queue, the handles and what was taken alone.
LEMMA StillOK ==
  ASSUME IInv, UNCHANGED <<mode, inserted, futs, aborts, yielded, skipped>>,
         polling' \in BOOLEAN
  PROVE  IInv'
  BY DEF IInv, TypeOK, HandlesWork, LostHandles, OneLivePerId, FlagFirst, Numbers

LEMMA InsertOK ==
  ASSUME IInv, NEW id \in Ids, Insert(id)
  PROVE  IInv'
  <1> USE InsertsAssumption
  <1> DEFINE k == inserted + 1
             new == [id |-> id, again |-> Queued(id) # {}, aborted |-> FALSE, out |-> "running"]
  <1>1. /\ id \notin DOMAIN aborts /\ inserted < MaxInserts /\ inserted' = k
        /\ futs' = [n \in DOMAIN futs \cup {k} |-> IF n \in DOMAIN futs THEN futs[n] ELSE new]
        /\ aborts' = [i \in DOMAIN aborts \cup {id} |-> IF i = id THEN k ELSE aborts[i]]
        /\ UNCHANGED <<mode, polling, yielded, skipped>>
    BY DEF Insert, MayInsert
  <1>2. TypeOK
    BY DEF IInv
  <1>3. k \in Numbers /\ k \notin DOMAIN futs \cup yielded \cup skipped
        /\ \A n \in DOMAIN futs : n < k
    BY <1>1, <1>2 DEF TypeOK, Numbers
  <1>4. new \in Fut
    BY DEF Fut, Outcomes
  <1>5. /\ DOMAIN futs' = DOMAIN futs \cup {k} /\ futs'[k] = new
        /\ \A n \in DOMAIN futs : futs'[n] = futs[n]
    BY <1>1, <1>3
  <1>6. /\ DOMAIN aborts' = DOMAIN aborts \cup {id} /\ aborts'[id] = k
        /\ \A i \in DOMAIN aborts : aborts'[i] = aborts[i]
    BY <1>1
  <1>7. TypeOK'
    <2>1. DOMAIN futs' \subseteq Numbers /\ futs' \in [DOMAIN futs' -> Fut]
      BY <1>1, <1>2, <1>3, <1>4 DEF TypeOK
    <2>2. DOMAIN aborts' \subseteq Ids /\ aborts' \in [DOMAIN aborts' -> Numbers]
      BY <1>1, <1>2, <1>3 DEF TypeOK
    <2>3. inserted' \in 0 .. MaxInserts /\ mode' \in Modes /\ polling' \in BOOLEAN
      BY <1>1, <1>2 DEF TypeOK
    <2>4. 1 .. k = 1 .. inserted \cup {k}
      BY <1>2 DEF TypeOK
    <2>5. /\ DOMAIN futs' \cup yielded' \cup skipped' = 1 .. inserted'
          /\ DOMAIN futs' \cap (yielded' \cup skipped') = {} /\ yielded' \cap skipped' = {}
      BY <1>1, <1>2, <1>3, <1>5, <2>4 DEF TypeOK
    <2> QED
      BY <2>1, <2>2, <2>3, <2>5 DEF TypeOK
  <1>8. HandlesWork'
    BY <1>3, <1>5, <1>6 DEF HandlesWork, IInv
  <1>9. LostHandles'
    BY <1>1, <1>5, <1>6 DEF LostHandles, IInv
  <1>10. OneLivePerId'
    <2> SUFFICES ASSUME NEW m \in DOMAIN futs', NEW n \in DOMAIN futs',
                        m < n, futs'[m].id = futs'[n].id
                 PROVE  futs'[n].again /\ (futs'[m].aborted \/ futs'[m].again)
      BY DEF OneLivePerId
    <2>1. m \in DOMAIN futs
      BY <1>2, <1>3, <1>5 DEF TypeOK, Numbers
    <2>2. CASE n \in DOMAIN futs
      BY <1>5, <2>1, <2>2 DEF OneLivePerId, IInv
    <2>3. CASE n = k
      <3>1. futs[m].id = id /\ futs'[n] = new
        BY <1>5, <2>1, <2>3
      <3>2. m \in Queued(id)
        BY <2>1, <3>1 DEF Queued
      <3>3. futs[m].aborted \/ futs[m].again
        BY <1>1, <2>1, <3>1 DEF LostHandles, IInv
      <3>4. new.again
        BY <3>2
      <3>5. futs'[m] = futs[m]
        BY <1>5, <2>1
      <3> HIDE DEF new
      <3> QED
        BY <3>1, <3>3, <3>4, <3>5
    <2> QED
      BY <1>5, <2>2, <2>3
  <1>11. FlagFirst'
    BY <1>5 DEF FlagFirst, IInv
  <1> QED
    BY <1>7, <1>8, <1>9, <1>10, <1>11 DEF IInv

\* Marking futures as aborted while their handles go.
LEMMA AbortedOK ==
  ASSUME IInv, NEW N \in SUBSET DOMAIN futs, NEW J \in SUBSET DOMAIN aborts,
         futs' = Aborted(N), aborts' = Restrict(aborts, J),
         \A id \in DOMAIN aborts : id \notin J <=> aborts[id] \in N,
         UNCHANGED <<mode, polling, inserted, yielded, skipped>>
  PROVE  IInv'
  <1>1. TypeOK
    BY DEF IInv
  <1>2. /\ DOMAIN futs' = DOMAIN futs
        /\ \A n \in DOMAIN futs :
             /\ futs'[n] \in Fut /\ futs'[n].id = futs[n].id
             /\ futs'[n].again = futs[n].again /\ futs'[n].out = futs[n].out
             /\ futs'[n].aborted <=> futs[n].aborted \/ n \in N
    <2> SUFFICES ASSUME NEW n \in DOMAIN futs
                 PROVE  /\ futs'[n] \in Fut /\ futs'[n].id = futs[n].id
                        /\ futs'[n].again = futs[n].again /\ futs'[n].out = futs[n].out
                        /\ futs'[n].aborted <=> futs[n].aborted \/ n \in N
      BY DEF Aborted
    <2>1. futs[n] \in Fut
      BY <1>1 DEF TypeOK
    <2>2. CASE n \in N
      <3>1. futs'[n] = [futs[n] EXCEPT !.aborted = TRUE]
        BY <2>2 DEF Aborted
      <3> QED
        BY <2>1, <2>2, <3>1 DEF Fut
    <2>3. CASE n \notin N
      <3>1. futs'[n] = futs[n]
        BY <2>3 DEF Aborted
      <3> QED
        BY <2>1, <2>3, <3>1 DEF Fut
    <2> QED
      BY <2>2, <2>3
  <1>3. DOMAIN aborts' = J /\ \A id \in J : aborts'[id] = aborts[id]
    BY DEF Restrict
  <1>4. TypeOK'
    <2>1. futs' \in [DOMAIN futs' -> Fut]
      BY <1>2 DEF Aborted
    <2>2. aborts' \in [DOMAIN aborts' -> Numbers] /\ DOMAIN aborts' \subseteq Ids
      BY <1>1, <1>3 DEF TypeOK, Restrict
    <2> QED
      BY <1>1, <1>2, <2>1, <2>2 DEF TypeOK, Numbers
  <1>5. HandlesWork'
    BY <1>2, <1>3 DEF HandlesWork, IInv
  <1>6. LostHandles'
    BY <1>2, <1>3 DEF LostHandles, IInv
  <1>7. OneLivePerId'
    BY <1>2 DEF OneLivePerId, IInv
  <1>8. FlagFirst'
    BY <1>2 DEF FlagFirst, IInv
  <1> QED
    BY <1>4, <1>5, <1>6, <1>7, <1>8 DEF IInv

LEMMA SettleOK ==
  ASSUME IInv, NEW n \in DOMAIN futs, Settle(n)
  PROVE  IInv'
  <1>1. PICK out \in {"ok", "panicked", "aborted"} :
          futs' = [futs EXCEPT ![n].out = out] /\ (out = "aborted" => futs[n].aborted)
    BY DEF Settle, OutcomeOf
  <1>2. UNCHANGED <<mode, polling, inserted, aborts, yielded, skipped>>
    BY DEF Settle
  <1>3. TypeOK
    BY DEF IInv
  <1>4. /\ DOMAIN futs' = DOMAIN futs /\ futs' \in [DOMAIN futs -> Fut]
        /\ \A m \in DOMAIN futs : /\ futs'[m].id = futs[m].id
                                  /\ futs'[m].again = futs[m].again
                                  /\ futs'[m].aborted = futs[m].aborted
    BY <1>1, <1>3 DEF TypeOK, Fut, Outcomes
  <1>5. TypeOK'
    BY <1>2, <1>3, <1>4 DEF TypeOK, Numbers
  <1>6. HandlesWork' /\ LostHandles' /\ OneLivePerId'
    BY <1>2, <1>4 DEF HandlesWork, LostHandles, OneLivePerId, IInv
  <1>7. FlagFirst'
    <2>1. \A m \in DOMAIN futs : futs'[m].out = IF m = n THEN out ELSE futs[m].out
      BY <1>1, <1>3 DEF TypeOK, Fut
    <2> QED
      BY <1>1, <1>4, <2>1 DEF FlagFirst, IInv
  <1> QED
    BY <1>5, <1>6, <1>7 DEF IInv

LEMMA TakeOK ==
  ASSUME IInv, NEW n \in DOMAIN futs, Take(n)
  PROVE  IInv'
  <1>1. TypeOK
    BY DEF IInv
  <1>2. /\ DOMAIN futs' = DOMAIN futs \ {n}
        /\ \A m \in DOMAIN futs \ {n} : futs'[m] = futs[m]
    BY DEF Take, Restrict
  <1>3. /\ DOMAIN aborts' = DOMAIN aborts \ {futs[n].id}
        /\ \A id \in DOMAIN aborts \ {futs[n].id} : aborts'[id] = aborts[id]
    BY DEF Take, Removed, Without, Restrict
  <1>4. TypeOK'
    <2>1. futs' \in [DOMAIN futs' -> Fut]
      BY <1>1, <1>2 DEF TypeOK, Take, Restrict
    <2>2. aborts' \in [DOMAIN aborts' -> Numbers]
      BY <1>1, <1>3 DEF TypeOK, Take, Removed, Without, Restrict
    <2>3. /\ UNCHANGED <<mode, inserted>> /\ polling' \in BOOLEAN
          /\ \/ yielded' = yielded \cup {n} /\ skipped' = skipped
             \/ skipped' = skipped \cup {n} /\ yielded' = yielded
      BY <1>1 DEF TypeOK, Take
    <2> QED
      BY <1>1, <1>2, <1>3, <2>1, <2>2, <2>3 DEF TypeOK
  <1>5. HandlesWork'
    BY <1>2, <1>3 DEF HandlesWork, IInv
  <1>6. LostHandles'
    <2> SUFFICES ASSUME NEW m \in DOMAIN futs', ~futs'[m].aborted, ~futs'[m].again
                 PROVE  futs'[m].id \in DOMAIN aborts' /\ aborts'[futs'[m].id] = m
      BY DEF LostHandles
    <2>1. m \in DOMAIN futs /\ m # n /\ futs'[m] = futs[m]
      BY <1>2
    <2>2. futs[m].id \in DOMAIN aborts /\ aborts[futs[m].id] = m
      BY <2>1 DEF LostHandles, IInv
    <2>3. futs[m].id # futs[n].id
      <3>1. CASE m < n
        BY <2>1, <3>1 DEF OneLivePerId, IInv
      <3>2. CASE n < m
        BY <2>1, <3>2 DEF OneLivePerId, IInv
      <3> QED
        BY <1>1, <2>1, <3>1, <3>2 DEF TypeOK, Numbers
    <2> QED
      BY <1>3, <2>1, <2>2, <2>3
  <1>7. OneLivePerId'
    BY <1>2 DEF OneLivePerId, IInv
  <1>8. FlagFirst'
    BY <1>2 DEF FlagFirst, IInv
  <1> QED
    BY <1>4, <1>5, <1>6, <1>7, <1>8 DEF IInv

LEMMA NextOK == IInv /\ [Next]_vars => IInv'
  <1> SUFFICES ASSUME IInv, [Next]_vars PROVE IInv'
    OBVIOUS
  <1>1. TypeOK
    BY DEF IInv
  <1>2. ASSUME NEW id \in Ids, Insert(id) PROVE IInv'
    BY <1>2, InsertOK
  <1>3. ASSUME NEW id \in Ids, Abort(id) PROVE IInv'
    <2> DEFINE N == {aborts[id]}
               J == DOMAIN aborts \ {id}
    <2>1. /\ id \in DOMAIN aborts /\ futs' = Aborted(N) /\ aborts' = Restrict(aborts, J)
          /\ UNCHANGED <<mode, polling, inserted, yielded, skipped>>
      BY <1>3 DEF Abort, Without
    <2>2. N \in SUBSET DOMAIN futs
      BY <2>1 DEF HandlesWork, IInv
    <2>3. \A i \in DOMAIN aborts : i \notin J <=> aborts[i] \in N
      BY <2>1 DEF HandlesWork, IInv
    <2> QED
      BY <2>1, <2>2, <2>3, AbortedOK
  <1>4. CASE AbortAll
    <2>1. /\ futs' = Aborted(Range(aborts)) /\ aborts' = Restrict(aborts, {})
          /\ UNCHANGED <<mode, polling, inserted, yielded, skipped>>
      BY <1>4 DEF AbortAll, Restrict
    <2>2. Range(aborts) \in SUBSET DOMAIN futs
      BY DEF HandlesWork, IInv, Range
    <2>3. \A i \in DOMAIN aborts : i \notin {} <=> aborts[i] \in Range(aborts)
      BY DEF Range
    <2> QED
      BY <2>1, <2>2, <2>3, AbortedOK
  <1>5. CASE Poll \/ PollReturns
    BY <1>5, StillOK DEF Poll, PollReturns
  <1>6. ASSUME NEW n \in DOMAIN futs, Settle(n) PROVE IInv'
    BY <1>6, SettleOK
  <1>7. ASSUME NEW n \in DOMAIN futs, Take(n) PROVE IInv'
    BY <1>7, TakeOK
  <1>8. CASE UNCHANGED vars
    BY <1>1, <1>8, StillOK DEF vars, TypeOK
  <1> QED
    BY <1>2, <1>3, <1>4, <1>5, <1>6, <1>7, <1>8 DEF Next

\* The inductive invariant holds for any ids and any number of insertions.
THEOREM Invariant == Spec => []IInv
  BY InitOK, NextOK, PTL DEF Spec

\* Type correctness; every inserted future is queued, yielded or left out.
THEOREM TypeCorrect == Spec => []TypeOK
  <1>1. IInv => TypeOK
    BY DEF IInv
  <1> QED
    BY <1>1, Invariant, PTL

\* abort and abort_all never meet a handle of a future that is gone.
THEOREM HandlesNeverStale == Spec => []HandlesWork
  <1>1. IInv => HandlesWork
    BY DEF IInv
  <1> QED
    BY <1>1, Invariant, PTL

\* abort and abort_all reach every future that may still run, except one whose
\* id was inserted again too early.
THEOREM HandlesReachAll == Spec => []LostHandles
  <1>1. IInv => LostHandles
    BY DEF IInv
  <1> QED
    BY <1>1, Invariant, PTL

\* The ids of the futures in the queue are unique up to early re-insertion.
THEOREM IdsAreUnique == Spec => []OneLivePerId
  <1>1. IInv => OneLivePerId
    BY DEF IInv
  <1> QED
    BY <1>1, Invariant, PTL

\* What poll_next_with leaves out had been aborted: no other result is lost.
THEOREM NothingElseVanishes == Spec => OnlyAbortedVanish
  <1>1. ASSUME IInv, Next PROVE \A n \in skipped' \ skipped : futs[n].aborted
    <2>1. ASSUME UNCHANGED skipped PROVE skipped' \ skipped = {}
      BY <2>1
    <2>2. CASE \E n \in DOMAIN futs : Take(n)
      <3>1. PICK n \in DOMAIN futs : Take(n)
        BY <2>2
      <3>2. CASE IsSkipped(futs[n])
        <4>1. futs[n].aborted
          BY <1>1, <3>2 DEF IsSkipped, FlagFirst, IInv
        <4>2. skipped' \ skipped \subseteq {n}
          BY <3>1, <3>2 DEF Take
        <4> QED
          BY <4>1, <4>2
      <3>3. CASE ~IsSkipped(futs[n])
        BY <2>1, <3>1, <3>3 DEF Take
      <3> QED
        BY <3>2, <3>3
    <2>3. CASE ~\E n \in DOMAIN futs : Take(n)
      BY <1>1, <2>1, <2>3 DEF Next, Insert, Abort, AbortAll, Poll, PollReturns, Settle
    <2> QED
      BY <2>2, <2>3
  <1>2. ASSUME IInv, [Next]_vars PROVE [\A n \in skipped' \ skipped : futs[n].aborted]_vars
    BY <1>1, <1>2 DEF vars
  <1> QED
    BY <1>2, Invariant, PTL DEF Spec, OnlyAbortedVanish
-----------------------------------------------------------------------------
(* Results that were there before an abort exist only of tasks and in an    *)
(* ordered queue.                                                           *)

\* Polled in place and handed over in any order, a future settles while the
\* queue is polled and is taken at once, so none was aborted in between.
InPlace ==
  ~mode.ordered /\ ~mode.spawned =>
    /\ \A n \in DOMAIN futs : futs[n].out # "running" => polling
    /\ \A m, n \in DOMAIN futs : futs[m].out # "running" /\ futs[n].out # "running" => m = n
    /\ \A n \in DOMAIN futs : futs[n].out = "ok" => ~futs[n].aborted
    /\ \A n \in DOMAIN futs : futs[n].out # "panicked"

LEMMA InPlaceNext ==
  ASSUME IInv, InPlace, [Next]_vars
  PROVE  InPlace'
  <1> SUFFICES ASSUME ~mode.ordered, ~mode.spawned, mode' = mode PROVE InPlace'
    <2>1. mode' = mode
      BY DEF Next, Insert, Abort, AbortAll, Poll, PollReturns, Settle, Take, vars
    <2> QED
      BY <2>1 DEF InPlace
  <1>1. TypeOK
    BY DEF IInv
  <1>2. \A n \in DOMAIN futs : futs[n] \in Fut
    BY <1>1 DEF TypeOK
  <1>3. ASSUME NEW id \in Ids, Insert(id) PROVE InPlace'
    <2> DEFINE k == inserted + 1
    <2>1. k \notin DOMAIN futs
      BY <1>1, InsertsAssumption DEF TypeOK
    <2>2. /\ DOMAIN futs' = DOMAIN futs \cup {k} /\ futs'[k].out = "running"
          /\ \A n \in DOMAIN futs : futs'[n] = futs[n]
      BY <1>3, <2>1 DEF Insert
    <2> QED
      BY <1>3, <2>2 DEF InPlace, Insert
  <1>4. ASSUME NEW N, futs' = Aborted(N), ~polling PROVE InPlace'
    <2>1. DOMAIN futs' = DOMAIN futs
      BY <1>4 DEF Aborted
    <2>2. \A n \in DOMAIN futs : futs'[n].out = futs[n].out
      BY <1>2, <1>4 DEF Aborted, Fut
    <2> QED
      BY <1>4, <2>1, <2>2 DEF InPlace
  <1>5. ASSUME NEW id \in Ids, Abort(id) PROVE InPlace'
    BY <1>4, <1>5 DEF Abort
  <1>6. CASE AbortAll
    BY <1>4, <1>6 DEF AbortAll
  <1>7. CASE Poll
    BY <1>7 DEF Poll, InPlace
  <1>8. CASE PollReturns
    <2>1. \A n \in DOMAIN futs : futs[n].out = "running"
      BY <1>8 DEF PollReturns, Ready
    <2> QED
      BY <1>8, <2>1 DEF PollReturns, InPlace
  <1>9. ASSUME NEW n \in DOMAIN futs, Settle(n) PROVE InPlace'
    <2>1. polling /\ polling' /\ \A m \in DOMAIN futs : futs[m].out = "running"
      BY <1>9 DEF Settle, Ready
    <2>2. futs' = [futs EXCEPT ![n].out = OutcomeOf(futs[n], "ok")]
      BY <1>9 DEF Settle
    <2>3. DOMAIN futs' = DOMAIN futs /\ \A m \in DOMAIN futs : m # n => futs'[m] = futs[m]
      BY <2>2
    <2>4. futs'[n] = [futs[n] EXCEPT !.out = OutcomeOf(futs[n], "ok")]
      BY <2>2
    <2>5. futs'[n].aborted = futs[n].aborted /\ futs'[n].out = OutcomeOf(futs[n], "ok")
      BY <1>2, <2>4 DEF Fut
    <2> QED
      BY <2>1, <2>3, <2>5 DEF InPlace, OutcomeOf
  <1>10. ASSUME NEW n \in DOMAIN futs, Take(n) PROVE InPlace'
    <2>1. futs[n].out # "running" /\ futs' = Restrict(futs, DOMAIN futs \ {n})
      BY <1>10 DEF Take, Ready
    <2>2. /\ DOMAIN futs' = DOMAIN futs \ {n}
          /\ \A m \in DOMAIN futs' : futs'[m] = futs[m]
      BY <2>1 DEF Restrict
    <2>3. \A m \in DOMAIN futs' : futs'[m].out = "running"
      BY <2>1, <2>2 DEF InPlace
    <2> QED
      BY <2>2, <2>3 DEF InPlace
  <1>11. CASE UNCHANGED vars
    BY <1>11 DEF vars, InPlace
  <1> QED
    BY <1>3, <1>5, <1>6, <1>7, <1>8, <1>9, <1>10, <1>11 DEF Next

\* What is aborted is not yielded any more, but for results of tasks and of an
\* ordered queue that were there before the abort.
THEOREM AbortsAreFinal == Spec => AbortIsFinal
  <1> DEFINE Late == \A n \in yielded' \ yielded :
                       futs[n].aborted => (mode.ordered \/ mode.spawned) /\ futs[n].out # "aborted"
  <1>1. Init => InPlace
    BY DEF Init, InPlace
  <1>2. ASSUME IInv, InPlace, Next PROVE Late
    <2>1. ASSUME UNCHANGED yielded PROVE yielded' \ yielded = {}
      BY <2>1
    <2>2. ASSUME NEW n \in DOMAIN futs, Take(n) PROVE Late
      <3>1. CASE IsSkipped(futs[n])
        BY <2>1, <2>2, <3>1 DEF Take
      <3>2. CASE ~IsSkipped(futs[n])
        <4>1. yielded' \ yielded \subseteq {n} /\ futs[n].out \notin {"running", "aborted"}
          BY <2>2, <3>2 DEF Take, IsSkipped, Ready
        <4>2. futs[n] \in Fut
          BY <1>2 DEF IInv, TypeOK
        <4>3. futs[n].aborted => mode.ordered \/ mode.spawned
          BY <1>2, <4>1, <4>2 DEF InPlace, Fut, Outcomes
        <4> QED
          BY <4>1, <4>3
      <3> QED
        BY <3>1, <3>2
    <2>3. CASE ~\E n \in DOMAIN futs : Take(n)
      BY <1>2, <2>1, <2>3 DEF Next, Insert, Abort, AbortAll, Poll, PollReturns, Settle
    <2> QED
      BY <2>2, <2>3
  <1>3. ASSUME IInv, InPlace, [Next]_vars PROVE [Late]_vars
    BY <1>2, <1>3 DEF vars
  <1> QED
    BY <1>1, <1>3, InPlaceNext, Invariant, PTL DEF Spec, AbortIsFinal
=============================================================================
