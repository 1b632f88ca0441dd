------------------------------ MODULE AbortSet ------------------------------
(***************************************************************************)
(* Futures that can be aborted by an id (crates/engine/src/abort.rs): a    *)
(* queue of futures, each with its id, and a map from ids to the handles   *)
(* that abort them.  `abort` takes the handle out at once; the future      *)
(* itself leaves the queue only when it is polled again, and takes out the *)
(* handle its id has by then.                                              *)
(*                                                                         *)
(* The queue is external: FuturesUnordered yields any future that is       *)
(* ready, FuturesOrdered the oldest one and keeps younger results until    *)
(* then.  A future is polled by the queue, or spawned as a task of its own *)
(* that runs beside it.                                                    *)
(***************************************************************************)
EXTENDS Naturals, Functions

CONSTANTS
  Ids,          \* what futures are known by
  MaxInserts    \* bound: futures inserted

ASSUME InsertsAssumption == MaxInserts \in Nat

VARIABLES
  mode,       \* the queue in use, and whether futures are spawned
  polling,    \* `poll_next` runs; otherwise its owner may call the set
  inserted,   \* number of futures inserted so far
  futs,       \* the futures in the queue, by their number
  aborts,     \* the handles, by id
  yielded,    \* the futures whose results the stream yielded
  skipped     \* the futures the stream left out as aborted

vars == <<mode, polling, inserted, futs, aborts, yielded, skipped>>

Modes == [ordered : BOOLEAN, spawned : BOOLEAN]
Outcomes == {"running", "ok", "panicked", "aborted"}

\* `again`: inserted while an aborted future of the same id was in the queue.
Fut == [id : Ids, again : BOOLEAN, aborted : BOOLEAN, out : Outcomes]

Numbers == 1 .. MaxInserts
Queued(id) == {n \in DOMAIN futs : futs[n].id = id}

-----------------------------------------------------------------------------
Init ==
  /\ mode \in Modes
  /\ polling = FALSE /\ inserted = 0
  /\ futs = [n \in {} |-> 0] /\ aborts = [id \in {} |-> 0]
  /\ yielded = {} /\ skipped = {}

\* `try_insert`, when it does not return the id, and `insert` or `spawn`.
MayInsert_Always(id) == TRUE
MayInsert(id) == id \notin DOMAIN aborts

Insert(id) ==
  /\ ~polling /\ inserted < MaxInserts /\ MayInsert(id)
  /\ inserted' = inserted + 1
  /\ futs' = [n \in DOMAIN futs \cup {inserted'} |->
                IF n \in DOMAIN futs THEN futs[n]
                ELSE [id |-> id, again |-> Queued(id) # {}, aborted |-> FALSE,
                      out |-> "running"]]
  /\ aborts' = [i \in DOMAIN aborts \cup {id} |-> IF i = id THEN inserted' ELSE aborts[i]]
  /\ UNCHANGED <<mode, polling, yielded, skipped>>

Aborted(N) ==
  [n \in DOMAIN futs |-> IF n \in N THEN [futs[n] EXCEPT !.aborted = TRUE] ELSE futs[n]]

Without(id) == Restrict(aborts, DOMAIN aborts \ {id})

Abort(id) ==
  /\ ~polling /\ id \in DOMAIN aborts
  /\ futs' = Aborted({aborts[id]})
  /\ aborts' = Without(id)
  /\ UNCHANGED <<mode, polling, inserted, yielded, skipped>>

\* The map is drained, so only futures that have a handle are aborted.
AbortAll ==
  /\ ~polling /\ aborts # [id \in {} |-> 0]
  /\ futs' = Aborted(Range(aborts))
  /\ aborts' = [id \in {} |-> 0]
  /\ UNCHANGED <<mode, polling, inserted, yielded, skipped>>

\* The queue can hand this future over.
Ready(n) ==
  /\ n \in DOMAIN futs /\ futs[n].out # "running"
  /\ mode.ordered => \A m \in DOMAIN futs : n <= m

\* One poll of a future: Abortable looks at its flag first.  A task panics
\* by itself; the panic of a future polled in place takes its owner along.
OutcomeOf_FlagLast(f, out) == out
OutcomeOf(f, out) == IF f.aborted THEN "aborted" ELSE out

\* Polled in place, futures settle during a poll of the queue, and only until
\* one can be handed over.
Settle(n) ==
  /\ mode.spawned \/ (polling /\ \A m \in DOMAIN futs : ~Ready(m))
  /\ n \in DOMAIN futs /\ futs[n].out = "running"
  /\ \E out \in IF mode.spawned THEN {"ok", "panicked"} ELSE {"ok"} :
       futs' = [futs EXCEPT ![n].out = OutcomeOf(futs[n], out)]
  /\ UNCHANGED <<mode, polling, inserted, aborts, yielded, skipped>>

-----------------------------------------------------------------------------
(* `poll_next_with`: results are taken from the queue until one is yielded. *)

Poll ==
  /\ ~polling /\ polling' = TRUE
  /\ UNCHANGED <<mode, inserted, futs, aborts, yielded, skipped>>

\* `aborts.remove(&id)`: whatever handle the id has now.
Removed_Never(n) == aborts
Removed(n) == Without(futs[n].id)

IsSkipped_Failed(f) == f.out \in {"aborted", "panicked"}
IsSkipped(f) == f.out = "aborted"

Take(n) ==
  /\ polling /\ Ready(n)
  /\ futs' = Restrict(futs, DOMAIN futs \ {n})
  /\ aborts' = Removed(n)
  /\ IF IsSkipped(futs[n])
       THEN skipped' = skipped \cup {n} /\ UNCHANGED <<polling, yielded>>
       ELSE yielded' = yielded \cup {n} /\ polling' = FALSE /\ UNCHANGED skipped
  /\ UNCHANGED <<mode, inserted>>

\* Nothing is ready, or the queue is empty and the stream ends.
PollReturns ==
  /\ polling /\ \A n \in DOMAIN futs : ~Ready(n)
  /\ polling' = FALSE
  /\ UNCHANGED <<mode, inserted, futs, aborts, yielded, skipped>>

Next ==
  \/ \E id \in Ids : Insert(id) \/ Abort(id)
  \/ AbortAll \/ Poll \/ PollReturns
  \/ \E n \in DOMAIN futs : Settle(n) \/ Take(n)

Spec == Init /\ [][Next]_vars

-----------------------------------------------------------------------------
(* Properties.                                                             *)

\* Type correctness; every inserted future is in the queue, was yielded or
\* was left out, and only one of the three.
TypeOK ==
  /\ mode \in Modes /\ polling \in BOOLEAN /\ inserted \in 0 .. MaxInserts
  /\ DOMAIN futs \subseteq Numbers /\ futs \in [DOMAIN futs -> Fut]
  /\ DOMAIN aborts \subseteq Ids /\ aborts \in [DOMAIN aborts -> Numbers]
  /\ DOMAIN futs \cup yielded \cup skipped = 1 .. inserted
  /\ DOMAIN futs \cap (yielded \cup skipped) = {} /\ yielded \cap skipped = {}

\* A handle is never stale: the future it aborts is in the queue, was not
\* aborted before and has the id the handle is kept under.
HandlesWork ==
  \A id \in DOMAIN aborts :
    LET n == aborts[id] IN n \in DOMAIN futs /\ futs[n].id = id /\ ~futs[n].aborted

\* A future that was not aborted can still be, by its id or by abort_all,
\* unless its id was inserted again before the aborted future of that id had
\* left the queue: the late removal of the old future's handle hits the new one.
LostHandles ==
  \A n \in DOMAIN futs :
    ~futs[n].aborted => \/ futs[n].again
                        \/ (futs[n].id \in DOMAIN aborts /\ aborts[futs[n].id] = n)

\* Of two queued futures with one id the younger was inserted again, and the
\* older was aborted or is itself one that was inserted again: ids are unique
\* as long as an aborted id is not used before its future has left the queue.
OneLivePerId ==
  \A m, n \in DOMAIN futs :
    m < n /\ futs[m].id = futs[n].id =>
      futs[n].again /\ (futs[m].aborted \/ futs[m].again)

\* What is aborted is not yielded any more, except for results that were
\* there before: of a task of its own, or kept back by an ordered queue.
AbortIsFinal ==
  [][\A n \in yielded' \ yielded :
       futs[n].aborted => (mode.ordered \/ mode.spawned) /\ futs[n].out # "aborted"]_vars

\* Nothing is left out without having been aborted, a task that panicked
\* included.
OnlyAbortedVanish == [][\A n \in skipped' \ skipped : futs[n].aborted]_vars

=============================================================================
