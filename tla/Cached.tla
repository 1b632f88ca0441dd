------------------------------- MODULE Cached -------------------------------
(***************************************************************************)
(* A cache of values by key (crates/engine/src/cached.rs): `CachedAt` maps *)
(* a key to a shared entry, `Cached`, a mutex around an optional value.    *)
(* The mutex is held while the value is computed.  An entry that is        *)
(* dropped from the map lives on for those that already looked it up.      *)
(***************************************************************************)
EXTENDS Naturals, FiniteSets

CONSTANTS
  Clients,     \* futures that ask the cache
  Ids,         \* keys
  MaxEntries,  \* bound: entries ever made
  NoEntry

ASSUME EntriesAssumption == MaxEntries \in Nat /\ NoEntry \notin 1 .. MaxEntries

VARIABLES
  entryAt,   \* the map
  made,      \* entries made so far
  full,      \* entries that hold a value
  client     \* what each client does, for which key, with which entry

cacheVars == <<entryAt, made, full, client>>

Entries == 1 .. MaxEntries
IdleClient == [pc |-> "idle", id |-> NoEntry, entry |-> NoEntry]
ClientStates == [pc : {"idle", "waiting", "computing"}, id : Ids \cup {NoEntry},
                 entry : Entries \cup {NoEntry}]

CacheInit ==
  /\ entryAt = [id \in Ids |-> NoEntry]
  /\ made = 0
  /\ full = {}
  /\ client = [k \in Clients |-> IdleClient]

\* The mutex of an entry is held while its value is computed only.
Computing(k) == client[k].pc = "computing"
Locked(e) == \E k \in Clients : Computing(k) /\ client[k].entry = e

\* The clients in K get their result, or are dropped: their locks are free.
Leaving(K) == [k \in Clients |-> IF k \in K THEN IdleClient ELSE client[k]]

\* get_at: under the mutex of the map, which is not held over any await.
GetAt(k, id) ==
  /\ client[k].pc = "idle"
  /\ IF entryAt[id] # NoEntry
       THEN /\ client' = [client EXCEPT ![k] = [pc |-> "waiting", id |-> id, entry |-> entryAt[id]]]
            /\ UNCHANGED <<entryAt, made>>
       ELSE /\ made < MaxEntries
            /\ made' = made + 1
            /\ entryAt' = [entryAt EXCEPT ![id] = made + 1]
            /\ client' = [client EXCEPT ![k] = [pc |-> "waiting", id |-> id, entry |-> made + 1]]
  /\ UNCHANGED full

\* The mutex is free and the value is there.
Holding(k) == client[k].pc = "waiting" /\ client[k].entry \in full /\ ~Locked(client[k].entry)

Hit(k, K) ==
  /\ Holding(k) /\ k \in K
  /\ client' = Leaving(K)
  /\ UNCHANGED <<entryAt, made, full>>

\* The mutex is taken and the value is not there: compute it.
MayCompute_Unlocked(k) == client[k].entry \notin full
MayCompute(k) == client[k].entry \notin full /\ ~Locked(client[k].entry)

Compute(k) ==
  /\ client[k].pc = "waiting" /\ MayCompute(k)
  /\ client' = [client EXCEPT ![k].pc = "computing"]
  /\ UNCHANGED <<entryAt, made, full>>

Computed(k, K) ==
  /\ Computing(k) /\ k \in K
  /\ full' = full \cup {client[k].entry}
  /\ client' = Leaving(K)
  /\ UNCHANGED <<entryAt, made>>

\* The computation fails, or the futures in K are dropped: nothing is stored,
\* whoever waits next computes.
Leave(K) ==
  /\ client' = Leaving(K)
  /\ UNCHANGED <<entryAt, made, full>>

\* retain and flush: the entries of some keys leave the map.  The bound on
\* entries leaves one for every key.
EntriesLeft(gone) ==
  made + Cardinality({id \in Ids : id \in gone \/ entryAt[id] = NoEntry}) <= MaxEntries

Forget(gone) ==
  /\ EntriesLeft(gone)
  /\ entryAt' = [id \in Ids |-> IF id \in gone THEN NoEntry ELSE entryAt[id]]
  /\ UNCHANGED <<made, full, client>>

CacheNext ==
  \/ \E k \in Clients : \/ \E id \in Ids : GetAt(k, id)
                        \/ Compute(k)
                        \/ \E K \in SUBSET Clients : Hit(k, K) \/ Computed(k, K)
  \/ \E K \in SUBSET Clients : Leave(K)
  \/ \E gone \in SUBSET Ids : Forget(gone)

CacheSpec == CacheInit /\ [][CacheNext]_cacheVars

-----------------------------------------------------------------------------
(* Properties.                                                             *)

CacheTypeOK ==
  /\ entryAt \in [Ids -> Entries \cup {NoEntry}]
  /\ made \in 0 .. MaxEntries
  /\ full \subseteq 1 .. made
  /\ client \in [Clients -> ClientStates]

\* The map no longer has the entry the client looked up.
Forgotten(k) == entryAt[client[k].id] # client[k].entry

\* Single flight: while a client computes a value there is none in its entry,
\* which the map has under no other key; nobody else computes at that entry, and
\* whoever computes a value of the same key does so because the map forgot the
\* entry of one of the two (retain, flush).
SingleFlight ==
  \A k \in Clients : Computing(k) =>
    /\ client[k].entry \notin full
    /\ \A id \in Ids : entryAt[id] = client[k].entry => id = client[k].id
    /\ \A j \in Clients \ {k} : Computing(j) =>
         /\ client[j].entry # client[k].entry
         /\ client[j].id = client[k].id => Forgotten(j) \/ Forgotten(k)

=============================================================================
