--------------------------- MODULE AccountsProofs ---------------------------
(***************************************************************************)
(* Proofs about Cached, for any clients, keys and number of entries, and   *)
(* about Accounts, for any signers, callers and prices.  Of the cache,     *)
(* single flight is inductive once it is known that every entry is of one  *)
(* key, also for those that look it up, and that a client that waits or    *)
(* computes does so at an entry that was made; the type of the cache needs *)
(* the same of the map.  The balances the searches ask for are used as     *)
(* Cached says: every step of Accounts is a step of the cache or leaves it *)
(* alone, so what is proved of the cache holds of the accounts.  Of an     *)
(* account `next` is above every nonce that was handed out or known before *)
(* the start, and `last` is at most the price of every transaction that is *)
(* not mined yet; a search that holds an account keeps both as it saw      *)
(* them.                                                                   *)
(***************************************************************************)
EXTENDS Accounts, Induction

-----------------------------------------------------------------------------
(* The cache.                                                              *)

\* The entries of the map and of the clients were made.
EntriesMade ==
  /\ \A id \in Ids : entryAt[id] \in 1 .. made \cup {NoEntry}
  /\ \A k \in Clients : client[k].pc # "idle" => client[k].entry \in 1 .. made

\* An entry is of one key: of the one it is looked up by, and no two keys of the
\* map share one.
KeysApart ==
  /\ \A id, other \in Ids : entryAt[id] # NoEntry /\ entryAt[id] = entryAt[other] => id = other
  /\ \A k \in Clients : client[k].pc # "idle" =>
       /\ client[k].id \in Ids
       /\ \A id \in Ids : entryAt[id] = client[k].entry => id = client[k].id

\* At an entry one client computes, while there is no value.
OneEach ==
  \A k \in Clients : Computing(k) =>
    /\ client[k].entry \notin full
    /\ \A j \in Clients : Computing(j) /\ client[j].entry = client[k].entry => j = k

CacheInv == CacheTypeOK /\ EntriesMade /\ KeysApart /\ OneEach

\* So two that compute for one key do it at two entries, of which the map has one
\* at most.
LEMMA ByKey == CacheInv => SingleFlight
<1> SUFFICES ASSUME CacheInv, NEW k \in Clients, Computing(k)
             PROVE  /\ client[k].entry \notin full
                    /\ \A id \in Ids : entryAt[id] = client[k].entry => id = client[k].id
                    /\ \A j \in Clients \ {k} : Computing(j) =>
                         /\ client[j].entry # client[k].entry
                         /\ client[j].id = client[k].id => Forgotten(j) \/ Forgotten(k)
  BY DEF SingleFlight
<1>1. client[k].entry \notin full /\ \A id \in Ids : entryAt[id] = client[k].entry => id = client[k].id
  BY DEF CacheInv, OneEach, KeysApart, Computing
<1>2. \A j \in Clients \ {k} : Computing(j) => client[j].entry # client[k].entry
  BY DEF CacheInv, OneEach
<1> QED BY <1>1, <1>2 DEF Forgotten

LEMMA InitInv == CacheInit => CacheInv
<1> SUFFICES ASSUME CacheInit PROVE CacheInv
  OBVIOUS
<1> USE DEF CacheInit, IdleClient
<1>1. CacheTypeOK
  BY EntriesAssumption DEF CacheTypeOK, ClientStates, Entries
<1>2. EntriesMade /\ KeysApart /\ OneEach
  BY DEF EntriesMade, KeysApart, OneEach, Computing
<1> QED BY <1>1, <1>2 DEF CacheInv

-----------------------------------------------------------------------------
(* One lemma for each step.                                                *)

\* What a client that looks a key up finds: the entry of the map, or a new one.
LEMMA Found ==
  ASSUME CacheInv, NEW k \in Clients, NEW id \in Ids, GetAt(k, id)
  PROVE  \E e : /\ client' = [client EXCEPT ![k] = [pc |-> "waiting", id |-> id, entry |-> e]]
                /\ e \in 1 .. made' /\ made' \in made .. MaxEntries
                /\ entryAt' = [entryAt EXCEPT ![id] = e]
                /\ e = entryAt[id] \/ e \notin 1 .. made
<1>1. CacheTypeOK /\ EntriesMade
  BY DEF CacheInv
<1>2. CASE entryAt[id] # NoEntry
  <2> DEFINE e == entryAt[id]
  <2>1. /\ client' = [client EXCEPT ![k] = [pc |-> "waiting", id |-> id, entry |-> e]]
        /\ UNCHANGED <<entryAt, made>>
    BY <1>2 DEF GetAt
  <2>2. e \in 1 .. made /\ made \in 0 .. MaxEntries
    BY <1>1, <1>2 DEF EntriesMade, CacheTypeOK
  <2>3. entryAt = [entryAt EXCEPT ![id] = e]
    BY <1>1 DEF CacheTypeOK
  <2>4. made' \in made .. MaxEntries
    BY <2>1, <2>2, EntriesAssumption
  <2> QED BY <2>1, <2>2, <2>3, <2>4
<1>3. CASE entryAt[id] = NoEntry
  <2> DEFINE e == made + 1
  <2>1. /\ made < MaxEntries /\ made' = made + 1
        /\ entryAt' = [entryAt EXCEPT ![id] = e]
        /\ client' = [client EXCEPT ![k] = [pc |-> "waiting", id |-> id, entry |-> e]]
    BY <1>3 DEF GetAt
  <2>2. made \in Nat
    BY <1>1, EntriesAssumption DEF CacheTypeOK
  <2>3. e \in 1 .. made' /\ made' \in made .. MaxEntries /\ e \notin 1 .. made
    BY <2>1, <2>2, EntriesAssumption
  <2> QED BY <2>1, <2>3
<1> QED BY <1>2, <1>3

\* A client that looks an entry up waits at one that was made for its key.
LEMMA GetAtInv ==
  ASSUME CacheInv, NEW k \in Clients, NEW id \in Ids, GetAt(k, id)
  PROVE  CacheInv'
<1>1. CacheTypeOK /\ EntriesMade /\ KeysApart /\ OneEach
  BY DEF CacheInv
<1>2. client[k].pc = "idle" /\ full' = full
  BY DEF GetAt
<1>3. PICK e : /\ client' = [client EXCEPT ![k] = [pc |-> "waiting", id |-> id, entry |-> e]]
               /\ e \in 1 .. made' /\ made' \in made .. MaxEntries
               /\ entryAt' = [entryAt EXCEPT ![id] = e]
               /\ e = entryAt[id] \/ e \notin 1 .. made
  BY Found
<1>4. made \in Nat /\ made' \in Nat /\ made <= made' /\ made' <= MaxEntries /\ e \in Nat /\ e <= MaxEntries
  BY <1>1, <1>3, EntriesAssumption DEF CacheTypeOK
<1>5. \A n \in 1 .. made : n \in 1 .. made'
  BY <1>4
<1>6. e \in Entries /\ e # NoEntry
  BY <1>3, <1>4, EntriesAssumption DEF Entries
<1>7. \A i \in Ids : entryAt'[i] = IF i = id THEN e ELSE entryAt[i]
  BY <1>1, <1>3 DEF CacheTypeOK
<1>8. \A j \in Clients :
        client'[j] = IF j = k THEN [pc |-> "waiting", id |-> id, entry |-> e] ELSE client[j]
  BY <1>1, <1>3 DEF CacheTypeOK
<1>9. CacheTypeOK'
  <2>1. [pc |-> "waiting", id |-> id, entry |-> e] \in ClientStates
    BY <1>6 DEF ClientStates
  <2>2. client' \in [Clients -> ClientStates]
    BY <1>1, <1>3, <2>1 DEF CacheTypeOK
  <2>3. entryAt' \in [Ids -> Entries \cup {NoEntry}]
    BY <1>1, <1>3, <1>6 DEF CacheTypeOK
  <2>4. made' \in 0 .. MaxEntries /\ full' \subseteq 1 .. made'
    BY <1>1, <1>2, <1>4, <1>5, EntriesAssumption DEF CacheTypeOK
  <2> QED BY <2>2, <2>3, <2>4 DEF CacheTypeOK
<1>10. EntriesMade'
  <2>1. \A i \in Ids : entryAt'[i] \in 1 .. made' \cup {NoEntry}
    BY <1>1, <1>3, <1>5, <1>7 DEF EntriesMade
  <2>2. \A j \in Clients : client'[j].pc # "idle" => client'[j].entry \in 1 .. made'
    BY <1>1, <1>3, <1>5, <1>8 DEF EntriesMade
  <2> QED BY <2>1, <2>2 DEF EntriesMade
\* Of the entries that were made before, e is that of id alone.
<1>11. \A n \in 1 .. made : n = e => entryAt[id] = e
  BY <1>3
<1>12. \A i \in Ids : i # id => entryAt[i] # e
  <2> SUFFICES ASSUME NEW i \in Ids, i # id, entryAt[i] = e PROVE FALSE
    OBVIOUS
  <2>1. e \in 1 .. made
    BY <1>1, <1>6 DEF EntriesMade
  <2>2. entryAt[id] = e
    BY <1>11, <2>1
  <2> QED BY <1>1, <1>6, <2>2 DEF KeysApart
<1>13. \A j \in Clients : client[j].pc # "idle" /\ client[j].entry = e => client[j].id = id
  <2> SUFFICES ASSUME NEW j \in Clients, client[j].pc # "idle", client[j].entry = e
               PROVE  client[j].id = id
    OBVIOUS
  <2>1. e \in 1 .. made
    BY <1>1 DEF EntriesMade
  <2>2. entryAt[id] = client[j].entry
    BY <1>11, <2>1
  <2> QED BY <1>1, <2>2 DEF KeysApart
<1>14. KeysApart'
  <2>1. ASSUME NEW i \in Ids, NEW other \in Ids, entryAt'[i] # NoEntry, entryAt'[i] = entryAt'[other]
        PROVE  i = other
    BY <1>1, <1>7, <1>12, <2>1 DEF KeysApart
  <2>2. ASSUME NEW j \in Clients, client'[j].pc # "idle"
        PROVE  /\ client'[j].id \in Ids
               /\ \A i \in Ids : entryAt'[i] = client'[j].entry => i = client'[j].id
    <3>1. CASE j = k
      BY <1>7, <1>8, <1>12, <3>1
    <3>2. CASE j # k
      <4>1. client'[j] = client[j]
        BY <1>8, <3>2
      <4>2. /\ client[j].id \in Ids
            /\ \A i \in Ids : entryAt[i] = client[j].entry => i = client[j].id
        BY <1>1, <2>2, <4>1 DEF KeysApart
      <4>3. client[j].entry = e => client[j].id = id
        BY <1>13, <2>2, <4>1
      <4> QED BY <1>7, <4>1, <4>2, <4>3
    <3> QED BY <3>1, <3>2
  <2> QED BY <2>1, <2>2 DEF KeysApart
<1>15. OneEach'
  <2>1. \A j \in Clients : Computing(j)' => j # k /\ Computing(j) /\ client'[j] = client[j]
    BY <1>8 DEF Computing
  <2> QED BY <1>1, <1>2, <2>1 DEF OneEach
<1> QED BY <1>9, <1>10, <1>14, <1>15 DEF CacheInv

\* Clients that leave take nothing with them.
LEMMA LeavingInv ==
  ASSUME CacheInv, NEW K \in SUBSET Clients, client' = Leaving(K),
         UNCHANGED <<entryAt, made, full>>
  PROVE  CacheInv'
<1>1. \A k \in Clients : client'[k] = IF k \in K THEN IdleClient ELSE client[k]
  BY DEF Leaving
<1>2. IdleClient \in ClientStates /\ IdleClient.pc = "idle"
  BY DEF IdleClient, ClientStates
<1>3. CacheTypeOK'
  BY <1>2 DEF CacheInv, CacheTypeOK, Leaving
<1>4. \A k \in Clients : client'[k].pc # "idle" => client'[k] = client[k]
  BY <1>1, <1>2
<1>5. EntriesMade' /\ KeysApart'
  BY <1>4 DEF CacheInv, EntriesMade, KeysApart
<1>6. OneEach'
  BY <1>4 DEF CacheInv, OneEach, Computing
<1> QED BY <1>3, <1>5, <1>6 DEF CacheInv

\* A client computes only what nobody computes.
LEMMA ComputeInv ==
  ASSUME CacheInv, NEW k \in Clients, Compute(k)
  PROVE  CacheInv'
<1>1. CacheTypeOK /\ EntriesMade /\ KeysApart /\ OneEach
  BY DEF CacheInv
<1>2. /\ client[k].pc = "waiting" /\ client[k].entry \notin full
      /\ \A j \in Clients : Computing(j) => client[j].entry # client[k].entry
  BY DEF Compute, MayCompute, Locked
<1>3. /\ client' = [client EXCEPT ![k].pc = "computing"]
      /\ UNCHANGED <<entryAt, made, full>>
  BY DEF Compute
<1>4. client[k] \in ClientStates
  BY <1>1 DEF CacheTypeOK
<1>5. /\ client'[k] = [pc |-> "computing", id |-> client[k].id, entry |-> client[k].entry]
      /\ \A j \in Clients \ {k} : client'[j] = client[j]
      /\ client' \in [Clients -> ClientStates]
  BY <1>1, <1>3, <1>4 DEF CacheTypeOK, ClientStates
<1>6. CacheTypeOK'
  BY <1>1, <1>3, <1>5 DEF CacheTypeOK
<1>7. \A j \in Clients : /\ client'[j].id = client[j].id /\ client'[j].entry = client[j].entry
                         /\ client'[j].pc # "idle" => client[j].pc # "idle"
                         /\ j # k /\ Computing(j)' => Computing(j)
  BY <1>2, <1>5 DEF Computing
<1>8. EntriesMade' /\ KeysApart'
  BY <1>1, <1>3, <1>7 DEF EntriesMade, KeysApart
<1>9. OneEach'
  BY <1>1, <1>2, <1>3, <1>7 DEF OneEach
<1> QED BY <1>6, <1>8, <1>9 DEF CacheInv

\* Nobody else computes what becomes available.
LEMMA ComputedInv ==
  ASSUME CacheInv, NEW k \in Clients, NEW K \in SUBSET Clients, Computed(k, K)
  PROVE  CacheInv'
<1>1. CacheTypeOK /\ EntriesMade /\ KeysApart /\ OneEach
  BY DEF CacheInv
<1>2. /\ Computing(k) /\ k \in K
      /\ full' = full \cup {client[k].entry}
      /\ client' = Leaving(K) /\ UNCHANGED <<entryAt, made>>
  BY DEF Computed
<1>3. \A j \in Clients : client'[j] = IF j \in K THEN IdleClient ELSE client[j]
  BY <1>2 DEF Leaving
<1>4. client' \in [Clients -> ClientStates]
  BY <1>1, <1>2 DEF CacheTypeOK, Leaving, IdleClient, ClientStates
<1>5. CacheTypeOK'
  BY <1>1, <1>2, <1>4 DEF CacheTypeOK, EntriesMade, Computing
<1>6. \A j \in Clients : client'[j].pc # "idle" => j \notin K /\ client'[j] = client[j]
  BY <1>3 DEF IdleClient
<1>7. EntriesMade' /\ KeysApart'
  BY <1>1, <1>2, <1>6 DEF EntriesMade, KeysApart
<1>8. \A j \in Clients : Computing(j)' => j # k /\ Computing(j) /\ client'[j] = client[j]
  BY <1>2, <1>6 DEF Computing
<1>9. OneEach'
  <2> SUFFICES ASSUME NEW j \in Clients, Computing(j)'
               PROVE  /\ client'[j].entry \notin full'
                      /\ \A l \in Clients : Computing(l)' /\ client'[l].entry = client'[j].entry => l = j
    BY DEF OneEach
  <2>1. client[j].entry \notin full /\ client[j].entry # client[k].entry
    BY <1>1, <1>2, <1>8 DEF OneEach
  <2> QED BY <1>1, <1>2, <1>8, <2>1 DEF OneEach
<1> QED BY <1>5, <1>7, <1>9 DEF CacheInv

\* What is forgotten is still there for those who looked it up.
LEMMA ForgetInv ==
  ASSUME CacheInv, NEW gone \in SUBSET Ids, Forget(gone)
  PROVE  CacheInv'
<1>1. /\ entryAt' = [id \in Ids |-> IF id \in gone THEN NoEntry ELSE entryAt[id]]
      /\ UNCHANGED <<made, full, client>>
  BY DEF Forget
<1>2. CacheTypeOK /\ EntriesMade /\ KeysApart /\ OneEach
  BY DEF CacheInv
<1>3. CacheTypeOK'
  BY <1>1, <1>2 DEF CacheTypeOK
<1>4. EntriesMade' /\ OneEach'
  BY <1>1, <1>2 DEF EntriesMade, OneEach, Computing
<1>5. \A k \in Clients : client[k].pc # "idle" => client[k].entry # NoEntry
  BY <1>2, EntriesAssumption DEF EntriesMade, CacheTypeOK
<1>6. \A id \in Ids : entryAt'[id] # NoEntry => entryAt'[id] = entryAt[id]
  BY <1>1
<1>7. KeysApart'
  BY <1>1, <1>2, <1>5, <1>6 DEF KeysApart
<1> QED BY <1>3, <1>4, <1>7 DEF CacheInv

LEMMA StepInv == CacheInv /\ [CacheNext]_cacheVars => CacheInv'
<1> SUFFICES ASSUME CacheInv, [CacheNext]_cacheVars PROVE CacheInv'
  OBVIOUS
<1>1. ASSUME NEW k \in Clients, NEW id \in Ids, GetAt(k, id) PROVE CacheInv'
  BY <1>1, GetAtInv
<1>2. ASSUME NEW k \in Clients, Compute(k) PROVE CacheInv'
  BY <1>2, ComputeInv
<1>3. ASSUME NEW k \in Clients, NEW K \in SUBSET Clients, Hit(k, K) PROVE CacheInv'
  BY <1>3, LeavingInv DEF Hit
<1>4. ASSUME NEW k \in Clients, NEW K \in SUBSET Clients, Computed(k, K) PROVE CacheInv'
  BY <1>4, ComputedInv
<1>5. ASSUME NEW K \in SUBSET Clients, Leave(K) PROVE CacheInv'
  BY <1>5, LeavingInv DEF Leave
<1>6. ASSUME NEW gone \in SUBSET Ids, Forget(gone) PROVE CacheInv'
  BY <1>6, ForgetInv
<1>7. CASE UNCHANGED cacheVars
  BY <1>7 DEF cacheVars, CacheInv, CacheTypeOK, EntriesMade, KeysApart, OneEach, Computing
<1> QED BY <1>1, <1>2, <1>3, <1>4, <1>5, <1>6, <1>7 DEF CacheNext

-----------------------------------------------------------------------------

\* The invariant holds of any number of clients, keys and entries
\* (crates/engine/src/cached.rs).
THEOREM CacheInvariant == CacheSpec => []CacheInv
<1>1. CacheInit => CacheInv
  BY InitInv
<1>2. CacheInv /\ [CacheNext]_cacheVars => CacheInv'
  BY StepInv
<1> QED BY <1>1, <1>2, PTL DEF CacheSpec

\* While a client computes a value there is none in its entry and nobody else
\* computes at it, and of one key two values are computed at once only when the
\* map forgot an entry (cached.rs, get_or_try_insert_with_map and get_at).
THEOREM ComputedOnce == CacheSpec => []SingleFlight
BY CacheInvariant, ByKey, PTL

-----------------------------------------------------------------------------
(* The accounts.                                                           *)

\* The futures of a search are clients of the cache.
LEMMA FuturesAreClients ==
  ASSUME NEW c \in Callers
  PROVE  /\ Futures(c) \in SUBSET Clients
         /\ \A a \in Accts : <<c, a>> \in Clients /\ {<<c, a>>} \in SUBSET Clients
  BY CacheAssumption DEF Futures

\* One step of the accounts is one step of the cache, or none.
LEMMA StepIsCacheStep == Next => [CacheNext]_cacheVars
<1> SUFFICES ASSUME Next PROVE [CacheNext]_cacheVars
  OBVIOUS
<1>1. ASSUME NEW a \in Accts, ReadCount(a) PROVE UNCHANGED cacheVars
  BY <1>1 DEF ReadCount
<1>2. ASSUME NEW a \in Accts, ForgetBalances(a) PROVE CacheNext
  <2>1. Forget({a}) /\ {a} \in SUBSET Ids
    BY <1>2, CacheAssumption DEF ForgetBalances
  <2> QED BY <2>1 DEF CacheNext
<1>3. ASSUME NEW a \in Accts, TxMined(a) PROVE UNCHANGED cacheVars
  BY <1>3 DEF TxMined
<1>4. ASSUME NEW c \in Callers, Begin(c) PROVE UNCHANGED cacheVars
  BY <1>4 DEF Begin
<1>5. ASSUME NEW c \in Callers, NotFound(c) PROVE UNCHANGED cacheVars
  BY <1>5 DEF NotFound
<1>6. ASSUME NEW c \in Callers, Drop(c) PROVE CacheNext
  BY <1>6, FuturesAreClients DEF Drop, CacheNext
<1>7. ASSUME NEW c \in Callers, SendOne(c) PROVE UNCHANGED cacheVars
  BY <1>7 DEF SendOne
<1>8. ASSUME NEW c \in Callers, SendRefused(c) PROVE UNCHANGED cacheVars
  BY <1>8 DEF SendRefused
<1>9. ASSUME NEW c \in Callers, Sent(c) PROVE UNCHANGED cacheVars
  BY <1>9 DEF Sent
<1>10. ASSUME NEW c \in Callers, NEW a \in Accts, Look(c, a) PROVE CacheNext
  <2>1. GetAt(<<c, a>>, a) /\ <<c, a>> \in Clients /\ a \in Ids
    BY <1>10, FuturesAreClients, CacheAssumption DEF Look
  <2> QED BY <2>1 DEF CacheNext
<1>11. ASSUME NEW c \in Callers, NEW a \in Accts, LockAccount(c, a)
       PROVE  [CacheNext]_cacheVars
  <2>1. CASE MayWrap(a, search[c].price)
    <3>1. GetAt(<<c, a>>, a) /\ <<c, a>> \in Clients /\ a \in Ids
      BY <1>11, <2>1, FuturesAreClients, CacheAssumption DEF LockAccount
    <3> QED BY <3>1 DEF CacheNext
  <2>2. CASE ~MayWrap(a, search[c].price)
    BY <1>11, <2>2 DEF LockAccount
  <2> QED BY <2>1, <2>2
<1>12. ASSUME NEW c \in Callers, NEW a \in Accts, ComputeBalance(c, a) PROVE CacheNext
  BY <1>12, FuturesAreClients DEF ComputeBalance, CacheNext
<1>13. ASSUME NEW c \in Callers, NEW a \in Accts, Passes(c, a) PROVE CacheNext
  BY <1>13, FuturesAreClients DEF Passes, CacheNext
<1>14. ASSUME NEW c \in Callers, NEW a \in Accts, Fits(c, a) PROVE CacheNext
  BY <1>14, FuturesAreClients DEF Fits, CacheNext
<1>15. ASSUME NEW c \in Callers, NEW a \in Accts, Fails(c, a) PROVE CacheNext
  BY <1>15, FuturesAreClients DEF Fails, CacheNext
<1>16. ASSUME Block PROVE UNCHANGED cacheVars
  BY <1>16 DEF Block
<1>17. ASSUME NEW c \in Callers, NEW a \in Accts, WrapPanics(c, a) PROVE CacheNext
  BY <1>17, FuturesAreClients DEF WrapPanics, CacheNext
<1> QED BY <1>1, <1>2, <1>3, <1>4, <1>5, <1>6, <1>7, <1>8, <1>9, <1>10, <1>11, <1>12,
           <1>13, <1>14, <1>15, <1>16, <1>17 DEF Next

\* The accounts use the cache as its specification says (accounts.rs,
\* balance_at).
THEOREM ImplementsCache == Spec => CacheSpec
<1>1. Init => CacheInit
  BY DEF Init
<1>2. [Next]_vars => [CacheNext]_cacheVars
  BY StepIsCacheStep DEF vars, cacheVars
<1> QED BY <1>1, <1>2, PTL DEF Spec, CacheSpec

\* Two searches ask the node for the balance of one account at once only when
\* the balances were forgotten after one of them had looked its entry up.
THEOREM BalanceComputedOnce == Spec => []SingleFlight
  BY ImplementsCache, ComputedOnce, PTL

-----------------------------------------------------------------------------
(* Who holds an account.                                                   *)

LockInv == TypeOK /\ LocksHeld

Searches == [pc : {"idle", "search", "send", "over"}, op : {None, "look", "wrap"},
             price : WrapPrices \cup {None}]

LEMMA IdleIsTyped == \A pc \in {"idle", "search", "send", "over"} : [Idle EXCEPT !.pc = pc] \in Searches
  BY DEF Idle, Searches

LEMMA InitLocks == Init => LockInv
<1> SUFFICES ASSUME Init PROVE LockInv
  OBVIOUS
<1>1. CacheTypeOK
  BY InitInv DEF Init, CacheInv
<1>2. Idle \in Searches
  BY DEF Idle, Searches
<1>3. TypeOK
  BY <1>1, <1>2 DEF Init, TypeOK, Searches
<1>4. LocksHeld
  BY NobodyAssumption DEF Init, LocksHeld
<1> QED BY <1>3, <1>4 DEF LockInv

\* A search that is over holds nothing.
LEMMA SearchOverLocks ==
  ASSUME LockInv, CacheTypeOK', used' = used,
         NEW c \in Callers, NEW pc \in {"idle", "search", "send", "over"}, SearchOver(c, pc)
  PROVE  LockInv'
<1>1. TypeOK /\ LocksHeld
  BY DEF LockInv
<1>2. /\ search' = [search EXCEPT ![c] = [Idle EXCEPT !.pc = pc]]
      /\ phase' = [phase EXCEPT ![c] = [a \in Accts |-> "none"]]
      /\ lock' = [a \in Accts |-> IF lock[a] = c THEN Nobody ELSE lock[a]]
  BY DEF SearchOver, Released
<1>3. [Idle EXCEPT !.pc = pc] \in Searches
  BY IdleIsTyped
<1>4. TypeOK'
  BY <1>1, <1>2, <1>3 DEF TypeOK, Searches
<1>5. LocksHeld'
  BY <1>1, <1>2, NobodyAssumption DEF LocksHeld, TypeOK
<1> QED BY <1>4, <1>5 DEF LockInv

LEMMA StepLocks == LockInv /\ CacheTypeOK' /\ [Next]_vars => LockInv'
<1> SUFFICES ASSUME LockInv, CacheTypeOK', [Next]_vars PROVE LockInv'
  OBVIOUS
<1>1. TypeOK /\ LocksHeld
  BY DEF LockInv
<1>2. ASSUME UNCHANGED <<lock, search, phase>>, used' \subseteq Accts PROVE LockInv'
  BY <1>1, <1>2 DEF LockInv, TypeOK, LocksHeld
<1>3. ASSUME NEW a \in Accts, ReadCount(a) PROVE LockInv'
  BY <1>1, <1>2, <1>3 DEF ReadCount, TypeOK
<1>4. ASSUME NEW a \in Accts, ForgetBalances(a) \/ TxMined(a) PROVE LockInv'
  BY <1>1, <1>2, <1>4 DEF ForgetBalances, TxMined, TypeOK
<1>5. ASSUME NEW c \in Callers, Begin(c) PROVE LockInv'
  <2>1. /\ search[c] = Idle
        /\ \E s \in Searches : search' = [search EXCEPT ![c] = s]
    BY <1>5 DEF Begin, Idle, Searches
  <2>2. \A a \in Accts : lock[a] # c
    BY <1>1, <2>1 DEF LocksHeld, Idle
  <2>3. UNCHANGED <<lock, phase, used>>
    BY <1>5 DEF Begin
  <2>4. TypeOK'
    BY <1>1, <2>1, <2>3 DEF TypeOK, Searches
  <2>5. LocksHeld'
    BY <1>1, <2>1, <2>2, <2>3 DEF TypeOK, LocksHeld
  <2> QED BY <2>4, <2>5 DEF LockInv
<1>6. ASSUME NEW c \in Callers, NotFound(c) \/ Drop(c) PROVE LockInv'
  BY <1>6, SearchOverLocks DEF NotFound, Drop
<1>7. ASSUME NEW c \in Callers, SendOne(c) \/ SendRefused(c) PROVE LockInv'
  BY <1>1, <1>2, <1>7 DEF SendOne, SendRefused, TypeOK
<1>8. ASSUME NEW c \in Callers, Sent(c) PROVE LockInv'
  <2>1. /\ search[c].pc = "send" /\ search' = [search EXCEPT ![c].pc = "over"]
        /\ UNCHANGED <<lock, phase, used>>
    BY <1>8 DEF Sent
  <2>2. TypeOK'
    BY <1>1, <2>1 DEF TypeOK
  <2>3. LocksHeld'
    BY <1>1, <2>1 DEF TypeOK, LocksHeld
  <2> QED BY <2>2, <2>3 DEF LockInv
<1>9. ASSUME NEW c \in Callers, NEW a \in Accts, Look(c, a) PROVE LockInv'
  <2>1. /\ search[c].op = "look" /\ phase' = [phase EXCEPT ![c][a] = "inside"]
        /\ UNCHANGED <<lock, search, used>>
    BY <1>9 DEF Look, Searching, SetPhase
  <2>2. TypeOK'
    BY <1>1, <2>1 DEF TypeOK
  <2>3. LocksHeld'
    BY <1>1, <2>1 DEF TypeOK, LocksHeld
  <2> QED BY <2>2, <2>3 DEF LockInv
<1>10. ASSUME NEW c \in Callers, NEW a \in Accts, LockAccount(c, a) PROVE LockInv'
  <2>1. /\ search[c].pc = "search" /\ search[c].op = "wrap" /\ phase[c][a] = "start"
        /\ lock[a] = Nobody /\ UNCHANGED <<search, used>>
    BY <1>10 DEF LockAccount, Searching
  <2>2. CASE MayWrap(a, search[c].price)
    <3>1. /\ lock' = [lock EXCEPT ![a] = c]
          /\ phase' = [phase EXCEPT ![c][a] = "inside"]
      BY <1>10, <2>2 DEF LockAccount, SetPhase
    <3>2. TypeOK'
      BY <1>1, <2>1, <3>1 DEF TypeOK
    <3>3. LocksHeld'
      BY <1>1, <2>1, <3>1 DEF TypeOK, LocksHeld
    <3> QED BY <3>2, <3>3 DEF LockInv
  <2>3. CASE ~MayWrap(a, search[c].price)
    <3>1. lock' = lock /\ phase' = [phase EXCEPT ![c][a] = "none"]
      BY <1>10, <2>3 DEF LockAccount, SetPhase
    <3>2. TypeOK'
      BY <1>1, <2>1, <3>1 DEF TypeOK
    <3>3. LocksHeld'
      BY <1>1, <2>1, <3>1, NobodyAssumption DEF TypeOK, LocksHeld
    <3> QED BY <3>2, <3>3 DEF LockInv
  <2> QED BY <2>2, <2>3
<1>11. ASSUME NEW c \in Callers, NEW a \in Accts, ComputeBalance(c, a) PROVE LockInv'
  BY <1>1, <1>2, <1>11 DEF ComputeBalance, TypeOK
<1>12. ASSUME NEW c \in Callers, NEW a \in Accts, Passes(c, a) PROVE LockInv'
  <2>1. /\ phase' = [phase EXCEPT ![c][a] = "none"]
        /\ lock' = [lock EXCEPT ![a] = IF @ = c THEN Nobody ELSE @]
        /\ UNCHANGED <<search, used>>
    BY <1>12 DEF Passes, SetPhase
  <2>2. TypeOK'
    BY <1>1, <2>1 DEF TypeOK
  <2>3. LocksHeld'
    BY <1>1, <2>1, NobodyAssumption DEF TypeOK, LocksHeld
  <2> QED BY <2>2, <2>3 DEF LockInv
<1>13. ASSUME NEW c \in Callers, NEW a \in Accts, Fits(c, a) PROVE LockInv'
  <2>1. SearchOver(c, "over") \/ SearchOver(c, "send")
    BY <1>13 DEF Fits
  <2>2. used' = used
    BY <1>13 DEF Fits
  <2> QED BY <2>1, <2>2, SearchOverLocks
<1>14. ASSUME NEW c \in Callers, NEW a \in Accts, Fails(c, a) \/ WrapPanics(c, a) PROVE LockInv'
  BY <1>14, SearchOverLocks DEF Fails, WrapPanics
<1>15. ASSUME Block PROVE LockInv'
  BY <1>1, <1>2, <1>15 DEF Block, TypeOK
<1>16. CASE UNCHANGED vars
  BY <1>1, <1>2, <1>16 DEF vars, TypeOK
<1> QED BY <1>3, <1>4, <1>5, <1>6, <1>7, <1>8, <1>9, <1>10, <1>11, <1>12, <1>13, <1>14,
           <1>15, <1>16 DEF Next

\* Type correctness, of the cache the accounts use as well.
THEOREM TypeCorrect == Spec => []TypeOK
<1>1. CacheInv => CacheTypeOK
  BY DEF CacheInv
<1>2. Init => LockInv
  BY InitLocks
<1>3. LockInv /\ CacheTypeOK' /\ [Next]_vars => LockInv'
  BY StepLocks
<1>4. LockInv => TypeOK
  BY DEF LockInv
<1> QED BY <1>1, <1>2, <1>3, <1>4, ImplementsCache, CacheInvariant, PTL DEF Spec

\* However a search ends, no account stays locked by it: the guard of an
\* account lives as long as the future that decides about it (accounts.rs,
\* map_unordered_locked).
THEOREM NoLockIsLeft == Spec => []LocksHeld
<1>1. CacheInv => CacheTypeOK
  BY DEF CacheInv
<1>2. Init => LockInv
  BY InitLocks
<1>3. LockInv /\ CacheTypeOK' /\ [Next]_vars => LockInv'
  BY StepLocks
<1>4. LockInv => LocksHeld
  BY DEF LockInv
<1> QED BY <1>1, <1>2, <1>3, <1>4, ImplementsCache, CacheInvariant, PTL DEF Spec

-----------------------------------------------------------------------------
(* Batches.                                                                *)

\* The later place gets the higher nonce.
LEMMA NoncesRise ==
  ASSUME NEW L \in Nat, NEW places \in SUBSET (1 .. L), NEW n \in Nat
  PROVE  /\ Cardinality(places) \in Nat
         /\ \A i \in places : NonceAt(n, places, i) \in n .. n + Cardinality(places) - 1
         /\ \A i, j \in places : i < j => NonceAt(n, places, i) < NonceAt(n, places, j)
<1> DEFINE Before(i) == {j \in places : j < i}
<1>1. IsFiniteSet(places)
  <2>1. IsFiniteSet(1 .. L)
    BY FS_Interval, L \in Int, 1 \in Int
  <2> QED BY <2>1, FS_Subset
<1>2. ASSUME NEW T \in SUBSET places
      PROVE  IsFiniteSet(T) /\ Cardinality(T) \in Nat
  BY <1>1, FS_Subset, FS_CardinalityType
<1>3. ASSUME NEW T \in SUBSET places, NEW U \in SUBSET T, NEW i \in T, i \notin U
      PROVE  Cardinality(U) < Cardinality(T)
  <2>1. U \in SUBSET places /\ U # T
    BY <1>3
  <2>2. IsFiniteSet(T) /\ Cardinality(T) \in Nat /\ Cardinality(U) \in Nat
    BY <2>1, <1>2
  <2>3. Cardinality(U) <= Cardinality(T) /\ (Cardinality(T) = Cardinality(U) => T = U)
    BY <2>2, FS_Subset
  <2> QED BY <2>1, <2>2, <2>3
<1>4. Cardinality(places) \in Nat
  BY <1>2
<1>5. ASSUME NEW i \in places
      PROVE  NonceAt(n, places, i) \in n .. n + Cardinality(places) - 1
  <2>1. Before(i) \in SUBSET places /\ i \notin Before(i)
    OBVIOUS
  <2>2. Cardinality(Before(i)) < Cardinality(places)
    BY <2>1, <1>3
  <2>3. Cardinality(Before(i)) \in Nat
    BY <2>1, <1>2
  <2> QED BY <2>2, <2>3, <1>4 DEF NonceAt
<1>6. ASSUME NEW i \in places, NEW j \in places, i < j
      PROVE  NonceAt(n, places, i) < NonceAt(n, places, j)
  <2>1. Before(i) \in SUBSET Before(j) /\ i \in Before(j) /\ i \notin Before(i)
    <3>1. \A k \in places : k \in Int
      OBVIOUS
    <3>2. \A k \in places : k < i => k < j
      BY <3>1, <1>6
    <3>3. i \in Before(j) /\ i \notin Before(i)
      BY <3>1, <1>6
    <3> QED BY <3>2, <3>3
  <2>2. Before(i) \in SUBSET places /\ Before(j) \in SUBSET places
    OBVIOUS
  <2>3. Cardinality(Before(i)) < Cardinality(Before(j))
    BY <2>1, <2>2, <1>3
  <2>4. Cardinality(Before(i)) \in Nat /\ Cardinality(Before(j)) \in Nat
    BY <2>2, <1>2
  <2> QED BY <2>3, <2>4 DEF NonceAt
<1> QED BY <1>4, <1>5, <1>6

\* Of some places one is the last.
LEMMA LastPlace ==
  ASSUME NEW L \in Nat, NEW places \in SUBSET (1 .. L), places # {}
  PROVE  \E i \in places : \A j \in places : j <= i
<1>1. places \subseteq Nat /\ \A i \in places : i <= L
  OBVIOUS
<1> QED BY <1>1, Greatest

\* What send_txs does to a batch: the nonces follow those handed out before,
\* the prices fall and never exceed the last one, which stays the lowest.
LEMMA Batches ==
  ASSUME NEW a \in Accts, next[a] \in Nat, last[a] \in Nat \cup {None},
         NEW prices \in Seq(Nat), NEW s, s = Assigned(next[a], last[a], prices)
  PROVE  /\ s.next \in Nat /\ next[a] <= s.next
         /\ s.last \in Nat \cup {None}
         /\ DOMAIN s.txs = DOMAIN prices
         /\ s.txs \in Seq([nonce : Nat \cup {None}, price : Nat])
         /\ last[a] # None => s.last # None /\ s.last <= last[a]
         /\ \A i \in DOMAIN prices :
              /\ s.txs[i].price = prices[i]
              /\ s.txs[i].nonce # None =>
                   /\ next[a] <= s.txs[i].nonce /\ s.txs[i].nonce < s.next
                   /\ CanSend(a, prices[i])
                   /\ s.last # None /\ s.last <= prices[i]
              /\ s.txs[i].nonce = None =>
                   ~CanSend(a, prices[i]) \/ \E j \in 1 .. i - 1 : prices[j] < prices[i]
         /\ \A i, j \in DOMAIN prices :
              s.txs[i].nonce # None /\ s.txs[j].nonce # None /\ i < j =>
                s.txs[i].nonce < s.txs[j].nonce /\ prices[j] <= prices[i]
<1> DEFINE places == Numbered(last[a], prices)
           n == next[a]
           L == Len(prices)
<1>1. L \in Nat /\ DOMAIN prices = 1 .. L /\ \A i \in 1 .. L : prices[i] \in Nat
  OBVIOUS
<1>2. places \in SUBSET (1 .. L)
  BY <1>1 DEF Numbered
<1>3. \A i \in 1 .. L : i \in places <=>
        CanSend(a, prices[i]) /\ \A j \in 1 .. i - 1 : prices[j] >= prices[i]
  BY <1>1 DEF Numbered, CanSend
<1>4. /\ s.next = n + Cardinality(places)
      /\ s.last = PriceAfter(last[a], prices, places)
      /\ s.txs = [i \in 1 .. L |->
                    [nonce |-> IF i \in places THEN NonceAt(n, places, i) ELSE None,
                     price |-> prices[i]]]
  BY <1>1 DEF Assigned
<1> HIDE DEF places, n, L
<1>5. /\ Cardinality(places) \in Nat
      /\ \A i \in places : NonceAt(n, places, i) \in n .. n + Cardinality(places) - 1
      /\ \A i, j \in places : i < j => NonceAt(n, places, i) < NonceAt(n, places, j)
  BY <1>1, <1>2, NoncesRise DEF n
<1>6. n \in Nat /\ None \notin Nat /\ n = next[a]
  BY NobodyAssumption DEF n
<1>7. s.next \in Nat /\ n <= s.next
  BY <1>4, <1>5, <1>6
<1>8. \A i \in 1 .. L :
        /\ s.txs[i].price = prices[i]
        /\ s.txs[i].nonce = IF i \in places THEN NonceAt(n, places, i) ELSE None
        /\ s.txs[i] \in [nonce : Nat \cup {None}, price : Nat]
        /\ s.txs[i].nonce # None <=> i \in places
  BY <1>1, <1>4, <1>5, <1>6
<1>9. s.txs \in Seq([nonce : Nat \cup {None}, price : Nat]) /\ DOMAIN s.txs = 1 .. L
  <2> DEFINE Tx == [nonce : Nat \cup {None}, price : Nat]
  <2>1. s.txs \in [1 .. L -> Tx]
    BY <1>4, <1>8
  <2> HIDE DEF Tx
  <2>2. s.txs \in Seq(Tx)
    <3>1. L \in Nat
      BY <1>1
    <3> QED BY <2>1, <3>1, IsList
  <2> QED BY <2>1, <2>2 DEF Tx
<1>10. \A i, j \in places : i < j => prices[j] <= prices[i]
  <2>1. ASSUME NEW i \in places, NEW j \in places, i < j
        PROVE  prices[j] <= prices[i]
    <3>1. i \in 1 .. L /\ j \in 1 .. L
      BY <1>2
    <3>2. i \in 1 .. j - 1
      BY <3>1, <2>1
    <3>3. prices[i] >= prices[j]
      BY <3>1, <3>2, <1>3
    <3> QED BY <3>1, <3>3, <1>1
  <2> QED BY <2>1
<1>11. /\ s.last \in Nat \cup {None}
       /\ last[a] # None => s.last # None /\ s.last <= last[a]
       /\ \A i \in places : s.last # None /\ s.last <= prices[i]
  <2>1. CASE places = {}
    <3>1. s.last = last[a]
      BY <1>4, <2>1 DEF PriceAfter
    <3>2. last[a] # None => last[a] <= last[a]
      OBVIOUS
    <3> QED BY <3>1, <3>2, <2>1
  <2>2. CASE places # {}
    <3>1. PICK k \in places : s.last = prices[k] /\ \A j \in places : j <= k
      <4>1. \E k \in places : \A j \in places : j <= k
        BY <1>1, <1>2, <2>2, LastPlace
      <4> QED BY <4>1, <1>4, <2>2 DEF PriceAfter
    <3>2. k \in 1 .. L /\ s.last \in Nat /\ s.last # None
      BY <3>1, <1>1, <1>2, <1>6
    <3>3. ASSUME NEW i \in places PROVE s.last <= prices[i]
      <4>1. i \in 1 .. L /\ i <= k
        BY <3>1, <1>2
      <4>2. CASE i = k
        BY <4>2, <3>1, <3>2
      <4>3. CASE i < k
        BY <4>3, <3>1, <1>10
      <4> QED BY <4>1, <4>2, <4>3, <3>2
    <3>4. last[a] # None => s.last <= last[a]
      BY <3>1, <3>2, <1>3 DEF CanSend, MayFollow
    <3> QED BY <3>2, <3>3, <3>4
  <2> QED BY <2>1, <2>2
<1>12. ASSUME NEW i \in 1 .. L, s.txs[i].nonce # None
       PROVE  /\ next[a] <= s.txs[i].nonce /\ s.txs[i].nonce < s.next
              /\ CanSend(a, prices[i])
              /\ s.last # None /\ s.last <= prices[i]
  <2>1. i \in places /\ s.txs[i].nonce = NonceAt(n, places, i)
    BY <1>8, <1>12
  <2>2. NonceAt(n, places, i) \in n .. n + Cardinality(places) - 1
    BY <2>1, <1>5
  <2> QED BY <2>1, <2>2, <1>3, <1>4, <1>5, <1>6, <1>11
<1>13. ASSUME NEW i \in 1 .. L, s.txs[i].nonce = None
       PROVE  ~CanSend(a, prices[i]) \/ \E j \in 1 .. i - 1 : prices[j] < prices[i]
  <2>1. i \notin places
    BY <1>8, <1>13
  <2>2. ~CanSend(a, prices[i]) \/ \E j \in 1 .. i - 1 : ~(prices[j] >= prices[i])
    BY <2>1, <1>3
  <2> QED BY <2>2, <1>1
<1>14. ASSUME NEW i \in 1 .. L, NEW j \in 1 .. L,
              s.txs[i].nonce # None, s.txs[j].nonce # None, i < j
       PROVE  s.txs[i].nonce < s.txs[j].nonce /\ prices[j] <= prices[i]
  BY <1>14, <1>5, <1>8, <1>10
<1> QED BY <1>1, <1>6, <1>7, <1>8, <1>9, <1>11, <1>12, <1>13, <1>14

-----------------------------------------------------------------------------
(* The loop.                                                               *)

\* Allocating nonces one transaction after another, as send_txs does, gives
\* what Assigned says of the batch as a whole: the same nonces, next_nonce and
\* last_gas_price, for a batch of any length.
THEOREM BatchIsTheLoop ==
  ASSUME NEW n \in Nat, NEW lastPrice \in Nat \cup {None}, NEW prices \in Seq(Nat), NEW s,
         s[0] = [next |-> n, last |-> lastPrice, txs |-> <<>>],
         \A i \in 1 .. Len(prices) : s[i] = Alloc(s[i - 1], prices[i])
  PROVE  s[Len(prices)] = Assigned(n, lastPrice, prices)
<1> DEFINE L == Len(prices)
           places == Numbered(lastPrice, prices)
           P(i) == {j \in places : j <= i}
           Tx(j) == [nonce |-> IF j \in places THEN NonceAt(n, places, j) ELSE None,
                     price |-> prices[j]]
           Shape(i) == s[i] = [next |-> n + Cardinality(P(i)), last |-> s[i].last,
                               txs |-> [j \in 1 .. i |-> Tx(j)]]
           Lowest(i) == \A p \in Nat :
             MayFollow(p, s[i].last) <=>
               MayFollow(p, lastPrice) /\ \A j \in 1 .. i : prices[j] >= p
           Leaves(i) == /\ s[i].last \in Nat \cup {None}
                        /\ P(i) = {} => s[i].last = lastPrice
                        /\ \A j \in P(i) : (\A k \in P(i) : k <= j) => s[i].last = prices[j]
           Good == {i \in Nat : i <= L => Shape(i) /\ Lowest(i) /\ Leaves(i)}
<1>1. L \in Nat /\ DOMAIN prices = 1 .. L /\ \A i \in 1 .. L : prices[i] \in Nat
  OBVIOUS
<1>2. places \in SUBSET (1 .. L)
  BY <1>1 DEF Numbered
<1>3. \A i \in 1 .. L : i \in places <=>
        MayFollow(prices[i], lastPrice) /\ \A j \in 1 .. i - 1 : prices[j] >= prices[i]
  BY <1>1 DEF Numbered
<1>4. \A T \in SUBSET places : IsFiniteSet(T) /\ Cardinality(T) \in Nat
  <2>1. IsFiniteSet(1 .. L)
    BY FS_Interval, L \in Int, 1 \in Int
  <2> QED BY <2>1, <1>2, FS_Subset, FS_CardinalityType
<1> HIDE DEF L, places
<1>0. places \subseteq Int /\ \A j \in places : 1 <= j /\ j <= L
  <2> HIDE DEF Good, Shape, Lowest, Leaves, P, Tx
  <2>1. \A j \in 1 .. L : j \in Int /\ 1 <= j /\ j <= L
    BY <1>1
  <2> QED BY <1>2, <2>1
<1>5. 0 \in Good
  <2>1. P(0) = {} /\ 1 .. 0 = {}
    <3>1. \A j \in places : ~ (j <= 0)
      BY <1>0
    <3> QED BY <3>1
  <2>2. Cardinality(P(0)) = 0
    BY <2>1, FS_EmptySet
  <2>3. s[0].last = lastPrice /\ s[0].next = n /\ s[0].txs = <<>>
    OBVIOUS
  <2>4. [j \in 1 .. 0 |-> Tx(j)] = <<>>
    BY <2>1
  <2>5. Shape(0)
    BY <2>2, <2>3, <2>4
  <2>6. Leaves(0) /\ Lowest(0)
    BY <2>1, <2>3
  <2> HIDE DEF Shape, Leaves, Lowest
  <2> QED BY <2>5, <2>6
<1>6. ASSUME NEW i \in Nat, i \in Good PROVE i + 1 \in Good
  <2> SUFFICES ASSUME i + 1 <= L PROVE Shape(i + 1) /\ Lowest(i + 1) /\ Leaves(i + 1)
    OBVIOUS
  <2> DEFINE may == MayFollow(prices[i + 1], s[i].last)
             p1 == prices[i + 1]
  <2>1. i + 1 \in 1 .. L /\ (i + 1) - 1 = i /\ i <= L /\ p1 \in Nat
    BY <1>1
  <2>2. Shape(i) /\ Lowest(i) /\ Leaves(i)
    BY <1>6, <2>1
  <2>3. s[i + 1] = Alloc(s[i], p1)
    BY <2>1 DEF L
  <2>4. may <=> i + 1 \in places
    BY <1>3, <2>1, <2>2
  <2>5. s[i].next = n + Cardinality(P(i)) /\ s[i].txs = [j \in 1 .. i |-> Tx(j)]
    <3> HIDE DEF Tx, P
    <3> QED BY <2>2
  <2>6. P(i) = {j \in places : j < i + 1} /\ P(i) \in SUBSET places /\ i + 1 \notin P(i)
    <3>1. \A j \in places : j <= i <=> j < i + 1
      BY <1>0
    <3> QED BY <3>1
  <2>7. P(i + 1) = IF may THEN P(i) \cup {i + 1} ELSE P(i)
    <3>1. \A j \in places : j <= i + 1 <=> j <= i \/ j = i + 1
      BY <1>0
    <3>2. P(i + 1) = P(i) \cup {j \in places : j = i + 1}
      BY <3>1
    <3> HIDE DEF P, may
    <3> QED BY <3>2, <2>4
  <2>8. Cardinality(P(i + 1)) = IF may THEN Cardinality(P(i)) + 1 ELSE Cardinality(P(i))
    BY <2>6, <2>7, <1>4, FS_AddElement
  <2>9. Tx(i + 1) = [nonce |-> IF may THEN s[i].next ELSE None, price |-> p1]
    BY <2>4, <2>5, <2>6 DEF NonceAt
  <2>10. Append(s[i].txs, Tx(i + 1)) = [j \in 1 .. i + 1 |-> Tx(j)]
    <3> DEFINE f == [j \in 1 .. i |-> Tx(j)]
               g == [j \in 1 .. i + 1 |-> Tx(j)]
    <3> HIDE DEF Tx
    <3> DEFINE T == {Tx(j) : j \in 1 .. i}
    <3>1. f \in Seq(T) /\ Len(f) = i
      <4>1. f \in [1 .. i -> T]
        OBVIOUS
      <4> HIDE DEF f, T
      <4> QED BY <4>1, IsList
    <3>2. Append(f, Tx(i + 1)) = [j \in 1 .. i + 1 |-> IF j = i + 1 THEN Tx(i + 1) ELSE f[j]]
      BY <3>1
    <3>3. [j \in 1 .. i + 1 |-> IF j = i + 1 THEN Tx(i + 1) ELSE f[j]] = g
      OBVIOUS
    <3> QED BY <3>2, <3>3, <2>5
  <2>11. s[i + 1] = [next |-> IF may THEN s[i].next + 1 ELSE s[i].next,
                     last |-> IF may THEN p1 ELSE s[i].last,
                     txs  |-> [j \in 1 .. i + 1 |-> Tx(j)]]
    <3> HIDE DEF Tx
    <3> QED BY <2>3, <2>9, <2>10 DEF Alloc
  <2>12. s[i + 1].last = IF may THEN p1 ELSE s[i].last
    BY <2>11
  <2>13. n + Cardinality(P(i + 1)) = IF may THEN s[i].next + 1 ELSE s[i].next
    <3>1. Cardinality(P(i)) \in Nat
      BY <2>6, <1>4
    <3> QED BY <3>1, <2>5, <2>8
  <2>14. Shape(i + 1)
    <3> HIDE DEF Tx, P, may
    <3> QED BY <2>11, <2>12, <2>13
  <2>15. Lowest(i + 1)
    <3> SUFFICES ASSUME NEW p \in Nat
                 PROVE  MayFollow(p, s[i + 1].last) <=>
                          MayFollow(p, lastPrice) /\ \A j \in 1 .. i + 1 : prices[j] >= p
      OBVIOUS
    <3>1. (\A j \in 1 .. i + 1 : prices[j] >= p) <=> (\A j \in 1 .. i : prices[j] >= p) /\ p1 >= p
      <4>1. 1 .. i + 1 = (1 .. i) \cup {i + 1}
        OBVIOUS
      <4> QED BY <4>1
    <3>2. MayFollow(p, s[i].last) <=> MayFollow(p, lastPrice) /\ \A j \in 1 .. i : prices[j] >= p
      BY <2>2
    <3>0. /\ s[i].last \in Nat \cup {None} /\ None \notin Nat /\ p1 \in Nat
          /\ may <=> MayFollow(p1, s[i].last)
      BY <2>1, <2>2, NobodyAssumption
    <3> HIDE DEF may, p1
    <3>3. CASE may
      <4>1. p1 >= p => MayFollow(p, s[i].last)
        BY <3>0, <3>3 DEF MayFollow
      <4>2. MayFollow(p, s[i + 1].last) <=> p1 >= p
        <5>1. p1 # None
          BY <3>0
        <5> QED BY <5>1, <2>12, <3>3 DEF MayFollow
      <4> QED BY <4>1, <4>2, <3>1, <3>2
    <3>4. CASE ~may
      <4>1. MayFollow(p, s[i].last) => p1 >= p
        BY <3>0, <3>4 DEF MayFollow
      <4> QED BY <4>1, <2>12, <3>1, <3>2, <3>4
    <3> QED BY <3>3, <3>4
  <2>16. Leaves(i + 1)
    <3>1. CASE may
      <4>1. i + 1 \in P(i + 1) /\ \A j \in P(i + 1) : j <= i + 1 /\ j \in Nat
        BY <2>7, <3>1, <1>1, <1>2
      <4>2. \A j \in P(i + 1) : (\A k \in P(i + 1) : k <= j) => j = i + 1
        BY <4>1
      <4> QED BY <4>1, <4>2, <2>12, <2>1, <3>1
    <3>2. CASE ~may
      BY <2>2, <2>7, <2>12, <3>2
    <3> QED BY <3>1, <3>2
  <2> HIDE DEF Shape, Lowest, Leaves
  <2> QED BY <2>14, <2>15, <2>16
<1>7. L \in Good
  <2> HIDE DEF Good
  <2> QED BY <1>1, <1>5, <1>6, SetInduction
<1>8. Shape(L) /\ Leaves(L)
  BY <1>1, <1>7
<1>9. P(L) = places
  BY <1>0
<1>10. s[L].last = PriceAfter(lastPrice, prices, places)
  <2>0. /\ s[L].last \in Nat \cup {None}
        /\ places = {} => s[L].last = lastPrice
        /\ \A j \in places : (\A k \in places : k <= j) => s[L].last = prices[j]
    <3> HIDE DEF P, Shape
    <3> QED BY <1>8, <1>9
  <2> HIDE DEF Shape, Leaves, P, Good
  <2>1. CASE places = {}
    BY <2>0, <2>1 DEF PriceAfter
  <2>2. CASE places # {}
    <3> DEFINE i == CHOOSE i \in places : \A j \in places : j <= i
    <3>1. i \in places /\ \A j \in places : j <= i
      BY <2>2, <1>1, <1>2, LastPlace
    <3>2. s[L].last = prices[i]
      BY <2>0, <3>1
    <3> QED BY <2>2, <3>2 DEF PriceAfter
  <2> QED BY <2>1, <2>2
<1>11. Assigned(n, lastPrice, prices) =
         [next |-> n + Cardinality(places), last |-> PriceAfter(lastPrice, prices, places),
          txs |-> [j \in 1 .. L |-> Tx(j)]]
  BY <1>1 DEF Assigned, places
<1>12. s[L] = Assigned(n, lastPrice, prices)
  BY <1>8, <1>9, <1>10, <1>11
<1> QED BY <1>12 DEF L

-----------------------------------------------------------------------------
(* The invariant.                                                          *)

Transactions == [nonce : Nat \cup {None}, price : Nat]
BatchRecords ==
  [acct : Accts \cup {None}, wrap : Nat \cup {None}, txs : Seq(Transactions),
   unsent : SUBSET Nat, refused : SUBSET Nat]

DataTypes ==
  /\ mined \in [Accts -> Nat]
  /\ pool \in [Accts -> SUBSET Nat]
  /\ next \in [Accts -> Nat] /\ last \in [Accts -> Nat \cup {None}]
  /\ joining \in [Accts -> {<<>>} \cup [1 .. 2 -> Nat \cup {None}]]
  /\ batch \in [Callers -> BatchRecords]
  /\ \A c \in Callers : batch[c].txs # <<>> => batch[c].acct \in Accts
  /\ \A c \in Callers : batch[c].unsent \subseteq DOMAIN batch[c].txs

\* Blocks tell of transactions that are mined.
NewsMined ==
  /\ news \in [Accts -> Nat \cup {None}]
  /\ \A a \in Accts : news[a] # None => news[a] < mined[a]

\* Before the start nothing is sent, so the pending count is what the node
\* held before; an account that is used starts behind all of it.
Starts ==
  /\ \A a \in Accts : \E k \in Nat : old[a] = 0 .. k - 1
  /\ Started \/ (pool = old /\ \A c \in Callers : search[c] = Idle /\ batch[c] = NoBatch)
  /\ \A a \in Accts : joining[a] # <<>> => joining[a][2] \in {None, Cardinality(old[a])}
  /\ \A a \in used : \A n \in old[a] : n < next[a]

\* A search that wants to send and decides about an account holds it, and the
\* account can still send at the price it was found for.
Decides(c, a) ==
  /\ search[c].pc = "search" /\ a \in used
  /\ search[c].op # "look" => search[c].op = "wrap" /\ lock[a] = c
                             /\ MayWrap(a, search[c].price) /\ search[c].price > 0

Held ==
  /\ \A c \in Callers, a \in Accts : phase[c][a] = "inside" => Decides(c, a)
  /\ \A c \in Callers : search[c].pc = "search" =>
       search[c].op = "look" \/ (search[c].op = "wrap" /\ search[c].price \in WrapPrices)

\* Of a transaction with a nonce that was handed out.
Below(t, a) ==
  t.nonce < next[a] /\ (t.nonce < mined[a] \/ (last[a] # None /\ last[a] <= t.price))
Numbers ==
  \A c \in Callers : \A i \in DOMAIN batch[c].txs :
    batch[c].txs[i].nonce # None => Below(batch[c].txs[i], batch[c].acct)

\* What the transactions of one batch, and of two, have to do with each other.
Fresh ==
  \A c \in Callers : \A i \in DOMAIN batch[c].txs :
    batch[c].txs[i].nonce # None => batch[c].txs[i].nonce \notin old[batch[c].acct]
Fronts ==
  \A c \in Callers : \A i \in DOMAIN batch[c].txs :
    batch[c].txs[i].price < batch[c].wrap => batch[c].txs[i].nonce # None
InOrder(s, t, a) ==
  mined[a] <= s.nonce /\ s.nonce < t.nonce => t.price <= s.price
Pairs ==
  \A c, d \in Callers : \A i \in DOMAIN batch[c].txs, j \in DOMAIN batch[d].txs :
    ( /\ batch[c].acct = batch[d].acct
      /\ batch[c].txs[i].nonce # None /\ batch[d].txs[j].nonce # None ) =>
        /\ batch[c].txs[i].nonce = batch[d].txs[j].nonce => c = d /\ i = j
        /\ InOrder(batch[c].txs[i], batch[d].txs[j], batch[c].acct)

NonceInv ==
  /\ DataTypes /\ NewsMined /\ Starts /\ Held /\ Numbers
  /\ Fresh /\ Fronts /\ Pairs /\ AllocatedSent

\* The invariant implies the properties.
LEMMA InvNonces == NonceInv => NoncesUnique /\ PricesFall /\ FrontsNumbered /\ AllocatedSent
<1> SUFFICES ASSUME NonceInv
             PROVE  NoncesUnique /\ PricesFall /\ FrontsNumbered /\ AllocatedSent
  OBVIOUS
<1> USE DEF NonceInv, Txs, NumberedTxs
<1>1. NoncesUnique
  BY DEF NoncesUnique, Fresh, Pairs
<1>2. PricesFall
  BY DEF PricesFall, Pairs, InOrder
<1>3. FrontsNumbered
  BY DEF FrontsNumbered, Fronts
<1> QED BY <1>1, <1>2, <1>3

\* Initially nothing is handed out.
LEMMA InitNonces == Init => NonceInv
<1> SUFFICES ASSUME Init PROVE NonceInv
  OBVIOUS
<1>1. /\ mined \in [Accts -> FirstNonces] /\ pool = old
      /\ news = [a \in Accts |-> None] /\ joining = [a \in Accts |-> <<None, None>>]
      /\ used = {} /\ next = [a \in Accts |-> 0] /\ last = [a \in Accts |-> None]
      /\ search = [c \in Callers |-> Idle] /\ batch = [c \in Callers |-> NoBatch]
      /\ phase = [c \in Callers |-> [a \in Accts |-> "start"]]
  BY DEF Init
<1>2. PICK extra \in [Accts -> {0, 1}] : old = [a \in Accts |-> 0 .. mined[a] + extra[a] - 1]
  BY DEF Init
<1>3. ASSUME NEW a \in Accts
      PROVE  /\ \E k \in Nat : old[a] = 0 .. k - 1
             /\ old[a] \in SUBSET Nat
  <2>1. mined[a] \in Nat /\ extra[a] \in {0, 1}
    BY <1>1, <1>2, PlansAssumption
  <2>2. mined[a] + extra[a] \in Nat /\ old[a] = 0 .. (mined[a] + extra[a]) - 1
    BY <1>2, <2>1
  <2>3. \A k \in Nat : 0 .. k - 1 \in SUBSET Nat
    OBVIOUS
  <2> QED BY <2>2, <2>3
<1>5. NoBatch \in BatchRecords /\ NoBatch.txs = <<>> /\ NoBatch.unsent = {}
  BY DEF NoBatch, BatchRecords
<1>6. <<None, None>> \in [1 .. 2 -> Nat \cup {None}] /\ <<None, None>>[2] = None
  OBVIOUS
<1>7. DataTypes
  <2>1. pool \in [Accts -> SUBSET Nat]
    BY <1>1, <1>2, <1>3
  <2>2. mined \in [Accts -> Nat]
    BY <1>1, PlansAssumption
  <2> QED BY <1>1, <1>5, <1>6, <2>1, <2>2 DEF DataTypes
<1>8. NewsMined
  BY <1>1 DEF NewsMined
<1>9. Starts
  BY <1>1, <1>3, <1>6 DEF Starts
<1>10. Held
  BY <1>1 DEF Held, Idle
<1>11. Numbers /\ Fresh /\ Fronts /\ Pairs /\ AllocatedSent
  BY <1>1, <1>5 DEF Numbers, Fresh, Fronts, Pairs, AllocatedSent
<1> QED BY <1>7, <1>8, <1>9, <1>10, <1>11 DEF NonceInv

-----------------------------------------------------------------------------
(* Steps that decide, and hand nothing out.                                *)

\* Nothing a nonce depends on changes.
LEMMA QuietStep ==
  ASSUME NonceInv, UNCHANGED <<mined, pool, old, joining, used, next, last, news, batch>>,
         Started \/ search' = search, Held'
  PROVE  NonceInv'
<1> USE DEF NonceInv
<1>1. DataTypes'
  BY DEF DataTypes
<1>2. NewsMined'
  BY DEF NewsMined
<1>3. Starts'
  BY DEF Starts, Started
<1>4. Numbers' /\ Fresh' /\ Fronts' /\ Pairs' /\ AllocatedSent'
  BY DEF Numbers, Below, Fresh, Fronts, Pairs, InOrder, AllocatedSent
<1> QED BY <1>1, <1>2, <1>3, <1>4

\* The last price of an account changes only while nobody holds it.
LEMMA HeldStays ==
  ASSUME Held, UNCHANGED <<search, phase, lock>>, used \subseteq used',
         \A a \in Accts : lock[a] \in Callers => last'[a] = last[a]
  PROVE  Held'
<1>1. ASSUME NEW c \in Callers, NEW a \in Accts, phase'[c][a] = "inside"
      PROVE  Decides(c, a)'
  <2>1. Decides(c, a)
    BY <1>1 DEF Held
  <2> QED BY <2>1 DEF Decides, MayWrap, CanSend
<1> QED BY <1>1 DEF Held

\* A search that ends holds nothing; the others do not notice.
LEMMA HeldOver ==
  ASSUME TypeOK, Held, used' = used, NEW c \in Callers, NEW pc \in {"over", "send"},
         SearchOver(c, pc), \A a \in Accts : last'[a] = last[a] \/ lock[a] = c
  PROVE  Held'
<1>1. /\ search' = [search EXCEPT ![c] = [Idle EXCEPT !.pc = pc]]
      /\ phase' = [phase EXCEPT ![c] = [a \in Accts |-> "none"]]
      /\ lock' = [a \in Accts |-> IF lock[a] = c THEN Nobody ELSE lock[a]]
  BY DEF SearchOver, Released
<1>2. search'[c].pc # "search" /\ \A a \in Accts : phase'[c][a] # "inside"
  BY <1>1 DEF TypeOK, Idle
<1>3. ASSUME NEW d \in Callers, d # c
      PROVE  search'[d] = search[d] /\ phase'[d] = phase[d]
  BY <1>1, <1>3 DEF TypeOK
<1>4. ASSUME NEW d \in Callers, NEW a \in Accts, phase'[d][a] = "inside"
      PROVE  Decides(d, a)'
  <2>1. d # c /\ phase[d][a] = "inside" /\ search'[d] = search[d]
    BY <1>2, <1>3, <1>4
  <2>2. Decides(d, a)
    BY <2>1 DEF Held
  <2>3. CASE search[d].op = "look"
    BY <2>1, <2>2, <2>3 DEF Decides
  <2>4. CASE search[d].op # "look"
    <3>1. lock[a] = d /\ MayWrap(a, search[d].price) /\ search[d].price > 0
      BY <2>2, <2>4 DEF Decides
    <3>2. lock'[a] = d /\ last'[a] = last[a]
      BY <1>1, <2>1, <3>1
    <3> QED BY <2>1, <2>2, <3>1, <3>2 DEF Decides, MayWrap, CanSend
  <2> QED BY <2>3, <2>4
<1>5. ASSUME NEW d \in Callers, search'[d].pc = "search"
      PROVE  search'[d].op = "look" \/ (search'[d].op = "wrap" /\ search'[d].price \in WrapPrices)
  BY <1>2, <1>3, <1>5 DEF Held
<1> QED BY <1>4, <1>5 DEF Held

\* Who searches, or has sent, began after the start.
LEMMA BeganAfterStart ==
  ASSUME Starts, NEW c \in Callers, search[c].pc # "idle"
  PROVE  Started
  BY DEF Starts, Idle

\* Searches up to the point where one has found its account.
LEMMA QuietSteps ==
  ASSUME NonceInv, TypeOK, NEW c \in Callers,
         \/ Begin(c) \/ NotFound(c) \/ Drop(c) \/ Sent(c)
         \/ \E a \in Accts : \/ Look(c, a) \/ LockAccount(c, a) \/ ComputeBalance(c, a)
                             \/ Passes(c, a) \/ Fails(c, a) \/ WrapPanics(c, a)
  PROVE  NonceInv'
<1>1. Held /\ Starts /\ DataTypes
  BY DEF NonceInv
<1> DEFINE Quiet == UNCHANGED <<mined, pool, old, joining, used, next, last, news, batch>>
<1>2. ASSUME NEW a \in Accts, phase[c][a] = "inside" PROVE search[c].pc = "search"
  BY <1>1, <1>2 DEF Held, Decides
<1>3. CASE Begin(c)
  <2>1. Quiet /\ Started /\ UNCHANGED <<lock, phase>>
    BY <1>3 DEF Begin, chain, pending
  <2>2. search[c] = Idle /\ \A a \in Accts : phase[c][a] # "inside"
    BY <1>2, <1>3 DEF Begin, Idle
  <2>3. /\ \A d \in Callers : d # c => search'[d] = search[d]
        /\ search'[c].op = "look" \/ (search'[c].op = "wrap" /\ search'[c].price \in WrapPrices)
    <3>1. search \in [Callers -> Searches]
      BY DEF TypeOK, Searches
    <3>2. ASSUME NEW r, search' = [search EXCEPT ![c] = r]
          PROVE  search'[c] = r /\ \A d \in Callers : d # c => search'[d] = search[d]
      BY <3>1, <3>2
    <3>3. \/ search' = [search EXCEPT ![c] = [Idle EXCEPT !.pc = "search", !.op = "look"]]
          \/ \E p \in WrapPrices :
               search' = [search EXCEPT ![c] = [pc |-> "search", op |-> "wrap", price |-> p]]
      BY <1>3 DEF Begin
    <3>4. [Idle EXCEPT !.pc = "search", !.op = "look"].op = "look"
      BY DEF Idle
    <3>5. CASE search' = [search EXCEPT ![c] = [Idle EXCEPT !.pc = "search", !.op = "look"]]
      BY <3>2, <3>4, <3>5
    <3>6. ASSUME NEW p \in WrapPrices,
                 search' = [search EXCEPT ![c] = [pc |-> "search", op |-> "wrap", price |-> p]]
          PROVE  /\ \A d \in Callers : d # c => search'[d] = search[d]
                 /\ search'[c].op = "wrap" /\ search'[c].price \in WrapPrices
      <4>1. search'[c] = [pc |-> "search", op |-> "wrap", price |-> p]
        BY <3>2, <3>6
      <4> QED BY <3>2, <3>6, <4>1
    <3> QED BY <3>3, <3>5, <3>6
  <2>4. Held'
    <3>1. ASSUME NEW d \in Callers, NEW a \in Accts, phase'[d][a] = "inside"
          PROVE  Decides(d, a)'
      <4>1. d # c /\ phase[d][a] = "inside" /\ search'[d] = search[d]
        BY <2>1, <2>2, <2>3, <3>1
      <4>2. Decides(d, a)
        BY <1>1, <4>1 DEF Held
      <4> QED BY <2>1, <4>1, <4>2 DEF Decides, MayWrap, CanSend
    <3>2. ASSUME NEW d \in Callers, search'[d].pc = "search"
          PROVE  \/ search'[d].op = "look"
                 \/ search'[d].op = "wrap" /\ search'[d].price \in WrapPrices
      BY <1>1, <2>3, <3>2 DEF Held
    <3> QED BY <3>1, <3>2 DEF Held
  <2> QED BY <2>1, <2>4, QuietStep
<1>4. ASSUME NotFound(c) \/ Drop(c) \/ \E a \in Accts : Fails(c, a) \/ WrapPanics(c, a)
      PROVE  NonceInv'
  <2>1. UNCHANGED <<mined, pool, old, joining, used, next, last, news>>
    BY <1>4 DEF NotFound, Drop, Fails, WrapPanics, chain, pending
  <2>2. batch' = batch
    BY <1>1, <1>4 DEF NotFound, Drop, Fails, WrapPanics, StillToSend, DataTypes, BatchRecords
  <2>3. SearchOver(c, "over") /\ search[c].pc # "idle"
    BY <1>2, <1>4 DEF NotFound, Drop, Fails, WrapPanics, Searching
  <2>4. Started
    BY <1>1, <2>3, BeganAfterStart
  <2>5. Held'
    BY <1>1, <2>1, <2>3, HeldOver
  <2> QED BY <2>1, <2>2, <2>4, <2>5, QuietStep
<1>5. CASE Sent(c)
  <2>1. Quiet /\ UNCHANGED <<lock, phase>>
    BY <1>5 DEF Sent, chain, pending
  <2>2. search[c].pc = "send" /\ search' = [search EXCEPT ![c].pc = "over"]
    BY <1>5 DEF Sent
  <2>3. Started
    BY <1>1, <2>2, BeganAfterStart
  <2>4. search'[c].pc = "over" /\ \A d \in Callers : d # c => search'[d] = search[d]
    BY <2>2 DEF TypeOK
  <2>5. \A a \in Accts : phase[c][a] # "inside"
    BY <1>2, <2>2
  <2>6. Held'
    <3>1. ASSUME NEW d \in Callers, NEW a \in Accts, phase'[d][a] = "inside"
          PROVE  Decides(d, a)'
      <4>1. d # c /\ phase[d][a] = "inside" /\ search'[d] = search[d]
        BY <2>1, <2>4, <2>5, <3>1
      <4>2. Decides(d, a)
        BY <1>1, <4>1 DEF Held
      <4> QED BY <2>1, <4>1, <4>2 DEF Decides, MayWrap, CanSend
    <3>2. ASSUME NEW d \in Callers, search'[d].pc = "search"
          PROVE  \/ search'[d].op = "look"
                 \/ search'[d].op = "wrap" /\ search'[d].price \in WrapPrices
      BY <1>1, <2>4, <3>2 DEF Held
    <3> QED BY <3>1, <3>2 DEF Held
  <2> QED BY <2>1, <2>3, <2>6, QuietStep
<1>6. ASSUME NEW a \in Accts, ComputeBalance(c, a) PROVE NonceInv'
  <2>1. Quiet /\ UNCHANGED <<lock, phase, search>>
    BY <1>6 DEF ComputeBalance, chain, pending
  <2>2. Held'
    BY <1>1, <2>1, HeldStays
  <2> QED BY <2>1, <2>2, QuietStep
<1>7. ASSUME NEW a \in Accts, Look(c, a) \/ LockAccount(c, a) \/ Passes(c, a)
      PROVE  NonceInv'
  <2>1. Quiet /\ search' = search /\ search[c].pc = "search"
    BY <1>2, <1>7 DEF Look, LockAccount, Passes, Searching, chain, pending
  <2>2. \E ph \in {"inside", "none"} :
          /\ phase' = [phase EXCEPT ![c][a] = ph]
          /\ ph = "inside" => /\ search[c].pc = "search" /\ a \in used
                              /\ search[c].op # "look" =>
                                   /\ search[c].op = "wrap" /\ lock'[a] = c
                                   /\ MayWrap(a, search[c].price) /\ search[c].price > 0
    <3>1. CASE Look(c, a)
      BY <3>1 DEF Look, Searching, SetPhase
    <3>2. CASE LockAccount(c, a) /\ MayWrap(a, search[c].price)
      BY <3>2 DEF LockAccount, Searching, SetPhase, TypeOK
    <3>3. CASE LockAccount(c, a) /\ ~MayWrap(a, search[c].price)
      BY <3>3 DEF LockAccount, SetPhase
    <3>4. CASE Passes(c, a)
      BY <3>4 DEF Passes, SetPhase
    <3> QED BY <1>7, <3>1, <3>2, <3>3, <3>4
  <2>3. \A d \in Callers, b \in Accts : d # c \/ b # a =>
          /\ phase'[d][b] = phase[d][b]
          /\ lock[b] = d => lock'[b] = d
    <3>1. \A d \in Callers, b \in Accts : d # c \/ b # a => phase'[d][b] = phase[d][b]
      BY <2>2 DEF TypeOK
    <3>2. CASE Look(c, a)
      BY <3>1, <3>2 DEF Look
    <3>3. CASE LockAccount(c, a) /\ MayWrap(a, search[c].price)
      BY <3>1, <3>3, NobodyAssumption DEF LockAccount, TypeOK
    <3>4. CASE LockAccount(c, a) /\ ~MayWrap(a, search[c].price)
      BY <3>1, <3>4 DEF LockAccount
    <3>5. CASE Passes(c, a)
      BY <3>1, <3>5 DEF Passes, TypeOK
    <3> QED BY <1>7, <3>2, <3>3, <3>4, <3>5
  <2>4. ASSUME NEW d \in Callers, NEW b \in Accts, phase'[d][b] = "inside"
        PROVE  Decides(d, b)'
    <3>1. CASE d = c /\ b = a
      <4>1. phase'[c][a] = "inside"
        BY <2>4, <3>1
      <4>2. /\ search[c].pc = "search" /\ a \in used
            /\ search[c].op # "look" =>
                 search[c].op = "wrap" /\ lock'[a] = c /\ MayWrap(a, search[c].price) /\ search[c].price > 0
        BY <2>2, <4>1 DEF TypeOK
      <4> QED BY <2>1, <3>1, <4>2 DEF Decides, MayWrap, CanSend
    <3>2. CASE d # c \/ b # a
      <4>1. phase[d][b] = "inside" /\ (lock[b] = d => lock'[b] = d)
        BY <2>3, <2>4, <3>2
      <4>2. Decides(d, b)
        BY <1>1, <4>1 DEF Held
      <4> QED BY <2>1, <4>1, <4>2 DEF Decides, MayWrap, CanSend
    <3> QED BY <3>1, <3>2
  <2>5. Held'
    BY <1>1, <2>1, <2>4 DEF Held
  <2> QED BY <2>1, <2>5, QuietStep
<1> QED BY <1>3, <1>4, <1>5, <1>6, <1>7

-----------------------------------------------------------------------------
(* Steps that change what nonces depend on.                                *)

\* The account, nonce and price of a transaction of a batch.
LEMMA TxTypes ==
  ASSUME DataTypes, NEW c \in Callers, NEW i \in DOMAIN batch[c].txs
  PROVE  /\ batch[c].acct \in Accts
         /\ batch[c].txs[i].nonce \in Nat \cup {None} /\ batch[c].txs[i].price \in Nat
<1>1. batch[c].txs \in Seq(Transactions)
  BY DEF DataTypes, BatchRecords
<1>2. batch[c].txs[i] \in Transactions /\ batch[c].txs # <<>>
  BY <1>1
<1> QED BY <1>2 DEF DataTypes, Transactions

\* Blocks only grow, so what holds of the transactions of two batches goes on
\* to hold.
LEMMA SameBatches ==
  ASSUME DataTypes, Fresh, Fronts, Pairs, old' = old,
         mined' \in [Accts -> Nat], \A a \in Accts : mined[a] <= mined'[a],
         \A c \in Callers : /\ batch'[c].acct = batch[c].acct /\ batch'[c].wrap = batch[c].wrap
                            /\ batch'[c].txs = batch[c].txs
  PROVE  Fresh' /\ Fronts' /\ Pairs'
<1>1. Fresh' /\ Fronts'
  BY DEF Fresh, Fronts
<1>2. ASSUME NEW c \in Callers, NEW d \in Callers,
             NEW i \in DOMAIN batch[c].txs, NEW j \in DOMAIN batch[d].txs,
             batch[c].acct = batch[d].acct,
             batch[c].txs[i].nonce # None, batch[d].txs[j].nonce # None
      PROVE  /\ batch[c].txs[i].nonce = batch[d].txs[j].nonce => c = d /\ i = j
             /\ InOrder(batch[c].txs[i], batch[d].txs[j], batch[c].acct)'
  <2>1. /\ batch[c].txs[i].nonce = batch[d].txs[j].nonce => c = d /\ i = j
        /\ InOrder(batch[c].txs[i], batch[d].txs[j], batch[c].acct)
    BY <1>2 DEF Pairs
  <2>2. batch[c].acct \in Accts /\ batch[c].txs[i].nonce \in Nat
    BY <1>2, TxTypes
  <2>3. mined[batch[c].acct] \in Nat /\ mined'[batch[c].acct] \in Nat
    BY <2>2 DEF DataTypes
  <2>4. mined'[batch[c].acct] <= batch[c].txs[i].nonce => mined[batch[c].acct] <= batch[c].txs[i].nonce
    BY <2>2, <2>3
  <2> QED BY <2>1, <2>4 DEF InOrder
<1>3. Pairs'
  BY <1>2 DEF Pairs, InOrder
<1> QED BY <1>1, <1>3

\* Before the start the pending count is what the node held; an account whose
\* counts are equal starts behind all of it.
LEMMA ReadCountStep ==
  ASSUME NonceInv, TypeOK, NEW a \in Accts, ReadCount(a)
  PROVE  NonceInv'
<1>1. DataTypes /\ NewsMined /\ Starts /\ Held
  BY DEF NonceInv
<1>2. /\ joining[a] # <<>>
      /\ UNCHANGED <<mined, pool, news, old, last, lock, search, phase, batch>>
  BY DEF ReadCount, chain
<1>3. pool = old /\ (\A c \in Callers : search[c] = Idle /\ batch[c] = NoBatch) /\ ~Started
  BY <1>1, <1>2 DEF Starts, Started
<1>4. PICK k \in Nat : old[a] = 0 .. k - 1
  BY <1>1 DEF Starts
<1>5. Cardinality(old[a]) = k
  BY <1>4, FS_Interval, 0 \in Int, k - 1 \in Int
<1>6. joining[a] \in [1 .. 2 -> Nat \cup {None}] /\ joining[a][2] \in {None, k}
  BY <1>1, <1>2, <1>5 DEF DataTypes, Starts
<1>7. mined[a] \in Nat
  BY <1>1 DEF DataTypes
<1>8. PICK i \in 1 .. 2 :
        LET counts == [joining[a] EXCEPT ![i] = IF i = 1 THEN mined[a] ELSE PendingCount(a)]
        IN  IF None \in {counts[1], counts[2]}
              THEN joining' = [joining EXCEPT ![a] = counts] /\ UNCHANGED <<used, next>>
              ELSE /\ joining' = [joining EXCEPT ![a] = <<>>]
                   /\ used' = IF Take(a, counts) THEN used \cup {a} ELSE used
                   /\ next' = IF Take(a, counts) THEN [next EXCEPT ![a] = counts[1]] ELSE next
  BY DEF ReadCount
<1> DEFINE counts == [joining[a] EXCEPT ![i] = IF i = 1 THEN mined[a] ELSE PendingCount(a)]
<1>9. counts \in [1 .. 2 -> Nat \cup {None}] /\ counts[2] \in {None, k}
  BY <1>3, <1>5, <1>6, <1>7 DEF PendingCount
<1>10. IF None \in {counts[1], counts[2]}
         THEN joining' = [joining EXCEPT ![a] = counts] /\ UNCHANGED <<used, next>>
         ELSE /\ joining' = [joining EXCEPT ![a] = <<>>]
              /\ used' = IF Take(a, counts) THEN used \cup {a} ELSE used
              /\ next' = IF Take(a, counts) THEN [next EXCEPT ![a] = counts[1]] ELSE next
  BY <1>8
<1> HIDE DEF counts
<1>11. /\ joining' \in [Accts -> {<<>>} \cup [1 .. 2 -> Nat \cup {None}]]
       /\ \A b \in Accts : b # a => joining'[b] = joining[b]
       /\ joining'[a] # <<>> => joining'[a][2] \in {None, k}
  <2>1. PICK v \in {<<>>} \cup [1 .. 2 -> Nat \cup {None}] :
          joining' = [joining EXCEPT ![a] = v] /\ (v = counts \/ v = <<>>)
    BY <1>9, <1>10
  <2>2. joining \in [Accts -> {<<>>} \cup [1 .. 2 -> Nat \cup {None}]]
    BY <1>1 DEF DataTypes
  <2> QED BY <1>9, <2>1, <2>2
<1>12. \/ UNCHANGED <<used, next>>
       \/ used' = used \cup {a} /\ next' = [next EXCEPT ![a] = k]
  <2>1. CASE None \in {counts[1], counts[2]} \/ ~Take(a, counts)
    BY <1>10, <2>1
  <2>2. CASE None \notin {counts[1], counts[2]} /\ Take(a, counts)
    <3>1. counts[1] = k
      BY <1>9, <2>2 DEF Take
    <3> QED BY <1>10, <2>2, <3>1
  <2> QED BY <2>1, <2>2
<1>13. /\ next' \in [Accts -> Nat] /\ used \subseteq used' /\ used' \subseteq used \cup {a}
       /\ \A b \in Accts : b # a => next'[b] = next[b]
       /\ a \in used' => (a \in used /\ next'[a] = next[a]) \/ next'[a] = k
  BY <1>1, <1>12 DEF DataTypes
<1>14. DataTypes'
  BY <1>1, <1>2, <1>11, <1>13 DEF DataTypes
<1>15. NewsMined'
  BY <1>1, <1>2 DEF NewsMined
<1>16. Starts'
  <2>1. \A b \in Accts : \E m \in Nat : old'[b] = 0 .. m - 1
    BY <1>1, <1>2 DEF Starts
  <2>2. pool' = old' /\ \A c \in Callers : search'[c] = Idle /\ batch'[c] = NoBatch
    BY <1>2, <1>3
  <2>3. \A b \in Accts : joining'[b] # <<>> => joining'[b][2] \in {None, Cardinality(old'[b])}
    BY <1>1, <1>2, <1>5, <1>11 DEF Starts
  <2>4. ASSUME NEW b \in used', NEW n \in old'[b] PROVE n < next'[b]
    <3>1. b \in Accts
      BY <1>13 DEF TypeOK
    <3>2. CASE b \in used /\ next'[b] = next[b]
      BY <1>1, <1>2, <2>4, <3>2 DEF Starts
    <3>3. CASE b = a /\ next'[a] = k
      BY <1>2, <1>4, <2>4, <3>3
    <3> QED BY <1>13, <2>4, <3>1, <3>2, <3>3
  <2> QED BY <2>1, <2>2, <2>3, <2>4 DEF Starts
<1>17. Held'
  BY <1>1, <1>2, <1>13, HeldStays
<1>18. \A c \in Callers : batch'[c].txs = <<>>
  BY <1>2, <1>3 DEF NoBatch
<1>19. Numbers' /\ Fresh' /\ Fronts' /\ Pairs' /\ AllocatedSent'
  BY <1>18 DEF Numbers, Fresh, Fronts, Pairs, AllocatedSent
<1> QED BY <1>14, <1>15, <1>16, <1>17, <1>19 DEF NonceInv

\* The last price is forgotten when every nonce that was handed out is mined.
LEMMA TxMinedStep ==
  ASSUME NonceInv, TypeOK, NEW a \in Accts, TxMined(a)
  PROVE  NonceInv'
<1>1. DataTypes /\ NewsMined /\ Starts /\ Held /\ Numbers
  BY DEF NonceInv
<1>2. /\ news[a] # None /\ lock[a] = Nobody
      /\ next' = [next EXCEPT ![a] = NextAfter(a, news[a])]
      /\ last' = [last EXCEPT ![a] = LastAfter(a, news[a])]
      /\ news' = [news EXCEPT ![a] = None]
      /\ UNCHANGED <<mined, pool, old, joining, used, lock, search, phase, batch>>
  BY DEF TxMined
<1>3. /\ news[a] \in Nat /\ news[a] < mined[a] /\ mined[a] \in Nat
      /\ next[a] \in Nat /\ last[a] \in Nat \cup {None}
  BY <1>1, <1>2 DEF DataTypes, NewsMined
<1>4. /\ next'[a] \in Nat /\ next[a] <= next'[a] /\ last'[a] \in {None, last[a]}
      /\ last'[a] # last[a] => next[a] <= mined[a]
  BY <1>1, <1>2, <1>3 DEF DataTypes, NextAfter, LastAfter
<1>5. /\ next' \in [Accts -> Nat] /\ last' \in [Accts -> Nat \cup {None}]
      /\ \A b \in Accts : b # a => next'[b] = next[b] /\ last'[b] = last[b]
  BY <1>1, <1>2, <1>4 DEF DataTypes
<1>6. DataTypes'
  BY <1>1, <1>2, <1>5 DEF DataTypes
<1>7. NewsMined'
  BY <1>1, <1>2 DEF NewsMined
<1>8. Starts'
  <2>1. ASSUME NEW b \in used, NEW n \in old[b] PROVE n < next'[b]
    <3>1. b \in Accts /\ n < next[b] /\ n \in Nat
      BY <1>1, <2>1 DEF Starts, TypeOK
    <3> QED BY <1>3, <1>4, <1>5, <3>1
  <2> QED BY <1>1, <1>2, <2>1 DEF Starts, Started
<1>9. Held'
  BY <1>1, <1>2, <1>5, NobodyAssumption, HeldStays
<1>10. Numbers'
  <2>1. ASSUME NEW c \in Callers, NEW i \in DOMAIN batch[c].txs, batch[c].txs[i].nonce # None
        PROVE  Below(batch[c].txs[i], batch[c].acct)'
    <3>1. /\ batch[c].acct \in Accts
          /\ batch[c].txs[i].nonce \in Nat /\ batch[c].txs[i].price \in Nat
      BY <1>1, <2>1, TxTypes
    <3>2. Below(batch[c].txs[i], batch[c].acct)
      BY <1>1, <2>1 DEF Numbers
    <3>3. CASE batch[c].acct # a
      BY <1>2, <1>5, <3>1, <3>2, <3>3 DEF Below
    <3>4. CASE batch[c].acct = a
      <4>1. batch[c].txs[i].nonce < next'[a]
        BY <1>3, <1>4, <3>1, <3>2, <3>4 DEF Below
      <4>2. CASE last'[a] = last[a]
        BY <1>2, <3>2, <3>4, <4>1, <4>2 DEF Below
      <4>3. CASE last'[a] # last[a]
        <5>1. batch[c].txs[i].nonce < mined[a]
          BY <1>3, <1>4, <3>1, <3>2, <3>4, <4>3 DEF Below
        <5> QED BY <1>2, <3>4, <4>1, <5>1 DEF Below
      <4> QED BY <4>2, <4>3
    <3> QED BY <3>3, <3>4
  <2> QED BY <1>2, <2>1 DEF Numbers, Below
<1>11. Fresh' /\ Fronts' /\ Pairs'
  <2>1. \A b \in Accts : mined[b] <= mined[b]
    BY <1>1 DEF DataTypes
  <2> QED BY <1>1, <1>2, <2>1, SameBatches DEF NonceInv, DataTypes
<1>12. AllocatedSent'
  BY <1>2 DEF NonceInv, AllocatedSent
<1> QED BY <1>6, <1>7, <1>8, <1>9, <1>10, <1>11, <1>12 DEF NonceInv

\* A block mines transactions of the node and tells of the last ones.
LEMMA BlockStep ==
  ASSUME NonceInv, TypeOK, Block
  PROVE  NonceInv'
<1>1. DataTypes /\ NewsMined /\ Starts /\ Held /\ Numbers
  BY DEF NonceInv
<1>2. UNCHANGED <<pool, old, joining, used, next, last, lock, search, phase, batch>>
  BY DEF Block, pending
<1>3. PICK n \in [Accts -> 0 .. 2] :
        /\ mined' = [a \in Accts |-> mined[a] + n[a]]
        /\ news' = [a \in Accts |->
                      IF n[a] > 0 /\ Started /\ a \in used THEN mined'[a] - 1 ELSE None]
  BY DEF Block
<1>4. ASSUME NEW a \in Accts
      PROVE  /\ mined'[a] \in Nat /\ mined[a] <= mined'[a]
             /\ news'[a] \in Nat \cup {None} /\ (news'[a] # None => news'[a] < mined'[a])
  <2>1. mined[a] \in Nat /\ n[a] \in 0 .. 2 /\ mined'[a] = mined[a] + n[a]
    BY <1>1, <1>3 DEF DataTypes
  <2>2. news'[a] = None \/ (n[a] > 0 /\ news'[a] = mined'[a] - 1)
    BY <1>3
  <2> QED BY <2>1, <2>2
<1>5. mined' \in [Accts -> Nat] /\ news' \in [Accts -> Nat \cup {None}]
  BY <1>3, <1>4
<1>6. DataTypes'
  BY <1>1, <1>2, <1>5 DEF DataTypes
<1>7. NewsMined'
  BY <1>4, <1>5 DEF NewsMined
<1>8. Starts'
  BY <1>1, <1>2 DEF Starts, Started
<1>9. Held'
  BY <1>1, <1>2, HeldStays
<1>10. Numbers'
  <2>1. ASSUME NEW c \in Callers, NEW i \in DOMAIN batch[c].txs, batch[c].txs[i].nonce # None
        PROVE  Below(batch[c].txs[i], batch[c].acct)'
    <3>1. batch[c].acct \in Accts /\ batch[c].txs[i].nonce \in Nat
      BY <1>1, <2>1, TxTypes
    <3>2. Below(batch[c].txs[i], batch[c].acct)
      BY <1>1, <2>1 DEF Numbers
    <3>3. mined[batch[c].acct] \in Nat /\ mined'[batch[c].acct] \in Nat
          /\ mined[batch[c].acct] <= mined'[batch[c].acct]
      BY <1>1, <1>4, <3>1 DEF DataTypes
    <3> QED BY <1>2, <3>1, <3>2, <3>3 DEF Below
  <2> QED BY <1>2, <2>1 DEF Numbers, Below
<1>11. Fresh' /\ Fronts' /\ Pairs'
  BY <1>1, <1>2, <1>4, <1>5, SameBatches DEF NonceInv
<1>12. AllocatedSent'
  BY <1>2 DEF NonceInv, AllocatedSent
<1> QED BY <1>6, <1>7, <1>8, <1>9, <1>10, <1>11, <1>12 DEF NonceInv

\* Some transactions of a batch arrive; those that neither arrived nor are
\* still to send are left only in a batch of which one was refused.
LEMMA Arrive ==
  ASSUME NonceInv, NEW c \in Callers, NEW arrived \in SUBSET batch[c].unsent,
         UNCHANGED <<mined, news, old, joining, used, next, last, lock, search, phase>>,
         batch[c].unsent # {}, Put(batch[c].acct, {batch[c].txs[j] : j \in arrived}),
         batch' \in [Callers -> BatchRecords],
         \A d \in Callers : d # c => batch'[d] = batch[d],
         batch'[c].acct = batch[c].acct /\ batch'[c].wrap = batch[c].wrap,
         batch'[c].txs = batch[c].txs /\ batch'[c].unsent \subseteq batch[c].unsent,
         \/ batch'[c].refused # {}
         \/ /\ batch'[c].refused = batch[c].refused
            /\ batch[c].unsent \ arrived \subseteq batch'[c].unsent
  PROVE  NonceInv'
<1>1. DataTypes /\ NewsMined /\ Starts /\ Held /\ Numbers /\ AllocatedSent
  BY DEF NonceInv
<1>2. \A d \in Callers : /\ batch'[d].acct = batch[d].acct /\ batch'[d].wrap = batch[d].wrap
                         /\ batch'[d].txs = batch[d].txs
  OBVIOUS
<1>3. batch[c].unsent \subseteq DOMAIN batch[c].txs
  BY <1>1 DEF DataTypes
<1>4. batch[c].acct \in Accts
  BY <1>1, <1>3, TxTypes
<1>5. \A j \in arrived : WireNonce(batch[c].txs[j]) \in Nat
  BY <1>1, <1>3, TxTypes DEF WireNonce
<1>6. /\ pool' \in [Accts -> SUBSET Nat]
      /\ \A a \in Accts : pool[a] \subseteq pool'[a]
      /\ \A j \in arrived : WireNonce(batch[c].txs[j]) \in pool'[batch[c].acct]
  <2> DEFINE new == {WireNonce(tx) : tx \in {batch[c].txs[j] : j \in arrived}}
  <2>1. new \subseteq Nat /\ \A j \in arrived : WireNonce(batch[c].txs[j]) \in new
    BY <1>5
  <2>2. pool' = [pool EXCEPT ![batch[c].acct] = @ \cup new] /\ pool \in [Accts -> SUBSET Nat]
    BY <1>1 DEF Put, DataTypes
  <2> HIDE DEF new
  <2> QED BY <1>4, <2>1, <2>2
<1>7. Started
  BY <1>1 DEF Starts, NoBatch
<1>8. DataTypes'
  BY <1>1, <1>2, <1>6 DEF DataTypes
<1>9. NewsMined'
  BY <1>1 DEF NewsMined
<1>10. Starts'
  BY <1>1, <1>7 DEF Starts, Started
<1>11. Held'
  BY <1>1, HeldStays
<1>12. Numbers'
  BY <1>1, <1>2 DEF Numbers, Below
<1>13. Fresh' /\ Fronts' /\ Pairs'
  <2>1. \A b \in Accts : mined[b] <= mined[b]
    BY <1>1 DEF DataTypes
  <2> QED BY <1>1, <1>2, <2>1, SameBatches DEF NonceInv, DataTypes
<1>14. AllocatedSent'
  <2>1. ASSUME NEW d \in Callers, NEW i \in DOMAIN batch[d].txs
        PROVE  \/ i \in batch'[d].unsent \/ batch'[d].refused # {}
               \/ WireNonce(batch[d].txs[i]) \in pool'[batch[d].acct]
    <3>1. \/ i \in batch[d].unsent \/ batch[d].refused # {}
          \/ WireNonce(batch[d].txs[i]) \in pool[batch[d].acct]
      BY <1>1 DEF AllocatedSent
    <3>2. pool[batch[d].acct] \subseteq pool'[batch[d].acct]
      BY <1>1, <1>6, TxTypes
    <3>3. CASE d # c
      BY <3>1, <3>2, <3>3
    <3>4. CASE d = c
      BY <1>6, <3>1, <3>2, <3>4
    <3> QED BY <3>3, <3>4
  <2> QED BY <1>2, <2>1 DEF AllocatedSent, WireNonce
<1> QED BY <1>8, <1>9, <1>10, <1>11, <1>12, <1>13, <1>14 DEF NonceInv

\* The task of a batch sends one transaction, or ends by a refused one.
LEMMA SendSteps ==
  ASSUME NonceInv, NEW c \in Callers, SendOne(c) \/ SendRefused(c)
  PROVE  NonceInv'
<1>1. DataTypes
  BY DEF NonceInv
<1>2. batch \in [Callers -> BatchRecords] /\ batch[c].unsent \subseteq Nat
  BY <1>1 DEF DataTypes, BatchRecords
<1>3. UNCHANGED <<mined, news, old, joining, used, next, last, lock, search, phase>>
  BY DEF SendOne, SendRefused, pending
<1>4. CASE SendOne(c)
  <2>1. PICK i \in batch[c].unsent :
          /\ Put(batch[c].acct, {batch[c].txs[i]})
          /\ batch' = [batch EXCEPT ![c].unsent = @ \ {i}]
    BY <1>4 DEF SendOne
  <2>2. Put(batch[c].acct, {batch[c].txs[j] : j \in {i}})
    <3>1. {batch[c].txs[j] : j \in {i}} = {batch[c].txs[i]}
      OBVIOUS
    <3> QED BY <2>1, <3>1
  <2>3. /\ batch' \in [Callers -> BatchRecords]
        /\ \A d \in Callers : d # c => batch'[d] = batch[d]
        /\ batch'[c].acct = batch[c].acct /\ batch'[c].wrap = batch[c].wrap
        /\ batch'[c].txs = batch[c].txs /\ batch'[c].unsent = batch[c].unsent \ {i}
        /\ batch'[c].refused = batch[c].refused
    BY <1>2, <2>1 DEF BatchRecords
  <2> QED BY <1>3, <2>2, <2>3, Arrive
<1>5. CASE SendRefused(c)
  <2> PICK i \in batch[c].unsent :
        \E arrived \in SUBSET (batch[c].unsent \ {i}) :
          /\ Put(batch[c].acct, {batch[c].txs[j] : j \in arrived})
          /\ batch' = [batch EXCEPT ![c].unsent = {}, ![c].refused = {i}]
    BY <1>5 DEF SendRefused
  <2>1. PICK arrived \in SUBSET (batch[c].unsent \ {i}) :
          /\ Put(batch[c].acct, {batch[c].txs[j] : j \in arrived})
          /\ batch' = [batch EXCEPT ![c].unsent = {}, ![c].refused = {i}]
    OBVIOUS
  <2>2. i \in Nat
    BY <1>2
  <2>3. /\ batch' \in [Callers -> BatchRecords]
        /\ \A d \in Callers : d # c => batch'[d] = batch[d]
        /\ batch'[c].acct = batch[c].acct /\ batch'[c].wrap = batch[c].wrap
        /\ batch'[c].txs = batch[c].txs /\ batch'[c].unsent = {} /\ batch'[c].refused = {i}
    BY <1>2, <2>1, <2>2 DEF BatchRecords
  <2>4. arrived \in SUBSET batch[c].unsent
    OBVIOUS
  <2> QED BY <1>3, <2>1, <2>3, <2>4, Arrive
<1> QED BY <1>4, <1>5

\* The batch of a search: what goes in front pays less than the transaction it
\* wraps, what goes behind pays more.
LEMMA PricesOfPlan ==
  ASSUME NEW c \in Callers, search[c].price \in WrapPrices, search[c].price > 0, NEW plan \in Plans
  PROVE  /\ Prices(c, plan) \in Seq(Nat)
         /\ \A i \in DOMAIN Prices(c, plan) :
              Prices(c, plan)[i] \in {search[c].price - 1, search[c].price + 1}
<1> DEFINE front == [i \in 1 .. plan[1] |-> search[c].price - 1]
           behind == [i \in 1 .. plan[2] |-> search[c].price + 1]
           both == {search[c].price - 1, search[c].price + 1}
<1>1. search[c].price \in Nat \ {0} /\ plan[1] \in Nat /\ plan[2] \in Nat
  <2>1. search[c].price \in Nat
    BY PricesAssumption
  <2>2. search[c].price # 0
    BY <2>1
  <2>3. plan \in Nat \X Nat
    BY PlansAssumption
  <2> QED BY <2>1, <2>2, <2>3
<1>2. both \subseteq Nat
  BY <1>1
<1> HIDE DEF both
<1>3. front \in Seq(both) /\ behind \in Seq(both)
  BY <1>1 DEF both
<1>4. Prices(c, plan) \in Seq(both)
  <2>1. Prices(c, plan) = front \o behind
    BY DEF Prices
  <2> HIDE DEF front, behind
  <2> QED BY <1>3, <2>1
<1> HIDE DEF front, behind
<1>5. \A i \in DOMAIN Prices(c, plan) : Prices(c, plan)[i] \in both
  BY <1>4
<1>6. Prices(c, plan) \in Seq(Nat)
  <2>1. Prices(c, plan) = front \o behind
    BY DEF Prices, front, behind
  <2>2. front \in Seq(Nat) /\ behind \in Seq(Nat)
    BY <1>1 DEF front, behind
  <2> QED BY <2>1, <2>2
<1> QED BY <1>5, <1>6 DEF both

\* A search that found an account hands out the next nonces.
LEMMA HandOut ==
  ASSUME NonceInv, TypeOK, NEW c \in Callers, NEW a \in Accts, Fits(c, a), search[c].op # "look"
  PROVE  NonceInv'
<1>1. DataTypes /\ NewsMined /\ Starts /\ Held /\ Numbers
  BY DEF NonceInv
<1>2. /\ search[c].pc = "search" /\ search[c].op = "wrap" /\ a \in used /\ lock[a] = c
      /\ MayWrap(a, search[c].price) /\ search[c].price \in WrapPrices /\ search[c].price > 0
  BY <1>1 DEF Fits, Held, Decides
<1>3. PICK plan \in Plans :
        LET s == Assigned(next[a], last[a], Prices(c, plan)) IN
        /\ next' = [next EXCEPT ![a] = s.next]
        /\ last' = [last EXCEPT ![a] = s.last]
        /\ batch' = [batch EXCEPT ![c] = [acct |-> a, wrap |-> search[c].price, txs |-> s.txs,
                                          unsent |-> DOMAIN s.txs, refused |-> {}]]
        /\ SearchOver(c, "send")
  BY DEF Fits
<1> DEFINE p == search[c].price
           ps == Prices(c, plan)
           s == Assigned(next[a], last[a], ps)
           b == [acct |-> a, wrap |-> p, txs |-> s.txs, unsent |-> DOMAIN s.txs, refused |-> {}]
<1>4. UNCHANGED <<mined, pool, news, old, joining, used>>
  BY DEF Fits, chain
<1>5. p \in Nat /\ ps \in Seq(Nat) /\ \A i \in DOMAIN ps : ps[i] \in {p - 1, p + 1}
  BY <1>2, PricesOfPlan, PricesAssumption
<1>6. next[a] \in Nat /\ last[a] \in Nat \cup {None}
  BY <1>1 DEF DataTypes
<1>7. /\ s.next \in Nat /\ next[a] <= s.next
      /\ s.last \in Nat \cup {None}
      /\ DOMAIN s.txs = DOMAIN ps
      /\ s.txs \in Seq(Transactions)
      /\ last[a] # None => s.last # None /\ s.last <= last[a]
  <2> HIDE DEF ps, p
  <2>1. /\ s.next \in Nat /\ next[a] <= s.next /\ s.last \in Nat \cup {None}
        /\ DOMAIN s.txs = DOMAIN ps
    BY <1>5, <1>6, Batches
  <2>2. s.txs \in Seq(Transactions)
    BY <1>5, <1>6, Batches DEF Transactions
  <2>3. last[a] # None => s.last # None /\ s.last <= last[a]
    BY <1>5, <1>6, Batches
  <2> QED BY <2>1, <2>2, <2>3
<1>8. ASSUME NEW i \in DOMAIN ps
      PROVE  /\ s.txs[i].price = ps[i]
             /\ s.txs[i].nonce # None =>
                  /\ next[a] <= s.txs[i].nonce /\ s.txs[i].nonce < s.next
                  /\ CanSend(a, ps[i])
                  /\ s.last # None /\ s.last <= ps[i]
             /\ s.txs[i].nonce = None =>
                  ~CanSend(a, ps[i]) \/ \E j \in 1 .. i - 1 : ps[j] < ps[i]
  <2> HIDE DEF ps, p
  <2> QED BY <1>5, <1>6, Batches
<1>9. ASSUME NEW i \in DOMAIN ps, NEW j \in DOMAIN ps,
             s.txs[i].nonce # None, s.txs[j].nonce # None, i < j
      PROVE  s.txs[i].nonce < s.txs[j].nonce /\ ps[j] <= ps[i]
  <2> HIDE DEF ps, p
  <2> QED BY <1>5, <1>6, <1>9, Batches
<1>10. /\ next' = [next EXCEPT ![a] = s.next] /\ last' = [last EXCEPT ![a] = s.last]
       /\ batch' = [batch EXCEPT ![c] = b] /\ SearchOver(c, "send")
  BY <1>3
<1>11. /\ b.acct = a /\ b.wrap = p /\ b.txs = s.txs /\ b.unsent = DOMAIN ps /\ b.refused = {}
  BY <1>7
<1>12. b \in BatchRecords
  <2>1. DOMAIN ps \subseteq Nat
    BY <1>5
  <2> HIDE DEF s, ps, p
  <2> QED BY <1>5, <1>7, <2>1 DEF BatchRecords
<1> HIDE DEF b, s, ps, p
<1>13. batch'[c] = b /\ \A d \in Callers : d # c => batch'[d] = batch[d]
  BY <1>1, <1>10 DEF DataTypes
<1>14. /\ next' \in [Accts -> Nat] /\ last' \in [Accts -> Nat \cup {None}]
       /\ next'[a] = s.next /\ last'[a] = s.last
       /\ \A x \in Accts : x # a => next'[x] = next[x] /\ last'[x] = last[x]
  BY <1>1, <1>7, <1>10 DEF DataTypes
<1>15. DataTypes'
  <2>1. batch' \in [Callers -> BatchRecords]
    BY <1>1, <1>10, <1>12 DEF DataTypes
  <2>2. \A d \in Callers : /\ batch'[d].txs # <<>> => batch'[d].acct \in Accts
                           /\ batch'[d].unsent \subseteq DOMAIN batch'[d].txs
    BY <1>1, <1>7, <1>11, <1>13 DEF DataTypes
  <2> QED BY <1>1, <1>4, <1>14, <2>1, <2>2 DEF DataTypes
<1>16. NewsMined'
  BY <1>1, <1>4 DEF NewsMined
<1>17. Starts'
  <2>1. Started
    BY <1>1, <1>2, BeganAfterStart
  <2>2. ASSUME NEW x \in used, NEW n \in old[x] PROVE n < next'[x]
    <3>1. x \in Accts /\ n < next[x] /\ n \in Nat /\ next[x] \in Nat
      BY <1>1, <2>2 DEF Starts, TypeOK, DataTypes
    <3> QED BY <1>6, <1>7, <1>14, <3>1
  <2> QED BY <1>1, <1>4, <2>1, <2>2 DEF Starts, Started
<1>18. Held'
  BY <1>1, <1>2, <1>4, <1>10, <1>14, HeldOver
\* What is known of the transactions that were there before.
<1>19. ASSUME NEW d \in Callers, NEW i \in DOMAIN batch[d].txs,
              batch[d].acct = a, batch[d].txs[i].nonce # None
       PROVE  /\ batch[d].txs[i].nonce \in Nat /\ batch[d].txs[i].price \in Nat
              /\ batch[d].txs[i].nonce < next[a]
              /\ \/ batch[d].txs[i].nonce < mined[a]
                 \/ last[a] # None /\ last[a] <= batch[d].txs[i].price
  BY <1>1, <1>19, TxTypes DEF Numbers, Below
\* What is known of the new ones.
<1>20. ASSUME NEW i \in DOMAIN ps, s.txs[i].nonce # None
       PROVE  /\ s.txs[i].nonce \in Nat /\ s.txs[i].price = ps[i] /\ ps[i] \in Nat
              /\ next[a] <= s.txs[i].nonce /\ s.txs[i].nonce < s.next
              /\ last[a] # None => ps[i] <= last[a]
              /\ s.last # None /\ s.last <= ps[i]
  <2>1. s.txs[i].nonce \in Nat
    <3>1. s.txs[i] \in Transactions
      BY <1>7
    <3> QED BY <1>20, <3>1 DEF Transactions
  <2>2. last[a] # None => ps[i] <= last[a]
    BY <1>5, <1>6, <1>8, <1>20 DEF CanSend, MayFollow
  <2> QED BY <1>5, <1>8, <1>20, <2>1, <2>2
<1>21. Numbers'
  <2>1. ASSUME NEW d \in Callers, NEW i \in DOMAIN batch'[d].txs, batch'[d].txs[i].nonce # None
        PROVE  /\ batch'[d].txs[i].nonce < next'[batch'[d].acct]
               /\ \/ batch'[d].txs[i].nonce < mined[batch'[d].acct]
                  \/ /\ last'[batch'[d].acct] # None
                     /\ last'[batch'[d].acct] <= batch'[d].txs[i].price
    <3>1. CASE d = c
      <4>1. i \in DOMAIN ps /\ batch'[d].txs[i] = s.txs[i] /\ batch'[d].acct = a
        BY <1>7, <1>11, <1>13, <2>1, <3>1
      <4> QED BY <1>14, <1>20, <2>1, <4>1
    <3>2. CASE d # c /\ batch[d].acct = a
      <4>1. batch'[d] = batch[d]
        BY <1>13, <3>2
      <4>2. batch[d].txs[i].nonce < s.next
        BY <1>6, <1>7, <1>19, <2>1, <3>2, <4>1
      <4>3. batch[d].txs[i].nonce < mined[a] \/ (s.last # None /\ s.last <= batch[d].txs[i].price)
        BY <1>6, <1>7, <1>19, <2>1, <3>2, <4>1
      <4> QED BY <1>14, <3>2, <4>1, <4>2, <4>3
    <3>3. CASE d # c /\ batch[d].acct # a
      <4>1. batch'[d] = batch[d] /\ batch[d].acct \in Accts
        BY <1>1, <1>13, <2>1, <3>3, TxTypes
      <4>2. Below(batch[d].txs[i], batch[d].acct)
        BY <1>1, <2>1, <4>1 DEF Numbers
      <4> QED BY <1>14, <3>3, <4>1, <4>2 DEF Below
    <3> QED BY <3>1, <3>2, <3>3
  <2> QED BY <1>4, <2>1 DEF Numbers, Below
<1>22. Fresh'
  <2>1. ASSUME NEW d \in Callers, NEW i \in DOMAIN batch'[d].txs, batch'[d].txs[i].nonce # None
        PROVE  batch'[d].txs[i].nonce \notin old[batch'[d].acct]
    <3>1. CASE d = c
      <4>1. i \in DOMAIN ps /\ batch'[d].txs[i] = s.txs[i] /\ batch'[d].acct = a
        BY <1>7, <1>11, <1>13, <2>1, <3>1
      <4>2. \A n \in old[a] : n < next[a]
        BY <1>1, <1>2 DEF Starts
      <4>3. ~(s.txs[i].nonce < next[a])
        BY <1>6, <1>20, <2>1, <4>1
      <4> QED BY <4>1, <4>2, <4>3
    <3>2. CASE d # c
      BY <1>13, <2>1, <3>2 DEF NonceInv, Fresh
    <3> QED BY <3>1, <3>2
  <2> QED BY <1>4, <2>1 DEF Fresh
<1>23. Fronts'
  <2>1. ASSUME NEW i \in DOMAIN ps, ps[i] < p PROVE s.txs[i].nonce # None
    <3>1. ps[i] = p - 1
      BY <1>5, <2>1
    <3>2. CanSend(a, ps[i])
      BY <1>2, <3>1 DEF MayWrap, p
    <3>3. \A j \in 1 .. i - 1 : ~(ps[j] < ps[i])
      <4>1. SUFFICES ASSUME NEW j \in 1 .. i - 1 PROVE ~(ps[j] < ps[i])
        OBVIOUS
      <4>2. j \in DOMAIN ps
        BY <1>5
      <4>3. ps[j] \in {p - 1, p + 1}
        BY <1>5, <4>2
      <4> QED BY <1>5, <3>1, <4>3
    <3> QED BY <1>8, <3>2, <3>3
  <2>2. ASSUME NEW d \in Callers, NEW i \in DOMAIN batch'[d].txs,
               batch'[d].txs[i].price < batch'[d].wrap
        PROVE  batch'[d].txs[i].nonce # None
    <3>1. CASE d = c
      <4>1. i \in DOMAIN ps /\ batch'[d].txs[i] = s.txs[i] /\ batch'[d].wrap = p
        BY <1>7, <1>11, <1>13, <2>2, <3>1
      <4> QED BY <1>8, <2>1, <2>2, <4>1
    <3>2. CASE d # c
      BY <1>13, <2>2, <3>2 DEF NonceInv, Fronts
    <3> QED BY <3>1, <3>2
  <2> QED BY <2>2 DEF Fronts
<1>24. Pairs'
  <2>1. ASSUME NEW d \in Callers, NEW e \in Callers,
               NEW i \in DOMAIN batch'[d].txs, NEW j \in DOMAIN batch'[e].txs,
               batch'[d].acct = batch'[e].acct,
               batch'[d].txs[i].nonce # None, batch'[e].txs[j].nonce # None
        PROVE  /\ batch'[d].txs[i].nonce = batch'[e].txs[j].nonce => d = e /\ i = j
               /\ InOrder(batch'[d].txs[i], batch'[e].txs[j], batch'[d].acct)
    <3>1. CASE d # c /\ e # c
      <4>1. batch'[d] = batch[d] /\ batch'[e] = batch[e]
        BY <1>13, <3>1
      <4> QED BY <2>1, <4>1 DEF NonceInv, Pairs
    <3>2. CASE d = c /\ e = c
      <4>1. /\ i \in DOMAIN ps /\ j \in DOMAIN ps
            /\ batch'[d].txs[i] = s.txs[i] /\ batch'[e].txs[j] = s.txs[j]
        BY <1>7, <1>11, <1>13, <2>1, <3>2
      <4>2. i \in Nat /\ j \in Nat
        BY <1>5, <4>1
      <4>3. CASE i = j
        BY <1>20, <2>1, <3>2, <4>1, <4>3 DEF InOrder
      <4>4. CASE i < j
        <5>1. s.txs[i].nonce < s.txs[j].nonce /\ ps[j] <= ps[i]
          BY <1>9, <2>1, <4>1, <4>4
        <5> QED BY <1>20, <2>1, <4>1, <5>1 DEF InOrder
      <4>5. CASE j < i
        <5>1. s.txs[j].nonce < s.txs[i].nonce
          BY <1>9, <2>1, <4>1, <4>5
        <5> QED BY <1>20, <2>1, <4>1, <5>1 DEF InOrder
      <4> QED BY <4>2, <4>3, <4>4, <4>5
    <3>3. CASE d = c /\ e # c
      <4>1. /\ i \in DOMAIN ps /\ batch'[d].txs[i] = s.txs[i] /\ batch'[d].acct = a
            /\ batch'[e] = batch[e] /\ batch[e].acct = a
        BY <1>7, <1>11, <1>13, <2>1, <3>3
      <4>2. batch[e].txs[j].nonce < next[a] /\ batch[e].txs[j].nonce \in Nat
        BY <1>19, <2>1, <4>1
      <4>3. next[a] <= s.txs[i].nonce /\ s.txs[i].nonce \in Nat
        BY <1>20, <2>1, <4>1
      <4> QED BY <1>6, <4>1, <4>2, <4>3 DEF InOrder
    <3>4. CASE d # c /\ e = c
      <4>1. /\ j \in DOMAIN ps /\ batch'[e].txs[j] = s.txs[j] /\ batch'[e].acct = a
            /\ batch'[d] = batch[d] /\ batch[d].acct = a
        BY <1>7, <1>11, <1>13, <2>1, <3>4
      <4>2. /\ batch[d].txs[i].nonce \in Nat /\ batch[d].txs[i].price \in Nat
            /\ batch[d].txs[i].nonce < next[a]
            /\ \/ batch[d].txs[i].nonce < mined[a]
               \/ last[a] # None /\ last[a] <= batch[d].txs[i].price
        BY <1>19, <2>1, <4>1
      <4>3. /\ next[a] <= s.txs[j].nonce /\ s.txs[j].nonce \in Nat
            /\ s.txs[j].price = ps[j] /\ ps[j] \in Nat
            /\ last[a] # None => ps[j] <= last[a]
        BY <1>20, <2>1, <4>1
      <4>4. batch[d].txs[i].nonce # s.txs[j].nonce
        BY <1>6, <4>2, <4>3
      <4>5. mined[a] <= batch[d].txs[i].nonce => s.txs[j].price <= batch[d].txs[i].price
        <5>1. mined[a] \in Nat
          BY <1>1 DEF DataTypes
        <5> QED BY <1>6, <4>2, <4>3, <5>1
      <4> QED BY <4>1, <4>4, <4>5 DEF InOrder
    <3> QED BY <3>1, <3>2, <3>3, <3>4
  <2> QED BY <1>4, <2>1 DEF Pairs, InOrder
<1>25. AllocatedSent'
  <2>1. ASSUME NEW d \in Callers, NEW i \in DOMAIN batch'[d].txs
        PROVE  \/ i \in batch'[d].unsent \/ batch'[d].refused # {}
               \/ WireNonce(batch'[d].txs[i]) \in pool[batch'[d].acct]
    <3>1. CASE d = c
      BY <1>7, <1>11, <1>13, <2>1, <3>1
    <3>2. CASE d # c
      BY <1>13, <2>1, <3>2 DEF NonceInv, AllocatedSent
    <3> QED BY <3>1, <3>2
  <2> QED BY <1>4, <2>1 DEF AllocatedSent, WireNonce
<1> QED BY <1>15, <1>16, <1>17, <1>18, <1>21, <1>22, <1>23, <1>24, <1>25 DEF NonceInv

-----------------------------------------------------------------------------
(* The theorems.                                                           *)

\* Every step keeps the invariant.
LEMMA StepNonces == NonceInv /\ TypeOK /\ [Next]_vars => NonceInv'
<1> SUFFICES ASSUME NonceInv, TypeOK, [Next]_vars PROVE NonceInv'
  OBVIOUS
<1>1. ASSUME NEW a \in Accts, ReadCount(a) \/ TxMined(a) PROVE NonceInv'
  BY <1>1, ReadCountStep, TxMinedStep
<1>2. CASE UNCHANGED vars \/ \E a \in Accts : ForgetBalances(a)
  <2>1. UNCHANGED <<chain, joining, used, pending, lock, search, phase, batch>>
    BY <1>2 DEF vars, chain, pending, ForgetBalances
  <2>2. Held'
    BY <2>1, HeldStays DEF NonceInv, pending
  <2> QED BY <2>1, <2>2, QuietStep DEF chain, pending
<1>3. ASSUME NEW c \in Callers, Begin(c) \/ NotFound(c) \/ Drop(c) \/ Sent(c) PROVE NonceInv'
  BY <1>3, QuietSteps
<1>4. ASSUME NEW c \in Callers, SendOne(c) \/ SendRefused(c) PROVE NonceInv'
  BY <1>4, SendSteps
<1>5. ASSUME NEW c \in Callers, NEW a \in Accts,
             \/ Look(c, a) \/ LockAccount(c, a) \/ ComputeBalance(c, a)
             \/ Passes(c, a) \/ Fails(c, a) \/ WrapPanics(c, a)
      PROVE  NonceInv'
  BY <1>5, QuietSteps
<1>6. ASSUME NEW c \in Callers, NEW a \in Accts, Fits(c, a) PROVE NonceInv'
  <2>1. CASE search[c].op # "look"
    BY <1>6, <2>1, HandOut
  <2>2. CASE search[c].op = "look"
    <3>1. /\ UNCHANGED <<mined, pool, news, old, joining, used, next, last, batch>>
          /\ SearchOver(c, "over") /\ phase[c][a] = "inside"
      BY <1>6, <2>2 DEF Fits, chain, pending
    <3>2. search[c].pc = "search" /\ Held /\ Starts
      BY <3>1 DEF NonceInv, Held, Decides
    <3>3. Started
      BY <3>2, BeganAfterStart
    <3>4. Held'
      BY <3>1, <3>2, HeldOver
    <3> QED BY <3>1, <3>3, <3>4, QuietStep
  <2> QED BY <2>1, <2>2
<1>7. CASE Block
  BY <1>7, BlockStep
<1> QED BY <1>1, <1>2, <1>3, <1>4, <1>5, <1>6, <1>7 DEF Next

\* The invariant holds throughout.
LEMMA AlwaysNonces == Spec => []NonceInv
<1>1. NonceInv /\ TypeOK /\ [Next]_vars => NonceInv'
  BY StepNonces
<1> QED BY <1>1, InitNonces, TypeCorrect, PTL DEF Spec

\* A nonce is handed out once, whichever searches run at the same time, and
\* never one that the node held before the start (accounts.rs,
\* assign_next_nonce under the lock of the account).
THEOREM NoncesHandedOutOnce == Spec => []NoncesUnique
  BY AlwaysNonces, InvNonces, PTL

\* A later nonce of an account never pays more than an earlier one that is not
\* mined yet: last_gas_price is kept until all that was handed out is mined
\* (accounts.rs, tx_mined).
THEOREM PricesNeverRise == Spec => []PricesFall
  BY AlwaysNonces, InvNonces, PTL

\* What goes in front of the wrapped transaction gets a nonce: no other search
\* and no block changes the last price while the balance is awaited
\* (accounts.rs, try_find_wrap_and_send_txs).
THEOREM FrontsGetNonces == Spec => []FrontsNumbered
  BY AlwaysNonces, InvNonces, PTL

\* A transaction with a nonce is on its way or with the node, also after the
\* caller is gone, unless one of its batch was refused (accounts.rs,
\* send_txs).
THEOREM HandedOutIsSent == Spec => []AllocatedSent
  BY AlwaysNonces, InvNonces, PTL
=============================================================================
