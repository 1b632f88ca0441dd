------------------------------ MODULE Accounts ------------------------------
(***************************************************************************)
(* The accounts of the program (crates/engine/src/accounts.rs): callers    *)
(* search all accounts at once for one that fits, the first one found      *)
(* wins.  A search that wants to send holds the lock of an account while   *)
(* it decides, takes consecutive nonces under it, and hands the            *)
(* transactions to a task of their own.  Searches decide by the balance of *)
(* the account at a block, which is cached (Cached).                       *)
(***************************************************************************)
EXTENDS Cached, Sequences

CONSTANTS
  Accts,        \* the signers
  Callers,      \* futures that search, one search each
  WrapPrices,   \* gas prices of the transactions to wrap
  Plans,        \* what a search may want to send: <<before, behind>>
  FirstNonces,  \* transactions of an account that were mined before the start
  Nobody,
  None

ASSUME PricesAssumption == WrapPrices \subseteq Nat
ASSUME PlansAssumption == Plans \subseteq Nat \X Nat /\ FirstNonces \subseteq Nat
ASSUME CacheAssumption == Clients = Callers \X Accts /\ Ids = Accts
ASSUME NobodyAssumption == Nobody \notin Callers \cup {"monitor"} /\ None \notin Nat

VARIABLES
  mined,     \* transactions of an account in the chain
  pool,      \* the nonces the node holds of an account, mined ones included
  news,      \* the last nonce of an account in the block being processed
  old,       \* the nonces the node held of an account before the start
  joining,   \* the counts read of an account that is not yet taken or skipped
  used,      \* the accounts that can be used
  next,      \* next_nonce
  last,      \* last_gas_price
  lock,      \* who holds an account
  search,    \* what each caller does
  phase,     \* where its search is with each account
  batch      \* what a search sent: the account, the price it wraps, the
             \* transactions, those still to send and the one refused

chain == <<mined, pool, news, old>>
pending == <<next, last>>
vars == <<mined, pool, news, old, joining, used, next, last, lock, search, phase,
          batch, cacheVars>>

Started == \A a \in Accts : joining[a] = <<>>
Idle == [pc |-> "idle", op |-> None, price |-> None]
NoBatch == [acct |-> None, wrap |-> None, txs |-> <<>>, unsent |-> {}, refused |-> {}]

-----------------------------------------------------------------------------
(* PendingState.                                                           *)

MayFollow(price, lastPrice) == lastPrice = None \/ lastPrice >= price
CanSend(a, price) == MayFollow(price, last[a])

\* assign_next_nonce of one transaction after another: the places of those that
\* get a nonce.  One that is dearer than the last one, or than one before it in
\* the batch, gets none and is sent all the same.
Numbered(lastPrice, prices) ==
  {i \in DOMAIN prices : /\ MayFollow(prices[i], lastPrice)
                         /\ \A j \in 1 .. i - 1 : prices[j] >= prices[i]}

NonceAt(n, places, i) == n + Cardinality({j \in places : j < i})
PriceAfter(lastPrice, prices, places) ==
  IF places = {} THEN lastPrice
  ELSE prices[CHOOSE i \in places : \A j \in places : j <= i]

Assigned(n, lastPrice, prices) ==
  LET places == Numbered(lastPrice, prices) IN
  [next |-> n + Cardinality(places),
   last |-> PriceAfter(lastPrice, prices, places),
   txs  |-> [i \in DOMAIN prices |->
               [nonce |-> IF i \in places THEN NonceAt(n, places, i) ELSE None,
                price |-> prices[i]]]]

\* alloc_next_nonce for one more transaction, as the loop of send_txs calls it.
Alloc(s, price) ==
  LET may == MayFollow(price, s.last) IN
  [next |-> IF may THEN s.next + 1 ELSE s.next,
   last |-> IF may THEN price ELSE s.last,
   txs  |-> Append(s.txs, [nonce |-> IF may THEN s.next ELSE None, price |-> price])]

\* A transaction of the account is in a block.
LastAfter_Always(a, nonce) == None
LastAfter(a, nonce) == IF nonce + 1 >= next[a] THEN None ELSE last[a]
NextAfter(a, nonce) == IF nonce + 1 >= next[a] THEN nonce + 1 ELSE next[a]

-----------------------------------------------------------------------------

Init ==
  /\ mined \in [Accts -> FirstNonces]
  /\ \E extra \in [Accts -> {0, 1}] : old = [a \in Accts |-> 0 .. mined[a] + extra[a] - 1]
  /\ pool = old
  /\ news = [a \in Accts |-> None]
  /\ joining = [a \in Accts |-> <<None, None>>]
  /\ used = {}
  /\ next = [a \in Accts |-> 0] /\ last = [a \in Accts |-> None]
  /\ lock = [a \in Accts |-> Nobody]
  /\ search = [c \in Callers |-> Idle]
  /\ phase = [c \in Callers |-> [a \in Accts |-> "start"]]
  /\ batch = [c \in Callers |-> NoBatch]
  /\ CacheInit

\* PendingState::new: the mined and the pending count are read side by side.
\* An account whose counts differ is skipped.
Take_Any(a, counts) == TRUE
Take(a, counts) == counts[1] = counts[2]

\* Nothing was sent yet: the node holds the nonces up to its pending count.
PendingCount(a) == Cardinality(pool[a])

ReadCount(a) ==
  /\ joining[a] # <<>>
  /\ \E i \in 1 .. 2 :
       /\ joining[a][i] = None
       /\ LET counts == [joining[a] EXCEPT ![i] = IF i = 1 THEN mined[a] ELSE PendingCount(a)]
          IN  IF None \in {counts[1], counts[2]}
                THEN joining' = [joining EXCEPT ![a] = counts] /\ UNCHANGED <<used, next>>
                ELSE /\ joining' = [joining EXCEPT ![a] = <<>>]
                     /\ used' = IF Take(a, counts) THEN used \cup {a} ELSE used
                     /\ next' = IF Take(a, counts) THEN [next EXCEPT ![a] = counts[1]] ELSE next
  /\ UNCHANGED <<chain, last, lock, search, phase, batch, cacheVars>>

-----------------------------------------------------------------------------
(* Searches: `find` and its variants look at the accounts as they are (op  *)
(* "look"), the locked ones hold an account while they decide (op "wrap",  *)
(* try_find_wrap_and_send_txs).                                            *)

Begin(c) ==
  /\ Started /\ search[c] = Idle
  /\ \/ search' = [search EXCEPT ![c] = [Idle EXCEPT !.pc = "search", !.op = "look"]]
     \/ \E p \in WrapPrices :
          search' = [search EXCEPT ![c] = [pc |-> "search", op |-> "wrap", price |-> p]]
  /\ UNCHANGED <<chain, joining, used, pending, lock, phase, batch, cacheVars>>

Searching(c, a, op, ph) ==
  search[c].pc = "search" /\ search[c].op = op /\ a \in used /\ phase[c][a] = ph

SetPhase(c, a, ph) == phase' = [phase EXCEPT ![c][a] = ph]

\* The predicate asks for the balance of the account.
Look(c, a) ==
  /\ Searching(c, a, "look", "start")
  /\ GetAt(<<c, a>>, a)
  /\ SetPhase(c, a, "inside")
  /\ UNCHANGED <<chain, joining, used, pending, lock, search, batch>>

\* The account is locked; one that cannot send is let go at once.
MayWrap_Always(a, price) == TRUE
MayWrap(a, price) == CanSend(a, price - 1)

LockAccount(c, a) ==
  /\ Searching(c, a, "wrap", "start") /\ lock[a] = Nobody /\ search[c].price > 0
  /\ IF MayWrap(a, search[c].price)
       THEN /\ lock' = [lock EXCEPT ![a] = c]
            /\ GetAt(<<c, a>>, a)
            /\ SetPhase(c, a, "inside")
       ELSE /\ SetPhase(c, a, "none")
            /\ UNCHANGED <<lock, cacheVars>>
  /\ UNCHANGED <<chain, joining, used, pending, search, batch>>

ComputeBalance(c, a) ==
  /\ Compute(<<c, a>>)
  /\ UNCHANGED <<chain, joining, used, pending, lock, search, phase, batch>>

Futures(c) == {c} \X Accts

\* The futures of a search that has its result, or is dropped: each lock they
\* hold or wait for is given up.
Released_Nothing(c) == lock
Released(c) == [a \in Accts |-> IF lock[a] = c THEN Nobody ELSE lock[a]]
SearchOver(c, pc) ==
  /\ search' = [search EXCEPT ![c] = [Idle EXCEPT !.pc = pc]]
  /\ phase' = [phase EXCEPT ![c] = [a \in Accts |-> "none"]]
  /\ lock' = Released(c)

\* wrap_gas_price - 1 of a transaction that pays nothing: the search panics with the
\* account locked, and all its futures go.
WrapPanics(c, a) ==
  /\ Searching(c, a, "wrap", "start") /\ lock[a] = Nobody /\ search[c].price = 0
  /\ Leave(Futures(c))
  /\ SearchOver(c, "over")
  /\ UNCHANGED <<chain, joining, used, pending, batch>>

\* Not this one: the search goes on with the others, or ends without a result.
Passes(c, a) ==
  /\ phase[c][a] = "inside"
  /\ Hit(<<c, a>>, {<<c, a>>}) \/ Computed(<<c, a>>, {<<c, a>>})
  /\ SetPhase(c, a, "none")
  /\ lock' = [lock EXCEPT ![a] = IF @ = c THEN Nobody ELSE @]
  /\ UNCHANGED <<chain, joining, used, pending, search, batch>>

\* The first account found ends the search; nonces are assigned while it is
\* still locked, the transactions in front first.
Prices(c, plan) ==
  [i \in 1 .. plan[1] |-> search[c].price - 1] \o [i \in 1 .. plan[2] |-> search[c].price + 1]

Fits(c, a) ==
  /\ phase[c][a] = "inside"
  /\ Hit(<<c, a>>, Futures(c)) \/ Computed(<<c, a>>, Futures(c))
  /\ IF search[c].op = "look"
       THEN SearchOver(c, "over") /\ UNCHANGED <<pending, batch>>
       ELSE \E plan \in Plans :
              LET s == Assigned(next[a], last[a], Prices(c, plan)) IN
              /\ next' = [next EXCEPT ![a] = s.next]
              /\ last' = [last EXCEPT ![a] = s.last]
              /\ batch' = [batch EXCEPT ![c] = [acct |-> a, wrap |-> search[c].price, txs |-> s.txs,
                                                unsent |-> DOMAIN s.txs, refused |-> {}]]
              /\ SearchOver(c, "send")
  /\ UNCHANGED <<chain, joining, used>>

\* The first error ends the search as well: the node does not tell the
\* balance, or the caller's function fails.
Fails(c, a) ==
  /\ phase[c][a] = "inside"
  /\ \/ client[<<c, a>>].pc = "computing" /\ Leave(Futures(c))
     \/ Hit(<<c, a>>, Futures(c))
     \/ Computed(<<c, a>>, Futures(c))
  /\ SearchOver(c, "over")
  /\ UNCHANGED <<chain, joining, used, pending, batch>>

\* No account is left.
NotFound(c) ==
  /\ search[c].pc = "search" /\ \A a \in used : phase[c][a] = "none"
  /\ SearchOver(c, "over")
  /\ UNCHANGED <<chain, joining, used, pending, batch, cacheVars>>

\* Somebody drops the caller's future.  What was handed to a task goes on.
StillToSend_None(c) == {}
StillToSend(c) == batch[c].unsent

Drop(c) ==
  /\ search[c].pc \in {"search", "send"}
  /\ Leave(Futures(c))
  /\ SearchOver(c, "over")
  /\ batch' = [batch EXCEPT ![c].unsent = StillToSend(c)]
  /\ UNCHANGED <<chain, joining, used, pending>>

ForgetBalances(a) ==
  /\ Started /\ entryAt[a] # NoEntry
  /\ Forget({a})
  /\ UNCHANGED <<chain, joining, used, pending, lock, search, phase, batch>>

-----------------------------------------------------------------------------
(* The task of send_txs: the transactions of a batch are on their way at   *)
(* once and arrive in any order.                                           *)

\* A transaction without a nonce has nonce 0 on the wire.
WireNonce(tx) == IF tx.nonce = None THEN 0 ELSE tx.nonce

\* The node takes a transaction that is not mined yet.
Takes(a, tx) == WireNonce(tx) >= mined[a]
Put(a, txs) == pool' = [pool EXCEPT ![a] = @ \cup {WireNonce(tx) : tx \in txs}]

SendOne(c) ==
  /\ \E i \in batch[c].unsent :
       /\ Takes(batch[c].acct, batch[c].txs[i])
       /\ Put(batch[c].acct, {batch[c].txs[i]})
       /\ batch' = [batch EXCEPT ![c].unsent = @ \ {i}]
  /\ UNCHANGED <<mined, news, old, joining, used, pending, lock, search, phase, cacheVars>>

\* The signer or the node refuses one: try_collect drops the others, of which
\* some may have arrived.
SendRefused(c) ==
  /\ \E i \in batch[c].unsent : \E arrived \in SUBSET (batch[c].unsent \ {i}) :
       /\ \A j \in arrived : Takes(batch[c].acct, batch[c].txs[j])
       /\ Put(batch[c].acct, {batch[c].txs[j] : j \in arrived})
       /\ batch' = [batch EXCEPT ![c].unsent = {}, ![c].refused = {i}]
  /\ UNCHANGED <<mined, news, old, joining, used, pending, lock, search, phase, cacheVars>>

Sent(c) ==
  /\ search[c].pc = "send" /\ batch[c].unsent = {}
  /\ search' = [search EXCEPT ![c].pc = "over"]
  /\ UNCHANGED <<chain, joining, used, pending, lock, phase, batch, cacheVars>>

-----------------------------------------------------------------------------
(* Blocks.                                                                 *)

\* A block is mined; the one before it was processed.  What becomes of an
\* account that was skipped is of no interest.
Block ==
  /\ \A a \in Accts : news[a] = None
  /\ \E n \in [Accts -> 0 .. 2] :
       /\ \E a \in Accts : n[a] > 0
       /\ \A a \in Accts : /\ mined[a] .. mined[a] + n[a] - 1 \subseteq pool[a]
                           /\ n[a] > 0 => joining[a] # <<>> \/ a \in used
       /\ mined' = [a \in Accts |-> mined[a] + n[a]]
       /\ news' = [a \in Accts |-> IF n[a] > 0 /\ Started /\ a \in used THEN mined'[a] - 1 ELSE None]
  /\ UNCHANGED <<pool, old, joining, used, pending, lock, search, phase, batch, cacheVars>>

\* process_block: the last transaction of each account, under its lock.
TxMined(a) ==
  /\ news[a] # None /\ lock[a] = Nobody
  /\ next' = [next EXCEPT ![a] = NextAfter(a, news[a])]
  /\ last' = [last EXCEPT ![a] = LastAfter(a, news[a])]
  /\ news' = [news EXCEPT ![a] = None]
  /\ UNCHANGED <<mined, pool, old, joining, used, lock, search, phase, batch, cacheVars>>

Next ==
  \/ \E a \in Accts : ReadCount(a) \/ ForgetBalances(a) \/ TxMined(a)
  \/ \E c \in Callers : Begin(c) \/ NotFound(c) \/ Drop(c) \/ SendOne(c) \/ SendRefused(c) \/ Sent(c)
  \/ \E c \in Callers, a \in Accts :
       \/ Look(c, a) \/ LockAccount(c, a) \/ WrapPanics(c, a) \/ ComputeBalance(c, a)
       \/ Passes(c, a) \/ Fits(c, a) \/ Fails(c, a)
  \/ Block

Spec == Init /\ [][Next]_vars

-----------------------------------------------------------------------------
(* Properties.                                                             *)

Txs(c) == {batch[c].txs[i] : i \in DOMAIN batch[c].txs}
NumberedTxs(c) == {tx \in Txs(c) : tx.nonce # None}

\* Type correctness.
TypeOK ==
  /\ CacheTypeOK
  /\ used \subseteq Accts
  /\ lock \in [Accts -> Callers \cup {Nobody}]
  /\ search \in [Callers -> [pc : {"idle", "search", "send", "over"},
                            op : {None, "look", "wrap"}, price : WrapPrices \cup {None}]]
  /\ phase \in [Callers -> [Accts -> {"start", "inside", "none"}]]

\* An account is held by a search that wants to send and decides about this
\* account: a search that is over, dropped or satisfied elsewhere leaves no
\* account locked.
LocksHeld ==
  \A a \in Accts : lock[a] \in Callers =>
    /\ search[lock[a]].pc = "search" /\ search[lock[a]].op = "wrap"
    /\ phase[lock[a]][a] = "inside"

\* A nonce is handed out once, by whichever searches run at the same time,
\* and never one of a transaction that was known before the start.
NoncesUnique ==
  /\ \A c \in Callers : \A tx \in NumberedTxs(c) : tx.nonce \notin old[batch[c].acct]
  /\ \A c, d \in Callers : \A i \in DOMAIN batch[c].txs, j \in DOMAIN batch[d].txs :
       ( /\ batch[c].acct = batch[d].acct
         /\ batch[c].txs[i].nonce = batch[d].txs[j].nonce
         /\ batch[c].txs[i].nonce # None ) => c = d /\ i = j

\* Of the transactions of an account that are not mined a later nonce never
\* pays more: a miner who takes them by price takes them in order.
PricesFall ==
  \A c, d \in Callers : \A s \in NumberedTxs(c), t \in NumberedTxs(d) :
    ( /\ batch[c].acct = batch[d].acct
      /\ mined[batch[c].acct] <= s.nonce /\ s.nonce < t.nonce ) => t.price <= s.price

\* What goes in front of the wrapped transaction always gets a nonce: that the
\* account can send it was seen before the balance was awaited, and still
\* holds after it.
FrontsNumbered ==
  \A c \in Callers : \A tx \in Txs(c) : tx.price < batch[c].wrap => tx.nonce # None

\* A transaction with a nonce is on its way or with the node, also after the
\* caller is gone, unless the node or the signer refused one of its batch.
AllocatedSent ==
  \A c \in Callers : \A i \in DOMAIN batch[c].txs :
    i \in batch[c].unsent \/ batch[c].refused # {} \/ WireNonce(batch[c].txs[i]) \in pool[batch[c].acct]

=============================================================================
