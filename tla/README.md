# sandwitch: TLA+ models and proofs

sandwitch watches the pending block of an Ethereum node and, for every new head, lets a set of
monitors propose prioritised multicalls, which it signs and sends as transactions that share one
account. This directory holds TLA+ models of that program, the TLC runs that check them and
proofs checked by TLAPS.

Contents: [the system](#the-system), [hard behaviours](#hard-behaviours), [modules](#modules),
[runs and bounds](#runs-and-bounds), [fairness](#fairness), [proofs](#proofs),
[assumptions](#assumptions), [not modelled](#not-modelled),
[without an explanation](#without-an-explanation-in-the-code), [plan](#plan).

## The system

Paths are relative to `src/`. A component's properties are what makes it correct.

| component | state it keeps | operations | talks to |
|---|---|---|---|
| **Engine loop** `crates/engine/src/engine.rs` | sends in flight, the processing future, the last head, the chain clock | `new`, `run` (four `select_biased!` branches, then a drain), `delayed_process_pending_block` | node (JSON-RPC), monitors, `ToSend`, the cancellation token |
| **Application** `src/main.rs`, `src/app.rs` | the cancellation token, the client stack | start (`StartFails` when a request of it fails), interrupt, choice of the monitor | engine, configuration |
| **Monitors** `crates/engine/src/monitor.rs` | none (`MultiMonitor` keeps the list) | `process_pending_block` of every monitor concurrently; the first error ends all | engine, `ToSend` |
| **Pending block and ToSend** `crates/engine/src/block.rs` | transactions with their logs; the multicalls to send, behind an async mutex | `make_pending_block`, `iter_adjacent_txs`, `front_run`, `back_run`, `add_to_send`, `reduce` | monitors, engine |
| **PancakeMonitor** `crates/monitors/erc20_new` | addresses of router, factory, toaster | per fee level, one multicall before and one behind | `ToSend` |
| **Multicall codec** `crates/contracts/src/multicall` | none | encode and decode commands, groups, tuples, results | engine, contract |
| **Multicall contract** `contracts/lib/multicall`, `contracts/src/MultiCall.sol` | its owner | `multicall`: dispatch, bitmap of successes, nested groups | chain |
| **Toaster contract** `contracts/src/PancakeToaster.sol`, `contracts/lib/pancake_toaster` | token balances | `frontRunSwap`, `frontRunSingleSwap`, `backRunSwapAll` | pairs, multicall contract |
| **AbortSet** `crates/engine/src/abort.rs` | futures by id and their abort handles | `try_insert`, `abort`, `abort_all`, `poll_next` | (no caller at this commit except `with_abort`) |
| **Accounts** `crates/engine/src/accounts.rs` | per account, behind an async mutex: next nonce, last gas price; balances by block | `from_signers`, `find` and its variants, `try_find_wrap_and_send_txs`, `send_txs`, `process_block` | node, Cached (not compiled at this commit) |
| **Cached** `crates/engine/src/cached.rs` | values computed at most once per block | `get_at_or_try_insert_with`, `retain`, `flush` | Accounts (not compiled at this commit) |
| **Timed** `crates/engine/src/timed.rs` | when a future or stream started | measure, report | metrics |
| **Transactions** `crates/engine/src/transactions.rs` | none | conversion of node transactions, their fees | `block.rs` |
| **Providers** `src/providers`, `crates/engine/src/providers` | the transport, a latency histogram | request with a timeout, choice by URL scheme | node |
| **Configuration, metrics, deployment** `src/config.rs`, `sandwitch.toml`, `docker-compose.yaml`, `grafana` | settings | parse | |
| **Old monitor** `crates/monitors/erc20` | | (not a workspace member at this commit) | |

How a head becomes transactions:

```
node --head--> Engine.run --(nothing in flight?)--> process_pending_block
     three reads: count at head, pending count, pending block     (try_join!)
     monitors --add_to_send--> ToSend                             (until deadline - latency)
     ToSend.reduce -> one multicall per fee -> consecutive nonces -> gas estimates
     sign -> send futures -> polled by branch 1 of the loop --eth_sendRawTransaction--> node
```

Everything in the loop runs in one task: there is no parallelism inside the engine, but every
`await` lets the node, the clock and the other branches advance.

## Hard behaviours

- The two nonce reads and the pending block are three requests; blocks are mined in between.
- Sends started for one head are in flight when the next head arrives: processing again would
  read a pending count that lacks them and hand their nonces out twice.
- A processing future is dropped in the middle of an await when a new head arrives.
- A send can time out at the client and be accepted by the node later, even in the next run.
- The loop may end on an error while sends are in flight; they are drained first.
- Several monitors add multicalls between their awaits; `reduce` merges *consecutive* equal fees
  only, and sorts with an unstable sort; nonces follow the resulting order.
- A monitor that fails, or a deadline that passes, must take every partial proposal with it.
- Searches over all accounts at once hold several locks, of which all but one are given up when the
  first account is found, and all of them when the caller is dropped.
- A cached value is forgotten while somebody computes it.
- The bitmap of results is written by Solidity and read by Rust; both must agree on its bits, and on
  what an output is.
- An id that is aborted and inserted again while the old future has not been polled yet.

`PROJECT.json` lists each hazard at its line, with the properties that watch it.

## Modules

Definitions keep the names of the code where there is one; `PROJECT.json` maps each of them to its
lines. Names such as `MayProcess_Always` are deliberate mistakes beside the definition they distort;
no run uses them, they document what each property guards against.

**`Engine`** is one run of the program against one node. `pc` is the branch of `select_biased!` that
is polled next (`sends`, `cancel`, `heads`, `process`), or the phase around the loop (`init`,
`subscribe`, `drain`, `done`); a branch that is not ready hands over to the next. `proc` is the
processing future: the stage it waits in, the answers it already has, the clock of its deadline.
`sends` holds every transaction with its status, from `queued` (a future nobody polled) over `wire`
and `accepted` to `ok` or `lost` (its result was taken). The node is external: `Mine`,
`NodeAccepts`, `NodeRejects`, `Confirm`, `LateArrival`, and its answers to the reads. `Cancel` is the
interrupt, `Crash` a kill, `Restart` the next start, which knows nothing of the runs before.

| code | actions |
|---|---|
| `App::new`, `Engine::new`, subscription | `StartFails`, `New`, `Subscribed`, `SubscribeFails`, `SubscribeAborted` |
| branch 1, results of sends | `EmitSends`, `TakeConfirmed`, `TakeRefused`, `NoSendReady` |
| branch 2, cancellation | `TakeCancel`, `NotCancelled` |
| branch 3, heads | `NewHead` (drops the old future, starts one if nothing is in flight), `NoHead` |
| branch 4, processing | `ProcessTerminated`, `ProcessPending`, `ProcessElapsed`, `ProcessFails`, `SkipForPending`, `StartMonitor`, `ExtractTxs`, `QueueSends`, `DropUnsigned` |
| after the loop | `DrainTake`, `DrainDone` |
| awaited by branch 4 | `Tick`, `AnswerAt`, `AnswerPending`, `AnswerBlock`, `AwaitFails`, `MonitorReturns`, `EstimatesReturn` |

The wallet signs the whole batch before the first send is queued. What signing fails of is the
library's; `ProcessFails` has it (`MayFailToSign`): the run ends with the error and nothing of the
batch is sent.

The wait until three seconds before the deadline, after which the pending block is requested, is one
of the times at which `AnswerBlock` may come.

**`NonceLedger`** is what the engine promises: nonces leave in batches without gaps, each batch
starts above everything handed out before, and only when all of it is mined. `Engine!LedgerSpec`
is the refinement: `used` are the nonces of this run, `settled` the account's count at the node.

**`EngineInvariant`** holds the inductive invariant, **`EngineProofs`** the proofs.

**`PendingBlock`** turns the node's answers into the pending block: the two conversions of a
transaction between the node's form and the program's (`transactions.rs`), and the one pass over the
logs in which every transaction takes its own off the front (`make_pending_block`). The block is a
list of transactions, each with the logs it took; the monitors and `Extract` see nothing else of the
answers. Optional values are sets with at most one element.

**`ToSend`** extends it with what happens between the nonce reads and the estimates, which `Engine`
keeps as the single action `MonitorReturns`:

| code | actions |
|---|---|
| `make_pending_block` | `MakePendingBlock` |
| `PancakeMonitor::process_pending_block`, both multicalls of a level in one call of `add_to_send` | `Surround`, with `Playable` for the swaps `SwapsTracker` keeps |
| a candidate (`CandidateToSend`), which adds in two steps; `first_in_block` | `CandidateFront`, `CandidateBack`, `Lead` |
| `MultiMonitor::try_join`, `timeout_at` | `MonitorReturns`, `MonitorFails`, `Elapse` |
| `extract_txs_to_send` with `ToSend::reduce` (merge runs of one fee, sort by falling fee, ties in any order), `make_tx` | `Extract`, `ExtractPanics` (a pending block without a base fee) |

`Effects` says what the contract makes of a merged transaction when given calls fail; it is the
meaning that `MultiCall` shows the contract to have. **`ToSendProofs`** proves every property of the
run, those of `PendingBlock` included.

**`CallCodec`** takes one call through the encoder to the contract's dispatch, or back through the
Rust decoder, byte by byte, with a small base and short words. There are three `Readers`: a list of
calls keeps the mark of a command, a tuple drops it and has its own at the place of the call, a
`MustCall` or a `MaybeCall` (`from_dyn`). The two lengths that matter are kept
apart (an address is shorter than a word). **`CallCodecProofs`** proves its two invariants for any widths.

**`MultiCall`** executes a multicall in the contract: a stack of frames (a group is a delegatecall
of the contract to itself), `Dispatch`, `DispatchGroup`, `Return`, `Continue`, `Revert`, with the
bits of successes as Solidity writes them and as Rust reads them, and the outputs as the contract
returns them and as Rust decodes them (`Results`, nested, with the errors of the decoder; a revert by
`DecodeReverted`). `Fails` and `Meaning` are the
reference semantics, defined over the program and not over frames: a *place* is the list of indices to
follow through the groups, `Width` and `Depth` bound the programs. **`MultiCallProofs`** has its theorems.

**`AbortSet`** is the set of futures that can be aborted by id: `futs` is the queue, `aborts` the map
of handles. `mode` chooses the queue (ordered or not) and whether futures are spawned as tasks;
`polling` tells `poll_next` apart from its owner's calls, because the set is borrowed while it is
polled. **`AbortSetProofs`** has its theorems. The set has no caller at this commit.

**`Toaster`** is the toaster contract over integers: the amounts of the library with their roundings
and the reverts of checked arithmetic (`Reverted`), and three steps against the pairs of one path,
in any order: `FrontRunSwap`, the other swap `HisSwap` (external) and `BackRunSwapAll`. The real
constants are 9975 of 10000 and words of 256 bits. **`ToasterProofs`** has its theorems.

**`Cached`** is the cache of values by key: `entryAt` is the map, an entry is a number that stays known to
those who looked it up after the map forgot it, `full` says which entries hold a value, and the mutex
of an entry is held exactly by the client that computes its value. `Hit` and `Computed` take a set of
clients that leave in the same step, because a search that got its result drops its other futures.
A client remembers its key and its entry: after `Forget` the map may have another entry for that key.

**`Accounts`** extends `Cached` with the accounts: `ReadCount` reads the two counts of an account at the
start, in either order and with blocks in between; `Begin`, `Look`, `LockAccount`, `ComputeBalance`,
`WrapPanics`, `Passes`, `Fits`, `Fails`, `NotFound`, `Drop` are a search, whose predicate asks for the balance of the
account (the only question the code offers it); `Fits` is the synchronous tail of
`try_find_wrap_and_send_txs`, which numbers the batch under the lock, drops the other locks and hands
the batch to a task of its own (`SendOne`, `SendRefused`, `Sent`); `WrapPanics` is the subtraction from a price of 0
(`accounts.rs:564`); `Block` is the chain and
`TxMined` is `process_block` for one account. A transaction dearer than the last one of its account
gets no nonce from `assign_next_nonce` and is sent all the same, with nonce 0 (`WireNonce`).
`Assigned` describes the numbering of a batch as a whole; that it is what the loop of the code does,
one `alloc_next_nonce` (`Alloc`) after another, is the theorem `BatchIsTheLoop`, which TLC checks in
`MCAccounts` beforehand (`AssignedAssumption`: every batch of up to four prices below four).
**`AccountsProofs`** has the theorems about the cache and the accounts.
Neither file is named by `engine/src/lib.rs` at this commit.

**`Induction`** has what the other proofs need of the natural numbers: induction for sets of numbers, the
function a recursion defines, least and greatest numbers, and the joining of lists.

`MCToSend`, `MCMultiCall`, `MCToaster` and `MCAccounts` give the constants that are not plain values.

## Runs and bounds

| run | instance | shows |
|---|---|---|
| `engine` | 2 runs, 3 blocks, up to 2 transactions a block, 6 nonces; wallet of the owner, of a stranger, none; kills at any moment | `IInv` (which contains that nothing is in flight while a head is processed), `NonceUnique`, `BatchAfterMined`, `NoStaleWork`, `DrainedAtExit`, `CleanRestart`, the refinement of `NonceLedger`. Three blocks allow a batch, a superseded head and a second batch; the second run starts with requests of the first still on their way |
| `engine_liveness` | 1 run, 2 blocks, fairness | `ShutdownCompletes`, `ProcessingEnds`, `SendsSettle` |
| `tosend` | a PancakeMonitor and another monitor; blocks of up to 2 of seven transactions (legacy, access list, dynamic, one without its fees, one without a gas price; swaps with the base token first, in the middle, last or not on the path); two of the blocks also with every list of up to 3 logs, foreign ones and ones out of order included; no base fee, 0 or 3; multicalls of two calls of which the first must not fail | the properties of the list below. Two levels with fees one apart collide (`2 = 1 + 1`), with fees further apart they do not; two monitors give every order of additions to one level, in one step and in two |
| `codec` | bytes of base 2, words of 2 bytes, addresses of 1, up to 2 bytes of data; every call | `ContractAgrees`, `NeverMisread`: a decoded call is the one that was encoded, in a list with its mark; of the mark in a tuple, where the type replaces it, nothing is said |
| `codec_inputs` | as above | *violated*: the decoder calls an input of its own encoder invalid (`utils/buf.rs:17` reads the whole rest as the value) |
| `codec_must` | as above | *violated*: the tuple decoder refuses the calls that must not fail and accepts those that may (`calls.rs:544`) |
| `multicall_nested` | every multicall of up to 2 calls, each maybe a group of up to 2 (`Flat`), and groups within groups within groups, each maybe with a call behind it (`Deep`); every set of failing calls, every sender; `Width` 2, `Depth` 3 | `ExecutesMeaning`, `BlamesTheCulprit`, `ReduceKeepsMeaning` |
| `multicall_outputs` | eight creations, `Width` 8, `Depth` 1 | *violated*: all succeed, and Rust refuses their outputs, which the contract kept in a local (`MultiCall.sol:42`) |
| `multicall_eight` | eight calls that must not fail, `Width` 8, `Depth` 1 | *violated*: all succeed, and Rust reads four failures (`MultiCall.sol:44` marks from bit 3 downwards, `multicall.rs:68` reads from bit 0 upwards) |
| `abortset` | 4 insertions under 2 ids, both queues, in place or spawned | `HandlesWork`, `LostHandles`, `AbortIsFinal`, `OnlyAbortedVanish`. Two futures of one id, with a third inserted while they are queued, need three insertions; the fourth has another id or repeats it |
| `toaster` | paths of 2 to 4 tokens in both orders of addresses, reserves 6 and 20, amounts 2 and 7, a fee of 1 of 4, words up to 32767 | `TypeOK` (the contract never pays more than it has), `MostThePairGives`, `RequiredReached`, `NetLimitKept`, `OnlyInnerHops`. Small numbers are where rounding matters, a fee of a quarter makes it visible, and the squares under the root overflow the words |
| `accounts` | 2 searches over 2 accounts, prices 0, 2 and 3, batches of one in front or of two behind (what a batch of both is numbered like is `AssignedAssumption`, and the theorems are about any), a cache of 3 entries, blocks of up to 2 transactions of each account | `LocksHeld`, `NoncesUnique`, `PricesFall`, `FrontsNumbered`, `AllocatedSent`, `SingleFlight`. Two searches that want the same account, with one account to fall back on, are enough for every pair of lock holders; symmetric in searches and in accounts |

What `tosend` shows, in words: every call is sent exactly once (`CallsConserved`); a lower nonce never
offers less (`NoncesFollowFees`); the multicall in front of a level has a lower nonce than the one
behind it and the fees are strictly above and equal to the level (`SurroundsLevel`); nothing is sent
when a monitor failed or ran out of time (`AllOrNothing`); failing calls, however many, do not undo another
multicall: its calls take effect even when all calls of all others fail (`FailuresIsolated`), and a multicall that was not appended to another stays atomic
(`LeadersAtomic`): one that *was* appended is taken apart by `extend` and is not atomic any more; what
wants to be first in the block has a lower nonce than everything around a level that *with* the base
fee pays less than the block's first transaction, and than what is behind a level that pays as much
(`FirstLeads`): in front of such a level the fees tie, and a level that pays more, as with a base fee
all of them may, is served before it, because the estimator leaves out the base fee that the other
fees contain. The block the monitors see is the one the node described (`BlockFaithful`, about the step
that makes it): the node's transactions in the node's order, each paying by the same fields as much
(a legacy gas price counts as the tip), no log of another transaction and none used up in between;
when the logs are listed in the block's order and none is foreign, every transaction has all of its
own; and an answer with an incomplete transaction makes no block at all.

What `accounts` shows: at an entry of the cache one search computes, none once there is a value, and two
searches compute the balance of one account at once only when the balances were forgotten in between
(`SingleFlight`); then they do. A search that is over holds no lock (`LocksHeld`); a nonce is handed out once and
is none of before the start (`NoncesUnique`), *because* an account with different counts is skipped; of
what is not mined a later nonce never pays more (`PricesFall`); what goes in front of the wrapped
transaction always gets a nonce, although the price was checked before an await (`FrontsNumbered`);
nonces that were handed out are sent although the caller is gone, unless one of the batch was refused
(`AllocatedSent`). Nonce 0 of the dearer transactions is outside these statements; the code does not
say what it meant there.

Deadlock checking is off where the program really stops (`Engine`, `ToSend`, `CallCodec`,
`MultiCall`, `Toaster`, `Accounts`) and on for `AbortSet`.

## Fairness

`Engine!FairSpec`: the task is scheduled (`WF(Task)`: the tokio runtime polls a woken task), time
passes (`WF(Tick)`: the timer of `timeout_at`), and every request has an answer or a timeout
(`WF(SendTimesOut(t))`: `CLIENT_TIMEOUT`, `src/src/app.rs`). Nothing is assumed of the node, of the
stream of heads, of the operator or of the monitors: they may be silent for ever. A branch of the
loop that is not ready hands over to the next one, so weak fairness of the disjunction `Task` is
what the executor gives; no fairness of single branches is needed.

The other modules state safety only.

## Proofs

`EngineProofs` proves, for any number of blocks, transactions, runs and any set of wallets:
`TypeCorrect`, `InductiveInvariant`, `NoncesNeverReused`, `BatchesFollowMining`, `ProcessingIsCurrent`,
`RunsEndDrained`, `RestartsAreClean`, and `ImplementsLedger`, that each step of the engine is a step
or a stutter of `NonceLedger`.

That no nonce is used twice is not inductive. A batch starts at the pending count the node answered,
which is equal to the count at the head; why is everything sent before below it? `IInv` carries the
argument:

1. `ProcXorSend`, `Phases`: while a head is processed nothing is in flight, so every earlier
   transaction of the run was answered "ok" (an error would have ended the loop).
2. `Landed`: what was answered "ok" is in the pool or mined.
3. `GapFree`: between the count at the head a batch was built for and each of its nonces there is no
   hole, hence none in the pool above the node's count either.
4. Therefore the pending count, which is the first nonce neither mined nor pooled, is above every
   transaction of the run (`PendingAboveKnown`), and stays so until the batch is queued
   (`Answered`), because nothing is sent meanwhile.

`Known` extends the argument over restarts: when every send of the earlier runs was confirmed, their
transactions count as known too (`CleanRestart`). A run that was killed, or whose send timed out,
breaks this: its request may reach the node after the next run read its counts. No theorem claims
otherwise, and `CleanRestart` has exactly that premise.

`AbortSetProofs` proves, for any ids and any number of insertions: `TypeCorrect`, `HandlesNeverStale`,
`HandlesReachAll`, `IdsAreUnique`, `NothingElseVanishes`, `AbortsAreFinal`. Its invariant joins
`LostHandles` with `OneLivePerId`: `Take` removes whatever handle the id has now, and that is another
future's only if two futures of the id are queued, which makes the younger one a re-insertion.
`AbortsAreFinal` needs another, `InPlace`: without tasks and without order at most one future has
settled, only while the queue is polled, so that no abort comes between its result and the hand-over.

`AccountsProofs` proves, for any clients, keys and number of entries of the cache: `CacheInvariant`,
`ComputedOnce`. At an entry one client computes (`OneEach`). To say so of a key one needs that an entry is
of one key for the map and for every client (`KeysApart`), for which a new entry must be new
(`EntriesMade`); then two clients that compute for one key do so at two entries, of which the map has
at most one (`ByKey`).

It proves, for any signers, callers, prices and plans: `ImplementsCache` (every step of
`Accounts` is a step of `Cached` or leaves it alone), from which `BalanceComputedOnce` follows without
another induction; `TypeCorrect`; and `NoLockIsLeft`, that `LocksHeld` holds always. The last two use
the type of the cache through the refinement and are inductive together.

It proves, under the same parameters, the other four properties of `Accounts`:
`NoncesHandedOutOnce`, `PricesNeverRise`, `FrontsGetNonces`, `HandedOutIsSent`. None is inductive;
`NonceInv` carries the argument:

1. `Starts`: before the start nothing is sent, so equal counts say that the node holds exactly the
   nonces below `next`. An account that was skipped is never used.
2. `Numbers`: every nonce that was handed out is below `next`, and either mined or no cheaper than
   `last`. `tx_mined` forgets `last` only when the mined nonce reaches `next`, when all of them are
   mined (`NewsMined`: a block tells of mined nonces only).
3. A new batch (`Batches`) starts at `next`, hence above all of these, and its numbered transactions
   pay at most `last`, hence at most what any transaction that is not mined pays.
4. `Held`: between the check of the price and the batch the account is locked, and `last` changes only
   under the lock. So what goes in front, at one price, is numbered from the first to the last.

`BatchIsTheLoop` says that any sequence of states in which every state is `Alloc` of the one before ends in
`Assigned`: by induction on the transactions, with the fact that `last_gas_price` is at most every
price before, numbered or not, which turns the comparison with one price into one with all of them.

`ToSendProofs` proves all nine properties of `ToSend`, for any monitors, blocks, fees and multicalls, in
three parts.

1. The answers: `BlockIsTheNodes` (`BlockFaithful`). A transaction that converts has its fields, and back
   in the node's form it is the one it was (`Converted`). What `LogsLeft` keeps is what `OwnLogs` did not take,
   so the shares of the transactions put together are the start of the logs, by induction on the
   transactions; in a block whose logs are its own and in its order, nothing is left.
2. `NothingByHalves` (`AllOrNothing`). `PlanInv` says of every multicall in front of a level that the one
   behind it is in the list or its monitor is in `half`, and that a monitor in `half` has not returned;
   `Extract` needs all of them returned.
3. What is sent: `SendTypeOK`, `FeesFall` (`NoncesFollowFees`), `LevelsSurrounded` (`SurroundsLevel`),
   `LeadersLead` (`FirstLeads`), `NoCallLost` (`CallsConserved`), `FailuresStayHome`
   (`FailuresIsolated`), `LeadersStayWhole` (`LeadersAtomic`). `SendInv` says what every multicall in the
   list offers for its level (`Offers`), and that the transactions are those of *an* order of the runs
   with falling fees (`Built`): `Sorted` is any such order, that there is one is a lemma, and none of the
   properties depends on which. The maximal runs of one fee divide the list, and what `Merge` makes of
   a run is known item by item: the first multicall as a group that may fail, of the others every call
   by itself. The properties follow from `SendInv` in every state.

`CallCodecProofs` proves `ContractReadsRight` and `DecoderNeverMisreads` for any base, any widths of a word
and a shorter address and any length of data. A word read back is the word that was written
(`BigEndian`, `Number`): its bytes are the remainders of dividing it `WordLen` times, after which nothing
is left. `CodecInv` adds to the two properties that what is on the wire is the command and the input of
the call.

`MultiCallProofs` proves, for programs of any width and depth and any set of failing calls: `FramesNest`,
`MeaningExecuted`, `CulpritBlamed`, `ReduceKept`. First, without any state: what a group means is the union
of what its calls mean if none of them stops it, and nothing otherwise (the definition speaks of places
instead, the fact is proved by taking a place apart at its first index). Then the invariant of the
stack:

1. `StackIn`: every frame executes the group at its place, none of the calls before its next one
   stopped it, and its `undo` is what took effect before the group began.
2. `AnswerIn`: without an answer `effects` is what the calls so far mean (`After`); an answer tells the
   `Outcome` of the call at the next place: success with exactly its meaning added, or a `Culprit`, a call
   that failed and was reached through calls that must not fail, each the first that stops its group,
   with nothing added.

`Return` and `Revert` turn the one into the other one level up, where the frame's `undo` is what makes the
effects of a reverted group disappear. That `DecodeReverted` names the kind of the blamed call is a
downward induction along the place.

`ToasterProofs` proves, for paths of any length, reserves, amounts, fees and words: `NothingOverdrawn`,
`PairsGiveTheMost`, `RequiredIsReached`, `LimitIsKept`, `NoFrontRunAtTheEnds`. Only the first is an induction
over steps: the balances stay natural numbers because the checked subtractions are behind
comparisons. The others are arithmetic that holds in every well-typed state: a rounded quotient is the
greatest number whose product fits, the root is the greatest number whose square fits, the multiplication
by a positive number keeps the order. `LimitIsKept` sets the pair's fee on our own input aside; with it
the other swap may get less than it must, and nothing is claimed. `RequiredIsReached` is an induction along the path, from the
statement for one pair: the input that is rounded up gives at least the output.

Some of these proofs are inductions over data, which the provers cannot take from the library, because its
theorem has an operator as a parameter. `Induction!SetInduction` says the same of a *set* of numbers and
follows from the numbers being well founded. The recursive definitions are therefore functions with
numbers as their domain; a `RECURSIVE` operator could not be used.

The theorems rest on the named assumptions of the modules (`BoundsAssumption`, `WalletAssumption`,
`InsertsAssumption`, `EntriesAssumption`, `CacheAssumption`, `NobodyAssumption`, `MonitorsAssumption`,
`WidthAssumption`, `FeeAssumption`, `NumbersAssumption`, `ProgramsAssumption` and the like), which only
say that bounds, reserves and amounts are natural numbers, that fees are options of naturals, that prices
are naturals and plans pairs of naturals, that a fee is at most the whole, that an address is shorter
than a word, that programs are calls and groups within the bounds, that an owner is a wallet and nobody
is not a caller, and that the clients of the cache are the futures of the searches.

Only model-checked: liveness (`ShutdownCompletes`, `ProcessingEnds`, `SendsSettle`), because fairness and
`ENABLED` are beyond the prover, and the four violations. Every invariant and every action property of
the passing runs is a theorem.

## Assumptions

- The node is consistent: a read answers from its state at the time of the answer, and its pending
  count is what is mined plus every pooled nonce that follows without a gap.
- No reorganisation of the chain and no eviction from the pool.
- Only this program signs with the wallet of the engine and with the keys of the accounts.
- Heads arrive in order; some may be skipped, which also stands for heads a slow loop never polls.
- The node may accept the queued sends in any order: the order in which the futures are first
  polled is not relied on.
- `Owner` is a parameter. The code at this commit compares the wallet with `Address::zero()`
  (`crates/engine/src/engine.rs:81`, with a TODO to ask the contract), so there every configured
  wallet is refused; the model covers that case (a stranger) and the intended one.
- The end of the stream of heads does not end the run: the cancellation branch stays pending, so
  `select_biased!` never completes. The model has the stream silent for ever instead, which the loop
  cannot tell apart.

- The build is the one without the feature `legacy`.
- A panic of the processing (`ExtractPanics`: no base fee) ends the task; nothing after it is modelled. A
  panic of a search (`WrapPanics`) drops its futures; the other searches go on. A wrapped transaction
  has a gas price (`accounts.rs:560` panics without one, before any account is looked at).
- ABI encoding is ethers' and is trusted; `CallCodec` models the packed encoding the crate does itself.

## Not modelled

- Of **Accounts**: searches that hand the lock of an account to their caller (`find_locked` and its
  variants) and `LockedAccount::send_tx`, a batch of one. Of **Cached**: `map`, `then` and the flush of a
  single entry. All of them are without a caller.
- Of **AbortSet**: dropping a whole set, and the gauge of `MetricedFuturesQueue`.
- Of the **multicall codec**: the ABI of a nested group and of typed contract calls, which is a library's.
- Of the **application**: reading the settings, building the client from them, the choice of the monitor.
- **Timed**, **Latency**, metrics: measurements no decision depends on. The latency that shortens the
  monitors' deadline is the first step of `proc.clock`.
- **Providers** other than the timeout, **configuration**: delegation and parsing without state.
- **Old monitor** `crates/monitors/erc20`: not a member of the workspace.
- Logs of pending transactions are in `PendingBlock`, although the engine's request for them is
  commented out (`engine.rs:278`) and it passes none at this commit.
- The arguments of the toaster's calls: `ToSend` knows how many calls there are, `Toaster` what they do.
- Gas limits, balances and values: no decision of the engine reads them.
- Reorganisations and eviction from the pool (see the assumptions).

## Without an explanation in the code

The models do what the code does in these places; nothing in the repository says what was meant, so
no property is stated and nothing is claimed:

- A level without any swap to play with still adds its two empty multicalls, which become transactions
  (`erc20_new/src/lib.rs:118`), and the call behind a level names the tokens in the same direction as the
  one in front of it (`lib.rs:95`).
- A swap names no pairs (`erc20_new/src/swap.rs:18`), so no two swaps of a level count as dependent, and
  events are counted per pool, a `Sync` and a `Swap` as two, without deciding anything (`lib.rs:229`).
- The fee around a level contains the base fee and is used as a tip again (`block.rs:303`); the gas price
  of a legacy transaction is taken for a tip (`transactions.rs:90`).
- The reader of `Create2` looks for the command `CreateValue` (`calls.rs:480`); the exact-length reads
  before it refuse every such input, so it does not show.
- The toaster reads the sender's balance and pays out of its own (`PancakeToaster.sol:114`).
- A transaction dearer than the last one of its account is sent without a nonce (`accounts.rs:337`).
- A pending count that is older than the count at the head ends the run (`engine.rs:236`).

## Plan

What could still be added, in this order:

1. **Engine with reorganisations and eviction**, as a second node module: which of the theorems survive.
2. Proofs: that `Engine` with `ToSend` in the place of `MonitorReturns` still implements `NonceLedger`; that
   `Effects` of `ToSend` is `Meaning` of `MultiCall` for the transactions `Extract` makes.
3. Three monitors, and blocks of three transactions in `ToSend`: beyond what TLC does in minutes with
   the present set of transactions.
4. A composition of `Engine` with `ToSend`, in which the estimates of several heads meet the lists of
   several blocks; the present split is justified by the list being made anew for every block.
