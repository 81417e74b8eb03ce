# A formal model of the wallet core of mousewallet-ios-sdk

The repository is an iOS wallet SDK.  Most coins are thin wrappers around a
web service; the program's own logic is its Litecoin wallet: a fork of
loafwallet-core, an SPV ("simple payment verification") client in C
(`src/Libraries/loafwallet-core`), and the Swift code that stores its data and
replicates its settings (`src/Sources/Coins/Litecoin`).  This directory models
that core in TLA+, checks the models with TLC on small instances, and proves
with TLAPS theorems about them for every instance.

Contents: [inventory](#inventory) · [modules](#modules) ·
[wallet](#the-wallet) · [its table](#the-wallets-table) · [chain](#the-block-chain) · [publishing](#publishing) ·
[filters](#filters-and-the-download) · [connections](#connections) ·
[store](#the-key-value-store) · [hash set](#the-hash-set) · [runs](#runs) · [proofs](#proofs) ·
[departures](#departures-of-the-code-from-its-comments) · [not modelled](#not-modelled)

## Inventory

Status says how much is modelled now.  `PROJECT.json` lists the same parts
with their files, and under `hazards` what is hard to test in each, by line.

| Part | State it keeps | Operations | Status |
| --- | --- | --- | --- |
| **Wallet** `BRWallet.c` | the transactions it can look up, the ordered list of its own, unspent outputs, balance and its history, invalid and pending sets, two address chains; one lock | register, remove, update, unconfirm after a reorganisation, ask for addresses, create and sign a transaction, queries | partly |
| **Peer manager** `BRPeerManager.c` | blocks, orphans, checkpoints, `lastBlock`, connected peers, download peer, bloom filter, relay and request lists, published transactions; one lock | handlers of everything a peer sends; connect, disconnect, rescan, publish | partly |
| **Peer connection** `BRPeer.c` | socket, handshake flags, ping callbacks, mempool callback, disconnect time, the merkle block being completed | connect, send, parse and dispatch messages, schedule a disconnect | partly |
| **Block headers** `BRMerkleBlock.c` | none | partial merkle tree walk, difficulty check | no |
| **Hash set** `BRSet.c` | open-addressing table | add, remove, clear, get, count, union, minus, intersect | modelled |
| **Bloom filter** `BRBloomFilter.c` | bits | insert, contains | no: probabilistic; its staleness is in `FilterSync` |
| **Keys, addresses, serialization** | none | functions of bytes | no: no state, no concurrency |
| **Wallet manager** `WalletManager.swift`, `BRCore.swift` | the SQLite store, a serial queue, the C objects | store what the callbacks tell, load it at start | partly: transactions and blocks |
| **Replicated key value store** `BRReplicatedKVStore.swift` | versions of each key, the remote version last seen, `syncRunning` | get, set, delete, sync one key, sync all | partly |
| **HTTP server, web socket, API client** | connections | I/O for an embedded web view, web requests | no: I/O and framing |
| **Other coins, facade, cryptography, vendored libraries** | none between calls | forwarding, library code | no |

How they interact.  Every peer has a thread that reads its socket and calls the
peer manager's handlers; each takes the manager's lock.  Handlers call the
wallet, which has a lock of its own and releases it between the parts of one
operation.  So wallet writers are serialized by the manager's lock, while
readers, the user asking for an address, and whoever is inside a callback see
the wallet in between.  Callbacks (`balanceChanged`, `txAdded`, `txUpdated`,
`txDeleted`, `saveBlocks`, `savePeers`) go to Swift, which copies pointers and
does the work later on a serial dispatch queue.  At the next start the chain and
the wallet are rebuilt from what reached the database.

What makes it hard, and the property that answers it:

* one change moves a transaction in a list whose order four other loops rely on
  to stop early: `OldestFirst`, `LedgerSpec`;
* memory is freed by one operation while another structure may list it:
  `NoDangling`, `ForksMeet`, `WaitingOwned`;
* totals are kept by incremental unsigned arithmetic: `NoUnderflow`,
  `BalanceIsUtxos`, `TotalsAgree`;
* conflicting transactions arrive, confirm and vanish in any order:
  `ConflictFree`;
* a removal recurses between unlocked sections: `RemovalEnds`;
* competing blocks from several peers, orphans and reorganisations: `BestChain`,
  `OrphansWait`, and the refinement of an abstract client, `ClientSpec`;
* what is stored lags behind what is held, and a restart begins from it:
  `StoreAgrees`, `NeverRefused`, `DiskFromTransition`, `Verifiable`;
* a rescan goes back over a chain that is still there, and blocks too far ahead are
  put off: `MainConfirmed`, `NextNotWaiting`;
* a peer is asked, given up, asked again, while pings, timers and the end of the
  connection call back in any order: `AnswersTrue`, `PublicationKept`,
  `RelaysConnected`, `AnsweredOutsideSync`;
* the peer sends only what a filter matches that may be out of date when it is
  used: `FoundUnlessOvertaken`, `SyncEnds`;
* sockets are closed from any thread, and their numbers given out again:
  `DescriptorsAccounted`, `ConnectionStops`;
* the table under the sets of all this moves items when one is removed:
  `SetSpec`;
* local writes, remote writes and two overlapping syncs of one key, and errors that
  are thrown where nobody hears of them: `RecordedAgrees`, `SuccessMeansSame`,
  `NewerKept`, `SyncEnds`.

## Modules

| Module | What it is |
| --- | --- |
| `BRWallet` | the wallet, one action per critical section, callback or loop iteration |
| `WalletLedger` | what a wallet promises about the transactions it holds |
| `MCBRWallet` | instances of `BRWallet` for TLC |
| `WalletStore`, `MCWalletStore` | the wallet with the table of its transactions, and restarts |
| `BRWalletProofs` | the wallet: types, the inductive invariant, the refinement, the recount's books, gaps of addresses |
| `WalletStoreProofs` | table, listener and wallet agree; what a restart leaves of books and addresses |
| `PeerManagerChain` | how the peer manager follows the block chain, with saves and restart |
| `LightClient` | what following a chain promises, without peers, orphans or memory |
| `MCPeerManagerChain` | instances of `PeerManagerChain` for TLC |
| `PeerManagerChainProofs` | ancestors, types, what is stored, saved, confirmed and kept as orphans, the refinement |
| `PeerManagerPublish` | publishing, requesting and relaying transactions; pings, timers, answers |
| `Publication` | what publishing promises the application |
| `PeerManagerPublishProofs` | the peer manager keeps the promise, which is enough; who counts as relaying; types |
| `MCPeerManagerPublish` | instances of `PeerManagerPublish` for TLC |
| `FilterSync` | bloom filters and the download of blocks with one peer |
| `FilterHistory`, `MCFilterSync` | the same with the blocks that a filter has overtaken, and instances for TLC |
| `FilterSyncProofs` | types of the download, and that its payments are found |
| `PeerSocket`, `MCPeerSocket` | threads, sockets, connecting and disconnecting |
| `PeerSocketProofs` | every descriptor is accounted for |
| `ReplicatedStore`, `MCReplicatedStore` | the replicated key value store |
| `ReplicatedStoreProofs` | rows and objects agree, and syncs replace nothing newer |
| `BRSet`, `MCBRSet` | the hash table |
| `ItemSet` | what the hash table promises |
| `Extrema` | least and greatest elements, the positions of a part of a sequence, for the proofs |

Wallet and chain meet in three calls: the chain confirms transactions
(`BRWalletUpdateTransactions`), takes confirmations back
(`BRWalletSetTxUnconfirmedAfter`) and asks for addresses when it loads a filter
(`BRWalletUnusedAddrs`).  `BRWallet` has each as an action whose parameters are
any a chain may pass (`ChainAccepts`, `Heights`); `PeerManagerChain` has the
wallet as one height per transaction, `conf`, which is what `WalletLedger`
says a wallet is.

The peer manager is one C struct under one lock, and four modules, each of which
keeps what its questions need and lets the rest happen at any time.
`PeerManagerChain` has peers that relay any block; `PeerManagerPublish` has
blocks as `behind` (is the chain behind the peers?); `FilterSync` has one
peer and a chain without forks, but the messages and the addresses;
`PeerSocket` has nothing of what messages say, but every step on a socket.  Where
two of them have the same variable (`downloadPeer`, `connectFailureCount`,
`bloomFilter`) each has all the code that changes it, or a choice wider than it.

## The wallet

Transactions are model values.  `Body` gives the immutable part of each: inputs,
outputs with addresses and amounts, the class of its lowest sequence number, its
lock time, whether it is too big.  An address is a chain and an index: the two
chains are derived in order, so how far each has been generated (`chainLen`)
says which addresses are the wallet's.

| State | Code |
| --- | --- |
| `allTx`, `transactions` | `wallet->allTx`, `wallet->transactions` |
| `height`, `timestamp` | fields of each `BRTransaction` |
| `blockHeight`, `balance`, `totalSent`, `totalReceived`, `utxos`, `balanceHist`, `spentOutputs`, `invalidTx`, `pendingTx`, `usedAddrs` | the fields of `BRWalletStruct` of the same names |
| `chainLen` | `array_count` of `internalChain` and `externalChain`, and what `allAddrs` contains |
| `scan`, `upd` | locals of `_BRWalletUpdateBalance` and `BRWalletUpdateTransactions` |
| `todo` | what is left of the operation in progress: one frame for each critical section, callback, or iteration of a loop inside a critical section |
| `told` | what the callbacks have told the listener |

An operation starts when `todo` is empty and pushes its frames; `Work` takes the
top one.  While `LockHeld`, no step of another thread that needs the wallet's
lock happens.  Between two frames that are separate critical sections the user
may ask for an address (`NextAddress`) and the clock may tick.
`BRWalletRemoveTransaction` is recursive with an unlock before each recursive
call: the recursion is frames on `todo`.

Assumed of the environment, each a named operator.  `ChainAccepts`: a
transaction is in one block of a chain, nothing else of that chain spends the
same, and, unless `OutOfOrder`, it comes after what it spends.  `Relayable`:
peers relay a transaction after what it spends, unless `OutOfOrder`.  All
transactions a block brings were registered before it (a peer sends them before
the next message; `_BRPeerManagerUpdateTx` ignores hashes the wallet does not
know).  `OutOfOrder = TRUE` is the case of a rescan that finds what an
incomplete filter had missed, or a reorganisation that confirms from the tip
down; the properties that do not survive it are proved and checked for `FALSE`
(see [departures](#departures-of-the-code-from-its-comments) for what happens
otherwise).

Left out: creating, signing and freeing transactions, fee queries.

## The wallet's table

`WalletStore` composes the wallet with what `WalletManager.swift` makes of its
callbacks.  A step of the wallet that does a callback's frame puts a job on
`queue`; jobs run in order, one action each, or one for each row where SQLite
commits each row by itself.  `Restart` may happen between any two steps, also in
the middle of an operation: memory and queue are gone, `BRWalletNew` takes over
the rows (`LoadTx`), generates addresses (`Loaded`), recounts (`Recounts`) and
looks at the first row (`Accepted`, `Refused`).

| State | Code |
| --- | --- |
| `table` | the rows of `ZBRTXMETADATAENTITY`: transaction, height, timestamp |
| `queue` | the blocks dispatched to `walletQueue`, a serial queue |
| `phase`, `rows` | how far `BRWalletNew` is, and `transactions` from index `i` on |

`StoreAgrees`: when nothing is under way, table, listener and wallet have the same
transactions at the same heights.  `OwnListed`: what a block confirms and the wallet
lists, the wallet still takes for its own, or it would free it while it is listed
(`BRWallet.c:962`).  It is the premise of a theorem and no property: it fails, since a
restart generates fewer addresses than a filter had (departures).  Assumed: `txAdded`'s job, which reads the
transaction through a pointer, runs before the wallet frees it, and transactions are
signed.  After `Refused` the application begins with an empty database.  Failing
SQL statements are not modelled.

## The block chain

Blocks are the nodes of a constant tree (`Parent`, `Height`, `Lineage`), so a
hash never needs computing; the difficulty interval is a small constant instead
of 2016.  Each branch of `_peerRelayedBlock` is an action: `Ignore` (no
filter), `Orphan`, `Invalid`, `ExtendMain`, `Existing`, `MinedDuringRescan`,
`OldFork`, `Fork`, `Reorganise`; their guards are the chain of `else if`.
Verification is part of the action, with the freeing of old blocks that it does
on the way, also when the block is then refused.

| State | Code |
| --- | --- |
| `blocks`, `orphans`, `lastBlock`, `estimatedHeight`, `downloadPeer` | fields of `BRPeerManagerStruct` |
| `bloomFilter` | `manager->bloomFilter` is not NULL |
| `connected`, `claim` | the handshake of a peer is done; `BRPeerLastBlock` |
| `conf` | the height of each transaction in the wallet |
| `thread` | what a peer's thread has left to do after unlocking: call `saveBlocks`, then handle the orphan that found its parent |
| `queue`, `disk` | the application's dispatch queue and its table of blocks |

A save carries the set of blocks it points to and which of those structs were
freed since (`freed`); `Reused` says whether freed memory may have been
overwritten when it is read.

A peer may relay any block at any time, more often than once: this
over-approximates correct peers and all of `getblocks` and `getheaders`, so
requests, and `lastOrphan`, which only decides whether to send one, are not
modelled.  A fork longer than the difficulty interval is not in the instances:
where it joins would have been freed.  The code ends the process (a NULL
dereference) where a walk back runs out of blocks in `Existing` and
`Reorganise`; there the action is disabled, and `Restart` may follow.
`ForksMeet` says that this does not happen to a fork that wins, without restarts:
after one, only the last transition and its successors are there.  At the end of the
download the other peers get a new filter, which frees the orphans: `LeftByMempools`.  Headers from
before the wallet's birth are blocks without transactions.  Failing SQL
statements are not modelled.

## Publishing

`PeerManagerPublish` has a handler of the peer manager as one action: each holds
the manager's lock from beginning to end.  The exception is
`BRPeerManagerPublishTx`, which releases it to ask whether the network is
reachable: `PublishTx` admits, `Offer` lists and sends.

| State | Code |
| --- | --- |
| `tx[t].listed`, `.call` | `publishedTx`, `publishedTxHashes`; the callback given with `t` and what it was told |
| `tx[t].shared`, `.freed` | the struct listed is the one the wallet holds, and the wallet has freed it |
| `tx[t].held`, `.confirmed`, `.valid` | what the wallet says of `t` |
| `tx[t].relays`, `.requests` | `txRelays`, `txRequests` |
| `peer[p].link` | where the connection is between `BRPeerNew` and the end of its thread; `"leaving"` is a thread that has only to call `BRPeerManagerConnect` |
| `peer[p].out` | messages the peer has not answered and the pings whose callbacks are waiting |
| `peer[p].timer`, `.closing`, `.synced`, `.known`, `.sentMempool`, `.mempoolDone` | `disconnectTime`, a closed socket, `PEER_FLAG_SYNCED`, `knownTxHashes`, `sentMempool`, `mempoolCallback` |
| `download`, `failures`, `syncing` | `downloadPeer` (and `isConnected`), `connectFailureCount`, `syncStartHeight > 0` |
| `network` | what peers have been given: any of them may announce it, or not |

A peer answers messages in order; a thread that ends drops them and calls every
callback of a ping with 0 (`Drain`; `Pings` are what is left) before `Disconnected`.  One timer per peer
serves the connection, the sync and every publication; `Timeout` is always
possible while it is set, so the model does not tell whose it was, as the
code does not.  `Publication` is the promise: one answer, `ok` only of what a
peer was given, and nothing given to anybody after `ENOTCONN` or `ETIMEDOUT`.
The mapping takes a transaction that is admitted but not listed as waiting.

Left out: the choice of the peer's flags and ping times (any peer may be the
best), fee filters, peers that do not follow the protocol other than by silence,
rejection and false announcements.  All peers claim one height.

## Filters and the download

`FilterSync` is about one hazard of SPV clients: the filter has the addresses
derived so far, every payment found derives more, and blocks already sent were
matched without them.  It has the download peer's connection message by message
(`filterload`, `getblocks`, `getdata`, `mempool`, `ping` one way, `inv`, `tx`,
`merkleblock`, `pong` the other), in order as TCP gives them.  The peer answers a
`getdata` one item at a time, each block with the filter it has by then.

| State | Code |
| --- | --- |
| `lastBlock`, `estimatedHeight`, `orphans`, `lastOrphan` | the fields of the manager, blocks as heights |
| `bloomFilter` | how many addresses `manager->bloomFilter` has, 0 for NULL |
| `generated`, `wallet`, `confirmed` | the wallet's addresses; transactions registered, and with a height |
| `conn.needs` | `needsFilterUpdate` of the peer and `PEER_FLAG_NEEDSUPDATE` |
| `conn.blocks`, `.known`, `.lastHash`, `.current` | `knownBlockHashes`, `knownTxHashes`, `lastBlockHash`, `currentBlock` with `currentBlockTxHashes` |
| `conn.out`, `wire`, `conn.filter` | both directions of the connection, and the peer's copy of the filter |

Each `accept` function of `BRPeer.c` with the handler of the manager it calls is
one action.  A filter replacement is the code's chain of callbacks:
`UpdateFilter` (ping, so that what was asked for has come), `UpdateFilterPingDone`
(new filter, ping), `UpdateFilterLoadDone` (ask again from `lastBlock`, ping),
`UpdateFilterRerequestDone` (go on).  False positives are a choice: the filter may be
found degraded wherever the code looks.  `PaymentsFound` is the property that
matters: whatever block the chain has reached, every payment up to it is known.  It
fails: at the end of the chain `Connects` replaces a degraded filter at once
(`BRPeerManager.c:719`, `720`), and blocks asked for before then arrive without
what only the new one covers (departures).  So it is not among the properties checked.
`FilterHistory` keeps the blocks that this has overtaken, in a variable of its own that
nothing else reads, and `FoundUnlessOvertaken` says that no other way to replace a
filter, drop a block or lose a connection loses a payment.

Faults: the peer may leave a transaction out, stop answering, or the connection
end, `MaxSessions` times; blocks and payments appear while the download runs.
Left out: headers (there is no key before `Begin`), forks, rescans and other
peers, which `PeerManagerChain` has.

## Connections

`PeerSocket` has no messages.  Each step of a connection's thread that reads or
writes `ctx->socket` without the lock, or opens or closes a descriptor, is an
action, and so is each step of `BRPeerDisconnect`, which runs under the manager's
lock on whatever thread calls it.  `file` is the process's table of descriptors: a
closed one is given out again, lowest first.  So a thread that reads the socket,
is closed by another, and goes on to use the number finds somebody else's
connection there, as in the program.

| State | Code |
| --- | --- |
| `peer[p].link` | in `connectedPeers`, or freed by `_peerDisconnected` |
| `peer[p].status`, `.waiting`, `.socket` | `status`, `waitingForNetwork`, `socket` of `BRPeerContext` |
| `peer[p].pc`, `.held` | where `_peerThreadRoutine` is, and its local copy of the socket |
| `peer[p].ipv4` | the second attempt of `_BRPeerOpenSocket` |
| `peer[p].again` | `willReconnect` |
| `call` | the `BRPeerDisconnect` in progress |
| `app` | whether the application is in `BRPeerManagerDisconnect` or between the two halves of a rescan |

Creating a thread may fail, the network may be unreachable, and a read may fail
at any time.  A connection is one element of `Peer` and is used once.

## The key value store

`ReplicatedStore` has a database transaction, a request that arrives, an answer
and a callback each as an action.  The server is external, modelled from how
`BRAPIClient+KV.swift` asks: a version is a precondition, and the time of a HEAD
has whole seconds.

| State | Code |
| --- | --- |
| `rows[k]` | the newest row of `k` in the table: version, remote version, content, time; `written` is a ghost, when the content was given |
| `server[k]` | the remote object |
| `running` | `syncRunning` |
| `call[c]` | a call of `syncKey` or `syncAllKeys`: the list it got, keys not begun, whether something failed |
| `job[c][k]` | what `_syncKey` of `k` waits for: one step per request and per transaction |
| `disturbed` | a ghost: the calls and keys that somebody else wrote meanwhile |

`syncRunning` is read and set in two steps, so that calls on two threads may both
begin.  Another device writes (`Elsewhere`), also what this one cannot decrypt;
a request is lost before or after it arrived; the process ends at any moment
(`Restart`), when requests on their way may still arrive.  The database may fail in
every transaction of a sync (`RollBack`), before `_syncKey` has asked for anything
(`Unreadable`, which is also a value of our own that cannot be decrypted), and where
the keys of the table are listed (`LoseList`).  What `_syncKey` throws (`Thrown`),
`syncAllKeys` counts as a failure; `syncKey` drops it (`BRReplicatedKVStore.swift:553`)
and with it the handler that resets `syncRunning`: the call is then `"dropped"`.
`SyncEnds` says that this is the only way for the flag to stay set.

Left out: the table's migration, reading old versions, what encryption does, and
SQL errors of the application's own calls, which it is told of and which change nothing.

## The hash set

`BRSet` is the hash table in which wallet and peer manager keep what they look
up; the other modules take it for a set.  `set[s]` is the `BRSetStruct` of a set,
its buckets and the count of its items; `ret` is what the last call returned.  An
item has a key, by which `eq` compares, and a key a hash; the rest of an item does
not matter.  Each function of `BRSet.h` is an action, since callers hold a lock of
their own, and does all that the function does: `Added` makes the table larger
when it is over its limit, `Removed` puts the items behind the freed bucket in
again one by one, each of which might make the table larger, and `Common` goes on
from a bucket whose item it has just replaced.  `SetSpec` is the refinement of
`ItemSet`, with the items that the table lists for members: every call returns
what it returns of a set.  A search that finds neither the item nor a free bucket
would go round for ever; it has no value in the model, so the run also shows that
none does.

## Runs

All finish within three minutes.

| Run | Question | Instance |
| --- | --- | --- |
| `wallet_tree` | Through registration, confirmation, reorganisation and removal: do list, lookups, conflicts and history agree, do amounts stay unsigned, and does the wallet implement the ledger, which takes out dependants first? `TypeOK`, `OldestFirst`, `NoDangling`, `ConflictFree`, `HistoryComplete`, `NoUnderflow`, `LedgerSpec` | 4 transactions, 3 of them a tree and 1 in conflict, 2 heights |
| `wallet_wait` | With replaceable and locked transactions, confirmed in any order, while the clock moves: do balance, totals and unspent outputs agree? Is the gap of addresses full when the listener hears of a payment? Does every removal end? `TotalsAgree`, `BalanceIsUtxos`, `GapFull`, `RemovalEnds` | 3 transactions in a row, 2 heights, `OutOfOrder` |
| `wallet_store` | With jobs that wait and a restart between any two steps: do table, listener and wallet agree once all jobs have run? `StoreAgrees` | 2 transactions, 1 height, 2 jobs on the queue, filter 1 beyond the gap; one of them pays the first address beyond the gap |
| `chain_forks` | With two peers relaying a chain and a longer fork in every order: is the highest stored chain followed, no orphan left behind, the join found, and are confirmations those of the abstract client? `TypeOK`, `BestChain`, `OrphansWait`, `ForksMeet`, `ClientSpec` | 8 blocks, interval 2, 2 peers, peers symmetric |
| `chain_restart` | With old blocks freed, a longer fork, blocks that contradict a checkpoint or fork off before one or are too far ahead, a rescan and a restart at any moment: is what is saved complete; until a rescan, can the chain be verified on and is the next block taken; until a restart, is all the chain brought confirmed? `DiskFromTransition`, `Verifiable`, `NextNotWaiting`, `MainConfirmed` | 10 blocks, 6 of them a chain over two transitions above the first block, interval 2, 2 checkpoints, transactions below the join and in both branches; 1 peer, 1 rescan, 1 restart |
| `publish_peers` | With two peers that connect, refuse, ask, relay, reject, stall and disconnect while the chain catches up: does a publication that waits belong to its caller, and do only connected peers count as relaying? `TypeOK`, `WaitingOwned`, `RelaysConnected` | 2 symmetric peers, 1 transaction, 3 connections |
| `publish_chain` | With a payment and one that spends its change: one answer each, a true one, and in time when there is no sync? `AnswersTrue`, `PublicationKept`, `AnsweredOutsideSync` | 1 peer, 2 transactions, 3 connections |
| `filter_restore` | When a wallet is restored, are all payments found, although each uses up addresses, but those behind a block that a filter has overtaken, and does the download end? `TypeOK`, `FoundUnlessOvertaken`, `SyncEnds` | 4 blocks, 2 of them new; 4 payments, the last in the reach only of a filter built when the second is known, so that some are really missed; 1 fault |
| `peer_socket` | Are descriptors neither leaked nor confused so that a connection goes on? `TypeOK`, `DescriptorsAccounted`, `ConnectionStops` | 2 connections, 2 descriptors |
| `kv_sync` | Do version, content and the sync's report agree when syncs overlap with each other, with writes, other devices and a restart? `TypeOK`, `RecordedAgrees`, `SuccessMeansSame`, `NewerKept`, `SyncEnds` | 1 key, 2 calls, 2 local writes, 1 of another device, 1 restart |
| `hash_set` | Do two hash tables behave as sets of items? `SetSpec` | 4 keys, one of them of two items, colliding in tables of 3 and 7 buckets; up to 4 items in one table and 2 in the other |
| `not_never_refused` | Does a wallet accept what it has stored? It does not: `NeverRefused` fails | as `wallet_store`, 1 job on the queue |

`not_never_refused` is a finding (`PROJECT.json` quotes the lines): a wallet restored
from its phrase meets it when its first payment went to an address beyond the gap
limit, which the filter covers.  The next start refuses the wallet and, outside Debug
builds, removes its database.

Where the code does not keep a property in some states, the property says in which it
is claimed, and the [departures](#departures-of-the-code-from-its-comments) say what happens in
the others and how to see it on the same instance.  `StoreAgrees` is not claimed for every
instance: in `wallet_store` no row but the first is out of the reach of a new start.
`DiskFromTransition` is claimed for `Reused = FALSE`.

Why the bounds are enough.  The wallet's loops compare transactions in pairs and
follow inputs; three transactions have every pattern of a pair (conflict,
dependence, both) with a third to come between, four have a dependant of a
dependant that also depends directly, which is what makes the recursion look a
transaction up twice, and one in conflict beside it.  Two heights tell "above the
join" from "below".  In the chain the interval is the only distance that matters: the instances have a fork
that crosses a transition, a transition above the last checkpoint, and blocks
before and after each.  `MaxQueue = 1` is enough for a save to wait while
blocks are freed.  `MaxRescans`, `MaxRestarts` and `MaxNow` bound counters
that only bound the run.  `chain_restart` has a chain of two intervals, the shortest
in which a transition frees blocks, blocks that are put off and taken again, and a
transition above the join of the fork that frees one below it, which a rescan goes back
over.  In `WalletStore` restarts are not bounded; two
transactions and two jobs let a row be inserted, updated, deleted and inserted again
with another job behind it, and one of the two pays an address past the gap.

Publishing has two peers where they matter to each other (the download peer is
left out of an offer, one fails while another relays) and two transactions where
those do (a parent is listed with its child, and removed with it); three
connections let a peer end and come back while the other stays.  In `FilterSync`
one more payment than the filter has spare addresses is enough to outrun it: the first
payment does so in the blocks there are, one is announced before it is mined, and two
blocks are new when the filter is replaced at the end.  The last payment of theirs is beyond
the reach of the old filter, but not of the new, so that it can be missed: `PaymentsFound`
fails on the instance.  Two descriptors are the fewest that let
one be given out again while the other is in use; with two connections a
descriptor may pass from one to the other and back.  Keys of the store never
meet except in the count of a sync of all, which the overlap of two calls already
makes uneven.  Four keys are enough for two pairs that collide, both of which go
round the end of the table, and for a table of 3 buckets to be replaced; the next
size would need seven.  The server's clock has two ticks of the local one to a second
(`Resolution = 2`), and the instance has the two times of one second, so that times
tie, and a HEAD shows a time before the object's.

Fairness.  `WF_vars(Work)` in the wallet: the thread inside an operation keeps
running; nothing is assumed of peers.  The chain has no liveness property.  In
`PeerManagerPublish` only `WF_vars(Thread(p))`: a thread runs, and a timer that is
set runs out; nothing is assumed of what peers answer.  In `FilterSync` the
manager connects, a stalled download times out, and the peer answers what it is
asked: `SyncEnds` is about a peer that does, between the faults.  In
`PeerSocket` calls go on and each thread has strong fairness, since the lock it
needs may be taken and released by others for ever (a mutex that starves nobody).
In `ReplicatedStore` dispatched blocks run and every request is answered or times
out.

`CHECK_DEADLOCK` is on for wallet, its table, chain and hash set: peers may always relay a block
again, and the clock or a reorganisation is always possible in the wallet.  It is off
for the other modules: there the system may really stop, when the bound on
connections, sessions, calls or writes is used up and nothing is left to answer.

## Proofs

Proved by TLAPS for every value of the constants that the named assumptions
allow (`TxAssumption`, `HeightAssumption`, `LimitAssumption`; in the chain
`BlockAssumption`, `CheckpointAssumption`, `TxAssumption` and `BoundAssumption`; in
the key value store `StoreAssumption`, of connections `SocketAssumption`), without
bound on transactions, heights, blocks, peers, descriptors or keys:

* `TypeCorrect` (`BRWalletProofs`).  Types are inductive with the length of the
  scan's position.  The work is in the operators: insertion and removal return
  sequences of the list's transactions, the search in `GrownLen` finds a length
  because finitely many indexes are used.
* `OldestFirstHolds`, `NoDanglingHolds`, `ParentsFirstHolds`,
  `DependantsFirstHolds`, `LedgerImplemented` (the same module), all under
  `~ OutOfOrder`.  The inductive invariant `SafeInv` is `TypeInv`, `ListInv`,
  `RemoveFrames` and `SetFrames`.
  `ListInv` joins what the theorems say (listed once, can be looked up, sorted,
  nothing below what it spends) with `Associated`: what is listed still pays
  the wallet or spends what does.  Without it `SetOtherTx` could free a listed
  transaction.  `RemoveFrames` says that what waits to be removed is unconfirmed
  or gone, and no update is under way: only then does the search for
  dependants, which stops at the first lower entry, see them all
  (`FoundDependant`).  `SetFrames` says that the hashes an update has left carry
  one height, and confirm nothing before what it spends; it carries
  `ChainAccepts` from the start of an update through its iterations, in which
  the list is half updated.
* `LedgerImplemented` maps the wallet to `WalletLedger` with
  `conf <- [t \in Registered |-> height[t]]`.  Registering is `Add`, an
  iteration of an update `Confirm`, `RemoveTransaction` `Drop`, a
  reorganisation `Reorganise`; every other step stutters.  `Drop` wants
  nothing left that depends on the transaction, so the runs check `LedgerSpec` and
  leave `DependantsFirst`, and `ParentsFirst`, an invariant of the ledger, to
  their theorems.
* `HistoryCompleteHolds`, `TotalsAgreeHolds`, `GapFullHolds` (the same module), in
  whatever order transactions confirm.  `BooksInv` is about a recount under way:
  which frames may wait behind it (`CountsFirst`), one entry of `balanceHist` for
  each transaction counted, and running amounts that agree with the totals.
  `GapInv` follows a registration from the growing of the first chain to the
  callback: as long as it has not got there no other operation's frame is on the
  stack, so no transaction is counted that could use an address of a gap.
* `BalanceIsUtxosHolds`, `ConflictFreeHolds`, `NoUnderflowHolds` (the same module),
  under `~ OutOfOrder`.  `SoundInv` adds that the balance is worth the unspent
  outputs and that what is counted so far spends no output twice (`CountedTo`).
  A recount relies on the order of the list: an output is added before what spends
  it is met, which is `ParentsFirst` and `OldestFirst`.  Otherwise the wallet may
  list again what it already lists (departures), and the recount count it twice.
  The worth of a set of outputs is a sum the library defines by recursion; what the
  proofs need of it (the empty sum, one output more) follows from a set of finite
  sets having a smallest (`LeastNat`), not from the induction theorems.
* `StoreAgreesHolds` (`WalletStoreProofs`), with any queue and any restarts, in whatever order transactions confirm.  Three parts of
  `StoreInv` hand over to each other.  `WalletInv` is about an operation under way: the
  listener knows what is listed but for the callbacks that are still on the stack
  (`ToldInv`), and an update gives all it changes one height, which it tells at its end
  (`UpdInv`).  It needs that the frames on the stack are those of one operation, its
  callback last (`OneOperation`).  `QueueInv` says what the table will hold when the
  jobs are worked off: the listener knows exactly what has a row that no job deletes,
  or has a job that inserts it (`KnownStored`); no job deletes a row that is still to
  be inserted, and there is one insertion at a time (`InsertedOnce`); the last update
  of a row carries the height the listener knows (`HeightStored`).  A callback adds one
  job to a queue that says this of the past (`QueueAdded`, `QueueRemoved`,
  `QueueUpdated`); a job taken off moves the others up (`MovedUp`, `JobsMoved`); each
  row of an update is committed by itself, so the job is split (`JobsSplit`).
  `StartInv` is a start: what is taken over and what is left are the rows.
  A crash empties queue and stack at once, so `StartInv` follows from the table alone
  (`StartRestart`), and a start that ends gives the other two (`StartUp`).
  The premise of `StoreAgreesHolds` is `[]OwnListed`: `SetOtherTx` frees what is not
  the wallet's own, and after a restart something listed may not be, since fewer
  addresses are generated (departures); then the listener keeps
  what the wallet has lost.  The premise says no more than that this has not happened,
  and it cannot be left out.
* `BooksRestarted`, `GapFullRestarted` (the same module), without premises.
  `RestartInv`: as soon as the rows are taken over, `BooksInv` and `GapInv` hold of the
  wallet again, because what was loaded leaves a recount to be done first, and
  chains are generated at least as far as the gap limit.
* `ChainTypeCorrect`, `BestChainHolds` (`PeerManagerChainProofs`).
  `BestChain` is inductive as it stands when nothing rescans: every branch that
  stores a block above `lastBlock` makes it `lastBlock`, and a restart ends with
  the highest it could chain.
* `ClientImplemented`: `Spec` implements `LightClient` with `tip <- lastBlock`,
  under three premises.  Two are counters at 0: a rescan lowers the tip, and
  a restart may leave confirmations of blocks it forgot (departures).  The third is
  `[]ForksMeet`: a fork longer than what is kept of the old chain would end the
  process or lose confirmations in the code too.  The invariant `ClientInv` says that
  each transaction's height is where the chain of `lastBlock` has it (`At`),
  that this chain goes back to `Birth`, and that everything stored besides
  checkpoints does: without the last, a fork could join below `Birth` and win.
  The step that matters is `ClientReorganise`.  The join `m` is an ancestor of
  both tips, so below it the two chains share their blocks
  (`LineageNested`) and a transaction confirmed there keeps its height; above it
  the walk meets every block of the new chain, and a transaction in none of them
  is unconfirmed, because it can be in one block of a chain only (`OneBlock`).
* `ForksMeetHolds` turns that premise into one on the tree of blocks, `ForksShort`:
  two chains of which one has one block more share a block no more than an interval
  before the last transition of the longer.  That is what the peer manager keeps: it frees
  what is older than the transition before.  The invariant `RootInv` says that from
  what is stored and from the tip the chain is complete back to `Birth`, but for what
  is that old.  `BirthIsLast` is a wallet with keys made after the last checkpoint;
  for an older one the checkpoints above `Birth` are stored before the blocks
  between.  Without rescans, since one lowers the tip and a later transition then
  frees below it; without restarts, since after one only the last transition and its
  successors are there, and a fork from before it cannot be followed.
  `FollowsTheChain` is `ClientImplemented` with these premises.
* `VerifiableHolds`, after any restarts, until a rescan.  `KeptInv`: from every
  stored block, what is not older than the transition before is there down to a
  transition.  A rescan makes it false: it sets `lastBlock` back to a block that
  the next transition above frees (`BRPeerManager.c:1229`).  `Verifiable` and
  `NextNotWaiting` say so themselves (`rescans = 0`), so these theorems have no premise; a step
  that ends without a rescan began without one (`UntilRescan`), and `BestChain`, which
  both rest on, holds until then (`BestUntilRescan`).
* `DiskFromTransitionHolds`, with rescans and restarts, for `~ Reused`: memory freed
  before the queue reads it may otherwise hold any block.  Each save is complete
  back to a transition by itself (`Complete`), so that neither their order nor the
  ones a restart loses matter, also where a save adds and does not replace.
* `MainConfirmedHolds`, with rescans, until a restart.  It is inductive: a rescan leaves heights as
  they are and goes over blocks that are confirmed.  Its premise `JoinFound` is about the
  reorganisations that happen, not about all that could: each finds the block where
  its fork joined.  `[]ForksMeet` would be too much to ask: in a rescan the next block of
  the old chain counts there for a fork that wins, and does not meet the chain where
  blocks between were freed, though it is put off (`BRPeerManager.c:1391`).  If the peer
  that sends it claims no more than the rescan has reached it is not put off, and the
  walk back runs out of blocks (a NULL dereference, 1416).  On the instance of
  `chain_restart`, with reorganisations before, in and after the rescan, TLC finds
  `JoinFound` to hold of every one.
  Not after a restart, which may leave an abandoned fork's heights or lose the blocks
  of a reorganisation (departures).
* `NextNotWaitingHolds`, after any restarts, until a rescan, for wallets of any
  age.  `WaitInv` adds that orphans are found by their parent, one for each.  When the
  chain goes on to `b`, an orphan that is now next on another stored block would have
  its parent at the height of `b`; nothing stored is as high, but checkpoints
  (`BestChain`), and a checkpoint at that height would have refused `b`
  (`NoneAsHigh`).  The orphan on `b` itself is taken (`NextTaken`).  `OrphansWait`, that no
  orphan waits whose parent is stored, is only model-checked: with checkpoints above the last
  block it is weaker, and says something only of blocks that are not too far ahead.

The constants of the chain carry what the code's tables say: heights follow
parents, checkpoints are transitions of one chain and there is a last one, the
wallet has no transaction from before its keys.

* `TruthfulHolds` (`PeerManagerPublishProofs`): whoever keeps the promise of
  `Publication` answers the truth, because what is open is not public.
* `FateHolds`, `WaitingOwnedHolds`, `AnswersTrueHolds`, `PublicationImplemented`
  (the same module), for any transactions, peers, connections and
  whatever the chain does.  The invariant `Fate` says that a transaction is
  public exactly if the application was told `ok` or the wallet had it from the
  start, and that what is not public is listed exactly while it waits, with a
  struct that neither the wallet nor a sweep has touched.  Most handlers then
  change nothing the promise can see (`Quiet`): whatever they do to a
  transaction is only to a public one.  Four do: `PublishTx`, `Offer`,
  `RequestedTx` and `Disconnected`.  That listing a transaction lists only the
  wallet's own beside it (`Listing`) is where the closure over parents matters.
* `RelaysConnectedHolds` (the same module), for any number of peers: all
  handlers but those that begin or end a connection leave the links as they are
  (`AllStay`, a lemma for each operation on a connection), only a handler of a
  connected peer counts it, and the end of a connection takes its peer out of every
  count.
* `TypeCorrect` (the same module), for a finite set of peers.  The invariant joins
  `RelayInv`, now of typed connections, and `Fate`: a connection that is not there has
  nothing unanswered and one whose thread ends only pings (`IsLink`), and the download
  peer's has begun.  When a thread ends its pings are left, in their order: that `Pings`
  is a sequence of them takes the position of the n-th element of a set of
  numbers (`Nth`, `NthOnly` in `Extrema`).
* `TypeCorrect`, `PaymentsFoundHolds` (`FilterSyncProofs`), for any chain of blocks, any
  payments, any gap and batch.  The messages on the wire and the requests that are not
  answered are one line of what the client has still to see: an answer takes the place
  of its request (`Put`), a message read leaves at one end (`Removed`), and one sent
  joins at the other (`Inserted`).  Of this line `Fine` says that each pong finds the
  ping it answers, and what was asked before a filter is replaced comes before the pong
  that replaces it (`Ordered`), that a transaction announced and asked for is still
  coming (`Coming`), and that a transaction is announced by itself only before
  its block is (`InvFirst`).
  `SafeInv` is that of the connection, and of the manager that the filter covers the
  next addresses of what is in the wallet (`Covers`).  `Matching` follows the filters: what
  a block on the wire carries is what the last filter before its request lets through
  (`FilterAt`).  So every block that is taken over was matched with the filter that
  covers it, or the manager has dropped it (`Found`).  The premise `[][~ Overtaken]_vars`
  excludes the one case in which it has not: a filter that covers more is loaded while a
  block is asked for or on its way (departures).  `FoundUnlessOvertaken`, which also says what
  is not missed when that has happened, is only model-checked.
* `TypeCorrect`, `DescriptorsAccountedHolds` (`PeerSocketProofs`), for any number
  of connections and descriptors.  Other threads matter to a connection in two ways.
  Whoever closes a number that was given out again closes one of its descriptors,
  which makes what it owns smaller (`AccountedCloses`); and the call clears its
  variable, which may lose the second socket while the call closes the first
  (`AccountedClears`).  The invariant `Accounted` speaks of one connection's record,
  the descriptors open for it and the one the call has in hand: there are two at
  most, and while both are open (`Full`) variable and call hold no other, so of
  two only one can be lost.  That is so too when the second socket cannot be opened: the
  variable then has none, and the first is the one lost.  Where a step leaves variable and descriptors as they are
  (`AccountedRuns`) nothing is left to show.
* `RecordedAgreesHolds`, `NewerKeptHolds` (`ReplicatedStoreProofs`), for any keys
  and any number of syncs.  A sync reads the table and the server, and acts later
  on what it remembers.  The invariant `StoreInv` says of each job that this may
  be out of date, but is true of the row or object if its version is still the one
  remembered (`Was`, `Held`), and that what the job is going to fetch or store is
  later than the row it read (`Outdated`).  Each change of a row or an object
  gives it a greater version (`LaterRow`, `LaterObject`), so no step of anybody
  else makes what a job remembers wrong (`JobStays`), and of a step only the job it
  moves and the row or object it changes are left to look at (`Kept`).  The
  transaction that compares versions again (`Current`) is where both theorems end:
  there the job's memory is of the row that is replaced.  That the server never
  gives a version to two objects is assumed of it (`Successor`).
* `StoreTypeCorrect`, `SuccessMeansSameHolds` (the same module).  `CallsOK` says in
  which state of a call its jobs are at work (`Works`), and that a call of `syncKey`
  has one.  Success is a matter of the time from a call's begin to its end, so
  `SyncInv` speaks of the syncs nobody has disturbed: what their jobs remember is not
  just true of a version but still so (`StillSo`), step by step until the job ends
  and the contents are the same (`Good`).  The theorem needs it of the step that
  ends the call too, so a step is shown `Sound` for each call first, which gives the
  invariant (`SoundKeeps`) and the property.  Steps of a job differ in what they
  conclude, not in what they leave alone: `ThoughtSound` is for those that change
  no row or object, `ChangeSound` for those that do.

Only model-checked: the liveness properties (`RemovalEnds`, `SyncEnds`,
`ConnectionStops`, `AnsweredOutsideSync`), whose fairness the prover does not handle, and
`SetSpec` of the hash set, whose operators recurse over the table: what they compute
for every table is an induction over data.

## Departures of the code from its comments

Besides the finding, met while translating or checking and modelled as the
code has it, without a run of their own.

In the wallet:

* `BRWallet.c:803` says a lost send "wasn't already known to be invalid".  The
  validity is asked at 804 after the transaction left `allTx` and the balance was
  recounted, when a conflicting transaction may have become the counted one: then
  nobody is notified.
* `BRWallet.c:228` checks "the entire UTXO set against the entire spent output
  set", but a pending transaction's inputs become spent outputs (186) before a
  `continue` (210) that skips the check: an output may be unspent and spent by a
  pending transaction until another is counted.
* `BRWallet.c:943`: marking a transaction verified passes `TX_UNCONFIRMED`
  (`BRPeerManager.c:1099`), which becomes the wallet's block height, so no lock
  height is in the future any more (890); the next reorganisation sets it right
  by chance.
* `BRWallet.c:281`, `962`: a wallet started from its table generates only the gap limit's
  addresses, while the filter that found its payments covered 100 more
  (`BRPeerManager.c:357`), and only the first row is looked at (285).  Another row that
  pays one of those is listed but not taken for the wallet's own, and the block that
  confirms it, or confirms it again, frees it as a "confirmed non-wallet tx" while it is
  listed.  With `b` of `StoreBody` paying `Ext(3)`, TLC finds `OwnListed` violated, and
  `StoreAgrees`: the table keeps what the wallet has lost.
* `BRWallet.c:962` frees a "confirmed non-wallet tx".  Under `OutOfOrder`, one
  whose parent was removed without it may be such by `_BRWalletContainsTx` and
  still be listed.
* `BRWallet.c:158`, `745`: addresses of invalid and pending transactions are
  not in `usedAddrs`, so an address handed out before is offered again, and a
  recount outside a registration makes addresses used without filling the gap.
* `BRWallet.c:988`: a reorganisation tells the listener timestamp 0 and keeps
  `tx->timestamp`.

* `WalletManager.swift:273`: the job of `txAdded` reads the transaction after the
  callback has returned, when a removal on another thread may have freed it
  (`WalletStep` assumes it has not).

In the chain:

* `BRPeerManager.c:1391` puts off a "new block mined durring rescan".  It has been
  verified by then (1342), and a transition frees everything before the previous one
  (1229), which may be the block the rescan has reached: `lastBlock` is freed memory, and
  the next block of the rescan has no parent.  `Verifiable` without `rescans = 0` fails on
  `chain_restart`; so does `NextNotWaiting`, since an orphan that waited before the
  rescan may be next to where it goes back to.
* `WalletManager.swift:401` copies pointers to blocks that the application's queue reads
  later; a second copy of one of them (`BRPeerManager.c:1388`) frees it before.  With
  `Reused = TRUE`, which lets the freed memory have been used again, `DiskFromTransition`
  fails on `chain_restart`; it is checked and proved for memory that is freed only.
* `BRPeerManager.c:1418` marks transactions after the join as unconfirmed; a
  restart from the last saved transition (1654) leaves a chain without it, so
  transactions of abandoned blocks keep their heights.  If the blocks of a
  reorganisation were not saved when the process ended, the chain it left is followed
  again, with transactions that the reorganisation took back or gave other heights:
  `MainConfirmed` fails until they are relayed again, and is not checked with restarts.
* `BRPeerManager.c:1439`: a transition that joins the chain by a
  reorganisation is not saved "immediately" as one that extends it is.
* `BRPeerManager.c:1436`: a reorganisation updates the wallet directly and not
  through `_BRPeerManagerUpdateTx`, so publications that it confirms stay
  listed.

In publishing and connections:

* `BRPeerManager.c:1813` sets the count of failures to its maximum to "prevent
  futher automatic reconnect attempts".  A thread that decided to reconnect before
  (963) connects after the lock is released (993), which takes the maximum for a
  manual retry and resets it (1733): `PeerSocket` reaches a new connection while
  the application waits in `BRPeerManagerDisconnect`.
* `BRPeerManager.c:936` says itself that a connect timeout is taken for a publish
  timeout.  `AnsweredOutsideSync` holds with one peer; with two, whoever hears of
  a transaction cancels the timer of its own connection only, and a publication
  may wait for a peer that has none.
* `BRPeerManager.c:302`: during a sync the timer that guards a publication is
  rescheduled by every block.
* `BRPeerManager.c:1794`: when no peer is found, the sync is stopped but
  publications are not answered.
* `BRPeerManager.c:1981` says not to free a transaction after publishing it; a
  publication whose struct the wallet took (1577) stays listed when a sweep
  removes and frees it (601): `freed`.
* `BRPeerManager.c:946`: a peer that disconnects leaves `txRelays` but not
  `txRequests`, so what only it was asked for is not swept.
* `BRPeerManager.c:1814`: a peer that waits for the network, or whose thread could
  not be created, has no thread that would take it out of `connectedPeers`;
  `BRPeerManagerDisconnect` then never returns.
* `BRPeer.c:908`: the fallback to IPv4 opens a second socket without closing the
  first (`DescriptorsAccounted` allows just that); when there is no descriptor for it,
  its -1 still overwrites the first one's number (854).
* `BRPeer.c:353`: an inventory with the one hash announced last is not asked for
  again, also when the block was dropped meanwhile; the download goes on after the
  timeout.
* `BRPeerManager.c:1308` is to "ingore potentially incomplete blocks when a filter update
  is pending", by the test that the filter is NULL.  At the end of the chain a degraded
  filter is replaced at once (719, 720), without the ping that elsewhere lets what was
  matched with the old one come first: a block asked for before is taken over without a
  payment that only the new filter covers, and not asked for again.  `PaymentsFound`
  fails on `filter_restore`.
* `BRPeerManager.c:471`: after a filter is replaced at the end of the chain, blocks
  dropped while it was are not asked for again until the next block is an orphan.

In the hash set:

* `BRSet.c:30` and `115` give 2/3 as the maximum load.  The limit, `((size + 2)/3)*2`,
  is 6 of 7 buckets, and 10 of 13: a table has a free bucket, but no more is sure.
* `BRSet.c:284`: a set subtracted from itself keeps items, since a removal moves
  the next into a bucket the loop has passed.  Nobody does it; the model does not.

In the store:

* `BRReplicatedKVStore.swift:553`: `try?` drops what `_syncKey` throws (the recorded version
  cannot be read, 579, or the value not decrypted, 590), and with it the handler that
  resets `syncRunning` (546): no key is synced any more until the process ends, although 103
  says "only one sync can run at a time".  `SyncEnds` without its second half fails on `kv_sync`.
* `BRReplicatedKVStore.swift:401`: `setRemoteVersion` gives the row it copies the
  time of now, also when the content was fetched from the server.  What another
  device wrote after that content and before this time is then taken for older
  than ours and overwritten at the next sync, although 570 says "if their
  last-modified date is newer than ours, overwrite ours".
* `BRReplicatedKVStore.swift:464`: a call of `syncKey` and one of `syncAllKeys` may
  both begin.  The first is told the server's time in seconds and puts what it has,
  the second is told it in milliseconds and fetches what the put is replacing, and
  reports success.  So may a sync that begins when another of two overlapping ones has
  ended and reset the flag (546).  `SuccessMeansSame` leaves out the keys that another sync wrote
  meanwhile.
* `BRReplicatedKVStore.swift:574` asks "how did we get here" when no sync is running
  in a sync: another that overlapped it has ended and reset the flag (`NotRunning`).

## Not modelled

* Creating and signing transactions, coin selection, fee queries, the table of
  peers.
* Peer addresses, their scores, DNS, fee rates, freeing the manager.
* `BRMerkleBlock.c`: a walk over a tree of hashes, which the models take as the
  list it gives.  `BRBloomFilter.c` is a probabilistic set.  Making a hash table
  larger than its table of sizes goes.
* The handshake and message parsing of `BRPeer.c`, keys, addresses,
  serialization, the payment protocol: functions of bytes.
* The arrays of pings of `BRPeer.c` (1497) are written by threads of other peers
  under the manager's lock and read by the peer's own without; the models append and
  take atomically.
* The wrappers of the other coins, the HTTP server and web socket, the API client,
  and the libraries under `src/Libraries` and `src/Frameworks` that are not this
  program's own.

Worth doing next: a run of `WalletStore` with transactions that spend each other;
`FoundUnlessOvertaken` as a theorem, with the blocks behind one that was overtaken; the hash
table's single steps (a probe, a placement) in a module without recursion, so that they
can be proved about; coin selection as a module of its own.
