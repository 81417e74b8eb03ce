------------------------------ MODULE BRWallet ------------------------------
(***************************************************************************)
(* The wallet of loafwallet-core (BRWallet.c): the transactions it holds,  *)
(* their order, the unspent outputs and balance recomputed from them, the  *)
(* two address chains, and the callbacks its listener gets.                *)
(*                                                                         *)
(* Every function that changes transactions runs on a thread that holds    *)
(* the peer manager's lock, so there is one writer at a time; address      *)
(* chains may also grow from another thread (the user asks for a receive   *)
(* address).  The wallet's own lock is released between the parts of an    *)
(* operation, so an operation is a list of frames, todo, that the writer   *)
(* works off in order: one frame per critical section, callback, or        *)
(* iteration of a loop inside a critical section.  While the first frame   *)
(* is part of a critical section (LockHeld) nobody else takes a step that  *)
(* needs the lock; every operation starts with todo empty.                 *)
(***************************************************************************)
EXTENDS Integers, Sequences, FiniteSets, FiniteSetsExt

CONSTANTS
  Tx,                    \* transaction hashes
  Body,                  \* Body[t]: the immutable part of transaction t
  Blocks,                \* lists of hashes a block may bring to the wallet
  Heights,               \* block heights a transaction may confirm at
  Stamps,                \* timestamps other than 0 ("not verified yet")
  TX_UNCONFIRMED,        \* the height that marks an unconfirmed transaction
  TX_MAX_LOCK_HEIGHT,    \* a lock time below it is a height, else a time
  TX_MIN_OUTPUT_AMOUNT,  \* outputs below it are dust
  GAP_LIMIT,             \* GAP_LIMIT[c]: the gap limit of chain c
  OutOfOrder,            \* a transaction may confirm before what it spends
  FILTER_GAP,            \* further addresses generated for a bloom filter
  MaxNow                 \* bound: the clock stops there

Chains == {"external", "internal"}

Addresses == [chain : Chains \cup {"foreign", "none"}, idx : Nat]
Outpoints == [tx : Tx \cup {"unknown"}, n : Nat]

\* Outputs are numbered from 1.  "none" is an output script without address.
\* seq is the lowest sequence number among the inputs: "final" is UINT32_MAX,
\* "replaceable" is below UINT32_MAX - 1, which signals replace-by-fee.
Bodies == [ins  : SUBSET Outpoints,
           outs : Seq([addr : Addresses, amount : Nat]),
           seq  : {"final", "nonfinal", "replaceable"},
           lock : Nat,
           big  : BOOLEAN]

ASSUME TxAssumption ==
  /\ Body \in [Tx -> Bodies]
  /\ "unknown" \notin Tx
  /\ \A t \in Tx : \A o \in Body[t].ins : o.tx # t
  /\ Blocks \subseteq Seq(Tx)

ASSUME HeightAssumption ==
  /\ TX_UNCONFIRMED \in Nat
  /\ Heights \subseteq Nat
  /\ \A h \in Heights : h < TX_UNCONFIRMED
  /\ Stamps \subseteq Nat \ {0}

ASSUME LimitAssumption ==
  /\ GAP_LIMIT \in [Chains -> Nat \ {0}]
  /\ FILTER_GAP \in Nat
  /\ TX_MAX_LOCK_HEIGHT \in Nat
  /\ TX_MIN_OUTPUT_AMOUNT \in Nat
  /\ MaxNow \in Nat
  /\ OutOfOrder \in BOOLEAN

VARIABLES
  allTx,         \* hashes of the transactions the wallet can look up
  transactions,  \* the registered ones, oldest first
  height,        \* tx->blockHeight
  timestamp,     \* tx->timestamp
  blockHeight,   \* wallet->blockHeight
  chainLen,      \* how many addresses of each chain have been generated
  balance, totalSent, totalReceived,
  utxos, balanceHist, spentOutputs, invalidTx, pendingTx, usedAddrs,
  scan,          \* the locals of the loop of _BRWalletUpdateBalance
  upd,           \* the locals of BRWalletUpdateTransactions
  todo,          \* the frames left of the operation in progress
  told,          \* what the callbacks have told the listener
  now            \* the clock

books == <<balance, totalSent, totalReceived, utxos, balanceHist,
           spentOutputs, invalidTx, pendingTx, usedAddrs>>
holdings == <<allTx, transactions, height, timestamp>>
vars == <<holdings, blockHeight, chainLen, books, scan, upd, todo, told, now>>

-----------------------------------------------------------------------------
(***************************************************************************)
(* Transactions, outputs and addresses.                                    *)
(***************************************************************************)
Registered == {transactions[i] : i \in DOMAIN transactions}

Spends(u, t) == \E o \in Body[u].ins : o.tx = t
OutputOf(o) == Body[o.tx].outs[o.n]
OutputsOf(t) == [tx : {t}, n : DOMAIN Body[t].outs]
AddrsOf(t) == {Body[t].outs[n].addr : n \in DOMAIN Body[t].outs}

\* BRSetContains(wallet->allAddrs, addr): the chains are derived from one key
\* in order, so how far each has been generated says which addresses are ours.
Mine(addr) == addr.chain \in Chains /\ addr.idx < chainLen[addr.chain]

\* the output an input consumes is known and pays the wallet
SpendsMine(o) ==
  /\ o.tx \in allTx
  /\ o.n \in DOMAIN Body[o.tx].outs
  /\ Mine(OutputOf(o).addr)

ContainsTx(t) ==
  \/ \E a \in AddrsOf(t) : Mine(a)
  \/ \E o \in Body[t].ins : SpendsMine(o)

Amount(S) == MapThenSumSet(LAMBDA o : OutputOf(o).amount, S)
AmountSentByTx(t) == Amount({o \in Body[t].ins : SpendsMine(o)})

-----------------------------------------------------------------------------
(***************************************************************************)
(* The order of wallet->transactions.  ht is the height of each            *)
(* transaction at the time of the comparison.                              *)
(***************************************************************************)
\* t1 descends from t2, among transactions of the height of t2
IsAscending(ht, t1, t2) ==
  LET asc[t \in Tx] ==
        \/ ht[t] > ht[t2]
        \/ /\ ht[t] = ht[t2]
           /\ \/ Spends(t, t2)
              \/ /\ ~ Spends(t2, t)
                 /\ \E o \in Body[t].ins : o.tx \in allTx /\ asc[o.tx]
  IN  asc[t1]

\* chain position of the last address of chain c that t pays, -1 if none
ChainIndex(t, c) ==
  Max({-1} \cup {a.idx : a \in {b \in AddrsOf(t) : b.chain = c /\ Mine(b)}})

ChainAfter(t1, t2) ==
  LET c == IF ChainIndex(t1, "internal") # -1 THEN "internal" ELSE "external"
  IN  /\ ChainIndex(t2, c) # -1
      /\ ChainIndex(t1, c) > ChainIndex(t2, c)

\* _BRWalletTxCompare(t1, t2) > 0.  The heights decide first: written so that
\* only transactions of one height reach the recursion.
ComesAfter(ht, t1, t2) ==
  \/ ht[t1] > ht[t2]
  \/ /\ ht[t1] = ht[t2]
     /\ \/ IsAscending(ht, t1, t2)
        \/ ~ IsAscending(ht, t2, t1) /\ ChainAfter(t1, t2)

\* the insertion sort walks back from the end past every entry that comes
\* after t, and stops at the first that does not
InsertPos(ht, s, t) ==
  Max({0} \cup {i \in DOMAIN s : ~ ComesAfter(ht, s[i], t)})

InsertTx(ht, s, t) ==
  LET k == InsertPos(ht, s, t)
  IN  [i \in 1 .. Len(s) + 1 |->
         IF i <= k THEN s[i] ELSE IF i = k + 1 THEN t ELSE s[i - 1]]

RemoveTx(s, t) ==
  LET k == Max({i \in DOMAIN s : s[i] = t})
  IN  [i \in 1 .. Len(s) - 1 |-> IF i < k THEN s[i] ELSE s[i + 1]]

-----------------------------------------------------------------------------
(***************************************************************************)
(* What the wallet answers about a transaction.                            *)
(***************************************************************************)
\* BRWalletTransactionIsValid
IsValid(t) ==
  LET valid[u \in Tx] ==
        \/ height[u] # TX_UNCONFIRMED
        \/ /\ IF u \in allTx THEN u \notin invalidTx
                             ELSE Body[u].ins \cap spentOutputs = {}
           /\ \A o \in Body[u].ins : o.tx \in allTx => valid[o.tx]
  IN  valid[t]

HasDust(t) ==
  \E n \in DOMAIN Body[t].outs : Body[t].outs[n].amount < TX_MIN_OUTPUT_AMOUNT

\* too big, dust, replaceable, or locked to a later block or time
Postponed(t) ==
  \/ Body[t].big
  \/ HasDust(t)
  \/ Body[t].seq = "replaceable"
  \/ /\ Body[t].seq # "final"
     /\ \/ /\ Body[t].lock < TX_MAX_LOCK_HEIGHT
           /\ Body[t].lock > blockHeight + 1
        \/ Body[t].lock > now

\* BRWalletTransactionIsPending
IsPending(t) ==
  LET pending[u \in Tx] ==
        /\ height[u] = TX_UNCONFIRMED
        /\ \/ Postponed(u)
           \/ \E o \in Body[u].ins : o.tx \in allTx /\ pending[o.tx]
  IN  pending[t]

-----------------------------------------------------------------------------
(***************************************************************************)
(* Frames of an operation.  h carries a height, or the gap of "unused..."; *)
(* was: the transaction was valid before it was removed.                   *)
(***************************************************************************)
HeightsOrUnconfirmed == Heights \cup {TX_UNCONFIRMED}

\* recount and count carry nothing; the tx of a frame about none is "unknown"
Frames ==
  LET Of(ops, txs, hs) ==
        [op : ops, tx : txs, h : hs, ts : Stamps \cup {0}, was : BOOLEAN]
  IN  Of({"set"}, Tx, HeightsOrUnconfirmed)
        \cup Of({"endset", "updated"}, {"unknown"}, HeightsOrUnconfirmed)
        \cup Of({"recount", "count"}, {"unknown"}, {0})
        \cup Of({"unusedExternal", "unusedInternal"}, {"unknown"}, Nat)
        \cup Of({"remove", "removed", "added"}, Tx, {0})

Frame(op, t, h, ts) == [op |-> op, tx |-> t, h |-> h, ts |-> ts, was |-> FALSE]

Top == Head(todo)
Running(op) == todo # <<>> /\ Top.op = op
Idle == todo = <<>>

\* the first frame runs inside a critical section of wallet->lock
LockHeld == ~ Idle /\ Top.op \in {"set", "endset", "recount", "count"}

Start(frames) == Idle /\ todo' = frames
Continue(frames) == todo' = frames \o Tail(todo)

Recount == Frame("recount", "unknown", 0, 0)
Unused(extra) ==
  << Frame("unusedExternal", "unknown", GAP_LIMIT["external"] + extra, 0),
     Frame("unusedInternal", "unknown", GAP_LIMIT["internal"] + extra, 0) >>

-----------------------------------------------------------------------------
(***************************************************************************)
(* BRWalletNew without stored transactions.                                *)
(***************************************************************************)
NoScan == [i |-> 1, bal |-> 0, prev |-> 0]
NoUpd == [txs |-> {}, needs |-> FALSE]

Init ==
  /\ allTx = {} /\ transactions = <<>>
  /\ height = [t \in Tx |-> TX_UNCONFIRMED] /\ timestamp = [t \in Tx |-> 0]
  /\ blockHeight = 0 /\ chainLen = GAP_LIMIT
  /\ balance = 0 /\ totalSent = 0 /\ totalReceived = 0
  /\ utxos = {} /\ balanceHist = <<>> /\ spentOutputs = {}
  /\ invalidTx = {} /\ pendingTx = {} /\ usedAddrs = {}
  /\ scan = NoScan /\ upd = NoUpd
  /\ todo = <<>>
  /\ told = [balance |-> 0, height |-> [t \in Tx |-> -1], alert |-> "none"]
  /\ now = TX_MAX_LOCK_HEIGHT

-----------------------------------------------------------------------------
(***************************************************************************)
(* _BRWalletUpdateBalance: clear, one step per transaction, store.         *)
(***************************************************************************)
StartCount ==
  /\ Running("recount")
  /\ utxos' = {} /\ balanceHist' = <<>> /\ spentOutputs' = {}
  /\ invalidTx' = {} /\ pendingTx' = {} /\ usedAddrs' = {}
  /\ totalSent' = 0 /\ totalReceived' = 0
  /\ scan' = NoScan
  /\ Continue(<<Frame("count", "unknown", 0, 0)>>)
  /\ UNCHANGED <<holdings, blockHeight, chainLen, balance, upd, told, now>>

Counting(t) ==
  /\ Running("count") /\ scan.i <= Len(transactions)
  /\ t = transactions[scan.i]

FaultHasBadInput(t) ==
  /\ height[t] = TX_UNCONFIRMED
  /\ \E o \in Body[t].ins : o.tx \in invalidTx

\* an unconfirmed transaction with an input that is spent, or is invalid
HasBadInput(t) ==
  /\ height[t] = TX_UNCONFIRMED
  /\ \E o \in Body[t].ins : o \in spentOutputs \/ o.tx \in invalidTx

MustWait(t) ==
  /\ height[t] = TX_UNCONFIRMED
  /\ Postponed(t) \/ \E o \in Body[t].ins : o.tx \in pendingTx

CountInvalid(t) ==
  /\ Counting(t) /\ HasBadInput(t)
  /\ invalidTx' = invalidTx \cup {t}
  /\ balanceHist' = Append(balanceHist, scan.bal)
  /\ scan' = [scan EXCEPT !.i = @ + 1]
  /\ UNCHANGED <<holdings, blockHeight, chainLen, balance, totalSent,
                 totalReceived, utxos, spentOutputs, pendingTx, usedAddrs,
                 upd, todo, told, now>>

CountPending(t) ==
  /\ Counting(t) /\ ~ HasBadInput(t) /\ MustWait(t)
  /\ spentOutputs' = spentOutputs \cup Body[t].ins
  /\ pendingTx' = pendingTx \cup {t}
  /\ balanceHist' = Append(balanceHist, scan.bal)
  /\ scan' = [scan EXCEPT !.i = @ + 1]
  /\ UNCHANGED <<holdings, blockHeight, chainLen, balance, totalSent,
                 totalReceived, utxos, invalidTx, usedAddrs, upd, todo, told,
                 now>>

\* Outputs of t that pay the wallet join utxos, then everything spent leaves:
\* the whole set is checked, since a transaction may precede what it spends.
NewUtxos(t) == {o \in OutputsOf(t) : Mine(OutputOf(o).addr)}
SpentWith(t) == spentOutputs \cup Body[t].ins

FaultBalanceWith(t) == scan.bal + Amount(NewUtxos(t))
                         - Amount({o \in SpentWith(t) : SpendsMine(o)})
FaultPurge(t) == scan.bal + Amount(NewUtxos(t))
                   - Amount((utxos \cup NewUtxos(t)) \cap Body[t].ins)

BalanceWith(t) == scan.bal + Amount(NewUtxos(t))
                    - Amount((utxos \cup NewUtxos(t)) \cap SpentWith(t))

FaultGain(from, to) == IF from < to THEN to ELSE 0

Gain(from, to) == IF from < to THEN to - from ELSE 0

CountOutputs(t) ==
  /\ Counting(t) /\ ~ HasBadInput(t) /\ ~ MustWait(t)
  /\ LET bal == BalanceWith(t)
     IN  /\ totalReceived' = totalReceived + Gain(scan.prev, bal)
         /\ totalSent' = totalSent + Gain(bal, scan.prev)
         /\ balanceHist' = Append(balanceHist, bal)
         /\ scan' = [i |-> scan.i + 1, bal |-> bal, prev |-> bal]
  /\ spentOutputs' = SpentWith(t)
  /\ utxos' = (utxos \cup NewUtxos(t)) \ SpentWith(t)
  /\ usedAddrs' = usedAddrs \cup {a \in AddrsOf(t) : a.chain # "none"}
  /\ UNCHANGED <<holdings, blockHeight, chainLen, balance, invalidTx,
                 pendingTx, upd, todo, told, now>>

EndCount ==
  /\ Running("count") /\ scan.i > Len(transactions)
  /\ balance' = scan.bal
  /\ scan' = NoScan
  /\ Continue(<<>>)
  /\ UNCHANGED <<holdings, blockHeight, chainLen, totalSent, totalReceived,
                 utxos, balanceHist, spentOutputs, invalidTx, pendingTx,
                 usedAddrs, upd, told, now>>

-----------------------------------------------------------------------------
(***************************************************************************)
(* BRWalletUnusedAddrs: chain c grows until it ends in gap addresses that  *)
(* no counted transaction uses.                                            *)
(***************************************************************************)
UsedIndexes(c) == {a.idx : a \in {b \in usedAddrs : b.chain = c}}

FaultGrownLen(c, gap) == Max({chainLen[c], gap})

GrownLen(c, gap) ==
  Min({n \in chainLen[c] .. Max(UsedIndexes(c) \cup {chainLen[c]}) + gap + 1 :
         /\ n >= gap
         /\ UsedIndexes(c) \cap (n - gap) .. (n - 1) = {}})

GrowChain(c, gap) == chainLen' = [chainLen EXCEPT ![c] = GrownLen(c, gap)]

UnusedAddrs ==
  /\ \/ Running("unusedExternal") /\ GrowChain("external", Top.h)
     \/ Running("unusedInternal") /\ GrowChain("internal", Top.h)
  /\ Continue(<<>>)
  /\ UNCHANGED <<holdings, blockHeight, books, scan, upd, told, now>>

\* BRWalletReceiveAddress, or the change address of a new transaction, asked
\* for by a thread that is not the writer
NextAddress(c) ==
  /\ ~ LockHeld
  /\ GrowChain(c, 1)
  /\ chainLen' # chainLen
  /\ UNCHANGED <<holdings, blockHeight, books, scan, upd, todo, told, now>>

\* _BRPeerManagerLoadBloomFilter asks for a longer block of unused addresses
LoadFilterAddrs ==
  /\ Start(Unused(FILTER_GAP))
  /\ \E c \in Chains : GrownLen(c, GAP_LIMIT[c] + FILTER_GAP) # chainLen[c]
  /\ UNCHANGED <<holdings, blockHeight, chainLen, books, scan, upd, told, now>>

-----------------------------------------------------------------------------
(***************************************************************************)
(* BRWalletRegisterTransaction.  Transactions reach it unconfirmed, from a *)
(* peer (timestamp 0) or when one of ours is published (the time it was).  *)
(* Registering a hash the wallet knows changes nothing.                    *)
(***************************************************************************)
\* Peers relay a transaction after what it spends, except that a rescan may
\* find what an incomplete filter had missed.
Relayable(t) ==
  OutOfOrder \/ \A u \in Registered : Spends(u, t) => height[u] = TX_UNCONFIRMED

FaultLearn(t, ts) ==
  /\ allTx' = allTx \cup {t}
  /\ height' = [height EXCEPT ![t] = TX_UNCONFIRMED]
  /\ timestamp' = [timestamp EXCEPT ![t] = ts]

Learn(t, ts) ==
  /\ t \notin allTx
  /\ allTx' = allTx \cup {t}
  /\ height' = [height EXCEPT ![t] = TX_UNCONFIRMED]
  /\ timestamp' = [timestamp EXCEPT ![t] = ts]

RegisterWalletTx(t, ts) ==
  /\ Relayable(t) /\ ContainsTx(t)
  /\ Learn(t, ts)
  /\ transactions' = InsertTx(height', transactions, t)
  /\ Start(<<Recount>> \o Unused(0) \o <<Frame("added", t, 0, 0)>>)
  /\ UNCHANGED <<blockHeight, chainLen, books, scan, upd, told, now>>

\* a transaction of somebody else is kept for checking ours against it
RegisterOtherTx(t, ts) ==
  /\ Idle /\ Relayable(t) /\ ~ ContainsTx(t)
  /\ Learn(t, ts)
  /\ UNCHANGED <<transactions, blockHeight, chainLen, books, scan, upd, todo,
                 told, now>>

\* balanceChanged and txAdded
TellAdded ==
  /\ Running("added")
  /\ told' = [told EXCEPT !.balance = balance, !.alert = "none",
                          !.height[Top.tx] = height[Top.tx]]
  /\ Continue(<<>>)
  /\ UNCHANGED <<holdings, blockHeight, chainLen, books, scan, upd, now>>

-----------------------------------------------------------------------------
(***************************************************************************)
(* BRWalletRemoveTransaction.  The peer manager calls it for an            *)
(* unconfirmed transaction that dropped off the network.                   *)
(***************************************************************************)
StartRemove(t) ==
  /\ t \in Registered /\ height[t] = TX_UNCONFIRMED
  /\ Start(<<Frame("remove", t, 0, 0)>>)
  /\ UNCHANGED <<holdings, blockHeight, chainLen, books, scan, upd, told, now>>

FaultDependants(t) ==
  {i \in DOMAIN transactions :
     /\ \A j \in i .. Len(transactions) : height[transactions[j]] > height[t]
     /\ transactions[i] # t
     /\ Spends(transactions[i], t)}

\* Positions of the transactions that spend t.  The scan for them stops at the
\* first entry, from the end, that is lower than t.
Dependants(t) ==
  {i \in DOMAIN transactions :
     /\ \A j \in i .. Len(transactions) : height[transactions[j]] >= height[t]
     /\ transactions[i] # t
     /\ Spends(transactions[i], t)}

RemoveUnknown ==
  /\ Running("remove") /\ Top.tx \notin allTx
  /\ Continue(<<>>)
  /\ UNCHANGED <<holdings, blockHeight, chainLen, books, scan, upd, told, now>>

FaultRemovalOrder(deps) ==
  [i \in 1 .. Len(deps) |-> Frame("remove", deps[i], 0, 0)]

\* each dependant with its own dependants, then the transaction once more
RemovalOrder(deps) ==
  [i \in 1 .. Len(deps) |-> Frame("remove", deps[i], 0, 0)] \o <<Top>>

RemoveDependants ==
  /\ Running("remove") /\ Top.tx \in allTx
  /\ LET D == Dependants(Top.tx)
     IN  /\ D # {}
         /\ \E s \in [1 .. Cardinality(D) -> D] :
              /\ \A i, j \in DOMAIN s : i < j => s[i] < s[j]
              /\ Continue(RemovalOrder([i \in DOMAIN s |-> transactions[s[i]]]))
  /\ UNCHANGED <<holdings, blockHeight, chainLen, books, scan, upd, told, now>>

Removed(t) == LET f == Frame("removed", t, 0, 0)
              IN  IF IsValid(t) THEN [f EXCEPT !.was = TRUE] ELSE f

FaultAfterRemoval(t) == <<Removed(t)>>

AfterRemoval(t) == <<Recount, Removed(t)>>

RemoveTransaction ==
  /\ Running("remove") /\ Top.tx \in allTx
  /\ Dependants(Top.tx) = {}
  /\ allTx' = allTx \ {Top.tx}
  /\ transactions' = IF Top.tx \in Registered
                     THEN RemoveTx(transactions, Top.tx) ELSE transactions
  /\ Continue(AfterRemoval(Top.tx))
  /\ UNCHANGED <<height, timestamp, blockHeight, chainLen, books, scan, upd,
                 told, now>>

\* After the recount: is the user to be told that a send was lost, and is a
\* rescan recommended (all inputs are known and confirmed)?  Then
\* balanceChanged and txDeleted.
LostSend(t) == AmountSentByTx(t) > 0 /\ IsValid(t)
InputsConfirmed(t) ==
  \A o \in Body[t].ins : o.tx \in allTx /\ height[o.tx] # TX_UNCONFIRMED

TellRemoved ==
  /\ Running("removed")
  /\ told' = [told EXCEPT !.balance = balance, !.height[Top.tx] = -1,
                          !.alert = IF ~ LostSend(Top.tx) THEN "none"
                                    ELSE IF InputsConfirmed(Top.tx)
                                         THEN "rescan" ELSE "notify"]
  /\ Continue(<<>>)
  /\ UNCHANGED <<holdings, blockHeight, chainLen, books, scan, upd, now>>

-----------------------------------------------------------------------------
(***************************************************************************)
(* BRWalletUpdateTransactions, one step per hash, and its three callers.   *)
(***************************************************************************)
FaultHeightSeen(h) == h + 1

HeightSeen(h) == IF h > blockHeight THEN h ELSE blockHeight

UpdateTransactions(txs, h, ts) ==
  /\ Start([i \in 1 .. Len(txs) |-> Frame("set", txs[i], h, ts)]
             \o <<Frame("endset", "unknown", h, ts)>>)
  /\ blockHeight' = HeightSeen(h)
  /\ upd' = NoUpd
  /\ UNCHANGED <<holdings, chainLen, books, scan, told, now>>

\* Assumed of blocks: a transaction confirms at one height of a chain, nothing
\* else of the chain spends the same, and it comes after what it spends, except
\* that a reorganisation confirms from the tip of the new chain down.
ChainAccepts(txs, h) ==
  \A i \in DOMAIN txs :
    /\ txs[i] \in allTx => height[txs[i]] \in {h, TX_UNCONFIRMED}
    /\ \A u \in Tx \ {txs[i]} :
         (u \in allTx /\ height[u] # TX_UNCONFIRMED) \/ (\E j \in DOMAIN txs : txs[j] = u)
           => Body[u].ins \cap Body[txs[i]].ins = {}
    /\ OutOfOrder \/ \A o \in Body[txs[i]].ins :
         o.tx \in Registered => \/ height[o.tx] <= h
                                \/ \E j \in 1 .. i - 1 : txs[j] = o.tx

ConfirmTxs(txs, h, ts) == ChainAccepts(txs, h) /\ UpdateTransactions(txs, h, ts)

\* enough peers have relayed t: it gets the time as its timestamp
MarkVerified(t, ts) ==
  /\ t \in allTx /\ height[t] = TX_UNCONFIRMED /\ timestamp[t] = 0
  /\ UpdateTransactions(<<t>>, TX_UNCONFIRMED, ts)

\* too few peers have t in their mempools
MarkUnverified(t) ==
  /\ t \in Registered /\ height[t] = TX_UNCONFIRMED
  /\ UpdateTransactions(<<t>>, TX_UNCONFIRMED, 0)

NothingToSet(f) ==
  f.tx \notin allTx \/ (height[f.tx] = f.h /\ timestamp[f.tx] = f.ts)

SkipTx ==
  /\ Running("set") /\ NothingToSet(Top)
  /\ Continue(<<>>)
  /\ UNCHANGED <<holdings, blockHeight, chainLen, books, scan, upd, told, now>>

SetHeight(f) ==
  /\ height' = [height EXCEPT ![f.tx] = f.h]
  /\ timestamp' = [timestamp EXCEPT ![f.tx] = f.ts]

FaultResorted(ht, t) == transactions

\* take the transaction out and insert it anew, to keep the order
Resorted(ht, t) == IF t \in Registered
                   THEN InsertTx(ht, RemoveTx(transactions, t), t)
                   ELSE transactions

SetWalletTx ==
  /\ Running("set") /\ ~ NothingToSet(Top) /\ ContainsTx(Top.tx)
  /\ SetHeight(Top)
  /\ transactions' = Resorted(height', Top.tx)
  /\ upd' = [txs |-> upd.txs \cup {Top.tx},
             needs |-> upd.needs \/ Top.tx \in pendingTx \cup invalidTx]
  /\ Continue(<<>>)
  /\ UNCHANGED <<allTx, blockHeight, chainLen, books, scan, told, now>>

\* a confirmed transaction of somebody else is freed
SetOtherTx ==
  /\ Running("set") /\ ~ NothingToSet(Top) /\ ~ ContainsTx(Top.tx)
  /\ SetHeight(Top)
  /\ allTx' = IF Top.h # TX_UNCONFIRMED THEN allTx \ {Top.tx} ELSE allTx
  /\ Continue(<<>>)
  /\ UNCHANGED <<transactions, blockHeight, chainLen, books, scan, upd, told,
                 now>>

Notice(f) == IF upd.txs # {} THEN <<[f EXCEPT !.op = "updated"]>> ELSE <<>>

EndSet ==
  /\ Running("endset")
  /\ Continue((IF upd.needs THEN <<Recount>> ELSE <<>>) \o Notice(Top))
  /\ UNCHANGED <<holdings, blockHeight, chainLen, books, scan, upd, told, now>>

\* txUpdated: the listener takes over the height of what it holds
TellUpdated ==
  /\ Running("updated")
  /\ told' = [told EXCEPT !.alert = "none",
       !.height = [t \in Tx |-> IF t \in upd.txs /\ @[t] # -1 THEN Top.h
                                                           ELSE @[t]]]
  /\ upd' = NoUpd
  /\ Continue(<<>>)
  /\ UNCHANGED <<holdings, blockHeight, chainLen, books, scan, now>>

-----------------------------------------------------------------------------
(***************************************************************************)
(* BRWalletSetTxUnconfirmedAfter: a chain reorganisation joins at height h.*)
(***************************************************************************)
FaultConfirmedAfter(h) ==
  {transactions[i] : i \in {j \in 1 .. Len(transactions) - 1 :
     \A k \in j .. Len(transactions) : height[transactions[k]] > h}}

\* walks back over the transactions above h and stops at the first that is not
ConfirmedAfter(h) ==
  {transactions[i] : i \in {j \in DOMAIN transactions :
     \A k \in j .. Len(transactions) : height[transactions[k]] > h}}

SetTxUnconfirmedAfter(h) ==
  LET after == ConfirmedAfter(h)
  IN  /\ blockHeight' = h
      /\ height' = [t \in Tx |-> IF t \in after THEN TX_UNCONFIRMED ELSE height[t]]
      /\ upd' = [txs |-> after, needs |-> FALSE]
      /\ Start(IF after = {} THEN <<>>
               ELSE <<Recount, Frame("updated", "unknown", TX_UNCONFIRMED, 0)>>)
      /\ UNCHANGED <<allTx, transactions, timestamp, chainLen, books, scan,
                     told, now>>

-----------------------------------------------------------------------------
\* A recount reads the clock once.
Tick ==
  /\ ~ LockHeld
  /\ now < MaxNow /\ now' = now + 1
  /\ UNCHANGED <<holdings, blockHeight, chainLen, books, scan, upd, todo, told>>

Register == \E t \in Tx, ts \in Stamps \cup {0} :
              RegisterWalletTx(t, ts) \/ RegisterOtherTx(t, ts)
Count == \E t \in Tx : CountInvalid(t) \/ CountPending(t) \/ CountOutputs(t)

\* the frames of the operation in progress
Work == \/ StartCount \/ Count \/ EndCount
        \/ UnusedAddrs
        \/ RemoveUnknown \/ RemoveDependants \/ RemoveTransaction
        \/ SkipTx \/ SetWalletTx \/ SetOtherTx \/ EndSet
        \/ TellAdded \/ TellRemoved \/ TellUpdated

Next ==
  \/ Work
  \/ Register
  \/ \E t \in Tx : StartRemove(t)
  \/ \E txs \in Blocks, h \in Heights, ts \in Stamps : ConfirmTxs(txs, h, ts)
  \/ \E t \in Tx, ts \in Stamps : MarkVerified(t, ts)
  \/ \E t \in Tx : MarkUnverified(t)
  \/ \E h \in Heights \cup {0} : SetTxUnconfirmedAfter(h)
  \/ LoadFilterAddrs
  \/ \E c \in Chains : NextAddress(c)
  \/ Tick

Spec == Init /\ [][Next]_vars
FairSpec == Spec /\ WF_vars(Work)

-----------------------------------------------------------------------------
(***************************************************************************)
(* Properties.                                                             *)
(***************************************************************************)
HeightsOrNone == Heights \cup {0, TX_UNCONFIRMED}

\* The type of every variable; the amounts are left to NoUnderflow.
TypeOK ==
  /\ allTx \subseteq Tx
  /\ transactions \in Seq(Tx)
  /\ height \in [Tx -> HeightsOrUnconfirmed]
  /\ timestamp \in [Tx -> Stamps \cup {0}]
  /\ blockHeight \in HeightsOrNone
  /\ chainLen \in [Chains -> Nat]
  /\ utxos \subseteq Outpoints /\ spentOutputs \subseteq Outpoints
  /\ invalidTx \subseteq Tx /\ pendingTx \subseteq Tx
  /\ usedAddrs \subseteq Addresses
  /\ scan.i \in Nat \ {0}
  /\ upd \in [txs : SUBSET Tx, needs : BOOLEAN]
  /\ todo \in Seq(Frames)
  /\ told.height \in [Tx -> HeightsOrNone \cup {-1}]
  /\ told.alert \in {"none", "notify", "rescan"}
  /\ now \in Nat

\* The amounts are unsigned: the balance, added up and decremented as the
\* transactions are scanned, never drops below 0 on the way, nor do the totals.
NoUnderflow ==
  /\ scan.bal \in Nat /\ scan.prev \in Nat
  /\ balance \in Nat /\ totalSent \in Nat /\ totalReceived \in Nat
  /\ balanceHist \in Seq(Nat) /\ told.balance \in Nat

\* BRWalletBalanceAfterTx reads balanceHist at the position of a transaction:
\* whoever gets the lock finds an entry for every one (BRWallet.c:242).
HistoryComplete == ~ LockHeld => Len(balanceHist) = Len(transactions)

\* Transactions are listed by block height, oldest first and unconfirmed ones
\* last.  BRWalletTxUnconfirmedBefore, the reorganisation and the search for
\* dependants all stop walking back at the first entry that is low enough.
OldestFirst ==
  \A i, j \in DOMAIN transactions :
    i < j => height[transactions[i]] <= height[transactions[j]]

\* A transaction is listed once, and every listed one can be looked up: none
\* has been freed while it is listed.
NoDangling ==
  /\ \A i, j \in DOMAIN transactions :
       i # j => transactions[i] # transactions[j]
  /\ Registered \subseteq allTx

\* What was received less what was sent is the balance.
TotalsAgree == ~ LockHeld => balance = totalReceived - totalSent

\* The balance, added up and decremented while the transactions were scanned,
\* is the worth of the unspent outputs.
BalanceIsUtxos == ~ LockHeld => balance = Amount(utxos)

\* Of two transactions that spend the same output, unless both are confirmed,
\* the wallet counts at most one.
ConflictFree ==
  ~ LockHeld =>
    \A t, u \in Registered \ invalidTx :
      t # u /\ TX_UNCONFIRMED \in {height[t], height[u]}
        => Body[t].ins \cap Body[u].ins = {}

\* A transaction is taken out of the wallet only after everything in the
\* wallet that spends its outputs.
DependantsFirst ==
  [][ \A t \in Registered \ Registered' :
        ~ \E u \in Registered' : Spends(u, t) ]_vars

\* When the listener hears of a new transaction, both chains end in a full gap
\* of addresses that no counted transaction uses.
UnusedGap(c) ==
  UsedIndexes(c) \cap (chainLen[c] - GAP_LIMIT[c]) .. (chainLen[c] - 1) = {}

GapFull == Running("added") => \A c \in Chains : UnusedGap(c)

\* The wallet implements the ledger: what it lists, at its heights.
Ledger == INSTANCE WalletLedger WITH
            SpendsTx <- Spends,
            conf <- [t \in Registered |-> height[t]]
LedgerSpec == Ledger!Spec

\* Nothing the wallet lists is confirmed below, or without, what it spends.
ParentsFirst == Ledger!ParentsFirst

\* A removal, whatever it recurses into, does end with the transaction gone.
RemovalEnds ==
  \A t \in Tx : Running("remove") /\ Top.tx = t ~> t \notin Registered

=============================================================================
