----------------------------- MODULE WalletStore -----------------------------
(***************************************************************************)
(* The wallet with its table of transactions, which WalletManager.swift    *)
(* writes from the wallet's callbacks and from which BRWalletNew starts.   *)
(* Each callback puts a job on walletQueue, which runs them in order, later *)
(* and on a thread of its own.  The process may end at any moment: what is *)
(* on the queue is lost, and the wallet starts from the table.             *)
(*                                                                         *)
(* The job of txAdded reads the transaction when it runs: it is assumed to *)
(* run before the wallet frees the transaction.  That all transactions are *)
(* signed is assumed as well.                                              *)
(***************************************************************************)
EXTENDS BRWallet, SequencesExt

CONSTANT MaxQueue        \* bound: jobs on the queue

ASSUME QueueAssumption == MaxQueue \in Nat

VARIABLES
  table,    \* rows of ZBRTXMETADATAENTITY, in the order they were inserted
  queue,    \* the jobs of walletQueue, the next one first
  phase,    \* how far BRWalletNew is: "loading", "checking" or "up"
  rows      \* what it has still to take over

store == <<table, queue, phase, rows>>
storeVars == <<vars, store>>

StoreInit ==
  /\ Init
  /\ table = <<>> /\ queue = <<>>
  /\ phase = "up" /\ rows = <<>>

-----------------------------------------------------------------------------
\* The callbacks are the frames that tell the listener.
Job(kind, txs, h, ts) == [kind |-> kind, txs |-> txs, h |-> h, ts |-> ts]

FaultJobOf(f) ==
  CASE f.op = "added"   -> <<Job("added", {f.tx}, 0, 0)>>
    [] f.op = "removed" -> <<Job("deleted", {f.tx}, 0, 0)>>
    [] f.op = "updated" /\ f.h # TX_UNCONFIRMED -> <<Job("updated", upd.txs, f.h, f.ts)>>
    [] OTHER            -> <<>>

JobOf(f) ==
  CASE f.op = "added"   -> <<Job("added", {f.tx}, 0, 0)>>
    [] f.op = "removed" -> <<Job("deleted", {f.tx}, 0, 0)>>
    [] f.op = "updated" -> <<Job("updated", upd.txs, f.h, f.ts)>>
    [] OTHER            -> <<>>

\* The frame done in this step; a step of another thread leaves todo alone.
Called == IF ~ Idle /\ todo' = Tail(todo) THEN JobOf(Top) ELSE <<>>

ToBeAdded == UNION {j.txs : j \in {i \in ToSet(queue) : i.kind = "added"}}

WalletStep ==
  /\ phase = "up"
  /\ Next
  /\ queue' = queue \o Called /\ Len(queue') <= MaxQueue
  /\ (allTx \ allTx') \cap ToBeAdded = {}
  /\ UNCHANGED <<table, phase, rows>>

-----------------------------------------------------------------------------
\* walletQueue.  A row gets the height the transaction has by now.
NextJob == Head(queue)

InsertRow ==
  /\ queue # <<>> /\ NextJob.kind = "added"
  /\ \E t \in NextJob.txs :
       table' = Append(table, [tx |-> t, h |-> height[t], ts |-> timestamp[t]])
  /\ queue' = Tail(queue)
  /\ UNCHANGED <<vars, phase, rows>>

\* Each row is a statement, and committed, of its own.
UpdateRow ==
  /\ queue # <<>> /\ NextJob.kind = "updated"
  /\ \E t \in NextJob.txs :
       LET left == NextJob.txs \ {t}
       IN  /\ table' = [i \in DOMAIN table |->
                 IF table[i].tx # t THEN table[i]
                 ELSE [tx |-> t, h |-> NextJob.h, ts |-> NextJob.ts]]
           /\ queue' = (IF left = {} THEN <<>> ELSE <<[NextJob EXCEPT !.txs = left]>>)
                         \o Tail(queue)
  /\ UNCHANGED <<vars, phase, rows>>

\* The rows at the positions left, in order.
RowsAt(left) ==
  LET upTo(i) == Cardinality({j \in left : j <= i})
  IN  [k \in 1 .. Cardinality(left) |-> table[CHOOSE i \in left : upTo(i) = k]]

DeleteRow ==
  /\ queue # <<>> /\ NextJob.kind = "deleted"
  /\ table' = RowsAt({i \in DOMAIN table : table[i].tx \notin NextJob.txs})
  /\ queue' = Tail(queue)
  /\ UNCHANGED <<vars, phase, rows>>

-----------------------------------------------------------------------------
(***************************************************************************)
(* A restart: BRWalletNew takes over the rows one by one, generates the    *)
(* addresses, recounts, and looks at the first row.                        *)
(***************************************************************************)
RowOf(t) == SelectInSeq(table, LAMBDA r : r.tx = t)

EmptyBooks ==
  /\ balance' = 0 /\ totalSent' = 0 /\ totalReceived' = 0
  /\ utxos' = {} /\ balanceHist' = <<>> /\ spentOutputs' = {}
  /\ invalidTx' = {} /\ pendingTx' = {} /\ usedAddrs' = {}
  /\ scan' = NoScan /\ upd' = NoUpd
  /\ allTx' = {} /\ transactions' = <<>> /\ blockHeight' = 0

Restart ==
  /\ EmptyBooks
  /\ chainLen' = [c \in Chains |-> 0]
  /\ height' = [t \in Tx |-> IF RowOf(t) = 0 THEN TX_UNCONFIRMED ELSE table[RowOf(t)].h]
  /\ timestamp' = [t \in Tx |-> IF RowOf(t) = 0 THEN 0 ELSE table[RowOf(t)].ts]
  /\ told' = [balance |-> 0, alert |-> "none",
              height |-> [t \in Tx |-> IF RowOf(t) = 0 THEN -1 ELSE table[RowOf(t)].h]]
  /\ todo' = <<>> /\ queue' = <<>>
  /\ phase' = "loading" /\ rows' = table
  /\ UNCHANGED <<table, now>>

LoadTx ==
  LET t == Head(rows).tx
  IN  /\ phase = "loading" /\ rows # <<>>
      /\ IF t \in allTx THEN UNCHANGED <<allTx, transactions, usedAddrs>>
         ELSE /\ allTx' = allTx \cup {t}
              /\ transactions' = InsertTx(height, transactions, t)
              /\ usedAddrs' = usedAddrs \cup {a \in AddrsOf(t) : a.chain # "none"}
      /\ rows' = Tail(rows)
      /\ UNCHANGED <<height, timestamp, blockHeight, chainLen, balance, totalSent,
                     totalReceived, utxos, balanceHist, spentOutputs, invalidTx,
                     pendingTx, scan, upd, todo, told, now, table, queue, phase>>

Loaded ==
  /\ phase = "loading" /\ rows = <<>>
  /\ chainLen' = [c \in Chains |-> GrownLen(c, GAP_LIMIT[c])]
  /\ todo' = <<Recount>>
  /\ phase' = "checking"
  /\ UNCHANGED <<holdings, blockHeight, books, scan, upd, told, now, table, queue, rows>>

Recounts ==
  /\ phase = "checking" /\ Work
  /\ UNCHANGED store

IsOurs == table # <<>> => ContainsTx(table[1].tx)

Accepted ==
  /\ phase = "checking" /\ Idle /\ IsOurs
  /\ phase' = "up"
  /\ UNCHANGED <<vars, table, queue, rows>>

\* The wallet is none, and its database is removed: the application begins
\* anew, without transactions.
Refused ==
  /\ phase = "checking" /\ Idle /\ ~ IsOurs
  /\ EmptyBooks
  /\ chainLen' = GAP_LIMIT
  /\ height' = [t \in Tx |-> TX_UNCONFIRMED] /\ timestamp' = [t \in Tx |-> 0]
  /\ told' = [balance |-> 0, height |-> [t \in Tx |-> -1], alert |-> "none"]
  /\ todo' = <<>> /\ table' = <<>> /\ phase' = "up"
  /\ UNCHANGED <<now, queue, rows>>

StoreNext ==
  \/ WalletStep
  \/ InsertRow \/ UpdateRow \/ DeleteRow
  \/ Restart
  \/ LoadTx \/ Loaded \/ Recounts \/ Accepted \/ Refused

StoreSpec == StoreInit /\ [][StoreNext]_storeVars

-----------------------------------------------------------------------------
\* The table holds what the wallet lists, once each and at its height, and the
\* listener was told of just that (txAdded, txUpdated and txDeleted against
\* loadTransactions), as soon as no operation, callback or job is under way:
\* also after restarts that lost a part of the queue or came in the middle of
\* an operation or of a job.  It takes OwnListed: what is listed and freed is
\* still in the table.
StoreAgrees ==
  phase = "up" /\ Idle /\ queue = <<>> =>
    /\ IsInjective([i \in DOMAIN table |-> table[i].tx])
    /\ {<<r.tx, r.h>> : r \in ToSet(table)} = {<<t, height[t]>> : t \in Registered}
    /\ told.height = [t \in Tx |-> IF t \in Registered THEN height[t] ELSE -1]

\* A confirmed transaction that is removed and freed is not the wallet's:
\* _BRWalletUpdateTransactions frees nothing that the wallet lists.  It holds
\* until a restart generates fewer addresses than what is listed pays to.
OwnListed == Running("set") /\ Top.tx \in Registered => ContainsTx(Top.tx)

\* What the wallet stored as its own it accepts as its own after a restart:
\* BRWalletNew refuses transactions that do not match its keys, no others.
NeverRefused == phase = "checking" /\ Idle => IsOurs
=============================================================================
