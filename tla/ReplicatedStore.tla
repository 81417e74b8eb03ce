-------------------------- MODULE ReplicatedStore --------------------------
(***************************************************************************)
(* The replicated key value store of the Litecoin wallet                   *)
(* (BRReplicatedKVStore.swift): every change of a key is a new row of an   *)
(* SQLite table; a sync compares the newest row of a key with the object   *)
(* on the server and lets the last writer win, while the application goes  *)
(* on writing, other devices change the server, requests fail, and the     *)
(* process may end at any moment.                                          *)
(*                                                                         *)
(* Only the newest row of a key is read by the code modelled, so rows[k]   *)
(* is that row; version 0 stands for none.  Each database transaction is   *)
(* one action, so is each answer of the server.  The server is external:   *)
(* what the adaptor (BRAPIClient+KV.swift) asks of it.  A value removed is *)
(* the content Removed.                                                    *)
(***************************************************************************)
EXTENDS Integers, FiniteSets

CONSTANTS
  Key, Value, Removed,
  Garbage,       \* a value of another device that this one cannot decrypt
  Call,          \* calls of syncKey and syncAllKeys, numbered as they are made
  Resolution,    \* clock ticks in the second that Last-Modified is cut to
  Permits,       \* the semaphore's value in syncAllKeys
  MaxNow, MaxWrites, MaxOthers, MaxRestarts    \* bounds

ASSUME StoreAssumption ==
  /\ Removed \notin Value /\ Garbage \in Value
  /\ Call \subseteq Nat
  /\ Resolution \in Nat \ {0} /\ Permits \in Nat \ {0}
  /\ {MaxNow, MaxWrites, MaxOthers, MaxRestarts} \subseteq Nat /\ MaxNow >= Resolution

VARIABLES
  rows,          \* rows[k]: the newest row of the kvstore table
  server,        \* server[k]: the remote object
  running,       \* syncRunning
  call,          \* the state of each sync
  job,           \* job[c][k]: what _syncKey of k, called by c, waits for
  now,           \* the time
  disturbed,     \* ghost: <<c, k>> if somebody else wrote k while c ran
  writes, others, restarts    \* counters for the bounds

device == <<rows, running, call, job>>
counters == <<writes, others, restarts>>
rest == <<disturbed, counters>>
vars == <<device, server, now, rest>>

Content == Value \cup {Removed}

\* written: when the content was given, here or elsewhere (no column of the
\* table: it is what thetime is compared for).
Row == [version: Nat, recorded: Nat, content: Content, time: Nat, written: Nat]
Object == [version: Nat, content: Content, time: Nat, written: Nat]
Idle == [at |-> "idle"]
Steps == {"idle", "ver", "compare", "read", "put", "del", "get", "store",
          "spoiled", "drop", "record", "ended"}
States == {"idle", "entering", "listing", "listed", "fanned", "dropped", "ended", "gone"}

None == [version |-> 0, recorded |-> 0, content |-> Removed, time |-> 0, written |-> 0]
Missing == [version |-> 0, content |-> Removed, time |-> 0, written |-> 0]
Fresh == [state |-> "idle", keys |-> {}, seen |-> [k \in Key |-> Missing],
          all |-> FALSE, failed |-> FALSE]

\* The first second is over: a time cut is not 0, the time of no row.
Init ==
  /\ rows = [k \in Key |-> None]
  /\ server = [k \in Key |-> Missing]
  /\ running = FALSE
  /\ call = [c \in Call |-> Fresh]
  /\ job = [c \in Call |-> [k \in Key |-> Idle]]
  /\ now = Resolution /\ disturbed = {} /\ writes = 0 /\ others = 0 /\ restarts = 0

---------------------------------------------------------------------------
\* The local transactions.

FaultCurrent(k, localVer) == rows[k].version >= localVer

\* A row for k after the newest one, which must still be localVer.
Current(k, localVer) == rows[k].version = localVer

FaultNewRow(k, content, recorded, written) ==
  [version |-> rows[k].version + 1, content |-> content, time |-> now, written |-> written,
   recorded |-> IF recorded = 0 THEN rows[k].recorded ELSE recorded]

NewRow(k, content, recorded, written) ==
  [version |-> rows[k].version + 1, recorded |-> recorded, content |-> content,
   time |-> now, written |-> written]

Active == {c \in Call : call[c].state \notin {"idle", "ended", "gone"}}

\* A write of k is noted for the syncs under way but its own.
Disturb(calls, k) == disturbed' = disturbed \cup (calls \X {k})

\* set(): the application has read the newest version.
Set(k, v) ==
  /\ writes < MaxWrites /\ v # Garbage
  /\ rows' = [rows EXCEPT ![k] = NewRow(k, v, 0, now)]
  /\ writes' = writes + 1
  /\ Disturb(Active, k)
  /\ UNCHANGED <<server, running, call, job, now, others, restarts>>

\* del(): a version of 0 is notFound.
Del(k) ==
  /\ writes < MaxWrites /\ rows[k].version # 0
  /\ rows' = [rows EXCEPT ![k] = NewRow(k, Removed, 0, now)]
  /\ writes' = writes + 1
  /\ Disturb(Active, k)
  /\ UNCHANGED <<server, running, call, job, now, others, restarts>>

---------------------------------------------------------------------------
\* The server, as the adaptor uses it.  A version that is not the current
\* one is a conflict; creating takes 1 or 0 and gives 2, so that no version
\* stands for two objects.

Accepts(k, version) == \/ version = server[k].version
                       \/ server[k].version = 0 /\ version = 1

Successor(k) == IF server[k].version = 0 THEN 2 ELSE server[k].version + 1

Stored(k, content, written) ==
  [version |-> Successor(k), content |-> content, time |-> now, written |-> written]

\* Another device changes or removes the object.
Elsewhere(k, content) ==
  /\ others < MaxOthers
  /\ content = Removed => server[k].version # 0 /\ server[k].content # Removed
  /\ server' = [server EXCEPT ![k] = Stored(k, content, now)]
  /\ others' = others + 1
  /\ Disturb(Active, k)
  /\ UNCHANGED <<device, now, writes, restarts>>

\* What a HEAD answers: Last-Modified has whole seconds.
Head(k) == [server[k] EXCEPT !.time = @ - (@ % Resolution)]
---------------------------------------------------------------------------
\* Beginning and ending a sync.  syncRunning is read and then set.

Check(c, keys, all) ==
  /\ call[c].state = "idle" /\ \A d \in Call : d < c => call[d].state # "idle"
  /\ ~running
  /\ call' = [call EXCEPT ![c] = [Fresh EXCEPT !.state = "entering", !.keys = keys, !.all = all]]
  /\ UNCHANGED <<rows, running, job, server, now, rest>>

\* syncKey asks for the version of its key, syncAllKeys for the list of keys.
SyncKey(c) ==
  /\ call[c].state = "entering" /\ ~call[c].all
  /\ running' = TRUE
  /\ call' = [call EXCEPT ![c].state = "fanned", ![c].keys = {}]
  /\ job' = [job EXCEPT ![c] = [k \in Key |-> IF k \in call[c].keys THEN [at |-> "ver"] ELSE Idle]]
  /\ UNCHANGED <<rows, server, now, rest>>

SyncAllKeys(c) ==
  /\ call[c].state = "entering" /\ call[c].all
  /\ running' = TRUE
  /\ call' = [call EXCEPT ![c].state = "listing"]
  /\ UNCHANGED <<rows, server, job, now, rest>>

\* The list has the time in milliseconds.
AnswerList(c) ==
  /\ call[c].state = "listing"
  /\ call' = [call EXCEPT ![c].state = "listed", ![c].seen = server]
  /\ UNCHANGED <<rows, running, job, server, now, rest>>

\* The list is lost, or the keys of the table cannot be read.
LoseList(c) ==
  /\ call[c].state \in {"listing", "listed"}
  /\ running' = FALSE
  /\ call' = [call EXCEPT ![c].state = "ended", ![c].failed = TRUE]
  /\ UNCHANGED <<rows, job, server, now, rest>>

\* The keys the server has, and those only the table has.
FanOut(c) ==
  /\ call[c].state = "listed"
  /\ call' = [call EXCEPT ![c].state = "fanned",
        ![c].keys = {k \in Key : call[c].seen[k].version # 0 \/ rows[k].version # 0}]
  /\ UNCHANGED <<rows, running, job, server, now, rest>>

Busy(c) == {k \in Key : job[c][k].at \notin {"idle", "ended"}}

Compare(seen, err) == [at |-> "compare", seen |-> seen, err |-> err]
ErrOf(seen) == IF seen.version # 0 /\ seen.content = Removed THEN "tombstone" ELSE "none"

StartKey(c, k) ==
  /\ call[c].state = "fanned" /\ k \in call[c].keys
  /\ Cardinality(Busy(c)) < Permits
  /\ call' = [call EXCEPT ![c].keys = @ \ {k}, ![c].seen[k] = Missing]
  /\ job' = [job EXCEPT ![c][k] = Compare(call[c].seen[k], ErrOf(call[c].seen[k]))]
  /\ UNCHANGED <<rows, running, server, now, rest>>

\* _syncKey's completion handler, called with an error or nil.
Completed(c, k, failed) ==
  /\ job' = [job EXCEPT ![c][k] = [at |-> "ended"]]
  /\ IF call[c].all
     THEN running' = running /\ call' = [call EXCEPT ![c].failed = @ \/ failed]
     ELSE running' = FALSE /\ call' = [call EXCEPT ![c].failed = @ \/ failed, ![c].state = "ended"]

FaultAllDone(c) ==
  /\ call[c].all /\ call[c].state = "fanned" /\ call[c].keys = {} /\ Busy(c) = {}
  /\ call' = [call EXCEPT ![c].state = "ended"]
  /\ UNCHANGED <<rows, running, job, server, now, rest>>

\* The group of syncAllKeys is empty.
AllDone(c) ==
  /\ call[c].all /\ call[c].state = "fanned" /\ call[c].keys = {} /\ Busy(c) = {}
  /\ running' = FALSE
  /\ call' = [call EXCEPT ![c].state = "ended"]
  /\ UNCHANGED <<rows, job, server, now, rest>>
---------------------------------------------------------------------------
\* The answer to syncKey's HEAD, or none.
AnswerVer(c, k) ==
  /\ job[c][k].at = "ver" /\ call[c].state # "gone"
  /\ job' = [job EXCEPT ![c][k] =
       Compare(Head(k), IF server[k].version = 0 THEN "notFound" ELSE ErrOf(server[k]))]
  /\ UNCHANGED <<rows, running, call, server, now, rest>>

LoseVer(c, k) ==
  /\ job[c][k].at = "ver" /\ call[c].state # "gone"
  /\ job' = [job EXCEPT ![c][k] = Compare(Missing, "unknown")]
  /\ UNCHANGED <<rows, running, call, server, now, rest>>

\* _syncKey throws.  syncAllKeys counts a failure; syncKey drops the error, and
\* with it the handler that would answer its caller and reset syncRunning.
Thrown(c, k) ==
  /\ job' = [job EXCEPT ![c][k] = [at |-> "ended"]]
  /\ call' = [call EXCEPT ![c].failed = TRUE,
                ![c].state = IF call[c].all THEN @ ELSE "dropped"]
  /\ UNCHANGED <<rows, running, server, now, rest>>

\* No sync is running any more.
NotRunning(c, k) == job[c][k].at = "compare" /\ ~running /\ Thrown(c, k)

\* The database fails, or the value here cannot be decrypted.
Unreadable(c, k) ==
  /\ \/ job[c][k].at = "compare" /\ running
     \/ job[c][k].at = "read"
  /\ Thrown(c, k)

CompareVersions(c, k) ==
  LET j == job[c][k] IN
  /\ j.at = "compare" /\ running
  /\ IF j.err # "notFound" /\ j.seen.version > 0 /\ rows[k].recorded = j.seen.version
     THEN Completed(c, k, FALSE)
     ELSE /\ job' = [job EXCEPT ![c][k] =
               [at |-> "read", seen |-> j.seen, err |-> j.err, recorded |-> rows[k].recorded]]
          /\ UNCHANGED <<running, call>>
  /\ UNCHANGED <<rows, server, now, rest>>

\* What the newest row and the server's version and time call for.
UseRemoteVer(j) == IF j.seen.version = 0 \/ j.seen.version < j.recorded
                   THEN 1 ELSE j.seen.version

Decision(r, j) ==
  LET deleted == r.version # 0 /\ r.content = Removed
      ask(at, version) == [at |-> at, localVer |-> r.version, version |-> version,
                           content |-> r.content, written |-> r.written]
  IN CASE deleted /\ j.err = "tombstone" ->
            [at |-> "record", localVer |-> r.version, version |-> j.seen.version]
       [] r.time >= j.seen.time /\ deleted /\ j.err # "tombstone" -> ask("del", j.seen.version)
       [] r.time >= j.seen.time /\ ~deleted -> ask("put", UseRemoteVer(j))
       [] r.time < j.seen.time /\ ~deleted /\ j.err = "tombstone" ->
            [at |-> "drop", localVer |-> r.version, version |-> j.seen.version,
             written |-> j.seen.written]
       [] OTHER -> ask("get", j.seen.version)

Decide(c, k) ==
  /\ job[c][k].at = "read"
  /\ IF job[c][k].err = "unknown"
     THEN Completed(c, k, TRUE)
     ELSE /\ job' = [job EXCEPT ![c][k] = Decision(rows[k], job[c][k])]
          /\ UNCHANGED <<running, call>>
  /\ UNCHANGED <<rows, server, now, rest>>

---------------------------------------------------------------------------
\* A request reaches the server and is answered.  Of a process that has
\* ended, requests may still arrive; nobody takes the answer.

Record(localVer, version) == [at |-> "record", localVer |-> localVer, version |-> version]

Answered(c, k, next) ==
  /\ job' = [job EXCEPT ![c][k] = IF call[c].state = "gone" THEN Idle ELSE next]
  /\ UNCHANGED <<running, call>>

FaultRefused(c, k) ==
  IF call[c].state = "gone" THEN Answered(c, k, Idle) ELSE Completed(c, k, FALSE)

Refused(c, k) == IF call[c].state = "gone" THEN Answered(c, k, Idle) ELSE Completed(c, k, TRUE)

Applies(j, k) == CASE j.at = "put" -> Accepts(k, j.version)
                   [] j.at = "del" -> server[k].version # 0 /\ j.version = server[k].version
                   [] OTHER -> FALSE

AnswerWrite(c, k) ==
  LET j == job[c][k] IN
  /\ Applies(j, k)
  /\ server' = [server EXCEPT ![k] = Stored(k, j.content, j.written)]
  /\ Disturb(Active \ {c}, k)
  /\ Answered(c, k, Record(j.localVer, Successor(k)))
  /\ UNCHANGED <<rows, now, counters>>

\* A conflict, or a DELETE of what the server does not have.
RefuseWrite(c, k) ==
  LET j == job[c][k] IN
  /\ j.at \in {"put", "del"} /\ ~Applies(j, k)
  /\ IF j.at = "del" /\ server[k].version = 0 /\ call[c].state # "gone"
     THEN Completed(c, k, FALSE)
     ELSE Refused(c, k)
  /\ UNCHANGED <<rows, server, now, rest>>

\* The request or its answer is lost.
LoseWrite(c, k) ==
  LET j == job[c][k] IN
  /\ j.at \in {"put", "del"}
  /\ \/ UNCHANGED <<server, disturbed>>
     \/ /\ Applies(j, k) /\ Disturb(Active \ {c}, k)
        /\ server' = [server EXCEPT ![k] = Stored(k, j.content, j.written)]
  /\ Refused(c, k)
  /\ UNCHANGED <<rows, now, counters>>

AnswerGet(c, k) ==
  LET j == job[c][k] IN
  /\ j.at = "get" /\ j.version = server[k].version /\ server[k].content # Removed
  /\ Answered(c, k,
       [at |-> IF server[k].content = Garbage THEN "spoiled" ELSE "store",
        localVer |-> j.localVer, version |-> j.version,
        content |-> server[k].content, written |-> server[k].written])
  /\ UNCHANGED <<rows, server, now, rest>>

RefuseGet(c, k) ==
  /\ job[c][k].at = "get"
  /\ Refused(c, k)
  /\ UNCHANGED <<rows, server, now, rest>>

---------------------------------------------------------------------------
\* The transactions of a sync.

Replace(c, k, row) == rows' = [rows EXCEPT ![k] = row] /\ Disturb(Active \ {c}, k)

\* _set of the value fetched.
Store(c, k) ==
  LET j == job[c][k] IN
  /\ j.at = "store"
  /\ IF Current(k, j.localVer)
     THEN /\ Replace(c, k, NewRow(k, j.content, 0, j.written))
          /\ job' = [job EXCEPT ![c][k] = Record(j.localVer + 1, j.version)]
          /\ UNCHANGED <<running, call>>
     ELSE UNCHANGED <<rows, disturbed>> /\ Completed(c, k, TRUE)
  /\ UNCHANGED <<server, now, counters>>

\* _del of a key the server has removed; a key that was never here is fine.
Drop(c, k) ==
  LET j == job[c][k] IN
  /\ j.at = "drop"
  /\ IF j.localVer # 0 /\ Current(k, j.localVer)
     THEN /\ Replace(c, k, NewRow(k, Removed, 0, j.written))
          /\ job' = [job EXCEPT ![c][k] = Record(j.localVer + 1, j.version)]
          /\ UNCHANGED <<running, call>>
     ELSE UNCHANGED <<rows, disturbed>> /\ Completed(c, k, j.localVer # 0)
  /\ UNCHANGED <<server, now, counters>>

\* What cannot be decrypted removes what is here.
Spoil(c, k) ==
  LET j == job[c][k] IN
  /\ j.at = "spoiled"
  /\ IF j.localVer # 0 /\ Current(k, j.localVer)
     THEN Replace(c, k, NewRow(k, Removed, 0, now))
     ELSE UNCHANGED <<rows, disturbed>>
  /\ Completed(c, k, TRUE)
  /\ UNCHANGED <<server, now, counters>>

\* setRemoteVersion: the same content in a row with the time of now.
SetRemoteVersion(c, k) ==
  LET j == job[c][k] IN
  /\ j.at = "record"
  /\ IF j.localVer # 0 /\ Current(k, j.localVer)
     THEN /\ rows' = [rows EXCEPT ![k] = NewRow(k, @.content, j.version, @.written)]
          /\ Completed(c, k, FALSE)
     ELSE UNCHANGED rows /\ Completed(c, k, TRUE)
  /\ UNCHANGED <<server, now, rest>>

\* The database fails: the transaction is rolled back.
RollBack(c, k) ==
  /\ job[c][k].at \in {"store", "drop", "spoiled", "record"}
  /\ Completed(c, k, TRUE)
  /\ UNCHANGED <<rows, server, now, rest>>

FaultRestart ==
  /\ restarts < MaxRestarts
  /\ restarts' = restarts + 1
  /\ running' = FALSE
  /\ call' = [c \in Call |-> IF c \in Active THEN [Fresh EXCEPT !.state = "gone"] ELSE call[c]]
  /\ UNCHANGED <<rows, job, server, now, disturbed, writes, others>>

\* The process ends and begins again.
Restart ==
  /\ restarts < MaxRestarts
  /\ restarts' = restarts + 1
  /\ running' = FALSE
  /\ call' = [c \in Call |-> IF c \in Active THEN [Fresh EXCEPT !.state = "gone"] ELSE call[c]]
  /\ job' = [c \in Call |-> [k \in Key |->
       IF c \in Active /\ job[c][k].at \notin {"put", "del"} THEN Idle ELSE job[c][k]]]
  /\ UNCHANGED <<rows, server, now, disturbed, writes, others>>

Tick == now < MaxNow /\ now' = now + 1 /\ UNCHANGED <<device, server, rest>>

---------------------------------------------------------------------------
Write == \E k \in Key : Del(k) \/ \E v \in Value : Set(k, v)
Others == \E k \in Key, v \in Content : Elsewhere(k, v)
Begin(c) == \/ \E k \in Key : rows[k].version # 0 /\ Check(c, {k}, FALSE)
            \/ Check(c, {}, TRUE)
Proceed(c) == SyncKey(c) \/ SyncAllKeys(c) \/ FanOut(c) \/ AllDone(c)
                \/ \E k \in Key : StartKey(c, k)
Decides(c, k) ==
  NotRunning(c, k) \/ Unreadable(c, k) \/ CompareVersions(c, k) \/ Decide(c, k)
Transact(c, k) ==
  Store(c, k) \/ Drop(c, k) \/ Spoil(c, k) \/ SetRemoteVersion(c, k) \/ RollBack(c, k)
Answer(c, k) == AnswerVer(c, k) \/ AnswerWrite(c, k) \/ RefuseWrite(c, k) \/ AnswerGet(c, k)
Lose(c, k) == LoseVer(c, k) \/ LoseWrite(c, k) \/ RefuseGet(c, k)

Next ==
  \/ Write \/ Others \/ Restart \/ Tick
  \/ \E c \in Call : Begin(c) \/ Proceed(c) \/ AnswerList(c) \/ LoseList(c)
  \/ \E c \in Call, k \in Key : Decides(c, k) \/ Transact(c, k) \/ Answer(c, k) \/ Lose(c, k)

\* Threads run and every request is answered or times out.
Fairness ==
  /\ \A c \in Call : WF_vars(Proceed(c)) /\ WF_vars(AnswerList(c) \/ LoseList(c))
  /\ \A c \in Call, k \in Key :
       /\ WF_vars(Decides(c, k)) /\ WF_vars(Transact(c, k))
       /\ WF_vars(Answer(c, k) \/ Lose(c, k))

Spec == Init /\ [][Next]_vars /\ Fairness

---------------------------------------------------------------------------
\* Properties.

\* The newest rows, the remote objects and the state of the syncs have their
\* types, and nothing but a write on its way outlives the sync it was for.
TypeOK ==
  /\ rows \in [Key -> Row] /\ server \in [Key -> Object] /\ running \in BOOLEAN
  /\ \A c \in Call :
       /\ call[c].state \in States /\ call[c].keys \subseteq Key
       /\ \A k \in Key :
            /\ job[c][k].at \in Steps
            /\ job[c][k].at \notin {"idle", "ended"} /\ c \notin Active
                 => call[c].state = "gone" /\ job[c][k].at \in {"put", "del"}
  /\ now \in 1 .. MaxNow

\* A row that records the server's version holds what the server holds: the
\* sync that finds the two versions the same (line 579) may do nothing.
RecordedAgrees == \A k \in Key :
  /\ rows[k].recorded <= server[k].version
  /\ rows[k].recorded # 0 /\ rows[k].recorded = server[k].version
       => rows[k].content = server[k].content

\* When a sync reports success, the table and the server hold the same for
\* every key it worked on, unless somebody else wrote it meanwhile: the
\* application, another device, or another sync.
SuccessMeansSame == [][\A c \in Call, k \in Key :
  c \in Active /\ call'[c].state = "ended" /\ ~call'[c].failed
    /\ job'[c][k].at = "ended" /\ <<c, k>> \notin disturbed'
    => rows'[k].content = server'[k].content]_vars

\* A sync never replaces what the application wrote here, or removed, unless
\* the server's object is the newer, however the writes fall between the
\* sync's reads, requests and transactions.
NewerKept == [][\A c \in Call, k \in Key :
  job'[c][k] # job[c][k] /\ rows'[k].content # rows[k].content
    => server[k].time > rows[k].written]_vars

\* A sync that sets syncRunning resets it, unless others go on setting it,
\* whatever requests, transactions and values fail, except that an error thrown
\* in a sync of a single key is dropped with what would have reset it.
SyncEnds == running ~> (~running \/ \E c \in Call : call[c].state = "dropped")

=============================================================================
