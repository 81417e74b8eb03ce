----------------------- MODULE ReplicatedStoreProofs -----------------------
(***************************************************************************)
(* The replicated key value store, for any keys, calls, writes and         *)
(* restarts: a version that is recorded is the version of what the table   *)
(* holds, a sync replaces only what is older than the server's object, and *)
(* one that reports success is right, unless somebody else wrote.          *)
(*                                                                         *)
(* A job remembers what it has read, from the table and from the server,   *)
(* and acts on it later.  What it remembers may be out of date, but not    *)
(* wrong: each change of a row or an object gives it a greater version, so *)
(* what is remembered is true if the version is still the same.  JobOK     *)
(* says that of a job j, a row r, an object s and the time t.  CallsOK is  *)
(* about types, SyncInv about the syncs that nobody has disturbed.         *)
(***************************************************************************)
EXTENDS ReplicatedStore, TLAPS

\* What is remembered of an object: it has had this version, with this content.
Was(s, version, content) ==
  /\ version \in Nat /\ version <= s.version
  /\ version = s.version => content = s.content

SeenOK(o, s) ==
  /\ o \in Object /\ Was(s, o.version, o.content)
  /\ o.time <= s.time /\ o.written <= s.time

\* What is remembered of a row.
Held(r, localVer, content) ==
  /\ localVer \in Nat /\ localVer <= r.version
  /\ localVer = r.version => content = r.content

\* The server's object is newer than the row read, if that is still there.
Outdated(r, localVer, s) ==
  /\ localVer \in Nat /\ localVer <= r.version
  /\ localVer = r.version => r.written < s.time

Written(j, t) == j.content \in Content /\ j.written \in Nat /\ j.written <= t

JobOK(j, r, s, t) ==
  /\ j.at \in {"compare", "read"} =>
       SeenOK(j.seen, s) /\ (j.err = "tombstone" => j.seen.content = Removed)
  /\ j.at \in {"put", "del"} => Held(r, j.localVer, j.content) /\ Written(j, t)
  /\ j.at \in {"get", "store", "spoiled", "drop"} => Outdated(r, j.localVer, s)
  /\ j.at = "store" => Was(s, j.version, j.content) /\ Written(j, t)
  /\ j.at = "drop" =>
       Was(s, j.version, Removed) /\ j.written \in Nat /\ j.written <= t
  /\ j.at = "record" =>
       /\ j.localVer \in Nat /\ j.localVer <= r.version
       /\ j.version \in Nat /\ j.version <= s.version
       /\ j.localVer = r.version /\ j.version = s.version => r.content = s.content

RowOK(r, s, t) ==
  /\ r \in Row
  /\ r.written <= r.time /\ r.time <= t
  /\ r.recorded <= s.version
  /\ r.recorded # 0 /\ r.recorded = s.version => r.content = s.content

ObjectOK(s, t) ==
  /\ s \in Object
  /\ s.written <= s.time /\ s.time <= t
  /\ s.version = 0 => s.content = Removed

\* Later rows and objects of a key.
LaterRow(r, r2) == r2 = r \/ r2.version > r.version
LaterObject(s, s2) == s2 = s \/ (s2.version > s.version /\ s2.time >= s.time)

CallRec == [state: States, keys: SUBSET Key, seen: [Key -> Object],
            all: BOOLEAN, failed: BOOLEAN]

Shapes ==
  /\ rows \in [Key -> Row] /\ server \in [Key -> Object]
  /\ call \in [Call -> CallRec]
  /\ DOMAIN job = Call /\ \A c \in Call : DOMAIN job[c] = Key
  /\ now \in Nat

KeysOK == \A k \in Key : RowOK(rows[k], server[k], now) /\ ObjectOK(server[k], now)

SeenAll == \A c \in Call, k \in Key : SeenOK(call[c].seen[k], server[k])

JobsOK == \A c \in Call, k \in Key : JobOK(job[c][k], rows[k], server[k], now)

StoreInv == Shapes /\ KeysOK /\ SeenAll /\ JobsOK

-----------------------------------------------------------------------------
\* What is remembered stays true.
LEMMA SeenStays ==
  ASSUME NEW o, NEW s \in Object, NEW s2 \in Object, SeenOK(o, s), LaterObject(s, s2)
  PROVE  SeenOK(o, s2)
BY DEF SeenOK, Was, LaterObject, Object

LEMMA JobStays ==
  ASSUME NEW j, NEW r \in Row, NEW r2 \in Row, NEW s \in Object, NEW s2 \in Object,
         NEW t \in Nat, NEW t2 \in Nat, t <= t2,
         LaterRow(r, r2), LaterObject(s, s2), JobOK(j, r, s, t)
  PROVE  JobOK(j, r2, s2, t2)
<1>1. j.at \in {"compare", "read"} =>
        SeenOK(j.seen, s2) /\ (j.err = "tombstone" => j.seen.content = Removed)
  BY SeenStays DEF JobOK
<1>2. j.at \in {"put", "del"} => Held(r2, j.localVer, j.content) /\ Written(j, t2)
  BY DEF JobOK, Held, Written, LaterRow, Row
<1>3. j.at \in {"get", "store", "spoiled", "drop"} => Outdated(r2, j.localVer, s2)
  BY DEF JobOK, Outdated, LaterRow, LaterObject, Row, Object
<1>4. j.at = "store" => Was(s2, j.version, j.content) /\ Written(j, t2)
  BY DEF JobOK, Was, Written, LaterObject, Object
<1>5. j.at = "drop" => Was(s2, j.version, Removed) /\ j.written \in Nat /\ j.written <= t2
  BY DEF JobOK, Was, LaterObject, Object
<1>6. j.at = "record" =>
       /\ j.localVer \in Nat /\ j.localVer <= r2.version
       /\ j.version \in Nat /\ j.version <= s2.version
       /\ j.localVer = r2.version /\ j.version = s2.version => r2.content = s2.content
  BY DEF JobOK, LaterRow, LaterObject, Row, Object
<1> QED
  BY <1>1, <1>2, <1>3, <1>4, <1>5, <1>6 DEF JobOK

\* So of a step only what it changes is to be looked at.
LEMMA Kept ==
  ASSUME StoreInv, Shapes', now <= now',
         \A k \in Key : LaterRow(rows[k], rows'[k]) /\ LaterObject(server[k], server'[k]),
         \A k \in Key : RowOK(rows'[k], server'[k], now') /\ ObjectOK(server'[k], now'),
         \A c \in Call, k \in Key :
           call'[c].seen[k] = call[c].seen[k] \/ SeenOK(call'[c].seen[k], server'[k]),
         \A c \in Call, k \in Key :
           job'[c][k] = job[c][k] \/ JobOK(job'[c][k], rows'[k], server'[k], now')
  PROVE  StoreInv'
<1>1. KeysOK'
  BY DEF KeysOK
<1>2. SeenAll'
  BY SeenStays DEF SeenAll, StoreInv, Shapes
<1>3. JobsOK'
  <2> SUFFICES ASSUME NEW c \in Call, NEW k \in Key
               PROVE  JobOK(job'[c][k], rows'[k], server'[k], now')
    BY DEF JobsOK
  <2>1. JobOK(job[c][k], rows[k], server[k], now)
    BY DEF StoreInv, JobsOK
  <2>2. /\ rows[k] \in Row /\ rows'[k] \in Row /\ server[k] \in Object /\ server'[k] \in Object
        /\ now \in Nat /\ now' \in Nat
    BY DEF StoreInv, Shapes
  <2>3. JobOK(job[c][k], rows'[k], server'[k], now')
    BY <2>1, <2>2, JobStays
  <2> QED
    BY <2>3
<1> QED
  BY <1>1, <1>2, <1>3 DEF StoreInv

LEMMA InitOK == Init => StoreInv
<1> SUFFICES ASSUME Init PROVE StoreInv
  OBVIOUS
<1>1. Missing \in Object /\ None \in Row /\ Fresh \in CallRec
  BY DEF Missing, None, Fresh, Object, Row, Content, CallRec, States
<1>2. Shapes
  BY <1>1, StoreAssumption DEF Init, Shapes, StoreAssumption
<1>3. KeysOK
  BY <1>1, StoreAssumption DEF Init, KeysOK, RowOK, ObjectOK, None, Missing, StoreAssumption
<1>4. SeenAll
  BY <1>1 DEF Init, SeenAll, SeenOK, Was, Fresh, Missing
<1>5. JobsOK
  BY DEF Init, JobsOK, JobOK, Idle
<1> QED
  BY <1>2, <1>3, <1>4, <1>5 DEF StoreInv

-----------------------------------------------------------------------------
\* Steps that leave rows and objects alone.
LEMMA Quiet ==
  ASSUME StoreInv, UNCHANGED <<rows, server, now>>,
         call' \in [Call -> CallRec],
         DOMAIN job' = Call /\ \A c \in Call : DOMAIN job'[c] = Key,
         \A c \in Call, k \in Key :
           call'[c].seen[k] = call[c].seen[k] \/ SeenOK(call'[c].seen[k], server[k]),
         \A c \in Call, k \in Key :
           job'[c][k] = job[c][k] \/ JobOK(job'[c][k], rows[k], server[k], now)
  PROVE  StoreInv'
<1>1. Shapes'
  BY DEF StoreInv, Shapes
<1>2. now <= now'
  BY DEF StoreInv, Shapes
<1>3. \A k \in Key : /\ LaterRow(rows[k], rows'[k]) /\ LaterObject(server[k], server'[k])
                     /\ RowOK(rows'[k], server'[k], now') /\ ObjectOK(server'[k], now')
  BY DEF LaterRow, LaterObject, StoreInv, KeysOK
<1> QED
  BY <1>1, <1>2, <1>3, Kept

\* A job that has ended, or waits for a version, remembers nothing.
LEMMA Forgetful ==
  ASSUME NEW j, NEW r, NEW s, NEW t, j.at \in {"idle", "ver", "ended"}
  PROVE  JobOK(j, r, s, t)
BY DEF JobOK

LEMMA MissingSeen ==
  ASSUME StoreInv, NEW k \in Key
  PROVE  SeenOK(Missing, server[k]) /\ SeenOK(server[k], server[k])
BY DEF SeenOK, Was, Missing, StoreInv, Shapes, KeysOK, ObjectOK, Object, Content

LEMMA FreshRec == Fresh \in CallRec /\ \A k \in Key : Fresh.seen[k] = Missing
BY DEF Fresh, CallRec, Missing, Object, Content, States

LEMMA CheckOK ==
  ASSUME StoreInv, NEW c \in Call, NEW keys \in SUBSET Key, NEW all \in BOOLEAN,
         Check(c, keys, all)
  PROVE  StoreInv'
<1>1. call' \in [Call -> CallRec]
  BY FreshRec DEF Check, StoreInv, Shapes, CallRec, States
<1>2. \A d \in Call, k \in Key :
        call'[d].seen[k] = call[d].seen[k] \/ SeenOK(call'[d].seen[k], server[k])
  BY FreshRec, MissingSeen DEF Check, StoreInv, Shapes, CallRec
<1> QED
  BY <1>1, <1>2, Quiet DEF Check, StoreInv, Shapes

LEMMA CallChanged ==
  ASSUME StoreInv, NEW c \in Call, NEW r \in CallRec, r.seen = call[c].seen,
         call' = [call EXCEPT ![c] = r]
  PROVE  call' \in [Call -> CallRec] /\ \A d \in Call : call'[d].seen = call[d].seen
BY DEF StoreInv, Shapes

OneJobIs(c, k, j) ==
  /\ DOMAIN job' = Call /\ \A d \in Call : DOMAIN job'[d] = Key
  /\ \A d \in Call, l \in Key : job'[d][l] = IF d = c /\ l = k THEN j ELSE job[d][l]

LEMMA JobChanged ==
  ASSUME StoreInv, NEW c \in Call, NEW k \in Key, NEW j, job' = [job EXCEPT ![c][k] = j]
  PROVE  OneJobIs(c, k, j)
<1>1. DOMAIN job = Call /\ \A d \in Call : DOMAIN job[d] = Key
  BY DEF StoreInv, Shapes
<1>2. job' = [d \in Call |-> IF d = c THEN [job[c] EXCEPT ![k] = j] ELSE job[d]]
  BY <1>1
<1>3. \A l \in Key : [job[c] EXCEPT ![k] = j][l] = IF l = k THEN j ELSE job[c][l]
  BY <1>1
<1>4. DOMAIN [job[c] EXCEPT ![k] = j] = Key
  BY <1>1
<1> QED
  BY <1>1, <1>2, <1>3, <1>4 DEF OneJobIs

LEMMA JobStep ==
  ASSUME StoreInv, NEW c \in Call, NEW k \in Key, NEW j,
         JobOK(j, rows[k], server[k], now),
         job' = [job EXCEPT ![c][k] = j], UNCHANGED <<rows, server, now>>,
         call' \in [Call -> CallRec],
         \A d \in Call, l \in Key :
           call'[d].seen[l] = call[d].seen[l] \/ SeenOK(call'[d].seen[l], server[l])
  PROVE  StoreInv'
<1>0. OneJobIs(c, k, j)
  BY JobChanged
<1>1. /\ DOMAIN job' = Call /\ \A d \in Call : DOMAIN job'[d] = Key
      /\ \A d \in Call, l \in Key :
           job'[d][l] = IF d = c /\ l = k THEN j ELSE job[d][l]
  BY <1>0 DEF OneJobIs
<1>2. \A d \in Call, l \in Key :
        job'[d][l] = job[d][l] \/ JobOK(job'[d][l], rows[l], server[l], now)
  <2> SUFFICES ASSUME NEW d \in Call, NEW l \in Key
              PROVE  job'[d][l] = job[d][l] \/ JobOK(job'[d][l], rows[l], server[l], now)
    OBVIOUS
  <2>1. CASE d = c /\ l = k
    <3>1. job'[d][l] = j
      BY <2>1, <1>1
    <3> QED
      BY <2>1, <3>1
  <2>2. CASE ~ (d = c /\ l = k)
    BY <2>2, <1>1
  <2> QED
    BY <2>1, <2>2
<1> QED
  BY <1>1, <1>2, Quiet

LEMMA ProceedOK ==
  ASSUME StoreInv, NEW c \in Call, Proceed(c)
  PROVE  StoreInv'
<1> USE DEF StoreInv, Shapes
<1>1. CASE SyncKey(c)
  <2> DEFINE r == [call[c] EXCEPT !.state = "fanned", !.keys = {}]
  <2>0. r \in CallRec /\ r.seen = call[c].seen
    BY DEF CallRec, States
  <2>1. call' \in [Call -> CallRec] /\ \A d \in Call : call'[d].seen = call[d].seen
    <3>1. call' = [call EXCEPT ![c] = r]
      BY <1>1 DEF SyncKey
    <3> QED
      BY <2>0, <3>1
  <2>2. /\ DOMAIN job' = Call /\ \A d \in Call : DOMAIN job'[d] = Key
        /\ \A d \in Call, k \in Key :
             job'[d][k] = job[d][k] \/ job'[d][k].at \in {"ver", "idle"}
    BY <1>1 DEF SyncKey, Idle
  <2> QED
    BY <1>1, <2>1, <2>2, Forgetful, Quiet DEF SyncKey
<1>2. CASE SyncAllKeys(c) \/ FanOut(c) \/ AllDone(c)
  <2>1. \E st \in States, ks \in SUBSET Key :
          call' = [call EXCEPT ![c] = [call[c] EXCEPT !.state = st, !.keys = ks]]
    <3>1. CASE SyncAllKeys(c)
      <4>1. call' = [call EXCEPT ![c] = [call[c] EXCEPT !.state = "listing", !.keys = call[c].keys]]
        BY <3>1 DEF SyncAllKeys, CallRec
      <4> QED
        BY <4>1 DEF CallRec, States
    <3>2. CASE FanOut(c)
      <4> DEFINE ks == {k \in Key : call[c].seen[k].version # 0 \/ rows[k].version # 0}
      <4>1. call' = [call EXCEPT ![c] = [call[c] EXCEPT !.state = "fanned", !.keys = ks]]
        BY <3>2 DEF FanOut
      <4> QED
        BY <4>1 DEF States
    <3>3. CASE AllDone(c)
      <4>1. call' = [call EXCEPT ![c] = [call[c] EXCEPT !.state = "ended", !.keys = call[c].keys]]
        BY <3>3 DEF AllDone, CallRec
      <4> QED
        BY <4>1 DEF CallRec, States
    <3> QED
      BY <1>2, <3>1, <3>2, <3>3
  <2>2. call' \in [Call -> CallRec] /\ \A d \in Call : call'[d].seen = call[d].seen
    <3>1. PICK st \in States, ks \in SUBSET Key :
            call' = [call EXCEPT ![c] = [call[c] EXCEPT !.state = st, !.keys = ks]]
      BY <2>1
    <3> DEFINE r == [call[c] EXCEPT !.state = st, !.keys = ks]
    <3>2. r \in CallRec /\ r.seen = call[c].seen
      BY DEF CallRec
    <3> HIDE DEF r
    <3> QED
      BY <3>1, <3>2, CallChanged DEF r
  <2> QED
    BY <1>2, <2>2, Quiet DEF SyncAllKeys, FanOut, AllDone
<1>3. ASSUME NEW k \in Key, StartKey(c, k) PROVE StoreInv'
  <2> DEFINE o == call[c].seen[k]
  <2> DEFINE r == [call[c] EXCEPT !.keys = @ \ {k}, !.seen[k] = Missing]
  <2>0. Missing \in Object
    BY MissingSeen DEF SeenOK
  <2>1. r \in CallRec /\ \A l \in Key : r.seen[l] = IF l = k THEN Missing ELSE call[c].seen[l]
    BY <2>0 DEF CallRec
  <2>2. call' \in [Call -> CallRec] /\ \A d \in Call, l \in Key :
          call'[d].seen[l] = call[d].seen[l] \/ call'[d].seen[l] = Missing
    <3>1. call' = [call EXCEPT ![c] = r]
      BY <1>3 DEF StartKey
    <3> QED
      BY <2>1, <3>1
  <2> DEFINE j == Compare(o, ErrOf(o))
  <2>3. JobOK(j, rows[k], server[k], now)
    BY DEF SeenAll, JobOK, Compare, ErrOf
  <2>4. job' = [job EXCEPT ![c][k] = j] /\ UNCHANGED <<rows, server, now>>
    BY <1>3 DEF StartKey
  <2>5. \A d \in Call, l \in Key :
          call'[d].seen[l] = call[d].seen[l] \/ SeenOK(call'[d].seen[l], server[l])
    BY <2>2, MissingSeen
  <2> HIDE DEF j, r
  <2> QED
    BY <2>2, <2>3, <2>4, <2>5, JobStep
<1> QED
  BY <1>1, <1>2, <1>3 DEF Proceed

LEMMA ListOK ==
  ASSUME StoreInv, NEW c \in Call, AnswerList(c) \/ LoseList(c)
  PROVE  StoreInv'
<1> USE DEF StoreInv, Shapes
<1>1. \E r \in CallRec : /\ call' = [call EXCEPT ![c] = r]
                         /\ r.seen = server \/ r.seen = call[c].seen
  <2>1. CASE AnswerList(c)
    <3> DEFINE r == [call[c] EXCEPT !.state = "listed", !.seen = server]
    <3>1. r \in CallRec /\ r.seen = server
      BY DEF CallRec, States
    <3> QED
      BY <2>1, <3>1 DEF AnswerList
  <2>2. CASE LoseList(c)
    <3> DEFINE r == [call[c] EXCEPT !.state = "ended", !.failed = TRUE]
    <3>1. r \in CallRec /\ r.seen = call[c].seen
      BY DEF CallRec, States
    <3> QED
      BY <2>2, <3>1 DEF LoseList
  <2> QED
    BY <2>1, <2>2
<1>2. call' \in [Call -> CallRec]
  BY <1>1
<1>3. \A d \in Call, k \in Key :
        call'[d].seen[k] = call[d].seen[k] \/ call'[d].seen[k] = server[k]
  BY <1>1
<1> QED
  BY <1>2, <1>3, MissingSeen, Quiet DEF AnswerList, LoseList
-----------------------------------------------------------------------------
\* What the handlers of _syncKey do to calls and jobs.
SameSeen ==
  /\ call' \in [Call -> CallRec]
  /\ \A d \in Call : call'[d].seen = call[d].seen

LEMMA SameCalls ==
  ASSUME StoreInv, UNCHANGED call
  PROVE  SameSeen
BY DEF SameSeen, StoreInv, Shapes

LEMMA CompletedCall ==
  ASSUME StoreInv, NEW c \in Call, NEW k \in Key, NEW failed \in BOOLEAN,
         Completed(c, k, failed)
  PROVE  SameSeen /\ job' = [job EXCEPT ![c][k] = [at |-> "ended"]]
<1>0. call[c] \in CallRec
  BY DEF StoreInv, Shapes
<1>1. CASE call[c].all
  <2> DEFINE r == [call[c] EXCEPT !.failed = call[c].failed \/ failed]
  <2>1. r \in CallRec /\ r.seen = call[c].seen
    BY <1>0 DEF CallRec
  <2>2. call' = [call EXCEPT ![c] = r]
    BY <1>1 DEF Completed
  <2> HIDE DEF r
  <2> QED
    BY <2>1, <2>2, CallChanged DEF Completed, SameSeen
<1>2. CASE ~ call[c].all
  <2> DEFINE r == [call[c] EXCEPT !.failed = call[c].failed \/ failed, !.state = "ended"]
  <2>1. r \in CallRec /\ r.seen = call[c].seen
    BY <1>0 DEF CallRec, States
  <2>2. call' = [call EXCEPT ![c] = r]
    BY <1>2 DEF Completed
  <2> HIDE DEF r
  <2> QED
    BY <2>1, <2>2, CallChanged DEF Completed, SameSeen
<1> QED
  BY <1>1, <1>2

LEMMA CompletedOK ==
  ASSUME StoreInv, NEW c \in Call, NEW k \in Key, NEW failed \in BOOLEAN,
         Completed(c, k, failed), UNCHANGED <<rows, server, now>>
  PROVE  StoreInv'
<1> DEFINE j == [at |-> "ended"]
<1>1. JobOK(j, rows[k], server[k], now)
  BY Forgetful
<1>2. SameSeen /\ job' = [job EXCEPT ![c][k] = j]
  BY CompletedCall
<1> HIDE DEF j
<1> QED
  BY <1>1, <1>2, JobStep DEF SameSeen

LEMMA MovesOK ==
  ASSUME StoreInv, NEW c \in Call, NEW k \in Key, NEW j,
         JobOK(j, rows[k], server[k], now), job' = [job EXCEPT ![c][k] = j],
         UNCHANGED <<call, rows, server, now>>
  PROVE  StoreInv'
BY JobStep DEF StoreInv, Shapes

LEMMA RefusedOK ==
  ASSUME StoreInv, NEW c \in Call, NEW k \in Key, Refused(c, k),
         UNCHANGED <<rows, server, now>>
  PROVE  StoreInv'
<1>1. CASE call[c].state = "gone"
  <2>1. job' = [job EXCEPT ![c][k] = Idle] /\ SameSeen
    BY <1>1, SameCalls DEF Refused, Answered
  <2>2. JobOK(Idle, rows[k], server[k], now)
    BY Forgetful DEF Idle
  <2> QED
    BY <2>1, <2>2, JobStep DEF SameSeen
<1>2. CASE call[c].state # "gone"
  BY <1>2, CompletedOK DEF Refused
<1> QED
  BY <1>1, <1>2

-----------------------------------------------------------------------------
\* A sync reads and decides.
LEMMA HeadSeen ==
  ASSUME StoreInv, NEW k \in Key
  PROVE  SeenOK(Head(k), server[k])
<1>1. /\ server[k] \in Object /\ server[k].time \in Nat
      /\ server[k].written \in Nat /\ server[k].written <= server[k].time
  BY DEF StoreInv, Shapes, KeysOK, ObjectOK, Object
<1>2. \A n \in Nat : n - (n % Resolution) \in Nat /\ n - (n % Resolution) <= n
  BY StoreAssumption
<1>3. /\ Head(k) \in Object /\ Head(k).time <= server[k].time
      /\ Head(k).version = server[k].version /\ Head(k).content = server[k].content
      /\ Head(k).written = server[k].written
  BY <1>1, <1>2 DEF Head, Object
<1> QED
  BY <1>1, <1>3 DEF SeenOK, Was, Object

LEMMA VerOK ==
  ASSUME StoreInv, NEW c \in Call, NEW k \in Key, AnswerVer(c, k) \/ LoseVer(c, k)
  PROVE  StoreInv'
<1>1. CASE AnswerVer(c, k)
  <2> DEFINE j == Compare(Head(k), IF server[k].version = 0 THEN "notFound" ELSE ErrOf(server[k]))
  <2>1. Head(k).content = server[k].content
    BY DEF StoreInv, Shapes, Object, Head
  <2>2. JobOK(j, rows[k], server[k], now)
    BY HeadSeen, <2>1 DEF JobOK, Compare, ErrOf
  <2>3. job' = [job EXCEPT ![c][k] = j] /\ UNCHANGED <<call, rows, server, now>>
    BY <1>1 DEF AnswerVer
  <2> HIDE DEF j
  <2> QED
    BY <2>2, <2>3, MovesOK
<1>2. CASE LoseVer(c, k)
  <2>1. JobOK(Compare(Missing, "unknown"), rows[k], server[k], now)
    BY MissingSeen DEF JobOK, Compare
  <2> QED
    BY <1>2, <2>1, MovesOK DEF LoseVer
<1> QED
  BY <1>1, <1>2

LEMMA DecisionOK ==
  ASSUME StoreInv, NEW c \in Call, NEW k \in Key, job[c][k].at = "read"
  PROVE  JobOK(Decision(rows[k], job[c][k]), rows[k], server[k], now)
<1> DEFINE j == job[c][k]
           r == rows[k]
           s == server[k]
           deleted == r.version # 0 /\ r.content = Removed
<1>1. /\ r \in Row /\ s \in Object /\ now \in Nat
      /\ SeenOK(j.seen, s) /\ (j.err = "tombstone" => j.seen.content = Removed)
      /\ r.written <= r.time /\ r.time <= now /\ ObjectOK(s, now)
  BY DEF StoreInv, Shapes, JobsOK, JobOK, KeysOK, RowOK
<1>2. j.seen.version \in Nat /\ j.seen.time \in Nat /\ j.seen.written \in Nat
  BY <1>1 DEF SeenOK, Object
<1> DEFINE D == Decision(r, j)
           ask(at, version) == [at |-> at, localVer |-> r.version, version |-> version,
                                content |-> r.content, written |-> r.written]
<1>3. CASE deleted /\ j.err = "tombstone"
  <2>1. D = [at |-> "record", localVer |-> r.version, version |-> j.seen.version]
    BY <1>3 DEF Decision
  <2> QED
    BY <1>1, <1>2, <1>3, <2>1 DEF JobOK, SeenOK, Was, Row
<1>4. CASE r.time >= j.seen.time /\ deleted /\ j.err # "tombstone"
  <2>1. D = ask("del", j.seen.version)
    BY <1>4 DEF Decision
  <2> QED
    BY <1>1, <1>2, <2>1 DEF JobOK, Held, Written, Row
<1>5. CASE r.time >= j.seen.time /\ ~ deleted
  <2>1. D = ask("put", UseRemoteVer(j))
    BY <1>1, <1>2, <1>5 DEF Decision, Row
  <2> QED
    BY <1>1, <1>2, <2>1 DEF JobOK, Held, Written, Row
<1>6. CASE r.time < j.seen.time /\ ~ deleted /\ j.err = "tombstone"
  <2>1. D = [at |-> "drop", localVer |-> r.version, version |-> j.seen.version,
             written |-> j.seen.written]
    BY <1>1, <1>2, <1>6 DEF Decision, Row
  <2>2. r.written < s.time /\ j.seen.written <= now /\ Was(s, j.seen.version, Removed)
    BY <1>1, <1>2, <1>6 DEF SeenOK, ObjectOK, Object, Row
  <2> QED
    BY <1>1, <1>2, <2>1, <2>2 DEF JobOK, Outdated, Row
<1>7. CASE r.time < j.seen.time /\ ~ (deleted /\ j.err = "tombstone")
             /\ ~ (~ deleted /\ j.err = "tombstone")
  <2>1. D = ask("get", j.seen.version)
    BY <1>1, <1>2, <1>7 DEF Decision, Row
  <2>2. r.written < s.time
    BY <1>1, <1>2, <1>7 DEF SeenOK, Object, Row
  <2> QED
    BY <1>1, <1>2, <2>1, <2>2 DEF JobOK, Outdated, Row
<1> QED
  BY <1>1, <1>2, <1>3, <1>4, <1>5, <1>6, <1>7 DEF Row

LEMMA DecidesOK ==
  ASSUME StoreInv, NEW c \in Call, NEW k \in Key, Decides(c, k)
  PROVE  StoreInv'
<1>1. CASE Thrown(c, k)
  <2> DEFINE r == [call[c] EXCEPT !.failed = TRUE,
                     !.state = IF call[c].all THEN call[c].state ELSE "dropped"]
             j == [at |-> "ended"]
  <2>1. r \in CallRec /\ r.seen = call[c].seen
    BY DEF StoreInv, Shapes, CallRec, States
  <2>2. call' = [call EXCEPT ![c] = r] /\ job' = [job EXCEPT ![c][k] = j]
    BY <1>1 DEF Thrown
  <2>3. JobOK(j, rows[k], server[k], now)
    BY Forgetful
  <2>4. UNCHANGED <<rows, server, now>>
    BY <1>1 DEF Thrown
  <2> HIDE DEF r, j
  <2>5. SameSeen
    BY <2>1, <2>2, CallChanged DEF SameSeen
  <2> QED
    BY <2>2, <2>3, <2>4, <2>5, JobStep DEF SameSeen
<1>2. CASE CompareVersions(c, k)
  <2> DEFINE o == job[c][k]
             j == [at |-> "read", seen |-> o.seen, err |-> o.err, recorded |-> rows[k].recorded]
  <2>1. UNCHANGED <<rows, server, now>> /\ o.at = "compare"
    BY <1>2 DEF CompareVersions
  <2>2. JobOK(j, rows[k], server[k], now)
    BY <2>1 DEF StoreInv, JobsOK, JobOK
  <2>3. \/ Completed(c, k, FALSE)
        \/ job' = [job EXCEPT ![c][k] = j] /\ UNCHANGED call
    BY <1>2 DEF CompareVersions
  <2> HIDE DEF j, o
  <2> QED
    BY <2>1, <2>2, <2>3, CompletedOK, MovesOK
<1>3. CASE Decide(c, k)
  <2> DEFINE j == Decision(rows[k], job[c][k])
  <2>1. UNCHANGED <<rows, server, now>> /\ JobOK(j, rows[k], server[k], now)
    BY <1>3, DecisionOK DEF Decide
  <2>2. \/ Completed(c, k, TRUE)
        \/ job' = [job EXCEPT ![c][k] = j] /\ UNCHANGED call
    BY <1>3 DEF Decide
  <2> HIDE DEF j
  <2> QED
    BY <2>1, <2>2, CompletedOK, MovesOK
<1> QED
  BY <1>1, <1>2, <1>3 DEF Decides, NotRunning, Unreadable

-----------------------------------------------------------------------------
\* A row is replaced by a newer one, an object by a newer one.
JobsKeep ==
  /\ DOMAIN job' = Call /\ \A c \in Call : DOMAIN job'[c] = Key
  /\ \A c \in Call, k \in Key :
       job'[c][k] = job[c][k] \/ JobOK(job'[c][k], rows'[k], server'[k], now')

LEMMA OneJob ==
  ASSUME StoreInv, NEW c \in Call, NEW k \in Key, NEW j,
         job' = [job EXCEPT ![c][k] = j], JobOK(j, rows'[k], server'[k], now')
  PROVE  JobsKeep
<1>0. OneJobIs(c, k, j)
  BY JobChanged
<1>1. /\ DOMAIN job' = Call /\ \A d \in Call : DOMAIN job'[d] = Key
      /\ \A d \in Call, l \in Key :
           job'[d][l] = IF d = c /\ l = k THEN j ELSE job[d][l]
  BY <1>0 DEF OneJobIs
<1>2. \A d \in Call, l \in Key :
        job'[d][l] = job[d][l] \/ JobOK(job'[d][l], rows'[l], server'[l], now')
  <2> SUFFICES ASSUME NEW d \in Call, NEW l \in Key
               PROVE job'[d][l] = job[d][l] \/ JobOK(job'[d][l], rows'[l], server'[l], now')
    OBVIOUS
  <2>1. CASE d = c /\ l = k
    <3>1. job'[d][l] = j
      BY <1>1, <2>1
    <3> QED BY <2>1, <3>1
  <2>2. CASE ~ (d = c /\ l = k)
    <3>1. job'[d][l] = job[d][l]
      BY <1>1, <2>2
    <3> QED BY <3>1
  <2> QED BY <2>1, <2>2
<1> QED
  BY <1>1, <1>2 DEF JobsKeep

LEMMA RowStep ==
  ASSUME StoreInv, NEW k \in Key, NEW r, RowOK(r, server[k], now),
         r.version > rows[k].version, rows' = [rows EXCEPT ![k] = r],
         UNCHANGED <<server, now>>, SameSeen, JobsKeep
  PROVE  StoreInv'
<1>1. \A l \in Key : rows'[l] = IF l = k THEN r ELSE rows[l]
  BY DEF StoreInv, Shapes
<1>2. Shapes'
  BY DEF StoreInv, Shapes, SameSeen, JobsKeep, RowOK
<1>3. \A l \in Key : /\ LaterRow(rows[l], rows'[l]) /\ LaterObject(server[l], server'[l])
                     /\ RowOK(rows'[l], server'[l], now') /\ ObjectOK(server'[l], now')
  BY <1>1 DEF LaterRow, LaterObject, StoreInv, KeysOK
<1>4. now <= now'
  BY DEF StoreInv, Shapes
<1> QED
  BY <1>2, <1>3, <1>4, Kept DEF SameSeen, JobsKeep

LEMMA ObjectStep ==
  ASSUME StoreInv, NEW k \in Key, NEW s, ObjectOK(s, now),
         s.version > server[k].version, s.time >= server[k].time,
         server' = [server EXCEPT ![k] = s],
         UNCHANGED <<rows, now>>, SameSeen, JobsKeep
  PROVE  StoreInv'
<1>1. \A l \in Key : server'[l] = IF l = k THEN s ELSE server[l]
  BY DEF StoreInv, Shapes
<1>2. Shapes'
  BY DEF StoreInv, Shapes, SameSeen, JobsKeep, ObjectOK
<1>3. RowOK(rows[k], s, now)
  BY DEF StoreInv, Shapes, KeysOK, RowOK, ObjectOK, Row, Object
<1>4. \A l \in Key : /\ LaterRow(rows[l], rows'[l]) /\ LaterObject(server[l], server'[l])
                     /\ RowOK(rows'[l], server'[l], now') /\ ObjectOK(server'[l], now')
  BY <1>1, <1>3 DEF LaterRow, LaterObject, StoreInv, KeysOK
<1>5. now <= now'
  BY DEF StoreInv, Shapes
<1> QED
  BY <1>2, <1>4, <1>5, Kept DEF SameSeen, JobsKeep

\* The row that NewRow makes.
LEMMA NewRowOK ==
  ASSUME StoreInv, NEW k \in Key, NEW content \in Content, NEW recorded \in Nat,
         NEW written \in Nat, written <= now,
         recorded <= server[k].version,
         recorded # 0 /\ recorded = server[k].version => content = server[k].content
  PROVE  LET r == NewRow(k, content, recorded, written)
         IN  /\ RowOK(r, server[k], now)
             /\ r.version = rows[k].version + 1 /\ r.version > rows[k].version
             /\ r.content = content
<1>1. rows[k].version \in Nat /\ now \in Nat
  BY DEF StoreInv, Shapes, Row
<1> QED
  BY <1>1 DEF NewRow, RowOK, Row

\* The object a write leaves behind.
LEMMA StoredOK ==
  ASSUME StoreInv, NEW k \in Key, NEW content \in Content, NEW written \in Nat, written <= now
  PROVE  LET s == Stored(k, content, written)
         IN  /\ ObjectOK(s, now)
             /\ s.version = Successor(k) /\ s.version > server[k].version
             /\ s.time >= server[k].time /\ s.content = content
<1>1. /\ server[k].version \in Nat /\ server[k].time \in Nat /\ now \in Nat
      /\ server[k].time <= now
  BY DEF StoreInv, Shapes, KeysOK, ObjectOK, Object
<1>2. Successor(k) \in Nat /\ Successor(k) > server[k].version /\ Successor(k) # 0
  BY <1>1 DEF Successor
<1> QED
  BY <1>1, <1>2 DEF Stored, ObjectOK, Object

-----------------------------------------------------------------------------
\* The application and other devices write.
LEMMA WriteOK ==
  ASSUME StoreInv, Write
  PROVE  StoreInv'
<1>1. PICK k \in Key, content \in Content :
        /\ rows' = [rows EXCEPT ![k] = NewRow(k, content, 0, now)]
        /\ UNCHANGED <<server, call, job, now>>
  BY DEF Write, Set, Del, Content
<1> DEFINE r == NewRow(k, content, 0, now)
<1>2. now \in Nat /\ server[k].version \in Nat
  BY DEF StoreInv, Shapes, Object
<1>3. RowOK(r, server[k], now) /\ r.version > rows[k].version
  BY <1>2, NewRowOK
<1>4. SameSeen
  BY <1>1, SameCalls
<1>5. JobsKeep
  BY <1>1 DEF JobsKeep, StoreInv, Shapes
<1>6. rows' = [rows EXCEPT ![k] = r] /\ UNCHANGED <<server, now>>
  BY <1>1
<1> HIDE DEF r
<1> QED
  BY <1>3, <1>4, <1>5, <1>6, RowStep

LEMMA OthersOK ==
  ASSUME StoreInv, Others
  PROVE  StoreInv'
<1>1. PICK k \in Key, content \in Content :
        /\ server' = [server EXCEPT ![k] = Stored(k, content, now)]
        /\ UNCHANGED <<rows, call, job, now>>
  BY DEF Others, Elsewhere, device
<1> DEFINE s == Stored(k, content, now)
<1>2. now \in Nat
  BY DEF StoreInv, Shapes
<1>3. ObjectOK(s, now) /\ s.version > server[k].version /\ s.time >= server[k].time
  BY <1>2, StoredOK
<1>4. SameSeen
  BY <1>1, SameCalls
<1>5. JobsKeep
  BY <1>1 DEF JobsKeep, StoreInv, Shapes
<1>6. server' = [server EXCEPT ![k] = s] /\ UNCHANGED <<rows, now>>
  BY <1>1
<1> HIDE DEF s
<1> QED
  BY <1>3, <1>4, <1>5, <1>6, ObjectStep

-----------------------------------------------------------------------------
\* Requests are answered, refused or lost.
LEMMA WriteJob ==
  ASSUME StoreInv, NEW c \in Call, NEW k \in Key, job[c][k].at \in {"put", "del"}
  PROVE  LET j == job[c][k]
             s == Stored(k, j.content, j.written)
         IN  /\ Held(rows[k], j.localVer, j.content) /\ Written(j, now)
             /\ ObjectOK(s, now) /\ s.version = Successor(k)
             /\ s.version > server[k].version /\ s.time >= server[k].time
             /\ s.content = j.content
<1>1. Held(rows[k], job[c][k].localVer, job[c][k].content) /\ Written(job[c][k], now)
  BY DEF StoreInv, JobsOK, JobOK
<1> QED
  BY <1>1, StoredOK DEF Written

LEMMA RefusedJob ==
  ASSUME StoreInv, NEW c \in Call, NEW k \in Key, Refused(c, k)
  PROVE  SameSeen /\ JobsKeep
<1>1. SameSeen /\ (\/ job' = [job EXCEPT ![c][k] = Idle]
                   \/ job' = [job EXCEPT ![c][k] = [at |-> "ended"]])
  BY CompletedCall, SameCalls DEF Refused, Answered
<1>2. /\ JobOK(Idle, rows'[k], server'[k], now')
      /\ JobOK([at |-> "ended"], rows'[k], server'[k], now')
  BY Forgetful DEF Idle
<1> QED
  BY <1>1, <1>2, OneJob

LEMMA AnswerWriteOK ==
  ASSUME StoreInv, NEW c \in Call, NEW k \in Key, AnswerWrite(c, k)
  PROVE  StoreInv'
<1> DEFINE j == job[c][k]
           s == Stored(k, j.content, j.written)
           n == Record(j.localVer, Successor(k))
<1>1. j.at \in {"put", "del"} /\ UNCHANGED <<rows, now>>
  BY DEF AnswerWrite, Applies
<1>2. /\ Held(rows[k], j.localVer, j.content)
      /\ ObjectOK(s, now) /\ s.version = Successor(k)
      /\ s.version > server[k].version /\ s.time >= server[k].time
      /\ s.content = j.content
  BY <1>1, WriteJob
<1>3. server' = [server EXCEPT ![k] = s] /\ server'[k] = s
  BY DEF AnswerWrite, StoreInv, Shapes
<1>4. JobOK(n, rows'[k], server'[k], now') /\ JobOK(Idle, rows'[k], server'[k], now')
  <2>1. rows[k] \in Row /\ s \in Object
    BY <1>2 DEF StoreInv, Shapes, ObjectOK
  <2>2. JobOK(n, rows[k], s, now)
    BY <1>2, <2>1 DEF JobOK, Record, Held, Row, Object
  <2> QED
    BY <1>1, <1>3, <2>2, Forgetful DEF Idle
<1>5. SameSeen /\ (job' = [job EXCEPT ![c][k] = Idle] \/ job' = [job EXCEPT ![c][k] = n])
  BY SameCalls DEF AnswerWrite, Answered, SameSeen, StoreInv, Shapes
<1> HIDE DEF n, s, j
<1>6. JobsKeep
  BY <1>4, <1>5, OneJob
<1> QED
  BY <1>1, <1>2, <1>3, <1>5, <1>6, ObjectStep

LEMMA RefuseWriteOK ==
  ASSUME StoreInv, NEW c \in Call, NEW k \in Key, RefuseWrite(c, k) \/ RefuseGet(c, k)
  PROVE  StoreInv'
<1>1. /\ Refused(c, k) \/ Completed(c, k, FALSE)
      /\ UNCHANGED <<rows, server, now>>
  BY DEF RefuseWrite, RefuseGet
<1> QED
  BY <1>1, RefusedOK, CompletedOK

LEMMA LoseWriteOK ==
  ASSUME StoreInv, NEW c \in Call, NEW k \in Key, LoseWrite(c, k)
  PROVE  StoreInv'
<1> DEFINE j == job[c][k]
           s == Stored(k, j.content, j.written)
<1>1. j.at \in {"put", "del"} /\ Refused(c, k) /\ UNCHANGED <<rows, now>>
  BY DEF LoseWrite
<1>2. CASE UNCHANGED server
  BY <1>1, <1>2, RefusedOK
<1>3. CASE server' = [server EXCEPT ![k] = s]
  <2>1. ObjectOK(s, now) /\ s.version > server[k].version /\ s.time >= server[k].time
    BY <1>1, WriteJob
  <2> HIDE DEF s, j
  <2> QED
    BY <1>1, <1>3, <2>1, RefusedJob, ObjectStep
<1> QED
  BY <1>2, <1>3 DEF LoseWrite

LEMMA AnswerGetOK ==
  ASSUME StoreInv, NEW c \in Call, NEW k \in Key, AnswerGet(c, k)
  PROVE  StoreInv'
<1> DEFINE j == job[c][k]
           n == [at |-> IF server[k].content = Garbage THEN "spoiled" ELSE "store",
                 localVer |-> j.localVer, version |-> j.version,
                 content |-> server[k].content, written |-> server[k].written]
<1>1. j.at = "get" /\ j.version = server[k].version /\ UNCHANGED <<rows, server, now>>
  BY DEF AnswerGet
<1>2. /\ server[k] \in Object /\ server[k].written <= server[k].time
      /\ server[k].time <= now /\ now \in Nat
      /\ Outdated(rows[k], j.localVer, server[k])
  BY <1>1 DEF StoreInv, Shapes, KeysOK, ObjectOK, JobsOK, JobOK
<1>3. JobOK(n, rows[k], server[k], now) /\ JobOK(Idle, rows[k], server[k], now)
  BY <1>1, <1>2, Forgetful DEF JobOK, Was, Written, Object, Idle
<1>4. SameSeen /\ (job' = [job EXCEPT ![c][k] = Idle] \/ job' = [job EXCEPT ![c][k] = n])
  BY SameCalls DEF AnswerGet, Answered, SameSeen, StoreInv, Shapes
<1> HIDE DEF n, j
<1> QED
  BY <1>1, <1>3, <1>4, JobStep DEF SameSeen

-----------------------------------------------------------------------------
\* The transactions of a sync.
LEMMA EndedJob ==
  ASSUME StoreInv, NEW c \in Call, NEW k \in Key, NEW failed \in BOOLEAN,
         Completed(c, k, failed)
  PROVE  SameSeen /\ JobsKeep
<1> DEFINE j == [at |-> "ended"]
<1>1. JobOK(j, rows'[k], server'[k], now')
  BY Forgetful
<1>2. SameSeen /\ job' = [job EXCEPT ![c][k] = j]
  BY CompletedCall
<1> HIDE DEF j
<1> QED
  BY <1>1, <1>2, OneJob

LEMMA StoreOK ==
  ASSUME StoreInv, NEW c \in Call, NEW k \in Key, Store(c, k)
  PROVE  StoreInv'
<1> DEFINE j == job[c][k]
           r == NewRow(k, j.content, 0, j.written)
           n == Record(j.localVer + 1, j.version)
<1>1. /\ j.at = "store" /\ UNCHANGED <<server, now>>
      /\ \/ /\ Current(k, j.localVer) /\ rows' = [rows EXCEPT ![k] = r]
            /\ job' = [job EXCEPT ![c][k] = n] /\ UNCHANGED call
         \/ UNCHANGED rows /\ Completed(c, k, TRUE)
  BY DEF Store, Replace
<1>2. /\ Was(server[k], j.version, j.content) /\ Written(j, now)
      /\ server[k].version \in Nat /\ rows[k].version \in Nat
  BY <1>1 DEF StoreInv, Shapes, JobsOK, JobOK, Row, Object
<1>3. CASE UNCHANGED rows /\ Completed(c, k, TRUE)
  BY <1>1, <1>3, CompletedOK
<1>4. CASE /\ Current(k, j.localVer) /\ rows' = [rows EXCEPT ![k] = r]
           /\ job' = [job EXCEPT ![c][k] = n] /\ UNCHANGED call
  <2>1. /\ RowOK(r, server[k], now) /\ r.version = rows[k].version + 1
        /\ r.version > rows[k].version /\ r.content = j.content
    BY <1>2, NewRowOK DEF Written, Object
  <2>2. rows'[k] = r
    BY <1>4 DEF StoreInv, Shapes
  <2>3. JobOK(n, rows'[k], server'[k], now')
    <3>1. JobOK(n, r, server[k], now)
      BY <1>2, <1>4, <2>1 DEF JobOK, Record, Was, Current
    <3> QED
      BY <1>1, <2>2, <3>1
  <2>4. SameSeen
    BY <1>4 DEF SameSeen, StoreInv, Shapes
  <2> HIDE DEF n, r, j
  <2>5. JobsKeep
    BY <1>4, <2>3, OneJob
  <2> QED
    BY <1>1, <1>4, <2>1, <2>4, <2>5, RowStep
<1> QED
  BY <1>1, <1>3, <1>4

LEMMA DropOK ==
  ASSUME StoreInv, NEW c \in Call, NEW k \in Key, Drop(c, k)
  PROVE  StoreInv'
<1> DEFINE j == job[c][k]
           r == NewRow(k, Removed, 0, j.written)
           n == Record(j.localVer + 1, j.version)
<1>1. /\ j.at = "drop" /\ UNCHANGED <<server, now>>
      /\ \/ /\ Current(k, j.localVer) /\ rows' = [rows EXCEPT ![k] = r]
            /\ job' = [job EXCEPT ![c][k] = n] /\ UNCHANGED call
         \/ UNCHANGED rows /\ \E b \in BOOLEAN : Completed(c, k, b)
  BY DEF Drop, Replace
<1>2. /\ Was(server[k], j.version, Removed) /\ j.written \in Nat /\ j.written <= now
      /\ server[k].version \in Nat /\ rows[k].version \in Nat /\ Removed \in Content
  BY <1>1 DEF StoreInv, Shapes, JobsOK, JobOK, Row, Object, Content
<1>3. CASE UNCHANGED rows /\ \E b \in BOOLEAN : Completed(c, k, b)
  BY <1>1, <1>3, CompletedOK
<1>4. CASE /\ Current(k, j.localVer) /\ rows' = [rows EXCEPT ![k] = r]
           /\ job' = [job EXCEPT ![c][k] = n] /\ UNCHANGED call
  <2>1. /\ RowOK(r, server[k], now) /\ r.version = rows[k].version + 1
        /\ r.version > rows[k].version /\ r.content = Removed
    BY <1>2, NewRowOK
  <2>2. rows'[k] = r
    BY <1>4 DEF StoreInv, Shapes
  <2>3. JobOK(n, rows'[k], server'[k], now')
    <3>1. JobOK(n, r, server[k], now)
      BY <1>2, <1>4, <2>1 DEF JobOK, Record, Was, Current
    <3> QED
      BY <1>1, <2>2, <3>1
  <2>4. SameSeen
    BY <1>4 DEF SameSeen, StoreInv, Shapes
  <2> HIDE DEF n, r, j
  <2>5. JobsKeep
    BY <1>4, <2>3, OneJob
  <2> QED
    BY <1>1, <1>4, <2>1, <2>4, <2>5, RowStep
<1> QED
  BY <1>1, <1>3, <1>4

\* Spoil and SetRemoteVersion end with a new row, or none.
LEMMA LastRow ==
  ASSUME StoreInv, NEW c \in Call, NEW k \in Key, NEW failed \in BOOLEAN, NEW r,
         RowOK(r, server[k], now), r.version > rows[k].version,
         rows' = [rows EXCEPT ![k] = r], Completed(c, k, failed), UNCHANGED <<server, now>>
  PROVE  StoreInv'
BY EndedJob, RowStep

LEMMA SpoilOK ==
  ASSUME StoreInv, NEW c \in Call, NEW k \in Key, Spoil(c, k)
  PROVE  StoreInv'
<1> DEFINE r == NewRow(k, Removed, 0, now)
<1>1. /\ UNCHANGED <<server, now>> /\ Completed(c, k, TRUE)
      /\ UNCHANGED rows \/ rows' = [rows EXCEPT ![k] = r]
  BY DEF Spoil, Replace
<1>2. Removed \in Content /\ now \in Nat /\ server[k].version \in Nat
  BY DEF Content, StoreInv, Shapes, Object
<1>3. RowOK(r, server[k], now) /\ r.version > rows[k].version
  BY <1>2, NewRowOK
<1> HIDE DEF r
<1> QED
  BY <1>1, <1>3, LastRow, CompletedOK

LEMMA SetRemoteVersionOK ==
  ASSUME StoreInv, NEW c \in Call, NEW k \in Key, SetRemoteVersion(c, k)
  PROVE  StoreInv'
<1> DEFINE j == job[c][k]
           r == NewRow(k, rows[k].content, j.version, rows[k].written)
<1>1. /\ j.at = "record" /\ UNCHANGED <<server, now>>
      /\ \/ /\ Current(k, j.localVer) /\ rows' = [rows EXCEPT ![k] = r]
            /\ Completed(c, k, FALSE)
         \/ UNCHANGED rows /\ Completed(c, k, TRUE)
  BY DEF SetRemoteVersion
<1>2. CASE UNCHANGED rows /\ Completed(c, k, TRUE)
  BY <1>1, <1>2, CompletedOK
<1>3. CASE /\ Current(k, j.localVer) /\ rows' = [rows EXCEPT ![k] = r]
           /\ Completed(c, k, FALSE)
  <2>1. /\ j.version \in Nat /\ j.version <= server[k].version
        /\ j.version = server[k].version => rows[k].content = server[k].content
    BY <1>1, <1>3 DEF StoreInv, JobsOK, JobOK, Current
  <2>2. /\ rows[k].content \in Content /\ rows[k].written \in Nat
        /\ rows[k].written <= now
    BY DEF StoreInv, Shapes, KeysOK, RowOK, Row
  <2>3. RowOK(r, server[k], now) /\ r.version > rows[k].version
    BY <2>1, <2>2, NewRowOK
  <2> HIDE DEF r, j
  <2> QED
    BY <1>1, <1>3, <2>3, LastRow
<1> QED
  BY <1>1, <1>2, <1>3

LEMMA RollBackOK ==
  ASSUME StoreInv, NEW c \in Call, NEW k \in Key, RollBack(c, k)
  PROVE  StoreInv'
BY CompletedOK DEF RollBack

-----------------------------------------------------------------------------
LEMMA RestartOK ==
  ASSUME StoreInv, Restart
  PROVE  StoreInv'
<1>0. UNCHANGED <<rows, server, now>>
  BY DEF Restart
<1>1. [Fresh EXCEPT !.state = "gone"] \in CallRec
      /\ [Fresh EXCEPT !.state = "gone"].seen = Fresh.seen
  BY FreshRec DEF CallRec, States
<1>2. call' \in [Call -> CallRec]
  BY <1>1 DEF Restart, StoreInv, Shapes
<1>3. \A d \in Call, k \in Key :
        call'[d].seen[k] = call[d].seen[k] \/ call'[d].seen[k] = Missing
  BY <1>1, FreshRec DEF Restart
<1>4. /\ DOMAIN job' = Call /\ \A d \in Call : DOMAIN job'[d] = Key
      /\ \A d \in Call, k \in Key : job'[d][k] = job[d][k] \/ job'[d][k] = Idle
  BY DEF Restart
<1>5. \A k \in Key : JobOK(Idle, rows[k], server[k], now)
  BY Forgetful DEF Idle
<1>6. \A d \in Call, k \in Key :
        call'[d].seen[k] = call[d].seen[k] \/ SeenOK(call'[d].seen[k], server[k])
  BY <1>3, MissingSeen
<1> QED
  BY <1>0, <1>2, <1>4, <1>5, <1>6, Quiet

LEMMA TickOK ==
  ASSUME StoreInv, Tick
  PROVE  StoreInv'
<1>1. now \in Nat /\ now' \in Nat /\ now <= now' /\ UNCHANGED <<rows, server, call, job>>
  BY DEF Tick, device, StoreInv, Shapes
<1>2. Shapes'
  BY <1>1 DEF StoreInv, Shapes
<1>3. \A k \in Key : /\ LaterRow(rows[k], rows'[k]) /\ LaterObject(server[k], server'[k])
                     /\ RowOK(rows'[k], server'[k], now') /\ ObjectOK(server'[k], now')
  BY <1>1 DEF LaterRow, LaterObject, StoreInv, Shapes, KeysOK, RowOK, ObjectOK, Row, Object
<1> QED
  BY <1>1, <1>2, <1>3, Kept

LEMMA NextOK ==
  ASSUME StoreInv, [Next]_vars
  PROVE  StoreInv'
<1>1. CASE Write \/ Others \/ Restart \/ Tick
  BY <1>1, WriteOK, OthersOK, RestartOK, TickOK
<1>2. ASSUME NEW c \in Call, Begin(c) \/ Proceed(c) \/ AnswerList(c) \/ LoseList(c)
      PROVE  StoreInv'
  <2>1. CASE Begin(c)
    BY <2>1, CheckOK DEF Begin
  <2> QED
    BY <1>2, <2>1, ProceedOK, ListOK
<1>3. ASSUME NEW c \in Call, NEW k \in Key,
             Decides(c, k) \/ Transact(c, k) \/ Answer(c, k) \/ Lose(c, k)
      PROVE  StoreInv'
  <2>1. CASE Transact(c, k)
    BY <2>1, StoreOK, DropOK, SpoilOK, SetRemoteVersionOK, RollBackOK DEF Transact
  <2>2. CASE Answer(c, k)
    BY <2>2, VerOK, AnswerWriteOK, RefuseWriteOK, AnswerGetOK DEF Answer
  <2>3. CASE Lose(c, k)
    BY <2>3, VerOK, LoseWriteOK, RefuseWriteOK DEF Lose
  <2> QED
    BY <1>3, <2>1, <2>2, <2>3, DecidesOK
<1>4. CASE UNCHANGED vars
  BY <1>4, Quiet DEF vars, device, StoreInv, Shapes
<1> QED
  BY <1>1, <1>2, <1>3, <1>4 DEF Next

-----------------------------------------------------------------------------
\* What the rows record of the server is true: a recorded version is no later
\* than the server's, and the same only with the same content, whatever syncs,
\* writes, other devices, losses and restarts there are.
THEOREM RecordedAgreesHolds == Spec => []RecordedAgrees
<1>1. StoreInv => RecordedAgrees
  BY DEF StoreInv, KeysOK, RowOK, RecordedAgrees
<1>2. StoreInv /\ [Next]_vars => StoreInv'
  BY NextOK
<1> QED
  BY InitOK, <1>1, <1>2, PTL DEF Spec

-----------------------------------------------------------------------------
OnlyOlder == \A k \in Key :
  rows'[k].content # rows[k].content => server[k].time > rows[k].written

LEMMA ReplacesOlder ==
  ASSUME StoreInv, NEW k \in Key, NEW localVer, NEW r,
         Outdated(rows[k], localVer, server[k]), Current(k, localVer),
         rows' = [rows EXCEPT ![k] = r]
  PROVE  OnlyOlder
<1>1. rows[k].written < server[k].time
  BY DEF Outdated, Current
<1>2. rows[k].written \in Nat /\ server[k].time \in Nat
  BY DEF StoreInv, Shapes, Row, Object
<1>3. \A l \in Key : rows'[l] = IF l = k THEN r ELSE rows[l]
  BY DEF StoreInv, Shapes
<1> QED
  BY <1>1, <1>2, <1>3 DEF OnlyOlder

LEMMA TransactOlder ==
  ASSUME StoreInv, NEW c \in Call, NEW k \in Key, Transact(c, k)
  PROVE  OnlyOlder
<1>1. job[c][k].at \in {"store", "spoiled", "drop"}
        => Outdated(rows[k], job[c][k].localVer, server[k])
  BY DEF StoreInv, JobsOK, JobOK
<1>2. CASE UNCHANGED rows
  BY <1>2 DEF OnlyOlder
<1>3. CASE Store(c, k)
  <2>1. job[c][k].at = "store"
    BY <1>3 DEF Store
  <2>2. CASE Current(k, job[c][k].localVer)
    <3>1. rows' = [rows EXCEPT ![k] = NewRow(k, job[c][k].content, 0, job[c][k].written)]
      BY <1>3, <2>2 DEF Store, Replace
    <3> QED
      BY <1>1, <2>1, <2>2, <3>1, ReplacesOlder
  <2>3. CASE ~Current(k, job[c][k].localVer)
    BY <1>2, <1>3, <2>3 DEF Store
  <2> QED
    BY <2>2, <2>3
<1>4. CASE Drop(c, k)
  <2>1. job[c][k].at = "drop"
    BY <1>4 DEF Drop
  <2>2. CASE job[c][k].localVer # 0 /\ Current(k, job[c][k].localVer)
    <3>1. rows' = [rows EXCEPT ![k] = NewRow(k, Removed, 0, job[c][k].written)]
      BY <1>4, <2>2 DEF Drop, Replace
    <3> QED
      BY <1>1, <2>1, <2>2, <3>1, ReplacesOlder
  <2>3. CASE ~(job[c][k].localVer # 0 /\ Current(k, job[c][k].localVer))
    BY <1>2, <1>4, <2>3 DEF Drop
  <2> QED
    BY <2>2, <2>3
<1>5. CASE Spoil(c, k)
  <2>1. job[c][k].at = "spoiled"
    BY <1>5 DEF Spoil
  <2>2. CASE job[c][k].localVer # 0 /\ Current(k, job[c][k].localVer)
    <3>1. rows' = [rows EXCEPT ![k] = NewRow(k, Removed, 0, now)]
      BY <1>5, <2>2 DEF Spoil, Replace
    <3> QED
      BY <1>1, <2>1, <2>2, <3>1, ReplacesOlder
  <2>3. CASE ~(job[c][k].localVer # 0 /\ Current(k, job[c][k].localVer))
    BY <1>2, <1>5, <2>3 DEF Spoil
  <2> QED
    BY <2>2, <2>3
<1>6. CASE SetRemoteVersion(c, k)
  <2> DEFINE r == NewRow(k, rows[k].content, job[c][k].version, rows[k].written)
  <2>1. UNCHANGED rows \/ rows' = [rows EXCEPT ![k] = r]
    BY <1>6 DEF SetRemoteVersion
  <2>2. r.content = rows[k].content
    BY DEF NewRow
  <2> HIDE DEF r
  <2>3. \A l \in Key : rows'[l].content = rows[l].content
    BY <2>1, <2>2 DEF StoreInv, Shapes
  <2> QED
    BY <2>3 DEF OnlyOlder
<1>7. CASE RollBack(c, k)
  BY <1>2, <1>7 DEF RollBack
<1> QED
  BY <1>3, <1>4, <1>5, <1>6, <1>7 DEF Transact

\* Syncs replace nothing newer: when a step of a sync changes what a row holds,
\* the server's object is later than the application's write it replaces.
THEOREM NewerKeptHolds == Spec => NewerKept
<1> DEFINE A == \A c \in Call, k \in Key :
                  job'[c][k] # job[c][k] /\ rows'[k].content # rows[k].content
                    => server[k].time > rows[k].written
<1>1. ASSUME StoreInv, Next PROVE A
  <2>1. CASE UNCHANGED rows \/ UNCHANGED job
    BY <2>1
  <2>2. CASE Write \/ Others \/ Restart \/ Tick
    <3>1. UNCHANGED rows \/ UNCHANGED job
      BY <2>2 DEF Write, Set, Del, Others, Elsewhere, Restart, Tick, device
    <3> QED
      BY <2>1, <3>1
  <2>3. CASE \E c \in Call : Begin(c) \/ Proceed(c) \/ AnswerList(c) \/ LoseList(c)
    <3>1. UNCHANGED rows
      BY <2>3 DEF Begin, Check, Proceed, SyncKey, SyncAllKeys, FanOut, AllDone, StartKey,
                  AnswerList, LoseList
    <3> QED
      BY <2>1, <3>1
  <2>4. ASSUME NEW c \in Call, NEW k \in Key, Decides(c, k) \/ Answer(c, k) \/ Lose(c, k)
        PROVE  A
    <3>1. UNCHANGED rows
      BY <2>4 DEF Decides, NotRunning, Unreadable, Thrown, CompareVersions, Decide, Answer, AnswerVer, AnswerWrite,
                  RefuseWrite, AnswerGet, Lose, LoseVer, LoseWrite, RefuseGet
    <3> QED
      BY <2>1, <3>1
  <2>5. ASSUME NEW c \in Call, NEW k \in Key, Transact(c, k) PROVE A
    <3>1. OnlyOlder
      BY <1>1, <2>5, TransactOlder
    <3> QED
      BY <3>1 DEF OnlyOlder
  <2> QED
    BY <1>1, <2>2, <2>3, <2>4, <2>5 DEF Next
<1>2. StoreInv /\ [Next]_vars => [A]_vars
  BY <1>1
<1>3. StoreInv /\ [Next]_vars => StoreInv'
  BY NextOK
<1> QED
  BY InitOK, <1>2, <1>3, PTL DEF Spec, NewerKept

-----------------------------------------------------------------------------
\* Which jobs are at work in which state of their call.
Works(j) == j.at \notin {"idle", "ended"}

OneAtMost(j) == \A k \in Key, l \in Key : Works(j[k]) /\ Works(j[l]) => k = l

\* Jobs are at work from when the keys are known until the call ends; of a call
\* whose process has ended, only writes on their way; a call of syncKey has one key.
CallOK(s, j) ==
  /\ \A k \in Key : j[k].at \in Steps
  /\ s.state \notin {"fanned", "gone"} => \A k \in Key : ~ Works(j[k])
  /\ s.state = "gone" => \A k \in Key : Works(j[k]) => j[k].at \in {"put", "del"}
  /\ s.state \in {"listing", "listed"} => s.all
  /\ s.state = "entering" /\ ~ s.all => \A k \in s.keys, l \in s.keys : k = l
  /\ s.state = "fanned" /\ ~ s.all => s.keys = {} /\ OneAtMost(j)

CallsOK == \A c \in Call : CallOK(call[c], job[c])

TypeInv == StoreInv /\ CallsOK /\ running \in BOOLEAN /\ now \in 1 .. MaxNow

SameLife(s, s2) == s2.state = s.state /\ s2.keys = s.keys /\ s2.all = s.all

LEMMA OneCall ==
  ASSUME CallsOK, NEW c \in Call, CallOK(call'[c], job'[c]),
         \A d \in Call : d # c => SameLife(call[d], call'[d]) /\ job'[d] = job[d]
  PROVE  CallsOK'
BY DEF CallsOK, CallOK, SameLife, OneAtMost, Works

\* Of a call that goes on, the job of one key moves.
LEMMA OneMoves ==
  ASSUME NEW s, NEW s2, NEW j, NEW j2, NEW k \in Key,
         CallOK(s, j), SameLife(s, s2), Works(j[k]), j2[k].at \in Steps,
         s.state = "gone" => ~ Works(j2[k]),
         \A l \in Key : l # k => j2[l] = j[l]
  PROVE  CallOK(s2, j2)
<1>1. s.state \in {"fanned", "gone"}
  BY DEF CallOK
<1>2. \A l \in Key : Works(j2[l]) => Works(j[l])
  OBVIOUS
<1> QED
  BY <1>1, <1>2 DEF CallOK, SameLife, OneAtMost

\* A call of syncKey ends with its job, or is dropped.
LEMMA OneEnds ==
  ASSUME NEW s, NEW s2, NEW j, NEW j2, NEW k \in Key,
         CallOK(s, j), ~ s.all, s2.state \in {"ended", "dropped"}, Works(j[k]), s.state # "gone",
         j2[k] = [at |-> "ended"], \A l \in Key : l # k => j2[l] = j[l]
  PROVE  CallOK(s2, j2)
<1>1. s.state = "fanned"
  BY DEF CallOK
<1>2. \A l \in Key : ~ Works(j2[l]) /\ j2[l].at \in Steps
  BY <1>1 DEF CallOK, OneAtMost, Works, Steps
<1> QED
  BY <1>2 DEF CallOK

LEMMA JobMovesLife ==
  ASSUME StoreInv, CallsOK, NEW c \in Call, NEW k \in Key, NEW n,
         Works(job[c][k]), n.at \in Steps, call[c].state = "gone" => ~ Works(n),
         \A d \in Call : SameLife(call[d], call'[d]), job' = [job EXCEPT ![c][k] = n]
  PROVE  CallsOK'
<1>1. /\ job'[c][k] = n /\ \A l \in Key : l # k => job'[c][l] = job[c][l]
      /\ \A d \in Call : d # c => job'[d] = job[d]
  BY DEF StoreInv, Shapes
<1>2. /\ CallOK(call[c], job[c]) /\ SameLife(call[c], call'[c])
      /\ job'[c][k].at \in Steps /\ (call[c].state = "gone" => ~ Works(job'[c][k]))
  BY <1>1 DEF CallsOK
<1>3. CallOK(call'[c], job'[c])
  <2> DEFINE s == call[c]
             s2 == call'[c]
             j == job[c]
             j2 == job'[c]
  <2>1. /\ CallOK(s, j) /\ SameLife(s, s2) /\ Works(j[k]) /\ j2[k].at \in Steps
        /\ s.state = "gone" => ~ Works(j2[k])
        /\ \A l \in Key : l # k => j2[l] = j[l]
    BY <1>1, <1>2
  <2> HIDE DEF s, s2, j, j2
  <2>2. CallOK(s2, j2)
    BY <2>1, OneMoves
  <2> QED
    BY <2>2 DEF s2, j2
<1> QED
  BY <1>1, <1>3, OneCall

LEMMA CompletedLife ==
  ASSUME StoreInv, CallsOK, NEW c \in Call, NEW k \in Key, NEW failed \in BOOLEAN,
         Works(job[c][k]), call[c].state # "gone", Completed(c, k, failed)
  PROVE  CallsOK'
<1>1. CASE call[c].all
  <2>1. \A d \in Call : SameLife(call[d], call'[d])
    BY <1>1 DEF Completed, SameLife, StoreInv, Shapes, CallRec
  <2>2. job' = [job EXCEPT ![c][k] = [at |-> "ended"]]
    BY DEF Completed
  <2> QED
    BY <2>1, <2>2, JobMovesLife DEF Steps
<1>2. CASE ~ call[c].all
  <2>1. /\ job'[c][k] = [at |-> "ended"]
        /\ \A l \in Key : l # k => job'[c][l] = job[c][l]
        /\ \A d \in Call : d # c => job'[d] = job[d]
    BY DEF Completed, StoreInv, Shapes
  <2>2. /\ call'[c].state = "ended"
        /\ \A d \in Call : d # c => call'[d] = call[d]
    BY <1>2 DEF Completed, StoreInv, Shapes, CallRec
  <2>3. CallOK(call'[c], job'[c])
    <3>1. CallOK(call[c], job[c])
      BY DEF CallsOK
    <3> QED
      BY <1>2, <2>1, <2>2, <3>1, OneEnds
  <2> QED
    BY <2>1, <2>2, <2>3, OneCall DEF SameLife
<1> QED
  BY <1>1, <1>2

LEMMA ThrownLife ==
  ASSUME StoreInv, CallsOK, NEW c \in Call, NEW k \in Key,
         Works(job[c][k]), call[c].state # "gone", Thrown(c, k)
  PROVE  CallsOK'
<1>1. CASE call[c].all
  <2>1. \A d \in Call : SameLife(call[d], call'[d])
    BY <1>1 DEF Thrown, SameLife, StoreInv, Shapes, CallRec
  <2>2. job' = [job EXCEPT ![c][k] = [at |-> "ended"]]
    BY DEF Thrown
  <2> QED
    BY <2>1, <2>2, JobMovesLife DEF Steps
<1>2. CASE ~ call[c].all
  <2>1. /\ job'[c][k] = [at |-> "ended"]
        /\ \A l \in Key : l # k => job'[c][l] = job[c][l]
        /\ \A d \in Call : d # c => job'[d] = job[d]
    BY DEF Thrown, StoreInv, Shapes
  <2>2. /\ call'[c].state = "dropped"
        /\ \A d \in Call : d # c => call'[d] = call[d]
    BY <1>2 DEF Thrown, StoreInv, Shapes, CallRec
  <2>3. CallOK(call'[c], job'[c])
    <3>1. CallOK(call[c], job[c])
      BY DEF CallsOK
    <3> QED
      BY <1>2, <2>1, <2>2, <3>1, OneEnds
  <2> QED
    BY <2>1, <2>2, <2>3, OneCall DEF SameLife
<1> QED
  BY <1>1, <1>2

LEMMA RefusedLife ==
  ASSUME StoreInv, CallsOK, NEW c \in Call, NEW k \in Key,
         Works(job[c][k]), Refused(c, k)
  PROVE  CallsOK'
<1>1. CASE call[c].state = "gone"
  <2>1. /\ job' = [job EXCEPT ![c][k] = Idle]
        /\ \A d \in Call : SameLife(call[d], call'[d])
    BY <1>1 DEF Refused, Answered, SameLife
  <2>2. Idle.at \in Steps /\ ~ Works(Idle)
    BY DEF Idle, Steps, Works
  <2> QED
    BY <2>1, <2>2, JobMovesLife
<1>2. CASE call[c].state # "gone"
  BY <1>2, CompletedLife DEF Refused
<1> QED
  BY <1>1, <1>2

LEMMA AnsweredLife ==
  ASSUME StoreInv, CallsOK, NEW c \in Call, NEW k \in Key, NEW n,
         Works(job[c][k]), n.at \in Steps, Answered(c, k, n)
  PROVE  CallsOK'
<1>1. CASE call[c].state = "gone"
  BY <1>1, RefusedLife DEF Refused, Answered, SameLife
<1>2. CASE call[c].state # "gone"
  BY <1>2, JobMovesLife DEF Answered, SameLife
<1> QED
  BY <1>1, <1>2

-----------------------------------------------------------------------------
LEMMA BeginLife ==
  ASSUME StoreInv, CallsOK, NEW c \in Call, Begin(c)
  PROVE  CallsOK'
<1>1. PICK keys \in SUBSET Key, all \in BOOLEAN :
        Check(c, keys, all) /\ (~ all => \A k \in keys, l \in keys : k = l)
  <2>1. CASE Check(c, {}, TRUE)
    BY <2>1
  <2>2. ASSUME NEW k \in Key, Check(c, {k}, FALSE)
        PROVE  \E keys \in SUBSET Key, all \in BOOLEAN :
                 Check(c, keys, all) /\ (~ all => \A m \in keys, l \in keys : m = l)
    <3>1. {k} \in SUBSET Key /\ \A m \in {k}, l \in {k} : m = l
      OBVIOUS
    <3> QED
      BY <2>2, <3>1
  <2> QED
    BY <2>1, <2>2 DEF Begin
<1>2. /\ call'[c].state = "entering" /\ call'[c].keys = keys /\ call'[c].all = all
      /\ \A d \in Call : d # c => call'[d] = call[d]
      /\ UNCHANGED job /\ call[c].state = "idle"
  BY <1>1 DEF Check, Fresh, StoreInv, Shapes
<1>3. CallOK(call'[c], job'[c])
  BY <1>1, <1>2 DEF CallsOK, CallOK
<1> QED
  BY <1>2, <1>3, OneCall DEF SameLife

LEMMA ProceedLife ==
  ASSUME StoreInv, CallsOK, NEW c \in Call,
         Proceed(c) \/ AnswerList(c) \/ LoseList(c)
  PROVE  CallsOK'
<1> USE DEF StoreInv, Shapes
<1>0. call[c] \in CallRec /\ CallOK(call[c], job[c])
  BY DEF CallsOK
<1>1. CASE SyncKey(c)
  <2>1. /\ call'[c].state = "fanned" /\ call'[c].keys = {} /\ call'[c].all = call[c].all
        /\ \A d \in Call : d # c => call'[d] = call[d] /\ job'[d] = job[d]
    BY <1>0, <1>1 DEF SyncKey, CallRec
  <2>2. \A k \in Key : job'[c][k] = IF k \in call[c].keys THEN [at |-> "ver"] ELSE Idle
    BY <1>1 DEF SyncKey
  <2>3. CallOK(call'[c], job'[c])
    BY <1>0, <1>1, <2>1, <2>2 DEF SyncKey, CallOK, OneAtMost, Works, Idle, Steps
  <2> QED
    BY <2>1, <2>3, OneCall DEF SameLife
<1>2. CASE SyncAllKeys(c) \/ FanOut(c) \/ AllDone(c) \/ AnswerList(c) \/ LoseList(c)
  <2>1. /\ \A d \in Call : d # c => call'[d] = call[d]
        /\ UNCHANGED job /\ call'[c].all = call[c].all
    BY <1>0, <1>2 DEF SyncAllKeys, FanOut, AllDone, AnswerList, LoseList, CallRec
  <2>2. \A k \in Key : ~ Works(job[c][k])
    BY <1>0, <1>2 DEF SyncAllKeys, FanOut, AllDone, AnswerList, LoseList, CallOK, Busy, Works
  <2>3. call'[c].state \in {"listing", "listed", "fanned", "ended"}
    BY <1>0, <1>2 DEF SyncAllKeys, FanOut, AllDone, AnswerList, LoseList, CallRec
  <2>4. CallOK(call'[c], job'[c])
    <3>1. \A k \in Key : job'[c][k].at \in Steps /\ ~ Works(job'[c][k])
      BY <1>0, <2>1, <2>2 DEF CallOK
    <3>2. call'[c].state \in {"listing", "listed", "fanned"} => call'[c].all
      BY <1>0, <1>2, <2>1 DEF SyncAllKeys, FanOut, AllDone, AnswerList, LoseList, CallOK, CallRec
    <3> QED
      BY <2>3, <3>1, <3>2 DEF CallOK
  <2> QED
    BY <2>1, <2>4, OneCall DEF SameLife
<1>3. ASSUME NEW k \in Key, StartKey(c, k) PROVE CallsOK'
  <2> DEFINE n == Compare(call[c].seen[k], ErrOf(call[c].seen[k]))
  <2>1. /\ call'[c].state = "fanned" /\ call'[c].all = call[c].all /\ call[c].state = "fanned"
        /\ \A d \in Call : d # c => call'[d] = call[d] /\ job'[d] = job[d]
    BY <1>0, <1>3 DEF StartKey, CallRec
  <2>2. \A l \in Key : job'[c][l] = IF l = k THEN n ELSE job[c][l]
    <3>1. OneJobIs(c, k, n)
      BY <1>3, JobChanged DEF StartKey
    <3> QED BY <3>1 DEF OneJobIs
  <2>3. n.at \in Steps
    BY DEF Compare, Steps
  <2>4. call[c].all
    BY <1>0, <1>3 DEF StartKey, CallOK
  <2> HIDE DEF n
  <2>5. CallOK(call'[c], job'[c])
    BY <1>0, <2>1, <2>2, <2>3, <2>4 DEF CallOK
  <2> QED
    BY <2>1, <2>5, OneCall DEF SameLife
<1> QED
  BY <1>1, <1>2, <1>3 DEF Proceed

LEMMA DecidesLife ==
  ASSUME StoreInv, CallsOK, NEW c \in Call, NEW k \in Key, Decides(c, k)
  PROVE  CallsOK'
<1>1. /\ job[c][k].at \in {"compare", "read"} /\ Works(job[c][k])
      /\ call[c].state # "gone"
  BY DEF Decides, NotRunning, Unreadable, CompareVersions, Decide, CallsOK, CallOK, Works
<1>2. CASE Thrown(c, k)
  BY <1>1, <1>2, ThrownLife
<1>3. ASSUME NEW n, n.at \in Steps, job' = [job EXCEPT ![c][k] = n], UNCHANGED call
      PROVE  CallsOK'
  BY <1>1, <1>3, JobMovesLife DEF SameLife
<1>4. CASE CompareVersions(c, k)
  <2> DEFINE n == [at |-> "read", seen |-> job[c][k].seen, err |-> job[c][k].err,
                   recorded |-> rows[k].recorded]
  <2>1. \/ Completed(c, k, FALSE)
        \/ job' = [job EXCEPT ![c][k] = n] /\ UNCHANGED call
    BY <1>4 DEF CompareVersions
  <2>2. n.at \in Steps
    BY DEF Steps
  <2> HIDE DEF n
  <2> QED
    BY <1>1, <1>3, <2>1, <2>2, CompletedLife
<1>5. CASE Decide(c, k)
  <2> DEFINE n == Decision(rows[k], job[c][k])
  <2>1. \/ Completed(c, k, TRUE)
        \/ job' = [job EXCEPT ![c][k] = n] /\ UNCHANGED call
    BY <1>5 DEF Decide
  <2>2. n.at \in Steps
    BY DEF Decision, Steps
  <2> HIDE DEF n
  <2> QED
    BY <1>1, <1>3, <2>1, <2>2, CompletedLife
<1> QED
  BY <1>2, <1>4, <1>5 DEF Decides, NotRunning, Unreadable

LEMMA AnswerLife ==
  ASSUME StoreInv, CallsOK, NEW c \in Call, NEW k \in Key, Answer(c, k) \/ Lose(c, k)
  PROVE  CallsOK'
<1> USE DEF Works
<1>1. ASSUME AnswerVer(c, k) \/ LoseVer(c, k) PROVE CallsOK'
  <2>1. \E seen, err : job' = [job EXCEPT ![c][k] = Compare(seen, err)]
    BY <1>1 DEF AnswerVer, LoseVer
  <2>2. PICK seen, err : job' = [job EXCEPT ![c][k] = Compare(seen, err)]
    BY <2>1
  <2>3. Compare(seen, err).at \in Steps
    BY DEF Compare, Steps
  <2>4. Works(job[c][k]) /\ call[c].state # "gone" /\ UNCHANGED call
    BY <1>1 DEF AnswerVer, LoseVer
  <2> QED
    BY <2>2, <2>3, <2>4, JobMovesLife DEF SameLife
<1>2. CASE AnswerWrite(c, k)
  <2>1. \A v, w : Record(v, w).at \in Steps
    BY DEF Record, Steps
  <2> QED
    BY <1>2, <2>1, AnsweredLife DEF AnswerWrite, Applies
<1>3. CASE RefuseWrite(c, k)
  BY <1>3, RefusedLife, CompletedLife DEF RefuseWrite
<1>4. CASE LoseWrite(c, k)
  BY <1>4, RefusedLife DEF LoseWrite
<1>5. CASE AnswerGet(c, k)
  <2> DEFINE n == [at |-> IF server[k].content = Garbage THEN "spoiled" ELSE "store",
                   localVer |-> job[c][k].localVer, version |-> job[c][k].version,
                   content |-> server[k].content, written |-> server[k].written]
  <2>1. Answered(c, k, n) /\ job[c][k].at = "get"
    BY <1>5 DEF AnswerGet
  <2>2. n.at \in Steps
    BY DEF Steps
  <2> HIDE DEF n
  <2> QED
    BY <2>1, <2>2, AnsweredLife
<1>6. CASE RefuseGet(c, k)
  BY <1>6, RefusedLife DEF RefuseGet
<1> QED
  BY <1>1, <1>2, <1>3, <1>4, <1>5, <1>6 DEF Answer, Lose

LEMMA TransactLife ==
  ASSUME StoreInv, CallsOK, NEW c \in Call, NEW k \in Key, Transact(c, k)
  PROVE  CallsOK'
<1>1. Works(job[c][k]) /\ job[c][k].at \notin {"put", "del"}
  BY DEF Transact, Store, Drop, Spoil, SetRemoteVersion, RollBack, Works
<1>2. call[c].state # "gone"
  BY <1>1 DEF CallsOK, CallOK
<1>3. ASSUME NEW v, NEW w, job' = [job EXCEPT ![c][k] = Record(v, w)], UNCHANGED call
      PROVE  CallsOK'
  BY <1>1, <1>2, <1>3, JobMovesLife DEF Record, Steps, SameLife
<1>4. \/ \E b \in BOOLEAN : Completed(c, k, b)
      \/ \E v, w : job' = [job EXCEPT ![c][k] = Record(v, w)] /\ UNCHANGED call
  BY DEF Transact, Store, Drop, Spoil, SetRemoteVersion, RollBack
<1> QED
  BY <1>1, <1>2, <1>3, <1>4, CompletedLife

LEMMA RestartLife ==
  ASSUME StoreInv, CallsOK, Restart
  PROVE  CallsOK'
<1> SUFFICES ASSUME NEW c \in Call PROVE CallOK(call'[c], job'[c])
  BY DEF CallsOK
<1>1. CASE c \in Active
  <2>1. call'[c].state = "gone"
    BY <1>1 DEF Restart, Fresh
  <2>2. \A k \in Key : job'[c][k] = IF job[c][k].at \in {"put", "del"} THEN job[c][k] ELSE Idle
    BY <1>1 DEF Restart
  <2> QED
    BY <2>1, <2>2 DEF CallOK, Works, Idle, Steps
<1>2. CASE c \notin Active
  <2>1. call'[c] = call[c] /\ \A k \in Key : job'[c][k] = job[c][k]
    BY <1>2 DEF Restart
  <2> QED
    BY <2>1 DEF CallsOK, CallOK, OneAtMost, Works
<1> QED
  BY <1>1, <1>2

LEMMA TypeInvInit == Init => TypeInv
<1>1. Init => CallsOK
  BY DEF Init, CallsOK, CallOK, Works, Idle, Fresh, Steps
<1>2. Init => running \in BOOLEAN /\ now \in 1 .. MaxNow
  <2>1. Resolution \in 1 .. MaxNow
    BY StoreAssumption DEF StoreAssumption
  <2> QED
    BY <2>1 DEF Init
<1> QED
  BY <1>1, <1>2, InitOK DEF TypeInv

LEMMA TypeInvNext ==
  ASSUME TypeInv, [Next]_vars
  PROVE  TypeInv'
<1> USE DEF TypeInv
<1>1. CallsOK'
  <2>1. CASE Write \/ Others
    <3>1. UNCHANGED job /\ \A c \in Call : SameLife(call[c], call'[c])
      BY <2>1 DEF Write, Set, Del, Others, Elsewhere, device, SameLife
    <3> QED
      BY <3>1 DEF CallsOK, CallOK, SameLife
  <2>2. CASE Restart
    BY <2>2, RestartLife
  <2>3. CASE Tick \/ UNCHANGED vars
    BY <2>3 DEF Tick, vars, device, CallsOK
  <2>4. CASE \E c \in Call : Begin(c) \/ Proceed(c) \/ AnswerList(c) \/ LoseList(c)
    BY <2>4, BeginLife, ProceedLife
  <2>5. CASE \E c \in Call, k \in Key :
               Decides(c, k) \/ Transact(c, k) \/ Answer(c, k) \/ Lose(c, k)
    BY <2>5, DecidesLife, TransactLife, AnswerLife
  <2> QED
    BY <2>1, <2>2, <2>3, <2>4, <2>5 DEF Next
<1>2. running' \in BOOLEAN /\ (now' = now \/ Tick)
  <2> USE DEF Write, Set, Del, Others, Elsewhere, Restart, Tick, vars, device
  <2>1. CASE Write \/ Others \/ Restart \/ Tick \/ UNCHANGED vars
    BY <2>1
  <2>2. ASSUME NEW c \in Call, Begin(c) \/ Proceed(c) \/ AnswerList(c) \/ LoseList(c)
        PROVE  running' \in BOOLEAN /\ now' = now
    BY <2>2 DEF Begin, Check, Proceed, SyncKey, SyncAllKeys, FanOut, AllDone, StartKey,
                AnswerList, LoseList
  <2>3. ASSUME NEW c \in Call, NEW k \in Key, Decides(c, k) \/ Transact(c, k)
        PROVE  running' \in BOOLEAN /\ now' = now
    BY <2>3 DEF Decides, NotRunning, Unreadable, Thrown, CompareVersions, Decide, Transact,
                Store, Drop, Spoil, SetRemoteVersion, RollBack, Completed
  <2>4. ASSUME NEW c \in Call, NEW k \in Key, Answer(c, k) \/ Lose(c, k)
        PROVE  running' \in BOOLEAN /\ now' = now
    BY <2>4 DEF Answer, Lose, AnswerVer, LoseVer, AnswerWrite, RefuseWrite, LoseWrite,
                AnswerGet, RefuseGet, Refused, Answered, Completed
  <2> QED
    BY <2>1, <2>2, <2>3, <2>4 DEF Next
<1>3. now' \in 1 .. MaxNow
  BY <1>2, StoreAssumption DEF Tick, StoreAssumption
<1> QED
  BY <1>1, <1>2, <1>3, NextOK

\* Rows, objects and calls keep their types, and nothing but a write on its way
\* outlives the sync it was for, however calls, answers and restarts overlap.
THEOREM StoreTypeCorrect == Spec => []TypeOK
<1>1. TypeInv => TypeOK
  <2> SUFFICES ASSUME TypeInv PROVE TypeOK
    OBVIOUS
  <2>1. \A c \in Call : call[c].state \in States /\ call[c].keys \subseteq Key
    BY DEF TypeInv, StoreInv, Shapes, CallRec
  <2>2. \A c \in Call, k \in Key :
          Works(job[c][k]) /\ c \notin Active
            => call[c].state = "gone" /\ job[c][k].at \in {"put", "del"}
    BY DEF TypeInv, CallsOK, CallOK, Active
  <2> QED
    BY <2>1, <2>2 DEF TypeOK, TypeInv, StoreInv, Shapes, CallsOK, CallOK, Works
<1>2. TypeInv /\ [Next]_vars => TypeInv'
  BY TypeInvNext
<1> QED
  BY TypeInvInit, <1>1, <1>2, PTL DEF Spec

-----------------------------------------------------------------------------
\* What the sync of a key remembers and nobody else has written is still so.
StillSo(j, r, s) ==
  /\ j.at \in {"compare", "read"}
       => j.seen.version = s.version \/ (j.err = "unknown" /\ j.seen.version = 0)
  /\ j.at \in {"put", "del"} => j.content = r.content
  /\ j.at = "del" => j.content = Removed
  /\ j.at = "store" => j.content = s.content
  /\ j.at = "drop" => s.content = Removed /\ (j.localVer = 0 => r.content = Removed)
  /\ j.at = "record" => r.content = s.content

Good(b, j, k, r, s) ==
  /\ StillSo(j, r, s)
  /\ j.at = "ended" /\ ~ b.failed => r.content = s.content
  /\ b.state = "listed" \/ (b.state = "fanned" /\ k \in b.keys)
       => b.seen[k].version = s.version

\* A job is begun when its call is through with what comes before.
Begins(b, k) == \/ b.state \in {"idle", "entering", "listing", "listed"}
                \/ b.state = "fanned" /\ k \in b.keys

Unbegun == \A c \in Call, k \in Key : Begins(call[c], k) => job[c][k] = Idle

AllGood == \A c \in Active, k \in Key :
  <<c, k>> \notin disturbed => Good(call[c], job[c][k], k, rows[k], server[k])

NoneEmpty == \A k \in Key : rows[k].version = 0 => rows[k].content = Removed

SyncInv == Unbegun /\ AllGood /\ NoneEmpty

-----------------------------------------------------------------------------
\* What a step must leave of a sync that nobody has disturbed, also when the
\* step ends it.
Stays(c) == \A k \in Key :
  <<c, k>> \notin disturbed' => Good(call'[c], job'[c][k], k, rows'[k], server'[k])

Sound(c) ==
  /\ c \in Active /\ call'[c].state # "gone" => Stays(c)
  /\ c \notin Active => call'[c].state \in {call[c].state, "entering"}
  /\ \A k \in Key : Begins(call'[c], k) => job'[c][k] = Idle

AllSound == NoneEmpty' /\ \A c \in Call : Sound(c)

LEMMA SoundKeeps ==
  ASSUME SyncInv, AllSound
  PROVE  SyncInv'
<1>1. Unbegun'
  BY DEF AllSound, Sound, Unbegun
<1>2. ASSUME NEW c \in Call, c \in Active', NEW k \in Key, <<c, k>> \notin disturbed'
      PROVE  Good(call'[c], job'[c][k], k, rows'[k], server'[k])
  <2>1. CASE c \in Active
    BY <1>2, <2>1 DEF AllSound, Sound, Stays, Active
  <2>2. CASE c \notin Active
    <3>1. call'[c].state = "entering"
      BY <1>2, <2>2 DEF AllSound, Sound, Active
    <3>2. job'[c][k] = Idle
      BY <3>1 DEF AllSound, Sound, Begins
    <3> QED
      BY <3>1, <3>2 DEF Good, StillSo, Idle
  <2> QED
    BY <2>1, <2>2
<1>3. AllGood'
  BY <1>2 DEF AllGood, Active
<1> QED
  BY <1>1, <1>3 DEF AllSound, SyncInv

\* What others leave of a row and its object.
Alike(k) == rows'[k].content = rows[k].content /\ server'[k] = server[k]

Alone(c) == \A k \in Key : <<c, k>> \notin disturbed' => Alike(k)

LEMMA OthersSound ==
  ASSUME SyncInv, NEW c \in Call, call'[c] = call[c],
         \A k \in Key : job'[c][k] = job[c][k],
         disturbed \subseteq disturbed', c \in Active => Alone(c)
  PROVE  Sound(c)
<1>1. ASSUME c \in Active, NEW k \in Key, <<c, k>> \notin disturbed'
      PROVE  Good(call'[c], job'[c][k], k, rows'[k], server'[k])
  <2>1. Good(call[c], job[c][k], k, rows[k], server[k])
    BY <1>1 DEF SyncInv, AllGood
  <2>2. Alike(k)
    BY <1>1 DEF Alone
  <2> QED
    BY <2>1, <2>2 DEF Good, StillSo, Alike
<1> QED
  BY <1>1 DEF Sound, Stays, SyncInv, Unbegun

\* Steps that leave rows and objects alone move one call.
LEMMA CallSound ==
  ASSUME SyncInv, NEW c \in Call, Sound(c), UNCHANGED <<rows, server, disturbed>>,
         \A d \in Call : d # c => call'[d] = call[d] /\ job'[d] = job[d]
  PROVE  AllSound
<1>1. NoneEmpty'
  BY DEF SyncInv, NoneEmpty
<1>2. ASSUME NEW d \in Call, d # c PROVE Sound(d)
  BY <1>2, OthersSound DEF Alone, Alike
<1> QED
  BY <1>1, <1>2 DEF AllSound

\* What a step of a job leaves of its call.
Follows(b, b2) == /\ b2.state \in {b.state, "ended", "dropped"} /\ b2.keys = b.keys
                  /\ b2.seen = b.seen /\ (b.failed => b2.failed)

LEMMA JobSound ==
  ASSUME SyncInv, CallsOK, NEW c \in Call, NEW k \in Key, NEW n,
         Works(job[c][k]), job'[c][k] = n, \A l \in Key : l # k => job'[c][l] = job[c][l],
         \A d \in Call : d # c => call'[d] = call[d] /\ job'[d] = job[d],
         \A l \in Key : l # k => rows'[l] = rows[l] /\ server'[l] = server[l],
         disturbed \subseteq disturbed',
         Alike(k) \/ \A d \in Active : d # c => <<d, k>> \in disturbed',
         Follows(call[c], call'[c]), call[c].state = "gone" => call'[c] = call[c],
         rows'[k] = rows[k] \/ rows'[k].version # 0,
         c \in Active /\ <<c, k>> \notin disturbed /\ <<c, k>> \notin disturbed'
           => /\ StillSo(n, rows'[k], server'[k])
              /\ n.at = "ended" /\ ~ call'[c].failed => rows'[k].content = server'[k].content
  PROVE  AllSound
<1>1. NoneEmpty'
  BY DEF SyncInv, NoneEmpty
<1>2. ASSUME NEW d \in Call, d # c PROVE Sound(d)
  <2>1. d \in Active => Alone(d)
    BY <1>2 DEF Alone, Alike
  <2> QED
    BY <1>2, <2>1, OthersSound
<1>3. call[c].state \in {"fanned", "gone"} /\ job[c][k] # Idle
  BY DEF CallsOK, CallOK, Works, Idle
<1>4. ~ Begins(call[c], k) /\ call'[c].state \in {call[c].state, "ended", "dropped"}
      /\ \A l \in Key : Begins(call'[c], l) => Begins(call[c], l) /\ l # k
  BY <1>3 DEF Follows, Begins, SyncInv, Unbegun
<1>5. ASSUME c \in Active, NEW l \in Key, <<c, l>> \notin disturbed'
      PROVE  Good(call'[c], job'[c][l], l, rows'[l], server'[l])
  <2>1. Good(call[c], job[c][l], l, rows[l], server[l]) /\ <<c, l>> \notin disturbed
    BY <1>5 DEF SyncInv, AllGood
  <2>2. CASE l = k
    <3>1. ~ (call'[c].state = "listed" \/ (call'[c].state = "fanned" /\ k \in call'[c].keys))
      BY <1>3, <1>4 DEF Begins
    <3> QED
      BY <1>5, <2>1, <2>2, <3>1 DEF Good
  <2>3. CASE l # k
    <3>1. job'[c][l] = job[c][l] /\ rows'[l] = rows[l] /\ server'[l] = server[l]
      BY <2>3
    <3>2. call'[c].state \in {"fanned", "ended", "dropped"}
      BY <1>3, <1>4, <1>5 DEF Active
    <3> QED
      BY <1>3, <1>5, <2>1, <3>1, <3>2 DEF Good, Follows, Active
  <2> QED
    BY <2>2, <2>3
<1>6. Sound(c)
  BY <1>3, <1>4, <1>5 DEF Sound, Stays, SyncInv, Unbegun, Active
<1> QED
  BY <1>1, <1>2, <1>6 DEF AllSound


-----------------------------------------------------------------------------
\* Nobody else's write goes unnoticed.
LEMMA WriteSound ==
  ASSUME StoreInv, SyncInv, Write \/ Others
  PROVE  AllSound
<1>1. PICK k \in Key :
        /\ UNCHANGED <<call, job>> /\ disturbed' = disturbed \cup (Active \X {k})
        /\ \A l \in Key : l # k => rows'[l] = rows[l] /\ server'[l] = server[l]
        /\ rows'[k] = rows[k] \/ rows'[k].version = rows[k].version + 1
  BY DEF Write, Set, Del, Others, Elsewhere, Disturb, device, NewRow, StoreInv, Shapes
<1>2. NoneEmpty'
  BY <1>1 DEF SyncInv, NoneEmpty, StoreInv, Shapes, Row
<1>3. ASSUME NEW c \in Call PROVE Sound(c)
  <2>1. c \in Active => Alone(c)
    BY <1>1 DEF Alone, Alike
  <2> QED
    BY <1>1, <2>1, OthersSound
<1> QED
  BY <1>2, <1>3 DEF AllSound

LEMMA RestartSound ==
  ASSUME SyncInv, Restart
  PROVE  AllSound
<1>1. UNCHANGED <<rows, server, disturbed>>
  BY DEF Restart
<1>2. NoneEmpty'
  BY <1>1 DEF SyncInv, NoneEmpty
<1>3. ASSUME NEW c \in Call PROVE Sound(c)
  <2>1. CASE c \in Active
    <3>1. call'[c].state = "gone"
      BY <2>1 DEF Restart, Fresh
    <3> QED
      BY <2>1, <3>1 DEF Sound, Begins
  <2>2. CASE c \notin Active
    <3>1. call'[c] = call[c] /\ \A k \in Key : job'[c][k] = job[c][k]
      BY <2>2 DEF Restart
    <3> QED
      BY <1>1, <2>2, <3>1, OthersSound
  <2> QED
    BY <2>1, <2>2
<1> QED
  BY <1>2, <1>3 DEF AllSound

LEMMA StillSound ==
  ASSUME SyncInv, UNCHANGED <<device, server, disturbed>>
  PROVE  AllSound
<1>1. NoneEmpty'
  BY DEF SyncInv, NoneEmpty, device
<1>2. ASSUME NEW c \in Call PROVE Sound(c)
  BY OthersSound DEF Alone, Alike, device
<1> QED
  BY <1>1, <1>2 DEF AllSound

LEMMA BeginSound ==
  ASSUME StoreInv, SyncInv, NEW c \in Call, Begin(c)
  PROVE  AllSound
<1>1. /\ UNCHANGED <<rows, server, disturbed, job>>
      /\ call[c].state = "idle" /\ call'[c].state = "entering"
      /\ \A d \in Call : d # c => call'[d] = call[d]
  <2>1. PICK keys, all : Check(c, keys, all)
    BY DEF Begin
  <2>2. call \in [Call -> CallRec]
    BY DEF StoreInv, Shapes
  <2> DEFINE b == [Fresh EXCEPT !.state = "entering", !.keys = keys, !.all = all]
  <2>3. call[c].state = "idle" /\ call' = [call EXCEPT ![c] = b] /\ b.state = "entering"
    BY <2>1 DEF Check, Fresh
  <2> HIDE DEF b
  <2>4. call'[c] = b /\ \A d \in Call : d # c => call'[d] = call[d]
    BY <2>2, <2>3
  <2> QED
    BY <2>1, <2>3, <2>4 DEF Check, rest
<1>2. \A k \in Key : job'[c][k] = Idle
  BY <1>1 DEF SyncInv, Unbegun, Begins
<1>3. Sound(c)
  BY <1>1, <1>2 DEF Sound, Active
<1> QED
  BY <1>1, <1>3, CallSound

LEMMA ProceedSound ==
  ASSUME StoreInv, SyncInv, NEW c \in Call,
         Proceed(c) \/ AnswerList(c) \/ LoseList(c)
  PROVE  AllSound
<1> USE DEF StoreInv, Shapes
<1>0. /\ call[c] \in CallRec /\ UNCHANGED <<rows, server, disturbed>>
      /\ \A d \in Call : d # c => call'[d] = call[d] /\ job'[d] = job[d]
      /\ c \in Active
  BY DEF Proceed, SyncKey, SyncAllKeys, FanOut, AllDone, StartKey, AnswerList, LoseList, rest, Active
<1>1. CASE SyncKey(c)
  <2>1. call'[c].state = "fanned" /\ call'[c].keys = {}
    BY <1>0, <1>1 DEF SyncKey, CallRec
  <2>2. \A k \in Key : job'[c][k].at \in {"ver", "idle"}
    BY <1>1 DEF SyncKey, Idle
  <2>3. Sound(c)
    BY <1>0, <2>1, <2>2 DEF Sound, Stays, Good, StillSo, Begins
  <2> QED
    BY <1>0, <2>3, CallSound
<1>2. CASE SyncAllKeys(c) \/ AnswerList(c) \/ LoseList(c) \/ FanOut(c)
  <2>1. \A k \in Key : job[c][k] = Idle /\ job'[c][k] = Idle
    BY <1>2 DEF SyncAllKeys, AnswerList, LoseList, FanOut, SyncInv, Unbegun, Begins
  <2>2. \/ call'[c].state \in {"listing", "ended"}
        \/ call'[c].state = "listed" /\ call'[c].seen = server
        \/ /\ call'[c].state = "fanned" /\ call'[c].seen = call[c].seen
           /\ call[c].state = "listed"
    <3>1. CASE SyncAllKeys(c)
      BY <1>0, <3>1 DEF SyncAllKeys, CallRec
    <3>2. CASE AnswerList(c)
      BY <1>0, <3>2 DEF AnswerList, CallRec
    <3>3. CASE LoseList(c)
      BY <1>0, <3>3 DEF LoseList, CallRec
    <3>4. CASE FanOut(c)
      BY <1>0, <3>4 DEF FanOut, CallRec
    <3> QED
      BY <1>2, <3>1, <3>2, <3>3, <3>4
  <2>3. ASSUME NEW k \in Key, <<c, k>> \notin disturbed'
        PROVE  Good(call'[c], job'[c][k], k, rows'[k], server'[k])
    <3>1. Good(call[c], job[c][k], k, rows[k], server[k])
      BY <1>0, <2>3 DEF SyncInv, AllGood
    <3> QED
      BY <1>0, <2>1, <2>2, <3>1 DEF Good, StillSo, Idle
  <2>4. Sound(c)
    BY <1>0, <2>1, <2>3 DEF Sound, Stays
  <2> QED
    BY <1>0, <2>4, CallSound
<1>3. CASE AllDone(c)
  <2>1. call'[c].state = "ended" /\ call'[c].failed = call[c].failed /\ UNCHANGED job
    BY <1>0, <1>3 DEF AllDone, CallRec
  <2>2. ASSUME NEW k \in Key, <<c, k>> \notin disturbed'
        PROVE  Good(call'[c], job'[c][k], k, rows'[k], server'[k])
    <3>1. Good(call[c], job[c][k], k, rows[k], server[k])
      BY <1>0, <2>2 DEF SyncInv, AllGood
    <3> QED
      BY <1>0, <2>1, <3>1 DEF Good
  <2>3. Sound(c)
    BY <1>0, <2>1, <2>2 DEF Sound, Stays, Begins
  <2> QED
    BY <1>0, <2>3, CallSound
<1>4. ASSUME NEW k \in Key, StartKey(c, k) PROVE AllSound
  <2> DEFINE n == Compare(call[c].seen[k], ErrOf(call[c].seen[k]))
  <2>1. /\ call[c].state = "fanned" /\ k \in call[c].keys
        /\ call'[c].state = "fanned" /\ call'[c].keys = call[c].keys \ {k}
        /\ call'[c].failed = call[c].failed
        /\ \A l \in Key : l # k => call'[c].seen[l] = call[c].seen[l]
    BY <1>0, <1>4 DEF StartKey, CallRec
  <2>2. \A l \in Key : job'[c][l] = IF l = k THEN n ELSE job[c][l]
    <3>1. OneJobIs(c, k, n)
      BY <1>4, JobChanged DEF StartKey
    <3> QED BY <3>1 DEF OneJobIs
  <2>3. n.at = "compare" /\ n.seen = call[c].seen[k]
    BY DEF Compare
  <2> HIDE DEF n
  <2>4. ASSUME NEW l \in Key, <<c, l>> \notin disturbed'
        PROVE  Good(call'[c], job'[c][l], l, rows'[l], server'[l])
    <3>1. Good(call[c], job[c][l], l, rows[l], server[l])
      BY <1>0, <2>4 DEF SyncInv, AllGood
    <3>2. CASE l = k
      BY <1>0, <2>1, <2>2, <2>3, <3>1, <3>2 DEF Good, StillSo
    <3>3. CASE l # k
      BY <1>0, <2>1, <2>2, <3>1, <3>3 DEF Good
    <3> QED
      BY <3>2, <3>3
  <2>5. Sound(c)
    BY <1>0, <2>1, <2>2, <2>4 DEF Sound, Stays, SyncInv, Unbegun, Begins
  <2> QED
    BY <1>0, <2>5, CallSound
<1> QED
  BY <1>1, <1>2, <1>3, <1>4 DEF Proceed


-----------------------------------------------------------------------------
\* Of the steps of a job: what is neither its call nor its key stays.
Apart(c, k, n) ==
  /\ job'[c][k] = n /\ \A l \in Key : l # k => job'[c][l] = job[c][l]
  /\ \A d \in Call : d # c => call'[d] = call[d] /\ job'[d] = job[d]
  /\ Follows(call[c], call'[c]) /\ (call[c].state = "gone" => call'[c] = call[c])

LEMMA MovesApart ==
  ASSUME StoreInv, NEW c \in Call, NEW k \in Key, NEW n,
         job' = [job EXCEPT ![c][k] = n], UNCHANGED call
  PROVE  Apart(c, k, n)
BY DEF Apart, Follows, StoreInv, Shapes

LEMMA CompletedApart ==
  ASSUME StoreInv, NEW c \in Call, NEW k \in Key, NEW failed \in BOOLEAN,
         Completed(c, k, failed), call[c].state # "gone"
  PROVE  Apart(c, k, [at |-> "ended"]) /\ (failed => call'[c].failed)
<1>1. call[c] \in CallRec
  BY DEF StoreInv, Shapes
<1>2. job' = [job EXCEPT ![c][k] = [at |-> "ended"]]
  BY DEF Completed
<1>3. \A d \in Call : d # c => call'[d] = call[d]
  BY DEF Completed, StoreInv, Shapes
<1>4. Follows(call[c], call'[c]) /\ (failed => call'[c].failed)
  BY <1>1 DEF Completed, Follows, StoreInv, Shapes, CallRec
<1> QED
  BY <1>2, <1>3, <1>4 DEF Apart, StoreInv, Shapes

\* Steps of a job that leave rows and objects alone.
LEMMA ThoughtSound ==
  ASSUME StoreInv, SyncInv, CallsOK, NEW c \in Call, NEW k \in Key, NEW n,
         Works(job[c][k]), Apart(c, k, n), UNCHANGED <<rows, server, disturbed>>,
         Good(call[c], job[c][k], k, rows[k], server[k])
           => /\ StillSo(n, rows[k], server[k])
              /\ n.at = "ended" /\ ~ call'[c].failed => rows[k].content = server[k].content
  PROVE  AllSound
<1>1. c \in Active /\ <<c, k>> \notin disturbed => Good(call[c], job[c][k], k, rows[k], server[k])
  BY DEF SyncInv, AllGood
<1> QED
  BY <1>1, JobSound DEF Apart, Alike

LEMMA FailsSound ==
  ASSUME StoreInv, SyncInv, CallsOK, NEW c \in Call, NEW k \in Key,
         Works(job[c][k]), Refused(c, k), UNCHANGED <<rows, server, disturbed>>
  PROVE  AllSound
<1>1. CASE call[c].state = "gone"
  <2>1. job' = [job EXCEPT ![c][k] = Idle] /\ UNCHANGED call
    BY <1>1 DEF Refused, Answered
  <2>2. Apart(c, k, Idle)
    BY <2>1, MovesApart
  <2> QED
    BY <2>2, ThoughtSound DEF Idle, StillSo
<1>2. CASE call[c].state # "gone"
  <2>1. Completed(c, k, TRUE)
    BY <1>2 DEF Refused
  <2>2. Apart(c, k, [at |-> "ended"]) /\ call'[c].failed
    BY <1>2, <2>1, CompletedApart
  <2> QED
    BY <2>2, ThoughtSound DEF StillSo
<1> QED
  BY <1>1, <1>2

\* A sync that reports nothing to do, or that all is done, is right.
LEMMA EndsSound ==
  ASSUME StoreInv, SyncInv, CallsOK, NEW c \in Call, NEW k \in Key,
         Works(job[c][k]), call[c].state # "gone", NEW failed \in BOOLEAN,
         Completed(c, k, failed), UNCHANGED <<rows, server, disturbed>>,
         failed \/ (Good(call[c], job[c][k], k, rows[k], server[k])
                      => rows[k].content = server[k].content)
  PROVE  AllSound
<1>1. Apart(c, k, [at |-> "ended"]) /\ (failed => call'[c].failed)
  BY CompletedApart
<1> QED
  BY <1>1, ThoughtSound DEF StillSo

LEMMA DecidesSound ==
  ASSUME StoreInv, SyncInv, CallsOK, NEW c \in Call, NEW k \in Key, Decides(c, k)
  PROVE  AllSound
<1> DEFINE j == job[c][k]
<1>1. /\ j.at \in {"compare", "read"} /\ Works(j) /\ call[c].state # "gone"
      /\ UNCHANGED <<rows, server, disturbed>>
  BY DEF Decides, NotRunning, Unreadable, Thrown, CompareVersions, Decide, CallsOK, CallOK,
         Works, rest
<1>2. /\ SeenOK(j.seen, server[k]) /\ (j.err = "tombstone" => j.seen.content = Removed)
      /\ RowOK(rows[k], server[k], now)
  BY <1>1 DEF StoreInv, KeysOK, JobsOK, JobOK
<1>3. CASE Thrown(c, k)
  <2>1. Apart(c, k, [at |-> "ended"]) /\ call'[c].failed
    BY <1>1, <1>3 DEF Thrown, Apart, Follows, StoreInv, Shapes, CallRec
  <2> QED
    BY <1>1, <2>1, ThoughtSound DEF StillSo
<1>4. CASE CompareVersions(c, k)
  <2> DEFINE n == [at |-> "read", seen |-> j.seen, err |-> j.err, recorded |-> rows[k].recorded]
  <2>1. CASE /\ j.err # "notFound" /\ j.seen.version > 0 /\ rows[k].recorded = j.seen.version
             /\ Completed(c, k, FALSE)
    <3>1. rows[k].recorded # 0 /\ rows[k].recorded <= server[k].version
      BY <1>2, <2>1 DEF RowOK
    <3>2. Good(call[c], j, k, rows[k], server[k]) => rows[k].content = server[k].content
      BY <1>1, <1>2, <2>1, <3>1 DEF Good, StillSo, RowOK
    <3> QED
      BY <1>1, <2>1, <3>2, EndsSound
  <2>2. CASE job' = [job EXCEPT ![c][k] = n] /\ UNCHANGED call
    <3>1. Apart(c, k, n)
      BY <2>2, MovesApart
    <3>2. Good(call[c], j, k, rows[k], server[k]) => StillSo(n, rows[k], server[k])
      BY <1>1 DEF Good, StillSo
    <3> QED
      BY <1>1, <3>1, <3>2, ThoughtSound
  <2> QED
    BY <1>4, <2>1, <2>2 DEF CompareVersions
<1>5. CASE Decide(c, k)
  <2> DEFINE n == Decision(rows[k], j)
  <2>1. CASE Completed(c, k, TRUE)
    BY <1>1, <2>1, EndsSound
  <2>2. CASE j.err # "unknown" /\ job' = [job EXCEPT ![c][k] = n] /\ UNCHANGED call
    <3>1. Apart(c, k, n)
      BY <2>2, MovesApart
    <3>2. \/ n.at = "record" /\ rows[k].content = Removed /\ j.err = "tombstone"
          \/ n.at = "del" /\ n.content = rows[k].content /\ rows[k].content = Removed
          \/ n.at = "put" /\ n.content = rows[k].content
          \/ n.at = "drop" /\ n.localVer = rows[k].version /\ j.err = "tombstone"
          \/ n.at = "get"
      <4> DEFINE deleted == rows[k].version # 0 /\ rows[k].content = Removed
                 later == rows[k].time >= j.seen.time
                 earlier == rows[k].time < j.seen.time
                 dead == j.err = "tombstone"
      <4>1. CASE deleted /\ dead
        BY <4>1 DEF Decision
      <4>2. CASE ~ (deleted /\ dead) /\ later /\ deleted
        BY <4>2 DEF Decision
      <4>3. CASE later /\ ~ deleted /\ ~ earlier
        BY <4>3 DEF Decision
      <4>4. CASE earlier /\ ~ deleted /\ dead /\ ~ later
        BY <4>4 DEF Decision
      <4>5. CASE ~ (deleted /\ dead) /\ ~ later /\ ~ (earlier /\ ~ deleted /\ dead)
        BY <4>5 DEF Decision
      <4>6. ~ (later /\ earlier)
        <5>1. rows[k].time \in Nat /\ j.seen.time \in Nat
          BY <1>2 DEF RowOK, SeenOK, Row, Object
        <5> QED
          BY <5>1
      <4> QED
        BY <4>1, <4>2, <4>3, <4>4, <4>5, <4>6
    <3> HIDE DEF n
    <3>3. ASSUME Good(call[c], j, k, rows[k], server[k])
          PROVE  StillSo(n, rows[k], server[k])
      <4>1. j.seen.version = server[k].version
        BY <1>1, <2>2, <3>3 DEF Good, StillSo
      <4>2. j.err = "tombstone" => server[k].content = Removed
        BY <1>2, <4>1 DEF SeenOK, Was
      <4>3. rows[k].version = 0 => rows[k].content = Removed
        BY DEF SyncInv, NoneEmpty
      <4> QED
        BY <3>2, <4>2, <4>3 DEF StillSo
    <3>4. n.at # "ended"
      BY <3>2
    <3> QED
      BY <1>1, <3>1, <3>3, <3>4, ThoughtSound
  <2> QED
    BY <1>5, <2>1, <2>2 DEF Decide
<1> QED
  BY <1>3, <1>4, <1>5 DEF Decides, NotRunning, Unreadable


\* An object or row of the key changes; the other syncs under way take note.
LEMMA ChangeSound ==
  ASSUME StoreInv, SyncInv, CallsOK, NEW c \in Call, NEW k \in Key, NEW n, NEW r, NEW o,
         Works(job[c][k]), Apart(c, k, n), Disturb(Active \ {c}, k),
         \/ rows' = [rows EXCEPT ![k] = r] /\ r.version # 0 /\ o = server[k] /\ UNCHANGED server
         \/ server' = [server EXCEPT ![k] = o] /\ r = rows[k] /\ UNCHANGED rows,
         c \in Active /\ Good(call[c], job[c][k], k, rows[k], server[k])
           => /\ StillSo(n, r, o)
              /\ n.at = "ended" => call'[c].failed \/ r.content = o.content
  PROVE  AllSound
<1>1. /\ rows'[k] = r /\ server'[k] = o /\ (rows'[k] = rows[k] \/ rows'[k].version # 0)
      /\ \A l \in Key : l # k => rows'[l] = rows[l] /\ server'[l] = server[l]
  BY DEF StoreInv, Shapes
<1>2. /\ disturbed \subseteq disturbed'
      /\ \A d \in Active : d # c => <<d, k>> \in disturbed'
  BY DEF Disturb
<1>3. c \in Active /\ <<c, k>> \notin disturbed => Good(call[c], job[c][k], k, rows[k], server[k])
  BY DEF SyncInv, AllGood
<1> QED
  BY <1>1, <1>2, <1>3, JobSound DEF Apart

LEMMA RequestSound ==
  ASSUME StoreInv, SyncInv, CallsOK, NEW c \in Call, NEW k \in Key,
         Answer(c, k) \/ Lose(c, k)
  PROVE  AllSound
<1> USE DEF Works
<1> DEFINE j == job[c][k]
<1>1. ASSUME NEW seen, NEW err, job' = [job EXCEPT ![c][k] = Compare(seen, err)],
             seen.version = server[k].version \/ (err = "unknown" /\ seen.version = 0),
             AnswerVer(c, k) \/ LoseVer(c, k)
      PROVE  AllSound
  <2> DEFINE n == Compare(seen, err)
  <2>1. Works(j) /\ UNCHANGED <<call, rows, server, disturbed>>
    BY <1>1 DEF AnswerVer, LoseVer, rest
  <2>2. Apart(c, k, n)
    BY <1>1, <2>1, MovesApart
  <2>3. StillSo(n, rows[k], server[k]) /\ n.at # "ended"
    BY <1>1 DEF StillSo, Compare
  <2> HIDE DEF n
  <2> QED
    BY <2>1, <2>2, <2>3, ThoughtSound
<1>2. CASE AnswerVer(c, k)
  <2>1. Head(k).version = server[k].version
    BY DEF Head, StoreInv, Shapes, Object
  <2> QED
    BY <1>1, <1>2, <2>1 DEF AnswerVer
<1>3. CASE LoseVer(c, k)
  <2>1. Missing.version = 0
    BY DEF Missing
  <2> QED
    BY <1>1, <1>3, <2>1 DEF LoseVer
<1>4. CASE AnswerWrite(c, k)
  <2> DEFINE s == Stored(k, j.content, j.written)
             n == IF call[c].state = "gone" THEN Idle ELSE Record(j.localVer, Successor(k))
  <2>1. /\ j.at \in {"put", "del"} /\ Disturb(Active \ {c}, k) /\ UNCHANGED <<rows, call>>
        /\ server' = [server EXCEPT ![k] = s] /\ job' = [job EXCEPT ![c][k] = n]
    BY <1>4 DEF AnswerWrite, Applies, Answered
  <2>2. /\ s.content = j.content /\ n.at \in {"idle", "record"}
    BY DEF Stored, Record, Idle
  <2> HIDE DEF s, n
  <2>3. Apart(c, k, n)
    BY <2>1, MovesApart
  <2>4. Good(call[c], j, k, rows[k], server[k]) => StillSo(n, rows[k], s) /\ n.at # "ended"
    BY <2>1, <2>2 DEF Good, StillSo
  <2> QED
    BY <2>1, <2>3, <2>4, ChangeSound
<1>5. CASE RefuseWrite(c, k)
  <2>0. Works(j) /\ UNCHANGED <<rows, server, disturbed>>
    BY <1>5 DEF RefuseWrite, rest
  <2>1. CASE /\ j.at = "del" /\ server[k].version = 0 /\ call[c].state # "gone"
             /\ Completed(c, k, FALSE)
    <3>1. server[k].content = Removed
      BY <2>1 DEF StoreInv, KeysOK, ObjectOK
    <3>2. Good(call[c], j, k, rows[k], server[k]) => rows[k].content = server[k].content
      BY <2>1, <3>1 DEF Good, StillSo
    <3> QED
      BY <2>0, <2>1, <3>2, EndsSound
  <2>2. CASE Refused(c, k)
    BY <2>0, <2>2, FailsSound
  <2> QED
    BY <1>5, <2>1, <2>2 DEF RefuseWrite
<1>6. CASE LoseWrite(c, k)
  <2> DEFINE s == Stored(k, j.content, j.written)
  <2>0. j.at \in {"put", "del"} /\ Refused(c, k) /\ UNCHANGED rows
    BY <1>6 DEF LoseWrite
  <2>1. CASE UNCHANGED <<server, disturbed>>
    BY <2>0, <2>1, FailsSound
  <2>2. CASE server' = [server EXCEPT ![k] = s] /\ Disturb(Active \ {c}, k)
    <3> HIDE DEF s
    <3>1. CASE call[c].state = "gone"
      <4>1. job' = [job EXCEPT ![c][k] = Idle] /\ UNCHANGED call
        BY <2>0, <3>1 DEF Refused, Answered
      <4>2. Apart(c, k, Idle)
        BY <4>1, MovesApart
      <4>3. StillSo(Idle, rows[k], s) /\ Idle.at # "ended"
        BY DEF StillSo, Idle
      <4> QED
        BY <2>0, <2>2, <4>2, <4>3, ChangeSound
    <3>2. CASE call[c].state # "gone"
      <4>1. Apart(c, k, [at |-> "ended"]) /\ call'[c].failed
        BY <2>0, <3>2, CompletedApart DEF Refused
      <4>2. StillSo([at |-> "ended"], rows[k], s)
        BY DEF StillSo
      <4> QED
        BY <2>0, <2>2, <4>1, <4>2, ChangeSound
    <3> QED
      BY <3>1, <3>2
  <2> QED
    BY <1>6, <2>1, <2>2 DEF LoseWrite
<1>7. CASE AnswerGet(c, k)
  <2> DEFINE m == [at |-> IF server[k].content = Garbage THEN "spoiled" ELSE "store",
                   localVer |-> j.localVer, version |-> j.version,
                   content |-> server[k].content, written |-> server[k].written]
             n == IF call[c].state = "gone" THEN Idle ELSE m
  <2>1. /\ Works(j) /\ UNCHANGED <<call, rows, server, disturbed>>
        /\ job' = [job EXCEPT ![c][k] = n]
    BY <1>7 DEF AnswerGet, Answered, rest
  <2>2. Apart(c, k, n)
    BY <2>1, MovesApart
  <2>3. StillSo(n, rows[k], server[k]) /\ n.at # "ended"
    BY DEF StillSo, Idle
  <2> HIDE DEF n, m
  <2> QED
    BY <2>1, <2>2, <2>3, ThoughtSound
<1>8. CASE RefuseGet(c, k)
  BY <1>8, FailsSound DEF RefuseGet, rest
<1> QED
  BY <1>2, <1>3, <1>4, <1>5, <1>6, <1>7, <1>8 DEF Answer, Lose

LEMMA TransactSound ==
  ASSUME StoreInv, SyncInv, CallsOK, NEW c \in Call, NEW k \in Key, Transact(c, k)
  PROVE  AllSound
<1> DEFINE j == job[c][k]
<1>0. /\ j.at \in {"store", "drop", "spoiled", "record"} /\ Works(j)
      /\ call[c].state # "gone" /\ UNCHANGED server
  BY DEF Transact, Store, Drop, Spoil, SetRemoteVersion, RollBack, CallsOK, CallOK, Works
<1>1. ASSUME NEW content, NEW recorded, NEW written
      PROVE  /\ NewRow(k, content, recorded, written).version # 0
             /\ NewRow(k, content, recorded, written).content = content
  BY DEF NewRow, StoreInv, Shapes, Row
<1>2. CASE Store(c, k)
  <2> DEFINE r == NewRow(k, j.content, 0, j.written)
             n == Record(j.localVer + 1, j.version)
  <2>1. CASE /\ rows' = [rows EXCEPT ![k] = r] /\ Disturb(Active \ {c}, k)
             /\ job' = [job EXCEPT ![c][k] = n] /\ UNCHANGED call
    <3>1. r.version # 0 /\ r.content = j.content /\ j.at = "store" /\ n.at = "record"
      BY <1>1, <1>2 DEF Store, Record
    <3> HIDE DEF r, n
    <3>2. Apart(c, k, n)
      BY <2>1, MovesApart
    <3>3. Good(call[c], j, k, rows[k], server[k]) => StillSo(n, r, server[k])
      BY <3>1 DEF Good, StillSo
    <3> QED
      BY <1>0, <2>1, <3>1, <3>2, <3>3, ChangeSound
  <2>2. CASE UNCHANGED <<rows, disturbed>> /\ Completed(c, k, TRUE)
    BY <1>0, <2>2, EndsSound
  <2> QED
    BY <1>2, <2>1, <2>2 DEF Store, Replace
<1>3. CASE Drop(c, k)
  <2> DEFINE r == NewRow(k, Removed, 0, j.written)
             n == Record(j.localVer + 1, j.version)
  <2>1. CASE /\ rows' = [rows EXCEPT ![k] = r] /\ Disturb(Active \ {c}, k)
             /\ job' = [job EXCEPT ![c][k] = n] /\ UNCHANGED call
    <3>1. r.version # 0 /\ r.content = Removed /\ j.at = "drop" /\ n.at = "record"
      BY <1>1, <1>3 DEF Drop, Record
    <3> HIDE DEF r, n
    <3>2. Apart(c, k, n)
      BY <2>1, MovesApart
    <3>3. Good(call[c], j, k, rows[k], server[k]) => StillSo(n, r, server[k])
      BY <3>1 DEF Good, StillSo
    <3> QED
      BY <1>0, <2>1, <3>1, <3>2, <3>3, ChangeSound
  <2>2. CASE UNCHANGED <<rows, disturbed>> /\ Completed(c, k, j.localVer # 0)
    <3>1. j.at = "drop"
      BY <1>3 DEF Drop
    <3>2. \/ j.localVer # 0
          \/ Good(call[c], j, k, rows[k], server[k]) => rows[k].content = server[k].content
      BY <3>1 DEF Good, StillSo
    <3> QED
      BY <1>0, <2>2, <3>2, EndsSound
  <2> QED
    BY <1>3, <2>1, <2>2 DEF Drop, Replace
<1>4. CASE Spoil(c, k)
  <2> DEFINE r == NewRow(k, Removed, 0, now)
  <2>0. Completed(c, k, TRUE)
    BY <1>4 DEF Spoil
  <2>1. CASE rows' = [rows EXCEPT ![k] = r] /\ Disturb(Active \ {c}, k)
    <3>1. r.version # 0
      BY <1>1
    <3> HIDE DEF r
    <3>2. Apart(c, k, [at |-> "ended"]) /\ call'[c].failed
      BY <1>0, <2>0, CompletedApart
    <3>3. StillSo([at |-> "ended"], r, server[k])
      BY DEF StillSo
    <3> QED
      BY <1>0, <2>1, <3>1, <3>2, <3>3, ChangeSound
  <2>2. CASE UNCHANGED <<rows, disturbed>>
    BY <1>0, <2>0, <2>2, EndsSound
  <2> QED
    BY <1>4, <2>1, <2>2 DEF Spoil, Replace
<1>5. CASE SetRemoteVersion(c, k)
  <2> DEFINE r == NewRow(k, rows[k].content, j.version, rows[k].written)
  <2>0. j.at = "record" /\ UNCHANGED disturbed
    BY <1>5 DEF SetRemoteVersion, rest
  <2>1. CASE rows' = [rows EXCEPT ![k] = r] /\ Completed(c, k, FALSE)
    <3>1. r.version # 0 /\ r.content = rows[k].content
      BY <1>1
    <3> HIDE DEF r
    <3>2. /\ Alike(k) /\ rows'[k] = r
          /\ \A l \in Key : l # k => rows'[l] = rows[l] /\ server'[l] = server[l]
      BY <1>0, <2>1, <3>1 DEF Alike, StoreInv, Shapes
    <3>3. Apart(c, k, [at |-> "ended"])
      BY <1>0, <2>1, CompletedApart
    <3>4. c \in Active /\ <<c, k>> \notin disturbed => rows'[k].content = server'[k].content
      BY <1>0, <2>0, <3>2 DEF SyncInv, AllGood, Good, StillSo, Alike
    <3>5. StillSo([at |-> "ended"], rows'[k], server'[k])
      BY DEF StillSo
    <3> QED
      BY <1>0, <2>0, <3>1, <3>2, <3>3, <3>4, <3>5, JobSound DEF Apart
  <2>2. CASE UNCHANGED rows /\ Completed(c, k, TRUE)
    BY <1>0, <2>0, <2>2, EndsSound
  <2> QED
    BY <1>5, <2>1, <2>2 DEF SetRemoteVersion
<1>6. CASE RollBack(c, k)
  BY <1>0, <1>6, EndsSound DEF RollBack, rest
<1> QED
  BY <1>2, <1>3, <1>4, <1>5, <1>6 DEF Transact

LEMMA NextSound ==
  ASSUME TypeInv, SyncInv, [Next]_vars
  PROVE  AllSound
<1> USE DEF TypeInv
<1>1. CASE Write \/ Others
  BY <1>1, WriteSound
<1>2. CASE Restart
  BY <1>2, RestartSound
<1>3. CASE Tick \/ UNCHANGED vars
  BY <1>3, StillSound DEF Tick, vars, device, rest
<1>4. CASE \E c \in Call : Begin(c) \/ Proceed(c) \/ AnswerList(c) \/ LoseList(c)
  BY <1>4, BeginSound, ProceedSound
<1>5. CASE \E c \in Call, k \in Key :
             Decides(c, k) \/ Transact(c, k) \/ Answer(c, k) \/ Lose(c, k)
  BY <1>5, DecidesSound, TransactSound, RequestSound
<1> QED
  BY <1>1, <1>2, <1>3, <1>4, <1>5 DEF Next

\* A sync that reports success has made the table and the server the same for
\* every key it worked on, unless the application, another device or another
\* sync wrote it meanwhile.
THEOREM SuccessMeansSameHolds == Spec => SuccessMeansSame
<1> DEFINE A == \A c \in Call, k \in Key :
  c \in Active /\ call'[c].state = "ended" /\ ~call'[c].failed
    /\ job'[c][k].at = "ended" /\ <<c, k>> \notin disturbed'
    => rows'[k].content = server'[k].content
<1>1. Init => SyncInv
  BY DEF Init, SyncInv, Unbegun, AllGood, NoneEmpty, Active, Fresh, None
<1>2. TypeInv /\ SyncInv /\ [Next]_vars => AllSound
  BY NextSound
<1>3. SyncInv /\ AllSound => SyncInv'
  BY SoundKeeps
<1>4. AllSound => A
  BY DEF AllSound, Sound, Stays, Good
<1>5. TypeInv /\ SyncInv /\ [Next]_vars => [A]_vars
  BY <1>2, <1>4
<1>6. TypeInv /\ SyncInv /\ [Next]_vars => SyncInv'
  BY <1>2, <1>3
<1>7. TypeInv /\ [Next]_vars => TypeInv'
  BY TypeInvNext
<1> QED
  BY TypeInvInit, <1>1, <1>5, <1>6, <1>7, PTL DEF Spec, SuccessMeansSame

=============================================================================
