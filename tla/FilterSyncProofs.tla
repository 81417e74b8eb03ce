-------------------------- MODULE FilterSyncProofs --------------------------
(***************************************************************************)
(* What holds of FilterSync for every chain of blocks, every set of        *)
(* transactions and every size of the address chains and of a batch: the   *)
(* types, and that the payments in the blocks of the chain are found.      *)
(***************************************************************************)
EXTENDS FilterHistory, Extrema, SequenceTheorems, FiniteSetTheorems, TLAPS

-----------------------------------------------------------------------------
(***************************************************************************)
(* What is between the peer and its client: the messages on the wire and   *)
(* the requests on their way, as one line of messages that the client has  *)
(* still to see.  What each step of either does to the line (Fine) and to  *)
(* the filters its blocks are matched with (Matching).                     *)
(***************************************************************************)
Msg == [kind : Kinds, height : Nat, blocks : Seq(Heights), txs : SUBSET Tx]

-----------------------------------------------------------------------------
(***************************************************************************)
(* What the client has still to see, in this order: what is on the wire,   *)
(* then the answers to what it has asked.  A step inserts a message into   *)
(* this line, takes one out, or puts one in the place of another.          *)
(***************************************************************************)
Line(w, o) == w \o o

Inserted(L, n, m) ==
  [i \in 1 .. (Len(L) + 1) |-> IF i < n THEN L[i] ELSE IF i = n THEN m ELSE L[i - 1]]
Removed(L, n) == [i \in 1 .. (Len(L) - 1) |-> IF i < n THEN L[i] ELSE L[i + 1]]
Put(L, n, m) == [L EXCEPT ![n] = m]

IsInserted(J, L, n, m) ==
  /\ J \in Seq(Msg) /\ Len(J) = Len(L) + 1
  /\ \A i \in 1 .. (Len(L) + 1) :
       J[i] = IF i < n THEN L[i] ELSE IF i = n THEN m ELSE L[i - 1]

LEMMA InsertedIs ==
  ASSUME NEW L \in Seq(Msg), NEW n \in 1 .. (Len(L) + 1), NEW m \in Msg
  PROVE  IsInserted(Inserted(L, n, m), L, n, m)
<1>1. Len(L) \in Nat /\ \A i \in 1 .. Len(L) : L[i] \in Msg
  BY LenProperties
<1> HIDE DEF Msg
<1> DEFINE e(i) == IF i < n THEN L[i] ELSE IF i = n THEN m ELSE L[i - 1]
<1>2. \A i \in 1 .. (Len(L) + 1) : e(i) \in Msg
  <2> SUFFICES ASSUME NEW i \in 1 .. (Len(L) + 1) PROVE e(i) \in Msg
    OBVIOUS
  <2>1. CASE i < n
    BY <1>1, <2>1
  <2>2. CASE i = n
    BY <2>2
  <2>3. CASE i > n
    <3>1. i - 1 \in 1 .. Len(L)
      BY <1>1, <2>3
    <3> QED BY <1>1, <2>3, <3>1
  <2> QED BY <2>1, <2>2, <2>3
<1>3. Inserted(L, n, m) \in [1 .. (Len(L) + 1) -> Msg]
  BY <1>2 DEF Inserted
<1>4. Inserted(L, n, m) \in Seq(Msg) /\ Len(Inserted(L, n, m)) = Len(L) + 1
  BY <1>1, <1>3
<1>5. \A i \in 1 .. (Len(L) + 1) : Inserted(L, n, m)[i] = e(i)
  BY DEF Inserted
<1> HIDE DEF Inserted
<1> QED BY <1>4, <1>5 DEF IsInserted

LEMMA RemovedIs ==
  ASSUME NEW L \in Seq(Msg), NEW n \in 1 .. Len(L)
  PROVE  /\ Removed(L, n) \in Seq(Msg)
         /\ Len(Removed(L, n)) = Len(L) - 1
         /\ \A i \in 1 .. (Len(L) - 1) : Removed(L, n)[i] = IF i < n THEN L[i] ELSE L[i + 1]
<1>1. Len(L) \in Nat /\ \A i \in 1 .. Len(L) : L[i] \in Msg
  BY LenProperties
<1> HIDE DEF Msg
<1>2. Len(L) - 1 \in Nat
  BY <1>1
<1>3. \A i \in 1 .. (Len(L) - 1) : (IF i < n THEN L[i] ELSE L[i + 1]) \in Msg
  BY <1>1
<1> QED BY <1>2, <1>3 DEF Removed

LEMMA PutIs ==
  ASSUME NEW L \in Seq(Msg), NEW n \in 1 .. Len(L), NEW m \in Msg
  PROVE  /\ Put(L, n, m) \in Seq(Msg)
         /\ Len(Put(L, n, m)) = Len(L)
         /\ \A i \in 1 .. Len(L) : Put(L, n, m)[i] = IF i = n THEN m ELSE L[i]
BY ExceptSeq DEF Put

LEMMA LineIs ==
  ASSUME NEW w \in Seq(Msg), NEW o \in Seq(Msg)
  PROVE  /\ Line(w, o) \in Seq(Msg) /\ Len(w) \in Nat /\ Len(o) \in Nat
         /\ Len(Line(w, o)) = Len(w) + Len(o)
         /\ DOMAIN Line(w, o) = 1 .. (Len(w) + Len(o))
         /\ \A i \in 1 .. (Len(w) + Len(o)) :
              Line(w, o)[i] = IF i <= Len(w) THEN w[i] ELSE o[i - Len(w)]
<1> HIDE DEF Msg
<1>1. /\ Line(w, o) \in Seq(Msg) /\ Len(Line(w, o)) = Len(w) + Len(o)
      /\ \A i \in 1 .. (Len(w) + Len(o)) :
           Line(w, o)[i] = IF i <= Len(w) THEN w[i] ELSE o[i - Len(w)]
  BY ConcatProperties DEF Line
<1>2. Len(w) \in Nat /\ Len(o) \in Nat
  BY LenProperties
<1> QED BY <1>1, <1>2, LenProperties

\* A message is sent.
LEMMA SentLine ==
  ASSUME NEW w \in Seq(Msg), NEW o \in Seq(Msg), NEW m \in Msg
  PROVE  Line(w, Append(o, m)) = Inserted(Line(w, o), Len(Line(w, o)) + 1, m)
<1> HIDE DEF Msg
<1> DEFINE p == Append(o, m)
           L == Line(w, o)
           K == Line(w, p)
           J == Inserted(L, Len(L) + 1, m)
<1>1. /\ p \in Seq(Msg) /\ Len(p) = Len(o) + 1 /\ p[Len(o) + 1] = m
      /\ \A i \in 1 .. Len(o) : p[i] = o[i]
  BY AppendProperties
<1> HIDE DEF p
<1>2. /\ L \in Seq(Msg) /\ Len(w) \in Nat /\ Len(o) \in Nat /\ Len(L) = Len(w) + Len(o)
      /\ \A i \in 1 .. (Len(w) + Len(o)) : L[i] = IF i <= Len(w) THEN w[i] ELSE o[i - Len(w)]
  BY LineIs
<1>3. /\ K \in Seq(Msg) /\ Len(K) = Len(w) + Len(p)
      /\ \A i \in 1 .. (Len(w) + Len(p)) : K[i] = IF i <= Len(w) THEN w[i] ELSE p[i - Len(w)]
  BY <1>1, LineIs
<1> HIDE DEF L, K
<1>7. Len(L) + 1 \in 1 .. (Len(L) + 1)
  BY <1>2
<1>4. /\ J \in Seq(Msg) /\ Len(J) = Len(L) + 1
      /\ \A i \in 1 .. (Len(L) + 1) : J[i] =
              IF i < Len(L) + 1 THEN L[i] ELSE IF i = Len(L) + 1 THEN m ELSE L[i - 1]
  <2>1. IsInserted(J, L, Len(L) + 1, m)
    BY <1>2, <1>7, InsertedIs
  <2> HIDE DEF J
  <2> QED BY <2>1 DEF IsInserted
<1> HIDE DEF J
<1>5. ASSUME NEW i \in 1 .. Len(K) PROVE K[i] = J[i]
  <2>1. i \in 1 .. (Len(w) + Len(o) + 1) /\ i \in Int
    BY <1>1, <1>2, <1>3
  <2>5. CASE i < Len(L) + 1
    <3>1. J[i] = L[i] /\ i \in 1 .. (Len(w) + Len(o))
      BY <1>2, <1>4, <2>1, <2>5
    <3>2. CASE i <= Len(w)
      <4>1. K[i] = w[i] /\ L[i] = w[i]
        BY <1>1, <1>2, <1>3, <2>1, <3>1, <3>2
      <4> QED BY <3>1, <4>1
    <3>3. CASE i > Len(w)
      <4>1. K[i] = p[i - Len(w)] /\ L[i] = o[i - Len(w)] /\ i - Len(w) \in 1 .. Len(o)
        BY <1>1, <1>2, <1>3, <2>1, <3>1, <3>3
      <4> QED BY <1>1, <3>1, <4>1
    <3> QED BY <1>2, <2>1, <3>2, <3>3
  <2>4. CASE i = Len(L) + 1
    BY <1>1, <1>2, <1>3, <1>4, <2>1, <2>4
  <2> QED BY <1>2, <2>1, <2>4, <2>5
<1>6. Len(K) = Len(J)
  BY <1>1, <1>2, <1>3, <1>4
<1> QED BY <1>3, <1>4, <1>5, <1>6, SeqEqual DEF K, J, L, p

\* A message arrives.
LEMMA ArrivedLine ==
  ASSUME NEW w \in Seq(Msg), NEW o \in Seq(Msg), w # <<>>
  PROVE  /\ Line(Tail(w), o) = Removed(Line(w, o), 1)
         /\ Line(w, o)[1] = Head(w) /\ Head(w) = w[1]
         /\ Len(Line(w, o)) > 0 /\ Len(w) > 0
<1> HIDE DEF Msg
<1> DEFINE t == Tail(w)
           L == Line(w, o)
           K == Line(t, o)
           J == Removed(L, 1)
<1>1. /\ t \in Seq(Msg) /\ Len(t) = Len(w) - 1 /\ \A i \in 1 .. Len(t) : t[i] = w[i + 1]
  BY HeadTailProperties
<1>0. Head(w) = w[1]
  OBVIOUS
<1> HIDE DEF t
<1>2. /\ L \in Seq(Msg) /\ Len(w) \in Nat /\ Len(o) \in Nat /\ Len(L) = Len(w) + Len(o)
      /\ \A i \in 1 .. (Len(w) + Len(o)) : L[i] = IF i <= Len(w) THEN w[i] ELSE o[i - Len(w)]
  BY LineIs
<1>7. Len(w) > 0
  BY <1>2, EmptySeq
<1>3. /\ K \in Seq(Msg) /\ Len(K) = Len(t) + Len(o)
      /\ \A i \in 1 .. (Len(t) + Len(o)) : K[i] = IF i <= Len(t) THEN t[i] ELSE o[i - Len(t)]
  BY <1>1, LineIs
<1> HIDE DEF L, K
<1>8. 1 \in 1 .. Len(L)
  BY <1>2, <1>7
<1>4. /\ J \in Seq(Msg) /\ Len(J) = Len(L) - 1
      /\ \A i \in 1 .. (Len(L) - 1) : J[i] = IF i < 1 THEN L[i] ELSE L[i + 1]
  BY <1>2, <1>8, RemovedIs
<1> HIDE DEF J
<1>5. ASSUME NEW i \in 1 .. Len(K) PROVE K[i] = J[i]
  <2>1. i \in 1 .. (Len(w) + Len(o) - 1) /\ i \in Int
    BY <1>1, <1>2, <1>3
  <2>4. J[i] = L[i + 1]
    BY <1>2, <1>4, <2>1
  <2>2. CASE i <= Len(w) - 1
    BY <1>1, <1>2, <1>3, <2>4, <2>1, <2>2
  <2>3. CASE i > Len(w) - 1
    <3>4. ~ (i <= Len(t)) /\ i \in 1 .. (Len(t) + Len(o)) /\ Len(t) = Len(w) - 1
      BY <1>1, <1>2, <2>1, <2>3
    <3>1. K[i] = o[i - (Len(w) - 1)]
      BY <1>3, <3>4
    <3>2. L[i + 1] = o[i + 1 - Len(w)]
      BY <1>2, <2>1, <2>3
    <3>3. i - (Len(w) - 1) = i + 1 - Len(w)
      BY <1>2, <2>1
    <3> QED BY <3>1, <3>2, <3>3, <2>4
  <2> QED BY <1>2, <2>1, <2>2, <2>3
<1>6. Len(K) = Len(J)
  BY <1>1, <1>2, <1>3, <1>4
<1>9. L[1] = w[1]
  BY <1>2, <1>7
<1> QED BY <1>0, <1>2, <1>3, <1>4, <1>5, <1>6, <1>7, <1>9, SeqEqual DEF K, J, L, t

\* What the peer answers is in the place of the request.
LEMMA AnsweredLine ==
  ASSUME NEW w \in Seq(Msg), NEW o \in Seq(Msg), o # <<>>, NEW m \in Msg
  PROVE  /\ Line(w, o)[Len(w) + 1] = Head(o) /\ Head(o) = o[1]
         /\ Len(w) + 1 \in 1 .. Len(Line(w, o))
         /\ Line(Append(w, m), Tail(o)) = Put(Line(w, o), Len(w) + 1, m)
         /\ Line(w, Tail(o)) = Removed(Line(w, o), Len(w) + 1)
         /\ Line(w, Put(o, 1, m)) = Put(Line(w, o), Len(w) + 1, m)
<1> HIDE DEF Msg
<1> DEFINE t == Tail(o)
           a == Append(w, m)
           b == Put(o, 1, m)
           n == Len(w) + 1
           L == Line(w, o)
           K1 == Line(a, t)  J1 == Put(L, n, m)
           K2 == Line(w, t)  J2 == Removed(L, n)
           K3 == Line(w, b)
<1>16. n = Len(w) + 1
  OBVIOUS
<1> HIDE DEF n
<1>1. /\ t \in Seq(Msg) /\ Len(t) = Len(o) - 1 /\ \A i \in 1 .. Len(t) : t[i] = o[i + 1]
  BY HeadTailProperties
<1>2. /\ L \in Seq(Msg) /\ Len(w) \in Nat /\ Len(o) \in Nat /\ Len(L) = Len(w) + Len(o)
      /\ \A i \in 1 .. (Len(w) + Len(o)) : L[i] = IF i <= Len(w) THEN w[i] ELSE o[i - Len(w)]
  BY LineIs
<1>3. Len(o) > 0 /\ Head(o) = o[1]
  BY <1>16, <1>2, EmptySeq
<1>4. /\ a \in Seq(Msg) /\ Len(a) = n /\ a[n] = m /\ \A i \in 1 .. Len(w) : a[i] = w[i]
  BY <1>16, AppendProperties
<1>15. 1 \in 1 .. Len(o)
  BY <1>16, <1>2, <1>3
<1>5. /\ b \in Seq(Msg) /\ Len(b) = Len(o)
      /\ \A i \in 1 .. Len(o) : b[i] = IF i = 1 THEN m ELSE o[i]
  BY <1>15, PutIs
<1> HIDE DEF t, a, b
<1>6. n \in 1 .. Len(L) /\ L[n] = o[1]
  <2>1. n \in 1 .. (Len(w) + Len(o)) /\ ~ (n <= Len(w)) /\ n - Len(w) = 1
    BY <1>16, <1>2, <1>3
  <2> HIDE DEF L
  <2> QED BY <1>16, <1>2, <2>1
<1>7. /\ K1 \in Seq(Msg) /\ Len(K1) = Len(a) + Len(t)
      /\ \A i \in 1 .. (Len(a) + Len(t)) : K1[i] = IF i <= Len(a) THEN a[i] ELSE t[i - Len(a)]
  BY <1>1, <1>4, LineIs
<1>8. /\ K2 \in Seq(Msg) /\ Len(K2) = Len(w) + Len(t)
      /\ \A i \in 1 .. (Len(w) + Len(t)) : K2[i] = IF i <= Len(w) THEN w[i] ELSE t[i - Len(w)]
  BY <1>1, LineIs
<1>9. /\ K3 \in Seq(Msg) /\ Len(K3) = Len(w) + Len(b)
      /\ \A i \in 1 .. (Len(w) + Len(b)) : K3[i] = IF i <= Len(w) THEN w[i] ELSE b[i - Len(w)]
  BY <1>5, LineIs
<1> HIDE DEF L, K1, K2, K3
<1>17. L \in Seq(Msg) /\ n \in 1 .. Len(L)
  BY <1>2, <1>6
<1>10. /\ J1 \in Seq(Msg) /\ Len(J1) = Len(L)
       /\ \A i \in 1 .. Len(L) : J1[i] = IF i = n THEN m ELSE L[i]
  BY <1>17, PutIs
<1>11. /\ J2 \in Seq(Msg) /\ Len(J2) = Len(L) - 1
       /\ \A i \in 1 .. (Len(L) - 1) : J2[i] = IF i < n THEN L[i] ELSE L[i + 1]
  BY <1>16, <1>2, <1>6, RemovedIs
<1> HIDE DEF J1, J2
<1>12. K1 = J1
  <2>1. Len(K1) = Len(J1)
    BY <1>1, <1>16, <1>2, <1>4, <1>7, <1>10
  <2>2. ASSUME NEW i \in 1 .. Len(K1) PROVE K1[i] = J1[i]
    <3>1. i \in 1 .. (Len(w) + Len(o)) /\ i \in Int /\ i \in 1 .. Len(L)
      BY <1>1, <1>16, <1>2, <1>4, <1>7
    <3>2. CASE i <= Len(w)
      <4>1. K1[i] = a[i] /\ a[i] = w[i]
        BY <1>1, <1>16, <1>2, <1>4, <1>7, <3>1, <3>2
      <4>2. L[i] = w[i] /\ J1[i] = L[i]
        BY <1>16, <1>2, <1>10, <3>1, <3>2
      <4> QED BY <4>1, <4>2
    <3>3. CASE i = n
      BY <1>1, <1>16, <1>2, <1>4, <1>7, <1>10, <3>1, <3>3
    <3>4. CASE i > n
      <4>1. K1[i] = t[i - n] /\ i - n \in 1 .. Len(t) /\ i - n + 1 = i - Len(w)
        <5>1. i - n \in 1 .. Len(t) /\ i - n + 1 = i - Len(w)
          BY <1>1, <1>16, <1>2, <3>1, <3>4
        <5>2. ~ (i <= Len(a)) /\ i \in 1 .. (Len(a) + Len(t)) /\ i - Len(a) = i - n
          BY <1>1, <1>16, <1>2, <1>4, <3>1, <3>4
        <5> QED BY <1>7, <5>1, <5>2
      <4>2. t[i - n] = o[i - n + 1]
        BY <1>1, <4>1
      <4>3. J1[i] = o[i - Len(w)]
        BY <1>16, <1>2, <1>10, <3>1, <3>4
      <4> QED BY <4>1, <4>2, <4>3
    <3> QED BY <1>16, <1>2, <3>1, <3>2, <3>3, <3>4
  <2> QED BY <1>7, <1>10, <2>1, <2>2, SeqEqual
<1>13. K2 = J2
  <2>1. Len(K2) = Len(J2)
    BY <1>1, <1>16, <1>2, <1>8, <1>11
  <2>2. ASSUME NEW i \in 1 .. Len(K2) PROVE K2[i] = J2[i]
    <3>1. i \in 1 .. (Len(w) + Len(o) - 1) /\ i \in Int /\ i \in 1 .. (Len(L) - 1)
      BY <1>1, <1>16, <1>2, <1>8
    <3>2. CASE i <= Len(w)
      <4>1. K2[i] = w[i]
        BY <1>1, <1>16, <1>2, <1>8, <3>1, <3>2
      <4>2. L[i] = w[i] /\ J2[i] = L[i]
        BY <1>16, <1>2, <1>11, <3>1, <3>2
      <4> QED BY <4>1, <4>2
    <3>4. CASE i >= n
      <4>1. K2[i] = t[i - Len(w)] /\ i - Len(w) \in 1 .. Len(t) /\ i - Len(w) + 1 = i + 1 - Len(w)
        BY <1>1, <1>16, <1>2, <1>8, <3>1, <3>4
      <4>2. t[i - Len(w)] = o[i - Len(w) + 1]
        BY <1>1, <4>1
      <4>3. J2[i] = o[i + 1 - Len(w)]
        BY <1>16, <1>2, <1>11, <3>1, <3>4
      <4> QED BY <4>1, <4>2, <4>3
    <3> QED BY <1>16, <1>2, <3>1, <3>2, <3>4
  <2> QED BY <1>8, <1>11, <2>1, <2>2, SeqEqual
<1>14. K3 = J1
  <2>1. Len(K3) = Len(J1)
    BY <1>16, <1>2, <1>5, <1>9, <1>10
  <2>2. ASSUME NEW i \in 1 .. Len(K3) PROVE K3[i] = J1[i]
    <3>1. i \in 1 .. (Len(w) + Len(o)) /\ i \in Int /\ i \in 1 .. Len(L)
      BY <1>16, <1>2, <1>5, <1>9
    <3>2. CASE i <= Len(w)
      <4>1. K3[i] = w[i]
        BY <1>16, <1>2, <1>5, <1>9, <3>1, <3>2
      <4>2. L[i] = w[i] /\ J1[i] = L[i]
        BY <1>16, <1>2, <1>10, <3>1, <3>2
      <4> QED BY <4>1, <4>2
    <3>3. CASE i > Len(w)
      <4>1. K3[i] = b[i - Len(w)] /\ i - Len(w) \in 1 .. Len(o) /\ (i - Len(w) = 1 <=> i = n)
        BY <1>16, <1>2, <1>5, <1>9, <3>1, <3>3
      <4>2. L[i] = o[i - Len(w)]
        BY <1>16, <1>2, <3>1, <3>3
      <4> QED BY <1>5, <1>10, <3>1, <4>1, <4>2
    <3> QED BY <1>16, <1>2, <3>1, <3>2, <3>3
  <2> QED BY <1>9, <1>10, <2>1, <2>2, SeqEqual
<1> QED BY <1>3, <1>6, <1>12, <1>13, <1>14 DEF L, K1, K2, K3, J1, J2, t, a, b, n

\* What the peer sends of its own, or while a request is not done, is behind
\* what it has sent.
LEMMA PushedLine ==
  ASSUME NEW w \in Seq(Msg), NEW o \in Seq(Msg), NEW m \in Msg
  PROVE  /\ Line(Append(w, m), o) = Inserted(Line(w, o), Len(w) + 1, m)
         /\ Len(w) + 1 \in 1 .. (Len(Line(w, o)) + 1)
<1> HIDE DEF Msg
<1> DEFINE a == Append(w, m)
           n == Len(w) + 1
           L == Line(w, o)
           K == Line(a, o)
           J == Inserted(L, n, m)
<1>16. n = Len(w) + 1
  OBVIOUS
<1> HIDE DEF n
<1>1. /\ a \in Seq(Msg) /\ Len(a) = n /\ a[n] = m /\ \A i \in 1 .. Len(w) : a[i] = w[i]
  BY <1>16, AppendProperties
<1> HIDE DEF a
<1>2. /\ L \in Seq(Msg) /\ Len(w) \in Nat /\ Len(o) \in Nat /\ Len(L) = Len(w) + Len(o)
      /\ \A i \in 1 .. (Len(w) + Len(o)) : L[i] = IF i <= Len(w) THEN w[i] ELSE o[i - Len(w)]
  BY LineIs
<1>3. /\ K \in Seq(Msg) /\ Len(K) = Len(a) + Len(o)
      /\ \A i \in 1 .. (Len(a) + Len(o)) : K[i] = IF i <= Len(a) THEN a[i] ELSE o[i - Len(a)]
  BY <1>1, LineIs
<1> HIDE DEF L, K
<1>6. n \in 1 .. (Len(L) + 1)
  BY <1>16, <1>2
<1>17. L \in Seq(Msg) /\ n \in 1 .. (Len(L) + 1)
  BY <1>2, <1>6
<1>4. /\ J \in Seq(Msg) /\ Len(J) = Len(L) + 1
      /\ \A i \in 1 .. (Len(L) + 1) : J[i] =
              IF i < n THEN L[i] ELSE IF i = n THEN m ELSE L[i - 1]
  <2>1. IsInserted(J, L, n, m)
    BY <1>17, InsertedIs
  <2> HIDE DEF J
  <2> QED BY <2>1 DEF IsInserted
<1> HIDE DEF J
<1>5. ASSUME NEW i \in 1 .. Len(K) PROVE K[i] = J[i]
  <2>1. i \in 1 .. (Len(w) + Len(o) + 1) /\ i \in Int
    BY <1>1, <1>16, <1>2, <1>3
  <2>2. CASE i < n
    <3>1. K[i] = a[i] /\ a[i] = w[i]
      BY <1>1, <1>16, <1>2, <1>3, <2>1, <2>2
    <3>2. L[i] = w[i]
      BY <1>16, <1>2, <2>1, <2>2
    <3>3. J[i] = L[i]
      BY <1>16, <1>2, <1>4, <2>1, <2>2
    <3> QED BY <3>1, <3>2, <3>3
  <2>3. CASE i = n
    BY <1>1, <1>16, <1>2, <1>3, <1>4, <2>1, <2>3
  <2>4. CASE i > n
    <3>1. K[i] = o[i - n]
      BY <1>1, <1>16, <1>2, <1>3, <2>1, <2>4
    <3>2. J[i] = L[i - 1]
      BY <1>16, <1>2, <1>4, <2>1, <2>4
    <3>3. L[i - 1] = o[i - 1 - Len(w)] /\ i - 1 - Len(w) = i - n
      BY <1>16, <1>2, <2>1, <2>4
    <3> QED BY <3>1, <3>2, <3>3
  <2> QED BY <1>16, <1>2, <2>1, <2>2, <2>3, <2>4
<1>7. Len(K) = Len(J)
  BY <1>1, <1>16, <1>2, <1>3, <1>4
<1> QED BY <1>3, <1>4, <1>5, <1>6, <1>7, SeqEqual DEF K, J, L, a, n

-----------------------------------------------------------------------------
(***************************************************************************)
(* One line is another with one message more, the n-th.                    *)
(***************************************************************************)
Skips(e, n, S, B) ==
  /\ S \in Seq(Msg) /\ B \in Seq(Msg) /\ n \in DOMAIN B
  /\ e \in [DOMAIN S -> DOMAIN B]
  /\ \A i \in DOMAIN S : B[e[i]] = S[i] /\ e[i] # n
  /\ \A i, j \in DOMAIN S : i < j <=> e[i] < e[j]
  /\ \A k \in DOMAIN B : k # n => \E i \in DOMAIN S : e[i] = k
  /\ \A i \in DOMAIN S : e[i] = IF i < n THEN i ELSE i + 1

LEMMA DomainNat ==
  ASSUME NEW S, NEW L \in Seq(S)
  PROVE  DOMAIN L = 1 .. Len(L) /\ Len(L) \in Nat /\ DOMAIN L \subseteq Int
BY LenProperties

LEMMA InsertedSkips ==
  ASSUME NEW L \in Seq(Msg), NEW n \in 1 .. (Len(L) + 1), NEW m \in Msg
  PROVE  \E e : Skips(e, n, L, Inserted(L, n, m)) /\ Inserted(L, n, m)[n] = m
<1> HIDE DEF Msg
<1> DEFINE J == Inserted(L, n, m)
           e == [i \in 1 .. Len(L) |-> IF i < n THEN i ELSE i + 1]
<1>1. /\ J \in Seq(Msg) /\ Len(J) = Len(L) + 1
      /\ \A i \in 1 .. (Len(L) + 1) : J[i] =
              IF i < n THEN L[i] ELSE IF i = n THEN m ELSE L[i - 1]
  BY InsertedIs DEF IsInserted
<1> HIDE DEF J
<1>2. DOMAIN L = 1 .. Len(L) /\ Len(L) \in Nat /\ DOMAIN J = 1 .. Len(J)
  BY <1>1, LenProperties
<1>3. \A i \in DOMAIN L : J[e[i]] = L[i] /\ e[i] # n /\ e[i] \in DOMAIN J
  BY <1>1, <1>2
<1>4. \A i, j \in DOMAIN L : i < j <=> e[i] < e[j]
  BY <1>2
<1>5. ASSUME NEW k \in DOMAIN J, k # n PROVE \E i \in DOMAIN L : e[i] = k
  <2>1. CASE k < n
    <3>1. k \in DOMAIN L /\ e[k] = k
      BY <1>1, <1>2, <2>1
    <3> QED BY <3>1
  <2>2. CASE k > n
    <3>1. k - 1 \in DOMAIN L /\ e[k - 1] = k
      BY <1>1, <1>2, <2>2
    <3> QED BY <3>1
  <2> QED BY <1>1, <1>2, <1>5, <2>1, <2>2
<1>6. J[n] = m /\ n \in DOMAIN J
  BY <1>1, <1>2
<1>7. e \in [DOMAIN L -> DOMAIN J] /\ \A i \in DOMAIN L : e[i] = IF i < n THEN i ELSE i + 1
  BY <1>2, <1>3
<1> HIDE DEF e
<1>8. Skips(e, n, L, J)
  BY <1>1, <1>3, <1>4, <1>5, <1>6, <1>7 DEF Skips
<1> QED BY <1>6, <1>8 DEF J

LEMMA RemovedSkips ==
  ASSUME NEW L \in Seq(Msg), NEW n \in 1 .. Len(L)
  PROVE  \E e : Skips(e, n, Removed(L, n), L)
<1> HIDE DEF Msg
<1> DEFINE J == Removed(L, n)
           e == [i \in 1 .. (Len(L) - 1) |-> IF i < n THEN i ELSE i + 1]
<1>1. /\ J \in Seq(Msg) /\ Len(J) = Len(L) - 1
      /\ \A i \in 1 .. (Len(L) - 1) : J[i] = IF i < n THEN L[i] ELSE L[i + 1]
  BY RemovedIs
<1> HIDE DEF J
<1>2. DOMAIN L = 1 .. Len(L) /\ Len(L) \in Nat /\ DOMAIN J = 1 .. (Len(L) - 1)
  BY <1>1, LenProperties
<1>3. \A i \in DOMAIN J : L[e[i]] = J[i] /\ e[i] # n /\ e[i] \in DOMAIN L
  BY <1>1, <1>2
<1>4. \A i, j \in DOMAIN J : i < j <=> e[i] < e[j]
  BY <1>2
<1>5. ASSUME NEW k \in DOMAIN L, k # n PROVE \E i \in DOMAIN J : e[i] = k
  <2>1. CASE k < n
    <3>1. k \in DOMAIN J /\ e[k] = k
      BY <1>2, <2>1
    <3> QED BY <3>1
  <2>2. CASE k > n
    <3>1. k - 1 \in DOMAIN J /\ e[k - 1] = k
      BY <1>2, <2>2
    <3> QED BY <3>1
  <2> QED BY <1>2, <1>5, <2>1, <2>2
<1>7. e \in [DOMAIN J -> DOMAIN L] /\ n \in DOMAIN L
      /\ \A i \in DOMAIN J : e[i] = IF i < n THEN i ELSE i + 1
  BY <1>2, <1>3
<1> HIDE DEF e
<1>8. Skips(e, n, J, L)
  BY <1>1, <1>3, <1>4, <1>5, <1>7 DEF Skips
<1> QED BY <1>8 DEF J

-----------------------------------------------------------------------------
(***************************************************************************)
(* Pings and the callbacks that wait for them, in the same order; and what *)
(* is asked for before the filter is replaced comes before the ping.       *)
(***************************************************************************)
Callbacks ==
  {"updateFilterPingDone", "updateFilterLoadDone", "loadBloomFilterDone",
   "updateFilterRerequestDone"}

IsPing(m) == m.kind \in {"ping", "pong"}

Calls(f, L, pongs) ==
  /\ f \in [DOMAIN pongs -> DOMAIN L]
  /\ \A k \in DOMAIN pongs : IsPing(L[f[k]])
  /\ \A k, l \in DOMAIN pongs : k < l => f[k] < f[l]
  /\ \A i \in DOMAIN L : IsPing(L[i]) => \E k \in DOMAIN pongs : f[k] = i
  /\ \A k \in DOMAIN pongs : \A i \in DOMAIN L :
       (pongs[k] = "updateFilterPingDone" /\ Asks(L[i])) => i < f[k]

Ordered(L, pongs) == \E f : Calls(f, L, pongs)

LEMMA OrderedGrows ==
  ASSUME NEW e, NEW n, NEW S, NEW B, Skips(e, n, S, B), NEW pongs \in Seq(Callbacks),
         Ordered(S, pongs), ~ IsPing(B[n]),
         \/ ~ Asks(B[n])
         \/ \A k \in DOMAIN pongs : pongs[k] # "updateFilterPingDone"
         \/ \E i \in DOMAIN S : n < e[i] /\ Asks(S[i])
  PROVE  Ordered(B, pongs)
<1> HIDE DEF Msg, IsPing, Asks
<1>1. PICK f : Calls(f, S, pongs)
  BY DEF Ordered
<1> DEFINE g == [k \in DOMAIN pongs |-> e[f[k]]]
<1>0. DOMAIN B \subseteq Int /\ DOMAIN S \subseteq Int /\ DOMAIN pongs \subseteq Int
  BY DomainNat DEF Skips
<1>2. \A k \in DOMAIN pongs : f[k] \in DOMAIN S /\ g[k] = e[f[k]] /\ g[k] \in DOMAIN B
  BY <1>1 DEF Calls, Skips
<1>3. g \in [DOMAIN pongs -> DOMAIN B]
  BY <1>2
<1>4. \A k \in DOMAIN pongs : IsPing(B[g[k]])
  BY <1>1, <1>2 DEF Calls, Skips
<1>5. \A k, l \in DOMAIN pongs : k < l => g[k] < g[l]
  BY <1>1, <1>2 DEF Calls, Skips
<1>6. ASSUME NEW i \in DOMAIN B, IsPing(B[i]) PROVE \E k \in DOMAIN pongs : g[k] = i
  <2>1. PICK j \in DOMAIN S : e[j] = i
    BY <1>6 DEF Skips
  <2>2. IsPing(S[j])
    BY <1>6, <2>1 DEF Skips
  <2>3. PICK k \in DOMAIN pongs : f[k] = j
    BY <1>1, <2>2 DEF Calls
  <2> QED BY <2>1, <2>3, <1>2
<1>7. ASSUME NEW k \in DOMAIN pongs, NEW i \in DOMAIN B,
             pongs[k] = "updateFilterPingDone", Asks(B[i])
      PROVE  i < g[k]
  <2>1. ASSUME NEW j \in DOMAIN S, Asks(S[j]) PROVE e[j] < g[k]
    <3>1. j < f[k]
      BY <1>1, <1>7, <2>1 DEF Calls
    <3> QED BY <3>1, <1>2 DEF Skips
  <2>2. CASE i = n
    <3>1. PICK j \in DOMAIN S : n < e[j] /\ Asks(S[j])
      BY <1>7, <2>2
    <3>2. e[j] < g[k] /\ e[j] \in Int /\ g[k] \in Int /\ n \in Int
      BY <3>1, <2>1, <1>0, <1>2 DEF Skips
    <3> QED BY <2>2, <3>1, <3>2
  <2>3. CASE i # n
    <3>1. PICK j \in DOMAIN S : e[j] = i
      BY <2>3 DEF Skips
    <3>2. Asks(S[j])
      BY <1>7, <3>1 DEF Skips
    <3> QED BY <2>1, <3>1, <3>2
  <2> QED BY <2>2, <2>3
<1> HIDE DEF g
<1>8. Calls(g, B, pongs)
  BY <1>3, <1>4, <1>5, <1>6, <1>7 DEF Calls
<1> QED BY <1>8 DEF Ordered

LEMMA OrderedShrinks ==
  ASSUME NEW e, NEW n, NEW S, NEW B, Skips(e, n, S, B), NEW pongs \in Seq(Callbacks),
         Ordered(B, pongs), ~ IsPing(B[n])
  PROVE  Ordered(S, pongs)
<1> HIDE DEF Msg, IsPing, Asks
<1>1. PICK f : Calls(f, B, pongs)
  BY DEF Ordered
<1> DEFINE g == [k \in DOMAIN pongs |-> CHOOSE i \in DOMAIN S : e[i] = f[k]]
<1>0. DOMAIN B \subseteq Int /\ DOMAIN S \subseteq Int /\ DOMAIN pongs \subseteq Int
  BY DomainNat DEF Skips
<1>2. ASSUME NEW k \in DOMAIN pongs
      PROVE  f[k] \in DOMAIN B /\ e[g[k]] = f[k] /\ g[k] \in DOMAIN S
  <2>1. f[k] \in DOMAIN B /\ IsPing(B[f[k]])
    BY <1>1 DEF Calls
  <2>2. f[k] # n
    BY <2>1
  <2>3. \E i \in DOMAIN S : e[i] = f[k]
    BY <2>1, <2>2 DEF Skips
  <2> QED BY <2>1, <2>3
<1>3. g \in [DOMAIN pongs -> DOMAIN S]
  BY <1>2
<1> HIDE DEF g
<1>4. \A k \in DOMAIN pongs : IsPing(S[g[k]])
  BY <1>1, <1>2 DEF Calls, Skips
<1>5. ASSUME NEW k \in DOMAIN pongs, NEW l \in DOMAIN pongs, k < l PROVE g[k] < g[l]
  <2>1. f[k] < f[l]
    BY <1>1, <1>5 DEF Calls
  <2> QED BY <2>1, <1>2 DEF Skips
<1>6. ASSUME NEW i \in DOMAIN S, IsPing(S[i]) PROVE \E k \in DOMAIN pongs : g[k] = i
  <2>1. e[i] \in DOMAIN B /\ IsPing(B[e[i]])
    BY <1>6 DEF Skips
  <2>2. PICK k \in DOMAIN pongs : f[k] = e[i]
    BY <1>1, <2>1 DEF Calls
  <2>3. e[g[k]] = e[i] /\ g[k] \in DOMAIN S
    BY <1>2, <2>2
  <2>4. ~ (g[k] < i) /\ ~ (i < g[k])
    BY <2>1, <2>3, <1>0 DEF Skips
  <2>5. g[k] = i
    BY <2>3, <2>4, <1>0
  <2> QED BY <2>5
<1>7. ASSUME NEW k \in DOMAIN pongs, NEW i \in DOMAIN S,
             pongs[k] = "updateFilterPingDone", Asks(S[i])
      PROVE  i < g[k]
  <2>1. e[i] \in DOMAIN B /\ Asks(B[e[i]])
    BY <1>7 DEF Skips
  <2>2. e[i] < f[k]
    BY <1>1, <1>7, <2>1 DEF Calls
  <2> QED BY <2>2, <1>2 DEF Skips
<1>8. Calls(g, S, pongs)
  BY <1>3, <1>4, <1>5, <1>6, <1>7 DEF Calls
<1> QED BY <1>8 DEF Ordered

LEMMA OrderedPut ==
  ASSUME NEW L \in Seq(Msg), NEW n \in 1 .. Len(L), NEW m \in Msg, NEW pongs,
         Ordered(L, pongs), IsPing(m) <=> IsPing(L[n]), Asks(m) => Asks(L[n])
  PROVE  Ordered(Put(L, n, m), pongs)
<1> HIDE DEF Msg, IsPing, Asks
<1>1. PICK f : Calls(f, L, pongs)
  BY DEF Ordered
<1> DEFINE J == Put(L, n, m)
<1>2. J \in Seq(Msg) /\ Len(J) = Len(L) /\ \A i \in 1 .. Len(L) : J[i] = IF i = n THEN m ELSE L[i]
  BY PutIs
<1>3. DOMAIN J = DOMAIN L /\ DOMAIN L = 1 .. Len(L)
  BY <1>2, LenProperties
<1> HIDE DEF J
<1>4. \A i \in DOMAIN L : (IsPing(J[i]) <=> IsPing(L[i])) /\ (Asks(J[i]) => Asks(L[i]))
  BY <1>2, <1>3
<1>5. Calls(f, J, pongs)
  BY <1>1, <1>3, <1>4 DEF Calls
<1> QED BY <1>5 DEF Ordered, J

\* A ping is sent.
LEMMA OrderedPing ==
  ASSUME NEW e, NEW n, NEW S, NEW B, Skips(e, n, S, B), NEW pongs \in Seq(Callbacks),
         Ordered(S, pongs), IsPing(B[n]), ~ Asks(B[n]), \A i \in DOMAIN B : i <= n,
         NEW callback \in Callbacks
  PROVE  Ordered(B, Append(pongs, callback))
<1> HIDE DEF Msg, IsPing, Asks, Callbacks
<1>1. PICK f : Calls(f, S, pongs)
  BY DEF Ordered
<1> DEFINE p == Append(pongs, callback)
           z == Len(pongs) + 1
           g == [k \in DOMAIN p |-> IF k = z THEN n ELSE e[f[k]]]
<1>0. DOMAIN B \subseteq Int /\ DOMAIN S \subseteq Int /\ DOMAIN pongs = 1 .. Len(pongs)
      /\ Len(pongs) \in Nat
  BY DomainNat DEF Skips
<1>9. /\ DOMAIN p = 1 .. z /\ z \in DOMAIN p /\ z \notin DOMAIN pongs
      /\ \A k \in DOMAIN pongs : k \in DOMAIN p /\ p[k] = pongs[k] /\ k < z
      /\ \A k \in DOMAIN p : k = z \/ k \in DOMAIN pongs
  BY <1>0, AppendProperties, LenProperties
<1>10. DOMAIN p \subseteq Int
  BY <1>0, <1>9
<1> HIDE DEF p, z
<1>2. \A k \in DOMAIN pongs : f[k] \in DOMAIN S /\ g[k] = e[f[k]] /\ g[k] \in DOMAIN B /\ g[k] # n
  BY <1>1, <1>9 DEF Calls, Skips
<1>11. g[z] = n /\ n \in DOMAIN B
  BY <1>9 DEF Skips
<1>3. g \in [DOMAIN p -> DOMAIN B]
  BY <1>2, <1>9, <1>11
<1> HIDE DEF g
<1>4. \A k \in DOMAIN p : IsPing(B[g[k]])
  BY <1>1, <1>2, <1>9, <1>11 DEF Calls, Skips
<1>12. \A k \in DOMAIN pongs : g[k] < n
  BY <1>0, <1>2, <1>11
<1>5. ASSUME NEW k \in DOMAIN p, NEW l \in DOMAIN p, k < l PROVE g[k] < g[l]
  <2>1. CASE l = z
    <3>1. k \in DOMAIN pongs
      BY <1>5, <1>9, <1>10, <2>1
    <3> QED BY <2>1, <3>1, <1>11, <1>12
  <2>2. CASE l # z
    <3>1. l \in DOMAIN pongs /\ k \in DOMAIN pongs
      BY <1>5, <1>9, <1>10, <2>2
    <3>2. f[k] < f[l]
      BY <3>1, <1>5, <1>1 DEF Calls
    <3> QED BY <3>1, <3>2, <1>2 DEF Skips
  <2> QED BY <2>1, <2>2
<1>6. ASSUME NEW i \in DOMAIN B, IsPing(B[i]) PROVE \E k \in DOMAIN p : g[k] = i
  <2>0. CASE i = n
    BY <2>0, <1>9, <1>11
  <2>9. CASE i # n
    <3>1. PICK j \in DOMAIN S : e[j] = i
      BY <2>9 DEF Skips
    <3>2. IsPing(S[j])
      BY <1>6, <3>1 DEF Skips
    <3>3. PICK k \in DOMAIN pongs : f[k] = j
      BY <1>1, <3>2 DEF Calls
    <3> QED BY <3>1, <3>3, <1>2, <1>9
  <2> QED BY <2>0, <2>9
<1>7. ASSUME NEW k \in DOMAIN p, NEW i \in DOMAIN B,
             p[k] = "updateFilterPingDone", Asks(B[i])
      PROVE  i < g[k]
  <2>1. i # n
    BY <1>7
  <2>2. CASE k = z
    BY <2>1, <2>2, <1>0, <1>11
  <2>3. CASE k # z
    <3>0. k \in DOMAIN pongs /\ pongs[k] = "updateFilterPingDone"
      BY <2>3, <1>7, <1>9
    <3>1. PICK j \in DOMAIN S : e[j] = i
      BY <2>1 DEF Skips
    <3>2. Asks(S[j])
      BY <1>7, <3>1 DEF Skips
    <3>3. j < f[k]
      BY <1>1, <3>0, <3>2 DEF Calls
    <3> QED BY <3>0, <3>1, <3>3, <1>2 DEF Skips
  <2> QED BY <2>2, <2>3
<1>8. Calls(g, B, p)
  BY <1>3, <1>4, <1>5, <1>6, <1>7 DEF Calls
<1> QED BY <1>8 DEF Ordered, p

\* A pong is taken with the first callback.
LEMMA OrderedPong ==
  ASSUME NEW e, NEW S, NEW B, Skips(e, 1, S, B), NEW pongs \in Seq(Callbacks),
         Ordered(B, pongs), IsPing(B[1])
  PROVE  /\ pongs # <<>> /\ Ordered(S, Tail(pongs))
         /\ Head(pongs) = "updateFilterPingDone" => \A i \in DOMAIN S : ~ Asks(S[i])
<1> HIDE DEF Msg, IsPing, Asks, Callbacks
<1>1. PICK f : Calls(f, B, pongs)
  BY DEF Ordered
<1>0. /\ DOMAIN B = 1 .. Len(B) /\ Len(B) \in Nat
      /\ DOMAIN S = 1 .. Len(S) /\ Len(S) \in Nat
      /\ DOMAIN pongs = 1 .. Len(pongs) /\ Len(pongs) \in Nat
  BY DomainNat DEF Skips
<1>2. PICK k1 \in DOMAIN pongs : f[k1] = 1
  BY <1>1 DEF Calls, Skips
<1>3. pongs # <<>> /\ 1 \in DOMAIN pongs
  BY <1>0, <1>2, EmptySeq
<1>4. k1 = 1 /\ f[1] = 1
  <2>1. f[1] \in DOMAIN B
    BY <1>1, <1>3 DEF Calls
  <2>2. ~ (1 < k1)
    <3>1. SUFFICES ASSUME 1 < k1 PROVE FALSE
      OBVIOUS
    <3>2. f[1] < f[k1]
      BY <1>1, <1>2, <1>3, <3>1 DEF Calls
    <3> QED BY <1>0, <1>2, <2>1, <3>2
  <2> QED BY <1>0, <1>2, <2>2
<1> DEFINE p == Tail(pongs)
           g == [k \in DOMAIN p |-> f[k + 1] - 1]
<1>5. /\ p \in Seq(Callbacks) /\ DOMAIN p = 1 .. (Len(pongs) - 1)
      /\ \A k \in DOMAIN p : p[k] = pongs[k + 1] /\ k + 1 \in DOMAIN pongs
  BY <1>0, <1>3, HeadTailProperties, LenProperties
<1> HIDE DEF p
<1>6. \A i \in DOMAIN S : e[i] = i + 1 /\ i + 1 \in DOMAIN B /\ B[i + 1] = S[i]
  BY <1>0 DEF Skips
<1>7. \A i \in DOMAIN B : i # 1 => (i - 1 \in DOMAIN S /\ S[i - 1] = B[i])
  <2> SUFFICES ASSUME NEW i \in DOMAIN B, i # 1 PROVE i - 1 \in DOMAIN S /\ S[i - 1] = B[i]
    OBVIOUS
  <2>1. PICK j \in DOMAIN S : e[j] = i
    BY DEF Skips
  <2>2. j = i - 1
    BY <1>0, <1>6, <2>1
  <2> QED BY <1>6, <2>1, <2>2
<1>8. ASSUME NEW k \in DOMAIN p
      PROVE  /\ f[k + 1] \in DOMAIN B /\ f[k + 1] # 1 /\ f[k + 1] \in Int
             /\ g[k] = f[k + 1] - 1 /\ g[k] \in DOMAIN S /\ S[g[k]] = B[f[k + 1]]
  <2>1. k + 1 \in DOMAIN pongs /\ 1 < k + 1
    BY <1>0, <1>5
  <2>2. f[1] < f[k + 1] /\ f[k + 1] \in DOMAIN B
    BY <1>1, <1>3, <2>1 DEF Calls
  <2>3. f[k + 1] # 1 /\ f[k + 1] \in Int
    BY <1>0, <1>4, <2>2
  <2> QED BY <1>7, <2>2, <2>3
<1>9. g \in [DOMAIN p -> DOMAIN S]
  BY <1>8
<1> HIDE DEF g
<1>10. \A k \in DOMAIN p : IsPing(S[g[k]])
  BY <1>1, <1>5, <1>8 DEF Calls
<1>11. ASSUME NEW k \in DOMAIN p, NEW l \in DOMAIN p, k < l PROVE g[k] < g[l]
  <2>1. k + 1 \in DOMAIN pongs /\ l + 1 \in DOMAIN pongs /\ k + 1 < l + 1
    BY <1>0, <1>5, <1>11
  <2>2. f[k + 1] < f[l + 1]
    BY <1>1, <2>1 DEF Calls
  <2> QED BY <1>8, <2>2
<1>12. ASSUME NEW i \in DOMAIN S, IsPing(S[i]) PROVE \E k \in DOMAIN p : g[k] = i
  <2>1. i + 1 \in DOMAIN B /\ IsPing(B[i + 1]) /\ i + 1 # 1
    BY <1>0, <1>6, <1>12
  <2>2. PICK k \in DOMAIN pongs : f[k] = i + 1
    BY <1>1, <2>1 DEF Calls
  <2>3. k # 1
    BY <1>4, <2>1, <2>2
  <2>4. k - 1 \in DOMAIN p /\ k - 1 + 1 = k
    BY <1>0, <1>5, <2>3
  <2>5. g[k - 1] = i
    BY <1>0, <1>8, <2>2, <2>4
  <2> QED BY <2>4, <2>5
<1>13. ASSUME NEW k \in DOMAIN p, NEW i \in DOMAIN S,
              p[k] = "updateFilterPingDone", Asks(S[i])
       PROVE  i < g[k]
  <2>1. k + 1 \in DOMAIN pongs /\ pongs[k + 1] = "updateFilterPingDone"
    BY <1>5, <1>13
  <2>2. i + 1 \in DOMAIN B /\ Asks(B[i + 1])
    BY <1>6, <1>13
  <2>3. i + 1 < f[k + 1]
    BY <1>1, <2>1, <2>2 DEF Calls
  <2> QED BY <1>0, <1>8, <2>3
<1>14. Calls(g, S, p)
  BY <1>9, <1>10, <1>11, <1>12, <1>13 DEF Calls
<1>15. ASSUME Head(pongs) = "updateFilterPingDone", NEW i \in DOMAIN S PROVE ~ Asks(S[i])
  <2>1. SUFFICES ASSUME Asks(S[i]) PROVE FALSE
    OBVIOUS
  <2>2. i + 1 \in DOMAIN B /\ Asks(B[i + 1]) /\ pongs[1] = "updateFilterPingDone"
    BY <1>3, <1>6, <1>15, <2>1
  <2>3. i + 1 < f[1]
    BY <1>1, <1>3, <2>2 DEF Calls
  <2> QED BY <1>0, <1>4, <2>3
<1> QED BY <1>3, <1>14, <1>15 DEF Ordered, p

-----------------------------------------------------------------------------
(***************************************************************************)
(* A transaction whose hash was announced, but is not in the wallet, comes *)
(* before any block it is in; and one announced before it was mined is     *)
(* announced before the block is named in anything else.                   *)
(***************************************************************************)
Names(m, h) ==
  \/ m.kind = "merkleblock" /\ m.height = h
  \/ m.kind \in {"getdata", "inv"} /\ h \in Range(m.blocks)

Shows(m, t) == m.kind # "inv" /\ \E h \in Heights : t \in Mined[h] /\ Names(m, h)
Brings(m, t) == m.kind \in {"tx", "getdata"} /\ t \in m.txs

Comes(L, t) ==
  \E j \in DOMAIN L : Brings(L[j], t) /\ \A i \in DOMAIN L : Shows(L[i], t) => j <= i
Coming(L, known, xs) == \A t \in known \ xs : Comes(L, t)

Early(m, h) == m.kind = "inv" /\ m.txs \cap Mined[h] # {}
InvFirst(L, blocks) ==
  \A i \in DOMAIN L, h \in Heights : Early(L[i], h) =>
    /\ h \notin Range(blocks)
    /\ \A j \in DOMAIN L : Names(L[j], h) => L[j].kind = "inv" /\ i < j

LEMMA ComesGrows ==
  ASSUME NEW e, NEW n, NEW S, NEW B, Skips(e, n, S, B), NEW t, Comes(S, t),
         \/ ~ Shows(B[n], t)
         \/ \A i \in DOMAIN S : e[i] < n
         \/ \E i \in DOMAIN S : e[i] = n + 1 /\ Shows(S[i], t) /\ ~ Brings(S[i], t)
  PROVE  Comes(B, t)
<1> HIDE DEF Msg, Shows, Brings
<1>0. DOMAIN B \subseteq Int /\ DOMAIN S \subseteq Int /\ n \in Int
  BY DomainNat DEF Skips
<1>1. PICK j \in DOMAIN S : Brings(S[j], t) /\ \A i \in DOMAIN S : Shows(S[i], t) => j <= i
  BY DEF Comes
<1>2. e[j] \in DOMAIN B /\ Brings(B[e[j]], t) /\ e[j] \in Int
  BY <1>0, <1>1 DEF Skips
<1>3. ASSUME NEW i \in DOMAIN S, Shows(B[e[i]], t) PROVE e[j] <= e[i]
  <2>1. j <= i
    BY <1>1, <1>3 DEF Skips
  <2>2. e[i] \in Int
    BY <1>0 DEF Skips
  <2> QED BY <1>0, <1>1, <1>2, <2>1, <2>2 DEF Skips
<1>4. ASSUME Shows(B[n], t) PROVE e[j] <= n
  <2>1. CASE \A i \in DOMAIN S : e[i] < n
    BY <1>0, <1>1, <1>2, <2>1
  <2>2. ASSUME NEW i \in DOMAIN S, e[i] = n + 1, Shows(S[i], t), ~ Brings(S[i], t)
        PROVE  e[j] <= n
    <3>1. j <= i /\ j # i
      BY <1>1, <2>2
    <3>2. e[j] < e[i]
      BY <1>0, <1>1, <3>1 DEF Skips
    <3> QED BY <1>0, <1>2, <2>2, <3>2
  <2> QED BY <1>4, <2>1, <2>2
<1>5. ASSUME NEW k \in DOMAIN B, Shows(B[k], t) PROVE e[j] <= k
  <2>1. CASE k = n
    BY <1>4, <1>5, <2>1
  <2>2. CASE k # n
    <3>1. PICK i \in DOMAIN S : e[i] = k
      BY <2>2 DEF Skips
    <3> QED BY <1>3, <1>5, <3>1
  <2> QED BY <2>1, <2>2
<1> QED BY <1>2, <1>5 DEF Comes

\* It is asked for.
LEMMA ComesAsked ==
  ASSUME NEW e, NEW n, NEW S, NEW B, Skips(e, n, S, B), NEW t, Brings(B[n], t),
         \A i \in DOMAIN S : ~ Shows(S[i], t)
  PROVE  Comes(B, t)
<1> HIDE DEF Msg, Shows, Brings
<1>0. DOMAIN B \subseteq Int /\ n \in Int /\ n \in DOMAIN B
  BY DomainNat DEF Skips
<1>5. ASSUME NEW k \in DOMAIN B, Shows(B[k], t) PROVE n <= k
  <2>1. k = n
    BY <1>5 DEF Skips
  <2> QED BY <1>0, <2>1
<1> QED BY <1>0, <1>5 DEF Comes

LEMMA ComesShrinks ==
  ASSUME NEW e, NEW n, NEW S, NEW B, Skips(e, n, S, B), NEW t, Comes(B, t),
         \/ ~ Brings(B[n], t)
         \/ \E i \in DOMAIN S : e[i] < n /\ Brings(S[i], t)
  PROVE  Comes(S, t)
<1> HIDE DEF Msg, Shows, Brings
<1>0. DOMAIN B \subseteq Int /\ DOMAIN S \subseteq Int /\ n \in Int
  BY DomainNat DEF Skips
<1>1. PICK j \in DOMAIN B : Brings(B[j], t) /\ \A i \in DOMAIN B : Shows(B[i], t) => j <= i
  BY DEF Comes
<1>2. PICK i \in DOMAIN S : Brings(S[i], t) /\ e[i] <= j
  <2>1. CASE j = n
    <3>1. PICK i \in DOMAIN S : e[i] < n /\ Brings(S[i], t)
      BY <1>1, <2>1
    <3>2. e[i] \in Int
      BY <1>0 DEF Skips
    <3> QED BY <1>0, <2>1, <3>1, <3>2
  <2>2. CASE j # n
    <3>1. PICK i \in DOMAIN S : e[i] = j
      BY <2>2 DEF Skips
    <3>2. j <= j
      BY <1>0
    <3> QED BY <1>1, <3>1, <3>2 DEF Skips
  <2> QED BY <2>1, <2>2
<1>3. ASSUME NEW k \in DOMAIN S, Shows(S[k], t) PROVE i <= k
  <2>1. e[k] \in DOMAIN B /\ e[i] \in DOMAIN B /\ Shows(B[e[k]], t)
    BY <1>3 DEF Skips
  <2>2. j <= e[k]
    BY <1>1, <2>1
  <2>3. e[i] <= e[k]
    BY <1>0, <1>2, <2>1, <2>2
  <2>4. ~ (k < i)
    BY <1>0, <2>1, <2>3 DEF Skips
  <2> QED BY <1>0, <2>4
<1> QED BY <1>2, <1>3 DEF Comes

LEMMA ComesPut ==
  ASSUME NEW L \in Seq(Msg), NEW n \in 1 .. Len(L), NEW m \in Msg, NEW t, Comes(L, t),
         Shows(m, t) => Shows(L[n], t),
         Brings(L[n], t) => \/ Brings(m, t)
                            \/ \E i \in DOMAIN L : i < n /\ Brings(L[i], t)
  PROVE  Comes(Put(L, n, m), t)
<1> HIDE DEF Msg, Shows, Brings
<1> DEFINE J == Put(L, n, m)
<1>1. J \in Seq(Msg) /\ Len(J) = Len(L) /\ \A i \in 1 .. Len(L) : J[i] = IF i = n THEN m ELSE L[i]
  BY PutIs
<1>2. DOMAIN J = DOMAIN L /\ DOMAIN L = 1 .. Len(L) /\ DOMAIN L \subseteq Int
  BY <1>1, LenProperties
<1> HIDE DEF J
<1>3. \A i \in DOMAIN L : Shows(J[i], t) => Shows(L[i], t)
  BY <1>1, <1>2
<1>4. PICK j \in DOMAIN L : Brings(L[j], t) /\ \A i \in DOMAIN L : Shows(L[i], t) => j <= i
  BY DEF Comes
<1>5. PICK i \in DOMAIN L : Brings(J[i], t) /\ i <= j
  <2>1. CASE j # n
    <3>1. J[j] = L[j] /\ j <= j
      BY <1>1, <1>2, <2>1
    <3> QED BY <1>4, <3>1
  <2>2. CASE j = n /\ Brings(m, t)
    <3>1. J[j] = m /\ j <= j
      BY <1>1, <1>2, <2>2
    <3> QED BY <1>4, <2>2, <3>1
  <2>3. CASE j = n /\ ~ Brings(m, t)
    <3>1. PICK i \in DOMAIN L : i < n /\ Brings(L[i], t)
      BY <1>4, <2>3
    <3>2. J[i] = L[i] /\ i <= j
      BY <1>1, <1>2, <2>3, <3>1
    <3> QED BY <3>1, <3>2
  <2> QED BY <2>1, <2>2, <2>3
<1>6. ASSUME NEW k \in DOMAIN L, Shows(J[k], t) PROVE i <= k
  <2>1. j <= k
    BY <1>3, <1>4, <1>6
  <2> QED BY <1>2, <1>5, <2>1
<1>7. Comes(J, t)
  BY <1>2, <1>5, <1>6 DEF Comes
<1> QED BY <1>7 DEF J

-----------------------------------------------------------------------------
LEMMA InvFirstGrows ==
  ASSUME NEW e, NEW n, NEW S, NEW B, Skips(e, n, S, B), NEW blocks, InvFirst(S, blocks),
         B[n].kind # "inv",
         \A h \in Heights : Names(B[n], h) =>
           \/ h \in Range(blocks)
           \/ \E i \in DOMAIN S : S[i].kind # "inv" /\ Names(S[i], h)
  PROVE  InvFirst(B, blocks)
<1> HIDE DEF Msg, Names
<1>1. SUFFICES ASSUME NEW k \in DOMAIN B, NEW h \in Heights, Early(B[k], h)
               PROVE  /\ h \notin Range(blocks)
                      /\ \A j \in DOMAIN B : Names(B[j], h) => B[j].kind = "inv" /\ k < j
  BY DEF InvFirst
<1>2. PICK i \in DOMAIN S : e[i] = k
  BY <1>1 DEF Skips, Early
<1>3. Early(S[i], h)
  BY <1>1, <1>2 DEF Skips
<1>4. /\ h \notin Range(blocks)
      /\ \A j \in DOMAIN S : Names(S[j], h) => S[j].kind = "inv" /\ i < j
  BY <1>3 DEF InvFirst
<1>5. ~ Names(B[n], h)
  BY <1>4
<1>6. ASSUME NEW j \in DOMAIN B, Names(B[j], h) PROVE B[j].kind = "inv" /\ k < j
  <2>1. PICK l \in DOMAIN S : e[l] = j
    BY <1>5, <1>6 DEF Skips
  <2>2. S[l].kind = "inv" /\ i < l
    BY <1>4, <1>6, <2>1 DEF Skips
  <2> QED BY <1>2, <2>1, <2>2 DEF Skips
<1> QED BY <1>4, <1>6

\* Blocks are announced behind what was announced before.
LEMMA InvFirstBlocks ==
  ASSUME NEW e, NEW n, NEW S, NEW B, Skips(e, n, S, B), NEW blocks, InvFirst(S, blocks),
         B[n].kind = "inv", B[n].txs = {},
         \A i \in DOMAIN S : S[i].kind = "inv" => e[i] < n
  PROVE  InvFirst(B, blocks)
<1> HIDE DEF Msg, Names
<1>1. SUFFICES ASSUME NEW k \in DOMAIN B, NEW h \in Heights, Early(B[k], h)
               PROVE  /\ h \notin Range(blocks)
                      /\ \A j \in DOMAIN B : Names(B[j], h) => B[j].kind = "inv" /\ k < j
  BY DEF InvFirst
<1>2. PICK i \in DOMAIN S : e[i] = k
  BY <1>1 DEF Skips, Early
<1>3. Early(S[i], h)
  BY <1>1, <1>2 DEF Skips
<1>4. /\ h \notin Range(blocks)
      /\ \A j \in DOMAIN S : Names(S[j], h) => S[j].kind = "inv" /\ i < j
  BY <1>3 DEF InvFirst
<1>5. k < n
  BY <1>2, <1>3 DEF Early
<1>6. ASSUME NEW j \in DOMAIN B, Names(B[j], h) PROVE B[j].kind = "inv" /\ k < j
  <2>0. CASE j = n
    BY <1>5, <2>0
  <2>3. CASE j # n
    <3>1. PICK l \in DOMAIN S : e[l] = j
      BY <2>3 DEF Skips
    <3>2. S[l].kind = "inv" /\ i < l
      BY <1>4, <1>6, <3>1 DEF Skips
    <3> QED BY <1>2, <3>1, <3>2 DEF Skips
  <2> QED BY <2>0, <2>3
<1> QED BY <1>4, <1>6

\* A transaction is announced, of which nobody has heard the block.
LEMMA InvFirstTxs ==
  ASSUME NEW e, NEW n, NEW S, NEW B, Skips(e, n, S, B), NEW blocks, InvFirst(S, blocks),
         B[n].kind = "inv", Range(B[n].blocks) = {},
         \A h \in Heights : B[n].txs \cap Mined[h] # {} =>
           h \notin Range(blocks) /\ \A i \in DOMAIN S : ~ Names(S[i], h)
  PROVE  InvFirst(B, blocks)
<1> HIDE DEF Msg
<1>1. SUFFICES ASSUME NEW k \in DOMAIN B, NEW h \in Heights, Early(B[k], h)
               PROVE  /\ h \notin Range(blocks)
                      /\ \A j \in DOMAIN B : Names(B[j], h) => B[j].kind = "inv" /\ k < j
  BY DEF InvFirst
<1>0. ~ Names(B[n], h)
  BY DEF Names
<1> HIDE DEF Names
<1>2. CASE k = n
  <2>1. h \notin Range(blocks) /\ \A i \in DOMAIN S : ~ Names(S[i], h)
    BY <1>1, <1>2 DEF Early
  <2>2. \A j \in DOMAIN B : ~ Names(B[j], h)
    BY <1>0, <2>1 DEF Skips
  <2> QED BY <2>1, <2>2
<1>3. CASE k # n
  <2>1. PICK i \in DOMAIN S : e[i] = k
    BY <1>3 DEF Skips
  <2>2. Early(S[i], h)
    BY <1>1, <2>1 DEF Skips
  <2>3. /\ h \notin Range(blocks)
        /\ \A j \in DOMAIN S : Names(S[j], h) => S[j].kind = "inv" /\ i < j
    BY <2>2 DEF InvFirst
  <2>4. ASSUME NEW j \in DOMAIN B, Names(B[j], h) PROVE B[j].kind = "inv" /\ k < j
    <3>1. PICK l \in DOMAIN S : e[l] = j
      BY <1>0, <2>4 DEF Skips
    <3>2. S[l].kind = "inv" /\ i < l
      BY <2>3, <2>4, <3>1 DEF Skips
    <3> QED BY <2>1, <3>1, <3>2 DEF Skips
  <2> QED BY <2>3, <2>4
<1> QED BY <1>2, <1>3

LEMMA InvFirstShrinks ==
  ASSUME NEW e, NEW n, NEW S, NEW B, Skips(e, n, S, B), NEW blocks, InvFirst(B, blocks)
  PROVE  InvFirst(S, blocks)
<1> HIDE DEF Msg, Names
<1>1. SUFFICES ASSUME NEW i \in DOMAIN S, NEW h \in Heights, Early(S[i], h)
               PROVE  /\ h \notin Range(blocks)
                      /\ \A j \in DOMAIN S : Names(S[j], h) => S[j].kind = "inv" /\ i < j
  BY DEF InvFirst
<1>2. e[i] \in DOMAIN B /\ Early(B[e[i]], h)
  BY <1>1 DEF Skips
<1>3. /\ h \notin Range(blocks)
      /\ \A j \in DOMAIN B : Names(B[j], h) => B[j].kind = "inv" /\ e[i] < j
  BY <1>2 DEF InvFirst
<1>4. ASSUME NEW j \in DOMAIN S, Names(S[j], h) PROVE S[j].kind = "inv" /\ i < j
  <2>1. e[j] \in DOMAIN B /\ Names(B[e[j]], h)
    BY <1>4 DEF Skips
  <2> QED BY <1>3, <2>1 DEF Skips
<1> QED BY <1>3, <1>4

\* What is announced first is remembered.
LEMMA InvFirstHeard ==
  ASSUME NEW e, NEW S, NEW B, Skips(e, 1, S, B), NEW blocks, InvFirst(B, blocks),
         B[1].kind = "inv", NEW heard, Range(heard) \subseteq Range(blocks) \cup Range(B[1].blocks)
  PROVE  InvFirst(S, heard)
<1> HIDE DEF Msg
<1>0. DOMAIN B \subseteq Int /\ DOMAIN S \subseteq Int /\ 1 \in DOMAIN B
      /\ \A i \in DOMAIN B : i >= 1
  BY DomainNat DEF Skips
<1>1. SUFFICES ASSUME NEW i \in DOMAIN S, NEW h \in Heights, Early(S[i], h)
               PROVE  h \notin Range(heard)
  BY InvFirstShrinks DEF InvFirst
<1>2. e[i] \in DOMAIN B /\ Early(B[e[i]], h)
  BY <1>1 DEF Skips
<1>3. /\ h \notin Range(blocks)
      /\ \A j \in DOMAIN B : Names(B[j], h) => B[j].kind = "inv" /\ e[i] < j
  BY <1>2 DEF InvFirst
<1>4. ~ Names(B[1], h)
  BY <1>0, <1>2, <1>3
<1>5. h \notin Range(B[1].blocks)
  BY <1>4 DEF Names
<1> QED BY <1>3, <1>5

LEMMA InvFirstPut ==
  ASSUME NEW L \in Seq(Msg), NEW n \in 1 .. Len(L), NEW m \in Msg, NEW blocks,
         InvFirst(L, blocks), m.kind # "inv", L[n].kind # "inv",
         \A h \in Heights : Names(m, h) => Names(L[n], h)
  PROVE  InvFirst(Put(L, n, m), blocks)
<1> HIDE DEF Msg, Names
<1> DEFINE J == Put(L, n, m)
<1>1. J \in Seq(Msg) /\ Len(J) = Len(L) /\ \A i \in 1 .. Len(L) : J[i] = IF i = n THEN m ELSE L[i]
  BY PutIs
<1>2. DOMAIN J = DOMAIN L /\ DOMAIN L = 1 .. Len(L)
  BY <1>1, LenProperties
<1> HIDE DEF J
<1>3. /\ \A i \in DOMAIN L : J[i].kind = "inv" <=> L[i].kind = "inv"
      /\ \A i \in DOMAIN L : J[i].kind = "inv" => J[i] = L[i]
      /\ \A i \in DOMAIN L, h \in Heights : Names(J[i], h) => Names(L[i], h)
  BY <1>1, <1>2
<1>4. ASSUME NEW i \in DOMAIN L, NEW h \in Heights, Early(J[i], h)
      PROVE  /\ h \notin Range(blocks)
             /\ \A j \in DOMAIN L : Names(J[j], h) => J[j].kind = "inv" /\ i < j
  <2>1. Early(L[i], h)
    BY <1>3, <1>4 DEF Early
  <2>2. /\ h \notin Range(blocks)
        /\ \A j \in DOMAIN L : Names(L[j], h) => L[j].kind = "inv" /\ i < j
    BY <2>1 DEF InvFirst
  <2> QED BY <1>3, <2>2
<1>5. InvFirst(J, blocks)
  BY <1>2, <1>4 DEF InvFirst
<1> QED BY <1>5 DEF J

-----------------------------------------------------------------------------
\* What the peer and the client send while the peer's last block is t.
PeerMsg(t) ==
  {m \in Msg : /\ m.blocks \in Seq(1 .. t)
               /\ \/ m.kind = "inv" /\ (m.blocks = <<>> \/ m.txs = {})
                  \/ m.kind = "tx" /\ \E x \in Tx : m.txs = {x}
                  \/ m.kind = "merkleblock" /\ m.height \in 1 .. t /\ m.txs \subseteq Mined[m.height]
                  \/ m.kind = "pong"}
ClientMsg(t) ==
  {m \in Msg : /\ m.blocks \in Seq(1 .. t)
               /\ m.kind \in {"filterload", "ping", "getblocks", "getdata", "mempool"}
               /\ m.kind = "getblocks" => m.height <= t}

\* What two ends of a connection may have sent each other.
Typed(w, out, pongs, known, blocks, t) ==
  /\ w \in Seq(PeerMsg(t)) /\ out \in Seq(ClientMsg(t))
  /\ pongs \in Seq(Callbacks) /\ known \in SUBSET Tx /\ blocks \in Seq(1 .. t)
  /\ t \in Heights

Fine(w, out, pongs, known, blocks, t, xs) ==
  /\ Typed(w, out, pongs, known, blocks, t)
  /\ Ordered(Line(w, out), pongs)
  /\ Coming(Line(w, out), known, xs)
  /\ InvFirst(Line(w, out), blocks)

LEMMA MinedSeq == Len(Mined) \in Nat /\ Heights = 1 .. Len(Mined) /\ \A h \in Heights : Mined[h] \in SUBSET Tx
<1>1. Mined \in Seq(SUBSET Tx)
  BY FilterAssumption
<1> QED BY <1>1, LenProperties, ElementOfSeq DEF Heights

LEMMA TypedIs ==
  ASSUME NEW w, NEW out, NEW pongs, NEW known, NEW blocks, NEW t,
         Typed(w, out, pongs, known, blocks, t)
  PROVE  /\ w \in Seq(Msg) /\ out \in Seq(Msg) /\ Line(w, out) \in Seq(Msg)
         /\ \A i \in DOMAIN w : w[i] \in PeerMsg(t)
         /\ \A i \in DOMAIN out : out[i] \in ClientMsg(t)
         /\ w # <<>> => Head(w) \in PeerMsg(t) /\ Tail(w) \in Seq(PeerMsg(t))
         /\ out # <<>> => Head(out) \in ClientMsg(t) /\ Tail(out) \in Seq(ClientMsg(t))
         /\ t \in Nat /\ 1 .. t \subseteq Heights
<1>1. w \in Seq(PeerMsg(t)) /\ out \in Seq(ClientMsg(t)) /\ t \in Heights
  BY DEF Typed
<1>2. PeerMsg(t) \subseteq Msg /\ ClientMsg(t) \subseteq Msg
  BY DEF PeerMsg, ClientMsg
<1> HIDE DEF Msg, PeerMsg, ClientMsg
<1>3. w \in Seq(Msg) /\ out \in Seq(Msg)
  BY <1>1, <1>2, SeqMonotonic
<1>4. Line(w, out) \in Seq(Msg)
  BY <1>3, LineIs
<1>5. t \in Nat /\ 1 .. t \subseteq Heights
  BY <1>1, MinedSeq
<1>6. (\A i \in DOMAIN w : w[i] \in PeerMsg(t)) /\ (\A i \in DOMAIN out : out[i] \in ClientMsg(t))
  BY <1>1, ElementOfSeq, LenProperties
<1>7. ASSUME NEW S, NEW s \in Seq(S), s # <<>> PROVE Head(s) \in S /\ Tail(s) \in Seq(S)
  BY <1>7, HeadTailProperties
<1>8. w # <<>> => Head(w) \in PeerMsg(t) /\ Tail(w) \in Seq(PeerMsg(t))
  BY <1>1, <1>7
<1>9. out # <<>> => Head(out) \in ClientMsg(t) /\ Tail(out) \in Seq(ClientMsg(t))
  BY <1>1, <1>7
<1> QED BY <1>3, <1>4, <1>5, <1>6, <1>8, <1>9

\* A message of the line is one of the peer's or of the client's.
LEMMA LineElement ==
  ASSUME NEW w, NEW out, NEW pongs, NEW known, NEW blocks, NEW t,
         Typed(w, out, pongs, known, blocks, t), NEW i \in DOMAIN Line(w, out)
  PROVE  /\ Line(w, out)[i] \in PeerMsg(t) \cup ClientMsg(t)
         /\ Line(w, out)[i].kind \in {"inv", "tx", "merkleblock", "pong"} => i <= Len(w)
<1>1. /\ w \in Seq(Msg) /\ out \in Seq(Msg)
      /\ \A j \in DOMAIN w : w[j] \in PeerMsg(t)
      /\ \A j \in DOMAIN out : out[j] \in ClientMsg(t)
  BY TypedIs
<1>4. \A m \in ClientMsg(t) : m.kind \notin {"inv", "tx", "merkleblock", "pong"}
  BY DEF ClientMsg
<1> HIDE DEF Msg, PeerMsg, ClientMsg
<1>2. /\ Len(w) \in Nat /\ Len(out) \in Nat
      /\ DOMAIN Line(w, out) = 1 .. (Len(w) + Len(out))
      /\ \A k \in 1 .. (Len(w) + Len(out)) :
           Line(w, out)[k] = IF k <= Len(w) THEN w[k] ELSE out[k - Len(w)]
  BY <1>1, LineIs
<1>3. DOMAIN w = 1 .. Len(w) /\ DOMAIN out = 1 .. Len(out)
  BY <1>1, LenProperties
<1>5. CASE i <= Len(w)
  <2>1. Line(w, out)[i] = w[i] /\ i \in DOMAIN w
    BY <1>2, <1>3, <1>5
  <2> QED BY <1>1, <1>5, <2>1
<1>6. CASE i > Len(w)
  <2>1. Line(w, out)[i] = out[i - Len(w)] /\ i - Len(w) \in DOMAIN out
    BY <1>2, <1>3, <1>6
  <2> QED BY <1>1, <1>4, <2>1
<1> QED BY <1>2, <1>5, <1>6

\* What is named is not above the peer's last block.
LEMMA NamesBelow ==
  ASSUME NEW t \in Nat, NEW m \in PeerMsg(t) \cup ClientMsg(t), NEW h, Names(m, h)
  PROVE  h \in 1 .. t
<1>1. m.blocks \in Seq(1 .. t)
  BY DEF PeerMsg, ClientMsg
<1>2. Range(m.blocks) \subseteq 1 .. t
  BY <1>1, RangeOfSeq
<1>3. CASE m.kind = "merkleblock" /\ m.height = h
  BY <1>3 DEF PeerMsg, ClientMsg
<1>4. CASE h \in Range(m.blocks)
  BY <1>2, <1>4
<1> QED BY <1>3, <1>4 DEF Names

LEMMA SeqHeights ==
  ASSUME NEW t \in Heights, NEW blocks \in Seq(1 .. t)
  PROVE  blocks \in Seq(Heights) /\ Range(blocks) \subseteq 1 .. t
<1>1. 1 .. t \subseteq Heights
  BY MinedSeq
<1>2. blocks \in Seq(Heights)
  BY <1>1, SeqMonotonic
<1>3. Range(blocks) \subseteq 1 .. t
  BY RangeOfSeq
<1> QED BY <1>2, <1>3

LEMMA RangeEmpty == \A s : s = <<>> => Range(s) = {}
BY DEF Range

-----------------------------------------------------------------------------
\* Nothing is on its way.
LEMMA FineClosed ==
  ASSUME NEW t \in Heights, NEW xs
  PROVE  Fine(<<>>, <<>>, <<>>, {}, <<>>, t, xs)
<1> HIDE DEF Msg, PeerMsg, ClientMsg, Callbacks
<1>1. Line(<<>>, <<>>) = <<>>
  BY DEF Line
<1>2. Typed(<<>>, <<>>, <<>>, {}, <<>>, t)
  BY DEF Typed
<1>3. Calls(<<>>, <<>>, <<>>)
  BY DEF Calls
<1>4. Ordered(<<>>, <<>>)
  BY <1>3 DEF Ordered
<1>5. Coming(<<>>, {}, xs) /\ InvFirst(<<>>, <<>>)
  BY DEF Coming, InvFirst
<1> QED BY <1>1, <1>2, <1>4, <1>5 DEF Fine

\* The chain gets longer.
LEMMA FineLater ==
  ASSUME NEW w, NEW out, NEW pongs, NEW known, NEW blocks, NEW t, NEW xs,
         Fine(w, out, pongs, known, blocks, t, xs), NEW u \in Heights, t <= u
  PROVE  Fine(w, out, pongs, known, blocks, u, xs)
<1>1. Typed(w, out, pongs, known, blocks, t)
  BY DEF Fine
<1>2. t \in Nat /\ u \in Nat
  BY <1>1, TypedIs, MinedSeq
<1>3. 1 .. t \subseteq 1 .. u
  BY <1>2
<1>6. Seq(1 .. t) \subseteq Seq(1 .. u)
  BY <1>3, SeqMonotonic
<1>4. PeerMsg(t) \subseteq PeerMsg(u)
  BY <1>3, <1>6 DEF PeerMsg
<1>5. ClientMsg(t) \subseteq ClientMsg(u)
  <2> SUFFICES ASSUME NEW m \in ClientMsg(t) PROVE m \in ClientMsg(u)
    OBVIOUS
  <2>1. m \in Msg /\ m.blocks \in Seq(1 .. u)
        /\ m.kind \in {"filterload", "ping", "getblocks", "getdata", "mempool"}
        /\ m.height \in Nat
    BY <1>6 DEF ClientMsg, Msg
  <2>2. m.kind = "getblocks" => m.height <= u
    BY <1>2, <2>1 DEF ClientMsg
  <2> QED BY <2>1, <2>2 DEF ClientMsg
<1> HIDE DEF PeerMsg, ClientMsg
<1>7. w \in Seq(PeerMsg(u)) /\ out \in Seq(ClientMsg(u))
  BY <1>1, <1>4, <1>5, SeqMonotonic DEF Typed
<1>8. Typed(w, out, pongs, known, blocks, u)
  BY <1>1, <1>6, <1>7 DEF Typed
<1> QED BY <1>8 DEF Fine

-----------------------------------------------------------------------------
\* A request is sent, for the transactions ts that are not known too.
LEMMA FineSent ==
  ASSUME NEW w, NEW out, NEW pongs, NEW known, NEW blocks, NEW t, NEW xs,
         Fine(w, out, pongs, known, blocks, t, xs),
         NEW m \in ClientMsg(t), ~ IsPing(m),
         Asks(m) => /\ \A k \in DOMAIN pongs : pongs[k] # "updateFilterPingDone"
                    /\ Range(m.blocks) \subseteq Range(blocks),
         NEW ts \in SUBSET Tx,
         \A x \in ts \ known : Brings(m, x)
                               /\ \A i \in DOMAIN Line(w, out) : ~ Shows(Line(w, out)[i], x)
  PROVE  Fine(w, Append(out, m), pongs, known \cup ts, blocks, t, xs)
<1> DEFINE S == Line(w, out)
           p == Append(out, m)
           B == Line(w, p)
           n == Len(S) + 1
<1>1. Typed(w, out, pongs, known, blocks, t) /\ Ordered(S, pongs) /\ Coming(S, known, xs)
      /\ InvFirst(S, blocks)
  BY DEF Fine
<1>2. w \in Seq(Msg) /\ out \in Seq(Msg) /\ S \in Seq(Msg)
  BY <1>1, TypedIs
<1>3. m \in Msg /\ m.kind \in {"filterload", "ping", "getblocks", "getdata", "mempool"}
  BY DEF ClientMsg
<1>12. (m.kind = "getdata" /\ Range(m.blocks) # {}) => Asks(m)
  BY RangeEmpty DEF Asks
<1> HIDE DEF Msg, PeerMsg, ClientMsg, Callbacks, IsPing, Asks, Names, Shows, Brings
<1>4. B = Inserted(S, n, m)
  BY <1>2, <1>3, SentLine
<1>5. Len(S) \in Nat /\ DOMAIN S = 1 .. Len(S)
  BY <1>2, LenProperties
<1> HIDE DEF S, B
<1>6. n \in 1 .. (Len(S) + 1)
  BY <1>5
<1>14. n = Len(S) + 1
  OBVIOUS
<1> HIDE DEF n
<1>7. PICK e : Skips(e, n, S, B) /\ B[n] = m
  BY <1>2, <1>3, <1>4, <1>6, InsertedSkips
<1>8. \A i \in DOMAIN S : e[i] < n
  BY <1>5, <1>7, <1>14 DEF Skips
<1>9. Ordered(B, pongs)
  <2>1. pongs \in Seq(Callbacks)
    BY <1>1 DEF Typed
  <2> QED BY <1>1, <1>7, <2>1, OrderedGrows
<1>10. Coming(B, known \cup ts, xs)
  <2> SUFFICES ASSUME NEW x \in (known \cup ts) \ xs PROVE Comes(B, x)
    BY DEF Coming
  <2>1. CASE x \in known
    <3>1. Comes(S, x)
      BY <1>1, <2>1 DEF Coming
    <3> QED BY <1>7, <1>8, <3>1, ComesGrows
  <2>2. CASE x \in ts \ known
    BY <1>7, <2>2, ComesAsked DEF S
  <2> QED BY <2>1, <2>2
<1>11. InvFirst(B, blocks)
  <2>1. \A h \in Heights : Names(m, h) => h \in Range(blocks)
    BY <1>3, <1>12 DEF Names
  <2>2. m.kind # "inv"
    BY <1>3
  <2> QED BY <1>1, <1>7, <2>1, <2>2, InvFirstGrows
<1>13. Typed(w, p, pongs, known \cup ts, blocks, t)
  <2>1. p \in Seq(ClientMsg(t))
    BY <1>1, AppendProperties DEF Typed
  <2> QED BY <1>1, <2>1 DEF Typed
<1> QED BY <1>9, <1>10, <1>11, <1>13 DEF Fine, B

\* A ping is sent, with the callback of its pong.
LEMMA FinePinged ==
  ASSUME NEW w, NEW out, NEW pongs, NEW known, NEW blocks, NEW t, NEW xs,
         Fine(w, out, pongs, known, blocks, t, xs), NEW callback \in Callbacks
  PROVE  Fine(w, Append(out, Message("ping", 0, <<>>, {})), Append(pongs, callback),
              known, blocks, t, xs)
<1> DEFINE m == Message("ping", 0, <<>>, {})
           S == Line(w, out)
           p == Append(out, m)
           B == Line(w, p)
           n == Len(S) + 1
<1>1. Typed(w, out, pongs, known, blocks, t) /\ Ordered(S, pongs) /\ Coming(S, known, xs)
      /\ InvFirst(S, blocks)
  BY DEF Fine
<1>2. w \in Seq(Msg) /\ out \in Seq(Msg) /\ S \in Seq(Msg)
  BY <1>1, TypedIs
<1>3. m \in ClientMsg(t) /\ m \in Msg /\ m.kind = "ping"
  <2>1. <<>> \in Seq(Heights) /\ <<>> \in Seq(1 .. t) /\ "ping" \in Kinds
        /\ 0 \in Nat /\ {} \in SUBSET Tx
    BY EmptySeq DEF Kinds
  <2>2. m \in Msg /\ m.kind = "ping" /\ m.blocks = <<>>
    BY <2>1 DEF Message, Msg
  <2> HIDE DEF m, Msg
  <2> QED BY <2>1, <2>2 DEF ClientMsg
<1>12. /\ IsPing(m) /\ ~ Asks(m) /\ \A h : ~ Names(m, h)
       /\ \A x : ~ Shows(m, x)
  BY <1>3 DEF IsPing, Asks, Names, Shows
<1> HIDE DEF Msg, PeerMsg, ClientMsg, Callbacks, IsPing, Asks, Names, Shows, Brings, m
<1>4. B = Inserted(S, n, m)
  BY <1>2, <1>3, SentLine
<1>5. Len(S) \in Nat /\ DOMAIN S = 1 .. Len(S)
  BY <1>2, LenProperties
<1> HIDE DEF S, B
<1>6. n \in 1 .. (Len(S) + 1)
  BY <1>5
<1>14. n = Len(S) + 1
  OBVIOUS
<1> HIDE DEF n
<1>7. PICK e : Skips(e, n, S, B) /\ B[n] = m
  BY <1>2, <1>3, <1>4, <1>6, InsertedSkips
<1>8. \A i \in DOMAIN S : e[i] < n
  BY <1>5, <1>7, <1>14 DEF Skips
<1>15. \A i \in DOMAIN B : i <= n
  <2> SUFFICES ASSUME NEW i \in DOMAIN B PROVE i <= n
    OBVIOUS
  <2>1. n \in Int
    BY <1>5, <1>14
  <2>2. CASE i # n
    <3>1. PICK j \in DOMAIN S : e[j] = i
      BY <1>7, <2>2 DEF Skips
    <3>2. i \in Int
      BY <1>7, DomainNat DEF Skips
    <3> QED BY <1>8, <2>1, <3>1, <3>2
  <2> QED BY <2>1, <2>2
<1>16. pongs \in Seq(Callbacks)
  BY <1>1 DEF Typed
<1>9. Ordered(B, Append(pongs, callback))
  BY <1>1, <1>7, <1>12, <1>15, <1>16, OrderedPing
<1>10. Coming(B, known, xs)
  <2> SUFFICES ASSUME NEW x \in known \ xs PROVE Comes(B, x)
    BY DEF Coming
  <2>1. Comes(S, x)
    BY <1>1 DEF Coming
  <2> QED BY <1>7, <1>8, <2>1, ComesGrows
<1>11. InvFirst(B, blocks)
  <2>2. m.kind # "inv"
    BY <1>3
  <2> QED BY <1>1, <1>7, <1>12, <2>2, InvFirstGrows
<1>13. Typed(w, p, Append(pongs, callback), known, blocks, t)
  <2>1. p \in Seq(ClientMsg(t)) /\ Append(pongs, callback) \in Seq(Callbacks)
    BY <1>1, <1>3, <1>16, AppendProperties DEF Typed
  <2> QED BY <1>1, <2>1 DEF Typed
<1> QED BY <1>9, <1>10, <1>11, <1>13 DEF Fine, B, m

-----------------------------------------------------------------------------
\* A message arrives.
LEMMA FineArrived ==
  ASSUME NEW w, NEW out, NEW pongs, NEW known, NEW blocks, NEW t, NEW xs,
         Fine(w, out, pongs, known, blocks, t, xs), w # <<>>,
         ~ IsPing(Head(w)), NEW ys, xs \subseteq ys, \A x : Brings(Head(w), x) => x \in ys
  PROVE  Fine(Tail(w), out, pongs, known, blocks, t, ys)
<1> DEFINE B == Line(w, out)
           v == Tail(w)
           S == Line(v, out)
<1>1. Typed(w, out, pongs, known, blocks, t) /\ Ordered(B, pongs) /\ Coming(B, known, xs)
      /\ InvFirst(B, blocks)
  BY DEF Fine
<1>2. w \in Seq(Msg) /\ out \in Seq(Msg) /\ B \in Seq(Msg) /\ v \in Seq(PeerMsg(t))
  BY <1>1, TypedIs
<1> HIDE DEF Msg, PeerMsg, ClientMsg, Callbacks, IsPing, Asks, Names, Shows, Brings
<1>3. S = Removed(B, 1) /\ B[1] = Head(w) /\ Len(B) > 0
  BY <1>2, ArrivedLine
<1>4. Len(B) \in Nat
  BY <1>2, LenProperties
<1> HIDE DEF B, S, v
<1>5. 1 \in 1 .. Len(B)
  BY <1>3, <1>4
<1>6. PICK e : Skips(e, 1, S, B)
  BY <1>2, <1>3, <1>5, RemovedSkips
<1>7. pongs \in Seq(Callbacks)
  BY <1>1 DEF Typed
<1>8. Ordered(S, pongs)
  BY <1>1, <1>3, <1>6, <1>7, OrderedShrinks
<1>9. Coming(S, known, ys)
  <2> SUFFICES ASSUME NEW x \in known \ ys PROVE Comes(S, x)
    BY DEF Coming
  <2>1. Comes(B, x) /\ ~ Brings(B[1], x)
    BY <1>1, <1>3 DEF Coming
  <2> QED BY <1>6, <2>1, ComesShrinks
<1>10. InvFirst(S, blocks)
  BY <1>1, <1>6, InvFirstShrinks
<1>11. Typed(v, out, pongs, known, blocks, t)
  BY <1>1, <1>2 DEF Typed
<1> QED BY <1>8, <1>9, <1>10, <1>11 DEF Fine, S, v

\* A pong arrives, for the first of the callbacks.
LEMMA FinePong ==
  ASSUME NEW w, NEW out, NEW pongs, NEW known, NEW blocks, NEW t, NEW xs,
         Fine(w, out, pongs, known, blocks, t, xs), w # <<>>, Head(w).kind = "pong"
  PROVE  /\ pongs # <<>> /\ Fine(Tail(w), out, Tail(pongs), known, blocks, t, xs)
         /\ Head(pongs) = "updateFilterPingDone" =>
              \A i \in DOMAIN Line(Tail(w), out) : ~ Asks(Line(Tail(w), out)[i])
<1> DEFINE B == Line(w, out)
           v == Tail(w)
           S == Line(v, out)
<1>1. Typed(w, out, pongs, known, blocks, t) /\ Ordered(B, pongs) /\ Coming(B, known, xs)
      /\ InvFirst(B, blocks)
  BY DEF Fine
<1>2. w \in Seq(Msg) /\ out \in Seq(Msg) /\ B \in Seq(Msg) /\ v \in Seq(PeerMsg(t))
  BY <1>1, TypedIs
<1>12. IsPing(Head(w)) /\ \A x : ~ Brings(Head(w), x)
  BY DEF IsPing, Brings
<1> HIDE DEF Msg, PeerMsg, ClientMsg, Callbacks, IsPing, Asks, Names, Shows, Brings
<1>3. S = Removed(B, 1) /\ B[1] = Head(w) /\ Len(B) > 0
  BY <1>2, ArrivedLine
<1>4. Len(B) \in Nat
  BY <1>2, LenProperties
<1> HIDE DEF B, S, v
<1>5. 1 \in 1 .. Len(B)
  BY <1>3, <1>4
<1>6. PICK e : Skips(e, 1, S, B)
  BY <1>2, <1>3, <1>5, RemovedSkips
<1>7. pongs \in Seq(Callbacks)
  BY <1>1 DEF Typed
<1>8. /\ pongs # <<>> /\ Ordered(S, Tail(pongs))
      /\ Head(pongs) = "updateFilterPingDone" => \A i \in DOMAIN S : ~ Asks(S[i])
  BY <1>1, <1>3, <1>6, <1>7, <1>12, OrderedPong
<1>9. Coming(S, known, xs)
  <2> SUFFICES ASSUME NEW x \in known \ xs PROVE Comes(S, x)
    BY DEF Coming
  <2>1. Comes(B, x) /\ ~ Brings(B[1], x)
    BY <1>1, <1>3, <1>12 DEF Coming
  <2> QED BY <1>6, <2>1, ComesShrinks
<1>10. InvFirst(S, blocks)
  BY <1>1, <1>6, InvFirstShrinks
<1>11. Typed(v, out, Tail(pongs), known, blocks, t)
  <2>1. Tail(pongs) \in Seq(Callbacks)
    BY <1>7, <1>8, HeadTailProperties
  <2> QED BY <1>1, <1>2, <2>1 DEF Typed
<1> QED BY <1>8, <1>9, <1>10, <1>11 DEF Fine, S, v

\* Blocks are announced and remembered.  Those of the transactions announced
\* are not on their way.
LEMMA FineHeard ==
  ASSUME NEW w, NEW out, NEW pongs, NEW known, NEW blocks, NEW t, NEW xs,
         Fine(w, out, pongs, known, blocks, t, xs), w # <<>>, Head(w).kind = "inv",
         NEW heard \in Seq(1 .. t), Range(heard) \subseteq Range(blocks) \cup Range(Head(w).blocks)
  PROVE  /\ Fine(Tail(w), out, pongs, known, heard, t, xs)
         /\ \A x \in Head(w).txs : \A i \in DOMAIN Line(Tail(w), out) : ~ Shows(Line(Tail(w), out)[i], x)
<1> DEFINE B == Line(w, out)
           v == Tail(w)
           S == Line(v, out)
<1>1. Typed(w, out, pongs, known, blocks, t) /\ InvFirst(B, blocks)
  BY DEF Fine
<1>2. w \in Seq(Msg) /\ out \in Seq(Msg) /\ B \in Seq(Msg) /\ v \in Seq(PeerMsg(t))
  BY <1>1, TypedIs
<1>12. ~ IsPing(Head(w)) /\ \A x : ~ Brings(Head(w), x)
  BY DEF IsPing, Brings
<1> HIDE DEF Msg, PeerMsg, ClientMsg, Callbacks, IsPing, Asks, Names, Brings
<1>13. Fine(v, out, pongs, known, blocks, t, xs)
  BY <1>12, FineArrived
<1>3. S = Removed(B, 1) /\ B[1] = Head(w) /\ Len(B) > 0
  BY <1>2, ArrivedLine
<1>4. Len(B) \in Nat /\ 1 \in DOMAIN B
  BY <1>2, <1>3, LenProperties
<1> HIDE DEF B, S, v
<1>5. 1 \in 1 .. Len(B)
  BY <1>3, <1>4
<1>6. PICK e : Skips(e, 1, S, B)
  BY <1>2, <1>3, <1>5, RemovedSkips
<1>10. InvFirst(S, heard)
  BY <1>1, <1>3, <1>6, InvFirstHeard
<1>11. Typed(v, out, pongs, known, heard, t)
  BY <1>1, <1>2 DEF Typed
<1>14. ASSUME NEW x \in Head(w).txs, NEW i \in DOMAIN S PROVE ~ Shows(S[i], x)
  <2> SUFFICES ASSUME S[i].kind # "inv", NEW h \in Heights, x \in Mined[h], Names(S[i], h)
               PROVE  FALSE
    BY DEF Shows
  <2>1. Early(B[1], h)
    BY <1>3 DEF Early
  <2>2. e[i] \in DOMAIN B /\ B[e[i]] = S[i]
    BY <1>6 DEF Skips
  <2> QED BY <1>1, <1>4, <2>1, <2>2 DEF InvFirst
<1>15. Ordered(S, pongs) /\ Coming(S, known, xs)
  BY <1>13 DEF Fine, S
<1> QED BY <1>10, <1>11, <1>14, <1>15 DEF Fine, S, v

\* What a block has that was announced and asked for has come.
LEMMA FineShown ==
  ASSUME NEW w, NEW out, NEW pongs, NEW known, NEW blocks, NEW t, NEW xs,
         Fine(w, out, pongs, known, blocks, t, xs), w # <<>>, Head(w).kind = "merkleblock"
  PROVE  Head(w).txs \cap known \subseteq xs
<1> DEFINE B == Line(w, out)
<1>1. Typed(w, out, pongs, known, blocks, t) /\ Coming(B, known, xs)
  BY DEF Fine
<1>2. w \in Seq(Msg) /\ out \in Seq(Msg) /\ B \in Seq(Msg) /\ Head(w) \in PeerMsg(t)
      /\ 1 .. t \subseteq Heights
  BY <1>1, TypedIs
<1>3. Head(w).height \in Heights /\ Head(w).txs \subseteq Mined[Head(w).height]
  BY <1>2 DEF PeerMsg
<1>4. \A x \in Head(w).txs : Shows(Head(w), x) /\ ~ Brings(Head(w), x)
  BY <1>3 DEF Shows, Names, Brings
<1> HIDE DEF Msg, PeerMsg, Shows, Brings
<1>5. B[1] = Head(w) /\ Len(B) > 0
  BY <1>2, ArrivedLine
<1>6. DOMAIN B = 1 .. Len(B) /\ Len(B) \in Nat
  BY <1>2, LenProperties
<1> HIDE DEF B
<1> SUFFICES ASSUME NEW x \in Head(w).txs \cap known, x \notin xs PROVE FALSE
  OBVIOUS
<1>7. Comes(B, x)
  BY <1>1 DEF Coming
<1>8. PICK j \in DOMAIN B : Brings(B[j], x) /\ \A i \in DOMAIN B : Shows(B[i], x) => j <= i
  BY <1>7 DEF Comes
<1>9. 1 \in DOMAIN B /\ Shows(B[1], x)
  BY <1>4, <1>5, <1>6
<1>10. j = 1
  BY <1>6, <1>8, <1>9
<1> QED BY <1>4, <1>5, <1>8, <1>10

-----------------------------------------------------------------------------
\* The peer sends an announcement.
LEMMA FinePushed ==
  ASSUME NEW w, NEW out, NEW pongs, NEW known, NEW blocks, NEW t, NEW xs,
         Fine(w, out, pongs, known, blocks, t, xs), NEW m \in PeerMsg(t), m.kind = "inv",
         \/ m.txs = {}
         \/ m.blocks = <<>> /\ m.txs \cap MinedBy(t) = {}
  PROVE  Fine(Append(w, m), out, pongs, known, blocks, t, xs)
<1> DEFINE S == Line(w, out)
           v == Append(w, m)
           B == Line(v, out)
           n == Len(w) + 1
<1>1. Typed(w, out, pongs, known, blocks, t) /\ Ordered(S, pongs) /\ Coming(S, known, xs)
      /\ InvFirst(S, blocks)
  BY DEF Fine
<1>2. w \in Seq(Msg) /\ out \in Seq(Msg) /\ S \in Seq(Msg) /\ t \in Nat
  BY <1>1, TypedIs
<1>3. m \in Msg /\ ~ IsPing(m) /\ ~ Asks(m) /\ \A x : ~ Shows(m, x)
  BY DEF PeerMsg, IsPing, Asks, Shows
<1> HIDE DEF Msg, PeerMsg, ClientMsg, Callbacks, IsPing, Asks, Names, Shows, Brings
<1>4. B = Inserted(S, n, m) /\ n \in 1 .. (Len(S) + 1)
  BY <1>2, <1>3, PushedLine
<1>5. Len(S) \in Nat /\ DOMAIN S = 1 .. Len(S) /\ Len(w) \in Nat
  BY <1>2, LenProperties
<1>14. n = Len(w) + 1
  OBVIOUS
<1>15. \A i \in DOMAIN S : S[i].kind = "inv" => i <= Len(w)
  BY <1>1, LineElement
<1>16. \A i \in DOMAIN S : \A h : Names(S[i], h) => h \in 1 .. t
  BY <1>1, <1>2, LineElement, NamesBelow
<1> HIDE DEF S, B, n
<1>7. PICK e : Skips(e, n, S, B) /\ B[n] = m
  BY <1>2, <1>3, <1>4, InsertedSkips
<1>8. Ordered(B, pongs)
  <2>1. pongs \in Seq(Callbacks)
    BY <1>1 DEF Typed
  <2> QED BY <1>1, <1>3, <1>7, <2>1, OrderedGrows
<1>9. Coming(B, known, xs)
  <2> SUFFICES ASSUME NEW x \in known \ xs PROVE Comes(B, x)
    BY DEF Coming
  <2>1. Comes(S, x)
    BY <1>1 DEF Coming
  <2> QED BY <1>3, <1>7, <2>1, ComesGrows
<1>10. InvFirst(B, blocks)
  <2>1. CASE m.txs = {}
    <3>1. \A i \in DOMAIN S : S[i].kind = "inv" => e[i] < n
      BY <1>5, <1>7, <1>14, <1>15 DEF Skips
    <3> QED BY <1>1, <1>7, <2>1, <3>1, InvFirstBlocks
  <2>2. CASE m.blocks = <<>> /\ m.txs \cap MinedBy(t) = {}
    <3>1. Range(m.blocks) = {}
      BY <2>2, RangeEmpty
    <3>2. Range(blocks) \subseteq 1 .. t
      BY <1>1, SeqHeights DEF Typed
    <3>3. ASSUME NEW h \in Heights, m.txs \cap Mined[h] # {} PROVE h \notin 1 .. t
      BY <2>2, <3>3 DEF MinedBy
    <3>4. \A h \in Heights : m.txs \cap Mined[h] # {} =>
            h \notin Range(blocks) /\ \A i \in DOMAIN S : ~ Names(S[i], h)
      BY <1>16, <3>2, <3>3
    <3> QED BY <1>1, <1>7, <3>1, <3>4, InvFirstTxs
  <2> QED BY <2>1, <2>2
<1>11. Typed(v, out, pongs, known, blocks, t)
  <2>1. v \in Seq(PeerMsg(t))
    BY <1>1, AppendProperties DEF Typed
  <2> QED BY <1>1, <2>1 DEF Typed
<1> QED BY <1>8, <1>9, <1>10, <1>11 DEF Fine, S, B

\* A request that needs no answer, or has had it, is done.
LEMMA FineDone ==
  ASSUME NEW w, NEW out, NEW pongs, NEW known, NEW blocks, NEW t, NEW xs,
         Fine(w, out, pongs, known, blocks, t, xs), out # <<>>,
         ~ IsPing(Head(out)),
         \A x : Brings(Head(out), x) => \E i \in DOMAIN w : Brings(w[i], x)
  PROVE  Fine(w, Tail(out), pongs, known, blocks, t, xs)
<1> DEFINE B == Line(w, out)
           p == Tail(out)
           S == Line(w, p)
           n == Len(w) + 1
<1>1. Typed(w, out, pongs, known, blocks, t) /\ Ordered(B, pongs) /\ Coming(B, known, xs)
      /\ InvFirst(B, blocks)
  BY DEF Fine
<1>2. w \in Seq(Msg) /\ out \in Seq(Msg) /\ B \in Seq(Msg) /\ Head(out) \in ClientMsg(t)
      /\ p \in Seq(ClientMsg(t))
  BY <1>1, TypedIs
<1>17. Head(out) \in Msg
  BY <1>2 DEF ClientMsg
<1> HIDE DEF Msg, PeerMsg, ClientMsg, Callbacks, IsPing, Asks, Names, Shows, Brings
<1>3. S = Removed(B, n) /\ n \in 1 .. Len(B) /\ B[n] = Head(out)
  BY <1>2, <1>17, AnsweredLine
<1>4. Len(w) \in Nat /\ DOMAIN w = 1 .. Len(w)
  BY <1>2, LenProperties
<1>5. Len(out) \in Nat /\ \A i \in DOMAIN w : B[i] = w[i]
  <2>1. Len(out) \in Nat
    BY <1>2, LenProperties
  <2>2. \A i \in 1 .. (Len(w) + Len(out)) : B[i] = IF i <= Len(w) THEN w[i] ELSE out[i - Len(w)]
    BY <1>2, LineIs
  <2> HIDE DEF B
  <2> QED BY <1>4, <2>1, <2>2
<1>6. \A i \in DOMAIN w : i \in DOMAIN S
  <2>1. Len(B) = Len(w) + Len(out)
    BY <1>2, LineIs
  <2>2. Len(S) = Len(B) - 1 /\ S \in Seq(Msg)
    BY <1>2, <1>3, RemovedIs
  <2>3. DOMAIN S = 1 .. Len(S)
    BY <2>2, LenProperties
  <2>4. Len(out) > 0
    BY <1>2, EmptySeq, <1>5
  <2> HIDE DEF S, B
  <2> QED BY <1>4, <1>5, <2>1, <2>2, <2>3, <2>4
<1>14. n = Len(w) + 1
  OBVIOUS
<1> HIDE DEF S, B, n
<1>7. PICK e : Skips(e, n, S, B)
  BY <1>2, <1>3, RemovedSkips
<1>8. Ordered(S, pongs)
  <2>1. pongs \in Seq(Callbacks)
    BY <1>1 DEF Typed
  <2> QED BY <1>1, <1>3, <1>7, <2>1, OrderedShrinks
<1>9. Coming(S, known, xs)
  <2> SUFFICES ASSUME NEW x \in known \ xs PROVE Comes(S, x)
    BY DEF Coming
  <2>1. Comes(B, x)
    BY <1>1 DEF Coming
  <2>2. CASE ~ Brings(B[n], x)
    BY <1>7, <2>1, <2>2, ComesShrinks
  <2>3. CASE Brings(B[n], x)
    <3>1. PICK i \in DOMAIN w : Brings(w[i], x)
      BY <1>3, <2>3
    <3>2. i \in DOMAIN S /\ e[i] = i /\ i < n
      BY <1>4, <1>6, <1>7, <1>14 DEF Skips
    <3>3. S[i] = B[i]
      BY <1>7, <3>2 DEF Skips
    <3>4. Brings(S[i], x) /\ e[i] < n
      BY <1>5, <3>1, <3>2, <3>3
    <3> QED BY <1>7, <2>1, <3>2, <3>4, ComesShrinks
  <2> QED BY <2>2, <2>3
<1>10. InvFirst(S, blocks)
  BY <1>1, <1>7, InvFirstShrinks
<1>11. Typed(w, p, pongs, known, blocks, t)
  BY <1>1, <1>2 DEF Typed
<1> QED BY <1>8, <1>9, <1>10, <1>11 DEF Fine, S, p

\* A getdata has less to be answered.
LEMMA FineLess ==
  ASSUME NEW w, NEW out, NEW pongs, NEW known, NEW blocks, NEW t, NEW xs,
         Fine(w, out, pongs, known, blocks, t, xs), out # <<>>, NEW m \in ClientMsg(t),
         Head(out).kind = "getdata", m.kind = "getdata", Range(m.blocks) \subseteq Range(Head(out).blocks),
         \A x : Brings(Head(out), x) => \/ Brings(m, x)
                                        \/ \E i \in DOMAIN w : Brings(w[i], x)
  PROVE  Fine(w, Put(out, 1, m), pongs, known, blocks, t, xs)
<1> DEFINE L == Line(w, out)
           p == Put(out, 1, m)
           J == Line(w, p)
           n == Len(w) + 1
<1>1. Typed(w, out, pongs, known, blocks, t) /\ Ordered(L, pongs) /\ Coming(L, known, xs)
      /\ InvFirst(L, blocks)
  BY DEF Fine
<1>2. w \in Seq(Msg) /\ out \in Seq(Msg) /\ L \in Seq(Msg)
  BY <1>1, TypedIs
<1>3. m \in Msg /\ ~ IsPing(m) /\ ~ IsPing(Head(out))
  BY DEF ClientMsg, IsPing
<1>16. \A h : Names(m, h) => Names(Head(out), h)
  BY DEF Names
<1>17. \A x : Shows(m, x) => Shows(Head(out), x)
  BY <1>16 DEF Shows
<1>18. Asks(m) => Asks(Head(out))
  <2> SUFFICES ASSUME Asks(m) PROVE Head(out).blocks # <<>>
    BY DEF Asks
  <2>1. m.blocks \in Seq(1 .. t) /\ m.blocks # <<>>
    BY DEF ClientMsg, Asks
  <2>2. 1 \in DOMAIN m.blocks
    BY <2>1, EmptySeq, LenProperties
  <2>3. m.blocks[1] \in Range(m.blocks)
    BY <2>2 DEF Range
  <2> QED BY <2>3, RangeEmpty
<1> HIDE DEF Msg, PeerMsg, ClientMsg, Callbacks, IsPing, Asks, Names, Shows, Brings
<1>4. J = Put(L, n, m) /\ n \in 1 .. Len(L) /\ L[n] = Head(out)
  BY <1>2, <1>3, AnsweredLine
<1>5. Len(w) \in Nat /\ DOMAIN w = 1 .. Len(w) /\ DOMAIN L = 1 .. Len(L)
      /\ Len(L) \in Nat
  BY <1>2, LenProperties
<1>6. \A i \in DOMAIN w : L[i] = w[i]
  <2>1. Len(out) \in Nat
    BY <1>2, LenProperties
  <2>2. \A i \in 1 .. (Len(w) + Len(out)) : L[i] = IF i <= Len(w) THEN w[i] ELSE out[i - Len(w)]
    BY <1>2, LineIs
  <2> HIDE DEF L
  <2> QED BY <1>5, <2>1, <2>2
<1>14. n = Len(w) + 1
  OBVIOUS
<1>15. Len(out) > 0 /\ Len(out) \in Nat
  BY <1>2, EmptySeq, LenProperties
<1> HIDE DEF L, J, n
<1>8. Ordered(J, pongs)
  BY <1>1, <1>2, <1>3, <1>4, <1>18, OrderedPut
<1>9. Coming(J, known, xs)
  <2> SUFFICES ASSUME NEW x \in known \ xs PROVE Comes(J, x)
    BY DEF Coming
  <2>1. Comes(L, x)
    BY <1>1 DEF Coming
  <2>2. Shows(m, x) => Shows(L[n], x)
    BY <1>4, <1>17
  <2>3. Brings(L[n], x) => \/ Brings(m, x)
                           \/ \E i \in DOMAIN L : i < n /\ Brings(L[i], x)
    <3> SUFFICES ASSUME NEW i \in DOMAIN w, Brings(w[i], x)
                 PROVE  \E j \in DOMAIN L : j < n /\ Brings(L[j], x)
      BY <1>4
    <3>1. i \in DOMAIN L /\ i < n
      BY <1>4, <1>5, <1>14
    <3> QED BY <1>6, <3>1
  <2> QED BY <1>2, <1>3, <1>4, <2>1, <2>2, <2>3, ComesPut
<1>10. InvFirst(J, blocks)
  <2>1. m.kind # "inv" /\ L[n].kind # "inv"
    BY <1>4
  <2>2. \A h \in Heights : Names(m, h) => Names(L[n], h)
    BY <1>4, <1>16
  <2> QED BY <1>1, <1>2, <1>3, <1>4, <2>1, <2>2, InvFirstPut
<1>11. Typed(w, p, pongs, known, blocks, t)
  <2>2. 1 \in DOMAIN out
    BY <1>2, <1>15, LenProperties
  <2>1. p \in Seq(ClientMsg(t))
    BY <1>1, <2>2, ExceptSeq DEF Typed, Put
  <2> QED BY <1>1, <2>1 DEF Typed
<1> QED BY <1>8, <1>9, <1>10, <1>11 DEF Fine, J, p

-----------------------------------------------------------------------------
\* The peer sends a transaction, or a block that it is asked for next.
LEMMA FineAnswered ==
  ASSUME NEW w, NEW out, NEW pongs, NEW known, NEW blocks, NEW t, NEW xs,
         Fine(w, out, pongs, known, blocks, t, xs), out # <<>>,
         NEW m \in PeerMsg(t), m.kind \in {"tx", "merkleblock"},
         m.kind = "merkleblock" => /\ Head(out).kind = "getdata" /\ Head(out).txs = {}
                                   /\ m.height \in Range(Head(out).blocks)
  PROVE  Fine(Append(w, m), out, pongs, known, blocks, t, xs)
<1> DEFINE S == Line(w, out)
           v == Append(w, m)
           B == Line(v, out)
           n == Len(w) + 1
<1>1. Typed(w, out, pongs, known, blocks, t) /\ Ordered(S, pongs) /\ Coming(S, known, xs)
      /\ InvFirst(S, blocks)
  BY DEF Fine
<1>2. w \in Seq(Msg) /\ out \in Seq(Msg) /\ S \in Seq(Msg) /\ t \in Nat
      /\ Head(out) \in ClientMsg(t) /\ Head(out) \in Msg
  BY <1>1, TypedIs DEF ClientMsg
<1>3. m \in Msg /\ ~ IsPing(m) /\ m.kind # "inv"
  BY DEF PeerMsg, IsPing
<1>20. \/ ~ Asks(m) /\ (\A x : ~ Shows(m, x)) /\ (\A h : ~ Names(m, h))
       \/ /\ Asks(Head(out)) /\ Head(out).kind # "inv"
          /\ \A x : ~ Brings(Head(out), x)
          /\ \A h : Names(m, h) => Names(Head(out), h)
          /\ \A x : Shows(m, x) => Shows(Head(out), x)
  <2>1. CASE m.kind = "tx"
    BY <2>1 DEF Asks, Shows, Names
  <2>2. CASE m.kind = "merkleblock"
    <3>1. Head(out).blocks # <<>>
      BY <2>2, RangeEmpty
    <3>2. Asks(Head(out)) /\ \A x : ~ Brings(Head(out), x)
      BY <2>2, <3>1 DEF Asks, Brings
    <3>3. \A h : Names(m, h) => Names(Head(out), h)
      BY <2>2 DEF Names
    <3>4. \A x : Shows(m, x) => Shows(Head(out), x)
      BY <2>2, <3>3 DEF Shows
    <3> QED BY <2>2, <3>2, <3>3, <3>4
  <2> QED BY <2>1, <2>2
<1> HIDE DEF Msg, PeerMsg, ClientMsg, Callbacks, IsPing, Asks, Names, Shows, Brings
<1>4. B = Inserted(S, n, m) /\ n \in 1 .. (Len(S) + 1)
  BY <1>2, <1>3, PushedLine
<1>5. Len(S) \in Nat /\ DOMAIN S = 1 .. Len(S) /\ Len(w) \in Nat
  BY <1>2, LenProperties
<1>14. n = Len(w) + 1
  OBVIOUS
<1>15. S[n] = Head(out) /\ n \in DOMAIN S
  BY <1>2, <1>3, <1>5, AnsweredLine
<1> HIDE DEF S, B, n
<1>7. PICK e : Skips(e, n, S, B) /\ B[n] = m
  BY <1>2, <1>3, <1>4, InsertedSkips
<1>6. e[n] = n + 1 /\ n < n + 1
  BY <1>5, <1>7, <1>14, <1>15 DEF Skips
<1>8. Ordered(B, pongs)
  <2>1. pongs \in Seq(Callbacks)
    BY <1>1 DEF Typed
  <2>2. ~ Asks(B[n]) \/ \E i \in DOMAIN S : n < e[i] /\ Asks(S[i])
    BY <1>6, <1>7, <1>15, <1>20
  <2> QED BY <1>1, <1>3, <1>7, <2>1, <2>2, OrderedGrows
<1>9. Coming(B, known, xs)
  <2> SUFFICES ASSUME NEW x \in known \ xs PROVE Comes(B, x)
    BY DEF Coming
  <2>1. Comes(S, x)
    BY <1>1 DEF Coming
  <2>2. ~ Shows(B[n], x) \/ \E i \in DOMAIN S : e[i] = n + 1 /\ Shows(S[i], x) /\ ~ Brings(S[i], x)
    BY <1>6, <1>7, <1>15, <1>20
  <2> QED BY <1>7, <2>1, <2>2, ComesGrows
<1>10. InvFirst(B, blocks)
  <2>1. \A h \in Heights : Names(B[n], h) =>
           \/ h \in Range(blocks)
           \/ \E i \in DOMAIN S : S[i].kind # "inv" /\ Names(S[i], h)
    BY <1>7, <1>15, <1>20
  <2> QED BY <1>1, <1>3, <1>7, <2>1, InvFirstGrows
<1>11. Typed(v, out, pongs, known, blocks, t)
  <2>1. v \in Seq(PeerMsg(t))
    BY <1>1, AppendProperties DEF Typed
  <2> QED BY <1>1, <2>1 DEF Typed
<1> QED BY <1>8, <1>9, <1>10, <1>11 DEF Fine, S, B

\* A ping is answered.
LEMMA FinePonged ==
  ASSUME NEW w, NEW out, NEW pongs, NEW known, NEW blocks, NEW t, NEW xs,
         Fine(w, out, pongs, known, blocks, t, xs), out # <<>>, Head(out).kind = "ping",
         NEW m \in PeerMsg(t), m.kind = "pong"
  PROVE  Fine(Append(w, m), Tail(out), pongs, known, blocks, t, xs)
<1> DEFINE L == Line(w, out)
           v == Append(w, m)
           p == Tail(out)
           J == Line(v, p)
           n == Len(w) + 1
<1>1. Typed(w, out, pongs, known, blocks, t) /\ Ordered(L, pongs) /\ Coming(L, known, xs)
      /\ InvFirst(L, blocks)
  BY DEF Fine
<1>2. w \in Seq(Msg) /\ out \in Seq(Msg) /\ L \in Seq(Msg) /\ p \in Seq(ClientMsg(t))
  BY <1>1, TypedIs
<1>3. /\ m \in Msg /\ IsPing(m) /\ IsPing(Head(out)) /\ ~ Asks(m)
      /\ \A h : ~ Names(m, h)
  BY DEF PeerMsg, IsPing, Asks, Names
<1>16. \A x : ~ Shows(m, x) /\ ~ Brings(Head(out), x)
  BY DEF Shows, Names, Brings
<1> HIDE DEF Msg, PeerMsg, ClientMsg, Callbacks, IsPing, Asks, Names, Shows, Brings
<1>4. J = Put(L, n, m) /\ n \in 1 .. Len(L) /\ L[n] = Head(out)
  BY <1>2, <1>3, AnsweredLine
<1> HIDE DEF L, J, n
<1>8. Ordered(J, pongs)
  BY <1>1, <1>2, <1>3, <1>4, OrderedPut
<1>9. Coming(J, known, xs)
  <2> SUFFICES ASSUME NEW x \in known \ xs PROVE Comes(J, x)
    BY DEF Coming
  <2>1. Comes(L, x)
    BY <1>1 DEF Coming
  <2> QED BY <1>2, <1>3, <1>4, <1>16, <2>1, ComesPut
<1>10. InvFirst(J, blocks)
  <2>1. m.kind # "inv" /\ L[n].kind # "inv"
    BY <1>4
  <2> QED BY <1>1, <1>2, <1>3, <1>4, <2>1, InvFirstPut
<1>11. Typed(v, p, pongs, known, blocks, t)
  <2>1. v \in Seq(PeerMsg(t))
    BY <1>1, AppendProperties DEF Typed
  <2> QED BY <1>1, <1>2, <2>1 DEF Typed
<1> QED BY <1>8, <1>9, <1>10, <1>11 DEF Fine, J

-----------------------------------------------------------------------------
(***************************************************************************)
(* The blocks that come, and those that are asked for, are matched with    *)
(* the filter f; so is what will be asked for.                             *)
(***************************************************************************)
Reach(h, f) == {x \in Mined[h] : Pays[x] < f}

IsLoad(m) == m.kind = "filterload"

\* The peer has the filter f when it has answered what is before the i-th
\* request, and base before it answers any.
FilterAt(out, base, i, f) ==
  \/ \E j \in DOMAIN out :
       /\ j < i /\ IsLoad(out[j]) /\ out[j].height = f
       /\ \A k \in DOMAIN out : (j < k /\ k < i) => ~ IsLoad(out[k])
  \/ base = f /\ \A k \in DOMAIN out : k < i => ~ IsLoad(out[k])

Matching(w, out, base, f) ==
  /\ \A i \in DOMAIN w : w[i].kind = "merkleblock" => w[i].txs = Reach(w[i].height, f)
  /\ FilterAt(out, base, Len(out) + 1, f)
  /\ \A i \in DOMAIN out : Asks(out[i]) => FilterAt(out, base, i, f)

\* One request more is at the end.
Longer(out, p, m) ==
  /\ Len(out) \in Nat /\ DOMAIN out = 1 .. Len(out)
  /\ Len(p) = Len(out) + 1 /\ DOMAIN p = 1 .. (Len(out) + 1)
  /\ p[Len(out) + 1] = m /\ \A i \in DOMAIN out : p[i] = out[i]

LEMMA AppendLonger ==
  ASSUME NEW out \in Seq(Msg), NEW m \in Msg
  PROVE  Longer(out, Append(out, m), m)
<1> HIDE DEF Msg
<1>1. /\ Append(out, m) \in Seq(Msg) /\ Len(Append(out, m)) = Len(out) + 1
      /\ Append(out, m)[Len(out) + 1] = m
      /\ \A i \in 1 .. Len(out) : Append(out, m)[i] = out[i]
  BY AppendProperties
<1> QED BY <1>1, LenProperties DEF Longer

LEMMA FilterAtLonger ==
  ASSUME NEW out, NEW p, NEW m, Longer(out, p, m), NEW base, NEW f,
         NEW i \in 1 .. (Len(out) + 1), FilterAt(out, base, i, f)
  PROVE  FilterAt(p, base, i, f)
<1> HIDE DEF IsLoad
<1>1. \A k \in DOMAIN p : k < i => (k \in DOMAIN out /\ p[k] = out[k])
  BY DEF Longer
<1>2. \A k \in DOMAIN out : k \in DOMAIN p /\ p[k] = out[k]
  BY DEF Longer
<1>3. CASE base = f /\ \A k \in DOMAIN out : k < i => ~ IsLoad(out[k])
  BY <1>1, <1>3 DEF FilterAt
<1>4. ASSUME NEW j \in DOMAIN out, j < i, IsLoad(out[j]), out[j].height = f,
             \A k \in DOMAIN out : (j < k /\ k < i) => ~ IsLoad(out[k])
      PROVE  FilterAt(p, base, i, f)
  <2>1. j \in DOMAIN p /\ IsLoad(p[j]) /\ p[j].height = f
    BY <1>2, <1>4
  <2>2. \A k \in DOMAIN p : (j < k /\ k < i) => ~ IsLoad(p[k])
    BY <1>1, <1>4
  <2> QED BY <1>4, <2>1, <2>2 DEF FilterAt
<1> QED BY <1>3, <1>4 DEF FilterAt

LEMMA MatchSent ==
  ASSUME NEW w, NEW out \in Seq(Msg), NEW base, NEW f, Matching(w, out, base, f),
         NEW m \in Msg, ~ IsLoad(m)
  PROVE  Matching(w, Append(out, m), base, f)
<1> DEFINE p == Append(out, m)
           n == Len(out) + 1
<1>1. Longer(out, p, m)
  BY AppendLonger
<1> HIDE DEF Msg, IsLoad, Asks, p
<1>2. Len(out) \in Nat /\ DOMAIN p = 1 .. n /\ Len(p) = n /\ p[n] = m
      /\ DOMAIN out = 1 .. Len(out) /\ \A i \in DOMAIN out : p[i] = out[i]
  BY <1>1 DEF Longer
<1>3. \A i \in 1 .. n : FilterAt(out, base, i, f) => FilterAt(p, base, i, f)
  BY <1>1, FilterAtLonger
<1>4. FilterAt(p, base, n, f)
  BY <1>2, <1>3 DEF Matching
<1>5. FilterAt(p, base, n + 1, f)
  <2>1. \A k \in DOMAIN p : k < n + 1 => k < n \/ k = n
    BY <1>2
  <2>2. CASE base = f /\ \A k \in DOMAIN p : k < n => ~ IsLoad(p[k])
    BY <1>2, <2>1, <2>2 DEF FilterAt
  <2>3. ASSUME NEW j \in DOMAIN p, j < n, IsLoad(p[j]), p[j].height = f,
               \A k \in DOMAIN p : (j < k /\ k < n) => ~ IsLoad(p[k])
        PROVE  FilterAt(p, base, n + 1, f)
    <3>1. j < n + 1
      BY <1>2, <2>3
    <3>2. \A k \in DOMAIN p : (j < k /\ k < n + 1) => ~ IsLoad(p[k])
      BY <1>2, <2>1, <2>3
    <3> QED BY <2>3, <3>1, <3>2 DEF FilterAt
  <2> QED BY <1>4, <2>2, <2>3 DEF FilterAt
<1>6. ASSUME NEW i \in DOMAIN p, Asks(p[i]) PROVE FilterAt(p, base, i, f)
  <2>1. CASE i = n
    BY <1>4, <2>1
  <2>2. CASE i # n
    <3>1. i \in DOMAIN out /\ p[i] = out[i] /\ i \in 1 .. n
      BY <1>2, <2>2
    <3>2. FilterAt(out, base, i, f)
      BY <1>6, <3>1 DEF Matching
    <3> QED BY <1>3, <3>1, <3>2
  <2> QED BY <2>1, <2>2
<1>7. \A i \in DOMAIN w : w[i].kind = "merkleblock" => w[i].txs = Reach(w[i].height, f)
  BY DEF Matching
<1> HIDE DEF FilterAt
<1>8. FilterAt(p, base, Len(p) + 1, f)
  BY <1>2, <1>5
<1> QED BY <1>6, <1>7, <1>8 DEF Matching, p

\* A filter is sent: blocks are asked for on it only, or on the same one.
LEMMA MatchLoaded ==
  ASSUME NEW w, NEW out \in Seq(Msg), NEW base, NEW f,
         NEW m \in Msg, IsLoad(m), m.height = f,
         \/ Matching(w, out, base, f)
         \/ /\ \A i \in DOMAIN w : w[i].kind # "merkleblock"
            /\ \A i \in DOMAIN out : ~ Asks(out[i])
  PROVE  Matching(w, Append(out, m), base, f)
<1> DEFINE p == Append(out, m)
           n == Len(out) + 1
<1>1. Longer(out, p, m)
  BY AppendLonger
<1>9. ~ Asks(m)
  BY DEF IsLoad, Asks
<1> HIDE DEF Msg, IsLoad, Asks, p
<1>2. Len(out) \in Nat /\ DOMAIN p = 1 .. n /\ Len(p) = n /\ p[n] = m
      /\ DOMAIN out = 1 .. Len(out) /\ \A i \in DOMAIN out : p[i] = out[i]
  BY <1>1 DEF Longer
<1>3. \A i \in 1 .. n : FilterAt(out, base, i, f) => FilterAt(p, base, i, f)
  BY <1>1, FilterAtLonger
<1>5. FilterAt(p, base, n + 1, f)
  <2>1. \A k \in DOMAIN p : ~ (n < k /\ k < n + 1)
    BY <1>2
  <2>2. n \in DOMAIN p /\ n < n + 1
    BY <1>2
  <2> QED BY <1>2, <2>1, <2>2 DEF FilterAt
<1>6. ASSUME NEW i \in DOMAIN p, Asks(p[i]) PROVE FilterAt(p, base, i, f)
  <2>2. i # n
    BY <1>2, <1>6, <1>9
  <2>3. i \in DOMAIN out /\ p[i] = out[i] /\ i \in 1 .. n
    BY <1>2, <2>2
  <2>4. FilterAt(out, base, i, f)
    BY <1>6, <2>3 DEF Matching
  <2> QED BY <1>3, <2>3, <2>4
<1>7. \A i \in DOMAIN w : w[i].kind = "merkleblock" => w[i].txs = Reach(w[i].height, f)
  BY DEF Matching
<1> HIDE DEF FilterAt
<1>8. FilterAt(p, base, Len(p) + 1, f)
  BY <1>2, <1>5
<1> QED BY <1>6, <1>7, <1>8 DEF Matching, p

LEMMA MatchArrived ==
  ASSUME NEW w \in Seq(Msg), w # <<>>, NEW out, NEW base, NEW f, Matching(w, out, base, f)
  PROVE  Matching(Tail(w), out, base, f)
<1> HIDE DEF Msg
<1> DEFINE v == Tail(w)
<1>1. v \in Seq(Msg) /\ Len(v) = Len(w) - 1 /\ \A i \in 1 .. Len(v) : v[i] = w[i + 1]
  BY HeadTailProperties
<1>2. DOMAIN w = 1 .. Len(w) /\ DOMAIN v = 1 .. Len(v) /\ Len(w) \in Nat
  BY <1>1, LenProperties
<1> HIDE DEF v
<1>3. \A i \in DOMAIN v : i + 1 \in DOMAIN w /\ v[i] = w[i + 1]
  BY <1>1, <1>2
<1>4. \A i \in DOMAIN v : v[i].kind = "merkleblock" => v[i].txs = Reach(v[i].height, f)
  BY <1>3 DEF Matching
<1> QED BY <1>4 DEF Matching, v

LEMMA MatchPushed ==
  ASSUME NEW w \in Seq(Msg), NEW out, NEW base, NEW f, Matching(w, out, base, f),
         NEW m \in Msg, m.kind = "merkleblock" => m.txs = Reach(m.height, f)
  PROVE  Matching(Append(w, m), out, base, f)
<1> DEFINE v == Append(w, m)
<1>1. Longer(w, v, m)
  BY AppendLonger
<1> HIDE DEF v
<1>2. \A i \in DOMAIN v : v[i] = m \/ (i \in DOMAIN w /\ v[i] = w[i])
  <2> HIDE DEF Msg
  <2>1. /\ Len(w) \in Nat /\ DOMAIN w = 1 .. Len(w) /\ DOMAIN v = 1 .. (Len(w) + 1)
        /\ v[Len(w) + 1] = m /\ \A i \in DOMAIN w : v[i] = w[i]
    BY <1>1 DEF Longer
  <2>2. \A i \in DOMAIN v : i = Len(w) + 1 \/ i \in DOMAIN w
    BY <2>1
  <2> QED BY <2>1, <2>2
<1>3. \A i \in DOMAIN v : v[i].kind = "merkleblock" => v[i].txs = Reach(v[i].height, f)
  BY <1>2 DEF Matching
<1> QED BY <1>3 DEF Matching, v

\* A request is done: a filter is the peer's then.
LEMMA MatchDone ==
  ASSUME NEW w, NEW out \in Seq(Msg), out # <<>>, NEW base, NEW f, Matching(w, out, base, f)
  PROVE  Matching(w, Tail(out), IF IsLoad(Head(out)) THEN Head(out).height ELSE base, f)
<1> HIDE DEF Msg, IsLoad, Asks
<1> DEFINE p == Tail(out)
           h == Head(out)
           g == IF IsLoad(h) THEN h.height ELSE base
<1>1. p \in Seq(Msg) /\ Len(p) = Len(out) - 1 /\ \A i \in 1 .. Len(p) : p[i] = out[i + 1]
  BY HeadTailProperties
<1>2. DOMAIN out = 1 .. Len(out) /\ DOMAIN p = 1 .. Len(p) /\ Len(out) \in Nat /\ Len(out) > 0
  BY <1>1, LenProperties, EmptySeq
<1>3. h = out[1]
  OBVIOUS
<1> HIDE DEF p, h
<1>4. \A i \in DOMAIN p : i + 1 \in DOMAIN out /\ p[i] = out[i + 1]
  BY <1>1, <1>2
<1>5. 1 \in DOMAIN out
  BY <1>2
<1>6. ASSUME NEW i \in 1 .. Len(out), FilterAt(out, base, i + 1, f) PROVE FilterAt(p, g, i, f)
  <2>1. CASE base = f /\ \A k \in DOMAIN out : k < i + 1 => ~ IsLoad(out[k])
    <3>1. ~ IsLoad(h)
      BY <1>3, <1>5, <2>1
    <3>2. \A k \in DOMAIN p : k < i => ~ IsLoad(p[k])
      BY <1>2, <1>4, <2>1
    <3> QED BY <2>1, <3>1, <3>2 DEF FilterAt
  <2>2. ASSUME NEW j \in DOMAIN out, j < i + 1, IsLoad(out[j]), out[j].height = f,
               \A k \in DOMAIN out : (j < k /\ k < i + 1) => ~ IsLoad(out[k])
        PROVE  FilterAt(p, g, i, f)
    <3>1. \A k \in DOMAIN p : (j < k + 1 /\ k < i) => ~ IsLoad(p[k])
      BY <1>2, <1>4, <2>2
    <3>2. CASE j = 1
      <4>1. g = f
        BY <1>3, <2>2, <3>2
      <4>2. \A k \in DOMAIN p : k < i => ~ IsLoad(p[k])
        BY <1>2, <3>1, <3>2
      <4> QED BY <4>1, <4>2 DEF FilterAt
    <3>3. CASE j # 1
      <4>1. j - 1 \in DOMAIN p /\ p[j - 1] = out[j] /\ j - 1 < i
        BY <1>1, <1>2, <2>2, <3>3
      <4>2. \A k \in DOMAIN p : (j - 1 < k /\ k < i) => ~ IsLoad(p[k])
        BY <1>2, <2>2, <3>1
      <4> QED BY <2>2, <4>1, <4>2 DEF FilterAt
    <3> QED BY <3>2, <3>3
  <2> QED BY <1>6, <2>1, <2>2 DEF FilterAt
<1> HIDE DEF g
<1>7. FilterAt(p, g, Len(p) + 1, f)
  <2>1. FilterAt(out, base, Len(out) + 1, f) /\ Len(p) + 1 = Len(out) /\ Len(out) \in 1 .. Len(out)
    BY <1>1, <1>2 DEF Matching
  <2> HIDE DEF FilterAt
  <2> QED BY <1>6, <2>1
<1>8. ASSUME NEW i \in DOMAIN p, Asks(p[i]) PROVE FilterAt(p, g, i, f)
  <2>1. i + 1 \in DOMAIN out /\ Asks(out[i + 1]) /\ i \in 1 .. Len(out)
    BY <1>1, <1>2, <1>4, <1>8
  <2>2. FilterAt(out, base, i + 1, f)
    BY <2>1 DEF Matching
  <2> HIDE DEF FilterAt
  <2> QED BY <1>6, <2>1, <2>2
<1>9. \A i \in DOMAIN w : w[i].kind = "merkleblock" => w[i].txs = Reach(w[i].height, f)
  BY DEF Matching
<1> HIDE DEF FilterAt
<1> QED BY <1>7, <1>8, <1>9 DEF Matching, p, g, h

LEMMA MatchLess ==
  ASSUME NEW w, NEW out \in Seq(Msg), out # <<>>, NEW base, NEW f, Matching(w, out, base, f),
         NEW m \in Msg, ~ IsLoad(m), ~ IsLoad(Head(out)), Asks(m) => Asks(Head(out))
  PROVE  Matching(w, Put(out, 1, m), base, f)
<1> HIDE DEF Msg, IsLoad, Asks
<1> DEFINE p == Put(out, 1, m)
<1>1. DOMAIN out = 1 .. Len(out) /\ Len(out) \in Nat /\ Len(out) > 0 /\ Head(out) = out[1]
  BY LenProperties, EmptySeq
<1>2. 1 \in 1 .. Len(out)
  BY <1>1
<1>3. p \in Seq(Msg) /\ Len(p) = Len(out) /\ \A i \in 1 .. Len(out) : p[i] = IF i = 1 THEN m ELSE out[i]
  BY <1>2, PutIs
<1>4. DOMAIN p = DOMAIN out
  BY <1>1, <1>3, LenProperties
<1> HIDE DEF p
<1>5. \A i \in DOMAIN out : (IsLoad(p[i]) <=> IsLoad(out[i])) /\ (IsLoad(p[i]) => p[i] = out[i])
      /\ (Asks(p[i]) => Asks(out[i]))
  BY <1>1, <1>3
<1>6. ASSUME NEW i, FilterAt(out, base, i, f) PROVE FilterAt(p, base, i, f)
  BY <1>4, <1>5, <1>6 DEF FilterAt
<1>9. \A i \in DOMAIN w : w[i].kind = "merkleblock" => w[i].txs = Reach(w[i].height, f)
  BY DEF Matching
<1> HIDE DEF FilterAt
<1>7. FilterAt(p, base, Len(p) + 1, f)
  BY <1>3, <1>6 DEF Matching
<1>8. ASSUME NEW i \in DOMAIN p, Asks(p[i]) PROVE FilterAt(p, base, i, f)
  BY <1>4, <1>5, <1>6, <1>8 DEF Matching
<1> QED BY <1>7, <1>8, <1>9 DEF Matching, p

\* The request that is answered next is matched with the peer's filter.
LEMMA MatchNext ==
  ASSUME NEW w, NEW out \in Seq(Msg), out # <<>>, NEW base, NEW f, Matching(w, out, base, f),
         Asks(Head(out))
  PROVE  base = f
<1> HIDE DEF Msg, IsLoad, Asks
<1>1. DOMAIN out = 1 .. Len(out) /\ Len(out) \in Nat /\ Len(out) > 0 /\ Head(out) = out[1]
  BY LenProperties, EmptySeq
<1>2. 1 \in DOMAIN out /\ \A j \in DOMAIN out : ~ (j < 1)
  BY <1>1
<1>3. FilterAt(out, base, 1, f)
  BY <1>1, <1>2 DEF Matching
<1> QED BY <1>2, <1>3 DEF FilterAt

\* A function of a finite set to the naturals is bounded.
LEMMA FiniteBound ==
  ASSUME NEW S, IsFiniteSet(S), NEW f \in [S -> Nat]
  PROVE  \E b \in Nat : \A x \in S : f[x] <= b
<1>1. PICK n \in Nat : ExistsSurjection(1 .. n, S)
  BY FS_NatSurjection
<1>2. PICK g \in [1 .. n -> S] : \A x \in S : \E i \in 1 .. n : g[i] = x
  BY <1>1 DEF ExistsSurjection, Surjection
<1> DEFINE Bounded(k) == \E b \in Nat : \A i \in 1 .. k : f[g[i]] <= b
           Bad == {k \in 0 .. n : ~ Bounded(k)}
<1>3. Bad = {}
  <2> SUFFICES ASSUME Bad # {} PROVE FALSE
    OBVIOUS
  <2>1. Bad \subseteq Nat
    OBVIOUS
  <2>2. Min(Bad) \in Bad /\ \A k \in Bad : Min(Bad) <= k
    <3> HIDE DEF Bad
    <3> QED BY <2>1, LeastNat
  <2>3. PICK k \in Bad : \A j \in Bad : k <= j
    BY <2>2
  <2>4. k # 0
    <3>1. 0 \in Nat /\ \A i \in 1 .. 0 : f[g[i]] <= 0
      OBVIOUS
    <3>2. Bounded(0)
      BY <3>1
    <3> QED BY <3>2, <2>3
  <2>5. k - 1 \in 0 .. n /\ k \in 1 .. n
    BY <2>3, <2>4
  <2>6. Bounded(k - 1)
    <3>1. ~ (k <= k - 1)
      BY <2>5
    <3>2. k - 1 \notin Bad
      BY <2>3, <3>1
    <3> QED BY <2>5, <3>2
  <2>7. PICK b \in Nat : \A i \in 1 .. (k - 1) : f[g[i]] <= b
    BY <2>6
  <2> DEFINE c == f[g[k]]
             d == IF c <= b THEN b ELSE c
  <2>8. c \in Nat
    BY <1>2, <2>5
  <2>9. d \in Nat /\ b <= d /\ c <= d
    <3> HIDE DEF c
    <3> QED BY <2>7, <2>8
  <2>10. ASSUME NEW i \in 1 .. k PROVE f[g[i]] <= d
    <3>1. CASE i = k
      BY <2>9, <3>1
    <3>2. CASE i # k
      <4>1. i \in 1 .. (k - 1) /\ i \in 1 .. n
        BY <2>5, <3>2
      <4>2. f[g[i]] <= b /\ f[g[i]] \in Nat
        BY <1>2, <2>7, <4>1
      <4>3. b \in Nat
        BY <2>7
      <4> HIDE DEF c, d
      <4> QED BY ONLY <2>9, <4>2, <4>3
    <3> QED BY <3>1, <3>2
  <2>11. Bounded(k)
    BY <2>9, <2>10
  <2> QED BY <2>3, <2>11
<1>4. Bounded(n)
  <2>1. n \in 0 .. n
    OBVIOUS
  <2> QED BY <1>3, <2>1
<1>5. PICK b \in Nat : \A i \in 1 .. n : f[g[i]] <= b
  BY <1>4
<1> QED BY <1>2, <1>5

-----------------------------------------------------------------------------
LEMMA Assumed ==
  /\ Pays \in [Tx -> Nat] /\ IsFiniteSet(Tx)
  /\ Gap \in Nat /\ Spare \in Nat /\ Batch \in Nat /\ Batch > 0 /\ Margin \in Nat
  /\ MaxSessions \in Nat /\ Begin \in 0 .. Tip /\ Tip \in Heights /\ Tip \in Nat
  /\ Begin \in Nat /\ MinedBy(Begin) = {} /\ Announced \subseteq Tx
BY FilterAssumption, MinedSeq

LEMMA HighestIs ==
  ASSUME NEW S \in SUBSET Tx
  PROVE  /\ Highest(S) \in Int /\ Highest(S) >= -1
         /\ \A x \in S : Pays[x] <= Highest(S)
         /\ Highest(S) = -1 \/ \E x \in S : Highest(S) = Pays[x]
<1>1. CASE S = {}
  BY <1>1 DEF Highest
<1>2. CASE S # {}
  <2> DEFINE P == {Pays[x] : x \in S}
  <2>1. PICK b \in Nat : \A x \in Tx : Pays[x] <= b
    BY Assumed, FiniteBound
  <2>2. P \subseteq Int /\ P # {} /\ \A y \in P : y <= b
    BY <1>2, <2>1, Assumed
  <2>3. Max(P) \in P /\ \A y \in P : y <= Max(P)
    <3>1. b \in Int
      BY <2>1
    <3> HIDE DEF P
    <3> QED BY <2>2, <3>1, GreatestInt
  <2>4. Highest(S) = Max(P)
    BY <1>2 DEF Highest
  <2>5. PICK x \in S : Max(P) = Pays[x]
    BY <2>3
  <2>6. Pays[x] \in Nat
    BY Assumed
  <2> HIDE DEF P
  <2>7. \A y \in S : Pays[y] \in P
    BY DEF P
  <2> QED BY <2>3, <2>4, <2>5, <2>6, <2>7
<1> QED BY <1>1, <1>2

LEMMA HighestGrows ==
  ASSUME NEW T \in SUBSET Tx, NEW S \in SUBSET T
  PROVE  Highest(S) <= Highest(T)
<1>1. S \in SUBSET Tx
  OBVIOUS
<1>2. Highest(S) \in Int /\ (Highest(S) = -1 \/ \E x \in S : Highest(S) = Pays[x])
  BY <1>1, HighestIs
<1>3. Highest(T) \in Int /\ Highest(T) >= -1 /\ \A x \in T : Pays[x] <= Highest(T)
  BY HighestIs
<1> QED BY <1>2, <1>3

LEMMA FilterIs ==
  ASSUME NEW S \in SUBSET Tx
  PROVE  Filter(S) \in Nat /\ Highest(S) + 1 + Gap \in Nat /\ Highest(S) + 1 + Gap <= Filter(S)
<1>1. Highest(S) \in Int /\ Highest(S) >= -1
  BY HighestIs
<1> QED BY <1>1, Assumed DEF Filter

LEMMA FilterGrows ==
  ASSUME NEW T \in SUBSET Tx, NEW S \in SUBSET T
  PROVE  Filter(S) <= Filter(T)
<1>1. S \in SUBSET Tx
  OBVIOUS
<1>2. Highest(S) \in Int /\ Highest(T) \in Int /\ Highest(S) <= Highest(T)
  BY <1>1, HighestIs, HighestGrows
<1> QED BY <1>2, Assumed DEF Filter

\* The greater of two numbers.
LEMMA MaxTwo ==
  ASSUME NEW a \in Int, NEW b \in Int
  PROVE  Max({a, b}) = IF a <= b THEN b ELSE a
<1> DEFINE S == {a, b}
           n == IF a <= b THEN b ELSE a
<1>1. S \subseteq Int /\ S # {} /\ n \in Int /\ n \in S /\ \A x \in S : x <= n
  OBVIOUS
<1>2. Max(S) \in S /\ \A x \in S : x <= Max(S)
  <2> HIDE DEF S, n
  <2> QED BY <1>1, GreatestInt
<1> QED BY <1>1, <1>2

LEMMA MinedByIs ==
  /\ MinedBy(0) = {}
  /\ \A h \in Heights : MinedBy(h) = MinedBy(h - 1) \cup Mined[h]
  /\ \A h \in 0 .. Len(Mined) : MinedBy(h) \subseteq Tx
  /\ \A g, h \in 0 .. Len(Mined) : g <= h => MinedBy(g) \subseteq MinedBy(h)
<1>0. Len(Mined) \in Nat /\ Heights = 1 .. Len(Mined) /\ \A h \in Heights : Mined[h] \in SUBSET Tx
  BY MinedSeq
<1>1. MinedBy(0) = {}
  BY DEF MinedBy
<1>2. ASSUME NEW h \in Heights PROVE MinedBy(h) = MinedBy(h - 1) \cup Mined[h]
  <2>1. 1 .. h = 1 .. (h - 1) \cup {h}
    BY <1>0
  <2> QED BY <2>1 DEF MinedBy
<1>3. ASSUME NEW h \in 0 .. Len(Mined) PROVE MinedBy(h) \subseteq Tx
  <2>1. 1 .. h \subseteq Heights
    BY <1>0
  <2> QED BY <1>0, <2>1 DEF MinedBy
<1>4. ASSUME NEW g \in 0 .. Len(Mined), NEW h \in 0 .. Len(Mined), g <= h
      PROVE  MinedBy(g) \subseteq MinedBy(h)
  <2>1. 1 .. g \subseteq 1 .. h
    BY <1>0, <1>4
  <2> QED BY <2>1 DEF MinedBy
<1> QED BY <1>1, <1>2, <1>3, <1>4

(***************************************************************************)
(* When the wallet has what was paid before a block and what the filter    *)
(* reaches in it, and the filter has all addresses that may come next, the *)
(* block pays the wallet nothing the filter does not reach: the payment to *)
(* the least address it does not reach would be too far from the others.   *)
(***************************************************************************)
LEMMA AllReached ==
  ASSUME NEW h \in Heights, NEW xs \in SUBSET Tx, NEW f \in Nat,
         MinedBy(h - 1) \subseteq xs, Reach(h, f) \subseteq xs, Highest(xs) + 1 + Gap <= f
  PROVE  Mined[h] = Reach(h, f)
<1> DEFINE Missed == {Pays[x] : x \in Mined[h] \ Reach(h, f)}
<1>1. Mined[h] \subseteq Tx
  BY MinedSeq
<1>2. SUFFICES ASSUME Missed # {} PROVE FALSE
  BY DEF Reach
<1>3. Missed \subseteq Nat
  BY <1>1, Assumed
<1>4. Min(Missed) \in Missed /\ \A y \in Missed : Min(Missed) <= y
  <2> HIDE DEF Missed
  <2> QED BY <1>2, <1>3, LeastNat
<1>5. PICK t \in Mined[h] \ Reach(h, f) : Min(Missed) = Pays[t]
  BY <1>4
<1>6. \A u \in Mined[h] \ Reach(h, f) : Pays[t] <= Pays[u]
  BY <1>4, <1>5
<1> DEFINE below == {u \in MinedBy(h) : Pays[u] < Pays[t]}
<1>7. below \subseteq xs
  <2> SUFFICES ASSUME NEW u \in MinedBy(h), Pays[u] < Pays[t], u \notin MinedBy(h - 1) PROVE u \in xs
    OBVIOUS
  <2>1. u \in Mined[h]
    BY MinedByIs
  <2>2. Pays[u] \in Nat /\ Pays[t] \in Nat
    BY <1>1, <2>1, Assumed
  <2>3. u \in Reach(h, f)
    BY <1>6, <2>1, <2>2
  <2> QED BY <2>3
<1>8. Pays[t] <= Highest(below) + Gap
  BY <1>5, FilterAssumption
<1>9. below \in SUBSET xs /\ below \in SUBSET Tx
  BY <1>7
<1> HIDE DEF below
<1>10. Highest(below) <= Highest(xs)
  BY <1>9, HighestGrows
<1>11. Highest(below) \in Int /\ Highest(xs) \in Int
  BY <1>9, HighestIs
<1>12. Pays[t] \in Nat /\ ~ (Pays[t] < f)
  BY <1>1, <1>5, Assumed DEF Reach
<1> QED BY <1>8, <1>10, <1>11, <1>12, Assumed

-----------------------------------------------------------------------------
\* While the filter is replaced one callback will go on with it.
Replacing == {"updateFilterPingDone", "updateFilterLoadDone"}

Updating(needs, pongs) ==
  /\ needs <=> \E k \in DOMAIN pongs : pongs[k] \in Replacing
  /\ \A k, l \in DOMAIN pongs : pongs[k] \in Replacing /\ pongs[l] \in Replacing => k = l

LEMMA UpdatingAppended ==
  ASSUME NEW needs \in BOOLEAN, NEW pongs \in Seq(Callbacks), NEW callback \in Callbacks,
         Updating(needs, pongs)
  PROVE  /\ callback \notin Replacing => Updating(needs, Append(pongs, callback))
         /\ (callback \in Replacing /\ ~ needs) => Updating(TRUE, Append(pongs, callback))
<1> HIDE DEF Callbacks, Replacing
<1> DEFINE p == Append(pongs, callback)
           z == Len(pongs) + 1
<1>1. /\ Len(pongs) \in Nat /\ DOMAIN pongs = 1 .. Len(pongs) /\ p \in Seq(Callbacks)
      /\ Len(p) = z /\ p[z] = callback /\ \A k \in 1 .. Len(pongs) : p[k] = pongs[k]
  BY AppendProperties, LenProperties
<1>2. DOMAIN p = 1 .. z
  BY <1>1, LenProperties
<1> HIDE DEF p
<1>3. /\ z \in DOMAIN p /\ z \notin DOMAIN pongs
      /\ \A k \in DOMAIN pongs : k \in DOMAIN p /\ p[k] = pongs[k]
      /\ \A k \in DOMAIN p : k = z \/ k \in DOMAIN pongs
  BY <1>1, <1>2
<1> HIDE DEF z
<1> QED BY <1>1, <1>3 DEF Updating, p

LEMMA UpdatingTail ==
  ASSUME NEW needs \in BOOLEAN, NEW pongs \in Seq(Callbacks), pongs # <<>>, Updating(needs, pongs)
  PROVE  /\ Head(pongs) \notin Replacing => Updating(needs, Tail(pongs))
         /\ Head(pongs) \in Replacing => needs /\ Updating(FALSE, Tail(pongs))
<1> HIDE DEF Callbacks, Replacing
<1> DEFINE p == Tail(pongs)
<1>1. /\ p \in Seq(Callbacks) /\ Len(p) = Len(pongs) - 1 /\ Len(pongs) \in Nat
      /\ \A k \in 1 .. Len(p) : p[k] = pongs[k + 1]
  BY HeadTailProperties, LenProperties
<1>2. DOMAIN p = 1 .. Len(p) /\ DOMAIN pongs = 1 .. Len(pongs) /\ Head(pongs) = pongs[1] /\ Len(pongs) > 0
  BY <1>1, LenProperties, EmptySeq
<1> HIDE DEF p
<1>3. /\ 1 \in DOMAIN pongs
      /\ \A k \in DOMAIN p : k + 1 \in DOMAIN pongs /\ p[k] = pongs[k + 1] /\ k + 1 # 1
  BY <1>1, <1>2
<1>4. \A k \in DOMAIN pongs : k # 1 => \E j \in DOMAIN p : p[j] = pongs[k]
  <2> SUFFICES ASSUME NEW k \in DOMAIN pongs, k # 1 PROVE \E j \in DOMAIN p : p[j] = pongs[k]
    OBVIOUS
  <2>1. k - 1 \in DOMAIN p /\ k - 1 + 1 = k
    BY <1>1, <1>2
  <2> QED BY <1>3, <2>1
<1>5. \A k, l \in DOMAIN p : p[k] \in Replacing /\ p[l] \in Replacing => k = l
  <2> SUFFICES ASSUME NEW k \in DOMAIN p, NEW l \in DOMAIN p, p[k] \in Replacing, p[l] \in Replacing
               PROVE  k = l
    OBVIOUS
  <2>1. k + 1 = l + 1
    BY <1>3 DEF Updating
  <2> QED BY <1>1, <1>2, <2>1
<1>6. ASSUME Head(pongs) \notin Replacing PROVE Updating(needs, p)
  <2>1. needs <=> \E k \in DOMAIN p : p[k] \in Replacing
    BY <1>2, <1>3, <1>4, <1>6 DEF Updating
  <2> QED BY <1>5, <2>1 DEF Updating
<1>7. ASSUME Head(pongs) \in Replacing PROVE needs /\ Updating(FALSE, p)
  <2>1. needs /\ \A k \in DOMAIN p : p[k] \notin Replacing
    BY <1>2, <1>3, <1>7 DEF Updating
  <2> QED BY <1>5, <2>1 DEF Updating
<1> QED BY <1>6, <1>7 DEF p

LEMMA NotReplacing ==
  ASSUME NEW pongs, Updating(FALSE, pongs)
  PROVE  \A k \in DOMAIN pongs : pongs[k] # "updateFilterPingDone"
BY DEF Updating, Replacing

-----------------------------------------------------------------------------
BlockType(t) ==
  {b \in [height : 0 .. t, txs : SUBSET Tx, missing : SUBSET Tx] :
     IF b.height = 0 THEN b = Nothing ELSE b.txs \subseteq Mined[b.height]}

ConnType(t) ==
  [up : BOOLEAN, lastblock : 0 .. t, needs : BOOLEAN, known : SUBSET Tx, blocks : Seq(1 .. t),
   lastHash : Nat, current : BlockType(t), timer : BOOLEAN, out : Seq(ClientMsg(t)),
   sentMempool : BOOLEAN, pongs : Seq(Callbacks), filter : Nat]

\* A connection as the client keeps it, with w on the wire.
Joined(c, w, t, xs) ==
  /\ c \in ConnType(t)
  /\ Fine(w, c.out, c.pongs, c.known, c.blocks, t, xs)
  /\ Updating(c.needs, c.pongs)

\* Nothing is changed but requests and what is waited for.
Rest(c, d) ==
  /\ d.up = c.up /\ d.current = c.current /\ d.filter = c.filter /\ d.lastblock = c.lastblock

\* No filter is sent.
Matches(c, d, w) ==
  \A f : Matching(w, c.out, c.filter, f) => Matching(w, d.out, d.filter, f)

LEMMA SendIs ==
  ASSUME NEW t, NEW c \in ConnType(t), NEW m \in ClientMsg(t)
  PROVE  /\ Send(c, m) \in ConnType(t) /\ Rest(c, Send(c, m))
         /\ Send(c, m).out = Append(c.out, m) /\ Send(c, m).pongs = c.pongs
         /\ Send(c, m).known = c.known /\ Send(c, m).blocks = c.blocks
         /\ Send(c, m).needs = c.needs
<1> DEFINE p == Append(c.out, m)
<1> HIDE DEF ClientMsg, BlockType, Callbacks
<1>1. p \in Seq(ClientMsg(t))
  BY AppendProperties DEF ConnType
<1>2. Send(c, m) = [c EXCEPT !.out = p]
  BY DEF Send
<1> HIDE DEF p
<1> QED BY <1>1, <1>2 DEF ConnType, Rest, p

LEMMA JoinedIs ==
  ASSUME NEW c, NEW w, NEW t, NEW xs, Joined(c, w, t, xs)
  PROVE  /\ c \in ConnType(t) /\ Typed(w, c.out, c.pongs, c.known, c.blocks, t)
         /\ w \in Seq(Msg) /\ c.out \in Seq(Msg) /\ t \in Heights /\ t \in Nat
         /\ c.pongs \in Seq(Callbacks) /\ c.needs \in BOOLEAN /\ c.known \in SUBSET Tx
         /\ c.blocks \in Seq(1 .. t) /\ c.lastblock \in 0 .. t /\ c.out \in Seq(ClientMsg(t))
         /\ 1 .. t \subseteq Heights
<1>1. Typed(w, c.out, c.pongs, c.known, c.blocks, t) /\ c \in ConnType(t)
  BY DEF Joined, Fine
<1> HIDE DEF Msg, PeerMsg, ClientMsg, Callbacks, BlockType
<1>2. /\ w \in Seq(Msg) /\ c.out \in Seq(Msg) /\ t \in Nat /\ 1 .. t \subseteq Heights
  BY <1>1, TypedIs
<1>3. /\ t \in Heights /\ c.pongs \in Seq(Callbacks) /\ c.known \in SUBSET Tx
      /\ c.blocks \in Seq(1 .. t) /\ c.out \in Seq(ClientMsg(t))
  BY <1>1 DEF Typed
<1>4. c.needs \in BOOLEAN /\ c.lastblock \in 0 .. t
  BY <1>1 DEF ConnType
<1> QED BY <1>1, <1>2, <1>3, <1>4

\* A request for no blocks, or for remembered ones while the filter is not
\* replaced.
LEMMA Requested ==
  ASSUME NEW c, NEW w, NEW t, NEW xs, Joined(c, w, t, xs), NEW m \in ClientMsg(t),
         ~ IsPing(m), ~ IsLoad(m),
         Asks(m) => Updating(FALSE, c.pongs) /\ Range(m.blocks) \subseteq Range(c.blocks)
  PROVE  Joined(Send(c, m), w, t, xs) /\ Rest(c, Send(c, m)) /\ Matches(c, Send(c, m), w)
<1> DEFINE d == Send(c, m)
<1>1. c \in ConnType(t) /\ w \in Seq(Msg) /\ c.out \in Seq(Msg) /\ m \in Msg
  BY JoinedIs DEF ClientMsg
<1>2. /\ d \in ConnType(t) /\ Rest(c, d) /\ d.out = Append(c.out, m) /\ d.pongs = c.pongs
      /\ d.known = c.known /\ d.blocks = c.blocks /\ d.needs = c.needs
  BY <1>1, SendIs
<1> HIDE DEF d
<1>3. Fine(w, c.out, c.pongs, c.known, c.blocks, t, xs) /\ Updating(c.needs, c.pongs)
  BY DEF Joined
<1>4. Asks(m) => /\ \A k \in DOMAIN c.pongs : c.pongs[k] # "updateFilterPingDone"
                 /\ Range(m.blocks) \subseteq Range(c.blocks)
  BY NotReplacing
<1> HIDE DEF IsPing, IsLoad, Asks, Msg, ClientMsg
<1>5. Fine(w, Append(c.out, m), c.pongs, c.known \cup {}, c.blocks, t, xs)
  BY <1>3, <1>4, FineSent
<1>6. c.known \cup {} = c.known
  OBVIOUS
<1>7. \A f : Matching(w, c.out, c.filter, f) => Matching(w, d.out, d.filter, f)
  BY <1>1, <1>2, MatchSent DEF Rest
<1>8. Joined(d, w, t, xs)
  BY <1>2, <1>3, <1>5, <1>6 DEF Joined
<1> QED BY <1>2, <1>7, <1>8 DEF Matches, d

\* A message for which only the kind and the height count.
LEMMA PlainIs ==
  ASSUME NEW t \in Heights, NEW kind \in {"filterload", "ping", "getblocks", "mempool"},
         NEW height \in Nat, kind = "getblocks" => height <= t
  PROVE  /\ Message(kind, height, <<>>, {}) \in ClientMsg(t)
         /\ Message(kind, height, <<>>, {}).kind = kind
         /\ Message(kind, height, <<>>, {}).height = height
         /\ ~ Asks(Message(kind, height, <<>>, {}))
<1>1. <<>> \in Seq(Heights) /\ <<>> \in Seq(1 .. t) /\ kind \in Kinds
  BY EmptySeq DEF Kinds
<1>2. Message(kind, height, <<>>, {}) \in Msg
  BY <1>1 DEF Message, Msg
<1> HIDE DEF Msg
<1> QED BY <1>1, <1>2 DEF Message, ClientMsg, Asks

LEMMA GetblocksSent ==
  ASSUME NEW c, NEW w, NEW t, NEW xs, Joined(c, w, t, xs), NEW h \in 0 .. t
  PROVE  LET d == SendGetblocks(c, h) IN Joined(d, w, t, xs) /\ Rest(c, d) /\ Matches(c, d, w)
<1> DEFINE m == Message("getblocks", h, <<>>, {})
<1>0. t \in Heights /\ t \in Nat
  BY JoinedIs
<1>1. m \in ClientMsg(t) /\ m.kind = "getblocks" /\ ~ Asks(m)
  BY <1>0, PlainIs
<1> HIDE DEF m
<1>2. ~ IsPing(m) /\ ~ IsLoad(m)
  BY <1>1 DEF IsPing, IsLoad
<1>3. SendGetblocks(c, h) = Send(c, m)
  BY DEF SendGetblocks, m
<1> QED BY <1>1, <1>2, <1>3, Requested

LEMMA MempoolSent ==
  ASSUME NEW c, NEW w, NEW t, NEW xs, Joined(c, w, t, xs)
  PROVE  LET d == SendMempool(c) IN Joined(d, w, t, xs) /\ Rest(c, d) /\ Matches(c, d, w)
<1> DEFINE m == Message("mempool", 0, <<>>, {})
           b == [c EXCEPT !.sentMempool = TRUE]
<1>0. t \in Heights /\ t \in Nat
  BY JoinedIs
<1>1. m \in ClientMsg(t) /\ m.kind = "mempool" /\ ~ Asks(m)
  BY <1>0, PlainIs
<1> HIDE DEF m
<1>2. ~ IsPing(m) /\ ~ IsLoad(m)
  BY <1>1 DEF IsPing, IsLoad
<1>3. SendMempool(c) = IF c.sentMempool THEN c ELSE Send(b, m)
  BY DEF SendMempool, m
<1>4. /\ b \in ConnType(t) /\ Rest(c, b) /\ b.out = c.out /\ b.pongs = c.pongs
      /\ b.known = c.known /\ b.blocks = c.blocks /\ b.needs = c.needs
  <2> HIDE DEF ClientMsg, BlockType, Callbacks
  <2> QED BY DEF Joined, ConnType, Rest
<1> HIDE DEF b
<1>5. Joined(b, w, t, xs)
  BY <1>4 DEF Joined
<1>6. Joined(Send(b, m), w, t, xs) /\ Rest(b, Send(b, m)) /\ Matches(b, Send(b, m), w)
  BY <1>1, <1>2, <1>5, Requested
<1>7. Rest(c, c) /\ Matches(c, c, w)
  BY DEF Rest, Matches
<1>8. Rest(c, Send(b, m)) /\ Matches(c, Send(b, m), w)
  BY <1>4, <1>6 DEF Rest, Matches
<1> QED BY <1>3, <1>6, <1>7, <1>8

LEMMA GetdataSent ==
  ASSUME NEW c, NEW w, NEW t, NEW xs, Joined(c, w, t, xs), NEW blocks \in Seq(1 .. t),
         NEW txs \in SUBSET Tx,
         blocks # <<>> => Updating(FALSE, c.pongs) /\ Range(blocks) \subseteq Range(c.blocks)
  PROVE  LET d == SendGetdata(c, blocks, txs)
         IN Joined(d, w, t, xs) /\ Rest(c, d) /\ Matches(c, d, w)
<1> DEFINE m == Message("getdata", 0, blocks, txs)
<1>0. t \in Heights /\ t \in Nat
  BY JoinedIs
<1>1. m \in ClientMsg(t) /\ m.kind = "getdata" /\ m.blocks = blocks
  <2>1. blocks \in Seq(Heights) /\ "getdata" \in Kinds
    BY <1>0, SeqHeights DEF Kinds
  <2>2. m \in Msg /\ m.kind = "getdata" /\ m.blocks = blocks
    BY <2>1 DEF Message, Msg
  <2> HIDE DEF m, Msg
  <2> QED BY <2>2 DEF ClientMsg
<1> HIDE DEF m
<1>2. ~ IsPing(m) /\ ~ IsLoad(m) /\ (Asks(m) => blocks # <<>>)
  BY <1>1 DEF IsPing, IsLoad, Asks
<1>3. SendGetdata(c, blocks, txs) = IF blocks = <<>> /\ txs = {} THEN c ELSE Send(c, m)
  BY DEF SendGetdata, m
<1>6. Joined(Send(c, m), w, t, xs) /\ Rest(c, Send(c, m)) /\ Matches(c, Send(c, m), w)
  BY <1>1, <1>2, Requested
<1>7. Rest(c, c) /\ Matches(c, c, w)
  BY DEF Rest, Matches
<1> QED BY <1>3, <1>6, <1>7

LEMMA BlocksRerequested ==
  ASSUME NEW c, NEW w, NEW t, NEW xs, Joined(c, w, t, xs), ~ c.needs, NEW h
  PROVE  LET d == RerequestBlocks(c, h) IN Joined(d, w, t, xs) /\ Rest(c, d) /\ Matches(c, d, w)
<1> DEFINE at == {i \in DOMAIN c.blocks : c.blocks[i] = h}
           from == SubSeq(c.blocks, Max(at), Len(c.blocks))
           b == [c EXCEPT !.blocks = from]
<1>0. t \in Heights /\ t \in Nat /\ c.blocks \in Seq(1 .. t) /\ c.needs = FALSE
  BY JoinedIs
<1>1. RerequestBlocks(c, h) = IF at = {} THEN c ELSE SendGetdata(b, from, {})
  BY DEF RerequestBlocks
<1>2. ASSUME at # {} PROVE from \in Seq(1 .. t) /\ Range(from) \subseteq Range(c.blocks)
  <2>1. DOMAIN c.blocks = 1 .. Len(c.blocks) /\ Len(c.blocks) \in Nat
    BY <1>0, LenProperties
  <2>2. at \subseteq Int /\ \A i \in at : i <= Len(c.blocks)
    BY <2>1
  <2>3. Max(at) \in at
    <3> HIDE DEF at
    <3>1. Len(c.blocks) \in Int
      BY <2>1
    <3> QED BY <1>2, <2>2, <3>1, GreatestInt
  <2>4. Max(at) \in 1 .. Len(c.blocks)
    BY <2>1, <2>3
  <2> DEFINE a == Max(at)
             n == Len(c.blocks)
  <2>5. a \in 1 .. n /\ n \in Nat
    BY <2>1, <2>4
  <2> HIDE DEF a, at
  <2>6. /\ SubSeq(c.blocks, a, n) \in Seq(1 .. t) /\ Len(SubSeq(c.blocks, a, n)) = n - a + 1
        /\ \A i \in 1 .. (n - a + 1) : SubSeq(c.blocks, a, n)[i] = c.blocks[a + i - 1]
    BY <1>0, <2>5, SubSeqProperties
  <2>7. DOMAIN SubSeq(c.blocks, a, n) = 1 .. (n - a + 1)
    BY <2>6, LenProperties
  <2>8. Range(SubSeq(c.blocks, a, n)) \subseteq Range(c.blocks)
    <3> SUFFICES ASSUME NEW i \in 1 .. (n - a + 1)
                 PROVE  SubSeq(c.blocks, a, n)[i] \in Range(c.blocks)
      BY <2>7 DEF Range
    <3>1. a + i - 1 \in DOMAIN c.blocks
      BY <2>1, <2>5
    <3>2. c.blocks[a + i - 1] \in Range(c.blocks)
      BY <3>1 DEF Range
    <3> QED BY <2>6, <3>2
  <2> QED BY <2>6, <2>8 DEF a
<1> HIDE DEF from, at
<1>3. ASSUME at # {}
      PROVE  /\ Joined(SendGetdata(b, from, {}), w, t, xs) /\ Rest(c, SendGetdata(b, from, {}))
             /\ Matches(c, SendGetdata(b, from, {}), w)
  <2>1. from \in Seq(1 .. t) /\ Range(from) \subseteq Range(c.blocks)
    BY <1>2, <1>3
  <2>2. /\ b \in ConnType(t) /\ Rest(c, b) /\ b.out = c.out /\ b.pongs = c.pongs
        /\ b.known = c.known /\ b.blocks = from /\ b.needs = c.needs
    <3> HIDE DEF ClientMsg, BlockType, Callbacks
    <3> QED BY <2>1 DEF Joined, ConnType, Rest
  <2> HIDE DEF b
  <2>3. Fine(w, c.out, c.pongs, c.known, from, t, xs)
    <3>1. Fine(w, c.out, c.pongs, c.known, c.blocks, t, xs)
      BY DEF Joined
    <3>2. InvFirst(Line(w, c.out), from)
      BY <2>1, <3>1 DEF Fine, InvFirst
    <3>3. Typed(w, c.out, c.pongs, c.known, from, t)
      BY <2>1, <3>1 DEF Fine, Typed
    <3> QED BY <3>1, <3>2, <3>3 DEF Fine
  <2>4. Joined(b, w, t, xs)
    BY <2>2, <2>3 DEF Joined
  <2>5. Updating(FALSE, b.pongs)
    BY <1>0, <2>2 DEF Joined
  <2>6. {} \in SUBSET Tx /\ Range(from) \subseteq Range(b.blocks)
    BY <2>2
  <2> DEFINE d == SendGetdata(b, from, {})
  <2>7. Joined(d, w, t, xs) /\ Rest(b, d) /\ Matches(b, d, w)
    BY <2>1, <2>4, <2>5, <2>6, GetdataSent
  <2> HIDE DEF d
  <2>8. Rest(c, d) /\ Matches(c, d, w)
    BY <2>2, <2>7 DEF Rest, Matches
  <2> QED BY <2>7, <2>8 DEF d
<1>7. Rest(c, c) /\ Matches(c, c, w)
  BY DEF Rest, Matches
<1> HIDE DEF b
<1> QED BY <1>1, <1>3, <1>7

-----------------------------------------------------------------------------
\* A ping is sent on b, which is c but for what is waited for.
LEMMA PingSentIs ==
  ASSUME NEW t \in Heights, NEW c \in ConnType(t), NEW callback \in Callbacks
  PROVE  LET d == SendPing(c, callback)
         IN /\ d \in ConnType(t) /\ Rest(c, d) /\ d.needs = c.needs
            /\ d.out = Append(c.out, Message("ping", 0, <<>>, {}))
            /\ d.pongs = Append(c.pongs, callback)
            /\ d.known = c.known /\ d.blocks = c.blocks
<1> DEFINE m == Message("ping", 0, <<>>, {})
           p == Append(c.pongs, callback)
           b == [c EXCEPT !.pongs = p]
<1>1. m \in ClientMsg(t)
  <2>1. 0 \in Nat /\ "ping" \in {"filterload", "ping", "getblocks", "mempool"}
    OBVIOUS
  <2> QED BY <2>1, PlainIs
<1> HIDE DEF ClientMsg, BlockType, Callbacks
<1>2. p \in Seq(Callbacks)
  BY AppendProperties DEF ConnType
<1>5. SendPing(c, callback) = Send(b, m)
  BY DEF SendPing
<1> HIDE DEF p, m
<1>3. /\ b \in ConnType(t) /\ Rest(c, b) /\ b.out = c.out /\ b.pongs = p
      /\ b.known = c.known /\ b.blocks = c.blocks /\ b.needs = c.needs
  BY <1>2 DEF ConnType, Rest
<1> HIDE DEF b
<1>4. /\ Send(b, m) \in ConnType(t) /\ Rest(b, Send(b, m))
      /\ Send(b, m).out = Append(b.out, m) /\ Send(b, m).pongs = b.pongs
      /\ Send(b, m).known = b.known /\ Send(b, m).blocks = b.blocks
      /\ Send(b, m).needs = b.needs
  BY <1>1, <1>3, SendIs
<1> QED BY <1>3, <1>4, <1>5 DEF Rest, m, p

LEMMA PingMatches ==
  ASSUME NEW t \in Heights, NEW c \in ConnType(t), NEW callback \in Callbacks, NEW w
  PROVE  Matches(c, SendPing(c, callback), w)
<1> DEFINE m == Message("ping", 0, <<>>, {})
           d == SendPing(c, callback)
<1>1. m \in ClientMsg(t) /\ m.kind = "ping"
  <2>1. 0 \in Nat /\ "ping" \in {"filterload", "ping", "getblocks", "mempool"}
    OBVIOUS
  <2> QED BY <2>1, PlainIs
<1>2. m \in Msg /\ ~ IsLoad(m)
  BY <1>1 DEF ClientMsg, IsLoad
<1>3. c.out \in Seq(Msg)
  <2>1. ClientMsg(t) \subseteq Msg /\ c.out \in Seq(ClientMsg(t))
    BY DEF ClientMsg, ConnType
  <2> QED BY <2>1, SeqMonotonic
<1>4. d.out = Append(c.out, m) /\ d.filter = c.filter
  BY PingSentIs DEF Rest
<1> HIDE DEF d, m, Msg, IsLoad
<1> QED BY <1>2, <1>3, <1>4, MatchSent DEF Matches, d

LEMMA PingSent ==
  ASSUME NEW c, NEW w, NEW t, NEW xs, Joined(c, w, t, xs),
         NEW callback \in Callbacks, callback \notin Replacing
  PROVE  LET d == SendPing(c, callback)
         IN Joined(d, w, t, xs) /\ Rest(c, d) /\ Matches(c, d, w)
<1> DEFINE d == SendPing(c, callback)
<1>1. t \in Heights /\ c \in ConnType(t) /\ c.pongs \in Seq(Callbacks) /\ c.needs \in BOOLEAN
  BY JoinedIs
<1>2. /\ d \in ConnType(t) /\ Rest(c, d) /\ d.needs = c.needs
      /\ d.out = Append(c.out, Message("ping", 0, <<>>, {}))
      /\ d.pongs = Append(c.pongs, callback)
      /\ d.known = c.known /\ d.blocks = c.blocks
  BY <1>1, PingSentIs
<1>3. Matches(c, d, w)
  BY <1>1, PingMatches
<1> HIDE DEF d, Callbacks, Replacing
<1>4. Fine(w, d.out, d.pongs, d.known, d.blocks, t, xs)
  BY <1>2, FinePinged DEF Joined
<1>5. Updating(d.needs, d.pongs)
  BY <1>1, <1>2, UpdatingAppended DEF Joined
<1> QED BY <1>2, <1>3, <1>4, <1>5 DEF Joined, d

LEMMA FilterUpdated ==
  ASSUME NEW c, NEW w, NEW t, NEW xs, Joined(c, w, t, xs)
  PROVE  LET d == UpdateFilter(c)
         IN Joined(d, w, t, xs) /\ Rest(c, d) /\ Matches(c, d, w)
<1> DEFINE b == [c EXCEPT !.needs = TRUE]
           d == SendPing(b, "updateFilterPingDone")
<1>0. UpdateFilter(c) = IF c.needs THEN c ELSE d
  BY DEF UpdateFilter
<1>1. t \in Heights /\ c \in ConnType(t) /\ c.pongs \in Seq(Callbacks) /\ c.needs \in BOOLEAN
  BY JoinedIs
<1>2. /\ b \in ConnType(t) /\ Rest(c, b) /\ b.out = c.out /\ b.pongs = c.pongs
      /\ b.known = c.known /\ b.blocks = c.blocks /\ b.needs = TRUE
  <2> HIDE DEF ClientMsg, BlockType, Callbacks
  <2> QED BY <1>1 DEF ConnType, Rest
<1>3. "updateFilterPingDone" \in Callbacks /\ "updateFilterPingDone" \in Replacing
  BY DEF Callbacks, Replacing
<1> HIDE DEF b
<1>4. /\ d \in ConnType(t) /\ Rest(b, d) /\ d.needs = b.needs
      /\ d.out = Append(b.out, Message("ping", 0, <<>>, {}))
      /\ d.pongs = Append(b.pongs, "updateFilterPingDone")
      /\ d.known = b.known /\ d.blocks = b.blocks
  BY <1>1, <1>2, <1>3, PingSentIs
<1>5. Matches(b, d, w)
  BY <1>1, <1>2, <1>3, PingMatches
<1> HIDE DEF d, Callbacks, Replacing
<1>6. Rest(c, d) /\ Matches(c, d, w)
  BY <1>2, <1>4, <1>5 DEF Rest, Matches
<1>7. ASSUME ~ c.needs PROVE Joined(d, w, t, xs)
  <2>1. Fine(w, d.out, d.pongs, d.known, d.blocks, t, xs)
    BY <1>2, <1>3, <1>4, FinePinged DEF Joined
  <2>2. Updating(TRUE, d.pongs)
    BY <1>1, <1>2, <1>3, <1>4, <1>7, UpdatingAppended DEF Joined
  <2> QED BY <1>2, <1>4, <2>1, <2>2 DEF Joined
<1>8. Rest(c, c) /\ Matches(c, c, w)
  BY DEF Rest, Matches
<1> QED BY <1>0, <1>6, <1>7, <1>8

\* A filter is sent, on a connection of which all but what is waited for is
\* known to be so.
LEMMA FilterloadIs ==
  ASSUME NEW t \in Heights, NEW c \in ConnType(t), wallet \in SUBSET Tx
  PROVE  LET d == SendFilterload(c)
             m == Message("filterload", Filter(wallet), <<>>, {})
         IN /\ d \in ConnType(t) /\ Rest(c, d) /\ d.needs = c.needs /\ d.pongs = c.pongs
            /\ d.out = Append(c.out, m) /\ d.known = c.known /\ d.blocks = c.blocks
            /\ m \in ClientMsg(t) /\ ~ IsPing(m) /\ ~ Asks(m) /\ IsLoad(m) /\ m \in Msg
            /\ m.height = Filter(wallet)
<1> DEFINE m == Message("filterload", Filter(wallet), <<>>, {})
           b == [c EXCEPT !.sentMempool = FALSE]
<1>1. m \in ClientMsg(t) /\ m.kind = "filterload" /\ m.height = Filter(wallet) /\ ~ Asks(m)
  <2>1. Filter(wallet) \in Nat /\ "filterload" \in {"filterload", "ping", "getblocks", "mempool"}
    BY FilterIs
  <2> QED BY <2>1, PlainIs
<1>5. SendFilterload(c) = Send(b, m)
  BY DEF SendFilterload
<1>6. ~ IsPing(m) /\ IsLoad(m) /\ m \in Msg
  <2> HIDE DEF m, Msg
  <2> QED BY <1>1 DEF IsPing, IsLoad, ClientMsg
<1> HIDE DEF ClientMsg, BlockType, Callbacks, m
<1>3. /\ b \in ConnType(t) /\ Rest(c, b) /\ b.out = c.out /\ b.pongs = c.pongs
      /\ b.known = c.known /\ b.blocks = c.blocks /\ b.needs = c.needs
  BY DEF ConnType, Rest
<1> HIDE DEF b
<1>4. /\ Send(b, m) \in ConnType(t) /\ Rest(b, Send(b, m))
      /\ Send(b, m).out = Append(b.out, m) /\ Send(b, m).pongs = b.pongs
      /\ Send(b, m).known = b.known /\ Send(b, m).blocks = b.blocks
      /\ Send(b, m).needs = b.needs
  BY <1>1, <1>3, SendIs
<1>7. Rest(c, Send(b, m))
  BY <1>3, <1>4 DEF Rest
<1> QED BY <1>1, <1>3, <1>4, <1>5, <1>6, <1>7 DEF m

\* The line is still so, and the filter matches when nothing that is pending
\* was matched with another.
LEMMA FilterloadFine ==
  ASSUME NEW t, NEW c \in ConnType(t), wallet \in SUBSET Tx, NEW w, NEW xs,
         Fine(w, c.out, c.pongs, c.known, c.blocks, t, xs)
  PROVE  LET d == SendFilterload(c)
         IN /\ Fine(w, d.out, d.pongs, d.known, d.blocks, t, xs)
            /\ (\/ Matching(w, c.out, c.filter, Filter(wallet))
                \/ \A i \in DOMAIN Line(w, c.out) : ~ Asks(Line(w, c.out)[i]))
                  => Matching(w, d.out, d.filter, Filter(wallet))
<1> DEFINE m == Message("filterload", Filter(wallet), <<>>, {})
           d == SendFilterload(c)
<1>0. Typed(w, c.out, c.pongs, c.known, c.blocks, t) /\ t \in Heights
  BY DEF Fine, Typed
<1>1. /\ d.out = Append(c.out, m) /\ d.pongs = c.pongs /\ d.known = c.known
      /\ d.blocks = c.blocks /\ d.filter = c.filter
      /\ m \in ClientMsg(t) /\ ~ IsPing(m) /\ ~ Asks(m) /\ IsLoad(m) /\ m \in Msg
      /\ m.height = Filter(wallet)
  BY <1>0, FilterloadIs DEF Rest
<1>2. w \in Seq(Msg) /\ c.out \in Seq(Msg)
  BY <1>0, TypedIs
<1> HIDE DEF m, d, Msg, ClientMsg, IsPing, IsLoad
<1>3. Fine(w, d.out, d.pongs, d.known, d.blocks, t, xs)
  <2> HIDE DEF Asks
  <2>1. Fine(w, Append(c.out, m), c.pongs, c.known \cup {}, c.blocks, t, xs)
    BY <1>1, FineSent
  <2>2. c.known \cup {} = c.known
    OBVIOUS
  <2> QED BY <1>1, <2>1, <2>2
<1>4. ASSUME \A i \in DOMAIN Line(w, c.out) : ~ Asks(Line(w, c.out)[i])
      PROVE  /\ \A i \in DOMAIN w : w[i].kind # "merkleblock"
             /\ \A i \in DOMAIN c.out : ~ Asks(c.out[i])
  <2>1. /\ Len(w) \in Nat /\ Len(c.out) \in Nat
        /\ DOMAIN Line(w, c.out) = 1 .. (Len(w) + Len(c.out))
        /\ \A i \in 1 .. (Len(w) + Len(c.out)) :
             Line(w, c.out)[i] = IF i <= Len(w) THEN w[i] ELSE c.out[i - Len(w)]
    BY <1>2, LineIs
  <2>2. DOMAIN w = 1 .. Len(w) /\ DOMAIN c.out = 1 .. Len(c.out)
    BY <1>2, LenProperties
  <2>3. \A i \in DOMAIN w : i \in DOMAIN Line(w, c.out) /\ Line(w, c.out)[i] = w[i]
    BY <2>1, <2>2
  <2>4. ASSUME NEW i \in DOMAIN c.out
        PROVE  Len(w) + i \in DOMAIN Line(w, c.out) /\ Line(w, c.out)[Len(w) + i] = c.out[i]
    <3>1. Len(w) + i \in 1 .. (Len(w) + Len(c.out)) /\ ~ (Len(w) + i <= Len(w)) /\ Len(w) + i - Len(w) = i
      BY <2>1, <2>2
    <3> QED BY <2>1, <3>1
  <2>5. \A i \in DOMAIN w : w[i].kind # "merkleblock"
    BY <1>4, <2>3 DEF Asks
  <2>6. \A i \in DOMAIN c.out : ~ Asks(c.out[i])
    <3> HIDE DEF Asks
    <3> QED BY <1>4, <2>4
  <2> QED BY <2>5, <2>6
<1> HIDE DEF Asks
<1>5. ASSUME \/ Matching(w, c.out, c.filter, Filter(wallet))
             \/ \A i \in DOMAIN Line(w, c.out) : ~ Asks(Line(w, c.out)[i])
      PROVE  Matching(w, d.out, d.filter, Filter(wallet))
  <2>1. Matching(w, Append(c.out, m), c.filter, Filter(wallet))
    BY <1>1, <1>2, <1>4, <1>5, MatchLoaded
  <2> QED BY <1>1, <2>1
<1> QED BY <1>3, <1>5 DEF d

\* Something is changed that nothing said here is about.
Alike(c, d) ==
  /\ d.out = c.out /\ d.pongs = c.pongs /\ d.known = c.known /\ d.blocks = c.blocks
  /\ d.needs = c.needs /\ d.filter = c.filter

LEMMA AlikeJoined ==
  ASSUME NEW c, NEW d, NEW w, NEW t, NEW xs, Joined(c, w, t, xs), d \in ConnType(t), Alike(c, d)
  PROVE  Joined(d, w, t, xs) /\ Matches(c, d, w)
BY DEF Joined, Alike, Matches

-----------------------------------------------------------------------------
(***************************************************************************)
(* The inductive invariant of the types: what the manager has, and the     *)
(* connection.                                                             *)
(***************************************************************************)
Covers(filter, addresses, xs) ==
  /\ addresses \in Nat /\ filter \in 0 .. addresses /\ filter <= Filter(xs)
  /\ filter # 0 => Highest(xs) + 1 + Gap <= filter

Books ==
  /\ lastBlock \in 0 .. tip /\ estimatedHeight \in 0 .. tip
  /\ Covers(bloomFilter, generated, wallet)
  /\ wallet \in SUBSET Tx /\ confirmed \in SUBSET wallet
  /\ \A o \in orphans : o.height \in lastBlock + 2 .. tip /\ o.txs \in SUBSET wallet
  /\ tip \in Heights /\ pool \in SUBSET Tx /\ pool \cap MinedBy(tip) = {}
  /\ sessions \in 0 .. MaxSessions

\* What a block that is collected has is in the wallet or waited for.
Collected(b, xs) == b.height # 0 => b.txs \subseteq xs \cup b.missing

Connection ==
  /\ Joined(conn, wire, tip, wallet)
  /\ ~ conn.up => conn = Closed /\ wire = <<>>
  /\ Collected(conn.current, wallet)

SafeInv == Books /\ Connection

\* No filter is sent: what was matched with one still is.
Carried ==
  conn'.up => /\ conn.up
              /\ \A f : Matching(wire, conn.out, conn.filter, f) =>
                          Matching(wire', conn'.out, conn'.filter, f)

LEMMA ClosedIs ==
  ASSUME NEW t \in Heights, NEW xs
  PROVE  Joined(Closed, <<>>, t, xs) /\ Collected(Closed.current, xs) /\ ~ Closed.up
<1>1. t \in Nat
  BY MinedSeq
<1>2. Nothing \in BlockType(t)
  BY <1>1 DEF Nothing, BlockType
<1>3. <<>> \in Seq(1 .. t) /\ <<>> \in Seq(ClientMsg(t)) /\ <<>> \in Seq(Callbacks)
  BY EmptySeq
<1>4. Closed \in ConnType(t)
  <2> HIDE DEF BlockType, ClientMsg, Callbacks, Nothing
  <2> QED BY <1>1, <1>2, <1>3 DEF Closed, ConnType
<1>5. /\ Closed.out = <<>> /\ Closed.pongs = <<>> /\ Closed.known = {} /\ Closed.blocks = <<>>
      /\ Closed.needs = FALSE /\ Closed.up = FALSE /\ Closed.current = Nothing
  BY DEF Closed
<1>6. Updating(FALSE, <<>>)
  BY DEF Updating
<1>7. Fine(<<>>, <<>>, <<>>, {}, <<>>, t, xs)
  BY FineClosed
<1>8. Joined(Closed, <<>>, t, xs)
  BY <1>4, <1>5, <1>6, <1>7 DEF Joined
<1> QED BY <1>5, <1>8 DEF Collected, Nothing

LEMMA InitSafe == Init => SafeInv
<1> SUFFICES ASSUME Init PROVE SafeInv
  OBVIOUS
<1>1. Tip \in Heights /\ Tip \in Nat /\ Begin \in 0 .. Tip /\ MaxSessions \in Nat /\ Gap \in Nat
  BY Assumed
<1>2. Covers(0, Gap, {})
  <2>1. Filter({}) \in Nat
    BY FilterIs
  <2> QED BY <1>1, <2>1 DEF Covers
<1>3. Books
  BY <1>1, <1>2 DEF Init, Books
<1>4. Joined(Closed, <<>>, Tip, {}) /\ Collected(Closed.current, {}) /\ ~ Closed.up
  BY <1>1, ClosedIs
<1>5. Connection
  <2> HIDE DEF Closed
  <2> QED BY <1>4 DEF Init, Connection
<1> QED BY <1>3, <1>5 DEF SafeInv

LEMMA FilterLoaded ==
  ASSUME Books, \/ LoadBloomFilter
                \/ bloomFilter' = Filter(wallet) /\ generated' = Max({generated, Filter(wallet)})
  PROVE  Covers(bloomFilter', generated', wallet) /\ bloomFilter' = Filter(wallet)
<1>1. bloomFilter' = Filter(wallet) /\ generated' = Max({generated, Filter(wallet)})
  BY DEF LoadBloomFilter
<1>2. generated \in Nat /\ wallet \in SUBSET Tx
  BY DEF Books, Covers
<1>3. Filter(wallet) \in Nat /\ Highest(wallet) + 1 + Gap <= Filter(wallet)
  BY <1>2, FilterIs
<1>4. generated' = IF generated <= Filter(wallet) THEN Filter(wallet) ELSE generated
  BY <1>1, <1>2, <1>3, MaxTwo
<1> QED BY <1>1, <1>2, <1>3, <1>4 DEF Covers

LEMMA BooksIs ==
  ASSUME Books
  PROVE  /\ lastBlock \in Nat /\ estimatedHeight \in Nat /\ tip \in Nat /\ wallet \in SUBSET Tx
         /\ generated \in Nat /\ bloomFilter \in Nat /\ tip \in Heights
         /\ lastBlock <= tip /\ estimatedHeight <= tip /\ Len(Mined) \in Nat
         /\ tip \in 0 .. Len(Mined) /\ sessions \in Nat /\ 1 .. tip \subseteq Heights
<1>1. tip \in Nat /\ Len(Mined) \in Nat /\ tip \in 0 .. Len(Mined) /\ 1 .. tip \subseteq Heights
  BY MinedSeq DEF Books
<1> QED BY <1>1, Assumed DEF Books, Covers

-----------------------------------------------------------------------------
LEMMA PeerConnectedSafe ==
  ASSUME SafeInv, PeerConnected
  PROVE  /\ SafeInv' /\ Matching(wire', conn'.out, conn'.filter, bloomFilter')
         /\ conn'.current = Nothing
<1> DEFINE b == [conn EXCEPT !.up = TRUE, !.lastblock = tip]
           c == SendFilterload(b)
           d == [c EXCEPT !.timer = TRUE]
<1>0. /\ lastBlock \in Nat /\ tip \in Nat /\ wallet \in SUBSET Tx /\ lastBlock <= tip /\ tip \in Heights
  BY BooksIs DEF SafeInv
<1>1. conn = Closed /\ wire = <<>> /\ conn.out = <<>>
  BY DEF SafeInv, Connection, PeerConnected, Closed
<1>2. conn \in ConnType(tip)
  BY JoinedIs DEF SafeInv, Connection
<1>3. b \in ConnType(tip) /\ Alike(conn, b) /\ b.up = TRUE /\ b.current = conn.current
  <2>1. tip \in 0 .. tip
    BY <1>0
  <2> HIDE DEF ClientMsg, BlockType, Callbacks
  <2>2. b \in ConnType(tip)
    BY <1>2, <2>1 DEF ConnType
  <2>3. Alike(conn, b) /\ b.up = TRUE /\ b.current = conn.current
    BY <1>2 DEF ConnType, Alike
  <2> QED BY <2>2, <2>3
<1>4. Joined(b, wire, tip, wallet)
  BY <1>3, AlikeJoined DEF SafeInv, Connection
<1>5. c \in ConnType(tip) /\ Rest(b, c) /\ c.needs = b.needs /\ c.pongs = b.pongs
  <2> HIDE DEF b
  <2> QED BY <1>0, <1>3, FilterloadIs
<1>6. /\ Fine(wire, c.out, c.pongs, c.known, c.blocks, tip, wallet)
      /\ Matching(wire, c.out, c.filter, Filter(wallet))
  <2>1. Fine(wire, b.out, b.pongs, b.known, b.blocks, tip, wallet)
    BY <1>4 DEF Joined
  <2>2. Line(wire, b.out) = <<>>
    BY <1>1, <1>3 DEF Alike, Line
  <2>3. \A i \in DOMAIN Line(wire, b.out) : ~ Asks(Line(wire, b.out)[i])
    BY <2>2
  <2> HIDE DEF b
  <2> QED BY <1>0, <1>3, <2>1, <2>3, FilterloadFine
<1> HIDE DEF b
<1>7. Joined(c, wire, tip, wallet)
  BY <1>4, <1>5, <1>6 DEF Joined
<1> HIDE DEF c
<1>8. d \in ConnType(tip) /\ Alike(c, d) /\ Rest(c, d)
  <2> HIDE DEF ClientMsg, BlockType, Callbacks
  <2> QED BY <1>5 DEF ConnType, Alike, Rest
<1>9. Joined(d, wire, tip, wallet) /\ Matches(c, d, wire)
  BY <1>7, <1>8, AlikeJoined
<1>10. conn' = IF lastBlock < tip THEN SendGetblocks(d, lastBlock) ELSE SendMempool(c)
  BY DEF PeerConnected, b, c
<1> HIDE DEF d
<1> DEFINE x == SendGetblocks(d, lastBlock)
           y == SendMempool(c)
<1>11. /\ Joined(x, wire, tip, wallet) /\ Rest(c, x) /\ Matches(c, x, wire)
       /\ Joined(y, wire, tip, wallet) /\ Rest(c, y) /\ Matches(c, y, wire)
  <2>1. lastBlock \in 0 .. tip
    BY <1>0
  <2>2. Joined(x, wire, tip, wallet) /\ Rest(d, x) /\ Matches(d, x, wire)
    BY <1>9, <2>1, GetblocksSent
  <2>3. Joined(y, wire, tip, wallet) /\ Rest(c, y) /\ Matches(c, y, wire)
    BY <1>7, MempoolSent
  <2> HIDE DEF x, y
  <2>4. Rest(c, x) /\ Matches(c, x, wire)
    BY <1>8, <1>9, <2>2 DEF Rest, Matches
  <2> QED BY <2>2, <2>3, <2>4
<1> HIDE DEF x, y
<1>12. Joined(conn', wire, tip, wallet) /\ Rest(c, conn') /\ Matches(c, conn', wire)
  BY <1>10, <1>11 DEF x, y
<1>13. conn'.up = TRUE /\ conn'.current = conn.current
  BY <1>3, <1>5, <1>12 DEF Rest
<1>14. wire' = wire /\ tip' = tip /\ wallet' = wallet
  BY DEF PeerConnected, peer
<1>15. Connection'
  BY <1>12, <1>13, <1>14 DEF Connection, SafeInv
<1>16. Covers(bloomFilter', generated', wallet) /\ bloomFilter' = Filter(wallet)
  BY FilterLoaded DEF PeerConnected, SafeInv
<1>17. Books'
  <2>1. /\ orphans' = {} /\ estimatedHeight' = tip
        /\ UNCHANGED <<lastBlock, wallet, confirmed, tip, pool, sessions>>
    BY DEF PeerConnected, LoadBloomFilter, peer
  <2> QED BY <1>0, <1>16, <2>1 DEF Books, SafeInv
<1>18. Matching(wire', conn'.out, conn'.filter, bloomFilter')
  BY <1>6, <1>12, <1>14, <1>16 DEF Matches
<1> QED BY <1>1, <1>13, <1>15, <1>17, <1>18 DEF SafeInv, Closed

LEMMA DisconnectSafe ==
  ASSUME SafeInv, Disconnect, UNCHANGED <<manager, peer>>, sessions' \in 0 .. MaxSessions
  PROVE  SafeInv' /\ Carried /\ conn'.current = Nothing
<1>1. conn' = Closed /\ wire' = <<>> /\ tip' = tip /\ wallet' = wallet
  BY DEF Disconnect, manager, peer
<1>2. Joined(Closed, <<>>, tip, wallet) /\ Collected(Closed.current, wallet) /\ ~ Closed.up
  BY ClosedIs DEF SafeInv, Books
<1>3. Connection' /\ Carried
  <2> HIDE DEF Closed
  <2> QED BY <1>1, <1>2 DEF Connection, Carried
<1>4. Books'
  BY DEF SafeInv, Books, manager, peer
<1> QED BY <1>1, <1>3, <1>4 DEF SafeInv, Closed

LEMMA TimeoutSafe ==
  ASSUME SafeInv, Timeout
  PROVE  SafeInv' /\ Carried /\ conn'.current = Nothing
<1>1. sessions' \in 0 .. MaxSessions
  <2>1. sessions \in 0 .. MaxSessions /\ MaxSessions \in Nat
    BY Assumed DEF SafeInv, Books
  <2>2. sessions' = sessions \/ (sessions < MaxSessions /\ sessions' = sessions + 1)
    BY DEF Timeout
  <2> QED BY <2>1, <2>2
<1> QED BY <1>1, DisconnectSafe DEF Timeout

LEMMA IncompleteSafe ==
  ASSUME SafeInv, Incomplete
  PROVE  SafeInv' /\ Carried /\ conn'.current = Nothing
<1>1. sessions' \in 0 .. MaxSessions
  BY DEF Incomplete, SafeInv, Books
<1> QED BY <1>1, DisconnectSafe DEF Incomplete

-----------------------------------------------------------------------------
LEMMA SafeIs ==
  ASSUME SafeInv
  PROVE  /\ conn \in ConnType(tip) /\ wire \in Seq(Msg) /\ conn.out \in Seq(Msg)
         /\ conn.out \in Seq(ClientMsg(tip)) /\ conn.filter \in Nat
         /\ Typed(wire, conn.out, conn.pongs, conn.known, conn.blocks, tip)
         /\ Fine(wire, conn.out, conn.pongs, conn.known, conn.blocks, tip, wallet)
         /\ Updating(conn.needs, conn.pongs)
         /\ conn.needs \in BOOLEAN /\ conn.pongs \in Seq(Callbacks)
         /\ conn.known \in SUBSET Tx /\ conn.blocks \in Seq(1 .. tip)
<1>1. Joined(conn, wire, tip, wallet)
  BY DEF SafeInv, Connection
<1>2. /\ conn \in ConnType(tip) /\ wire \in Seq(Msg) /\ conn.out \in Seq(Msg)
      /\ conn.out \in Seq(ClientMsg(tip))
      /\ Typed(wire, conn.out, conn.pongs, conn.known, conn.blocks, tip)
      /\ conn.needs \in BOOLEAN /\ conn.pongs \in Seq(Callbacks)
      /\ conn.known \in SUBSET Tx /\ conn.blocks \in Seq(1 .. tip)
  BY <1>1, JoinedIs
<1>3. conn.filter \in Nat
  BY <1>2 DEF ConnType
<1> QED BY <1>1, <1>2, <1>3 DEF Joined

\* The peer has sent something, and what it has not answered is o.
LEMMA ServedSafe ==
  ASSUME SafeInv, conn.up, UNCHANGED <<manager, peer>>, sessions' \in 0 .. MaxSessions,
         NEW o, NEW g \in Nat, Fine(wire', o, conn.pongs, conn.known, conn.blocks, tip, wallet),
         conn' = [conn EXCEPT !.out = o, !.filter = g],
         \A f : Matching(wire, conn.out, conn.filter, f) => Matching(wire', o, g, f)
  PROVE  SafeInv' /\ Carried /\ conn'.current = conn.current
<1>1. conn \in ConnType(tip) /\ Updating(conn.needs, conn.pongs)
  BY SafeIs
<1>2. o \in Seq(ClientMsg(tip))
  BY DEF Fine, Typed
<1>3. /\ conn' \in ConnType(tip) /\ conn'.out = o /\ conn'.filter = g /\ conn'.pongs = conn.pongs
      /\ conn'.known = conn.known /\ conn'.blocks = conn.blocks /\ conn'.needs = conn.needs
      /\ conn'.up = conn.up /\ conn'.current = conn.current
  <2> HIDE DEF ClientMsg, BlockType, Callbacks
  <2> QED BY <1>1, <1>2 DEF ConnType
<1>4. tip' = tip /\ wallet' = wallet
  BY DEF manager, peer
<1>5. Joined(conn', wire', tip', wallet')
  BY <1>1, <1>3, <1>4 DEF Joined
<1>6. Connection'
  BY <1>3, <1>4, <1>5 DEF Connection, SafeInv
<1>7. Books'
  BY DEF SafeInv, Books, manager, peer
<1>8. Carried
  BY <1>3 DEF Carried
<1> QED BY <1>3, <1>6, <1>7, <1>8 DEF SafeInv

LEMMA LeftFine ==
  ASSUME NEW w, Fine(w, conn.out, conn.pongs, conn.known, conn.blocks, tip, wallet),
         conn.out # <<>>, Head(conn.out).kind = "getdata", NEW r \in ClientMsg(tip),
         r.kind = "getdata", Range(r.blocks) \subseteq Range(Head(conn.out).blocks),
         \A x : Brings(Head(conn.out), x) => \/ Brings(r, x)
                                             \/ \E i \in DOMAIN w : Brings(w[i], x)
  PROVE  /\ Fine(w, Left(r), conn.pongs, conn.known, conn.blocks, tip, wallet)
         /\ \A f : Matching(w, conn.out, conn.filter, f) => Matching(w, Left(r), conn.filter, f)
<1> DEFINE m == Head(conn.out)
<1>1. ~ IsPing(m) /\ ~ IsLoad(m) /\ ~ IsLoad(r)
  BY DEF IsPing, IsLoad
<1>2. Left(r) = IF r.blocks = <<>> /\ r.txs = {} THEN Tail(conn.out) ELSE Put(conn.out, 1, r)
  BY DEF Left, Put
<1>3. Typed(w, conn.out, conn.pongs, conn.known, conn.blocks, tip)
  BY DEF Fine
<1>4. conn.out \in Seq(Msg) /\ r \in Msg
  BY <1>3, TypedIs DEF ClientMsg
<1>5. r.blocks # <<>> => m.blocks # <<>>
  <2> SUFFICES ASSUME r.blocks # <<>> PROVE m.blocks # <<>>
    OBVIOUS
  <2>1. r.blocks \in Seq(1 .. tip)
    BY DEF ClientMsg
  <2>2. 1 \in DOMAIN r.blocks
    BY <2>1, EmptySeq, LenProperties
  <2>3. r.blocks[1] \in Range(r.blocks)
    BY <2>2 DEF Range
  <2> QED BY <2>3, RangeEmpty
<1>6. Asks(r) => Asks(m)
  BY <1>5 DEF Asks
<1>7. CASE r.blocks = <<>> /\ r.txs = {}
  <2>1. \A x : Brings(m, x) => \E i \in DOMAIN w : Brings(w[i], x)
    BY <1>7 DEF Brings
  <2>2. Fine(w, Tail(conn.out), conn.pongs, conn.known, conn.blocks, tip, wallet)
    <3> HIDE DEF IsPing, Brings
    <3> QED BY <1>1, <2>1, FineDone
  <2>3. \A f : Matching(w, conn.out, conn.filter, f) => Matching(w, Tail(conn.out), conn.filter, f)
    <3> HIDE DEF IsLoad, Msg
    <3> QED BY <1>1, <1>4, MatchDone
  <2> QED BY <1>2, <1>7, <2>2, <2>3
<1>8. CASE ~ (r.blocks = <<>> /\ r.txs = {})
  <2>2. Fine(w, Put(conn.out, 1, r), conn.pongs, conn.known, conn.blocks, tip, wallet)
    <3> HIDE DEF Brings
    <3> QED BY FineLess
  <2>3. \A f : Matching(w, conn.out, conn.filter, f) => Matching(w, Put(conn.out, 1, r), conn.filter, f)
    <3> HIDE DEF IsLoad, Msg, Asks
    <3> QED BY <1>1, <1>4, <1>6, MatchLess
  <2> QED BY <1>2, <1>8, <2>2, <2>3
<1> QED BY <1>7, <1>8

LEMMA ServeTxSafe ==
  ASSUME SafeInv, conn.up, conn.out # <<>>, Head(conn.out).kind = "getdata",
         ServeTx(Head(conn.out)), UNCHANGED <<manager, peer>>
  PROVE  SafeInv' /\ Carried /\ conn'.current = conn.current
<1> DEFINE m == Head(conn.out)
<1>0. m = Head(conn.out)
  OBVIOUS
<1>1. /\ m \in ClientMsg(tip) /\ tip \in Heights /\ wire \in Seq(Msg) /\ conn.out \in Seq(Msg)
      /\ Fine(wire, conn.out, conn.pongs, conn.known, conn.blocks, tip, wallet)
      /\ conn.filter \in Nat
  BY SafeIs, TypedIs DEF SafeInv, Books
<1> HIDE DEF m
<1>2. PICK t \in m.txs :
        /\ wire' = Append(wire, Message("tx", 0, <<>>, {t}))
        /\ conn' = [conn EXCEPT !.out = Left([m EXCEPT !.txs = @ \ {t}])]
        /\ UNCHANGED sessions
  BY DEF ServeTx, m
<1> DEFINE e == Message("tx", 0, <<>>, {t})
           r == [m EXCEPT !.txs = @ \ {t}]
           w == Append(wire, e)
<1>3. m.kind = "getdata" /\ m \in Msg /\ m.blocks \in Seq(1 .. tip) /\ t \in Tx
  BY <1>1, <1>2 DEF m, ClientMsg, Msg
<1>4. e \in PeerMsg(tip) /\ e \in Msg /\ e.kind = "tx" /\ e.txs = {t}
  <2>1. <<>> \in Seq(Heights) /\ <<>> \in Seq(1 .. tip) /\ "tx" \in Kinds
    BY EmptySeq DEF Kinds
  <2>2. e \in Msg /\ e.kind = "tx" /\ e.txs = {t} /\ e.blocks = <<>>
    BY <1>3, <2>1 DEF Message, Msg
  <2> HIDE DEF e, Msg
  <2> QED BY <1>3, <2>1, <2>2 DEF PeerMsg
<1>5. /\ r \in ClientMsg(tip) /\ r.kind = "getdata" /\ r.blocks = m.blocks
      /\ \A x : x \in m.txs => x \in r.txs \/ x = t
  <2>1. r \in Msg /\ r.kind = "getdata" /\ r.blocks = m.blocks /\ r.txs = m.txs \ {t}
    BY <1>3 DEF Msg
  <2> HIDE DEF r, Msg
  <2> QED BY <1>3, <2>1 DEF ClientMsg
<1> HIDE DEF e, r
<1>6. Fine(w, conn.out, conn.pongs, conn.known, conn.blocks, tip, wallet)
  BY <1>1, <1>4, FineAnswered
<1>7. \A x : Brings(m, x) => Brings(r, x) \/ \E i \in DOMAIN w : Brings(w[i], x)
  <2>1. w \in Seq(Msg) /\ Len(w) = Len(wire) + 1 /\ w[Len(wire) + 1] = e
    BY <1>1, <1>4, AppendProperties
  <2>2. Len(wire) + 1 \in DOMAIN w
    BY <1>1, <2>1, LenProperties
  <2> SUFFICES ASSUME NEW x, Brings(m, x), x = t PROVE \E i \in DOMAIN w : Brings(w[i], x)
    BY <1>5 DEF Brings
  <2>3. Brings(w[Len(wire) + 1], x)
    BY <1>4, <2>1 DEF Brings
  <2> QED BY <2>2, <2>3
<1>8. \A f : Matching(wire, conn.out, conn.filter, f) => Matching(w, conn.out, conn.filter, f)
  <2>1. e.kind # "merkleblock"
    BY <1>4
  <2> HIDE DEF w, Msg
  <2> QED BY <1>1, <1>4, <2>1, MatchPushed DEF w
<1> HIDE DEF w
<1>9. /\ Fine(w, Left(r), conn.pongs, conn.known, conn.blocks, tip, wallet)
      /\ \A f : Matching(w, conn.out, conn.filter, f) => Matching(w, Left(r), conn.filter, f)
  <2>1. Range(r.blocks) \subseteq Range(Head(conn.out).blocks)
    BY <1>0, <1>5
  <2>2. \A x : Brings(Head(conn.out), x) => \/ Brings(r, x)
                                            \/ \E i \in DOMAIN w : Brings(w[i], x)
    BY <1>0, <1>7
  <2> QED BY <1>5, <1>6, <2>1, <2>2, LeftFine
<1>10. wire' = w /\ conn' = [conn EXCEPT !.out = Left(r), !.filter = conn.filter]
  <2>1. conn \in ConnType(tip)
    BY SafeIs
  <2>2. [conn EXCEPT !.out = Left(r)] = [conn EXCEPT !.out = Left(r), !.filter = conn.filter]
    BY <2>1 DEF ConnType
  <2> QED BY <1>2, <2>2 DEF w, e, r
<1>11. sessions' \in 0 .. MaxSessions
  BY <1>2 DEF SafeInv, Books
<1> QED BY <1>1, <1>8, <1>9, <1>10, <1>11, ServedSafe

LEMMA ServeBlockSafe ==
  ASSUME SafeInv, conn.up, conn.out # <<>>, Head(conn.out).kind = "getdata",
         ServeBlock(Head(conn.out)), UNCHANGED <<manager, peer>>
  PROVE  SafeInv' /\ Carried /\ conn'.current = conn.current
<1> DEFINE m == Head(conn.out)
           h == Head(m.blocks)
           e == Message("merkleblock", h, <<>>, Matched(h))
           r(txs) == [m EXCEPT !.blocks = Tail(@), !.txs = txs]
           w == Append(wire, e)
<1>0. m = Head(conn.out) /\ m.txs = {} /\ m.blocks # <<>>
  BY DEF ServeBlock
<1>1. /\ m \in ClientMsg(tip) /\ tip \in Heights /\ wire \in Seq(Msg) /\ conn.out \in Seq(Msg)
      /\ Fine(wire, conn.out, conn.pongs, conn.known, conn.blocks, tip, wallet)
      /\ conn.filter \in Nat /\ 1 .. tip \subseteq Heights
  BY SafeIs, TypedIs DEF SafeInv, Books
<1>2. PICK txs \in SUBSET Matched(h) :
        /\ wire' = w /\ conn' = [conn EXCEPT !.out = Left(r(txs))]
        /\ \/ UNCHANGED sessions
           \/ sessions < MaxSessions /\ sessions' = sessions + 1
  <2>1. \/ conn' = [conn EXCEPT !.out = Left(r(Matched(h)))] /\ UNCHANGED sessions
        \/ /\ sessions < MaxSessions /\ sessions' = sessions + 1
           /\ \E t \in Matched(h) : conn' = [conn EXCEPT !.out = Left(r(Matched(h) \ {t}))]
    BY DEF ServeBlock
  <2>2. wire' = w
    BY DEF ServeBlock
  <2> HIDE DEF m, h, e, r, w
  <2>3. CASE conn' = [conn EXCEPT !.out = Left(r(Matched(h)))] /\ UNCHANGED sessions
    <3>1. Matched(h) \in SUBSET Matched(h)
      OBVIOUS
    <3> QED BY <2>2, <2>3, <3>1
  <2>4. ASSUME sessions < MaxSessions, sessions' = sessions + 1, NEW t \in Matched(h),
               conn' = [conn EXCEPT !.out = Left(r(Matched(h) \ {t}))]
        PROVE  \E txs \in SUBSET Matched(h) :
                 /\ wire' = w /\ conn' = [conn EXCEPT !.out = Left(r(txs))]
                 /\ \/ UNCHANGED sessions
                    \/ sessions < MaxSessions /\ sessions' = sessions + 1
    <3>1. Matched(h) \ {t} \in SUBSET Matched(h)
      OBVIOUS
    <3> QED BY <2>2, <2>4, <3>1
  <2> QED BY <2>1, <2>3, <2>4
<1>3. m.kind = "getdata" /\ m \in Msg /\ m.blocks \in Seq(1 .. tip)
  BY <1>1 DEF ClientMsg
<1>12. h \in 1 .. tip /\ h \in Range(m.blocks) /\ Tail(m.blocks) \in Seq(1 .. tip)
       /\ Range(Tail(m.blocks)) \subseteq Range(m.blocks)
  <2> DEFINE s == m.blocks
  <2>1. s \in Seq(1 .. tip) /\ s # <<>>
    BY <1>0, <1>3
  <2> HIDE DEF m, s
  <2>2. /\ Head(s) \in 1 .. tip /\ Tail(s) \in Seq(1 .. tip) /\ Len(Tail(s)) = Len(s) - 1
        /\ \A i \in 1 .. Len(Tail(s)) : Tail(s)[i] = s[i + 1]
    BY <2>1, HeadTailProperties
  <2>3. DOMAIN s = 1 .. Len(s) /\ Len(s) \in Nat /\ Len(s) > 0 /\ Head(s) = s[1]
    BY <2>1, LenProperties, EmptySeq
  <2>4. DOMAIN Tail(s) = 1 .. Len(Tail(s))
    BY <2>2, LenProperties
  <2>5. \A i \in DOMAIN Tail(s) : i + 1 \in DOMAIN s /\ Tail(s)[i] = s[i + 1]
    BY <2>2, <2>3, <2>4
  <2>6. Range(Tail(s)) \subseteq Range(s)
    BY <2>5 DEF Range
  <2>7. 1 \in DOMAIN s
    BY <2>3
  <2>8. Head(s) \in Range(s)
    BY <2>3, <2>7 DEF Range
  <2> QED BY <2>2, <2>6, <2>8 DEF s
<1>13. Matched(h) \subseteq Mined[h] /\ Mined[h] \subseteq Tx /\ h \in Nat /\ h \in Heights
       /\ Matched(h) = Reach(h, conn.filter)
  BY <1>1, <1>12, MinedSeq DEF Matched, Reach
<1> HIDE DEF m, h
<1>4. /\ e \in PeerMsg(tip) /\ e \in Msg /\ e.kind = "merkleblock" /\ e.height = h
      /\ e.txs = Matched(h)
  <2>1. <<>> \in Seq(Heights) /\ <<>> \in Seq(1 .. tip) /\ "merkleblock" \in Kinds
    BY EmptySeq DEF Kinds
  <2>2. e \in Msg /\ e.kind = "merkleblock" /\ e.txs = Matched(h) /\ e.blocks = <<>> /\ e.height = h
    BY <1>13, <2>1 DEF Message, Msg
  <2> HIDE DEF e, Msg
  <2> QED BY <1>12, <1>13, <2>1, <2>2 DEF PeerMsg
<1> DEFINE q == r(txs)
<1>5. q \in ClientMsg(tip) /\ q.kind = "getdata" /\ q.blocks = Tail(m.blocks)
  <2>0. Tail(m.blocks) \in Seq(Heights) /\ txs \in SUBSET Tx
    BY <1>1, <1>12, <1>13, SeqHeights
  <2>1. q \in Msg /\ q.kind = "getdata" /\ q.blocks = Tail(m.blocks)
    BY <1>3, <2>0 DEF Msg
  <2> HIDE DEF q, r, Msg
  <2> QED BY <1>12, <2>1 DEF ClientMsg
<1>14. wire' = w /\ conn' = [conn EXCEPT !.out = Left(q)]
  BY <1>2
<1> HIDE DEF e, q, r
<1>6. Fine(w, conn.out, conn.pongs, conn.known, conn.blocks, tip, wallet)
  BY <1>0, <1>1, <1>3, <1>4, <1>12, FineAnswered
<1>8. \A f : Matching(wire, conn.out, conn.filter, f) => Matching(w, conn.out, conn.filter, f)
  <2> SUFFICES ASSUME NEW f, Matching(wire, conn.out, conn.filter, f)
               PROVE  Matching(w, conn.out, conn.filter, f)
    OBVIOUS
  <2>1. Asks(Head(conn.out))
    BY <1>0, <1>3 DEF Asks
  <2>2. conn.filter = f
    <3> HIDE DEF Asks, Msg
    <3> QED BY <1>1, <2>1, MatchNext
  <2>3. e.txs = Reach(e.height, f)
    BY <1>4, <1>13, <2>2
  <2> HIDE DEF w, Msg
  <2> QED BY <1>1, <1>4, <2>3, MatchPushed DEF w
<1> HIDE DEF w
<1>9. /\ Fine(w, Left(q), conn.pongs, conn.known, conn.blocks, tip, wallet)
      /\ \A f : Matching(w, conn.out, conn.filter, f) => Matching(w, Left(q), conn.filter, f)
  <2>1. Range(q.blocks) \subseteq Range(Head(conn.out).blocks)
    BY <1>0, <1>5, <1>12
  <2>2. \A x : ~ Brings(Head(conn.out), x)
    BY <1>0 DEF Brings
  <2> QED BY <1>5, <1>6, <2>1, <2>2, LeftFine
<1>10. conn' = [conn EXCEPT !.out = Left(q), !.filter = conn.filter]
  <2>1. conn \in ConnType(tip)
    BY SafeIs
  <2>2. [conn EXCEPT !.out = Left(q)] = [conn EXCEPT !.out = Left(q), !.filter = conn.filter]
    BY <2>1 DEF ConnType
  <2> QED BY <1>14, <2>2
<1>11. sessions' \in 0 .. MaxSessions
  BY <1>2, Assumed DEF SafeInv, Books
<1> QED BY <1>1, <1>8, <1>9, <1>10, <1>11, <1>14, ServedSafe

-----------------------------------------------------------------------------
LEMMA InvIs ==
  ASSUME NEW t \in Heights, NEW blocks \in Seq(1 .. t), NEW txs \in SUBSET Tx,
         txs = {} \/ blocks = <<>>
  PROVE  LET e == Message("inv", 0, blocks, txs)
         IN e \in PeerMsg(t) /\ e \in Msg /\ e.kind = "inv" /\ e.blocks = blocks /\ e.txs = txs
<1> DEFINE e == Message("inv", 0, blocks, txs)
<1>1. blocks \in Seq(Heights) /\ "inv" \in Kinds
  BY SeqHeights DEF Kinds
<1>2. e \in Msg /\ e.kind = "inv" /\ e.blocks = blocks /\ e.txs = txs
  BY <1>1 DEF Message, Msg
<1> HIDE DEF e, Msg
<1> QED BY <1>2 DEF PeerMsg, e

\* Something is announced that the peer may announce.
LEMMA InvPushed ==
  ASSUME SafeInv, NEW blocks \in Seq(1 .. tip), NEW txs \in SUBSET Tx,
         txs = {} \/ (blocks = <<>> /\ txs \cap MinedBy(tip) = {})
  PROVE  LET w == Append(wire, Message("inv", 0, blocks, txs))
         IN /\ Fine(w, conn.out, conn.pongs, conn.known, conn.blocks, tip, wallet)
            /\ \A f : Matching(wire, conn.out, conn.filter, f) =>
                        Matching(w, conn.out, conn.filter, f)
<1> DEFINE e == Message("inv", 0, blocks, txs)
<1>1. tip \in Heights /\ wire \in Seq(Msg)
      /\ Fine(wire, conn.out, conn.pongs, conn.known, conn.blocks, tip, wallet)
  BY SafeIs DEF SafeInv, Books
<1>2. e \in PeerMsg(tip) /\ e \in Msg /\ e.kind = "inv" /\ e.blocks = blocks /\ e.txs = txs
  BY <1>1, InvIs
<1>3. e.kind # "merkleblock"
  BY <1>2
<1> HIDE DEF e, Msg
<1>4. Fine(Append(wire, e), conn.out, conn.pongs, conn.known, conn.blocks, tip, wallet)
  BY <1>1, <1>2, FinePushed
<1>5. \A f : Matching(wire, conn.out, conn.filter, f) => Matching(Append(wire, e), conn.out, conn.filter, f)
  BY <1>1, <1>2, <1>3, MatchPushed
<1> QED BY <1>4, <1>5 DEF e

LEMMA InvServed ==
  ASSUME SafeInv, NEW blocks \in Seq(1 .. tip), NEW txs \in SUBSET Tx,
         txs = {} \/ (blocks = <<>> /\ txs \cap MinedBy(tip) = {}), ServeInv(blocks, txs)
  PROVE  /\ Fine(wire', conn.out, conn.pongs, conn.known, conn.blocks, tip, wallet)
         /\ \A f : Matching(wire, conn.out, conn.filter, f) =>
                        Matching(wire', conn.out, conn.filter, f)
<1>1. \/ wire' = wire
      \/ wire' = Append(wire, Message("inv", 0, blocks, txs))
  BY DEF ServeInv
<1>2. Fine(wire, conn.out, conn.pongs, conn.known, conn.blocks, tip, wallet)
  BY SafeIs
<1>3. CASE wire' = wire
  BY <1>2, <1>3
<1>4. CASE wire' = Append(wire, Message("inv", 0, blocks, txs))
  BY <1>4, InvPushed
<1> QED BY <1>1, <1>3, <1>4

\* Heights that follow one another.
LEMMA BlocksServed ==
  ASSUME SafeInv, NEW from \in Nat, from <= tip, ServeBlocks(from)
  PROVE  \E blocks \in Seq(1 .. tip) : ServeInv(blocks, {})
<1>1. tip \in Nat
  BY BooksIs DEF SafeInv
<1> DEFINE S == {Batch, tip - from}
           n == Min(S)
<1>2. S \subseteq Nat /\ S # {}
  BY <1>1, Assumed
<1>3. n \in S /\ \A x \in S : n <= x
  <2> HIDE DEF S
  <2> QED BY <1>2, LeastNat
<1>4. n \in Nat /\ from + n <= tip
  BY <1>1, <1>2, <1>3
<1>5. ServeInv([i \in 1 .. n |-> from + i], {})
  BY DEF ServeBlocks
<1> HIDE DEF n
<1>6. [i \in 1 .. n |-> from + i] \in Seq(1 .. tip)
  BY <1>1, <1>4, IsASeq
<1> QED BY <1>5, <1>6

LEMMA ServeRequestSafe ==
  ASSUME SafeInv, conn.up, conn.out # <<>>, Head(conn.out).kind # "getdata",
         ServeRequest(Head(conn.out)), UNCHANGED <<manager, peer>>
  PROVE  SafeInv' /\ Carried /\ conn'.current = conn.current
<1> DEFINE m == Head(conn.out)
           g == IF IsLoad(m) THEN m.height ELSE conn.filter
           o == Tail(conn.out)
<1>1. /\ m \in ClientMsg(tip) /\ tip \in Heights /\ wire \in Seq(Msg) /\ conn.out \in Seq(Msg)
      /\ Fine(wire, conn.out, conn.pongs, conn.known, conn.blocks, tip, wallet)
      /\ conn.filter \in Nat
  BY SafeIs, TypedIs DEF SafeInv, Books
<1>2. m.height \in Nat /\ (m.kind = "getblocks" => m.height <= tip)
  BY <1>1 DEF ClientMsg, Msg
<1>3. g \in Nat
  BY <1>1, <1>2
<1>4. conn' = [conn EXCEPT !.out = o, !.filter = g]
  BY DEF ServeRequest, IsLoad
<1>5. sessions' \in 0 .. MaxSessions
  BY DEF ServeRequest, SafeInv, Books
<1>6. ASSUME NEW w \in Seq(Msg), \A f : Matching(wire, conn.out, conn.filter, f) =>
                                        Matching(w, conn.out, conn.filter, f)
      PROVE  \A f : Matching(wire, conn.out, conn.filter, f) => Matching(w, o, g, f)
  <2> HIDE DEF IsLoad, Msg
  <2> QED BY <1>1, <1>6, MatchDone
<1>7. \A x : ~ Brings(m, x)
  <2>1. m.kind \notin {"tx", "getdata"}
    BY <1>1 DEF ClientMsg
  <2> QED BY <2>1 DEF Brings
<1>8. CASE m.kind = "ping" /\ wire' = Append(wire, Message("pong", 0, <<>>, {}))
  <2> DEFINE e == Message("pong", 0, <<>>, {})
  <2>1. e \in PeerMsg(tip) /\ e \in Msg /\ e.kind = "pong"
    <3>1. <<>> \in Seq(Heights) /\ <<>> \in Seq(1 .. tip) /\ "pong" \in Kinds
      BY EmptySeq DEF Kinds
    <3>2. e \in Msg /\ e.kind = "pong" /\ e.blocks = <<>>
      BY <3>1 DEF Message, Msg
    <3> HIDE DEF e, Msg
    <3> QED BY <3>1, <3>2 DEF PeerMsg
  <2>4. Head(conn.out).kind = "ping" /\ wire' = Append(wire, e)
    BY <1>8
  <2> HIDE DEF e, Msg
  <2>2. Fine(wire', o, conn.pongs, conn.known, conn.blocks, tip, wallet)
    BY <1>1, <2>1, <2>4, FinePonged
  <2>5. wire' \in Seq(Msg)
    BY <1>1, <2>1, <2>4, AppendProperties
  <2>6. \A f : Matching(wire, conn.out, conn.filter, f) => Matching(wire', conn.out, conn.filter, f)
    <3>1. e.kind # "merkleblock"
      BY <2>1
    <3> QED BY <1>1, <2>1, <2>4, <3>1, MatchPushed
  <2>7. \A f : Matching(wire, conn.out, conn.filter, f) => Matching(wire', o, g, f)
    BY <1>6, <2>5, <2>6
  <2> HIDE DEF o, g
  <2> QED BY <1>3, <1>4, <1>5, <2>2, <2>7, ServedSafe
<1>9. ASSUME Fine(wire', conn.out, conn.pongs, conn.known, conn.blocks, tip, wallet),
             \A f : Matching(wire, conn.out, conn.filter, f) => Matching(wire', conn.out, conn.filter, f),
             m.kind # "ping"
      PROVE  SafeInv' /\ Carried /\ conn'.current = conn.current
  <2>1. ~ IsPing(m)
    <3>1. m.kind \notin {"ping", "pong"}
      BY <1>1, <1>9 DEF ClientMsg
    <3> QED BY <3>1 DEF IsPing
  <2>2. wire' \in Seq(Msg)
    <3>1. Typed(wire', conn.out, conn.pongs, conn.known, conn.blocks, tip)
      BY <1>9 DEF Fine
    <3> QED BY <3>1, TypedIs
  <2> HIDE DEF IsPing, Brings, Msg
  <2>3. Fine(wire', o, conn.pongs, conn.known, conn.blocks, tip, wallet)
    BY <1>7, <1>9, <2>1, FineDone
  <2>4. \A f : Matching(wire, conn.out, conn.filter, f) => Matching(wire', o, g, f)
    BY <1>6, <1>9, <2>2
  <2> HIDE DEF o, g
  <2> QED BY <1>3, <1>4, <1>5, <2>3, <2>4, ServedSafe
<1>10. CASE m.kind = "filterload" /\ UNCHANGED wire
  BY <1>1, <1>9, <1>10
<1>11. CASE m.kind = "getblocks" /\ ServeBlocks(m.height)
  <2>1. PICK blocks \in Seq(1 .. tip) : ServeInv(blocks, {})
    BY <1>2, <1>11, BlocksServed
  <2>2. /\ Fine(wire', conn.out, conn.pongs, conn.known, conn.blocks, tip, wallet)
        /\ \A f : Matching(wire, conn.out, conn.filter, f) =>
                        Matching(wire', conn.out, conn.filter, f)
    BY <2>1, InvServed
  <2> QED BY <1>9, <1>11, <2>2
<1>12. CASE m.kind = "mempool" /\ ServeInv(<<>>, {t \in pool : Pays[t] < conn.filter})
  <2> DEFINE txs == {t \in pool : Pays[t] < conn.filter}
  <2>1. <<>> \in Seq(1 .. tip) /\ txs \in SUBSET Tx /\ txs \cap MinedBy(tip) = {}
    BY EmptySeq DEF SafeInv, Books
  <2>3. ServeInv(<<>>, txs)
    BY <1>12
  <2> HIDE DEF txs
  <2>2. /\ Fine(wire', conn.out, conn.pongs, conn.known, conn.blocks, tip, wallet)
        /\ \A f : Matching(wire, conn.out, conn.filter, f) =>
                        Matching(wire', conn.out, conn.filter, f)
    BY <2>1, <2>3, InvServed
  <2> QED BY <1>9, <1>12, <2>2
<1> QED BY <1>8, <1>10, <1>11, <1>12 DEF ServeRequest

LEMMA ServeSafe ==
  ASSUME SafeInv, Serve
  PROVE  SafeInv' /\ Carried /\ conn'.current = conn.current
<1>1. conn.up /\ conn.out # <<>> /\ UNCHANGED <<manager, peer>>
  BY DEF Serve
<1>2. CASE Head(conn.out).kind = "getdata"
  <2>1. ServeTx(Head(conn.out)) \/ ServeBlock(Head(conn.out))
    BY <1>2 DEF Serve
  <2> QED BY <1>1, <1>2, <2>1, ServeTxSafe, ServeBlockSafe
<1>3. CASE Head(conn.out).kind # "getdata"
  <2>1. ServeRequest(Head(conn.out))
    BY <1>3 DEF Serve
  <2> QED BY <1>1, <1>3, <2>1, ServeRequestSafe
<1> QED BY <1>2, <1>3

LEMMA AnnounceSafe ==
  ASSUME SafeInv, NEW x \in Announced, Announce(x)
  PROVE  SafeInv' /\ Carried /\ conn'.current = conn.current
<1>1. /\ x \in Tx /\ x \notin pool /\ x \notin MinedBy(tip) /\ pool' = pool \cup {x}
      /\ UNCHANGED <<manager, conn, tip, sessions>>
  BY Assumed DEF Announce
<1>2. Books'
  BY <1>1 DEF SafeInv, Books, manager
<1>3. /\ Fine(wire', conn.out, conn.pongs, conn.known, conn.blocks, tip, wallet)
      /\ \A f : Matching(wire, conn.out, conn.filter, f) =>
                  Matching(wire', conn.out, conn.filter, f)
  <2>1. CASE wire' = wire
    BY <2>1, SafeIs
  <2>2. CASE wire' = Append(wire, Message("inv", 0, <<>>, {x}))
    <3>1. <<>> \in Seq(1 .. tip) /\ {x} \in SUBSET Tx /\ {x} \cap MinedBy(tip) = {}
      BY <1>1, EmptySeq
    <3> QED BY <2>2, <3>1, InvPushed
  <2> QED BY <2>1, <2>2 DEF Announce
<1>4. Joined(conn, wire', tip, wallet)
  BY <1>3 DEF Joined, SafeInv, Connection
<1>5. ~ conn.up => wire' = wire
  BY DEF Announce
<1>6. Connection'
  BY <1>1, <1>4, <1>5 DEF Connection, SafeInv, manager
<1>7. Carried
  BY <1>1, <1>3 DEF Carried
<1> QED BY <1>1, <1>2, <1>6, <1>7 DEF SafeInv

LEMMA ConnLater ==
  ASSUME NEW c, NEW w, NEW t, NEW u \in Heights, NEW xs, Joined(c, w, t, xs), t <= u
  PROVE  Joined(c, w, u, xs)
<1>1. Fine(w, c.out, c.pongs, c.known, c.blocks, t, xs)
  BY DEF Joined
<1>2. Fine(w, c.out, c.pongs, c.known, c.blocks, u, xs)
  BY <1>1, FineLater
<1>3. c.blocks \in Seq(1 .. u) /\ c.out \in Seq(ClientMsg(u))
  BY <1>2 DEF Fine, Typed
<1>4. c \in ConnType(t) /\ t \in Nat /\ u \in Nat
  BY JoinedIs, MinedSeq
<1>5. BlockType(t) \subseteq BlockType(u) /\ 0 .. t \subseteq 0 .. u
  BY <1>4 DEF BlockType
<1>6. c \in ConnType(u)
  <2> HIDE DEF BlockType, ClientMsg, Callbacks
  <2> QED BY <1>3, <1>4, <1>5 DEF ConnType
<1> QED BY <1>2, <1>6 DEF Joined

LEMMA MineSafe ==
  ASSUME SafeInv, Mine
  PROVE  SafeInv' /\ Carried /\ conn'.current = conn.current
<1> DEFINE e == Message("inv", 0, <<tip + 1>>, {})
           w == Append(wire, e)
<1>1. /\ tip + 1 \in Heights /\ tip' = tip + 1 /\ pool' = pool \ Mined[tip + 1]
      /\ UNCHANGED <<manager, conn, sessions>> /\ tip \in Nat /\ tip \in Heights
      /\ wire' = IF conn.up THEN w ELSE wire
  BY BooksIs DEF Mine, SafeInv
<1>2. Books'
  <2>1. MinedBy(tip + 1) = MinedBy(tip) \cup Mined[tip + 1]
    BY <1>1, MinedByIs
  <2>2. 0 .. tip \subseteq 0 .. tip' /\ lastBlock + 2 .. tip \subseteq lastBlock + 2 .. tip'
    BY <1>1 DEF SafeInv, Books
  <2>3. pool' \in SUBSET Tx /\ pool' \cap MinedBy(tip') = {}
    BY <1>1, <2>1 DEF SafeInv, Books
  <2> QED BY <1>1, <2>2, <2>3 DEF SafeInv, Books, manager
<1>3. Joined(conn, wire, tip', wallet)
  <2>1. Joined(conn, wire, tip, wallet)
    BY DEF SafeInv, Connection
  <2>2. tip' \in Heights /\ tip <= tip'
    BY <1>1
  <2> QED BY <2>1, <2>2, ConnLater
<1>4. e \in PeerMsg(tip') /\ e \in Msg /\ e.kind = "inv" /\ e.txs = {}
  <2> DEFINE u == tip + 1
  <2>1. u \in 1 .. u /\ u \in Heights
    BY <1>1
  <2> HIDE DEF u
  <2> DEFINE b == <<u>>
             i == Message("inv", 0, b, {})
  <2>2. b \in Seq(1 .. u) /\ {} \in SUBSET Tx
    BY <2>1
  <2> HIDE DEF b
  <2>3. i \in PeerMsg(u) /\ i \in Msg /\ i.kind = "inv" /\ i.txs = {}
    <3> HIDE DEF PeerMsg, Msg, Message
    <3> QED BY <2>1, <2>2, InvIs
  <2> HIDE DEF PeerMsg, Msg, Message
  <2> QED BY <1>1, <2>3 DEF u, b
<1> HIDE DEF e
<1>5. Fine(w, conn.out, conn.pongs, conn.known, conn.blocks, tip', wallet)
  <2>1. Fine(wire, conn.out, conn.pongs, conn.known, conn.blocks, tip', wallet)
    BY <1>3 DEF Joined
  <2> QED BY <1>4, <2>1, FinePushed
<1>6. \A f : Matching(wire, conn.out, conn.filter, f) => Matching(w, conn.out, conn.filter, f)
  <2>1. wire \in Seq(Msg) /\ e.kind # "merkleblock"
    BY <1>4, SafeIs
  <2> HIDE DEF Msg
  <2> QED BY <1>4, <2>1, MatchPushed
<1> HIDE DEF w
<1>7. Joined(conn, wire', tip', wallet)
  BY <1>1, <1>3, <1>5 DEF Joined
<1>8. Connection'
  BY <1>1, <1>7 DEF Connection, SafeInv, manager
<1>9. Carried
  BY <1>1, <1>6 DEF Carried
<1> QED BY <1>1, <1>2, <1>8, <1>9 DEF SafeInv

-----------------------------------------------------------------------------
LEMMA RangeConcat ==
  ASSUME NEW S, NEW a \in Seq(S), NEW b \in Seq(S)
  PROVE  a \o b \in Seq(S) /\ Range(a \o b) \subseteq Range(a) \cup Range(b)
<1>1. /\ a \o b \in Seq(S) /\ Len(a \o b) = Len(a) + Len(b)
      /\ \A i \in 1 .. Len(a) + Len(b) : (a \o b)[i] = IF i <= Len(a) THEN a[i] ELSE b[i - Len(a)]
  BY ConcatProperties
<1>2. /\ Len(a) \in Nat /\ Len(b) \in Nat
      /\ DOMAIN a = 1 .. Len(a) /\ DOMAIN b = 1 .. Len(b) /\ DOMAIN (a \o b) = 1 .. Len(a \o b)
  BY <1>1, LenProperties
<1> DEFINE c == a \o b
<1> HIDE DEF c
<1>3. ASSUME NEW i \in DOMAIN c PROVE c[i] \in Range(a) \cup Range(b)
  <2>1. i \in 1 .. Len(a) + Len(b)
    BY <1>1, <1>2 DEF c
  <2>2. CASE i <= Len(a)
    BY <1>1, <1>2, <2>1, <2>2 DEF Range, c
  <2>3. CASE ~ i <= Len(a)
    <3>1. i - Len(a) \in DOMAIN b /\ c[i] = b[i - Len(a)]
      BY <1>1, <1>2, <2>1, <2>3 DEF c
    <3> QED BY <3>1 DEF Range
  <2> QED BY <2>2, <2>3
<1>4. Range(c) \subseteq Range(a) \cup Range(b)
  BY <1>3 DEF Range
<1> QED BY <1>1, <1>4 DEF c

\* Data is asked for, of transactions that were just announced.
LEMMA DataAsked ==
  ASSUME NEW w, NEW t, NEW xs, NEW c \in ConnType(t), NEW known, NEW ts \in SUBSET Tx,
         Fine(w, c.out, c.pongs, known, c.blocks, t, xs), c.known = known \cup ts,
         Updating(c.needs, c.pongs),
         \A x \in ts : \A i \in DOMAIN Line(w, c.out) : ~ Shows(Line(w, c.out)[i], x),
         NEW blocks \in Seq(1 .. t),
         blocks # <<>> => Updating(FALSE, c.pongs) /\ Range(blocks) \subseteq Range(c.blocks)
  PROVE  LET d == SendGetdata(c, blocks, ts \ known)
         IN Joined(d, w, t, xs) /\ Rest(c, d) /\ Matches(c, d, w)
<1> DEFINE m == Message("getdata", 0, blocks, ts \ known)
           d == Send(c, m)
<1>0. Typed(w, c.out, c.pongs, known, c.blocks, t)
  BY DEF Fine
<1>1. t \in Heights /\ t \in Nat /\ w \in Seq(Msg) /\ c.out \in Seq(Msg) /\ known \in SUBSET Tx
  BY <1>0, TypedIs DEF Typed
<1>2. m \in ClientMsg(t) /\ m.kind = "getdata" /\ m.blocks = blocks /\ m.txs = ts \ known /\ m \in Msg
  <2>1. blocks \in Seq(Heights) /\ "getdata" \in Kinds
    BY <1>1, SeqHeights DEF Kinds
  <2>2. m \in Msg /\ m.kind = "getdata" /\ m.blocks = blocks /\ m.txs = ts \ known
    BY <2>1 DEF Message, Msg
  <2> HIDE DEF m, Msg
  <2> QED BY <2>2 DEF ClientMsg
<1>3. SendGetdata(c, blocks, ts \ known) = IF blocks = <<>> /\ ts \ known = {} THEN c ELSE d
  BY DEF SendGetdata
<1> HIDE DEF m
<1>4. ~ IsPing(m) /\ ~ IsLoad(m) /\ (Asks(m) => blocks # <<>>) /\ \A x \in ts \ known : Brings(m, x)
  BY <1>2 DEF IsPing, IsLoad, Asks, Brings
<1>5. /\ d \in ConnType(t) /\ Rest(c, d) /\ d.out = Append(c.out, m) /\ d.pongs = c.pongs
      /\ d.known = c.known /\ d.blocks = c.blocks /\ d.needs = c.needs
  BY <1>2, SendIs
<1> HIDE DEF d
<1>6. CASE blocks = <<>> /\ ts \ known = {}
  <2>1. c.known = known
    BY <1>1, <1>6
  <2> QED BY <1>3, <1>6, <2>1 DEF Joined, Rest, Matches
<1>7. CASE ~ (blocks = <<>> /\ ts \ known = {})
  <2>1. Asks(m) => /\ \A k \in DOMAIN c.pongs : c.pongs[k] # "updateFilterPingDone"
                   /\ Range(m.blocks) \subseteq Range(c.blocks)
    BY <1>2, <1>4, NotReplacing
  <2> HIDE DEF IsPing, IsLoad, Asks, Msg, ClientMsg, Brings, Shows
  <2>2. Fine(w, Append(c.out, m), c.pongs, known \cup ts, c.blocks, t, xs)
    BY <1>2, <1>4, <2>1, FineSent
  <2>3. \A f : Matching(w, c.out, c.filter, f) => Matching(w, d.out, d.filter, f)
    BY <1>1, <1>2, <1>4, <1>5, MatchSent DEF Rest
  <2>4. Joined(d, w, t, xs)
    BY <1>5, <2>2 DEF Joined
  <2> QED BY <1>3, <1>5, <1>7, <2>3, <2>4 DEF Matches
<1> QED BY <1>6, <1>7

LEMMA AcceptInvSafe ==
  ASSUME SafeInv, AcceptInv
  PROVE  SafeInv' /\ Carried /\ conn'.current = conn.current
<1> DEFINE m == Head(wire)
           w == Tail(wire)
           again == Len(m.blocks) = 1 /\ m.blocks[1] = conn.lastHash
           new == IF again THEN <<>> ELSE m.blocks
           wanted == IF conn.needs THEN <<>> ELSE new
           heard == conn.blocks \o new
           known == conn.known \cup m.txs
           hash == IF Len(new) = 1 THEN new[1] ELSE conn.lastHash
           c == [conn EXCEPT !.blocks = heard, !.known = known, !.lastHash = hash]
           asked == SendGetdata(c, wanted, m.txs \ conn.known)
<1>1. /\ conn.up /\ wire # <<>> /\ m.kind = "inv" /\ wire' = w
      /\ conn' = IF Len(wanted) >= Batch THEN SendGetblocks(asked, Last(wanted)) ELSE asked
      /\ UNCHANGED <<manager, peer, sessions>>
  BY DEF AcceptInv, Arrives
<1>2. /\ conn \in ConnType(tip) /\ wire \in Seq(Msg) /\ m \in PeerMsg(tip)
      /\ tip \in Heights /\ tip \in Nat
      /\ Fine(wire, conn.out, conn.pongs, conn.known, conn.blocks, tip, wallet)
      /\ Updating(conn.needs, conn.pongs) /\ conn.needs \in BOOLEAN
      /\ conn.known \in SUBSET Tx /\ conn.blocks \in Seq(1 .. tip)
  BY <1>1, SafeIs, TypedIs, BooksIs DEF SafeInv
<1>3. m.blocks \in Seq(1 .. tip) /\ m.txs \in SUBSET Tx
  BY <1>2 DEF PeerMsg, Msg
<1> HIDE DEF m
<1>4. /\ new \in Seq(1 .. tip) /\ wanted \in Seq(1 .. tip)
      /\ Range(new) \subseteq Range(m.blocks) /\ (wanted # <<>> => wanted = new /\ ~ conn.needs)
  <2>1. <<>> \in Seq(1 .. tip) /\ Range(<<>>) = {}
    BY EmptySeq, RangeEmpty
  <2> QED BY <1>2, <1>3, <2>1
<1> HIDE DEF new
<1>5. /\ heard \in Seq(1 .. tip) /\ Range(heard) \subseteq Range(conn.blocks) \cup Range(m.blocks)
      /\ Range(new) \subseteq Range(heard)
  <2>1. heard \in Seq(1 .. tip) /\ Range(heard) \subseteq Range(conn.blocks) \cup Range(new)
    BY <1>2, <1>4, RangeConcat
  <2>2. Range(new) \subseteq Range(heard)
    <3> SUFFICES ASSUME NEW i \in DOMAIN new PROVE new[i] \in Range(heard)
      BY DEF Range
    <3>4. Len(conn.blocks) \in Nat /\ Len(new) \in Nat /\ i \in 1 .. Len(new)
      BY <1>2, <1>4, LenProperties
    <3>5. /\ Len(heard) = Len(conn.blocks) + Len(new)
          /\ \A j \in 1 .. Len(conn.blocks) + Len(new) :
               heard[j] = IF j <= Len(conn.blocks) THEN conn.blocks[j] ELSE new[j - Len(conn.blocks)]
      BY <1>2, <1>4, ConcatProperties
    <3> HIDE DEF heard
    <3>6. DOMAIN heard = 1 .. Len(heard)
      BY <2>1, LenProperties
    <3>1. /\ Len(conn.blocks) \in Nat /\ Len(new) \in Nat /\ i \in 1 .. Len(new)
          /\ DOMAIN heard = 1 .. Len(heard) /\ Len(heard) = Len(conn.blocks) + Len(new)
          /\ \A j \in 1 .. Len(conn.blocks) + Len(new) :
               heard[j] = IF j <= Len(conn.blocks) THEN conn.blocks[j] ELSE new[j - Len(conn.blocks)]
      BY <3>4, <3>5, <3>6
    <3> DEFINE j == Len(conn.blocks) + i
    <3>2. j \in 1 .. Len(heard) /\ ~ j <= Len(conn.blocks) /\ j - Len(conn.blocks) = i
      BY <3>1
    <3> HIDE DEF j
    <3>3. heard[j] = new[i] /\ j \in DOMAIN heard
      BY <3>1, <3>2
    <3> QED BY <3>3 DEF Range
  <2> QED BY <1>4, <2>1, <2>2
<1> HIDE DEF heard
<1>6. hash \in Nat
  <2>1. CASE Len(new) = 1
    <3>1. 1 \in DOMAIN new
      BY <1>4, <2>1, LenProperties
    <3>2. new[1] \in 1 .. tip
      BY <1>4, <3>1, ElementOfSeq, LenProperties
    <3> QED BY <1>2, <2>1, <3>2
  <2>2. CASE Len(new) # 1
    <3> HIDE DEF BlockType, ClientMsg, Callbacks
    <3> QED BY <1>2, <2>2 DEF ConnType
  <2> QED BY <2>1, <2>2
<1> HIDE DEF wanted, hash
<1>7. known \in SUBSET Tx
  BY <1>2, <1>3
<1> DEFINE k == known
<1>8. k = conn.known \cup m.txs /\ k \in SUBSET Tx
  BY <1>7
<1> HIDE DEF k
<1>9. c = [conn EXCEPT !.blocks = heard, !.known = k, !.lastHash = hash]
  BY DEF k
<1> HIDE DEF c
<1>10. c \in ConnType(tip)
  <2> HIDE DEF BlockType, ClientMsg, Callbacks
  <2> QED BY <1>2, <1>5, <1>6, <1>8, <1>9 DEF ConnType
<1>11. /\ c.out = conn.out /\ c.pongs = conn.pongs /\ c.known = conn.known \cup m.txs
       /\ c.blocks = heard /\ c.needs = conn.needs /\ Rest(conn, c)
  <2> HIDE DEF BlockType, ClientMsg, Callbacks
  <2> QED BY <1>2, <1>8, <1>9 DEF ConnType, Rest
<1>12. /\ Fine(w, conn.out, conn.pongs, conn.known, heard, tip, wallet)
       /\ \A x \in m.txs : \A i \in DOMAIN Line(w, conn.out) : ~ Shows(Line(w, conn.out)[i], x)
  BY <1>1, <1>2, <1>5, FineHeard DEF m
<1>13. Joined(asked, w, tip, wallet) /\ Rest(c, asked) /\ Matches(c, asked, w)
  <2>1. wanted # <<>> => Updating(FALSE, c.pongs) /\ Range(wanted) \subseteq Range(c.blocks)
    <3>1. wanted # <<>> => conn.needs = FALSE
      BY <1>2, <1>4
    <3> QED BY <1>2, <1>4, <1>5, <1>11, <3>1
  <2>2. Fine(w, c.out, c.pongs, conn.known, c.blocks, tip, wallet) /\ Updating(c.needs, c.pongs)
    BY <1>2, <1>11, <1>12
  <2>3. \A x \in m.txs : \A i \in DOMAIN Line(w, c.out) : ~ Shows(Line(w, c.out)[i], x)
    BY <1>11, <1>12
  <2> HIDE DEF w
  <2> QED BY <1>3, <1>4, <1>10, <1>11, <2>1, <2>2, <2>3, DataAsked
<1> HIDE DEF asked, w
<1>14. Joined(conn', w, tip, wallet) /\ Rest(c, conn') /\ Matches(c, conn', w)
  <2>1. CASE Len(wanted) >= Batch
    <3>1. Len(wanted) \in Nat /\ DOMAIN wanted = 1 .. Len(wanted) /\ Len(wanted) > 0
      BY <1>4, <2>1, Assumed, LenProperties
    <3>2. Last(wanted) \in 0 .. tip
      <4>0. Len(wanted) \in 1 .. Len(wanted)
        BY <3>1
      <4>1. wanted[Len(wanted)] \in 1 .. tip
        BY <1>4, <4>0, ElementOfSeq
      <4> QED BY <1>2, <4>1 DEF Last
    <3> DEFINE d == SendGetblocks(asked, Last(wanted))
    <3>3. Joined(d, w, tip, wallet) /\ Rest(asked, d) /\ Matches(asked, d, w)
      BY <1>13, <3>2, GetblocksSent
    <3> HIDE DEF d
    <3>4. conn' = d
      BY <1>1, <2>1 DEF d
    <3> QED BY <1>13, <3>3, <3>4 DEF Rest, Matches
  <2>2. CASE ~ Len(wanted) >= Batch
    BY <1>1, <1>13, <2>2
  <2> QED BY <2>1, <2>2
<1>15. conn'.up = conn.up /\ conn'.current = conn.current
  BY <1>11, <1>14 DEF Rest
<1>16. \A f : Matching(wire, conn.out, conn.filter, f) => Matching(w, conn'.out, conn'.filter, f)
  <2>1. \A f : Matching(wire, conn.out, conn.filter, f) => Matching(w, conn.out, conn.filter, f)
    <3> HIDE DEF Msg
    <3> QED BY <1>1, <1>2, MatchArrived DEF w
  <2> QED BY <1>11, <1>14, <2>1 DEF Matches, Rest
<1>17. Connection' /\ Carried
  BY <1>1, <1>14, <1>15, <1>16 DEF Connection, SafeInv, Carried, manager, peer
<1>18. Books'
  BY <1>1 DEF SafeInv, Books, manager, peer
<1> QED BY <1>15, <1>17, <1>18 DEF SafeInv

-----------------------------------------------------------------------------
\* A transaction has arrived for a block that is collected.
LEMMA TxCollected ==
  ASSUME NEW b, NEW t \in Nat, b \in BlockType(t), NEW x \in Tx, NEW xs, Collected(b, xs)
  PROVE  LET d == [b EXCEPT !.missing = @ \ {x}]
         IN /\ d \in BlockType(t) /\ Collected(d, xs \cup {x})
            /\ d.height = b.height /\ d.txs = b.txs
<1> DEFINE d == [b EXCEPT !.missing = @ \ {x}]
<1>1. /\ b \in [height : 0 .. t, txs : SUBSET Tx, missing : SUBSET Tx]
      /\ IF b.height = 0 THEN b = Nothing ELSE b.txs \subseteq Mined[b.height]
  BY DEF BlockType
<1>2. /\ d \in [height : 0 .. t, txs : SUBSET Tx, missing : SUBSET Tx]
      /\ d.height = b.height /\ d.txs = b.txs /\ d.missing = b.missing \ {x}
  BY <1>1
<1>3. b.height = 0 => d = Nothing
  BY <1>1 DEF Nothing
<1> HIDE DEF d
<1>4. d \in BlockType(t)
  BY <1>1, <1>2, <1>3 DEF BlockType
<1>5. Collected(d, xs \cup {x})
  BY <1>2 DEF Collected
<1> QED BY <1>2, <1>4, <1>5 DEF d

LEMMA WalletGrows ==
  ASSUME NEW xs \in SUBSET Tx, NEW t \in Tx, NEW filter, NEW addresses, Covers(filter, addresses, xs)
  PROVE  LET ys == xs \cup {t}
             enough == Highest(ys) + 1 + Gap
         IN Covers(IF filter # 0 /\ filter < enough THEN 0 ELSE filter,
                   Max({addresses, enough}), ys)
<1> DEFINE ys == xs \cup {t}
           enough == Highest(ys) + 1 + Gap
           most == Max({addresses, enough})
<1>1. ys \in SUBSET Tx /\ xs \in SUBSET ys
  OBVIOUS
<1>2. Filter(ys) \in Nat /\ enough \in Nat /\ Filter(xs) \in Nat /\ Filter(xs) <= Filter(ys)
  <2> HIDE DEF ys
  <2> QED BY <1>1, FilterIs, FilterGrows
<1>3. addresses \in Nat /\ filter \in 0 .. addresses /\ filter <= Filter(xs)
  BY DEF Covers
<1>4. enough = Highest(ys) + 1 + Gap
  OBVIOUS
<1> HIDE DEF ys, enough
<1>5. most = IF addresses <= enough THEN enough ELSE addresses
  BY <1>2, <1>3, MaxTwo
<1>6. most \in Nat /\ filter \in 0 .. most /\ 0 \in 0 .. most
  BY <1>2, <1>3, <1>5
<1> HIDE DEF most
<1>7. Covers(IF filter # 0 /\ filter < enough THEN 0 ELSE filter, most, ys)
  BY <1>2, <1>3, <1>4, <1>6 DEF Covers
<1> QED BY <1>7 DEF most, enough, ys

LEMMA AcceptTxSafe ==
  ASSUME SafeInv, AcceptTx
  PROVE  /\ SafeInv' /\ Carried
         /\ conn'.current.height = conn.current.height /\ conn'.current.txs = conn.current.txs
<1> DEFINE m == Head(wire)
           w == Tail(wire)
<1>0. /\ conn.up /\ wire # <<>> /\ m.kind = "tx" /\ wire' = w
      /\ UNCHANGED <<lastBlock, estimatedHeight, orphans, lastOrphan, confirmed, peer, sessions>>
  BY DEF AcceptTx, Arrives
<1>1. PICK t \in m.txs :
        LET c == [conn EXCEPT !.current.missing = @ \ {t}]
            xs == wallet \cup {t}
            enough == Highest(xs) + 1 + Gap
            replaced == bloomFilter # 0 /\ bloomFilter < enough
        IN /\ wallet' = xs
           /\ generated' = Max({generated, enough})
           /\ bloomFilter' = IF replaced THEN 0 ELSE bloomFilter
           /\ conn' = IF replaced THEN UpdateFilter(c) ELSE c
  BY DEF AcceptTx
<1>2. /\ conn \in ConnType(tip) /\ wire \in Seq(Msg) /\ m \in PeerMsg(tip)
      /\ tip \in Heights /\ tip \in Nat
      /\ Fine(wire, conn.out, conn.pongs, conn.known, conn.blocks, tip, wallet)
      /\ Updating(conn.needs, conn.pongs) /\ Collected(conn.current, wallet)
  BY <1>0, SafeIs, TypedIs, BooksIs DEF SafeInv, Connection
<1>3. m.txs = {t} /\ t \in Tx
  BY <1>0, <1>2 DEF PeerMsg, Msg
<1> DEFINE b == [conn.current EXCEPT !.missing = @ \ {t}]
           c == [conn EXCEPT !.current = b]
           xs == wallet \cup {t}
<1>4. /\ b \in BlockType(tip) /\ Collected(b, xs)
      /\ b.height = conn.current.height /\ b.txs = conn.current.txs
  <2>1. conn.current \in BlockType(tip)
    <3> HIDE DEF BlockType, ClientMsg, Callbacks
    <3> QED BY <1>2 DEF ConnType
  <2> HIDE DEF BlockType
  <2> QED BY <1>2, <1>3, <2>1, TxCollected
<1>5. c = [conn EXCEPT !.current.missing = @ \ {t}]
  OBVIOUS
<1> HIDE DEF b
<1>6. c \in ConnType(tip) /\ Alike(conn, c) /\ c.up = conn.up /\ c.current = b
  <2> HIDE DEF BlockType, ClientMsg, Callbacks
  <2> QED BY <1>2, <1>4 DEF ConnType, Alike
<1> HIDE DEF c
<1>7. Fine(w, conn.out, conn.pongs, conn.known, conn.blocks, tip, xs)
  <2>1. ~ IsPing(m) /\ wallet \subseteq xs /\ \A x : Brings(m, x) => x \in xs
    BY <1>0, <1>3 DEF IsPing, Brings
  <2> HIDE DEF IsPing, Brings, xs
  <2> QED BY <1>0, <1>2, <2>1, FineArrived
<1>8. Joined(c, w, tip, xs)
  BY <1>2, <1>6, <1>7 DEF Joined, Alike
<1>9. \A f : Matching(wire, conn.out, conn.filter, f) => Matching(w, c.out, c.filter, f)
  <2> HIDE DEF Msg
  <2> QED BY <1>0, <1>2, <1>6, MatchArrived DEF Alike
<1> HIDE DEF w
<1>10. /\ Joined(conn', w, tip, xs) /\ conn'.up = conn.up /\ conn'.current = b
       /\ Matches(c, conn', w)
  <2>1. conn' = UpdateFilter(c) \/ conn' = c
    BY <1>1, <1>5
  <2>2. Joined(UpdateFilter(c), w, tip, xs) /\ Rest(c, UpdateFilter(c)) /\ Matches(c, UpdateFilter(c), w)
    BY <1>8, FilterUpdated
  <2>3. Rest(c, c) /\ Matches(c, c, w)
    BY DEF Rest, Matches
  <2> QED BY <1>6, <1>8, <2>1, <2>2, <2>3 DEF Rest
<1>11. wallet' = xs /\ tip' = tip
  BY <1>0, <1>1 DEF peer
<1>12. Connection'
  BY <1>0, <1>4, <1>10, <1>11 DEF Connection
<1>13. Carried
  BY <1>0, <1>9, <1>10 DEF Carried, Matches
<1>14. Books'
  <2>1. Covers(bloomFilter', generated', xs)
    <3> DEFINE enough == Highest(xs) + 1 + Gap
    <3>1. /\ generated' = Max({generated, enough})
          /\ bloomFilter' = IF bloomFilter # 0 /\ bloomFilter < enough THEN 0 ELSE bloomFilter
      BY <1>1
    <3>2. wallet \in SUBSET Tx /\ Covers(bloomFilter, generated, wallet)
      BY DEF SafeInv, Books
    <3> QED BY <1>3, <3>1, <3>2, WalletGrows
  <2>2. xs \in SUBSET Tx /\ wallet \subseteq xs
    BY <1>3 DEF SafeInv, Books
  <2> HIDE DEF xs
  <2> QED BY <1>0, <1>11, <2>1, <2>2 DEF SafeInv, Books, peer
<1> QED BY <1>4, <1>10, <1>12, <1>13, <1>14 DEF SafeInv

LEMMA AcceptMerkleblockSafe ==
  ASSUME SafeInv, AcceptMerkleblock
  PROVE  /\ SafeInv' /\ Carried
         /\ conn'.current.height = Head(wire).height /\ conn'.current.txs = Head(wire).txs
<1> DEFINE m == Head(wire)
           w == Tail(wire)
           b == [height |-> m.height, txs |-> m.txs, missing |-> m.txs \ conn.known]
           c == [conn EXCEPT !.current = b]
<1>1. /\ conn.up /\ wire # <<>> /\ m.kind = "merkleblock" /\ wire' = w /\ conn' = c
      /\ UNCHANGED <<manager, peer, sessions>>
  BY DEF AcceptMerkleblock, Arrives
<1>2. /\ conn \in ConnType(tip) /\ wire \in Seq(Msg) /\ m \in PeerMsg(tip)
      /\ tip \in Heights /\ tip \in Nat
      /\ Fine(wire, conn.out, conn.pongs, conn.known, conn.blocks, tip, wallet)
      /\ Updating(conn.needs, conn.pongs) /\ conn.known \in SUBSET Tx
  BY <1>1, SafeIs, TypedIs, BooksIs DEF SafeInv
<1>3. m.height \in 1 .. tip /\ m.txs \subseteq Mined[m.height] /\ m.txs \in SUBSET Tx
  BY <1>1, <1>2 DEF PeerMsg, Msg
<1>4. m.txs \cap conn.known \subseteq wallet
  BY <1>1, <1>2, FineShown
<1>5. b \in BlockType(tip) /\ Collected(b, wallet) /\ b.height = m.height /\ b.txs = m.txs
  <2>1. b.height = m.height /\ b.txs = m.txs /\ b.missing = m.txs \ conn.known
    OBVIOUS
  <2>2. b \in [height : 0 .. tip, txs : SUBSET Tx, missing : SUBSET Tx]
    BY <1>2, <1>3
  <2> HIDE DEF b, m
  <2>3. b.height # 0
    BY <1>2, <1>3, <2>1
  <2> QED BY <1>3, <1>4, <2>1, <2>2, <2>3 DEF BlockType, Collected
<1> HIDE DEF b
<1>6. c \in ConnType(tip) /\ Alike(conn, c) /\ c.up = conn.up /\ c.current = b
  <2> HIDE DEF BlockType, ClientMsg, Callbacks
  <2> QED BY <1>2, <1>5 DEF ConnType, Alike
<1> HIDE DEF c
<1>7. Fine(w, conn.out, conn.pongs, conn.known, conn.blocks, tip, wallet)
  <2>1. ~ IsPing(m) /\ wallet \subseteq wallet /\ \A x : Brings(m, x) => x \in wallet
    BY <1>1 DEF IsPing, Brings
  <2> HIDE DEF IsPing, Brings
  <2> QED BY <1>1, <1>2, <2>1, FineArrived
<1>8. Joined(c, w, tip, wallet)
  BY <1>2, <1>6, <1>7 DEF Joined, Alike
<1>9. \A f : Matching(wire, conn.out, conn.filter, f) => Matching(w, c.out, c.filter, f)
  <2> HIDE DEF Msg
  <2> QED BY <1>1, <1>2, <1>6, MatchArrived DEF Alike
<1> HIDE DEF w
<1>10. tip' = tip /\ wallet' = wallet
  BY <1>1 DEF manager, peer
<1>11. Connection'
  BY <1>1, <1>5, <1>6, <1>8, <1>10 DEF Connection
<1>12. Carried
  BY <1>1, <1>6, <1>9 DEF Carried
<1>13. Books'
  BY <1>1 DEF SafeInv, Books, manager, peer
<1> QED BY <1>1, <1>5, <1>6, <1>11, <1>12, <1>13 DEF SafeInv

-----------------------------------------------------------------------------
\* c is the connection conn when a pong has arrived, with w left on the wire.
Ponged(c, w) ==
  /\ c \in ConnType(tip) /\ Rest(conn, c) /\ c.needs = conn.needs
  /\ Fine(w, c.out, c.pongs, c.known, c.blocks, tip, wallet)
  /\ \A f : Matching(wire, conn.out, conn.filter, f) => Matching(w, c.out, c.filter, f)

LEMMA PongArrived ==
  ASSUME SafeInv, Arrives("pong")
  PROVE  LET w == Tail(wire)
             c == [conn EXCEPT !.pongs = Tail(@)]
             callback == Head(conn.pongs)
         IN /\ Ponged(c, w) /\ conn.up
            /\ callback \notin Replacing => Joined(c, w, tip, wallet)
            /\ callback \in Replacing => conn.needs /\ Updating(FALSE, c.pongs)
            /\ callback = "updateFilterPingDone" =>
                 \A i \in DOMAIN Line(w, c.out) : ~ Asks(Line(w, c.out)[i])
<1> DEFINE w == Tail(wire)
           p == Tail(conn.pongs)
           c == [conn EXCEPT !.pongs = p]
           callback == Head(conn.pongs)
<1>1. conn.up /\ wire # <<>> /\ Head(wire).kind = "pong"
  BY DEF Arrives
<1>2. /\ conn \in ConnType(tip) /\ wire \in Seq(Msg)
      /\ Fine(wire, conn.out, conn.pongs, conn.known, conn.blocks, tip, wallet)
      /\ Updating(conn.needs, conn.pongs) /\ conn.needs \in BOOLEAN
      /\ conn.pongs \in Seq(Callbacks)
  BY SafeIs
<1>3. /\ conn.pongs # <<>> /\ Fine(w, conn.out, p, conn.known, conn.blocks, tip, wallet)
      /\ callback = "updateFilterPingDone" =>
           \A i \in DOMAIN Line(w, conn.out) : ~ Asks(Line(w, conn.out)[i])
  BY <1>1, <1>2, FinePong
<1>4. p \in Seq(Callbacks)
  BY <1>3 DEF Fine, Typed
<1>5. /\ callback \notin Replacing => Updating(conn.needs, p)
      /\ callback \in Replacing => conn.needs /\ Updating(FALSE, p)
  <2> HIDE DEF Callbacks, Replacing
  <2> QED BY <1>2, <1>3, UpdatingTail
<1> HIDE DEF p
<1>6. /\ c \in ConnType(tip) /\ Rest(conn, c) /\ c.needs = conn.needs /\ c.out = conn.out
      /\ c.pongs = p /\ c.known = conn.known /\ c.blocks = conn.blocks
  <2> HIDE DEF BlockType, ClientMsg, Callbacks
  <2> QED BY <1>2, <1>4 DEF ConnType, Rest
<1> HIDE DEF c
<1>7. \A f : Matching(wire, conn.out, conn.filter, f) => Matching(w, c.out, c.filter, f)
  <2> HIDE DEF Msg
  <2> QED BY <1>1, <1>2, <1>6, MatchArrived DEF Rest
<1> HIDE DEF w, callback, Replacing
<1>8. Fine(w, c.out, c.pongs, c.known, c.blocks, tip, wallet)
  BY <1>3, <1>6
<1>9. Ponged(c, w)
  BY <1>6, <1>7, <1>8 DEF Ponged
<1>10. callback \notin Replacing => Joined(c, w, tip, wallet)
  BY <1>5, <1>6, <1>8 DEF Joined
<1>11. callback \in Replacing => conn.needs /\ Updating(FALSE, c.pongs)
  BY <1>5, <1>6
<1>12. callback = "updateFilterPingDone" =>
         \A i \in DOMAIN Line(w, c.out) : ~ Asks(Line(w, c.out)[i])
  BY <1>3, <1>6
<1> QED BY <1>1, <1>9, <1>10, <1>11, <1>12 DEF w, c, p, callback

\* The new connection d is as c, but for what it has sent and waits for.
Answered(c, d, w) ==
  /\ Joined(d, w, tip, wallet) /\ Rest(c, d) /\ Matches(c, d, w)

LEMMA AnsweredTwice ==
  ASSUME NEW c, NEW d, NEW e, NEW w, Rest(c, d), Matches(c, d, w), Answered(d, e, w)
  PROVE  Answered(c, e, w)
BY DEF Answered, Rest, Matches

LEMMA FilterLoadDone ==
  ASSUME SafeInv, NEW c, NEW w, Ponged(c, w), Updating(FALSE, c.pongs), UpdateFilterLoadDone(c)
  PROVE  Answered(c, conn', w)
<1> DEFINE l == [c EXCEPT !.needs = FALSE]
           r == RerequestBlocks(l, lastBlock)
           e == SendPing(r, "updateFilterRerequestDone")
           n == SendMempool(l)
<1>1. /\ l \in ConnType(tip) /\ Rest(c, l) /\ l.needs = FALSE /\ l.out = c.out
      /\ l.pongs = c.pongs /\ l.known = c.known /\ l.blocks = c.blocks
  <2>1. c \in ConnType(tip)
    BY DEF Ponged
  <2> HIDE DEF BlockType, ClientMsg, Callbacks
  <2> QED BY <2>1 DEF ConnType, Rest
<1> HIDE DEF l
<1>2. Joined(l, w, tip, wallet)
  BY <1>1 DEF Joined, Ponged
<1>3. Matches(c, l, w)
  BY <1>1 DEF Matches, Rest
<1>4. Answered(l, r, w)
  BY <1>1, <1>2, BlocksRerequested DEF Answered
<1> HIDE DEF r
<1>5. Answered(r, e, w)
  <2>1. "updateFilterRerequestDone" \in Callbacks /\ "updateFilterRerequestDone" \notin Replacing
    BY DEF Callbacks, Replacing
  <2>2. Joined(r, w, tip, wallet)
    BY <1>4 DEF Answered
  <2> HIDE DEF Callbacks, Replacing
  <2> QED BY <2>1, <2>2, PingSent DEF Answered
<1>6. Answered(l, n, w)
  BY <1>2, MempoolSent DEF Answered
<1> HIDE DEF e, n
<1>7. Answered(c, e, w) /\ Answered(c, n, w)
  <2>1. Answered(l, e, w)
    BY <1>4, <1>5, AnsweredTwice DEF Answered
  <2> QED BY <1>1, <1>3, <1>6, <2>1, AnsweredTwice
<1>8. conn' = e \/ conn' = n
  BY DEF UpdateFilterLoadDone, e, n, r, l
<1> QED BY <1>7, <1>8

\* The filter is replaced, when nothing that was matched with the old one is
\* on its way.
LEMMA FilterPingDone ==
  ASSUME SafeInv, NEW c, NEW w, Ponged(c, w), conn.needs, Updating(FALSE, c.pongs),
         \A i \in DOMAIN Line(w, c.out) : ~ Asks(Line(w, c.out)[i]), UpdateFilterPingDone(c)
  PROVE  /\ Joined(conn', w, tip, wallet) /\ Rest(c, conn')
         /\ Matching(w, conn'.out, conn'.filter, Filter(wallet))
<1> DEFINE d == SendFilterload(c)
           e == SendPing(d, "updateFilterLoadDone")
<1>1. tip \in Heights /\ wallet \in SUBSET Tx
  BY BooksIs DEF SafeInv
<1>2. /\ c \in ConnType(tip) /\ Fine(w, c.out, c.pongs, c.known, c.blocks, tip, wallet)
      /\ c.needs = conn.needs /\ conn.needs \in BOOLEAN
  BY SafeIs DEF Ponged
<1>3. /\ d \in ConnType(tip) /\ Rest(c, d) /\ d.needs = c.needs /\ d.pongs = c.pongs
  BY <1>1, <1>2, FilterloadIs
<1>4. /\ Fine(w, d.out, d.pongs, d.known, d.blocks, tip, wallet)
      /\ Matching(w, d.out, d.filter, Filter(wallet))
  BY <1>1, <1>2, FilterloadFine
<1> HIDE DEF d
<1>5. "updateFilterLoadDone" \in Callbacks /\ "updateFilterLoadDone" \in Replacing
  BY DEF Callbacks, Replacing
<1> HIDE DEF Callbacks, Replacing
<1>6. /\ e \in ConnType(tip) /\ Rest(d, e) /\ e.needs = d.needs
      /\ e.out = Append(d.out, Message("ping", 0, <<>>, {}))
      /\ e.pongs = Append(d.pongs, "updateFilterLoadDone")
      /\ e.known = d.known /\ e.blocks = d.blocks
  BY <1>1, <1>3, <1>5, PingSentIs
<1>7. Matches(d, e, w)
  BY <1>1, <1>3, <1>5, PingMatches
<1> HIDE DEF e
<1>8. Fine(w, e.out, e.pongs, e.known, e.blocks, tip, wallet)
  BY <1>4, <1>5, <1>6, FinePinged
<1>9. Updating(TRUE, e.pongs)
  <2>1. d.pongs \in Seq(Callbacks) /\ Updating(FALSE, d.pongs)
    BY <1>3, <1>4 DEF Fine, Typed
  <2> QED BY <1>5, <1>6, <2>1, UpdatingAppended
<1>10. e.needs = TRUE
  BY <1>2, <1>3, <1>6
<1>11. Joined(e, w, tip, wallet)
  BY <1>6, <1>8, <1>9, <1>10 DEF Joined
<1>12. Rest(c, e) /\ Matching(w, e.out, e.filter, Filter(wallet))
  BY <1>3, <1>4, <1>6, <1>7 DEF Rest, Matches
<1>13. conn' = e
  BY DEF UpdateFilterPingDone, e, d
<1> QED BY <1>11, <1>12, <1>13

LEMMA AcceptPongSafe ==
  ASSUME SafeInv, AcceptPong
  PROVE  /\ SafeInv' /\ conn'.current = conn.current /\ conn.up
         /\ \/ Carried /\ UNCHANGED <<bloomFilter, orphans>>
            \/ Matching(wire', conn'.out, conn'.filter, bloomFilter') /\ orphans' = {}
<1> DEFINE w == Tail(wire)
           c == [conn EXCEPT !.pongs = Tail(@)]
           callback == Head(conn.pongs)
<1>1. /\ Arrives("pong")
      /\ UNCHANGED <<lastBlock, estimatedHeight, wallet, confirmed, peer, sessions>>
      /\ \/ callback = "updateFilterPingDone" /\ UpdateFilterPingDone(c)
         \/ callback = "updateFilterLoadDone" /\ UpdateFilterLoadDone(c)
         \/ callback = "loadBloomFilterDone" /\ LoadBloomFilterDone(c)
         \/ callback = "updateFilterRerequestDone" /\ UpdateFilterRerequestDone(c)
  BY DEF AcceptPong
<1>2. wire' = w /\ tip' = tip /\ wallet' = wallet
  BY <1>1 DEF Arrives, peer
<1>3. /\ Ponged(c, w) /\ conn.up
      /\ callback \notin Replacing => Joined(c, w, tip, wallet)
      /\ callback \in Replacing => conn.needs /\ Updating(FALSE, c.pongs)
      /\ callback = "updateFilterPingDone" =>
           \A i \in DOMAIN Line(w, c.out) : ~ Asks(Line(w, c.out)[i])
  BY <1>1, PongArrived
<1> HIDE DEF c, w, callback
<1>4. ASSUME Joined(conn', w, tip, wallet), Rest(c, conn') PROVE Connection' /\ conn'.current = conn.current
  <2>1. conn'.up = conn.up /\ conn'.current = conn.current
    BY <1>3, <1>4 DEF Ponged, Rest
  <2> QED BY <1>2, <1>3, <1>4, <2>1 DEF Connection, SafeInv
<1>5. ASSUME Covers(bloomFilter', generated', wallet), orphans' \subseteq orphans PROVE Books'
  BY <1>1, <1>5 DEF SafeInv, Books, peer
<1>6. CASE callback = "updateFilterPingDone" /\ UpdateFilterPingDone(c)
  <2>1. /\ Joined(conn', w, tip, wallet) /\ Rest(c, conn')
        /\ Matching(w, conn'.out, conn'.filter, Filter(wallet))
    BY <1>3, <1>6, FilterPingDone DEF Replacing
  <2>2. /\ Covers(bloomFilter', generated', wallet) /\ bloomFilter' = Filter(wallet) /\ orphans' = {}
    BY <1>6, FilterLoaded DEF UpdateFilterPingDone, LoadBloomFilter, SafeInv
  <2> QED BY <1>2, <1>3, <1>4, <1>5, <2>1, <2>2 DEF SafeInv
<1>7. ASSUME Answered(c, conn', w), UNCHANGED <<bloomFilter, generated, orphans, lastOrphan>>
      PROVE  SafeInv' /\ conn'.current = conn.current /\ Carried /\ UNCHANGED <<bloomFilter, orphans>>
  <2>1. Connection' /\ conn'.current = conn.current
    BY <1>4, <1>7 DEF Answered
  <2>2. Books'
    BY <1>5, <1>7 DEF SafeInv, Books
  <2>3. Carried
    BY <1>2, <1>3, <1>7 DEF Carried, Answered, Ponged, Matches
  <2> QED BY <1>7, <2>1, <2>2, <2>3 DEF SafeInv
<1>8. CASE callback = "updateFilterLoadDone" /\ UpdateFilterLoadDone(c)
  <2>1. Answered(c, conn', w)
    BY <1>3, <1>8, FilterLoadDone DEF Replacing
  <2> QED BY <1>3, <1>7, <1>8, <2>1 DEF UpdateFilterLoadDone
<1>9. CASE callback = "loadBloomFilterDone" /\ LoadBloomFilterDone(c)
  <2>1. Answered(c, conn', w)
    <3>1. Joined(c, w, tip, wallet)
      BY <1>3, <1>9 DEF Replacing
    <3> QED BY <1>9, <3>1, MempoolSent DEF LoadBloomFilterDone, Answered
  <2> QED BY <1>3, <1>7, <1>9, <2>1 DEF LoadBloomFilterDone
<1>10. CASE callback = "updateFilterRerequestDone" /\ UpdateFilterRerequestDone(c)
  <2>1. Answered(c, conn', w)
    <3>1. Joined(c, w, tip, wallet) /\ lastBlock \in 0 .. tip
      BY <1>3, <1>10 DEF Replacing, SafeInv, Books
    <3>2. Answered(c, SendGetblocks(c, lastBlock), w)
      BY <3>1, GetblocksSent DEF Answered
    <3>3. Answered(c, c, w)
      BY <3>1 DEF Answered, Rest, Matches
    <3> QED BY <1>10, <3>2, <3>3 DEF UpdateFilterRerequestDone
  <2> QED BY <1>3, <1>7, <1>10, <2>1 DEF UpdateFilterRerequestDone
<1> QED BY <1>1, <1>6, <1>8, <1>9, <1>10

-----------------------------------------------------------------------------
\* No block is asked for or on its way.
Quiet(w, out) ==
  (\A i \in DOMAIN w : ~ Asks(w[i])) /\ \A i \in DOMAIN out : ~ Asks(out[i])

LEMMA QuietLine ==
  ASSUME NEW w \in Seq(Msg), NEW out \in Seq(Msg), Quiet(w, out)
  PROVE  \A i \in DOMAIN Line(w, out) : ~ Asks(Line(w, out)[i])
<1> HIDE DEF Msg, Asks
<1>1. /\ Len(w) \in Nat /\ Len(out) \in Nat /\ DOMAIN Line(w, out) = 1 .. (Len(w) + Len(out))
      /\ \A i \in 1 .. (Len(w) + Len(out)) :
           Line(w, out)[i] = IF i <= Len(w) THEN w[i] ELSE out[i - Len(w)]
      /\ DOMAIN w = 1 .. Len(w) /\ DOMAIN out = 1 .. Len(out)
  BY LineIs, LenProperties
<1>2. ASSUME NEW i \in DOMAIN Line(w, out) PROVE ~ Asks(Line(w, out)[i])
  <2>1. i \in 1 .. (Len(w) + Len(out))
    BY <1>1
  <2>2. CASE i <= Len(w)
    <3>1. i \in DOMAIN w /\ Line(w, out)[i] = w[i]
      BY <1>1, <2>1, <2>2
    <3> QED BY <3>1 DEF Quiet
  <2>3. CASE ~ i <= Len(w)
    <3>1. i - Len(w) \in DOMAIN out /\ Line(w, out)[i] = out[i - Len(w)]
      BY <1>1, <2>1, <2>3
    <3> QED BY <3>1 DEF Quiet
  <2> QED BY <2>2, <2>3
<1> QED BY <1>2

LEMMA QuietUpdated ==
  ASSUME NEW c, NEW w, NEW t, NEW xs, Joined(c, w, t, xs), Quiet(w, c.out)
  PROVE  Quiet(w, UpdateFilter(c).out)
<1> DEFINE b == [c EXCEPT !.needs = TRUE]
           m == Message("ping", 0, <<>>, {})
           d == SendPing(b, "updateFilterPingDone")
<1>0. UpdateFilter(c) = IF c.needs THEN c ELSE d
  BY DEF UpdateFilter
<1>1. t \in Heights /\ c \in ConnType(t) /\ c.out \in Seq(Msg)
  BY JoinedIs
<1>2. b \in ConnType(t) /\ b.out = c.out
  <2> HIDE DEF ClientMsg, BlockType, Callbacks
  <2> QED BY <1>1 DEF ConnType
<1>3. "updateFilterPingDone" \in Callbacks
  BY DEF Callbacks
<1> HIDE DEF b
<1>4. d.out = Append(c.out, m)
  BY <1>1, <1>2, <1>3, PingSentIs
<1>5. m \in Msg /\ ~ Asks(m)
  BY <1>1, PlainIs DEF ClientMsg
<1> HIDE DEF d, m, Msg, Asks
<1>6. Longer(c.out, Append(c.out, m), m)
  BY <1>1, <1>5, AppendLonger
<1>7. \A i \in DOMAIN Append(c.out, m) :
        \/ i \in DOMAIN c.out /\ Append(c.out, m)[i] = c.out[i]
        \/ Append(c.out, m)[i] = m
  BY <1>6 DEF Longer
<1>8. Quiet(w, Append(c.out, m))
  BY <1>5, <1>7 DEF Quiet
<1> QED BY <1>0, <1>4, <1>8

-----------------------------------------------------------------------------
\* The orphans that follow the block at n.
LEMMA ExtendedIs ==
  ASSUME NEW ch, NEW t \in Nat, ch.lastBlock \in Nat, ch.lastBlock <= t,
         \A o \in ch.orphans : o.height \in ch.lastBlock + 1 .. t
  PROVE  /\ Extended(ch).lastBlock \in ch.lastBlock .. t
         /\ Extended(ch).orphans \subseteq ch.orphans
         /\ \A o \in Extended(ch).orphans : o.height \in Extended(ch).lastBlock + 2 .. t
         /\ \A i \in ch.lastBlock + 1 .. Extended(ch).lastBlock :
              \E o \in ch.orphans :
                o.height = i /\ wallet \cap o.txs \subseteq Extended(ch).confirmed
         /\ ch.confirmed \subseteq Extended(ch).confirmed
         /\ Extended(ch).confirmed \subseteq ch.confirmed \cup wallet
<1> DEFINE n == ch.lastBlock
           kept == ch.orphans
           xs == ch.confirmed
<1>0. n \in Nat /\ n <= t /\ \A o \in kept : o.height \in n + 1 .. t
  OBVIOUS
<1> HIDE DEF n, kept, xs
<1> DEFINE Follows(h) == \A i \in (n + 1)..h : \E o \in kept : o.height = i
           after == {o \in kept : Follows(o.height)}
           S == {n} \cup {o.height : o \in after}
           to == Max(S)
           used == {o \in kept : o.height <= to}
           all == xs \cup (wallet \cap UNION {o.txs : o \in used})
           next == [lastBlock |-> to, orphans |-> kept \ used, confirmed |-> all]
<1>1. Extended(ch) = next
  BY DEF Extended, n, kept, xs
<1>2. S \subseteq n .. t /\ S # {} /\ n \in S
  BY <1>0
<1>3. to \in S /\ \A y \in S : y <= to
  <2>1. S \subseteq Int /\ t \in Int /\ \A x \in S : x <= t
    BY <1>2
  <2> HIDE DEF S
  <2> QED BY <1>2, <2>1, GreatestInt
<1>4. to \in n .. t
  BY <1>0, <1>2, <1>3
<1> HIDE DEF to
<1>5. Follows(to)
  <2>1. CASE to = n
    BY <1>0, <2>1
  <2>2. CASE to # n
    BY <1>3, <2>2
  <2> QED BY <2>1, <2>2
<1>6. ASSUME NEW o \in kept \ used PROVE o.height \in to + 2 .. t
  <2>1. o.height \in n + 1 .. t /\ o.height > to
    BY <1>0, <1>4
  <2>2. ASSUME o.height = to + 1 PROVE FALSE
    <3>1. Follows(o.height)
      BY <1>0, <1>4, <1>5, <2>2
    <3>2. o.height \in S
      BY <3>1
    <3> QED BY <1>0, <1>3, <1>4, <2>2, <3>2
  <2> QED BY <1>0, <1>4, <2>1, <2>2
<1>7. ASSUME NEW i \in n + 1 .. to
      PROVE  \E o \in kept : o.height = i /\ wallet \cap o.txs \subseteq all
  <2>1. PICK o \in kept : o.height = i
    BY <1>5, <1>7
  <2>2. o \in used
    BY <1>0, <1>4, <1>7, <2>1
  <2> QED BY <2>1, <2>2
<1>8. xs \subseteq all /\ all \subseteq xs \cup wallet
  OBVIOUS
<1>9. /\ next.lastBlock = to /\ next.orphans = kept \ used /\ next.confirmed = all
      /\ kept \ used \subseteq kept
  OBVIOUS
<1> HIDE DEF next, all, used
<1> QED BY <1>1, <1>4, <1>6, <1>7, <1>8, <1>9 DEF n, kept, xs

-----------------------------------------------------------------------------
\* c is the connection conn with nothing collected.
Relayed(c) ==
  /\ Joined(c, wire, tip, wallet) /\ c.up /\ c.current = Nothing
  /\ Matches(conn, c, wire) /\ (Quiet(wire, conn.out) => Quiet(wire, c.out))

LEMMA BlockCollected ==
  ASSUME SafeInv, RelayedBlock
  PROVE  LET b == conn.current
         IN /\ b.height \in 1 .. tip /\ b.txs \in SUBSET wallet /\ conn.up
            /\ UNCHANGED <<wallet, wire, peer, sessions>>
            /\ \E c : /\ Relayed(c)
                      /\ \/ Dropped(c)
                         \/ Aged(c, b.height)
                         \/ Orphan(c, b.height, b.txs)
                         \/ Connects(c, b.height, b.txs)
<1> DEFINE b == conn.current
           done == [conn EXCEPT !.current = Nothing]
<1>1. conn.up /\ b.height # 0 /\ b.missing = {} /\ UNCHANGED <<wallet, wire, peer, sessions>>
  BY DEF RelayedBlock, Complete
<1>2. /\ conn \in ConnType(tip) /\ Joined(conn, wire, tip, wallet) /\ Collected(b, wallet)
      /\ tip \in Nat
  BY SafeIs, BooksIs DEF SafeInv, Connection
<1>3. b \in BlockType(tip)
  <2> HIDE DEF ClientMsg, BlockType, Callbacks
  <2> QED BY <1>2 DEF ConnType
<1>4. b.height \in 1 .. tip /\ b.txs \in SUBSET wallet
  BY <1>1, <1>2, <1>3 DEF BlockType, Collected
<1>5. Nothing \in BlockType(tip)
  BY <1>2 DEF Nothing, BlockType
<1>6. done \in ConnType(tip) /\ Alike(conn, done) /\ done.up = conn.up /\ done.current = Nothing
  <2> HIDE DEF ClientMsg, BlockType, Callbacks, Nothing
  <2> QED BY <1>2, <1>5 DEF ConnType, Alike
<1>7. PICK degraded \in BOOLEAN :
        LET c == IF degraded THEN UpdateFilter(done) ELSE done
        IN \/ Dropped(c)
           \/ Aged(c, b.height)
           \/ Orphan(c, b.height, b.txs)
           \/ Connects(c, b.height, b.txs)
  BY DEF RelayedBlock
<1> DEFINE c == IF degraded THEN UpdateFilter(done) ELSE done
<1> HIDE DEF done
<1>8. Joined(done, wire, tip, wallet) /\ Matches(conn, done, wire)
  BY <1>2, <1>6, AlikeJoined
<1>9. /\ Joined(UpdateFilter(done), wire, tip, wallet) /\ Rest(done, UpdateFilter(done))
      /\ Matches(done, UpdateFilter(done), wire)
      /\ Quiet(wire, done.out) => Quiet(wire, UpdateFilter(done).out)
  BY <1>8, FilterUpdated, QuietUpdated
<1>10. Relayed(done)
  BY <1>1, <1>6, <1>8 DEF Relayed, Alike
<1>11. Relayed(UpdateFilter(done))
  BY <1>8, <1>9, <1>10 DEF Relayed, Rest, Matches
<1>12. Relayed(c)
  BY <1>10, <1>11
<1> HIDE DEF b
<1>13. \E d : /\ Relayed(d)
              /\ \/ Dropped(d)
                 \/ Aged(d, b.height)
                 \/ Orphan(d, b.height, b.txs)
                 \/ Connects(d, b.height, b.txs)
  BY <1>7, <1>12
<1> QED BY <1>1, <1>4, <1>13 DEF b

-----------------------------------------------------------------------------
LEMMA TimerSet ==
  ASSUME NEW t, NEW c \in ConnType(t), NEW v \in BOOLEAN
  PROVE  LET d == [c EXCEPT !.timer = v] IN d \in ConnType(t) /\ Alike(c, d) /\ Rest(c, d)
<1> HIDE DEF ClientMsg, BlockType, Callbacks
<1> QED BY DEF ConnType, Alike, Rest

\* The timer is kept, set or taken back.
LEMMA TimerJoined ==
  ASSUME NEW c, NEW w, NEW t, NEW xs, Joined(c, w, t, xs), NEW v \in BOOLEAN
  PROVE  LET d == [c EXCEPT !.timer = v] IN Joined(d, w, t, xs) /\ Rest(c, d) /\ Matches(c, d, w)
<1> DEFINE d == [c EXCEPT !.timer = v]
<1>1. c \in ConnType(t)
  BY DEF Joined
<1>2. d \in ConnType(t) /\ Alike(c, d) /\ Rest(c, d)
  BY <1>1, TimerSet
<1> HIDE DEF d
<1>3. Joined(d, w, t, xs) /\ Matches(c, d, w)
  BY <1>2, AlikeJoined
<1> QED BY <1>2, <1>3 DEF d

LEMMA RelayedIs ==
  ASSUME SafeInv, conn.up, NEW c, Relayed(c), UNCHANGED <<wallet, wire, peer, sessions>>,
         Joined(conn', wire, tip, wallet), Rest(c, conn')
  PROVE  Connection' /\ conn'.current = Nothing /\ (Matches(c, conn', wire) => Carried)
<1>1. conn'.up /\ conn'.current = Nothing
  BY DEF Relayed, Rest
<1>2. tip' = tip /\ wallet' = wallet /\ wire' = wire
  BY DEF peer
<1>3. Collected(Nothing, wallet)
  BY DEF Collected, Nothing
<1>4. Connection'
  BY <1>1, <1>2, <1>3 DEF Connection
<1>5. Matches(c, conn', wire) => Carried
  BY <1>2 DEF Relayed, Carried, Matches
<1> QED BY <1>1, <1>4, <1>5

LEMMA DroppedSafe ==
  ASSUME SafeInv, conn.up, NEW c, Relayed(c), UNCHANGED <<wallet, wire, peer, sessions>>,
         Dropped(c)
  PROVE  SafeInv' /\ Carried /\ conn'.current = Nothing
<1> DEFINE v == c.timer \/ (lastBlock < estimatedHeight)
<1>1. conn' = [c EXCEPT !.timer = v]
  BY DEF Dropped
<1>2. v \in BOOLEAN
  OBVIOUS
<1> HIDE DEF v
<1>3. Joined(conn', wire, tip, wallet) /\ Rest(c, conn') /\ Matches(c, conn', wire)
  BY <1>1, <1>2, TimerJoined DEF Relayed
<1>4. Connection' /\ conn'.current = Nothing /\ Carried
  BY <1>3, RelayedIs
<1>5. Books'
  BY DEF SafeInv, Books, Dropped, peer
<1> QED BY <1>4, <1>5 DEF SafeInv

LEMMA AgedSafe ==
  ASSUME SafeInv, conn.up, NEW c, Relayed(c), UNCHANGED <<wallet, wire, peer, sessions>>,
         NEW h, Aged(c, h)
  PROVE  SafeInv' /\ Carried /\ conn'.current = Nothing
<1>1. conn' = c
  BY DEF Aged
<1>2. Joined(conn', wire, tip, wallet) /\ Rest(c, conn') /\ Matches(c, conn', wire)
  BY <1>1 DEF Relayed, Rest, Matches
<1>3. Connection' /\ conn'.current = Nothing /\ Carried
  BY <1>2, RelayedIs
<1>4. Books'
  BY DEF SafeInv, Books, Aged, peer
<1> QED BY <1>3, <1>4 DEF SafeInv

LEMMA OrphanSafe ==
  ASSUME SafeInv, conn.up, NEW c, Relayed(c), UNCHANGED <<wallet, wire, peer, sessions>>,
         NEW h \in 1 .. tip, NEW txs \in SUBSET wallet, Orphan(c, h, txs)
  PROVE  SafeInv' /\ Carried /\ conn'.current = Nothing
<1>1. lastBlock \in 0 .. tip /\ lastBlock \in Nat /\ tip \in Nat
  BY BooksIs DEF SafeInv, Books
<1>2. Joined(conn', wire, tip, wallet) /\ Rest(c, conn') /\ Matches(c, conn', wire)
  <2> DEFINE d == SendGetblocks(c, lastBlock)
  <2>1. Joined(c, wire, tip, wallet)
    BY DEF Relayed
  <2>2. Joined(d, wire, tip, wallet) /\ Rest(c, d) /\ Matches(c, d, wire)
    BY <1>1, <2>1, GetblocksSent
  <2>3. conn' = d \/ conn' = c
    BY DEF Orphan
  <2> HIDE DEF d
  <2>4. Rest(c, c) /\ Matches(c, c, wire)
    BY DEF Rest, Matches
  <2> QED BY <2>1, <2>2, <2>3, <2>4
<1>3. Connection' /\ conn'.current = Nothing /\ Carried
  BY <1>2, RelayedIs
<1>4. Books'
  <2>1. /\ orphans' = orphans \cup {[height |-> h, txs |-> txs]} /\ h > lastBlock + 1
        /\ UNCHANGED <<lastBlock, estimatedHeight, confirmed, bloomFilter, generated>>
    BY DEF Orphan
  <2>2. h \in lastBlock + 2 .. tip
    BY <1>1, <2>1
  <2> QED BY <2>1, <2>2 DEF SafeInv, Books, peer
<1> QED BY <1>3, <1>4 DEF SafeInv

\* The chain a block at h is added to.
Chain(h, txs, reload) ==
  [lastBlock |-> Max({lastBlock, h}),
   orphans   |-> {o \in orphans : reload => o.height <= estimatedHeight},
   confirmed |-> confirmed \cup (wallet \cap txs)]

LEMMA ConnectsIs ==
  ASSUME SafeInv, NEW h \in 1 .. tip, h <= lastBlock + 1, NEW txs \in SUBSET wallet,
         NEW reload \in BOOLEAN
  PROVE  LET next == Extended(Chain(h, txs, reload))
         IN /\ lastBlock <= next.lastBlock /\ h <= next.lastBlock /\ next.lastBlock \in 0 .. tip
            /\ next.orphans \subseteq orphans
            /\ \A o \in next.orphans : o.height \in next.lastBlock + 2 .. tip
            /\ \A i \in lastBlock + 1 .. next.lastBlock :
                 \/ i = h
                 \/ \E o \in orphans : o.height = i /\ wallet \cap o.txs \subseteq next.confirmed
            /\ confirmed \cup txs \subseteq next.confirmed /\ next.confirmed \subseteq wallet
            /\ Max({estimatedHeight, next.lastBlock}) \in 0 .. tip
<1> DEFINE kept == {o \in orphans : reload => o.height <= estimatedHeight}
           n == Max({lastBlock, h})
           xs == confirmed \cup (wallet \cap txs)
           ch == Chain(h, txs, reload)
           next == Extended(ch)
           e == Max({estimatedHeight, next.lastBlock})
<1>1. /\ lastBlock \in Nat /\ estimatedHeight \in Nat /\ tip \in Nat /\ lastBlock <= tip
      /\ estimatedHeight <= tip /\ confirmed \in SUBSET wallet
      /\ \A o \in orphans : o.height \in lastBlock + 2 .. tip
  BY BooksIs DEF SafeInv, Books
<1>2. n = IF lastBlock <= h THEN h ELSE lastBlock
  BY <1>1, MaxTwo
<1> HIDE DEF n
<1>3. n \in Nat /\ n <= tip /\ n <= lastBlock + 1
  BY <1>1, <1>2
<1>4. kept \subseteq orphans /\ \A o \in kept : o.height \in n + 1 .. tip
  BY <1>1, <1>3
<1>5. xs \subseteq wallet /\ confirmed \cup txs \subseteq xs
  BY <1>1
<1>10. ch.lastBlock = n /\ ch.orphans = kept /\ ch.confirmed = xs
  BY DEF Chain, n
<1> HIDE DEF kept, xs, ch
<1>6. /\ next.lastBlock \in n .. tip /\ next.orphans \subseteq kept
      /\ \A o \in next.orphans : o.height \in next.lastBlock + 2 .. tip
      /\ \A i \in n + 1 .. next.lastBlock :
           \E o \in kept : o.height = i /\ wallet \cap o.txs \subseteq next.confirmed
      /\ xs \subseteq next.confirmed /\ next.confirmed \subseteq xs \cup wallet
  BY <1>1, <1>3, <1>4, <1>10, ExtendedIs
<1> HIDE DEF next
<1>7. e \in 0 .. tip
  <2>1. next.lastBlock \in Int /\ next.lastBlock \in 0 .. tip
    BY <1>3, <1>6
  <2>2. e = IF estimatedHeight <= next.lastBlock THEN next.lastBlock ELSE estimatedHeight
    BY <1>1, <2>1, MaxTwo
  <2> QED BY <1>1, <2>1, <2>2
<1> HIDE DEF e
<1>8. /\ next.confirmed \subseteq wallet /\ next.orphans \subseteq orphans
      /\ confirmed \cup txs \subseteq next.confirmed
  BY <1>4, <1>5, <1>6
<1>9. \A i \in lastBlock + 1 .. next.lastBlock :
        \/ i = h
        \/ \E o \in orphans : o.height = i /\ wallet \cap o.txs \subseteq next.confirmed
  BY <1>1, <1>2, <1>4, <1>6
<1>11. lastBlock <= next.lastBlock /\ h <= next.lastBlock /\ next.lastBlock \in 0 .. tip
  BY <1>1, <1>2, <1>3, <1>6
<1> QED BY <1>6, <1>7, <1>8, <1>9, <1>11 DEF next, ch, e

\* What Connects does to the books, and to the connection when it loads
\* no filter, and when it loads one.
LEMMA ConnectsSplit ==
  ASSUME SafeInv, NEW h \in 1 .. tip, NEW txs \in SUBSET wallet, NEW c, Connects(c, h, txs)
  PROVE  /\ bloomFilter # 0
         /\ h <= lastBlock + 1 /\ lastBlock' \in 0 .. tip /\ estimatedHeight' \in 0 .. tip
         /\ confirmed' \subseteq wallet /\ confirmed \cup txs \subseteq confirmed'
         /\ lastBlock <= lastBlock' /\ h <= lastBlock'
         /\ \A i \in lastBlock + 1 .. lastBlock' :
              \/ i = h
              \/ \E o \in orphans : o.height = i /\ wallet \cap o.txs \subseteq confirmed'
         /\ \/ /\ LoadBloomFilter
               /\ LET idle == [c EXCEPT !.timer = FALSE]
                  IN conn' = SendPing(SendFilterload(idle), "loadBloomFilterDone")
            \/ /\ \/ \E v \in BOOLEAN : conn' = [c EXCEPT !.timer = v]
                  \/ conn' = SendMempool([c EXCEPT !.timer = FALSE])
               /\ orphans' \subseteq orphans
               /\ \A o \in orphans' : o.height \in lastBlock' + 2 .. tip
               /\ UNCHANGED <<bloomFilter, generated>>
<1>1. PICK reload \in BOOLEAN :
        LET kept == {o \in orphans : reload => o.height <= estimatedHeight}
            next == Extended([lastBlock |-> Max({lastBlock, h}), orphans |-> kept,
                              confirmed |-> confirmed \cup (wallet \cap txs)])
            finished == lastBlock < estimatedHeight /\ next.lastBlock >= estimatedHeight
            idle == [c EXCEPT !.timer = FALSE]
        IN /\ bloomFilter # 0 /\ h <= lastBlock + 1
           /\ lastBlock' = next.lastBlock
           /\ confirmed' = next.confirmed
           /\ estimatedHeight' = Max({estimatedHeight, next.lastBlock})
           /\ reload => finished
           /\ IF reload
              THEN LoadBloomFilter /\ conn' = SendPing(SendFilterload(idle), "loadBloomFilterDone")
              ELSE /\ conn' = IF finished THEN SendMempool(idle)
                              ELSE [c EXCEPT !.timer = @ \/ (h > lastBlock /\ h < estimatedHeight)]
                   /\ orphans' = next.orphans
                   /\ UNCHANGED <<lastOrphan, bloomFilter, generated>>
  BY DEF Connects
<1> DEFINE next == Extended(Chain(h, txs, reload))
           v == c.timer \/ (h > lastBlock /\ h < estimatedHeight)
<1>2. /\ lastBlock <= next.lastBlock /\ h <= next.lastBlock /\ next.lastBlock \in 0 .. tip
      /\ next.orphans \subseteq orphans
      /\ \A o \in next.orphans : o.height \in next.lastBlock + 2 .. tip
      /\ \A i \in lastBlock + 1 .. next.lastBlock :
           \/ i = h
           \/ \E o \in orphans : o.height = i /\ wallet \cap o.txs \subseteq next.confirmed
      /\ confirmed \cup txs \subseteq next.confirmed /\ next.confirmed \subseteq wallet
      /\ Max({estimatedHeight, next.lastBlock}) \in 0 .. tip
  <2>1. h <= lastBlock + 1
    BY <1>1
  <2>2. SafeInv /\ h \in 1 .. tip /\ txs \in SUBSET wallet /\ reload \in BOOLEAN
    OBVIOUS
  <2> QED BY ONLY <2>1, <2>2, ConnectsIs
<1>3. /\ bloomFilter # 0 /\ h <= lastBlock + 1 /\ lastBlock' = next.lastBlock
      /\ confirmed' = next.confirmed /\ estimatedHeight' = Max({estimatedHeight, next.lastBlock})
  BY <1>1 DEF Chain
<1>4. \/ /\ LoadBloomFilter
         /\ LET idle == [c EXCEPT !.timer = FALSE]
            IN conn' = SendPing(SendFilterload(idle), "loadBloomFilterDone")
      \/ /\ \/ \E u \in BOOLEAN : conn' = [c EXCEPT !.timer = u]
            \/ conn' = SendMempool([c EXCEPT !.timer = FALSE])
         /\ orphans' = next.orphans
         /\ UNCHANGED <<bloomFilter, generated>>
  <2>1. v \in BOOLEAN
    OBVIOUS
  <2>2. CASE reload
    BY <1>1, <2>2
  <2>3. CASE ~ reload
    <3>1. conn' = SendMempool([c EXCEPT !.timer = FALSE]) \/ conn' = [c EXCEPT !.timer = v]
      BY <1>1, <2>3
    <3>2. orphans' = next.orphans /\ UNCHANGED <<bloomFilter, generated>>
      BY <1>1, <2>3 DEF Chain
    <3> HIDE DEF v, next
    <3> QED BY <2>1, <3>1, <3>2
  <2> QED BY <2>2, <2>3
<1> HIDE DEF next, v
<1>5. /\ lastBlock <= lastBlock' /\ h <= lastBlock' /\ lastBlock' \in 0 .. tip
      /\ confirmed' \subseteq wallet /\ confirmed \cup txs \subseteq confirmed'
      /\ estimatedHeight' \in 0 .. tip
  BY <1>2, <1>3
<1>6. \A i \in lastBlock + 1 .. lastBlock' :
        \/ i = h
        \/ \E o \in orphans : o.height = i /\ wallet \cap o.txs \subseteq confirmed'
  BY <1>2, <1>3
<1>7. next.orphans \subseteq orphans /\ \A o \in next.orphans : o.height \in lastBlock' + 2 .. tip
  BY <1>2, <1>3
<1> QED BY <1>3, <1>4, <1>5, <1>6, <1>7

-----------------------------------------------------------------------------
LEMMA ConnectsSafe ==
  ASSUME SafeInv, conn.up, NEW c, Relayed(c), UNCHANGED <<wallet, wire, peer, sessions>>,
         NEW h \in 1 .. tip, NEW txs \in SUBSET wallet, Connects(c, h, txs)
  PROVE  /\ SafeInv' /\ conn'.current = Nothing
         /\ \/ Carried /\ bloomFilter' = bloomFilter /\ orphans' \subseteq orphans
            \/ /\ bloomFilter' = Filter(wallet) /\ orphans' = {}
               /\ (\/ Matching(wire, conn.out, conn.filter, Filter(wallet))
                   \/ Quiet(wire, conn.out))
                    => Matching(wire', conn'.out, conn'.filter, bloomFilter')
<1> DEFINE idle == [c EXCEPT !.timer = FALSE]
           l == SendFilterload(idle)
           e == SendPing(l, "loadBloomFilterDone")
<1>1. Joined(c, wire, tip, wallet) /\ wallet \in SUBSET Tx /\ tip \in Heights
  BY BooksIs DEF Relayed, SafeInv
<1>2. /\ lastBlock' \in 0 .. tip /\ estimatedHeight' \in 0 .. tip /\ confirmed' \subseteq wallet
      /\ \/ LoadBloomFilter /\ conn' = e
         \/ /\ \/ \E v \in BOOLEAN : conn' = [c EXCEPT !.timer = v]
               \/ conn' = SendMempool(idle)
            /\ orphans' \subseteq orphans
            /\ \A o \in orphans' : o.height \in lastBlock' + 2 .. tip
            /\ UNCHANGED <<bloomFilter, generated>>
  BY ConnectsSplit
<1>3. Joined(idle, wire, tip, wallet) /\ Rest(c, idle) /\ Matches(c, idle, wire)
  <2>1. FALSE \in BOOLEAN
    OBVIOUS
  <2> HIDE DEF idle
  <2> QED BY <1>1, <2>1, TimerJoined DEF idle
<1>4. idle.out = c.out
  <2>1. c \in ConnType(tip)
    BY <1>1 DEF Joined
  <2> HIDE DEF ClientMsg, BlockType, Callbacks
  <2> QED BY <2>1 DEF ConnType
<1> HIDE DEF idle
<1>5. ASSUME Covers(bloomFilter', generated', wallet), orphans' \subseteq orphans,
             \A o \in orphans' : o.height \in lastBlock' + 2 .. tip
      PROVE  Books'
  <2>1. UNCHANGED <<wallet, tip, pool, sessions>>
    BY DEF peer
  <2> QED BY <1>2, <1>5, <2>1 DEF SafeInv, Books
<1>6. CASE LoadBloomFilter /\ conn' = e
  <2>1. idle \in ConnType(tip) /\ Fine(wire, idle.out, idle.pongs, idle.known, idle.blocks, tip, wallet)
    BY <1>3 DEF Joined
  <2>2. l \in ConnType(tip) /\ Rest(idle, l) /\ l.needs = idle.needs /\ l.pongs = idle.pongs
    BY <1>1, <2>1, FilterloadIs
  <2>3. /\ Fine(wire, l.out, l.pongs, l.known, l.blocks, tip, wallet)
        /\ (\/ Matching(wire, idle.out, idle.filter, Filter(wallet))
            \/ \A i \in DOMAIN Line(wire, idle.out) : ~ Asks(Line(wire, idle.out)[i]))
              => Matching(wire, l.out, l.filter, Filter(wallet))
    BY <1>1, <2>1, FilterloadFine
  <2> HIDE DEF l
  <2>4. Joined(l, wire, tip, wallet)
    BY <1>3, <2>2, <2>3 DEF Joined
  <2>5. "loadBloomFilterDone" \in Callbacks /\ "loadBloomFilterDone" \notin Replacing
    BY DEF Callbacks, Replacing
  <2>6. Joined(e, wire, tip, wallet) /\ Rest(l, e) /\ Matches(l, e, wire)
    BY <2>4, <2>5, PingSent
  <2> HIDE DEF e
  <2>7. Rest(c, conn') /\ Joined(conn', wire, tip, wallet)
    BY <1>3, <1>6, <2>2, <2>6 DEF Rest
  <2>8. Connection' /\ conn'.current = Nothing
    BY <2>7, RelayedIs
  <2>9. Covers(bloomFilter', generated', wallet) /\ bloomFilter' = Filter(wallet) /\ orphans' = {}
    BY <1>6, FilterLoaded DEF LoadBloomFilter, SafeInv
  <2>10. Books'
    BY <1>5, <2>9
  <2>11. ASSUME \/ Matching(wire, conn.out, conn.filter, Filter(wallet))
                \/ Quiet(wire, conn.out)
         PROVE  Matching(wire', conn'.out, conn'.filter, bloomFilter')
    <3>1. \/ Matching(wire, idle.out, idle.filter, Filter(wallet))
          \/ Quiet(wire, idle.out)
      BY <1>3, <1>4, <2>11 DEF Relayed, Matches
    <3>2. wire \in Seq(Msg) /\ idle.out \in Seq(Msg)
      BY <1>3, JoinedIs
    <3>3. \/ Matching(wire, idle.out, idle.filter, Filter(wallet))
          \/ \A i \in DOMAIN Line(wire, idle.out) : ~ Asks(Line(wire, idle.out)[i])
      <4> HIDE DEF Msg, Asks
      <4> QED BY <3>1, <3>2, QuietLine
    <3>4. Matching(wire, l.out, l.filter, Filter(wallet))
      BY <2>3, <3>3
    <3> QED BY <1>6, <2>6, <2>9, <3>4 DEF Matches
  <2> QED BY <2>8, <2>9, <2>10, <2>11 DEF SafeInv
<1>7. CASE /\ \/ \E v \in BOOLEAN : conn' = [c EXCEPT !.timer = v]
              \/ conn' = SendMempool(idle)
           /\ orphans' \subseteq orphans
           /\ \A o \in orphans' : o.height \in lastBlock' + 2 .. tip
           /\ UNCHANGED <<bloomFilter, generated>>
  <2>1. Joined(conn', wire, tip, wallet) /\ Rest(c, conn') /\ Matches(c, conn', wire)
    <3>1. CASE \E v \in BOOLEAN : conn' = [c EXCEPT !.timer = v]
      <4>1. PICK v \in BOOLEAN : conn' = [c EXCEPT !.timer = v]
        BY <3>1
      <4> QED BY <1>1, <4>1, TimerJoined
    <3>2. CASE conn' = SendMempool(idle)
      <4>1. Joined(conn', wire, tip, wallet) /\ Rest(idle, conn') /\ Matches(idle, conn', wire)
        BY <1>3, <3>2, MempoolSent
      <4> QED BY <1>3, <4>1 DEF Rest, Matches
    <3> QED BY <1>7, <3>1, <3>2
  <2>2. Connection' /\ conn'.current = Nothing /\ Carried
    BY <2>1, RelayedIs
  <2>3. Books'
    <3>1. Covers(bloomFilter', generated', wallet)
      BY <1>7 DEF SafeInv, Books
    <3> QED BY <1>5, <1>7, <3>1
  <2> QED BY <1>7, <2>2, <2>3 DEF SafeInv
<1> QED BY <1>2, <1>6, <1>7

LEMMA RelayedBlockSafe ==
  ASSUME SafeInv, RelayedBlock
  PROVE  SafeInv'
<1> DEFINE b == conn.current
<1>1. /\ b.height \in 1 .. tip /\ b.txs \in SUBSET wallet /\ conn.up
      /\ UNCHANGED <<wallet, wire, peer, sessions>>
      /\ \E c : /\ Relayed(c)
                /\ \/ Dropped(c)
                   \/ Aged(c, b.height)
                   \/ Orphan(c, b.height, b.txs)
                   \/ Connects(c, b.height, b.txs)
  BY BlockCollected
<1>2. PICK c : /\ Relayed(c)
               /\ \/ Dropped(c)
                  \/ Aged(c, b.height)
                  \/ Orphan(c, b.height, b.txs)
                  \/ Connects(c, b.height, b.txs)
  BY <1>1
<1> HIDE DEF b
<1> QED BY <1>1, <1>2, DroppedSafe, AgedSafe, OrphanSafe, ConnectsSafe

LEMMA NextSafe == SafeInv /\ [Next]_vars => SafeInv'
<1> SUFFICES ASSUME SafeInv, [Next]_vars PROVE SafeInv'
  OBVIOUS
<1>1. CASE PeerConnected
  BY <1>1, PeerConnectedSafe
<1>2. CASE Timeout
  BY <1>2, TimeoutSafe
<1>3. CASE Serve
  BY <1>3, ServeSafe
<1>4. CASE Mine
  BY <1>4, MineSafe
<1>5. CASE \E t \in Announced : Announce(t)
  BY <1>5, AnnounceSafe
<1>6. CASE AcceptInv
  BY <1>6, AcceptInvSafe
<1>7. CASE AcceptTx
  BY <1>7, AcceptTxSafe
<1>8. CASE AcceptMerkleblock
  BY <1>8, AcceptMerkleblockSafe
<1>9. CASE RelayedBlock
  BY <1>9, RelayedBlockSafe
<1>10. CASE AcceptPong
  BY <1>10, AcceptPongSafe
<1>11. CASE Incomplete
  BY <1>11, IncompleteSafe
<1>12. CASE UNCHANGED vars
  BY <1>12 DEF SafeInv, Books, Connection, vars, manager, peer
<1> QED BY <1>1, <1>2, <1>3, <1>4, <1>5, <1>6, <1>7, <1>8, <1>9, <1>10, <1>11, <1>12
    DEF Next, Receive

LEMMA SafeHolds == Spec => []SafeInv
BY InitSafe, NextSafe, PTL DEF Spec

-----------------------------------------------------------------------------
(***************************************************************************)
(* While a filter is loaded, what is matched, collected or kept as an      *)
(* orphan is what that filter lets through.                                *)
(***************************************************************************)
Found ==
  /\ (conn.up /\ bloomFilter # 0) => Matching(wire, conn.out, conn.filter, bloomFilter)
  /\ (bloomFilter # 0 /\ conn.current.height # 0) =>
       conn.current.txs = Reach(conn.current.height, bloomFilter)
  /\ bloomFilter # 0 => \A o \in orphans : o.txs = Reach(o.height, bloomFilter)
  /\ PaymentsFound

LEMMA FoundKept ==
  ASSUME Found, Carried, bloomFilter' \in {0, bloomFilter}, orphans' \subseteq orphans,
         \/ conn'.current = Nothing
         \/ conn'.current.height = conn.current.height /\ conn'.current.txs = conn.current.txs,
         UNCHANGED <<lastBlock, confirmed>>
  PROVE  Found'
<1>1. (conn'.up /\ bloomFilter' # 0) => Matching(wire', conn'.out, conn'.filter, bloomFilter')
  BY DEF Found, Carried
<1>2. Nothing.height = 0
  BY DEF Nothing
<1>3. (bloomFilter' # 0 /\ conn'.current.height # 0) =>
        conn'.current.txs = Reach(conn'.current.height, bloomFilter')
  BY <1>2 DEF Found
<1>4. bloomFilter' # 0 => \A o \in orphans' : o.txs = Reach(o.height, bloomFilter')
  BY DEF Found
<1>5. PaymentsFound'
  BY DEF Found, PaymentsFound
<1> QED BY <1>1, <1>3, <1>4, <1>5 DEF Found

LEMMA FoundLoaded ==
  ASSUME Found, Matching(wire', conn'.out, conn'.filter, bloomFilter'), orphans' = {},
         conn'.current = Nothing, PaymentsFound'
  PROVE  Found'
<1>1. Nothing.height = 0
  BY DEF Nothing
<1> QED BY <1>1 DEF Found

LEMMA MerkleblockFound ==
  ASSUME SafeInv, Found, AcceptMerkleblock
  PROVE  Found'
<1>1. /\ conn.up /\ wire # <<>> /\ Head(wire).kind = "merkleblock" /\ wire \in Seq(Msg)
      /\ UNCHANGED <<manager, peer, sessions>>
  BY SafeIs DEF AcceptMerkleblock, Arrives
<1>2. /\ Carried /\ conn'.current.height = Head(wire).height
      /\ conn'.current.txs = Head(wire).txs
  BY AcceptMerkleblockSafe
<1>3. ASSUME bloomFilter # 0 PROVE Head(wire).txs = Reach(Head(wire).height, bloomFilter)
  <2>1. 1 \in DOMAIN wire /\ Head(wire) = wire[1]
    <3> HIDE DEF Msg
    <3> QED BY <1>1, EmptySeq, LenProperties
  <2> QED BY <1>1, <1>3, <2>1 DEF Found, Matching
<1>4. (conn'.up /\ bloomFilter # 0) => Matching(wire', conn'.out, conn'.filter, bloomFilter)
  BY <1>2 DEF Found, Carried
<1>5. UNCHANGED <<bloomFilter, orphans, lastBlock, confirmed>>
  BY <1>1 DEF manager
<1> QED BY <1>2, <1>3, <1>4, <1>5 DEF Found, PaymentsFound

\* The next block, and the orphans that follow it, have all the payments
\* there are: else the first block one is missing from would not be covered.
LEMMA ConnectsFound ==
  ASSUME SafeInv, Found, NEW h \in 1 .. tip, NEW txs \in SUBSET wallet, NEW c,
         Connects(c, h, txs), txs = Reach(h, bloomFilter)
  PROVE  PaymentsFound'
<1>1. /\ bloomFilter # 0 /\ lastBlock' \in 0 .. tip
      /\ confirmed' \subseteq wallet /\ confirmed \cup txs \subseteq confirmed'
      /\ \A i \in lastBlock + 1 .. lastBlock' :
           \/ i = h
           \/ \E o \in orphans : o.height = i /\ wallet \cap o.txs \subseteq confirmed'
  BY ConnectsSplit
<1>2. /\ lastBlock \in Nat /\ tip \in Nat /\ lastBlock <= tip /\ wallet \in SUBSET Tx
      /\ Len(Mined) \in Nat /\ tip \in 0 .. Len(Mined) /\ Heights = 1 .. Len(Mined)
      /\ bloomFilter \in Nat
  BY BooksIs, MinedSeq DEF SafeInv
<1>3. /\ Highest(wallet) + 1 + Gap <= bloomFilter
      /\ \A o \in orphans : o.txs \in SUBSET wallet
  BY <1>1 DEF SafeInv, Books, Covers
<1>4. MinedBy(lastBlock) \subseteq confirmed'
  BY <1>1 DEF Found, PaymentsFound
<1> DEFINE Missed == {i \in lastBlock + 1 .. lastBlock' : ~ MinedBy(i) \subseteq confirmed'}
<1>5. ASSUME Missed # {} PROVE FALSE
  <2>1. Missed \subseteq Nat
    BY <1>2
  <2> DEFINE i == Min(Missed)
  <2>2. i \in Missed /\ \A j \in Missed : i <= j
    <3> HIDE DEF Missed
    <3> QED BY <1>5, <2>1, LeastNat
  <2> HIDE DEF i
  <2>3. i \in lastBlock + 1 .. lastBlock' /\ i \in Heights /\ ~ MinedBy(i) \subseteq confirmed'
    BY <1>1, <1>2, <2>2
  <2>4. MinedBy(i - 1) \subseteq confirmed'
    <3>1. CASE i = lastBlock + 1
      <4>1. i - 1 = lastBlock
        BY <1>2, <3>1
      <4> QED BY <1>4, <4>1
    <3>2. CASE i # lastBlock + 1
      <4>1. i - 1 \in lastBlock + 1 .. lastBlock' /\ ~ i <= i - 1
        BY <1>1, <1>2, <2>3, <3>2
      <4> QED BY <2>2, <4>1
    <3> QED BY <3>1, <3>2
  <2>5. Reach(i, bloomFilter) \subseteq confirmed'
    <3>1. CASE i = h
      BY <1>1, <3>1
    <3>2. CASE i # h
      <4>1. PICK o \in orphans : o.height = i /\ wallet \cap o.txs \subseteq confirmed'
        BY <1>1, <2>3, <3>2
      <4>2. o.txs = Reach(i, bloomFilter)
        BY <1>1, <4>1 DEF Found
      <4> QED BY <1>3, <4>1, <4>2
    <3> QED BY <3>1, <3>2
  <2>6. MinedBy(i - 1) \subseteq wallet /\ Reach(i, bloomFilter) \subseteq wallet
    BY <1>1, <2>4, <2>5
  <2>7. Mined[i] = Reach(i, bloomFilter)
    BY <1>2, <1>3, <2>3, <2>6, AllReached
  <2>8. MinedBy(i) = MinedBy(i - 1) \cup Mined[i]
    BY <2>3, MinedByIs
  <2> QED BY <2>3, <2>4, <2>5, <2>7, <2>8
<1>6. MinedBy(lastBlock') \subseteq confirmed'
  <2>1. CASE lastBlock' \in lastBlock + 1 .. lastBlock'
    BY <1>5, <2>1
  <2>2. CASE lastBlock' \notin lastBlock + 1 .. lastBlock'
    <3>1. lastBlock' \in 0 .. Len(Mined) /\ lastBlock \in 0 .. Len(Mined) /\ lastBlock' <= lastBlock
      BY <1>1, <1>2, <2>2
    <3>2. MinedBy(lastBlock') \subseteq MinedBy(lastBlock)
      BY <3>1, MinedByIs
    <3> QED BY <1>4, <3>2
  <2> QED BY <2>1, <2>2
<1> QED BY <1>6 DEF PaymentsFound, MinedBy

LEMMA RelayedFound ==
  ASSUME SafeInv, Found, RelayedBlock, ~ Overtaken
  PROVE  Found'
<1> DEFINE b == conn.current
<1>1. /\ b.height \in 1 .. tip /\ b.txs \in SUBSET wallet /\ conn.up
      /\ UNCHANGED <<wallet, wire, peer, sessions>>
      /\ \E c : /\ Relayed(c)
                /\ \/ Dropped(c)
                   \/ Aged(c, b.height)
                   \/ Orphan(c, b.height, b.txs)
                   \/ Connects(c, b.height, b.txs)
  BY BlockCollected
<1>2. PICK c : /\ Relayed(c)
               /\ \/ Dropped(c)
                  \/ Aged(c, b.height)
                  \/ Orphan(c, b.height, b.txs)
                  \/ Connects(c, b.height, b.txs)
  BY <1>1
<1>3. bloomFilter # 0 => b.txs = Reach(b.height, bloomFilter)
  BY <1>1 DEF Found
<1> HIDE DEF b
<1>4. CASE Dropped(c)
  <2>1. Carried /\ conn'.current = Nothing
    BY <1>1, <1>2, <1>4, DroppedSafe
  <2> QED BY <1>4, <2>1, FoundKept DEF Dropped
<1>7. CASE Aged(c, b.height)
  <2>1. Carried /\ conn'.current = Nothing
    BY <1>1, <1>2, <1>7, AgedSafe
  <2> QED BY <1>7, <2>1, FoundKept DEF Aged
<1>5. CASE Orphan(c, b.height, b.txs)
  <2>1. Carried /\ conn'.current = Nothing
    BY <1>1, <1>2, <1>5, OrphanSafe
  <2>2. /\ orphans' = orphans \cup {[height |-> b.height, txs |-> b.txs]} /\ bloomFilter # 0
        /\ UNCHANGED <<lastBlock, confirmed, bloomFilter>>
    BY <1>5 DEF Orphan
  <2>3. \A o \in orphans' : o.txs = Reach(o.height, bloomFilter)
    BY <1>3, <2>2 DEF Found
  <2>4. Nothing.height = 0
    BY DEF Nothing
  <2> QED BY <2>1, <2>2, <2>3, <2>4 DEF Found, Carried, PaymentsFound
<1>6. CASE Connects(c, b.height, b.txs)
  <2>1. bloomFilter # 0
    BY <1>6 DEF Connects
  <2>2. PaymentsFound'
    BY <1>1, <1>3, <1>6, <2>1, ConnectsFound
  <2>3. /\ conn'.current = Nothing
        /\ \/ Carried /\ bloomFilter' = bloomFilter /\ orphans' \subseteq orphans
           \/ /\ bloomFilter' = Filter(wallet) /\ orphans' = {}
              /\ (\/ Matching(wire, conn.out, conn.filter, Filter(wallet))
                  \/ Quiet(wire, conn.out))
                   => Matching(wire', conn'.out, conn'.filter, bloomFilter')
    BY <1>1, <1>2, <1>6, ConnectsSafe
  <2>4. CASE Carried /\ bloomFilter' = bloomFilter /\ orphans' \subseteq orphans
    <3>1. Nothing.height = 0
      BY DEF Nothing
    <3> QED BY <2>2, <2>3, <2>4, <3>1 DEF Found, Carried
  <2>5. CASE /\ bloomFilter' = Filter(wallet) /\ orphans' = {}
             /\ (\/ Matching(wire, conn.out, conn.filter, Filter(wallet))
                 \/ Quiet(wire, conn.out))
                  => Matching(wire', conn'.out, conn'.filter, bloomFilter')
    <3>1. bloomFilter \in Nat /\ Filter(wallet) \in Nat /\ bloomFilter <= Filter(wallet)
      BY FilterIs, BooksIs DEF SafeInv, Books, Covers
    <3>2. CASE bloomFilter = Filter(wallet)
      <4>1. Matching(wire, conn.out, conn.filter, Filter(wallet))
        BY <1>1, <2>1, <3>2 DEF Found
      <4> QED BY <2>2, <2>3, <2>5, <4>1, FoundLoaded
    <3>3. CASE bloomFilter # Filter(wallet)
      <4>1. bloomFilter' > bloomFilter
        BY <2>5, <3>1, <3>3
      <4>2. Quiet(wire, conn.out)
        BY <1>1, <2>1, <4>1 DEF Overtaken, Quiet
      <4> QED BY <2>2, <2>3, <2>5, <4>2, FoundLoaded
    <3> QED BY <3>2, <3>3
  <2> QED BY <2>3, <2>4, <2>5
<1> QED BY <1>2, <1>4, <1>5, <1>6, <1>7

LEMMA PongFound ==
  ASSUME SafeInv, Found, AcceptPong
  PROVE  Found'
<1>1. /\ conn'.current = conn.current
      /\ \/ Carried /\ UNCHANGED <<bloomFilter, orphans>>
         \/ Matching(wire', conn'.out, conn'.filter, bloomFilter') /\ orphans' = {}
  BY AcceptPongSafe
<1>2. conn.current = Nothing /\ UNCHANGED <<lastBlock, confirmed>>
  BY DEF AcceptPong, Arrives
<1>3. CASE Carried /\ UNCHANGED <<bloomFilter, orphans>>
  BY <1>1, <1>2, <1>3, FoundKept
<1>4. CASE Matching(wire', conn'.out, conn'.filter, bloomFilter') /\ orphans' = {}
  <2>1. PaymentsFound'
    BY <1>2 DEF Found, PaymentsFound
  <2> QED BY <1>1, <1>2, <1>4, <2>1, FoundLoaded
<1> QED BY <1>1, <1>3, <1>4

LEMMA NextFound == SafeInv /\ Found /\ [Next /\ ~ Overtaken]_vars => Found'
<1> SUFFICES ASSUME SafeInv, Found, [Next /\ ~ Overtaken]_vars PROVE Found'
  OBVIOUS
<1>0. ASSUME UNCHANGED manager, Carried, conn'.current = Nothing \/ conn'.current = conn.current
      PROVE  Found'
  BY <1>0, FoundKept DEF manager
<1>1. CASE PeerConnected
  <2>1. /\ Matching(wire', conn'.out, conn'.filter, bloomFilter') /\ conn'.current = Nothing
        /\ orphans' = {} /\ UNCHANGED <<lastBlock, confirmed>>
    BY <1>1, PeerConnectedSafe DEF PeerConnected, LoadBloomFilter
  <2>2. PaymentsFound'
    BY <2>1 DEF Found, PaymentsFound
  <2> QED BY <2>1, <2>2, FoundLoaded
<1>2. CASE Timeout
  BY <1>0, <1>2, TimeoutSafe DEF Timeout
<1>3. CASE Serve
  BY <1>0, <1>3, ServeSafe DEF Serve
<1>4. CASE Mine
  BY <1>0, <1>4, MineSafe DEF Mine
<1>5. CASE \E t \in Announced : Announce(t)
  BY <1>0, <1>5, AnnounceSafe DEF Announce
<1>6. CASE AcceptInv
  BY <1>0, <1>6, AcceptInvSafe DEF AcceptInv
<1>7. CASE AcceptTx
  <2>1. bloomFilter' \in {0, bloomFilter} /\ UNCHANGED <<orphans, lastBlock, confirmed>>
    BY <1>7 DEF AcceptTx
  <2> QED BY <1>7, <2>1, AcceptTxSafe, FoundKept
<1>8. CASE AcceptMerkleblock
  BY <1>8, MerkleblockFound
<1>9. CASE RelayedBlock /\ ~ Overtaken
  BY <1>9, RelayedFound
<1>10. CASE AcceptPong
  BY <1>10, PongFound
<1>11. CASE Incomplete
  BY <1>0, <1>11, IncompleteSafe DEF Incomplete
<1>12. CASE UNCHANGED vars
  BY <1>12 DEF Found, PaymentsFound, vars, manager
<1> QED BY <1>1, <1>2, <1>3, <1>4, <1>5, <1>6, <1>7, <1>8, <1>9, <1>10, <1>11, <1>12
    DEF Next, Receive

LEMMA InitFound == Init => Found
<1> SUFFICES ASSUME Init PROVE Found
  OBVIOUS
<1>1. bloomFilter = 0 /\ lastBlock = Begin /\ MinedBy(Begin) = {}
  BY Assumed DEF Init
<1> QED BY <1>1 DEF Found, PaymentsFound

\* All payments to the wallet up to the last block are known, as mined,
\* unless a block asked for on one filter is collected after another that
\* covers more was loaded.
THEOREM PaymentsFoundHolds == Spec /\ [][~ Overtaken]_vars => []PaymentsFound
<1>1. Found => PaymentsFound
  BY DEF Found
<1>2. SafeInv /\ Found /\ [Next]_vars /\ [~ Overtaken]_vars => (SafeInv /\ Found)'
  BY NextSafe, NextFound DEF vars
<1> QED BY InitSafe, InitFound, <1>1, <1>2, PTL DEF Spec

-----------------------------------------------------------------------------
LEMMA SameNumber ==
  ASSUME NEW S, NEW T, IsFiniteSet(S), NEW f \in [S -> T],
         \A a, b \in S : f[a] = f[b] => a = b, \A y \in T : \E a \in S : f[a] = y
  PROVE  IsFiniteSet(T) /\ Cardinality(T) = Cardinality(S)
<1>1. f \in Injection(S, T)
  BY DEF Injection, IsInjective
<1>2. f \in Surjection(S, T)
  BY DEF Surjection
<1>3. ExistsBijection(S, T)
  BY <1>1, <1>2 DEF ExistsBijection, Bijection
<1> QED BY <1>3, FS_Bijection

\* A callback for each ping and each pong.
LEMMA PingsCounted ==
  ASSUME NEW w, NEW out, NEW pongs, NEW known, NEW blocks, NEW t, NEW xs,
         Fine(w, out, pongs, known, blocks, t, xs)
  PROVE  Len(pongs) = Cardinality({i \in DOMAIN out : out[i].kind = "ping"})
                       + Cardinality({i \in DOMAIN w : w[i].kind = "pong"})
<1> DEFINE L == Line(w, out)
           n == Len(w)
           P == {i \in DOMAIN w : w[i].kind = "pong"}
           Q == {i \in DOMAIN out : out[i].kind = "ping"}
           R == {i \in DOMAIN L : i > n /\ IsPing(L[i])}
           All == {i \in DOMAIN L : IsPing(L[i])}
<1>1. Typed(w, out, pongs, known, blocks, t) /\ Ordered(L, pongs)
  BY DEF Fine
<1>2. /\ w \in Seq(Msg) /\ out \in Seq(Msg) /\ pongs \in Seq(Callbacks)
      /\ \A i \in DOMAIN w : w[i] \in PeerMsg(t)
      /\ \A i \in DOMAIN out : out[i] \in ClientMsg(t)
  BY <1>1, TypedIs DEF Typed
<1>3. /\ n \in Nat /\ Len(out) \in Nat /\ DOMAIN L = 1 .. (n + Len(out))
      /\ \A i \in 1 .. (n + Len(out)) : L[i] = IF i <= n THEN w[i] ELSE out[i - n]
      /\ DOMAIN w = 1 .. n /\ DOMAIN out = 1 .. Len(out)
  <2> HIDE DEF Msg
  <2> QED BY <1>2, LineIs, LenProperties
<1> HIDE DEF L, n
<1>4. /\ \A i \in DOMAIN w : IsPing(w[i]) <=> w[i].kind = "pong"
      /\ \A i \in DOMAIN out : IsPing(out[i]) <=> out[i].kind = "ping"
  BY <1>2 DEF PeerMsg, ClientMsg, IsPing
<1> HIDE DEF IsPing
<1>5. P = {i \in DOMAIN L : i <= n /\ IsPing(L[i])}
  BY <1>3, <1>4
<1>6. All = P \cup R /\ P \cap R = {}
  BY <1>3, <1>5
<1>7. IsFiniteSet(All) /\ IsFiniteSet(P) /\ IsFiniteSet(R) /\ IsFiniteSet(Q)
  <2>1. IsFiniteSet(DOMAIN L) /\ IsFiniteSet(DOMAIN w) /\ IsFiniteSet(DOMAIN out)
    BY <1>3, FS_Interval
  <2> QED BY <2>1, FS_Subset
<1>8. Cardinality(R) = Cardinality(Q)
  <2> DEFINE f == [i \in Q |-> n + i]
  <2>1. ASSUME NEW i \in Q PROVE n + i \in R
    <3>1. n + i \in DOMAIN L /\ n + i > n /\ L[n + i] = out[i] /\ i \in DOMAIN out
      BY <1>3
    <3> QED BY <1>4, <3>1
  <2>2. ASSUME NEW j \in R PROVE j - n \in Q /\ n + (j - n) = j
    <3>1. j - n \in DOMAIN out /\ L[j] = out[j - n] /\ n + (j - n) = j
      BY <1>3
    <3> QED BY <1>4, <3>1
  <2>3. f \in [Q -> R]
    BY <2>1
  <2>4. \A a, b \in Q : f[a] = f[b] => a = b
    BY <1>3
  <2>5. \A j \in R : \E a \in Q : f[a] = j
    BY <2>2
  <2> HIDE DEF f, Q, R
  <2> QED BY <1>7, <2>3, <2>4, <2>5, SameNumber
<1>9. Cardinality(All) = Len(pongs)
  <2>1. PICK f : Calls(f, L, pongs)
    BY <1>1 DEF Ordered
  <2>2. DOMAIN pongs = 1 .. Len(pongs) /\ Len(pongs) \in Nat
    <3> HIDE DEF Callbacks
    <3> QED BY <1>2, LenProperties
  <2>3. IsFiniteSet(DOMAIN pongs) /\ Cardinality(DOMAIN pongs) = Len(pongs)
    <3> DEFINE z == Len(pongs)
    <3>1. z \in Nat /\ z \in Int /\ 1 \in Int
      BY <2>2
    <3> HIDE DEF z
    <3>2. IsFiniteSet(1 .. z) /\ Cardinality(1 .. z) = z
      BY <3>1, FS_Interval
    <3> QED BY <2>2, <3>2 DEF z
  <2>4. f \in [DOMAIN pongs -> All]
    BY <2>1 DEF Calls
  <2>5. \A k, l \in DOMAIN pongs : f[k] = f[l] => k = l
    <3> SUFFICES ASSUME NEW k \in DOMAIN pongs, NEW l \in DOMAIN pongs, f[k] = f[l], k # l
                 PROVE  FALSE
      OBVIOUS
    <3>1. f[k] \in Int
      BY <1>3, <2>1 DEF Calls
    <3>2. k < l \/ l < k
      BY <2>2
    <3>3. f[k] < f[l] \/ f[l] < f[k]
      BY <2>1, <3>2 DEF Calls
    <3> QED BY <3>1, <3>3
  <2>6. \A i \in All : \E k \in DOMAIN pongs : f[k] = i
    BY <2>1 DEF Calls
  <2> HIDE DEF All
  <2> QED BY <2>3, <2>4, <2>5, <2>6, SameNumber
<1> HIDE DEF P, R, Q, All
<1>10. Cardinality(All) = Cardinality(P) + Cardinality(R)
  <2>1. Cardinality({}) = 0 /\ Cardinality(P) \in Nat /\ Cardinality(R) \in Nat
    BY <1>7, FS_EmptySet, FS_CardinalityType
  <2>2. Cardinality(P \cup R) = Cardinality(P) + Cardinality(R) - Cardinality(P \cap R)
    BY <1>7, FS_Union
  <2>3. Cardinality(P \cap R) = 0
    BY <1>6, <2>1
  <2>4. Cardinality(All) = Cardinality(P \cup R)
    BY <1>6
  <2> QED BY <2>1, <2>2, <2>3, <2>4
<1>11. Len(pongs) = Cardinality(Q) + Cardinality(P)
  <2>1. Cardinality(P) \in Nat /\ Cardinality(Q) \in Nat
    BY <1>7, FS_CardinalityType
  <2> QED BY <1>8, <1>9, <1>10, <2>1
<1> QED BY <1>11 DEF P, Q

LEMMA SafeTyped == SafeInv => TypeOK
<1> SUFFICES ASSUME SafeInv PROVE TypeOK
  OBVIOUS
<1>1. /\ lastBlock \in 0 .. tip /\ estimatedHeight \in 0 .. tip
      /\ bloomFilter \in 0 .. generated
      /\ wallet \cup confirmed \subseteq Tx
      /\ \A o \in orphans : o.height \in lastBlock + 2 .. tip /\ o.txs \subseteq Tx
      /\ tip \in Heights /\ pool \subseteq Tx /\ sessions \in 0 .. MaxSessions
  BY DEF SafeInv, Books, Covers
<1>2. /\ Typed(wire, conn.out, conn.pongs, conn.known, conn.blocks, tip)
      /\ Fine(wire, conn.out, conn.pongs, conn.known, conn.blocks, tip, wallet)
      /\ conn.blocks \in Seq(1 .. tip)
  BY SafeIs
<1>3. ASSUME NEW m \in Msg PROVE MessageType(m)
  <2>1. m.kind \in Kinds /\ m.txs \subseteq Tx /\ m.blocks \in Seq(Heights)
    BY DEF Msg
  <2> QED BY <2>1, RangeOfSeq DEF MessageType
<1>4. /\ \A i \in DOMAIN wire : wire[i] \in Msg
      /\ \A i \in DOMAIN conn.out : conn.out[i] \in Msg
  BY <1>2, TypedIs DEF PeerMsg, ClientMsg
<1>5. Len(conn.pongs) = Cardinality({i \in DOMAIN conn.out : conn.out[i].kind = "ping"})
                          + Cardinality({i \in DOMAIN wire : wire[i].kind = "pong"})
  BY <1>2, PingsCounted
<1>6. Range(conn.blocks) \subseteq 1 .. tip
  BY <1>2, RangeOfSeq
<1> QED BY <1>1, <1>3, <1>4, <1>5, <1>6 DEF TypeOK

\* Every variable has its type in every state.
THEOREM TypeCorrect == Spec => []TypeOK
BY SafeHolds, SafeTyped, PTL
=============================================================================
