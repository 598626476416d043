-------------------------- MODULE ChatServerProofs --------------------------
(***************************************************************************)
(* In which order the chats bring messages to the server and back, and     *)
(* what the lists of chats have, for all students, devices and bounds.     *)
(***************************************************************************)
EXTENDS ChatScreenProofs

-----------------------------------------------------------------------------
(* While the clocks of the devices do not go back, the messages of a user  *)
(* are written, stored and learned in the order of their keys.             *)

KeyOnce == \A m, n \in sent : m.key = n.key => m = n

OutboxOrder ==
  \A d \in Device : \A i, j \in DOMAIN outbox[d] :
    outbox[d][i].what = "message" /\ outbox[d][j].what = "message" /\ i < j =>
      outbox[d][i].of.key < outbox[d][j].of.key

(* What is not stored yet is newer than what is. *)
StoredFirst ==
  \A d \in Device : \A i \in DOMAIN outbox[d] :
    outbox[d][i].what = "message" /\ outbox[d][i].of \notin ToSet(log) =>
      \A n \in ToSet(log) : n.from = d => n.key < outbox[d][i].of.key

LogOrder ==
  \A i, j \in DOMAIN log : i < j /\ log[i].from = log[j].from => log[i].key < log[j].key

(* What a device knows of a peer's messages begins with the first.         *)
KnownPrefix ==
  \A d \in Device : \A i, j \in DOMAIN log :
    /\ i < j /\ log[i].from = log[j].from /\ log[i].from # d /\ log[i].to = d
    /\ log[j] \in known[d]
    => log[i] \in known[d]

LineOrder ==
  \A d \in Device, t \in Tabs : \A m, n \in Message :
    Ahead(d, t, m, n) /\ m.from # d /\ n.from # d => m.key < n.key

StoreOrder == KeyOnce /\ OutboxOrder /\ StoredFirst /\ LogOrder
OrderInv   == StoreOrder /\ KnownPrefix /\ LineOrder

LEMMA InitOrder == Init => OrderInv
<1> SUFFICES ASSUME Init PROVE OrderInv
  OBVIOUS
<1>1. Closed.shown = <<>> /\ DOMAIN <<>> = {}
  BY DEF Closed
<1>2. \A d \in Device, t \in Tabs : chat[d][t] = Closed /\ mainQ[d] = <<>>
  BY DEF Init
<1>3. \A d \in Device, t \in Tabs : \A m, n : ~ Ahead(d, t, m, n)
  BY <1>1, <1>2 DEF Ahead, OnScreen, RowAhead, EventAhead
<1> QED
  BY <1>1, <1>3
  DEF Init, OrderInv, StoreOrder, KeyOnce, OutboxOrder, StoredFirst, LogOrder, KnownPrefix,
      LineOrder

(* A new message is newer than all that its sender ever sent.              *)
LEMMA SendOrder ==
  ASSUME SteadyClock = TRUE, BaseInv, StoreOrder, NEW d \in Device, Send(d)
  PROVE  StoreOrder'
<1>1. TypeOK /\ SentInv
  BY DEF BaseInv
<1>2. PICK m \in Message, es \in Seq(Write) : Sends(d, m, es)
  BY SendFacts
<1>3. /\ \A c \in Device \ {d} : outbox'[c] = outbox[c]
      /\ \A i \in DOMAIN outbox'[d] :
            \/ i \in DOMAIN outbox[d] /\ outbox'[d][i] = outbox[d][i]
            \/ /\ i = Len(outbox[d]) + 1
               /\ outbox'[d][i] = [what |-> "message", of |-> m]
            \/ /\ i > Len(outbox[d]) + 1 /\ IsFirst(d)
               /\ outbox'[d][i].what = "entry"
               /\ outbox'[d][i].of \in {<<d, visitor[d]>>, <<visitor[d], d>>}
  BY <1>2, SendsPart
<1>4. /\ sent' = sent \cup {m} /\ log' = log /\ m.from = d
      /\ \A n \in sent : n.key # m.key /\ (n.from = d => n.key < m.key)
  BY <1>2 DEF Sends, NewKey, serverVars
<1>5. "message" # "entry" /\ [what |-> "message", of |-> m].of = m
  OBVIOUS
<1>6. \A i \in DOMAIN outbox'[d] : outbox'[d][i].what = "message" =>
        \/ i \in DOMAIN outbox[d] /\ outbox'[d][i] = outbox[d][i]
        \/ i = Len(outbox[d]) + 1 /\ outbox'[d][i].of = m
  BY <1>3, <1>5
<1>7. DOMAIN outbox[d] = 1 .. Len(outbox[d]) /\ Len(outbox[d]) \in Nat
  BY <1>1 DEF TypeOK
<1>8. KeyOnce'
  BY <1>4 DEF StoreOrder, KeyOnce
<1>9. OutboxOrder'
  <2>1. ASSUME NEW i \in DOMAIN outbox'[d], NEW j \in DOMAIN outbox'[d], i < j,
               outbox'[d][i].what = "message", outbox'[d][j].what = "message"
        PROVE  outbox'[d][i].of.key < outbox'[d][j].of.key
    <3>1. i \in DOMAIN outbox[d] /\ outbox'[d][i] = outbox[d][i]
      <4>1. ASSUME i = Len(outbox[d]) + 1 PROVE FALSE
        <5>1. j \in 1 .. Len(outbox[d]) \/ j = Len(outbox[d]) + 1
          BY <1>6, <1>7, <2>1
        <5> QED  BY <1>7, <2>1, <4>1, <5>1
      <4> QED  BY <1>6, <2>1, <4>1
    <3>2. CASE j \in DOMAIN outbox[d] /\ outbox'[d][j] = outbox[d][j]
      BY <2>1, <3>1, <3>2 DEF StoreOrder, OutboxOrder
    <3>3. CASE outbox'[d][j].of = m
      <4>1. outbox[d][i].of \in sent /\ outbox[d][i].of.from = d
        BY <1>1, <2>1, <3>1 DEF SentInv
      <4> QED  BY <1>4, <3>1, <3>3, <4>1
    <3> QED  BY <1>6, <2>1, <3>2, <3>3
  <2> QED  BY <1>3, <2>1 DEF StoreOrder, OutboxOrder
<1>10. StoredFirst'
  <2>1. ToSet(log') = ToSet(log)
    BY <1>4
  <2>2. ASSUME NEW i \in DOMAIN outbox'[d], outbox'[d][i].what = "message",
               outbox'[d][i].of \notin ToSet(log),
               NEW n \in ToSet(log), n.from = d
        PROVE  n.key < outbox'[d][i].of.key
    BY <1>1, <1>4, <1>6, <2>2 DEF StoreOrder, StoredFirst, SentInv
  <2> QED  BY <1>3, <2>1, <2>2 DEF StoreOrder, StoredFirst
<1>11. LogOrder'
  BY <1>4 DEF StoreOrder, LogOrder
<1> QED  BY <1>8, <1>9, <1>10, <1>11 DEF StoreOrder

(* The first writes of a device are stored in their order, after what was  *)
(* stored of it.                                                           *)
LEMMA ServeOrder ==
  ASSUME BaseInv, StoreOrder, NEW d \in Device, Accept(d) \/ Reconnect(d)
  PROVE  StoreOrder'
<1>1. TypeOK /\ SentInv
  BY DEF BaseInv
<1>2. PICK n \in 0 .. Len(outbox[d]), ms \in Seq(Message) :
        Serves(d, n, ms) /\ (Answers(d, n) \/ Relistens(d))
  BY <1>1, ServerFacts
<1>3. PICK f \in [1 .. Len(ms) -> 1 .. n] :
        /\ \A i \in 1 .. Len(ms) :
             /\ outbox[d][f[i]].what = "message" /\ outbox[d][f[i]].of = ms[i]
             /\ ms[i] \notin ToSet(log)
        /\ \A i, j \in 1 .. Len(ms) : i < j => f[i] < f[j]
  BY <1>2 DEF Serves
<1>4. /\ log' = log \o ms
      /\ \A k \in 1 .. n : outbox[d][k].what = "message" => outbox[d][k].of \in ToSet(log')
  BY <1>2 DEF Serves
<1>5. DOMAIN outbox[d] = 1 .. Len(outbox[d]) /\ Len(outbox[d]) \in Nat /\ 1 .. n \subseteq DOMAIN outbox[d]
  BY <1>1 DEF TypeOK
<1>6. ToSet(log') = ToSet(log) \cup ToSet(ms)
  BY <1>1, <1>4, ToSetCat DEF TypeOK
<1>7. \A i \in 1 .. Len(ms) : f[i] \in DOMAIN outbox[d] /\ ms[i].from = d
  BY <1>1, <1>3, <1>5 DEF SentInv
<1>8. \A x \in ToSet(ms) : \E i \in 1 .. Len(ms) : x = ms[i]
  BY DEF ToSet
<1>9. \A c \in Device \ {d} : outbox'[c] = outbox[c]
  BY <1>1, <1>2, TailPart DEF Answers, Relistens
<1>10. \A i \in DOMAIN outbox'[d] : i \in Nat /\
         \E k \in DOMAIN outbox[d] : /\ outbox'[d][i] = outbox[d][k]
                                     /\ k = IF Answers(d, n) THEN i + 1 ELSE i
  <2>1. CASE Answers(d, n)
    BY <1>1, <2>1, TailPart DEF Answers
  <2>2. CASE ~ Answers(d, n)
    BY <1>2, <1>5, <2>2 DEF Relistens
  <2> QED  BY <2>1, <2>2
<1>11. KeyOnce'
  BY <1>2 DEF Answers, Relistens, StoreOrder, KeyOnce
<1>12. OutboxOrder'
  <2>1. ASSUME NEW i \in DOMAIN outbox'[d], NEW j \in DOMAIN outbox'[d], i < j,
               outbox'[d][i].what = "message", outbox'[d][j].what = "message"
        PROVE  outbox'[d][i].of.key < outbox'[d][j].of.key
    <3>1. PICK k \in DOMAIN outbox[d] : /\ outbox'[d][i] = outbox[d][k]
                                        /\ k = IF Answers(d, n) THEN i + 1 ELSE i
      BY <1>10
    <3>2. PICK l \in DOMAIN outbox[d] : /\ outbox'[d][j] = outbox[d][l]
                                        /\ l = IF Answers(d, n) THEN j + 1 ELSE j
      BY <1>10
    <3>3. k < l
      BY <1>10, <2>1, <3>1, <3>2
    <3> QED  BY <2>1, <3>1, <3>2, <3>3 DEF StoreOrder, OutboxOrder
  <2> QED  BY <1>9, <2>1 DEF StoreOrder, OutboxOrder
<1>13. ASSUME NEW k \in DOMAIN outbox[d], outbox[d][k].what = "message",
              outbox[d][k].of \notin ToSet(log'), NEW x \in ToSet(log'), x.from = d
       PROVE  x.key < outbox[d][k].of.key
  <2>1. CASE x \in ToSet(log)
    BY <1>6, <1>13, <2>1 DEF StoreOrder, StoredFirst
  <2>2. CASE x \in ToSet(ms)
    <3>1. PICK i \in 1 .. Len(ms) : x = ms[i]
      BY <1>8, <2>2
    <3>2. f[i] \in 1 .. n /\ k \notin 1 .. n
      BY <1>3, <1>4, <1>13
    <3>3. f[i] < k
      BY <1>5, <3>2
    <3>4. f[i] \in DOMAIN outbox[d] /\ outbox[d][f[i]].what = "message" /\ outbox[d][f[i]].of = x
      BY <1>3, <1>7, <3>1
    <3> QED  BY <1>13, <3>3, <3>4 DEF StoreOrder, OutboxOrder
  <2> QED  BY <1>6, <1>13, <2>1, <2>2
<1>14. StoredFirst'
  <2> SUFFICES ASSUME NEW c \in Device, NEW i \in DOMAIN outbox'[c],
                      outbox'[c][i].what = "message", outbox'[c][i].of \notin ToSet(log'),
                      NEW x \in ToSet(log'), x.from = c
               PROVE  x.key < outbox'[c][i].of.key
    BY DEF StoredFirst
  <2>1. CASE c = d
    BY <1>10, <1>13, <2>1
  <2>2. CASE c # d
    <3>1. x \in ToSet(log)
      BY <1>6, <1>7, <1>8, <2>2
    <3> QED  BY <1>6, <1>9, <2>2, <3>1 DEF StoreOrder, StoredFirst
  <2> QED  BY <2>1, <2>2
<1>15. LogOrder'
  <2> SUFFICES ASSUME NEW i \in DOMAIN log', NEW j \in DOMAIN log', i < j,
                      log'[i].from = log'[j].from
               PROVE  log'[i].key < log'[j].key
    BY DEF LogOrder
  <2>1. log \in Seq(Message)
    BY <1>1 DEF TypeOK
  <2>2. /\ DOMAIN log' = 1 .. (Len(log) + Len(ms)) /\ Len(log) \in Nat /\ Len(ms) \in Nat
        /\ DOMAIN log = 1 .. Len(log)
        /\ \A k \in 1 .. Len(log) : log'[k] = log[k]
        /\ \A k \in 1 .. Len(ms) : log'[Len(log) + k] = ms[k]
    BY <1>4, <2>1
  <2>3. ASSUME NEW k \in DOMAIN log', k > Len(log)
        PROVE  k - Len(log) \in 1 .. Len(ms) /\ log'[k] = ms[k - Len(log)]
    <3>1. k - Len(log) \in 1 .. Len(ms) /\ Len(log) + (k - Len(log)) = k
      BY <2>2, <2>3
    <3> QED  BY <2>2, <3>1
  <2>4. CASE j <= Len(log)
    <3>1. /\ i \in DOMAIN log /\ j \in DOMAIN log /\ log'[i] = log[i] /\ log'[j] = log[j]
      BY <2>2, <2>4
    <3> QED  BY <3>1 DEF StoreOrder, LogOrder
  <2>5. CASE i <= Len(log) /\ j > Len(log)
    <3>1. PICK k \in 1 .. Len(ms) : log'[j] = ms[k]
      BY <2>3, <2>5
    <3>2. log'[i] \in ToSet(log) /\ log'[i].from = d
      BY <1>7, <2>2, <2>5, <3>1 DEF ToSet
    <3>3. f[k] \in DOMAIN outbox[d] /\ outbox[d][f[k]].what = "message" /\ outbox[d][f[k]].of = log'[j]
          /\ log'[j] \notin ToSet(log)
      BY <1>3, <1>7, <3>1
    <3> QED  BY <3>2, <3>3 DEF StoreOrder, StoredFirst
  <2>6. CASE i > Len(log)
    <3>1. j > Len(log)
      BY <2>2, <2>6
    <3>2. PICK k \in 1 .. Len(ms), l \in 1 .. Len(ms) :
            log'[i] = ms[k] /\ log'[j] = ms[l] /\ k < l
      <4>1. /\ i - Len(log) \in 1 .. Len(ms) /\ log'[i] = ms[i - Len(log)]
            /\ j - Len(log) \in 1 .. Len(ms) /\ log'[j] = ms[j - Len(log)]
            /\ i - Len(log) < j - Len(log)
        BY <2>2, <2>3, <2>6, <3>1
      <4> QED  BY <4>1
    <3>3. /\ f[k] \in DOMAIN outbox[d] /\ outbox[d][f[k]].what = "message" /\ outbox[d][f[k]].of = log'[i]
          /\ f[l] \in DOMAIN outbox[d] /\ outbox[d][f[l]].what = "message" /\ outbox[d][f[l]].of = log'[j]
          /\ f[k] < f[l]
      BY <1>3, <1>7, <3>2
    <3> QED  BY <3>3 DEF StoreOrder, OutboxOrder
  <2> QED  BY <2>2, <2>4, <2>5, <2>6
<1> QED  BY <1>11, <1>12, <1>14, <1>15 DEF StoreOrder

LEMMA StepStoreOrder ==
  SteadyClock = TRUE => (BaseInv /\ StoreOrder /\ [Next]_vars => StoreOrder')
<1> SUFFICES ASSUME SteadyClock = TRUE, BaseInv, StoreOrder, [Next]_vars PROVE StoreOrder'
  OBVIOUS
<1>1. TypeOK
  BY DEF BaseInv
<1>2. ASSUME UNCHANGED <<sent, log, outbox>> PROVE StoreOrder'
  BY <1>2 DEF StoreOrder, KeyOnce, OutboxOrder, StoredFirst, LogOrder, ToSet
<1>3. ASSUME NEW d \in Device, Reject(d) PROVE StoreOrder'
  <2>1. /\ \A c \in Device \ {d} : outbox'[c] = outbox[c]
        /\ \A i \in DOMAIN outbox'[d] :
             i \in Nat /\ i + 1 \in DOMAIN outbox[d] /\ outbox'[d][i] = outbox[d][i + 1]
    BY <1>1, <1>3, TailPart DEF Reject
  <2>2. UNCHANGED <<sent, log>> /\ ToSet(log') = ToSet(log)
    BY <1>3 DEF Reject, serverVars
  <2>3. \A i, j \in DOMAIN outbox'[d] : i < j => i + 1 < j + 1
    BY <2>1
  <2>4. OutboxOrder'
    BY <2>1, <2>3 DEF StoreOrder, OutboxOrder
  <2>5. StoredFirst'
    BY <2>1, <2>2 DEF StoreOrder, StoredFirst
  <2> QED  BY <2>2, <2>4, <2>5 DEF StoreOrder, KeyOnce, LogOrder
<1>4. ASSUME NEW d \in Device, Kill(d) PROVE StoreOrder'
  <2>1. Ended(d)
    BY <1>1, <1>4, EndedByKill
  <2>2. \A c \in Device : outbox'[c] = outbox[c] \/ DOMAIN outbox'[c] = {}
    BY <2>1 DEF Ended
  <2>3. UNCHANGED <<sent, log>> /\ ToSet(log') = ToSet(log)
    BY <1>4 DEF Kill, serverVars
  <2>4. OutboxOrder' /\ StoredFirst'
    BY <2>2, <2>3 DEF StoreOrder, OutboxOrder, StoredFirst
  <2> QED  BY <2>3, <2>4 DEF StoreOrder, KeyOnce, LogOrder
<1>5. ASSUME NEW d \in Device, \/ Select(d) \/ Back(d) \/ SwitchTab(d) \/ RunEvent(d)
                               \/ ShowRow(d) \/ Sync(d) \/ Arrive(d)
      PROVE  StoreOrder'
  BY <1>2, <1>5
  DEF Select, Back, SwitchTab, RunEvent, ShowRow, Sync, Arrive, serverVars, clientVars
<1>6. CASE UNCHANGED vars
  BY <1>2, <1>6 DEF vars, serverVars, clientVars
<1> QED
  BY <1>3, <1>4, <1>5, <1>6, SendOrder, ServeOrder DEF Next

(* A device learns the messages of a peer from the first.                  *)
LEMMA StepPrefix ==
  ChatInv /\ StoreOrder /\ KnownPrefix /\ [Next]_vars => KnownPrefix'
<1> SUFFICES ASSUME ChatInv, StoreOrder, KnownPrefix, [Next]_vars PROVE KnownPrefix'
  OBVIOUS
<1>1. BaseInv /\ TypeOK /\ WriteInv
  BY DEF ChatInv, BaseInv
<1>2. ASSUME log' = log,
             \A c \in Device : \A m \in ToSet(log) : m.from # c => (m \in known'[c] <=> m \in known[c])
      PROVE  KnownPrefix'
  BY <1>2 DEF KnownPrefix, ToSet
<1>3. ASSUME NEW d \in Device, Send(d) PROVE KnownPrefix'
  <2>1. PICK m \in Message, es \in Seq(Write) : Sends(d, m, es)
    BY <1>1, <1>3, SendFacts
  <2>2. m.from = d /\ log' = log /\ known' = [known EXCEPT ![d] = @ \cup {m}]
    BY <2>1 DEF Sends, serverVars
  <2> QED  BY <1>1, <1>2, <2>2 DEF TypeOK
<1>4. ASSUME NEW d \in Device, Sync(d) \/ Arrive(d) PROVE KnownPrefix'
  <2>1. PICK p \in User, new \in SUBSET sent : Learns(d, p, new)
    BY <1>1, <1>4, LearnFacts
  <2>2. log' = log /\ known'[d] = known[d] \cup new /\ \A c \in Device \ {d} : known'[c] = known[c]
    BY <1>1, <2>1 DEF Learns, serverVars, TypeOK
  <2>3. \A m \in new : m \in Between(d, p)
    BY <2>1 DEF Learns, Stored
  <2>4. log \in Seq(Message) /\ DOMAIN log \subseteq Nat
    BY <1>1 DEF TypeOK
  <2>5. ASSUME NEW i \in DOMAIN log, NEW j \in DOMAIN log, i < j, log[i].from = log[j].from,
               log[i].from # d, log[i].to = d, log[j] \in new, log[i] \notin known[d]
        PROVE  log[i] \in new
    <3>1. log[i] \in Between(d, p)
      <4>1. log[j] \in Between(d, p)
        BY <2>3, <2>5
      <4>2. log[i].from = p
        BY <2>5, <4>1 DEF Between
      <4>3. log[i] \in Message
        BY <2>4
      <4> QED  BY <2>5, <4>2, <4>3 DEF Between
    <3>2. log[i] \in Stored(d, p) \ known[d]
      BY <2>5, <3>1 DEF Stored, ToSet
    <3>3. CASE new = Stored(d, p) \ known[d]
      BY <3>2, <3>3
    <3>4. ASSUME NEW k \in NextMissing(d, p), new = {log[k]} PROVE FALSE
      <4>1. i \in Missing(d, p)
        BY <2>5, <3>1 DEF Missing
      <4>2. k \in DOMAIN log /\ k <= i /\ k < j
        BY <2>4, <2>5, <3>4, <4>1 DEF NextMissing, Missing
      <4>3. log[k] = log[j]
        BY <2>5, <3>4
      <4>4. log[k].key < log[j].key
        BY <4>2, <4>3 DEF StoreOrder, LogOrder
      <4>5. log[j].key \in Nat
        <5>1. log[j] \in Message
          BY <2>4
        <5> QED  BY <5>1, ChatAssumption DEF Message, Key
      <4> QED  BY <4>3, <4>4, <4>5
    <3> QED  BY <2>1, <3>3, <3>4 DEF Learns
  <2> QED  BY <2>2, <2>5 DEF KnownPrefix
<1>5. ASSUME NEW d \in Device, Accept(d) \/ Reconnect(d) PROVE KnownPrefix'
  <2>1. PICK n \in 0 .. Len(outbox[d]), ms \in Seq(Message) :
          Serves(d, n, ms) /\ (Answers(d, n) \/ Relistens(d))
    BY <1>1, <1>5, ServerFacts
  <2>2. known' = known
    BY <2>1 DEF Answers, Relistens
  <2>3. log \in Seq(Message) /\ log' = log \o ms
    BY <1>1, <2>1 DEF Serves, TypeOK
  <2>4. \A k \in 1 .. Len(ms) : ms[k] \notin ToSet(log)
    BY <2>1 DEF Serves
  <2>5. ASSUME NEW j \in DOMAIN log', log'[j] \in ToSet(log) PROVE j \in 1 .. Len(log)
    <3>1. \/ j \in 1 .. Len(log)
          \/ j - Len(log) \in 1 .. Len(ms) /\ log'[j] = ms[j - Len(log)]
      <4>1. \A i \in 1 .. Len(log \o ms) :
              i \in 1 .. Len(log) \/ (i - Len(log) \in 1 .. Len(ms) /\ (log \o ms)[i] = ms[i - Len(log)])
        BY <2>3, CatFacts
      <4>2. DOMAIN (log \o ms) = 1 .. Len(log \o ms)
        BY <2>3
      <4> QED  BY <2>3, <4>1, <4>2
    <3> QED  BY <2>4, <2>5, <3>1
  <2>6. /\ DOMAIN log = 1 .. Len(log) /\ Len(log) \in Nat
        /\ DOMAIN log' \subseteq Nat \ {0} /\ \A k \in 1 .. Len(log) : log'[k] = log[k]
    BY <2>3
  <2> SUFFICES ASSUME NEW c \in Device, NEW i \in DOMAIN log', NEW j \in DOMAIN log',
                      i < j, log'[i].from = log'[j].from, log'[i].from # c, log'[i].to = c,
                      log'[j] \in known[c]
               PROVE  log'[i] \in known[c]
    BY <2>2 DEF KnownPrefix
  <2>7. log'[j] \in ToSet(log)
    BY <1>1 DEF WriteInv
  <2>8. j \in 1 .. Len(log)
    BY <2>5, <2>7
  <2>9. i \in DOMAIN log /\ j \in DOMAIN log
    BY <2>6, <2>8
  <2>10. log'[i] = log[i] /\ log'[j] = log[j]
    BY <2>6, <2>9
  <2> QED  BY <2>9, <2>10 DEF KnownPrefix
<1>6. ASSUME NEW d \in Device, Reject(d) PROVE KnownPrefix'
  <2>1. /\ \A c \in Device : known'[c] \subseteq known[c]
        /\ \A c \in Device : \A m \in known[c] : m \in known'[c] \/ (c = d /\ Gone(d, m)')
        /\ \A m \in known[d] : m.from # d => m \in known'[d]
    BY <1>1, <1>6, RejectFacts
  <2>2. log' = log
    BY <1>6 DEF Reject, serverVars
  <2> QED  BY <1>2, <2>1, <2>2
<1>7. ASSUME NEW d \in Device, Kill(d) PROVE KnownPrefix'
  <2>1. Ended(d)
    BY <1>1, <1>7, EndedByKill
  <2>2. log' = log /\ \A c \in Device : known'[c] = known[c] \/ known'[c] = {}
    BY <1>7, <2>1 DEF Ended, Kill, serverVars
  <2> QED  BY <2>2 DEF KnownPrefix
<1>8. ASSUME NEW d \in Device, Select(d) \/ Back(d) \/ SwitchTab(d) \/ RunEvent(d) \/ ShowRow(d)
      PROVE  KnownPrefix'
  BY <1>2, <1>8 DEF Select, Back, SwitchTab, RunEvent, ShowRow, serverVars, clientVars
<1>9. CASE UNCHANGED vars
  BY <1>2, <1>9 DEF vars, serverVars, clientVars
<1> QED
  BY <1>3, <1>4, <1>5, <1>6, <1>7, <1>8, <1>9 DEF Next

(* The rows and events of a tab are in the order of the peer's messages.   *)
LEMMA StepLineOrder ==
  ChatInv /\ OrderInv /\ KeyOnce' /\ [Next]_vars => LineOrder'
<1> SUFFICES ASSUME ChatInv, OrderInv, KeyOnce', [Next]_vars PROVE LineOrder'
  OBVIOUS
<1>1. BaseInv /\ TypeOK /\ WriteInv /\ WindowInv
  BY DEF ChatInv, BaseInv
<1>2. ASSUME \A c \in Device, u \in Tabs : \A m, n : Ahead(c, u, m, n)' => Ahead(c, u, m, n)
      PROVE  LineOrder'
  BY <1>2 DEF OrderInv, LineOrder, Message, Key
<1>3. ASSUME NEW d \in Device, NEW T, NEW M \in SUBSET sent', Joins(d, T, M),
             \A t \in T \cap Tabs, m \in Message, n \in M :
               Displayed(d, t, m) /\ m.from # d /\ n.from # d => m.key < n.key
      PROVE  LineOrder'
  <2> SUFFICES ASSUME NEW c \in Device, NEW t \in Tabs, NEW m \in Message, NEW n \in Message,
                      Ahead(c, t, m, n)', m.from # c, n.from # c
               PROVE  m.key < n.key
    BY DEF LineOrder, Message, Key
  <2>1. CASE Ahead(c, t, m, n)
    BY <2>1 DEF OrderInv, LineOrder
  <2>2. CASE c = d /\ t \in T /\ n \in M /\ Displayed(d, t, m)
    BY <1>3, <2>2
  <2>3. CASE m \in M /\ n \in M /\ m # n /\ m.key <= n.key
    <3>1. m.key # n.key
      BY <1>3, <2>3 DEF KeyOnce
    <3>2. m.key \in Nat /\ n.key \in Nat
      BY ChatAssumption DEF Message, Key
    <3> QED  BY <2>3, <3>1, <3>2
  <2> QED  BY <1>3, <2>1, <2>2, <2>3 DEF Joins
<1>4. ASSUME UNCHANGED <<chat, mainQ>> PROVE LineOrder'
  BY <1>2, <1>4 DEF Ahead, OnScreen, Waits, RowAhead, EventAhead
<1>5. ASSUME NEW d \in Device, Select(d) PROVE LineOrder'
  <2>1. PICK p \in User \ {d} : Selects(d, p)
    BY <1>1, <1>5, SelectFacts
  <2>2. CASE UNCHANGED <<chat, observed, mainQ>>
    BY <1>4, <2>2
  <2>3. CASE Opens(d, p)
    <3>1. /\ \A m : ~ Displayed(d, front[d], m)
          /\ Joins(d, {front[d]}, Told(d, p)) /\ Told(d, p) \in SUBSET sent
      BY <1>1, <2>1, <2>3, OpenJoins
    <3>2. Told(d, p) \in SUBSET sent'
      BY <2>1, <3>1 DEF Selects
    <3> QED  BY <1>3, <3>1, <3>2
  <2> QED  BY <2>1, <2>2, <2>3 DEF Selects
<1>6. ASSUME NEW d \in Device, Send(d) PROVE LineOrder'
  <2>1. PICK m \in Message, es \in Seq(Write) : Sends(d, m, es)
    BY <1>1, <1>6, SendFacts
  <2>2. Joins(d, TabsWith(d, m.to), {m})
    BY <1>1, <2>1, SendJoins
  <2>3. m.from = d /\ {m} \in SUBSET sent'
    BY <2>1 DEF Sends
  <2>4. \A n \in {m} : n.from = d
    BY <2>3
  <2> QED  BY <1>3, <2>2, <2>3, <2>4
<1>7. ASSUME NEW d \in Device, Sync(d) \/ Arrive(d) PROVE LineOrder'
  <2>1. PICK p \in User, new \in SUBSET sent : Learns(d, p, new)
    BY <1>1, <1>7, LearnFacts
  <2>2. Joins(d, TabsWith(d, p), new) /\ new \in SUBSET sent'
    BY <1>1, <2>1, LearnJoins DEF Learns
  <2>3. ASSUME NEW t \in TabsWith(d, p), NEW m \in Message, NEW n \in new,
               Displayed(d, t, m), m.from # d, n.from # d
        PROVE  m.key < n.key
    <3>1. t \in Tabs /\ chat[d][t].peer = p
      BY DEF TabsWith
    <3>2. m \in Between(d, p) /\ m \in known[d]
      BY <1>1, <2>3, <3>1 DEF WindowInv, Displays
    <3>3. n \in Between(d, p) /\ n \in ToSet(log) /\ n \notin known[d]
      BY <2>1 DEF Learns, Stored
    <3>4. m \in ToSet(log)
      BY <1>1, <2>3, <3>2 DEF WriteInv
    <3>5. m.from = p /\ n.from = p /\ m.to = d /\ n.to = d
      BY <2>3, <3>2, <3>3 DEF Between
    <3>6. PICK i \in DOMAIN log, j \in DOMAIN log : m = log[i] /\ n = log[j]
      BY <3>3, <3>4 DEF ToSet
    <3>7. i \in Nat /\ j \in Nat
      BY <1>1 DEF TypeOK
    <3>8. ~ (j < i)
      BY <2>3, <3>2, <3>3, <3>5, <3>6 DEF OrderInv, KnownPrefix
    <3>9. i # j
      BY <3>2, <3>3, <3>6
    <3>10. i < j
      BY <3>7, <3>8, <3>9
    <3> QED  BY <3>5, <3>6, <3>10 DEF OrderInv, StoreOrder, LogOrder
  <2> QED  BY <1>3, <2>2, <2>3
<1>8. ASSUME NEW d \in Device, Back(d) PROVE LineOrder'
  <2>1. Leaves(d, {front[d]})
    BY <1>1, <1>8, PoppedByBack, LinePopped
  <2> QED  BY <1>2, <2>1 DEF Leaves
<1>9. ASSUME NEW d \in Device, Kill(d) PROVE LineOrder'
  <2>1. Leaves(d, Tabs)
    BY <1>1, <1>9, EndedByKill, LineEnded
  <2> QED  BY <1>2, <2>1 DEF Leaves
<1>10. ASSUME NEW d \in Device, RunEvent(d) PROVE LineOrder'
  <2>1. Moves
    BY <1>1, <1>10, RowAddedByEvent, LineMoved
  <2> QED  BY <1>2, <2>1 DEF Moves
<1>11. ASSUME NEW d \in Device, \/ SwitchTab(d) \/ ShowRow(d) \/ Accept(d) \/ Reject(d)
                                \/ Reconnect(d)
       PROVE  LineOrder'
  BY <1>4, <1>11 DEF SwitchTab, ShowRow, Accept, Reject, Reconnect, clientVars, screenVars
<1>12. CASE UNCHANGED vars
  BY <1>4, <1>12 DEF vars, clientVars, screenVars
<1> QED
  BY <1>5, <1>6, <1>7, <1>8, <1>9, <1>10, <1>11, <1>12 DEF Next

LEMMA RowsInOrder == ChatInv /\ OrderInv => PeerOrder
<1> SUFFICES ASSUME ChatInv, OrderInv, NEW d \in Device, NEW t \in Tabs,
                    NEW i \in DOMAIN chat[d][t].shown, NEW j \in DOMAIN chat[d][t].shown,
                    i < j, chat[d][t].shown[i].msg.from # d, chat[d][t].shown[j].msg.from # d
             PROVE  chat[d][t].shown[i].msg.key < chat[d][t].shown[j].msg.key
  BY DEF PeerOrder
<1>1. PICK m, n : m = chat[d][t].shown[i].msg /\ n = chat[d][t].shown[j].msg
  OBVIOUS
<1>2. Ahead(d, t, m, n)
  BY <1>1 DEF Ahead, RowAhead
<1>3. m \in Message /\ n \in Message
  BY <1>2, LineType DEF ChatInv, BaseInv
<1> QED  BY <1>1, <1>2, <1>3 DEF OrderInv, LineOrder

(* While no device's clock goes back, the messages of the peer are on the  *)
(* screen in the order in which they were sent: over local writes, resent  *)
(* and rejected ones, first data, single additions and killed processes.   *)
THEOREM ChatPeerOrder ==
  ASSUME SteadyClock = TRUE
  PROVE  Spec => []PeerOrder
<1>1. ChatInv /\ OrderInv /\ [Next]_vars => OrderInv'
  BY StepStoreOrder, StepPrefix, StepLineOrder DEF OrderInv, StoreOrder, ChatInv
<1>2. Init => OrderInv
  BY InitOrder
<1>3. ChatInv /\ OrderInv => PeerOrder
  BY RowsInOrder
<1> QED  BY <1>1, <1>2, <1>3, ChatInvariant, PTL DEF Spec

-----------------------------------------------------------------------------
(* The lists of chats, where only one of the two ways to a chat is used    *)
(* (so that the visitor is whom the open chat is with) and nothing is      *)
(* rejected: an entry is written behind a message of its conversation.     *)

Started(e) == Stored(e[1], e[2]) # {}

StartedAhead(d, i, e) ==
  \E k \in DOMAIN outbox[d] :
    k < i /\ outbox[d][k].what = "message" /\ outbox[d][k].of \in Between(e[1], e[2])

EntryBehind ==
  \A d \in Device : \A i \in DOMAIN outbox[d] : \A e :
    outbox[d][i].what = "entry" /\ outbox[d][i].of = e => Started(e) \/ StartedAhead(d, i, e)

ListInv == ListedIsStarted /\ EntryBehind

LEMMA StartedForGood ==
  ASSUME BaseInv, [Next]_vars, NEW e, Started(e)
  PROVE  Started(e)'
BY MessagesMove DEF Started, Stored

(* The first message of a chat goes ahead of its entries.                  *)
LEMMA SendLists ==
  ASSUME ChatInv, AuthorInv, ListInv, [Next]_vars, NEW d \in Device, Send(d)
  PROVE  ListInv'
<1>1. BaseInv /\ TypeOK
  BY DEF ChatInv, BaseInv
<1>2. PICK m \in Message, es \in Seq(Write) : Sends(d, m, es)
  BY <1>1, SendFacts
<1>3. PICK N : N = Len(outbox[d]) + 1
  OBVIOUS
<1>4. /\ \A c \in Device \ {d} : outbox'[c] = outbox[c]
      /\ \A i \in DOMAIN outbox[d] : i \in DOMAIN outbox'[d] /\ outbox'[d][i] = outbox[d][i]
      /\ \A i \in DOMAIN outbox'[d] :
           \/ i \in DOMAIN outbox[d] /\ outbox'[d][i] = outbox[d][i]
           \/ /\ i = N
              /\ outbox'[d][i] = [what |-> "message", of |-> m]
           \/ /\ i > N /\ IsFirst(d)
              /\ outbox'[d][i].what = "entry"
              /\ outbox'[d][i].of \in {<<d, visitor[d]>>, <<visitor[d], d>>}
      /\ N \in DOMAIN outbox'[d] /\ outbox'[d][N] = [what |-> "message", of |-> m]
  BY <1>1, <1>2, <1>3, SendsPart
<1>5. /\ m.from = d /\ m.to = visitor[d] /\ UNCHANGED <<log, entries>>
  <2>1. PICK f \in Tabs : f = front[d]
    BY <1>1 DEF TypeOK
  <2>2. m.from = d /\ m.to = chat[d][f].peer /\ m.to # None /\ UNCHANGED <<log, entries>>
    BY <1>2, <2>1 DEF Sends, serverVars
  <2> QED  BY <2>2 DEF AuthorInv
<1>6. m \in Between(d, visitor[d]) /\ m \in Between(visitor[d], d)
  BY <1>5 DEF Between
<1>7. ListedIsStarted'
  <2>1. \A e : Started(e) => Started(e)'
    BY <1>1, StartedForGood
  <2> QED  BY <1>5, <2>1 DEF ListInv, ListedIsStarted, Started
<1>8. ASSUME NEW c \in Device, NEW i \in DOMAIN outbox'[c], NEW e,
             outbox'[c][i].what = "entry", outbox'[c][i].of = e
      PROVE  Started(e)' \/ StartedAhead(c, i, e)'
  <2>1. CASE c # d \/ (i \in DOMAIN outbox[d] /\ outbox'[d][i] = outbox[d][i])
    <3>1. i \in DOMAIN outbox[c] /\ outbox[c][i].what = "entry" /\ outbox[c][i].of = e
      BY <1>4, <1>8, <2>1
    <3>2. Started(e) \/ StartedAhead(c, i, e)
      BY <3>1 DEF ListInv, EntryBehind
    <3>3. CASE Started(e)
      BY <1>1, <3>3, StartedForGood
    <3>4. CASE StartedAhead(c, i, e)
      BY ZenonT(30), <1>4, <3>4 DEF StartedAhead, Between
    <3> QED  BY <3>2, <3>3, <3>4
  <2>2. CASE c = d /\ i > N /\ outbox'[d][i].of \in {<<d, visitor[d]>>, <<visitor[d], d>>}
    <3>1. m \in Between(e[1], e[2])
      BY <1>6, <1>8, <2>2
    <3>2. N < i /\ outbox'[d][N].what = "message" /\ outbox'[d][N].of = m
      <4>1. i \in Nat /\ N \in Nat
        BY <1>1, <1>2, <1>3, <1>8, StepType DEF TypeOK
      <4> QED  BY <1>4, <2>2, <4>1
    <3> QED  BY <1>4, <2>2, <3>1, <3>2 DEF StartedAhead, Between
  <2>3. CASE c = d /\ outbox'[d][i] = [what |-> "message", of |-> m]
    BY <1>8, <2>3
  <2> QED  BY <1>4, <1>8, <2>1, <2>2, <2>3
<1> QED  BY <1>7, <1>8 DEF ListInv, EntryBehind

(* What the server stores ahead of an entry starts its conversation.       *)
LEMMA ServeLists ==
  ASSUME BaseInv, ListInv, [Next]_vars, NEW d \in Device, Accept(d) \/ Reconnect(d)
  PROVE  ListInv'
<1>1. TypeOK
  BY DEF BaseInv
<1>2. PICK n \in 0 .. Len(outbox[d]), ms \in Seq(Message) :
        Serves(d, n, ms) /\ (Answers(d, n) \/ Relistens(d))
  BY <1>1, ServerFacts
<1>3. DOMAIN outbox[d] = 1 .. Len(outbox[d]) /\ Len(outbox[d]) \in Nat
  BY <1>1 DEF TypeOK
<1>4. ASSUME NEW k \in 1 .. n, NEW e, outbox[d][k].what = "message",
             outbox[d][k].of \in Between(e[1], e[2])
      PROVE  Started(e)'
  <2>1. outbox[d][k].of \in ToSet(log')
    BY <1>2, <1>4 DEF Serves
  <2> QED  BY <1>4, <2>1 DEF Started, Stored, Between
<1>5. ASSUME NEW e \in entries' PROVE Started(e)'
  <2>1. CASE e \in entries
    BY <1>1, <2>1, StartedForGood DEF ListInv, ListedIsStarted, Started
  <2>2. ASSUME NEW i \in 1 .. n, outbox[d][i].what = "entry", outbox[d][i].of = e
        PROVE  Started(e)'
    <3>1. Started(e) \/ StartedAhead(d, i, e)
      BY <1>3, <2>2 DEF ListInv, EntryBehind
    <3>2. StartedAhead(d, i, e) => Started(e)'
      BY <1>3, <1>4 DEF StartedAhead
    <3> QED  BY <3>1, <3>2, StartedForGood
  <2>3. e \in entries \/ \E i \in 1 .. n : outbox[d][i].what = "entry" /\ outbox[d][i].of = e
    BY <1>2 DEF Serves
  <2> QED  BY <2>1, <2>2, <2>3
<1>6. ASSUME NEW c \in Device, NEW i \in DOMAIN outbox'[c], NEW e,
             outbox'[c][i].what = "entry", outbox'[c][i].of = e
      PROVE  Started(e)' \/ StartedAhead(c, i, e)'
  <2>1. CASE outbox'[c] = outbox[c]
    <3>1. Started(e) \/ StartedAhead(c, i, e)
      BY <1>6, <2>1 DEF ListInv, EntryBehind
    <3>2. StartedAhead(c, i, e) => StartedAhead(c, i, e)'
      BY <2>1 DEF StartedAhead, Between
    <3> QED  BY <3>1, <3>2, StartedForGood
  <2>2. CASE c = d /\ Answers(d, n)
    <3>1. /\ Len(outbox'[d]) = Len(outbox[d]) - 1 /\ n = 1
          /\ \A j \in DOMAIN outbox'[d] :
               j \in Nat /\ j + 1 \in DOMAIN outbox[d] /\ outbox'[d][j] = outbox[d][j + 1]
      BY <1>1, <2>2, TailPart DEF Answers
    <3>2. i + 1 \in DOMAIN outbox[d] /\ outbox[d][i + 1].what = "entry" /\ outbox[d][i + 1].of = e
      BY <1>6, <2>2, <3>1
    <3>3. Started(e) \/ StartedAhead(d, i + 1, e)
      BY <3>2 DEF ListInv, EntryBehind
    <3>4. ASSUME NEW k \in DOMAIN outbox[d], k < i + 1, outbox[d][k].what = "message",
                 outbox[d][k].of \in Between(e[1], e[2])
          PROVE  Started(e)' \/ StartedAhead(d, i, e)'
      <4>1. CASE k = 1
        BY <1>4, <3>1, <3>4, <4>1
      <4>2. CASE k # 1
        <5>1. DOMAIN outbox'[d] = 1 .. Len(outbox'[d])
          BY <1>1, StepType DEF BaseInv, TypeOK
        <5>2. k - 1 \in DOMAIN outbox'[d] /\ k - 1 < i /\ (k - 1) + 1 = k
          BY <1>3, <1>6, <2>2, <3>1, <3>4, <4>2, <5>1
        <5>3. outbox'[d][k - 1] = outbox[d][k]
          BY <3>1, <5>2
        <5> QED  BY <3>4, <5>2, <5>3 DEF StartedAhead, Between
      <4> QED  BY <4>1, <4>2
    <3>5. StartedAhead(d, i + 1, e) => Started(e)' \/ StartedAhead(d, i, e)'
      BY <3>4 DEF StartedAhead
    <3> QED  BY <2>2, <3>3, <3>5, StartedForGood
  <2>3. outbox'[c] = outbox[c] \/ (c = d /\ Answers(d, n))
    BY <1>1, <1>2 DEF Answers, Relistens, TypeOK
  <2> QED  BY <2>1, <2>2, <2>3
<1> QED  BY <1>5, <1>6 DEF ListInv, ListedIsStarted, EntryBehind, Started

LEMMA StepLists ==
  ASSUME Rejects = FALSE
  PROVE  ChatInv /\ AuthorInv /\ ListInv /\ [Next]_vars => ListInv'
<1> SUFFICES ASSUME ChatInv, AuthorInv, ListInv, [Next]_vars PROVE ListInv'
  OBVIOUS
<1>1. BaseInv /\ TypeOK
  BY DEF ChatInv, BaseInv
<1>2. ASSUME UNCHANGED <<log, entries>>,
             \A c \in Device : outbox'[c] = outbox[c] \/ DOMAIN outbox'[c] = {}
      PROVE  ListInv'
  <2>1. \A e : Started(e)' <=> Started(e)
    BY <1>2 DEF Started, Stored, ToSet, Between
  <2>2. ASSUME NEW c \in Device, outbox'[c] = outbox[c], NEW i \in DOMAIN outbox[c], NEW e
        PROVE  StartedAhead(c, i, e)' <=> StartedAhead(c, i, e)
    BY <2>2 DEF StartedAhead, Between
  <2>3. ListedIsStarted'
    BY <1>2, <2>1 DEF ListInv, ListedIsStarted, Started
  <2>4. EntryBehind'
    BY <1>2, <2>1, <2>2 DEF ListInv, EntryBehind
  <2> QED  BY <2>3, <2>4 DEF ListInv
<1>3. ASSUME NEW d \in Device, Kill(d) PROVE ListInv'
  <2>1. Ended(d)
    BY <1>1, <1>3, EndedByKill
  <2> QED  BY <1>2, <2>1 DEF Ended, serverVars
<1>4. ASSUME NEW d \in Device, \/ Select(d) \/ Back(d) \/ SwitchTab(d) \/ RunEvent(d)
                               \/ ShowRow(d) \/ Sync(d) \/ Arrive(d) \/ Reject(d)
      PROVE  ListInv'
  BY <1>2, <1>4
  DEF Select, Back, SwitchTab, RunEvent, ShowRow, Sync, Arrive, Reject, serverVars, clientVars
<1>5. CASE UNCHANGED vars
  BY <1>2, <1>5 DEF vars, serverVars, clientVars
<1> QED
  BY <1>1, <1>3, <1>4, <1>5, SendLists, ServeLists DEF Next

(* Where only one of the two ways to a chat is used and nothing is         *)
(* rejected, a conversation in somebody's list of chats has a message,     *)
(* whichever of the three writes of the first message are lost.            *)
THEOREM ChatListedIsStarted ==
  ASSUME NEW tab, Tabs = {tab}, Rejects = FALSE
  PROVE  Spec => []ListedIsStarted
<1>1. Init => AuthorInv /\ ListInv
  <2>1. DOMAIN <<>> = {}
    OBVIOUS
  <2> QED  BY <2>1 DEF Init, AuthorInv, AuthorShown, Closed, ListInv, ListedIsStarted, EntryBehind
<1>2. ChatInv /\ AuthorInv /\ [Next]_vars => AuthorInv'
  BY StepAuthor
<1>3. ChatInv /\ AuthorInv /\ ListInv /\ [Next]_vars => ListInv'
  BY StepLists
<1>4. ListInv => ListedIsStarted
  BY DEF ListInv
<1> QED  BY <1>1, <1>2, <1>3, <1>4, ChatInvariant, PTL DEF Spec

(* And where no process ends either, the two entries of a message's        *)
(* conversation are stored or under way as soon as the message is sent.    *)
Listing(e) ==
  \/ e \in entries
  \/ \E d \in Device : \E i \in DOMAIN outbox[d] :
       outbox[d][i].what = "entry" /\ outbox[d][i].of = e

SentListed == \A m \in sent : Listing(<<m.from, m.to>>) /\ Listing(<<m.to, m.from>>)

(* The rows of a chat are messages that were sent in its conversation.     *)
LEMMA RowWasSent ==
  ASSUME ChatInv, NEW d \in Device, NEW t \in Tabs, t = front[d], ~ IsFirst(d)
  PROVE  \E m \in sent : {m.from, m.to} = {d, chat[d][t].peer}
<1>1. chat[d][t].shown \in Seq(Row)
  BY DEF ChatInv, BaseInv, TypeOK, Screen
<1>2. 1 \in DOMAIN chat[d][t].shown /\ chat[d][t].shown[1] \in Row
  BY <1>1 DEF IsFirst
<1>3. PICK m : m = chat[d][t].shown[1].msg
  OBVIOUS
<1>4. m \in Message /\ Displayed(d, t, m)
  BY <1>2, <1>3 DEF Row, Displayed, OnScreen
<1>5. m \in sent /\ m \in Between(d, chat[d][t].peer)
  BY <1>4 DEF ChatInv, WindowInv, Displays
<1> QED  BY <1>5 DEF Between

LEMMA StepListed ==
  ASSUME Rejects = FALSE, MaxKills = 0
  PROVE  ChatInv /\ AuthorInv /\ SentListed /\ [Next]_vars => SentListed'
<1> SUFFICES ASSUME ChatInv, AuthorInv, SentListed, [Next]_vars PROVE SentListed'
  OBVIOUS
<1>1. BaseInv /\ TypeOK
  BY DEF ChatInv, BaseInv
<1>2. ASSUME sent' = sent, \A e : Listing(e) => Listing(e)' PROVE SentListed'
  BY <1>2 DEF SentListed
<1>3. ASSUME UNCHANGED <<sent, entries, outbox>> PROVE SentListed'
  BY <1>3 DEF SentListed, Listing
<1>4. ASSUME NEW d \in Device, Send(d) PROVE SentListed'
  <2>1. PICK m \in Message, es \in Seq(Write) : Sends(d, m, es)
    BY <1>1, <1>4, SendFacts
  <2>2. /\ \A c \in Device \ {d} : outbox'[c] = outbox[c]
        /\ \A i \in DOMAIN outbox[d] : i \in DOMAIN outbox'[d] /\ outbox'[d][i] = outbox[d][i]
        /\ IsFirst(d) => \A e \in {<<d, visitor[d]>>, <<visitor[d], d>>} :
             \E i \in DOMAIN outbox'[d] :
               outbox'[d][i].what = "entry" /\ outbox'[d][i].of = e
    BY <1>1, <2>1, SendsPart
  <2>3. PICK f \in Tabs : f = front[d]
    BY <1>1 DEF TypeOK
  <2>4. /\ m.from = d /\ m.to = chat[d][f].peer /\ m.to # None /\ m.to # d
        /\ sent' = sent \cup {m} /\ entries' = entries
    BY <2>1, <2>3 DEF Sends, serverVars
  <2>5. \A e : Listing(e) => Listing(e)'
    BY <2>2, <2>4 DEF Listing
  <2>6. Listing(<<d, m.to>>)' /\ Listing(<<m.to, d>>)'
    <3>1. CASE IsFirst(d)
      <4>1. visitor[d] = m.to
        BY <2>4 DEF AuthorInv
      <4> QED  BY <2>2, <3>1, <4>1 DEF Listing
    <3>2. CASE ~ IsFirst(d)
      <4>1. PICK n \in sent : {n.from, n.to} = {d, m.to}
        BY <2>3, <2>4, <3>2, RowWasSent
      <4>2. Listing(<<n.from, n.to>>) /\ Listing(<<n.to, n.from>>)
        BY DEF SentListed
      <4>3. (n.from = d /\ n.to = m.to) \/ (n.from = m.to /\ n.to = d)
        BY <2>4, <4>1
      <4> QED  BY <2>5, <4>2, <4>3
    <3> QED  BY <3>1, <3>2
  <2> QED  BY <2>4, <2>5, <2>6 DEF SentListed
<1>5. ASSUME NEW d \in Device, Accept(d) \/ Reconnect(d) PROVE SentListed'
  <2>1. PICK n \in 0 .. Len(outbox[d]), ms \in Seq(Message) :
          Serves(d, n, ms) /\ (Answers(d, n) \/ Relistens(d))
    BY <1>1, <1>5, ServerFacts
  <2>2. /\ sent' = sent /\ entries \subseteq entries'
        /\ \A k \in 1 .. n : outbox[d][k].what = "entry" => outbox[d][k].of \in entries'
    BY <2>1 DEF Serves, Answers, Relistens
  <2>3. ASSUME NEW c \in Device, NEW i \in DOMAIN outbox[c], NEW e,
               outbox[c][i].what = "entry", outbox[c][i].of = e
        PROVE  Listing(e)'
    <3>1. CASE outbox'[c] = outbox[c]
      BY <2>3, <3>1 DEF Listing
    <3>2. CASE c = d /\ Answers(d, n) /\ i = 1
      BY <2>2, <2>3, <3>2 DEF Answers, Listing
    <3>3. CASE c = d /\ Answers(d, n) /\ i # 1
      <4>1. /\ Len(outbox'[d]) = Len(outbox[d]) - 1
            /\ \A j \in DOMAIN outbox'[d] : outbox'[d][j] = outbox[d][j + 1]
        BY <1>1, <3>3, TailPart DEF Answers
      <4>2. /\ DOMAIN outbox'[d] = 1 .. Len(outbox'[d]) /\ DOMAIN outbox[d] = 1 .. Len(outbox[d])
            /\ Len(outbox[d]) \in Nat
        BY <1>1, StepType DEF TypeOK
      <4>3. i - 1 \in DOMAIN outbox'[d] /\ (i - 1) + 1 = i
        BY <2>3, <3>3, <4>1, <4>2
      <4>4. outbox'[d][i - 1] = outbox[d][i]
        BY <4>1, <4>3
      <4> QED  BY <2>3, <3>3, <4>3, <4>4 DEF Listing
    <3>4. outbox'[c] = outbox[c] \/ (c = d /\ Answers(d, n))
      BY <1>1, <2>1 DEF Answers, Relistens, TypeOK
    <3> QED  BY <3>1, <3>2, <3>3, <3>4
  <2>4. \A e : Listing(e) => Listing(e)'
    BY <2>2, <2>3 DEF Listing
  <2> QED  BY <1>2, <2>2, <2>4
<1>6. ASSUME NEW d \in Device, Kill(d) \/ Reject(d) PROVE FALSE
  <2>1. kills \in Nat
    BY <1>1 DEF TypeOK
  <2> QED  BY <1>6, <2>1 DEF Kill, Reject
<1>7. ASSUME NEW d \in Device, \/ Select(d) \/ Back(d) \/ SwitchTab(d) \/ RunEvent(d)
                               \/ ShowRow(d) \/ Sync(d) \/ Arrive(d)
      PROVE  SentListed'
  BY <1>3, <1>7
  DEF Select, Back, SwitchTab, RunEvent, ShowRow, Sync, Arrive, serverVars, clientVars
<1>8. CASE UNCHANGED vars
  BY <1>3, <1>8 DEF vars, serverVars, clientVars
<1> QED
  BY <1>4, <1>5, <1>6, <1>7, <1>8 DEF Next

(* Where besides no process ends, a conversation that has a message is in  *)
(* the lists of both once every write has been stored, although only a     *)
(* chat that shows nothing writes them.                                    *)
THEOREM ChatStartedIsListed ==
  ASSUME NEW tab, Tabs = {tab}, Rejects = FALSE, MaxKills = 0
  PROVE  Spec => []StartedIsListed
<1>1. Init => AuthorInv /\ SentListed
  <2>1. DOMAIN <<>> = {}
    OBVIOUS
  <2> QED  BY <2>1 DEF Init, AuthorInv, AuthorShown, Closed, SentListed
<1>2. ChatInv /\ AuthorInv /\ [Next]_vars => AuthorInv'
  BY StepAuthor
<1>3. ChatInv /\ AuthorInv /\ SentListed /\ [Next]_vars => SentListed'
  BY StepListed
<1>4. ChatInv /\ SentListed => StartedIsListed
  <2>1. ASSUME SentListed, \A d \in Device : outbox[d] = <<>>, NEW m \in sent
        PROVE  <<m.from, m.to>> \in entries /\ <<m.to, m.from>> \in entries
    BY <2>1 DEF SentListed, Listing
  <2> QED  BY <2>1 DEF ChatInv, BaseInv, SentInv, StartedIsListed
<1> QED  BY <1>1, <1>2, <1>3, <1>4, ChatInvariant, PTL DEF Spec
=============================================================================
