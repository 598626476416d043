----------------------------- MODULE ChatProofs -----------------------------
(***************************************************************************)
(* What the chats keep for all students, devices, tabs and bounds.         *)
(***************************************************************************)
EXTENDS ChatProperties, FiniteSetTheorems, TLAPS

-----------------------------------------------------------------------------
(* Sequences: what is raised, what is kept of a queue.                     *)

(* Every event of a finite set is raised once, by the keys of messages.    *)
LEMMA RaisedFacts ==
  ASSUME NEW es, IsFiniteSet(es), NEW q \in Raised(es)
  PROVE  /\ q \in Seq(es) /\ DOMAIN q = 1 .. Len(q)
         /\ \A i \in 1 .. Len(q) : q[i] \in es
         /\ \A i, j \in 1 .. Len(q) : q[i] = q[j] => i = j
         /\ \A e \in es : \E i \in 1 .. Len(q) : q[i] = e
         /\ \A i, j \in 1 .. Len(q) : i < j => q[i].msg.key <= q[j].msg.key
<1>1. Cardinality(es) \in Nat
  BY FS_CardinalityType
<1>2. q \in [1 .. Cardinality(es) -> es] /\ IsInjective(q)
  BY DEF Raised, Bijection, Injection
<1>3. \A e \in es : \E i \in 1 .. Cardinality(es) : q[i] = e
  BY DEF Raised, Bijection, Surjection
<1>4. q \in Seq(es) /\ Len(q) = Cardinality(es) /\ DOMAIN q = 1 .. Len(q)
  BY <1>1, <1>2
<1>5. \A i, j \in 1 .. Len(q) : q[i] = q[j] => i = j
  BY <1>2, <1>4 DEF IsInjective
<1>6. \A i, j \in 1 .. Len(q) : i < j => q[i].msg.key <= q[j].msg.key
  BY <1>4 DEF Raised
<1> QED  BY <1>2, <1>3, <1>4, <1>5, <1>6

(* The elements of r are those of q at the positions in K, in their order. *)
PartOf(r, q, K) ==
  \E f \in [1 .. Len(r) -> K] :
    /\ \A i \in 1 .. Len(r) : f[i] \in 1 .. Len(q) /\ r[i] = q[f[i]]
    /\ \A i, j \in 1 .. Len(r) : i < j => f[i] < f[j]
    /\ \A k \in K : \E i \in 1 .. Len(r) : f[i] = k

(* The kept part of a queue is such a part.                                *)
LEMMA KeptFacts ==
  ASSUME NEW S, NEW q \in Seq(S), NEW K \in SUBSET DOMAIN q, NEW r \in Kept(q, K)
  PROVE  r \in Seq(S) /\ PartOf(r, q, K)
<1>1. IsFiniteSet(K)
  BY FS_Interval, FS_Subset
<1>2. Cardinality(K) \in Nat
  BY <1>1, FS_CardinalityType
<1> PICK f \in Bijection(1 .. Cardinality(K), K) :
           /\ \A i, j \in DOMAIN f : i < j => f[i] < f[j]
           /\ r = [i \in DOMAIN f |-> q[f[i]]]
  BY DEF Kept
<1>3. /\ f \in [1 .. Cardinality(K) -> K]
      /\ \A k \in K : \E i \in 1 .. Cardinality(K) : f[i] = k
  BY DEF Bijection, Injection, Surjection
<1>4. \A i \in 1 .. Cardinality(K) : f[i] \in 1 .. Len(q) /\ q[f[i]] \in S
  BY <1>3
<1>5. r \in [1 .. Cardinality(K) -> S]
  BY <1>3, <1>4
<1>6. r \in Seq(S) /\ Len(r) = Cardinality(K)
  BY <1>2, <1>5
<1> QED  BY <1>3, <1>4, <1>6 DEF PartOf

(* Sequences one after the other.                                          *)
LEMMA CatFacts ==
  ASSUME NEW S, NEW q \in Seq(S), NEW r \in Seq(S)
  PROVE  /\ q \o r \in Seq(S) /\ Len(q \o r) = Len(q) + Len(r)
         /\ \A i \in 1 .. Len(q) : (q \o r)[i] = q[i]
         /\ \A i \in 1 .. Len(r) : (q \o r)[Len(q) + i] = r[i]
         /\ \A i \in 1 .. Len(q \o r) :
              i \in 1 .. Len(q) \/ (i - Len(q) \in 1 .. Len(r) /\ (q \o r)[i] = r[i - Len(q)])
OBVIOUS

(* There are finitely many observers on a device.                          *)
LEMMA TabsFinite == \A T \in SUBSET Tabs : IsFiniteSet(T)
<1>1. IsFiniteSet({"menu", "messages"})
  <2>1. IsFiniteSet({"menu"})
    BY FS_Singleton
  <2>2. IsFiniteSet({"menu"} \cup {"messages"})
    BY <2>1, FS_AddElement
  <2> QED  BY <2>2
<1> QED  BY <1>1, FS_Subset, ChatAssumption

(* So what is raised for a finite set of messages is finite.               *)
LEMMA EventsFinite ==
  ASSUME NEW T \in SUBSET Tabs, NEW M, IsFiniteSet(M)
  PROVE  IsFiniteSet([tab : T, msg : M])
<1> DEFINE f == [x \in T \X M |-> [tab |-> x[1], msg |-> x[2]]]
<1>1. IsFiniteSet(T \X M)
  BY TabsFinite, FS_Product
<1>2. ASSUME NEW e \in [tab : T, msg : M] PROVE \E x \in T \X M : f[x] = e
  <2>1. <<e.tab, e.msg>> \in T \X M
    OBVIOUS
  <2>2. f[<<e.tab, e.msg>>] = e
    BY <2>1
  <2> QED  BY <2>1, <2>2
<1>3. f \in [T \X M -> [tab : T, msg : M]]
  OBVIOUS
<1>4. f \in Surjection(T \X M, [tab : T, msg : M])
  BY <1>2, <1>3 DEF Surjection
<1> QED  BY <1>1, <1>4, FS_Surjection
-----------------------------------------------------------------------------
(* The first invariant: types; everything that is anywhere was sent, the   *)
(* writes of a device by its user; and nobody talks to herself.            *)
SentInv ==
  /\ IsFiniteSet(sent) /\ ToSet(log) \subseteq sent
  /\ \A m \in sent : m.from # m.to
  /\ \A d \in Device :
       /\ known[d] \subseteq sent
       /\ \A i \in DOMAIN outbox[d] : outbox[d][i].what = "message" =>
            outbox[d][i].of \in sent /\ outbox[d][i].of.from = d

NotSelf ==
  /\ \A e \in entries : e[1] # e[2]
  /\ \A d \in Device :
       /\ visitor[d] # d /\ d \notin listed[d]
       /\ \A i \in DOMAIN outbox[d] :
            outbox[d][i].what = "entry" => outbox[d][i].of[1] # outbox[d][i].of[2]
       /\ \A t \in Tabs : /\ chat[d][t].peer # d
                          /\ chat[d][t].peer # None => visitor[d] # None

BaseInv == TypeOK /\ SentInv /\ NotSelf

(* Events of messages wait behind those that are there, for one device.    *)
LEMMA RaiseFacts ==
  ASSUME TypeOK, NEW d \in Device, NEW T \in SUBSET Tabs, NEW M \in SUBSET Message,
         IsFiniteSet(M), Raise(d, [tab : T, msg : M])
  PROVE  /\ mainQ' \in [Device -> Seq(Event)]
         /\ \A c \in Device \ {d} : mainQ'[c] = mainQ[c]
         /\ \E q \in Raised([tab : T, msg : M]) :
              q \in Seq(Event) /\ mainQ'[d] = mainQ[d] \o q
<1> DEFINE es == [tab : T, msg : M]
<1>1. IsFiniteSet(es)
  BY EventsFinite
<1> PICK q \in Raised(es) : mainQ' = [mainQ EXCEPT ![d] = @ \o q]
  BY DEF Raise
<1>2. es \subseteq Event
  BY DEF Event
<1> HIDE DEF es
<1>3. q \in Seq(Event)
  BY <1>1, <1>2, RaisedFacts
<1>4. mainQ[d] \o q \in Seq(Event)
  BY <1>3 DEF TypeOK
<1>5. /\ mainQ' \in [Device -> Seq(Event)]
      /\ \A c \in Device \ {d} : mainQ'[c] = mainQ[c]
      /\ mainQ'[d] = mainQ[d] \o q
  BY <1>4 DEF TypeOK
<1> QED  BY <1>3, <1>5 DEF es

(* A write is a message, or an entry of two users.                         *)
LEMMA WriteKinds ==
  ASSUME NEW w \in Write
  PROVE  /\ \/ w.what = "message" /\ w.of \in Message
            \/ w.what = "entry" /\ w.of \in User \X User
         /\ w.what = "message" => (Stores(w) <=> w.of \in ToSet(log))
<1>1. "message" # "entry"
  OBVIOUS
<1>2. CASE w \in [what : {"message"}, of : Message]
  <2>1. w.what = "message" /\ w.of \in Message
    BY <1>2
  <2>2. Stores(w) <=> w.of \in ToSet(log)
    BY <1>1, <2>1 DEF Stores
  <2> QED  BY <1>1, <2>1, <2>2
<1>3. CASE w \in [what : {"entry"}, of : User \X User]
  <2>1. w.what = "entry" /\ w.of \in User \X User
    BY <1>3
  <2> QED  BY <1>1, <2>1 DEF Stores
<1> QED  BY <1>2, <1>3 DEF Write

(* The server appends the messages it does not have, in their order.       *)
LEMMA StoreFacts ==
  ASSUME NEW ws \in Seq(Write), log \in Seq(Message), Store(ws)
  PROVE  \E ms \in Seq(Message) :
           /\ log' = log \o ms
           /\ \E f \in [1 .. Len(ms) -> 1 .. Len(ws)] :
                /\ \A i \in 1 .. Len(ms) : /\ ws[f[i]].what = "message" /\ ws[f[i]].of = ms[i]
                                           /\ ms[i] \notin ToSet(log)
                /\ \A i, j \in 1 .. Len(ms) : i < j => f[i] < f[j]
           /\ \A k \in 1 .. Len(ws) : ws[k].what = "message" =>
                ws[k].of \in ToSet(log) \/ \E i \in 1 .. Len(ms) : ms[i] = ws[k].of
<1>1. PICK K : K = {i \in DOMAIN ws : ws[i].what = "message" /\ ~ Stores(ws[i])}
  OBVIOUS
<1> PICK new \in Kept(ws, K) : log' = log \o [i \in DOMAIN new |-> new[i].of]
  BY <1>1 DEF Store
<1>2. K \in SUBSET DOMAIN ws
  BY <1>1
<1>3. new \in Seq(Write) /\ PartOf(new, ws, K)
  BY <1>2, KeptFacts
<1>4. PICK f \in [1 .. Len(new) -> K] :
        /\ \A i \in 1 .. Len(new) : f[i] \in 1 .. Len(ws) /\ new[i] = ws[f[i]]
        /\ \A i, j \in 1 .. Len(new) : i < j => f[i] < f[j]
        /\ \A k \in K : \E i \in 1 .. Len(new) : f[i] = k
  BY <1>3 DEF PartOf
<1> DEFINE ms == [i \in DOMAIN new |-> new[i].of]
<1>5. DOMAIN new = 1 .. Len(new) /\ Len(new) \in Nat
  BY <1>3
<1>6. ASSUME NEW i \in 1 .. Len(new)
      PROVE  /\ ws[f[i]].what = "message" /\ ws[f[i]].of = ms[i]
             /\ ms[i] \notin ToSet(log) /\ ms[i] \in Message
  <2>1. f[i] \in K /\ new[i] = ws[f[i]] /\ ws[f[i]] \in Write
    BY <1>4
  <2>2. ws[f[i]].what = "message" /\ ~ Stores(ws[f[i]])
    BY <1>1, <2>1
  <2> QED  BY <1>5, <2>1, <2>2, WriteKinds
<1>7. ms \in Seq(Message) /\ Len(ms) = Len(new) /\ log' = log \o ms
  BY <1>5, <1>6
<1> HIDE DEF ms
<1>8. ASSUME NEW k \in 1 .. Len(ws), ws[k].what = "message", ws[k].of \notin ToSet(log)
      PROVE  \E i \in 1 .. Len(ms) : ms[i] = ws[k].of
  <2>1. k \in K
    BY <1>1, <1>8 DEF Stores
  <2>2. PICK i \in 1 .. Len(new) : f[i] = k
    BY <1>4, <2>1
  <2> QED  BY <1>6, <1>7, <2>2
<1>9. f \in [1 .. Len(ms) -> 1 .. Len(ws)]
  BY <1>2, <1>4, <1>7
<1>10. \A i, j \in 1 .. Len(ms) : i < j => f[i] < f[j]
  BY <1>4, <1>7
<1>11. \A i \in 1 .. Len(ms) : /\ ws[f[i]].what = "message" /\ ws[f[i]].of = ms[i]
                               /\ ms[i] \notin ToSet(log)
  BY <1>6, <1>7
<1> QED  BY <1>7, <1>8, <1>9, <1>10, <1>11
-----------------------------------------------------------------------------
(* The actions, taken apart.                                               *)

(* What was sent is finite, and so is every part of it.                    *)
LEMMA PartsFinite == ASSUME SentInv, NEW M \in SUBSET sent PROVE IsFiniteSet(M)
BY FS_Subset DEF SentInv

(* One screen is changed.                                                  *)
LEMMA ScreenSet ==
  ASSUME TypeOK, NEW d \in Device, NEW t \in Tabs, NEW s \in Screen,
         chat' = [chat EXCEPT ![d][t] = s]
  PROVE  /\ chat' \in [Device -> [Tabs -> Screen]] /\ chat'[d][t] = s
         /\ \A c \in Device, u \in Tabs : c # d \/ u # t => chat'[c][u] = chat[c][u]
BY DEF TypeOK

(* A row is tapped: somebody else becomes the visitor, and the chat with   *)
(* her may be opened in front.                                             *)
Opens(d, p) ==
  /\ chat' = [chat EXCEPT ![d][front[d]] = Opened(p)]
  /\ observed' = [observed EXCEPT ![d] = @ \cup {p}]
  /\ Told(d, p) \in SUBSET sent
  /\ Raise(d, [tab : {front[d]}, msg : Told(d, p)])

Selects(d, p) ==
  /\ chat[d][front[d]].peer = None /\ visitor' = [visitor EXCEPT ![d] = p]
  /\ UNCHANGED <<chat, observed, mainQ>> \/ Opens(d, p)
  /\ UNCHANGED <<serverVars, outbox, known, synced, listed, front, sent, boundVars>>

LEMMA SelectFacts ==
  ASSUME BaseInv, NEW d \in Device, Select(d)
  PROVE  \E p \in User \ {d} : Selects(d, p)
<1> PICK p \in Selectable(d) :
      /\ SetVisitor(d, p)
      /\ \/ UNCHANGED <<chat, observed, mainQ>>
         \/ LET p1 == visitor'[d] IN
             /\ chat' = [chat EXCEPT ![d][front[d]] = Opened(p1)]
             /\ observed' = [observed EXCEPT ![d] = @ \cup {p1}]
             /\ Raise(d, [tab : {front[d]}, msg : Told(d, p1)])
  BY DEF Select
<1>1. p \in User \ {d}
  BY DEF BaseInv, NotSelf, TypeOK, Selectable
<1>2. visitor' = [visitor EXCEPT ![d] = p] /\ visitor'[d] = p
  BY DEF SetVisitor, BaseInv, TypeOK
<1>3. Told(d, p) \in SUBSET sent
  BY DEF Told, BaseInv, SentInv
<1> QED  BY <1>1, <1>2, <1>3 DEF Select, Selects, Opens

(* A message is sent to the peer of the chat in front; the entries of the  *)
(* lists go with the first one.                                            *)
Sends(d, m, es) ==
  /\ m.from = d /\ m.to = chat[d][front[d]].peer /\ m.to # None /\ m.to # d
  /\ NewKey(d, m.key) /\ sent' = sent \cup {m}
  /\ known' = [known EXCEPT ![d] = @ \cup {m}]
  /\ Raise(d, Events(d, m.to, {m}))
  /\ outbox' = [outbox EXCEPT ![d] = @ \o (<<[what |-> "message", of |-> m]>> \o es)]
  /\ visitor[d] \in User \ {d}
  /\ es = IF IsFirst(d) THEN <<[what |-> "entry", of |-> <<d, visitor[d]>>],
                               [what |-> "entry", of |-> <<visitor[d], d>>]>>
                        ELSE <<>>
  /\ UNCHANGED <<serverVars, observed, synced, listed, screenVars, boundVars>>

LEMMA SendFacts ==
  ASSUME BaseInv, NEW d \in Device, Send(d)
  PROVE  \E m \in Message, es \in Seq(Write) : Sends(d, m, es)
<1> DEFINE p == chat[d][front[d]].peer
<1>1. p # None /\ p # d /\ p \in User /\ d \in User /\ visitor[d] \in User \ {d}
  <2>1. p # None /\ d \in User /\ front[d] \in Tabs
    BY ChatAssumption DEF Send, BaseInv, TypeOK
  <2>2. p \in User \cup {None} /\ visitor[d] \in User \cup {None}
    BY <2>1 DEF BaseInv, TypeOK, Screen
  <2>3. p # d /\ visitor[d] # d /\ visitor[d] # None
    BY <2>1 DEF BaseInv, NotSelf
  <2> QED  BY <2>1, <2>2, <2>3
<1> PICK k \in Key :
       /\ NewKey(d, k)
       /\ LET m == [key |-> k, from |-> d, to |-> p] IN
          /\ sent' = sent \cup {m}
          /\ known' = [known EXCEPT ![d] = @ \cup {m}]
          /\ Raise(d, Events(d, p, {m}))
          /\ outbox' = [outbox EXCEPT ![d] = @ \o Writes(d, m)]
  BY DEF Send
<1> DEFINE m == [key |-> k, from |-> d, to |-> p]
           es == IF IsFirst(d) THEN <<[what |-> "entry", of |-> <<d, visitor[d]>>],
                                      [what |-> "entry", of |-> <<visitor[d], d>>]>>
                               ELSE <<>>
<1>2. m \in Message /\ m.from = d /\ m.to = p /\ m.key = k
  BY <1>1 DEF Message
<1>3. es \in Seq(Write)
  <2>1. /\ [what |-> "entry", of |-> <<d, visitor[d]>>] \in Write
        /\ [what |-> "entry", of |-> <<visitor[d], d>>] \in Write
    BY <1>1 DEF Write
  <2> QED  BY <2>1
<1>5. Writes(d, m) = <<[what |-> "message", of |-> m]>> \o es
  BY DEF Writes
<1>6. UNCHANGED <<serverVars, observed, synced, listed, screenVars, boundVars>>
  BY DEF Send
<1>7. /\ sent' = sent \cup {m} /\ known' = [known EXCEPT ![d] = @ \cup {m}]
      /\ Raise(d, Events(d, p, {m})) /\ outbox' = [outbox EXCEPT ![d] = @ \o Writes(d, m)]
      /\ NewKey(d, m.key)
  BY <1>2
<1>8. es = IF IsFirst(d) THEN <<[what |-> "entry", of |-> <<d, visitor[d]>>],
                                [what |-> "entry", of |-> <<visitor[d], d>>]>>
                         ELSE <<>>
  OBVIOUS
<1>9. m.from = d /\ m.to = chat[d][front[d]].peer /\ m.to # None /\ m.to # d
  BY <1>1, <1>2
<1>10. Raise(d, Events(d, m.to, {m}))
  BY <1>2, <1>7
<1> HIDE DEF m, p, es
<1>11. Sends(d, m, es)
  BY <1>1, <1>2, <1>5, <1>6, <1>7, <1>8, <1>9, <1>10 DEF Sends
<1> QED  BY <1>2, <1>3, <1>11

(* The next event of the main thread becomes a row.                        *)
LEMMA RunEventFacts ==
  ASSUME TypeOK, NEW d \in Device, RunEvent(d)
  PROVE  /\ mainQ[d] # <<>> /\ mainQ[d][1] \in Event
         /\ LET e == mainQ[d][1]
                s == chat[d][e.tab] IN
            \E n \in Screen :
              /\ n.peer = s.peer /\ n.shown = Append(s.shown, [msg |-> e.msg, as |-> Author(d, e.msg)])
              /\ chat' = [chat EXCEPT ![d][e.tab] = n]
         /\ mainQ' = [mainQ EXCEPT ![d] = Tail(@)]
         /\ UNCHANGED <<serverVars, outbox, known, observed, synced, listed, visitor, front,
                        sent, boundVars>>
<1>1. mainQ[d] # <<>> /\ mainQ[d] \in Seq(Event) /\ Head(mainQ[d]) = mainQ[d][1]
  BY DEF RunEvent, TypeOK
<1>2. mainQ[d][1] \in Event
  BY <1>1
<1> DEFINE e == mainQ[d][1]
           r == [msg |-> e.msg, as |-> Author(d, e.msg)]
           n == [chat[d][e.tab] EXCEPT !.shown = Append(@, r)]
<1>3. e.tab \in Tabs /\ e.msg \in Message
  BY <1>2 DEF Event
<1>4. r \in Row
  BY <1>3, ChatAssumption DEF Row, Author, TypeOK
<1>5. chat[d][e.tab] \in Screen
  BY <1>3 DEF TypeOK
<1>6. n \in Screen /\ n.peer = chat[d][e.tab].peer /\ n.shown = Append(chat[d][e.tab].shown, r)
  <2>1. chat[d][e.tab].shown \in Seq(Row) /\ chat[d][e.tab].peer \in User \cup {None}
    BY <1>5 DEF Screen
  <2>2. Append(chat[d][e.tab].shown, r) \in Seq(Row)
    BY <1>4, <2>1
  <2> HIDE DEF r
  <2> QED  BY <1>5, <2>1, <2>2 DEF Screen
<1>7. chat' = [chat EXCEPT ![d][e.tab].shown = Append(@, r)]
  BY <1>1 DEF RunEvent
<1>8. chat' = [chat EXCEPT ![d][e.tab] = n]
  BY <1>3, <1>5, <1>7 DEF TypeOK
<1> QED  BY <1>1, <1>2, <1>6, <1>8 DEF RunEvent

LEMMA ToSetCat ==
  ASSUME NEW S, NEW q \in Seq(S), NEW r \in Seq(S)
  PROVE  ToSet(q \o r) = ToSet(q) \cup ToSet(r)
<1>1. \A x : x \in ToSet(q \o r) <=> \E i \in 1 .. Len(q \o r) : x = (q \o r)[i]
  BY DEF ToSet
<1>2. \A x : x \in ToSet(q) <=> \E i \in 1 .. Len(q) : x = q[i]
  BY DEF ToSet
<1>3. \A x : x \in ToSet(r) <=> \E i \in 1 .. Len(r) : x = r[i]
  BY DEF ToSet
<1>4. ASSUME NEW x, x \in ToSet(q \o r) PROVE x \in ToSet(q) \cup ToSet(r)
  BY <1>1, <1>2, <1>3, <1>4, CatFacts
<1>5. ASSUME NEW x, x \in ToSet(q) PROVE x \in ToSet(q \o r)
  BY <1>1, <1>2, <1>5, CatFacts
<1>6. ASSUME NEW x, x \in ToSet(r) PROVE x \in ToSet(q \o r)
  <2>1. PICK i \in 1 .. Len(r) : x = r[i]
    BY <1>3, <1>6
  <2>2. Len(q) + i \in 1 .. Len(q \o r) /\ (q \o r)[Len(q) + i] = r[i]
    BY CatFacts
  <2> QED  BY <1>1, <2>1, <2>2
<1> QED  BY <1>4, <1>5, <1>6

(* The server has stored the first n writes of a device: its log has grown *)
(* by those of their messages that it did not have, in their order.        *)
Serves(d, n, ms) ==
  /\ n \in 0 .. Len(outbox[d]) /\ log' = log \o ms
  /\ \E f \in [1 .. Len(ms) -> 1 .. n] :
       /\ \A i \in 1 .. Len(ms) :
            /\ outbox[d][f[i]].what = "message" /\ outbox[d][f[i]].of = ms[i]
            /\ ms[i] \notin ToSet(log)
       /\ \A i, j \in 1 .. Len(ms) : i < j => f[i] < f[j]
  /\ \A k \in 1 .. n : outbox[d][k].what = "message" => outbox[d][k].of \in ToSet(log')
  /\ \A e : e \in entries' <=>
              \/ e \in entries
              \/ \E k \in 1 .. n : outbox[d][k].what = "entry" /\ outbox[d][k].of = e

LEMMA PrefixServed ==
  ASSUME TypeOK, NEW d \in Device, NEW n \in 0 .. Len(outbox[d]),
         Store(SubSeq(outbox[d], 1, n))
  PROVE  \E ms \in Seq(Message) : Serves(d, n, ms)
<1> DEFINE ws == SubSeq(outbox[d], 1, n)
<1>1. outbox[d] \in Seq(Write) /\ log \in Seq(Message)
  BY DEF TypeOK
<1>2. ws \in Seq(Write) /\ Len(ws) = n /\ \A k \in 1 .. n : ws[k] = outbox[d][k]
  BY <1>1
<1>3. \A e : e \in entries' <=>
               \/ e \in entries
               \/ \E k \in 1 .. n : ws[k].what = "entry" /\ ws[k].of = e
  <2>1. entries' = entries \cup {w.of : w \in {v \in ToSet(ws) : v.what = "entry"}}
    BY DEF Store
  <2>2. \A w : w \in ToSet(ws) <=> \E k \in 1 .. n : ws[k] = w
    <3>1. DOMAIN ws = 1 .. n
      BY <1>2
    <3> HIDE DEF ws
    <3> QED  BY <3>1 DEF ToSet
  <2> HIDE DEF ws
  <2> QED  BY <2>1, <2>2
<1>4. Store(ws)
  OBVIOUS
<1> HIDE DEF ws
<1>5. PICK ms \in Seq(Message) :
           /\ log' = log \o ms
           /\ \E f \in [1 .. Len(ms) -> 1 .. Len(ws)] :
                /\ \A i \in 1 .. Len(ms) : /\ ws[f[i]].what = "message" /\ ws[f[i]].of = ms[i]
                                           /\ ms[i] \notin ToSet(log)
                /\ \A i, j \in 1 .. Len(ms) : i < j => f[i] < f[j]
           /\ \A k \in 1 .. Len(ws) : ws[k].what = "message" =>
                ws[k].of \in ToSet(log) \/ \E i \in 1 .. Len(ms) : ms[i] = ws[k].of
  BY <1>1, <1>2, <1>4, StoreFacts
<1>6. ToSet(log') = ToSet(log) \cup ToSet(ms)
  BY <1>1, <1>5, ToSetCat
<1>7. \A i \in 1 .. Len(ms) : ms[i] \in ToSet(ms)
  BY DEF ToSet
<1>8. \A k \in 1 .. n : outbox[d][k].what = "message" => outbox[d][k].of \in ToSet(log')
  BY <1>2, <1>5, <1>6, <1>7
<1>9. PICK f \in [1 .. Len(ms) -> 1 .. n] :
        /\ \A i \in 1 .. Len(ms) : /\ ws[f[i]].what = "message" /\ ws[f[i]].of = ms[i]
                                   /\ ms[i] \notin ToSet(log)
        /\ \A i, j \in 1 .. Len(ms) : i < j => f[i] < f[j]
  BY <1>2, <1>5, Zenon
<1>10. \A i \in 1 .. Len(ms) :
            /\ outbox[d][f[i]].what = "message" /\ outbox[d][f[i]].of = ms[i]
            /\ ms[i] \notin ToSet(log)
  BY <1>2, <1>9
<1>11. \A e : e \in entries' <=>
               \/ e \in entries
               \/ \E k \in 1 .. n : outbox[d][k].what = "entry" /\ outbox[d][k].of = e
  BY <1>2, <1>3
<1>12. Serves(d, n, ms)
  BY <1>5, <1>8, <1>9, <1>10, <1>11 DEF Serves
<1> QED  BY <1>12

(* One write is answered, or several whose answers are lost.               *)
Answers(d, n) ==
  /\ n = 1 /\ outbox[d] # <<>> /\ outbox' = [outbox EXCEPT ![d] = Tail(@)]
  /\ UNCHANGED <<known, observed, synced, mainQ, listed, screenVars, sent, boundVars>>

Relistens(d) ==
  /\ UNCHANGED <<outbox, known, observed, mainQ, listed, screenVars, sent, kills>>
  /\ synced' = [synced EXCEPT ![d] = {}] /\ cuts' = cuts + 1

LEMMA ServerFacts ==
  ASSUME TypeOK, NEW d \in Device, Accept(d) \/ Reconnect(d)
  PROVE  \E n \in 0 .. Len(outbox[d]), ms \in Seq(Message) :
           Serves(d, n, ms) /\ (Answers(d, n) \/ Relistens(d))
<1>1. outbox[d] \in Seq(Write)
  BY DEF TypeOK
<1>2. CASE Accept(d)
  <2>1. outbox[d] # <<>> /\ Store(<<Head(outbox[d])>>)
    BY <1>2 DEF Accept
  <2>2. 1 \in 0 .. Len(outbox[d]) /\ SubSeq(outbox[d], 1, 1) = <<Head(outbox[d])>>
    <3> DEFINE q == outbox[d]
    <3>1. q \in Seq(Write) /\ q # <<>>
      BY <1>1, <2>1
    <3> HIDE DEF q
    <3>2. 1 \in 0 .. Len(q) /\ Head(q) = q[1] /\ Len(SubSeq(q, 1, 1)) = 1 /\ SubSeq(q, 1, 1)[1] = q[1]
      BY <3>1
    <3>3. SubSeq(q, 1, 1) \in Seq(Write)
      BY <3>1
    <3>4. ASSUME NEW s \in Seq(Write), Len(s) = 1 PROVE s = <<s[1]>>
      BY <3>4
    <3>5. SubSeq(q, 1, 1) = <<q[1]>>
      BY <3>2, <3>3, <3>4
    <3> QED  BY <3>2, <3>5 DEF q
  <2>3. PICK ms \in Seq(Message) : Serves(d, 1, ms)
    BY <2>1, <2>2, PrefixServed
  <2> QED  BY <1>2, <2>2, <2>3 DEF Accept, Answers
<1>3. CASE Reconnect(d)
  <2> PICK n \in 0 .. Len(outbox[d]) : Store(SubSeq(outbox[d], 1, n))
    BY <1>3 DEF Reconnect
  <2>1. PICK ms \in Seq(Message) : Serves(d, n, ms)
    BY PrefixServed
  <2>2. outbox' = outbox
    <3>1. outbox' = [outbox EXCEPT ![d] = outbox[d]]
      BY <1>3 DEF Reconnect, Resent
    <3> QED  BY <3>1 DEF TypeOK
  <2> QED  BY <1>3, <2>1, <2>2 DEF Reconnect, Relistens
<1> QED  BY <1>2, <1>3

(* What the device does not know of a conversation is told to it: all of   *)
(* it with the first data, or the next message.                            *)
Learns(d, p, new) ==
  /\ IsFiniteSet(new) /\ new \subseteq Stored(d, p) \ known[d]
  /\ known' = [known EXCEPT ![d] = @ \cup new]
  /\ Raise(d, Events(d, p, new))
  /\ \/ new = Stored(d, p) \ known[d] /\ synced' = [synced EXCEPT ![d] = @ \cup {p}]
     \/ UNCHANGED synced /\ \E i \in NextMissing(d, p) : new = {log[i]}
  /\ UNCHANGED <<serverVars, outbox, observed, listed, screenVars, sent, boundVars>>

LEMMA LearnFacts ==
  ASSUME BaseInv, NEW d \in Device, Sync(d) \/ Arrive(d)
  PROVE  \E p \in User, new \in SUBSET sent : Learns(d, p, new)
<1>1. CASE Sync(d)
  <2> PICK p \in observed[d] \ synced[d] :
        LET new == Stored(d, p) \ known[d] IN
        /\ synced' = [synced EXCEPT ![d] = @ \cup {p}]
        /\ known' = [known EXCEPT ![d] = @ \cup new]
        /\ Raise(d, Events(d, p, new))
    BY <1>1 DEF Sync
  <2> DEFINE new == Stored(d, p) \ known[d]
  <2>1. new \in SUBSET sent /\ p \in User
    BY DEF Stored, BaseInv, SentInv, TypeOK
  <2>2. IsFiniteSet(new)
    BY <2>1, PartsFinite DEF BaseInv
  <2> QED  BY <1>1, <2>1, <2>2 DEF Sync, Learns
<1>2. CASE Arrive(d)
  <2> PICK p \in synced[d] : \E i \in NextMissing(d, p) :
        /\ known' = [known EXCEPT ![d] = @ \cup {log[i]}]
        /\ Raise(d, Events(d, p, {log[i]}))
    BY <1>2 DEF Arrive
  <2> PICK i \in NextMissing(d, p) :
        /\ known' = [known EXCEPT ![d] = @ \cup {log[i]}]
        /\ Raise(d, Events(d, p, {log[i]}))
    OBVIOUS
  <2> DEFINE new == {log[i]}
  <2>1. i \in DOMAIN log /\ log[i] \in Between(d, p) \ known[d]
    BY DEF NextMissing, Missing
  <2>2. log[i] \in Stored(d, p) \ known[d]
    BY <2>1 DEF Stored, ToSet
  <2>3. new \in SUBSET sent /\ p \in User
    BY <2>2 DEF Stored, BaseInv, SentInv, TypeOK
  <2>4. IsFiniteSet(new)
    BY <2>3, PartsFinite DEF BaseInv
  <2> QED  BY <1>2, <2>2, <2>3, <2>4 DEF Arrive, Learns
<1> QED  BY <1>1, <1>2

LEMMA TabsWithTabs == \A d, p : TabsWith(d, p) \in SUBSET Tabs
BY DEF TabsWith

-----------------------------------------------------------------------------
LEMMA InitBase == Init => BaseInv
<1> SUFFICES ASSUME Init PROVE BaseInv
  OBVIOUS
<1>1. <<>> \in Seq(Message) /\ <<>> \in Seq(Write) /\ <<>> \in Seq(Event) /\ <<>> \in Seq(Row)
      /\ DOMAIN <<>> = {}
  OBVIOUS
<1>2. Closed \in Screen /\ Closed.peer = None
  BY <1>1 DEF Closed, Screen
<1>3. TypeOK
  BY <1>1, <1>2 DEF Init, TypeOK
<1>4. ToSet(<<>>) = {} /\ IsFiniteSet({})
  BY FS_EmptySet DEF ToSet
<1>5. SentInv
  BY <1>1, <1>4 DEF Init, SentInv
<1>6. NotSelf
  BY <1>1, <1>2, ChatAssumption DEF Init, NotSelf
<1> QED  BY <1>3, <1>5, <1>6 DEF BaseInv

(* Every step leaves every variable in its type.                           *)
LEMMA StepType == BaseInv /\ [Next]_vars => TypeOK'
<1> SUFFICES ASSUME BaseInv, [Next]_vars PROVE TypeOK'
  OBVIOUS
<1>1. TypeOK
  BY DEF BaseInv
<1>2. CASE UNCHANGED vars
  BY <1>1, <1>2 DEF TypeOK, vars, serverVars, clientVars, screenVars, boundVars
<1>3. ASSUME NEW d \in Device, Select(d) PROVE TypeOK'
  <2>1. PICK p \in User \ {d} : Selects(d, p)
    BY <1>3, SelectFacts
  <2>2. visitor' \in [Device -> User \cup {None}] /\ front[d] \in Tabs
    BY <1>1, <2>1 DEF TypeOK, Selects
  <2>3. CASE UNCHANGED <<chat, observed, mainQ>>
    BY <1>1, <2>1, <2>2, <2>3 DEF TypeOK, Selects, serverVars, boundVars
  <2>4. CASE Opens(d, p)
    <3>1. Told(d, p) \in SUBSET Message /\ IsFiniteSet(Told(d, p))
      BY <1>1, <2>4, PartsFinite DEF Opens, BaseInv, TypeOK
    <3>2. mainQ' \in [Device -> Seq(Event)]
      BY <1>1, <2>2, <2>4, <3>1, RaiseFacts DEF Opens
    <3>3. Opened(p) \in Screen
      BY DEF Opened, Screen
    <3>4. chat' \in [Device -> [Tabs -> Screen]]
      BY <1>1, <2>2, <2>4, <3>3, ScreenSet DEF Opens
    <3>5. observed' \in [Device -> SUBSET User]
      BY <1>1, <2>4 DEF Opens, TypeOK
    <3> QED  BY <1>1, <2>1, <2>2, <3>2, <3>4, <3>5 DEF TypeOK, Selects, serverVars, boundVars
  <2> QED  BY <2>1, <2>3, <2>4 DEF Selects
<1>4. ASSUME NEW d \in Device, Back(d) PROVE TypeOK'
  <2>1. front[d] \in Tabs /\ Closed \in Screen
    BY <1>1 DEF TypeOK, Closed, Screen
  <2>2. chat' \in [Device -> [Tabs -> Screen]]
    BY <1>1, <1>4, <2>1, ScreenSet DEF Back
  <2>3. PICK K \in SUBSET DOMAIN mainQ[d] :
          \E q \in Kept(mainQ[d], K) : mainQ' = [mainQ EXCEPT ![d] = q]
    BY <1>4 DEF Back
  <2>4. mainQ' \in [Device -> Seq(Event)]
    <3>1. PICK q \in Kept(mainQ[d], K) : mainQ' = [mainQ EXCEPT ![d] = q]
      BY <2>3
    <3>2. mainQ[d] \in Seq(Event)
      BY <1>1 DEF TypeOK
    <3>3. q \in Seq(Event)
      BY <3>2, KeptFacts
    <3> QED  BY <1>1, <3>1, <3>3 DEF TypeOK
  <2> QED  BY <1>1, <1>4, <2>2, <2>4 DEF Back, TypeOK, serverVars, boundVars
<1>5. ASSUME NEW d \in Device, SwitchTab(d) PROVE TypeOK'
  BY <1>1, <1>5 DEF SwitchTab, TypeOK, serverVars, clientVars, boundVars
<1>6. ASSUME NEW d \in Device, Send(d) PROVE TypeOK'
  <2>1. PICK m \in Message, es \in Seq(Write) : Sends(d, m, es)
    BY <1>6, SendFacts
  <2>2. mainQ' \in [Device -> Seq(Event)]
    <3>1. IsFiniteSet({m}) /\ {m} \in SUBSET Message
      BY FS_Singleton
    <3> QED  BY <1>1, <2>1, <3>1, RaiseFacts, TabsWithTabs DEF Sends, Events
  <2>3. [what |-> "message", of |-> m] \in Write
    BY DEF Write
  <2>4. outbox' \in [Device -> Seq(Write)]
    BY <1>1, <2>1, <2>3 DEF Sends, TypeOK
  <2>5. known' \in [Device -> SUBSET Message] /\ sent' \subseteq Message
    BY <1>1, <2>1 DEF Sends, TypeOK
  <2> QED  BY <1>1, <2>1, <2>2, <2>4, <2>5 DEF Sends, TypeOK, serverVars, screenVars, boundVars
<1>7. ASSUME NEW d \in Device, RunEvent(d) PROVE TypeOK'
  <2>1. mainQ[d][1] \in Event
    BY <1>1, <1>7, RunEventFacts
  <2>2. \E n \in Screen : chat' = [chat EXCEPT ![d][mainQ[d][1].tab] = n]
    BY <1>1, <1>7, RunEventFacts
  <2>3. chat' \in [Device -> [Tabs -> Screen]]
    BY ZenonT(30), <1>1, <2>1, <2>2, ScreenSet DEF Event
  <2>4. mainQ' \in [Device -> Seq(Event)]
    BY <1>1, <1>7 DEF RunEvent, TypeOK
  <2> QED  BY <1>1, <1>7, <2>3, <2>4 DEF RunEvent, TypeOK, serverVars, boundVars
<1>8. ASSUME NEW d \in Device, ShowRow(d) PROVE TypeOK'
  BY <1>1, <1>8 DEF ShowRow, TypeOK, serverVars, screenVars, boundVars
<1>9. ASSUME NEW d \in Device, Sync(d) \/ Arrive(d) PROVE TypeOK'
  <2>1. PICK p \in User, new \in SUBSET sent : Learns(d, p, new)
    BY <1>9, LearnFacts
  <2>2. new \in SUBSET Message
    BY <1>1 DEF TypeOK
  <2>3. mainQ' \in [Device -> Seq(Event)]
    BY <1>1, <2>1, <2>2, RaiseFacts, TabsWithTabs DEF Learns, Events
  <2>4. known' \in [Device -> SUBSET Message] /\ synced' \in [Device -> SUBSET User]
    BY SMTT(30), <1>1, <2>1, <2>2 DEF Learns, TypeOK
  <2> QED  BY <1>1, <2>1, <2>3, <2>4 DEF Learns, TypeOK, serverVars, screenVars, boundVars
<1>10. ASSUME NEW d \in Device, Accept(d) \/ Reconnect(d) PROVE TypeOK'
  <2>1. PICK n \in 0 .. Len(outbox[d]), ms \in Seq(Message) :
          Serves(d, n, ms) /\ (Answers(d, n) \/ Relistens(d))
    BY <1>1, <1>10, ServerFacts
  <2>2. log' \in Seq(Message)
    BY <1>1, <2>1 DEF Serves, TypeOK
  <2>3. entries' \subseteq User \X User
    <3> SUFFICES ASSUME NEW e \in entries' PROVE e \in User \X User
      OBVIOUS
    <3>1. CASE e \in entries
      BY <1>1, <3>1 DEF TypeOK
    <3>2. CASE \E k \in 1 .. n : outbox[d][k].what = "entry" /\ outbox[d][k].of = e
      <4> PICK k \in 1 .. n : outbox[d][k].what = "entry" /\ outbox[d][k].of = e
        BY <3>2
      <4>1. outbox[d][k] \in Write
        BY <1>1 DEF TypeOK
      <4> QED  BY <4>1, WriteKinds
    <3> QED  BY <2>1, <3>1, <3>2 DEF Serves
  <2>4. CASE Answers(d, n)
    <3>1. outbox[d] \in Seq(Write)
      BY <1>1 DEF TypeOK
    <3>2. Tail(outbox[d]) \in Seq(Write)
      BY <2>4, <3>1 DEF Answers
    <3>3. outbox' \in [Device -> Seq(Write)]
      BY <1>1, <2>4, <3>2 DEF Answers, TypeOK
    <3> QED  BY <1>1, <2>2, <2>3, <2>4, <3>3 DEF Answers, TypeOK, screenVars, boundVars
  <2>5. CASE Relistens(d)
    BY <1>1, <2>2, <2>3, <2>5 DEF Relistens, TypeOK, screenVars
  <2> QED  BY <2>1, <2>4, <2>5
<1>11. ASSUME NEW d \in Device, Reject(d) PROVE TypeOK'
  <2>1. outbox' \in [Device -> Seq(Write)]
    BY <1>1, <1>11 DEF Reject, TypeOK
  <2>2. known' \in [Device -> SUBSET Message]
    BY <1>1, <1>11 DEF Reject, TypeOK
  <2> QED  BY <1>1, <1>11, <2>1, <2>2 DEF Reject, TypeOK, serverVars, screenVars, boundVars
<1>12. ASSUME NEW d \in Device, Kill(d) PROVE TypeOK'
  <2>1. [t \in Tabs |-> Closed] \in [Tabs -> Screen]
    BY DEF Closed, Screen
  <2>2. chat' \in [Device -> [Tabs -> Screen]] /\ front' \in [Device -> Tabs]
    BY <1>1, <1>12, <2>1 DEF Kill, TypeOK
  <2>3. outbox' \in [Device -> Seq(Write)] /\ mainQ' \in [Device -> Seq(Event)]
    BY <1>1, <1>12 DEF Kill, TypeOK
  <2> QED  BY <1>1, <1>12, <2>2, <2>3 DEF Kill, TypeOK, serverVars
<1> QED
  BY <1>2, <1>3, <1>4, <1>5, <1>6, <1>7, <1>8, <1>9, <1>10, <1>11, <1>12 DEF Next

(* The first write of a device has gone.                                   *)
LEMMA TailPart ==
  ASSUME TypeOK, NEW d \in Device, outbox[d] # <<>>, outbox' = [outbox EXCEPT ![d] = Tail(@)]
  PROVE  /\ \A c \in Device \ {d} : outbox'[c] = outbox[c]
         /\ Len(outbox'[d]) = Len(outbox[d]) - 1
         /\ \A i \in DOMAIN outbox'[d] :
              i \in Nat /\ i + 1 \in DOMAIN outbox[d] /\ outbox'[d][i] = outbox[d][i + 1]
         /\ \A c \in Device : \A i \in DOMAIN outbox'[c] :
              \E k \in DOMAIN outbox[c] : outbox'[c][i] = outbox[c][k]
<1>1. outbox[d] \in Seq(Write)
  BY DEF TypeOK
<1>2. ASSUME NEW q \in Seq(Write), q # <<>>
      PROVE  /\ Len(Tail(q)) = Len(q) - 1
             /\ \A i \in DOMAIN Tail(q) :
                  i \in Nat /\ i + 1 \in DOMAIN q /\ Tail(q)[i] = q[i + 1]
  BY <1>2
<1>3. outbox'[d] = Tail(outbox[d]) /\ \A c \in Device \ {d} : outbox'[c] = outbox[c]
  BY DEF TypeOK
<1>4. /\ Len(outbox'[d]) = Len(outbox[d]) - 1
      /\ \A i \in DOMAIN outbox'[d] :
           i \in Nat /\ i + 1 \in DOMAIN outbox[d] /\ outbox'[d][i] = outbox[d][i + 1]
  <2>1. /\ Len(Tail(outbox[d])) = Len(outbox[d]) - 1
        /\ \A i \in DOMAIN Tail(outbox[d]) :
             i \in Nat /\ i + 1 \in DOMAIN outbox[d] /\ Tail(outbox[d])[i] = outbox[d][i + 1]
    BY <1>1, <1>2
  <2> QED  BY <1>3, <2>1
<1>5. ASSUME NEW c \in Device, NEW i \in DOMAIN outbox'[c]
      PROVE  \E k \in DOMAIN outbox[c] : outbox'[c][i] = outbox[c][k]
  BY <1>3, <1>4
<1> QED  BY <1>3, <1>4, <1>5

(* A sequence, an element, another sequence.                               *)
LEMMA CatThree ==
  ASSUME NEW S, NEW o \in Seq(S), NEW w \in S, NEW es \in Seq(S), NEW r,
         r = o \o (<<w>> \o es)
  PROVE  /\ r \in Seq(S) /\ Len(o) \in Nat /\ Len(es) \in Nat
         /\ DOMAIN o = 1 .. Len(o) /\ DOMAIN es = 1 .. Len(es)
         /\ DOMAIN r = 1 .. (Len(o) + 1 + Len(es))
         /\ \A i \in 1 .. Len(o) : r[i] = o[i]
         /\ r[Len(o) + 1] = w
         /\ \A k \in 1 .. Len(es) : r[Len(o) + 1 + k] = es[k]
<1>1. PICK q : q = <<w>> \o es
  OBVIOUS
<1>2. /\ q \in Seq(S) /\ Len(q) = 1 + Len(es) /\ q[1] = w
      /\ \A k \in 1 .. Len(es) : q[1 + k] = es[k]
  BY <1>1
<1>3. r \in Seq(S) /\ Len(r) = Len(o) + Len(q) /\ r = o \o q
  BY <1>1, <1>2
<1>4. \A i \in 1 .. Len(o) : r[i] = o[i]
  BY <1>2, <1>3
<1>5. \A k \in 1 .. Len(q) : r[Len(o) + k] = q[k]
  BY <1>2, <1>3
<1>6. r[Len(o) + 1] = w
  BY <1>2, <1>5
<1>7. ASSUME NEW k \in 1 .. Len(es) PROVE r[Len(o) + 1 + k] = es[k]
  <2>1. 1 + k \in 1 .. Len(q) /\ Len(o) + (1 + k) = Len(o) + 1 + k
    BY <1>2
  <2> QED  BY <1>2, <1>5, <2>1
<1> QED  BY <1>2, <1>3, <1>4, <1>6, <1>7

(* A message, and perhaps entries, are sent after what is under way.       *)
LEMMA SendsPart ==
  ASSUME BaseInv, NEW d \in Device, NEW m \in Message, NEW es \in Seq(Write), Sends(d, m, es)
  PROVE  /\ \A c \in Device \ {d} : outbox'[c] = outbox[c]
         /\ \A i \in DOMAIN outbox[d] : i \in DOMAIN outbox'[d] /\ outbox'[d][i] = outbox[d][i]
         /\ \A i \in DOMAIN outbox'[d] :
              \/ i \in DOMAIN outbox[d] /\ outbox'[d][i] = outbox[d][i]
              \/ /\ i = Len(outbox[d]) + 1
                 /\ outbox'[d][i] = [what |-> "message", of |-> m]
              \/ /\ i > Len(outbox[d]) + 1 /\ IsFirst(d)
                 /\ outbox'[d][i].what = "entry"
                 /\ outbox'[d][i].of \in {<<d, visitor[d]>>, <<visitor[d], d>>}
         /\ Len(outbox[d]) + 1 \in DOMAIN outbox'[d]
         /\ outbox'[d][Len(outbox[d]) + 1] = [what |-> "message", of |-> m]
         /\ IsFirst(d) => \A e \in {<<d, visitor[d]>>, <<visitor[d], d>>} :
              \E i \in DOMAIN outbox'[d] :
                outbox'[d][i].what = "entry" /\ outbox'[d][i].of = e
<1>1. PICK w : w = [what |-> "message", of |-> m]
  OBVIOUS
<1>2. w \in Write
  BY <1>1 DEF Write
<1>3. PICK o : o = outbox[d]
  OBVIOUS
<1>4. PICK r : r = o \o (<<w>> \o es)
  OBVIOUS
<1>5. o \in Seq(Write)
  BY <1>3 DEF BaseInv, TypeOK
<1>6. outbox'[d] = r /\ \A c \in Device \ {d} : outbox'[c] = outbox[c]
  BY <1>1, <1>3, <1>4 DEF BaseInv, TypeOK, Sends
<1>7. /\ Len(o) \in Nat /\ Len(es) \in Nat
      /\ DOMAIN o = 1 .. Len(o) /\ DOMAIN r = 1 .. (Len(o) + 1 + Len(es))
      /\ \A i \in 1 .. Len(o) : r[i] = o[i]
      /\ r[Len(o) + 1] = w
      /\ \A k \in 1 .. Len(es) : r[Len(o) + 1 + k] = es[k]
  BY <1>2, <1>4, <1>5, CatThree
<1>8. ASSUME NEW k \in 1 .. Len(es)
      PROVE  /\ IsFirst(d) /\ es[k].what = "entry"
             /\ es[k].of \in {<<d, visitor[d]>>, <<visitor[d], d>>}
  BY DEF Sends
<1>9. ASSUME NEW i \in DOMAIN r
      PROVE  \/ i \in DOMAIN o /\ r[i] = o[i]
             \/ i = Len(o) + 1 /\ r[i] = w
             \/ /\ i > Len(o) + 1 /\ IsFirst(d) /\ r[i].what = "entry"
                /\ r[i].of \in {<<d, visitor[d]>>, <<visitor[d], d>>}
  <2>1. CASE i <= Len(o)
    BY <1>7, <2>1
  <2>2. CASE i = Len(o) + 1
    BY <1>7, <2>2
  <2>3. CASE i > Len(o) + 1
    <3>1. PICK k \in 1 .. Len(es) : i = Len(o) + 1 + k
      <4>1. i \in 1 .. (Len(o) + 1 + Len(es)) /\ Len(o) \in Nat /\ Len(es) \in Nat
        BY <1>7
      <4>2. i - Len(o) - 1 \in 1 .. Len(es) /\ i = Len(o) + 1 + (i - Len(o) - 1)
        BY <2>3, <4>1
      <4> QED  BY <4>2
    <3>2. r[i] = es[k]
      BY <1>7, <3>1
    <3> QED  BY <1>8, <2>3, <3>2
  <2> QED  BY <1>7, <2>1, <2>2, <2>3
<1>10. ASSUME IsFirst(d), NEW e \in {<<d, visitor[d]>>, <<visitor[d], d>>}
       PROVE  \E i \in DOMAIN r : r[i].what = "entry" /\ r[i].of = e
  <2>1. es = <<[what |-> "entry", of |-> <<d, visitor[d]>>],
               [what |-> "entry", of |-> <<visitor[d], d>>]>>
    BY <1>10 DEF Sends
  <2>2. /\ Len(es) = 2
        /\ es[1].what = "entry" /\ es[1].of = <<d, visitor[d]>>
        /\ es[2].what = "entry" /\ es[2].of = <<visitor[d], d>>
    BY <2>1
  <2>3. PICK k \in 1 .. Len(es) : es[k].what = "entry" /\ es[k].of = e
    BY <1>10, <2>2
  <2>4. Len(o) + 1 + k \in DOMAIN r /\ r[Len(o) + 1 + k] = es[k]
    BY <1>7
  <2> QED  BY <2>3, <2>4
<1>11. Len(o) + 1 \in DOMAIN r /\ \A i \in DOMAIN o : i \in DOMAIN r /\ r[i] = o[i]
  BY <1>7
<1> QED  BY <1>1, <1>3, <1>6, <1>7, <1>9, <1>10, <1>11

(* What is anywhere was sent, and the writes of a device are its user's.   *)
LEMMA StepSent == BaseInv /\ [Next]_vars => SentInv'
<1> SUFFICES ASSUME BaseInv, [Next]_vars PROVE SentInv'
  OBVIOUS
<1>1. TypeOK /\ SentInv
  BY DEF BaseInv
<1>2. ASSUME UNCHANGED <<sent, log, known, outbox>> PROVE SentInv'
  BY <1>1, <1>2 DEF SentInv, ToSet
<1>3. ASSUME NEW d \in Device, Send(d) PROVE SentInv'
  <2>1. PICK m \in Message, es \in Seq(Write) : Sends(d, m, es)
    BY <1>3, SendFacts
  <2>0. /\ \A c \in Device \ {d} : outbox'[c] = outbox[c]
        /\ \A i \in DOMAIN outbox'[d] :
              \/ i \in DOMAIN outbox[d] /\ outbox'[d][i] = outbox[d][i]
              \/ /\ i = Len(outbox[d]) + 1
                 /\ outbox'[d][i] = [what |-> "message", of |-> m]
              \/ /\ i > Len(outbox[d]) + 1 /\ IsFirst(d)
                 /\ outbox'[d][i].what = "entry"
                 /\ outbox'[d][i].of \in {<<d, visitor[d]>>, <<visitor[d], d>>}
    BY <2>1, SendsPart
  <2>2. IsFiniteSet(sent') /\ sent' = sent \cup {m} /\ m.from # m.to /\ log' = log
    BY <1>1, <2>1, FS_AddElement DEF Sends, SentInv, serverVars
  <2>3. \A c \in Device : known'[c] \subseteq sent'
    BY <1>1, <2>1, <2>2 DEF Sends, SentInv, TypeOK
  <2>4. ASSUME NEW c \in Device, NEW i \in DOMAIN outbox'[c], outbox'[c][i].what = "message"
        PROVE  outbox'[c][i].of \in sent' /\ outbox'[c][i].of.from = c
    <3>1. CASE c = d
      <4>1. \/ i \in DOMAIN outbox[c] /\ outbox'[c][i] = outbox[c][i]
            \/ outbox'[c][i].of = m
        BY <2>0, <2>4, <3>1
      <4> QED  BY <1>1, <2>1, <2>2, <2>4, <3>1, <4>1 DEF SentInv, Sends
    <3>2. CASE c # d
      <4>1. outbox'[c] = outbox[c]
        BY <2>0, <3>2
      <4> QED  BY <1>1, <2>2, <2>4, <4>1 DEF SentInv
    <3> QED  BY <3>1, <3>2
  <2> QED  BY <1>1, <2>2, <2>3, <2>4 DEF SentInv, ToSet
<1>4. ASSUME NEW d \in Device, Sync(d) \/ Arrive(d) PROVE SentInv'
  <2>1. PICK p \in User, new \in SUBSET sent : Learns(d, p, new)
    BY <1>4, LearnFacts
  <2>2. UNCHANGED <<sent, log, outbox>> /\ \A c \in Device : known'[c] \subseteq sent'
    BY <1>1, <2>1 DEF Learns, SentInv, TypeOK, serverVars
  <2> QED  BY <1>1, <2>2 DEF SentInv, ToSet
<1>5. ASSUME NEW d \in Device, Accept(d) \/ Reconnect(d) PROVE SentInv'
  <2>1. PICK n \in 0 .. Len(outbox[d]), ms \in Seq(Message) :
          Serves(d, n, ms) /\ (Answers(d, n) \/ Relistens(d))
    BY <1>1, <1>5, ServerFacts
  <2>2. UNCHANGED <<sent, known>>
    BY <2>1 DEF Answers, Relistens
  <2>3. ToSet(log') \subseteq sent'
    <3>1. ToSet(log') = ToSet(log) \cup ToSet(ms)
      BY <1>1, <2>1, ToSetCat DEF Serves, TypeOK
    <3>2. ASSUME NEW i \in 1 .. Len(ms) PROVE ms[i] \in sent
      <4>1. PICK k \in 1 .. n : outbox[d][k].what = "message" /\ outbox[d][k].of = ms[i]
        BY <2>1 DEF Serves
      <4>2. k \in DOMAIN outbox[d]
        BY <1>1 DEF TypeOK
      <4> QED  BY <1>1, <4>1, <4>2 DEF SentInv
    <3>3. ToSet(ms) \subseteq sent
      BY <3>2 DEF ToSet
    <3> QED  BY <1>1, <2>2, <3>1, <3>3 DEF SentInv
  <2>4. ASSUME NEW c \in Device, NEW i \in DOMAIN outbox'[c], outbox'[c][i].what = "message"
        PROVE  outbox'[c][i].of \in sent' /\ outbox'[c][i].of.from = c
    <3>1. \E k \in DOMAIN outbox[c] : outbox'[c][i] = outbox[c][k]
      BY <1>1, <2>1, TailPart DEF Answers, Relistens
    <3> QED  BY <1>1, <2>2, <2>4, <3>1 DEF SentInv
  <2> QED  BY <1>1, <2>2, <2>3, <2>4 DEF SentInv
<1>6. ASSUME NEW d \in Device, Reject(d) PROVE SentInv'
  <2>1. UNCHANGED <<sent, log>> /\ \A c \in Device : known'[c] \subseteq known[c]
    BY <1>1, <1>6 DEF Reject, TypeOK, serverVars
  <2>3. \A c \in Device : \A i \in DOMAIN outbox'[c] :
          \E k \in DOMAIN outbox[c] : outbox'[c][i] = outbox[c][k]
    BY <1>1, <1>6, TailPart DEF Reject
  <2> QED  BY <1>1, <2>1, <2>3 DEF SentInv, ToSet
<1>7. ASSUME NEW d \in Device, Kill(d) PROVE SentInv'
  <2>1. UNCHANGED <<sent, log>> /\ \A c \in Device : known'[c] \subseteq known[c]
    BY <1>1, <1>7 DEF Kill, TypeOK, serverVars
  <2>2. \A c \in Device : outbox'[c] = outbox[c] \/ outbox'[c] = <<>>
    BY <1>1, <1>7 DEF Kill, TypeOK
  <2>3. DOMAIN <<>> = {}
    OBVIOUS
  <2> QED  BY <1>1, <2>1, <2>2, <2>3 DEF SentInv, ToSet
<1>8. ASSUME NEW d \in Device, Select(d) \/ Back(d) \/ SwitchTab(d) \/ RunEvent(d) \/ ShowRow(d)
      PROVE  SentInv'
  BY <1>2, <1>8 DEF Select, Back, SwitchTab, RunEvent, ShowRow, serverVars, clientVars
<1>9. CASE UNCHANGED vars
  BY <1>2, <1>9 DEF vars, serverVars, clientVars
<1> QED
  BY <1>3, <1>4, <1>5, <1>6, <1>7, <1>8, <1>9 DEF Next

(* Nobody is her own visitor, and no list has its owner in it.             *)
LEMMA StepNotSelf == BaseInv /\ [Next]_vars => NotSelf'
<1> SUFFICES ASSUME BaseInv, [Next]_vars PROVE NotSelf'
  OBVIOUS
<1>1. TypeOK /\ NotSelf
  BY DEF BaseInv
<1>2. ASSUME UNCHANGED <<entries, visitor, listed, outbox, chat>> PROVE NotSelf'
  BY <1>1, <1>2 DEF NotSelf
<1>3. ASSUME NEW d \in Device, Select(d) PROVE NotSelf'
  <2>1. PICK p \in User \ {d} : Selects(d, p)
    BY <1>3, SelectFacts
  <2>2. UNCHANGED <<entries, listed, outbox>> /\ front[d] \in Tabs /\ p # None
    BY <1>1, <2>1, ChatAssumption DEF Selects, serverVars, TypeOK
  <2>3. \A c \in Device : visitor'[c] = IF c = d THEN p ELSE visitor[c]
    BY <1>1, <2>1 DEF Selects, TypeOK
  <2>4. \A c \in Device, t \in Tabs :
          chat'[c][t] = chat[c][t] \/ (c = d /\ chat'[c][t].peer = p)
    <3>1. Opened(p) \in Screen /\ Opened(p).peer = p
      BY DEF Opened, Screen
    <3> QED  BY <1>1, <2>1, <2>2, <3>1, ScreenSet DEF Selects, Opens
  <2> QED  BY <1>1, <2>2, <2>3, <2>4 DEF NotSelf
<1>4. ASSUME UNCHANGED <<entries, visitor, listed, outbox>>,
             \A c \in Device, t \in Tabs : chat'[c][t].peer \in {chat[c][t].peer, None}
      PROVE  NotSelf'
  <2>1. ASSUME NEW c \in Device, NEW t \in Tabs
        PROVE  chat'[c][t].peer # c /\ (chat'[c][t].peer # None => visitor'[c] # None)
    <3>1. chat'[c][t].peer = chat[c][t].peer \/ chat'[c][t].peer = None
      BY <1>4
    <3>2. c # None
      BY ChatAssumption
    <3>3. chat[c][t].peer # c /\ (chat[c][t].peer # None => visitor[c] # None)
      BY <1>1 DEF NotSelf
    <3> QED  BY <1>4, <3>1, <3>2, <3>3
  <2> QED  BY <1>1, <1>4, <2>1 DEF NotSelf
<1>5. ASSUME NEW d \in Device, Back(d) PROVE NotSelf'
  <2>1. front[d] \in Tabs /\ Closed \in Screen /\ Closed.peer = None
    BY <1>1 DEF TypeOK, Closed, Screen
  <2>2. \A c \in Device, t \in Tabs : chat'[c][t].peer \in {chat[c][t].peer, None}
    BY <1>1, <1>5, <2>1, ScreenSet DEF Back
  <2> QED  BY <1>4, <1>5, <2>2 DEF Back, serverVars
<1>6. ASSUME NEW d \in Device, RunEvent(d) PROVE NotSelf'
  <2>1. mainQ[d][1].tab \in Tabs
    BY <1>1, <1>6, RunEventFacts DEF Event
  <2>2. PICK n \in Screen : /\ n.peer = chat[d][mainQ[d][1].tab].peer
                            /\ chat' = [chat EXCEPT ![d][mainQ[d][1].tab] = n]
    BY <1>1, <1>6, RunEventFacts
  <2>3. \A c \in Device, t \in Tabs : chat'[c][t].peer \in {chat[c][t].peer, None}
    BY SMTT(30), <1>1, <2>1, <2>2, ScreenSet
  <2> QED  BY <1>4, <1>6, <2>3 DEF RunEvent, serverVars
<1>7. ASSUME NEW d \in Device, Send(d) PROVE NotSelf'
  <2>1. PICK m \in Message, es \in Seq(Write) : Sends(d, m, es)
    BY <1>7, SendFacts
  <2>0. /\ \A c \in Device \ {d} : outbox'[c] = outbox[c]
        /\ \A i \in DOMAIN outbox'[d] :
              \/ i \in DOMAIN outbox[d] /\ outbox'[d][i] = outbox[d][i]
              \/ /\ i = Len(outbox[d]) + 1
                 /\ outbox'[d][i] = [what |-> "message", of |-> m]
              \/ /\ i > Len(outbox[d]) + 1 /\ IsFirst(d)
                 /\ outbox'[d][i].what = "entry"
                 /\ outbox'[d][i].of \in {<<d, visitor[d]>>, <<visitor[d], d>>}
    BY <2>1, SendsPart
  <2>2. UNCHANGED <<entries, visitor, listed, chat>>
    BY <2>1 DEF Sends, serverVars, screenVars
  <2>3. ASSUME NEW c \in Device, NEW i \in DOMAIN outbox'[c], outbox'[c][i].what = "entry"
        PROVE  outbox'[c][i].of[1] # outbox'[c][i].of[2]
    <3>1. visitor[d] # d /\ [what |-> "message", of |-> m].what = "message"
      BY <2>1 DEF Sends
    <3>2. CASE c = d
      <4>1. \/ i \in DOMAIN outbox[c] /\ outbox'[c][i] = outbox[c][i]
            \/ outbox'[c][i].of \in {<<d, visitor[d]>>, <<visitor[d], d>>}
        BY <2>0, <2>3, <3>1, <3>2
      <4> QED  BY <1>1, <2>3, <3>1, <4>1 DEF NotSelf
    <3>3. CASE c # d
      <4>1. outbox'[c] = outbox[c]
        BY <2>0, <3>3
      <4> QED  BY <1>1, <2>3, <4>1 DEF NotSelf
    <3> QED  BY <3>2, <3>3
  <2> QED  BY <1>1, <2>2, <2>3 DEF NotSelf
<1>8. ASSUME NEW d \in Device, ShowRow(d) PROVE NotSelf'
  <2>1. PICK p \in User \ listed[d] :
       /\ \/ <<d, p>> \in entries
          \/ \E w \in ToSet(outbox[d]) : w = [what |-> "entry", of |-> <<d, p>>]
       /\ listed' = [listed EXCEPT ![d] = @ \cup {p}]
    BY <1>8 DEF ShowRow
  <2>2. p # d
    <3>1. CASE <<d, p>> \in entries
      BY <1>1, <3>1 DEF NotSelf
    <3>2. CASE \E w \in ToSet(outbox[d]) : w = [what |-> "entry", of |-> <<d, p>>]
      <4>1. PICK i \in DOMAIN outbox[d] : outbox[d][i] = [what |-> "entry", of |-> <<d, p>>]
        BY <3>2 DEF ToSet
      <4> QED  BY <1>1, <4>1 DEF NotSelf
    <3> QED  BY <2>1, <3>1, <3>2
  <2>3. \A c \in Device : c \notin listed'[c]
    BY <1>1, <2>1, <2>2 DEF NotSelf, TypeOK
  <2> QED  BY <1>1, <1>8, <2>3 DEF ShowRow, NotSelf, serverVars, screenVars
<1>9. ASSUME UNCHANGED <<visitor, listed, chat>>,
             \A e \in entries' : \/ e \in entries
                                 \/ \E c \in Device : \E i \in DOMAIN outbox[c] :
                                      outbox[c][i].what = "entry" /\ outbox[c][i].of = e,
             \A c \in Device : \A i \in DOMAIN outbox'[c] :
               \E k \in DOMAIN outbox[c] : outbox'[c][i] = outbox[c][k]
      PROVE  NotSelf'
  BY <1>1, <1>9 DEF NotSelf
<1>10. ASSUME NEW d \in Device, Accept(d) \/ Reconnect(d) PROVE NotSelf'
  <2>1. PICK n \in 0 .. Len(outbox[d]), ms \in Seq(Message) :
          Serves(d, n, ms) /\ (Answers(d, n) \/ Relistens(d))
    BY <1>1, <1>10, ServerFacts
  <2>2. 1 .. n \subseteq DOMAIN outbox[d]
    BY <1>1 DEF TypeOK
  <2>3. \A c \in Device : \A i \in DOMAIN outbox'[c] :
          \E k \in DOMAIN outbox[c] : outbox'[c][i] = outbox[c][k]
    BY <1>1, <2>1, TailPart DEF Answers, Relistens
  <2>4. UNCHANGED <<visitor, listed, chat>>
    BY <2>1 DEF Answers, Relistens, screenVars
  <2> QED  BY <1>9, <2>1, <2>2, <2>3, <2>4 DEF Serves
<1>11. ASSUME NEW d \in Device, Reject(d) PROVE NotSelf'
  <2>2. \A c \in Device : \A i \in DOMAIN outbox'[c] :
          \E k \in DOMAIN outbox[c] : outbox'[c][i] = outbox[c][k]
    BY <1>1, <1>11, TailPart DEF Reject
  <2> QED  BY <1>9, <1>11, <2>2 DEF Reject, serverVars, screenVars
<1>12. ASSUME NEW d \in Device, Kill(d) PROVE NotSelf'
  <2>1. \A c \in Device : \/ c = d /\ visitor'[c] = None /\ listed'[c] = {} /\ outbox'[c] = <<>>
                             /\ \A t \in Tabs : chat'[c][t] = Closed
                          \/ c # d /\ visitor'[c] = visitor[c] /\ listed'[c] = listed[c]
                             /\ outbox'[c] = outbox[c] /\ chat'[c] = chat[c]
    BY <1>1, <1>12 DEF Kill, TypeOK
  <2>2. DOMAIN <<>> = {} /\ Closed.peer = None /\ UNCHANGED entries
    BY <1>12 DEF Closed, Kill, serverVars
  <2> QED  BY <1>1, <2>1, <2>2, ChatAssumption DEF NotSelf
<1>13. ASSUME NEW d \in Device, SwitchTab(d) \/ Sync(d) \/ Arrive(d) PROVE NotSelf'
  BY <1>2, <1>13 DEF SwitchTab, Sync, Arrive, serverVars, clientVars, screenVars
<1>14. CASE UNCHANGED vars
  BY <1>2, <1>14 DEF vars, serverVars, clientVars, screenVars
<1> QED
  BY <1>3, <1>5, <1>6, <1>7, <1>8, <1>10, <1>11, <1>12, <1>13, <1>14 DEF Next

LEMMA StepBase == BaseInv /\ [Next]_vars => BaseInv'
BY StepType, StepSent, StepNotSelf DEF BaseInv

(* Every variable of the chats has its type at all times: no event, write  *)
(* or row is ever made of a user who is not there.                         *)
THEOREM ChatTypeCorrect == Spec => []TypeOK
<1>1. BaseInv => TypeOK
  BY DEF BaseInv
<1> QED  BY <1>1, InitBase, StepBase, PTL DEF Spec

-----------------------------------------------------------------------------
(* How a step changes the queue and the screens of a device.               *)

(* The messages M wait for the screens in T, behind what waits already.    *)
Queued(d, T, M) ==
  LET old == mainQ[d] IN
  LET new == mainQ'[d] IN
  /\ \A c \in Device \ {d} : mainQ'[c] = mainQ[c]
  /\ DOMAIN old = 1 .. Len(old) /\ Len(old) \in Nat /\ DOMAIN new \subseteq Nat
  /\ \A i \in DOMAIN old : i \in DOMAIN new /\ new[i] = old[i]
  /\ \A i \in DOMAIN new : \/ i \in DOMAIN old /\ new[i] = old[i]
                           \/ i > Len(old) /\ new[i].tab \in T /\ new[i].msg \in M
  /\ \A i, j \in DOMAIN new :
       i > Len(old) /\ j > Len(old) /\ new[i].tab = new[j].tab /\ new[i].msg = new[j].msg => i = j
  /\ \A i, j \in DOMAIN new : i > Len(old) /\ i < j => new[i].msg.key <= new[j].msg.key
  /\ \A t \in T, m \in M : \E i \in DOMAIN new : new[i].tab = t /\ new[i].msg = m

LEMMA QueuedByRaise ==
  ASSUME TypeOK, NEW d \in Device, NEW T \in SUBSET Tabs, NEW M \in SUBSET Message,
         IsFiniteSet(M), Raise(d, [tab : T, msg : M])
  PROVE  Queued(d, T, M)
<1> PICK es : es = [tab : T, msg : M]
  OBVIOUS
<1>1. IsFiniteSet(es)
  BY EventsFinite
<1>2. PICK q \in Raised(es) : q \in Seq(Event) /\ mainQ'[d] = mainQ[d] \o q
  <2>1. \E q \in Raised([tab : T, msg : M]) :
          q \in Seq(Event) /\ mainQ'[d] = mainQ[d] \o q
    BY RaiseFacts
  <2> QED  BY <2>1
<1>3. /\ DOMAIN q = 1 .. Len(q) /\ Len(q) \in Nat
      /\ \A i \in 1 .. Len(q) : q[i] \in es
      /\ \A i, j \in 1 .. Len(q) : q[i] = q[j] => i = j
      /\ \A e \in es : \E i \in 1 .. Len(q) : q[i] = e
      /\ \A i, j \in 1 .. Len(q) : i < j => q[i].msg.key <= q[j].msg.key
  <2>1. /\ q \in Seq(es) /\ DOMAIN q = 1 .. Len(q)
        /\ \A i \in 1 .. Len(q) : q[i] \in es
        /\ \A i, j \in 1 .. Len(q) : q[i] = q[j] => i = j
        /\ \A e \in es : \E i \in 1 .. Len(q) : q[i] = e
        /\ \A i, j \in 1 .. Len(q) : i < j => q[i].msg.key <= q[j].msg.key
    <3>1. IsFiniteSet(es) /\ q \in Raised(es)
      BY <1>1
    <3> QED  BY ONLY <3>1, RaisedFacts, Zenon
  <2>2. Len(q) \in Nat
    BY <2>1
  <2> QED  BY <2>1, <2>2
<1> PICK old : old = mainQ[d]
  OBVIOUS
<1> PICK new : new = mainQ'[d]
  OBVIOUS
<1>4. old \in Seq(Event) /\ new = old \o q
  BY <1>2 DEF TypeOK
<1>5. /\ Len(old) \in Nat /\ DOMAIN old = 1 .. Len(old)
      /\ DOMAIN new = 1 .. (Len(old) + Len(q))
      /\ \A i \in 1 .. Len(old) : new[i] = old[i]
      /\ \A i \in 1 .. Len(q) : new[Len(old) + i] = q[i]
  BY <1>2, <1>4
<1>6. ASSUME NEW i \in DOMAIN new, i > Len(old)
      PROVE  i - Len(old) \in 1 .. Len(q) /\ new[i] = q[i - Len(old)]
  <2>1. i \in 1 .. (Len(old) + Len(q)) /\ Len(old) \in Nat /\ Len(q) \in Nat
    BY <1>3, <1>5
  <2>2. i - Len(old) \in 1 .. Len(q) /\ Len(old) + (i - Len(old)) = i
    BY <1>6, <2>1
  <2> QED  BY <1>5, <2>2
<1>7. \A e \in es : e.tab \in T /\ e.msg \in M /\ e = [tab |-> e.tab, msg |-> e.msg]
  OBVIOUS
<1>8. ASSUME NEW i \in DOMAIN new
      PROVE  \/ i \in DOMAIN old /\ new[i] = old[i]
             \/ i > Len(old) /\ new[i].tab \in T /\ new[i].msg \in M
  <2>1. CASE i <= Len(old)
    BY <1>5, <2>1
  <2>2. CASE i > Len(old)
    BY <1>3, <1>6, <1>7, <2>2
  <2> QED  BY <1>5, <2>1, <2>2
<1>9. ASSUME NEW i \in DOMAIN new, NEW j \in DOMAIN new, i > Len(old), j > Len(old),
             new[i].tab = new[j].tab, new[i].msg = new[j].msg
      PROVE  i = j
  <2>1. /\ i - Len(old) \in 1 .. Len(q) /\ new[i] = q[i - Len(old)]
        /\ j - Len(old) \in 1 .. Len(q) /\ new[j] = q[j - Len(old)]
    BY <1>6, <1>9
  <2>2. q[i - Len(old)] = q[j - Len(old)]
    BY <1>3, <1>7, <1>9, <2>1
  <2>3. i - Len(old) = j - Len(old)
    BY <1>3, <2>1, <2>2
  <2> QED  BY <1>5, <2>3
<1>10. ASSUME NEW i \in DOMAIN new, NEW j \in DOMAIN new, i > Len(old), i < j
       PROVE  new[i].msg.key <= new[j].msg.key
  <2>1. j > Len(old)
    BY <1>5, <1>10
  <2>2. /\ i - Len(old) \in 1 .. Len(q) /\ new[i] = q[i - Len(old)]
        /\ j - Len(old) \in 1 .. Len(q) /\ new[j] = q[j - Len(old)]
        /\ i - Len(old) < j - Len(old)
    BY SMTT(30), <1>5, <1>6, <1>10, <2>1
  <2> QED  BY <1>3, <2>2
<1>11. ASSUME NEW t \in T, NEW m \in M
       PROVE  \E i \in DOMAIN new : new[i].tab = t /\ new[i].msg = m
  <2>1. [tab |-> t, msg |-> m] \in es
    OBVIOUS
  <2>2. PICK k \in 1 .. Len(q) : q[k] = [tab |-> t, msg |-> m]
    BY <1>3, <2>1
  <2>3. Len(old) + k \in DOMAIN new /\ new[Len(old) + k] = q[k]
    BY <1>3, <1>5
  <2> QED  BY <2>2, <2>3
<1>12. \A c \in Device \ {d} : mainQ'[c] = mainQ[c]
  BY RaiseFacts
<1>13. DOMAIN new \subseteq Nat /\ \A i \in DOMAIN old : i \in DOMAIN new /\ new[i] = old[i]
  BY <1>3, <1>5
<1> QED  BY <1>5, <1>8, <1>9, <1>10, <1>11, <1>12, <1>13 DEF Queued

(* The first event e of a device has become the last row r of its screen.  *)
RowAdded(d, e, r) ==
  LET old == chat[d][e.tab].shown IN
  LET new == chat'[d][e.tab].shown IN
  /\ e \in Event /\ 1 \in DOMAIN mainQ[d] /\ e = mainQ[d][1]
  /\ r = [msg |-> e.msg, as |-> Author(d, e.msg)]
  /\ \A c \in Device, u \in Tabs : chat'[c][u].peer = chat[c][u].peer
  /\ \A c \in Device, u \in Tabs : c # d \/ u # e.tab => chat'[c][u] = chat[c][u]
  /\ DOMAIN old = 1 .. Len(old) /\ Len(old) \in Nat /\ DOMAIN new = 1 .. (Len(old) + 1)
  /\ \A i \in DOMAIN old : i \in DOMAIN new /\ new[i] = old[i]
  /\ new[Len(old) + 1] = r /\ Len(old) + 1 \in DOMAIN new
  /\ \A i \in DOMAIN new : \/ i \in DOMAIN old /\ new[i] = old[i] /\ i < Len(old) + 1
                           \/ i = Len(old) + 1 /\ new[i] = r
  /\ \A c \in Device \ {d} : mainQ'[c] = mainQ[c]
  /\ \A i \in DOMAIN mainQ'[d] :
       /\ i \in Nat /\ i + 1 \in DOMAIN mainQ[d] /\ i + 1 # 1
       /\ mainQ'[d][i] = mainQ[d][i + 1]
  /\ \A k \in DOMAIN mainQ[d] :
       k = 1 \/ (k - 1 \in DOMAIN mainQ'[d] /\ mainQ'[d][k - 1] = mainQ[d][k])
  /\ UNCHANGED <<serverVars, outbox, known, observed, synced, listed, visitor, front,
                 sent, boundVars>>

LEMMA RowAddedByEvent ==
  ASSUME TypeOK, NEW d \in Device, RunEvent(d)
  PROVE  \E e \in Event, r \in Row : RowAdded(d, e, r)
<1>1. PICK e : e = mainQ[d][1]
  OBVIOUS
<1>2. mainQ[d] # <<>> /\ e \in Event
  BY <1>1, RunEventFacts
<1>3. PICK r : r = [msg |-> e.msg, as |-> Author(d, e.msg)]
  OBVIOUS
<1>4. PICK n \in Screen : /\ n.peer = chat[d][e.tab].peer
                          /\ n.shown = Append(chat[d][e.tab].shown, r)
                          /\ chat' = [chat EXCEPT ![d][e.tab] = n]
  BY <1>1, <1>3, RunEventFacts
<1>5. e.tab \in Tabs /\ e.msg \in Message
  BY <1>2 DEF Event
<1>6. r \in Row
  BY <1>3, <1>5, ChatAssumption DEF Row, Author, TypeOK
<1>7. /\ chat'[d][e.tab] = n
      /\ \A c \in Device, u \in Tabs : c # d \/ u # e.tab => chat'[c][u] = chat[c][u]
  <2>1. PICK t \in Tabs : t = e.tab
    BY <1>5
  <2>2. chat' = [chat EXCEPT ![d][t] = n]
    BY <1>4, <2>1
  <2>3. /\ chat' \in [Device -> [Tabs -> Screen]] /\ chat'[d][t] = n
        /\ \A c \in Device, u \in Tabs : c # d \/ u # t => chat'[c][u] = chat[c][u]
    BY ZenonT(40), <2>2, ScreenSet
  <2> QED  BY <2>1, <2>3
<1>8. \A c \in Device, u \in Tabs : chat'[c][u].peer = chat[c][u].peer
  BY <1>4, <1>7
<1>9. PICK old : old = chat[d][e.tab].shown
  OBVIOUS
<1>10. old \in Seq(Row)
  BY <1>5, <1>9 DEF TypeOK, Screen
<1>11. PICK new : new = chat'[d][e.tab].shown
  OBVIOUS
<1>12. new = Append(old, r)
  BY <1>4, <1>7, <1>9, <1>11
<1>13. /\ DOMAIN old = 1 .. Len(old) /\ Len(old) \in Nat /\ DOMAIN new = 1 .. (Len(old) + 1)
       /\ \A i \in DOMAIN old : i \in DOMAIN new /\ new[i] = old[i]
       /\ new[Len(old) + 1] = r /\ Len(old) + 1 \in DOMAIN new
       /\ \A i \in DOMAIN new : \/ i \in DOMAIN old /\ new[i] = old[i] /\ i < Len(old) + 1
                                \/ i = Len(old) + 1 /\ new[i] = r
  BY <1>6, <1>10, <1>12
<1>14. ASSUME NEW q \in Seq(Event), q # <<>>
       PROVE  /\ 1 \in DOMAIN q
              /\ \A i \in DOMAIN Tail(q) :
                   i \in Nat /\ i + 1 \in DOMAIN q /\ i + 1 # 1 /\ Tail(q)[i] = q[i + 1]
              /\ \A k \in DOMAIN q : k = 1 \/ (k - 1 \in DOMAIN Tail(q) /\ Tail(q)[k - 1] = q[k])
  BY <1>14
<1>15. mainQ[d] \in Seq(Event) /\ mainQ'[d] = Tail(mainQ[d])
       /\ \A c \in Device \ {d} : mainQ'[c] = mainQ[c]
  BY DEF RunEvent, TypeOK
<1>16. /\ 1 \in DOMAIN mainQ[d]
       /\ \A i \in DOMAIN Tail(mainQ[d]) :
            /\ i \in Nat /\ i + 1 \in DOMAIN mainQ[d] /\ i + 1 # 1
            /\ Tail(mainQ[d])[i] = mainQ[d][i + 1]
       /\ \A k \in DOMAIN mainQ[d] :
            \/ k = 1
            \/ k - 1 \in DOMAIN Tail(mainQ[d]) /\ Tail(mainQ[d])[k - 1] = mainQ[d][k]
  BY <1>2, <1>14, <1>15
<1>17. UNCHANGED <<serverVars, outbox, known, observed, synced, listed, visitor, front,
                   sent, boundVars>>
  BY DEF RunEvent
<1>18. /\ \A i \in DOMAIN mainQ'[d] :
            /\ i \in Nat /\ i + 1 \in DOMAIN mainQ[d] /\ i + 1 # 1
            /\ mainQ'[d][i] = mainQ[d][i + 1]
       /\ \A k \in DOMAIN mainQ[d] :
            k = 1 \/ (k - 1 \in DOMAIN mainQ'[d] /\ mainQ'[d][k - 1] = mainQ[d][k])
  <2>1. mainQ'[d] = Tail(mainQ[d])
    BY <1>15
  <2> QED  BY ONLY <1>16, <2>1, Zenon
<1>19. \A c \in Device \ {d} : mainQ'[c] = mainQ[c]
  BY <1>15
<1>20. /\ DOMAIN chat[d][e.tab].shown = 1 .. Len(chat[d][e.tab].shown)
       /\ Len(chat[d][e.tab].shown) \in Nat
       /\ DOMAIN chat'[d][e.tab].shown = 1 .. (Len(chat[d][e.tab].shown) + 1)
       /\ \A i \in DOMAIN chat[d][e.tab].shown :
            i \in DOMAIN chat'[d][e.tab].shown /\ chat'[d][e.tab].shown[i] = chat[d][e.tab].shown[i]
       /\ chat'[d][e.tab].shown[Len(chat[d][e.tab].shown) + 1] = r
       /\ Len(chat[d][e.tab].shown) + 1 \in DOMAIN chat'[d][e.tab].shown
       /\ \A i \in DOMAIN chat'[d][e.tab].shown :
            \/ /\ i \in DOMAIN chat[d][e.tab].shown
               /\ chat'[d][e.tab].shown[i] = chat[d][e.tab].shown[i]
               /\ i < Len(chat[d][e.tab].shown) + 1
            \/ i = Len(chat[d][e.tab].shown) + 1 /\ chat'[d][e.tab].shown[i] = r
  <2>1. chat[d][e.tab].shown = old /\ chat'[d][e.tab].shown = new
    BY <1>9, <1>11
  <2> QED  BY ONLY <1>13, <2>1
<1>21. e \in Event /\ 1 \in DOMAIN mainQ[d] /\ e = mainQ[d][1]
       /\ r = [msg |-> e.msg, as |-> Author(d, e.msg)]
  BY <1>1, <1>2, <1>3, <1>16
<1>22. RowAdded(d, e, r)
  BY ONLY <1>7, <1>8, <1>17, <1>18, <1>19, <1>20, <1>21, Zenon DEF RowAdded
<1> QED  BY <1>2, <1>6, <1>22

(* The chat in front of a device has been popped, with its events.         *)
Popped(d) ==
  /\ chat[d][front[d]].peer # None /\ front[d] \in Tabs
  /\ chat'[d][front[d]] = Closed
  /\ \A c \in Device, u \in Tabs : c # d \/ u # front[d] => chat'[c][u] = chat[c][u]
  /\ \A c \in Device \ {d} : mainQ'[c] = mainQ[c]
  /\ \E f \in [DOMAIN mainQ'[d] -> DOMAIN mainQ[d]] :
       /\ \A i \in DOMAIN mainQ'[d] :
            mainQ'[d][i] = mainQ[d][f[i]] /\ mainQ'[d][i].tab # front[d]
       /\ \A i, j \in DOMAIN mainQ'[d] : i < j => f[i] < f[j]
       /\ \A k \in DOMAIN mainQ[d] : mainQ[d][k].tab # front[d] => \E i \in DOMAIN mainQ'[d] : f[i] = k
  /\ DOMAIN mainQ'[d] \subseteq Nat
  /\ UNCHANGED <<serverVars, outbox, known, observed, synced, listed, visitor, front,
                 sent, boundVars>>

LEMMA PoppedByBack ==
  ASSUME TypeOK, NEW d \in Device, Back(d)
  PROVE  Popped(d)
<1>1. PICK K : K = {i \in DOMAIN mainQ[d] : mainQ[d][i].tab # front[d]}
  OBVIOUS
<1>2. PICK r \in Kept(mainQ[d], K) : mainQ' = [mainQ EXCEPT ![d] = r]
  BY <1>1 DEF Back
<1>3. mainQ[d] \in Seq(Event) /\ K \in SUBSET DOMAIN mainQ[d]
  BY <1>1 DEF TypeOK
<1>4. r \in Seq(Event) /\ PartOf(r, mainQ[d], K)
  BY <1>3, KeptFacts
<1>5. mainQ'[d] = r /\ \A c \in Device \ {d} : mainQ'[c] = mainQ[c]
  BY <1>2 DEF TypeOK
<1>6. PICK f \in [1 .. Len(r) -> K] :
        /\ \A i \in 1 .. Len(r) : f[i] \in 1 .. Len(mainQ[d]) /\ r[i] = mainQ[d][f[i]]
        /\ \A i, j \in 1 .. Len(r) : i < j => f[i] < f[j]
        /\ \A k \in K : \E i \in 1 .. Len(r) : f[i] = k
  BY <1>4 DEF PartOf
<1>7. DOMAIN r = 1 .. Len(r) /\ DOMAIN r \subseteq Nat
  BY <1>4
<1>8. f \in [DOMAIN r -> DOMAIN mainQ[d]]
  BY <1>3, <1>6, <1>7
<1>9. \A i \in DOMAIN r : r[i] = mainQ[d][f[i]] /\ r[i].tab # front[d]
  BY <1>1, <1>6, <1>7
<1>10. front[d] \in Tabs /\ Closed \in Screen
  BY DEF TypeOK, Closed, Screen
<1>11. /\ chat'[d][front[d]] = Closed
       /\ \A c \in Device, u \in Tabs : c # d \/ u # front[d] => chat'[c][u] = chat[c][u]
  <2>1. chat' = [chat EXCEPT ![d][front[d]] = Closed]
    BY DEF Back
  <2>2. /\ chat' \in [Device -> [Tabs -> Screen]] /\ chat'[d][front[d]] = Closed
        /\ \A c \in Device, u \in Tabs : c # d \/ u # front[d] => chat'[c][u] = chat[c][u]
    BY ZenonT(30), <1>10, <2>1, ScreenSet
  <2> QED  BY <2>2
<1>12. \A k \in DOMAIN mainQ[d] : mainQ[d][k].tab # front[d] => \E i \in DOMAIN r : f[i] = k
  BY <1>1, <1>6, <1>7
<1>13. \A i, j \in DOMAIN r : i < j => f[i] < f[j]
  BY <1>6, <1>7
<1>14. \E g \in [DOMAIN mainQ'[d] -> DOMAIN mainQ[d]] :
       /\ \A i \in DOMAIN mainQ'[d] :
            mainQ'[d][i] = mainQ[d][g[i]] /\ mainQ'[d][i].tab # front[d]
       /\ \A i, j \in DOMAIN mainQ'[d] : i < j => g[i] < g[j]
       /\ \A k \in DOMAIN mainQ[d] : mainQ[d][k].tab # front[d] => \E i \in DOMAIN mainQ'[d] : g[i] = k
  BY <1>5, <1>8, <1>9, <1>12, <1>13
<1> QED  BY <1>5, <1>7, <1>10, <1>11, <1>14 DEF Popped, Back

(* The process of a device has ended: nothing is open, nothing waits.      *)
Ended(d) ==
  /\ \A c \in Device \ {d} : /\ chat'[c] = chat[c] /\ mainQ'[c] = mainQ[c]
                            /\ known'[c] = known[c] /\ outbox'[c] = outbox[c]
                            /\ observed'[c] = observed[c] /\ synced'[c] = synced[c]
                            /\ visitor'[c] = visitor[c]
  /\ \A t \in Tabs : chat'[d][t] = Closed
  /\ DOMAIN mainQ'[d] = {} /\ known'[d] = {} /\ DOMAIN outbox'[d] = {} /\ observed'[d] = {}
  /\ synced'[d] = {}
  /\ UNCHANGED <<serverVars, sent, cuts>> /\ kills < MaxKills

LEMMA EndedByKill ==
  ASSUME TypeOK, NEW d \in Device, Kill(d)
  PROVE  Ended(d)
<1>1. DOMAIN <<>> = {}
  OBVIOUS
<1> QED  BY <1>1 DEF Kill, TypeOK, Ended
=============================================================================
