-------------------------- MODULE ChatScreenProofs --------------------------
(***************************************************************************)
(* What the screens of the chats show, for all students, devices, tabs and *)
(* bounds: the messages of the conversation, once, in order and on the     *)
(* right side.                                                             *)
(***************************************************************************)
EXTENDS ChatProofs

-----------------------------------------------------------------------------
(* The line of a tab: its rows, and the events that wait to become rows.   *)

OnScreen(d, t, m) ==
  \E i \in DOMAIN chat[d][t].shown : chat[d][t].shown[i].msg = m

Waits(d, t, m) ==
  \E i \in DOMAIN mainQ[d] : mainQ[d][i].tab = t /\ mainQ[d][i].msg = m

Displayed(d, t, m) == OnScreen(d, t, m) \/ Waits(d, t, m)

(* m comes before n in the line of the tab. *)
RowAhead(d, t, m, n) ==
  \E i, j \in DOMAIN chat[d][t].shown :
    i < j /\ chat[d][t].shown[i].msg = m /\ chat[d][t].shown[j].msg = n

EventAhead(d, t, m, n) ==
  \E i, j \in DOMAIN mainQ[d] :
    /\ i < j /\ mainQ[d][i].tab = t /\ mainQ[d][i].msg = m
    /\ mainQ[d][j].tab = t /\ mainQ[d][j].msg = n

Ahead(d, t, m, n) ==
  \/ RowAhead(d, t, m, n) \/ EventAhead(d, t, m, n)
  \/ OnScreen(d, t, m) /\ Waits(d, t, n)

(* The messages M join the lines of the tabs T, at their ends and by their *)
(* keys.                                                                   *)
Joins(d, T, M) ==
  \A c \in Device, u \in Tabs :
    /\ \A m : Displayed(c, u, m)' <=> (Displayed(c, u, m) \/ (c = d /\ u \in T /\ m \in M))
    /\ \A m, n : Ahead(c, u, m, n)' =>
         \/ Ahead(c, u, m, n)
         \/ /\ c = d /\ u \in T /\ n \in M
            /\ Displayed(c, u, m) \/ (m \in M /\ m # n /\ m.key <= n.key)

LEMMA LineJoined ==
  ASSUME TypeOK, NEW d \in Device, NEW T \in SUBSET Tabs, NEW M \in SUBSET Message,
         Queued(d, T, M),
         \A c \in Device, u \in Tabs : chat'[c][u].shown = chat[c][u].shown
  PROVE  Joins(d, T, M)
<1>1. ASSUME NEW c \in Device, NEW u \in Tabs, NEW m
      PROVE  OnScreen(c, u, m)' <=> OnScreen(c, u, m)
  BY DEF OnScreen
<1>2. ASSUME NEW c \in Device, NEW u \in Tabs, NEW m, NEW n
      PROVE  RowAhead(c, u, m, n)' <=> RowAhead(c, u, m, n)
  BY DEF RowAhead
<1>3. ASSUME NEW c \in Device \ {d}, NEW u, NEW m, NEW n
      PROVE  /\ Waits(c, u, m)' <=> Waits(c, u, m)
             /\ EventAhead(c, u, m, n)' <=> EventAhead(c, u, m, n)
  BY DEF Queued, Waits, EventAhead
<1>4. PICK old, new : old = mainQ[d] /\ new = mainQ'[d]
  OBVIOUS
<1>5. /\ DOMAIN old = 1 .. Len(old) /\ Len(old) \in Nat /\ DOMAIN new \subseteq Nat
      /\ \A i \in DOMAIN old : i \in DOMAIN new /\ new[i] = old[i]
      /\ \A i \in DOMAIN new : \/ i \in DOMAIN old /\ new[i] = old[i]
                               \/ i > Len(old) /\ new[i].tab \in T /\ new[i].msg \in M
      /\ \A i, j \in DOMAIN new :
           i > Len(old) /\ j > Len(old) /\ new[i].tab = new[j].tab /\ new[i].msg = new[j].msg => i = j
      /\ \A i, j \in DOMAIN new : i > Len(old) /\ i < j => new[i].msg.key <= new[j].msg.key
      /\ \A t \in T, m \in M : \E i \in DOMAIN new : new[i].tab = t /\ new[i].msg = m
  BY <1>4 DEF Queued
<1>6. ASSUME NEW u, NEW m
      PROVE  /\ Waits(d, u, m) <=> \E i \in DOMAIN old : old[i].tab = u /\ old[i].msg = m
             /\ Waits(d, u, m)' <=> \E i \in DOMAIN new : new[i].tab = u /\ new[i].msg = m
  BY <1>4 DEF Waits
<1>7. ASSUME NEW u, NEW m
      PROVE  Waits(d, u, m)' <=> (Waits(d, u, m) \/ (u \in T /\ m \in M))
  BY <1>5, <1>6
<1>8. ASSUME NEW u, NEW m, NEW n, EventAhead(d, u, m, n)'
      PROVE  \/ EventAhead(d, u, m, n)
             \/ /\ u \in T /\ n \in M
                /\ Waits(d, u, m) \/ (m \in M /\ m # n /\ m.key <= n.key)
  <2>1. PICK i \in DOMAIN new, j \in DOMAIN new :
          /\ i < j /\ new[i].tab = u /\ new[i].msg = m
          /\ new[j].tab = u /\ new[j].msg = n
    BY <1>4, <1>8 DEF EventAhead
  <2>2. CASE j \in DOMAIN old
    <3>1. i \in DOMAIN old
      BY <1>5, <2>1, <2>2
    <3>2. /\ i < j /\ old[i].tab = u /\ old[i].msg = m
          /\ old[j].tab = u /\ old[j].msg = n
      BY <1>5, <2>1, <2>2, <3>1
    <3> QED  BY <1>4, <2>2, <3>1, <3>2 DEF EventAhead
  <2>3. CASE j \notin DOMAIN old
    <3>1. j > Len(old) /\ u \in T /\ n \in M
      BY <1>5, <2>1, <2>3
    <3>2. CASE i \in DOMAIN old
      BY <1>5, <1>6, <2>1, <3>1, <3>2
    <3>3. CASE i \notin DOMAIN old
      <4>1. i > Len(old) /\ m \in M
        BY <1>5, <2>1, <3>3
      <4>2. m # n
        BY <1>5, <2>1, <3>1, <4>1
      <4> QED  BY <1>5, <2>1, <3>1, <4>1, <4>2
    <3> QED  BY <3>2, <3>3
  <2> QED  BY <2>2, <2>3
<1>9. ASSUME NEW c \in Device, NEW u \in Tabs, NEW m
      PROVE  Displayed(c, u, m)' <=> (Displayed(c, u, m) \/ (c = d /\ u \in T /\ m \in M))
  BY <1>1, <1>3, <1>7 DEF Displayed
<1>10. ASSUME NEW c \in Device, NEW u \in Tabs, NEW m, NEW n, Ahead(c, u, m, n)'
       PROVE  \/ Ahead(c, u, m, n)
              \/ /\ c = d /\ u \in T /\ n \in M
                 /\ Displayed(c, u, m) \/ (m \in M /\ m # n /\ m.key <= n.key)
  <2>1. CASE c # d
    BY <1>1, <1>2, <1>3, <1>10, <2>1 DEF Ahead
  <2>2. CASE c = d
    BY <1>1, <1>2, <1>7, <1>8, <1>10, <2>2 DEF Ahead, Displayed
  <2> QED  BY <2>1, <2>2
<1> QED  BY <1>9, <1>10 DEF Joins

(* The first event becomes the last row: no line changes.                  *)
Moves ==
  \A c \in Device, u \in Tabs :
    /\ \A m : Displayed(c, u, m)' <=> Displayed(c, u, m)
    /\ \A m, n : Ahead(c, u, m, n)' => Ahead(c, u, m, n)

LEMMA LineMoved ==
  ASSUME TypeOK, NEW d \in Device, NEW e \in Event, NEW r \in Row, RowAdded(d, e, r)
  PROVE  Moves
<1>1. PICK old, new : old = mainQ[d] /\ new = mainQ'[d]
  OBVIOUS
<1>2. PICK rows, more : rows = chat[d][e.tab].shown /\ more = chat'[d][e.tab].shown
  OBVIOUS
<1>3. /\ 1 \in DOMAIN old /\ e = old[1] /\ r.msg = e.msg /\ e.tab \in Tabs
      /\ \A i \in DOMAIN new : /\ i \in Nat /\ i + 1 \in DOMAIN old /\ i + 1 # 1
                               /\ new[i] = old[i + 1]
      /\ \A k \in DOMAIN old : k = 1 \/ (k - 1 \in DOMAIN new /\ new[k - 1] = old[k])
  <2>1. /\ 1 \in DOMAIN old /\ e = old[1]
        /\ \A i \in DOMAIN new : /\ i \in Nat /\ i + 1 \in DOMAIN old /\ i + 1 # 1
                                 /\ new[i] = old[i + 1]
        /\ \A k \in DOMAIN old : k = 1 \/ (k - 1 \in DOMAIN new /\ new[k - 1] = old[k])
    BY <1>1 DEF RowAdded
  <2>2. r = [msg |-> e.msg, as |-> Author(d, e.msg)]
    BY DEF RowAdded
  <2>3. e.tab \in Tabs
    BY DEF Event
  <2> QED  BY <2>1, <2>2, <2>3
<1>4. DOMAIN old \subseteq Nat \ {0}
  <2>1. old \in Seq(Event)
    BY <1>1 DEF TypeOK
  <2> QED  BY <2>1
<1>5. /\ Len(rows) \in Nat /\ DOMAIN rows = 1 .. Len(rows)
      /\ more[Len(rows) + 1] = r /\ Len(rows) + 1 \in DOMAIN more
      /\ \A i \in DOMAIN rows : i \in DOMAIN more /\ more[i] = rows[i]
      /\ \A i \in DOMAIN more : \/ i \in DOMAIN rows /\ more[i] = rows[i] /\ i < Len(rows) + 1
                                \/ i = Len(rows) + 1 /\ more[i] = r
  BY <1>2 DEF RowAdded
<1>6. ASSUME NEW c \in Device, NEW u \in Tabs, c # d \/ u # e.tab, NEW m, NEW n
      PROVE  /\ OnScreen(c, u, m)' <=> OnScreen(c, u, m)
             /\ RowAhead(c, u, m, n)' <=> RowAhead(c, u, m, n)
  <2>1. chat'[c][u] = chat[c][u]
    BY <1>6 DEF RowAdded
  <2> QED  BY <2>1 DEF OnScreen, RowAhead
<1>7. ASSUME NEW c \in Device \ {d}, NEW u, NEW m, NEW n
      PROVE  /\ Waits(c, u, m)' <=> Waits(c, u, m)
             /\ EventAhead(c, u, m, n)' <=> EventAhead(c, u, m, n)
  <2>1. mainQ'[c] = mainQ[c]
    BY DEF RowAdded
  <2> QED  BY <2>1 DEF Waits, EventAhead
<1>8. ASSUME NEW u, NEW m
      PROVE  /\ Waits(d, u, m) <=> \E i \in DOMAIN old : old[i].tab = u /\ old[i].msg = m
             /\ Waits(d, u, m)' <=> \E i \in DOMAIN new : new[i].tab = u /\ new[i].msg = m
  BY <1>1 DEF Waits
<1>9. ASSUME NEW u, NEW m
      PROVE  Waits(d, u, m) <=> (Waits(d, u, m)' \/ (u = e.tab /\ m = e.msg))
  BY <1>3, <1>4, <1>8
<1>10. ASSUME NEW u, NEW m, NEW n
       PROVE  /\ EventAhead(d, u, m, n)' => EventAhead(d, u, m, n)
              /\ Waits(d, u, n)' /\ u = e.tab => EventAhead(d, u, e.msg, n)
  <2>1. ASSUME EventAhead(d, u, m, n)' PROVE EventAhead(d, u, m, n)
    <3>1. PICK i \in DOMAIN new, j \in DOMAIN new :
            /\ i < j /\ new[i].tab = u /\ new[i].msg = m
            /\ new[j].tab = u /\ new[j].msg = n
      BY <1>1, <2>1 DEF EventAhead
    <3>2. /\ i + 1 \in DOMAIN old /\ j + 1 \in DOMAIN old /\ i + 1 < j + 1
          /\ new[i] = old[i + 1] /\ new[j] = old[j + 1]
      BY <1>3, <3>1
    <3> QED  BY <1>1, <3>1, <3>2 DEF EventAhead
  <2>2. ASSUME Waits(d, u, n)', u = e.tab PROVE EventAhead(d, u, e.msg, n)
    <3>1. PICK j \in DOMAIN new : new[j].tab = u /\ new[j].msg = n
      BY <1>8, <2>2
    <3>2. /\ 1 \in DOMAIN old /\ j + 1 \in DOMAIN old /\ 1 < j + 1
          /\ new[j] = old[j + 1]
      BY <1>3, <1>4, <3>1
    <3> QED  BY <1>1, <1>3, <2>2, <3>1, <3>2 DEF EventAhead
  <2> QED  BY <2>1, <2>2
<1>11. ASSUME NEW m
       PROVE  /\ OnScreen(d, e.tab, m) <=> \E i \in DOMAIN rows : rows[i].msg = m
              /\ OnScreen(d, e.tab, m)' <=> \E i \in DOMAIN more : more[i].msg = m
  BY <1>2 DEF OnScreen
<1>12. ASSUME NEW m
       PROVE  OnScreen(d, e.tab, m)' <=> (OnScreen(d, e.tab, m) \/ m = e.msg)
  BY <1>3, <1>5, <1>11
<1>13. ASSUME NEW m, NEW n, RowAhead(d, e.tab, m, n)'
       PROVE  RowAhead(d, e.tab, m, n) \/ (OnScreen(d, e.tab, m) /\ n = e.msg)
  <2>1. PICK i \in DOMAIN more, j \in DOMAIN more :
          i < j /\ more[i].msg = m /\ more[j].msg = n
    BY <1>2, <1>13 DEF RowAhead
  <2>2. i \in DOMAIN rows /\ more[i] = rows[i]
    BY <1>5, <2>1
  <2>3. CASE j \in DOMAIN rows
    BY <1>2, <1>5, <2>1, <2>2, <2>3 DEF RowAhead
  <2>4. CASE j \notin DOMAIN rows
    BY <1>3, <1>5, <1>11, <2>1, <2>2, <2>4
  <2> QED  BY <2>3, <2>4
<1>14. ASSUME NEW c \in Device, NEW u \in Tabs, NEW m
       PROVE  Displayed(c, u, m)' <=> Displayed(c, u, m)
  <2>1. CASE c # d
    BY <1>6, <1>7, <2>1 DEF Displayed
  <2>2. CASE c = d /\ u # e.tab
    BY <1>6, <1>9, <2>2 DEF Displayed
  <2>3. CASE c = d /\ u = e.tab
    BY <1>9, <1>12, <2>3 DEF Displayed
  <2> QED  BY <2>1, <2>2, <2>3
<1>15. ASSUME NEW c \in Device, NEW u \in Tabs, NEW m, NEW n, Ahead(c, u, m, n)'
       PROVE  Ahead(c, u, m, n)
  <2>1. CASE c # d
    BY <1>6, <1>7, <1>15, <2>1 DEF Ahead
  <2>2. CASE c = d /\ u # e.tab
    BY <1>6, <1>9, <1>10, <1>15, <2>2 DEF Ahead
  <2>3. CASE c = d /\ u = e.tab
    BY <1>9, <1>10, <1>12, <1>13, <1>15, <2>3 DEF Ahead
  <2> QED  BY <2>1, <2>2, <2>3
<1> QED  BY <1>14, <1>15 DEF Moves

(* The lines of the tabs T are gone, the others are as they were.          *)
Leaves(d, T) ==
  \A c \in Device, u \in Tabs :
    /\ \A m : Displayed(c, u, m)' <=> (Displayed(c, u, m) /\ ~ (c = d /\ u \in T))
    /\ \A m, n : Ahead(c, u, m, n)' => Ahead(c, u, m, n)

LEMMA LinePopped ==
  ASSUME TypeOK, NEW d \in Device, Popped(d)
  PROVE  Leaves(d, {front[d]})
<1>1. PICK old, new : old = mainQ[d] /\ new = mainQ'[d]
  OBVIOUS
<1>0. PICK t : t = front[d]
  OBVIOUS
<1>2. PICK f \in [DOMAIN new -> DOMAIN old] :
        /\ \A i \in DOMAIN new : new[i] = old[f[i]] /\ new[i].tab # t
        /\ \A i, j \in DOMAIN new : i < j => f[i] < f[j]
        /\ \A k \in DOMAIN old : old[k].tab # t => \E i \in DOMAIN new : f[i] = k
  BY <1>0, <1>1 DEF Popped
<1>3. ASSUME NEW c \in Device, NEW u \in Tabs, c # d \/ u # t, NEW m, NEW n
      PROVE  /\ OnScreen(c, u, m)' <=> OnScreen(c, u, m)
             /\ RowAhead(c, u, m, n)' <=> RowAhead(c, u, m, n)
  <2>1. chat'[c][u] = chat[c][u]
    BY <1>0, <1>3 DEF Popped
  <2> QED  BY <2>1 DEF OnScreen, RowAhead
<1>4. ASSUME NEW m, NEW n
      PROVE  ~ OnScreen(d, t, m)' /\ ~ RowAhead(d, t, m, n)'
  <2>1. chat'[d][t].shown = <<>> /\ DOMAIN <<>> = {}
    BY <1>0 DEF Popped, Closed
  <2> QED  BY <2>1 DEF OnScreen, RowAhead
<1>5. ASSUME NEW c \in Device \ {d}, NEW u, NEW m, NEW n
      PROVE  /\ Waits(c, u, m)' <=> Waits(c, u, m)
             /\ EventAhead(c, u, m, n)' <=> EventAhead(c, u, m, n)
  BY DEF Popped, Waits, EventAhead
<1>6. ASSUME NEW u, NEW m
      PROVE  Waits(d, u, m)' <=> (Waits(d, u, m) /\ u # t)
  <2>1. /\ Waits(d, u, m) <=> \E i \in DOMAIN old : old[i].tab = u /\ old[i].msg = m
        /\ Waits(d, u, m)' <=> \E i \in DOMAIN new : new[i].tab = u /\ new[i].msg = m
    BY <1>1 DEF Waits
  <2> QED  BY <1>2, <2>1
<1>7. ASSUME NEW u, NEW m, NEW n, EventAhead(d, u, m, n)'
      PROVE  EventAhead(d, u, m, n) /\ u # t
  <2>1. PICK i \in DOMAIN new, j \in DOMAIN new :
          /\ i < j /\ new[i].tab = u /\ new[i].msg = m
          /\ new[j].tab = u /\ new[j].msg = n
    BY <1>1, <1>7 DEF EventAhead
  <2>2. /\ f[i] \in DOMAIN old /\ f[j] \in DOMAIN old /\ f[i] < f[j]
        /\ new[i] = old[f[i]] /\ new[j] = old[f[j]] /\ u # t
    BY <1>2, <2>1
  <2> QED  BY <1>1, <2>1, <2>2 DEF EventAhead
<1>8. t \in Tabs
  BY <1>0 DEF Popped
<1>9. ASSUME NEW c \in Device, NEW u \in Tabs, NEW m
      PROVE  Displayed(c, u, m)' <=> (Displayed(c, u, m) /\ ~ (c = d /\ u = t))
  BY <1>3, <1>4, <1>5, <1>6 DEF Displayed
<1>10. ASSUME NEW c \in Device, NEW u \in Tabs, NEW m, NEW n, Ahead(c, u, m, n)'
       PROVE  Ahead(c, u, m, n)
  <2>1. CASE c # d
    BY <1>3, <1>5, <1>10, <2>1 DEF Ahead
  <2>2. CASE c = d
    BY <1>3, <1>4, <1>6, <1>7, <1>10, <2>2 DEF Ahead
  <2> QED  BY <2>1, <2>2
<1> QED  BY <1>0, <1>9, <1>10 DEF Leaves

LEMMA LineEnded ==
  ASSUME NEW d \in Device, Ended(d)
  PROVE  Leaves(d, Tabs)
<1>1. ASSUME NEW c \in Device \ {d}, NEW u, NEW m, NEW n
      PROVE  /\ OnScreen(c, u, m)' <=> OnScreen(c, u, m)
             /\ RowAhead(c, u, m, n)' <=> RowAhead(c, u, m, n)
             /\ Waits(c, u, m)' <=> Waits(c, u, m)
             /\ EventAhead(c, u, m, n)' <=> EventAhead(c, u, m, n)
  BY DEF Ended, OnScreen, RowAhead, Waits, EventAhead
<1>2. ASSUME NEW u \in Tabs, NEW m, NEW n
      PROVE  /\ ~ OnScreen(d, u, m)' /\ ~ RowAhead(d, u, m, n)'
             /\ ~ Waits(d, u, m)' /\ ~ EventAhead(d, u, m, n)'
  <2>1. chat'[d][u].shown = <<>> /\ DOMAIN <<>> = {} /\ DOMAIN mainQ'[d] = {}
    BY DEF Ended, Closed
  <2> QED  BY <2>1 DEF OnScreen, RowAhead, Waits, EventAhead
<1> QED  BY <1>1, <1>2 DEF Leaves, Displayed, Ahead

-----------------------------------------------------------------------------
(* The messages under way: a message is written once by the device of its  *)
(* sender, and once it was rejected it is never stored.                    *)

Pending(d, m) ==
  \E i \in DOMAIN outbox[d] : outbox[d][i].what = "message" /\ outbox[d][i].of = m

Gone(d, m) == m.from = d /\ m \notin ToSet(log) /\ ~ Pending(d, m)

WriteInv ==
  /\ \A d \in Device : \A i, j \in DOMAIN outbox[d] :
       /\ outbox[d][i].what = "message" /\ outbox[d][j].what = "message"
       /\ outbox[d][i].of = outbox[d][j].of
       => i = j
  /\ \A d \in Device : \A m \in known[d] : m.from # d => m \in ToSet(log)

(* The log grows by messages that were under way; only a new message gets  *)
(* under way.                                                              *)
LEMMA MessagesMove ==
  ASSUME BaseInv, [Next]_vars
  PROVE  /\ sent \subseteq sent' /\ ToSet(log) \subseteq ToSet(log)'
         /\ \A m \in ToSet(log)' : m \in ToSet(log) \/ \E c \in Device : Pending(c, m)
         /\ \A c \in Device : \A m : Pending(c, m)' => Pending(c, m) \/ m \notin sent
<1>1. TypeOK /\ SentInv
  BY DEF BaseInv
<1>2. ASSUME \A c \in Device : \A i \in DOMAIN outbox'[c] :
               \E k \in DOMAIN outbox[c] : outbox'[c][i] = outbox[c][k]
      PROVE  \A c \in Device : \A m : Pending(c, m)' => Pending(c, m)
  BY <1>2 DEF Pending
<1>3. ASSUME NEW d \in Device, Send(d)
      PROVE  /\ sent \subseteq sent' /\ log' = log
             /\ \A c \in Device : \A m : Pending(c, m)' => Pending(c, m) \/ m \notin sent
  <2>1. PICK m \in Message, es \in Seq(Write) : Sends(d, m, es)
    BY <1>3, SendFacts
  <2>2. /\ \A c \in Device \ {d} : outbox'[c] = outbox[c]
        /\ \A i \in DOMAIN outbox'[d] :
              \/ i \in DOMAIN outbox[d] /\ outbox'[d][i] = outbox[d][i]
              \/ /\ i = Len(outbox[d]) + 1
                 /\ outbox'[d][i] = [what |-> "message", of |-> m]
              \/ /\ i > Len(outbox[d]) + 1 /\ IsFirst(d)
                 /\ outbox'[d][i].what = "entry"
                 /\ outbox'[d][i].of \in {<<d, visitor[d]>>, <<visitor[d], d>>}
    BY <2>1, SendsPart
  <2>3. m \notin sent /\ sent \subseteq sent' /\ log' = log
    BY <2>1 DEF Sends, NewKey, serverVars
  <2>4. ASSUME NEW n, Pending(d, n)' PROVE Pending(d, n) \/ n = m
    <3>1. PICK i \in DOMAIN outbox'[d] : outbox'[d][i].what = "message" /\ outbox'[d][i].of = n
      BY <2>4 DEF Pending
    <3>2. "message" # "entry"
      OBVIOUS
    <3> QED  BY <2>2, <3>1, <3>2 DEF Pending
  <2> QED  BY <2>2, <2>3, <2>4 DEF Pending
<1>4. ASSUME NEW d \in Device, Accept(d) \/ Reconnect(d)
      PROVE  /\ sent' = sent /\ ToSet(log) \subseteq ToSet(log)'
             /\ \A m \in ToSet(log)' : m \in ToSet(log) \/ Pending(d, m)
             /\ \A c \in Device : \A m : Pending(c, m)' => Pending(c, m)
  <2>1. PICK n \in 0 .. Len(outbox[d]), ms \in Seq(Message) :
          Serves(d, n, ms) /\ (Answers(d, n) \/ Relistens(d))
    BY <1>1, <1>4, ServerFacts
  <2>2. sent' = sent
    BY <2>1 DEF Answers, Relistens
  <2>3. ToSet(log)' = ToSet(log) \cup ToSet(ms)
    BY <1>1, <2>1, ToSetCat DEF Serves, TypeOK
  <2>4. ASSUME NEW i \in 1 .. Len(ms) PROVE Pending(d, ms[i])
    <3>1. PICK k \in 1 .. n : outbox[d][k].what = "message" /\ outbox[d][k].of = ms[i]
      BY <2>1 DEF Serves
    <3>2. k \in DOMAIN outbox[d]
      BY <1>1 DEF TypeOK
    <3> QED  BY <3>1, <3>2 DEF Pending
  <2>5. \A m \in ToSet(ms) : Pending(d, m)
    BY <2>4 DEF ToSet
  <2>6. \A c \in Device : \A i \in DOMAIN outbox'[c] :
          \E k \in DOMAIN outbox[c] : outbox'[c][i] = outbox[c][k]
    BY <1>1, <2>1, TailPart DEF Answers, Relistens
  <2> QED  BY <1>2, <2>2, <2>3, <2>5, <2>6
<1>5. ASSUME UNCHANGED <<sent, log>>,
             \A c \in Device : \A m : Pending(c, m)' => Pending(c, m)
      PROVE  /\ sent \subseteq sent' /\ ToSet(log) \subseteq ToSet(log)'
             /\ \A m \in ToSet(log)' : m \in ToSet(log)
             /\ \A c \in Device : \A m : Pending(c, m)' => Pending(c, m)
  BY <1>5 DEF ToSet
<1>6. ASSUME NEW d \in Device, Reject(d)
      PROVE  UNCHANGED <<sent, log>> /\ \A c \in Device : \A m : Pending(c, m)' => Pending(c, m)
  <2>1. \A c \in Device : \A i \in DOMAIN outbox'[c] :
          \E k \in DOMAIN outbox[c] : outbox'[c][i] = outbox[c][k]
    BY <1>1, <1>6, TailPart DEF Reject
  <2> QED  BY <1>2, <1>6, <2>1 DEF Reject, serverVars
<1>7. ASSUME NEW d \in Device, Kill(d)
      PROVE  UNCHANGED <<sent, log>> /\ \A c \in Device : \A m : Pending(c, m)' => Pending(c, m)
  <2>1. \A c \in Device : outbox'[c] = outbox[c] \/ DOMAIN outbox'[c] = {}
    BY <1>1, <1>7, EndedByKill DEF Ended
  <2>2. \A c \in Device : \A i \in DOMAIN outbox'[c] :
          \E k \in DOMAIN outbox[c] : outbox'[c][i] = outbox[c][k]
    BY <2>1
  <2> QED  BY <1>2, <1>7, <2>2 DEF Kill, serverVars
<1>8. ASSUME UNCHANGED <<sent, log, outbox>>
      PROVE  UNCHANGED <<sent, log>> /\ \A c \in Device : \A m : Pending(c, m)' => Pending(c, m)
  BY <1>8 DEF Pending
<1>9. ASSUME NEW d \in Device, \/ Select(d) \/ Back(d) \/ SwitchTab(d) \/ RunEvent(d)
                               \/ ShowRow(d) \/ Sync(d) \/ Arrive(d)
      PROVE  UNCHANGED <<sent, log, outbox>>
  BY <1>9
  DEF Select, Back, SwitchTab, RunEvent, ShowRow, Sync, Arrive, serverVars, clientVars
<1>10. CASE UNCHANGED vars
  <2>1. UNCHANGED <<sent, log, outbox>>
    BY <1>10 DEF vars, serverVars, clientVars
  <2> QED  BY <1>5, <1>8, <2>1
<1>11. CASE \E d \in Device : Send(d)
  BY <1>3, <1>11
<1>12. CASE \E d \in Device : Accept(d) \/ Reconnect(d)
  BY <1>4, <1>12
<1>13. CASE \E d \in Device : \/ Select(d) \/ Back(d) \/ SwitchTab(d) \/ RunEvent(d)
                              \/ ShowRow(d) \/ Sync(d) \/ Arrive(d)
                              \/ Reject(d) \/ Kill(d)
  BY <1>5, <1>6, <1>7, <1>8, <1>9, <1>13
<1> QED  BY <1>10, <1>11, <1>12, <1>13 DEF Next

LEMMA GoneForGood ==
  ASSUME BaseInv, [Next]_vars, NEW d \in Device, NEW m \in sent, Gone(d, m)
  PROVE  Gone(d, m)'
<1>1. /\ \A n \in ToSet(log)' : n \in ToSet(log) \/ \E c \in Device : Pending(c, n)
      /\ \A c \in Device : \A n : Pending(c, n)' => Pending(c, n) \/ n \notin sent
  BY MessagesMove
<1>2. \A c \in Device : Pending(c, m) => c = d
  BY DEF Pending, Gone, BaseInv, SentInv
<1> QED  BY <1>1, <1>2 DEF Gone

(* What a device forgets but at its end is never stored.                   *)
LEMMA RejectFacts ==
  ASSUME BaseInv, WriteInv, NEW d \in Device, Reject(d)
  PROVE  /\ \A c \in Device : known'[c] \subseteq known[c]
         /\ \A c \in Device : \A m \in known[c] : m \in known'[c] \/ (c = d /\ Gone(d, m)')
         /\ \A m \in known[d] : m.from # d => m \in known'[d]
<1>1. TypeOK /\ SentInv
  BY DEF BaseInv
<1>2. PICK w : w = Head(outbox[d])
  OBVIOUS
<1>3. outbox[d] \in Seq(Write) /\ outbox[d] # <<>> /\ outbox' = [outbox EXCEPT ![d] = Tail(@)]
  BY <1>1 DEF Reject, TypeOK
<1>4. w = outbox[d][1] /\ 1 \in DOMAIN outbox[d] /\ w \in Write
  BY <1>2, <1>3
<1>5. known' = [known EXCEPT ![d] = {m \in @ : ~ (w.what = "message" /\ w.of = m)}] /\ ~ Stores(w)
  BY <1>2 DEF Reject
<1>6. \A c \in Device : known'[c] \subseteq known[c]
  BY <1>1, <1>5 DEF TypeOK
<1>7. ASSUME NEW c \in Device, NEW m \in known[c], m \notin known'[c]
      PROVE  c = d /\ w.what = "message" /\ w.of = m
  BY <1>1, <1>5, <1>7 DEF TypeOK
<1>8. ASSUME NEW m, w.what = "message", w.of = m PROVE Gone(d, m)' /\ m.from = d
  <2>1. m.from = d
    BY <1>1, <1>4, <1>8 DEF SentInv
  <2>2. m \notin ToSet(log) /\ log' = log
    BY <1>4, <1>5, <1>8, WriteKinds DEF Reject, serverVars
  <2>3. \A i \in DOMAIN outbox'[d] :
          i \in Nat /\ i + 1 \in DOMAIN outbox[d] /\ outbox'[d][i] = outbox[d][i + 1]
    BY <1>1, <1>3, TailPart
  <2>4. DOMAIN outbox[d] \subseteq Nat \ {0}
    BY <1>3
  <2>5. ASSUME NEW i \in DOMAIN outbox'[d], outbox'[d][i].what = "message", outbox'[d][i].of = m
        PROVE  FALSE
    <3>1. i + 1 \in DOMAIN outbox[d] /\ outbox'[d][i] = outbox[d][i + 1] /\ i \in Nat
      BY <2>3
    <3>2. i + 1 = 1
      BY <1>4, <1>8, <2>5, <3>1 DEF WriteInv
    <3>3. i = 0 /\ i # 0
      <4>1. DOMAIN outbox'[d] \subseteq Nat \ {0}
        <5>1. outbox'[d] = Tail(outbox[d])
          BY <1>1, <1>3 DEF TypeOK
        <5>2. Tail(outbox[d]) \in Seq(Write)
          BY <1>3
        <5> QED  BY <5>1, <5>2
      <4> QED  BY <3>1, <3>2, <4>1
    <3> QED  BY <3>3
  <2> QED  BY <2>1, <2>2, <2>5 DEF Gone, Pending
<1> QED  BY <1>6, <1>7, <1>8

LEMMA InitWrite == Init => WriteInv
<1>1. DOMAIN <<>> = {}
  OBVIOUS
<1> QED  BY <1>1 DEF Init, WriteInv

LEMMA StepWrite == BaseInv /\ WriteInv /\ [Next]_vars => WriteInv'
<1> SUFFICES ASSUME BaseInv, WriteInv, [Next]_vars PROVE WriteInv'
  OBVIOUS
<1> DEFINE Twice(c) ==
      \A i, j \in DOMAIN outbox[c] :
         /\ outbox[c][i].what = "message" /\ outbox[c][j].what = "message"
         /\ outbox[c][i].of = outbox[c][j].of
         => i = j
<1>1. TypeOK /\ SentInv
  BY DEF BaseInv
<1>2. ToSet(log) \subseteq ToSet(log)'
  BY MessagesMove
<1>3. \A c \in Device : Twice(c)
  BY DEF WriteInv
<1>4. ASSUME \A c \in Device : Twice(c)',
             \A c \in Device : \A m \in known'[c] :
               m.from # c => m \in known[c] \/ m \in ToSet(log)'
      PROVE  WriteInv'
  BY <1>2, <1>4 DEF WriteInv
<1>5. ASSUME NEW c \in Device, outbox'[c] = outbox[c] PROVE Twice(c)'
  BY <1>3, <1>5
<1>6. ASSUME NEW d \in Device, outbox[d] # <<>>, outbox' = [outbox EXCEPT ![d] = Tail(@)]
      PROVE  \A c \in Device : Twice(c)'
  <2>1. /\ \A c \in Device \ {d} : outbox'[c] = outbox[c]
        /\ \A i \in DOMAIN outbox'[d] :
             i \in Nat /\ i + 1 \in DOMAIN outbox[d] /\ outbox'[d][i] = outbox[d][i + 1]
    BY <1>1, <1>6, TailPart
  <2>2. ASSUME NEW i \in DOMAIN outbox'[d], NEW j \in DOMAIN outbox'[d],
               outbox'[d][i].what = "message", outbox'[d][j].what = "message",
               outbox'[d][i].of = outbox'[d][j].of
        PROVE  i = j
    <3>1. /\ i \in Nat /\ i + 1 \in DOMAIN outbox[d] /\ outbox'[d][i] = outbox[d][i + 1]
          /\ j \in Nat /\ j + 1 \in DOMAIN outbox[d] /\ outbox'[d][j] = outbox[d][j + 1]
      BY <2>1
    <3>2. i + 1 = j + 1
      BY <1>3, <2>2, <3>1
    <3> QED  BY <3>1, <3>2
  <2> QED  BY <1>5, <2>1, <2>2
<1>7. ASSUME NEW d \in Device, Send(d) PROVE WriteInv'
  <2>1. PICK m \in Message, es \in Seq(Write) : Sends(d, m, es)
    BY <1>7, SendFacts
  <2>2. /\ \A c \in Device \ {d} : outbox'[c] = outbox[c]
        /\ \A i \in DOMAIN outbox'[d] :
              \/ i \in DOMAIN outbox[d] /\ outbox'[d][i] = outbox[d][i]
              \/ /\ i = Len(outbox[d]) + 1
                 /\ outbox'[d][i] = [what |-> "message", of |-> m]
              \/ /\ i > Len(outbox[d]) + 1 /\ IsFirst(d)
                 /\ outbox'[d][i].what = "entry"
                 /\ outbox'[d][i].of \in {<<d, visitor[d]>>, <<visitor[d], d>>}
    BY <2>1, SendsPart
  <2>3. m \notin sent /\ m.from = d
    BY <2>1 DEF Sends, NewKey
  <2>4. \A i \in DOMAIN outbox'[d] : outbox'[d][i].what = "message" =>
           \/ i \in DOMAIN outbox[d] /\ outbox'[d][i] = outbox[d][i] /\ outbox'[d][i].of # m
           \/ i = Len(outbox[d]) + 1 /\ outbox'[d][i].of = m
    <3>1. "message" # "entry"
      OBVIOUS
    <3> QED  BY <1>1, <2>2, <2>3, <3>1 DEF SentInv
  <2>5. Twice(d)'
    BY <1>3, <2>4
  <2>6. \A c \in Device : \A n \in known'[c] : n.from # c => n \in known[c]
    BY <1>1, <2>1, <2>3 DEF Sends, TypeOK
  <2> QED  BY <1>4, <1>5, <2>2, <2>5, <2>6
<1>8. ASSUME NEW d \in Device, Sync(d) \/ Arrive(d) PROVE WriteInv'
  <2>1. PICK p \in User, new \in SUBSET sent : Learns(d, p, new)
    BY <1>8, LearnFacts
  <2>2. outbox' = outbox /\ log' = log
    BY <2>1 DEF Learns, serverVars
  <2>3. \A c \in Device : \A m \in known'[c] : m \in known[c] \/ m \in ToSet(log)
    BY <1>1, <2>1 DEF Learns, Stored, TypeOK
  <2> QED  BY <1>2, <1>4, <1>5, <2>2, <2>3
<1>9. ASSUME NEW d \in Device, Accept(d) \/ Reconnect(d) PROVE WriteInv'
  <2>1. PICK n \in 0 .. Len(outbox[d]), ms \in Seq(Message) :
          Serves(d, n, ms) /\ (Answers(d, n) \/ Relistens(d))
    BY <1>1, <1>9, ServerFacts
  <2>2. known' = known
    BY <2>1 DEF Answers, Relistens
  <2>3. CASE Answers(d, n)
    BY <1>4, <1>6, <2>2, <2>3 DEF Answers
  <2>4. CASE Relistens(d)
    BY <1>4, <1>5, <2>2, <2>4 DEF Relistens
  <2> QED  BY <2>1, <2>3, <2>4
<1>10. ASSUME NEW d \in Device, Reject(d) PROVE WriteInv'
  <2>1. outbox[d] # <<>> /\ outbox' = [outbox EXCEPT ![d] = Tail(@)]
    BY <1>10 DEF Reject
  <2>2. \A c \in Device : known'[c] \subseteq known[c]
    BY <1>10, RejectFacts
  <2> QED  BY <1>4, <1>6, <2>1, <2>2
<1>11. ASSUME NEW d \in Device, Kill(d) PROVE WriteInv'
  <2>1. Ended(d)
    BY <1>1, <1>11, EndedByKill
  <2>2. \A c \in Device : Twice(c)'
    BY <1>3, <2>1 DEF Ended
  <2>3. \A c \in Device : known'[c] \subseteq known[c]
    BY <2>1 DEF Ended
  <2> QED  BY <1>4, <2>2, <2>3
<1>12. ASSUME UNCHANGED <<outbox, known>> PROVE WriteInv'
  BY <1>4, <1>5, <1>12
<1>13. ASSUME NEW d \in Device, \/ Select(d) \/ Back(d) \/ SwitchTab(d) \/ RunEvent(d)
                                \/ ShowRow(d)
       PROVE  WriteInv'
  BY <1>12, <1>13 DEF Select, Back, SwitchTab, RunEvent, ShowRow, clientVars
<1>14. CASE UNCHANGED vars
  BY <1>12, <1>14 DEF vars, clientVars
<1> QED
  BY <1>7, <1>8, <1>9, <1>10, <1>11, <1>13, <1>14 DEF Next

-----------------------------------------------------------------------------
(* What a chat shows: the messages of its conversation that the device     *)
(* knows, each once.  What it shows and the device does not know was       *)
(* rejected, so that it cannot come again.                                 *)

ClosedEmpty ==
  \A d \in Device, t \in Tabs : chat[d][t].peer = None => chat[d][t].shown = <<>>

PeersObserved ==
  \A d \in Device, t \in Tabs : chat[d][t].peer # None => chat[d][t].peer \in observed[d]

Displays ==
  \A d \in Device, t \in Tabs : \A m \in Message : Displayed(d, t, m) =>
    /\ chat[d][t].peer # None /\ m \in Between(d, chat[d][t].peer) /\ m \in sent
    /\ m \in known[d] \/ Gone(d, m)
    /\ m.from # d => m \in known[d]

Covers ==
  \A d \in Device, t \in Tabs : chat[d][t].peer # None =>
    \A m \in known[d] \cap Between(d, chat[d][t].peer) : Displayed(d, t, m)

Once == \A d \in Device, t \in Tabs : \A m \in Message : ~ Ahead(d, t, m, m)

WindowInv == ClosedEmpty /\ PeersObserved /\ Displays /\ Covers /\ Once

LEMMA LineType ==
  ASSUME TypeOK, NEW d \in Device, NEW t \in Tabs, NEW m, NEW n
  PROVE  /\ Displayed(d, t, m) => m \in Message
         /\ Ahead(d, t, m, n) => Displayed(d, t, m) /\ Displayed(d, t, n)
<1>1. chat[d][t].shown \in Seq(Row) /\ mainQ[d] \in Seq(Event)
  BY DEF TypeOK, Screen
<1>2. \A i \in DOMAIN chat[d][t].shown : chat[d][t].shown[i].msg \in Message
  <2>1. \A i \in DOMAIN chat[d][t].shown : chat[d][t].shown[i] \in Row
    BY <1>1
  <2> QED  BY <2>1 DEF Row
<1>3. \A i \in DOMAIN mainQ[d] : mainQ[d][i].msg \in Message
  <2>1. \A i \in DOMAIN mainQ[d] : mainQ[d][i] \in Event
    BY <1>1
  <2> QED  BY <2>1 DEF Event
<1>4. Displayed(d, t, m) => m \in Message
  BY <1>2, <1>3 DEF Displayed, OnScreen, Waits
<1>5. Ahead(d, t, m, n) => Displayed(d, t, m) /\ Displayed(d, t, n)
  BY DEF Ahead, RowAhead, EventAhead, Displayed, OnScreen, Waits
<1> QED  BY <1>4, <1>5

(* A message belongs to one conversation of its device. *)
LEMMA OnePeer ==
  ASSUME NEW d, NEW p, NEW q, NEW m, m \in Between(d, p), m \in Between(d, q), m.from # m.to
  PROVE  p = q /\ p # d
BY DEF Between

LEMMA InitWindow == Init => WindowInv
<1> SUFFICES ASSUME Init PROVE WindowInv
  OBVIOUS
<1>1. Closed.peer = None /\ Closed.shown = <<>> /\ DOMAIN <<>> = {}
  BY DEF Closed
<1>2. \A d \in Device, t \in Tabs :
        chat[d][t] = Closed /\ mainQ[d] = <<>> /\ known[d] = {}
  BY DEF Init
<1>3. \A d \in Device, t \in Tabs : \A m, n : ~ Displayed(d, t, m) /\ ~ Ahead(d, t, m, n)
  BY <1>1, <1>2 DEF Displayed, Ahead, OnScreen, Waits, RowAhead, EventAhead
<1> QED
  BY <1>1, <1>2, <1>3 DEF WindowInv, ClosedEmpty, PeersObserved, Displays, Covers, Once

(* How sending, learning and opening change the lines.                     *)
LEMMA SendJoins ==
  ASSUME BaseInv, NEW d \in Device, NEW m \in Message, NEW es, Sends(d, m, es)
  PROVE  Joins(d, TabsWith(d, m.to), {m})
<1>1. TypeOK
  BY DEF BaseInv
<1>2. IsFiniteSet({m}) /\ {m} \in SUBSET Message
  BY FS_Singleton
<1>3. Queued(d, TabsWith(d, m.to), {m})
  BY <1>1, <1>2, QueuedByRaise, TabsWithTabs DEF Sends, Events
<1>4. \A c \in Device, u \in Tabs : chat'[c][u].shown = chat[c][u].shown
  BY DEF Sends, screenVars
<1> QED  BY <1>1, <1>2, <1>3, <1>4, TabsWithTabs, LineJoined

LEMMA LearnJoins ==
  ASSUME BaseInv, NEW d \in Device, NEW p \in User, NEW new \in SUBSET sent, Learns(d, p, new)
  PROVE  Joins(d, TabsWith(d, p), new)
<1>1. TypeOK
  BY DEF BaseInv
<1>2. IsFiniteSet(new) /\ new \in SUBSET Message
  BY <1>1 DEF Learns, TypeOK
<1>3. Queued(d, TabsWith(d, p), new)
  BY <1>1, <1>2, QueuedByRaise, TabsWithTabs DEF Learns, Events
<1>4. \A c \in Device, u \in Tabs : chat'[c][u].shown = chat[c][u].shown
  BY DEF Learns, screenVars
<1> QED  BY <1>1, <1>2, <1>3, <1>4, TabsWithTabs, LineJoined

LEMMA OpenJoins ==
  ASSUME BaseInv, WindowInv, NEW d \in Device, NEW p \in User \ {d},
         Selects(d, p), Opens(d, p)
  PROVE  /\ front[d] \in Tabs /\ \A m : ~ Displayed(d, front[d], m)
         /\ Joins(d, {front[d]}, Told(d, p)) /\ Told(d, p) \in SUBSET sent
         /\ chat'[d][front[d]] = Opened(p)
         /\ \A c \in Device, u \in Tabs : c # d \/ u # front[d] => chat'[c][u] = chat[c][u]
<1>1. TypeOK
  BY DEF BaseInv
<1>2. PICK f \in Tabs : f = front[d]
  BY <1>1 DEF TypeOK
<1>3. chat[d][f].peer = None /\ p # None
  BY <1>2, ChatAssumption DEF Selects
<1>4. PICK s \in Screen : s = Opened(p) /\ s.peer = p /\ s.shown = <<>>
  <2>1. Opened(p) \in Screen /\ Opened(p).peer = p /\ Opened(p).shown = <<>>
    BY DEF Opened, Screen
  <2> QED  BY <2>1
<1>5. /\ chat'[d][f] = s
      /\ \A c \in Device, u \in Tabs : c # d \/ u # f => chat'[c][u] = chat[c][u]
  <2>1. chat' = [chat EXCEPT ![d][f] = s]
    BY <1>2, <1>4 DEF Opens
  <2>3. f \in Tabs /\ s \in Screen
    BY <1>2, <1>4
  <2>2. /\ chat' \in [Device -> [Tabs -> Screen]] /\ chat'[d][f] = s
        /\ \A c \in Device, u \in Tabs : c # d \/ u # f => chat'[c][u] = chat[c][u]
    BY ZenonT(30), <1>1, <2>1, <2>3, ScreenSet
  <2> QED  BY <2>2
<1>6. \A c \in Device, u \in Tabs : chat'[c][u].shown = chat[c][u].shown
  BY <1>3, <1>4, <1>5 DEF WindowInv, ClosedEmpty
<1>7. PICK M \in SUBSET Message : M = Told(d, p) /\ M \subseteq sent
  BY <1>1 DEF Opens, TypeOK
<1>8. Joins(d, {f}, M)
  <2>1. IsFiniteSet(M)
    BY <1>7, PartsFinite DEF BaseInv
  <2>2. Queued(d, {f}, M)
    BY <1>1, <1>2, <1>7, <2>1, QueuedByRaise DEF Opens
  <2> QED  BY <1>1, <1>6, <2>2, LineJoined
<1>9. \A m : ~ Displayed(d, f, m)
  BY <1>1, <1>3, LineType DEF WindowInv, Displays
<1> QED  BY <1>2, <1>4, <1>5, <1>7, <1>8, <1>9

(* Nothing changes in the lines; what a device forgets was rejected.       *)
LEMMA WindowStays ==
  ASSUME BaseInv, WindowInv, [Next]_vars, Moves, ClosedEmpty', observed' = observed,
         \A c \in Device, u \in Tabs : chat'[c][u].peer = chat[c][u].peer,
         \A c \in Device : known'[c] \subseteq known[c],
         \A c \in Device : \A m \in known[c] : m \in known'[c] \/ Gone(c, m)',
         \A c \in Device : \A m \in known[c] : m.from # c => m \in known'[c]
  PROVE  WindowInv'
<1>1. sent \subseteq sent'
  BY MessagesMove
<1>2. PeersObserved'
  BY DEF WindowInv, PeersObserved
<1>3. Displays'
  <2> SUFFICES ASSUME NEW d \in Device, NEW t \in Tabs, NEW m \in Message, Displayed(d, t, m)'
               PROVE  /\ chat'[d][t].peer # None /\ m \in Between(d, chat'[d][t].peer)
                      /\ m \in sent'
                      /\ m \in known'[d] \/ Gone(d, m)'
                      /\ m.from # d => m \in known'[d]
    BY DEF Displays, Between, Message, Key
  <2>1. Displayed(d, t, m)
    BY DEF Moves
  <2>2. /\ chat[d][t].peer # None /\ m \in Between(d, chat[d][t].peer) /\ m \in sent
        /\ m \in known[d] \/ Gone(d, m)
        /\ m.from # d => m \in known[d]
    BY <2>1 DEF WindowInv, Displays
  <2>3. Gone(d, m) => Gone(d, m)'
    BY <2>2, GoneForGood
  <2> QED  BY <1>1, <2>2, <2>3
<1>4. Covers'
  <2> SUFFICES ASSUME NEW d \in Device, NEW t \in Tabs, chat'[d][t].peer # None,
                      NEW m \in known'[d] \cap Between(d, chat'[d][t].peer)
               PROVE  Displayed(d, t, m)'
    BY DEF Covers, Between, Message, Key
  <2> QED  BY DEF Moves, WindowInv, Covers
<1>5. Once'
  BY DEF Moves, WindowInv, Once, Message, Key
<1> QED  BY <1>2, <1>3, <1>4, <1>5 DEF WindowInv

(* Messages M of the conversation with p come to the open chats with p.    *)
LEMMA WindowJoined ==
  ASSUME BaseInv, WindowInv, [Next]_vars, NEW d \in Device, NEW p \in User,
         NEW M \in SUBSET sent', Joins(d, TabsWith(d, p), M),
         UNCHANGED <<chat, observed>>, known' = [known EXCEPT ![d] = @ \cup M],
         \A m \in M : m \in Between(d, p) /\ m.from # m.to,
         \A m \in M : m \notin sent \/ (m \in ToSet(log) /\ m \notin known[d])
  PROVE  WindowInv'
<1>1. TypeOK /\ sent \subseteq sent'
  BY MessagesMove DEF BaseInv
<1>2. known'[d] = known[d] \cup M /\ \A c \in Device \ {d} : known'[c] = known[c]
  BY <1>1 DEF TypeOK
<1>3. ClosedEmpty' /\ PeersObserved'
  BY DEF WindowInv, ClosedEmpty, PeersObserved
<1>4. \A t \in Tabs, m \in M : ~ Displayed(d, t, m)
  BY DEF WindowInv, Displays, Gone, Between
<1>5. Displays'
  <2> SUFFICES ASSUME NEW c \in Device, NEW t \in Tabs, NEW m \in Message, Displayed(c, t, m)'
               PROVE  /\ chat'[c][t].peer # None /\ m \in Between(c, chat'[c][t].peer)
                      /\ m \in sent'
                      /\ m \in known'[c] \/ Gone(c, m)'
                      /\ m.from # c => m \in known'[c]
    BY DEF Displays, Between, Message, Key
  <2>1. CASE Displayed(c, t, m)
    <3>1. /\ chat[c][t].peer # None /\ m \in Between(c, chat[c][t].peer) /\ m \in sent
          /\ m \in known[c] \/ Gone(c, m)
          /\ m.from # c => m \in known[c]
      BY <2>1 DEF WindowInv, Displays
    <3>2. Gone(c, m) => Gone(c, m)'
      BY <3>1, GoneForGood
    <3> QED  BY <1>1, <1>2, <3>1, <3>2
  <2>2. CASE c = d /\ t \in TabsWith(d, p) /\ m \in M
    <3>1. chat'[c][t].peer = p /\ p # None
      BY <2>2, ChatAssumption DEF TabsWith
    <3> QED  BY <1>2, <2>2, <3>1
  <2> QED  BY <2>1, <2>2 DEF Joins
<1>6. Covers'
  <2> SUFFICES ASSUME NEW c \in Device, NEW t \in Tabs, chat'[c][t].peer # None,
                      NEW m \in known'[c] \cap Between(c, chat'[c][t].peer)
               PROVE  Displayed(c, t, m)'
    BY DEF Covers, Between, Message, Key
  <2>1. chat[c][t].peer # None /\ m \in Between(c, chat[c][t].peer)
    OBVIOUS
  <2>2. CASE m \in known[c]
    BY <2>1, <2>2 DEF WindowInv, Covers, Joins
  <2>3. CASE c = d /\ m \in M
    <3>1. p = chat[c][t].peer
      BY <2>1, <2>3, OnePeer
    <3> QED  BY <2>3, <3>1 DEF Joins, TabsWith
  <2> QED  BY <1>2, <2>2, <2>3
<1>7. Once'
  <2> SUFFICES ASSUME NEW c \in Device, NEW t \in Tabs, NEW m \in Message, Ahead(c, t, m, m)'
               PROVE  FALSE
    BY DEF Once, Message, Key
  <2>1. ~ Ahead(c, t, m, m)
    BY DEF WindowInv, Once
  <2>2. c = d /\ m \in M /\ Displayed(d, t, m)
    BY <2>1 DEF Joins
  <2> QED  BY <1>4, <2>2
<1> QED  BY <1>3, <1>5, <1>6, <1>7 DEF WindowInv

(* A chat is opened in front of a device: it is told what is known.        *)
LEMMA WindowOpened ==
  ASSUME BaseInv, WindowInv, [Next]_vars, NEW d \in Device, NEW p \in User \ {d},
         Selects(d, p), Opens(d, p)
  PROVE  WindowInv'
<1>1. TypeOK
  BY DEF BaseInv
<1>2. PICK f \in Tabs : f = front[d]
  BY <1>1 DEF TypeOK
<1>3. chat[d][f].peer = None /\ p # None
  BY <1>2, ChatAssumption DEF Selects
<1>4. Opened(p).peer = p /\ Opened(p).shown = <<>>
  BY DEF Opened
<1>5. /\ chat'[d][f] = Opened(p)
      /\ \A c \in Device, u \in Tabs : c # d \/ u # f => chat'[c][u] = chat[c][u]
  BY ZenonT(30), <1>2, OpenJoins
<1>6. PICK M \in SUBSET sent : M = Told(d, p)
  BY DEF Opens
<1>7. M \subseteq sent /\ M = Told(d, p)
  BY <1>6
<1>8. Joins(d, {f}, M)
  BY <1>2, <1>6, OpenJoins
<1>9. \A m : ~ Displayed(d, f, m)
  BY <1>2, OpenJoins
<1>10. /\ UNCHANGED <<known, sent>> /\ observed'[d] = observed[d] \cup {p}
       /\ \A c \in Device \ {d} : observed'[c] = observed[c]
  BY <1>1 DEF Selects, Opens, TypeOK
<1>11. ClosedEmpty'
  BY <1>3, <1>4, <1>5 DEF WindowInv, ClosedEmpty
<1>12. PeersObserved'
  BY <1>4, <1>5, <1>10 DEF WindowInv, PeersObserved
<1>13. Displays'
  <2> SUFFICES ASSUME NEW c \in Device, NEW t \in Tabs, NEW m \in Message, Displayed(c, t, m)'
               PROVE  /\ chat'[c][t].peer # None /\ m \in Between(c, chat'[c][t].peer)
                      /\ m \in sent'
                      /\ m \in known'[c] \/ Gone(c, m)'
                      /\ m.from # c => m \in known'[c]
    BY DEF Displays, Between, Message, Key
  <2>1. CASE Displayed(c, t, m)
    <3>1. /\ chat[c][t].peer # None /\ m \in Between(c, chat[c][t].peer) /\ m \in sent
          /\ m \in known[c] \/ Gone(c, m)
          /\ m.from # c => m \in known[c]
      BY <2>1 DEF WindowInv, Displays
    <3>2. Gone(c, m) => Gone(c, m)'
      BY <3>1, GoneForGood
    <3>3. chat'[c][t].peer = chat[c][t].peer
      BY <1>5, <1>9, <2>1
    <3> QED  BY <1>10, <3>1, <3>2, <3>3
  <2>2. CASE c = d /\ t = f /\ m \in M
    <3>1. chat'[c][t].peer = p /\ m \in known[d] /\ m \in Between(d, p)
      BY <1>4, <1>5, <1>7, <2>2 DEF Told
    <3> QED  BY <1>3, <1>7, <1>10, <2>2, <3>1
  <2> QED  BY <1>8, <2>1, <2>2 DEF Joins
<1>14. Covers'
  <2> SUFFICES ASSUME NEW c \in Device, NEW t \in Tabs, chat'[c][t].peer # None,
                      NEW m \in known'[c] \cap Between(c, chat'[c][t].peer)
               PROVE  Displayed(c, t, m)'
    BY DEF Covers, Between, Message, Key
  <2>1. CASE c = d /\ t = f
    <3>1. m \in M
      BY <1>4, <1>5, <1>7, <1>10, <2>1 DEF Told
    <3> QED  BY <1>8, <2>1, <3>1 DEF Joins
  <2>2. CASE c # d \/ t # f
    <3>1. chat'[c][t] = chat[c][t] /\ m \in known[c]
      BY <1>5, <1>10, <2>2
    <3> QED  BY <1>8, <3>1 DEF Joins, WindowInv, Covers
  <2> QED  BY <2>1, <2>2
<1>15. Once'
  <2> SUFFICES ASSUME NEW c \in Device, NEW t \in Tabs, NEW m \in Message, Ahead(c, t, m, m)'
               PROVE  FALSE
    BY DEF Once, Message, Key
  <2>1. ~ Ahead(c, t, m, m)
    BY DEF WindowInv, Once
  <2>2. c = d /\ t = f /\ Displayed(d, f, m)
    BY <1>8, <2>1 DEF Joins
  <2> QED  BY <1>9, <2>2
<1> QED  BY <1>11, <1>12, <1>13, <1>14, <1>15 DEF WindowInv

(* Chats are closed: those of the tabs T.                                  *)
LEMMA WindowLeft ==
  ASSUME BaseInv, WindowInv, [Next]_vars, NEW d \in Device, NEW T \in SUBSET Tabs, Leaves(d, T),
         \A t \in T : chat'[d][t] = Closed,
         \A c \in Device, u \in Tabs : c # d \/ u \notin T => chat'[c][u] = chat[c][u],
         \A c \in Device : \/ known'[c] = known[c] /\ observed'[c] = observed[c]
                           \/ c = d /\ T = Tabs
  PROVE  WindowInv'
<1>1. sent \subseteq sent'
  BY MessagesMove
<1>2. Closed.peer = None /\ Closed.shown = <<>>
  BY DEF Closed
<1>3. ASSUME NEW c \in Device, NEW t \in Tabs
      PROVE  \/ c = d /\ t \in T /\ chat'[c][t] = Closed
             \/ /\ c # d \/ t \notin T
                /\ chat'[c][t] = chat[c][t] /\ known'[c] = known[c]
                /\ observed'[c] = observed[c]
  OBVIOUS
<1>4. ClosedEmpty' /\ PeersObserved'
  BY <1>2, <1>3 DEF WindowInv, ClosedEmpty, PeersObserved
<1>5. Displays'
  <2> SUFFICES ASSUME NEW c \in Device, NEW t \in Tabs, NEW m \in Message, Displayed(c, t, m)'
               PROVE  /\ chat'[c][t].peer # None /\ m \in Between(c, chat'[c][t].peer)
                      /\ m \in sent'
                      /\ m \in known'[c] \/ Gone(c, m)'
                      /\ m.from # c => m \in known'[c]
    BY DEF Displays, Between, Message, Key
  <2>1. Displayed(c, t, m) /\ chat'[c][t] = chat[c][t] /\ known'[c] = known[c]
    BY <1>3 DEF Leaves
  <2>2. /\ chat[c][t].peer # None /\ m \in Between(c, chat[c][t].peer) /\ m \in sent
        /\ m \in known[c] \/ Gone(c, m)
        /\ m.from # c => m \in known[c]
    BY <2>1 DEF WindowInv, Displays
  <2>3. Gone(c, m) => Gone(c, m)'
    BY <2>2, GoneForGood
  <2> QED  BY <1>1, <2>1, <2>2, <2>3
<1>6. Covers'
  <2> SUFFICES ASSUME NEW c \in Device, NEW t \in Tabs, chat'[c][t].peer # None,
                      NEW m \in known'[c] \cap Between(c, chat'[c][t].peer)
               PROVE  Displayed(c, t, m)'
    BY DEF Covers, Between, Message, Key
  <2>1. /\ c # d \/ t \notin T
        /\ chat'[c][t] = chat[c][t] /\ m \in known[c]
    BY <1>2, <1>3
  <2>2. Displayed(c, t, m)
    BY <2>1 DEF WindowInv, Covers
  <2> QED  BY <2>1, <2>2 DEF Leaves
<1>7. Once'
  BY DEF Leaves, WindowInv, Once, Message, Key
<1> QED  BY <1>4, <1>5, <1>6, <1>7 DEF WindowInv

LEMMA StepWindow == BaseInv /\ WriteInv /\ WindowInv /\ [Next]_vars => WindowInv'
<1> SUFFICES ASSUME BaseInv, WriteInv, WindowInv, [Next]_vars PROVE WindowInv'
  OBVIOUS
<1>1. TypeOK
  BY DEF BaseInv
<1>2. ASSUME UNCHANGED <<chat, mainQ>> PROVE Moves /\ ClosedEmpty'
  <2>1. ClosedEmpty'
    BY <1>2 DEF WindowInv, ClosedEmpty
  <2>2. Moves
    BY <1>2 DEF Moves, Displayed, Ahead, OnScreen, Waits, RowAhead, EventAhead
  <2> QED  BY <2>1, <2>2
<1>3. ASSUME UNCHANGED <<chat, mainQ, observed, known>> PROVE WindowInv'
  BY <1>2, <1>3, WindowStays
<1>4. ASSUME NEW d \in Device, Select(d) PROVE WindowInv'
  <2>1. PICK p \in User \ {d} : Selects(d, p)
    BY <1>4, SelectFacts
  <2>2. CASE UNCHANGED <<chat, observed, mainQ>>
    BY <1>3, <2>1, <2>2 DEF Selects
  <2>3. CASE Opens(d, p)
    BY <2>1, <2>3, WindowOpened
  <2> QED  BY <2>1, <2>2, <2>3 DEF Selects
<1>5. ASSUME NEW d \in Device, Back(d) PROVE WindowInv'
  <2>1. Popped(d)
    BY <1>1, <1>5, PoppedByBack
  <2>2. Leaves(d, {front[d]})
    BY <1>1, <2>1, LinePopped
  <2>3. /\ \A t \in {front[d]} : chat'[d][t] = Closed
        /\ \A c \in Device, u \in Tabs : c # d \/ u \notin {front[d]} => chat'[c][u] = chat[c][u]
        /\ UNCHANGED <<known, observed>> /\ {front[d]} \in SUBSET Tabs
    BY <2>1 DEF Popped
  <2> QED  BY <2>2, <2>3, WindowLeft
<1>6. ASSUME NEW d \in Device, Send(d) PROVE WindowInv'
  <2>1. PICK m \in Message, es \in Seq(Write) : Sends(d, m, es)
    BY <1>6, SendFacts
  <2>2. m.from = d /\ m.to \in User /\ m.from # m.to /\ m \in Between(d, m.to)
    BY <2>1 DEF Sends, Between, Message
  <2>3. m \notin sent /\ m \in sent' /\ UNCHANGED <<chat, observed>>
        /\ known' = [known EXCEPT ![d] = @ \cup {m}]
    BY <2>1 DEF Sends, NewKey, screenVars
  <2>7. Joins(d, TabsWith(d, m.to), {m})
    BY <2>1, SendJoins
  <2>8. /\ {m} \in SUBSET sent'
        /\ \A n \in {m} : n \in Between(d, m.to) /\ n.from # n.to
        /\ \A n \in {m} : n \notin sent \/ (n \in ToSet(log) /\ n \notin known[d])
    BY <2>2, <2>3
  <2> QED  BY <2>2, <2>3, <2>7, <2>8, WindowJoined
<1>7. ASSUME NEW d \in Device, RunEvent(d) PROVE WindowInv'
  <2>1. PICK e \in Event, r \in Row : RowAdded(d, e, r)
    BY <1>1, <1>7, RowAddedByEvent
  <2>2. Moves
    BY <1>1, <2>1, LineMoved
  <2>3. /\ \A c \in Device, u \in Tabs : chat'[c][u].peer = chat[c][u].peer
        /\ \A c \in Device, u \in Tabs : c # d \/ u # e.tab => chat'[c][u] = chat[c][u]
        /\ UNCHANGED <<known, observed>> /\ 1 \in DOMAIN mainQ[d] /\ e = mainQ[d][1]
    BY <2>1 DEF RowAdded
  <2>4. e.tab \in Tabs /\ e.msg \in Message
    BY DEF Event
  <2>5. chat[d][e.tab].peer # None
    <3>1. Displayed(d, e.tab, e.msg)
      BY <2>3 DEF Displayed, Waits
    <3> QED  BY <2>4, <3>1 DEF WindowInv, Displays
  <2>6. ClosedEmpty'
    BY <2>3, <2>5 DEF WindowInv, ClosedEmpty
  <2> QED  BY <2>2, <2>3, <2>6, WindowStays
<1>8. ASSUME NEW d \in Device, Sync(d) \/ Arrive(d) PROVE WindowInv'
  <2>1. PICK p \in User, new \in SUBSET sent : Learns(d, p, new)
    BY <1>8, LearnFacts
  <2>2. UNCHANGED <<chat, observed, sent>> /\ known' = [known EXCEPT ![d] = @ \cup new]
    BY <2>1 DEF Learns, screenVars
  <2>3. \A m \in new : /\ m \in Between(d, p) /\ m.from # m.to
                       /\ m \in ToSet(log) /\ m \notin known[d]
    BY <2>1 DEF Learns, Stored, BaseInv, SentInv
  <2>7. Joins(d, TabsWith(d, p), new)
    BY <2>1, LearnJoins
  <2>8. new \in SUBSET sent'
    BY <2>2
  <2> QED  BY <2>2, <2>3, <2>7, <2>8, WindowJoined
<1>9. ASSUME NEW d \in Device, Reject(d) PROVE WindowInv'
  <2>1. UNCHANGED <<chat, mainQ, observed>>
    BY <1>9 DEF Reject, screenVars
  <2>2. /\ \A c \in Device : known'[c] \subseteq known[c]
        /\ \A c \in Device : \A m \in known[c] : m \in known'[c] \/ (c = d /\ Gone(d, m)')
        /\ \A m \in known[d] : m.from # d => m \in known'[d]
    BY <1>9, RejectFacts
  <2>3. \A c \in Device : \A m \in known[c] : m \in known'[c] \/ Gone(c, m)'
    BY <2>2
  <2>4. \A c \in Device : \A m \in known[c] : m.from # c => m \in known'[c]
    BY <2>2
  <2> QED  BY <1>2, <2>1, <2>2, <2>3, <2>4, WindowStays
<1>10. ASSUME NEW d \in Device, Kill(d) PROVE WindowInv'
  <2>1. Ended(d)
    BY <1>1, <1>10, EndedByKill
  <2>2. Leaves(d, Tabs)
    BY <2>1, LineEnded
  <2>3. /\ \A t \in Tabs : chat'[d][t] = Closed
        /\ \A c \in Device, u \in Tabs : c # d \/ u \notin Tabs => chat'[c][u] = chat[c][u]
        /\ \A c \in Device : \/ known'[c] = known[c] /\ observed'[c] = observed[c]
                             \/ c = d /\ Tabs = Tabs
    BY <2>1 DEF Ended
  <2> QED  BY <2>2, <2>3, WindowLeft
<1>11. ASSUME NEW d \in Device, SwitchTab(d) \/ ShowRow(d) \/ Accept(d) \/ Reconnect(d)
       PROVE  WindowInv'
  BY <1>3, <1>11 DEF SwitchTab, ShowRow, Accept, Reconnect, clientVars, screenVars
<1>12. CASE UNCHANGED vars
  BY <1>3, <1>12 DEF vars, clientVars, screenVars
<1> QED
  BY <1>4, <1>5, <1>6, <1>7, <1>8, <1>9, <1>10, <1>11, <1>12 DEF Next

-----------------------------------------------------------------------------
ChatInv == BaseInv /\ WriteInv /\ WindowInv

LEMMA ChatInvariant == Spec => []ChatInv
<1>1. Init => ChatInv
  BY InitBase, InitWrite, InitWindow DEF ChatInv
<1>2. ChatInv /\ [Next]_vars => ChatInv'
  BY StepBase, StepWrite, StepWindow DEF ChatInv
<1> QED  BY <1>1, <1>2, PTL DEF Spec

LEMMA OnceOnScreen == ChatInv => ShownOnce
<1> SUFFICES ASSUME ChatInv, NEW d \in Device, NEW t \in Tabs,
                    NEW i \in DOMAIN chat[d][t].shown, NEW j \in DOMAIN chat[d][t].shown,
                    chat[d][t].shown[i].msg = chat[d][t].shown[j].msg
             PROVE  i = j
  BY DEF ShownOnce, IsInjective
<1>1. TypeOK
  BY DEF ChatInv, BaseInv
<1>2. chat[d][t].shown \in Seq(Row)
  BY <1>1 DEF TypeOK, Screen
<1>3. i \in Nat /\ j \in Nat
  BY <1>2
<1>4. PICK m : m = chat[d][t].shown[i].msg
  OBVIOUS
<1>5. m \in Message
  BY <1>1, <1>4, LineType DEF Displayed, OnScreen
<1>6. ~ RowAhead(d, t, m, m)
  BY <1>5 DEF ChatInv, WindowInv, Once, Ahead
<1>7. ~ (i < j) /\ ~ (j < i)
  BY <1>4, <1>6 DEF RowAhead
<1> QED  BY <1>3, <1>7

(* On every screen, each message is in one row, however it came and        *)
(* however often its conversation was observed.                            *)
THEOREM ChatShownOnce == Spec => []ShownOnce
BY ChatInvariant, OnceOnScreen, PTL

LEMMA CoversConversation == ChatInv => ShowsConversation
<1> SUFFICES ASSUME ChatInv, NEW d \in Device, NEW t \in Tabs, Settled(d),
                    chat[d][t].peer # None, NEW m \in Stored(d, chat[d][t].peer)
             PROVE  m \in Shown(d, t)
  BY DEF ShowsConversation
<1>1. PICK p : p = chat[d][t].peer
  OBVIOUS
<1>2. p \in observed[d]
  BY <1>1 DEF ChatInv, WindowInv, PeersObserved
<1>3. mainQ[d] = <<>> /\ Missing(d, p) = {}
  BY <1>2 DEF Settled
<1>4. m \in Between(d, p) /\ \E i \in DOMAIN log : log[i] = m
  BY <1>1 DEF Stored, ToSet
<1>5. m \in known[d]
  BY <1>3, <1>4 DEF Missing
<1>6. Displayed(d, t, m)
  BY <1>1, <1>4, <1>5 DEF ChatInv, WindowInv, Covers
<1>7. ~ Waits(d, t, m)
  BY <1>3 DEF Waits
<1> QED  BY <1>6, <1>7 DEF Displayed, OnScreen, Shown

(* When nothing is under way for a device, every open chat, in front or    *)
(* behind, shows all that is stored of its conversation.                   *)
THEOREM ChatShowsConversation == Spec => []ShowsConversation
BY ChatInvariant, CoversConversation, PTL

(* A step changes the rows of a tab by adding one or by closing the chat.  *)
LEMMA RowsChange ==
  ASSUME ChatInv, [Next]_vars, NEW d \in Device, NEW t \in Tabs,
         NEW i \in DOMAIN chat'[d][t].shown
  PROVE  \/ /\ i \in DOMAIN chat[d][t].shown /\ chat'[d][t].shown[i] = chat[d][t].shown[i]
            /\ chat'[d][t].peer = chat[d][t].peer
         \/ \E e \in Event :
              /\ e.tab = t /\ Waits(d, t, e.msg)
              /\ chat'[d][t].shown[i] = [msg |-> e.msg, as |-> Author(d, e.msg)]
              /\ chat'[d][t].peer = chat[d][t].peer
<1>1. BaseInv /\ TypeOK
  BY DEF ChatInv, BaseInv
<1>2. Closed.shown = <<>> /\ DOMAIN <<>> = {}
  BY DEF Closed
<1>3. CASE chat' = chat
  BY <1>3
<1>4. ASSUME NEW c \in Device, Select(c), chat' # chat
      PROVE  chat'[d][t] = chat[d][t]
  <2>1. PICK p \in User \ {c} : Selects(c, p)
    BY <1>1, <1>4, SelectFacts
  <2>2. chat' = [chat EXCEPT ![c][front[c]] = Opened(p)] /\ front[c] \in Tabs
    BY <1>1, <1>4, <2>1 DEF Selects, Opens, TypeOK
  <2>3. CASE c = d /\ t = front[c]
    <3>1. chat'[d][t] = Opened(p)
      BY <1>1, <2>2, <2>3 DEF TypeOK
    <3> QED  BY <1>2, <3>1 DEF Opened
  <2>4. CASE c # d \/ t # front[c]
    BY <1>1, <2>2, <2>4 DEF TypeOK
  <2> QED  BY <2>3, <2>4
<1>5. ASSUME NEW c \in Device, Back(c) PROVE chat'[d][t] = chat[d][t]
  <2>1. Popped(c)
    BY <1>1, <1>5, PoppedByBack
  <2> QED  BY <1>2, <2>1 DEF Popped
<1>6. ASSUME NEW c \in Device, Kill(c) PROVE chat'[d][t] = chat[d][t]
  <2>1. Ended(c)
    BY <1>1, <1>6, EndedByKill
  <2> QED  BY <1>2, <2>1 DEF Ended
<1>7. ASSUME NEW c \in Device, RunEvent(c)
      PROVE  \/ i \in DOMAIN chat[d][t].shown /\ chat'[d][t].shown[i] = chat[d][t].shown[i]
             \/ \E e \in Event :
                  /\ e.tab = t /\ Waits(d, t, e.msg)
                  /\ chat'[d][t].shown[i] = [msg |-> e.msg, as |-> Author(d, e.msg)]
  <2>1. PICK e \in Event, r \in Row : RowAdded(c, e, r)
    BY <1>1, <1>7, RowAddedByEvent
  <2>2. CASE c # d \/ t # e.tab
    <3>1. chat'[d][t] = chat[d][t]
      BY <2>1, <2>2 DEF RowAdded
    <3> QED  BY <3>1
  <2>3. CASE c = d /\ t = e.tab
    <3>1. \/ i \in DOMAIN chat[d][t].shown /\ chat'[d][t].shown[i] = chat[d][t].shown[i]
          \/ chat'[d][t].shown[i] = r
      BY <2>1, <2>3 DEF RowAdded
    <3>2. r = [msg |-> e.msg, as |-> Author(d, e.msg)]
      BY <2>1, <2>3 DEF RowAdded
    <3>3. Waits(d, t, e.msg)
      BY <2>1, <2>3 DEF RowAdded, Waits
    <3> QED  BY <2>3, <3>1, <3>2, <3>3
  <2> QED  BY <2>2, <2>3
<1>8. ASSUME NEW c \in Device, RunEvent(c) PROVE chat'[d][t].peer = chat[d][t].peer
  BY <1>1, <1>8, RowAddedByEvent DEF RowAdded
<1>9. ASSUME NEW c \in Device, \/ SwitchTab(c) \/ Send(c) \/ ShowRow(c) \/ Sync(c) \/ Arrive(c)
                               \/ Accept(c) \/ Reject(c) \/ Reconnect(c)
      PROVE  chat' = chat
  BY <1>9 DEF SwitchTab, Send, ShowRow, Sync, Arrive, Accept, Reject, Reconnect, screenVars
<1>10. UNCHANGED vars => chat' = chat
  BY DEF vars, screenVars
<1> QED
  BY <1>3, <1>4, <1>5, <1>6, <1>7, <1>8, <1>9, <1>10 DEF Next

LEMMA StepOwnSide == ChatInv /\ OwnSide /\ [Next]_vars => OwnSide'
<1> SUFFICES ASSUME ChatInv, OwnSide, [Next]_vars, NEW d \in Device, NEW t \in Tabs,
                    NEW i \in DOMAIN chat'[d][t].shown
             PROVE  chat'[d][t].shown[i].as = d <=> chat'[d][t].shown[i].msg.from = d
  BY DEF OwnSide
<1>1. \/ i \in DOMAIN chat[d][t].shown /\ chat'[d][t].shown[i] = chat[d][t].shown[i]
      \/ \E m : chat'[d][t].shown[i] = [msg |-> m, as |-> Author(d, m)]
  BY RowsChange
<1>2. visitor[d] # d
  BY DEF ChatInv, BaseInv, NotSelf
<1>3. CASE i \in DOMAIN chat[d][t].shown /\ chat'[d][t].shown[i] = chat[d][t].shown[i]
  BY <1>3 DEF OwnSide
<1>4. ASSUME NEW m, chat'[d][t].shown[i] = [msg |-> m, as |-> Author(d, m)]
      PROVE  chat'[d][t].shown[i].as = d <=> chat'[d][t].shown[i].msg.from = d
  <2>1. chat'[d][t].shown[i].as = Author(d, m) /\ chat'[d][t].shown[i].msg = m
    BY <1>4
  <2>2. Author(d, m) = d <=> m.from = d
    BY <1>2 DEF Author
  <2> QED  BY <2>1, <2>2
<1> QED  BY <1>1, <1>3, <1>4

(* In every chat, of any number of tabs, a message is on the user's own    *)
(* side exactly when the user sent it.                                     *)
THEOREM ChatOwnSide == Spec => []OwnSide
<1>1. Init => OwnSide
  <2>1. DOMAIN <<>> = {}
    OBVIOUS
  <2> QED  BY <2>1 DEF Init, OwnSide, Closed
<1> QED  BY <1>1, StepOwnSide, ChatInvariant, PTL DEF Spec

(* With one tab, the visitor is whom the open chat is with; a row keeps    *)
(* the user object it was given.                                           *)
AuthorInv ==
  /\ AuthorShown
  /\ \A d \in Device, t \in Tabs : chat[d][t].peer # None => visitor[d] = chat[d][t].peer

LEMMA StepAuthor ==
  ASSUME NEW tab, Tabs = {tab}
  PROVE  ChatInv /\ AuthorInv /\ [Next]_vars => AuthorInv'
<1> SUFFICES ASSUME ChatInv, AuthorInv, [Next]_vars PROVE AuthorInv'
  OBVIOUS
<1>1. BaseInv /\ TypeOK
  BY DEF ChatInv, BaseInv
<1>2. ASSUME NEW d \in Device, NEW t \in Tabs, NEW i \in DOMAIN chat'[d][t].shown
      PROVE  chat'[d][t].shown[i].as = chat'[d][t].shown[i].msg.from
  <2>1. CASE i \in DOMAIN chat[d][t].shown /\ chat'[d][t].shown[i] = chat[d][t].shown[i]
    BY <2>1 DEF AuthorInv, AuthorShown
  <2>2. ASSUME NEW e \in Event, Waits(d, t, e.msg),
               chat'[d][t].shown[i] = [msg |-> e.msg, as |-> Author(d, e.msg)]
        PROVE  chat'[d][t].shown[i].as = chat'[d][t].shown[i].msg.from
    <3>1. e.msg \in Message
      BY DEF Event
    <3>2. chat[d][t].peer # None /\ e.msg \in Between(d, chat[d][t].peer)
      BY <2>2, <3>1 DEF ChatInv, WindowInv, Displays, Displayed
    <3>3. e.msg.from = d \/ e.msg.from = visitor[d]
      BY <3>2 DEF Between, AuthorInv
    <3>4. Author(d, e.msg) = e.msg.from
      BY <3>3 DEF Author
    <3> QED  BY <2>2, <3>4
  <2> QED  BY ZenonT(30), <2>1, <2>2, RowsChange
<1>3. AuthorShown'
  BY <1>2 DEF AuthorShown
<1>4. ASSUME UNCHANGED visitor,
             \A c \in Device, u \in Tabs : chat'[c][u].peer \in {chat[c][u].peer, None}
      PROVE  AuthorInv'
  BY <1>3, <1>4 DEF AuthorInv
<1>5. ASSUME NEW d \in Device, Select(d) PROVE AuthorInv'
  <2>1. PICK p \in User \ {d} : Selects(d, p)
    BY <1>1, <1>5, SelectFacts
  <2>2. front[d] = tab /\ tab \in Tabs
    BY <1>1 DEF TypeOK
  <2>3. chat[d][tab].peer = None
    BY <2>1, <2>2 DEF Selects
  <2>4. visitor'[d] = p /\ \A c \in Device \ {d} : visitor'[c] = visitor[c]
    BY <1>1, <2>1 DEF Selects, TypeOK
  <2>5. /\ chat'[d][tab].peer \in {None, p}
        /\ \A c \in Device \ {d} : chat'[c] = chat[c]
    <3>1. CASE UNCHANGED chat
      BY <2>3, <3>1
    <3>2. CASE Opens(d, p)
      <4>1. chat' = [chat EXCEPT ![d][tab] = Opened(p)] /\ Opened(p).peer = p
        BY <2>2, <3>2 DEF Opens, Opened
      <4> QED  BY <1>1, <2>2, <4>1 DEF TypeOK
    <3> QED  BY <2>1, <3>1, <3>2 DEF Selects
  <2>6. ASSUME NEW c \in Device, NEW t \in Tabs, chat'[c][t].peer # None
        PROVE  visitor'[c] = chat'[c][t].peer
    <3>1. CASE c = d
      BY <2>2, <2>4, <2>5, <2>6, <3>1
    <3>2. CASE c # d
      BY <2>4, <2>5, <2>6, <3>2 DEF AuthorInv
    <3> QED  BY <3>1, <3>2
  <2> QED  BY <1>3, <2>6 DEF AuthorInv
<1>6. ASSUME NEW d \in Device, Back(d) PROVE AuthorInv'
  <2>1. Popped(d) /\ Closed.peer = None
    BY <1>1, <1>6, PoppedByBack DEF Closed
  <2>2. \A c \in Device, u \in Tabs : chat'[c][u].peer \in {chat[c][u].peer, None}
    BY <2>1 DEF Popped
  <2> QED  BY <1>4, <1>6, <2>2 DEF Back
<1>7. ASSUME NEW d \in Device, RunEvent(d) PROVE AuthorInv'
  <2>1. PICK e \in Event, r \in Row : RowAdded(d, e, r)
    BY <1>1, <1>7, RowAddedByEvent
  <2>2. \A c \in Device, u \in Tabs : chat'[c][u].peer = chat[c][u].peer
    BY <2>1 DEF RowAdded
  <2> QED  BY <1>4, <1>7, <2>2 DEF RunEvent
<1>8. ASSUME NEW d \in Device, Kill(d) PROVE AuthorInv'
  <2>1. Ended(d) /\ Closed.peer = None
    BY <1>1, <1>8, EndedByKill DEF Closed
  <2>2. \A c \in Device, t \in Tabs :
          chat'[c][t].peer # None => c # d /\ chat'[c] = chat[c] /\ visitor'[c] = visitor[c]
    BY <2>1 DEF Ended
  <2> QED  BY <1>3, <2>2 DEF AuthorInv
<1>9. ASSUME NEW c \in Device, \/ SwitchTab(c) \/ Send(c) \/ ShowRow(c) \/ Sync(c) \/ Arrive(c)
                               \/ Accept(c) \/ Reject(c) \/ Reconnect(c)
      PROVE  UNCHANGED <<chat, visitor>>
  BY <1>9 DEF SwitchTab, Send, ShowRow, Sync, Arrive, Accept, Reject, Reconnect, screenVars
<1>10. UNCHANGED vars => UNCHANGED <<chat, visitor>>
  BY DEF vars, screenVars
<1> QED
  BY <1>4, <1>5, <1>6, <1>7, <1>8, <1>9, <1>10 DEF Next

(* Where only one of the two ways to a chat is used, the user object       *)
(* beside a message is that of its author, although it is read from a      *)
(* global when the message arrives.                                        *)
THEOREM ChatAuthorShown ==
  ASSUME NEW tab, Tabs = {tab}
  PROVE  Spec => []AuthorShown
<1>1. Init => AuthorInv
  <2>1. DOMAIN <<>> = {}
    OBVIOUS
  <2> QED  BY <2>1 DEF Init, AuthorInv, AuthorShown, Closed
<1>2. ChatInv /\ AuthorInv /\ [Next]_vars => AuthorInv'
  BY StepAuthor
<1>3. AuthorInv => AuthorShown
  BY DEF AuthorInv
<1> QED  BY <1>1, <1>2, <1>3, ChatInvariant, PTL DEF Spec

-----------------------------------------------------------------------------
(* The chats implement conversations, step by step.                        *)

(* A window as the abstract specification sees it. *)
Sees(c) ==
  [peer |-> c.peer, shows |-> {c.shown[i].msg : i \in DOMAIN c.shown}, size |-> Len(c.shown)]

LEMMA WindowSees ==
  /\ window = [w \in Device \X Tabs |-> Sees(chat[w[1]][w[2]])]
  /\ \A d \in Device, t \in Tabs : /\ window[<<d, t>>] = Sees(chat[d][t])
                                   /\ window'[<<d, t>>] = Sees(chat'[d][t])
  /\ window' = [w \in Device \X Tabs |-> window'[w]]
BY ZenonT(30) DEF window, Sees

LEMMA SeesNothing == \A p : Sees([peer |-> p, shown |-> <<>>]) = Abstract!Shows(p)
BY DEF Sees, Abstract!Shows

LEMMA InitConversation == Init => Abstract!Init
<1> SUFFICES ASSUME Init PROVE Abstract!Init
  OBVIOUS
<1>1. Sees(Closed) = Abstract!Closed
  BY SeesNothing DEF Closed, Abstract!Closed
<1>2. \A d \in Device, t \in Tabs : chat[d][t] = Closed
  BY DEF Init
<1>3. window = [w \in Device \X Tabs |-> Abstract!Closed]
  BY <1>1, <1>2, WindowSees
<1>4. sent = {} /\ ToSet(log) = {}
  BY DEF Init, ToSet
<1> QED  BY <1>3, <1>4 DEF Abstract!Init

(* One window changes where one chat changes. *)
LEMMA WindowChanges ==
  ASSUME NEW d \in Device, NEW t \in Tabs, NEW v,
         Sees(chat'[d][t]) = v,
         \A c \in Device, u \in Tabs : c # d \/ u # t => chat'[c][u] = chat[c][u]
  PROVE  window' = [window EXCEPT ![<<d, t>>] = v]
<1>1. ASSUME NEW w \in Device \X Tabs
      PROVE  window'[w] = IF w = <<d, t>> THEN v ELSE window[w]
  <2>1. PICK c \in Device, u \in Tabs : w = <<c, u>>
    OBVIOUS
  <2>2. CASE w = <<d, t>>
    BY <2>2, WindowSees
  <2>3. CASE w # <<d, t>>
    <3>1. c # d \/ u # t
      BY <2>1, <2>3
    <3>2. window[<<c, u>>] = Sees(chat[c][u]) /\ window'[<<c, u>>] = Sees(chat'[c][u])
      BY WindowSees
    <3>3. chat'[c][u] = chat[c][u]
      BY <3>1
    <3>4. window'[<<c, u>>] = window[<<c, u>>]
      BY <3>2, <3>3
    <3> QED  BY <2>1, <2>3, <3>4
  <2> QED  BY <2>2, <2>3
<1>2. window' = [w \in Device \X Tabs |-> window'[w]]
  BY WindowSees
<1>3. window = [w \in Device \X Tabs |-> Sees(chat[w[1]][w[2]])]
  BY WindowSees
<1> QED  BY <1>1, <1>2, <1>3

(* Opening a chat opens a window. *)
LEMMA OpenStep ==
  ASSUME ChatInv, NEW d \in Device, Select(d)
  PROVE  Abstract!Next \/ UNCHANGED <<sent, ToSet(log), window>>
<1>1. BaseInv /\ TypeOK
  BY DEF ChatInv, BaseInv
<1>2. PICK p \in User \ {d} : Selects(d, p)
  BY <1>1, SelectFacts
<1>3. UNCHANGED <<sent, ToSet(log)>>
  BY <1>2 DEF Selects, serverVars, ToSet
<1>4. CASE UNCHANGED chat
  BY <1>3, <1>4 DEF window
<1>5. CASE Opens(d, p)
  <2>1. PICK f \in Tabs : f = front[d]
    BY <1>1 DEF TypeOK
  <2>2. PICK s \in Screen : s = Opened(p)
    <3>1. Opened(p) \in Screen
      BY DEF Opened, Screen
    <3> QED  BY <3>1
  <2>3. chat' = [chat EXCEPT ![d][f] = s]
    BY <1>5, <2>1, <2>2 DEF Opens
  <2>4. /\ chat' \in [Device -> [Tabs -> Screen]] /\ chat'[d][f] = s
        /\ \A c \in Device, u \in Tabs : c # d \/ u # f => chat'[c][u] = chat[c][u]
    BY ZenonT(30), <1>1, <2>3, ScreenSet
  <2>5. Sees(chat'[d][f]) = Abstract!Shows(p)
    BY <2>2, <2>4, SeesNothing DEF Opened
  <2>6. window' = [window EXCEPT ![<<d, f>>] = Abstract!Shows(p)]
    BY <2>4, <2>5, WindowChanges
  <2>7. chat[d][f].peer = None
    BY <1>2, <2>1 DEF Selects
  <2>8. window[<<d, f>>].peer = None
    BY <2>7, WindowSees DEF Sees
  <2>9. Abstract!Open(<<d, f>>, p)
    BY <1>3, <2>6, <2>8 DEF Abstract!Open
  <2> QED  BY <2>9 DEF Abstract!Next
<1> QED  BY <1>2, <1>4, <1>5 DEF Selects

(* Closing chats closes windows. *)
LEMMA CloseStep ==
  ASSUME UNCHANGED <<sent, log>>,
         \A c \in Device, u \in Tabs : chat'[c][u] = chat[c][u] \/ chat'[c][u] = Closed
  PROVE  Abstract!Next
<1>1. Sees(Closed) = Abstract!Closed
  BY SeesNothing DEF Closed, Abstract!Closed
<1>2. ASSUME NEW w \in Device \X Tabs
      PROVE  window'[w] \in {window[w], Abstract!Closed}
  <2>1. PICK c \in Device, u \in Tabs : w = <<c, u>>
    OBVIOUS
  <2>2. window[<<c, u>>] = Sees(chat[c][u]) /\ window'[<<c, u>>] = Sees(chat'[c][u])
    BY WindowSees
  <2>3. chat'[c][u] = chat[c][u] \/ chat'[c][u] = Closed
    OBVIOUS
  <2>4. window'[<<c, u>>] \in {window[<<c, u>>], Abstract!Closed}
    BY <1>1, <2>2, <2>3
  <2> QED  BY <2>1, <2>4
<1>3. window' = [w \in Device \X Tabs |-> window'[w]]
  BY WindowSees
<1>4. UNCHANGED <<sent, ToSet(log)>>
  BY DEF ToSet
<1>5. Abstract!Close
  BY <1>2, <1>3, <1>4 DEF Abstract!Close
<1> QED  BY <1>5 DEF Abstract!Next

(* Sending is posting. *)
LEMMA PostStep ==
  ASSUME ChatInv, NEW d \in Device, Send(d)
  PROVE  Abstract!Next
<1>1. BaseInv
  BY DEF ChatInv
<1>2. PICK m \in Message, es \in Seq(Write) : Sends(d, m, es)
  BY <1>1, SendFacts
<1>3. m.from # m.to /\ \A n \in sent : n.key # m.key
  BY <1>2 DEF Sends, NewKey
<1>4. UNCHANGED <<ToSet(log), window>> /\ sent' = sent \cup {m}
  BY <1>2 DEF Sends, serverVars, screenVars, ToSet, window
<1>5. Abstract!Post(m)
  BY <1>3, <1>4 DEF Abstract!Post
<1> QED  BY <1>5 DEF Abstract!Next

(* An event that becomes a row is shown: it was not, and a message of the  *)
(* peer's is stored.                                                       *)
LEMMA ShowStep ==
  ASSUME ChatInv, NEW d \in Device, RunEvent(d)
  PROVE  Abstract!Next
<1>1. BaseInv /\ TypeOK
  BY DEF ChatInv, BaseInv
<1>2. PICK e \in Event, r \in Row : RowAdded(d, e, r)
  BY <1>1, RowAddedByEvent
<1>3. PICK t, m : t = e.tab /\ m = e.msg
  OBVIOUS
<1>4. t \in Tabs /\ m \in Message
  BY <1>3 DEF Event
<1>5. Waits(d, t, m)
  BY <1>2, <1>3 DEF RowAdded, Waits
<1>6. /\ chat[d][t].peer # None /\ m \in Between(d, chat[d][t].peer) /\ m \in sent
      /\ m.from # d => m \in known[d]
  BY <1>4, <1>5 DEF ChatInv, WindowInv, Displays, Displayed
<1>7. m.from # d => m \in ToSet(log)
  BY <1>6 DEF ChatInv, WriteInv
<1>8. m \notin Shown(d, t)
  <2>1. ~ OnScreen(d, t, m)
    BY <1>4, <1>5 DEF ChatInv, WindowInv, Once, Ahead
  <2> QED  BY <2>1 DEF OnScreen, Shown
<1>9. PICK old, new : old = chat[d][t].shown /\ new = chat'[d][t].shown
  OBVIOUS
<1>10. /\ Len(old) \in Nat /\ DOMAIN old = 1 .. Len(old) /\ DOMAIN new = 1 .. (Len(old) + 1)
       /\ \A i \in DOMAIN old : i \in DOMAIN new /\ new[i] = old[i]
       /\ new[Len(old) + 1] = r /\ Len(old) + 1 \in DOMAIN new
       /\ \A i \in DOMAIN new : \/ i \in DOMAIN old /\ new[i] = old[i] /\ i < Len(old) + 1
                                \/ i = Len(old) + 1 /\ new[i] = r
  BY <1>2, <1>3, <1>9 DEF RowAdded
<1>11. r.msg = m
  <2>1. r = [msg |-> e.msg, as |-> Author(d, e.msg)]
    BY <1>2 DEF RowAdded
  <2> QED  BY <1>3, <2>1
<1>12. {new[i].msg : i \in DOMAIN new} = {old[i].msg : i \in DOMAIN old} \cup {m}
  BY <1>10, <1>11
<1>13. chat' \in [Device -> [Tabs -> Screen]]
  <2>1. ChatInv /\ [Next]_vars
    BY DEF Next
  <2> QED  BY <2>1, StepType DEF ChatInv, TypeOK
<1>14. Len(new) = Len(old) + 1
  <2>1. new \in Seq(Row)
    BY <1>4, <1>9, <1>13 DEF Screen
  <2> QED  BY <1>10, <2>1
<1>15. Sees(chat[d][t]) = [peer |-> chat[d][t].peer, shows |-> {old[i].msg : i \in DOMAIN old},
                           size |-> Len(old)]
  BY <1>9 DEF Sees
<1>16. PICK v : v = [Sees(chat[d][t]) EXCEPT !.shows = @ \cup {m}, !.size = @ + 1]
  OBVIOUS
<1>17. Sees(chat'[d][t]) = v
  <2>1. Sees(chat'[d][t]) = [peer |-> chat'[d][t].peer, shows |-> {new[i].msg : i \in DOMAIN new},
                             size |-> Len(new)]
    BY <1>9 DEF Sees
  <2>2. chat'[d][t].peer = chat[d][t].peer
    BY <1>2, <1>4 DEF RowAdded
  <2>3. ASSUME NEW p, NEW S, NEW n, NEW a, NEW b
        PROVE  [[peer |-> p, shows |-> S, size |-> n] EXCEPT !["shows"] = a, !["size"] = b]
                  = [peer |-> p, shows |-> a, size |-> b]
    OBVIOUS
  <2>4. v = [peer |-> chat[d][t].peer, shows |-> {old[i].msg : i \in DOMAIN old} \cup {m},
             size |-> Len(old) + 1]
    <3>1. PICK s, S : s = Sees(chat[d][t]) /\ S = {old[i].msg : i \in DOMAIN old}
      OBVIOUS
    <3>2. s = [peer |-> chat[d][t].peer, shows |-> S, size |-> Len(old)]
      BY <1>15, <3>1
    <3>3. v = [s EXCEPT !["shows"] = s.shows \cup {m}, !["size"] = s.size + 1]
      BY <1>16, <3>1
    <3>4. s.shows = S /\ s.size = Len(old)
      BY <3>2
    <3>5. v = [s EXCEPT !["shows"] = S \cup {m}, !["size"] = Len(old) + 1]
      BY <3>3, <3>4
    <3>6. v = [peer |-> chat[d][t].peer, shows |-> S \cup {m}, size |-> Len(old) + 1]
      BY <2>3, <3>2, <3>5
    <3> QED  BY <3>1, <3>6
  <2> QED  BY <1>12, <1>14, <2>1, <2>2, <2>4
<1>18. \A c \in Device, u \in Tabs : c # d \/ u # t => chat'[c][u] = chat[c][u]
  BY <1>2, <1>3 DEF RowAdded
<1>19. window' = [window EXCEPT ![<<d, t>>] = v]
  BY <1>4, <1>17, <1>18, WindowChanges
<1>20. window[<<d, t>>] = Sees(chat[d][t])
  BY <1>4, WindowSees
<1>21. window' = [window EXCEPT ![<<d, t>>].shows = @ \cup {m}, ![<<d, t>>].size = @ + 1]
  BY <1>16, <1>19, <1>20
<1>22. UNCHANGED <<sent, ToSet(log)>>
  BY DEF RunEvent, serverVars, ToSet
<1>23. /\ window[<<d, t>>].peer = chat[d][t].peer /\ window[<<d, t>>].shows = Shown(d, t)
  BY <1>9, <1>15, <1>20 DEF Shown
<1>24. {m.from, m.to} = {OwnerOf(<<d, t>>), window[<<d, t>>].peer} /\ OwnerOf(<<d, t>>) = d
  BY <1>6, <1>23 DEF Between, OwnerOf
<1>25. m \in IF m.from = OwnerOf(<<d, t>>) THEN sent ELSE ToSet(log)
  BY <1>6, <1>7, <1>24
<1>26. Abstract!Show(<<d, t>>, m)
  BY <1>6, <1>8, <1>21, <1>22, <1>23, <1>24, <1>25 DEF Abstract!Show
<1>27. <<d, t>> \in Device \X Tabs
  BY <1>4
<1> QED  BY <1>6, <1>26, <1>27 DEF Abstract!Next

(* The server's answers, and a new connection, store messages. *)
LEMMA StoreStep ==
  ASSUME ChatInv, [Next]_vars, UNCHANGED <<sent, chat>>
  PROVE  Abstract!Next
<1>1. BaseInv
  BY DEF ChatInv
<1>2. ToSet(log) \subseteq ToSet(log)'
  BY <1>1, MessagesMove
<1>3. ToSet(log)' \subseteq sent
  BY <1>1, StepBase DEF BaseInv, SentInv
<1>4. UNCHANGED <<sent, window>>
  BY DEF window
<1>5. Abstract!Store
  BY <1>2, <1>3, <1>4 DEF Abstract!Store
<1> QED  BY <1>5 DEF Abstract!Next

LEMMA StepConversation ==
  ChatInv /\ [Next]_vars => Abstract!Next \/ UNCHANGED <<sent, ToSet(log), window>>
<1> SUFFICES ASSUME ChatInv, [Next]_vars
             PROVE  Abstract!Next \/ UNCHANGED <<sent, ToSet(log), window>>
  OBVIOUS
<1>1. TypeOK
  BY DEF ChatInv, BaseInv
<1>2. ASSUME NEW d \in Device, Back(d) PROVE Abstract!Next
  <2>1. Popped(d)
    BY <1>1, <1>2, PoppedByBack
  <2>2. UNCHANGED <<sent, log>>
    BY <1>2 DEF Back, serverVars
  <2>3. \A c \in Device, u \in Tabs : chat'[c][u] = chat[c][u] \/ chat'[c][u] = Closed
    BY <2>1 DEF Popped
  <2> QED  BY <2>2, <2>3, CloseStep
<1>3. ASSUME NEW d \in Device, Kill(d) PROVE Abstract!Next
  <2>1. Ended(d)
    BY <1>1, <1>3, EndedByKill
  <2>2. UNCHANGED <<sent, log>>
    BY <1>3 DEF Kill, serverVars
  <2>3. \A c \in Device, u \in Tabs : chat'[c][u] = chat[c][u] \/ chat'[c][u] = Closed
    BY <2>1 DEF Ended
  <2> QED  BY <2>2, <2>3, CloseStep
<1>4. ASSUME NEW d \in Device, \/ SwitchTab(d) \/ ShowRow(d) \/ Sync(d) \/ Arrive(d)
                               \/ Accept(d) \/ Reject(d) \/ Reconnect(d)
      PROVE  Abstract!Next
  <2>1. UNCHANGED <<sent, chat>>
    BY <1>4 DEF SwitchTab, ShowRow, Sync, Arrive, Accept, Reject, Reconnect, screenVars
  <2> QED  BY <2>1, StoreStep
<1>5. CASE UNCHANGED vars
  <2>1. UNCHANGED <<sent, chat>>
    BY <1>5 DEF vars, screenVars
  <2> QED  BY <2>1, StoreStep
<1> QED
  BY <1>2, <1>3, <1>4, <1>5, OpenStep, PostStep, ShowStep DEF Next

(* Whatever devices, caches, queues, connections and processes do, the     *)
(* chats are conversations: each window shows each message of its          *)
(* conversation once, the peer's only when stored, and takes none back.    *)
THEOREM ChatIsConversation == Spec => IsConversation
<1>1. Spec => Abstract!Init /\ [][Abstract!Next]_<<sent, ToSet(log), window>>
  BY InitConversation, StepConversation, ChatInvariant, PTL DEF Spec
<1> QED  BY <1>1 DEF IsConversation, Abstract!Spec
=============================================================================
