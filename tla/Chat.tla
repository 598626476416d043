-------------------------------- MODULE Chat --------------------------------
(***************************************************************************)
(* Conversations between students (ChatViewController and the two lists    *)
(* that lead to it), on several devices, over the nodes "Chat" and         *)
(* "ListChat" of the realtime database.                                    *)
(*                                                                         *)
(* A device has one user; the tab "menu" reaches a chat through the list   *)
(* of friends, the tab "messages" through the list of chats, and each tab  *)
(* keeps the chat opened in it while the other is in front.  Whom a chat   *)
(* is with, however, is a global variable that both lists set.             *)
(*                                                                         *)
(* The database's worker handles the calls of the main thread in order and *)
(* touches nothing else, so that a call is modelled together with its      *)
(* effect on the local cache; its events still wait for the main thread.   *)
(***************************************************************************)
EXTENDS Naturals, SequencesExt

CONSTANTS User,         \* the students; every one of them may be chatted with
          Device,       \* the students who use a device in this model
          None,         \* no student: nil
          Tabs,         \* the tabs in use, a subset of {"menu", "messages"}
          SteadyClock,  \* does no device's clock go back between two messages?
          Rejects,      \* may the server reject a write?
          MaxMessages,  \* bound: keys of messages
          MaxKills,     \* bound: ends of processes
          MaxCuts       \* bound: connections that break

ASSUME ChatAssumption ==
  /\ Device \subseteq User /\ None \notin User
  /\ Tabs \subseteq {"menu", "messages"} /\ Tabs # {}
  /\ SteadyClock \in BOOLEAN /\ Rejects \in BOOLEAN
  /\ MaxMessages \in Nat /\ MaxKills \in Nat /\ MaxCuts \in Nat

VARIABLES log,       \* the stored messages, in the order the server stored them
          entries,   \* the stored chat-list entries: <<owner, peer>>
          outbox,    \* per device, the writes sent and not yet acknowledged
          known,     \* per device, the messages in the local cache
          observed,  \* per device, the peers whose conversation is observed
          synced,    \* per device, those whose data has arrived
          mainQ,     \* per device, the events waiting for the main thread
          listed,    \* per device, the rows of the list of chats
          visitor,   \* per device, the global variable
          chat,      \* per device and tab, the chat screen that is open there
          front,     \* per device, the tab in front
          sent,      \* the messages ever sent: their keys are taken
          kills,     \* processes ended so far
          cuts       \* connections broken so far

serverVars == <<log, entries>>
clientVars == <<outbox, known, observed, synced, mainQ, listed>>
screenVars == <<visitor, chat, front>>
boundVars == <<kills, cuts>>
vars == <<serverVars, clientVars, screenVars, sent, boundVars>>

Key     == 1 .. MaxMessages
Message == [key : Key, from : User, to : User]
Write   == [what : {"message"}, of : Message] \cup [what : {"entry"}, of : User \X User]
Event   == [tab : Tabs, msg : Message]

(* A row of a chat screen: a message and the user object put beside it.    *)
Row    == [msg : Message, as : User \cup {None}]
Screen == [peer : User \cup {None}, shown : Seq(Row)]

Closed == [peer |-> None, shown |-> <<>>]

Opened(p) == [peer |-> p, shown |-> <<>>]

(* The node of a conversation: its key is made of both ids in sorted order, *)
(* so that it is the same for both.                                         *)
Between(u, p) == {m \in Message : {m.from, m.to} = {u, p}}

(* The orders in which events are raised: by the keys of the messages, and *)
(* for one message in whatever order the observers were registered.        *)
Raised(es) ==
  {q \in Bijection(1 .. Cardinality(es), es) :
     \A i, j \in DOMAIN q : i < j => q[i].msg.key <= q[j].msg.key}

(* The part of q at the positions in K, which is one sequence. *)
Kept(q, K) ==
  {[i \in DOMAIN f |-> q[f[i]]] : f \in {g \in Bijection(1 .. Cardinality(K), K) :
                                        \A i, j \in DOMAIN g : i < j => g[i] < g[j]}}

(* With a bug: a chat that is not in front is not told of a message. *)
TabInFront(d, p) == {t \in {front[d]} : chat[d][t].peer = p}

(* The screens of device d whose observers are told of a message with p. *)
TabsWith(d, p) == {t \in Tabs : chat[d][t].peer = p}

(* One event per message and observer. *)
Events(d, p, ms) == [tab : TabsWith(d, p), msg : ms]

(* They wait for the main thread behind those that are there. *)
Raise(d, es) == \E q \in Raised(es) : mainQ' = [mainQ EXCEPT ![d] = @ \o q]

-----------------------------------------------------------------------------
(* The user of device d. *)

SetVisitor(d, p) == visitor' = [visitor EXCEPT ![d] = p]

(* With a bug: a conversation that was synchronised is not told again. *)
NothingTold(d, p) == IF p \in synced[d] THEN {} ELSE known[d] \cap Between(d, p)

(* What the cache has of a conversation is told to every new observer. *)
Told(d, p) == known[d] \cap Between(d, p)

(* A row is tapped: the visitor is set, and the chat opened once the       *)
(* avatar has been loaded.  The chat observes the conversation, and is     *)
(* told of what the cache has of it.                                       *)
Selectable(d) == IF front[d] = "menu" THEN User \ {d} ELSE listed[d]

Select(d) ==
  /\ chat[d][front[d]].peer = None
  /\ \E p \in Selectable(d) :
       /\ SetVisitor(d, p)
       /\ \/ UNCHANGED <<chat, observed, mainQ>>
          \/ LET p1 == visitor'[d] IN
             /\ chat' = [chat EXCEPT ![d][front[d]] = Opened(p1)]
             /\ observed' = [observed EXCEPT ![d] = @ \cup {p1}]
             /\ Raise(d, [tab : {front[d]}, msg : Told(d, p1)])
  /\ UNCHANGED <<serverVars, outbox, known, synced, listed, front, sent, boundVars>>

(* With a bug: the observer of a popped chat writes to the next one. *)
BackUnobserved(d) ==
  /\ chat[d][front[d]].peer # None
  /\ chat' = [chat EXCEPT ![d][front[d]] = Closed]
  /\ UNCHANGED <<serverVars, clientVars, visitor, front, sent, boundVars>>

(* The chat is popped.  Its observer stays, but what it appends to the     *)
(* arrays of the popped screen is never seen: its events are dropped.      *)
Back(d) ==
  /\ chat[d][front[d]].peer # None
  /\ chat' = [chat EXCEPT ![d][front[d]] = Closed]
  /\ \E q \in Kept(mainQ[d], {i \in DOMAIN mainQ[d] : mainQ[d][i].tab # front[d]}) :
       mainQ' = [mainQ EXCEPT ![d] = q]
  /\ UNCHANGED <<serverVars, outbox, known, observed, synced, listed, visitor, front,
                 sent, boundVars>>

SwitchTab(d) ==
  /\ \E t \in Tabs \ {front[d]} : front' = [front EXCEPT ![d] = t]
  /\ UNCHANGED <<serverVars, clientVars, visitor, chat, sent, boundVars>>

(* childByAutoId makes a key from the device's clock. *)
NewKey(d, k) ==
  /\ \A m \in sent : m.key # k
  /\ SteadyClock => \A m \in sent : m.from = d => m.key < k

(* With a bug: an unloaded conversation is taken for one that is listed. *)
NoneLoaded(d) == chat[d][front[d]].shown = <<>> /\ chat[d][front[d]].peer \in synced[d]

(* btn_Send takes a chat that shows nothing for a new conversation. *)
IsFirst(d) == chat[d][front[d]].shown = <<>>

(* With a bug: the lists are written before the message. *)
EntriesFirst(d, m) ==
  (IF IsFirst(d)
   THEN <<[what |-> "entry", of |-> <<d, visitor[d]>>],
          [what |-> "entry", of |-> <<visitor[d], d>>]>>
   ELSE <<>>) \o <<[what |-> "message", of |-> m]>>

(* With a bug: an entry is written at its owner, without the peer's key. *)
WritesWithoutPeer(d, m) ==
  <<[what |-> "message", of |-> m]>> \o
  (IF IsFirst(d)
   THEN <<[what |-> "entry", of |-> <<d>>], [what |-> "entry", of |-> <<visitor[d]>>]>>
   ELSE <<>>)

(* The message, then the entry of either chat list; the message goes to    *)
(* the conversation of the screen, the entries to the global visitor.      *)
Writes(d, m) ==
  <<[what |-> "message", of |-> m]>> \o
  (IF IsFirst(d)
   THEN <<[what |-> "entry", of |-> <<d, visitor[d]>>],
          [what |-> "entry", of |-> <<visitor[d], d>>]>>
   ELSE <<>>)

Send(d) ==
  LET p == chat[d][front[d]].peer IN
  /\ p # None
  /\ \E k \in Key :
       /\ NewKey(d, k)
       /\ LET m == [key |-> k, from |-> d, to |-> p] IN
          /\ sent' = sent \cup {m}
          /\ known' = [known EXCEPT ![d] = @ \cup {m}]
          /\ Raise(d, Events(d, p, {m}))
          /\ outbox' = [outbox EXCEPT ![d] = @ \o Writes(d, m)]
  /\ UNCHANGED <<serverVars, observed, synced, listed, screenVars, boundVars>>

-----------------------------------------------------------------------------
(* The main thread and the lists of device d. *)

(* With a bug: the sender of a message is not looked at. *)
AlwaysVisitor(d, m) == visitor[d]

(* With a bug: what is not the visitor's is taken for the user's own. *)
NotTheVisitor(d, m) == IF m.from = visitor[d] THEN visitor[d] ELSE d

(* The user object put beside a message: the current user, or whoever the  *)
(* visitor is when the event arrives.                                      *)
Author(d, m) == IF m.from = d THEN d ELSE visitor[d]

RunEvent(d) ==
  /\ mainQ[d] # <<>>
  /\ LET e == Head(mainQ[d]) IN
     chat' = [chat EXCEPT ![d][e.tab].shown =
                Append(@, [msg |-> e.msg, as |-> Author(d, e.msg)])]
  /\ mainQ' = [mainQ EXCEPT ![d] = Tail(@)]
  /\ UNCHANGED <<serverVars, outbox, known, observed, synced, listed, visitor, front,
                 sent, boundVars>>

(* The list of chats shows an entry of its owner, stored or just written.  *)
ShowRow(d) ==
  /\ \E p \in User \ listed[d] :
       /\ \/ <<d, p>> \in entries
          \/ \E w \in ToSet(outbox[d]) : w = [what |-> "entry", of |-> <<d, p>>]
       /\ listed' = [listed EXCEPT ![d] = @ \cup {p}]
  /\ UNCHANGED <<serverVars, outbox, known, observed, synced, mainQ, screenVars, sent,
                 boundVars>>

-----------------------------------------------------------------------------
(* The server and the network. *)

Stored(u, p) == ToSet(log) \cap Between(u, p)

(* The answer to the listen request: all of the conversation, by key.      *)
Sync(d) ==
  /\ \E p \in observed[d] \ synced[d] :
       LET new == Stored(d, p) \ known[d] IN
       /\ synced' = [synced EXCEPT ![d] = @ \cup {p}]
       /\ known' = [known EXCEPT ![d] = @ \cup new]
       /\ Raise(d, Events(d, p, new))
  /\ UNCHANGED <<serverVars, outbox, observed, listed, screenVars, sent, boundVars>>

(* Where in the log the device has something to learn, and where it begins. *)
Missing(d, p) == {i \in DOMAIN log : log[i] \in Between(d, p) \ known[d]}

(* With a bug: the newest message is delivered first. *)
NewestMissing(d, p) == {i \in Missing(d, p) : \A j \in Missing(d, p) : j <= i}

NextMissing(d, p) == {i \in Missing(d, p) : \A j \in Missing(d, p) : i <= j}

(* After that, every new message in the order in which it was stored.      *)
Arrive(d) ==
  /\ \E p \in synced[d] : \E i \in NextMissing(d, p) :
       /\ known' = [known EXCEPT ![d] = @ \cup {log[i]}]
       /\ Raise(d, Events(d, p, {log[i]}))
  /\ UNCHANGED <<serverVars, outbox, observed, synced, listed, screenVars, sent, boundVars>>

Stores(w) ==
  \/ w.what = "message" /\ w.of \in ToSet(log)
  \/ w.what = "entry" /\ w.of \in entries

(* Writing a message again changes nothing: its key is its own. *)
Store(ws) ==
  /\ \E new \in Kept(ws, {i \in DOMAIN ws : ws[i].what = "message" /\ ~ Stores(ws[i])}) :
       log' = log \o [i \in DOMAIN new |-> new[i].of]
  /\ entries' = entries \cup {w.of : w \in {v \in ToSet(ws) : v.what = "entry"}}

(* The server stores the first write a device has sent ... *)
Accept(d) ==
  /\ outbox[d] # <<>>
  /\ Store(<<Head(outbox[d])>>)
  /\ outbox' = [outbox EXCEPT ![d] = Tail(@)]
  /\ UNCHANGED <<known, observed, synced, mainQ, listed, screenVars, sent, boundVars>>

(* ... or rejects it, unless it is one that was stored before: the cache   *)
(* forgets it, but no observer of the app is for children that are         *)
(* removed, so the screen keeps it.                                        *)
Reject(d) ==
  /\ Rejects /\ outbox[d] # <<>> /\ ~ Stores(Head(outbox[d]))
  /\ LET w == Head(outbox[d]) IN
     known' = [known EXCEPT ![d] = {m \in @ : ~ (w.what = "message" /\ w.of = m)}]
  /\ outbox' = [outbox EXCEPT ![d] = Tail(@)]
  /\ UNCHANGED <<serverVars, observed, synced, mainQ, listed, screenVars, sent, boundVars>>

(* With a bug: all writes are cancelled with the connection. *)
NothingResent(d) == <<>>

(* Only transactions are cancelled when a connection breaks: every other   *)
(* write that has not been answered is sent again.                         *)
Resent(d) == outbox[d]

(* The connection breaks and is made again.  The server may have stored    *)
(* any number of the writes whose answers are lost; all are sent again,    *)
(* and the conversations are listened to anew.                             *)
Reconnect(d) ==
  /\ cuts < MaxCuts /\ cuts' = cuts + 1
  /\ \E n \in 0 .. Len(outbox[d]) : Store(SubSeq(outbox[d], 1, n))
  /\ outbox' = [outbox EXCEPT ![d] = Resent(d)]
  /\ synced' = [synced EXCEPT ![d] = {}]
  /\ UNCHANGED <<known, observed, mainQ, listed, screenVars, sent, kills>>

(* The process ends; nothing of the database is kept on the device.  What  *)
(* had been sent and not stored is lost.                                   *)
Kill(d) ==
  /\ kills < MaxKills /\ kills' = kills + 1
  /\ outbox' = [outbox EXCEPT ![d] = <<>>]
  /\ known' = [known EXCEPT ![d] = {}]
  /\ observed' = [observed EXCEPT ![d] = {}]
  /\ synced' = [synced EXCEPT ![d] = {}]
  /\ mainQ' = [mainQ EXCEPT ![d] = <<>>]
  /\ listed' = [listed EXCEPT ![d] = {}]
  /\ visitor' = [visitor EXCEPT ![d] = None]
  /\ chat' = [chat EXCEPT ![d] = [t \in Tabs |-> Closed]]
  /\ front' \in {[front EXCEPT ![d] = t] : t \in Tabs}
  /\ UNCHANGED <<serverVars, sent, cuts>>

-----------------------------------------------------------------------------
Init ==
  /\ log = <<>> /\ entries = {} /\ sent = {} /\ kills = 0 /\ cuts = 0
  /\ outbox = [d \in Device |-> <<>>] /\ mainQ = [d \in Device |-> <<>>]
  /\ known = [d \in Device |-> {}] /\ listed = [d \in Device |-> {}]
  /\ observed = [d \in Device |-> {}] /\ synced = [d \in Device |-> {}]
  /\ visitor = [d \in Device |-> None]
  /\ chat = [d \in Device |-> [t \in Tabs |-> Closed]]
  /\ front \in [Device -> Tabs]

Next ==
  \E d \in Device :
    \/ Select(d) \/ Back(d) \/ SwitchTab(d) \/ Send(d)
    \/ RunEvent(d) \/ ShowRow(d)
    \/ Sync(d) \/ Arrive(d) \/ Accept(d) \/ Reject(d)
    \/ Reconnect(d) \/ Kill(d)

Spec == Init /\ [][Next]_vars

(* The main thread runs and the connection works; nobody has to tap.       *)
Fairness ==
  \A d \in Device :
    WF_vars(RunEvent(d)) /\ WF_vars(Sync(d)) /\ WF_vars(Arrive(d)) /\ WF_vars(Accept(d))

FairSpec == Spec /\ Fairness
=============================================================================
