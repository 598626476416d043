--------------------------- MODULE ChatProperties ---------------------------
(***************************************************************************)
(* What the chat promises its users.                                       *)
(***************************************************************************)
EXTENDS Chat

(* Every variable has its type: messages with a sender and a conversation, *)
(* rows with the user object put beside them.                              *)
TypeOK ==
  /\ log \in Seq(Message) /\ sent \subseteq Message /\ kills \in Nat /\ cuts \in Nat
  /\ entries \subseteq User \X User
  /\ outbox \in [Device -> Seq(Write)] /\ mainQ \in [Device -> Seq(Event)]
  /\ known \in [Device -> SUBSET Message]
  /\ observed \in [Device -> SUBSET User] /\ synced \in [Device -> SUBSET User]
  /\ listed \in [Device -> SUBSET User]
  /\ visitor \in [Device -> User \cup {None}]
  /\ chat \in [Device -> [Tabs -> Screen]] /\ front \in [Device -> Tabs]

Shown(d, t) == {chat[d][t].shown[i].msg : i \in DOMAIN chat[d][t].shown}

(* A message is on a screen once, although it may reach the cache as a     *)
(* local write, with the first data of the conversation or on its own, and *)
(* although conversations are observed again whenever a chat is opened.    *)
ShownOnce ==
  \A d \in Device, t \in Tabs :
    IsInjective([i \in DOMAIN chat[d][t].shown |-> chat[d][t].shown[i].msg])

(* When nothing is under way for a device, each of its open chats shows    *)
(* every stored message of its own conversation, also the one behind.      *)
Settled(d) ==
  mainQ[d] = <<>> /\ \A p \in observed[d] : p \in synced[d] /\ Missing(d, p) = {}

ShowsConversation ==
  \A d \in Device, t \in Tabs :
    Settled(d) /\ chat[d][t].peer # None =>
      Stored(d, chat[d][t].peer) \subseteq Shown(d, t)

(* The messages of the other one are on the screen in the order in which   *)
(* they were sent, whether they came with the first data or one by one.    *)
PeerOrder ==
  \A d \in Device, t \in Tabs :
    LET shown == chat[d][t].shown IN
    \A i, j \in DOMAIN shown :
      i < j /\ shown[i].msg.from # d /\ shown[j].msg.from # d =>
        shown[i].msg.key < shown[j].msg.key

(* A message is on the user's own side of the screen exactly when the user *)
(* sent it, even while the visitor is somebody else (cellForRowAt compares *)
(* the id of the user object beside the message with the current user's).  *)
OwnSide ==
  \A d \in Device, t \in Tabs : \A i \in DOMAIN chat[d][t].shown :
    chat[d][t].shown[i].as = d <=> chat[d][t].shown[i].msg.from = d

(* With a single tab in use, the user object beside a message is that of   *)
(* its author, although it is read from a global when the message arrives. *)
AuthorShown ==
  \A d \in Device, t \in Tabs : \A i \in DOMAIN chat[d][t].shown :
    chat[d][t].shown[i].as = chat[d][t].shown[i].msg.from

(* A conversation in somebody's list of chats has a message, also when a   *)
(* process ends between the three writes of the first one.                 *)
ListedIsStarted ==
  \A e \in entries : Stored(e[1], e[2]) # {}

(* Once every write has been stored, a conversation that has a message is  *)
(* in the lists of both.                                                   *)
StartedIsListed ==
  (\A d \in Device : outbox[d] = <<>>) =>
    \A m \in ToSet(log) : <<m.from, m.to>> \in entries /\ <<m.to, m.from>> \in entries

(* A stored message comes to the screen of everyone who keeps the chat     *)
(* open, in front or behind.                                               *)
Delivered ==
  \A d \in Device, t \in Tabs, k \in Key : \A p \in Device \ {d} :
    LET m == [key |-> k, from |-> p, to |-> d] IN
    (m \in ToSet(log) /\ chat[d][t].peer = p) ~>
      (m \in Shown(d, t) \/ chat[d][t].peer # p)

(* What was written reaches the server, although the answer, or the write  *)
(* itself, may be lost with a connection, unless the process ends first.   *)
SentIsStored ==
  \A d \in Device, k \in Key : \A p \in User \ {d} :
    LET m == [key |-> k, from |-> d, to |-> p] IN
    m \in sent \cap known[d] ~> m \in ToSet(log) \/ m \notin known[d]

(***************************************************************************)
(* The chats implement conversations: a tab of a device is a window, which *)
(* shows the messages of the rows of the open chat.                        *)
(***************************************************************************)
window ==
  [w \in Device \X Tabs |->
    LET c == chat[w[1]][w[2]] IN
    [peer |-> c.peer, shows |-> {c.shown[i].msg : i \in DOMAIN c.shown}, size |-> Len(c.shown)]]

OwnerOf(w) == w[1]

Abstract ==
  INSTANCE Conversation WITH
    Student <- User, Nobody <- None, Window <- Device \X Tabs, Text <- Message,
    Owner <- OwnerOf, posted <- sent, stored <- ToSet(log), window <- window

(* Over local writes, first data, later additions, resent writes, rejected *)
(* ones and killed processes, each window shows each message of its        *)
(* conversation once, the peer's only when stored, and takes none back.    *)
IsConversation == Abstract!Spec
=============================================================================
