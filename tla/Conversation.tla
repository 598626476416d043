---------------------------- MODULE Conversation ----------------------------
(***************************************************************************)
(* What a chat promises, without databases, caches, queues or tabs: a      *)
(* student posts messages to another; the server stores them; a window     *)
(* that shows a conversation shows each of its messages once, a message of *)
(* the peer's only when it has been stored, and takes none back while it   *)
(* is open.                                                                *)
(***************************************************************************)
EXTENDS Naturals

CONSTANTS Student, Nobody, Window, Text, Owner(_)

VARIABLES posted,   \* the messages posted: from, to and a key of its own
          stored,   \* those the server has
          window    \* per window, whom it is with, what it shows, in how many rows

Shows(p) == [peer |-> p, shows |-> {}, size |-> 0]
Closed   == Shows(Nobody)

Post(m) ==
  /\ m.from # m.to /\ \A n \in posted : n.key # m.key
  /\ posted' = posted \cup {m}
  /\ UNCHANGED <<stored, window>>

(* The server stores messages, several when a connection is made again. *)
Store ==
  /\ stored' \in SUBSET posted /\ stored \subseteq stored'
  /\ UNCHANGED <<posted, window>>

Open(w, p) ==
  /\ window[w].peer = Nobody
  /\ window' = [window EXCEPT ![w] = Shows(p)]
  /\ UNCHANGED <<posted, stored>>

Show(w, m) ==
  /\ window[w].peer # Nobody /\ {m.from, m.to} = {Owner(w), window[w].peer}
  /\ m \notin window[w].shows
  /\ m \in IF m.from = Owner(w) THEN posted ELSE stored
  /\ window' = [window EXCEPT ![w].shows = @ \cup {m}, ![w].size = @ + 1]
  /\ UNCHANGED <<posted, stored>>

(* Windows are closed one at a time, or all of a device's at its end. *)
Close ==
  /\ \A w \in Window : window'[w] \in {window[w], Closed}
  /\ window' = [w \in Window |-> window'[w]]
  /\ UNCHANGED <<posted, stored>>

Init ==
  /\ posted = {} /\ stored = {}
  /\ window = [w \in Window |-> Closed]

Next ==
  \/ \E m \in Text : Post(m)
  \/ Store \/ Close
  \/ \E w \in Window : \/ \E p \in Student : Open(w, p)
                       \/ \E m \in posted : Show(w, m)

Spec == Init /\ [][Next]_<<posted, stored, window>>
=============================================================================
