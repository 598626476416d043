--------------------------- MODULE StudentsClient ---------------------------
(***************************************************************************)
(* The node "Students" of the realtime database: the records the server    *)
(* has, the view of them this client holds, and the childAdded observers   *)
(* of the app.  A handler looks only at the child whose key is the uid it  *)
(* captured, so an observer is kept until that one event is raised.        *)
(***************************************************************************)
EXTENDS MainQueue

CONSTANT Rejects     \* may the server reject a write?

ASSUME RejectsIsKnown == Rejects \in BOOLEAN

VARIABLES students,  \* the keys of the records on the server
          synced,    \* has the server's data reached this process?
          pending,   \* the keys written locally and not yet acknowledged
          dbQ,       \* the calls waiting for the SDK's worker queue
          waiting    \* the observers whose own child has not been raised

studentsVars == <<students, synced, pending, dbQ, waiting>>

Observer == [who : Nat, uid : Account]

DbCall == [op : {"observe", "set"}, who : Nat, uid : Account]

Observe(i, u) == [op |-> "observe", who |-> i, uid |-> u]
SetValue(u)   == [op |-> "set",     who |-> 0, uid |-> u]

StudentsTypeOK ==
  /\ students \subseteq Account
  /\ synced \in BOOLEAN
  /\ pending \subseteq Account
  /\ dbQ \in Seq(DbCall)
  /\ waiting \subseteq Observer

(* What the local cache shows: the server's data and the local writes. *)
view == (IF synced THEN students ELSE {}) \cup pending

due == {o \in waiting : o.uid \in view}

(* The worker raises the events of one change, each as a block of its own, *)
(* in the order in which the observers of that child were added.           *)
Raise ==
  \E o \in due :
    /\ \A p \in due : p.uid = o.uid => o.who <= p.who
    /\ waiting' = waiting \ {o}
    /\ Dispatch(<<Added(o.who, o.uid)>>)
    /\ UNCHANGED <<students, synced, pending, dbQ>>

(* The worker takes the next call once the events of the last are raised. *)
NextCall(op) == due = {} /\ dbQ # <<>> /\ Head(dbQ).op = op /\ dbQ' = Tail(dbQ)

RunObserve ==
  /\ NextCall("observe")
  /\ waiting' = waiting \cup {[who |-> Head(dbQ).who, uid |-> Head(dbQ).uid]}
  /\ UNCHANGED <<students, synced, pending, mainQ>>

RunSetValue ==
  /\ NextCall("set")
  /\ pending' = pending \cup {Head(dbQ).uid}
  /\ UNCHANGED <<students, synced, waiting, mainQ>>

(* The server answers the listen request with its data. *)
Sync ==
  /\ due = {} /\ waiting # {} /\ ~synced
  /\ synced' = TRUE
  /\ UNCHANGED <<students, pending, dbQ, waiting, mainQ>>

(* The server stores a write, or rejects it and the client takes it back. *)
PushAccepted ==
  due = {} /\ \E k \in pending :
    /\ students' = students \cup {k}
    /\ pending' = pending \ {k}
    /\ UNCHANGED <<synced, dbQ, waiting, mainQ>>

PushRejected ==
  Rejects /\ due = {} /\ \E k \in pending :
    /\ pending' = pending \ {k}
    /\ UNCHANGED <<students, synced, dbQ, waiting, mainQ>>
=============================================================================
