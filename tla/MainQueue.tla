----------------------------- MODULE MainQueue -----------------------------
(***************************************************************************)
(* The dispatch queue of the main thread.  Every Firebase callback and     *)
(* every auth-state listener of StarKids runs as a block on it: the SDK    *)
(* appends a block from its own queue and the run loop executes the blocks *)
(* in order, one at a time, between two taps of the user.                  *)
(***************************************************************************)
EXTENDS Naturals, Sequences

CONSTANTS Account,   \* the accounts of the Firebase project, by uid
          None,      \* "no user": nil in the program
          Unset      \* the previous uid of a listener that was never called

ASSUME NoneIsNoAccount == None \notin Account /\ Unset \notin Account \cup {None}

VARIABLE mainQ       \* the blocks waiting for the main thread, a sequence

MaybeUser == Account \cup {None}

(***************************************************************************)
(* The blocks.  "who" is the index of an auth-state listener, "uid" an     *)
(* account; a block that needs only one of them leaves the other at its    *)
(* neutral value.                                                          *)
(***************************************************************************)
Block == [do : {"added"}, who : Nat, uid : Account]
         \cup [do  : {"first", "notify", "signedUp", "signedIn", "restored"},
               who : Nat, uid : {None}]

First(i)    == [do |-> "first",  who |-> i, uid |-> None]
Notify(i)   == [do |-> "notify", who |-> i, uid |-> None]
Added(i, u) == [do |-> "added",  who |-> i, uid |-> u]
Reply(name) == [do |-> name,     who |-> 0, uid |-> None]

(* The SDK appends blocks; the main thread removes the one it runs. *)
Dispatch(blocks) == mainQ' = mainQ \o blocks

Runs(name)   == mainQ # <<>> /\ Head(mainQ).do = name
Done(blocks) == mainQ' = Tail(mainQ) \o blocks

(***************************************************************************)
(* A notification calls its observers one after the other in a single      *)
(* block: between two of them no tap is handled, although the auth work    *)
(* queue may change the user.                                              *)
(***************************************************************************)
BetweenBlocks == Runs("notify") => Head(mainQ).who = 1
=============================================================================
