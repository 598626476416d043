----------------------------- MODULE AvatarList -----------------------------
(***************************************************************************)
(* The avatars in the lists of chats and of friends (ListChatController,   *)
(* ListFriendController, UIImageView.loadAvatar) on the device of another  *)
(* student, while the student of AvatarUpdate changes the avatar.          *)
(*                                                                         *)
(* A row keeps the link that it was given when it was added.  The table    *)
(* has fewer cells than rows and uses a cell again for another row; each   *)
(* time a cell is given a row, its image is fetched in the background and  *)
(* put into the cell whenever the download ends.                           *)
(***************************************************************************)
EXTENDS AvatarUpdate

CONSTANTS Cell,      \* the cells of the table
          MaxRows,   \* bound: rows of the list
          MaxLoads   \* bound: downloads started

ASSUME ListAssumption == IsFiniteSet(Cell) /\ MaxRows \in Nat /\ MaxLoads \in Nat

VARIABLES rows,    \* the links of the rows, in the order they were added
          top,     \* the first row that is visible
          given,   \* per cell, the row it shows, or None
          image,   \* per cell, the image it shows
          loads,   \* the downloads under way
          started, \* downloads started so far
          causes,  \* history: per cell, why its image may be another row's
          recorded \* history: the links the record has had

listVars == <<rows, top, given, image, loads, started, causes>>
allVars  == <<vars, listVars, recorded>>

(* The other students do not change their avatars: theirs are served. *)
Others     == {Picked + i : i \in 1 .. MaxRows}
Reaches(l) == l \in Others \/ Present(l)

(* The rows that are visible with n rows from row t on. *)
Visible(n, t) == {i \in 1 .. n : i >= t /\ i < t + Cardinality(Cell)}

(* With a bug: a cell that has an image is not asked for another. *)
AskedIfEmpty(cs) == {c \in cs : image[c] = None}

Asked(cs) == cs

(* The cells cs are given the rows g, and each starts a download.  The     *)
(* image of the row a cell had before stays in it.                         *)
Give(rs, g, cs) ==
  LET asked == Asked(cs)
      new == {[cell |-> c, link |-> rs[g[c]], no |-> started + 1] : c \in asked} IN
  /\ given' = g
  /\ started < MaxLoads /\ started' = started + 1
  /\ loads' = loads \cup new
  /\ causes' = [c \in Cell |-> IF c \in cs THEN {} ELSE causes[c]]
  /\ UNCHANGED image

(* The student's row has the link of the record or, in the list of chats,  *)
(* that of the time the conversation was begun.                            *)
RowLinks ==
  {Picked + Len(rows) + 1} \cup
  IF \A i \in DOMAIN rows : rows[i] \in Others THEN recorded ELSE {}

(* A child was added: the whole table is loaded again, with any cell for   *)
(* any row that is visible.                                                *)
RowAdded ==
  /\ Len(rows) < MaxRows
  /\ \E l \in RowLinks :
       LET rs == Append(rows, l) IN
       /\ rows' = rs
       /\ \E g \in [Cell -> Visible(Len(rs), top) \cup {None}] :
            /\ \A i \in Visible(Len(rs), top) : \E c \in Cell : g[c] = i
            /\ \A c, e \in Cell : g[c] = g[e] /\ c # e => g[c] = None
            /\ Give(rs, g, {c \in Cell : g[c] # None})
  /\ UNCHANGED top

(* The list is scrolled by a row: the cell of the row that leaves is given *)
(* the row that comes.                                                     *)
Scroll ==
  /\ \E t \in {top - 1, top + 1} :
       /\ t >= 1 /\ t + Cardinality(Cell) - 1 <= Len(rows)
       /\ top' = t
       /\ LET comes == CHOOSE i \in Visible(Len(rows), t) : i \notin Visible(Len(rows), top) IN
          \E c \in Cell :
            /\ given[c] \notin Visible(Len(rows), t)
            /\ Give(rows, [given EXCEPT ![c] = comes], {c})
  /\ UNCHANGED rows

(* A download ends, with the image or, for a link that is not served,      *)
(* without one.                                                            *)
LoadEnds(l) ==
  LET own == l.link = rows[given[l.cell]] IN
  /\ l \in loads /\ loads' = loads \ {l}
  /\ image' = IF Reaches(l.link) THEN [image EXCEPT ![l.cell] = l.link] ELSE image
  /\ causes' =
       [causes EXCEPT ![l.cell] = @ \cup
          (IF ~ own /\ image[l.cell] = rows[given[l.cell]] THEN {"overtaken"} ELSE {}) \cup
          (IF own /\ ~ Reaches(l.link) THEN {"unserved"} ELSE {})]
  /\ UNCHANGED <<rows, top, given, started>>

-----------------------------------------------------------------------------
ListInit ==
  /\ Init
  /\ rows = <<>> /\ top = 1 /\ loads = {} /\ started = 0
  /\ given = [c \in Cell |-> None] /\ image = [c \in Cell |-> None]
  /\ causes = [c \in Cell |-> {}] /\ recorded = {record}

Ends == \E l \in loads : LoadEnds(l)

ListNext ==
  \/ Next /\ recorded' = recorded \cup {record'} /\ UNCHANGED listVars
  \/ (RowAdded \/ Scroll \/ Ends) /\ UNCHANGED <<vars, recorded>>

ListSpec == ListInit /\ [][ListNext]_allVars

-----------------------------------------------------------------------------
(* When the downloads for a cell have ended, it shows the image of its     *)
(* row, unless the download for a row it showed before ended after its     *)
(* own, or the link of the row was no longer served.                       *)
ImageCauses ==
  \A c \in Cell :
    given[c] # None /\ (\A l \in loads : l.cell # c) =>
      image[c] = rows[given[c]] \/ causes[c] # {}
=============================================================================
