-------------------------------- MODULE Desk --------------------------------
(***************************************************************************)
(* The arrangement of the machines of a workspace: machines are paired and *)
(* put down, report their screens, are dragged about and renamed, go online*)
(* and offline, and the pointer is routed over the result (Layout).        *)
(*                                                                         *)
(* Whoever changes a record reads it, changes it and writes it back whole, *)
(* and may be late: another task, on this machine or on another one, wrote *)
(* the record in between, or it was removed.  The document is one and the  *)
(* same everywhere here (Replication is about its copies), written in the  *)
(* order of the stamps: an edit made on an old copy of it is one that was  *)
(* read early.                                                             *)
(***************************************************************************)
EXTENDS Layout

CONSTANTS
  Machine,     \* machine identifiers, as numbers
  Founder,     \* the machine the workspace was created on
  Screens,     \* Screens[m]: the sets of screens machine m may have, in its own coordinates
  Running,     \* the machines that stay on, or are switched on again
  Reporting,   \* bound: the machines whose refresher is followed
  Dragged,     \* bound: the machines whose cards people move and rename
  Corners,     \* bound: where cards are dropped
  MaxEdits,    \* bound: records that people's edits have read and not written back
  MaxRight,    \* bound: no machine is paired onto a desk wider than this
  Reach        \* bound: how far beyond an edge the pointer is pushed

ASSUME DeskAssumption ==
  /\ Running \subseteq Reporting /\ Reporting \subseteq Machine
  /\ Dragged \subseteq Machine
  /\ Machine \subseteq Nat /\ IsFiniteSet(Machine) /\ Founder \in Machine
  /\ MaxEdits \in Nat /\ Reach \in Nat \ {0} /\ MaxRight \in Int /\ Corners \subseteq Point
  /\ \A m \in Machine : Screens[m] \subseteq SUBSET Rect /\ {} \notin Screens[m]
  /\ \A m \in Machine : \A s \in Screens[m] :
       IsFiniteSet(s) /\ \A r \in s : r.width > 0 /\ r.height > 0

VARIABLES
  members,     \* the machines of the document
  position,    \* position[m]: MachineRecord.position
  screens,     \* screens[m]: MachineRecord.displays, empty until reported
  edits,       \* records read by edit_machine and not yet written back
  reports,     \* records read by publish_local_facts and not yet written back
  due          \* machines with a change their refresher has not looked at

document == <<members, position, screens>>
tasks == <<edits, reports, due>>
vars == <<document, tasks>>

Origin == [x |-> 0, y |-> 0]

\* What a task keeps of the record of m.
Record(m) == [machine |-> m, position |-> position[m], screens |-> screens[m]]

\* The machines that can be routed to and what they cover.
Placed == {m \in members : screens[m] # {}}
Desktop == [m \in Placed |-> Bounds(screens[m], position[m])]

Init ==
  /\ members = {Founder}
  /\ position = [m \in Machine |-> Origin]
  /\ \E s \in Screens[Founder] : screens = [m \in Machine |-> IF m = Founder THEN s ELSE {}]
  /\ edits = {} /\ reports = {} /\ due = {}

\* Wrong form of the refresher: it looks only when its machine has just been paired.
AnnouncedToNew == due \cup ((members' \ members) \cap Reporting)

\* announce_change, here or after the merge on another machine: every refresher has a
\* change to look at.
Announced == due \cup (members' \cap Reporting)

\* free_position: to the right of everything that has a size.
FreePosition ==
  [x |-> IF Placed = {} THEN 0 ELSE Max({MaxX(Desktop[m]) : m \in Placed}), y |-> 0]

\* pair: the record has a position and no screens yet.
Pair(m) ==
  /\ m \notin members /\ FreePosition.x <= MaxRight
  /\ members' = members \cup {m}
  /\ position' = [position EXCEPT ![m] = FreePosition]
  /\ screens' = [screens EXCEPT ![m] = {}]
  /\ due' = Announced
  /\ UNCHANGED <<edits, reports>>

\* Wrong form of unpair: the record of the machine stays behind.
UnpairKeepsRecord(m) ==
  /\ m \in members \ {Founder}
  /\ members' = members \ {m}
  /\ due' = Announced
  /\ UNCHANGED <<position, screens, edits, reports>>

\* unpair, from the founder: the record is gone, and what tasks have read of it is not.
Unpair(m) ==
  /\ m \in members \ {Founder}
  /\ members' = members \ {m}
  /\ screens' = [screens EXCEPT ![m] = {}]
  /\ position' = [position EXCEPT ![m] = Origin]
  /\ due' = Announced
  /\ UNCHANGED <<edits, reports>>

\* upsert_machine: the record as it is given takes the place of whatever is there by
\* now, a tombstone included, and the change is announced.
Upsert(r) ==
  /\ members' = members \cup {r.machine}
  /\ position' = [position EXCEPT ![r.machine] = r.position]
  /\ screens' = [screens EXCEPT ![r.machine] = r.screens]
  /\ due' = Announced

\* edit_machine, and rename_this_machine: a record is read.
ReadRecord(m) ==
  /\ m \in members \cap Dragged
  /\ Cardinality(edits) < MaxEdits
  /\ edits' = edits \cup {Record(m)}
  /\ UNCHANGED <<document, reports, due>>

\* It is written back, for one that was read.
Edit(r, with) ==
  /\ r \in edits
  /\ edits' = edits \ {r}
  /\ Upsert(with)
  /\ UNCHANGED reports

\* rename_machine, set_input, rename_this_machine: only what is left out here changes.
RenameMachine(r) == Edit(r, r)

\* Wrong form of move_machine: the machine's own origin is put on the corner.
MovedOrigin(r, corner) == [r EXCEPT !.position = corner]

\* The record of a machine dropped on a corner, by the screens the record has.
Moved(r, corner) ==
  LET all == Bounds(r.screens, r.position)
      offset == IF r.screens = {} THEN Origin
                ELSE [x |-> all.x - r.position.x, y |-> all.y - r.position.y]
  IN  [r EXCEPT !.position = [x |-> corner.x - offset.x, y |-> corner.y - offset.y]]

\* move_machine: the corner of everything the machine covers lands there.
MoveMachine(r, corner) == Edit(r, Moved(r, corner))

\* The refresher's look at this machine's own record, after a change: it is read, and
\* kept for writing if the screens are others by now.
PublishLocalFacts(m, s) ==
  /\ m \in due /\ \A r \in reports : r.machine # m
  /\ due' = due \ {m}
  /\ reports' = IF m \in members /\ screens[m] # s
                THEN reports \cup {[Record(m) EXCEPT !.screens = s]} ELSE reports
  /\ UNCHANGED <<document, edits>>

\* The second half of publish_local_facts.
WriteFacts(m) ==
  \E r \in reports :
    /\ r.machine = m
    /\ reports' = reports \ {r}
    /\ Upsert(r)
    /\ UNCHANGED edits

Refresher(m) == (\E s \in Screens[m] : PublishLocalFacts(m, s)) \/ WriteFacts(m)

Next ==
  \/ \E m \in Machine :
       Pair(m) \/ Unpair(m) \/ ReadRecord(m) \/ Refresher(m)
  \/ \E r \in edits : RenameMachine(r) \/ \E c \in Corners : MoveMachine(r, c)

Spec == Init /\ [][Next]_vars

\* The refresher waits for changes and publishes, in a loop that does nothing else; one
\* that falls too far behind the changes ends (lib.rs:391), which is left out.  The other
\* machines may be switched off at any moment, between two halves too, and nothing is
\* assumed of people.
Fairness == \A m \in Running : WF_vars(Refresher(m))

FairSpec == Spec /\ Fairness

-----------------------------------------------------------------------------
(* Properties *)

\* Every variable holds what its Rust type admits, only a machine of the document has
\* a place and screens, and a refresher writes one record at a time.
TypeOK ==
  /\ members \subseteq Machine
  /\ \A m \in Machine \ members : screens[m] = {} /\ position[m] = Origin
  /\ position \in [Machine -> Point]
  /\ \A m \in Machine : screens[m] = {} \/ screens[m] \in Screens[m]
  /\ \A r \in edits \cup reports :
       /\ r \in [machine : Machine, position : Point, screens : SUBSET Rect]
       /\ r.screens \in Screens[r.machine] \/ (r.screens = {} /\ r \notin reports)
  /\ \A q, r \in reports : q.machine = r.machine => q = r
  /\ due \subseteq Reporting

NoOverlap == \A m, n \in Placed : m # n => Disjoint(Desktop[m], Desktop[n])

\* The points just outside a rectangle the pointer is pushed to.
Outside(r) ==
  {p \in [x : (r.x - Reach) .. (MaxX(r) + Reach - 1), y : (r.y - Reach) .. (MaxY(r) + Reach - 1)] :
     ~Contains(r, p)}

\* The last pixel of a desk in any direction.
Extent(desk) ==
  Max({Magnitude(c) : c \in UNION {{desk[m].x, desk[m].y, MaxX(desk[m]), MaxY(desk[m])}
                                   : m \in DOMAIN desk}})

\* The machines under the k-th pixel of a walk from p, and under all of them.
MetAt(desk, p, d, k) == {m \in DOMAIN desk : Contains(desk[m], Along(p, d, k))}
Underneath(desk, p, d) == [k \in 1 .. (2 * Extent(desk) + 1) |-> MetAt(desk, p, d, k)]

\* Where a walk that leaves a machine at a pixel ends: on the first machine it stops at.
EndsLikeTheWalk(to, under, online, edge, current, exit, d) ==
  LET stops == IF edge = "Block" THEN Placed ELSE online
      met == {k \in DOMAIN under : under[k] \cap (stops \ {current}) # {}}
      there == under[Min(met)]
  IN  IF met = {} \/ there \cap online = {} THEN to = At(current, exit)
      ELSE to.machine \in there /\ to.point = Along(exit, d, Min(met))

\* No task is between its two halves.
AtRest == edits = {} /\ reports = {}

\* Requirement 8, against a walk: whatever machines are online, the pointer goes to
\* the machine it would run into one pixel after the other.  Under Block an offline
\* machine on the way stops it at the boundary, under SkipOver the walk passes over
\* it; either way it never ends on a machine that is offline.
RoutedAlways ==
  NoOverlap => \A desk \in {Desktop} : \A current \in Placed :
    \A target \in Outside(desk[current]) :
      LET exit == Clamp(desk[current], target)
          d == DirectionOf(exit, target)
          under == Underneath(desk, exit, d)
      IN  \A online \in SUBSET Placed, edge \in {"Block", "SkipOver"} :
            EndsLikeTheWalk(ResolveCursor(desk, online, edge, current, target),
                            under, online, edge, current, exit, d)

\* A crossing can be taken back: one pixel in the opposite direction returns the
\* pointer to the machine and the very pixel it left, wherever the machines lie,
\* as long as they do not overlap and the first one is still online.
ReturnsAlways ==
  NoOverlap => \A desk \in {Desktop} : \A current \in Placed :
    \A target \in Outside(desk[current]) :
    \A others \in SUBSET (Placed \ {current}), edge \in {"Block", "SkipOver"} :
      LET online == others \cup {current}
          exit == Clamp(desk[current], target)
          d == DirectionOf(exit, target)
          to == ResolveCursor(desk, online, edge, current, target)
          back == Along(to.point, d, -1)
      IN  to.machine # current =>
            ResolveCursor(desk, online, edge, to.machine, back) = At(current, exit)

\* The two again for TLC, on the desks it meets while no task is between its halves.
\* That is every desk there is: a task that has read a record and not written it has
\* changed nothing on the desk, so the same desk comes about without its having read.
RoutedLikeAWalk == AtRest => RoutedAlways
CrossingReturns == AtRest => ReturnsAlways

\* "Moves a machine so that the corner of everything it covers lands on x, y": the card
\* shows where it was dropped, whatever screens the machine has reported since the move
\* began, for the move puts back the ones it measured with.  A card that jumps without
\* having been dropped goes back to an earlier record of its machine, whole, that some
\* task had read (move_machine, edit_machine, publish_local_facts).
DropsWhereAsked ==
  [][\A m \in Machine : position'[m] # position[m] /\ m \in members \cap members'
       => \/ Record(m)' \in edits \cup reports
          \/ \E c \in Corners :
               IF screens'[m] = {} THEN position'[m] = c
               ELSE Desktop'[m].x = c.x /\ Desktop'[m].y = c.y]_vars

\* A machine of the workspace does not stay "invisible on the canvas and impossible to
\* route a cursor to" (lib.rs:732): whoever writes back a record read before its screens
\* were reported, and however often, they are reported again (publish_local_facts).
ReportedAgain ==
  \A m \in Running :
    (m \in members /\ screens[m] = {}) ~> (m \in members => screens[m] # {})

=============================================================================
