------------------------------- MODULE MCDesk -------------------------------
(***************************************************************************)
(* Small screens on a small desk: single screens, and two side by side with*)
(* the left one at negative coordinates.                                   *)
(***************************************************************************)
EXTENDS Desk, TLC

Box(left, top, w, h) == [x |-> left, y |-> top, width |-> w, height |-> h]

Single == {Box(0, 0, 2, 2)}
Wide == {Box(-2, 0, 2, 1), Box(0, 0, 1, 1)}

MCScreens == (1 :> {Single}) @@ (2 :> {Single, Wide}) @@ (3 :> {{Box(0, 0, 1, 1)}})
Spot(left, top) == [x |-> left, y |-> top]
MCCorners == {Spot(-3, 0), Spot(3, -1), Spot(1, -2)}

=============================================================================
