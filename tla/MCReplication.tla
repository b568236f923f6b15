--------------------------- MODULE MCReplication ----------------------------
(***************************************************************************)
(* Model values for Replication: two documents both machines may start     *)
(* from, and who edits what.  The first machine founded the workspace and  *)
(* paired the second, and both have merged the result.                     *)
(***************************************************************************)
EXTENDS Replication, TLC

CONSTANTS v1, v2

MCValue == {v1, v2}

Paired(d, m) == Edited(d, UpdateOf(d, 1, SlotField(m), v1))

MCInitialDoc2 == Paired(Create(1, v1, v1, v1), 2)

\* The first machine removed the second again, and both have merged that too.
MCInitialDocUnpaired ==
  Edited(MCInitialDoc2, UpdateOf(MCInitialDoc2, 1, SlotField(2), Removed))

\* The first machine pairs the second again and may unpair it once more, while the
\* second edits its own record: the same register.
MCMembers == {<<1, "pair">>, <<1, "unpair">>, <<2, "machine">>}

\* Both rename the workspace.
MCNames == Machine \X {"name"}
=============================================================================
