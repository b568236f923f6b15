----------------------------- MODULE AtomicFile -----------------------------
(***************************************************************************)
(* What the rest of the program expects of a configuration file: it holds  *)
(* a document or nothing, a save or a removal takes effect in one step or  *)
(* not at all, and only one that took effect is reported as done.  A crash *)
(* forgets the request, never the content.  Damage to the medium is visible*)
(* as damage.                                                              *)
(***************************************************************************)
EXTENDS Naturals

CONSTANTS
  Content,   \* the documents a file can hold
  Missing,   \* there is no file
  Damaged,   \* there is one and it does not parse
  Nothing    \* no request

VARIABLES
  value,     \* the content of the file
  request,   \* the content asked for, Missing for a removal
  progress,  \* how far the request is: "idle", "asked" or "done"
  damage     \* how often the medium lost the content

vars == <<value, request, progress, damage>>

Init == value = Missing /\ request = Nothing /\ progress = "idle" /\ damage = 0

Ask(c) ==
  /\ progress = "idle"
  /\ request' = c /\ progress' = "asked"
  /\ UNCHANGED <<value, damage>>

Commit ==
  /\ progress = "asked"
  /\ value' = request
  /\ progress' = "done"
  /\ UNCHANGED <<request, damage>>

\* The caller is told that it worked.
Succeed ==
  /\ progress = "done"
  /\ request' = Nothing /\ progress' = "idle"
  /\ UNCHANGED <<value, damage>>

\* An error is reported, or the process ends: the request may have taken effect.
GiveUp ==
  /\ progress # "idle"
  /\ request' = Nothing /\ progress' = "idle"
  /\ UNCHANGED <<value, damage>>

Damage ==
  /\ value \in Content
  /\ value' = Damaged
  /\ damage' = damage + 1
  /\ UNCHANGED <<request, progress>>

Next ==
  \/ \E c \in Content \cup {Missing} : Ask(c)
  \/ Commit \/ Succeed \/ GiveUp \/ Damage

Spec == Init /\ [][Next]_vars

=============================================================================
