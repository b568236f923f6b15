-------------------------------- MODULE Store --------------------------------
(***************************************************************************)
(* How a configuration file is written, removed and read                   *)
(* (crates/is-core/src/store.rs), one call to the file system at a time.   *)
(* Any call may fail and the process may end between any two of them.  The *)
(* workspace file is written under the agent's lock, so one request is     *)
(* under way at a time; a removal, which is not, is taken not to overlap   *)
(* a save.                                                                 *)
(***************************************************************************)
EXTENDS Naturals

CONSTANTS
  Content,    \* documents
  Missing,    \* no such file
  Torn,       \* a file that does not parse
  Nothing,    \* no request
  MaxDamage   \* bound: damage to the primary file

ASSUME StoreAssumption ==
  /\ Missing \notin Content /\ Torn \notin Content /\ Nothing \notin Content
  /\ Missing # Torn /\ Missing # Nothing
  /\ MaxDamage \in Nat

VARIABLES
  path,       \* workspace.json
  backup,     \* workspace.json.bak
  tmp,        \* workspace.json.tmp
  step,       \* the next call of the request under way
  new,        \* what is being saved, Missing for clear_workspace
  given,      \* a workspace was saved and not given up since
  damage      \* damage so far

vars == <<path, backup, tmp, step, new, given, damage>>

File == Content \cup {Missing, Torn}

Step == {"idle", "create", "write", "backup", "copy", "rename",
         "remove path", "remove backup", "remove tmp", "done"}

Init ==
  /\ path = Missing /\ backup = Missing /\ tmp = Missing
  /\ step = "idle" /\ new = Nothing
  /\ given = FALSE /\ damage = 0

-----------------------------------------------------------------------------
(* write_atomic *)

SaveWorkspace(d) ==
  /\ step = "idle"
  /\ step' = "create" /\ new' = d
  /\ UNCHANGED <<path, backup, tmp, given, damage>>

\* Wrong form: the file is written in place.
CreateInPlace ==
  /\ step = "create"
  /\ path' = Torn /\ tmp' = Torn /\ step' = "write"
  /\ UNCHANGED <<backup, new, given, damage>>

\* File::create truncates.
Create ==
  /\ step = "create"
  /\ tmp' = Torn /\ step' = "write"
  /\ UNCHANGED <<path, backup, new, given, damage>>

\* write_all and sync_all; then is there a previous copy to keep?
Write ==
  /\ step = "write"
  /\ tmp' = new
  /\ step' = IF path = Missing THEN "rename" ELSE "backup"
  /\ UNCHANGED <<path, backup, new, given, damage>>

\* Wrong form of the copy: the file itself becomes the backup.
BackupByRename ==
  /\ step = "backup"
  /\ backup' = path /\ path' = Missing /\ step' = "copy"
  /\ UNCHANGED <<tmp, new, given, damage>>

\* fs::copy, begun: the old backup is gone.
Backup ==
  /\ step = "backup"
  /\ backup' = Torn /\ step' = "copy"
  /\ UNCHANGED <<path, tmp, new, given, damage>>

\* fs::copy, finished.
Copy ==
  /\ step = "copy"
  /\ backup' = path /\ step' = "rename"
  /\ UNCHANGED <<path, tmp, new, given, damage>>

\* The save takes effect.
Rename ==
  /\ step = "rename"
  /\ path' = tmp /\ tmp' = Missing
  /\ step' = "done" /\ given' = TRUE
  /\ UNCHANGED <<backup, new, damage>>

-----------------------------------------------------------------------------
(* clear_workspace *)

ClearWorkspace ==
  /\ step = "idle"
  /\ step' = "remove path" /\ new' = Missing
  /\ UNCHANGED <<path, backup, tmp, given, damage>>

\* The removal takes effect.
RemovePath ==
  /\ step = "remove path"
  /\ path' = Missing /\ given' = FALSE
  /\ step' = "remove backup"
  /\ UNCHANGED <<backup, tmp, new, damage>>

RemoveBackup ==
  /\ step = "remove backup"
  /\ backup' = Missing /\ step' = "remove tmp"
  /\ UNCHANGED <<path, tmp, new, given, damage>>

RemoveTmp ==
  /\ step = "remove tmp"
  /\ tmp' = Missing /\ step' = "done"
  /\ UNCHANGED <<path, backup, new, given, damage>>

-----------------------------------------------------------------------------
\* Ok(()).
Return ==
  /\ step = "done"
  /\ step' = "idle" /\ new' = Nothing
  /\ UNCHANGED <<path, backup, tmp, given, damage>>

\* A call fails and the error is returned, or the process ends: nothing is undone.
Interrupt ==
  /\ step # "idle"
  /\ step' = "idle" /\ new' = Nothing
  /\ UNCHANGED <<path, backup, tmp, given, damage>>

\* The medium loses what was once written.
Damage ==
  /\ path \in Content /\ damage < MaxDamage
  /\ path' = Torn
  /\ damage' = damage + 1
  /\ UNCHANGED <<backup, tmp, step, new, given>>

Next ==
  \/ \E d \in Content : SaveWorkspace(d)
  \/ Create \/ Write \/ Backup \/ Copy \/ Rename
  \/ ClearWorkspace \/ RemovePath \/ RemoveBackup \/ RemoveTmp
  \/ Return \/ Interrupt \/ Damage

Spec == Init /\ [][Next]_vars

\* read_with_fallback: Missing is "this machine has not joined a workspace", Torn
\* an error.
ReadWithFallback == IF path = Torn /\ backup \in Content THEN backup ELSE path

-----------------------------------------------------------------------------
(* Properties *)

\* How far the request is, seen from outside.
Progress == IF step = "idle" THEN "idle"
            ELSE IF step \in {"remove backup", "remove tmp", "done"} THEN "done" ELSE "asked"

\* The file the rest of the program relies on.
Atomic == INSTANCE AtomicFile WITH
  Damaged <- Torn, value <- path, request <- new,
  progress <- Progress

\* Saving and clearing are atomic whatever fails and wherever the process ends:
\* workspace.json changes in the one step that makes the save or the removal take
\* effect, and success is reported only after it (write_atomic, clear_workspace).
ImplementsAtomicFile == Atomic!Spec

\* "A machine that loses power mid-write must come back up with the old workspace,
\* not with no workspace" (store.rs:16): reading finds no workspace only if none was
\* saved or the last one was given up, even when the file is damaged.
NoSilentReset == ReadWithFallback = Missing => ~given

=============================================================================
