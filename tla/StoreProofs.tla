---------------------------- MODULE StoreProofs -----------------------------
(***************************************************************************)
(* The steps of write_atomic and clear_workspace implement an atomic file, *)
(* for any documents and any damage.                                       *)
(***************************************************************************)
EXTENDS Store, TLAPS

Saving == {"create", "write", "backup", "copy", "rename"}
Removing == {"remove path", "remove backup", "remove tmp"}

\* Between its steps a request remembers what was asked for, what is in the
\* temporary file once it is synced is exactly that, and a workspace that was not
\* given up is in place.
Inv ==
  /\ step \in Step
  /\ step = "idle" => new = Nothing
  /\ step \in Saving => new \in Content
  /\ step \in Removing => new = Missing
  /\ step = "done" => new \in Content \cup {Missing}
  /\ step \in {"backup", "copy", "rename"} => tmp = new
  /\ given => path # Missing

\* Every file operation keeps the invariant.
LEMMA StepKeeps == Inv /\ [Next]_vars => Inv'
<1> SUFFICES ASSUME Inv, [Next]_vars PROVE Inv'
  OBVIOUS
<1> USE StoreAssumption DEF Inv, Step, Saving, Removing
<1>1. ASSUME NEW d \in Content, SaveWorkspace(d) PROVE Inv'
  BY <1>1 DEF SaveWorkspace
<1>2. CASE Create
  BY <1>2 DEF Create
<1>3. CASE Write
  BY <1>3 DEF Write
<1>4. CASE Backup
  BY <1>4 DEF Backup
<1>5. CASE Copy
  BY <1>5 DEF Copy
<1>6. CASE Rename
  BY <1>6 DEF Rename
<1>7. CASE ClearWorkspace
  BY <1>7 DEF ClearWorkspace
<1>8. CASE RemovePath
  BY <1>8 DEF RemovePath
<1>9. CASE RemoveBackup
  BY <1>9 DEF RemoveBackup
<1>10. CASE RemoveTmp
  BY <1>10 DEF RemoveTmp
<1>11. CASE Return
  BY <1>11 DEF Return
<1>12. CASE Interrupt
  BY <1>12 DEF Interrupt
<1>13. CASE Damage
  BY <1>13 DEF Damage
<1>14. CASE UNCHANGED vars
  BY <1>14 DEF vars
<1> QED
  BY <1>1, <1>2, <1>3, <1>4, <1>5, <1>6, <1>7, <1>8, <1>9, <1>10, <1>11, <1>12, <1>13, <1>14
     DEF Next

\* Reading finds no workspace only if none was saved or the last one was given up.
THEOREM ResetsAreAskedFor == Spec => []NoSilentReset
<1>1. Init => Inv
  BY DEF Init, Inv, Step, Saving, Removing
<1>2. Inv => NoSilentReset
  BY StoreAssumption DEF Inv, NoSilentReset, ReadWithFallback
<1> QED BY <1>1, <1>2, StepKeeps, PTL DEF Spec

\* Each step of the store is a step of the atomic file or changes nothing there.
LEMMA StepRefines == Inv /\ [Next]_vars => [Atomic!Next]_Atomic!vars
<1> SUFFICES ASSUME Inv, [Next]_vars PROVE [Atomic!Next]_Atomic!vars
  OBVIOUS
<1> USE DEF Progress
<1>1. ASSUME NEW d \in Content, SaveWorkspace(d) PROVE Atomic!Next
  <2>1. Atomic!Ask(d)
    BY <1>1 DEF SaveWorkspace, Atomic!Ask
  <2> QED BY <2>1 DEF Atomic!Next
<1>2. CASE Create \/ Write \/ Backup \/ Copy
  BY <1>2 DEF Create, Write, Backup, Copy, Atomic!vars
<1>3. CASE Rename
  <2>1. tmp = new
    BY <1>3 DEF Rename, Inv
  <2> QED BY <1>3, <2>1 DEF Rename, Atomic!Next, Atomic!Commit
<1>4. CASE ClearWorkspace
  <2>1. Atomic!Ask(Missing)
    BY <1>4 DEF ClearWorkspace, Atomic!Ask
  <2> QED BY <2>1 DEF Atomic!Next
<1>5. CASE RemovePath
  <2>1. new = Missing
    BY <1>5 DEF RemovePath, Inv, Removing
  <2> QED BY <1>5, <2>1 DEF RemovePath, Atomic!Next, Atomic!Commit
<1>6. CASE RemoveBackup \/ RemoveTmp
  BY <1>6 DEF RemoveBackup, RemoveTmp, Atomic!vars
<1>7. CASE Return
  BY <1>7 DEF Return, Atomic!Next, Atomic!Succeed
<1>8. CASE Interrupt
  <2>1. Progress # "idle"
    BY <1>8 DEF Interrupt
  <2> QED BY <1>8, <2>1 DEF Interrupt, Atomic!Next, Atomic!GiveUp
<1>9. CASE Damage
  BY <1>9 DEF Damage, Atomic!Next, Atomic!Damage
<1>10. CASE UNCHANGED vars
  BY <1>10 DEF vars, Atomic!vars
<1> QED
  BY <1>1, <1>2, <1>3, <1>4, <1>5, <1>6, <1>7, <1>8, <1>9, <1>10 DEF Next

\* The store implements the atomic file: a save or a removal takes effect in one
\* step, whatever fails and wherever the process ends.
THEOREM StoreIsAtomic == Spec => ImplementsAtomicFile
<1>1. Init => Inv
  BY DEF Init, Inv, Step, Saving, Removing
<1>2. Init => Atomic!Init
  BY DEF Init, Atomic!Init, Progress
<1> QED BY <1>1, <1>2, StepKeeps, StepRefines, PTL DEF Spec, ImplementsAtomicFile, Atomic!Spec

=============================================================================
