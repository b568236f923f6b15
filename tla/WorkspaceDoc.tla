---------------------------- MODULE WorkspaceDoc ----------------------------
(***************************************************************************)
(* The synchronized workspace document of is-core: last-writer-wins        *)
(* registers under Lamport stamps, and the operations that edit and merge  *)
(* them (crates/is-core/src/stamp.rs and model.rs).  Pure operators; the   *)
(* state machines that use them are in the modules that extend this one.   *)
(*                                                                         *)
(* A document is a clock and one register per synchronized value: the      *)
(* workspace name, the settings, and one slot for every machine.  What a   *)
(* register holds is abstracted to a member of Value: no operation here    *)
(* looks inside a name, a settings record or a machine record.             *)
(***************************************************************************)
EXTENDS Integers, FiniteSetsExt

CONSTANTS
  Machine,   \* machine identifiers, as numbers: a UUID is compared bytewise
  Value,     \* what a name, the settings or a machine record may hold
  Removed,   \* SlotState::Removed, the tombstone left by unpairing
  Absent     \* a machine the document has no slot for

ASSUME MachineAssumption == Machine \subseteq Nat /\ Machine # {}
ASSUME ValueAssumption ==
  Value # {} /\ Removed \notin Value /\ Absent \notin Value /\ Removed # Absent

-----------------------------------------------------------------------------
(* Stamps and registers (stamp.rs) *)

Stamp == [lamport : Nat, origin : Machine]

\* The total order of stamps: the clock, then the machine.  The wall clock the
\* code carries in a stamp takes no part in it and is left out.
Older(s, t) ==
  \/ s.lamport < t.lamport
  \/ s.lamport = t.lamport /\ s.origin < t.origin

Lww == [value : Value \cup {Removed, Absent}, stamp : Stamp]

\* Wrong form of Lww::merge: only the clocks are compared, and a tie goes to the peer.
LwwMergeByClock(mine, incoming) ==
  IF mine.stamp.lamport <= incoming.stamp.lamport THEN incoming ELSE mine

\* Lww::merge: the incoming register is adopted only when it is strictly newer.
LwwMerge(mine, incoming) ==
  IF Older(mine.stamp, incoming.stamp) THEN incoming ELSE mine

-----------------------------------------------------------------------------
(* The document (model.rs) *)

NameField == <<"name", 0>>
SettingsField == <<"settings", 0>>
SlotField(m) == <<"machine", m>>
SlotFields == {SlotField(m) : m \in Machine}
Field == {NameField, SettingsField} \cup SlotFields

\* A slot that does not exist is a register older than every real one, whose
\* clocks start at 1: it loses every merge, as a missing BTreeMap entry does.
NoSlot == [value |-> Absent,
           stamp |-> [lamport |-> 0, origin |-> CHOOSE m \in Machine : TRUE]]

WorkspaceDoc == [lamport : Nat, reg : [Field -> Lww]]

\* WorkspaceDoc::create: the founder's document, every register stamped 1.
Create(founder, name, settings, record) ==
  LET first(v) == [value |-> v, stamp |-> [lamport |-> 1, origin |-> founder]]
  IN  [lamport |-> 1,
       reg |-> [f \in Field |->
                  CASE f = NameField -> first(name)
                    [] f = SettingsField -> first(settings)
                    [] f = SlotField(founder) -> first(record)
                    [] OTHER -> NoSlot]]

\* tick: the stamp of the next local change.
Tick(d, origin) == [lamport |-> d.lamport + 1, origin |-> origin]

\* A WorkspaceUpdate: the clock before the change, its stamp, and the register
\* its Op writes.  SetName, SetSettings, UpsertMachine and RemoveMachine differ
\* in nothing but the register and the value.
WorkspaceUpdate ==
  [prev : Nat, stamp : Stamp, field : Field, value : Value \cup {Removed}]

UpdateOf(d, origin, f, v) ==
  [prev |-> d.lamport, stamp |-> Tick(d, origin), field |-> f, value |-> v]

\* set_name, set_settings, upsert_machine, remove_machine: a local change
\* overwrites its register with a fresh stamp, unconditionally.
Edited(d, u) ==
  [lamport |-> u.stamp.lamport,
   reg |-> [d.reg EXCEPT ![u.field] = [value |-> u.value, stamp |-> u.stamp]]]

\* Wrong form of observe: the clock of a peer is ignored.
ObserveNothing(clock, seen) == clock

\* observe: the clock never falls behind anything seen from a peer.
Observe(clock, seen) == Max({clock} \cup seen)

\* Wrong form of merge_slot: the incoming slot always wins.
MergeSlotOverwrites(existing, incoming) == incoming

\* merge_slot: an existing slot at least as new as the incoming one is kept.
MergeSlot(existing, incoming) ==
  IF Older(existing.stamp, incoming.stamp) THEN incoming ELSE existing

\* The merge of one register, by the kind of register.
MergeField(f, mine, incoming) ==
  IF f \in SlotFields THEN MergeSlot(mine, incoming) ELSE LwwMerge(mine, incoming)

\* apply: a peer's single update.  Nothing is asked of its prev clock.
Apply(d, u) ==
  [lamport |-> Observe(d.lamport, {u.stamp.lamport}),
   reg |-> [d.reg EXCEPT ![u.field] =
              MergeField(u.field, @, [value |-> u.value, stamp |-> u.stamp])]]

\* merge: a peer's whole document.  The clock observes the peer's clock and the
\* stamp of every slot.
Merge(d, other) ==
  [lamport |-> Observe(d.lamport, {other.lamport} \cup
                         {other.reg[f].stamp.lamport : f \in SlotFields}),
   reg |-> [f \in Field |-> MergeField(f, d.reg[f], other.reg[f])]]

\* machine(id).is_some(): the slot exists and is not a tombstone.
IsMember(d, m) == d.reg[SlotField(m)].value \in Value

=============================================================================
