---------------------------- MODULE Replication -----------------------------
(***************************************************************************)
(* How the copies of one workspace document stay together.  Every machine  *)
(* runs an agent (the document under a mutex, crates/is-agent/src/lib.rs), *)
(* a networking actor with one mailbox (crates/is-net/src/service.rs) and, *)
(* for every connection, a session (crates/is-net/src/session.rs) with an  *)
(* outbound queue, a writer and a read loop.  A local edit is applied and  *)
(* saved under the lock, then travels as an update through the mailbox,    *)
(* the queue and the connection; a new session starts with both sides      *)
(* sending their whole document.  Machines crash and restart from disk,    *)
(* connections fail, a queue that is full costs the connection.            *)
(*                                                                         *)
(* All machines are already in the same workspace.  A connection is        *)
(* modelled from the moment both handshakes have succeeded; how sessions   *)
(* are dialled and refused, and how the machines came to be in the same    *)
(* workspace, is the subject of Joining.                                   *)
(***************************************************************************)
EXTENDS WorkspaceDoc, Sequences

CONSTANTS
  Connection,      \* identifiers a pair of machines reuses for its connections
  InitialDoc,      \* the document every machine starts from
  Edits,           \* bound: <<m, kind>> when the user of m makes edits of that kind
  EditedMachines,  \* bound: the machines they edit, pair or unpair
  QueueCap,        \* the outbound queue of a session (128 in the code)
  InboxCap,        \* the actor's mailbox (256 in the code)
  MaxLamport,      \* bound: no edit beyond this clock
  MaxFaults,       \* bound: connection failures and crashes of a behaviour
  PersistMayFail   \* whether saving the document may fail

None == 0   \* no connection

ASSUME ConnectionAssumption == Connection \subseteq Nat \ {None} /\ Connection # {}
ASSUME BoundsAssumption ==
  /\ QueueCap \in Nat \ {0} /\ InboxCap \in Nat \ {0}
  /\ MaxLamport \in Nat /\ MaxFaults \in Nat
  /\ PersistMayFail \in BOOLEAN
  /\ Edits \subseteq Machine \X {"name", "settings", "machine", "pair", "unpair"}
  /\ EditedMachines \subseteq Machine
ASSUME InitialDocAssumption ==
  /\ InitialDoc \in WorkspaceDoc
  /\ \A f \in Field : InitialDoc.reg[f].stamp.lamport <= InitialDoc.lamport

VARIABLES
  up,          \* up[m]: the agent of m is running
  doc,         \* doc[m]: State.doc, the document in memory
  disk,        \* disk[m]: workspace.json
  unsent,      \* unsent[m]: updates saved but not yet handed to the mailbox
  inbox,       \* inbox[m]: the actor's mailbox
  status,      \* status[m][p]: PeerSlot.status
  outbound,    \* outbound[m][p]: the connection PeerSlot.outbound feeds, or None
  phase,       \* phase[e]: how far the session at this end has come
  queue,       \* queue[e]: updates waiting for the writer of this end
  wire,        \* wire[e]: frames this end has written and the peer has not read
  faults       \* faults so far

vars == <<up, doc, disk, unsent, inbox, status, outbound, phase, queue, wire, faults>>
agent == <<up, doc, disk, unsent>>
actor == <<inbox, status, outbound>>
sessions == <<phase, queue, wire>>

\* The end <<m, p, c>>: what machine m holds of connection c with machine p.
End == {e \in Machine \X Machine \X Connection : e[1] # e[2]}
Peer(e) == <<e[2], e[1], e[3]>>

\* closed: no session.  identified: handshake and Identify done.  announced:
\* Established is in the mailbox.  live: the document is sent, reader and writer
\* run.  shut: the writer has shut down its half, the reader still runs.
Phase == {"closed", "identified", "announced", "live", "shut"}
Status == {"Offline", "Connecting", "Online"}

DocFull(d) == [kind |-> "doc", doc |-> d]
Update(u) == [kind |-> "update", update |-> u]
Eof == [kind |-> "eof"]
Frame == [kind : {"doc"}, doc : WorkspaceDoc]
         \cup [kind : {"update"}, update : WorkspaceUpdate] \cup [kind : {"eof"}]

Broadcast(u) == [kind |-> "Broadcast", update |-> u]
Established(e) == [kind |-> "Established", end |-> e]
Closed(p) == [kind |-> "Closed", peer |-> p]
Internal == [kind : {"Broadcast"}, update : WorkspaceUpdate]
            \cup [kind : {"Established"}, end : End] \cup [kind : {"Closed"}, peer : Machine]

Init ==
  /\ up = [m \in Machine |-> TRUE]
  /\ doc = [m \in Machine |-> InitialDoc]
  /\ disk = [m \in Machine |-> InitialDoc]
  /\ unsent = [m \in Machine |-> {}]
  /\ inbox = [m \in Machine |-> <<>>]
  /\ status = [m \in Machine |-> [p \in Machine |-> "Offline"]]
  /\ outbound = [m \in Machine |-> [p \in Machine |-> None]]
  /\ phase = [e \in End |-> "closed"]
  /\ queue = [e \in End |-> <<>>]
  /\ wire = [e \in End |-> <<>>]
  /\ faults = 0

-----------------------------------------------------------------------------
(* The agent: local edits *)

\* Wrong form of Core::persist: nothing is written.
PersistNothing(m, d) == UNCHANGED disk

\* Core::persist, under the state lock.  A failed save is logged and forgotten.
Persist(m, d) ==
  disk' \in {[disk EXCEPT ![m] = d]} \cup (IF PersistMayFail THEN {disk} ELSE {})

\* Agent::mutate up to the unlock: change the document, save it, keep the update.
Mutate(m, f, v) ==
  LET u == UpdateOf(doc[m], m, f, v)
      d == Edited(doc[m], u)
  IN  /\ up[m]
      /\ doc[m].lamport < MaxLamport
      /\ doc' = [doc EXCEPT ![m] = d]
      /\ Persist(m, d)
      /\ unsent' = [unsent EXCEPT ![m] = @ \cup {u}]
      /\ UNCHANGED <<up, actor, sessions, faults>>

\* rename_workspace and update_settings: a register of the whole workspace.
SetRegister(m, f, v) ==
  /\ <<m, f[1]>> \in Edits
  /\ Mutate(m, f, v)

\* A machine that is in the document is renamed, moved or reports its screens:
\* rename_this_machine, publish_local_facts and the user's edits all end in
\* upsert_machine.  The record is read under one lock and written back under another
\* there; here it is one value, and what was read plays no part.
UpsertMachine(m, x, v) ==
  /\ <<m, "machine">> \in Edits /\ x \in EditedMachines
  /\ IsMember(doc[m], x)
  /\ Mutate(m, SlotField(x), v)

\* pair: a candidate, which is a machine the document does not admit, gets a record.
Pair(m, x, v) ==
  /\ <<m, "pair">> \in Edits /\ x \in EditedMachines \ {m}
  /\ ~IsMember(doc[m], x)
  /\ Mutate(m, SlotField(x), v)

\* Wrong form of unpair: the slot is deleted and no tombstone is left.
UnpairForgets(m, x) ==
  /\ <<m, "unpair">> \in Edits /\ x \in EditedMachines \ {m}
  /\ Mutate(m, SlotField(x), Absent)

\* unpair: a machine cannot remove itself; the session with it stays up.
Unpair(m, x) ==
  /\ <<m, "unpair">> \in Edits /\ x \in EditedMachines \ {m}
  /\ Mutate(m, SlotField(x), Removed)

\* Agent::mutate after the unlock: Service::broadcast waits for room in the
\* mailbox.  Edits made by concurrent tasks get there in any order.
SendBroadcast(m, u) ==
  /\ u \in unsent[m]
  /\ Len(inbox[m]) < InboxCap
  /\ unsent' = [unsent EXCEPT ![m] = @ \ {u}]
  /\ inbox' = [inbox EXCEPT ![m] = Append(@, Broadcast(u))]
  /\ UNCHANGED <<up, doc, disk, status, outbound, sessions, faults>>

-----------------------------------------------------------------------------
(* The actor: one message of the mailbox at a time *)

Mail(m, kind) == inbox[m] # <<>> /\ Head(inbox[m]).kind = kind

\* try_send succeeds: the session's receiver exists and its queue has room.
Accepts(e) == phase[e] \in {"announced", "live"} /\ Len(queue[e]) < QueueCap

\* The ends machine m's slots feed at the moment.
Fed(m) == {e \in End : e[1] = m /\ outbound[m][e[2]] = e[3]}

\* Wrong form of on_broadcast: a full queue discards the update and keeps the
\* connection.
OnBroadcastDiscards(m) ==
  LET u == Head(inbox[m]).update
  IN  /\ Mail(m, "Broadcast")
      /\ queue' = [e \in End |-> IF e \in Fed(m) /\ Accepts(e)
                                 THEN Append(queue[e], u) ELSE queue[e]]
      /\ inbox' = [inbox EXCEPT ![m] = Tail(@)]
      /\ UNCHANGED <<agent, status, outbound, phase, wire, faults>>

OnBroadcast(m) ==
  LET u == Head(inbox[m]).update
  IN  /\ Mail(m, "Broadcast")
      /\ queue' = [e \in End |-> IF e \in Fed(m) /\ Accepts(e)
                                 THEN Append(queue[e], u) ELSE queue[e]]
      /\ outbound' = [outbound EXCEPT ![m] = [p \in Machine |->
                        IF \E e \in Fed(m) : e[2] = p /\ ~Accepts(e) THEN None ELSE @[p]]]
      /\ inbox' = [inbox EXCEPT ![m] = Tail(@)]
      /\ UNCHANGED <<agent, status, phase, wire, faults>>

\* on_session(Established): the new sender replaces whatever the slot held.
OnEstablished(m) ==
  LET e == Head(inbox[m]).end
  IN  /\ Mail(m, "Established")
      /\ status' = [status EXCEPT ![m][e[2]] = "Online"]
      /\ outbound' = [outbound EXCEPT ![m][e[2]] = e[3]]
      /\ inbox' = [inbox EXCEPT ![m] = Tail(@)]
      /\ UNCHANGED <<agent, sessions, faults>>

\* Wrong form of on_session(Closed): the slot is not put back to Offline.
OnClosedKeepsStatus(m) ==
  LET p == Head(inbox[m]).peer
  IN  /\ Mail(m, "Closed")
      /\ outbound' = [outbound EXCEPT ![m][p] = None]
      /\ inbox' = [inbox EXCEPT ![m] = Tail(@)]
      /\ UNCHANGED <<agent, status, sessions, faults>>

\* on_session(Closed): by machine, not by session, so the end of an old session
\* also drops the sender of a newer one.
OnClosed(m) ==
  LET p == Head(inbox[m]).peer
  IN  /\ Mail(m, "Closed")
      /\ status' = [status EXCEPT ![m][p] = "Offline"]
      /\ outbound' = [outbound EXCEPT ![m][p] = None]
      /\ inbox' = [inbox EXCEPT ![m] = Tail(@)]
      /\ UNCHANGED <<agent, sessions, faults>>

-----------------------------------------------------------------------------
(* Sessions *)

\* An identifier both ends have finished with, which no slot or message names.
Unused(e) ==
  \A x \in {e, Peer(e)} :
    /\ phase[x] = "closed" /\ wire[x] = <<>>
    /\ outbound[x[1]][x[2]] # x[3]
    /\ Established(x) \notin Range(inbox[x[1]])

\* on_tick and the two handshakes, when they succeed: the machine with the lower
\* identifier dials a peer it has no session with, each side finds the other in
\* its document, and both have read the other's Identify.
Connect(e) ==
  /\ e[1] < e[2] /\ up[e[1]] /\ up[e[2]]
  /\ status[e[1]][e[2]] = "Offline"
  /\ IsMember(doc[e[1]], e[2]) /\ IsMember(doc[e[2]], e[1])
  /\ Unused(e)
  /\ status' = [status EXCEPT ![e[1]][e[2]] = "Connecting"]
  /\ phase' = [phase EXCEPT ![e] = "identified", ![Peer(e)] = "identified"]
  /\ UNCHANGED <<agent, inbox, outbound, queue, wire, faults>>

\* run: Established is handed to the actor before the document is read.
Announce(e) ==
  /\ phase[e] = "identified"
  /\ Len(inbox[e[1]]) < InboxCap
  /\ inbox' = [inbox EXCEPT ![e[1]] = Append(@, Established(e))]
  /\ phase' = [phase EXCEPT ![e] = "announced"]
  /\ UNCHANGED <<agent, status, outbound, queue, wire, faults>>

\* Frames towards an end that is gone are lost.
Written(e, frame) == IF phase[Peer(e)] = "closed" THEN <<>> ELSE Append(wire[e], frame)

\* Wrong form: the session starts without the document.
SendNoDoc(e) ==
  /\ phase[e] = "announced"
  /\ phase' = [phase EXCEPT ![e] = "live"]
  /\ UNCHANGED <<agent, actor, queue, wire, faults>>

\* run: the snapshot goes out first, then reader and writer start.
SendDoc(e) ==
  /\ phase[e] = "announced"
  /\ phase' = [phase EXCEPT ![e] = "live"]
  /\ wire' = [wire EXCEPT ![e] = Written(e, DocFull(doc[e[1]]))]
  /\ UNCHANGED <<agent, actor, queue, faults>>

\* Both halves of a session are gone: its queue is dropped, what the peer sent is
\* never read, and the peer reads the end of the stream, after what was already
\* written or in place of it.
Hangup(e, kept) ==
  /\ phase' = [phase EXCEPT ![e] = "closed"]
  /\ queue' = [queue EXCEPT ![e] = <<>>]
  /\ wire' = [wire EXCEPT ![Peer(e)] = <<>>,
                ![e] = IF phase[Peer(e)] = "closed" THEN <<>> ELSE Append(kept, Eof)]

\* The last message of a session to its actor.
ReportClosed(e) ==
  /\ Len(inbox[e[1]]) < InboxCap
  /\ inbox' = [inbox EXCEPT ![e[1]] = Append(@, Closed(e[2]))]

\* run: the document could not be written, because the peer is gone.  spawn_dial
\* reports the error as Closed; spawn_accepted only logs it.
SendDocFails(e) ==
  /\ phase[e] = "announced"
  /\ phase[Peer(e)] = "closed"
  /\ Hangup(e, wire[e])
  /\ IF e[1] < e[2] THEN ReportClosed(e) ELSE UNCHANGED inbox
  /\ UNCHANGED <<agent, status, outbound, faults>>

\* The writer task: the next queued update goes onto the connection.
WriterSend(e) ==
  /\ phase[e] = "live" /\ queue[e] # <<>>
  /\ queue' = [queue EXCEPT ![e] = Tail(@)]
  /\ wire' = [wire EXCEPT ![e] = Written(e, Update(Head(queue[e])))]
  /\ UNCHANGED <<agent, actor, phase, faults>>

\* The sending half of the queue exists: in the slot, or still in the mailbox.
SenderAlive(e) ==
  \/ outbound[e[1]][e[2]] = e[3]
  \/ Established(e) \in Range(inbox[e[1]])

\* The writer task: the queue is drained and its sender dropped.
WriterShutdown(e) ==
  /\ phase[e] = "live" /\ queue[e] = <<>> /\ ~SenderAlive(e)
  /\ phase' = [phase EXCEPT ![e] = "shut"]
  /\ wire' = [wire EXCEPT ![e] = Written(e, Eof)]
  /\ UNCHANGED <<agent, actor, queue, faults>>

Reads(e, kind) ==
  /\ phase[e] \in {"live", "shut"}
  /\ wire[Peer(e)] # <<>> /\ Head(wire[Peer(e)]).kind = kind

\* Wrong form of Core::merge and Core::apply: what a peer wrote is not saved.
ReceiveUnsaved(e, d) ==
  /\ doc' = [doc EXCEPT ![e[1]] = d]
  /\ wire' = [wire EXCEPT ![Peer(e)] = Tail(@)]
  /\ UNCHANGED <<up, disk, unsent, actor, phase, queue, faults>>

\* Core::merge and Core::apply: the document changes, and is saved only when a
\* register changed; a clock that merely advanced is not written.
Receive(e, d) ==
  /\ doc' = [doc EXCEPT ![e[1]] = d]
  /\ IF d.reg # doc[e[1]].reg THEN Persist(e[1], d) ELSE UNCHANGED disk
  /\ wire' = [wire EXCEPT ![Peer(e)] = Tail(@)]
  /\ UNCHANGED <<up, unsent, actor, phase, queue, faults>>

\* read_loop, DocFull.
ReadDoc(e) ==
  Reads(e, "doc") /\ Receive(e, Merge(doc[e[1]], Head(wire[Peer(e)]).doc))

\* read_loop, Update.
ReadUpdate(e) ==
  Reads(e, "update") /\ Receive(e, Apply(doc[e[1]], Head(wire[Peer(e)]).update))

\* read_loop returns at the end of the stream; the writer is aborted.
ReadEof(e) ==
  /\ Reads(e, "eof")
  /\ Hangup(e, wire[e])
  /\ ReportClosed(e)
  /\ UNCHANGED <<agent, status, outbound, faults>>

\* read_loop returns on an error: the connection broke, or the peer was silent
\* for SILENCE_LIMIT.  What was in flight may or may not arrive.
ReadError(e) ==
  /\ phase[e] \in {"live", "shut"}
  /\ faults < MaxFaults
  /\ \E kept \in {wire[e], <<>>} : Hangup(e, kept)
  /\ ReportClosed(e)
  /\ faults' = faults + 1
  /\ UNCHANGED <<agent, status, outbound>>

-----------------------------------------------------------------------------
(* Crashes.  Everything but the file is gone. *)

Crash(m) ==
  /\ up[m] /\ faults < MaxFaults
  /\ up' = [up EXCEPT ![m] = FALSE]
  /\ unsent' = [unsent EXCEPT ![m] = {}]
  /\ inbox' = [inbox EXCEPT ![m] = <<>>]
  /\ status' = [status EXCEPT ![m] = [p \in Machine |-> "Offline"]]
  /\ outbound' = [outbound EXCEPT ![m] = [p \in Machine |-> None]]
  /\ phase' = [e \in End |-> IF e[1] = m THEN "closed" ELSE phase[e]]
  /\ queue' = [e \in End |-> IF e[1] = m THEN <<>> ELSE queue[e]]
  /\ \E keep \in BOOLEAN :
       wire' = [e \in End |->
         IF e[2] = m THEN <<>>
         ELSE IF e[1] # m \/ phase[e] = "closed" THEN wire[e]
         ELSE IF phase[Peer(e)] = "closed" THEN <<>>
         ELSE Append(IF keep THEN wire[e] ELSE <<>>, Eof)]
  /\ faults' = faults + 1
  /\ UNCHANGED <<doc, disk>>

\* Agent::load: the document is what the file says.
Restart(m) ==
  /\ ~up[m]
  /\ up' = [up EXCEPT ![m] = TRUE]
  /\ doc' = [doc EXCEPT ![m] = disk[m]]
  /\ UNCHANGED <<disk, unsent, actor, sessions, faults>>

-----------------------------------------------------------------------------
Edit(m) ==
  \/ \E f \in {NameField, SettingsField}, v \in Value : SetRegister(m, f, v)
  \/ \E x \in Machine, v \in Value : UpsertMachine(m, x, v) \/ Pair(m, x, v)
  \/ \E x \in Machine : Unpair(m, x)

Actor(m) == OnBroadcast(m) \/ OnEstablished(m) \/ OnClosed(m)

Session(e) ==
  \/ Announce(e) \/ SendDoc(e) \/ SendDocFails(e)
  \/ WriterSend(e) \/ WriterShutdown(e)
  \/ ReadDoc(e) \/ ReadUpdate(e) \/ ReadEof(e)

Next ==
  \/ \E m \in Machine : \/ Edit(m) \/ Actor(m) \/ Crash(m) \/ Restart(m)
                        \/ \E u \in unsent[m] : SendBroadcast(m, u)
  \/ \E e \in End : Connect(e) \/ Session(e) \/ ReadError(e)

Spec == Init /\ [][Next]_vars

\* Every task of a running machine keeps running, and of two machines that are
\* up and trust each other the lower one keeps dialling (the tick of the actor
\* and the announcements it waits for).  Edits, faults and restarts are choices
\* of the environment, except that a machine that crashed is switched on again.
Fairness ==
  /\ \A m \in Machine :
       /\ WF_vars(Actor(m)) /\ WF_vars(Restart(m))
       /\ WF_vars(\E u \in unsent[m] : SendBroadcast(m, u))
  /\ \A e \in End :
       /\ WF_vars(Connect(e)) /\ WF_vars(Announce(e)) /\ WF_vars(SendDoc(e))
       /\ WF_vars(WriterSend(e)) /\ WF_vars(WriterShutdown(e))
       /\ WF_vars(ReadDoc(e) \/ ReadUpdate(e) \/ ReadEof(e))

FairSpec == Spec /\ Fairness

-----------------------------------------------------------------------------
(* Where documents and updates are at any moment *)

Frames == UNION {Range(wire[e]) : e \in End}
Letters == UNION {Range(inbox[m]) : m \in Machine}

Unsent == UNION {unsent[m] : m \in Machine}
Queued == UNION {Range(queue[e]) : e \in End}

FrameDocs == {x.doc : x \in {y \in Frames : y.kind = "doc"}}
FrameUpdates == {x.update : x \in {y \in Frames : y.kind = "update"}}
LetterUpdates == {x.update : x \in {y \in Letters : y.kind = "Broadcast"}}

AllDocs ==
  {doc[m] : m \in Machine} \cup {disk[m] : m \in Machine} \cup FrameDocs

AllUpdates == Unsent \cup Queued \cup FrameUpdates \cup LetterUpdates

\* Every write anyone remembers: the register, the stamp and what was written.
Writes ==
  {<<f, d.reg[f].stamp, d.reg[f].value>> : f \in Field, d \in AllDocs}
  \cup {<<u.field, u.stamp, u.value>> : u \in AllUpdates}

-----------------------------------------------------------------------------
(* Properties *)

\* Every variable holds what its Rust type admits.
TypeOK ==
  /\ up \in [Machine -> BOOLEAN]
  /\ doc \in [Machine -> WorkspaceDoc]
  /\ disk \in [Machine -> WorkspaceDoc]
  /\ unsent \in [Machine -> SUBSET WorkspaceUpdate]
  /\ inbox \in [Machine -> Seq(Internal)]
  /\ status \in [Machine -> [Machine -> Status]]
  /\ outbound \in [Machine -> [Machine -> Connection \cup {None}]]
  /\ phase \in [End -> Phase]
  /\ queue \in [End -> Seq(WorkspaceUpdate)]
  /\ wire \in [End -> Seq(Frame)]
  /\ faults \in Nat

\* No document anywhere, in memory, on disk or on a connection, holds a stamp
\* above its own clock: the next local edit sorts after everything the machine
\* shows (the lamport field of model.rs), after a crash too, although a clock
\* that advanced without a register changing is never saved.
ClockCoversStamps ==
  \A d \in AllDocs, f \in Field : d.reg[f].stamp.lamport <= d.lamport

\* Equal stamps mean the same write (Lww::merge in stamp.rs drops the incoming
\* copy because of it): no two copies of a register anywhere in the system bear
\* one stamp and different values, whatever crashed between the save of an edit
\* and its broadcast.
StampsIdentifyWrites ==
  \A v, w \in Writes : v[1] = w[1] /\ v[2] = w[2] => v[3] = w[3]

\* The file on disk is never behind what the app is showing (Core::persist): at
\* every unlock the saved registers are the ones in memory.
DiskHoldsDocument ==
  \A m \in Machine : up[m] => disk[m].reg = doc[m].reg

\* Requirement 9: stale state never overwrites newer state.  No step of any
\* machine, a merge, an update that arrives late or twice, a crash or a restart,
\* replaces a register by an older one.
NoStaleOverwrite ==
  [][\A m \in Machine, f \in Field :
       ~Older(doc'[m].reg[f].stamp, doc[m].reg[f].stamp)]_vars

\* A session that is up at both ends and still has its sender.
InSync(e) ==
  phase[e] = "live" /\ phase[Peer(e)] # "closed" /\ SenderAlive(e)

\* A write of register f at least as new as s is on its way from e[1] to e[2].
Carried(e, f, s) ==
  LET at(u) == u.field = f /\ ~Older(u.stamp, s)
  IN  \/ \E u \in unsent[e[1]] \cup Range(queue[e]) : at(u)
      \/ \E x \in Range(inbox[e[1]]) : x.kind = "Broadcast" /\ at(x.update)
      \/ \E x \in Range(wire[e]) :
           \/ x.kind = "update" /\ at(x.update)
           \/ x.kind = "doc" /\ ~Older(x.doc.reg[f].stamp, s)

\* While two machines are in session, what one of them wrote itself has reached
\* the other or is on its way: the edit made while the session was starting is in
\* the snapshot or in the queue (Established goes to the actor before the
\* document is read), and no edit is dropped without the connection going too.
OwnEditsArrive ==
  \A e \in End, f \in Field :
    LET mine == doc[e[1]].reg[f].stamp
    IN  InSync(e) /\ mine.origin = e[1] =>
          ~Older(doc[e[2]].reg[f].stamp, mine) \/ Carried(e, f, mine)

\* Every pair of machines is in session and nothing is under way.
Settled ==
  /\ \A m \in Machine : up[m] /\ unsent[m] = {} /\ inbox[m] = <<>>
  /\ \A m, p \in Machine :
       m # p => \E c \in Connection : InSync(<<m, p, c>>) /\ InSync(<<p, m, c>>)
  /\ \A e \in End : queue[e] = <<>> /\ wire[e] = <<>>

\* When every machine is in session with every other and nothing is under way,
\* all of them show the same workspace (requirement 9 of docs/requirements.md).
SettledMachinesAgree ==
  Settled => \A m, p \in Machine : doc[m].reg = doc[p].reg

\* Every machine's registers are the registers of SharedRegisters, whatever crashes and
\* is lost between an edit and the merge that brings it elsewhere (requirement 9): a
\* machine shows its own edits at once, and of the others' only what they wrote, whole
\* and in the order of the stamps.
Shared == INSTANCE SharedRegisters
            WITH shown <- [m \in Machine |-> doc[m].reg], written <- Writes
ImplementsSharedRegisters == Shared!Spec

\* Once edits and faults stop, all machines come to show the same workspace and
\* keep showing it.
Converges == <>[](\A m, p \in Machine : doc[m].reg = doc[p].reg)

=============================================================================
