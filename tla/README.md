# A verification project for inputshare

inputshare lets one keyboard and mouse drive several computers. Every computer
runs the same agent; there is no server. The agents keep one *workspace*
(name, settings, which machines belong to it, where their screens are) on every
machine, agree on which machine has the pointer, and forward input to it.

This directory holds TLA+ models of the parts where that can go wrong, the TLC
configurations that check them on small instances, and TLAPS proofs of what must
hold for any number of machines. Paths below are relative to `crates/`.

## 1. Inventory

| Component | State it keeps | Operations | Hard because |
|---|---|---|---|
| Workspace document, `is-core/src/model.rs`, `stamp.rs` | a last-writer-wins register for the name, the settings and each machine slot; a Lamport clock | edit, `apply` an update, `merge` a document | stamps must identify writes; tombstones |
| Agent, `is-agent/src/lib.rs` | the document under a mutex, the file, `online`, candidates, the last announced owner | edits, `merge`, `apply`, pairing, `adopt_configuration_of` | saved under the lock, broadcast after it; crash in between |
| Networking actor, `is-net/src/service.rs` | one slot per peer (status, sender, backoff), one mailbox | broadcast, input, announcements, dialling, session outcomes | one mailbox, many sessions; outcomes arrive late |
| Session, `is-net/src/session.rs` | handshake progress, outbound queue, reader and writer | handshake, `Established`, document, updates, `Closed` | starts while edits happen; either half may die |
| Routing of the pointer, `is-core/src/layout.rs` | none (pure) | `resolve_cursor`, `fallback_owner` | half-open rectangles, offline machines, ties |
| Arrangement, `is-agent/src/lib.rs`, `is-ui/src/main.rs` | position and screens of each machine | pair, publish screens, drag | placed before screens are known |
| Sharing loop, `is-agent/src/sharing.rs` | its idea of the owner, suppression, pending input | crossing, handoff, announcement, heartbeat, switch | every machine decides from its own copy |
| Capture, `is-input/src/platform/*` | process-wide atomics: running, sink, suppressing, detached, last heartbeat | start, `set_suppressing`, drop; hooks, watchdog, escape hatch | an OS callback, an async loop and overlapping switch calls on the same atomics |
| Discovery, `is-net/src/discovery.rs` | sockets per interface, group memberships, typed-in addresses | announce, probe, listen, rejoin, reply | interfaces change under two tasks that poll separately; sockets fail |
| Store, `is-core/src/store.rs` | files | atomic write, read with fallback, clear | crash or failure at any call |
| Joining, `is-agent/src/lib.rs` | pending trust, which workspace this machine is in | pair without a document, yield, adopt | both sides decide at once |
| Identity, cryptography, autostart, CLI, UI | | | I/O, presentation; not modelled |

How they interact: an edit changes the document and the file under the agent's
lock, then goes as a message to the actor's mailbox, from there into the queue of
every session, over the connection, through the peer's read loop and into its
agent. Sessions report `Established` and `Closed` to the same mailbox, and the
actor tells the agent by a broadcast channel of events (`Online`, `Offline`). The
sharing loop reads the agent's `online` set and document, sends input and
announcements through the same mailbox and receives a peer's through a bounded
queue (input) and a one-place slot (announcements). Its own keyboard and mouse
reach it from the hook thread, which decides by itself whether the system sees an
event, on a flag the loop sets. Discovery tells the actor whom to dial.

What makes each part correct is in its module's properties and, hazard by
hazard, in `PROJECT.json`.

## 2. Modules

| Module | Models | Notes |
|---|---|---|
| `WorkspaceDoc` | the document and its merge | operators only; a register's value is a model value |
| `Replication` | agents, actors, sessions, files, crashes | extends `WorkspaceDoc`, implements `SharedRegisters` |
| `SharedRegisters` | what the machines of a workspace promise about its registers | abstract |
| `Joining` | sightings, dialling, refusal, two configurations becoming one | extends `WorkspaceDoc` |
| `Layout` | `resolve_cursor` and the geometry | operators only |
| `Desk` | the arrangement the pointer is routed over | extends `Layout` |
| `Sharing` | the routing loops, mailboxes, sessions and events | |
| `Capture` | one machine's capture: the switch, the routing loop's end of it, the hook thread | both operating systems |
| `Discovery` | announcing, listening, typed-in addresses, changing interfaces | |
| `AtomicFile` | what the rest of the program expects of a file | abstract |
| `Store` | `write_atomic`, `clear_workspace`, `read_with_fallback`, one file system call per action | implements `AtomicFile` |
| `WorkspaceDocProofs`, `ReplicationProofs`, `SharingProofs`, `CaptureProofs`, `JoiningProofs`, `DeskProofs`, `DiscoveryProofs`, `StoreProofs` | proofs | `DeskProofs` covers `Layout` too |
| `MCReplication`, `MCDesk`, `MCSharing`, `MCCapture`, `MCDiscovery`, `MCStore`, `MCJoining` | instances for TLC | |

Definitions called *Wrong form* are plausible mistakes in the code next to the
definition they would replace; each is rejected by a property of some run.

### Replication

A connection between two machines has two *ends*. `phase` says how far the
session at an end has come (`identified`, `announced`, `live`, `shut`), `queue`
is the channel its writer drains, `wire` what it has written and the peer has
not read. `Mutate` is `Agent::mutate` up to the unlock, `SendBroadcast` the rest:
between the two other edits, messages and crashes happen. `Hangup` is what the
end of `session::run` leaves behind. `Crash` loses everything but the file.

The handshake is one step (`Connect`), guarded by what both sides ask of their
documents. Data is abstracted to a value per register; `Removed` is the
tombstone. A save is atomic here, which is what `Store` shows.

`SharedRegisters` is the same seen from outside: a machine writes a register and shows
it at once (`Write`), or takes over, register by register, later writes that were made
elsewhere (`Learn`). The mapping takes the documents in memory for what is shown, and
for what is written every write that is in a document, on disk, queued or under way.

### Joining

Every machine begins with a workspace of its own. `Pair` is the decision of a
person, `Dial` what `on_tick` does for a slot that is `Offline` and heard of, and
only at the machine with the lower identifier. A session then goes through
`hello`, `identified`, `established` and `live`; a peer that is gone by the time the
document is sent ends it with an error that only the dialler reports (`SendFails`).
`Authorise` asks `authorize` and
sends `Identify` with the snapshot of that moment, `Identified` compares the
identifiers, `SendDoc` takes a second snapshot. A mismatch goes through the
mailbox and the event channel to `OnNetEvent`, where `should_yield` decides on
the size of now against the size in the peer's `Identify`. Adopting has two
halves, `Forget` under the lock and `Clear` outside it, with everything else
possible in between. `trust` is `pending_trust`, `Restart` is `Agent::load`. Every save
may fail, which is logged and nothing else (`Persist`); `unsaved` remembers whose last
one did.

Backoff is not state: it ends at any moment, so a rescan or a sighting that
shortens it changes nothing here. A pair has one connection at a time, and
updates are left to `Replication`, whose `Connect` stands for all of this once the
workspaces are the same.

### Layout and Desk

`Layout` follows `layout.rs` line by line over integer coordinates. `Desk` is a
document's machine records under everything that changes them. Whoever changes a
record reads it in one step and writes it back whole in another: `ReadRecord`, then
`MoveMachine` or `RenameMachine` for the app (`edit_machine`, `rename_this_machine`);
`PublishLocalFacts`, then `WriteFacts` for the task that reports a machine's screens
after a change (`Refresher`). `edits` and `reports` are the copies in between. By the
time of `Upsert` the copy may be stale: it then moves a card back to where it was, takes
away screens that were reported meanwhile, or brings a machine back that was unpaired.
`DropsWhereAsked` says what a card may do all the same (land where it was dropped, or go
back to a whole earlier record that some task had read), `ReportedAgain` that the screens
do not stay away. The document is one and the same on every machine here and is written
in the order of the stamps; being offline is being late.

The reference the routing is checked against is a walk: step pixel by pixel from the edge
and see which machine is met first. Which machines are online, and what happens at an
offline one, is quantified over by the property instead of being state. `RoutedAlways`
and `ReturnsAlways` speak of any desk; TLC checks them where no task holds a copy
(`AtRest`), which is every desk there is: holding a copy changes nothing on the desk, so
the same desk comes about without it. The theorems say both.

### Sharing

One routing loop per machine (`owner`, `swallow`, `pending`), the announcement
slot and the input queue of the agent, and a simplified network: the two ends of
a session are up, then broken (nobody has noticed), then closed. `Established`
and `Closed` go through the same mailbox as announcements, which decides what an
announcement made around a reconnection does, and the agent hears of them through
a queue of events. `Cross` does what `on_motion` does on `Resolution::Move`:
owner, hook, entry point, announcement. `Flush` is the flush tick:
`apply_announcement`, then `flush`. `lost` remembers that a connection broke
or that an announcement found the queue of a session full, which the code ignores
(`OnAnnounceOwner`).

The order of events of different peers is not kept (they change different
members of `online`), and an acceptor that accepts a new session before it has
noticed the end of the old one is left to `Replication`.

### Capture

Four kinds of threads share a few statics: callers of `set_sharing` (`call[c]`, one
step per await or per change of shared state), the routing loop that holds the
`Capture` (`loop[g]`), the hook or tap thread (`hook`) and time (`Elapse`, which makes
`WATCHDOG` stale). `sup[t]` is how far a thread is in `set_suppression`: on macOS
the flag, the swap of `DETACHED` and the call to the window server are three steps, so
two threads in it interleave. A callback is `Key`, `Unreported`, `TapMovement`,
`Hatch` or `Replay`, then `CheckSuppressing` and `CheckWatchdog` (`suppressing_now`,
whose two reads are two steps) and, if the event goes through, `PassOn`. The loop's
end is `Break`, `Drop` (release, ask the thread to quit), `Join`, `Unsink`, with a
second call of `set_sharing` possible in between.

Where the pointer goes is `Sharing`'s subject; here a loop takes it to be away or
not, and may turn either way at any moment. One key at a time is followed to where
it acts (`fate`). Atomics are sequentially consistent here, while the code uses
relaxed accesses in places; `note_cursor_owner` and the preferences change nothing
else and are left out; a loop does not panic; and a macOS stop that comes between the
readiness report of the tap thread and its run loop is taken as seen. The channel from the
hook is unbounded in the code and bounded by `QueueCap` here: a callback whose event
finds no room is not explored, so that the bound cuts behaviours and adds none.

### Discovery

An interface is the network it is on, so that a machine has one address per network.
`Announce` is one turn of `announce` up to the announcement, `Probe` its last part;
`Bind`, `Close`, `Recheck` and `Fail` are `listen`; `Reply` is `reply_to_probe`.
What `interfaces()` answers is read in each of these steps. A datagram arrives, if
anybody listens, with the step that sends it: one that is lost is followed by another
an interval later, which is what the liveness properties speak of. Multicast needs a
membership, broadcast and unicast do not. `Mute` and `Deaf` name the two states the
code does not leave by itself: a sender that could not be bound, and a membership
that is missing while the interfaces look unchanged.

### Store

`path`, `backup` and `tmp` are `workspace.json` and its two companions, `step` the
next call of the request under way. `Interrupt` is both an error that a `?`
returns and the end of the process: neither undoes anything. `Damage` stands for a
medium that loses what was written. Opening a file for writing makes it unreadable
(`Torn`) until the write is complete, for `tmp` and for the target of `fs::copy`
alike; `fs::rename` is atomic. `AtomicFile` is a value that changes in one step
(`Commit`); the mapping takes the primary file for the value, so that the backup
is only ever a help in reading. Requests follow one another; a removal that overlaps
a save, and `import_backup`, are not modelled.

## 3. Runs

| Run | Shows |
|---|---|
| `sessions` | one machine pairs the other and may unpair it again while the other edits its own record; sessions one at a time or overlapping, one fault: clocks, stamps, disk, delivery, agreement, no stale overwrite |
| `convergence` | liveness: two machines that both rename the workspace, sometimes with equal clocks, end up equal; on the way their documents are registers that implement `SharedRegisters` |
| `joining` | two configurations, one fault, failed save, crash or unpairing at any point: neither takes over a configuration that never admitted it, and unless the last save failed the file on disk is not of another workspace than the one in memory; liveness: machines that admit each other come to share one |
| `walk` | routing equals a walk; every crossing can be taken back; a card moves to where it is dropped or back to a record that was read; liveness: a machine's screens are reported again whoever wrote a record without them |
| `switches` | the hook agrees with the owner through switches, full queues and a lost connection; the pointer is not lost between two machines unless a connection is, or an announcement to a full queue; liveness: a keyboard swallowed for a machine that is gone comes back |
| `capture` | on both systems, two overlapping calls of the switch and two loops: one holder of the hooks, nothing swallowed for nobody, the mouse attached unless two `set_suppression` overlapped, each key acting once unless hook and router disagreed meanwhile |
| `fail_open` | liveness: whatever the loop is stuck in, the hook gives keyboard and mouse back; a stop is heard |
| `discovery` | liveness: machines that stay on one network keep hearing each other whatever their interfaces did before; an address typed in on one introduces both |
| `store` | the file is atomic and never reads as no workspace by accident, wherever a save or a removal is cut short |

Runs that exhibit a disagreement between the code and what the repository says
of it:

| Run | What happens |
|---|---|
| `stamp_reuse` | a failed save and a crash: one stamp, two values, for good |
| `never_dialled` | the dialling machine unpairs its peer during a dial and pairs it again: the slot stays `Connecting` and is never dialled |
| `lost_pointer` | announcements from two machines arrive in the wrong order at a third: no owner, every keyboard swallowed, all machines online |

### Bounds

Two machines suffice for everything that happens on one connection; the order
of announcements needs three. Two connection identifiers let
an old session overlap a new one. `MaxLamport` allows one edit
of each machine that is concurrent with the other's, and in `sessions`, which starts
from a document where the second machine is unpaired, the pairing before it. One fault is a crash or a
lost connection at any point; the second session it leads to is part of the run.
Queues of one and two make them fill. `Desk` uses screens of one or two pixels,
one of them with negative coordinates, three places to drop a card, and
pushes the pointer up to two pixels out: enough for ties, gaps, diagonal exits,
and machines in all four directions. The cards of the two machines that were paired are
dragged (`Dragged`) and report their screens again (`Reporting`), one of them for ever
(`Running`); one edit of a person is between its halves at a time (`MaxEdits`), beside
one report of each machine, so that each kind of copy is stale under each kind of write. `Sharing` needs two crossings for a pointer
that goes on to a third machine and three for one that goes out, back and out;
with three and queues of one, an announcement and the handoff before it can both
find a queue full, and then no machine has the pointer, which is why
`PointerNotLost` speaks of runs where nothing was `lost`. `Store` uses three documents, so that the
file, its backup and the save under way all differ, and one damage. `Joining`
starts with two identifiers in either order and has a third, below both, for a
workspace made after a crash; one fault, failed save, crash or unpairing at any point
(so no crash after a failed save, which is left to the theorems) and two edits per machine (three for `never_dialled`: paired, unpaired, paired again).
`Capture` starts with a loop running, so that two calls are enough for off and on
again, in either overlap; one event in the queue for the safety properties, none for
liveness, where only the callbacks that report nothing matter. `Discovery` has two
networks of the same subnet, one that passes multicast and one that passes only
unicast, two changes of interfaces and one failing socket, join or read.

### Fairness

`Replication`: every task of a running process keeps running (tokio tasks and
the actor's loop have no way to stop other than the ones modelled), a machine
that crashed is started again, and the dialler keeps dialling: `on_tick` runs
twice a second and the peers announce themselves. Edits and faults are never
assumed. `Sharing`: the loop's timers fire, mailbox, read loops and events are
drained; nothing is assumed of people or of a connection coming back. `Joining`:
as `Replication`, with announcements every few seconds; `PairedComeTogether`
assumes nobody is unpaired, because `never_dialled` and the race in
`should_yield` (both sides give way if a size shrinks after `Identify`) are real.
`Capture`: threads run and time passes; a person whose keyboard is dead keeps
pressing keys (strong fairness of `Unreported`, since the callback may be busy or
the tap disabled each time); `select!` picks its branches at random, so that a
pending stop is taken (strong fairness of `Break`). Nothing is assumed of a loop that
is stuck. `Desk`: the task that reports the screens of a machine that stays on, or is
switched on again, keeps looking after changes and writing (it does nothing else); it
must not fall so far behind the channel of changes that it ends (`lib.rs:391`). Nothing is
assumed of people, or of other machines, which may keep a copy for ever. `Discovery`: the timers of both tasks fire; a machine that starts goes
online.

## 4. Proofs

All proofs hold for any set of machines (natural numbers), any values, any
capacities and any bounds, with two hypotheses where a theorem names them, both
needed: that saves succeed (`~PersistMayFail`; `stamp_reuse` shows what happens
otherwise), and that there are at most two machines (`PairsKnowThemselves`,
`TwoKeepThePointer`).

* `WorkspaceDocProofs`: stamps are totally ordered; edits, updates and merges
  keep a document well formed and its clock above its stamps (`Covered`);
  merging is commutative for documents that never hold one stamp with two values
  (`Compatible`), associative and idempotent.
* `ReplicationProofs`, first invariant (`Inv1`): the type, and `Covered` for
  every document in memory, on disk and on a wire. Every action either makes a
  document from ones that exist by `Edited`, `Apply` or `Merge`, or moves one.
  The `...Quiet` lemmas say of each action that moves that nothing appears that
  was not there. Gives `TypeCorrect` and `ClocksCover`, with saves failing or not.
* Second invariant (`Inv2`), assuming saves succeed (`~PersistMayFail`):
  registers on disk are those in memory (`Saved`), and every stamp anyone
  remembers is at most the *saved* clock of the machine that issued it
  (`OriginClock`). The latter is what makes a new stamp new even after a crash,
  and is why uniqueness is not inductive by itself. Gives `StampsAreUnique`,
  `DiskIsCurrent` and `NothingStale`. `stamp_reuse` shows the assumption is needed.
* Third invariant (`Inv3`), under the same assumption, for delivery and agreement.
  `OwnEditsArrive` forgets a write that a newer one replaced at its author, and so is
  not inductive. `WritesArrive` says it of every write of a machine that anyone
  remembers; it rests on `OwnMail` (only a machine's own session is announced in its
  mailbox, so the actor has the sender of the session it broadcasts to) and on
  `OwnKnown` (nobody shows a later write of a machine than it does itself, even after a
  crash). Gives `OwnEditsReach`, and with nothing under way `SettledAgree`: of two
  machines each has what the other wrote itself.
* `DocumentsAreRegisters`: a step of `Replication` is a `Write` or a `Learn` of
  `SharedRegisters`. An edit is a `Write` because of `OriginClock` (its stamp is nobody's);
  whatever else happens is a `Learn` because every register of a merged document is one
  of the two it was made of, and because equal stamps mean equal writes.
* `SharingProofs`: suppression equals "sharing and the owner is elsewhere" on
  every path. It is inductive with the shape of three functions. `SharingTypeCorrect`
  (`Typed`) adds that every queue keeps its bound; a loop that runs takes some machine
  to be the owner, without which what it forwards could be for nobody.
  `TwoKeepThePointer` rests on `KeptInv`: as long as no connection was lost, sessions and
  events agree (`Connected`), each of two machines is only ever told that the pointer
  went to itself (`Named`), and, if no announcement was lost either, some machine has the
  pointer or has been told so (`Kept`). The announcements alone carry it: a handoff may
  be lost to a full queue. With three machines it is false (`lost_pointer`).
* `DeskProofs`, first on `Layout`: the pointer never goes to a machine that is offline,
  and over any disjoint layout of rectangles with at least one pixel a crossing is undone
  by one pixel back, to the very pixel: an entry point has its exit point as its nearest
  neighbour and nothing can lie between.
* Then on `Desk`: the least element of a finite set of integers exists
  (`FiniteHasLeast`: a counterexample of least cardinality would have one without it,
  which takes the place of induction), so the box around a machine's screens has
  pixels and its corner is the position plus the corner of the screens. With that,
  `CrossingCanBeTakenBack` applies to every desk that can come about
  (`CrossingsReturn`), and `move_machine` puts cards where they are dropped, by the
  screens of the copy it writes back with the position (`CardsLandWhereDropped`). The
  invariant (`Inv`) is the type with what copies may hold: any record of the machine, and
  in a refresher's hands one with screens, so that a write-back leaves the document in
  order however old it is. Being pixels, and not fresh, is all that routing needs of it.
  `RoutesLikeAWalk`: the walk meets a machine exactly when it lies ahead, after as many
  pixels as its distance says (`WalkMeetsAhead`, `WalkMeetsOnlyAhead`), no machine is
  further than the walk is long (`WalkIsLongEnough`), and no two are under one pixel.
* `CaptureProofs`: for any number of calls, loops and queued events. The invariant
  has one part per theorem: the type; who holds the hooks (`HolderInv`: `RUNNING`,
  the phase of the loops and of the calls that start them, and the life of the hook
  thread are one thing); what suppression means (`SwallowInv`); which thread may be
  in `set_suppression` (`OwnerInv`); and how `attached`, `DETACHED` and
  `SUPPRESSING` differ in each of its phases while none have overlapped
  (`MouseInv`); and where a key is (`KeyInv`). `OneHolder` alone is not inductive: that
  a start finds no hook thread follows from the order in which `Drop` ends. `KeyActsOnce` speaks of a key at
  the end of its way; on the way, and undisturbed, it acts nowhere but where hook and
  router agree that it should, and until it has it is in the hook's hands or queued for
  the loop that will forward it (`OnItsWay`). That this is the loop with the `Capture` is
  `SinkInv`: a start sets the sink before the loop it starts for can read from it.
* `StoreProofs`: the invariant says that once synced the temporary file holds what
  was asked for, and that a workspace that was not given up is in place. Each call
  is then a step of `AtomicFile` or a stutter (`StoreIsAtomic`), and reading
  reports no workspace only after a removal (`ResetsAreAskedFor`).
* `JoiningProofs`: for any number of machines, workspaces and troubles. The
  invariant (`Inv`) is the type with documents whose clock covers their stamps
  (`GoodDoc`: what the clock of a merge is depends on it), the bounds of the queues,
  `Undecided` (a machine that runs without a document trusts somebody: `Forget` adds
  the one it adopts in the step that empties `doc`, and what ends that trust, a
  document that was taken over, fills `doc`) and `DiskOfThisWorkspace`, which is
  inductive beside them: a save that fails puts the machine among the `unsaved` in the
  step that leaves its file behind (`PersistKeeps`). Saves may fail in all of these. `PairsKnowThemselves` adds (`PairInv`) that with two machines a
  document knows its holder, whomever the holder trusts and the machine it was just
  authorised for, so that every snapshot that goes out knows both ends. With three that
  fails between a session's `Identify` and its document, and so does the property.
* `DiscoveryProofs`: the type, of which two parts relate what the tasks keep: the
  sockets that announce are on interfaces the task knows, and memberships are of the
  socket that is open.

Only model-checked is what the prover cannot reason about: liveness under fairness
(`Converges`, `ReportedAgain`, `KeyboardComesBack`, `PairedComeTogether`, `FailsOpen`, `StopIsHeard`,
`FoundAgainAndAgain`, `OneAddressIntroducesBoth`). Every invariant and every action
property that a passing run checks is the statement of a theorem.

## 5. Not modelled

Cryptography and identity (a session is between machines that trust each other),
the content of discovery packets, key translation and injection, displays of the operating
system, autostart, the command line and the presentation layer. Timing beyond
order: a heartbeat or a backoff fires at any moment.

Steps that the code takes under more than one lock, or as more than one access, and that
are one step here:

* `Joining!Authorise`: `authorize` (`session.rs:156`) and the snapshot that goes into
  `Identify` (`session.rs:170`). The second snapshot, of `SendDoc`, is a step of its own.
* `Joining!Pair`: the candidate and whether there is a document (`lib.rs:451`), then the
  insertion of the trust or of the record.
* `Replication!UpsertMachine`: the read of the record and its write, one value there; the
  two halves are `Desk`'s. Its guard that the machine is a member is that of the callers,
  which read the record first.
* `Replication!WriterSend`: a send that fails ends the writer (`session.rs:249`) while the
  reader goes on until it notices the end of the connection.
* `Capture!StopSharing`: the flag and taking the handle out of its slot
  (`lib.rs:547`); `Capture!Warp`: the load of the flag and the re-association.

## 6. Plan

1. `Joining` with three machines. `MemberOfItsOwn` is a claim about two: if the one
   whose document is wanted adopts a third machine's configuration between its two
   snapshots, a machine that gave its own up takes over a document without its record.
2. `Replication` with three machines: what is not relayed, and what becomes of an
   unpairing that meets a concurrent edit.
3. The machine records of `Replication` as several fields, so that `Desk`'s stale copies
   meet a document that differs from machine to machine.
4. `import_backup`, the one request that writes two files.
5. An abstract specification of joining (a machine is in one workspace, and moves only to
   one that admitted it), and, for two machines, of the pointer as a token that
   `Sharing` hands on, and the two modules shown to implement them.
