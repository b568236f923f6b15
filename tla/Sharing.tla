------------------------------ MODULE Sharing -------------------------------
(***************************************************************************)
(* Which machine has the pointer.  Every machine that shares runs one      *)
(* routing loop (crates/is-agent/src/sharing.rs) that decides, from its own*)
(* idea of the owner, whether local input stays here or is swallowed and   *)
(* sent away.  The idea changes by a handoff (CursorEnter), by an          *)
(* announcement, or when the owner goes away.  Handoffs, forwarded input   *)
(* and announcements pass through the networking actor's mailbox and the   *)
(* session's queue of crates/is-net.                                       *)
(*                                                                         *)
(* Which machine a movement leads to is Layout's subject: here it is any   *)
(* machine the router believes online (theorem NeverUnavailable).  A batch *)
(* of forwarded input is one token: it may or may not push the pointer over*)
(* an edge at the other end.  How a session starts and ends is Replication's*)
(* subject: here two ends are up, then broken, then closed.                *)
(***************************************************************************)
EXTENDS Integers, Sequences, FiniteSets

CONSTANTS
  Machine,       \* machine identifiers, as positive numbers
  Sharers,       \* the machines that share from the start
  Togglers,      \* bound: the machines whose sharing is switched on and off
  MailCap,       \* the actor's mailbox (256 in the code)
  QueueCap,      \* a session's outbound queue (128 in the code)
  SinkCap,       \* the queue of remote input of the routing loop (1024 in the code)
  MaxCrossings,  \* bound: crossings of a behaviour
  MaxBatches,    \* bound: batches of local input forwarded in a behaviour
  MaxFaults      \* bound: lost connections of a behaviour

None == 0

ASSUME SharingAssumption ==
  /\ Machine \subseteq Nat \ {None} /\ Sharers \subseteq Machine /\ Togglers \subseteq Machine
  /\ MailCap \in Nat \ {0, 1} /\ QueueCap \in Nat \ {0} /\ SinkCap \in Nat \ {0}
  /\ MaxCrossings \in Nat /\ MaxBatches \in Nat /\ MaxFaults \in Nat

VARIABLES
  sharing,     \* sharing[m]: the routing loop runs
  owner,       \* owner[m]: Router.owner, None while m does not share
  swallow,     \* swallow[m]: local input is suppressed
  pending,     \* pending[m]: Router.pending holds input for the owner
  announced,   \* announced[m]: Core.announced_owner
  sink,        \* sink[m]: batches of remote input not yet routed
  online,      \* online[m]: State.online
  mail,        \* mail[m]: the actor's mailbox
  outbound,    \* outbound[<<m, p>>]: the slot of p at m has a sender
  session,     \* session[<<m, p>>]: m's end of the session with p
  wire,        \* wire[<<m, p>>]: messages queued or sent from m to p
  news,        \* news[<<m, p>>]: Online (TRUE) and Offline events m's agent has not heard
  crossings, batches, faults,
  lost         \* history: a connection broke, or an announcement found a full queue

router == <<sharing, owner, swallow, pending>>
agent == <<announced, sink, online>>
net == <<outbound, session, wire, news>>
history == <<faults, lost>>
bounds == <<crossings, batches, history>>
vars == <<router, agent, mail, net, bounds>>

Pair == {mp \in Machine \X Machine : mp[1] # mp[2]}

\* up: connected.  broken: the connection is gone and this end has not noticed.
\* closed: the read loop has returned and reported it.
Session == {"up", "broken", "closed"}

\* A batch of events on its way to the owner: the entry point of a handoff, alone,
\* or local input.
Batch == {"CursorEnter", "Events"}

SendInput(p, batch) == [kind |-> "SendInput", peer |-> p, batch |-> batch]
AnnounceOwner(x) == [kind |-> "AnnounceOwner", machine |-> x]
Established(p) == [kind |-> "Established", peer |-> p]
Closed(p) == [kind |-> "Closed", peer |-> p]
Internal == [kind : {"SendInput"}, peer : Machine, batch : Batch]
            \cup [kind : {"AnnounceOwner"}, machine : Machine]
            \cup [kind : {"Established", "Closed"}, peer : Machine]

Input(batch) == [kind |-> "Input", batch |-> batch]
CursorOwner(x) == [kind |-> "CursorOwner", machine |-> x]
Message == [kind : {"Input"}, batch : Batch] \cup [kind : {"CursorOwner"}, machine : Machine]

Init ==
  /\ sharing = [m \in Machine |-> m \in Sharers]
  /\ owner = [m \in Machine |-> IF m \in Sharers THEN m ELSE None]
  /\ swallow = [m \in Machine |-> FALSE]
  /\ pending = [m \in Machine |-> FALSE]
  /\ announced = [m \in Machine |-> None]
  /\ sink = [m \in Machine |-> <<>>]
  /\ online = [m \in Machine |-> Machine \ {m}]
  /\ mail = [m \in Machine |-> <<>>]
  /\ outbound = [mp \in Pair |-> TRUE]
  /\ session = [mp \in Pair |-> "up"]
  /\ wire = [mp \in Pair |-> <<>>]
  /\ news = [mp \in Pair |-> <<>>]
  /\ crossings = 0 /\ batches = 0 /\ faults = 0 /\ lost = FALSE

-----------------------------------------------------------------------------
(* The sharing switch *)

\* set_sharing(true) and start: the new loop takes the pointer to be here.  It
\* tells nobody, and an announcement from before is still waiting for it.
StartSharing(m) ==
  /\ m \in Togglers /\ ~sharing[m]
  /\ sharing' = [sharing EXCEPT ![m] = TRUE]
  /\ owner' = [owner EXCEPT ![m] = m]
  /\ UNCHANGED <<swallow, pending, agent, mail, net, bounds>>

\* set_sharing(false): the loop ends, input is released, the remote sink is gone.
StopSharing(m) ==
  /\ m \in Togglers /\ sharing[m]
  /\ sharing' = [sharing EXCEPT ![m] = FALSE]
  /\ owner' = [owner EXCEPT ![m] = None]
  /\ swallow' = [swallow EXCEPT ![m] = FALSE]
  /\ pending' = [pending EXCEPT ![m] = FALSE]
  /\ sink' = [sink EXCEPT ![m] = <<>>]
  /\ UNCHANGED <<announced, online, mail, net, bounds>>

-----------------------------------------------------------------------------
(* The routing loop *)

\* Wrong form of the handoff: the machine the pointer leaves is announced.
CrossAnnouncesItself(m, p) ==
  /\ sharing[m] /\ owner[m] = m
  /\ p \in online[m] /\ crossings < MaxCrossings
  /\ Len(mail[m]) + 2 <= MailCap
  /\ owner' = [owner EXCEPT ![m] = p]
  /\ swallow' = [swallow EXCEPT ![m] = TRUE]
  /\ mail' = [mail EXCEPT ![m] = @ \o <<SendInput(p, "CursorEnter"), AnnounceOwner(m)>>]
  /\ crossings' = crossings + 1
  /\ UNCHANGED <<sharing, pending, announced, online, net, batches, history>>

\* on_motion, Resolution::Move: the entry point is flushed to the new owner before
\* the announcement.  Nothing was pending: the pointer was here.
Cross(m, p) ==
  /\ sharing[m] /\ owner[m] = m
  /\ p \in online[m] /\ crossings < MaxCrossings
  /\ Len(mail[m]) + 2 <= MailCap
  /\ owner' = [owner EXCEPT ![m] = p]
  /\ swallow' = [swallow EXCEPT ![m] = TRUE]
  /\ mail' = [mail EXCEPT ![m] = @ \o <<SendInput(p, "CursorEnter"), AnnounceOwner(p)>>]
  /\ crossings' = crossings + 1
  /\ UNCHANGED <<sharing, pending, announced, online, net, batches, history>>

\* handle(Local) on the owner: a movement that leads off this machine.
LocalCrosses(m, p) == Cross(m, p) /\ UNCHANGED sink

\* handle(Local) elsewhere: the event waits to be forwarded.
LocalInput(m) ==
  /\ sharing[m] /\ owner[m] # m /\ ~pending[m]
  /\ batches < MaxBatches
  /\ pending' = [pending EXCEPT ![m] = TRUE]
  /\ batches' = batches + 1
  /\ UNCHANGED <<sharing, owner, swallow, agent, mail, net, crossings, history>>

\* The next batch of remote input of a routing loop.
Routes(m, batch) ==
  /\ sharing[m] /\ sink[m] # <<>> /\ Head(sink[m]) = batch
  /\ sink' = [sink EXCEPT ![m] = Tail(@)]

\* This machine becomes the owner.
Own(m) ==
  /\ owner' = [owner EXCEPT ![m] = m]
  /\ swallow' = [swallow EXCEPT ![m] = FALSE]
  /\ pending' = [pending EXCEPT ![m] = FALSE]

\* handle(Remote), CursorEnter: receiving it is becoming the owner.
RemoteEnter(m) ==
  /\ Routes(m, "CursorEnter")
  /\ Own(m)
  /\ UNCHANGED <<sharing, announced, online, mail, net, bounds>>

\* handle(Remote), other events: applied by the owner, dropped by anyone else.
RemoteInput(m) ==
  /\ Routes(m, "Events")
  /\ UNCHANGED <<router, announced, online, mail, net, bounds>>

\* handle(Remote): the owner is pushed off this machine by another one's mouse.
RemoteCrosses(m, p) == Routes(m, "Events") /\ Cross(m, p)

\* apply_announcement: an announcement that names another owner than ours.
Announced(m) == announced[m] # None /\ announced[m] # owner[m]

\* Wrong form of the flush tick: an announcement does not release the input.
FlushKeepsSwallowing(m) ==
  LET x == IF Announced(m) THEN announced[m] ELSE owner[m]
      sends == pending[m] /\ ~Announced(m)
  IN  /\ sharing[m] /\ (announced[m] # None \/ pending[m])
      /\ announced' = [announced EXCEPT ![m] = None]
      /\ owner' = [owner EXCEPT ![m] = x]
      /\ swallow' = [swallow EXCEPT ![m] = @ \/ x # m]
      /\ pending' = [pending EXCEPT ![m] = FALSE]
      /\ sends => Len(mail[m]) < MailCap
      /\ mail' = [mail EXCEPT ![m] = IF sends THEN Append(@, SendInput(x, "Events")) ELSE @]
      /\ UNCHANGED <<sharing, sink, online, net, bounds>>

\* The flush tick: the announcement is applied, which drops what is pending; what
\* is still pending goes out to the owner.
Flush(m) ==
  LET x == IF Announced(m) THEN announced[m] ELSE owner[m]
      sends == pending[m] /\ ~Announced(m)
  IN  /\ sharing[m] /\ (announced[m] # None \/ pending[m])
      /\ announced' = [announced EXCEPT ![m] = None]
      /\ owner' = [owner EXCEPT ![m] = x]
      /\ swallow' = [swallow EXCEPT ![m] = IF Announced(m) THEN x # m ELSE @]
      /\ pending' = [pending EXCEPT ![m] = FALSE]
      /\ sends => Len(mail[m]) < MailCap
      /\ mail' = [mail EXCEPT ![m] = IF sends THEN Append(@, SendInput(x, "Events")) ELSE @]
      /\ UNCHANGED <<sharing, sink, online, net, bounds>>

\* Wrong form of the heartbeat: the owner is asked of, but the other way round.
TakeOwnershipOnline(m) ==
  /\ sharing[m] /\ owner[m] # m /\ owner[m] \in online[m]
  /\ Len(mail[m]) < MailCap
  /\ Own(m)
  /\ mail' = [mail EXCEPT ![m] = Append(@, AnnounceOwner(m))]
  /\ UNCHANGED <<sharing, agent, net, bounds>>

\* The heartbeat: the owner went away, so this machine takes the pointer and says so.
TakeOwnership(m) ==
  /\ sharing[m] /\ owner[m] # m /\ owner[m] \notin online[m]
  /\ Len(mail[m]) < MailCap
  /\ Own(m)
  /\ mail' = [mail EXCEPT ![m] = Append(@, AnnounceOwner(m))]
  /\ UNCHANGED <<sharing, agent, net, bounds>>

-----------------------------------------------------------------------------
(* The networking actor *)

\* The next message of the mailbox.
Handles(m, kind) ==
  /\ mail[m] # <<>> /\ Head(mail[m]).kind = kind
  /\ mail' = [mail EXCEPT ![m] = Tail(@)]

\* try_send succeeds: the writer still has its end of a queue with room.
Accepts(mp) == session[mp] # "closed" /\ Len(wire[mp]) < QueueCap

\* What the wire holds once the slot was offered a message: nothing gets through a
\* broken connection.
Offered(mp, message) ==
  IF outbound[mp] /\ Accepts(mp) /\ session[mp] = "up"
  THEN Append(wire[mp], message) ELSE wire[mp]

\* on_send_input: input for a machine that is not connected is dropped; a full
\* queue costs the connection.
OnSendInput(m) ==
  LET mp == <<m, Head(mail[m]).peer>>
  IN  /\ Handles(m, "SendInput")
      /\ wire' = [wire EXCEPT ![mp] = Offered(mp, Input(Head(mail[m]).batch))]
      /\ outbound' = [outbound EXCEPT ![mp] = @ /\ Accepts(mp)]
      /\ UNCHANGED <<router, agent, session, news, bounds>>

\* on_announce_owner: a full queue loses the announcement and nothing else.
OnAnnounceOwner(m) ==
  /\ Handles(m, "AnnounceOwner")
  /\ wire' = [mp \in Pair |-> IF mp[1] = m THEN Offered(mp, CursorOwner(Head(mail[m]).machine))
                              ELSE wire[mp]]
  /\ lost' = (lost \/ \E mp \in Pair : mp[1] = m /\ outbound[mp] /\ ~Accepts(mp))
  /\ UNCHANGED <<router, agent, outbound, session, news, crossings, batches, faults>>

\* on_session, Established and Closed: the slot gets or loses its sender and the
\* agent is sent an event.
OnEstablished(m) ==
  LET mp == <<m, Head(mail[m]).peer>>
  IN  /\ Handles(m, "Established")
      /\ outbound' = [outbound EXCEPT ![mp] = TRUE]
      /\ news' = [news EXCEPT ![mp] = Append(@, TRUE)]
      /\ UNCHANGED <<router, agent, session, wire, bounds>>

OnClosed(m) ==
  LET mp == <<m, Head(mail[m]).peer>>
  IN  /\ Handles(m, "Closed")
      /\ outbound' = [outbound EXCEPT ![mp] = FALSE]
      /\ news' = [news EXCEPT ![mp] = Append(@, FALSE)]
      /\ UNCHANGED <<router, agent, session, wire, bounds>>

-----------------------------------------------------------------------------
(* Sessions and events *)

Reads(mp, kind) ==
  /\ session[<<mp[2], mp[1]>>] = "up" /\ wire[mp] # <<>> /\ Head(wire[mp]).kind = kind
  /\ wire' = [wire EXCEPT ![mp] = Tail(@)]

\* Wrong form of Core::on_input: the sink has no bound.
ReadInputUnbounded(mp) ==
  LET p == mp[2]
  IN  /\ Reads(mp, "Input")
      /\ sink' = [sink EXCEPT ![p] = IF sharing[p] THEN Append(@, Head(wire[mp]).batch) ELSE @]
      /\ UNCHANGED <<router, announced, online, mail, outbound, session, news, bounds>>

\* read_loop, Input: routed while this machine shares and its queue has room,
\* replayed at once when it does not share (Core::on_input).
ReadInput(mp) ==
  LET p == mp[2]
  IN  /\ Reads(mp, "Input")
      /\ sink' = [sink EXCEPT ![p] = IF sharing[p] /\ Len(@) < SinkCap
                                     THEN Append(@, Head(wire[mp]).batch) ELSE @]
      /\ UNCHANGED <<router, announced, online, mail, outbound, session, news, bounds>>

\* read_loop, CursorOwner: the last announcement to arrive is the one that counts.
ReadOwner(mp) ==
  /\ Reads(mp, "CursorOwner")
  /\ announced' = [announced EXCEPT ![mp[2]] = Head(wire[mp]).machine]
  /\ UNCHANGED <<router, sink, online, mail, outbound, session, news, bounds>>

\* The writer of this end has nothing left to wait for: it shuts its half down.
SenderGone(mp) ==
  ~outbound[mp] /\ \A i \in DOMAIN mail[mp[1]] : mail[mp[1]][i] # Established(mp[2])

\* The connection between two machines fails, or one of the two closes it.
Break(m, p) ==
  LET ends == {<<m, p>>, <<p, m>>}
  IN  /\ m < p /\ \A e \in ends : session[e] = "up"
      /\ faults < MaxFaults \/ \E e \in ends : SenderGone(e)
      /\ session' = [e \in Pair |-> IF e \in ends THEN "broken" ELSE session[e]]
      /\ wire' = [e \in Pair |-> IF e \in ends THEN <<>> ELSE wire[e]]
      /\ faults' = faults + 1 /\ lost' = TRUE
      /\ UNCHANGED <<router, agent, mail, outbound, news, crossings, batches>>

\* run: the read loop returned.
ReportClosed(mp) ==
  /\ session[mp] = "broken" /\ Len(mail[mp[1]]) < MailCap
  /\ session' = [session EXCEPT ![mp] = "closed"]
  /\ mail' = [mail EXCEPT ![mp[1]] = Append(@, Closed(mp[2]))]
  /\ UNCHANGED <<router, agent, outbound, wire, news, bounds>>

\* on_tick: the machine with the lower identifier dials once it has handled the end
\* of the last session, and both ends are established.
Reconnect(m, p) ==
  LET ends == {<<m, p>>, <<p, m>>}
  IN  /\ m < p /\ faults <= MaxFaults /\ \A e \in ends : session[e] = "closed"
      /\ \A i \in DOMAIN mail[m] : mail[m][i] # Closed(p)
      /\ Len(mail[m]) < MailCap /\ Len(mail[p]) < MailCap
      /\ session' = [e \in Pair |-> IF e \in ends THEN "up" ELSE session[e]]
      /\ mail' = [mail EXCEPT ![m] = Append(@, Established(p)), ![p] = Append(@, Established(m))]
      /\ UNCHANGED <<router, agent, outbound, wire, news, bounds>>

\* on_net_event: the agent hears that a peer came or went.
OnNetEvent(mp) ==
  /\ news[mp] # <<>>
  /\ news' = [news EXCEPT ![mp] = Tail(@)]
  /\ online' = [online EXCEPT ![mp[1]] = IF Head(news[mp]) THEN @ \cup {mp[2]} ELSE @ \ {mp[2]}]
  /\ UNCHANGED <<router, announced, sink, mail, outbound, session, wire, bounds>>

-----------------------------------------------------------------------------
Switch(m) == StartSharing(m) \/ StopSharing(m)
Routing(m) == RemoteEnter(m) \/ RemoteInput(m) \/ Flush(m) \/ TakeOwnership(m)
Actor(m) == OnSendInput(m) \/ OnAnnounceOwner(m) \/ OnEstablished(m) \/ OnClosed(m)

Next ==
  \/ \E m \in Machine : Switch(m) \/ LocalInput(m) \/ Routing(m) \/ Actor(m)
  \/ \E mp \in Pair :
       \/ LocalCrosses(mp[1], mp[2]) \/ RemoteCrosses(mp[1], mp[2])
       \/ ReadInput(mp) \/ ReadOwner(mp) \/ OnNetEvent(mp)
       \/ Break(mp[1], mp[2]) \/ ReportClosed(mp) \/ Reconnect(mp[1], mp[2])

Spec == Init /\ [][Next]_vars

\* The routing loop keeps turning (its heartbeat and flush timers), the actor, the
\* read loops and the agent keep draining what they are sent.  Nothing is assumed
\* of people, of the network, or of a new session ever being made.
Fairness ==
  /\ \A m \in Machine :
       /\ WF_vars(RemoteEnter(m) \/ RemoteInput(m)) /\ WF_vars(Flush(m))
       /\ WF_vars(TakeOwnership(m)) /\ WF_vars(Actor(m))
  /\ \A mp \in Pair :
       /\ WF_vars(ReadInput(mp) \/ ReadOwner(mp)) /\ WF_vars(OnNetEvent(mp))
       /\ WF_vars(ReportClosed(mp))

FairSpec == Spec /\ Fairness

-----------------------------------------------------------------------------
(* Properties *)

\* Every variable holds what its Rust type admits, and no queue outgrows its bound.
TypeOK ==
  /\ sharing \in [Machine -> BOOLEAN]
  /\ owner \in [Machine -> Machine \cup {None}]
  /\ swallow \in [Machine -> BOOLEAN] /\ pending \in [Machine -> BOOLEAN]
  /\ announced \in [Machine -> Machine \cup {None}]
  /\ \A m \in Machine : /\ sink[m] \in Seq(Batch) /\ Len(sink[m]) <= SinkCap
                        /\ mail[m] \in Seq(Internal) /\ Len(mail[m]) <= MailCap
                        /\ online[m] \subseteq Machine \ {m}
  /\ \A mp \in Pair : /\ outbound[mp] \in BOOLEAN /\ session[mp] \in Session
                      /\ wire[mp] \in Seq(Message) /\ Len(wire[mp]) <= QueueCap
                      /\ news[mp] \in Seq(BOOLEAN)
  /\ crossings \in Nat /\ batches \in Nat /\ faults \in Nat /\ lost \in BOOLEAN

\* Local input is swallowed exactly while this machine shares and takes another
\* machine to be the owner: it never acts on two machines and never on none
\* because a path out of a handoff forgot the hook.
SwallowsExactlyWhenAway ==
  \A m \in Machine : swallow[m] <=> sharing[m] /\ owner[m] # m

\* Everything that was sent has been taken in, every machine shares and is
\* connected to every other, and the agents have heard of it.
Settled ==
  /\ \A m \in Machine : /\ sharing[m] /\ announced[m] = None /\ sink[m] = <<>>
                        /\ mail[m] = <<>> /\ online[m] = Machine \ {m}
  /\ \A mp \in Pair : /\ outbound[mp] /\ session[mp] = "up"
                      /\ wire[mp] = <<>> /\ news[mp] = <<>>

\* When everything has settled some machine has the pointer: no handoff, announcement
\* or switch leaves every keyboard swallowed for a machine that believes another one
\* has it, nor does a routing loop whose queue was full when the handoff came.  What
\* can is a lost connection, or an announcement that is lost to a full queue behind a
\* handoff that is lost to another.  With two machines it holds; a third machine's
\* late announcement breaks it: see the findings.
PointerNotLost == ~lost /\ Settled => \E m \in Machine : owner[m] = m

\* A keyboard does not stay swallowed for a machine whose session is over: the
\* heartbeat takes the pointer back, an announcement names somebody else, or the
\* machine is back.
KeyboardComesBack ==
  \A mp \in Pair :
    (swallow[mp[1]] /\ owner[mp[1]] = mp[2] /\ session[mp] # "up")
      ~> (~swallow[mp[1]] \/ owner[mp[1]] # mp[2] \/ session[mp] = "up")

=============================================================================
