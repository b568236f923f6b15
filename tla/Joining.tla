------------------------------ MODULE Joining -------------------------------
(***************************************************************************)
(* How machines that each began with a configuration of their own come to  *)
(* share one.  They hear of each other, people admit them, the one with the*)
(* lower identifier dials, both check and identify each other, and when the*)
(* two are in different workspaces one of them gives its own up and takes  *)
(* the other's (crates/is-net/src/service.rs and session.rs, and the       *)
(* joining half of crates/is-agent/src/lib.rs).                            *)
(*                                                                         *)
(* Time is order only: a backoff ends at any moment, so next_attempt, and  *)
(* what brings it forward (a sighting after a silence or with another      *)
(* workspace, request_rescan at the end of an adoption), need no state.  A *)
(* pair of machines has one connection at a time; overlapping ones, and    *)
(* updates after the first documents, are Replication's subject.           *)
(***************************************************************************)
EXTENDS WorkspaceDoc, Sequences

CONSTANTS
  Workspace,     \* workspace identifiers, as positive numbers
  MailCap,       \* the actor's mailbox (256 in the code)
  EventCap,      \* events the agent may be behind by (256 in the code)
  MaxLamport,    \* bound: no edit beyond this clock
  MaxTroubles    \* bound: failed dials, lost connections, failed saves and removals, crashes
                 \* and machines unpaired, taken together

None == 0

ASSUME JoiningAssumption ==
  /\ Workspace \subseteq Nat \ {None} /\ IsFiniteSet(Machine)
  /\ MailCap \in Nat \ {0} /\ EventCap \in Nat \ {0}
  /\ MaxLamport \in Nat /\ MaxTroubles \in Nat

VARIABLES
  up,          \* up[m]: the agent of m is running
  doc,         \* doc[m]: State.doc
  disk,        \* disk[m]: workspace.json
  trust,       \* trust[m]: State.pending_trust
  candidates,  \* candidates[m]: State.candidates
  adopting,    \* adopting[m]: how far adopt_configuration_of is, and whose it is
  events,      \* events[m]: DifferentWorkspaces events the agent has not handled
  mail,        \* mail[m]: the actor's mailbox
  status,      \* status[<<m, p>>]: PeerSlot.status
  seen,        \* seen[<<m, p>>]: the slot's address is known and fresh
  phase,       \* phase[<<m, p>>]: how far m's end of the connection is
  sent,        \* sent[<<m, p>>]: the workspace this end identified itself with
  wire,        \* wire[<<m, p>>]: frames m has written and p has not read
  made,        \* the workspace identifiers given out so far
  unsaved,     \* the machines whose last save failed
  faults, unpairs   \* how often each happened

agent == <<doc, disk, trust, candidates, adopting, events>>
slots == <<status, seen>>
connection == <<phase, sent, wire>>
history == <<made, faults, unpairs, unsaved>>
vars == <<up, agent, mail, slots, connection, history>>

Trouble == faults + unpairs < MaxTroubles

Pairs == {mp \in Machine \X Machine : mp[1] # mp[2]}
Other(e) == <<e[2], e[1]>>

NoDoc == [id |-> None]
Doc == [id : Workspace, body : WorkspaceDoc]

\* The record a document holds of a machine: what is in it plays no part here.
Record == CHOOSE v \in Value : TRUE
NewDoc(m, w) == [id |-> w, body |-> Create(m, Record, Record, Record)]

\* machines_present, and how many there are.
Has(d, x) == d # NoDoc /\ IsMember(d.body, x)
Size(d) == IF d = NoDoc THEN 0 ELSE Cardinality({x \in Machine : IsMember(d.body, x)})

\* hello: the keys are exchanged.  identified: authorised, Identify sent.
\* established: reported as such.  live: the document is sent, the read loop runs.
Phase == {"closed", "hello", "identified", "established", "live"}

Identify(w, size) == [kind |-> "Identify", workspace |-> w, size |-> size]
DocFull(d) == [kind |-> "DocFull", doc |-> d]
Bye == [kind |-> "Bye"]   \* Goodbye, a shutdown, or an error in reading

Outcome(k, p) == [kind |-> k, peer |-> p]
Different(p, w, size) == [kind |-> "Different", peer |-> p, workspace |-> w, size |-> size]

Idle == [step |-> "idle"]
At(s, p) == [step |-> s, peer |-> p]

\* Agent::load on a machine that has never run: a workspace of its own.
Init ==
  /\ up = [m \in Machine |-> TRUE]
  /\ \E f \in [Machine -> Workspace] :
       /\ \A m, p \in Machine : m # p => f[m] # f[p]
       /\ doc = [m \in Machine |-> NewDoc(m, f[m])]
       /\ made = {f[m] : m \in Machine}
  /\ disk = doc
  /\ trust = [m \in Machine |-> {}]
  /\ candidates = [m \in Machine |-> {}]
  /\ adopting = [m \in Machine |-> Idle]
  /\ events = [m \in Machine |-> <<>>]
  /\ mail = [m \in Machine |-> <<>>]
  /\ status = [mp \in Pairs |-> "Offline"]
  /\ seen = [mp \in Pairs |-> FALSE]
  /\ phase = [mp \in Pairs |-> "closed"]
  /\ sent = [mp \in Pairs |-> None]
  /\ wire = [mp \in Pairs |-> <<>>]
  /\ faults = 0 /\ unpairs = 0 /\ unsaved = {}

-----------------------------------------------------------------------------
(* People *)

\* Wrong form of authorize: whoever proves an identity is let in.
AuthorizeAnyone(m, p) == TRUE

\* authorize: the document decides, and only without a record the decision to join.
Authorize(m, p) == Has(doc[m], p) \/ p \in trust[m]

\* Core::persist: a save that fails is only logged, and the file stays as it is until
\* the next one.
Persist(m, d) ==
  \/ disk' = [disk EXCEPT ![m] = d] /\ unsaved' = unsaved \ {m} /\ UNCHANGED faults
  \/ Trouble /\ faults' = faults + 1 /\ unsaved' = unsaved \cup {m} /\ UNCHANGED disk

\* Agent::mutate, as far as this machine is concerned.
Mutate(m, p, v) ==
  LET d == [doc[m] EXCEPT !.body = Edited(@, UpdateOf(@, m, SlotField(p), v))]
  IN  /\ doc[m] # NoDoc /\ doc[m].body.lamport < MaxLamport
      /\ doc' = [doc EXCEPT ![m] = d]
      /\ Persist(m, d)

\* pair: with a document the candidate gets a record, without one it is trusted.
Pair(m, p) ==
  /\ up[m] /\ p \in candidates[m]
  /\ IF doc[m] = NoDoc
     THEN /\ trust' = [trust EXCEPT ![m] = @ \cup {p}]
          /\ UNCHANGED <<doc, disk, candidates, faults, unsaved>>
     ELSE /\ Mutate(m, p, Record)
          /\ candidates' = [candidates EXCEPT ![m] = @ \ {p}]
          /\ UNCHANGED trust
  /\ UNCHANGED <<up, adopting, events, mail, slots, connection, made, unpairs>>

Unpair(m, p) ==
  /\ up[m] /\ Trouble
  /\ Mutate(m, p, Removed)
  /\ unpairs' = unpairs + 1
  /\ UNCHANGED <<up, trust, candidates, adopting, events, mail, slots, connection, made>>

-----------------------------------------------------------------------------
(* The actor *)

\* on_sighting: a machine this one would authorise gets a slot; any other is
\* offered to people.
OnSighting(m, p) ==
  /\ up[m] /\ up[p]
  /\ IF Authorize(m, p)
     THEN seen' = [seen EXCEPT ![<<m, p>>] = TRUE] /\ UNCHANGED candidates
     ELSE candidates' = [candidates EXCEPT ![m] = @ \cup {p}] /\ UNCHANGED seen
  /\ UNCHANGED <<up, doc, disk, trust, adopting, events, mail, status, connection, history>>

\* HINT_TTL without an announcement: on_tick forgets the address.
Expire(m, p) ==
  /\ up[m] /\ ~up[p] /\ status[<<m, p>>] = "Offline"
  /\ seen' = [seen EXCEPT ![<<m, p>>] = FALSE]
  /\ UNCHANGED <<up, agent, mail, status, connection, history>>

Post(m, letter) ==
  /\ Len(mail[m]) < MailCap
  /\ mail' = [mail EXCEPT ![m] = Append(@, letter)]

\* on_tick: the machine with the lower identifier dials the peers that are due.
Dials(m, p) ==
  /\ up[m] /\ m < p
  /\ status[<<m, p>>] = "Offline" /\ seen[<<m, p>>]
  /\ phase[<<m, p>>] = "closed" /\ phase[<<p, m>>] = "closed"
  /\ status' = [status EXCEPT ![<<m, p>>] = "Connecting"]

\* spawn_dial gets through, and so do both Hello frames.
Dial(m, p) ==
  /\ Dials(m, p) /\ up[p]
  /\ phase' = [phase EXCEPT ![<<m, p>>] = "hello", ![<<p, m>>] = "hello"]
  /\ wire' = [wire EXCEPT ![<<m, p>>] = <<>>, ![<<p, m>>] = <<>>]
  /\ UNCHANGED <<up, agent, mail, seen, sent, history>>

\* It does not.
DialFails(m, p) ==
  /\ Dials(m, p) /\ (~up[p] \/ Trouble)
  /\ Post(m, Outcome("Closed", p))
  /\ faults' = IF up[p] THEN faults + 1 ELSE faults
  /\ UNCHANGED <<up, agent, seen, connection, made, unpairs, unsaved>>

\* The next message of the mailbox.
Handles(m, k) ==
  /\ up[m] /\ mail[m] # <<>> /\ Head(mail[m]).kind = k
  /\ mail' = [mail EXCEPT ![m] = Tail(@)]

From(m) == <<m, Head(mail[m]).peer>>

OnEstablished(m) ==
  /\ Handles(m, "Established")
  /\ status' = [status EXCEPT ![From(m)] = "Online"]
  /\ candidates' = [candidates EXCEPT ![m] = @ \ {Head(mail[m]).peer}]
  /\ UNCHANGED <<up, doc, disk, trust, adopting, events, seen, connection, history>>

OnClosed(m) ==
  /\ Handles(m, "Closed")
  /\ status' = [status EXCEPT ![From(m)] = "Offline"]
  /\ UNCHANGED <<up, agent, seen, connection, history>>

\* Rejected: offered to people, and the slot is left as it is.
OnRejected(m) ==
  /\ Handles(m, "Rejected")
  /\ candidates' = [candidates EXCEPT ![m] = @ \cup {Head(mail[m]).peer}]
  /\ UNCHANGED <<up, doc, disk, trust, adopting, events, slots, connection, history>>

\* The event for the agent; a full channel loses its oldest.
Behind(m, event) == Append(IF Len(events[m]) < EventCap THEN events[m] ELSE Tail(events[m]), event)

\* Wrong form of DifferentWorkspaces: the slot is left Connecting.
OnDifferentKeepsStatus(m) ==
  /\ Handles(m, "Different")
  /\ events' = [events EXCEPT ![m] = Behind(m, Head(mail[m]))]
  /\ UNCHANGED <<up, doc, disk, trust, candidates, adopting, slots, connection, history>>

\* DifferentWorkspaces: a long backoff, and the agent decides.
OnDifferent(m) ==
  /\ Handles(m, "Different")
  /\ status' = [status EXCEPT ![From(m)] = "Offline"]
  /\ events' = [events EXCEPT ![m] = Behind(m, Head(mail[m]))]
  /\ UNCHANGED <<up, doc, disk, trust, candidates, adopting, seen, connection, history>>

Actor(m) ==
  OnEstablished(m) \/ OnClosed(m) \/ OnRejected(m) \/ OnDifferent(m)

-----------------------------------------------------------------------------
(* One end of a connection: session::run *)

\* The end is over: the peer reads that, after what was written before.
Leaves(e) ==
  /\ phase' = [phase EXCEPT ![e] = "closed"]
  /\ wire' = [wire EXCEPT ![e] = Append(@, Bye)]

\* run returns an error: spawn_dial reports it, spawn_accepted only logs it.
Fails(e) ==
  /\ Leaves(e)
  /\ IF e[1] < e[2] THEN Post(e[1], Outcome("Closed", e[2])) ELSE UNCHANGED mail

\* Authorisation, and the first encrypted message.
Authorise(e) ==
  LET m == e[1]
      p == e[2]
  IN  /\ phase[e] = "hello"
      /\ IF Authorize(m, p)
         THEN /\ phase' = [phase EXCEPT ![e] = "identified"]
              /\ sent' = [sent EXCEPT ![e] = doc[m].id]
              /\ wire' = [wire EXCEPT ![e] = Append(@, Identify(doc[m].id, Size(doc[m])))]
              /\ UNCHANGED mail
         ELSE Leaves(e) /\ Post(m, Outcome("Rejected", p)) /\ UNCHANGED sent
      /\ UNCHANGED <<up, agent, slots, history>>

\* The peer's Identify: two different workspaces end the connection.
Identified(e) ==
  LET f == Head(wire[Other(e)])
      taken == [wire EXCEPT ![Other(e)] = Tail(@)]
  IN  /\ phase[e] = "identified" /\ wire[Other(e)] # <<>> /\ f.kind = "Identify"
      /\ IF sent[e] # None /\ f.workspace # None /\ f.workspace # sent[e]
         THEN /\ phase' = [phase EXCEPT ![e] = "closed"]
              /\ wire' = [taken EXCEPT ![e] = Append(@, Bye)]
              /\ Post(e[1], Different(e[2], f.workspace, f.size))
         ELSE /\ phase' = [phase EXCEPT ![e] = "established"]
              /\ wire' = taken
              /\ Post(e[1], Outcome("Established", e[2]))
      /\ UNCHANGED <<up, agent, slots, sent, history>>

\* The peer was gone before it identified itself.
NotIdentified(e) ==
  /\ phase[e] = "identified" /\ wire[Other(e)] # <<>> /\ Head(wire[Other(e)]) = Bye
  /\ Fails(e)
  /\ UNCHANGED <<up, agent, slots, sent, history>>

\* The document as it is by now, if there is one; then the read loop begins.
SendDoc(e) ==
  /\ phase[e] = "established"
  /\ phase' = [phase EXCEPT ![e] = "live"]
  /\ wire' = [wire EXCEPT ![e] = IF doc[e[1]] = NoDoc THEN @ ELSE Append(@, DocFull(doc[e[1]]))]
  /\ UNCHANGED <<up, agent, mail, slots, sent, history>>

\* The peer is gone by now, and the document cannot be sent to it.
SendFails(e) ==
  /\ phase[e] = "established" /\ doc[e[1]] # NoDoc
  /\ Bye \in Range(wire[Other(e)])
  /\ Fails(e)
  /\ UNCHANGED <<up, agent, slots, sent, history>>

\* The read loop returns: whoever dialled, Closed is reported.
Ends(e) == Leaves(e) /\ Post(e[1], Outcome("Closed", e[2]))

\* What Core::merge makes of a document: a machine without one adopts it.
Merged(m, d) == IF doc[m] = NoDoc THEN d ELSE [doc[m] EXCEPT !.body = Merge(@, d.body)]

\* Wrong form of Core::merge: the document that is taken over is not saved.
ReadDocUnsaved(e) ==
  LET m == e[1]
      d == Merged(m, Head(wire[Other(e)]).doc)
  IN  /\ phase[e] = "live" /\ wire[Other(e)] # <<>> /\ Head(wire[Other(e)]).kind = "DocFull"
      /\ doc[m].id \in {None, Head(wire[Other(e)]).doc.id}
      /\ doc' = [doc EXCEPT ![m] = d]
      /\ trust' = [trust EXCEPT ![m] = {x \in @ : ~Has(d, x)}]
      /\ wire' = [wire EXCEPT ![Other(e)] = Tail(@)]
      /\ UNCHANGED <<up, disk, candidates, adopting, events, mail, slots, phase, sent, history>>

\* read_loop, DocFull of this workspace or on a machine without one: the document
\* is merged; if a register changed it is saved, and who is in it needs no trust
\* beyond it.
ReadDoc(e) ==
  LET m == e[1]
      d == Merged(m, Head(wire[Other(e)]).doc)
      changed == doc[m] = NoDoc \/ d.body.reg # doc[m].body.reg
  IN  /\ phase[e] = "live" /\ wire[Other(e)] # <<>> /\ Head(wire[Other(e)]).kind = "DocFull"
      /\ doc[m].id \in {None, Head(wire[Other(e)]).doc.id}
      /\ doc' = [doc EXCEPT ![m] = d]
      /\ IF changed
         THEN Persist(m, d) /\ trust' = [trust EXCEPT ![m] = {x \in @ : ~Has(d, x)}]
         ELSE UNCHANGED <<disk, trust, faults, unsaved>>
      /\ wire' = [wire EXCEPT ![Other(e)] = Tail(@)]
      /\ UNCHANGED <<up, candidates, adopting, events, mail, slots, phase, sent, made, unpairs>>

\* read_loop ends: another workspace's document, or the end of the stream.
ReadEnd(e) ==
  /\ phase[e] = "live" /\ wire[Other(e)] # <<>>
  /\ LET f == Head(wire[Other(e)])
     IN  f = Bye \/ (f.kind = "DocFull" /\ doc[e[1]].id \notin {None, f.doc.id})
  /\ Ends(e)
  /\ UNCHANGED <<up, agent, slots, sent, history>>

\* The connection is lost, with what was under way.
Break(m, p) ==
  LET ends == {<<m, p>>, <<p, m>>}
  IN  /\ m < p /\ Trouble /\ \A e \in ends : phase[e] # "closed"
      /\ wire' = [e \in Pairs |-> IF e \in ends THEN <<Bye>> ELSE wire[e]]
      /\ faults' = faults + 1
      /\ UNCHANGED <<up, agent, mail, slots, phase, sent, made, unpairs, unsaved>>

Session(e) ==
  \/ Authorise(e) \/ Identified(e) \/ NotIdentified(e)
  \/ SendDoc(e) \/ SendFails(e) \/ ReadDoc(e) \/ ReadEnd(e)

-----------------------------------------------------------------------------
(* The agent: giving a configuration up *)

\* should_yield: the smaller configuration gives way, an even split is broken by
\* identifier.
ShouldYield(d, w, size) == Size(d) < size \/ (Size(d) = size /\ d.id > w)

\* on_net_event, DifferentWorkspaces: decide, and write the rescue copy.
OnNetEvent(m) ==
  LET v == Head(events[m])
  IN  /\ up[m] /\ adopting[m] = Idle /\ events[m] # <<>>
      /\ events' = [events EXCEPT ![m] = Tail(@)]
      /\ adopting' = [adopting EXCEPT ![m] =
                        IF doc[m] # NoDoc /\ ShouldYield(doc[m], v.workspace, v.size)
                        THEN At("forget", v.peer) ELSE @]
      /\ UNCHANGED <<up, doc, disk, trust, candidates, mail, slots, connection, history>>

\* Wrong form of adopt_configuration_of: nobody is trusted across the gap.
ForgetTrustsNobody(m) ==
  /\ up[m] /\ adopting[m].step = "forget"
  /\ doc' = [doc EXCEPT ![m] = NoDoc]
  /\ adopting' = [adopting EXCEPT ![m].step = "clear"]
  /\ UNCHANGED <<up, disk, trust, candidates, events, mail, slots, connection, history>>

\* adopt_configuration_of, under the lock.
Forget(m) ==
  /\ up[m] /\ adopting[m].step = "forget"
  /\ doc' = [doc EXCEPT ![m] = NoDoc]
  /\ trust' = [trust EXCEPT ![m] = @ \cup {adopting[m].peer}]
  /\ adopting' = [adopting EXCEPT ![m].step = "clear"]
  /\ UNCHANGED <<up, disk, candidates, events, mail, slots, connection, history>>

\* clear_workspace, outside it; the request to rescan is only about time.
Clear(m) ==
  /\ up[m] /\ adopting[m].step = "clear"
  /\ disk' = [disk EXCEPT ![m] = NoDoc]
  /\ unsaved' = unsaved \ {m}
  /\ adopting' = [adopting EXCEPT ![m] = Idle]
  /\ UNCHANGED <<up, doc, trust, candidates, events, mail, slots, connection,
                 made, faults, unpairs>>

\* It fails: the error ends the adoption where it is.
ClearFails(m) ==
  /\ up[m] /\ adopting[m].step = "clear" /\ Trouble
  /\ adopting' = [adopting EXCEPT ![m] = Idle]
  /\ faults' = faults + 1
  /\ UNCHANGED <<up, doc, disk, trust, candidates, events, mail, slots, connection,
                 made, unpairs, unsaved>>

Adoption(m) == OnNetEvent(m) \/ Forget(m) \/ Clear(m)

-----------------------------------------------------------------------------
(* Crashes *)

\* Everything but the file is lost; the peers see their connections end.
Crash(m) ==
  LET mine == {e \in Pairs : e[1] = m}
  IN  /\ up[m] /\ Trouble
      /\ up' = [up EXCEPT ![m] = FALSE]
      /\ doc' = [doc EXCEPT ![m] = NoDoc]
      /\ trust' = [trust EXCEPT ![m] = {}]
      /\ candidates' = [candidates EXCEPT ![m] = {}]
      /\ adopting' = [adopting EXCEPT ![m] = Idle]
      /\ events' = [events EXCEPT ![m] = <<>>]
      /\ mail' = [mail EXCEPT ![m] = <<>>]
      /\ status' = [e \in Pairs |-> IF e \in mine THEN "Offline" ELSE status[e]]
      /\ seen' = [e \in Pairs |-> seen[e] /\ e \notin mine]
      /\ phase' = [e \in Pairs |-> IF e \in mine THEN "closed" ELSE phase[e]]
      /\ wire' = [e \in Pairs |-> IF e \in mine /\ phase[e] # "closed"
                                  THEN Append(wire[e], Bye) ELSE wire[e]]
      /\ unsaved' = unsaved \ {m}
      /\ faults' = faults + 1
      /\ UNCHANGED <<disk, sent, made, unpairs>>

\* Agent::load: the stored workspace, or a new one of its own.
Restart(m, w) ==
  /\ ~up[m]
  /\ up' = [up EXCEPT ![m] = TRUE]
  /\ IF disk[m] # NoDoc
     THEN w = disk[m].id /\ doc' = [doc EXCEPT ![m] = disk[m]] /\ UNCHANGED <<disk, made>>
     ELSE /\ w \notin made
          /\ made' = made \cup {w}
          /\ doc' = [doc EXCEPT ![m] = NewDoc(m, w)]
          /\ disk' = [disk EXCEPT ![m] = NewDoc(m, w)]
  /\ UNCHANGED <<trust, candidates, adopting, events, mail, slots, connection,
                 faults, unpairs, unsaved>>

-----------------------------------------------------------------------------
Network(m, p) ==
  \/ OnSighting(m, p) \/ Expire(m, p) \/ Dial(m, p) \/ DialFails(m, p) \/ Break(m, p)

Next ==
  \/ \E mp \in Pairs :
       Pair(mp[1], mp[2]) \/ Unpair(mp[1], mp[2]) \/ Network(mp[1], mp[2]) \/ Session(mp)
  \/ \E m \in Machine :
       Actor(m) \/ Adoption(m) \/ ClearFails(m) \/ Crash(m) \/ \E w \in Workspace : Restart(m, w)

Spec == Init /\ [][Next]_vars

\* Machines announce themselves every few seconds, timers fire, and the actor, the
\* sessions and the agent keep working; a machine that crashed is started again.
\* Nothing is assumed of people or of faults.
Fairness ==
  /\ \A m \in Machine :
       /\ WF_vars(Actor(m)) /\ WF_vars(Adoption(m))
       /\ WF_vars(\E w \in Workspace : Restart(m, w))
  /\ \A mp \in Pairs :
       /\ WF_vars(OnSighting(mp[1], mp[2]))
       /\ WF_vars(Dial(mp[1], mp[2]) \/ DialFails(mp[1], mp[2])) /\ WF_vars(Session(mp))

FairSpec == Spec /\ Fairness

-----------------------------------------------------------------------------
(* Properties *)

Letter == [kind : {"Established", "Closed", "Rejected"}, peer : Machine]
          \cup [kind : {"Different"}, peer : Machine, workspace : Workspace, size : Nat]
Frame == [kind : {"Identify"}, workspace : Workspace \cup {None}, size : Nat]
         \cup [kind : {"DocFull"}, doc : Doc] \cup {Bye}

\* Every variable holds what its Rust type admits, no queue outgrows its bound, and
\* a machine that runs without a document has decided whom to join.
TypeOK ==
  /\ up \in [Machine -> BOOLEAN]
  /\ doc \in [Machine -> Doc \cup {NoDoc}] /\ disk \in [Machine -> Doc \cup {NoDoc}]
  /\ trust \in [Machine -> SUBSET Machine] /\ candidates \in [Machine -> SUBSET Machine]
  /\ adopting \in [Machine -> {Idle} \cup [step : {"forget", "clear"}, peer : Machine]]
  /\ events \in [Machine -> Seq(Letter)] /\ mail \in [Machine -> Seq(Letter)]
  /\ status \in [Pairs -> {"Offline", "Connecting", "Online"}]
  /\ seen \in [Pairs -> BOOLEAN]
  /\ phase \in [Pairs -> Phase] /\ sent \in [Pairs -> Workspace \cup {None}]
  /\ wire \in [Pairs -> Seq(Frame)]
  /\ made \subseteq Workspace /\ faults \in Nat /\ unpairs \in Nat /\ unsaved \subseteq Machine
  /\ \A m \in Machine :
       /\ Len(events[m]) <= EventCap /\ Len(mail[m]) <= MailCap
       /\ up[m] /\ doc[m] = NoDoc => trust[m] # {}

\* Unless the last save failed, the file is of the workspace the machine is in, or there
\* is none: whatever an adoption was interrupted by, whichever of its halves a removal
\* failed in and whatever a session saved between them, a machine that restarts is where
\* it was or in a workspace nobody knows, and not in another one of the others.  A save
\* that fails after an adoption whose removal failed, or has yet to come, leaves the old
\* workspace in the file: "the next change will try again" (lib.rs:134), or the removal.
DiskOfThisWorkspace ==
  \A m \in Machine :
    up[m] /\ doc[m] # NoDoc /\ disk[m] # NoDoc /\ m \notin unsaved => disk[m].id = doc[m].id

\* Nobody takes over a configuration that never admitted it, whichever of the two
\* gave way and whatever was lost or crashed in between: the document a machine
\* holds has its record, or the tombstone of one (authorize on both sides).  This is
\* about a pair: a third machine, adopted between the two snapshots that go out with
\* Identify and with the document, can leave a machine in one without its record.
MemberOfItsOwn ==
  \A m \in Machine : doc[m] # NoDoc => doc[m].body.reg[SlotField(m)].value # Absent

\* "two computers that pair must end up in one configuration by themselves"
\* (tests/joining.rs:143): while nobody is unpaired, if from some time on two
\* machines admit each other, from some time on they are in the same workspace.
PairedComeTogether ==
  \A mp \in Pairs :
    [](unpairs = 0) /\ <>[](Authorize(mp[1], mp[2]) /\ Authorize(mp[2], mp[1]))
      => <>[](doc[mp[1]].id # None /\ doc[mp[1]].id = doc[mp[2]].id)

\* "Trusted peers must reconnect automatically" (docs/requirements.md:135): if from
\* some time on two machines admit each other, they are connected again and again,
\* whoever was unpaired before.
TrustedPeersReconnect ==
  \A mp \in Pairs :
    <>[](Authorize(mp[1], mp[2]) /\ Authorize(mp[2], mp[1])) => []<>(status[mp] = "Online")

=============================================================================
