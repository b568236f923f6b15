----------------------------- MODULE Discovery ------------------------------
(***************************************************************************)
(* How machines hear of each other (crates/is-net/src/discovery.rs, and the*)
(* parts of service.rs and of the agent that start it, give it addresses   *)
(* typed in by hand and answer a probe).  Interfaces come and go; one task *)
(* announces from a socket per interface, one listens on a socket that has *)
(* joined the group on each, and each notices for itself that the          *)
(* interfaces have changed.                                                *)
(*                                                                         *)
(* A machine has at most one address on a network, so an interface is the  *)
(* network it is on, and <<m, i>> is m's address there.  Time is order     *)
(* only: the ticker and rescan's wake-up are the same step.  What a machine*)
(* does with a sighting (service.rs on_sighting) is Joining's Sight; here  *)
(* it ends in the reply to a probe.  A machine's own announcement, looped  *)
(* back, is dropped on sight and not modelled.  A datagram that gets lost  *)
(* is followed by another at the next interval, so that one arrives with   *)
(* the step that sends it, at the sockets that are open then.              *)
(***************************************************************************)
EXTENDS Naturals, FiniteSets

CONSTANTS
  Machine,
  Lan,           \* networks, as numbers in the order of the addresses on them
  Subnet(_),     \* the first three octets of the addresses on a network
  Carries(_),    \* what a network passes on beside unicast: multicast, broadcast
  Typed,         \* which machine's user may type in which address, <<m, a>>
  MaxChanges,    \* bound: interfaces that come or go
  MaxFaults      \* bound: sockets that cannot be bound, joins and reads that fail

ASSUME DiscoveryAssumption ==
  /\ Lan \subseteq Nat
  /\ \A i \in Lan : Carries(i) \subseteq {"multicast", "broadcast"}
  /\ Typed \subseteq Machine \X (Machine \X Lan)
  /\ MaxChanges \in Nat /\ MaxFaults \in Nat

VARIABLES
  ifs,       \* ifs[m]: what interfaces() would answer
  online,    \* online[m]: the agent's net slot holds a service
  announcer, \* announcer[m]: what the announce task does next
  known,     \* known[m]: its interfaces
  senders,   \* senders[m]: the ones it has a socket for
  listener,  \* listener[m]: what the listen task does next
  on,        \* on[m]: the interfaces the listening socket was bound for
  joined,    \* joined[m]: the ones it is a member of the group on
  listed,    \* listed[m]: State.manual_peers, the addresses a person sees
  targets,   \* targets[m]: the service's ManualPeers
  replies,   \* replies[m]: addresses a reply_to_probe task is to answer
  changes, faults

environment == <<ifs, changes>>
announcing == <<announcer, known, senders>>
listening == <<listener, on, joined>>
people == <<listed, targets>>
vars == <<environment, online, announcing, listening, people, replies, faults>>

Address == Machine \X Lan

Init ==
  /\ ifs \in [Machine -> SUBSET Lan]
  /\ online = [m \in Machine |-> FALSE]
  /\ announcer = [m \in Machine |-> "waits"]
  /\ known = [m \in Machine |-> {}]
  /\ senders = [m \in Machine |-> {}]
  /\ listener = [m \in Machine |-> "closed"]
  /\ on = [m \in Machine |-> {}]
  /\ joined = [m \in Machine |-> {}]
  /\ listed = [m \in Machine |-> {}]
  /\ targets = [m \in Machine |-> {}]
  /\ replies = [m \in Machine |-> {}]
  /\ changes = 0 /\ faults = 0

-----------------------------------------------------------------------------
(* The operating system: what these tasks find when they look *)

\* An interface appears, or disappears and takes the group membership with it or
\* not.  A socket bound to its address works again once the address is back.
Appears(m, i) ==
  /\ i \notin ifs[m] /\ changes < MaxChanges
  /\ ifs' = [ifs EXCEPT ![m] = @ \cup {i}]
  /\ changes' = changes + 1
  /\ UNCHANGED <<online, announcing, listening, people, replies, faults>>

Disappears(m, i) ==
  /\ i \in ifs[m] /\ changes < MaxChanges
  /\ ifs' = [ifs EXCEPT ![m] = @ \ {i}]
  /\ joined' \in {joined, [joined EXCEPT ![m] = @ \ {i}]}
  /\ changes' = changes + 1
  /\ UNCHANGED <<online, announcing, listener, on, people, replies, faults>>

\* The sockets, of those to be bound or joined, for which that succeeds; one is
\* refused at most, which is a fault.
Succeeding(wanted) ==
  {wanted} \cup (IF faults < MaxFaults THEN {wanted \ {i} : i \in wanted} ELSE {})

Counting(succeeded, wanted) == faults' = IF succeeded = wanted THEN faults ELSE faults + 1

\* The machines other than m that have a socket open on network i.
Within(m, i) == {n \in Machine \ {m} : listener[n] = "open" /\ i \in ifs[n] /\ i \in ifs[m]}

\* A datagram sent to the group and to the broadcast address from m's socket on i.
ToAll(m, i) ==
  {n \in Within(m, i) : \/ "multicast" \in Carries(i) /\ i \in joined[n]
                        \/ "broadcast" \in Carries(i)}

-----------------------------------------------------------------------------
(* The agent *)

\* Agent::go_online, Service::start: tried once per launch.  One that finds no port
\* to bind stays offline, as a machine does that has not got this far.
GoOnline(m) ==
  /\ ~online[m]
  /\ online' = [online EXCEPT ![m] = TRUE]
  /\ UNCHANGED <<environment, announcing, listening, people, replies, faults>>

\* add_manual_peer, of the agent and of the service: without a service the address
\* is listed and nothing else.
AddManualPeer(m, a) ==
  /\ listed' = [listed EXCEPT ![m] = @ \cup {a}]
  /\ targets' = IF online[m] THEN [targets EXCEPT ![m] = @ \cup {a}] ELSE targets
  /\ UNCHANGED <<environment, online, announcing, listening, replies, faults>>

\* forget_manual_peer, of the agent and of the service.
ForgetManualPeer(m, a) ==
  /\ a \in listed[m]
  /\ listed' = [listed EXCEPT ![m] = @ \ {a}]
  /\ targets' = IF online[m] THEN [targets EXCEPT ![m] = @ \ {a}] ELSE targets
  /\ UNCHANGED <<environment, online, announcing, listening, replies, faults>>

-----------------------------------------------------------------------------
(* discovery::announce *)

\* Wrong form of the rebuilding: sockets are added and never dropped.
RebuildKeepsAll(m) ==
  IF ifs[m] = known[m]
  THEN UNCHANGED <<known, senders, faults>>
  ELSE /\ known' = [known EXCEPT ![m] = ifs[m]]
       /\ senders' = [senders EXCEPT ![m] = @ \cup ifs[m]]
       /\ UNCHANGED faults

\* When the interfaces are others than they were: the sockets of those still there
\* are kept, the others dropped, and one is bound for each that has none.  Whether
\* or not that succeeds, the interfaces are known from then on.
Rebuild(m) ==
  IF ifs[m] = known[m]
  THEN UNCHANGED <<known, senders, faults>>
  ELSE LET kept == senders[m] \cap ifs[m]
       IN  \E bound \in Succeeding(ifs[m] \ kept) :
             /\ known' = [known EXCEPT ![m] = ifs[m]]
             /\ senders' = [senders EXCEPT ![m] = kept \cup bound]
             /\ Counting(bound, ifs[m] \ kept)

\* The ticker, or rescan: rebuild, then announce on every known interface that has
\* a socket.
Announce(m) ==
  /\ online[m] /\ announcer[m] = "waits"
  /\ Rebuild(m)
  /\ announcer' = [announcer EXCEPT ![m] = "probes"]
  /\ UNCHANGED <<environment, online, listening, people, replies>>

\* That step reaches n over network i.
Announced(m, n, i) == Announce(m) /\ i \in senders'[m] /\ n \in ToAll(m, i)

\* send_unicast: the sockets a datagram for address a is sent from.  The first
\* interface of a's subnet if it has a socket, and else every one.
From(sockets, interfaces, a) ==
  LET near == {i \in interfaces : Subnet(i) = Subnet(a[2])}
      first == CHOOSE i \in near : \A j \in near : i <= j
  IN  IF near # {} /\ first \in sockets THEN {first} ELSE sockets

\* A datagram sent from those sockets gets from m to address a.
Reaches(m, sockets, interfaces, a) ==
  a[2] \in From(sockets, interfaces, a) /\ a[1] \in Within(m, a[2])

\* The addresses typed in that a probe sent now would reach.
Probed(m) == {a \in targets[m] : Reaches(m, senders[m], known[m], a)}

\* Wrong form: a probe is a sighting like any other.
ProbeUnanswered(m) ==
  /\ announcer[m] = "probes"
  /\ announcer' = [announcer EXCEPT ![m] = "waits"]
  /\ UNCHANGED <<environment, online, known, senders, listening, people, replies, faults>>

\* Each address typed in is sent a copy that asks for a reply, and the actor of the
\* machine it reaches starts a task that answers (on_sighting).
Probe(m) ==
  /\ announcer[m] = "probes"
  /\ announcer' = [announcer EXCEPT ![m] = "waits"]
  /\ replies' = [n \in Machine |->
                   replies[n] \cup {<<m, a[2]>> : a \in {x \in Probed(m) : x[1] = n}}]
  /\ UNCHANGED <<environment, online, known, senders, listening, people, faults>>

-----------------------------------------------------------------------------
(* discovery::listen, and reply_to_probe *)

\* bind_listener: a socket on the port, a member of the group wherever the join
\* succeeds.
Bind(m) ==
  /\ online[m] /\ listener[m] = "closed"
  /\ on' = [on EXCEPT ![m] = ifs[m]]
  /\ \E member \in Succeeding(ifs[m]) :
       /\ joined' = [joined EXCEPT ![m] = member]
       /\ Counting(member, ifs[m])
  /\ listener' = [listener EXCEPT ![m] = "open"]
  /\ UNCHANGED <<environment, online, announcing, people, replies>>

\* The socket is dropped; it is bound anew after a pause.
Close(m) ==
  /\ listener[m] = "open"
  /\ listener' = [listener EXCEPT ![m] = "closed"]
  /\ joined' = [joined EXCEPT ![m] = {}]
  /\ UNCHANGED <<environment, online, announcing, on, people, replies>>

\* Binding the port fails (retried two seconds later), or reading from it.
Fail(m) ==
  /\ faults < MaxFaults
  /\ faults' = faults + 1
  /\ \/ Close(m)
     \/ /\ online[m] /\ listener[m] = "closed"
        /\ UNCHANGED <<environment, online, announcing, listening, people, replies>>

\* Wrong form: the interfaces are looked at once, when the socket is bound.
NeverRejoins(m) == FALSE /\ UNCHANGED vars

\* Every five seconds: are the interfaces the ones the socket was bound for?
Recheck(m) == ifs[m] # on[m] /\ Close(m) /\ UNCHANGED faults

\* reply_to_probe: once, from sockets bound for the purpose.
Reply(m, a) ==
  /\ a \in replies[m]
  /\ \E bound \in Succeeding(ifs[m]) : Counting(bound, ifs[m])
  /\ replies' = [replies EXCEPT ![m] = @ \ {a}]
  /\ UNCHANGED <<environment, online, announcing, listening, people>>

\* That step gets to the machine that asked, with every socket bound.
Replied(m, a) == Reply(m, a) /\ faults' = faults /\ Reaches(m, ifs[m], ifs[m], a)

-----------------------------------------------------------------------------
Next ==
  \E m \in Machine :
    \/ GoOnline(m) \/ Announce(m) \/ Probe(m) \/ Bind(m) \/ Fail(m) \/ Recheck(m)
    \/ \E i \in Lan : Appears(m, i) \/ Disappears(m, i)
    \/ \E a \in {x[2] : x \in {t \in Typed : t[1] = m}} :
         AddManualPeer(m, a) \/ ForgetManualPeer(m, a)
    \/ \E a \in replies[m] : Reply(m, a)

Spec == Init /\ [][Next]_vars

\* The tasks go on, and a launch goes online.
Fairness ==
  \A m \in Machine :
    /\ WF_vars(GoOnline(m)) /\ WF_vars(Announce(m)) /\ WF_vars(Probe(m))
    /\ WF_vars(Bind(m)) /\ WF_vars(Recheck(m))
    /\ \A a \in Address : WF_vars(Reply(m, a))

FairSpec == Spec /\ Fairness

-----------------------------------------------------------------------------
(* Properties *)

TypeOK ==
  /\ ifs \in [Machine -> SUBSET Lan] /\ online \in [Machine -> BOOLEAN]
  /\ announcer \in [Machine -> {"waits", "probes"}]
  /\ known \in [Machine -> SUBSET Lan] /\ senders \in [Machine -> SUBSET Lan]
  /\ \A m \in Machine : senders[m] \subseteq known[m]
  /\ listener \in [Machine -> {"closed", "open"}]
  /\ on \in [Machine -> SUBSET Lan] /\ joined \in [Machine -> SUBSET Lan]
  /\ \A m \in Machine : joined[m] \subseteq on[m]
  /\ \A m \in Machine : joined[m] # {} => listener[m] = "open"
  /\ listed \in [Machine -> SUBSET Address] /\ targets \in [Machine -> SUBSET Address]
  /\ replies \in [Machine -> SUBSET Address]
  /\ changes \in 0 .. MaxChanges /\ faults \in 0 .. MaxFaults

\* n gets a datagram of m's over network i.
Hears(n, m, i) ==
  \/ Announced(m, n, i)
  \/ Probe(m) /\ <<n, i>> \in Probed(m)
  \/ Replied(m, <<n, i>>)

\* The announce task once failed to bind a socket on i, and has not tried since: it
\* tries again only when the interfaces change.
Mute(m, i) == i \in known[m] \ senders[m]

\* The listening socket is not a member of the group on i, and is not bound anew:
\* the join failed, or i went and came back between two looks at the interfaces.
Deaf(n, i) == i \in on[n] \ joined[n]

\* Two machines that stay on one network, from whatever moment on and whatever their
\* interfaces did before, hear each other's announcements again and again, unless
\* one is mute or the other deaf there: both tasks notice every change by themselves
\* (discovery.rs announce and listen; docs/architecture.md "a machine that appears
\* at any moment is found within one interval").
FoundAgainAndAgain ==
  \A m, n \in Machine, i \in Lan :
    m # n /\ Carries(i) # {} =>
      (<>[](i \in ifs[m] /\ i \in ifs[n]) =>
         \/ []<><<Hears(n, m, i)>>_vars
         \/ <>[]Mute(m, i)
         \/ <>[]Deaf(n, i) /\ "broadcast" \notin Carries(i))

\* An address typed in on one machine introduces both, on a network that passes
\* nothing but unicast and however often the join failed there; unless the machine
\* that probes is mute there or the address shares its subnet with an earlier
\* interface of either machine, and provided the address reached the service.
OneAddressIntroducesBoth ==
  \A m, n \in Machine, i \in Lan :
    m # n =>
      (<>[](i \in ifs[m] /\ i \in ifs[n] /\ <<n, i>> \in targets[m]) =>
         \/ []<><<Hears(n, m, i)>>_vars /\ []<><<Hears(m, n, i)>>_vars
         \/ <>[]Mute(m, i)
         \/ []<>(\E j \in ifs[m] \cup ifs[n] : j < i /\ Subnet(j) = Subnet(i)))

=============================================================================
