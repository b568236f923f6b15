--------------------------- MODULE SharingProofs ----------------------------
(***************************************************************************)
(* Proofs about Sharing, for every capacity and any number of crossings,   *)
(* switches and lost connections: for every number of machines what each   *)
(* variable holds and when input is swallowed, and for two that the pointer*)
(* is never lost between them.                                             *)
(***************************************************************************)
EXTENDS Sharing, TLAPS

\* The shapes of the three functions the property is about.
Shape ==
  /\ sharing \in [Machine -> BOOLEAN]
  /\ owner = [m \in Machine |-> owner[m]]
  /\ swallow \in [Machine -> BOOLEAN]

\* Inductive: the shapes, and the property itself.
Inv == Shape /\ SwallowsExactlyWhenAway

\* The steps that leave the routing loop alone.
LEMMA QuietKeeps == Inv /\ UNCHANGED <<sharing, owner, swallow>> => Inv'
BY DEF Inv, Shape, SwallowsExactlyWhenAway

\* A handoff: the pointer goes to another machine, so the input is swallowed.
LEMMA CrossKeeps ==
  ASSUME Inv, NEW m \in Machine, NEW p \in Machine, m # p, Cross(m, p)
  PROVE  Inv'
BY SMTT(30) DEF Inv, Shape, SwallowsExactlyWhenAway, Cross

\* Becoming the owner, with the loop running.
LEMMA OwnKeeps ==
  ASSUME Inv, NEW m \in Machine, Own(m), UNCHANGED sharing
  PROVE  Inv'
BY SMTT(30) DEF Inv, Shape, SwallowsExactlyWhenAway, Own

\* The two switches: a loop that starts has the pointer, a loop that ends swallows
\* nothing.
LEMMA SwitchKeeps ==
  ASSUME Inv, NEW m \in Machine, Switch(m)
  PROVE  Inv'
<1>1. CASE StartSharing(m)
  BY <1>1, SMTT(30) DEF Inv, Shape, SwallowsExactlyWhenAway, StartSharing
<1>2. CASE StopSharing(m)
  BY <1>2, SMTT(30) DEF Inv, Shape, SwallowsExactlyWhenAway, StopSharing
<1> QED BY <1>1, <1>2 DEF Switch

\* The flush tick: an announcement decides owner and hook together.
LEMMA FlushKeeps ==
  ASSUME Inv, NEW m \in Machine, Flush(m)
  PROVE  Inv'
<1>1. CASE Announced(m)
  <2>1. /\ owner' = [owner EXCEPT ![m] = announced[m]]
        /\ swallow' = [swallow EXCEPT ![m] = announced[m] # m]
        /\ UNCHANGED sharing /\ sharing[m]
    BY <1>1 DEF Flush
  <2>2. Shape'
    BY <2>1 DEF Inv, Shape
  <2>3. swallow'[m] <=> sharing'[m] /\ owner'[m] # m
    BY <2>1 DEF Inv, Shape
  <2>4. ASSUME NEW p \in Machine, p # m PROVE swallow'[p] <=> sharing'[p] /\ owner'[p] # p
    BY <2>1, <2>4 DEF Inv, Shape, SwallowsExactlyWhenAway
  <2> QED BY <2>2, <2>3, <2>4 DEF Inv, SwallowsExactlyWhenAway
<1>2. CASE ~Announced(m)
  BY <1>2, SMTT(30) DEF Inv, Shape, SwallowsExactlyWhenAway, Flush
<1> QED BY <1>1, <1>2

\* Every step of the system keeps the invariant.
LEMMA NextKeeps == Inv /\ [Next]_vars => Inv'
<1> SUFFICES ASSUME Inv, [Next]_vars PROVE Inv'
  OBVIOUS
<1>1. ASSUME NEW m \in Machine, Switch(m) PROVE Inv'
  BY <1>1, SwitchKeeps
<1>2. ASSUME NEW m \in Machine, LocalInput(m) \/ Actor(m) PROVE Inv'
  BY <1>2, QuietKeeps
     DEF LocalInput, Actor, OnSendInput, OnAnnounceOwner, OnEstablished, OnClosed, router
<1>3. ASSUME NEW m \in Machine, Routing(m) PROVE Inv'
  <2>1. CASE RemoteEnter(m)
    BY <2>1, OwnKeeps DEF RemoteEnter
  <2>2. CASE RemoteInput(m)
    BY <2>2, QuietKeeps DEF RemoteInput, router
  <2>3. CASE Flush(m)
    BY <2>3, FlushKeeps
  <2>4. CASE TakeOwnership(m)
    BY <2>4, OwnKeeps DEF TakeOwnership
  <2> QED BY <1>3, <2>1, <2>2, <2>3, <2>4 DEF Routing
<1>4. ASSUME NEW mp \in Pair, LocalCrosses(mp[1], mp[2]) \/ RemoteCrosses(mp[1], mp[2])
      PROVE  Inv'
  BY <1>4, CrossKeeps DEF Pair, LocalCrosses, RemoteCrosses
<1>5. ASSUME NEW mp \in Pair,
             \/ ReadInput(mp) \/ ReadOwner(mp) \/ OnNetEvent(mp)
             \/ Break(mp[1], mp[2]) \/ ReportClosed(mp) \/ Reconnect(mp[1], mp[2])
      PROVE  Inv'
  BY <1>5, QuietKeeps
     DEF ReadInput, ReadOwner, OnNetEvent, Break, ReportClosed, Reconnect, router
<1>6. CASE UNCHANGED vars
  BY <1>6, QuietKeeps DEF vars, router
<1> QED BY <1>1, <1>2, <1>3, <1>4, <1>5, <1>6 DEF Next

\* The keyboard of a machine is swallowed exactly while its loop runs and takes
\* another machine to be the owner, on every path of sharing.rs into and out of
\* ownership: handoff, announcement, heartbeat and switch.
THEOREM SwallowingIsExact == Spec => []SwallowsExactlyWhenAway
<1>1. Init => Inv
  <2> SUFFICES ASSUME Init PROVE Inv
    OBVIOUS
  <2>1. /\ sharing = [m \in Machine |-> m \in Sharers]
        /\ owner = [m \in Machine |-> IF m \in Sharers THEN m ELSE None]
        /\ swallow = [m \in Machine |-> FALSE]
    BY DEF Init
  <2>2. sharing \in [Machine -> BOOLEAN] /\ swallow \in [Machine -> BOOLEAN]
    BY <2>1
  <2>3. owner = [m \in Machine |-> owner[m]]
    BY <2>1
  <2>4. ASSUME NEW m \in Machine PROVE swallow[m] <=> sharing[m] /\ owner[m] # m
    BY <2>1
  <2> QED BY <2>2, <2>3, <2>4 DEF Inv, Shape, SwallowsExactlyWhenAway
<1>2. Inv => SwallowsExactlyWhenAway
  BY DEF Inv
<1> QED BY <1>1, <1>2, NextKeeps, PTL DEF Spec

-----------------------------------------------------------------------------
(* What every variable holds *)

\* Inductive beside the type: a loop that runs takes some machine to be the owner, so
\* that what it forwards is always for a machine.
RouterType ==
  /\ sharing \in [Machine -> BOOLEAN]
  /\ owner \in [Machine -> Machine \cup {None}]
  /\ swallow \in [Machine -> BOOLEAN] /\ pending \in [Machine -> BOOLEAN]
  /\ \A m \in Machine : sharing[m] => owner[m] \in Machine

AgentType ==
  /\ announced \in [Machine -> Machine \cup {None}]
  /\ sink \in [Machine -> Seq(Batch)] /\ online \in [Machine -> SUBSET Machine]
  /\ \A m \in Machine : Len(sink[m]) <= SinkCap /\ m \notin online[m]

MailType ==
  /\ mail \in [Machine -> Seq(Internal)]
  /\ \A m \in Machine : Len(mail[m]) <= MailCap

NetType ==
  /\ outbound \in [Pair -> BOOLEAN] /\ session \in [Pair -> Session]
  /\ wire \in [Pair -> Seq(Message)] /\ news \in [Pair -> Seq(BOOLEAN)]
  /\ \A mp \in Pair : Len(wire[mp]) <= QueueCap

CountType == crossings \in Nat /\ batches \in Nat /\ faults \in Nat /\ lost \in BOOLEAN

Typed == RouterType /\ AgentType /\ MailType /\ NetType /\ CountType

\* A queue that loses its head, and one that something is appended to.
LEMMA QueueFacts ==
  ASSUME NEW T, NEW s \in Seq(T)
  PROVE  /\ \A x \in T : Append(s, x) \in Seq(T) /\ Len(Append(s, x)) = Len(s) + 1
         /\ s # <<>> => /\ Head(s) \in T /\ Tail(s) \in Seq(T)
                        /\ Len(Tail(s)) = Len(s) - 1
         /\ Len(s) \in Nat
OBVIOUS

\* What goes through mailboxes and sessions.
LEMMA Kinds ==
  /\ \A p \in Machine, b \in Batch : SendInput(p, b) \in Internal
  /\ \A p \in Machine : /\ AnnounceOwner(p) \in Internal /\ Established(p) \in Internal
                        /\ Closed(p) \in Internal /\ CursorOwner(p) \in Message
  /\ \A b \in Batch : Input(b) \in Message
  /\ \A l \in Internal : /\ l.kind = "SendInput" => l.peer \in Machine /\ l.batch \in Batch
                         /\ l.kind = "AnnounceOwner" => l.machine \in Machine
  /\ \A f \in Message : /\ f.kind = "Input" => f.batch \in Batch
                        /\ f.kind = "CursorOwner" => f.machine \in Machine
  /\ "CursorEnter" \in Batch /\ "Events" \in Batch
BY DEF Internal, Message, Batch, SendInput, AnnounceOwner, Established, Closed, Input, CursorOwner

\* One more letter in a mailbox that has room.
LEMMA PostKeeps ==
  ASSUME MailType, NEW m \in Machine, NEW l \in Internal, Len(mail[m]) < MailCap,
         mail' = [mail EXCEPT ![m] = Append(@, l)]
  PROVE  MailType'
<1>1. mail[m] \in Seq(Internal) /\ MailCap \in Nat
  BY SharingAssumption DEF MailType
<1>2. Append(mail[m], l) \in Seq(Internal) /\ Len(Append(mail[m], l)) <= MailCap
  BY <1>1, QueueFacts
<1> QED
  BY <1>2 DEF MailType

\* The next letter of a mailbox.
LEMMA HandlesKeeps ==
  ASSUME MailType, NEW m \in Machine, NEW k, Handles(m, k)
  PROVE  MailType' /\ Head(mail[m]) \in Internal /\ Head(mail[m]).kind = k
<1>1. mail[m] \in Seq(Internal) /\ mail[m] # <<>> /\ Len(mail[m]) <= MailCap /\ MailCap \in Nat
  BY SharingAssumption DEF MailType, Handles
<1>2. /\ Tail(mail[m]) \in Seq(Internal) /\ Head(mail[m]) \in Internal
      /\ Len(Tail(mail[m])) <= MailCap
  BY <1>1, QueueFacts
<1> QED
  BY <1>2 DEF MailType, Handles

\* A queue of a session keeps its bound whatever it is offered.
LEMMA OfferedKeeps ==
  ASSUME NetType, NEW mp \in Pair, NEW f \in Message
  PROVE  Offered(mp, f) \in Seq(Message) /\ Len(Offered(mp, f)) <= QueueCap
<1>1. wire[mp] \in Seq(Message) /\ Len(wire[mp]) <= QueueCap /\ QueueCap \in Nat
  BY SharingAssumption DEF NetType
<1> QED
  BY <1>1, QueueFacts DEF Offered, Accepts

\* The entry point and the announcement fit into the mailbox together.
LEMMA CrossTyped ==
  ASSUME Typed, NEW m \in Machine, NEW p \in Machine, Cross(m, p)
  PROVE  RouterType' /\ MailType' /\ CountType' /\ UNCHANGED <<announced, online, net>>
<1> DEFINE two == <<SendInput(p, "CursorEnter"), AnnounceOwner(p)>>
<1>1. two \in Seq(Internal) /\ Len(two) = 2
  BY Kinds
<1>2. mail[m] \in Seq(Internal) /\ Len(mail[m]) + 2 <= MailCap
  BY DEF Cross, Typed, MailType
<1>3. mail' = [mail EXCEPT ![m] = @ \o two]
  BY DEF Cross
<1> HIDE DEF two
<1>4. mail[m] \o two \in Seq(Internal) /\ Len(mail[m] \o two) <= MailCap
  <2>1. ASSUME NEW T, NEW s \in Seq(T), NEW t \in Seq(T)
        PROVE  s \o t \in Seq(T) /\ Len(s \o t) = Len(s) + Len(t)
    OBVIOUS
  <2>2. mail[m] \o two \in Seq(Internal) /\ Len(mail[m] \o two) = Len(mail[m]) + 2
    BY <1>1, <1>2, <2>1
  <2> QED
    BY <1>2, <2>2
<1>5. MailType'
  BY <1>3, <1>4 DEF Typed, MailType
<1>6. RouterType'
  BY DEF Cross, Typed, RouterType
<1>7. CountType'
  BY DEF Cross, Typed, CountType, history
<1> QED
  BY <1>5, <1>6, <1>7 DEF Cross

\* The next batch of remote input.
LEMMA RoutesTyped ==
  ASSUME AgentType, NEW m \in Machine, NEW b, Routes(m, b), UNCHANGED <<announced, online>>
  PROVE  AgentType'
<1>1. sink[m] \in Seq(Batch) /\ sink[m] # <<>> /\ Len(sink[m]) <= SinkCap /\ SinkCap \in Nat
  BY SharingAssumption DEF AgentType, Routes
<1>2. Tail(sink[m]) \in Seq(Batch) /\ Len(Tail(sink[m])) <= SinkCap
  BY <1>1, QueueFacts
<1> QED
  BY <1>2 DEF AgentType, Routes

\* Becoming the owner.
LEMMA OwnTyped ==
  ASSUME RouterType, NEW m \in Machine, Own(m), UNCHANGED sharing
  PROVE  RouterType'
BY DEF RouterType, Own

LEMMA SwitchTyped ==
  ASSUME Typed, NEW m \in Machine, Switch(m)
  PROVE  Typed'
<1>1. CASE StartSharing(m)
  <2>1. RouterType'
    BY <1>1 DEF StartSharing, Typed, RouterType
  <2> QED
    BY <1>1, <2>1 DEF StartSharing, Typed, AgentType, MailType, NetType, CountType, agent, net,
       bounds, history
<1>2. CASE StopSharing(m)
  <2>1. RouterType'
    BY <1>2 DEF StopSharing, Typed, RouterType
  <2>2. <<>> \in Seq(Batch) /\ Len(<<>>) = 0 /\ 0 <= SinkCap
    BY SharingAssumption
  <2>3. AgentType'
    BY <1>2, <2>2 DEF StopSharing, Typed, AgentType
  <2> QED
    BY <1>2, <2>1, <2>3 DEF StopSharing, Typed, MailType, NetType, CountType, net, bounds, history
<1> QED
  BY <1>1, <1>2 DEF Switch

LEMMA FlushTyped ==
  ASSUME Typed, NEW m \in Machine, Flush(m)
  PROVE  Typed'
<1> DEFINE x == IF Announced(m) THEN announced[m] ELSE owner[m]
           sends == pending[m] /\ ~Announced(m)
<1>1. sharing[m] /\ x \in Machine
  BY DEF Flush, Announced, Typed, RouterType, AgentType
<1>2. RouterType'
  <2>1. owner' = [owner EXCEPT ![m] = x] /\ UNCHANGED sharing
    BY DEF Flush
  <2>2. swallow' \in [Machine -> BOOLEAN]
    BY DEF Flush, Typed, RouterType
  <2>3. pending' \in [Machine -> BOOLEAN]
    BY DEF Flush, Typed, RouterType
  <2> HIDE DEF x
  <2> QED
    BY <1>1, <2>1, <2>2, <2>3 DEF Typed, RouterType
<1>3. AgentType'
  BY DEF Flush, Typed, AgentType
<1>4. MailType'
  <2>1. CASE sends
    <3>1. Len(mail[m]) < MailCap /\ mail' = [mail EXCEPT ![m] = Append(@, SendInput(x, "Events"))]
      BY <2>1 DEF Flush
    <3>2. SendInput(x, "Events") \in Internal
      BY <1>1, Kinds
    <3> QED
      BY <3>1, <3>2, PostKeeps DEF Typed
  <2>2. CASE ~sends
    <3>1. mail' = [mail EXCEPT ![m] = mail[m]]
      BY <2>2 DEF Flush
    <3> QED
      BY <3>1 DEF Typed, MailType
  <2> QED
    BY <2>1, <2>2
<1> QED
  BY <1>2, <1>3, <1>4 DEF Flush, Typed, NetType, CountType, net, bounds, history

LEMMA RoutingTyped ==
  ASSUME Typed, NEW m \in Machine, Routing(m)
  PROVE  Typed'
<1>1. CASE RemoteEnter(m)
  BY <1>1, OwnTyped, RoutesTyped
     DEF RemoteEnter, Typed, MailType, NetType, CountType, net, bounds, history
<1>2. CASE RemoteInput(m)
  BY <1>2, RoutesTyped
     DEF RemoteInput, Typed, RouterType, MailType, NetType, CountType, router, net, bounds, history
<1>3. CASE Flush(m)
  BY <1>3, FlushTyped
<1>4. CASE TakeOwnership(m)
  <2>1. MailType'
    BY <1>4, Kinds, PostKeeps DEF TakeOwnership, Typed
  <2> QED
    BY <1>4, <2>1, OwnTyped
       DEF TakeOwnership, Typed, AgentType, NetType, CountType, agent, net, bounds, history
<1> QED
  BY <1>1, <1>2, <1>3, <1>4 DEF Routing

LEMMA ActorTyped ==
  ASSUME Typed, NEW m \in Machine, Actor(m)
  PROVE  Typed'
<1> DEFINE l == Head(mail[m])
           mp == <<m, l.peer>>
<1>1. CASE OnSendInput(m)
  <2>1. MailType' /\ l \in Internal /\ l.kind = "SendInput"
    BY <1>1, HandlesKeeps DEF OnSendInput, Typed
  <2>2. Input(l.batch) \in Message
    BY <2>1, Kinds
  <2>3. /\ wire' = [wire EXCEPT ![mp] = Offered(mp, Input(l.batch))]
        /\ outbound' = [outbound EXCEPT ![mp] = @ /\ Accepts(mp)]
        /\ UNCHANGED <<session, news>>
    BY <1>1 DEF OnSendInput
  <2> HIDE DEF l, mp
  <2>4. mp \in Pair => /\ Offered(mp, Input(l.batch)) \in Seq(Message)
                       /\ Len(Offered(mp, Input(l.batch))) <= QueueCap
    BY <2>2, OfferedKeeps DEF Typed
  <2>5. wire' \in [Pair -> Seq(Message)] /\ \A e \in Pair : Len(wire'[e]) <= QueueCap
    BY <2>3, <2>4 DEF Typed, NetType
  <2>6. outbound' \in [Pair -> BOOLEAN]
    <3>1. PICK b \in BOOLEAN : b <=> outbound[mp] /\ Accepts(mp)
      OBVIOUS
    <3>2. \A e \in Pair : (IF e = mp THEN outbound[mp] /\ Accepts(mp) ELSE outbound[e]) \in BOOLEAN
      BY DEF Typed, NetType
    <3>3. outbound' = [e \in Pair |-> IF e = mp THEN outbound[mp] /\ Accepts(mp) ELSE outbound[e]]
      BY <2>3 DEF Typed, NetType
    <3> QED
      BY <3>2, <3>3
  <2>7. NetType'
    BY <2>3, <2>5, <2>6 DEF Typed, NetType
  <2> QED
    BY <1>1, <2>1, <2>7 DEF OnSendInput, Typed, RouterType, AgentType, CountType, router, agent,
       bounds, history
<1>2. CASE OnAnnounceOwner(m)
  <2>1. MailType' /\ l \in Internal /\ l.kind = "AnnounceOwner"
    BY <1>2, HandlesKeeps DEF OnAnnounceOwner, Typed
  <2>2. CursorOwner(l.machine) \in Message
    BY <2>1, Kinds
  <2>3. wire' = [e \in Pair |-> IF e[1] = m THEN Offered(e, CursorOwner(l.machine)) ELSE wire[e]]
    BY <1>2 DEF OnAnnounceOwner
  <2>4. \A e \in Pair : /\ Offered(e, CursorOwner(l.machine)) \in Seq(Message)
                        /\ Len(Offered(e, CursorOwner(l.machine))) <= QueueCap
    BY <2>2, OfferedKeeps DEF Typed
  <2> HIDE DEF l
  <2>5. wire' \in [Pair -> Seq(Message)] /\ \A e \in Pair : Len(wire'[e]) <= QueueCap
    BY <2>3, <2>4 DEF Typed, NetType
  <2>6. NetType'
    BY <1>2, <2>5 DEF OnAnnounceOwner, Typed, NetType
  <2> QED
    BY <1>2, <2>1, <2>6
       DEF OnAnnounceOwner, Typed, RouterType, AgentType, CountType, router, agent, bounds, history
<1>3. ASSUME NEW b \in BOOLEAN, outbound' = [outbound EXCEPT ![mp] = b],
             news' = [news EXCEPT ![mp] = Append(@, b)], UNCHANGED <<session, wire>>
      PROVE  NetType'
  <2> HIDE DEF l, mp
  <2>1. \A e \in Pair : Append(news[e], b) \in Seq(BOOLEAN)
    BY QueueFacts DEF Typed, NetType
  <2>2. news' \in [Pair -> Seq(BOOLEAN)]
    BY <1>3, <2>1 DEF Typed, NetType
  <2>3. outbound' \in [Pair -> BOOLEAN]
    BY <1>3 DEF Typed, NetType
  <2> QED
    BY <1>3, <2>2, <2>3 DEF Typed, NetType
<1>4. CASE OnEstablished(m)
  BY <1>3, <1>4, HandlesKeeps
     DEF OnEstablished, Typed, RouterType, AgentType, CountType, router, agent, bounds, history
<1>5. CASE OnClosed(m)
  BY <1>3, <1>5, HandlesKeeps
     DEF OnClosed, Typed, RouterType, AgentType, CountType, router, agent, bounds, history
<1> QED
  BY <1>1, <1>2, <1>4, <1>5 DEF Actor

\* Reading the next message of a session.
LEMMA ReadsTyped ==
  ASSUME NetType, NEW mp \in Pair, NEW k, Reads(mp, k), UNCHANGED <<outbound, session, news>>
  PROVE  NetType' /\ Head(wire[mp]) \in Message /\ Head(wire[mp]).kind = k
<1>1. wire[mp] \in Seq(Message) /\ wire[mp] # <<>> /\ Len(wire[mp]) <= QueueCap /\ QueueCap \in Nat
  BY SharingAssumption DEF NetType, Reads
<1>2. /\ Tail(wire[mp]) \in Seq(Message) /\ Head(wire[mp]) \in Message
      /\ Len(Tail(wire[mp])) <= QueueCap
  BY <1>1, QueueFacts
<1> QED
  BY <1>2 DEF NetType, Reads

LEMMA SessionTyped ==
  ASSUME Typed, NEW mp \in Pair, ReadInput(mp) \/ ReadOwner(mp) \/ OnNetEvent(mp)
  PROVE  Typed'
<1> DEFINE p == mp[2]
<1>1. mp[1] \in Machine /\ p \in Machine /\ mp[1] # p
  BY DEF Pair
<1>2. CASE ReadInput(mp)
  <2>1. NetType' /\ Head(wire[mp]).batch \in Batch
    BY <1>2, ReadsTyped, Kinds DEF ReadInput, Typed
  <2>2. sink[p] \in Seq(Batch) /\ Len(sink[p]) <= SinkCap /\ SinkCap \in Nat
    BY <1>1, SharingAssumption DEF Typed, AgentType
  <2> DEFINE s == IF sharing[p] /\ Len(sink[p]) < SinkCap
                  THEN Append(sink[p], Head(wire[mp]).batch) ELSE sink[p]
  <2>3. s \in Seq(Batch) /\ Len(s) <= SinkCap
    BY <2>1, <2>2, QueueFacts
  <2>4. sink' = [sink EXCEPT ![p] = s] /\ UNCHANGED <<announced, online>>
    BY <1>2 DEF ReadInput
  <2> HIDE DEF s
  <2>5. AgentType'
    BY <2>3, <2>4 DEF Typed, AgentType
  <2> QED
    BY <1>2, <2>1, <2>5
       DEF ReadInput, Typed, RouterType, MailType, CountType, router, bounds, history
<1>3. CASE ReadOwner(mp)
  <2>1. NetType' /\ Head(wire[mp]).machine \in Machine
    BY <1>3, ReadsTyped, Kinds DEF ReadOwner, Typed
  <2>2. AgentType'
    BY <1>3, <2>1 DEF ReadOwner, Typed, AgentType
  <2> QED
    BY <1>3, <2>1, <2>2
       DEF ReadOwner, Typed, RouterType, MailType, CountType, router, bounds, history
<1>4. CASE OnNetEvent(mp)
  <2> DEFINE n == IF Head(news[mp]) THEN online[mp[1]] \cup {p} ELSE online[mp[1]] \ {p}
  <2>1. /\ news[mp] # <<>> /\ news' = [news EXCEPT ![mp] = Tail(@)]
        /\ online' = [online EXCEPT ![mp[1]] = n]
        /\ UNCHANGED <<router, announced, sink, mail, outbound, session, wire, bounds>>
    BY <1>4 DEF OnNetEvent
  <2>2. n \subseteq Machine /\ mp[1] \notin n
    <3>1. n \subseteq online[mp[1]] \cup {p}
      OBVIOUS
    <3>2. online[mp[1]] \subseteq Machine /\ mp[1] \notin online[mp[1]]
      BY <1>1 DEF Typed, AgentType
    <3> QED
      BY <1>1, <3>1, <3>2
  <2> HIDE DEF n
  <2>3. AgentType'
    BY <2>1, <2>2 DEF Typed, AgentType
  <2>4. news[mp] \in Seq(BOOLEAN)
    BY DEF Typed, NetType
  <2>5. Tail(news[mp]) \in Seq(BOOLEAN)
    BY <2>1, <2>4, QueueFacts
  <2>6. news' \in [Pair -> Seq(BOOLEAN)]
    BY <2>1, <2>5 DEF Typed, NetType
  <2>7. NetType'
    BY <2>1, <2>6 DEF Typed, NetType
  <2> QED
    BY <2>1, <2>3, <2>7 DEF Typed, RouterType, MailType, CountType, router, bounds, history
<1> QED
  BY <1>2, <1>3, <1>4

LEMMA ConnectionTyped ==
  ASSUME Typed, NEW mp \in Pair,
         Break(mp[1], mp[2]) \/ ReportClosed(mp) \/ Reconnect(mp[1], mp[2])
  PROVE  Typed'
<1> DEFINE m == mp[1]
           p == mp[2]
<1>1. m \in Machine /\ p \in Machine /\ m # p
  BY DEF Pair
<1>2. CASE Break(m, p)
  <2>1. <<>> \in Seq(Message) /\ Len(<<>>) = 0 /\ 0 <= QueueCap
    BY SharingAssumption
  <2>2. wire' \in [Pair -> Seq(Message)] /\ \A e \in Pair : Len(wire'[e]) <= QueueCap
    BY <1>2, <2>1 DEF Break, Typed, NetType
  <2>3. session' \in [Pair -> Session]
    BY <1>2 DEF Break, Typed, NetType, Session
  <2>4. NetType' /\ CountType'
    BY <1>2, <2>2, <2>3 DEF Break, Typed, NetType, CountType
  <2> QED
    BY <1>2, <2>4 DEF Break, Typed, RouterType, AgentType, MailType, router, agent
<1>3. CASE ReportClosed(mp)
  <2>1. MailType'
    BY <1>1, <1>3, Kinds, PostKeeps DEF ReportClosed, Typed
  <2>2. session' \in [Pair -> Session]
    BY <1>3 DEF ReportClosed, Typed, NetType, Session
  <2> QED
    BY <1>3, <2>1, <2>2
       DEF ReportClosed, Typed, RouterType, AgentType, NetType, CountType, router, agent,
           bounds, history
<1>4. CASE Reconnect(m, p)
  <2>1. /\ mail[m] \in Seq(Internal) /\ mail[p] \in Seq(Internal) /\ MailCap \in Nat
        /\ Len(mail[m]) < MailCap /\ Len(mail[p]) < MailCap
    BY <1>1, <1>4, SharingAssumption DEF Reconnect, Typed, MailType
  <2> DEFINE a == Append(mail[m], Established(p))
             b == Append(mail[p], Established(m))
  <2>2. a \in Seq(Internal) /\ b \in Seq(Internal) /\ Len(a) <= MailCap /\ Len(b) <= MailCap
    BY <1>1, <2>1, Kinds, QueueFacts
  <2>3. mail' = [mail EXCEPT ![m] = a, ![p] = b]
    BY <1>1, <1>4 DEF Reconnect, Typed, MailType
  <2> HIDE DEF a, b
  <2>4. MailType'
    BY <1>1, <2>2, <2>3 DEF Typed, MailType
  <2>5. session' \in [Pair -> Session]
    BY <1>4 DEF Reconnect, Typed, NetType, Session
  <2> QED
    BY <1>4, <2>4, <2>5
       DEF Reconnect, Typed, RouterType, AgentType, NetType, CountType, router, agent,
           bounds, history
<1> QED
  BY <1>2, <1>3, <1>4

LEMMA TypedNext == Typed /\ [Next]_vars => Typed'
<1> SUFFICES ASSUME Typed, [Next]_vars PROVE Typed'
  OBVIOUS
<1>1. ASSUME NEW m \in Machine, Switch(m) \/ Routing(m) \/ Actor(m) PROVE Typed'
  BY <1>1, SwitchTyped, RoutingTyped, ActorTyped
<1>2. ASSUME NEW m \in Machine, LocalInput(m) PROVE Typed'
  <2>1. RouterType'
    BY <1>2 DEF LocalInput, Typed, RouterType
  <2>2. CountType'
    BY <1>2 DEF LocalInput, Typed, CountType, history
  <2> QED
    BY <1>2, <2>1, <2>2 DEF LocalInput, Typed, AgentType, MailType, NetType, agent, net
<1>3. ASSUME NEW mp \in Pair, LocalCrosses(mp[1], mp[2]) \/ RemoteCrosses(mp[1], mp[2])
      PROVE  Typed'
  <2>1. mp[1] \in Machine /\ mp[2] \in Machine /\ Cross(mp[1], mp[2])
    BY <1>3 DEF Pair, LocalCrosses, RemoteCrosses
  <2>2. RouterType' /\ MailType' /\ CountType' /\ UNCHANGED <<announced, online, net>>
    BY <2>1, CrossTyped
  <2>3. AgentType'
    BY <1>3, <2>1, <2>2, RoutesTyped DEF LocalCrosses, RemoteCrosses, Typed, AgentType
  <2> QED
    BY <2>2, <2>3 DEF Typed, NetType, net
<1>4. ASSUME NEW mp \in Pair, ReadInput(mp) \/ ReadOwner(mp) \/ OnNetEvent(mp) PROVE Typed'
  BY <1>4, SessionTyped
<1>5. ASSUME NEW mp \in Pair,
             Break(mp[1], mp[2]) \/ ReportClosed(mp) \/ Reconnect(mp[1], mp[2])
      PROVE  Typed'
  BY <1>5, ConnectionTyped
<1>6. CASE UNCHANGED vars
  BY <1>6 DEF vars, router, agent, net, bounds, history, Typed, RouterType, AgentType,
     MailType, NetType, CountType
<1> QED
  BY <1>1, <1>2, <1>3, <1>4, <1>5, <1>6 DEF Next

\* At the start no loop has anything to do, and nothing is queued.
LEMMA TypedInit == Init => Typed
<1> SUFFICES ASSUME Init PROVE Typed
  OBVIOUS
<1>1. RouterType
  <2>1. sharing = [m \in Machine |-> m \in Sharers]
    BY DEF Init
  <2>2. owner = [m \in Machine |-> IF m \in Sharers THEN m ELSE None]
    BY DEF Init
  <2>3. \A m \in Machine : sharing[m] => owner[m] \in Machine
    BY <2>1, <2>2
  <2>4. owner \in [Machine -> Machine \cup {None}]
    BY <2>2
  <2>5. sharing \in [Machine -> BOOLEAN]
    BY <2>1
  <2> QED
    BY <2>3, <2>4, <2>5 DEF Init, RouterType
<1>2. /\ <<>> \in Seq(Batch) /\ <<>> \in Seq(Internal) /\ <<>> \in Seq(Message)
      /\ <<>> \in Seq(BOOLEAN) /\ Len(<<>>) = 0
      /\ 0 <= SinkCap /\ 0 <= MailCap /\ 0 <= QueueCap
  BY SharingAssumption
<1>3. AgentType
  BY <1>2 DEF Init, AgentType
<1>4. MailType
  BY <1>2 DEF Init, MailType
<1>5. NetType
  BY <1>2 DEF Init, NetType, Session
<1>6. CountType
  BY DEF Init, CountType
<1> QED
  BY <1>1, <1>3, <1>4, <1>5, <1>6 DEF Typed

\* Mailbox, session queues and the queue of remote input of sharing.rs, service.rs and
\* lib.rs stay within their bounds, for any bounds and any number of machines, and every
\* variable holds what its Rust type admits: what a loop forwards is always for a machine.
THEOREM SharingTypeCorrect == Spec => []TypeOK
<1>1. Init => Typed
  BY TypedInit
<1>2. Typed => TypeOK
  BY DEF Typed, RouterType, AgentType, MailType, NetType, CountType, TypeOK
<1> QED
  BY <1>1, <1>2, TypedNext, PTL DEF Spec
-----------------------------------------------------------------------------
(* The pointer of two machines *)

\* There is a machine, and there are no three.
AtMostTwo == Machine # {} /\ \A a, b, c \in Machine : a = b \/ b = c \/ a = c

\* What is queued.
Items(s) == {s[i] : i \in DOMAIN s}

\* Somebody has told m, or is about to, that the pointer went to m.
Told(m) ==
  \/ announced[m] = m
  \/ \E p \in Machine \ {m} : \/ CursorOwner(m) \in Items(wire[<<p, m>>])
                              \/ AnnounceOwner(m) \in Items(mail[p])

\* Of two machines each announces the other: a machine is only ever told of itself.
Named ==
  /\ \A m \in Machine : /\ announced[m] \in {None, m}
                        /\ \A l \in Items(mail[m]) : l.kind = "AnnounceOwner" => l.machine # m
  /\ \A mp \in Pair : \A f \in Items(wire[mp]) : f.kind = "CursorOwner" => f.machine = mp[2]

\* No connection was lost: no session has ended, and nobody heard that one did.
Connected ==
  /\ \A m \in Machine : /\ online[m] = Machine \ {m}
                        /\ \A l \in Items(mail[m]) : l.kind \in {"SendInput", "AnnounceOwner"}
  /\ \A mp \in Pair : session[mp] = "up" /\ news[mp] = <<>>

\* A machine that has the pointer, or takes it as soon as it shares.
Has(m) == ~sharing[m] \/ owner[m] = m

\* Then some machine has the pointer or was told that it went there, unless a session
\* has lost its sender and is about to end.
Kept == (\A mp \in Pair : outbound[mp]) => \E m \in Machine : Has(m) \/ Told(m)

\* What two machines keep as long as no connection and no announcement is lost.
KeptInv == ~lost => Named /\ Connected /\ Kept

\* What is queued after one more, and beside the head.
LEMMA ItemsFacts ==
  ASSUME NEW T, NEW s \in Seq(T)
  PROVE  /\ \A x \in T : Items(Append(s, x)) = Items(s) \cup {x}
         /\ s # <<>> => Items(s) = Items(Tail(s)) \cup {Head(s)}
         /\ Items(s) \subseteq T
<1>1. ASSUME NEW x \in T PROVE Items(Append(s, x)) = Items(s) \cup {x}
  <2>1. /\ Len(s) \in Nat /\ DOMAIN s = 1..Len(s)
        /\ DOMAIN Append(s, x) = 1..(Len(s) + 1)
        /\ \A i \in 1..Len(s) : Append(s, x)[i] = s[i]
        /\ Append(s, x)[Len(s) + 1] = x
    OBVIOUS
  <2>2. ASSUME NEW y \in Items(Append(s, x)) PROVE y \in Items(s) \cup {x}
    BY <2>1, <2>2 DEF Items
  <2>3. ASSUME NEW y \in Items(s) \cup {x} PROVE y \in Items(Append(s, x))
    BY <2>1, <2>3 DEF Items
  <2> QED
    BY <2>2, <2>3
<1>2. ASSUME s # <<>> PROVE Items(s) = Items(Tail(s)) \cup {Head(s)}
  <2>1. /\ Len(s) \in Nat \ {0} /\ DOMAIN s = 1..Len(s)
        /\ DOMAIN Tail(s) = 1..(Len(s) - 1)
        /\ \A i \in 1..(Len(s) - 1) : Tail(s)[i] = s[i + 1]
        /\ Head(s) = s[1]
    BY <1>2
  <2>2. ASSUME NEW y \in Items(s), y # Head(s) PROVE y \in Items(Tail(s))
    <3>1. PICK i \in 1..Len(s) : y = s[i]
      BY <2>1, <2>2 DEF Items
    <3>2. i - 1 \in 1..(Len(s) - 1) /\ (i - 1) + 1 = i
      BY <2>1, <2>2, <3>1
    <3> QED
      BY <2>1, <3>1, <3>2 DEF Items
  <2>3. ASSUME NEW y \in Items(Tail(s)) PROVE y \in Items(s)
    <3>1. PICK i \in 1..(Len(s) - 1) : y = s[i + 1]
      BY <2>1, <2>3 DEF Items
    <3>2. i + 1 \in 1..Len(s)
      BY <2>1
    <3> QED
      BY <2>1, <3>1, <3>2 DEF Items
  <2>4. Head(s) \in Items(s)
    BY <2>1 DEF Items
  <2> QED
    BY <2>2, <2>3, <2>4
<1>3. Items(s) \subseteq T
  BY DEF Items
<1> QED
  BY <1>1, <1>2, <1>3

\* At the start a machine has the pointer, or none shares.
LEMMA KeptStart == ASSUME AtMostTwo, Init PROVE KeptInv
<1>1. Items(<<>>) = {}
  BY DEF Items
<1>2. Named /\ Connected
  BY <1>1 DEF Init, Named, Connected
<1>3. \A m \in Machine : Has(m)
  BY DEF Init, Has
<1> QED
  BY <1>2, <1>3 DEF KeptInv, Kept, AtMostTwo

\* A step of the loop that nobody else notices.
LEMMA KeptQuiet ==
  ASSUME KeptInv, UNCHANGED <<announced, online, mail, net, history>>,
         \A m \in Machine : Has(m) => Has(m)'
  PROVE  KeptInv'
<1> USE DEF net, history
<1>1. \A m \in Machine : Told(m) => Told(m)'
  BY DEF Told
<1>2. Named /\ Connected => Named' /\ Connected'
  BY DEF Named, Connected
<1>3. Kept => Kept'
  BY <1>1 DEF Kept
<1> QED
  BY <1>2, <1>3 DEF KeptInv

\* Nobody is told less: what is announced, under way and queued stays.
LEMMA ToldStays ==
  ASSUME NEW m \in Machine, announced[m] = m => announced'[m] = m,
         \A p \in Machine \ {m} :
           /\ CursorOwner(m) \in Items(wire[<<p, m>>]) => CursorOwner(m) \in Items(wire'[<<p, m>>])
           /\ AnnounceOwner(m) \in Items(mail[p]) => AnnounceOwner(m) \in Items(mail'[p])
  PROVE  Told(m) => Told(m)'
BY DEF Told

\* The switches, local input, and remote input that moves the pointer here or nowhere.
LEMMA LoopKeeps ==
  ASSUME Typed, KeptInv, NEW m \in Machine,
         \/ StartSharing(m) \/ StopSharing(m) \/ LocalInput(m)
         \/ RemoteEnter(m) \/ RemoteInput(m)
  PROVE  KeptInv'
<1>1. UNCHANGED <<announced, online, mail, net, history>>
  BY DEF StartSharing, StopSharing, LocalInput, RemoteEnter, RemoteInput, agent, bounds
<1>2. \A h \in Machine : Has(h) => Has(h)'
  <2>1. CASE UNCHANGED <<sharing, owner>>
    BY <2>1 DEF Has
  <2>2. CASE owner' = [owner EXCEPT ![m] = m] /\ \A h \in Machine \ {m} : sharing'[h] = sharing[h]
    BY <2>2 DEF Has, Typed, RouterType
  <2>3. CASE /\ sharing' = [sharing EXCEPT ![m] = FALSE]
             /\ \A h \in Machine \ {m} : owner'[h] = owner[h]
    BY <2>3 DEF Has, Typed, RouterType
  <2>4. StartSharing(m) \/ RemoteEnter(m) =>
          owner' = [owner EXCEPT ![m] = m] /\ \A h \in Machine \ {m} : sharing'[h] = sharing[h]
    BY DEF StartSharing, RemoteEnter, Own, Typed, RouterType
  <2>5. StopSharing(m) => /\ sharing' = [sharing EXCEPT ![m] = FALSE]
                          /\ \A h \in Machine \ {m} : owner'[h] = owner[h]
    BY DEF StopSharing, Typed, RouterType
  <2>6. LocalInput(m) \/ RemoteInput(m) => UNCHANGED <<sharing, owner>>
    BY DEF LocalInput, RemoteInput, router
  <2> QED
    BY <2>1, <2>2, <2>3, <2>4, <2>5, <2>6
<1> QED
  BY <1>1, <1>2, KeptQuiet

\* The flush tick: an announcement, which names this machine, makes it the owner.
LEMMA FlushKeepsIt ==
  ASSUME Typed, KeptInv, NEW m \in Machine, Flush(m)
  PROVE  KeptInv'
<1> SUFFICES ASSUME ~lost' PROVE KeptInv'
  BY DEF KeptInv
<1>0. ~lost /\ Named /\ Connected /\ Kept
  BY DEF Flush, bounds, history, KeptInv
<1>1. /\ announced' = [announced EXCEPT ![m] = None]
      /\ UNCHANGED <<sharing, online, outbound, session, wire, news>>
  BY DEF Flush, net
<1>2. owner' = [owner EXCEPT ![m] = IF Announced(m) THEN m ELSE owner[m]]
  BY <1>0 DEF Flush, Named, Announced
<1>3. announced[m] = m => owner'[m] = m
  BY <1>2, SharingAssumption DEF Announced, Typed, RouterType
<1>4. \/ mail' = mail
      \/ \E l \in Internal : l.kind = "SendInput" /\ mail' = [mail EXCEPT ![m] = Append(@, l)]
  <2>1. CASE pending[m] /\ ~Announced(m)
    <3>1. sharing[m] /\ mail' = [mail EXCEPT ![m] = Append(@, SendInput(owner[m], "Events"))]
      BY <2>1 DEF Flush
    <3>2. owner[m] \in Machine
      BY <3>1 DEF Typed, RouterType
    <3>3. SendInput(owner[m], "Events") \in Internal
      BY <3>2, Kinds
    <3> QED
      BY <3>1, <3>3 DEF SendInput
  <2>2. CASE ~(pending[m] /\ ~Announced(m))
    BY <2>2 DEF Flush, Typed, MailType
  <2> QED
    BY <2>1, <2>2
<1>5. \A h \in Machine : /\ Items(mail[h]) \subseteq Items(mail'[h])
                         /\ \A l \in Items(mail'[h]) : l \in Items(mail[h]) \/ l.kind = "SendInput"
  <2>1. CASE mail' = mail
    BY <2>1
  <2>2. ASSUME NEW l \in Internal, l.kind = "SendInput", mail' = [mail EXCEPT ![m] = Append(@, l)],
               NEW h \in Machine
        PROVE  /\ Items(mail[h]) \subseteq Items(mail'[h])
               /\ \A k \in Items(mail'[h]) : k \in Items(mail[h]) \/ k.kind = "SendInput"
    <3>1. mail[m] \in Seq(Internal)
      BY DEF Typed, MailType
    <3>2. Items(Append(mail[m], l)) = Items(mail[m]) \cup {l}
      BY <3>1, ItemsFacts
    <3>3. mail'[h] = IF h = m THEN Append(mail[m], l) ELSE mail[h]
      BY <2>2 DEF Typed, MailType
    <3> QED
      BY <2>2, <3>2, <3>3
  <2> QED
    BY <1>4, <2>1, <2>2
<1>6. Named' /\ Connected'
  BY <1>0, <1>1, <1>5 DEF Named, Connected, Typed, AgentType
<1>7. \A h \in Machine : Has(h) => Has(h)'
  BY <1>1, <1>2 DEF Has, Typed, RouterType
<1>8. \A h \in Machine : Told(h) => Told(h)' \/ Has(h)'
  <2>1. ASSUME NEW h \in Machine, h # m \/ announced[m] # m PROVE Told(h) => Told(h)'
    <3>1. announced[h] = h => announced'[h] = h
      BY <1>1, <2>1 DEF Typed, AgentType
    <3> QED
      BY <1>1, <1>5, <3>1, ToldStays
  <2>2. announced[m] = m => Has(m)'
    BY <1>3 DEF Has
  <2> QED
    BY <2>1, <2>2
<1>9. Kept => Kept'
  BY <1>1, <1>7, <1>8 DEF Kept
<1> QED
  BY <1>0, <1>6, <1>9 DEF KeptInv

\* A handoff is announced to the other machine.
LEMMA CrossKeepsIt ==
  ASSUME Typed, KeptInv, NEW mp \in Pair, LocalCrosses(mp[1], mp[2]) \/ RemoteCrosses(mp[1], mp[2])
  PROVE  KeptInv'
<1> SUFFICES ASSUME ~lost' PROVE KeptInv'
  BY DEF KeptInv
<1> DEFINE m == mp[1]
           p == mp[2]
           a == SendInput(p, "CursorEnter")
           b == AnnounceOwner(p)
<1>0. m \in Machine /\ p \in Machine /\ m # p /\ Cross(m, p)
  BY DEF Pair, LocalCrosses, RemoteCrosses
<1>1. /\ ~lost /\ Named /\ Connected /\ Kept
      /\ UNCHANGED <<announced, online, outbound, session, wire, news>>
      /\ mail' = [mail EXCEPT ![m] = @ \o <<a, b>>]
  BY <1>0 DEF Cross, history, net, KeptInv
<1>2. mail[m] \in Seq(Internal) /\ a \in Internal /\ b \in Internal
  BY <1>0, Kinds DEF Typed, MailType
<1>3. b.machine = p /\ b.kind = "AnnounceOwner" /\ a.kind = "SendInput"
  BY DEF AnnounceOwner, SendInput
<1> HIDE DEF a, b, m, p
<1>4. mail[m] \o <<a, b>> = Append(Append(mail[m], a), b)
  <2>1. ASSUME NEW T, NEW s \in Seq(T), NEW x \in T, NEW y \in T
        PROVE  s \o <<x, y>> = Append(Append(s, x), y)
    OBVIOUS
  <2> QED
    BY <1>2, <2>1
<1>5. Items(mail[m] \o <<a, b>>) = Items(mail[m]) \cup {a, b}
  <2>1. Append(mail[m], a) \in Seq(Internal)
    BY <1>2
  <2>2. Items(Append(mail[m], a)) = Items(mail[m]) \cup {a}
    BY <1>2, ItemsFacts
  <2>3. Items(Append(Append(mail[m], a), b)) = Items(Append(mail[m], a)) \cup {b}
    <3>1. ASSUME NEW s \in Seq(Internal) PROVE Items(Append(s, b)) = Items(s) \cup {b}
      BY <1>2, ItemsFacts
    <3> QED
      BY <2>1, <3>1
  <2> QED
    BY <1>4, <2>2, <2>3
<1>6. \A h \in Machine : Items(mail'[h]) = IF h = m THEN Items(mail[m]) \cup {a, b} ELSE Items(mail[h])
  BY <1>0, <1>1, <1>5 DEF Typed, MailType
<1>7. Named' /\ Connected'
  <2>1. ASSUME NEW h \in Machine, NEW l \in Items(mail'[h])
        PROVE  /\ l.kind = "AnnounceOwner" => l.machine # h
               /\ l.kind \in {"SendInput", "AnnounceOwner"}
    <3>1. CASE l \in Items(mail[h])
      BY <1>1, <3>1 DEF Named, Connected
    <3>2. CASE h = m /\ (l = a \/ l = b)
      BY <1>0, <1>3, <3>2
    <3> QED
      BY <1>6, <2>1, <3>1, <3>2
  <2> QED
    BY <1>1, <2>1 DEF Named, Connected
<1>8. Told(p)'
  BY <1>0, <1>6 DEF Told, b
<1> QED
  BY <1>0, <1>7, <1>8 DEF KeptInv, Kept

\* The other machine is online, so the heartbeat leaves the pointer where it is.
LEMMA HeartbeatKeepsIt ==
  ASSUME Typed, KeptInv, NEW m \in Machine, TakeOwnership(m)
  PROVE  KeptInv'
<1>1. lost' = lost /\ owner[m] \in Machine \ {m} /\ owner[m] \notin online[m]
  BY DEF TakeOwnership, bounds, history, Typed, RouterType
<1>2. ~lost => online[m] = Machine \ {m}
  BY DEF KeptInv, Connected
<1> QED
  BY <1>1, <1>2 DEF KeptInv

\* The next letter of a mailbox is no longer in it, the others are.
LEMMA HandlesItems ==
  ASSUME Typed, NEW m \in Machine, NEW k, Handles(m, k)
  PROVE  /\ Head(mail[m]) \in Items(mail[m]) /\ Head(mail[m]).kind = k
         /\ Head(mail[m]) \in Internal
         /\ \A h \in Machine : Items(mail'[h]) \subseteq Items(mail[h])
         /\ \A h \in Machine, l \in Internal : l \in Items(mail[h])
              => l \in Items(mail'[h]) \/ (h = m /\ l = Head(mail[m]))
<1>1. mail[m] \in Seq(Internal) /\ mail[m] # <<>> /\ Head(mail[m]).kind = k
  BY DEF Handles, Typed, MailType
<1>2. Items(mail[m]) = Items(Tail(mail[m])) \cup {Head(mail[m])} /\ Items(mail[m]) \subseteq Internal
  BY <1>1, ItemsFacts
<1>3. \A h \in Machine : mail'[h] = IF h = m THEN Tail(mail[m]) ELSE mail[h]
  BY DEF Handles, Typed, MailType
<1> QED
  BY <1>1, <1>2, <1>3

\* What a session is offered joins its queue or does not; with the session up it does,
\* unless the queue is full.
LEMMA OfferedItems ==
  ASSUME Typed, NEW mp \in Pair, NEW f \in Message
  PROVE  /\ Items(wire[mp]) \subseteq Items(Offered(mp, f))
         /\ Items(Offered(mp, f)) \subseteq Items(wire[mp]) \cup {f}
         /\ outbound[mp] /\ Accepts(mp) /\ session[mp] = "up" => f \in Items(Offered(mp, f))
<1>1. wire[mp] \in Seq(Message)
  BY DEF Typed, NetType
<1>2. Items(Append(wire[mp], f)) = Items(wire[mp]) \cup {f}
  BY <1>1, ItemsFacts
<1> QED
  BY <1>2 DEF Offered

\* Forwarded input makes nobody the owner of what was announced.
LEMMA SendKeepsIt ==
  ASSUME Typed, KeptInv, NEW m \in Machine, OnSendInput(m)
  PROVE  KeptInv'
<1> SUFFICES ASSUME ~lost' PROVE KeptInv'
  BY DEF KeptInv
<1> DEFINE l == Head(mail[m])
           mp == <<m, l.peer>>
           f == Input(l.batch)
<1>0. /\ ~lost /\ Named /\ Connected /\ Kept
      /\ UNCHANGED <<sharing, owner, announced, online, session, news>>
      /\ Handles(m, "SendInput")
  BY DEF OnSendInput, router, agent, bounds, history, KeptInv
<1>1. /\ l \in Internal /\ l.kind = "SendInput"
      /\ \A h \in Machine : Items(mail'[h]) \subseteq Items(mail[h])
      /\ \A h \in Machine, k \in Internal : k \in Items(mail[h])
           => k \in Items(mail'[h]) \/ (h = m /\ k = l)
  BY <1>0, HandlesItems
<1>2. f \in Message /\ f.kind = "Input"
  BY <1>1, Kinds DEF Input
<1>3. /\ wire' = [wire EXCEPT ![mp] = Offered(mp, f)]
      /\ outbound' = [outbound EXCEPT ![mp] = @ /\ Accepts(mp)]
  BY DEF OnSendInput
<1> HIDE DEF mp, f
<1>4. \A e \in Pair : wire'[e] = IF e = mp THEN Offered(mp, f) ELSE wire[e]
  BY <1>3 DEF Typed, NetType
<1>5. \A e \in Pair : /\ Items(wire[e]) \subseteq Items(wire'[e])
                      /\ Items(wire'[e]) \subseteq Items(wire[e]) \cup {f}
  BY <1>2, <1>4, OfferedItems
<1>6. \A e \in Pair : outbound'[e] => outbound[e]
  BY <1>3 DEF Typed, NetType
<1>7. Named' /\ Connected'
  BY <1>0, <1>1, <1>2, <1>5 DEF Named, Connected
<1>8. \A h \in Machine : Told(h) => Told(h)'
  <2>1. ASSUME NEW h \in Machine, NEW p \in Machine \ {h}
        PROVE  /\ CursorOwner(h) \in Items(wire[<<p, h>>]) => CursorOwner(h) \in Items(wire'[<<p, h>>])
               /\ AnnounceOwner(h) \in Items(mail[p]) => AnnounceOwner(h) \in Items(mail'[p])
    <3>1. <<p, h>> \in Pair /\ AnnounceOwner(h) \in Internal /\ AnnounceOwner(h).kind # "SendInput"
      BY Kinds DEF Pair, AnnounceOwner
    <3> QED
      BY <1>1, <1>5, <3>1
  <2> QED
    BY <1>0, <2>1, ToldStays
<1>9. \A h \in Machine : Has(h) => Has(h)'
  BY <1>0 DEF Has
<1>10. Kept => Kept'
  BY <1>6, <1>8, <1>9 DEF Kept
<1> QED
  BY <1>0, <1>7, <1>10 DEF KeptInv

\* An announcement goes out to the machine it names, or finds a full queue.
LEMMA AnnounceKeepsIt ==
  ASSUME AtMostTwo, Typed, KeptInv, NEW m \in Machine, OnAnnounceOwner(m)
  PROVE  KeptInv'
<1> SUFFICES ASSUME ~lost' PROVE KeptInv'
  BY DEF KeptInv
<1> DEFINE l == Head(mail[m])
<1>0. /\ ~lost /\ Named /\ Connected /\ Kept
      /\ UNCHANGED <<sharing, owner, announced, online, outbound, session, news>>
      /\ Handles(m, "AnnounceOwner")
  BY DEF OnAnnounceOwner, router, agent, KeptInv
<1>1. /\ l \in Items(mail[m]) /\ l \in Internal /\ l.kind = "AnnounceOwner"
      /\ \A h \in Machine : Items(mail'[h]) \subseteq Items(mail[h])
      /\ \A h \in Machine, k \in Internal : k \in Items(mail[h])
           => k \in Items(mail'[h]) \/ (h = m /\ k = l)
  BY <1>0, HandlesItems
<1>2. PICK x \in Machine : x = l.machine /\ x # m
  BY <1>0, <1>1, Kinds DEF Named
<1> DEFINE f == CursorOwner(x)
<1>3. wire' = [e \in Pair |-> IF e[1] = m THEN Offered(e, f) ELSE wire[e]]
  BY <1>2 DEF OnAnnounceOwner
<1>4. f \in Message /\ f.kind = "CursorOwner" /\ f.machine = x
  BY Kinds DEF CursorOwner
<1> HIDE DEF f, l
<1>5. \A e \in Pair : /\ Items(wire[e]) \subseteq Items(wire'[e])
                      /\ Items(wire'[e]) \subseteq Items(wire[e]) \cup {f}
                      /\ e[1] # m => wire'[e] = wire[e]
  BY <1>3, <1>4, OfferedItems
<1>6. \A e \in Pair : e[1] = m => e[2] = x
  BY <1>2 DEF Pair, AtMostTwo
<1>7. Named' /\ Connected'
  <2>1. \A e \in Pair : \A g \in Items(wire'[e]) : g.kind = "CursorOwner" => g.machine = e[2]
    BY <1>0, <1>4, <1>5, <1>6 DEF Named
  <2> QED
    BY <1>0, <1>1, <2>1 DEF Named, Connected
<1>8. ASSUME \A e \in Pair : outbound[e] PROVE Told(x)'
  <2> DEFINE e == <<m, x>>
  <2>1. e \in Pair /\ e[1] = m /\ e[2] = x
    BY <1>2 DEF Pair
  <2> HIDE DEF e
  <2>2. outbound[e] /\ Accepts(e) /\ session[e] = "up"
    BY <1>0, <1>8, <2>1 DEF OnAnnounceOwner, Connected
  <2>3. f \in Items(wire'[e])
    BY <1>3, <1>4, <2>1, <2>2, OfferedItems
  <2> QED
    BY <1>2, <2>3 DEF Told, e, f
<1>9. Kept'
  BY <1>0, <1>2, <1>8 DEF Kept
<1> QED
  BY <1>0, <1>7, <1>9 DEF KeptInv

\* What is read from a connection is no longer under way, the rest is.
LEMMA ReadsItems ==
  ASSUME Typed, NEW mp \in Pair, NEW k, Reads(mp, k)
  PROVE  /\ Head(wire[mp]) \in Items(wire[mp]) /\ Head(wire[mp]).kind = k
         /\ Head(wire[mp]) \in Message
         /\ \A e \in Pair : Items(wire'[e]) \subseteq Items(wire[e])
         /\ \A e \in Pair, f \in Message : f \in Items(wire[e])
              => f \in Items(wire'[e]) \/ (e = mp /\ f = Head(wire[mp]))
<1>1. wire[mp] \in Seq(Message) /\ wire[mp] # <<>> /\ Head(wire[mp]).kind = k
  BY DEF Reads, Typed, NetType
<1>2. Items(wire[mp]) = Items(Tail(wire[mp])) \cup {Head(wire[mp])} /\ Items(wire[mp]) \subseteq Message
  BY <1>1, ItemsFacts
<1>3. \A e \in Pair : wire'[e] = IF e = mp THEN Tail(wire[mp]) ELSE wire[e]
  BY DEF Reads, Typed, NetType
<1> QED
  BY <1>1, <1>2, <1>3

\* Input that arrives, wanted or not, leaves the announcements on their way; one that
\* arrives waits for the flush tick.
LEMMA ReadKeepsIt ==
  ASSUME Typed, KeptInv, NEW mp \in Pair, ReadInput(mp) \/ ReadOwner(mp)
  PROVE  KeptInv'
<1> SUFFICES ASSUME ~lost' PROVE KeptInv'
  BY DEF KeptInv
<1> DEFINE g == Head(wire[mp])
           p == mp[2]
<1>0. /\ ~lost /\ Named /\ Connected /\ Kept
      /\ UNCHANGED <<sharing, owner, online, mail, outbound, session, news>>
  BY DEF ReadInput, ReadOwner, router, bounds, history, KeptInv
<1>1. /\ g \in Items(wire[mp]) /\ g \in Message /\ g.kind \in {"Input", "CursorOwner"}
      /\ \A e \in Pair : Items(wire'[e]) \subseteq Items(wire[e])
      /\ \A e \in Pair, f \in Message : f \in Items(wire[e])
           => f \in Items(wire'[e]) \/ (e = mp /\ f = g)
  BY ReadsItems DEF ReadInput, ReadOwner
<1>2. p \in Machine /\ g.kind = "CursorOwner" => g.machine = p
  BY <1>0, <1>1 DEF Named
<1>3. p \in Machine
  BY DEF Pair
<1>4. \/ ReadInput(mp) /\ announced' = announced /\ g.kind = "Input"
      \/ ReadOwner(mp) /\ announced' = [announced EXCEPT ![p] = p]
  BY <1>2, <1>3 DEF ReadInput, ReadOwner, Reads
<1>5. \A h \in Machine : announced'[h] \in {None, h} /\ (announced[h] = h => announced'[h] = h)
  BY <1>0, <1>3, <1>4 DEF Named, Typed, AgentType
<1> HIDE DEF g
<1>6. Named' /\ Connected'
  BY <1>0, <1>1, <1>5 DEF Named, Connected
<1>7. ASSUME NEW h \in Machine, Told(h) PROVE Told(h)' \/ Told(p)'
  <2>1. CASE ReadInput(mp) /\ g.kind = "Input"
    <3>1. ASSUME NEW q \in Machine \ {h}, CursorOwner(h) \in Items(wire[<<q, h>>])
          PROVE  CursorOwner(h) \in Items(wire'[<<q, h>>])
      <4>1. <<q, h>> \in Pair /\ CursorOwner(h) \in Message /\ CursorOwner(h).kind # "Input"
        BY Kinds DEF Pair, CursorOwner
      <4> QED
        BY <1>1, <2>1, <3>1, <4>1
    <3> QED
      BY <1>0, <1>5, <1>7, <3>1, ToldStays
  <2>2. CASE announced' = [announced EXCEPT ![p] = p]
    BY <1>3, <2>2 DEF Told, Typed, AgentType
  <2> QED
    BY <1>4, <2>1, <2>2
<1>8. \A h \in Machine : Has(h) => Has(h)'
  BY <1>0 DEF Has
<1>9. Kept => Kept'
  BY <1>0, <1>3, <1>7, <1>8 DEF Kept
<1> QED
  BY <1>0, <1>6, <1>9 DEF KeptInv

\* Nothing tells of a session's end while none has ended.
LEMMA NobodyEnds ==
  ASSUME Typed, KeptInv,
         \/ \E m \in Machine : OnEstablished(m) \/ OnClosed(m)
         \/ \E mp \in Pair : OnNetEvent(mp) \/ ReportClosed(mp) \/ Reconnect(mp[1], mp[2])
  PROVE  KeptInv'
<1>1. lost' = lost
  BY DEF OnEstablished, OnClosed, OnNetEvent, ReportClosed, Reconnect, bounds, history
<1>2. ASSUME ~lost PROVE FALSE
  <2>1. Connected
    BY <1>2 DEF KeptInv
  <2>2. \A m \in Machine : ~Handles(m, "Established") /\ ~Handles(m, "Closed")
    <3>1. ASSUME NEW m \in Machine, NEW k, Handles(m, k) PROVE k \in {"SendInput", "AnnounceOwner"}
      BY <2>1, <3>1, HandlesItems DEF Connected
    <3> QED
      BY <3>1
  <2>3. \A mp \in Pair : ~OnNetEvent(mp) /\ ~ReportClosed(mp)
    BY <2>1 DEF Connected, OnNetEvent, ReportClosed
  <2>4. ASSUME NEW mp \in Pair, Reconnect(mp[1], mp[2]) PROVE FALSE
    <3>1. <<mp[1], mp[2]>> \in Pair /\ session[<<mp[1], mp[2]>>] = "closed"
      BY <2>4 DEF Reconnect, Pair
    <3> QED
      BY <2>1, <3>1 DEF Connected
  <2> QED
    BY <2>2, <2>3, <2>4 DEF OnEstablished, OnClosed
<1> QED
  BY <1>1, <1>2 DEF KeptInv

\* Every step keeps it.
LEMMA KeptNext == AtMostTwo /\ Typed /\ KeptInv /\ [Next]_vars => KeptInv'
<1> SUFFICES ASSUME AtMostTwo, Typed, KeptInv, [Next]_vars PROVE KeptInv'
  OBVIOUS
<1>1. ASSUME NEW m \in Machine, Switch(m) \/ LocalInput(m) \/ Routing(m) \/ Actor(m) PROVE KeptInv'
  <2>1. CASE Switch(m) \/ LocalInput(m)
    BY <2>1, LoopKeeps DEF Switch
  <2>2. CASE Routing(m)
    BY <2>2, LoopKeeps, FlushKeepsIt, HeartbeatKeepsIt DEF Routing
  <2>3. CASE Actor(m)
    BY <2>3, SendKeepsIt, AnnounceKeepsIt, NobodyEnds DEF Actor
  <2> QED
    BY <1>1, <2>1, <2>2, <2>3
<1>2. ASSUME NEW mp \in Pair, Break(mp[1], mp[2]) PROVE KeptInv'
  BY <1>2 DEF Break, KeptInv
<1>3. CASE UNCHANGED vars
  BY <1>3, KeptQuiet DEF vars, router, agent, bounds, Has
<1> QED
  BY <1>1, <1>2, <1>3, CrossKeepsIt, ReadKeepsIt, NobodyEnds DEF Next

\* Two machines that hand the pointer to each other, whatever their switches and queues
\* do: as long as no connection and no announcement was lost, when everything has
\* settled one of them has it.  The announcement alone is enough, so a handoff dropped
\* by Core::on_input because the routing loop's queue is full is made up for.
THEOREM TwoKeepThePointer ==
  ASSUME AtMostTwo PROVE Spec => []PointerNotLost
<1>1. Init => Typed /\ KeptInv
  BY TypedInit, KeptStart
<1>2. Typed /\ KeptInv /\ [Next]_vars => (Typed /\ KeptInv)'
  BY TypedNext, KeptNext
<1>3. Typed /\ KeptInv => PointerNotLost
  <2> SUFFICES ASSUME Typed, KeptInv, ~lost, Settled
               PROVE  \E m \in Machine : owner[m] = m
    BY DEF PointerNotLost
  <2>1. PICK m \in Machine : Has(m) \/ Told(m)
    BY DEF KeptInv, Kept, Settled
  <2>2. Items(<<>>) = {}
    BY DEF Items
  <2>3. \A p \in Machine \ {m} : mail[p] = <<>> /\ wire[<<p, m>>] = <<>>
    BY DEF Settled, Pair
  <2>4. announced[m] = None /\ m # None
    BY SharingAssumption DEF Settled
  <2>5. ~Told(m)
    BY <2>2, <2>3, <2>4 DEF Told
  <2> QED
    BY <2>1, <2>5 DEF Has, Settled
<1> QED
  BY <1>1, <1>2, <1>3, PTL DEF Spec

=============================================================================
