--------------------------- MODULE JoiningProofs ----------------------------
(***************************************************************************)
(* Proofs about Joining: what every variable holds, that a machine without *)
(* a document has decided whom to join, that its file is never of another  *)
(* workspace than the one it is in unless a save failed, and that of two   *)
(* machines neither takes over a configuration that never admitted it.     *)
(***************************************************************************)
EXTENDS Joining, WorkspaceDocProofs, FiniteSetTheorems

-----------------------------------------------------------------------------
(* The inductive invariant *)

\* A document whose clock covers its stamps: a merge observes the clock of the
\* incoming document, whose value is known only of these.
GoodDoc == {d \in Doc : Covered(d.body)}
GoodFrame == [kind : {"Identify"}, workspace : Workspace \cup {None}, size : Nat]
             \cup [kind : {"DocFull"}, doc : GoodDoc] \cup {Bye}

GoodState ==
  /\ doc \in [Machine -> GoodDoc \cup {NoDoc}]
  /\ disk \in [Machine -> GoodDoc \cup {NoDoc}]
  /\ wire \in [Pairs -> Seq(GoodFrame)]

\* The parts of TypeOK that speak of the agent, of the actor and of sessions.
AgentState ==
  /\ up \in [Machine -> BOOLEAN]
  /\ trust \in [Machine -> SUBSET Machine] /\ candidates \in [Machine -> SUBSET Machine]
  /\ adopting \in [Machine -> {Idle} \cup [step : {"forget", "clear"}, peer : Machine]]

Queues ==
  /\ events \in [Machine -> Seq(Letter)] /\ mail \in [Machine -> Seq(Letter)]
  /\ \A m \in Machine : Len(events[m]) <= EventCap /\ Len(mail[m]) <= MailCap

SlotState ==
  /\ status \in [Pairs -> {"Offline", "Connecting", "Online"}]
  /\ seen \in [Pairs -> BOOLEAN]
  /\ phase \in [Pairs -> Phase] /\ sent \in [Pairs -> Workspace \cup {None}]

Counts ==
  /\ made \subseteq Workspace /\ faults \in Nat /\ unpairs \in Nat /\ unsaved \subseteq Machine

\* A machine that runs without a document has decided whom to join.
Undecided == \A m \in Machine : up[m] /\ doc[m] = NoDoc => trust[m] # {}

Inv ==
  /\ GoodState /\ AgentState /\ Queues /\ SlotState /\ Counts
  /\ Undecided /\ DiskOfThisWorkspace

-----------------------------------------------------------------------------
(* Documents *)

\* There is a document exactly when it names a workspace.
LEMMA DocKinds ==
  ASSUME NEW d \in GoodDoc \cup {NoDoc}
  PROVE  /\ d = NoDoc <=> d.id = None
         /\ d # NoDoc => d \in GoodDoc
         /\ d \in GoodDoc => /\ d # NoDoc /\ d \in Doc /\ d.id \in Workspace
                             /\ d.body \in WorkspaceDoc /\ Covered(d.body)
         /\ d.id \in Workspace \cup {None}
<1>1. None \notin Workspace
  BY JoiningAssumption
<1> QED
  BY <1>1 DEF GoodDoc, Doc, NoDoc

\* An edit keeps a document good, and in its workspace.
LEMMA EditedIsGood ==
  ASSUME NEW d \in GoodDoc, NEW m \in Machine, NEW p \in Machine, NEW v \in Value \cup {Removed},
         NEW n, n = [d EXCEPT !.body = Edited(@, UpdateOf(@, m, SlotField(p), v))]
  PROVE  n \in GoodDoc /\ n.id = d.id
<1>1. d \in [id : Workspace, body : WorkspaceDoc] /\ Covered(d.body)
  BY DEF GoodDoc, Doc
<1>2. SlotField(p) \in Field
  BY DEF Field, SlotFields
<1>3. /\ Edited(d.body, UpdateOf(d.body, m, SlotField(p), v)) \in WorkspaceDoc
      /\ Covered(Edited(d.body, UpdateOf(d.body, m, SlotField(p), v)))
  BY <1>1, <1>2, EditKeeps
<1>4. /\ n.id = d.id /\ n.body = Edited(d.body, UpdateOf(d.body, m, SlotField(p), v))
      /\ n = [id |-> n.id, body |-> n.body]
  BY <1>1
<1> QED
  BY <1>1, <1>3, <1>4 DEF GoodDoc, Doc

\* So does a merge; a machine without a document takes the other one over.
LEMMA MergedIsGood ==
  ASSUME NEW m \in Machine, doc[m] \in GoodDoc \cup {NoDoc}, NEW o \in GoodDoc
  PROVE  /\ Merged(m, o) \in GoodDoc
         /\ Merged(m, o).id = IF doc[m] = NoDoc THEN o.id ELSE doc[m].id
<1>1. CASE doc[m] = NoDoc
  BY <1>1 DEF Merged
<1>2. CASE doc[m] # NoDoc
  <2> DEFINE b == Merge(doc[m].body, o.body)
  <2>1. doc[m] \in [id : Workspace, body : WorkspaceDoc] /\ Covered(doc[m].body)
    BY <1>2 DEF GoodDoc, Doc
  <2>2. o.body \in WorkspaceDoc /\ Covered(o.body)
    BY DEF GoodDoc, Doc
  <2>3. b \in WorkspaceDoc /\ Covered(b)
    BY <2>1, <2>2, MergeKeeps
  <2> HIDE DEF b
  <2>4. Merged(m, o) = [doc[m] EXCEPT !.body = b]
    BY <1>2 DEF Merged, b
  <2>5. Merged(m, o) = [id |-> doc[m].id, body |-> b]
    BY <2>1, <2>4
  <2> QED
    BY <1>2, <2>1, <2>3, <2>5 DEF GoodDoc, Doc
<1> QED
  BY <1>1, <1>2

\* A configuration of one's own: every register is stamped 1, or not there.
LEMMA NewDocIsGood ==
  ASSUME NEW m \in Machine, NEW w \in Workspace
  PROVE  NewDoc(m, w) \in GoodDoc /\ NewDoc(m, w).id = w
<1> DEFINE c == Create(m, Record, Record, Record)
           first == [value |-> Record, stamp |-> [lamport |-> 1, origin |-> m]]
<1>1. Record \in Value
  BY ValueAssumption DEF Record
<1>2. first \in Lww /\ NoSlot \in Lww
  BY <1>1, MachineAssumption DEF Lww, Stamp, NoSlot
<1>3. first.stamp.lamport = 1 /\ NoSlot.stamp.lamport = 0
  BY DEF NoSlot
<1>4. c.lamport = 1
  BY DEF Create
<1>5. c.reg = [f \in Field |->
                 IF f = NameField \/ f = SettingsField \/ f = SlotField(m)
                 THEN first ELSE NoSlot]
  BY DEF Create
<1>6. c = [lamport |-> c.lamport, reg |-> c.reg]
  BY DEF Create
<1> HIDE DEF c, first
<1>7. c.reg \in [Field -> Lww] /\ \A f \in Field : c.reg[f] \in {first, NoSlot}
  BY <1>2, <1>5
<1>8. c \in WorkspaceDoc
  BY <1>4, <1>6, <1>7 DEF WorkspaceDoc
<1>9. Covered(c)
  BY <1>3, <1>4, <1>7 DEF Covered
<1>10. NewDoc(m, w) = [id |-> w, body |-> c]
  BY DEF NewDoc, c
<1> QED
  BY <1>8, <1>9, <1>10 DEF GoodDoc, Doc

-----------------------------------------------------------------------------
(* Frames and letters *)

\* How many machines a document has is a number.
LEMMA SizeIsNat == ASSUME NEW d PROVE Size(d) \in Nat
<1> DEFINE S == {x \in Machine : IsMember(d.body, x)}
<1>1. IsFiniteSet(S)
  BY JoiningAssumption, FS_Subset
<1>2. Cardinality(S) \in Nat
  BY <1>1, FS_CardinalityType
<1> QED
  BY <1>2 DEF Size

\* What sessions write.
LEMMA Frames ==
  /\ \A w \in Workspace \cup {None}, n \in Nat : Identify(w, n) \in GoodFrame
  /\ \A d \in GoodDoc : DocFull(d) \in GoodFrame
  /\ Bye \in GoodFrame
  /\ \A f \in GoodFrame : /\ f.kind = "DocFull" => f.doc \in GoodDoc
                          /\ f.kind = "Identify" => /\ f.workspace \in Workspace \cup {None}
                                                    /\ f.size \in Nat
BY DEF GoodFrame, Identify, DocFull, Bye

\* What sessions report.
LEMMA Letters ==
  /\ \A k \in {"Established", "Closed", "Rejected"}, p \in Machine : Outcome(k, p) \in Letter
  /\ \A p \in Machine, w \in Workspace, n \in Nat : Different(p, w, n) \in Letter
  /\ \A l \in Letter : /\ l.peer \in Machine
                       /\ l.kind = "Different" => l.workspace \in Workspace /\ l.size \in Nat
BY DEF Letter, Outcome, Different

\* A queue that loses its head, and one that a letter or frame is appended to.
LEMMA SeqFacts ==
  ASSUME NEW T, NEW s \in Seq(T)
  PROVE  /\ \A x \in T : Append(s, x) \in Seq(T) /\ Len(Append(s, x)) = Len(s) + 1
         /\ s # <<>> => /\ Head(s) \in T /\ Tail(s) \in Seq(T)
                        /\ Len(Tail(s)) = Len(s) - 1
         /\ Len(s) \in Nat
OBVIOUS

\* The parts of a pair are machines.
LEMMA PairFacts ==
  /\ \A e \in Pairs : e[1] \in Machine /\ e[2] \in Machine /\ Other(e) \in Pairs
  /\ \A m \in Machine, p \in Machine : m # p => <<m, p>> \in Pairs
BY DEF Pairs, Other

\* Post puts a letter into a mailbox that has room.
LEMMA PostKeeps ==
  ASSUME Queues, NEW m \in Machine, NEW l \in Letter, Post(m, l), UNCHANGED events
  PROVE  Queues'
<1>1. mail[m] \in Seq(Letter) /\ Len(mail[m]) < MailCap /\ MailCap \in Nat
  BY JoiningAssumption DEF Queues, Post
<1>2. Append(mail[m], l) \in Seq(Letter) /\ Len(Append(mail[m], l)) <= MailCap
  BY <1>1, SeqFacts
<1> QED
  BY <1>2 DEF Queues, Post

-----------------------------------------------------------------------------
(* People *)

\* A save reaches the file, or the machine is among those whose last save failed.
LEMMA PersistKeeps ==
  ASSUME Inv, NEW m \in Machine, NEW d \in GoodDoc, Persist(m, d)
  PROVE  /\ disk' \in [Machine -> GoodDoc \cup {NoDoc}]
         /\ faults' \in Nat /\ unsaved' \subseteq Machine
         /\ disk'[m] \in {d, disk[m]} /\ (m \notin unsaved' => disk'[m] = d)
         /\ \A x \in Machine \ {m} : disk'[x] = disk[x] /\ (x \in unsaved => x \in unsaved')
<1>1. disk \in [Machine -> GoodDoc \cup {NoDoc}] /\ faults \in Nat /\ unsaved \subseteq Machine
  BY DEF Inv, GoodState, Counts
<1>2. CASE disk' = [disk EXCEPT ![m] = d] /\ unsaved' = unsaved \ {m} /\ UNCHANGED faults
  BY <1>1, <1>2
<1>3. CASE faults' = faults + 1 /\ unsaved' = unsaved \cup {m} /\ UNCHANGED disk
  BY <1>1, <1>3
<1> QED
  BY <1>2, <1>3 DEF Persist

\* An edit of the document in memory, and of the file unless the save fails.
LEMMA MutateKeeps ==
  ASSUME Inv, NEW m \in Machine, NEW p \in Machine, NEW v \in Value \cup {Removed},
         Mutate(m, p, v)
  PROVE  /\ doc' \in [Machine -> GoodDoc \cup {NoDoc}]
         /\ disk' \in [Machine -> GoodDoc \cup {NoDoc}]
         /\ faults' \in Nat /\ unsaved' \subseteq Machine
         /\ \A x \in Machine : doc'[x] = NoDoc <=> doc[x] = NoDoc
         /\ \A x \in Machine : doc'[x].id = doc[x].id
         /\ \A x \in Machine \ unsaved' : \/ disk'[x] = doc'[x]
                                          \/ disk'[x] = disk[x] /\ x \notin unsaved
<1> DEFINE d == [doc[m] EXCEPT !.body = Edited(@, UpdateOf(@, m, SlotField(p), v))]
<1>1. doc[m] \in GoodDoc
  BY DocKinds DEF Mutate, Inv, GoodState
<1>2. d \in GoodDoc /\ d.id = doc[m].id
  BY <1>1, EditedIsGood
<1>3. doc' = [doc EXCEPT ![m] = d] /\ Persist(m, d)
  BY DEF Mutate
<1> HIDE DEF d
<1>4. d # NoDoc /\ doc[m] # NoDoc
  BY <1>1, <1>2, DocKinds
<1>5. /\ disk' \in [Machine -> GoodDoc \cup {NoDoc}]
      /\ faults' \in Nat /\ unsaved' \subseteq Machine
      /\ m \notin unsaved' => disk'[m] = d
      /\ \A x \in Machine \ {m} : disk'[x] = disk[x] /\ (x \in unsaved => x \in unsaved')
  BY <1>2, <1>3, PersistKeeps
<1> QED
  BY <1>2, <1>3, <1>4, <1>5 DEF Inv, GoodState

\* What is in the file of a machine whose last save succeeded.
LEMMA SavedStaysHere ==
  ASSUME Inv, UNCHANGED up,
         \A x \in Machine : doc'[x] = NoDoc <=> doc[x] = NoDoc,
         \A x \in Machine : doc'[x].id = doc[x].id,
         \A x \in Machine \ unsaved' : \/ disk'[x] = doc'[x]
                                       \/ disk'[x] = disk[x] /\ x \notin unsaved
  PROVE  DiskOfThisWorkspace'
BY DEF Inv, DiskOfThisWorkspace

LEMMA PairKeeps ==
  ASSUME Inv, NEW m \in Machine, NEW p \in Machine, Pair(m, p)
  PROVE  Inv'
<1>1. Record \in Value \cup {Removed}
  BY ValueAssumption DEF Record
<1>2. /\ doc' \in [Machine -> GoodDoc \cup {NoDoc}]
      /\ disk' \in [Machine -> GoodDoc \cup {NoDoc}]
      /\ faults' \in Nat /\ unsaved' \subseteq Machine
      /\ \A x \in Machine : doc'[x] = NoDoc <=> doc[x] = NoDoc
      /\ \A x \in Machine : doc'[x].id = doc[x].id
      /\ \A x \in Machine \ unsaved' : \/ disk'[x] = doc'[x]
                                       \/ disk'[x] = disk[x] /\ x \notin unsaved
  <2>1. CASE doc[m] = NoDoc
    BY <2>1 DEF Pair, Inv, GoodState, Counts
  <2>2. CASE doc[m] # NoDoc
    BY <1>1, <2>2, MutateKeeps DEF Pair
  <2> QED
    BY <2>1, <2>2
<1>3. GoodState'
  BY <1>2 DEF Pair, Inv, GoodState, connection
<1>4. AgentState'
  BY DEF Pair, Inv, AgentState
<1>5. Queues' /\ SlotState'
  BY DEF Pair, Inv, Queues, SlotState, slots, connection
<1>6. Counts'
  BY <1>2 DEF Pair, Inv, Counts
<1>7. Undecided'
  BY <1>2 DEF Pair, Inv, Undecided, AgentState
<1>8. DiskOfThisWorkspace'
  BY <1>2, SavedStaysHere DEF Pair
<1> QED
  BY <1>3, <1>4, <1>5, <1>6, <1>7, <1>8 DEF Inv

LEMMA UnpairKeeps ==
  ASSUME Inv, NEW m \in Machine, NEW p \in Machine, Unpair(m, p)
  PROVE  Inv'
<1>1. /\ doc' \in [Machine -> GoodDoc \cup {NoDoc}]
      /\ disk' \in [Machine -> GoodDoc \cup {NoDoc}]
      /\ faults' \in Nat /\ unsaved' \subseteq Machine
      /\ \A x \in Machine : doc'[x] = NoDoc <=> doc[x] = NoDoc
      /\ \A x \in Machine : doc'[x].id = doc[x].id
      /\ \A x \in Machine \ unsaved' : \/ disk'[x] = doc'[x]
                                       \/ disk'[x] = disk[x] /\ x \notin unsaved
  BY MutateKeeps DEF Unpair
<1>2. GoodState'
  BY <1>1 DEF Unpair, Inv, GoodState, connection
<1>3. AgentState' /\ Queues' /\ SlotState'
  BY DEF Unpair, Inv, AgentState, Queues, SlotState, slots, connection
<1>4. Counts'
  BY <1>1 DEF Unpair, Inv, Counts
<1>5. Undecided'
  BY <1>1 DEF Unpair, Inv, Undecided
<1>6. DiskOfThisWorkspace'
  BY <1>1, SavedStaysHere DEF Unpair
<1> QED
  BY <1>2, <1>3, <1>4, <1>5, <1>6 DEF Inv

-----------------------------------------------------------------------------
(* The actor *)

\* A step that leaves the agent's document and what it decided alone keeps what is
\* said of them.
LEMMA AgentUnchanged ==
  ASSUME Inv, UNCHANGED <<up, doc, disk, trust, unsaved>>
  PROVE  Undecided' /\ DiskOfThisWorkspace'
BY DEF Inv, Undecided, DiskOfThisWorkspace

LEMMA NetworkKeeps ==
  ASSUME Inv, NEW m \in Machine, NEW p \in Machine, Network(m, p)
  PROVE  Inv'
<1>1. CASE OnSighting(m, p)
  <2>1. seen' \in [Pairs -> BOOLEAN] /\ candidates' \in [Machine -> SUBSET Machine]
    <3>1. CASE Authorize(m, p)
      BY <1>1, <3>1 DEF OnSighting, Inv, AgentState, SlotState
    <3>2. CASE ~Authorize(m, p)
      BY <1>1, <3>2 DEF OnSighting, Inv, AgentState, SlotState
    <3> QED
      BY <3>1, <3>2
  <2> QED
    BY <1>1, <2>1, AgentUnchanged
       DEF OnSighting, Inv, GoodState, AgentState, Queues, SlotState, Counts, connection, history
<1>2. CASE Expire(m, p)
  BY <1>2, AgentUnchanged
     DEF Expire, Inv, GoodState, AgentState, Queues, SlotState, Counts, agent, connection, history
<1>3. CASE Dial(m, p)
  <2>1. << >> \in Seq(GoodFrame)
    OBVIOUS
  <2>2. wire' \in [Pairs -> Seq(GoodFrame)]
    BY <1>3, <2>1 DEF Dial, Inv, GoodState
  <2>3. phase' \in [Pairs -> Phase]
    BY <1>3 DEF Dial, Inv, SlotState, Phase
  <2> QED
    BY <1>3, <2>2, <2>3, AgentUnchanged
       DEF Dial, Dials, Inv, GoodState, AgentState, Queues, SlotState, Counts, agent, history
<1>4. CASE DialFails(m, p)
  <2>1. Queues'
    BY <1>4, PostKeeps, Letters DEF DialFails, Inv, agent
  <2>2. Counts' /\ SlotState'
    <3>1. faults' = faults \/ faults' = faults + 1
      BY <1>4 DEF DialFails
    <3>2. Counts'
      BY <1>4, <3>1 DEF DialFails, Inv, Counts
    <3>3. SlotState'
      BY <1>4 DEF DialFails, Dials, Inv, SlotState, connection
    <3> QED
      BY <3>2, <3>3
  <2>3. GoodState' /\ AgentState'
    BY <1>4 DEF DialFails, Inv, GoodState, AgentState, agent, connection
  <2>4. Undecided' /\ DiskOfThisWorkspace'
    BY <1>4, AgentUnchanged DEF DialFails, agent
  <2> QED
    BY <2>1, <2>2, <2>3, <2>4 DEF Inv
<1>5. CASE Break(m, p)
  <2>1. <<Bye>> \in Seq(GoodFrame)
    BY Frames
  <2>2. wire' \in [Pairs -> Seq(GoodFrame)]
    BY <1>5, <2>1 DEF Break, Inv, GoodState
  <2> QED
    BY <1>5, <2>2, AgentUnchanged
       DEF Break, Inv, GoodState, AgentState, Queues, SlotState, Counts, agent, slots
<1> QED
  BY <1>1, <1>2, <1>3, <1>4, <1>5 DEF Network

\* Taking a letter out of a mailbox.
LEMMA HandlesKeeps ==
  ASSUME Inv, NEW m \in Machine, NEW k, Handles(m, k)
  PROVE  /\ mail' \in [Machine -> Seq(Letter)]
         /\ \A x \in Machine : Len(mail'[x]) <= MailCap
         /\ Head(mail[m]) \in Letter /\ Head(mail[m]).peer \in Machine
<1>1. mail[m] \in Seq(Letter) /\ mail[m] # <<>> /\ MailCap \in Nat
  BY JoiningAssumption DEF Handles, Inv, Queues
<1>2. Tail(mail[m]) \in Seq(Letter) /\ Len(Tail(mail[m])) <= Len(mail[m])
  BY <1>1, SeqFacts
<1>3. Len(mail[m]) <= MailCap
  BY DEF Inv, Queues
<1>4. Len(Tail(mail[m])) <= MailCap
  BY <1>1, <1>2, <1>3, SeqFacts
<1>5. Head(mail[m]) \in Letter
  BY <1>1
<1> QED
  BY <1>2, <1>4, <1>5, Letters DEF Handles, Inv, Queues

LEMMA ActorKeeps ==
  ASSUME Inv, NEW m \in Machine, Actor(m)
  PROVE  Inv'
<1>1. CASE OnEstablished(m)
  <2>1. Queues'
    BY <1>1, HandlesKeeps DEF OnEstablished, Inv, Queues
  <2> QED
    BY <1>1, <2>1, AgentUnchanged
       DEF OnEstablished, Inv, GoodState, AgentState, SlotState, Counts, connection, history
<1>2. CASE OnClosed(m)
  <2>1. Queues'
    BY <1>2, HandlesKeeps DEF OnClosed, Inv, Queues, agent
  <2> QED
    BY <1>2, <2>1, AgentUnchanged
       DEF OnClosed, Inv, GoodState, AgentState, SlotState, Counts, agent, connection, history
<1>3. CASE OnRejected(m)
  <2>1. Queues' /\ Head(mail[m]).peer \in Machine
    BY <1>3, HandlesKeeps DEF OnRejected, Inv, Queues
  <2> QED
    BY <1>3, <2>1, AgentUnchanged
       DEF OnRejected, Inv, GoodState, AgentState, SlotState, Counts, slots, connection, history
<1>4. CASE OnDifferent(m)
  <2>1. Head(mail[m]) \in Letter
    BY <1>4, HandlesKeeps DEF OnDifferent
  <2>2. events[m] \in Seq(Letter) /\ Len(events[m]) <= EventCap /\ EventCap \in Nat \ {0}
    BY JoiningAssumption DEF Inv, Queues
  <2>3. Behind(m, Head(mail[m])) \in Seq(Letter) /\ Len(Behind(m, Head(mail[m]))) <= EventCap
    <3>1. CASE Len(events[m]) < EventCap
      BY <2>1, <2>2, <3>1, SeqFacts DEF Behind
    <3>2. CASE ~(Len(events[m]) < EventCap)
      <4>1. events[m] # <<>>
        BY <2>2, <3>2
      <4>2. Tail(events[m]) \in Seq(Letter) /\ Len(Tail(events[m])) = Len(events[m]) - 1
        BY <2>2, <4>1, SeqFacts
      <4> QED
        BY <2>1, <2>2, <3>2, <4>2, SeqFacts DEF Behind
    <3> QED
      BY <3>1, <3>2
  <2>4. Queues'
    BY <1>4, <2>3, HandlesKeeps DEF OnDifferent, Inv, Queues
  <2> QED
    BY <1>4, <2>4, AgentUnchanged
       DEF OnDifferent, Inv, GoodState, AgentState, SlotState, Counts, connection, history
<1> QED
  BY <1>1, <1>2, <1>3, <1>4 DEF Actor

-----------------------------------------------------------------------------
(* Sessions *)

\* What one more frame at an end leaves of the connection.
LEMMA WriteKeeps ==
  ASSUME Inv, NEW e \in Pairs, NEW f \in GoodFrame,
         wire' = [wire EXCEPT ![e] = Append(@, f)]
  PROVE  wire' \in [Pairs -> Seq(GoodFrame)]
<1>1. wire[e] \in Seq(GoodFrame)
  BY DEF Inv, GoodState
<1>2. Append(wire[e], f) \in Seq(GoodFrame)
  BY <1>1
<1> QED
  BY <1>2 DEF Inv, GoodState

\* An end that is over: the frame that says so, and the report, if there is one.
LEMMA LeavesKeeps ==
  ASSUME Inv, NEW e \in Pairs, Leaves(e)
  PROVE  /\ wire' \in [Pairs -> Seq(GoodFrame)]
         /\ phase' \in [Pairs -> Phase]
<1>1. wire' \in [Pairs -> Seq(GoodFrame)]
  BY Frames, WriteKeeps DEF Leaves
<1>2. "closed" \in Phase
  BY DEF Phase
<1> QED
  BY <1>1, <1>2 DEF Leaves, Inv, SlotState

LEMMA FailsKeeps ==
  ASSUME Inv, NEW e \in Pairs, Fails(e), UNCHANGED events
  PROVE  Queues'
<1>1. CASE e[1] < e[2]
  BY <1>1, PostKeeps, Letters, PairFacts DEF Fails, Inv
<1>2. CASE ~(e[1] < e[2])
  BY <1>2 DEF Fails, Inv, Queues
<1> QED
  BY <1>1, <1>2

\* Reading a frame.
LEMMA ReadKeeps ==
  ASSUME Inv, NEW e \in Pairs, wire[Other(e)] # <<>>
  PROVE  /\ [wire EXCEPT ![Other(e)] = Tail(@)] \in [Pairs -> Seq(GoodFrame)]
         /\ Head(wire[Other(e)]) \in GoodFrame
<1>1. wire[Other(e)] \in Seq(GoodFrame)
  BY PairFacts DEF Inv, GoodState
<1>2. Tail(wire[Other(e)]) \in Seq(GoodFrame) /\ Head(wire[Other(e)]) \in GoodFrame
  BY <1>1
<1> QED
  BY <1>2 DEF Inv, GoodState

LEMMA AuthoriseKeeps ==
  ASSUME Inv, NEW e \in Pairs, Authorise(e)
  PROVE  Inv'
<1>1. e[1] \in Machine /\ e[2] \in Machine
  BY PairFacts
<1>2. doc[e[1]].id \in Workspace \cup {None}
  BY <1>1, DocKinds DEF Inv, GoodState
<1>3. CASE Authorize(e[1], e[2])
  <2>1. Identify(doc[e[1]].id, Size(doc[e[1]])) \in GoodFrame
    BY <1>2, Frames, SizeIsNat
  <2>2. wire' \in [Pairs -> Seq(GoodFrame)]
    BY <1>3, <2>1, WriteKeeps DEF Authorise
  <2>3. phase' \in [Pairs -> Phase] /\ sent' \in [Pairs -> Workspace \cup {None}]
    BY <1>2, <1>3 DEF Authorise, Phase, Inv, SlotState
  <2>4. Queues'
    BY <1>3 DEF Authorise, Inv, Queues, agent
  <2> QED
    BY <2>2, <2>3, <2>4, AgentUnchanged
       DEF Authorise, Inv, GoodState, AgentState, SlotState, Counts, agent, slots, history
<1>4. CASE ~Authorize(e[1], e[2])
  <2>1. Leaves(e) /\ Post(e[1], Outcome("Rejected", e[2])) /\ UNCHANGED sent
    BY <1>4 DEF Authorise
  <2>2. Queues'
    BY <1>1, <2>1, PostKeeps, Letters DEF Authorise, Inv, agent
  <2> QED
    BY <2>1, <2>2, LeavesKeeps, AgentUnchanged
       DEF Authorise, Inv, GoodState, AgentState, SlotState, Counts, agent, slots, history
<1> QED
  BY <1>3, <1>4

LEMMA IdentifiedKeeps ==
  ASSUME Inv, NEW e \in Pairs, Identified(e)
  PROVE  Inv'
<1> DEFINE f == Head(wire[Other(e)])
           taken == [wire EXCEPT ![Other(e)] = Tail(@)]
<1>1. /\ e[1] \in Machine /\ e[2] \in Machine
      /\ taken \in [Pairs -> Seq(GoodFrame)] /\ f \in GoodFrame /\ f.kind = "Identify"
  BY PairFacts, ReadKeeps DEF Identified
<1>2. f.workspace \in Workspace \cup {None} /\ f.size \in Nat
  BY <1>1, Frames
<1>3. UNCHANGED <<up, doc, disk, trust, candidates, adopting, events, status, seen, sent,
                  made, faults, unpairs, unsaved>>
  BY DEF Identified, agent, slots, history
<1>4. wire' \in [Pairs -> Seq(GoodFrame)] /\ phase' \in [Pairs -> Phase] /\ Queues'
  <2>1. CASE sent[e] # None /\ f.workspace # None /\ f.workspace # sent[e]
    <3>1. /\ phase' = [phase EXCEPT ![e] = "closed"]
          /\ wire' = [taken EXCEPT ![e] = Append(@, Bye)]
          /\ Post(e[1], Different(e[2], f.workspace, f.size))
      BY <2>1 DEF Identified
    <3> HIDE DEF f, taken
    <3>2. taken[e] \in Seq(GoodFrame)
      BY <1>1
    <3>3. Append(taken[e], Bye) \in Seq(GoodFrame)
      BY <3>2, Frames
    <3>4. wire' \in [Pairs -> Seq(GoodFrame)]
      BY <1>1, <3>1, <3>3
    <3>5. phase' \in [Pairs -> Phase]
      BY <3>1 DEF Phase, Inv, SlotState
    <3>6. Queues'
      BY <1>1, <1>2, <1>3, <2>1, <3>1, PostKeeps, Letters DEF Inv
    <3> QED
      BY <3>4, <3>5, <3>6
  <2>2. CASE ~(sent[e] # None /\ f.workspace # None /\ f.workspace # sent[e])
    <3>1. /\ phase' = [phase EXCEPT ![e] = "established"]
          /\ wire' = taken
          /\ Post(e[1], Outcome("Established", e[2]))
      BY <2>2 DEF Identified
    <3> HIDE DEF f, taken
    <3>2. phase' \in [Pairs -> Phase]
      BY <3>1 DEF Phase, Inv, SlotState
    <3>3. Queues'
      BY <1>1, <1>3, <3>1, PostKeeps, Letters DEF Inv
    <3> QED
      BY <1>1, <3>1, <3>2, <3>3
  <2> QED
    BY <2>1, <2>2
<1> QED
  BY <1>3, <1>4, AgentUnchanged DEF Inv, GoodState, AgentState, SlotState, Counts

LEMMA NotIdentifiedKeeps ==
  ASSUME Inv, NEW e \in Pairs, NotIdentified(e)
  PROVE  Inv'
<1>1. Fails(e) /\ UNCHANGED <<up, doc, disk, trust, candidates, adopting, events, status, seen,
                              sent, made, faults, unpairs, unsaved>>
  BY DEF NotIdentified, agent, slots, history
<1>2. Queues'
  BY <1>1, FailsKeeps
<1>3. wire' \in [Pairs -> Seq(GoodFrame)] /\ phase' \in [Pairs -> Phase]
  BY <1>1, LeavesKeeps DEF Fails
<1> QED
  BY <1>1, <1>2, <1>3, AgentUnchanged DEF Inv, GoodState, AgentState, SlotState, Counts

LEMMA SendDocKeeps ==
  ASSUME Inv, NEW e \in Pairs, SendDoc(e)
  PROVE  Inv'
<1>1. UNCHANGED <<up, doc, disk, trust, candidates, adopting, events, mail, status, seen,
                  sent, made, faults, unpairs, unsaved>>
  BY DEF SendDoc, agent, slots, history
<1>2. phase' \in [Pairs -> Phase]
  BY DEF SendDoc, Phase, Inv, SlotState
<1>3. wire' \in [Pairs -> Seq(GoodFrame)]
  <2>1. CASE doc[e[1]] = NoDoc
    <3>1. wire' = [wire EXCEPT ![e] = wire[e]]
      BY <2>1 DEF SendDoc
    <3> QED
      BY <3>1 DEF Inv, GoodState
  <2>2. CASE doc[e[1]] # NoDoc
    <3>1. doc[e[1]] \in GoodDoc
      BY <2>2, PairFacts DEF Inv, GoodState
    <3>2. wire' = [wire EXCEPT ![e] = Append(@, DocFull(doc[e[1]]))]
      BY <2>2 DEF SendDoc
    <3> QED
      BY <3>1, <3>2, Frames, WriteKeeps
  <2> QED
    BY <2>1, <2>2
<1> QED
  BY <1>1, <1>2, <1>3, AgentUnchanged DEF Inv, GoodState, AgentState, Queues, SlotState, Counts

LEMMA SendFailsKeeps ==
  ASSUME Inv, NEW e \in Pairs, SendFails(e)
  PROVE  Inv'
<1>1. Fails(e) /\ UNCHANGED <<up, doc, disk, trust, candidates, adopting, events, status, seen,
                              sent, made, faults, unpairs, unsaved>>
  BY DEF SendFails, agent, slots, history
<1>2. Queues'
  BY <1>1, FailsKeeps
<1>3. wire' \in [Pairs -> Seq(GoodFrame)] /\ phase' \in [Pairs -> Phase]
  BY <1>1, LeavesKeeps DEF Fails
<1> QED
  BY <1>1, <1>2, <1>3, AgentUnchanged DEF Inv, GoodState, AgentState, SlotState, Counts

\* The document that is taken over reaches the file unless the save fails, and one that
\* is only merged changes nobody's workspace.
LEMMA ReadDocKeeps ==
  ASSUME Inv, NEW e \in Pairs, ReadDoc(e)
  PROVE  Inv'
<1> DEFINE m == e[1]
           o == Head(wire[Other(e)]).doc
           d == Merged(m, o)
           changed == doc[m] = NoDoc \/ d.body.reg # doc[m].body.reg
<1>1. /\ m \in Machine /\ o \in GoodDoc
      /\ [wire EXCEPT ![Other(e)] = Tail(@)] \in [Pairs -> Seq(GoodFrame)]
  BY PairFacts, ReadKeeps, Frames DEF ReadDoc
<1>2. doc[m] \in GoodDoc \cup {NoDoc} /\ disk[m] \in GoodDoc \cup {NoDoc}
  BY <1>1 DEF Inv, GoodState
<1>3. d \in GoodDoc /\ d.id = IF doc[m] = NoDoc THEN o.id ELSE doc[m].id
  BY <1>1, <1>2, MergedIsGood
<1>4. /\ doc' = [doc EXCEPT ![m] = d]
      /\ changed => Persist(m, d) /\ trust' = [trust EXCEPT ![m] = {x \in @ : ~Has(d, x)}]
      /\ ~changed => UNCHANGED <<disk, trust, faults, unsaved>>
      /\ wire' = [wire EXCEPT ![Other(e)] = Tail(@)]
      /\ UNCHANGED <<up, candidates, adopting, events, mail, status, seen, phase, sent,
                     made, unpairs>>
  BY DEF ReadDoc, slots
<1>5. changed \/ doc[m] # NoDoc
  OBVIOUS
<1>6. d # NoDoc
  BY <1>3, DocKinds
<1> HIDE DEF m, o, d, changed
<1>7. /\ disk' \in [Machine -> GoodDoc \cup {NoDoc}]
      /\ faults' \in Nat /\ unsaved' \subseteq Machine
      /\ m \notin unsaved' => disk'[m] = d \/ (~changed /\ disk'[m] = disk[m] /\ m \notin unsaved)
      /\ \A x \in Machine \ {m} : disk'[x] = disk[x] /\ (x \in unsaved => x \in unsaved')
  <2>1. CASE changed
    BY <1>1, <1>3, <1>4, <2>1, PersistKeeps
  <2>2. CASE ~changed
    BY <1>1, <1>4, <2>2 DEF Inv, GoodState, Counts
  <2> QED
    BY <2>1, <2>2
<1>8. GoodState'
  <2>1. doc' \in [Machine -> GoodDoc \cup {NoDoc}]
    BY <1>3, <1>4 DEF Inv, GoodState
  <2> QED
    BY <1>1, <1>4, <1>7, <2>1 DEF GoodState
<1>9. AgentState'
  <2>1. trust \in [Machine -> SUBSET Machine]
    BY DEF Inv, AgentState
  <2>2. trust' \in [Machine -> SUBSET Machine]
    <3>1. CASE changed
      <4>1. trust' = [trust EXCEPT ![m] = {x \in @ : ~Has(d, x)}]
        BY <1>4, <3>1
      <4> QED
        BY <1>1, <2>1, <4>1
    <3>2. CASE ~changed
      BY <1>4, <2>1, <3>2
    <3> QED
      BY <3>1, <3>2
  <2> QED
    BY <1>4, <2>2 DEF Inv, AgentState
<1>10. Queues' /\ SlotState' /\ Counts'
  BY <1>4, <1>7 DEF Inv, Queues, SlotState, Counts
<1>11. /\ doc'[m] = d
       /\ \A x \in Machine \ {m} : doc'[x] = doc[x] /\ trust'[x] = trust[x]
  <2>1. doc'[m] = d /\ \A x \in Machine \ {m} : doc'[x] = doc[x]
    BY <1>1, <1>4 DEF Inv, GoodState
  <2>2. CASE changed
    BY <1>1, <1>4, <2>1, <2>2 DEF Inv, AgentState
  <2>3. CASE ~changed
    BY <1>4, <2>1, <2>3
  <2> QED
    BY <2>2, <2>3
<1>12. Undecided'
  BY <1>4, <1>6, <1>11 DEF Inv, Undecided
<1>13. DiskOfThisWorkspace'
  <2> SUFFICES ASSUME NEW x \in Machine, up[x], doc'[x] # NoDoc, disk'[x] # NoDoc, x \notin unsaved'
               PROVE  disk'[x].id = doc'[x].id
    BY <1>4 DEF DiskOfThisWorkspace
  <2>1. CASE x # m
    BY <1>7, <1>11, <2>1 DEF Inv, DiskOfThisWorkspace
  <2>2. CASE x = m /\ disk'[m] = d
    BY <1>11, <2>2
  <2>3. CASE x = m /\ ~changed /\ disk'[m] = disk[m] /\ m \notin unsaved
    BY <1>1, <1>3, <1>5, <1>11, <2>3 DEF Inv, DiskOfThisWorkspace
  <2> QED
    BY <1>7, <2>1, <2>2, <2>3
<1> QED
  BY <1>8, <1>9, <1>10, <1>12, <1>13 DEF Inv

LEMMA ReadEndKeeps ==
  ASSUME Inv, NEW e \in Pairs, ReadEnd(e)
  PROVE  Inv'
<1>1. /\ Leaves(e) /\ Post(e[1], Outcome("Closed", e[2]))
      /\ UNCHANGED <<up, doc, disk, trust, candidates, adopting, events, status, seen, sent,
                     made, faults, unpairs, unsaved>>
  BY DEF ReadEnd, Ends, agent, slots, history
<1>2. Queues'
  BY <1>1, PostKeeps, Letters, PairFacts DEF Inv
<1>3. wire' \in [Pairs -> Seq(GoodFrame)] /\ phase' \in [Pairs -> Phase]
  BY <1>1, LeavesKeeps
<1> QED
  BY <1>1, <1>2, <1>3, AgentUnchanged DEF Inv, GoodState, AgentState, SlotState, Counts

LEMMA SessionKeeps ==
  ASSUME Inv, NEW e \in Pairs, Session(e)
  PROVE  Inv'
BY AuthoriseKeeps, IdentifiedKeeps, NotIdentifiedKeeps, SendDocKeeps, SendFailsKeeps,
   ReadDocKeeps, ReadEndKeeps DEF Session

-----------------------------------------------------------------------------
(* The agent *)

\* Whose configuration is being adopted.
LEMMA AdoptingWhom ==
  ASSUME AgentState, NEW m \in Machine, adopting[m].step \in {"forget", "clear"}
  PROVE  adopting[m].peer \in Machine /\ adopting[m] = At(adopting[m].step, adopting[m].peer)
<1>1. adopting[m] \in {Idle} \cup [step : {"forget", "clear"}, peer : Machine]
  BY DEF AgentState
<1>2. Idle.step = "idle"
  BY DEF Idle
<1> QED
  BY <1>1, <1>2 DEF At

LEMMA OnNetEventKeeps ==
  ASSUME Inv, NEW m \in Machine, OnNetEvent(m)
  PROVE  Inv'
<1> DEFINE v == Head(events[m])
<1>1. events[m] \in Seq(Letter) /\ events[m] # <<>> /\ Len(events[m]) <= EventCap
  BY DEF OnNetEvent, Inv, Queues
<1>2. /\ v \in Letter /\ Tail(events[m]) \in Seq(Letter)
      /\ Len(Tail(events[m])) = Len(events[m]) - 1 /\ Len(events[m]) \in Nat
  BY <1>1, SeqFacts
<1>3. v.peer \in Machine
  BY <1>2, Letters
<1>4. /\ events' = [events EXCEPT ![m] = Tail(@)]
      /\ adopting' = [adopting EXCEPT ![m] =
                        IF doc[m] # NoDoc /\ ShouldYield(doc[m], v.workspace, v.size)
                        THEN At("forget", v.peer) ELSE @]
      /\ UNCHANGED <<up, doc, disk, trust, candidates, mail, status, seen, phase, sent, wire,
                     made, faults, unpairs, unsaved>>
  BY DEF OnNetEvent, slots, connection, history
<1> HIDE DEF v
<1>5. Len(Tail(events[m])) <= EventCap
  BY <1>1, <1>2, JoiningAssumption
<1>6. Queues'
  BY <1>2, <1>4, <1>5 DEF Inv, Queues
<1>7. At("forget", v.peer) \in [step : {"forget", "clear"}, peer : Machine]
  BY <1>3 DEF At
<1>8. AgentState'
  <2>1. CASE doc[m] # NoDoc /\ ShouldYield(doc[m], v.workspace, v.size)
    BY <1>4, <1>7, <2>1 DEF Inv, AgentState
  <2>2. CASE ~(doc[m] # NoDoc /\ ShouldYield(doc[m], v.workspace, v.size))
    BY <1>4, <2>2 DEF Inv, AgentState
  <2> QED
    BY <2>1, <2>2
<1> QED
  BY <1>4, <1>6, <1>8, AgentUnchanged DEF Inv, GoodState, SlotState, Counts

\* The one whose configuration is wanted is trusted in the same step that leaves the
\* machine without a document.
LEMMA ForgetKeeps ==
  ASSUME Inv, NEW m \in Machine, Forget(m)
  PROVE  Inv'
<1> DEFINE p == adopting[m].peer
<1>1. p \in Machine /\ adopting[m] = At("forget", p)
  BY AdoptingWhom DEF Forget, Inv
<1>2. /\ doc' = [doc EXCEPT ![m] = NoDoc]
      /\ trust' = [trust EXCEPT ![m] = @ \cup {p}]
      /\ adopting' = [adopting EXCEPT ![m] = At("clear", p)]
  <2>1. [At("forget", p) EXCEPT !.step = "clear"] = At("clear", p)
    BY DEF At
  <2> QED
    BY <1>1, <2>1 DEF Forget, Inv, AgentState
<1>3. UNCHANGED <<up, disk, candidates, events, mail, status, seen, phase, sent, wire,
                  made, faults, unpairs, unsaved>>
  BY DEF Forget, slots, connection, history
<1> HIDE DEF p
<1>4. At("clear", p) \in [step : {"forget", "clear"}, peer : Machine]
  BY <1>1 DEF At
<1>5. GoodState' /\ AgentState'
  BY <1>1, <1>2, <1>3, <1>4 DEF Inv, GoodState, AgentState
<1>6. Queues' /\ SlotState' /\ Counts'
  BY <1>3 DEF Inv, Queues, SlotState, Counts
<1>7. Undecided' /\ DiskOfThisWorkspace'
  BY <1>2, <1>3 DEF Inv, GoodState, AgentState, Undecided, DiskOfThisWorkspace
<1> QED
  BY <1>5, <1>6, <1>7 DEF Inv

LEMMA ClearKeeps ==
  ASSUME Inv, NEW m \in Machine, Clear(m)
  PROVE  Inv'
<1>1. GoodState' /\ AgentState'
  BY DEF Clear, Inv, GoodState, AgentState, connection
<1>2. Queues' /\ SlotState' /\ Counts'
  BY DEF Clear, Inv, Queues, SlotState, Counts, slots, connection
<1>3. Undecided' /\ DiskOfThisWorkspace'
  BY DEF Clear, Inv, GoodState, Undecided, DiskOfThisWorkspace
<1> QED
  BY <1>1, <1>2, <1>3 DEF Inv

LEMMA ClearFailsKeeps ==
  ASSUME Inv, NEW m \in Machine, ClearFails(m)
  PROVE  Inv'
<1>1. GoodState' /\ AgentState' /\ Queues' /\ SlotState'
  BY DEF ClearFails, Inv, GoodState, AgentState, Queues, SlotState, slots, connection
<1>2. Counts'
  BY DEF ClearFails, Inv, Counts
<1> QED
  BY <1>1, <1>2, AgentUnchanged DEF ClearFails, Inv

-----------------------------------------------------------------------------
(* Crashes *)

LEMMA CrashKeeps ==
  ASSUME Inv, NEW m \in Machine, Crash(m)
  PROVE  Inv'
<1>1. GoodState'
  <2>1. \A e \in Pairs : wire[e] \in Seq(GoodFrame) /\ Append(wire[e], Bye) \in Seq(GoodFrame)
    BY Frames, SeqFacts DEF Inv, GoodState
  <2>2. wire' \in [Pairs -> Seq(GoodFrame)]
    BY <2>1 DEF Crash
  <2>3. doc' \in [Machine -> GoodDoc \cup {NoDoc}] /\ disk' \in [Machine -> GoodDoc \cup {NoDoc}]
    BY DEF Crash, Inv, GoodState
  <2> QED
    BY <2>2, <2>3 DEF GoodState
<1>2. AgentState'
  BY DEF Crash, Inv, AgentState
<1>3. Queues'
  <2>1. <<>> \in Seq(Letter) /\ Len(<<>>) = 0
    OBVIOUS
  <2>2. 0 <= EventCap /\ 0 <= MailCap
    BY JoiningAssumption
  <2> QED
    BY <2>1, <2>2 DEF Crash, Inv, Queues
<1>4. SlotState'
  <2>1. status' \in [Pairs -> {"Offline", "Connecting", "Online"}]
    BY DEF Crash, Inv, SlotState
  <2>2. seen' \in [Pairs -> BOOLEAN]
    BY DEF Crash, Inv, SlotState
  <2>3. phase' \in [Pairs -> Phase]
    BY DEF Crash, Inv, SlotState, Phase
  <2> QED
    BY <2>1, <2>2, <2>3 DEF Crash, Inv, SlotState
<1>5. Counts'
  BY DEF Crash, Inv, Counts
<1>6. Undecided' /\ DiskOfThisWorkspace'
  BY DEF Crash, Inv, GoodState, AgentState, Undecided, DiskOfThisWorkspace
<1> QED
  BY <1>1, <1>2, <1>3, <1>4, <1>5, <1>6 DEF Inv

LEMMA RestartKeeps ==
  ASSUME Inv, NEW m \in Machine, NEW w \in Workspace, Restart(m, w)
  PROVE  Inv'
<1>1. UNCHANGED <<trust, candidates, adopting, events, mail, status, seen, phase, sent, wire,
                  faults, unpairs, unsaved>>
  BY DEF Restart, slots, connection
<1>2. up' = [up EXCEPT ![m] = TRUE]
  BY DEF Restart
<1>3. /\ doc' \in [Machine -> GoodDoc \cup {NoDoc}] /\ disk' \in [Machine -> GoodDoc \cup {NoDoc}]
      /\ doc'[m] # NoDoc /\ disk'[m] = doc'[m] /\ made' \subseteq Workspace
      /\ \A x \in Machine \ {m} : doc'[x] = doc[x] /\ disk'[x] = disk[x]
  <2>1. CASE disk[m] # NoDoc
    BY <2>1 DEF Restart, Inv, GoodState, Counts
  <2>2. CASE disk[m] = NoDoc
    <3>1. NewDoc(m, w) \in GoodDoc /\ NewDoc(m, w) # NoDoc
      BY NewDocIsGood, DocKinds
    <3> DEFINE n == NewDoc(m, w)
    <3>2. doc' = [doc EXCEPT ![m] = n] /\ disk' = [disk EXCEPT ![m] = n]
      BY <2>2 DEF Restart
    <3>3. made' \subseteq Workspace
      BY <2>2 DEF Restart, Inv, Counts
    <3> HIDE DEF n
    <3> QED
      BY <3>1, <3>2, <3>3 DEF Inv, GoodState, n
  <2> QED
    BY <2>1, <2>2
<1>4. GoodState' /\ AgentState' /\ Queues' /\ SlotState' /\ Counts'
  BY <1>1, <1>2, <1>3 DEF Inv, GoodState, AgentState, Queues, SlotState, Counts
<1>5. Undecided' /\ DiskOfThisWorkspace'
  BY <1>1, <1>2, <1>3 DEF Inv, AgentState, Undecided, DiskOfThisWorkspace
<1> QED
  BY <1>4, <1>5 DEF Inv

-----------------------------------------------------------------------------
(* The specification *)

LEMMA InitHolds == Init => Inv
<1> SUFFICES ASSUME Init PROVE Inv
  OBVIOUS
<1>1. PICK f \in [Machine -> Workspace] :
        doc = [m \in Machine |-> NewDoc(m, f[m])] /\ made = {f[m] : m \in Machine}
  BY DEF Init
<1>2. \A m \in Machine : NewDoc(m, f[m]) \in GoodDoc
  BY NewDocIsGood
<1>3. doc \in [Machine -> GoodDoc \cup {NoDoc}] /\ disk = doc
  BY <1>1, <1>2 DEF Init
<1>4. GoodState
  <2>1. << >> \in Seq(GoodFrame)
    OBVIOUS
  <2> QED
    BY <1>3, <2>1 DEF Init, GoodState
<1>5. AgentState
  BY DEF Init, AgentState
<1>6. Queues
  <2>1. << >> \in Seq(Letter) /\ Len(<< >>) = 0 /\ 0 <= EventCap /\ 0 <= MailCap
    BY JoiningAssumption
  <2> QED
    BY <2>1 DEF Init, Queues
<1>7. SlotState
  BY DEF Init, SlotState, Phase
<1>8. Counts
  BY <1>1 DEF Init, Counts
<1>9. Undecided
  BY <1>1, <1>2, DocKinds DEF Undecided
<1>10. DiskOfThisWorkspace
  BY <1>3 DEF DiskOfThisWorkspace
<1> QED
  BY <1>4, <1>5, <1>6, <1>7, <1>8, <1>9, <1>10 DEF Inv

LEMMA NextKeeps == Inv /\ [Next]_vars => Inv'
<1> SUFFICES ASSUME Inv, [Next]_vars PROVE Inv'
  OBVIOUS
<1>1. CASE UNCHANGED vars
  BY <1>1 DEF vars, agent, slots, connection, history, Inv, GoodState, AgentState, Queues,
              SlotState, Counts, Undecided, DiskOfThisWorkspace
<1>2. CASE \E mp \in Pairs : Pair(mp[1], mp[2]) \/ Unpair(mp[1], mp[2])
                             \/ Network(mp[1], mp[2]) \/ Session(mp)
  <2>1. PICK mp \in Pairs : Pair(mp[1], mp[2]) \/ Unpair(mp[1], mp[2])
                            \/ Network(mp[1], mp[2]) \/ Session(mp)
    BY <1>2
  <2>2. mp[1] \in Machine /\ mp[2] \in Machine /\ Removed \in Value \cup {Removed}
    BY PairFacts
  <2> QED
    BY <2>1, <2>2, PairKeeps, UnpairKeeps, NetworkKeeps, SessionKeeps
<1>3. CASE \E m \in Machine : Actor(m) \/ Adoption(m) \/ ClearFails(m) \/ Crash(m)
                              \/ \E w \in Workspace : Restart(m, w)
  BY <1>3, ActorKeeps, OnNetEventKeeps, ForgetKeeps, ClearKeeps, ClearFailsKeeps, CrashKeeps,
     RestartKeeps DEF Adoption
<1> QED
  BY <1>1, <1>2, <1>3 DEF Next

LEMMA InvIsTyped == Inv => TypeOK
<1> SUFFICES ASSUME Inv PROVE TypeOK
  OBVIOUS
<1>1. GoodDoc \subseteq Doc
  BY DEF GoodDoc
<1>2. GoodFrame \subseteq Frame
  BY <1>1 DEF GoodFrame, Frame
<1>3. \A s \in Seq(GoodFrame) : s \in Seq(Frame)
  BY <1>2
<1>4. wire \in [Pairs -> Seq(Frame)]
  BY <1>3 DEF Inv, GoodState
<1>5. doc \in [Machine -> Doc \cup {NoDoc}] /\ disk \in [Machine -> Doc \cup {NoDoc}]
  BY <1>1 DEF Inv, GoodState
<1> QED
  BY <1>4, <1>5 DEF TypeOK, Inv, AgentState, Queues, SlotState, Counts, Undecided

\* For any number of machines, workspaces and troubles, whatever the sessions, the
\* actor and the agent do in whatever order: every variable holds what its Rust type
\* admits, mailbox and event channel stay within their bounds, and a machine that runs
\* without a document trusts somebody - on_tick, authorize and read_loop would
\* otherwise leave it alone with nobody to take one from.
THEOREM JoiningTypeCorrect == Spec => []TypeOK
<1>1. Spec => []Inv
  BY InitHolds, NextKeeps, PTL DEF Spec
<1> QED
  BY <1>1, InvIsTyped, PTL

\* For any number of machines, workspaces and troubles: unless its last save failed, the
\* workspace.json of a machine that has a document is of the workspace it is in or is not
\* there, whatever a session saved between the two halves of adopt_configuration_of and
\* whichever of them a crash or a failed removal fell into.  Saves may fail at any time
\* (Core::persist): the file that one leaves behind is excepted until the next save, or
\* removal, that succeeds.
THEOREM DiskStaysHere == Spec => []DiskOfThisWorkspace
<1>1. Spec => []Inv
  BY InitHolds, NextKeeps, PTL DEF Spec
<1>2. Inv => DiskOfThisWorkspace
  BY DEF Inv
<1> QED
  BY <1>1, <1>2, PTL

-----------------------------------------------------------------------------
(* Two machines: nobody takes over a configuration that never admitted it *)

\* The document has the record of x, or the tombstone of one.
Knows(d, x) == d.body.reg[SlotField(x)].value # Absent

\* A slot is there exactly when it was stamped: a merge takes none away.
Stamped(d) ==
  \A x \in Machine : ~Knows(d, x) <=> d.body.reg[SlotField(x)].stamp.lamport = 0

\* A machine that is off has no session and trusts nobody.
OffIsAlone ==
  \A m \in Machine : ~up[m] => /\ trust[m] = {}
                               /\ \A e \in Pairs : e[1] = m => phase[e] = "closed"

\* What a machine holds knows the machine itself, whomever it trusts and, while a
\* session is between its Identify and its document, the machine at the other end: that
\* one was authorised, and a machine with one session has nowhere to take another
\* document from meanwhile.  So what goes out as a snapshot knows both ends.
HeldKnows ==
  /\ \A m \in Machine : doc[m] # NoDoc =>
       Stamped(doc[m]) /\ Knows(doc[m], m) /\ \A x \in trust[m] : Knows(doc[m], x)
  /\ \A m \in Machine : disk[m] # NoDoc => Stamped(disk[m]) /\ Knows(disk[m], m)
  /\ \A e \in Pairs : phase[e] \in {"identified", "established"} /\ doc[e[1]] # NoDoc =>
       Knows(doc[e[1]], e[2])

SentKnows ==
  \A e \in Pairs : \A f \in Range(wire[e]) : f.kind = "DocFull" =>
    Stamped(f.doc) /\ Knows(f.doc, e[1]) /\ Knows(f.doc, e[2])

PairInv == Inv /\ OffIsAlone /\ HeldKnows /\ SentKnows

\* At most two machines.
APair == \A a, b, c \in Machine : a = b \/ b = c \/ a = c

\* What is in a queue after an append, and after its head is taken.
LEMMA RangeFacts ==
  ASSUME NEW T, NEW s \in Seq(T)
  PROVE  /\ \A x \in T : \A y \in Range(Append(s, x)) : y \in Range(s) \/ y = x
         /\ s # <<>> => /\ Head(s) \in Range(s)
                        /\ \A y \in Range(Tail(s)) : y \in Range(s)
         /\ \A y : y \notin Range(<<>>)
BY DEF Range

\* An edit gives a slot and takes none away.
LEMMA EditedKnows ==
  ASSUME NEW d \in GoodDoc, Stamped(d), NEW m \in Machine, NEW p \in Machine,
         NEW v \in Value \cup {Removed},
         NEW n, n = [d EXCEPT !.body = Edited(@, UpdateOf(@, m, SlotField(p), v))]
  PROVE  Stamped(n) /\ (\A x \in Machine : Knows(d, x) => Knows(n, x))
<1> DEFINE u == UpdateOf(d.body, m, SlotField(p), v)
           b == Edited(d.body, u)
<1>1. d \in [id : Workspace, body : WorkspaceDoc] /\ Covered(d.body)
  BY DEF GoodDoc, Doc
<1>2. \A x \in Machine : SlotField(x) \in Field
  BY DEF Field, SlotFields
<1>3. v # Absent /\ d.body.lamport \in Nat
  BY <1>1, ValueAssumption DEF WorkspaceDoc
<1>4. /\ u.stamp = [lamport |-> d.body.lamport + 1, origin |-> m]
      /\ \A g \in Field :
           b.reg[g] = IF g = SlotField(p) THEN [value |-> v, stamp |-> u.stamp] ELSE d.body.reg[g]
  BY <1>1, <1>2, EditKeeps
<1>5. n.body = b
  BY <1>1
<1> HIDE DEF u, b
<1>6. u.stamp.lamport # 0
  BY <1>3, <1>4
<1> QED
  BY <1>2, <1>3, <1>4, <1>5, <1>6 DEF Stamped, Knows

\* Neither does a merge: a slot that is not there is older than every real one.
LEMMA MergedKnows ==
  ASSUME NEW m \in Machine, doc[m] \in GoodDoc, Stamped(doc[m]),
         NEW o \in GoodDoc, Stamped(o)
  PROVE  /\ Stamped(Merged(m, o))
         /\ \A x \in Machine : Knows(doc[m], x) => Knows(Merged(m, o), x)
<1> DEFINE b == Merge(doc[m].body, o.body)
<1>1. doc[m] \in [id : Workspace, body : WorkspaceDoc] /\ o.body \in WorkspaceDoc
  BY DEF GoodDoc, Doc
<1>2. \A x \in Machine : SlotField(x) \in Field
  BY DEF Field, SlotFields
<1>3. \A f \in Field : /\ doc[m].body.reg[f] \in Lww /\ o.body.reg[f] \in Lww
                       /\ b.reg[f] = MergeField(f, doc[m].body.reg[f], o.body.reg[f])
  BY <1>1 DEF WorkspaceDoc, Merge
<1>4. doc[m] # NoDoc
  BY DocKinds
<1> HIDE DEF b
<1>5. Merged(m, o).body = b
  BY <1>1, <1>4 DEF Merged, b
<1>6. ASSUME NEW x \in Machine
      PROVE  /\ ~Knows(Merged(m, o), x) <=>
                  Merged(m, o).body.reg[SlotField(x)].stamp.lamport = 0
             /\ Knows(doc[m], x) => Knows(Merged(m, o), x)
  <2> DEFINE a == doc[m].body.reg[SlotField(x)]
             c == o.body.reg[SlotField(x)]
             r == Merged(m, o).body.reg[SlotField(x)]
  <2>1. a \in Lww /\ c \in Lww /\ r = MergeField(SlotField(x), a, c)
    BY <1>2, <1>3, <1>5
  <2>2. /\ a.value = Absent <=> a.stamp.lamport = 0
        /\ c.value = Absent <=> c.stamp.lamport = 0
    BY DEF Stamped, Knows
  <2>3. a.stamp.lamport \in Nat /\ c.stamp.lamport \in Nat
    BY <2>1 DEF Lww, Stamp
  <2> HIDE DEF a, c, r
  <2>4. r \in {a, c} /\ ~Older(r.stamp, a.stamp)
    BY <1>2, <2>1, MergeFieldType
  <2>5. a.stamp.lamport # 0 => r.stamp.lamport # 0
    BY <2>3, <2>4 DEF Older
  <2>6. /\ r.value = Absent <=> r.stamp.lamport = 0
        /\ a.value # Absent => r.value # Absent
    BY <2>2, <2>4, <2>5
  <2> QED
    BY <2>6 DEF a, r, Knows
<1> QED
  BY <1>6 DEF Stamped

\* A configuration of one's own knows its founder.
LEMMA NewDocKnows ==
  ASSUME NEW m \in Machine, NEW w
  PROVE  Stamped(NewDoc(m, w)) /\ Knows(NewDoc(m, w), m)
<1> DEFINE first == [value |-> Record, stamp |-> [lamport |-> 1, origin |-> m]]
<1>1. Record \in Value /\ Record # Absent
  BY ValueAssumption DEF Record
<1>2. \A x \in Machine : /\ SlotField(x) \in Field
                         /\ SlotField(x) # NameField /\ SlotField(x) # SettingsField
                         /\ SlotField(x) = SlotField(m) <=> x = m
  BY DEF Field, SlotFields, SlotField, NameField, SettingsField
<1>3. NewDoc(m, w).body.reg = [f \in Field |->
        IF f = NameField \/ f = SettingsField \/ f = SlotField(m) THEN first ELSE NoSlot]
  BY DEF NewDoc, Create
<1>4. /\ first.value = Record /\ first.stamp.lamport = 1
      /\ NoSlot.value = Absent /\ NoSlot.stamp.lamport = 0
  BY DEF NoSlot
<1> HIDE DEF first
<1>5. \A x \in Machine :
        NewDoc(m, w).body.reg[SlotField(x)] = IF x = m THEN first ELSE NoSlot
  BY <1>2, <1>3
<1> QED
  BY <1>1, <1>4, <1>5 DEF Stamped, Knows

-----------------------------------------------------------------------------
(* What a step may put where *)

\* Only a session that identified itself sends a document, and the one it holds.
SendsHeld ==
  \A e \in Pairs : \A f \in Range(wire'[e]) :
    \/ f \in Range(wire[e]) \/ f.kind # "DocFull"
    \/ f = DocFull(doc[e[1]]) /\ doc[e[1]] # NoDoc /\ phase[e] = "established"

\* Only an authorised session goes on to identify itself, on a machine that runs.
GoesOn ==
  \A e \in Pairs :
    /\ phase'[e] \in {"identified", "established"} =>
         \/ phase[e] \in {"identified", "established"}
         \/ Authorize(e[1], e[2])
    /\ phase'[e] # "closed" => phase[e] # "closed" \/ up'[e[1]]

\* The document a machine holds after the step is the one it had, with more in it ...
Grown(m) ==
  /\ doc[m] # NoDoc /\ Stamped(doc'[m])
  /\ \A x \in Machine : Knows(doc[m], x) => Knows(doc'[m], x)
  /\ trust'[m] \subseteq trust[m]

\* ... or a new one that knows whom it must.
Fresh(m) ==
  /\ Stamped(doc'[m]) /\ Knows(doc'[m], m)
  /\ \A x \in trust'[m] : Knows(doc'[m], x)
  /\ \A e \in Pairs : e[1] = m /\ phase'[e] \in {"identified", "established"} =>
       Knows(doc'[m], e[2])

\* Such a step keeps what the documents know.
LEMMA StepKnows ==
  ASSUME PairInv, OffIsAlone', SendsHeld, GoesOn,
         \A m \in Machine : doc'[m] # NoDoc => Grown(m) \/ Fresh(m),
         \A m \in Machine : disk'[m] # NoDoc => Stamped(disk'[m]) /\ Knows(disk'[m], m)
  PROVE  (OffIsAlone /\ HeldKnows /\ SentKnows)'
<1>1. HeldKnows /\ SentKnows /\ AgentState
  BY DEF PairInv, Inv
<1>2. \A e \in Pairs : e[1] \in Machine /\ e[2] \in Machine
  BY PairFacts
<1>3. ASSUME NEW m \in Machine, doc'[m] # NoDoc
      PROVE  /\ Stamped(doc'[m]) /\ Knows(doc'[m], m)
             /\ \A x \in trust'[m] : Knows(doc'[m], x)
  <2>1. CASE Grown(m)
    BY <1>1, <2>1 DEF Grown, HeldKnows, AgentState
  <2>2. CASE Fresh(m)
    BY <2>2 DEF Fresh
  <2> QED
    BY <1>3, <2>1, <2>2
<1>4. ASSUME NEW e \in Pairs, phase'[e] \in {"identified", "established"}, doc'[e[1]] # NoDoc
      PROVE  Knows(doc'[e[1]], e[2])
  <2>1. CASE Grown(e[1])
    <3>1. Knows(doc[e[1]], e[2])
      <4>1. doc[e[1]] # NoDoc
        BY <2>1 DEF Grown
      <4>2. CASE phase[e] \in {"identified", "established"}
        BY <1>1, <4>1, <4>2 DEF HeldKnows
      <4>3. CASE Has(doc[e[1]], e[2])
        BY <4>3, ValueAssumption DEF Has, IsMember, Knows
      <4>4. CASE e[2] \in trust[e[1]]
        BY <1>1, <1>2, <4>1, <4>4 DEF HeldKnows
      <4> QED
        BY <1>4, <4>2, <4>3, <4>4 DEF GoesOn, Authorize
    <3> QED
      BY <1>2, <2>1, <3>1 DEF Grown
  <2>2. CASE Fresh(e[1])
    BY <1>4, <2>2 DEF Fresh
  <2> QED
    BY <1>2, <1>4, <2>1, <2>2
<1>5. HeldKnows'
  BY <1>3, <1>4 DEF HeldKnows
<1>6. ASSUME NEW e \in Pairs, NEW f \in Range(wire'[e]), f.kind = "DocFull"
      PROVE  Stamped(f.doc) /\ Knows(f.doc, e[1]) /\ Knows(f.doc, e[2])
  <2>1. CASE f \in Range(wire[e])
    BY <1>1, <1>6, <2>1 DEF SentKnows
  <2>2. CASE f = DocFull(doc[e[1]]) /\ doc[e[1]] # NoDoc /\ phase[e] = "established"
    <3>1. f.doc = doc[e[1]]
      BY <2>2 DEF DocFull
    <3> QED
      BY <1>1, <1>2, <2>2, <3>1 DEF HeldKnows
  <2> QED
    BY <1>6, <2>1, <2>2 DEF SendsHeld
<1>7. SentKnows'
  BY <1>6 DEF SentKnows
<1> QED
  BY <1>5, <1>7

\* What the memory holds needs no more when it is left alone.
LEMMA SameGrown ==
  ASSUME PairInv, NEW m \in Machine, doc'[m] = doc[m], trust'[m] \subseteq trust[m],
         doc'[m] # NoDoc
  PROVE  Grown(m)
BY DEF Grown, PairInv, HeldKnows

\* A step of the network, the actor or a session that reads no document.
LEMMA QuietKnows ==
  ASSUME PairInv, UNCHANGED <<up, doc, disk, trust>>, SendsHeld, GoesOn
  PROVE  (OffIsAlone /\ HeldKnows /\ SentKnows)'
<1>1. OffIsAlone'
  BY DEF PairInv, OffIsAlone, GoesOn
<1>2. \A m \in Machine : doc'[m] # NoDoc => Grown(m) \/ Fresh(m)
  BY SameGrown
<1>3. \A m \in Machine : disk'[m] # NoDoc => Stamped(disk'[m]) /\ Knows(disk'[m], m)
  BY DEF PairInv, HeldKnows
<1> QED
  BY <1>1, <1>2, <1>3, StepKnows

\* A step that leaves the connections alone.
LEMMA NoFrames ==
  UNCHANGED <<phase, wire>> => SendsHeld /\ GoesOn
BY DEF SendsHeld, GoesOn

\* A step at one end of a connection: a frame that is no document, or the one it holds.
LEMMA WritesHeld ==
  ASSUME Inv, NEW e \in Pairs, NEW f \in GoodFrame,
         f.kind # "DocFull" \/ (f = DocFull(doc[e[1]]) /\ doc[e[1]] # NoDoc
                                /\ phase[e] = "established"),
         NEW taken, \A d \in Pairs : taken[d] \in Seq(GoodFrame)
                                     /\ Range(taken[d]) \subseteq Range(wire[d]),
         taken \in [Pairs -> Seq(GoodFrame)],
         wire' = [taken EXCEPT ![e] = Append(@, f)]
  PROVE  SendsHeld
<1>1. \A y \in Range(Append(taken[e], f)) : y \in Range(taken[e]) \/ y = f
  BY RangeFacts
<1>2. \A d \in Pairs : wire'[d] = IF d = e THEN Append(taken[e], f) ELSE taken[d]
  OBVIOUS
<1> QED
  BY <1>1, <1>2 DEF SendsHeld

\* Taking a frame off a connection leaves what was there.
LEMMA TakenFacts ==
  ASSUME Inv, NEW e \in Pairs, wire[Other(e)] # <<>>,
         NEW taken, taken = [wire EXCEPT ![Other(e)] = Tail(@)]
  PROVE  /\ taken \in [Pairs -> Seq(GoodFrame)]
         /\ \A d \in Pairs : Range(taken[d]) \subseteq Range(wire[d])
         /\ Head(wire[Other(e)]) \in Range(wire[Other(e)])
<1>1. Other(e) \in Pairs /\ wire[Other(e)] \in Seq(GoodFrame)
  BY PairFacts DEF Inv, GoodState
<1>2. /\ \A y \in Range(Tail(wire[Other(e)])) : y \in Range(wire[Other(e)])
      /\ Head(wire[Other(e)]) \in Range(wire[Other(e)])
  BY <1>1, RangeFacts
<1>3. taken \in [Pairs -> Seq(GoodFrame)]
  BY ReadKeeps
<1>4. \A d \in Pairs : taken[d] = IF d = Other(e) THEN Tail(wire[Other(e)]) ELSE wire[d]
  BY <1>1 DEF Inv, GoodState
<1> QED
  BY <1>2, <1>3, <1>4

\* An end that is over writes that it is, and no document.
LEMMA LeavesQuiet ==
  ASSUME Inv, NEW e \in Pairs, Leaves(e)
  PROVE  SendsHeld /\ GoesOn
<1>1. /\ phase' = [phase EXCEPT ![e] = "closed"]
      /\ wire' = [wire EXCEPT ![e] = Append(@, Bye)]
  BY DEF Leaves
<1>2. Bye \in GoodFrame /\ Bye.kind # "DocFull"
  BY Frames DEF Bye
<1>3. wire \in [Pairs -> Seq(GoodFrame)] /\ phase \in [Pairs -> Phase]
  BY DEF Inv, GoodState, SlotState
<1>4. SendsHeld
  BY <1>1, <1>2, <1>3, WritesHeld
<1>5. GoesOn
  BY <1>1, <1>3 DEF GoesOn
<1> QED
  BY <1>4, <1>5

LEMMA NetworkKnows ==
  ASSUME PairInv, NEW mp \in Pairs, Network(mp[1], mp[2])
  PROVE  (OffIsAlone /\ HeldKnows /\ SentKnows)'
<1> DEFINE m == mp[1]
           p == mp[2]
<1>1. wire \in [Pairs -> Seq(GoodFrame)] /\ phase \in [Pairs -> Phase]
  BY DEF PairInv, Inv, GoodState, SlotState
<1>2. CASE OnSighting(m, p) \/ Expire(m, p) \/ DialFails(m, p)
  <2>1. UNCHANGED <<phase, wire>> /\ UNCHANGED <<up, doc, disk, trust>>
    BY <1>2 DEF OnSighting, Expire, DialFails, connection, agent
  <2> QED
    BY <2>1, NoFrames, QuietKnows
<1>3. CASE Dial(m, p)
  <2>1. /\ UNCHANGED <<up, doc, disk, trust>> /\ up[m] /\ up[p]
        /\ phase' = [phase EXCEPT ![<<m, p>>] = "hello", ![<<p, m>>] = "hello"]
        /\ wire' = [wire EXCEPT ![<<m, p>>] = <<>>, ![<<p, m>>] = <<>>]
    BY <1>3 DEF Dial, Dials, agent
  <2>2. \A e \in Pairs : wire'[e] = <<>> \/ wire'[e] = wire[e]
    BY <1>1, <2>1
  <2>3. \A y : y \notin Range(<<>>)
    BY DEF Range
  <2>4. SendsHeld
    BY <2>2, <2>3 DEF SendsHeld
  <2> DEFINE a == <<m, p>>
             b == <<p, m>>
  <2>5. a[1] = m /\ b[1] = p
    OBVIOUS
  <2>6. phase' = [phase EXCEPT ![a] = "hello", ![b] = "hello"]
    BY <2>1
  <2> HIDE DEF a, b, m, p
  <2>7. \A e \in Pairs : phase'[e] = phase[e] \/ (phase'[e] = "hello" /\ up[e[1]])
    BY <1>1, <2>1, <2>5, <2>6
  <2>8. GoesOn
    BY <2>1, <2>7 DEF GoesOn
  <2> QED
    BY <2>1, <2>4, <2>8, QuietKnows
<1>4. CASE Break(m, p)
  <2>1. /\ UNCHANGED <<up, doc, disk, trust, phase>>
        /\ \A e \in Pairs : wire'[e] \in {<<Bye>>, wire[e]}
    BY <1>4 DEF Break, agent
  <2>2. \A y \in Range(<<Bye>>) : y.kind # "DocFull"
    BY DEF Range, Bye
  <2>3. SendsHeld
    BY <2>1, <2>2 DEF SendsHeld
  <2>4. GoesOn
    BY <2>1 DEF GoesOn
  <2> QED
    BY <2>1, <2>3, <2>4, QuietKnows
<1> QED
  BY <1>2, <1>3, <1>4 DEF Network

\* The steps of a session but the reading of a document.
LEMMA SessionKnows ==
  ASSUME PairInv, NEW e \in Pairs, Session(e), ~ReadDoc(e)
  PROVE  (OffIsAlone /\ HeldKnows /\ SentKnows)'
<1>1. Inv /\ wire \in [Pairs -> Seq(GoodFrame)] /\ phase \in [Pairs -> Phase]
  BY DEF PairInv, Inv, GoodState, SlotState
<1>2. UNCHANGED <<up, doc, disk, trust>>
  BY DEF Session, Authorise, Identified, NotIdentified, SendDoc, SendFails, ReadEnd, agent
<1>3. CASE Leaves(e)
  BY <1>1, <1>2, <1>3, LeavesQuiet, QuietKnows
<1>4. CASE Authorise(e) /\ ~Leaves(e)
  <2> DEFINE f == Identify(doc[e[1]].id, Size(doc[e[1]]))
  <2>1. /\ Authorize(e[1], e[2])
        /\ phase' = [phase EXCEPT ![e] = "identified"]
        /\ wire' = [wire EXCEPT ![e] = Append(@, f)]
        /\ phase[e] = "hello"
    BY <1>4 DEF Authorise
  <2>2. doc[e[1]].id \in Workspace \cup {None}
    BY <1>1, PairFacts, DocKinds DEF Inv, GoodState
  <2>3. f \in GoodFrame /\ f.kind # "DocFull"
    BY <2>2, Frames, SizeIsNat DEF Identify
  <2> HIDE DEF f
  <2>4. SendsHeld
    BY <1>1, <2>1, <2>3, WritesHeld
  <2>5. GoesOn
    BY <1>1, <2>1 DEF GoesOn
  <2> QED
    BY <1>2, <2>4, <2>5, QuietKnows
<1>5. CASE Identified(e)
  <2> DEFINE taken == [wire EXCEPT ![Other(e)] = Tail(@)]
  <2>1. /\ wire[Other(e)] # <<>> /\ phase[e] = "identified"
        /\ \/ phase' = [phase EXCEPT ![e] = "closed"]
              /\ wire' = [taken EXCEPT ![e] = Append(@, Bye)]
           \/ phase' = [phase EXCEPT ![e] = "established"] /\ wire' = taken
    BY <1>5 DEF Identified
  <2>2. /\ taken \in [Pairs -> Seq(GoodFrame)]
        /\ \A d \in Pairs : Range(taken[d]) \subseteq Range(wire[d])
    BY <1>1, <2>1, TakenFacts
  <2> HIDE DEF taken
  <2>3. Bye \in GoodFrame /\ Bye.kind # "DocFull"
    BY Frames DEF Bye
  <2>4. SendsHeld
    <3>1. CASE wire' = taken
      BY <2>2, <3>1 DEF SendsHeld
    <3>2. CASE wire' = [taken EXCEPT ![e] = Append(@, Bye)]
      BY <1>1, <2>2, <2>3, <3>2, WritesHeld
    <3> QED
      BY <2>1, <3>1, <3>2
  <2>5. GoesOn
    BY <1>1, <2>1 DEF GoesOn
  <2> QED
    BY <1>2, <2>4, <2>5, QuietKnows
<1>6. CASE SendDoc(e)
  <2>1. /\ phase[e] = "established" /\ phase' = [phase EXCEPT ![e] = "live"]
        /\ wire' = [wire EXCEPT ![e] = IF doc[e[1]] = NoDoc THEN @
                                       ELSE Append(@, DocFull(doc[e[1]]))]
    BY <1>6 DEF SendDoc
  <2>2. GoesOn
    BY <1>1, <2>1 DEF GoesOn
  <2>3. SendsHeld
    <3>1. CASE doc[e[1]] = NoDoc
      BY <1>1, <2>1, <3>1 DEF SendsHeld
    <3>2. CASE doc[e[1]] # NoDoc
      <4>1. DocFull(doc[e[1]]) \in GoodFrame
        BY <1>1, <3>2, PairFacts, Frames DEF Inv, GoodState
      <4>2. wire' = [wire EXCEPT ![e] = Append(@, DocFull(doc[e[1]]))]
        BY <2>1, <3>2
      <4> QED
        BY <1>1, <2>1, <3>2, <4>1, <4>2, WritesHeld
    <3> QED
      BY <3>1, <3>2
  <2> QED
    BY <1>2, <2>2, <2>3, QuietKnows
<1> QED
  BY <1>3, <1>4, <1>5, <1>6 DEF Session, NotIdentified, SendFails, Fails, ReadEnd, Ends

\* An edit of the document in memory and on the disk.
LEMMA EditKnows ==
  ASSUME PairInv, NEW m \in Machine, NEW p \in Machine, NEW v \in Value \cup {Removed},
         Mutate(m, p, v), UNCHANGED <<up, trust, phase, wire>>
  PROVE  (OffIsAlone /\ HeldKnows /\ SentKnows)'
<1> DEFINE d == [doc[m] EXCEPT !.body = Edited(@, UpdateOf(@, m, SlotField(p), v))]
<1>1. Inv /\ HeldKnows /\ OffIsAlone
  BY DEF PairInv
<1>2. doc[m] \in GoodDoc /\ doc[m] # NoDoc /\ Stamped(doc[m]) /\ Knows(doc[m], m)
  BY <1>1, DocKinds DEF Mutate, Inv, GoodState, HeldKnows
<1>3. Stamped(d) /\ (\A x \in Machine : Knows(doc[m], x) => Knows(d, x))
  BY <1>2, EditedKnows
<1>4. doc' = [doc EXCEPT ![m] = d] /\ Persist(m, d) /\ d \in GoodDoc
  BY <1>2, EditedIsGood DEF Mutate
<1> HIDE DEF d
<1>5. /\ doc'[m] = d /\ disk'[m] \in {d, disk[m]}
      /\ \A k \in Machine \ {m} : doc'[k] = doc[k] /\ disk'[k] = disk[k]
  BY <1>1, <1>4, PersistKeeps DEF Inv, GoodState
<1>6. ASSUME NEW k \in Machine, doc'[k] # NoDoc PROVE Grown(k)
  <2>1. CASE k = m
    BY <1>2, <1>3, <1>5, <2>1 DEF Grown
  <2>2. CASE k # m
    BY <1>5, <1>6, <2>2, SameGrown
  <2> QED
    BY <2>1, <2>2
<1>7. \A k \in Machine : disk'[k] # NoDoc => Stamped(disk'[k]) /\ Knows(disk'[k], k)
  BY <1>1, <1>2, <1>3, <1>5 DEF HeldKnows
<1>8. OffIsAlone'
  BY <1>1 DEF OffIsAlone
<1> QED
  BY <1>6, <1>7, <1>8, NoFrames, StepKnows

\* People: a candidate that is let into a document gets a record, and an unpaired machine
\* leaves a tombstone.
LEMMA PeopleKnow ==
  ASSUME PairInv, NEW mp \in Pairs, Pair(mp[1], mp[2]) \/ Unpair(mp[1], mp[2])
  PROVE  (OffIsAlone /\ HeldKnows /\ SentKnows)'
<1> DEFINE m == mp[1]
           p == mp[2]
<1>1. m \in Machine /\ p \in Machine
  BY PairFacts
<1>2. Record \in Value \cup {Removed} /\ Removed \in Value \cup {Removed}
  BY ValueAssumption DEF Record
<1>3. UNCHANGED <<up, phase, wire>>
  BY DEF Pair, Unpair, connection
<1>4. CASE Unpair(m, p)
  BY <1>1, <1>2, <1>3, <1>4, EditKnows DEF Unpair
<1>5. CASE Pair(m, p) /\ doc[m] # NoDoc
  BY <1>1, <1>2, <1>3, <1>5, EditKnows DEF Pair
<1>6. CASE Pair(m, p) /\ doc[m] = NoDoc
  <2>1. UNCHANGED <<doc, disk>> /\ trust' = [trust EXCEPT ![m] = trust[m] \cup {p}] /\ up[m]
    BY <1>6 DEF Pair
  <2> HIDE DEF m, p
  <2>2. AgentState /\ HeldKnows /\ OffIsAlone
    BY DEF PairInv, Inv
  <2>3. \A k \in Machine : doc'[k] # NoDoc => k # m /\ trust'[k] = trust[k]
    BY <1>1, <1>6, <2>1, <2>2 DEF AgentState
  <2>4. \A k \in Machine : doc'[k] # NoDoc => Grown(k)
    BY <2>1, <2>3, SameGrown
  <2>5. \A k \in Machine : disk'[k] # NoDoc => Stamped(disk'[k]) /\ Knows(disk'[k], k)
    BY <2>1, <2>2 DEF HeldKnows
  <2>6. OffIsAlone'
    <3>1. \A k \in Machine : ~up[k] => trust'[k] = trust[k]
      BY <1>1, <2>1, <2>2 DEF AgentState
    <3> QED
      BY <1>3, <2>2, <3>1 DEF OffIsAlone
  <2> QED
    BY <1>3, <2>4, <2>5, <2>6, NoFrames, StepKnows
<1> QED
  BY <1>4, <1>5, <1>6

\* Of a pair, the machine that reads a document is at the end of every connection there
\* is, and the document knows both.
LEMMA ReadDocKnows ==
  ASSUME APair, PairInv, NEW e \in Pairs, ReadDoc(e)
  PROVE  (OffIsAlone /\ HeldKnows /\ SentKnows)'
<1> DEFINE m == e[1]
           o == Head(wire[Other(e)]).doc
           d == Merged(m, o)
           changed == doc[m] = NoDoc \/ d.body.reg # doc[m].body.reg
           taken == [wire EXCEPT ![Other(e)] = Tail(@)]
<1>0. Inv /\ HeldKnows /\ SentKnows /\ OffIsAlone
  BY DEF PairInv
<1>1. /\ m \in Machine /\ e[2] \in Machine /\ m # e[2] /\ o \in GoodDoc
      /\ Other(e) \in Pairs /\ Other(e)[1] = e[2] /\ Other(e)[2] = m
      /\ wire[Other(e)] # <<>> /\ Head(wire[Other(e)]).kind = "DocFull"
  BY <1>0, PairFacts, ReadKeeps, Frames DEF ReadDoc, Pairs, Other
<1>2. /\ doc' = [doc EXCEPT ![m] = d]
      /\ changed => Persist(m, d) /\ trust' = [trust EXCEPT ![m] = {x \in @ : ~Has(d, x)}]
      /\ ~changed => UNCHANGED <<disk, trust>>
      /\ wire' = taken
      /\ UNCHANGED <<up, phase>> /\ phase[e] = "live"
  BY DEF ReadDoc
<1>3. /\ \A c \in Pairs : Range(taken[c]) \subseteq Range(wire[c])
      /\ Head(wire[Other(e)]) \in Range(wire[Other(e)])
  BY <1>0, <1>1, TakenFacts
<1>4. Stamped(o) /\ Knows(o, m) /\ Knows(o, e[2])
  BY <1>0, <1>1, <1>3 DEF SentKnows
<1> HIDE DEF taken
<1>5. SendsHeld /\ GoesOn
  BY <1>2, <1>3 DEF SendsHeld, GoesOn
<1>6. \A x \in Machine : x = m \/ x = e[2]
  BY <1>1 DEF APair
<1>7. doc[m] \in GoodDoc \cup {NoDoc}
  BY <1>0, <1>1 DEF Inv, GoodState
<1>8. /\ Stamped(d) /\ Knows(d, m)
      /\ doc[m] # NoDoc => \A x \in Machine : Knows(doc[m], x) => Knows(d, x)
      /\ doc[m] = NoDoc => \A x \in Machine : Knows(d, x)
  <2>1. CASE doc[m] = NoDoc
    <3>1. d = o
      BY <2>1 DEF Merged
    <3> QED
      BY <1>4, <1>6, <2>1, <3>1
  <2>2. CASE doc[m] # NoDoc
    <3>1. doc[m] \in GoodDoc /\ Stamped(doc[m]) /\ Knows(doc[m], m)
      BY <1>0, <1>1, <1>7, <2>2 DEF HeldKnows
    <3> QED
      BY <1>1, <1>4, <2>2, <3>1, MergedKnows
  <2> QED
    BY <2>1, <2>2
<1>9. d \in GoodDoc
  BY <1>1, <1>7, MergedIsGood
<1> HIDE DEF d, o, changed
<1>10. /\ doc'[m] = d /\ disk'[m] \in {d, disk[m]}
       /\ trust'[m] \subseteq trust[m] /\ trust[m] \subseteq Machine
       /\ \A k \in Machine \ {m} : doc'[k] = doc[k] /\ disk'[k] = disk[k] /\ trust'[k] = trust[k]
  <2>1. /\ doc'[m] = d /\ trust[m] \subseteq Machine
        /\ \A k \in Machine \ {m} : doc'[k] = doc[k]
    BY <1>0, <1>1, <1>2 DEF Inv, GoodState, AgentState
  <2>2. CASE changed
    <3>1. disk'[m] \in {d, disk[m]} /\ \A k \in Machine \ {m} : disk'[k] = disk[k]
      BY <1>0, <1>1, <1>2, <1>9, <2>2, PersistKeeps
    <3>2. trust'[m] \subseteq trust[m] /\ \A k \in Machine \ {m} : trust'[k] = trust[k]
      BY <1>0, <1>1, <1>2, <2>2 DEF Inv, AgentState
    <3> QED
      BY <2>1, <3>1, <3>2
  <2>3. CASE ~changed
    BY <1>2, <2>1, <2>3
  <2> QED
    BY <2>2, <2>3
<1>11. ASSUME NEW k \in Machine, doc'[k] # NoDoc PROVE Grown(k) \/ Fresh(k)
  <2>1. CASE k # m
    BY <1>0, <1>10, <1>11, <2>1, SameGrown
  <2>2. CASE k = m /\ doc[m] # NoDoc
    BY <1>8, <1>10, <2>2 DEF Grown
  <2>3. CASE k = m /\ doc[m] = NoDoc
    <3>1. \A c \in Pairs : c[2] \in Machine
      BY PairFacts
    <3> QED
      BY <1>1, <1>8, <1>10, <2>3, <3>1 DEF Fresh
  <2> QED
    BY <2>1, <2>2, <2>3
<1>12. \A k \in Machine : disk'[k] # NoDoc => Stamped(disk'[k]) /\ Knows(disk'[k], k)
  BY <1>0, <1>8, <1>10 DEF HeldKnows
<1>13. OffIsAlone'
  <2>1. \A k \in Machine : trust'[k] \subseteq trust[k]
    BY <1>10
  <2> QED
    BY <1>0, <1>2, <2>1 DEF OffIsAlone
<1> QED
  BY <1>5, <1>11, <1>12, <1>13, StepKnows

\* The agent: what is given up is no longer held.
LEMMA AgentKnows ==
  ASSUME PairInv, NEW m \in Machine, Actor(m) \/ Adoption(m) \/ ClearFails(m)
  PROVE  (OffIsAlone /\ HeldKnows /\ SentKnows)'
<1>1. /\ AgentState /\ HeldKnows /\ OffIsAlone
      /\ doc \in [Machine -> GoodDoc \cup {NoDoc}] /\ disk \in [Machine -> GoodDoc \cup {NoDoc}]
  BY DEF PairInv, Inv, GoodState
<1>2. UNCHANGED <<up, phase, wire>>
  BY DEF Actor, OnEstablished, OnClosed, OnRejected, OnDifferent, Adoption, OnNetEvent, Forget,
         Clear, ClearFails, connection
<1>3. CASE Forget(m)
  <2>1. /\ up[m] /\ doc' = [doc EXCEPT ![m] = NoDoc] /\ UNCHANGED disk
        /\ trust' = [trust EXCEPT ![m] = @ \cup {adopting[m].peer}]
    BY <1>3 DEF Forget
  <2>2. \A k \in Machine : doc'[k] = NoDoc \/ (k # m /\ doc'[k] = doc[k] /\ trust'[k] = trust[k])
    BY <1>1, <2>1 DEF AgentState
  <2>3. \A k \in Machine : doc'[k] # NoDoc => Grown(k)
    BY <2>2, SameGrown
  <2>4. \A k \in Machine : ~up[k] => trust'[k] = trust[k]
    BY <1>1, <2>1 DEF AgentState
  <2>5. OffIsAlone'
    BY <1>1, <1>2, <2>4 DEF OffIsAlone
  <2>6. \A k \in Machine : disk'[k] # NoDoc => Stamped(disk'[k]) /\ Knows(disk'[k], k)
    BY <1>1, <2>1 DEF HeldKnows
  <2> QED
    BY <1>2, <2>3, <2>5, <2>6, NoFrames, StepKnows
<1>4. CASE ~Forget(m)
  <2>1. UNCHANGED <<doc, trust>> /\ (UNCHANGED disk \/ disk' = [disk EXCEPT ![m] = NoDoc])
    BY <1>4 DEF Actor, OnEstablished, OnClosed, OnRejected, OnDifferent, Adoption, OnNetEvent,
                Clear, ClearFails, agent
  <2>2. \A k \in Machine : doc'[k] # NoDoc => Grown(k)
    BY <2>1, SameGrown
  <2>3. \A k \in Machine : disk'[k] # NoDoc => Stamped(disk'[k]) /\ Knows(disk'[k], k)
    BY <1>1, <2>1 DEF HeldKnows
  <2>4. OffIsAlone'
    BY <1>1, <1>2, <2>1 DEF OffIsAlone
  <2> QED
    BY <1>2, <2>2, <2>3, <2>4, NoFrames, StepKnows
<1> QED
  BY <1>3, <1>4

\* A crash leaves the file, and a restart takes it, or a configuration of its own.
LEMMA CrashKnows ==
  ASSUME PairInv, NEW m \in Machine, Crash(m)
  PROVE  (OffIsAlone /\ HeldKnows /\ SentKnows)'
<1>1. /\ AgentState /\ HeldKnows /\ OffIsAlone
      /\ doc \in [Machine -> GoodDoc \cup {NoDoc}] /\ wire \in [Pairs -> Seq(GoodFrame)]
      /\ phase \in [Pairs -> Phase]
  BY DEF PairInv, Inv, GoodState, SlotState
<1>2. /\ up' = [up EXCEPT ![m] = FALSE] /\ doc' = [doc EXCEPT ![m] = NoDoc]
      /\ trust' = [trust EXCEPT ![m] = {}] /\ UNCHANGED disk
      /\ phase' = [e \in Pairs |-> IF e \in {x \in Pairs : x[1] = m} THEN "closed" ELSE phase[e]]
      /\ wire' = [e \in Pairs |-> IF e \in {x \in Pairs : x[1] = m} /\ phase[e] # "closed"
                                  THEN Append(wire[e], Bye) ELSE wire[e]]
  BY DEF Crash
<1>3. \A e \in Pairs : phase'[e] = IF e[1] = m THEN "closed" ELSE phase[e]
  BY <1>2
<1>4. \A e \in Pairs : wire'[e] \in {wire[e], Append(wire[e], Bye)}
  BY <1>2
<1>5. SendsHeld
  <2>1. Bye \in GoodFrame /\ Bye.kind # "DocFull"
    BY Frames DEF Bye
  <2>2. \A e \in Pairs : \A y \in Range(Append(wire[e], Bye)) : y \in Range(wire[e]) \/ y = Bye
    BY <1>1, <2>1, RangeFacts
  <2> QED
    BY <1>4, <2>1, <2>2 DEF SendsHeld
<1>6. GoesOn
  BY <1>3 DEF GoesOn
<1>7. \A k \in Machine : doc'[k] = NoDoc \/ (doc'[k] = doc[k] /\ trust'[k] = trust[k])
  BY <1>1, <1>2 DEF AgentState
<1>8. \A k \in Machine : doc'[k] # NoDoc => Grown(k)
  BY <1>7, SameGrown
<1>9. \A k \in Machine : IF k = m THEN ~up'[k] /\ trust'[k] = {}
                         ELSE up'[k] = up[k] /\ trust'[k] = trust[k]
  BY <1>1, <1>2 DEF AgentState
<1>10. OffIsAlone'
  BY <1>1, <1>3, <1>9 DEF OffIsAlone
<1>11. \A k \in Machine : disk'[k] # NoDoc => Stamped(disk'[k]) /\ Knows(disk'[k], k)
  BY <1>1, <1>2 DEF HeldKnows
<1> QED
  BY <1>5, <1>6, <1>8, <1>10, <1>11, StepKnows

LEMMA RestartKnows ==
  ASSUME PairInv, NEW m \in Machine, NEW w \in Workspace, Restart(m, w)
  PROVE  (OffIsAlone /\ HeldKnows /\ SentKnows)'
<1>1. /\ AgentState /\ HeldKnows /\ OffIsAlone
      /\ doc \in [Machine -> GoodDoc \cup {NoDoc}] /\ disk \in [Machine -> GoodDoc \cup {NoDoc}]
  BY DEF PairInv, Inv, GoodState
<1>2. /\ ~up[m] /\ up' = [up EXCEPT ![m] = TRUE]
      /\ UNCHANGED <<trust, phase, wire>>
  BY DEF Restart, connection
<1>3. /\ doc'[m] = disk'[m] /\ Stamped(doc'[m]) /\ Knows(doc'[m], m)
      /\ \A k \in Machine \ {m} : doc'[k] = doc[k] /\ disk'[k] = disk[k]
  <2>1. CASE disk[m] # NoDoc
    BY <1>1, <2>1 DEF Restart, HeldKnows
  <2>2. CASE disk[m] = NoDoc
    <3> DEFINE n == NewDoc(m, w)
    <3>1. doc' = [doc EXCEPT ![m] = n] /\ disk' = [disk EXCEPT ![m] = n]
      BY <2>2 DEF Restart
    <3>2. Stamped(n) /\ Knows(n, m)
      BY NewDocKnows
    <3> HIDE DEF n
    <3> QED
      BY <1>1, <3>1, <3>2
  <2> QED
    BY <2>1, <2>2
<1>4. ASSUME NEW k \in Machine, doc'[k] # NoDoc PROVE Grown(k) \/ Fresh(k)
  <2>1. CASE k # m
    BY <1>2, <1>3, <1>4, <2>1, SameGrown
  <2>2. CASE k = m
    <3>1. trust'[m] = {} /\ \A e \in Pairs : e[1] = m => phase'[e] = "closed"
      BY <1>1, <1>2 DEF OffIsAlone
    <3> QED
      BY <1>3, <2>2, <3>1 DEF Fresh
  <2> QED
    BY <2>1, <2>2
<1>5. \A k \in Machine : disk'[k] # NoDoc => Stamped(disk'[k]) /\ Knows(disk'[k], k)
  BY <1>1, <1>3 DEF HeldKnows
<1>6. OffIsAlone'
  <2>1. \A k \in Machine : ~up'[k] => ~up[k]
    BY <1>1, <1>2 DEF AgentState
  <2> QED
    BY <1>1, <1>2, <2>1 DEF OffIsAlone
<1> QED
  BY <1>2, <1>4, <1>5, <1>6, NoFrames, StepKnows

LEMMA InitPair == Init => PairInv
<1> SUFFICES ASSUME Init PROVE PairInv
  OBVIOUS
<1>1. PICK f \in [Machine -> Workspace] : doc = [m \in Machine |-> NewDoc(m, f[m])]
  BY DEF Init
<1>2. Inv /\ disk = doc
  BY InitHolds DEF Init
<1>3. \A m \in Machine : up[m] /\ trust[m] = {} /\ Stamped(doc[m]) /\ Knows(doc[m], m)
  BY <1>1, NewDocKnows DEF Init
<1>4. \A e \in Pairs : phase[e] = "closed" /\ wire[e] = <<>>
  BY DEF Init
<1>5. \A y : y \notin Range(<<>>)
  BY DEF Range
<1>6. OffIsAlone
  BY <1>3 DEF OffIsAlone
<1>7. HeldKnows
  BY <1>2, <1>3, <1>4 DEF HeldKnows
<1>8. SentKnows
  BY <1>4, <1>5 DEF SentKnows
<1> QED
  BY <1>2, <1>6, <1>7, <1>8 DEF PairInv

LEMMA NextPair == APair /\ PairInv /\ [Next]_vars => PairInv'
<1> SUFFICES ASSUME APair, PairInv, [Next]_vars PROVE (OffIsAlone /\ HeldKnows /\ SentKnows)'
  BY NextKeeps DEF PairInv
<1>1. CASE UNCHANGED vars
  <2>1. UNCHANGED <<up, doc, disk, trust>> /\ UNCHANGED <<phase, wire>>
    BY <1>1 DEF vars, agent, connection
  <2> QED
    BY <2>1, NoFrames, QuietKnows
<1>2. CASE \E mp \in Pairs : Pair(mp[1], mp[2]) \/ Unpair(mp[1], mp[2])
                             \/ Network(mp[1], mp[2]) \/ Session(mp)
  BY <1>2, PeopleKnow, NetworkKnows, SessionKnows, ReadDocKnows
<1>3. CASE \E m \in Machine : Actor(m) \/ Adoption(m) \/ ClearFails(m) \/ Crash(m)
                              \/ \E w \in Workspace : Restart(m, w)
  BY <1>3, AgentKnows, CrashKnows, RestartKnows
<1> QED
  BY <1>1, <1>2, <1>3 DEF Next

\* For two machines, any number of workspaces and any number of faults, crashes and
\* unpairings: nobody takes over a configuration that never admitted it.  Three machines
\* can: one of them may be adopted by a third between its Identify and its document,
\* which SendDoc reads only then.
THEOREM PairsKnowThemselves ==
  ASSUME APair PROVE Spec => []MemberOfItsOwn
<1>1. Spec => []PairInv
  BY InitPair, NextPair, PTL DEF Spec
<1>2. PairInv => MemberOfItsOwn
  BY DEF PairInv, HeldKnows, Knows, MemberOfItsOwn
<1> QED
  BY <1>1, <1>2, PTL

=============================================================================
