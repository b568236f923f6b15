-------------------------- MODULE ReplicationProofs -------------------------
(***************************************************************************)
(* Proofs about Replication.                                               *)
(***************************************************************************)
EXTENDS Replication, WorkspaceDocProofs

-----------------------------------------------------------------------------
(* The inductive invariants *)

\* What the type invariant needs to be inductive: a merge observes the clock of
\* the incoming document, whose value is known only when that clock is above its
\* stamps.
Inv1 == TypeOK /\ ClockCoversStamps

\* The file and the memory of a machine hold the same registers, switched off too.
Saved == \A m \in Machine : disk[m].reg = doc[m].reg /\ disk[m].lamport <= doc[m].lamport

\* No write anywhere is ahead of the saved clock of the machine that made it: a
\* stamp made after a restart is new.
OriginClock == \A w \in Writes : w[2].lamport <= disk[w[2].origin].lamport

Inv2 == Inv1 /\ Saved /\ OriginClock /\ StampsIdentifyWrites

-----------------------------------------------------------------------------
(* Sequences and ends *)

\* A letter, update or frame that is appended is the only one to appear.
LEMMA RangeAppend ==
  ASSUME NEW T, NEW s \in Seq(T), NEW x \in T
  PROVE  /\ Append(s, x) \in Seq(T)
         /\ \A y \in Range(Append(s, x)) : y \in Range(s) \/ y = x
BY DEF Range

\* Taking the head off a queue adds nothing to what it holds.
LEMMA RangeTail ==
  ASSUME NEW T, NEW s \in Seq(T), s # <<>>
  PROVE  /\ Tail(s) \in Seq(T) /\ Head(s) \in T
         /\ Head(s) \in Range(s)
         /\ \A y \in Range(Tail(s)) : y \in Range(s)
BY DEF Range

\* An emptied queue holds nothing.
LEMMA RangeEmpty ==
  /\ \A T : << >> \in Seq(T)
  /\ \A y : y \notin Range(<<>>)
BY DEF Range

\* The other end of a connection is an end, and is another one.
LEMMA EndFacts ==
  ASSUME NEW e \in End
  PROVE  /\ e[1] \in Machine /\ e[2] \in Machine /\ e[3] \in Connection
         /\ Peer(e) \in End /\ Peer(e) # e
BY DEF End, Peer

-----------------------------------------------------------------------------
(* Where a document or an update of the next state comes from *)

\* Where a document or an update can be, as membership in AllDocs and AllUpdates.
LEMMA Places ==
  /\ \A m \in Machine : /\ doc[m] \in AllDocs /\ disk[m] \in AllDocs
                        /\ unsent[m] \subseteq AllUpdates
                        /\ \A x \in Range(inbox[m]) :
                             x.kind = "Broadcast" => x.update \in AllUpdates
  /\ \A e \in End : /\ Range(queue[e]) \subseteq AllUpdates
                    /\ \A x \in Range(wire[e]) :
                         /\ x.kind = "doc" => x.doc \in AllDocs
                         /\ x.kind = "update" => x.update \in AllUpdates
<1>1. \A e \in End : \A x \in Range(wire[e]) : x \in Frames
  BY DEF Frames
<1>2. \A m \in Machine : \A x \in Range(inbox[m]) : x \in Letters
  BY DEF Letters
<1>3. \A x \in Frames : /\ x.kind = "doc" => x.doc \in FrameDocs
                        /\ x.kind = "update" => x.update \in FrameUpdates
  BY DEF FrameDocs, FrameUpdates
<1>4. \A x \in Letters : x.kind = "Broadcast" => x.update \in LetterUpdates
  BY DEF LetterUpdates
<1>5. \A m \in Machine : doc[m] \in AllDocs /\ disk[m] \in AllDocs
  BY DEF AllDocs
<1>6. FrameDocs \subseteq AllDocs
  BY DEF AllDocs
<1>7. /\ \A m \in Machine : unsent[m] \subseteq Unsent
      /\ \A e \in End : Range(queue[e]) \subseteq Queued
  BY DEF Unsent, Queued
<1>8. /\ FrameUpdates \subseteq AllUpdates /\ LetterUpdates \subseteq AllUpdates
      /\ Unsent \subseteq AllUpdates /\ Queued \subseteq AllUpdates
  BY DEF AllUpdates
<1> QED
  BY <1>1, <1>2, <1>3, <1>4, <1>5, <1>6, <1>7, <1>8

\* The same of the next state.
LEMMA NextPlaces ==
  ASSUME NEW D, NEW U,
         \A m \in Machine : /\ doc'[m] \in D /\ disk'[m] \in D
                           /\ unsent'[m] \subseteq U
                           /\ \A x \in Range(inbox'[m]) :
                                x.kind = "Broadcast" => x.update \in U,
         \A e \in End : /\ Range(queue'[e]) \subseteq U
                       /\ \A x \in Range(wire'[e]) :
                            /\ x.kind = "doc" => x.doc \in D
                            /\ x.kind = "update" => x.update \in U
  PROVE  AllDocs' \subseteq D /\ AllUpdates' \subseteq U
<1>1. \A x \in Frames' : \E e \in End : x \in Range(wire'[e])
  BY DEF Frames
<1>2. \A x \in Letters' : \E m \in Machine : x \in Range(inbox'[m])
  BY DEF Letters
<1>3. FrameDocs' \subseteq D
  BY <1>1 DEF FrameDocs
<1>4. FrameUpdates' \subseteq U
  BY <1>1 DEF FrameUpdates
<1>5. LetterUpdates' \subseteq U
  BY <1>2 DEF LetterUpdates
<1>6. AllDocs' \subseteq D
  BY <1>3 DEF AllDocs
<1>7. Unsent' \subseteq U /\ Queued' \subseteq U
  BY DEF Unsent, Queued
<1>8. AllUpdates' \subseteq U
  BY <1>4, <1>5, <1>7 DEF AllUpdates
<1> QED
  BY <1>6, <1>8

\* A step that creates no document and no update.
Quiet == TypeOK' /\ AllDocs' \subseteq AllDocs /\ AllUpdates' \subseteq AllUpdates

\* A document in a well-typed state is well typed.
LEMMA DocsTyped ==
  ASSUME TypeOK PROVE AllDocs \subseteq WorkspaceDoc /\ AllUpdates \subseteq WorkspaceUpdate
<1>1. \A e \in End : \A x \in Range(wire[e]) : x \in Frame
  BY DEF TypeOK, Range
<1>2. \A e \in End : \A u \in Range(queue[e]) : u \in WorkspaceUpdate
  BY DEF TypeOK, Range
<1>3. \A m \in Machine : \A x \in Range(inbox[m]) : x \in Internal
  BY DEF TypeOK, Range
<1>4. \A x \in Frame : /\ x.kind = "doc" => x.doc \in WorkspaceDoc
                       /\ x.kind = "update" => x.update \in WorkspaceUpdate
  BY DEF Frame
<1>5. \A x \in Internal : x.kind = "Broadcast" => x.update \in WorkspaceUpdate
  BY DEF Internal
<1>6. Frames \subseteq Frame /\ Letters \subseteq Internal
  BY <1>1, <1>3 DEF Frames, Letters
<1>7. FrameDocs \subseteq WorkspaceDoc /\ FrameUpdates \subseteq WorkspaceUpdate
  BY <1>4, <1>6 DEF FrameDocs, FrameUpdates
<1>8. LetterUpdates \subseteq WorkspaceUpdate
  BY <1>5, <1>6 DEF LetterUpdates
<1>9. AllDocs \subseteq WorkspaceDoc
  BY <1>7 DEF AllDocs, TypeOK
<1>10. Unsent \subseteq WorkspaceUpdate /\ Queued \subseteq WorkspaceUpdate
  BY <1>2 DEF Unsent, Queued, TypeOK
<1>11. AllUpdates \subseteq WorkspaceUpdate
  BY <1>7, <1>8, <1>10 DEF AllUpdates
<1> QED
  BY <1>9, <1>11

\* A step is quiet when what it puts anywhere was somewhere before.
LEMMA QuietStep ==
  ASSUME TypeOK',
         \A m \in Machine : /\ doc'[m] \in AllDocs /\ disk'[m] \in AllDocs
                           /\ unsent'[m] \subseteq unsent[m]
                           /\ \A x \in Range(inbox'[m]) :
                                \/ x \in Range(inbox[m]) \/ x.kind # "Broadcast"
                                \/ x.update \in AllUpdates,
         \A e \in End : /\ Range(queue'[e]) \subseteq AllUpdates
                       /\ \A x \in Range(wire'[e]) :
                            \/ x \in Range(wire[e]) \/ x = Eof
                            \/ x.kind = "doc" /\ x.doc \in AllDocs
                            \/ x.kind = "update" /\ x.update \in AllUpdates
  PROVE  Quiet
<1>1. Eof.kind # "doc" /\ Eof.kind # "update"
  BY DEF Eof
<1>2. \A m \in Machine : /\ doc'[m] \in AllDocs /\ disk'[m] \in AllDocs
                         /\ unsent'[m] \subseteq AllUpdates
                         /\ \A x \in Range(inbox'[m]) :
                              x.kind = "Broadcast" => x.update \in AllUpdates
  BY Places
<1>3. \A e \in End : /\ Range(queue'[e]) \subseteq AllUpdates
                     /\ \A x \in Range(wire'[e]) :
                          /\ x.kind = "doc" => x.doc \in AllDocs
                          /\ x.kind = "update" => x.update \in AllUpdates
  BY <1>1, Places
<1>4. AllDocs' \subseteq AllDocs /\ AllUpdates' \subseteq AllUpdates
  BY <1>2, <1>3, NextPlaces
<1> QED
  BY <1>4 DEF Quiet

-----------------------------------------------------------------------------
(* The mailbox and the actor *)

\* Moving an update into the mailbox (the tail of Agent::mutate) creates none.
LEMMA SendBroadcastQuiet ==
  ASSUME TypeOK, NEW m \in Machine, NEW u \in unsent[m], SendBroadcast(m, u)
  PROVE  Quiet
<1>1. u \in WorkspaceUpdate /\ u \in AllUpdates
  BY Places DEF TypeOK
<1>2. Broadcast(u) \in Internal /\ Broadcast(u).update = u
  BY <1>1 DEF Broadcast, Internal
<1>3. inbox[m] \in Seq(Internal)
  BY DEF TypeOK
<1>4. /\ inbox' = [inbox EXCEPT ![m] = Append(inbox[m], Broadcast(u))]
      /\ unsent' = [unsent EXCEPT ![m] = unsent[m] \ {u}]
      /\ UNCHANGED <<up, doc, disk, status, outbound, phase, queue, wire, faults>>
  BY DEF SendBroadcast, sessions
<1>5. TypeOK'
  BY <1>2, <1>3, <1>4, RangeAppend DEF TypeOK
<1>6. \A k \in Machine : \A x \in Range(inbox'[k]) :
        x \in Range(inbox[k]) \/ x = Broadcast(u)
  BY <1>2, <1>3, <1>4, RangeAppend DEF TypeOK
<1>7. \A k \in Machine : unsent'[k] \subseteq unsent[k]
  BY <1>4 DEF TypeOK
<1> QED
  BY <1>1, <1>2, <1>4, <1>5, <1>6, <1>7, Places, QuietStep

\* What every handler of the actor does to the mailbox.
LEMMA MailTaken ==
  ASSUME TypeOK, NEW m \in Machine, NEW k, Mail(m, k),
         inbox' = [inbox EXCEPT ![m] = Tail(inbox[m])]
  PROVE  /\ inbox' \in [Machine -> Seq(Internal)]
         /\ \A n \in Machine : \A x \in Range(inbox'[n]) : x \in Range(inbox[n])
         /\ Head(inbox[m]) \in Internal /\ Head(inbox[m]) \in Range(inbox[m])
         /\ Head(inbox[m]).kind = k
<1>1. inbox[m] \in Seq(Internal) /\ inbox[m] # <<>> /\ Head(inbox[m]).kind = k
  BY DEF TypeOK, Mail
<1>2. /\ Tail(inbox[m]) \in Seq(Internal) /\ Head(inbox[m]) \in Internal
      /\ Head(inbox[m]) \in Range(inbox[m])
      /\ \A x \in Range(Tail(inbox[m])) : x \in Range(inbox[m])
  BY <1>1, RangeTail
<1> QED
  BY <1>1, <1>2 DEF TypeOK

\* on_broadcast copies the update of the mailbox into the queues and creates none.
LEMMA OnBroadcastQuiet ==
  ASSUME TypeOK, NEW m \in Machine, OnBroadcast(m)
  PROVE  Quiet
<1> DEFINE u == Head(inbox[m]).update
<1>1. /\ Mail(m, "Broadcast")
      /\ queue' = [e \in End |-> IF e \in Fed(m) /\ Accepts(e)
                                 THEN Append(queue[e], u) ELSE queue[e]]
      /\ outbound' = [outbound EXCEPT ![m] = [p \in Machine |->
                        IF \E e \in Fed(m) : e[2] = p /\ ~Accepts(e)
                        THEN None ELSE outbound[m][p]]]
      /\ inbox' = [inbox EXCEPT ![m] = Tail(inbox[m])]
      /\ UNCHANGED <<up, doc, disk, unsent, status, phase, wire, faults>>
  BY DEF OnBroadcast, agent
<1>2. /\ inbox' \in [Machine -> Seq(Internal)]
      /\ \A n \in Machine : \A x \in Range(inbox'[n]) : x \in Range(inbox[n])
      /\ Head(inbox[m]) \in Internal /\ Head(inbox[m]) \in Range(inbox[m])
      /\ Head(inbox[m]).kind = "Broadcast"
  BY <1>1, MailTaken
<1>3. u \in WorkspaceUpdate /\ u \in AllUpdates
  BY <1>2, Places DEF Internal
<1> HIDE DEF u
<1>4. \A e \in End : /\ queue'[e] \in Seq(WorkspaceUpdate)
                     /\ Range(queue'[e]) \subseteq AllUpdates
  <2> SUFFICES ASSUME NEW e \in End
               PROVE  /\ queue'[e] \in Seq(WorkspaceUpdate)
                      /\ Range(queue'[e]) \subseteq AllUpdates
    OBVIOUS
  <2>1. queue[e] \in Seq(WorkspaceUpdate) /\ Range(queue[e]) \subseteq AllUpdates
    BY Places DEF TypeOK
  <2>2. queue'[e] = Append(queue[e], u) \/ queue'[e] = queue[e]
    BY <1>1
  <2>3. /\ Append(queue[e], u) \in Seq(WorkspaceUpdate)
        /\ \A y \in Range(Append(queue[e], u)) : y \in Range(queue[e]) \/ y = u
    BY <1>3, <2>1, RangeAppend
  <2>4. Range(Append(queue[e], u)) \subseteq AllUpdates
    BY <1>3, <2>1, <2>3
  <2> QED
    BY <2>1, <2>2, <2>3, <2>4
<1>5. queue' \in [End -> Seq(WorkspaceUpdate)]
  BY <1>1, <1>4
<1>6. outbound' \in [Machine -> [Machine -> Connection \cup {None}]]
  <2> DEFINE row == [p \in Machine |-> IF \E e \in Fed(m) : e[2] = p /\ ~Accepts(e)
                                         THEN None ELSE outbound[m][p]]
  <2>1. \A p \in Machine : outbound[m][p] \in Connection \cup {None}
    BY DEF TypeOK
  <2>2. row \in [Machine -> Connection \cup {None}]
    BY <2>1
  <2>3. outbound' = [outbound EXCEPT ![m] = row]
    BY <1>1
  <2> HIDE DEF row
  <2> QED
    BY <2>2, <2>3 DEF TypeOK
<1>7. TypeOK'
  BY <1>1, <1>2, <1>5, <1>6 DEF TypeOK
<1> QED
  BY <1>1, <1>2, <1>4, <1>7, Places, QuietStep

\* on_session(Established) moves no document and no update.
LEMMA OnEstablishedQuiet ==
  ASSUME TypeOK, NEW m \in Machine, OnEstablished(m)
  PROVE  Quiet
<1> DEFINE e == Head(inbox[m]).end
<1>1. /\ Mail(m, "Established")
      /\ status' = [status EXCEPT ![m][e[2]] = "Online"]
      /\ outbound' = [outbound EXCEPT ![m][e[2]] = e[3]]
      /\ inbox' = [inbox EXCEPT ![m] = Tail(inbox[m])]
      /\ UNCHANGED <<up, doc, disk, unsent, phase, queue, wire, faults>>
  BY DEF OnEstablished, agent, sessions
<1>2. /\ inbox' \in [Machine -> Seq(Internal)]
      /\ \A n \in Machine : \A x \in Range(inbox'[n]) : x \in Range(inbox[n])
      /\ Head(inbox[m]) \in Internal
      /\ Head(inbox[m]).kind = "Established"
  BY <1>1, MailTaken
<1>3. e \in End
  BY <1>2 DEF Internal
<1>4. e[2] \in Machine /\ e[3] \in Connection
  BY <1>3, EndFacts
<1> HIDE DEF e
<1>5. TypeOK'
  BY <1>1, <1>2, <1>4 DEF TypeOK, Status
<1> QED
  BY <1>1, <1>2, <1>5, Places, QuietStep

\* on_session(Closed) moves no document and no update.
LEMMA OnClosedQuiet ==
  ASSUME TypeOK, NEW m \in Machine, OnClosed(m)
  PROVE  Quiet
<1> DEFINE p == Head(inbox[m]).peer
<1>1. /\ Mail(m, "Closed")
      /\ status' = [status EXCEPT ![m][p] = "Offline"]
      /\ outbound' = [outbound EXCEPT ![m][p] = None]
      /\ inbox' = [inbox EXCEPT ![m] = Tail(inbox[m])]
      /\ UNCHANGED <<up, doc, disk, unsent, phase, queue, wire, faults>>
  BY DEF OnClosed, agent, sessions
<1>2. /\ inbox' \in [Machine -> Seq(Internal)]
      /\ \A n \in Machine : \A x \in Range(inbox'[n]) : x \in Range(inbox[n])
      /\ Head(inbox[m]) \in Internal
      /\ Head(inbox[m]).kind = "Closed"
  BY <1>1, MailTaken
<1>3. p \in Machine
  BY <1>2 DEF Internal
<1> HIDE DEF p
<1>4. TypeOK'
  BY <1>1, <1>2, <1>3 DEF TypeOK, Status
<1> QED
  BY <1>1, <1>2, <1>4, Places, QuietStep

-----------------------------------------------------------------------------
(* Sessions *)

\* What is on a wire after a write: what was there, and the frame.
LEMMA WrittenFacts ==
  ASSUME TypeOK, NEW e \in End, NEW x \in Frame,
         wire' = [wire EXCEPT ![e] = Written(e, x)]
  PROVE  /\ wire' \in [End -> Seq(Frame)]
         /\ \A d \in End : \A y \in Range(wire'[d]) : y \in Range(wire[d]) \/ y = x
<1>1. wire[e] \in Seq(Frame)
  BY DEF TypeOK
<1>2. Written(e, x) = <<>> \/ Written(e, x) = Append(wire[e], x)
  BY DEF Written
<1>3. /\ Append(wire[e], x) \in Seq(Frame)
      /\ \A y \in Range(Append(wire[e], x)) : y \in Range(wire[e]) \/ y = x
  BY <1>1, RangeAppend
<1>4. /\ Written(e, x) \in Seq(Frame)
      /\ \A y \in Range(Written(e, x)) : y \in Range(wire[e]) \/ y = x
  BY <1>2, <1>3, RangeEmpty
<1> QED
  BY <1>4 DEF TypeOK

\* A session that ends leaves on its wires only what was there, and the end of the stream.
LEMMA HangupFacts ==
  ASSUME TypeOK, NEW e \in End, NEW kept \in {wire[e], <<>>}, Hangup(e, kept)
  PROVE  /\ phase' \in [End -> Phase]
         /\ queue' \in [End -> Seq(WorkspaceUpdate)]
         /\ wire' \in [End -> Seq(Frame)]
         /\ \A d \in End : \A u \in Range(queue'[d]) : u \in Range(queue[d])
         /\ \A d \in End : \A x \in Range(wire'[d]) : x \in Range(wire[d]) \/ x = Eof
<1> DEFINE last == IF phase[Peer(e)] = "closed" THEN <<>> ELSE Append(kept, Eof)
<1>1. /\ phase' = [phase EXCEPT ![e] = "closed"]
      /\ queue' = [queue EXCEPT ![e] = <<>>]
      /\ wire' = [wire EXCEPT ![Peer(e)] = <<>>, ![e] = last]
  BY DEF Hangup
<1>2. Eof \in Frame
  BY DEF Eof, Frame
<1>3. kept \in Seq(Frame) /\ (\A x \in Range(kept) : x \in Range(wire[e]))
  BY RangeEmpty DEF TypeOK
<1>4. /\ Append(kept, Eof) \in Seq(Frame)
      /\ \A x \in Range(Append(kept, Eof)) : x \in Range(kept) \/ x = Eof
  BY <1>2, <1>3, RangeAppend
<1>5. last \in Seq(Frame) /\ (\A x \in Range(last) : x \in Range(wire[e]) \/ x = Eof)
  BY <1>3, <1>4, RangeEmpty
<1> HIDE DEF last
<1>6. phase' \in [End -> Phase]
  BY <1>1 DEF TypeOK, Phase
<1>7. /\ queue' \in [End -> Seq(WorkspaceUpdate)]
      /\ \A d \in End : \A u \in Range(queue'[d]) : u \in Range(queue[d])
  BY <1>1, RangeEmpty DEF TypeOK
<1>8. Peer(e) \in End
  BY EndFacts
<1>9. \A d \in End : wire'[d] = wire[d] \/ wire'[d] = <<>> \/ (d = e /\ wire'[d] = last)
  BY <1>1, <1>8 DEF TypeOK
<1>10. wire' \in [End -> Seq(Frame)]
  BY <1>1, <1>5, <1>8, RangeEmpty DEF TypeOK
<1>11. \A d \in End : \A x \in Range(wire'[d]) : x \in Range(wire[d]) \/ x = Eof
  BY <1>5, <1>9, RangeEmpty
<1> QED
  BY <1>6, <1>7, <1>10, <1>11

\* A session that reports to the mailbox, or does not, adds no update.
LEMMA ReportFacts ==
  ASSUME TypeOK, NEW m \in Machine, NEW x \in Internal, x.kind # "Broadcast",
         inbox' = [inbox EXCEPT ![m] = Append(inbox[m], x)]
  PROVE  /\ inbox' \in [Machine -> Seq(Internal)]
         /\ \A n \in Machine : \A y \in Range(inbox'[n]) :
              y \in Range(inbox[n]) \/ y.kind # "Broadcast"
<1>1. inbox[m] \in Seq(Internal)
  BY DEF TypeOK
<1>2. /\ Append(inbox[m], x) \in Seq(Internal)
      /\ \A y \in Range(Append(inbox[m], x)) : y \in Range(inbox[m]) \/ y = x
  BY <1>1, RangeAppend
<1> QED
  BY <1>2 DEF TypeOK

\* Closed carries no update.
LEMMA ReportClosedFacts ==
  ASSUME TypeOK, NEW e \in End, ReportClosed(e)
  PROVE  /\ inbox' \in [Machine -> Seq(Internal)]
         /\ \A n \in Machine : \A y \in Range(inbox'[n]) :
              y \in Range(inbox[n]) \/ y.kind # "Broadcast"
<1>1. e[1] \in Machine /\ e[2] \in Machine
  BY EndFacts
<1>2. Closed(e[2]) \in Internal /\ Closed(e[2]).kind # "Broadcast"
  BY <1>1 DEF Closed, Internal
<1>3. inbox' = [inbox EXCEPT ![e[1]] = Append(inbox[e[1]], Closed(e[2]))]
  BY DEF ReportClosed
<1> QED
  BY <1>1, <1>2, <1>3, ReportFacts

\* A new connection carries nothing.
LEMMA ConnectQuiet ==
  ASSUME TypeOK, NEW e \in End, Connect(e)
  PROVE  Quiet
<1>1. /\ status' = [status EXCEPT ![e[1]][e[2]] = "Connecting"]
      /\ phase' = [phase EXCEPT ![e] = "identified", ![Peer(e)] = "identified"]
      /\ UNCHANGED <<up, doc, disk, unsent, inbox, outbound, queue, wire, faults>>
  BY DEF Connect, agent
<1>2. e[1] \in Machine /\ e[2] \in Machine /\ Peer(e) \in End
  BY EndFacts
<1>3. TypeOK'
  BY <1>1, <1>2 DEF TypeOK, Status, Phase
<1> QED
  BY <1>1, <1>3, Places, QuietStep

\* Established carries no update.
LEMMA AnnounceQuiet ==
  ASSUME TypeOK, NEW e \in End, Announce(e)
  PROVE  Quiet
<1>1. /\ inbox' = [inbox EXCEPT ![e[1]] = Append(inbox[e[1]], Established(e))]
      /\ phase' = [phase EXCEPT ![e] = "announced"]
      /\ UNCHANGED <<up, doc, disk, unsent, status, outbound, queue, wire, faults>>
  BY DEF Announce, agent
<1>2. e[1] \in Machine
  BY EndFacts
<1>3. Established(e) \in Internal /\ Established(e).kind # "Broadcast"
  BY DEF Established, Internal
<1>4. /\ inbox' \in [Machine -> Seq(Internal)]
      /\ \A n \in Machine : \A y \in Range(inbox'[n]) :
           y \in Range(inbox[n]) \/ y.kind # "Broadcast"
  BY <1>1, <1>2, <1>3, ReportFacts
<1>5. TypeOK'
  BY <1>1, <1>4 DEF TypeOK, Phase
<1> QED
  BY <1>1, <1>4, <1>5, Places, QuietStep

\* The snapshot a session starts with is the document in memory.
LEMMA SendDocQuiet ==
  ASSUME TypeOK, NEW e \in End, SendDoc(e)
  PROVE  Quiet
<1> DEFINE x == DocFull(doc[e[1]])
<1>1. /\ phase' = [phase EXCEPT ![e] = "live"]
      /\ wire' = [wire EXCEPT ![e] = Written(e, x)]
      /\ UNCHANGED <<up, doc, disk, unsent, inbox, status, outbound, queue, faults>>
  BY DEF SendDoc, agent, actor
<1>2. e[1] \in Machine
  BY EndFacts
<1>3. x \in Frame /\ x.kind = "doc" /\ x.doc \in AllDocs
  BY <1>2, Places DEF DocFull, Frame, TypeOK
<1> HIDE DEF x
<1>4. /\ wire' \in [End -> Seq(Frame)]
      /\ \A d \in End : \A y \in Range(wire'[d]) : y \in Range(wire[d]) \/ y = x
  BY <1>1, <1>3, WrittenFacts
<1>5. TypeOK'
  BY <1>1, <1>4 DEF TypeOK, Phase
<1> QED
  BY <1>1, <1>3, <1>4, <1>5, Places, QuietStep

\* A session that could not send its snapshot leaves nothing new behind.
LEMMA SendDocFailsQuiet ==
  ASSUME TypeOK, NEW e \in End, SendDocFails(e)
  PROVE  Quiet
<1>1. /\ Hangup(e, wire[e])
      /\ UNCHANGED <<up, doc, disk, unsent, status, outbound, faults>>
      /\ ReportClosed(e) \/ UNCHANGED inbox
  BY DEF SendDocFails, agent
<1>2. /\ inbox' \in [Machine -> Seq(Internal)]
      /\ \A n \in Machine : \A y \in Range(inbox'[n]) :
           y \in Range(inbox[n]) \/ y.kind # "Broadcast"
  <2>1. CASE ReportClosed(e)
    BY <2>1, ReportClosedFacts
  <2>2. CASE UNCHANGED inbox
    BY <2>2 DEF TypeOK
  <2> QED
    BY <1>1, <2>1, <2>2
<1>3. /\ phase' \in [End -> Phase]
      /\ queue' \in [End -> Seq(WorkspaceUpdate)]
      /\ wire' \in [End -> Seq(Frame)]
      /\ \A d \in End : \A u \in Range(queue'[d]) : u \in Range(queue[d])
      /\ \A d \in End : \A x \in Range(wire'[d]) : x \in Range(wire[d]) \/ x = Eof
  BY <1>1, HangupFacts
<1>4. TypeOK'
  BY <1>1, <1>2, <1>3 DEF TypeOK
<1>5. \A d \in End : Range(queue'[d]) \subseteq AllUpdates
  BY <1>3, Places
<1> QED
  BY <1>1, <1>2, <1>3, <1>4, <1>5, Places, QuietStep

\* The writer moves an update from the queue to the wire.
LEMMA WriterSendQuiet ==
  ASSUME TypeOK, NEW e \in End, WriterSend(e)
  PROVE  Quiet
<1> DEFINE u == Head(queue[e])
           x == Update(u)
<1>1. /\ queue[e] # <<>>
      /\ queue' = [queue EXCEPT ![e] = Tail(queue[e])]
      /\ wire' = [wire EXCEPT ![e] = Written(e, x)]
      /\ UNCHANGED <<up, doc, disk, unsent, inbox, status, outbound, phase, faults>>
  BY DEF WriterSend, agent, actor
<1>2. queue[e] \in Seq(WorkspaceUpdate)
  BY DEF TypeOK
<1>3. /\ Tail(queue[e]) \in Seq(WorkspaceUpdate) /\ u \in WorkspaceUpdate
      /\ u \in Range(queue[e])
      /\ \A y \in Range(Tail(queue[e])) : y \in Range(queue[e])
  BY <1>1, <1>2, RangeTail
<1>4. u \in AllUpdates
  BY <1>3, Places
<1>5. x \in Frame /\ x.kind = "update" /\ x.update = u
  BY <1>3 DEF Update, Frame
<1> HIDE DEF x, u
<1>6. /\ wire' \in [End -> Seq(Frame)]
      /\ \A d \in End : \A y \in Range(wire'[d]) : y \in Range(wire[d]) \/ y = x
  BY <1>1, <1>5, WrittenFacts
<1>7. \A d \in End : \A y \in Range(queue'[d]) : y \in Range(queue[d])
  BY <1>1, <1>3 DEF TypeOK
<1>8. TypeOK'
  BY <1>1, <1>3, <1>6 DEF TypeOK
<1>9. \A d \in End : Range(queue'[d]) \subseteq AllUpdates
  BY <1>7, Places
<1> QED
  BY <1>1, <1>4, <1>5, <1>6, <1>8, <1>9, Places, QuietStep

\* The end of a stream carries nothing.
LEMMA WriterShutdownQuiet ==
  ASSUME TypeOK, NEW e \in End, WriterShutdown(e)
  PROVE  Quiet
<1>1. /\ phase' = [phase EXCEPT ![e] = "shut"]
      /\ wire' = [wire EXCEPT ![e] = Written(e, Eof)]
      /\ UNCHANGED <<up, doc, disk, unsent, inbox, status, outbound, queue, faults>>
  BY DEF WriterShutdown, agent, actor
<1>2. Eof \in Frame
  BY DEF Eof, Frame
<1>3. /\ wire' \in [End -> Seq(Frame)]
      /\ \A d \in End : \A y \in Range(wire'[d]) : y \in Range(wire[d]) \/ y = Eof
  BY <1>1, <1>2, WrittenFacts
<1>4. TypeOK'
  BY <1>1, <1>3 DEF TypeOK, Phase
<1> QED
  BY <1>1, <1>3, <1>4, Places, QuietStep

\* The two ways a read loop ends.
LEMMA ReadEndsQuiet ==
  ASSUME TypeOK, NEW e \in End, NEW kept \in {wire[e], <<>>},
         Hangup(e, kept), ReportClosed(e), faults' \in Nat,
         UNCHANGED <<up, doc, disk, unsent, status, outbound>>
  PROVE  Quiet
<1>1. /\ inbox' \in [Machine -> Seq(Internal)]
      /\ \A n \in Machine : \A y \in Range(inbox'[n]) :
           y \in Range(inbox[n]) \/ y.kind # "Broadcast"
  BY ReportClosedFacts
<1>2. /\ phase' \in [End -> Phase]
      /\ queue' \in [End -> Seq(WorkspaceUpdate)]
      /\ wire' \in [End -> Seq(Frame)]
      /\ \A d \in End : \A u \in Range(queue'[d]) : u \in Range(queue[d])
      /\ \A d \in End : \A x \in Range(wire'[d]) : x \in Range(wire[d]) \/ x = Eof
  BY HangupFacts
<1>3. TypeOK'
  BY <1>1, <1>2 DEF TypeOK
<1>4. \A d \in End : Range(queue'[d]) \subseteq AllUpdates
  BY <1>2, Places
<1> QED
  BY <1>1, <1>2, <1>3, <1>4, Places, QuietStep

\* A session that ends with its stream leaves nothing new behind.
LEMMA ReadEofQuiet ==
  ASSUME TypeOK, NEW e \in End, ReadEof(e)
  PROVE  Quiet
<1>1. /\ Hangup(e, wire[e]) /\ ReportClosed(e) /\ faults' \in Nat
      /\ UNCHANGED <<up, doc, disk, unsent, status, outbound>>
  BY DEF ReadEof, agent, TypeOK
<1> QED
  BY <1>1, ReadEndsQuiet

\* A session that breaks leaves nothing new behind.
LEMMA ReadErrorQuiet ==
  ASSUME TypeOK, NEW e \in End, ReadError(e)
  PROVE  Quiet
<1>1. PICK kept \in {wire[e], <<>>} : Hangup(e, kept)
  BY DEF ReadError
<1>2. /\ ReportClosed(e) /\ faults' \in Nat
      /\ UNCHANGED <<up, doc, disk, unsent, status, outbound>>
  BY DEF ReadError, agent, TypeOK
<1> QED
  BY <1>1, <1>2, ReadEndsQuiet

-----------------------------------------------------------------------------
(* Crashes and restarts *)

\* A crash forgets; it invents nothing.
LEMMA CrashQuiet ==
  ASSUME TypeOK, NEW m \in Machine, Crash(m)
  PROVE  Quiet
<1>1. PICK keep \in BOOLEAN :
        wire' = [e \in End |->
          IF e[2] = m THEN <<>>
          ELSE IF e[1] # m \/ phase[e] = "closed" THEN wire[e]
          ELSE IF phase[Peer(e)] = "closed" THEN <<>>
          ELSE Append(IF keep THEN wire[e] ELSE <<>>, Eof)]
  BY DEF Crash
<1>2. /\ up' = [up EXCEPT ![m] = FALSE]
      /\ unsent' = [unsent EXCEPT ![m] = {}]
      /\ inbox' = [inbox EXCEPT ![m] = <<>>]
      /\ status' = [status EXCEPT ![m] = [p \in Machine |-> "Offline"]]
      /\ outbound' = [outbound EXCEPT ![m] = [p \in Machine |-> None]]
      /\ phase' = [e \in End |-> IF e[1] = m THEN "closed" ELSE phase[e]]
      /\ queue' = [e \in End |-> IF e[1] = m THEN <<>> ELSE queue[e]]
      /\ faults' = faults + 1
      /\ UNCHANGED <<doc, disk>>
  BY DEF Crash
<1>3. Eof \in Frame
  BY DEF Eof, Frame
<1>4. \A e \in End : /\ wire'[e] \in Seq(Frame)
                     /\ \A x \in Range(wire'[e]) : x \in Range(wire[e]) \/ x = Eof
  <2> SUFFICES ASSUME NEW e \in End
               PROVE  /\ wire'[e] \in Seq(Frame)
                      /\ \A x \in Range(wire'[e]) : x \in Range(wire[e]) \/ x = Eof
    OBVIOUS
  <2> DEFINE kept == IF keep THEN wire[e] ELSE <<>>
  <2>1. wire[e] \in Seq(Frame)
    BY DEF TypeOK
  <2>2. kept \in Seq(Frame) /\ (\A x \in Range(kept) : x \in Range(wire[e]))
    BY <2>1, RangeEmpty
  <2>3. wire'[e] = <<>> \/ wire'[e] = wire[e] \/ wire'[e] = Append(kept, Eof)
    BY <1>1
  <2> HIDE DEF kept
  <2>4. /\ Append(kept, Eof) \in Seq(Frame)
        /\ \A x \in Range(Append(kept, Eof)) : x \in Range(kept) \/ x = Eof
    BY <1>3, <2>2, RangeAppend
  <2> QED
    BY <2>1, <2>2, <2>3, <2>4, RangeEmpty
<1>5. wire' \in [End -> Seq(Frame)]
  BY <1>1, <1>4
<1>6. /\ queue' \in [End -> Seq(WorkspaceUpdate)]
      /\ \A e \in End : \A u \in Range(queue'[e]) : u \in Range(queue[e])
  BY <1>2, RangeEmpty DEF TypeOK
<1>7. /\ inbox' \in [Machine -> Seq(Internal)]
      /\ \A n \in Machine : \A x \in Range(inbox'[n]) : x \in Range(inbox[n])
  BY <1>2, RangeEmpty DEF TypeOK
<1>8. /\ up' \in [Machine -> BOOLEAN]
      /\ unsent' \in [Machine -> SUBSET WorkspaceUpdate]
      /\ \A n \in Machine : unsent'[n] \subseteq unsent[n]
      /\ status' \in [Machine -> [Machine -> Status]]
      /\ phase' \in [End -> Phase]
  BY <1>2 DEF TypeOK, Status, Phase
<1>9. outbound' \in [Machine -> [Machine -> Connection \cup {None}]] /\ faults' \in Nat
  BY <1>2 DEF TypeOK
<1>10. TypeOK'
  BY <1>2, <1>5, <1>6, <1>7, <1>8, <1>9 DEF TypeOK
<1>11. \A e \in End : Range(queue'[e]) \subseteq AllUpdates
  BY <1>6, Places
<1> QED
  BY <1>2, <1>4, <1>7, <1>8, <1>10, <1>11, Places, QuietStep

\* A restart reads the file.
LEMMA RestartQuiet ==
  ASSUME TypeOK, NEW m \in Machine, Restart(m)
  PROVE  Quiet
<1>1. /\ up' = [up EXCEPT ![m] = TRUE]
      /\ doc' = [doc EXCEPT ![m] = disk[m]]
      /\ UNCHANGED <<disk, unsent, inbox, status, outbound, phase, queue, wire, faults>>
  BY DEF Restart, actor, sessions
<1>2. TypeOK'
  BY <1>1 DEF TypeOK
<1>3. \A n \in Machine : doc'[n] \in AllDocs
  BY <1>1, Places DEF TypeOK
<1> QED
  BY <1>1, <1>2, <1>3, Places, QuietStep

\* A stuttering step.
LEMMA StutterQuiet ==
  ASSUME TypeOK, UNCHANGED vars
  PROVE  Quiet
<1>1. UNCHANGED <<up, doc, disk, unsent, inbox, status, outbound, phase, queue, wire, faults>>
  BY DEF vars
<1>2. TypeOK'
  BY <1>1 DEF TypeOK
<1> QED
  BY <1>1, <1>2, Places, QuietStep

-----------------------------------------------------------------------------
(* The two steps that create documents: a local edit and a received frame *)

\* Both outcomes of a save.
LEMMA PersistFacts ==
  ASSUME TypeOK, NEW m \in Machine, NEW d \in WorkspaceDoc, Persist(m, d)
  PROVE  /\ disk' \in [Machine -> WorkspaceDoc]
         /\ \A k \in Machine : disk'[k] = disk[k] \/ (k = m /\ disk'[k] = d)
         /\ ~PersistMayFail => disk' = [disk EXCEPT ![m] = d]
<1>1. disk \in [Machine -> WorkspaceDoc]
  BY DEF TypeOK
<1>2. CASE disk' = [disk EXCEPT ![m] = d]
  BY <1>1, <1>2
<1>3. CASE PersistMayFail /\ disk' = disk
  BY <1>1, <1>3
<1> QED
  BY <1>2, <1>3 DEF Persist

\* A local edit adds one document and one update, which it stamps.
LEMMA MutateAdds ==
  ASSUME Inv1, NEW m \in Machine, NEW f \in Field, NEW v \in Value \cup {Removed},
         Mutate(m, f, v),
         NEW u, u = UpdateOf(doc[m], m, f, v),
         NEW n, n = Edited(doc[m], u)
  PROVE  /\ TypeOK'
         /\ AllDocs' \subseteq AllDocs \cup {n}
         /\ AllUpdates' \subseteq AllUpdates \cup {u}
<1>1. doc[m] \in WorkspaceDoc /\ Covered(doc[m])
  BY Places DEF Inv1, TypeOK, ClockCoversStamps, Covered
<1>2. u \in WorkspaceUpdate /\ n \in WorkspaceDoc
  BY <1>1, EditKeeps
<1>3. /\ doc' = [doc EXCEPT ![m] = n]
      /\ Persist(m, n)
      /\ unsent' = [unsent EXCEPT ![m] = unsent[m] \cup {u}]
      /\ UNCHANGED <<up, inbox, status, outbound, phase, queue, wire, faults>>
  BY DEF Mutate, actor, sessions
<1>4. /\ disk' \in [Machine -> WorkspaceDoc]
      /\ \A k \in Machine : disk'[k] = disk[k] \/ (k = m /\ disk'[k] = n)
  BY <1>2, <1>3, PersistFacts DEF Inv1
<1>5. TypeOK'
  BY <1>2, <1>3, <1>4 DEF Inv1, TypeOK
<1> DEFINE D == AllDocs \cup {n}
           U == AllUpdates \cup {u}
<1>6. AllDocs \subseteq D /\ n \in D /\ AllUpdates \subseteq U /\ u \in U
  OBVIOUS
<1> HIDE DEF D, U
<1>7. \A k \in Machine : doc'[k] \in D /\ disk'[k] \in D
  BY <1>3, <1>4, <1>6, Places DEF Inv1, TypeOK
<1>8. \A k \in Machine : unsent'[k] \subseteq unsent[k] \cup {u}
  BY <1>3 DEF Inv1, TypeOK
<1>9. \A k \in Machine : unsent'[k] \subseteq U
  BY <1>6, <1>8, Places
<1>10. \A k \in Machine : \A x \in Range(inbox'[k]) : x.kind = "Broadcast" => x.update \in U
  BY <1>3, <1>6, Places
<1>11. \A e \in End : /\ Range(queue'[e]) \subseteq U
                      /\ \A x \in Range(wire'[e]) :
                           /\ x.kind = "doc" => x.doc \in D
                           /\ x.kind = "update" => x.update \in U
  BY <1>3, <1>6, Places
<1>12. AllDocs' \subseteq D /\ AllUpdates' \subseteq U
  BY <1>7, <1>9, <1>10, <1>11, NextPlaces
<1> QED
  BY <1>5, <1>12 DEF D, U

\* A received frame adds one document, the merged one.
LEMMA ReceiveAdds ==
  ASSUME TypeOK, NEW e \in End, NEW k, Reads(e, k),
         NEW d \in WorkspaceDoc, Receive(e, d)
  PROVE  /\ TypeOK'
         /\ AllDocs' \subseteq AllDocs \cup {d}
         /\ AllUpdates' \subseteq AllUpdates
         /\ \A m \in Machine : disk'[m] = disk[m] \/ (m = e[1] /\ disk'[m] = d)
<1>1. e[1] \in Machine /\ Peer(e) \in End
  BY EndFacts
<1>2. /\ doc' = [doc EXCEPT ![e[1]] = d]
      /\ Persist(e[1], d) \/ UNCHANGED disk
      /\ wire' = [wire EXCEPT ![Peer(e)] = Tail(wire[Peer(e)])]
      /\ UNCHANGED <<up, unsent, inbox, status, outbound, phase, queue, faults>>
  BY DEF Receive, actor
<1>3. /\ disk' \in [Machine -> WorkspaceDoc]
      /\ \A m \in Machine : disk'[m] = disk[m] \/ (m = e[1] /\ disk'[m] = d)
  <2>1. CASE Persist(e[1], d)
    BY <1>1, <2>1, PersistFacts
  <2>2. CASE UNCHANGED disk
    <3>1. disk \in [Machine -> WorkspaceDoc]
      BY DEF TypeOK
    <3> QED
      BY <2>2, <3>1
  <2> QED
    BY <1>2, <2>1, <2>2
<1>4. wire[Peer(e)] \in Seq(Frame) /\ wire[Peer(e)] # <<>>
  BY <1>1 DEF TypeOK, Reads
<1>5. /\ Tail(wire[Peer(e)]) \in Seq(Frame)
      /\ \A x \in Range(Tail(wire[Peer(e)])) : x \in Range(wire[Peer(e)])
  BY <1>4, RangeTail
<1>6. /\ wire' \in [End -> Seq(Frame)]
      /\ \A b \in End : \A x \in Range(wire'[b]) : x \in Range(wire[b])
  BY <1>1, <1>2, <1>5 DEF TypeOK
<1>7. TypeOK'
  BY <1>1, <1>2, <1>3, <1>6 DEF TypeOK
<1> DEFINE D == AllDocs \cup {d}
<1>8. AllDocs \subseteq D /\ d \in D
  OBVIOUS
<1> HIDE DEF D
<1>9. \A m \in Machine : doc'[m] \in D /\ disk'[m] \in D
  BY <1>1, <1>2, <1>3, <1>8, Places DEF TypeOK
<1>10. \A m \in Machine : /\ unsent'[m] \subseteq AllUpdates
                          /\ \A x \in Range(inbox'[m]) :
                               x.kind = "Broadcast" => x.update \in AllUpdates
  BY <1>2, Places
<1>11. \A b \in End : /\ Range(queue'[b]) \subseteq AllUpdates
                      /\ \A x \in Range(wire'[b]) :
                           /\ x.kind = "doc" => x.doc \in D
                           /\ x.kind = "update" => x.update \in AllUpdates
  BY <1>2, <1>6, <1>8, Places
<1>12. AllDocs' \subseteq D /\ AllUpdates' \subseteq AllUpdates
  BY <1>9, <1>10, <1>11, NextPlaces
<1> QED
  BY <1>3, <1>7, <1>12 DEF D

-----------------------------------------------------------------------------
(* The steps by what they do to the documents *)

\* Every kind of edit goes through Mutate.
LEMMA EditMutates ==
  ASSUME NEW m \in Machine, Edit(m)
  PROVE  \E f \in Field, v \in Value \cup {Removed} : Mutate(m, f, v)
<1>1. /\ NameField \in Field /\ SettingsField \in Field
      /\ \A x \in Machine : SlotField(x) \in Field
  BY DEF Field, SlotFields
<1>2. CASE \E f \in {NameField, SettingsField}, v \in Value : SetRegister(m, f, v)
  BY <1>1, <1>2 DEF SetRegister
<1>3. CASE \E x \in Machine, v \in Value : UpsertMachine(m, x, v) \/ Pair(m, x, v)
  BY <1>1, <1>3 DEF UpsertMachine, Pair
<1>4. CASE \E x \in Machine : Unpair(m, x)
  BY <1>1, <1>4 DEF Unpair
<1> QED
  BY <1>2, <1>3, <1>4 DEF Edit

\* A step edits, receives, restarts, or leaves memory and disk alone.
LEMMA StepKinds ==
  ASSUME TypeOK, [Next]_vars
  PROVE  \/ Quiet /\ UNCHANGED <<doc, disk>>
         \/ Quiet /\ \E m \in Machine : Restart(m)
         \/ \E m \in Machine, f \in Field, v \in Value \cup {Removed} : Mutate(m, f, v)
         \/ \E e \in End : ReadDoc(e) \/ ReadUpdate(e)
<1>1. CASE UNCHANGED vars
  BY <1>1, StutterQuiet DEF vars
<1>2. ASSUME NEW m \in Machine, Edit(m)
      PROVE  \E f \in Field, v \in Value \cup {Removed} : Mutate(m, f, v)
  BY <1>2, EditMutates
<1>3. ASSUME NEW m \in Machine, Actor(m)
      PROVE  Quiet /\ UNCHANGED <<doc, disk>>
  <2>1. CASE OnBroadcast(m)
    BY <2>1, OnBroadcastQuiet DEF OnBroadcast, agent
  <2>2. CASE OnEstablished(m)
    BY <2>2, OnEstablishedQuiet DEF OnEstablished, agent
  <2>3. CASE OnClosed(m)
    BY <2>3, OnClosedQuiet DEF OnClosed, agent
  <2> QED
    BY <1>3, <2>1, <2>2, <2>3 DEF Actor
<1>4. ASSUME NEW m \in Machine, Crash(m)
      PROVE  Quiet /\ UNCHANGED <<doc, disk>>
  BY <1>4, CrashQuiet DEF Crash
<1>5. ASSUME NEW m \in Machine, Restart(m)
      PROVE  Quiet
  BY <1>5, RestartQuiet
<1>6. ASSUME NEW m \in Machine, NEW u \in unsent[m], SendBroadcast(m, u)
      PROVE  Quiet /\ UNCHANGED <<doc, disk>>
  BY <1>6, SendBroadcastQuiet DEF SendBroadcast
<1>7. ASSUME NEW e \in End, Connect(e) \/ ReadError(e)
      PROVE  Quiet /\ UNCHANGED <<doc, disk>>
  <2>1. CASE Connect(e)
    BY <2>1, ConnectQuiet DEF Connect, agent
  <2>2. CASE ReadError(e)
    BY <2>2, ReadErrorQuiet DEF ReadError, agent
  <2> QED
    BY <1>7, <2>1, <2>2
<1>8. ASSUME NEW e \in End, Session(e)
      PROVE  \/ Quiet /\ UNCHANGED <<doc, disk>>
             \/ ReadDoc(e) \/ ReadUpdate(e)
  <2>1. CASE Announce(e)
    BY <2>1, AnnounceQuiet DEF Announce, agent
  <2>2. CASE SendDoc(e)
    BY <2>2, SendDocQuiet DEF SendDoc, agent
  <2>3. CASE SendDocFails(e)
    BY <2>3, SendDocFailsQuiet DEF SendDocFails, agent
  <2>4. CASE WriterSend(e)
    BY <2>4, WriterSendQuiet DEF WriterSend, agent
  <2>5. CASE WriterShutdown(e)
    BY <2>5, WriterShutdownQuiet DEF WriterShutdown, agent
  <2>6. CASE ReadEof(e)
    BY <2>6, ReadEofQuiet DEF ReadEof, agent
  <2> QED
    BY <1>8, <2>1, <2>2, <2>3, <2>4, <2>5, <2>6 DEF Session
<1> QED
  BY <1>1, <1>2, <1>3, <1>4, <1>5, <1>6, <1>7, <1>8 DEF Next

\* A document read from a machine is typed, covered by its clock, and its
\* registers are writes.
LEMMA Known ==
  ASSUME Inv1
  PROVE  /\ \A d \in AllDocs : /\ d \in WorkspaceDoc /\ Covered(d)
                               /\ \A f \in Field :
                                    <<f, d.reg[f].stamp, d.reg[f].value>> \in Writes
         /\ \A u \in AllUpdates : /\ u \in WorkspaceUpdate
                                  /\ <<u.field, u.stamp, u.value>> \in Writes
<1>1. AllDocs \subseteq WorkspaceDoc /\ AllUpdates \subseteq WorkspaceUpdate
  BY DocsTyped DEF Inv1
<1>2. \A d \in AllDocs : Covered(d)
  BY DEF Inv1, ClockCoversStamps, Covered
<1>3. \A d \in AllDocs : \A f \in Field :
        <<f, d.reg[f].stamp, d.reg[f].value>> \in Writes
  BY DEF Writes
<1>4. \A u \in AllUpdates : <<u.field, u.stamp, u.value>> \in Writes
  BY DEF Writes
<1> QED
  BY <1>1, <1>2, <1>3, <1>4

\* What a machine makes of a frame: a document that is covered by its clock, no
\* register of which is older than before, and which holds known writes only.
LEMMA ReadMakes ==
  ASSUME Inv1, NEW e \in End, ReadDoc(e) \/ ReadUpdate(e)
  PROVE  \E d \in WorkspaceDoc :
           /\ Receive(e, d)
           /\ Reads(e, "doc") \/ Reads(e, "update")
           /\ Covered(d)
           /\ d.lamport >= doc[e[1]].lamport
           /\ \A f \in Field : /\ <<f, d.reg[f].stamp, d.reg[f].value>> \in Writes
                               /\ ~Older(d.reg[f].stamp, doc[e[1]].reg[f].stamp)
<1> DEFINE mine == doc[e[1]]
           x == Head(wire[Peer(e)])
<1>1. e[1] \in Machine /\ Peer(e) \in End
  BY EndFacts
<1>2. mine \in AllDocs
  BY <1>1, Places
<1>3. /\ mine \in WorkspaceDoc /\ Covered(mine)
      /\ \A f \in Field : <<f, mine.reg[f].stamp, mine.reg[f].value>> \in Writes
  BY <1>2, Known
<1>4. wire[Peer(e)] # <<>> => x \in Range(wire[Peer(e)])
  BY <1>1, RangeTail DEF Inv1, TypeOK
<1>5. CASE ReadDoc(e)
  <2> DEFINE d == Merge(mine, x.doc)
  <2>1. Reads(e, "doc") /\ Receive(e, d)
    BY <1>5 DEF ReadDoc
  <2>2. wire[Peer(e)] # <<>> /\ x.kind = "doc"
    BY <2>1 DEF Reads
  <2>3. x.doc \in AllDocs
    BY <1>1, <1>4, <2>2, Places
  <2>4. /\ x.doc \in WorkspaceDoc /\ Covered(x.doc)
        /\ \A f \in Field : <<f, x.doc.reg[f].stamp, x.doc.reg[f].value>> \in Writes
    BY <2>3, Known
  <2> HIDE DEF mine, x
  <2>5. /\ d \in WorkspaceDoc /\ Covered(d) /\ d.lamport >= mine.lamport
        /\ \A f \in Field : /\ d.reg[f] \in {mine.reg[f], x.doc.reg[f]}
                            /\ ~Older(d.reg[f].stamp, mine.reg[f].stamp)
    BY <1>3, <2>4, MergeKeeps
  <2> HIDE DEF d
  <2>6. \A f \in Field : <<f, d.reg[f].stamp, d.reg[f].value>> \in Writes
    BY <1>3, <2>4, <2>5
  <2> QED
    BY <2>1, <2>5, <2>6 DEF mine
<1>6. CASE ReadUpdate(e)
  <2> DEFINE u == x.update
             d == Apply(mine, u)
  <2>1. Reads(e, "update") /\ Receive(e, d)
    BY <1>6 DEF ReadUpdate
  <2>2. wire[Peer(e)] # <<>> /\ x.kind = "update"
    BY <2>1 DEF Reads
  <2>3. u \in AllUpdates
    BY <1>1, <1>4, <2>2, Places
  <2>4. u \in WorkspaceUpdate /\ <<u.field, u.stamp, u.value>> \in Writes
    BY <2>3, Known
  <2> HIDE DEF mine, u
  <2>5. /\ d \in WorkspaceDoc /\ Covered(d) /\ d.lamport >= mine.lamport
        /\ \A f \in Field :
             /\ \/ d.reg[f] = mine.reg[f]
                \/ f = u.field /\ d.reg[f] = [value |-> u.value, stamp |-> u.stamp]
             /\ ~Older(d.reg[f].stamp, mine.reg[f].stamp)
    BY <1>3, <2>4, ApplyKeeps
  <2> HIDE DEF d
  <2>6. \A f \in Field : <<f, d.reg[f].stamp, d.reg[f].value>> \in Writes
    BY <1>3, <2>4, <2>5
  <2> QED
    BY <2>1, <2>5, <2>6 DEF mine
<1> QED
  BY <1>5, <1>6

-----------------------------------------------------------------------------
(* Types and clocks, whatever the saves do *)

\* The first document is typed and covered by its clock.
LEMMA InitInv1 ==
  ASSUME Init PROVE Inv1
<1>1. TypeOK
  BY InitialDocAssumption, RangeEmpty DEF Init, TypeOK, Status, Phase
<1>2. \A m \in Machine : doc[m] = InitialDoc /\ disk[m] = InitialDoc
  BY DEF Init
<1>3. Frames = {}
  BY RangeEmpty DEF Init, Frames
<1>4. FrameDocs = {}
  BY <1>3 DEF FrameDocs
<1>5. \A d \in AllDocs : d = InitialDoc
  BY <1>2, <1>4 DEF AllDocs
<1> QED
  BY <1>1, <1>5, InitialDocAssumption DEF Inv1, ClockCoversStamps

\* A step that adds only covered documents keeps the clocks above the stamps.
LEMMA CoveredStep ==
  ASSUME Inv1, TypeOK', NEW d, Covered(d), AllDocs' \subseteq AllDocs \cup {d}
  PROVE  Inv1'
<1>1. \A x \in AllDocs : Covered(x)
  BY Known
<1>2. \A x \in AllDocs' : Covered(x)
  BY <1>1
<1> QED
  BY <1>2 DEF Inv1, ClockCoversStamps, Covered

\* Every step of the system keeps Inv1.
LEMMA NextInv1 ==
  ASSUME Inv1, [Next]_vars PROVE Inv1'
<1>0. TypeOK
  BY DEF Inv1
<1>1. CASE Quiet
  <2>1. \A d \in AllDocs : Covered(d)
    BY Known
  <2>2. TypeOK' /\ AllDocs' \subseteq AllDocs
    BY <1>1 DEF Quiet
  <2> QED
    BY <2>1, <2>2 DEF Inv1, ClockCoversStamps, Covered
<1>2. ASSUME NEW m \in Machine, NEW f \in Field, NEW v \in Value \cup {Removed},
             Mutate(m, f, v)
      PROVE  Inv1'
  <2> DEFINE u == UpdateOf(doc[m], m, f, v)
             n == Edited(doc[m], u)
  <2>1. TypeOK' /\ AllDocs' \subseteq AllDocs \cup {n}
    BY <1>2, MutateAdds
  <2>2. doc[m] \in WorkspaceDoc /\ Covered(doc[m])
    BY Places, Known
  <2>3. Covered(n)
    BY <2>2, EditKeeps
  <2> HIDE DEF n
  <2> QED
    BY <2>1, <2>3, CoveredStep
<1>3. ASSUME NEW e \in End, ReadDoc(e) \/ ReadUpdate(e)
      PROVE  Inv1'
  <2>1. PICK d \in WorkspaceDoc : /\ Receive(e, d) /\ Covered(d)
                                  /\ Reads(e, "doc") \/ Reads(e, "update")
    BY <1>3, ReadMakes
  <2>2. TypeOK' /\ AllDocs' \subseteq AllDocs \cup {d}
    BY <1>0, <2>1, ReceiveAdds
  <2> QED
    BY <2>1, <2>2, CoveredStep
<1> QED
  BY <1>0, <1>1, <1>2, <1>3, StepKinds

\* Every behaviour is well typed: no handler, failure, crash or restart leaves a
\* document, a mailbox, a queue or a connection with what its type does not admit.
THEOREM TypeCorrect == Spec => []TypeOK
<1>1. Init => Inv1
  BY InitInv1
<1>2. Inv1 /\ [Next]_vars => Inv1'
  BY NextInv1
<1>3. Inv1 => TypeOK
  BY DEF Inv1
<1> QED
  BY <1>1, <1>2, <1>3, PTL DEF Spec

\* No document anywhere holds a stamp above its own clock, whether or not saves
\* fail: the next local edit sorts after everything the machine shows, after a
\* crash too (WorkspaceDoc::observe and the lamport field of model.rs).
THEOREM ClocksCover == Spec => []ClockCoversStamps
<1>1. Init => Inv1
  BY InitInv1
<1>2. Inv1 /\ [Next]_vars => Inv1'
  BY NextInv1
<1>3. Inv1 => ClockCoversStamps
  BY DEF Inv1
<1> QED
  BY <1>1, <1>2, <1>3, PTL DEF Spec

-----------------------------------------------------------------------------
(* What holds when saves do not fail *)

\* Where the writes of the next state come from.
LEMMA NextWrites ==
  ASSUME NEW W,
         \A d \in AllDocs' : \A f \in Field : <<f, d.reg[f].stamp, d.reg[f].value>> \in W,
         \A u \in AllUpdates' : <<u.field, u.stamp, u.value>> \in W
  PROVE  Writes' \subseteq W
BY DEF Writes

\* A write has a clock and a machine that made it.
LEMMA WritesTyped ==
  ASSUME Inv1
  PROVE  \A w \in Writes : w[2] \in Stamp /\ w[2].lamport \in Nat /\ w[2].origin \in Machine
<1>1. \A d \in AllDocs : \A f \in Field : d.reg[f].stamp \in Stamp
  BY Known DEF WorkspaceDoc, Lww
<1>2. \A u \in AllUpdates : u.stamp \in Stamp
  BY Known DEF WorkspaceUpdate
<1>3. \A w \in Writes : w[2] \in Stamp
  BY <1>1, <1>2 DEF Writes
<1> QED
  BY <1>3 DEF Stamp

\* A step that invents no write and takes no saved clock back.
LEMMA SameWrites ==
  ASSUME Inv2, Inv1', Saved', Writes' \subseteq Writes,
         \A m \in Machine : disk'[m].lamport >= disk[m].lamport
  PROVE  Inv2'
<1>1. \A w \in Writes : /\ w[2].lamport \in Nat /\ w[2].origin \in Machine
                        /\ w[2].lamport <= disk[w[2].origin].lamport
  BY WritesTyped DEF Inv2, OriginClock
<1>2. \A m \in Machine : disk[m].lamport \in Nat /\ disk'[m].lamport \in Nat
  BY DEF Inv2, Inv1, TypeOK, WorkspaceDoc
<1>3. \A w \in Writes : w[2].lamport <= disk'[w[2].origin].lamport
  BY <1>1, <1>2
<1>4. OriginClock'
  BY <1>3 DEF OriginClock
<1>5. StampsIdentifyWrites'
  BY DEF Inv2, StampsIdentifyWrites
<1> QED
  BY <1>4, <1>5 DEF Inv2

\* The initial document is everywhere, and holds all the writes there are.
LEMMA InitWrites ==
  ASSUME Init
  PROVE  /\ \A m \in Machine : doc[m] = InitialDoc /\ disk[m] = InitialDoc
         /\ \A w \in Writes : \E f \in Field :
              w = <<f, InitialDoc.reg[f].stamp, InitialDoc.reg[f].value>>
<1>1. \A m \in Machine : doc[m] = InitialDoc /\ disk[m] = InitialDoc
  BY DEF Init
<1>2. Frames = {} /\ Letters = {} /\ Unsent = {} /\ Queued = {}
  BY RangeEmpty DEF Init, Frames, Letters, Unsent, Queued
<1>3. FrameDocs = {} /\ FrameUpdates = {} /\ LetterUpdates = {}
  BY <1>2 DEF FrameDocs, FrameUpdates, LetterUpdates
<1>4. \A d \in AllDocs : d = InitialDoc
  BY <1>1, <1>3 DEF AllDocs
<1>5. AllUpdates = {}
  BY <1>2, <1>3 DEF AllUpdates
<1>6. \A w \in Writes : \E f \in Field :
        w = <<f, InitialDoc.reg[f].stamp, InitialDoc.reg[f].value>>
  BY <1>4, <1>5 DEF Writes
<1> QED
  BY <1>1, <1>6

\* The first state is saved, and its stamps are those of the initial document.
LEMMA InitInv2 ==
  ASSUME Init PROVE Inv2
<1>1. Inv1
  BY InitInv1
<1>2. /\ \A m \in Machine : doc[m] = InitialDoc /\ disk[m] = InitialDoc
      /\ \A w \in Writes : \E f \in Field :
           w = <<f, InitialDoc.reg[f].stamp, InitialDoc.reg[f].value>>
  BY InitWrites
<1>3. InitialDoc.lamport \in Nat
  BY InitialDocAssumption DEF WorkspaceDoc
<1>4. Saved
  BY <1>2, <1>3 DEF Saved
<1>5. StampsIdentifyWrites
  BY <1>2 DEF StampsIdentifyWrites
<1>6. \A w \in Writes : w[2].origin \in Machine /\ w[2].lamport <= InitialDoc.lamport
  BY <1>1, <1>2, WritesTyped, InitialDocAssumption
<1>7. OriginClock
  BY <1>2, <1>6 DEF OriginClock
<1> QED
  BY <1>1, <1>4, <1>5, <1>7 DEF Inv2

\* No register of any document in memory gets older in this step.
Forward ==
  \A m \in Machine, f \in Field : ~Older(doc'[m].reg[f].stamp, doc[m].reg[f].stamp)

\* A register that stays is not older than itself.
LEMMA ForwardBy ==
  ASSUME TypeOK, NEW m \in Machine,
         \A k \in Machine \ {m} : doc'[k].reg = doc[k].reg,
         \A f \in Field : ~Older(doc'[m].reg[f].stamp, doc[m].reg[f].stamp)
  PROVE  Forward
<1>1. \A k \in Machine, f \in Field : doc[k].reg[f].stamp \in Stamp
  BY DEF TypeOK, WorkspaceDoc, Lww
<1>2. \A k \in Machine, f \in Field : ~Older(doc[k].reg[f].stamp, doc[k].reg[f].stamp)
  BY <1>1, OlderTotal
<1>3. ASSUME NEW k \in Machine, NEW f \in Field
      PROVE  ~Older(doc'[k].reg[f].stamp, doc[k].reg[f].stamp)
  <2>1. CASE k = m
    BY <2>1
  <2>2. CASE k # m
    BY <1>2, <2>2
  <2> QED
    BY <2>1, <2>2
<1> QED
  BY <1>3 DEF Forward

\* A local edit: its stamp is above the saved clock, so no write bears it yet, and
\* it is on disk before anyone else can see it.
LEMMA MutateInv2 ==
  ASSUME ~PersistMayFail, Inv2, Inv1', NEW m \in Machine, NEW f \in Field,
         NEW v \in Value \cup {Removed}, Mutate(m, f, v)
  PROVE  /\ Inv2' /\ Forward
         /\ LET u == UpdateOf(doc[m], m, f, v)
            IN  /\ Writes' \subseteq Writes \cup {<<f, u.stamp, v>>}
                /\ u.field = f /\ u.stamp \in Stamp /\ u.stamp.origin = m
                /\ u \in unsent'[m] /\ doc'[m].reg[f].stamp = u.stamp
<1> DEFINE u == UpdateOf(doc[m], m, f, v)
           n == Edited(doc[m], u)
           w == <<f, u.stamp, v>>
<1>1. Inv1 /\ TypeOK /\ doc[m] \in WorkspaceDoc /\ doc[m] \in AllDocs /\ Covered(doc[m])
  BY Places, Known DEF Inv2, Inv1
<1>2. /\ u \in WorkspaceUpdate /\ u.field = f /\ u.value = v
      /\ u.stamp = [lamport |-> doc[m].lamport + 1, origin |-> m]
      /\ n \in WorkspaceDoc /\ n.lamport = doc[m].lamport + 1
      /\ \A g \in Field :
           /\ n.reg[g] = IF g = f THEN [value |-> v, stamp |-> u.stamp] ELSE doc[m].reg[g]
           /\ ~Older(n.reg[g].stamp, doc[m].reg[g].stamp)
  BY <1>1, EditKeeps
<1>3. /\ AllDocs' \subseteq AllDocs \cup {n}
      /\ AllUpdates' \subseteq AllUpdates \cup {u}
  BY <1>1, MutateAdds
<1>4. doc' = [doc EXCEPT ![m] = n] /\ Persist(m, n)
  BY DEF Mutate
<1> HIDE DEF u, n
<1>5. disk' = [disk EXCEPT ![m] = n]
  BY <1>1, <1>2, <1>4, PersistFacts
<1>6. /\ doc'[m] = n /\ disk'[m] = n
      /\ \A k \in Machine \ {m} : doc'[k] = doc[k] /\ disk'[k] = disk[k]
  BY <1>1, <1>4, <1>5 DEF TypeOK
<1>7. Forward
  BY <1>1, <1>2, <1>6, ForwardBy
<1>8. /\ \A k \in Machine : disk[k].lamport \in Nat /\ doc[k].lamport \in Nat
      /\ n.lamport \in Nat
  BY <1>1, <1>2 DEF TypeOK, WorkspaceDoc
<1>9. Saved'
  BY <1>6, <1>8 DEF Inv2, Saved
<1>10. u.stamp.lamport = doc[m].lamport + 1 /\ u.stamp.origin = m
  BY <1>2
<1>11. Writes' \subseteq Writes \cup {w}
  <2> DEFINE W == Writes \cup {w}
  <2>1. \A d \in AllDocs : \A g \in Field : <<g, d.reg[g].stamp, d.reg[g].value>> \in W
    BY <1>1, Known
  <2>2. \A g \in Field : <<g, n.reg[g].stamp, n.reg[g].value>> \in W
    <3> SUFFICES ASSUME NEW g \in Field
                 PROVE  <<g, n.reg[g].stamp, n.reg[g].value>> \in W
      OBVIOUS
    <3>1. CASE g = f
      BY <1>2, <3>1
    <3>2. CASE g # f
      <4>1. n.reg[g] = doc[m].reg[g]
        BY <1>2, <3>2
      <4> QED
        BY <1>1, <2>1, <4>1
    <3> QED
      BY <3>1, <3>2
  <2>3. \A x \in AllUpdates : <<x.field, x.stamp, x.value>> \in W
    BY <1>1, Known
  <2>4. <<u.field, u.stamp, u.value>> \in W
    BY <1>2
  <2> HIDE DEF W, w
  <2>5. Writes' \subseteq W
    BY <1>3, <2>1, <2>2, <2>3, <2>4, NextWrites
  <2> QED
    BY <2>5 DEF W
<1>12. \A x \in Writes : /\ x[2].lamport \in Nat /\ x[2].origin \in Machine
                         /\ x[2].lamport <= disk[x[2].origin].lamport
  BY <1>1, WritesTyped DEF Inv2, OriginClock
<1>13. disk[m].lamport <= doc[m].lamport
  BY DEF Inv2, Saved
<1>14. \A x \in Writes : x[2].lamport <= disk'[x[2].origin].lamport
  <2> SUFFICES ASSUME NEW x \in Writes
               PROVE  x[2].lamport <= disk'[x[2].origin].lamport
    OBVIOUS
  <2>1. CASE x[2].origin = m
    BY <1>2, <1>6, <1>8, <1>12, <1>13, <2>1
  <2>2. CASE x[2].origin # m
    BY <1>6, <1>12, <2>2
  <2> QED
    BY <2>1, <2>2
<1>15. w[2].lamport <= disk'[w[2].origin].lamport
  BY <1>2, <1>6, <1>8, <1>10
<1>16. \A x \in Writes : x[2] # w[2]
  <2> SUFFICES ASSUME NEW x \in Writes, x[2] = w[2]
               PROVE  FALSE
    OBVIOUS
  <2>1. x[2].origin = m /\ x[2].lamport = doc[m].lamport + 1
    BY <1>10
  <2> QED
    BY <1>8, <1>12, <1>13, <2>1
<1>17. u \in unsent'[m] /\ u.stamp \in Stamp /\ doc'[m].reg[f].stamp = u.stamp
  <2>1. unsent' = [unsent EXCEPT ![m] = unsent[m] \cup {u}]
    BY DEF Mutate, u
  <2> QED
    BY <1>1, <1>2, <1>6, <2>1 DEF TypeOK, WorkspaceUpdate
<1>18. Writes' \subseteq Writes \cup {<<f, u.stamp, v>>}
  BY <1>11
<1> HIDE DEF w
<1>19. OriginClock'
  BY <1>11, <1>14, <1>15 DEF OriginClock
<1>20. StampsIdentifyWrites'
  BY <1>11, <1>16 DEF Inv2, StampsIdentifyWrites
<1>21. Inv2'
  BY <1>9, <1>19, <1>20 DEF Inv2
<1> QED
  BY <1>2, <1>7, <1>10, <1>17, <1>18, <1>21 DEF u

\* A received frame: every register of the result was a write already.
LEMMA ReceiveInv2 ==
  ASSUME ~PersistMayFail, Inv2, Inv1', NEW e \in End, ReadDoc(e) \/ ReadUpdate(e)
  PROVE  Inv2' /\ Forward /\ Writes' \subseteq Writes
<1>1. Inv1 /\ TypeOK
  BY DEF Inv2, Inv1
<1>2. PICK d \in WorkspaceDoc :
        /\ Receive(e, d)
        /\ Reads(e, "doc") \/ Reads(e, "update")
        /\ d.lamport >= doc[e[1]].lamport
        /\ \A f \in Field : /\ <<f, d.reg[f].stamp, d.reg[f].value>> \in Writes
                            /\ ~Older(d.reg[f].stamp, doc[e[1]].reg[f].stamp)
  BY <1>1, ReadMakes
<1>3. /\ AllDocs' \subseteq AllDocs \cup {d}
      /\ AllUpdates' \subseteq AllUpdates
  BY <1>1, <1>2, ReceiveAdds
<1>4. e[1] \in Machine
  BY EndFacts
<1>5. Writes' \subseteq Writes
  <2>1. /\ \A x \in AllDocs : \A f \in Field : <<f, x.reg[f].stamp, x.reg[f].value>> \in Writes
        /\ \A u \in AllUpdates : <<u.field, u.stamp, u.value>> \in Writes
    BY <1>1, Known
  <2> QED
    BY <1>2, <1>3, <2>1, NextWrites
<1>6. doc' = [doc EXCEPT ![e[1]] = d]
  BY <1>2 DEF Receive
<1>7. /\ doc'[e[1]] = d
      /\ \A k \in Machine \ {e[1]} : doc'[k] = doc[k]
  BY <1>1, <1>4, <1>6 DEF TypeOK
<1>8. Forward
  BY <1>1, <1>2, <1>4, <1>7, ForwardBy
<1>9. /\ \A k \in Machine : disk[k].lamport \in Nat /\ doc[k].lamport \in Nat
      /\ d.lamport \in Nat
  BY <1>1 DEF TypeOK, WorkspaceDoc
<1>10. \A k \in Machine : disk[k].reg = doc[k].reg /\ disk[k].lamport <= doc[k].lamport
  BY DEF Inv2, Saved
<1>11. Saved' /\ (\A k \in Machine : disk'[k].lamport >= disk[k].lamport)
  <2>1. CASE d.reg # doc[e[1]].reg
    <3>1. disk' = [disk EXCEPT ![e[1]] = d]
      BY <1>1, <1>2, <1>4, <2>1, PersistFacts DEF Receive
    <3>2. /\ disk'[e[1]] = d
          /\ \A k \in Machine \ {e[1]} : disk'[k] = disk[k]
      BY <1>1, <1>4, <3>1 DEF TypeOK
    <3> QED
      BY <1>2, <1>4, <1>7, <1>9, <1>10, <3>2 DEF Saved
  <2>2. CASE d.reg = doc[e[1]].reg
    <3>1. disk' = disk
      BY <1>2, <2>2 DEF Receive
    <3> QED
      BY <1>2, <1>4, <1>7, <1>9, <1>10, <2>2, <3>1 DEF Saved
  <2> QED
    BY <2>1, <2>2
<1>12. Inv2'
  BY <1>5, <1>11, SameWrites
<1> QED
  BY <1>5, <1>8, <1>12

\* Every other step moves writes about.
LEMMA QuietInv2 ==
  ASSUME Inv2, Inv1', Quiet,
         UNCHANGED <<doc, disk>> \/ \E m \in Machine : Restart(m)
  PROVE  Inv2' /\ Forward /\ Writes' \subseteq Writes
<1>1. Inv1 /\ TypeOK
  BY DEF Inv2, Inv1
<1>2. AllDocs' \subseteq AllDocs /\ AllUpdates' \subseteq AllUpdates
  BY DEF Quiet
<1>3. Writes' \subseteq Writes
  <2>1. /\ \A x \in AllDocs : \A f \in Field : <<f, x.reg[f].stamp, x.reg[f].value>> \in Writes
        /\ \A u \in AllUpdates : <<u.field, u.stamp, u.value>> \in Writes
    BY <1>1, Known
  <2> QED
    BY <1>2, <2>1, NextWrites
<1>4. \A k \in Machine : disk[k].reg = doc[k].reg /\ disk[k].lamport <= doc[k].lamport
  BY DEF Inv2, Saved
<1>5. \A k \in Machine : disk[k].lamport \in Nat
  BY <1>1 DEF TypeOK, WorkspaceDoc
<1>6. disk' = disk
  BY DEF Restart
<1>7. \A k \in Machine : doc'[k] = doc[k] \/ doc'[k] = disk[k]
  <2>1. CASE UNCHANGED <<doc, disk>>
    BY <2>1
  <2>2. CASE \E m \in Machine : Restart(m)
    <3>1. PICK m \in Machine : doc' = [doc EXCEPT ![m] = disk[m]]
      BY <2>2 DEF Restart
    <3> QED
      BY <1>1, <3>1 DEF TypeOK
  <2> QED
    BY <2>1, <2>2
<1>8. \A k \in Machine : doc'[k].reg = doc[k].reg
  BY <1>4, <1>7
<1>9. Saved'
  BY <1>4, <1>5, <1>6, <1>7 DEF Saved
<1>10. Inv2'
  BY <1>3, <1>5, <1>6, <1>9, SameWrites
<1>11. Forward
  <2>1. \A k \in Machine, f \in Field : doc[k].reg[f].stamp \in Stamp
    BY <1>1 DEF TypeOK, WorkspaceDoc, Lww
  <2> QED
    BY <1>8, <2>1, OlderTotal DEF Forward
<1> QED
  BY <1>3, <1>10, <1>11

\* Every step of the system keeps Inv2 and takes no register back.
LEMMA NextInv2 ==
  ASSUME ~PersistMayFail, Inv2, [Next]_vars
  PROVE  Inv2' /\ Forward
<1>1. Inv1 /\ TypeOK
  BY DEF Inv2, Inv1
<1>2. Inv1'
  BY <1>1, NextInv1
<1> QED
  BY <1>1, <1>2, StepKinds, MutateInv2, ReceiveInv2, QuietInv2

\* Where saving does not fail, a stamp names one write, everywhere and for ever:
\* the save under the lock comes before the broadcast, so a restart never reuses
\* a stamp that was seen (Core::persist, Lww::merge).
THEOREM StampsAreUnique ==
  ASSUME ~PersistMayFail PROVE Spec => []StampsIdentifyWrites
<1>1. Init => Inv2
  BY InitInv2
<1>2. Inv2 /\ [Next]_vars => Inv2'
  BY NextInv2
<1>3. Inv2 => StampsIdentifyWrites
  BY DEF Inv2
<1> QED
  BY <1>1, <1>2, <1>3, PTL DEF Spec

\* Where saving does not fail, the file holds the registers in memory at every
\* unlock ("the file on disk is never behind", Core::persist), also while the
\* machine is down.
THEOREM DiskIsCurrent ==
  ASSUME ~PersistMayFail PROVE Spec => []DiskHoldsDocument
<1>1. Init => Inv2
  BY InitInv2
<1>2. Inv2 /\ [Next]_vars => Inv2'
  BY NextInv2
<1>3. Inv2 => DiskHoldsDocument
  BY DEF Inv2, Saved, DiskHoldsDocument
<1> QED
  BY <1>1, <1>2, <1>3, PTL DEF Spec

\* Where saving does not fail, no step of any machine replaces a register by an
\* older one, a restart included (requirement 9, "stale state never overwrites
\* newer state").
THEOREM NothingStale ==
  ASSUME ~PersistMayFail PROVE Spec => NoStaleOverwrite
<1>1. Init => Inv2
  BY InitInv2
<1>2. Inv2 /\ [Next]_vars => Inv2'
  BY NextInv2
<1>3. Inv2 /\ [Next]_vars => [\A m \in Machine, f \in Field :
        ~Older(doc'[m].reg[f].stamp, doc[m].reg[f].stamp)]_vars
  BY NextInv2 DEF Forward
<1> QED
  BY <1>1, <1>2, <1>3, PTL DEF Spec, NoStaleOverwrite

-----------------------------------------------------------------------------
(* What is on its way between two machines in session *)

\* A write of register f at least as new as s.
Brings(u, f, s) == u.field = f /\ ~Older(u.stamp, s)

\* It is in the mailbox, and the sender of session e will be in place when it is
\* broadcast: no Established(e) waits behind it.
InMail(box, e, f, s) ==
  \E i \in DOMAIN box : /\ box[i].kind = "Broadcast" /\ Brings(box[i].update, f, s)
                        /\ \A j \in DOMAIN box : j > i => box[j] # Established(e)

\* It is on the connection, as an update or in the snapshot.
InWire(frames, f, s) ==
  \E x \in frames : \/ x.kind = "update" /\ Brings(x.update, f, s)
                    \/ x.kind = "doc" /\ ~Older(x.doc.reg[f].stamp, s)

OnItsWay(e, f, s) ==
  \/ \E u \in unsent[e[1]] : Brings(u, f, s)
  \/ InMail(inbox[e[1]], e, f, s)
  \/ \E u \in Range(queue[e]) : Brings(u, f, s)
  \/ InWire(Range(wire[e]), f, s)

\* The message that announces a session is in the mailbox of the machine whose session
\* it is: an actor never takes the sender of another machine's session into its slots.
OwnMail ==
  \A e \in End, m \in Machine : Established(e) \in Range(inbox[m]) => m = e[1]

\* A machine knows its own writes: nobody shows a newer one than its document does.
OwnKnown ==
  \A w \in Writes : ~Older(doc[w[2].origin].reg[w[1]].stamp, w[2])

\* While two machines are in session, everything one of them ever wrote, and anyone
\* remembers, has reached the other or is on its way to it.  OwnEditsArrive alone is not
\* inductive: it forgets a write that a newer one has replaced at its author.
WritesArrive ==
  \A e \in End, w \in Writes :
    InSync(e) /\ w[2].origin = e[1] =>
      ~Older(doc[e[2]].reg[w[1]].stamp, w[2]) \/ OnItsWay(e, w[1], w[2])

Inv3 == Inv2 /\ OwnMail /\ OwnKnown /\ WritesArrive

\* What a step may do to session e: it does not come into being, and what was on its way
\* still is or has arrived.
Keeps(e) ==
  InSync(e)' =>
    /\ InSync(e)
    /\ \A f \in Field, s \in Stamp :
         OnItsWay(e, f, s) => OnItsWay(e, f, s)' \/ ~Older(doc'[e[2]].reg[f].stamp, s)

\* Two sequences of which one is the other and an element.
LEMMA SeqFacts ==
  ASSUME NEW T, NEW box \in Seq(T), NEW x \in T
  PROVE  /\ \A y : y \in Range(box) <=> \E i \in DOMAIN box : box[i] = y
         /\ DOMAIN box = 1 .. Len(box) /\ Len(box) \in Nat
         /\ DOMAIN Append(box, x) = 1 .. (Len(box) + 1)
         /\ \A i \in 1 .. Len(box) : Append(box, x)[i] = box[i]
         /\ Append(box, x)[Len(box) + 1] = x
         /\ Range(box) \subseteq Range(Append(box, x)) /\ x \in Range(Append(box, x))
         /\ \A y \in Range(Append(box, x)) : y \in Range(box) \/ y = x
<1>1. \A y : y \in Range(box) <=> \E i \in DOMAIN box : box[i] = y
  BY DEF Range
<1>2. \A y : y \in Range(Append(box, x)) <=> \E i \in DOMAIN Append(box, x) : Append(box, x)[i] = y
  BY DEF Range
<1>3. /\ DOMAIN box = 1 .. Len(box) /\ Len(box) \in Nat
      /\ DOMAIN Append(box, x) = 1 .. (Len(box) + 1)
      /\ \A i \in 1 .. Len(box) : Append(box, x)[i] = box[i]
      /\ Append(box, x)[Len(box) + 1] = x
  OBVIOUS
<1>4. Range(box) \subseteq Range(Append(box, x)) /\ x \in Range(Append(box, x))
  BY <1>1, <1>2, <1>3
<1> QED
  BY <1>1, <1>3, <1>4, RangeAppend

\* What is left of a sequence without its head.
LEMMA TailFacts ==
  ASSUME NEW T, NEW box \in Seq(T), box # <<>>
  PROVE  /\ Tail(box) \in Seq(T) /\ DOMAIN Tail(box) = 1 .. (Len(box) - 1)
         /\ DOMAIN box = 1 .. Len(box) /\ Len(box) \in Nat \ {0} /\ Head(box) = box[1]
         /\ \A i \in DOMAIN Tail(box) : Tail(box)[i] = box[i + 1]
         /\ Range(Tail(box)) \subseteq Range(box)
         /\ \A y : y \in Range(Tail(box)) <=> \E i \in DOMAIN Tail(box) : Tail(box)[i] = y
         /\ \A y \in Range(box) : y = Head(box) \/ y \in Range(Tail(box))
<1>1. /\ \A y : y \in Range(box) <=> \E i \in DOMAIN box : box[i] = y
      /\ \A y : y \in Range(Tail(box)) <=> \E i \in DOMAIN Tail(box) : Tail(box)[i] = y
  BY DEF Range
<1>2. /\ Tail(box) \in Seq(T) /\ DOMAIN Tail(box) = 1 .. (Len(box) - 1)
      /\ DOMAIN box = 1 .. Len(box) /\ Len(box) \in Nat \ {0} /\ Head(box) = box[1]
      /\ \A i \in DOMAIN Tail(box) : Tail(box)[i] = box[i + 1]
  OBVIOUS
<1>3. Range(Tail(box)) \subseteq Range(box)
  BY RangeTail
<1>4. \A y \in Range(box) : y = Head(box) \/ y \in Range(Tail(box))
  <2> SUFFICES ASSUME NEW i \in DOMAIN box, i # 1
               PROVE  \E j \in DOMAIN Tail(box) : Tail(box)[j] = box[i]
    BY <1>1, <1>2
  <2>1. i - 1 \in DOMAIN Tail(box) /\ (i - 1) + 1 = i
    BY <1>2
  <2> QED
    BY <1>2, <2>1
<1> QED
  BY <1>1, <1>2, <1>3, <1>4

\* A letter of another kind behind it changes nothing for an update in the mailbox.
LEMMA MailAppended ==
  ASSUME NEW box \in Seq(Internal), NEW x \in Internal, NEW e, x # Established(e),
         NEW f, NEW s, InMail(box, e, f, s)
  PROVE  InMail(Append(box, x), e, f, s)
<1> DEFINE more == Append(box, x)
<1>1. /\ DOMAIN box = 1 .. Len(box) /\ Len(box) \in Nat
      /\ DOMAIN more = 1 .. (Len(box) + 1)
      /\ \A i \in 1 .. Len(box) : more[i] = box[i]
      /\ more[Len(box) + 1] = x
  BY SeqFacts
<1>2. PICK i \in DOMAIN box : /\ box[i].kind = "Broadcast" /\ Brings(box[i].update, f, s)
                              /\ \A j \in DOMAIN box : j > i => box[j] # Established(e)
  BY DEF InMail
<1> HIDE DEF more
<1>3. i \in DOMAIN more /\ more[i] = box[i]
  BY <1>1
<1>4. \A j \in DOMAIN more : j > i => more[j] # Established(e)
  <2> SUFFICES ASSUME NEW j \in DOMAIN more, j > i PROVE more[j] # Established(e)
    OBVIOUS
  <2>1. j \in DOMAIN box \/ j = Len(box) + 1
    BY <1>1
  <2> QED
    BY <1>1, <1>2, <2>1
<1>5. InMail(more, e, f, s)
  BY <1>2, <1>3, <1>4 DEF InMail
<1> QED
  BY <1>5 DEF more

\* The update that is posted now is heard by every session announced before.
LEMMA MailPosted ==
  ASSUME NEW box \in Seq(Internal), NEW u, Broadcast(u) \in Internal, NEW e,
         NEW f, NEW s, Brings(u, f, s)
  PROVE  InMail(Append(box, Broadcast(u)), e, f, s)
<1> DEFINE x == Broadcast(u)
           more == Append(box, x)
           last == Len(box) + 1
<1>1. /\ Len(box) \in Nat
      /\ DOMAIN more = 1 .. (Len(box) + 1)
      /\ more[Len(box) + 1] = x
  BY SeqFacts
<1>2. x.kind = "Broadcast" /\ x.update = u
  BY DEF Broadcast
<1> HIDE DEF more, x
<1>3. last \in DOMAIN more /\ \A j \in DOMAIN more : ~(j > last)
  BY <1>1
<1>4. InMail(more, e, f, s)
  BY <1>1, <1>2, <1>3 DEF InMail
<1> QED
  BY <1>4 DEF more, x

\* Taking the head of the mailbox takes an update only if it is the head, and then no
\* Established(e) is left.
LEMMA MailTakenOff ==
  ASSUME NEW box \in Seq(Internal), box # <<>>, NEW e, NEW f, NEW s, InMail(box, e, f, s)
  PROVE  \/ InMail(Tail(box), e, f, s)
         \/ /\ Head(box).kind = "Broadcast" /\ Brings(Head(box).update, f, s)
            /\ Established(e) \notin Range(Tail(box))
<1> DEFINE rest == Tail(box)
<1>1. /\ DOMAIN rest = 1 .. (Len(box) - 1)
      /\ DOMAIN box = 1 .. Len(box) /\ Len(box) \in Nat \ {0} /\ Head(box) = box[1]
      /\ \A i \in DOMAIN rest : rest[i] = box[i + 1]
      /\ \A y : y \in Range(rest) <=> \E i \in DOMAIN rest : rest[i] = y
  BY TailFacts
<1>2. PICK i \in DOMAIN box : /\ box[i].kind = "Broadcast" /\ Brings(box[i].update, f, s)
                              /\ \A j \in DOMAIN box : j > i => box[j] # Established(e)
  BY DEF InMail
<1> HIDE DEF rest
<1>3. \A j \in DOMAIN rest : j + 1 > i => rest[j] # Established(e)
  <2> SUFFICES ASSUME NEW j \in DOMAIN rest, j + 1 > i PROVE rest[j] # Established(e)
    OBVIOUS
  <2>1. j + 1 \in DOMAIN box /\ rest[j] = box[j + 1]
    BY <1>1
  <2> QED
    BY <1>2, <2>1
<1>4. CASE i = 1
  <2>1. \A j \in DOMAIN rest : j + 1 > i
    BY <1>1, <1>4
  <2>2. Established(e) \notin Range(rest)
    BY <1>1, <1>3, <2>1
  <2> QED
    BY <1>1, <1>2, <1>4, <2>2 DEF rest
<1>5. CASE i # 1
  <2>1. i - 1 \in DOMAIN rest /\ (i - 1) + 1 = i
    BY <1>1, <1>5
  <2>2. rest[i - 1] = box[i]
    BY <1>1, <2>1
  <2>3. \A j \in DOMAIN rest : j > i - 1 => j + 1 > i
    BY <1>1, <2>1
  <2>4. InMail(rest, e, f, s)
    BY <1>2, <1>3, <2>1, <2>2, <2>3 DEF InMail
  <2> QED
    BY <2>4 DEF rest
<1> QED
  BY <1>4, <1>5

\* An end is what its parts say; the letters name what they are about.
LEMMA LetterFacts ==
  /\ \A a, b \in End : a[1] = b[1] /\ a[2] = b[2] /\ a[3] = b[3] => a = b
  /\ \A a, b : Established(a) = Established(b) => a = b
  /\ \A a : Established(a).kind = "Established" /\ Established(a).end = a
  /\ \A a \in End : Established(a) \in Internal
  /\ \A x \in Internal : x.kind = "Established" => x.end \in End /\ x = Established(x.end)
  /\ \A p \in Machine : Closed(p) \in Internal /\ Closed(p).kind = "Closed"
  /\ \A u \in WorkspaceUpdate : Broadcast(u) \in Internal /\ Broadcast(u).kind = "Broadcast"
<1>1. \A a, b \in End : a[1] = b[1] /\ a[2] = b[2] /\ a[3] = b[3] => a = b
  BY DEF End
<1>2. \A a : Established(a).kind = "Established" /\ Established(a).end = a
  BY DEF Established
<1>3. \A a, b : Established(a) = Established(b) => a = b
  BY <1>2
<1>4. \A a \in End : Established(a) \in Internal
  BY DEF Established, Internal
<1>5. \A x \in Internal : x.kind = "Established" => x.end \in End /\ x = Established(x.end)
  BY DEF Established, Internal
<1>6. /\ \A p \in Machine : Closed(p) \in Internal /\ Closed(p).kind = "Closed"
      /\ \A u \in WorkspaceUpdate : Broadcast(u) \in Internal /\ Broadcast(u).kind = "Broadcast"
  BY DEF Closed, Broadcast, Internal
<1> QED
  BY <1>1, <1>2, <1>3, <1>4, <1>5, <1>6

\* Taking the other end twice leads back.
LEMMA PeerTwice ==
  ASSUME NEW e \in End
  PROVE  Peer(Peer(e)) = e /\ (\A d \in End : Peer(d) = e => d = Peer(e))
BY DEF End, Peer

\* A step that takes nothing away from a session in sync.
LEMMA KeepsBy ==
  ASSUME NEW e \in End, InSync(e)' => InSync(e),
         unsent[e[1]] \subseteq unsent'[e[1]],
         \A f \in Field, s \in Stamp :
           InMail(inbox[e[1]], e, f, s) => InMail(inbox'[e[1]], e, f, s),
         Range(queue[e]) \subseteq Range(queue'[e]),
         Range(wire[e]) \subseteq Range(wire'[e])
  PROVE  Keeps(e)
<1>1. ASSUME NEW f \in Field, NEW s \in Stamp, OnItsWay(e, f, s)
      PROVE  OnItsWay(e, f, s)'
  <2>1. CASE \E u \in unsent[e[1]] : Brings(u, f, s)
    BY <2>1 DEF OnItsWay
  <2>2. CASE InMail(inbox[e[1]], e, f, s)
    BY <2>2 DEF OnItsWay
  <2>3. CASE \E u \in Range(queue[e]) : Brings(u, f, s)
    BY <2>3 DEF OnItsWay
  <2>4. CASE InWire(Range(wire[e]), f, s)
    <3>1. InWire(Range(wire'[e]), f, s)
      BY <2>4 DEF InWire
    <3> QED
      BY <3>1 DEF OnItsWay
  <2> QED
    BY <1>1, <2>1, <2>2, <2>3, <2>4 DEF OnItsWay
<1> QED
  BY <1>1 DEF Keeps

\* A step that does not come near a session.
LEMMA KeepsApart ==
  ASSUME NEW e \in End, phase'[e] = phase[e],
         phase'[Peer(e)] # "closed" => phase[Peer(e)] # "closed",
         outbound'[e[1]][e[2]] \in {None, outbound[e[1]][e[2]]},
         inbox'[e[1]] = inbox[e[1]], unsent[e[1]] \subseteq unsent'[e[1]],
         queue'[e] = queue[e], wire'[e] = wire[e]
  PROVE  Keeps(e)
<1>1. e[3] # None
  BY EndFacts, ConnectionAssumption
<1>2. InSync(e)' => InSync(e)
  BY <1>1 DEF InSync, SenderAlive
<1> QED
  BY <1>2, KeepsBy

\* A session that is not up at both ends after the step.
LEMMA KeepsOut ==
  ASSUME NEW e \in End, phase'[e] # "live" \/ phase'[Peer(e)] = "closed"
  PROVE  Keeps(e)
BY DEF Keeps, InSync

\* The end of a session at one end ends it for both.
LEMMA HangupStaysKept ==
  ASSUME TypeOK, NEW d \in End, NEW kept, Hangup(d, kept),
         UNCHANGED <<unsent, outbound>>,
         UNCHANGED inbox \/ ReportClosed(d), NEW e \in End
  PROVE  Keeps(e)
<1> DEFINE last == IF phase[Peer(d)] = "closed" THEN <<>> ELSE Append(kept, Eof)
<1>1. /\ phase' = [phase EXCEPT ![d] = "closed"]
      /\ queue' = [queue EXCEPT ![d] = <<>>]
      /\ wire' = [wire EXCEPT ![Peer(d)] = <<>>, ![d] = last]
  BY DEF Hangup
<1> HIDE DEF last
<1>2. /\ Peer(d) \in End /\ Peer(e) \in End /\ d[1] \in Machine /\ d[2] \in Machine
      /\ e[1] \in Machine
  BY EndFacts
<1>3. CASE e = d
  BY <1>1, <1>3, KeepsOut DEF TypeOK
<1>4. CASE Peer(e) = d
  BY <1>1, <1>2, <1>4, KeepsOut DEF TypeOK
<1>5. CASE e # d /\ Peer(e) # d
  <2>1. e # Peer(d)
    BY <1>5, PeerTwice
  <2>2. /\ phase'[e] = phase[e] /\ phase'[Peer(e)] = phase[Peer(e)]
        /\ queue'[e] = queue[e] /\ wire'[e] = wire[e]
    BY <1>1, <1>2, <1>5, <2>1 DEF TypeOK
  <2>3. CASE inbox' = inbox
    BY <2>2, <2>3, KeepsApart
  <2>4. CASE ReportClosed(d)
    <3>1. inbox' = [inbox EXCEPT ![d[1]] = Append(inbox[d[1]], Closed(d[2]))]
      BY <2>4 DEF ReportClosed
    <3>2. inbox[e[1]] \in Seq(Internal)
      BY <1>2 DEF TypeOK
    <3>3. Closed(d[2]) \in Internal /\ Closed(d[2]) # Established(e)
      BY <1>2, LetterFacts
    <3>4. inbox'[e[1]] \in {inbox[e[1]], Append(inbox[e[1]], Closed(d[2]))}
      BY <1>2, <3>1 DEF TypeOK
    <3>5. \A y \in Range(Append(inbox[e[1]], Closed(d[2]))) :
            y \in Range(inbox[e[1]]) \/ y = Closed(d[2])
      BY <3>2, <3>3, RangeAppend
    <3>6. Established(e) \in Range(inbox'[e[1]]) => Established(e) \in Range(inbox[e[1]])
      BY <3>3, <3>4, <3>5
    <3>7. InSync(e)' => InSync(e)
      BY <2>2, <3>6 DEF InSync, SenderAlive
    <3>8. \A f \in Field, s \in Stamp :
            InMail(inbox[e[1]], e, f, s) => InMail(inbox'[e[1]], e, f, s)
      BY <3>2, <3>3, <3>4, MailAppended
    <3> QED
      BY <2>2, <3>7, <3>8, KeepsBy
  <2> QED
    BY <2>3, <2>4
<1> QED
  BY <1>3, <1>4, <1>5

\* A session that starts is not yet in sync.
LEMMA ConnectKeeps ==
  ASSUME TypeOK, NEW d \in End, Connect(d), NEW e \in End
  PROVE  Keeps(e)
<1>1. /\ phase' = [phase EXCEPT ![d] = "identified", ![Peer(d)] = "identified"]
      /\ UNCHANGED <<unsent, inbox, outbound, queue, wire>>
  BY DEF Connect, agent
<1>2. Peer(d) \in End /\ Peer(e) \in End /\ Peer(d) # d
  BY EndFacts
<1>3. CASE e = d \/ e = Peer(d)
  BY <1>1, <1>2, <1>3, KeepsOut DEF TypeOK
<1>4. CASE e # d /\ e # Peer(d)
  <2>1. Peer(e) # d /\ Peer(e) # Peer(d)
    BY <1>4, PeerTwice
  <2>2. phase'[e] = phase[e] /\ phase'[Peer(e)] = phase[Peer(e)]
    BY <1>1, <1>2, <1>4, <2>1 DEF TypeOK
  <2> QED
    BY <1>1, <2>2, KeepsApart
<1> QED
  BY <1>3, <1>4

\* The announcement of one session changes nothing for another.
LEMMA AnnounceKeeps ==
  ASSUME TypeOK, NEW d \in End, Announce(d), NEW e \in End
  PROVE  Keeps(e)
<1>1. /\ phase[d] = "identified"
      /\ inbox' = [inbox EXCEPT ![d[1]] = Append(inbox[d[1]], Established(d))]
      /\ phase' = [phase EXCEPT ![d] = "announced"]
      /\ UNCHANGED <<unsent, outbound, queue, wire>>
  BY DEF Announce, agent
<1>2. d[1] \in Machine /\ e[1] \in Machine /\ Peer(e) \in End
  BY EndFacts
<1>3. CASE e = d
  BY <1>1, <1>3, KeepsOut DEF TypeOK
<1>4. CASE e # d
  <2>1. Established(d) \in Internal /\ Established(d) # Established(e)
    BY <1>4, LetterFacts
  <2>2. inbox[e[1]] \in Seq(Internal)
    BY <1>2 DEF TypeOK
  <2>3. inbox'[e[1]] \in {inbox[e[1]], Append(inbox[e[1]], Established(d))}
    BY <1>1, <1>2 DEF TypeOK
  <2>4. \A y \in Range(Append(inbox[e[1]], Established(d))) :
          y \in Range(inbox[e[1]]) \/ y = Established(d)
    BY <2>1, <2>2, RangeAppend
  <2>5. Established(e) \in Range(inbox'[e[1]]) => Established(e) \in Range(inbox[e[1]])
    BY <2>1, <2>3, <2>4
  <2>6. phase'[e] = phase[e] /\ (phase'[Peer(e)] # "closed" => phase[Peer(e)] # "closed")
    BY <1>1, <1>2, <1>4 DEF TypeOK
  <2>7. InSync(e)' => InSync(e)
    BY <1>1, <2>5, <2>6 DEF InSync, SenderAlive
  <2>8. \A f \in Field, s \in Stamp :
          InMail(inbox[e[1]], e, f, s) => InMail(inbox'[e[1]], e, f, s)
    BY <2>1, <2>2, <2>3, MailAppended
  <2> QED
    BY <1>1, <2>7, <2>8, KeepsBy
<1> QED
  BY <1>3, <1>4

\* The snapshot of one session changes nothing for another.
LEMMA SendDocKeeps ==
  ASSUME TypeOK, NEW d \in End, SendDoc(d), NEW e \in End, e # d
  PROVE  Keeps(e)
<1> DEFINE sent == Written(d, DocFull(doc[d[1]]))
<1>1. /\ phase[d] = "announced"
      /\ phase' = [phase EXCEPT ![d] = "live"]
      /\ wire' = [wire EXCEPT ![d] = sent]
      /\ UNCHANGED <<unsent, inbox, outbound, queue>>
  BY DEF SendDoc, agent, actor
<1> HIDE DEF sent
<1>2. Peer(e) \in End
  BY EndFacts
<1>3. /\ phase'[e] = phase[e] /\ (phase'[Peer(e)] # "closed" => phase[Peer(e)] # "closed")
      /\ wire'[e] = wire[e]
  BY <1>1, <1>2 DEF TypeOK
<1> QED
  BY <1>1, <1>3, KeepsApart

\* The writer takes the update from the queue to the connection.
LEMMA WriterSendKeeps ==
  ASSUME TypeOK, NEW d \in End, WriterSend(d), NEW e \in End
  PROVE  Keeps(e)
<1> DEFINE u == Head(queue[d])
           x == Update(u)
<1>1. /\ queue[d] # <<>>
      /\ queue' = [queue EXCEPT ![d] = Tail(queue[d])]
      /\ wire' = [wire EXCEPT ![d] = Written(d, x)]
      /\ UNCHANGED <<unsent, inbox, outbound, phase>>
  BY DEF WriterSend, agent, actor
<1>2. queue[d] \in Seq(WorkspaceUpdate) /\ wire[d] \in Seq(Frame)
  BY DEF TypeOK
<1>3. /\ u \in WorkspaceUpdate
      /\ \A y \in Range(queue[d]) : y = u \/ y \in Range(Tail(queue[d]))
  BY <1>1, <1>2, TailFacts, RangeTail
<1>4. x \in Frame /\ x.kind = "update" /\ x.update = u
  BY <1>3 DEF Update, Frame
<1> HIDE DEF u, x
<1>5. Range(wire[d]) \subseteq Range(Append(wire[d], x)) /\ x \in Range(Append(wire[d], x))
  BY <1>2, <1>4, SeqFacts
<1>6. CASE e # d
  BY <1>1, <1>6, KeepsApart DEF TypeOK
<1>7. CASE e = d
  <2> SUFFICES ASSUME InSync(e)', NEW f \in Field, NEW s \in Stamp, OnItsWay(e, f, s)
               PROVE  InSync(e) /\ OnItsWay(e, f, s)'
    <3>1. InSync(e)' => InSync(e)
      BY <1>1 DEF InSync, SenderAlive
    <3> QED
      BY <3>1 DEF Keeps
  <2>1. InSync(e) /\ phase[Peer(e)] # "closed"
    BY <1>1 DEF InSync, SenderAlive
  <2>2. /\ wire'[e] = Append(wire[d], x)
        /\ queue'[e] = Tail(queue[d])
    BY <1>1, <1>7, <2>1 DEF TypeOK, Written
  <2>3. CASE \E y \in unsent[e[1]] : Brings(y, f, s)
    BY <1>1, <2>1, <2>3 DEF OnItsWay
  <2>4. CASE InMail(inbox[e[1]], e, f, s)
    BY <1>1, <2>1, <2>4 DEF OnItsWay
  <2>5. CASE \E y \in Range(queue[e]) : Brings(y, f, s)
    <3>1. PICK y \in Range(queue[e]) : Brings(y, f, s)
      BY <2>5
    <3>2. CASE y = u
      <4>1. InWire(Range(wire'[e]), f, s)
        BY <1>4, <1>5, <2>2, <3>1, <3>2 DEF InWire
      <4> QED
        BY <2>1, <4>1 DEF OnItsWay
    <3>3. CASE y \in Range(Tail(queue[d]))
      BY <2>1, <2>2, <3>1, <3>3 DEF OnItsWay
    <3> QED
      BY <1>3, <1>7, <3>1, <3>2, <3>3
  <2>6. CASE InWire(Range(wire[e]), f, s)
    <3>1. InWire(Range(wire'[e]), f, s)
      BY <1>5, <1>7, <2>2, <2>6 DEF InWire
    <3> QED
      BY <2>1, <3>1 DEF OnItsWay
  <2>7. OnItsWay(e, f, s)'
    BY <2>3, <2>4, <2>5, <2>6 DEF OnItsWay
  <2> QED
    BY <2>1, <2>7
<1> QED
  BY <1>6, <1>7

\* A writer that has shut down is out of sync.
LEMMA WriterShutdownKeeps ==
  ASSUME TypeOK, NEW d \in End, WriterShutdown(d), NEW e \in End
  PROVE  Keeps(e)
<1> DEFINE sent == Written(d, Eof)
<1>1. /\ phase[d] = "live"
      /\ phase' = [phase EXCEPT ![d] = "shut"]
      /\ wire' = [wire EXCEPT ![d] = sent]
      /\ UNCHANGED <<unsent, inbox, outbound, queue>>
  BY DEF WriterShutdown, agent, actor
<1> HIDE DEF sent
<1>2. Peer(e) \in End
  BY EndFacts
<1>3. CASE e = d
  BY <1>1, <1>3, KeepsOut DEF TypeOK
<1>4. CASE e # d
  <2>1. /\ phase'[e] = phase[e] /\ (phase'[Peer(e)] # "closed" => phase[Peer(e)] # "closed")
        /\ wire'[e] = wire[e]
    BY <1>1, <1>2, <1>4 DEF TypeOK
  <2> QED
    BY <1>1, <2>1, KeepsApart
<1> QED
  BY <1>3, <1>4

\* What is delivered is not lost: the machine that reads a frame has what it brings.
LEMMA ReadDelivers ==
  ASSUME Inv1, NEW d \in End, ReadDoc(d) \/ ReadUpdate(d), NEW f \in Field, NEW s \in Stamp,
         InWire({Head(wire[Peer(d)])}, f, s)
  PROVE  ~Older(doc'[d[1]].reg[f].stamp, s)
<1> DEFINE mine == doc[d[1]]
           x == Head(wire[Peer(d)])
           got == doc'[d[1]].reg[f]
<1>1. d[1] \in Machine /\ Peer(d) \in End
  BY EndFacts
<1>2. mine \in WorkspaceDoc /\ mine.reg[f] \in Lww
  BY <1>1, Places, Known DEF WorkspaceDoc
<1>3. x \in Range(wire[Peer(d)])
  <2>1. wire[Peer(d)] \in Seq(Frame) /\ wire[Peer(d)] # <<>>
    BY <1>1 DEF Inv1, TypeOK, ReadDoc, ReadUpdate, Reads
  <2> QED
    BY <2>1, RangeTail
<1>4. CASE ReadDoc(d)
  <2>1. x.kind = "doc" /\ doc' = [doc EXCEPT ![d[1]] = Merge(mine, x.doc)]
    BY <1>4 DEF ReadDoc, Reads, Receive
  <2>2. x.doc.reg[f] \in Lww
    BY <1>1, <1>3, <2>1, Places, Known DEF WorkspaceDoc
  <2>3. got = MergeField(f, mine.reg[f], x.doc.reg[f])
    BY <1>1, <2>1 DEF Merge, Inv1, TypeOK
  <2>4. ~Older(x.doc.reg[f].stamp, s)
    BY <2>1 DEF InWire
  <2> HIDE DEF mine, x, got
  <2>5. /\ ~Older(got.stamp, x.doc.reg[f].stamp)
        /\ got.stamp \in Stamp /\ x.doc.reg[f].stamp \in Stamp
    BY <1>2, <2>2, <2>3, MergeFieldType DEF Lww
  <2>6. ~Older(got.stamp, s)
    BY <2>4, <2>5, OlderTotal, OlderTransitive
  <2> QED
    BY <2>6 DEF got
<1>5. CASE ReadUpdate(d)
  <2> DEFINE u == x.update
             w == [value |-> u.value, stamp |-> u.stamp]
  <2>1. x.kind = "update" /\ doc' = [doc EXCEPT ![d[1]] = Apply(mine, u)]
    BY <1>5 DEF ReadUpdate, Reads, Receive
  <2>2. u \in WorkspaceUpdate
    BY <1>1, <1>3, <2>1, Places, Known
  <2>3. u.field = f /\ ~Older(u.stamp, s)
    BY <2>1 DEF InWire, Brings
  <2>4. w \in Lww /\ w.stamp = u.stamp
    BY <2>2 DEF WorkspaceUpdate, Lww
  <2> HIDE DEF u, w
  <2>5. got = Apply(mine, u).reg[f]
    BY <1>1, <2>1 DEF Inv1, TypeOK
  <2>6. Apply(mine, u).reg[f] = MergeField(f, mine.reg[f], w)
    BY <1>2, <2>3 DEF Apply, WorkspaceDoc, w
  <2> HIDE DEF mine, x, got
  <2>7. /\ ~Older(got.stamp, u.stamp)
        /\ got.stamp \in Stamp /\ u.stamp \in Stamp
    BY <1>2, <2>2, <2>4, <2>5, <2>6, MergeFieldType DEF Lww, WorkspaceUpdate
  <2>8. ~Older(got.stamp, s)
    BY <2>3, <2>7, OlderTotal, OlderTransitive
  <2> QED
    BY <2>8 DEF got
<1> QED
  BY <1>4, <1>5

\* A frame that is read arrives; every other session goes on as it was.
LEMMA ReadKeeps ==
  ASSUME Inv1, NEW d \in End, ReadDoc(d) \/ ReadUpdate(d), NEW e \in End
  PROVE  Keeps(e)
<1> DEFINE frames == wire[Peer(d)]
<1>1. /\ frames # <<>>
      /\ wire' = [wire EXCEPT ![Peer(d)] = Tail(frames)]
      /\ UNCHANGED <<unsent, inbox, outbound, phase, queue>>
  BY DEF ReadDoc, ReadUpdate, Reads, Receive, actor
<1>2. /\ Peer(d) \in End /\ d[1] \in Machine
      /\ frames \in Seq(Frame)
  BY EndFacts DEF Inv1, TypeOK
<1>3. \A y \in Range(frames) : y = Head(frames) \/ y \in Range(Tail(frames))
  BY <1>1, <1>2, TailFacts
<1>4. CASE e # Peer(d)
  <2>1. wire'[e] = wire[e]
    BY <1>1, <1>4 DEF Inv1, TypeOK
  <2> QED
    BY <1>1, <2>1, KeepsApart
<1>5. CASE e = Peer(d)
  <2>1. e[2] = d[1] /\ wire[e] = frames /\ wire'[e] = Tail(frames)
    BY <1>1, <1>2, <1>5 DEF Inv1, TypeOK, Peer
  <2>2. InSync(e)' => InSync(e)
    BY <1>1 DEF InSync, SenderAlive
  <2>3. ASSUME NEW f \in Field, NEW s \in Stamp, OnItsWay(e, f, s)
        PROVE  OnItsWay(e, f, s)' \/ ~Older(doc'[e[2]].reg[f].stamp, s)
    <3>1. CASE InWire({Head(frames)}, f, s)
      BY <2>1, <3>1, ReadDelivers
    <3>2. CASE InWire(Range(Tail(frames)), f, s)
      BY <2>1, <3>2 DEF OnItsWay
    <3>3. CASE ~InWire(Range(frames), f, s)
      BY <1>1, <2>1, <2>3, <3>3 DEF OnItsWay
    <3>4. CASE InWire(Range(frames), f, s)
      <4>1. InWire({Head(frames)}, f, s) \/ InWire(Range(Tail(frames)), f, s)
        BY <1>3, <3>4 DEF InWire
      <4> QED
        BY <3>1, <3>2, <4>1
    <3> QED
      BY <3>3, <3>4
  <2> QED
    BY <2>2, <2>3 DEF Keeps
<1> QED
  BY <1>4, <1>5

\* What a handler of the actor leaves of the mailbox, seen by a session.
LEMMA MailTail ==
  ASSUME TypeOK, NEW m \in Machine, inbox[m] # <<>>,
         inbox' = [inbox EXCEPT ![m] = Tail(inbox[m])], NEW e \in End
  PROVE  /\ e[1] \in Machine
         /\ e[1] # m => inbox'[e[1]] = inbox[e[1]]
         /\ e[1] = m => inbox'[e[1]] = Tail(inbox[m])
         /\ Range(inbox'[e[1]]) \subseteq Range(inbox[e[1]])
         /\ Head(inbox[m]) \in Range(inbox[m])
         /\ Head(inbox[m]).kind # "Broadcast" =>
              \A f \in Field, s \in Stamp :
                InMail(inbox[e[1]], e, f, s) => InMail(inbox'[e[1]], e, f, s)
<1>1. e[1] \in Machine
  BY EndFacts
<1>2. inbox[m] \in Seq(Internal)
  BY DEF TypeOK
<1>3. Range(Tail(inbox[m])) \subseteq Range(inbox[m]) /\ Head(inbox[m]) \in Range(inbox[m])
  BY <1>2, RangeTail
<1>4. /\ e[1] # m => inbox'[e[1]] = inbox[e[1]]
      /\ e[1] = m => inbox'[e[1]] = Tail(inbox[m])
  BY <1>1 DEF TypeOK
<1>5. ASSUME Head(inbox[m]).kind # "Broadcast", NEW f \in Field, NEW s \in Stamp,
             InMail(inbox[m], e, f, s)
      PROVE  InMail(Tail(inbox[m]), e, f, s)
  BY <1>2, <1>5, MailTakenOff
<1> QED
  BY <1>1, <1>3, <1>4, <1>5

\* An update the actor takes goes into the queue of every session whose sender is in
\* the slot, or that session loses its sender.
LEMMA OnBroadcastKeeps ==
  ASSUME TypeOK, NEW m \in Machine, OnBroadcast(m), NEW e \in End
  PROVE  Keeps(e)
<1> DEFINE u == Head(inbox[m]).update
           fed(x) == x \in Fed(m) /\ Accepts(x)
           row == [p \in Machine |-> IF \E x \in Fed(m) : x[2] = p /\ ~Accepts(x)
                                     THEN None ELSE outbound[m][p]]
<1>1. /\ Mail(m, "Broadcast")
      /\ queue' = [x \in End |-> IF fed(x) THEN Append(queue[x], u) ELSE queue[x]]
      /\ outbound' = [outbound EXCEPT ![m] = row]
      /\ inbox' = [inbox EXCEPT ![m] = Tail(inbox[m])]
      /\ UNCHANGED <<unsent, phase, wire>>
  BY DEF OnBroadcast, agent
<1>2. inbox[m] # <<>> /\ inbox[m] \in Seq(Internal) /\ Head(inbox[m]).kind = "Broadcast"
  BY <1>1 DEF Mail, TypeOK
<1>3. /\ e[1] \in Machine /\ e[2] \in Machine /\ e[3] # None
      /\ queue[e] \in Seq(WorkspaceUpdate)
  BY EndFacts, ConnectionAssumption DEF TypeOK
<1>4. u \in WorkspaceUpdate
  BY <1>2, RangeTail DEF Internal
<1>5. /\ e[1] # m => inbox'[e[1]] = inbox[e[1]]
      /\ e[1] = m => inbox'[e[1]] = Tail(inbox[m])
      /\ Range(inbox'[e[1]]) \subseteq Range(inbox[e[1]])
  BY <1>1, <1>2, MailTail
<1>6. outbound'[e[1]][e[2]] = IF e[1] = m THEN row[e[2]] ELSE outbound[e[1]][e[2]]
  BY <1>1, <1>3 DEF TypeOK
<1>7. outbound'[e[1]][e[2]] \in {None, outbound[e[1]][e[2]]}
  BY <1>3, <1>6
<1>8. ASSUME e[1] = m, outbound'[e[1]][e[2]] = e[3]
      PROVE  fed(e)
  <2>1. row[e[2]] = e[3] /\ e[3] # None
    BY <1>3, <1>6, <1>8
  <2>2. outbound[m][e[2]] = e[3] /\ ~(\E x \in Fed(m) : x[2] = e[2] /\ ~Accepts(x))
    BY <1>3, <2>1
  <2>3. e \in Fed(m)
    BY <1>8, <2>2 DEF Fed
  <2> QED
    BY <2>2, <2>3
<1>9. /\ queue'[e] = IF fed(e) THEN Append(queue[e], u) ELSE queue[e]
      /\ fed(e) => e[1] = m
  BY <1>1 DEF Fed
<1> HIDE DEF row, fed, u
<1>10. InSync(e)' => InSync(e)
  BY <1>1, <1>3, <1>5, <1>7 DEF InSync, SenderAlive
<1>11. Range(queue[e]) \subseteq Range(queue'[e]) /\ (fed(e) => u \in Range(queue'[e]))
  BY <1>3, <1>4, <1>9, SeqFacts
<1>12. CASE e[1] # m
  <2>1. queue'[e] = queue[e] /\ inbox'[e[1]] = inbox[e[1]]
    BY <1>5, <1>9, <1>12
  <2> QED
    BY <1>1, <1>7, <2>1, KeepsApart
<1>13. CASE e[1] = m
  <2> SUFFICES ASSUME InSync(e)', NEW f \in Field, NEW s \in Stamp, OnItsWay(e, f, s)
               PROVE  OnItsWay(e, f, s)'
    BY <1>10 DEF Keeps
  <2>1. CASE InMail(inbox[m], e, f, s)
    <3>1. CASE InMail(Tail(inbox[m]), e, f, s)
      BY <1>5, <1>13, <3>1 DEF OnItsWay
    <3>2. CASE /\ Brings(Head(inbox[m]).update, f, s)
               /\ Established(e) \notin Range(Tail(inbox[m]))
      <4>1. outbound'[e[1]][e[2]] = e[3]
        BY <1>5, <1>13, <3>2 DEF InSync, SenderAlive
      <4>2. u \in Range(queue'[e])
        BY <1>8, <1>11, <1>13, <4>1
      <4>3. Brings(u, f, s)
        BY <3>2 DEF u
      <4> QED
        BY <4>2, <4>3 DEF OnItsWay
    <3> QED
      BY <1>2, <2>1, <3>1, <3>2, MailTakenOff
  <2>2. CASE ~InMail(inbox[m], e, f, s)
    <3>1. CASE \E y \in unsent[e[1]] : Brings(y, f, s)
      BY <1>1, <3>1 DEF OnItsWay
    <3>2. CASE \E y \in Range(queue[e]) : Brings(y, f, s)
      BY <1>11, <3>2 DEF OnItsWay
    <3>3. CASE InWire(Range(wire[e]), f, s)
      BY <1>1, <3>3 DEF OnItsWay
    <3> QED
      BY <1>13, <2>2, <3>1, <3>2, <3>3 DEF OnItsWay
  <2> QED
    BY <2>1, <2>2
<1> QED
  BY <1>12, <1>13

\* The new sender is that of the session it was announced for.
LEMMA OnEstablishedKeeps ==
  ASSUME TypeOK, OwnMail, NEW m \in Machine, OnEstablished(m), NEW e \in End
  PROVE  Keeps(e)
<1> DEFINE x == Head(inbox[m]).end
<1>1. /\ Mail(m, "Established")
      /\ outbound' = [outbound EXCEPT ![m][x[2]] = x[3]]
      /\ inbox' = [inbox EXCEPT ![m] = Tail(inbox[m])]
      /\ UNCHANGED <<unsent, phase, queue, wire>>
  BY DEF OnEstablished, agent, sessions
<1>2. /\ inbox[m] # <<>> /\ Head(inbox[m]).kind = "Established"
      /\ Head(inbox[m]) \in Internal /\ Head(inbox[m]) \in Range(inbox[m])
  BY <1>1, RangeTail DEF Mail, TypeOK
<1>3. x \in End /\ Head(inbox[m]) = Established(x) /\ x[1] = m
  BY <1>2, LetterFacts DEF OwnMail
<1>4. /\ e[1] \in Machine /\ e[2] \in Machine
      /\ Range(inbox'[e[1]]) \subseteq Range(inbox[e[1]])
      /\ \A f \in Field, s \in Stamp :
           InMail(inbox[e[1]], e, f, s) => InMail(inbox'[e[1]], e, f, s)
  BY <1>1, <1>2, MailTail, EndFacts
<1>5. x[2] \in Machine
  BY <1>3, EndFacts
<1> HIDE DEF x
<1>6. outbound'[e[1]][e[2]] = IF e[1] = m /\ e[2] = x[2] THEN x[3] ELSE outbound[e[1]][e[2]]
  BY <1>1, <1>4, <1>5 DEF TypeOK
<1>7. SenderAlive(e)' => SenderAlive(e)
  <2>1. CASE e[1] = m /\ e[2] = x[2] /\ e[3] = x[3]
    <3>1. e = x
      BY <1>3, <2>1, LetterFacts
    <3> QED
      BY <1>2, <1>3, <2>1, <3>1 DEF SenderAlive
  <2>2. CASE ~(e[1] = m /\ e[2] = x[2] /\ e[3] = x[3])
    BY <1>4, <1>6, <2>2 DEF SenderAlive
  <2> QED
    BY <2>1, <2>2
<1>8. InSync(e)' => InSync(e)
  BY <1>1, <1>7 DEF InSync
<1> QED
  BY <1>1, <1>4, <1>8, KeepsBy

\* The end of a session takes a sender away and gives none.
LEMMA OnClosedKeeps ==
  ASSUME TypeOK, NEW m \in Machine, OnClosed(m), NEW e \in End
  PROVE  Keeps(e)
<1> DEFINE p == Head(inbox[m]).peer
<1>1. /\ Mail(m, "Closed")
      /\ outbound' = [outbound EXCEPT ![m][p] = None]
      /\ inbox' = [inbox EXCEPT ![m] = Tail(inbox[m])]
      /\ UNCHANGED <<unsent, phase, queue, wire>>
  BY DEF OnClosed, agent, sessions
<1>2. inbox[m] # <<>> /\ Head(inbox[m]).kind = "Closed"
  BY <1>1 DEF Mail
<1>3. /\ e[1] \in Machine /\ e[2] \in Machine /\ e[3] # None
      /\ Range(inbox'[e[1]]) \subseteq Range(inbox[e[1]])
      /\ \A f \in Field, s \in Stamp :
           InMail(inbox[e[1]], e, f, s) => InMail(inbox'[e[1]], e, f, s)
  BY <1>1, <1>2, MailTail, EndFacts, ConnectionAssumption
<1> HIDE DEF p
<1>4. outbound'[e[1]][e[2]] \in {None, outbound[e[1]][e[2]]}
  BY <1>1, <1>3 DEF TypeOK
<1>5. InSync(e)' => InSync(e)
  BY <1>1, <1>3, <1>4 DEF InSync, SenderAlive
<1> QED
  BY <1>1, <1>3, <1>5, KeepsBy

\* An update that leaves the task that made it is in the mailbox.
LEMMA SendBroadcastKeeps ==
  ASSUME TypeOK, NEW m \in Machine, NEW u \in unsent[m], SendBroadcast(m, u), NEW e \in End
  PROVE  Keeps(e)
<1> DEFINE x == Broadcast(u)
<1>1. /\ unsent' = [unsent EXCEPT ![m] = unsent[m] \ {u}]
      /\ inbox' = [inbox EXCEPT ![m] = Append(inbox[m], x)]
      /\ UNCHANGED <<outbound, phase, queue, wire>>
  BY DEF SendBroadcast, sessions
<1>2. e[1] \in Machine /\ u \in WorkspaceUpdate /\ inbox[m] \in Seq(Internal)
  BY EndFacts DEF TypeOK
<1>3. x \in Internal /\ x # Established(e)
  BY <1>2, LetterFacts
<1> HIDE DEF x
<1>4. CASE e[1] # m
  <2>1. unsent'[e[1]] = unsent[e[1]] /\ inbox'[e[1]] = inbox[e[1]]
    BY <1>1, <1>2, <1>4 DEF TypeOK
  <2> QED
    BY <1>1, <2>1, KeepsApart
<1>5. CASE e[1] = m
  <2>1. unsent'[m] = unsent[m] \ {u} /\ inbox'[m] = Append(inbox[m], x)
    BY <1>1 DEF TypeOK
  <2>2. \A y \in Range(Append(inbox[m], x)) : y \in Range(inbox[m]) \/ y = x
    BY <1>2, <1>3, RangeAppend
  <2>3. InSync(e)' => InSync(e)
    BY <1>1, <1>3, <1>5, <2>1, <2>2 DEF InSync, SenderAlive
  <2>4. ASSUME NEW f \in Field, NEW s \in Stamp, OnItsWay(e, f, s)
        PROVE  OnItsWay(e, f, s)'
    <3>1. CASE Brings(u, f, s)
      <4>1. InMail(Append(inbox[m], x), e, f, s)
        BY <1>2, <1>3, <3>1, MailPosted DEF x
      <4> QED
        BY <1>5, <2>1, <4>1 DEF OnItsWay
    <3>2. CASE ~Brings(u, f, s)
      <4>1. CASE \E y \in unsent[m] : Brings(y, f, s)
        BY <1>5, <2>1, <3>2, <4>1 DEF OnItsWay
      <4>2. CASE InMail(inbox[m], e, f, s)
        <5>1. InMail(Append(inbox[m], x), e, f, s)
          BY <1>2, <1>3, <4>2, MailAppended
        <5> QED
          BY <1>5, <2>1, <5>1 DEF OnItsWay
      <4> QED
        BY <1>1, <1>5, <2>4, <4>1, <4>2 DEF OnItsWay
    <3> QED
      BY <3>1, <3>2
  <2> QED
    BY <2>3, <2>4 DEF Keeps
<1> QED
  BY <1>4, <1>5

\* A crash ends the sessions of the machine and touches no other.
LEMMA CrashKeeps ==
  ASSUME TypeOK, NEW m \in Machine, Crash(m), NEW e \in End
  PROVE  Keeps(e)
<1>1. PICK keep \in BOOLEAN :
        wire' = [x \in End |->
          IF x[2] = m THEN <<>>
          ELSE IF x[1] # m \/ phase[x] = "closed" THEN wire[x]
          ELSE IF phase[Peer(x)] = "closed" THEN <<>>
          ELSE Append(IF keep THEN wire[x] ELSE <<>>, Eof)]
  BY DEF Crash
<1>2. /\ unsent' = [unsent EXCEPT ![m] = {}]
      /\ inbox' = [inbox EXCEPT ![m] = <<>>]
      /\ outbound' = [outbound EXCEPT ![m] = [p \in Machine |-> None]]
      /\ phase' = [x \in End |-> IF x[1] = m THEN "closed" ELSE phase[x]]
      /\ queue' = [x \in End |-> IF x[1] = m THEN <<>> ELSE queue[x]]
  BY DEF Crash
<1>3. Peer(e) \in End /\ Peer(e)[1] = e[2] /\ e[1] \in Machine
  BY EndFacts DEF Peer
<1>4. CASE e[1] = m \/ e[2] = m
  BY <1>2, <1>3, <1>4, KeepsOut
<1>5. CASE e[1] # m /\ e[2] # m
  <2>1. wire'[e] = wire[e]
    BY <1>1, <1>5
  <2>2. /\ phase'[e] = phase[e] /\ phase'[Peer(e)] = phase[Peer(e)] /\ queue'[e] = queue[e]
    BY <1>2, <1>3, <1>5
  <2>3. /\ unsent'[e[1]] = unsent[e[1]] /\ inbox'[e[1]] = inbox[e[1]]
        /\ outbound'[e[1]] = outbound[e[1]]
    BY <1>2, <1>3, <1>5 DEF TypeOK
  <2> QED
    BY <2>1, <2>2, <2>3, KeepsApart
<1> QED
  BY <1>4, <1>5

\* Edits, restarts and stuttering steps take nothing from a session.
LEMMA OthersKeep ==
  ASSUME TypeOK, NEW e \in End,
         \/ UNCHANGED vars
         \/ \E m \in Machine : Restart(m)
         \/ \E m \in Machine, f \in Field, v \in Value \cup {Removed} : Mutate(m, f, v)
  PROVE  Keeps(e)
<1>1. UNCHANGED <<inbox, outbound, phase, queue, wire>>
  BY DEF vars, Restart, Mutate, actor, sessions
<1>2. e[1] \in Machine
  BY EndFacts
<1>3. CASE UNCHANGED unsent
  BY <1>1, <1>3, KeepsApart
<1>4. ASSUME NEW m \in Machine, NEW f \in Field, NEW v \in Value \cup {Removed}, Mutate(m, f, v)
      PROVE  unsent[e[1]] \subseteq unsent'[e[1]]
  <2>1. PICK u : unsent' = [unsent EXCEPT ![m] = unsent[m] \cup {u}]
    BY <1>4 DEF Mutate
  <2> QED
    BY <1>2, <2>1 DEF TypeOK
<1>5. UNCHANGED unsent \/ unsent[e[1]] \subseteq unsent'[e[1]]
  BY <1>4 DEF vars, Restart
<1> QED
  BY <1>1, <1>3, <1>5, KeepsApart

\* Every step of the system keeps every session but the one it starts.
LEMMA StepKeeps ==
  ASSUME Inv1, OwnMail, [Next]_vars, NEW e \in End
  PROVE  Keeps(e) \/ SendDoc(e)
<1>0. TypeOK
  BY DEF Inv1
<1>1. CASE UNCHANGED vars
  BY <1>0, <1>1, OthersKeep
<1>2. ASSUME NEW m \in Machine, Edit(m) PROVE Keeps(e)
  BY <1>0, <1>2, EditMutates, OthersKeep
<1>3. ASSUME NEW m \in Machine, Actor(m) PROVE Keeps(e)
  BY <1>0, <1>3, OnBroadcastKeeps, OnEstablishedKeeps, OnClosedKeeps DEF Actor
<1>4. ASSUME NEW m \in Machine, Crash(m) \/ Restart(m) PROVE Keeps(e)
  BY <1>0, <1>4, CrashKeeps, OthersKeep
<1>5. ASSUME NEW m \in Machine, NEW u \in unsent[m], SendBroadcast(m, u) PROVE Keeps(e)
  BY <1>0, <1>5, SendBroadcastKeeps
<1>6. ASSUME NEW d \in End, Connect(d) PROVE Keeps(e)
  BY <1>0, <1>6, ConnectKeeps
<1>7. ASSUME NEW d \in End, ReadError(d) \/ ReadEof(d) \/ SendDocFails(d) PROVE Keeps(e)
  <2>1. PICK kept : Hangup(d, kept)
    BY <1>7 DEF ReadError, ReadEof, SendDocFails
  <2>2. UNCHANGED <<unsent, outbound>> /\ (UNCHANGED inbox \/ ReportClosed(d))
    BY <1>7 DEF ReadError, ReadEof, SendDocFails, agent
  <2> QED
    BY <1>0, <2>1, <2>2, HangupStaysKept
<1>8. ASSUME NEW d \in End, Session(d) PROVE Keeps(e) \/ SendDoc(e)
  <2>1. CASE Announce(d)
    BY <1>0, <2>1, AnnounceKeeps
  <2>2. CASE SendDoc(d)
    BY <1>0, <2>2, SendDocKeeps
  <2>3. CASE WriterSend(d) \/ WriterShutdown(d)
    BY <1>0, <2>3, WriterSendKeeps, WriterShutdownKeeps
  <2>4. CASE ReadDoc(d) \/ ReadUpdate(d)
    BY <2>4, ReadKeeps
  <2> QED
    BY <1>7, <1>8, <2>1, <2>2, <2>3, <2>4 DEF Session
<1> QED
  BY <1>1, <1>2, <1>3, <1>4, <1>5, <1>6, <1>7, <1>8 DEF Next

\* A machine puts only its own sessions into its mailbox.
LEMMA NextOwnMail ==
  ASSUME TypeOK, OwnMail, [Next]_vars
  PROVE  OwnMail'
<1> DEFINE Fits(m, y) == \/ y \in Range(inbox[m]) \/ y.kind # "Established"
                         \/ \E d \in End : y = Established(d) /\ d[1] = m
           Fit == \A m \in Machine : \A y \in Range(inbox'[m]) : Fits(m, y)
<1>1. ASSUME NEW m \in Machine, NEW x \in Internal,
             inbox' = [inbox EXCEPT ![m] = Append(inbox[m], x)], Fits(m, x)
      PROVE  Fit
  <2>1. inbox[m] \in Seq(Internal)
    BY DEF TypeOK
  <2>2. \A y \in Range(Append(inbox[m], x)) : y \in Range(inbox[m]) \/ y = x
    BY <2>1, RangeAppend
  <2>3. \A n \in Machine : inbox'[n] = IF n = m THEN Append(inbox[m], x) ELSE inbox[n]
    BY <1>1 DEF TypeOK
  <2> QED
    BY <1>1, <2>2, <2>3
<1>2. ASSUME \A m \in Machine : Range(inbox'[m]) \subseteq Range(inbox[m])
      PROVE  Fit
  BY <1>2
<1>3. UNCHANGED inbox => Fit
  BY <1>2
<1>4. ASSUME NEW m \in Machine, Actor(m) PROVE Fit
  <2>1. PICK k : Mail(m, k) /\ inbox' = [inbox EXCEPT ![m] = Tail(inbox[m])]
    BY <1>4 DEF Actor, OnBroadcast, OnEstablished, OnClosed
  <2>2. \A n \in Machine : \A x \in Range(inbox'[n]) : x \in Range(inbox[n])
    BY <2>1, MailTaken
  <2> QED
    BY <1>2, <2>2
<1>5. ASSUME NEW m \in Machine, Crash(m) PROVE Fit
  <2>1. \A n \in Machine : inbox'[n] = <<>> \/ inbox'[n] = inbox[n]
    BY <1>5 DEF Crash, TypeOK
  <2> QED
    BY <1>2, <2>1, RangeEmpty
<1>6. ASSUME NEW m \in Machine, NEW u \in unsent[m], SendBroadcast(m, u) PROVE Fit
  <2>1. Broadcast(u) \in Internal /\ Broadcast(u).kind # "Established"
    BY LetterFacts DEF TypeOK
  <2> QED
    BY <1>1, <1>6, <2>1 DEF SendBroadcast
<1>7. ASSUME NEW d \in End, ReportClosed(d) PROVE Fit
  <2>1. Closed(d[2]) \in Internal /\ Closed(d[2]).kind # "Established" /\ d[1] \in Machine
    BY EndFacts, LetterFacts
  <2> QED
    BY <1>1, <1>7, <2>1 DEF ReportClosed
<1>8. ASSUME NEW d \in End, Announce(d) PROVE Fit
  <2>1. Established(d) \in Internal /\ d[1] \in Machine
    BY EndFacts, LetterFacts
  <2>2. Fits(d[1], Established(d))
    OBVIOUS
  <2> HIDE DEF Fits, Fit
  <2> QED
    BY <1>1, <1>8, <2>1, <2>2 DEF Announce
<1> HIDE DEF Fit
<1>9. ASSUME NEW d \in End, Session(d) \/ Connect(d) \/ ReadError(d) PROVE Fit
  BY <1>3, <1>7, <1>8, <1>9
     DEF Session, Connect, ReadError, SendDoc, SendDocFails, WriterSend, WriterShutdown,
         ReadDoc, ReadUpdate, ReadEof, Receive, agent, actor
<1>10. ASSUME NEW m \in Machine, Edit(m) \/ Restart(m) PROVE Fit
  BY <1>3, <1>10, EditMutates DEF Mutate, Restart, actor
<1>11. UNCHANGED vars => Fit
  BY <1>3 DEF vars
<1>12. Fit
  BY <1>4, <1>5, <1>6, <1>9, <1>10, <1>11 DEF Next
<1>13. ASSUME NEW e \in End, NEW m \in Machine, Established(e) \in Range(inbox'[m])
       PROVE  m = e[1]
  <2>1. Fits(m, Established(e))
    BY <1>12, <1>13 DEF Fit
  <2>2. Established(e).kind = "Established"
    BY LetterFacts
  <2>3. \A d \in End : Established(e) = Established(d) => d = e
    BY LetterFacts
  <2> QED
    BY <2>1, <2>2, <2>3 DEF OwnMail
<1> QED
  BY <1>13 DEF OwnMail

\* What a step adds to the writes: nothing, or the write of one edit, which is waiting to
\* be broadcast.
LEMMA StepWrites ==
  ASSUME ~PersistMayFail, Inv2, [Next]_vars
  PROVE  /\ Inv2' /\ Forward
         /\ \/ Writes' \subseteq Writes
            \/ \E m \in Machine, f \in Field, v \in Value \cup {Removed},
                  u \in WorkspaceUpdate :
                 /\ Writes' \subseteq Writes \cup {<<f, u.stamp, v>>}
                 /\ u.field = f /\ u.stamp.origin = m
                 /\ u \in unsent'[m] /\ doc'[m].reg[f].stamp = u.stamp
<1>1. Inv1 /\ TypeOK
  BY DEF Inv2, Inv1
<1>2. Inv1'
  BY <1>1, NextInv1
<1>3. Inv2' /\ Forward
  BY NextInv2
<1>4. ASSUME NEW m \in Machine, NEW f \in Field, NEW v \in Value \cup {Removed},
             Mutate(m, f, v)
      PROVE  \E u \in WorkspaceUpdate :
               /\ Writes' \subseteq Writes \cup {<<f, u.stamp, v>>}
               /\ u.field = f /\ u.stamp.origin = m
               /\ u \in unsent'[m] /\ doc'[m].reg[f].stamp = u.stamp
  <2> DEFINE u == UpdateOf(doc[m], m, f, v)
  <2>1. /\ Writes' \subseteq Writes \cup {<<f, u.stamp, v>>}
        /\ u.field = f /\ u.stamp.origin = m
        /\ u \in unsent'[m] /\ doc'[m].reg[f].stamp = u.stamp
    BY <1>2, <1>4, MutateInv2
  <2>2. u \in WorkspaceUpdate
    BY <1>2, <2>1 DEF Inv1, TypeOK
  <2> HIDE DEF u
  <2> QED
    BY <2>1, <2>2
<1>5. ASSUME NEW e \in End, ReadDoc(e) \/ ReadUpdate(e) PROVE Writes' \subseteq Writes
  BY <1>2, <1>5, ReceiveInv2
<1>6. ASSUME Quiet, UNCHANGED <<doc, disk>> \/ \E m \in Machine : Restart(m)
      PROVE  Writes' \subseteq Writes
  BY <1>2, <1>6, QuietInv2
<1> QED
  BY <1>1, <1>3, <1>4, <1>5, <1>6, StepKinds

\* A write is one of a register of the document, made by a machine.
LEMMA WriteParts ==
  ASSUME Inv1
  PROVE  \A w \in Writes : w[1] \in Field /\ w[2] \in Stamp /\ w[2].origin \in Machine
<1>1. \A u \in AllUpdates : u.field \in Field
  BY Known DEF WorkspaceUpdate
<1>2. \A w \in Writes : w[1] \in Field
  BY <1>1 DEF Writes
<1> QED
  BY <1>2, WritesTyped

\* A register that reached a stamp stays at or above it.
LEMMA StaysKnown ==
  ASSUME Inv1, Inv1', Forward, NEW m \in Machine, NEW f \in Field, NEW s \in Stamp,
         ~Older(doc[m].reg[f].stamp, s)
  PROVE  ~Older(doc'[m].reg[f].stamp, s)
<1> DEFINE a == doc[m].reg[f].stamp
           b == doc'[m].reg[f].stamp
<1>1. a \in Stamp /\ b \in Stamp
  BY DEF Inv1, TypeOK, WorkspaceDoc, Lww
<1>2. ~Older(b, a) /\ ~Older(a, s)
  BY DEF Forward
<1> HIDE DEF a, b
<1>3. ~Older(b, s)
  BY <1>1, <1>2, OlderTotal, OlderTransitive
<1> QED
  BY <1>3 DEF b

\* The author of a write has it when it is made and keeps it.
LEMMA NextOwnKnown ==
  ASSUME ~PersistMayFail, Inv2, OwnKnown, [Next]_vars
  PROVE  OwnKnown'
<1>1. Inv1 /\ Inv1' /\ Inv2' /\ Forward
  BY StepWrites DEF Inv2
<1>2. ASSUME NEW w \in Writes
      PROVE  ~Older(doc'[w[2].origin].reg[w[1]].stamp, w[2])
  <2>1. w[1] \in Field /\ w[2] \in Stamp /\ w[2].origin \in Machine
    BY <1>1, WriteParts
  <2>2. ~Older(doc[w[2].origin].reg[w[1]].stamp, w[2])
    BY DEF OwnKnown
  <2> QED
    BY <1>1, <2>1, <2>2, StaysKnown
<1>3. ASSUME NEW m \in Machine, NEW f \in Field, NEW u \in WorkspaceUpdate, NEW v,
             u.stamp.origin = m, doc'[m].reg[f].stamp = u.stamp,
             NEW w, w = <<f, u.stamp, v>>
      PROVE  ~Older(doc'[w[2].origin].reg[w[1]].stamp, w[2])
  <2>1. u.stamp \in Stamp
    BY DEF WorkspaceUpdate
  <2>2. w[1] = f /\ w[2] = u.stamp
    BY <1>3
  <2> QED
    BY <1>3, <2>1, <2>2, OlderTotal
<1>4. \A w \in Writes' : ~Older(doc'[w[2].origin].reg[w[1]].stamp, w[2])
  <2>1. CASE Writes' \subseteq Writes
    BY <1>2, <2>1
  <2>2. CASE ~(Writes' \subseteq Writes)
    <3>1. PICK m \in Machine, f \in Field, v \in Value \cup {Removed}, u \in WorkspaceUpdate :
            /\ Writes' \subseteq Writes \cup {<<f, u.stamp, v>>}
            /\ u.stamp.origin = m /\ doc'[m].reg[f].stamp = u.stamp
      BY <2>2, StepWrites
    <3> QED
      BY <1>2, <1>3, <3>1
  <2> QED
    BY <2>1, <2>2
<1> QED
  BY <1>4 DEF OwnKnown

\* The snapshot a session starts with has everything its machine wrote before.
LEMMA SnapshotBrings ==
  ASSUME TypeOK, NEW e \in End, SendDoc(e), InSync(e)', NEW f \in Field, NEW s \in Stamp,
         ~Older(doc[e[1]].reg[f].stamp, s)
  PROVE  OnItsWay(e, f, s)'
<1> DEFINE x == DocFull(doc[e[1]])
<1>1. /\ phase' = [phase EXCEPT ![e] = "live"]
      /\ wire' = [wire EXCEPT ![e] = Written(e, x)]
  BY DEF SendDoc
<1>2. e[1] \in Machine /\ Peer(e) \in End /\ Peer(e) # e
  BY EndFacts
<1>3. x \in Frame /\ x.kind = "doc" /\ x.doc = doc[e[1]]
  BY <1>2 DEF DocFull, Frame, TypeOK
<1> HIDE DEF x
<1>4. phase[Peer(e)] # "closed"
  BY <1>1, <1>2 DEF TypeOK, InSync
<1>5. wire'[e] = Append(wire[e], x) /\ wire[e] \in Seq(Frame)
  BY <1>1, <1>4 DEF TypeOK, Written
<1>6. x \in Range(wire'[e])
  BY <1>3, <1>5, SeqFacts
<1>7. InWire(Range(wire'[e]), f, s)
  BY <1>3, <1>6 DEF InWire
<1> QED
  BY <1>7 DEF OnItsWay

\* Every step of the system keeps what sessions promise.
LEMMA NextWritesArrive ==
  ASSUME ~PersistMayFail, Inv3, [Next]_vars
  PROVE  WritesArrive'
<1>1. Inv2 /\ OwnMail /\ OwnKnown /\ WritesArrive
  BY DEF Inv3
<1>2. Inv1 /\ TypeOK /\ Inv1' /\ Forward
  BY <1>1, StepWrites DEF Inv2, Inv1
<1>3. ASSUME NEW e \in End, NEW w \in Writes, InSync(e)', w[2].origin = e[1]
      PROVE  ~Older(doc'[e[2]].reg[w[1]].stamp, w[2]) \/ OnItsWay(e, w[1], w[2])'
  <2>1. w[1] \in Field /\ w[2] \in Stamp /\ e[2] \in Machine
    BY <1>2, WriteParts, EndFacts
  <2>2. CASE SendDoc(e)
    <3>1. ~Older(doc[e[1]].reg[w[1]].stamp, w[2])
      BY <1>1, <1>3 DEF OwnKnown
    <3> QED
      BY <1>2, <1>3, <2>1, <2>2, <3>1, SnapshotBrings
  <2>3. CASE Keeps(e)
    <3>1. /\ InSync(e)
          /\ OnItsWay(e, w[1], w[2]) =>
               OnItsWay(e, w[1], w[2])' \/ ~Older(doc'[e[2]].reg[w[1]].stamp, w[2])
      BY <1>3, <2>1, <2>3 DEF Keeps
    <3>2. CASE ~Older(doc[e[2]].reg[w[1]].stamp, w[2])
      BY <1>2, <2>1, <3>2, StaysKnown
    <3>3. CASE OnItsWay(e, w[1], w[2])
      BY <3>1, <3>3
    <3> QED
      BY <1>1, <1>3, <3>1, <3>2, <3>3 DEF WritesArrive
  <2> QED
    BY <1>1, <1>2, <2>2, <2>3, StepKeeps
<1>4. ASSUME NEW e \in End, NEW f \in Field, NEW u \in WorkspaceUpdate,
             u.field = f, u \in unsent'[e[1]]
      PROVE  OnItsWay(e, f, u.stamp)'
  <2>1. u.stamp \in Stamp
    BY DEF WorkspaceUpdate
  <2>2. Brings(u, f, u.stamp)
    BY <1>4, <2>1, OlderTotal DEF Brings
  <2> QED
    BY <1>4, <2>2 DEF OnItsWay
<1>5. ASSUME NEW e \in End, NEW w \in Writes', InSync(e)', w[2].origin = e[1]
      PROVE  ~Older(doc'[e[2]].reg[w[1]].stamp, w[2]) \/ OnItsWay(e, w[1], w[2])'
  <2>1. CASE w \in Writes
    BY <1>3, <1>5, <2>1
  <2>2. CASE w \notin Writes
    <3>1. PICK m \in Machine, f \in Field, v \in Value \cup {Removed}, u \in WorkspaceUpdate :
            /\ Writes' \subseteq Writes \cup {<<f, u.stamp, v>>}
            /\ u.field = f /\ u.stamp.origin = m /\ u \in unsent'[m]
      BY <1>1, <2>2, StepWrites
    <3>2. w = <<f, u.stamp, v>>
      BY <2>2, <3>1
    <3>3. w[1] = f /\ w[2] = u.stamp /\ e[1] = m
      BY <1>5, <3>1, <3>2
    <3> QED
      BY <1>4, <3>1, <3>3
  <2> QED
    BY <2>1, <2>2
<1> QED
  BY <1>5 DEF WritesArrive

\* At the start nobody is in session.
LEMMA InitInv3 ==
  ASSUME Init PROVE Inv3
<1>1. Inv2 /\ Inv1
  BY InitInv2 DEF Inv2
<1>2. \A e \in End : phase[e] = "closed"
  BY DEF Init
<1>3. WritesArrive
  BY <1>2 DEF WritesArrive, InSync
<1>4. \A m \in Machine : inbox[m] = <<>> /\ unsent[m] = {}
  BY DEF Init
<1>5. OwnMail
  BY <1>4, RangeEmpty DEF OwnMail
<1>6. \A w \in Writes : ~Older(doc[w[2].origin].reg[w[1]].stamp, w[2])
  <2> SUFFICES ASSUME NEW w \in Writes
               PROVE  ~Older(doc[w[2].origin].reg[w[1]].stamp, w[2])
    OBVIOUS
  <2>1. PICK f \in Field : w = <<f, InitialDoc.reg[f].stamp, InitialDoc.reg[f].value>>
    BY InitWrites
  <2>2. w[1] = f /\ w[2] = InitialDoc.reg[f].stamp
    BY <2>1
  <2>3. w[2] \in Stamp /\ w[2].origin \in Machine
    BY <1>1, WriteParts
  <2>4. doc[w[2].origin] = InitialDoc
    BY <2>3, InitWrites
  <2> QED
    BY <2>2, <2>3, <2>4, OlderTotal
<1>7. OwnKnown
  BY <1>6 DEF OwnKnown
<1> QED
  BY <1>1, <1>3, <1>5, <1>7 DEF Inv3

\* Every step of the system keeps Inv3.
LEMMA NextInv3 ==
  ASSUME ~PersistMayFail, Inv3, [Next]_vars PROVE Inv3'
<1>1. Inv2 /\ TypeOK /\ OwnMail /\ OwnKnown
  BY DEF Inv3, Inv2, Inv1
<1> QED
  BY <1>1, NextInv2, NextOwnMail, NextOwnKnown, NextWritesArrive DEF Inv3

\* What is on its way is on its way in the words of the property.
LEMMA OnItsWayIsCarried ==
  ASSUME TypeOK, NEW e \in End, NEW f, NEW s, OnItsWay(e, f, s)
  PROVE  Carried(e, f, s)
<1>1. CASE InMail(inbox[e[1]], e, f, s)
  <2>1. PICK i \in DOMAIN inbox[e[1]] :
          inbox[e[1]][i].kind = "Broadcast" /\ Brings(inbox[e[1]][i].update, f, s)
    BY <1>1 DEF InMail
  <2>2. inbox[e[1]][i] \in Range(inbox[e[1]])
    BY DEF Range
  <2> QED
    BY <2>1, <2>2 DEF Carried, Brings
<1>2. CASE \/ \E u \in unsent[e[1]] : Brings(u, f, s)
           \/ \E u \in Range(queue[e]) : Brings(u, f, s)
  BY <1>2 DEF Carried, Brings
<1>3. CASE InWire(Range(wire[e]), f, s)
  BY <1>3 DEF Carried, InWire, Brings
<1> QED
  BY <1>1, <1>2, <1>3 DEF OnItsWay

\* Two machines in session, nothing under way: the one has every write the other shows.
LEMMA SettledOrder ==
  ASSUME Inv3, Settled, NEW m \in Machine, NEW p \in Machine, NEW f \in Field
  PROVE  ~Older(doc[m].reg[f].stamp, doc[p].reg[f].stamp)
<1> DEFINE w == <<f, doc[p].reg[f].stamp, doc[p].reg[f].value>>
           o == w[2].origin
<1>1. Inv1 /\ TypeOK /\ OwnKnown /\ WritesArrive
  BY DEF Inv3, Inv2, Inv1
<1>2. w \in Writes
  BY <1>1, Places, Known
<1>3. w[1] = f /\ w[2] = doc[p].reg[f].stamp /\ o \in Machine
  BY <1>1, <1>2, WriteParts
<1> HIDE DEF w
<1>4. CASE o = m
  BY <1>1, <1>2, <1>3, <1>4 DEF OwnKnown
<1>5. CASE o # m
  <2>1. PICK c \in Connection : InSync(<<o, m, c>>)
    BY <1>3, <1>5 DEF Settled
  <2> DEFINE e == <<o, m, c>>
  <2>2. e \in End /\ e[1] = o /\ e[2] = m
    BY <1>3, <1>5 DEF End
  <2> HIDE DEF e
  <2>3. InSync(e)
    BY <2>1 DEF e
  <2>4. /\ unsent[e[1]] = {} /\ inbox[e[1]] = <<>>
        /\ queue[e] = <<>> /\ wire[e] = <<>>
    BY <1>3, <2>2 DEF Settled
  <2>5. ~OnItsWay(e, w[1], w[2])
    BY <2>4, RangeEmpty DEF OnItsWay, InMail, InWire
  <2> QED
    BY <1>1, <1>2, <1>3, <2>2, <2>3, <2>5 DEF WritesArrive
<1> QED
  BY <1>4, <1>5

\* Where saving does not fail: while two machines are in session, whatever one of them
\* wrote itself has reached the other or is in its hands, its mailbox, its queue or on
\* the connection.  The edit made while the session starts is in the snapshot or behind
\* Established in the mailbox (session::run hands Established to the actor before it
\* reads the document), and on_broadcast drops no update without dropping the sender.
THEOREM OwnEditsReach ==
  ASSUME ~PersistMayFail PROVE Spec => []OwnEditsArrive
<1>1. Init => Inv3
  BY InitInv3
<1>2. Inv3 /\ [Next]_vars => Inv3'
  BY NextInv3
<1>3. Inv3 => OwnEditsArrive
  <2> SUFFICES ASSUME Inv3, NEW e \in End, NEW f \in Field, InSync(e),
                      doc[e[1]].reg[f].stamp.origin = e[1]
               PROVE  \/ ~Older(doc[e[2]].reg[f].stamp, doc[e[1]].reg[f].stamp)
                      \/ Carried(e, f, doc[e[1]].reg[f].stamp)
    BY DEF OwnEditsArrive
  <2> DEFINE w == <<f, doc[e[1]].reg[f].stamp, doc[e[1]].reg[f].value>>
  <2>1. Inv1 /\ TypeOK /\ WritesArrive /\ e[1] \in Machine
    BY EndFacts DEF Inv3, Inv2, Inv1
  <2>2. w \in Writes
    BY <2>1, Places, Known
  <2>3. w[1] = f /\ w[2] = doc[e[1]].reg[f].stamp
    OBVIOUS
  <2> HIDE DEF w
  <2>4. ~Older(doc[e[2]].reg[f].stamp, w[2]) \/ OnItsWay(e, f, w[2])
    BY <2>1, <2>2, <2>3 DEF WritesArrive
  <2> QED
    BY <2>1, <2>3, <2>4, OnItsWayIsCarried
<1> QED
  BY <1>1, <1>2, <1>3, PTL DEF Spec

\* Where saving does not fail: when every machine is in session with every other and
\* nothing is under way, all of them show the same workspace (requirement 9 of
\* docs/requirements.md), however many machines crashed, and however many sessions
\* broke or were replaced, on the way there.
THEOREM SettledAgree ==
  ASSUME ~PersistMayFail PROVE Spec => []SettledMachinesAgree
<1>1. Init => Inv3
  BY InitInv3
<1>2. Inv3 /\ [Next]_vars => Inv3'
  BY NextInv3
<1>3. Inv3 => SettledMachinesAgree
  <2> SUFFICES ASSUME Inv3, Settled, NEW m \in Machine, NEW p \in Machine
               PROVE  doc[m].reg = doc[p].reg
    BY DEF SettledMachinesAgree
  <2>1. Inv1 /\ TypeOK /\ StampsIdentifyWrites
    BY DEF Inv3, Inv2, Inv1
  <2>2. /\ doc[m] \in AllDocs /\ doc[p] \in AllDocs
        /\ doc[m].reg \in [Field -> Lww] /\ doc[p].reg \in [Field -> Lww]
    BY <2>1, Places DEF TypeOK, WorkspaceDoc
  <2>3. ASSUME NEW f \in Field PROVE doc[m].reg[f] = doc[p].reg[f]
    <3> DEFINE a == doc[m].reg[f]
               b == doc[p].reg[f]
    <3>1. a \in Lww /\ b \in Lww /\ a.stamp \in Stamp /\ b.stamp \in Stamp
      BY <2>2 DEF Lww
    <3>2. ~Older(a.stamp, b.stamp) /\ ~Older(b.stamp, a.stamp)
      BY SettledOrder
    <3>3. <<f, a.stamp, a.value>> \in Writes /\ <<f, b.stamp, b.value>> \in Writes
      BY <2>1, <2>2, Known
    <3> HIDE DEF a, b
    <3>4. a.stamp = b.stamp
      BY <3>1, <3>2, OlderTotal
    <3>5. a.value = b.value
      BY <2>1, <3>3, <3>4 DEF StampsIdentifyWrites
    <3>6. a = b
      BY <3>1, <3>4, <3>5 DEF Lww
    <3> QED
      BY <3>6 DEF a, b
  <2> QED
    BY <2>2, <2>3
<1> QED
  BY <1>1, <1>2, <1>3, PTL DEF Spec

-----------------------------------------------------------------------------
(* The registers of one workspace *)

\* What m shows of f is remembered.
LEMMA ShownRemembered ==
  ASSUME Inv1
  PROVE  \A m \in Machine, f \in Field :
           <<f, doc[m].reg[f].stamp, doc[m].reg[f].value>> \in Writes
BY Known DEF AllDocs

\* The registers of all machines, as SharedRegisters sees them.
Registers == [m \in Machine |-> doc[m].reg]

\* In the beginning every machine shows the initial document.
LEMMA InitShared == Init => Shared!Init
<1> SUFFICES ASSUME Init PROVE Shared!Init
  OBVIOUS
<1>1. /\ \A m \in Machine : doc[m] = InitialDoc
      /\ \A w \in Writes : \E f \in Field :
           w = <<f, InitialDoc.reg[f].stamp, InitialDoc.reg[f].value>>
  BY InitWrites
<1>2. \A m \in Machine, f \in Field : <<f, doc[m].reg[f].stamp, doc[m].reg[f].value>> \in Writes
  BY InitInv1, ShownRemembered
<1>3. PICK x \in Machine : TRUE
  BY MachineAssumption
<1>4. Writes = {<<f, doc[m].reg[f].stamp, doc[m].reg[f].value>> : m \in Machine, f \in Field}
  BY <1>1, <1>2, <1>3
<1> QED
  BY <1>1, <1>4 DEF Shared!Init, Shared!TheWrite

\* A local edit is a write of its register.
LEMMA MutateIsWrite ==
  ASSUME ~PersistMayFail, Inv2, Inv1', NEW m \in Machine, NEW f \in Field,
         NEW v \in Value \cup {Removed}, Mutate(m, f, v)
  PROVE  Shared!Write(m, f)
<1> DEFINE u == UpdateOf(doc[m], m, f, v)
           n == Edited(doc[m], u)
<1>1. Inv1 /\ TypeOK /\ doc[m] \in WorkspaceDoc /\ Covered(doc[m])
  BY Places, Known DEF Inv2, Inv1
<1>2. /\ u.stamp = [lamport |-> doc[m].lamport + 1, origin |-> m]
      /\ \A g \in Field :
           n.reg[g] = IF g = f THEN [value |-> v, stamp |-> u.stamp] ELSE doc[m].reg[g]
  BY <1>1, EditKeeps
<1>3. doc' = [doc EXCEPT ![m] = n]
  BY DEF Mutate
<1>4. Writes' \subseteq Writes \cup {<<f, u.stamp, v>>}
  BY MutateInv2
<1> HIDE DEF u, n
<1>5. /\ doc'[m].reg[f] = [value |-> v, stamp |-> u.stamp]
      /\ \A g \in Field \ {f} : doc'[m].reg[g] = doc[m].reg[g]
      /\ \A k \in Machine \ {m} : doc'[k] = doc[k]
  BY <1>1, <1>2, <1>3 DEF TypeOK
<1>6. u.stamp.origin = m /\ u.stamp.lamport = doc[m].lamport + 1 /\ doc[m].lamport \in Nat
  BY <1>1, <1>2 DEF WorkspaceDoc
<1>7. doc[m].reg[f].stamp.lamport \in Nat /\ doc[m].reg[f].stamp.lamport <= doc[m].lamport
  BY <1>1 DEF Covered, WorkspaceDoc, Lww, Stamp
<1>8. Older(doc[m].reg[f].stamp, u.stamp)
  BY <1>6, <1>7 DEF Older
<1>9. \A w \in Writes : w[2] # u.stamp
  <2>1. \A w \in Writes : w[2].lamport \in Nat /\ w[2].lamport <= disk[w[2].origin].lamport
    BY <1>1, WritesTyped DEF Inv2, OriginClock
  <2>2. disk[m].lamport \in Nat /\ disk[m].lamport <= doc[m].lamport
    BY <1>1 DEF Inv2, Saved, TypeOK, WorkspaceDoc
  <2>3. ASSUME NEW w \in Writes, w[2] = u.stamp PROVE FALSE
    <3>1. w[2].origin = m /\ w[2].lamport = doc[m].lamport + 1
      BY <1>6, <2>3
    <3> QED
      BY <1>6, <2>1, <2>2, <3>1
  <2> QED
    BY <2>3
<1>10. Registers[m] = doc[m].reg /\ Registers'[m] = doc'[m].reg
       /\ \A k \in Machine \ {m} : Registers'[k] = Registers[k]
  BY <1>5 DEF Registers
<1> QED
  BY <1>4, <1>5, <1>6, <1>8, <1>9, <1>10 DEF Registers, Shared!Write, Shared!Alone, Shared!TheWrite

\* A step that invents no write and takes none back makes one machine learn, or none.
LEMMA OthersLearn ==
  ASSUME Inv2, Inv2', NEW m \in Machine, Writes' \subseteq Writes, Forward,
         \A k \in Machine \ {m} : doc'[k].reg = doc[k].reg
  PROVE  Shared!Learn(m)
<1> DEFINE old(f) == doc[m].reg[f]
           new(f) == doc'[m].reg[f]
<1>1. Inv1 /\ Inv1' /\ StampsIdentifyWrites
  BY DEF Inv2
<1>2. \A f \in Field : old(f) \in Lww /\ new(f) \in Lww
  BY <1>1 DEF Inv1, TypeOK, WorkspaceDoc
<1>3. \A f \in Field : /\ <<f, old(f).stamp, old(f).value>> \in Writes
                       /\ <<f, new(f).stamp, new(f).value>> \in Writes
  <2>1. Inv1 => \A k \in Machine, f \in Field :
                  <<f, doc[k].reg[f].stamp, doc[k].reg[f].value>> \in Writes
    BY ShownRemembered
  <2>2. \A k \in Machine, f \in Field :
          <<f, doc'[k].reg[f].stamp, doc'[k].reg[f].value>> \in Writes'
    BY <1>1, Known DEF AllDocs, Writes
  <2> QED
    BY <1>1, <2>1, <2>2
<1>4. ASSUME NEW f \in Field
      PROVE  new(f) = old(f) \/ Older(old(f).stamp, new(f).stamp)
  <2>1. ~Older(new(f).stamp, old(f).stamp)
    BY DEF Forward
  <2>2. old(f).stamp \in Stamp /\ new(f).stamp \in Stamp
    BY <1>2 DEF Lww
  <2>3. old(f).stamp = new(f).stamp \/ Older(old(f).stamp, new(f).stamp)
    BY <2>1, <2>2, OlderTotal
  <2>4. ASSUME old(f).stamp = new(f).stamp PROVE old(f).value = new(f).value
    <3>1. \A v, w \in Writes : v[1] = w[1] /\ v[2] = w[2] => v[3] = w[3]
      BY <1>1 DEF StampsIdentifyWrites
    <3> QED
      BY <1>3, <2>4, <3>1
  <2>5. /\ old(f) = [value |-> old(f).value, stamp |-> old(f).stamp]
        /\ new(f) = [value |-> new(f).value, stamp |-> new(f).stamp]
    BY <1>2 DEF Lww
  <2> QED
    BY <2>3, <2>4, <2>5
<1> HIDE DEF old, new
<1>5. Registers[m] = doc[m].reg /\ Registers'[m] = doc'[m].reg
      /\ \A k \in Machine \ {m} : Registers'[k] = Registers[k]
  BY DEF Registers
<1>6. \A f \in Field : Registers[m][f] = old(f) /\ Registers'[m][f] = new(f)
  BY <1>5 DEF old, new
<1>7. Shared!Alone(m)
  BY <1>5 DEF Registers, Shared!Alone
<1> QED
  BY <1>3, <1>4, <1>6, <1>7 DEF Registers, Shared!Learn, Shared!TheWrite

\* Every step is a write of one machine, or one machine learns what is written.
LEMMA StepIsShared ==
  ASSUME ~PersistMayFail, Inv2, [Next]_vars
  PROVE  Inv2' /\ Shared!Next
<1>1. Inv1 /\ TypeOK /\ Inv1'
  BY NextInv1 DEF Inv2, Inv1
<1>2. Inv2'
  BY NextInv2
<1>3. Shared!ShownIsWritten'
  <2>1. \A m \in Machine, f \in Field :
          <<f, doc'[m].reg[f].stamp, doc'[m].reg[f].value>> \in Writes'
    BY <1>1, Known DEF AllDocs, Writes
  <2> QED
    BY <2>1 DEF Shared!ShownIsWritten, Shared!TheWrite
<1>4. ASSUME NEW m \in Machine, NEW f \in Field, NEW v \in Value \cup {Removed}, Mutate(m, f, v)
      PROVE  Shared!Write(m, f)
  BY <1>1, <1>4, MutateIsWrite
<1>5. ASSUME NEW e \in End, ReadDoc(e) \/ ReadUpdate(e)
      PROVE  e[1] \in Machine /\ Shared!Learn(e[1])
  <2>1. e[1] \in Machine
    BY EndFacts
  <2>2. Forward /\ Writes' \subseteq Writes
    BY <1>1, <1>5, ReceiveInv2
  <2>3. PICK d : doc' = [doc EXCEPT ![e[1]] = d]
    BY <1>5 DEF ReadDoc, ReadUpdate, Receive
  <2>4. \A k \in Machine \ {e[1]} : doc'[k].reg = doc[k].reg
    BY <1>1, <2>1, <2>3 DEF TypeOK
  <2> QED
    BY <1>2, <2>1, <2>2, <2>4, OthersLearn
<1>6. ASSUME Quiet, UNCHANGED <<doc, disk>> \/ \E m \in Machine : Restart(m)
      PROVE  \E m \in Machine : Shared!Learn(m)
  <2>1. Forward /\ Writes' \subseteq Writes
    BY <1>1, <1>6, QuietInv2
  <2>2. PICK m \in Machine : \A k \in Machine \ {m} : doc'[k] = doc[k]
    <3>1. CASE UNCHANGED <<doc, disk>>
      BY <3>1, MachineAssumption
    <3>2. CASE \E m \in Machine : Restart(m)
      BY <1>1, <3>2 DEF Restart, TypeOK
    <3> QED
      BY <1>6, <3>1, <3>2
  <2> QED
    BY <1>2, <2>1, <2>2, OthersLearn
<1> QED
  BY <1>1, <1>2, <1>3, <1>4, <1>5, <1>6, StepKinds DEF Shared!Next

\* Where saving does not fail, the machines' documents are the registers of
\* SharedRegisters: each machine shows its own edits at once and of the others' only what
\* they wrote, whole and in the order of the stamps, through crashes, late and repeated
\* deliveries and overlapping sessions (Agent::mutate, Core::merge, Core::apply).
THEOREM DocumentsAreRegisters ==
  ASSUME ~PersistMayFail PROVE Spec => ImplementsSharedRegisters
<1>1. Init => Inv2 /\ Shared!Init
  BY InitInv2, InitShared
<1>2. Inv2 /\ [Next]_vars => Inv2' /\ [Shared!Next]_(Shared!vars)
  BY StepIsShared
<1> QED
  BY <1>1, <1>2, PTL DEF Spec, ImplementsSharedRegisters, Shared!Spec

=============================================================================
