------------------------- MODULE WorkspaceDocProofs -------------------------
(***************************************************************************)
(* What the document operations of WorkspaceDoc guarantee for every set of *)
(* machines and every value: the order of stamps is total, edits and       *)
(* merges keep a document well formed and its clock above its stamps, and  *)
(* merging is commutative, associative and idempotent.                     *)
(***************************************************************************)
EXTENDS WorkspaceDoc, TLAPS

\* The clock of a document is at least every stamp in it.
Covered(d) == \A f \in Field : d.reg[f].stamp.lamport <= d.lamport

\* Two documents never hold one stamp with two values in the same register.
Compatible(a, b) ==
  \A f \in Field : a.reg[f].stamp = b.reg[f].stamp => a.reg[f].value = b.reg[f].value

\* The parts of a stamp are numbers.
LEMMA StampIsNumeric ==
  ASSUME NEW s \in Stamp
  PROVE  s.lamport \in Int /\ s.origin \in Int
<1>1. s.lamport \in Nat /\ s.origin \in Machine
  BY DEF Stamp
<1>2. \A m \in Machine : m \in Int
  BY MachineAssumption
<1> QED
  BY <1>1, <1>2

\* Stamps are totally ordered: exactly one of older, equal and newer.
LEMMA OlderTotal ==
  ASSUME NEW s \in Stamp, NEW t \in Stamp
  PROVE  /\ Older(s, t) \/ s = t \/ Older(t, s)
         /\ ~(Older(s, t) /\ Older(t, s))
         /\ ~Older(s, s)
<1>1. /\ s.lamport \in Int /\ t.lamport \in Int
      /\ s.origin \in Int /\ t.origin \in Int
  BY StampIsNumeric
<1>2. s.lamport = t.lamport /\ s.origin = t.origin => s = t
  BY DEF Stamp
<1> QED
  BY <1>1, <1>2 DEF Older

\* The order of stamps (Ord for Stamp) is transitive.
LEMMA OlderTransitive ==
  ASSUME NEW s \in Stamp, NEW t \in Stamp, NEW r \in Stamp,
         Older(s, t), Older(t, r)
  PROVE  Older(s, r)
<1>1. /\ s.lamport \in Int /\ t.lamport \in Int /\ r.lamport \in Int
      /\ s.origin \in Int /\ t.origin \in Int /\ r.origin \in Int
  BY StampIsNumeric
<1> QED
  BY <1>1 DEF Older

\* Max of a set of numbers that has a largest element b.
LEMMA ObserveIsMax ==
  ASSUME NEW a \in Nat, NEW S \in SUBSET Nat, NEW b \in S,
         \A x \in S : x <= b
  PROVE  /\ Observe(a, S) \in Nat
         /\ Observe(a, S) = IF a >= b THEN a ELSE b
<1> DEFINE T == {a} \cup S
           best == IF a >= b THEN a ELSE b
<1>1. best \in T /\ (\A y \in T : best >= y)
  OBVIOUS
<1>2. ASSUME NEW x \in T, \A y \in T : x >= y
      PROVE  x = best
  BY <1>1, <1>2
<1>3. Max(T) = best
  BY <1>1, <1>2 DEF Max
<1> QED
  BY <1>3 DEF Observe

\* Merging two copies of a register gives a copy of that register.
LEMMA MergeFieldType ==
  ASSUME NEW f \in Field, NEW a \in Lww, NEW b \in Lww
  PROVE  /\ MergeField(f, a, b) \in {a, b}
         /\ MergeField(f, a, b) \in Lww
         /\ ~Older(MergeField(f, a, b).stamp, a.stamp)
         /\ ~Older(MergeField(f, a, b).stamp, b.stamp)
<1>1. a.stamp \in Stamp /\ b.stamp \in Stamp
  BY DEF Lww
<1> QED
  BY <1>1, OlderTotal DEF MergeField, MergeSlot, LwwMerge

\* What the clock of a merged document is.
LEMMA MergeClock ==
  ASSUME NEW d \in WorkspaceDoc, NEW o \in WorkspaceDoc, Covered(o)
  PROVE  /\ Merge(d, o).lamport \in Nat
         /\ Merge(d, o).lamport = IF d.lamport >= o.lamport THEN d.lamport ELSE o.lamport
<1> DEFINE S == {o.lamport} \cup {o.reg[f].stamp.lamport : f \in SlotFields}
<1>1. SlotFields \subseteq Field
  BY DEF Field
<1>2. \A f \in SlotFields : o.reg[f].stamp.lamport \in Nat
                          /\ o.reg[f].stamp.lamport <= o.lamport
  BY <1>1 DEF WorkspaceDoc, Lww, Stamp, Covered
<1>3. d.lamport \in Nat /\ o.lamport \in Nat
  BY DEF WorkspaceDoc
<1>4. S \in SUBSET Nat /\ o.lamport \in S /\ (\A x \in S : x <= o.lamport)
  BY <1>2, <1>3
<1> HIDE DEF S
<1>5. /\ Observe(d.lamport, S) \in Nat
      /\ Observe(d.lamport, S) = IF d.lamport >= o.lamport THEN d.lamport ELSE o.lamport
  BY <1>3, <1>4, ObserveIsMax
<1> QED
  BY <1>5 DEF Merge, S

\* Merging a well-formed document keeps the local one well formed: every register
\* is one of the two it was merged from, and none goes back.
LEMMA MergeKeeps ==
  ASSUME NEW d \in WorkspaceDoc, NEW o \in WorkspaceDoc, Covered(d), Covered(o)
  PROVE  /\ Merge(d, o) \in WorkspaceDoc
         /\ Covered(Merge(d, o))
         /\ Merge(d, o).lamport >= d.lamport
         /\ \A f \in Field : /\ Merge(d, o).reg[f] \in {d.reg[f], o.reg[f]}
                             /\ ~Older(Merge(d, o).reg[f].stamp, d.reg[f].stamp)
<1>1. \A f \in Field : d.reg[f] \in Lww /\ o.reg[f] \in Lww
  BY DEF WorkspaceDoc
<1>2. \A f \in Field : Merge(d, o).reg[f] = MergeField(f, d.reg[f], o.reg[f])
  BY DEF Merge
<1>3. \A f \in Field : /\ Merge(d, o).reg[f] \in Lww
                       /\ Merge(d, o).reg[f] \in {d.reg[f], o.reg[f]}
                       /\ ~Older(Merge(d, o).reg[f].stamp, d.reg[f].stamp)
  BY <1>1, <1>2, MergeFieldType
<1>4. d.lamport \in Nat /\ o.lamport \in Nat
  BY DEF WorkspaceDoc
<1>5. Merge(d, o) \in WorkspaceDoc
  <2>1. Merge(d, o).reg \in [Field -> Lww]
    BY <1>3 DEF Merge
  <2> QED
    BY <2>1, MergeClock DEF WorkspaceDoc, Merge
<1>6. Covered(Merge(d, o))
  <2> SUFFICES ASSUME NEW f \in Field
               PROVE  Merge(d, o).reg[f].stamp.lamport <= Merge(d, o).lamport
    BY DEF Covered
  <2>1. d.reg[f].stamp.lamport \in Nat /\ o.reg[f].stamp.lamport \in Nat
    BY <1>1 DEF Lww, Stamp
  <2>2. d.reg[f].stamp.lamport <= d.lamport /\ o.reg[f].stamp.lamport <= o.lamport
    BY DEF Covered
  <2> QED
    BY <1>3, <1>4, <2>1, <2>2, MergeClock
<1> QED
  BY <1>3, <1>4, <1>5, <1>6, MergeClock

\* The same for a single update of a peer.
LEMMA ApplyKeeps ==
  ASSUME NEW d \in WorkspaceDoc, NEW u \in WorkspaceUpdate, Covered(d)
  PROVE  /\ Apply(d, u) \in WorkspaceDoc
         /\ Covered(Apply(d, u))
         /\ Apply(d, u).lamport >= d.lamport
         /\ \A f \in Field :
              /\ \/ Apply(d, u).reg[f] = d.reg[f]
                 \/ f = u.field /\ Apply(d, u).reg[f] = [value |-> u.value, stamp |-> u.stamp]
              /\ ~Older(Apply(d, u).reg[f].stamp, d.reg[f].stamp)
<1> DEFINE w == [value |-> u.value, stamp |-> u.stamp]
<1>1. \A f \in Field : d.reg[f] \in Lww /\ d.reg[f].stamp \in Stamp
  BY DEF WorkspaceDoc, Lww
<1>2. w \in Lww /\ u.field \in Field /\ u.stamp \in Stamp /\ u.stamp.lamport \in Nat
  BY DEF WorkspaceUpdate, Lww, Stamp
<1>3. d.lamport \in Nat /\ d.reg \in [Field -> Lww]
  BY DEF WorkspaceDoc
<1>4. /\ Apply(d, u).lamport \in Nat
      /\ Apply(d, u).lamport = IF d.lamport >= u.stamp.lamport
                               THEN d.lamport ELSE u.stamp.lamport
  BY <1>2, <1>3, ObserveIsMax DEF Apply
<1>5. \A f \in Field : Apply(d, u).reg[f] = IF f = u.field
                                            THEN MergeField(f, d.reg[f], w) ELSE d.reg[f]
  BY <1>2, <1>3 DEF Apply
<1> HIDE DEF w
<1>6. \A f \in Field :
        /\ Apply(d, u).reg[f] = d.reg[f] \/ (f = u.field /\ Apply(d, u).reg[f] = w)
        /\ Apply(d, u).reg[f] \in Lww
        /\ ~Older(Apply(d, u).reg[f].stamp, d.reg[f].stamp)
  <2> SUFFICES ASSUME NEW f \in Field
               PROVE  /\ \/ Apply(d, u).reg[f] = d.reg[f]
                         \/ f = u.field /\ Apply(d, u).reg[f] = w
                      /\ Apply(d, u).reg[f] \in Lww
                      /\ ~Older(Apply(d, u).reg[f].stamp, d.reg[f].stamp)
    OBVIOUS
  <2>1. CASE f = u.field
    <3>1. Apply(d, u).reg[f] = MergeField(f, d.reg[f], w)
      BY <1>5, <2>1
    <3> QED
      BY <1>1, <1>2, <2>1, <3>1, MergeFieldType
  <2>2. CASE f # u.field
    BY <1>1, <1>5, <2>2, OlderTotal
  <2> QED
    BY <2>1, <2>2
<1>7. Apply(d, u) \in WorkspaceDoc
  <2>1. DOMAIN Apply(d, u).reg = Field
        /\ Apply(d, u).reg = [f \in DOMAIN Apply(d, u).reg |-> Apply(d, u).reg[f]]
    BY <1>3 DEF Apply
  <2>2. Apply(d, u).reg \in [Field -> Lww]
    BY <1>6, <2>1
  <2>3. Apply(d, u) = [lamport |-> Apply(d, u).lamport, reg |-> Apply(d, u).reg]
    BY DEF Apply
  <2> HIDE DEF Apply
  <2> QED
    BY <1>4, <2>2, <2>3 DEF WorkspaceDoc
<1>8. Covered(Apply(d, u))
  <2> SUFFICES ASSUME NEW f \in Field
               PROVE  Apply(d, u).reg[f].stamp.lamport <= Apply(d, u).lamport
    BY DEF Covered
  <2>1. d.reg[f].stamp.lamport \in Nat /\ d.reg[f].stamp.lamport <= d.lamport
    BY <1>1 DEF Stamp, Covered
  <2>2. w.stamp = u.stamp
    BY DEF w
  <2> QED
    BY <1>2, <1>3, <1>4, <1>6, <2>1, <2>2
<1> QED
  BY <1>2, <1>3, <1>4, <1>6, <1>7, <1>8 DEF w

\* A local edit writes one register with a stamp above everything in the document.
LEMMA EditKeeps ==
  ASSUME NEW d \in WorkspaceDoc, Covered(d), NEW m \in Machine,
         NEW f \in Field, NEW v \in Value \cup {Removed}
  PROVE  LET u == UpdateOf(d, m, f, v)
             n == Edited(d, u)
         IN  /\ u \in WorkspaceUpdate
             /\ u.field = f /\ u.value = v
             /\ u.stamp = [lamport |-> d.lamport + 1, origin |-> m]
             /\ n \in WorkspaceDoc
             /\ Covered(n)
             /\ n.lamport = d.lamport + 1
             /\ \A g \in Field :
                  /\ n.reg[g] = IF g = f THEN [value |-> v, stamp |-> u.stamp] ELSE d.reg[g]
                  /\ ~Older(n.reg[g].stamp, d.reg[g].stamp)
<1> DEFINE u == UpdateOf(d, m, f, v)
           n == Edited(d, u)
           w == [value |-> v, stamp |-> [lamport |-> d.lamport + 1, origin |-> m]]
<1>1. d.lamport \in Nat /\ d.reg \in [Field -> Lww]
  BY DEF WorkspaceDoc
<1>2. \A g \in Field : /\ d.reg[g] \in Lww /\ d.reg[g].stamp \in Stamp
                       /\ d.reg[g].stamp.lamport \in Nat
                       /\ d.reg[g].stamp.lamport <= d.lamport
  BY <1>1 DEF Lww, Stamp, Covered
<1>3. /\ u \in WorkspaceUpdate /\ u.field = f /\ u.value = v
      /\ u.stamp = [lamport |-> d.lamport + 1, origin |-> m]
  BY <1>1 DEF UpdateOf, Tick, WorkspaceUpdate, Stamp
<1>4. w \in Lww
  BY <1>1 DEF Lww, Stamp
<1>5. n.lamport = d.lamport + 1 /\ n.reg = [d.reg EXCEPT ![f] = w]
  BY <1>3 DEF Edited
<1>6. n = [lamport |-> n.lamport, reg |-> n.reg]
  BY DEF Edited
<1> HIDE DEF u, n
<1>7. n.reg \in [Field -> Lww] /\ (\A g \in Field : n.reg[g] = IF g = f THEN w ELSE d.reg[g])
  BY <1>1, <1>4, <1>5
<1>8. n \in WorkspaceDoc
  BY <1>1, <1>5, <1>6, <1>7 DEF WorkspaceDoc
<1>9. ASSUME NEW g \in Field
      PROVE  /\ n.reg[g].stamp.lamport <= n.lamport
             /\ ~Older(n.reg[g].stamp, d.reg[g].stamp)
  <2>1. CASE g = f
    <3>1. n.reg[g].stamp.lamport = d.lamport + 1
      BY <1>7, <2>1
    <3> QED
      BY <1>1, <1>2, <1>5, <3>1 DEF Older
  <2>2. CASE g # f
    BY <1>1, <1>2, <1>5, <1>7, <2>2, OlderTotal
  <2> QED
    BY <2>1, <2>2
<1> QED
  BY <1>3, <1>5, <1>7, <1>8, <1>9 DEF Covered, u, n

-----------------------------------------------------------------------------
(* The merge is a join *)

\* "The result is the same whichever machine merges first" (model.rs:401): for
\* documents that respect stamps, merge commutes.
THEOREM MergeCommutes ==
  ASSUME NEW a \in WorkspaceDoc, NEW b \in WorkspaceDoc,
         Covered(a), Covered(b), Compatible(a, b)
  PROVE  Merge(a, b) = Merge(b, a)
<1>1. ASSUME NEW f \in Field
      PROVE  MergeField(f, a.reg[f], b.reg[f]) = MergeField(f, b.reg[f], a.reg[f])
  <2>1. a.reg[f] \in Lww /\ b.reg[f] \in Lww
    BY DEF WorkspaceDoc
  <2>2. a.reg[f].stamp \in Stamp /\ b.reg[f].stamp \in Stamp
    BY <2>1 DEF Lww
  <2>3. a.reg[f].stamp = b.reg[f].stamp => a.reg[f] = b.reg[f]
    BY <2>1 DEF Compatible, Lww
  <2> QED
    BY <2>2, <2>3, OlderTotal DEF MergeField, MergeSlot, LwwMerge
<1>2. Merge(a, b).reg = Merge(b, a).reg
  BY <1>1 DEF Merge
<1>3. Merge(a, b).lamport = Merge(b, a).lamport
  BY MergeClock DEF WorkspaceDoc
<1>4. /\ Merge(a, b) = [lamport |-> Merge(a, b).lamport, reg |-> Merge(a, b).reg]
      /\ Merge(b, a) = [lamport |-> Merge(b, a).lamport, reg |-> Merge(b, a).reg]
  BY DEF Merge
<1> QED
  BY <1>2, <1>3, <1>4

\* "Merging twice changes nothing" (model.rs:402).
THEOREM MergeIdempotent ==
  ASSUME NEW a \in WorkspaceDoc, NEW b \in WorkspaceDoc, Covered(a), Covered(b)
  PROVE  Merge(Merge(a, b), b) = Merge(a, b)
<1> DEFINE c == Merge(a, b)
<1>1. c \in WorkspaceDoc /\ Covered(c)
  BY MergeKeeps
<1>2. c.lamport \in Nat /\ c.lamport = IF a.lamport >= b.lamport THEN a.lamport ELSE b.lamport
  BY MergeClock
<1>3. \A f \in Field : c.reg[f] = MergeField(f, a.reg[f], b.reg[f])
  BY DEF Merge
<1>4. c = [lamport |-> c.lamport, reg |-> c.reg] /\ c.reg = [f \in Field |-> c.reg[f]]
  BY DEF Merge
<1> HIDE DEF c
<1>5. ASSUME NEW f \in Field
      PROVE  MergeField(f, c.reg[f], b.reg[f]) = c.reg[f]
  <2>1. a.reg[f] \in Lww /\ b.reg[f] \in Lww /\ c.reg[f] \in Lww
    BY <1>1 DEF WorkspaceDoc
  <2>2. ~Older(c.reg[f].stamp, b.reg[f].stamp)
    BY <1>3, <2>1, MergeFieldType
  <2> QED
    BY <2>2 DEF MergeField, MergeSlot, LwwMerge
<1>6. Merge(c, b).reg = c.reg
  BY <1>4, <1>5 DEF Merge
<1>7. Merge(c, b).lamport = c.lamport
  BY <1>1, <1>2, MergeClock DEF WorkspaceDoc
<1>8. Merge(c, b) = [lamport |-> Merge(c, b).lamport, reg |-> Merge(c, b).reg]
  BY DEF Merge
<1> QED
  BY <1>4, <1>6, <1>7, <1>8 DEF c

\* Order independence with three documents: which two meet first does not matter.
THEOREM MergeAssociative ==
  ASSUME NEW a \in WorkspaceDoc, NEW b \in WorkspaceDoc, NEW c \in WorkspaceDoc,
         Covered(a), Covered(b), Covered(c)
  PROVE  Merge(Merge(a, b), c) = Merge(a, Merge(b, c))
<1>1. ASSUME NEW f \in Field
      PROVE  MergeField(f, MergeField(f, a.reg[f], b.reg[f]), c.reg[f])
               = MergeField(f, a.reg[f], MergeField(f, b.reg[f], c.reg[f]))
  <2>1. a.reg[f].stamp \in Stamp /\ b.reg[f].stamp \in Stamp /\ c.reg[f].stamp \in Stamp
    BY DEF WorkspaceDoc, Lww
  <2> QED
    BY <2>1, OlderTotal, OlderTransitive DEF MergeField, MergeSlot, LwwMerge
<1>2. Merge(Merge(a, b), c).reg = Merge(a, Merge(b, c)).reg
  BY <1>1 DEF Merge
<1>3. /\ Merge(a, b) \in WorkspaceDoc /\ Covered(Merge(a, b))
      /\ Merge(b, c) \in WorkspaceDoc /\ Covered(Merge(b, c))
  BY MergeKeeps
<1>4. Merge(Merge(a, b), c).lamport = Merge(a, Merge(b, c)).lamport
  <2>1. a.lamport \in Nat /\ b.lamport \in Nat /\ c.lamport \in Nat
    BY DEF WorkspaceDoc
  <2> QED
    BY <1>3, <2>1, MergeClock
<1>5. \A x, y : Merge(x, y) = [lamport |-> Merge(x, y).lamport, reg |-> Merge(x, y).reg]
  BY DEF Merge
<1> QED
  BY <1>2, <1>4, <1>5

=============================================================================
