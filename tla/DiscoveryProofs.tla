-------------------------- MODULE DiscoveryProofs ---------------------------
(***************************************************************************)
(* Proofs about Discovery, for any machines and networks, any subnets and  *)
(* any number of changes and faults: whatever interfaces come and go under *)
(* the two tasks, the sockets that announce are on interfaces the task     *)
(* knows, the memberships are of the socket that is open, and only         *)
(* machines' addresses are typed in, probed and answered.                  *)
(***************************************************************************)
EXTENDS Discovery, TLAPS

LEMMA AddressesTyped ==
  ASSUME NEW m \in Machine, NEW a \in {x[2] : x \in {t \in Typed : t[1] = m}}
  PROVE  a \in Address
BY DiscoveryAssumption DEF Address

\* At most one of the sockets asked for is missing, and that is a fault within the
\* bound.
LEMMA SucceedingFacts ==
  ASSUME TypeOK, NEW wanted \in SUBSET Lan, NEW s \in Succeeding(wanted), Counting(s, wanted)
  PROVE  s \subseteq wanted /\ faults' \in 0 .. MaxFaults
<1>1. faults \in 0 .. MaxFaults /\ MaxFaults \in Nat
  BY DiscoveryAssumption DEF TypeOK
<1>2. CASE s = wanted
  BY <1>1, <1>2 DEF Counting
<1>3. CASE s # wanted
  <2>1. faults < MaxFaults /\ s \in {wanted \ {i} : i \in wanted}
    BY <1>3 DEF Succeeding
  <2>2. s \subseteq wanted
    BY <2>1
  <2>3. faults' = faults + 1
    BY <1>3 DEF Counting
  <2> QED
    BY <1>1, <2>1, <2>2, <2>3
<1> QED
  BY <1>2, <1>3

\* A rebuilding leaves sockets on known interfaces only.
LEMMA RebuildTyped ==
  ASSUME TypeOK, NEW m \in Machine, Rebuild(m)
  PROVE  /\ known' \in [Machine -> SUBSET Lan] /\ senders' \in [Machine -> SUBSET Lan]
         /\ \A n \in Machine : senders'[n] \subseteq known'[n]
         /\ faults' \in 0 .. MaxFaults
<1>1. /\ ifs \in [Machine -> SUBSET Lan]
      /\ known \in [Machine -> SUBSET Lan] /\ senders \in [Machine -> SUBSET Lan]
      /\ \A n \in Machine : senders[n] \subseteq known[n]
      /\ faults \in 0 .. MaxFaults
  BY DEF TypeOK
<1>2. CASE ifs[m] = known[m]
  BY <1>1, <1>2 DEF Rebuild
<1>3. CASE ifs[m] # known[m]
  <2> DEFINE kept == senders[m] \cap ifs[m]
  <2>1. PICK bound \in Succeeding(ifs[m] \ kept) :
          /\ known' = [known EXCEPT ![m] = ifs[m]]
          /\ senders' = [senders EXCEPT ![m] = kept \cup bound]
          /\ Counting(bound, ifs[m] \ kept)
    BY <1>3 DEF Rebuild
  <2>2. ifs[m] \ kept \in SUBSET Lan
    BY <1>1
  <2>3. bound \subseteq ifs[m] \ kept /\ faults' \in 0 .. MaxFaults
    BY <2>1, <2>2, SucceedingFacts
  <2>4. kept \cup bound \subseteq ifs[m] /\ ifs[m] \in SUBSET Lan
    BY <1>1, <2>3
  <2> QED
    BY <1>1, <2>1, <2>3, <2>4
<1> QED
  BY <1>2, <1>3

\* Dropping the listening socket drops its memberships.
LEMMA CloseTyped ==
  ASSUME TypeOK, NEW m \in Machine, Close(m), faults' \in 0 .. MaxFaults
  PROVE  TypeOK'
<1>1. /\ listener \in [Machine -> {"closed", "open"}]
      /\ joined \in [Machine -> SUBSET Lan]
      /\ \A n \in Machine : joined[n] \subseteq on[n]
      /\ \A n \in Machine : joined[n] # {} => listener[n] = "open"
      /\ listener' = [listener EXCEPT ![m] = "closed"]
      /\ joined' = [joined EXCEPT ![m] = {}]
      /\ on' = on
  BY DEF TypeOK, Close, listening
<1>2. /\ listener' \in [Machine -> {"closed", "open"}]
      /\ joined' \in [Machine -> SUBSET Lan]
      /\ \A n \in Machine : joined'[n] \subseteq on'[n]
      /\ \A n \in Machine : joined'[n] # {} => listener'[n] = "open"
  BY <1>1
<1> QED
  BY <1>2 DEF TypeOK, Close, environment, announcing, people, Address

-----------------------------------------------------------------------------
LEMMA InitTyped == Init => TypeOK
BY DiscoveryAssumption DEF Init, TypeOK

LEMMA StepTyped ==
  ASSUME TypeOK, [Next]_vars
  PROVE  TypeOK'
<1> USE DEF Address
<1>1. CASE UNCHANGED vars
  BY <1>1 DEF TypeOK, vars, environment, announcing, listening, people
<1>2. ASSUME NEW m \in Machine, GoOnline(m) PROVE TypeOK'
  BY <1>2 DEF TypeOK, GoOnline, environment, announcing, listening, people
<1>3. ASSUME NEW m \in Machine, Announce(m) PROVE TypeOK'
  <2>1. /\ known' \in [Machine -> SUBSET Lan] /\ senders' \in [Machine -> SUBSET Lan]
        /\ \A n \in Machine : senders'[n] \subseteq known'[n]
        /\ faults' \in 0 .. MaxFaults
    BY <1>3, RebuildTyped DEF Announce
  <2>2. announcer' \in [Machine -> {"waits", "probes"}]
    BY <1>3 DEF TypeOK, Announce
  <2> QED
    BY <1>3, <2>1, <2>2 DEF TypeOK, Announce, environment, listening, people
<1>4. ASSUME NEW m \in Machine, Probe(m) PROVE TypeOK'
  <2>1. ASSUME NEW n \in Machine
        PROVE  {<<m, a[2]>> : a \in {x \in Probed(m) : x[1] = n}} \subseteq Address
    <3>1. Probed(m) \subseteq Address
      BY DEF Probed, TypeOK
    <3> QED
      BY <3>1
  <2>2. replies \in [Machine -> SUBSET Address]
    BY DEF TypeOK
  <2>3. \A n \in Machine :
          replies[n] \cup {<<m, a[2]>> : a \in {x \in Probed(m) : x[1] = n}} \in SUBSET Address
    BY <2>1, <2>2
  <2>4. replies' \in [Machine -> SUBSET Address]
    BY <1>4, <2>3 DEF Probe
  <2>5. announcer' \in [Machine -> {"waits", "probes"}]
    BY <1>4 DEF TypeOK, Probe
  <2> QED
    BY <1>4, <2>4, <2>5 DEF TypeOK, Probe, environment, listening, people
<1>5. ASSUME NEW m \in Machine, Bind(m) PROVE TypeOK'
  <2>1. PICK member \in Succeeding(ifs[m]) :
          joined' = [joined EXCEPT ![m] = member] /\ Counting(member, ifs[m])
    BY <1>5 DEF Bind
  <2>2. ifs[m] \in SUBSET Lan
    BY DEF TypeOK
  <2>3. member \subseteq ifs[m] /\ faults' \in 0 .. MaxFaults
    BY <2>1, <2>2, SucceedingFacts
  <2>4. /\ listener \in [Machine -> {"closed", "open"}]
        /\ on \in [Machine -> SUBSET Lan] /\ joined \in [Machine -> SUBSET Lan]
        /\ \A n \in Machine : joined[n] \subseteq on[n]
        /\ \A n \in Machine : joined[n] # {} => listener[n] = "open"
        /\ listener' = [listener EXCEPT ![m] = "open"]
        /\ on' = [on EXCEPT ![m] = ifs[m]]
    BY <1>5 DEF TypeOK, Bind
  <2>5. /\ listener' \in [Machine -> {"closed", "open"}]
        /\ on' \in [Machine -> SUBSET Lan] /\ joined' \in [Machine -> SUBSET Lan]
        /\ \A n \in Machine : joined'[n] \subseteq on'[n]
        /\ \A n \in Machine : joined'[n] # {} => listener'[n] = "open"
    BY <2>1, <2>2, <2>3, <2>4
  <2> QED
    BY <1>5, <2>3, <2>5 DEF TypeOK, Bind, environment, announcing, people
<1>6. ASSUME NEW m \in Machine, Fail(m) PROVE TypeOK'
  <2>1. faults' \in 0 .. MaxFaults
    BY <1>6, DiscoveryAssumption DEF TypeOK, Fail
  <2>2. CASE Close(m)
    BY <2>1, <2>2, CloseTyped
  <2>3. CASE UNCHANGED <<environment, online, announcing, listening, people, replies>>
    BY <2>1, <2>3 DEF TypeOK, environment, announcing, listening, people
  <2> QED
    BY <1>6, <2>2, <2>3 DEF Fail
<1>7. ASSUME NEW m \in Machine, Recheck(m) PROVE TypeOK'
  <2>1. Close(m) /\ faults' \in 0 .. MaxFaults
    BY <1>7 DEF Recheck, TypeOK
  <2> QED
    BY <2>1, CloseTyped
<1>8. ASSUME NEW m \in Machine, NEW i \in Lan, Appears(m, i) PROVE TypeOK'
  <2>1. ifs' \in [Machine -> SUBSET Lan]
    BY <1>8 DEF Appears, TypeOK
  <2>2. changes' \in 0 .. MaxChanges
    BY <1>8, DiscoveryAssumption DEF Appears, TypeOK
  <2> QED
    BY <1>8, <2>1, <2>2 DEF TypeOK, Appears, announcing, listening, people
<1>9. ASSUME NEW m \in Machine, NEW i \in Lan, Disappears(m, i) PROVE TypeOK'
  <2>1. ifs' \in [Machine -> SUBSET Lan]
    BY <1>9 DEF Disappears, TypeOK
  <2>2. changes' \in 0 .. MaxChanges
    BY <1>9, DiscoveryAssumption DEF Disappears, TypeOK
  <2>3. joined' = joined \/ joined' = [joined EXCEPT ![m] = @ \ {i}]
    BY <1>9 DEF Disappears
  <2>4. /\ joined' \in [Machine -> SUBSET Lan]
        /\ \A n \in Machine : joined'[n] \subseteq joined[n]
    BY <2>3 DEF TypeOK
  <2>5. on' = on /\ listener' = listener
    BY <1>9 DEF Disappears
  <2>6. /\ \A n \in Machine : joined'[n] \subseteq on'[n]
        /\ \A n \in Machine : joined'[n] # {} => listener'[n] = "open"
    BY <2>4, <2>5 DEF TypeOK
  <2> QED
    BY <1>9, <2>1, <2>2, <2>4, <2>6 DEF TypeOK, Disappears, announcing, people
<1>10. ASSUME NEW m \in Machine, NEW a \in {x[2] : x \in {t \in Typed : t[1] = m}},
              AddManualPeer(m, a)
       PROVE TypeOK'
  <2>1. a \in Address
    BY AddressesTyped
  <2>2. listed' \in [Machine -> SUBSET Address] /\ targets' \in [Machine -> SUBSET Address]
    BY <1>10, <2>1 DEF AddManualPeer, TypeOK
  <2> QED
    BY <1>10, <2>2 DEF TypeOK, AddManualPeer, environment, announcing, listening
<1>11. ASSUME NEW m \in Machine, NEW a \in {x[2] : x \in {t \in Typed : t[1] = m}},
              ForgetManualPeer(m, a)
       PROVE TypeOK'
  <2>1. listed' \in [Machine -> SUBSET Address] /\ targets' \in [Machine -> SUBSET Address]
    BY <1>11 DEF ForgetManualPeer, TypeOK
  <2> QED
    BY <1>11, <2>1 DEF TypeOK, ForgetManualPeer, environment, announcing, listening
<1>12. ASSUME NEW m \in Machine, NEW a \in replies[m], Reply(m, a) PROVE TypeOK'
  <2>1. PICK bound \in Succeeding(ifs[m]) : Counting(bound, ifs[m])
    BY <1>12 DEF Reply
  <2>2. ifs[m] \in SUBSET Lan
    BY DEF TypeOK
  <2>3. faults' \in 0 .. MaxFaults
    BY <2>1, <2>2, SucceedingFacts
  <2>4. replies' \in [Machine -> SUBSET Address]
    BY <1>12 DEF Reply, TypeOK
  <2> QED
    BY <1>12, <2>3, <2>4 DEF TypeOK, Reply, environment, announcing, listening, people
<1> QED
  BY <1>1, <1>2, <1>3, <1>4, <1>5, <1>6, <1>7, <1>8, <1>9, <1>10, <1>11, <1>12 DEF Next

-----------------------------------------------------------------------------
\* Whatever interfaces come and go between the looks of the two tasks and whichever
\* sockets fail, what announces is on interfaces the announce task knows, what is
\* joined is of the socket that is open, and each variable keeps its type (announce,
\* listen, reply_to_probe, add_manual_peer).
THEOREM DiscoveryTypeCorrect == Spec => []TypeOK
<1>1. TypeOK /\ [Next]_vars => TypeOK'
  BY StepTyped
<1> QED
  BY <1>1, InitTyped, PTL DEF Spec

=============================================================================
