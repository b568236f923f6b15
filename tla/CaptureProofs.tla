--------------------------- MODULE CaptureProofs ----------------------------
(***************************************************************************)
(* What holds of Capture for any number of loops, of calls of set_sharing  *)
(* and of captured events, on both systems: its types, that one loop holds *)
(* the hooks, that nothing is swallowed for nobody, that the mouse is free *)
(* whenever nothing is swallowed and that a key acts once.  The inductive  *)
(* invariant IInv has six parts, each preserved by every step with the     *)
(* help of those before.                                                   *)
(***************************************************************************)
EXTENDS Capture, FiniteSetTheorems, TLAPS

-----------------------------------------------------------------------------
(* Types *)

\* The statics start as the program initialises them.
LEMMA TypeInit == Init => TypeOK
<1> SUFFICES ASSUME Init PROVE TypeOK
  OBVIOUS
<1> USE CaptureAssumption DEF Init
<1>1. <<>> \in Seq(Reported) /\ Len(<<>>) <= QueueCap
  OBVIOUS
<1>2. sup \in [{Owner, Hook} -> Sup] /\ hook \in HookAt
  BY DEF Sup, HookAt
<1>3. loop \in [Loop -> Phase] /\ call \in [Call -> [at : CallAt, loop : Loop \cup {None}]]
  BY DEF Phase, Holding, CallAt
<1>4. queue \in [Loop -> Seq(Reported)] /\ \A g \in Loop : Len(queue[g]) <= QueueCap
  BY <1>1
<1> QED
  BY <1>2, <1>3, <1>4 DEF TypeOK

\* Emitting keeps the queue of a loop within its bound.
LEMMA EmitType ==
  ASSUME TypeOK, NEW x \in Reported, Emit(x)
  PROVE  queue' \in [Loop -> Seq(Reported)] /\ \A g \in Loop : Len(queue'[g]) <= QueueCap
<1>1. CASE SINK \in Loop
  <2>1. queue[SINK] \in Seq(Reported) /\ Len(queue[SINK]) \in Nat
    BY <1>1 DEF TypeOK
  <2>2. Append(queue[SINK], x) \in Seq(Reported) /\ Len(Append(queue[SINK], x)) = Len(queue[SINK]) + 1
    BY <2>1
  <2> QED BY <1>1, <2>1, <2>2, CaptureAssumption DEF Emit, TypeOK
<1>2. CASE SINK \notin Loop
  BY <1>2 DEF Emit, TypeOK
<1> QED
  BY <1>1, <1>2

\* Every step keeps the types.
LEMMA TypeStep == TypeOK /\ Step /\ Record /\ platform' = platform => TypeOK'
<1> SUFFICES ASSUME TypeOK, Step, Record, platform' = platform PROVE TypeOK'
  OBVIOUS
<1> USE CaptureAssumption
<1>0. disturbed' \in BOOLEAN /\ overlapped' \in BOOLEAN
  BY DEF Record
<1>1. ASSUME NEW t \in {Owner, Hook}, StoreSuppressing(t) PROVE TypeOK'
  BY <1>0, <1>1 DEF StoreSuppressing, Reach, TypeOK, Sup, Owner, Hook, statics, thread,
     router, switch
<1>2. ASSUME NEW t \in {Owner, Hook}, SwapDetached(t) PROVE TypeOK'
  BY <1>0, <1>2 DEF SwapDetached, Reach, TypeOK, Sup, Owner, Hook, statics, thread,
     router, switch
<1>3. ASSUME NEW t \in {Owner, Hook}, Associate(t) PROVE TypeOK'
  BY <1>0, <1>3 DEF Associate, Reach, TypeOK, Sup, Owner, Hook, statics, thread,
     router, switch
<1>4. ASSUME Elapse PROVE TypeOK'
  BY <1>0, <1>4 DEF Elapse, TypeOK, statics, thread, router, switch
<1>5. ASSUME NEW c \in Call, NEW b \in BOOLEAN, SetSharing(c, b) PROVE TypeOK'
  BY <1>0, <1>5 DEF SetSharing, Goes, TypeOK, CallAt, statics, thread, router, switch
<1>6. ASSUME NEW c \in Call, StartCapture(c) PROVE TypeOK'
  BY <1>0, <1>6 DEF StartCapture, Enter, TypeOK, Sup, Owner, Hook, Phase, Holding,
     CallAt, statics, thread, router, switch
<1>7. ASSUME NEW c \in Call, AlreadyRunning(c) PROVE TypeOK'
  BY <1>0, <1>7 DEF AlreadyRunning, Goes, TypeOK, CallAt, statics, thread, router,
     switch
<1>8. ASSUME NEW c \in Call, Install(c) PROVE TypeOK'
  BY <1>0, <1>8 DEF Install, Goes, TypeOK, HookAt, CallAt, statics, thread, router,
     switch
<1>9. ASSUME NEW c \in Call, Refuse(c) PROVE TypeOK'
  BY <1>0, <1>9 DEF Refuse, Goes, TypeOK, Phase, Holding, CallAt, statics, thread,
     router, switch
<1>10. ASSUME NEW c \in Call, SpawnFails(c) PROVE TypeOK'
  <2>1. loop' \in [Loop -> Phase]
    BY <1>10 DEF SpawnFails, TypeOK, Phase, Holding
  <2>2. call' \in [Call -> [at : CallAt, loop : Loop \cup {None}]]
    BY <1>10 DEF SpawnFails, Goes, TypeOK, CallAt
  <2> QED BY <1>0, <1>10, <2>1, <2>2 DEF SpawnFails, TypeOK, statics, thread
<1>11. ASSUME NEW c \in Call, StartLoop(c) PROVE TypeOK'
  BY <1>0, <1>11 DEF StartLoop, Goes, TypeOK, Phase, Holding, CallAt, statics, thread,
     router, switch
<1>12. ASSUME NEW c \in Call, BridgeFails(c) PROVE TypeOK'
  <2>1. loop' \in [Loop -> Phase] /\ hook' \in HookAt
    BY <1>12 DEF BridgeFails, TypeOK, Phase, Holding, HookAt
  <2>2. call' \in [Call -> [at : CallAt, loop : Loop \cup {None}]]
    BY <1>12 DEF BridgeFails, Goes, TypeOK, CallAt
  <2>3. queue' \in [Loop -> Seq(Reported)] /\ \A g \in Loop : Len(queue'[g]) <= QueueCap
    <3>1. <<>> \in Seq(Reported) /\ Len(<<>>) <= QueueCap
      OBVIOUS
    <3> QED BY <1>12, <3>1 DEF BridgeFails, TypeOK
  <2> QED BY <1>0, <1>12, <2>1, <2>2, <2>3 DEF BridgeFails, TypeOK
<1>13. ASSUME NEW c \in Call, KeepHandle(c) PROVE TypeOK'
  BY <1>0, <1>13 DEF KeepHandle, Goes, Notified, TypeOK, CallAt, statics, thread,
     router, switch
<1>14. ASSUME NEW c \in Call, SharingOn(c) PROVE TypeOK'
  BY <1>0, <1>14 DEF SharingOn, Goes, TypeOK, CallAt, statics, thread, router, switch
<1>15. ASSUME NEW c \in Call, StopSharing(c) PROVE TypeOK'
  BY <1>0, <1>15 DEF StopSharing, Notified, TypeOK, CallAt, statics, thread, router,
     switch
<1>16. ASSUME NEW c \in Call, Stopped(c) PROVE TypeOK'
  BY <1>0, <1>16 DEF Stopped, Goes, TypeOK, CallAt, statics, thread, router, switch
<1>17. ASSUME NEW g \in Loop, Heartbeat(g) PROVE TypeOK'
  BY <1>0, <1>17 DEF Heartbeat, TypeOK, statics, thread, router, switch
<1>18. ASSUME NEW g \in Loop, Route(g) PROVE TypeOK'
  BY <1>0, <1>18 DEF Route, NextEvent, TypeOK, statics, thread, router, switch
<1>19. ASSUME NEW g \in Loop, Flush(g) PROVE TypeOK'
  BY <1>0, <1>19 DEF Flush, Acts, TypeOK, statics, thread, router, switch
<1>20. ASSUME NEW g \in Loop, Warp(g) PROVE TypeOK'
  BY <1>0, <1>20 DEF Warp, Moves, TypeOK, Phase, Holding, statics, thread, router,
     switch
<1>21. ASSUME NEW g \in Loop, AnnouncedAway(g) PROVE TypeOK'
  BY <1>0, <1>21 DEF AnnouncedAway, GoAway, SetSuppressing, Enter, TypeOK, Sup, Owner,
     Hook, statics, thread, router, switch
<1>22. ASSUME NEW g \in Loop, Crosses(g) PROVE TypeOK'
  BY <1>0, <1>22 DEF Crosses, NextEvent, GoAway, SetSuppressing, Enter, TypeOK, Sup,
     Owner, Hook, statics, thread, router, switch
<1>23. ASSUME NEW g \in Loop, TakeBack(g) PROVE TypeOK'
  BY <1>0, <1>23 DEF TakeBack, SetSuppressing, Enter, TypeOK, Sup, Owner, Hook,
     statics, thread, router, switch
<1>24. ASSUME NEW g \in Loop, CursorEnter(g) PROVE TypeOK'
  <2>1. loop' \in [Loop -> Phase]
    BY <1>24 DEF CursorEnter, Moves, TypeOK, Phase, Holding
  <2>2. fresh' \in BOOLEAN /\ sup' \in [{Owner, Hook} -> Sup]
    <3>1. CASE away[g]
      <4>1. fresh' = TRUE /\ sup' = [sup EXCEPT ![Owner] = [at |-> "store", to |-> FALSE]]
        BY <1>24, <3>1 DEF CursorEnter, SetSuppressing, Enter
      <4> QED BY <4>1 DEF TypeOK, Sup, Owner, Hook
    <3>2. CASE ~away[g]
      BY <1>24, <3>2 DEF CursorEnter, TypeOK
    <3> QED BY <3>1, <3>2
  <2>3. away' \in [Loop -> BOOLEAN] /\ pending' \in [Loop -> BOOLEAN]
    BY <1>24 DEF CursorEnter, TypeOK
  <2> QED BY <1>0, <1>24, <2>1, <2>2, <2>3 DEF CursorEnter, TypeOK, thread, switch
<1>25. ASSUME NEW g \in Loop, Break(g) PROVE TypeOK'
  BY <1>0, <1>25 DEF Break, Moves, SetSuppressing, Enter, TypeOK, Sup, Owner, Hook,
     Phase, Holding, statics, thread, router, switch
<1>26. ASSUME NEW g \in Loop, Drop(g) PROVE TypeOK'
  BY <1>0, <1>26 DEF Drop, Moves, Enter, TypeOK, Sup, Owner, Hook, Phase, Holding,
     statics, thread, router, switch
<1>27. ASSUME NEW g \in Loop, Join(g) PROVE TypeOK'
  <2>1. loop' \in [Loop -> Phase]
    BY <1>27 DEF Join, Moves, TypeOK, Phase, Holding
  <2>2. queue' \in [Loop -> Seq(Reported)] /\ \A h \in Loop : Len(queue'[h]) <= QueueCap
    <3>1. <<>> \in Seq(Reported) /\ Len(<<>>) <= QueueCap
      OBVIOUS
    <3> QED BY <1>27, <3>1 DEF Join, Clear, TypeOK
  <2>3. /\ away' \in [Loop -> BOOLEAN] /\ stuck' \in [Loop -> BOOLEAN]
        /\ stop' \in [Loop -> BOOLEAN] /\ pending' \in [Loop -> BOOLEAN]
    BY <1>27 DEF Join, Clear, TypeOK
  <2> QED BY <1>0, <1>27, <2>1, <2>2, <2>3 DEF Join, TypeOK, thread, switch
<1>28. ASSUME NEW g \in Loop, Unsink(g) PROVE TypeOK'
  BY <1>0, <1>28 DEF Unsink, Moves, TypeOK, Phase, Holding, statics, thread, router,
     switch
<1>29. ASSUME NEW g \in Loop, Stall(g) PROVE TypeOK'
  BY <1>0, <1>29 DEF Stall, TypeOK, statics, thread, router, switch
<1>30. ASSUME NEW g \in Loop, Unstall(g) PROVE TypeOK'
  BY <1>0, <1>30 DEF Unstall, TypeOK, statics, thread, router, switch
<1>31. ASSUME Key PROVE TypeOK'
  <2>1. hook' \in HookAt
    BY <1>31 DEF Key, Asks, HookAt
  <2>2. queue' \in [Loop -> Seq(Reported)] /\ \A g \in Loop : Len(queue'[g]) <= QueueCap
    BY <1>31, EmitType DEF Key, Reported
  <2> QED BY <1>0, <1>31, <2>1, <2>2 DEF Key, TypeOK, statics, switch
<1>32. ASSUME Unreported PROVE TypeOK'
  BY <1>0, <1>32 DEF Unreported, Asks, TypeOK, HookAt, statics, thread, router, switch
<1>33. ASSUME Hatch PROVE TypeOK'
  BY <1>0, <1>33 DEF Hatch, Passes, Enter, TypeOK, Sup, Owner, Hook, HookAt, statics,
     thread, router, switch
<1>34. ASSUME TapMovement PROVE TypeOK'
  <2>1. hook' \in HookAt
    BY <1>34 DEF TapMovement, Asks, HookAt
  <2>2. queue' \in [Loop -> Seq(Reported)] /\ \A g \in Loop : Len(queue'[g]) <= QueueCap
    BY <1>34, EmitType DEF TapMovement, Reported
  <2> QED BY <1>0, <1>34, <2>1, <2>2 DEF TapMovement, TypeOK, statics, switch
<1>35. ASSUME RawInput PROVE TypeOK'
  <2>1. queue' \in [Loop -> Seq(Reported)] /\ \A g \in Loop : Len(queue'[g]) <= QueueCap
    BY <1>35, EmitType DEF RawInput, Reported
  <2> QED BY <1>0, <1>35, <2>1 DEF RawInput, TypeOK, statics, thread, switch
<1>36. ASSUME Replay PROVE TypeOK'
  BY <1>0, <1>36 DEF Replay, Passes, TypeOK, HookAt, statics, thread, router, switch
<1>37. ASSUME DisableTap PROVE TypeOK'
  BY <1>0, <1>37 DEF DisableTap, TypeOK, statics, thread, router, switch
<1>38. ASSUME ReEnable PROVE TypeOK'
  BY <1>0, <1>38 DEF ReEnable, TypeOK, statics, thread, router, switch
<1>39. ASSUME CheckSuppressing PROVE TypeOK'
  <2>1. hook' \in HookAt
    BY <1>39 DEF CheckSuppressing, TypeOK, HookAt
  <2> QED BY <1>0, <1>39, <2>1 DEF CheckSuppressing, TypeOK, statics, router, switch
<1>40. ASSUME CheckWatchdog PROVE TypeOK'
  <2>1. CASE fresh /\ hook' = [at |-> "idle", key |-> FALSE] /\ UNCHANGED sup
    <3>1. hook' \in HookAt
      BY <2>1 DEF HookAt
    <3> QED BY <1>0, <1>40, <2>1, <3>1 DEF CheckWatchdog, TypeOK, statics, router,
               switch
  <2>2. CASE ~fresh /\ hook' = [hook EXCEPT !.at = "pass"] /\ Enter(Hook, FALSE)
    <3>1. hook' \in HookAt
      BY <2>2 DEF TypeOK, HookAt
    <3>2. sup' \in [{Owner, Hook} -> Sup]
      BY <2>2 DEF Enter, TypeOK, Sup, Owner, Hook
    <3> QED BY <1>0, <1>40, <2>2, <3>1, <3>2 DEF CheckWatchdog, TypeOK, statics,
               router, switch
  <2> QED BY <1>40, <2>1, <2>2 DEF CheckWatchdog
<1>41. ASSUME PassOn PROVE TypeOK'
  BY <1>0, <1>41 DEF PassOn, Idle, Acts, TypeOK, HookAt, statics, thread, router, switch
<1>42. ASSUME Gone PROVE TypeOK'
  BY <1>0, <1>42 DEF Gone, TypeOK, HookAt, statics, thread, router, switch
<1>43. ASSUME Quit PROVE TypeOK'
  <2>1. hook' \in HookAt
    BY <1>43 DEF Quit, TypeOK, HookAt
  <2>2. sup' \in [{Owner, Hook} -> Sup]
    BY <1>43 DEF Quit, Enter, TypeOK, Sup, Owner, Hook
  <2> QED BY <1>0, <1>43, <2>1, <2>2 DEF Quit, TypeOK, statics, router, switch
<1> QED
  BY <1>1, <1>2, <1>3, <1>4, <1>5, <1>6, <1>7, <1>8, <1>9, <1>10, <1>11, <1>12, <1>13,
     <1>14, <1>15, <1>16, <1>17, <1>18, <1>19, <1>20, <1>21, <1>22, <1>23, <1>24,
     <1>25, <1>26, <1>27, <1>28, <1>29, <1>30, <1>31, <1>32, <1>33, <1>34, <1>35,
     <1>36, <1>37, <1>38, <1>39, <1>40, <1>41, <1>42, <1>43 DEF Step, SetSuppression,
     Switch, Routing, Moving, Ending, Callback, MouseHook, KeyboardHook, TapCallback,
     Deciding

-----------------------------------------------------------------------------
(* Who holds the Capture *)

\* A call that holds the Capture it started and has no loop running yet.
Starts(c) == call[c].at \in {"install", "route"}

\* OneHolder, with quantifiers.
Holders ==
  /\ RUNNING <=> \E g \in Loop : loop[g] \in Holding
  /\ \A g, h \in Loop : loop[g] \in Holding /\ loop[h] \in Holding => g = h
  /\ hook.at # "none" => RUNNING

\* The starting loop belongs to one call, and the thread it starts is not there yet.
Starters ==
  /\ \A c \in Call : Starts(c) => call[c].loop \in Loop /\ loop[call[c].loop] = "starting"
  /\ \A c, d \in Call : Starts(c) /\ Starts(d) => c = d
  /\ \A c \in Call : call[c].at = "install" => hook.at = "none"

HolderInv == Holders /\ Starters

\* The two forms say the same.
LEMMA HoldersAreOneHolder == Holders <=> OneHolder
  BY DEF Holders, OneHolder

\* At most the loop that runs from the start holds the Capture.
LEMMA HolderInit == Init => HolderInv
<1> SUFFICES ASSUME Init PROVE HolderInv
  OBVIOUS
<1>1. \A c \in Call : call[c].at = "unused"
  BY DEF Init
<1>2. \A g \in Loop : loop[g] \in Holding <=> g = First
  BY DEF Init, Holding
<1>3. RUNNING <=> First # None
  BY DEF Init
<1>4. hook.at # "none" => First # None
  BY DEF Init
<1>5. Holders
  BY <1>2, <1>3, <1>4, CaptureAssumption DEF Holders, None
<1>6. Starters
  BY <1>1 DEF Starters, Starts
<1> QED
  BY <1>5, <1>6 DEF HolderInv

\* A step that moves no loop and lets no call hold the Capture.
LEMMA HolderFrame ==
  ASSUME HolderInv, RUNNING' = RUNNING, loop' = loop,
         \A c \in Call : call'[c].at \in {"install", "route"} => call'[c] = call[c],
         hook.at = "none" => hook'.at = "none"
  PROVE  HolderInv'
<1>1. Holders'
  BY DEF HolderInv, Holders
<1>2. Starters'
  BY DEF HolderInv, Starters, Starts
<1> QED
  BY <1>1, <1>2 DEF HolderInv

\* A loop goes on without taking or giving up the Capture.
LEMMA HolderMoves ==
  ASSUME TypeOK, HolderInv, RUNNING' = RUNNING, call' = call, hook' = hook,
         NEW g \in Loop, NEW at \in Phase \ {"starting"}, loop' = [loop EXCEPT ![g] = at],
         loop[g] # "starting", at \in Holding <=> loop[g] \in Holding
  PROVE  HolderInv'
<1>1. \A h \in Loop : loop'[h] \in Holding <=> loop[h] \in Holding
  BY DEF TypeOK
<1>2. Holders'
  BY <1>1 DEF HolderInv, Holders
<1>3. \A c \in Call : Starts(c) => loop'[call[c].loop] = "starting"
  BY DEF HolderInv, Starters, TypeOK
<1>4. Starters'
  BY <1>3 DEF HolderInv, Starters, Starts
<1> QED
  BY <1>2, <1>4 DEF HolderInv

\* Every step keeps one holder: the flag is set before the hooks are installed and
\* cleared when the hook thread is gone.
LEMMA HolderStep == TypeOK /\ HolderInv /\ Step => HolderInv'
<1> SUFFICES ASSUME TypeOK, HolderInv, Step PROVE HolderInv'
  OBVIOUS
<1>1. ASSUME NEW t \in {Owner, Hook}, StoreSuppressing(t) PROVE HolderInv'
  BY <1>1, HolderFrame DEF StoreSuppressing, statics, thread, router, switch
<1>2. ASSUME NEW t \in {Owner, Hook}, SwapDetached(t) PROVE HolderInv'
  BY <1>2, HolderFrame DEF SwapDetached, statics, thread, router, switch
<1>3. ASSUME NEW t \in {Owner, Hook}, Associate(t) PROVE HolderInv'
  BY <1>3, HolderFrame DEF Associate, statics, thread, router, switch
<1>4. ASSUME Elapse PROVE HolderInv'
  BY <1>4, HolderFrame DEF Elapse, statics, thread, router, switch
<1>5. ASSUME NEW c \in Call, NEW b \in BOOLEAN, SetSharing(c, b) PROVE HolderInv'
  BY <1>5, HolderFrame DEF SetSharing, Goes, TypeOK, statics, thread, router, switch
<1>6. ASSUME NEW c \in Call, StartCapture(c) PROVE HolderInv'
  <2>1. PICK g \in Loop : /\ loop[g] = "unused" /\ loop' = [loop EXCEPT ![g] = "starting"]
                          /\ call' = [call EXCEPT ![c] = [at |-> "install", loop |-> g]]
    BY <1>6 DEF StartCapture
  <2>2. ~RUNNING /\ RUNNING' /\ hook' = hook /\ hook.at = "none"
    BY <1>6 DEF StartCapture, thread, HolderInv, Holders
  <2>3. \A h \in Loop : loop[h] \notin Holding
    BY <2>2 DEF HolderInv, Holders
  <2>4. \A h \in Loop : loop'[h] \in Holding <=> h = g
    BY <2>1, <2>3 DEF TypeOK, Holding
  <2>5. Holders'
    BY <2>2, <2>4 DEF Holders
  <2>6. \A d \in Call : ~Starts(d)
    BY <2>3 DEF HolderInv, Starters, Holding
  <2>7. \A d \in Call : Starts(d)' => d = c
    BY <2>1, <2>6 DEF Starts, TypeOK
  <2>8. call'[c].loop = g /\ loop'[g] = "starting"
    BY <2>1 DEF TypeOK
  <2> QED BY <2>2, <2>5, <2>7, <2>8 DEF HolderInv, Starters
<1>7. ASSUME NEW c \in Call, AlreadyRunning(c) PROVE HolderInv'
  BY <1>7, HolderFrame DEF AlreadyRunning, Goes, TypeOK, statics, thread, router, switch
<1>8. ASSUME NEW c \in Call, Install(c) PROVE HolderInv'
  <2>1. Starts(c) /\ call[c].loop \in Loop /\ loop[call[c].loop] = "starting"
    BY <1>8 DEF Install, At, Starts, HolderInv, Starters
  <2>2. RUNNING' = RUNNING /\ loop' = loop /\ RUNNING
    BY <1>8, <2>1 DEF Install, statics, router, HolderInv, Holders, Holding
  <2>3. Holders'
    BY <2>2 DEF HolderInv, Holders
  <2>4. \A d \in Call : Starts(d)' => d = c
    BY <1>8, <2>1 DEF Install, Goes, Starts, HolderInv, Starters, TypeOK
  <2>5. call'[c].at = "route" /\ call'[c].loop = call[c].loop
    BY <1>8 DEF Install, Goes, TypeOK
  <2> QED BY <2>1, <2>2, <2>3, <2>4, <2>5 DEF HolderInv, Starters, Starts
<1>9. ASSUME NEW c \in Call, Refuse(c) PROVE HolderInv'
  <2>1. /\ Starts(c) /\ call[c].loop \in Loop /\ loop[call[c].loop] = "starting"
        /\ hook.at = "none"
    BY <1>9 DEF Refuse, At, Starts, HolderInv, Starters
  <2>2. \A h \in Loop : loop'[h] \notin Holding
    BY <1>9, <2>1 DEF Refuse, TypeOK, HolderInv, Holders, Holding
  <2>3. Holders'
    BY <1>9, <2>1, <2>2 DEF Refuse, thread, Holders
  <2>4. \A d \in Call : ~Starts(d)'
    BY <1>9, <2>1 DEF Refuse, Goes, Starts, HolderInv, Starters, TypeOK
  <2> QED BY <2>3, <2>4 DEF HolderInv, Starters, Starts
<1>10. ASSUME NEW c \in Call, SpawnFails(c) PROVE HolderInv'
  <2>1. Starts(c) /\ call[c].loop \in Loop /\ loop[call[c].loop] = "starting"
    BY <1>10 DEF SpawnFails, At, Starts, HolderInv, Starters
  <2>2. \A h \in Loop : loop'[h] \in Holding <=> loop[h] \in Holding
    BY <1>10, <2>1 DEF SpawnFails, TypeOK, Holding
  <2>3. Holders'
    BY <1>10, <2>2 DEF SpawnFails, statics, thread, HolderInv, Holders
  <2>4. \A d \in Call : ~Starts(d)'
    BY <1>10, <2>1 DEF SpawnFails, Goes, Starts, HolderInv, Starters, TypeOK
  <2> QED BY <2>3, <2>4 DEF HolderInv, Starters, Starts
<1>11. ASSUME NEW c \in Call, StartLoop(c) PROVE HolderInv'
  <2>1. Starts(c) /\ call[c].loop \in Loop /\ loop[call[c].loop] = "starting"
    BY <1>11 DEF StartLoop, At, Starts, HolderInv, Starters
  <2>2. \A h \in Loop : loop'[h] \in Holding <=> loop[h] \in Holding
    BY <1>11, <2>1 DEF StartLoop, TypeOK, Holding
  <2>3. Holders'
    BY <1>11, <2>2 DEF StartLoop, statics, thread, HolderInv, Holders
  <2>4. \A d \in Call : ~Starts(d)'
    BY <1>11, <2>1 DEF StartLoop, Goes, Starts, HolderInv, Starters, TypeOK
  <2> QED BY <2>3, <2>4 DEF HolderInv, Starters, Starts
<1>12. ASSUME NEW c \in Call, BridgeFails(c) PROVE HolderInv'
  <2>1. Starts(c) /\ call[c].loop \in Loop /\ loop[call[c].loop] = "starting"
    BY <1>12 DEF BridgeFails, At, Starts, HolderInv, Starters
  <2>2. \A h \in Loop : loop'[h] \notin Holding
    BY <1>12, <2>1 DEF BridgeFails, TypeOK, HolderInv, Holders, Holding
  <2>3. ~RUNNING' /\ hook'.at = "none"
    BY <1>12 DEF BridgeFails, TypeOK, HookAt
  <2>4. Holders'
    BY <2>2, <2>3 DEF Holders
  <2>5. \A d \in Call : ~Starts(d)'
    BY <1>12, <2>1 DEF BridgeFails, Goes, Starts, HolderInv, Starters, TypeOK
  <2> QED BY <2>4, <2>5 DEF HolderInv, Starters, Starts
<1>13. ASSUME NEW c \in Call, KeepHandle(c) PROVE HolderInv'
  BY <1>13, HolderFrame DEF KeepHandle, Goes, TypeOK, statics, thread, router, switch
<1>14. ASSUME NEW c \in Call, SharingOn(c) PROVE HolderInv'
  BY <1>14, HolderFrame DEF SharingOn, Goes, TypeOK, statics, thread, router, switch
<1>15. ASSUME NEW c \in Call, StopSharing(c) PROVE HolderInv'
  BY <1>15, HolderFrame DEF StopSharing, TypeOK, statics, thread, router, switch
<1>16. ASSUME NEW c \in Call, Stopped(c) PROVE HolderInv'
  BY <1>16, HolderFrame DEF Stopped, Goes, TypeOK, statics, thread, router, switch
<1>17. ASSUME NEW g \in Loop, Heartbeat(g) PROVE HolderInv'
  BY <1>17, HolderFrame DEF Heartbeat, statics, thread, router, switch
<1>18. ASSUME NEW g \in Loop, Route(g) PROVE HolderInv'
  BY <1>18, HolderFrame DEF Route, statics, thread, router, switch
<1>19. ASSUME NEW g \in Loop, Flush(g) PROVE HolderInv'
  BY <1>19, HolderFrame DEF Flush, statics, thread, router, switch
<1>20. ASSUME NEW g \in Loop, Warp(g) PROVE HolderInv'
  BY <1>20, HolderMoves DEF Warp, Moves, Holding, Phase, statics, thread, switch
<1>21. ASSUME NEW g \in Loop, AnnouncedAway(g) PROVE HolderInv'
  BY <1>21, HolderFrame DEF AnnouncedAway, GoAway, statics, thread, router, switch
<1>22. ASSUME NEW g \in Loop, Crosses(g) PROVE HolderInv'
  BY <1>22, HolderFrame DEF Crosses, GoAway, statics, thread, router, switch
<1>23. ASSUME NEW g \in Loop, TakeBack(g) PROVE HolderInv'
  BY <1>23, HolderFrame DEF TakeBack, statics, thread, router, switch
<1>24. ASSUME NEW g \in Loop, CursorEnter(g) PROVE HolderInv'
  BY <1>24, HolderMoves DEF CursorEnter, Moves, Holding, Phase, statics, thread,
     switch, Turns
<1>25. ASSUME NEW g \in Loop, Break(g) PROVE HolderInv'
  BY <1>25, HolderMoves DEF Break, Moves, Holding, Phase, statics, thread, switch, Turns
<1>26. ASSUME NEW g \in Loop, Drop(g) PROVE HolderInv'
  BY <1>26, HolderMoves DEF Drop, Moves, Holding, Phase, statics, thread, switch
<1>27. ASSUME NEW g \in Loop, Join(g) PROVE HolderInv'
  <2>1. /\ loop[g] = "join" /\ hook.at = "none" /\ ~RUNNING' /\ call' = call /\ hook' = hook
        /\ loop' = [loop EXCEPT ![g] = "unsink"]
    BY <1>27 DEF Join, Moves, thread, switch
  <2>2. \A h \in Loop : loop'[h] \notin Holding
    BY <2>1 DEF TypeOK, HolderInv, Holders, Holding
  <2>3. Holders'
    BY <2>1, <2>2 DEF Holders
  <2>4. \A d \in Call : ~Starts(d)
    BY <2>1 DEF HolderInv, Holders, Starters, Holding
  <2> QED BY <2>1, <2>3, <2>4 DEF HolderInv, Starters, Starts
<1>28. ASSUME NEW g \in Loop, Unsink(g) PROVE HolderInv'
  BY <1>28, HolderMoves DEF Unsink, Moves, Holding, Phase, statics, thread, switch
<1>29. ASSUME NEW g \in Loop, Stall(g) PROVE HolderInv'
  BY <1>29, HolderFrame DEF Stall, statics, thread, router, switch
<1>30. ASSUME NEW g \in Loop, Unstall(g) PROVE HolderInv'
  BY <1>30, HolderFrame DEF Unstall, statics, thread, router, switch
<1>31. ASSUME Key PROVE HolderInv'
  BY <1>31, HolderFrame DEF Key, Sees, Asks, TypeOK, HookAt, statics, thread, router,
     switch
<1>32. ASSUME Unreported PROVE HolderInv'
  BY <1>32, HolderFrame DEF Unreported, Sees, Asks, TypeOK, HookAt, statics, thread,
     router, switch
<1>33. ASSUME Hatch PROVE HolderInv'
  BY <1>33, HolderFrame DEF Hatch, Sees, Passes, TypeOK, HookAt, statics, thread,
     router, switch
<1>34. ASSUME TapMovement PROVE HolderInv'
  BY <1>34, HolderFrame DEF TapMovement, Sees, Asks, TypeOK, HookAt, statics, thread,
     router, switch
<1>35. ASSUME RawInput PROVE HolderInv'
  BY <1>35, HolderFrame DEF RawInput, Sees, statics, thread, router, switch
<1>36. ASSUME Replay PROVE HolderInv'
  BY <1>36, HolderFrame DEF Replay, Sees, Passes, TypeOK, HookAt, statics, thread,
     router, switch
<1>37. ASSUME DisableTap PROVE HolderInv'
  BY <1>37, HolderFrame DEF DisableTap, Sees, statics, thread, router, switch
<1>38. ASSUME ReEnable PROVE HolderInv'
  BY <1>38, HolderFrame DEF ReEnable, statics, thread, router, switch
<1>39. ASSUME CheckSuppressing PROVE HolderInv'
  BY <1>39, HolderFrame DEF CheckSuppressing, TypeOK, HookAt, statics, thread, router,
     switch
<1>40. ASSUME CheckWatchdog PROVE HolderInv'
  BY <1>40, HolderFrame DEF CheckWatchdog, TypeOK, HookAt, statics, thread, router,
     switch
<1>41. ASSUME PassOn PROVE HolderInv'
  BY <1>41, HolderFrame DEF PassOn, TypeOK, HookAt, statics, thread, router, switch
<1>42. ASSUME Gone PROVE HolderInv'
  BY <1>42, HolderFrame DEF Gone, TypeOK, HookAt, statics, thread, router, switch
<1>43. ASSUME Quit PROVE HolderInv'
  BY <1>43, HolderFrame DEF Quit, TypeOK, HookAt, statics, thread, router, switch
<1> QED
  BY <1>1, <1>2, <1>3, <1>4, <1>5, <1>6, <1>7, <1>8, <1>9, <1>10, <1>11, <1>12, <1>13,
     <1>14, <1>15, <1>16, <1>17, <1>18, <1>19, <1>20, <1>21, <1>22, <1>23, <1>24,
     <1>25, <1>26, <1>27, <1>28, <1>29, <1>30, <1>31, <1>32, <1>33, <1>34, <1>35,
     <1>36, <1>37, <1>38, <1>39, <1>40, <1>41, <1>42, <1>43 DEF Step, SetSuppression,
     Switch, Routing, Moving, Ending, Callback, MouseHook, KeyboardHook, TapCallback,
     Deciding

-----------------------------------------------------------------------------
(* What is swallowed, and for whom *)

\* The running loop takes the pointer to be on another machine.
AwayRuns == \E g \in Loop : loop[g] = "running" /\ away[g]

\* Only the owner ever asks for swallowing, for a pointer that is away.
SwallowInv ==
  /\ SwallowedForSomebody
  /\ sup[Hook].to = FALSE
  /\ sup[Owner].at = "store" /\ sup[Owner].to => AwayRuns

\* The hook thread only ever releases.
LEMMA ReachKeeps ==
  ASSUME TypeOK, sup[Hook].to = FALSE, NEW at, Reach(Hook, at)
  PROVE  sup'[Owner] = sup[Owner] /\ sup'[Hook].at = at /\ sup'[Hook].to = FALSE
<1>1. (at # "idle" /\ sup[Hook].to) = FALSE
  OBVIOUS
<1>2. sup' = [sup EXCEPT ![Hook] = [at |-> at, to |-> (at # "idle" /\ sup[Hook].to)]]
  BY DEF Reach
<1>3. sup' = [sup EXCEPT ![Hook] = [at |-> at, to |-> FALSE]]
  BY <1>1, <1>2
<1> QED
  BY <1>3 DEF TypeOK, Owner, Hook

\* Nothing is swallowed at the start.
LEMMA SwallowInit == Init => SwallowInv
  BY DEF Init, SwallowInv, SwallowedForSomebody, Owner, Hook

\* A step that leaves the flag, the calls and a pointer that is away alone.
LEMMA SwallowFrame ==
  ASSUME SwallowInv, SUPPRESSING' = SUPPRESSING, sup' = sup, AwayRuns => AwayRuns'
  PROVE  SwallowInv'
  BY DEF SwallowInv, SwallowedForSomebody, AwayRuns

\* The owner begins to release.
LEMMA SwallowOwnerReleases ==
  ASSUME TypeOK, SwallowInv, SUPPRESSING' = SUPPRESSING, Enter(Owner, FALSE)
  PROVE  SwallowInv'
<1>1. sup'[Owner] = [at |-> "store", to |-> FALSE] /\ sup'[Hook] = sup[Hook]
  BY DEF Enter, TypeOK, Owner, Hook
<1> QED
  BY <1>1 DEF SwallowInv, SwallowedForSomebody

\* The owner begins to swallow, the pointer being away.
LEMMA SwallowOwnerTakes ==
  ASSUME TypeOK, SwallowInv, SUPPRESSING' = SUPPRESSING, Enter(Owner, TRUE), AwayRuns'
  PROVE  SwallowInv'
<1>1. sup'[Owner] = [at |-> "store", to |-> TRUE] /\ sup'[Hook] = sup[Hook]
  BY DEF Enter, TypeOK, Owner, Hook
<1> QED
  BY <1>1 DEF SwallowInv, SwallowedForSomebody, AwayRuns

\* The hook thread begins to release.
LEMMA SwallowHookReleases ==
  ASSUME TypeOK, SwallowInv, SUPPRESSING' = SUPPRESSING, Enter(Hook, FALSE),
         loop' = loop, away' = away
  PROVE  SwallowInv'
<1>1. sup'[Hook] = [at |-> "store", to |-> FALSE] /\ sup'[Owner] = sup[Owner]
  BY DEF Enter, TypeOK, Owner, Hook
<1> QED
  BY <1>1 DEF SwallowInv, SwallowedForSomebody, AwayRuns

\* Every step keeps it: a pointer comes back, or a loop ends, by releasing first.
LEMMA SwallowStep == TypeOK /\ HolderInv /\ SwallowInv /\ Step => SwallowInv'
<1> SUFFICES ASSUME TypeOK, HolderInv, SwallowInv, Step PROVE SwallowInv'
  OBVIOUS
<1>1. ASSUME NEW t \in {Owner, Hook}, StoreSuppressing(t) PROVE SwallowInv'
  <2>1. /\ sup[t].at = "store" /\ SUPPRESSING' = sup[t].to /\ loop' = loop /\ away' = away
        /\ \E at \in {"swap", "idle"} :
             sup' = [sup EXCEPT ![t] = [at |-> at, to |-> at # "idle" /\ @.to]]
    BY <1>1 DEF StoreSuppressing, Reach, router
  <2>2. CASE t = Owner
    <3>1. sup'[Hook] = sup[Hook] /\ sup'[Owner].at # "store"
      BY <2>1, <2>2 DEF TypeOK, Owner, Hook
    <3> QED BY <2>1, <2>2, <3>1 DEF SwallowInv, SwallowedForSomebody, AwayRuns
  <2>3. CASE t = Hook
    <3>1. sup'[Owner] = sup[Owner] /\ sup'[Hook].to = FALSE
      BY <1>1, <2>3, ReachKeeps DEF SwallowInv, StoreSuppressing
    <3> QED BY <2>1, <2>3, <3>1 DEF SwallowInv, SwallowedForSomebody, AwayRuns
  <2> QED BY <2>2, <2>3
<1>2. ASSUME NEW t \in {Owner, Hook}, SwapDetached(t) PROVE SwallowInv'
  <2>1. /\ sup[t].at # "store" /\ SUPPRESSING' = SUPPRESSING /\ loop' = loop /\ away' = away
        /\ \E at \in {"associate", "idle"} :
             sup' = [sup EXCEPT ![t] = [at |-> at, to |-> at # "idle" /\ @.to]]
    BY <1>2 DEF SwapDetached, Reach, router
  <2>2. CASE t = Owner
    <3>1. sup'[Hook] = sup[Hook] /\ sup'[Owner].at # "store"
      BY <2>1, <2>2 DEF TypeOK, Owner, Hook
    <3> QED BY <2>1, <2>2, <3>1 DEF SwallowInv, SwallowedForSomebody, AwayRuns
  <2>3. CASE t = Hook
    <3>1. sup'[Owner] = sup[Owner] /\ sup'[Hook].to = FALSE
      BY <1>2, <2>3, ReachKeeps DEF SwallowInv, SwapDetached
    <3> QED BY <2>1, <2>3, <3>1 DEF SwallowInv, SwallowedForSomebody, AwayRuns
  <2> QED BY <2>2, <2>3
<1>3. ASSUME NEW t \in {Owner, Hook}, Associate(t) PROVE SwallowInv'
  <2>1. /\ sup[t].at # "store" /\ SUPPRESSING' = SUPPRESSING /\ loop' = loop /\ away' = away
        /\ \E at \in {"associate", "idle"} :
             sup' = [sup EXCEPT ![t] = [at |-> at, to |-> at # "idle" /\ @.to]]
    BY <1>3 DEF Associate, Reach, router
  <2>2. CASE t = Owner
    <3>1. sup'[Hook] = sup[Hook] /\ sup'[Owner].at # "store"
      BY <2>1, <2>2 DEF TypeOK, Owner, Hook
    <3> QED BY <2>1, <2>2, <3>1 DEF SwallowInv, SwallowedForSomebody, AwayRuns
  <2>3. CASE t = Hook
    <3>1. sup'[Owner] = sup[Owner] /\ sup'[Hook].to = FALSE
      BY <1>3, <2>3, ReachKeeps DEF SwallowInv, Associate
    <3> QED BY <2>1, <2>3, <3>1 DEF SwallowInv, SwallowedForSomebody, AwayRuns
  <2> QED BY <2>2, <2>3
<1>4. ASSUME Elapse PROVE SwallowInv'
  BY <1>4, SwallowFrame DEF Elapse, statics, router, AwayRuns
<1>5. ASSUME NEW c \in Call, NEW b \in BOOLEAN, SetSharing(c, b) PROVE SwallowInv'
  BY <1>5, SwallowFrame DEF SetSharing, statics, router, AwayRuns
<1>6. ASSUME NEW c \in Call, StartCapture(c) PROVE SwallowInv'
  BY <1>6, SwallowOwnerReleases DEF StartCapture, statics
<1>7. ASSUME NEW c \in Call, AlreadyRunning(c) PROVE SwallowInv'
  BY <1>7, SwallowFrame DEF AlreadyRunning, statics, router, AwayRuns
<1>8. ASSUME NEW c \in Call, Install(c) PROVE SwallowInv'
  BY <1>8, SwallowFrame DEF Install, statics, router, AwayRuns
<1>9. ASSUME NEW c \in Call, Refuse(c) PROVE SwallowInv'
  <2>1. loop[call[c].loop] # "running"
    BY <1>9 DEF Refuse, At, HolderInv, Starters, Starts
  <2>2. AwayRuns => AwayRuns'
    BY <1>9, <2>1 DEF Refuse, AwayRuns, TypeOK
  <2> QED BY <1>9, <2>2, SwallowFrame DEF Refuse, statics
<1>10. ASSUME NEW c \in Call, SpawnFails(c) PROVE SwallowInv'
  <2>1. loop[call[c].loop] # "running"
    BY <1>10 DEF SpawnFails, At, HolderInv, Starters, Starts
  <2>2. AwayRuns => AwayRuns'
    BY <1>10, <2>1 DEF SpawnFails, AwayRuns, TypeOK
  <2> QED BY <1>10, <2>2, SwallowFrame DEF SpawnFails, statics
<1>11. ASSUME NEW c \in Call, StartLoop(c) PROVE SwallowInv'
  <2>1. loop[call[c].loop] # "running"
    BY <1>11 DEF StartLoop, At, HolderInv, Starters, Starts
  <2>2. AwayRuns => AwayRuns'
    BY <1>11, <2>1 DEF StartLoop, AwayRuns, TypeOK
  <2> QED BY <1>11, <2>2, SwallowFrame DEF StartLoop, statics
<1>12. ASSUME NEW c \in Call, BridgeFails(c) PROVE SwallowInv'
  <2>1. loop[call[c].loop] # "running"
    BY <1>12 DEF BridgeFails, At, HolderInv, Starters, Starts
  <2>2. AwayRuns => AwayRuns'
    BY <1>12, <2>1 DEF BridgeFails, AwayRuns, TypeOK
  <2> QED BY <1>12, <2>2, SwallowFrame DEF BridgeFails, statics
<1>13. ASSUME NEW c \in Call, KeepHandle(c) PROVE SwallowInv'
  BY <1>13, SwallowFrame DEF KeepHandle, statics, router, AwayRuns
<1>14. ASSUME NEW c \in Call, SharingOn(c) PROVE SwallowInv'
  BY <1>14, SwallowFrame DEF SharingOn, statics, router, AwayRuns
<1>15. ASSUME NEW c \in Call, StopSharing(c) PROVE SwallowInv'
  BY <1>15, SwallowFrame DEF StopSharing, statics, router, AwayRuns
<1>16. ASSUME NEW c \in Call, Stopped(c) PROVE SwallowInv'
  BY <1>16, SwallowFrame DEF Stopped, statics, router, AwayRuns
<1>17. ASSUME NEW g \in Loop, Heartbeat(g) PROVE SwallowInv'
  BY <1>17, SwallowFrame DEF Heartbeat, statics, router, AwayRuns
<1>18. ASSUME NEW g \in Loop, Route(g) PROVE SwallowInv'
  BY <1>18, SwallowFrame DEF Route, statics, AwayRuns
<1>19. ASSUME NEW g \in Loop, Flush(g) PROVE SwallowInv'
  BY <1>19, SwallowFrame DEF Flush, statics, router, AwayRuns
<1>20. ASSUME NEW g \in Loop, Warp(g) PROVE SwallowInv'
  <2>1. AwayRuns => AwayRuns'
    BY <1>20 DEF Warp, Moves, AwayRuns, TypeOK
  <2> QED BY <1>20, <2>1, SwallowFrame DEF Warp, statics
<1>21. ASSUME NEW g \in Loop, AnnouncedAway(g) PROVE SwallowInv'
  <2>1. AwayRuns'
    BY <1>21 DEF AnnouncedAway, GoAway, Turns, AwayRuns, TypeOK
  <2> QED BY <1>21, <2>1, SwallowOwnerTakes DEF AnnouncedAway, GoAway, SetSuppressing
<1>22. ASSUME NEW g \in Loop, Crosses(g) PROVE SwallowInv'
  <2>1. AwayRuns'
    BY <1>22 DEF Crosses, NextEvent, GoAway, Turns, AwayRuns, TypeOK
  <2> QED BY <1>22, <2>1, SwallowOwnerTakes DEF Crosses, GoAway, SetSuppressing
<1>23. ASSUME NEW g \in Loop, TakeBack(g) PROVE SwallowInv'
  BY <1>23, SwallowOwnerReleases DEF TakeBack, SetSuppressing, statics
<1>24. ASSUME NEW g \in Loop, CursorEnter(g) PROVE SwallowInv'
  <2>1. CASE away[g]
    BY <1>24, <2>1, SwallowOwnerReleases DEF CursorEnter, SetSuppressing
  <2>2. CASE ~away[g]
    <3>1. ~AwayRuns
      BY <1>24, <2>2 DEF CursorEnter, Turns, AwayRuns, HolderInv, Holders, Holding
    <3> QED BY <1>24, <2>2, <3>1, SwallowFrame DEF CursorEnter
  <2> QED BY <2>1, <2>2
<1>25. ASSUME NEW g \in Loop, Break(g) PROVE SwallowInv'
  BY <1>25, SwallowOwnerReleases DEF Break, SetSuppressing, statics
<1>26. ASSUME NEW g \in Loop, Drop(g) PROVE SwallowInv'
  BY <1>26, SwallowOwnerReleases DEF Drop, statics
<1>27. ASSUME NEW g \in Loop, Join(g) PROVE SwallowInv'
  <2>1. AwayRuns => AwayRuns'
    BY <1>27 DEF Join, Moves, Clear, AwayRuns, TypeOK
  <2> QED BY <1>27, <2>1, SwallowFrame DEF Join, statics
<1>28. ASSUME NEW g \in Loop, Unsink(g) PROVE SwallowInv'
  <2>1. AwayRuns => AwayRuns'
    BY <1>28 DEF Unsink, Moves, AwayRuns, TypeOK
  <2> QED BY <1>28, <2>1, SwallowFrame DEF Unsink, statics
<1>29. ASSUME NEW g \in Loop, Stall(g) PROVE SwallowInv'
  BY <1>29, SwallowFrame DEF Stall, statics, router, AwayRuns
<1>30. ASSUME NEW g \in Loop, Unstall(g) PROVE SwallowInv'
  BY <1>30, SwallowFrame DEF Unstall, statics, router, AwayRuns
<1>31. ASSUME Key PROVE SwallowInv'
  BY <1>31, SwallowFrame DEF Key, statics, router, AwayRuns
<1>32. ASSUME Unreported PROVE SwallowInv'
  BY <1>32, SwallowFrame DEF Unreported, statics, router, AwayRuns
<1>33. ASSUME Hatch PROVE SwallowInv'
  BY <1>33, SwallowHookReleases DEF Hatch, statics, router
<1>34. ASSUME TapMovement PROVE SwallowInv'
  BY <1>34, SwallowFrame DEF TapMovement, statics, router, AwayRuns
<1>35. ASSUME RawInput PROVE SwallowInv'
  BY <1>35, SwallowFrame DEF RawInput, statics, router, AwayRuns
<1>36. ASSUME Replay PROVE SwallowInv'
  BY <1>36, SwallowFrame DEF Replay, statics, router, AwayRuns
<1>37. ASSUME DisableTap PROVE SwallowInv'
  BY <1>37, SwallowFrame DEF DisableTap, statics, router, AwayRuns
<1>38. ASSUME ReEnable PROVE SwallowInv'
  BY <1>38, SwallowFrame DEF ReEnable, statics, router, AwayRuns
<1>39. ASSUME CheckSuppressing PROVE SwallowInv'
  BY <1>39, SwallowFrame DEF CheckSuppressing, statics, router, AwayRuns
<1>40. ASSUME CheckWatchdog PROVE SwallowInv'
  <2>1. CASE UNCHANGED sup
    BY <1>40, <2>1, SwallowFrame DEF CheckWatchdog, statics, router, AwayRuns
  <2>2. CASE Enter(Hook, FALSE)
    BY <1>40, <2>2, SwallowHookReleases DEF CheckWatchdog, statics, router
  <2> QED BY <1>40, <2>1, <2>2 DEF CheckWatchdog
<1>41. ASSUME PassOn PROVE SwallowInv'
  BY <1>41, SwallowFrame DEF PassOn, statics, router, AwayRuns
<1>42. ASSUME Gone PROVE SwallowInv'
  BY <1>42, SwallowFrame DEF Gone, statics, router, AwayRuns
<1>43. ASSUME Quit PROVE SwallowInv'
  BY <1>43, SwallowHookReleases DEF Quit, statics, router
<1> QED
  BY <1>1, <1>2, <1>3, <1>4, <1>5, <1>6, <1>7, <1>8, <1>9, <1>10, <1>11, <1>12, <1>13,
     <1>14, <1>15, <1>16, <1>17, <1>18, <1>19, <1>20, <1>21, <1>22, <1>23, <1>24,
     <1>25, <1>26, <1>27, <1>28, <1>29, <1>30, <1>31, <1>32, <1>33, <1>34, <1>35,
     <1>36, <1>37, <1>38, <1>39, <1>40, <1>41, <1>42, <1>43 DEF Step, SetSuppression,
     Switch, Routing, Moving, Ending, Callback, MouseHook, KeyboardHook, TapCallback,
     Deciding

-----------------------------------------------------------------------------
(* The two callers of set_suppression *)

\* The hook thread is not there, or will call set_suppression no more.
Leaving == {"none", "quit"}

\* No thread enters set_suppression a second time before it has left it, and a
\* Capture is given up with nobody in it.
OwnerInv ==
  /\ ~RUNNING => Idle(Owner)
  /\ \A c \in Call : call[c].at = "route" => Idle(Owner) /\ hook.at \notin Leaving
  /\ \A g \in Loop : loop[g] \in {"running", "entering", "release"} => hook.at \notin Leaving
  /\ \A g \in Loop : loop[g] = "join" /\ hook.at \in Leaving => Idle(Owner)
  /\ ~Idle(Hook) => hook.at \in {"pass", "quit"}

\* Nobody is in set_suppression at the start.
LEMMA OwnerInit == Init => OwnerInv
<1> SUFFICES ASSUME Init PROVE OwnerInv
  OBVIOUS
<1>1. Idle(Owner) /\ Idle(Hook)
  BY DEF Init, Idle, Owner, Hook
<1>2. \A c \in Call : call[c].at = "unused"
  BY DEF Init
<1>3. \A g \in Loop : loop[g] \in {"running", "entering", "release"} => g = First
  BY DEF Init
<1>4. First # None => hook.at = "idle"
  BY DEF Init
<1> QED
  BY <1>1, <1>2, <1>3, <1>4, CaptureAssumption DEF OwnerInv, Leaving, None

\* A step in which no loop moves and no thread enters set_suppression.
LEMMA OwnerFrame ==
  ASSUME OwnerInv, RUNNING' = RUNNING, loop' = loop,
         \A c \in Call : call'[c].at = "route" => call[c].at = "route",
         Idle(Owner) => Idle(Owner)', hook'.at \in Leaving => hook.at \in Leaving,
         ~Idle(Hook)' => hook'.at \in {"pass", "quit"}
  PROVE  OwnerInv'
  BY DEF OwnerInv

\* A step of the loop that holds the Capture.
LEMMA OwnerMoves ==
  ASSUME HolderInv, OwnerInv, RUNNING' = RUNNING, call' = call, hook' = hook,
         Idle(Hook)' = Idle(Hook), NEW g \in Loop,
         loop[g] \in {"running", "entering", "release"},
         loop'[g] \in {"running", "entering", "release", "join"},
         \A h \in Loop : h # g => loop'[h] = loop[h]
  PROVE  OwnerInv'
<1>1. RUNNING /\ \A h \in Loop : loop[h] \in Holding => h = g
  BY DEF HolderInv, Holders, Holding
<1>2. \A c \in Call : call[c].at # "route"
  BY <1>1 DEF HolderInv, Starters, Starts, Holding
<1>3. hook.at \notin Leaving
  BY DEF OwnerInv
<1> QED
  BY <1>1, <1>2, <1>3 DEF OwnerInv, Holding

\* Every step keeps it.
LEMMA OwnerStep == TypeOK /\ HolderInv /\ OwnerInv /\ Step => OwnerInv'
<1> SUFFICES ASSUME TypeOK, HolderInv, OwnerInv, Step PROVE OwnerInv'
  OBVIOUS
<1>1. ASSUME NEW t \in {Owner, Hook}, StoreSuppressing(t) PROVE OwnerInv'
  <2>1. Idle(Owner) => Idle(Owner)'
    BY <1>1 DEF StoreSuppressing, Reach, Idle, TypeOK, Owner, Hook
  <2>2. ~Idle(Hook)' => ~Idle(Hook)
    BY <1>1 DEF StoreSuppressing, Reach, Idle, TypeOK, Owner, Hook
  <2> QED BY <1>1, <2>1, <2>2, OwnerFrame DEF StoreSuppressing, thread, router, switch,
             OwnerInv
<1>2. ASSUME NEW t \in {Owner, Hook}, SwapDetached(t) PROVE OwnerInv'
  <2>1. Idle(Owner) => Idle(Owner)'
    BY <1>2 DEF SwapDetached, Reach, Idle, TypeOK, Owner, Hook
  <2>2. ~Idle(Hook)' => ~Idle(Hook)
    BY <1>2 DEF SwapDetached, Reach, Idle, TypeOK, Owner, Hook
  <2> QED BY <1>2, <2>1, <2>2, OwnerFrame DEF SwapDetached, thread, router, switch,
             OwnerInv
<1>3. ASSUME NEW t \in {Owner, Hook}, Associate(t) PROVE OwnerInv'
  <2>1. Idle(Owner) => Idle(Owner)'
    BY <1>3 DEF Associate, Reach, Idle, TypeOK, Owner, Hook
  <2>2. ~Idle(Hook)' => ~Idle(Hook)
    BY <1>3 DEF Associate, Reach, Idle, TypeOK, Owner, Hook
  <2> QED BY <1>3, <2>1, <2>2, OwnerFrame DEF Associate, thread, router, switch,
             OwnerInv
<1>4. ASSUME Elapse PROVE OwnerInv'
  BY <1>4, OwnerFrame DEF Elapse, Idle, statics, thread, router, switch, TypeOK,
     OwnerInv
<1>5. ASSUME NEW c \in Call, NEW b \in BOOLEAN, SetSharing(c, b) PROVE OwnerInv'
  BY <1>5, OwnerFrame DEF SetSharing, Goes, Idle, statics, thread, router, switch,
     TypeOK, OwnerInv
<1>6. ASSUME NEW c \in Call, StartCapture(c) PROVE OwnerInv'
  <2>1. /\ ~RUNNING /\ RUNNING' /\ hook' = hook
        /\ \A h \in Loop : loop'[h] \in {loop[h], "starting"}
        /\ \A d \in Call : call'[d].at \in {call[d].at, "install"}
        /\ Idle(Hook)' = Idle(Hook)
    BY <1>6 DEF StartCapture, thread, Enter, Idle, TypeOK, Owner, Hook
  <2>2. \A h \in Loop : loop[h] \notin Holding
    BY <2>1 DEF HolderInv, Holders
  <2>3. \A d \in Call : call[d].at # "route"
    BY <2>2 DEF HolderInv, Starters, Starts, Holding
  <2> QED BY <2>1, <2>2, <2>3 DEF OwnerInv, Holding
<1>7. ASSUME NEW c \in Call, AlreadyRunning(c) PROVE OwnerInv'
  BY <1>7, OwnerFrame DEF AlreadyRunning, Goes, Idle, statics, thread, router, switch,
     TypeOK, OwnerInv
<1>8. ASSUME NEW c \in Call, Install(c) PROVE OwnerInv'
  <2>1. /\ hook.at = "none" /\ hook'.at = "idle" /\ Idle(Owner) /\ sup' = sup
        /\ RUNNING' = RUNNING /\ loop' = loop
    BY <1>8 DEF Install, At, HolderInv, Starters, statics, router
  <2> QED BY <2>1 DEF OwnerInv, Idle, Leaving
<1>9. ASSUME NEW c \in Call, Refuse(c) PROVE OwnerInv'
  <2>1. Starts(c) /\ call[c].loop \in Loop /\ loop[call[c].loop] = "starting"
    BY <1>9 DEF Refuse, At, Starts, HolderInv, Starters
  <2>2. \A d \in Call : call'[d].at # "route"
    BY <1>9, <2>1 DEF Refuse, Goes, Starts, HolderInv, Starters, TypeOK
  <2>3. /\ Idle(Owner) /\ sup' = sup /\ hook' = hook
        /\ \A h \in Loop : loop'[h] \in {loop[h], "finished"}
    BY <1>9 DEF Refuse, thread, TypeOK
  <2> QED BY <2>2, <2>3 DEF OwnerInv, Idle
<1>10. ASSUME NEW c \in Call, SpawnFails(c) PROVE OwnerInv'
  <2>1. Starts(c) /\ call[c].loop \in Loop /\ loop[call[c].loop] = "starting"
    BY <1>10 DEF SpawnFails, At, Starts, HolderInv, Starters
  <2>2. \A d \in Call : call'[d].at # "route"
    BY <1>10, <2>1 DEF SpawnFails, Goes, Starts, HolderInv, Starters, TypeOK
  <2>3. /\ Idle(Owner) /\ sup' = sup /\ hook' = hook
        /\ \A h \in Loop : loop'[h] \in {loop[h], "leaked"}
    BY <1>10 DEF SpawnFails, thread, TypeOK
  <2> QED BY <2>2, <2>3 DEF OwnerInv, Idle
<1>11. ASSUME NEW c \in Call, StartLoop(c) PROVE OwnerInv'
  <2>1. Starts(c) /\ call[c].loop \in Loop /\ loop[call[c].loop] = "starting"
    BY <1>11 DEF StartLoop, At, Starts, HolderInv, Starters
  <2>2. \A d \in Call : call'[d].at # "route"
    BY <1>11, <2>1 DEF StartLoop, Goes, Starts, HolderInv, Starters, TypeOK
  <2>3. Idle(Owner) /\ hook.at \notin Leaving
    BY <1>11 DEF StartLoop, At, OwnerInv
  <2>4. sup' = sup /\ hook' = hook
    BY <1>11 DEF StartLoop, thread
  <2> QED BY <2>2, <2>3, <2>4 DEF OwnerInv, Idle
<1>12. ASSUME NEW c \in Call, BridgeFails(c) PROVE OwnerInv'
  <2>1. Starts(c) /\ call[c].loop \in Loop /\ loop[call[c].loop] = "starting"
    BY <1>12 DEF BridgeFails, At, Starts, HolderInv, Starters
  <2>2. \A d \in Call : call'[d].at # "route"
    BY <1>12, <2>1 DEF BridgeFails, Goes, Starts, HolderInv, Starters, TypeOK
  <2>3. Idle(Owner) /\ Idle(Hook) /\ sup' = sup
    BY <1>12 DEF BridgeFails, At, OwnerInv
  <2>4. \A h \in Loop : loop'[h] \notin Holding
    BY <1>12, <2>1 DEF BridgeFails, TypeOK, HolderInv, Holders, Holding
  <2> QED BY <2>2, <2>3, <2>4 DEF OwnerInv, Idle, Holding
<1>13. ASSUME NEW c \in Call, KeepHandle(c) PROVE OwnerInv'
  BY <1>13, OwnerFrame DEF KeepHandle, Goes, Idle, statics, thread, router, switch,
     TypeOK, OwnerInv
<1>14. ASSUME NEW c \in Call, SharingOn(c) PROVE OwnerInv'
  BY <1>14, OwnerFrame DEF SharingOn, Goes, Idle, statics, thread, router, switch,
     TypeOK, OwnerInv
<1>15. ASSUME NEW c \in Call, StopSharing(c) PROVE OwnerInv'
  BY <1>15, OwnerFrame DEF StopSharing, Idle, statics, thread, router, switch, TypeOK,
     OwnerInv
<1>16. ASSUME NEW c \in Call, Stopped(c) PROVE OwnerInv'
  BY <1>16, OwnerFrame DEF Stopped, Goes, Idle, statics, thread, router, switch,
     TypeOK, OwnerInv
<1>17. ASSUME NEW g \in Loop, Heartbeat(g) PROVE OwnerInv'
  BY <1>17, OwnerFrame DEF Heartbeat, Idle, statics, thread, router, switch, TypeOK,
     OwnerInv
<1>18. ASSUME NEW g \in Loop, Route(g) PROVE OwnerInv'
  BY <1>18, OwnerFrame DEF Route, Idle, statics, thread, router, switch, TypeOK,
     OwnerInv
<1>19. ASSUME NEW g \in Loop, Flush(g) PROVE OwnerInv'
  BY <1>19, OwnerFrame DEF Flush, Idle, statics, thread, router, switch, TypeOK,
     OwnerInv
<1>20. ASSUME NEW g \in Loop, Warp(g) PROVE OwnerInv'
  <2>1. /\ RUNNING' = RUNNING /\ call' = call /\ hook' = hook
        /\ loop[g] \in {"running", "entering", "release"}
        /\ loop'[g] \in {"running", "entering", "release", "join"}
        /\ \A h \in Loop : h # g => loop'[h] = loop[h]
    BY <1>20 DEF Warp, Moves, statics, thread, switch, TypeOK
  <2>2. Idle(Hook)' = Idle(Hook)
    BY <1>20 DEF Warp, Idle, TypeOK, Owner, Hook
  <2> QED BY <2>1, <2>2, OwnerMoves
<1>21. ASSUME NEW g \in Loop, AnnouncedAway(g) PROVE OwnerInv'
  <2>1. /\ RUNNING' = RUNNING /\ call' = call /\ hook' = hook
        /\ loop[g] \in {"running", "entering", "release"}
        /\ loop'[g] \in {"running", "entering", "release", "join"}
        /\ \A h \in Loop : h # g => loop'[h] = loop[h]
    BY <1>21 DEF AnnouncedAway, GoAway, Turns, statics, thread, switch, TypeOK
  <2>2. Idle(Hook)' = Idle(Hook)
    BY <1>21 DEF AnnouncedAway, GoAway, SetSuppressing, Enter, Idle, TypeOK, Owner, Hook
  <2> QED BY <2>1, <2>2, OwnerMoves
<1>22. ASSUME NEW g \in Loop, Crosses(g) PROVE OwnerInv'
  <2>1. /\ RUNNING' = RUNNING /\ call' = call /\ hook' = hook
        /\ loop[g] \in {"running", "entering", "release"}
        /\ loop'[g] \in {"running", "entering", "release", "join"}
        /\ \A h \in Loop : h # g => loop'[h] = loop[h]
    BY <1>22 DEF Crosses, GoAway, NextEvent, Turns, statics, thread, switch, TypeOK
  <2>2. Idle(Hook)' = Idle(Hook)
    BY <1>22 DEF Crosses, GoAway, SetSuppressing, Enter, Idle, TypeOK, Owner, Hook
  <2> QED BY <2>1, <2>2, OwnerMoves
<1>23. ASSUME NEW g \in Loop, TakeBack(g) PROVE OwnerInv'
  <2>1. /\ RUNNING' = RUNNING /\ call' = call /\ hook' = hook
        /\ loop[g] \in {"running", "entering", "release"}
        /\ loop'[g] \in {"running", "entering", "release", "join"}
        /\ \A h \in Loop : h # g => loop'[h] = loop[h]
    BY <1>23 DEF TakeBack, Turns, statics, thread, switch, TypeOK
  <2>2. Idle(Hook)' = Idle(Hook)
    BY <1>23 DEF TakeBack, SetSuppressing, Enter, Idle, TypeOK, Owner, Hook
  <2> QED BY <2>1, <2>2, OwnerMoves
<1>24. ASSUME NEW g \in Loop, CursorEnter(g) PROVE OwnerInv'
  <2>1. /\ RUNNING' = RUNNING /\ call' = call /\ hook' = hook
        /\ loop[g] \in {"running", "entering", "release"}
        /\ loop'[g] \in {"running", "entering", "release", "join"}
        /\ \A h \in Loop : h # g => loop'[h] = loop[h]
    BY <1>24 DEF CursorEnter, Turns, Moves, statics, thread, switch, TypeOK
  <2>2. Idle(Hook)' = Idle(Hook)
    BY <1>24 DEF CursorEnter, SetSuppressing, Enter, Idle, TypeOK, Owner, Hook
  <2> QED BY <2>1, <2>2, OwnerMoves
<1>25. ASSUME NEW g \in Loop, Break(g) PROVE OwnerInv'
  <2>1. /\ RUNNING' = RUNNING /\ call' = call /\ hook' = hook
        /\ loop[g] \in {"running", "entering", "release"}
        /\ loop'[g] \in {"running", "entering", "release", "join"}
        /\ \A h \in Loop : h # g => loop'[h] = loop[h]
    BY <1>25 DEF Break, Turns, Moves, statics, thread, switch, TypeOK
  <2>2. Idle(Hook)' = Idle(Hook)
    BY <1>25 DEF Break, SetSuppressing, Enter, Idle, TypeOK, Owner, Hook
  <2> QED BY <2>1, <2>2, OwnerMoves
<1>26. ASSUME NEW g \in Loop, Drop(g) PROVE OwnerInv'
  <2>1. /\ RUNNING' = RUNNING /\ call' = call /\ hook' = hook
        /\ loop[g] \in {"running", "entering", "release"}
        /\ loop'[g] \in {"running", "entering", "release", "join"}
        /\ \A h \in Loop : h # g => loop'[h] = loop[h]
    BY <1>26 DEF Drop, Moves, statics, thread, switch, TypeOK
  <2>2. Idle(Hook)' = Idle(Hook)
    BY <1>26 DEF Drop, Enter, Idle, TypeOK, Owner, Hook
  <2> QED BY <2>1, <2>2, OwnerMoves
<1>27. ASSUME NEW g \in Loop, Join(g) PROVE OwnerInv'
  <2>1. /\ loop[g] = "join" /\ hook.at = "none" /\ hook' = hook /\ sup' = sup /\ call' = call
        /\ \A h \in Loop : loop'[h] \in {loop[h], "unsink"}
    BY <1>27 DEF Join, Moves, thread, switch, TypeOK
  <2>2. Idle(Owner)
    BY <2>1 DEF OwnerInv, Leaving
  <2> QED BY <2>1, <2>2 DEF OwnerInv, Idle
<1>28. ASSUME NEW g \in Loop, Unsink(g) PROVE OwnerInv'
  <2>1. /\ hook' = hook /\ sup' = sup /\ call' = call /\ RUNNING' = RUNNING
        /\ \A h \in Loop : loop'[h] \in {loop[h], "finished"}
    BY <1>28 DEF Unsink, Moves, thread, statics, TypeOK
  <2> QED BY <2>1 DEF OwnerInv, Idle
<1>29. ASSUME NEW g \in Loop, Stall(g) PROVE OwnerInv'
  BY <1>29, OwnerFrame DEF Stall, Idle, statics, thread, router, switch, TypeOK,
     OwnerInv
<1>30. ASSUME NEW g \in Loop, Unstall(g) PROVE OwnerInv'
  BY <1>30, OwnerFrame DEF Unstall, Idle, statics, thread, router, switch, TypeOK,
     OwnerInv
<1>31. ASSUME Key PROVE OwnerInv'
  BY <1>31, OwnerFrame DEF Key, Sees, Asks, Idle, Leaving, HookAt, statics, thread,
     router, switch, TypeOK, OwnerInv
<1>32. ASSUME Unreported PROVE OwnerInv'
  BY <1>32, OwnerFrame DEF Unreported, Sees, Asks, Idle, Leaving, HookAt, statics,
     thread, router, switch, TypeOK, OwnerInv
<1>33. ASSUME Hatch PROVE OwnerInv'
  <2>1. Idle(Owner)' = Idle(Owner) /\ hook.at = "idle" /\ hook'.at = "pass"
    BY <1>33 DEF Hatch, Sees, Passes, Enter, Idle, TypeOK, Owner, Hook
  <2> QED BY <1>33, <2>1, OwnerFrame DEF Hatch, statics, router, switch, Leaving
<1>34. ASSUME TapMovement PROVE OwnerInv'
  BY <1>34, OwnerFrame DEF TapMovement, Sees, Asks, Idle, Leaving, HookAt, statics,
     thread, router, switch, TypeOK, OwnerInv
<1>35. ASSUME RawInput PROVE OwnerInv'
  BY <1>35, OwnerFrame DEF RawInput, Sees, Idle, statics, thread, router, switch,
     TypeOK, OwnerInv
<1>36. ASSUME Replay PROVE OwnerInv'
  BY <1>36, OwnerFrame DEF Replay, Sees, Passes, Idle, Leaving, HookAt, statics,
     thread, router, switch, TypeOK, OwnerInv
<1>37. ASSUME DisableTap PROVE OwnerInv'
  BY <1>37, OwnerFrame DEF DisableTap, Sees, Idle, statics, thread, router, switch,
     TypeOK, OwnerInv
<1>38. ASSUME ReEnable PROVE OwnerInv'
  BY <1>38, OwnerFrame DEF ReEnable, Idle, statics, thread, router, switch, TypeOK,
     OwnerInv
<1>39. ASSUME CheckSuppressing PROVE OwnerInv'
  BY <1>39, OwnerFrame DEF CheckSuppressing, Idle, Leaving, HookAt, statics, thread,
     router, switch, TypeOK, OwnerInv
<1>40. ASSUME CheckWatchdog PROVE OwnerInv'
  <2>1. CASE hook' = [at |-> "idle", key |-> FALSE] /\ UNCHANGED sup
    <3>1. hook.at = "watchdog" /\ hook'.at = "idle" /\ Idle(Owner)' = Idle(Owner) /\ Idle(Hook)' = Idle(Hook)
      BY <1>40, <2>1 DEF CheckWatchdog, Idle
    <3> QED BY <1>40, <3>1, OwnerFrame DEF CheckWatchdog, statics, router, switch,
               Leaving, OwnerInv
  <2>2. CASE hook' = [hook EXCEPT !.at = "pass"] /\ Enter(Hook, FALSE)
    <3>1. hook.at = "watchdog" /\ hook'.at = "pass" /\ Idle(Owner)' = Idle(Owner)
      BY <1>40, <2>2 DEF CheckWatchdog, Enter, Idle, TypeOK, HookAt, Owner, Hook
    <3> QED BY <1>40, <3>1, OwnerFrame DEF CheckWatchdog, statics, router, switch,
               Leaving
  <2> QED BY <1>40, <2>1, <2>2 DEF CheckWatchdog
<1>41. ASSUME PassOn PROVE OwnerInv'
  BY <1>41, OwnerFrame DEF PassOn, Idle, Leaving, HookAt, statics, thread, router,
     switch, TypeOK, OwnerInv
<1>42. ASSUME Gone PROVE OwnerInv'
  BY <1>42, OwnerFrame DEF Gone, Idle, Leaving, HookAt, statics, thread, router,
     switch, TypeOK, OwnerInv
<1>43. ASSUME Quit PROVE OwnerInv'
  <2>1. PICK g \in Loop : loop[g] = "join"
    BY <1>43 DEF Quit
  <2>2. /\ hook'.at = "quit" /\ Idle(Owner)' /\ loop' = loop /\ call' = call
    BY <1>43 DEF Quit, Enter, Idle, router, switch, TypeOK, HookAt, Owner, Hook
  <2>3. \A h \in Loop : loop[h] \in Holding => h = g
    BY <2>1 DEF HolderInv, Holders, Holding
  <2>4. \A c \in Call : call[c].at # "route"
    BY <2>1, <2>3 DEF HolderInv, Starters, Starts, Holding
  <2> QED BY <2>1, <2>2, <2>3, <2>4 DEF OwnerInv, Holding
<1> QED
  BY <1>1, <1>2, <1>3, <1>4, <1>5, <1>6, <1>7, <1>8, <1>9, <1>10, <1>11, <1>12, <1>13,
     <1>14, <1>15, <1>16, <1>17, <1>18, <1>19, <1>20, <1>21, <1>22, <1>23, <1>24,
     <1>25, <1>26, <1>27, <1>28, <1>29, <1>30, <1>31, <1>32, <1>33, <1>34, <1>35,
     <1>36, <1>37, <1>38, <1>39, <1>40, <1>41, <1>42, <1>43 DEF Step, SetSuppression,
     Switch, Routing, Moving, Ending, Callback, MouseHook, KeyboardHook, TapCallback,
     Deciding

-----------------------------------------------------------------------------
(* The mouse, on macOS *)

\* The flag, what detach_pointer believes and what the system does agree.
Agreeing == SUPPRESSING = DETACHED /\ attached = ~DETACHED

\* How far the three agree on the way through set_suppression, as long as one thread
\* at a time is in it.
MouseInv ==
  platform = "macos" /\ ~overlapped =>
    /\ Idle(Owner) \/ Idle(Hook)
    /\ Idle(Owner) /\ Idle(Hook) => Agreeing
    /\ \A t \in {Owner, Hook} :
         /\ sup[t].at = "store" => Agreeing
         /\ sup[t].at = "swap" => SUPPRESSING = sup[t].to /\ attached = ~DETACHED
         /\ sup[t].at = "associate" => SUPPRESSING = sup[t].to /\ DETACHED = sup[t].to

\* The mouse is attached at the start.
LEMMA MouseInit == Init => MouseInv
<1> SUFFICES ASSUME Init PROVE MouseInv
  OBVIOUS
<1>1. \A t \in {Owner, Hook} : sup[t].at = "idle"
  BY DEF Init
<1>2. Agreeing
  BY DEF Init, Agreeing
<1> QED
  BY <1>1, <1>2 DEF MouseInv, Idle

\* A step that touches none of it.
LEMMA MouseFrame ==
  ASSUME MouseInv, Record, platform' = platform, sup' = sup,
         SUPPRESSING' = SUPPRESSING, DETACHED' = DETACHED, attached' = attached
  PROVE  MouseInv'
<1> DEFINE Steps == /\ Idle(Owner) \/ Idle(Hook)
                    /\ Idle(Owner) /\ Idle(Hook) => Agreeing
                    /\ \A t \in {Owner, Hook} :
                         /\ sup[t].at = "store" => Agreeing
                         /\ sup[t].at = "swap" => SUPPRESSING = sup[t].to /\ attached = ~DETACHED
                         /\ sup[t].at = "associate" => SUPPRESSING = sup[t].to /\ DETACHED = sup[t].to
<1>1. Steps => Steps'
  BY DEF Idle, Agreeing
<1>2. overlapped => overlapped'
  BY DEF Record
<1> QED
  BY <1>1, <1>2 DEF MouseInv

\* A thread enters set_suppression: the other is in it too, which is recorded, or all
\* three agreed.
LEMMA MouseEnters ==
  ASSUME TypeOK, MouseInv, Record, platform' = platform,
         SUPPRESSING' = SUPPRESSING, DETACHED' = DETACHED, attached' = attached,
         NEW t \in {Owner, Hook}, NEW to \in BOOLEAN, Idle(t), Enter(t, to)
  PROVE  MouseInv'
<1> SUFFICES ASSUME platform' = "macos", ~overlapped' PROVE MouseInv'
  BY DEF MouseInv
<1>1. ~overlapped /\ (Idle(Owner)' \/ Idle(Hook)')
  BY DEF Record
<1>2. sup'[t].at = "store" /\ ~Idle(t)' /\ \A u \in {Owner, Hook} : u # t => sup'[u] = sup[u]
  BY DEF Enter, Idle, TypeOK, Owner, Hook
<1>3. \A u \in {Owner, Hook} : u # t => sup'[u].at = "idle" /\ Idle(u)
  BY <1>1, <1>2 DEF Idle
<1>4. Idle(Owner) /\ Idle(Hook)
  BY <1>3
<1>5. Agreeing'
  BY <1>1, <1>4 DEF MouseInv, Agreeing
<1> QED
  BY <1>1, <1>2, <1>3, <1>5 DEF MouseInv, Idle

\* Every step keeps it, the warp of the cursor included.
LEMMA MouseStep ==
  /\ TypeOK /\ HolderInv /\ OwnerInv /\ MouseInv
  /\ Step /\ Record /\ platform' = platform
  => MouseInv'
<1> SUFFICES ASSUME TypeOK, HolderInv, OwnerInv, MouseInv,
                    Step, Record, platform' = platform
             PROVE  MouseInv'
  OBVIOUS
<1> USE DEF Owner, Hook
<1>1. ASSUME NEW t \in {Owner, Hook}, StoreSuppressing(t) PROVE MouseInv'
  <2> SUFFICES ASSUME platform' = "macos", ~overlapped' PROVE MouseInv'
    BY DEF MouseInv
  <2>0. ~overlapped /\ platform = "macos"
    BY DEF Record
  <2>1. /\ sup[t].at # "idle" /\ sup[t].to \in BOOLEAN
        /\ \A u \in {Owner, Hook} : u # t => sup[u].at = "idle" /\ sup'[u] = sup[u]
        /\ \E at \in {"idle", "swap", "associate"} : Reach(t, at)
    BY <1>1, <2>0 DEF StoreSuppressing, Reach, MouseInv, Idle, TypeOK, Sup
  <2>2. \A at \in {"swap", "associate"} : Reach(t, at) => sup'[t] = [at |-> at, to |-> sup[t].to]
    BY <2>1 DEF Reach, TypeOK
  <2>3. Reach(t, "idle") => sup'[t].at = "idle"
    BY DEF Reach, TypeOK
  <2>4. Reach(t, "swap") /\ SUPPRESSING' = sup[t].to /\ DETACHED' = DETACHED /\ attached' = attached
    BY <1>1, <2>0 DEF StoreSuppressing
  <2>5. attached = ~DETACHED
    BY <1>1, <2>0 DEF StoreSuppressing, MouseInv, Agreeing
  <2> QED BY <2>1, <2>2, <2>4, <2>5 DEF MouseInv, Idle
<1>2. ASSUME NEW t \in {Owner, Hook}, SwapDetached(t) PROVE MouseInv'
  <2> SUFFICES ASSUME platform' = "macos", ~overlapped' PROVE MouseInv'
    BY DEF MouseInv
  <2>0. ~overlapped /\ platform = "macos"
    BY DEF Record
  <2>1. /\ sup[t].at # "idle" /\ sup[t].to \in BOOLEAN
        /\ \A u \in {Owner, Hook} : u # t => sup[u].at = "idle" /\ sup'[u] = sup[u]
        /\ \E at \in {"idle", "swap", "associate"} : Reach(t, at)
    BY <1>2, <2>0 DEF SwapDetached, Reach, MouseInv, Idle, TypeOK, Sup
  <2>2. \A at \in {"swap", "associate"} : Reach(t, at) => sup'[t] = [at |-> at, to |-> sup[t].to]
    BY <2>1 DEF Reach, TypeOK
  <2>3. Reach(t, "idle") => sup'[t].at = "idle"
    BY DEF Reach, TypeOK
  <2>4. /\ SUPPRESSING = sup[t].to /\ attached = ~DETACHED
        /\ SUPPRESSING' = SUPPRESSING /\ DETACHED' = sup[t].to /\ attached' = attached
    BY <1>2, <2>0 DEF SwapDetached, MouseInv
  <2>5. CASE DETACHED = sup[t].to
    <3>1. Reach(t, "idle")
      BY <1>2, <2>5 DEF SwapDetached
    <3> QED BY <2>1, <2>3, <2>4, <2>5, <3>1 DEF MouseInv, Idle, Agreeing
  <2>6. CASE DETACHED # sup[t].to
    <3>1. Reach(t, "associate")
      BY <1>2, <2>6 DEF SwapDetached
    <3> QED BY <2>1, <2>2, <2>4, <3>1 DEF MouseInv, Idle, Agreeing
  <2> QED BY <2>5, <2>6
<1>3. ASSUME NEW t \in {Owner, Hook}, Associate(t) PROVE MouseInv'
  <2> SUFFICES ASSUME platform' = "macos", ~overlapped' PROVE MouseInv'
    BY DEF MouseInv
  <2>0. ~overlapped /\ platform = "macos"
    BY DEF Record
  <2>1. /\ sup[t].at # "idle" /\ sup[t].to \in BOOLEAN
        /\ \A u \in {Owner, Hook} : u # t => sup[u].at = "idle" /\ sup'[u] = sup[u]
        /\ \E at \in {"idle", "swap", "associate"} : Reach(t, at)
    BY <1>3, <2>0 DEF Associate, Reach, MouseInv, Idle, TypeOK, Sup
  <2>2. \A at \in {"swap", "associate"} : Reach(t, at) => sup'[t] = [at |-> at, to |-> sup[t].to]
    BY <2>1 DEF Reach, TypeOK
  <2>3. Reach(t, "idle") => sup'[t].at = "idle"
    BY DEF Reach, TypeOK
  <2>4. /\ SUPPRESSING = sup[t].to /\ DETACHED = sup[t].to /\ Reach(t, "idle")
        /\ SUPPRESSING' = SUPPRESSING /\ DETACHED' = DETACHED /\ attached' = ~sup[t].to
    BY <1>3, <2>0 DEF Associate, MouseInv
  <2> QED BY <2>1, <2>3, <2>4 DEF MouseInv, Idle, Agreeing
<1>4. ASSUME Elapse PROVE MouseInv'
  BY <1>4, MouseFrame DEF Elapse, statics
<1>5. ASSUME NEW c \in Call, NEW b \in BOOLEAN, SetSharing(c, b) PROVE MouseInv'
  BY <1>5, MouseFrame DEF SetSharing, statics
<1>6. ASSUME NEW c \in Call, StartCapture(c) PROVE MouseInv'
  <2>1. Idle(Owner) /\ Enter(Owner, FALSE)
    BY <1>6 DEF StartCapture, OwnerInv
  <2> QED BY <1>6, <2>1, MouseEnters DEF StartCapture, statics
<1>7. ASSUME NEW c \in Call, AlreadyRunning(c) PROVE MouseInv'
  BY <1>7, MouseFrame DEF AlreadyRunning, statics
<1>8. ASSUME NEW c \in Call, Install(c) PROVE MouseInv'
  BY <1>8, MouseFrame DEF Install, statics
<1>9. ASSUME NEW c \in Call, Refuse(c) PROVE MouseInv'
  BY <1>9, MouseFrame DEF Refuse, statics
<1>10. ASSUME NEW c \in Call, SpawnFails(c) PROVE MouseInv'
  BY <1>10, MouseFrame DEF SpawnFails, statics
<1>11. ASSUME NEW c \in Call, StartLoop(c) PROVE MouseInv'
  BY <1>11, MouseFrame DEF StartLoop, statics
<1>12. ASSUME NEW c \in Call, BridgeFails(c) PROVE MouseInv'
  BY <1>12, MouseFrame DEF BridgeFails, statics
<1>13. ASSUME NEW c \in Call, KeepHandle(c) PROVE MouseInv'
  BY <1>13, MouseFrame DEF KeepHandle, statics
<1>14. ASSUME NEW c \in Call, SharingOn(c) PROVE MouseInv'
  BY <1>14, MouseFrame DEF SharingOn, statics
<1>15. ASSUME NEW c \in Call, StopSharing(c) PROVE MouseInv'
  BY <1>15, MouseFrame DEF StopSharing, statics
<1>16. ASSUME NEW c \in Call, Stopped(c) PROVE MouseInv'
  BY <1>16, MouseFrame DEF Stopped, statics
<1>17. ASSUME NEW g \in Loop, Heartbeat(g) PROVE MouseInv'
  BY <1>17, MouseFrame DEF Heartbeat, statics
<1>18. ASSUME NEW g \in Loop, Route(g) PROVE MouseInv'
  BY <1>18, MouseFrame DEF Route, statics
<1>19. ASSUME NEW g \in Loop, Flush(g) PROVE MouseInv'
  BY <1>19, MouseFrame DEF Flush, statics
<1>20. ASSUME NEW g \in Loop, Warp(g) PROVE MouseInv'
  <2>1. /\ sup' = sup /\ sup[Owner].at = "idle" /\ SUPPRESSING' = SUPPRESSING
        /\ DETACHED' = DETACHED /\ attached' = (attached \/ ~DETACHED)
    BY <1>20 DEF Warp, Idle
  <2>2. ~overlapped' => ~overlapped
    BY DEF Record
  <2> QED BY <2>1, <2>2 DEF MouseInv, Agreeing, Idle, TypeOK
<1>21. ASSUME NEW g \in Loop, AnnouncedAway(g) PROVE MouseInv'
  <2>1. Idle(Owner) /\ Enter(Owner, TRUE)
    BY <1>21 DEF AnnouncedAway, GoAway, SetSuppressing, Turns
  <2> QED BY <1>21, <2>1, MouseEnters DEF AnnouncedAway, GoAway, SetSuppressing, statics
<1>22. ASSUME NEW g \in Loop, Crosses(g) PROVE MouseInv'
  <2>1. Idle(Owner) /\ Enter(Owner, TRUE)
    BY <1>22 DEF Crosses, NextEvent, GoAway, SetSuppressing, Turns
  <2> QED BY <1>22, <2>1, MouseEnters DEF Crosses, NextEvent, GoAway, SetSuppressing,
             statics
<1>23. ASSUME NEW g \in Loop, TakeBack(g) PROVE MouseInv'
  <2>1. Idle(Owner) /\ Enter(Owner, FALSE)
    BY <1>23 DEF TakeBack, SetSuppressing, Turns
  <2> QED BY <1>23, <2>1, MouseEnters DEF TakeBack, SetSuppressing, statics
<1>24. ASSUME NEW g \in Loop, CursorEnter(g) PROVE MouseInv'
  <2>1. CASE away[g]
    <3>1. Idle(Owner) /\ Enter(Owner, FALSE)
      BY <1>24, <2>1 DEF CursorEnter, SetSuppressing, Turns
    <3> QED BY <1>24, <3>1, MouseEnters DEF CursorEnter
  <2>2. CASE ~away[g]
    BY <1>24, <2>2, MouseFrame DEF CursorEnter
  <2> QED BY <2>1, <2>2
<1>25. ASSUME NEW g \in Loop, Break(g) PROVE MouseInv'
  <2>1. Idle(Owner) /\ Enter(Owner, FALSE)
    BY <1>25 DEF Break, SetSuppressing, Turns
  <2> QED BY <1>25, <2>1, MouseEnters DEF Break, SetSuppressing, statics
<1>26. ASSUME NEW g \in Loop, Drop(g) PROVE MouseInv'
  <2>1. Idle(Owner) /\ Enter(Owner, FALSE)
    BY <1>26 DEF Drop, Idle
  <2> QED BY <1>26, <2>1, MouseEnters DEF Drop, statics
<1>27. ASSUME NEW g \in Loop, Join(g) PROVE MouseInv'
  BY <1>27, MouseFrame DEF Join, statics
<1>28. ASSUME NEW g \in Loop, Unsink(g) PROVE MouseInv'
  BY <1>28, MouseFrame DEF Unsink, statics
<1>29. ASSUME NEW g \in Loop, Stall(g) PROVE MouseInv'
  BY <1>29, MouseFrame DEF Stall, statics
<1>30. ASSUME NEW g \in Loop, Unstall(g) PROVE MouseInv'
  BY <1>30, MouseFrame DEF Unstall, statics
<1>31. ASSUME Key PROVE MouseInv'
  BY <1>31, MouseFrame DEF Key, statics
<1>32. ASSUME Unreported PROVE MouseInv'
  BY <1>32, MouseFrame DEF Unreported, statics
<1>33. ASSUME Hatch PROVE MouseInv'
  <2>1. Idle(Hook) /\ Enter(Hook, FALSE)
    BY <1>33 DEF Hatch, Sees, OwnerInv
  <2> QED BY <1>33, <2>1, MouseEnters DEF Hatch, statics
<1>34. ASSUME TapMovement PROVE MouseInv'
  BY <1>34, MouseFrame DEF TapMovement, statics
<1>35. ASSUME RawInput PROVE MouseInv'
  BY <1>35, MouseFrame DEF RawInput, statics
<1>36. ASSUME Replay PROVE MouseInv'
  BY <1>36, MouseFrame DEF Replay, statics
<1>37. ASSUME DisableTap PROVE MouseInv'
  BY <1>37, MouseFrame DEF DisableTap, statics
<1>38. ASSUME ReEnable PROVE MouseInv'
  BY <1>38, MouseFrame DEF ReEnable, statics
<1>39. ASSUME CheckSuppressing PROVE MouseInv'
  BY <1>39, MouseFrame DEF CheckSuppressing, statics
<1>40. ASSUME CheckWatchdog PROVE MouseInv'
  <2>1. CASE UNCHANGED sup
    BY <1>40, <2>1, MouseFrame DEF CheckWatchdog, statics
  <2>2. CASE Enter(Hook, FALSE)
    <3>1. Idle(Hook)
      BY <1>40 DEF CheckWatchdog, OwnerInv
    <3> QED BY <1>40, <2>2, <3>1, MouseEnters DEF CheckWatchdog, statics
  <2> QED BY <1>40, <2>1, <2>2 DEF CheckWatchdog
<1>41. ASSUME PassOn PROVE MouseInv'
  BY <1>41, MouseFrame DEF PassOn, statics
<1>42. ASSUME Gone PROVE MouseInv'
  BY <1>42, MouseFrame DEF Gone, statics
<1>43. ASSUME Quit PROVE MouseInv'
  <2>1. Idle(Hook) /\ Enter(Hook, FALSE)
    BY <1>43 DEF Quit, OwnerInv
  <2> QED BY <1>43, <2>1, MouseEnters DEF Quit, statics
<1> QED
  BY <1>1, <1>2, <1>3, <1>4, <1>5, <1>6, <1>7, <1>8, <1>9, <1>10, <1>11, <1>12, <1>13,
     <1>14, <1>15, <1>16, <1>17, <1>18, <1>19, <1>20, <1>21, <1>22, <1>23, <1>24,
     <1>25, <1>26, <1>27, <1>28, <1>29, <1>30, <1>31, <1>32, <1>33, <1>34, <1>35,
     <1>36, <1>37, <1>38, <1>39, <1>40, <1>41, <1>42, <1>43 DEF Step, SetSuppression,
     Switch, Routing, Moving, Ending, Callback, MouseHook, KeyboardHook, TapCallback,
     Deciding

-----------------------------------------------------------------------------
(* Where a key acts *)

\* The key that is followed is queued for loop g, or waits there to be sent.
Queued(g) == \E i \in DOMAIN queue[g] : queue[g][i] = "Key"
Routed(g) == pending[g] \/ Queued(g)

\* Events are captured for the loop that holds the Capture.
SinkInv == \A g \in Loop : loop[g] \in Holding => SINK = g

\* The hook has a key in hand only while it decides what becomes of it.
HandInv == hook.key => hook.at \in {"check", "watchdog", "pass"}

\* A key under way that nothing disturbed: hook and router are of one mind, so it acts
\* nowhere but where they agree, and until it has it is with the one that will see to
\* it.  A loop that does not run leaves it where it is.
OnItsWay ==
  /\ Agree
  /\ hook.key => (hook.at = "pass" => ~SUPPRESSING) /\ (hook.at = "watchdog" => SUPPRESSING)
  /\ \A g \in Loop : loop[g] = "running" =>
       IF SUPPRESSING THEN fate \subseteq {"there"} /\ (fate = {} => Routed(g))
                      ELSE fate \subseteq {"here"} /\ (fate = {} => hook.key)
  /\ (\E g \in Loop : loop[g] = "running") \/ (\E g \in Loop : Queued(g))

\* Once it is under way no more, it has acted in one place.
FateInv ==
  ~disturbed => IF UnderWay THEN OnItsWay ELSE fate = {"here"} \/ fate = {"there"}

KeyInv == SinkInv /\ HandInv /\ FateInv

\* UnderWay, with the names above.
LEMMA UnderWayIs == UnderWay <=> hook.key \/ \E g \in Loop : Routed(g)
  BY DEF UnderWay, Routed, Queued

\* The same of the next state.
LEMMA UnderWayNext == UnderWay' <=> hook'.key \/ \E g \in Loop : Routed(g)'
  BY DEF UnderWay, Routed, Queued

\* Nothing is captured at the start.
LEMMA KeyInit == Init => KeyInv
<1> SUFFICES ASSUME Init PROVE KeyInv
  OBVIOUS
<1>1. SinkInv
  BY DEF Init, SinkInv, Holding
<1>2. HandInv /\ disturbed
  BY DEF Init, HandInv
<1> QED
  BY <1>1, <1>2 DEF KeyInv, FateInv

\* While events are captured there is a loop they go to.
LEMMA SinkIsALoop ==
  ASSUME HolderInv, SinkInv, hook.at # "none"
  PROVE  SINK \in Loop
  BY DEF HolderInv, Holders, SinkInv

\* Emitting queues an event for that loop.
LEMMA EmitQueues ==
  ASSUME TypeOK, SINK \in Loop, NEW x \in Reported, Emit(x)
  PROVE  \A g \in Loop : Queued(g)' <=> Queued(g) \/ (x = "Key" /\ g = SINK)
<1> DEFINE s == queue[SINK]
<1>1. s \in Seq(Reported)
  BY DEF TypeOK
<1>2. \A g \in Loop : queue'[g] = IF g = SINK THEN Append(s, x) ELSE queue[g]
  BY DEF Emit, TypeOK
<1> HIDE DEF s
<1>3. (\E i \in DOMAIN Append(s, x) : Append(s, x)[i] = "Key")
      <=> (\E i \in DOMAIN s : s[i] = "Key") \/ x = "Key"
  <2>1. /\ Len(s) \in Nat /\ DOMAIN s = 1..Len(s)
        /\ DOMAIN Append(s, x) = 1..(Len(s) + 1)
        /\ \A i \in 1..Len(s) : Append(s, x)[i] = s[i]
        /\ Append(s, x)[Len(s) + 1] = x
    BY <1>1
  <2> QED BY <2>1
<1> QED
  BY <1>2, <1>3 DEF Queued, s

\* Taking an event leaves the others queued.
LEMMA NextQueues ==
  ASSUME TypeOK, NEW g \in Loop, NextEvent(g)
  PROVE  /\ \A h \in Loop : h # g => (Queued(h)' <=> Queued(h))
         /\ Queued(g) <=> Head(queue[g]) = "Key" \/ Queued(g)'
<1> DEFINE s == queue[g]
<1>1. s \in Seq(Reported) /\ s # <<>>
  BY DEF TypeOK, NextEvent
<1>2. \A h \in Loop : queue'[h] = IF h = g THEN Tail(s) ELSE queue[h]
  BY DEF NextEvent, TypeOK
<1> HIDE DEF s
<1>3. (\E i \in DOMAIN s : s[i] = "Key")
      <=> Head(s) = "Key" \/ \E i \in DOMAIN Tail(s) : Tail(s)[i] = "Key"
  <2>1. /\ Len(s) \in Nat \ {0} /\ DOMAIN s = 1..Len(s)
        /\ DOMAIN Tail(s) = 1..(Len(s) - 1)
        /\ \A i \in 1..(Len(s) - 1) : Tail(s)[i] = s[i + 1]
        /\ Head(s) = s[1]
    BY <1>1
  <2>2. ASSUME NEW i \in 1..Len(s), s[i] = "Key", Head(s) # "Key"
        PROVE  \E j \in DOMAIN Tail(s) : Tail(s)[j] = "Key"
    <3>1. i # 1
      BY <2>1, <2>2
    <3>2. i - 1 \in 1..(Len(s) - 1) /\ (i - 1) + 1 = i
      BY <2>1, <3>1
    <3> QED BY <2>1, <2>2, <3>2
  <2>3. ASSUME NEW j \in 1..(Len(s) - 1), Tail(s)[j] = "Key"
        PROVE  \E i \in DOMAIN s : s[i] = "Key"
    <3>1. j + 1 \in 1..Len(s) /\ s[j + 1] = "Key"
      BY <2>1, <2>3
    <3> QED BY <2>1, <3>1
  <2>4. 1 \in DOMAIN s
    BY <2>1
  <2> QED BY <2>1, <2>2, <2>3, <2>4
<1> QED
  BY <1>2, <1>3 DEF Queued, s

\* A step in which hook or router change their mind: a key under way is disturbed.
LEMMA Disturbing ==
  ASSUME FateInv, Record, ~UNCHANGED <<SUPPRESSING, sup, away, loop>>,
         fate' = fate, hook'.key => hook.key,
         \A g \in Loop : Routed(g)' => Routed(g)
  PROVE  FateInv'
<1>1. UnderWay' => UnderWay
  BY UnderWayIs, UnderWayNext
<1>2. disturbed' <=> (disturbed /\ (UnderWay \/ ~UnderWay')) \/ UnderWay \/ UnderWay'
  BY DEF Record
<1>3. CASE UnderWay
  BY <1>2, <1>3 DEF FateInv
<1>4. CASE ~UnderWay
  <2>1. ~UnderWay' /\ (~disturbed' => ~disturbed)
    BY <1>1, <1>2, <1>4
  <2> QED BY <1>4, <2>1 DEF FateInv
<1> QED
  BY <1>3, <1>4

\* The flag of the step: whether a key that was undisturbed still is, where nobody
\* changes his mind and nobody types.
LEMMA Undisturbed ==
  ASSUME Record, ~disturbed', UnderWay' => UnderWay
  PROVE  ~disturbed
  BY DEF Record

\* A step that moves no key.
LEMMA Still ==
  ASSUME FateInv, Record, UNCHANGED <<SUPPRESSING, sup, away, loop, fate>>,
         hook'.key = hook.key, hook.key => hook' = hook,
         \A g \in Loop : pending'[g] = pending[g] /\ (Queued(g)' <=> Queued(g))
  PROVE  FateInv'
<1>1. \A g \in Loop : Routed(g)' <=> Routed(g)
  BY DEF Routed
<1>2. UnderWay' <=> UnderWay
  BY <1>1, UnderWayIs, UnderWayNext
<1>3. ~disturbed' => ~disturbed
  BY <1>2, Undisturbed
<1>4. OnItsWay => OnItsWay'
  BY <1>1 DEF OnItsWay, Agree
<1> QED
  BY <1>2, <1>3, <1>4 DEF FateInv

\* A step in which nobody takes the Capture and the sink stays.
LEMMA SinkFrame ==
  ASSUME SinkInv, SINK' = SINK, \A g \in Loop : loop'[g] \in Holding => loop[g] \in Holding
  PROVE  SinkInv'
  BY DEF SinkInv

\* A loop that holds the Capture goes on, or one ends.
LEMMA SinkMoves ==
  ASSUME TypeOK, SinkInv, SINK' = SINK, NEW g \in Loop, NEW at,
         loop' = [loop EXCEPT ![g] = at], at \in Holding => loop[g] \in Holding
  PROVE  SinkInv'
<1>1. \A h \in Loop : loop'[h] \in Holding => loop[h] \in Holding
  BY DEF TypeOK
<1> QED
  BY <1>1, SinkFrame

\* The loop that holds the Capture gives it up, and the sink with it.
LEMMA SinkEnds ==
  ASSUME TypeOK, HolderInv, NEW g \in Loop, loop[g] \in Holding,
         NEW at \in Phase \ Holding, loop' = [loop EXCEPT ![g] = at]
  PROVE  SinkInv'
<1>1. \A h \in Loop : loop'[h] \notin Holding
  BY DEF TypeOK, HolderInv, Holders
<1> QED
  BY <1>1 DEF SinkInv

\* Every step keeps it: SINK is set for the loop that takes the Capture.
LEMMA SinkStep == TypeOK /\ HolderInv /\ SinkInv /\ Step => SinkInv'
<1> SUFFICES ASSUME TypeOK, HolderInv, SinkInv, Step PROVE SinkInv'
  OBVIOUS
<1>1. ASSUME SINK' = SINK, loop' = loop PROVE SinkInv'
  BY <1>1, SinkFrame
<1>2. ASSUME NEW c \in Call, StartCapture(c) PROVE SinkInv'
  <2>1. PICK g \in Loop : SINK' = g /\ loop' = [loop EXCEPT ![g] = "starting"]
    BY <1>2 DEF StartCapture
  <2>2. \A h \in Loop : loop[h] \notin Holding
    BY <1>2 DEF StartCapture, HolderInv, Holders
  <2>3. \A h \in Loop : h # g => loop'[h] = loop[h]
    BY <2>1 DEF TypeOK
  <2> QED BY <2>1, <2>2, <2>3 DEF SinkInv
<1>3. ASSUME NEW c \in Call, Refuse(c) \/ SpawnFails(c) \/ StartLoop(c) \/ BridgeFails(c)
      PROVE  SinkInv'
  <2>1. call[c].loop \in Loop /\ loop[call[c].loop] = "starting"
    BY <1>3 DEF Refuse, SpawnFails, StartLoop, BridgeFails, At, HolderInv, Starters, Starts
  <2>2. CASE Refuse(c)
    BY <2>1, <2>2, SinkMoves DEF Refuse, Holding
  <2>3. CASE SpawnFails(c)
    BY <2>1, <2>3, SinkMoves DEF SpawnFails, Holding, statics
  <2>4. CASE StartLoop(c)
    BY <2>1, <2>4, SinkMoves DEF StartLoop, Holding, statics
  <2>5. CASE BridgeFails(c)
    <3>1. loop' = [loop EXCEPT ![call[c].loop] = "finished"]
      BY <2>5 DEF BridgeFails
    <3> QED BY <2>1, <3>1, SinkEnds DEF Holding, Phase
  <2> QED BY <1>3, <2>2, <2>3, <2>4, <2>5
<1>4. ASSUME NEW g \in Loop, Warp(g) \/ CursorEnter(g) \/ Break(g) \/ Drop(g) \/ Unsink(g)
      PROVE  SinkInv'
  <2>1. CASE Warp(g)
    BY <2>1, SinkMoves DEF Warp, Moves, Holding
  <2>2. CASE CursorEnter(g)
    BY <2>2, SinkMoves DEF CursorEnter, Turns, Moves, Holding
  <2>3. CASE Break(g)
    BY <2>3, SinkMoves DEF Break, Turns, Moves, Holding
  <2>4. CASE Drop(g)
    BY <2>4, SinkMoves DEF Drop, Moves, Holding, statics
  <2>5. CASE Unsink(g)
    BY <2>5, SinkMoves DEF Unsink, Moves, Holding, statics
  <2> QED BY <1>4, <2>1, <2>2, <2>3, <2>4, <2>5
<1>5. ASSUME NEW g \in Loop, Join(g) PROVE SinkInv'
  BY <1>5, SinkEnds DEF Join, Moves, Holding, Phase
<1>6. ASSUME NEW t \in {Owner, Hook}, SetSuppression(t) PROVE SinkInv'
  BY <1>1, <1>6 DEF SetSuppression, StoreSuppressing, SwapDetached, Associate, router
<1>7. ASSUME NEW c \in Call, NEW b \in BOOLEAN, SetSharing(c, b) PROVE SinkInv'
  BY <1>1, <1>7 DEF SetSharing, statics, router
<1>8. ASSUME NEW c \in Call,
             \/ AlreadyRunning(c) \/ Install(c) \/ KeepHandle(c)
             \/ SharingOn(c) \/ StopSharing(c) \/ Stopped(c)
      PROVE  SinkInv'
  BY <1>1, <1>8 DEF AlreadyRunning, Install, KeepHandle, SharingOn, StopSharing, Stopped,
     statics, router
<1>9. ASSUME NEW g \in Loop,
             \/ Heartbeat(g) \/ Route(g) \/ Flush(g) \/ Stall(g) \/ Unstall(g)
             \/ AnnouncedAway(g) \/ Crosses(g) \/ TakeBack(g)
      PROVE  SinkInv'
  BY <1>1, <1>9 DEF Heartbeat, Route, Flush, Stall, Unstall, AnnouncedAway, Crosses, GoAway,
     TakeBack, statics, router
<1>10. ASSUME Elapse \/ Callback \/ DisableTap \/ ReEnable \/ Deciding \/ Quit
       PROVE  SinkInv'
  BY <1>1, <1>10 DEF Elapse, Callback, MouseHook, KeyboardHook, TapCallback, Key, Unreported,
     Hatch, TapMovement, RawInput, Replay, DisableTap, ReEnable, Deciding, CheckSuppressing,
     CheckWatchdog, PassOn, Gone, Quit, statics, router
<1> QED
  BY <1>2, <1>3, <1>4, <1>5, <1>6, <1>7, <1>8, <1>9, <1>10 DEF Step, Switch, Routing, Moving,
     Ending

\* The hook thread is asked to quit, and a Capture given up, with no key in hand.
LEMMA HandStep == TypeOK /\ HandInv /\ Step => HandInv'
<1> SUFFICES ASSUME TypeOK, HandInv, Step PROVE HandInv'
  OBVIOUS
<1>0. hook = [at |-> hook.at, key |-> hook.key]
  BY DEF TypeOK, HookAt
<1>1. ASSUME hook' = hook PROVE HandInv'
  BY <1>1 DEF HandInv
<1>2. ASSUME NEW t \in {Owner, Hook}, SetSuppression(t) PROVE HandInv'
  BY <1>1, <1>2 DEF SetSuppression, StoreSuppressing, SwapDetached, Associate, thread
<1>3. ASSUME NEW c \in Call, NEW b \in BOOLEAN, SetSharing(c, b) PROVE HandInv'
  BY <1>1, <1>3 DEF SetSharing, thread
<1>4. ASSUME NEW c \in Call,
             \/ StartCapture(c) \/ AlreadyRunning(c) \/ Refuse(c) \/ SpawnFails(c)
             \/ StartLoop(c) \/ KeepHandle(c) \/ SharingOn(c) \/ StopSharing(c) \/ Stopped(c)
      PROVE  HandInv'
  BY <1>1, <1>4 DEF StartCapture, AlreadyRunning, Refuse, SpawnFails, StartLoop, KeepHandle,
     SharingOn, StopSharing, Stopped, thread
<1>5. ASSUME NEW c \in Call, Install(c) \/ BridgeFails(c) PROVE HandInv'
  <2>1. CASE Install(c)
    <3>1. hook' = [at |-> "idle", key |-> FALSE]
      BY <2>1 DEF Install
    <3> QED BY <3>1 DEF HandInv
  <2>2. CASE BridgeFails(c)
    <3>1. ~hook.key /\ hook' = [hook EXCEPT !.at = "none"]
      BY <2>2 DEF BridgeFails, HandInv
    <3> QED BY <1>0, <3>1 DEF HandInv
  <2> QED BY <1>5, <2>1, <2>2
<1>6. ASSUME NEW g \in Loop, Routing(g) \/ Moving(g) PROVE HandInv'
  <2>1. CASE Routing(g)
    BY <1>1, <2>1 DEF Routing, Heartbeat, Route, Flush, Warp, thread
  <2>2. CASE AnnouncedAway(g) \/ Crosses(g)
    <3>1. GoAway(g)
      BY <2>2 DEF AnnouncedAway, Crosses
    <3> QED BY <1>1, <3>1 DEF GoAway, thread
  <2>3. CASE TakeBack(g) \/ CursorEnter(g)
    BY <1>1, <2>3 DEF TakeBack, CursorEnter, thread
  <2> QED BY <1>6, <2>1, <2>2, <2>3 DEF Moving
<1>7. ASSUME NEW g \in Loop, Ending(g) \/ Stall(g) \/ Unstall(g) PROVE HandInv'
  BY <1>1, <1>7 DEF Ending, Break, Drop, Join, Unsink, Stall, Unstall, thread
<1>8. ASSUME Elapse \/ RawInput \/ DisableTap \/ ReEnable PROVE HandInv'
  BY <1>1, <1>8 DEF Elapse, RawInput, DisableTap, ReEnable, thread
<1>9. ASSUME Key \/ Unreported \/ Hatch \/ TapMovement \/ Replay PROVE HandInv'
  <2>1. Asks(TRUE) \/ Asks(FALSE) \/ Passes
    BY <1>9 DEF Key, Unreported, Hatch, TapMovement, Replay
  <2>2. ASSUME NEW k \in BOOLEAN, Asks(k) PROVE HandInv'
    BY <2>2 DEF Asks, HandInv
  <2>3. CASE Passes
    BY <2>3 DEF Passes, HandInv
  <2> QED BY <2>1, <2>2, <2>3
<1>10. ASSUME Deciding \/ Quit PROVE HandInv'
  <2>1. CASE CheckSuppressing
    <3>1. \E at \in {"watchdog", "pass"} : hook' = [hook EXCEPT !.at = at]
      BY <2>1 DEF CheckSuppressing
    <3> QED BY <1>0, <3>1 DEF HandInv
  <2>2. CASE CheckWatchdog
    <3>1. hook' = [at |-> "idle", key |-> FALSE] \/ hook' = [hook EXCEPT !.at = "pass"]
      BY <2>2 DEF CheckWatchdog
    <3> QED BY <1>0, <3>1 DEF HandInv
  <2>3. CASE PassOn
    <3>1. hook' = [at |-> "idle", key |-> FALSE]
      BY <2>3 DEF PassOn
    <3> QED BY <3>1 DEF HandInv
  <2>4. CASE Gone \/ Quit
    <3>1. ~hook.key /\ \E at \in {"none", "quit"} : hook' = [hook EXCEPT !.at = at]
      BY <2>4 DEF Gone, Quit, HandInv
    <3> QED BY <1>0, <3>1 DEF HandInv
  <2> QED BY <1>10, <2>1, <2>2, <2>3, <2>4 DEF Deciding
<1> QED
  BY <1>2, <1>3, <1>4, <1>5, <1>6, <1>7, <1>8, <1>9, <1>10 DEF Step, Switch, Callback,
     MouseHook, KeyboardHook, TapCallback

\* A step that moves a key on its way, nobody changing his mind.
LEMMA Forward ==
  ASSUME FateInv, Record, UNCHANGED <<SUPPRESSING, sup, away, loop>>, UnderWay,
         ~disturbed /\ OnItsWay => OnItsWay'
  PROVE  FateInv'
<1> SUFFICES ASSUME ~disturbed' PROVE FateInv'
  BY DEF FateInv
<1>1. ~disturbed
  BY Undisturbed
<1>2. OnItsWay'
  BY <1>1 DEF FateInv
<1>3. ASSUME ~UnderWay' PROVE fate' = {"here"} \/ fate' = {"there"}
  <2>1. ~hook'.key /\ \A g \in Loop : ~Routed(g)'
    BY <1>3, UnderWayNext
  <2>2. \A g \in Loop : ~Queued(g)'
    BY <2>1 DEF Routed
  <2>3. PICK g \in Loop : loop'[g] = "running"
    BY <1>2, <2>2 DEF OnItsWay
  <2>4. CASE SUPPRESSING'
    <3>1. fate' \subseteq {"there"} /\ fate' # {}
      BY <1>2, <2>1, <2>3, <2>4 DEF OnItsWay
    <3> QED BY <3>1
  <2>5. CASE ~SUPPRESSING'
    <3>1. fate' \subseteq {"here"} /\ fate' # {}
      BY <1>2, <2>1, <2>3, <2>5 DEF OnItsWay
    <3> QED BY <3>1
  <2> QED BY <2>4, <2>5
<1> QED
  BY <1>2, <1>3 DEF FateInv

\* A key is typed: it is in the hook's hands and queued for the loop.
LEMMA KeyTyped ==
  ASSUME TypeOK, HolderInv, SinkInv, Record, Key
  PROVE  FateInv'
<1> SUFFICES ASSUME ~disturbed' PROVE FateInv'
  BY DEF FateInv
<1>1. hook'.at = "check" /\ hook'.key /\ fate' = {} /\ pending' = pending
  BY DEF Key, Asks
<1>2. UNCHANGED <<SUPPRESSING, sup, away, loop>>
  BY DEF Key, statics
<1>3. SINK \in Loop
  BY SinkIsALoop DEF Key, Sees
<1>4. ASSUME NEW g \in Loop, g = SINK PROVE Queued(g)'
  BY <1>3, <1>4, EmitQueues DEF Key, Reported
<1>5. UnderWay'
  BY <1>1, UnderWayNext
<1>6. Agree
  BY <1>5 DEF Record
<1>7. \A g \in Loop : loop[g] = "running" => g = SINK
  BY DEF SinkInv, Holding
<1>8. \A g \in Loop : loop'[g] = "running" => Routed(g)'
  BY <1>2, <1>4, <1>7 DEF Routed
<1>9. \E g \in Loop : Queued(g)'
  BY <1>3, <1>4
<1>10. OnItsWay'
  BY <1>1, <1>2, <1>6, <1>8, <1>9 DEF OnItsWay, Agree
<1> QED
  BY <1>5, <1>10 DEF FateInv

\* The router takes an event: the key is to be sent if the pointer is away, and has
\* acted or will act here if it is not.
LEMMA KeyRouted ==
  ASSUME TypeOK, FateInv, Record, NEW g \in Loop, Route(g)
  PROVE  FateInv'
<1>1. /\ UNCHANGED <<SUPPRESSING, sup, away, loop, fate, hook>> /\ loop[g] = "running"
      /\ \A h \in Loop : pending'[h] = (pending[h] \/ (h = g /\ away[g] /\ Head(queue[g]) = "Key"))
  <2>1. pending' = [pending EXCEPT ![g] = @ \/ (away[g] /\ Head(queue[g]) = "Key")]
    BY DEF Route
  <2>2. pending \in [Loop -> BOOLEAN] /\ away[g] \in BOOLEAN
    BY DEF TypeOK
  <2>3. \A h \in Loop : h # g => pending'[h] = pending[h]
    BY <2>1, <2>2
  <2>4. pending'[g] = (pending[g] \/ (away[g] /\ Head(queue[g]) = "Key"))
    BY <2>1, <2>2
  <2> QED BY <2>2, <2>3, <2>4 DEF Route, NextEvent, Turns, statics, thread
<1>2. /\ \A h \in Loop : h # g => (Queued(h)' <=> Queued(h))
      /\ Queued(g) <=> Head(queue[g]) = "Key" \/ Queued(g)'
  BY NextQueues DEF Route
<1>3. CASE Head(queue[g]) # "Key"
  <2>1. \A h \in Loop : pending'[h] = pending[h]
    BY <1>1, <1>3 DEF TypeOK
  <2>2. \A h \in Loop : Queued(h)' <=> Queued(h)
    BY <1>2, <1>3
  <2> QED BY <1>1, <2>1, <2>2, Still
<1>4. CASE Head(queue[g]) = "Key"
  <2>1. UnderWay
    BY <1>2, <1>4, UnderWayIs DEF Routed
  <2>2. ASSUME OnItsWay PROVE OnItsWay'
    <3>1. SUPPRESSING = away[g]
      BY <1>1, <2>2 DEF OnItsWay, Agree
    <3>2. ASSUME NEW h \in Loop, SUPPRESSING, Routed(h) PROVE Routed(h)'
      BY <1>1, <1>2, <1>4, <3>1, <3>2 DEF Routed
    <3>3. Agree'
      BY <1>1, <2>2 DEF OnItsWay, Agree
    <3>4. hook'.key => (hook'.at = "pass" => ~SUPPRESSING') /\ (hook'.at = "watchdog" => SUPPRESSING')
      BY <1>1, <2>2 DEF OnItsWay
    <3>5. \A h \in Loop : loop'[h] = "running" =>
            IF SUPPRESSING' THEN fate' \subseteq {"there"} /\ (fate' = {} => Routed(h)')
                            ELSE fate' \subseteq {"here"} /\ (fate' = {} => hook'.key)
      BY <1>1, <2>2, <3>2 DEF OnItsWay
    <3> QED BY <1>1, <3>3, <3>4, <3>5 DEF OnItsWay
  <2> QED BY <1>1, <2>1, <2>2, Forward
<1> QED
  BY <1>3, <1>4

\* What waits is sent, by a router that has the pointer away.
LEMMA KeySent ==
  ASSUME TypeOK, FateInv, Record, NEW g \in Loop, Flush(g)
  PROVE  FateInv'
<1>1. /\ UNCHANGED <<SUPPRESSING, sup, away, loop, hook, queue>>
      /\ loop[g] = "running" /\ pending[g]
      /\ fate' = IF away[g] THEN Acts("there") ELSE fate
  BY DEF Flush, Turns, statics, thread
<1>2. UnderWay
  BY <1>1, UnderWayIs DEF Routed
<1>3. \A h \in Loop : Queued(h)' <=> Queued(h)
  BY <1>1 DEF Queued
<1>4. ASSUME ~disturbed, OnItsWay PROVE OnItsWay'
  <2>1. SUPPRESSING = away[g]
    BY <1>1, <1>4 DEF OnItsWay, Agree
  <2>2. CASE SUPPRESSING
    <3>1. fate' = fate \cup {"there"}
      BY <1>1, <1>4, <2>1, <2>2 DEF Acts
    <3>2. fate \subseteq {"there"}
      BY <1>1, <1>4, <2>2 DEF OnItsWay
    <3> QED BY <1>1, <1>3, <1>4, <2>2, <3>1, <3>2 DEF OnItsWay, Agree
  <2>3. CASE ~SUPPRESSING
    <3>1. fate' = fate
      BY <1>1, <2>1, <2>3
    <3> QED BY <1>1, <1>3, <1>4, <2>3, <3>1 DEF OnItsWay, Agree
  <2> QED BY <2>2, <2>3
<1> QED
  BY <1>1, <1>2, <1>4, Forward

\* The hook reads the flag: it goes to the watchdog with what is swallowed.
LEMMA KeyChecked ==
  ASSUME TypeOK, FateInv, Record, CheckSuppressing
  PROVE  FateInv'
<1>1. /\ UNCHANGED <<SUPPRESSING, sup, away, loop, queue, pending, fate>>
      /\ hook'.key = hook.key /\ hook'.at = IF SUPPRESSING THEN "watchdog" ELSE "pass"
  BY DEF CheckSuppressing, statics, router, TypeOK, HookAt
<1>2. \A g \in Loop : (Queued(g)' <=> Queued(g)) /\ (Routed(g)' <=> Routed(g))
  BY <1>1 DEF Queued, Routed
<1>3. CASE ~hook.key
  BY <1>1, <1>2, <1>3, Still
<1>4. CASE hook.key
  <2>1. OnItsWay => OnItsWay'
    BY <1>1, <1>2 DEF OnItsWay, Agree
  <2> QED BY <1>1, <1>4, <2>1, UnderWayIs, Forward
<1> QED
  BY <1>3, <1>4

\* The watchdog has been fed: the key is swallowed, and the router has it.  If it has
\* not, the hook releases the input, which disturbs.
LEMMA KeySwallowed ==
  ASSUME TypeOK, OwnerInv, HandInv, FateInv, Record, CheckWatchdog
  PROVE  FateInv'
<1>1. /\ UNCHANGED <<SUPPRESSING, away, loop, queue, pending, fate>> /\ hook.at = "watchdog"
  BY DEF CheckWatchdog, statics, router
<1>2. \A g \in Loop : (Queued(g)' <=> Queued(g)) /\ (Routed(g)' <=> Routed(g))
  BY <1>1 DEF Queued, Routed
<1>3. CASE sup' = sup /\ hook' = [at |-> "idle", key |-> FALSE]
  <2>1. CASE ~hook.key
    BY <1>1, <1>2, <1>3, <2>1, Still DEF TypeOK, HookAt
  <2>2. CASE hook.key
    <3>1. OnItsWay => SUPPRESSING
      BY <1>1, <2>2 DEF OnItsWay
    <3>2. ~hook'.key
      BY <1>3
    <3>3. OnItsWay => OnItsWay'
      BY <1>1, <1>2, <1>3, <3>1, <3>2 DEF OnItsWay, Agree
    <3> QED BY <1>1, <1>3, <2>2, <3>3, UnderWayIs, Forward
  <2> QED BY <2>1, <2>2
<1>4. CASE hook' = [hook EXCEPT !.at = "pass"] /\ Enter(Hook, FALSE)
  <2>1. sup[Hook].at = "idle" /\ sup'[Hook].at = "store"
    BY <1>1, <1>4 DEF OwnerInv, Idle, Enter, TypeOK, Hook
  <2>2. hook'.key = hook.key
    BY <1>4 DEF TypeOK, HookAt
  <2> QED BY <1>1, <1>2, <2>1, <2>2, Disturbing
<1> QED
  BY <1>3, <1>4 DEF CheckWatchdog

\* The hook lets a key through only when it is not swallowed: it acts here.
LEMMA KeyPassed ==
  ASSUME TypeOK, FateInv, Record, PassOn
  PROVE  FateInv'
<1>1. /\ UNCHANGED <<SUPPRESSING, sup, away, loop, queue, pending>>
      /\ hook.at = "pass" /\ hook'.key = FALSE
      /\ fate' = IF hook.key THEN Acts("here") ELSE fate
  BY DEF PassOn, statics, router
<1>2. \A g \in Loop : (Queued(g)' <=> Queued(g)) /\ (Routed(g)' <=> Routed(g))
  BY <1>1 DEF Queued, Routed
<1>3. CASE ~hook.key
  <2>1. hook'.key = hook.key
    BY <1>1, <1>3 DEF TypeOK, HookAt
  <2> QED BY <1>1, <1>2, <1>3, <2>1, Still
<1>4. CASE hook.key
  <2>1. ASSUME ~disturbed, OnItsWay PROVE OnItsWay'
    <3>1. ~SUPPRESSING /\ fate' = fate \cup {"here"}
      BY <1>1, <1>4, <2>1 DEF OnItsWay, Acts
    <3> QED BY <1>1, <1>2, <2>1, <3>1 DEF OnItsWay, Agree
  <2> QED BY <1>1, <1>4, <2>1, UnderWayIs, Forward
<1> QED
  BY <1>3, <1>4

\* A loop that moves on, or a call that moves one, disturbs.
LEMMA LoopMoves ==
  ASSUME TypeOK, FateInv, Record, NEW g \in Loop, NEW at, loop[g] # at,
         loop' = [loop EXCEPT ![g] = at], fate' = fate, hook'.key => hook.key,
         \A h \in Loop : Routed(h)' => Routed(h)
  PROVE  FateInv'
<1>1. loop' # loop
  BY DEF TypeOK
<1> QED
  BY <1>1, Disturbing

\* A thread that enters or goes on in set_suppression disturbs.
LEMMA CallMoves ==
  ASSUME TypeOK, FateInv, Record, NEW t \in {Owner, Hook}, sup'[t].at # sup[t].at,
         fate' = fate, hook'.key => hook.key, \A h \in Loop : Routed(h)' => Routed(h)
  PROVE  FateInv'
<1>1. sup' # sup
  OBVIOUS
<1> QED
  BY <1>1, Disturbing

\* A step that leaves queues and pending alone routes nothing.
LEMMA RoutedFrame ==
  ASSUME queue' = queue, pending' = pending
  PROVE  \A g \in Loop : (Queued(g)' <=> Queued(g)) /\ (Routed(g)' <=> Routed(g))
  BY DEF Queued, Routed

\* Every step keeps it.
LEMMA FateStep ==
  /\ TypeOK /\ HolderInv /\ OwnerInv /\ SinkInv /\ HandInv /\ FateInv
  /\ Step /\ Record
  => FateInv'
<1> SUFFICES ASSUME TypeOK, HolderInv, OwnerInv, SinkInv, HandInv, FateInv, Step, Record
             PROVE  FateInv'
  OBVIOUS
<1>1. ASSUME NEW t \in {Owner, Hook}, SetSuppression(t) PROVE FateInv'
  <2>1. \E at \in {"idle", "swap", "associate"} : sup[t].at # at /\ Reach(t, at)
    BY <1>1 DEF SetSuppression, StoreSuppressing, SwapDetached, Associate
  <2>2. sup'[t].at # sup[t].at
    BY <2>1 DEF Reach, TypeOK
  <2>3. queue' = queue /\ pending' = pending /\ fate' = fate /\ hook' = hook
    BY <1>1 DEF SetSuppression, StoreSuppressing, SwapDetached, Associate, thread, router
  <2> QED BY <2>2, <2>3, RoutedFrame, CallMoves
<1>2. ASSUME NEW c \in Call, NEW b \in BOOLEAN, SetSharing(c, b) PROVE FateInv'
  BY <1>2, RoutedFrame, Still DEF SetSharing, statics, thread, router
<1>3. ASSUME NEW c \in Call, StartCapture(c) PROVE FateInv'
  <2>1. PICK g \in Loop : loop[g] = "unused" /\ loop' = [loop EXCEPT ![g] = "starting"]
    BY <1>3 DEF StartCapture
  <2>2. queue' = queue /\ pending' = pending /\ fate' = fate /\ hook' = hook
    BY <1>3 DEF StartCapture, thread
  <2> QED BY <2>1, <2>2, RoutedFrame, LoopMoves
<1>4. ASSUME NEW c \in Call,
             AlreadyRunning(c) \/ KeepHandle(c) \/ SharingOn(c) \/ StopSharing(c) \/ Stopped(c)
      PROVE  FateInv'
  BY <1>4, RoutedFrame, Still DEF AlreadyRunning, KeepHandle, SharingOn, StopSharing, Stopped,
     statics, thread, router
<1>5. ASSUME NEW c \in Call, Install(c) PROVE FateInv'
  <2>1. ~hook.key
    BY <1>5 DEF Install, At, HolderInv, Starters, HandInv
  <2>2. hook'.key = FALSE
    BY <1>5 DEF Install
  <2>3. hook'.key = hook.key
    BY <2>1, <2>2 DEF TypeOK, HookAt
  <2> QED BY <1>5, <2>1, <2>3, RoutedFrame, Still DEF Install, statics, router
<1>6. ASSUME NEW c \in Call, Refuse(c) \/ SpawnFails(c) \/ StartLoop(c) PROVE FateInv'
  <2>1. call[c].loop \in Loop /\ loop[call[c].loop] = "starting"
    BY <1>6 DEF Refuse, SpawnFails, StartLoop, At, HolderInv, Starters, Starts
  <2>2. queue' = queue /\ pending' = pending /\ fate' = fate /\ hook' = hook
    BY <1>6 DEF Refuse, SpawnFails, StartLoop, thread
  <2>3. \E at \in {"finished", "leaked", "running"} : loop' = [loop EXCEPT ![call[c].loop] = at]
    BY <1>6 DEF Refuse, SpawnFails, StartLoop
  <2> QED BY <2>1, <2>2, <2>3, RoutedFrame, LoopMoves
<1>7. ASSUME NEW c \in Call, BridgeFails(c) PROVE FateInv'
  <2>1. call[c].loop \in Loop /\ loop[call[c].loop] = "starting"
    BY <1>7 DEF BridgeFails, At, HolderInv, Starters, Starts
  <2>2. ~hook.key /\ hook' = [hook EXCEPT !.at = "none"]
    BY <1>7 DEF BridgeFails, HandInv
  <2>3. hook'.key = hook.key
    BY <2>2 DEF TypeOK, HookAt
  <2>4. \A h \in Loop : queue'[h] \in {queue[h], <<>>}
    BY <1>7 DEF BridgeFails, TypeOK
  <2>5. \A h \in Loop : Queued(h)' => Queued(h)
    BY <2>4 DEF Queued
  <2>6. \A h \in Loop : Routed(h)' => Routed(h)
    BY <1>7, <2>5 DEF BridgeFails, Routed
  <2>7. loop' = [loop EXCEPT ![call[c].loop] = "finished"] /\ fate' = fate
    BY <1>7 DEF BridgeFails
  <2> QED BY <2>1, <2>3, <2>6, <2>7, LoopMoves
<1>8. ASSUME NEW g \in Loop, Heartbeat(g) \/ Stall(g) \/ Unstall(g) PROVE FateInv'
  BY <1>8, RoutedFrame, Still DEF Heartbeat, Stall, Unstall, statics, thread, router
<1>9. ASSUME NEW g \in Loop, Warp(g) \/ Break(g) \/ Drop(g) \/ Unsink(g) PROVE FateInv'
  <2>1. queue' = queue /\ pending' = pending /\ fate' = fate /\ hook' = hook
    BY <1>9 DEF Warp, Break, Drop, Unsink, thread
  <2>2. \E at \in {"running", "release", "join", "finished"} :
          loop[g] # at /\ loop' = [loop EXCEPT ![g] = at]
    BY <1>9 DEF Warp, Break, Drop, Unsink, Turns, Moves
  <2> QED BY <2>1, <2>2, RoutedFrame, LoopMoves
<1>10. ASSUME NEW g \in Loop, Join(g) PROVE FateInv'
  <2>1. \A h \in Loop : queue'[h] \in {queue[h], <<>>} /\ (pending'[h] => pending[h])
    BY <1>10 DEF Join, Clear, TypeOK
  <2>2. \A h \in Loop : Queued(h)' => Queued(h)
    BY <2>1 DEF Queued
  <2>3. \A h \in Loop : Routed(h)' => Routed(h)
    BY <2>1, <2>2 DEF Routed
  <2> QED BY <1>10, <2>3, LoopMoves DEF Join, Moves, thread
<1>11. ASSUME NEW g \in Loop, CursorEnter(g) PROVE FateInv'
  <2>1. queue' = queue /\ \A h \in Loop : pending'[h] => pending[h]
    BY <1>11 DEF CursorEnter, TypeOK
  <2>2. \A h \in Loop : Routed(h)' => Routed(h)
    BY <2>1 DEF Queued, Routed
  <2> QED BY <1>11, <2>2, LoopMoves DEF CursorEnter, Turns, Moves, thread
<1>12. ASSUME NEW g \in Loop, AnnouncedAway(g) \/ Crosses(g) \/ TakeBack(g) PROVE FateInv'
  <2>1. Idle(Owner) /\ \E to \in BOOLEAN : Enter(Owner, to)
    BY <1>12 DEF AnnouncedAway, Crosses, NextEvent, TakeBack, GoAway, SetSuppressing, Turns
  <2>2. sup'[Owner].at # sup[Owner].at
    BY <2>1 DEF Idle, Enter, TypeOK
  <2>3. /\ fate' = fate /\ hook' = hook
        /\ \A h \in Loop : pending'[h] => pending[h]
    <3>1. pending' = [pending EXCEPT ![g] = FALSE] /\ fate' = fate /\ hook' = hook
      BY <1>12 DEF AnnouncedAway, Crosses, TakeBack, GoAway, thread
    <3> QED BY <3>1 DEF TypeOK
  <2>4. \A h \in Loop : Queued(h)' => Queued(h)
    <3>1. CASE queue' = queue
      BY <3>1 DEF Queued
    <3>2. CASE NextEvent(g)
      BY <3>2, NextQueues
    <3> QED BY <1>12, <3>1, <3>2 DEF AnnouncedAway, Crosses, TakeBack
  <2>5. \A h \in Loop : Routed(h)' => Routed(h)
    BY <2>3, <2>4 DEF Routed
  <2> QED BY <2>2, <2>3, <2>5, CallMoves
<1>13. ASSUME Hatch \/ Quit PROVE FateInv'
  <2>1. hook.at = "idle" /\ Enter(Hook, FALSE)
    BY <1>13 DEF Hatch, Sees, Quit
  <2>2. sup[Hook].at = "idle" /\ sup'[Hook].at = "store"
    BY <2>1 DEF OwnerInv, Idle, Enter, TypeOK, Hook
  <2>3. queue' = queue /\ pending' = pending /\ fate' = fate
    BY <1>13 DEF Hatch, Quit, router
  <2>4. hook'.key => hook.key
    <3>1. CASE hook' = [at |-> "pass", key |-> FALSE]
      BY <3>1
    <3>2. CASE hook' = [hook EXCEPT !.at = "quit"]
      BY <3>2 DEF TypeOK, HookAt
    <3> QED BY <1>13, <3>1, <3>2 DEF Hatch, Passes, Quit
  <2> QED BY <2>2, <2>3, <2>4, RoutedFrame, CallMoves
<1>14. ASSUME Elapse \/ DisableTap \/ ReEnable PROVE FateInv'
  BY <1>14, RoutedFrame, Still DEF Elapse, DisableTap, ReEnable, statics, thread, router
<1>15. ASSUME Unreported \/ Replay \/ Gone PROVE FateInv'
  <2>1. hook.key = FALSE
    BY <1>15 DEF Unreported, Replay, Gone, Sees, HandInv, TypeOK, HookAt
  <2>2. hook'.key = hook.key
    <3>1. ASSUME NEW at, hook' = [at |-> at, key |-> FALSE] PROVE hook'.key = hook.key
      BY <2>1, <3>1
    <3>2. CASE hook' = [hook EXCEPT !.at = "none"]
      BY <3>2 DEF TypeOK, HookAt
    <3> QED BY <1>15, <3>1, <3>2 DEF Unreported, Replay, Gone, Asks, Passes
  <2> QED BY <1>15, <2>1, <2>2, RoutedFrame, Still DEF Unreported, Replay, Gone, statics, router
<1>16. ASSUME RawInput \/ TapMovement PROVE FateInv'
  <2>1. hook.at = "idle" /\ Emit("Motion") /\ pending' = pending
    BY <1>16 DEF RawInput, TapMovement, Sees
  <2>2. SINK \in Loop
    BY <2>1, SinkIsALoop
  <2>3. \A g \in Loop : Queued(g)' <=> Queued(g)
    BY <2>1, <2>2, EmitQueues DEF Reported
  <2>4. hook.key = FALSE
    BY <2>1 DEF HandInv, TypeOK, HookAt
  <2>5. hook'.key = hook.key
    <3>1. CASE hook' = [at |-> "check", key |-> FALSE]
      BY <2>4, <3>1
    <3>2. CASE hook' = hook
      BY <3>2
    <3> QED BY <1>16, <3>1, <3>2 DEF RawInput, TapMovement, Asks, thread
  <2> QED BY <1>16, <2>1, <2>3, <2>4, <2>5, Still DEF RawInput, TapMovement, statics
<1> QED
  BY <1>1, <1>2, <1>3, <1>4, <1>5, <1>6, <1>7, <1>8, <1>9, <1>10, <1>11, <1>12, <1>13,
     <1>14, <1>15, <1>16, KeyTyped, KeyRouted, KeySent, KeyChecked, KeySwallowed, KeyPassed
     DEF Step, Switch, Routing, Moving, Ending, Callback, MouseHook, KeyboardHook,
     TapCallback, Deciding

-----------------------------------------------------------------------------
(* The theorems *)

\* The inductive invariant.
IInv == TypeOK /\ HolderInv /\ SwallowInv /\ OwnerInv /\ MouseInv /\ KeyInv

\* It holds at the start and after every step.
LEMMA Inductive == Spec => []IInv
<1>1. Init => IInv
  BY TypeInit, HolderInit, SwallowInit, OwnerInit, MouseInit, KeyInit DEF IInv
<1>2. IInv /\ [Next]_vars => IInv'
  <2> SUFFICES ASSUME IInv, [Next]_vars PROVE IInv'
    OBVIOUS
  <2>1. CASE Next
    <3>1. Step /\ Record /\ platform' = platform
      BY <2>1 DEF Next, Run
    <3>2. TypeOK' /\ HolderInv' /\ SwallowInv' /\ OwnerInv' /\ MouseInv'
      BY <3>1, TypeStep, HolderStep, SwallowStep, OwnerStep, MouseStep DEF IInv
    <3>3. SinkInv' /\ HandInv' /\ FateInv'
      BY <3>1, SinkStep, HandStep, FateStep DEF IInv, KeyInv
    <3> QED BY <3>2, <3>3 DEF IInv, KeyInv
  <2>2. CASE UNCHANGED vars
    <3> USE <2>2 DEF vars, statics, thread, router, switch, history
    <3>1. TypeOK'
      BY DEF IInv, TypeOK
    <3>2. HolderInv'
      BY HolderFrame DEF IInv
    <3>3. SwallowInv'
      BY SwallowFrame DEF IInv, AwayRuns
    <3>4. OwnerInv'
      BY OwnerFrame DEF IInv, OwnerInv, Idle
    <3>5. MouseInv'
      BY DEF IInv, MouseInv, Agreeing, Idle
    <3>6. UnderWay' <=> UnderWay
      BY DEF UnderWay
    <3>7. OnItsWay => OnItsWay'
      BY DEF OnItsWay, Agree, Routed, Queued
    <3>8. KeyInv'
      BY <3>6, <3>7 DEF IInv, KeyInv, SinkInv, HandInv, FateInv
    <3> QED BY <3>1, <3>2, <3>3, <3>4, <3>5, <3>8 DEF IInv
  <2> QED BY <2>1, <2>2
<1> QED
  BY <1>1, <1>2, PTL DEF Spec

\* The statics, the threads, the loops and the calls stay within their types, and
\* nothing a process replays is captured again.
THEOREM TypeCorrect == Spec => []TypeOK
<1>1. IInv => TypeOK
  BY DEF IInv
<1> QED
  BY <1>1, Inductive, PTL

\* However many calls of set_sharing race, one loop at most holds the hooks, and
\* Capture::start refuses exactly while one does (windows.rs start, Drop for Capture).
THEOREM OneHolderAlways == Spec => []OneHolder
<1>1. IInv => OneHolder
  BY HoldersAreOneHolder DEF IInv, HolderInv
<1> QED
  BY <1>1, Inductive, PTL

\* Whatever the order of starts, stops, watchdog, escape hatch and pointer movements,
\* input is swallowed only for a pointer that is elsewhere or while it is released
\* (set_suppression, the end of sharing.rs run, Drop for Capture).
THEOREM NeverSwallowedForNobody == Spec => []SwallowedForSomebody
<1>1. IInv => SwallowedForSomebody
  BY DEF IInv, SwallowInv
<1> QED
  BY <1>1, Inductive, PTL

\* As long as no two threads were in set_suppression at once, the mouse moves the
\* cursor whenever nothing is swallowed (macos.rs detach_pointer).
THEOREM MouseIsFreeAlways == Spec => []MouseIsFree
<1>1. IInv => MouseIsFree
  BY DEF IInv, MouseInv, MouseIsFree, Agreeing
<1> QED
  BY <1>1, Inductive, PTL

\* Whatever the threads do in whatever order: a key that hook and router agreed about
\* while it was under way acts on exactly one machine (the callbacks of windows.rs and
\* macos.rs decide whether here, Router's handle whether it is sent).
THEOREM KeyActsOnceAlways == Spec => []KeyActsOnce
<1>1. IInv => KeyActsOnce
  <2> SUFFICES ASSUME IInv, ~UnderWay, ~disturbed PROVE Cardinality(fate) = 1
    BY DEF KeyActsOnce
  <2>1. \E x \in {"here", "there"} : fate = {x}
    BY DEF IInv, KeyInv, FateInv
  <2> QED BY <2>1, FS_Singleton
<1> QED
  BY <1>1, Inductive, PTL

=============================================================================
