------------------------------ MODULE Capture -------------------------------
(***************************************************************************)
(* One machine's input capture (crates/is-input/src/platform/windows.rs    *)
(* and macos.rs) and the switch that turns it on and off                   *)
(* (crates/is-agent/src/lib.rs, sharing.rs).  Four kinds of threads share  *)
(* a few process-wide atomics: the callers of set_sharing, the routing     *)
(* loop that holds the Capture, the hook (or tap) thread that sees every   *)
(* key before the system does, and time, which runs down the watchdog.     *)
(*                                                                         *)
(* Accesses to the atomics are sequentially consistent here; Windows uses  *)
(* relaxed ones.  Where the pointer goes is Sharing's subject: here it is  *)
(* away or not.  Movement is the one event that can send it away; any      *)
(* other event is a Key, followed one at a time to where it acts.          *)
(***************************************************************************)
EXTENDS Integers, Sequences, FiniteSets

CONSTANTS
  Platforms,   \* the systems to check: a subset of {"windows", "macos"}
  Call,        \* bound: calls of set_sharing, as positive numbers
  Loop,        \* bound: routing loops started, as positive numbers
  First,       \* the loop that runs from the start, None for none
  QueueCap     \* bound: events captured and not yet routed (unbounded in the code)

None == 0

\* What a callback reports: movement, or a key, a button, the wheel.
Reported == {"Motion", "Key"}

ASSUME CaptureAssumption ==
  /\ Platforms \subseteq {"windows", "macos"}
  /\ Call \subseteq Nat \ {None} /\ Loop \subseteq Nat \ {None}
  /\ First \in Loop \cup {None} /\ QueueCap \in Nat

VARIABLES
  platform,      \* the system this machine runs
  RUNNING,       \* a Capture exists
  SINK,          \* the loop captured events go to
  SUPPRESSING,   \* captured input is swallowed
  DETACHED,      \* macOS: the mouse is believed unhooked from the cursor
  attached,      \* macOS: the mouse moves the cursor
  fresh,         \* WATCHDOG is less than WATCHDOG_LIMIT_MS old
  sup,           \* sup[t]: how far thread t is in set_suppression
  hook,          \* the hook thread and the event it is at
  enabled,       \* the system delivers events to the hook
  raw,           \* Windows: movement is reported
  loop,          \* loop[g]: how far routing loop g is
  away,          \* away[g]: Router.owner is another machine
  stuck,         \* stuck[g]: the loop waits for something that does not come
  stop,          \* stop[g]: the permit of its Notify
  queue,         \* queue[g]: captured events it has not routed
  pending,       \* pending[g]: Router.pending
  is_sharing,    \* Core.sharing
  slot,          \* Agent.sharing: the loop of the handle kept
  remote_input,  \* Core.remote_input: the loop it points at
  call,          \* call[c]: how far a call of set_sharing is, and its loop
  fate,          \* where the last key acted: on this machine, sent to another
  disturbed,     \* history: while it was under way, hook and router disagreed
  overlapped     \* history: two threads were in set_suppression at once

statics == <<RUNNING, SINK, SUPPRESSING, DETACHED, attached, fresh>>
thread == <<hook, enabled, raw>>
router == <<loop, away, stuck, stop, queue, pending>>
switch == <<is_sharing, slot, remote_input, call>>
history == <<disturbed, overlapped>>
vars == <<platform, statics, sup, thread, router, switch, fate, history>>

\* The loop that holds the Capture, the caller that starts it or the loop's end:
\* one thread at a time.
Owner == "owner"
Hook == "hook"

Sup == [at : {"idle", "store", "swap", "associate"}, to : BOOLEAN]
Idle(t) == sup[t].at = "idle"
HookAt == [at : {"none", "idle", "check", "watchdog", "pass", "quit"}, key : BOOLEAN]

\* The phases in which a loop, or the call that starts it, holds the Capture.
Holding == {"starting", "running", "entering", "release", "join", "leaked"}
Phase == Holding \cup {"unused", "unsink", "finished"}
CallAt == {"unused", "start", "install", "route", "keep", "flag", "stop", "wait", "done"}

Init ==
  LET on == First # None
  IN  /\ platform \in Platforms
      /\ RUNNING = on /\ SINK = First /\ SUPPRESSING = FALSE
      /\ DETACHED = FALSE /\ attached = TRUE /\ fresh = on
      /\ sup = [t \in {Owner, Hook} |-> [at |-> "idle", to |-> FALSE]]
      /\ hook = [at |-> IF on THEN "idle" ELSE "none", key |-> FALSE]
      /\ enabled = TRUE
      /\ raw \in {FALSE, on /\ platform = "windows"}
      /\ loop = [g \in Loop |-> IF g = First THEN "running" ELSE "unused"]
      /\ away = [g \in Loop |-> FALSE] /\ stuck = [g \in Loop |-> FALSE]
      /\ stop = [g \in Loop |-> FALSE]
      /\ queue = [g \in Loop |-> <<>>] /\ pending = [g \in Loop |-> FALSE]
      /\ is_sharing = on /\ slot = First /\ remote_input = First
      /\ call = [c \in Call |-> [at |-> "unused", loop |-> None]]
      /\ fate = {} /\ disturbed = TRUE /\ overlapped = FALSE

-----------------------------------------------------------------------------
(* set_suppression *)

\* Thread t enters set_suppression(to).
Enter(t, to) == sup' = [sup EXCEPT ![t] = [at |-> "store", to |-> to]]
Reach(t, at) == sup' = [sup EXCEPT ![t] = [at |-> at, to |-> at # "idle" /\ @.to]]

\* The flag.  Windows has nothing else to do.
StoreSuppressing(t) ==
  /\ sup[t].at = "store"
  /\ SUPPRESSING' = sup[t].to
  /\ Reach(t, IF platform = "macos" THEN "swap" ELSE "idle")
  /\ UNCHANGED <<RUNNING, SINK, DETACHED, attached, fresh, thread, router, switch, fate>>

\* detach_pointer, first half: nothing to do when the flag already says so.
SwapDetached(t) ==
  /\ sup[t].at = "swap"
  /\ DETACHED' = sup[t].to
  /\ Reach(t, IF DETACHED = sup[t].to THEN "idle" ELSE "associate")
  /\ UNCHANGED <<RUNNING, SINK, SUPPRESSING, attached, fresh, thread, router, switch, fate>>

\* Wrong form: the mouse is hooked back up only by the next warp of the cursor.
AssociateDetachOnly(t) ==
  /\ sup[t].at = "associate"
  /\ attached' = (attached /\ ~sup[t].to)
  /\ Reach(t, "idle")
  /\ UNCHANGED <<RUNNING, SINK, SUPPRESSING, DETACHED, fresh, thread, router, switch, fate>>

\* detach_pointer, second half: CGAssociateMouseAndMouseCursorPosition.
Associate(t) ==
  /\ sup[t].at = "associate"
  /\ attached' = ~sup[t].to
  /\ Reach(t, "idle")
  /\ UNCHANGED <<RUNNING, SINK, SUPPRESSING, DETACHED, fresh, thread, router, switch, fate>>

SetSuppression(t) == StoreSuppressing(t) \/ SwapDetached(t) \/ Associate(t)

\* More than WATCHDOG_LIMIT_MS pass without a heartbeat.
Elapse ==
  /\ fresh
  /\ fresh' = FALSE
  /\ UNCHANGED <<RUNNING, SINK, SUPPRESSING, DETACHED, attached, sup, thread, router, switch, fate>>

-----------------------------------------------------------------------------
(* The switch: set_sharing *)

At(c, at) == call[c].at = at
Goes(c, at) == call' = [call EXCEPT ![c] = [at |-> at, loop |-> IF at = "done" THEN None ELSE @.loop]]

\* A person, or the app when it comes up, asks for sharing on or off.  The choice is
\* also written to the preferences, which only the next start reads.  Calls are
\* numbered as they come.
SetSharing(c, on) ==
  /\ At(c, "unused") /\ \A d \in Call : d < c => ~At(d, "unused")
  /\ Goes(c, IF on = is_sharing THEN "done" ELSE IF on THEN "start" ELSE "stop")
  /\ UNCHANGED <<statics, sup, thread, router, is_sharing, slot, remote_input, fate>>

\* Capture::start: refused while a Capture exists; otherwise the statics are reset
\* for the new loop.
StartCapture(c) ==
  /\ At(c, "start") /\ ~RUNNING
  /\ \E g \in Loop :
       /\ loop[g] = "unused" /\ \A h \in Loop : h < g => loop[h] # "unused"
       /\ RUNNING' = TRUE /\ SINK' = g /\ fresh' = TRUE
       /\ loop' = [loop EXCEPT ![g] = "starting"]
       /\ call' = [call EXCEPT ![c] = [at |-> "install", loop |-> g]]
       /\ Enter(Owner, FALSE)
  /\ UNCHANGED <<SUPPRESSING, DETACHED, attached, thread, away, stuck, stop, queue, pending,
                 is_sharing, slot, remote_input, fate>>

AlreadyRunning(c) ==
  /\ At(c, "start") /\ RUNNING
  /\ Goes(c, "done")
  /\ UNCHANGED <<statics, sup, thread, router, is_sharing, slot, remote_input, fate>>

\* Capture::start, the thread: the hooks are in, in observe-only mode.
Install(c) ==
  /\ At(c, "install") /\ Idle(Owner)
  /\ hook' = [at |-> "idle", key |-> FALSE] /\ enabled' = TRUE
  /\ raw' \in (IF platform = "windows" THEN BOOLEAN ELSE {FALSE})
  /\ Goes(c, "route")
  /\ UNCHANGED <<statics, sup, router, is_sharing, slot, remote_input, fate>>

\* The system refuses the hooks or the tap, or the thread dies.
Refuse(c) ==
  /\ At(c, "install") /\ Idle(Owner)
  /\ RUNNING' = FALSE
  /\ loop' = [loop EXCEPT ![call[c].loop] = "finished"]
  /\ Goes(c, "done")
  /\ UNCHANGED <<SINK, SUPPRESSING, DETACHED, attached, fresh, sup, thread,
                 away, stuck, stop, queue, pending, is_sharing, slot, remote_input, fate>>

\* The thread cannot be spawned: the error is returned at once and RUNNING stays.
SpawnFails(c) ==
  /\ At(c, "install") /\ Idle(Owner)
  /\ loop' = [loop EXCEPT ![call[c].loop] = "leaked"]
  /\ Goes(c, "done")
  /\ UNCHANGED <<statics, sup, thread, away, stuck, stop, queue, pending,
                 is_sharing, slot, remote_input, fate>>

\* sharing::start: remote input is pointed at the new loop, and the loop spawned.
StartLoop(c) ==
  /\ At(c, "route")
  /\ remote_input' = call[c].loop
  /\ loop' = [loop EXCEPT ![call[c].loop] = "running"]
  /\ Goes(c, "keep")
  /\ UNCHANGED <<statics, sup, thread, away, stuck, stop, queue, pending,
                 is_sharing, slot, fate>>

\* sharing::start: the bridge cannot be spawned and the Capture is dropped, which
\* waits for the hook thread.
BridgeFails(c) ==
  /\ At(c, "route") /\ hook.at = "idle" /\ Idle(Hook)
  /\ RUNNING' = FALSE /\ SINK' = None
  /\ hook' = [hook EXCEPT !.at = "none"] /\ enabled' = TRUE /\ raw' = FALSE
  /\ loop' = [loop EXCEPT ![call[c].loop] = "finished"]
  /\ queue' = [queue EXCEPT ![call[c].loop] = <<>>]
  /\ Goes(c, "done")
  /\ UNCHANGED <<SUPPRESSING, DETACHED, attached, fresh, sup, away, stuck, stop,
                 pending, is_sharing, slot, remote_input, fate>>

\* The permits once the handles in S were dropped or asked to stop.
Notified(S) == [g \in Loop |-> stop[g] \/ g \in S]

\* The handle is kept; one it replaces is dropped.
KeepHandle(c) ==
  /\ At(c, "keep")
  /\ slot' = call[c].loop /\ stop' = Notified({slot})
  /\ Goes(c, "flag")
  /\ UNCHANGED <<statics, sup, thread, loop, away, stuck, queue, pending,
                 is_sharing, remote_input, fate>>

SharingOn(c) ==
  /\ At(c, "flag")
  /\ is_sharing' = TRUE
  /\ Goes(c, "done")
  /\ UNCHANGED <<statics, sup, thread, router, slot, remote_input, fate>>

\* Wrong form of the stop: only a loop that waits at this moment is woken.
StopWakesWaiters(c) ==
  /\ At(c, "stop")
  /\ is_sharing' = FALSE /\ slot' = None
  /\ stop' = Notified({g \in {slot} \cap Loop : ~stuck[g] /\ Idle(Owner)})
  /\ call' = [call EXCEPT ![c] = [at |-> IF slot = None THEN "done" ELSE "wait", loop |-> slot]]
  /\ UNCHANGED <<statics, sup, thread, loop, away, stuck, queue, pending,
                 remote_input, fate>>

\* set_sharing(false): the handle is taken and its loop asked to stop.
StopSharing(c) ==
  /\ At(c, "stop")
  /\ is_sharing' = FALSE /\ slot' = None
  /\ stop' = Notified({slot})
  /\ call' = [call EXCEPT ![c] = [at |-> IF slot = None THEN "done" ELSE "wait", loop |-> slot]]
  /\ UNCHANGED <<statics, sup, thread, loop, away, stuck, queue, pending,
                 remote_input, fate>>

\* Sharing::stop returns once the loop has finished, or after three seconds.
Stopped(c) ==
  /\ At(c, "wait")
  /\ Goes(c, "done")
  /\ UNCHANGED <<statics, sup, thread, router, is_sharing, slot, remote_input, fate>>

Switch(c) ==
  \/ StartCapture(c) \/ AlreadyRunning(c)
  \/ Install(c) \/ Refuse(c) \/ SpawnFails(c)
  \/ StartLoop(c) \/ BridgeFails(c) \/ KeepHandle(c) \/ SharingOn(c)
  \/ StopSharing(c) \/ Stopped(c)

-----------------------------------------------------------------------------
(* The routing loop *)

Turns(g) == loop[g] = "running" /\ ~stuck[g] /\ Idle(Owner)
Moves(g, at) == loop' = [loop EXCEPT ![g] = at]

\* What became of the last key, once it acts at one end.
Acts(where) == IF disturbed THEN fate ELSE fate \cup {where}

\* Capture::set_suppressing.
SetSuppressing(to) == fresh' = TRUE /\ Enter(Owner, to)

Heartbeat(g) ==
  /\ Turns(g) /\ ~fresh
  /\ fresh' = TRUE
  /\ UNCHANGED <<RUNNING, SINK, SUPPRESSING, DETACHED, attached, sup, thread, router, switch, fate>>

\* The pointer goes to another machine, or from one to another: a movement of this
\* mouse or of a remote one, or an announcement.
GoAway(g) ==
  /\ away' = [away EXCEPT ![g] = TRUE]
  /\ pending' = [pending EXCEPT ![g] = FALSE]
  /\ SetSuppressing(TRUE)
  /\ UNCHANGED <<RUNNING, SINK, SUPPRESSING, DETACHED, attached, thread, loop, stuck, stop,
                 switch, fate>>

AnnouncedAway(g) == Turns(g) /\ GoAway(g) /\ UNCHANGED queue

\* handle(Local) on the next captured event.
NextEvent(g) == Turns(g) /\ queue[g] # <<>> /\ queue' = [queue EXCEPT ![g] = Tail(@)]

\* handle(Local), a movement over an edge.
Crosses(g) == NextEvent(g) /\ Head(queue[g]) = "Motion" /\ ~away[g] /\ GoAway(g)

\* Wrong form of handle: the test of the owner is the wrong way round.
RouteOwn(g) ==
  /\ NextEvent(g)
  /\ pending' = [pending EXCEPT ![g] = @ \/ (~away[g] /\ Head(queue[g]) = "Key")]
  /\ UNCHANGED <<statics, sup, thread, loop, away, stuck, stop, switch, fate>>

\* handle(Local), anything else: what this machine does not own waits to be sent;
\* what it owns has already acted here.
Route(g) ==
  /\ NextEvent(g)
  /\ pending' = [pending EXCEPT ![g] = @ \/ (away[g] /\ Head(queue[g]) = "Key")]
  /\ UNCHANGED <<statics, sup, thread, loop, away, stuck, stop, switch, fate>>

Flush(g) ==
  /\ Turns(g) /\ pending[g]
  /\ fate' = IF away[g] THEN Acts("there") ELSE fate
  /\ pending' = [pending EXCEPT ![g] = FALSE]
  /\ UNCHANGED <<statics, sup, thread, loop, away, stuck, stop, queue, switch>>

\* take_ownership, or an announcement that names this machine.
TakeBack(g) ==
  /\ Turns(g) /\ away[g]
  /\ away' = [away EXCEPT ![g] = FALSE]
  /\ pending' = [pending EXCEPT ![g] = FALSE]
  /\ SetSuppressing(FALSE)
  /\ UNCHANGED <<RUNNING, SINK, SUPPRESSING, DETACHED, attached, thread, loop, stuck, stop, queue,
                 switch, fate>>

\* handle(Remote), CursorEnter: the pointer is handed to this machine, if it was
\* not here, and placed.
CursorEnter(g) ==
  /\ Turns(g)
  /\ Moves(g, "entering")
  /\ away' = [away EXCEPT ![g] = FALSE]
  /\ pending' = [pending EXCEPT ![g] = ~away[g] /\ @]
  /\ IF away[g] THEN SetSuppressing(FALSE) ELSE UNCHANGED <<fresh, sup>>
  /\ UNCHANGED <<RUNNING, SINK, SUPPRESSING, DETACHED, attached, thread, stuck, stop, queue,
                 switch, fate>>

\* set_cursor_position on macOS: warping unhooks the mouse, so it is hooked back up
\* unless it is meant to be unhooked.
Warp(g) ==
  /\ loop[g] = "entering" /\ Idle(Owner)
  /\ attached' = (attached \/ ~DETACHED)
  /\ Moves(g, "running")
  /\ UNCHANGED <<RUNNING, SINK, SUPPRESSING, DETACHED, fresh, sup, thread, away, stuck, stop,
                 queue, pending, switch, fate>>

\* The loop awaits a mailbox nobody drains; perhaps for ever.
Stall(g) ==
  /\ Turns(g)
  /\ stuck' = [stuck EXCEPT ![g] = TRUE]
  /\ UNCHANGED <<statics, sup, thread, loop, away, stop, queue, pending, switch, fate>>

Unstall(g) ==
  /\ stuck[g]
  /\ stuck' = [stuck EXCEPT ![g] = FALSE]
  /\ UNCHANGED <<statics, sup, thread, loop, away, stop, queue, pending, switch, fate>>

\* Wrong form of the end of the loop: releasing is left to the hook thread.
BreakKeepsSwallowing(g) ==
  /\ Turns(g) /\ (stop[g] \/ remote_input # g)
  /\ Moves(g, "release")
  /\ UNCHANGED <<statics, sup, thread, away, stuck, stop, queue, pending, switch, fate>>

\* The loop is asked to stop, or the sender of its remote input is gone.
Break(g) ==
  /\ Turns(g) /\ (stop[g] \/ remote_input # g)
  /\ Moves(g, "release")
  /\ SetSuppressing(FALSE)
  /\ UNCHANGED <<RUNNING, SINK, SUPPRESSING, DETACHED, attached, thread, away, stuck, stop,
                 queue, pending, switch, fate>>

\* Drop for Capture: set_suppression(false), then the hook thread is asked to quit
\* and waited for.
Drop(g) ==
  /\ loop[g] = "release" /\ Idle(Owner)
  /\ Moves(g, "join")
  /\ Enter(Owner, FALSE)
  /\ UNCHANGED <<statics, thread, away, stuck, stop, queue, pending, switch, fate>>

\* The loop's own state goes with it.
Clear(g) ==
  /\ away' = [away EXCEPT ![g] = FALSE] /\ stuck' = [stuck EXCEPT ![g] = FALSE]
  /\ stop' = [stop EXCEPT ![g] = FALSE]
  /\ queue' = [queue EXCEPT ![g] = <<>>] /\ pending' = [pending EXCEPT ![g] = FALSE]

\* Wrong form of the end of Drop: the hook thread is not waited for.
JoinNobody(g) ==
  /\ loop[g] = "join"
  /\ RUNNING' = FALSE /\ SINK' = None
  /\ Moves(g, "unsink")
  /\ Clear(g)
  /\ UNCHANGED <<SUPPRESSING, DETACHED, attached, fresh, sup, thread, switch, fate>>

\* The end of Drop: only now can a Capture be started again.
Join(g) ==
  /\ loop[g] = "join" /\ hook.at = "none"
  /\ RUNNING' = FALSE /\ SINK' = None
  /\ Moves(g, "unsink")
  /\ Clear(g)
  /\ UNCHANGED <<SUPPRESSING, DETACHED, attached, fresh, sup, thread, switch, fate>>

\* The tail of run: remote input is replayed directly again, and stop() is told.
Unsink(g) ==
  /\ loop[g] = "unsink"
  /\ remote_input' = None
  /\ Moves(g, "finished")
  /\ UNCHANGED <<statics, sup, thread, away, stuck, stop, queue, pending,
                 is_sharing, slot, call, fate>>

Routing(g) == Heartbeat(g) \/ Route(g) \/ Flush(g) \/ Warp(g)
Moving(g) == AnnouncedAway(g) \/ Crosses(g) \/ TakeBack(g) \/ CursorEnter(g)
Ending(g) == Break(g) \/ Drop(g) \/ Join(g) \/ Unsink(g)

-----------------------------------------------------------------------------
(* The hook thread *)

\* The hook is between events and the system shows it the next one.
Sees == hook.at = "idle" /\ enabled

\* emit: a key, a button or the wheel, or movement, goes to the loop.
Emit(x) == Len(queue[SINK]) < QueueCap /\ queue' = [queue EXCEPT ![SINK] = Append(@, x)]

\* A callback has reported what there was to report and goes on at suppressing_now,
\* or lets the event through.
Asks(key) == hook' = [at |-> "check", key |-> key]
Passes == hook' = [at |-> "pass", key |-> FALSE]

\* The key that is followed is still on its way.
UnderWay ==
  hook.key \/ \E g \in Loop : pending[g] \/ \E i \in DOMAIN queue[g] : queue[g][i] = "Key"

\* A callback with a key, a button or the wheel.
Key ==
  /\ Sees /\ ~UnderWay
  /\ Emit("Key") /\ Asks(TRUE) /\ fate' = {}
  /\ UNCHANGED <<statics, sup, enabled, raw, loop, away, stuck, stop, pending, switch>>

\* A callback that has nothing to report: movement on Windows, a key without a
\* counterpart on macOS.
Unreported ==
  /\ Sees /\ Asks(FALSE)
  /\ UNCHANGED <<statics, sup, enabled, raw, router, switch, fate>>

\* A callback with the escape hatch, which is neither reported nor swallowed.
Hatch ==
  /\ Sees /\ SUPPRESSING
  /\ Passes /\ Enter(Hook, FALSE)
  /\ UNCHANGED <<statics, enabled, raw, router, switch, fate>>

\* The machine that holds the pointer replays what another one sends.
Replays == remote_input # None => loop[remote_input] = "running" /\ ~away[remote_input]

\* Wrong form: what this process replays is captured like anything else.
ReplayCaptured ==
  /\ Sees /\ Replays
  /\ Emit("Replay") /\ Asks(FALSE)
  /\ UNCHANGED <<statics, sup, enabled, raw, loop, away, stuck, stop, pending, switch, fate>>

\* A callback with an event this process replays: the marker lets it through.
Replay ==
  /\ Sees /\ Replays
  /\ Passes
  /\ UNCHANGED <<statics, sup, enabled, raw, router, switch, fate>>

\* raw_input_proc: movement is reported by the device, whatever is swallowed.
RawInput ==
  /\ platform = "windows" /\ Sees /\ raw
  /\ Emit("Motion")
  /\ UNCHANGED <<statics, sup, thread, loop, away, stuck, stop, pending, switch, fate>>

MouseHook == platform = "windows" /\ (Key \/ Unreported)
KeyboardHook == platform = "windows" /\ (Key \/ Hatch)

\* tap_callback, movement: reported and swallowed in one callback.
TapMovement ==
  /\ Sees /\ Emit("Motion") /\ Asks(FALSE)
  /\ UNCHANGED <<statics, sup, enabled, raw, loop, away, stuck, stop, pending, switch, fate>>

TapCallback == platform = "macos" /\ (Key \/ Unreported \/ TapMovement \/ Hatch)

\* The system switches a slow tap off.
DisableTap ==
  /\ platform = "macos" /\ Sees
  /\ enabled' = FALSE
  /\ UNCHANGED <<statics, sup, hook, raw, router, switch, fate>>

\* tap_callback: told so, it switches the tap back on.
ReEnable ==
  /\ hook.at = "idle" /\ ~enabled
  /\ enabled' = TRUE
  /\ UNCHANGED <<statics, sup, hook, raw, router, switch, fate>>

\* suppressing_now, the flag: the event goes through when it is not set.
CheckSuppressing ==
  /\ hook.at = "check"
  /\ hook' = [hook EXCEPT !.at = IF SUPPRESSING THEN "watchdog" ELSE "pass"]
  /\ UNCHANGED <<statics, sup, enabled, raw, router, switch, fate>>

\* Wrong form: the event is let through and the keyboard stays swallowed.
CheckWatchdogNoRelease ==
  /\ hook.at = "watchdog"
  /\ hook' = IF fresh THEN [at |-> "idle", key |-> FALSE] ELSE [hook EXCEPT !.at = "pass"]
  /\ UNCHANGED <<statics, sup, enabled, raw, router, switch, fate>>

\* suppressing_now, the watchdog: the event is swallowed, or everything is released.
CheckWatchdog ==
  /\ hook.at = "watchdog"
  /\ \/ /\ fresh
        /\ hook' = [at |-> "idle", key |-> FALSE]
        /\ UNCHANGED sup
     \/ /\ ~fresh
        /\ hook' = [hook EXCEPT !.at = "pass"]
        /\ Enter(Hook, FALSE)
  /\ UNCHANGED <<statics, enabled, raw, router, switch, fate>>

\* The event goes through, after the release if there was one.
PassOn ==
  /\ hook.at = "pass" /\ Idle(Hook)
  /\ hook' = [at |-> "idle", key |-> FALSE]
  /\ fate' = IF hook.key THEN Acts("here") ELSE fate
  /\ UNCHANGED <<statics, sup, enabled, raw, router, switch>>

\* hook_thread and tap_thread: told to quit, the hooks are removed and input is
\* released once more.
Quit ==
  /\ hook.at = "idle" /\ Idle(Owner) /\ \E g \in Loop : loop[g] = "join"
  /\ hook' = [hook EXCEPT !.at = "quit"]
  /\ Enter(Hook, FALSE)
  /\ UNCHANGED <<statics, enabled, raw, router, switch, fate>>

Gone ==
  /\ hook.at = "quit" /\ Idle(Hook)
  /\ hook' = [hook EXCEPT !.at = "none"] /\ enabled' = TRUE /\ raw' = FALSE
  /\ UNCHANGED <<statics, sup, router, switch, fate>>

Callback == MouseHook \/ KeyboardHook \/ RawInput \/ TapCallback \/ Replay
Deciding == CheckSuppressing \/ CheckWatchdog \/ PassOn \/ Gone

-----------------------------------------------------------------------------
\* The flag the hook reads says what the router thinks.
Agree == \A g \in Loop : loop[g] = "running" => SUPPRESSING = away[g]

\* What the history variables record of a step: a key that is typed starts anew.
Record ==
  /\ disturbed' = (\/ disturbed /\ (UnderWay \/ ~UnderWay')
                   \/ /\ UnderWay \/ UnderWay'
                      /\ ~Agree \/ ~UNCHANGED <<SUPPRESSING, sup, away, loop>>)
  /\ overlapped' = (overlapped \/ (~Idle(Owner)' /\ ~Idle(Hook)'))

Step ==
  \/ \E t \in {Owner, Hook} : SetSuppression(t)
  \/ Elapse
  \/ \E c \in Call : Switch(c) \/ \E on \in BOOLEAN : SetSharing(c, on)
  \/ \E g \in Loop : Routing(g) \/ Moving(g) \/ Ending(g) \/ Stall(g) \/ Unstall(g)
  \/ Callback \/ DisableTap \/ ReEnable \/ Deciding \/ Quit

\* A step of the program and what is recorded of it.
Run(A) == A /\ Record /\ UNCHANGED platform

Next == Run(Step)

Spec == Init /\ [][Next]_vars

\* Threads run, and time passes.  A person who finds the keyboard dead keeps pressing
\* keys, and the system shows the hook events however often it disables the tap; the
\* select of the loop takes its branches in random order, so a stop that stays asked
\* for is taken; a callback that ends lets the hook thread see that it is to quit.
\* Nothing is assumed of a loop that is stuck.
Fairness ==
  /\ WF_vars(Run(SetSuppression(Owner))) /\ WF_vars(Run(SetSuppression(Hook)))
  /\ WF_vars(Run(Elapse)) /\ WF_vars(Run(Deciding)) /\ WF_vars(Run(ReEnable))
  /\ SF_vars(Run(Unreported)) /\ SF_vars(Run(Quit))
  /\ SF_vars(Run(\E g \in Loop : Break(g)))
  /\ WF_vars(Run(\E g \in Loop : Warp(g) \/ Drop(g) \/ Join(g) \/ Unsink(g)))

FairSpec == Spec /\ Fairness

-----------------------------------------------------------------------------
(* Properties *)

\* Every variable holds what its Rust type admits, the queue keeps its bound, and
\* nothing this process replays for another machine is captured again.
TypeOK ==
  /\ platform \in Platforms
  /\ RUNNING \in BOOLEAN /\ SUPPRESSING \in BOOLEAN /\ DETACHED \in BOOLEAN
  /\ attached \in BOOLEAN /\ fresh \in BOOLEAN
  /\ SINK \in Loop \cup {None}
  /\ sup \in [{Owner, Hook} -> Sup] /\ hook \in HookAt
  /\ enabled \in BOOLEAN /\ raw \in BOOLEAN
  /\ loop \in [Loop -> Phase] /\ away \in [Loop -> BOOLEAN]
  /\ stuck \in [Loop -> BOOLEAN] /\ stop \in [Loop -> BOOLEAN]
  /\ pending \in [Loop -> BOOLEAN] /\ queue \in [Loop -> Seq(Reported)]
  /\ \A g \in Loop : Len(queue[g]) <= QueueCap
  /\ is_sharing \in BOOLEAN /\ slot \in Loop \cup {None} /\ remote_input \in Loop \cup {None}
  /\ call \in [Call -> [at : CallAt, loop : Loop \cup {None}]]
  /\ fate \subseteq {"here", "there"}
  /\ disturbed \in BOOLEAN /\ overlapped \in BOOLEAN

\* The hooks are a process-wide resource (sharing.rs:72): RUNNING is set exactly
\* while one loop, or the call that starts it, holds them, and until the hook thread
\* is gone.  So two loops never capture at once, and a start is refused only while
\* something is capturing, or after a thread could not be spawned.
OneHolder ==
  LET holders == {g \in Loop : loop[g] \in Holding}
  IN  /\ RUNNING <=> holders # {}
      /\ \A g, h \in holders : g = h
      /\ hook.at # "none" => RUNNING

\* Input is swallowed only while a loop that is alive takes the pointer to be on
\* another machine, or has begun to release it: no order of stopping, starting,
\* watchdog and escape hatch leaves a keyboard swallowed that nobody will release.
SwallowedForSomebody ==
  SUPPRESSING => \/ \E g \in Loop : loop[g] = "running" /\ away[g]
                 \/ sup[Owner] = [at |-> "store", to |-> FALSE]

\* On macOS the mouse moves the cursor whenever input is not swallowed, between the
\* calls of set_suppression and unless two of them overlapped: see the findings for
\* what an overlap does.
MouseIsFree ==
  platform = "macos" /\ ~overlapped /\ Idle(Owner) /\ Idle(Hook) => attached = ~SUPPRESSING

\* A key acts on exactly one machine: here, or where it is sent.  It is the hook
\* that decides whether it acts here and the router whether it is sent, later: the
\* two must not have disagreed while the key was on its way.
KeyActsOnce == ~UnderWay /\ ~disturbed => Cardinality(fate) = 1

\* "If the agent deadlocks while the cursor is on another machine, this is what gives
\* the keyboard back without a reboot" (windows.rs:230): whatever the loop that holds
\* the input is stuck in, keyboard and mouse come back, unless two calls of
\* set_suppression overlapped.
Withheld(g) == loop[g] = "running" /\ stuck[g] /\ (SUPPRESSING \/ ~attached)
FailsOpen == \A g \in Loop : Withheld(g) ~> (~Withheld(g) \/ overlapped)

\* A loop that is asked to stop ends and frees the hooks, however the request falls
\* between its timers (sharing.rs:83), unless it is stuck.
StopIsHeard ==
  \A c \in Call, g \in Loop :
    (call[c].at = "wait" /\ call[c].loop = g) ~> (loop[g] \in {"unsink", "finished"} \/ stuck[g])

=============================================================================
