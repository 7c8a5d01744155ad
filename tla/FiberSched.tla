----------------------------- MODULE FiberSched -----------------------------
(***************************************************************************)
(* The cooperative fiber scheduler of one VM (src/src/fiber.c) and the     *)
(* local channels its fibers meet on (src/src/channel.c).                  *)
(*                                                                         *)
(* One C thread runs everything.  The main program calls into the          *)
(* scheduler (join, yield, sleep, a channel operation) and the call, a     *)
(* loop in C, dispatches one ready fiber at a time; a fiber runs until it  *)
(* parks, finishes or fails, and control returns to that loop.  A fiber    *)
(* that cannot send or receive parks on the channel's waiter list; a       *)
(* sleeping one parks on a reactor timer.  Fibers here do not dispatch     *)
(* other fibers themselves: yield, join and timed operations inside a      *)
(* fiber, which nest a second loop on the C stack, are left out.           *)
(*                                                                         *)
(* The program is arbitrary: whoever runs picks its next operation among   *)
(* Ops.  A message is the pair <<sender, number of operations it had       *)
(* left>>, so every message is distinct.                                   *)
(***************************************************************************)
EXTENDS Integers, Sequences, FiniteSets

CONSTANTS
  Fibers,      \* the fibers the program may spawn
  Main,        \* the main program (runtime->current = CH_NIL)
  Channels,
  Rendezvous,  \* the channels made by (make-channel 0)
  Capacity,    \* [Channels -> Nat], 0 is unbounded unless rendezvous
  ReadyMax,    \* CH_FIBER_READY_MAX
  WaiterMax,   \* CH_CHANNEL_WAITER_MAX
  TimerMax,    \* CH_REACTOR_MAX_TIMERS
  SpinMax,     \* CH_FIBER_READY_MAX * 8
  MaxOps,      \* bound: channel operations issued per fiber and by Main
  Ops          \* the operations the program uses

Contexts == Fibers \cup {Main}
Messages == Contexts \X (1 .. MaxOps)
Nothing  == <<>>          \* CH_UNDEFINED, CH_NIL
Eof      == <<"eof">>     \* CH_EOF_OBJ

ASSUME FiberAssumption ==
  /\ Main \notin Fibers
  /\ Rendezvous \subseteq Channels
  /\ Capacity \in [Channels -> Nat]
  /\ ReadyMax \in Nat \ {0} /\ WaiterMax \in Nat \ {0}
  /\ TimerMax \in Nat /\ SpinMax \in Nat /\ MaxOps \in Nat
  /\ Ops \subseteq {"spawn", "send", "recv", "close", "sleep", "terminate",
                    "yield", "join", "timed"}

VARIABLES
  state,        \* fiber->state; "unborn" before spawn
  snapshot,     \* fiber->snapshot.valid
  parkKind,     \* fiber->park_kind
  waitingOn,    \* fiber->waiting_on: a channel or Nothing
  payload,      \* fiber->park_payload, and the argument of Main's send
  ready,        \* the ready ring, oldest first
  current,      \* who runs
  queue,        \* the items of each channel, oldest first
  closed,
  recvWaiters, sendWaiters,
  waking,       \* what is left of the loop in wake_waiter_list
  timers,       \* whose reactor timers are pending
  pc,           \* where Main is in its call
  call,         \* [op, on, timed]: Main's call into the scheduler
  ran,          \* what run_next_ready_fiber returned: 1, 0, -1
  spins,
  outcome,      \* how Main's last call ended
  left,         \* operations left to each context
  delivered     \* history: what the receives of each channel returned

fiberVars == <<state, snapshot, parkKind, waitingOn>>
chanVars  == <<queue, closed, recvWaiters, sendWaiters, delivered>>
mainVars  == <<pc, call, ran, spins, outcome>>
vars == <<fiberVars, payload, ready, current, chanVars, waking, timers,
          mainVars, left>>

Elems(s) == {s[i] : i \in DOMAIN s}

NoCall == [op |-> "none", on |-> Nothing, timed |-> FALSE]
Calls  == {NoCall}
          \cup [op : {"send", "recv"}, on : Channels, timed : BOOLEAN]
          \cup [op : {"join"}, on : Fibers, timed : BOOLEAN]
          \cup [op : {"yield", "sleep"}, on : {Nothing}, timed : {FALSE}]

States   == {"unborn", "READY", "RUNNING", "DONE", "FAILED", "WAITING"}
Outcomes == {"none", "ok", "error", "timeout", "deadlock", "not runnable"}

Init ==
  /\ state       = [f \in Fibers |-> "unborn"]
  /\ snapshot    = [f \in Fibers |-> FALSE]
  /\ parkKind    = [f \in Fibers |-> "NONE"]
  /\ waitingOn   = [f \in Fibers |-> Nothing]
  /\ payload     = [x \in Contexts |-> Nothing]
  /\ ready       = <<>>
  /\ current     = Main
  /\ queue       = [c \in Channels |-> <<>>]
  /\ closed      = [c \in Channels |-> FALSE]
  /\ recvWaiters = [c \in Channels |-> <<>>]
  /\ sendWaiters = [c \in Channels |-> <<>>]
  /\ delivered   = [c \in Channels |-> <<>>]
  /\ waking      = <<>>
  /\ timers      = {}
  /\ pc          = "program"
  /\ call        = NoCall
  /\ ran         = 0
  /\ spins       = 0
  /\ outcome     = "none"
  /\ left        = [x \in Contexts |-> MaxOps]

-----------------------------------------------------------------------------
(* Helpers of the two source files.                                        *)

\* Slip: the ring used as a stack.
EnqueueInFront(q, f) ==
  IF Len(q) < ReadyMax /\ f \notin Elems(q) THEN <<f>> \o q ELSE q

\* enqueue_ready_fiber: a full ring or a fiber already queued changes nothing.
Enqueue(q, f) == IF Len(q) < ReadyMax /\ f \notin Elems(q) THEN Append(q, f) ELSE q

\* Slip: closed is not looked at.
CanSendClosedToo(c) ==
  IF c \in Rendezvous
  THEN recvWaiters[c] # <<>>
  ELSE Capacity[c] = 0 \/ Len(queue[c]) < Capacity[c]

\* channel_can_send
CanSend(c) ==
  /\ ~closed[c]
  /\ IF c \in Rendezvous
     THEN recvWaiters[c] # <<>>
     ELSE Capacity[c] = 0 \/ Len(queue[c]) < Capacity[c]

\* channel_push, then wake_waiter_list on the receivers.
Push(c, m) ==
  /\ queue' = [queue EXCEPT ![c] = Append(@, m)]
  /\ waking' = recvWaiters[c]
  /\ recvWaiters' = [recvWaiters EXCEPT ![c] = <<>>]
  /\ UNCHANGED <<closed, sendWaiters, delivered>>

\* Slip: the pop of a receive does not wake the senders.
PopQuietly(c) ==
  /\ queue' = [queue EXCEPT ![c] = Tail(@)]
  /\ delivered' = [delivered EXCEPT ![c] = Append(@, Head(queue[c]))]
  /\ UNCHANGED <<closed, recvWaiters, sendWaiters, waking>>

\* channel_pop, then wake_waiter_list on the senders.
Pop(c) ==
  /\ queue' = [queue EXCEPT ![c] = Tail(@)]
  /\ delivered' = [delivered EXCEPT ![c] = Append(@, Head(queue[c]))]
  /\ waking' = sendWaiters[c]
  /\ sendWaiters' = [sendWaiters EXCEPT ![c] = <<>>]
  /\ UNCHANGED <<closed, recvWaiters>>

\* A receive on a closed, drained channel returns the eof object.
TakeEof(c) ==
  /\ delivered' = [delivered EXCEPT ![c] = Append(@, Eof)]
  /\ UNCHANGED <<queue, closed, recvWaiters, sendWaiters, waking>>

\* One turn of the loop in wake_waiter_list; nothing else runs meanwhile.
WakeOne ==
  /\ waking # <<>>
  /\ waking' = Tail(waking)
  /\ LET f == Head(waking) IN
     IF state[f] = "WAITING"
     THEN /\ state' = [state EXCEPT ![f] = "READY"]
          /\ ready' = Enqueue(ready, f)
     ELSE UNCHANGED <<state, ready>>
  /\ UNCHANGED <<snapshot, parkKind, waitingOn, payload, current, chanVars,
                 timers, mainVars, left>>

Settled == waking = <<>>

\* x executes Scheme code: Main outside a call, or the running fiber.
Executes(x) == Settled /\ current = x /\ (x = Main => pc = "program")

UseOp(x) == left[x] > 0 /\ left' = [left EXCEPT ![x] = @ - 1]

-----------------------------------------------------------------------------
(* Operations that neither park nor dispatch.                              *)

\* ch_fiber_spawn: a full ring makes the spawn fail, the fiber is garbage.
Spawn(x, f) ==
  /\ "spawn" \in Ops /\ Executes(x)
  /\ state[f] = "unborn"
  /\ Len(ready) < ReadyMax
  /\ state' = [state EXCEPT ![f] = "READY"]
  /\ ready' = Enqueue(ready, f)
  /\ UNCHANGED <<snapshot, parkKind, waitingOn, payload, current, chanVars,
                 waking, timers, mainVars, left>>

\* Slip: the senders' list is emptied, its fibers are not woken.
CloseForgetsSenders(x, c) ==
  /\ "close" \in Ops /\ Executes(x)
  /\ ~closed[c]
  /\ closed' = [closed EXCEPT ![c] = TRUE]
  /\ waking' = recvWaiters[c]
  /\ recvWaiters' = [recvWaiters EXCEPT ![c] = <<>>]
  /\ sendWaiters' = [sendWaiters EXCEPT ![c] = <<>>]
  /\ UNCHANGED <<fiberVars, payload, ready, current, queue, delivered, timers,
                 mainVars, left>>

\* ch_channel_close, idempotent; wakes both lists.
Close(x, c) ==
  /\ "close" \in Ops /\ Executes(x)
  /\ ~closed[c]
  /\ closed' = [closed EXCEPT ![c] = TRUE]
  /\ waking' = recvWaiters[c] \o sendWaiters[c]
  /\ recvWaiters' = [recvWaiters EXCEPT ![c] = <<>>]
  /\ sendWaiters' = [sendWaiters EXCEPT ![c] = <<>>]
  /\ UNCHANGED <<fiberVars, payload, ready, current, queue, delivered, timers,
                 mainVars, left>>

\* ch_thread_terminate on a cooperative fiber: the state changes, the ready
\* ring, the waiter lists, the timers and the snapshot keep the fiber.
Terminate(x, f) ==
  /\ "terminate" \in Ops /\ Executes(x)
  /\ state[f] \in {"READY", "WAITING"}
  /\ state' = [state EXCEPT ![f] = "FAILED"]
  /\ UNCHANGED <<snapshot, parkKind, waitingOn, payload, ready, current,
                 chanVars, waking, timers, mainVars, left>>

-----------------------------------------------------------------------------
(* Operations of a running fiber.                                          *)

\* park_current_fiber, and the return of the run to Main's loop.
Park(f, kind, on) ==
  /\ state' = [state EXCEPT ![f] = "WAITING"]
  /\ snapshot' = [snapshot EXCEPT ![f] = TRUE]
  /\ parkKind' = [parkKind EXCEPT ![f] = kind]
  /\ waitingOn' = [waitingOn EXCEPT ![f] = on]
  /\ current' = Main /\ ran' = 0 /\ pc' = "returned"
  /\ UNCHANGED <<ready, call, spins, outcome>>

\* The fiber goes on with its program.
GoesOn == UNCHANGED <<fiberVars, ready, current, mainVars>>

\* ch_channel_send called by a fiber
FiberSend(f, c) ==
  /\ "send" \in Ops /\ Executes(f) /\ UseOp(f)
  /\ UNCHANGED timers
  /\ LET m == <<f, left[f]>> IN
     \/ /\ CanSend(c)
        /\ Push(c, m)
        /\ GoesOn /\ UNCHANGED payload
     \/ \* parks with the value in park_payload
        /\ ~closed[c] /\ ~CanSend(c)
        /\ Len(sendWaiters[c]) < WaiterMax
        /\ payload' = [payload EXCEPT ![f] = m]
        /\ sendWaiters' = [sendWaiters EXCEPT ![c] = Append(@, f)]
        /\ Park(f, "SEND", c)
        /\ UNCHANGED <<queue, closed, recvWaiters, delivered, waking>>
     \/ \* "send on closed channel", "waiter queue full": raised in the fiber
        /\ closed[c] \/ (~CanSend(c) /\ Len(sendWaiters[c]) >= WaiterMax)
        /\ GoesOn /\ UNCHANGED <<chanVars, payload, waking>>

\* ch_channel_recv called by a fiber
FiberRecv(f, c) ==
  /\ "recv" \in Ops /\ Executes(f) /\ UseOp(f)
  /\ UNCHANGED <<timers, payload>>
  /\ \/ queue[c] # <<>> /\ Pop(c) /\ GoesOn
     \/ queue[c] = <<>> /\ closed[c] /\ TakeEof(c) /\ GoesOn
     \/ /\ queue[c] = <<>> /\ ~closed[c]
        /\ Len(recvWaiters[c]) < WaiterMax
        /\ recvWaiters' = [recvWaiters EXCEPT ![c] = Append(@, f)]
        /\ Park(f, "RECV", c)
        /\ UNCHANGED <<queue, closed, sendWaiters, delivered, waking>>
     \/ \* "waiter queue full"
        /\ queue[c] = <<>> /\ ~closed[c]
        /\ Len(recvWaiters[c]) >= WaiterMax
        /\ GoesOn /\ UNCHANGED <<chanVars, waking>>

\* ch_fiber_sleep called by a fiber; a full timer heap is an error.
FiberSleep(f) ==
  /\ "sleep" \in Ops /\ Executes(f)
  /\ Cardinality(timers) < TimerMax
  /\ timers' = timers \cup {f}
  /\ Park(f, "SLEEP", Nothing)
  /\ UNCHANGED <<payload, chanVars, waking, left>>

\* The thunk returns, or an exception reaches the fiber's base (fiber_mark_failed).
FiberEnd(f) ==
  /\ Executes(f)
  /\ \E s \in {"DONE", "FAILED"} : state' = [state EXCEPT ![f] = s]
  /\ current' = Main /\ ran' = 1 /\ pc' = "returned"
  /\ UNCHANGED <<snapshot, parkKind, waitingOn, payload, ready, chanVars, waking,
                 timers, call, spins, outcome, left>>

-----------------------------------------------------------------------------
(* run_next_ready_fiber and run_fiber_to_park_or_done, called by Main.     *)

\* The fiber leaves the ring and runs, its park forgotten.
Run(f) ==
  /\ state' = [state EXCEPT ![f] = "RUNNING"]
  /\ snapshot' = [snapshot EXCEPT ![f] = FALSE]
  /\ parkKind' = [parkKind EXCEPT ![f] = "NONE"]
  /\ waitingOn' = [waitingOn EXCEPT ![f] = Nothing]
  /\ current' = f /\ pc' = "running" /\ ran' = 0

\* The dispatched fiber cannot complete its operation: it waits again.
Repark(f, room) ==
  /\ state' = [state EXCEPT ![f] = "WAITING"]
  /\ ran' = IF room THEN 0 ELSE -1
  /\ pc' = "returned"
  /\ UNCHANGED <<snapshot, parkKind, waitingOn, current>>

\* A fresh fiber, or one parked on a timer.
ResumePlain(f) ==
  /\ ~snapshot[f] \/ parkKind[f] \notin {"RECV", "SEND"}
  /\ Run(f)
  /\ UNCHANGED <<payload, chanVars, waking>>

\* Slip: closed is tested before the queue, which may still hold messages.
ResumeRecvClosedFirst(f) ==
  /\ snapshot[f] /\ parkKind[f] = "RECV"
  /\ UNCHANGED payload
  /\ LET c == waitingOn[f] IN
     \/ closed[c] /\ TakeEof(c) /\ Run(f)
     \/ queue[c] # <<>> /\ ~closed[c] /\ Pop(c) /\ Run(f)
     \/ /\ queue[c] = <<>> /\ ~closed[c]
        /\ LET room == Len(recvWaiters[c]) < WaiterMax IN
           /\ Repark(f, room)
           /\ recvWaiters' = [recvWaiters EXCEPT ![c] =
                                IF room THEN Append(@, f) ELSE @]
        /\ UNCHANGED <<queue, closed, sendWaiters, delivered, waking>>

ResumeRecv(f) ==
  /\ snapshot[f] /\ parkKind[f] = "RECV"
  /\ UNCHANGED payload
  /\ LET c == waitingOn[f] IN
     \/ queue[c] # <<>> /\ Pop(c) /\ Run(f)
     \/ queue[c] = <<>> /\ closed[c] /\ TakeEof(c) /\ Run(f)
     \/ /\ queue[c] = <<>> /\ ~closed[c]
        /\ LET room == Len(recvWaiters[c]) < WaiterMax IN
           /\ Repark(f, room)
           /\ recvWaiters' = [recvWaiters EXCEPT ![c] =
                                IF room THEN Append(@, f) ELSE @]
        /\ UNCHANGED <<queue, closed, sendWaiters, delivered, waking>>

\* Slip: park_payload is not put back when the sender has to wait again.
ResumeSendLosesPayload(f) ==
  /\ snapshot[f] /\ parkKind[f] = "SEND"
  /\ payload' = [payload EXCEPT ![f] = Nothing]
  /\ LET c == waitingOn[f] IN
     \/ closed[c] /\ Run(f) /\ UNCHANGED <<chanVars, waking>>
     \/ CanSend(c) /\ Push(c, payload[f]) /\ Run(f)
     \/ /\ ~closed[c] /\ ~CanSend(c)
        /\ LET room == Len(sendWaiters[c]) < WaiterMax IN
           /\ Repark(f, room)
           /\ sendWaiters' = [sendWaiters EXCEPT ![c] =
                                IF room THEN Append(@, f) ELSE @]
        /\ UNCHANGED <<queue, closed, recvWaiters, delivered, waking>>

ResumeSend(f) ==
  /\ snapshot[f] /\ parkKind[f] = "SEND"
  /\ LET c == waitingOn[f] IN
     \/ \* resumes by raising "send on closed channel"
        /\ closed[c]
        /\ payload' = [payload EXCEPT ![f] = Nothing]
        /\ Run(f) /\ UNCHANGED <<chanVars, waking>>
     \/ /\ CanSend(c)
        /\ Push(c, payload[f])
        /\ payload' = [payload EXCEPT ![f] = Nothing]
        /\ Run(f)
     \/ /\ ~closed[c] /\ ~CanSend(c)
        /\ LET room == Len(sendWaiters[c]) < WaiterMax IN
           /\ Repark(f, room)
           /\ sendWaiters' = [sendWaiters EXCEPT ![c] =
                                IF room THEN Append(@, f) ELSE @]
        /\ UNCHANGED <<payload, queue, closed, recvWaiters, delivered, waking>>

MainDispatch ==
  /\ Settled /\ current = Main /\ pc = "dispatch"
  /\ \/ /\ ready = <<>>
        /\ ran' = 0 /\ pc' = "returned"
        /\ UNCHANGED <<fiberVars, payload, ready, current, chanVars, waking>>
     \/ /\ ready # <<>>
        /\ ready' = Tail(ready)
        /\ LET f == Head(ready) IN
           \/ \* a terminated fiber that never ran is dropped
              /\ state[f] # "READY" /\ ~snapshot[f]
              /\ ran' = 0 /\ pc' = "returned"
              /\ UNCHANGED <<fiberVars, payload, current, chanVars, waking>>
           \/ /\ state[f] = "READY" \/ snapshot[f]
              /\ ResumePlain(f) \/ ResumeRecv(f) \/ ResumeSend(f)
  /\ UNCHANGED <<timers, call, spins, outcome, left>>

-----------------------------------------------------------------------------
(* Main's calls into the scheduler.                                        *)

MainUnchanged == UNCHANGED <<fiberVars, ready, current>>

\* A call starts at the test of its loop; yield has none.
MainCall(k) ==
  /\ Executes(Main)
  /\ k.op \in Ops /\ (k.timed => "timed" \in Ops)
  /\ k.op = "join" => state[k.on] # "unborn"
  /\ k.op = "sleep" => Cardinality(timers \ {Main}) < TimerMax
  /\ call' = k
  /\ pc' = IF k.op = "yield" THEN "poll" ELSE "test"
  /\ outcome' = "none" /\ spins' = 0
  /\ timers' = IF k.op = "sleep" THEN timers \cup {Main} ELSE timers
  /\ IF k.op = "send" THEN payload' = [payload EXCEPT ![Main] = <<Main, left[Main]>>]
                      ELSE UNCHANGED payload
  /\ IF k.op \in {"send", "recv"} THEN UseOp(Main) ELSE UNCHANGED left
  /\ MainUnchanged /\ UNCHANGED <<chanVars, waking, ran>>

\* The call returns to the program.
Return(how) ==
  /\ outcome' = how
  /\ pc' = "program" /\ call' = NoCall /\ ran' = 0 /\ spins' = 0
  /\ payload' = [payload EXCEPT ![Main] = Nothing]
  /\ MainUnchanged /\ UNCHANGED <<timers, left>>

AtTest(op) == Settled /\ pc = "test" /\ call.op = op

\* The loop goes round: a timed call polls before it blocks as well.
Again(where) ==
  /\ pc' = where
  /\ MainUnchanged
  /\ UNCHANGED <<payload, chanVars, waking, timers, call, ran, spins, outcome, left>>

MainSend ==
  /\ AtTest("send")
  /\ LET c == call.on IN
     \/ closed[c] /\ Return("error") /\ UNCHANGED <<chanVars, waking>>
     \/ CanSend(c) /\ Push(c, payload[Main]) /\ Return("ok")
     \/ ~closed[c] /\ ~CanSend(c) /\ Again("poll")

MainRecv ==
  /\ AtTest("recv")
  /\ LET c == call.on IN
     \/ queue[c] # <<>> /\ Pop(c) /\ Return("ok")
     \/ queue[c] = <<>> /\ closed[c] /\ TakeEof(c) /\ Return("ok")
     \/ queue[c] = <<>> /\ ~closed[c] /\ Again("poll")

MainJoin ==
  /\ AtTest("join")
  /\ LET f == call.on IN
     \/ state[f] = "DONE" /\ Return("ok") /\ UNCHANGED <<chanVars, waking>>
     \/ state[f] = "FAILED" /\ Return("error") /\ UNCHANGED <<chanVars, waking>>
     \/ state[f] \notin {"DONE", "FAILED"} /\ Again("poll")

\* ch_fiber_sleep outside a fiber: its own timer is gone, or it blocks.
MainSleep ==
  /\ AtTest("sleep")
  /\ \/ Main \notin timers /\ Return("ok") /\ UNCHANGED <<chanVars, waking>>
     \/ Main \in timers /\ Again("block")

\* timeout_expired_ms holds: any time after the loop's own test has failed.
MainTimeout ==
  /\ Settled /\ pc = "poll" /\ call.timed
  /\ Return("timeout")
  /\ UNCHANGED <<chanVars, waking>>

\* poll_reactor_wake pops timer t, and wakes the fiber it belongs to.
Fire(t) ==
  /\ timers' = timers \ {t}
  /\ IF t \in Fibers /\ state[t] = "WAITING"
     THEN /\ state' = [state EXCEPT ![t] = "READY"]
          /\ ready' = Enqueue(ready, t)
     ELSE UNCHANGED <<state, ready>>
  /\ UNCHANGED <<snapshot, parkKind, waitingOn>>

NoFire == UNCHANGED <<fiberVars, ready, timers>>

\* poll_reactor_wake(vm, 0): at most one timer that is due.
MainPoll ==
  /\ Settled /\ pc = "poll"
  /\ NoFire \/ \E t \in timers : Fire(t)
  /\ pc' = IF ready' = <<>> /\ (call.op = "join" \/ call.timed)
           THEN "block" ELSE "dispatch"
  /\ UNCHANGED <<payload, current, chanVars, waking, call, ran, spins, outcome, left>>

\* Slip: the verdict looks at the ready ring and not at the timers.
MainBlockIgnoresTimers ==
  /\ Settled /\ pc = "block"
  /\ \/ /\ call.op = "join" /\ ~call.timed
        /\ Return("deadlock")
        /\ UNCHANGED <<chanVars, waking>>
     \/ /\ \/ \E t \in timers : Fire(t)
           \/ (call.timed \/ call.op = "sleep") /\ NoFire
        /\ pc' = IF ready' # <<>> /\ (call.timed \/ (call.op = "sleep" /\ Main \in timers'))
                 THEN "dispatch" ELSE "test"
        /\ UNCHANGED <<payload, current, chanVars, waking, call, ran, spins,
                       outcome, left>>

\* The blocking poll.  It ends with the next timer; a timed call also at its
\* deadline, and a sleep's may end early (its wait is rounded down), which for
\* a join only means the same poll again.  ch_fiber_join gives up when no
\* timer is left.
MainBlock ==
  /\ Settled /\ pc = "block"
  /\ \/ /\ call.op = "join" /\ ~call.timed /\ timers = {}
        /\ Return("deadlock")
        /\ UNCHANGED <<chanVars, waking>>
     \/ /\ \/ \E t \in timers : Fire(t)
           \/ (call.timed \/ call.op = "sleep") /\ NoFire
        /\ pc' = IF ready' # <<>> /\ (call.timed \/ (call.op = "sleep" /\ Main \in timers'))
                 THEN "dispatch" ELSE "test"
        /\ UNCHANGED <<payload, current, chanVars, waking, call, ran, spins,
                       outcome, left>>

\* What each loop does with the value of run_next_ready_fiber.
MainReturned ==
  /\ Settled /\ current = Main /\ pc = "returned"
  /\ UNCHANGED <<chanVars, waking>>
  /\ \/ ran = -1 /\ Return("error")
     \/ ran # -1 /\ call.op = "yield" /\ Return("ok")
     \/ ran # -1 /\ (call.timed \/ (call.op = "join" /\ (ran = 1 \/ ready # <<>>)))
        /\ Again("test")
     \/ ran = 0 /\ ready = <<>> /\ call.op = "join" /\ ~call.timed /\ Again("block")
     \/ \* the inner loop of ch_fiber_sleep stops at the first fiber that parks
        /\ ran # -1 /\ call.op = "sleep"
        /\ Again(IF ran = 1 /\ ready # <<>> THEN "dispatch" ELSE "test")
     \/ /\ call.op \in {"send", "recv"} /\ ~call.timed
        /\ \/ ran = 0 /\ Return("not runnable")
           \/ ran = 1 /\ spins >= SpinMax /\ Return("error")
           \/ /\ ran = 1 /\ spins < SpinMax
              /\ spins' = spins + 1
              /\ pc' = "test"
              /\ MainUnchanged
              /\ UNCHANGED <<payload, timers, call, ran, outcome, left>>

-----------------------------------------------------------------------------
FiberStep(f) ==
  \/ \E c \in Channels : FiberSend(f, c) \/ FiberRecv(f, c)
  \/ FiberSleep(f)
  \/ FiberEnd(f)

AnyStep(x) ==
  \/ \E f \in Fibers : Spawn(x, f) \/ Terminate(x, f)
  \/ \E c \in Channels : Close(x, c)

MainStep ==
  \/ \E k \in Calls : MainCall(k)
  \/ MainSend \/ MainRecv \/ MainJoin \/ MainSleep \/ MainTimeout
  \/ MainPoll \/ MainBlock \/ MainDispatch \/ MainReturned

Next ==
  \/ WakeOne
  \/ MainStep
  \/ \E f \in Fibers : FiberStep(f)
  \/ \E x \in Contexts : AnyStep(x)

Spec == Init /\ [][Next]_vars

-----------------------------------------------------------------------------
(* Properties.                                                             *)

TypeOK ==
  /\ state \in [Fibers -> States]
  /\ snapshot \in [Fibers -> BOOLEAN]
  /\ parkKind \in [Fibers -> {"NONE", "RECV", "SEND", "SLEEP"}]
  /\ waitingOn \in [Fibers -> Channels \cup {Nothing}]
  /\ payload \in [Contexts -> Messages \cup {Nothing}]
  /\ ready \in Seq(Fibers) /\ waking \in Seq(Fibers)
  /\ current \in Contexts
  /\ queue \in [Channels -> Seq(Messages)]
  /\ delivered \in [Channels -> Seq(Messages \cup {Eof})]
  /\ closed \in [Channels -> BOOLEAN]
  /\ recvWaiters \in [Channels -> Seq(Fibers)]
  /\ sendWaiters \in [Channels -> Seq(Fibers)]
  /\ timers \subseteq Contexts
  /\ pc \in {"program", "test", "poll", "block", "dispatch", "running", "returned"}
  /\ call \in Calls
  /\ ran \in {-1, 0, 1} /\ spins \in Nat
  /\ outcome \in Outcomes
  /\ left \in [Contexts -> 0 .. MaxOps]

\* What a resume finds: a fiber parked on a channel knows the channel, and
\* whoever is in the middle of a send still has the message it sends, however
\* often it was woken in vain (park_payload is cleared and put back).
PendingSendsCarryMessages ==
  /\ \A f \in Fibers : parkKind[f] \in {"RECV", "SEND"} => waitingOn[f] \in Channels
  /\ \A f \in Fibers : parkKind[f] = "SEND" => payload[f] \in Messages
  /\ call.op = "send" => payload[Main] \in Messages

\* No waiter of a channel sleeps through what it waits for: while a fiber is
\* listed as a receiver the channel is empty and open, and while one is
\* listed as a sender the (buffered) channel is full and open.  Every push,
\* pop and close must have woken the whole list (wake_waiter_list).
NoStrandedWaiter ==
  \A c \in Channels :
    /\ recvWaiters[c] # <<>> => queue[c] = <<>> /\ ~closed[c]
    /\ sendWaiters[c] # <<>> =>
         /\ ~closed[c]
         /\ c \notin Rendezvous => Capacity[c] # 0 /\ Len(queue[c]) >= Capacity[c]

Occurrences(f, s) == Cardinality({i \in DOMAIN s : s[i] = f})

\* Where a waiting fiber will be woken from.
WakeSources(f) ==
  Occurrences(f, waking)
  + Cardinality({c \in Channels : f \in Elems(recvWaiters[c])})
  + Cardinality({c \in Channels : f \in Elems(sendWaiters[c])})
  + Cardinality(timers \cap {f})

\* A fiber that waits is known to exactly one wake source, the one it parked
\* on, and is never queued to run meanwhile; a fiber that is READY is queued,
\* once; the finished are in no list unless they were terminated there.
EveryWaiterHasOneWaker ==
  /\ \A f \in Fibers :
       /\ state[f] = "WAITING" => WakeSources(f) = 1 /\ f \notin Elems(ready)
       /\ state[f] = "READY" => Occurrences(f, ready) = 1 /\ WakeSources(f) = 0
       /\ state[f] = "DONE" => Occurrences(f, ready) + WakeSources(f) = 0
  /\ \A c \in Channels :
       /\ \A f \in Elems(recvWaiters[c]) : parkKind[f] = "RECV" /\ waitingOn[f] = c
       /\ \A f \in Elems(sendWaiters[c]) : parkKind[f] = "SEND" /\ waitingOn[f] = c

\* f is parked on an operation that could complete if it were resumed now.
CouldComplete(f) ==
  LET c == waitingOn[f] IN
  \/ parkKind[f] = "RECV" /\ (queue[c] # <<>> \/ closed[c])
  \/ parkKind[f] = "SEND" /\ (closed[c] \/ CanSend(c))

\* "deadlock detected" is only said when it is one: nobody is ready, nobody
\* sleeps, and no parked fiber's operation could complete (ch_fiber_join).
DeadlockVerdictSound ==
  [][outcome # "deadlock" /\ outcome' = "deadlock" =>
       \A f \in Fibers :
         /\ state[f] \notin {"READY", "RUNNING"} /\ f \notin timers
         /\ state[f] = "WAITING" => ~CouldComplete(f)]_vars

\* The eof object ends the stream: no receive returns a message after one
\* has returned eof (channel.c, the closed branches).
EofIsFinal ==
  \A c \in Channels : \A i, j \in DOMAIN delivered[c] :
    i < j /\ delivered[c][i] = Eof => delivered[c][j] = Eof

\* The channels implement ChannelSpec.  A parked sender's payload and the
\* argument of Main's pending send are the offers.
ChannelBound(c) == IF c \in Rendezvous THEN 1 ELSE Capacity[c]
Offered ==
  {<<waitingOn[f], payload[f]>> : f \in {g \in Fibers : parkKind[g] = "SEND"}}
  \cup IF call.op = "send" THEN {<<call.on, payload[Main]>>} ELSE {}

Chan == INSTANCE ChannelSpec WITH
          offered <- Offered, Bound <- ChannelBound,
          Impatient <- {m \in Messages : m[1] = Main}
ImplementsChannel == Chan!Spec

\* thread-terminate! apart, a fiber that finished stays finished.
FinishedIsFinal ==
  [][\A f \in Fibers : state[f] \in {"DONE", "FAILED"} => state'[f] = state[f]]_vars

\* One thread runs everything, so it always takes its next step.
LiveSpec == Spec /\ WF_vars(Next)

\* While Main is in fiber-join, every fiber that is ready gets to run: the
\* ready ring is first in, first out, and the timers of others cannot starve it.
ReadyFibersRun ==
  \A f \in Fibers :
    (state[f] = "READY" /\ call.op = "join") ~> (state[f] # "READY" \/ call.op # "join")
=============================================================================
