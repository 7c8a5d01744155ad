---------------------------- MODULE SharedChannel ----------------------------
(***************************************************************************)
(* Channels shared by OS threads (src/src/shared_channel.c), the calls     *)
(* that wait on them (channel_send_shared and its siblings in              *)
(* src/src/channel.c) and the notifiers that wake a thread's reactor       *)
(* (src/src/reactor.c).                                                    *)
(*                                                                         *)
(* A thread calls send, receive or close.  The fields of a channel change  *)
(* only under its lock, so each critical section is one action; what a     *)
(* call does between two of them (copying the payload, ringing notifiers,  *)
(* polling its reactor, waiting on a condition variable) is a step of its  *)
(* own.  A call waits in one of three modes:                               *)
(*   "block"  no fiber is current: pthread_cond_timedwait of a millisecond *)
(*   "fiber"  a fiber's untimed call: bounded reactor polls                *)
(*   "timed"  a call with a timeout: run_scheduler_step_until              *)
(* The last two drive the scheduler: they register the notifier of the     *)
(* thread's reactor with the channel and run sibling fibers between two    *)
(* tries.  What a sibling does is not modelled, only that it ran.          *)
(***************************************************************************)
EXTENDS Integers, Sequences, FiniteSets

CONSTANTS
  Threads,
  Channels,
  Rendezvous,  \* sc->rendezvous, with capacity 0
  Capacity,    \* [Channels -> Nat], 0 is unbounded unless rendezvous
  WaiterMax,   \* CH_SHARED_CHANNEL_WAITER_MAX
  IdleMax,     \* CH_SHARED_CHANNEL_MAX_IDLE_POLLS
  Captures,    \* whose heaps have stubs at first: the choices, each of them
               \* in [Channels -> SUBSET Threads]
  Modes,       \* [Threads -> SUBSET WaitModes]: how each thread's calls wait
  Uncopyable,  \* the messages ch_envelope_create fails for
  MaxCalls     \* bound: [Threads -> Nat], the calls each thread makes

WaitModes == {"block", "fiber", "timed"}
Messages  == UNION {{t} \X (1 .. MaxCalls[t]) : t \in Threads}
Eof       == <<"eof">>
NoCall    == [op |-> "none"]
Calls     == [op : {"send", "recv", "close"}, mode : WaitModes, on : Channels,
              msg : Messages]

ASSUME SharedAssumption ==
  /\ IsFiniteSet(Threads)
  /\ Rendezvous \subseteq Channels
  /\ Capacity \in [Channels -> Nat]
  /\ \A c \in Rendezvous : Capacity[c] = 0
  /\ WaiterMax \in Nat \ {0} /\ IdleMax \in Nat
  /\ Captures \subseteq [Channels -> SUBSET Threads]
  /\ MaxCalls \in [Threads -> Nat]
  /\ Modes \in [Threads -> SUBSET WaitModes]
  /\ Uncopyable \subseteq Messages

VARIABLES
  queue, closed,       \* sc->items, oldest first, and sc->closed
  rvDemand,            \* sc->rv_demand
  sendRing, recvRing,  \* sc->send_waiters, sc->recv_waiters: notifiers, named by
                       \* their threads
  stubs,               \* the threads whose heap has a stub; sc->refcount is their number
  pc, call,
  holding,             \* the threads whose holding_rv is set
  ringing,             \* ring_buf: what sc_ring_waiters has still to ring
  idle,                \* idle rounds of the call
  left,                \* calls the thread may still make
  notified,            \* the notifiers whose eventfd is readable
  alive,               \* notifier->alive
  refs,                \* notifier->refcount
  delivered            \* history: what was taken from each channel, in order

chanVars   == <<queue, closed, rvDemand, delivered>>
ringVars   == <<sendRing, recvRing, stubs>>
threadVars == <<pc, call, holding, ringing, idle, left>>
notifyVars == <<notified, alive, refs>>
vars       == <<chanVars, ringVars, threadVars, notifyVars>>

Elems(s) == {s[i] : i \in DOMAIN s}
Times(x, s) == Cardinality({i \in DOMAIN s : s[i] = x})

Init ==
  /\ queue = [c \in Channels |-> <<>>]
  /\ closed = [c \in Channels |-> FALSE]
  /\ rvDemand = [c \in Channels |-> 0]
  /\ sendRing = [c \in Channels |-> <<>>]
  /\ recvRing = [c \in Channels |-> <<>>]
  /\ stubs \in Captures
  /\ pc = [t \in Threads |-> "idle"]
  /\ call = [t \in Threads |-> NoCall]
  /\ holding = {}
  /\ ringing = [t \in Threads |-> <<>>]
  /\ idle = [t \in Threads |-> 0]
  /\ left = MaxCalls
  /\ notified = {}
  /\ alive = Threads
  /\ refs = [t \in Threads |-> 1]
  /\ delivered = [c \in Channels |-> <<>>]

-----------------------------------------------------------------------------
(* Helpers                                                                 *)

Goto(t, l) == pc' = [pc EXCEPT ![t] = l]
On(t)      == call[t].on
Sends(t)   == call[t].op = "send"
Recvs(t)   == call[t].op = "recv"
Drives(t)  == call[t].op \in {"send", "recv"} /\ call[t].mode # "block"

CanSend(c) ==
  /\ ~closed[c]
  /\ \/ Capacity[c] = 0 /\ c \notin Rendezvous
     \/ Len(queue[c]) < IF c \in Rendezvous THEN rvDemand[c] ELSE Capacity[c]

\* One entry per notifier; a full list drops the registration.
Registers(t, ring) ==
  Drives(t) /\ t \notin Elems(ring) /\ Len(ring) < WaiterMax

Registered(t, ring) == IF Registers(t, ring) THEN Append(ring, t) ELSE ring
RefsWith(t, ring) ==
  IF Registers(t, ring) THEN [refs EXCEPT ![t] = @ + 1] ELSE refs

\* The call did not go through: register the notifier, then wait.
WouldBlockSend(t) ==
  /\ sendRing' = [sendRing EXCEPT ![On(t)] = Registered(t, @)]
  /\ refs' = RefsWith(t, sendRing[On(t)])
  /\ Goto(t, IF Drives(t) THEN "poll" ELSE "lock")
  /\ UNCHANGED <<chanVars, recvRing, stubs, call, holding, ringing, idle, left,
                 notified, alive>>

WouldBlockRecv(t) ==
  /\ recvRing' = [recvRing EXCEPT ![On(t)] = Registered(t, @)]
  /\ refs' = RefsWith(t, recvRing[On(t)])
  /\ Goto(t, IF Drives(t) THEN "poll" ELSE "lock")
  /\ UNCHANGED <<chanVars, sendRing, stubs, call, holding, ringing, idle, left,
                 notified, alive>>

\* A step of t that only moves on.
Jump(t, l) ==
  /\ Goto(t, l)
  /\ UNCHANGED <<chanVars, ringVars, call, holding, ringing, idle, left,
                 notifyVars>>

-----------------------------------------------------------------------------
(* The program calls.  A driving call takes a handle on its own notifier.  *)

Call(t, op, mode, c) ==
  /\ pc[t] = "idle" /\ left[t] > 0 /\ t \in stubs[c]
  /\ call' = [call EXCEPT ![t] =
                [op |-> op, mode |-> mode, on |-> c, msg |-> <<t, left[t]>>]]
  /\ left' = [left EXCEPT ![t] = @ - 1]
  /\ idle' = [idle EXCEPT ![t] = 0]
  /\ refs' = IF mode = "block" THEN refs ELSE [refs EXCEPT ![t] = @ + 1]
  /\ Goto(t, "try")
  /\ UNCHANGED <<chanVars, ringVars, holding, ringing, notified, alive>>

Close(t, c) ==
  /\ pc[t] = "idle" /\ left[t] > 0 /\ t \in stubs[c]
  /\ call' = [call EXCEPT ![t] =
                [op |-> "close", mode |-> "block", on |-> c, msg |-> <<t, left[t]>>]]
  /\ left' = [left EXCEPT ![t] = @ - 1]
  /\ closed' = [closed EXCEPT ![c] = TRUE]
  /\ ringing' = [ringing EXCEPT ![t] = sendRing[c] \o recvRing[c]]
  /\ sendRing' = [sendRing EXCEPT ![c] = <<>>]
  /\ recvRing' = [recvRing EXCEPT ![c] = <<>>]
  /\ Goto(t, "ring")
  /\ UNCHANGED <<queue, rvDemand, delivered, stubs, holding, idle, notifyVars>>

-----------------------------------------------------------------------------
(* ch_shared_channel_try_send: check, copy without the lock, check again.  *)

TrySend(t) ==
  /\ pc[t] = "try" /\ Sends(t)
  /\ \/ closed[On(t)] /\ Jump(t, "return")
     \/ ~closed[On(t)] /\ ~CanSend(On(t)) /\ WouldBlockSend(t)
     \/ CanSend(On(t)) /\ Jump(t, "copy")

CopyIn(t) ==
  /\ pc[t] = "copy"
  /\ Jump(t, IF call[t].msg \in Uncopyable THEN "return" ELSE "push")

\* Slip: the channel is not looked at again after the copy.
PushBlindly(t) ==
  LET c == On(t) IN
  /\ pc[t] = "push"
  /\ queue' = [queue EXCEPT ![c] = Append(@, call[t].msg)]
  /\ rvDemand' = [rvDemand EXCEPT ![c] =
                    IF c \in Rendezvous /\ @ > 0 THEN @ - 1 ELSE @]
  /\ ringing' = [ringing EXCEPT ![t] = recvRing[c]]
  /\ recvRing' = [recvRing EXCEPT ![c] = <<>>]
  /\ Goto(t, "ring")
  /\ UNCHANGED <<closed, delivered, sendRing, stubs, call, holding, idle, left,
                 notifyVars>>

\* Slip: the demand that admitted the message is not used up.
PushKeepsDemand(t) ==
  LET c == On(t) IN
  /\ pc[t] = "push" /\ CanSend(c)
  /\ queue' = [queue EXCEPT ![c] = Append(@, call[t].msg)]
  /\ ringing' = [ringing EXCEPT ![t] = recvRing[c]]
  /\ recvRing' = [recvRing EXCEPT ![c] = <<>>]
  /\ Goto(t, "ring")
  /\ UNCHANGED <<closed, rvDemand, delivered, sendRing, stubs, call, holding, idle, left,
                 notifyVars>>

\* Slip: the senders are rung instead of the receivers.
PushRingsSenders(t) ==
  LET c == On(t) IN
  /\ pc[t] = "push" /\ CanSend(c)
  /\ queue' = [queue EXCEPT ![c] = Append(@, call[t].msg)]
  /\ rvDemand' = [rvDemand EXCEPT ![c] =
                    IF c \in Rendezvous /\ @ > 0 THEN @ - 1 ELSE @]
  /\ ringing' = [ringing EXCEPT ![t] = sendRing[c]]
  /\ sendRing' = [sendRing EXCEPT ![c] = <<>>]
  /\ Goto(t, "ring")
  /\ UNCHANGED <<closed, delivered, recvRing, stubs, call, holding, idle, left,
                 notifyVars>>

PushMessage(t) ==
  LET c == On(t) IN
  /\ pc[t] = "push" /\ CanSend(c)
  /\ queue' = [queue EXCEPT ![c] = Append(@, call[t].msg)]
  /\ rvDemand' = [rvDemand EXCEPT ![c] =
                    IF c \in Rendezvous /\ @ > 0 THEN @ - 1 ELSE @]
  /\ ringing' = [ringing EXCEPT ![t] = recvRing[c]]
  /\ recvRing' = [recvRing EXCEPT ![c] = <<>>]
  /\ Goto(t, "ring")
  /\ UNCHANGED <<closed, delivered, sendRing, stubs, call, holding, idle, left,
                 notifyVars>>

\* The channel was closed, or filled, during the copy: the envelope is dropped.
PushTooLate(t) ==
  /\ pc[t] = "push" /\ ~CanSend(On(t))
  /\ IF closed[On(t)] THEN Jump(t, "return") ELSE WouldBlockSend(t)

-----------------------------------------------------------------------------
(* ch_shared_channel_try_recv                                              *)

\* Where a receive goes once it has its answer.
Answered(t) == IF t \in holding THEN "release" ELSE "return"

TakeEof(t, l) ==
  /\ delivered' = [delivered EXCEPT ![On(t)] = Append(@, Eof)]
  /\ Goto(t, l)
  /\ UNCHANGED <<queue, closed, rvDemand, ringVars, call, holding, ringing, idle,
                 left, notifyVars>>

\* Slip: closed is not looked at.
TryRecvNeverEof(t) ==
  pc[t] = "try" /\ Recvs(t) /\ queue[On(t)] = <<>> /\ WouldBlockRecv(t)

TryRecvEmpty(t) ==
  /\ pc[t] = "try" /\ Recvs(t) /\ queue[On(t)] = <<>>
  /\ IF closed[On(t)] THEN TakeEof(t, Answered(t)) ELSE WouldBlockRecv(t)

PopMessage(t) ==
  LET c == On(t) IN
  /\ pc[t] = "try" /\ Recvs(t) /\ queue[c] # <<>>
  /\ queue' = [queue EXCEPT ![c] = Tail(@)]
  /\ delivered' = [delivered EXCEPT ![c] = Append(@, Head(queue[c]))]
  /\ ringing' = [ringing EXCEPT ![t] = sendRing[c]]
  /\ sendRing' = [sendRing EXCEPT ![c] = <<>>]
  /\ Goto(t, "ring")
  /\ UNCHANGED <<closed, rvDemand, recvRing, stubs, call, holding, idle, left,
                 notifyVars>>

\* Slip: the notifier of a thread that ended is skipped, not released.
RingSkipsEnded(t) ==
  LET n == Head(ringing[t]) IN
  /\ pc[t] = "ring" /\ ringing[t] # <<>>
  /\ ringing' = [ringing EXCEPT ![t] = Tail(@)]
  /\ notified' = IF n \in alive THEN notified \cup {n} ELSE notified
  /\ refs' = IF n \in alive THEN [refs EXCEPT ![n] = @ - 1] ELSE refs
  /\ UNCHANGED <<chanVars, ringVars, pc, call, holding, idle, left, alive>>

\* sc_ring_waiters, one notifier at a time: notify, then release.
Ring(t) ==
  LET n == Head(ringing[t]) IN
  /\ pc[t] = "ring" /\ ringing[t] # <<>>
  /\ ringing' = [ringing EXCEPT ![t] = Tail(@)]
  /\ notified' = IF n \in alive THEN notified \cup {n} ELSE notified
  /\ refs' = [refs EXCEPT ![n] = @ - 1]
  /\ UNCHANGED <<chanVars, ringVars, pc, call, holding, idle, left, alive>>

RingDone(t) ==
  /\ pc[t] = "ring" /\ ringing[t] = <<>>
  /\ Jump(t, Answered(t))

\* Slip: a demand that a sender has already used up is taken back again.
ReleaseUnchecked(t) ==
  /\ pc[t] = "release"
  /\ rvDemand' = [rvDemand EXCEPT ![On(t)] = @ - 1]
  /\ holding' = holding \ {t}
  /\ Goto(t, "return")
  /\ UNCHANGED <<queue, closed, delivered, ringVars, call, ringing, idle, left,
                 notifyVars>>

\* A blocking receive that committed takes its demand back.
ReleaseDemand(t) ==
  /\ pc[t] = "release"
  /\ rvDemand' = [rvDemand EXCEPT ![On(t)] = IF @ > 0 THEN @ - 1 ELSE @]
  /\ holding' = holding \ {t}
  /\ Goto(t, "return")
  /\ UNCHANGED <<queue, closed, delivered, ringVars, call, ringing, idle, left,
                 notifyVars>>

Return(t) ==
  /\ pc[t] = "return"
  /\ refs' = IF Drives(t) THEN [refs EXCEPT ![t] = @ - 1] ELSE refs
  /\ call' = [call EXCEPT ![t] = NoCall]
  /\ holding' = holding \ {t}
  /\ Goto(t, "idle")
  /\ UNCHANGED <<chanVars, ringVars, ringing, idle, left, notified, alive>>

-----------------------------------------------------------------------------
(* Waiting without a scheduler: lock, look again, wait on the condition.   *)

SendLock(t) ==
  /\ pc[t] = "lock" /\ Sends(t)
  /\ Jump(t, IF closed[On(t)] THEN "return" ELSE "wait")

RecvLockAgain(t) ==
  /\ pc[t] = "lock" /\ Recvs(t)
  /\ \/ queue[On(t)] # <<>> /\ Jump(t, "try")
     \/ queue[On(t)] = <<>> /\ closed[On(t)] /\ TakeEof(t, "return")

\* A receiver on a rendezvous channel commits to wait, once.
RecvCommit(t) ==
  LET c == On(t)
      commits == c \in Rendezvous /\ t \notin holding
  IN /\ pc[t] = "lock" /\ Recvs(t) /\ queue[c] = <<>> /\ ~closed[c]
     /\ rvDemand' = [rvDemand EXCEPT ![c] = IF commits THEN @ + 1 ELSE @]
     /\ holding' = IF commits THEN holding \cup {t} ELSE holding
     /\ Goto(t, "wait")
     /\ UNCHANGED <<queue, closed, delivered, ringVars, call, ringing, idle, left,
                    notifyVars>>

\* A broadcast, a spurious wakeup or the millisecond: the call cannot tell.
CondWaitEnds(t) ==
  /\ pc[t] = "wait"
  /\ Jump(t, "try")

-----------------------------------------------------------------------------
(* Waiting with a scheduler.  A poll drains the thread's own notifier      *)
(* unless it returned a timer or another descriptor first.                 *)

Polled(t, l, n) ==
  /\ notified' \in {notified, notified \ {t}}
  /\ idle' = [idle EXCEPT ![t] = n]
  /\ Goto(t, l)
  /\ UNCHANGED <<chanVars, ringVars, call, holding, ringing, left, alive, refs>>

\* The poll that does not wait, then one sibling if any is ready.
PollNow(t) ==
  /\ pc[t] = "poll"
  /\ \/ Polled(t, "try", 0)             \* a sibling ran
     \/ Polled(t, "return", idle[t])    \* a sibling failed: so does the call
     \/ Polled(t, "sleep", idle[t])     \* nobody ran

TimedOut(t) ==
  /\ pc[t] = "poll" /\ call[t].mode = "timed"
  /\ Jump(t, "return")

\* The poll that waits ends at the latest with its timeout.
PollWaits(t) ==
  /\ pc[t] = "sleep"
  /\ \/ call[t].mode = "fiber" /\ idle[t] < IdleMax /\ Polled(t, "try", idle[t] + 1)
     \/ call[t].mode = "fiber" /\ idle[t] = IdleMax /\ Polled(t, "return", idle[t])
     \/ call[t].mode = "timed" /\ Polled(t, "try", idle[t])

-----------------------------------------------------------------------------
(* A thread ends: its reactor goes first, its heap and the stubs in it     *)
(* later.  A stub can also go earlier, when the collector finds it dead.   *)
(* A thread with calls left keeps both.                                    *)

EndReactor(t) ==
  /\ pc[t] = "idle" /\ left[t] = 0
  /\ alive' = alive \ {t}
  /\ refs' = [refs EXCEPT ![t] = @ - 1]
  /\ Goto(t, "ending")
  /\ UNCHANGED <<chanVars, ringVars, call, holding, ringing, idle, left, notified>>

\* The last stub destroys the channel, which releases what is registered.
DropStub(t, c) ==
  /\ pc[t] \in {"idle", "ending"} /\ left[t] = 0 /\ t \in stubs[c]
  /\ stubs' = [stubs EXCEPT ![c] = @ \ {t}]
  /\ IF stubs[c] = {t}
     THEN /\ refs' = [n \in Threads |->
                        refs[n] - Times(n, sendRing[c]) - Times(n, recvRing[c])]
          /\ sendRing' = [sendRing EXCEPT ![c] = <<>>]
          /\ recvRing' = [recvRing EXCEPT ![c] = <<>>]
     ELSE UNCHANGED <<refs, sendRing, recvRing>>
  /\ UNCHANGED <<chanVars, threadVars, notified, alive>>

-----------------------------------------------------------------------------

\* What a thread does inside a call.
Step(t) ==
  \/ TrySend(t) \/ CopyIn(t) \/ PushMessage(t) \/ PushTooLate(t)
  \/ TryRecvEmpty(t) \/ PopMessage(t) \/ Ring(t) \/ RingDone(t)
  \/ ReleaseDemand(t) \/ Return(t)
  \/ SendLock(t) \/ RecvLockAgain(t) \/ RecvCommit(t) \/ CondWaitEnds(t)
  \/ PollNow(t) \/ TimedOut(t) \/ PollWaits(t)

Next ==
  \E t \in Threads :
    \/ Step(t)
    \/ \E c \in Channels :
         \/ \E op \in {"send", "recv"}, mode \in Modes[t] : Call(t, op, mode, c)
         \/ Close(t, c)
         \/ DropStub(t, c)
    \/ EndReactor(t)

\* The operating system runs every thread; a call makes its next step.
Fairness == \A t \in Threads : WF_vars(Step(t))

Spec == Init /\ [][Next]_vars /\ Fairness

-----------------------------------------------------------------------------
(* Properties                                                              *)

InCall(t, c) == call[t] # NoCall /\ On(t) = c
Commits(c) == {t \in holding : InCall(t, c)}

\* Every variable keeps its type; rv_demand, a size_t, never goes below zero.
TypeOK ==
  /\ queue \in [Channels -> Seq(Messages)]
  /\ closed \in [Channels -> BOOLEAN]
  /\ rvDemand \in [Channels -> Nat]
  /\ sendRing \in [Channels -> Seq(Threads)]
  /\ recvRing \in [Channels -> Seq(Threads)]
  /\ stubs \in [Channels -> SUBSET Threads]
  /\ pc \in [Threads -> {"idle", "try", "copy", "push", "ring", "release", "return",
                         "lock", "wait", "poll", "sleep", "ending"}]
  /\ call \in [Threads -> Calls \cup {NoCall}]
  /\ holding \subseteq Threads
  /\ ringing \in [Threads -> Seq(Threads)]
  /\ idle \in [Threads -> 0 .. IdleMax]
  /\ left \in [Threads -> Nat] /\ \A t \in Threads : left[t] <= MaxCalls[t]
  /\ notified \subseteq Threads /\ alive \subseteq Threads
  /\ refs \in [Threads -> Nat]
  /\ delivered \in [Channels -> Seq(Messages \cup {Eof})]

\* A rendezvous channel admits no more messages than receivers committed to
\* take one (sc_send_bound): what is queued or may still be sent is covered by
\* receivers that have not given their commitment up.
RendezvousHasReceiver ==
  \A c \in Rendezvous :
    ~closed[c] => Len(queue[c]) + rvDemand[c] <= Cardinality(Commits(c))

\* notifier->refcount is exactly what refers to it: its reactor, the call that
\* took a handle, the lists it is registered in and the rings in flight.  So it
\* is freed, and its descriptor closed, once and by the last of them, whatever
\* the order in which threads end, channels die and notifiers are rung.
Bit(b) == IF b THEN 1 ELSE 0

TimesIn(x, f) ==
  Cardinality(UNION {{<<j, i>> : i \in {k \in DOMAIN f[j] : f[j][k] = x}} : j \in DOMAIN f})

RefsExact ==
  \A n \in Threads :
    refs[n] = Bit(n \in alive) + Bit(Drives(n))
              + TimesIn(n, sendRing) + TimesIn(n, recvRing) + TimesIn(n, ringing)

\* A call that registered and found nothing to do is rung before its next poll
\* by whatever makes the call possible: the message or the close cannot slip
\* in between the registration under the lock and the poll.
Rung(t) == t \in notified \/ \E u \in Threads : t \in Elems(ringing[u])

RungBeforePoll ==
  \A t \in Threads :
    pc[t] = "poll" =>
      /\ Recvs(t) /\ (queue[On(t)] # <<>> \/ closed[On(t)]) => Rung(t)
      /\ Sends(t) /\ On(t) \notin Rendezvous /\ (CanSend(On(t)) \/ closed[On(t)])
           => Rung(t)

\* Closing a channel ends every call on it: a send fails, a receive drains the
\* queue or gets the eof object, however the call waits.
CloseEndsCalls ==
  \A t \in Threads, c \in Channels :
    InCall(t, c) /\ closed[c] ~> ~(InCall(t, c) /\ closed[c])

\* A shared channel is the closable FIFO queue of ChannelSpec, between threads:
\* a message is queued once, at one moment at which the channel is open and
\* has room; only a send that drives a scheduler, or cannot copy, gives up.
Abstract == INSTANCE ChannelSpec WITH
  Bound     <- LAMBDA c : IF c \in Rendezvous THEN Cardinality(Threads) ELSE Capacity[c],
  Impatient <- {m \in Messages : Modes[m[1]] # {"block"}} \cup Uncopyable,
  offered   <- {<<On(t), call[t].msg>> : t \in
                  {u \in Threads : pc[u] \in {"try", "copy", "push", "lock", "wait",
                                             "poll", "sleep"} /\ Sends(u)}}

ImplementsChannel == Abstract!Spec
=============================================================================
