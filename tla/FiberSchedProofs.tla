-------------------------- MODULE FiberSchedProofs --------------------------
(***************************************************************************)
(* Theorems about FiberSched, for any number of fibers, channels and       *)
(* messages and for any capacity, ring and waiter-list limits.             *)
(***************************************************************************)
EXTENDS FiberSched, TLAPS, FiniteSetTheorems, SequenceTheorems

(***************************************************************************)
(* The type invariant is not inductive on its own: a resumed sender pushes *)
(* its park_payload, so the proof needs to know that it still has one.     *)
(***************************************************************************)
TypeInv == TypeOK /\ PendingSendsCarryMessages

LEMMA InitTypeInv == Init => TypeInv
  BY FiberAssumption
  DEF Init, TypeInv, TypeOK, PendingSendsCarryMessages, States, Calls, NoCall,
      Outcomes, Contexts, Messages, Nothing

LEMMA WakeOneTypeInv == TypeInv /\ WakeOne => TypeInv'
  <1> SUFFICES ASSUME TypeInv, WakeOne PROVE TypeInv'
    OBVIOUS
  <1>1. Head(waking) \in Fibers /\ Tail(waking) \in Seq(Fibers)
    BY DEF TypeInv, TypeOK, WakeOne
  <1>2. Enqueue(ready, Head(waking)) \in Seq(Fibers)
    BY <1>1 DEF TypeInv, TypeOK, Enqueue
  <1>3. TypeOK'
    BY <1>1, <1>2 DEF TypeInv, TypeOK, WakeOne, States, chanVars, mainVars
  <1>4. PendingSendsCarryMessages'
    BY DEF TypeInv, PendingSendsCarryMessages, WakeOne, chanVars, mainVars
  <1> QED BY <1>3, <1>4 DEF TypeInv

LEMMA EnqueueType ==
  ASSUME NEW f \in Fibers, ready \in Seq(Fibers)
  PROVE  Enqueue(ready, f) \in Seq(Fibers)
  BY DEF Enqueue

LEMMA AnyStepTypeInv ==
  ASSUME TypeInv, NEW x \in Contexts, AnyStep(x)
  PROVE  TypeInv'
  <1>1. ASSUME NEW f \in Fibers, Spawn(x, f) PROVE TypeInv'
    BY <1>1, EnqueueType DEF Spawn, TypeInv, TypeOK, PendingSendsCarryMessages, States, chanVars, mainVars
  <1>2. ASSUME NEW f \in Fibers, Terminate(x, f) PROVE TypeInv'
    BY <1>2 DEF Terminate, TypeInv, TypeOK, PendingSendsCarryMessages, States, chanVars, mainVars
  <1>3. ASSUME NEW c \in Channels, Close(x, c) PROVE TypeInv'
    BY <1>3 DEF Close, TypeInv, TypeOK, PendingSendsCarryMessages, States, fiberVars, mainVars
  <1> QED BY <1>1, <1>2, <1>3 DEF AnyStep

\* The message an operation sends is one of Messages.
LEMMA OwnMessage ==
  ASSUME NEW x \in Contexts, left \in [Contexts -> 0 .. MaxOps], UseOp(x)
  PROVE  /\ <<x, left[x]>> \in Messages
         /\ left' \in [Contexts -> 0 .. MaxOps]
  BY FiberAssumption DEF UseOp, Messages

LEMMA PushType ==
  ASSUME TypeOK, NEW c \in Channels, NEW m \in Messages, Push(c, m)
  PROVE  /\ queue' \in [Channels -> Seq(Messages)]
         /\ waking' \in Seq(Fibers)
         /\ recvWaiters' \in [Channels -> Seq(Fibers)]
         /\ UNCHANGED <<closed, sendWaiters, delivered>>
  BY DEF Push, TypeOK

LEMMA PopType ==
  ASSUME TypeOK, NEW c \in Channels, queue[c] # <<>>, Pop(c)
  PROVE  /\ queue' \in [Channels -> Seq(Messages)]
         /\ delivered' \in [Channels -> Seq(Messages \cup {Eof})]
         /\ waking' \in Seq(Fibers)
         /\ sendWaiters' \in [Channels -> Seq(Fibers)]
         /\ UNCHANGED <<closed, recvWaiters>>
  <1>1. Head(queue[c]) \in Messages /\ Tail(queue[c]) \in Seq(Messages)
    BY DEF TypeOK
  <1>2. Append(delivered[c], Head(queue[c])) \in Seq(Messages \cup {Eof})
    BY <1>1 DEF TypeOK
  <1> QED BY <1>1, <1>2 DEF Pop, TypeOK

LEMMA TakeEofType ==
  ASSUME TypeOK, NEW c \in Channels, TakeEof(c)
  PROVE  /\ delivered' \in [Channels -> Seq(Messages \cup {Eof})]
         /\ UNCHANGED <<queue, closed, recvWaiters, sendWaiters, waking>>
  BY DEF TakeEof, TypeOK

\* What TypeOK says of the fibers and of Main's call.
FiberTypes ==
  /\ state \in [Fibers -> States]
  /\ snapshot \in [Fibers -> BOOLEAN]
  /\ parkKind \in [Fibers -> {"NONE", "RECV", "SEND", "SLEEP"}]
  /\ waitingOn \in [Fibers -> Channels \cup {Nothing}]
  /\ ready \in Seq(Fibers)
  /\ current \in Contexts
MainTypes ==
  /\ pc \in {"program", "test", "poll", "block", "dispatch", "running", "returned"}
  /\ call \in Calls
  /\ ran \in {-1, 0, 1} /\ spins \in Nat
  /\ outcome \in Outcomes
ChannelTypes ==
  /\ queue \in [Channels -> Seq(Messages)]
  /\ delivered \in [Channels -> Seq(Messages \cup {Eof})]
  /\ closed \in [Channels -> BOOLEAN]
  /\ recvWaiters \in [Channels -> Seq(Fibers)]
  /\ sendWaiters \in [Channels -> Seq(Fibers)]
  /\ waking \in Seq(Fibers)
RestTypes ==
  /\ payload \in [Contexts -> Messages \cup {Nothing}]
  /\ timers \subseteq Contexts
  /\ left \in [Contexts -> 0 .. MaxOps]

LEMMA TypeParts == TypeOK <=> FiberTypes /\ MainTypes /\ ChannelTypes /\ RestTypes
  BY DEF TypeOK, FiberTypes, MainTypes, ChannelTypes, RestTypes

LEMMA TypePartsNext ==
  ASSUME FiberTypes', MainTypes', ChannelTypes', RestTypes'
  PROVE  TypeOK'
  BY DEF TypeOK, FiberTypes, MainTypes, ChannelTypes, RestTypes

LEMMA ParkType ==
  ASSUME TypeOK, NEW f \in Fibers, NEW k \in {"RECV", "SEND", "SLEEP"},
         NEW on \in Channels \cup {Nothing}, Park(f, k, on)
  PROVE  /\ FiberTypes' /\ MainTypes'
         /\ call' = call
         /\ parkKind' = [parkKind EXCEPT ![f] = k]
         /\ waitingOn' = [waitingOn EXCEPT ![f] = on]
  BY DEF Park, TypeOK, FiberTypes, MainTypes, States, Contexts

LEMMA GoesOnType ==
  ASSUME TypeOK, GoesOn
  PROVE  /\ FiberTypes' /\ MainTypes'
         /\ UNCHANGED <<call, parkKind, waitingOn>>
  BY DEF GoesOn, TypeOK, FiberTypes, MainTypes, fiberVars, mainVars

LEMMA FiberSendTypeInv ==
  ASSUME TypeInv, NEW f \in Fibers, NEW c \in Channels, FiberSend(f, c)
  PROVE  TypeInv'
  <1> DEFINE m == <<f, left[f]>>
  <1>1. m \in Messages /\ left' \in [Contexts -> 0 .. MaxOps]
    BY OwnMessage DEF FiberSend, TypeInv, TypeOK, Contexts
  <1>2. TypeOK /\ FiberTypes /\ MainTypes /\ ChannelTypes /\ RestTypes
    BY TypeParts DEF TypeInv
  <1>3. f \in Contexts /\ f # Main
    BY FiberAssumption DEF Contexts
  <1>4. CASE CanSend(c) /\ Push(c, m) /\ GoesOn /\ UNCHANGED payload
    <2>1. FiberTypes' /\ MainTypes' /\ UNCHANGED <<call, parkKind, waitingOn>>
      BY <1>2, <1>4, GoesOnType
    <2>2. ChannelTypes'
      BY <1>1, <1>2, <1>4, PushType DEF ChannelTypes
    <2>3. RestTypes'
      BY <1>1, <1>2, <1>4 DEF RestTypes, FiberSend
    <2> QED
      BY <2>1, <2>2, <2>3, <1>4, TypePartsNext DEF TypeInv, PendingSendsCarryMessages
  <1>5. CASE /\ payload' = [payload EXCEPT ![f] = m]
             /\ sendWaiters' = [sendWaiters EXCEPT ![c] = Append(@, f)]
             /\ Park(f, "SEND", c)
             /\ UNCHANGED <<queue, closed, recvWaiters, delivered, waking>>
    <2>1. /\ FiberTypes' /\ MainTypes' /\ call' = call
          /\ parkKind' = [parkKind EXCEPT ![f] = "SEND"]
          /\ waitingOn' = [waitingOn EXCEPT ![f] = c]
      BY <1>2, <1>5, ParkType
    <2>2. ChannelTypes'
      BY <1>2, <1>5 DEF ChannelTypes
    <2>3. RestTypes'
      BY <1>1, <1>2, <1>3, <1>5 DEF RestTypes, FiberSend
    <2>4. PendingSendsCarryMessages'
      BY <2>1, <1>1, <1>2, <1>3, <1>5 DEF TypeInv, PendingSendsCarryMessages, RestTypes, FiberTypes
    <2> QED
      BY <2>1, <2>2, <2>3, <2>4, TypePartsNext DEF TypeInv
  <1>6. CASE GoesOn /\ UNCHANGED <<chanVars, payload, waking>>
    <2>1. FiberTypes' /\ MainTypes' /\ UNCHANGED <<call, parkKind, waitingOn>>
      BY <1>2, <1>6, GoesOnType
    <2>2. ChannelTypes' /\ RestTypes'
      BY <1>1, <1>2, <1>6 DEF ChannelTypes, RestTypes, chanVars, FiberSend
    <2> QED
      BY <2>1, <2>2, <1>6, TypePartsNext DEF TypeInv, PendingSendsCarryMessages
  <1> QED BY <1>4, <1>5, <1>6 DEF FiberSend

LEMMA FiberRecvTypeInv ==
  ASSUME TypeInv, NEW f \in Fibers, NEW c \in Channels, FiberRecv(f, c)
  PROVE  TypeInv'
  <1>1. TypeOK /\ FiberTypes /\ MainTypes /\ ChannelTypes /\ RestTypes
    BY TypeParts DEF TypeInv
  <1>2. RestTypes'
    BY <1>1, OwnMessage DEF RestTypes, FiberRecv, Contexts
  <1>3. CASE queue[c] # <<>> /\ Pop(c) /\ GoesOn
    <2>1. ChannelTypes'
      BY <1>1, <1>3, PopType DEF ChannelTypes
    <2> QED
      BY <2>1, <1>1, <1>2, <1>3, GoesOnType, TypePartsNext
      DEF TypeInv, PendingSendsCarryMessages, FiberRecv
  <1>4. CASE TakeEof(c) /\ GoesOn
    <2>1. ChannelTypes'
      BY <1>1, <1>4, TakeEofType DEF ChannelTypes
    <2> QED
      BY <2>1, <1>1, <1>2, <1>4, GoesOnType, TypePartsNext
      DEF TypeInv, PendingSendsCarryMessages, FiberRecv
  <1>5. CASE /\ recvWaiters' = [recvWaiters EXCEPT ![c] = Append(@, f)]
             /\ Park(f, "RECV", c)
             /\ UNCHANGED <<queue, closed, sendWaiters, delivered, waking>>
    <2>1. ChannelTypes'
      BY <1>1, <1>5 DEF ChannelTypes
    <2>2. /\ FiberTypes' /\ MainTypes' /\ call' = call
          /\ parkKind' = [parkKind EXCEPT ![f] = "RECV"]
          /\ waitingOn' = [waitingOn EXCEPT ![f] = c]
      BY <1>1, <1>5, ParkType
    <2>3. PendingSendsCarryMessages'
      BY <2>2, <1>1 DEF TypeInv, PendingSendsCarryMessages, FiberRecv, FiberTypes
    <2> QED
      BY <2>1, <2>2, <2>3, <1>2, TypePartsNext DEF TypeInv
  <1>6. CASE GoesOn /\ UNCHANGED <<chanVars, waking>>
    <2>1. ChannelTypes'
      BY <1>1, <1>6 DEF ChannelTypes, chanVars
    <2> QED
      BY <2>1, <1>1, <1>2, <1>6, GoesOnType, TypePartsNext
      DEF TypeInv, PendingSendsCarryMessages, FiberRecv
  <1> QED BY <1>3, <1>4, <1>5, <1>6 DEF FiberRecv

LEMMA FiberStepTypeInv ==
  ASSUME TypeInv, NEW f \in Fibers, FiberStep(f)
  PROVE  TypeInv'
  <1>1. ASSUME NEW c \in Channels, FiberSend(f, c) \/ FiberRecv(f, c) PROVE TypeInv'
    BY <1>1, FiberSendTypeInv, FiberRecvTypeInv
  <1>2. CASE FiberSleep(f)
    <2>1. TypeOK /\ FiberTypes /\ MainTypes /\ ChannelTypes /\ RestTypes
      BY TypeParts DEF TypeInv
    <2>2. /\ FiberTypes' /\ MainTypes' /\ call' = call
          /\ parkKind' = [parkKind EXCEPT ![f] = "SLEEP"]
          /\ waitingOn' = [waitingOn EXCEPT ![f] = Nothing]
      BY <1>2, <2>1, ParkType DEF FiberSleep
    <2>3. ChannelTypes' /\ RestTypes'
      BY <1>2, <2>1 DEF ChannelTypes, RestTypes, FiberSleep, chanVars, Contexts
    <2>4. PendingSendsCarryMessages'
      BY <1>2, <2>1, <2>2 DEF TypeInv, PendingSendsCarryMessages, FiberSleep, FiberTypes
    <2> QED BY <2>2, <2>3, <2>4, TypePartsNext DEF TypeInv
  <1>3. CASE FiberEnd(f)
    BY <1>3 DEF FiberEnd, TypeInv, TypeOK, PendingSendsCarryMessages, States,
                Contexts, chanVars
  <1> QED BY <1>1, <1>2, <1>3 DEF FiberStep

LEMMA UnchangedTypeInv == TypeInv /\ UNCHANGED vars => TypeInv'
  BY DEF TypeInv, TypeOK, PendingSendsCarryMessages, vars, fiberVars, chanVars,
         mainVars

\* A call that ends leaves nothing in Main's argument slot.
LEMMA ReturnType ==
  ASSUME TypeOK, NEW how \in Outcomes, Return(how)
  PROVE  /\ FiberTypes' /\ MainTypes' /\ RestTypes'
         /\ call' = NoCall
         /\ UNCHANGED <<parkKind, waitingOn>>
         /\ \A f \in Fibers : payload'[f] = payload[f]
  BY FiberAssumption DEF Return, TypeOK, FiberTypes, MainTypes, RestTypes, MainUnchanged,
         fiberVars, Calls, Outcomes, Contexts

LEMMA ReturnTypeInv ==
  ASSUME TypeInv, NEW how \in Outcomes, Return(how), ChannelTypes'
  PROVE  TypeInv'
  <1>1. TypeOK'
    BY ReturnType, TypePartsNext DEF TypeInv
  <1>2. PendingSendsCarryMessages'
    BY ReturnType DEF TypeInv, PendingSendsCarryMessages, NoCall
  <1> QED BY <1>1, <1>2 DEF TypeInv

LEMMA AgainTypeInv ==
  ASSUME TypeInv, NEW where \in {"test", "poll", "block", "dispatch"}, Again(where)
  PROVE  TypeInv'
  BY DEF Again, TypeInv, TypeOK, PendingSendsCarryMessages, MainUnchanged,
         fiberVars, chanVars

LEMMA MainCallTypeInv ==
  ASSUME TypeInv, NEW k \in Calls, MainCall(k)
  PROVE  TypeInv'
  <1>1. Main \in Contexts /\ Main \notin Fibers
    BY FiberAssumption DEF Contexts
  <1>2. left' \in [Contexts -> 0 .. MaxOps]
    BY <1>1, OwnMessage DEF MainCall, TypeInv, TypeOK
  <1>3. k.op = "send" => <<Main, left[Main]>> \in Messages
    BY <1>1, OwnMessage DEF MainCall, TypeInv, TypeOK
  <1>4. payload' \in [Contexts -> Messages \cup {Nothing}]
    BY <1>1, <1>3 DEF MainCall, TypeInv, TypeOK
  <1>5. TypeOK'
    BY <1>1, <1>2, <1>4
    DEF MainCall, TypeInv, TypeOK, MainUnchanged, fiberVars, chanVars, Outcomes
  <1>6. /\ \A f \in Fibers : payload'[f] = payload[f]
        /\ k.op = "send" => payload'[Main] \in Messages
    BY <1>1, <1>3 DEF MainCall, TypeInv, TypeOK, Contexts
  <1>7. UNCHANGED <<parkKind, waitingOn>> /\ call' = k
    BY DEF MainCall, MainUnchanged, fiberVars
  <1>8. PendingSendsCarryMessages'
    BY <1>6, <1>7 DEF TypeInv, PendingSendsCarryMessages
  <1> QED BY <1>5, <1>8 DEF TypeInv

LEMMA CallChannel ==
  ASSUME TypeOK, call.op \in {"send", "recv"}
  PROVE  call.on \in Channels
  <1>1. call.op \notin {"none", "join", "yield", "sleep"}
    OBVIOUS
  <1>2. /\ call \notin [op : {"join"}, on : Fibers, timed : BOOLEAN]
        /\ call \notin [op : {"yield", "sleep"}, on : {Nothing}, timed : {FALSE}]
    BY <1>1
  <1>4. call # NoCall
    BY <1>1 DEF NoCall
  <1>3. call \in [op : {"send", "recv"}, on : Channels, timed : BOOLEAN]
    BY <1>2, <1>4 DEF TypeOK, Calls
  <1> QED BY <1>3

LEMMA MainSendTypeInv ==
  ASSUME TypeInv, MainSend
  PROVE  TypeInv'
  <1> DEFINE c == call.on
  <1>1. TypeOK /\ ChannelTypes /\ c \in Channels /\ payload[Main] \in Messages
    BY CallChannel, TypeParts
    DEF TypeInv, MainSend, AtTest, PendingSendsCarryMessages
  <1>2. CASE Return("error") /\ UNCHANGED <<chanVars, waking>>
    BY <1>1, <1>2, ReturnTypeInv DEF ChannelTypes, chanVars, Outcomes
  <1>3. CASE Push(c, payload[Main]) /\ Return("ok")
    <2>1. ChannelTypes'
      BY <1>1, <1>3, PushType DEF ChannelTypes
    <2> QED BY <2>1, <1>3, ReturnTypeInv DEF Outcomes
  <1>4. CASE Again("poll")
    BY <1>4, AgainTypeInv
  <1> QED BY <1>2, <1>3, <1>4 DEF MainSend

LEMMA MainRecvTypeInv ==
  ASSUME TypeInv, MainRecv
  PROVE  TypeInv'
  <1> DEFINE c == call.on
  <1>1. TypeOK /\ ChannelTypes /\ c \in Channels
    BY CallChannel, TypeParts DEF TypeInv, MainRecv, AtTest
  <1>2. CASE queue[c] # <<>> /\ Pop(c) /\ Return("ok")
    <2>1. ChannelTypes'
      BY <1>1, <1>2, PopType DEF ChannelTypes
    <2> QED BY <2>1, <1>2, ReturnTypeInv DEF Outcomes
  <1>3. CASE TakeEof(c) /\ Return("ok")
    <2>1. ChannelTypes'
      BY <1>1, <1>3, TakeEofType DEF ChannelTypes
    <2> QED BY <2>1, <1>3, ReturnTypeInv DEF Outcomes
  <1>4. CASE Again("poll")
    BY <1>4, AgainTypeInv
  <1> QED BY <1>2, <1>3, <1>4 DEF MainRecv

\* The loops that touch no channel.
LEMMA MainWaitTypeInv ==
  ASSUME TypeInv, MainJoin \/ MainSleep \/ MainTimeout \/ MainReturned
  PROVE  TypeInv'
  <1>1. ASSUME UNCHANGED <<chanVars, waking>> PROVE ChannelTypes'
    BY <1>1, TypeParts DEF TypeInv, ChannelTypes, chanVars
  <1>2. CASE MainJoin
    BY <1>1, <1>2, ReturnTypeInv, AgainTypeInv DEF MainJoin, Outcomes
  <1>3. CASE MainSleep
    BY <1>1, <1>3, ReturnTypeInv, AgainTypeInv DEF MainSleep, Outcomes
  <1>4. CASE MainTimeout
    BY <1>1, <1>4, ReturnTypeInv DEF MainTimeout, Outcomes
  <1>5. CASE MainReturned
    <2>1. CASE \E how \in {"error", "ok", "not runnable"} : Return(how)
      BY <1>1, <1>5, <2>1, ReturnTypeInv DEF MainReturned, Outcomes
    <2>2. CASE \E where \in {"test", "block", "dispatch"} : Again(where)
      BY <2>2, AgainTypeInv
    <2>3. CASE /\ spins' = spins + 1 /\ pc' = "test" /\ MainUnchanged
               /\ UNCHANGED <<payload, timers, call, ran, outcome, left>>
      <3>1. UNCHANGED <<fiberVars, chanVars, waking, ready, current>>
        BY <1>5, <2>3 DEF MainReturned, MainUnchanged
      <3> QED
        BY <2>3, <3>1
        DEF TypeInv, TypeOK, PendingSendsCarryMessages, fiberVars, chanVars
    <2> QED BY <1>5, <2>1, <2>2, <2>3 DEF MainReturned
  <1> QED BY <1>2, <1>3, <1>4, <1>5

LEMMA FireType ==
  ASSUME TypeOK, NEW t \in timers, Fire(t)
  PROVE  /\ state' \in [Fibers -> States]
         /\ ready' \in Seq(Fibers)
         /\ timers' \subseteq Contexts
         /\ UNCHANGED <<snapshot, parkKind, waitingOn>>
  BY EnqueueType DEF Fire, TypeOK, States

LEMMA MainBlockingTypeInv ==
  ASSUME TypeInv, MainPoll \/ MainBlock
  PROVE  TypeInv'
  <1>1. CASE /\ NoFire \/ \E t \in timers : Fire(t)
             /\ pc' \in {"test", "block", "dispatch"}
             /\ UNCHANGED <<payload, current, chanVars, waking, call, ran, spins,
                            outcome, left>>
    <2>1. /\ state' \in [Fibers -> States]
          /\ ready' \in Seq(Fibers)
          /\ timers' \subseteq Contexts
          /\ UNCHANGED <<snapshot, parkKind, waitingOn>>
      BY <1>1, FireType DEF TypeInv, TypeOK, NoFire, fiberVars
    <2> QED
      BY <1>1, <2>1 DEF TypeInv, TypeOK, PendingSendsCarryMessages, chanVars
  <1>2. CASE Return("deadlock") /\ UNCHANGED <<chanVars, waking>>
    <2>1. ChannelTypes'
      BY <1>2, TypeParts DEF TypeInv, ChannelTypes, chanVars
    <2> QED BY <1>2, <2>1, ReturnTypeInv DEF Outcomes
  <1> QED BY <1>1, <1>2 DEF MainPoll, MainBlock

LEMMA RunType ==
  ASSUME TypeOK, NEW f \in Fibers, Run(f)
  PROVE  /\ state' \in [Fibers -> States]
         /\ snapshot' \in [Fibers -> BOOLEAN]
         /\ parkKind' = [parkKind EXCEPT ![f] = "NONE"]
         /\ waitingOn' = [waitingOn EXCEPT ![f] = Nothing]
         /\ current' \in Contexts
         /\ pc' = "running" /\ ran' = 0
  BY DEF Run, TypeOK, States, Contexts

LEMMA ReparkType ==
  ASSUME TypeOK, NEW f \in Fibers, NEW room \in BOOLEAN, Repark(f, room)
  PROVE  /\ state' \in [Fibers -> States]
         /\ ran' \in {-1, 0} /\ pc' = "returned"
         /\ UNCHANGED <<snapshot, parkKind, waitingOn, current>>
  BY DEF Repark, TypeOK, States

\* What every dispatch does outside the channel and the dispatched fiber.
DispatchFrame ==
  /\ ready' \in Seq(Fibers)
  /\ UNCHANGED <<timers, call, spins, outcome, left>>

LEMMA RunTypeInv ==
  ASSUME TypeInv, DispatchFrame, ChannelTypes', NEW f \in Fibers, Run(f),
         payload' = payload \/ payload' = [payload EXCEPT ![f] = Nothing]
  PROVE  TypeInv'
  <1>1. f \in Contexts /\ f # Main
    BY FiberAssumption DEF Contexts
  <1>2. TypeOK
    BY DEF TypeInv
  <1>3. payload' \in [Contexts -> Messages \cup {Nothing}]
    BY <1>1, <1>2 DEF TypeOK
  <1>4. FiberTypes' /\ MainTypes' /\ RestTypes'
    BY <1>2, <1>3, RunType DEF FiberTypes, MainTypes, RestTypes, DispatchFrame, TypeOK
  <1>5. /\ parkKind' = [parkKind EXCEPT ![f] = "NONE"]
        /\ waitingOn' = [waitingOn EXCEPT ![f] = Nothing]
        /\ call' = call
    BY <1>2, RunType DEF DispatchFrame
  <1>6. \A x \in Contexts \ {f} : payload'[x] = payload[x]
    BY <1>2 DEF TypeOK
  <1>7. PendingSendsCarryMessages'
    BY <1>1, <1>2, <1>5, <1>6, FiberAssumption
    DEF TypeInv, PendingSendsCarryMessages, TypeOK, Contexts
  <1> QED BY <1>4, <1>7, TypePartsNext DEF TypeInv

LEMMA ReparkTypeInv ==
  ASSUME TypeInv, DispatchFrame, ChannelTypes', NEW f \in Fibers,
         NEW room \in BOOLEAN, Repark(f, room), payload' = payload
  PROVE  TypeInv'
  <1>1. FiberTypes' /\ MainTypes' /\ RestTypes'
    BY ReparkType DEF TypeInv, FiberTypes, MainTypes, RestTypes, DispatchFrame, TypeOK
  <1>2. PendingSendsCarryMessages'
    BY ReparkType DEF TypeInv, PendingSendsCarryMessages, DispatchFrame
  <1> QED BY <1>1, <1>2, TypePartsNext DEF TypeInv

LEMMA ResumeRecvTypeInv ==
  ASSUME TypeInv, DispatchFrame, NEW f \in Fibers, ResumeRecv(f)
  PROVE  TypeInv'
  <1> DEFINE c == waitingOn[f]
             room == Len(recvWaiters[c]) < WaiterMax
  <1>1. TypeOK /\ ChannelTypes /\ c \in Channels
    BY TypeParts DEF TypeInv, PendingSendsCarryMessages, ResumeRecv
  <1>2. CASE queue[c] # <<>> /\ Pop(c) /\ Run(f)
    <2>1. ChannelTypes'
      BY <1>1, <1>2, PopType DEF ChannelTypes
    <2> QED BY <2>1, <1>2, RunTypeInv DEF ResumeRecv
  <1>3. CASE TakeEof(c) /\ Run(f)
    <2>1. ChannelTypes'
      BY <1>1, <1>3, TakeEofType DEF ChannelTypes
    <2> QED BY <2>1, <1>3, RunTypeInv DEF ResumeRecv
  <1>4. CASE /\ Repark(f, room)
             /\ recvWaiters' = [recvWaiters EXCEPT ![c] =
                                  IF room THEN Append(@, f) ELSE @]
             /\ UNCHANGED <<queue, closed, sendWaiters, delivered, waking>>
    <2>1. ChannelTypes'
      BY <1>1, <1>4 DEF ChannelTypes
    <2>2. room \in BOOLEAN
      OBVIOUS
    <2> QED BY <2>1, <2>2, <1>4, ReparkTypeInv DEF ResumeRecv
  <1> QED BY <1>2, <1>3, <1>4 DEF ResumeRecv

LEMMA ResumeSendTypeInv ==
  ASSUME TypeInv, DispatchFrame, NEW f \in Fibers, ResumeSend(f)
  PROVE  TypeInv'
  <1> DEFINE c == waitingOn[f]
             room == Len(sendWaiters[c]) < WaiterMax
  <1>1. TypeOK /\ ChannelTypes /\ c \in Channels /\ payload[f] \in Messages
    BY TypeParts DEF TypeInv, PendingSendsCarryMessages, ResumeSend
  <1>2. CASE /\ payload' = [payload EXCEPT ![f] = Nothing]
             /\ Run(f) /\ UNCHANGED <<chanVars, waking>>
    <2>1. ChannelTypes'
      BY <1>1, <1>2 DEF ChannelTypes, chanVars
    <2> QED BY <2>1, <1>2, RunTypeInv
  <1>3. CASE /\ Push(c, payload[f])
             /\ payload' = [payload EXCEPT ![f] = Nothing]
             /\ Run(f)
    <2>1. ChannelTypes'
      BY <1>1, <1>3, PushType DEF ChannelTypes
    <2> QED BY <2>1, <1>3, RunTypeInv
  <1>4. CASE /\ Repark(f, room)
             /\ sendWaiters' = [sendWaiters EXCEPT ![c] =
                                  IF room THEN Append(@, f) ELSE @]
             /\ UNCHANGED <<payload, queue, closed, recvWaiters, delivered, waking>>
    <2>1. ChannelTypes'
      BY <1>1, <1>4 DEF ChannelTypes
    <2>2. room \in BOOLEAN
      OBVIOUS
    <2> QED BY <2>1, <2>2, <1>4, ReparkTypeInv
  <1> QED BY <1>2, <1>3, <1>4 DEF ResumeSend

LEMMA MainDispatchTypeInv ==
  ASSUME TypeInv, MainDispatch
  PROVE  TypeInv'
  <1>1. CASE /\ ran' = 0 /\ pc' = "returned"
             /\ ready' \in Seq(Fibers)
             /\ UNCHANGED <<fiberVars, payload, current, chanVars, waking>>
    BY <1>1
    DEF MainDispatch, TypeInv, TypeOK, PendingSendsCarryMessages, fiberVars, chanVars
  <1>2. CASE /\ ready # <<>> /\ ready' = Tail(ready)
             /\ \/ ResumePlain(Head(ready))
                \/ ResumeRecv(Head(ready))
                \/ ResumeSend(Head(ready))
    <2>1. Head(ready) \in Fibers /\ Tail(ready) \in Seq(Fibers)
      BY <1>2 DEF TypeInv, TypeOK
    <2>2. DispatchFrame
      BY <1>2, <2>1 DEF DispatchFrame, MainDispatch
    <2>3. CASE ResumePlain(Head(ready))
      <3>1. ChannelTypes'
        BY <2>3, TypeParts DEF TypeInv, ResumePlain, ChannelTypes, chanVars
      <3> QED BY <3>1, <2>1, <2>2, <2>3, RunTypeInv DEF ResumePlain
    <2> QED BY <1>2, <2>1, <2>2, <2>3, ResumeRecvTypeInv, ResumeSendTypeInv
  <1>3. ready # <<>> => Tail(ready) \in Seq(Fibers)
    BY DEF TypeInv, TypeOK
  <1>4. ready \in Seq(Fibers)
    BY DEF TypeInv, TypeOK
  <1> QED BY <1>1, <1>2, <1>3, <1>4 DEF MainDispatch

LEMMA NextTypeInv ==
  ASSUME TypeInv, [Next]_vars
  PROVE  TypeInv'
  <1>1. CASE WakeOne
    BY <1>1, WakeOneTypeInv
  <1>2. CASE MainStep
    BY <1>2, MainCallTypeInv, MainSendTypeInv, MainRecvTypeInv, MainWaitTypeInv,
       MainBlockingTypeInv, MainDispatchTypeInv
    DEF MainStep
  <1>3. CASE \E f \in Fibers : FiberStep(f)
    BY <1>3, FiberStepTypeInv
  <1>4. CASE \E x \in Contexts : AnyStep(x)
    BY <1>4, AnyStepTypeInv
  <1>5. CASE UNCHANGED vars
    BY <1>5, UnchangedTypeInv
  <1> QED BY <1>1, <1>2, <1>3, <1>4, <1>5 DEF Next

THEOREM TypeInvariant == Spec => []TypeInv
  <1>1. TypeInv /\ [Next]_vars => TypeInv'
    BY NextTypeInv
  <1> QED BY <1>1, InitTypeInv, PTL DEF Spec

\* The variables keep their types: every state, wait list, ring and timer of
\* fiber.c and channel.c holds what its C declaration says, in every run.
THEOREM TypeCorrect == Spec => []TypeOK
  <1>1. TypeInv => TypeOK
    BY DEF TypeInv
  <1> QED BY <1>1, TypeInvariant, PTL

\* A sender that parked, was woken in vain and parked again still holds the
\* message it came with (the park_payload handling of run_fiber_to_park_or_done).
THEOREM PendingSendsKeepTheirMessage == Spec => []PendingSendsCarryMessages
  <1>1. TypeInv => PendingSendsCarryMessages
    BY DEF TypeInv
  <1> QED BY <1>1, TypeInvariant, PTL

-----------------------------------------------------------------------------
(* What a step can do to channel c.                                        *)

ListsReceiver(c) ==
  /\ queue[c] = <<>> /\ ~closed[c]
  /\ \E f \in Fibers : recvWaiters' = [recvWaiters EXCEPT ![c] = Append(@, f)]
  /\ UNCHANGED <<queue, closed, sendWaiters, delivered>>

ListsSender(c) ==
  /\ ~closed[c] /\ ~CanSend(c)
  /\ \E f \in Fibers : sendWaiters' = [sendWaiters EXCEPT ![c] = Append(@, f)]
  /\ UNCHANGED <<queue, closed, recvWaiters, delivered>>

Closes(c) ==
  /\ closed' = [closed EXCEPT ![c] = TRUE]
  /\ recvWaiters' = [recvWaiters EXCEPT ![c] = <<>>]
  /\ sendWaiters' = [sendWaiters EXCEPT ![c] = <<>>]
  /\ UNCHANGED <<queue, delivered>>

ChannelStep(c) ==
  \/ CanSend(c) /\ \E m \in Messages : Push(c, m)
  \/ queue[c] # <<>> /\ Pop(c)
  \/ queue[c] = <<>> /\ closed[c] /\ TakeEof(c)
  \/ ListsReceiver(c) \/ ListsSender(c) \/ Closes(c)

\* Every step leaves the channels alone or makes one ChannelStep.
Channelwise == UNCHANGED chanVars \/ \E c \in Channels : ChannelStep(c)

LEMMA AnyStepChannelwise ==
  ASSUME TypeInv, NEW x \in Contexts, AnyStep(x)
  PROVE  Channelwise
  BY DEF AnyStep, Spawn, Terminate, Close, Channelwise, ChannelStep, Closes

LEMMA FiberStepChannelwise ==
  ASSUME TypeInv, NEW f \in Fibers, FiberStep(f)
  PROVE  Channelwise
  <1>1. ASSUME NEW c \in Channels, FiberSend(f, c) PROVE Channelwise
    <2>1. <<f, left[f]>> \in Messages
      BY <1>1, OwnMessage DEF FiberSend, TypeInv, TypeOK, Contexts
    <2>2. CASE CanSend(c) /\ Push(c, <<f, left[f]>>)
      BY <2>1, <2>2 DEF Channelwise, ChannelStep
    <2>3. CASE /\ ~closed[c] /\ ~CanSend(c)
               /\ sendWaiters' = [sendWaiters EXCEPT ![c] = Append(@, f)]
               /\ UNCHANGED <<queue, closed, recvWaiters, delivered, waking>>
      BY <2>3 DEF Channelwise, ChannelStep, ListsSender
    <2>4. CASE UNCHANGED chanVars
      BY <2>4 DEF Channelwise
    <2> QED BY <1>1, <2>2, <2>3, <2>4 DEF FiberSend
  <1>2. ASSUME NEW c \in Channels, FiberRecv(f, c) PROVE Channelwise
    <2>1. CASE queue[c] # <<>> /\ Pop(c)
      BY <2>1 DEF Channelwise, ChannelStep
    <2>2. CASE queue[c] = <<>> /\ closed[c] /\ TakeEof(c)
      BY <2>2 DEF Channelwise, ChannelStep
    <2>3. CASE /\ queue[c] = <<>> /\ ~closed[c]
               /\ recvWaiters' = [recvWaiters EXCEPT ![c] = Append(@, f)]
               /\ UNCHANGED <<queue, closed, sendWaiters, delivered, waking>>
      BY <2>3 DEF Channelwise, ChannelStep, ListsReceiver
    <2>4. CASE UNCHANGED chanVars
      BY <2>4 DEF Channelwise
    <2> QED BY <1>2, <2>1, <2>2, <2>3, <2>4 DEF FiberRecv
  <1>3. CASE FiberSleep(f) \/ FiberEnd(f)
    BY <1>3 DEF FiberSleep, FiberEnd, Channelwise
  <1> QED BY <1>1, <1>2, <1>3 DEF FiberStep

LEMMA MainStepChannelwise ==
  ASSUME TypeInv, MainStep
  PROVE  Channelwise
  <1>1. CASE MainSend
    <2>1. call.on \in Channels /\ payload[Main] \in Messages
      BY <1>1, CallChannel DEF MainSend, AtTest, TypeInv, PendingSendsCarryMessages
    <2> QED BY <1>1, <2>1 DEF MainSend, Again, Channelwise, ChannelStep
  <1>2. CASE MainRecv
    <2>1. call.on \in Channels
      BY <1>2, CallChannel DEF MainRecv, AtTest, TypeInv
    <2> QED BY <1>2, <2>1 DEF MainRecv, Again, Channelwise, ChannelStep
  <1>3. CASE MainDispatch
    <2>1. CASE UNCHANGED chanVars
      BY <2>1 DEF Channelwise
    <2>2. ASSUME NEW f \in Fibers, ResumeRecv(f) PROVE Channelwise
      <3> DEFINE c == waitingOn[f]
      <3>1. c \in Channels
        BY <2>2 DEF ResumeRecv, TypeInv, PendingSendsCarryMessages
      <3>2. CASE /\ queue[c] = <<>> /\ ~closed[c]
                 /\ recvWaiters' = [recvWaiters EXCEPT ![c] =
                       IF Len(recvWaiters[c]) < WaiterMax THEN Append(@, f) ELSE @]
                 /\ UNCHANGED <<queue, closed, sendWaiters, delivered, waking>>
        <4>1. CASE Len(recvWaiters[c]) < WaiterMax
          BY <3>1, <3>2, <4>1 DEF Channelwise, ChannelStep, ListsReceiver
        <4>2. CASE ~(Len(recvWaiters[c]) < WaiterMax)
          BY <3>1, <3>2, <4>2 DEF Channelwise, chanVars, TypeInv, TypeOK
        <4> QED BY <4>1, <4>2
      <3>3. CASE queue[c] # <<>> /\ Pop(c)
        BY <3>1, <3>3 DEF Channelwise, ChannelStep
      <3>4. CASE queue[c] = <<>> /\ closed[c] /\ TakeEof(c)
        BY <3>1, <3>4 DEF Channelwise, ChannelStep
      <3> QED BY <2>2, <3>2, <3>3, <3>4 DEF ResumeRecv
    <2>3. ASSUME NEW f \in Fibers, ResumeSend(f) PROVE Channelwise
      <3> DEFINE c == waitingOn[f]
      <3>1. c \in Channels /\ payload[f] \in Messages
        BY <2>3 DEF ResumeSend, TypeInv, PendingSendsCarryMessages
      <3>2. CASE /\ ~closed[c] /\ ~CanSend(c)
                 /\ sendWaiters' = [sendWaiters EXCEPT ![c] =
                       IF Len(sendWaiters[c]) < WaiterMax THEN Append(@, f) ELSE @]
                 /\ UNCHANGED <<payload, queue, closed, recvWaiters, delivered, waking>>
        <4>1. CASE Len(sendWaiters[c]) < WaiterMax
          BY <3>1, <3>2, <4>1 DEF Channelwise, ChannelStep, ListsSender
        <4>2. CASE ~(Len(sendWaiters[c]) < WaiterMax)
          BY <3>1, <3>2, <4>2 DEF Channelwise, chanVars, TypeInv, TypeOK
        <4> QED BY <4>1, <4>2
      <3>3. CASE CanSend(c) /\ Push(c, payload[f])
        BY <3>1, <3>3 DEF Channelwise, ChannelStep
      <3>4. CASE UNCHANGED chanVars
        BY <3>4 DEF Channelwise
      <3> QED BY <2>3, <3>2, <3>3, <3>4 DEF ResumeSend
    <2>4. ready # <<>> => Head(ready) \in Fibers
      BY DEF TypeInv, TypeOK
    <2> QED BY <1>3, <2>1, <2>2, <2>3, <2>4 DEF MainDispatch, ResumePlain
  <1>4. CASE (\E k \in Calls : MainCall(k)) \/ MainJoin \/ MainSleep \/ MainTimeout
             \/ MainPoll \/ MainBlock \/ MainReturned
    BY <1>4 DEF MainCall, MainJoin, MainSleep, MainTimeout, MainPoll, MainBlock,
                MainReturned, Again, Channelwise
  <1> QED BY <1>1, <1>2, <1>3, <1>4 DEF MainStep

LEMMA NextChannelwise ==
  ASSUME TypeInv, [Next]_vars
  PROVE  Channelwise
  BY AnyStepChannelwise, FiberStepChannelwise, MainStepChannelwise
  DEF Next, WakeOne, Channelwise, vars

LEMMA ChannelStepWaiters ==
  ASSUME TypeOK, NoStrandedWaiter, NEW c \in Channels, ChannelStep(c)
  PROVE  NoStrandedWaiter'
  <1> USE FiberAssumption DEF TypeOK
  <1>1. CASE CanSend(c) /\ \E m \in Messages : Push(c, m)
    BY <1>1, SMTT(30) DEF Push, CanSend, NoStrandedWaiter
  <1>2. CASE queue[c] # <<>> /\ Pop(c)
    BY <1>2 DEF Pop, NoStrandedWaiter
  <1>3. CASE TakeEof(c)
    BY <1>3 DEF TakeEof, NoStrandedWaiter
  <1>4. CASE ListsReceiver(c)
    BY <1>4 DEF ListsReceiver, NoStrandedWaiter
  <1>5. CASE ListsSender(c)
    <2>1. c \notin Rendezvous => Capacity[c] # 0 /\ Len(queue[c]) >= Capacity[c]
      BY <1>5 DEF ListsSender, CanSend
    <2>2. ~closed[c] /\ UNCHANGED <<queue, closed, recvWaiters>>
      BY <1>5 DEF ListsSender
    <2>3. \A d \in Channels : d # c => sendWaiters'[d] = sendWaiters[d]
      BY <1>5 DEF ListsSender
    <2> QED BY <2>1, <2>2, <2>3 DEF NoStrandedWaiter
  <1>6. CASE Closes(c)
    BY <1>6 DEF Closes, NoStrandedWaiter
  <1> QED BY <1>1, <1>2, <1>3, <1>4, <1>5, <1>6 DEF ChannelStep

\* No receiver is listed on a channel that has a message or is closed, and no
\* sender on a closed or a buffered channel with room: every channel_push,
\* channel_pop and channel-close wakes the whole waiter list it has to.
THEOREM WaitersAreNotStranded == Spec => []NoStrandedWaiter
  <1>1. Init => NoStrandedWaiter
    BY DEF Init, NoStrandedWaiter
  <1>2. TypeInv /\ NoStrandedWaiter /\ [Next]_vars => NoStrandedWaiter'
    <2> SUFFICES ASSUME TypeInv, NoStrandedWaiter, [Next]_vars
                 PROVE  NoStrandedWaiter'
      OBVIOUS
    <2>1. CASE UNCHANGED chanVars
      BY <2>1 DEF chanVars, NoStrandedWaiter
    <2> QED BY <2>1, NextChannelwise, ChannelStepWaiters DEF Channelwise, TypeInv
  <1> QED BY <1>1, <1>2, TypeInvariant, PTL DEF Spec

\* Once a receive has returned eof the channel is closed and drained, for
\* good: the strengthening that makes EofIsFinal inductive.
EofInv ==
  \A c \in Channels :
    Eof \in Elems(delivered[c]) => closed[c] /\ queue[c] = <<>>

LEMMA EofIsNoMessage == Eof \notin Messages
  BY DEF Eof, Messages

\* What one more value does to the history of a channel.
LEMMA DeliveryEof ==
  ASSUME NEW s \in Seq(Messages \cup {Eof}), NEW v \in Messages \cup {Eof}
  PROVE  /\ Elems(Append(s, v)) = Elems(s) \cup {v}
         /\ (\A i, j \in DOMAIN s : i < j /\ s[i] = Eof => s[j] = Eof)
            /\ (Eof \in Elems(s) => v = Eof)
            => \A i, j \in DOMAIN Append(s, v) :
                 i < j /\ Append(s, v)[i] = Eof => Append(s, v)[j] = Eof
  <1>1. DOMAIN Append(s, v) = DOMAIN s \cup {Len(s) + 1}
    OBVIOUS
  <1>2. /\ \A i \in DOMAIN s : Append(s, v)[i] = s[i]
        /\ Append(s, v)[Len(s) + 1] = v
    OBVIOUS
  <1>3. Elems(Append(s, v)) = Elems(s) \cup {v}
    BY <1>1, <1>2 DEF Elems
  <1>4. ASSUME \A i, j \in DOMAIN s : i < j /\ s[i] = Eof => s[j] = Eof,
               Eof \in Elems(s) => v = Eof,
               NEW i \in DOMAIN Append(s, v), NEW j \in DOMAIN Append(s, v),
               i < j, Append(s, v)[i] = Eof
        PROVE  Append(s, v)[j] = Eof
    <2>1. i \in DOMAIN s /\ s[i] = Eof
      BY <1>1, <1>2, <1>4
    <2>2. Eof \in Elems(s)
      BY <2>1 DEF Elems
    <2> QED BY <1>1, <1>2, <1>4, <2>1, <2>2
  <1> QED BY <1>3, <1>4

LEMMA ChannelStepEof ==
  ASSUME TypeOK, EofInv, EofIsFinal, NEW c \in Channels, ChannelStep(c)
  PROVE  EofInv' /\ EofIsFinal'
  <1> USE DEF TypeOK
  <1>1. CASE UNCHANGED <<queue, delivered>> /\ \A d \in Channels : closed[d] => closed'[d]
    BY <1>1 DEF EofInv, EofIsFinal
  <1>2. CASE CanSend(c) /\ \E m \in Messages : Push(c, m)
    <2>1. Eof \notin Elems(delivered[c])
      BY <1>2 DEF CanSend, EofInv
    <2> QED BY <1>2, <2>1 DEF Push, EofInv, EofIsFinal
  <1>3. CASE queue[c] # <<>> /\ Pop(c)
    <2>1. Eof \notin Elems(delivered[c])
      BY <1>3 DEF EofInv
    <2>2. Head(queue[c]) \in Messages
      BY <1>3
    <2>3. delivered[c] \in Seq(Messages \cup {Eof})
      OBVIOUS
    <2>4. /\ Elems(delivered'[c]) = Elems(delivered[c]) \cup {Head(queue[c])}
          /\ \A i, j \in DOMAIN delivered'[c] :
               i < j /\ delivered'[c][i] = Eof => delivered'[c][j] = Eof
      <3>1. delivered'[c] = Append(delivered[c], Head(queue[c]))
        BY <1>3 DEF Pop
      <3>2. \A i, j \in DOMAIN delivered[c] :
              i < j /\ delivered[c][i] = Eof => delivered[c][j] = Eof
        BY DEF EofIsFinal
      <3> HIDE DEF TypeOK
      <3> QED BY <2>1, <2>2, <2>3, <3>1, <3>2, DeliveryEof, SMTT(30)
    <2>5. \A d \in Channels \ {c} : delivered'[d] = delivered[d] /\ queue'[d] = queue[d]
      BY <1>3 DEF Pop
    <2>6. EofInv'
      BY <1>3, <2>1, <2>2, <2>4, <2>5, EofIsNoMessage DEF Pop, EofInv
    <2>7. \A d \in Channels : d # c =>
            \A i, j \in DOMAIN delivered'[d] :
              i < j /\ delivered'[d][i] = Eof => delivered'[d][j] = Eof
      BY <2>5 DEF EofIsFinal
    <2> QED BY <2>4, <2>6, <2>7 DEF EofIsFinal
  <1>4. CASE queue[c] = <<>> /\ closed[c] /\ TakeEof(c)
    <2>1. delivered[c] \in Seq(Messages \cup {Eof}) /\ Eof \in Messages \cup {Eof}
      OBVIOUS
    <2>2. /\ Elems(delivered'[c]) = Elems(delivered[c]) \cup {Eof}
          /\ \A i, j \in DOMAIN delivered'[c] :
               i < j /\ delivered'[c][i] = Eof => delivered'[c][j] = Eof
      <3>1. delivered'[c] = Append(delivered[c], Eof)
        BY <1>4 DEF TakeEof
      <3>2. \A i, j \in DOMAIN delivered[c] :
              i < j /\ delivered[c][i] = Eof => delivered[c][j] = Eof
        BY DEF EofIsFinal
      <3> HIDE DEF TypeOK
      <3> QED BY <2>1, <3>1, <3>2, DeliveryEof
    <2>3. \A d \in Channels \ {c} : delivered'[d] = delivered[d]
      BY <1>4 DEF TakeEof
    <2>4. EofInv'
      BY <1>4, <2>3 DEF TakeEof, EofInv
    <2>5. \A d \in Channels : d # c =>
            \A i, j \in DOMAIN delivered'[d] :
              i < j /\ delivered'[d][i] = Eof => delivered'[d][j] = Eof
      BY <2>3 DEF EofIsFinal
    <2> QED BY <2>2, <2>4, <2>5 DEF EofIsFinal
  <1>5. CASE ListsReceiver(c) \/ ListsSender(c) \/ Closes(c)
    BY <1>1, <1>5 DEF ListsReceiver, ListsSender, Closes
  <1> QED BY <1>2, <1>3, <1>4, <1>5 DEF ChannelStep

\* A receive that returned the eof object is never followed by one that
\* returns a message: eof is only said of a closed and drained channel, and
\* nothing is pushed on a closed one (ch_channel_recv, channel_can_send).
THEOREM EofEndsTheStream == Spec => []EofIsFinal
  <1>1. Init => EofInv /\ EofIsFinal
    BY DEF Init, EofInv, EofIsFinal, Elems
  <1>2. TypeInv /\ EofInv /\ EofIsFinal /\ [Next]_vars => EofInv' /\ EofIsFinal'
    <2> SUFFICES ASSUME TypeInv, EofInv, EofIsFinal, [Next]_vars
                 PROVE  EofInv' /\ EofIsFinal'
      OBVIOUS
    <2>1. CASE UNCHANGED chanVars
      BY <2>1 DEF chanVars, EofInv, EofIsFinal
    <2> QED BY <2>1, NextChannelwise, ChannelStepEof DEF Channelwise, TypeInv
  <1> QED BY <1>1, <1>2, TypeInvariant, PTL DEF Spec

-----------------------------------------------------------------------------
(* Where each fiber is listed.                                             *)

\* Neither the ready ring nor a waiter list can be full of other fibers
\* (CH_FIBER_READY_MAX and CH_CHANNEL_WAITER_MAX are limits of the build; a
\* program with more fibers can lose one, run FiberLostWakeup).
EnoughRoom ==
  /\ IsFiniteSet(Fibers)
  /\ Cardinality(Fibers) <= ReadyMax /\ Cardinality(Fibers) <= WaiterMax

Once(s) == \A i, j \in DOMAIN s : s[i] = s[j] => i = j

\* A list that does not hold f has room for it.
LEMMA RoomFor ==
  ASSUME EnoughRoom, NEW s \in Seq(Fibers), Once(s), NEW f \in Fibers, f \notin Elems(s)
  PROVE  Len(s) < ReadyMax /\ Len(s) < WaiterMax
  <1>1. Len(s) \in Nat /\ ReadyMax \in Nat /\ WaiterMax \in Nat
    BY FiberAssumption
  <1>2. s \in [1 .. Len(s) -> Fibers \ {f}]
    BY DEF Elems
  <1>3. s \in Injection(1 .. Len(s), Fibers \ {f})
    BY <1>2 DEF Injection, IsInjective, Once
  <1>4. /\ IsFiniteSet(Fibers \ {f}) /\ Cardinality(Fibers \ {f}) = Cardinality(Fibers) - 1
        /\ Cardinality(Fibers) \in Nat
    BY FS_RemoveElement, FS_CardinalityType DEF EnoughRoom
  <1>5. Cardinality(1 .. Len(s)) <= Cardinality(Fibers \ {f})
    BY <1>3, <1>4, FS_Injection
  <1>6. Cardinality(1 .. Len(s)) = Len(s)
    BY <1>1, FS_Interval, SMTT(30)
  <1>7. Len(s) <= Cardinality(Fibers) - 1
    BY <1>4, <1>5, <1>6
  <1> QED BY <1>1, <1>4, <1>7 DEF EnoughRoom

\* What the list operations of the two source files do to the members.
LEMMA AppendOnce ==
  ASSUME NEW s \in Seq(Fibers), NEW f \in Fibers, Once(s), f \notin Elems(s)
  PROVE  Once(Append(s, f)) /\ Elems(Append(s, f)) = Elems(s) \cup {f}
  <1>1. /\ DOMAIN s = 1 .. Len(s) /\ Len(s) \in Nat
        /\ DOMAIN Append(s, f) = 1 .. (Len(s) + 1)
        /\ \A i \in 1 .. Len(s) : Append(s, f)[i] = s[i]
        /\ Append(s, f)[Len(s) + 1] = f
    OBVIOUS
  <1> QED BY <1>1 DEF Once, Elems

LEMMA TailOnce ==
  ASSUME NEW s \in Seq(Fibers), s # <<>>, Once(s)
  PROVE  /\ Once(Tail(s)) /\ Elems(Tail(s)) = Elems(s) \ {Head(s)}
         /\ Head(s) \in Elems(s)
  <1>1. PICK n \in Nat : n = Len(s) - 1
    OBVIOUS
  <1>2. /\ DOMAIN s = 1 .. (n + 1) /\ DOMAIN Tail(s) = 1 .. n
        /\ \A i \in 1 .. n : Tail(s)[i] = s[i + 1]
        /\ Head(s) = s[1]
    BY <1>1
  <1>3. \A i \in 1 .. (n + 1) : i = 1 \/ \E j \in 1 .. n : i = j + 1
    <2> TAKE i \in 1 .. (n + 1)
    <2>1. i # 1 => i - 1 \in 1 .. n /\ i = (i - 1) + 1
      OBVIOUS
    <2> QED BY <2>1
  <1>4. \A i \in 1 .. n : i + 1 \in 1 .. (n + 1) /\ i + 1 # 1
    OBVIOUS
  <1>5. 1 \in 1 .. (n + 1)
    OBVIOUS
  <1>6. Elems(Tail(s)) = Elems(s) \ {Head(s)}
    <2>1. ASSUME NEW i \in 1 .. n PROVE Tail(s)[i] \in Elems(s) \ {Head(s)}
      BY <1>2, <1>4, <1>5 DEF Elems, Once
    <2>2. ASSUME NEW i \in 1 .. (n + 1), s[i] # Head(s) PROVE s[i] \in Elems(Tail(s))
      <3>1. PICK j \in 1 .. n : i = j + 1
        BY <1>2, <1>3, <2>2
      <3> QED BY <1>2, <3>1 DEF Elems
    <2> QED BY <1>2, <2>1, <2>2 DEF Elems
  <1>7. Once(Tail(s))
    BY <1>2, <1>4 DEF Once
  <1> QED BY <1>2, <1>5, <1>6, <1>7 DEF Elems

LEMMA ConcatOnce ==
  ASSUME NEW a \in Seq(Fibers), NEW b \in Seq(Fibers), Once(a), Once(b),
         Elems(a) \cap Elems(b) = {}
  PROVE  Once(a \o b) /\ Elems(a \o b) = Elems(a) \cup Elems(b)
  <1>1. PICK m \in Nat, n \in Nat : m = Len(a) /\ n = Len(b)
    OBVIOUS
  <1>2. /\ DOMAIN a = 1 .. m /\ DOMAIN b = 1 .. n /\ DOMAIN (a \o b) = 1 .. (m + n)
        /\ \A k \in 1 .. (m + n) : (a \o b)[k] = IF k <= m THEN a[k] ELSE b[k - m]
    BY <1>1, ConcatProperties
  <1>3. \A k \in 1 .. (m + n) : (k <= m /\ k \in 1 .. m) \/ (~(k <= m) /\ k - m \in 1 .. n)
    OBVIOUS
  <1>4. \A k \in 1 .. m : k \in 1 .. (m + n) /\ k <= m
    OBVIOUS
  <1>5. \A k \in 1 .. n : k + m \in 1 .. (m + n) /\ ~(k + m <= m) /\ (k + m) - m = k
    OBVIOUS
  <1>6. Elems(a \o b) \subseteq Elems(a) \cup Elems(b)
    BY <1>2, <1>3 DEF Elems
  <1>7. Elems(a) \subseteq Elems(a \o b)
    BY <1>2, <1>4 DEF Elems
  <1>8. Elems(b) \subseteq Elems(a \o b)
    <2>1. \A k \in 1 .. n : (a \o b)[k + m] = b[k]
      BY <1>2, <1>5
    <2>2. \A k \in DOMAIN b : \E l \in DOMAIN (a \o b) : (a \o b)[l] = b[k]
      BY <1>2, <1>5, <2>1
    <2> QED BY <2>2 DEF Elems
  <1>9. ASSUME NEW i \in 1 .. (m + n), NEW j \in 1 .. (m + n), (a \o b)[i] = (a \o b)[j]
        PROVE  i = j
    <2>1. CASE i <= m /\ j <= m
      BY <1>2, <1>3, <1>9, <2>1 DEF Once
    <2>2. CASE ~(i <= m) /\ ~(j <= m)
      <3>1. i - m = j - m
        BY <1>2, <1>3, <1>9, <2>2 DEF Once
      <3> QED BY <3>1
    <2>3. \A k \in 1 .. (m + n) :
            /\ k <= m => (a \o b)[k] \in Elems(a)
            /\ ~(k <= m) => (a \o b)[k] \in Elems(b)
      BY <1>2, <1>3 DEF Elems
    <2> QED BY <1>9, <2>1, <2>2, <2>3
  <1>10. Once(a \o b)
    BY <1>2, <1>9 DEF Once
  <1> QED BY <1>6, <1>7, <1>8, <1>10

LEMMA EmptyOnce == Once(<<>>) /\ Elems(<<>>) = {}
  BY DEF Once, Elems

Unlisted(f) ==
  \A c \in Channels : f \notin Elems(recvWaiters[c]) /\ f \notin Elems(sendWaiters[c])

ListsOnce ==
  /\ Once(ready) /\ Once(waking)
  /\ \A c \in Channels : Once(recvWaiters[c]) /\ Once(sendWaiters[c])

\* A fiber is in one list at most, the one that its state and its park name
\* (a terminated fiber stays where it was), and in one if it waits or is ready.
PlaceOf(f) ==
  /\ f \in Elems(ready) =>
       /\ state[f] \in {"READY", "FAILED"}
       /\ f \notin Elems(waking) /\ f \notin timers /\ Unlisted(f)
  /\ f \in Elems(waking) =>
       /\ state[f] \in {"WAITING", "FAILED"}
       /\ parkKind[f] \in {"RECV", "SEND"} /\ Unlisted(f)
  /\ f \in timers => state[f] \in {"WAITING", "FAILED"} /\ parkKind[f] = "SLEEP"
  /\ ~Unlisted(f) => state[f] \in {"WAITING", "FAILED"}
  /\ \A c \in Channels :
       /\ f \in Elems(recvWaiters[c]) => parkKind[f] = "RECV" /\ waitingOn[f] = c
       /\ f \in Elems(sendWaiters[c]) => parkKind[f] = "SEND" /\ waitingOn[f] = c
  /\ state[f] = "READY" => f \in Elems(ready)
  /\ state[f] = "WAITING" => f \in Elems(waking) \/ f \in timers \/ ~Unlisted(f)
  /\ current = f <=> state[f] = "RUNNING"

PlaceInv == ListsOnce /\ \A f \in Fibers : PlaceOf(f)

\* What a step that wakes waiters, or none, does to where g is listed.
ListedAsBefore(g) ==
  /\ g \in Elems(waking') <=> g \in Elems(waking)
  /\ \A c \in Channels :
       /\ g \in Elems(recvWaiters'[c]) <=> g \in Elems(recvWaiters[c])
       /\ g \in Elems(sendWaiters'[c]) <=> g \in Elems(sendWaiters[c])
Rings(g) == ~Unlisted(g) /\ Unlisted(g)' /\ g \in Elems(waking')
Wakes ==
  /\ Once(waking')
  /\ \A c \in Channels : Once(recvWaiters'[c]) /\ Once(sendWaiters'[c])
  /\ \A g \in Fibers : ListedAsBefore(g) \/ Rings(g)

\* wake_waiter_list takes a whole list; nobody on it is on another one.
LEMMA WholeListWoken ==
  ASSUME TypeOK, PlaceInv, NEW c \in Channels, waking = <<>>,
         \/ /\ waking' = recvWaiters[c]
            /\ recvWaiters' = [recvWaiters EXCEPT ![c] = <<>>]
            /\ sendWaiters' = sendWaiters
         \/ /\ waking' = sendWaiters[c]
            /\ sendWaiters' = [sendWaiters EXCEPT ![c] = <<>>]
            /\ recvWaiters' = recvWaiters
         \/ /\ waking' = recvWaiters[c] \o sendWaiters[c]
            /\ recvWaiters' = [recvWaiters EXCEPT ![c] = <<>>]
            /\ sendWaiters' = [sendWaiters EXCEPT ![c] = <<>>]
  PROVE  Wakes
  <1>1. /\ recvWaiters[c] \in Seq(Fibers) /\ sendWaiters[c] \in Seq(Fibers)
        /\ Once(recvWaiters[c]) /\ Once(sendWaiters[c])
    BY DEF TypeOK, PlaceInv, ListsOnce
  <1>2. ASSUME NEW g \in Fibers
        PROVE  /\ g \in Elems(recvWaiters[c]) => g \notin Elems(sendWaiters[c])
               /\ \A d \in Channels \ {c} :
                    g \in Elems(recvWaiters[c]) \/ g \in Elems(sendWaiters[c])
                    => g \notin Elems(recvWaiters[d]) /\ g \notin Elems(sendWaiters[d])
    BY DEF PlaceInv, PlaceOf
  <1>3. Elems(recvWaiters[c]) \subseteq Fibers /\ Elems(sendWaiters[c]) \subseteq Fibers
    BY <1>1 DEF Elems
  <1>4. /\ Once(recvWaiters[c] \o sendWaiters[c])
        /\ Elems(recvWaiters[c] \o sendWaiters[c]) =
             Elems(recvWaiters[c]) \cup Elems(sendWaiters[c])
    BY <1>1, <1>2, <1>3, ConcatOnce
  <1>5. \A d \in Channels \ {c} :
          recvWaiters'[d] = recvWaiters[d] /\ sendWaiters'[d] = sendWaiters[d]
    BY DEF TypeOK
  <1>6. /\ \A g \in Fibers : g \notin Elems(waking) /\ g \notin Elems(<<>>)
        /\ Once(<<>>)
    BY EmptyOnce
  <1>7. CASE /\ waking' = recvWaiters[c]
             /\ recvWaiters' = [recvWaiters EXCEPT ![c] = <<>>]
             /\ sendWaiters' = sendWaiters
    <2>1. recvWaiters'[c] = <<>>
      BY <1>7 DEF TypeOK
    <2>2. Once(waking') /\ \A d \in Channels : Once(recvWaiters'[d]) /\ Once(sendWaiters'[d])
      BY <1>1, <1>5, <1>6, <1>7, <2>1 DEF PlaceInv, ListsOnce
    <2>3. ASSUME NEW g \in Elems(recvWaiters[c]) PROVE Rings(g)
      BY <1>2, <1>3, <1>5, <1>6, <1>7, <2>1, <2>3 DEF Rings, Unlisted
    <2>4. ASSUME NEW g \in Fibers, g \notin Elems(recvWaiters[c]) PROVE ListedAsBefore(g)
      BY <1>5, <1>6, <1>7, <2>1, <2>4 DEF ListedAsBefore
    <2> QED BY <2>2, <2>3, <2>4 DEF Wakes
  <1>8. CASE /\ waking' = sendWaiters[c]
             /\ sendWaiters' = [sendWaiters EXCEPT ![c] = <<>>]
             /\ recvWaiters' = recvWaiters
    <2>1. sendWaiters'[c] = <<>>
      BY <1>8 DEF TypeOK
    <2>2. Once(waking') /\ \A d \in Channels : Once(recvWaiters'[d]) /\ Once(sendWaiters'[d])
      BY <1>1, <1>5, <1>6, <1>8, <2>1 DEF PlaceInv, ListsOnce
    <2>3. ASSUME NEW g \in Elems(sendWaiters[c]) PROVE Rings(g)
      BY <1>2, <1>3, <1>5, <1>6, <1>8, <2>1, <2>3 DEF Rings, Unlisted
    <2>4. ASSUME NEW g \in Fibers, g \notin Elems(sendWaiters[c]) PROVE ListedAsBefore(g)
      BY <1>5, <1>6, <1>8, <2>1, <2>4 DEF ListedAsBefore
    <2> QED BY <2>2, <2>3, <2>4 DEF Wakes
  <1>9. CASE /\ waking' = recvWaiters[c] \o sendWaiters[c]
             /\ recvWaiters' = [recvWaiters EXCEPT ![c] = <<>>]
             /\ sendWaiters' = [sendWaiters EXCEPT ![c] = <<>>]
    <2>1. recvWaiters'[c] = <<>> /\ sendWaiters'[c] = <<>>
      BY <1>9 DEF TypeOK
    <2>2. Once(waking') /\ \A d \in Channels : Once(recvWaiters'[d]) /\ Once(sendWaiters'[d])
      BY <1>4, <1>5, <1>6, <1>9, <2>1 DEF PlaceInv, ListsOnce
    <2>3. ASSUME NEW g \in Elems(recvWaiters[c]) \cup Elems(sendWaiters[c]) PROVE Rings(g)
      <3>1. g \in Elems(waking')
        BY <1>4, <1>9, <2>3
      <3>2. Unlisted(g)'
        BY <1>2, <1>3, <1>5, <1>6, <2>1, <2>3 DEF Unlisted
      <3> QED BY <2>3, <3>1, <3>2 DEF Rings, Unlisted
    <2>4. ASSUME NEW g \in Fibers, g \notin Elems(recvWaiters[c]) \cup Elems(sendWaiters[c])
          PROVE  ListedAsBefore(g)
      BY <1>4, <1>5, <1>6, <1>9, <2>1, <2>4 DEF ListedAsBefore
    <2> QED BY <2>2, <2>3, <2>4 DEF Wakes
  <1> QED BY <1>7, <1>8, <1>9

LEMMA NobodyWoken ==
  ASSUME PlaceInv, UNCHANGED <<waking, recvWaiters, sendWaiters>>
  PROVE  Wakes
  BY DEF PlaceInv, ListsOnce, Wakes, ListedAsBefore

\* A push, a pop and the eof of a channel wake as they should.
LEMMA ChannelWakes ==
  ASSUME TypeOK, PlaceInv, NEW c \in Channels, waking = <<>>,
         (\E m \in Messages : Push(c, m)) \/ Pop(c) \/ TakeEof(c)
  PROVE  Wakes
  BY WholeListWoken, NobodyWoken DEF Push, Pop, TakeEof

\* A fiber that a step does not touch, but perhaps wakes, is still in place.
LEMMA OthersStayPlaced ==
  ASSUME NEW g \in Fibers, PlaceOf(g), ListedAsBefore(g) \/ Rings(g),
         state'[g] = state[g], parkKind'[g] = parkKind[g], waitingOn'[g] = waitingOn[g],
         g \in timers' <=> g \in timers,
         g \in Elems(ready') <=> g \in Elems(ready),
         current' = g <=> current = g
  PROVE  PlaceOf(g)'
  <1>1. CASE ListedAsBefore(g)
    <2>1. Unlisted(g)' <=> Unlisted(g)
      BY <1>1 DEF ListedAsBefore, Unlisted
    <2> QED BY <1>1, <2>1 DEF PlaceOf, ListedAsBefore
  <1>2. CASE Rings(g)
    <2>1. /\ g \notin Elems(ready) /\ state[g] \in {"WAITING", "FAILED"}
          /\ parkKind[g] \in {"RECV", "SEND"} /\ g \notin timers
      BY <1>2 DEF Rings, PlaceOf, Unlisted
    <2>2. \A c \in Channels : g \notin Elems(recvWaiters'[c]) /\ g \notin Elems(sendWaiters'[c])
      BY <1>2 DEF Rings, Unlisted
    <2> QED BY <1>2, <2>1, <2>2 DEF PlaceOf, Rings
  <1> QED BY <1>1, <1>2

\* A step that only wakes.
LEMMA WakesPlaceInv ==
  ASSUME PlaceInv, Wakes,
         UNCHANGED <<state, parkKind, waitingOn, ready, current>>,
         \A g \in Fibers : g \in timers' <=> g \in timers
  PROVE  PlaceInv'
  <1>1. ListsOnce'
    BY DEF Wakes, ListsOnce, PlaceInv
  <1>2. ASSUME NEW g \in Fibers PROVE PlaceOf(g)'
    <2>1. PlaceOf(g) /\ (ListedAsBefore(g) \/ Rings(g))
      BY DEF PlaceInv, Wakes
    <2> QED BY <2>1, OthersStayPlaced
  <1> QED BY <1>1, <1>2 DEF PlaceInv

\* The fiber at the head of the ring runs, with the channel steps of its resume.
LEMMA RunPlaceInv ==
  ASSUME TypeOK, PlaceInv, Wakes, ready # <<>>, ready' = Tail(ready), current = Main,
         Run(Head(ready)), timers' = timers
  PROVE  PlaceInv'
  <1>0. PICK f \in Fibers : f = Head(ready)
    BY DEF TypeOK
  <1>1. /\ f \in Elems(ready)
        /\ Once(ready') /\ Elems(ready') = Elems(ready) \ {f}
    BY <1>0, TailOnce DEF TypeOK, PlaceInv, ListsOnce
  <1>2. /\ state' = [state EXCEPT ![f] = "RUNNING"]
        /\ parkKind' = [parkKind EXCEPT ![f] = "NONE"]
        /\ waitingOn' = [waitingOn EXCEPT ![f] = Nothing]
        /\ current' = f
    BY <1>0 DEF Run
  <1>3. state'[f] = "RUNNING" /\ Main \notin Fibers
    BY <1>1, <1>2, FiberAssumption DEF TypeOK
  <1>4. ListsOnce'
    BY <1>1 DEF Wakes, ListsOnce, PlaceInv
  <1>5. ASSUME NEW g \in Fibers \ {f} PROVE PlaceOf(g)'
    <2>1. PlaceOf(g) /\ (ListedAsBefore(g) \/ Rings(g))
      BY DEF PlaceInv, Wakes
    <2>2. /\ state'[g] = state[g] /\ parkKind'[g] = parkKind[g]
          /\ waitingOn'[g] = waitingOn[g]
          /\ g \in Elems(ready') <=> g \in Elems(ready)
          /\ current' = g <=> current = g
      BY <1>1, <1>2, <1>3 DEF TypeOK
    <2> QED BY <2>1, <2>2, OthersStayPlaced
  <1>6. PlaceOf(f)'
    <2>1. PlaceOf(f) /\ f \notin timers /\ Unlisted(f) /\ f \notin Elems(waking)
      BY <1>1 DEF PlaceInv, PlaceOf
    <2>2. ListedAsBefore(f)
      BY <1>1, <2>1 DEF Wakes, Rings
    <2>3. /\ f \notin Elems(waking')
          /\ \A c \in Channels : f \notin Elems(recvWaiters'[c]) /\ f \notin Elems(sendWaiters'[c])
      BY <2>1, <2>2 DEF ListedAsBefore, Unlisted
    <2> QED BY <1>1, <1>2, <1>3, <2>1, <2>3 DEF PlaceOf, Unlisted
  <1> QED BY <1>4, <1>5, <1>6 DEF PlaceInv

\* Fiber f, in no list, is put on a waiter list or a timer.
LEMMA ParkPlaceInv ==
  ASSUME TypeOK, PlaceInv, NEW f \in Fibers,
         f \notin Elems(ready'), Once(ready'), waking' = waking, f \notin Elems(waking),
         \A g \in Fibers \ {f} : g \in Elems(ready') <=> g \in Elems(ready),
         Unlisted(f), f \notin timers,
         state' = [state EXCEPT ![f] = "WAITING"],
         \A g \in Fibers \ {f} :
           parkKind'[g] = parkKind[g] /\ waitingOn'[g] = waitingOn[g] /\ current # g,
         current' = Main,
         \/ \E c \in Channels :
              /\ parkKind'[f] = "RECV" /\ waitingOn'[f] = c
              /\ recvWaiters' = [recvWaiters EXCEPT ![c] = Append(@, f)]
              /\ UNCHANGED <<sendWaiters, timers>>
         \/ \E c \in Channels :
              /\ parkKind'[f] = "SEND" /\ waitingOn'[f] = c
              /\ sendWaiters' = [sendWaiters EXCEPT ![c] = Append(@, f)]
              /\ UNCHANGED <<recvWaiters, timers>>
         \/ /\ parkKind'[f] = "SLEEP" /\ timers' = timers \cup {f}
            /\ UNCHANGED <<recvWaiters, sendWaiters>>
  PROVE  PlaceInv'
  <1>0. state'[f] = "WAITING" /\ Main \notin Fibers /\ Main # f
    BY FiberAssumption DEF TypeOK
  <1>1. ASSUME NEW g \in Fibers \ {f}, ListedAsBefore(g), g \in timers' <=> g \in timers
        PROVE  PlaceOf(g)'
    <2>1. /\ state'[g] = state[g] /\ parkKind'[g] = parkKind[g] /\ waitingOn'[g] = waitingOn[g]
          /\ g \in Elems(ready') <=> g \in Elems(ready)
          /\ current' = g <=> current = g
      BY <1>0 DEF TypeOK
    <2>2. PlaceOf(g)
      BY DEF PlaceInv
    <2> QED BY <1>1, <2>1, <2>2, OthersStayPlaced
  <1>2. ASSUME NEW c \in Channels,
               parkKind'[f] = "RECV", waitingOn'[f] = c,
               recvWaiters' = [recvWaiters EXCEPT ![c] = Append(@, f)],
               UNCHANGED <<sendWaiters, timers>>
        PROVE  PlaceInv'
    <2>1. /\ Once(recvWaiters'[c]) /\ Elems(recvWaiters'[c]) = Elems(recvWaiters[c]) \cup {f}
          /\ \A d \in Channels \ {c} : recvWaiters'[d] = recvWaiters[d]
      BY <1>2, AppendOnce DEF TypeOK, PlaceInv, ListsOnce, Unlisted
    <2>2. ListsOnce'
      BY <1>2, <2>1 DEF PlaceInv, ListsOnce
    <2>3. \A g \in Fibers \ {f} : ListedAsBefore(g)
      BY <1>2, <2>1 DEF ListedAsBefore
    <2>4. PlaceOf(f)'
      BY <1>0, <1>2, <2>1 DEF PlaceOf, Unlisted
    <2> QED BY <1>1, <1>2, <2>2, <2>3, <2>4 DEF PlaceInv
  <1>3. ASSUME NEW c \in Channels,
               parkKind'[f] = "SEND", waitingOn'[f] = c,
               sendWaiters' = [sendWaiters EXCEPT ![c] = Append(@, f)],
               UNCHANGED <<recvWaiters, timers>>
        PROVE  PlaceInv'
    <2>1. /\ Once(sendWaiters'[c]) /\ Elems(sendWaiters'[c]) = Elems(sendWaiters[c]) \cup {f}
          /\ \A d \in Channels \ {c} : sendWaiters'[d] = sendWaiters[d]
      BY <1>3, AppendOnce DEF TypeOK, PlaceInv, ListsOnce, Unlisted
    <2>2. ListsOnce'
      BY <1>3, <2>1 DEF PlaceInv, ListsOnce
    <2>3. \A g \in Fibers \ {f} : ListedAsBefore(g)
      BY <1>3, <2>1 DEF ListedAsBefore
    <2>4. PlaceOf(f)'
      BY <1>0, <1>3, <2>1 DEF PlaceOf, Unlisted
    <2> QED BY <1>1, <1>3, <2>2, <2>3, <2>4 DEF PlaceInv
  <1>4. ASSUME parkKind'[f] = "SLEEP", timers' = timers \cup {f},
               UNCHANGED <<recvWaiters, sendWaiters>>
        PROVE  PlaceInv'
    <2>1. ListsOnce' /\ \A g \in Fibers \ {f} : ListedAsBefore(g)
      BY <1>4 DEF PlaceInv, ListsOnce, ListedAsBefore
    <2>2. PlaceOf(f)'
      BY <1>0, <1>4 DEF PlaceOf, Unlisted
    <2> QED BY <1>1, <1>4, <2>1, <2>2 DEF PlaceInv
  <1> QED BY <1>2, <1>3, <1>4

\* Fiber f, in no list any more, is queued to run.
LEMMA ReadyPlaceInv ==
  ASSUME EnoughRoom, TypeOK, PlaceInv, NEW f \in Fibers,
         state[f] \in {"WAITING", "unborn"}, state' = [state EXCEPT ![f] = "READY"],
         ready' = Enqueue(ready, f), Unlisted(f),
         UNCHANGED <<parkKind, waitingOn, recvWaiters, sendWaiters, current>>,
         Once(waking'), f \notin Elems(waking'), f \notin timers',
         \A g \in Fibers \ {f} :
           /\ g \in Elems(waking') <=> g \in Elems(waking)
           /\ g \in timers' <=> g \in timers
  PROVE  PlaceInv'
  <1>1. f \notin Elems(ready) /\ ready \in Seq(Fibers) /\ Once(ready)
    BY DEF TypeOK, PlaceInv, PlaceOf, ListsOnce
  <1>2. ready' = Append(ready, f)
    BY <1>1, RoomFor DEF Enqueue
  <1>3. Once(ready') /\ Elems(ready') = Elems(ready) \cup {f}
    BY <1>1, <1>2, AppendOnce
  <1>4. ListsOnce'
    BY <1>3 DEF PlaceInv, ListsOnce
  <1>5. ASSUME NEW g \in Fibers \ {f} PROVE PlaceOf(g)'
    <2>1. PlaceOf(g) /\ ListedAsBefore(g)
      BY DEF PlaceInv, ListedAsBefore
    <2>2. state'[g] = state[g] /\ (g \in Elems(ready') <=> g \in Elems(ready))
      BY <1>3 DEF TypeOK
    <2> QED BY <2>1, <2>2, OthersStayPlaced
  <1>6. PlaceOf(f)'
    <2>1. PlaceOf(f) /\ state'[f] = "READY"
      BY DEF PlaceInv, TypeOK
    <2>2. current # f /\ Unlisted(f)'
      BY <2>1 DEF PlaceOf, Unlisted
    <2> QED BY <1>3, <2>1, <2>2 DEF PlaceOf, Unlisted
  <1> QED BY <1>4, <1>5, <1>6 DEF PlaceInv

\* Fiber f, in no list any more and with nothing to wait for, is over.
LEMMA OverPlaceInv ==
  ASSUME TypeOK, PlaceInv, NEW f \in Fibers, Unlisted(f),
         UNCHANGED <<parkKind, waitingOn, recvWaiters, sendWaiters>>,
         state'[f] \in {"DONE", "FAILED"}, f \notin Elems(ready') \cup Elems(waking') \cup timers',
         Once(waking'), Once(ready'), current' # f,
         \A g \in Fibers \ {f} :
           /\ state'[g] = state[g] /\ (current' = g <=> current = g)
           /\ g \in Elems(ready') <=> g \in Elems(ready)
           /\ g \in Elems(waking') <=> g \in Elems(waking)
           /\ g \in timers' <=> g \in timers
  PROVE  PlaceInv'
  <1>1. ListsOnce'
    BY DEF PlaceInv, ListsOnce
  <1>2. ASSUME NEW g \in Fibers \ {f} PROVE PlaceOf(g)'
    <2>1. PlaceOf(g) /\ ListedAsBefore(g)
      BY DEF PlaceInv, ListedAsBefore
    <2> QED BY <2>1, OthersStayPlaced
  <1>3. PlaceOf(f)'
    BY DEF PlaceOf, Unlisted
  <1> QED BY <1>1, <1>2, <1>3 DEF PlaceInv

LEMMA WakeOnePlaceInv ==
  ASSUME EnoughRoom, TypeOK, PlaceInv, WakeOne
  PROVE  PlaceInv'
  <1>0. PICK f \in Fibers : f = Head(waking)
    BY DEF TypeOK, WakeOne
  <1>1. /\ Once(waking') /\ Elems(waking') = Elems(waking) \ {f}
        /\ f \in Elems(waking)
    BY <1>0, TailOnce DEF TypeOK, PlaceInv, ListsOnce, WakeOne
  <1>2. PlaceOf(f) /\ Unlisted(f) /\ f \notin timers /\ f \notin Elems(ready)
        /\ state[f] \in {"WAITING", "FAILED"} /\ current # f
    BY <1>1 DEF PlaceInv, PlaceOf
  <1>3. UNCHANGED <<parkKind, waitingOn, recvWaiters, sendWaiters, current, timers>>
    BY DEF WakeOne, chanVars
  <1>4. CASE state[f] = "WAITING"
    <2>1. state' = [state EXCEPT ![f] = "READY"] /\ ready' = Enqueue(ready, f)
      BY <1>0, <1>4 DEF WakeOne
    <2> QED BY <1>1, <1>2, <1>3, <1>4, <2>1, ReadyPlaceInv
  <1>5. CASE state[f] # "WAITING"
    <2>1. UNCHANGED <<state, ready>> /\ Once(ready)
      BY <1>0, <1>5 DEF WakeOne, PlaceInv, ListsOnce
    <2> QED BY <1>1, <1>2, <1>3, <1>5, <2>1, OverPlaceInv
  <1> QED BY <1>4, <1>5

LEMMA FirePlaceInv ==
  ASSUME EnoughRoom, TypeOK, PlaceInv, NEW t \in timers, Fire(t),
         UNCHANGED <<recvWaiters, sendWaiters, waking, current>>
  PROVE  PlaceInv'
  <1>1. UNCHANGED <<parkKind, waitingOn>> /\ timers' = timers \ {t} /\ Once(waking) /\ Once(ready)
    BY DEF Fire, PlaceInv, ListsOnce
  <1>2. CASE t \in Fibers
    <2>1. PlaceOf(t)
      BY <1>2 DEF PlaceInv
    <2>2. /\ state[t] \in {"WAITING", "FAILED"} /\ parkKind[t] = "SLEEP" /\ current # t
          /\ t \notin Elems(ready) /\ t \notin Elems(waking) /\ Unlisted(t)
      BY <2>1 DEF PlaceOf, Unlisted
    <2>3. CASE state[t] = "WAITING"
      <3>1. state' = [state EXCEPT ![t] = "READY"] /\ ready' = Enqueue(ready, t)
        BY <1>2, <2>3 DEF Fire
      <3> QED BY <1>1, <1>2, <2>2, <2>3, <3>1, ReadyPlaceInv
    <2>4. CASE state[t] # "WAITING"
      <3>1. UNCHANGED <<state, ready>>
        BY <2>4 DEF Fire
      <3> QED BY <1>1, <1>2, <2>2, <2>4, <3>1, OverPlaceInv
    <2> QED BY <2>3, <2>4
  <1>3. CASE t \notin Fibers
    <2>1. UNCHANGED <<state, ready>>
      BY <1>3 DEF Fire
    <2> QED BY <1>1, <1>3, <2>1, NobodyWoken, WakesPlaceInv
  <1> QED BY <1>2, <1>3

LEMMA AnyStepPlaceInv ==
  ASSUME EnoughRoom, TypeOK, PlaceInv, NEW x \in Contexts, AnyStep(x)
  PROVE  PlaceInv'
  <1>1. ASSUME NEW f \in Fibers, Spawn(x, f) PROVE PlaceInv'
    <2>1. /\ state[f] = "unborn" /\ state' = [state EXCEPT ![f] = "READY"]
          /\ ready' = Enqueue(ready, f)
          /\ UNCHANGED <<parkKind, waitingOn, recvWaiters, sendWaiters, current, waking, timers>>
      BY <1>1 DEF Spawn, chanVars
    <2>2. Unlisted(f) /\ f \notin Elems(waking) /\ f \notin timers /\ Once(waking)
      BY <2>1 DEF PlaceInv, PlaceOf, ListsOnce
    <2> QED BY <2>1, <2>2, ReadyPlaceInv
  <1>2. ASSUME NEW f \in Fibers, Terminate(x, f) PROVE PlaceInv'
    <2>1. /\ state[f] \in {"READY", "WAITING"} /\ state' = [state EXCEPT ![f] = "FAILED"]
          /\ UNCHANGED <<parkKind, waitingOn, recvWaiters, sendWaiters, ready, current,
                         waking, timers>>
      BY <1>2 DEF Terminate, chanVars
    <2>2. ListsOnce' /\ \A g \in Fibers : ListedAsBefore(g)
      BY <2>1 DEF PlaceInv, ListsOnce, ListedAsBefore
    <2>3. ASSUME NEW g \in Fibers \ {f} PROVE PlaceOf(g)'
      <3>1. PlaceOf(g) /\ state'[g] = state[g]
        BY <2>1 DEF PlaceInv, TypeOK
      <3> QED BY <2>1, <2>2, <3>1, OthersStayPlaced
    <2>4. PlaceOf(f)'
      <3>1. PlaceOf(f) /\ state'[f] = "FAILED"
        BY <2>1 DEF PlaceInv, TypeOK
      <3> QED BY <2>1, <3>1 DEF PlaceOf, Unlisted
    <2> QED BY <2>2, <2>3, <2>4 DEF PlaceInv
  <1>3. ASSUME NEW c \in Channels, Close(x, c) PROVE PlaceInv'
    <2>1. /\ waking = <<>> /\ waking' = recvWaiters[c] \o sendWaiters[c]
          /\ recvWaiters' = [recvWaiters EXCEPT ![c] = <<>>]
          /\ sendWaiters' = [sendWaiters EXCEPT ![c] = <<>>]
          /\ UNCHANGED <<state, parkKind, waitingOn, ready, current, timers>>
      BY <1>3 DEF Close, fiberVars, Executes, Settled
    <2>2. Wakes
      BY <2>1, WholeListWoken
    <2> QED BY <2>1, <2>2, WakesPlaceInv
  <1> QED BY <1>1, <1>2, <1>3 DEF AnyStep

\* The fiber that runs is listed nowhere.
LEMMA RunningUnlisted ==
  ASSUME PlaceInv, NEW f \in Fibers, current = f
  PROVE  /\ state[f] = "RUNNING" /\ Unlisted(f)
         /\ f \notin Elems(ready) /\ f \notin Elems(waking) /\ f \notin timers
         /\ \A g \in Fibers \ {f} : current # g
         /\ Once(ready) /\ Once(waking)
  BY DEF PlaceInv, PlaceOf, ListsOnce

LEMMA FiberStepPlaceInv ==
  ASSUME TypeInv, PlaceInv, NEW f \in Fibers, FiberStep(f)
  PROVE  PlaceInv'
  <1>0. TypeOK /\ current = f /\ waking = <<>>
    BY DEF TypeInv, FiberStep, FiberSend, FiberRecv, FiberSleep, FiberEnd, Executes, Settled
  <1>1. ASSUME NEW c \in Channels, FiberSend(f, c) PROVE PlaceInv'
    <2>1. CASE Push(c, <<f, left[f]>>) /\ GoesOn
      <3>1. <<f, left[f]>> \in Messages
        BY <1>0, <1>1, OwnMessage DEF FiberSend, TypeOK, Contexts
      <3>2. Wakes
        BY <1>0, <2>1, <3>1, ChannelWakes
      <3> QED BY <1>1, <2>1, <3>2, WakesPlaceInv DEF FiberSend, GoesOn, fiberVars
    <2>2. CASE /\ sendWaiters' = [sendWaiters EXCEPT ![c] = Append(@, f)]
               /\ Park(f, "SEND", c)
               /\ UNCHANGED <<queue, closed, recvWaiters, delivered, waking>>
      <3>1. /\ state' = [state EXCEPT ![f] = "WAITING"] /\ ready' = ready /\ current' = Main
            /\ parkKind' = [parkKind EXCEPT ![f] = "SEND"]
            /\ waitingOn' = [waitingOn EXCEPT ![f] = c]
            /\ timers' = timers
        BY <1>1, <2>2 DEF Park, FiberSend
      <3>2. /\ parkKind'[f] = "SEND" /\ waitingOn'[f] = c
            /\ \A g \in Fibers \ {f} : parkKind'[g] = parkKind[g] /\ waitingOn'[g] = waitingOn[g]
        BY <1>0, <3>1 DEF TypeOK
      <3> QED BY <1>0, <2>2, <3>1, <3>2, RunningUnlisted, ParkPlaceInv
    <2>3. CASE GoesOn /\ UNCHANGED <<chanVars, payload, waking>>
      BY <1>1, <2>3, NobodyWoken, WakesPlaceInv DEF FiberSend, GoesOn, fiberVars, chanVars
    <2> QED BY <1>1, <2>1, <2>2, <2>3 DEF FiberSend
  <1>2. ASSUME NEW c \in Channels, FiberRecv(f, c) PROVE PlaceInv'
    <2>1. CASE (Pop(c) \/ TakeEof(c)) /\ GoesOn
      <3>1. Wakes
        BY <1>0, <2>1, ChannelWakes
      <3> QED BY <1>2, <2>1, <3>1, WakesPlaceInv DEF FiberRecv, GoesOn, fiberVars
    <2>2. CASE /\ recvWaiters' = [recvWaiters EXCEPT ![c] = Append(@, f)]
               /\ Park(f, "RECV", c)
               /\ UNCHANGED <<queue, closed, sendWaiters, delivered, waking>>
      <3>1. /\ state' = [state EXCEPT ![f] = "WAITING"] /\ ready' = ready /\ current' = Main
            /\ parkKind' = [parkKind EXCEPT ![f] = "RECV"]
            /\ waitingOn' = [waitingOn EXCEPT ![f] = c]
            /\ timers' = timers
        BY <1>2, <2>2 DEF Park, FiberRecv
      <3>2. /\ parkKind'[f] = "RECV" /\ waitingOn'[f] = c
            /\ \A g \in Fibers \ {f} : parkKind'[g] = parkKind[g] /\ waitingOn'[g] = waitingOn[g]
        BY <1>0, <3>1 DEF TypeOK
      <3> QED BY <1>0, <2>2, <3>1, <3>2, RunningUnlisted, ParkPlaceInv
    <2>3. CASE GoesOn /\ UNCHANGED <<chanVars, waking>>
      BY <1>2, <2>3, NobodyWoken, WakesPlaceInv DEF FiberRecv, GoesOn, fiberVars, chanVars
    <2> QED BY <1>2, <2>1, <2>2, <2>3 DEF FiberRecv
  <1>3. CASE FiberSleep(f)
    <2>1. /\ state' = [state EXCEPT ![f] = "WAITING"] /\ ready' = ready /\ current' = Main
          /\ parkKind' = [parkKind EXCEPT ![f] = "SLEEP"]
          /\ waitingOn' = [waitingOn EXCEPT ![f] = Nothing]
          /\ timers' = timers \cup {f}
          /\ UNCHANGED <<recvWaiters, sendWaiters, waking>>
      BY <1>3 DEF FiberSleep, Park, chanVars
    <2>2. /\ parkKind'[f] = "SLEEP"
          /\ \A g \in Fibers \ {f} : parkKind'[g] = parkKind[g] /\ waitingOn'[g] = waitingOn[g]
      BY <1>0, <2>1 DEF TypeOK
    <2> QED BY <1>0, <2>1, <2>2, RunningUnlisted, ParkPlaceInv
  <1>4. CASE FiberEnd(f)
    <2>1. /\ \E s \in {"DONE", "FAILED"} : state' = [state EXCEPT ![f] = s]
          /\ current' = Main
          /\ UNCHANGED <<parkKind, waitingOn, recvWaiters, sendWaiters, ready, waking, timers>>
      BY <1>4 DEF FiberEnd, chanVars
    <2>2. /\ state'[f] \in {"DONE", "FAILED"} /\ \A g \in Fibers \ {f} : state'[g] = state[g]
          /\ Main \notin Fibers
      BY <1>0, <2>1, FiberAssumption DEF TypeOK
    <2> QED BY <1>0, <2>1, <2>2, RunningUnlisted, OverPlaceInv
  <1> QED BY <1>1, <1>2, <1>3, <1>4 DEF FiberStep

LEMMA MainDispatchPlaceInv ==
  ASSUME TypeInv, PlaceInv, EnoughRoom, MainDispatch
  PROVE  PlaceInv'
  <1>0. TypeOK /\ current = Main /\ waking = <<>> /\ timers' = timers /\ Main \notin Fibers
    BY FiberAssumption DEF TypeInv, MainDispatch, Settled
  <1>1. CASE ready = <<>>
    <2>1. UNCHANGED <<fiberVars, ready, current, chanVars, waking>>
      BY <1>1 DEF MainDispatch
    <2> QED BY <1>0, <2>1, NobodyWoken, WakesPlaceInv DEF fiberVars, chanVars
  <1>2. CASE ready # <<>>
    <2>0. PICK f \in Fibers : f = Head(ready)
      BY <1>0, <1>2 DEF TypeOK
    <2>1. /\ ready' = Tail(ready) /\ Once(ready') /\ Elems(ready') = Elems(ready) \ {f}
          /\ f \in Elems(ready)
      BY <1>0, <1>2, <2>0, TailOnce DEF MainDispatch, TypeOK, PlaceInv, ListsOnce
    <2>2. /\ PlaceOf(f) /\ Unlisted(f) /\ f \notin timers /\ f \notin Elems(waking)
          /\ state[f] \in {"READY", "FAILED"} /\ Once(waking)
      BY <2>1 DEF PlaceInv, PlaceOf, ListsOnce
    <2>3. CASE /\ state[f] # "READY"
               /\ UNCHANGED <<fiberVars, payload, current, chanVars, waking>>
      BY <1>0, <2>1, <2>2, <2>3, OverPlaceInv DEF fiberVars, chanVars
    <2>4. CASE Wakes /\ Run(f)
      BY <1>0, <1>2, <2>0, <2>1, <2>4, RunPlaceInv
    <2>5. CASE ResumePlain(f)
      BY <2>4, <2>5, NobodyWoken DEF ResumePlain, chanVars
    <2>6. CASE ResumeRecv(f)
      <3>1. PICK c \in Channels : c = waitingOn[f]
        BY <2>6 DEF ResumeRecv, TypeInv, PendingSendsCarryMessages
      <3>2. CASE (Pop(c) \/ TakeEof(c)) /\ Run(f)
        BY <1>0, <2>4, <3>2, ChannelWakes
      <3>3. CASE /\ Repark(f, Len(recvWaiters[c]) < WaiterMax)
                 /\ recvWaiters' = [recvWaiters EXCEPT ![c] =
                       IF Len(recvWaiters[c]) < WaiterMax THEN Append(@, f) ELSE @]
                 /\ UNCHANGED <<queue, closed, sendWaiters, delivered, waking>>
        <4>1. Len(recvWaiters[c]) < WaiterMax
          BY <1>0, <2>2, RoomFor DEF TypeOK, PlaceInv, ListsOnce, Unlisted
        <4>2. recvWaiters' = [recvWaiters EXCEPT ![c] = Append(@, f)]
          BY <3>3, <4>1
        <4>3. /\ state' = [state EXCEPT ![f] = "WAITING"]
              /\ UNCHANGED <<parkKind, waitingOn, current>>
          BY <3>3 DEF Repark
        <4>4. parkKind'[f] = "RECV" /\ waitingOn'[f] = c
          BY <2>6, <3>1, <4>3 DEF ResumeRecv
        <4> QED BY <1>0, <2>1, <2>2, <3>3, <4>2, <4>3, <4>4, ParkPlaceInv
      <3> QED BY <2>6, <3>1, <3>2, <3>3 DEF ResumeRecv
    <2>7. CASE ResumeSend(f)
      <3>1. PICK c \in Channels : c = waitingOn[f]
        BY <2>7 DEF ResumeSend, TypeInv, PendingSendsCarryMessages
      <3>2. CASE Push(c, payload[f]) /\ Run(f)
        <4>1. payload[f] \in Messages
          BY <2>7 DEF ResumeSend, TypeInv, PendingSendsCarryMessages
        <4> QED BY <1>0, <2>4, <3>2, <4>1, ChannelWakes
      <3>3. CASE Run(f) /\ UNCHANGED <<chanVars, waking>>
        BY <2>4, <3>3, NobodyWoken DEF chanVars
      <3>4. CASE /\ Repark(f, Len(sendWaiters[c]) < WaiterMax)
                 /\ sendWaiters' = [sendWaiters EXCEPT ![c] =
                       IF Len(sendWaiters[c]) < WaiterMax THEN Append(@, f) ELSE @]
                 /\ UNCHANGED <<payload, queue, closed, recvWaiters, delivered, waking>>
        <4>1. Len(sendWaiters[c]) < WaiterMax
          BY <1>0, <2>2, RoomFor DEF TypeOK, PlaceInv, ListsOnce, Unlisted
        <4>2. sendWaiters' = [sendWaiters EXCEPT ![c] = Append(@, f)]
          BY <3>4, <4>1
        <4>3. /\ state' = [state EXCEPT ![f] = "WAITING"]
              /\ UNCHANGED <<parkKind, waitingOn, current>>
          BY <3>4 DEF Repark
        <4>4. parkKind'[f] = "SEND" /\ waitingOn'[f] = c
          BY <2>7, <3>1, <4>3 DEF ResumeSend
        <4> QED BY <1>0, <2>1, <2>2, <3>4, <4>2, <4>3, <4>4, ParkPlaceInv
      <3> QED BY <2>7, <3>1, <3>2, <3>3, <3>4 DEF ResumeSend
    <2> QED BY <1>2, <2>0, <2>3, <2>5, <2>6, <2>7 DEF MainDispatch
  <1> QED BY <1>1, <1>2

LEMMA MainStepPlaceInv ==
  ASSUME TypeInv, PlaceInv, EnoughRoom, MainStep
  PROVE  PlaceInv'
  <1>0. TypeOK /\ Main \notin Fibers
    BY FiberAssumption DEF TypeInv
  <1>1. ASSUME Wakes, MainUnchanged, \A g \in Fibers : g \in timers' <=> g \in timers
        PROVE  PlaceInv'
    BY <1>1, WakesPlaceInv DEF MainUnchanged, fiberVars
  <1>2. ASSUME UNCHANGED <<chanVars, waking>> PROVE Wakes
    BY <1>2, NobodyWoken DEF chanVars
  <1>3. ASSUME NEW k \in Calls, MainCall(k) PROVE PlaceInv'
    BY <1>0, <1>1, <1>2, <1>3 DEF MainCall
  <1>4. CASE MainSend
    <2>1. call.on \in Channels /\ payload[Main] \in Messages /\ waking = <<>>
      BY <1>4, CallChannel DEF MainSend, AtTest, Settled, TypeInv, PendingSendsCarryMessages
    <2>2. Wakes
      BY <1>0, <1>2, <1>4, <2>1, ChannelWakes DEF MainSend, Again
    <2> QED BY <1>1, <1>4, <2>2 DEF MainSend, Again, Return
  <1>5. CASE MainRecv
    <2>1. call.on \in Channels /\ waking = <<>>
      BY <1>5, CallChannel DEF MainRecv, AtTest, Settled, TypeInv
    <2>2. Wakes
      BY <1>0, <1>2, <1>5, <2>1, ChannelWakes DEF MainRecv, Again
    <2> QED BY <1>1, <1>5, <2>2 DEF MainRecv, Again, Return
  <1>6. CASE MainJoin \/ MainSleep \/ MainTimeout
    BY <1>1, <1>2, <1>6 DEF MainJoin, MainSleep, MainTimeout, Again, Return
  <1>7. CASE MainReturned
    BY <1>1, <1>2, <1>7 DEF MainReturned, Again, Return
  <1>8. CASE MainPoll \/ MainBlock
    <2>1. CASE Return("deadlock") /\ UNCHANGED <<chanVars, waking>>
      BY <1>1, <1>2, <2>1 DEF Return
    <2>2. ASSUME NEW t \in timers, Fire(t), UNCHANGED <<chanVars, waking, current>>
          PROVE  PlaceInv'
      BY <1>0, <2>2, FirePlaceInv DEF chanVars
    <2>3. CASE NoFire /\ UNCHANGED <<chanVars, waking, current>>
      BY <1>1, <1>2, <2>3 DEF NoFire, MainUnchanged
    <2> QED BY <1>8, <2>1, <2>2, <2>3 DEF MainPoll, MainBlock
  <1>9. CASE MainDispatch
    BY <1>9, MainDispatchPlaceInv
  <1> QED BY <1>3, <1>4, <1>5, <1>6, <1>7, <1>8, <1>9 DEF MainStep

LEMMA NextPlaceInv ==
  ASSUME TypeInv, PlaceInv, EnoughRoom, [Next]_vars
  PROVE  PlaceInv'
  <1>1. CASE UNCHANGED vars
    BY <1>1, NobodyWoken, WakesPlaceInv DEF vars, fiberVars, chanVars
  <1>2. CASE WakeOne
    BY <1>2, WakeOnePlaceInv DEF TypeInv
  <1>3. CASE MainStep
    BY <1>3, MainStepPlaceInv
  <1>4. CASE \E f \in Fibers : FiberStep(f)
    BY <1>4, FiberStepPlaceInv
  <1>5. CASE \E x \in Contexts : AnyStep(x)
    BY <1>5, AnyStepPlaceInv DEF TypeInv
  <1> QED BY <1>1, <1>2, <1>3, <1>4, <1>5 DEF Next

LEMMA InitPlaceInv == Init => PlaceInv
  <1> SUFFICES ASSUME Init PROVE PlaceInv
    OBVIOUS
  <1>1. ListsOnce
    BY EmptyOnce DEF Init, ListsOnce
  <1>2. \A f \in Fibers : PlaceOf(f)
    BY EmptyOnce, FiberAssumption DEF Init, PlaceOf, Unlisted
  <1> QED BY <1>1, <1>2 DEF PlaceInv

LEMMA OccurrencesOnce ==
  ASSUME NEW s \in Seq(Fibers), Once(s), NEW f \in Fibers
  PROVE  Occurrences(f, s) = IF f \in Elems(s) THEN 1 ELSE 0
  <1>1. CASE f \in Elems(s)
    <2>1. PICK i \in DOMAIN s : s[i] = f
      BY <1>1 DEF Elems
    <2>2. {j \in DOMAIN s : s[j] = f} = {i}
      BY <2>1 DEF Once
    <2> QED BY <1>1, <2>2, FS_Singleton DEF Occurrences
  <1>2. CASE f \notin Elems(s)
    <2>1. {j \in DOMAIN s : s[j] = f} = {}
      BY <1>2 DEF Elems
    <2> QED BY <1>2, <2>1, FS_EmptySet DEF Occurrences
  <1> QED BY <1>1, <1>2

\* How many channels list f, from the one it can be listed on.
LEMMA ListingChannels ==
  ASSUME PlaceInv, NEW f \in Fibers
  PROVE  /\ Cardinality({c \in Channels : f \in Elems(recvWaiters[c])}) =
              IF \E c \in Channels : f \in Elems(recvWaiters[c]) THEN 1 ELSE 0
         /\ Cardinality({c \in Channels : f \in Elems(sendWaiters[c])}) =
              IF \E c \in Channels : f \in Elems(sendWaiters[c]) THEN 1 ELSE 0
  <1>1. \A c \in Channels :
          /\ f \in Elems(recvWaiters[c]) => waitingOn[f] = c
          /\ f \in Elems(sendWaiters[c]) => waitingOn[f] = c
    BY DEF PlaceInv, PlaceOf
  <1>2. \/ {c \in Channels : f \in Elems(recvWaiters[c])} = {}
        \/ {c \in Channels : f \in Elems(recvWaiters[c])} = {waitingOn[f]}
    BY <1>1
  <1>3. \/ {c \in Channels : f \in Elems(sendWaiters[c])} = {}
        \/ {c \in Channels : f \in Elems(sendWaiters[c])} = {waitingOn[f]}
    BY <1>1
  <1>4. Cardinality({}) = 0 /\ Cardinality({waitingOn[f]}) = 1
    BY FS_EmptySet, FS_Singleton
  <1>5. Cardinality({c \in Channels : f \in Elems(recvWaiters[c])}) =
          IF \E c \in Channels : f \in Elems(recvWaiters[c]) THEN 1 ELSE 0
    <2>1. CASE \E c \in Channels : f \in Elems(recvWaiters[c])
      <3>1. {c \in Channels : f \in Elems(recvWaiters[c])} # {}
        BY <2>1
      <3> QED BY <1>2, <1>4, <2>1, <3>1
    <2>2. CASE ~ \E c \in Channels : f \in Elems(recvWaiters[c])
      <3>1. {c \in Channels : f \in Elems(recvWaiters[c])} = {}
        BY <2>2
      <3> QED BY <1>4, <2>2, <3>1
    <2> QED BY <2>1, <2>2
  <1>6. Cardinality({c \in Channels : f \in Elems(sendWaiters[c])}) =
          IF \E c \in Channels : f \in Elems(sendWaiters[c]) THEN 1 ELSE 0
    <2>1. CASE \E c \in Channels : f \in Elems(sendWaiters[c])
      <3>1. {c \in Channels : f \in Elems(sendWaiters[c])} # {}
        BY <2>1
      <3> QED BY <1>3, <1>4, <2>1, <3>1
    <2>2. CASE ~ \E c \in Channels : f \in Elems(sendWaiters[c])
      <3>1. {c \in Channels : f \in Elems(sendWaiters[c])} = {}
        BY <2>2
      <3> QED BY <1>4, <2>2, <3>1
    <2> QED BY <2>1, <2>2
  <1> QED BY <1>5, <1>6

LEMMA PlacedHaveOneWaker == TypeOK /\ PlaceInv => EveryWaiterHasOneWaker
  <1> SUFFICES ASSUME TypeOK, PlaceInv PROVE EveryWaiterHasOneWaker
    OBVIOUS
  <1>1. ASSUME NEW c \in Channels
        PROVE  /\ \A f \in Elems(recvWaiters[c]) : parkKind[f] = "RECV" /\ waitingOn[f] = c
               /\ \A f \in Elems(sendWaiters[c]) : parkKind[f] = "SEND" /\ waitingOn[f] = c
    <2>1. Elems(recvWaiters[c]) \subseteq Fibers /\ Elems(sendWaiters[c]) \subseteq Fibers
      BY DEF TypeOK, Elems
    <2> QED BY <2>1 DEF PlaceInv, PlaceOf
  <1>2. ASSUME NEW f \in Fibers
        PROVE  /\ state[f] = "WAITING" => WakeSources(f) = 1 /\ f \notin Elems(ready)
               /\ state[f] = "READY" => Occurrences(f, ready) = 1 /\ WakeSources(f) = 0
               /\ state[f] = "DONE" => Occurrences(f, ready) + WakeSources(f) = 0
    <2>1. PlaceOf(f)
      BY DEF PlaceInv
    <2>2. /\ Occurrences(f, ready) = IF f \in Elems(ready) THEN 1 ELSE 0
          /\ Occurrences(f, waking) = IF f \in Elems(waking) THEN 1 ELSE 0
      BY OccurrencesOnce DEF TypeOK, PlaceInv, ListsOnce
    <2>3. Cardinality(timers \cap {f}) = IF f \in timers THEN 1 ELSE 0
      <3>1. CASE f \in timers
        <4>1. timers \cap {f} = {f}
          BY <3>1
        <4> QED BY <3>1, <4>1, FS_Singleton
      <3>2. CASE f \notin timers
        <4>1. timers \cap {f} = {}
          BY <3>2
        <4> QED BY <3>2, <4>1, FS_EmptySet
      <3> QED BY <3>1, <3>2
    <2>4. Unlisted(f) <=> /\ ~ \E c \in Channels : f \in Elems(recvWaiters[c])
                          /\ ~ \E c \in Channels : f \in Elems(sendWaiters[c])
      BY DEF Unlisted
    <2>5. ~ /\ \E c \in Channels : f \in Elems(recvWaiters[c])
            /\ \E c \in Channels : f \in Elems(sendWaiters[c])
      BY <2>1 DEF PlaceOf
    <2>6. WakeSources(f) =
            (IF f \in Elems(waking) THEN 1 ELSE 0)
            + (IF \E c \in Channels : f \in Elems(recvWaiters[c]) THEN 1 ELSE 0)
            + (IF \E c \in Channels : f \in Elems(sendWaiters[c]) THEN 1 ELSE 0)
            + (IF f \in timers THEN 1 ELSE 0)
      BY <2>2, <2>3, ListingChannels DEF WakeSources
    <2>7. CASE state[f] = "WAITING"
      <3>1. /\ f \notin Elems(ready)
            /\ f \in Elems(waking) => Unlisted(f) /\ f \notin timers
            /\ f \in timers => Unlisted(f)
            /\ f \in Elems(waking) \/ f \in timers \/ ~Unlisted(f)
        BY <2>1, <2>7 DEF PlaceOf, Unlisted
      <3> QED BY <2>4, <2>5, <2>6, <2>7, <3>1
    <2>8. CASE state[f] = "READY"
      <3>1. f \in Elems(ready) /\ f \notin Elems(waking) /\ f \notin timers /\ Unlisted(f)
        BY <2>1, <2>8 DEF PlaceOf
      <3> QED BY <2>2, <2>4, <2>6, <2>8, <3>1
    <2>9. CASE state[f] = "DONE"
      <3>1. f \notin Elems(ready) /\ f \notin Elems(waking) /\ f \notin timers /\ Unlisted(f)
        BY <2>1, <2>9 DEF PlaceOf
      <3> QED BY <2>2, <2>4, <2>6, <2>9, <3>1
    <2> QED BY <2>7, <2>8, <2>9
  <1> QED BY <1>1, <1>2 DEF EveryWaiterHasOneWaker

\* In a program with no more fibers than the ring and the waiter lists hold,
\* every fiber is listed where its state and its park say, and nowhere else.
THEOREM FibersInPlace ==
  ASSUME EnoughRoom
  PROVE  Spec => []PlaceInv
  <1>1. TypeInv /\ PlaceInv /\ [Next]_vars => PlaceInv'
    BY NextPlaceInv
  <1> QED BY <1>1, InitPlaceInv, TypeInvariant, PTL DEF Spec

\* So a waiting fiber is known to exactly one wake source, the one it parked
\* on, a ready fiber is queued once, and a finished one is nowhere: no wakeup
\* is lost or doubled (park_current_fiber, wake_waiter_list, poll_reactor_wake).
THEOREM OneWakerEach ==
  ASSUME EnoughRoom
  PROVE  Spec => []EveryWaiterHasOneWaker
  <1> QED BY TypeCorrect, FibersInPlace, PlacedHaveOneWaker, PTL

-----------------------------------------------------------------------------
(* The deadlock verdict of fiber-join.                                     *)

\* A plain fiber-join comes to its blocking poll with an empty ring, and
\* nothing is queued before the verdict; a fiber runs only in a dispatch.
BlockInv ==
  /\ current # Main => pc = "running"
  /\ pc = "block" /\ call.op = "join" /\ ~call.timed => ready = <<>> /\ waking = <<>>

LEMMA NextBlockInv ==
  ASSUME BlockInv, [Next]_vars
  PROVE  BlockInv'
  <1>0. Main \notin Fibers
    BY FiberAssumption
  <1>1. CASE UNCHANGED vars
    BY <1>1 DEF BlockInv, vars, mainVars
  <1>2. CASE WakeOne
    BY <1>2 DEF BlockInv, WakeOne, mainVars
  <1>3. CASE \E f \in Fibers : FiberStep(f)
    <2>1. PICK f \in Fibers : FiberStep(f)
      BY <1>3
    <2>2. current = f /\ pc = "running"
      BY <1>0, <2>1
      DEF BlockInv, FiberStep, FiberSend, FiberRecv, FiberSleep, FiberEnd, Executes
    <2>3. \/ current' = Main /\ pc' = "returned"
          \/ current' = current /\ pc' = pc
      BY <2>1 DEF FiberStep, FiberSend, FiberRecv, FiberSleep, FiberEnd, Park, GoesOn, mainVars
    <2> QED BY <2>2, <2>3 DEF BlockInv
  <1>4. CASE \E x \in Contexts : AnyStep(x)
    <2>1. PICK x \in Contexts : AnyStep(x)
      BY <1>4
    <2>2. current = x /\ (x = Main => pc = "program") /\ UNCHANGED <<current, mainVars>>
      BY <2>1 DEF AnyStep, Spawn, Terminate, Close, Executes
    <2>3. pc # "block"
      BY <2>2 DEF BlockInv
    <2> QED BY <2>2, <2>3 DEF BlockInv, mainVars
  <1>5. CASE MainStep
    <2>1. CASE (\E k \in Calls : MainCall(k)) \/ MainSend \/ MainRecv \/ MainJoin
               \/ MainTimeout
      BY <2>1
      DEF BlockInv, MainCall, MainSend, MainRecv, MainJoin, MainTimeout, Executes, AtTest,
          Return, Again, MainUnchanged
    <2>2. CASE MainSleep
      BY <2>2 DEF BlockInv, MainSleep, AtTest, Return, Again, MainUnchanged
    <2>3. CASE MainPoll
      BY <2>3 DEF BlockInv, MainPoll, Settled
    <2>4. CASE MainBlock
      BY <2>4 DEF BlockInv, MainBlock, Return, MainUnchanged
    <2>5. CASE MainReturned
      BY <2>5 DEF BlockInv, MainReturned, Settled, Return, Again, MainUnchanged
    <2>6. CASE MainDispatch
      <3>1. pc' \in {"returned", "running"} /\ (current' = Main \/ pc' = "running")
        BY <2>6 DEF MainDispatch, ResumePlain, ResumeRecv, ResumeSend, Run, Repark
      <3> QED BY <3>1 DEF BlockInv
    <2> QED BY <1>5, <2>1, <2>2, <2>3, <2>4, <2>5, <2>6 DEF MainStep
  <1> QED BY <1>1, <1>2, <1>3, <1>4, <1>5 DEF Next

\* Only the blocking poll of a join ever says so.
LEMMA DeadlockIsSaidByJoin ==
  ASSUME [Next]_vars, outcome # "deadlock", outcome' = "deadlock"
  PROVE  /\ pc = "block" /\ call.op = "join" /\ ~call.timed
         /\ timers = {} /\ Settled
  <1>1. CASE MainBlock
    BY <1>1 DEF MainBlock
  <1>2. CASE UNCHANGED outcome
    BY <1>2
  <1>3. CASE \E how \in {"ok", "error", "timeout", "not runnable"} : Return(how)
    BY <1>3 DEF Return
  <1>4. CASE MainStep
    <2>1. CASE \E k \in Calls : MainCall(k)
      BY <2>1 DEF MainCall
    <2>2. CASE MainSend \/ MainRecv \/ MainJoin \/ MainSleep \/ MainTimeout
      BY <1>2, <1>3, <2>2 DEF MainSend, MainRecv, MainJoin, MainSleep, MainTimeout, Again
    <2>3. CASE MainPoll \/ MainDispatch
      BY <1>2, <2>3 DEF MainPoll, MainDispatch
    <2>4. CASE MainReturned
      BY <1>2, <1>3, <2>4 DEF MainReturned, Again
    <2> QED BY <1>1, <1>4, <2>1, <2>2, <2>3, <2>4 DEF MainStep
  <1>5. CASE WakeOne \/ (\E f \in Fibers : FiberStep(f)) \/ (\E x \in Contexts : AnyStep(x))
    BY <1>2, <1>5, ZenonT(40)
    DEF WakeOne, FiberStep, FiberSend, FiberRecv, FiberSleep, FiberEnd, Park, GoesOn,
        AnyStep, Spawn, Terminate, Close, mainVars
  <1> QED BY <1>2, <1>4, <1>5 DEF Next, vars, mainVars

LEMMA DeadlockIsOne ==
  ASSUME TypeOK, PlaceInv, BlockInv, NoStrandedWaiter, Rendezvous = {},
         pc = "block", call.op = "join", ~call.timed, timers = {}, Settled,
         NEW f \in Fibers
  PROVE  /\ state[f] \notin {"READY", "RUNNING"} /\ f \notin timers
         /\ state[f] = "WAITING" => ~CouldComplete(f)
  <1>1. ready = <<>> /\ waking = <<>> /\ current = Main /\ Main # f
    BY FiberAssumption DEF BlockInv
  <1>2. PlaceOf(f) /\ f \notin Elems(ready) /\ f \notin Elems(waking)
    BY <1>1, EmptyOnce DEF PlaceInv
  <1>3. state[f] \notin {"READY", "RUNNING"}
    BY <1>1, <1>2 DEF PlaceOf
  <1>4. ASSUME state[f] = "WAITING" PROVE ~CouldComplete(f)
    <2>1. ~Unlisted(f)
      BY <1>2, <1>4 DEF PlaceOf
    <2>2. PICK c \in Channels : f \in Elems(recvWaiters[c]) \/ f \in Elems(sendWaiters[c])
      BY <2>1 DEF Unlisted
    <2>3. CASE f \in Elems(recvWaiters[c])
      <3>1. parkKind[f] = "RECV" /\ waitingOn[f] = c /\ recvWaiters[c] # <<>>
        BY <1>2, <2>3, EmptyOnce DEF PlaceOf
      <3> QED BY <3>1 DEF NoStrandedWaiter, CouldComplete
    <2>4. CASE f \in Elems(sendWaiters[c])
      <3>1. parkKind[f] = "SEND" /\ waitingOn[f] = c /\ sendWaiters[c] # <<>>
        BY <1>2, <2>4, EmptyOnce DEF PlaceOf
      <3>2. ~closed[c] /\ Capacity[c] # 0 /\ Len(queue[c]) >= Capacity[c]
        BY <3>1 DEF NoStrandedWaiter
      <3>3. Len(queue[c]) \in Nat /\ Capacity[c] \in Nat
        BY FiberAssumption DEF TypeOK
      <3>4. ~CanSend(c)
        BY <3>2, <3>3 DEF CanSend
      <3> QED BY <3>1, <3>2, <3>4 DEF CouldComplete
    <2> QED BY <2>2, <2>3, <2>4
  <1> QED BY <1>3, <1>4

\* fiber-join says "deadlock detected" only when it is one: nobody is ready,
\* nobody sleeps and no parked fiber's operation could complete.  Rendezvous
\* channels are left out: a sender and a receiver parked on one could meet,
\* and the verdict is passed all the same (run FiberRendezvous).
THEOREM DeadlockIsReal ==
  ASSUME EnoughRoom, Rendezvous = {}
  PROVE  Spec => DeadlockVerdictSound
  <1>1. Init => BlockInv
    BY DEF Init, BlockInv
  <1>2. BlockInv /\ [Next]_vars => BlockInv'
    BY NextBlockInv
  <1>3. TypeOK /\ PlaceInv /\ BlockInv /\ NoStrandedWaiter /\ [Next]_vars
        => [outcome # "deadlock" /\ outcome' = "deadlock" =>
              \A f \in Fibers :
                /\ state[f] \notin {"READY", "RUNNING"} /\ f \notin timers
                /\ state[f] = "WAITING" => ~CouldComplete(f)]_vars
    BY DeadlockIsSaidByJoin, DeadlockIsOne
  <1> QED
    BY <1>1, <1>2, <1>3, TypeCorrect, FibersInPlace, WaitersAreNotStranded, PTL
    DEF Spec, DeadlockVerdictSound

-----------------------------------------------------------------------------
(* The channels are the closable FIFO queues of ChannelSpec.               *)

\* The messages a context has brought so far: its operations count left down.
Used == {m \in Messages : m[2] > left[m[1]]}

UsedInv ==
  \A c \in Channels :
    Elems(queue[c]) \subseteq Used /\ Elems(delivered[c]) \subseteq Used \cup {Eof}

\* Who is in the middle of a send, and what it offers.
Offers(x) == IF x = Main THEN call.op = "send" ELSE parkKind[x] = "SEND"
OfferOf(x) == IF x = Main THEN <<call.on, payload[Main]>> ELSE <<waitingOn[x], payload[x]>>

\* Nobody runs in the middle of a send, and what is offered is the offerer's
\* own message, brought before.
OfferInv ==
  /\ \A f \in Fibers :
       /\ parkKind[f] \in {"RECV", "SEND"} => snapshot[f]
       /\ current = f => parkKind[f] = "NONE"
  /\ pc = "program" => call.op # "send"
  /\ \A x \in Contexts : Offers(x) => payload[x] \in Used /\ payload[x][1] = x

FlowInv == UsedInv /\ OfferInv

LEMMA ElemsAppend ==
  ASSUME NEW S, NEW s \in Seq(S), NEW x
  PROVE  Elems(Append(s, x)) = Elems(s) \cup {x}
  <1>1. /\ DOMAIN s = 1 .. Len(s) /\ DOMAIN Append(s, x) = 1 .. (Len(s) + 1)
        /\ Len(s) \in Nat /\ Append(s, x)[Len(s) + 1] = x
        /\ \A i \in 1 .. Len(s) : Append(s, x)[i] = s[i]
    OBVIOUS
  <1> QED BY <1>1 DEF Elems

LEMMA ElemsTail ==
  ASSUME NEW S, NEW s \in Seq(S), s # <<>>
  PROVE  Elems(Tail(s)) \subseteq Elems(s) /\ Head(s) \in Elems(s)
  <1>1. /\ DOMAIN s = 1 .. Len(s) /\ DOMAIN Tail(s) = 1 .. (Len(s) - 1)
        /\ Len(s) \in Nat /\ Len(s) > 0 /\ Head(s) = s[1]
        /\ \A i \in 1 .. (Len(s) - 1) : Tail(s)[i] = s[i + 1]
    OBVIOUS
  <1> QED BY <1>1 DEF Elems

\* No step gives a context operations back.
LEMMA LeftShrinks ==
  ASSUME TypeOK, [Next]_vars
  PROVE  /\ \A x \in Contexts : left'[x] \in Nat /\ left'[x] <= left[x]
         /\ Used \subseteq Used'
  <1>1. \A x \in Contexts : left[x] \in Nat
    BY FiberAssumption DEF TypeOK
  <1>2. left' = left \/ \E x \in Contexts : UseOp(x)
    <2>1. CASE WakeOne \/ (\E x \in Contexts : AnyStep(x))
      BY <2>1 DEF WakeOne, AnyStep, Spawn, Terminate, Close
    <2>2. ASSUME NEW f \in Fibers, FiberStep(f) PROVE left' = left \/ UseOp(f)
      BY <2>2 DEF FiberStep, FiberSend, FiberRecv, FiberSleep, FiberEnd
    <2>3. ASSUME NEW k \in Calls, MainCall(k) PROVE left' = left \/ UseOp(Main)
      BY <2>3 DEF MainCall
    <2>4. CASE MainSend \/ MainRecv \/ MainJoin \/ MainSleep \/ MainTimeout \/ MainPoll
               \/ MainBlock \/ MainDispatch \/ MainReturned
      BY <2>4
      DEF MainSend, MainRecv, MainJoin, MainSleep, MainTimeout, MainPoll, MainBlock,
          MainDispatch, MainReturned, Return, Again
    <2> QED BY <2>1, <2>2, <2>3, <2>4 DEF Next, MainStep, vars, Contexts
  <1>3. \A x \in Contexts : left'[x] \in Nat /\ left'[x] <= left[x]
    BY <1>1, <1>2 DEF UseOp, TypeOK
  <1>4. \A m \in Messages : m[1] \in Contexts /\ m[2] \in Nat
    BY FiberAssumption DEF Messages
  <1> QED BY <1>1, <1>3, <1>4 DEF Used

\* What UseOp's message is: not used before, used now.
LEMMA NewMessage ==
  ASSUME TypeOK, NEW x \in Contexts, UseOp(x)
  PROVE  /\ <<x, left[x]>> \in Messages \ Used
         /\ <<x, left[x]>> \in Used'
  <1>1. <<x, left[x]>> \in Messages
    BY OwnMessage DEF TypeOK
  <1>2. left[x] \in Nat /\ left'[x] = left[x] - 1
    BY FiberAssumption DEF UseOp, TypeOK
  <1> QED BY <1>1, <1>2 DEF Used

Offering == {OfferOf(x) : x \in {y \in Contexts : Offers(y)}}

LEMMA OfferedIsOffering == Offered = Offering
  <1>1. \A x \in Contexts : x = Main \/ x \in Fibers
    BY DEF Contexts
  <1>2. Main \in Contexts /\ \A f \in Fibers : f \in Contexts /\ f # Main
    BY FiberAssumption DEF Contexts
  <1> QED BY <1>1, <1>2 DEF Offered, Offering, Offers, OfferOf

LEMMA OfferedIsOfferingNext == Offered' = Offering'
  <1>1. \A x \in Contexts : x = Main \/ x \in Fibers
    BY DEF Contexts
  <1>2. Main \in Contexts /\ \A f \in Fibers : f \in Contexts /\ f # Main
    BY FiberAssumption DEF Contexts
  <1> QED BY <1>1, <1>2 DEF Offered, Offering, Offers, OfferOf

\* A step after which everybody offers what it offered before.
SameOffer(x) == (Offers(x)' <=> Offers(x)) /\ (Offers(x) => OfferOf(x)' = OfferOf(x))

LEMMA OfferedSame ==
  ASSUME \A x \in Contexts : SameOffer(x)
  PROVE  Offered' = Offered
  <1>1. Offering = {OfferOf(x) : x \in {y \in Contexts : Offers(y)}}
    BY DEF Offering
  <1>2. Offering' = {OfferOf(x)' : x \in {y \in Contexts : Offers(y)'}}
    BY DEF Offering
  <1>3. Offering' = Offering
    BY <1>1, <1>2 DEF SameOffer
  <1> QED BY <1>3, OfferedIsOffering, OfferedIsOfferingNext

LEMMA OfferedMore ==
  ASSUME NEW x \in Contexts, \A y \in Contexts \ {x} : SameOffer(y),
         ~Offers(x), Offers(x)'
  PROVE  Offered' = Offered \cup {OfferOf(x)'}
  <1>1. Offering = {OfferOf(y) : y \in {z \in Contexts : Offers(z)}}
    BY DEF Offering
  <1>2. Offering' = {OfferOf(y)' : y \in {z \in Contexts : Offers(z)'}}
    BY DEF Offering
  <1>3. Offering' = Offering \cup {OfferOf(x)'}
    BY <1>1, <1>2 DEF SameOffer
  <1> QED BY <1>3, OfferedIsOffering, OfferedIsOfferingNext

\* The offers of two contexts are different messages.
LEMMA OfferedLess ==
  ASSUME OfferInv, NEW x \in Contexts, \A y \in Contexts \ {x} : SameOffer(y),
         Offers(x), ~Offers(x)'
  PROVE  Offered' = Offered \ {OfferOf(x)} /\ OfferOf(x) \in Offered
  <1>1. Offering = {OfferOf(y) : y \in {z \in Contexts : Offers(z)}}
    BY DEF Offering
  <1>2. Offering' = {OfferOf(y)' : y \in {z \in Contexts : Offers(z)'}}
    BY DEF Offering
  <1>3. ASSUME NEW y \in Contexts \ {x}, Offers(y) PROVE OfferOf(y) # OfferOf(x)
    <2>1. payload[y][1] = y /\ payload[x][1] = x
      BY <1>3 DEF OfferInv
    <2>2. OfferOf(y)[2] = payload[y] /\ OfferOf(x)[2] = payload[x]
      BY DEF OfferOf
    <2> QED BY <2>1, <2>2
  <1>4. Offering' = Offering \ {OfferOf(x)} /\ OfferOf(x) \in Offering
    BY <1>1, <1>2, <1>3 DEF SameOffer
  <1> QED BY <1>4, OfferedIsOffering, OfferedIsOfferingNext

AbstractStep == [Chan!Next]_(Chan!vars)
Flows == UsedInv' /\ AbstractStep

\* What a step on channel c does to the history of the messages.
LEMMA UsedKept ==
  ASSUME TypeOK, UsedInv, Used \subseteq Used',
         \/ UNCHANGED <<queue, delivered>>
         \/ \E c \in Channels, m \in Messages \cap Used' : Push(c, m)
         \/ \E c \in Channels : queue[c] # <<>> /\ Pop(c)
         \/ \E c \in Channels : TakeEof(c)
  PROVE  UsedInv'
  <1>1. CASE UNCHANGED <<queue, delivered>>
    BY <1>1 DEF UsedInv
  <1>2. ASSUME NEW c \in Channels, NEW m \in Messages \cap Used', Push(c, m) PROVE UsedInv'
    <2>1. ASSUME NEW d \in Channels
          PROVE  Elems(queue'[d]) \subseteq Used' /\ delivered'[d] = delivered[d]
      <3>1. queue[d] \in Seq(Messages) /\ delivered' = delivered
        BY <1>2 DEF Push, TypeOK
      <3>2. queue'[d] = queue[d] \/ queue'[d] = Append(queue[d], m)
        BY <1>2 DEF Push, TypeOK
      <3>3. Elems(Append(queue[d], m)) = Elems(queue[d]) \cup {m}
        BY <3>1, ElemsAppend
      <3> QED BY <3>1, <3>2, <3>3 DEF UsedInv
    <2> QED BY <2>1 DEF UsedInv
  <1>3. ASSUME NEW c \in Channels, queue[c] # <<>>, Pop(c) PROVE UsedInv'
    <2>1. ASSUME NEW d \in Channels
          PROVE  /\ Elems(queue'[d]) \subseteq Used
                 /\ Elems(delivered'[d]) \subseteq Used \cup {Eof}
      <3>1. queue[d] \in Seq(Messages) /\ delivered[d] \in Seq(Messages \cup {Eof})
        BY DEF TypeOK
      <3>2. CASE d = c
        <4>1. /\ queue'[d] = Tail(queue[d])
              /\ delivered'[d] = Append(delivered[d], Head(queue[d]))
          BY <1>3, <3>2 DEF Pop, TypeOK
        <4>2. Elems(Tail(queue[d])) \subseteq Elems(queue[d]) /\ Head(queue[d]) \in Elems(queue[d])
          BY <1>3, <3>1, <3>2, ElemsTail
        <4>3. Elems(delivered'[d]) = Elems(delivered[d]) \cup {Head(queue[d])}
          BY <3>1, <4>1, ElemsAppend
        <4> QED BY <4>1, <4>2, <4>3 DEF UsedInv
      <3>3. CASE d # c
        <4>1. queue'[d] = queue[d] /\ delivered'[d] = delivered[d]
          BY <1>3, <3>3 DEF Pop, TypeOK
        <4> QED BY <4>1 DEF UsedInv
      <3> QED BY <3>2, <3>3
    <2> QED BY <2>1 DEF UsedInv
  <1>4. ASSUME NEW c \in Channels, TakeEof(c) PROVE UsedInv'
    <2>1. ASSUME NEW d \in Channels
          PROVE  /\ Elems(queue'[d]) \subseteq Used
                 /\ Elems(delivered'[d]) \subseteq Used \cup {Eof}
      <3>1. /\ queue' = queue /\ delivered[d] \in Seq(Messages \cup {Eof})
            /\ delivered'[d] = delivered[d] \/ delivered'[d] = Append(delivered[d], Eof)
        BY <1>4 DEF TakeEof, TypeOK
      <3> QED BY <3>1, ElemsAppend, ZenonT(40) DEF UsedInv
    <2> QED BY <2>1 DEF UsedInv
  <1> QED BY <1>1, <1>2, <1>3, <1>4

\* No other channel operation and no message: ChannelSpec does not move.
LEMMA QuietFlows ==
  ASSUME TypeOK, UsedInv, Used \subseteq Used', UNCHANGED <<queue, closed, delivered>>,
         \A x \in Contexts : SameOffer(x)
  PROVE  Flows
  <1>1. Offered' = Offered
    BY OfferedSame
  <1> QED BY <1>1, UsedKept DEF Flows, AbstractStep, Chan!vars

LEMMA ReceiveFlows ==
  ASSUME TypeOK, UsedInv, Used \subseteq Used', \A x \in Contexts : SameOffer(x),
         NEW c \in Channels,
         \/ queue[c] # <<>> /\ Pop(c)
         \/ queue[c] = <<>> /\ closed[c] /\ TakeEof(c)
  PROVE  Flows
  <1>1. Offered' = Offered
    BY OfferedSame
  <1>2. UsedInv'
    BY UsedKept
  <1>3. Chan!Receive(c) \/ Chan!ReceiveEof(c)
    BY <1>1 DEF Chan!Receive, Chan!ReceiveEof, Pop, TakeEof
  <1> QED BY <1>2, <1>3 DEF Flows, AbstractStep, Chan!Next

\* A channel that takes a message now has room for it, a rendezvous channel
\* because its receiver is parked and what it had was taken.
LEMMA SendHasRoom ==
  ASSUME TypeOK, NoStrandedWaiter, NEW c \in Channels, CanSend(c)
  PROVE  Chan!Room(c)
  <1>1. CASE c \in Rendezvous
    <2>1. ~closed[c] /\ queue[c] = <<>>
      BY <1>1 DEF CanSend, NoStrandedWaiter
    <2> QED BY <1>1, <2>1 DEF Chan!Room, ChannelBound
  <1>2. CASE c \notin Rendezvous
    BY <1>2 DEF CanSend, Chan!Room, ChannelBound
  <1> QED BY <1>1, <1>2

\* A message nobody used before is nowhere.
LEMMA UnusedIsFresh ==
  ASSUME UsedInv, OfferInv, NEW m \in Messages \ Used
  PROVE  Chan!Fresh(m)
  <1>1. ASSUME NEW c \in Channels PROVE <<c, m>> \notin Offered
    <2>1. \A x \in Contexts : Offers(x) => OfferOf(x)[2] \in Used
      BY DEF OfferInv, OfferOf
    <2>2. <<c, m>> \notin Offering
      BY <2>1 DEF Offering
    <2> QED BY <2>2, OfferedIsOffering
  <1>2. ASSUME NEW c \in Channels
        PROVE  /\ \A i \in DOMAIN queue[c] : queue[c][i] # m
               /\ \A i \in DOMAIN delivered[c] : delivered[c][i] # m
    BY EofIsNoMessage DEF UsedInv, Elems
  <1> QED BY <1>1, <1>2 DEF Chan!Fresh

LEMMA SendFlows ==
  ASSUME TypeOK, NoStrandedWaiter, FlowInv, Used \subseteq Used',
         \A x \in Contexts : SameOffer(x),
         NEW c \in Channels, NEW m \in Messages \ Used, m \in Used', CanSend(c), Push(c, m)
  PROVE  Flows
  <1>1. Offered' = Offered
    BY OfferedSame
  <1>2. UsedInv'
    BY UsedKept DEF FlowInv
  <1>3. Chan!Send(c, m)
    BY <1>1, SendHasRoom, UnusedIsFresh DEF Chan!Send, Chan!Enter, Push, FlowInv
  <1> QED BY <1>2, <1>3 DEF Flows, AbstractStep, Chan!Next

LEMMA OfferFlows ==
  ASSUME TypeOK, FlowInv, Used \subseteq Used', UNCHANGED <<queue, closed, delivered>>,
         NEW x \in Contexts, \A y \in Contexts \ {x} : SameOffer(y),
         ~Offers(x), Offers(x)',
         NEW c \in Channels, NEW m \in Messages \ Used, OfferOf(x)' = <<c, m>>
  PROVE  Flows
  <1>1. Offered' = Offered \cup {<<c, m>>}
    BY OfferedMore
  <1>2. Chan!Offer(c, m)
    BY <1>1, UnusedIsFresh DEF Chan!Offer, FlowInv
  <1> QED BY <1>2, UsedKept DEF Flows, FlowInv, AbstractStep, Chan!Next

LEMMA AcceptFlows ==
  ASSUME TypeOK, NoStrandedWaiter, FlowInv, Used \subseteq Used',
         NEW x \in Contexts, \A y \in Contexts \ {x} : SameOffer(y),
         Offers(x), ~Offers(x)',
         NEW c \in Channels, NEW m \in Messages, OfferOf(x) = <<c, m>>, m = payload[x],
         CanSend(c), Push(c, m)
  PROVE  Flows
  <1>1. Offered' = Offered \ {<<c, m>>} /\ <<c, m>> \in Offered
    BY OfferedLess DEF FlowInv
  <1>2. m \in Used'
    BY DEF FlowInv, OfferInv
  <1>3. Chan!Accept(c, m)
    BY <1>1, SendHasRoom DEF Chan!Accept, Chan!Enter, Push
  <1> QED BY <1>2, <1>3, UsedKept DEF Flows, FlowInv, AbstractStep, Chan!Next

LEMMA RefuseFlows ==
  ASSUME TypeOK, FlowInv, Used \subseteq Used', UNCHANGED <<queue, closed, delivered>>,
         NEW x \in Contexts, \A y \in Contexts \ {x} : SameOffer(y),
         Offers(x), ~Offers(x)',
         NEW c \in Channels, NEW m \in Messages, OfferOf(x) = <<c, m>>,
         closed[c] \/ m[1] = Main
  PROVE  Flows
  <1>1. Offered' = Offered \ {<<c, m>>} /\ <<c, m>> \in Offered
    BY OfferedLess DEF FlowInv
  <1>2. Chan!Refuse(c, m)
    BY <1>1 DEF Chan!Refuse
  <1> QED BY <1>2, UsedKept DEF Flows, FlowInv, AbstractStep, Chan!Next

\* The offers of others are as they were when one fiber, or only Main, moves.
LEMMA OthersOffer ==
  ASSUME NEW f \in Fibers, call' = call, payload'[Main] = payload[Main],
         \A g \in Fibers \ {f} : /\ parkKind'[g] = parkKind[g] /\ waitingOn'[g] = waitingOn[g]
                                 /\ payload'[g] = payload[g]
  PROVE  \A y \in Contexts \ {f} : SameOffer(y) /\ payload'[y] = payload[y]
  BY DEF Contexts, SameOffer, Offers, OfferOf

LEMMA FibersOffer ==
  ASSUME UNCHANGED <<parkKind, waitingOn>>, \A g \in Fibers : payload'[g] = payload[g]
  PROVE  \A y \in Contexts \ {Main} : SameOffer(y) /\ payload'[y] = payload[y]
  BY DEF Contexts, SameOffer, Offers, OfferOf

LEMMA AllOffer ==
  ASSUME UNCHANGED <<parkKind, waitingOn, payload, call>>
  PROVE  \A y \in Contexts : SameOffer(y) /\ payload'[y] = payload[y]
  BY DEF Contexts, SameOffer, Offers, OfferOf

\* A step of which OfferInv depends only on x.
LEMMA OfferInvKept ==
  ASSUME OfferInv, Used \subseteq Used', NEW x \in Contexts,
         \A y \in Contexts \ {x} : SameOffer(y) /\ payload'[y] = payload[y],
         Offers(x)' => payload'[x] \in Used' /\ payload'[x][1] = x,
         \A f \in Fibers : /\ parkKind'[f] \in {"RECV", "SEND"} => snapshot'[f]
                           /\ current' = f => parkKind'[f] = "NONE",
         pc' = "program" => call'.op # "send"
  PROVE  OfferInv'
  <1>1. ASSUME NEW y \in Contexts, Offers(y)' PROVE payload'[y] \in Used' /\ payload'[y][1] = y
    BY <1>1 DEF OfferInv, SameOffer
  <1> QED BY <1>1 DEF OfferInv

LEMMA AnyStepFlows ==
  ASSUME TypeInv, FlowInv, Used \subseteq Used', NEW x \in Contexts, AnyStep(x)
  PROVE  OfferInv' /\ Flows
  <1>1. UNCHANGED <<snapshot, parkKind, waitingOn, payload, call, pc, current, queue, delivered>>
    BY DEF AnyStep, Spawn, Terminate, Close, fiberVars, chanVars, mainVars
  <1>2. \A y \in Contexts : SameOffer(y) /\ payload'[y] = payload[y]
    BY <1>1, AllOffer
  <1>3. OfferInv'
    <2>1. OfferInv /\ (Offers(x)' => payload'[x] \in Used' /\ payload'[x][1] = x)
      BY <1>2 DEF FlowInv, OfferInv, SameOffer
    <2>2. /\ \A f \in Fibers : /\ parkKind'[f] \in {"RECV", "SEND"} => snapshot'[f]
                               /\ current' = f => parkKind'[f] = "NONE"
          /\ pc' = "program" => call'.op # "send"
      BY <1>1, <2>1 DEF OfferInv
    <2> QED BY <1>2, <2>1, <2>2, OfferInvKept
  <1>4. CASE UNCHANGED closed
    <2>1. UNCHANGED <<queue, closed, delivered>> /\ \A y \in Contexts : SameOffer(y)
      BY <1>1, <1>2, <1>4
    <2> QED BY <1>3, <2>1, QuietFlows DEF TypeInv, FlowInv
  <1>5. ASSUME NEW c \in Channels, Close(x, c) PROVE Flows
    <2>1. Offered' = Offered
      BY <1>2, OfferedSame
    <2>2. UsedInv'
      BY <1>1, UsedKept DEF TypeInv, FlowInv
    <2>3. Chan!Close(c)
      BY <1>1, <1>5, <2>1 DEF Close, Chan!Close
    <2> QED BY <2>2, <2>3 DEF Flows, AbstractStep, Chan!Next
  <1> QED BY <1>3, <1>4, <1>5 DEF AnyStep, Spawn, Terminate, chanVars

LEMMA FiberStepFlows ==
  ASSUME TypeInv, NoStrandedWaiter, FlowInv, [Next]_vars, NEW f \in Fibers, FiberStep(f)
  PROVE  OfferInv' /\ Flows
  <1>0. /\ TypeOK /\ current = f /\ parkKind[f] = "NONE" /\ ~Offers(f) /\ f # Main
        /\ f \in Contexts /\ Main \notin Fibers /\ Used \subseteq Used' /\ OfferInv
        /\ UsedInv
    BY FiberAssumption, LeftShrinks
    DEF TypeInv, FlowInv, OfferInv, FiberStep, FiberSend, FiberRecv, FiberSleep, FiberEnd,
        Executes, Offers, Contexts
  <1>1. ASSUME GoesOn, payload' = payload
        PROVE  OfferInv' /\ \A y \in Contexts : SameOffer(y)
    <2>1. UNCHANGED <<snapshot, parkKind, waitingOn, payload, call, pc, current>>
      BY <1>1 DEF GoesOn, fiberVars, mainVars
    <2>2. \A y \in Contexts : SameOffer(y) /\ payload'[y] = payload[y]
      BY <2>1, AllOffer
    <2> QED BY <1>0, <2>1, <2>2, OfferInvKept DEF OfferInv, SameOffer
  <1>2. ASSUME NEW k \in {"RECV", "SLEEP"}, NEW on \in Channels \cup {Nothing},
               Park(f, k, on), payload' = payload
        PROVE  OfferInv' /\ \A y \in Contexts : SameOffer(y)
    <2>1. /\ call' = call /\ current' = Main /\ pc' = "returned"
          /\ parkKind' = [parkKind EXCEPT ![f] = k]
          /\ waitingOn' = [waitingOn EXCEPT ![f] = on]
          /\ snapshot' = [snapshot EXCEPT ![f] = TRUE]
      BY <1>2 DEF Park
    <2>2. /\ parkKind'[f] = k /\ snapshot'[f]
          /\ \A g \in Fibers \ {f} : /\ parkKind'[g] = parkKind[g] /\ waitingOn'[g] = waitingOn[g]
                                     /\ snapshot'[g] = snapshot[g]
      BY <1>0, <2>1 DEF TypeOK
    <2>3. \A y \in Contexts \ {f} : SameOffer(y) /\ payload'[y] = payload[y]
      BY <1>2, <2>1, <2>2, OthersOffer
    <2>4. SameOffer(f) /\ ~Offers(f)'
      BY <1>0, <2>2 DEF SameOffer, Offers
    <2>5. OfferInv'
      BY <1>0, <2>1, <2>2, <2>3, <2>4, OfferInvKept DEF OfferInv
    <2> QED BY <2>3, <2>4, <2>5
  <1>3. ASSUME NEW c \in Channels, FiberSend(f, c) PROVE OfferInv' /\ Flows
    <2>1. PICK m \in Messages \ Used : m = <<f, left[f]>> /\ m \in Used'
      BY <1>0, <1>3, NewMessage DEF FiberSend
    <2>2. CASE CanSend(c) /\ Push(c, m) /\ GoesOn /\ UNCHANGED payload
      BY <1>0, <1>1, <2>1, <2>2, SendFlows
    <2>3. CASE /\ payload' = [payload EXCEPT ![f] = m]
               /\ Park(f, "SEND", c)
               /\ UNCHANGED <<queue, closed, recvWaiters, delivered, waking>>
      <3>1. /\ call' = call /\ current' = Main /\ pc' = "returned"
            /\ parkKind' = [parkKind EXCEPT ![f] = "SEND"]
            /\ waitingOn' = [waitingOn EXCEPT ![f] = c]
            /\ snapshot' = [snapshot EXCEPT ![f] = TRUE]
        BY <2>3 DEF Park
      <3>2. /\ parkKind'[f] = "SEND" /\ snapshot'[f] /\ waitingOn'[f] = c /\ payload'[f] = m
            /\ payload'[Main] = payload[Main]
            /\ \A g \in Fibers \ {f} : /\ parkKind'[g] = parkKind[g] /\ waitingOn'[g] = waitingOn[g]
                                       /\ snapshot'[g] = snapshot[g] /\ payload'[g] = payload[g]
        BY <1>0, <2>3, <3>1 DEF TypeOK, Contexts
      <3>3. \A y \in Contexts \ {f} : SameOffer(y) /\ payload'[y] = payload[y]
        BY <3>1, <3>2, OthersOffer
      <3>4. Offers(f)' /\ OfferOf(f)' = <<c, m>>
        BY <1>0, <3>2 DEF Offers, OfferOf
      <3>5. OfferInv'
        BY <1>0, <2>1, <3>1, <3>2, <3>3, OfferInvKept DEF OfferInv
      <3>6. Flows
        BY <1>0, <2>1, <2>3, <3>3, <3>4, OfferFlows
      <3> QED BY <3>5, <3>6
    <2>4. CASE GoesOn /\ UNCHANGED <<chanVars, payload, waking>>
      BY <1>0, <1>1, <2>4, QuietFlows DEF chanVars
    <2> QED BY <1>3, <2>1, <2>2, <2>3, <2>4 DEF FiberSend
  <1>4. ASSUME NEW c \in Channels, FiberRecv(f, c) PROVE OfferInv' /\ Flows
    <2>1. payload' = payload
      BY <1>4 DEF FiberRecv
    <2>2. CASE /\ GoesOn
               /\ \/ queue[c] # <<>> /\ Pop(c)
                  \/ queue[c] = <<>> /\ closed[c] /\ TakeEof(c)
      BY <1>0, <1>1, <2>1, <2>2, ReceiveFlows
    <2>3. CASE Park(f, "RECV", c) /\ UNCHANGED <<queue, closed, delivered>>
      BY <1>0, <1>2, <2>1, <2>3, QuietFlows
    <2>4. CASE GoesOn /\ UNCHANGED <<chanVars, waking>>
      BY <1>0, <1>1, <2>1, <2>4, QuietFlows DEF chanVars
    <2> QED BY <1>4, <2>2, <2>3, <2>4 DEF FiberRecv
  <1>5. CASE FiberSleep(f)
    <2>1. Park(f, "SLEEP", Nothing) /\ payload' = payload /\ UNCHANGED <<queue, closed, delivered>>
      BY <1>5 DEF FiberSleep, chanVars
    <2> QED BY <1>0, <1>2, <2>1, QuietFlows
  <1>6. CASE FiberEnd(f)
    <2>1. /\ UNCHANGED <<snapshot, parkKind, waitingOn, payload, call, queue, closed, delivered>>
          /\ current' = Main /\ pc' = "returned"
      BY <1>6 DEF FiberEnd, chanVars
    <2>2. \A y \in Contexts : SameOffer(y) /\ payload'[y] = payload[y]
      BY <2>1, AllOffer
    <2>3. OfferInv'
      BY <1>0, <2>1, <2>2, OfferInvKept DEF OfferInv, SameOffer
    <2> QED BY <1>0, <2>1, <2>2, <2>3, QuietFlows
  <1> QED BY <1>3, <1>4, <1>5, <1>6 DEF FiberStep

\* A call of Main that ends has no offer any more.
LEMMA ReturnOffers ==
  ASSUME TypeInv, OfferInv, Used \subseteq Used', NEW how \in Outcomes, Return(how)
  PROVE  /\ OfferInv' /\ ~Offers(Main)'
         /\ \A y \in Contexts \ {Main} : SameOffer(y)
  <1>1. /\ UNCHANGED <<snapshot, parkKind, waitingOn, current>>
        /\ call' = NoCall /\ \A g \in Fibers : payload'[g] = payload[g]
    BY ReturnType DEF TypeInv, Return, MainUnchanged, fiberVars
  <1>2. \A y \in Contexts \ {Main} : SameOffer(y) /\ payload'[y] = payload[y]
    BY <1>1, FibersOffer
  <1>3. ~Offers(Main)' /\ call'.op # "send"
    BY <1>1 DEF Offers, NoCall
  <1>4. Main \in Contexts
    BY DEF Contexts
  <1>5. \A f \in Fibers : /\ parkKind'[f] \in {"RECV", "SEND"} => snapshot'[f]
                          /\ current' = f => parkKind'[f] = "NONE"
    BY <1>1 DEF OfferInv
  <1>6. OfferInv'
    BY <1>2, <1>3, <1>4, <1>5, OfferInvKept
  <1> QED BY <1>2, <1>3, <1>6

\* What Main is in the middle of sending.
LEMMA MainOffer ==
  ASSUME TypeInv, OfferInv, call.op = "send"
  PROVE  /\ Main \in Contexts /\ Offers(Main) /\ OfferOf(Main) = <<call.on, payload[Main]>>
         /\ call.on \in Channels /\ payload[Main] \in Messages /\ payload[Main][1] = Main
  <1>1. Main \in Contexts /\ Offers(Main) /\ OfferOf(Main) = <<call.on, payload[Main]>>
    BY DEF Contexts, Offers, OfferOf
  <1> QED BY <1>1, CallChannel DEF TypeInv, PendingSendsCarryMessages, OfferInv

\* The call gives up (its send is Main's, which may) or had nothing to offer.
LEMMA ReturnFlows ==
  ASSUME TypeInv, FlowInv, Used \subseteq Used', NEW how \in Outcomes, Return(how),
         UNCHANGED <<queue, closed, delivered>>
  PROVE  OfferInv' /\ Flows
  <1>1. /\ OfferInv' /\ ~Offers(Main)' /\ \A y \in Contexts \ {Main} : SameOffer(y)
        /\ TypeOK /\ UsedInv /\ OfferInv
    BY ReturnOffers DEF FlowInv, TypeInv
  <1>2. CASE call.op = "send"
    <2>1. PICK c \in Channels, m \in Messages :
            c = call.on /\ m = payload[Main] /\ m[1] = Main
      BY <1>1, <1>2, MainOffer
    <2>2. Main \in Contexts /\ Offers(Main) /\ OfferOf(Main) = <<c, m>>
      BY <1>1, <1>2, <2>1, MainOffer
    <2> QED BY <1>1, <2>1, <2>2, RefuseFlows
  <1>3. CASE call.op # "send"
    <2>1. SameOffer(Main)
      BY <1>1, <1>3 DEF SameOffer, Offers
    <2>2. \A y \in Contexts : SameOffer(y)
      BY <1>1, <2>1
    <2> QED BY <1>1, <2>2, QuietFlows
  <1> QED BY <1>2, <1>3

LEMMA AgainFlows ==
  ASSUME TypeInv, FlowInv, Used \subseteq Used', UNCHANGED <<queue, closed, delivered>>,
         UNCHANGED <<snapshot, parkKind, waitingOn, payload, call>>,
         current' = current \/ current' \notin Fibers, pc' # "program" \/ pc' = pc
  PROVE  OfferInv' /\ Flows
  <1>0. TypeOK /\ UsedInv /\ OfferInv /\ Main \in Contexts
    BY DEF TypeInv, FlowInv, Contexts
  <1>1. \A y \in Contexts : SameOffer(y) /\ payload'[y] = payload[y]
    BY AllOffer
  <1>2. Flows
    BY <1>0, <1>1, QuietFlows
  <1>3. Offers(Main)' => payload'[Main] \in Used' /\ payload'[Main][1] = Main
    BY <1>0, <1>1 DEF OfferInv, SameOffer
  <1>4. /\ \A f \in Fibers : /\ parkKind'[f] \in {"RECV", "SEND"} => snapshot'[f]
                             /\ current' = f => parkKind'[f] = "NONE"
        /\ pc' = "program" => call'.op # "send"
    BY <1>0 DEF OfferInv
  <1>5. \A y \in Contexts \ {Main} : SameOffer(y) /\ payload'[y] = payload[y]
    BY <1>1
  <1>6. OfferInv'
    BY <1>0, <1>3, <1>4, <1>5, OfferInvKept
  <1> QED BY <1>2, <1>6

LEMMA MainCallFlows ==
  ASSUME TypeInv, FlowInv, Used \subseteq Used', NEW k \in Calls, MainCall(k)
  PROVE  OfferInv' /\ Flows
  <1>0. /\ TypeOK /\ UsedInv /\ OfferInv /\ Main \in Contexts /\ Main \notin Fibers
        /\ current = Main /\ pc = "program" /\ ~Offers(Main)
    BY FiberAssumption
    DEF TypeInv, FlowInv, Contexts, MainCall, Executes, OfferInv, Offers
  <1>1. /\ UNCHANGED <<snapshot, parkKind, waitingOn, current, queue, closed, delivered>>
        /\ call' = k /\ pc' # "program"
    BY DEF MainCall, MainUnchanged, fiberVars, chanVars
  <1>2. \A g \in Fibers : payload'[g] = payload[g]
    BY <1>0 DEF MainCall, TypeOK, Contexts
  <1>3. \A y \in Contexts \ {Main} : SameOffer(y) /\ payload'[y] = payload[y]
    BY <1>1, <1>2, FibersOffer
  <1>4. /\ \A f \in Fibers : /\ parkKind'[f] \in {"RECV", "SEND"} => snapshot'[f]
                             /\ current' = f => parkKind'[f] = "NONE"
        /\ pc' = "program" => call'.op # "send"
    BY <1>0, <1>1 DEF OfferInv
  <1>5. CASE k.op = "send"
    <2>1. PICK m \in Messages \ Used : m = <<Main, left[Main]>> /\ m \in Used'
      BY <1>0, <1>5, NewMessage DEF MainCall
    <2>2. payload'[Main] = m
      BY <1>0, <1>5, <2>1 DEF MainCall, TypeOK
    <2>3. PICK c \in Channels : c = k.on
      <3>1. k.op \notin {"none", "join", "yield", "sleep"}
        BY <1>5
      <3>2. /\ k \notin [op : {"join"}, on : Fibers, timed : BOOLEAN]
            /\ k \notin [op : {"yield", "sleep"}, on : {Nothing}, timed : {FALSE}]
        BY <3>1
      <3>3. k # NoCall
        BY <3>1 DEF NoCall
      <3>4. k \in [op : {"send", "recv"}, on : Channels, timed : BOOLEAN]
        BY <3>2, <3>3 DEF Calls
      <3> QED BY <3>4
    <2>4. Offers(Main)' /\ OfferOf(Main)' = <<c, m>>
      BY <1>1, <1>5, <2>2, <2>3 DEF Offers, OfferOf
    <2>5. OfferInv'
      BY <1>0, <1>3, <1>4, <2>1, <2>2, OfferInvKept
    <2>6. Flows
      BY <1>0, <1>1, <1>3, <2>1, <2>4, OfferFlows DEF FlowInv
    <2> QED BY <2>5, <2>6
  <1>6. CASE k.op # "send"
    <2>1. ~Offers(Main)' /\ SameOffer(Main)
      BY <1>0, <1>1, <1>6 DEF Offers, SameOffer
    <2>2. OfferInv'
      BY <1>0, <1>3, <1>4, <2>1, OfferInvKept
    <2>3. \A y \in Contexts : SameOffer(y)
      BY <1>3, <2>1
    <2> QED BY <1>0, <1>1, <2>2, <2>3, QuietFlows
  <1> QED BY <1>5, <1>6

\* The dispatched fiber runs: if it was sending, its offer is gone.
LEMMA RunOffers ==
  ASSUME TypeInv, OfferInv, Used \subseteq Used', NEW f \in Fibers, Run(f), call' = call,
         payload' = payload \/ payload' = [payload EXCEPT ![f] = Nothing]
  PROVE  /\ OfferInv' /\ ~Offers(f)' /\ \A y \in Contexts \ {f} : SameOffer(y)
  <1>0. f # Main /\ f \in Contexts /\ Main \notin Fibers /\ TypeOK
    BY FiberAssumption DEF Contexts, TypeInv
  <1>1. /\ snapshot' = [snapshot EXCEPT ![f] = FALSE]
        /\ parkKind' = [parkKind EXCEPT ![f] = "NONE"]
        /\ waitingOn' = [waitingOn EXCEPT ![f] = Nothing]
        /\ current' = f /\ pc' = "running"
    BY DEF Run
  <1>2. /\ parkKind'[f] = "NONE" /\ payload'[Main] = payload[Main]
        /\ \A g \in Fibers \ {f} : /\ parkKind'[g] = parkKind[g] /\ waitingOn'[g] = waitingOn[g]
                                   /\ snapshot'[g] = snapshot[g] /\ payload'[g] = payload[g]
    BY <1>0, <1>1 DEF TypeOK, Contexts
  <1>3. \A y \in Contexts \ {f} : SameOffer(y) /\ payload'[y] = payload[y]
    BY <1>2, OthersOffer
  <1>4. ~Offers(f)'
    BY <1>0, <1>2 DEF Offers
  <1>5. /\ \A g \in Fibers : /\ parkKind'[g] \in {"RECV", "SEND"} => snapshot'[g]
                             /\ current' = g => parkKind'[g] = "NONE"
        /\ pc' = "program" => call'.op # "send"
    BY <1>1, <1>2 DEF OfferInv
  <1>6. OfferInv'
    BY <1>0, <1>3, <1>4, <1>5, OfferInvKept
  <1> QED BY <1>3, <1>4, <1>6

LEMMA ResumeSendFlows ==
  ASSUME TypeInv, NoStrandedWaiter, FlowInv, Used \subseteq Used', NEW f \in Fibers,
         call' = call, ResumeSend(f)
  PROVE  OfferInv' /\ Flows
  <1>0. /\ TypeOK /\ UsedInv /\ OfferInv /\ f \in Contexts /\ f # Main
    BY FiberAssumption DEF TypeInv, FlowInv, Contexts
  <1>1. PICK c \in Channels, m \in Messages : c = waitingOn[f] /\ m = payload[f]
    BY DEF ResumeSend, TypeInv, PendingSendsCarryMessages
  <1>2. Offers(f) /\ OfferOf(f) = <<c, m>>
    BY <1>0, <1>1 DEF ResumeSend, Offers, OfferOf
  <1>3. ASSUME Run(f), payload' = [payload EXCEPT ![f] = Nothing]
        PROVE  OfferInv' /\ ~Offers(f)' /\ \A y \in Contexts \ {f} : SameOffer(y)
    BY <1>0, <1>3, RunOffers
  <1>4. CASE closed[c] /\ payload' = [payload EXCEPT ![f] = Nothing] /\ Run(f)
             /\ UNCHANGED <<chanVars, waking>>
    BY <1>0, <1>1, <1>2, <1>3, <1>4, RefuseFlows DEF chanVars
  <1>5. CASE CanSend(c) /\ Push(c, m) /\ payload' = [payload EXCEPT ![f] = Nothing] /\ Run(f)
    BY <1>0, <1>1, <1>2, <1>3, <1>5, AcceptFlows
  <1>6. CASE /\ Repark(f, Len(sendWaiters[c]) < WaiterMax)
             /\ UNCHANGED <<payload, queue, closed, recvWaiters, delivered, waking>>
    BY <1>6, AgainFlows DEF Repark
  <1> QED BY <1>1, <1>4, <1>5, <1>6 DEF ResumeSend

LEMMA DispatchFlows ==
  ASSUME TypeInv, NoStrandedWaiter, FlowInv, Used \subseteq Used', MainDispatch
  PROVE  OfferInv' /\ Flows
  <1>0. TypeOK /\ UsedInv /\ OfferInv /\ call' = call
    BY DEF TypeInv, FlowInv, MainDispatch
  <1>1. CASE UNCHANGED <<fiberVars, payload, current, chanVars, waking>> /\ pc' = "returned"
    BY <1>0, <1>1, AgainFlows DEF fiberVars, chanVars
  <1>2. ASSUME NEW f \in Fibers, Run(f), ~Offers(f), payload' = payload
        PROVE  OfferInv' /\ \A y \in Contexts : SameOffer(y)
    <2>1. OfferInv' /\ ~Offers(f)' /\ \A y \in Contexts \ {f} : SameOffer(y)
      BY <1>0, <1>2, RunOffers
    <2> QED BY <1>2, <2>1 DEF SameOffer
  <1>3. ASSUME NEW f \in Fibers, ResumePlain(f) PROVE OfferInv' /\ Flows
    <2>1. ~Offers(f) /\ Run(f) /\ payload' = payload /\ UNCHANGED <<queue, closed, delivered>>
      BY <1>0, <1>3, FiberAssumption DEF ResumePlain, Offers, OfferInv, chanVars
    <2> QED BY <1>0, <1>2, <2>1, QuietFlows
  <1>4. ASSUME NEW f \in Fibers, ResumeRecv(f) PROVE OfferInv' /\ Flows
    <2>1. PICK c \in Channels : c = waitingOn[f]
      BY <1>4 DEF ResumeRecv, TypeInv, PendingSendsCarryMessages
    <2>2. ~Offers(f) /\ payload' = payload
      BY <1>4, FiberAssumption DEF ResumeRecv, Offers
    <2>3. CASE /\ Run(f)
               /\ \/ queue[c] # <<>> /\ Pop(c)
                  \/ queue[c] = <<>> /\ closed[c] /\ TakeEof(c)
      BY <1>0, <1>2, <2>2, <2>3, ReceiveFlows
    <2>4. CASE /\ Repark(f, Len(recvWaiters[c]) < WaiterMax)
               /\ UNCHANGED <<queue, closed, sendWaiters, delivered, waking>>
      BY <1>0, <2>2, <2>4, AgainFlows DEF Repark
    <2> QED BY <1>4, <2>1, <2>3, <2>4 DEF ResumeRecv
  <1>5. ASSUME NEW f \in Fibers, ResumeSend(f) PROVE OfferInv' /\ Flows
    BY <1>0, <1>5, ResumeSendFlows
  <1>6. ready # <<>> => Head(ready) \in Fibers
    BY <1>0 DEF TypeOK
  <1> QED BY <1>1, <1>3, <1>4, <1>5, <1>6 DEF MainDispatch

LEMMA MainStepFlows ==
  ASSUME TypeInv, NoStrandedWaiter, FlowInv, Used \subseteq Used', MainStep
  PROVE  OfferInv' /\ Flows
  <1>0. TypeOK /\ UsedInv /\ OfferInv
    BY DEF TypeInv, FlowInv
  <1>1. ASSUME NEW how \in {"ok", "error", "timeout", "deadlock", "not runnable"}, Return(how),
               UNCHANGED <<chanVars, waking>>
        PROVE  OfferInv' /\ Flows
    BY <1>1, ReturnFlows DEF chanVars, Outcomes
  <1>2. ASSUME NEW where \in {"test", "poll", "block", "dispatch"}, Again(where)
        PROVE  OfferInv' /\ Flows
    BY <1>2, AgainFlows DEF Again, MainUnchanged, fiberVars, chanVars
  <1>3. ASSUME NEW k \in Calls, MainCall(k) PROVE OfferInv' /\ Flows
    BY <1>3, MainCallFlows
  <1>4. CASE MainSend
    <2>1. PICK c \in Channels, m \in Messages : c = call.on /\ m = payload[Main]
      BY <1>0, <1>4, MainOffer DEF MainSend, AtTest
    <2>2. Main \in Contexts /\ Offers(Main) /\ OfferOf(Main) = <<c, m>>
      BY <1>0, <1>4, <2>1, MainOffer DEF MainSend, AtTest
    <2>3. CASE CanSend(c) /\ Push(c, m) /\ Return("ok")
      <3>1. /\ OfferInv' /\ ~Offers(Main)' /\ \A y \in Contexts \ {Main} : SameOffer(y)
        BY <1>0, <2>3, ReturnOffers DEF Outcomes
      <3> QED BY <1>0, <2>1, <2>2, <2>3, <3>1, AcceptFlows
    <2> QED BY <1>1, <1>2, <1>4, <2>1, <2>3 DEF MainSend
  <1>5. CASE MainRecv
    <2>1. PICK c \in Channels : c = call.on
      BY <1>0, <1>5, CallChannel DEF MainRecv, AtTest
    <2>2. CASE /\ Return("ok")
               /\ \/ queue[c] # <<>> /\ Pop(c)
                  \/ queue[c] = <<>> /\ closed[c] /\ TakeEof(c)
      <3>1. /\ OfferInv' /\ ~Offers(Main)' /\ \A y \in Contexts \ {Main} : SameOffer(y)
        BY <1>0, <2>2, ReturnOffers DEF Outcomes
      <3>2. ~Offers(Main)
        BY <1>5 DEF MainRecv, AtTest, Offers
      <3>3. \A y \in Contexts : SameOffer(y)
        BY <3>1, <3>2 DEF SameOffer
      <3> QED BY <1>0, <2>2, <3>1, <3>3, ReceiveFlows
    <2> QED BY <1>2, <1>5, <2>1, <2>2 DEF MainRecv
  <1>6. CASE MainJoin \/ MainSleep \/ MainTimeout
    BY <1>1, <1>2, <1>6 DEF MainJoin, MainSleep, MainTimeout
  <1>7. CASE MainPoll \/ MainBlock
    <2>1. CASE Return("deadlock") /\ UNCHANGED <<chanVars, waking>>
      BY <1>1, <2>1
    <2>2. CASE /\ NoFire \/ \E t \in timers : Fire(t)
               /\ pc' \in {"test", "block", "dispatch"}
               /\ UNCHANGED <<payload, current, chanVars, waking, call>>
      BY <2>2, AgainFlows DEF NoFire, Fire, fiberVars, chanVars
    <2> QED BY <1>7, <2>1, <2>2 DEF MainPoll, MainBlock
  <1>8. CASE MainReturned
    <2>1. CASE /\ pc' = "test" /\ MainUnchanged
               /\ UNCHANGED <<payload, timers, call, ran, outcome, left>>
      <3>1. UNCHANGED <<snapshot, parkKind, waitingOn, current, queue, closed, delivered>>
        BY <1>8, <2>1 DEF MainReturned, MainUnchanged, fiberVars, chanVars
      <3> QED BY <2>1, <3>1, AgainFlows
    <2>2. CASE \E how \in {"ok", "error", "not runnable"} : Return(how)
      BY <1>1, <1>8, <2>2 DEF MainReturned
    <2>3. CASE \E where \in {"test", "block", "dispatch"} : Again(where)
      BY <1>2, <2>3
    <2> QED BY <1>8, <2>1, <2>2, <2>3 DEF MainReturned
  <1>9. CASE MainDispatch
    BY <1>9, DispatchFlows
  <1> QED BY <1>3, <1>4, <1>5, <1>6, <1>7, <1>8, <1>9 DEF MainStep

LEMMA NextFlows ==
  ASSUME TypeInv, NoStrandedWaiter, FlowInv, [Next]_vars
  PROVE  FlowInv' /\ AbstractStep
  <1>1. Used \subseteq Used' /\ TypeOK
    BY LeftShrinks DEF TypeInv
  <1>2. CASE UNCHANGED vars \/ WakeOne
    <2>1. /\ UNCHANGED <<snapshot, parkKind, waitingOn, payload, call, current, pc>>
          /\ UNCHANGED <<queue, closed, delivered>>
      BY <1>2 DEF vars, WakeOne, fiberVars, chanVars, mainVars
    <2>2. OfferInv' /\ Flows
      BY <1>1, <2>1, AgainFlows
    <2> QED BY <2>2 DEF FlowInv, Flows
  <1>3. CASE MainStep
    BY <1>1, <1>3, MainStepFlows DEF FlowInv, Flows
  <1>4. CASE \E f \in Fibers : FiberStep(f)
    BY <1>4, FiberStepFlows DEF FlowInv, Flows
  <1>5. CASE \E x \in Contexts : AnyStep(x)
    BY <1>1, <1>5, AnyStepFlows DEF FlowInv, Flows
  <1> QED BY <1>2, <1>3, <1>4, <1>5 DEF Next

LEMMA InitFlows == Init => FlowInv /\ Chan!Init
  <1> SUFFICES ASSUME Init PROVE FlowInv /\ Chan!Init
    OBVIOUS
  <1>1. UsedInv
    BY EmptyOnce DEF Init, UsedInv
  <1>2. /\ \A f \in Fibers : parkKind[f] = "NONE" /\ ~Offers(f)
        /\ call.op = "none" /\ ~Offers(Main)
    BY FiberAssumption DEF Init, NoCall, Offers
  <1>3. OfferInv
    BY <1>2 DEF OfferInv, Contexts
  <1>4. Offered = {}
    BY <1>2 DEF Offered
  <1> QED BY <1>1, <1>3, <1>4 DEF FlowInv, Chan!Init, Init

\* The local channels are the closable FIFO queues of ChannelSpec: a message
\* is accepted once, at one moment at which the channel is open and has room,
\* received in order and before any eof, and refused only on a closed channel
\* or when Main gives up (ch_channel_send, ch_channel_recv and the resumes of
\* run_fiber_to_park_or_done).
THEOREM LocalChannelImplemented == Spec => ImplementsChannel
  <1>1. TypeInv /\ NoStrandedWaiter /\ FlowInv /\ [Next]_vars => FlowInv'
    BY NextFlows
  <1>2. TypeInv /\ NoStrandedWaiter /\ FlowInv /\ [Next]_vars => [Chan!Next]_(Chan!vars)
    BY NextFlows DEF AbstractStep
  <1> QED BY <1>1, <1>2, InitFlows, TypeInvariant, WaitersAreNotStranded, PTL
          DEF Spec, ImplementsChannel, Chan!Spec
=============================================================================
