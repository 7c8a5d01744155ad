------------------------ MODULE SharedChannelProofs ------------------------
(***************************************************************************)
(* Theorems about SharedChannel, for any number of threads and channels,   *)
(* any capacities, limits and calls.                                       *)
(***************************************************************************)
EXTENDS SharedChannel, TLAPS, FiniteSetTheorems, SequenceTheorems

(***************************************************************************)
(* The inductive invariant.  The counts are integers here: that they never *)
(* go below zero is RefsExact's doing and not a matter of types.           *)
(***************************************************************************)
PcLabels == {"idle", "try", "copy", "push", "ring", "release", "return", "lock",
             "wait", "poll", "sleep", "ending"}

ChannelTypes ==
  /\ queue \in [Channels -> Seq(Messages)]
  /\ closed \in [Channels -> BOOLEAN]
  /\ rvDemand \in [Channels -> Nat]
  /\ delivered \in [Channels -> Seq(Messages \cup {Eof})]

RingTypes ==
  /\ sendRing \in [Channels -> Seq(Threads)]
  /\ recvRing \in [Channels -> Seq(Threads)]
  /\ stubs \in [Channels -> SUBSET Threads]
  /\ ringing \in [Threads -> Seq(Threads)]

ThreadTypes ==
  /\ pc \in [Threads -> PcLabels]
  /\ call \in [Threads -> Calls \cup {NoCall}]
  /\ holding \subseteq Threads
  /\ idle \in [Threads -> 0 .. IdleMax]
  /\ left \in [Threads -> Nat]

NotifyTypes ==
  /\ notified \subseteq Threads /\ alive \subseteq Threads
  /\ refs \in [Threads -> Int]

Typed == ChannelTypes /\ RingTypes /\ ThreadTypes /\ NotifyTypes

\* Where a thread is tells which call it makes, and how the call waits.
Placed(t) ==
  /\ IF pc[t] \in {"idle", "ending"} THEN call[t] = NoCall ELSE call[t] \in Calls
  /\ pc[t] \in {"copy", "push"} => Sends(t)
  /\ pc[t] = "release" => Recvs(t)
  /\ pc[t] \in {"poll", "sleep"} => Drives(t)
  /\ pc[t] \in {"lock", "wait"} => call[t].mode = "block"
  /\ call[t].op = "close" => pc[t] \in {"ring", "return"}
  /\ ringing[t] # <<>> => pc[t] = "ring"
  /\ t \in alive <=> pc[t] # "ending"

\* The call is one the thread may make, on a channel it has a stub of, with
\* the message it had not used yet.
Owned(t) ==
  call[t] \in Calls =>
    /\ t \in stubs[On(t)]
    /\ call[t].op # "close" => call[t].mode \in Modes[t]
    /\ call[t].op = "close" => call[t].mode = "block"
    /\ call[t].msg = <<t, left[t] + 1>>

\* Only a receive that blocks on a rendezvous channel holds a demand.
HoldsDemand(t) ==
  t \in holding =>
    /\ Recvs(t) /\ call[t].mode = "block" /\ On(t) \in Rendezvous
    /\ pc[t] \in {"try", "lock", "wait", "ring", "release", "return"}
    /\ pc[t] = "return" => closed[On(t)]

Located(t) == Placed(t) /\ Owned(t) /\ HoldsDemand(t)

CallInv == Typed /\ \A t \in Threads : Located(t) /\ left[t] <= MaxCalls[t]

-----------------------------------------------------------------------------

\* What the fields of a call are.
LEMMA CallFields ==
  ASSUME NEW k \in Calls
  PROVE  /\ k # NoCall
         /\ k.op \in {"send", "recv", "close"} /\ k.mode \in WaitModes
         /\ k.on \in Channels /\ k.msg \in Messages
  BY DEF Calls, NoCall

\* A thread that makes no call has no op either.
LEMMA NoCallFields == NoCall.op = "none" /\ NoCall \notin Calls
  BY DEF Calls, NoCall

LEMMA InitCallInv == Init => CallInv
  BY SharedAssumption, NoCallFields
  DEF Init, CallInv, Typed, ChannelTypes, RingTypes, ThreadTypes, NotifyTypes, Located, Placed, Owned, HoldsDemand, PcLabels

\* The message a thread's next call brings is a message of the model.
LEMMA NextMessage ==
  ASSUME CallInv, NEW t \in Threads, left[t] > 0
  PROVE  <<t, left[t]>> \in Messages
  BY SharedAssumption DEF CallInv, Typed, ThreadTypes, Messages

\* A call more is a call less to make.
LEMMA LeftStep ==
  ASSUME CallInv, NEW t \in Threads, left[t] > 0, left' = [left EXCEPT ![t] = @ - 1]
  PROVE  /\ left' \in [Threads -> Nat]
         /\ \A u \in Threads : left'[u] <= MaxCalls[u]
         /\ left'[t] + 1 = left[t]
  <1>1. /\ MaxCalls \in [Threads -> Nat] /\ left \in [Threads -> Nat]
        /\ \A u \in Threads : left[u] <= MaxCalls[u]
    BY SharedAssumption DEF CallInv, Typed, ThreadTypes
  <1> QED BY <1>1

\* A step of one thread leaves the others where they are, as long as nothing
\* opens a channel again or takes a stub of theirs.
LEMMA OthersKeep ==
  ASSUME CallInv, NEW u \in Threads,
         pc'[u] = pc[u], call'[u] = call[u], left'[u] = left[u], ringing'[u] = ringing[u],
         u \in holding' <=> u \in holding, u \in alive' <=> u \in alive,
         \A c \in Channels : closed[c] => closed'[c],
         \A c \in Channels : u \in stubs[c] => u \in stubs'[c]
  PROVE  (Located(u) /\ left[u] <= MaxCalls[u])'
  <1>1. call[u] \in Calls => On(u) \in Channels
    BY CallFields DEF On
  <1>2. Recvs(u) => call[u] \in Calls
    BY NoCallFields DEF CallInv, Typed, ThreadTypes, Recvs
  <1> QED BY <1>1, <1>2 DEF CallInv, Located, Placed, Owned, HoldsDemand, Sends, Recvs,
                            Drives, On

\* Most steps of a call only move the thread on.
Goes(t, l) ==
  /\ pc' = [pc EXCEPT ![t] = l]
  /\ UNCHANGED <<call, left, stubs, alive, ringing, holding, closed>>

LEMMA CallKeepsInv ==
  ASSUME CallInv, NEW t \in Threads, NEW op \in {"send", "recv"}, NEW mode \in Modes[t],
         NEW c \in Channels, Call(t, op, mode, c)
  PROVE  CallInv'
  <1> DEFINE k == [op |-> op, mode |-> mode, on |-> c, msg |-> <<t, left[t]>>]
  <1>1. k \in Calls
    BY NextMessage, SharedAssumption DEF Calls, Call
  <1>2. k.op = op /\ k.mode = mode /\ k.on = c /\ k.msg = <<t, left[t]>>
    OBVIOUS
  <1>3. call' = [call EXCEPT ![t] = k]
    BY DEF Call
  <1> HIDE DEF k
  <1>4. /\ left' \in [Threads -> Nat] /\ left'[t] + 1 = left[t]
        /\ \A u \in Threads : left'[u] <= MaxCalls[u]
    BY LeftStep DEF Call
  <1>5. Typed'
    <2>1. (ChannelTypes /\ RingTypes)'
      BY DEF CallInv, Typed, Call, ChannelTypes, RingTypes, chanVars, ringVars
    <2>2. ThreadTypes'
      BY <1>1, <1>3, <1>4, SharedAssumption
      DEF CallInv, Typed, Call, Goto, PcLabels, ThreadTypes
    <2>3. NotifyTypes'
      BY DEF CallInv, Typed, Call, NotifyTypes
    <2> QED BY <2>1, <2>2, <2>3 DEF Typed
  <1>6. ASSUME NEW u \in Threads PROVE Located(u)'
    <2>1. CASE u = t
      <3>1. /\ pc[t] = "idle" /\ call[t] = NoCall /\ t \notin holding
            /\ t \in alive /\ ringing[t] = <<>> /\ t \in stubs[c]
        BY NoCallFields DEF CallInv, Call, Located, Placed, HoldsDemand, Recvs
      <3>2. /\ pc'[t] = "try" /\ call'[t] = k /\ holding' = holding /\ alive' = alive
            /\ ringing' = ringing /\ stubs' = stubs
        BY <1>3 DEF CallInv, Typed, ThreadTypes, Call, Goto, ringVars
      <3> QED BY <1>1, <1>2, <1>4, <2>1, <3>1, <3>2
              DEF Located, Placed, Owned, HoldsDemand, Sends, Recvs, Drives, On
    <2>2. CASE u # t
      BY <1>3, <2>2, OthersKeep DEF CallInv, Typed, ThreadTypes, Call, Goto, chanVars, ringVars
    <2> QED BY <2>1, <2>2
  <1> QED BY <1>4, <1>5, <1>6 DEF CallInv

LEMMA GoesKeepsInv ==
  ASSUME CallInv, NEW t \in Threads, NEW l \in PcLabels \ {"idle", "ending", "ring"},
         Goes(t, l), pc[t] \notin {"idle", "ending"}, ringing[t] = <<>>,
         l \in {"copy", "push"} => Sends(t),
         l = "release" => Recvs(t),
         l \in {"poll", "sleep"} => Drives(t),
         l \in {"lock", "wait"} => call[t].mode = "block",
         call[t].op = "close" => l = "return",
         t \in holding => /\ l \in {"try", "lock", "wait", "release", "return"}
                          /\ l = "return" => closed[On(t)]
  PROVE  \A u \in Threads : (Located(u) /\ left[u] <= MaxCalls[u])'
  <1> TAKE u \in Threads
  <1>1. CASE u = t
    <2>1. /\ pc'[t] = l /\ call' = call /\ holding' = holding /\ alive' = alive
          /\ ringing' = ringing /\ stubs' = stubs /\ left' = left /\ closed' = closed
      BY DEF CallInv, Typed, ThreadTypes, Goes
    <2> QED BY <1>1, <2>1 DEF CallInv, Located, Placed, Owned, HoldsDemand, Sends, Recvs,
                              Drives, On
  <1>2. CASE u # t
    BY <1>2, OthersKeep DEF CallInv, Typed, ThreadTypes, Goes
  <1> QED BY <1>1, <1>2

\* The forms the steps of a call take, and the types they keep.
LEMMA JumpForm ==
  ASSUME CallInv, NEW t \in Threads, NEW l \in PcLabels, Jump(t, l)
  PROVE  Typed' /\ Goes(t, l)
  BY DEF Jump, Goto, Goes, CallInv, Typed, ChannelTypes, RingTypes, ThreadTypes,
         NotifyTypes, chanVars, ringVars, notifyVars

LEMMA RegisteredType ==
  ASSUME CallInv, NEW t \in Threads, NEW ring \in Seq(Threads)
  PROVE  Registered(t, ring) \in Seq(Threads) /\ RefsWith(t, ring) \in [Threads -> Int]
  BY DEF Registered, RefsWith, CallInv, Typed, NotifyTypes

LEMMA WouldBlockSendForm ==
  ASSUME CallInv, NEW t \in Threads, Sends(t), WouldBlockSend(t)
  PROVE  Typed' /\ Goes(t, IF Drives(t) THEN "poll" ELSE "lock")
  <1>1. On(t) \in Channels /\ sendRing[On(t)] \in Seq(Threads)
    BY CallFields, NoCallFields DEF Sends, On, CallInv, Typed, ThreadTypes, RingTypes
  <1>2. RingTypes'
    BY <1>1, RegisteredType DEF CallInv, Typed, RingTypes, WouldBlockSend
  <1>3. refs' \in [Threads -> Int]
    BY <1>1, RegisteredType DEF WouldBlockSend
  <1> QED BY <1>2, <1>3 DEF WouldBlockSend, Goto, Goes, CallInv, Typed, ChannelTypes,
                            ThreadTypes, NotifyTypes, PcLabels, chanVars

LEMMA WouldBlockRecvForm ==
  ASSUME CallInv, NEW t \in Threads, Recvs(t), WouldBlockRecv(t)
  PROVE  Typed' /\ Goes(t, IF Drives(t) THEN "poll" ELSE "lock")
  <1>1. On(t) \in Channels /\ recvRing[On(t)] \in Seq(Threads)
    BY CallFields, NoCallFields DEF Recvs, On, CallInv, Typed, ThreadTypes, RingTypes
  <1>2. RingTypes'
    BY <1>1, RegisteredType DEF CallInv, Typed, RingTypes, WouldBlockRecv
  <1>3. refs' \in [Threads -> Int]
    BY <1>1, RegisteredType DEF WouldBlockRecv
  <1> QED BY <1>2, <1>3 DEF WouldBlockRecv, Goto, Goes, CallInv, Typed, ChannelTypes,
                            ThreadTypes, NotifyTypes, PcLabels, chanVars

LEMMA TakeEofForm ==
  ASSUME CallInv, NEW t \in Threads, NEW l \in PcLabels, TakeEof(t, l)
  PROVE  Typed' /\ Goes(t, l)
  <1>1. \A s \in Seq(Messages \cup {Eof}) : Append(s, Eof) \in Seq(Messages \cup {Eof})
    OBVIOUS
  <1>2. ChannelTypes'
    BY <1>1 DEF TakeEof, CallInv, Typed, ChannelTypes
  <1> QED BY <1>2 DEF TakeEof, Goto, Goes, CallInv, Typed, RingTypes, ThreadTypes,
                      NotifyTypes, ringVars, notifyVars

LEMMA PolledForm ==
  ASSUME CallInv, NEW t \in Threads, NEW l \in PcLabels, NEW n \in 0 .. IdleMax,
         Polled(t, l, n)
  PROVE  Typed' /\ Goes(t, l)
  BY DEF Polled, Goto, Goes, CallInv, Typed, ChannelTypes, RingTypes, ThreadTypes,
         NotifyTypes, chanVars, ringVars

-----------------------------------------------------------------------------
(* The steps that only move the thread on.                                 *)

LEMMA TrySendKeepsInv ==
  ASSUME CallInv, NEW t \in Threads, TrySend(t) PROVE CallInv'
  <1>1. ringing[t] = <<>> /\ t \notin holding /\ call[t].op = "send"
    BY DEF TrySend, CallInv, Located, Placed, HoldsDemand, Sends, Recvs
  <1>2. PICK l \in {"return", "poll", "lock", "copy"} :
          /\ Typed' /\ Goes(t, l)
          /\ l = "poll" => Drives(t)
          /\ l = "lock" => call[t].mode = "block"
    BY <1>1, JumpForm, WouldBlockSendForm DEF TrySend, PcLabels, Drives
  <1>3. \A u \in Threads : (Located(u) /\ left[u] <= MaxCalls[u])'
    BY <1>1, <1>2, GoesKeepsInv DEF TrySend, PcLabels, Sends
  <1> QED BY <1>2, <1>3 DEF CallInv

LEMMA CopyInKeepsInv ==
  ASSUME CallInv, NEW t \in Threads, CopyIn(t) PROVE CallInv'
  <1>1. ringing[t] = <<>> /\ t \notin holding /\ Sends(t)
    BY DEF CopyIn, CallInv, Located, Placed, HoldsDemand, Sends, Recvs
  <1>2. PICK l \in {"return", "push"} : Typed' /\ Goes(t, l)
    BY JumpForm DEF CopyIn, PcLabels
  <1>3. \A u \in Threads : (Located(u) /\ left[u] <= MaxCalls[u])'
    BY <1>1, <1>2, GoesKeepsInv DEF CopyIn, PcLabels, Sends
  <1> QED BY <1>2, <1>3 DEF CallInv

LEMMA PushTooLateKeepsInv ==
  ASSUME CallInv, NEW t \in Threads, PushTooLate(t) PROVE CallInv'
  <1>1. ringing[t] = <<>> /\ t \notin holding /\ Sends(t)
    BY DEF PushTooLate, CallInv, Located, Placed, HoldsDemand, Sends, Recvs
  <1>2. PICK l \in {"return", "poll", "lock"} :
          /\ Typed' /\ Goes(t, l)
          /\ l = "poll" => Drives(t)
          /\ l = "lock" => call[t].mode = "block"
    BY <1>1, JumpForm, WouldBlockSendForm DEF PushTooLate, PcLabels, Drives, Sends
  <1>3. \A u \in Threads : (Located(u) /\ left[u] <= MaxCalls[u])'
    BY <1>1, <1>2, GoesKeepsInv DEF PushTooLate, PcLabels, Sends
  <1> QED BY <1>2, <1>3 DEF CallInv

LEMMA TryRecvEmptyKeepsInv ==
  ASSUME CallInv, NEW t \in Threads, TryRecvEmpty(t) PROVE CallInv'
  <1>1. ringing[t] = <<>> /\ Recvs(t) /\ (t \in holding => call[t].mode = "block")
    BY DEF TryRecvEmpty, CallInv, Located, Placed, HoldsDemand
  <1>2. PICK l \in {"return", "release", "poll", "lock"} :
          /\ Typed' /\ Goes(t, l)
          /\ l = "poll" => Drives(t)
          /\ l = "lock" => call[t].mode = "block"
          /\ l = "return" => closed[On(t)]
    BY <1>1, TakeEofForm, WouldBlockRecvForm
    DEF TryRecvEmpty, Answered, PcLabels, Drives, Recvs
  <1>3. \A u \in Threads : (Located(u) /\ left[u] <= MaxCalls[u])'
    BY <1>1, <1>2, GoesKeepsInv DEF TryRecvEmpty, PcLabels, Recvs, Drives
  <1> QED BY <1>2, <1>3 DEF CallInv

LEMMA RingDoneKeepsInv ==
  ASSUME CallInv, NEW t \in Threads, RingDone(t) PROVE CallInv'
  <1>1. ringing[t] = <<>> /\ (t \in holding => Recvs(t))
    BY DEF RingDone, CallInv, Located, HoldsDemand
  <1>2. PICK l \in {"return", "release"} :
          Typed' /\ Goes(t, l) /\ (l = "release" <=> t \in holding)
    BY JumpForm DEF RingDone, Answered, PcLabels
  <1>3. \A u \in Threads : (Located(u) /\ left[u] <= MaxCalls[u])'
    BY <1>1, <1>2, GoesKeepsInv DEF RingDone, PcLabels, Recvs
  <1> QED BY <1>2, <1>3 DEF CallInv

LEMMA LockKeepsInv ==
  ASSUME CallInv, NEW t \in Threads, SendLock(t) \/ RecvLockAgain(t) \/ CondWaitEnds(t)
  PROVE  CallInv'
  <1>1. /\ ringing[t] = <<>> /\ call[t].mode = "block" /\ call[t].op # "close"
        /\ t \in holding => Recvs(t)
    BY DEF SendLock, RecvLockAgain, CondWaitEnds, CallInv, Located, Placed, HoldsDemand
  <1>2. PICK l \in {"try", "wait", "return"} :
          Typed' /\ Goes(t, l) /\ (l = "return" => closed[On(t)])
    BY JumpForm, TakeEofForm DEF SendLock, RecvLockAgain, CondWaitEnds, PcLabels
  <1>3. \A u \in Threads : (Located(u) /\ left[u] <= MaxCalls[u])'
    BY <1>1, <1>2, GoesKeepsInv DEF SendLock, RecvLockAgain, CondWaitEnds, PcLabels
  <1> QED BY <1>2, <1>3 DEF CallInv

LEMMA PollKeepsInv ==
  ASSUME CallInv, NEW t \in Threads, PollNow(t) \/ TimedOut(t) \/ PollWaits(t)
  PROVE  CallInv'
  <1>1. ringing[t] = <<>> /\ Drives(t) /\ t \notin holding
    BY DEF PollNow, TimedOut, PollWaits, CallInv, Located, Placed, HoldsDemand, Drives
  <1>2. idle[t] \in 0 .. IdleMax /\ IdleMax \in Nat
    BY SharedAssumption DEF CallInv, Typed, ThreadTypes
  <1>3. PICK l \in {"try", "return", "sleep"} : Typed' /\ Goes(t, l)
    BY <1>2, JumpForm, PolledForm DEF PollNow, TimedOut, PollWaits, PcLabels
  <1>4. \A u \in Threads : (Located(u) /\ left[u] <= MaxCalls[u])'
    BY <1>1, <1>3, GoesKeepsInv DEF PollNow, TimedOut, PollWaits, PcLabels, Drives
  <1> QED BY <1>3, <1>4 DEF CallInv

-----------------------------------------------------------------------------
(* The steps that move messages, rings and demands.                        *)

\* The channel and the message of a thread's send.
LEMMA SendFields ==
  ASSUME CallInv, NEW t \in Threads, Sends(t)
  PROVE  On(t) \in Channels /\ call[t].msg \in Messages /\ t \notin holding
  BY CallFields, NoCallFields
  DEF CallInv, Typed, ThreadTypes, Sends, Recvs, On, Located, HoldsDemand

LEMMA RecvFields ==
  ASSUME CallInv, NEW t \in Threads, Recvs(t)
  PROVE  On(t) \in Channels
  BY CallFields, NoCallFields DEF CallInv, Typed, ThreadTypes, Recvs, On

LEMMA PushMessageKeepsInv ==
  ASSUME CallInv, NEW t \in Threads, PushMessage(t) PROVE CallInv'
  <1> DEFINE c == On(t)
  <1>1. Sends(t) /\ ringing[t] = <<>> /\ t \in alive /\ call[t] \in Calls
    BY DEF PushMessage, CallInv, Located, Placed
  <1>2. c \in Channels /\ call[t].msg \in Messages /\ t \notin holding
    BY <1>1, SendFields
  <1>3. /\ queue' = [queue EXCEPT ![c] = Append(@, call[t].msg)]
        /\ rvDemand' = [rvDemand EXCEPT ![c] = IF c \in Rendezvous /\ @ > 0 THEN @ - 1 ELSE @]
        /\ ringing' = [ringing EXCEPT ![t] = recvRing[c]]
        /\ recvRing' = [recvRing EXCEPT ![c] = <<>>]
        /\ pc' = [pc EXCEPT ![t] = "ring"]
        /\ UNCHANGED <<closed, delivered, sendRing, stubs, call, holding, idle, left,
                       notified, alive, refs>>
    BY DEF PushMessage, Goto, notifyVars
  <1> HIDE DEF c
  <1>4. ChannelTypes'
    BY <1>2, <1>3 DEF CallInv, Typed, ChannelTypes
  <1>5. RingTypes'
    BY <1>2, <1>3 DEF CallInv, Typed, RingTypes
  <1>6. (ThreadTypes /\ NotifyTypes)'
    BY <1>3 DEF CallInv, Typed, ThreadTypes, NotifyTypes, PcLabels
  <1>7. ASSUME NEW u \in Threads PROVE (Located(u) /\ left[u] <= MaxCalls[u])'
    <2>1. CASE u = t
      BY <1>1, <1>2, <1>3, <2>1
      DEF CallInv, Typed, ThreadTypes, Located, Placed, Owned, HoldsDemand, Sends, On, Recvs
    <2>2. CASE u # t
      BY <1>3, <2>2, OthersKeep DEF CallInv, Typed, ThreadTypes, RingTypes
    <2> QED BY <2>1, <2>2
  <1> QED BY <1>4, <1>5, <1>6, <1>7 DEF CallInv, Typed

LEMMA PopMessageKeepsInv ==
  ASSUME CallInv, NEW t \in Threads, PopMessage(t) PROVE CallInv'
  <1> DEFINE c == On(t)
  <1>1. Recvs(t) /\ ringing[t] = <<>> /\ t \in alive /\ call[t] \in Calls
    BY DEF PopMessage, CallInv, Located, Placed
  <1>2. c \in Channels
    BY <1>1, RecvFields
  <1>3. /\ queue[c] # <<>>
        /\ queue' = [queue EXCEPT ![c] = Tail(@)]
        /\ delivered' = [delivered EXCEPT ![c] = Append(@, Head(queue[c]))]
        /\ ringing' = [ringing EXCEPT ![t] = sendRing[c]]
        /\ sendRing' = [sendRing EXCEPT ![c] = <<>>]
        /\ pc' = [pc EXCEPT ![t] = "ring"]
        /\ UNCHANGED <<closed, rvDemand, recvRing, stubs, call, holding, idle, left,
                       notified, alive, refs>>
    BY DEF PopMessage, Goto, notifyVars
  <1> HIDE DEF c
  <1>4. ChannelTypes'
    <2>1. Head(queue[c]) \in Messages /\ Tail(queue[c]) \in Seq(Messages)
      BY <1>2, <1>3 DEF CallInv, Typed, ChannelTypes
    <2>2. Append(delivered[c], Head(queue[c])) \in Seq(Messages \cup {Eof})
      BY <1>2, <2>1 DEF CallInv, Typed, ChannelTypes
    <2> QED BY <1>2, <1>3, <2>1, <2>2 DEF CallInv, Typed, ChannelTypes
  <1>5. RingTypes'
    BY <1>2, <1>3 DEF CallInv, Typed, RingTypes
  <1>6. (ThreadTypes /\ NotifyTypes)'
    BY <1>3 DEF CallInv, Typed, ThreadTypes, NotifyTypes, PcLabels
  <1>7. ASSUME NEW u \in Threads PROVE (Located(u) /\ left[u] <= MaxCalls[u])'
    <2>1. CASE u = t
      BY <1>1, <1>2, <1>3, <2>1
      DEF CallInv, Typed, ThreadTypes, Located, Placed, Owned, HoldsDemand, Sends, On, Recvs
    <2>2. CASE u # t
      BY <1>3, <2>2, OthersKeep DEF CallInv, Typed, ThreadTypes, RingTypes
    <2> QED BY <2>1, <2>2
  <1> QED BY <1>4, <1>5, <1>6, <1>7 DEF CallInv, Typed

LEMMA RingKeepsInv ==
  ASSUME CallInv, NEW t \in Threads, Ring(t) PROVE CallInv'
  <1>1. Head(ringing[t]) \in Threads /\ Tail(ringing[t]) \in Seq(Threads)
    BY DEF Ring, CallInv, Typed, RingTypes
  <1>2. RingTypes'
    BY <1>1 DEF Ring, CallInv, Typed, RingTypes, ringVars
  <1>3. NotifyTypes'
    BY <1>1 DEF Ring, CallInv, Typed, NotifyTypes
  <1>4. (ChannelTypes /\ ThreadTypes)'
    BY DEF Ring, CallInv, Typed, ChannelTypes, ThreadTypes, chanVars
  <1>5. ASSUME NEW u \in Threads PROVE (Located(u) /\ left[u] <= MaxCalls[u])'
    <2>1. CASE u = t
      BY <2>1 DEF Ring, CallInv, Typed, RingTypes, Located, Placed, Owned, HoldsDemand,
                  Sends, On, Recvs, Drives, chanVars, ringVars
    <2>2. CASE u # t
      BY <2>2, OthersKeep DEF Ring, CallInv, Typed, RingTypes, chanVars, ringVars
    <2> QED BY <2>1, <2>2
  <1> QED BY <1>2, <1>3, <1>4, <1>5 DEF CallInv, Typed

LEMMA ReleaseDemandKeepsInv ==
  ASSUME CallInv, NEW t \in Threads, ReleaseDemand(t) PROVE CallInv'
  <1>1. Recvs(t) /\ ringing[t] = <<>> /\ t \in alive /\ call[t] \in Calls
    BY DEF ReleaseDemand, CallInv, Located, Placed
  <1>2. ChannelTypes'
    BY <1>1, RecvFields DEF ReleaseDemand, CallInv, Typed, ChannelTypes
  <1>3. (RingTypes /\ ThreadTypes /\ NotifyTypes)'
    BY DEF ReleaseDemand, CallInv, Typed, RingTypes, ThreadTypes, NotifyTypes, Goto,
           PcLabels, ringVars, notifyVars
  <1>4. ASSUME NEW u \in Threads PROVE (Located(u) /\ left[u] <= MaxCalls[u])'
    <2>1. CASE u = t
      BY <1>1, <2>1
      DEF ReleaseDemand, CallInv, Typed, ThreadTypes, Located, Placed, Owned, HoldsDemand,
          Sends, On, Recvs, Goto, ringVars, notifyVars
    <2>2. CASE u # t
      BY <2>2, OthersKeep
      DEF ReleaseDemand, CallInv, Typed, ThreadTypes, Goto, ringVars, notifyVars
    <2> QED BY <2>1, <2>2
  <1> QED BY <1>2, <1>3, <1>4 DEF CallInv, Typed

LEMMA RecvCommitKeepsInv ==
  ASSUME CallInv, NEW t \in Threads, RecvCommit(t) PROVE CallInv'
  <1>1. /\ Recvs(t) /\ ringing[t] = <<>> /\ t \in alive /\ call[t] \in Calls
        /\ call[t].mode = "block"
    BY DEF RecvCommit, CallInv, Located, Placed
  <1>2. ChannelTypes'
    BY <1>1, RecvFields DEF RecvCommit, CallInv, Typed, ChannelTypes
  <1>3. (RingTypes /\ ThreadTypes /\ NotifyTypes)'
    BY DEF RecvCommit, CallInv, Typed, RingTypes, ThreadTypes, NotifyTypes, Goto,
           PcLabels, ringVars, notifyVars
  <1>4. ASSUME NEW u \in Threads PROVE (Located(u) /\ left[u] <= MaxCalls[u])'
    <2>1. CASE u = t
      BY <1>1, <2>1
      DEF RecvCommit, CallInv, Typed, ThreadTypes, Located, Placed, Owned, HoldsDemand,
          Sends, On, Recvs, Goto, ringVars, notifyVars
    <2>2. CASE u # t
      BY <2>2, OthersKeep
      DEF RecvCommit, CallInv, Typed, ThreadTypes, Goto, ringVars, notifyVars
    <2> QED BY <2>1, <2>2
  <1> QED BY <1>2, <1>3, <1>4 DEF CallInv, Typed

LEMMA ReturnKeepsInv ==
  ASSUME CallInv, NEW t \in Threads, Return(t) PROVE CallInv'
  <1>1. ringing[t] = <<>> /\ t \in alive
    BY DEF Return, CallInv, Located, Placed
  <1>2. (ChannelTypes /\ RingTypes)'
    BY DEF Return, CallInv, Typed, ChannelTypes, RingTypes, chanVars, ringVars
  <1>3. (ThreadTypes /\ NotifyTypes)'
    BY DEF Return, CallInv, Typed, ThreadTypes, NotifyTypes, Goto, PcLabels
  <1>4. ASSUME NEW u \in Threads PROVE (Located(u) /\ left[u] <= MaxCalls[u])'
    <2>1. CASE u = t
      <3>1. /\ pc'[t] = "idle" /\ call'[t] = NoCall /\ t \notin holding'
            /\ ringing' = ringing /\ alive' = alive /\ left' = left
        BY DEF Return, CallInv, Typed, ThreadTypes, Goto
      <3> QED BY <1>1, <2>1, <3>1, NoCallFields
              DEF CallInv, Located, Placed, Owned, HoldsDemand, Sends, Recvs, Drives
    <2>2. CASE u # t
      BY <2>2, OthersKeep DEF Return, CallInv, Typed, ThreadTypes, Goto, chanVars, ringVars
    <2> QED BY <2>1, <2>2
  <1> QED BY <1>2, <1>3, <1>4 DEF CallInv, Typed

LEMMA CloseKeepsInv ==
  ASSUME CallInv, NEW t \in Threads, NEW c \in Channels, Close(t, c) PROVE CallInv'
  <1> DEFINE k == [op |-> "close", mode |-> "block", on |-> c, msg |-> <<t, left[t]>>]
  <1>1. k \in Calls
    BY NextMessage DEF Calls, WaitModes, Close
  <1>2. k.op = "close" /\ k.mode = "block" /\ k.on = c /\ k.msg = <<t, left[t]>>
    OBVIOUS
  <1>3. call' = [call EXCEPT ![t] = k]
    BY DEF Close
  <1> HIDE DEF k
  <1>4. /\ left' \in [Threads -> Nat] /\ left'[t] + 1 = left[t]
        /\ \A u \in Threads : left'[u] <= MaxCalls[u]
    BY LeftStep DEF Close
  <1>5. (ChannelTypes /\ NotifyTypes)'
    BY DEF Close, CallInv, Typed, ChannelTypes, NotifyTypes, notifyVars
  <1>6. RingTypes'
    <2>1. sendRing[c] \o recvRing[c] \in Seq(Threads)
      BY DEF CallInv, Typed, RingTypes
    <2> QED BY <2>1 DEF Close, CallInv, Typed, RingTypes
  <1>7. ThreadTypes'
    BY <1>1, <1>3, <1>4 DEF Close, CallInv, Typed, ThreadTypes, Goto, PcLabels
  <1>8. ASSUME NEW u \in Threads PROVE Located(u)'
    <2>1. CASE u = t
      <3>1. /\ pc[t] = "idle" /\ call[t] = NoCall /\ t \notin holding
            /\ t \in alive /\ t \in stubs[c]
        BY NoCallFields DEF CallInv, Close, Located, Placed, HoldsDemand, Recvs
      <3>2. /\ pc'[t] = "ring" /\ call'[t] = k /\ holding' = holding /\ alive' = alive
            /\ stubs' = stubs
        BY <1>3 DEF CallInv, Typed, ThreadTypes, Close, Goto, notifyVars
      <3> QED BY <1>1, <1>2, <1>4, <2>1, <3>1, <3>2
              DEF Located, Placed, Owned, HoldsDemand, Sends, Recvs, Drives, On
    <2>2. CASE u # t
      BY <1>3, <2>2, OthersKeep
      DEF CallInv, Typed, ChannelTypes, RingTypes, ThreadTypes, Close, Goto, notifyVars
    <2> QED BY <2>1, <2>2
  <1> QED BY <1>4, <1>5, <1>6, <1>7, <1>8 DEF CallInv, Typed

LEMMA EndReactorKeepsInv ==
  ASSUME CallInv, NEW t \in Threads, EndReactor(t) PROVE CallInv'
  <1>1. ringing[t] = <<>> /\ t \notin holding /\ call[t] = NoCall
    BY NoCallFields DEF EndReactor, CallInv, Located, Placed, HoldsDemand, Recvs
  <1>2. (ChannelTypes /\ RingTypes /\ ThreadTypes)'
    BY DEF EndReactor, CallInv, Typed, ChannelTypes, RingTypes, ThreadTypes, Goto, PcLabels,
           chanVars, ringVars
  <1>3. NotifyTypes'
    BY DEF EndReactor, CallInv, Typed, NotifyTypes
  <1>4. ASSUME NEW u \in Threads PROVE (Located(u) /\ left[u] <= MaxCalls[u])'
    <2>1. CASE u = t
      BY <1>1, <2>1, NoCallFields
      DEF EndReactor, CallInv, Typed, ThreadTypes, Located, Placed, Owned, HoldsDemand,
          Sends, Recvs, Drives, Goto
    <2>2. CASE u # t
      BY <2>2, OthersKeep
      DEF EndReactor, CallInv, Typed, ThreadTypes, Goto, chanVars, ringVars
    <2> QED BY <2>1, <2>2
  <1> QED BY <1>2, <1>3, <1>4 DEF CallInv, Typed

\* Times is a count: the positions of a sequence are finitely many.
LEMMA TimesNat ==
  ASSUME NEW S, NEW s \in Seq(S), NEW x
  PROVE  IsFiniteSet({i \in DOMAIN s : s[i] = x}) /\ Times(x, s) \in Nat
  <1>1. IsFiniteSet(1 .. Len(s))
    BY FS_Interval
  <1>2. {i \in DOMAIN s : s[i] = x} \in SUBSET (1 .. Len(s))
    OBVIOUS
  <1> QED BY <1>1, <1>2, FS_Subset, FS_CardinalityType DEF Times

LEMMA DropStubKeepsInv ==
  ASSUME CallInv, NEW t \in Threads, NEW c \in Channels, DropStub(t, c) PROVE CallInv'
  <1>1. refs' \in [Threads -> Int]
    <2>1. CASE stubs[c] = {t}
      <3>1. \A n \in Threads : Times(n, sendRing[c]) \in Nat /\ Times(n, recvRing[c]) \in Nat
        BY TimesNat DEF CallInv, Typed, RingTypes
      <3> QED BY <2>1, <3>1 DEF DropStub, CallInv, Typed, NotifyTypes
    <2>2. CASE stubs[c] # {t}
      BY <2>2 DEF DropStub, CallInv, Typed, NotifyTypes
    <2> QED BY <2>1, <2>2
  <1>2. (ChannelTypes /\ ThreadTypes)'
    BY DEF DropStub, CallInv, Typed, ChannelTypes, ThreadTypes, chanVars, threadVars
  <1>3. RingTypes'
    <2>1. CASE stubs[c] = {t}
      <3>1. /\ stubs' = [stubs EXCEPT ![c] = @ \ {t}] /\ ringing' = ringing
            /\ sendRing' = [sendRing EXCEPT ![c] = <<>>]
            /\ recvRing' = [recvRing EXCEPT ![c] = <<>>]
        BY <2>1 DEF DropStub, threadVars
      <3> QED BY <3>1 DEF CallInv, Typed, RingTypes
    <2>2. CASE stubs[c] # {t}
      BY <2>2 DEF DropStub, CallInv, Typed, RingTypes, threadVars
    <2> QED BY <2>1, <2>2
  <1>4. NotifyTypes'
    BY <1>1 DEF DropStub, CallInv, Typed, NotifyTypes
  <1>5. ASSUME NEW u \in Threads PROVE (Located(u) /\ left[u] <= MaxCalls[u])'
    <2>1. CASE u = t
      BY <2>1, CallFields, NoCallFields
      DEF DropStub, CallInv, Located, Placed, Owned, HoldsDemand, Sends, Recvs, Drives, On,
          chanVars, threadVars
    <2>2. CASE u # t
      BY <2>2, OthersKeep
      DEF DropStub, CallInv, Typed, RingTypes, chanVars, threadVars
    <2> QED BY <2>1, <2>2
  <1> QED BY <1>2, <1>3, <1>4, <1>5 DEF CallInv, Typed

LEMMA StepKeepsInv ==
  ASSUME CallInv, NEW t \in Threads, Step(t) PROVE CallInv'
  BY TrySendKeepsInv, CopyInKeepsInv, PushMessageKeepsInv, PushTooLateKeepsInv,
     TryRecvEmptyKeepsInv, PopMessageKeepsInv, RingKeepsInv, RingDoneKeepsInv,
     ReleaseDemandKeepsInv, ReturnKeepsInv, LockKeepsInv, RecvCommitKeepsInv, PollKeepsInv
  DEF Step

LEMMA NextKeepsInv == CallInv /\ [Next]_vars => CallInv'
  <1> SUFFICES ASSUME CallInv, [Next]_vars PROVE CallInv'
    OBVIOUS
  <1>1. CASE Next
    <2>1. ASSUME NEW t \in Threads, NEW c \in Channels,
                 NEW op \in {"send", "recv"}, NEW mode \in Modes[t], Call(t, op, mode, c)
          PROVE  CallInv'
      BY <2>1, CallKeepsInv
    <2>2. ASSUME NEW t \in Threads, NEW c \in Channels, Close(t, c) \/ DropStub(t, c)
          PROVE  CallInv'
      BY <2>2, CloseKeepsInv, DropStubKeepsInv
    <2>3. ASSUME NEW t \in Threads, Step(t) \/ EndReactor(t) PROVE CallInv'
      BY <2>3, StepKeepsInv, EndReactorKeepsInv
    <2> QED BY <1>1, <2>1, <2>2, <2>3 DEF Next
  <1>2. CASE UNCHANGED vars
    <2>1. Typed'
      BY <1>2 DEF vars, chanVars, ringVars, threadVars, notifyVars, CallInv, Typed,
                  ChannelTypes, RingTypes, ThreadTypes, NotifyTypes
    <2>2. ASSUME NEW u \in Threads PROVE (Located(u) /\ left[u] <= MaxCalls[u])'
      BY <1>2, OthersKeep DEF vars, chanVars, ringVars, threadVars, notifyVars
    <2> QED BY <2>1, <2>2 DEF CallInv
  <1> QED BY <1>1, <1>2

\* Whatever the threads do, every variable keeps its type and each thread is
\* where its call puts it: a call in flight is of the kind its pc says, on a
\* channel its thread has a stub of, with the message it came with, and only a
\* receive that blocks on a rendezvous channel holds a demand, until it returns
\* (and then only from one that is closed).
THEOREM CallsInPlace == Spec => []CallInv
  <1>1. Init => CallInv
    BY InitCallInv
  <1>2. CallInv /\ [Next]_vars => CallInv'
    BY NextKeepsInv
  <1> QED BY <1>1, <1>2, PTL DEF Spec

-----------------------------------------------------------------------------
(* Rendezvous channels.  RendezvousHasReceiver is not inductive: a         *)
(* receiver that took a message holds its demand until it releases it, and *)
(* must not be counted for a second message in between.  So the receivers  *)
(* to count are those still before their try.                              *)

Before == {"try", "lock", "wait"}
Waiting(c) == {t \in holding : InCall(t, c) /\ pc[t] \in Before}

Covered(c) ==
  ~closed[c] => Len(queue[c]) + rvDemand[c] <= Cardinality(Waiting(c))

RendezvousInv == \A c \in Rendezvous : Covered(c)

LEMMA WaitingFinite ==
  ASSUME CallInv, NEW c
  PROVE  /\ Waiting(c) \subseteq Threads
         /\ IsFiniteSet(Waiting(c)) /\ Cardinality(Waiting(c)) \in Nat
  <1>1. Waiting(c) \subseteq Threads
    BY DEF CallInv, Typed, ThreadTypes, Waiting
  <1> QED BY <1>1, SharedAssumption, FS_Subset, FS_CardinalityType

LEMMA WaitingFiniteNext ==
  ASSUME CallInv', NEW c
  PROVE  IsFiniteSet(Waiting(c)') /\ Cardinality(Waiting(c)') \in Nat
  <1>1. Waiting(c)' \in SUBSET Threads
    BY DEF CallInv, Typed, ThreadTypes, Waiting
  <1> QED BY <1>1, SharedAssumption, FS_Subset, FS_CardinalityType

\* Nothing more is promised, and nobody who waits stops waiting.
LEMMA CoveredKept ==
  ASSUME CallInv, CallInv', NEW c \in Rendezvous, Covered(c),
         closed[c] => closed'[c],
         ~closed'[c] => /\ Len(queue'[c]) + rvDemand'[c] <= Len(queue[c]) + rvDemand[c]
                        /\ Waiting(c) \subseteq Waiting(c)'
  PROVE  Covered(c)'
  <1>1. SUFFICES ASSUME ~closed'[c]
                 PROVE  Len(queue'[c]) + rvDemand'[c] <= Cardinality(Waiting(c)')
    BY DEF Covered
  <1>2. IsFiniteSet(Waiting(c)')
    BY WaitingFiniteNext
  <1>3. Cardinality(Waiting(c)) <= Cardinality(Waiting(c)') /\ Cardinality(Waiting(c)') \in Nat
    BY <1>1, <1>2, FS_Subset, FS_CardinalityType
  <1>4. c \in Channels
    BY SharedAssumption
  <1>5. /\ Len(queue[c]) \in Nat /\ rvDemand[c] \in Nat
        /\ Len(queue'[c]) \in Nat /\ rvDemand'[c] \in Nat
    BY <1>4 DEF CallInv, Typed, ChannelTypes
  <1> QED BY <1>1, <1>3, <1>5, WaitingFinite DEF Covered

\* The others wait as before; t does not wait on c, or goes on waiting.
LEMMA OthersWait ==
  ASSUME CallInv, NEW t \in Threads, NEW c,
         \A u \in Threads \ {t} : /\ pc'[u] = pc[u] /\ call'[u] = call[u]
                                  /\ u \in holding => u \in holding',
         t \in Waiting(c) => t \in Waiting(c)'
  PROVE  Waiting(c) \subseteq Waiting(c)'
  BY DEF CallInv, Typed, ThreadTypes, Waiting, InCall, On

LEMMA GoesCovers ==
  ASSUME CallInv, CallInv', NEW t \in Threads, NEW l \in PcLabels, Goes(t, l),
         NEW c \in Rendezvous, Covered(c), UNCHANGED <<queue, rvDemand>>,
         t \in holding /\ pc[t] \in Before => l \in Before \/ closed[On(t)]
  PROVE  Covered(c)'
  <1>1. ~closed'[c] => Waiting(c) \subseteq Waiting(c)'
    BY OthersWait DEF CallInv, Typed, ThreadTypes, Goes, Waiting, InCall, On
  <1>2. c \in Channels
    BY SharedAssumption
  <1>3. /\ closed[c] => closed'[c]
        /\ Len(queue'[c]) + rvDemand'[c] <= Len(queue[c]) + rvDemand[c]
    BY <1>2 DEF CallInv, Typed, ChannelTypes, Goes
  <1> QED BY <1>1, <1>3, CoveredKept

LEMMA QuietStepCovers ==
  ASSUME CallInv, CallInv', RendezvousInv, NEW t \in Threads,
         \/ TrySend(t) \/ CopyIn(t) \/ PushTooLate(t) \/ TryRecvEmpty(t) \/ RingDone(t)
         \/ SendLock(t) \/ RecvLockAgain(t) \/ CondWaitEnds(t)
         \/ PollNow(t) \/ TimedOut(t) \/ PollWaits(t)
  PROVE  RendezvousInv'
  <1>1. /\ Sends(t) => t \notin holding
        /\ Drives(t) => t \notin holding
        /\ t \in holding => call[t].mode = "block" /\ Recvs(t)
    BY DEF CallInv, Located, HoldsDemand, Sends, Recvs, Drives
  <1>2. UNCHANGED <<queue, rvDemand>>
    BY DEF TrySend, CopyIn, PushTooLate, TryRecvEmpty, RingDone, SendLock, RecvLockAgain,
           CondWaitEnds, PollNow, TimedOut, PollWaits, Jump, WouldBlockSend, WouldBlockRecv,
           TakeEof, Polled, chanVars
  <1>3. CASE TrySend(t) \/ CopyIn(t) \/ PushTooLate(t) \/ SendLock(t)
    <2>1. t \notin holding
      BY <1>1, <1>3
      DEF TrySend, CopyIn, PushTooLate, SendLock, CallInv, Located, Placed
    <2>2. PICK l \in PcLabels : Goes(t, l)
      BY <1>3, JumpForm, WouldBlockSendForm
      DEF TrySend, CopyIn, PushTooLate, SendLock, PcLabels, CallInv, Located, Placed
    <2> QED BY <1>2, <2>1, <2>2, GoesCovers DEF RendezvousInv
  <1>4. CASE TryRecvEmpty(t)
    <2>1. PICK l \in PcLabels : Goes(t, l) /\ (l = "lock" \/ closed[On(t)] \/ Drives(t))
      BY <1>4, TakeEofForm, WouldBlockRecvForm DEF TryRecvEmpty, Answered, PcLabels
    <2> QED BY <1>1, <1>2, <2>1, GoesCovers DEF RendezvousInv, Before
  <1>5. CASE RingDone(t)
    <2>1. PICK l \in PcLabels : Goes(t, l)
      BY <1>5, JumpForm DEF RingDone, Answered, PcLabels
    <2> QED BY <1>2, <1>5, <2>1, GoesCovers DEF RendezvousInv, Before, RingDone
  <1>6. CASE RecvLockAgain(t) \/ CondWaitEnds(t)
    <2>1. PICK l \in PcLabels : Goes(t, l) /\ (l = "try" \/ closed[On(t)])
      BY <1>6, JumpForm, TakeEofForm DEF RecvLockAgain, CondWaitEnds, PcLabels
    <2> QED BY <1>2, <2>1, GoesCovers DEF RendezvousInv, Before
  <1>7. CASE PollNow(t) \/ TimedOut(t) \/ PollWaits(t)
    <2>1. idle[t] \in 0 .. IdleMax /\ IdleMax \in Nat
      BY SharedAssumption DEF CallInv, Typed, ThreadTypes
    <2>2. PICK l \in PcLabels : Goes(t, l)
      BY <1>7, <2>1, JumpForm, PolledForm DEF PollNow, TimedOut, PollWaits, PcLabels
    <2>3. pc[t] \notin Before
      BY <1>7 DEF PollNow, TimedOut, PollWaits, Before
    <2> QED BY <1>2, <2>2, <2>3, GoesCovers DEF RendezvousInv
  <1> QED BY <1>3, <1>4, <1>5, <1>6, <1>7

\* A message enters a rendezvous channel against a demand.
LEMMA PushCovers ==
  ASSUME CallInv, CallInv', RendezvousInv, NEW t \in Threads, PushMessage(t)
  PROVE  RendezvousInv'
  <1> SUFFICES ASSUME NEW c \in Rendezvous PROVE Covered(c)'
    BY DEF RendezvousInv
  <1>1. c \in Channels /\ Capacity[c] = 0
    BY SharedAssumption
  <1>2. Waiting(c) \subseteq Waiting(c)'
    BY OthersWait DEF PushMessage, Goto, Waiting, Before, CallInv, Typed, ThreadTypes
  <1>3. Len(queue'[c]) + rvDemand'[c] <= Len(queue[c]) + rvDemand[c]
    <2>1. CASE c = On(t)
      <3>1. /\ Len(queue[c]) < rvDemand[c]
            /\ queue'[c] = Append(queue[c], call[t].msg)
            /\ rvDemand'[c] = IF rvDemand[c] > 0 THEN rvDemand[c] - 1 ELSE rvDemand[c]
        BY <1>1, <2>1 DEF PushMessage, CanSend, CallInv, Typed, ChannelTypes
      <3>2. queue[c] \in Seq(Messages) /\ rvDemand[c] \in Nat
        BY <1>1 DEF CallInv, Typed, ChannelTypes
      <3> QED BY <3>1, <3>2
    <2>2. CASE c # On(t)
      BY <1>1, <2>2 DEF PushMessage, CallInv, Typed, ChannelTypes
    <2> QED BY <2>1, <2>2
  <1> QED BY <1>2, <1>3, CoveredKept DEF RendezvousInv, PushMessage

\* The receiver that takes a message stops waiting for one.
LEMMA PopCovers ==
  ASSUME CallInv, CallInv', RendezvousInv, NEW t \in Threads, PopMessage(t)
  PROVE  RendezvousInv'
  <1> SUFFICES ASSUME NEW c \in Rendezvous, ~closed[c]
               PROVE  Len(queue'[c]) + rvDemand'[c] <= Cardinality(Waiting(c)')
    BY DEF RendezvousInv, Covered, PopMessage
  <1>1. c \in Channels
    BY SharedAssumption
  <1>2. Len(queue[c]) + rvDemand[c] <= Cardinality(Waiting(c))
    BY DEF RendezvousInv, Covered
  <1>3. queue[c] \in Seq(Messages) /\ rvDemand'[c] = rvDemand[c] /\ rvDemand[c] \in Nat
    BY <1>1 DEF CallInv, Typed, ChannelTypes, PopMessage
  <1>4. CASE c = On(t)
    <2>1. Len(queue'[c]) = Len(queue[c]) - 1
      <3>1. queue[c] # <<>> /\ queue'[c] = Tail(queue[c])
        BY <1>1, <1>4 DEF PopMessage, CallInv, Typed, ChannelTypes
      <3> QED BY <1>3, <3>1
    <2>2. Waiting(c) \ {t} \subseteq Waiting(c)'
      BY DEF PopMessage, Goto, Waiting, InCall, On, CallInv, Typed, ThreadTypes
    <2>3. /\ Cardinality(Waiting(c)) - 1 <= Cardinality(Waiting(c) \ {t})
          /\ IsFiniteSet(Waiting(c) \ {t}) /\ Cardinality(Waiting(c) \ {t}) \in Nat
      <3>1. IsFiniteSet(Waiting(c)) /\ Cardinality(Waiting(c)) \in Nat
        BY WaitingFinite
      <3>2. /\ IsFiniteSet(Waiting(c) \ {t})
            /\ Cardinality(Waiting(c) \ {t}) = IF t \in Waiting(c)
                 THEN Cardinality(Waiting(c)) - 1 ELSE Cardinality(Waiting(c))
        BY <3>1, FS_RemoveElement
      <3> QED BY <3>1, <3>2, FS_CardinalityType
    <2>4. IsFiniteSet(Waiting(c)')
      BY WaitingFiniteNext
    <2>5. /\ Cardinality(Waiting(c) \ {t}) <= Cardinality(Waiting(c)')
          /\ Cardinality(Waiting(c)') \in Nat
      BY <2>2, <2>4, FS_Subset, FS_CardinalityType
    <2>6. Cardinality(Waiting(c)) \in Nat
      BY WaitingFinite
    <2>7. Len(queue[c]) \in Nat /\ Len(queue'[c]) \in Nat
      BY <1>1 DEF CallInv, Typed, ChannelTypes
    <2> QED BY <1>2, <1>3, <2>1, <2>3, <2>5, <2>6, <2>7
  <1>5. CASE c # On(t)
    <2>1. Waiting(c) \subseteq Waiting(c)'
      BY <1>5, OthersWait DEF PopMessage, Goto, Waiting, InCall, CallInv, Typed, ThreadTypes
    <2>2. queue'[c] = queue[c] /\ closed' = closed
      BY <1>1, <1>5 DEF PopMessage, CallInv, Typed, ChannelTypes
    <2>3. Covered(c)'
      BY <1>3, <2>1, <2>2, CoveredKept DEF RendezvousInv
    <2> QED BY <2>2, <2>3 DEF Covered
  <1> QED BY <1>4, <1>5

\* A receiver takes its own demand back, or what is left of it.
LEMMA ReleaseCovers ==
  ASSUME CallInv, CallInv', RendezvousInv, NEW t \in Threads, ReleaseDemand(t)
  PROVE  RendezvousInv'
  <1> SUFFICES ASSUME NEW c \in Rendezvous PROVE Covered(c)'
    BY DEF RendezvousInv
  <1>1. c \in Channels
    BY SharedAssumption
  <1>2. Waiting(c) \subseteq Waiting(c)'
    BY OthersWait DEF ReleaseDemand, Goto, Waiting, Before, CallInv, Typed, ThreadTypes
  <1>3. queue' = queue /\ closed' = closed /\ rvDemand'[c] <= rvDemand[c]
    BY <1>1 DEF ReleaseDemand, CallInv, Typed, ChannelTypes
  <1>4. /\ Len(queue[c]) \in Nat /\ rvDemand[c] \in Nat /\ rvDemand'[c] \in Nat
    BY <1>1 DEF CallInv, Typed, ChannelTypes
  <1> QED BY <1>2, <1>3, <1>4, CoveredKept DEF RendezvousInv

\* The demand a receiver adds is the one it waits for.
LEMMA CommitCovers ==
  ASSUME CallInv, CallInv', RendezvousInv, NEW t \in Threads, RecvCommit(t)
  PROVE  RendezvousInv'
  <1> SUFFICES ASSUME NEW c \in Rendezvous, ~closed[c]
               PROVE  Len(queue'[c]) + rvDemand'[c] <= Cardinality(Waiting(c)')
    BY DEF RendezvousInv, Covered, RecvCommit
  <1>1. c \in Channels
    BY SharedAssumption
  <1>2. /\ Len(queue[c]) + rvDemand[c] <= Cardinality(Waiting(c))
        /\ Len(queue[c]) \in Nat /\ rvDemand[c] \in Nat /\ queue' = queue
    BY <1>1 DEF RendezvousInv, Covered, CallInv, Typed, ChannelTypes, RecvCommit
  <1>3. CASE c = On(t) /\ t \notin holding
    <2>1. rvDemand'[c] = rvDemand[c] + 1
      BY <1>1, <1>3 DEF RecvCommit, CallInv, Typed, ChannelTypes
    <2>2. t \notin Waiting(c)
      BY <1>3 DEF Waiting
    <2>3. Waiting(c) \cup {t} \subseteq Waiting(c)'
      <3>1. /\ holding' = holding \cup {t} /\ call' = call /\ pc'[t] = "wait"
            /\ \A u \in Threads \ {t} : pc'[u] = pc[u]
        BY <1>3 DEF RecvCommit, Goto, CallInv, Typed, ThreadTypes
      <3>2. call[t] # NoCall
        BY NoCallFields DEF RecvCommit, Recvs
      <3> QED BY <1>3, <3>1, <3>2 DEF Waiting, InCall, On, Before, CallInv, Typed, ThreadTypes
    <2>4. Cardinality(Waiting(c) \cup {t}) = Cardinality(Waiting(c)) + 1
      BY <2>2, WaitingFinite, FS_AddElement
    <2>5. Cardinality(Waiting(c) \cup {t}) <= Cardinality(Waiting(c)')
      BY <2>3, WaitingFiniteNext, FS_Subset
    <2> QED BY <1>2, <2>1, <2>4, <2>5, WaitingFinite, WaitingFiniteNext
  <1>4. CASE ~(c = On(t) /\ t \notin holding)
    <2>1. rvDemand'[c] = rvDemand[c] /\ closed' = closed
      BY <1>1, <1>4 DEF RecvCommit, CallInv, Typed, ChannelTypes
    <2>2. Waiting(c) \subseteq Waiting(c)'
      <3>1. t \in Waiting(c) => t \in Waiting(c)'
        BY DEF RecvCommit, Goto, Waiting, InCall, On, Before, CallInv, Typed, ThreadTypes
      <3> QED BY <3>1, OthersWait DEF RecvCommit, Goto, CallInv, Typed, ThreadTypes
    <2>3. Covered(c)'
      BY <1>2, <2>1, <2>2, CoveredKept DEF RendezvousInv
    <2> QED BY <2>1, <2>3 DEF Covered
  <1> QED BY <1>3, <1>4

\* The steps of a thread that does not wait, and changes no queue or demand.
LEMMA BusyStepCovers ==
  ASSUME CallInv, CallInv', RendezvousInv, NEW t \in Threads,
         \/ Ring(t) \/ Return(t) \/ EndReactor(t)
         \/ \E c \in Channels :
              \/ Close(t, c) \/ DropStub(t, c)
              \/ \E op \in {"send", "recv"}, mode \in Modes[t] : Call(t, op, mode, c)
  PROVE  RendezvousInv'
  <1>1. queue' = queue /\ rvDemand' = rvDemand
    BY DEF Ring, Return, EndReactor, Close, DropStub, Call, chanVars
  <1>2. \A c \in Channels : closed[c] => closed'[c]
    BY DEF Ring, Return, EndReactor, Close, DropStub, Call, chanVars, CallInv, Typed,
           ChannelTypes
  <1>3. pc[t] \notin Before
    BY DEF Ring, Return, EndReactor, Close, DropStub, Call, Before
  <1>4. \A u \in Threads \ {t} : /\ pc'[u] = pc[u] /\ call'[u] = call[u]
                                 /\ u \in holding => u \in holding'
    BY DEF Ring, Return, EndReactor, Close, DropStub, Call, Goto, threadVars, CallInv, Typed,
           ThreadTypes
  <1>5. ASSUME NEW c \in Rendezvous PROVE Covered(c)'
    <2>1. c \in Channels
      BY SharedAssumption
    <2>2. Waiting(c) \subseteq Waiting(c)'
      BY <1>3, <1>4, OthersWait DEF Waiting
    <2>3. Len(queue[c]) \in Nat /\ rvDemand[c] \in Nat
      BY <2>1 DEF CallInv, Typed, ChannelTypes
    <2> QED BY <1>1, <1>2, <2>1, <2>2, <2>3, CoveredKept DEF RendezvousInv
  <1> QED BY <1>5 DEF RendezvousInv

LEMMA NextCovers == CallInv /\ CallInv' /\ RendezvousInv /\ [Next]_vars => RendezvousInv'
  <1> SUFFICES ASSUME CallInv, CallInv', RendezvousInv, [Next]_vars PROVE RendezvousInv'
    OBVIOUS
  <1>1. CASE Next
    <2>1. ASSUME NEW t \in Threads, Step(t) PROVE RendezvousInv'
      BY <2>1, QuietStepCovers, PushCovers, PopCovers, ReleaseCovers, CommitCovers,
         BusyStepCovers
      DEF Step
    <2>2. ASSUME NEW t \in Threads, ~Step(t), NEW c \in Channels,
                 \/ Close(t, c) \/ DropStub(t, c) \/ EndReactor(t)
                 \/ \E op \in {"send", "recv"}, mode \in Modes[t] : Call(t, op, mode, c)
          PROVE  RendezvousInv'
      BY <2>2, BusyStepCovers
    <2>3. ASSUME NEW t \in Threads, EndReactor(t) PROVE RendezvousInv'
      BY <2>3, BusyStepCovers
    <2> QED BY <1>1, <2>1, <2>2, <2>3 DEF Next
  <1>2. CASE UNCHANGED vars
    BY <1>2 DEF vars, chanVars, threadVars, RendezvousInv, Covered, Waiting, InCall, On
  <1> QED BY <1>1, <1>2

LEMMA InitRendezvousInv == Init => RendezvousInv
  <1> SUFFICES ASSUME Init, NEW c \in Rendezvous
               PROVE  Len(queue[c]) + rvDemand[c] <= Cardinality(Waiting(c))
    BY DEF RendezvousInv, Covered
  <1>1. Len(queue[c]) = 0 /\ rvDemand[c] = 0
    BY SharedAssumption DEF Init
  <1> QED BY <1>1, InitCallInv, WaitingFinite

LEMMA RendezvousFromInv == CallInv /\ RendezvousInv => RendezvousHasReceiver
  <1> SUFFICES ASSUME CallInv, RendezvousInv, NEW c \in Rendezvous, ~closed[c]
               PROVE  Len(queue[c]) + rvDemand[c] <= Cardinality(Commits(c))
    BY DEF RendezvousHasReceiver
  <1>1. Commits(c) \in SUBSET Threads /\ Waiting(c) \in SUBSET Commits(c)
    BY DEF Commits, Waiting, CallInv, Typed, ThreadTypes
  <1>2. Cardinality(Waiting(c)) <= Cardinality(Commits(c)) /\ Cardinality(Commits(c)) \in Nat
    BY <1>1, SharedAssumption, FS_Subset, FS_CardinalityType
  <1>3. Len(queue[c]) \in Nat /\ rvDemand[c] \in Nat
    BY SharedAssumption DEF CallInv, Typed, ChannelTypes
  <1> QED BY <1>2, <1>3, WaitingFinite DEF RendezvousInv, Covered

\* A rendezvous channel never holds, or promises room for, more messages than
\* there are receivers that committed and have not given the commitment up.
THEOREM RendezvousSound == Spec => []RendezvousHasReceiver
  <1>1. Init => RendezvousInv
    BY InitRendezvousInv
  <1>2. CallInv /\ CallInv' /\ RendezvousInv /\ [Next]_vars => RendezvousInv'
    BY NextCovers
  <1>3. CallInv /\ RendezvousInv => RendezvousHasReceiver
    BY RendezvousFromInv
  <1> QED BY <1>1, <1>2, <1>3, CallsInPlace, PTL DEF Spec

-----------------------------------------------------------------------------
(* No wakeup is lost between the registration and the poll.  A full list   *)
(* drops a registration, so this needs a list that holds every thread's    *)
(* notifier; that it never needs more room is because it holds each once.  *)

Once(ring) == \A i, j \in DOMAIN ring : ring[i] = ring[j] => i = j
RingsOnce == \A c \in Channels : Once(sendRing[c]) /\ Once(recvRing[c])

\* What the call waits for has happened.
Ready(t) ==
  \/ Recvs(t) /\ (queue[On(t)] # <<>> \/ closed[On(t)])
  \/ Sends(t) /\ (CanSend(On(t)) \/ closed[On(t)])

ListOf(t) == IF Recvs(t) THEN recvRing[On(t)] ELSE sendRing[On(t)]

\* A thread about to poll is rung, or it is registered and has nothing to do.
Listening(t) ==
  pc[t] = "poll" /\ (Sends(t) => On(t) \notin Rendezvous)
    => Rung(t) \/ (t \in Elems(ListOf(t)) /\ ~Ready(t))

RungInv == RingsOnce /\ \A t \in Threads : Listening(t)

LEMMA RegisteredElems ==
  ASSUME NEW t \in Threads, NEW ring \in Seq(Threads), Once(ring)
  PROVE  /\ Once(Registered(t, ring))
         /\ Elems(ring) \subseteq Elems(Registered(t, ring))
         /\ Drives(t) /\ Cardinality(Threads) <= WaiterMax => t \in Elems(Registered(t, ring))
  <1>1. CASE Registers(t, ring)
    <2>1. Registered(t, ring) = Append(ring, t) /\ t \notin Elems(ring)
      BY <1>1 DEF Registered, Registers
    <2>2. /\ Append(ring, t) \in Seq(Threads) /\ Len(Append(ring, t)) = Len(ring) + 1
          /\ \A i \in 1 .. Len(ring) : Append(ring, t)[i] = ring[i]
          /\ Append(ring, t)[Len(ring) + 1] = t
          /\ DOMAIN ring = 1 .. Len(ring)
          /\ DOMAIN Append(ring, t) = 1 .. (Len(ring) + 1)
      OBVIOUS
    <2> QED BY <2>1, <2>2 DEF Once, Elems
  <1>2. CASE ~Registers(t, ring)
    <2>1. ASSUME Drives(t), Cardinality(Threads) <= WaiterMax, t \notin Elems(ring)
          PROVE  FALSE
      <3>0. Len(ring) \in Nat /\ WaiterMax \in Nat
        BY SharedAssumption
      <3>1. ~(Len(ring) < WaiterMax)
        BY <1>2, <2>1 DEF Registers
      <3>2. /\ ring \in [1 .. Len(ring) -> Threads \ {t}] /\ Len(ring) \in Nat
        BY <2>1 DEF Elems
      <3>3. ring \in Injection(1 .. Len(ring), Threads \ {t})
        BY <3>2 DEF Injection, IsInjective, Once
      <3>4. /\ IsFiniteSet(Threads \ {t}) /\ Cardinality(Threads \ {t}) = Cardinality(Threads) - 1
            /\ Cardinality(Threads) \in Nat
        BY SharedAssumption, FS_RemoveElement, FS_CardinalityType
      <3>5. Cardinality(1 .. Len(ring)) <= Cardinality(Threads \ {t})
        BY <3>3, <3>4, FS_Injection
      <3>6. Cardinality(1 .. Len(ring)) = Len(ring)
        BY <3>0, FS_Interval, SMTT(30)
      <3>7. Len(ring) <= Cardinality(Threads) - 1
        BY <3>4, <3>5, <3>6
      <3> QED BY <2>1, <3>0, <3>1, <3>4, <3>7
    <2> QED BY <1>2, <2>1 DEF Registered
  <1> QED BY <1>1, <1>2

\* A ring in flight reaches its notifier: what another thread does takes no
\* thread's ring away.
LEMMA RungStays ==
  ASSUME NEW t \in Threads, NEW u \in Threads, t # u, Rung(t),
         notified \ {u} \subseteq notified',
         \A v \in Threads \ {u} : ringing'[v] = ringing[v],
         t \in Elems(ringing[u]) => t \in Elems(ringing'[u]) \/ t \in notified'
  PROVE  Rung(t)'
  BY DEF Rung

\* A step of u that leaves t's channel as it is, and takes nobody off its lists.
LEMMA StillListening ==
  ASSUME CallInv, NEW t \in Threads, Listening(t),
         pc'[t] = pc[t], call'[t] = call[t],
         Rung(t) => Rung(t)',
         pc[t] = "poll" /\ On(t) \in Channels /\ (Sends(t) => On(t) \notin Rendezvous) =>
           \/ Rung(t)'
           \/ /\ queue'[On(t)] = queue[On(t)] /\ closed'[On(t)] = closed[On(t)]
              /\ Elems(sendRing[On(t)]) \subseteq Elems(sendRing'[On(t)])
              /\ Elems(recvRing[On(t)]) \subseteq Elems(recvRing'[On(t)])
  PROVE  Listening(t)'
  <1>1. pc[t] = "poll" => On(t) \in Channels
    BY CallFields DEF CallInv, Located, Placed, On
  <1>2. SUFFICES ASSUME pc'[t] = "poll", (Sends(t) => On(t) \notin Rendezvous)', ~Rung(t)'
                 PROVE  (t \in Elems(ListOf(t)) /\ ~Ready(t))'
    BY DEF Listening
  <1>3. /\ On(t)' = On(t) /\ (Recvs(t)' <=> Recvs(t)) /\ (Sends(t)' <=> Sends(t))
        /\ pc[t] = "poll"
    BY <1>2 DEF On, Recvs, Sends
  <1>4. /\ t \in Elems(ListOf(t)) /\ ~Ready(t)
        /\ queue'[On(t)] = queue[On(t)] /\ closed'[On(t)] = closed[On(t)]
        /\ Elems(sendRing[On(t)]) \subseteq Elems(sendRing'[On(t)])
        /\ Elems(recvRing[On(t)]) \subseteq Elems(recvRing'[On(t)])
    BY <1>1, <1>2, <1>3 DEF Listening
  <1>5. Sends(t) => (CanSend(On(t))' <=> CanSend(On(t)))
    BY <1>2, <1>3, <1>4 DEF CanSend, On, Sends
  <1> QED BY <1>3, <1>4, <1>5 DEF Ready, ListOf

\* A step that moves no message, list or ring, and does not go to poll.
LEMMA QuietListening ==
  ASSUME CallInv, RungInv, NEW u \in Threads,
         UNCHANGED <<queue, closed, sendRing, recvRing, ringing>>,
         notified \ {u} \subseteq notified',
         \A t \in Threads \ {u} : pc'[t] = pc[t] /\ call'[t] = call[t],
         pc'[u] # "poll"
  PROVE  RungInv'
  <1>1. RingsOnce'
    BY DEF RungInv, RingsOnce
  <1>2. ASSUME NEW t \in Threads PROVE Listening(t)'
    <2>1. CASE t = u
      BY <2>1 DEF Listening
    <2>2. CASE t # u
      <3>1. Rung(t) => Rung(t)'
        BY <2>2, RungStays
      <3> QED BY <2>2, <3>1, StillListening DEF RungInv
    <2> QED BY <2>1, <2>2
  <1> QED BY <1>1, <1>2 DEF RungInv

\* A call that found nothing to do registers before it polls.
LEMMA BlockedListening ==
  ASSUME CallInv, RungInv, Cardinality(Threads) <= WaiterMax, NEW u \in Threads,
         ~Ready(u),
         \/ Sends(u) /\ WouldBlockSend(u)
         \/ Recvs(u) /\ WouldBlockRecv(u)
  PROVE  RungInv'
  <1> DEFINE c == On(u)
  <1>1. c \in Channels /\ sendRing[c] \in Seq(Threads) /\ recvRing[c] \in Seq(Threads)
    BY CallFields, NoCallFields DEF Sends, Recvs, On, CallInv, Typed, ThreadTypes, RingTypes
  <1>2. Once(sendRing[c]) /\ Once(recvRing[c])
    BY <1>1 DEF RungInv, RingsOnce
  <1>3. /\ UNCHANGED <<queue, closed, rvDemand, call, ringing, notified>>
        /\ pc' = [pc EXCEPT ![u] = IF Drives(u) THEN "poll" ELSE "lock"]
    BY DEF WouldBlockSend, WouldBlockRecv, Goto, chanVars
  <1>4. \/ /\ Sends(u) /\ recvRing' = recvRing
           /\ sendRing' = [sendRing EXCEPT ![c] = Registered(u, @)]
        \/ /\ Recvs(u) /\ sendRing' = sendRing
           /\ recvRing' = [recvRing EXCEPT ![c] = Registered(u, @)]
    BY DEF WouldBlockSend, WouldBlockRecv
  <1>5. ASSUME NEW d \in Channels
        PROVE  /\ Once(sendRing'[d]) /\ Once(recvRing'[d])
               /\ Elems(sendRing[d]) \subseteq Elems(sendRing'[d])
               /\ Elems(recvRing[d]) \subseteq Elems(recvRing'[d])
    <2>1. \/ sendRing'[d] = sendRing[d]
          \/ d = c /\ sendRing'[d] = Registered(u, sendRing[c])
      BY <1>1, <1>4 DEF CallInv, Typed, RingTypes
    <2>2. \/ recvRing'[d] = recvRing[d]
          \/ d = c /\ recvRing'[d] = Registered(u, recvRing[c])
      BY <1>1, <1>4 DEF CallInv, Typed, RingTypes
    <2> QED BY <1>1, <1>2, <2>1, <2>2, RegisteredElems DEF RungInv, RingsOnce
  <1>6. ASSUME NEW t \in Threads PROVE Listening(t)'
    <2>1. CASE t = u
      <3>1. SUFFICES ASSUME Drives(u) PROVE (t \in Elems(ListOf(t)) /\ ~Ready(t))'
        BY <1>3, <2>1 DEF Listening, CallInv, Typed, ThreadTypes
      <3>2. /\ Sends(u) => u \in Elems(sendRing'[c])
            /\ Recvs(u) => u \in Elems(recvRing'[c])
        BY <1>1, <1>2, <1>4, <3>1, RegisteredElems DEF CallInv, Typed, RingTypes, Sends, Recvs
      <3>3. On(u)' = c /\ (Sends(u)' <=> Sends(u)) /\ (Recvs(u)' <=> Recvs(u))
        BY <1>3 DEF On, Sends, Recvs
      <3>4. u \in Elems(ListOf(u))'
        BY <3>2, <3>3, <1>4 DEF ListOf
      <3>5. ~Ready(u)'
        BY <1>3, <3>3 DEF Ready, CanSend
      <3> QED BY <2>1, <3>4, <3>5
    <2>2. CASE t # u
      <3>1. Rung(t) => Rung(t)'
        BY <1>3 DEF Rung
      <3>2. pc'[t] = pc[t] /\ call'[t] = call[t]
        BY <1>3, <2>2 DEF CallInv, Typed, ThreadTypes
      <3> QED BY <1>3, <1>5, <3>1, <3>2, StillListening DEF RungInv
    <2> QED BY <2>1, <2>2
  <1>7. RingsOnce'
    BY <1>5 DEF RingsOnce
  <1> QED BY <1>6, <1>7 DEF RungInv

\* What t is registered for.
LEMMA ListenerOnList ==
  ASSUME CallInv, RungInv, NEW t \in Threads, pc[t] = "poll", ~Rung(t),
         Sends(t) => On(t) \notin Rendezvous
  PROVE  /\ Recvs(t) \/ Sends(t)
         /\ Recvs(t) => t \in Elems(recvRing[On(t)]) /\ queue[On(t)] = <<>> /\ ~closed[On(t)]
         /\ Sends(t) => t \in Elems(sendRing[On(t)]) /\ ~CanSend(On(t)) /\ ~closed[On(t)]
  BY DEF CallInv, Located, Placed, Drives, RungInv, Listening, ListOf, Ready, Sends, Recvs

\* A list that is taken off its channel is rung as a whole.
LEMMA PushListening ==
  ASSUME CallInv, RungInv, NEW u \in Threads, PushMessage(u)
  PROVE  RungInv'
  <1> DEFINE c == On(u)
  <1>1. /\ CanSend(c)
        /\ queue' = [queue EXCEPT ![c] = Append(@, call[u].msg)]
        /\ ringing' = [ringing EXCEPT ![u] = recvRing[c]]
        /\ recvRing' = [recvRing EXCEPT ![c] = <<>>]
        /\ pc' = [pc EXCEPT ![u] = "ring"]
        /\ UNCHANGED <<closed, sendRing, call, notified>>
    BY DEF PushMessage, Goto, notifyVars
  <1>2. ringing[u] = <<>> /\ c \in Channels
    BY SendFields DEF PushMessage, CallInv, Located, Placed
  <1> HIDE DEF c
  <1>3. RingsOnce'
    BY <1>1 DEF RungInv, RingsOnce, Once, CallInv, Typed, RingTypes
  <1>4. ringing'[u] = recvRing[c] /\ \A v \in Threads \ {u} : ringing'[v] = ringing[v]
    BY <1>1 DEF CallInv, Typed, RingTypes
  <1>5. ASSUME NEW t \in Threads PROVE Listening(t)'
    <2>1. CASE t = u
      BY <1>1, <2>1 DEF Listening, CallInv, Typed, ThreadTypes
    <2>2. CASE t # u
      <3>1. Rung(t) => Rung(t)'
        BY <1>1, <1>2, <1>4, <2>2, RungStays DEF Elems
      <3>2. pc'[t] = pc[t] /\ call'[t] = call[t]
        BY <1>1, <2>2 DEF CallInv, Typed, ThreadTypes
      <3>3. ASSUME On(t) = c, pc[t] = "poll", Sends(t) => On(t) \notin Rendezvous
            PROVE  Rung(t)'
        BY <1>1, <1>4, <3>1, <3>3, ListenerOnList DEF Rung
      <3>4. ASSUME On(t) # c, On(t) \in Channels
            PROVE  /\ queue'[On(t)] = queue[On(t)]
                   /\ recvRing'[On(t)] = recvRing[On(t)]
        BY <1>1, <3>4 DEF CallInv, Typed, ChannelTypes, RingTypes
      <3> QED BY <1>1, <3>1, <3>2, <3>3, <3>4, StillListening DEF RungInv
    <2> QED BY <2>1, <2>2
  <1> QED BY <1>3, <1>5 DEF RungInv

LEMMA PopListening ==
  ASSUME CallInv, RungInv, NEW u \in Threads, PopMessage(u)
  PROVE  RungInv'
  <1> DEFINE c == On(u)
  <1>1. /\ queue[c] # <<>>
        /\ queue' = [queue EXCEPT ![c] = Tail(@)]
        /\ ringing' = [ringing EXCEPT ![u] = sendRing[c]]
        /\ sendRing' = [sendRing EXCEPT ![c] = <<>>]
        /\ pc' = [pc EXCEPT ![u] = "ring"]
        /\ UNCHANGED <<closed, recvRing, call, notified>>
    BY DEF PopMessage, Goto, notifyVars
  <1>2. ringing[u] = <<>> /\ c \in Channels
    BY RecvFields DEF PopMessage, CallInv, Located, Placed
  <1> HIDE DEF c
  <1>3. RingsOnce'
    BY <1>1 DEF RungInv, RingsOnce, Once, CallInv, Typed, RingTypes
  <1>4. ringing'[u] = sendRing[c] /\ \A v \in Threads \ {u} : ringing'[v] = ringing[v]
    BY <1>1 DEF CallInv, Typed, RingTypes
  <1>5. ASSUME NEW t \in Threads PROVE Listening(t)'
    <2>1. CASE t = u
      BY <1>1, <2>1 DEF Listening, CallInv, Typed, ThreadTypes
    <2>2. CASE t # u
      <3>1. Rung(t) => Rung(t)'
        BY <1>1, <1>2, <1>4, <2>2, RungStays DEF Elems
      <3>2. pc'[t] = pc[t] /\ call'[t] = call[t]
        BY <1>1, <2>2 DEF CallInv, Typed, ThreadTypes
      <3>3. ASSUME On(t) = c, pc[t] = "poll", Sends(t) => On(t) \notin Rendezvous
            PROVE  Rung(t)'
        BY <1>1, <1>4, <3>1, <3>3, ListenerOnList DEF Rung
      <3>4. ASSUME On(t) # c, On(t) \in Channels
            PROVE  /\ queue'[On(t)] = queue[On(t)]
                   /\ sendRing'[On(t)] = sendRing[On(t)]
        BY <1>1, <3>4 DEF CallInv, Typed, ChannelTypes, RingTypes
      <3> QED BY <1>1, <3>1, <3>2, <3>3, <3>4, StillListening DEF RungInv
    <2> QED BY <2>1, <2>2
  <1> QED BY <1>3, <1>5 DEF RungInv

\* What is in either sequence is in their concatenation.
LEMMA ConcatElems ==
  ASSUME NEW a \in Seq(Threads), NEW b \in Seq(Threads)
  PROVE  Elems(a) \subseteq Elems(a \o b) /\ Elems(b) \subseteq Elems(a \o b)
  <1>1. /\ Len(a) \in Nat /\ Len(b) \in Nat
        /\ DOMAIN a = 1 .. Len(a) /\ DOMAIN b = 1 .. Len(b)
        /\ DOMAIN (a \o b) = 1 .. (Len(a) + Len(b))
    OBVIOUS
  <1>2. ASSUME NEW i \in DOMAIN a PROVE (a \o b)[i] = a[i] /\ i \in DOMAIN (a \o b)
    OBVIOUS
  <1>3. ASSUME NEW i \in DOMAIN b
        PROVE  \E j \in DOMAIN (a \o b) : (a \o b)[j] = b[i]
    <2> DEFINE j == Len(a) + i
    <2>1. j \in 1 .. (Len(a) + Len(b)) /\ ~(j <= Len(a)) /\ j - Len(a) = i
      BY <1>1
    <2>2. \A k \in 1 .. (Len(a) + Len(b)) :
            (a \o b)[k] = IF k <= Len(a) THEN a[k] ELSE b[k - Len(a)]
      BY ConcatProperties
    <2>3. (a \o b)[j] = b[j - Len(a)]
      BY <2>1, <2>2
    <2> QED BY <1>1, <2>1, <2>3
  <1>4. Elems(a) \subseteq Elems(a \o b)
    BY <1>2 DEF Elems
  <1>5. Elems(b) \subseteq Elems(a \o b)
    BY <1>3 DEF Elems
  <1> QED BY <1>4, <1>5

LEMMA CloseListening ==
  ASSUME CallInv, RungInv, NEW u \in Threads, NEW c \in Channels, Close(u, c)
  PROVE  RungInv'
  <1>1. /\ closed' = [closed EXCEPT ![c] = TRUE]
        /\ ringing' = [ringing EXCEPT ![u] = sendRing[c] \o recvRing[c]]
        /\ sendRing' = [sendRing EXCEPT ![c] = <<>>]
        /\ recvRing' = [recvRing EXCEPT ![c] = <<>>]
        /\ UNCHANGED <<queue, notified>>
    BY DEF Close, notifyVars
  <1>2. ringing[u] = <<>>
    BY DEF Close, CallInv, Located, Placed
  <1>3. RingsOnce'
    BY <1>1 DEF RungInv, RingsOnce, Once, CallInv, Typed, RingTypes
  <1>4. /\ ringing'[u] = sendRing[c] \o recvRing[c]
        /\ \A v \in Threads \ {u} : ringing'[v] = ringing[v]
    BY <1>1 DEF CallInv, Typed, RingTypes
  <1>5. /\ Elems(sendRing[c]) \subseteq Elems(ringing'[u])
        /\ Elems(recvRing[c]) \subseteq Elems(ringing'[u])
    <2>1. sendRing[c] \in Seq(Threads) /\ recvRing[c] \in Seq(Threads)
      BY DEF CallInv, Typed, RingTypes
    <2> QED BY <1>4, <2>1, ConcatElems
  <1>6. ASSUME NEW t \in Threads PROVE Listening(t)'
    <2>1. CASE t = u
      BY <2>1 DEF Listening, Close, Goto, CallInv, Typed, ThreadTypes
    <2>2. CASE t # u
      <3>1. Rung(t) => Rung(t)'
        <4>1. notified' = notified /\ t \notin Elems(ringing[u])
          BY <1>1, <1>2 DEF Elems
        <4> QED BY <1>4, <2>2, <4>1, RungStays
      <3>2. pc'[t] = pc[t] /\ call'[t] = call[t]
        BY <2>2 DEF Close, Goto, CallInv, Typed, ThreadTypes
      <3>3. ASSUME On(t) = c, pc[t] = "poll", Sends(t) => On(t) \notin Rendezvous
            PROVE  Rung(t)'
        BY <1>1, <1>5, <3>1, <3>3, ListenerOnList DEF Rung
      <3>4. ASSUME On(t) # c, On(t) \in Channels
            PROVE  /\ closed'[On(t)] = closed[On(t)]
                   /\ sendRing'[On(t)] = sendRing[On(t)]
                   /\ recvRing'[On(t)] = recvRing[On(t)]
        BY <1>1, <3>4 DEF CallInv, Typed, ChannelTypes, RingTypes
      <3> QED BY <1>1, <3>1, <3>2, <3>3, <3>4, StillListening DEF RungInv
    <2> QED BY <2>1, <2>2
  <1> QED BY <1>3, <1>6 DEF RungInv

\* A ring that leaves the buffer is a notification of a thread that runs.
LEMMA RingListening ==
  ASSUME CallInv, RungInv, NEW u \in Threads, Ring(u)
  PROVE  RungInv'
  <1> DEFINE n == Head(ringing[u])
  <1>1. /\ UNCHANGED <<queue, closed, sendRing, recvRing, pc, call>>
        /\ ringing' = [ringing EXCEPT ![u] = Tail(@)]
        /\ notified' = IF n \in alive THEN notified \cup {n} ELSE notified
        /\ ringing[u] # <<>>
    BY DEF Ring, chanVars, ringVars
  <1>2. RingsOnce'
    BY <1>1 DEF RungInv, RingsOnce
  <1>3. ringing[u] \in Seq(Threads) /\ ringing'[u] = Tail(ringing[u])
    BY <1>1 DEF CallInv, Typed, RingTypes
  <1>4. \A x \in Elems(ringing[u]) : x = n \/ x \in Elems(ringing'[u])
    <2>1. ASSUME NEW i \in DOMAIN ringing[u], i # 1
          PROVE  i - 1 \in DOMAIN Tail(ringing[u]) /\ Tail(ringing[u])[i - 1] = ringing[u][i]
      BY <1>1, <1>3, <2>1
    <2>2. ringing[u][1] = n
      BY <1>1, <1>3
    <2> QED BY <1>3, <2>1, <2>2, ZenonT(40) DEF Elems
  <1>5. ASSUME NEW t \in Threads PROVE Listening(t)'
    <2>1. pc[t] = "poll" => t \in alive
      BY DEF CallInv, Located, Placed
    <2>2. pc[t] = "poll" /\ Rung(t) => Rung(t)'
      <3>1. \A v \in Threads \ {u} : ringing'[v] = ringing[v]
        BY <1>1 DEF CallInv, Typed, RingTypes
      <3> QED BY <1>1, <1>4, <2>1, <3>1 DEF Rung
    <2> QED BY <1>1, <2>2 DEF RungInv, Listening, Ready, ListOf, CanSend, Sends, Recvs, On
  <1> QED BY <1>2, <1>5 DEF RungInv

\* The last stub takes the lists away; no call is left on the channel then.
LEMMA DropStubListening ==
  ASSUME CallInv, RungInv, NEW u \in Threads, NEW c \in Channels, DropStub(u, c)
  PROVE  RungInv'
  <1>1. UNCHANGED <<queue, closed, pc, call, ringing, notified>>
    BY DEF DropStub, chanVars, threadVars
  <1>2. CASE stubs[c] = {u}
    <2>1. /\ sendRing' = [sendRing EXCEPT ![c] = <<>>]
          /\ recvRing' = [recvRing EXCEPT ![c] = <<>>]
      BY <1>2 DEF DropStub
    <2>2. RingsOnce'
      BY <2>1 DEF RungInv, RingsOnce, Once, CallInv, Typed, RingTypes
    <2>3. ASSUME NEW t \in Threads PROVE Listening(t)'
      <3>1. pc[t] = "poll" => On(t) # c
        BY <1>2 DEF DropStub, CallInv, Located, Placed, Owned
      <3>2. On(t) # c /\ On(t) \in Channels =>
              sendRing'[On(t)] = sendRing[On(t)] /\ recvRing'[On(t)] = recvRing[On(t)]
        BY <2>1 DEF CallInv, Typed, RingTypes
      <3>3. Rung(t) => Rung(t)'
        BY <1>1 DEF Rung
      <3> QED BY <1>1, <3>1, <3>2, <3>3, StillListening DEF RungInv
    <2> QED BY <2>2, <2>3 DEF RungInv
  <1>3. CASE stubs[c] # {u}
    <2>1. UNCHANGED <<sendRing, recvRing>>
      BY <1>3 DEF DropStub
    <2>2. pc'[u] # "poll"
      BY <1>1 DEF DropStub
    <2> QED BY <1>1, <2>1, <2>2, QuietListening
  <1> QED BY <1>2, <1>3

LEMMA StepListening ==
  ASSUME CallInv, RungInv, Cardinality(Threads) <= WaiterMax, NEW u \in Threads, Step(u)
  PROVE  RungInv'
  <1>1. ASSUME TrySend(u) \/ PushTooLate(u) \/ TryRecvEmpty(u) PROVE RungInv'
    <2>1. \/ ~Ready(u) /\ Sends(u) /\ WouldBlockSend(u)
          \/ ~Ready(u) /\ Recvs(u) /\ WouldBlockRecv(u)
          \/ \E l \in {"return", "copy"} : Jump(u, l)
          \/ \E l \in {"return", "release"} : TakeEof(u, l)
      BY <1>1 DEF TrySend, PushTooLate, TryRecvEmpty, Answered, Ready, Sends, Recvs,
                  CallInv, Located, Placed
    <2>2. ASSUME NEW l \in {"return", "copy", "release"}, Jump(u, l) \/ TakeEof(u, l)
          PROVE  RungInv'
      BY <2>2, QuietListening DEF Jump, TakeEof, Goto, CallInv, Typed, ThreadTypes, chanVars,
                                  ringVars, notifyVars
    <2> QED BY <2>1, <2>2, BlockedListening
  <1>2. ASSUME NEW l \in PcLabels \ {"poll"}, Jump(u, l) \/ TakeEof(u, l) PROVE RungInv'
    BY <1>2, QuietListening DEF Jump, TakeEof, Goto, CallInv, Typed, ThreadTypes, chanVars,
                                ringVars, notifyVars
  <1>3. ASSUME CopyIn(u) \/ RingDone(u) \/ SendLock(u) \/ RecvLockAgain(u)
               \/ CondWaitEnds(u) \/ TimedOut(u)
        PROVE  RungInv'
    <2>1. \E l \in PcLabels \ {"poll"} : Jump(u, l) \/ TakeEof(u, l)
      BY <1>3 DEF CopyIn, RingDone, SendLock, RecvLockAgain, CondWaitEnds, TimedOut,
                  Answered, PcLabels
    <2> QED BY <1>2, <2>1
  <1>4. ASSUME PollNow(u) \/ PollWaits(u) PROVE RungInv'
    <2>1. /\ UNCHANGED <<queue, closed, sendRing, recvRing, ringing, call>>
          /\ notified \ {u} \subseteq notified'
          /\ \E l \in {"try", "return", "sleep"} : pc' = [pc EXCEPT ![u] = l]
      BY <1>4 DEF PollNow, PollWaits, Polled, Goto, chanVars, ringVars
    <2> QED BY <2>1, QuietListening DEF CallInv, Typed, ThreadTypes
  <1>5. ASSUME ReleaseDemand(u) \/ RecvCommit(u) \/ Return(u) PROVE RungInv'
    BY <1>5, QuietListening
    DEF ReleaseDemand, RecvCommit, Return, Goto, CallInv, Typed, ThreadTypes, chanVars,
        ringVars, notifyVars
  <1> QED BY <1>1, <1>3, <1>4, <1>5, PushListening, PopListening, RingListening DEF Step

LEMMA NextListening ==
  ASSUME CallInv, RungInv, Cardinality(Threads) <= WaiterMax, [Next]_vars
  PROVE  RungInv'
  <1>1. ASSUME NEW t \in Threads, Step(t) PROVE RungInv'
    BY <1>1, StepListening
  <1>2. ASSUME NEW t \in Threads, NEW c \in Channels,
               NEW op \in {"send", "recv"}, NEW mode \in Modes[t], Call(t, op, mode, c)
        PROVE  RungInv'
    BY <1>2, QuietListening DEF Call, Goto, CallInv, Typed, ThreadTypes, chanVars, ringVars
  <1>3. ASSUME NEW t \in Threads, NEW c \in Channels, Close(t, c) \/ DropStub(t, c)
        PROVE  RungInv'
    BY <1>3, CloseListening, DropStubListening
  <1>4. ASSUME NEW t \in Threads, EndReactor(t) PROVE RungInv'
    BY <1>4, QuietListening
    DEF EndReactor, Goto, CallInv, Typed, ThreadTypes, chanVars, ringVars
  <1>5. CASE UNCHANGED vars
    BY <1>5 DEF vars, chanVars, ringVars, threadVars, notifyVars, RungInv, RingsOnce,
                Listening, Rung, Ready, ListOf, CanSend, Sends, Recvs, On
  <1> QED BY <1>1, <1>2, <1>3, <1>4, <1>5 DEF Next

\* While the waiter lists have room for every thread's notifier, no call polls
\* with its message, its room or the channel's close already there and nobody
\* on the way to ring it: the wakeup cannot fall between the registration
\* under the lock and the poll.
THEOREM WakeupsArrive ==
  ASSUME Cardinality(Threads) <= WaiterMax
  PROVE  Spec => []RungBeforePoll
  <1>1. Init => RungInv
    BY DEF Init, RungInv, RingsOnce, Once, Listening
  <1>2. CallInv /\ RungInv /\ [Next]_vars => RungInv'
    BY NextListening
  <1>3. RungInv => RungBeforePoll
    BY DEF RungInv, Listening, RungBeforePoll, Ready, Sends, Recvs
  <1> QED BY <1>1, <1>2, <1>3, CallsInPlace, PTL DEF Spec

-----------------------------------------------------------------------------
(* The channel is the closable FIFO queue of ChannelSpec.                  *)

\* The messages a thread has brought so far: its calls count left down.
Used == {m \in Messages : m[2] > left[m[1]]}

UsedInv ==
  \A c \in Channels :
    Elems(queue[c]) \subseteq Used /\ Elems(delivered[c]) \subseteq Used \cup {Eof}

\* The sends that have not gone through yet: the offers of ChannelSpec.
Offers(t) ==
  /\ pc[t] \in {"try", "copy", "push", "lock", "wait", "poll", "sleep"}
  /\ Sends(t)

Offered ==
  {<<On(t), call[t].msg>> : t \in
     {u \in Threads : pc[u] \in {"try", "copy", "push", "lock", "wait",
                                "poll", "sleep"} /\ Sends(u)}}

LEMMA ElemsAppend ==
  ASSUME NEW S, NEW s \in Seq(S), NEW x
  PROVE  Elems(Append(s, x)) = Elems(s) \cup {x}
  <1>1. /\ DOMAIN s = 1 .. Len(s) /\ DOMAIN Append(s, x) = 1 .. (Len(s) + 1)
        /\ Len(s) \in Nat /\ Append(s, x)[Len(s) + 1] = x
        /\ \A i \in 1 .. Len(s) : Append(s, x)[i] = s[i]
    OBVIOUS
  <1> QED BY <1>1 DEF Elems

LEMMA ElemsTail ==
  ASSUME NEW S, NEW s \in Seq(S), s # <<>>
  PROVE  Elems(Tail(s)) \subseteq Elems(s) /\ Head(s) \in Elems(s)
  <1>1. /\ DOMAIN s = 1 .. Len(s) /\ DOMAIN Tail(s) = 1 .. (Len(s) - 1)
        /\ Len(s) \in Nat /\ Len(s) > 0 /\ Head(s) = s[1]
        /\ \A i \in 1 .. (Len(s) - 1) : Tail(s)[i] = s[i + 1]
    OBVIOUS
  <1> QED BY <1>1 DEF Elems

\* The eof object is nobody's message.
LEMMA EofIsNoMessage == Eof \notin Messages
  <1>1. ASSUME NEW t, NEW k PROVE <<"eof">> # <<t, k>>
    OBVIOUS
  <1> QED BY <1>1 DEF Messages, Eof

\* A message names its thread and its number.
LEMMA MessageParts ==
  ASSUME CallInv, NEW t \in Threads, Sends(t)
  PROVE  /\ call[t].msg = <<t, left[t] + 1>> /\ call[t].msg \in Messages
         /\ On(t) \in Channels
  BY SendFields, NoCallFields
  DEF CallInv, Typed, ThreadTypes, Located, Owned, Sends

\* What another thread offers is another message.
LEMMA OffersDiffer ==
  ASSUME CallInv, NEW t \in Threads, NEW u \in Threads, t # u, Sends(u), NEW c, NEW k
  PROVE  <<On(u), call[u].msg>> # <<c, <<t, k>>>>
  BY MessageParts

LEMMA OfferedSame ==
  ASSUME NEW t \in Threads,
         \A u \in Threads \ {t} : pc'[u] = pc[u] /\ call'[u] = call[u],
         Offers(t)' <=> Offers(t), Offers(t) => call'[t] = call[t]
  PROVE  Offered' = Offered
  <1>1. \A u \in Threads : (Offers(u)' <=> Offers(u)) /\ (Offers(u) => call'[u] = call[u])
    BY DEF Offers, Sends
  <1>2. Offered = {<<On(u), call[u].msg>> : u \in {v \in Threads : Offers(v)}}
    BY DEF Offered, Offers
  <1>3. Offered' = {<<call'[u].on, call'[u].msg>> : u \in {v \in Threads : Offers(v)'}}
    BY DEF Offered, Offers, On
  <1> QED BY <1>1, <1>2, <1>3 DEF On

LEMMA OfferedMore ==
  ASSUME NEW t \in Threads,
         \A u \in Threads \ {t} : pc'[u] = pc[u] /\ call'[u] = call[u],
         ~Offers(t), Offers(t)'
  PROVE  Offered' = Offered \cup {<<call'[t].on, call'[t].msg>>}
  <1>1. \A u \in Threads \ {t} : (Offers(u)' <=> Offers(u)) /\ call'[u] = call[u]
    BY DEF Offers, Sends
  <1>2. Offered = {<<call[u].on, call[u].msg>> : u \in {v \in Threads : Offers(v)}}
    BY DEF Offered, Offers, On
  <1>3. Offered' = {<<call'[u].on, call'[u].msg>> : u \in {v \in Threads : Offers(v)'}}
    BY DEF Offered, Offers, On
  <1> QED BY <1>1, <1>2, <1>3

LEMMA OfferedLess ==
  ASSUME CallInv, NEW t \in Threads,
         \A u \in Threads \ {t} : pc'[u] = pc[u] /\ call'[u] = call[u],
         Offers(t), ~Offers(t)'
  PROVE  /\ Offered' = Offered \ {<<On(t), call[t].msg>>}
         /\ <<On(t), call[t].msg>> \in Offered
  <1>1. \A u \in Threads \ {t} : (Offers(u)' <=> Offers(u)) /\ call'[u] = call[u]
    BY DEF Offers, Sends
  <1>2. Offered = {<<call[u].on, call[u].msg>> : u \in {v \in Threads : Offers(v)}}
    BY DEF Offered, Offers, On
  <1>3. Offered' = {<<call'[u].on, call'[u].msg>> : u \in {v \in Threads : Offers(v)'}}
    BY DEF Offered, Offers, On
  <1>4. \A u \in Threads \ {t} :
          Offers(u) => <<call[u].on, call[u].msg>> # <<On(t), call[t].msg>>
    BY OffersDiffer, MessageParts DEF Offers, On
  <1> QED BY <1>1, <1>2, <1>3, <1>4 DEF On

\* A message is used once it is brought, and stays used.
LEMMA UsedGrows ==
  ASSUME CallInv, [Next]_vars
  PROVE  Used \subseteq Used'
  <1>1. \A t \in Threads : left[t] \in Nat
    BY DEF CallInv, Typed, ThreadTypes
  <1>2. \/ left' = left
        \/ \E t \in Threads : left' = [left EXCEPT ![t] = @ - 1]
    <2>1. ASSUME NEW t \in Threads, Step(t) PROVE left' = left
      BY <2>1 DEF Step, TrySend, CopyIn, PushMessage, PushTooLate, TryRecvEmpty, PopMessage,
                  Ring, RingDone, ReleaseDemand, Return, SendLock, RecvLockAgain, RecvCommit,
                  CondWaitEnds, PollNow, TimedOut, PollWaits, Jump, WouldBlockSend,
                  WouldBlockRecv, TakeEof, Polled
    <2>2. ASSUME NEW t \in Threads, EndReactor(t) PROVE left' = left
      BY <2>2 DEF EndReactor
    <2>3. ASSUME NEW t \in Threads, NEW c \in Channels, DropStub(t, c) PROVE left' = left
      BY <2>3 DEF DropStub, threadVars
    <2>4. CASE UNCHANGED vars
      BY <2>4 DEF vars, threadVars
    <2> QED BY <2>1, <2>2, <2>3, <2>4 DEF Next, Call, Close
  <1>3. \A t \in Threads : left'[t] <= left[t]
    BY <1>1, <1>2 DEF CallInv, Typed, ThreadTypes
  <1>4. \A m \in Messages : m[1] \in Threads /\ m[2] \in Nat
    BY SharedAssumption DEF Messages
  <1>5. \A t \in Threads : left'[t] \in Int
    BY <1>1, <1>2 DEF CallInv, Typed, ThreadTypes
  <1> QED BY <1>1, <1>3, <1>4, <1>5 DEF Used

\* What a step does to the queue and the deliveries of the channels.
LEMMA FlowStep ==
  ASSUME CallInv, [Next]_vars
  PROVE  \/ UNCHANGED <<queue, delivered>>
         \/ \E t \in Threads : PushMessage(t)
         \/ \E t \in Threads : PopMessage(t)
         \/ \E t \in Threads : Recvs(t) /\ \E l \in PcLabels : TakeEof(t, l)
  <1>1. ASSUME NEW t \in Threads, Step(t), ~PushMessage(t), ~PopMessage(t)
        PROVE  \/ UNCHANGED <<queue, delivered>>
               \/ Recvs(t) /\ \E l \in PcLabels : TakeEof(t, l)
    <2>1. CASE TryRecvEmpty(t) \/ RecvLockAgain(t)
      BY <2>1 DEF TryRecvEmpty, RecvLockAgain, Jump, WouldBlockRecv, chanVars, Answered,
                  PcLabels
    <2>2. CASE ~TryRecvEmpty(t) /\ ~RecvLockAgain(t)
      BY <1>1, <2>2 DEF Step, TrySend, CopyIn, PushTooLate, Ring, RingDone, ReleaseDemand,
                Return, SendLock, RecvCommit, CondWaitEnds, PollNow, TimedOut, PollWaits,
                Jump, WouldBlockSend, Polled, chanVars
    <2> QED BY <2>1, <2>2
  <1>2. ASSUME NEW t \in Threads, EndReactor(t) PROVE UNCHANGED <<queue, delivered>>
    BY <1>2 DEF EndReactor, chanVars
  <1>3. ASSUME NEW t \in Threads, NEW c \in Channels, DropStub(t, c) \/ Close(t, c)
        PROVE  UNCHANGED <<queue, delivered>>
    BY <1>3 DEF DropStub, Close, chanVars
  <1>4. ASSUME NEW t \in Threads, NEW c \in Channels, NEW op \in {"send", "recv"},
               NEW mode \in Modes[t], Call(t, op, mode, c)
        PROVE  UNCHANGED <<queue, delivered>>
    BY <1>4 DEF Call, chanVars
  <1>5. CASE UNCHANGED vars
    BY <1>5 DEF vars, chanVars
  <1> QED BY <1>1, <1>2, <1>3, <1>4, <1>5 DEF Next

LEMMA NextUsed ==
  ASSUME CallInv, UsedInv, [Next]_vars
  PROVE  UsedInv'
  <1>1. Used \subseteq Used'
    BY UsedGrows
  <1>2. CASE UNCHANGED <<queue, delivered>>
    BY <1>1, <1>2 DEF UsedInv
  <1>3. ASSUME NEW t \in Threads, PushMessage(t) PROVE UsedInv'
    <2>1. /\ call[t].msg = <<t, left[t] + 1>> /\ call[t].msg \in Messages
          /\ On(t) \in Channels
      BY <1>3, MessageParts DEF PushMessage, CallInv, Located, Placed
    <2>2. call[t].msg \in Used
      BY <2>1 DEF Used, CallInv, Typed, ThreadTypes
    <2>3. ASSUME NEW c \in Channels
          PROVE  Elems(queue'[c]) \subseteq Used /\ delivered'[c] = delivered[c]
      <3>1. queue[c] \in Seq(Messages) /\ delivered' = delivered
        BY <1>3 DEF PushMessage, CallInv, Typed, ChannelTypes
      <3>2. queue'[c] = queue[c] \/ queue'[c] = Append(queue[c], call[t].msg)
        BY <1>3, <2>1 DEF PushMessage, CallInv, Typed, ChannelTypes
      <3>3. /\ Elems(Append(queue[c], call[t].msg)) = Elems(queue[c]) \cup {call[t].msg}
            /\ Elems(queue[c]) \subseteq Used
        BY <3>1, ElemsAppend DEF UsedInv
      <3> QED BY <2>2, <3>1, <3>2, <3>3
    <2> QED BY <1>1, <2>3 DEF UsedInv
  <1>4. ASSUME NEW t \in Threads, PopMessage(t) PROVE UsedInv'
    <2>1. On(t) \in Channels /\ queue[On(t)] # <<>>
      BY <1>4, RecvFields DEF PopMessage
    <2>2. ASSUME NEW c \in Channels
          PROVE  /\ Elems(queue'[c]) \subseteq Used
                 /\ Elems(delivered'[c]) \subseteq Used \cup {Eof}
      <3>1. queue[c] \in Seq(Messages) /\ delivered[c] \in Seq(Messages \cup {Eof})
        BY DEF CallInv, Typed, ChannelTypes
      <3>2. CASE c = On(t)
        <4>1. /\ queue'[c] = Tail(queue[c])
              /\ delivered'[c] = Append(delivered[c], Head(queue[c]))
          BY <1>4, <2>1, <3>2 DEF PopMessage, CallInv, Typed, ChannelTypes
        <4>2. /\ Elems(Tail(queue[c])) \subseteq Elems(queue[c])
              /\ Head(queue[c]) \in Elems(queue[c])
          BY <2>1, <3>1, <3>2, ElemsTail
        <4>3. Elems(delivered'[c]) = Elems(delivered[c]) \cup {Head(queue[c])}
          BY <3>1, <4>1, ElemsAppend
        <4> QED BY <4>1, <4>2, <4>3 DEF UsedInv
      <3>3. CASE c # On(t)
        <4>1. queue'[c] = queue[c] /\ delivered'[c] = delivered[c]
          BY <1>4, <3>3 DEF PopMessage, CallInv, Typed, ChannelTypes
        <4> QED BY <4>1 DEF UsedInv
      <3> QED BY <3>2, <3>3
    <2> QED BY <1>1, <2>2 DEF UsedInv
  <1>5. ASSUME NEW t \in Threads, Recvs(t), NEW l \in PcLabels, TakeEof(t, l)
        PROVE  UsedInv'
    <2>1. ASSUME NEW c \in Channels
          PROVE  /\ Elems(queue'[c]) \subseteq Used
                 /\ Elems(delivered'[c]) \subseteq Used \cup {Eof}
      <3>1. /\ queue' = queue /\ delivered[c] \in Seq(Messages \cup {Eof})
            /\ delivered'[c] = delivered[c] \/ delivered'[c] = Append(delivered[c], Eof)
        BY <1>5 DEF TakeEof, CallInv, Typed, ChannelTypes
      <3> QED BY <3>1, ElemsAppend, ZenonT(40) DEF UsedInv
    <2> QED BY <1>1, <2>1 DEF UsedInv
  <1> QED BY <1>2, <1>3, <1>4, <1>5, FlowStep

AbstractStep == [Abstract!Next]_(Abstract!vars)

\* What the receives and the waits of a call do to the offers: nothing.
LEMMA Stutters ==
  ASSUME NEW t \in Threads, UNCHANGED chanVars,
         \A u \in Threads \ {t} : pc'[u] = pc[u] /\ call'[u] = call[u],
         Offers(t)' <=> Offers(t), Offers(t) => call'[t] = call[t]
  PROVE  AbstractStep
  <1>1. Offered' = Offered
    BY OfferedSame
  <1> QED BY <1>1 DEF AbstractStep, Abstract!vars, Offered, chanVars

\* A send that ends without its message in the queue is refused.
LEMMA Refuses ==
  ASSUME CallInv, NEW t \in Threads, UNCHANGED chanVars,
         \A u \in Threads \ {t} : pc'[u] = pc[u] /\ call'[u] = call[u],
         Offers(t), ~Offers(t)',
         \/ closed[On(t)]
         \/ call[t].mode # "block"
         \/ call[t].msg \in Uncopyable
  PROVE  AbstractStep
  <1>1. PICK c \in Channels, m \in Messages :
          c = On(t) /\ m = call[t].msg /\ m = <<t, left[t] + 1>>
    BY MessageParts DEF Offers
  <1>2. Offered' = Offered \ {<<c, m>>} /\ <<c, m>> \in Offered
    BY <1>1, OfferedLess
  <1>3. closed[c] \/ m \in {n \in Messages : Modes[n[1]] # {"block"}} \cup Uncopyable
    <2>1. call[t].mode # "block" => Modes[t] # {"block"}
      BY NoCallFields DEF Offers, Sends, CallInv, Typed, ThreadTypes, Located, Owned
    <2>2. m[1] = t
      BY <1>1
    <2> QED BY <1>1, <2>1, <2>2
  <1>4. Abstract!Refuse(c, m)
    BY <1>2, <1>3 DEF Abstract!Refuse, Offered, chanVars
  <1> QED BY <1>4 DEF AbstractStep, Abstract!Next

LEMMA TakeEofRefines ==
  ASSUME CallInv, NEW t \in Threads, NEW l \in PcLabels, TakeEof(t, l), Recvs(t),
         closed[On(t)], queue[On(t)] = <<>>
  PROVE  AbstractStep
  <1> DEFINE c == On(t)
  <1>1. c \in Channels
    BY RecvFields
  <1>2. /\ \A u \in Threads \ {t} : pc'[u] = pc[u] /\ call'[u] = call[u]
        /\ ~Offers(t) /\ ~Offers(t)'
    BY DEF TakeEof, Goto, CallInv, Typed, ThreadTypes, Offers, Sends, Recvs
  <1>3. Offered' = Offered
    BY <1>2, OfferedSame
  <1>4. Abstract!ReceiveEof(c)
    BY <1>3 DEF Abstract!ReceiveEof, TakeEof, Offered
  <1> QED BY <1>1, <1>4 DEF AbstractStep, Abstract!Next

LEMMA PopRefines ==
  ASSUME CallInv, NEW t \in Threads, PopMessage(t)
  PROVE  AbstractStep
  <1> DEFINE c == On(t)
  <1>1. c \in Channels
    BY RecvFields DEF PopMessage
  <1>2. /\ \A u \in Threads \ {t} : pc'[u] = pc[u] /\ call'[u] = call[u]
        /\ ~Offers(t) /\ ~Offers(t)'
    BY DEF PopMessage, Goto, CallInv, Typed, ThreadTypes, Offers, Sends, Recvs
  <1>3. Offered' = Offered
    BY <1>2, OfferedSame
  <1>4. Abstract!Receive(c)
    BY <1>3 DEF Abstract!Receive, PopMessage, Offered
  <1> QED BY <1>1, <1>4 DEF AbstractStep, Abstract!Next

\* The message is accepted where there is room: on a rendezvous channel because
\* the demand it uses up is some thread's.
LEMMA PushRefines ==
  ASSUME CallInv, RendezvousInv, NEW t \in Threads, PushMessage(t)
  PROVE  AbstractStep
  <1>1. PICK c \in Channels, m \in Messages :
          c = On(t) /\ m = call[t].msg /\ Sends(t) /\ CanSend(c)
    BY MessageParts DEF PushMessage, CallInv, Located, Placed
  <1>2. Abstract!Room(c)
    <2>1. CASE c \in Rendezvous
      <3>1. /\ Len(queue[c]) < rvDemand[c]
            /\ Len(queue[c]) + rvDemand[c] <= Cardinality(Waiting(c))
        BY <1>1, <2>1, SharedAssumption DEF CanSend, RendezvousInv, Covered
      <3>2. Cardinality(Waiting(c)) <= Cardinality(Threads) /\ Cardinality(Threads) \in Nat
        BY WaitingFinite, SharedAssumption, FS_Subset, FS_CardinalityType
      <3>3. Len(queue[c]) \in Nat /\ rvDemand[c] \in Nat /\ Cardinality(Waiting(c)) \in Nat
        BY <1>1, WaitingFinite DEF CallInv, Typed, ChannelTypes
      <3>4. Len(queue[c]) < Cardinality(Threads)
        BY <3>1, <3>2, <3>3
      <3> QED BY <1>1, <2>1, <3>4 DEF CanSend, Abstract!Room
    <2>2. CASE c \notin Rendezvous
      BY <1>1, <2>2 DEF CanSend, Abstract!Room
    <2> QED BY <2>1, <2>2
  <1>3. /\ \A u \in Threads \ {t} : pc'[u] = pc[u] /\ call'[u] = call[u]
        /\ Offers(t) /\ ~Offers(t)'
    BY <1>1 DEF PushMessage, Goto, CallInv, Typed, ThreadTypes, Offers
  <1>4. Offered' = Offered \ {<<c, m>>} /\ <<c, m>> \in Offered
    BY <1>1, <1>3, OfferedLess
  <1>5. /\ queue' = [queue EXCEPT ![c] = Append(@, m)]
        /\ UNCHANGED <<closed, delivered>>
    BY <1>1 DEF PushMessage
  <1>6. Abstract!Accept(c, m)
    BY <1>2, <1>4, <1>5 DEF Abstract!Accept, Abstract!Enter, Offered
  <1> QED BY <1>6 DEF AbstractStep, Abstract!Next

\* A new send is an offer of a message nobody has seen.
LEMMA CallRefines ==
  ASSUME CallInv, UsedInv, NEW t \in Threads, NEW op \in {"send", "recv"},
         NEW mode \in Modes[t], NEW d \in Channels, Call(t, op, mode, d)
  PROVE  AbstractStep
  <1>1. PICK c \in Channels, m \in Messages : c = d /\ m = <<t, left[t]>>
    BY NextMessage DEF Call
  <1>2. /\ \A u \in Threads \ {t} : pc'[u] = pc[u] /\ call'[u] = call[u]
        /\ pc'[t] = "try" /\ call'[t] = [op |-> op, mode |-> mode, on |-> c, msg |-> m]
        /\ UNCHANGED chanVars /\ ~Offers(t)
    BY <1>1 DEF Call, Goto, CallInv, Typed, ThreadTypes, Offers
  <1>3. CASE op = "recv"
    <2>1. ~Offers(t)'
      BY <1>2, <1>3 DEF Offers, Sends
    <2> QED BY <1>2, <2>1, Stutters
  <1>4. CASE op = "send"
    <2>1. Offers(t)'
      BY <1>2, <1>4 DEF Offers, Sends
    <2>2. Offered' = Offered \cup {<<c, m>>}
      <3>1. call'[t].on = c /\ call'[t].msg = m
        BY <1>2
      <3> QED BY <1>2, <2>1, <3>1, OfferedMore
    <2>3. m \notin Used /\ m # Eof
      <3>1. m[1] = t /\ m[2] = left[t] /\ left[t] \in Nat
        BY <1>1 DEF CallInv, Typed, ThreadTypes
      <3> QED BY <3>1, EofIsNoMessage DEF Used
    <2>4. \A e \in Channels : <<e, m>> \notin Offered
      <3>1. ASSUME NEW u \in Threads, Sends(u), NEW e PROVE <<On(u), call[u].msg>> # <<e, m>>
        <4>1. call[u].msg = <<u, left[u] + 1>> /\ left[u] \in Nat
          BY <3>1, MessageParts DEF CallInv, Typed, ThreadTypes
        <4> QED BY <1>1, <4>1
      <3> QED BY <3>1 DEF Offered
    <2>5. \A e \in Channels : /\ \A i \in DOMAIN queue[e] : queue[e][i] # m
                              /\ \A i \in DOMAIN delivered[e] : delivered[e][i] # m
      BY <2>3 DEF UsedInv, Elems
    <2>6. Abstract!Offer(c, m)
      BY <1>2, <2>2, <2>4, <2>5 DEF Abstract!Offer, Abstract!Fresh, Offered, chanVars
    <2> QED BY <2>6 DEF AbstractStep, Abstract!Next
  <1> QED BY <1>3, <1>4

LEMMA CloseRefines ==
  ASSUME CallInv, NEW t \in Threads, NEW c \in Channels, Close(t, c)
  PROVE  AbstractStep
  <1>1. /\ \A u \in Threads \ {t} : pc'[u] = pc[u] /\ call'[u] = call[u]
        /\ ~Offers(t) /\ ~Offers(t)'
    BY DEF Close, Goto, CallInv, Typed, ThreadTypes, Offers
  <1>2. Offered' = Offered
    BY <1>1, OfferedSame
  <1>3. Abstract!Close(c)
    BY <1>2 DEF Abstract!Close, Close, Offered
  <1> QED BY <1>3 DEF AbstractStep, Abstract!Next

\* A step of a call that moves no message goes on offering, or gives up.
LEMMA JumpRefines ==
  ASSUME CallInv, NEW t \in Threads, NEW l \in PcLabels, UNCHANGED <<chanVars, call>>,
         pc' = [pc EXCEPT ![t] = l], pc[t] \notin {"idle", "ending"},
         Sends(t) => /\ Offers(t)
                     /\ l \in {"try", "copy", "push", "lock", "wait", "poll", "sleep", "return"}
                     /\ l = "return" => \/ closed[On(t)] \/ call[t].mode # "block"
                                        \/ call[t].msg \in Uncopyable
  PROVE  AbstractStep
  <1>1. /\ \A u \in Threads \ {t} : pc'[u] = pc[u] /\ call'[u] = call[u]
        /\ pc'[t] = l /\ call'[t] = call[t]
    BY DEF CallInv, Typed, ThreadTypes
  <1>2. CASE Sends(t) /\ l = "return"
    <2>1. Offers(t) /\ ~Offers(t)'
      BY <1>1, <1>2 DEF Offers
    <2> QED BY <1>1, <1>2, <2>1, Refuses
  <1>3. CASE ~(Sends(t) /\ l = "return")
    <2>1. (Offers(t)' <=> Offers(t)) /\ call'[t] = call[t]
      BY <1>1, <1>3 DEF Offers, Sends
    <2> QED BY <1>1, <2>1, Stutters
  <1> QED BY <1>2, <1>3

LEMMA StepRefines ==
  ASSUME CallInv, RendezvousInv, NEW t \in Threads, Step(t)
  PROVE  AbstractStep
  <1> DEFINE Moves(l) == UNCHANGED <<chanVars, call>> /\ pc' = [pc EXCEPT ![t] = l]
  <1>1. ASSUME TrySend(t) \/ PushTooLate(t) \/ CopyIn(t) \/ SendLock(t) PROVE AbstractStep
    <2>1. Offers(t) /\ pc[t] \notin {"idle", "ending"}
      BY <1>1 DEF TrySend, PushTooLate, CopyIn, SendLock, CallInv, Located, Placed, Offers
    <2>2. PICK l \in {"copy", "push", "lock", "wait", "poll", "return"} :
            /\ Moves(l)
            /\ l = "return" => closed[On(t)] \/ call[t].msg \in Uncopyable
      BY <1>1 DEF TrySend, PushTooLate, CopyIn, SendLock, Jump, WouldBlockSend, Goto, chanVars
    <2> QED BY <2>1, <2>2, JumpRefines DEF PcLabels
  <1>2. ASSUME TryRecvEmpty(t) \/ RecvLockAgain(t) PROVE AbstractStep
    <2>1. Recvs(t) /\ ~Sends(t) /\ pc[t] \notin {"idle", "ending"}
      BY <1>2 DEF TryRecvEmpty, RecvLockAgain, Recvs, Sends
    <2>2. \/ \E l \in PcLabels : Moves(l)
          \/ \E l \in PcLabels : TakeEof(t, l) /\ closed[On(t)] /\ queue[On(t)] = <<>>
      BY <1>2 DEF TryRecvEmpty, RecvLockAgain, Jump, WouldBlockRecv, Goto, chanVars, Answered,
                  PcLabels
    <2> QED BY <2>1, <2>2, JumpRefines, TakeEofRefines
  <1>3. ASSUME CondWaitEnds(t) \/ PollNow(t) \/ TimedOut(t) \/ PollWaits(t)
        PROVE  AbstractStep
    <2>1. /\ Sends(t) => Offers(t) /\ pc[t] \notin {"idle", "ending"}
          /\ pc[t] # "wait" => call[t].mode # "block"
      BY <1>3 DEF CondWaitEnds, PollNow, TimedOut, PollWaits, Offers, CallInv, Located,
                  Placed, Drives
    <2>2. PICK l \in {"try", "sleep", "return"} : Moves(l) /\ (l = "return" => pc[t] # "wait")
      BY <1>3 DEF CondWaitEnds, PollNow, TimedOut, PollWaits, Jump, Polled, Goto, chanVars
    <2>3. pc[t] \notin {"idle", "ending"}
      BY <1>3 DEF CondWaitEnds, PollNow, TimedOut, PollWaits
    <2> QED BY <2>1, <2>2, <2>3, JumpRefines DEF PcLabels
  <1>4. ASSUME ReleaseDemand(t) \/ RecvCommit(t) PROVE AbstractStep
    <2>1. ~Sends(t) /\ ~Offers(t) /\ ~Offers(t)'
      BY <1>4 DEF ReleaseDemand, RecvCommit, CallInv, Located, Placed, Sends, Recvs, Offers
    <2>2. /\ UNCHANGED <<queue, closed, delivered>>
          /\ \A u \in Threads \ {t} : pc'[u] = pc[u] /\ call'[u] = call[u]
      BY <1>4 DEF ReleaseDemand, RecvCommit, Goto, CallInv, Typed, ThreadTypes
    <2>3. Offered' = Offered
      BY <2>1, <2>2, OfferedSame
    <2> QED BY <2>2, <2>3 DEF AbstractStep, Abstract!vars, Offered
  <1>5. ASSUME Ring(t) \/ RingDone(t) \/ Return(t) PROVE AbstractStep
    <2>1. ~Offers(t) /\ ~Offers(t)' /\ UNCHANGED chanVars
      BY <1>5 DEF Ring, RingDone, Return, Jump, Goto, Answered, Offers, CallInv, Typed,
                  ThreadTypes
    <2>2. \A u \in Threads \ {t} : pc'[u] = pc[u] /\ call'[u] = call[u]
      BY <1>5 DEF Ring, RingDone, Return, Jump, Goto, CallInv, Typed, ThreadTypes
    <2> QED BY <2>1, <2>2, Stutters
  <1> QED BY <1>1, <1>2, <1>3, <1>4, <1>5, PushRefines, PopRefines DEF Step

LEMMA NextRefines ==
  ASSUME CallInv, RendezvousInv, UsedInv, [Next]_vars
  PROVE  AbstractStep
  <1>1. ASSUME NEW t \in Threads, Step(t) PROVE AbstractStep
    BY <1>1, StepRefines
  <1>2. ASSUME NEW t \in Threads, NEW c \in Channels, NEW op \in {"send", "recv"},
               NEW mode \in Modes[t], Call(t, op, mode, c)
        PROVE  AbstractStep
    BY <1>2, CallRefines
  <1>3. ASSUME NEW t \in Threads, NEW c \in Channels, Close(t, c) PROVE AbstractStep
    BY <1>3, CloseRefines
  <1>4. ASSUME NEW t \in Threads, NEW c \in Channels, DropStub(t, c) PROVE AbstractStep
    BY <1>4 DEF DropStub, AbstractStep, Abstract!vars, chanVars, threadVars, On, Sends
  <1>5. ASSUME NEW t \in Threads, EndReactor(t) PROVE AbstractStep
    <2>1. ~Offers(t) /\ ~Offers(t)' /\ UNCHANGED chanVars
      BY <1>5 DEF EndReactor, Goto, Offers, CallInv, Typed, ThreadTypes
    <2>2. \A u \in Threads \ {t} : pc'[u] = pc[u] /\ call'[u] = call[u]
      BY <1>5 DEF EndReactor, Goto, CallInv, Typed, ThreadTypes
    <2> QED BY <2>1, <2>2, Stutters
  <1>6. CASE UNCHANGED vars
    BY <1>6 DEF vars, chanVars, threadVars, AbstractStep, Abstract!vars, On, Sends
  <1> QED BY <1>1, <1>2, <1>3, <1>4, <1>5, <1>6 DEF Next

LEMMA InitRefines == Init => Abstract!Init
  BY NoCallFields DEF Init, Abstract!Init, Sends

\* Between threads, however their steps interleave, a shared channel is the
\* closable FIFO queue of ChannelSpec: a message is queued once, while the
\* channel is open and has room, and taken once, in order; only a send that
\* drives a scheduler, or cannot copy, gives up on an open channel.
THEOREM ChannelImplemented == Spec => ImplementsChannel
  <1>1. Init => RendezvousInv
    BY InitRendezvousInv
  <1>2. Init => UsedInv
    BY DEF Init, UsedInv, Elems
  <1>3. CallInv /\ CallInv' /\ RendezvousInv /\ UsedInv /\ [Next]_vars
          => RendezvousInv' /\ UsedInv'
    BY NextCovers, NextUsed
  <1>4. CallInv /\ RendezvousInv /\ UsedInv /\ [Next]_vars
          => [Abstract!Next]_(Abstract!vars)
    BY NextRefines DEF AbstractStep
  <1> QED BY <1>1, <1>2, <1>3, <1>4, InitRefines, CallsInPlace, PTL
          DEF Spec, ImplementsChannel, Abstract!Spec

-----------------------------------------------------------------------------
(***************************************************************************)
(* The reference counts of the notifiers: RefsExact, and the type          *)
(* invariant that rests on it.                                             *)
(***************************************************************************)
(* Counting the places where x occurs, in a sequence and in a family of    *)
(* sequences.                                                              *)

At(x, s) == {i \in DOMAIN s : s[i] = x}

LEMMA TimesEmpty == ASSUME NEW x PROVE Times(x, <<>>) = 0
  <1>1. {i \in DOMAIN <<>> : <<>>[i] = x} = {}
    OBVIOUS
  <1> QED BY <1>1, FS_EmptySet DEF Times

LEMMA AtFinite ==
  ASSUME NEW S, NEW s \in Seq(S), NEW x
  PROVE  IsFiniteSet(At(x, s)) /\ Times(x, s) = Cardinality(At(x, s)) /\ Times(x, s) \in Nat
  BY TimesNat DEF At, Times

LEMMA TimesAppend ==
  ASSUME NEW S, NEW s \in Seq(S), NEW y \in S, NEW x
  PROVE  Times(x, Append(s, y)) = Times(x, s) + Bit(x = y)
  <1>1. /\ DOMAIN s = 1 .. Len(s) /\ DOMAIN Append(s, y) = 1 .. (Len(s) + 1)
        /\ Len(s) \in Nat /\ Append(s, y)[Len(s) + 1] = y
        /\ \A i \in 1 .. Len(s) : Append(s, y)[i] = s[i]
    OBVIOUS
  <1>2. Len(s) + 1 \notin At(x, s)
    BY <1>1 DEF At
  <1>3. /\ IsFiniteSet(At(x, s)) /\ Cardinality(At(x, s)) \in Nat
        /\ Times(x, s) = Cardinality(At(x, s))
        /\ Times(x, Append(s, y)) = Cardinality(At(x, Append(s, y)))
    BY AtFinite DEF Times, At
  <1>4. CASE x = y
    <2>1. At(x, Append(s, y)) = At(x, s) \cup {Len(s) + 1}
      BY <1>1, <1>4 DEF At
    <2>2. Cardinality(At(x, s) \cup {Len(s) + 1}) = Cardinality(At(x, s)) + 1
      BY <1>2, <1>3, FS_AddElement
    <2> QED BY <1>3, <1>4, <2>1, <2>2 DEF Bit
  <1>5. CASE x # y
    <2>1. At(x, Append(s, y)) = At(x, s)
      BY <1>1, <1>5 DEF At
    <2> QED BY <1>3, <1>5, <2>1 DEF Bit
  <1> QED BY <1>4, <1>5

\* Two sets are as large as each other when one is the other, shifted.
LEMMA ShiftedCardinality ==
  ASSUME NEW A \in SUBSET Int, IsFiniteSet(A), NEW B \in SUBSET Int, NEW k \in Int,
         \A i \in A : i + k \in B, \A j \in B : j - k \in A
  PROVE  IsFiniteSet(B) /\ Cardinality(B) = Cardinality(A)
  <1> DEFINE f == [i \in A |-> i + k]
  <1>1. f \in [A -> B] /\ \A i, j \in A : f[i] = f[j] => i = j
    OBVIOUS
  <1>2. \A j \in B : j - k \in A /\ f[j - k] = j
    OBVIOUS
  <1> HIDE DEF f
  <1>3. f \in Bijection(A, B)
    BY <1>1, <1>2 DEF Bijection, Injection, Surjection, IsInjective
  <1> QED BY <1>3, FS_Bijection DEF ExistsBijection

LEMMA TimesTail ==
  ASSUME NEW S, NEW s \in Seq(S), s # <<>>, NEW x
  PROVE  Times(x, Tail(s)) = Times(x, s) - Bit(x = Head(s))
  <1>1. /\ DOMAIN s = 1 .. Len(s) /\ DOMAIN Tail(s) = 1 .. (Len(s) - 1)
        /\ Len(s) \in Nat /\ Len(s) > 0 /\ Head(s) = s[1] /\ Tail(s) \in Seq(S)
        /\ \A i \in 1 .. (Len(s) - 1) : Tail(s)[i] = s[i + 1]
    OBVIOUS
  <1>2. /\ \A j \in At(x, s) \ {1} : j - 1 \in At(x, Tail(s))
        /\ \A i \in At(x, Tail(s)) : i + 1 \in At(x, s) \ {1}
    BY <1>1 DEF At
  <1>3. /\ IsFiniteSet(At(x, s)) /\ IsFiniteSet(At(x, Tail(s)))
        /\ Cardinality(At(x, s)) \in Nat /\ Cardinality(At(x, Tail(s))) \in Nat
        /\ Times(x, s) = Cardinality(At(x, s))
        /\ Times(x, Tail(s)) = Cardinality(At(x, Tail(s)))
    BY <1>1, AtFinite
  <1>4. Cardinality(At(x, s) \ {1}) = Cardinality(At(x, Tail(s)))
    <2>1. At(x, Tail(s)) \in SUBSET Int /\ At(x, s) \ {1} \in SUBSET Int
      BY <1>1 DEF At
    <2>2. 1 \in Int /\ IsFiniteSet(At(x, Tail(s)))
      BY <1>3
    <2> QED BY <1>2, <2>1, <2>2, ShiftedCardinality, Zenon
  <1>5. /\ 1 \in At(x, s) => Cardinality(At(x, s) \ {1}) = Cardinality(At(x, s)) - 1
        /\ 1 \notin At(x, s) => Cardinality(At(x, s) \ {1}) = Cardinality(At(x, s))
    BY <1>3, FS_RemoveElement
  <1>6. 1 \in At(x, s) <=> x = Head(s)
    BY <1>1 DEF At
  <1> QED BY <1>3, <1>4, <1>5, <1>6 DEF Bit

LEMMA TimesConcat ==
  ASSUME NEW S, NEW a \in Seq(S), NEW b \in Seq(S), NEW x
  PROVE  Times(x, a \o b) = Times(x, a) + Times(x, b)
  <1>1. /\ Len(a) \in Nat /\ Len(b) \in Nat /\ a \o b \in Seq(S)
        /\ DOMAIN a = 1 .. Len(a) /\ DOMAIN b = 1 .. Len(b)
        /\ DOMAIN (a \o b) = 1 .. (Len(a) + Len(b))
    OBVIOUS
  <1>2. \A k \in 1 .. (Len(a) + Len(b)) :
          (a \o b)[k] = IF k <= Len(a) THEN a[k] ELSE b[k - Len(a)]
    BY ConcatProperties
  <1> DEFINE B == {k \in At(x, a \o b) : k > Len(a)}
  <1>3. At(x, a \o b) = At(x, a) \cup B
    BY <1>1, <1>2 DEF At
  <1>4. At(x, a) \cap B = {}
    BY <1>1 DEF At
  <1>5. /\ IsFiniteSet(At(x, a)) /\ IsFiniteSet(At(x, b))
        /\ Cardinality(At(x, a)) \in Nat /\ Cardinality(At(x, b)) \in Nat
        /\ Times(x, a) = Cardinality(At(x, a)) /\ Times(x, b) = Cardinality(At(x, b))
        /\ Times(x, a \o b) = Cardinality(At(x, a \o b))
    BY <1>1, AtFinite
  <1>6. IsFiniteSet(B) /\ Cardinality(B) = Cardinality(At(x, b))
    <2>1. At(x, b) \in SUBSET Int /\ B \in SUBSET Int
      BY <1>1 DEF At
    <2>2. \A i \in At(x, b) : i + Len(a) \in B
      <3> TAKE i \in At(x, b)
      <3>1. /\ i + Len(a) \in 1 .. (Len(a) + Len(b)) /\ ~(i + Len(a) <= Len(a))
            /\ (i + Len(a)) - Len(a) = i /\ b[i] = x
        BY <1>1 DEF At
      <3> QED BY <1>1, <1>2, <3>1 DEF At
    <2>3. \A k \in B : k - Len(a) \in At(x, b)
      BY <1>1, <1>2 DEF At
    <2>4. Len(a) \in Int /\ IsFiniteSet(At(x, b))
      BY <1>1, <1>5
    <2> HIDE DEF B
    <2> QED BY <2>1, <2>2, <2>3, <2>4, ShiftedCardinality, Zenon
  <1>7. Cardinality(At(x, a) \cup B) = Cardinality(At(x, a)) + Cardinality(B) - Cardinality(At(x, a) \cap B)
    BY <1>5, <1>6, FS_Union
  <1>8. Cardinality(At(x, a) \cap B) = 0
    BY <1>4, FS_EmptySet
  <1> HIDE DEF B
  <1> QED BY <1>3, <1>5, <1>6, <1>7, <1>8

-----------------------------------------------------------------------------
(* The places where x occurs in a family of sequences: TimesIn counts them. *)

Places(x, f) ==
  UNION {{<<j, i>> : i \in {k \in DOMAIN f[j] : f[j][k] = x}} : j \in DOMAIN f}

\* The places in one member of the family.
PlacesOf(x, f, j) == {<<j, i>> : i \in At(x, f[j])}

LEMMA InPlaces ==
  ASSUME NEW x, NEW f, NEW p
  PROVE  p \in Places(x, f) <=> \E j \in DOMAIN f : p \in PlacesOf(x, f, j)
  BY DEF Places, PlacesOf, At

\* A member has as many places as the sequence has occurrences.
LEMMA PlacesOfMember ==
  ASSUME NEW D, NEW S, NEW f \in [D -> Seq(S)], NEW j \in D, NEW x
  PROVE  /\ IsFiniteSet(PlacesOf(x, f, j))
         /\ Cardinality(PlacesOf(x, f, j)) = Times(x, f[j])
         /\ Times(x, f[j]) \in Nat
  <1> DEFINE A == At(x, f[j])
             B == PlacesOf(x, f, j)
             h == [i \in A |-> <<j, i>>]
  <1>1. IsFiniteSet(A) /\ Times(x, f[j]) = Cardinality(A) /\ Times(x, f[j]) \in Nat
    <2>1. f[j] \in Seq(S)
      OBVIOUS
    <2> QED BY <2>1, AtFinite
  <1>2. h \in [A -> B] /\ (\A i, k \in A : h[i] = h[k] => i = k) /\ (\A p \in B : \E i \in A : h[i] = p)
    BY DEF PlacesOf
  <1> HIDE DEF h, A, B
  <1>3. h \in Bijection(A, B)
    BY <1>2 DEF Bijection, Injection, Surjection, IsInjective
  <1>4. IsFiniteSet(B) /\ Cardinality(B) = Cardinality(A)
    BY <1>1, <1>3, FS_Bijection DEF ExistsBijection
  <1> QED BY <1>1, <1>4 DEF B

\* Emptying one member takes its places away and no others.
LEMMA PlacesSplit ==
  ASSUME NEW D, NEW S, NEW f \in [D -> Seq(S)], NEW j \in D, NEW x,
         NEW g, g = [f EXCEPT ![j] = <<>>]
  PROVE  /\ Places(x, f) = Places(x, g) \cup PlacesOf(x, f, j)
         /\ Places(x, g) \cap PlacesOf(x, f, j) = {}
  <1>1. /\ DOMAIN f = D /\ DOMAIN g = D /\ g[j] = <<>>
        /\ \A k \in D \ {j} : g[k] = f[k]
    OBVIOUS
  <1>2. PlacesOf(x, g, j) = {}
    BY <1>1 DEF PlacesOf, At
  <1>3. \A k \in D \ {j} : PlacesOf(x, g, k) = PlacesOf(x, f, k)
    BY <1>1 DEF PlacesOf
  <1>4. \A k \in D \ {j} : PlacesOf(x, g, k) \cap PlacesOf(x, f, j) = {}
    BY DEF PlacesOf
  <1>5. ASSUME NEW p \in Places(x, f), p \notin PlacesOf(x, f, j) PROVE p \in Places(x, g)
    <2>1. PICK k \in D : p \in PlacesOf(x, f, k)
      BY <1>1, <1>5, InPlaces
    <2>2. k # j
      BY <1>5, <2>1
    <2> QED BY <1>1, <1>3, <2>1, <2>2, InPlaces
  <1>6. ASSUME NEW p \in Places(x, g)
        PROVE  p \in Places(x, f) /\ p \notin PlacesOf(x, f, j)
    <2>1. PICK k \in D : p \in PlacesOf(x, g, k)
      BY <1>1, <1>6, InPlaces
    <2>2. k # j
      BY <1>2, <2>1
    <2> QED BY <1>1, <1>3, <1>4, <2>1, <2>2, InPlaces
  <1>7. PlacesOf(x, f, j) \subseteq Places(x, f)
    BY <1>1, InPlaces
  <1> QED BY <1>5, <1>6, <1>7

\* h is f with another sequence at j.
IsUpdate(h, f, j, s) == h = [f EXCEPT ![j] = s]

\* With s in the place of f[j], the occurrences of s replace those of f[j].
Recounted(x, h, f, j, s) == TimesIn(x, h) = (TimesIn(x, f) - Times(x, f[j])) + Times(x, s)

\* What replacing one member of a family does to the count.
LEMMA TimesInExcept ==
  ASSUME NEW D, NEW S, NEW f \in [D -> Seq(S)], NEW j \in D, NEW x, NEW s \in Seq(S),
         NEW h, IsUpdate(h, f, j, s), IsFiniteSet(Places(x, f))
  PROVE  /\ IsFiniteSet(Places(x, h)) /\ Recounted(x, h, f, j, s)
         /\ TimesIn(x, f) \in Nat /\ TimesIn(x, h) \in Nat
         /\ Times(x, f[j]) \in Nat /\ Times(x, s) \in Nat
  <1> DEFINE g == [f EXCEPT ![j] = <<>>]
  <1>1. /\ h \in [D -> Seq(S)] /\ h[j] = s /\ f[j] \in Seq(S)
        /\ g = [f EXCEPT ![j] = <<>>] /\ g = [h EXCEPT ![j] = <<>>]
    BY DEF IsUpdate
  <1> HIDE DEF g
  <1>2. /\ Places(x, f) = Places(x, g) \cup PlacesOf(x, f, j)
        /\ Places(x, g) \cap PlacesOf(x, f, j) = {}
    BY <1>1, PlacesSplit
  <1>3. /\ Places(x, h) = Places(x, g) \cup PlacesOf(x, h, j)
        /\ Places(x, g) \cap PlacesOf(x, h, j) = {}
    BY <1>1, PlacesSplit
  <1>4. /\ IsFiniteSet(PlacesOf(x, f, j)) /\ Cardinality(PlacesOf(x, f, j)) = Times(x, f[j])
        /\ Times(x, f[j]) \in Nat
    BY PlacesOfMember
  <1>5. /\ IsFiniteSet(PlacesOf(x, h, j)) /\ Cardinality(PlacesOf(x, h, j)) = Times(x, s)
        /\ Times(x, s) \in Nat
    <2>1. ASSUME NEW e \in [D -> Seq(S)]
          PROVE  /\ IsFiniteSet(PlacesOf(x, e, j)) /\ Times(x, e[j]) \in Nat
                 /\ Cardinality(PlacesOf(x, e, j)) = Times(x, e[j])
      BY PlacesOfMember
    <2> QED BY <1>1, <2>1
  <1>6. IsFiniteSet(Places(x, g)) /\ Cardinality(Places(x, g)) \in Nat
    <2>1. Places(x, g) \in SUBSET Places(x, f)
      BY <1>2
    <2> QED BY <2>1, FS_Subset, FS_CardinalityType
  <1>7. /\ IsFiniteSet(Places(x, f))
        /\ Cardinality(Places(x, f)) = Cardinality(Places(x, g)) + Times(x, f[j])
    <2>1. Cardinality(Places(x, g) \cap PlacesOf(x, f, j)) = 0
      BY <1>2, FS_EmptySet
    <2>2. Cardinality(Places(x, g) \cup PlacesOf(x, f, j))
            = Cardinality(Places(x, g)) + Cardinality(PlacesOf(x, f, j))
              - Cardinality(Places(x, g) \cap PlacesOf(x, f, j))
      BY <1>4, <1>6, FS_Union
    <2> QED BY <1>2, <1>4, <1>6, <2>1, <2>2
  <1>8. /\ IsFiniteSet(Places(x, h))
        /\ Cardinality(Places(x, h)) = Cardinality(Places(x, g)) + Times(x, s)
    <2>1. Cardinality(Places(x, g) \cap PlacesOf(x, h, j)) = 0
      BY <1>3, FS_EmptySet
    <2>2. /\ IsFiniteSet(Places(x, g) \cup PlacesOf(x, h, j))
          /\ Cardinality(Places(x, g) \cup PlacesOf(x, h, j))
               = Cardinality(Places(x, g)) + Cardinality(PlacesOf(x, h, j))
                 - Cardinality(Places(x, g) \cap PlacesOf(x, h, j))
      BY <1>5, <1>6, FS_Union
    <2>3. /\ IsFiniteSet(Places(x, h))
          /\ Cardinality(Places(x, h))
               = Cardinality(Places(x, g) \cup PlacesOf(x, h, j))
      BY <1>3, <2>2, Zenon
    <2> QED BY <1>5, <1>6, <2>1, <2>2, <2>3
  <1>9. TimesIn(x, f) = Cardinality(Places(x, f)) /\ TimesIn(x, h) = Cardinality(Places(x, h))
    BY DEF TimesIn, Places
  <1> QED BY <1>4, <1>5, <1>6, <1>7, <1>8, <1>9 DEF Recounted

-----------------------------------------------------------------------------
(* The invariant.  The counts are those of finite sets of places, whatever  *)
(* the set of channels is.                                                 *)

Listed(n) ==
  /\ IsFiniteSet(Places(n, sendRing))
  /\ IsFiniteSet(Places(n, recvRing))
  /\ IsFiniteSet(Places(n, ringing))

RefsInv == RefsExact /\ \A n \in Threads : Listed(n)

LEMMA TimesInPlaces ==
  ASSUME NEW x, NEW f PROVE TimesIn(x, f) = Cardinality(Places(x, f))
  BY DEF TimesIn, Places

LEMMA ListedNat ==
  ASSUME NEW n, Listed(n)
  PROVE  /\ TimesIn(n, sendRing) \in Nat
         /\ TimesIn(n, recvRing) \in Nat
         /\ TimesIn(n, ringing) \in Nat
  BY TimesInPlaces, FS_CardinalityType DEF Listed

LEMMA InitRefs == Init => RefsInv
  <1> SUFFICES ASSUME Init PROVE RefsInv
    OBVIOUS
  <1> SUFFICES ASSUME NEW n \in Threads
               PROVE  /\ Listed(n)
                      /\ refs[n] = Bit(n \in alive) + Bit(Drives(n))
                           + TimesIn(n, sendRing) + TimesIn(n, recvRing) + TimesIn(n, ringing)
    BY DEF RefsInv, RefsExact
  <1>1. ASSUME NEW D, NEW f, f = [d \in D |-> <<>>] PROVE Places(n, f) = {}
    BY <1>1 DEF Places
  <1>2. Places(n, sendRing) = {} /\ Places(n, recvRing) = {} /\ Places(n, ringing) = {}
    BY <1>1 DEF Init
  <1>3. Listed(n) /\ TimesIn(n, sendRing) = 0 /\ TimesIn(n, recvRing) = 0
        /\ TimesIn(n, ringing) = 0
    BY <1>2, FS_EmptySet, TimesInPlaces DEF Listed
  <1>4. refs[n] = 1 /\ n \in alive /\ ~Drives(n)
    BY NoCallFields DEF Init, Drives
  <1> QED BY <1>3, <1>4 DEF Bit

\* A step that leaves the counts, the lists and the calls' handles alone.
LEMMA RefsKept ==
  ASSUME RefsInv, UNCHANGED <<refs, sendRing, recvRing, ringing, alive>>,
         \A n \in Threads : Drives(n)' <=> Drives(n)
  PROVE  RefsInv'
  BY DEF RefsInv, RefsExact, Listed, Bit

\* A step that changes one count with the one reference that accounts for it.
LEMMA RefsShift ==
  ASSUME CallInv, RefsInv, UNCHANGED <<sendRing, recvRing, ringing>>, NEW t \in Threads,
         \A n \in Threads \ {t} : /\ refs'[n] = refs[n] /\ (n \in alive' <=> n \in alive)
                                  /\ (Drives(n)' <=> Drives(n)),
         refs'[t] = refs[t] + (Bit(t \in alive') - Bit(t \in alive))
                            + (Bit(Drives(t)') - Bit(Drives(t)))
  PROVE  RefsInv'
  <1> SUFFICES ASSUME NEW n \in Threads
               PROVE  /\ Listed(n)'
                      /\ refs'[n] = Bit(n \in alive') + Bit(Drives(n)')
                           + TimesIn(n, sendRing) + TimesIn(n, recvRing) + TimesIn(n, ringing)
    BY DEF RefsInv, RefsExact
  <1>1. Listed(n) /\ Listed(n)'
    BY DEF RefsInv, Listed
  <1>2. /\ refs[n] = Bit(n \in alive) + Bit(Drives(n))
              + TimesIn(n, sendRing) + TimesIn(n, recvRing) + TimesIn(n, ringing)
    BY DEF RefsInv, RefsExact
  <1>3. \A b \in BOOLEAN : Bit(b) \in Nat
    BY DEF Bit
  <1>4. (n \in alive) \in BOOLEAN /\ (n \in alive') \in BOOLEAN /\ Drives(n) \in BOOLEAN /\ Drives(n)' \in BOOLEAN
    BY DEF Drives
  <1> QED
    <2>1. CASE n = t
      BY <1>1, <1>2, <1>3, <1>4, <2>1, ListedNat DEF Bit
    <2>2. CASE n # t
      BY <1>1, <1>2, <2>2 DEF Bit
    <2> QED BY <2>1, <2>2

-----------------------------------------------------------------------------
(* The steps of a call                                                     *)

LEMMA JumpKeepsRefs ==
  ASSUME RefsInv, NEW t, NEW l, Jump(t, l) \/ TakeEof(t, l) \/ \E n : Polled(t, l, n)
  PROVE  RefsInv'
  BY RefsKept DEF Jump, TakeEof, Polled, ringVars, notifyVars, Drives

\* The counts r account for as many places more as the lists h have more.
Offset(n, r, h, f) == r[n] - TimesIn(n, h) = refs[n] - TimesIn(n, f)

\* Registering adds one entry to a list and one to the count, or neither.
LEMMA RegisteredCounts ==
  ASSUME CallInv, RefsInv, NEW t \in Threads, NEW D, NEW f \in [D -> Seq(Threads)],
         NEW c \in D, NEW h, IsUpdate(h, f, c, Registered(t, f[c])),
         NEW n \in Threads, IsFiniteSet(Places(n, f))
  PROVE  /\ IsFiniteSet(Places(n, h))
         /\ Offset(n, RefsWith(t, f[c]), h, f)
         /\ RefsWith(t, f[c])[n] \in Int /\ TimesIn(n, h) \in Nat
  <1>1. f[c] \in Seq(Threads) /\ refs \in [Threads -> Int]
    BY DEF CallInv, Typed, NotifyTypes
  <1>2. CASE Registers(t, f[c])
    <2>1. /\ IsUpdate(h, f, c, Append(f[c], t)) /\ Append(f[c], t) \in Seq(Threads)
          /\ RefsWith(t, f[c]) = [refs EXCEPT ![t] = @ + 1]
      BY <1>1, <1>2 DEF Registered, RefsWith
    <2>2. Times(n, Append(f[c], t)) = Times(n, f[c]) + Bit(n = t)
      BY <1>1, TimesAppend
    <2>3. /\ IsFiniteSet(Places(n, h)) /\ Recounted(n, h, f, c, Append(f[c], t))
          /\ TimesIn(n, f) \in Nat /\ TimesIn(n, h) \in Nat /\ Times(n, f[c]) \in Nat
      BY <1>1, <2>1, TimesInExcept
    <2>4. RefsWith(t, f[c])[n] = refs[n] + Bit(n = t) /\ refs[n] \in Int
      BY <1>1, <2>1 DEF Bit
    <2>5. Bit(n = t) \in Nat
      BY DEF Bit
    <2> QED BY <2>2, <2>3, <2>4, <2>5 DEF Recounted, Offset
  <1>3. CASE ~Registers(t, f[c])
    <2>1. h = f /\ RefsWith(t, f[c]) = refs
      BY <1>1, <1>3 DEF Registered, RefsWith, IsUpdate
    <2>2. TimesIn(n, f) \in Nat
      BY TimesInPlaces, FS_CardinalityType
    <2> QED BY <1>1, <2>1, <2>2 DEF Offset
  <1> QED BY <1>2, <1>3

LEMMA WouldBlockKeepsRefs ==
  ASSUME CallInv, RefsInv, NEW t \in Threads, On(t) \in Channels,
         WouldBlockSend(t) \/ WouldBlockRecv(t)
  PROVE  RefsInv'
  <1> SUFFICES ASSUME NEW n \in Threads
               PROVE  /\ Listed(n)'
                      /\ refs'[n] = Bit(n \in alive') + Bit(Drives(n)')
                           + TimesIn(n, sendRing') + TimesIn(n, recvRing') + TimesIn(n, ringing')
    BY DEF RefsInv, RefsExact
  <1>1. /\ Listed(n)
        /\ TimesIn(n, sendRing) \in Nat /\ TimesIn(n, recvRing) \in Nat
        /\ TimesIn(n, ringing) \in Nat
        /\ refs[n] = Bit(n \in alive) + Bit(Drives(n))
              + TimesIn(n, sendRing) + TimesIn(n, recvRing) + TimesIn(n, ringing)
        /\ Bit(n \in alive) \in Nat /\ Bit(Drives(n)) \in Nat /\ refs[n] \in Int
    BY ListedNat DEF RefsInv, RefsExact, Bit, CallInv, Typed, NotifyTypes
  <1>2. sendRing \in [Channels -> Seq(Threads)] /\ recvRing \in [Channels -> Seq(Threads)]
    BY DEF CallInv, Typed, RingTypes
  <1>3. CASE WouldBlockSend(t)
    <2>1. /\ IsUpdate(sendRing', sendRing, On(t), Registered(t, sendRing[On(t)]))
          /\ refs' = RefsWith(t, sendRing[On(t)])
          /\ UNCHANGED <<recvRing, ringing, alive>> /\ Drives(n)' = Drives(n)
      BY <1>3 DEF WouldBlockSend, Drives, IsUpdate
    <2>2. /\ IsFiniteSet(Places(n, sendRing'))
          /\ Offset(n, refs', sendRing', sendRing)
          /\ refs'[n] \in Int /\ TimesIn(n, sendRing') \in Nat
      BY <1>1, <1>2, <2>1, RegisteredCounts DEF Listed
    <2>3. Listed(n)'
      BY <1>1, <2>1, <2>2 DEF Listed
    <2> QED BY <1>1, <2>1, <2>2, <2>3 DEF Offset, Bit
  <1>4. CASE WouldBlockRecv(t)
    <2>1. /\ IsUpdate(recvRing', recvRing, On(t), Registered(t, recvRing[On(t)]))
          /\ refs' = RefsWith(t, recvRing[On(t)])
          /\ UNCHANGED <<sendRing, ringing, alive>> /\ Drives(n)' = Drives(n)
      BY <1>4 DEF WouldBlockRecv, Drives, IsUpdate
    <2>2. /\ IsFiniteSet(Places(n, recvRing'))
          /\ Offset(n, refs', recvRing', recvRing)
          /\ refs'[n] \in Int /\ TimesIn(n, recvRing') \in Nat
      BY <1>1, <1>2, <2>1, RegisteredCounts DEF Listed
    <2>3. Listed(n)'
      BY <1>1, <2>1, <2>2 DEF Listed
    <2> QED BY <1>1, <2>1, <2>2, <2>3 DEF Offset, Bit
  <1> QED BY <1>3, <1>4

\* What the lists h have fewer than f, the rings in flight have more.
Moved(n, h, f) == TimesIn(n, h) + TimesIn(n, ringing') = TimesIn(n, f) + TimesIn(n, ringing)

\* The lists that a push or a pop empties move to the rings in flight.
LEMMA MovedCounts ==
  ASSUME CallInv, NEW t \in Threads, ringing[t] = <<>>,
         NEW STATE f, f \in [Channels -> Seq(Threads)], NEW STATE c, c \in Channels,
         NEW ACTION h, IsUpdate(h, f, c, <<>>), IsUpdate(ringing', ringing, t, f[c]),
         NEW n, IsFiniteSet(Places(n, f)), IsFiniteSet(Places(n, ringing))
  PROVE  /\ IsFiniteSet(Places(n, h)) /\ IsFiniteSet(Places(n, ringing'))
         /\ Moved(n, h, f)
         /\ TimesIn(n, f) \in Nat /\ TimesIn(n, ringing) \in Nat
         /\ TimesIn(n, h) \in Nat /\ TimesIn(n, ringing') \in Nat
  <1>1. /\ f[c] \in Seq(Threads) /\ <<>> \in Seq(Threads)
        /\ ringing \in [Threads -> Seq(Threads)]
    BY DEF CallInv, Typed, RingTypes
  <1>2. Times(n, <<>>) = 0
    BY TimesEmpty
  <1>3. /\ IsFiniteSet(Places(n, h)) /\ Recounted(n, h, f, c, <<>>)
        /\ TimesIn(n, f) \in Nat /\ TimesIn(n, h) \in Nat /\ Times(n, f[c]) \in Nat
    BY <1>1, TimesInExcept
  <1>4. /\ IsFiniteSet(Places(n, ringing')) /\ Recounted(n, ringing', ringing, t, f[c])
        /\ TimesIn(n, ringing) \in Nat /\ TimesIn(n, ringing') \in Nat
    BY <1>1, TimesInExcept
  <1>5. Times(n, ringing[t]) = 0
    BY <1>2
  <1> QED BY <1>2, <1>3, <1>4, <1>5 DEF Recounted, Moved

\* What RefsExact and the types say of one notifier, as facts for arithmetic.
LEMMA RefsOf ==
  ASSUME CallInv, RefsInv, NEW n \in Threads
  PROVE  /\ Listed(n)
         /\ TimesIn(n, sendRing) \in Nat /\ TimesIn(n, recvRing) \in Nat
         /\ TimesIn(n, ringing) \in Nat
         /\ refs[n] = Bit(n \in alive) + Bit(Drives(n))
              + TimesIn(n, sendRing) + TimesIn(n, recvRing) + TimesIn(n, ringing)
         /\ refs[n] \in Int
  BY ListedNat DEF RefsInv, RefsExact, CallInv, Typed, NotifyTypes

LEMMA PushPopKeepRefs ==
  ASSUME CallInv, RefsInv, NEW t \in Threads, PushMessage(t) \/ PopMessage(t)
  PROVE  RefsInv'
  <1> SUFFICES ASSUME NEW n \in Threads
               PROVE  /\ Listed(n)'
                      /\ refs'[n] = Bit(n \in alive') + Bit(Drives(n)')
                           + TimesIn(n, sendRing') + TimesIn(n, recvRing') + TimesIn(n, ringing')
    BY DEF RefsInv, RefsExact
  <1>0. /\ refs[n] = Bit(n \in alive) + Bit(Drives(n))
              + TimesIn(n, sendRing) + TimesIn(n, recvRing) + TimesIn(n, ringing)
        /\ TimesIn(n, sendRing) \in Nat /\ TimesIn(n, recvRing) \in Nat
        /\ TimesIn(n, ringing) \in Nat
        /\ Bit(n \in alive) \in Nat /\ Bit(Drives(n)) \in Nat
    BY RefsOf DEF Bit
  <1>1. ringing[t] = <<>> /\ On(t) \in Channels
    BY SendFields, RecvFields
    DEF PushMessage, PopMessage, CallInv, Located, Placed
  <1>2. sendRing \in [Channels -> Seq(Threads)] /\ recvRing \in [Channels -> Seq(Threads)]
    BY DEF CallInv, Typed, RingTypes
  <1>3. CASE PushMessage(t)
    <2>1. /\ IsUpdate(recvRing', recvRing, On(t), <<>>)
          /\ IsUpdate(ringing', ringing, t, recvRing[On(t)])
          /\ UNCHANGED <<sendRing, refs, alive>> /\ Drives(n)' = Drives(n)
      BY <1>3 DEF PushMessage, notifyVars, IsUpdate, Drives
    <2>2. /\ IsFiniteSet(Places(n, recvRing')) /\ IsFiniteSet(Places(n, ringing'))
          /\ Moved(n, recvRing', recvRing)
          /\ TimesIn(n, recvRing') \in Nat /\ TimesIn(n, ringing') \in Nat
      BY <1>1, <1>2, <2>1, RefsOf, MovedCounts DEF Listed
    <2>3. Listed(n)'
      BY <2>1, <2>2, RefsOf DEF Listed
    <2>4. /\ refs'[n] = refs[n] /\ TimesIn(n, sendRing') = TimesIn(n, sendRing)
          /\ Bit(n \in alive') = Bit(n \in alive) /\ Bit(Drives(n)') = Bit(Drives(n))
      BY <2>1 DEF Bit
    <2> QED BY <1>0, <2>2, <2>3, <2>4 DEF Moved
  <1>4. CASE PopMessage(t)
    <2>1. /\ IsUpdate(sendRing', sendRing, On(t), <<>>)
          /\ IsUpdate(ringing', ringing, t, sendRing[On(t)])
          /\ UNCHANGED <<recvRing, refs, alive>> /\ Drives(n)' = Drives(n)
      BY <1>4 DEF PopMessage, notifyVars, IsUpdate, Drives
    <2>2. /\ IsFiniteSet(Places(n, sendRing')) /\ IsFiniteSet(Places(n, ringing'))
          /\ Moved(n, sendRing', sendRing)
          /\ TimesIn(n, sendRing') \in Nat /\ TimesIn(n, ringing') \in Nat
      BY <1>1, <1>2, <2>1, RefsOf, MovedCounts DEF Listed
    <2>3. Listed(n)'
      BY <2>1, <2>2, RefsOf DEF Listed
    <2>4. /\ refs'[n] = refs[n] /\ TimesIn(n, recvRing') = TimesIn(n, recvRing)
          /\ Bit(n \in alive') = Bit(n \in alive) /\ Bit(Drives(n)') = Bit(Drives(n))
      BY <2>1 DEF Bit
    <2> QED BY <1>0, <2>2, <2>3, <2>4 DEF Moved
  <1> QED BY <1>3, <1>4

LEMMA RingKeepsRefs ==
  ASSUME CallInv, RefsInv, NEW t \in Threads, Ring(t) PROVE RefsInv'
  <1> SUFFICES ASSUME NEW n \in Threads
               PROVE  /\ Listed(n)'
                      /\ refs'[n] = Bit(n \in alive') + Bit(Drives(n)')
                           + TimesIn(n, sendRing') + TimesIn(n, recvRing') + TimesIn(n, ringing')
    BY DEF RefsInv, RefsExact
  <1> DEFINE s == ringing[t]
  <1>1. /\ s \in Seq(Threads) /\ s # <<>> /\ Head(s) \in Threads /\ Tail(s) \in Seq(Threads)
        /\ ringing \in [Threads -> Seq(Threads)] /\ refs \in [Threads -> Int]
    BY DEF Ring, CallInv, Typed, RingTypes, NotifyTypes
  <1>2. /\ IsUpdate(ringing', ringing, t, Tail(s))
        /\ refs' = [refs EXCEPT ![Head(s)] = @ - 1]
        /\ UNCHANGED <<sendRing, recvRing, alive>> /\ Drives(n)' = Drives(n)
    BY DEF Ring, ringVars, IsUpdate, Drives
  <1>3. Times(n, Tail(s)) = Times(n, s) - Bit(n = Head(s))
    BY <1>1, TimesTail
  <1>4. refs'[n] = refs[n] - Bit(n = Head(s))
    BY <1>1, <1>2 DEF Bit
  <1>5. /\ IsFiniteSet(Places(n, ringing')) /\ Recounted(n, ringing', ringing, t, Tail(s))
        /\ TimesIn(n, ringing') \in Nat /\ Times(n, ringing[t]) \in Nat
    BY <1>1, <1>2, RefsOf, TimesInExcept DEF Listed
  <1>6. Bit(n = Head(s)) \in Nat
    BY DEF Bit
  <1>7. Listed(n)'
    BY <1>2, <1>5, RefsOf DEF Listed
  <1>8. TimesIn(n, ringing') = TimesIn(n, ringing) - Bit(n = Head(s))
    BY <1>3, <1>5, <1>6, RefsOf DEF Recounted
  <1> HIDE DEF s
  <1>9. Bit(n \in alive) \in Nat /\ Bit(Drives(n)) \in Nat
    BY DEF Bit
  <1> QED BY <1>2, <1>4, <1>6, <1>7, <1>8, RefsOf DEF Bit

LEMMA ReturnKeepsRefs ==
  ASSUME CallInv, RefsInv, NEW t \in Threads, Return(t) PROVE RefsInv'
  <1>1. /\ call' = [call EXCEPT ![t] = NoCall] /\ call \in [Threads -> Calls \cup {NoCall}]
        /\ refs \in [Threads -> Int]
        /\ UNCHANGED <<sendRing, recvRing, ringing, alive>>
        /\ Drives(t) => refs' = [refs EXCEPT ![t] = @ - 1]
        /\ ~Drives(t) => refs' = refs
    BY DEF Return, CallInv, Typed, ThreadTypes, NotifyTypes, ringVars
  <1>2. \A n \in Threads \ {t} : (Drives(n)' <=> Drives(n)) /\ refs'[n] = refs[n]
    BY <1>1 DEF Drives
  <1>3. ~Drives(t)'
    BY <1>1, NoCallFields DEF Drives
  <1>4. refs'[t] = refs[t] - Bit(Drives(t))
    BY <1>1 DEF Bit
  <1>5. refs'[t] = refs[t] + (Bit(t \in alive') - Bit(t \in alive))
                           + (Bit(Drives(t)') - Bit(Drives(t)))
    BY <1>1, <1>3, <1>4 DEF Bit
  <1> QED BY <1>1, <1>2, <1>5, RefsShift

LEMMA CallKeepsRefs ==
  ASSUME CallInv, RefsInv, NEW t \in Threads, NEW op \in {"send", "recv"}, NEW mode, NEW c,
         Call(t, op, mode, c)
  PROVE  RefsInv'
  <1> DEFINE k == [op |-> op, mode |-> mode, on |-> c, msg |-> <<t, left[t]>>]
  <1>1. /\ call' = [call EXCEPT ![t] = k] /\ call \in [Threads -> Calls \cup {NoCall}]
        /\ refs \in [Threads -> Int]
        /\ UNCHANGED <<sendRing, recvRing, ringing, alive>>
        /\ mode # "block" => refs' = [refs EXCEPT ![t] = @ + 1]
        /\ mode = "block" => refs' = refs
    BY DEF Call, CallInv, Typed, ThreadTypes, NotifyTypes, ringVars
  <1>2. k.op = op /\ k.mode = mode
    OBVIOUS
  <1> HIDE DEF k
  <1>3. \A n \in Threads \ {t} : (Drives(n)' <=> Drives(n)) /\ refs'[n] = refs[n]
    BY <1>1 DEF Drives
  <1>4. ~Drives(t)
    BY NoCallFields DEF Call, CallInv, Located, Placed, Drives
  <1>5. Drives(t)' <=> mode # "block"
    BY <1>1, <1>2 DEF Drives
  <1>6. refs'[t] = refs[t] + (Bit(t \in alive') - Bit(t \in alive))
                           + (Bit(Drives(t)') - Bit(Drives(t)))
    <2>1. CASE mode = "block"
      BY <1>1, <1>4, <1>5, <2>1 DEF Bit
    <2>2. CASE mode # "block"
      BY <1>1, <1>4, <1>5, <2>2 DEF Bit
    <2> QED BY <2>1, <2>2
  <1> QED BY <1>1, <1>3, <1>6, RefsShift

LEMMA EndReactorKeepsRefs ==
  ASSUME CallInv, RefsInv, NEW t \in Threads, EndReactor(t) PROVE RefsInv'
  <1>1. /\ alive' = alive \ {t} /\ refs' = [refs EXCEPT ![t] = @ - 1]
        /\ refs \in [Threads -> Int] /\ t \in alive
        /\ UNCHANGED <<sendRing, recvRing, ringing, call>>
    BY DEF EndReactor, CallInv, Typed, NotifyTypes, Located, Placed, ringVars
  <1>2. \A n \in Threads : Drives(n)' <=> Drives(n)
    BY <1>1 DEF Drives
  <1>3. \A n \in Threads \ {t} : (n \in alive' <=> n \in alive) /\ refs'[n] = refs[n]
    BY <1>1
  <1>4. refs'[t] = refs[t] + (Bit(t \in alive') - Bit(t \in alive))
                           + (Bit(Drives(t)') - Bit(Drives(t)))
    BY <1>1, <1>2 DEF Bit
  <1> QED BY <1>1, <1>2, <1>3, <1>4, RefsShift

LEMMA CloseKeepsRefs ==
  ASSUME CallInv, RefsInv, NEW t \in Threads, NEW c \in Channels, Close(t, c)
  PROVE  RefsInv'
  <1> SUFFICES ASSUME NEW n \in Threads
               PROVE  /\ Listed(n)'
                      /\ refs'[n] = Bit(n \in alive') + Bit(Drives(n)')
                           + TimesIn(n, sendRing') + TimesIn(n, recvRing') + TimesIn(n, ringing')
    BY DEF RefsInv, RefsExact
  <1> DEFINE both == sendRing[c] \o recvRing[c]
  <1>1. ringing[t] = <<>> /\ call[t] = NoCall
    BY DEF Close, CallInv, Located, Placed
  <1>2. /\ sendRing \in [Channels -> Seq(Threads)] /\ recvRing \in [Channels -> Seq(Threads)]
        /\ ringing \in [Threads -> Seq(Threads)] /\ <<>> \in Seq(Threads)
        /\ sendRing[c] \in Seq(Threads) /\ recvRing[c] \in Seq(Threads)
        /\ both \in Seq(Threads)
        /\ call \in [Threads -> Calls \cup {NoCall}]
    BY DEF CallInv, Typed, RingTypes, ThreadTypes
  <1>3. /\ IsUpdate(sendRing', sendRing, c, <<>>) /\ IsUpdate(recvRing', recvRing, c, <<>>)
        /\ IsUpdate(ringing', ringing, t, both)
        /\ refs' = refs /\ alive' = alive
    BY DEF Close, notifyVars, IsUpdate
  <1>4. Drives(n)' <=> Drives(n)
    BY <1>1, <1>2, NoCallFields DEF Close, Drives
  <1>5. /\ Times(n, <<>>) = 0 /\ Times(n, ringing[t]) = 0
        /\ Times(n, both) = Times(n, sendRing[c]) + Times(n, recvRing[c])
    BY <1>1, <1>2, TimesEmpty, TimesConcat
  <1> HIDE DEF both
  <1>6. /\ IsFiniteSet(Places(n, sendRing')) /\ Recounted(n, sendRing', sendRing, c, <<>>)
        /\ TimesIn(n, sendRing') \in Nat /\ Times(n, sendRing[c]) \in Nat
    BY <1>2, <1>3, RefsOf, TimesInExcept DEF Listed
  <1>7. /\ IsFiniteSet(Places(n, recvRing')) /\ Recounted(n, recvRing', recvRing, c, <<>>)
        /\ TimesIn(n, recvRing') \in Nat /\ Times(n, recvRing[c]) \in Nat
    BY <1>2, <1>3, RefsOf, TimesInExcept DEF Listed
  <1>8. /\ IsFiniteSet(Places(n, ringing'))
        /\ Recounted(n, ringing', ringing, t, both)
        /\ TimesIn(n, ringing') \in Nat
    BY <1>2, <1>3, RefsOf, TimesInExcept DEF Listed
  <1>9. Listed(n)'
    BY <1>6, <1>7, <1>8 DEF Listed
  <1>10. /\ TimesIn(n, sendRing) \in Nat /\ TimesIn(n, recvRing) \in Nat
         /\ TimesIn(n, ringing) \in Nat
         /\ refs[n] = Bit(n \in alive) + Bit(Drives(n))
              + TimesIn(n, sendRing) + TimesIn(n, recvRing) + TimesIn(n, ringing)
         /\ Bit(n \in alive) \in Nat /\ Bit(Drives(n)) \in Nat
    BY RefsOf DEF Bit
  <1>11. /\ refs'[n] = refs[n] /\ Bit(n \in alive') = Bit(n \in alive)
         /\ Bit(Drives(n)') = Bit(Drives(n))
    BY <1>3, <1>4 DEF Bit
  <1>12. TimesIn(n, sendRing') + TimesIn(n, recvRing') + TimesIn(n, ringing')
           = TimesIn(n, sendRing) + TimesIn(n, recvRing) + TimesIn(n, ringing)
    <2>1. TimesIn(n, sendRing') = TimesIn(n, sendRing) - Times(n, sendRing[c])
      BY <1>5, <1>6, <1>10 DEF Recounted
    <2>2. TimesIn(n, recvRing') = TimesIn(n, recvRing) - Times(n, recvRing[c])
      BY <1>5, <1>7, <1>10 DEF Recounted
    <2>3. TimesIn(n, ringing') = TimesIn(n, ringing) + Times(n, sendRing[c]) + Times(n, recvRing[c])
      BY <1>5, <1>6, <1>7, <1>8, <1>10 DEF Recounted
    <2>4. Times(n, sendRing[c]) \in Nat /\ Times(n, recvRing[c]) \in Nat
      BY <1>6, <1>7
    <2> QED BY <1>10, <2>1, <2>2, <2>3, <2>4
  <1>13. /\ TimesIn(n, sendRing') \in Nat /\ TimesIn(n, recvRing') \in Nat
         /\ TimesIn(n, ringing') \in Nat
    BY <1>6, <1>7, <1>8
  <1>14. refs'[n] = Bit(n \in alive') + Bit(Drives(n)')
           + TimesIn(n, sendRing') + TimesIn(n, recvRing') + TimesIn(n, ringing')
    BY <1>10, <1>11, <1>12, <1>13
  <1> QED BY <1>9, <1>14

\* The last stub takes the channel with it, and the references of its lists.
LEMMA DropStubKeepsRefs ==
  ASSUME CallInv, RefsInv, NEW t \in Threads, NEW c \in Channels, DropStub(t, c)
  PROVE  RefsInv'
  <1>1. CASE stubs[c] # {t}
    <2>1. UNCHANGED <<refs, sendRing, recvRing, ringing, alive, call>>
      BY <1>1 DEF DropStub, threadVars
    <2> QED BY <2>1, RefsKept DEF Drives
  <1>2. CASE stubs[c] = {t}
    <2> SUFFICES ASSUME NEW n \in Threads
                 PROVE  /\ Listed(n)'
                        /\ refs'[n] = Bit(n \in alive') + Bit(Drives(n)')
                             + TimesIn(n, sendRing') + TimesIn(n, recvRing') + TimesIn(n, ringing')
      BY DEF RefsInv, RefsExact
    <2>1. /\ refs'[n] = refs[n] - Times(n, sendRing[c]) - Times(n, recvRing[c])
          /\ IsUpdate(sendRing', sendRing, c, <<>>) /\ IsUpdate(recvRing', recvRing, c, <<>>)
          /\ UNCHANGED <<ringing, alive, call>>
      BY <1>2 DEF DropStub, threadVars, IsUpdate
    <2>2. /\ sendRing \in [Channels -> Seq(Threads)] /\ recvRing \in [Channels -> Seq(Threads)]
          /\ <<>> \in Seq(Threads) /\ Times(n, <<>>) = 0
      BY TimesEmpty DEF CallInv, Typed, RingTypes
    <2>3. /\ IsFiniteSet(Places(n, sendRing')) /\ Recounted(n, sendRing', sendRing, c, <<>>)
          /\ TimesIn(n, sendRing') \in Nat /\ Times(n, sendRing[c]) \in Nat
      BY <2>1, <2>2, RefsOf, TimesInExcept DEF Listed
    <2>4. /\ IsFiniteSet(Places(n, recvRing')) /\ Recounted(n, recvRing', recvRing, c, <<>>)
          /\ TimesIn(n, recvRing') \in Nat /\ Times(n, recvRing[c]) \in Nat
      BY <2>1, <2>2, RefsOf, TimesInExcept DEF Listed
    <2>5. Listed(n)'
      BY <2>1, <2>3, <2>4, RefsOf DEF Listed
    <2>6. /\ TimesIn(n, sendRing) \in Nat /\ TimesIn(n, recvRing) \in Nat
          /\ TimesIn(n, ringing) \in Nat /\ refs[n] \in Int
          /\ refs[n] = Bit(n \in alive) + Bit(Drives(n))
               + TimesIn(n, sendRing) + TimesIn(n, recvRing) + TimesIn(n, ringing)
          /\ Bit(n \in alive) \in Nat /\ Bit(Drives(n)) \in Nat
      BY RefsOf DEF Bit
    <2>7. /\ TimesIn(n, ringing') = TimesIn(n, ringing)
          /\ Bit(n \in alive') = Bit(n \in alive) /\ Bit(Drives(n)') = Bit(Drives(n))
      BY <2>1 DEF Bit, Drives
    <2>8. /\ TimesIn(n, sendRing') = TimesIn(n, sendRing) - Times(n, sendRing[c])
          /\ TimesIn(n, recvRing') = TimesIn(n, recvRing) - Times(n, recvRing[c])
      BY <2>2, <2>3, <2>4, <2>6 DEF Recounted
    <2>9. /\ TimesIn(n, sendRing') \in Nat /\ TimesIn(n, recvRing') \in Nat
          /\ Times(n, sendRing[c]) \in Nat /\ Times(n, recvRing[c]) \in Nat
          /\ refs'[n] = refs[n] - Times(n, sendRing[c]) - Times(n, recvRing[c])
      BY <2>1, <2>3, <2>4
    <2>10. refs'[n] = Bit(n \in alive') + Bit(Drives(n)')
             + TimesIn(n, sendRing') + TimesIn(n, recvRing') + TimesIn(n, ringing')
      BY <2>6, <2>7, <2>8, <2>9
    <2> QED BY <2>5, <2>10
  <1> QED BY <1>1, <1>2

-----------------------------------------------------------------------------

LEMMA NextKeepsRefs == CallInv /\ CallInv' /\ RefsInv /\ [Next]_vars => RefsInv'
  <1> SUFFICES ASSUME CallInv, RefsInv, [Next]_vars PROVE RefsInv'
    OBVIOUS
  <1>1. ASSUME NEW t \in Threads, Step(t) PROVE RefsInv'
    <2>1. CASE TrySend(t) \/ PushTooLate(t) \/ TryRecvEmpty(t)
      <3>1. On(t) \in Channels
        <4>1. Sends(t) \/ Recvs(t)
          BY <2>1 DEF TrySend, PushTooLate, TryRecvEmpty, CallInv, Located, Placed
        <4> QED BY <4>1, SendFields, RecvFields
      <3>2. WouldBlockSend(t) \/ WouldBlockRecv(t) \/ \E l : Jump(t, l) \/ TakeEof(t, l)
        BY <2>1 DEF TrySend, PushTooLate, TryRecvEmpty
      <3> QED BY <3>1, <3>2, WouldBlockKeepsRefs, JumpKeepsRefs
    <2>2. CASE \/ CopyIn(t) \/ RingDone(t) \/ SendLock(t) \/ RecvLockAgain(t)
               \/ CondWaitEnds(t) \/ PollNow(t) \/ TimedOut(t) \/ PollWaits(t)
      <3>1. \E l : Jump(t, l) \/ TakeEof(t, l) \/ \E n : Polled(t, l, n)
        BY <2>2 DEF CopyIn, RingDone, SendLock, RecvLockAgain, CondWaitEnds, PollNow,
                    TimedOut, PollWaits
      <3> QED BY <3>1, JumpKeepsRefs
    <2>3. CASE ReleaseDemand(t) \/ RecvCommit(t)
      BY <2>3, RefsKept DEF ReleaseDemand, RecvCommit, ringVars, notifyVars, Drives
    <2> QED BY <1>1, <2>1, <2>2, <2>3, PushPopKeepRefs, RingKeepsRefs, ReturnKeepsRefs DEF Step
  <1>2. CASE UNCHANGED vars
    BY <1>2, RefsKept DEF vars, ringVars, threadVars, notifyVars, Drives
  <1>3. CASE Next
    <2>1. PICK t \in Threads :
            \/ Step(t)
            \/ \E c \in Channels :
                 \/ \E op \in {"send", "recv"}, mode \in Modes[t] : Call(t, op, mode, c)
                 \/ Close(t, c)
                 \/ DropStub(t, c)
            \/ EndReactor(t)
      BY <1>3 DEF Next
    <2>2. CASE \E c \in Channels :
                 \/ \E op \in {"send", "recv"}, mode \in Modes[t] : Call(t, op, mode, c)
                 \/ Close(t, c)
                 \/ DropStub(t, c)
      BY <2>2, CallKeepsRefs, CloseKeepsRefs, DropStubKeepsRefs
    <2> QED BY <1>1, <2>1, <2>2, EndReactorKeepsRefs
  <1> QED BY <1>2, <1>3

(***************************************************************************)
(* However many threads there are, a notifier's count is exactly what      *)
(* refers to it: ch_notifier_release frees it when, and only when, the     *)
(* last reference goes.                                                    *)
(***************************************************************************)
THEOREM RefsCounted == Spec => []RefsExact
  <1>1. Init => RefsInv
    BY InitRefs
  <1>2. CallInv /\ CallInv' /\ RefsInv /\ [Next]_vars => RefsInv'
    BY NextKeepsRefs
  <1>3. RefsInv => RefsExact
    BY DEF RefsInv
  <1> QED BY <1>1, <1>2, <1>3, CallsInPlace, PTL DEF Spec

\* A count of references is a number of places, so it is never negative.
LEMMA RefsNat == CallInv /\ RefsInv => refs \in [Threads -> Nat]
  <1> SUFFICES ASSUME CallInv, RefsInv, NEW n \in Threads PROVE refs[n] \in Nat
    BY DEF CallInv, Typed, NotifyTypes
  <1>1. Bit(n \in alive) \in Nat /\ Bit(Drives(n)) \in Nat
    BY DEF Bit
  <1> QED BY <1>1, RefsOf

(***************************************************************************)
(* Every variable keeps its type, the counts that C keeps unsigned         *)
(* (rv_demand and the notifiers' refcount) included: neither goes below    *)
(* zero.                                                                   *)
(***************************************************************************)
THEOREM SharedTypesKept == Spec => []TypeOK
  <1>1. Init => RefsInv
    BY InitRefs
  <1>2. CallInv /\ CallInv' /\ RefsInv /\ [Next]_vars => RefsInv'
    BY NextKeepsRefs
  <1>3. CallInv /\ RefsInv => TypeOK
    BY RefsNat
    DEF CallInv, Typed, ChannelTypes, RingTypes, ThreadTypes, NotifyTypes, PcLabels, TypeOK
  <1> QED BY <1>1, <1>2, <1>3, CallsInPlace, PTL DEF Spec
=============================================================================
