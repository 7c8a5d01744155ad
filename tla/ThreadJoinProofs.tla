-------------------------- MODULE ThreadJoinProofs --------------------------
(***************************************************************************)
(* Theorems about ThreadJoin and FiberMutex, for any number of threads,    *)
(* fibers and calls.                                                       *)
(***************************************************************************)
EXTENDS ThreadJoin, FiberMutex, TLAPS, SequenceTheorems

Outcomes == {"value", "copy failed", "error", "void", "terminated"}
Answers  == Outcomes \cup {"timeout", "not started", "missing join state"}
Boxes    == [made : BOOLEAN, finished : BOOLEAN, failed : BOOLEAN, vm : BOOLEAN,
             tid : BOOLEAN]
Frames   == [who : JoinFibers \cup {"Main"}, on : OsThreads \cup {"none"},
             timed : BOOLEAN, at : {"run", "check", "drove"}]

JoinTyped ==
  /\ os \in [OsThreads -> {"created", "running", "failed", "done"}]
  /\ term \in [OsThreads -> BOOLEAN]
  /\ box \in [OsThreads -> Boxes]
  /\ child \in [OsThreads -> {"none", "running", "finished", "exited"}]
  /\ reaped \in [OsThreads -> [joins : Nat, frees : Nat]]
  /\ got \in [OsThreads -> Seq(Answers)]

\* The parent's stack has Main at the bottom, and every frame that waits is
\* in a join of a thread that was started.
StackInv ==
  /\ callers \in Seq(Frames) /\ Len(callers) > 0 /\ callers[1].who = "Main"
  /\ \A i \in 1..Len(callers) :
       callers[i].on # "none" => callers[i].on \in OsThreads /\ box[callers[i].on].made

\* What the join box says is where the thread is: the handle and the heap
\* leave the box together, after the thread has exited, and are counted.
BoxInv(t) ==
  /\ os[t] = "created" => ~box[t].made /\ ~term[t]
  /\ os[t] # "created" /\ ~box[t].made => term[t]
  /\ box[t].made <=> child[t] # "none"
  /\ box[t].finished <=> child[t] \in {"finished", "exited"}
  /\ box[t].failed => box[t].finished
  /\ box[t].vm <=> box[t].tid
  /\ box[t].tid => box[t].made
  /\ box[t].made /\ ~box[t].tid =>
       child[t] = "exited" /\ reaped[t].joins = 1 /\ reaped[t].frees = 1
  /\ ~(box[t].made /\ ~box[t].tid) => reaped[t].joins = 0 /\ reaped[t].frees = 0

ReapInv == JoinTyped /\ StackInv /\ \A t \in OsThreads : BoxInv(t)

LEMMA BoxFields ==
  ASSUME NEW b \in Boxes
  PROVE  /\ b.made \in BOOLEAN /\ b.finished \in BOOLEAN /\ b.failed \in BOOLEAN
         /\ b.vm \in BOOLEAN /\ b.tid \in BOOLEAN
  BY DEF Boxes

LEMMA FreshBoxes ==
  /\ NoBox \in Boxes /\ ~NoBox.made /\ ~NoBox.finished /\ ~NoBox.failed
  /\ ~NoBox.vm /\ ~NoBox.tid
  /\ NewBox \in Boxes /\ NewBox.made /\ ~NewBox.finished /\ ~NewBox.failed
  /\ NewBox.vm /\ NewBox.tid
  BY DEF NoBox, NewBox, Boxes

LEMMA FrontOf ==
  ASSUME NEW S, NEW s \in Seq(S), Len(s) > 0
  PROVE  /\ Front(s) \in Seq(S) /\ Len(Front(s)) = Len(s) - 1
         /\ \A i \in 1..(Len(s) - 1) : Front(s)[i] = s[i]
  <1>1. PICK n \in Nat : n = Len(s) - 1
    OBVIOUS
  <1>2. 1 \in Int /\ n \in Int /\ \A i \in 1..n : s[i] \in S
    BY <1>1
  <1>3. /\ SubSeq(s, 1, n) \in Seq(S)
        /\ Len(SubSeq(s, 1, n)) = IF 1 <= n THEN n - 1 + 1 ELSE 0
        /\ \A i \in 1 .. (n - 1 + 1) : SubSeq(s, 1, n)[i] = s[1 + i - 1]
    BY <1>2, SubSeqProperties
  <1>4. Len(SubSeq(s, 1, n)) = n
    BY <1>3
  <1>5. ASSUME NEW i \in 1..n PROVE SubSeq(s, 1, n)[i] = s[i]
    <2>1. i \in 1 .. (n - 1 + 1) /\ 1 + i - 1 = i
      OBVIOUS
    <2>2. SubSeq(s, 1, n)[i] = s[1 + i - 1]
      BY <1>3, <2>1
    <2> QED BY <2>1, <2>2
  <1> QED BY <1>1, <1>3, <1>4, <1>5 DEF Front

\* The caller that runs is a frame of the stack.
LEMMA CallerIsFrame ==
  ASSUME StackInv
  PROVE  /\ Caller = callers[Len(callers)] /\ Caller \in Frames
         /\ ~Idle => Caller.on \in OsThreads /\ box[Caller.on].made
  BY DEF StackInv, Caller, Last, Idle

LEMMA InitReap == JoinInit => ReapInv
  <1> SUFFICES ASSUME JoinInit PROVE ReapInv
    OBVIOUS
  <1>1. JoinTyped
    BY FreshBoxes DEF JoinInit, JoinTyped
  <1>2. StackInv
    BY DEF JoinInit, StackInv, Running, Frames
  <1>3. \A t \in OsThreads : BoxInv(t)
    BY FreshBoxes DEF JoinInit, BoxInv
  <1> QED BY <1>1, <1>2, <1>3 DEF ReapInv

\* The stack stays in order when the boxes only become made.
LEMMA StackKept ==
  ASSUME StackInv, callers' = callers, \A t \in OsThreads : box[t].made => box'[t].made
  PROVE  StackInv'
  BY DEF StackInv

\* The last frame gives way to another of the same fiber.
LEMMA StackBecomes ==
  ASSUME StackInv, NEW c \in Frames, c.who = Caller.who,
         c.on # "none" => c.on \in OsThreads /\ box'[c.on].made,
         Becomes(c), \A t \in OsThreads : box[t].made => box'[t].made
  PROVE  StackInv'
  <1>1. /\ callers \in Seq(Frames) /\ Len(callers) \in Nat /\ Len(callers) > 0
        /\ callers[1].who = "Main" /\ Caller = callers[Len(callers)]
    BY CallerIsFrame DEF StackInv
  <1>2. /\ Front(callers) \in Seq(Frames) /\ Len(Front(callers)) = Len(callers) - 1
        /\ \A i \in 1..(Len(callers) - 1) : Front(callers)[i] = callers[i]
    BY <1>1, FrontOf
  <1>3. callers' = Append(Front(callers), c)
    BY DEF Becomes
  <1>4. /\ callers' \in Seq(Frames) /\ Len(callers') = Len(callers)
        /\ callers'[Len(callers)] = c
        /\ \A i \in 1..(Len(callers) - 1) : callers'[i] = callers[i]
    BY <1>1, <1>2, <1>3
  <1>5. callers'[1].who = "Main"
    BY <1>1, <1>4
  <1>6. \A i \in 1..Len(callers') : callers'[i] = callers[i] \/ callers'[i] = c
    BY <1>1, <1>4
  <1>7. ASSUME NEW i \in 1..Len(callers'), callers'[i].on # "none"
        PROVE  callers'[i].on \in OsThreads /\ box'[callers'[i].on].made
    BY <1>4, <1>6, <1>7 DEF StackInv
  <1> QED BY <1>1, <1>4, <1>5, <1>7 DEF StackInv

\* What a join answers, for the type of got.
LEMMA AnswerType ==
  ASSUME JoinTyped, NEW t \in OsThreads, NEW out \in Answers, Answer(t, out)
  PROVE  got' \in [OsThreads -> Seq(Answers)]
  <1>1. Append(got[t], out) \in Seq(Answers)
    BY DEF JoinTyped
  <1> QED BY <1>1 DEF JoinTyped, Answer

\* What a finished join may answer, and when.
LEMMA OutcomeCases ==
  ASSUME JoinTyped, NEW t \in OsThreads, NEW b \in BOOLEAN
  PROVE  \/ term[t] /\ Outcome(t, b) = "terminated"
         \/ ~term[t] /\ box[t].failed /\ Outcome(t, b) = "error"
         \/ ~term[t] /\ ~box[t].failed /\ ~box[t].vm /\ Outcome(t, b) = "void"
         \/ ~term[t] /\ ~box[t].failed /\ box[t].vm
            /\ Outcome(t, b) \in {"value", "copy failed"}
  <1>1. term[t] \in BOOLEAN /\ box[t].failed \in BOOLEAN /\ box[t].vm \in BOOLEAN
    BY BoxFields DEF JoinTyped
  <1>2. CASE term[t]
    BY <1>2 DEF Outcome
  <1>3. CASE ~term[t] /\ box[t].failed
    BY <1>3 DEF Outcome
  <1>4. CASE ~term[t] /\ ~box[t].failed /\ ~box[t].vm
    BY <1>4 DEF Outcome
  <1>5. CASE ~term[t] /\ ~box[t].failed /\ box[t].vm
    BY <1>5 DEF Outcome
  <1> QED BY <1>1, <1>2, <1>3, <1>4, <1>5

LEMMA StartKeepsReap ==
  ASSUME ReapInv, NEW t \in OsThreads, ThreadStart(t) PROVE ReapInv'
  <1>1. /\ os[t] = "created" /\ os' = [os EXCEPT ![t] = "running"]
        /\ box' = [box EXCEPT ![t] = NewBox] /\ child' = [child EXCEPT ![t] = "running"]
        /\ term' = term /\ callers' = callers /\ reaped' = reaped /\ got' = got
    BY DEF ThreadStart
  <1>2. JoinTyped'
    BY <1>1, FreshBoxes DEF ReapInv, JoinTyped
  <1>3. \A u \in OsThreads : BoxInv(u)'
    BY <1>1, FreshBoxes DEF ReapInv, JoinTyped, BoxInv
  <1>4. StackInv'
    BY <1>1, FreshBoxes, StackKept DEF ReapInv, JoinTyped
  <1> QED BY <1>2, <1>3, <1>4 DEF ReapInv

LEMMA FinishKeepsReap ==
  ASSUME ReapInv, NEW t \in OsThreads, NEW failed \in BOOLEAN, ThreadFinish(t, failed)
  PROVE  ReapInv'
  <1>1. /\ child[t] = "running" /\ child' = [child EXCEPT ![t] = "finished"]
        /\ box' = [box EXCEPT ![t].finished = TRUE, ![t].failed = failed]
        /\ os' = os /\ term' = term /\ callers' = callers /\ reaped' = reaped /\ got' = got
    BY DEF ThreadFinish
  <1>2. JoinTyped'
    BY <1>1, ZenonT(40) DEF ReapInv, JoinTyped, Boxes
  <1>3. /\ box'[t].made = box[t].made /\ box'[t].vm = box[t].vm /\ box'[t].tid = box[t].tid
        /\ box'[t].finished /\ box'[t].failed = failed
        /\ \A u \in OsThreads \ {t} : box'[u] = box[u]
    BY <1>1 DEF ReapInv, JoinTyped, Boxes
  <1>4. \A u \in OsThreads : BoxInv(u)'
    <2> TAKE u \in OsThreads
    <2>1. CASE u = t
      BY <1>1, <1>3, <2>1 DEF ReapInv, JoinTyped, BoxInv
    <2>2. CASE u # t
      BY <1>1, <1>3, <2>2 DEF ReapInv, JoinTyped, BoxInv
    <2> QED BY <2>1, <2>2
  <1>5. StackInv'
    BY <1>1, <1>3, StackKept DEF ReapInv
  <1> QED BY <1>2, <1>4, <1>5 DEF ReapInv

LEMMA ExitKeepsReap ==
  ASSUME ReapInv, NEW t \in OsThreads, ThreadExit(t) PROVE ReapInv'
  <1>1. /\ child[t] = "finished" /\ child' = [child EXCEPT ![t] = "exited"]
        /\ box' = box /\ os' = os /\ term' = term /\ callers' = callers
        /\ reaped' = reaped /\ got' = got
    BY DEF ThreadExit
  <1>2. JoinTyped'
    BY <1>1 DEF ReapInv, JoinTyped
  <1>3. \A u \in OsThreads : BoxInv(u)'
    BY <1>1 DEF ReapInv, JoinTyped, BoxInv
  <1> QED BY <1>1, <1>2, <1>3, StackKept DEF ReapInv

LEMMA TerminateKeepsReap ==
  ASSUME ReapInv, NEW t \in OsThreads, ThreadTerminate(t) PROVE ReapInv'
  <1>1. /\ os' \in {os, [os EXCEPT ![t] = "failed"]} /\ term' = [term EXCEPT ![t] = TRUE]
        /\ child' = child /\ box' = box /\ callers' = callers
        /\ reaped' = reaped /\ got' = got
    BY DEF ThreadTerminate
  <1>2. JoinTyped'
    BY <1>1 DEF ReapInv, JoinTyped
  <1>3. BoxInv(t)'
    <2>1. term'[t] /\ os'[t] # "created" /\ (os[t] # "created" => os'[t] = os[t]) /\ BoxInv(t)
      BY DEF ThreadTerminate, ReapInv, JoinTyped
    <2> QED BY <1>1, <2>1 DEF BoxInv
  <1>4. ASSUME NEW u \in OsThreads \ {t} PROVE BoxInv(u)'
    <2>1. term'[u] = term[u] /\ os'[u] = os[u] /\ BoxInv(u)
      BY <1>1 DEF ReapInv, JoinTyped
    <2> QED BY <1>1, <2>1 DEF BoxInv
  <1> QED BY <1>1, <1>2, <1>3, <1>4, StackKept DEF ReapInv

\* A step that only moves the parent: nothing of a thread changes.
LEMMA ParentStep ==
  ASSUME ReapInv, UNCHANGED <<os, term, box, child, reaped>>,
         got' \in [OsThreads -> Seq(Answers)], StackInv'
  PROVE  ReapInv'
  BY DEF ReapInv, JoinTyped, BoxInv

LEMMA FrameOf ==
  ASSUME StackInv
  PROVE  /\ Running(Caller.who) \in Frames /\ Running(Caller.who).who = Caller.who
         /\ Running(Caller.who).on = "none"
         /\ \A l \in {"check", "drove"} :
              LET c == [Caller EXCEPT !.at = l]
              IN  c \in Frames /\ c.who = Caller.who /\ c.on = Caller.on
  BY CallerIsFrame DEF Frames, Running

LEMMA JoinCallsKeepReap ==
  ASSUME ReapInv, NEW t \in OsThreads, NEW b \in BOOLEAN, JoinRefused(t, b) \/ Join(t, b)
  PROVE  ReapInv'
  <1>1. CASE JoinRefused(t, b)
    <2>1. /\ \E out \in Answers : Answer(t, out)
          /\ UNCHANGED <<os, term, box, child, callers, reaped>>
      <3>1. (IF term[t] THEN "terminated" ELSE IF b THEN "timeout" ELSE "not started") \in Answers
        BY DEF Answers, Outcomes
      <3>2. "missing join state" \in Answers
        BY DEF Answers
      <3> QED BY <1>1, <3>1, <3>2 DEF JoinRefused
    <2>2. StackInv'
      BY <2>1, StackKept DEF ReapInv
    <2> QED BY <2>1, <2>2, AnswerType, ParentStep DEF ReapInv
  <1>2. CASE Join(t, b)
    <2> DEFINE c == [Caller EXCEPT !.on = t, !.timed = b, !.at = "check"]
    <2>1. /\ Becomes(c) /\ box[t].made /\ UNCHANGED <<os, term, box, child, reaped, got>>
      BY <1>2 DEF Join
    <2>2. c \in Frames /\ c.who = Caller.who /\ c.on = t
      BY CallerIsFrame DEF Frames, ReapInv
    <2> HIDE DEF c
    <2>3. StackInv'
      BY <2>1, <2>2, StackBecomes DEF ReapInv
    <2> QED BY <2>1, <2>3, ParentStep DEF ReapInv, JoinTyped
  <1> QED BY <1>1, <1>2

LEMMA WaitKeepsReap ==
  ASSUME ReapInv, JoinTimeout \/ JoinWait PROVE ReapInv'
  <1>1. CASE JoinTimeout
    <2>1. /\ Becomes(Running(Caller.who)) /\ \E out \in Answers : Answer(Caller.on, out)
          /\ UNCHANGED <<os, term, box, child, reaped>>
      BY <1>1 DEF JoinTimeout, Answers
    <2>2. StackInv'
      BY <2>1, FrameOf, StackBecomes DEF ReapInv
    <2>3. Caller.on \in OsThreads
      BY <1>1, CallerIsFrame DEF JoinTimeout, ReapInv
    <2> QED BY <2>1, <2>2, <2>3, AnswerType, ParentStep DEF ReapInv
  <1>2. CASE JoinWait
    <2> DEFINE c == [Caller EXCEPT !.at = "check"]
    <2>1. /\ Becomes(c) /\ UNCHANGED <<os, term, box, child, reaped, got>> /\ ~Idle
      BY <1>2 DEF JoinWait
    <2>2. c \in Frames /\ c.who = Caller.who /\ c.on = Caller.on
      BY FrameOf DEF ReapInv
    <2> HIDE DEF c
    <2>3. StackInv'
      BY <2>1, <2>2, StackBecomes, CallerIsFrame DEF ReapInv
    <2> QED BY <2>1, <2>3, ParentStep DEF ReapInv, JoinTyped
  <1> QED BY <1>1, <1>2

\* A fiber that is dispatched waits for nobody; one that leaves is the last.
LEMMA DriveKeepsReap ==
  ASSUME ReapInv, JoinDrive PROVE ReapInv'
  <1> DEFINE c == [Caller EXCEPT !.at = "drove"]
             waiting == Append(Front(callers), c)
  <1>1. /\ ~Idle /\ UNCHANGED <<os, term, box, child, reaped, got>>
        /\ \/ callers' = waiting
           \/ \E f \in JoinFibers : callers' = Append(waiting, Running(f))
    BY DEF JoinDrive
  <1>2. c \in Frames /\ c.who = Caller.who /\ c.on = Caller.on
    BY FrameOf DEF ReapInv
  <1> HIDE DEF c
  <1>3. /\ callers \in Seq(Frames) /\ Len(callers) \in Nat /\ Len(callers) > 0
        /\ callers[1].who = "Main" /\ Caller = callers[Len(callers)]
    BY CallerIsFrame DEF ReapInv, StackInv
  <1>4. /\ Front(callers) \in Seq(Frames) /\ Len(Front(callers)) = Len(callers) - 1
        /\ \A i \in 1..(Len(callers) - 1) : Front(callers)[i] = callers[i]
    BY <1>3, FrontOf
  <1>5. /\ waiting \in Seq(Frames) /\ Len(waiting) = Len(callers)
        /\ waiting[Len(callers)] = c
        /\ \A i \in 1..(Len(callers) - 1) : waiting[i] = callers[i]
    BY <1>2, <1>3, <1>4
  <1> HIDE DEF waiting
  <1>6. /\ \A i \in 1..Len(callers) : waiting[i].who = callers[i].who /\ waiting[i].on = callers[i].on
    BY <1>2, <1>3, <1>5
  <1>7. CASE callers' = waiting
    <2>1. StackInv'
      BY <1>1, <1>3, <1>5, <1>6, <1>7 DEF ReapInv, StackInv
    <2> QED BY <1>1, <2>1, ParentStep DEF ReapInv, JoinTyped
  <1>8. ASSUME NEW f \in JoinFibers, callers' = Append(waiting, Running(f)) PROVE ReapInv'
    <2>1. Running(f) \in Frames /\ Running(f).on = "none"
      BY DEF Running, Frames
    <2>2. /\ callers' \in Seq(Frames) /\ Len(callers') = Len(callers) + 1
          /\ callers'[Len(callers) + 1] = Running(f)
          /\ \A i \in 1..Len(callers) : callers'[i] = waiting[i]
      BY <1>3, <1>5, <1>8, <2>1
    <2>3. StackInv'
      BY <1>1, <1>3, <1>6, <2>1, <2>2 DEF ReapInv, StackInv
    <2> QED BY <1>1, <2>3, ParentStep DEF ReapInv, JoinTyped
  <1> QED BY <1>1, <1>7, <1>8

LEMMA LeaveKeepsReap ==
  ASSUME ReapInv, NEW b \in BOOLEAN, FiberLeaves(b) PROVE ReapInv'
  <1>1. /\ callers' = Front(callers) /\ Caller.who # "Main"
        /\ UNCHANGED <<os, term, box, child, reaped, got>>
    BY DEF FiberLeaves
  <1>2. /\ callers \in Seq(Frames) /\ Len(callers) \in Nat /\ Len(callers) > 0
        /\ callers[1].who = "Main" /\ Caller = callers[Len(callers)]
    BY CallerIsFrame DEF ReapInv, StackInv
  <1>3. /\ Front(callers) \in Seq(Frames) /\ Len(Front(callers)) = Len(callers) - 1
        /\ \A i \in 1..(Len(callers) - 1) : Front(callers)[i] = callers[i]
    BY <1>2, FrontOf
  <1>4. Len(callers) > 1
    BY <1>1, <1>2
  <1>5. StackInv'
    BY <1>1, <1>2, <1>3, <1>4 DEF ReapInv, StackInv
  <1> QED BY <1>1, <1>5, ParentStep DEF ReapInv, JoinTyped

\* The join that ends: whichever of the nested joins it is, the handle and the
\* heap are still in the box, or were taken by one before.
LEMMA JoinFinishKeepsReap ==
  ASSUME ReapInv, NEW b \in BOOLEAN, JoinFinish(b) PROVE ReapInv'
  <1>1. Caller.on \in OsThreads /\ box[Caller.on].made
    BY CallerIsFrame DEF JoinFinish, ReapInv
  <1>0. PICK t \in OsThreads : t = Caller.on
    BY <1>1
  <1>3. PICK out \in Answers : out = Outcome(t, b)
    BY OutcomeCases DEF ReapInv, Answers, Outcomes
  <1>2. /\ Reap(t) /\ Answer(t, out) /\ Becomes(Running(Caller.who)) /\ box[t].made
        /\ os' = [os EXCEPT ![t] = CASE out = "error" -> "failed"
                                     [] out = "copy failed" -> os[t]
                                     [] OTHER -> "done"]
        /\ term' = term /\ child' = child
    BY <1>0, <1>1, <1>3 DEF JoinFinish
  <1>4. /\ os'[t] \in {"failed", "done", os[t]}
        /\ os' \in [OsThreads -> {"created", "running", "failed", "done"}]
        /\ \A u \in OsThreads \ {t} : os'[u] = os[u]
    <2>1. os[t] \in {"created", "running", "failed", "done"}
      BY DEF ReapInv, JoinTyped
    <2>2. PICK e \in {"failed", "done", os[t]} : os' = [os EXCEPT ![t] = e]
      BY <1>2
    <2> QED BY <2>1, <2>2 DEF ReapInv, JoinTyped
  <1>5. os[t] # "created" /\ (box[t].vm <=> box[t].tid) /\ (box[t].tid => child[t] = "exited")
    BY <1>2 DEF ReapInv, BoxInv, Reap
  <1>6. /\ box' = [box EXCEPT ![t].tid = FALSE, ![t].vm = FALSE]
        /\ reaped' = [reaped EXCEPT ![t].joins = @ + (IF box[t].tid THEN 1 ELSE 0),
                                    ![t].frees = @ + (IF box[t].vm THEN 1 ELSE 0)]
    BY <1>2 DEF Reap
  <1>7. /\ box' \in [OsThreads -> Boxes] /\ \A u \in OsThreads \ {t} : box'[u] = box[u]
        /\ box'[t].made = box[t].made /\ box'[t].finished = box[t].finished
        /\ box'[t].failed = box[t].failed /\ box'[t].vm = FALSE /\ box'[t].tid = FALSE
    BY <1>6, ZenonT(40) DEF ReapInv, JoinTyped, Boxes
  <1>8. /\ reaped' \in [OsThreads -> [joins : Nat, frees : Nat]]
        /\ \A u \in OsThreads \ {t} : reaped'[u] = reaped[u]
        /\ box[t].tid => reaped'[t].joins = reaped[t].joins + 1
                         /\ reaped'[t].frees = reaped[t].frees + 1
        /\ ~box[t].tid => reaped'[t].joins = reaped[t].joins
                          /\ reaped'[t].frees = reaped[t].frees
    <2>1. /\ reaped[t] \in [joins : Nat, frees : Nat]
          /\ reaped[t].joins \in Nat /\ reaped[t].frees \in Nat
          /\ reaped \in [OsThreads -> [joins : Nat, frees : Nat]]
      BY DEF ReapInv, JoinTyped
    <2> DEFINE k == IF box[t].tid THEN 1 ELSE 0
               r == [reaped[t] EXCEPT !.joins = @ + k, !.frees = @ + k]
    <2>2. /\ k \in Nat /\ (box[t].tid => k = 1) /\ (~box[t].tid => k = 0)
          /\ (IF box[t].tid THEN 1 ELSE 0) = k /\ (IF box[t].vm THEN 1 ELSE 0) = k
      BY <1>5
    <2> HIDE DEF k
    <2>3. reaped' = [reaped EXCEPT ![t] = r]
      <3>1. reaped' = [reaped EXCEPT ![t].joins = @ + k, ![t].frees = @ + k]
        BY <1>6, <2>2
      <3> QED BY <2>1, <3>1
    <2>4. PICK i \in Nat, j \in Nat : i = reaped[t].joins + k /\ j = reaped[t].frees + k
      BY <2>1, <2>2
    <2>5. r = [reaped[t] EXCEPT !.joins = i, !.frees = j]
      BY <2>1, <2>4
    <2> HIDE DEF r
    <2>6. r \in [joins : Nat, frees : Nat] /\ r.joins = i /\ r.frees = j
      BY <2>1, <2>5
    <2> HIDE DEF r
    <2> QED BY <2>1, <2>2, <2>3, <2>4, <2>6
  <1>9. JoinTyped'
    BY <1>2, <1>3, <1>4, <1>7, <1>8, AnswerType DEF ReapInv, JoinTyped
  <1>10. BoxInv(t)'
    <2>1. child' = child /\ box[t].made
      BY <1>2
    <2>2. os'[t] # "created" /\ BoxInv(t)
      BY <1>4, <1>5 DEF ReapInv
    <2> QED BY <1>5, <1>7, <1>8, <2>1, <2>2 DEF BoxInv
  <1>11. \A u \in OsThreads \ {t} : BoxInv(u)'
    <2>1. child' = child /\ term' = term
      BY <1>2
    <2> QED BY <1>4, <1>7, <1>8, <2>1 DEF ReapInv, BoxInv
  <1>12. StackInv'
    BY <1>2, <1>7, FrameOf, StackBecomes DEF ReapInv
  <1> QED BY <1>9, <1>10, <1>11, <1>12 DEF ReapInv

LEMMA NextKeepsReap == ReapInv /\ [JoinNext]_joinVars => ReapInv'
  <1> SUFFICES ASSUME ReapInv, [JoinNext]_joinVars PROVE ReapInv'
    OBVIOUS
  <1>1. CASE UNCHANGED joinVars
    BY <1>1, StackKept, ParentStep DEF joinVars, ReapInv, JoinTyped
  <1>2. CASE JoinNext
    BY <1>2, StartKeepsReap, FinishKeepsReap, ExitKeepsReap, TerminateKeepsReap,
       JoinCallsKeepReap, DriveKeepsReap, LeaveKeepsReap, WaitKeepsReap, JoinFinishKeepsReap
    DEF JoinNext
  <1> QED BY <1>1, <1>2

(***************************************************************************)
(* However joins nest, a thread is waited for once and its heap is freed   *)
(* once, after it has exited (thread_join_finish).                         *)
(***************************************************************************)
THEOREM ThreadsReapedOnce == JoinSpec => []ReapedOnceAfterExit
  <1>1. JoinInit => ReapInv
    BY InitReap
  <1>2. ReapInv /\ [JoinNext]_joinVars => ReapInv'
    BY NextKeepsReap
  <1>3. ReapInv => ReapedOnceAfterExit
    <2> SUFFICES ASSUME ReapInv, NEW t \in OsThreads
                 PROVE  /\ reaped[t].joins <= 1 /\ reaped[t].frees <= 1
                        /\ reaped[t].frees = 1 => child[t] = "exited"
      BY DEF ReapedOnceAfterExit
    <2>1. box[t].made \in BOOLEAN /\ box[t].tid \in BOOLEAN
      BY BoxFields DEF ReapInv, JoinTyped
    <2> QED BY <2>1 DEF ReapInv, BoxInv
  <1> QED BY <1>1, <1>2, <1>3, PTL DEF JoinSpec

-----------------------------------------------------------------------------
(* What the joins of a thread have answered.                               *)

Taken == {"value", "copy failed"}

\* FirstJoinTakesOutcome, of the answers of one thread.
FirstTakes(answers, failed) ==
  \A i \in 1..Len(answers) :
    /\ answers[i] \in Taken => ~failed /\ \A j \in 1..(i - 1) : ~Settles(answers[j])
    /\ answers[i] = "error" => failed
    /\ answers[i] = "void" => \E j \in 1..(i - 1) : answers[j] \in Taken
    /\ answers[i] = "terminated" =>
         \A j \in i..Len(answers) : Settles(answers[j]) => answers[j] = "terminated"

\* Once x is answered nothing else is.
Stays(answers, x) ==
  \A i \in 1..Len(answers) : answers[i] = x => \A j \in i..Len(answers) : answers[j] = x

Has(answers, S) == \E i \in 1..Len(answers) : answers[i] \in S

\* Until the thread is reaped only joins that gave up have answered; after,
\* what is left in the box tells what the first answer was.
AnswersInv(t) ==
  /\ Has(got[t], {"missing join state"}) => ~box[t].made /\ os[t] # "created"
  /\ Stays(got[t], "missing join state")
  /\ box[t].vm \/ ~box[t].made => ~Has(got[t], Outcomes)
  /\ box[t].made /\ ~box[t].vm => term[t] \/ box[t].failed \/ Has(got[t], Taken)
  /\ Has(got[t], {"terminated"}) => term[t]

TakeInv == \A t \in OsThreads : AnswersInv(t) /\ FirstTakes(got[t], box[t].failed)

\* One answer more.
LEMMA HasAppend ==
  ASSUME NEW s \in Seq(Answers), NEW out \in Answers, NEW S
  PROVE  Has(Append(s, out), S) <=> Has(s, S) \/ out \in S
  <1>1. /\ Len(s) \in Nat /\ Len(Append(s, out)) = Len(s) + 1
        /\ Append(s, out)[Len(s) + 1] = out
        /\ \A i \in 1..Len(s) : Append(s, out)[i] = s[i]
    OBVIOUS
  <1>2. 1..(Len(s) + 1) = (1..Len(s)) \cup {Len(s) + 1}
    BY <1>1
  <1> QED BY <1>1, <1>2 DEF Has

\* What an answer must find before it to keep FirstTakes.
LEMMA FirstAppend ==
  ASSUME NEW s \in Seq(Answers), NEW out \in Answers, NEW failed \in BOOLEAN,
         FirstTakes(s, failed),
         out \in Taken => ~failed /\ \A i \in 1..Len(s) : ~Settles(s[i]),
         out = "error" => failed,
         out = "void" => Has(s, Taken),
         Settles(out) /\ out # "terminated" => ~Has(s, {"terminated"})
  PROVE  FirstTakes(Append(s, out), failed)
  <1> DEFINE a == Append(s, out)
  <1>1. /\ Len(s) \in Nat /\ Len(a) = Len(s) + 1 /\ a[Len(s) + 1] = out
        /\ \A i \in 1..Len(s) : a[i] = s[i]
    OBVIOUS
  <1> HIDE DEF a
  <1>2. \A i \in 1..Len(a) : i \in 1..Len(s) \/ i = Len(s) + 1
    BY <1>1
  <1>3. ASSUME NEW i \in 1..Len(s), a[i] \in Taken
        PROVE  ~failed /\ \A j \in 1..(i - 1) : ~Settles(a[j])
    <2>1. \A j \in 1..(i - 1) : a[j] = s[j]
      BY <1>1
    <2> QED BY <1>1, <1>3, <2>1 DEF FirstTakes
  <1>4. ASSUME NEW i \in 1..Len(s), a[i] = "void" PROVE \E j \in 1..(i - 1) : a[j] \in Taken
    <2>1. \A j \in 1..(i - 1) : a[j] = s[j]
      BY <1>1
    <2> QED BY <1>1, <1>4, <2>1 DEF FirstTakes
  <1>5. ASSUME NEW i \in 1..Len(s), a[i] = "terminated", NEW j \in i..Len(a), Settles(a[j])
        PROVE  a[j] = "terminated"
    <2>1. s[i] = "terminated" /\ Has(s, {"terminated"})
      BY <1>1, <1>5 DEF Has
    <2>2. CASE j = Len(s) + 1
      BY <1>1, <1>5, <2>1, <2>2
    <2>3. CASE j # Len(s) + 1
      <3>1. j \in i..Len(s) /\ j \in 1..Len(s)
        BY <1>1, <2>3
      <3> QED BY <1>1, <1>5, <2>1, <3>1 DEF FirstTakes
    <2> QED BY <2>2, <2>3
  <1>6. ASSUME NEW i \in 1..Len(s), a[i] = "error" PROVE failed
    BY <1>1, <1>6 DEF FirstTakes
  <1>7. out \in Taken => ~failed /\ \A j \in 1..Len(s) : ~Settles(a[j])
    BY <1>1
  <1>8. out = "void" => \E j \in 1..Len(s) : a[j] \in Taken
    BY <1>1 DEF Has
  <1>9. \A j \in (Len(s) + 1)..Len(a) : j = Len(s) + 1
    BY <1>1
  <1>10. (Len(s) + 1) - 1 = Len(s)
    BY <1>1
  <1>11. FirstTakes(a, failed)
    <2> SUFFICES ASSUME NEW i \in 1..Len(a)
                 PROVE  /\ a[i] \in Taken => ~failed /\ \A j \in 1..(i - 1) : ~Settles(a[j])
                        /\ a[i] = "error" => failed
                        /\ a[i] = "void" => \E j \in 1..(i - 1) : a[j] \in Taken
                        /\ a[i] = "terminated" =>
                             \A j \in i..Len(a) : Settles(a[j]) => a[j] = "terminated"
      BY DEF FirstTakes
    <2>1. CASE i \in 1..Len(s)
      BY <1>3, <1>4, <1>5, <1>6, <2>1
    <2>2. CASE i = Len(s) + 1
      BY <1>1, <1>7, <1>8, <1>9, <1>10, <2>2
    <2> QED BY <1>2, <2>1, <2>2
  <1> QED BY <1>11 DEF a

LEMMA StaysAppend ==
  ASSUME NEW s \in Seq(Answers), NEW out \in Answers, NEW x,
         Stays(s, x), out # x => ~Has(s, {x})
  PROVE  Stays(Append(s, out), x)
  <1>1. /\ Len(s) \in Nat /\ Len(Append(s, out)) = Len(s) + 1
        /\ Append(s, out)[Len(s) + 1] = out
        /\ \A i \in 1..Len(s) : Append(s, out)[i] = s[i]
    OBVIOUS
  <1> DEFINE a == Append(s, out)
  <1> SUFFICES ASSUME NEW i \in 1..Len(a), a[i] = x, NEW j \in i..Len(a) PROVE a[j] = x
    BY DEF Stays
  <1>2. Len(a) = Len(s) + 1 /\ a[Len(s) + 1] = out /\ \A k \in 1..Len(s) : a[k] = s[k]
    BY <1>1
  <1> HIDE DEF a
  <1>3. CASE j \in 1..Len(s)
    <2>1. i \in 1..Len(s) /\ j \in i..Len(s)
      BY <1>1, <1>2, <1>3
    <2> QED BY <1>2, <2>1 DEF Stays
  <1>4. CASE j = Len(s) + 1 /\ i \in 1..Len(s)
    BY <1>2, <1>4 DEF Has
  <1>5. CASE j = Len(s) + 1 /\ i = Len(s) + 1
    BY <1>2, <1>5
  <1> QED BY <1>1, <1>2, <1>3, <1>4, <1>5

LEMMA InitTake == JoinInit => TakeInv
  BY FreshBoxes DEF JoinInit, TakeInv, AnswersInv, FirstTakes, Has, Stays

\* Joins that gave up constrain nothing.
LEMMA FirstOfNone ==
  ASSUME NEW s, NEW failed, ~Has(s, Outcomes) PROVE FirstTakes(s, failed)
  BY DEF Has, FirstTakes, Outcomes, Taken

LEMMA TakeOf ==
  ASSUME ReapInv, TakeInv, NEW t \in OsThreads
  PROVE  /\ AnswersInv(t) /\ FirstTakes(got[t], box[t].failed) /\ got[t] \in Seq(Answers)
         /\ box[t].made \in BOOLEAN /\ box[t].failed \in BOOLEAN /\ box[t].vm \in BOOLEAN
         /\ box[t].vm => box[t].made
  BY BoxFields DEF ReapInv, JoinTyped, TakeInv, BoxInv

\* A step that changes nothing a join answers by.
LEMMA TakeKept ==
  ASSUME ReapInv, TakeInv, UNCHANGED <<os, term, box, got>> PROVE TakeInv'
  BY DEF TakeInv, AnswersInv

\* An answer that takes nothing.
LEMMA GiveUpKeepsTake ==
  ASSUME ReapInv, TakeInv, NEW t \in OsThreads,
         NEW out \in {"timeout", "not started", "missing join state"},
         out = "missing join state" <=> ~box[t].made /\ os[t] # "created",
         Answer(t, out), UNCHANGED <<os, term, box>>
  PROVE  TakeInv'
  <1>1. /\ got[t] \in Seq(Answers) /\ out \in Answers /\ out \notin Outcomes
        /\ out \notin Taken /\ out # "terminated"
    BY TakeOf DEF Answers, Outcomes, Taken
  <1>2. got'[t] = Append(got[t], out) /\ \A u \in OsThreads \ {t} : got'[u] = got[u]
    BY DEF Answer, ReapInv, JoinTyped
  <1>3. \A S : Has(got'[t], S) <=> Has(got[t], S) \/ out \in S
    BY <1>1, <1>2, HasAppend, ZenonT(40)
  <1>8. Stays(got'[t], "missing join state")
    BY <1>1, <1>2, TakeOf, StaysAppend DEF AnswersInv
  <1>4. AnswersInv(t)'
    BY <1>1, <1>3, <1>8, TakeOf DEF AnswersInv
  <1>5. Settles(out) => ~Has(got[t], {"terminated"})
    <2>1. Has(got[t], {"terminated"}) => Has(got[t], Outcomes)
      BY DEF Has, Outcomes
    <2> QED BY <2>1, TakeOf DEF Settles, AnswersInv
  <1>6. FirstTakes(got'[t], box[t].failed)
    BY <1>1, <1>2, <1>5, TakeOf, FirstAppend
  <1>7. \A u \in OsThreads \ {t} : (AnswersInv(u) /\ FirstTakes(got[u], box[u].failed))'
    BY <1>2 DEF TakeInv, AnswersInv
  <1> QED BY <1>4, <1>6, <1>7 DEF TakeInv

LEMMA StartKeepsTake ==
  ASSUME ReapInv, TakeInv, NEW t \in OsThreads, ThreadStart(t) PROVE TakeInv'
  <1>1. /\ os[t] = "created" /\ ~box[t].made /\ box'[t] = NewBox
        /\ \A u \in OsThreads \ {t} : box'[u] = box[u] /\ os'[u] = os[u]
        /\ term' = term /\ got' = got
    BY DEF ThreadStart, ReapInv, JoinTyped, BoxInv
  <1>2. ~Has(got[t], Outcomes) /\ ~Has(got[t], {"missing join state"})
    BY <1>1, TakeOf DEF AnswersInv
  <1>3. ~Has(got[t], {"terminated"})
    BY <1>2 DEF Has, Outcomes
  <1>6. Stays(got[t], "missing join state")'
    BY <1>1 DEF TakeInv, AnswersInv
  <1>4. AnswersInv(t)' /\ FirstTakes(got[t], box[t].failed)'
    BY <1>1, <1>2, <1>3, <1>6, FreshBoxes, FirstOfNone DEF AnswersInv
  <1>5. \A u \in OsThreads \ {t} : (AnswersInv(u) /\ FirstTakes(got[u], box[u].failed))'
    BY <1>1 DEF TakeInv, AnswersInv
  <1> QED BY <1>4, <1>5 DEF TakeInv

\* The outcome is written while the box is still full: nobody has taken it.
LEMMA FinishKeepsTake ==
  ASSUME ReapInv, TakeInv, NEW t \in OsThreads, NEW failed \in BOOLEAN, ThreadFinish(t, failed)
  PROVE  TakeInv'
  <1>1. /\ child[t] = "running" /\ got' = got /\ term' = term /\ os' = os
        /\ box' = [box EXCEPT ![t].finished = TRUE, ![t].failed = failed]
    BY DEF ThreadFinish
  <1>2. /\ box'[t].made = box[t].made /\ box'[t].vm = box[t].vm
        /\ \A u \in OsThreads \ {t} : box'[u] = box[u]
    BY <1>1 DEF ReapInv, JoinTyped, Boxes
  <1>3. box[t].vm
    BY <1>1 DEF ReapInv, BoxInv
  <1>4. ~Has(got[t], Outcomes)
    BY <1>3, TakeOf DEF AnswersInv
  <1>5. AnswersInv(t)' /\ FirstTakes(got[t], box[t].failed)'
    BY <1>1, <1>2, <1>3, <1>4, TakeOf, FirstOfNone DEF AnswersInv
  <1>6. \A u \in OsThreads \ {t} : (AnswersInv(u) /\ FirstTakes(got[u], box[u].failed))'
    BY <1>1, <1>2 DEF TakeInv, AnswersInv
  <1> QED BY <1>5, <1>6 DEF TakeInv

LEMMA TerminateKeepsTake ==
  ASSUME ReapInv, TakeInv, NEW t \in OsThreads, ThreadTerminate(t) PROVE TakeInv'
  <1>1. /\ box' = box /\ got' = got /\ term'[t] = TRUE
        /\ os[t] # "created" => os'[t] # "created"
        /\ \A u \in OsThreads \ {t} : term'[u] = term[u] /\ os'[u] = os[u]
    BY DEF ThreadTerminate, ReapInv, JoinTyped
  <1> QED BY <1>1 DEF TakeInv, AnswersInv

LEMMA JoinFinishKeepsTake ==
  ASSUME ReapInv, TakeInv, NEW b \in BOOLEAN, JoinFinish(b) PROVE TakeInv'
  <1>1. PICK t \in OsThreads : t = Caller.on /\ box[t].made
    BY CallerIsFrame DEF JoinFinish, ReapInv
  <1>2. PICK out \in Answers : out = Outcome(t, b) /\ out \in Outcomes
    BY OutcomeCases DEF ReapInv, Answers, Outcomes
  <1>3. /\ Reap(t) /\ Answer(t, out) /\ term' = term
        /\ \A u \in OsThreads \ {t} : os'[u] = os[u]
    BY <1>1, <1>2 DEF JoinFinish, ReapInv, JoinTyped
  <1>4. /\ \A u \in OsThreads \ {t} : box'[u] = box[u]
        /\ box'[t].made = box[t].made /\ box'[t].failed = box[t].failed /\ ~box'[t].vm
    <2>1. box' = [box EXCEPT ![t].tid = FALSE, ![t].vm = FALSE]
      BY <1>3 DEF Reap
    <2> QED BY <2>1 DEF ReapInv, JoinTyped, Boxes
  <1>5. got'[t] = Append(got[t], out) /\ \A u \in OsThreads \ {t} : got'[u] = got[u]
    BY <1>3 DEF Answer, ReapInv, JoinTyped
  <1>6. /\ AnswersInv(t) /\ FirstTakes(got[t], box[t].failed) /\ got[t] \in Seq(Answers)
        /\ box[t].failed \in BOOLEAN
    BY TakeOf
  <1>7. \A S : Has(got'[t], S) <=> Has(got[t], S) \/ out \in S
    BY <1>2, <1>5, <1>6, HasAppend
  <1>8. \/ term[t] /\ out = "terminated"
        \/ ~term[t] /\ box[t].failed /\ out = "error"
        \/ ~term[t] /\ ~box[t].failed /\ ~box[t].vm /\ out = "void"
        \/ ~term[t] /\ ~box[t].failed /\ box[t].vm /\ out \in Taken
    BY <1>2, OutcomeCases DEF ReapInv, Taken
  <1>12. Stays(got'[t], "missing join state")
    BY <1>1, <1>5, <1>6, StaysAppend DEF AnswersInv
  <1>9. AnswersInv(t)'
    BY <1>1, <1>2, <1>3, <1>4, <1>6, <1>7, <1>8, <1>12 DEF AnswersInv, Taken, Outcomes
  <1>10. FirstTakes(got'[t], box[t].failed)
    <2>1. out = "error" => box[t].failed
      BY <1>8 DEF Taken
    <2>2. out = "void" => Has(got[t], Taken)
      BY <1>1, <1>6, <1>8 DEF AnswersInv, Taken
    <2>3. Settles(out) /\ out # "terminated" => ~Has(got[t], {"terminated"})
      BY <1>6, <1>8 DEF AnswersInv
    <2>4. ASSUME out \in Taken PROVE ~box[t].failed /\ \A i \in 1..Len(got[t]) : ~Settles(got[t][i])
      <3>1. ~box[t].failed /\ box[t].vm
        BY <1>8, <2>4 DEF Taken
      <3>2. ~Has(got[t], Outcomes) /\ ~Has(got[t], {"missing join state"})
        BY <1>1, <1>6, <3>1 DEF AnswersInv
      <3>3. ASSUME NEW i \in 1..Len(got[t]) PROVE ~Settles(got[t][i])
        <4>1. got[t][i] \in Answers
          BY <1>6
        <4>2. got[t][i] \notin Outcomes /\ got[t][i] # "missing join state"
          BY <3>2 DEF Has
        <4> QED BY <4>1, <4>2 DEF Answers, Settles
      <3> QED BY <3>1, <3>3
    <2> QED BY <1>5, <1>6, <2>1, <2>2, <2>3, <2>4, FirstAppend
  <1>11. \A u \in OsThreads \ {t} : (AnswersInv(u) /\ FirstTakes(got[u], box[u].failed))'
    BY <1>3, <1>4, <1>5 DEF TakeInv, AnswersInv
  <1> QED BY <1>4, <1>9, <1>10, <1>11 DEF TakeInv

LEMMA NextKeepsTake == ReapInv /\ TakeInv /\ [JoinNext]_joinVars => TakeInv'
  <1> SUFFICES ASSUME ReapInv, TakeInv, [JoinNext]_joinVars PROVE TakeInv'
    OBVIOUS
  <1>1. CASE UNCHANGED joinVars
    BY <1>1, TakeKept DEF joinVars
  <1>2. ASSUME NEW t \in OsThreads, NEW b \in BOOLEAN, JoinRefused(t, b) PROVE TakeInv'
    <2>1. UNCHANGED <<os, term, box>>
      BY <1>2 DEF JoinRefused
    <2>2. CASE os[t] = "created"
      <3>1. ~term[t]
        BY <2>2 DEF ReapInv, BoxInv
      <3>2. PICK out \in {"timeout", "not started"} : Answer(t, out)
        BY <1>2, <2>2, <3>1 DEF JoinRefused
      <3> QED BY <2>1, <2>2, <3>2, GiveUpKeepsTake
    <2>3. CASE os[t] # "created"
      BY <1>2, <2>1, <2>3, GiveUpKeepsTake DEF JoinRefused
    <2> QED BY <2>2, <2>3
  <1>3. CASE JoinTimeout
    <2>1. Caller.on \in OsThreads /\ box[Caller.on].made
      BY <1>3, CallerIsFrame DEF JoinTimeout, ReapInv
    <2>2. Answer(Caller.on, "timeout") /\ UNCHANGED <<os, term, box>>
      BY <1>3 DEF JoinTimeout
    <2> QED BY <2>1, <2>2, GiveUpKeepsTake
  <1>4. ASSUME NEW t \in OsThreads, NEW b \in BOOLEAN,
               ThreadExit(t) \/ Join(t, b)
        PROVE  TakeInv'
    BY <1>4, TakeKept DEF ThreadExit, Join
  <1>5. CASE JoinDrive \/ JoinWait \/ \E b \in BOOLEAN : FiberLeaves(b)
    BY <1>5, TakeKept DEF JoinDrive, JoinWait, FiberLeaves
  <1> QED BY <1>1, <1>2, <1>3, <1>4, <1>5, StartKeepsTake, FinishKeepsTake,
             TerminateKeepsTake, JoinFinishKeepsTake DEF JoinNext

(***************************************************************************)
(* Of the joins of a thread that do not give up, the first takes its value *)
(* or its failed copy, and the others find the box empty; an error and a   *)
(* termination are reported to every one of them.  Those of a thread that  *)
(* was terminated before it was started are told of a missing join state.  *)
(***************************************************************************)
THEOREM OutcomeTakenOnce == JoinSpec => []FirstJoinTakesOutcome
  <1>1. JoinInit => ReapInv /\ TakeInv
    BY InitReap, InitTake
  <1>2. ReapInv /\ TakeInv /\ [JoinNext]_joinVars => (ReapInv /\ TakeInv)'
    BY NextKeepsReap, NextKeepsTake
  <1>3. ReapInv /\ TakeInv => FirstJoinTakesOutcome
    <2> SUFFICES ASSUME ReapInv, TakeInv, NEW t \in OsThreads, NEW i \in 1..Len(got[t]),
                        got[t][i] = "missing join state"
                 PROVE  term[t] /\ child[t] = "none"
      BY DEF TakeInv, AnswersInv, FirstTakes, Stays, Taken, FirstJoinTakesOutcome
    <2>1. Has(got[t], {"missing join state"})
      BY DEF Has
    <2>2. ~box[t].made /\ os[t] # "created"
      BY <2>1 DEF TakeInv, AnswersInv
    <2> QED BY <2>2 DEF ReapInv, BoxInv
  <1> QED BY <1>1, <1>2, <1>3, PTL DEF JoinSpec

-----------------------------------------------------------------------------
(* The mutex.                                                               *)

\* A death that was not reported is one that the next lock will find: the mutex
\* is still locked in the name of a fiber that has returned.
DeathShows == died => Died

LEMMA DeathShowsInit == MutexInit => DeathShows
  BY DEF MutexInit, DeathShows, Died

\* Whoever changes the mutex reports the death or finds none; a fiber that has
\* returned stays done.
LEMMA DeathShowsStep ==
  ASSUME DeathShows, [MutexNext]_mutexVars
  PROVE  /\ DeathShows'
         /\ mlocked' /\ (~mlocked \/ mowner' # mowner) => ~died
  <1> DEFINE Goal == /\ DeathShows'
                     /\ mlocked' /\ (~mlocked \/ mowner' # mowner) => ~died
  <1>1. ASSUME NEW owner, LockAbandoned \/ LockTaken(owner), mdone' = mdone
        PROVE  Goal
    BY <1>1 DEF LockAbandoned, LockTaken, Died, DeathShows
  <1>2. ASSUME mlocked' = mlocked, mowner' = mowner, mdone' = mdone, died' = died
        PROVE  Goal
    BY <1>2 DEF Died, DeathShows
  <1>3. CASE \E owner \in {"vm"} \cup MutexFibers : MutexLock(owner)
    BY <1>1, <1>3 DEF MutexLock
  <1>4. CASE MutexLockTimeout \/ MutexLockParks \/ CondvarSignal \/ MutexDispatch
    BY <1>2, <1>4
    DEF MutexLockTimeout, MutexLockParks, CondvarSignal, MutexDispatch, theMutex
  <1>5. CASE MutexUnlock \/ \E b \in BOOLEAN : UnlockWait(b)
    <2>1. mlocked' = FALSE /\ died' = FALSE
      BY <1>5 DEF MutexUnlock, UnlockWait
    <2> QED BY <2>1 DEF DeathShows
  <1>6. CASE WaitEnds
    BY <1>1, <1>2, <1>6 DEF WaitEnds, theMutex
  <1>7. CASE \E b \in BOOLEAN : MutexFiberLeaves(b)
    <2>1. PICK b \in BOOLEAN : MutexFiberLeaves(b)
      BY <1>7
    <2>2. /\ mlocked' = mlocked /\ mowner' = mowner
          /\ mdone' = IF b THEN mdone \cup {Last1.who} ELSE mdone
          /\ died' = (died \/ (b /\ mlocked /\ mowner = Last1.who))
      BY <2>1 DEF MutexFiberLeaves, theMutex
    <2>3. Died => Died'
      BY <2>2 DEF Died
    <2>4. b /\ mlocked /\ mowner = Last1.who => Died'
      BY <2>2 DEF Died
    <2> QED BY <2>2, <2>3, <2>4 DEF DeathShows
  <1>8. CASE UNCHANGED mutexVars
    BY <1>2, <1>8 DEF mutexVars, theMutex
  <1> QED BY <1>3, <1>4, <1>5, <1>6, <1>7, <1>8 DEF MutexNext

(***************************************************************************)
(* A mutex whose owner has died is never locked as if it had been          *)
(* unlocked: the first call to get past ch_mutex_lock is told.             *)
(***************************************************************************)
THEOREM DeathsAreReported == MutexSpec => DeathIsReported
  <1>1. MutexInit => DeathShows
    BY DeathShowsInit
  <1>2. DeathShows /\ [MutexNext]_mutexVars => DeathShows'
    BY DeathShowsStep
  <1>3. DeathShows /\ [MutexNext]_mutexVars
          => [mlocked' /\ (~mlocked \/ mowner' # mowner) => ~died]_mutexVars
    BY DeathShowsStep
  <1> QED BY <1>1, <1>2, <1>3, PTL DEF MutexSpec, DeathIsReported
=============================================================================
