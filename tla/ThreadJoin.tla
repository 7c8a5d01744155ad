------------------------------ MODULE ThreadJoin ------------------------------
(* OS threads as one parent VM sees them (src/src/thread.c): thread-start!,   *)
(* thread-join! with and without a timeout, thread-terminate!, and the join   *)
(* box a thread leaves its outcome in.  The parent runs Main and its fibers   *)
(* on one OS thread: a join that waits dispatches other fibers inside its     *)
(* loop, so the callers form a stack and only the last of them runs.          *)
EXTENDS Integers, Sequences, SequencesExt

CONSTANTS OsThreads,   \* thread objects of the parent, made by make-thread
          JoinFibers,  \* fibers of the parent
          MaxJoinCalls \* bound: thread procedures called in one run

ASSUME ThreadJoinAssumption == MaxJoinCalls \in Nat

VARIABLES os,      \* ChFiber.os_state
          term,    \* ChFiber.terminated
          box,     \* the join box, ChFiber.os_join
          child,   \* the OS thread itself
          callers, \* the callers nested on the parent's C stack
          over,    \* fibers that have returned
          calls,   \* thread procedures called so far
          reaped,  \* pthread_join calls and child heaps freed, by thread
          got      \* what the joins of each thread have answered

joinVars == <<os, term, box, child, callers, over, calls, reaped, got>>

NoBox  == [made |-> FALSE, finished |-> FALSE, failed |-> FALSE, vm |-> FALSE,
           tid |-> FALSE]
NewBox == [NoBox EXCEPT !.made = TRUE, !.vm = TRUE, !.tid = TRUE]

Running(f) == [who |-> f, on |-> "none", timed |-> FALSE, at |-> "run"]

JoinInit ==
    /\ os = [t \in OsThreads |-> "created"]
    /\ term = [t \in OsThreads |-> FALSE]
    /\ box = [t \in OsThreads |-> NoBox]
    /\ child = [t \in OsThreads |-> "none"]
    /\ callers = <<Running("Main")>>
    /\ over = {} /\ calls = 0
    /\ reaped = [t \in OsThreads |-> [joins |-> 0, frees |-> 0]]
    /\ got = [t \in OsThreads |-> <<>>]

Caller == Last(callers)
Idle == Caller.on = "none"
CallOnce == calls < MaxJoinCalls /\ calls' = calls + 1

\* The last caller goes on with c.
Becomes(c) == callers' = Append(Front(callers), c)
Answer(t, out) == got' = [got EXCEPT ![t] = Append(@, out)]

-----------------------------------------------------------------------------
\* ch_thread_start; a failed copy or pthread_create leaves everything as it was.
ThreadStart(t) ==
    /\ Idle /\ CallOnce
    /\ os[t] = "created"
    /\ os' = [os EXCEPT ![t] = "running"]
    /\ box' = [box EXCEPT ![t] = NewBox]
    /\ child' = [child EXCEPT ![t] = "running"]
    /\ UNCHANGED <<term, callers, over, reaped, got>>

\* The end of thread_entry under box->mu, and the return that follows it.
ThreadFinish(t, failed) ==
    /\ child[t] = "running"
    /\ child' = [child EXCEPT ![t] = "finished"]
    /\ box' = [box EXCEPT ![t].finished = TRUE, ![t].failed = failed]
    /\ UNCHANGED <<os, term, callers, over, calls, reaped, got>>

ThreadExit(t) ==
    /\ child[t] = "finished"
    /\ child' = [child EXCEPT ![t] = "exited"]
    /\ UNCHANGED <<os, term, box, callers, over, calls, reaped, got>>

\* ch_thread_terminate: a running thread runs on.
ThreadTerminate(t) ==
    /\ Idle /\ CallOnce
    /\ term' = [term EXCEPT ![t] = TRUE]
    /\ os' = IF os[t] = "created" THEN [os EXCEPT ![t] = "failed"] ELSE os
    /\ UNCHANGED <<box, child, callers, over, reaped, got>>

-----------------------------------------------------------------------------
\* ch_thread_join and ch_thread_join_timeout up to the loop.  A thread that was
\* never started has no join box; ch_thread_terminate has taken it out of the
\* state in which its termination would be answered.
JoinRefused(t, timed) ==
    /\ Idle /\ CallOnce
    /\ \/ os[t] = "created"
          /\ Answer(t, IF term[t] THEN "terminated"
                       ELSE IF timed THEN "timeout" ELSE "not started")
       \/ os[t] # "created" /\ ~box[t].made /\ Answer(t, "missing join state")
    /\ UNCHANGED <<os, term, box, child, callers, over, reaped>>

Join(t, timed) ==
    /\ Idle /\ CallOnce
    /\ os[t] # "created" /\ box[t].made
    /\ Becomes([Caller EXCEPT !.on = t, !.timed = timed, !.at = "check"])
    /\ UNCHANGED <<os, term, box, child, over, reaped, got>>

\* The thread has not finished: ch_fiber_drive dispatches fiber f, or none.
JoinDrive ==
    /\ ~Idle /\ Caller.at = "check" /\ ~box[Caller.on].finished
    /\ LET waiting == Append(Front(callers), [Caller EXCEPT !.at = "drove"])
       IN \/ callers' = waiting
          \/ \E f \in JoinFibers \ (over \cup {callers[i].who : i \in 1..Len(callers)}) :
               callers' = Append(waiting, Running(f))
    /\ UNCHANGED <<os, term, box, child, over, calls, reaped, got>>

\* A dispatched fiber parks, or returns.
FiberLeaves(returns) ==
    /\ Idle /\ Caller.who # "Main"
    /\ callers' = Front(callers)
    /\ over' = IF returns THEN over \cup {Caller.who} ELSE over
    /\ UNCHANGED <<os, term, box, child, calls, reaped, got>>

\* After the drive the deadline is looked at before the box.
JoinTimeout ==
    /\ ~Idle /\ Caller.at = "drove" /\ Caller.timed
    /\ Answer(Caller.on, "timeout")
    /\ Becomes(Running(Caller.who))
    /\ UNCHANGED <<os, term, box, child, over, calls, reaped>>

\* Slip: the loop goes on without a look at the box.
JoinWait_NoCheck ==
    /\ ~Idle /\ Caller.at = "drove"
    /\ UNCHANGED joinVars

JoinWait ==
    /\ ~Idle /\ Caller.at = "drove"
    /\ Becomes([Caller EXCEPT !.at = "check"])
    /\ UNCHANGED <<os, term, box, child, over, calls, reaped, got>>

\* thread_join_finish: the thread is reaped by the first join that sees it
\* finished; the child's heap goes with whatever that join answers.
Outcome(t, copied) ==
    CASE term[t]                              -> "terminated"
      [] ~term[t] /\ box[t].failed            -> "error"
      [] ~term[t] /\ ~box[t].failed /\ ~box[t].vm -> "void"
      [] OTHER -> IF copied THEN "value" ELSE "copy failed"

\* Slip: the child's heap stays in the box.
Reap_VmKept(t) ==
    /\ box[t].tid => child[t] = "exited"
    /\ reaped' = [reaped EXCEPT ![t].joins = @ + (IF box[t].tid THEN 1 ELSE 0),
                                ![t].frees = @ + (IF box[t].vm THEN 1 ELSE 0)]
    /\ box' = [box EXCEPT ![t].tid = FALSE]

\* Slip: the thread is not waited for.
Reap_NoWait(t) ==
    /\ reaped' = [reaped EXCEPT ![t].joins = @ + (IF box[t].tid THEN 1 ELSE 0),
                                ![t].frees = @ + (IF box[t].vm THEN 1 ELSE 0)]
    /\ box' = [box EXCEPT ![t].tid = FALSE, ![t].vm = FALSE]

Reap(t) ==
    /\ box[t].tid => child[t] = "exited"
    /\ reaped' = [reaped EXCEPT ![t].joins = @ + (IF box[t].tid THEN 1 ELSE 0),
                                ![t].frees = @ + (IF box[t].vm THEN 1 ELSE 0)]
    /\ box' = [box EXCEPT ![t].tid = FALSE, ![t].vm = FALSE]

JoinFinish(copied) ==
    /\ ~Idle /\ Caller.at = "check" /\ box[Caller.on].finished
    /\ LET t == Caller.on
           out == Outcome(t, copied)
       IN /\ Reap(t)
          /\ Answer(t, out)
          /\ os' = [os EXCEPT ![t] = CASE out = "error" -> "failed"
                                       [] out = "copy failed" -> os[t]
                                       [] OTHER -> "done"]
    /\ Becomes(Running(Caller.who))
    /\ UNCHANGED <<term, child, over, calls>>

JoinNext ==
    \/ \E t \in OsThreads :
         \/ ThreadStart(t) \/ ThreadExit(t) \/ ThreadTerminate(t)
         \/ \E b \in BOOLEAN : ThreadFinish(t, b) \/ JoinRefused(t, b) \/ Join(t, b)
    \/ JoinDrive \/ JoinTimeout \/ JoinWait
    \/ \E b \in BOOLEAN : FiberLeaves(b) \/ JoinFinish(b)

\* OsThreads come to an end, the loop of a join goes on, and a dispatched fiber
\* that is not waiting parks or returns.
JoinFairness ==
    /\ \A t \in OsThreads : /\ WF_joinVars(\E b \in BOOLEAN : ThreadFinish(t, b))
                          /\ WF_joinVars(ThreadExit(t))
    /\ WF_joinVars(JoinDrive) /\ WF_joinVars(JoinWait)
    /\ WF_joinVars(\E b \in BOOLEAN : JoinFinish(b))
    /\ WF_joinVars(\E b \in BOOLEAN : FiberLeaves(b))

JoinSpec == JoinInit /\ [][JoinNext]_joinVars /\ JoinFairness

-----------------------------------------------------------------------------
\* A thread is waited for once and its heap freed once, after it has exited,
\* whichever of several nested joins gets there first.
ReapedOnceAfterExit ==
    \A t \in OsThreads :
      /\ reaped[t].joins <= 1 /\ reaped[t].frees <= 1
      /\ reaped[t].frees = 1 => child[t] = "exited"

\* The first join that does not time out takes the outcome of the thread: its
\* value, its error, or its termination; a join that timed out loses nothing.
\* A thread terminated before it was started has no outcome: its joins are told
\* of a missing join state, all of them from the termination on, and no other
\* thread's joins are (that they are not told of the termination is
\* TerminationIsAnswered, below).
Settles(out) == out \notin {"timeout", "not started"}

FirstJoinTakesOutcome ==
    \A t \in OsThreads :
      LET answers == got[t]
      IN \A i \in 1..Len(answers) :
           /\ answers[i] \in {"value", "copy failed"} =>
                ~box[t].failed /\ \A j \in 1..(i - 1) : ~Settles(answers[j])
           /\ answers[i] = "error" => box[t].failed
           /\ answers[i] = "void" =>
                \E j \in 1..(i - 1) : answers[j] \in {"value", "copy failed"}
           /\ answers[i] = "terminated" =>
                \A j \in i..Len(answers) : Settles(answers[j]) => answers[j] = "terminated"
           /\ answers[i] = "missing join state" =>
                /\ term[t] /\ child[t] = "none"
                /\ \A j \in i..Len(answers) : answers[j] = "missing join state"

\* A join returns, however joins nest and whatever the fibers it runs wait for.
JoinReturns ==
    \A f \in JoinFibers \cup {"Main"} :
      (\E i \in 1..Len(callers) : callers[i].who = f /\ callers[i].on # "none")
        ~> ~(\E i \in 1..Len(callers) : callers[i].who = f /\ callers[i].on # "none")

-----------------------------------------------------------------------------
(* What a comment says of the program, and the code does not do.             *)

\* src/src/thread.c, ch_thread_join_timeout: a join of a thread that was never
\* started reports a timeout, or that it was terminated (untimed: that it has
\* not been started).
TerminationIsAnswered ==
    \A t \in OsThreads : \A i \in 1..Len(got[t]) :
      child[t] = "none" => got[t][i] \in {"not started", "timeout", "terminated"}
=============================================================================
