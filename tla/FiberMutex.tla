------------------------------ MODULE FiberMutex ------------------------------
(* One mutex and one condition variable among Main and the fibers of a VM     *)
(* (src/src/thread.c).  All of them run on one OS thread: mutex-unlock! with  *)
(* a condition variable drives other fibers inside its loop, so the callers   *)
(* form a stack; a fiber that finds the mutex locked parks in ch_fiber_sleep, *)
(* and Main sleeps without driving.  The owner is the thread object of the VM *)
(* unless the caller names a fiber as the owner.                              *)
EXTENDS Integers, Sequences, SequencesExt

CONSTANTS MutexFibers,  \* fibers of the VM
          MaxMutexCalls \* bound: calls of the primitives in one run

ASSUME FiberMutexAssumption == MaxMutexCalls \in Nat /\ "Main" \notin MutexFibers

VARIABLES mlocked,   \* ChMutex.locked
          mowner,    \* ChMutex.owner: "vm", a fiber, or "none"
          mgen,      \* ChCondvar.signal_generation
          mstack,    \* the callers nested on the C stack; the last one runs
          mdone,     \* fibers that have returned
          mcalls,    \* primitives called so far
          died,      \* ghost: the owner died with the mutex locked, unreported
          signals    \* ghost: the waiters signalled since they unlocked

mutexVars == <<mlocked, mowner, mgen, mstack, mdone, mcalls, died, signals>>
theMutex == <<mlocked, mowner>>

Runs(f) == [who |-> f, at |-> "run", gen |-> 0, timed |-> FALSE]

MutexInit ==
    /\ mlocked = FALSE /\ mowner = "none"
    /\ mgen = 0 /\ mstack = <<Runs("Main")>> /\ mdone = {} /\ mcalls = 0
    /\ died = FALSE /\ signals = {}

Last1 == Last(mstack)
MRunning == Last1.at = "run"
MSpend == mcalls < MaxMutexCalls /\ mcalls' = mcalls + 1
MBecomes(c) == mstack' = Append(Front(mstack), c)

\* What ch_mutex_lock finds: an owner that is DONE or FAILED.
Died == mlocked /\ mowner \in mdone

\* One pass of the loop of ch_mutex_lock that ends it: the error (abandoned is
\* set and cleared in the same pass), or the lock.
LockAbandoned ==
    /\ Died
    /\ mlocked' = FALSE /\ mowner' = "none"
    /\ died' = FALSE

\* Slip: the mutex of a dead owner counts as unlocked.
LockTaken_FromDead(owner) ==
    /\ Died \/ ~mlocked
    /\ mlocked' = TRUE /\ mowner' = owner
    /\ UNCHANGED died

LockTaken(owner) ==
    /\ ~Died /\ ~mlocked
    /\ mlocked' = TRUE /\ mowner' = owner
    /\ UNCHANGED died

Contended == ~Died /\ mlocked

-----------------------------------------------------------------------------
\* mutex-lock! by a caller that runs; owner is the thread object or a fiber.
MutexLock(owner) ==
    /\ MRunning /\ MSpend
    /\ LockAbandoned \/ LockTaken(owner)
    /\ UNCHANGED <<mgen, mstack, mdone, signals>>

\* A contended lock with timeout zero, or whose time is up.
MutexLockTimeout ==
    /\ MRunning /\ MSpend /\ Contended
    /\ UNCHANGED <<theMutex, mgen, mstack, mdone, died, signals>>

\* A fiber that finds the mutex locked parks; its resume returns from the call
\* (see MutexDispatch).  Main sleeps for good.
MutexLockParks ==
    /\ MRunning /\ MSpend /\ Contended
    /\ IF Last1.who = "Main"
       THEN MBecomes([Last1 EXCEPT !.at = "hung"])
       ELSE mstack' = Front(mstack)
    /\ UNCHANGED <<theMutex, mgen, mdone, died, signals>>

MutexUnlock ==
    /\ MRunning /\ MSpend /\ mlocked
    /\ mlocked' = FALSE /\ mowner' = "none" /\ died' = FALSE
    /\ UNCHANGED <<mgen, mstack, mdone, signals>>

CondvarSignal ==
    /\ MRunning /\ MSpend
    /\ mgen' = mgen + 1
    /\ signals' = {mstack[i].who : i \in {j \in 1..Len(mstack) : mstack[j].at # "run"}}
    /\ UNCHANGED <<theMutex, mstack, mdone, died>>

-----------------------------------------------------------------------------
\* ch_mutex_unlock_wait up to its loop.
UnlockWait(timed) ==
    /\ MRunning /\ MSpend /\ mlocked
    /\ mlocked' = FALSE /\ mowner' = "none" /\ died' = FALSE
    /\ MBecomes([Last1 EXCEPT !.at = "wait", !.gen = mgen, !.timed = timed])
    /\ signals' = signals \ {Last1.who}
    /\ UNCHANGED <<mgen, mdone>>

Drivable == MutexFibers \ (mdone \cup {mstack[i].who : i \in 1..Len(mstack)})

\* The loop sleeps, then drives one fiber or none; a yield or a join of Main
\* dispatches in the same way.
MutexDispatch ==
    /\ Last1.at = "wait" => Last1.gen = mgen
    /\ MRunning => Last1.who = "Main"
    /\ Last1.at \in {"run", "wait"}
    /\ \E f \in Drivable : mstack' = Append(mstack, Runs(f))
    /\ UNCHANGED <<theMutex, mgen, mdone, mcalls, died, signals>>

\* A dispatched fiber parks or returns.
MutexFiberLeaves(returns) ==
    /\ MRunning /\ Last1.who # "Main"
    /\ mstack' = Front(mstack)
    /\ mdone' = IF returns THEN mdone \cup {Last1.who} ELSE mdone
    /\ died' = (died \/ (returns /\ mlocked /\ mowner = Last1.who))
    /\ UNCHANGED <<theMutex, mgen, mcalls, signals>>

\* Slip: the waiter compares with the generation before the last.
WaitOver_Late == Last1.gen + 1 < mgen

WaitOver == Last1.gen # mgen

\* The generation moved or the time is up: ch_mutex_lock without a timeout.
WaitEnds ==
    /\ Last1.at = "wait"
    /\ WaitOver \/ Last1.timed
    /\ \/ LockAbandoned /\ MBecomes(Runs(Last1.who))
       \/ LockTaken("vm") /\ MBecomes(Runs(Last1.who))
       \/ /\ Contended
          /\ IF Last1.who = "Main" THEN MBecomes([Last1 EXCEPT !.at = "hung"])
             ELSE mstack' = Front(mstack)
          /\ UNCHANGED <<theMutex, died>>
    /\ signals' = signals \ {Last1.who}
    /\ UNCHANGED <<mgen, mdone, mcalls>>

MutexNext ==
    \/ \E owner \in {"vm"} \cup MutexFibers : MutexLock(owner)
    \/ MutexLockTimeout \/ MutexLockParks \/ MutexUnlock \/ CondvarSignal
    \/ MutexDispatch \/ WaitEnds
    \/ \E b \in BOOLEAN : UnlockWait(b) \/ MutexFiberLeaves(b)

\* The loop of a wait goes on, and a dispatched fiber parks or returns.
MutexFairness == /\ WF_mutexVars(WaitEnds)
                 /\ WF_mutexVars(\E b \in BOOLEAN : MutexFiberLeaves(b))

MutexSpec == MutexInit /\ [][MutexNext]_mutexVars /\ MutexFairness

-----------------------------------------------------------------------------
\* When a fiber ends with the mutex locked in its name, the next call that gets
\* past the lock is told so: nobody locks it as if it had been unlocked.
DeathIsReported ==
    [][mlocked' /\ (~mlocked \/ mowner' # mowner) => ~died]_mutexVars

\* The innermost caller that waits leaves its wait once it has been signalled:
\* no signal falls between the unlock and the wait.  A caller further out waits
\* until the inner ones have returned.
SignalEndsWait ==
    \A f \in MutexFibers \cup {"Main"} :
      (Last1.who = f /\ f \in signals) ~> f \notin signals
=============================================================================
