------------------------------ MODULE MCThreads ------------------------------
(* The instances of the run Threads: what OS threads and their parent share.  *)
(* The three parts have no variable in common; a behaviour is about the one   *)
(* its subject names, and the others rest in their first state.               *)
EXTENDS MCSharedChannel, ThreadJoin, FiberMutex

VARIABLE subject

ThreadsVars == <<subject, vars, joinVars, mutexVars>>

ThreadsInit ==
    subject \in {"rendezvous", "join", "mutex"} /\ Init /\ JoinInit /\ MutexInit

ThreadsNext ==
    /\ UNCHANGED subject
    /\ \/ subject = "rendezvous" /\ Next /\ UNCHANGED <<joinVars, mutexVars>>
       \/ subject = "join"  /\ JoinNext  /\ UNCHANGED <<vars, mutexVars>>
       \/ subject = "mutex" /\ MutexNext /\ UNCHANGED <<vars, joinVars>>

ThreadsSpec ==
    ThreadsInit /\ [][ThreadsNext]_ThreadsVars /\ JoinFairness /\ MutexFairness
=============================================================================
