---------------------------- MODULE MCFiberSched ----------------------------
(***************************************************************************)
(* Small instances of FiberSched for TLC.                                  *)
(***************************************************************************)
EXTENDS FiberSched, TLC

Symmetry == Permutations(Fibers)

\* every channel buffers one message
OneSlot == [c \in Channels |-> 1]
\* (make-channel 0) and (make-channel) both have capacity 0
NoCapacity == [c \in Channels |-> 0]

AllOps == {"spawn", "send", "recv", "close", "sleep", "yield", "join", "timed",
           "terminate"}
JoinOps == {"spawn", "send", "recv", "sleep", "join"}
PairOps == {"spawn", "send", "recv", "join"}
CloseOps == {"spawn", "recv", "close", "join", "yield"}
TerminateOps == {"spawn", "send", "recv", "terminate", "yield", "join"}

-----------------------------------------------------------------------------
(* What the documentation says of the program, and the code does not do.   *)

\* tests/.../fiber-channel-rendezvous.scm: whichever side arrives first waits,
\* so nobody is told of a deadlock while a sender and a receiver are parked
\* on the same open rendezvous channel.
RendezvousPairs ==
  [][outcome # "deadlock" /\ outcome' = "deadlock" =>
       ~ \E f, g \in Fibers, c \in Rendezvous :
           /\ f \in Elems(sendWaiters[c]) /\ state[f] = "WAITING"
           /\ g \in Elems(recvWaiters[c]) /\ state[g] = "WAITING"
           /\ ~closed[c]]_vars

\* tests/.../fiber-channel-receive-waits-out-peer-sleep.scm: a channel
\* operation of Main must not report that nothing is runnable while a peer
\* is ready or in a timed sleep.
NotRunnableVerdictSound ==
  [][outcome # "not runnable" /\ outcome' = "not runnable" =>
       \A f \in Fibers : state[f] # "READY" /\ f \notin timers]_vars

\* tests/.../fiber-many-waiters-one-object-1530.scm: no lost wakeup regardless
\* of how many wait: a fiber that was woken is in the ready ring.
NoLostWakeup == \A f \in Fibers : state[f] = "READY" => f \in Elems(ready)
=============================================================================
