--------------------------- MODULE MCSharedChannel ---------------------------
(***************************************************************************)
(* Small instances of SharedChannel for TLC.                               *)
(***************************************************************************)
EXTENDS SharedChannel, TLC

CONSTANTS t1, t2, t3

OneSlotOrNone == [c \in Channels |-> IF c \in Rendezvous THEN 0 ELSE 1]
NoCapacity == [c \in Channels |-> 0]

\* All threads share each channel; or there is one channel, a buffered one that
\* all share or a rendezvous channel of two threads.
ByAll == {[c \in Channels |-> Threads]}
OneChannel ==
  {[c \in Channels |-> IF c = d THEN Threads ELSE {}] : d \in Channels \ Rendezvous}
  \cup UNION {{[c \in Channels |-> IF c = d THEN {t1, t} ELSE {}] : t \in {t2, t3}}
                : d \in Rendezvous}

\* a plain thread, one that runs fibers, and one that uses timeouts too
OneWayEach == (t1 :> {"block"}) @@ (t2 :> {"fiber"}) @@ (t3 :> {"block", "timed"})
AllBlock == [t \in Threads |-> {"block"}]
BlockOrTimed == (t1 :> {"block"}) @@ (t2 :> {"block"}) @@ (t3 :> {"block", "timed"})
TwiceT2 == (t1 :> 1) @@ (t2 :> 2) @@ (t3 :> 1)
TwiceT1T2 == (t1 :> 2) @@ (t2 :> 2) @@ (t3 :> 1)
LastOfT2 == {<<t2, 1>>}
Once == [t \in Threads |-> 1]

-----------------------------------------------------------------------------
(* What the header says of rv_demand, and the code does not do.            *)

\* include/chaaya/shared_channel.h: rv_demand is the receivers committed to
\* wait.  So while one waits on an open, empty channel, a send may go through.
CommittedReceiversAdmit ==
  \A c \in Rendezvous :
    (\E t \in holding : pc[t] = "wait" /\ InCall(t, c)) /\ ~closed[c] /\ queue[c] = <<>>
      => rvDemand[c] > 0
=============================================================================
