----------------------------- MODULE ChannelSpec -----------------------------
(***************************************************************************)
(* What a local channel promises to the code that uses it: a closable      *)
(* FIFO queue of messages.  A send that cannot complete is an offer that   *)
(* stays until the queue accepts it; an offer is refused only when the     *)
(* channel is closed, unless its sender is one that may give up.  Messages *)
(* leave in the order they were accepted, and the eof object is received   *)
(* only when the channel is closed and drained.                            *)
(***************************************************************************)
EXTENDS Naturals, Sequences

CONSTANTS Channels, Messages, Eof,
          Bound(_),     \* how many messages a channel holds, 0 is no bound
          Impatient     \* the messages whose sender may give up

VARIABLES queue, closed, offered, delivered

vars == <<queue, closed, offered, delivered>>

Init ==
  /\ queue = [c \in Channels |-> <<>>]
  /\ closed = [c \in Channels |-> FALSE]
  /\ offered = {}
  /\ delivered = [c \in Channels |-> <<>>]

Room(c) == ~closed[c] /\ (Bound(c) = 0 \/ Len(queue[c]) < Bound(c))

\* Nothing known of m yet.
Fresh(m) ==
  \A c \in Channels :
    /\ <<c, m>> \notin offered
    /\ \A i \in DOMAIN queue[c] : queue[c][i] # m
    /\ \A i \in DOMAIN delivered[c] : delivered[c][i] # m

Enter(c, m) == queue' = [queue EXCEPT ![c] = Append(@, m)]

Send(c, m) ==
  /\ Fresh(m) /\ Room(c)
  /\ Enter(c, m)
  /\ UNCHANGED <<closed, offered, delivered>>

Offer(c, m) ==
  /\ Fresh(m)
  /\ offered' = offered \cup {<<c, m>>}
  /\ UNCHANGED <<queue, closed, delivered>>

Accept(c, m) ==
  /\ <<c, m>> \in offered /\ Room(c)
  /\ Enter(c, m)
  /\ offered' = offered \ {<<c, m>>}
  /\ UNCHANGED <<closed, delivered>>

Refuse(c, m) ==
  /\ <<c, m>> \in offered
  /\ closed[c] \/ m \in Impatient
  /\ offered' = offered \ {<<c, m>>}
  /\ UNCHANGED <<queue, closed, delivered>>

Receive(c) ==
  /\ queue[c] # <<>>
  /\ queue' = [queue EXCEPT ![c] = Tail(@)]
  /\ delivered' = [delivered EXCEPT ![c] = Append(@, Head(queue[c]))]
  /\ UNCHANGED <<closed, offered>>

ReceiveEof(c) ==
  /\ closed[c] /\ queue[c] = <<>>
  /\ delivered' = [delivered EXCEPT ![c] = Append(@, Eof)]
  /\ UNCHANGED <<queue, closed, offered>>

Close(c) ==
  /\ closed' = [closed EXCEPT ![c] = TRUE]
  /\ UNCHANGED <<queue, offered, delivered>>

Next ==
  \E c \in Channels :
    \/ \E m \in Messages : Send(c, m) \/ Offer(c, m) \/ Accept(c, m) \/ Refuse(c, m)
    \/ Receive(c) \/ ReceiveEof(c) \/ Close(c)

Spec == Init /\ [][Next]_vars
=============================================================================
