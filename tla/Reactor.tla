------------------------------- MODULE Reactor -------------------------------
(* The reactor of one OS thread (src/src/reactor.c): timers in a fixed array  *)
(* of slots under an indexed binary heap, descriptors in a fixed array over   *)
(* epoll's one-shot registrations, and fiber-wait-fd (src/src/fiber.c), whose *)
(* calls nest on the C stack.  Positions in the heap count from 1.            *)
EXTENDS Integers, Sequences, SequencesExt, FiniteSets, Iteration

CONSTANTS MaxTimers, \* CH_REACTOR_MAX_TIMERS
          MaxFds,    \* CH_REACTOR_MAX_FDS
          Fds,       \* descriptors of the program
          Horizon,   \* bound: the clock, and UINT64_MAX as a due time
          MaxIds     \* bound: timers scheduled in one run

ASSUME ReactorAssumption == {MaxTimers, MaxFds, Horizon, MaxIds} \subseteq Nat \ {0} /\ "none" \notin Fds

VARIABLES timers,  \* reactor->timers: NoTimer or the due time, by slot
          heap,    \* reactor->heap up to heap_size
          heapPos, \* reactor->heap_pos; 0 is SIZE_MAX
          nextId,  \* reactor->next_id: timers scheduled so far
          clock,
          fds,     \* reactor->fds: the descriptor of each entry, or NoFd
          armed,   \* descriptors armed in the epoll instance
          ready,   \* descriptors that can be read
          waits,   \* descriptors of the nested fiber-wait-fd calls
          crossed  \* ghost: an event went to the wrong wait, or met two waits

reactorVars == <<timers, heap, heapPos, nextId, clock, fds, armed, ready, waits, crossed>>
timerVars == <<timers, heap, heapPos, nextId>>
fdVars == <<fds, armed, ready, waits, crossed>>

NoTimer == -1
NoFd == "none"
Slots == 1..MaxTimers
Entries == 1..MaxFds

ReactorInit ==
    /\ timers = [s \in Slots |-> NoTimer] /\ heap = <<>>
    /\ heapPos = [s \in Slots |-> 0] /\ nextId = 0 /\ clock = 0
    /\ fds = [i \in Entries |-> NoFd] /\ armed = {} /\ ready = {}
    /\ waits = <<>> /\ crossed = FALSE

-----------------------------------------------------------------------------
\* A heap is h, the slots in order, and p, the position of each slot.
Swap(hp, i, j) ==
    [h |-> [hp.h EXCEPT ![i] = hp.h[j], ![j] = hp.h[i]],
     p |-> [hp.p EXCEPT ![hp.h[j]] = i, ![hp.h[i]] = j]]

\* A heap with the position to sift from.
Sifts == {st \in [hp : [h : Seq(Slots), p : [Slots -> Nat]], i : Nat] :
            st.i \in 1..Len(st.hp.h)}

\* A round of heap_sift_up, for due times due.
UpOnce(due) ==
    [st \in Sifts |->
       LET parent == st.i \div 2
       IN IF st.i = 1 \/ due[st.hp.h[parent]] <= due[st.hp.h[st.i]] THEN st
          ELSE [hp |-> Swap(st.hp, parent, st.i), i |-> parent]]

\* The least of the position k and its children.
Smallest(h, k, due) ==
    LET Less(a, b) == a <= Len(h) /\ due[h[a]] < due[h[b]]
        l == IF Less(2 * k, k) THEN 2 * k ELSE k
    IN IF Less(2 * k + 1, l) THEN 2 * k + 1 ELSE l

\* A round of heap_sift_down.
DownOnce(due) ==
    [st \in Sifts |->
       LET k == Smallest(st.hp.h, st.i, due)
       IN IF k = st.i THEN st ELSE [hp |-> Swap(st.hp, st.i, k), i |-> k]]

\* heap_sift_up and heap_sift_down of the slot at position i.
SiftUp(hp, i, due) == Iterate(UpOnce(due), [hp |-> hp, i |-> i], Len(hp.h)).hp
SiftDown(hp, i, due) == Iterate(DownOnce(due), [hp |-> hp, i |-> i], Len(hp.h)).hp

HeapPush(slot, due) ==
    LET hp == [h |-> Append(heap, slot), p |-> [heapPos EXCEPT ![slot] = Len(heap) + 1]]
    IN SiftUp(hp, Len(hp.h), due)

\* Slip: the slot moved into the gap only goes down.
HeapRemove_DownOnly(slot) ==
    LET pos == heapPos[slot]
        hp == Swap([h |-> heap, p |-> heapPos], pos, Len(heap))
        cut == [h |-> Front(hp.h), p |-> [hp.p EXCEPT ![slot] = 0]]
    IN IF pos > Len(cut.h) THEN cut ELSE SiftDown(cut, pos, timers)

\* heap_remove_slot: the last slot fills the gap and goes down, or up.
HeapRemove(slot) ==
    LET pos == heapPos[slot]
        hp == Swap([h |-> heap, p |-> heapPos], pos, Len(heap))
        cut == [h |-> Front(hp.h), p |-> [hp.p EXCEPT ![slot] = 0]]
    IN IF pos > Len(cut.h) THEN cut
       ELSE SiftUp(SiftDown(cut, pos, timers), pos, timers)

-----------------------------------------------------------------------------
\* ch_reactor_schedule: the first free slot, a due time that saturates.
Schedule(delay) ==
    /\ nextId < MaxIds /\ nextId' = nextId + 1
    /\ \E s \in Slots : timers[s] = NoTimer
    /\ LET s == CHOOSE i \in Slots : timers[i] = NoTimer /\ \A j \in 1..(i - 1) : timers[j] # NoTimer
           due == IF delay > Horizon - clock THEN Horizon ELSE clock + delay
           hp == HeapPush(s, [timers EXCEPT ![s] = due])
       IN /\ timers' = [timers EXCEPT ![s] = due]
          /\ heap' = hp.h /\ heapPos' = hp.p
    /\ UNCHANGED <<clock, fdVars>>

\* Both ch_reactor_cancel and the delivery of a timer take it out.
Drop(s) == /\ heap' = HeapRemove(s).h /\ heapPos' = HeapRemove(s).p
           /\ timers' = [timers EXCEPT ![s] = NoTimer]

Cancel(s) == timers[s] # NoTimer /\ Drop(s) /\ UNCHANGED <<nextId, clock, fdVars>>

Due == heap # <<>> /\ timers[Head(heap)] <= clock

\* ch_reactor_poll looks at the timers first.
PollTimer ==
    /\ Due
    /\ Drop(Head(heap))
    /\ UNCHANGED <<nextId, clock, fdVars>>

Tick == clock < Horizon /\ clock' = clock + 1 /\ UNCHANGED <<timerVars, fdVars>>

-----------------------------------------------------------------------------
EntryOf(fd) == CHOOSE i \in Entries : fds[i] = fd /\ \A j \in 1..(i - 1) : fds[j] # fd

\* fiber-wait-fd registers and waits; inside its loop it drives fibers that may
\* call it again.
WaitFd(fd) ==
    /\ \E i \in Entries : fds[i] = NoFd
    /\ fds' = [fds EXCEPT ![EntryOf(NoFd)] = fd]
    /\ armed' = armed \cup {fd}
    /\ waits' = Append(waits, fd)
    /\ crossed' = (crossed \/ \E i \in Entries : fds[i] = fd)
    /\ UNCHANGED <<timerVars, clock, ready>>

FdReady(fd) == fd \notin ready /\ ready' = ready \cup {fd}
               /\ UNCHANGED <<timerVars, clock, fds, armed, waits, crossed>>

\* Slip: the entry stays although its registration is spent.
Spent_Kept(fd) == fds

\* The entry an event of fd is delivered to is free again.
Spent(fd) == IF \E i \in Entries : fds[i] = fd
             THEN [fds EXCEPT ![EntryOf(fd)] = NoFd] ELSE fds

\* poll_fds: the event is spent, the first entry with its descriptor is freed,
\* and the innermost wait returns, for every entry has the same payload.
PollFd(fd) ==
    /\ ~Due /\ waits # <<>>
    /\ fd \in ready \cap armed
    /\ armed' = armed \ {fd} /\ ready' = ready \ {fd}
    /\ fds' = Spent(fd)
    /\ IF \E i \in Entries : fds[i] = fd
       THEN waits' = Front(waits) /\ crossed' = (crossed \/ Last(waits) # fd)
       ELSE UNCHANGED <<waits, crossed>>
    /\ UNCHANGED <<timerVars, clock>>

\* ch_reactor_unregister_fd by a wait whose dispatch failed.
WaitFails ==
    /\ waits # <<>>
    /\ LET fd == Last(waits)
       IN /\ fds' = Spent(fd)
          /\ armed' = IF \E i \in Entries : fds[i] = fd THEN armed \ {fd} ELSE armed
    /\ waits' = Front(waits)
    /\ UNCHANGED <<timerVars, clock, ready, crossed>>

TimerNext ==
    \/ \E d \in 0..Horizon : Schedule(d)
    \/ \E s \in Slots : Cancel(s)
    \/ PollTimer \/ Tick

FdNext == WaitFails \/ \E fd \in Fds : WaitFd(fd) \/ FdReady(fd) \/ PollFd(fd)

ReactorNext == TimerNext \/ FdNext

ReactorSpec == ReactorInit /\ [][ReactorNext]_reactorVars

-----------------------------------------------------------------------------
\* Timers fire in the order of their due times and none is lost: the heap holds
\* the active slots, each where heap_pos says, and no slot before its parent.
HeapIsQueue ==
    /\ ToSet(heap) = {s \in Slots : timers[s] # NoTimer}
    /\ \A i \in 1..Len(heap) :
         /\ heapPos[heap[i]] = i
         /\ i > 1 => timers[heap[i \div 2]] <= timers[heap[i]]

\* Unless two waits met on one descriptor or an event went to another's wait,
\* every descriptor waited for has its one entry and is armed, and no other is.
WaitsAreArmed ==
    ~crossed => /\ armed = ToSet(waits)
                /\ \A fd \in Fds : Cardinality({i \in Entries : fds[i] = fd})
                                     = Cardinality({i \in 1..Len(waits) : waits[i] = fd})
=============================================================================
