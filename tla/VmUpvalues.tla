------------------------------ MODULE VmUpvalues ------------------------------
(* Captured variables of the register machine (src/src/vm.c): a closure that  *)
(* captures a local of a live frame holds an upvalue that points into the     *)
(* register file; the upvalue is closed, with a value of its own, when the    *)
(* frame is left.  The open upvalues are one list, highest register first.    *)
(* A frame has one local and one register for the call it makes, where the    *)
(* callee's frame begins, so frame i begins at register i.                    *)
EXTENDS Integers, Sequences, SequencesExt

CONSTANTS Vals,      \* values of variables
          MaxDepth,  \* bound: frames
          MaxActivs,  \* bound: activations in one run
          UvFuel     \* bound: assignments, captures and continuations in one run

ASSUME VmUpvaluesAssumption == {MaxDepth, MaxActivs, UvFuel} \subseteq Nat \ {0}

VARIABLES regs,    \* vm->regs
          calls,   \* vm->frames: the activation each frame belongs to
          uvs,     \* the upvalues made so far
          open,    \* vm->open_upvalues
          kont,    \* a full continuation
          made,    \* activations made so far
          uvFuel,
          cell,    \* ghost: what was last assigned to each captured variable
          uvStray  \* ghost: a re-entry the list order or the copy does not survive

uvVars == <<regs, calls, uvs, open, kont, made, uvFuel, cell, uvStray>>

NoKont == [regs |-> <<>>, calls |-> <<>>, open |-> <<>>, set |-> FALSE]

UvInit == /\ regs \in [1..(MaxDepth + 1) -> Vals]
          /\ \A i \in 1..(MaxDepth + 1) : regs[i] = regs[1]
          /\ calls = <<1>> /\ uvs = <<>> /\ open = <<>> /\ kont = NoKont
          /\ made = 1 /\ uvFuel = UvFuel /\ cell = [a \in 1..MaxActivs |-> regs[1]]
          /\ uvStray = FALSE

Depth == Len(calls)
Loc(u) == uvs[u].at
Value(u) == IF uvs[u].at = 0 THEN uvs[u].val ELSE regs[uvs[u].at]
Captured(a) == \E u \in 1..Len(uvs) : uvs[u].of = a
UvSpend == uvFuel > 0 /\ uvFuel' = uvFuel - 1

-----------------------------------------------------------------------------
\* Slip: the variable in the first register of the frame is left open.
Closing_Above(last) ==
    CHOOSE n \in 0..Len(open) :
      /\ \A i \in 1..n : Loc(open[i]) > last
      /\ n < Len(open) => Loc(open[n + 1]) <= last

\* How many upvalues at the head of the list close_upvalues(last) takes off.
Closing(last) ==
    CHOOSE n \in 0..Len(open) :
      /\ \A i \in 1..n : Loc(open[i]) >= last
      /\ n < Len(open) => Loc(open[n + 1]) < last

\* us are closed with the values their registers have.
Closed(us) ==
    [u \in 1..Len(uvs) |->
       IF u \in us THEN [uvs[u] EXCEPT !.val = Value(u), !.at = 0] ELSE uvs[u]]

CloseUpvalues(last) ==
    LET n == Closing(last)
    IN /\ uvs' = Closed({open[i] : i \in 1..n})
       /\ open' = SubSeq(open, n + 1, Len(open))

\* capture_upvalue of a register: the open one that is found, or a new one
\* where the search stopped.
Before(reg) ==
    CHOOSE n \in 0..Len(open) :
      /\ \A i \in 1..n : Loc(open[i]) > reg
      /\ n < Len(open) => Loc(open[n + 1]) <= reg

\* CH_OP_CLOSURE over the local of the running frame.
Capture ==
    /\ Depth > 0 /\ UvSpend
    /\ LET reg == Depth
           n == Before(reg)
           a == calls[Depth]
       IN IF n < Len(open) /\ Loc(open[n + 1]) = reg
          THEN UNCHANGED <<uvs, open, cell>>
          ELSE /\ uvs' = Append(uvs, [at |-> reg, val |-> regs[reg], of |-> a])
               /\ open' = InsertAt(open, n + 1, Len(uvs) + 1)
               /\ cell' = IF Captured(a) THEN cell ELSE [cell EXCEPT ![a] = regs[reg]]
    /\ UNCHANGED <<regs, calls, kont, made, uvStray>>

\* A closure call: the frame begins at the caller's call register.
Call(v) ==
    /\ 0 < Depth /\ Depth < MaxDepth /\ made < MaxActivs
    /\ calls' = Append(calls, made + 1) /\ made' = made + 1
    /\ regs' = [regs EXCEPT ![Depth + 1] = v]
    /\ UNCHANGED <<uvs, open, kont, uvFuel, cell, uvStray>>

\* CH_OP_TAIL_CALL: the frame's upvalues are closed, its registers reused.
TailCall(v) ==
    /\ Depth > 0 /\ made < MaxActivs
    /\ CloseUpvalues(Depth)
    /\ calls' = Append(Front(calls), made + 1) /\ made' = made + 1
    /\ regs' = [regs EXCEPT ![Depth] = v]
    /\ UNCHANGED <<kont, uvFuel, cell, uvStray>>

\* CH_OP_RETURN: the result goes where the frame began.
UvReturn(v) ==
    /\ Depth > 0
    /\ CloseUpvalues(Depth)
    /\ calls' = Front(calls)
    /\ regs' = [regs EXCEPT ![Depth] = v]
    /\ UNCHANGED <<kont, made, uvFuel, cell, uvStray>>

\* set! of a local by its own frame, and CH_OP_SET_UPVALUE by any closure.
SetLocal(v) ==
    /\ Depth > 0 /\ UvSpend
    /\ regs' = [regs EXCEPT ![Depth] = v]
    /\ cell' = [cell EXCEPT ![calls[Depth]] = v]
    /\ UNCHANGED <<calls, uvs, open, kont, made, uvStray>>

SetUpvalue(u, v) ==
    /\ Depth > 0 /\ UvSpend
    /\ IF Loc(u) = 0
       THEN uvs' = [uvs EXCEPT ![u].val = v] /\ UNCHANGED regs
       ELSE regs' = [regs EXCEPT ![Loc(u)] = v] /\ UNCHANGED uvs
    /\ cell' = [cell EXCEPT ![uvs[u].of] = v]
    /\ UNCHANGED <<calls, open, kont, made, uvStray>>

-----------------------------------------------------------------------------
\* ch_vm_capture_continuation, called by the running frame.
UvCallCC ==
    /\ Depth > 0 /\ UvSpend
    /\ kont' = [regs |-> regs, calls |-> calls, set |-> TRUE,
                open |-> [i \in 1..Len(open) |-> [uv |-> open[i], reg |-> Loc(open[i])]]]
    /\ UNCHANGED <<regs, calls, uvs, open, made, cell, uvStray>>

\* ch_vm_invoke_continuation: every open upvalue is closed, the registers are
\* copied back, and the upvalues of the copy are opened again one by one, each
\* put at the head of the list; a value assigned since goes to the register.
Reopened(closed) ==
    /\ regs' = [r \in DOMAIN regs |->
                  IF \E i \in 1..Len(kont.open) : kont.open[i].reg = r
                  THEN closed[(CHOOSE s \in {kont.open[i] : i \in 1..Len(kont.open)} :
                                 s.reg = r).uv].val
                  ELSE kont.regs[r]]
    /\ uvs' = [u \in 1..Len(uvs) |->
                 IF \E i \in 1..Len(kont.open) : kont.open[i].uv = u
                 THEN [closed[u] EXCEPT !.at = (CHOOSE s \in {kont.open[i] : i \in 1..Len(kont.open)} :
                                                  s.uv = u).reg]
                 ELSE closed[u]]
    /\ open' = Reverse([i \in 1..Len(kont.open) |-> kont.open[i].uv])

\* ghost: two variables come back in the wrong order, or one was captured after
\* the copy was made and its register is the copy's.
Survives ==
    /\ Len(kont.open) <= 1
    /\ \A u \in 1..Len(uvs) :
         (\E i \in 1..Len(kont.calls) : kont.calls[i] = uvs[u].of)
           => \E i \in 1..Len(kont.open) : kont.open[i].uv = u

UvInvoke ==
    /\ kont.set /\ UvSpend
    /\ Reopened(Closed(ToSet(open)))
    /\ calls' = kont.calls
    /\ uvStray' = (uvStray \/ ~Survives)
    /\ UNCHANGED <<kont, made, cell>>

\* ch_vm_invoke_escape: the frames above the escape's are left one by one,
\* each closing its variables.
UvEscape(d, v) ==
    /\ 0 < d /\ d < Depth /\ UvSpend
    /\ CloseUpvalues(d + 1)
    /\ calls' = SubSeq(calls, 1, d)
    /\ regs' = [regs EXCEPT ![d + 1] = v]
    /\ UNCHANGED <<kont, made, cell, uvStray>>

UvNext ==
    \/ Capture \/ UvCallCC \/ UvInvoke
    \/ \E v \in Vals :
         \/ Call(v) \/ TailCall(v) \/ UvReturn(v) \/ SetLocal(v)
         \/ \E u \in 1..Len(uvs) : SetUpvalue(u, v)
         \/ \E d \in 1..Depth : UvEscape(d, v)

UvSpec == UvInit /\ [][UvNext]_uvVars

-----------------------------------------------------------------------------
\* A captured variable has one value, the one last assigned to it, for every
\* closure and for its own frame, however frames were left since, and no
\* closure points into a register its frame has given back.
OneValuePerVariable ==
    ~uvStray => \A u \in 1..Len(uvs) :
                  /\ Value(u) = cell[uvs[u].of]
                  /\ Loc(u) # 0 => Loc(u) <= Depth /\ calls[Loc(u)] = uvs[u].of
=============================================================================
