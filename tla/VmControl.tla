------------------------------ MODULE VmControl ------------------------------
(* The control state of one virtual machine (src/src/vm.c, prim_control.c):   *)
(* Scheme frames, the C activations of ch_vm_apply between them, the wind,    *)
(* handler and parameter stacks, and full continuations that copy all of      *)
(* these but the C activations.                                               *)
(*                                                                            *)
(* User code is any sequence of dynamic-wind, with-exception-handler,         *)
(* call/cc, raise, raise-continuable, the call of a captured continuation and *)
(* return, in tail position or not.  Every dynamic-wind is the one            *)
(* parameterize compiles to: its before thunk binds a parameter, its after    *)
(* thunk unbinds it, and either may call a continuation instead of returning. *)
(* Values are left out.                                                       *)
EXTENDS Integers, Sequences, SequencesExt

CONSTANTS Winds,     \* the dynamic-wind forms of the program
          Conts,     \* the variables that hold continuations
          Fuel,      \* bound: operations of user code in one run
          MaxFrames  \* bound: frames, of CH_VM_MAX_FRAMES

ASSUME VmControlAssumption == Fuel \in Nat /\ MaxFrames \in Nat \ {0}

VARIABLES frames,    \* vm->frames
          acts,      \* the C activations, innermost last
          winds,     \* vm->wind_stack
          handlers,  \* vm->handler_stack
          params,    \* vm->parameter_stack, by the wind that bound it
          conts,     \* the continuations captured so far
          invoked,   \* vm->continuation_invoked
          mode,      \* run_until, or the status it hands to ch_vm_apply
          fuel,
          inside,    \* ghost: the winds entered and not left
          torn,      \* ghost: a thunk unwound a wind that was not the last
          astray     \* ghost: C activations and frames no longer agree

vmVars == <<frames, acts, winds, handlers, params, conts, invoked, mode, fuel,
            inside, torn, astray>>

NoCont == [frames |-> <<>>, winds |-> <<>>, handlers |-> <<>>,
           params |-> <<>>, needs |-> <<>>, set |-> FALSE]

User(hs)     == [kind |-> "user", wind |-> "none", pc |-> "run", hs |-> hs]
Thunk(k, w)  == [kind |-> k, wind |-> w, pc |-> "run", hs |-> handlers]
DwFrame(w)   == [kind |-> "dw", wind |-> w, pc |-> "push", hs |-> handlers]

Activation(k, fr) ==
    [kind |-> k, saved |-> Len(fr), id |-> <<k, fuel, Len(fr)>>, eh |-> [id |-> 0, wc |-> 0],
     cont |-> FALSE, hb |-> 0, target |-> NoCont, common |-> 0, j |-> 0]

VmInit ==
    /\ frames = <<User(<<>>)>>
    /\ acts = <<[kind |-> "main", saved |-> 0, id |-> <<"main", 0, 0>>,
                 eh |-> [id |-> 0, wc |-> 0], cont |-> FALSE, hb |-> 0,
                 target |-> NoCont, common |-> 0, j |-> 0]>>
    /\ winds = <<>> /\ handlers = <<>> /\ params = <<>> /\ inside = <<>>
    /\ conts = [k \in Conts |-> NoCont]
    /\ invoked = FALSE /\ mode = "run" /\ fuel = Fuel
    /\ torn = FALSE /\ astray = FALSE

Top == Last(frames)
Act == Last(acts)

\* run_until goes on while there are frames above the innermost activation;
\* otherwise it returns the status st to it.
Settle(fr, as, st) == IF Len(fr) > Last(as).saved THEN "run" ELSE st

Running(kinds) == mode = "run" /\ frames # <<>> /\ Top.kind \in kinds
Thunks         == {"before", "after"}

\* A native entered by a tail call has dropped its caller's frame.
Caller(tail) == IF tail THEN Front(frames) ELSE frames

Spend == fuel > 0 /\ fuel' = fuel - 1
Room(n) == Len(frames) + n <= MaxFrames

ghosts == <<inside, torn, astray>>
stacks == <<winds, handlers, params>>

-----------------------------------------------------------------------------
\* (before) is called by dynamic-wind; the rest of it runs from DwEnter on.
DynamicWind(w) ==
    /\ Running({"user"}) /\ Spend /\ Room(2)
    /\ frames' = frames \o <<DwFrame(w), Thunk("before", w)>>
    /\ invoked' = FALSE
    /\ UNCHANGED <<acts, stacks, conts, mode, ghosts>>

\* %push-wind, then the thunk.
DwEnter ==
    /\ Running({"dw"}) /\ Top.pc = "push"
    /\ frames' = Append(Front(frames), [Top EXCEPT !.pc = "pop"]) \o <<User(Top.hs)>>
    /\ winds' = Append(winds, Top.wind)
    /\ invoked' = FALSE
    /\ UNCHANGED <<acts, handlers, params, conts, mode, fuel, ghosts>>

\* A thunk that leaves wind w starts: w must be the last wind entered.
Leaving(w) ==
    /\ torn' = (torn \/ inside = <<>> \/ Last(inside) # w)
    /\ inside' = IF inside = <<>> THEN <<>> ELSE Front(inside)

\* %wind-top-after, %pop-wind, then the after thunk that was found there.
DwLeave ==
    /\ Running({"dw"}) /\ Top.pc = "pop"
    /\ IF winds = <<>>
       THEN mode' = "dead" /\ UNCHANGED <<frames, winds, inside, torn, invoked>>
       ELSE /\ frames' = Append(Front(frames), [Top EXCEPT !.pc = "ret"])
                         \o <<Thunk("after", Last(winds))>>
            /\ winds' = Front(winds)
            /\ Leaving(Last(winds))
            /\ invoked' = FALSE
            /\ UNCHANGED mode
    /\ UNCHANGED <<acts, handlers, params, conts, fuel, astray>>

\* RETURN of user code and of dynamic-wind itself.
Return ==
    /\ \/ Running({"user"})
       \/ Running({"dw"}) /\ Top.pc = "ret"
    /\ frames' = Front(frames)
    /\ mode' = Settle(frames', acts, "ok")
    /\ UNCHANGED <<acts, stacks, conts, invoked, fuel, ghosts>>

\* %parameter-push! of a before thunk and %parameter-pop! of an after thunk,
\* then RETURN.
ThunkReturn ==
    /\ Running(Thunks)
    /\ frames' = Front(frames)
    /\ invoked' = FALSE
    /\ IF Top.kind = "before"
       THEN /\ params' = Append(params, Top.wind)
            /\ inside' = Append(inside, Top.wind)
            /\ mode' = Settle(frames', acts, "ok")
       ELSE /\ UNCHANGED inside
            /\ IF params # <<>> /\ Last(params) = Top.wind
               THEN params' = Front(params) /\ mode' = Settle(frames', acts, "ok")
               ELSE UNCHANGED params /\ mode' = "dead"
    /\ UNCHANGED <<acts, winds, handlers, conts, fuel, torn, astray>>

-----------------------------------------------------------------------------
WithExceptionHandler(tail) ==
    /\ Running({"user"}) /\ Spend /\ Room(1)
    /\ LET h == [id |-> fuel, wc |-> Len(winds)]
       IN /\ handlers' = Append(handlers, h)
          /\ frames' = Append(Caller(tail), User(Append(Top.hs, h)))
    /\ acts' = Append(acts, Activation("handler", Caller(tail)))
    /\ invoked' = FALSE
    /\ UNCHANGED <<winds, params, conts, mode, ghosts>>

\* Slip: the handlers are not part of the copy.
Snapshot_NoHandlers(fr) ==
    [frames |-> fr, winds |-> winds, handlers |-> <<>>, params |-> params,
     needs |-> acts, set |-> TRUE]

\* ch_vm_capture_continuation; ghost: the activations its frames return to.
Snapshot(fr) ==
    [frames |-> fr, winds |-> winds, handlers |-> handlers, params |-> params,
     needs |-> acts, set |-> TRUE]

\* In tail position the receiver is a pending call of the outer loop;
\* otherwise it runs under an activation of its own.
CallCC(k, tail) ==
    /\ Running({"user"}) /\ Spend /\ Room(1)
    /\ conts' = [conts EXCEPT ![k] = Snapshot(Caller(tail))]
    /\ frames' = Append(Caller(tail), User(Top.hs))
    /\ acts' = IF tail THEN acts
               ELSE Append(acts, Activation("callcc", frames))
    /\ invoked' = FALSE
    /\ UNCHANGED <<stacks, mode, ghosts>>

-----------------------------------------------------------------------------
\* The call of the handler eh by ch_vm_raise, on the activations as.
CallHandler(as, fr, eh, cont, hs) ==
    /\ acts' = Append(as, [Activation("raise", fr) EXCEPT
                             !.eh = eh, !.cont = cont, !.hb = Len(hs)])
    /\ frames' = Append(fr, User(hs))
    /\ UNCHANGED <<winds, inside, torn>>

\* One after thunk of the loop that unwinds to the handler's depth.
UnwindOne(as, fr, eh) ==
    /\ acts' = Append(as, [Activation("unwind", fr) EXCEPT !.eh = eh])
    /\ frames' = Append(fr, Thunk("after", Last(winds)))
    /\ winds' = Front(winds)
    /\ Leaving(Last(winds))

\* ch_vm_raise.
RaiseFrom(as, fr, cont) ==
    IF handlers = <<>>
    THEN mode' = "dead" /\ UNCHANGED <<acts, frames, handlers, winds, inside, torn>>
    ELSE LET eh == Last(handlers)
         IN /\ handlers' = IF cont THEN handlers ELSE Front(handlers)
            /\ IF ~cont /\ Len(winds) > eh.wc
               THEN UnwindOne(as, fr, eh)
               ELSE CallHandler(as, fr, eh, cont, handlers')
            /\ mode' = "run"

Raise(cont, tail) ==
    /\ Running({"user"}) /\ Spend /\ Room(1)
    /\ RaiseFrom(acts, Caller(tail), cont)
    /\ invoked' = FALSE
    /\ UNCHANGED <<params, conts, astray>>

-----------------------------------------------------------------------------
\* The length of the prefix the two wind stacks share.
Common(ws) ==
    LET n == CHOOSE n \in 0..Len(winds) :
               /\ n <= Len(ws) /\ SubSeq(winds, 1, n) = SubSeq(ws, 1, n)
               /\ \A m \in (n + 1)..Len(winds) :
                    m > Len(ws) \/ winds[m] # ws[m] \/ SubSeq(winds, 1, m) # SubSeq(ws, 1, m)
    IN n

\* The continuation c finds the activations it needs and no other: one with
\* fewer frames than c goes on as c's caller, one with as many takes the value
\* for its own (with-exception-handler and the loops that leave and enter winds
\* as the end of their thunk, ch_vm_raise as an escape), and one with more is
\* left.
Fits(as, c) ==
    LET n == Len(c.frames)
        m == Len(c.needs)
    IN /\ IsPrefix(c.needs, as)
       /\ \A i \in 1..Len(as) :
            /\ as[i].saved < n => i <= m
            /\ as[i].saved = n /\ as[i].kind \in {"handler", "trans", "unwind"} => i <= m
            /\ as[i].saved = n /\ as[i].kind = "raise" => i > m

\* The copies of ch_vm_invoke_continuation, when the winds are in place.
Restore(as, c) ==
    /\ frames' = c.frames
    /\ winds' = c.winds
    /\ handlers' = c.handlers
    /\ params' = c.params
    /\ acts' = as
    /\ invoked' = TRUE
    /\ mode' = Settle(c.frames, as, "cont")
    /\ astray' = (astray \/ ~Fits(as, c))
    /\ UNCHANGED <<inside, torn>>

\* Slip: winds are left but the ones of the target are not entered.
Transition_NoEntry(as, c, common, j, ws) ==
    IF Len(ws) > common
    THEN /\ acts' = Append(as, [Activation("trans", frames) EXCEPT
                                  !.target = c, !.common = common, !.j = j])
         /\ frames' = Append(frames, Thunk("after", Last(ws)))
         /\ winds' = Front(ws)
         /\ Leaving(Last(ws))
         /\ mode' = "run"
         /\ UNCHANGED <<handlers, params, invoked, astray>>
    ELSE Restore(as, c)

\* ch_vm_wind_transition: leave down to the common prefix, then enter the
\* winds of the target from its j-th on; ws is the wind stack at this point.
Transition(as, c, common, j, ws) ==
    LET act(n) == [Activation("trans", frames) EXCEPT
                     !.target = c, !.common = common, !.j = n]
    IN CASE j = common /\ Len(ws) > common ->
              /\ acts' = Append(as, act(j))
              /\ frames' = Append(frames, Thunk("after", Last(ws)))
              /\ winds' = Front(ws)
              /\ Leaving(Last(ws))
              /\ mode' = "run"
              /\ UNCHANGED <<handlers, params, invoked, astray>>
         [] (j > common \/ Len(ws) <= common) /\ j < Len(c.winds) ->
              /\ acts' = Append(as, act(j + 1))
              /\ frames' = Append(frames, Thunk("before", c.winds[j + 1]))
              /\ winds' = ws
              /\ mode' = "run"
              /\ UNCHANGED <<handlers, params, invoked, inside, torn, astray>>
         [] OTHER -> Restore(as, c)

Invoke(k) ==
    /\ Running({"user"} \cup Thunks) /\ Spend
    /\ conts[k].set
    /\ LET c == conts[k]
           n == Common(c.winds)
       IN Transition(acts, c, n, n, winds)
    /\ UNCHANGED conts

-----------------------------------------------------------------------------
\* What ch_vm_apply makes of the status: an escape past it, or its value.
Escaped == mode = "cont" /\ Len(frames) < Act.saved
Arrived == mode = "ok" \/ (mode = "cont" /\ Len(frames) = Act.saved)

\* call_value after the native: a continuation restored meanwhile counts as
\* the status, and the flag is cleared.
NativeExit(flag) ==
    /\ acts' = Front(acts)
    /\ invoked' = FALSE
    /\ mode' = Settle(frames, acts', IF flag THEN "cont" ELSE "ok")
    /\ UNCHANGED frames

EscapeNative ==
    /\ Escaped /\ Act.kind \in {"handler", "callcc", "raise", "unwind"}
    /\ NativeExit(TRUE)
    /\ UNCHANGED <<stacks, conts, fuel, ghosts>>

EscapeTransition ==
    /\ Escaped /\ Act.kind = "trans"
    /\ acts' = Front(acts)
    /\ mode' = Settle(frames, acts', "cont")
    /\ UNCHANGED <<frames, stacks, conts, invoked, fuel, ghosts>>

\* prim_with_exception_handler pops the handler, however its thunk ended.
EndHandler ==
    /\ Arrived /\ Act.kind = "handler"
    /\ handlers' = IF handlers = <<>> THEN <<>> ELSE Front(handlers)
    /\ NativeExit(invoked)
    /\ UNCHANGED <<winds, params, conts, fuel, ghosts>>

EndCallCC ==
    /\ Arrived /\ Act.kind = "callcc"
    /\ NativeExit(invoked)
    /\ UNCHANGED <<stacks, conts, fuel, ghosts>>

\* An after thunk of ch_vm_raise is done: the next one, or the handler.
EndUnwind ==
    /\ Arrived /\ Act.kind = "unwind"
    /\ IF Len(winds) > Act.eh.wc
       THEN UnwindOne(Front(acts), frames, Act.eh)
       ELSE CallHandler(Front(acts), frames, Act.eh, FALSE, handlers)
    /\ mode' = "run"
    /\ UNCHANGED <<handlers, params, conts, invoked, fuel, astray>>

\* The handler is back in ch_vm_raise.
EndRaise ==
    /\ Arrived /\ Act.kind = "raise"
    /\ IF invoked \/ Len(handlers) # Act.hb
       THEN /\ NativeExit(TRUE)
            /\ astray' = (astray \/ mode = "ok")
            /\ UNCHANGED <<winds, handlers, inside, torn>>
       ELSE /\ UNCHANGED astray
            /\ IF Act.cont
               THEN NativeExit(FALSE) /\ UNCHANGED <<winds, handlers, inside, torn>>
               ELSE RaiseFrom(Front(acts), frames, FALSE) /\ UNCHANGED invoked
    /\ UNCHANGED <<params, conts, fuel>>

\* A thunk of ch_vm_wind_transition is done; a before thunk's wind is pushed.
EndTransition ==
    /\ Arrived /\ Act.kind = "trans"
    /\ LET entered == Act.j > Act.common /\ Len(winds) = Act.j - 1
           ws == IF entered THEN Append(winds, Act.target.winds[Act.j]) ELSE winds
       IN Transition(Front(acts), Act.target, Act.common, Act.j, ws)
    /\ UNCHANGED <<conts, fuel>>

EndMain ==
    /\ mode \in {"ok", "cont"} /\ Act.kind = "main"
    /\ mode' = "done"
    /\ UNCHANGED <<frames, acts, stacks, conts, invoked, fuel, ghosts>>

VmNext ==
    \/ \E w \in Winds : DynamicWind(w)
    \/ DwEnter \/ DwLeave \/ Return \/ ThunkReturn
    \/ \E tail \in BOOLEAN :
         \/ WithExceptionHandler(tail)
         \/ \E k \in Conts : CallCC(k, tail)
         \/ \E cont \in BOOLEAN : Raise(cont, tail)
    \/ \E k \in Conts : Invoke(k)
    \/ EscapeNative \/ EscapeTransition \/ EndHandler \/ EndCallCC
    \/ EndUnwind \/ EndRaise \/ EndTransition \/ EndMain

VmSpec == VmInit /\ [][VmNext]_vmVars

-----------------------------------------------------------------------------
\* User code runs inside exactly the winds whose before thunks have run and
\* whose after thunks have not, in that order, and with the parameters those
\* winds bind, whatever mixture of returns, raises and continuations brought
\* it there.
WindsInside ==
    ~astray => /\ ~torn
               /\ Running({"user"} \cup Thunks) => winds = inside
               /\ Running({"user"}) => params = winds

\* User code runs with the handlers its dynamic extent has, unless a handler's
\* native returned at its own barrier or a continuation outlived its natives.
HandlersOfExtent ==
    Running({"user"}) /\ ~astray => handlers = Top.hs
=============================================================================
