---------------------------- MODULE LibraryLoad ----------------------------
(* Importing libraries (src/src/library.c): ch_ensure_library loads the file  *)
(* of a library that is not registered, whose imports load other files in     *)
(* turn; a stack of the names being loaded detects cycles.  Each import set   *)
(* ensures its library twice: import_set_library, which ignores a failure,    *)
(* and resolve_import_set, which reports it.  Files may be edited between two *)
(* imports, as at the REPL.  The second part resolves one import set.         *)
EXTENDS Integers, Sequences, SequencesExt, FiniteSets, TLC, Iteration

CONSTANTS Libs,     \* library names: positive numbers
          MaxNest,  \* libraries loading at once: 32 in the code
          MaxImports, \* bound: import forms entered at top level
          MaxEdits  \* bound: edits of library files between imports

ASSUME LibraryAssumption ==
    /\ Libs \subseteq Nat \ {0} /\ IsFiniteSet(Libs) /\ MaxNest \in Nat
    /\ MaxImports \in Nat /\ MaxEdits \in Nat

VARIABLES files,      \* each library's file: its imports and what its body does
          registered, \* vm->libraries
          loading,    \* vm->loading_libs
          nest,     \* the C stack: one record per import list being processed
          answer,     \* what ch_ensure_library just returned
          before,     \* registered when the current form was entered
          asked,      \* the import form
          verdict,    \* how it ended
          left        \* forms and edits still allowed

libVars == <<files, registered, loading, nest, answer, before, asked, verdict, left>>

LibTop == 0
Lists == {<<>>} \cup {<<l>> : l \in Libs}
Forms == {<<l>> : l \in Libs} \cup {<<k, l>> : k, l \in Libs}

\* "raises": a form of the body fails, an export is undefined, or the file
\* defines some other library; "missing": no file is found.
Bodies == {"good", "raises", "missing"}

LibInit ==
    /\ files \in [Libs -> [imports : Lists, body : {"good"}]]
    /\ registered = {} /\ before = {} /\ loading = <<>> /\ nest = <<>>
    /\ answer = "none" /\ asked = <<>> /\ verdict = "none"
    /\ left = [imports |-> MaxImports, edits |-> MaxEdits]

Frame(l, sets) == [lib |-> l, sets |-> sets, pass |-> "find"]
frame == nest[Len(nest)]

\* An (import ...) form at top level.
ch_handle_import ==
    /\ nest = <<>> /\ left.imports > 0
    /\ \E f \in Forms :
         /\ nest' = <<Frame(LibTop, f)>>
         /\ asked' = f
    /\ before' = registered /\ verdict' = "none"
    /\ left' = [left EXCEPT !.imports = @ - 1]
    /\ UNCHANGED <<files, registered, loading, answer>>

\* The user changes a file; an import already done is not affected.
Edit ==
    /\ nest = <<>> /\ left.edits > 0
    /\ \E l \in Libs, b \in Bodies : files' = [files EXCEPT ![l].body = b]
    /\ left' = [left EXCEPT !.edits = @ - 1] /\ verdict' = "none"
    /\ UNCHANGED <<registered, loading, nest, answer, before, asked>>

\* loading_push refuses a library that is loading already, and too many.
CanPush(l) == ~Contains(loading, l) /\ Len(loading) < MaxNest

\* ch_ensure_library for the import set the frame is at, in either pass.
ch_ensure_library ==
    /\ nest # <<>> /\ answer = "none" /\ frame.sets # <<>>
    /\ LET l == Head(frame.sets)
       IN \/ /\ l \in registered
             /\ answer' = "ok" /\ UNCHANGED <<loading, nest>>
          \/ /\ l \notin registered /\ (files[l].body = "missing" \/ ~CanPush(l))
             /\ answer' = "fail" /\ UNCHANGED <<loading, nest>>
          \/ /\ l \notin registered /\ files[l].body # "missing" /\ CanPush(l)
             /\ loading' = Append(loading, l)
             /\ nest' = Append(nest, Frame(l, files[l].imports))
             /\ UNCHANGED answer
    /\ UNCHANGED <<files, registered, before, asked, verdict, left>>

\* Slip: the failure path returns without loading_pop.
Leave_Pushed(ok) ==
    /\ nest' = Front(nest)
    /\ loading' = IF frame.lib # LibTop /\ ok THEN Front(loading) ELSE loading
    /\ IF frame.lib = LibTop
       THEN verdict' = (IF ok THEN "ok" ELSE "fail") /\ answer' = "none"
       ELSE answer' = (IF ok THEN "ok" ELSE "fail") /\ UNCHANGED verdict

\* The frame ends: ch_ensure_library pops its name and answers its caller, or
\* the import form is done.
Leave(ok) ==
    /\ nest' = Front(nest)
    /\ loading' = IF frame.lib # LibTop THEN Front(loading) ELSE loading
    /\ IF frame.lib = LibTop
       THEN verdict' = (IF ok THEN "ok" ELSE "fail") /\ answer' = "none"
       ELSE answer' = (IF ok THEN "ok" ELSE "fail") /\ UNCHANGED verdict

\* process_import_set with the library's answer: the first pass ignores it, the
\* second passes a failure on to the importing file.
process_import_set ==
    /\ answer # "none"
    /\ IF answer = "fail" /\ frame.pass = "take" THEN Leave(FALSE)
       ELSE /\ nest' = [nest EXCEPT ![Len(nest)] =
                 IF frame.pass = "find" THEN [frame EXCEPT !.pass = "take"]
                 ELSE [frame EXCEPT !.pass = "find", !.sets = Tail(frame.sets)]]
            /\ answer' = "none"
            /\ UNCHANGED <<loading, verdict>>
    /\ UNCHANGED <<files, registered, before, asked, left>>

\* All imports of the frame are merged: the body of a library runs and the
\* library is registered, ch_handle_define_library.
ch_handle_define_library ==
    /\ nest # <<>> /\ answer = "none" /\ frame.sets = <<>>
    /\ LET ok == frame.lib = LibTop \/ files[frame.lib].body = "good"
       IN /\ registered' = registered \cup {l \in Libs : l = frame.lib /\ ok}
          /\ Leave(ok)
    /\ UNCHANGED <<files, before, asked, left>>

LibNext ==
    \/ ch_handle_import \/ Edit
    \/ ch_ensure_library \/ process_import_set \/ ch_handle_define_library

LibSpec == LibInit /\ [][LibNext]_libVars

-----------------------------------------------------------------------------
(* One import set: modifiers around a library, from the inside out.           *)

CONSTANTS Idents, Prefix, MaxModifiers

VARIABLES env, \* the bindings the set stands for so far: name -> value
          mods, \* the modifiers still to apply, innermost first
          final, \* history: the name each export has after them, <<>> for none
          bad   \* an identifier was not found

setVars == <<env, mods, final, bad>>

\* A name is a sequence of symbols, so that a prefix makes a new name.
Names == {<<i>> : i \in Idents} \cup {<<Prefix, i>> : i \in Idents}
Exports == [n \in {<<i>> : i \in Idents} |-> n]

Modifiers ==
    {[op |-> o, ids |-> s, ren |-> <<>>] : o \in {"only", "except"},
                                          s \in {<<n>> : n \in Names}}
    \cup {[op |-> "prefix", ids |-> <<>>, ren |-> <<>>]}
    \cup {[op |-> "rename", ids |-> <<>>, ren |-> <<<<m, n>>>>] : m, n \in Names}
    \cup {[op |-> "rename", ids |-> <<>>, ren |-> <<<<m, n>>, <<p, q>>>>] :
             m, n, p, q \in {<<i>> : i \in Idents}}

SetInit ==
    /\ env = Exports /\ final = Exports /\ bad = FALSE
    /\ mods \in UNION {[1..k -> Modifiers] : k \in 1..MaxModifiers}

\* Each takes the environment of the inner set to [env, bad].
resolve_import_only(e, ids) ==
    [bad |-> \E i \in DOMAIN ids : ids[i] \notin DOMAIN e,
     env |-> [n \in DOMAIN e \cap Range(ids) |-> e[n]]]

\* A name given twice is gone the second time.
resolve_import_except(e, ids) ==
    [bad |-> \E i \in DOMAIN ids :
               ids[i] \notin DOMAIN e \/ \E j \in 1..(i - 1) : ids[j] = ids[i],
     env |-> [n \in DOMAIN e \ Range(ids) |-> e[n]]]

resolve_import_prefix(e) ==
    [bad |-> FALSE,
     env |-> [n \in {<<Prefix>> \o m : m \in DOMAIN e} |-> e[Tail(n)]]]

\* Slip: the new name is entered at once, so a swap loses a binding.
resolve_import_rename_Now(e, ren) ==
    LET Move(st, r) ==
          IF r[1] \notin DOMAIN st.env THEN [st EXCEPT !.bad = TRUE]
          ELSE [st EXCEPT !.env = (r[2] :> st.env[r[1]])
                                    @@ [m \in DOMAIN @ \ {r[1]} |-> st.env[m]]]
    IN FoldLeft(Move, [bad |-> FALSE, env |-> e], ren)

\* Each rename takes its old name away, so a second one of it is not found; the
\* new names are entered at the end, over what is left, in the order given.
resolve_import_rename(e, ren) ==
    LET from(i) == ren[i][1]
        to(i)   == ren[i][2]
        found   == {i \in DOMAIN ren : /\ from(i) \in DOMAIN e
                                       /\ \A j \in 1..(i - 1) : from(j) # from(i)}
        latest(n) == CHOOSE i \in found : to(i) = n /\ \A j \in found : to(j) = n => j <= i
    IN [bad |-> found # DOMAIN ren,
        env |-> [n \in (DOMAIN e \ {from(i) : i \in found}) \cup {to(i) : i \in found} |->
                   IF n \in {to(i) : i \in found} THEN e[from(latest(n))] ELSE e[n]]]

\* The name an exported identifier has after a modifier; <<>> when it has none.
Renamed(m, n) ==
    IF n = <<>> THEN <<>>
    ELSE CASE m.op = "only" -> IF Contains(m.ids, n) THEN n ELSE <<>>
           [] m.op = "except" -> IF Contains(m.ids, n) THEN <<>> ELSE n
           [] m.op = "prefix" -> <<Prefix>> \o n
           [] m.op = "rename" -> IF \E r \in Range(m.ren) : r[1] = n
                                 THEN (CHOOSE r \in Range(m.ren) : r[1] = n)[2] ELSE n

resolve_import_set ==
    /\ mods # <<>> /\ ~bad
    /\ LET m == Head(mods)
           r == CASE m.op = "only" -> resolve_import_only(env, m.ids)
                  [] m.op = "except" -> resolve_import_except(env, m.ids)
                  [] m.op = "prefix" -> resolve_import_prefix(env)
                  [] m.op = "rename" -> resolve_import_rename(env, m.ren)
       IN env' = r.env /\ bad' = r.bad
    /\ mods' = Tail(mods)
    /\ final' = [x \in DOMAIN final |-> Renamed(Head(mods), final[x])]

SetNext == resolve_import_set
SetSpec == SetInit /\ [][SetNext]_setVars

-----------------------------------------------------------------------------
\* The libraries that can be had from the files: registered already, or good
\* with imports that can be had; a cycle is in no finite derivation.
Loadable(have) ==
    LET More(s) == s \cup {k \in Libs : files[k].body = "good" /\ Range(files[k].imports) \subseteq s}
    IN Iterate([s \in SUBSET Libs |-> More(s)], have, Cardinality(Libs))

\* An import form succeeds exactly when all it names can be had; whatever the
\* outcome, no name stays on the loading stack (a later import would be called
\* circular), and nothing is registered that could not be had.
ImportVerdict ==
    nest = <<>> =>
      /\ loading = <<>>
      /\ verdict # "none" =>
           /\ verdict = "ok" <=> Range(asked) \subseteq Loadable(before)
           /\ verdict = "ok" => Range(asked) \subseteq registered
           /\ registered \subseteq Loadable(before)

\* Modifiers rename simultaneously: each name of the resolved set stands for an
\* export that the modifiers, applied one after another to that export alone,
\* take there; and none of those is lost unless two collide.
ImportSetRenames ==
    ~bad => /\ \A n \in DOMAIN env : final[env[n]] = n
            /\ \A x \in DOMAIN Exports : final[x] # <<>> => final[x] \in DOMAIN env
=============================================================================
