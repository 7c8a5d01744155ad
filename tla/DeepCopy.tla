------------------------------ MODULE DeepCopy ------------------------------
(* ch_gc_deep_copy (src/src/gc_deep_copy.c), by which a value crosses from    *)
(* one OS thread's heap to another's.  The source is a graph of Nodes with    *)
(* two fields each.  A "pair" is noted as visited before its fields are       *)
(* copied, and so are vectors, functions and promises; a "parameter" between  *)
(* its first field and its value; a "record" after its fields, and so error   *)
(* objects, multiple values and record types.  A "closure" has a function and *)
(* a variable, the latter in a "box" (ChUpvalue) that closures may share; the *)
(* box itself is never noted.  A "port" is refused, and so fibers,            *)
(* continuations, environments and foreign objects.  Hash tables, whose       *)
(* deleted entries are copied as entries, are left out.                       *)
EXTENDS Integers, Sequences, SequencesExt, FiniteSets

CONSTANTS Nodes, \* addresses in the source heap: 1..n; node 1 is copied
          Stack  \* bound: C frames of the recursion

ASSUME DeepCopyAssumption == Nodes = 1..Cardinality(Nodes) /\ Stack \in Nat

VARIABLES graph, \* the source: kind and fields of each node; 0 is an immediate
          copy   \* what the copy made

copyVars == <<graph, copy>>

NotCopied == [visited |-> <<>>, dest |-> <<>>, out |-> 0, st |-> "none"]

SourceNodes ==
    LET Values == Nodes \cup {0}
    IN [kind : {"pair", "closure", "parameter", "record"}, a : Values, b : Values]
       \cup [kind : {"box"}, a : Values, b : {0}] \cup [kind : {"port"}, a : {0}, b : {0}]

KindOf(n) == IF n = 0 THEN "immediate" ELSE graph[n].kind

\* The function of a closure is noted like a pair, and is 0 where it refers to
\* nothing.  Only a closure refers to a box.
CopyInit ==
    /\ graph \in [Nodes -> SourceNodes]
    /\ KindOf(1) # "box"
    /\ \A n \in Nodes :
         /\ KindOf(graph[n].a) # "box"
         /\ IF graph[n].kind = "closure"
            THEN /\ KindOf(graph[n].a) \in {"immediate", "pair"}
                 /\ KindOf(graph[n].b) \in {"immediate", "box"}
            ELSE KindOf(graph[n].b) # "box"
    /\ copy = NotCopied

\* dc_visited_get and dc_visited_put.
Visited(st, n) == n \in DOMAIN st.visited
Visit(st, n, d) == [st EXCEPT !.visited = [m \in DOMAIN @ \cup {n} |-> IF m = n THEN d ELSE @[m]]]

\* A new object of the destination heap.
Fresh(st, k, x, y) == [st EXCEPT !.dest = Append(@, [kind |-> k, a |-> x, b |-> y]),
                                 !.out = Len(st.dest) + 1]

\* A new object, noted as the copy of n while it is still empty.
Noted(st, n) == LET f == Fresh(st, graph[n].kind, 0, 0) IN Visit(f, n, f.out)

\* v is copied, with left C frames to spare.
RECURSIVE dc_copy_value(_, _, _), copy_spine(_, _, _, _)

\* The loop of dc_copy_pair: d is the copy of pair v; a cdr that is a pair not
\* met yet is the next turn of the loop.
copy_spine(st, v, d, left) ==
    LET s1 == dc_copy_value(st, graph[v].a, left)
        s2 == [s1 EXCEPT !.dest[d].a = s1.out]
        next == graph[v].b
        s3 == Noted(s2, next)
        s4 == dc_copy_value(s2, next, left)
    IN IF s1.st # "ok" THEN s1
       ELSE IF next # 0 /\ graph[next].kind = "pair" /\ ~Visited(s2, next)
       THEN copy_spine([s3 EXCEPT !.dest[d].b = s3.out], next, s3.out, left)
       ELSE [s4 EXCEPT !.dest[d].b = s4.out]

dc_copy_pair(st, v, left) ==
    LET s0 == Noted(st, v) IN [copy_spine(s0, v, s0.out, left) EXCEPT !.out = s0.out]

dc_copy_record(st, v, left) ==
    LET s1 == dc_copy_value(st, graph[v].a, left)
        s2 == dc_copy_value(s1, graph[v].b, left)
        s3 == Fresh(s2, graph[v].kind, s1.out, s2.out)
    IN IF s2.st # "ok" THEN s2 ELSE Visit(s3, v, s3.out)

\* Slip: a closure is noted when its variable is done.
dc_copy_closure_Late(st, v, left) ==
    LET fn == dc_copy_value(st, graph[v].a, left)
        up == dc_copy_value(fn, graph[graph[v].b].a, left)
        bx == Fresh(up, "box", up.out, 0)
        s1 == Fresh(bx, "closure", fn.out, bx.out)
        s0 == Fresh(fn, "closure", fn.out, 0)
    IN IF graph[v].b = 0 THEN Visit(s0, v, s0.out)
       ELSE IF up.st # "ok" THEN up ELSE Visit(s1, v, s1.out)

\* The copy of a closure gets a variable of its own, closed, with a copy of the
\* value; it is not noted, so the next closure that shares it gets another.
dc_copy_closure(st, v, left) ==
    LET fn == dc_copy_value(st, graph[v].a, left)
        s0 == Noted(fn, v)
        d  == s0.out
        s1 == [s0 EXCEPT !.dest[d].a = fn.out]
        bx == Fresh(s1, "box", 0, 0)
        up == dc_copy_value(bx, graph[graph[v].b].a, left)
    IN IF fn.st # "ok" THEN fn
       ELSE IF graph[v].b = 0 THEN [s1 EXCEPT !.out = d]
       ELSE [up EXCEPT !.dest[bx.out].a = up.out, !.dest[d].b = bx.out, !.out = d]

\* CH_TAG_PARAMETER.
dc_copy_parameter(st, v, left) ==
    LET init == dc_copy_value(st, graph[v].a, left)
        s0 == Noted(init, v)
        d  == s0.out
        value == dc_copy_value([s0 EXCEPT !.dest[d].a = init.out], graph[v].b, left)
    IN IF init.st # "ok" THEN init ELSE [value EXCEPT !.dest[d].b = value.out, !.out = d]

dc_copy_value(st, v, left) ==
    CASE st.st # "ok" \/ v = 0 -> [st EXCEPT !.out = 0]
      [] OTHER ->
         IF Visited(st, v) THEN [st EXCEPT !.out = st.visited[v]]
         ELSE IF left = 0 THEN [st EXCEPT !.st = "overflow"]
         ELSE CASE graph[v].kind = "pair"    -> dc_copy_pair(st, v, left - 1)
                [] graph[v].kind = "closure" -> dc_copy_closure(st, v, left - 1)
                [] graph[v].kind = "parameter" -> dc_copy_parameter(st, v, left - 1)
                [] graph[v].kind = "record"  -> dc_copy_record(st, v, left - 1)
                [] graph[v].kind = "port"    -> [st EXCEPT !.st = "refused", !.out = 0]

DeepCopy ==
    /\ copy = NotCopied
    /\ copy' = dc_copy_value([NotCopied EXCEPT !.st = "ok"], 1, Stack)
    /\ UNCHANGED graph

CopyNext == DeepCopy
CopySpec == CopyInit /\ [][CopyNext]_copyVars

-----------------------------------------------------------------------------
From(ns) == LET More(m, i) == (m \cup {graph[n].a : n \in m} \cup {graph[n].b : n \in m}) \ {0}
            IN FoldLeft(More, ns \ {0}, [i \in Nodes |-> i])

SourceReached == From({1})

\* No cycle goes through a field that is copied before its object is noted.
LateFields(n) == CASE graph[n].kind = "record" -> {graph[n].a, graph[n].b}
                   [] graph[n].kind \in {"closure", "parameter"} -> {graph[n].a}
                   [] OTHER -> {}
RecordsAcyclic == \A n \in Nodes : n \notin From(LateFields(n))

\* No two closures share a variable: the copy gives each one of its own.
HasVariable(n) == graph[n].kind = "closure" /\ graph[n].b # 0
VariablesUnshared ==
    \A n, m \in SourceReached : HasVariable(n) /\ HasVariable(m) /\ graph[n].b = graph[m].b => n = m

\* The copy is the source graph again: one object for each that is reachable,
\* with the same kind and the same fields, so that sharing and cycles survive,
\* but for a variable that closures share; or it is refused, exactly when a port
\* is reachable.
CopyIsIsomorphic ==
    copy # NotCopied /\ RecordsAcyclic =>
      LET objects == {n \in SourceReached : graph[n].kind # "box"}
          Img(v) == IF v = 0 THEN 0 ELSE copy.visited[v]
          Made(n) == copy.dest[copy.visited[n]]
          Like(n, b) == [kind |-> graph[n].kind, a |-> Img(graph[n].a), b |-> b]
      IN IF \E n \in SourceReached : graph[n].kind = "port" THEN copy.st = "refused"
         ELSE /\ copy.st = "ok"
              /\ DOMAIN copy.visited = objects /\ copy.out = Img(1)
              /\ \A n, m \in objects : Img(n) = Img(m) => n = m
              /\ \A n \in objects :
                   IF HasVariable(n)
                   THEN Made(n) = Like(n, Made(n).b)
                        /\ copy.dest[Made(n).b] = Like(graph[n].b, 0)
                   ELSE Made(n) = Like(n, Img(graph[n].b))
              /\ VariablesUnshared => Len(copy.dest) = Cardinality(SourceReached)
=============================================================================
