------------------------------- MODULE Compiler -------------------------------
(* From an expression to bytecode: lowering to the intermediate form          *)
(* (src/src/ir_lower.c), its analysis and optimisation (ir_analyze.c,         *)
(* ir_opt.c), its way back to an expression (ir_emit.c), and the compiler     *)
(* proper (compiler.c, compiler_bind.c, compiler_control.c), which desugars   *)
(* the derived forms and assigns registers.  The machine of vm.c then runs    *)
(* the code one instruction a step, and what it computes is compared with a   *)
(* direct evaluation of the expression.  Macros, library environments, guard, *)
(* parameterize and flonums are left out.                                     *)
EXTENDS Integers, Sequences, FiniteSets, SequencesExt

CONSTANTS Depth0,   \* bound: contexts around a leaf in a program
          FixMax,   \* CH_FIXNUM_MAX, as a bound on what is folded
          MaxRegs   \* bound: CH_VM_MAX_REGS

ASSUME CompilerAssumption == Depth0 \in Nat /\ {FixMax, MaxRegs} \subseteq Nat \ {0}

VARIABLES prog,   \* the expression
          code,   \* the functions it was compiled to; the first is the toplevel's
          vm      \* the machine

compVars == <<prog, code, vm>>

-----------------------------------------------------------------------------
(* Expressions and data: symbols, numbers, booleans, the void value, lists.   *)

Y(s) == [k |-> "sym", s |-> s]
N(n) == [k |-> "num", n |-> n]
B(b) == [k |-> "bool", b |-> b]
L(l) == [k |-> "list", l |-> l]
Unspec == [k |-> "void"]
F == B(FALSE)
Form(s, l) == L(<<Y(s)>> \o l)
IsList(e) == e.k = "list"
IsPair(e) == IsList(e) /\ e.l # <<>>
HeadIs(e, s) == IsPair(e) /\ e.l[1] = Y(s)
Args(e) == Tail(e.l)
Item(e, i) == e.l[i]
Each(f(_), s) == [i \in 1..Len(s) |-> f(s[i])]
IsTrue(v) == v # F
LispLam(ps, body) == Form("lambda", <<ps>> \o body)
LispBegin(body) == Form("begin", body)
LispIf(a, b, c) == Form("if", <<a, b, c>>)
LispLet(bs, body) == Form("let", <<L(bs)>> \o body)
LispBind(n, e) == L(<<n, e>>)

-----------------------------------------------------------------------------
(* ir_lower.c.  A node has a type, its children, a payload and, after the     *)
(* analysis, the constant it is known to be.                                  *)

Node(t, kids, x) == [t |-> t, kids |-> kids, x |-> x, c |-> <<>>]
Prims == {"+", "-", "*", "<", "=", "not"}
Derived == {"quasiquote", "let", "let*", "letrec", "letrec*", "cond", "case", "when",
            "unless", "do", "case-lambda", "let-values", "let*-values", "define-values"}

\* push_lambda_params: fixed parameters, and a rest parameter that may be all
\* there is; a dotted list is the form (dot a b).
ParamList(ps) == IF ~IsList(ps) THEN [fixed |-> <<>>, rest |-> <<ps>>]
                 ELSE IF HeadIs(ps, "dot")
                      THEN [fixed |-> Front(Args(ps)), rest |-> <<Last(ps.l)>>]
                      ELSE [fixed |-> ps.l, rest |-> <<>>]
ParamNames(ps) == LET p == ParamList(ps) IN p.fixed \o p.rest

RECURSIVE lower_node(_, _)

lower_list_nodes(es, bound) == [i \in 1..Len(es) |-> lower_node(es[i], bound)]
make_raw(e) == Node("raw", <<>>, e)
lower_quote(args) == Node("quote", <<>>, args[1])
lower_if(e, args, bound) ==
    IF Len(args) \in {2, 3} THEN Node("if", lower_list_nodes(args, bound), Unspec) ELSE make_raw(e)
lower_lambda(e, args, bound) ==
    IF Len(args) < 2 THEN make_raw(e)
    ELSE Node("lambda", lower_list_nodes(Tail(args), bound \cup ToSet(ParamNames(args[1]))), args[1])
lower_set(e, args, bound) ==
    IF Len(args) # 2 THEN make_raw(e) ELSE Node("set", <<lower_node(args[2], bound)>>, args[1])
\* A definition with parameters is left to the compiler.
lower_define(e, args, bound) ==
    IF Len(args) # 2 \/ IsList(args[1]) THEN make_raw(e)
    ELSE Node("define", <<lower_node(args[2], bound)>>, args[1])
lower_variadic_seq(args, type, bound) == Node(type, lower_list_nodes(args, bound), Unspec)

head_is_shadowed(e, bound) == IsPair(e) /\ e.l[1] \in bound
is_derived_special_form(e) == \E d \in Derived : HeadIs(e, d)
prim_from_symbol(e) == \E p \in Prims : HeadIs(e, p)
lower_call_like(e, bound) ==
    IF ~head_is_shadowed(e, bound) /\ prim_from_symbol(e)
    THEN Node("prim", lower_list_nodes(Args(e), bound), e.l[1])
    ELSE Node("call", lower_list_nodes(e.l, bound), Unspec)

lower_node(e, bound) ==
    LET Is(s) == ~head_is_shadowed(e, bound) /\ HeadIs(e, s)
        args == Args(e)
    IN CASE e = Unspec -> Node("void", <<>>, e)
         [] e.k = "sym" -> Node("var", <<>>, e)
         [] ~IsPair(e) -> Node("lit", <<>>, e)
         [] Is("quote") -> lower_quote(args)
         [] Is("if") -> lower_if(e, args, bound)
         [] Is("begin") -> lower_variadic_seq(args, "seq", bound)
         [] Is("lambda") -> lower_lambda(e, args, bound)
         [] Is("set!") -> lower_set(e, args, bound)
         [] Is("define") -> lower_define(e, args, bound)
         [] Is("and") \/ Is("or") -> lower_variadic_seq(args, e.l[1].s, bound)
         [] ~head_is_shadowed(e, bound) /\ is_derived_special_form(e) -> make_raw(e)
         [] OTHER -> lower_call_like(e, bound)

-----------------------------------------------------------------------------
(* ir_analyze.c: which nodes are constants.  and / or stop at the first child *)
(* that is not one, and leave the children after it unexamined.               *)

Upto(s, P(_)) == LET I == {i \in 1..Len(s) : P(s[i])}
                 IN IF I = {} THEN Len(s) ELSE CHOOSE i \in I : \A j \in I : i <= j

RECURSIVE analyze_node(_)
analyze_node(n) ==
    LET ks == Each(analyze_node, n.kids)
        Known(i) == ks[i].c # <<>>
        Stop(k) == k.c = <<>> \/ (IF n.t = "and" THEN k.c[1] = F ELSE k.c[1] # F)
        stop == Upto(ks, Stop)
        seen == [i \in 1..Len(ks) |-> IF i <= stop THEN ks[i] ELSE n.kids[i]]
    IN CASE n.t \in {"void", "lit", "quote"} -> [n EXCEPT !.c = <<n.x>>]
         [] n.t = "if" ->
              LET taken == IF IsTrue(ks[1].c[1]) THEN 2 ELSE 3
              IN [n EXCEPT !.kids = ks,
                           !.c = IF ~Known(1) THEN <<>>
                                 ELSE IF taken <= Len(ks) THEN ks[taken].c ELSE <<F>>]
         [] n.t = "seq" ->
              [n EXCEPT !.kids = ks,
                        !.c = IF ks = <<>> THEN <<Unspec>>
                              ELSE IF \A i \in 1..Len(ks) : Known(i) THEN Last(ks).c ELSE <<>>]
         [] n.t \in {"and", "or"} ->
              [n EXCEPT !.kids = seen,
                        !.c = IF ks = <<>> THEN <<B(n.t = "and")>> ELSE seen[stop].c]
         [] OTHER -> [n EXCEPT !.kids = ks]

-----------------------------------------------------------------------------
(* ir_opt.c.                                                                  *)

\* collect_redefinitions: primitives that the form assigns or defines outside
\* every lambda expression.
RECURSIVE collect_redefinitions(_)
collect_redefinitions(n) ==
    UNION {collect_redefinitions(n.kids[i]) :
             i \in IF n.t = "lambda" THEN {} ELSE 1..Len(n.kids)}
    \cup (IF n.t \in {"set", "define"} THEN {n.x}
          ELSE IF n.t # "raw" THEN {}
          ELSE IF HeadIs(n.x, "define") /\ IsPair(Args(n.x)[1]) THEN {Args(n.x)[1].l[1]}
          ELSE IF HeadIs(n.x, "set!") THEN {Args(n.x)[1]} ELSE {})

make_literal_node(v) == [Node(IF v = Unspec THEN "void" ELSE "lit", <<>>, v) EXCEPT !.c = <<v>>]
fits_fixnum(n) == n \in (-FixMax)..FixMax
Summed(ns) == FoldLeft(LAMBDA a, b : a + b, 0, ns)
Product(ns) == FoldLeft(LAMBDA a, b : a * b, 1, ns)
Less(ns) == \A i \in 1..(Len(ns) - 1) : ns[i] < ns[i + 1]
Same(ns) == \A i \in 1..(Len(ns) - 1) : ns[i] = ns[i + 1]
Subtract(ns) == IF Len(ns) = 1 THEN -ns[1] ELSE ns[1] - Summed(Tail(ns))

\* fold_prim_call: the value of a call on constants, <<>> if it is not folded.
fold_prim_call(p, kids) ==
    LET vs == [i \in 1..Len(kids) |-> kids[i].c[1]]
        nums == \A i \in 1..Len(kids) : vs[i].k = "num"
        ns == [i \in 1..Len(kids) |-> vs[i].n]
        fix(n) == IF fits_fixnum(n) THEN <<N(n)>> ELSE <<>>
    IN IF \E i \in 1..Len(kids) : kids[i].c = <<>> THEN <<>>
       ELSE CASE p = "not" -> IF Len(kids) = 1 THEN <<B(vs[1] = F)>> ELSE <<>>
              [] p \in {"<", "="} /\ Len(kids) <= 1 -> <<B(TRUE)>>
              [] ~nums \/ (p = "-" /\ kids = <<>>) -> <<>>
              [] p = "+" -> fix(Summed(ns))
              [] p = "-" -> fix(Subtract(ns))
              [] p = "*" -> fix(Product(ns))
              [] p = "<" -> <<B(Less(ns))>>
              [] p = "=" -> <<B(Same(ns))>>

IsConst(k, n) == k.c = <<N(n)>>
IsExact(k) == k.c # <<>> /\ k.c[1].k = "num"

simplify_prim_identity(n) ==
    LET a == n.kids[1]  b == n.kids[2]  p == n.x.s
        unit == IF p = "*" THEN 1 ELSE 0
    IN IF Len(n.kids) # 2 \/ p \notin {"+", "-", "*"} THEN n
       ELSE IF p # "-" /\ IsConst(a, unit) /\ IsExact(b) THEN b
       ELSE IF IsConst(b, unit) /\ IsExact(a) THEN a ELSE n

\* (if (not a) b c) is (if a c b).
Unnegated(n) ==
    [n EXCEPT !.kids = <<n.kids[1].kids[1],
                         IF Len(n.kids) = 3 THEN n.kids[3] ELSE make_literal_node(F),
                         n.kids[2]>>]

optimize_if_node(n, off, depth) ==
    LET not == n.kids[1]
        swap == depth = 0 /\ not.t = "prim" /\ not.x = Y("not") /\ Y("not") \notin off
                /\ Len(not.kids) = 1
        m == IF swap THEN Unnegated(n) ELSE n
    IN IF m.kids[1].c = <<>> THEN m
       ELSE IF IsTrue(m.kids[1].c[1]) THEN m.kids[2]
       ELSE IF Len(m.kids) = 3 THEN m.kids[3] ELSE make_literal_node(F)

optimize_seq_node(n) ==
    LET flat == FlattenSeq([i \in 1..Len(n.kids) |->
                              IF n.kids[i].t = "seq" THEN n.kids[i].kids ELSE <<n.kids[i]>>])
    IN IF flat = <<>> THEN make_literal_node(Unspec)
       ELSE IF Len(flat) = 1 THEN flat[1] ELSE [n EXCEPT !.kids = flat]

RECURSIVE optimize_node(_, _, _)
optimize_node(n, off, depth) ==
    LET kid(k) == optimize_node(k, off, IF n.t = "lambda" THEN depth + 1 ELSE depth)
        m == [n EXCEPT !.kids = Each(kid, n.kids)]
        folded == fold_prim_call(n.x.s, m.kids)
    IN CASE n.t = "if" -> optimize_if_node(m, off, depth)
         [] n.t = "seq" -> optimize_seq_node(m)
         [] n.t = "prim" ->
              IF depth > 0 \/ n.x \in off THEN m
              ELSE IF folded # <<>> THEN make_literal_node(folded[1])
              ELSE simplify_prim_identity(m)
         [] OTHER -> m

-----------------------------------------------------------------------------
(* ir_emit.c: the node as an expression again.                                *)

RECURSIVE ir_node_to_expr(_)
ir_node_to_expr(n) ==
    LET ks == Each(ir_node_to_expr, n.kids)
    IN CASE n.t \in {"void", "lit", "var", "raw"} -> n.x
         [] n.t = "quote" -> Form("quote", <<n.x>>)
         [] n.t = "if" -> Form("if", ks)
         [] n.t = "lambda" -> LispLam(n.x, ks)
         [] n.t = "seq" -> IF ks = <<>> THEN Unspec ELSE LispBegin(ks)
         [] n.t = "call" -> L(ks)
         [] n.t = "set" -> Form("set!", <<n.x>> \o ks)
         [] n.t = "define" -> Form("define", <<n.x>> \o ks)
         [] n.t \in {"and", "or"} -> Form(n.t, ks)
         [] n.t = "prim" -> L(<<n.x>> \o ks)

\* The first half of ch_compile_toplevel: lower, analyze, optimize, emit.
OptimizedFrom(n) == ir_node_to_expr(optimize_node(n, collect_redefinitions(n), 0))
Optimized(e) == OptimizedFrom(analyze_node(lower_node(e, {})))

-----------------------------------------------------------------------------
(* compiler.c.  The compiler's state s: the functions finished, the stack of  *)
(* ChFuncCompilers, the symbols generated, and whether an error was met.      *)

fc_init(top) == [code |-> <<>>, locals |-> <<>>, ups |-> <<>>, next |-> 0, max |-> 0, top |-> top]
Cur(s) == Last(s.fcs)
SetCur(s, fc) == [s EXCEPT !.fcs = Append(Front(@), fc)]
emit(s, ins) == SetCur(s, [Cur(s) EXCEPT !.code = Append(@, ins)])
Here(s) == Len(Cur(s).code)
CompFail(s) == [s EXCEPT !.bad = TRUE]
\* patch_jump: the jump at `at' goes to the next instruction emitted.
patch_jump(s, at) == SetCur(s, [Cur(s) EXCEPT !.code[at] = Append(@, Here(s) + 1)])

reset_regs(s, saved) == SetCur(s, [Cur(s) EXCEPT !.next = saved])
alloc_reg(s) == LET n == Cur(s).next + 1
                IN SetCur(s, [Cur(s) EXCEPT !.next = n, !.max = IF n > @ THEN n ELSE @])
ensure_temps_from(s) ==
    LET fc == Cur(s)
        n == IF fc.next < Len(fc.locals) THEN Len(fc.locals) ELSE fc.next
    IN SetCur(s, [fc EXCEPT !.next = n, !.max = IF n > @ THEN n ELSE @])
add_local(s, name) == LET t == alloc_reg(s)
                      IN SetCur(t, [Cur(t) EXCEPT !.locals = Append(@, name)])

\* The register of a local, its place in the list; -1 if there is none.
resolve_local(fc, name) == LET I == {i \in 1..Len(fc.locals) : fc.locals[i] = name}
                           IN IF I = {} THEN -1 ELSE (CHOOSE i \in I : \A j \in I : j <= i) - 1

\* Slip: an upvalue is found by its index alone.
add_upvalue_ByIndex(fcs, j, index, isLocal) ==
    LET I == {i \in 1..Len(fcs[j].ups) : fcs[j].ups[i].index = index}
    IN IF I # {} THEN [fcs |-> fcs, i |-> (CHOOSE i \in I : TRUE) - 1]
       ELSE [fcs |-> [fcs EXCEPT ![j].ups = Append(@, [index |-> index, isLocal |-> isLocal])],
             i |-> Len(fcs[j].ups)]

add_upvalue(fcs, j, index, isLocal) ==
    LET u == [index |-> index, isLocal |-> isLocal]
        I == {i \in 1..Len(fcs[j].ups) : fcs[j].ups[i] = u}
    IN IF I # {} THEN [fcs |-> fcs, i |-> (CHOOSE i \in I : TRUE) - 1]
       ELSE [fcs |-> [fcs EXCEPT ![j].ups = Append(@, u)], i |-> Len(fcs[j].ups)]

\* Function j's upvalue for the name, threaded through the functions around it.
RECURSIVE resolve_upvalue(_, _, _)
resolve_upvalue(fcs, j, name) ==
    IF j = 1 THEN [fcs |-> fcs, i |-> -1]
    ELSE LET local == resolve_local(fcs[j - 1], name)
             r == resolve_upvalue(fcs, j - 1, name)
         IN IF local # -1 THEN add_upvalue(fcs, j, local, TRUE)
            ELSE IF r.i = -1 THEN r ELSE add_upvalue(r.fcs, j, r.i, FALSE)

\* Where a name lives, and the state that knows it.
Resolved(s, name) ==
    LET local == resolve_local(Cur(s), name)
        up == resolve_upvalue(s.fcs, Len(s.fcs), name)
    IN IF local # -1 THEN [at |-> "local", i |-> local, s |-> s]
       ELSE IF up.i # -1 THEN [at |-> "up", i |-> up.i, s |-> [s EXCEPT !.fcs = up.fcs]]
       ELSE [at |-> "global", i |-> 0, s |-> s]

\* Names the user cannot rebind (ch_base_binding_symbol).
Pristine == {"%length"}

LoadVariable(r, name, dst) ==
    emit(r.s, CASE r.at = "local" -> <<"MOVE", dst, r.i>>
                [] r.at = "up" -> <<"GET_UPVALUE", dst, r.i>>
                [] name.s \in Pristine -> <<"LOAD", dst, [k |-> "prim", p |-> "length"]>>
                [] OTHER -> <<"GET_GLOBAL", dst, name.s>>)
compile_variable(s, name, dst) == LoadVariable(Resolved(s, name), name, dst)

RECURSIVE compile_expr(_, _, _, _)

\* The branches: the jump over the first is at `over', past both at `past'.
IfElse(s, past, args, dst, tail) ==
    patch_jump(compile_expr(s, IF Len(args) = 3 THEN args[3] ELSE F, dst, tail), past)
IfThen(s, over, args, dst, tail) ==
    IfElse(patch_jump(emit(s, <<"JUMP">>), over), Here(s) + 1, args, dst, tail)
IfTested(s, saved, args, dst, tail) ==
    IfThen(compile_expr(reset_regs(emit(s, <<"JUMP_FALSE", saved>>), saved), args[2], dst, tail),
           Here(s) + 1, args, dst, tail)
IfFrom(s, saved, args, dst, tail) ==
    IfTested(compile_expr(alloc_reg(s), args[1], saved, FALSE), saved, args, dst, tail)
compile_if(s, args, dst, tail) ==
    IF Len(args) \notin {2, 3} THEN CompFail(s)
    ELSE IfFrom(ensure_temps_from(s), Cur(ensure_temps_from(s)).next, args, dst, tail)

compile_begin(s, args, dst, tail) ==
    IF args = <<>> THEN emit(s, <<"LOAD", dst, Unspec>>)
    ELSE FoldLeft(LAMBDA t, i : compile_expr(t, args[i], dst, tail /\ i = Len(args)), s,
                  [i \in 1..Len(args) |-> i])

\* The callee and the arguments go to consecutive registers.
CallWith(s, base, n, dst, tail) ==
    reset_regs(CASE tail -> emit(s, <<"TAIL_CALL", base, n>>)
                 [] dst = base -> emit(s, <<"CALL", base, n>>)
                 [] OTHER -> emit(emit(s, <<"CALL", base, n>>), <<"MOVE", dst, base>>), base)
Operands(s, e, base) ==
    FoldLeft(LAMBDA t, i : compile_expr(t, e.l[i], base + i - 1, FALSE),
             FoldLeft(LAMBDA t, x : alloc_reg(t), s, e.l), [i \in 1..Len(e.l) |-> i])
CallAt(s, base, e, dst, tail) == CallWith(Operands(s, e, base), base, Len(e.l) - 1, dst, tail)
CallFrom(s, e, dst, tail) == CallAt(s, Cur(s).next, e, dst, tail)
compile_call(s, e, dst, tail) == CallFrom(ensure_temps_from(s), e, dst, tail)

\* compile_and and compile_or: every value but the last is tested in dst.
compile_junction(s, args, op, dst, tail) ==
    LET one(t, i) ==
            LET u == compile_expr(t.s, args[i], dst, tail /\ i = Len(args))
            IN IF i = Len(args) THEN [s |-> u, jumps |-> t.jumps]
               ELSE [s |-> emit(u, <<op, dst>>), jumps |-> Append(t.jumps, Here(u) + 1)]
        r == FoldLeft(one, [s |-> s, jumps |-> <<>>], [i \in 1..Len(args) |-> i])
    IN IF args = <<>> THEN emit(s, <<"LOAD", dst, B(op = "JUMP_FALSE")>>)
       ELSE FoldLeft(patch_jump, r.s, r.jumps)

compile_and(s, args, dst, tail) == compile_junction(s, args, "JUMP_FALSE", dst, tail)
compile_or(s, args, dst, tail) == compile_junction(s, args, "JUMP_TRUE", dst, tail)
compile_quote(s, args, dst) == IF Len(args) # 1 THEN CompFail(s) ELSE emit(s, <<"LOAD", dst, args[1]>>)

-----------------------------------------------------------------------------
(* compiler_bind.c.                                                           *)

\* The value is in register v, the variable resolved to r.
Assigned(r, name, v, dst) ==
    reset_regs(emit(emit(r.s, CASE r.at = "local" -> <<"MOVE", r.i, v>>
                                [] r.at = "up" -> <<"SET_UPVALUE", r.i, v>>
                                [] OTHER -> <<"SET_GLOBAL", name.s, v>>),
                    <<"MOVE", dst, v>>), v)
AssignIn(s, v, args, dst) ==
    Assigned(Resolved(compile_expr(alloc_reg(s), args[2], v, FALSE), args[1]), args[1], v, dst)
AssignFrom(s, args, dst) == AssignIn(s, Cur(s).next, args, dst)
compile_set(s, args, dst) ==
    IF Len(args) # 2 THEN CompFail(s) ELSE AssignFrom(ensure_temps_from(s), args, dst)

\* (define (f . params) body ...) is a define of a lambda expression.
DefineParts(args) ==
    IF IsPair(args[1])
    THEN <<args[1].l[1], LispLam(L(Tail(args[1].l)), Tail(args))>> ELSE args

\* In a body: a new local, whose register is its place in the list.
DefinedLocal(s, lreg, dst) ==
    IF dst = lreg \/ dst >= Len(Cur(s).locals) THEN emit(s, <<"MOVE", dst, lreg>>) ELSE s
DefineAt(s, lreg, e, dst) == DefinedLocal(compile_expr(s, e, lreg, FALSE), lreg, dst)
DefineLocal(s, d, dst) == DefineAt(s, resolve_local(Cur(s), d[1]), d[2], dst)
DefineGlobal(s, v, d, dst) ==
    reset_regs(emit(emit(compile_expr(alloc_reg(s), d[2], v, FALSE), <<"DEFINE_GLOBAL", d[1].s, v>>),
                    <<"LOAD", dst, Unspec>>), v)
DefineTop(s, d, dst) == DefineGlobal(s, Cur(s).next, d, dst)
DefineIn(s, d, dst) ==
    IF Cur(s).top THEN DefineTop(ensure_temps_from(s), d, dst)
    ELSE DefineLocal(ensure_temps_from(add_local(s, d[1])), d, dst)
compile_define(s, args, dst) == DefineIn(s, DefineParts(args), dst)

Numbered(s, n) == [k |-> "sym", s |-> s, g |-> n]
Gensym(s) == Numbered("%g", s.gs)
Generated(s, n) == [s EXCEPT !.gs = @ + n]
Producer(e) == LispLam(L(<<>>), <<e>>)
WithValues(e, consumer) == Form("call-with-values", <<Producer(e), consumer>>)

\* build_define_values_assign_form, for two or more names.
DvParam(i) == Numbered("__dv_", i)
DvAssign(formals, e) ==
    LET p == ParamList(formals)
        names == p.fixed \o p.rest
        params == [i \in 1..Len(names) |-> DvParam(i)]
    IN WithValues(e, LispLam(IF p.rest = <<>> THEN L(params) ELSE Form("dot", params),
                             [i \in 1..Len(names) |-> Form("set!", <<names[i], params[i]>>)]))

compile_define_values_top(s, args, dst) ==
    LET placeholder(t, n) == compile_define(t, <<n, Form("if", <<F, F>>)>>, dst)
        s1 == FoldLeft(placeholder, s, ParamNames(args[1]))
    IN emit(compile_expr(s1, DvAssign(args[1], args[2]), dst, FALSE), <<"LOAD", dst, Unspec>>)

\* The bindings a leading define or define-values stands for.
BodyBindings(form, step) ==
    IF HeadIs(form, "define") THEN <<L(DefineParts(Args(form)))>>
    ELSE LET formals == Args(form)[1]
             e == Args(form)[2]
             p == ParamList(formals)
         IN IF p.fixed = <<>> /\ p.rest # <<>>
            THEN <<LispBind(p.rest[1], WithValues(e, Y("list")))>>
            ELSE IF p.rest = <<>> /\ Len(p.fixed) = 1 THEN <<LispBind(p.fixed[1], e)>>
            ELSE IF p.fixed = <<>> THEN <<LispBind(step, e)>>
            ELSE [i \in 1..Len(p.fixed \o p.rest) |->
                    LispBind((p.fixed \o p.rest)[i], Form("if", <<F, F>>))]
                 \o <<LispBind(step, DvAssign(formals, e))>>

\* body_to_letrec_star: the leading definitions of a body, with begins spliced.
RECURSIVE Spliced(_)
Spliced(body) == IF body # <<>> /\ HeadIs(body[1], "begin")
                 THEN Spliced(Args(body[1]) \o Tail(body)) ELSE body
RECURSIVE LeadingDefs(_, _)
LeadingDefs(body, step) ==
    LET w == Spliced(body)
        r == LeadingDefs(Tail(w), step)
    IN IF w = <<>> \/ ~(HeadIs(w[1], "define") \/ HeadIs(w[1], "define-values"))
       THEN [defs |-> <<>>, rest |-> w]
       ELSE [defs |-> BodyBindings(w[1], step) \o r.defs, rest |-> r.rest]
LetrecStar(body, r) == IF r.defs = <<>> THEN body ELSE <<Form("letrec*", <<L(r.defs)>> \o r.rest)>>
body_to_letrec_star(body, step) == LetrecStar(body, LeadingDefs(body, step))

\* The function whose parameters are p has been compiled: it leaves the stack.
CloseFunction(s, child, p, dst) ==
    emit([s EXCEPT !.fcs = Front(@),
                   !.fns = Append(@, [arity |-> Len(p.fixed), variadic |-> p.rest # <<>>, ups |-> child.ups,
                                      regs |-> child.max, code |-> child.code])],
         <<"CLOSURE", dst, Len(s.fns) + 1>>)
CompiledBody(s, body_dst, p, dst) == CloseFunction(s, Cur(emit(s, <<"RETURN", body_dst>>)), p, dst)
CompileBody(s, body_dst, body, p, dst) ==
    CompiledBody(compile_begin(alloc_reg(Generated(s, 1)), body_to_letrec_star(body, Gensym(s)), body_dst, TRUE),
                 body_dst, p, dst)
OpenFunction(s, p) == FoldLeft(add_local, [s EXCEPT !.fcs = Append(@, fc_init(FALSE))], p.fixed \o p.rest)
FunctionIn(s, args, p, dst) == CompileBody(s, Cur(s).next, Tail(args), p, dst)
CompileFunction(s, args, p, dst) == FunctionIn(OpenFunction(s, p), args, p, dst)
compile_lambda(s, args, dst) ==
    IF Len(args) < 2 THEN CompFail(s) ELSE CompileFunction(s, args, ParamList(args[1]), dst)

Names1(bs) == [i \in 1..Len(bs) |-> bs[i].l[1]]
Inits(bs) == [i \in 1..Len(bs) |-> bs[i].l[2]]

\* compile_let: a call of a lambda expression; a named let is a letrec.
LetForm(args, step) ==
    IF args[1].k = "sym"
    THEN Form("letrec", <<L(<<LispBind(args[1], LispLam(L(Names1(args[2].l)), SubSeq(args, 3, Len(args))))>>),
                          L(<<args[1]>> \o Inits(args[2].l))>>)
    ELSE L(<<LispLam(L(Names1(args[1].l)), body_to_letrec_star(Tail(args), step))>>
           \o Inits(args[1].l))

LetStarForm(args) ==
    IF args[1].l = <<>> THEN LispBegin(Tail(args))
    ELSE LispLet(<<args[1].l[1]>>, <<Form("let*", <<L(Tail(args[1].l))>> \o Tail(args))>>)

\* compile_letrec, and letrec* alike: false, then the assignments in order, of
\* which at most 64 are kept.
LetrecForm(args) ==
    LET bs == args[1].l
        sets == [i \in 1..Len(bs) |-> Form("set!", bs[i].l)]
        undef(b) == LispBind(b.l[1], F)
    IN LispLet(Each(undef, bs), (IF Len(sets) > 64 THEN SubSeq(sets, 1, 64) ELSE sets) \o Tail(args))

Bodied(body) == IF Len(body) = 1 THEN body[1] ELSE LispBegin(body)
\* compile_let_values: every producer runs before any name is bound; a single
\* binding in tail position needs no list of its values.
LetValuesForm(args, temps, tail) ==
    LET bs == args[1].l
        RECURSIVE apply(_)
        apply(i) == IF i > Len(bs) THEN Bodied(Tail(args))
                    ELSE Form("apply", <<LispLam(bs[i].l[1], <<apply(i + 1)>>), temps[i]>>)
    IN IF tail /\ Len(bs) = 1
       THEN WithValues(bs[1].l[2], LispLam(bs[1].l[1], <<Bodied(Tail(args))>>))
       ELSE LispLet([i \in 1..Len(bs) |-> LispBind(temps[i], WithValues(bs[i].l[2], Y("list")))],
                    <<apply(1)>>)

RECURSIVE build_let_star_values(_, _)
build_let_star_values(bs, body) ==
    IF bs = <<>> THEN LispLet(<<>>, <<Bodied(body)>>)
    ELSE WithValues(bs[1].l[2],
                    LispLam(bs[1].l[1], <<build_let_star_values(Tail(bs), body)>>))

CaseLambdaForm(clauses) ==
    LET args == Y("%cl-args")  n == Y("%cl-n")
        clause(c) ==
            LET p == ParamList(c.l[1])
            IN IF p.rest # <<>>
               THEN L(<<Form(">=", <<n, N(Len(p.fixed))>>),
                        Form("apply", <<LispLam(c.l[1], Args(c)), args>>)>>)
               ELSE L(<<Form("=", <<n, N(Len(p.fixed))>>),
                        LispLet([i \in 1..Len(p.fixed) |->
                                   LispBind(p.fixed[i], Form("list-ref", <<args, N(i - 1)>>))],
                                Args(c))>>)
    IN LispLam(args, <<LispLet(<<LispBind(n, Form("%length", <<args>>))>>,
                               <<Form("cond", Each(clause, clauses)
                                              \o <<Form("else", <<Form("error", <<>>)>>)>>)>>)>>)

-----------------------------------------------------------------------------
(* compiler_control.c.  => is the keyword only where no local has that name.  *)

Arrow(s, exprs) == exprs # <<>> /\ exprs[1] = Y("=>") /\ Resolved(s, Y("=>")).at = "global"

\* compile_cond, one clause at a time; the temporary is a plain variable t.
CondForm(s, clauses) ==
    LET c == clauses[1].l
        rest == Form("cond", Tail(clauses))
        t == Y("t")
        tested(then) == LispLet(<<LispBind(t, c[1])>>, <<LispIf(t, then, rest)>>)
    IN CASE clauses = <<>> -> Unspec
         [] c[1] = Y("else") -> IF Len(c) = 1 THEN B(TRUE) ELSE LispBegin(Tail(c))
         [] Arrow(s, Tail(c)) -> tested(L(<<c[3], t>>))
         [] Len(c) = 1 -> tested(t)
         [] OTHER -> LispIf(c[1], LispBegin(Tail(c)), rest)

RECURSIVE build_case_chain(_, _, _)
build_case_chain(s, key, clauses) ==
    LET c == clauses[1].l
        then == IF Arrow(s, Tail(c)) THEN L(<<c[3], key>>) ELSE LispBegin(Tail(c))
    IN CASE clauses = <<>> -> Unspec
         [] c[1] = Y("else") -> then
         [] OTHER -> LispIf(Form("memv", <<key, Form("quote", <<c[1]>>)>>), then,
                            build_case_chain(s, key, Tail(clauses)))
CaseForm(s, args) ==
    LispLet(<<LispBind(Gensym(s), args[1])>>, <<build_case_chain(s, Gensym(s), Tail(args))>>)

WhenForm(args, isWhen) ==
    LET body == LispBegin(Tail(args))
    IN IF isWhen THEN LispIf(args[1], body, Unspec) ELSE LispIf(args[1], Unspec, body)

DoForm(s, args) ==
    LET loop == Gensym(s)
        specs == args[1].l
        step(b) == IF Len(b.l) = 3 THEN b.l[3] ELSE b.l[1]
        init(b) == LispBind(b.l[1], b.l[2])
    IN Form("let", <<loop, L(Each(init, specs)),
                     LispIf(args[2].l[1], LispBegin(Args(args[2])),
                            LispBegin(SubSeq(args, 3, Len(args))
                                      \o <<L(<<loop>> \o Each(step, specs))>>))>>)

\* qq_expand and qq_expand_list: the expression that builds the template.
RECURSIVE qq_expand(_, _), qq_expand_list(_, _)
qq_expand_list(xs, level) ==
    IF xs = <<>> THEN Form("quote", <<L(<<>>)>>)
    ELSE IF level = 0 /\ xs[1] = Y("unquote") /\ Len(xs) = 2 THEN xs[2]
    ELSE IF level = 0 /\ HeadIs(xs[1], "unquote-splicing")
         THEN Form("append", <<Args(xs[1])[1], qq_expand_list(Tail(xs), level)>>)
    ELSE Form("cons", <<qq_expand(xs[1], level), qq_expand_list(Tail(xs), level)>>)
qq_expand(x, level) ==
    LET rebuilt(s, n) == Form("list", <<Form("quote", <<Y(s)>>), qq_expand(Args(x)[1], n)>>)
    IN CASE HeadIs(x, "unquote") -> IF level = 0 THEN Args(x)[1] ELSE rebuilt("unquote", level - 1)
         [] HeadIs(x, "unquote-splicing") -> rebuilt("unquote-splicing", level - 1)
         [] HeadIs(x, "quasiquote") -> rebuilt("quasiquote", level + 1)
         [] IsPair(x) -> qq_expand_list(x.l, level)
         [] OTHER -> Form("quote", <<x>>)

\* compile_expr_impl: a head that is a local is no keyword.
compile_expr(s, e, dst, tail) ==
    LET shadowed == IsPair(e) /\ \E j \in 1..Len(s.fcs) : resolve_local(s.fcs[j], e.l[1]) # -1
        Is(x) == ~shadowed /\ HeadIs(e, x)
        args == Args(e)
        \* the form is replaced by another, which is compiled in its place
        as(form, n) == compile_expr(Generated(s, n), form, dst, tail)
    IN CASE e.k = "sym" -> compile_variable(s, e, dst)
         [] ~IsPair(e) -> emit(s, <<"LOAD", dst, e>>)
         [] Is("quote") -> compile_quote(s, args, dst)
         [] Is("quasiquote") -> as(qq_expand(args[1], 0), 0)
         [] Is("if") -> compile_if(s, args, dst, tail)
         [] Is("begin") -> compile_begin(s, args, dst, tail)
         [] Is("set!") -> compile_set(s, args, dst)
         [] Is("define") -> compile_define(s, args, dst)
         [] Is("lambda") -> compile_lambda(s, args, dst)
         [] Is("case-lambda") -> as(CaseLambdaForm(args), 0)
         [] Is("define-values") -> IF Cur(s).top THEN compile_define_values_top(s, args, dst)
                                   ELSE CompFail(s)
         [] Is("and") -> compile_and(s, args, dst, tail)
         [] Is("or") -> compile_or(s, args, dst, tail)
         [] Is("let") -> as(LetForm(args, Gensym(s)), 1)
         [] Is("let*") -> as(LetStarForm(args), 0)
         [] Is("letrec") \/ Is("letrec*") -> IF Len(args) < 2 THEN CompFail(s) ELSE as(LetrecForm(args), 0)
         [] Is("let-values") ->
              LET n == Len(args[1].l)
              IN as(LetValuesForm(args, [i \in 1..n |-> Numbered("%g", s.gs + i - 1)], tail), n)
         [] Is("let*-values") -> as(build_let_star_values(args[1].l, Tail(args)), 0)
         [] Is("cond") -> as(CondForm(s, args), 0)
         [] Is("case") -> as(CaseForm(s, args), 1)
         [] Is("when") \/ Is("unless") -> as(WhenForm(args, Is("when")), 0)
         [] Is("do") -> as(DoForm(s, args), 1)
         [] OTHER -> compile_call(s, e, dst, tail)

\* ch_compile_toplevel.  The toplevel function is the first of the result.
Toplevel(s, main) ==
    [fns |-> s.fns, bad |-> s.bad,
     main |-> [arity |-> 0, variadic |-> FALSE, ups |-> <<>>, regs |-> main.max, code |-> main.code]]
ToplevelOf(s) == Toplevel(s, Cur(s))
ch_compile_toplevel(e) ==
    ToplevelOf(emit(compile_expr(alloc_reg([fns |-> <<>>, fcs |-> <<fc_init(TRUE)>>, gs |-> 0, bad |-> FALSE]),
                                 Optimized(e), 0, FALSE), <<"HALT", 0>>))

-----------------------------------------------------------------------------
(* The machine of vm.c: run_until and call_value.                             *)

Undef == [k |-> "undef"]
Natives == Prims \cup {">=", "list", "values", "apply", "call-with-values", "length", "cons",
                       "list-ref", "memv", "append"}
Native(p) == [k |-> "prim", p |-> p]
Globals0 == [g \in Natives \cup {"x", "y", "z", "error"} |->
               IF g = "x" THEN N(5) ELSE IF g \in Natives THEN Native(g) ELSE Undef]
Err == [k |-> "err"]
AreNums(as) == \A i \in 1..Len(as) : as[i].k = "num"
Nums(as) == [i \in 1..Len(as) |-> as[i].n]

\* What a primitive that calls nothing back returns (external to the compiler).
Primitive(p, as) ==
    LET n == Len(as)
    IN CASE p = "not" -> IF n = 1 THEN B(as[1] = F) ELSE Err
         [] p = "list" -> L(as)
         [] p = "values" -> IF n = 1 THEN as[1] ELSE [k |-> "values", l |-> as]
         [] p = "length" -> N(Len(as[1].l))
         [] p = "cons" -> IF n = 2 /\ IsList(as[2]) THEN L(<<as[1]>> \o as[2].l) ELSE Err
         [] p = "append" -> IF n = 2 /\ IsList(as[1]) /\ IsList(as[2])
                            THEN L(as[1].l \o as[2].l) ELSE Err
         [] p = "list-ref" -> as[1].l[as[2].n + 1]
         [] p = "memv" -> LET I == {i \in 1..Len(as[2].l) : as[2].l[i] = as[1]}
                          IN IF I = {} THEN F ELSE as[2]
         [] ~AreNums(as) -> Err
         [] p = "+" -> N(Summed(Nums(as)))
         [] p = "*" -> N(Product(Nums(as)))
         [] p = "-" -> IF n = 0 THEN Err ELSE N(Subtract(Nums(as)))
         [] n < 2 -> Err
         [] p = "<" -> B(Less(Nums(as)))
         [] p = "=" -> B(Same(Nums(as)))
         [] p = ">=" -> B(~Less(Nums(as)))

Reg(m, i) == m.regs[Last(m.frames).base + i + 1]
PutReg(m, i, v) == [m EXCEPT !.regs[Last(m.frames).base + i + 1] = v]
Jumped(m, pc) == [m EXCEPT !.frames[Len(m.frames)].pc = pc]
Halted(m, v) == [m EXCEPT !.st = "done", !.v = v]
Ended(m, v) == IF m.frames = <<>> THEN Halted(m, v) ELSE m

\* close_upvalues: those of the registers from base on get values of their own.
close_upvalues(m, base) ==
    [m EXCEPT !.cells = [c \in DOMAIN @ |-> IF @[c].at >= base
                                            THEN [at |-> -1, v |-> m.regs[@[c].at + 1]] ELSE @[c]]]
UpGet(m, c) == IF m.cells[c].at = -1 THEN m.cells[c].v ELSE m.regs[m.cells[c].at + 1]
UpSet(m, c, v) == IF m.cells[c].at = -1 THEN [m EXCEPT !.cells[c].v = v]
                  ELSE [m EXCEPT !.regs[m.cells[c].at + 1] = v]
\* capture_upvalue: the open upvalue of the register, or a new one.
Capture1(m, at) == LET C == {c \in 1..Len(m.cells) : m.cells[c].at = at}
                   IN IF C # {} THEN [m |-> m, c |-> CHOOSE c \in C : TRUE]
                      ELSE [m |-> [m EXCEPT !.cells = Append(@, [at |-> at, v |-> Unspec])],
                            c |-> Len(m.cells) + 1]
MakeClosure(m, fn) ==
    LET f == Last(m.frames)
        one(r, u) == IF u.isLocal
                     THEN LET q == Capture1(r.m, f.base + u.index)
                          IN [m |-> q.m, ups |-> Append(r.ups, q.c)]
                     ELSE [m |-> r.m, ups |-> Append(r.ups, f.ups[u.index + 1])]
    IN FoldLeft(one, [m |-> m, ups |-> <<>>], code.fns[fn].ups)

Spread(v) == IF v.k = "values" THEN v.l ELSE <<v>>
PutArgs(m, base, as) ==
    [m EXCEPT !.regs = [i \in DOMAIN @ |-> IF i - 1 - base \in 1..Len(as) THEN as[i - 1 - base] ELSE @[i]]]

\* The end of call_value: the frame of a closure.  A tail call first leaves the
\* frame of its caller.
EnterClosure(m, f, base, n, tail) ==
    LET fn == code.fns[f.fn]
        cur == Last(m.frames)
        to == IF tail THEN cur.base ELSE base
        left == IF tail THEN [close_upvalues(m, cur.base) EXCEPT !.frames = Front(@)] ELSE m
        as == [i \in 1..n |-> m.regs[base + i + 1]]
        ps == IF fn.variadic THEN Append(SubSeq(as, 1, fn.arity), L(SubSeq(as, fn.arity + 1, n))) ELSE as
    IN IF IF fn.variadic THEN n < fn.arity ELSE n # fn.arity
       THEN [m EXCEPT !.st = "error"]
       ELSE [left EXCEPT !.frames = Append(@, [fn |-> f.fn, pc |-> 1, base |-> to,
                                               ups |-> f.ups, then |-> Unspec]),
                         !.regs = [i \in DOMAIN @ |->
                                     IF i - to \in 1..Len(ps) THEN ps[i - to]
                                     ELSE IF i - to \in 1..fn.regs THEN Unspec ELSE @[i]]]

\* call_value of the procedure in register base with n arguments after it.  A
\* primitive that calls back queues the call (vm->pending_proc), which takes
\* the primitive's place; call-with-values leaves a frame for its consumer.
RECURSIVE call_value(_, _, _, _, _)
call_value(m, f, base, n, tail) ==
    LET as == [i \in 1..n |-> m.regs[base + i + 1]]
        cur == Last(m.frames)
        to == IF tail THEN cur.base ELSE base
        left == IF tail THEN [close_upvalues(m, cur.base) EXCEPT !.frames = Front(@)] ELSE m
        pend(g, bs, mm) == call_value(PutArgs(mm, to, bs), g, to, Len(bs), FALSE)
        v == Primitive(f.p, as)
        await == [left EXCEPT !.frames = Append(@, [fn |-> -1, pc |-> 1, base |-> to, ups |-> <<>>,
                                                    then |-> as[2]])]
    IN CASE f.k \notin {"clo", "prim"} -> [m EXCEPT !.st = "error"]
         [] f.k = "clo" -> EnterClosure(m, f, base, n, tail)
         [] f.p = "apply" -> pend(as[1], as[2].l, left)
         [] f.p = "call-with-values" -> pend(as[1], <<>>, await)
         [] v = Err -> [m EXCEPT !.st = "error"]
         [] OTHER -> Ended([left EXCEPT !.regs[to + 1] = v], v)

FnOf(f) == IF f.fn = 0 THEN code.main ELSE code.fns[f.fn]

\* One instruction of run_until.
Execute(m) ==
    LET f == Last(m.frames)
        ins == FnOf(f).code[f.pc]
        op == ins[1]
        n == Jumped(m, f.pc + 1)
        r(i) == Reg(m, ins[i])
        closed == close_upvalues(m, f.base)
        back == [closed EXCEPT !.frames = Front(@), !.regs[f.base + 1] = r(2)]
        c == MakeClosure(n, ins[3])
    IN CASE op = "LOAD" -> PutReg(n, ins[2], ins[3])
         [] op = "MOVE" -> PutReg(n, ins[2], r(3))
         [] op = "GET_UPVALUE" -> PutReg(n, ins[2], UpGet(m, f.ups[ins[3] + 1]))
         [] op = "SET_UPVALUE" -> UpSet(n, f.ups[ins[2] + 1], r(3))
         [] op = "GET_GLOBAL" ->
              IF ins[3] \in DOMAIN m.globals /\ m.globals[ins[3]] # Undef
              THEN PutReg(n, ins[2], m.globals[ins[3]])
              ELSE [m EXCEPT !.st = "error"]
         [] op = "SET_GLOBAL" -> IF m.globals[ins[2]] # Undef THEN [n EXCEPT !.globals[ins[2]] = r(3)]
                                 ELSE [m EXCEPT !.st = "error"]
         [] op = "DEFINE_GLOBAL" -> [n EXCEPT !.globals[ins[2]] = r(3)]
         [] op = "JUMP" -> Jumped(m, ins[2])
         [] op = "JUMP_FALSE" -> IF r(2) = F THEN Jumped(m, ins[3]) ELSE n
         [] op = "JUMP_TRUE" -> IF r(2) # F THEN Jumped(m, ins[3]) ELSE n
         [] op = "CLOSURE" -> PutReg(c.m, ins[2], [k |-> "clo", fn |-> ins[3], ups |-> c.ups])
         [] op = "CALL" -> call_value(n, r(2), f.base + ins[2], ins[3], FALSE)
         [] op = "TAIL_CALL" -> call_value(n, r(2), f.base + ins[2], ins[3], TRUE)
         [] op = "RETURN" -> Ended(back, r(2))
         [] op = "HALT" -> Halted(m, r(2))

\* A consumer takes the values its producer left.
Consume(m) ==
    LET f == Last(m.frames)
        vs == Spread(m.regs[f.base + 1])
    IN call_value(PutArgs([m EXCEPT !.frames = Front(@)], f.base, vs), f.then, f.base, Len(vs), FALSE)

-----------------------------------------------------------------------------
(* Reference: what an expression means, form by form, with an environment of  *)
(* locations.                                                                 *)

NoEnv == <<>>
EnvNames(env) == {env[i].name : i \in 1..Len(env)}
EnvLoc(env, name) == (CHOOSE i \in 1..Len(env) : env[i].name = name
                        /\ \A j \in (i + 1)..Len(env) : env[j].name # name)
Bound(env, st, names, vs) ==
    [env |-> env \o [i \in 1..Len(names) |-> [name |-> names[i], loc |-> Len(st.store) + i]],
     st |-> [st EXCEPT !.store = @ \o vs]]
Fails(st) == [v |-> Unspec, st |-> [st EXCEPT !.err = TRUE]]
Gives(v, st) == [v |-> v, st |-> st]
AssignVar(name, v, env, st) ==
    IF name \in EnvNames(env) THEN [st EXCEPT !.store[env[EnvLoc(env, name)].loc] = v]
    ELSE IF st.globals[name.s] = Undef THEN [st EXCEPT !.err = TRUE]
    ELSE [st EXCEPT !.globals[name.s] = v]
LookUp(name, env, st) ==
    IF name \in EnvNames(env) THEN Gives(st.store[env[EnvLoc(env, name)].loc], st)
    ELSE IF name.s \notin DOMAIN st.globals \/ st.globals[name.s] = Undef THEN Fails(st)
    ELSE Gives(st.globals[name.s], st)

RECURSIVE Eval(_, _, _), EvalAll(_, _, _), ApplyRef(_, _, _), EvalSeq(_, _, _), EvalDefs(_, _, _),
          EvalCond(_, _, _), EvalCase(_, _, _, _), EvalQuasi(_, _, _, _), EvalBinds(_, _, _, _),
          EvalLoop(_, _, _, _)

\* The values of es, left to right.
EvalAll(es, env, st) ==
    IF es = <<>> THEN [vs |-> <<>>, st |-> st]
    ELSE LET a == Eval(es[1], env, st)
             r == EvalAll(Tail(es), env, a.st)
         IN IF a.st.err THEN [vs |-> <<>>, st |-> a.st] ELSE [vs |-> <<a.v>> \o r.vs, st |-> r.st]

EvalSeq(es, env, st) ==
    IF es = <<>> THEN Gives(Unspec, st)
    ELSE LET a == Eval(es[1], env, st)
         IN IF a.st.err \/ Len(es) = 1 THEN a ELSE EvalSeq(Tail(es), env, a.st)

\* The names of the definitions that begin a body, and their evaluation.
DefNames(d) == IF HeadIs(d, "define-values") THEN ParamNames(Args(d)[1])
               ELSE IF IsPair(Args(d)[1]) THEN <<Args(d)[1].l[1]>> ELSE <<Args(d)[1]>>
FormalVals(p, vs) == IF p.rest = <<>> THEN vs
                     ELSE Append(SubSeq(vs, 1, Len(p.fixed)), L(SubSeq(vs, Len(p.fixed) + 1, Len(vs))))
Accepts(p, vs) == IF p.rest = <<>> THEN Len(vs) = Len(p.fixed) ELSE Len(vs) >= Len(p.fixed)
EvalDefs(ds, env, st) ==
    IF ds = <<>> THEN st
    ELSE LET d == ds[1]
             e == IF IsPair(Args(d)[1]) /\ HeadIs(d, "define")
                  THEN LispLam(L(Tail(Args(d)[1].l)), Tail(Args(d))) ELSE Args(d)[2]
             a == Eval(e, env, st)
             p == ParamList(Args(d)[1])
             vs == IF HeadIs(d, "define") THEN <<a.v>> ELSE FormalVals(p, Spread(a.v))
             set(t, i) == AssignVar(DefNames(d)[i], vs[i], env, t)
         IN IF a.st.err THEN a.st
            ELSE IF HeadIs(d, "define-values") /\ ~Accepts(p, Spread(a.v)) THEN Fails(a.st).st
            ELSE EvalDefs(Tail(ds), env,
                          FoldLeft(set, a.st, [i \in 1..Len(DefNames(d)) |-> i]))

IsDef(e) == HeadIs(e, "define") \/ HeadIs(e, "define-values")
RECURSIVE DefsOf(_)
DefsOf(body) == LET w == Spliced(body)
                    r == DefsOf(Tail(w))
                IN IF w = <<>> \/ ~IsDef(w[1]) THEN [defs |-> <<>>, rest |-> w]
                   ELSE [r EXCEPT !.defs = <<w[1]>> \o @]
AfterDefs(rest, env, st) == IF st.err THEN Fails(st) ELSE EvalSeq(rest, env, st)
BodyIn(w, b) == AfterDefs(w.rest, b.env, EvalDefs(w.defs, b.env, b.st))
BodyNaming(w, names, env, st) ==
    BodyIn(w, Bound(env, st, names, [i \in 1..Len(names) |-> F]))   \* #f until defined
BodyOf(w, env, st) == BodyNaming(w, FlattenSeq(Each(DefNames, w.defs)), env, st)
EvalBody(body, env, st) == BodyOf(DefsOf(body), env, st)

EvalIn(body, b) == EvalBody(body, b.env, b.st)
EnterRef(clo, vs, st) ==
    EvalIn(clo.body, Bound(clo.env, st, clo.p.fixed \o clo.p.rest, FormalVals(clo.p, vs)))
ClauseFor(cs, vs) == SelectInSeq(cs, LAMBDA c : Accepts(c.p, vs))
Consumed(f, made) == IF made.st.err THEN made ELSE ApplyRef(f, Spread(made.v), made.st)
PrimRef(v, st) == IF v = Err THEN Fails(st) ELSE Gives(v, st)
ApplyRef(f, vs, st) ==
    CASE f.k = "rcase" -> IF ClauseFor(f.cs, vs) = 0 THEN Fails(st) ELSE EnterRef(f.cs[ClauseFor(f.cs, vs)], vs, st)
      [] f.k = "rclo" -> IF Accepts(f.p, vs) THEN EnterRef(f, vs, st) ELSE Fails(st)
      [] f.k # "prim" -> Fails(st)
      [] f.p = "apply" -> ApplyRef(vs[1], vs[2].l, st)
      [] f.p = "call-with-values" -> Consumed(vs[2], ApplyRef(vs[1], <<>>, st))
      [] OTHER -> PrimRef(Primitive(f.p, vs), st)

EvalCond(cs, env, st) ==
    LET c == cs[1].l
        a == IF c[1] = Y("else") THEN Gives(B(TRUE), st) ELSE Eval(c[1], env, st)
        f == Eval(c[3], env, a.st)
    IN CASE cs = <<>> -> Gives(Unspec, st)
         [] a.st.err -> a
         [] a.v = F -> EvalCond(Tail(cs), env, a.st)
         [] Len(c) = 1 -> a
         [] c[2] = Y("=>") -> IF f.st.err THEN f ELSE ApplyRef(f.v, <<a.v>>, f.st)
         [] OTHER -> EvalSeq(Tail(c), env, a.st)

EvalCase(v, cs, env, st) ==
    LET c == cs[1].l
        f == Eval(c[3], env, st)
    IN IF cs = <<>> THEN Gives(Unspec, st)
       ELSE IF c[1] # Y("else") /\ v \notin ToSet(c[1].l) THEN EvalCase(v, Tail(cs), env, st)
       ELSE IF c[2] # Y("=>") THEN EvalSeq(Tail(c), env, st)
       ELSE IF f.st.err THEN f ELSE ApplyRef(f.v, <<v>>, f.st)

\* A template: what is not unquoted stands for itself.
EvalQuasi(xs, level, env, st) ==
    LET x == xs[1]
        spliced == level = 0 /\ HeadIs(x, "unquote-splicing")
        hole == level = 0 /\ HeadIs(x, "unquote")
        deeper == IF HeadIs(x, "quasiquote") THEN level + 1
                  ELSE IF HeadIs(x, "unquote") THEN level - 1 ELSE level
        a == IF hole \/ spliced THEN Eval(Args(x)[1], env, st)
             ELSE IF ~IsPair(x) THEN Gives(x, st)
             ELSE LET q == EvalQuasi(x.l, deeper, env, st) IN Gives(L(q.vs), q.st)
        r == EvalQuasi(Tail(xs), level, env, a.st)
    IN IF xs = <<>> THEN [vs |-> <<>>, st |-> st]
       ELSE IF a.st.err THEN [vs |-> <<>>, st |-> a.st]
       ELSE [vs |-> (IF spliced THEN a.v.l ELSE <<a.v>>) \o r.vs, st |-> r.st]

\* let*, let*-values: one binding after the other.
EvalBinds(bs, body, env, st) ==
    LET p == ParamList(bs[1].l[1])
        a == Eval(bs[1].l[2], env, st)
        b == Bound(env, a.st, p.fixed \o p.rest, FormalVals(p, Spread(a.v)))
    IN IF bs = <<>> THEN EvalBody(body, env, st)
       ELSE IF a.st.err THEN a
       ELSE IF ~Accepts(p, Spread(a.v)) THEN Fails(a.st)
       ELSE EvalBinds(Tail(bs), body, b.env, b.st)

\* One turn of a do loop whose variables have the values vs.
EvalLoop(args, vs, env, st) ==
    LET specs == args[1].l
        b == Bound(env, st, Names1(specs), vs)
        t == Eval(args[2].l[1], b.env, b.st)
        c == EvalSeq(SubSeq(args, 3, Len(args)), b.env, t.st)
        step(s) == IF Len(s.l) = 3 THEN s.l[3] ELSE s.l[1]
        n == EvalAll(Each(step, specs), b.env, c.st)
    IN IF t.st.err THEN t
       ELSE IF t.v # F THEN EvalSeq(Args(args[2]), b.env, t.st)
       ELSE IF c.st.err THEN c
       ELSE IF n.st.err THEN Fails(n.st)
       ELSE EvalLoop(args, n.vs, env, n.st)

Eval(e, env, st) ==
    LET args == Args(e)
        a == Eval(args[1], env, st)
        all == EvalAll(e.l, env, st)
        bs == args[1].l
        inits == EvalAll(Inits(bs), env, st)
        last == Eval(Last(args), env, st)
        clo(ps, body, en) == [k |-> "rclo", p |-> ParamList(ps), body |-> body, env |-> en]
        case(c) == clo(c.l[1], Args(c), env)
        Is(s) == HeadIs(e, s)
        made(s) == IF s.err THEN Fails(s) ELSE Gives(Unspec, s)
        holes == Bound(env, st, <<args[1]>>, <<Unspec>>)
        loop == clo(L(Names1(args[2].l)), SubSeq(args, 3, Len(args)), holes.env)
    IN CASE e.k = "sym" -> LookUp(e, env, st)
         [] ~IsPair(e) -> Gives(e, st)
         [] Is("quote") -> Gives(args[1], st)
         [] Is("quasiquote") -> LET q == EvalQuasi(<<args[1]>>, 0, env, st) IN IF q.st.err THEN Fails(q.st) ELSE Gives(q.vs[1], q.st)
         [] Is("if") -> IF a.st.err THEN a
                        ELSE IF a.v # F THEN Eval(args[2], env, a.st)
                        ELSE IF Len(args) = 3 THEN Eval(args[3], env, a.st) ELSE Gives(F, a.st)
         [] Is("begin") -> EvalSeq(args, env, st)
         [] Is("and") \/ Is("or") ->
              IF args = <<>> THEN Gives(B(Is("and")), st)
              ELSE IF a.st.err \/ Len(args) = 1 \/ (a.v = F) = Is("and") THEN a
              ELSE Eval(Form(e.l[1].s, Tail(args)), env, a.st)
         [] Is("set!") -> IF last.st.err THEN last
                          ELSE LET t == AssignVar(args[1], last.v, env, last.st)
                               IN IF t.err THEN Fails(t) ELSE Gives(last.v, t)
         [] Is("define") ->
              LET d == Eval(DefineParts(args)[2], env, st)
              IN IF d.st.err THEN d
                 ELSE Gives(Unspec, [d.st EXCEPT !.globals[DefineParts(args)[1].s] = d.v])
         [] Is("define-values") ->   \* its names are known while it runs
              made(EvalDefs(<<e>>, NoEnv,
                            FoldLeft(LAMBDA t, n : [t EXCEPT !.globals[n.s] = F], st, DefNames(e))))
         [] Is("lambda") -> Gives(clo(args[1], Tail(args), env), st)
         [] Is("case-lambda") -> Gives([k |-> "rcase", cs |-> Each(case, args)], st)
         [] Is("let") /\ args[1].k = "sym" ->
              LET v == EvalAll(Inits(args[2].l), holes.env, holes.st)
                  t == [v.st EXCEPT !.store[Last(holes.env).loc] = loop]
              IN IF v.st.err THEN Fails(v.st) ELSE ApplyRef(loop, v.vs, t)
         [] Is("let") -> IF inits.st.err THEN Fails(inits.st)
                         ELSE LET b == Bound(env, inits.st, Names1(bs), inits.vs)
                              IN EvalBody(Tail(args), b.env, b.st)
         [] Is("let*") -> EvalBinds([i \in 1..Len(bs) |-> LispBind(L(<<bs[i].l[1]>>), bs[i].l[2])],
                                    Tail(args), env, st)
         [] Is("let*-values") -> EvalBinds(bs, Tail(args), env, st)
         [] Is("letrec") \/ Is("letrec*") ->
              EvalBody([i \in 1..Len(bs) |-> Form("define", bs[i].l)] \o Tail(args), env, st)
         [] Is("let-values") ->
              LET ps == [i \in 1..Len(bs) |-> ParamList(bs[i].l[1])]
                  b == Bound(env, inits.st, FlattenSeq([i \in 1..Len(bs) |-> ps[i].fixed \o ps[i].rest]),
                             FlattenSeq([i \in 1..Len(bs) |-> FormalVals(ps[i], Spread(inits.vs[i]))]))
              IN IF inits.st.err \/ (\E i \in 1..Len(bs) : ~Accepts(ps[i], Spread(inits.vs[i])))
                 THEN Fails(inits.st) ELSE EvalBody(Tail(args), b.env, b.st)
         [] Is("cond") -> EvalCond(args, env, st)
         [] Is("case") -> IF a.st.err THEN a ELSE EvalCase(a.v, Tail(args), env, a.st)
         [] Is("when") \/ Is("unless") ->
              IF a.st.err THEN a
              ELSE IF (a.v # F) = Is("when") THEN EvalSeq(Tail(args), env, a.st) ELSE Gives(Unspec, a.st)
         [] Is("do") -> IF inits.st.err THEN Fails(inits.st) ELSE EvalLoop(args, inits.vs, env, inits.st)
         [] OTHER -> IF all.st.err THEN Fails(all.st) ELSE ApplyRef(all.vs[1], Tail(all.vs), all.st)

Meaning(e) == Eval(e, NoEnv, [store |-> <<>>, globals |-> Globals0, err |-> FALSE])

\* What can be told of a value from outside.
RECURSIVE Shown(_)
Shown(v) == IF v.k \in {"clo", "rclo", "rcase", "prim"} THEN Y("procedure")
            ELSE IF v.k \in {"list", "values"} THEN [v EXCEPT !.l = Each(Shown, @)] ELSE v

-----------------------------------------------------------------------------
(* The programs: a leaf in a context in a toplevel form; Depth0 contexts.     *)

Vx == Y("x")
Vy == Y("y")
Vz == Y("z")
Vf == Y("f")
Vn == Y("n")
Call2(f, a, b) == Form(f, <<a, b>>)
ThunkOf(body) == LispLam(L(<<>>), body)
Incremented == Form("set!", <<Vx, Call2("+", Vx, N(1))>>)
Leaves == {N(1), F, Vx, Incremented, Form("list", <<Vy>>)}

Contexts(h) ==
    {Form("if", <<h, N(1)>>), Form("if", <<Form("not", <<h>>), Vx>>), LispIf(h, Vx, N(2)),
     LispBegin(<<Form("set!", <<Vx, N(7)>>), h>>), Call2("+", h, N(1)), Call2("-", h, N(0)),
     Call2("<", N(1), h), Call2("and", h, Vx), Call2("or", h, N(3)), Form("set!", <<Vx, h>>),
     LispLet(<<LispBind(Vx, h)>>, <<Call2("list", Vx, N(1))>>),
     LispLet(<<LispBind(Vy, Vx), LispBind(Vx, N(4))>>, <<h>>),
     Form("let*", <<L(<<LispBind(Vx, N(2)), LispBind(Vy, h)>>), Call2("list", Vx, Vy)>>),
     Form("letrec", <<L(<<LispBind(Vf, LispLam(L(<<Vn>>), <<LispIf(Call2("=", Vn, N(0)), h,
                                    L(<<Vf, Call2("-", Vn, N(1))>>))>>))>>), L(<<Vf, N(1)>>)>>),
     Form("let", <<Vf, L(<<LispBind(Vn, N(1)), LispBind(Vy, h)>>),
                   LispIf(Call2("=", Vn, N(0)), Vy, L(<<Vf, N(0), Call2("list", Vy, Vx)>>))>>),
     L(<<L(<<LispLam(L(<<Vy>>), <<Form("set!", <<Vx, Vy>>), ThunkOf(<<h>>)>>), N(3)>>)>>),
     \* two variables, one captured a function further in
     LispLet(<<LispBind(Vy, N(1)), LispBind(Vz, N(2))>>,
             <<LispLet(<<LispBind(Vf, ThunkOf(<<Form("set!", <<Vz, h>>), ThunkOf(<<Call2("list", Vy, Vz)>>)>>))>>,
                       <<L(<<L(<<Vf>>)>>)>>)>>),
     L(<<LispLam(L(<<Vy>>), <<LispLet(<<LispBind(Vz, N(8))>>, <<L(<<ThunkOf(<<Form("list", <<Vz, Vy, h>>)>>)>>)>>)>>), N(6)>>),
     Form("cond", <<L(<<F, N(1)>>), L(<<h>>), Form("else", <<Vx>>)>>),
     Form("cond", <<L(<<h, Y("=>"), Y("list")>>), Form("else", <<N(4)>>)>>),
     Form("case", <<h, L(<<L(<<N(1), N(6)>>), Vx>>), L(<<L(<<N(5)>>), Y("=>"), Y("list")>>), Form("else", <<N(8)>>)>>),
     Form("when", <<h, N(1), Vx>>), Form("unless", <<h, Vx>>),
     Form("do", <<L(<<L(<<Vn, N(2), Call2("-", Vn, N(1))>>), LispBind(Vy, h)>>),
                  L(<<Call2("=", Vn, N(0)), Call2("list", Vy, Vx)>>),
                  Form("set!", <<Vx, Call2("+", Vx, Vn)>>)>>),
     Form("let-values", <<L(<<LispBind(L(<<Vx, Vy>>), Call2("values", h, Vx)), LispBind(L(<<Vz>>), Vx)>>),
                          Form("list", <<Vx, Vy, Vz>>)>>),
     L(<<ThunkOf(<<Form("let-values", <<L(<<LispBind(Form("dot", <<Vy, Vz>>), Call2("values", h, Vx))>>),
                                      Call2("list", Vy, Vz)>>)>>)>>),
     Form("let*-values", <<L(<<LispBind(L(<<Vx>>), h), LispBind(Vy, Call2("values", Vx, N(1)))>>),
                           Call2("list", Vx, Vy)>>),
     L(<<Form("case-lambda", <<L(<<L(<<Vy>>), Call2("list", h, Vy)>>),
                               L(<<Form("dot", <<Vy, Vz>>), Call2("list", Vz, h)>>)>>), N(1), N(2)>>),
     Form("quasiquote", <<L(<<N(1), Form("unquote", <<h>>), Form("unquote-splicing", <<Form("list", <<h, Vx>>)>>)>>)>>),
     Form("quasiquote", <<Form("quasiquote", <<L(<<Form("unquote", <<L(<<Vx, Form("unquote", <<h>>)>>)>>)>>)>>)>>),
     L(<<ThunkOf(<<Form("define", <<Vy, h>>), LispBegin(<<Form("define", <<L(<<Vf, Vn>>), Call2("list", Vn, Vy)>>)>>),
                 L(<<Vf, Vx>>)>>)>>),
     L(<<ThunkOf(<<Form("define-values", <<Form("dot", <<Vy, Vz>>), Form("values", <<h, N(1), N(2)>>)>>),
                 Call2("list", Vy, Vz)>>)>>),
     Form("let*", <<L(<<LispBind(Vy, h)>>), Form("define", <<Vz, N(2)>>), Form("set!", <<Vx, Vz>>), Call2("list", Vy, Vz)>>),
     LispLet(<<LispBind(Y("t"), h)>>, <<Form("cond", <<L(<<F>>), Form("else", <<Y("t")>>)>>)>>),
     LispBegin(<<L(<<ThunkOf(<<Form("set!", <<Y("*"), Y("+")>>)>>)>>), Call2("*", h, N(3))>>)}

TopForms(h) ==
    {h, LispBegin(<<Form("define", <<Vy, h>>), Call2("list", Vx, Vy)>>),
     LispBegin(<<Form("define-values", <<L(<<Vy, Vz>>), Call2("values", h, N(1))>>), Call2("list", Vy, Vz)>>),
     LispBegin(<<Form("set!", <<Y("+"), Y("-")>>), Call2("+", h, N(2))>>),
     LispBegin(<<Form("define", <<L(<<Y("not"), Vy>>), Form("list", <<Vy>>)>>), LispIf(Form("not", <<h>>), N(1), N(2))>>)}

RECURSIVE Nested(_, _)
Nested(d, leaves) == IF d = 0 THEN leaves ELSE UNION {Contexts(h) : h \in Nested(d - 1, leaves)}
Programs == UNION {TopForms(h) : h \in Nested(1, Leaves)} \cup Nested(Depth0, {Incremented})

RECURSIVE Subforms(_)
Subforms(e) == {e} \cup (IF IsList(e) THEN UNION {Subforms(e.l[i]) : i \in 1..Len(e.l)} ELSE {})

\* Where the code is known to differ: a definition inside let*, whose register
\* is the one the body's values go to; a variable t around a cond that needs a
\* temporary; a primitive assigned inside a lambda expression and called at
\* the toplevel of the same form.
KnownDivergence(e) ==
    \E s \in Subforms(e) :
      \/ HeadIs(s, "let*") /\ Len(s.l) > 4 /\ HeadIs(s.l[3], "define")
      \/ s = Y("t")
      \/ HeadIs(s, "lambda") /\ \E q \in Subforms(s), p \in Prims : HeadIs(q, "set!") /\ q.l[2] = Y(p)

Machine0 == [regs |-> [i \in 1..MaxRegs |-> Unspec], cells |-> <<>>, globals |-> Globals0,
             frames |-> <<[fn |-> 0, pc |-> 1, base |-> 0, ups |-> <<>>, then |-> Unspec]>>,
             st |-> "run", v |-> Unspec]

CompInit == /\ prog \in Programs
            /\ code = ch_compile_toplevel(prog)
            /\ vm = Machine0

\* run_until: one instruction, or the call of a consumer.
CompStep == /\ vm.st = "run" /\ ~code.bad
            /\ vm' = IF Last(vm.frames).fn = -1 THEN Consume(vm) ELSE Execute(vm)
            /\ UNCHANGED <<prog, code>>
CompNext == CompStep

-----------------------------------------------------------------------------
SameOutcome(m) ==
    /\ ~code.bad
    /\ (vm.st = "error") = m.st.err
    /\ vm.st = "done" => /\ Shown(vm.v) = Shown(m.v)
                         /\ \A g \in DOMAIN Globals0 : Shown(vm.globals[g]) = Shown(m.st.globals[g])
    /\ Shown(vm.globals.x) = Shown(m.st.globals.x)

\* What the optimised and compiled code of a program computes on the machine,
\* the value and the global variables it leaves, is what the source means: the
\* folding, desugaring, register and upvalue assignment of ir_opt.c and
\* compiler*.c and the calls and tail calls of vm.c together change nothing.
CompiledMeansSource ==
    (vm.st # "run" \/ code.bad) /\ ~KnownDivergence(prog) => SameOutcome(Meaning(prog))
=============================================================================
