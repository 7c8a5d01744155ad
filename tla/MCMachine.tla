----------------------------- MODULE MCMachine ------------------------------
(* The instances of the run Machine.  The parts of the interpreter below      *)
(* share no variable; a behaviour is about the one its subject names, and the *)
(* others rest in one state.                                                  *)
EXTENDS VmControl, VmUpvalues, Reactor, Heap, DeepCopy, LibraryLoad, HashTable, Cache,
        Compiler, Lists, Strings, Vectors, Numbers, ReadWrite

CONSTANTS t1, t2, t3, t4  \* the texts of the source file

VARIABLE subject

\* t3 holds a constant the cache refuses, t4 fails.
MCBlocks == (t1 :> 2) @@ (t2 :> 3) @@ (t3 :> 2) @@ (t4 :> 1)

Subjects == {"control", "upvalues", "timers", "descriptors", "heap", "copy", "library",
             "import set", "hash table", "cache", "compiler", "lists", "strings", "vectors",
             "numbers", "literal", "datum"}

\* A node that nothing refers to is not copied, so one such node is enough.
Referred(n) ==
    \/ graph[n] = [kind |-> "port", a |-> 0, b |-> 0]
    \/ \E m \in Nodes \ {n} : n \in {graph[m].a, graph[m].b}

\* The libraries differ in their names alone: those with more imports come first.
ByImports == \A l \in Libs, m \in Libs : l < m => Len(files[l].imports) >= Len(files[m].imports)

\* The others start in the first of their states.
MachineInit ==
    /\ subject \in Subjects
    /\ VmInit /\ ReactorInit /\ HeapInit
    /\ CacheInit /\ sourceText = t1
    /\ SetInit /\ (subject = "import set" \/ mods = <<CHOOSE m \in Modifiers : TRUE>>)
    /\ LibInit /\ (IF subject = "library" THEN ByImports ELSE \A l \in Libs : files[l].imports = <<>>)
    /\ UvInit /\ (subject = "upvalues" \/ regs[1] = 0)
    /\ HtInit /\ (subject = "hash table" \/ hash = [k \in HtKeys |-> 0])
    /\ IF subject = "copy" THEN CopyInit /\ \A n \in Nodes \ {1} : Referred(n)
       ELSE graph = [n \in Nodes |-> [kind |-> "port", a |-> 0, b |-> 0]] /\ copy = NotCopied
    /\ IF subject = "compiler" THEN CompInit
       ELSE prog = Vx /\ code = ch_compile_toplevel(Vx) /\ vm = Machine0
    /\ IF subject = "lists" THEN ListsInit ELSE lists = NoLists
    /\ IF subject = "strings" THEN StringsInit ELSE strs = NoStrings
    /\ IF subject = "vectors" THEN VectorsInit ELSE vecs = NoVectors
    /\ IF subject = "numbers" THEN NumbersInit ELSE nums = NoNumbers
    /\ IF subject = "literal" THEN ReadNumberInit ELSE literal = NoLiteral
    /\ IF subject = "datum" THEN ReadWriteInit ELSE rw = NoDatum

dataVars == <<lists, strs, vecs, nums, literal, rw>>
codeVars == <<compVars, copyVars>>
storeVars == <<heapVars, htVars, cacheVars>>
importVars == <<libVars, setVars>>
controlVars == <<vmVars, uvVars>>

\* A primitive, a reading or a writing is one call, which its initial state
\* makes: the last six subjects take no step.
MachineNext ==
    /\ UNCHANGED <<subject, dataVars>>
    /\ \/ subject = "control" /\ VmNext
          /\ UNCHANGED <<uvVars, reactorVars, codeVars, storeVars, importVars>>
       \/ subject = "upvalues" /\ UvNext
          /\ UNCHANGED <<vmVars, reactorVars, codeVars, storeVars, importVars>>
       \/ subject = "timers" /\ TimerNext
          /\ UNCHANGED <<controlVars, codeVars, storeVars, importVars>>
       \/ subject = "descriptors" /\ FdNext
          /\ UNCHANGED <<controlVars, codeVars, storeVars, importVars>>
       \/ subject = "heap" /\ HeapNext
          /\ UNCHANGED <<controlVars, reactorVars, codeVars, htVars, cacheVars, importVars>>
       \/ subject = "hash table" /\ HtNext
          /\ UNCHANGED <<controlVars, reactorVars, codeVars, heapVars, cacheVars, importVars>>
       \/ subject = "cache" /\ CacheNext
          /\ UNCHANGED <<controlVars, reactorVars, codeVars, heapVars, htVars, importVars>>
       \/ subject = "copy" /\ CopyNext
          /\ UNCHANGED <<controlVars, reactorVars, compVars, storeVars, importVars>>
       \/ subject = "compiler" /\ CompNext
          /\ UNCHANGED <<controlVars, reactorVars, copyVars, storeVars, importVars>>
       \/ subject = "library" /\ LibNext
          /\ UNCHANGED <<controlVars, reactorVars, codeVars, storeVars, setVars>>
       \/ subject = "import set" /\ SetNext
          /\ UNCHANGED <<controlVars, reactorVars, codeVars, storeVars, libVars>>

MachineSpec ==
    MachineInit /\ [][MachineNext]_<<subject, dataVars, controlVars, reactorVars, codeVars,
                                     storeVars, importVars>>
=============================================================================
