------------------------------- MODULE Cache --------------------------------
(* The compile cache (src/src/cache.c) as src/src/cli.c uses it: processes    *)
(* that run one source file, load its compiled functions from the cache or    *)
(* evaluate it and store them, while the file is edited, the cache cleared    *)
(* and processes killed.  Files are written and read in blocks of a stdio     *)
(* buffer; a block holds what was compiled from one text of the source.       *)
EXTENDS Integers, Sequences

CONSTANTS CacheProcs,  \* processes
          SourceTexts, \* texts the source file may hold
          BlocksOf,    \* how many blocks what a text compiles to takes
          Refused,     \* texts with a constant write_function refuses
          Failing,     \* texts whose evaluation fails
          MaxRuns,     \* bound: runs of the processes
          MaxFileEdits \* bound: edits of the source file

ASSUME CacheAssumption ==
    /\ BlocksOf \in [SourceTexts -> Nat \ {0}]
    /\ Refused \cup Failing \subseteq SourceTexts
    /\ MaxRuns \in Nat /\ MaxFileEdits \in Nat

VARIABLES sourceText, \* what the source file holds
          fileEdits,  \* edits of it so far
          inodes,     \* the contents of every file made in the cache directory
          tmpName,    \* the file named <key>.chbc.tmp, 0 for none
          entryName,  \* the file named <key>.chbc, 0 for none
          cproc,      \* the processes
          runs,       \* runs started so far
          overlapped  \* history: two stores have had the same .tmp file open

cacheVars == <<sourceText, fileEdits, inodes, tmpName, entryName, cproc, runs, overlapped>>

NoFile == 0
Hole == [text |-> "", part |-> 0]
Block(c, i) == [text |-> c, part |-> i]
Compiled(c) == [i \in 1..BlocksOf[c] |-> Block(c, i)]
IdleProc == [pc |-> "idle", text |-> "", file |-> NoFile, at |-> 0, got |-> <<>>]

CacheInit ==
    /\ sourceText \in SourceTexts /\ fileEdits = 0
    /\ inodes = <<>> /\ tmpName = NoFile /\ entryName = NoFile
    /\ cproc = [p \in CacheProcs |-> IdleProc]
    /\ runs = 0 /\ overlapped = FALSE

Becomes(p, q) == cproc' = [cproc EXCEPT ![p] = q]
Goes(p, pc) == Becomes(p, [cproc[p] EXCEPT !.pc = pc])
Storing == {"store", "renaming"}

-----------------------------------------------------------------------------
(* Loading                                                                    *)

\* run_file reads the source.
RunFile(p) ==
    /\ cproc[p].pc \in {"idle", "hit"} /\ runs < MaxRuns
    /\ runs' = runs + 1
    /\ Becomes(p, [IdleProc EXCEPT !.pc = "load", !.text = sourceText])
    /\ UNCHANGED <<sourceText, fileEdits, inodes, tmpName, entryName, overlapped>>

\* ch_cache_try_load opens the entry.
OpenEntry(p) ==
    /\ cproc[p].pc = "load"
    /\ IF entryName = NoFile THEN Goes(p, "eval")
       ELSE Becomes(p, [cproc[p] EXCEPT !.pc = "reading", !.file = entryName])
    /\ UNCHANGED <<sourceText, fileEdits, inodes, tmpName, entryName, runs, overlapped>>

\* The header of a file holds the hash of the source it was compiled from.
HeaderMatches(b, c) == b.part = 1 /\ b.text = c

\* What read_function meets in a block of its own text it can read; a block of
\* another text it may refuse.
ReadFails(b, q) == b # Block(q.text, q.at + 1)

\* The next block: a file that ends early or starts with another header is no
\* entry.  A later block of another text parses, or it does not.
LoadBlock(p) ==
    LET q == cproc[p]
        more == q.at < Len(inodes[q.file])
        b == inodes[q.file][q.at + 1]
        read == [q EXCEPT !.at = @ + 1, !.got = Append(@, b)]
    IN  /\ q.pc = "reading"
        /\ \/ /\ more
              /\ q.at = 0 => HeaderMatches(b, q.text)
              /\ Becomes(p, IF read.at = BlocksOf[q.text] THEN [read EXCEPT !.pc = "hit"] ELSE read)
           \/ /\ more => ReadFails(b, q)
              /\ Goes(p, "eval")
        /\ UNCHANGED <<sourceText, fileEdits, inodes, tmpName, entryName, runs, overlapped>>

-----------------------------------------------------------------------------
(* Storing                                                                    *)

\* ch_eval_source, and the compilation in a cold VM that follows when it
\* succeeds.
Evaluate(p) ==
    /\ cproc[p].pc = "eval"
    /\ IF cproc[p].text \in Failing THEN Becomes(p, IdleProc) ELSE Goes(p, "open")
    /\ UNCHANGED <<sourceText, fileEdits, inodes, tmpName, entryName, runs, overlapped>>

\* Slip: the entry itself is opened for writing.
OpenTmp_Entry(p) ==
    /\ cproc[p].pc = "open"
    /\ IF entryName = NoFile
       THEN /\ inodes' = Append(inodes, <<>>)
            /\ entryName' = Len(inodes) + 1
       ELSE inodes' = [inodes EXCEPT ![entryName] = <<>>] /\ UNCHANGED entryName
    /\ Becomes(p, [cproc[p] EXCEPT !.pc = "store", !.file = entryName', !.at = 0])
    /\ UNCHANGED <<sourceText, fileEdits, tmpName, runs, overlapped>>

\* fopen(tmp, "wb"): every process uses the same name, so it may empty the file
\* another one is writing.
OpenTmp(p) ==
    /\ cproc[p].pc = "open"
    /\ IF tmpName = NoFile
       THEN /\ inodes' = Append(inodes, <<>>)
            /\ tmpName' = Len(inodes) + 1
       ELSE inodes' = [inodes EXCEPT ![tmpName] = <<>>] /\ UNCHANGED tmpName
    /\ overlapped' = (overlapped \/ \E o \in CacheProcs \ {p} :
                                       cproc[o].pc \in Storing /\ cproc[o].file = tmpName')
    /\ Becomes(p, [cproc[p] EXCEPT !.pc = "store", !.file = tmpName', !.at = 0])
    /\ UNCHANGED <<sourceText, fileEdits, entryName, runs>>

\* A full buffer is written where this process is in the file, which another
\* one may have emptied.
WriteBlock(p) ==
    LET q == cproc[p]
        s == inodes[q.file]
        put == [i \in 1..(IF Len(s) > q.at THEN Len(s) ELSE q.at + 1) |->
                   IF i = q.at + 1 THEN Block(q.text, i)
                   ELSE IF i \in DOMAIN s THEN s[i] ELSE Hole]
    IN  /\ q.pc = "store"
        /\ q.at < (IF q.text \in Refused THEN BlocksOf[q.text] - 1 ELSE BlocksOf[q.text])
        /\ inodes' = [inodes EXCEPT ![q.file] = put]
        /\ Becomes(p, [q EXCEPT !.at = @ + 1,
                                !.pc = IF q.at + 1 = BlocksOf[q.text] THEN "renaming" ELSE "store"])
        /\ UNCHANGED <<sourceText, fileEdits, tmpName, entryName, runs, overlapped>>

\* The last buffer is written by fclose, whose result is not looked at: a write
\* that fails there leaves a short file that is renamed like a whole one.
CloseFails(p) ==
    /\ cproc[p].pc = "store" /\ cproc[p].text \notin Refused
    /\ cproc[p].at + 1 = BlocksOf[cproc[p].text]
    /\ Goes(p, "renaming")
    /\ UNCHANGED <<sourceText, fileEdits, inodes, tmpName, entryName, runs, overlapped>>

\* A constant that cannot be written: the file is closed and unlinked.
RefuseConstant(p) ==
    /\ cproc[p].pc = "store" /\ cproc[p].text \in Refused
    /\ tmpName' = NoFile
    /\ Becomes(p, IdleProc)
    /\ UNCHANGED <<sourceText, fileEdits, inodes, entryName, runs, overlapped>>

\* rename, or unlink when it fails because the name is gone.
RenameTmp(p) ==
    /\ cproc[p].pc = "renaming"
    /\ entryName' = IF tmpName = NoFile THEN entryName ELSE tmpName
    /\ tmpName' = NoFile
    /\ Becomes(p, IdleProc)
    /\ UNCHANGED <<sourceText, fileEdits, inodes, runs, overlapped>>

-----------------------------------------------------------------------------
(* The environment                                                            *)

EditSource ==
    /\ fileEdits < MaxFileEdits /\ fileEdits' = fileEdits + 1
    /\ \E c \in SourceTexts \ {sourceText} : sourceText' = c
    /\ UNCHANGED <<inodes, tmpName, entryName, cproc, runs, overlapped>>

\* A process is killed: what it has written stays.
KillProcess(p) ==
    /\ cproc[p].pc \in Storing
    /\ Becomes(p, IdleProc)
    /\ UNCHANGED <<sourceText, fileEdits, inodes, tmpName, entryName, runs, overlapped>>

\* chaaya cache clear unlinks one entry of the directory after another.
ClearEntry ==
    /\ \/ tmpName # NoFile /\ tmpName' = NoFile /\ UNCHANGED entryName
       \/ entryName # NoFile /\ entryName' = NoFile /\ UNCHANGED tmpName
    /\ UNCHANGED <<sourceText, fileEdits, inodes, cproc, runs, overlapped>>

CacheNext ==
    \/ \E p \in CacheProcs :
         \/ RunFile(p) \/ OpenEntry(p) \/ LoadBlock(p) \/ Evaluate(p)
         \/ OpenTmp(p) \/ WriteBlock(p) \/ CloseFails(p) \/ RefuseConstant(p)
         \/ RenameTmp(p) \/ KillProcess(p)
    \/ EditSource \/ ClearEntry

-----------------------------------------------------------------------------
\* A process that takes its functions from the cache runs exactly what the text
\* it has read compiles to, whatever was edited, cleared, killed, half written or
\* lost at fclose before or meanwhile (ch_cache_try_load, cache_write_blob_file).
\* Left out are stores that had the one .tmp file open at the same time: there
\* the entry can mix the blocks of two texts.
HitIsOwnSource ==
    \A p \in CacheProcs :
        cproc[p].pc = "hit" /\ ~overlapped => cproc[p].got = Compiled(cproc[p].text)
=============================================================================
