---------------------------- MODULE LibraryProofs ----------------------------
(* Proofs about the compile cache and the loading of libraries, for any        *)
(* processes, files, libraries and any number of runs, imports and edits.      *)
EXTENDS Cache, LibraryLoad, SequenceTheorems, TLAPS

CacheSpec == CacheInit /\ [][CacheNext]_cacheVars

-----------------------------------------------------------------------------
(* What a file holds                                                          *)

\* The first n blocks of what c compiles to.
Written(c, n) == [i \in 1..n |-> Block(c, i)]

\* What one process has written, from its own text.
OwnFiles == {Written(c, n) : c \in SourceTexts, n \in Nat}

\* c compiles to at least n blocks.
Within(c, n) == c \in SourceTexts /\ n \in Nat /\ n <= BlocksOf[c]

\* A file holds the beginning of one text's functions and no more.
Pure(s) == \E c \in SourceTexts, n \in Nat : Within(c, n) /\ s = Written(c, n)

\* The number of blocks of a text is positive.
LEMMA SizeIsNat == ASSUME NEW c \in SourceTexts PROVE BlocksOf[c] \in Nat /\ BlocksOf[c] > 0
  BY CacheAssumption

\* A file written by one process is a sequence of as many blocks as were
\* written.
LEMMA WrittenSeq ==
  ASSUME NEW c, NEW n \in Nat
  PROVE  /\ Written(c, n) \in Seq([text : {c}, part : Nat])
         /\ Len(Written(c, n)) = n
         /\ \A i \in 1..n : Written(c, n)[i] = Block(c, i)
  BY DEF Written, Block

\* An empty file is the beginning of every text's functions.
LEMMA WrittenNone == ASSUME NEW c PROVE Written(c, 0) = <<>>
<1>1. Written(c, 0) \in Seq([text : {c}, part : Nat]) /\ Len(Written(c, 0)) = 0  BY WrittenSeq
<1> QED  BY <1>1

\* Reading a further block of one's own text.
LEMMA WrittenMore ==
  ASSUME NEW c, NEW n \in Nat
  PROVE  Append(Written(c, n), Block(c, n + 1)) = Written(c, n + 1)
<1> DEFINE B == [text : {c}, part : Nat]
<1>1. Written(c, n) \in Seq(B) /\ Len(Written(c, n)) = n
         /\ \A i \in 1..n : Written(c, n)[i] = Block(c, i)  BY WrittenSeq
<1>0. n + 1 \in Nat  OBVIOUS
<1>2. Written(c, n + 1) \in Seq(B) /\ Len(Written(c, n + 1)) = n + 1
         /\ \A i \in 1..(n + 1) : Written(c, n + 1)[i] = Block(c, i)  BY <1>0, WrittenSeq
<1>3. Block(c, n + 1) \in B  BY DEF Block
<1>4. Append(Written(c, n), Block(c, n + 1)) \in Seq(B)  BY <1>1, <1>3
<1>5. Len(Append(Written(c, n), Block(c, n + 1))) = n + 1  BY <1>1
<1>6. \A i \in 1..(n + 1) : Append(Written(c, n), Block(c, n + 1))[i] = Written(c, n + 1)[i]
  <2> TAKE i \in 1..(n + 1)
  <2>1. CASE i = n + 1
    <3>1. Append(Written(c, n), Block(c, n + 1))[n + 1] = Block(c, n + 1)  BY <1>1, <1>3, AppendProperties
    <3> QED  BY <1>2, <2>1, <3>1
  <2>2. CASE i # n + 1
    <3>1. i \in 1..n  BY <2>2
    <3>2. Append(Written(c, n), Block(c, n + 1))[i] = Written(c, n)[i]  BY <1>1, <1>3, <3>1, AppendProperties
    <3> QED  BY <1>1, <1>2, <3>1, <3>2
  <2> QED  BY <2>1, <2>2
<1> QED  BY <1>2, <1>4, <1>5, <1>6, SeqEqual

\* A file that is not empty tells what text it was compiled from.
LEMMA WrittenOnce ==
  ASSUME NEW c, NEW d, NEW m \in Nat, NEW n \in Nat,
         Written(c, m) = Written(d, n)
  PROVE  m = n /\ (m >= 1 => c = d)
<1>1. m = n  BY WrittenSeq
<1>2. ASSUME m >= 1 PROVE c = d
  <2>0. 1 \in 1..m /\ 1 \in 1..n  BY <1>1, <1>2
  <2>1. Written(c, m)[1] = Block(c, 1) /\ Written(d, n)[1] = Block(d, 1)
    BY <2>0, WrittenSeq
  <2>2. Block(c, 1) = Block(d, 1)  BY <2>1
  <2>3. Block(c, 1).text = c /\ Block(d, 1).text = d  BY DEF Block
  <2> QED  BY <2>2, <2>3
<1> QED  BY <1>1, <1>2

-----------------------------------------------------------------------------
(* The inductive invariant.  It speaks of the states no two stores have had    *)
(* the one .tmp file open in: there every file holds the beginning of one      *)
(* text's functions, a file has one writer, and the entry is not written over  *)
(* while it is read, because the entry's file is never again the .tmp file.    *)

\* Reading: what was read is the beginning of what the process's text compiles
\* to, and after the header it is known that the file holds that text.
Reads(q, fs, tmp) ==
    /\ q.file \in 1..Len(fs) /\ q.file # tmp
    /\ q.got = Written(q.text, q.at) /\ q.at < BlocksOf[q.text]
    /\ q.at >= 1 => \E n \in Nat : Within(q.text, n) /\ n >= q.at /\ fs[q.file] = Written(q.text, n)

\* Storing: the file holds what the process has written.
Writes(q, fs) ==
    /\ q.file \in 1..Len(fs)
    /\ Within(q.text, q.at) /\ fs[q.file] = Written(q.text, q.at)

Fits(q, fs, tmp) ==
    /\ q.pc # "idle" => q.text \in SourceTexts
    /\ q.pc = "load" => q.at = 0 /\ q.got = <<>>
    /\ q.pc = "reading" => Reads(q, fs, tmp)
    /\ q.pc \in Storing => Writes(q, fs)
    /\ q.pc = "hit" => q.got = Compiled(q.text)

Procs == [pc : {"idle", "load", "reading", "hit", "eval", "open", "store", "renaming"},
          text : SourceTexts \cup {""}, file : Nat, at : Nat, got : OwnFiles \cup {<<>>}]

FilesArePure == inodes \in Seq(OwnFiles) /\ \A f \in 1..Len(inodes) : Pure(inodes[f])
NamesApart == /\ sourceText \in SourceTexts
              /\ tmpName \in 0..Len(inodes) /\ entryName \in 0..Len(inodes)
              /\ tmpName # NoFile => tmpName # entryName
ProcsFit == cproc \in [CacheProcs -> Procs] /\ \A p \in CacheProcs : Fits(cproc[p], inodes, tmpName)
OneWriter == \A p \in CacheProcs, o \in CacheProcs :
                cproc[p].pc \in Storing /\ cproc[o].pc \in Storing /\ cproc[p].file = cproc[o].file
                    => p = o
Clean == FilesArePure /\ NamesApart /\ ProcsFit /\ OneWriter

CacheInv == ~overlapped => Clean

-----------------------------------------------------------------------------
(* What a process needs of the files outlives what the others do              *)

\* The file goes on holding at least what it held of a text.
Grows(s, t) ==
    \A c \in SourceTexts, n \in Nat : n >= 1 /\ Within(c, n) /\ s = Written(c, n)
        => \E m \in Nat : m >= n /\ Within(c, m) /\ t = Written(c, m)

Spared(q, fs, gs) ==
    /\ Len(fs) \in Nat /\ Len(gs) \in Nat /\ Len(fs) <= Len(gs)
    /\ q.pc \in Storing => gs[q.file] = fs[q.file]
    /\ q.pc = "reading" => Grows(fs[q.file], gs[q.file])

LEMMA FitsLater ==
  ASSUME NEW q \in Procs, NEW fs, NEW gs, NEW tmp, NEW tmp2,
         Fits(q, fs, tmp), Spared(q, fs, gs), q.pc = "reading" => q.file # tmp2
  PROVE  Fits(q, gs, tmp2)
<1>1. ASSUME q.pc = "reading" PROVE Reads(q, gs, tmp2)
  <2>1. Reads(q, fs, tmp) /\ q.text \in SourceTexts  BY <1>1 DEF Fits
  <2>2. q.file \in 1..Len(gs)  BY <1>1, <2>1 DEF Reads, Spared
  <2>3. q.at \in Nat /\ Grows(fs[q.file], gs[q.file])  BY <1>1 DEF Procs, Spared
  <2>4. ASSUME q.at >= 1
        PROVE  \E m \in Nat : Within(q.text, m) /\ m >= q.at /\ gs[q.file] = Written(q.text, m)
    <3>1. PICK n \in Nat : Within(q.text, n) /\ n >= q.at /\ fs[q.file] = Written(q.text, n)
      BY <2>1, <2>4 DEF Reads
    <3>2. n >= 1  BY <2>3, <2>4, <3>1
    <3>3. PICK m \in Nat : m >= n /\ Within(q.text, m) /\ gs[q.file] = Written(q.text, m)
      BY <2>1, <2>3, <3>1, <3>2 DEF Grows
    <3>4. m >= q.at  BY <2>3, <3>1, <3>3
    <3> QED  BY <3>3, <3>4
  <2> QED  BY <1>1, <2>1, <2>2, <2>4 DEF Reads
<1>2. ASSUME q.pc \in Storing PROVE Writes(q, gs)
  <2>1. Writes(q, fs)  BY <1>2 DEF Fits
  <2> QED  BY <1>2, <2>1 DEF Writes, Spared
<1> QED  BY <1>1, <1>2 DEF Fits

\* Where no file changes, only the name can matter.
LEMMA SparedSame ==
  ASSUME NEW q, NEW fs, Len(fs) \in Nat
  PROVE  Spared(q, fs, fs)
<1>1. Grows(fs[q.file], fs[q.file])  BY DEF Grows
<1> QED  BY <1>1 DEF Spared

\* Fits for everyone, once it holds of the process that moved.
LEMMA EveryoneFits ==
  ASSUME ProcsFit, NEW p \in CacheProcs, NEW r \in Procs, Becomes(p, r),
         Fits(r, inodes', tmpName'),
         \A o \in CacheProcs \ {p} : /\ Spared(cproc[o], inodes, inodes')
                                     /\ cproc[o].pc = "reading" => cproc[o].file # tmpName'
  PROVE  ProcsFit'
<1>1. cproc \in [CacheProcs -> Procs] /\ cproc' = [cproc EXCEPT ![p] = r]  BY DEF ProcsFit, Becomes
<1>2. cproc' \in [CacheProcs -> Procs]  BY <1>1
<1>3. ASSUME NEW o \in CacheProcs PROVE Fits(cproc'[o], inodes', tmpName')
  <2>1. CASE o = p  BY <1>1, <2>1
  <2>2. CASE o # p
    <3>1. cproc'[o] = cproc[o] /\ cproc[o] \in Procs  BY <1>1, <2>2
    <3>2. Fits(cproc[o], inodes, tmpName)  BY DEF ProcsFit
    <3>3. Spared(cproc[o], inodes, inodes') /\ (cproc[o].pc = "reading" => cproc[o].file # tmpName')
      BY <2>2
    <3>4. Fits(cproc[o], inodes', tmpName')  BY <3>1, <3>2, <3>3, FitsLater
    <3> QED  BY <3>1, <3>4
  <2> QED  BY <2>1, <2>2
<1> QED  BY <1>2, <1>3 DEF ProcsFit

-----------------------------------------------------------------------------
(* The steps                                                                  *)

\* A step that touches no file, and whose process writes only where it wrote.
LEMMA StepOutsideFiles ==
  ASSUME Clean, NEW p \in CacheProcs, NEW r \in Procs, Becomes(p, r), inodes' = inodes,
         tmpName' \in {tmpName, NoFile}, NamesApart', Fits(r, inodes, tmpName'),
         r.pc \in Storing => cproc[p].pc \in Storing /\ r.file = cproc[p].file
  PROVE  Clean'
<1>1. FilesArePure /\ NamesApart /\ ProcsFit /\ OneWriter  BY DEF Clean
<1>2. Len(inodes) \in Nat  BY <1>1 DEF FilesArePure
<1>3. cproc \in [CacheProcs -> Procs] /\ cproc' = [cproc EXCEPT ![p] = r]
  BY <1>1 DEF ProcsFit, Becomes
<1>4. FilesArePure'  BY <1>1 DEF FilesArePure
<1>5. ASSUME NEW o \in CacheProcs, cproc[o].pc = "reading" PROVE cproc[o].file # tmpName'
  <2>1. Reads(cproc[o], inodes, tmpName)  BY <1>1, <1>5 DEF ProcsFit, Fits
  <2> QED  BY <1>2, <2>1 DEF Reads, NoFile
<1>6. \A o \in CacheProcs : Spared(cproc[o], inodes, inodes')  BY <1>2, SparedSame
<1>7. ProcsFit'
  <2>1. Fits(r, inodes', tmpName')  OBVIOUS
  <2> QED  BY <1>1, <1>5, <1>6, <2>1, EveryoneFits
<1>8. OneWriter'
  <2> SUFFICES ASSUME NEW a \in CacheProcs, NEW b \in CacheProcs,
                      cproc'[a].pc \in Storing, cproc'[b].pc \in Storing,
                      cproc'[a].file = cproc'[b].file
               PROVE  a = b
    BY DEF OneWriter
  <2>1. \A o \in CacheProcs : cproc'[o].pc \in Storing
            => cproc[o].pc \in Storing /\ cproc[o].file = cproc'[o].file
    BY <1>3
  <2> QED  BY <1>1, <2>1 DEF OneWriter
<1> QED  BY <1>4, <1>7, <1>8 DEF Clean

LEMMA CleanProc ==
  ASSUME Clean, NEW p \in CacheProcs
  PROVE  cproc[p] \in Procs /\ Fits(cproc[p], inodes, tmpName)
  BY DEF Clean, ProcsFit

LEMMA IdleFits == IdleProc \in Procs /\ Fits(IdleProc, inodes, tmpName) /\ Fits(IdleProc, inodes, NoFile)
<1>1. IdleProc \in Procs  BY DEF IdleProc, Procs, NoFile
<1>2. IdleProc.pc = "idle"  BY DEF IdleProc
<1> QED  BY <1>1, <1>2 DEF Fits, Storing

LEMMA NamesKept ==
  ASSUME Clean, UNCHANGED <<sourceText, inodes, tmpName, entryName>>
  PROVE  NamesApart'
  BY DEF Clean, NamesApart

LEMMA NamesDropped ==
  ASSUME Clean, UNCHANGED <<sourceText, inodes>>, tmpName' = NoFile,
         entryName' \in {entryName, tmpName, NoFile}
  PROVE  NamesApart'
<1>1. Len(inodes) \in Nat  BY DEF Clean, FilesArePure
<1> QED  BY <1>1 DEF Clean, NamesApart, NoFile

LEMMA RunFileClean ==
  ASSUME Clean, NEW p \in CacheProcs, RunFile(p) PROVE Clean'
<1> DEFINE r == [IdleProc EXCEPT !.pc = "load", !.text = sourceText]
<1>1. Becomes(p, r) /\ UNCHANGED <<sourceText, inodes, tmpName, entryName>>  BY DEF RunFile
<1>2. sourceText \in SourceTexts  BY DEF Clean, NamesApart
<1>3. /\ r \in Procs /\ r.pc = "load" /\ r.text = sourceText /\ r.at = 0 /\ r.got = <<>>
  BY <1>2 DEF IdleProc, Procs, NoFile
<1>4. Fits(r, inodes, tmpName)  BY <1>2, <1>3 DEF Fits, Storing
<1> QED  BY <1>1, <1>3, <1>4, NamesKept, StepOutsideFiles DEF Storing

LEMMA OpenEntryClean ==
  ASSUME Clean, NEW p \in CacheProcs, OpenEntry(p) PROVE Clean'
<1> DEFINE q == cproc[p]
<1>0. q \in Procs /\ Fits(q, inodes, tmpName)  BY CleanProc
<1>1. q.pc = "load" /\ UNCHANGED <<sourceText, inodes, tmpName, entryName>>  BY DEF OpenEntry
<1>2. q.text \in SourceTexts /\ q.at = 0 /\ q.got = <<>>  BY <1>0, <1>1 DEF Fits
<1>3. NamesApart'  BY <1>1, NamesKept
<1>6. NamesApart  BY DEF Clean
<1>4. CASE entryName = NoFile
  <2>1. PICK r \in Procs : r = [q EXCEPT !.pc = "eval"]  BY <1>0 DEF Procs
  <2>2. Becomes(p, r)  BY <1>4, <2>1 DEF OpenEntry, Goes
  <2>3. r.pc = "eval" /\ r.text = q.text  BY <1>0, <2>1 DEF Procs
  <2>4. Fits(r, inodes, tmpName)  BY <1>2, <2>3 DEF Fits, Storing
  <2> QED  BY <1>1, <1>3, <2>2, <2>3, <2>4, StepOutsideFiles DEF Storing
<1>5. CASE entryName # NoFile
  <2>0. Len(inodes) \in Nat  BY DEF Clean, FilesArePure
  <2>1. entryName \in 1..Len(inodes) /\ entryName # tmpName  BY <1>5, <1>6, <2>0 DEF NamesApart, NoFile
  <2>7. entryName \in Nat  BY <2>0, <2>1
  <2>2. PICK r \in Procs : r = [q EXCEPT !.pc = "reading", !.file = entryName]
    BY <1>0, <2>7 DEF Procs
  <2>3. Becomes(p, r)  BY <1>5, <2>2 DEF OpenEntry
  <2>4. r.pc = "reading" /\ r.text = q.text /\ r.file = entryName /\ r.at = 0 /\ r.got = <<>>
    BY <1>0, <1>2, <2>2 DEF Procs
  <2>5. Reads(r, inodes, tmpName)  BY <1>2, <2>1, <2>4, SizeIsNat, WrittenNone DEF Reads
  <2>6. Fits(r, inodes, tmpName)  BY <1>2, <2>4, <2>5 DEF Fits, Storing
  <2> QED  BY <1>1, <1>3, <2>3, <2>4, <2>6, StepOutsideFiles DEF Storing
<1> QED  BY <1>4, <1>5

LEMMA EvaluateClean ==
  ASSUME Clean, NEW p \in CacheProcs, Evaluate(p) PROVE Clean'
<1> DEFINE q == cproc[p]
<1>0. q \in Procs /\ Fits(q, inodes, tmpName)  BY CleanProc
<1>1. q.pc = "eval" /\ UNCHANGED <<sourceText, inodes, tmpName, entryName>>  BY DEF Evaluate
<1>2. q.text \in SourceTexts  BY <1>0, <1>1 DEF Fits
<1>3. NamesApart'  BY <1>1, NamesKept
<1>4. CASE q.text \in Failing
  <2>1. Becomes(p, IdleProc)  BY <1>4 DEF Evaluate
  <2>2. IdleProc.pc \notin Storing  BY DEF IdleProc, Storing
  <2> QED  BY <1>1, <1>3, <2>1, <2>2, IdleFits, StepOutsideFiles
<1>5. CASE q.text \notin Failing
  <2>1. PICK r \in Procs : r = [q EXCEPT !.pc = "open"]  BY <1>0 DEF Procs
  <2>2. Becomes(p, r)  BY <1>5, <2>1 DEF Evaluate, Goes
  <2>3. r.pc = "open" /\ r.text = q.text  BY <1>0, <2>1 DEF Procs
  <2>4. Fits(r, inodes, tmpName)  BY <1>2, <2>3 DEF Fits, Storing
  <2> QED  BY <1>1, <1>3, <2>2, <2>3, <2>4, StepOutsideFiles DEF Storing
<1> QED  BY <1>4, <1>5

LEMMA KillProcessClean ==
  ASSUME Clean, NEW p \in CacheProcs, KillProcess(p) PROVE Clean'
<1>1. Becomes(p, IdleProc) /\ UNCHANGED <<sourceText, inodes, tmpName, entryName>>  BY DEF KillProcess
<1>2. IdleProc.pc \notin Storing  BY DEF IdleProc, Storing
<1> QED  BY <1>1, <1>2, NamesKept, IdleFits, StepOutsideFiles

LEMMA RefuseConstantClean ==
  ASSUME Clean, NEW p \in CacheProcs, RefuseConstant(p) PROVE Clean'
<1>1. Becomes(p, IdleProc) /\ UNCHANGED <<sourceText, inodes, entryName>> /\ tmpName' = NoFile
  BY DEF RefuseConstant
<1>2. IdleProc.pc \notin Storing  BY DEF IdleProc, Storing
<1> QED  BY <1>1, <1>2, NamesDropped, IdleFits, StepOutsideFiles

LEMMA RenameTmpClean ==
  ASSUME Clean, NEW p \in CacheProcs, RenameTmp(p) PROVE Clean'
<1>1. Becomes(p, IdleProc) /\ UNCHANGED <<sourceText, inodes>> /\ tmpName' = NoFile
        /\ entryName' \in {entryName, tmpName}
  BY DEF RenameTmp
<1>2. IdleProc.pc \notin Storing  BY DEF IdleProc, Storing
<1> QED  BY <1>1, <1>2, NamesDropped, IdleFits, StepOutsideFiles

LEMMA CloseFailsClean ==
  ASSUME Clean, NEW p \in CacheProcs, CloseFails(p) PROVE Clean'
<1> DEFINE q == cproc[p]
<1>0. q \in Procs /\ Fits(q, inodes, tmpName)  BY CleanProc
<1>1. q.pc = "store" /\ UNCHANGED <<sourceText, inodes, tmpName, entryName>>  BY DEF CloseFails
<1>2. q.text \in SourceTexts /\ Writes(q, inodes)  BY <1>0, <1>1 DEF Fits, Storing
<1>3. NamesApart'  BY <1>1, NamesKept
<1>4. PICK r \in Procs : r = [q EXCEPT !.pc = "renaming"]  BY <1>0 DEF Procs
<1>5. Becomes(p, r)  BY <1>4 DEF CloseFails, Goes
<1>6. r.pc = "renaming" /\ r.text = q.text /\ r.file = q.file /\ r.at = q.at
  BY <1>0, <1>4 DEF Procs
<1>7. Writes(r, inodes)  BY <1>2, <1>6 DEF Writes
<1>8. Fits(r, inodes, tmpName)  BY <1>2, <1>6, <1>7 DEF Fits, Storing
<1> QED  BY <1>1, <1>3, <1>5, <1>6, <1>8, StepOutsideFiles DEF Storing

\* A block read after a matching header is the next block of the process's text.
LEMMA LoadBlockClean ==
  ASSUME Clean, NEW p \in CacheProcs, LoadBlock(p) PROVE Clean'
<1> DEFINE q == cproc[p]
           b == inodes[q.file][q.at + 1]
           read == [q EXCEPT !.at = @ + 1, !.got = Append(@, b)]
<1>0. q \in Procs /\ Fits(q, inodes, tmpName)  BY CleanProc
<1>1. q.pc = "reading" /\ UNCHANGED <<sourceText, inodes, tmpName, entryName>>  BY DEF LoadBlock
<1>2. q.text \in SourceTexts /\ Reads(q, inodes, tmpName) /\ q.at \in Nat
  BY <1>0, <1>1 DEF Fits, Procs
<1>3. NamesApart'  BY <1>1, NamesKept
<1>4. CASE Goes(p, "eval")
  <2>1. PICK r \in Procs : r = [q EXCEPT !.pc = "eval"]  BY <1>0 DEF Procs
  <2>2. Becomes(p, r)  BY <1>4, <2>1 DEF Goes
  <2>3. r.pc = "eval" /\ r.text = q.text  BY <1>0, <2>1 DEF Procs
  <2>4. Fits(r, inodes, tmpName)  BY <1>2, <2>3 DEF Fits, Storing
  <2> QED  BY <1>1, <1>3, <2>2, <2>3, <2>4, StepOutsideFiles DEF Storing
<1>5. CASE /\ q.at < Len(inodes[q.file])
           /\ q.at = 0 => HeaderMatches(b, q.text)
           /\ Becomes(p, IF read.at = BlocksOf[q.text] THEN [read EXCEPT !.pc = "hit"] ELSE read)
  <2>1. PICK n \in Nat : /\ Within(q.text, n) /\ n > q.at
                         /\ inodes[q.file] = Written(q.text, n)
    <3>1. FilesArePure /\ q.file \in 1..Len(inodes)  BY <1>2 DEF Clean, Reads
    <3>2. PICK c \in SourceTexts, m \in Nat : Within(c, m) /\ inodes[q.file] = Written(c, m)
      BY <3>1 DEF FilesArePure, Pure
    <3>6. Len(Written(c, m)) = m /\ \A i \in 1..m : Written(c, m)[i] = Block(c, i)  BY WrittenSeq
    <3>7. q.at < Len(inodes[q.file])  BY <1>5
    <3>3. m > q.at  BY <3>2, <3>6, <3>7
    <3>4. CASE q.at = 0
      <4>0. 1 \in 1..m  BY <3>3, <3>4
      <4>3. Written(c, m)[1] = Block(c, 1)  BY <3>6, <4>0
      <4>1. b = Block(c, 1)  BY <3>2, <3>4, <4>3
      <4>2. c = q.text  BY <1>5, <3>4, <4>1 DEF HeaderMatches, Block
      <4> QED  BY <3>2, <3>3, <4>2
    <3>5. CASE q.at >= 1
      <4>1. PICK n \in Nat : Within(q.text, n) /\ n >= q.at /\ inodes[q.file] = Written(q.text, n)
        BY <1>2, <3>5 DEF Reads
      <4>3. Written(q.text, n) = Written(c, m)  BY <3>2, <4>1
      <4>2. n = m  BY <4>3, WrittenOnce
      <4> QED  BY <3>3, <4>1, <4>2
    <3> QED  BY <1>2, <3>4, <3>5
  <2>2. q.at + 1 \in 1..n  BY <1>2, <2>1
  <2>3. b = Block(q.text, q.at + 1)  BY <2>1, <2>2, WrittenSeq, ZenonT(40)
  <2>4. q.got = Written(q.text, q.at)  BY <1>2 DEF Reads
  <2>5. Append(q.got, b) = Written(q.text, q.at + 1)  BY <1>2, <2>3, <2>4, WrittenMore
  <2>6. Append(q.got, b) \in OwnFiles  BY <1>2, <2>5 DEF OwnFiles
  <2>12. q.at + 1 \in Nat  BY <1>2
  <2>7. PICK d \in Procs : d = read  BY <1>0, <2>6, <2>12 DEF Procs
  <2>8. /\ d.pc = "reading" /\ d.text = q.text /\ d.file = q.file /\ d.at = q.at + 1
        /\ d.got = Written(q.text, q.at + 1)
    BY <1>0, <1>1, <2>5, <2>7 DEF Procs
  <2>9. q.at + 1 <= BlocksOf[q.text] /\ BlocksOf[q.text] \in Nat
    BY <1>2, <2>1, <2>2, SizeIsNat DEF Within
  <2>10. CASE d.at = BlocksOf[q.text]
    <3>1. PICK r \in Procs : r = [d EXCEPT !.pc = "hit"]  BY DEF Procs
    <3>2. Becomes(p, r)  BY <1>5, <2>7, <2>10, <3>1
    <3>3. r.pc = "hit" /\ r.text = q.text /\ r.got = Written(q.text, q.at + 1)
      BY <2>8, <3>1 DEF Procs
    <3>4. r.got = Compiled(r.text)  BY <2>8, <2>10, <3>3 DEF Written, Compiled
    <3>5. Fits(r, inodes, tmpName)  BY <1>2, <3>3, <3>4 DEF Fits, Storing
    <3> QED  BY <1>1, <1>3, <3>2, <3>3, <3>5, StepOutsideFiles DEF Storing
  <2>11. CASE d.at # BlocksOf[q.text]
    <3>1. Becomes(p, d)  BY <1>5, <2>7, <2>11
    <3>2. d.at < BlocksOf[d.text]  BY <1>2, <2>8, <2>9, <2>11
    <3>3. n >= d.at  BY <1>2, <2>1, <2>2, <2>8
    <3>4. Reads(d, inodes, tmpName)  BY <1>2, <2>1, <2>8, <3>2, <3>3 DEF Reads
    <3>5. Fits(d, inodes, tmpName)  BY <1>2, <2>8, <3>4 DEF Fits, Storing
    <3> QED  BY <1>1, <1>3, <2>8, <3>1, <3>5, StepOutsideFiles DEF Storing
  <2> QED  BY <2>10, <2>11
<1> QED  BY <1>4, <1>5 DEF LoadBlock

\* A store empties the .tmp file or makes it; under the assumption that nobody
\* else is storing in it, nobody else's file is changed.
LEMMA OpenTmpClean ==
  ASSUME Clean, NEW p \in CacheProcs, OpenTmp(p), ~overlapped' PROVE Clean'
<1> DEFINE q == cproc[p]
<1>0. q \in Procs /\ Fits(q, inodes, tmpName)  BY CleanProc
<1>1. q.pc = "open" /\ UNCHANGED <<sourceText, entryName>>  BY DEF OpenTmp
<1>2. q.text \in SourceTexts /\ Within(q.text, 0)  BY <1>0, <1>1, SizeIsNat DEF Fits, Within
<1>3. FilesArePure /\ NamesApart /\ ProcsFit /\ OneWriter  BY DEF Clean
<1>4. inodes \in Seq(OwnFiles) /\ Len(inodes) \in Nat  BY <1>3 DEF FilesArePure
<1>5. <<>> \in OwnFiles /\ <<>> = Written(q.text, 0)  BY <1>2, WrittenNone DEF OwnFiles
<1>6. Pure(<<>>)  BY <1>2, <1>5 DEF Pure
<1>7. ASSUME NEW o \in CacheProcs \ {p}, cproc[o].pc \in Storing PROVE cproc[o].file # tmpName'
  BY <1>7 DEF OpenTmp
<1>8. /\ inodes' \in Seq(OwnFiles) /\ Len(inodes') \in Nat /\ Len(inodes) <= Len(inodes')
      /\ tmpName' \in 1..Len(inodes') /\ tmpName' # entryName
      /\ inodes'[tmpName'] = <<>>
      /\ \A f \in 1..Len(inodes) : f # tmpName' => inodes'[f] = inodes[f]
      /\ \A f \in 1..Len(inodes') : f # tmpName' => f \in 1..Len(inodes)
      /\ tmpName' = tmpName \/ tmpName' = Len(inodes) + 1
  <2>1. CASE tmpName = NoFile
    <3>1. inodes' = Append(inodes, <<>>) /\ tmpName' = Len(inodes) + 1  BY <2>1 DEF OpenTmp
    <3>2. /\ inodes' \in Seq(OwnFiles) /\ Len(inodes') = Len(inodes) + 1
          /\ \A f \in 1..Len(inodes) : inodes'[f] = inodes[f]
          /\ inodes'[Len(inodes) + 1] = <<>>
      BY <1>4, <1>5, <3>1, AppendProperties
    <3>3. entryName \in 0..Len(inodes)  BY <1>3 DEF NamesApart
    <3> QED  BY <1>4, <3>1, <3>2, <3>3
  <2>2. CASE tmpName # NoFile
    <3>1. inodes' = [inodes EXCEPT ![tmpName] = <<>>] /\ tmpName' = tmpName  BY <2>2 DEF OpenTmp
    <3>2. tmpName \in 1..Len(inodes) /\ tmpName # entryName
      BY <1>3, <1>4, <2>2 DEF NamesApart, NoFile
    <3>3. /\ inodes' \in Seq(OwnFiles) /\ Len(inodes') = Len(inodes)
          /\ \A f \in 1..Len(inodes) : f # tmpName => inodes'[f] = inodes[f]
          /\ inodes'[tmpName] = <<>>
      BY <1>4, <1>5, <3>1, <3>2
    <3> QED  BY <1>4, <3>1, <3>2, <3>3
  <2> QED  BY <2>1, <2>2
<1>9. PICK r \in Procs : r = [q EXCEPT !.pc = "store", !.file = tmpName', !.at = 0]
  <2>1. tmpName' \in Nat  BY <1>8
  <2> QED  BY <1>0, <2>1 DEF Procs
<1>10. Becomes(p, r)  BY <1>9 DEF OpenTmp
<1>11. r.pc = "store" /\ r.text = q.text /\ r.file = tmpName' /\ r.at = 0  BY <1>0, <1>9 DEF Procs
<1>12. FilesArePure'
  <2> SUFFICES ASSUME NEW f \in 1..Len(inodes') PROVE Pure(inodes'[f])
    BY <1>8 DEF FilesArePure
  <2>1. CASE f = tmpName'  BY <1>6, <1>8, <2>1
  <2>2. CASE f # tmpName'
    <3>1. f \in 1..Len(inodes) /\ inodes'[f] = inodes[f]  BY <1>8, <2>2
    <3> QED  BY <1>3, <3>1 DEF FilesArePure
  <2> QED  BY <2>1, <2>2
<1>13. NamesApart'
  <2>1. sourceText \in SourceTexts /\ entryName \in 0..Len(inodes)  BY <1>3 DEF NamesApart
  <2> QED  BY <1>1, <1>4, <1>8, <2>1 DEF NamesApart
<1>14. ProcsFit'
  <2>1. Writes(r, inodes')  BY <1>2, <1>5, <1>8, <1>11 DEF Writes
  <2>2. Fits(r, inodes', tmpName')  BY <1>2, <1>11, <2>1 DEF Fits, Storing
  <2>3. ASSUME NEW o \in CacheProcs \ {p}
        PROVE  /\ Spared(cproc[o], inodes, inodes')
               /\ cproc[o].pc = "reading" => cproc[o].file # tmpName'
    <3>1. Fits(cproc[o], inodes, tmpName)  BY <1>3 DEF ProcsFit
    <3>2. ASSUME cproc[o].pc = "reading"
          PROVE  cproc[o].file \in 1..Len(inodes) /\ cproc[o].file # tmpName'
      <4>1. Reads(cproc[o], inodes, tmpName)  BY <3>1, <3>2 DEF Fits
      <4> QED  BY <1>4, <1>8, <4>1 DEF Reads
    <3>3. ASSUME cproc[o].pc \in Storing
          PROVE  cproc[o].file \in 1..Len(inodes) /\ cproc[o].file # tmpName'
      BY <1>7, <3>1, <3>3 DEF Fits, Writes
    <3>4. cproc[o].pc = "reading" => Grows(inodes[cproc[o].file], inodes'[cproc[o].file])
      <4> SUFFICES ASSUME cproc[o].pc = "reading"
                   PROVE  Grows(inodes[cproc[o].file], inodes'[cproc[o].file])
        OBVIOUS
      <4>1. inodes'[cproc[o].file] = inodes[cproc[o].file]  BY <1>8, <3>2
      <4> QED  BY <4>1 DEF Grows
    <3>5. cproc[o].pc \in Storing => inodes'[cproc[o].file] = inodes[cproc[o].file]
      BY <1>8, <3>3
    <3> QED  BY <1>4, <1>8, <3>2, <3>4, <3>5 DEF Spared
  <2> QED  BY <1>3, <1>10, <2>2, <2>3, EveryoneFits
<1>15. OneWriter'
  <2> SUFFICES ASSUME NEW a \in CacheProcs, NEW b \in CacheProcs,
                      cproc'[a].pc \in Storing, cproc'[b].pc \in Storing,
                      cproc'[a].file = cproc'[b].file
               PROVE  a = b
    BY DEF OneWriter
  <2>1. cproc \in [CacheProcs -> Procs] /\ cproc' = [cproc EXCEPT ![p] = r]
    BY <1>3, <1>10 DEF ProcsFit, Becomes
  <2>2. cproc'[p] = r /\ \A o \in CacheProcs \ {p} : cproc'[o] = cproc[o]  BY <2>1
  <2>3. CASE a # p /\ b # p  BY <1>3, <2>2, <2>3 DEF OneWriter
  <2>4. CASE a = p /\ b # p  BY <1>7, <1>11, <2>2, <2>4
  <2>5. CASE a # p /\ b = p  BY <1>7, <1>11, <2>2, <2>5
  <2> QED  BY <2>3, <2>4, <2>5
<1> QED  BY <1>12, <1>13, <1>14, <1>15 DEF Clean

\* The only writer of a file lengthens it by the next block of its text.
LEMMA WriteBlockClean ==
  ASSUME Clean, NEW p \in CacheProcs, WriteBlock(p) PROVE Clean'
<1> DEFINE q == cproc[p]
           s == inodes[q.file]
           put == [i \in 1..(IF Len(s) > q.at THEN Len(s) ELSE q.at + 1) |->
                   IF i = q.at + 1 THEN Block(q.text, i)
                   ELSE IF i \in DOMAIN s THEN s[i] ELSE Hole]
<1>0. q \in Procs /\ Fits(q, inodes, tmpName)  BY CleanProc
<1>1. /\ q.pc = "store" /\ UNCHANGED <<sourceText, tmpName, entryName>>
      /\ inodes' = [inodes EXCEPT ![q.file] = put]
      /\ Becomes(p, [q EXCEPT !.at = @ + 1,
                             !.pc = IF q.at + 1 = BlocksOf[q.text] THEN "renaming" ELSE "store"])
  BY DEF WriteBlock
<1>2. q.text \in SourceTexts /\ Writes(q, inodes) /\ q.at \in Nat /\ BlocksOf[q.text] \in Nat
  BY <1>0, <1>1, SizeIsNat DEF Fits, Procs, Storing
<1>3. q.at < BlocksOf[q.text]
  <2>1. q.at < (IF q.text \in Refused THEN BlocksOf[q.text] - 1 ELSE BlocksOf[q.text])
    BY DEF WriteBlock
  <2> QED  BY <1>2, <2>1
<1>4. q.file \in 1..Len(inodes) /\ s = Written(q.text, q.at)  BY <1>2 DEF Writes
<1>5. Within(q.text, q.at + 1)  BY <1>2, <1>3 DEF Within
<1>6. put = Written(q.text, q.at + 1)
  <2>6. /\ Len(Written(q.text, q.at)) = q.at
        /\ \A i \in 1..q.at : Written(q.text, q.at)[i] = Block(q.text, i)
    BY <1>2, WrittenSeq
  <2>1. Len(s) = q.at /\ \A i \in 1..q.at : s[i] = Block(q.text, i)  BY <1>4, <2>6
  <2>2. DOMAIN s = 1..q.at  BY <1>4 DEF Written
  <2>3. (IF Len(s) > q.at THEN Len(s) ELSE q.at + 1) = q.at + 1  BY <1>2, <2>1
  <2>4. ASSUME NEW i \in 1..(q.at + 1)
        PROVE  (IF i = q.at + 1 THEN Block(q.text, i)
                ELSE IF i \in DOMAIN s THEN s[i] ELSE Hole) = Block(q.text, i)
    <3>1. i # q.at + 1 => i \in 1..q.at  BY <1>2
    <3> QED  BY <2>1, <2>2, <3>1
  <2>5. put = [i \in 1..(q.at + 1) |->
                   IF i = q.at + 1 THEN Block(q.text, i)
                   ELSE IF i \in DOMAIN s THEN s[i] ELSE Hole]
    BY <2>3
  <2> HIDE DEF put, s
  <2> QED  BY <2>4, <2>5 DEF Written
<1>7. inodes' = [inodes EXCEPT ![q.file] = Written(q.text, q.at + 1)]  BY <1>1, <1>6
<1> HIDE DEF put, s
<1>8. FilesArePure /\ NamesApart /\ ProcsFit /\ OneWriter  BY DEF Clean
<1>9. inodes \in Seq(OwnFiles) /\ Len(inodes) \in Nat  BY <1>8 DEF FilesArePure
<1>10. Written(q.text, q.at + 1) \in OwnFiles /\ Pure(Written(q.text, q.at + 1))
  BY <1>2, <1>5 DEF OwnFiles, Pure, Within
<1>11. /\ inodes' \in Seq(OwnFiles) /\ Len(inodes') = Len(inodes)
       /\ inodes'[q.file] = Written(q.text, q.at + 1)
       /\ \A f \in 1..Len(inodes) : f # q.file => inodes'[f] = inodes[f]
  BY <1>4, <1>7, <1>9, <1>10
<1>12. PICK r \in Procs :
          r = [q EXCEPT !.at = @ + 1,
                        !.pc = IF q.at + 1 = BlocksOf[q.text] THEN "renaming" ELSE "store"]
  <2>1. q.at + 1 \in Nat  BY <1>2
  <2> QED  BY <1>0, <2>1 DEF Procs
<1>13. Becomes(p, r)  BY <1>1, <1>12
<1>14. r.pc \in Storing /\ r.text = q.text /\ r.file = q.file /\ r.at = q.at + 1
  BY <1>0, <1>12 DEF Procs, Storing
<1>15. FilesArePure'
  <2> SUFFICES ASSUME NEW f \in 1..Len(inodes') PROVE Pure(inodes'[f])
    BY <1>11 DEF FilesArePure
  <2>1. CASE f = q.file  BY <1>10, <1>11, <2>1
  <2>2. CASE f # q.file  BY <1>8, <1>11, <2>2 DEF FilesArePure
  <2> QED  BY <2>1, <2>2
<1>16. NamesApart'  BY <1>1, <1>8, <1>11 DEF NamesApart
<1>17. ProcsFit'
  <2>1. Writes(r, inodes')  BY <1>4, <1>5, <1>11, <1>14 DEF Writes
  <2>2. Fits(r, inodes', tmpName')  BY <1>2, <1>14, <2>1 DEF Fits, Storing
  <2>3. Grows(Written(q.text, q.at), Written(q.text, q.at + 1))
    <3> SUFFICES ASSUME NEW c \in SourceTexts, NEW n \in Nat, n >= 1, Within(c, n),
                        Written(q.text, q.at) = Written(c, n)
                 PROVE  \E m \in Nat : /\ m >= n /\ Within(c, m)
                                       /\ Written(q.text, q.at + 1) = Written(c, m)
      BY DEF Grows
    <3>1. n = q.at /\ q.text = c  BY <1>2, WrittenOnce
    <3>2. q.at + 1 \in Nat /\ q.at + 1 >= n  BY <1>2, <3>1
    <3> QED  BY <1>5, <3>1, <3>2
  <2>4. ASSUME NEW o \in CacheProcs \ {p}
        PROVE  /\ Spared(cproc[o], inodes, inodes')
               /\ cproc[o].pc = "reading" => cproc[o].file # tmpName'
    <3>1. Fits(cproc[o], inodes, tmpName)  BY <1>8 DEF ProcsFit
    <3>2. ASSUME cproc[o].pc = "reading"
          PROVE  cproc[o].file \in 1..Len(inodes) /\ cproc[o].file # tmpName'
      BY <1>1, <3>1, <3>2 DEF Fits, Reads
    <3>3. ASSUME cproc[o].pc \in Storing
          PROVE  cproc[o].file \in 1..Len(inodes) /\ cproc[o].file # q.file
      <4>1. cproc[o].file \in 1..Len(inodes)  BY <3>1, <3>3 DEF Fits, Writes
      <4>2. q.pc \in Storing  BY <1>1 DEF Storing
      <4> QED  BY <1>8, <3>3, <4>1, <4>2 DEF OneWriter
    <3>4. ASSUME cproc[o].pc = "reading"
          PROVE  Grows(inodes[cproc[o].file], inodes'[cproc[o].file])
      <4>1. CASE cproc[o].file = q.file
        <5>1. inodes[q.file] = Written(q.text, q.at)  BY <1>4 DEF s
        <5> QED  BY <1>11, <2>3, <4>1, <5>1
      <4>2. CASE cproc[o].file # q.file
        <5>1. inodes'[cproc[o].file] = inodes[cproc[o].file]  BY <1>11, <3>2, <3>4, <4>2
        <5> QED  BY <5>1 DEF Grows
      <4> QED  BY <4>1, <4>2
    <3>5. ASSUME cproc[o].pc \in Storing PROVE inodes'[cproc[o].file] = inodes[cproc[o].file]
      BY <1>11, <3>3, <3>5
    <3> QED  BY <1>9, <1>11, <3>2, <3>4, <3>5 DEF Spared
  <2> QED  BY <1>8, <1>13, <2>2, <2>4, EveryoneFits
<1>18. OneWriter'
  <2>1. cproc \in [CacheProcs -> Procs] /\ cproc' = [cproc EXCEPT ![p] = r]
    BY <1>8, <1>13 DEF ProcsFit, Becomes
  <2>2. q.pc \in Storing  BY <1>1 DEF Storing
  <2>3. \A o \in CacheProcs : cproc'[o].pc \in Storing
            => cproc[o].pc \in Storing /\ cproc[o].file = cproc'[o].file
    BY <1>14, <2>1, <2>2
  <2> QED  BY <1>8, <2>3 DEF OneWriter
<1> QED  BY <1>15, <1>16, <1>17, <1>18 DEF Clean

LEMMA EnvironmentClean ==
  ASSUME Clean, EditSource \/ ClearEntry PROVE Clean'
<1>1. UNCHANGED <<inodes, cproc>> /\ tmpName' \in {tmpName, NoFile}
  BY DEF EditSource, ClearEntry
<1>2. FilesArePure /\ NamesApart /\ ProcsFit /\ OneWriter /\ Len(inodes) \in Nat
  BY DEF Clean, FilesArePure
<1>3. NamesApart'
  <2>1. sourceText' \in SourceTexts  BY <1>2 DEF NamesApart, EditSource, ClearEntry
  <2>2. entryName' \in {entryName, NoFile}  BY DEF EditSource, ClearEntry
  <2> QED  BY <1>1, <1>2, <2>1, <2>2 DEF NamesApart, NoFile
<1>4. ASSUME NEW o \in CacheProcs PROVE Fits(cproc[o], inodes, tmpName')
  <2>1. Fits(cproc[o], inodes, tmpName) /\ cproc[o] \in Procs  BY <1>2 DEF ProcsFit
  <2>2. cproc[o].pc = "reading" => cproc[o].file # tmpName'
    BY <1>1, <1>2, <2>1 DEF Fits, Reads, NoFile
  <2> QED  BY <1>2, <2>1, <2>2, SparedSame, FitsLater
<1>5. ProcsFit'  BY <1>1, <1>2, <1>4 DEF ProcsFit
<1> QED  BY <1>1, <1>2, <1>3, <1>5 DEF Clean, FilesArePure, OneWriter

-----------------------------------------------------------------------------
\* A process that takes its functions from the cache runs exactly what the text
\* it has read compiles to: what ch_cache_try_load hands back once the header's
\* hash is that of the source, whatever cache_write_blob_file of other processes,
\* their deaths, cleared caches and failing writes did to the directory, as long
\* as no two stores had the one .tmp file open.
THEOREM HitsAreSound == CacheSpec => []HitIsOwnSource
<1>1. CacheInit => CacheInv
  <2> SUFFICES ASSUME CacheInit PROVE Clean  BY DEF CacheInv
  <2>1. inodes \in Seq(OwnFiles) /\ Len(inodes) = 0  BY DEF CacheInit
  <2>2. FilesArePure /\ NamesApart  BY <2>1 DEF CacheInit, FilesArePure, NamesApart, NoFile
  <2>3. \A p \in CacheProcs : cproc[p] = IdleProc  BY DEF CacheInit
  <2>4. cproc \in [CacheProcs -> Procs]  BY IdleFits DEF CacheInit
  <2>5. ProcsFit  BY <2>3, <2>4, IdleFits DEF ProcsFit
  <2>6. IdleProc.pc \notin Storing  BY DEF IdleProc, Storing
  <2> QED  BY <2>2, <2>3, <2>5, <2>6 DEF Clean, OneWriter
<1>2. CacheInv /\ [CacheNext]_cacheVars => CacheInv'
  <2> SUFFICES ASSUME CacheInv, [CacheNext]_cacheVars, ~overlapped' PROVE Clean'
    BY DEF CacheInv
  <2>1. CASE UNCHANGED cacheVars
    <3>1. Clean  BY <2>1 DEF CacheInv, cacheVars
    <3> QED  BY <2>1, <3>1 DEF cacheVars, Clean, FilesArePure, NamesApart, ProcsFit, OneWriter
  <2>2. CASE CacheNext
    <3>1. ~overlapped
      BY <2>2 DEF CacheNext, RunFile, OpenEntry, LoadBlock, Evaluate, OpenTmp, WriteBlock,
                  CloseFails, RefuseConstant, RenameTmp, KillProcess, EditSource, ClearEntry
    <3>2. Clean  BY <3>1 DEF CacheInv
    <3>3. CASE EditSource \/ ClearEntry  BY <3>2, <3>3, EnvironmentClean
    <3>4. ASSUME NEW p \in CacheProcs,
                 \/ RunFile(p) \/ OpenEntry(p) \/ LoadBlock(p) \/ Evaluate(p)
                 \/ OpenTmp(p) \/ WriteBlock(p) \/ CloseFails(p) \/ RefuseConstant(p)
                 \/ RenameTmp(p) \/ KillProcess(p)
          PROVE  Clean'
      BY <3>2, <3>4, RunFileClean, OpenEntryClean, LoadBlockClean, EvaluateClean, OpenTmpClean,
         WriteBlockClean, CloseFailsClean, RefuseConstantClean, RenameTmpClean, KillProcessClean
    <3> QED  BY <2>2, <3>3, <3>4 DEF CacheNext
  <2> QED  BY <2>1, <2>2
<1>3. CacheInv => HitIsOwnSource
  BY DEF CacheInv, Clean, ProcsFit, Fits, HitIsOwnSource
<1> QED  BY <1>1, <1>2, <1>3, PTL DEF CacheSpec

-----------------------------------------------------------------------------
(* Importing libraries.  What can be had from the files: LoadOnce is a round   *)
(* of Loadable.                                                                *)
LoadOnce == [s \in SUBSET Libs |->
               s \cup {k \in Libs : files[k].body = "good" /\ Range(files[k].imports) \subseteq s}]

LEMMA LoadableIs ==
  ASSUME NEW have \in SUBSET Libs
  PROVE  /\ Loadable(have) \in SUBSET Libs /\ have \subseteq Loadable(have)
         /\ \A l \in Libs : files[l].body = "good" /\ Range(files[l].imports) \subseteq Loadable(have)
                              => l \in Loadable(have)
<1>1. Loadable(have) = Iterate(LoadOnce, have, Cardinality(Libs))  BY DEF Loadable, LoadOnce
<1>2. LoadOnce \in [SUBSET Libs -> SUBSET Libs]  BY DEF LoadOnce
<1>3. \A m \in SUBSET Libs : m \subseteq LoadOnce[m]  BY DEF LoadOnce
<1>4. IsFiniteSet(Libs)  BY LibraryAssumption
<1>5. /\ Loadable(have) \in SUBSET Libs /\ have \subseteq Loadable(have)
      /\ LoadOnce[Loadable(have)] = Loadable(have)
  <2> HIDE DEF LoadOnce
  <2>1. /\ Iterate(LoadOnce, have, Cardinality(Libs)) \in SUBSET Libs
        /\ have \subseteq Iterate(LoadOnce, have, Cardinality(Libs))
        /\ LoadOnce[Iterate(LoadOnce, have, Cardinality(Libs))]
             = Iterate(LoadOnce, have, Cardinality(Libs))
    BY <1>2, <1>3, <1>4, FixedPoint
  <2> QED  BY <1>1, <2>1
<1>6. ASSUME NEW l \in Libs, files[l].body = "good", Range(files[l].imports) \subseteq Loadable(have)
      PROVE  l \in LoadOnce[Loadable(have)]
  <2>1. l \in {k \in Libs : files[k].body = "good" /\ Range(files[k].imports) \subseteq Loadable(have)}
    BY <1>6
  <2> HIDE DEF Loadable
  <2> QED  BY <1>5, <2>1 DEF LoadOnce
<1> QED  BY <1>5, <1>6

LEMMA LoadableWithin ==
  ASSUME NEW have \in SUBSET Libs, NEW C, have \subseteq C,
         \A m \in SUBSET Libs : m \subseteq C => LoadOnce[m] \subseteq C
  PROVE  Loadable(have) \subseteq C
<1>1. Loadable(have) = Iterate(LoadOnce, have, Cardinality(Libs))  BY DEF Loadable, LoadOnce
<1>2. LoadOnce \in [SUBSET Libs -> SUBSET Libs]  BY DEF LoadOnce
<1>3. Cardinality(Libs) \in Nat  BY LibraryAssumption, FS_CardinalityType
<1> QED  BY <1>1, <1>2, <1>3, StaysWithin

\* A library that can be had and was not there is good, and so are its imports.
LEMMA LoadableWhy ==
  ASSUME NEW have \in SUBSET Libs, NEW l \in Loadable(have), l \notin have
  PROVE  files[l].body = "good" /\ Range(files[l].imports) \subseteq Loadable(have)
<1> DEFINE A == Loadable(have)
           C == {k \in A : k \in have \/ (files[k].body = "good" /\ Range(files[k].imports) \subseteq A)}
<1>1. /\ A \in SUBSET Libs /\ have \subseteq A
      /\ \A k \in Libs : files[k].body = "good" /\ Range(files[k].imports) \subseteq A => k \in A
  BY LoadableIs
<1> HIDE DEF A
<1>2. have \subseteq C  BY <1>1
<1>3. ASSUME NEW m \in SUBSET Libs, m \subseteq C PROVE LoadOnce[m] \subseteq C
  <2>1. ASSUME NEW k \in Libs, files[k].body = "good", Range(files[k].imports) \subseteq m PROVE k \in C
    BY <1>1, <1>3, <2>1
  <2> QED  BY <1>3, <2>1 DEF LoadOnce
<1>4. A \subseteq C  BY <1>2, <1>3, LoadableWithin DEF A
<1> QED  BY <1>4 DEF A

\* Libraries that each import another of them cannot be had.
LEMMA CycleIsNotLoadable ==
  ASSUME NEW have \in SUBSET Libs, NEW K, K \cap have = {},
         \A k \in K : Range(files[k].imports) \cap K # {}
  PROVE  Loadable(have) \cap K = {}
<1> DEFINE C == Libs \ K
<1>1. have \subseteq C  OBVIOUS
<1>2. ASSUME NEW m \in SUBSET Libs, m \subseteq C PROVE LoadOnce[m] \subseteq C
  <2>1. ASSUME NEW k \in Libs, Range(files[k].imports) \subseteq m PROVE k \notin K
    BY <1>2, <2>1
  <2> QED  BY <1>2, <2>1 DEF LoadOnce
<1>3. Loadable(have) \subseteq C  BY <1>1, <1>2, LoadableWithin
<1> QED  BY <1>3

LEMMA SameFiles == ASSUME files' = files, before' = before PROVE Loadable(before)' = Loadable(before)
BY DEF Loadable

-----------------------------------------------------------------------------
(* Where an import is.                                                         *)

\* What the frame of l imports.
Imports(l) == IF l = LibTop THEN asked ELSE files[l].imports

FrameRec == [lib : Libs \cup {LibTop}, sets : Seq(Libs), pass : {"find", "take"}]

LibTypes ==
    /\ files \in [Libs -> [imports : Lists, body : Bodies]]
    /\ registered \subseteq Libs /\ before \subseteq registered
    /\ loading \in Seq(Libs) /\ nest \in Seq(FrameRec) /\ asked \in Seq(Libs)

\* What frame i has still to import is of its imports, and the others are there.
Imported(i) ==
    /\ Range(nest[i].sets) \subseteq Range(Imports(nest[i].lib))
    /\ Range(Imports(nest[i].lib)) \subseteq Range(nest[i].sets) \cup registered

\* The frame after frame i loads what frame i is at.
Links(i) == nest[i].sets # <<>> /\ Head(nest[i].sets) = nest[i + 1].lib

\* The form's own frame is the first, the others load the libraries of the
\* loading stack, each once.
Stacked ==
    /\ Len(nest) = Len(loading) + 1 /\ nest[1].lib = LibTop
    /\ \A i \in 1..Len(loading) : nest[i + 1].lib = loading[i] /\ loading[i] \notin registered
    /\ \A i, j \in 1..Len(loading) : loading[i] = loading[j] => i = j
    /\ \A i \in 1..Len(nest) : Imported(i)
    /\ \A i \in 1..Len(loading) : Links(i)

\* The answer is right for what the last frame is at.
Answered ==
    \/ answer = "none"
    \/ /\ answer \in {"ok", "fail"} /\ frame.sets # <<>>
       /\ answer = "ok" => Head(frame.sets) \in registered
       /\ answer = "fail" => Head(frame.sets) \notin Loadable(before)

Verdict ==
    /\ registered \subseteq Loadable(before)
    /\ verdict \in {"ok", "fail"}
    /\ verdict = "ok" => Range(asked) \subseteq registered
    /\ verdict = "fail" => ~(Range(asked) \subseteq Loadable(before))

LibInv ==
    /\ LibTypes
    /\ nest # <<>> => /\ Stacked /\ Answered /\ verdict = "none"
                      /\ registered \subseteq Loadable(before)
    /\ nest = <<>> => /\ loading = <<>> /\ answer = "none"
                      /\ verdict = "none" \/ Verdict

LEMMA InvIsVerdict == LibInv => ImportVerdict
<1> SUFFICES ASSUME LibInv, nest = <<>>, verdict # "none"
             PROVE  /\ verdict = "ok" <=> Range(asked) \subseteq Loadable(before)
                    /\ verdict = "ok" => Range(asked) \subseteq registered
                    /\ registered \subseteq Loadable(before)
  BY DEF ImportVerdict, LibInv
<1> QED  BY DEF LibInv, Verdict

LEMMA LibInvInit == LibInit => LibInv
<1> SUFFICES ASSUME LibInit PROVE LibInv  OBVIOUS
<1>1. files \in [Libs -> [imports : Lists, body : Bodies]]  BY DEF LibInit, Bodies
<1>2. loading = <<>> /\ nest = <<>> /\ asked = <<>> /\ registered = {} /\ before = {}
      /\ answer = "none" /\ verdict = "none"
  BY DEF LibInit
<1>3. loading \in Seq(Libs) /\ nest \in Seq(FrameRec) /\ asked \in Seq(Libs)  BY <1>2
<1> QED  BY <1>1, <1>2, <1>3 DEF LibInv, LibTypes

LEMMA RangeOfList ==
  ASSUME NEW S, NEW s \in Seq(S), s # <<>>
  PROVE  /\ Head(s) \in S /\ Tail(s) \in Seq(S) /\ Head(s) \in Range(s)
         /\ Range(s) = {Head(s)} \cup Range(Tail(s))
<1> DEFINE n == Len(s)
           t == Tail(s)
<1>1. n \in Nat /\ n >= 1 /\ Head(s) = s[1] /\ DOMAIN s = 1..n /\ s[1] \in S  OBVIOUS
<1>2. t \in Seq(S) /\ Len(t) = n - 1 /\ DOMAIN t = 1..(n - 1) /\ \A k \in 1..(n - 1) : t[k] = s[k + 1]
  BY HeadTailProperties
<1> HIDE DEF t
<1>3. Range(s) \subseteq {Head(s)} \cup Range(t)
  <2> SUFFICES ASSUME NEW k \in 1..n, k # 1 PROVE s[k] \in Range(t)  BY <1>1 DEF Range
  <2>1. k - 1 \in 1..(n - 1) /\ (k - 1) + 1 = k  BY <1>1
  <2>2. t[k - 1] = s[k]  BY <1>2, <2>1
  <2> QED  BY <1>2, <2>1, <2>2 DEF Range
<1>4. Range(t) \subseteq Range(s)
  <2> SUFFICES ASSUME NEW k \in 1..(n - 1) PROVE t[k] \in Range(s)  BY <1>2 DEF Range
  <2>1. k + 1 \in 1..n  BY <1>1
  <2> QED  BY <1>1, <1>2, <2>1 DEF Range
<1>5. Head(s) \in Range(s)  BY <1>1 DEF Range
<1> QED  BY <1>1, <1>2, <1>3, <1>4, <1>5 DEF t

LEMMA RangeOfNone == Range(<<>>) = {}
BY DEF Range

LEMMA ListsAreSeqs == Lists \subseteq Seq(Libs)
<1>1. ASSUME NEW l \in Libs PROVE <<l>> \in Seq(Libs)  OBVIOUS
<1>2. <<>> \in Seq(Libs)  OBVIOUS
<1> QED  BY <1>1, <1>2 DEF Lists

LEMMA TopIsNoLib == LibTop \notin Libs
BY LibraryAssumption DEF LibTop

LEMMA HandleImportKeeps == ASSUME LibInv, ch_handle_import PROVE LibInv'
<1>1. PICK f \in Forms : nest' = <<Frame(LibTop, f)>> /\ asked' = f  BY DEF ch_handle_import
<1>2. /\ nest = <<>> /\ before' = registered /\ verdict' = "none"
      /\ UNCHANGED <<files, registered, loading, answer>>
  BY DEF ch_handle_import
<1>3. f \in Seq(Libs)
  <2>1. (\E l \in Libs : f = <<l>>) \/ (\E k, l \in Libs : f = <<k, l>>)  BY DEF Forms
  <2>2. ASSUME NEW k \in Libs, NEW l \in Libs PROVE <<l>> \in Seq(Libs) /\ <<k, l>> \in Seq(Libs)
    OBVIOUS
  <2> QED  BY <2>1, <2>2
<1>4. /\ nest' \in Seq(FrameRec) /\ Len(nest') = 1 /\ nest'[1] = Frame(LibTop, f)
      /\ Frame(LibTop, f) \in FrameRec
      /\ nest'[1].lib = LibTop /\ nest'[1].sets = f /\ nest' # <<>>
  BY <1>1, <1>3 DEF Frame, FrameRec
<1>5. LibTypes /\ loading = <<>> /\ answer = "none"  BY <1>2 DEF LibInv
<1>6. LibTypes'  BY <1>1, <1>2, <1>3, <1>4, <1>5 DEF LibTypes
<1>7. Len(loading') = 0  BY <1>2, <1>5
<1>8. Imported(1)'
  <2>1. Imports(nest[1].lib)' = f  BY <1>1, <1>4 DEF Imports
  <2> QED  BY <1>4, <2>1 DEF Imported
<1>9. Stacked'
  <2>1. \A i \in 1..Len(nest') : i = 1  BY <1>4
  <2>2. \A i \in 1..Len(loading') : FALSE  BY <1>7
  <2>3. \A i \in 1..Len(nest') : Imported(i)'  BY <1>8, <2>1
  <2> QED  BY <1>4, <1>7, <2>2, <2>3 DEF Stacked
<1>10. registered' \subseteq Loadable(before)'
  <2>1. Loadable(before)' = Loadable(registered)  BY <1>2 DEF Loadable
  <2>2. registered \in SUBSET Libs  BY <1>5 DEF LibTypes
  <2> QED  BY <1>2, <2>1, <2>2, LoadableIs
<1> QED  BY <1>2, <1>4, <1>5, <1>6, <1>9, <1>10 DEF LibInv, Answered

LEMMA EditKeeps == ASSUME LibInv, Edit PROVE LibInv'
<1>1. PICK l \in Libs, b \in Bodies : files' = [files EXCEPT ![l].body = b]  BY DEF Edit
<1>2. /\ nest = <<>> /\ verdict' = "none"
      /\ UNCHANGED <<registered, loading, nest, answer, before, asked>>
  BY DEF Edit
<1>3. files \in [Libs -> [imports : Lists, body : Bodies]]  BY DEF LibInv, LibTypes
<1>4. files' \in [Libs -> [imports : Lists, body : Bodies]]
  <2>1. [files[l] EXCEPT !.body = b] \in [imports : Lists, body : Bodies]  BY <1>3
  <2>2. files' = [files EXCEPT ![l] = [files[l] EXCEPT !.body = b]]  BY <1>1
  <2> HIDE DEF Bodies, Lists
  <2> QED  BY <1>3, <2>1, <2>2
<1> QED  BY <1>2, <1>4 DEF LibInv, LibTypes

-----------------------------------------------------------------------------
(* The last frame.                                                             *)

LEMMA LastFrame ==
  ASSUME LibInv, nest # <<>>
  PROVE  /\ LibTypes /\ Stacked /\ Answered /\ verdict = "none"
         /\ registered \subseteq Loadable(before) /\ before \in SUBSET Libs
         /\ Len(nest) \in Nat \ {0} /\ Len(nest) \in 1..Len(nest) /\ Len(loading) \in Nat
         /\ Len(nest) = Len(loading) + 1
         /\ frame = nest[Len(nest)] /\ frame \in FrameRec
         /\ Range(frame.sets) \subseteq Range(Imports(frame.lib))
         /\ Range(Imports(frame.lib)) \subseteq Range(frame.sets) \cup registered
<1>1. LibTypes /\ Stacked /\ Answered /\ verdict = "none" /\ registered \subseteq Loadable(before)
  BY DEF LibInv
<1>2. nest \in Seq(FrameRec) /\ before \in SUBSET Libs /\ loading \in Seq(Libs)  BY <1>1 DEF LibTypes
<1>3. Len(nest) \in Nat \ {0} /\ Len(nest) \in 1..Len(nest) /\ Len(loading) \in Nat  BY <1>2
<1>4. Len(nest) = Len(loading) + 1 /\ Imported(Len(nest))  BY <1>1, <1>3 DEF Stacked
<1>5. frame = nest[Len(nest)]  BY DEF frame
<1>6. frame \in FrameRec  BY <1>2, <1>3, <1>5
<1> QED  BY <1>1, <1>2, <1>3, <1>4, <1>5, <1>6 DEF Imported

\* The frame of a library that is loading.
LEMMA LoadingFrame ==
  ASSUME LibInv, nest # <<>>, frame.lib # LibTop
  PROVE  /\ frame.lib \in Libs /\ frame.lib \notin registered
         /\ Len(loading) >= 1 /\ frame.lib = loading[Len(loading)]
<1>1. /\ Len(nest) \in Nat \ {0} /\ Len(loading) \in Nat /\ Len(nest) = Len(loading) + 1 /\ Stacked
      /\ frame = nest[Len(nest)] /\ frame \in FrameRec
  BY LastFrame
<1>2. Len(loading) # 0  BY <1>1 DEF Stacked
<1>3. Len(loading) \in 1..Len(loading)  BY <1>1, <1>2
<1>4. nest[Len(loading) + 1].lib = loading[Len(loading)] /\ loading[Len(loading)] \notin registered
  BY <1>1, <1>3 DEF Stacked
<1> QED  BY <1>1, <1>2, <1>4 DEF FrameRec

LEMMA FrontOf ==
  ASSUME NEW S, NEW s \in Seq(S), s # <<>>
  PROVE  /\ Front(s) \in Seq(S) /\ Len(Front(s)) = Len(s) - 1
         /\ \A i \in 1..(Len(s) - 1) : Front(s)[i] = s[i]
<1> DEFINE n == Len(s)
<1>1. n \in Nat /\ n >= 1 /\ \A k \in 1..(n - 1) : s[k] \in S  OBVIOUS
<1>2. PICK m \in Nat : m = n - 1  BY <1>1, SMTT(30)
<1> DEFINE g == SubSeq(s, 1, m)
<1>3. Front(s) = g  BY <1>2 DEF Front
<1>4. /\ g \in Seq(S) /\ Len(g) = IF 1 <= m THEN m - 1 + 1 ELSE 0
      /\ \A k \in 1..(m - 1 + 1) : g[k] = s[1 + k - 1]
  BY <1>1, <1>2, SubSeqProperties
<1> HIDE DEF g
<1>5. Len(g) = m  BY <1>4
<1>6. m - 1 + 1 = m /\ \A k \in 1..m : 1 + k - 1 = k  OBVIOUS
<1>7. \A k \in 1..m : g[k] = s[k]  BY <1>4, <1>6
<1> QED  BY <1>2, <1>3, <1>4, <1>5, <1>7

\* ch_ensure_library answers at once.
LEMMA AnswerKeeps ==
  ASSUME LibInv, nest # <<>>, frame.sets # <<>>, answer' \in {"ok", "fail"},
         answer' = "ok" => Head(frame.sets) \in registered,
         answer' = "fail" => Head(frame.sets) \notin Loadable(before),
         UNCHANGED <<files, registered, loading, nest, before, asked, verdict>>
  PROVE  LibInv'
<1>1. Loadable(before)' = Loadable(before) /\ frame' = frame  BY SameFiles DEF frame
<1>2. LibTypes'  BY DEF LibInv, LibTypes
<1>3. Stacked'  BY DEF LibInv, Stacked, Imported, Imports, Links
<1>4. Answered'
  <2>1. Head(frame.sets)' = Head(frame.sets)  BY <1>1
  <2> QED  BY <1>1, <2>1 DEF Answered
<1> QED  BY <1>1, <1>2, <1>3, <1>4 DEF LibInv

\* A library is refused only when it cannot be had: the stack of the names being
\* loaded has room for all libraries, and a library in it waits for this one.
LEMMA RefusedIsNotLoadable ==
  ASSUME LibInv, MaxNest >= Cardinality(Libs), nest # <<>>, frame.sets # <<>>,
         Head(frame.sets) \notin registered, ~CanPush(Head(frame.sets))
  PROVE  Head(frame.sets) \notin Loadable(before)
<1> DEFINE l == Head(frame.sets)
           n == Len(loading)
<1>1. /\ LibTypes /\ Stacked /\ before \in SUBSET Libs /\ n \in Nat /\ Len(nest) = n + 1
      /\ frame = nest[n + 1] /\ frame \in FrameRec
      /\ Range(frame.sets) \subseteq Range(Imports(frame.lib))
  BY LastFrame
<1>2. l \in Libs /\ l \in Range(frame.sets)  BY <1>1, RangeOfList DEF FrameRec
<1>3. /\ loading \in Seq(Libs) /\ \A i \in 1..n : loading[i] \in Libs /\ loading[i] \notin before
      /\ \A i, j \in 1..n : loading[i] = loading[j] => i = j
      /\ \A i \in 1..n : nest[i + 1].lib = loading[i]
  <2>1. /\ loading \in Seq(Libs) /\ before \subseteq registered
        /\ \A i \in 1..n : loading[i] \in Libs
    BY <1>1 DEF LibTypes
  <2>2. /\ \A i \in 1..n : nest[i + 1].lib = loading[i] /\ loading[i] \notin registered
        /\ \A i, j \in 1..n : loading[i] = loading[j] => i = j
    BY <1>1 DEF Stacked
  <2> HIDE DEF n
  <2> QED  BY <2>1, <2>2
<1> HIDE DEF l, n
<1>4. CASE Contains(loading, l)
  <2>1. PICK i \in 1..n : loading[i] = l  BY <1>4 DEF Contains, n
  <2> DEFINE K == {loading[j] : j \in i..n}
  <2>2. \A j \in i..n : j \in 1..n  BY <1>1
  <2>3. K \cap before = {}  BY <1>3, <2>2
  <2>4. ASSUME NEW j \in i..n PROVE Range(files[loading[j]].imports) \cap K # {}
    <3>0. j \in 1..n /\ loading[j] \in Libs /\ nest[j + 1].lib = loading[j]  BY <1>3, <2>2
    <3>1. Imports(loading[j]) = files[loading[j]].imports  BY <3>0, TopIsNoLib DEF Imports
    <3>2. CASE j = n
      <4>1. frame.lib = loading[j]  BY <1>1, <3>0, <3>2
      <4>2. l \in Range(files[loading[j]].imports)  BY <1>1, <1>2, <3>1, <4>1
      <4>3. i \in i..n  BY <1>1, <2>1
      <4>4. l \in K  BY <2>1, <4>3
      <4> QED  BY <4>2, <4>4
    <3>3. CASE j # n
      <4>1. j + 1 \in 1..n /\ j + 1 \in i..n /\ j + 1 \in 1..(n + 1)  BY <1>1, <3>0, <3>3
      <4>2. Links(j + 1) /\ Imported(j + 1) /\ nest[(j + 1) + 1].lib = loading[j + 1]
        BY <1>1, <1>3, <4>1 DEF Stacked, n
      <4>3. nest[j + 1] \in FrameRec  BY <1>1, <4>1 DEF LibTypes, n
      <4>4. loading[j + 1] \in Range(nest[j + 1].sets)
        BY <4>2, <4>3, RangeOfList DEF Links, FrameRec
      <4>5. loading[j + 1] \in Range(files[loading[j]].imports)
        BY <3>0, <3>1, <4>2, <4>4 DEF Imported
      <4> QED  BY <4>1, <4>5
    <3> QED  BY <3>2, <3>3
  <2>5. \A k \in K : Range(files[k].imports) \cap K # {}  BY <2>4
  <2>6. l \in K
    <3>1. i \in i..n  BY <1>1, <2>1
    <3> QED  BY <2>1, <3>1
  <2> HIDE DEF K
  <2>7. Loadable(before) \cap K = {}  BY <1>1, <2>3, <2>5, CycleIsNotLoadable
  <2> QED  BY <2>6, <2>7 DEF l
<1>5. CASE ~Contains(loading, l)
  <2>1. n >= MaxNest  BY <1>1, <1>5, LibraryAssumption DEF CanPush, l, n
  <2>2. \A i \in 1..n : loading[i] # l  BY <1>5 DEF Contains, n
  <2> DEFINE f == [k \in 1..(n + 1) |-> IF k = n + 1 THEN l ELSE loading[k]]
             S == 1..(n + 1)
  <2>3. f \in [S -> Libs]  BY <1>1, <1>2, <1>3
  <2>4. \A x, y \in S : f[x] = f[y] => x = y
    <3> SUFFICES ASSUME NEW x \in S, NEW y \in S, f[x] = f[y] PROVE x = y  OBVIOUS
    <3>1. (x = n + 1 \/ x \in 1..n) /\ (y = n + 1 \/ y \in 1..n) /\ n + 1 \notin 1..n  BY <1>1
    <3> QED  BY <1>3, <2>2, <3>1
  <2>5. IsFiniteSet(S) /\ Cardinality(S) = n + 1
    <3>1. 1 \in Int /\ n + 1 \in Int /\ ~(1 > n + 1) /\ (n + 1) - 1 + 1 = n + 1  BY <1>1
    <3> QED  BY <3>1, FS_Interval
  <2>6. IsFiniteSet(Libs) /\ Cardinality(Libs) \in Nat /\ MaxNest \in Nat
    BY LibraryAssumption, FS_CardinalityType
  <2>7. Cardinality(Libs) < Cardinality(S)  BY <1>1, <2>1, <2>5, <2>6
  <2> HIDE DEF f, S
  <2>8. \E x, y \in S : x # y /\ f[x] = f[y]  BY <2>3, <2>5, <2>6, <2>7, FS_PigeonHole
  <2> QED  BY <2>4, <2>8
<1> QED  BY <1>4, <1>5

\* ch_ensure_library begins to load a file.
LEMMA PushKeeps ==
  ASSUME LibInv, nest # <<>>, answer = "none", frame.sets # <<>>, NEW l, l = Head(frame.sets),
         l \notin registered, CanPush(l), loading' = Append(loading, l),
         nest' = Append(nest, Frame(l, files[l].imports)), answer' = answer,
         UNCHANGED <<files, registered, before, asked, verdict>>
  PROVE  LibInv'
<1> DEFINE n == Len(loading)
           fr == Frame(l, files[l].imports)
<1>1. /\ LibTypes /\ Stacked /\ n \in Nat /\ Len(nest) = n + 1 /\ verdict = "none"
      /\ registered \subseteq Loadable(before) /\ frame = nest[n + 1] /\ frame \in FrameRec
  BY LastFrame
<1>2. l \in Libs  BY <1>1, RangeOfList DEF FrameRec
<1>3. files[l].imports \in Seq(Libs)
  <2>1. files[l].imports \in Lists  BY <1>1, <1>2 DEF LibTypes
  <2> QED  BY <2>1, ListsAreSeqs
<1>4. /\ fr \in FrameRec /\ fr.lib = l /\ fr.sets = files[l].imports  BY <1>2, <1>3 DEF Frame, FrameRec
<1> HIDE DEF fr, n
<1>5. /\ nest \in Seq(FrameRec) /\ loading \in Seq(Libs) /\ Len(loading) = n  BY <1>1 DEF LibTypes, n
<1>6. /\ nest' \in Seq(FrameRec) /\ Len(nest') = n + 2 /\ nest'[n + 2] = fr
      /\ \A i \in 1..(n + 1) : nest'[i] = nest[i]
  <2>1. nest' = Append(nest, fr)  BY DEF fr
  <2> QED  BY <1>1, <1>4, <1>5, <2>1
<1>7. /\ loading' \in Seq(Libs) /\ Len(loading') = n + 1 /\ loading'[n + 1] = l
      /\ \A i \in 1..n : loading'[i] = loading[i]
  BY <1>1, <1>2, <1>5
<1>8. LibTypes'  BY <1>1, <1>6, <1>7 DEF LibTypes
<1>9. \A i \in 1..(n + 1) : i \in 1..n \/ i = n + 1  BY <1>1
<1>10. ASSUME NEW i \in 1..(n + 1)
       PROVE  nest'[i + 1].lib = loading'[i] /\ loading'[i] \notin registered' /\ Links(i)'
  <2>1. CASE i = n + 1
    <3>1. i + 1 = n + 2 /\ n + 1 \in 1..(n + 1)  BY <1>1, <2>1
    <3>2. nest'[i] = frame /\ nest'[i + 1] = fr  BY <1>1, <1>6, <2>1, <3>1
    <3> QED  BY <1>4, <1>7, <2>1, <3>2 DEF Links
  <2>2. CASE i \in 1..n
    <3>1. i + 1 \in 1..(n + 1)  BY <1>1, <2>2
    <3>2. nest'[i] = nest[i] /\ nest'[i + 1] = nest[i + 1]  BY <1>6, <3>1
    <3>3. Links(i) /\ nest[i + 1].lib = loading[i] /\ loading[i] \notin registered
      BY <1>1, <1>5, <2>2 DEF Stacked
    <3> QED  BY <1>7, <2>2, <3>2, <3>3 DEF Links
  <2> QED  BY <1>9, <2>1, <2>2
<1>11. ASSUME NEW i \in 1..(n + 1), NEW j \in 1..(n + 1), loading'[i] = loading'[j] PROVE i = j
  <2>1. \A k \in 1..n : loading[k] # l  BY <1>5 DEF CanPush, Contains
  <2>2. \A a, b \in 1..n : loading[a] = loading[b] => a = b  BY <1>1, <1>5 DEF Stacked
  <2> QED  BY <1>7, <1>9, <1>11, <2>1, <2>2
<1>12. ASSUME NEW i \in 1..(n + 2) PROVE Imported(i)'
  <2>1. CASE i = n + 2
    <3>1. nest'[i].lib = l /\ nest'[i].sets = files[l].imports /\ l # LibTop
      BY <1>2, <1>4, <1>6, <2>1, TopIsNoLib
    <3>2. Imports(nest[i].lib)' = files[l].imports  BY <3>1 DEF Imports
    <3> QED  BY <3>1, <3>2 DEF Imported
  <2>2. CASE i # n + 2
    <3>1. i \in 1..(n + 1)  BY <1>1, <2>2
    <3>2. Imported(i) /\ nest'[i] = nest[i]  BY <1>1, <1>6, <3>1 DEF Stacked
    <3> QED  BY <3>2 DEF Imported, Imports
  <2> QED  BY <2>1, <2>2
<1>13. nest'[1].lib = LibTop
  <2>1. 1 \in 1..(n + 1)  BY <1>1
  <2> QED  BY <1>1, <1>6, <2>1 DEF Stacked
<1>14. Stacked'
  <2>1. Len(nest') = Len(loading') + 1  BY <1>1, <1>6, <1>7
  <2> QED  BY <2>1, <1>6, <1>7, <1>10, <1>11, <1>12, <1>13 DEF Stacked
<1>15. nest' # <<>>  BY <1>1, <1>6
<1>16. Loadable(before)' = Loadable(before)  BY SameFiles
<1> QED  BY <1>1, <1>8, <1>14, <1>15, <1>16 DEF LibInv, Answered

LEMMA EnsureKeeps ==
  ASSUME LibInv, MaxNest >= Cardinality(Libs), ch_ensure_library PROVE LibInv'
<1> DEFINE l == Head(frame.sets)
<1>1. /\ nest # <<>> /\ answer = "none" /\ frame.sets # <<>>
      /\ UNCHANGED <<files, registered, before, asked, verdict>>
  BY DEF ch_ensure_library
<1>2. CASE l \in registered /\ answer' = "ok" /\ UNCHANGED <<loading, nest>>
  BY <1>1, <1>2, AnswerKeeps
<1>3. CASE l \notin registered /\ (files[l].body = "missing" \/ ~CanPush(l)) /\ answer' = "fail"
             /\ UNCHANGED <<loading, nest>>
  <2>1. l \notin Loadable(before)
    <3>1. CASE ~CanPush(l)  BY <1>1, <1>3, <3>1, RefusedIsNotLoadable
    <3>2. CASE files[l].body = "missing"
      <4>1. before \in SUBSET Libs /\ before \subseteq registered
        BY DEF LibInv, LibTypes
      <4>2. l \notin before  BY <1>3, <4>1
      <4>3. files[l].body # "good"  BY <3>2
      <4> HIDE DEF l
      <4> QED  BY <4>1, <4>2, <4>3, LoadableWhy
    <3> QED  BY <1>3, <3>1, <3>2
  <2> QED  BY <1>1, <1>3, <2>1, AnswerKeeps
<1>4. CASE l \notin registered /\ CanPush(l) /\ loading' = Append(loading, l)
             /\ nest' = Append(nest, Frame(l, files[l].imports)) /\ answer' = answer
  BY <1>1, <1>4, PushKeeps
<1> QED  BY <1>2, <1>3, <1>4 DEF ch_ensure_library

\* process_import_set goes on to its second pass, or to the next import.
LEMMA AdvanceKeeps ==
  ASSUME LibInv, nest # <<>>, answer # "none", ~(answer = "fail" /\ frame.pass = "take"),
         nest' = [nest EXCEPT ![Len(nest)] =
                    IF frame.pass = "find" THEN [frame EXCEPT !.pass = "take"]
                    ELSE [frame EXCEPT !.pass = "find", !.sets = Tail(frame.sets)]],
         answer' = "none",
         UNCHANGED <<files, registered, loading, before, asked, verdict>>
  PROVE  LibInv'
<1> DEFINE n == Len(nest)
           fr == IF frame.pass = "find" THEN [frame EXCEPT !.pass = "take"]
                 ELSE [frame EXCEPT !.pass = "find", !.sets = Tail(frame.sets)]
<1>1. /\ LibTypes /\ Stacked /\ Answered /\ verdict = "none"
      /\ registered \subseteq Loadable(before) /\ n \in Nat \ {0} /\ n \in 1..n
      /\ Len(loading) \in Nat /\ n = Len(loading) + 1
      /\ frame = nest[n] /\ frame \in FrameRec
      /\ Range(frame.sets) \subseteq Range(Imports(frame.lib))
      /\ Range(Imports(frame.lib)) \subseteq Range(frame.sets) \cup registered
  BY LastFrame
<1>2. /\ answer \in {"ok", "fail"} /\ frame.sets # <<>>
      /\ answer = "ok" => Head(frame.sets) \in registered
  BY <1>1 DEF Answered
<1>3. /\ frame.sets \in Seq(Libs) /\ Tail(frame.sets) \in Seq(Libs)
      /\ Range(frame.sets) = {Head(frame.sets)} \cup Range(Tail(frame.sets))
  <2>1. frame.sets \in Seq(Libs)  BY <1>1 DEF FrameRec
  <2> QED  BY <2>1, <1>2, RangeOfList
<1>4. /\ fr \in FrameRec /\ fr.lib = frame.lib
      /\ Range(fr.sets) \subseteq Range(Imports(frame.lib))
      /\ Range(Imports(frame.lib)) \subseteq Range(fr.sets) \cup registered
  <2>1. CASE frame.pass = "find"
    <3>1. fr = [frame EXCEPT !.pass = "take"]  BY <2>1
    <3>2. fr \in FrameRec /\ fr.lib = frame.lib /\ fr.sets = frame.sets  BY <1>1, <3>1 DEF FrameRec
    <3> QED  BY <1>1, <3>2
  <2>2. CASE frame.pass # "find"
    <3>1. fr = [frame EXCEPT !.pass = "find", !.sets = Tail(frame.sets)]  BY <2>2
    <3>2. fr \in FrameRec /\ fr.lib = frame.lib /\ fr.sets = Tail(frame.sets)
      BY <1>1, <1>3, <3>1 DEF FrameRec
    <3>3. frame.pass = "take"  BY <1>1, <2>2 DEF FrameRec
    <3>4. Head(frame.sets) \in registered  BY <1>2, <3>3
    <3> QED  BY <1>1, <1>3, <3>2, <3>4
  <2> QED  BY <2>1, <2>2
<1>5. nest' = [nest EXCEPT ![n] = fr]  BY <1>1
<1> HIDE DEF fr, n
<1>6. nest \in Seq(FrameRec) /\ Len(nest) = n  BY <1>1 DEF LibTypes, n
<1>7. /\ nest' \in Seq(FrameRec) /\ Len(nest') = n /\ nest'[n] = fr
      /\ \A i \in 1..n : i # n => nest'[i] = nest[i]
  <2>1. nest' \in Seq(FrameRec) /\ Len(nest') = n
    <3>1. n \in 1..Len(nest)  BY <1>1, <1>6
    <3> QED  BY <1>4, <1>5, <1>6, <3>1, ExceptSeq
  <2>2. DOMAIN nest = 1..n  BY <1>6
  <2> QED  BY <1>1, <1>5, <2>1, <2>2
<1>8. LibTypes'  BY <1>1, <1>7 DEF LibTypes
<1>9. \A i \in 1..n : nest'[i].lib = nest[i].lib  BY <1>1, <1>4, <1>7
<1>10. ASSUME NEW i \in 1..n PROVE Imported(i)'
  <2>1. Imports(nest[i].lib)' = Imports(nest[i].lib)  BY <1>9 DEF Imports
  <2>2. CASE i = n  BY <1>1, <1>4, <1>7, <2>1, <2>2 DEF Imported
  <2>3. CASE i # n
    <3>1. Imported(i) /\ nest'[i] = nest[i]  BY <1>1, <1>6, <1>7, <2>3 DEF Stacked
    <3> QED  BY <2>1, <3>1 DEF Imported
  <2> QED  BY <2>2, <2>3
<1>11. ASSUME NEW i \in 1..Len(loading) PROVE Links(i)' /\ nest'[i + 1].lib = loading[i]
  <2>1. i \in 1..n /\ i # n /\ i + 1 \in 1..n  BY <1>1
  <2>2. Links(i) /\ nest[i + 1].lib = loading[i]  BY <1>1 DEF Stacked
  <2> QED  BY <1>7, <1>9, <2>1, <2>2 DEF Links
<1>12. Stacked'
  <2>1. nest'[1].lib = LibTop
    <3>1. 1 \in 1..n  BY <1>1
    <3> QED  BY <1>1, <1>9, <3>1 DEF Stacked
  <2>2. /\ \A i \in 1..Len(loading) : loading[i] \notin registered
        /\ \A i, j \in 1..Len(loading) : loading[i] = loading[j] => i = j
    BY <1>1 DEF Stacked
  <2>3. Len(nest') = Len(loading') + 1  BY <1>1, <1>7
  <2> QED  BY <1>7, <1>10, <1>11, <2>1, <2>2, <2>3 DEF Stacked
<1>13. nest' # <<>>  BY <1>1, <1>7
<1>14. Loadable(before)' = Loadable(before)  BY SameFiles
<1> QED  BY <1>1, <1>8, <1>12, <1>13, <1>14 DEF LibInv, Answered

\* The last frame ends: with all it imports and, if it loads a library, that one
\* registered, or with a reason why it cannot.
LEMMA LeaveKeeps ==
  ASSUME LibInv, nest # <<>>, NEW ok \in BOOLEAN, Leave(ok),
         UNCHANGED <<files, before, asked>>,
         registered \subseteq registered', registered' \subseteq (registered \cup {frame.lib}) \cap Libs,
         registered' \subseteq Loadable(before),
         ok => /\ Range(Imports(frame.lib)) \subseteq registered
               /\ frame.lib # LibTop => frame.lib \in registered',
         ~ok => \/ ~(Range(Imports(frame.lib)) \subseteq Loadable(before))
                \/ frame.lib # LibTop /\ files[frame.lib].body # "good"
  PROVE  LibInv'
<1> DEFINE n == Len(nest)
           m == Len(loading)
<1>1. /\ LibTypes /\ Stacked /\ verdict = "none" /\ before \in SUBSET Libs
      /\ n \in Nat \ {0} /\ n \in 1..n /\ m \in Nat /\ n = m + 1
      /\ frame = nest[n] /\ frame \in FrameRec
  BY LastFrame
<1>2. /\ nest \in Seq(FrameRec) /\ loading \in Seq(Libs)  BY <1>1 DEF LibTypes
<1>3. /\ nest' \in Seq(FrameRec) /\ Len(nest') = m /\ \A i \in 1..m : nest'[i] = nest[i]
  BY <1>1, <1>2, FrontOf DEF Leave
<1>4. Loadable(before)' = Loadable(before)  BY SameFiles
<1>5. CASE frame.lib = LibTop
  <2>1. m = 0
    <3> SUFFICES ASSUME m # 0 PROVE FALSE  OBVIOUS
    <3>1. m \in 1..m  BY <1>1
    <3>2. nest[m + 1].lib = loading[m] /\ loading[m] \in Libs  BY <1>1, <1>2, <3>1 DEF Stacked
    <3> QED  BY <1>1, <1>5, <3>2, TopIsNoLib
  <2>2. nest' = <<>> /\ loading = <<>>  BY <1>2, <1>3, <2>1
  <2>3. /\ loading' = loading /\ verdict' = (IF ok THEN "ok" ELSE "fail") /\ answer' = "none"
    BY <1>5 DEF Leave
  <2>4. Imports(frame.lib) = asked  BY <1>5 DEF Imports
  <2>5. LibTypes'
    <3>1. registered' \subseteq Libs /\ before \subseteq registered'  BY <1>1 DEF LibTypes
    <3> QED  BY <1>1, <1>3, <2>3, <3>1 DEF LibTypes
  <2>6. Verdict'
    <3>1. CASE ok
      <4>1. Range(asked') \subseteq registered'  BY <2>4, <3>1
      <4> QED  BY <1>4, <2>3, <3>1, <4>1 DEF Verdict
    <3>2. CASE ~ok
      <4>1. ~(Range(asked') \subseteq Loadable(before))  BY <1>5, <2>4, <3>2
      <4> QED  BY <1>4, <2>3, <3>2, <4>1 DEF Verdict
    <3> QED  BY <3>1, <3>2
  <2> QED  BY <2>2, <2>3, <2>5, <2>6 DEF LibInv
<1>6. CASE frame.lib # LibTop
  <2>1. /\ frame.lib \in Libs /\ frame.lib \notin registered
        /\ m >= 1 /\ frame.lib = loading[m]
    BY <1>6, LoadingFrame
  <2>2. /\ loading' = Front(loading) /\ answer' = (IF ok THEN "ok" ELSE "fail")
        /\ verdict' = verdict
    BY <1>6 DEF Leave
  <2>3. loading # <<>>  BY <2>1
  <2>4. /\ loading' \in Seq(Libs) /\ Len(loading') = m - 1
        /\ \A i \in 1..(m - 1) : loading'[i] = loading[i]
    BY <1>2, <2>2, <2>3, FrontOf
  <2>5. LibTypes'
    <3>1. registered' \subseteq Libs /\ before \subseteq registered'  BY <1>1 DEF LibTypes
    <3> QED  BY <1>1, <1>3, <2>4, <3>1 DEF LibTypes
  <2>6. \A i \in 1..m : Imported(i)'
    <3> SUFFICES ASSUME NEW i \in 1..m PROVE Imported(i)'  OBVIOUS
    <3>1. i \in 1..n  BY <1>1
    <3>2. Imported(i) /\ nest'[i] = nest[i]  BY <1>1, <1>3, <3>1 DEF Stacked
    <3>3. Imports(nest[i].lib)' = Imports(nest[i].lib)  BY <3>2 DEF Imports
    <3> QED  BY <3>2, <3>3 DEF Imported
  <2>7. ASSUME NEW i \in 1..(m - 1)
        PROVE  nest'[i + 1].lib = loading'[i] /\ loading'[i] \notin registered' /\ Links(i)'
    <3>1. i \in 1..m /\ i + 1 \in 1..m /\ m \in 1..m /\ i # m  BY <1>1, <2>1
    <3>2. /\ Links(i) /\ nest[i + 1].lib = loading[i] /\ loading[i] \notin registered
          /\ loading[i] # loading[m]
      BY <1>1, <3>1 DEF Stacked
    <3>3. loading'[i] \notin registered'  BY <2>1, <2>4, <3>2
    <3> QED  BY <1>3, <2>4, <3>1, <3>2, <3>3 DEF Links
  <2>8. Stacked'
    <3>1. \A i, j \in 1..(m - 1) : loading'[i] = loading'[j] => i = j
      <4>1. \A i \in 1..(m - 1) : i \in 1..m  BY <1>1
      <4>2. \A i, j \in 1..m : loading[i] = loading[j] => i = j  BY <1>1 DEF Stacked
      <4> QED  BY <2>4, <4>1, <4>2
    <3>2. nest'[1].lib = LibTop
      <4>1. 1 \in 1..m  BY <1>1, <2>1
      <4> QED  BY <1>1, <1>3, <4>1 DEF Stacked
    <3>3. Len(nest') = Len(loading') + 1  BY <1>1, <1>3, <2>4
    <3> QED  BY <1>3, <2>4, <2>6, <2>7, <3>1, <3>2, <3>3 DEF Stacked
  <2>9. nest' # <<>> /\ frame' = nest[m] /\ nest[m].sets # <<>> /\ Head(nest[m].sets) = frame.lib
    <3>1. m \in 1..m  BY <1>1, <2>1
    <3>2. Links(m) /\ nest'[m] = nest[m] /\ frame' = nest'[m]  BY <1>1, <1>3, <3>1 DEF Stacked, frame
    <3>3. nest' # <<>>  BY <1>3, <3>1
    <3> QED  BY <1>1, <3>2, <3>3 DEF Links
  <2>10. Answered'
    <3>1. CASE ok  BY <1>6, <2>2, <2>9, <3>1 DEF Answered
    <3>2. CASE ~ok
      <4>1. Imports(frame.lib) = files[frame.lib].imports  BY <1>6 DEF Imports
      <4>2. frame.lib \notin before  BY <1>1, <2>1 DEF LibTypes
      <4>3. frame.lib \notin Loadable(before)
        <5> SUFFICES ASSUME frame.lib \in Loadable(before) PROVE FALSE  OBVIOUS
        <5>1. PICK l \in Loadable(before) : l = frame.lib  OBVIOUS
        <5>2. files[l].body = "good" /\ Range(files[l].imports) \subseteq Loadable(before)
          BY <1>1, <4>2, <5>1, LoadableWhy
        <5> QED  BY <3>2, <4>1, <5>1, <5>2
      <4> QED  BY <1>4, <2>2, <2>9, <3>2, <4>3 DEF Answered
    <3> QED  BY <3>1, <3>2
  <2> QED  BY <1>1, <1>4, <2>2, <2>5, <2>8, <2>9, <2>10 DEF LibInv
<1> QED  BY <1>5, <1>6

LEMMA ProcessKeeps == ASSUME LibInv, process_import_set PROVE LibInv'
<1>1. answer # "none" /\ UNCHANGED <<files, registered, before, asked>>
  BY DEF process_import_set
<1>2. nest # <<>>  BY <1>1 DEF LibInv
<1>3. CASE answer = "fail" /\ frame.pass = "take"
  <2>1. Leave(FALSE)  BY <1>3 DEF process_import_set
  <2>2. /\ LibTypes /\ Answered /\ registered \subseteq Loadable(before) /\ frame \in FrameRec
        /\ Range(frame.sets) \subseteq Range(Imports(frame.lib))
    BY <1>2, LastFrame
  <2>3. frame.sets # <<>> /\ Head(frame.sets) \notin Loadable(before)  BY <1>3, <2>2 DEF Answered
  <2>4. Head(frame.sets) \in Range(frame.sets)
    <3>1. frame.sets \in Seq(Libs)  BY <2>2 DEF FrameRec
    <3> QED  BY <2>3, <3>1, RangeOfList
  <2>5. ~(Range(Imports(frame.lib)) \subseteq Loadable(before))  BY <2>2, <2>3, <2>4
  <2>6. registered \subseteq (registered \cup {frame.lib}) \cap Libs  BY <2>2 DEF LibTypes
  <2> QED  BY <1>1, <1>2, <2>1, <2>2, <2>5, <2>6, LeaveKeeps
<1>4. CASE ~(answer = "fail" /\ frame.pass = "take")
  <2>1. /\ nest' = [nest EXCEPT ![Len(nest)] =
                      IF frame.pass = "find" THEN [frame EXCEPT !.pass = "take"]
                      ELSE [frame EXCEPT !.pass = "find", !.sets = Tail(frame.sets)]]
        /\ answer' = "none" /\ UNCHANGED <<loading, verdict>>
    BY <1>4 DEF process_import_set
  <2> QED  BY <1>1, <1>2, <1>4, <2>1, AdvanceKeeps
<1> QED  BY <1>3, <1>4

LEMMA DefineKeeps == ASSUME LibInv, ch_handle_define_library PROVE LibInv'
<1> DEFINE ok == frame.lib = LibTop \/ files[frame.lib].body = "good"
<1>1. /\ nest # <<>> /\ frame.sets = <<>> /\ Leave(ok) /\ UNCHANGED <<files, before, asked>>
      /\ registered' = registered \cup {l \in Libs : l = frame.lib /\ ok}
  BY DEF ch_handle_define_library
<1>2. /\ LibTypes /\ registered \subseteq Loadable(before) /\ before \in SUBSET Libs
      /\ Range(Imports(frame.lib)) \subseteq Range(frame.sets) \cup registered
      /\ frame \in FrameRec
  BY <1>1, LastFrame
<1>3. Range(Imports(frame.lib)) \subseteq registered  BY <1>1, <1>2, RangeOfNone
<1>4. registered \subseteq registered' /\ registered' \subseteq (registered \cup {frame.lib}) \cap Libs
  BY <1>1, <1>2 DEF LibTypes
<1>5. registered' \subseteq Loadable(before)
  <2> SUFFICES ASSUME NEW l \in Libs, l = frame.lib, ok PROVE l \in Loadable(before)
    BY <1>1, <1>2
  <2>1. Imports(l) = files[l].imports /\ files[l].body = "good"  BY TopIsNoLib DEF Imports
  <2>2. Range(files[l].imports) \subseteq Loadable(before)  BY <1>2, <1>3, <2>1
  <2> QED  BY <1>2, <2>1, <2>2, LoadableIs
<1>6. ok /\ frame.lib # LibTop => frame.lib \in registered'  BY <1>1, <1>2 DEF FrameRec
<1>7. ~ok => frame.lib # LibTop /\ files[frame.lib].body # "good"  OBVIOUS
<1>8. ok \in BOOLEAN  OBVIOUS
<1> HIDE DEF ok
<1> QED  BY <1>1, <1>3, <1>4, <1>5, <1>6, <1>7, <1>8, LeaveKeeps

LEMMA LibInvNext ==
  ASSUME MaxNest >= Cardinality(Libs), LibInv, [LibNext]_libVars
  PROVE  LibInv'
<1>1. CASE ch_handle_import  BY <1>1, HandleImportKeeps
<1>2. CASE Edit  BY <1>2, EditKeeps
<1>3. CASE ch_ensure_library  BY <1>3, EnsureKeeps
<1>4. CASE process_import_set  BY <1>4, ProcessKeeps
<1>5. CASE ch_handle_define_library  BY <1>5, DefineKeeps
<1>6. CASE UNCHANGED libVars
  <2>1. UNCHANGED <<files, registered, loading, nest, answer, before, asked, verdict>>
    BY <1>6 DEF libVars
  <2>2. Loadable(before)' = Loadable(before) /\ frame' = frame  BY <2>1, SameFiles DEF frame
  <2>3. LibTypes' = LibTypes /\ Stacked' = Stacked
    BY <2>1 DEF LibTypes, Stacked, Imported, Imports, Links
  <2>4. Answered' = Answered /\ Verdict' = Verdict  BY <2>1, <2>2 DEF Answered, Verdict
  <2> QED  BY <2>1, <2>2, <2>3, <2>4 DEF LibInv
<1> QED  BY <1>1, <1>2, <1>3, <1>4, <1>5, <1>6 DEF LibNext

\* An import form fails only for a reason: as long as the loading stack has room
\* for all libraries there are, whatever cycles the files form, however their
\* bodies fail and whatever is edited in between, it succeeds if and only if all
\* it names can be had, registers nothing else, and leaves the stack empty
\* (ch_ensure_library, process_import_set, ch_handle_define_library).
THEOREM ImportsAreDecided ==
  ASSUME MaxNest >= Cardinality(Libs)
  PROVE  LibSpec => []ImportVerdict
<1>1. LibInv /\ [LibNext]_libVars => LibInv'  BY LibInvNext
<1> QED  BY <1>1, LibInvInit, InvIsVerdict, PTL DEF LibSpec

-----------------------------------------------------------------------------
(* Import sets.                                                             *)

Symbols == Idents \cup {Prefix}

SetTypes ==
    /\ mods \in Seq(Modifiers)
    /\ final \in [DOMAIN Exports -> Seq(Symbols)]
    /\ bad \in BOOLEAN

\* One modifier takes the environment e to r, and each name as Renamed says.
Applies(r, e, m) ==
    /\ <<>> \notin DOMAIN r.env
    /\ \A n \in DOMAIN r.env : \E o \in DOMAIN e : r.env[n] = e[o] /\ Renamed(m, o) = n
    /\ \A o \in DOMAIN e : Renamed(m, o) # <<>> => Renamed(m, o) \in DOMAIN r.env

\* The environment stands for exports, under names that are not empty.
SetInv ==
    /\ SetTypes
    /\ ~bad => /\ DOMAIN env \subseteq Seq(Symbols) \ {<<>>}
               /\ \A n \in DOMAIN env : env[n] \in DOMAIN Exports
    /\ ImportSetRenames

\* The last of the renames to a name.
LEMMA LatestIs ==
  ASSUME NEW n \in Nat, NEW S \in SUBSET (1..n), S # {}
  PROVE  \E i \in S : \A j \in S : j <= i
<1> DEFINE T == {n - i : i \in S}
<1>1. T \in SUBSET Nat /\ T # {}
  <2>1. \A i \in S : n - i \in Nat  OBVIOUS
  <2> QED  BY <2>1
<1>2. PICK k \in T : \A t \in T : k <= t  BY <1>1, LeastNat
<1>3. PICK i \in S : k = n - i  OBVIOUS
<1>4. \A j \in S : j <= i
  <2> TAKE j \in S
  <2>1. k <= n - j  BY <1>2
  <2> QED  BY <1>3, <2>1
<1> QED  BY <1>4

LEMMA OnlyApplies ==
  ASSUME NEW e, <<>> \notin DOMAIN e, NEW m, m.op = "only", m.ids \in Seq(Names)
  PROVE  Applies(resolve_import_only(e, m.ids), e, m)
<1> DEFINE r == resolve_import_only(e, m.ids)
<1>1. Range(m.ids) = {m.ids[i] : i \in 1..Len(m.ids)}  BY DEF Range
<1>2. \A o \in DOMAIN e : Renamed(m, o) = IF o \in Range(m.ids) THEN o ELSE <<>>
  BY <1>1 DEF Renamed, Contains
<1>3. DOMAIN r.env = DOMAIN e \cap Range(m.ids) /\ \A n \in DOMAIN r.env : r.env[n] = e[n]
  BY DEF resolve_import_only
<1> QED  BY <1>2, <1>3 DEF Applies

LEMMA ExceptApplies ==
  ASSUME NEW e, <<>> \notin DOMAIN e, NEW m, m.op = "except", m.ids \in Seq(Names)
  PROVE  Applies(resolve_import_except(e, m.ids), e, m)
<1> DEFINE r == resolve_import_except(e, m.ids)
<1>1. Range(m.ids) = {m.ids[i] : i \in 1..Len(m.ids)}  BY DEF Range
<1>2. \A o \in DOMAIN e : Renamed(m, o) = IF o \in Range(m.ids) THEN <<>> ELSE o
  BY <1>1 DEF Renamed, Contains
<1>3. DOMAIN r.env = DOMAIN e \ Range(m.ids) /\ \A n \in DOMAIN r.env : r.env[n] = e[n]
  BY DEF resolve_import_except
<1> QED  BY <1>2, <1>3 DEF Applies

LEMMA PrefixApplies ==
  ASSUME NEW e, DOMAIN e \subseteq Seq(Symbols) \ {<<>>}, NEW m, m.op = "prefix"
  PROVE  Applies(resolve_import_prefix(e), e, m)
<1> DEFINE r == resolve_import_prefix(e)
<1>1. \A o \in DOMAIN e : Renamed(m, o) = <<Prefix>> \o o  BY DEF Renamed
<1>2. \A o \in DOMAIN e : Tail(<<Prefix>> \o o) = o
  <2> TAKE o \in DOMAIN e
  <2>1. o \in Seq(Symbols) /\ Prefix \in Symbols  BY DEF Symbols
  <2> QED  BY <2>1
<1>3. DOMAIN r.env = {<<Prefix>> \o o : o \in DOMAIN e}
      /\ \A n \in DOMAIN r.env : r.env[n] = e[Tail(n)]
  BY DEF resolve_import_prefix
<1>4. \A n \in DOMAIN r.env : \E o \in DOMAIN e : n = <<Prefix>> \o o  BY <1>3
<1>5. <<>> \notin DOMAIN r.env
  <2> SUFFICES ASSUME NEW o \in DOMAIN e, <<>> = <<Prefix>> \o o PROVE FALSE  BY <1>3
  <2>1. o \in Seq(Symbols) /\ Prefix \in Symbols  BY DEF Symbols
  <2>2. Len(<<Prefix>> \o o) = 1 + Len(o) /\ Len(o) \in Nat  BY <2>1
  <2> QED  BY <2>2
<1> QED  BY <1>1, <1>2, <1>3, <1>4, <1>5 DEF Applies

LEMMA NamesNotEmpty == ASSUME NEW n \in Names PROVE n # <<>>
<1>1. CASE \E i \in Idents : n = <<i>>
  <2>1. PICK i : n = <<i>>  BY <1>1
  <2>2. Len(n) = 1  BY <2>1
  <2> QED  BY <2>2
<1>2. CASE \E i \in Idents : n = <<Prefix, i>>
  <2>1. PICK i : n = <<Prefix, i>>  BY <1>2
  <2>2. Len(n) = 2  BY <2>1
  <2> QED  BY <2>2
<1> QED  BY <1>1, <1>2 DEF Names

LEMMA RenameApplies ==
  ASSUME NEW e, <<>> \notin DOMAIN e, NEW m, m.op = "rename", m.ren \in Seq(Names \X Names),
         ~resolve_import_rename(e, m.ren).bad
  PROVE  Applies(resolve_import_rename(e, m.ren), e, m)
<1> DEFINE ren == m.ren
           N == Len(ren)
           from(i) == ren[i][1]
           to(i) == ren[i][2]
           found == {i \in DOMAIN ren : /\ from(i) \in DOMAIN e
                                        /\ \A j \in 1..(i - 1) : from(j) # from(i)}
           latest(n) == CHOOSE i \in found : to(i) = n /\ \A j \in found : to(j) = n => j <= i
           r == resolve_import_rename(e, ren)
<1>1. /\ r.bad = (found # DOMAIN ren)
      /\ DOMAIN r.env = (DOMAIN e \ {from(i) : i \in found}) \cup {to(i) : i \in found}
      /\ \A n \in DOMAIN r.env :
            r.env[n] = IF n \in {to(i) : i \in found} THEN e[from(latest(n))] ELSE e[n]
  BY DEF resolve_import_rename
<1>2. N \in Nat /\ DOMAIN ren = 1..N /\ found = 1..N
  <2>1. ~r.bad /\ ren \in Seq(Names \X Names)  OBVIOUS
  <2>2. found = DOMAIN ren
    <3> HIDE DEF r, found
    <3> QED  BY <1>1, <2>1
  <2> HIDE DEF found
  <2> QED  BY <2>1, <2>2
<1>3. \A i \in 1..N : from(i) \in DOMAIN e /\ \A j \in 1..N : j < i => from(j) # from(i)
  <2> TAKE i \in 1..N
  <2>1. i \in found  BY <1>2
  <2>2. \A j \in 1..N : j < i => j \in 1..(i - 1)  BY <1>2
  <2> QED  BY <2>1, <2>2
<1>4. \A i, j \in 1..N : from(i) = from(j) => i = j  BY <1>2, <1>3
<1>5. Range(ren) = {ren[i] : i \in 1..N}  BY <1>2 DEF Range
<1>6. ASSUME NEW o \in DOMAIN e, \A i \in 1..N : from(i) # o PROVE Renamed(m, o) = o
  BY <1>5, <1>6 DEF Renamed
<1>7. ASSUME NEW i \in 1..N PROVE Renamed(m, from(i)) = to(i)
  <2> DEFINE p == CHOOSE q \in Range(ren) : q[1] = from(i)
  <2>1. ren[i] \in Range(ren) /\ ren[i][1] = from(i)  BY <1>5
  <2>2. p \in Range(ren) /\ p[1] = from(i)  BY <2>1
  <2>3. PICK j \in 1..N : p = ren[j]  BY <1>5, <2>2
  <2>4. j = i  BY <1>4, <2>2, <2>3
  <2>5. from(i) # <<>>  BY <1>3
  <2>6. Renamed(m, from(i)) = p[2]  BY <2>1, <2>5 DEF Renamed
  <2> QED  BY <2>3, <2>4, <2>6
<1>8. ASSUME NEW n \in {to(i) : i \in found}
      PROVE  latest(n) \in 1..N /\ to(latest(n)) = n
  <2> DEFINE S == {i \in 1..N : to(i) = n}
  <2>1. S \in SUBSET (1..N) /\ S # {}  BY <1>2
  <2>2. PICK i \in S : \A j \in S : j <= i  BY <1>2, <2>1, LatestIs
  <2>3. \E k \in found : to(k) = n /\ \A j \in found : to(j) = n => j <= k  BY <1>2, <2>2
  <2> QED  BY <1>2, <2>3
<1> HIDE DEF found, latest, r, ren
<1>9. ASSUME NEW n \in DOMAIN r.env
      PROVE  \E o \in DOMAIN e : r.env[n] = e[o] /\ Renamed(m, o) = n
  <2>1. CASE n \in {to(i) : i \in found}
    <3>1. latest(n) \in 1..N /\ to(latest(n)) = n  BY <1>8, <2>1
    <3>2. r.env[n] = e[from(latest(n))]  BY <1>1, <2>1
    <3>3. from(latest(n)) \in DOMAIN e /\ Renamed(m, from(latest(n))) = n  BY <1>3, <1>7, <3>1
    <3> QED  BY <3>2, <3>3
  <2>2. CASE n \notin {to(i) : i \in found}
    <3>1. n \in DOMAIN e /\ r.env[n] = e[n] /\ \A i \in 1..N : from(i) # n  BY <1>1, <1>2, <2>2
    <3> QED  BY <1>6, <3>1
  <2> QED  BY <2>1, <2>2
<1>10. ASSUME NEW o \in DOMAIN e PROVE Renamed(m, o) \in DOMAIN r.env
  <2>1. CASE \E i \in 1..N : from(i) = o
    <3>1. PICK i \in 1..N : from(i) = o  BY <2>1
    <3>2. Renamed(m, o) = to(i)  BY <1>7, <3>1
    <3> QED  BY <1>1, <1>2, <3>2
  <2>2. CASE \A i \in 1..N : from(i) # o
    <3>1. Renamed(m, o) = o  BY <1>6, <2>2
    <3> QED  BY <1>1, <1>2, <2>2, <3>1
  <2> QED  BY <2>1, <2>2
<1>11. <<>> \notin DOMAIN r.env
  <2>1. \A i \in 1..N : to(i) # <<>>
    <3> TAKE i \in 1..N
    <3>1. ren[i] \in Names \X Names  BY <1>2 DEF ren
    <3>2. to(i) \in Names  BY <3>1
    <3> QED  BY <3>2, NamesNotEmpty
  <2>2. <<>> \notin {to(i) : i \in found}  BY <1>2, <2>1
  <2>3. <<>> \notin DOMAIN e  OBVIOUS
  <2> HIDE DEF to, from
  <2> QED  BY <1>1, <2>2, <2>3
<1> QED  BY <1>9, <1>10, <1>11 DEF Applies, r, ren

LEMMA NamesAreSeqs == Names \subseteq Seq(Symbols) /\ DOMAIN Exports \subseteq Names
BY DEF Names, Symbols, Exports

LEMMA ModifierTypes ==
  ASSUME NEW m \in Modifiers
  PROVE  /\ m.op \in {"only", "except", "prefix", "rename"}
         /\ m.op \in {"only", "except"} => m.ids \in Seq(Names)
         /\ m.op = "rename" => m.ren \in Seq(Names \X Names)
<1>1. CASE \E o \in {"only", "except"}, n \in Names : m = [op |-> o, ids |-> <<n>>, ren |-> <<>>]
  BY <1>1
<1>2. CASE m = [op |-> "prefix", ids |-> <<>>, ren |-> <<>>]
  BY <1>2
<1>3. CASE \E a, b \in Names : m = [op |-> "rename", ids |-> <<>>, ren |-> <<<<a, b>>>>]
  BY <1>3
<1>4. CASE \E a, b, c, d \in {<<i>> : i \in Idents} :
             m = [op |-> "rename", ids |-> <<>>, ren |-> <<<<a, b>>, <<c, d>>>>]
  <2>1. PICK a, b, c, d \in {<<i>> : i \in Idents} :
             m = [op |-> "rename", ids |-> <<>>, ren |-> <<<<a, b>>, <<c, d>>>>]
    BY <1>4
  <2>2. a \in Names /\ b \in Names /\ c \in Names /\ d \in Names  BY DEF Names
  <2>3. <<a, b>> \in Names \X Names /\ <<c, d>> \in Names \X Names  BY <2>2
  <2> HIDE DEF Names
  <2> QED  BY <2>1, <2>3
<1> QED  BY <1>1, <1>2, <1>3, <1>4 DEF Modifiers

LEMMA RenamedTypes ==
  ASSUME NEW m \in Modifiers, NEW n \in Seq(Symbols)
  PROVE  Renamed(m, n) \in Seq(Symbols)
<1>1. CASE n = <<>>  BY <1>1 DEF Renamed
<1>2. CASE n # <<>> /\ m.op = "only"  BY <1>2 DEF Renamed
<1>3. CASE n # <<>> /\ m.op = "except"  BY <1>3 DEF Renamed
<1>4. CASE n # <<>> /\ m.op = "prefix"
  <2>1. Renamed(m, n) = <<Prefix>> \o n  BY <1>4 DEF Renamed
  <2> QED  BY <2>1 DEF Symbols
<1>5. CASE n # <<>> /\ m.op = "rename"
  <2>1. CASE \E r \in Range(m.ren) : r[1] = n
    <3> DEFINE q == CHOOSE r \in Range(m.ren) : r[1] = n
    <3>1. q \in Range(m.ren) /\ Renamed(m, n) = q[2]  BY <1>5, <2>1 DEF Renamed
    <3>2. m.ren \in Seq(Names \X Names)  BY <1>5, ModifierTypes
    <3> HIDE DEF q
    <3>3. q \in Names \X Names
      <4>1. PICK j \in DOMAIN m.ren : q = m.ren[j]  BY <3>1 DEF Range
      <4> HIDE DEF Names
      <4> QED  BY <3>2, <4>1
    <3> QED  BY <3>1, <3>3, NamesAreSeqs
  <2>2. CASE ~\E r \in Range(m.ren) : r[1] = n  BY <1>5, <2>2 DEF Renamed
  <2> QED  BY <2>1, <2>2
<1> QED  BY <1>1, <1>2, <1>3, <1>4, <1>5, ModifierTypes

LEMMA SetInvInit == SetInit => SetInv
<1> SUFFICES ASSUME SetInit PROVE SetInv  OBVIOUS
<1>1. /\ env = Exports /\ final = Exports /\ bad = FALSE
      /\ mods \in UNION {[1..k -> Modifiers] : k \in 1..MaxModifiers}
  BY DEF SetInit
<1>2. DOMAIN Exports \subseteq Seq(Symbols) \ {<<>>} /\ \A n \in DOMAIN Exports : Exports[n] = n
  BY NamesAreSeqs DEF Exports
<1>3. mods \in Seq(Modifiers)
  <2>1. PICK k \in 1..MaxModifiers : mods \in [1..k -> Modifiers]  BY <1>1
  <2>2. k \in Nat  BY <2>1
  <2> HIDE DEF Modifiers
  <2> QED  BY <2>1, <2>2
<1>4. Exports \in [DOMAIN Exports -> Seq(Symbols)]  BY <1>2 DEF Exports
<1> QED  BY <1>1, <1>2, <1>3, <1>4 DEF SetInv, SetTypes, ImportSetRenames

\* A modifier that succeeds takes each name of the environment where it takes
\* the exports, and leaves out what it leaves out.
LEMMA SetInvNext == SetInv /\ [SetNext]_setVars => SetInv'
<1> SUFFICES ASSUME SetInv, [SetNext]_setVars PROVE SetInv'  OBVIOUS
<1>1. CASE UNCHANGED setVars
  BY <1>1 DEF setVars, SetInv, SetTypes, ImportSetRenames
<1>2. CASE resolve_import_set
  <2> DEFINE m == Head(mods)
             r == CASE m.op = "only" -> resolve_import_only(env, m.ids)
                    [] m.op = "except" -> resolve_import_except(env, m.ids)
                    [] m.op = "prefix" -> resolve_import_prefix(env)
                    [] m.op = "rename" -> resolve_import_rename(env, m.ren)
  <2>1. /\ mods # <<>> /\ ~bad /\ env' = r.env /\ bad' = r.bad /\ mods' = Tail(mods)
        /\ final' = [x \in DOMAIN final |-> Renamed(m, final[x])]
    BY <1>2 DEF resolve_import_set
  <2>2. m \in Modifiers /\ mods' \in Seq(Modifiers)
    <3> HIDE DEF r
    <3> QED  BY <2>1 DEF SetInv, SetTypes
  <2>3. /\ DOMAIN env \subseteq Seq(Symbols) \ {<<>>} /\ \A n \in DOMAIN env : env[n] \in DOMAIN Exports
        /\ \A n \in DOMAIN env : final[env[n]] = n
        /\ \A x \in DOMAIN Exports : final[x] # <<>> => final[x] \in DOMAIN env
        /\ final \in [DOMAIN Exports -> Seq(Symbols)]
    BY <2>1 DEF SetInv, SetTypes, ImportSetRenames
  <2>4. ~r.bad => Applies(r, env, m)
    <3> SUFFICES ASSUME ~r.bad PROVE Applies(r, env, m)  OBVIOUS
    <3>0. <<>> \notin DOMAIN env  BY <2>3
    <3>1. CASE m.op = "only"  BY <2>2, <3>0, <3>1, OnlyApplies, ModifierTypes
    <3>2. CASE m.op = "except"  BY <2>2, <3>0, <3>2, ExceptApplies, ModifierTypes
    <3>3. CASE m.op = "prefix"  BY <2>2, <2>3, <3>3, PrefixApplies
    <3>4. CASE m.op = "rename"  BY <2>2, <3>0, <3>4, RenameApplies, ModifierTypes
    <3> QED  BY <2>2, <3>1, <3>2, <3>3, <3>4, ModifierTypes
  <2>5. r.bad \in BOOLEAN
    <3>1. CASE m.op = "only"  BY <3>1 DEF resolve_import_only
    <3>2. CASE m.op = "except"  BY <3>2 DEF resolve_import_except
    <3>3. CASE m.op = "prefix"  BY <3>3 DEF resolve_import_prefix
    <3>4. CASE m.op = "rename"  BY <3>4 DEF resolve_import_rename
    <3> QED  BY <2>2, <3>1, <3>2, <3>3, <3>4, ModifierTypes
  <2> HIDE DEF r, m
  <2>6. final' \in [DOMAIN Exports -> Seq(Symbols)]
        /\ \A x \in DOMAIN Exports : final'[x] = Renamed(m, final[x])
    BY <2>1, <2>2, <2>3, RenamedTypes
  <2>7. SetTypes'  BY <2>1, <2>2, <2>5, <2>6 DEF SetTypes, Exports
  <2>8. CASE r.bad  BY <2>1, <2>7, <2>8 DEF SetInv, ImportSetRenames
  <2>9. CASE ~r.bad
    <3>1. /\ <<>> \notin DOMAIN env'
          /\ \A n \in DOMAIN env' : \E o \in DOMAIN env : env'[n] = env[o] /\ Renamed(m, o) = n
          /\ \A o \in DOMAIN env : Renamed(m, o) # <<>> => Renamed(m, o) \in DOMAIN env'
      BY <2>1, <2>4, <2>9 DEF Applies
    <3>2. ASSUME NEW n \in DOMAIN env'
          PROVE  n \in Seq(Symbols) \ {<<>>} /\ env'[n] \in DOMAIN Exports /\ final'[env'[n]] = n
      <4>1. PICK o \in DOMAIN env : env'[n] = env[o] /\ Renamed(m, o) = n  BY <3>1
      <4>2. n \in Seq(Symbols) /\ n # <<>>  BY <2>2, <2>3, <3>1, <4>1, RenamedTypes
      <4>3. env[o] \in DOMAIN Exports /\ final[env[o]] = o  BY <2>3
      <4>4. final'[env[o]] = Renamed(m, o)  BY <2>6, <4>3
      <4> QED  BY <4>1, <4>2, <4>3, <4>4
    <3>3. ASSUME NEW x \in DOMAIN Exports, final'[x] # <<>> PROVE final'[x] \in DOMAIN env'
      <4>1. final'[x] = Renamed(m, final[x])  BY <2>6
      <4>2. final[x] # <<>>  BY <3>3, <4>1 DEF Renamed
      <4>3. final[x] \in DOMAIN env  BY <2>3, <4>2
      <4> QED  BY <3>1, <3>3, <4>1, <4>3
    <3> QED  BY <2>7, <3>2, <3>3 DEF SetInv, ImportSetRenames, Exports
  <2> QED  BY <2>8, <2>9
<1> QED  BY <1>1, <1>2 DEF SetNext

\* Whatever modifiers an import set nests, only, except, prefix and rename, each
\* name it binds stands for the export that they take there one by one, and no
\* export is lost but by a modifier that drops it or by a name that covers it.
THEOREM ImportSetsRename == SetSpec => []ImportSetRenames
<1>1. SetInit => SetInv  BY SetInvInit
<1>2. SetInv /\ [SetNext]_setVars => SetInv'  BY SetInvNext
<1>3. SetInv => ImportSetRenames  BY DEF SetInv
<1> QED  BY <1>1, <1>2, <1>3, PTL DEF SetSpec
=============================================================================
