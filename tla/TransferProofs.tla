---------------------------- MODULE TransferProofs ----------------------------
(***************************************************************************)
(* Theorems about Transfer, for any hosts, aliases and trees.              *)
(***************************************************************************)
EXTENDS Transfer, SequenceTheorems, FiniteSetTheorems, TLAPS

Calls == {"start", "readdir", "mkdir", "chmoddir", "recheck", "entries",
          "open", "stat", "create", "chmod", "copy", "close", "done"}

\* The handles a copy holds are given by the call it is about to make.
HandlesOf(h) ==
  /\ pc[h] \in {"stat", "create"} => open[h] = {"from"}
  /\ pc[h] \in {"chmod", "copy"} => open[h] = {"from", "to"}
  /\ pc[h] \notin {"stat", "create", "chmod", "copy", "close"} => open[h] = {}

HandlesInv ==
  /\ pc \in [Host -> Calls]
  /\ open \in [Host -> SUBSET {"from", "to"}]
  /\ \A h \in Host : HandlesOf(h)

\* A step of one copy that goes to p with the handles o keeps the invariant, if
\* o are the handles of p.
LEMMA OneCopySteps ==
  ASSUME HandlesInv, NEW h \in Host, NEW p \in Calls, NEW o \in SUBSET {"from", "to"},
         pc' = [pc EXCEPT ![h] = p], open' = [open EXCEPT ![h] = o],
         p \in {"stat", "create"} => o = {"from"},
         p \in {"chmod", "copy"} => o = {"from", "to"},
         p \notin {"stat", "create", "chmod", "copy", "close"} => o = {}
  PROVE  HandlesInv'
<1>1. pc' \in [Host -> Calls] /\ open' \in [Host -> SUBSET {"from", "to"}]
  BY DEF HandlesInv
<1>2. ASSUME NEW g \in Host PROVE HandlesOf(g)'
  <2>1. CASE g = h
    BY <2>1 DEF HandlesInv, HandlesOf
  <2>2. CASE g # h
    BY <2>2 DEF HandlesInv, HandlesOf
  <2> QED
    BY <2>1, <2>2
<1> QED
  BY <1>1, <1>2 DEF HandlesInv

\* A step that opens and closes nothing.
LEMMA NothingOpened ==
  ASSUME HandlesInv, NEW h \in Host, UNCHANGED open, NEW p \in Calls,
         pc' = [pc EXCEPT ![h] = p],
         p \in {"stat", "create"} => open[h] = {"from"},
         p \in {"chmod", "copy"} => open[h] = {"from", "to"},
         p \notin {"stat", "create", "chmod", "copy", "close"} => open[h] = {}
  PROVE  HandlesInv'
<1>1. open[h] \in SUBSET {"from", "to"} /\ open' = [open EXCEPT ![h] = open[h]]
  BY DEF HandlesInv
<1> QED
  BY <1>1, OneCopySteps

\* The end of a copy with an error runs the defers of copyFile first.
LEMMA AbortKeeps ==
  ASSUME HandlesInv, NEW h \in Host, Abort(h), UNCHANGED open
  PROVE  HandlesInv'
<1>1. CASE open[h] = {}
  <2>1. pc' = [pc EXCEPT ![h] = "done"]
    BY <1>1 DEF Abort, Goto
  <2> QED
    BY <1>1, <2>1, NothingOpened DEF Calls
<1>2. CASE open[h] # {}
  <2>1. pc' = [pc EXCEPT ![h] = "close"]
    BY <1>2 DEF Abort, Goto
  <2> QED
    BY <2>1, NothingOpened DEF Calls
<1> QED
  BY <1>1, <1>2

\* The steps of copyAction and copyDir keep the invariant: none of them holds a
\* handle, but for the failures they share with copyFile.
LEMMA CopyDirKeeps ==
  ASSUME HandlesInv, NEW h \in Host, CopyDirStep(h)
  PROVE  HandlesInv'
<1>1. CASE CallFails(h)
  BY <1>1, AbortKeeps DEF CallFails
<1>2. CASE DirIsThere(h) \/ Recheck(h)
  <2>1. pc[h] \in {"mkdir", "recheck"} /\ UNCHANGED open
    BY <1>2 DEF DirIsThere, Recheck
  <2>2. CASE Abort(h)
    BY <2>1, <2>2, AbortKeeps
  <2>3. CASE Goto(h, "entries")
    <3>1. open[h] = {}
      BY <2>1 DEF HandlesInv, HandlesOf
    <3> QED
      BY <2>1, <2>3, <3>1, NothingOpened DEF Goto, Calls
  <2> QED
    BY <1>2, <2>2, <2>3 DEF DirIsThere, Recheck
<1>3. CASE \/ Start(h) \/ ReadDir(h) \/ Mkdir(h) \/ ChmodDir(h) \/ MkdirFails(h)
           \/ CopyDirReturns(h) \/ \E n \in Node : TakeEntry(h, n)
  <2> DEFINE Next1 == {"readdir", "open", "mkdir", "chmoddir", "entries", "recheck", "done"}
  <2>1. /\ pc[h] \in {"start", "readdir", "mkdir", "chmoddir", "entries"}
        /\ UNCHANGED open
    BY <1>3 DEF Start, ReadDir, Mkdir, ChmodDir, MkdirFails, CopyDirReturns, TakeEntry
  <2>2. PICK p \in Next1 : pc' = [pc EXCEPT ![h] = p]
    BY <1>3 DEF Start, ReadDir, Mkdir, ChmodDir, MkdirFails, CopyDirReturns, TakeEntry, Goto
  <2>3. open[h] = {}
    BY <2>1 DEF HandlesInv, HandlesOf
  <2> QED
    BY <2>1, <2>2, <2>3, NothingOpened DEF Calls
<1> QED
  BY <1>1, <1>2, <1>3 DEF CopyDirStep

\* The steps of copyFile keep the invariant.
LEMMA CopyFileKeeps ==
  ASSUME HandlesInv, NEW h \in Host, CopyFileStep(h)
  PROVE  HandlesInv'
<1>1. CASE OpenSource(h)
  <2>1. PICK p \in {"stat", "create"} : pc' = [pc EXCEPT ![h] = p]
    BY <1>1 DEF OpenSource, Goto
  <2>2. open' = [open EXCEPT ![h] = {"from"}]
    BY <1>1 DEF OpenSource
  <2> QED
    BY <2>1, <2>2, OneCopySteps DEF Calls
<1>2. CASE StatDest(h) \/ StatDestFails(h)
  <2>1. pc[h] = "stat" /\ UNCHANGED open /\ (Abort(h) \/ Goto(h, "create"))
    BY <1>2 DEF StatDest, StatDestFails
  <2>2. open[h] = {"from"}
    BY <2>1 DEF HandlesInv, HandlesOf
  <2>3. CASE Goto(h, "create")
    BY <2>1, <2>2, <2>3, NothingOpened DEF Goto, Calls
  <2> QED
    BY <2>1, <2>3, AbortKeeps
<1>3. CASE OpenDest(h)
  <2>1. open[h] = {"from"}
    BY <1>3 DEF OpenDest, HandlesInv, HandlesOf
  <2>2. open' = [open EXCEPT ![h] = {"from", "to"}]
    BY <1>3, <2>1 DEF OpenDest
  <2>3. PICK p \in {"chmod", "copy"} : pc' = [pc EXCEPT ![h] = p]
    BY <1>3 DEF OpenDest, Goto
  <2> QED
    BY <2>2, <2>3, OneCopySteps DEF Calls
<1>4. CASE ChmodFile(h)
  <2>1. pc' = [pc EXCEPT ![h] = "copy"] /\ open[h] = {"from", "to"} /\ UNCHANGED open
    BY <1>4 DEF ChmodFile, Goto, HandlesInv, HandlesOf
  <2> QED
    BY <2>1, NothingOpened DEF Calls
<1>5. CASE ChmodFileFails(h)
  <2>1. open[h] = {"from", "to"}
    BY <1>5 DEF ChmodFileFails, HandlesInv, HandlesOf
  <2>2. open' = [open EXCEPT ![h] = {"from"}]
    <3>1. {"from", "to"} \ {"to"} = {"from"}
      OBVIOUS
    <3> QED
      BY <1>5, <2>1, <3>1 DEF ChmodFileFails
  <2>3. pc' = [pc EXCEPT ![h] = "close"]
    BY <1>5, <2>1 DEF ChmodFileFails, Abort, Goto
  <2> QED
    BY <2>2, <2>3, OneCopySteps DEF Calls
<1>6. CASE CopyChunk(h)
  BY <1>6 DEF CopyChunk, HandlesInv, HandlesOf
<1>7. CASE WriteFails(h)
  BY <1>7, AbortKeeps DEF WriteFails
<1>8. CASE CopyEnds(h)
  BY <1>8, NothingOpened DEF CopyEnds, Goto, Calls
<1>9. CASE Close(h)
  <2>1. PICK p \in {"done", "entries"} : pc' = [pc EXCEPT ![h] = p]
    BY <1>9 DEF Close, Goto
  <2>2. open' = [open EXCEPT ![h] = {}]
    BY <1>9 DEF Close
  <2> QED
    BY <2>1, <2>2, OneCopySteps DEF Calls
<1> QED
  BY <1>1, <1>2, <1>3, <1>4, <1>5, <1>6, <1>7, <1>8, <1>9 DEF CopyFileStep

\* Whichever call fails, a copy has closed its files when it returns and when it
\* is at a directory: the defers of copyFile and the Close in OpenFile.
THEOREM HandlesClosedAlways == Spec => []HandlesClosed
<1>1. Init => HandlesInv
  BY DEF Init, HandlesInv, HandlesOf, Calls
<1>2. HandlesInv /\ [Next]_vars => HandlesInv'
  <2> SUFFICES ASSUME HandlesInv, [Next]_vars PROVE HandlesInv'
    OBVIOUS
  <2>1. CASE Next
    BY <2>1, CopyDirKeeps, CopyFileKeeps DEF Next
  <2>2. CASE UNCHANGED vars
    BY <2>2 DEF vars, HandlesInv, HandlesOf
  <2> QED
    BY <2>1, <2>2
<1>3. HandlesInv => HandlesClosed
  BY DEF HandlesInv, HandlesOf, HandlesClosed
<1> QED
  BY <1>1, <1>2, <1>3, PTL DEF Spec

-----------------------------------------------------------------------------
(* What a copy leaves at the destination. *)

\* What the permissions of an entry may be.
Modes == {OldMode, GetFilePerm(perm), GetDirPerm(perm),
          NewMode(GetFilePerm(perm)), NewMode(GetDirPerm(perm))}

EntryType == [is : {"none", "file", "dir"}, mode : Modes,
              data : [1..MaxLen -> Area \cup {"hole", "old"}]]

TypeInv ==
  /\ alias \in [Host -> Alias] /\ op \in Ops /\ src \in Node
  /\ before \in [Node -> {"none", "file", "dir"}]
  /\ dst \in [Area -> [Node -> EntryType]]
  /\ TypeOK

\* The host k has opened n to write it, and has not come to chunk j or gives up.
Writing(k, n, j) ==
  cur[k] = n /\ ((pc[k] \in {"chmod", "copy"} /\ pos[k] < j) \/ err[k])

Untouched(h, n) ==
  dst[AreaOf(h)][n].is = before[n] /\ dst[AreaOf(h)][n].data = Entry(before[n]).data

\* A chunk of n that is not the source's is one that somebody is still to write.
Written(h, n) ==
  /\ dst[AreaOf(h)][n].is = "file"
  /\ \A j \in 1..MaxLen :
       IF j <= Chunks[n]
       THEN \/ dst[AreaOf(h)][n].data[j] = SourceOf(h)
            \/ /\ dst[AreaOf(h)][n].data[j] = "hole"
               /\ \E k \in Together(h) : Writing(k, n, j)
       ELSE dst[AreaOf(h)][n].data[j] = "hole"

FileInv == \A h \in Host, n \in File : Untouched(h, n) \/ Written(h, n)

\* What the call a copy is about to make says of its node, stack and flags.
LocalOK(h) ==
  /\ pc[h] = "start" => cur[h] = src /\ stack[h] = <<>>
  /\ pc[h] \in {"mkdir", "chmoddir", "recheck"} => cur[h] \in Dir
  /\ pc[h] \in {"open", "stat", "create", "chmod", "copy"} => cur[h] \in File
  /\ pc[h] \in {"mkdir", "chmoddir", "recheck", "entries"} => stack[h] # <<>>
  /\ err[h] => pc[h] \in {"close", "done"}
  /\ pc[h] = "chmoddir" => There(h).is = "dir"
  /\ pc[h] = "done" /\ ~err[h] => stack[h] = <<>>
  /\ pc[h] = "chmod" => pos[h] = 0
  /\ pc[h] \in {"chmod", "copy"} => Written(h, cur[h])
  /\ pc[h] = "stat" => ~create[h] /\ op = "upload"
  /\ pc[h] = "chmod" => create[h]
  /\ pc[h] \in {"create", "chmod"} /\ create[h] =>
       before[cur[h]] # "file" /\ op = "upload"
  /\ pc[h] = "create" /\ op = "upload" /\ ~create[h]
       => There(h).is = "file" \/ cur[h] \in unseen[h]

LocalInv == \A h \in Host : LocalOK(h)

CopyStep(h) == CopyDirStep(h) \/ CopyFileStep(h)

LEMMA AreasKnown ==
  ASSUME TypeInv, NEW h \in Host
  PROVE  AreaOf(h) \in Area /\ SourceOf(h) \in Area
BY DEF TypeInv, AreaOf, SourceOf, Area

\* Copies that write to one place read from one place.
LEMMA OneSource ==
  ASSUME TypeInv, op = "downloadDir" => \A g, k \in Host : alias[g] = alias[k],
         NEW g \in Host, NEW h \in Host, AreaOf(g) = AreaOf(h)
  PROVE  SourceOf(g) = SourceOf(h)
BY DEF TypeInv, Ops, AreaOf, SourceOf

LEMMA InputsStay ==
  ASSUME NEW h \in Host, CopyStep(h)
  PROVE  UNCHANGED inputs
BY DEF CopyStep, CopyDirStep, CopyFileStep, Start, CallFails, ReadDir, DirIsThere, Mkdir,
       ChmodDir, MkdirFails, Recheck, TakeEntry, CopyDirReturns, OpenSource, StatDest,
       StatDestFails, OpenDest, ChmodFile, ChmodFileFails, CopyChunk, WriteFails,
       CopyEnds, Close

\* The entries after a step that writes e.
LEMMA WriteOne ==
  ASSUME TypeInv, NEW h \in Host, NEW e \in EntryType, Write(h, e),
         UNCHANGED <<op, perm, umask>>
  PROVE  /\ dst' \in [Area -> [Node -> EntryType']]
         /\ dst'[AreaOf(h)][cur[h]] = e
         /\ \A a \in Area, n \in Node :
              (a = AreaOf(h) /\ n = cur[h]) \/ dst'[a][n] = dst[a][n]
<1>1. AreaOf(h) \in Area /\ cur[h] \in Node
  BY AreasKnown DEF TypeInv, TypeOK
<1>2. EntryType' = EntryType
  BY DEF EntryType, Modes, NewMode
<1>3. dst \in [Area -> [Node -> EntryType]]
  BY DEF TypeInv
<1>4. dst' = [dst EXCEPT ![AreaOf(h)][cur[h]] = e]
  BY DEF Write
<1> HIDE DEF TypeInv, EntryType
<1> QED
  BY <1>1, <1>2, <1>3, <1>4

\* What a step of h does to the entry it is at; it touches no other.
NewThere(h) == dst'[AreaOf(h)][cur[h]]

OpensIt(h) ==
  /\ OpenDest(h) /\ cur[h] \in File
  /\ NewThere(h).is = "file" /\ NewThere(h).data = Hole
  /\ NewThere(h).mode = IF There(h).is = "file" THEN There(h).mode
                        ELSE NewMode(GetFilePerm(perm))

ChmodsIt(h) ==
  /\ ChmodFile(h) /\ cur[h] \in File
  /\ NewThere(h).is = There(h).is /\ NewThere(h).data = There(h).data
  /\ NewThere(h).mode = GetFilePerm(perm)

CopiesIt(h) ==
  /\ CopyChunk(h) /\ cur[h] \in File
  /\ NewThere(h).is = There(h).is /\ NewThere(h).mode = There(h).mode
  /\ NewThere(h).data = [There(h).data EXCEPT ![pos[h] + 1] = SourceOf(h)]

WritesAs(h) ==
  /\ dst' \in [Area -> [Node -> EntryType']]
  /\ \A a \in Area, n \in Node :
       (a = AreaOf(h) /\ n = cur[h]) \/ dst'[a][n] = dst[a][n]
  /\ \/ UNCHANGED dst /\ ~OpenDest(h) /\ ~ChmodFile(h) /\ ~CopyChunk(h) /\ ~Mkdir(h)
     \/ cur[h] \in Dir /\ NewThere(h).is = "dir" /\ ~OpenDest(h) /\ ~ChmodFile(h) /\ ~CopyChunk(h)
     \/ OpensIt(h) \/ ChmodsIt(h) \/ CopiesIt(h)

LEMMA StepWrites ==
  ASSUME TypeInv, LocalInv, NEW h \in Host, CopyStep(h)
  PROVE  WritesAs(h)
<1>1. cur[h] \in Node /\ AreaOf(h) \in Area /\ SourceOf(h) \in Area /\ There(h) \in EntryType
  <2>1. cur[h] \in Node /\ AreaOf(h) \in Area /\ SourceOf(h) \in Area
    BY AreasKnown DEF TypeInv, TypeOK
  <2>2. dst \in [Area -> [Node -> EntryType]]
    BY DEF TypeInv
  <2> QED
    BY <2>1, <2>2 DEF There
<1>2. UNCHANGED <<op, perm, umask>> /\ EntryType' = EntryType
  BY InputsStay DEF inputs, EntryType, Modes, NewMode
<1>3. LocalOK(h)
  BY DEF LocalInv
<1>4. dst \in [Area -> [Node -> EntryType]]
  BY DEF TypeInv
<1>5. /\ There(h).is \in {"none", "file", "dir"} /\ There(h).mode \in Modes
      /\ There(h).data \in [1..MaxLen -> Area \cup {"hole", "old"}]
  BY <1>1 DEF EntryType
<1>6. ASSUME NEW i \in {"none", "file", "dir"}, NEW m \in Modes,
             NEW d \in [1..MaxLen -> Area \cup {"hole", "old"}],
             Write(h, [is |-> i, mode |-> m, data |-> d])
      PROVE  /\ dst' \in [Area -> [Node -> EntryType']]
             /\ \A a \in Area, n \in Node :
                  (a = AreaOf(h) /\ n = cur[h]) \/ dst'[a][n] = dst[a][n]
             /\ NewThere(h).is = i /\ NewThere(h).mode = m /\ NewThere(h).data = d
  <2> DEFINE e == [is |-> i, mode |-> m, data |-> d]
  <2>1. e \in EntryType
    BY <1>6 DEF EntryType
  <2>2. Write(h, e)
    BY <1>6
  <2>3. e.is = i /\ e.mode = m /\ e.data = d
    OBVIOUS
  <2> HIDE DEF e
  <2> QED
    BY <1>2, <2>1, <2>2, <2>3, WriteOne DEF NewThere
<1>7. CASE OpenDest(h)
  <2> DEFINE m == IF There(h).is = "file" THEN There(h).mode
                  ELSE NewMode(GetFilePerm(perm))
  <2>1. m \in Modes
    BY <1>5 DEF Modes
  <2>2. Hole \in [1..MaxLen -> Area \cup {"hole", "old"}]
    BY DEF Hole
  <2>3. Write(h, [is |-> "file", mode |-> m, data |-> Hole])
    <3>1. [is |-> "file", mode |-> m, data |-> Hole] = [is |-> "file", data |-> Hole, mode |-> m]
      OBVIOUS
    <3> QED
      BY <1>7, <3>1 DEF OpenDest
  <2>4. cur[h] \in File
    BY <1>3, <1>7 DEF LocalOK, OpenDest
  <2> HIDE DEF m
  <2>5. /\ dst' \in [Area -> [Node -> EntryType']]
        /\ \A a \in Area, n \in Node :
             (a = AreaOf(h) /\ n = cur[h]) \/ dst'[a][n] = dst[a][n]
        /\ NewThere(h).is = "file" /\ NewThere(h).mode = m /\ NewThere(h).data = Hole
    BY <1>6, <2>1, <2>2, <2>3
  <2> QED
    BY <1>7, <2>4, <2>5 DEF m, WritesAs, OpensIt
<1>8. CASE ChmodFile(h)
  <2>1. Write(h, [is |-> There(h).is, mode |-> GetFilePerm(perm), data |-> There(h).data])
    <3>1. [There(h) EXCEPT !.mode = GetFilePerm(perm)]
            = [is |-> There(h).is, mode |-> GetFilePerm(perm), data |-> There(h).data]
      BY <1>1 DEF EntryType
    <3> QED
      BY <1>8, <3>1 DEF ChmodFile
  <2>2. cur[h] \in File
    BY <1>3, <1>8 DEF LocalOK, ChmodFile
  <2>3. GetFilePerm(perm) \in Modes
    BY DEF Modes
  <2> QED
    BY <1>5, <1>6, <1>8, <2>1, <2>2, <2>3 DEF WritesAs, ChmodsIt
<1>9. CASE CopyChunk(h)
  <2> DEFINE d == [There(h).data EXCEPT ![pos[h] + 1] = SourceOf(h)]
  <2>1. d \in [1..MaxLen -> Area \cup {"hole", "old"}]
    BY <1>1, <1>5
  <2>2. Write(h, [is |-> There(h).is, mode |-> There(h).mode, data |-> d])
    <3>1. [There(h) EXCEPT !.data[pos[h] + 1] = SourceOf(h)]
            = [is |-> There(h).is, mode |-> There(h).mode, data |-> d]
      BY <1>1 DEF EntryType
    <3> QED
      BY <1>9, <3>1 DEF CopyChunk
  <2>3. cur[h] \in File
    BY <1>3, <1>9 DEF LocalOK, CopyChunk
  <2> HIDE DEF d
  <2>4. /\ dst' \in [Area -> [Node -> EntryType']]
        /\ \A a \in Area, n \in Node :
             (a = AreaOf(h) /\ n = cur[h]) \/ dst'[a][n] = dst[a][n]
        /\ NewThere(h).is = There(h).is /\ NewThere(h).mode = There(h).mode /\ NewThere(h).data = d
    BY <1>5, <1>6, <2>1, <2>2
  <2> QED
    BY <1>9, <2>3, <2>4 DEF d, WritesAs, CopiesIt
<1>10. CASE Mkdir(h)
  <2> DEFINE m == NewMode(GetDirPerm(perm))
  <2>1. m \in Modes
    BY DEF Modes
  <2>2. Hole \in [1..MaxLen -> Area \cup {"hole", "old"}]
    BY DEF Hole
  <2>3. Write(h, [is |-> "dir", mode |-> m, data |-> Hole])
    <3>1. [is |-> "dir", mode |-> m, data |-> Hole] = [is |-> "dir", data |-> Hole, mode |-> m]
      OBVIOUS
    <3> QED
      BY <1>10, <3>1 DEF Mkdir
  <2>4. cur[h] \in Dir /\ pc[h] = "mkdir"
    BY <1>3, <1>10 DEF LocalOK, Mkdir
  <2> HIDE DEF m
  <2> QED
    BY <1>6, <2>1, <2>2, <2>3, <2>4 DEF WritesAs, OpenDest, ChmodFile, CopyChunk
<1>11. CASE ChmodDir(h) /\ cwd = "root"
  <2>1. Write(h, [is |-> There(h).is, mode |-> GetDirPerm(perm), data |-> There(h).data])
    <3>1. [There(h) EXCEPT !.mode = GetDirPerm(perm)]
            = [is |-> There(h).is, mode |-> GetDirPerm(perm), data |-> There(h).data]
      BY <1>1 DEF EntryType
    <3> QED
      BY <1>11, <3>1 DEF ChmodDir
  <2>2. cur[h] \in Dir /\ pc[h] = "chmoddir" /\ There(h).is = "dir"
    BY <1>3, <1>11 DEF LocalOK, ChmodDir
  <2>3. GetDirPerm(perm) \in Modes
    BY DEF Modes
  <2> QED
    BY <1>5, <1>6, <2>1, <2>2, <2>3 DEF WritesAs, OpenDest, ChmodFile, CopyChunk
<1>12. CASE /\ ~OpenDest(h) /\ ~ChmodFile(h) /\ ~CopyChunk(h) /\ ~Mkdir(h)
            /\ ~(ChmodDir(h) /\ cwd = "root")
  <2>1. UNCHANGED dst
    BY <1>12 DEF CopyStep, CopyDirStep, CopyFileStep, Start, CallFails, ReadDir, DirIsThere,
       ChmodDir, MkdirFails, Recheck, TakeEntry, CopyDirReturns, OpenSource, StatDest,
       StatDestFails, ChmodFileFails, WriteFails, CopyEnds, Close
  <2> QED
    BY <1>2, <1>4, <1>12, <2>1 DEF WritesAs
<1> QED
  BY <1>7, <1>8, <1>9, <1>10, <1>11, <1>12

\* A step of one copy changes the state of no other.
OthersStay(h) ==
  \A k \in Host \ {h} :
    /\ pc'[k] = pc[k] /\ stack'[k] = stack[k] /\ cur'[k] = cur[k] /\ create'[k] = create[k]
    /\ pos'[k] = pos[k] /\ err'[k] = err[k] /\ unseen'[k] = unseen[k]

LEMMA OthersUntouched ==
  ASSUME TypeInv, NEW h \in Host, CopyStep(h)
  PROVE  OthersStay(h)
<1> USE DEF TypeInv, TypeOK, Goto, Abort
<1>1. CASE CopyDirStep(h)
  BY <1>1 DEF OthersStay, CopyDirStep, Start, CallFails, ReadDir, DirIsThere, Mkdir, ChmodDir,
     MkdirFails, Recheck, TakeEntry, CopyDirReturns
<1>2. CASE CopyFileStep(h)
  BY <1>2 DEF OthersStay, CopyFileStep, OpenSource, StatDest, StatDestFails, OpenDest,
     ChmodFile, ChmodFileFails, CopyChunk, WriteFails, CopyEnds, Close
<1> QED
  BY <1>1, <1>2 DEF CopyStep

Frame == [dir : Dir, todo : SUBSET Node]

\* The types of the variables of a copy.
LEMMA StepTypes ==
  ASSUME TypeInv, LocalInv, NEW h \in Host, CopyStep(h)
  PROVE  /\ pc' \in [Host -> Calls] /\ cur' \in [Host -> Node] /\ create' \in [Host -> BOOLEAN]
         /\ pos' \in [Host -> Nat] /\ open' \in [Host -> SUBSET {"from", "to"}]
         /\ err' \in [Host -> BOOLEAN] /\ progress' \in [Host -> Nat]
         /\ unseen' \in [Host -> SUBSET File]
<1>1. /\ pc \in [Host -> Calls] /\ cur \in [Host -> Node] /\ create \in [Host -> BOOLEAN]
      /\ pos \in [Host -> Nat] /\ open \in [Host -> SUBSET {"from", "to"}]
      /\ err \in [Host -> BOOLEAN] /\ progress \in [Host -> Nat]
      /\ unseen \in [Host -> SUBSET File]
  BY DEF TypeInv, TypeOK, Calls
<1>2. LocalOK(h)
  BY DEF LocalInv
<1>3. pc' \in [Host -> Calls]
  <2>1. CASE CopyDirStep(h)
    BY <1>1, <2>1 DEF CopyDirStep, Start, CallFails, ReadDir, DirIsThere, Mkdir, ChmodDir,
       MkdirFails, Recheck, TakeEntry, CopyDirReturns, Goto, Abort, Calls
  <2>2. CASE CopyFileStep(h)
    BY <1>1, <2>2 DEF CopyFileStep, OpenSource, StatDest, StatDestFails, OpenDest,
       ChmodFile, ChmodFileFails, CopyChunk, WriteFails, CopyEnds, Close, Goto, Abort, Calls
  <2> QED
    BY <2>1, <2>2 DEF CopyStep
<1>4. /\ cur' = cur \/ \E n \in Node : cur' = [cur EXCEPT ![h] = n]
      /\ create' = create \/ \E x \in BOOLEAN : create' = [create EXCEPT ![h] = x]
      /\ pos' = pos \/ pos' = [pos EXCEPT ![h] = 0] \/ pos' = [pos EXCEPT ![h] = @ + 1]
      /\ \/ open' = open \/ open' = [open EXCEPT ![h] = {"from"}] \/ open' = [open EXCEPT ![h] = {}]
         \/ open' = [open EXCEPT ![h] = @ \cup {"to"}] \/ open' = [open EXCEPT ![h] = @ \ {"to"}]
      /\ err' = err \/ err' = [err EXCEPT ![h] = TRUE]
      /\ progress' = progress \/ Report(h)
      /\ \/ unseen' = unseen
         \/ pc[h] = "stat" /\ unseen' = [unseen EXCEPT ![h] = @ \cup {cur[h]}]
  <2> USE DEF CopyStep, CopyDirStep, CopyFileStep, Start, CallFails, ReadDir, DirIsThere, Mkdir,
       ChmodDir, MkdirFails, Recheck, TakeEntry, CopyDirReturns, OpenSource, StatDest,
       StatDestFails, OpenDest, ChmodFile, ChmodFileFails, CopyChunk, WriteFails,
       CopyEnds, Close
  <2>1. cur' = cur \/ \E n \in Node : cur' = [cur EXCEPT ![h] = n]
    OBVIOUS
  <2>2. create' = create \/ \E x \in BOOLEAN : create' = [create EXCEPT ![h] = x]
    OBVIOUS
  <2>3. pos' = pos \/ pos' = [pos EXCEPT ![h] = 0] \/ pos' = [pos EXCEPT ![h] = @ + 1]
    OBVIOUS
  <2>4. \/ open' = open \/ open' = [open EXCEPT ![h] = {"from"}] \/ open' = [open EXCEPT ![h] = {}]
        \/ open' = [open EXCEPT ![h] = @ \cup {"to"}] \/ open' = [open EXCEPT ![h] = @ \ {"to"}]
    OBVIOUS
  <2>5. err' = err \/ err' = [err EXCEPT ![h] = TRUE]
    BY DEF Abort
  <2>6. progress' = progress \/ Report(h)
    OBVIOUS
  <2>7. \/ unseen' = unseen
        \/ pc[h] = "stat" /\ unseen' = [unseen EXCEPT ![h] = @ \cup {cur[h]}]
    OBVIOUS
  <2> QED
    BY <2>1, <2>2, <2>3, <2>4, <2>5, <2>6, <2>7
<1>5. cur' \in [Host -> Node]
  BY <1>1, <1>4
<1>8. create' \in [Host -> BOOLEAN]
  BY <1>1, <1>4
<1>11. err' \in [Host -> BOOLEAN]
  BY <1>1, <1>4
<1>6. pos' \in [Host -> Nat]
  BY <1>1, <1>4
<1>7. open' \in [Host -> SUBSET {"from", "to"}]
  BY <1>1, <1>4
<1>9. progress' \in [Host -> Nat]
  BY <1>1, <1>4 DEF Report
<1>10. unseen' \in [Host -> SUBSET File]
  <2>1. pc[h] = "stat" => cur[h] \in File
    BY <1>2 DEF LocalOK
  <2> QED
    BY <1>1, <1>4, <2>1
<1> QED
  BY <1>3, <1>5, <1>6, <1>7, <1>8, <1>9, <1>10, <1>11

LEMMA StackTypes ==
  ASSUME TypeInv, LocalInv, NEW h \in Host, CopyStep(h)
  PROVE  stack' \in [Host -> Seq(Frame)]
<1>1. stack \in [Host -> Seq(Frame)] /\ cur[h] \in Node /\ LocalOK(h)
  BY DEF TypeInv, TypeOK, LocalInv, Frame
<1>2. CASE ReadDir(h)
  <2> DEFINE r == [dir |-> cur[h], todo |-> Children(cur[h])]
  <2>1. r \in Frame
    BY <1>2 DEF Children, ReadDir, Frame
  <2>2. stack' = [stack EXCEPT ![h] = Append(stack[h], r)]
    BY <1>2 DEF ReadDir
  <2> HIDE DEF r
  <2>3. Append(stack[h], r) \in Seq(Frame)
    BY <1>1, <2>1
  <2> QED
    BY <1>1, <2>2, <2>3
<1>3. ASSUME NEW n \in Node, TakeEntry(h, n) PROVE stack' \in [Host -> Seq(Frame)]
  <2> DEFINE s == stack[h]  l == Len(stack[h])  r == [s[l] EXCEPT !.todo = @ \ {n}]
  <2>1. s \in Seq(Frame) /\ s # <<>>
    BY <1>1, <1>3 DEF LocalOK, TakeEntry
  <2>2. l \in 1..Len(s) /\ s[l] \in Frame
    BY <2>1
  <2>3. r \in Frame
    BY <2>2 DEF Frame
  <2>4. [s EXCEPT ![l] = r] \in Seq(Frame)
    BY <2>1, <2>2, <2>3
  <2>5. stack' = [stack EXCEPT ![h] = [s EXCEPT ![l] = r]]
    BY <1>1, <1>3 DEF TakeEntry
  <2> HIDE DEF s, l, r
  <2> QED
    BY <1>1, <2>4, <2>5
<1>4. CASE CopyDirReturns(h)
  <2>1. stack[h] # <<>> /\ stack[h] \in Seq(Frame)
    BY <1>1, <1>4 DEF LocalOK, CopyDirReturns
  <2>2. SubSeq(stack[h], 1, Len(stack[h]) - 1) \in Seq(Frame)
    BY <2>1
  <2> QED
    BY <1>1, <1>4, <2>2 DEF CopyDirReturns
<1>5. CASE UNCHANGED stack \/ stack' = [stack EXCEPT ![h] = <<>>]
  <2>1. <<>> \in Seq(Frame)
    OBVIOUS
  <2> QED
    BY <1>1, <1>5, <2>1
<1>6. \/ ReadDir(h) \/ CopyDirReturns(h) \/ (\E n \in Node : TakeEntry(h, n))
      \/ UNCHANGED stack \/ stack' = [stack EXCEPT ![h] = <<>>]
  BY DEF CopyStep, CopyDirStep, CopyFileStep, Start, CallFails, DirIsThere, Mkdir, ChmodDir,
     MkdirFails, Recheck, OpenSource, StatDest, StatDestFails, OpenDest,
     ChmodFile, ChmodFileFails, CopyChunk, WriteFails, CopyEnds, Close, Abort
<1> QED
  BY <1>2, <1>3, <1>4, <1>5, <1>6

\* No file is read past its end.
LEMMA StepTyped ==
  ASSUME TypeInv, LocalInv, NEW h \in Host, CopyStep(h)
  PROVE  TypeInv'
<1>1. UNCHANGED inputs /\ WritesAs(h) /\ OthersStay(h)
  BY InputsStay, StepWrites, OthersUntouched
<1>2. /\ pc' \in [Host -> Calls] /\ cur' \in [Host -> Node] /\ create' \in [Host -> BOOLEAN]
      /\ pos' \in [Host -> Nat] /\ open' \in [Host -> SUBSET {"from", "to"}]
      /\ err' \in [Host -> BOOLEAN] /\ progress' \in [Host -> Nat]
      /\ unseen' \in [Host -> SUBSET File] /\ stack' \in [Host -> Seq(Frame)]
  BY StepTypes, StackTypes
<1>3. ASSUME NEW k \in Host, pc'[k] = "copy" PROVE pos'[k] <= Chunks[cur'[k]]
  <2>1. CASE k # h
    BY <1>1, <1>3, <2>1 DEF OthersStay, TypeInv, TypeOK
  <2>2. CASE k = h
    <3>1. /\ pc \in [Host -> Calls] /\ pos \in [Host -> Nat] /\ LocalOK(h)
          /\ (pc[h] = "copy" => pos[h] <= Chunks[cur[h]])
      BY DEF TypeInv, TypeOK, Calls, LocalInv
    <3>2. \A n \in File : Chunks[n] \in Nat
      BY TransferAssumption
    <3>3. CASE OpenDest(h)
      BY <1>3, <2>2, <3>1, <3>2, <3>3 DEF OpenDest, LocalOK
    <3>4. CASE ChmodFile(h)
      BY <1>3, <2>2, <3>1, <3>2, <3>4 DEF ChmodFile, LocalOK
    <3>5. CASE CopyChunk(h)
      BY <1>3, <2>2, <3>1, <3>2, <3>5 DEF CopyChunk, LocalOK
    <3>6. CASE ~OpenDest(h) /\ ~ChmodFile(h) /\ ~CopyChunk(h)
      BY <1>3, <2>2, <3>1, <3>6 DEF CopyStep, CopyDirStep, CopyFileStep, Start, CallFails,
         DirIsThere, Mkdir, ChmodDir, MkdirFails, Recheck, OpenSource, StatDest, StatDestFails,
         ReadDir, TakeEntry, CopyDirReturns, ChmodFileFails, WriteFails, CopyEnds, Close,
         Abort, Goto
    <3> QED
      BY <3>3, <3>4, <3>5, <3>6
  <2> QED
    BY <2>1, <2>2
<1>4. dst' \in [Area -> [Node -> EntryType']]
  BY <1>1 DEF WritesAs
<1>5. \A a \in Area, n \in Node :
        /\ dst'[a][n].is \in {"none", "file", "dir"}
        /\ dst'[a][n].data \in [1..MaxLen -> Area \cup {"hole", "old"}]
  BY <1>4 DEF EntryType
<1>6. /\ alias' \in [Host -> Alias] /\ op' \in Ops /\ src' \in Node
      /\ before' \in [Node -> {"none", "file", "dir"}]
  BY <1>1 DEF inputs, TypeInv
<1>7. TypeOK'
  BY <1>2, <1>3, <1>5 DEF TypeOK, Calls, Frame
<1> QED
  BY <1>4, <1>6, <1>7 DEF TypeInv

SameAlias == op = "downloadDir" => \A g, k \in Host : alias[g] = alias[k]

\* The stack when the last copyDir returns.
LEMMA Popped ==
  ASSUME NEW s \in Seq(Frame), s # <<>>
  PROVE  LET t == SubSeq(s, 1, Len(s) - 1) IN
         /\ t \in Seq(Frame) /\ Len(s) \in Nat \ {0} /\ Len(t) = Len(s) - 1
         /\ \A i \in 1..Len(t) : t[i] = s[i]
         /\ Len(s) = 1 => t = <<>>
         /\ Len(s) # 1 => t # <<>>
<1>1. PICK l \in Nat \ {0} : l = Len(s)
  OBVIOUS
<1> DEFINE t == SubSeq(s, 1, l - 1)
<1>2. /\ t \in Seq(Frame) /\ Len(t) = IF 1 <= l - 1 THEN (l - 1) - 1 + 1 ELSE 0
      /\ \A i \in 1..(l - 1) - 1 + 1 : t[i] = s[1 + i - 1]
  <2>1. \A i \in 1..l - 1 : s[i] \in Frame
    BY <1>1
  <2> QED
    BY <2>1, SubSeqProperties
<1> HIDE DEF t
<1>3. Len(t) = l - 1
  BY <1>2
<1>4. \A i \in 1..l - 1 : t[i] = s[i]
  BY <1>2
<1>5. l = 1 => t = <<>>
  BY <1>2, <1>3
<1>6. l # 1 => t # <<>>
  <2>1. t = <<>> => Len(t) = 0
    OBVIOUS
  <2> QED
    BY <1>3, <2>1
<1>7. t = SubSeq(s, 1, Len(s) - 1)
  BY <1>1 DEF t
<1> QED
  BY <1>1, <1>2, <1>3, <1>4, <1>5, <1>6, <1>7

\* The places of a copy never change.
LEMMA PlacesStay ==
  ASSUME NEW h \in Host, NEW g \in Host, CopyStep(h)
  PROVE  AreaOf(g)' = AreaOf(g) /\ SourceOf(g)' = SourceOf(g) /\ Together(g)' = Together(g)
<1>1. UNCHANGED inputs
  BY InputsStay
<1> QED
  BY <1>1 DEF inputs, AreaOf, SourceOf, Together

\* Who has not come to a chunk of n still has not, unless this step writes it.
LEMMA WritingStays ==
  ASSUME TypeInv, LocalInv, NEW h \in Host, CopyStep(h), NEW k \in Host,
         NEW n \in File, NEW j \in 1..MaxLen, j <= Chunks[n],
         Writing(k, n, j), ~(CopyChunk(h) /\ k = h /\ j = pos[h] + 1)
  PROVE  Writing(k, n, j)'
<1>1. CASE k # h
  BY <1>1, OthersUntouched DEF OthersStay, Writing
<1>2. CASE k = h
  <2>1. /\ pc \in [Host -> Calls] /\ pos \in [Host -> Nat] /\ cur \in [Host -> Node]
        /\ err \in [Host -> BOOLEAN] /\ LocalOK(h) /\ Chunks[n] \in Nat
    BY TransferAssumption DEF TypeInv, TypeOK, Calls, LocalInv
  <2>2. cur[h] = n /\ pc[h] \in {"chmod", "copy", "close", "done"}
    BY <1>2, <2>1 DEF Writing, LocalOK
  <2>3. \/ (CallFails(h) /\ pc[h] = "copy") \/ ChmodFile(h) \/ ChmodFileFails(h)
        \/ CopyChunk(h) \/ WriteFails(h) \/ CopyEnds(h) \/ Close(h)
    BY <2>2 DEF CopyStep, CopyDirStep, CopyFileStep, Start, ReadDir, DirIsThere, Mkdir, ChmodDir,
       MkdirFails, Recheck, TakeEntry, CopyDirReturns, OpenSource, StatDest,
       StatDestFails, OpenDest, CallFails
  <2>4. UNCHANGED cur
    BY <2>3 DEF CallFails, ChmodFile, ChmodFileFails, CopyChunk, WriteFails, CopyEnds, Close
  <2>5. CASE CallFails(h) \/ ChmodFileFails(h) \/ WriteFails(h)
    <3>1. err'[h] = TRUE
      BY <2>1, <2>5 DEF CallFails, ChmodFileFails, WriteFails, Abort
    <3> QED
      BY <1>2, <2>2, <2>4, <3>1 DEF Writing
  <2>6. CASE Close(h)
    <3>1. err[h]
      BY <1>2, <2>6 DEF Writing, Close
    <3>2. err'[h]
      BY <2>1, <2>6, <3>1 DEF Close
    <3> QED
      BY <1>2, <2>2, <2>4, <3>2 DEF Writing
  <2>7. CASE ChmodFile(h)
    BY <1>2, <2>1, <2>2, <2>7 DEF Writing, ChmodFile, Goto
  <2>8. CASE CopyChunk(h)
    <3>1. pc[h] = "copy" /\ ~err[h] /\ pos[h] < j /\ j # pos[h] + 1
      BY <1>2, <2>1, <2>8 DEF Writing, CopyChunk, LocalOK
    <3>2. pc'[h] = "copy" /\ pos'[h] = pos[h] + 1
      BY <2>1, <2>8 DEF CopyChunk
    <3>3. pos'[h] < j
      BY <2>1, <3>1, <3>2
    <3> QED
      BY <1>2, <2>2, <2>4, <3>2, <3>3 DEF Writing
  <2>9. CASE CopyEnds(h)
    <3>1. pc[h] = "copy" /\ ~err[h] /\ pos[h] < j /\ pos[h] = Chunks[n]
      BY <1>2, <2>1, <2>2, <2>9 DEF Writing, CopyEnds, LocalOK
    <3> QED
      BY <2>1, <3>1
  <2> QED
    BY <2>3, <2>5, <2>6, <2>7, <2>8, <2>9
<1> QED
  BY <1>1, <1>2

\* Copies to one place agree on what of it is written.
LEMMA WrittenTogether ==
  ASSUME TypeInv, SameAlias, NEW g \in Host, NEW h \in Host, AreaOf(g) = AreaOf(h),
         NEW n \in File, Written(g, n)
  PROVE  Written(h, n)
<1>1. SourceOf(g) = SourceOf(h) /\ Together(g) = Together(h)
  BY OneSource DEF SameAlias, Together
<1> QED
  BY <1>1 DEF Written

\* What opening the destination makes of it.
LEMMA OpenedWritten ==
  ASSUME TypeInv, LocalInv, NEW h \in Host, CopyStep(h), OpensIt(h),
         NEW g \in Host, AreaOf(g) = AreaOf(h), NEW n \in File, cur[h] = n
  PROVE  Written(g, n)'
<1>1. cur' = cur /\ pc'[h] \in {"chmod", "copy"} /\ pos'[h] = 0
  BY DEF OpensIt, OpenDest, Goto, TypeInv, TypeOK
<1>2. \A j \in 1..MaxLen : Writing(h, n, j)'
  BY <1>1 DEF Writing
<1>3. h \in Together(g)'
  BY PlacesStay DEF Together
<1>4. dst'[AreaOf(g)'][n].is = "file" /\ dst'[AreaOf(g)'][n].data = Hole
  BY PlacesStay DEF OpensIt, NewThere
<1>5. \A j \in 1..MaxLen : dst'[AreaOf(g)'][n].data[j] = "hole"
  BY <1>4 DEF Hole
<1> QED
  BY <1>1, <1>2, <1>3, <1>4, <1>5 DEF Written

\* A file that is written stays written.
LEMMA WrittenStays ==
  ASSUME TypeInv, LocalInv, SameAlias, NEW h \in Host, CopyStep(h), NEW g \in Host,
         NEW n \in File, Written(g, n)
  PROVE  Written(g, n)'
<1>1. WritesAs(h) /\ AreaOf(g) \in Area /\ AreaOf(h) \in Area /\ n \in Node /\ cur[h] \in Node
  BY StepWrites, AreasKnown DEF Node, TypeInv, TypeOK
<1>2. AreaOf(g)' = AreaOf(g) /\ SourceOf(g)' = SourceOf(g) /\ Together(g)' = Together(g)
  BY PlacesStay
<1>3. CASE OpensIt(h) /\ AreaOf(g) = AreaOf(h) /\ cur[h] = n
  BY <1>3, OpenedWritten
<1>4. CASE CopiesIt(h) /\ AreaOf(g) = AreaOf(h) /\ cur[h] = n
  <2> DEFINE d == dst[AreaOf(g)][n].data  e == dst'[AreaOf(g)][n].data
  <2>1. SourceOf(g) = SourceOf(h)
    BY <1>4, OneSource DEF SameAlias
  <2>2. e = [d EXCEPT ![pos[h] + 1] = SourceOf(h)] /\ dst'[AreaOf(g)][n].is = "file"
    BY <1>4 DEF CopiesIt, NewThere, There, Written
  <2>3. d \in [1..MaxLen -> Area \cup {"hole", "old"}] /\ pos[h] \in Nat
    BY <1>1 DEF TypeInv, TypeOK
  <2>4. pos[h] < Chunks[n] /\ Chunks[n] \in Nat
    BY <1>4, TransferAssumption DEF CopiesIt, CopyChunk
  <2> HIDE DEF d, e
  <2>5. ASSUME NEW j \in 1..MaxLen
        PROVE  IF j <= Chunks[n]
               THEN e[j] = SourceOf(g) \/ (e[j] = "hole" /\ \E k \in Together(g) : Writing(k, n, j)')
               ELSE e[j] = "hole"
    <3>1. IF j <= Chunks[n]
          THEN d[j] = SourceOf(g) \/ (d[j] = "hole" /\ \E k \in Together(g) : Writing(k, n, j))
          ELSE d[j] = "hole"
      BY DEF Written, d
    <3>2. CASE j = pos[h] + 1
      BY <2>1, <2>2, <2>3, <2>4, <3>2
    <3>3. CASE j # pos[h] + 1
      <4>1. e[j] = d[j]
        BY <2>2, <2>3, <3>3
      <4>2. ASSUME j <= Chunks[n], NEW k \in Together(g), Writing(k, n, j) PROVE Writing(k, n, j)'
        BY <3>3, <4>2, WritingStays DEF Together
      <4> QED
        BY <3>1, <4>1, <4>2
    <3> QED
      BY <3>2, <3>3
  <2> QED
    BY <1>2, <2>2, <2>5 DEF Written, e
<1>5. CASE /\ ~(OpensIt(h) /\ AreaOf(g) = AreaOf(h) /\ cur[h] = n)
           /\ ~(CopiesIt(h) /\ AreaOf(g) = AreaOf(h) /\ cur[h] = n)
  <2>1. dst'[AreaOf(g)][n].is = dst[AreaOf(g)][n].is /\ dst'[AreaOf(g)][n].data = dst[AreaOf(g)][n].data
    <3>1. CASE AreaOf(g) # AreaOf(h) \/ cur[h] # n
      BY <1>1, <3>1 DEF WritesAs
    <3>2. CASE AreaOf(g) = AreaOf(h) /\ cur[h] = n
      <4>1. cur[h] \notin Dir
        BY <3>2, TransferAssumption
      <4> QED
        BY <1>1, <1>5, <3>2, <4>1 DEF WritesAs, ChmodsIt, NewThere, There
    <3> QED
      BY <3>1, <3>2
  <2>2. ASSUME NEW j \in 1..MaxLen, j <= Chunks[n], NEW k \in Together(g), Writing(k, n, j)
        PROVE  Writing(k, n, j)'
    <3>1. ~(CopyChunk(h) /\ k = h)
      <4>1. ASSUME CopyChunk(h), k = h PROVE FALSE
        <5>1. AreaOf(g) = AreaOf(h) /\ cur[h] = n
          BY <2>2, <4>1 DEF Together, Writing
        <5>2. pc[h] = "copy" /\ cur[h] \notin Dir
          BY <4>1, <5>1, TransferAssumption DEF CopyChunk
        <5>3. CopiesIt(h)
          BY <1>1, <4>1, <5>2 DEF WritesAs, OpensIt, ChmodsIt, OpenDest, ChmodFile
        <5> QED
          BY <1>5, <5>1, <5>3
      <4> QED
        BY <4>1
    <3> QED
      BY <2>2, <3>1, WritingStays DEF Together
  <2> QED
    BY <1>2, <2>1, <2>2 DEF Written
<1> QED
  BY <1>3, <1>4, <1>5

\* A file is never replaced by something else, and neither is a directory.
LEMMA KindStays ==
  ASSUME TypeInv, LocalInv, NEW h \in Host, CopyStep(h), NEW g \in Host, NEW n \in Node
  PROVE  /\ n \in File /\ dst[AreaOf(g)][n].is = "file" => dst'[AreaOf(g)][n].is = "file"
         /\ n \in Dir /\ dst[AreaOf(g)][n].is = "dir" => dst'[AreaOf(g)][n].is = "dir"
<1>1. WritesAs(h) /\ AreaOf(g) \in Area /\ AreaOf(h) \in Area
  BY StepWrites, AreasKnown
<1>2. CASE AreaOf(g) # AreaOf(h) \/ cur[h] # n
  BY <1>1, <1>2 DEF WritesAs
<1>3. CASE AreaOf(g) = AreaOf(h) /\ cur[h] = n
  <2>1. n \notin File \/ n \notin Dir
    BY TransferAssumption
  <2> QED
    BY <1>1, <1>3, <2>1 DEF WritesAs, OpensIt, ChmodsIt, CopiesIt, NewThere, There
<1> QED
  BY <1>2, <1>3

\* A file that nobody has written is as it was before.
LEMMA StepFiles ==
  ASSUME TypeInv, LocalInv, FileInv, SameAlias, NEW h \in Host, CopyStep(h)
  PROVE  FileInv'
<1> SUFFICES ASSUME NEW g \in Host, NEW n \in File PROVE Untouched(g, n)' \/ Written(g, n)'
  BY DEF FileInv
<1>1. WritesAs(h) /\ AreaOf(g) \in Area /\ AreaOf(h) \in Area /\ n \in Node /\ n \notin Dir
  BY StepWrites, AreasKnown, TransferAssumption DEF Node
<1>2. CASE Written(g, n)
  BY <1>2, WrittenStays
<1>3. CASE Untouched(g, n) /\ ~Written(g, n)
  <2>1. CASE OpensIt(h) /\ AreaOf(g) = AreaOf(h) /\ cur[h] = n
    BY <2>1, OpenedWritten
  <2>2. CASE ~(OpensIt(h) /\ AreaOf(g) = AreaOf(h) /\ cur[h] = n)
    <3>1. ~(pc[h] \in {"chmod", "copy"} /\ AreaOf(g) = AreaOf(h) /\ cur[h] = n)
      BY <1>3, WrittenTogether DEF LocalInv, LocalOK
    <3>2. ~((ChmodsIt(h) \/ CopiesIt(h)) /\ AreaOf(g) = AreaOf(h) /\ cur[h] = n)
      BY <3>1 DEF ChmodsIt, CopiesIt, ChmodFile, CopyChunk
    <3>3. dst'[AreaOf(g)][n] = dst[AreaOf(g)][n]
      BY <1>1, <2>2, <3>2 DEF WritesAs
    <3>4. AreaOf(g)' = AreaOf(g) /\ before' = before
      BY PlacesStay, InputsStay DEF inputs
    <3> QED
      BY <1>3, <3>3, <3>4 DEF Untouched, Entry, Hole
  <2> QED
    BY <2>1, <2>2
<1> QED
  BY <1>2, <1>3 DEF FileInv

\* The copies that do not move keep what they know.
LEMMA LocalStays ==
  ASSUME TypeInv, LocalInv, SameAlias, NEW h \in Host, CopyStep(h), NEW k \in Host, k # h
  PROVE  LocalOK(k)'
<1>1. OthersStay(h) /\ LocalOK(k) /\ UNCHANGED inputs /\ AreaOf(k)' = AreaOf(k)
  BY OthersUntouched, InputsStay, PlacesStay DEF LocalInv
<1>2. cur'[k] = cur[k] /\ cur[k] \in Node
  BY <1>1 DEF OthersStay, TypeInv, TypeOK
<1>3. pc[k] \in {"chmod", "copy"} => Written(k, cur[k])'
  <2>1. PICK n \in Node : n = cur[k]
    BY <1>2
  <2>2. pc[k] \in {"chmod", "copy"} => n \in File /\ Written(k, n)
    BY <1>1, <2>1 DEF LocalOK
  <2>3. pc[k] \in {"chmod", "copy"} => Written(k, n)'
    BY <2>2, WrittenStays
  <2>4. cur'[k] = n
    BY <1>2, <2>1
  <2> QED
    BY <2>3, <2>4
<1>4. /\ pc[k] = "chmoddir" => There(k)'.is = "dir"
      /\ pc[k] = "create" /\ There(k).is = "file" => There(k)'.is = "file"
  <2>1. There(k)' = dst'[AreaOf(k)][cur[k]]
    BY <1>1, <1>2 DEF There
  <2>2. /\ cur[k] \in File /\ dst[AreaOf(k)][cur[k]].is = "file" => dst'[AreaOf(k)][cur[k]].is = "file"
        /\ cur[k] \in Dir /\ dst[AreaOf(k)][cur[k]].is = "dir" => dst'[AreaOf(k)][cur[k]].is = "dir"
    BY <1>2, KindStays
  <2> QED
    BY <1>1, <2>1, <2>2 DEF LocalOK, There
<1> QED
  BY <1>1, <1>2, <1>3, <1>4 DEF LocalOK, OthersStay, inputs

\* The copy that moves knows of its next call what it has to.
LEMMA LocalMoves ==
  ASSUME TypeInv, LocalInv, FileInv, SameAlias, NEW h \in Host, CopyStep(h)
  PROVE  LocalOK(h)'
<1>1. /\ pc \in [Host -> Calls] /\ cur \in [Host -> Node] /\ create \in [Host -> BOOLEAN]
      /\ err \in [Host -> BOOLEAN] /\ pos \in [Host -> Nat] /\ stack \in [Host -> Seq(Frame)]
      /\ unseen \in [Host -> SUBSET File] /\ LocalOK(h)
  BY DEF TypeInv, TypeOK, Calls, Frame, LocalInv
<1>2. UNCHANGED inputs /\ WritesAs(h) /\ AreaOf(h)' = AreaOf(h)
  BY InputsStay, StepWrites, PlacesStay
<1>3. ASSUME Abort(h) PROVE LocalOK(h)'
  <2>1. err'[h] /\ pc'[h] \in {"close", "done"}
    BY <1>1, <1>3 DEF Abort, Goto
  <2> QED
    BY <2>1 DEF LocalOK
\* A call that needs nothing but the kind of the node, or the stack.
<1>4. ASSUME /\ pc'[h] \in {"readdir", "mkdir", "recheck", "entries", "open", "done"}
             /\ pc'[h] \in {"mkdir", "recheck"} => cur'[h] \in Dir
             /\ pc'[h] = "open" => cur'[h] \in File
             /\ pc'[h] \in {"mkdir", "recheck", "entries"} => stack'[h] # <<>>
             /\ pc'[h] = "done" => stack'[h] = <<>>
             /\ ~err'[h]
      PROVE  LocalOK(h)'
  BY <1>4 DEF LocalOK
<1>5. CASE Start(h)
  <2>1. cur'[h] \in Node /\ cur'[h] = cur[h] /\ ~err'[h] /\ pc'[h] \in {"readdir", "open"}
    BY <1>1, <1>5 DEF Start, Goto, LocalOK
  <2>2. pc'[h] = "open" => cur[h] \notin Dir
    BY <1>1, <1>5 DEF Start, Goto, LocalOK
  <2> QED
    BY <1>4, <2>1, <2>2 DEF Node
<1>6. CASE CallFails(h) \/ WriteFails(h)
  BY <1>3, <1>6 DEF CallFails, WriteFails
<1>7. CASE ReadDir(h)
  <2>1. pc'[h] = "mkdir" /\ cur'[h] = cur[h] /\ cur[h] \in Dir /\ ~err'[h]
    BY <1>1, <1>7 DEF ReadDir, Goto, LocalOK
  <2>2. stack'[h] # <<>>
    <3>1. PICK r \in Frame : stack'[h] = Append(stack[h], r)
      <4>1. [dir |-> cur[h], todo |-> Children(cur[h])] \in Frame
        BY <2>1 DEF Frame, Children
      <4> QED
        BY <1>1, <1>7, <4>1 DEF ReadDir
    <3>2. PICK s \in Seq(Frame) : s = stack[h]
      BY <1>1
    <3>3. Append(s, r) # <<>>
      BY AppendProperties
    <3> QED
      BY <3>1, <3>2, <3>3
  <2> QED
    BY <1>4, <2>1, <2>2
<1>8. CASE DirIsThere(h) \/ Recheck(h)
  <2>1. CASE Abort(h)
    BY <1>3, <2>1
  <2>2. CASE ~Abort(h)
    BY <1>1, <1>4, <1>8, <2>2 DEF DirIsThere, Recheck, Goto, LocalOK
  <2> QED
    BY <2>1, <2>2
<1>9. CASE Mkdir(h)
  <2>1. pc'[h] \in {"chmoddir", "entries"} /\ cur'[h] \in Dir /\ stack'[h] # <<>> /\ ~err'[h]
    BY <1>1, <1>9 DEF Mkdir, Goto, LocalOK
  <2>2. NewThere(h).is = "dir"
    BY <1>9, <2>1, <1>2, TransferAssumption DEF WritesAs, Mkdir, OpensIt, ChmodsIt, CopiesIt, There
  <2> QED
    BY <1>2, <1>9, <2>1, <2>2 DEF LocalOK, There, NewThere, Mkdir
<1>10. CASE ChmodDir(h) \/ MkdirFails(h)
  BY <1>1, <1>4, <1>10 DEF ChmodDir, MkdirFails, Goto, LocalOK
<1>11. ASSUME NEW n \in Node, TakeEntry(h, n) PROVE LocalOK(h)'
  BY <1>1, <1>4, <1>11 DEF TakeEntry, Goto, LocalOK, Node
<1>12. CASE CopyDirReturns(h)
  <2>1. stack[h] # <<>> /\ stack[h] \in Seq(Frame) /\ ~err'[h]
    BY <1>1, <1>12 DEF CopyDirReturns, LocalOK
  <2>2. stack'[h] = SubSeq(stack[h], 1, Len(stack[h]) - 1)
    BY <1>1, <1>12 DEF CopyDirReturns
  <2>3. PICK s \in Seq(Frame) : s = stack[h]
    BY <2>1
  <2>4. pc'[h] = IF Len(stack[h]) = 1 THEN "done" ELSE "entries"
    BY <1>1, <1>12 DEF CopyDirReturns, Goto
  <2>5. IF Len(stack[h]) = 1 THEN stack'[h] = <<>> ELSE stack'[h] # <<>>
    BY <2>1, <2>2, <2>3, Popped
  <2> QED
    BY <1>4, <2>1, <2>4, <2>5
<1>13. CASE OpenSource(h)
  BY <1>1, <1>2, <1>13 DEF OpenSource, Goto, LocalOK, inputs
<1>14. CASE StatDest(h)
  <2>1. CASE Abort(h)
    BY <1>3, <2>1
  <2>2. CASE ~Abort(h)
    <3>1. /\ pc'[h] = "create" /\ cur[h] \in File /\ ~err'[h] /\ cur' = cur /\ dst' = dst
          /\ create'[h] = (There(h).is = "none") /\ There(h).is # "dir"
          /\ op = "upload"
      BY <1>1, <1>14, <2>2 DEF StatDest, Goto, LocalOK
    <3>2. There(h).is \in {"none", "file", "dir"}
      BY <1>1, AreasKnown DEF There, TypeInv, TypeOK
    <3>3. There(h).is = "none" => before[cur[h]] # "file"
      BY <3>1 DEF FileInv, Untouched, Written, There
    <3>4. There(h)' = There(h)
      BY <1>2, <3>1 DEF There
    <3> QED
      BY <1>2, <3>1, <3>2, <3>3, <3>4 DEF LocalOK, inputs
  <2> QED
    BY <2>1, <2>2
<1>15. CASE StatDestFails(h)
  <2>1. /\ pc'[h] = "create" /\ cur'[h] = cur[h] /\ cur[h] \in File /\ ~err'[h]
        /\ ~create'[h] /\ cur[h] \in unseen'[h]
    BY <1>1, <1>15 DEF StatDestFails, Goto, LocalOK
  <2> QED
    BY <2>1 DEF LocalOK
<1>16. CASE OpenDest(h)
  <2>1. /\ pc'[h] = (IF create[h] THEN "chmod" ELSE "copy") /\ cur' = cur /\ cur[h] \in File
        /\ ~err'[h] /\ create' = create /\ pos'[h] = 0
        /\ create[h] => before[cur[h]] # "file" /\ op = "upload"
    BY <1>1, <1>16 DEF OpenDest, Goto, LocalOK
  <2>2. OpensIt(h)
    BY <1>2, <1>16 DEF WritesAs, ChmodsIt, CopiesIt, OpenDest, ChmodFile, CopyChunk
  <2>3. PICK n \in File : cur[h] = n
    BY <2>1
  <2>4. Written(h, n)'
    BY <2>2, <2>3, OpenedWritten
  <2>5. Written(h, cur[h])'
    BY <2>1, <2>3, <2>4
  <2> QED
    BY <1>2, <2>1, <2>5 DEF LocalOK, inputs
<1>17. CASE ChmodFile(h) \/ CopyChunk(h)
  <2>1. pc'[h] = "copy" /\ cur' = cur /\ cur[h] \in File /\ ~err'[h] /\ Written(h, cur[h])
    BY <1>1, <1>17 DEF ChmodFile, CopyChunk, Goto, LocalOK
  <2>2. PICK n \in File : cur[h] = n
    BY <2>1
  <2>3. Written(h, n)'
    BY <2>1, <2>2, WrittenStays
  <2>4. Written(h, cur[h])'
    BY <2>1, <2>2, <2>3
  <2> QED
    BY <2>1, <2>4 DEF LocalOK
<1>18. CASE ChmodFileFails(h)
  BY <1>3, <1>18 DEF ChmodFileFails
<1>19. CASE CopyEnds(h)
  <2>1. pc'[h] = "close" /\ ~err'[h]
    BY <1>1, <1>19 DEF CopyEnds, Goto, LocalOK
  <2> QED
    BY <2>1 DEF LocalOK
<1>20. CASE Close(h)
  <2>1. CASE err'[h]
    <3>1. pc'[h] = "done"
      BY <1>1, <1>20, <2>1 DEF Close, Goto
    <3> QED
      BY <2>1, <3>1 DEF LocalOK
  <2>2. CASE ~err'[h]
    <3>1. ~err[h] /\ stack' = stack /\ pc'[h] = IF stack[h] = <<>> THEN "done" ELSE "entries"
      BY <1>1, <1>20, <2>2 DEF Close, Goto
    <3> QED
      BY <1>4, <2>2, <3>1
  <2> QED
    BY <2>1, <2>2
<1> QED
  BY <1>5, <1>6, <1>7, <1>8, <1>9, <1>10, <1>11, <1>12, <1>13, <1>14, <1>15, <1>16, <1>17,
     <1>18, <1>19, <1>20 DEF CopyStep, CopyDirStep, CopyFileStep

\* A node is below itself, and what is below it is it or below one of its children.
LEMMA BelowSelf ==
  ASSUME NEW d \in Node
  PROVE  d \in Below[d]
BY DEF Below

LEMMA BelowChildren ==
  ASSUME NEW d \in Node, NEW n \in Below[d]
  PROVE  n = d \/ \E c \in Children(d) : n \in Below[c]
<1> DEFINE S == {d} \cup {m \in Node : \E c \in Children(d) : m \in Below[c]}
<1>1. S \in SUBSET Node /\ d \in S
  OBVIOUS
<1>2. ASSUME NEW m \in S, NEW x \in Children(m) PROVE x \in S
  <2>1. x \in Node
    BY DEF Children
  <2>2. CASE m = d
    BY <2>1, <2>2, BelowSelf
  <2>3. ASSUME NEW c \in Children(d), m \in Below[c] PROVE x \in S
    <3>1. c \in Node
      BY DEF Children
    <3>2. \A R \in SUBSET Node : c \in R /\ (\A y \in R : Children(y) \subseteq R) => m \in R
      BY <2>3, <3>1 DEF Below
    <3>3. x \in Below[c]
      BY <2>1, <3>1, <3>2 DEF Below
    <3> QED
      BY <2>1, <3>3
  <2> QED
    BY <2>2, <2>3
<1>3. \A m \in S : Children(m) \subseteq S
  BY <1>2
<1>4. n \in S
  BY <1>1, <1>3 DEF Below
<1> QED
  BY <1>4

LEMMA BelowFile ==
  ASSUME NEW d \in File, NEW n \in Below[d]
  PROVE  n = d
BY BelowChildren, TransferAssumption DEF Node, Children

\* The copy of h is still to come to p.
ToCome(h, p) ==
  \/ \E i \in 1..Len(stack[h]) : p \in stack[h][i].todo
  \/ pc[h] \in {"start", "readdir", "open", "stat", "create"} /\ p = cur[h]

\* n is at the destination, or will be unless the copy fails.
Made(h, n) == IF n \in Dir THEN dst[AreaOf(h)][n].is = "dir" ELSE Written(h, n)

Covered(h, n) ==
  \/ Made(h, n)
  \/ pc[h] \in {"mkdir", "chmoddir", "recheck"} /\ cur[h] = n
  \/ \E p \in Node : ToCome(h, p) /\ n \in Below[p]

CoverInv == \A h \in Host : err[h] \/ \A n \in Below[src] : Covered(h, n)

LEMMA MadeStays ==
  ASSUME TypeInv, LocalInv, SameAlias, NEW h \in Host, CopyStep(h), NEW g \in Host,
         NEW n \in Node, Made(g, n)
  PROVE  Made(g, n)'
<1>1. CASE n \in Dir
  BY <1>1, KindStays, PlacesStay DEF Made
<1>2. CASE n \notin Dir
  BY <1>2, WrittenStays DEF Made, Node
<1> QED
  BY <1>1, <1>2

\* A copy that does not fail keeps the entries it is still to come to, but for
\* the one it takes.
LEMMA EntriesStay ==
  ASSUME TypeInv, LocalInv, NEW h \in Host, CopyStep(h), ~err'[h],
         NEW p \in Node, NEW i \in 1..Len(stack[h]), p \in stack[h][i].todo
  PROVE  ToCome(h, p)'
<1>1. stack \in [Host -> Seq(Frame)] /\ err \in [Host -> BOOLEAN] /\ LocalOK(h)
      /\ pc \in [Host -> Calls] /\ cur \in [Host -> Node]
  BY DEF TypeInv, TypeOK, Frame, Calls, LocalInv
<1>2. PICK s \in Seq(Frame) : s = stack[h]
  BY <1>1
<1>3. PICK l \in Nat : l = Len(s)
  BY <1>2
<1>4. i \in 1..l /\ p \in s[i].todo /\ s # <<>> /\ l # 0
  BY <1>2, <1>3
<1>5. CASE ReadDir(h)
  <2>1. [dir |-> cur[h], todo |-> Children(cur[h])] \in Frame
    BY <1>5 DEF Frame, ReadDir, Children
  <2>2. PICK r \in Frame : stack'[h] = Append(s, r)
    BY <1>1, <1>2, <1>5, <2>1 DEF ReadDir
  <2>3. Len(stack'[h]) = l + 1 /\ stack'[h][i] = s[i]
    BY <1>3, <1>4, <2>2, AppendProperties
  <2>4. i \in 1..Len(stack'[h])
    BY <1>4, <2>3
  <2> QED
    BY <1>4, <2>3, <2>4 DEF ToCome
<1>6. ASSUME NEW n \in Node, TakeEntry(h, n) PROVE ToCome(h, p)'
  <2> DEFINE r == [s[l] EXCEPT !.todo = @ \ {n}]
  <2>1. stack'[h] = [s EXCEPT ![l] = r]
    BY <1>1, <1>2, <1>3, <1>6 DEF TakeEntry
  <2>2. s[l] \in Frame
    BY <1>3, <1>4
  <2>3. r.todo = s[l].todo \ {n}
    BY <2>2 DEF Frame
  <2> HIDE DEF r
  <2>4. Len(stack'[h]) = l
    BY <1>3, <2>1
  <2>5. stack'[h][i] = IF i = l THEN r ELSE s[i]
    BY <1>3, <1>4, <2>1
  <2>6. CASE p # n
    BY <1>4, <2>3, <2>4, <2>5, <2>6 DEF ToCome
  <2>7. CASE p = n
    BY <1>1, <1>6, <2>7 DEF ToCome, TakeEntry, Goto
  <2> QED
    BY <2>6, <2>7
<1>7. CASE CopyDirReturns(h)
  <2>1. stack'[h] = SubSeq(s, 1, Len(s) - 1) /\ s[l].todo = {}
    BY <1>1, <1>2, <1>3, <1>7 DEF CopyDirReturns, Top
  <2>2. i # l
    BY <1>4, <2>1
  <2>3. Len(stack'[h]) = l - 1 /\ \A x \in 1..l - 1 : stack'[h][x] = s[x]
    BY <1>3, <1>4, <2>1, Popped
  <2>4. i \in 1..Len(stack'[h]) /\ stack'[h][i] = s[i]
    BY <1>3, <1>4, <2>2, <2>3
  <2> QED
    BY <1>4, <2>4 DEF ToCome
<1>8. CASE stack' = stack
  BY <1>8 DEF ToCome
<1>9. \/ ReadDir(h) \/ CopyDirReturns(h) \/ (\E n \in Node : TakeEntry(h, n))
      \/ stack' = stack \/ err' = [err EXCEPT ![h] = TRUE]
  BY DEF CopyStep, CopyDirStep, CopyFileStep, Start, CallFails, DirIsThere, Mkdir, ChmodDir,
     MkdirFails, Recheck, OpenSource, StatDest, StatDestFails, OpenDest,
     ChmodFile, ChmodFileFails, CopyChunk, WriteFails, CopyEnds, Close, Abort
<1> QED
  BY <1>1, <1>5, <1>6, <1>7, <1>8, <1>9

\* The directory that is being made is made when its entries are read.
LEMMA DirCovered ==
  ASSUME TypeInv, LocalInv, SameAlias, NEW h \in Host, CopyStep(h), ~err'[h],
         pc[h] \in {"mkdir", "chmoddir", "recheck"}
  PROVE  Covered(h, cur[h])' /\ cur' = cur
<1>1. /\ pc \in [Host -> Calls] /\ err \in [Host -> BOOLEAN] /\ LocalOK(h)
      /\ cur[h] \in Dir /\ cur[h] \in Node
  BY DEF TypeInv, TypeOK, Calls, LocalInv, LocalOK, Node
<1>2. DirIsThere(h) \/ Mkdir(h) \/ ChmodDir(h) \/ MkdirFails(h) \/ Recheck(h)
  BY DEF CopyStep, CopyDirStep, CopyFileStep, Start, CallFails, ReadDir, TakeEntry,
     CopyDirReturns, OpenSource, StatDest, StatDestFails, OpenDest,
     ChmodFile, ChmodFileFails, CopyChunk, WriteFails, CopyEnds, Close
<1>3. cur' = cur
  BY <1>2 DEF DirIsThere, Mkdir, ChmodDir, MkdirFails, Recheck
<1>4. CASE MkdirFails(h)
  BY <1>1, <1>3, <1>4 DEF MkdirFails, Goto, Covered
<1>5. CASE DirIsThere(h) \/ ChmodDir(h) \/ Recheck(h)
  <2>1. There(h).is = "dir"
    BY <1>1, <1>5 DEF DirIsThere, ChmodDir, Recheck, Abort, LocalOK
  <2>2. dst[AreaOf(h)][cur[h]].is = "dir"
    BY <2>1 DEF There
  <2>3. dst'[AreaOf(h)][cur[h]].is = "dir"
    BY <1>1, <2>2, KindStays
  <2> QED
    BY <1>1, <1>3, <2>3, PlacesStay DEF Covered, Made
<1>6. CASE Mkdir(h)
  <2>1. WritesAs(h)
    BY StepWrites
  <2>2. NewThere(h).is = "dir"
    BY <1>1, <1>6, <2>1, TransferAssumption DEF WritesAs, OpensIt, ChmodsIt, CopiesIt
  <2> QED
    BY <1>1, <1>3, <2>2, PlacesStay DEF Covered, Made, NewThere
<1> QED
  BY <1>2, <1>3, <1>4, <1>5, <1>6

\* What is below the node the copy has come to is still covered.
LEMMA NodeCovered ==
  ASSUME TypeInv, LocalInv, SameAlias, NEW h \in Host, CopyStep(h), ~err'[h],
         pc[h] \in {"start", "readdir", "open", "stat", "create"}, NEW n \in Below[cur[h]]
  PROVE  Covered(h, n)'
<1>1. /\ pc \in [Host -> Calls] /\ err \in [Host -> BOOLEAN] /\ LocalOK(h)
      /\ cur \in [Host -> Node] /\ stack \in [Host -> Seq(Frame)]
  BY DEF TypeInv, TypeOK, Calls, LocalInv, Frame
<1>2. \/ Start(h) \/ ReadDir(h) \/ OpenSource(h) \/ StatDest(h) \/ StatDestFails(h)
      \/ OpenDest(h)
  <2>1. ~Abort(h)
    BY <1>1 DEF Abort
  <2> QED
    BY <2>1 DEF CopyStep, CopyDirStep, CopyFileStep, DirIsThere, Mkdir, ChmodDir, MkdirFails,
     Recheck, CallFails, TakeEntry, CopyDirReturns,
     ChmodFile, ChmodFileFails, CopyChunk, WriteFails, CopyEnds, Close
<1>3. cur' = cur /\ cur[h] \in Node
  BY <1>1, <1>2 DEF Start, ReadDir, OpenSource, StatDest, StatDestFails, OpenDest
<1>4. CASE Start(h) \/ OpenSource(h) \/ StatDest(h) \/ StatDestFails(h)
  <2>1. pc'[h] \in {"readdir", "open", "stat", "create"}
    <3>1. ~Abort(h)
      BY <1>1 DEF Abort
    <3> QED
      BY <1>1, <1>4, <3>1 DEF Start, OpenSource, StatDest, StatDestFails, Goto
  <2>2. ToCome(h, cur[h])'
    BY <1>3, <2>1 DEF ToCome
  <2> QED
    BY <1>3, <2>2 DEF Covered
<1>5. CASE ReadDir(h)
  <2>1. pc'[h] = "mkdir"
    BY <1>1, <1>5 DEF ReadDir, Goto
  <2>2. CASE n = cur[h]
    BY <1>3, <2>1, <2>2 DEF Covered
  <2>3. ASSUME NEW c \in Children(cur[h]), n \in Below[c] PROVE Covered(h, n)'
    <3>1. c \in Node
      BY DEF Children
    <3>2. PICK s \in Seq(Frame) : s = stack[h]
      BY <1>1
    <3>3. [dir |-> cur[h], todo |-> Children(cur[h])] \in Frame
      BY <1>5 DEF Frame, ReadDir, Children
    <3>4. PICK r \in Frame : r.todo = Children(cur[h]) /\ stack'[h] = Append(s, r)
      BY <1>1, <1>5, <3>2, <3>3 DEF ReadDir
    <3>5. Len(stack'[h]) = Len(s) + 1 /\ stack'[h][Len(s) + 1] = r /\ Len(s) \in Nat
      BY <3>4, AppendProperties
    <3>6. Len(s) + 1 \in 1..Len(stack'[h])
      BY <3>5
    <3>7. ToCome(h, c)'
      BY <2>3, <3>4, <3>5, <3>6 DEF ToCome
    <3> QED
      BY <2>3, <3>1, <3>7 DEF Covered
  <2> QED
    BY <1>3, <2>2, <2>3, BelowChildren
<1>6. CASE OpenDest(h)
  <2>1. WritesAs(h) /\ cur[h] \in File
    BY <1>1, <1>6, StepWrites DEF OpenDest, LocalOK
  <2>2. OpensIt(h)
    BY <1>6, <2>1 DEF WritesAs, ChmodsIt, CopiesIt, OpenDest, ChmodFile, CopyChunk
  <2>3. n = cur[h]
    BY <2>1, BelowFile
  <2>4. n \in File /\ n \notin Dir
    BY <2>1, <2>3, TransferAssumption
  <2>5. Written(h, n)'
    BY <2>2, <2>3, <2>4, OpenedWritten
  <2> QED
    BY <2>4, <2>5 DEF Covered, Made
<1> QED
  BY <1>2, <1>4, <1>5, <1>6

\* Nothing that was asked for is forgotten.
LEMMA StepCovers ==
  ASSUME TypeInv, LocalInv, CoverInv, SameAlias, NEW h \in Host, CopyStep(h)
  PROVE  CoverInv'
<1>1. src' = src /\ OthersStay(h) /\ err \in [Host -> BOOLEAN] /\ LocalOK(h)
  BY InputsStay, OthersUntouched DEF inputs, TypeInv, TypeOK, LocalInv
<1>2. src \in Node /\ Below[src] \subseteq Node
  BY DEF TypeInv, Below
<1>3. err[h] => err'[h]
  <2>1. \/ UNCHANGED err \/ err' = [err EXCEPT ![h] = TRUE]
    BY DEF CopyStep, CopyDirStep, CopyFileStep, Start, CallFails, ReadDir, DirIsThere, Mkdir,
       ChmodDir, MkdirFails, Recheck, TakeEntry, CopyDirReturns, OpenSource, StatDest,
       StatDestFails, OpenDest, ChmodFile, ChmodFileFails, CopyChunk, WriteFails,
       CopyEnds, Close, Abort
  <2> QED
    BY <1>1, <2>1
<1> SUFFICES ASSUME NEW k \in Host, ~err'[k], NEW n \in Below[src] PROVE Covered(k, n)'
  BY <1>1 DEF CoverInv
<1>4. n \in Node /\ Covered(k, n)
  BY <1>1, <1>2, <1>3 DEF CoverInv, OthersStay
<1>5. CASE Made(k, n)
  BY <1>4, <1>5, MadeStays DEF Covered
<1>6. CASE k # h
  <2>1. pc'[k] = pc[k] /\ stack'[k] = stack[k] /\ cur'[k] = cur[k]
    BY <1>1, <1>6 DEF OthersStay
  <2>2. \A p \in Node : ToCome(k, p) => ToCome(k, p)'
    BY <2>1 DEF ToCome
  <2> QED
    BY <1>4, <1>5, <2>1, <2>2 DEF Covered
<1>7. CASE k = h
  <2>1. CASE pc[h] \in {"mkdir", "chmoddir", "recheck"} /\ cur[h] = n
    <3>1. Covered(h, cur[h])' /\ cur' = cur
      BY <1>7, <2>1, DirCovered
    <3> QED
      BY <1>7, <2>1, <3>1
  <2>2. ASSUME NEW p \in Node, ToCome(h, p), n \in Below[p] PROVE Covered(h, n)'
    <3>1. CASE pc[h] \in {"start", "readdir", "open", "stat", "create"} /\ p = cur[h]
      BY <1>7, <2>2, <3>1, NodeCovered
    <3>2. ASSUME NEW i \in 1..Len(stack[h]), p \in stack[h][i].todo PROVE Covered(h, n)'
      <4>1. ToCome(h, p)'
        BY <1>7, <3>2, EntriesStay
      <4> QED
        BY <2>2, <4>1 DEF Covered
    <3> QED
      BY <2>2, <3>1, <3>2 DEF ToCome
  <2> QED
    BY <1>4, <1>5, <1>7, <2>1, <2>2 DEF Covered
<1> QED
  BY <1>6, <1>7

\* A file that was there keeps its permissions; one that was not has those of
\* Perm as soon as nobody is still to set them.
ModeOK(h, n) ==
  /\ before[n] = "file" => dst[AreaOf(h)][n].mode = OldMode
  /\ \/ before[n] = "file"
     \/ dst[AreaOf(h)][n].is # "file"
     \/ dst[AreaOf(h)][n].mode = Granted(GetFilePerm(perm))
     \/ \E k \in Together(h) :
          n \in unseen[k] \/ (cur[k] = n /\ (pc[k] = "chmod" \/ err[k]))

ModeInv == \A h \in Host, n \in File : ModeOK(h, n)

\* Who has the permissions of n still to set keeps it, unless this step sets them.
LEMMA SettingStays ==
  ASSUME TypeInv, LocalInv, NEW h \in Host, CopyStep(h), NEW k \in Host, NEW n \in File,
         n \in unseen[k] \/ (cur[k] = n /\ (pc[k] = "chmod" \/ err[k])),
         ~(ChmodFile(h) /\ k = h)
  PROVE  n \in unseen'[k] \/ (cur'[k] = n /\ (pc'[k] = "chmod" \/ err'[k]))
<1>1. CASE k # h
  BY <1>1, OthersUntouched DEF OthersStay
<1>2. CASE k = h
  <2>1. /\ pc \in [Host -> Calls] /\ cur \in [Host -> Node] /\ err \in [Host -> BOOLEAN]
        /\ unseen \in [Host -> SUBSET File] /\ LocalOK(h)
    BY DEF TypeInv, TypeOK, Calls, LocalInv
  <2>2. CASE n \in unseen[h]
    <3>1. unseen' = unseen \/ unseen' = [unseen EXCEPT ![h] = @ \cup {cur[h]}]
      BY DEF CopyStep, CopyDirStep, CopyFileStep, Start, CallFails, ReadDir, DirIsThere, Mkdir,
         ChmodDir, MkdirFails, Recheck, TakeEntry, CopyDirReturns, OpenSource, StatDest,
         StatDestFails, OpenDest, ChmodFile, ChmodFileFails, CopyChunk, WriteFails,
         CopyEnds, Close
    <3> QED
      BY <1>2, <2>1, <2>2, <3>1
  <2>3. CASE cur[h] = n /\ (pc[h] = "chmod" \/ err[h])
    <3>1. ChmodFileFails(h) \/ Close(h)
      <4>1. pc[h] \in {"chmod", "close", "done"}
        BY <2>1, <2>3 DEF LocalOK
      <4>2. ~ChmodFile(h)
        BY <1>2
      <4> QED
        BY <4>1, <4>2 DEF CopyStep, CopyDirStep, CopyFileStep, Start, CallFails, ReadDir,
           DirIsThere, Mkdir, ChmodDir, MkdirFails, Recheck, TakeEntry, CopyDirReturns,
           OpenSource, StatDest, StatDestFails, OpenDest, CopyChunk, WriteFails, CopyEnds
    <3>2. CASE ChmodFileFails(h)
      BY <1>2, <2>1, <2>3, <3>2 DEF ChmodFileFails, Abort
    <3>3. CASE Close(h)
      <4>1. err[h]
        BY <2>3, <3>3 DEF Close
      <4> QED
        BY <1>2, <2>1, <2>3, <3>3, <4>1 DEF Close
    <3> QED
      BY <3>1, <3>2, <3>3
  <2> QED
    BY <1>2, <2>2, <2>3
<1> QED
  BY <1>1, <1>2

LEMMA StepModes ==
  ASSUME TypeInv, LocalInv, FileInv, ModeInv, SameAlias, NEW h \in Host, CopyStep(h)
  PROVE  ModeInv'
<1> SUFFICES ASSUME NEW g \in Host, NEW n \in File PROVE ModeOK(g, n)'
  BY DEF ModeInv
<1>11. WritesAs(h) /\ UNCHANGED inputs /\ AreaOf(g)' = AreaOf(g) /\ Together(g)' = Together(g)
  BY StepWrites, InputsStay, PlacesStay
<1>12. /\ AreaOf(g) \in Area /\ AreaOf(h) \in Area /\ n \in Node /\ n \notin Dir
      /\ (AreaOf(g) = AreaOf(h) => h \in Together(g))
  BY AreasKnown, TransferAssumption DEF Node, Together
<1>13. /\ ModeOK(g, n) /\ LocalOK(h) /\ unseen \in [Host -> SUBSET File]
      /\ cur \in [Host -> Node] /\ pc \in [Host -> Calls]
  BY DEF ModeInv, LocalInv, TypeInv, TypeOK, Calls
<1>1. /\ WritesAs(h) /\ AreaOf(g) \in Area /\ AreaOf(h) \in Area /\ n \in Node /\ n \notin Dir
      /\ ModeOK(g, n) /\ LocalOK(h) /\ UNCHANGED inputs
      /\ AreaOf(g)' = AreaOf(g) /\ Together(g)' = Together(g)
      /\ (AreaOf(g) = AreaOf(h) => h \in Together(g))
      /\ unseen \in [Host -> SUBSET File] /\ cur \in [Host -> Node] /\ pc \in [Host -> Calls]
  BY <1>11, <1>12, <1>13
<1>2. CASE ChmodsIt(h) /\ AreaOf(g) = AreaOf(h) /\ cur[h] = n
  <2>1. before[n] # "file" /\ op = "upload"
    BY <1>1, <1>2 DEF ChmodsIt, ChmodFile, LocalOK
  <2>2. dst'[AreaOf(g)'][n].mode = Granted(GetFilePerm(perm))
    BY <1>1, <1>2, <2>1 DEF ChmodsIt, NewThere, Granted
  <2> QED
    BY <1>1, <2>1, <2>2 DEF ModeOK, inputs, Granted
<1>3. CASE OpensIt(h) /\ AreaOf(g) = AreaOf(h) /\ cur[h] = n
  <2>1. /\ There(h) = dst[AreaOf(g)][n] /\ NewThere(h) = dst'[AreaOf(g)'][n]
        /\ cur' = cur /\ unseen' = unseen /\ pc'[h] = (IF create[h] THEN "chmod" ELSE "copy")
    BY <1>1, <1>3 DEF There, NewThere, OpensIt, OpenDest, Goto
  <2>2. CASE There(h).is = "file"
    <3>1. dst'[AreaOf(g)'][n].mode = dst[AreaOf(g)][n].mode
      BY <1>3, <2>1, <2>2 DEF OpensIt
    <3>2. ASSUME NEW k \in Together(g),
                 n \in unseen[k] \/ (cur[k] = n /\ (pc[k] = "chmod" \/ err[k]))
          PROVE  n \in unseen'[k] \/ (cur'[k] = n /\ (pc'[k] = "chmod" \/ err'[k]))
      <4>1. ~ChmodFile(h)
        BY <1>3 DEF OpensIt, OpenDest, ChmodFile
      <4> QED
        BY <3>2, <4>1, SettingStays DEF Together
    <3> QED
      BY <1>1, <2>1, <2>2, <3>1, <3>2 DEF ModeOK, inputs, Granted
  <2>3. CASE There(h).is # "file"
    <3>1. before[n] # "file"
      BY <2>1, <2>3 DEF FileInv, Untouched, Written
    <3>2. CASE op = "upload"
      <4>1. create[h] \/ n \in unseen[h]
        BY <1>1, <1>3, <2>3, <3>2 DEF LocalOK, OpensIt, OpenDest
      <4>2. n \in unseen'[h] \/ (cur'[h] = n /\ pc'[h] = "chmod")
        BY <1>3, <2>1, <4>1
      <4> QED
        BY <1>1, <1>3, <3>1, <4>2 DEF ModeOK, inputs
    <3>3. CASE op # "upload"
      <4>1. dst'[AreaOf(g)'][n].mode = Granted(GetFilePerm(perm))
        BY <1>3, <2>1, <2>3, <3>3 DEF OpensIt, NewMode, Granted
      <4> QED
        BY <1>1, <3>1, <4>1 DEF ModeOK, inputs, Granted
    <3> QED
      BY <3>2, <3>3
  <2> QED
    BY <2>2, <2>3
<1>4. CASE /\ ~(ChmodsIt(h) /\ AreaOf(g) = AreaOf(h) /\ cur[h] = n)
           /\ ~(OpensIt(h) /\ AreaOf(g) = AreaOf(h) /\ cur[h] = n)
  <2>1. /\ dst'[AreaOf(g)][n].is = dst[AreaOf(g)][n].is
        /\ dst'[AreaOf(g)][n].mode = dst[AreaOf(g)][n].mode
    <3>1. CASE AreaOf(g) # AreaOf(h) \/ cur[h] # n
      BY <1>1, <3>1 DEF WritesAs
    <3>2. CASE AreaOf(g) = AreaOf(h) /\ cur[h] = n
      BY <1>1, <1>4, <3>2 DEF WritesAs, CopiesIt, NewThere, There
    <3> QED
      BY <3>1, <3>2
  <2>2. ASSUME NEW k \in Together(g),
               n \in unseen[k] \/ (cur[k] = n /\ (pc[k] = "chmod" \/ err[k]))
        PROVE  n \in unseen'[k] \/ (cur'[k] = n /\ (pc'[k] = "chmod" \/ err'[k]))
    <3>1. CASE ~(ChmodFile(h) /\ k = h)
      BY <2>2, <3>1, SettingStays DEF Together
    <3>2. CASE ChmodFile(h) /\ k = h
      <4>1. unseen' = unseen /\ pc[h] = "chmod" /\ cur[h] \in File
        BY <1>1, <3>2 DEF ChmodFile, LocalOK
      <4>2. ChmodsIt(h)
        BY <1>1, <3>2, <4>1, TransferAssumption
           DEF WritesAs, OpensIt, CopiesIt, OpenDest, ChmodFile, CopyChunk
      <4>3. cur[h] # n
        BY <1>4, <2>2, <3>2, <4>2 DEF Together
      <4> QED
        BY <2>2, <3>2, <4>1, <4>3
    <3> QED
      BY <3>1, <3>2
  <2> QED
    BY <1>1, <2>1, <2>2 DEF ModeOK, inputs, Granted
<1> QED
  BY <1>2, <1>3, <1>4

CopyInv == SameAlias /\ TypeInv /\ LocalInv /\ FileInv /\ CoverInv /\ ModeInv

LEMMA StartsWell == Init => CopyInv
<1> SUFFICES ASSUME Init PROVE CopyInv
  OBVIOUS
<1>1. /\ alias \in [Host -> Alias] /\ op \in Ops /\ src \in Node
      /\ before \in [Node -> {"none", "file", "dir"}] /\ SameAlias
  BY TransferAssumption DEF Init, SameAlias
<1>2. \A a \in Area, n \in Node : dst[a][n] = Entry(before[n])
  BY DEF Init
<1>3. \A b \in {"none", "file", "dir"} : Entry(b) \in EntryType
  <2> SUFFICES ASSUME NEW b \in {"none", "file", "dir"} PROVE Entry(b) \in EntryType
    OBVIOUS
  <2>1. PICK d \in [1..MaxLen -> Area \cup {"hole", "old"}] :
          d = IF b = "file" THEN [i \in 1..MaxLen |-> "old"] ELSE Hole
    <3>1. /\ Hole \in [1..MaxLen -> Area \cup {"hole", "old"}]
          /\ [i \in 1..MaxLen |-> "old"] \in [1..MaxLen -> Area \cup {"hole", "old"}]
      BY DEF Hole
    <3> QED
      BY <3>1
  <2>2. Entry(b) = [is |-> b, mode |-> OldMode, data |-> d]
    BY <2>1 DEF Entry
  <2> QED
    BY <2>2 DEF EntryType, Modes
<1>4. dst \in [Area -> [Node -> EntryType]]
  BY <1>1, <1>3 DEF Init
<1>5. TypeInv
  <2>1. \A a \in Area, n \in Node :
          /\ dst[a][n].is \in {"none", "file", "dir"}
          /\ dst[a][n].data \in [1..MaxLen -> Area \cup {"hole", "old"}]
    BY <1>4 DEF EntryType
  <2>2. stack \in [Host -> Seq([dir : Dir, todo : SUBSET Node])]
    BY DEF Init
  <2> QED
    BY <1>1, <1>4, <2>1, <2>2 DEF Init, TypeInv, TypeOK
<1>6. LocalInv
  BY DEF Init, LocalInv, LocalOK
<1>7. \A h \in Host, n \in Node :
        dst[AreaOf(h)][n].is = before[n] /\ dst[AreaOf(h)][n].data = Entry(before[n]).data
          /\ dst[AreaOf(h)][n].mode = OldMode
  <2> SUFFICES ASSUME NEW h \in Host, NEW n \in Node
               PROVE  /\ dst[AreaOf(h)][n].is = before[n] /\ dst[AreaOf(h)][n].mode = OldMode
                      /\ dst[AreaOf(h)][n].data = Entry(before[n]).data
    OBVIOUS
  <2>1. dst[AreaOf(h)][n] = Entry(before[n])
    BY <1>2, <1>5, AreasKnown
  <2>2. Entry(before[n]).is = before[n] /\ Entry(before[n]).mode = OldMode
    BY DEF Entry
  <2> QED
    BY <2>1, <2>2
<1>8. FileInv
  BY <1>7 DEF FileInv, Untouched, Node
<1>9. CoverInv
  <2>1. \A h \in Host : cur[h] = src /\ pc[h] = "start"
    BY DEF Init
  <2> QED
    BY <1>1, <2>1 DEF CoverInv, Covered, ToCome
<1>10. ModeInv
  BY <1>7 DEF ModeInv, ModeOK, Node
<1> QED
  BY <1>1, <1>5, <1>6, <1>8, <1>9, <1>10 DEF CopyInv

LEMMA StepsKeep == CopyInv /\ [Next]_vars => CopyInv'
<1> SUFFICES ASSUME CopyInv, [Next]_vars PROVE CopyInv'
  OBVIOUS
<1>1. ASSUME NEW h \in Host, CopyStep(h) PROVE CopyInv'
  <2>1. SameAlias'
    BY <1>1, InputsStay DEF CopyInv, SameAlias, inputs
  <2>2. LocalInv'
    BY <1>1, LocalStays, LocalMoves DEF CopyInv, LocalInv
  <2> QED
    BY <1>1, <2>1, <2>2, StepTyped, StepFiles, StepCovers, StepModes DEF CopyInv
<1>2. CASE UNCHANGED vars
  <2>1. TypeInv'
    BY <1>2 DEF CopyInv, vars, inputs, TypeInv, TypeOK, EntryType, Modes, NewMode
  <2>2. \A h \in Host : /\ AreaOf(h)' = AreaOf(h) /\ SourceOf(h)' = SourceOf(h)
                       /\ Together(h)' = Together(h)
    BY <1>2 DEF vars, inputs, AreaOf, SourceOf, Together
  <2>3. \A h \in Host, n \in Node : Written(h, n)' = Written(h, n)
    BY <1>2, <2>2 DEF vars, Written, Writing
  <2>4. LocalInv'
    BY <1>2, <2>2, <2>3 DEF CopyInv, vars, inputs, LocalInv, LocalOK, There, Node
  <2>5. FileInv'
    <3>1. \A h \in Host, n \in Node : Untouched(h, n)' = Untouched(h, n)
      BY <1>2, <2>2 DEF vars, inputs, Untouched, Entry, Hole
    <3> QED
      BY <2>3, <3>1 DEF CopyInv, FileInv, Node
  <2>6. CoverInv'
    <3>1. \A h \in Host, n \in Node : ToCome(h, n)' = ToCome(h, n) /\ Made(h, n)' = Made(h, n)
      BY <1>2, <2>2, <2>3 DEF vars, ToCome, Made
    <3>2. \A h \in Host, n \in Node : Covered(h, n) => Covered(h, n)'
      BY <1>2, <3>1 DEF vars, Covered
    <3>3. Below[src] \subseteq Node
      BY DEF CopyInv, TypeInv, Below
    <3> QED
      BY <1>2, <3>2, <3>3 DEF CopyInv, vars, inputs, CoverInv
  <2>7. ModeInv' /\ SameAlias'
    <3>1. ModeInv'
      <4> SUFFICES ASSUME NEW h \in Host, NEW n \in File PROVE ModeOK(h, n)'
        BY DEF ModeInv
      <4>1. ModeOK(h, n)
        BY DEF CopyInv, ModeInv
      <4> QED
        BY <1>2, <2>2, <4>1 DEF vars, inputs, ModeOK, Granted
    <3> QED
      BY <1>2, <3>1 DEF CopyInv, vars, inputs, SameAlias
  <2> QED
    BY <2>1, <2>4, <2>5, <2>6, <2>7 DEF CopyInv
<1> QED
  BY <1>1, <1>2 DEF Next, CopyStep

\* The strengthened invariant holds throughout.
LEMMA CopyInvAlways == Spec => []CopyInv
BY StartsWell, StepsKeep, PTL DEF Spec

\* The types of what the copies keep: however the calls fail, the stack of open
\* directories holds directories of the tree and a file has one owner per chunk.
THEOREM CopyTyped == Spec => []TypeOK
<1>1. CopyInv => TypeOK
  BY DEF CopyInv, TypeInv
<1> QED
  BY <1>1, CopyInvAlways, PTL

\* A file nobody is still to write holds what the source holds.
\* A file that was opened and that nobody still writes is complete.
LEMMA WrittenComplete ==
  ASSUME TypeInv, NEW h \in Host, NEW n \in File, Written(h, n),
         \A k \in Together(h), j \in 1..MaxLen : ~Writing(k, n, j)
  PROVE  Complete(AreaOf(h), n, SourceOf(h))
<1>1. /\ dst[AreaOf(h)][n].data \in [1..MaxLen -> Area \cup {"hole", "old"}]
  BY AreasKnown DEF TypeInv, TypeOK, Node
<1>2. \A j \in 1..MaxLen :
        dst[AreaOf(h)][n].data[j] = IF j <= Chunks[n] THEN SourceOf(h) ELSE "hole"
  BY DEF Written
<1> QED
  BY <1>1, <1>2 DEF Complete

\* Upload, Download and DownloadDir: when every copy of an alias has returned nil,
\* each file below the source is there, complete and from that source alone; no
\* chunk is missing and none is left of an older file.
THEOREM CopyComplete == Spec => []SuccessIsComplete
<1>1. ASSUME CopyInv PROVE SuccessIsComplete
  <2> SUFFICES ASSUME NEW h \in Host, AllSucceeded(h), NEW n \in Below[src]
               PROVE IF n \in Dir THEN dst[AreaOf(h)][n].is = "dir"
                     ELSE dst[AreaOf(h)][n].is = "file" /\ Complete(AreaOf(h), n, SourceOf(h))
    BY DEF SuccessIsComplete
  <2>1. h \in Together(h) /\ pc[h] = "done" /\ ~err[h] /\ stack[h] = <<>>
    BY <1>1 DEF Together, AllSucceeded, Done, CopyInv, LocalInv, LocalOK
  <2>2. \A p \in Node : ~ToCome(h, p)
    BY <2>1 DEF ToCome
  <2>3. Made(h, n) /\ n \in Node
    BY <1>1, <2>1, <2>2 DEF CopyInv, CoverInv, Covered, Below, TypeInv
  <2>4. \A k \in Together(h), j \in 1..MaxLen : ~Writing(k, n, j)
    BY DEF AllSucceeded, Done, Writing
  <2> QED
    BY <1>1, <2>3, <2>4, WrittenComplete DEF Made, Written, CopyInv, Node
<1> QED
  BY <1>1, CopyInvAlways, PTL

\* A copy that fails leaves at most the file it was copying incomplete: copyAction
\* works on one file at a time and finishes it before it opens the next.
THEOREM OneFileAtRiskAlways == Spec => []OneFileAtRisk
<1>1. ASSUME CopyInv PROVE OneFileAtRisk
  <2> SUFFICES ASSUME NEW h \in Host, NEW n \in File, ~Untouched(h, n),
                      ~\E k \in Together(h) : cur[k] = n
               PROVE Complete(AreaOf(h), n, SourceOf(h))
    BY DEF OneFileAtRisk, Untouched
  <2>1. \A k \in Together(h), j \in 1..MaxLen : ~Writing(k, n, j)
    BY DEF Writing
  <2> QED
    BY <1>1, <2>1, WrittenComplete DEF CopyInv, FileInv
<1> QED
  BY <1>1, CopyInvAlways, PTL

\* sftpFS.OpenFile: a file that was created by an upload whose OpenFile could see
\* that it was missing ends with the permissions that were asked for, one that was
\* created by a download with these less the umask, or the copy reports an error.
THEOREM FilePermsAlways == Spec => []FilePermsAsAsked
<1>1. ASSUME CopyInv PROVE FilePermsAsAsked
  <2> SUFFICES ASSUME NEW h \in Host, AllSucceeded(h),
                      NEW n \in (File \cap Below[src]) \ UNION {unseen[g] : g \in Together(h)}
               PROVE dst[AreaOf(h)][n].mode
                       = IF before[n] = "file" THEN OldMode ELSE Granted(GetFilePerm(perm))
    BY DEF FilePermsAsAsked
  <2>1. h \in Together(h) /\ pc[h] = "done" /\ ~err[h] /\ stack[h] = <<>>
    BY <1>1 DEF Together, AllSucceeded, Done, CopyInv, LocalInv, LocalOK
  <2>2. \A p \in Node : ~ToCome(h, p)
    BY <2>1 DEF ToCome
  <2>3. Made(h, n) /\ n \in File /\ n \notin Dir
    BY <1>1, <2>1, <2>2, TransferAssumption DEF CopyInv, CoverInv, Covered, Below, TypeInv
  <2>4. dst[AreaOf(h)][n].is = "file"
    BY <2>3 DEF Made, Written
  <2>5. \A k \in Together(h) : n \notin unseen[k] /\ pc[k] # "chmod" /\ ~err[k]
    BY DEF AllSucceeded, Done
  <2> QED
    BY <1>1, <2>3, <2>4, <2>5 DEF CopyInv, ModeInv, ModeOK
<1> QED
  BY <1>1, CopyInvAlways, PTL

-----------------------------------------------------------------------------
(* What DownloadDir reports to Progress. *)

\* What is below a node is closed under children and under what is below it.
LEMMA BelowClosed ==
  ASSUME NEW d \in Node, NEW m \in Below[d], NEW x \in Children(m)
  PROVE  x \in Below[d]
<1>1. x \in Node /\ m \in Node
  BY DEF Children, Below
<1>2. \A S \in SUBSET Node : d \in S /\ (\A y \in S : Children(y) \subseteq S) => m \in S
  BY DEF Below
<1>3. \A S \in SUBSET Node : d \in S /\ (\A y \in S : Children(y) \subseteq S) => x \in S
  BY <1>2
<1> QED
  BY <1>1, <1>3 DEF Below

LEMMA BelowBelow ==
  ASSUME NEW d \in Node, NEW m \in Below[d], NEW x \in Below[m]
  PROVE  x \in Below[d]
<1>1. Below[d] \in SUBSET Node /\ m \in Node
  BY DEF Below
<1>2. \A y \in Below[d] : Children(y) \subseteq Below[d]
  BY BelowClosed
<1>3. \A S \in SUBSET Node : m \in S /\ (\A y \in S : Children(y) \subseteq S) => x \in S
  BY <1>1 DEF Below
<1> QED
  BY <1>1, <1>2, <1>3

\* What is below a node and is not that node has its parent below it too.
LEMMA BelowParent ==
  ASSUME NEW d \in Node, NEW x \in Below[d], x # d
  PROVE  Parent[x] \in Below[d]
<1> DEFINE S == {m \in Below[d] : m = d \/ Parent[m] \in Below[d]}
<1>1. S \in SUBSET Node
  BY DEF Below
<1>2. d \in S
  BY BelowSelf
<1>3. \A m \in S : Children(m) \subseteq S
  <2> SUFFICES ASSUME NEW m \in S, NEW y \in Children(m) PROVE y \in S
    OBVIOUS
  <2>1. Parent[y] = m /\ m \in Below[d]
    BY DEF Children
  <2>2. y \in Below[d]
    BY <2>1, BelowClosed
  <2> QED
    BY <2>1, <2>2
<1>4. x \in S
  <2> HIDE DEF S
  <2> QED
    BY <1>1, <1>2, <1>3 DEF Below
<1> QED
  BY <1>4

\* Two entries of one directory have nothing below them in common.
LEMMA SiblingsApart ==
  ASSUME NEW d \in Node, NEW c \in Children(d), NEW e \in Children(d), c # e,
         NEW x \in Below[c]
  PROVE  x \notin Below[e]
<1> DEFINE S == Below[c] \ Below[e]
<1>1. c \in Node /\ e \in Node /\ Parent[c] = d /\ Parent[e] = d
  BY DEF Children
<1>2. d \notin Below[c] /\ d \notin Below[e]
  BY <1>1, TreeAssumption
<1>3. c \in S
  BY <1>1, <1>2, BelowSelf, BelowParent
<1>4. \A m \in S : Children(m) \subseteq S
  <2> SUFFICES ASSUME NEW m \in S, NEW y \in Children(m) PROVE y \in S
    OBVIOUS
  <2>1. y \in Below[c] /\ Parent[y] = m
    BY <1>1, BelowClosed DEF Children
  <2>2. y \notin Below[e]
    BY <1>1, <1>2, <2>1, BelowParent
  <2> QED
    BY <2>1, <2>2
<1>5. S \in SUBSET Node
  BY <1>1 DEF Below
<1>6. x \in S
  <2> HIDE DEF S
  <2> QED
    BY <1>1, <1>3, <1>4, <1>5 DEF Below
<1> QED
  BY <1>6

\* The chunks of the files of S.
Units(S) == UNION {{n} \X (1..Chunks[n]) : n \in File \cap S}

LEMMA UnitsAre ==
  ASSUME NEW S, NEW u
  PROVE  u \in Units(S) <=> \E n \in File \cap S : \E j \in 1..Chunks[n] : u = <<n, j>>
BY DEF Units

LEMMA UnitsFinite ==
  ASSUME NEW S
  PROVE  IsFiniteSet(Units(S)) /\ Cardinality(Units(S)) \in Nat
<1>1. IsFiniteSet(Node \X (1..MaxLen))
  <2>1. IsFiniteSet(Node) /\ MaxLen \in Int
    BY TransferAssumption, TreeAssumption
  <2>2. IsFiniteSet(1..MaxLen)
    BY <2>1, FS_Interval
  <2> QED
    BY <2>1, <2>2, FS_Product
<1>2. Units(S) \in SUBSET (Node \X (1..MaxLen))
  <2> SUFFICES ASSUME NEW n \in File \cap S, NEW j \in 1..Chunks[n]
               PROVE  <<n, j>> \in Node \X (1..MaxLen)
    BY UnitsAre
  <2>1. Chunks[n] \in 0..MaxLen /\ MaxLen \in Nat
    BY TransferAssumption
  <2> QED
    BY <2>1 DEF Node
<1> QED
  BY <1>1, <1>2, FS_Subset, FS_CardinalityType

\* What the copyDir calls of a stack are still to come to.
Pending(s) == {x \in Node : \E p \in 1..Len(s) : \E c \in s[p].todo : x \in Below[c]}

\* No two entries they are still to come to have anything below them in common.
ApartStack(s) ==
  \A p, q \in 1..Len(s) : \A c \in s[p].todo, e \in s[q].todo :
    \A x \in Node : x \in Below[c] /\ x \in Below[e] => p = q /\ c = e

Coming == {"start", "readdir", "open", "stat", "create"}

Apart(h) ==
  /\ ApartStack(stack[h])
  /\ pc[h] \in Coming \cup {"chmod", "copy"} =>
       \A x \in Below[cur[h]] : x \notin Pending(stack[h])

ApartInv == \A h \in Host : Apart(h)

LEMMA PendingAppend ==
  ASSUME NEW s \in Seq(Frame), NEW r \in Frame, NEW x \in Node
  PROVE  x \in Pending(Append(s, r)) <=> x \in Pending(s) \/ \E c \in r.todo : x \in Below[c]
<1>1. PICK l \in Nat : l = Len(s)
  OBVIOUS
<1>2. PICK t : t = Append(s, r)
  OBVIOUS
<1>3. Len(t) = l + 1 /\ t[l + 1] = r /\ \A i \in 1..l : t[i] = s[i]
  BY <1>1, <1>2, AppendProperties
<1>4. \A i \in 1..l + 1 : i = l + 1 \/ i \in 1..l
  OBVIOUS
<1>5. l + 1 \in 1..l + 1 /\ \A i \in 1..l : i \in 1..l + 1
  OBVIOUS
<1>6. x \in Pending(t) <=> x \in Pending(s) \/ \E c \in r.todo : x \in Below[c]
  BY <1>1, <1>3, <1>4, <1>5 DEF Pending
<1> QED
  BY <1>2, <1>6

\* A stack on which a directory is put whose entries are apart from the others.
LEMMA ApartAppend ==
  ASSUME NEW s \in Seq(Frame), NEW r \in Frame, ApartStack(s), NEW d \in Node,
         r.todo = Children(d), \A x \in Below[d] : x \notin Pending(s)
  PROVE  ApartStack(Append(s, r))
<1>1. PICK l \in Nat : l = Len(s)
  OBVIOUS
<1>2. PICK t : t = Append(s, r)
  OBVIOUS
<1>3. Len(t) = l + 1 /\ t[l + 1] = r /\ \A i \in 1..l : t[i] = s[i]
  BY <1>1, <1>2, AppendProperties
<1>4. ASSUME NEW c \in Children(d), NEW x \in Below[c]
      PROVE  x \in Below[d] /\ x \notin Pending(s)
  <2>1. c \in Below[d]
    BY BelowSelf, BelowClosed
  <2> QED
    BY <2>1, BelowBelow
<1>5. ASSUME NEW p \in 1..l + 1, NEW q \in 1..l + 1, NEW c \in t[p].todo, NEW e \in t[q].todo,
             NEW x \in Node, x \in Below[c], x \in Below[e]
      PROVE  p = q /\ c = e
  <2>1. CASE p \in 1..l /\ q \in 1..l
    BY <1>1, <1>3, <1>5, <2>1 DEF ApartStack
  <2>2. CASE p = l + 1 /\ q = l + 1
    BY <1>3, <1>5, <2>2, SiblingsApart
  <2>3. CASE p = l + 1 /\ q \in 1..l
    <3>1. x \in Pending(s)
      BY <1>1, <1>3, <1>5, <2>3 DEF Pending
    <3> QED
      BY <1>3, <1>4, <1>5, <2>3, <3>1
  <2>4. CASE p \in 1..l /\ q = l + 1
    <3>1. x \in Pending(s)
      BY <1>1, <1>3, <1>5, <2>4 DEF Pending
    <3> QED
      BY <1>3, <1>4, <1>5, <2>4, <3>1
  <2>5. (p = l + 1 \/ p \in 1..l) /\ (q = l + 1 \/ q \in 1..l)
    OBVIOUS
  <2> QED
    BY <2>1, <2>2, <2>3, <2>4, <2>5
<1>6. ApartStack(t)
  BY <1>3, <1>5 DEF ApartStack
<1> QED
  BY <1>2, <1>6

\* The stack from whose last call n is taken.
LEMMA TakenApart ==
  ASSUME NEW s \in Seq(Frame), s # <<>>, ApartStack(s), NEW n \in Node,
         n \in s[Len(s)].todo
  PROVE  LET t == [s EXCEPT ![Len(s)].todo = @ \ {n}] IN
         /\ t \in Seq(Frame) /\ ApartStack(t)
         /\ \A x \in Below[n] : x \notin Pending(t)
         /\ \A x \in Node : x \in Pending(s) <=> x \in Pending(t) \/ x \in Below[n]
<1>1. PICK l \in Nat : l = Len(s)
  OBVIOUS
<1>2. l \in 1..l /\ s[l] \in Frame
  BY <1>1
<1>3. PICK r : r = [s[l] EXCEPT !.todo = @ \ {n}]
  OBVIOUS
<1>4. r \in Frame /\ r.todo = s[l].todo \ {n}
  BY <1>2, <1>3 DEF Frame
<1>5. PICK t : t = [s EXCEPT ![l] = r]
  OBVIOUS
<1>6. t \in Seq(Frame) /\ Len(t) = l /\ \A i \in 1..l : t[i] = IF i = l THEN r ELSE s[i]
  BY <1>1, <1>2, <1>4, <1>5
<1>7. /\ \A i \in 1..l : \A c : c \in t[i].todo <=> c \in s[i].todo /\ ~(i = l /\ c = n)
      /\ n \in s[l].todo
  BY <1>1, <1>4, <1>6
<1>8. ApartStack(t)
  BY <1>1, <1>6, <1>7 DEF ApartStack
<1>9. ASSUME NEW x \in Below[n], x \in Pending(t) PROVE FALSE
  <2>1. PICK p \in 1..l : \E c \in t[p].todo : x \in Below[c]
    BY <1>6, <1>9 DEF Pending
  <2>2. PICK c \in t[p].todo : x \in Below[c]
    BY <2>1
  <2>3. x \in Node
    BY DEF Below
  <2> QED
    BY <1>1, <1>2, <1>7, <2>2, <2>3 DEF ApartStack
<1>10. ASSUME NEW x \in Node PROVE x \in Pending(s) <=> x \in Pending(t) \/ x \in Below[n]
  BY <1>1, <1>2, <1>6, <1>7 DEF Pending
<1>11. t = [s EXCEPT ![Len(s)].todo = @ \ {n}]
  BY <1>1, <1>3, <1>5
<1> QED
  BY <1>6, <1>8, <1>9, <1>10, <1>11

\* The stack whose last call, which has nothing to come to, returns.
LEMMA ReturnedApart ==
  ASSUME NEW s \in Seq(Frame), s # <<>>, ApartStack(s), s[Len(s)].todo = {}
  PROVE  LET t == SubSeq(s, 1, Len(s) - 1) IN
         /\ ApartStack(t)
         /\ \A x \in Node : x \in Pending(s) <=> x \in Pending(t)
<1>1. PICK l \in Nat : l = Len(s)
  OBVIOUS
<1>2. PICK t : t = SubSeq(s, 1, Len(s) - 1)
  OBVIOUS
<1>3. l # 0 /\ Len(t) = l - 1 /\ \A i \in 1..l - 1 : t[i] = s[i]
  BY <1>1, <1>2, Popped
<1>4. \A i \in 1..l : i = l \/ i \in 1..l - 1
  OBVIOUS
<1>5. \A i \in 1..l - 1 : i \in 1..l
  OBVIOUS
<1>6. s[l].todo = {}
  BY <1>1
<1>7. ApartStack(t)
  BY <1>1, <1>3, <1>5 DEF ApartStack
<1>8. \A x \in Node : x \in Pending(s) <=> x \in Pending(t)
  BY <1>1, <1>3, <1>4, <1>5, <1>6 DEF Pending
<1> QED
  BY <1>2, <1>7, <1>8

\* The stack of the copy is as it was.
LEMMA SameStackApart ==
  ASSUME TypeInv, NEW h \in Host, Apart(h), stack'[h] = stack[h],
         \/ pc'[h] \notin Coming \cup {"chmod", "copy"}
         \/ cur'[h] = cur[h] /\ pc[h] \in Coming \cup {"chmod", "copy"}
  PROVE  Apart(h)'
BY DEF Apart, ApartStack, Pending

\* A copy puts on its stack the entries of a directory it has taken from it: what
\* it is still to come to stays apart.
LEMMA StepApart ==
  ASSUME TypeInv, LocalInv, ApartInv, NEW h \in Host, CopyStep(h)
  PROVE  ApartInv'
<1>1. /\ pc \in [Host -> Calls] /\ cur \in [Host -> Node] /\ err \in [Host -> BOOLEAN]
      /\ stack \in [Host -> Seq(Frame)] /\ LocalOK(h) /\ OthersStay(h)
  BY OthersUntouched DEF TypeInv, TypeOK, Calls, Frame, LocalInv
<1>2. PICK s \in Seq(Frame) : s = stack[h]
  BY <1>1
<1>3. ApartStack(s) /\ Apart(h)
  BY <1>2 DEF ApartInv, Apart
<1>4. ASSUME NEW k \in Host, k # h PROVE Apart(k)'
  <2>1. Apart(k)
    BY DEF ApartInv
  <2> QED
    BY <1>1, <1>4, <2>1 DEF OthersStay, Apart, ApartStack, Pending
<1>5. ASSUME ReadDir(h) PROVE Apart(h)'
  <2>1. [dir |-> cur[h], todo |-> Children(cur[h])] \in Frame
    BY <1>5 DEF Frame, ReadDir, Children
  <2>2. PICK r \in Frame : r.todo = Children(cur[h]) /\ stack'[h] = Append(s, r)
    BY <1>1, <1>2, <1>5, <2>1 DEF ReadDir
  <2>3. cur[h] \in Node /\ \A x \in Below[cur[h]] : x \notin Pending(s)
    BY <1>1, <1>2, <1>3, <1>5 DEF Apart, Coming, ReadDir
  <2>4. ApartStack(stack'[h])
    BY <1>3, <2>2, <2>3, ApartAppend
  <2>5. pc'[h] = "mkdir"
    BY <1>1, <1>5 DEF ReadDir, Goto
  <2> QED
    BY <2>4, <2>5 DEF Apart, Coming, ApartStack
<1>6. ASSUME NEW n \in Node, TakeEntry(h, n) PROVE Apart(h)'
  <2>1. s # <<>> /\ n \in s[Len(s)].todo
    BY <1>1, <1>2, <1>6 DEF LocalOK, TakeEntry, Top
  <2>2. PICK t : t = [s EXCEPT ![Len(s)].todo = @ \ {n}]
    OBVIOUS
  <2>3. ApartStack(t) /\ \A x \in Below[n] : x \notin Pending(t)
    BY <1>3, <2>1, <2>2, TakenApart
  <2>4. stack'[h] = t /\ cur'[h] = n
    BY <1>1, <1>2, <1>6, <2>2 DEF TakeEntry
  <2> QED
    BY <2>3, <2>4 DEF Apart, ApartStack, Pending
<1>7. ASSUME CopyDirReturns(h) PROVE Apart(h)'
  <2>1. s # <<>> /\ s[Len(s)].todo = {} /\ stack'[h] = SubSeq(s, 1, Len(s) - 1)
    BY <1>1, <1>2, <1>7 DEF LocalOK, CopyDirReturns, Top
  <2>2. ApartStack(stack'[h])
    BY <1>3, <2>1, ReturnedApart
  <2>3. pc'[h] \in {"done", "entries"}
    BY <1>1, <1>7 DEF CopyDirReturns, Goto
  <2> QED
    BY <2>2, <2>3 DEF Apart, Coming, ApartStack
<1>8. ASSUME stack'[h] = <<>> PROVE Apart(h)'
  BY <1>8 DEF Apart, ApartStack, Pending
<1>9. ASSUME ~ReadDir(h), ~(\E n \in Node : TakeEntry(h, n)), ~CopyDirReturns(h),
             stack'[h] # <<>>
      PROVE  Apart(h)'
  <2>1. stack' = stack
    BY <1>1, <1>9 DEF CopyStep, CopyDirStep, CopyFileStep, Start, CallFails, DirIsThere, Mkdir,
       ChmodDir, MkdirFails, Recheck, OpenSource, StatDest, StatDestFails, OpenDest,
       ChmodFile, ChmodFileFails, CopyChunk, WriteFails, CopyEnds, Close, Abort
  <2>2. ~Abort(h)
    BY <1>1, <1>9 DEF Abort
  <2>3. \/ pc'[h] \notin Coming \cup {"chmod", "copy"}
        \/ cur'[h] = cur[h] /\ pc[h] \in Coming \cup {"chmod", "copy"}
    BY <1>1, <1>9, <2>2 DEF CopyStep, CopyDirStep, CopyFileStep, Start, CallFails, DirIsThere, Mkdir,
       ChmodDir, MkdirFails, Recheck, OpenSource, StatDest, StatDestFails, OpenDest,
       ChmodFile, ChmodFileFails, CopyChunk, WriteFails, CopyEnds, Close, Goto, Coming
  <2> QED
    BY <1>3, <2>1, <2>3, SameStackApart
<1> QED
  BY <1>4, <1>5, <1>6, <1>7, <1>8, <1>9 DEF ApartInv

\* The chunks a copy is still to read.
Doing(h) ==
  IF pc[h] \in Coming THEN Units(Below[cur[h]])
  ELSE IF pc[h] \in {"chmod", "copy"} THEN {cur[h]} \X (pos[h] + 1 .. Chunks[cur[h]])
  ELSE {}

Ahead(h) == Doing(h) \cup Units(Pending(stack[h]))

\* What was reported and what is still to be read make up what is in the tree.
Budget(h) ==
  /\ Ahead(h) \subseteq Units(Below[src])
  /\ progress[h] + Cardinality(Ahead(h)) <= Cardinality(Units(Below[src]))
  /\ err[h] \/ progress[h] + Cardinality(Ahead(h)) = Cardinality(Units(Below[src]))

BudgetInv == op = "downloadDir" => \A h \in Host : Budget(h)

LEMMA UnitsOfSame ==
  ASSUME NEW S, NEW T, \A n \in File : n \in S <=> n \in T
  PROVE  Units(S) = Units(T)
BY DEF Units

LEMMA UnitsOfTwo ==
  ASSUME NEW S, NEW T, NEW R, \A n \in File : n \in R <=> n \in S \/ n \in T
  PROVE  Units(R) = Units(S) \cup Units(T)
BY DEF Units

\* What a step does to the chunks ahead: they stay, or the copy has failed and
\* none is left, or one of them was read.
KeepsAhead(h) ==
  Ahead(h)' = Ahead(h) /\ progress'[h] = progress[h] /\ (err[h] => err'[h]) /\ (err'[h] => err[h])

GivesUp(h) ==
  /\ Ahead(h)' = {} /\ err'[h]
  /\ \/ progress'[h] = progress[h]
     \/ progress'[h] = progress[h] + 1 /\ Ahead(h) # {}

ReadsOne(h) ==
  /\ \E u \in Ahead(h) : Ahead(h)' = Ahead(h) \ {u}
  /\ progress'[h] = progress[h] + 1
  /\ ~err[h] /\ ~err'[h]

LEMMA BudgetKept ==
  ASSUME TypeInv, NEW h \in Host, Budget(h), src' = src, progress'[h] \in Nat,
         KeepsAhead(h) \/ GivesUp(h) \/ ReadsOne(h)
  PROVE  Budget(h)'
<1>1. /\ src \in Node /\ progress[h] \in Nat
      /\ Units(Below[src])' = Units(Below[src])
  BY DEF TypeInv, TypeOK, Units
<1>2. PICK U : U = Units(Below[src])
  OBVIOUS
<1>3. IsFiniteSet(U) /\ Cardinality(U) \in Nat
  BY <1>2, UnitsFinite
<1>4. PICK A : A = Ahead(h)
  OBVIOUS
<1>5. A \subseteq U /\ IsFiniteSet(A) /\ Cardinality(A) \in Nat
  BY <1>2, <1>3, <1>4, FS_Subset, FS_CardinalityType DEF Budget
<1>6. CASE KeepsAhead(h)
  BY <1>1, <1>6 DEF KeepsAhead, Budget
<1>7. CASE GivesUp(h)
  <2>1. Cardinality({}) = 0
    BY FS_EmptySet
  <2>2. A # {} => Cardinality(A) # 0
    BY <1>5, FS_EmptySet
  <2>3. progress[h] + Cardinality(A) <= Cardinality(U)
    BY <1>2, <1>4 DEF Budget
  <2>4. progress'[h] <= Cardinality(U)
    BY <1>1, <1>3, <1>4, <1>5, <1>7, <2>2, <2>3 DEF GivesUp
  <2>5. progress'[h] + Cardinality({}) <= Cardinality(U)
    BY <2>1, <2>4
  <2> QED
    BY <1>1, <1>2, <1>7, <2>5 DEF GivesUp, Budget
<1>8. CASE ReadsOne(h)
  <2>1. PICK u \in A : Ahead(h)' = A \ {u}
    BY <1>4, <1>8 DEF ReadsOne
  <2>2. Cardinality(A \ {u}) = Cardinality(A) - 1
    BY <1>5, FS_RemoveElement
  <2>3. progress[h] + Cardinality(A) = Cardinality(U)
    BY <1>2, <1>4, <1>8 DEF Budget, ReadsOne
  <2>4. progress'[h] + Cardinality(A \ {u}) = Cardinality(U)
    BY <1>1, <1>3, <1>5, <1>8, <2>2, <2>3 DEF ReadsOne
  <2>5. progress'[h] + Cardinality(A \ {u}) <= Cardinality(U)
    BY <1>3, <2>4
  <2>6. A \ {u} \subseteq U
    BY <1>5
  <2> QED
    BY <1>1, <1>2, <2>1, <2>4, <2>5, <2>6 DEF Budget
<1> QED
  BY <1>6, <1>7, <1>8

LEMMA PendingNothing == Pending(<<>>) = {} /\ Units({}) = {}
<1>1. \A p \in 1..Len(<<>>) : FALSE
  OBVIOUS
<1> QED
  BY <1>1 DEF Pending, Units

\* A step of copyAction or copyDir that does not fail neither reads nor forgets.
LEMMA DirAhead ==
  ASSUME TypeInv, LocalInv, ApartInv, NEW h \in Host, CopyDirStep(h), ~err'[h],
         op = "downloadDir"
  PROVE  KeepsAhead(h)
<1>1. /\ pc \in [Host -> Calls] /\ cur \in [Host -> Node] /\ err \in [Host -> BOOLEAN]
      /\ pos \in [Host -> Nat] /\ stack \in [Host -> Seq(Frame)] /\ LocalOK(h)
  BY DEF TypeInv, TypeOK, Calls, Frame, LocalInv
<1>2. ~Abort(h)
  BY <1>1 DEF Abort
<1>3. progress' = progress /\ err' = err /\ pos' = pos
  BY <1>1, <1>2 DEF CopyDirStep, Start, CallFails, ReadDir, DirIsThere, Mkdir, ChmodDir,
     MkdirFails, Recheck, TakeEntry, CopyDirReturns
<1>4. SUFFICES Ahead(h)' = Ahead(h)
  BY <1>3 DEF KeepsAhead
<1>5. PICK s \in Seq(Frame) : s = stack[h]
  BY <1>1
<1>6. CASE Start(h)
  <2>1. stack' = stack /\ cur' = cur /\ pc[h] \in Coming /\ pc'[h] \in Coming
    BY <1>1, <1>6 DEF Start, Goto, Coming
  <2> QED
    BY <2>1 DEF Ahead, Doing, Units, Pending
<1>7. CASE ReadDir(h)
  <2>1. [dir |-> cur[h], todo |-> Children(cur[h])] \in Frame
    BY <1>7 DEF Frame, ReadDir, Children
  <2>2. PICK r \in Frame : r.todo = Children(cur[h]) /\ stack'[h] = Append(s, r)
    BY <1>1, <1>5, <1>7, <2>1 DEF ReadDir
  <2>3. cur[h] \in Dir /\ pc[h] = "readdir" /\ pc'[h] = "mkdir"
    BY <1>1, <1>7 DEF ReadDir, Goto
  <2>4. ASSUME NEW n \in File
        PROVE  n \in Pending(stack'[h]) <=> n \in Below[cur[h]] \/ n \in Pending(s)
    <3>1. n \in Node /\ n # cur[h] /\ cur[h] \in Node
      BY <2>3, TransferAssumption DEF Node
    <3>2. n \in Pending(stack'[h]) <=> n \in Pending(s) \/ \E c \in Children(cur[h]) : n \in Below[c]
      BY <2>2, <3>1, PendingAppend
    <3>3. n \in Below[cur[h]] => \E c \in Children(cur[h]) : n \in Below[c]
      BY <3>1, BelowChildren
    <3>4. \A c \in Children(cur[h]) : n \in Below[c] => n \in Below[cur[h]]
      BY <3>1, BelowSelf, BelowClosed, BelowBelow
    <3> QED
      BY <3>2, <3>3, <3>4
  <2>5. Units(Pending(stack'[h])) = Units(Below[cur[h]]) \cup Units(Pending(s))
    BY <2>4, UnitsOfTwo
  <2>6. Ahead(h) = Units(Below[cur[h]]) \cup Units(Pending(s))
    BY <1>5, <2>3 DEF Ahead, Doing, Coming
  <2>7. Ahead(h)' = Units(Pending(stack'[h]))
    BY <2>3 DEF Ahead, Doing, Coming, Units, Pending
  <2> QED
    BY <2>5, <2>6, <2>7
<1>8. ASSUME NEW n \in Node, TakeEntry(h, n) PROVE Ahead(h)' = Ahead(h)
  <2>1. s # <<>> /\ n \in s[Len(s)].todo
    BY <1>1, <1>5, <1>8 DEF LocalOK, TakeEntry, Top
  <2>2. PICK t : t = [s EXCEPT ![Len(s)].todo = @ \ {n}]
    OBVIOUS
  <2>3. stack'[h] = t /\ cur'[h] = n
    BY <1>1, <1>5, <1>8, <2>2 DEF TakeEntry
  <2>4. pc[h] = "entries" /\ pc'[h] \in {"readdir", "open"}
    BY <1>1, <1>8 DEF TakeEntry, Goto
  <2>5. ApartStack(s)
    BY <1>5 DEF ApartInv, Apart
  <2>6. \A x \in Node : x \in Pending(s) <=> x \in Pending(t) \/ x \in Below[n]
    BY <2>1, <2>2, <2>5, TakenApart
  <2>7. Units(Pending(s)) = Units(Below[n]) \cup Units(Pending(t))
    BY <2>6, UnitsOfTwo DEF Node
  <2>8. Ahead(h) = Units(Pending(s))
    BY <1>5, <2>4 DEF Ahead, Doing, Coming
  <2>9. Ahead(h)' = Units(Below[n]) \cup Units(Pending(t))
    BY <2>3, <2>4 DEF Ahead, Doing, Coming, Units, Pending
  <2> QED
    BY <2>7, <2>8, <2>9
<1>9. CASE CopyDirReturns(h)
  <2>1. s # <<>> /\ s[Len(s)].todo = {} /\ stack'[h] = SubSeq(s, 1, Len(s) - 1)
    BY <1>1, <1>5, <1>9 DEF LocalOK, CopyDirReturns, Top
  <2>2. pc[h] = "entries" /\ pc'[h] \in {"done", "entries"}
    BY <1>1, <1>9 DEF CopyDirReturns, Goto
  <2>3. ApartStack(s)
    BY <1>5 DEF ApartInv, Apart
  <2>4. \A x \in Node : x \in Pending(s) <=> x \in Pending(stack'[h])
    BY <2>1, <2>3, ReturnedApart
  <2>5. Units(Pending(s)) = Units(Pending(stack'[h]))
    BY <2>4, UnitsOfSame DEF Node
  <2>6. Ahead(h) = Units(Pending(s)) /\ Ahead(h)' = Units(Pending(stack'[h]))
    BY <1>5, <2>2 DEF Ahead, Doing, Coming, Units, Pending
  <2> QED
    BY <2>5, <2>6
<1>10. CASE DirIsThere(h) \/ Mkdir(h) \/ ChmodDir(h) \/ MkdirFails(h) \/ Recheck(h)
  <2>1. stack' = stack
    BY <1>1, <1>2, <1>10 DEF DirIsThere, Mkdir, ChmodDir, MkdirFails, Recheck
  <2>2. pc[h] \in {"mkdir", "chmoddir", "recheck"} /\ pc'[h] \in {"chmoddir", "recheck", "entries"}
    BY <1>1, <1>2, <1>10 DEF DirIsThere, Mkdir, ChmodDir, MkdirFails, Recheck, Goto
  <2> QED
    BY <2>1, <2>2 DEF Ahead, Doing, Coming, Units, Pending
<1> QED
  BY <1>2, <1>6, <1>7, <1>8, <1>9, <1>10 DEF CopyDirStep, CallFails

\* Nor does a step of copyFile that does not fail, but for a Read.
LEMMA FileAhead ==
  ASSUME TypeInv, LocalInv, ApartInv, NEW h \in Host, CopyFileStep(h), ~err'[h],
         op = "downloadDir"
  PROVE  KeepsAhead(h) \/ ReadsOne(h)
<1>1. /\ pc \in [Host -> Calls] /\ cur \in [Host -> Node] /\ err \in [Host -> BOOLEAN]
      /\ pos \in [Host -> Nat] /\ progress \in [Host -> Nat] /\ LocalOK(h)
  BY DEF TypeInv, TypeOK, Calls, LocalInv
<1>2. ~Abort(h)
  BY <1>1 DEF Abort
<1>3. cur' = cur /\ err'[h] = err[h]
  BY <1>1, <1>2 DEF CopyFileStep, OpenSource, StatDest, StatDestFails, OpenDest, ChmodFile,
     ChmodFileFails, CopyChunk, WriteFails, CopyEnds, Close
<1>4. stack' = stack
  BY <1>1, <1>2 DEF CopyFileStep, OpenSource, StatDest, StatDestFails, OpenDest, ChmodFile,
     ChmodFileFails, CopyChunk, WriteFails, CopyEnds, Close
<1>5. PICK R : R = Units(Pending(stack[h]))
  OBVIOUS
<1>6. Ahead(h) = Doing(h) \cup R /\ Ahead(h)' = Doing(h)' \cup R
  BY <1>4, <1>5 DEF Ahead, Units, Pending
<1>7. CASE OpenSource(h) \/ StatDest(h) \/ StatDestFails(h)
  <2>1. pc[h] \in Coming /\ pc'[h] \in Coming /\ progress' = progress
    BY <1>1, <1>2, <1>7 DEF OpenSource, StatDest, StatDestFails, Goto, Coming
  <2>2. Doing(h)' = Doing(h)
    BY <1>3, <2>1 DEF Doing, Units
  <2> QED
    BY <1>3, <1>6, <2>1, <2>2 DEF KeepsAhead
<1>8. CASE OpenDest(h)
  <2>1. /\ pc[h] \in Coming /\ pc'[h] \in {"chmod", "copy"} /\ pos'[h] = 0
        /\ progress' = progress /\ cur[h] \in File
    BY <1>1, <1>8 DEF OpenDest, Goto, Coming, LocalOK
  <2>2. Doing(h)' = {cur[h]} \X (1..Chunks[cur[h]])
    BY <1>3, <2>1 DEF Doing, Coming
  <2>3. \A n \in File : n \in Below[cur[h]] <=> n = cur[h]
    BY <1>1, <2>1, BelowFile, BelowSelf
  <2>4. Units(Below[cur[h]]) = {cur[h]} \X (1..Chunks[cur[h]])
    <3>1. File \cap Below[cur[h]] = {cur[h]}
      BY <2>1, <2>3
    <3> QED
      BY <3>1 DEF Units
  <2> QED
    BY <1>3, <1>6, <2>1, <2>2, <2>4 DEF KeepsAhead, Doing
<1>9. CASE ChmodFile(h)
  <2>1. pc[h] = "chmod" /\ pc'[h] = "copy" /\ pos' = pos /\ progress' = progress
    BY <1>1, <1>9 DEF ChmodFile, Goto
  <2>2. Doing(h)' = Doing(h)
    BY <1>3, <2>1 DEF Doing, Coming
  <2> QED
    BY <1>3, <1>6, <2>1, <2>2 DEF KeepsAhead
<1>10. CASE CopyEnds(h)
  <2>1. /\ pc[h] = "copy" /\ pc'[h] = "close" /\ progress' = progress /\ cur[h] \in File
        /\ pos[h] = Chunks[cur[h]]
    BY <1>1, <1>10 DEF CopyEnds, Goto, LocalOK
  <2>2. PICK j \in Nat : j = pos[h] /\ j = Chunks[cur[h]]
    BY <1>1, <2>1
  <2>3. j + 1 .. j = {}
    OBVIOUS
  <2>4. Doing(h)' = {} /\ Doing(h) = {cur[h]} \X (j + 1 .. j)
    BY <2>1, <2>2 DEF Doing, Coming
  <2>5. Doing(h)' = Doing(h)
    BY <2>3, <2>4
  <2> QED
    BY <1>3, <1>6, <2>1, <2>5 DEF KeepsAhead
<1>11. CASE Close(h)
  <2>1. pc[h] = "close" /\ pc'[h] \in {"done", "entries"} /\ progress' = progress
    BY <1>1, <1>11 DEF Close, Goto
  <2>2. Doing(h)' = {} /\ Doing(h) = {}
    BY <2>1 DEF Doing, Coming
  <2> QED
    BY <1>3, <1>6, <2>1, <2>2 DEF KeepsAhead
<1>12. CASE CopyChunk(h)
  <2>1. /\ pc[h] = "copy" /\ pc' = pc /\ cur[h] \in File /\ ~err[h]
        /\ pos[h] < Chunks[cur[h]] /\ pos'[h] = pos[h] + 1
        /\ progress'[h] = progress[h] + 1
    BY <1>1, <1>12 DEF CopyChunk, Report, LocalOK
  <2>2. PICK n \in File : n = cur[h]
    BY <2>1
  <2>3. PICK j \in Nat : j = pos[h] + 1 /\ j <= Chunks[n] /\ pos'[h] = j
    <3>1. Chunks[n] \in Nat /\ pos[h] \in Nat
      BY <1>1, TransferAssumption
    <3> QED
      BY <2>1, <2>2, <3>1
  <2>4. PICK m \in Nat : m = Chunks[n]
    BY TransferAssumption
  <2>5. Doing(h) = {n} \X (j .. m) /\ Doing(h)' = {n} \X (j + 1 .. m)
    BY <1>3, <2>1, <2>2, <2>3, <2>4 DEF Doing, Coming
  <2>6. j .. m = {j} \cup (j + 1 .. m) /\ j \notin j + 1 .. m
    BY <2>3, <2>4
  <2>7. <<n, j>> \in Doing(h) /\ Doing(h)' = Doing(h) \ {<<n, j>>}
    BY <2>5, <2>6
  <2>8. <<n, j>> \notin R
    <3>1. n \notin Pending(stack[h])
      BY <1>1, <2>1, <2>2, BelowSelf DEF ApartInv, Apart
    <3> QED
      BY <1>5, <3>1, UnitsAre
  <2>9. <<n, j>> \in Ahead(h) /\ Ahead(h)' = Ahead(h) \ {<<n, j>>}
    BY <1>6, <2>7, <2>8
  <2> QED
    BY <1>3, <2>1, <2>9 DEF ReadsOne
<1> QED
  BY <1>2, <1>7, <1>8, <1>9, <1>10, <1>11, <1>12 DEF CopyFileStep, ChmodFileFails, WriteFails

\* A copy that fails has nothing ahead, and has reported at most one more chunk.
LEMMA FailureAhead ==
  ASSUME TypeInv, LocalInv, NEW h \in Host, CopyStep(h), err'[h], op = "downloadDir"
  PROVE  KeepsAhead(h) \/ GivesUp(h)
<1>1. /\ pc \in [Host -> Calls] /\ cur \in [Host -> Node] /\ err \in [Host -> BOOLEAN]
      /\ pos \in [Host -> Nat] /\ progress \in [Host -> Nat]
      /\ stack \in [Host -> Seq(Frame)] /\ LocalOK(h)
  BY DEF TypeInv, TypeOK, Calls, Frame, LocalInv
<1>2. ASSUME stack'[h] = <<>>, pc'[h] \in {"close", "done"} PROVE Ahead(h)' = {}
  <2>1. Units(Pending(stack'[h])) = {}
    BY <1>2, PendingNothing
  <2>2. Doing(h)' = {}
    BY <1>2 DEF Doing, Coming
  <2>3. Ahead(h)' = Doing(h)' \cup Units(Pending(stack'[h]))
    BY DEF Ahead, Units, Pending
  <2> QED
    BY <2>1, <2>2, <2>3
<1>3. CASE err[h]
  <2>1. Close(h)
    <3>1. pc[h] \in {"close", "done"}
      BY <1>1, <1>3 DEF LocalOK
    <3> QED
      BY <3>1 DEF CopyStep, CopyDirStep, CopyFileStep, Start, CallFails, ReadDir, DirIsThere,
         Mkdir, ChmodDir, MkdirFails, Recheck, TakeEntry, CopyDirReturns, OpenSource, StatDest,
         StatDestFails, OpenDest, ChmodFile, ChmodFileFails, CopyChunk, WriteFails, CopyEnds
  <2>2. pc[h] = "close" /\ pc'[h] = "done" /\ progress' = progress
    BY <1>1, <1>3, <2>1 DEF Close, Goto
  <2>3. CASE stack' = stack
    <3>1. Ahead(h)' = Ahead(h)
      BY <2>2, <2>3 DEF Ahead, Doing, Coming, Units, Pending
    <3> QED
      BY <1>3, <2>2, <3>1 DEF KeepsAhead
  <2>4. CASE stack'[h] = <<>>
    BY <1>2, <2>2, <2>4 DEF GivesUp
  <2> QED
    BY <1>1, <2>1, <2>3, <2>4 DEF Close
<1>4. CASE ~err[h]
  <2>1. CASE Close(h)
    <3>1. pc'[h] = "done" /\ stack'[h] = <<>> /\ progress' = progress
      BY <1>1, <1>4, <2>1 DEF Close, Goto
    <3> QED
      BY <1>2, <3>1 DEF GivesUp
  <2>2. CASE ~Close(h)
    <3>1. Abort(h)
      BY <1>1, <1>4, <2>2 DEF CopyStep, CopyDirStep, CopyFileStep, Start, CallFails, ReadDir,
         DirIsThere, Mkdir, ChmodDir, MkdirFails, Recheck, TakeEntry, CopyDirReturns,
         OpenSource, StatDest, StatDestFails, OpenDest, ChmodFile, ChmodFileFails, CopyChunk,
         WriteFails, CopyEnds
    <3>2. Ahead(h)' = {}
      <4>1. stack'[h] = <<>> /\ pc'[h] \in {"close", "done"}
        BY <1>1, <3>1 DEF Abort, Goto
      <4> QED
        BY <1>2, <4>1
    <3>3. CASE WriteFails(h)
      <4>1. /\ pc[h] = "copy" /\ cur[h] \in File /\ pos[h] < Chunks[cur[h]]
            /\ progress'[h] = progress[h] + 1
        BY <1>1, <3>3 DEF WriteFails, Report, LocalOK
      <4>2. pos[h] + 1 \in pos[h] + 1 .. Chunks[cur[h]]
        <5>1. Chunks[cur[h]] \in Nat /\ pos[h] \in Nat
          BY <1>1, <4>1, TransferAssumption
        <5> QED
          BY <4>1, <5>1
      <4>3. <<cur[h], pos[h] + 1>> \in Ahead(h)
        BY <4>1, <4>2 DEF Ahead, Doing, Coming
      <4> QED
        BY <3>2, <4>1, <4>3 DEF GivesUp
    <3>4. CASE ~WriteFails(h)
      <4>1. progress' = progress
        BY <1>1, <1>4, <2>2, <3>1, <3>4 DEF CopyStep, CopyDirStep, CopyFileStep, Start, CallFails,
         ReadDir, DirIsThere, Mkdir, ChmodDir, MkdirFails, Recheck, TakeEntry, CopyDirReturns,
         OpenSource, StatDest, StatDestFails, OpenDest, ChmodFile, ChmodFileFails, CopyChunk,
         CopyEnds, Report
      <4> QED
        BY <3>2, <4>1 DEF GivesUp
    <3> QED
      BY <3>3, <3>4
  <2> QED
    BY <2>1, <2>2
<1> QED
  BY <1>1, <1>3, <1>4

LEMMA StepBudget ==
  ASSUME TypeInv, LocalInv, ApartInv, BudgetInv, NEW h \in Host, CopyStep(h)
  PROVE  BudgetInv'
<1>1. UNCHANGED inputs /\ OthersStay(h)
  BY InputsStay, OthersUntouched
<1> SUFFICES ASSUME op = "downloadDir", NEW k \in Host PROVE Budget(k)'
  BY <1>1 DEF BudgetInv, inputs
<1>2. /\ progress \in [Host -> Nat] /\ progress' \in [Host -> Nat]
      /\ err' \in [Host -> BOOLEAN] /\ Budget(k)
  BY StepTypes DEF TypeInv, TypeOK, BudgetInv
<1>3. src' = src /\ progress'[k] \in Nat
  BY <1>1, <1>2 DEF inputs
<1>4. CASE k = h
  <2>1. KeepsAhead(h) \/ GivesUp(h) \/ ReadsOne(h)
    BY DirAhead, FileAhead, FailureAhead DEF CopyStep
  <2> QED
    BY <1>2, <1>3, <1>4, <2>1, BudgetKept
<1>5. CASE k # h
  <2>1. progress'[k] = progress[k]
    <3>1. progress' = progress \/ Report(h)
      BY DEF CopyStep, CopyDirStep, CopyFileStep, Start, CallFails,
         ReadDir, DirIsThere, Mkdir, ChmodDir, MkdirFails, Recheck, TakeEntry, CopyDirReturns,
         OpenSource, StatDest, StatDestFails, OpenDest, ChmodFile, ChmodFileFails, CopyChunk,
         WriteFails, CopyEnds, Close
    <3> QED
      BY <1>2, <1>5, <3>1 DEF Report
  <2>2. Ahead(k)' = Ahead(k) /\ err'[k] = err[k]
    BY <1>1, <1>5 DEF OthersStay, Ahead, Doing, Units, Pending
  <2> QED
    BY <1>2, <1>3, <2>1, <2>2, BudgetKept DEF KeepsAhead
<1> QED
  BY <1>4, <1>5

LEMMA BudgetAlways == Spec => [](CopyInv /\ ApartInv /\ BudgetInv)
<1>1. ASSUME Init, CopyInv PROVE ApartInv /\ BudgetInv
  <2> SUFFICES ASSUME NEW h \in Host PROVE Apart(h) /\ Budget(h)
    BY DEF ApartInv, BudgetInv
  <2>1. /\ stack[h] = <<>> /\ pc[h] = "start" /\ cur[h] = src /\ progress[h] = 0 /\ ~err[h]
        /\ src \in Node
    BY <1>1 DEF Init, CopyInv, TypeInv
  <2>2. Ahead(h) = Units(Below[src])
    BY <2>1, PendingNothing DEF Ahead, Doing, Coming
  <2>3. Cardinality(Units(Below[src])) \in Nat
    BY UnitsFinite
  <2>4. Budget(h)
    BY <2>1, <2>2, <2>3 DEF Budget
  <2>5. Apart(h)
    BY <2>1 DEF Apart, ApartStack, Pending
  <2> QED
    BY <2>4, <2>5
<1>2. ASSUME CopyInv, ApartInv, BudgetInv, [Next]_vars PROVE ApartInv' /\ BudgetInv'
  <2>1. CASE UNCHANGED vars
    <3>1. \A h \in Host : Apart(h) => Apart(h)'
      BY <2>1 DEF vars, Apart, ApartStack, Pending
    <3>2. \A h \in Host : Ahead(h)' = Ahead(h)
      BY <2>1 DEF vars, Ahead, Doing, Units, Pending
    <3>3. \A h \in Host : Budget(h) => Budget(h)'
      BY <2>1, <3>2 DEF vars, inputs, Budget, Units
    <3> QED
      BY <1>2, <2>1, <3>1, <3>3 DEF vars, inputs, ApartInv, BudgetInv
  <2>2. ASSUME NEW h \in Host, CopyStep(h) PROVE ApartInv' /\ BudgetInv'
    BY <1>2, <2>2, StepApart, StepBudget DEF CopyInv
  <2> QED
    BY <1>2, <2>1, <2>2 DEF Next, CopyStep
<1> QED
  BY <1>1, <1>2, StartsWell, StepsKeep, PTL DEF Spec

\* The listed size of the tree and the size that is copied differ by the links.
LEMMA SizesDiffer ==
  ASSUME NEW L, L = {n \in File \cap Below[src] : link[n] # "none"}
  PROVE  /\ TotalSize \in Nat /\ SumChunks(L) \in Nat
         /\ Cardinality(L) * LinkSize \in Nat
         /\ Cardinality(Units(Below[src])) + Cardinality(L) * LinkSize = TotalSize + SumChunks(L)
<1> DEFINE P == (File \cap Below[src]) \ L
           Listed == L \X (1..LinkSize)
<1>1. IsFiniteSet(L) /\ LinkSize \in Nat
  <2>1. L \in SUBSET Node
    BY DEF Node
  <2> QED
    BY <2>1, TransferAssumption, TreeAssumption, FS_Subset
<1>2. /\ IsFiniteSet(1..LinkSize) /\ Cardinality(1..LinkSize) = LinkSize
  <2>1. Cardinality(1..LinkSize) = IF 1 > LinkSize THEN 0 ELSE LinkSize - 1 + 1
    <3>1. 1 \in Int /\ LinkSize \in Int
      BY <1>1
    <3> QED
      BY <3>1, FS_Interval
  <2> QED
    BY <1>1, <2>1, FS_Interval
<1>3. IsFiniteSet(Listed) /\ Cardinality(Listed) = Cardinality(L) * LinkSize
  BY <1>1, <1>2, FS_Product
<1>4. /\ IsFiniteSet(Units(P)) /\ Cardinality(Units(P)) \in Nat
      /\ IsFiniteSet(Units(L)) /\ Cardinality(Units(L)) \in Nat
  BY UnitsFinite
<1>5. Cardinality(Listed) \in Nat
  BY <1>3, FS_CardinalityType
<1>6. Cardinality(Units(Below[src])) = Cardinality(Units(P)) + Cardinality(Units(L))
  <2>1. Units(Below[src]) = Units(P) \cup Units(L)
    BY UnitsOfTwo
  <2>2. Units(P) \cap Units(L) = {}
    BY UnitsAre
  <2> HIDE DEF P
  <2>3. Cardinality(Units(P) \cup Units(L))
          = Cardinality(Units(P)) + Cardinality(Units(L)) - Cardinality(Units(P) \cap Units(L))
    BY <1>4, FS_Union
  <2>4. Cardinality(Units(P) \cap Units(L)) = 0
    BY <2>2, FS_EmptySet
  <2> QED
    BY <1>4, <2>1, <2>3, <2>4
<1>7. TotalSize = Cardinality(Units(P)) + Cardinality(Listed)
  <2>1. UNION {{n} \X (1..ListedSize(n)) : n \in File \cap Below[src]} = Units(P) \cup Listed
    <3>1. \A n \in P : ListedSize(n) = Chunks[n] /\ n \in File
      BY DEF ListedSize
    <3>2. \A n \in L : ListedSize(n) = LinkSize
      BY DEF ListedSize
    <3>3. File \cap Below[src] = P \cup L /\ File \cap P = P
      OBVIOUS
    <3> HIDE DEF P
    <3>4. UNION {{n} \X (1..ListedSize(n)) : n \in P} = Units(P)
      BY <3>1, <3>3 DEF Units
    <3>5. UNION {{n} \X (1..ListedSize(n)) : n \in L} = Listed
      BY <3>2
    <3> QED
      BY <3>3, <3>4, <3>5
  <2>2. Units(P) \cap Listed = {}
    BY UnitsAre
  <2>3. TotalSize = Cardinality(Units(P) \cup Listed)
    BY <2>1 DEF TotalSize
  <2> HIDE DEF P, Listed
  <2>4. Cardinality(Units(P) \cup Listed)
          = Cardinality(Units(P)) + Cardinality(Listed) - Cardinality(Units(P) \cap Listed)
    BY <1>3, <1>4, FS_Union
  <2>5. Cardinality(Units(P) \cap Listed) = 0
    BY <2>2, FS_EmptySet
  <2> QED
    BY <1>4, <1>5, <2>3, <2>4, <2>5
<1>8. SumChunks(L) = Cardinality(Units(L))
  <2>1. File \cap L = L
    OBVIOUS
  <2> QED
    BY <2>1 DEF SumChunks, Units
<1> HIDE DEF P, Listed
<1> QED
  BY <1>3, <1>4, <1>5, <1>6, <1>7, <1>8

\* DownloadDir: what progressReader reports never exceeds what Size promised, but
\* for what the symbolic links of the tree lead to, and a copy that returns nil has
\* reported all of it; however the calls fail, and whatever the tree.
THEOREM ProgressAlways == Spec => []ProgressReachesSize
<1>1. ASSUME CopyInv, BudgetInv PROVE ProgressReachesSize
  <2> SUFFICES ASSUME op = "downloadDir", NEW h \in Host,
                      NEW L, L = {n \in File \cap Below[src] : link[n] # "none"}
               PROVE  /\ progress[h] + Cardinality(L) * LinkSize <= TotalSize + SumChunks(L)
                      /\ Done(h) /\ ~err[h] =>
                           progress[h] + Cardinality(L) * LinkSize = TotalSize + SumChunks(L)
    BY DEF ProgressReachesSize
  <2>1. PICK T : T = Cardinality(Units(Below[src]))
    OBVIOUS
  <2>2. PICK X : X = Cardinality(L) * LinkSize
    OBVIOUS
  <2>3. PICK Y : Y = TotalSize + SumChunks(L)
    OBVIOUS
  <2>4. T \in Nat /\ X \in Nat /\ Y \in Nat /\ T + X = Y
    BY <2>1, <2>2, <2>3, UnitsFinite, SizesDiffer
  <2>5. PICK A : A = Ahead(h)
    OBVIOUS
  <2>6. Budget(h) /\ progress[h] \in Nat /\ LocalOK(h)
    BY <1>1 DEF BudgetInv, CopyInv, TypeInv, TypeOK, LocalInv
  <2>7. IsFiniteSet(A) /\ Cardinality(A) \in Nat
    BY <2>5, <2>6, UnitsFinite, FS_Subset, FS_CardinalityType DEF Budget
  <2>8. progress[h] + X <= Y
    BY <2>1, <2>4, <2>5, <2>6, <2>7 DEF Budget
  <2>9. ASSUME Done(h), ~err[h] PROVE progress[h] + X = Y
    <3>1. stack[h] = <<>> /\ pc[h] = "done"
      BY <2>6, <2>9 DEF Done, LocalOK
    <3>2. A = {}
      BY <2>5, <3>1, PendingNothing DEF Ahead, Doing, Coming
    <3>3. Cardinality(A) = 0
      BY <3>2, FS_EmptySet
    <3>4. progress[h] + Cardinality(A) = T
      BY <2>1, <2>5, <2>6, <2>9 DEF Budget
    <3> QED
      BY <2>4, <2>6, <3>3, <3>4
  <2> QED
    BY <2>2, <2>3, <2>8, <2>9
<1> QED
  BY <1>1, BudgetAlways, PTL

=============================================================================
