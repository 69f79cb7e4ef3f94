------------------------------- MODULE Transfer -------------------------------
(***************************************************************************)
(* Upload, Download and DownloadDir (fs.go) over the SFTP file system of a *)
(* host (sftpfs.go).  The hosts of a group perform the same copy at the    *)
(* same time.  Hosts dialed from one alias are one machine, known by one   *)
(* name, so their copies write the same files.                             *)
(*                                                                         *)
(* A file system is an entry for each node of the tree that is copied; a   *)
(* file's content says, for each chunk, which source it was written from.  *)
(***************************************************************************)
EXTENDS Naturals, Sequences, FiniteSets

CONSTANTS
  Host,      \* the hosts of the group
  Alias,     \* their aliases: the machines, and the names
  Aliasings, \* which host may come from which alias
  Local,     \* the local machine, as a source and as DownloadDir's target
  Dir, File, \* the nodes of the tree that may be copied
  Parent,    \* the directory a node is in
  Chunks,    \* the chunks of each file; of a symbolic link, those of its target
  Links,     \* which files may be symbolic links, and to what
  LinkSize,  \* the size a directory lists for a symbolic link
  MaxLen,    \* bound: the length of the files that were there before
  Src,       \* the nodes a copy may be asked for
  Perms,     \* the Perm values it may be given
  Umasks,    \* the permissions the local process may withhold from new files
  Before,    \* what may exist at the destination before
  NoNode     \* no node

Node == Dir \cup File
Area == Alias \cup {Local}
Ops == {"upload", "download", "downloadDir"}

ASSUME TransferAssumption ==
  /\ Aliasings \subseteq [Host -> Alias] /\ Local \notin Alias
  /\ Dir \cap File = {} /\ NoNode \notin Node /\ Src \subseteq Node
  /\ Parent \in [Node -> Dir \cup {NoNode}]
  /\ MaxLen \in Nat /\ Chunks \in [File -> 0..MaxLen]
  /\ Links \subseteq [File -> {"none", "file", "dir"}] /\ LinkSize \in Nat
  /\ Before \subseteq [Node -> {"none", "file", "dir"}]

-----------------------------------------------------------------------------
(* Perm: which permissions are used for files and for directories, each a  *)
(* set of permission bits.                                                 *)

Mode0644 == {"ur", "uw", "gr", "or"}
Mode0755 == Mode0644 \cup {"ux", "gx", "ox"}

NoPerm == [perm |-> {}, haveFilePerm |-> FALSE,
           dirPerm |-> {}, haveDirPerm |-> FALSE]

NewPerm(m) == [NoPerm EXCEPT !.perm = m, !.haveFilePerm = TRUE]

WithDirPerm(p, m) == [p EXCEPT !.dirPerm = m, !.haveDirPerm = TRUE]

GetFilePerm(p) == IF p.haveFilePerm THEN p.perm ELSE Mode0644

GetDirPerm(p) == IF p.haveDirPerm THEN p.dirPerm
                 ELSE IF p.haveFilePerm THEN p.perm ELSE Mode0755

-----------------------------------------------------------------------------

VARIABLES
  \* the copy that is asked for and the machines it meets (never change)
  alias,    \* the alias of each host
  op,       \* Upload, Download or DownloadDir
  src,      \* the node at Src
  link,     \* what each file of the tree is a symbolic link to
  perm,     \* its Perm
  before,   \* what was at the destination
  cwd,      \* where an SFTP server looks for a relative name: "root" or "elsewhere"
  umask,    \* the umask of the local process
  \* the destination
  dst,      \* area -> node -> [is, mode, data]
  \* the copy of each host
  pc,       \* the call it is about to make
  stack,    \* the copyDir calls under way: [dir, todo]
  cur,      \* the node it is copying
  create,   \* OpenFile's create flag
  pos,      \* chunks of the file read so far
  open,     \* file handles not yet closed
  err,      \* whether it returns, or is about to return, an error
  progress, \* the sum of the values given to Progress
  unseen    \* files whose Stat failed for another reason than ErrNotExist

inputs == <<alias, op, src, link, perm, before, cwd, umask>>
vars == <<inputs, dst, pc, stack, cur, create, pos, open, err, progress, unseen>>

Children(d) == {n \in Node : Parent[n] = d}

\* The nodes at and below a node: they are in every set that has the node and,
\* with a directory, its children.
Below ==
  [d \in Node |->
     {n \in Node : \A S \in SUBSET Node :
                     d \in S /\ (\A m \in S : Children(m) \subseteq S) => n \in S}]

\* A directory is not below itself.
ASSUME TreeAssumption ==
  /\ IsFiniteSet(Node)
  /\ \A n \in Node : Parent[n] \notin Below[n]

\* e.Info().Size(): ReadDir does not follow a symbolic link.
ListedSize(n) == IF link[n] = "none" THEN Chunks[n] ELSE LinkSize

\* totalSize: the listed sizes of the files below a directory, counted by the
\* pairs of a file and a chunk of it.
TotalSize == Cardinality(UNION {{n} \X (1..ListedSize(n)) : n \in File \cap Below[src]})

\* Mutant: a Download does not add the host's name to its destination.
AreaUnnamed(h) == IF op = "upload" THEN alias[h] ELSE Local

\* Where a host's copy goes: to its machine, or to a local path with its name
\* added; DownloadDir adds none.
AreaOf(h) == IF op = "downloadDir" THEN Local ELSE alias[h]

SourceOf(h) == IF op = "upload" THEN Local ELSE alias[h]

There(h) == dst[AreaOf(h)][cur[h]]

Hole == [i \in 1..MaxLen |-> "hole"]

\* The permissions of what was there before, and those a server gives.
OldMode    == {"old"}
ServerMode == {"server"}

\* What a new entry gets that is asked for with m: fs.DirFS leaves it to the
\* system, which takes the umask off; the SFTP client does not pass m on.
NewMode(m) == IF op = "upload" THEN ServerMode ELSE m \ umask

Entry(is) ==
  [is |-> is, mode |-> OldMode,
   data |-> IF is = "file" THEN [i \in 1..MaxLen |-> "old"] ELSE Hole]

Init ==
  /\ alias \in Aliasings
  /\ op \in Ops
  /\ op = "downloadDir" => \A g, h \in Host : alias[g] = alias[h]
  /\ src \in Src
  /\ link \in Links
  /\ src \in File => link[src] = "none"
  /\ perm \in IF op = "downloadDir" THEN {NoPerm} ELSE Perms
  /\ before \in Before
  /\ cwd \in IF op = "upload" THEN {"root", "elsewhere"} ELSE {"root"}
  /\ umask \in Umasks
  /\ dst = [a \in Area |-> [n \in Node |-> Entry(before[n])]]
  /\ pc = [h \in Host |-> "start"]
  /\ stack = [h \in Host |-> <<>>]
  /\ cur = [h \in Host |-> src]
  /\ create = [h \in Host |-> FALSE]
  /\ pos = [h \in Host |-> 0]
  /\ open = [h \in Host |-> {}]
  /\ err = [h \in Host |-> FALSE]
  /\ progress = [h \in Host |-> 0]
  /\ unseen = [h \in Host |-> {}]

Goto(h, p) == pc' = [pc EXCEPT ![h] = p]

\* The entry of the node a host is copying becomes e.
Write(h, e) == dst' = [dst EXCEPT ![AreaOf(h)][cur[h]] = e]

\* The error goes up through every copyDir; a copyFile first runs its defers.
Abort(h) ==
  /\ err' = [err EXCEPT ![h] = TRUE]
  /\ stack' = [stack EXCEPT ![h] = <<>>]
  /\ Goto(h, IF open[h] = {} THEN "done" ELSE "close")

-----------------------------------------------------------------------------
(* The action, and copyDir.                                                *)

\* fs.Sub and, but for DownloadDir, fs.Stat of the source.
Start(h) ==
  /\ pc[h] = "start"
  /\ Goto(h, IF op = "downloadDir" \/ src \in Dir THEN "readdir" ELSE "open")
  /\ UNCHANGED <<inputs, dst, stack, cur, create, pos, open, err, progress, unseen>>

\* A call whose error is returned: Sub, Stat, ReadDir, Open, OpenFile, Read.
CallFails(h) ==
  /\ pc[h] \in {"start", "readdir", "open", "create", "copy"}
  /\ Abort(h)
  /\ UNCHANGED <<inputs, dst, cur, create, pos, open, progress, unseen>>

ReadDir(h) ==
  /\ pc[h] = "readdir"
  /\ cur[h] \in Dir
  /\ stack' = [stack EXCEPT ![h] = Append(@, [dir |-> cur[h], todo |-> Children(cur[h])])]
  /\ Goto(h, "mkdir")
  /\ UNCHANGED <<inputs, dst, cur, create, pos, open, err, progress, unseen>>

\* MkdirAll finds what it is asked to make.
DirIsThere(h) ==
  /\ pc[h] = "mkdir"
  /\ There(h).is # "none"
  /\ IF There(h).is = "dir"
     THEN Goto(h, "entries") /\ UNCHANGED <<stack, err>>
     ELSE Abort(h)
  /\ UNCHANGED <<inputs, dst, cur, create, pos, open, progress, unseen>>

\* Mkdir: nothing sets the permissions of a local directory afterwards.
Mkdir(h) ==
  /\ pc[h] = "mkdir"
  /\ There(h).is = "none"
  /\ Write(h, [is |-> "dir", data |-> Hole, mode |-> NewMode(GetDirPerm(perm))])
  /\ Goto(h, IF op = "upload" THEN "chmoddir" ELSE "entries")
  /\ UNCHANGED <<inputs, stack, cur, create, pos, open, err, progress, unseen>>

\* client.Chmod(name, perm) is given the name without the prefix: the server
\* looks for it in its working directory, where it may be another directory.
ChmodDir(h) ==
  /\ pc[h] = "chmoddir"
  /\ IF cwd = "root"
     THEN Write(h, [There(h) EXCEPT !.mode = GetDirPerm(perm)])
     ELSE UNCHANGED dst
  /\ Goto(h, "entries")
  /\ UNCHANGED <<inputs, stack, cur, create, pos, open, err, progress, unseen>>

\* client.Mkdir or client.Chmod fails.
MkdirFails(h) ==
  /\ pc[h] \in {"mkdir", "chmoddir"}
  /\ Goto(h, "recheck")
  /\ UNCHANGED <<inputs, dst, stack, cur, create, pos, open, err, progress, unseen>>

\* MkdirAll may look again, and be content with a directory that is there.
Recheck(h) ==
  /\ pc[h] = "recheck"
  /\ \/ /\ There(h).is = "dir"
        /\ Goto(h, "entries")
        /\ UNCHANGED <<stack, err>>
     \/ Abort(h)
  /\ UNCHANGED <<inputs, dst, cur, create, pos, open, progress, unseen>>

Top(h) == stack[h][Len(stack[h])]

\* Mutant: the loop comes to a directory again.
TakeEntryAgain(h, n) ==
  /\ pc[h] = "entries"
  /\ n \in Top(h).todo
  /\ stack' = [stack EXCEPT ![h][Len(stack[h])].todo = @ \ ({n} \ Dir)]
  /\ cur' = [cur EXCEPT ![h] = n]
  /\ Goto(h, IF n \in Dir THEN "readdir" ELSE "open")
  /\ UNCHANGED <<inputs, dst, create, pos, open, err, progress, unseen>>

\* The loop of copyDir: the next entry, in the order ReadDir gave them.
TakeEntry(h, n) ==
  /\ pc[h] = "entries"
  /\ n \in Top(h).todo
  /\ stack' = [stack EXCEPT ![h][Len(stack[h])].todo = @ \ {n}]
  /\ cur' = [cur EXCEPT ![h] = n]
  /\ Goto(h, IF n \in Dir THEN "readdir" ELSE "open")
  /\ UNCHANGED <<inputs, dst, create, pos, open, err, progress, unseen>>

\* copyDir returns nil.
CopyDirReturns(h) ==
  /\ pc[h] = "entries"
  /\ Top(h).todo = {}
  /\ stack' = [stack EXCEPT ![h] = SubSeq(@, 1, Len(@) - 1)]
  /\ Goto(h, IF Len(stack[h]) = 1 THEN "done" ELSE "entries")
  /\ UNCHANGED <<inputs, dst, cur, create, pos, open, err, progress, unseen>>

-----------------------------------------------------------------------------
(* copyFile.                                                               *)

OpenSource(h) ==
  /\ pc[h] = "open"
  /\ open' = [open EXCEPT ![h] = {"from"}]
  /\ create' = [create EXCEPT ![h] = FALSE]
  /\ Goto(h, IF op = "upload" THEN "stat" ELSE "create")
  /\ UNCHANGED <<inputs, dst, stack, cur, pos, err, progress, unseen>>

\* Mutant: any file that OpenFile opens gets the permissions.
StatDestAlways(h) ==
  /\ pc[h] = "stat"
  /\ IF There(h).is = "dir"
     THEN Abort(h) /\ UNCHANGED create
     ELSE /\ create' = [create EXCEPT ![h] = TRUE]
          /\ Goto(h, "create")
          /\ UNCHANGED <<stack, err>>
  /\ UNCHANGED <<inputs, dst, cur, pos, open, progress, unseen>>

\* sftpFS.OpenFile looks whether the file is there ...
StatDest(h) ==
  /\ pc[h] = "stat"
  /\ IF There(h).is = "dir"
     THEN Abort(h) /\ UNCHANGED create
     ELSE /\ create' = [create EXCEPT ![h] = There(h).is = "none"]
          /\ Goto(h, "create")
          /\ UNCHANGED <<stack, err>>
  /\ UNCHANGED <<inputs, dst, cur, pos, open, progress, unseen>>

\* ... and goes on when it cannot tell ...
StatDestFails(h) ==
  /\ pc[h] = "stat"
  /\ unseen' = [unseen EXCEPT ![h] = @ \cup {cur[h]}]
  /\ Goto(h, "create")
  /\ UNCHANGED <<inputs, dst, stack, cur, create, pos, open, err, progress>>

\* Mutant: the file is opened without O_TRUNC.
OpenDestKeep(h) ==
  /\ pc[h] = "create"
  /\ There(h).is # "dir"
  /\ Write(h, [There(h) EXCEPT !.is = "file",
                 !.mode = IF There(h).is = "file" THEN @
                          ELSE NewMode(GetFilePerm(perm))])
  /\ open' = [open EXCEPT ![h] = @ \cup {"to"}]
  /\ pos' = [pos EXCEPT ![h] = 0]
  /\ Goto(h, IF create[h] THEN "chmod" ELSE "copy")
  /\ UNCHANGED <<inputs, stack, cur, create, err, progress, unseen>>

\* ... opens it with O_CREATE and O_TRUNC ...
OpenDest(h) ==
  /\ pc[h] = "create"
  /\ There(h).is # "dir"
  /\ Write(h, [is |-> "file", data |-> Hole,
               mode |-> IF There(h).is = "file" THEN There(h).mode
                        ELSE NewMode(GetFilePerm(perm))])
  /\ open' = [open EXCEPT ![h] = @ \cup {"to"}]
  /\ pos' = [pos EXCEPT ![h] = 0]
  /\ Goto(h, IF create[h] THEN "chmod" ELSE "copy")
  /\ UNCHANGED <<inputs, stack, cur, create, err, progress, unseen>>

\* ... and gives a file it found missing its permissions.
ChmodFile(h) ==
  /\ pc[h] = "chmod"
  /\ Write(h, [There(h) EXCEPT !.mode = GetFilePerm(perm)])
  /\ Goto(h, "copy")
  /\ UNCHANGED <<inputs, stack, cur, create, pos, open, err, progress, unseen>>

\* Mutant: the file stays open when its permissions cannot be set.
ChmodFileFailsOpen(h) ==
  /\ pc[h] = "chmod"
  /\ err' = [err EXCEPT ![h] = TRUE]
  /\ stack' = [stack EXCEPT ![h] = <<>>]
  /\ Goto(h, "done")
  /\ open' = [open EXCEPT ![h] = @ \ {"from"}]
  /\ UNCHANGED <<inputs, dst, cur, create, pos, progress, unseen>>

\* OpenFile closes the file it cannot set up.
ChmodFileFails(h) ==
  /\ pc[h] = "chmod"
  /\ Abort(h)
  /\ open' = [open EXCEPT ![h] = @ \ {"to"}]
  /\ UNCHANGED <<inputs, dst, cur, create, pos, progress, unseen>>

\* Mutant: what a Read returns together with io.EOF is not reported.
ReportNotLast(h) ==
  progress' = [progress EXCEPT ![h] =
                 IF op = "downloadDir" /\ pos[h] + 1 < Chunks[cur[h]] THEN @ + 1 ELSE @]

\* progressReader.Read reports what was read.
Report(h) ==
  progress' = [progress EXCEPT ![h] = IF op = "downloadDir" THEN @ + 1 ELSE @]

\* Mutant: a chunk is read after the last one.
CopyChunkMore(h) ==
  /\ pc[h] = "copy"
  /\ pos[h] < MaxLen
  /\ Write(h, [There(h) EXCEPT !.data[pos[h] + 1] = SourceOf(h)])
  /\ pos' = [pos EXCEPT ![h] = @ + 1]
  /\ Report(h)
  /\ UNCHANGED <<inputs, pc, stack, cur, create, open, err, unseen>>

\* io.Copy: one chunk is read and written. Open follows a symbolic link; if it
\* leads to a directory, the first Read fails (CallFails).
CopyChunk(h) ==
  /\ pc[h] = "copy"
  /\ link[cur[h]] # "dir"
  /\ pos[h] < Chunks[cur[h]]
  /\ Write(h, [There(h) EXCEPT !.data[pos[h] + 1] = SourceOf(h)])
  /\ pos' = [pos EXCEPT ![h] = @ + 1]
  /\ Report(h)
  /\ UNCHANGED <<inputs, pc, stack, cur, create, open, err, unseen>>

\* Mutant: a failed Write ends the copy of the file without an error.
WriteFailsQuietly(h) ==
  /\ pc[h] = "copy"
  /\ pos[h] < Chunks[cur[h]]
  /\ Goto(h, "close")
  /\ Report(h)
  /\ UNCHANGED <<inputs, dst, stack, cur, create, pos, open, err, unseen>>

\* A chunk is read but cannot be written.
WriteFails(h) ==
  /\ pc[h] = "copy"
  /\ link[cur[h]] # "dir"
  /\ pos[h] < Chunks[cur[h]]
  /\ Abort(h)
  /\ Report(h)
  /\ UNCHANGED <<inputs, dst, cur, create, pos, open, unseen>>

\* Read returns io.EOF.
CopyEnds(h) ==
  /\ pc[h] = "copy"
  /\ link[cur[h]] # "dir"
  /\ pos[h] = Chunks[cur[h]]
  /\ Goto(h, "close")
  /\ UNCHANGED <<inputs, dst, stack, cur, create, pos, open, err, progress, unseen>>

\* The deferred safeClose of each handle: an error is kept if it is the first.
Close(h) ==
  /\ pc[h] = "close"
  /\ open' = [open EXCEPT ![h] = {}]
  /\ \/ /\ Goto(h, IF err[h] \/ stack[h] = <<>> THEN "done" ELSE "entries")
        /\ UNCHANGED <<stack, err>>
     \/ /\ err' = [err EXCEPT ![h] = TRUE]
        /\ stack' = [stack EXCEPT ![h] = <<>>]
        /\ Goto(h, "done")
  /\ UNCHANGED <<inputs, dst, cur, create, pos, progress, unseen>>

CopyDirStep(h) ==
  \/ Start(h) \/ CallFails(h) \/ ReadDir(h)
  \/ DirIsThere(h) \/ Mkdir(h) \/ ChmodDir(h) \/ MkdirFails(h) \/ Recheck(h)
  \/ \E n \in Node : TakeEntry(h, n)
  \/ CopyDirReturns(h)

CopyFileStep(h) ==
  \/ OpenSource(h) \/ StatDest(h) \/ StatDestFails(h)
  \/ OpenDest(h) \/ ChmodFile(h) \/ ChmodFileFails(h)
  \/ CopyChunk(h) \/ WriteFails(h) \/ CopyEnds(h) \/ Close(h)

Next == \E h \in Host : CopyDirStep(h) \/ CopyFileStep(h)

Spec == Init /\ [][Next]_vars

\* Every goroutine is scheduled, and every call to a file system answers.
Fairness == \A h \in Host : WF_vars(CopyDirStep(h) \/ CopyFileStep(h))

FairSpec == Spec /\ Fairness

-----------------------------------------------------------------------------
(* Properties.                                                             *)

Done(h) == pc[h] = "done"

\* The hosts whose copies write where h's does, h among them.
Together(h) == {g \in Host : AreaOf(g) = AreaOf(h)}

AllSucceeded(h) == \A g \in Together(h) : Done(g) /\ ~err[g]

SumChunks(files) == Cardinality(UNION {{n} \X (1..Chunks[n]) : n \in files})

\* File n at a holds what the source s holds, and no more.
Complete(a, n, s) ==
  dst[a][n].data = [i \in 1..MaxLen |-> IF i <= Chunks[n] THEN s ELSE "hole"]

\* Every variable has its type, and no file is read past its end.
TypeOK ==
  /\ \A a \in Area, n \in Node :
       /\ dst[a][n].is \in {"none", "file", "dir"}
       /\ dst[a][n].data \in [1..MaxLen -> Area \cup {"hole", "old"}]
  /\ pc \in [Host -> {"start", "readdir", "mkdir", "chmoddir", "recheck", "entries",
                      "open", "stat", "create", "chmod", "copy", "close", "done"}]
  /\ stack \in [Host -> Seq([dir : Dir, todo : SUBSET Node])]
  /\ cur \in [Host -> Node]
  /\ create \in [Host -> BOOLEAN]
  /\ pos \in [Host -> Nat]
  /\ \A h \in Host : pc[h] = "copy" => pos[h] <= Chunks[cur[h]]
  /\ open \in [Host -> SUBSET {"from", "to"}]
  /\ err \in [Host -> BOOLEAN]
  /\ progress \in [Host -> Nat]
  /\ unseen \in [Host -> SUBSET File]

\* When every copy to a destination has returned nil, the destination holds the
\* whole tree: each file its own source's content and nothing of what was there,
\* though two hosts of one alias truncate and write the same files.
SuccessIsComplete ==
  \A h \in Host : AllSucceeded(h) =>
    \A n \in Below[src] :
      IF n \in Dir THEN dst[AreaOf(h)][n].is = "dir"
      ELSE dst[AreaOf(h)][n].is = "file" /\ Complete(AreaOf(h), n, SourceOf(h))

\* What m comes to at a destination: a host has all of it, through Chmod; the
\* local process's umask is taken off what it creates.
Granted(m) == IF op = "upload" THEN m ELSE m \ umask

\* Then also a file that was there keeps its permissions, and one that was not
\* has those of Perm, for a download less the umask, unless the Stat before its
\* creation failed.
FilePermsAsAsked ==
  \A h \in Host : AllSucceeded(h) =>
    \A n \in (File \cap Below[src]) \ UNION {unseen[g] : g \in Together(h)} :
      dst[AreaOf(h)][n].mode = IF before[n] = "file" THEN OldMode
                               ELSE Granted(GetFilePerm(perm))

\* A copy that fails, or is under way, has damaged no file but the one it came
\* to: all others are as they were or complete.
OneFileAtRisk ==
  \A h \in Host : \A n \in File :
    \/ dst[AreaOf(h)][n].data = Entry(before[n]).data
    \/ Complete(AreaOf(h), n, SourceOf(h))
    \/ \E g \in Together(h) : cur[g] = n

\* "Call this before Apply to obtain the total for progress display": in a tree
\* without symbolic links, what Progress is given adds up to Size and never to
\* more. With them, it adds up to Size plus, for each link, the difference
\* between the file it leads to and the link: Size lists, and the copy follows.
ProgressReachesSize ==
  op = "downloadDir" =>
    LET Linked == {n \in File \cap Below[src] : link[n] # "none"}
        Total  == TotalSize + SumChunks(Linked)
    IN  \A h \in Host :
          /\ progress[h] + Cardinality(Linked) * LinkSize <= Total
          /\ Done(h) /\ ~err[h] => progress[h] + Cardinality(Linked) * LinkSize = Total

\* A copy returns with every file it opened closed, whichever call failed, and
\* has no file open while it is at a directory.
HandlesClosed ==
  \A h \in Host :
    pc[h] \in {"done", "readdir", "mkdir", "recheck", "entries", "open"} => open[h] = {}

\* "Perm describes the permissions that should be used when creating files or
\* directories" (fs.go:65): a directory that a successful copy created has them,
\* but for what the umask of a download withholds.
DirPermsAsAsked ==
  \A h \in Host : AllSucceeded(h) =>
    \A n \in Dir \cap Below[src] :
      dst[AreaOf(h)][n].mode = IF before[n] = "dir" THEN OldMode
                               ELSE Granted(GetDirPerm(perm))

\* Apply returns, provided every call to a file system answers: it ignores its
\* context.
EveryCopyEnds == \A h \in Host : <>Done(h)

=============================================================================
