------------------------------- MODULE ShellRun -------------------------------
(***************************************************************************)
(* Shell.Apply (cmd.go) and the sshCmd.RunContext it calls (ssh.go): a     *)
(* remote command is started on a session of its own, one goroutine per    *)
(* given stream copies between the session's pipe and the caller's reader  *)
(* or writer, a helper goroutine closes the session once the context is    *)
(* done, and Apply joins the copiers' errors to that of the command.       *)
(*                                                                         *)
(* The session and its channel (golang.org/x/crypto/ssh), the remote       *)
(* command and the network are the environment.  Data is counted in        *)
(* chunks, one Read or Write each.                                         *)
(***************************************************************************)
EXTENDS Naturals, FiniteSets

CONSTANTS
  Jobs,   \* what Apply is called with, and what it meets
  Window  \* chunks a channel holds unread before its sender has to wait

Output == {"stdout", "stderr"}
Stream == Output \cup {"stdin"}

\* streams:    the fields of Shell that are not nil
\* sameWriter: Stdout and Stderr are one writer
\* badWriters: outputs whose writer may fail
\* given:      chunks that the Stdin reader yields
\* ends:       the reader then ends, instead of blocking for ever
\* wants:      chunks of input the command reads before it exits; it reads to
\*             the end of its input if that is more than it is given
\* writes:     chunks the command writes
\* exit:       the status it exits with
\* keepAlive:  the group was dialed with KeepAlive
JobType ==
  [streams : SUBSET Stream, sameWriter : BOOLEAN, badWriters : SUBSET Output,
   given : Nat, ends : BOOLEAN, wants : Nat, writes : [Output -> Nat],
   exit : {"zero", "one", "other"}, keepAlive : BOOLEAN]

ASSUME ShellAssumption == Jobs \subseteq JobType /\ Window \in Nat \ {0}

VARIABLES
  job,      \* one of Jobs (never changes)
  apply,    \* where the goroutine that called Apply is
  err,      \* the errors joined into Apply's result
  copier,   \* the goroutine running pipe, of each stream
  failed,   \* the streams whose io.Copy returned an error
  old,      \* what a writer held when a copier's Write read it
  sink,     \* what each writer holds: the chunks of each output
  fed,      \* chunks of Stdin written to the session
  inClosed, \* the session's standard input has been closed
  helper,   \* RunContext's goroutine
  closeErr, \* what its session.Close returned
  runCtx,   \* RunContext's child context, as far as its own cancel goes
  ctx,      \* the caller's context
  chan,     \* the session's channel
  remote,   \* the command
  eaten,    \* chunks of input it has read
  produced, \* chunks of each output that the server has sent
  unread,   \* those of them nobody has read
  status,   \* the exit status received
  peer      \* does the server still answer?

callVars   == <<apply, err>>
copyVars   == <<copier, failed, old, sink, fed>>
helperVars == <<helper, closeErr, runCtx>>
remoteVars == <<remote, eaten, produced, status>>
vars == <<job, callVars, copyVars, inClosed, helperVars, ctx, chan,
          remoteVars, unread, peer>>

Writer == Output \cup {"both"}
WriterOf(o) == IF job.sameWriter THEN "both" ELSE o
Outputs == job.streams \cap Output
Over    == chan \in {"closed", "lost"}
AllSent == remote = "exited" /\ produced = job.writes
Total(count) == count["stdout"] + count["stderr"]
Empty == [o \in Output |-> 0]

Init ==
  /\ job \in Jobs
  /\ apply = "new" /\ err = {}
  /\ copier = [s \in Stream |-> "none"] /\ failed = {}
  /\ old = [o \in Output |-> Empty] /\ sink = [w \in Writer |-> Empty]
  /\ fed = 0 /\ inClosed = FALSE
  /\ helper = "none" /\ closeErr = "none" /\ runCtx = "live"
  /\ ctx = "live" /\ chan = "open" /\ peer = "there"
  /\ remote = "none" /\ eaten = 0 /\ produced = Empty /\ status = "none"
  /\ unread = Empty

-----------------------------------------------------------------------------
(* Shell.Apply up to the start of the command.                             *)

NewCommand ==
  /\ apply = "new"
  /\ \/ /\ chan = "open" /\ peer = "there"
        /\ apply' = "opening"
        /\ UNCHANGED err
     \/ /\ apply' = "returned"
        /\ err' = {"session"}
  /\ UNCHANGED <<job, copyVars, inClosed, helperVars, ctx, chan, remoteVars,
                 unread, peer>>

\* Stdin, Stdout and Stderr are opened in this order.
Before(s) == CASE s = "stdin"  -> {}
               [] s = "stdout" -> {"stdin"}
               [] s = "stderr" -> {"stdin", "stdout"}
Opened == {s \in Stream : copier[s] # "none"}

\* Apply leaves with an error of its own, or RunContext has returned: the
\* deferred safeClose calls close the pipes (only the one to the command's
\* input has anything to close) and lose their errors in a shadowed variable.
Leave(errors) ==
  /\ apply' = "draining"
  /\ err' = err \cup errors
  /\ inClosed' = TRUE

OpenPipe(s) ==
  /\ apply = "opening"
  /\ s \in job.streams \ Opened
  /\ Before(s) \cap job.streams \subseteq Opened
  /\ \/ /\ copier' = [copier EXCEPT ![s] = "copying"]
        /\ UNCHANGED <<apply, err, inClosed>>
     \/ /\ Leave({"pipe"})
        /\ UNCHANGED copier
  /\ UNCHANGED <<job, failed, old, sink, fed, helperVars, ctx, chan, remoteVars,
                 unread, peer>>

\* session.Start: a stream without a pipe is served by the session itself,
\* which closes the command's input and discards its output.
Start ==
  /\ apply = "opening" /\ job.streams = Opened
  /\ chan = "open" /\ peer = "there"
  /\ apply' = "waiting"
  /\ remote' = "running"
  /\ helper' = "watching"
  /\ inClosed' = ("stdin" \notin job.streams)
  /\ UNCHANGED <<job, err, copyVars, closeErr, runCtx, ctx, chan, eaten,
                 produced, status, unread, peer>>

\* The server refuses the exec request, or the connection is lost.  Nobody
\* closes the session.
StartFails ==
  /\ apply = "opening" /\ job.streams = Opened
  /\ chan = "lost" \/ peer = "there"
  /\ Leave({"start"})
  /\ UNCHANGED <<job, copyVars, helperVars, ctx, chan, remoteVars, unread, peer>>

-----------------------------------------------------------------------------
(* RunContext after the start, and Apply's deferred drain.                 *)

\* Mutant: a session that ended without an exit status counts as success.
WaitReturnsLenient ==
  /\ apply = "waiting" /\ Over
  /\ runCtx' = "done"
  /\ IF status \in {"zero", "none"} THEN /\ apply' = "joining"
                                         /\ UNCHANGED <<err, inClosed>>
                                    ELSE Leave({status})
  /\ UNCHANGED <<job, copyVars, helper, closeErr, ctx, chan, remoteVars, unread, peer>>

\* session.Wait returns once the channel is closed; the deferred cancel runs,
\* and only a success waits for the helper.
WaitReturns ==
  /\ apply = "waiting" /\ Over
  /\ runCtx' = "done"
  /\ CASE status = "zero" -> apply' = "joining" /\ UNCHANGED <<err, inClosed>>
       [] status = "none" -> Leave({"missing"})
       [] OTHER           -> Leave({status})
  /\ UNCHANGED <<job, copyVars, helper, closeErr, ctx, chan, remoteVars, unread, peer>>

\* Mutant: the helper only tells, without closing the session.
HelperWakesIdle ==
  /\ helper = "watching"
  /\ ctx = "done" \/ runCtx = "done"
  /\ helper' = "sending"
  /\ closeErr' = "nil"
  /\ UNCHANGED <<job, callVars, copyVars, inClosed, runCtx, ctx, chan,
                 remoteVars, unread, peer>>

\* The helper closes the session; closing it again is io.EOF, and so it is once
\* the connection is over and the library has taken note of it.
HelperWakes ==
  /\ helper = "watching"
  /\ ctx = "done" \/ runCtx = "done"
  /\ helper' = "sending"
  /\ closeErr' \in CASE chan = "open"   -> {"nil"}
                     [] chan = "closed" -> {"EOF"}
                     [] chan = "lost"   -> {"EOF", "fail"}
  /\ chan' = IF chan = "open" THEN "closing" ELSE chan
  /\ UNCHANGED <<job, callVars, copyVars, inClosed, runCtx, ctx, remoteVars,
                 unread, peer>>

\* Mutant: RunContext returns nil without receiving from the helper.
JoinHelperNot ==
  /\ apply = "joining"
  /\ Leave({})
  /\ UNCHANGED <<job, copyVars, helperVars, ctx, chan, remoteVars, unread, peer>>

\* err = <-errChan; Apply lets io.EOF pass.
JoinHelper ==
  /\ apply = "joining" /\ helper = "sending"
  /\ helper' = "done"
  /\ Leave(IF closeErr = "fail" THEN {"close"} ELSE {})
  /\ UNCHANGED <<job, copyVars, closeErr, runCtx, ctx, chan, remoteVars, unread, peer>>

\* err = errors.Join(err, <-errChan), once for each copier.
Drain(s) ==
  /\ apply = "draining" /\ copier[s] = "sending"
  /\ copier' = [copier EXCEPT ![s] = "done"]
  /\ err' = err \cup (failed \cap {s})
  /\ UNCHANGED <<job, apply, failed, old, sink, fed, inClosed, helperVars, ctx,
                 chan, remoteVars, unread, peer>>

\* Mutant: the copier of stderr is not counted in goroutines.
ReturnEarly ==
  /\ apply = "draining"
  /\ \A s \in Opened \ {"stderr"} : copier[s] = "done"
  /\ apply' = "returned"
  /\ UNCHANGED <<job, err, copyVars, inClosed, helperVars, ctx, chan, remoteVars,
                 unread, peer>>

Return ==
  /\ apply = "draining"
  /\ \A s \in Opened : copier[s] = "done"
  /\ apply' = "returned"
  /\ UNCHANGED <<job, err, copyVars, inClosed, helperVars, ctx, chan, remoteVars,
                 unread, peer>>

-----------------------------------------------------------------------------
(* pipe: io.Copy between a stream's pipe and the caller's reader or writer *)

copyRest == <<job, callVars, helperVars, ctx, chan, remoteVars, peer>>

\* errChan <- err, an unbuffered channel: the copier waits for the drain.
EndCopy(s, ok) ==
  /\ copier' = [copier EXCEPT ![s] = "sending"]
  /\ failed' = IF ok THEN failed ELSE failed \cup {s}

FeedStdin ==
  /\ copier["stdin"] = "copying" /\ fed < job.given
  /\ chan = "open" /\ ~inClosed
  /\ fed - eaten < Window
  /\ fed' = fed + 1
  /\ UNCHANGED <<copyRest, copier, failed, old, sink, inClosed, unread>>

StdinEnds ==
  /\ copier["stdin"] = "copying" /\ fed = job.given /\ job.ends
  /\ EndCopy("stdin", TRUE)
  /\ UNCHANGED <<copyRest, old, sink, fed, inClosed, unread>>

\* A Write to a closed pipe or channel is io.EOF, which io.Copy passes on.  A
\* Write that waits for the window only notices that the channel is over.
StdinRefused ==
  /\ copier["stdin"] = "copying" /\ fed < job.given
  /\ Over \/ ((chan = "closing" \/ inClosed) /\ fed - eaten < Window)
  /\ EndCopy("stdin", FALSE)
  /\ UNCHANGED <<copyRest, old, sink, fed, inClosed, unread>>

\* Mutant: the copier reads on when there is nothing left.
ReadOutputPastEnd(o) ==
  /\ copier[o] = "copying"
  /\ copier' = [copier EXCEPT ![o] = "writing"]
  /\ unread' = [unread EXCEPT ![o] = @ - 1]
  /\ old' = [old EXCEPT ![o] = sink[WriterOf(o)]]
  /\ UNCHANGED <<copyRest, failed, sink, fed, inClosed>>

\* A chunk is read, and Write reads what the writer holds ...
ReadOutput(o) ==
  /\ copier[o] = "copying" /\ unread[o] > 0
  /\ copier' = [copier EXCEPT ![o] = "writing"]
  /\ unread' = [unread EXCEPT ![o] = @ - 1]
  /\ old' = [old EXCEPT ![o] = sink[WriterOf(o)]]
  /\ UNCHANGED <<copyRest, failed, sink, fed, inClosed>>

\* ... and stores the longer content, without a lock around the two.
StoreOutput(o) ==
  /\ copier[o] = "writing"
  /\ copier' = [copier EXCEPT ![o] = "copying"]
  /\ sink' = [sink EXCEPT ![WriterOf(o)] = [old[o] EXCEPT ![o] = @ + 1]]
  /\ UNCHANGED <<copyRest, failed, old, fed, inClosed, unread>>

WriterFails(o) ==
  /\ copier[o] = "writing" /\ o \in job.badWriters
  /\ EndCopy(o, FALSE)
  /\ UNCHANGED <<copyRest, old, sink, fed, inClosed, unread>>

\* The server has sent the end of the output, which comes after the data, or the
\* channel is over; and all is read.
OutputEnds(o) ==
  /\ copier[o] = "copying" /\ unread[o] = 0
  /\ Over \/ AllSent
  /\ EndCopy(o, TRUE)
  /\ UNCHANGED <<copyRest, old, sink, fed, inClosed, unread>>

-----------------------------------------------------------------------------
(* The server, the command and the network.                                *)

remoteRest == <<job, callVars, copyVars, inClosed, helperVars, ctx>>
Answers == peer = "there" /\ ~Over

Consume ==
  /\ Answers /\ remote = "running"
  /\ eaten < fed /\ eaten < job.wants
  /\ eaten' = eaten + 1
  /\ UNCHANGED <<remoteRest, chan, remote, produced, status, unread, peer>>

\* The server passes on what the command has written, the last of it perhaps
\* after the exit status.
Produce(o) ==
  /\ Answers /\ remote \in {"running", "exited"}
  /\ produced[o] < job.writes[o]
  /\ o \in job.streams => Total(unread) < Window
  /\ produced' = [produced EXCEPT ![o] = @ + 1]
  /\ unread' = IF o \in job.streams THEN [unread EXCEPT ![o] = @ + 1] ELSE unread
  /\ UNCHANGED <<remoteRest, chan, remote, eaten, status, peer>>

\* The command exits and its status arrives, before or after its output.
RemoteExits ==
  /\ Answers /\ remote = "running"
  /\ eaten = job.wants \/ (inClosed /\ eaten = fed)
  /\ remote' = "exited"
  /\ status' = job.exit
  /\ UNCHANGED <<remoteRest, chan, eaten, produced, unread, peer>>

\* The server closes the channel after the command and its output, or answers a
\* close, and what it has not sent by then it drops.
PeerCloses ==
  /\ Answers
  /\ AllSent \/ chan = "closing"
  /\ chan' = "closed"
  /\ remote' = IF remote = "running" THEN "killed" ELSE remote
  /\ UNCHANGED <<remoteRest, eaten, produced, status, unread, peer>>

PeerGoes ==
  /\ Answers
  /\ peer' = "gone"
  /\ UNCHANGED <<remoteRest, chan, remoteVars, unread>>

\* The connection breaks, or is closed under the command by Host.Close or by
\* the keepalive loop.
ConnLost ==
  /\ ~Over
  /\ chan' = "lost"
  /\ UNCHANGED <<remoteRest, remoteVars, unread, peer>>

CtxDone ==
  /\ ctx = "live"
  /\ ctx' = "done"
  /\ UNCHANGED <<job, callVars, copyVars, inClosed, helperVars, chan, remoteVars,
                 unread, peer>>

ApplyStep ==
  \/ NewCommand \/ Start \/ StartFails
  \/ WaitReturns \/ JoinHelper \/ Return
  \/ \E s \in Stream : OpenPipe(s) \/ Drain(s)

CopyStep ==
  \/ FeedStdin \/ StdinEnds \/ StdinRefused
  \/ \E o \in Output : ReadOutput(o) \/ StoreOutput(o) \/ WriterFails(o) \/ OutputEnds(o)

RemoteStep == Consume \/ RemoteExits \/ PeerCloses \/ \E o \in Output : Produce(o)

Next ==
  \/ ApplyStep \/ CopyStep \/ HelperWakes
  \/ RemoteStep
  \/ PeerGoes \/ ConnLost \/ CtxDone

Spec == Init /\ [][Next]_vars

\* Goroutines are scheduled; a server that answers lets the command go on;
\* with KeepAlive a silent peer costs the connection.
FairSpec ==
  /\ Spec
  /\ WF_vars(ApplyStep) /\ WF_vars(CopyStep) /\ WF_vars(HelperWakes)
  /\ WF_vars(RemoteStep)
  /\ WF_vars(peer = "gone" /\ job.keepAlive /\ ConnLost)

-----------------------------------------------------------------------------
(* Properties.                                                             *)

\* Every variable has its type.
TypeOK ==
  /\ job \in Jobs
  /\ apply \in {"new", "opening", "waiting", "joining", "draining", "returned"}
  /\ err \subseteq Stream \cup
       {"session", "pipe", "start", "missing", "one", "other", "close"}
  /\ copier \in [Stream -> {"none", "copying", "writing", "sending", "done"}]
  /\ failed \subseteq Stream
  /\ old \in [Output -> [Output -> Nat]] /\ sink \in [Writer -> [Output -> Nat]]
  /\ fed \in Nat /\ eaten \in Nat /\ inClosed \in BOOLEAN
  /\ helper \in {"none", "watching", "sending", "done"}
  /\ closeErr \in {"none", "nil", "EOF", "fail"}
  /\ runCtx \in {"live", "done"} /\ ctx \in {"live", "done"}
  /\ chan \in {"open", "closing", "closed", "lost"}
  /\ remote \in {"none", "running", "exited", "killed"}
  /\ produced \in [Output -> Nat] /\ unread \in [Output -> Nat]
  /\ status \in {"none", "zero", "one", "other"}
  /\ peer \in {"there", "gone"}

\* The server ended the session: neither the helper nor the network cut it short.
Uncut == chan = "closed" /\ closeErr # "nil"

\* When Apply returns nil every writer it was given holds everything that has
\* arrived: the copiers are drained after the command, not dropped with it, and
\* a failed Write is an error of Apply.  It is everything the command wrote
\* unless a cancellation or a loss came between its exit status and the end of
\* its output: Apply is then nil all the same.  (One writer for both outputs is
\* written by two copiers without a lock and may lose some.)
OutputComplete ==
  apply = "returned" /\ err = {} /\ ~ job.sameWriter =>
    \A o \in Outputs : LET written == sink[WriterOf(o)][o] IN
      /\ written = produced[o]
      /\ Uncut => written = job.writes[o]

\* pathTest's reading of Apply's result.
PathTest == IF err = {} THEN "exists" ELSE IF "one" \in err THEN "absent" ELSE "error"

\* "distinguishes 'the command ran and exited non-zero' from 'the command never
\* completed'" (ExitStatus): whatever a cancellation or a lost connection races
\* with, nil means exit status zero and an exit status in the error is that of
\* the command, so FileExists never answers for a test that did not run.
ExitStatusFaithful ==
  apply = "returned" =>
    /\ err = {} => status = "zero"
    /\ \A x \in {"one", "other"} : x \in err <=> status = x
    /\ PathTest = "absent" => remote = "exited" /\ job.exit = "one"

\* Apply leaves no copier behind, and a helper only after a command that
\* failed: RunContext then does not receive from the unbuffered channel the
\* helper sends on.
NothingLeftBehind ==
  apply = "returned" =>
    /\ \A s \in Stream : copier[s] \in {"none", "done"}
    /\ helper \in {"none", "done"} \/ err \cap {"missing", "one", "other"} # {}

\* What can hold Apply up for ever.  Only the last two end with the context.
HeldUp ==
  \/ peer = "gone" /\ ~job.keepAlive                       \* nothing notices
  \/ "stdin" \in job.streams /\ ~job.ends                  \* Read blocks
  \/ apply = "draining" /\ remote = "none" /\ chan = "open" \* session not closed
  \/ /\ ctx = "live"
     /\ \/ "stdin" \in job.streams /\ job.wants > job.given \* in closed too late
        \/ \E o \in Outputs \cap job.badWriters : job.writes[o] > Window

\* Apply returns, by itself or once its context is done, unless one of these
\* reasons holds it up: pipes, window, cancellation and drain do not otherwise
\* wait for each other.
ApplyReturns == []<>(apply = "returned" \/ HeldUp)

=============================================================================
