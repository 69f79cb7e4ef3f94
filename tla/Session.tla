------------------------------- MODULE Session -------------------------------
(***************************************************************************)
(* The sessions of one host (ssh.go): Execute, and the commands of         *)
(* NewCommand that run without a context (Run, Start and Wait), opened     *)
(* concurrently.  The first one asks the server to forward the agent; the  *)
(* others wait for the answer and rely on it.  RunContext is in ShellRun.  *)
(*                                                                         *)
(* The channel, the server and the connection are the SSH library's and    *)
(* the network's: what they do is chosen freely, at each step.             *)
(***************************************************************************)
EXTENDS Naturals, FiniteSets

CONSTANTS
  Id,   \* the sessions
  Kinds \* how they are used: a set of functions from Id

ASSUME SessionAssumption == Kinds \subseteq [Id -> {"execute", "run", "startWait"}]

VARIABLES
  kind,         \* how each session is used               (never changes)
  forwardAgent, \* was the host dialed with forwarding?   (never changes)
  conn,         \* the connection: up, silent, or over
  once,         \* agentFwdOnce: free, running, or done
  requests,     \* history: how many forward requests were sent
  granted,      \* has the server granted the request?
  at,           \* where each session's caller is
  open,         \* the channels that are open on the client's side
  remote,       \* the command: none, running, exited, failed, or killed
  sawAgent,     \* the sessions whose command found the agent's socket
  cancelled,    \* the sessions of Execute whose context is done
  helper,       \* the goroutine Execute starts
  closed,       \* what its session.Close returned
  result,       \* what session.Run or session.Wait returned
  err,          \* the named result err, shared with the helper
  output        \* what has been read of the output: none, part, or all

inputs  == <<kind, forwardAgent>>
fwdVars == <<once, requests, granted>>
runVars == <<open, remote, sawAgent, output>>
helpVars == <<helper, closed>>
sessionVars == <<inputs, conn, fwdVars, at, runVars, cancelled, helpVars,
                 result, err>>

Place == {"newSession", "forward", "request", "spawn", "start", "wait", "assign",
          "close", "join", "returned"}

Init ==
  /\ kind \in Kinds
  /\ forwardAgent \in BOOLEAN
  /\ conn = "up"
  /\ once = "free" /\ requests = 0 /\ granted = FALSE
  /\ at = [s \in Id |-> "newSession"]
  /\ open = {} /\ sawAgent = {} /\ cancelled = {}
  /\ remote = [s \in Id |-> "none"]
  /\ helper = [s \in Id |-> "none"]
  /\ closed = [s \in Id |-> "none"]
  /\ result = [s \in Id |-> "none"]
  /\ err = [s \in Id |-> "nil"]
  /\ output = [s \in Id |-> "none"]

Go(s, place) == at' = [at EXCEPT ![s] = place]
GoStart(s)   == Go(s, IF kind[s] = "execute" THEN "spawn" ELSE "start")

-----------------------------------------------------------------------------
(* NewSession and requestAgentForwarding                                   *)

NewSession(s) ==
  /\ at[s] = "newSession" /\ conn # "silent"
  /\ \/ /\ conn = "up"
        /\ open' = open \cup {s}
        /\ IF forwardAgent THEN Go(s, "forward") ELSE GoStart(s)
        /\ UNCHANGED err
     \/ /\ Go(s, "returned")
        /\ err' = [err EXCEPT ![s] = "error"]
        /\ UNCHANGED open
  /\ UNCHANGED <<inputs, conn, fwdVars, remote, sawAgent, output, cancelled,
                 helpVars, result>>

\* Mutant: a flag in place of sync.Once, so that the others do not wait.
EnterOnceFlag(s) ==
  /\ at[s] = "forward"
  /\ \/ once # "free" /\ GoStart(s) /\ UNCHANGED <<once, requests>>
     \/ /\ once = "free" /\ Go(s, "request")
        /\ once' = "running" /\ requests' = requests + 1
  /\ UNCHANGED <<inputs, conn, granted, runVars, cancelled, helpVars, result, err>>

\* once.Do: the first one sends the request, the others wait until it is done.
EnterOnce(s) ==
  /\ at[s] = "forward"
  /\ \/ once = "done" /\ GoStart(s) /\ UNCHANGED <<once, requests>>
     \/ /\ once = "free" /\ Go(s, "request")
        /\ once' = "running" /\ requests' = requests + 1
  /\ UNCHANGED <<inputs, conn, granted, runVars, cancelled, helpVars, result, err>>

\* The answer: granted, denied, or no answer any more.  None of them ends the
\* session, and each of them uses the Once up.
RequestAnswered(s) ==
  /\ at[s] = "request" /\ conn # "silent"
  /\ granted' \in (IF conn = "up" THEN BOOLEAN ELSE {FALSE})
  /\ once' = "done"
  /\ GoStart(s)
  /\ UNCHANGED <<inputs, conn, requests, runVars, cancelled, helpVars, result, err>>

-----------------------------------------------------------------------------
(* session.Start and session.Wait                                          *)

\* Execute starts its helper before it calls Run.
SpawnHelper(s) ==
  /\ at[s] = "spawn"
  /\ helper' = [helper EXCEPT ![s] = "sleeping"]
  /\ Go(s, "start")
  /\ UNCHANGED <<inputs, conn, fwdVars, runVars, cancelled, closed, result, err>>

\* Where a caller goes with the result of Run, or of Start if that failed: the
\* Start of a command returns as it is, nobody closes the session.
Answer(s, r) ==
  /\ result' = [result EXCEPT ![s] = r]
  /\ IF kind[s] = "startWait" /\ at[s] = "start"
     THEN Go(s, "returned") /\ err' = [err EXCEPT ![s] = r]
     ELSE Go(s, "assign") /\ UNCHANGED err

\* The exec request: a channel that was closed before it is an error.
Start(s) ==
  /\ at[s] = "start" /\ conn # "silent"
  /\ \/ /\ conn = "up" /\ s \in open
        /\ remote' = [remote EXCEPT ![s] = "running"]
        /\ sawAgent' = IF granted THEN sawAgent \cup {s} ELSE sawAgent
        /\ Go(s, "wait")
        /\ UNCHANGED <<result, err>>
     \/ /\ Answer(s, "error")
        /\ UNCHANGED <<remote, sawAgent>>
  /\ UNCHANGED <<inputs, conn, fwdVars, open, output, cancelled, helpVars>>

Exits(s) ==
  /\ remote[s] = "running" /\ conn = "up"
  /\ remote' \in {[remote EXCEPT ![s] = status] : status \in {"exited", "failed"}}
  /\ UNCHANGED <<inputs, conn, fwdVars, at, open, sawAgent, output, cancelled,
                 helpVars, result, err>>

\* The server ends a command whose channel the client closed.
Killed(s) ==
  /\ remote[s] = "running" /\ conn = "up" /\ s \notin open
  /\ remote' = [remote EXCEPT ![s] = "killed"]
  /\ UNCHANGED <<inputs, conn, fwdVars, at, open, sawAgent, output, cancelled,
                 helpVars, result, err>>

\* The channel is over on both sides.  A server that closes it by itself has sent
\* the status and all the output; when the connection is lost, or the client has
\* closed first, either may have arrived without the other.
WaitReturns(s) ==
  /\ at[s] = "wait"
  /\ \E read \in {"part", "all"}, r \in {"nil", "error"} :
       /\ r = "nil" => remote[s] = "exited"
       /\ read = "all" => remote[s] \in {"exited", "failed"}
       /\ \/ conn = "up" /\ s \in open
             /\ read = "all" /\ (remote[s] = "exited" => r = "nil")
          \/ conn = "up" /\ s \notin open /\ remote[s] # "running"
          \/ conn = "over"
       /\ output' = [output EXCEPT ![s] = read]
       /\ Answer(s, r)
  /\ open' = open \ {s}
  /\ UNCHANGED <<inputs, conn, fwdVars, remote, sawAgent, cancelled, helpVars>>

-----------------------------------------------------------------------------
(* The result                                                              *)

\* err = session.Run(cmd), or the return statement of Run and Wait.
Assign(s) ==
  /\ at[s] = "assign"
  /\ err' = [err EXCEPT ![s] = result[s]]
  /\ Go(s, IF kind[s] = "execute" THEN "join" ELSE "close")
  /\ UNCHANGED <<inputs, conn, fwdVars, runVars, cancelled, helpVars, result>>

\* session.Close: io.EOF once the channel is over on both sides, an error when
\* the connection is.
CloseOutcomes(s) ==
  IF conn = "over" THEN {"EOF", "error"} ELSE IF s \in open THEN {"nil"} ELSE {"EOF"}

\* Mutant: the deferred close assigns its own result to the named one.
DeferredCloseAssigns(s) ==
  /\ at[s] = "close"
  /\ \E c \in CloseOutcomes(s) :
       err' = [err EXCEPT ![s] = IF c = "EOF" THEN "nil" ELSE c]
  /\ open' = open \ {s}
  /\ Go(s, "returned")
  /\ UNCHANGED <<inputs, conn, fwdVars, remote, sawAgent, output, cancelled,
                 helpVars, result>>

\* The safeClose that Run and Wait defer.
DeferredClose(s) ==
  /\ at[s] = "close"
  /\ \E c \in CloseOutcomes(s) :
       err' = IF err[s] = "nil" /\ c = "error" THEN [err EXCEPT ![s] = c] ELSE err
  /\ open' = open \ {s}
  /\ Go(s, "returned")
  /\ UNCHANGED <<inputs, conn, fwdVars, remote, sawAgent, output, cancelled,
                 helpVars, result>>

\* Mutant: Execute does not cancel its context before it waits for the helper.
HelperWakesCancelled(s) ==
  /\ helper[s] = "sleeping" /\ s \in cancelled
  /\ \E c \in CloseOutcomes(s) : closed' = [closed EXCEPT ![s] = c]
  /\ open' = open \ {s}
  /\ helper' = [helper EXCEPT ![s] = "check"]
  /\ UNCHANGED <<inputs, conn, fwdVars, at, remote, sawAgent, output, cancelled,
                 result, err>>

\* Execute's helper wakes when the context is done or Execute cancels it, and
\* calls safeClose: it closes the session, looks at err, and sets it.
HelperWakes(s) ==
  /\ helper[s] = "sleeping" /\ (s \in cancelled \/ at[s] = "join")
  /\ \E c \in CloseOutcomes(s) : closed' = [closed EXCEPT ![s] = c]
  /\ open' = open \ {s}
  /\ helper' = [helper EXCEPT ![s] = "check"]
  /\ UNCHANGED <<inputs, conn, fwdVars, at, remote, sawAgent, output, cancelled,
                 result, err>>

HelperChecks(s) ==
  /\ helper[s] = "check"
  /\ helper' = [helper EXCEPT ![s] = IF err[s] # "nil" \/ closed[s] = "EOF"
                                     THEN "done" ELSE "set"]
  /\ UNCHANGED <<inputs, conn, fwdVars, at, runVars, cancelled, closed, result, err>>

HelperSets(s) ==
  /\ helper[s] = "set"
  /\ err' = [err EXCEPT ![s] = closed[s]]
  /\ helper' = [helper EXCEPT ![s] = "done"]
  /\ UNCHANGED <<inputs, conn, fwdVars, at, runVars, cancelled, closed, result>>

\* <-c
Join(s) ==
  /\ at[s] = "join" /\ helper[s] = "done"
  /\ Go(s, "returned")
  /\ UNCHANGED <<inputs, conn, fwdVars, runVars, cancelled, helpVars, result, err>>

-----------------------------------------------------------------------------
(* The environment                                                         *)

Cancel(s) ==
  /\ kind[s] = "execute" /\ s \notin cancelled /\ at[s] # "returned"
  /\ cancelled' = cancelled \cup {s}
  /\ UNCHANGED <<inputs, conn, fwdVars, at, runVars, helpVars, result, err>>

ConnFails ==
  /\ \/ conn = "up" /\ conn' \in {"silent", "over"}
     \/ conn = "silent" /\ conn' = "over"
  /\ UNCHANGED <<inputs, fwdVars, at, runVars, cancelled, helpVars, result, err>>

Caller(s) ==
  \/ NewSession(s) \/ EnterOnce(s) \/ RequestAnswered(s) \/ SpawnHelper(s) \/ Start(s)
  \/ WaitReturns(s) \/ Assign(s) \/ DeferredClose(s) \/ Join(s)
Helper(s) == HelperWakes(s) \/ HelperChecks(s) \/ HelperSets(s)

Next ==
  \/ \E s \in Id : Caller(s) \/ Helper(s) \/ Exits(s) \/ Killed(s) \/ Cancel(s)
  \/ ConnFails

Spec == Init /\ [][Next]_sessionVars

\* The scheduler forgets no goroutine, and a server that answers ends the
\* commands it is told to end.  A command need not exit by itself.
Fairness ==
  \A s \in Id : WF_sessionVars(Caller(s)) /\ WF_sessionVars(Helper(s))
                /\ WF_sessionVars(Killed(s))
FairSpec == Spec /\ Fairness

-----------------------------------------------------------------------------
TypeOK ==
  /\ kind \in Kinds /\ forwardAgent \in BOOLEAN
  /\ conn \in {"up", "silent", "over"}
  /\ once \in {"free", "running", "done"} /\ requests \in Nat /\ granted \in BOOLEAN
  /\ at \in [Id -> Place]
  /\ open \subseteq Id /\ sawAgent \subseteq Id /\ cancelled \subseteq Id
  /\ remote \in [Id -> {"none", "running", "exited", "failed", "killed"}]
  /\ helper \in [Id -> {"none", "sleeping", "check", "set", "done"}]
  /\ closed \in [Id -> {"none", "nil", "EOF", "error"}]
  /\ result \in [Id -> {"none", "nil", "error"}]
  /\ err \in [Id -> {"nil", "EOF", "error"}]
  /\ output \in [Id -> {"none", "part", "all"}]

Started(s) == remote[s] # "none"

\* "The request is sent on the first session only", and later sessions "ride on
\* the connection-wide grant" (requestAgentForwarding, ssh.go:587-592; the doc of
\* ForwardAgent, iago.go:133, has each session request it): whatever the order
\* in which sessions are opened, at most one request is sent, no command starts
\* before it is answered, and one answer holds for all commands.
OneForwardRequest ==
  /\ requests <= 1 /\ (~ forwardAgent => requests = 0)
  /\ once = "running" <=> \E s \in Id : at[s] = "request"
  /\ forwardAgent => \A s \in Id : Started(s) => once = "done"
  /\ sawAgent = {s \in Id : Started(s) /\ granted}

\* Execute is joined by its helper; no session that returned holds its channel,
\* but for a Start that was refused: a CmdRunner has no Close.
SessionsClosed ==
  \A s \in Id : at[s] = "returned" =>
    /\ helper[s] \in {"none", "done"}
    /\ s \in open => kind[s] = "startWait" /\ ~ Started(s) /\ err[s] = "error"

SessionInv == TypeOK /\ OneForwardRequest /\ SessionsClosed

\* A nil error means that the command exited with status 0, and that its output
\* is complete unless the connection was lost after the status: safeClose, the
\* other sessions and the agent never make it anything less.  Of an Execute
\* whose context was done this is not said.
NilIsSuccess ==
  \A s \in Id \ cancelled :
    at[s] = "returned" /\ err[s] = "nil" =>
      remote[s] = "exited" /\ (output[s] = "all" \/ conn = "over")

\* "Execute executes the given command and returns the output": without an
\* error, then, the command was executed to its end.
ExecuteCompletes ==
  \A s \in Id :
    kind[s] = "execute" /\ at[s] = "returned" /\ err[s] = "nil" => remote[s] = "exited"

\* Every session comes to an end when the connection does or the command, and
\* Execute when its context does, unless the host is silent: the forward request
\* and the wait have no deadline, and one silent request holds up all sessions.
SessionsEnd ==
  \A s \in Id :
    (conn = "over" \/ s \in cancelled \/ remote[s] \in {"exited", "failed", "killed"})
      ~> (at[s] = "returned" \/ conn = "silent")

=============================================================================
