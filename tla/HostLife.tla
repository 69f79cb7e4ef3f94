------------------------------- MODULE HostLife -------------------------------
(***************************************************************************)
(* The life of the connections a Group owns, from the moment it is handed  *)
(* over: the keepalive loop of each host (startKeepAlive, keepAliveLoop),  *)
(* sshHost.Close and Group.Close, called concurrently and more than once.  *)
(* Hosts may share the connection to a jump, which belongs to the group.   *)
(***************************************************************************)
EXTENDS Naturals, FiniteSets

CONSTANTS
  Host,   \* the hosts of the group
  Jump,   \* its shared jump connections
  Direct, \* not through a jump
  Caller, \* calls of Close
  Group   \* what a call of Group.Close closes; others close one host

ASSUME LifeAssumption == Direct \notin Jump /\ Group \notin Host /\ Host \cap Jump = {}

VARIABLES
  via,        \* the jump of each host (never changes)
  keepAlive,  \* was KeepAlive given? (never changes)
  target,     \* what each call closes (never changes)
  conn,       \* each connection: up, silent (nobody answers), or over
  sftpClosed, \* the hosts whose SFTP client and agent connection were closed
  loop,       \* the goroutine of keepAliveLoop
  done,       \* the hosts whose done channel is closed
  ticking,    \* the hosts whose ticker runs
  onDead,     \* how often onDead was called (history)
  call,       \* where each call is
  at,         \* where its sshHost.Close of each host is
  sharedDone, \* the jumps it has closed
  errs,       \* the hosts and jumps whose close gave it an error
  troubled    \* has the network failed? (history)

inputs == <<via, keepAlive, target>>
vars == <<inputs, conn, sftpClosed, loop, done, ticking, onDead, call, at,
          sharedDone, errs, troubled>>

\* A tunnelled connection is no better than its jump's.
Over(h)  == conn[h] = "over" \/ (via[h] \in Jump /\ conn[via[h]] = "over")
Alive(h) == conn[h] = "up" /\ (via[h] \in Jump => conn[via[h]] = "up")

HostsOf(c) == IF target[c] = Group THEN Host ELSE {target[c]}

Init ==
  /\ via \in [Host -> Jump \cup {Direct}]
  /\ keepAlive \in BOOLEAN
  /\ target \in [Caller -> Host \cup {Group}]
  /\ conn = [x \in Host \cup Jump |-> "up"]
  /\ sftpClosed = {}
  /\ loop = [h \in Host |-> IF keepAlive THEN "select" ELSE "none"]
  /\ done = {}
  /\ ticking = IF keepAlive THEN Host ELSE {}
  /\ onDead = [h \in Host |-> 0]
  /\ call = [c \in Caller |-> "idle"]
  /\ at = [c \in Caller |-> [h \in Host |-> "start"]]
  /\ sharedDone = [c \in Caller |-> {}]
  /\ errs = [c \in Caller |-> {}]
  /\ troubled = FALSE

-----------------------------------------------------------------------------
(* keepAliveLoop                                                           *)

loopRest == <<inputs, sftpClosed, done, ticking, call, at, sharedDone, errs,
              troubled>>

\* A tick is there; select may prefer it to a closed done channel.
Ping(h) ==
  /\ loop[h] = "select" /\ h \in ticking
  /\ loop' = [loop EXCEPT ![h] = "pinging"]
  /\ UNCHANGED <<loopRest, conn, onDead>>

StopsOnDone(h) ==
  /\ loop[h] = "select" /\ h \in done
  /\ loop' = [loop EXCEPT ![h] = "ended"]
  /\ UNCHANGED <<loopRest, conn, onDead>>

PingAnswered(h) ==
  /\ loop[h] = "pinging" /\ Alive(h)
  /\ loop' = [loop EXCEPT ![h] = "select"]
  /\ UNCHANGED <<loopRest, conn, onDead>>

\* Mutant: a stop while the ping is under way is taken for its failure.
PingFailsOnDone(h) ==
  /\ loop[h] = "pinging" /\ (~Alive(h) \/ h \in done)
  /\ loop' = [loop EXCEPT ![h] = "dying"]
  /\ UNCHANGED <<loopRest, conn, onDead>>

\* SendRequest fails: the write fails, or the connection is over.
PingFails(h) ==
  /\ loop[h] = "pinging" /\ ~Alive(h)
  /\ loop' = [loop EXCEPT ![h] = "dying"]
  /\ UNCHANGED <<loopRest, conn, onDead>>

\* Mutant: the loop goes on after onDead.
OnDeadGoesOn(h) ==
  /\ loop[h] = "dying"
  /\ loop' = [loop EXCEPT ![h] = "select"]
  /\ conn' = [conn EXCEPT ![h] = "over"]
  /\ onDead' = [onDead EXCEPT ![h] = @ + 1]
  /\ UNCHANGED loopRest

\* Mutant: onDead does not close the client.
OnDeadLeavesOpen(h) ==
  /\ loop[h] = "dying"
  /\ loop' = [loop EXCEPT ![h] = "ended"]
  /\ onDead' = [onDead EXCEPT ![h] = @ + 1]
  /\ UNCHANGED <<loopRest, conn>>

\* onDead closes the client, and the loop returns.
OnDead(h) ==
  /\ loop[h] = "dying"
  /\ loop' = [loop EXCEPT ![h] = "ended"]
  /\ conn' = [conn EXCEPT ![h] = "over"]
  /\ onDead' = [onDead EXCEPT ![h] = @ + 1]
  /\ UNCHANGED loopRest

-----------------------------------------------------------------------------
(* sshHost.Close, as its own call or in a goroutine of Group.Close         *)

Go(c, h, pc) == at' = [at EXCEPT ![c][h] = pc]
Report(c, x, failed) ==
  errs' = IF failed THEN [errs EXCEPT ![c] = @ \cup {x}] ELSE errs

Call(c) ==
  /\ call[c] = "idle"
  /\ call' = [call EXCEPT ![c] = "hosts"]
  /\ UNCHANGED <<inputs, conn, sftpClosed, loop, done, ticking, onDead, at,
                 sharedDone, errs, troubled>>

Closing(c, h, pc) == call[c] = "hosts" /\ h \in HostsOf(c) /\ at[c][h] = pc

closeRest == <<inputs, loop, onDead, call, sharedDone, troubled>>

\* Mutant: the loop is stopped by a send on done instead of its close.
StopLoopBySend(c, h) ==
  /\ Closing(c, h, "start")
  /\ IF keepAlive /\ h \notin done
     THEN /\ loop[h] = "select"
          /\ done' = done \cup {h}
          /\ Go(c, h, "ticker")
     ELSE /\ h \notin ticking
          /\ Go(c, h, "sftp")
          /\ UNCHANGED done
  /\ UNCHANGED <<closeRest, conn, sftpClosed, ticking, errs>>

\* Mutant: stopping the loop only stops its ticker.
StopLoopTickerOnly(c, h) ==
  /\ Closing(c, h, "start")
  /\ Go(c, h, "sftp")
  /\ ticking' = ticking \ {h}
  /\ UNCHANGED <<closeRest, conn, sftpClosed, done, errs>>

\* stopKeepAlive: once.Do closes done; a second caller waits for the first.
StopLoop(c, h) ==
  /\ Closing(c, h, "start")
  /\ IF keepAlive /\ h \notin done
     THEN /\ done' = done \cup {h}
          /\ Go(c, h, "ticker")
     ELSE /\ h \notin ticking
          /\ Go(c, h, "sftp")
          /\ UNCHANGED done
  /\ UNCHANGED <<closeRest, conn, sftpClosed, ticking, errs>>

StopTicker(c, h) ==
  /\ Closing(c, h, "ticker")
  /\ ticking' = ticking \ {h}
  /\ Go(c, h, "sftp")
  /\ UNCHANGED <<closeRest, conn, sftpClosed, done, errs>>

\* agentConn.Close, and sftpClient.Close, which waits for the server to end
\* the SFTP session or for the connection to be over.
CloseSftp(c, h) ==
  /\ Closing(c, h, "sftp")
  /\ Alive(h) \/ Over(h)
  /\ sftpClosed' = sftpClosed \cup {h}
  /\ Go(c, h, "client")
  /\ Report(c, h, Over(h) \/ h \in sftpClosed)
  /\ UNCHANGED <<closeRest, conn, done, ticking>>

\* Mutant: a host closes the jump it was dialed through.
CloseClientAndJump(c, h) ==
  /\ Closing(c, h, "client")
  /\ conn' = [x \in Host \cup Jump |-> IF x \in {h, via[h]} THEN "over" ELSE conn[x]]
  /\ Go(c, h, "closed")
  /\ Report(c, h, Over(h))
  /\ UNCHANGED <<closeRest, sftpClosed, done, ticking>>

CloseClient(c, h) ==
  /\ Closing(c, h, "client")
  /\ conn' = [conn EXCEPT ![h] = "over"]
  /\ Go(c, h, "closed")
  /\ Report(c, h, Over(h))
  /\ UNCHANGED <<closeRest, sftpClosed, done, ticking>>

-----------------------------------------------------------------------------
(* Group.Close                                                             *)

callRest == <<inputs, sftpClosed, loop, done, ticking, onDead, at, troubled>>

\* Mutant: the jumps are closed without waiting for the hosts.
HostsClosedEarly(c) ==
  /\ call[c] = "hosts"
  /\ target[c] = Group \/ \A h \in HostsOf(c) : at[c][h] = "closed"
  /\ call' = [call EXCEPT ![c] = IF target[c] = Group THEN "shared" ELSE "returned"]
  /\ UNCHANGED <<callRest, conn, sharedDone, errs>>

\* wg.Wait; the close of a single host just returns.
HostsClosed(c) ==
  /\ call[c] = "hosts"
  /\ \A h \in HostsOf(c) : at[c][h] = "closed"
  /\ call' = [call EXCEPT ![c] = IF target[c] = Group THEN "shared" ELSE "returned"]
  /\ UNCHANGED <<callRest, conn, sharedDone, errs>>

CloseShared(c, j) ==
  /\ call[c] = "shared" /\ j \notin sharedDone[c]
  /\ conn' = [conn EXCEPT ![j] = "over"]
  /\ sharedDone' = [sharedDone EXCEPT ![c] = @ \cup {j}]
  /\ Report(c, j, conn[j] = "over")
  /\ UNCHANGED <<callRest, call>>

Return(c) ==
  /\ call[c] = "shared" /\ sharedDone[c] = Jump
  /\ call' = [call EXCEPT ![c] = "returned"]
  /\ UNCHANGED <<callRest, conn, sharedDone, errs>>

-----------------------------------------------------------------------------
(* The network.                                                            *)

NetworkSets(x, state) ==
  /\ conn' = [conn EXCEPT ![x] = state]
  /\ troubled' = TRUE
  /\ UNCHANGED <<inputs, sftpClosed, loop, done, ticking, onDead, call, at,
                 sharedDone, errs>>

\* A peer, or the way to it, goes away without a word.
GoesSilent(x) == conn[x] = "up" /\ NetworkSets(x, "silent")

Breaks(x) == conn[x] # "over" /\ NetworkSets(x, "over")

LoopStep(h) ==
  Ping(h) \/ StopsOnDone(h) \/ PingAnswered(h) \/ PingFails(h) \/ OnDead(h)

CloseStep(c, h) ==
  StopLoop(c, h) \/ StopTicker(c, h) \/ CloseSftp(c, h) \/ CloseClient(c, h)

GroupStep(c) == HostsClosed(c) \/ Return(c) \/ \E j \in Jump : CloseShared(c, j)

Next ==
  \/ \E h \in Host : LoopStep(h)
  \/ \E c \in Caller : \/ Call(c) \/ GroupStep(c)
                       \/ \E h \in Host : CloseStep(c, h)
  \/ \E x \in Host \cup Jump : GoesSilent(x) \/ Breaks(x)

Spec == Init /\ [][Next]_vars

\* Some call waits for an SFTP session to end.
Unanswered(x) ==
  \E c \in Caller, h \in Host : Closing(c, h, "sftp") /\ x \in {h, via[h]}

\* Goroutines are scheduled, the ticker ticks, and the kernel gives a silent
\* connection up once data it sent stays unacknowledged.
Fairness ==
  /\ \A h \in Host : WF_vars(LoopStep(h))
  /\ \A c \in Caller : WF_vars(GroupStep(c)) /\ \A h \in Host : WF_vars(CloseStep(c, h))
  /\ \A x \in Host \cup Jump : WF_vars(conn[x] = "silent" /\ Unanswered(x) /\ Breaks(x))

-----------------------------------------------------------------------------
(* Properties.                                                             *)

\* Every variable has its type; "onDead is invoked once" (startKeepAlive).
TypeOK ==
  /\ via \in [Host -> Jump \cup {Direct}] /\ keepAlive \in BOOLEAN
  /\ target \in [Caller -> Host \cup {Group}]
  /\ conn \in [Host \cup Jump -> {"up", "silent", "over"}]
  /\ sftpClosed \subseteq Host /\ done \subseteq Host /\ ticking \subseteq Host
  /\ troubled \in BOOLEAN
  /\ loop \in [Host -> {"none", "select", "pinging", "dying", "ended"}]
  /\ onDead \in [Host -> 0..1]
  /\ call \in [Caller -> {"idle", "hosts", "shared", "returned"}]
  /\ at \in [Caller -> [Host -> {"start", "ticker", "sftp", "client", "closed"}]]
  /\ sharedDone \in [Caller -> SUBSET Jump]
  /\ errs \in [Caller -> SUBSET (Host \cup Jump)]

\* "shared resources are closed sequentially after all hosts have been closed":
\* no call closes a jump while a host of the group is still connected, however
\* many calls are under way and whatever the loops do.
HostsBeforeJumps ==
  \A c \in Caller : sharedDone[c] # {} => \A h \in Host : conn[h] = "over"

\* "Closing an individual iago.Host closes only that host's tunnel": while the
\* network is well and no call closes the group, a host nobody closes answers.
OthersStayAlive ==
  ~troubled =>
    \A h \in Host :
      (\A c \in Caller : call[c] # "idle" => h \notin HostsOf(c)) => Alive(h)

\* The only call of Close, on a network that has not failed, returns nil: the
\* loops and the order of the closes give it no error of their own.
CleanCloseIsNil ==
  \A c \in Caller :
    ~troubled /\ (\A d \in Caller \ {c} : call[d] = "idle") => errs[c] = {}

\* Every call of Close returns, also when a peer is silent and when a call of
\* Group.Close and one of a host's Close meet in its once.Do.
CallsReturn == \A c \in Caller : (call[c] = "hosts") ~> (call[c] = "returned")

\* Once a call that closes a host has returned, its loop ends.
LoopsEnd ==
  \A c \in Caller, h \in Host :
    (call[c] = "returned" /\ h \in HostsOf(c)) ~> (loop[h] \in {"none", "ended"})

\* "if a keepalive fails, the connection is closed so any in-flight session
\* unblocks": a host that went silent is closed although nothing was sent on it
\* but the pings.
SilenceIsNoticed ==
  \A h \in Host : (keepAlive /\ ~Alive(h)) ~> Over(h)

-----------------------------------------------------------------------------
(* The inductive invariant behind the theorems of HostLifeProofs.          *)

\* The loop goes on only while onDead has not been called.
LoopInv == \A h \in Host : loop[h] # "ended" => onDead[h] = 0

\* A host that a call has closed is over, and a call goes beyond the hosts
\* only when it has closed all of its own; only Group.Close goes on to jumps.
CloseInv ==
  \A c \in Caller :
    /\ \A h \in Host : at[c][h] = "closed" => conn[h] = "over"
    /\ call[c] \in {"shared", "returned"} => \A h \in HostsOf(c) : at[c][h] = "closed"
    /\ call[c] \in {"idle", "hosts"} => sharedDone[c] = {}
    /\ target[c] # Group => sharedDone[c] = {} /\ call[c] # "shared"

LifeInv == TypeOK /\ LoopInv /\ CloseInv

=============================================================================
