---------------------------- MODULE HostLifeProofs ----------------------------
(***************************************************************************)
(* Theorems about HostLife, for any hosts, jumps and calls of Close.       *)
(***************************************************************************)
EXTENDS HostLife, TLAPS

\* The initial state satisfies the invariant.
LEMMA InitInv == Init => LifeInv
<1> SUFFICES ASSUME Init PROVE LifeInv
  OBVIOUS
<1>1. TypeOK
  <2>1. loop \in [Host -> {"none", "select", "pinging", "dying", "ended"}]
    BY DEF Init
  <2>2. at \in [Caller -> [Host -> {"start", "ticker", "sftp", "client", "closed"}]]
    BY DEF Init
  <2>3. conn \in [Host \cup Jump -> {"up", "silent", "over"}] /\ onDead \in [Host -> 0..1]
    BY DEF Init
  <2>4. ticking \subseteq Host
    BY DEF Init
  <2>5. call \in [Caller -> {"idle", "hosts", "shared", "returned"}]
    BY DEF Init
  <2>6. sharedDone \in [Caller -> SUBSET Jump] /\ errs \in [Caller -> SUBSET (Host \cup Jump)]
    BY DEF Init
  <2> QED
    BY <2>1, <2>2, <2>3, <2>4, <2>5, <2>6 DEF Init, TypeOK
<1>2. LoopInv /\ CloseInv
  BY DEF Init, LoopInv, CloseInv
<1> QED
  BY <1>1, <1>2 DEF LifeInv

\* Type correctness of the steps of the keepalive loops.
LEMMA LoopType ==
  ASSUME LifeInv, NEW h \in Host, LoopStep(h)
  PROVE  TypeOK'
<1> USE DEF LifeInv, TypeOK, loopRest, inputs
<1>1. CASE Ping(h)
  BY <1>1 DEF Ping
<1>2. CASE StopsOnDone(h)
  BY <1>2 DEF StopsOnDone
<1>3. CASE PingAnswered(h)
  BY <1>3 DEF PingAnswered
<1>4. CASE PingFails(h)
  BY <1>4 DEF PingFails
<1>5. CASE OnDead(h)
  BY <1>5 DEF OnDead, LoopInv
<1> QED
  BY <1>1, <1>2, <1>3, <1>4, <1>5 DEF LoopStep

\* Type correctness of the steps of sshHost.Close.
LEMMA CloseType ==
  ASSUME LifeInv, NEW c \in Caller, NEW h \in Host, CloseStep(c, h)
  PROVE  TypeOK'
<1> USE DEF LifeInv, TypeOK, closeRest, inputs, Closing, Go, Report
<1>1. CASE StopLoop(c, h)
  <2>1. done' \in {done, done \cup {h}}
    BY <1>1, Zenon DEF StopLoop
  <2>2. Go(c, h, "ticker") \/ Go(c, h, "sftp")
    BY <1>1, Zenon DEF StopLoop
  <2>3. UNCHANGED <<closeRest, conn, sftpClosed, ticking, errs>>
    BY <1>1 DEF StopLoop
  <2>4. done' \subseteq Host
    BY <2>1
  <2>5. at' \in [Caller -> [Host -> {"start", "ticker", "sftp", "client", "closed"}]]
    <3>1. CASE Go(c, h, "ticker")
      BY <3>1
    <3>2. CASE Go(c, h, "sftp")
      BY <3>2
    <3> QED
      BY <2>2, <3>1, <3>2
  <2>6. /\ UNCHANGED <<via, keepAlive, target, loop, onDead, call, sharedDone, troubled>>
        /\ UNCHANGED <<conn, sftpClosed, ticking, errs>>
    BY <2>3
  <2>7. TypeOK
    OBVIOUS
  <2> HIDE DEF TypeOK, LifeInv, Go, Closing
  <2> QED
    BY <2>4, <2>5, <2>6, <2>7 DEF TypeOK
<1>2. CASE StopTicker(c, h)
  BY <1>2 DEF StopTicker
<1>3. CASE CloseSftp(c, h)
  BY <1>3 DEF CloseSftp
<1>4. CASE CloseClient(c, h)
  BY <1>4 DEF CloseClient
<1> QED
  BY <1>1, <1>2, <1>3, <1>4 DEF CloseStep

\* Type correctness of the steps of Group.Close.
LEMMA GroupType ==
  ASSUME LifeInv, NEW c \in Caller, Call(c) \/ GroupStep(c)
  PROVE  TypeOK'
<1> USE DEF LifeInv, TypeOK, callRest, inputs, Report
<1>1. CASE Call(c)
  BY <1>1 DEF Call
<1>2. CASE HostsClosed(c)
  BY <1>2 DEF HostsClosed
<1>3. CASE Return(c)
  BY <1>3 DEF Return
<1>4. ASSUME NEW j \in Jump, CloseShared(c, j)
      PROVE  TypeOK'
  BY <1>4 DEF CloseShared
<1> QED
  BY <1>1, <1>2, <1>3, <1>4 DEF GroupStep

\* Type correctness of what the network does.
LEMMA NetworkType ==
  ASSUME LifeInv, NEW x \in Host \cup Jump, GoesSilent(x) \/ Breaks(x)
  PROVE  TypeOK'
BY DEF LifeInv, TypeOK, inputs, GoesSilent, Breaks, NetworkSets

\* Every step of the system keeps the types.
LEMMA NextType == LifeInv /\ [Next]_vars => TypeOK'
<1> SUFFICES ASSUME LifeInv, [Next]_vars PROVE TypeOK'
  OBVIOUS
<1>1. CASE UNCHANGED vars
  BY <1>1 DEF LifeInv, TypeOK, vars, inputs
<1>2. CASE Next
  BY <1>2, LoopType, CloseType, GroupType, NetworkType DEF Next
<1> QED
  BY <1>1, <1>2

\* onDead is only called by a loop that then ends.
LEMMA NextLoop == LifeInv /\ [Next]_vars => LoopInv'
<1> SUFFICES ASSUME LifeInv, [Next]_vars PROVE LoopInv'
  OBVIOUS
<1> USE DEF LifeInv, TypeOK, LoopInv
<1>1. CASE UNCHANGED vars
  BY <1>1 DEF vars
<1>2. ASSUME NEW h \in Host, LoopStep(h)
      PROVE  LoopInv'
  BY <1>2 DEF LoopStep, Ping, StopsOnDone, PingAnswered, PingFails, OnDead, loopRest
<1>3. ASSUME NEW c \in Caller, NEW h \in Host, CloseStep(c, h)
      PROVE  LoopInv'
  BY <1>3 DEF CloseStep, StopLoop, StopTicker, CloseSftp, CloseClient, closeRest
<1>4. ASSUME NEW c \in Caller, Call(c) \/ GroupStep(c)
      PROVE  LoopInv'
  BY <1>4 DEF Call, GroupStep, HostsClosed, Return, CloseShared, callRest
<1>5. ASSUME NEW x \in Host \cup Jump, GoesSilent(x) \/ Breaks(x)
      PROVE  LoopInv'
  BY <1>5 DEF GoesSilent, Breaks, NetworkSets
<1> QED
  BY <1>1, <1>2, <1>3, <1>4, <1>5 DEF Next

\* A connection that is over stays over: nothing reopens it.
LEMMA OverStays ==
  ASSUME LifeInv, [Next]_vars, NEW y \in Host \cup Jump, conn[y] = "over"
  PROVE  conn'[y] = "over"
<1> USE DEF LifeInv, TypeOK
<1>1. CASE UNCHANGED vars
  BY <1>1 DEF vars
<1>2. ASSUME NEW h \in Host, LoopStep(h)
      PROVE  conn'[y] = "over"
  BY <1>2 DEF LoopStep, Ping, StopsOnDone, PingAnswered, PingFails, OnDead, loopRest
<1>3. ASSUME NEW c \in Caller, NEW h \in Host, CloseStep(c, h)
      PROVE  conn'[y] = "over"
  BY <1>3 DEF CloseStep, StopLoop, StopTicker, CloseSftp, CloseClient, closeRest
<1>4. ASSUME NEW c \in Caller, Call(c) \/ GroupStep(c)
      PROVE  conn'[y] = "over"
  BY <1>4 DEF Call, GroupStep, HostsClosed, Return, CloseShared, callRest
<1>5. ASSUME NEW x \in Host \cup Jump, GoesSilent(x) \/ Breaks(x)
      PROVE  conn'[y] = "over"
  BY <1>5 DEF GoesSilent, Breaks, NetworkSets
<1> QED
  BY <1>1, <1>2, <1>3, <1>4, <1>5 DEF Next

\* What each call has closed stays closed, and no call overtakes its hosts.
LEMMA NextClose == LifeInv /\ [Next]_vars => CloseInv'
<1> SUFFICES ASSUME LifeInv, [Next]_vars PROVE CloseInv'
  OBVIOUS
<1>a. \A y \in Host \cup Jump : conn[y] = "over" => conn'[y] = "over"
  BY OverStays
<1>b. TypeOK /\ CloseInv
  BY DEF LifeInv
<1>c. \A c \in Caller : HostsOf(c) \subseteq Host
  BY <1>b DEF HostsOf, TypeOK
<1>1. ASSUME UNCHANGED <<target, call, at, sharedDone>>
      PROVE  CloseInv'
  BY <1>1, <1>a, <1>b DEF CloseInv, HostsOf
<1>2. ASSUME NEW h \in Host, LoopStep(h)
      PROVE  CloseInv'
  BY <1>2, <1>1 DEF LoopStep, Ping, StopsOnDone, PingAnswered, PingFails, OnDead,
                    loopRest, inputs
<1>3. ASSUME NEW c \in Caller, NEW h \in Host, CloseStep(c, h)
      PROVE  CloseInv'
  <2>1. UNCHANGED <<target, call, sharedDone>> /\ call[c] = "hosts"
    BY <1>3 DEF CloseStep, StopLoop, StopTicker, CloseSftp, CloseClient, Closing,
                closeRest, inputs
  <2>2. PICK pc \in {"ticker", "sftp", "client", "closed"} : Go(c, h, pc)
    BY <1>3 DEF CloseStep, StopLoop, StopTicker, CloseSftp, CloseClient
  <2>3. pc = "closed" => conn'[h] = "over"
    BY <1>3, <1>b, <2>2 DEF CloseStep, StopLoop, StopTicker, CloseSftp, CloseClient,
                            Go, TypeOK
  <2>4. \A d \in Caller, g \in Host : at'[d][g] = "closed" => conn'[g] = "over"
    BY <2>2, <2>3, <1>a, <1>b DEF Go, CloseInv, TypeOK
  <2>5. \A d \in Caller \ {c} : at'[d] = at[d]
    BY <2>2, <1>b DEF Go, TypeOK
  <2> QED
    BY <2>1, <2>4, <2>5, <1>b DEF CloseInv, HostsOf
<1>4. ASSUME NEW c \in Caller, Call(c) \/ GroupStep(c)
      PROVE  CloseInv'
  <2> USE <1>a, <1>b, <1>c DEF CloseInv, HostsOf, TypeOK
  <2>1. CASE Call(c)
    BY <2>1 DEF Call, inputs
  <2>2. CASE HostsClosed(c)
    BY <2>2 DEF HostsClosed, callRest, inputs
  <2>3. CASE Return(c)
    BY <2>3 DEF Return, callRest, inputs
  <2>4. ASSUME NEW j \in Jump, CloseShared(c, j)
        PROVE  CloseInv'
    BY <2>4 DEF CloseShared, callRest, inputs
  <2> QED
    BY <1>4, <2>1, <2>2, <2>3, <2>4 DEF GroupStep
<1>5. ASSUME NEW x \in Host \cup Jump, GoesSilent(x) \/ Breaks(x)
      PROVE  CloseInv'
  BY <1>5, <1>1 DEF GoesSilent, Breaks, NetworkSets, inputs
<1>6. CASE UNCHANGED vars
  BY <1>6, <1>1 DEF vars, inputs
<1> QED
  BY <1>2, <1>3, <1>4, <1>5, <1>6 DEF Next

\* Whatever hosts, jumps, loops and calls of Close there are: a loop goes on only
\* while onDead has not been called, and what a call has closed stays over.
THEOREM LifeInvAlways == Spec => []LifeInv
<1>1. LifeInv /\ [Next]_vars => LifeInv'
  BY NextType, NextLoop, NextClose DEF LifeInv
<1> QED
  BY InitInv, <1>1, PTL DEF Spec

\* Type correctness of the connections, loops and calls (startKeepAlive,
\* sshHost.Close, Group.Close); it includes that onDead is invoked once.
THEOREM TypeCorrect == Spec => []TypeOK
<1>1. LifeInv => TypeOK
  BY DEF LifeInv
<1> QED
  BY LifeInvAlways, <1>1, PTL

\* Group.Close closes its jumps after all hosts, however many calls of Close
\* there are and whatever the loops and the network do.
THEOREM HostsBeforeJumpsAlways == Spec => []HostsBeforeJumps
<1>1. LifeInv => HostsBeforeJumps
  <2> SUFFICES ASSUME LifeInv, NEW c \in Caller, sharedDone[c] # {}, NEW h \in Host
               PROVE  conn[h] = "over"
    BY DEF HostsBeforeJumps
  <2>1. target[c] = Group /\ call[c] \in {"shared", "returned"}
    BY DEF LifeInv, TypeOK, CloseInv
  <2>2. at[c][h] = "closed"
    BY <2>1 DEF LifeInv, CloseInv, HostsOf
  <2> QED
    BY <2>2 DEF LifeInv, CloseInv
<1> QED
  BY LifeInvAlways, <1>1, PTL

-----------------------------------------------------------------------------
(* What the calls of Close alone can do to a connection.                   *)

\* A call that closes host h is under way or has returned.
Reached(h) == \E c \in Caller : call[c] # "idle" /\ h \in HostsOf(c)

\* On a network that has not failed only a call that closes the host, or closes
\* the group with its jumps, ends a connection; and a keepalive loop gives up
\* only on a host whose connection has so ended.
ReachedInv ==
  ~troubled =>
    /\ \A h \in Host : conn[h] # "up" \/ loop[h] = "dying" => Reached(h)
    /\ \A j \in Jump : conn[j] # "up" => \A h \in Host : Reached(h)

\* Every other call of Close is still to come.
Lone(c) == ~troubled /\ \A d \in Caller \ {c} : call[d] = "idle"

\* Then what is closed has been closed by that call, in its order, once.
LoneInv ==
  \A c \in Caller : Lone(c) =>
    /\ \A h \in Host : conn[h] # "up" \/ loop[h] = "dying" => at[c][h] = "closed"
    /\ \A j \in Jump : conn[j] # "up" => j \in sharedDone[c]
    /\ \A h \in sftpClosed : at[c][h] \in {"client", "closed"}
    /\ errs[c] = {}

\* A call that is under way stays under way, and so a host that it reaches.
LEMMA ReachedStays ==
  ASSUME LifeInv, [Next]_vars
  PROVE  /\ UNCHANGED <<via, target>>
         /\ \A c \in Caller : call[c] # "idle" => call'[c] # "idle"
         /\ \A h \in Host : Reached(h) => Reached(h)'
         /\ troubled => troubled'
<1>1. /\ UNCHANGED <<via, target>>
      /\ \A c \in Caller : call[c] # "idle" => call'[c] # "idle"
      /\ troubled => troubled'
  <2> USE DEF LifeInv, TypeOK, inputs
  <2>1. CASE UNCHANGED vars
    BY <2>1 DEF vars
  <2>2. ASSUME NEW h \in Host, LoopStep(h)
        PROVE  UNCHANGED <<via, target, call, troubled>>
    BY <2>2 DEF LoopStep, Ping, StopsOnDone, PingAnswered, PingFails, OnDead, loopRest
  <2>3. ASSUME NEW c \in Caller, NEW h \in Host, CloseStep(c, h)
        PROVE  UNCHANGED <<via, target, call, troubled>>
    BY <2>3 DEF CloseStep, StopLoop, StopTicker, CloseSftp, CloseClient, closeRest
  <2>4. ASSUME NEW c \in Caller, Call(c) \/ GroupStep(c)
        PROVE  /\ UNCHANGED <<via, target, troubled>>
               /\ \A d \in Caller : call[d] # "idle" => call'[d] # "idle"
    BY <2>4 DEF Call, GroupStep, HostsClosed, Return, CloseShared, callRest
  <2>5. ASSUME NEW x \in Host \cup Jump, GoesSilent(x) \/ Breaks(x)
        PROVE  UNCHANGED <<via, target, call>> /\ troubled'
    BY <2>5 DEF GoesSilent, Breaks, NetworkSets
  <2> QED
    BY <2>1, <2>2, <2>3, <2>4, <2>5 DEF Next
<1>2. \A c \in Caller : HostsOf(c)' = HostsOf(c)
  BY <1>1 DEF HostsOf
<1> QED
  BY <1>1, <1>2 DEF Reached

\* Every step keeps the reasons why a connection is over.
LEMMA NextReached == LifeInv /\ ReachedInv /\ [Next]_vars => ReachedInv'
<1> SUFFICES ASSUME LifeInv, ReachedInv, [Next]_vars, ~ troubled'
             PROVE  /\ \A h \in Host : conn'[h] # "up" \/ loop'[h] = "dying" => Reached(h)'
                    /\ \A j \in Jump : conn'[j] # "up" => \A h \in Host : Reached(h)'
  BY DEF ReachedInv
<1>a. /\ ~ troubled /\ via' = via
      /\ \A h \in Host : Reached(h) => Reached(h)'
  BY ReachedStays
<1>b. /\ \A h \in Host : conn[h] # "up" \/ loop[h] = "dying" => Reached(h)
      /\ \A j \in Jump : conn[j] # "up" => \A h \in Host : Reached(h)
  BY <1>a DEF ReachedInv
<1>c. Host \cap Jump = {} /\ TypeOK
  BY LifeAssumption DEF LifeInv
<1>1. CASE UNCHANGED <<conn, loop>>
  BY <1>1, <1>a, <1>b
<1>2. ASSUME NEW h \in Host, LoopStep(h)
      PROVE  /\ \A g \in Host : conn'[g] # "up" \/ loop'[g] = "dying" => Reached(g)
             /\ \A j \in Jump : conn'[j] # "up" => \A g \in Host : Reached(g)
  <2> USE <1>b, <1>c DEF TypeOK
  <2>1. CASE Ping(h) \/ StopsOnDone(h) \/ PingAnswered(h)
    BY <2>1 DEF Ping, StopsOnDone, PingAnswered
  <2>2. CASE PingFails(h)
    <3>1. Reached(h)
      BY <2>2 DEF PingFails, Alive
    <3> QED
      BY <2>2, <3>1 DEF PingFails
  <2>3. CASE OnDead(h)
    BY <2>3 DEF OnDead
  <2> QED
    BY <1>2, <2>1, <2>2, <2>3 DEF LoopStep
<1>3. ASSUME NEW c \in Caller, NEW h \in Host, CloseStep(c, h)
      PROVE  /\ \A g \in Host : conn'[g] # "up" \/ loop'[g] = "dying" => Reached(g)
             /\ \A j \in Jump : conn'[j] # "up" => \A g \in Host : Reached(g)
  <2>1. Reached(h)
    BY <1>3 DEF CloseStep, StopLoop, StopTicker, CloseSftp, CloseClient, Closing, Reached
  <2>2. loop' = loop /\ conn' \in {conn, [conn EXCEPT ![h] = "over"]}
    BY <1>3 DEF CloseStep, StopLoop, StopTicker, CloseSftp, CloseClient, closeRest
  <2> QED
    BY <2>1, <2>2, <1>b, <1>c DEF TypeOK
<1>4. ASSUME NEW c \in Caller, NEW j \in Jump, CloseShared(c, j)
      PROVE  /\ \A g \in Host : conn'[g] # "up" \/ loop'[g] = "dying" => Reached(g)
             /\ \A k \in Jump : conn'[k] # "up" => \A g \in Host : Reached(g)
  <2>1. \A g \in Host : Reached(g)
    BY <1>4 DEF CloseShared, LifeInv, CloseInv, Reached, HostsOf
  <2> QED
    BY <2>1
<1>5. ASSUME NEW c \in Caller, Call(c) \/ HostsClosed(c) \/ Return(c)
      PROVE  UNCHANGED <<conn, loop>>
  BY <1>5 DEF Call, HostsClosed, Return, callRest
<1>6. ASSUME NEW x \in Host \cup Jump, GoesSilent(x) \/ Breaks(x)
      PROVE  FALSE
  BY <1>6 DEF GoesSilent, Breaks, NetworkSets
<1>7. CASE UNCHANGED vars
  BY <1>7, <1>1 DEF vars
<1> QED
  BY <1>1, <1>2, <1>3, <1>4, <1>5, <1>6, <1>7, <1>a DEF Next, GroupStep

\* Every step keeps the account of a call that is alone.
LEMMA NextLone == LifeInv /\ LoneInv /\ [Next]_vars => LoneInv'
<1> SUFFICES ASSUME LifeInv, LoneInv, [Next]_vars, NEW c \in Caller, Lone(c)'
             PROVE  /\ \A h \in Host : conn'[h] # "up" \/ loop'[h] = "dying"
                                        => at'[c][h] = "closed"
                    /\ \A j \in Jump : conn'[j] # "up" => j \in sharedDone'[c]
                    /\ \A h \in sftpClosed' : at'[c][h] \in {"client", "closed"}
                    /\ errs'[c] = {}
  BY DEF LoneInv
<1>a. Lone(c)
  BY ReachedStays DEF Lone
<1>b. /\ \A h \in Host : conn[h] # "up" \/ loop[h] = "dying" => at[c][h] = "closed"
      /\ \A j \in Jump : conn[j] # "up" => j \in sharedDone[c]
      /\ \A h \in sftpClosed : at[c][h] \in {"client", "closed"}
      /\ errs[c] = {}
  BY <1>a DEF LoneInv
<1>c. Host \cap Jump = {} /\ TypeOK /\ CloseInv
  BY LifeAssumption DEF LifeInv
<1>d. sharedDone[c] # {} => call[c] # "hosts" /\ \A h \in Host : at[c][h] = "closed"
  BY <1>c DEF CloseInv, HostsOf, TypeOK
<1>1. CASE UNCHANGED <<conn, loop, at, sharedDone, sftpClosed, errs>>
  BY <1>1, <1>b
<1>2. ASSUME NEW h \in Host, LoopStep(h)
      PROVE  /\ UNCHANGED <<at, sharedDone, sftpClosed, errs>>
             /\ \A g \in Host : conn'[g] # "up" \/ loop'[g] = "dying"
                                 => at[c][g] = "closed"
             /\ \A j \in Jump : conn'[j] = conn[j]
  <2> USE <1>b, <1>c DEF TypeOK, loopRest
  <2>1. CASE Ping(h) \/ StopsOnDone(h) \/ PingAnswered(h)
    BY <2>1 DEF Ping, StopsOnDone, PingAnswered
  <2>2. CASE PingFails(h)
    <3>1. at[c][h] = "closed"
      BY <2>2, <1>d DEF PingFails, Alive
    <3> QED
      BY <2>2, <3>1 DEF PingFails
  <2>3. CASE OnDead(h)
    BY <2>3 DEF OnDead
  <2> QED
    BY <1>2, <2>1, <2>2, <2>3 DEF LoopStep
<1>3. ASSUME NEW d \in Caller, NEW h \in Host, CloseStep(d, h)
      PROVE  /\ \A g \in Host : conn'[g] # "up" \/ loop'[g] = "dying"
                                 => at'[c][g] = "closed"
             /\ \A j \in Jump : conn'[j] # "up" => j \in sharedDone'[c]
             /\ \A g \in sftpClosed' : at'[c][g] \in {"client", "closed"}
             /\ errs'[c] = {}
  <2>1. call[d] = "hosts" /\ UNCHANGED <<loop, sharedDone>>
    BY <1>3 DEF CloseStep, StopLoop, StopTicker, CloseSftp, CloseClient, Closing, closeRest
  <2>2. d = c
    BY <2>1, <1>a DEF Lone
  <2>3. at[c][h] # "closed" /\ ~ Over(h)
    <3>1. at[c][h] # "closed"
      BY <1>3, <2>2 DEF CloseStep, StopLoop, StopTicker, CloseSftp, CloseClient, Closing
    <3>2. sharedDone[c] = {}
      BY <1>d, <2>1, <2>2
    <3> QED
      BY <3>1, <3>2, <1>b DEF Over
  <2> USE <1>b, <1>c, <2>1, <2>2, <2>3 DEF TypeOK, Closing, Go, Report
  <2>4. CASE StopLoop(d, h)
    <3>1. UNCHANGED <<conn, sftpClosed, errs>>
      BY <2>4 DEF StopLoop
    <3>2. (Go(d, h, "ticker") \/ Go(d, h, "sftp")) /\ at[c][h] = "start"
      BY <2>4 DEF StopLoop
    <3>3. \A g \in Host \ {h} : at'[c][g] = at[c][g]
      BY <3>2
    <3> QED
      BY <3>1, <3>2, <3>3
  <2>5. CASE StopTicker(d, h)
    BY <2>5 DEF StopTicker
  <2>6. CASE CloseSftp(d, h)
    BY <2>6 DEF CloseSftp
  <2>7. CASE CloseClient(d, h)
    BY <2>7 DEF CloseClient
  <2> QED
    BY <1>3, <2>4, <2>5, <2>6, <2>7 DEF CloseStep
<1>4. ASSUME NEW d \in Caller, NEW j \in Jump, CloseShared(d, j)
      PROVE  /\ UNCHANGED <<loop, at, sftpClosed>>
             /\ \A h \in Host : conn'[h] = conn[h]
             /\ \A k \in Jump : conn'[k] # "up" => k \in sharedDone'[c]
             /\ errs'[c] = {}
  <2>1. d = c
    BY <1>4, <1>a DEF CloseShared, Lone
  <2>2. conn[j] # "over"
    BY <1>4, <1>b, <2>1 DEF CloseShared
  <2> QED
    BY <1>4, <1>b, <1>c, <2>1, <2>2 DEF CloseShared, callRest, Report, TypeOK
<1>5. ASSUME NEW d \in Caller, Call(d) \/ HostsClosed(d) \/ Return(d)
      PROVE  UNCHANGED <<conn, loop, at, sharedDone, sftpClosed, errs>>
  BY <1>5 DEF Call, HostsClosed, Return, callRest
<1>6. ASSUME NEW x \in Host \cup Jump, GoesSilent(x) \/ Breaks(x)
      PROVE  FALSE
  BY <1>6 DEF GoesSilent, Breaks, NetworkSets, Lone
<1>7. CASE UNCHANGED vars
  BY <1>7, <1>1 DEF vars
<1> QED
  BY <1>1, <1>2, <1>3, <1>4, <1>5, <1>6, <1>7, <1>b DEF Next, GroupStep

\* "Closing an individual iago.Host closes only that host's tunnel": on a network
\* that has not failed a host that no call closes answers, whatever hosts share
\* its jump and whatever the keepalive loops do.
THEOREM OthersStayAliveAlways == Spec => []OthersStayAlive
<1>1. Init => LifeInv /\ ReachedInv
  BY InitInv DEF Init, ReachedInv
<1>2. LifeInv /\ ReachedInv /\ [Next]_vars => (LifeInv /\ ReachedInv)'
  BY NextType, NextLoop, NextClose, NextReached DEF LifeInv
<1>3. LifeInv /\ ReachedInv => OthersStayAlive
  BY DEF ReachedInv, Reached, OthersStayAlive, Alive
<1> QED
  BY <1>1, <1>2, <1>3, PTL DEF Spec

\* The only call of Close on a network that has not failed returns nil: neither
\* the keepalive loop nor the order of the closes gives it an error, for any
\* number of hosts and jumps.
THEOREM CleanCloseIsNilAlways == Spec => []CleanCloseIsNil
<1>1. Init => LifeInv /\ LoneInv
  BY InitInv DEF Init, LoneInv
<1>2. LifeInv /\ LoneInv /\ [Next]_vars => (LifeInv /\ LoneInv)'
  BY NextType, NextLoop, NextClose, NextLone DEF LifeInv
<1>3. LoneInv => CleanCloseIsNil
  BY DEF LoneInv, Lone, CleanCloseIsNil
<1> QED
  BY <1>1, <1>2, <1>3, PTL DEF Spec

=============================================================================
