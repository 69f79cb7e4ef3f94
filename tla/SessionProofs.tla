---------------------------- MODULE SessionProofs ----------------------------
(***************************************************************************)
(* Theorems about Session, for any number of sessions and any use of them. *)
(***************************************************************************)
EXTENDS Session, TLAPS

\* Where a caller is before its session has what it needs of the agent, and
\* before its command can have started.
Opening == {"newSession", "forward", "request"}
Unstarted == Opening \cup {"spawn", "start"}

\* Where a caller can be that has passed requestAgentForwarding.
Passed == {"spawn", "start", "wait", "assign", "close", "join"}

\* The Once counts the requests, and one caller at most is waiting for the
\* answer; who has passed it found the Once used up.
OnceInv ==
  /\ requests = IF once = "free" THEN 0 ELSE 1
  /\ once = "running" => \E s \in Id : at[s] = "request"
  /\ \A s \in Id : at[s] = "request" => once = "running" /\ forwardAgent
  /\ \A s, t \in Id : at[s] = "request" /\ at[t] = "request" => s = t
  /\ \A s \in Id : at[s] = "forward" => forwardAgent
  /\ ~ forwardAgent => once = "free"
  /\ granted => once = "done"
  /\ \A s \in Id : forwardAgent /\ (at[s] \in Passed \/ Started(s)) => once = "done"

\* The commands that run found the agent's socket if it was granted, and they
\* were started by a caller that is past its Start.
AgentInv ==
  /\ sawAgent = {s \in Id : Started(s) /\ granted}
  /\ \A s \in Id : at[s] \in Unstarted => ~ Started(s)

\* Who closes what: Execute's helper closes its session before it is done, and a
\* caller that defers the close is no Execute.  What is assigned to err has been
\* returned by then.
OwnerInv ==
  /\ \A s \in Id : at[s] \in Opening => helper[s] = "none"
  /\ \A s \in Id : helper[s] # "none" => kind[s] = "execute"
  /\ \A s \in Id : at[s] = "close" => kind[s] # "execute"
  /\ \A s \in Id : at[s] \in {"join", "spawn"} => kind[s] = "execute"
  /\ \A s \in Id : at[s] = "newSession" => s \notin open
  /\ \A s \in Id : helper[s] \in {"check", "set", "done"} =>
       s \notin open /\ closed[s] # "none"
  /\ \A s \in Id : at[s] = "assign" => result[s] # "none"

IndInv == TypeOK /\ OnceInv /\ AgentInv /\ OwnerInv /\ SessionsClosed

\* Where a caller has no result of Run or Wait, and where err has been set.
Unresolved == Unstarted \cup {"wait"}
Resolved   == {"close", "join", "returned"}

\* A nil result is that of a command that succeeded.  As long as the context is
\* not done nobody closes the channel under the wait, so that only a lost
\* connection cuts the output off, and the helper of Execute comes after the
\* result and turns no error into nil.
NilInv ==
  /\ \A s \in Id : at[s] \in Unresolved => result[s] = "none"
  /\ \A s \in Id : result[s] = "nil" => remote[s] = "exited"
  /\ \A s \in Id \ cancelled :
       /\ at[s] = "wait" => s \in open
       /\ result[s] = "nil" => output[s] = "all" \/ conn = "over"
       /\ helper[s] \in {"check", "set", "done"} => at[s] \in {"join", "returned"}
       /\ helper[s] = "set" => result[s] = "nil"
       /\ at[s] \in Resolved /\ err[s] = "nil" => result[s] = "nil"

\* Every step keeps the types.
LEMMA NextType == IndInv /\ [Next]_sessionVars => TypeOK'
<1> SUFFICES ASSUME IndInv, [Next]_sessionVars PROVE TypeOK'
  OBVIOUS
<1> USE DEF IndInv, TypeOK, OwnerInv, Place, Answer, CloseOutcomes, inputs,
    fwdVars, runVars, helpVars, Go, GoStart
<1>1. CASE UNCHANGED sessionVars
  BY <1>1 DEF sessionVars
<1>2. CASE ConnFails
  BY <1>2 DEF ConnFails
<1>3. ASSUME NEW s \in Id, NewSession(s) PROVE TypeOK'
  BY <1>3 DEF NewSession
<1>4. ASSUME NEW s \in Id, EnterOnce(s) PROVE TypeOK'
  BY <1>4 DEF EnterOnce
<1>5. ASSUME NEW s \in Id, RequestAnswered(s) PROVE TypeOK'
  BY <1>5 DEF RequestAnswered
<1>6. ASSUME NEW s \in Id, SpawnHelper(s) PROVE TypeOK'
  BY <1>6 DEF SpawnHelper
<1>7. ASSUME NEW s \in Id, Start(s) PROVE TypeOK'
  <2>1. CASE conn = "up" /\ s \in open /\ Go(s, "wait") /\ UNCHANGED <<result, err>>
             /\ remote' = [remote EXCEPT ![s] = "running"]
             /\ sawAgent' \in {sawAgent, sawAgent \cup {s}}
    BY <1>7, <2>1 DEF Start
  <2>2. CASE Answer(s, "error") /\ UNCHANGED <<remote, sawAgent>>
    BY <1>7, <2>2 DEF Start
  <2> QED
    BY <1>7, <2>1, <2>2, Zenon DEF Start
<1>8. ASSUME NEW s \in Id, WaitReturns(s) PROVE TypeOK'
  BY <1>8 DEF WaitReturns
<1>9. ASSUME NEW s \in Id, Assign(s) PROVE TypeOK'
  BY <1>9 DEF Assign
<1>10. ASSUME NEW s \in Id, DeferredClose(s) PROVE TypeOK'
  <2>1. err' \in [Id -> {"nil", "EOF", "error"}]
    <3>1. err' \in {err, [err EXCEPT ![s] = "error"]}
      BY <1>10 DEF DeferredClose
    <3> QED
      BY <3>1
  <2> QED
    BY <1>10, <2>1 DEF DeferredClose
<1>11. ASSUME NEW s \in Id, Join(s) PROVE TypeOK'
  BY <1>11 DEF Join
<1>12. ASSUME NEW s \in Id, HelperWakes(s) PROVE TypeOK'
  BY <1>12 DEF HelperWakes
<1>13. ASSUME NEW s \in Id, HelperChecks(s) PROVE TypeOK'
  BY <1>13 DEF HelperChecks
<1>14. ASSUME NEW s \in Id, HelperSets(s) PROVE TypeOK'
  BY <1>14 DEF HelperSets
<1>15. ASSUME NEW s \in Id, Exits(s) PROVE TypeOK'
  BY <1>15 DEF Exits
<1>16. ASSUME NEW s \in Id, Killed(s) PROVE TypeOK'
  BY <1>16 DEF Killed
<1>17. ASSUME NEW s \in Id, Cancel(s) PROVE TypeOK'
  BY <1>17 DEF Cancel
<1> QED
  BY <1>1, <1>2, <1>3, <1>4, <1>5, <1>6, <1>7, <1>8, <1>9, <1>10, <1>11, <1>12,
     <1>13, <1>14, <1>15, <1>16, <1>17 DEF Next, Caller, Helper

\* Every step keeps the Once and its counter in step.
LEMMA NextOnce == IndInv /\ [Next]_sessionVars => OnceInv'
<1> SUFFICES ASSUME IndInv, [Next]_sessionVars PROVE OnceInv'
  OBVIOUS
<1> USE DEF IndInv, TypeOK, OnceInv, Place, Passed, Started, AgentInv,
    Unstarted, Opening, Answer, inputs, fwdVars, runVars, helpVars, Go, GoStart
<1>1. CASE UNCHANGED sessionVars
  BY <1>1 DEF sessionVars
<1>2. CASE ConnFails
  BY <1>2 DEF ConnFails
<1>3. ASSUME NEW s \in Id, NewSession(s) PROVE OnceInv'
  BY <1>3 DEF NewSession
<1>4. ASSUME NEW s \in Id, EnterOnce(s) PROVE OnceInv'
  BY <1>4 DEF EnterOnce
<1>5. ASSUME NEW s \in Id, RequestAnswered(s) PROVE OnceInv'
  BY <1>5 DEF RequestAnswered
<1>6. ASSUME NEW s \in Id, SpawnHelper(s) PROVE OnceInv'
  BY <1>6 DEF SpawnHelper
<1>7. ASSUME NEW s \in Id, Start(s) PROVE OnceInv'
  BY <1>7 DEF Start
<1>8. ASSUME NEW s \in Id, WaitReturns(s) PROVE OnceInv'
  BY <1>8 DEF WaitReturns
<1>9. ASSUME NEW s \in Id, Assign(s) PROVE OnceInv'
  BY <1>9 DEF Assign
<1>10. ASSUME NEW s \in Id, DeferredClose(s) PROVE OnceInv'
  BY <1>10 DEF DeferredClose
<1>11. ASSUME NEW s \in Id, Join(s) PROVE OnceInv'
  BY <1>11 DEF Join
<1>12. ASSUME NEW s \in Id, HelperWakes(s) PROVE OnceInv'
  BY <1>12 DEF HelperWakes
<1>13. ASSUME NEW s \in Id, HelperChecks(s) PROVE OnceInv'
  BY <1>13 DEF HelperChecks
<1>14. ASSUME NEW s \in Id, HelperSets(s) PROVE OnceInv'
  BY <1>14 DEF HelperSets
<1>15. ASSUME NEW s \in Id, Exits(s) PROVE OnceInv'
  BY <1>15 DEF Exits
<1>16. ASSUME NEW s \in Id, Killed(s) PROVE OnceInv'
  BY <1>16 DEF Killed
<1>17. ASSUME NEW s \in Id, Cancel(s) PROVE OnceInv'
  BY <1>17 DEF Cancel
<1> QED
  BY <1>1, <1>2, <1>3, <1>4, <1>5, <1>6, <1>7, <1>8, <1>9, <1>10, <1>11, <1>12,
     <1>13, <1>14, <1>15, <1>16, <1>17 DEF Next, Caller, Helper

\* Every step keeps what the commands saw of the agent.
LEMMA NextAgent == IndInv /\ [Next]_sessionVars => AgentInv'
<1> SUFFICES ASSUME IndInv, [Next]_sessionVars PROVE AgentInv'
  OBVIOUS
<1> USE DEF IndInv, TypeOK, OnceInv, AgentInv, Passed, Place, Started,
    Unstarted, Opening, Answer, inputs, fwdVars, runVars, helpVars, Go, GoStart
<1>1. CASE UNCHANGED sessionVars
  BY <1>1 DEF sessionVars
<1>2. CASE ConnFails
  BY <1>2 DEF ConnFails
<1>3. ASSUME NEW s \in Id, NewSession(s) PROVE AgentInv'
  BY <1>3 DEF NewSession
<1>4. ASSUME NEW s \in Id, EnterOnce(s) PROVE AgentInv'
  BY <1>4 DEF EnterOnce
<1>5. ASSUME NEW s \in Id, RequestAnswered(s) PROVE AgentInv'
  BY <1>5 DEF RequestAnswered
<1>6. ASSUME NEW s \in Id, SpawnHelper(s) PROVE AgentInv'
  BY <1>6 DEF SpawnHelper
<1>7. ASSUME NEW s \in Id, Start(s) PROVE AgentInv'
  BY <1>7 DEF Start
<1>8. ASSUME NEW s \in Id, WaitReturns(s) PROVE AgentInv'
  BY <1>8 DEF WaitReturns
<1>9. ASSUME NEW s \in Id, Assign(s) PROVE AgentInv'
  BY <1>9 DEF Assign
<1>10. ASSUME NEW s \in Id, DeferredClose(s) PROVE AgentInv'
  BY <1>10 DEF DeferredClose
<1>11. ASSUME NEW s \in Id, Join(s) PROVE AgentInv'
  BY <1>11 DEF Join
<1>12. ASSUME NEW s \in Id, HelperWakes(s) PROVE AgentInv'
  BY <1>12 DEF HelperWakes
<1>13. ASSUME NEW s \in Id, HelperChecks(s) PROVE AgentInv'
  BY <1>13 DEF HelperChecks
<1>14. ASSUME NEW s \in Id, HelperSets(s) PROVE AgentInv'
  BY <1>14 DEF HelperSets
<1>15. ASSUME NEW s \in Id, Exits(s) PROVE AgentInv'
  BY <1>15 DEF Exits
<1>16. ASSUME NEW s \in Id, Killed(s) PROVE AgentInv'
  BY <1>16 DEF Killed
<1>17. ASSUME NEW s \in Id, Cancel(s) PROVE AgentInv'
  BY <1>17 DEF Cancel
<1> QED
  BY <1>1, <1>2, <1>3, <1>4, <1>5, <1>6, <1>7, <1>8, <1>9, <1>10, <1>11, <1>12,
     <1>13, <1>14, <1>15, <1>16, <1>17 DEF Next, Caller, Helper

\* Every step leaves each session to the one that closes it.
LEMMA NextOwner == IndInv /\ [Next]_sessionVars => OwnerInv'
<1> SUFFICES ASSUME IndInv, [Next]_sessionVars PROVE OwnerInv'
  OBVIOUS
<1> USE DEF IndInv, TypeOK, OwnerInv, Place, Opening, Answer, CloseOutcomes,
    inputs, fwdVars, runVars, helpVars, Go, GoStart
<1>1. CASE UNCHANGED sessionVars
  BY <1>1 DEF sessionVars
<1>2. CASE ConnFails
  BY <1>2 DEF ConnFails
<1>3. ASSUME NEW s \in Id, NewSession(s) PROVE OwnerInv'
  BY <1>3 DEF NewSession
<1>4. ASSUME NEW s \in Id, EnterOnce(s) PROVE OwnerInv'
  BY <1>4 DEF EnterOnce
<1>5. ASSUME NEW s \in Id, RequestAnswered(s) PROVE OwnerInv'
  BY <1>5 DEF RequestAnswered
<1>6. ASSUME NEW s \in Id, SpawnHelper(s) PROVE OwnerInv'
  BY <1>6 DEF SpawnHelper
<1>7. ASSUME NEW s \in Id, Start(s) PROVE OwnerInv'
  BY <1>7 DEF Start
<1>8. ASSUME NEW s \in Id, WaitReturns(s) PROVE OwnerInv'
  BY <1>8 DEF WaitReturns
<1>9. ASSUME NEW s \in Id, Assign(s) PROVE OwnerInv'
  BY <1>9 DEF Assign
<1>10. ASSUME NEW s \in Id, DeferredClose(s) PROVE OwnerInv'
  BY <1>10 DEF DeferredClose
<1>11. ASSUME NEW s \in Id, Join(s) PROVE OwnerInv'
  BY <1>11 DEF Join
<1>12. ASSUME NEW s \in Id, HelperWakes(s) PROVE OwnerInv'
  BY <1>12 DEF HelperWakes
<1>13. ASSUME NEW s \in Id, HelperChecks(s) PROVE OwnerInv'
  BY <1>13 DEF HelperChecks
<1>14. ASSUME NEW s \in Id, HelperSets(s) PROVE OwnerInv'
  BY <1>14 DEF HelperSets
<1>15. ASSUME NEW s \in Id, Exits(s) PROVE OwnerInv'
  BY <1>15 DEF Exits
<1>16. ASSUME NEW s \in Id, Killed(s) PROVE OwnerInv'
  BY <1>16 DEF Killed
<1>17. ASSUME NEW s \in Id, Cancel(s) PROVE OwnerInv'
  BY <1>17 DEF Cancel
<1> QED
  BY <1>1, <1>2, <1>3, <1>4, <1>5, <1>6, <1>7, <1>8, <1>9, <1>10, <1>11, <1>12,
     <1>13, <1>14, <1>15, <1>16, <1>17 DEF Next, Caller, Helper

\* Every step that returns leaves no channel open but that of a refused Start.
LEMMA NextClosed == IndInv /\ [Next]_sessionVars => SessionsClosed'
<1> SUFFICES ASSUME IndInv, [Next]_sessionVars PROVE SessionsClosed'
  OBVIOUS
<1> USE DEF IndInv, TypeOK, OwnerInv, AgentInv, SessionsClosed, Place, Started,
    Unstarted, Opening, Answer, inputs, fwdVars, runVars, helpVars, Go, GoStart
<1>1. CASE UNCHANGED sessionVars
  BY <1>1 DEF sessionVars
<1>2. CASE ConnFails
  BY <1>2 DEF ConnFails
<1>3. ASSUME NEW s \in Id, NewSession(s) PROVE SessionsClosed'
  BY <1>3 DEF NewSession
<1>4. ASSUME NEW s \in Id, EnterOnce(s) PROVE SessionsClosed'
  BY <1>4 DEF EnterOnce
<1>5. ASSUME NEW s \in Id, RequestAnswered(s) PROVE SessionsClosed'
  BY <1>5 DEF RequestAnswered
<1>6. ASSUME NEW s \in Id, SpawnHelper(s) PROVE SessionsClosed'
  BY <1>6 DEF SpawnHelper
<1>7. ASSUME NEW s \in Id, Start(s) PROVE SessionsClosed'
  BY <1>7 DEF Start
<1>8. ASSUME NEW s \in Id, WaitReturns(s) PROVE SessionsClosed'
  BY <1>8 DEF WaitReturns
<1>9. ASSUME NEW s \in Id, Assign(s) PROVE SessionsClosed'
  BY <1>9 DEF Assign
<1>10. ASSUME NEW s \in Id, DeferredClose(s) PROVE SessionsClosed'
  BY <1>10 DEF DeferredClose
<1>11. ASSUME NEW s \in Id, Join(s) PROVE SessionsClosed'
  BY <1>11 DEF Join
<1>12. ASSUME NEW s \in Id, HelperWakes(s) PROVE SessionsClosed'
  BY <1>12 DEF HelperWakes
<1>13. ASSUME NEW s \in Id, HelperChecks(s) PROVE SessionsClosed'
  BY <1>13 DEF HelperChecks
<1>14. ASSUME NEW s \in Id, HelperSets(s) PROVE SessionsClosed'
  BY <1>14 DEF HelperSets
<1>15. ASSUME NEW s \in Id, Exits(s) PROVE SessionsClosed'
  BY <1>15 DEF Exits
<1>16. ASSUME NEW s \in Id, Killed(s) PROVE SessionsClosed'
  BY <1>16 DEF Killed
<1>17. ASSUME NEW s \in Id, Cancel(s) PROVE SessionsClosed'
  BY <1>17 DEF Cancel
<1> QED
  BY <1>1, <1>2, <1>3, <1>4, <1>5, <1>6, <1>7, <1>8, <1>9, <1>10, <1>11, <1>12,
     <1>13, <1>14, <1>15, <1>16, <1>17 DEF Next, Caller, Helper

\* Every step keeps a nil result truthful.
LEMMA NextNil == IndInv /\ NilInv /\ [Next]_sessionVars => NilInv'
<1> SUFFICES ASSUME IndInv, NilInv, [Next]_sessionVars PROVE NilInv'
  OBVIOUS
<1> USE DEF IndInv, TypeOK, OwnerInv, AgentInv, SessionsClosed, NilInv,
    Unresolved, Resolved, CloseOutcomes, Place, Started, Unstarted, Opening,
    Answer, inputs, fwdVars, runVars, helpVars, Go, GoStart
<1>1. CASE UNCHANGED sessionVars
  BY <1>1 DEF sessionVars
<1>2. CASE ConnFails
  BY <1>2 DEF ConnFails
<1>3. ASSUME NEW s \in Id, NewSession(s) PROVE NilInv'
  BY <1>3 DEF NewSession
<1>4. ASSUME NEW s \in Id, EnterOnce(s) PROVE NilInv'
  BY <1>4 DEF EnterOnce
<1>5. ASSUME NEW s \in Id, RequestAnswered(s) PROVE NilInv'
  BY <1>5 DEF RequestAnswered
<1>6. ASSUME NEW s \in Id, SpawnHelper(s) PROVE NilInv'
  BY <1>6 DEF SpawnHelper
<1>7. ASSUME NEW s \in Id, Start(s) PROVE NilInv'
  BY <1>7 DEF Start
<1>8. ASSUME NEW s \in Id, WaitReturns(s) PROVE NilInv'
  BY <1>8 DEF WaitReturns
<1>9. ASSUME NEW s \in Id, Assign(s) PROVE NilInv'
  BY <1>9 DEF Assign
<1>10. ASSUME NEW s \in Id, DeferredClose(s) PROVE NilInv'
  BY <1>10 DEF DeferredClose
<1>11. ASSUME NEW s \in Id, Join(s) PROVE NilInv'
  BY <1>11 DEF Join
<1>12. ASSUME NEW s \in Id, HelperWakes(s) PROVE NilInv'
  BY <1>12 DEF HelperWakes
<1>13. ASSUME NEW s \in Id, HelperChecks(s) PROVE NilInv'
  BY <1>13 DEF HelperChecks
<1>14. ASSUME NEW s \in Id, HelperSets(s) PROVE NilInv'
  BY <1>14 DEF HelperSets
<1>15. ASSUME NEW s \in Id, Exits(s) PROVE NilInv'
  BY <1>15 DEF Exits
<1>16. ASSUME NEW s \in Id, Killed(s) PROVE NilInv'
  BY <1>16 DEF Killed
<1>17. ASSUME NEW s \in Id, Cancel(s) PROVE NilInv'
  BY <1>17 DEF Cancel
<1> QED
  BY <1>1, <1>2, <1>3, <1>4, <1>5, <1>6, <1>7, <1>8, <1>9, <1>10, <1>11, <1>12,
     <1>13, <1>14, <1>15, <1>16, <1>17 DEF Next, Caller, Helper

\* The initial state satisfies the invariant.
LEMMA InitInd == Init => IndInv
<1> SUFFICES ASSUME Init PROVE IndInv
  OBVIOUS
<1>1. TypeOK
  BY DEF Init, TypeOK, Place
<1>2. OnceInv /\ AgentInv /\ OwnerInv /\ SessionsClosed
  BY DEF Init, OnceInv, AgentInv, OwnerInv, SessionsClosed, Started, Opening,
     Unstarted, Passed
<1> QED
  BY <1>1, <1>2 DEF IndInv

\* The invariant is more than what it was made for.
LEMMA IndImplies == IndInv => SessionInv
<1> SUFFICES ASSUME IndInv PROVE SessionInv
  OBVIOUS
<1>1. OneForwardRequest
  BY DEF IndInv, OnceInv, AgentInv, OneForwardRequest
<1> QED
  BY <1>1 DEF IndInv, SessionInv

\* However many sessions are opened at once, one forward request is sent at most,
\* no command starts before its answer (requestAgentForwarding's sync.Once), and
\* every session that returned has been closed, by Execute's helper or by the
\* close that Run and Wait defer.
THEOREM SessionInvAlways == Spec => []SessionInv
<1>1. IndInv /\ [Next]_sessionVars => IndInv'
  BY NextType, NextOnce, NextAgent, NextOwner, NextClosed DEF IndInv
<1> QED
  BY InitInd, <1>1, IndImplies, PTL DEF Spec

\* A nil error of Run, of Wait, or of an Execute whose context was never done means
\* that the command exited with status 0, and that its output was read to the end
\* unless the connection was lost, whatever the server and safeClose do.
THEOREM NilIsSuccessAlways == Spec => []NilIsSuccess
<1>1. Init => IndInv /\ NilInv
  <2>1. Init => NilInv
    BY DEF Init, NilInv, Unresolved, Unstarted, Opening, Resolved
  <2> QED
    BY <2>1, InitInd
<1>2. IndInv /\ NilInv /\ [Next]_sessionVars => (IndInv /\ NilInv)'
  BY NextType, NextOnce, NextAgent, NextOwner, NextClosed, NextNil DEF IndInv
<1>3. IndInv /\ NilInv => NilIsSuccess
  BY DEF NilInv, NilIsSuccess, Resolved
<1> QED
  BY <1>1, <1>2, <1>3, PTL DEF Spec

=============================================================================
