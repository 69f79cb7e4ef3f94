---------------------------- MODULE ShellRunProofs ----------------------------
(***************************************************************************)
(* Theorems about ShellRun, for any commands, streams and window.          *)
(***************************************************************************)
EXTENDS ShellRun, TLAPS

Statuses == {"missing", "one", "other"}
Left     == {"draining", "returned"}

\* What Apply has answered, or is about to: it has no error before it leaves;
\* then an exit status among its errors is the one received, no error means the
\* status zero, and a helper that it did not join is that of a command that
\* failed.  Only the helper closes the session, once.
CallInv ==
  /\ apply = "new" => \A s \in Stream : copier[s] = "none"
  /\ apply \in {"new", "opening"} => remote = "none" /\ helper = "none"
  /\ helper \in {"none", "watching"} => closeErr = "none"
  /\ chan = "closing" => helper \in {"sending", "done"} /\ closeErr = "nil"
  /\ apply \notin Left => err = {}
  /\ apply \in {"waiting", "joining"} => \A s \in job.streams : copier[s] # "none"
  /\ apply = "joining" => status = "zero" /\ Over
  /\ apply \in Left =>
       /\ remote = "none" \/ Over
       /\ \A x \in {"one", "other"} : x \in err <=> status = x
       /\ helper \in {"none", "done"} \/ err \cap Statuses # {}
       /\ err = {} => status = "zero" /\ \A s \in job.streams : copier[s] # "none"
  /\ apply = "returned" => \A s \in Stream : copier[s] \in {"none", "done"}

\* The status is the command's, and is there when the command has exited by
\* itself; the server closes a session that nobody else closed when it has sent
\* all that the command wrote.
RemoteInv ==
  /\ status # "none" => remote = "exited" /\ status = job.exit
  /\ chan = "closed" => closeErr = "nil" \/ AllSent

\* A failed copier's error becomes one of Apply when it is drained.
FailInv ==
  \A s \in failed : /\ copier[s] \in {"sending", "done"}
                    /\ copier[s] = "done" => s \in err

\* Every chunk the command has written to a stream that is copied is unread, in
\* the hands of the copier, or with the writer, as long as the copy has not
\* failed and no other copier writes to the same writer.
DataInv ==
  \A o \in Outputs \ failed :
    /\ produced[o] = unread[o] + sink[o][o] + (IF copier[o] = "writing" THEN 1 ELSE 0)
    /\ copier[o] = "writing" => old[o] = sink[o]
    /\ copier[o] \in {"sending", "done"} =>
         unread[o] = 0 /\ (Over \/ AllSent)

IndInv == TypeOK /\ CallInv /\ RemoteInv /\ FailInv

\* Every step keeps the types.
LEMMA NextType == IndInv /\ [Next]_vars => TypeOK'
<1> SUFFICES ASSUME IndInv, [Next]_vars PROVE TypeOK'
  OBVIOUS
<1> USE DEF IndInv, TypeOK, Writer, WriterOf, JobType, Leave, EndCopy, Over,
    Stream, Output, callVars, copyVars, helperVars, remoteVars, copyRest,
    remoteRest
<1>1. CASE UNCHANGED vars
  BY <1>1 DEF vars
<1>2. CASE NewCommand
  <2>1. CASE apply' = "opening" /\ UNCHANGED err
    BY <1>2, <2>1 DEF NewCommand
  <2>2. CASE apply' = "returned" /\ err' = {"session"}
    BY <1>2, <2>2 DEF NewCommand
  <2> QED
    BY <1>2, <2>1, <2>2, Zenon DEF NewCommand
<1>3. ASSUME NEW s \in Stream, OpenPipe(s) PROVE TypeOK'
  <2>1. CASE copier' = [copier EXCEPT ![s] = "copying"] /\ UNCHANGED <<apply, err, inClosed>>
    BY <1>3, <2>1 DEF OpenPipe
  <2>2. CASE Leave({"pipe"}) /\ UNCHANGED copier
    BY <1>3, <2>2 DEF OpenPipe
  <2> QED
    BY <1>3, <2>1, <2>2, Zenon DEF OpenPipe
<1>4. CASE Start
  BY <1>4 DEF Start
<1>5. CASE StartFails
  BY <1>5 DEF StartFails
<1>6. CASE WaitReturns
  <2>1. CASE apply' = "joining" /\ UNCHANGED <<err, inClosed>>
    BY <1>6, <2>1 DEF WaitReturns
  <2>2. ASSUME NEW x \in {"missing", "one", "other"}, Leave({x}) PROVE TypeOK'
    BY <1>6, <2>2 DEF WaitReturns
  <2>3. \/ apply' = "joining" /\ UNCHANGED <<err, inClosed>>
        \/ \E x \in {"missing", "one", "other"} : Leave({x})
    <3> HIDE DEF Leave
    <3> QED
      BY <1>6 DEF WaitReturns
  <2> QED
    BY <2>1, <2>2, <2>3, Zenon
<1>7. CASE HelperWakes
  <2>1. /\ helper' = "sending"
        /\ UNCHANGED <<job, callVars, copyVars, inClosed, runCtx, ctx, remoteVars,
                       unread, peer>>
    BY <1>7 DEF HelperWakes
  <2>2. closeErr' \in {"nil", "EOF", "fail"} /\ chan' \in {"closing", chan}
    <3>1. chan \in {"open", "closed", "lost"}
      BY <1>7 DEF HelperWakes, CallInv
    <3> HIDE DEF IndInv, TypeOK
    <3> QED
      BY <1>7, <3>1 DEF HelperWakes
  <2> QED
    BY <2>1, <2>2
<1>8. CASE JoinHelper
  BY <1>8 DEF JoinHelper
<1>9. ASSUME NEW s \in Stream, Drain(s) PROVE TypeOK'
  BY <1>9 DEF Drain
<1>10. CASE Return
  BY <1>10 DEF Return
<1>11. CASE FeedStdin
  BY <1>11 DEF FeedStdin
<1>12. CASE StdinEnds
  BY <1>12 DEF StdinEnds
<1>13. CASE StdinRefused
  BY <1>13 DEF StdinRefused
<1>14. ASSUME NEW o \in Output, ReadOutput(o) PROVE TypeOK'
  BY <1>14 DEF ReadOutput
<1>15. ASSUME NEW o \in Output, StoreOutput(o) PROVE TypeOK'
  BY <1>15 DEF StoreOutput
<1>16. ASSUME NEW o \in Output, WriterFails(o) PROVE TypeOK'
  BY <1>16 DEF WriterFails
<1>17. ASSUME NEW o \in Output, OutputEnds(o) PROVE TypeOK'
  BY <1>17 DEF OutputEnds
<1>18. CASE Consume
  BY <1>18 DEF Consume
<1>19. ASSUME NEW o \in Output, Produce(o) PROVE TypeOK'
  BY <1>19 DEF Produce
<1>20. CASE RemoteExits
  <2>1. job.exit \in {"zero", "one", "other"}
    BY ShellAssumption
  <2> QED
    BY <1>20, <2>1 DEF RemoteExits
<1>21. CASE PeerCloses
  BY <1>21 DEF PeerCloses
<1>22. CASE PeerGoes
  BY <1>22 DEF PeerGoes
<1>23. CASE ConnLost
  BY <1>23 DEF ConnLost
<1>24. CASE CtxDone
  BY <1>24 DEF CtxDone
<1> HIDE DEF IndInv, TypeOK, CallInv, RemoteInv, FailInv, DataInv
<1> QED
  BY <1>1, <1>2, <1>3, <1>4, <1>5, <1>6, <1>7, <1>8, <1>9, <1>10, <1>11, <1>12,
     <1>13, <1>14, <1>15, <1>16, <1>17, <1>18, <1>19, <1>20, <1>21, <1>22,
     <1>23, <1>24 DEF Next, ApplyStep, CopyStep, RemoteStep

\* Every step keeps what Apply answers in step with what it has waited for.
LEMMA NextCall == IndInv /\ [Next]_vars => CallInv'
<1> SUFFICES ASSUME IndInv, [Next]_vars PROVE CallInv'
  OBVIOUS
<1> USE DEF IndInv, TypeOK, CallInv, RemoteInv, FailInv, Statuses, Left, Opened,
    Leave, EndCopy, Answers, Over, Stream, Output, callVars, copyVars,
    helperVars, remoteVars, copyRest, remoteRest
<1>1. CASE UNCHANGED vars
  BY <1>1 DEF vars
<1>2. CASE NewCommand
  BY <1>2 DEF NewCommand
<1>3. ASSUME NEW s \in Stream, OpenPipe(s) PROVE CallInv'
  BY <1>3 DEF OpenPipe
<1>4. CASE Start
  BY <1>4 DEF Start
<1>5. CASE StartFails
  BY <1>5 DEF StartFails
<1>6. CASE WaitReturns
  BY <1>6 DEF WaitReturns
<1>7. CASE HelperWakes
  BY <1>7 DEF HelperWakes
<1>8. CASE JoinHelper
  BY <1>8 DEF JoinHelper
<1>9. ASSUME NEW s \in Stream, Drain(s) PROVE CallInv'
  BY <1>9 DEF Drain
<1>10. CASE Return
  BY <1>10 DEF Return
<1>11. CASE FeedStdin
  BY <1>11 DEF FeedStdin
<1>12. CASE StdinEnds
  BY <1>12 DEF StdinEnds
<1>13. CASE StdinRefused
  BY <1>13 DEF StdinRefused
<1>14. ASSUME NEW o \in Output, ReadOutput(o) PROVE CallInv'
  BY <1>14 DEF ReadOutput
<1>15. ASSUME NEW o \in Output, StoreOutput(o) PROVE CallInv'
  BY <1>15 DEF StoreOutput
<1>16. ASSUME NEW o \in Output, WriterFails(o) PROVE CallInv'
  BY <1>16 DEF WriterFails
<1>17. ASSUME NEW o \in Output, OutputEnds(o) PROVE CallInv'
  BY <1>17 DEF OutputEnds
<1>18. CASE Consume
  BY <1>18 DEF Consume
<1>19. ASSUME NEW o \in Output, Produce(o) PROVE CallInv'
  BY <1>19 DEF Produce
<1>20. CASE RemoteExits
  BY <1>20 DEF RemoteExits
<1>21. CASE PeerCloses
  BY <1>21 DEF PeerCloses
<1>22. CASE PeerGoes
  BY <1>22 DEF PeerGoes
<1>23. CASE ConnLost
  BY <1>23 DEF ConnLost
<1>24. CASE CtxDone
  BY <1>24 DEF CtxDone
<1> HIDE DEF IndInv, TypeOK, CallInv, RemoteInv, FailInv, DataInv
<1> QED
  BY <1>1, <1>2, <1>3, <1>4, <1>5, <1>6, <1>7, <1>8, <1>9, <1>10, <1>11, <1>12,
     <1>13, <1>14, <1>15, <1>16, <1>17, <1>18, <1>19, <1>20, <1>21, <1>22,
     <1>23, <1>24 DEF Next, ApplyStep, CopyStep, RemoteStep

\* Every step keeps the status that of the command.
LEMMA NextRemote == IndInv /\ [Next]_vars => RemoteInv'
<1> SUFFICES ASSUME IndInv, [Next]_vars PROVE RemoteInv'
  OBVIOUS
<1> USE DEF IndInv, TypeOK, CallInv, RemoteInv, Answers, Over, AllSent, Stream,
    Output, callVars, copyVars, helperVars, remoteVars, copyRest, remoteRest
<1>1. CASE UNCHANGED vars
  BY <1>1 DEF vars
<1>2. CASE NewCommand
  BY <1>2 DEF NewCommand
<1>3. ASSUME NEW s \in Stream, OpenPipe(s) PROVE RemoteInv'
  BY <1>3 DEF OpenPipe
<1>4. CASE Start
  BY <1>4 DEF Start
<1>5. CASE StartFails
  BY <1>5 DEF StartFails
<1>6. CASE WaitReturns
  BY <1>6 DEF WaitReturns
<1>7. CASE HelperWakes
  BY <1>7 DEF HelperWakes
<1>8. CASE JoinHelper
  BY <1>8 DEF JoinHelper
<1>9. ASSUME NEW s \in Stream, Drain(s) PROVE RemoteInv'
  BY <1>9 DEF Drain
<1>10. CASE Return
  BY <1>10 DEF Return
<1>11. CASE FeedStdin
  BY <1>11 DEF FeedStdin
<1>12. CASE StdinEnds
  BY <1>12 DEF StdinEnds
<1>13. CASE StdinRefused
  BY <1>13 DEF StdinRefused
<1>14. ASSUME NEW o \in Output, ReadOutput(o) PROVE RemoteInv'
  BY <1>14 DEF ReadOutput
<1>15. ASSUME NEW o \in Output, StoreOutput(o) PROVE RemoteInv'
  BY <1>15 DEF StoreOutput
<1>16. ASSUME NEW o \in Output, WriterFails(o) PROVE RemoteInv'
  BY <1>16 DEF WriterFails
<1>17. ASSUME NEW o \in Output, OutputEnds(o) PROVE RemoteInv'
  BY <1>17 DEF OutputEnds
<1>18. CASE Consume
  BY <1>18 DEF Consume
<1>19. ASSUME NEW o \in Output, Produce(o) PROVE RemoteInv'
  BY <1>19 DEF Produce
<1>20. CASE RemoteExits
  BY <1>20 DEF RemoteExits
<1>21. CASE PeerCloses
  BY <1>21 DEF PeerCloses
<1>22. CASE PeerGoes
  BY <1>22 DEF PeerGoes
<1>23. CASE ConnLost
  BY <1>23 DEF ConnLost
<1>24. CASE CtxDone
  BY <1>24 DEF CtxDone
<1> HIDE DEF IndInv, TypeOK, CallInv, RemoteInv, FailInv, DataInv
<1> QED
  BY <1>1, <1>2, <1>3, <1>4, <1>5, <1>6, <1>7, <1>8, <1>9, <1>10, <1>11, <1>12,
     <1>13, <1>14, <1>15, <1>16, <1>17, <1>18, <1>19, <1>20, <1>21, <1>22,
     <1>23, <1>24 DEF Next, ApplyStep, CopyStep, RemoteStep

\* Every step keeps the errors of the copiers.
LEMMA NextFail == IndInv /\ [Next]_vars => FailInv'
<1> SUFFICES ASSUME IndInv, [Next]_vars PROVE FailInv'
  OBVIOUS
<1> USE DEF IndInv, TypeOK, CallInv, FailInv, EndCopy, Leave, Stream, Output,
    callVars, copyVars, helperVars, remoteVars, copyRest, remoteRest
<1>1. CASE UNCHANGED vars
  BY <1>1 DEF vars
<1>2. CASE NewCommand
  BY <1>2 DEF NewCommand
<1>3. ASSUME NEW s \in Stream, OpenPipe(s) PROVE FailInv'
  BY <1>3 DEF OpenPipe, Opened
<1>4. CASE Start
  BY <1>4 DEF Start
<1>5. CASE StartFails
  BY <1>5 DEF StartFails
<1>6. CASE WaitReturns
  BY <1>6 DEF WaitReturns
<1>7. CASE HelperWakes
  BY <1>7 DEF HelperWakes
<1>8. CASE JoinHelper
  BY <1>8 DEF JoinHelper
<1>9. ASSUME NEW s \in Stream, Drain(s) PROVE FailInv'
  BY <1>9 DEF Drain
<1>10. CASE Return
  BY <1>10 DEF Return
<1>11. CASE FeedStdin
  BY <1>11 DEF FeedStdin
<1>12. CASE StdinEnds
  BY <1>12 DEF StdinEnds
<1>13. CASE StdinRefused
  BY <1>13 DEF StdinRefused
<1>14. ASSUME NEW o \in Output, ReadOutput(o) PROVE FailInv'
  BY <1>14 DEF ReadOutput
<1>15. ASSUME NEW o \in Output, StoreOutput(o) PROVE FailInv'
  BY <1>15 DEF StoreOutput
<1>16. ASSUME NEW o \in Output, WriterFails(o) PROVE FailInv'
  BY <1>16 DEF WriterFails
<1>17. ASSUME NEW o \in Output, OutputEnds(o) PROVE FailInv'
  BY <1>17 DEF OutputEnds
<1>18. CASE Consume
  BY <1>18 DEF Consume
<1>19. ASSUME NEW o \in Output, Produce(o) PROVE FailInv'
  BY <1>19 DEF Produce
<1>20. CASE RemoteExits
  BY <1>20 DEF RemoteExits
<1>21. CASE PeerCloses
  BY <1>21 DEF PeerCloses
<1>22. CASE PeerGoes
  BY <1>22 DEF PeerGoes
<1>23. CASE ConnLost
  BY <1>23 DEF ConnLost
<1>24. CASE CtxDone
  BY <1>24 DEF CtxDone
<1> HIDE DEF IndInv, TypeOK, CallInv, RemoteInv, FailInv, DataInv
<1> QED
  BY <1>1, <1>2, <1>3, <1>4, <1>5, <1>6, <1>7, <1>8, <1>9, <1>10, <1>11, <1>12,
     <1>13, <1>14, <1>15, <1>16, <1>17, <1>18, <1>19, <1>20, <1>21, <1>22,
     <1>23, <1>24 DEF Next, ApplyStep, CopyStep, RemoteStep

\* Every step keeps count of the chunks, when no two copiers share a writer.
LEMMA NextData ==
  ASSUME ~ job.sameWriter, IndInv, DataInv, [Next]_vars
  PROVE  DataInv'
<1> USE DEF IndInv, TypeOK, CallInv, RemoteInv, FailInv, DataInv, Outputs,
    Writer, WriterOf, EndCopy, Leave, Answers, Over, AllSent, Stream, Output,
    callVars, copyVars, helperVars, remoteVars, copyRest, remoteRest
<1>1. CASE UNCHANGED vars
  BY <1>1 DEF vars
<1>2. CASE NewCommand
  BY <1>2 DEF NewCommand
<1>3. ASSUME NEW s \in Stream, OpenPipe(s) PROVE DataInv'
  BY <1>3 DEF OpenPipe, Opened
<1>4. CASE Start
  BY <1>4 DEF Start
<1>5. CASE StartFails
  BY <1>5 DEF StartFails
<1>6. CASE WaitReturns
  BY <1>6 DEF WaitReturns
<1>7. CASE HelperWakes
  BY <1>7 DEF HelperWakes
<1>8. CASE JoinHelper
  BY <1>8 DEF JoinHelper
<1>9. ASSUME NEW s \in Stream, Drain(s) PROVE DataInv'
  BY <1>9 DEF Drain
<1>10. CASE Return
  BY <1>10 DEF Return
<1>11. CASE FeedStdin
  BY <1>11 DEF FeedStdin
<1>12. CASE StdinEnds
  BY <1>12 DEF StdinEnds
<1>13. CASE StdinRefused
  BY <1>13 DEF StdinRefused
<1>14. ASSUME NEW o \in Output, ReadOutput(o) PROVE DataInv'
  BY <1>14 DEF ReadOutput
<1>15. ASSUME NEW o \in Output, StoreOutput(o) PROVE DataInv'
  BY <1>15 DEF StoreOutput
<1>16. ASSUME NEW o \in Output, WriterFails(o) PROVE DataInv'
  BY <1>16 DEF WriterFails
<1>17. ASSUME NEW o \in Output, OutputEnds(o) PROVE DataInv'
  BY <1>17 DEF OutputEnds
<1>18. CASE Consume
  BY <1>18 DEF Consume
<1>19. ASSUME NEW o \in Output, Produce(o) PROVE DataInv'
  BY <1>19 DEF Produce
<1>20. CASE RemoteExits
  BY <1>20 DEF RemoteExits
<1>21. CASE PeerCloses
  BY <1>21 DEF PeerCloses
<1>22. CASE PeerGoes
  BY <1>22 DEF PeerGoes
<1>23. CASE ConnLost
  BY <1>23 DEF ConnLost
<1>24. CASE CtxDone
  BY <1>24 DEF CtxDone
<1> HIDE DEF IndInv, TypeOK, CallInv, RemoteInv, FailInv, DataInv
<1> QED
  BY <1>1, <1>2, <1>3, <1>4, <1>5, <1>6, <1>7, <1>8, <1>9, <1>10, <1>11, <1>12,
     <1>13, <1>14, <1>15, <1>16, <1>17, <1>18, <1>19, <1>20, <1>21, <1>22,
     <1>23, <1>24 DEF Next, ApplyStep, CopyStep, RemoteStep

\* No step changes what Apply was called with.
LEMMA JobStays ==
  ASSUME [Next]_vars
  PROVE  job' = job
<1> USE DEF copyRest, remoteRest
<1>1. CASE UNCHANGED vars
  BY <1>1 DEF vars
<1>2. CASE NewCommand \/ Start \/ StartFails
  BY <1>2 DEF NewCommand, Start, StartFails
<1>3. CASE WaitReturns \/ JoinHelper \/ Return
  BY <1>3 DEF WaitReturns, JoinHelper, Return
<1>4. ASSUME NEW s \in Stream, OpenPipe(s) \/ Drain(s) PROVE job' = job
  BY <1>4 DEF OpenPipe, Drain
<1>5. CASE FeedStdin \/ StdinEnds \/ StdinRefused
  BY <1>5 DEF FeedStdin, StdinEnds, StdinRefused
<1>6. ASSUME NEW o \in Output,
             ReadOutput(o) \/ StoreOutput(o) \/ WriterFails(o) \/ OutputEnds(o)
      PROVE  job' = job
  BY <1>6 DEF ReadOutput, StoreOutput, WriterFails, OutputEnds
<1>7. CASE HelperWakes \/ PeerGoes \/ ConnLost \/ CtxDone
  BY <1>7 DEF HelperWakes, PeerGoes, ConnLost, CtxDone
<1>8. CASE Consume \/ RemoteExits \/ PeerCloses
  BY <1>8 DEF Consume, RemoteExits, PeerCloses
<1>9. ASSUME NEW o \in Output, Produce(o) PROVE job' = job
  BY <1>9 DEF Produce
<1> QED
  BY <1>1, <1>2, <1>3, <1>4, <1>5, <1>6, <1>7, <1>8, <1>9
     DEF Next, ApplyStep, CopyStep, RemoteStep

\* The initial state satisfies the invariant, and no data has been moved yet.
LEMMA InitInd == Init => IndInv /\ DataInv
<1> SUFFICES ASSUME Init PROVE IndInv /\ DataInv
  OBVIOUS
<1>1. TypeOK
  BY DEF Init, TypeOK, Empty
<1>2. CallInv /\ RemoteInv /\ FailInv
  BY DEF Init, CallInv, RemoteInv, FailInv, Left
<1>3. DataInv
  BY DEF Init, DataInv, Outputs, Output, Stream, Writer, Empty
<1> QED
  BY <1>1, <1>2, <1>3 DEF IndInv

\* The invariant holds in every state of every behaviour.
LEMMA IndInvAlways == Spec => []IndInv
<1>1. IndInv /\ [Next]_vars => IndInv'
  BY NextType, NextCall, NextRemote, NextFail DEF IndInv
<1> QED
  BY InitInd, <1>1, PTL DEF Spec

\* Type correctness of Apply, its copiers, the helper and the channel.
THEOREM TypeCorrect == Spec => []TypeOK
<1>1. IndInv => TypeOK
  BY DEF IndInv
<1> QED
  BY IndInvAlways, <1>1, PTL

\* Whatever cancellation, lost connection or failed copy RunContext races with,
\* Apply's nil means exit status zero and the status in its error is that of the
\* command, so that pathTest answers for no test that did not run.
THEOREM ExitStatusFaithfulAlways == Spec => []ExitStatusFaithful
<1>1. IndInv => ExitStatusFaithful
  BY DEF IndInv, CallInv, RemoteInv, Left, ExitStatusFaithful, PathTest
<1> QED
  BY IndInvAlways, <1>1, PTL

\* When Apply returns, every copier it started is done, and the helper too but
\* after a command that failed (RunContext's unbuffered errChan).
THEOREM NothingLeftBehindAlways == Spec => []NothingLeftBehind
<1>1. IndInv => NothingLeftBehind
  BY DEF IndInv, CallInv, Left, Statuses, NothingLeftBehind
<1> QED
  BY IndInvAlways, <1>1, PTL

\* With a writer of its own for each output, Apply's nil means that every writer
\* it was given holds all that has arrived, and all that the command wrote if the
\* server ended the session: for any number of chunks, any window, any order of
\* exit status and output, and any race of copiers, helper and command.
THEOREM OutputCompleteAlways == Spec => []OutputComplete
<1> DEFINE OwnInv == job.sameWriter \/ DataInv
<1>1. IndInv /\ OwnInv /\ [Next]_vars => (IndInv /\ OwnInv)'
  <2> SUFFICES ASSUME IndInv, OwnInv, [Next]_vars PROVE (IndInv /\ OwnInv)'
    OBVIOUS
  <2>1. IndInv'
    BY NextType, NextCall, NextRemote, NextFail DEF IndInv
  <2>2. job' = job
    BY JobStays
  <2> QED
    BY <2>1, <2>2, NextData
<1>2. Init => IndInv /\ OwnInv
  BY InitInd
<1>3. IndInv /\ OwnInv => OutputComplete
  <2> SUFFICES ASSUME IndInv, DataInv, apply = "returned", err = {}, ~ job.sameWriter,
                      NEW o \in Outputs
               PROVE  /\ sink[WriterOf(o)][o] = produced[o]
                      /\ Uncut => sink[WriterOf(o)][o] = job.writes[o]
    BY DEF OutputComplete
  <2>1. copier[o] = "done" /\ o \notin failed
    BY DEF IndInv, CallInv, FailInv, Left, Outputs, Output, Stream
  <2>2. Uncut => produced = job.writes
    BY DEF IndInv, RemoteInv, Uncut, AllSent
  <2>3. produced[o] = unread[o] + sink[o][o] /\ unread[o] = 0
    BY <2>1 DEF IndInv, TypeOK, DataInv, Outputs, Output, Writer
  <2>4. sink[o][o] \in Nat
    BY DEF IndInv, TypeOK, Outputs, Output, Writer
  <2> QED
    BY <2>2, <2>3, <2>4 DEF WriterOf
<1> HIDE DEF OwnInv
<1> QED
  BY <1>1, <1>2, <1>3, PTL DEF Spec

=============================================================================
