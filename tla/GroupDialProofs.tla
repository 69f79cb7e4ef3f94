--------------------------- MODULE GroupDialProofs ---------------------------
(***************************************************************************)
(* Theorems about GroupDial, for every alias list, config, option and      *)
(* number of jumps and workers.  Three parts: the inductive invariant and  *)
(* what follows from it; from there, how far a failing FailFast call goes, *)
(* what a group accounts for and the order of the closes; and the          *)
(* refinement of DialPromise.                                              *)
(***************************************************************************)
EXTENDS GroupDial, FiniteSetTheorems, WellFoundedInduction, TLAPS

-----------------------------------------------------------------------------
(* Minima and maxima of sets of positions.                                 *)

\* Min of a non-empty set of natural numbers is its least element.
LEMMA MinIsLeast ==
  ASSUME NEW S \in SUBSET Nat, S # {}
  PROVE  Min(S) \in S /\ \A x \in S : Min(S) <= x
<1> DEFINE R == OpToRel(<, Nat)
<1>1. PICK m \in S : \A x \in S : ~ (<<x, m>> \in R)
  <2> HIDE DEF R
  <2>1. IsWellFoundedOn(R, Nat)
    BY NatLessThanWellFounded DEF R
  <2> QED
    BY <2>1, WFMin
<1>2. \A x \in Nat, y \in Nat : x < y => <<x, y>> \in R
  BY DEF OpToRel
<1>3. ASSUME NEW x \in S
      PROVE  m <= x
  <2>1. x \in Nat /\ m \in Nat
    OBVIOUS
  <2>2. ~ (x < m)
    BY <1>1, <1>2, <2>1, Zenon
  <2> QED
    BY <2>1, <2>2
<1> QED
  BY <1>3, Zenon DEF Min

\* Max of a non-empty set of numbers up to n is its greatest element.
LEMMA MaxIsGreatest ==
  ASSUME NEW n \in Nat, NEW S \in SUBSET (1..n), S # {}
  PROVE  Max(S) \in S /\ \A x \in S : x <= Max(S)
<1> DEFINE T == {n - x : x \in S}
<1>1. T \in SUBSET Nat /\ T # {}
  <2>1. \A x \in S : x \in 1..n /\ n - x \in Nat
    OBVIOUS
  <2>2. T \in SUBSET Nat
    BY <2>1
  <2>3. PICK x \in S : TRUE
    OBVIOUS
  <2>4. n - x \in T
    BY <2>3
  <2> QED
    BY <2>2, <2>4
<1>2. Min(T) \in T /\ \A y \in T : Min(T) <= y
  <2> HIDE DEF T
  <2> QED
    BY <1>1, MinIsLeast
<1>3. PICK m \in S : Min(T) = n - m
  BY <1>2
<1>4. ASSUME NEW x \in S
      PROVE  m >= x
  <2>1. Min(T) <= n - x
    BY <1>2
  <2>2. n \in Int /\ m \in Int /\ x \in Int
    OBVIOUS
  <2>3. n - m <= n - x
    <3> HIDE DEF T
    <3> QED
      BY <1>3, <2>1, Zenon
  <2> HIDE DEF T
  <2> QED
    BY <2>2, <2>3
<1>5. Max(S) \in S /\ \A x \in S : Max(S) >= x
  BY <1>4, Zenon DEF Max
<1>6. Max(S) \in Int /\ \A x \in S : x \in Int
  <2>1. \A x \in S : x \in Int
    OBVIOUS
  <2> QED
    BY <1>5, <2>1, Zenon
<1> QED
  BY <1>5, <1>6

-----------------------------------------------------------------------------
(* The inputs of the call never change.                                    *)

LEMMA SameInputs ==
  UNCHANGED inputs =>
    /\ aliases' = aliases /\ config' = config /\ cfg' = cfg
    /\ Position' = Position /\ Worker' = Worker
    /\ \A i : Via(i)' = Via(i)
  BY DEF inputs, Position, Worker, WorkerCount, Via

LEMMA NextKeepsInputs == [Next]_vars => UNCHANGED inputs
  BY DEF Next, CallerStep, WorkerStep, ParseConfig, SkipJump, JumpConnects,
         JumpFails, StartDialing, StopScheduling, Collect, CloseHost, CloseJump,
         ReturnError, Hand, WorkerExits, Route, Connect, OpenAgent, OpenSftp,
         FetchEnv, vars

-----------------------------------------------------------------------------
(* Type correctness.                                                       *)

LEMMA InputTypes ==
  ASSUME TypeOK
  PROVE  /\ aliases \in Seq(Alias) /\ Len(aliases) \in Nat
         /\ Position = 1..Len(aliases)
         /\ \A i \in Position : /\ aliases[i] \in Alias
                               /\ Via(i) \in Jump \cup {Direct, GetError}
         /\ cfg.failFast \in BOOLEAN
<1>1. /\ aliases \in Seq(Alias)
      /\ config \in [Alias -> [proxyJump : Jump \cup {Direct, GetError},
                              forwardAgent : BOOLEAN]]
      /\ cfg \in [failFast : BOOLEAN, dialConcurrency : Int,
                 forwardAgent : BOOLEAN, keepAlive : BOOLEAN]
  BY InputsAssumption DEF TypeOK
<1> QED
  BY <1>1 DEF Position, Via

\* A worker at a stage of dialOne has a position to dial.
LEMMA BusyWorker ==
  ASSUME TypeOK, NEW w \in Worker, NEW stage \in Stage, At(w, stage)
  PROVE  worker[w] \in [at : Stage, job : Position]
  BY DEF TypeOK, At, Stage, Idle, Exited

LEMMA FinishType ==
  ASSUME TypeOK, NEW w \in Worker, worker[w] \in [at : Stage, job : Position],
         NEW r \in Failure \cup {"host"}, Finish(w, r)
  PROVE  /\ worker' \in [Worker -> {Idle, Exited} \cup [at : Stage, job : Position]]
         /\ abort' \in BOOLEAN
         /\ results' \in [Position -> Result]
  BY DEF TypeOK, Finish, Result

LEMMA AdvanceType ==
  ASSUME TypeOK, NEW w \in Worker, worker[w] \in [at : Stage, job : Position],
         NEW stage \in Stage, Advance(w, stage)
  PROVE  /\ worker' \in [Worker -> {Idle, Exited} \cup [at : Stage, job : Position]]
         /\ abort' \in BOOLEAN
         /\ results' \in [Position -> Result]
<1>1. [worker[w] EXCEPT !.at = stage] \in [at : Stage, job : Position]
  OBVIOUS
<1> QED
  BY <1>1 DEF TypeOK, Advance

LEMMA HoldType ==
  ASSUME TypeOK, NEW w \in Worker, NEW r \in Resource,
         Hold(w, r) \/ Release(w, r) \/ UNCHANGED held
  PROVE  held' \in [Position -> SUBSET Resource]
  BY DEF TypeOK, Hold, Release

\* What Collect stores has the type of hosts, dialErrs and ret.
LEMMA CollectType ==
  ASSUME TypeOK
  PROVE  /\ Connected \subseteq Position
         /\ DOMAIN DialErrs \subseteq Alias
         /\ \A a \in DOMAIN DialErrs : DialErrs[a] \in Failure
         /\ DialAllError \in [kind : ErrorKind, who : Alias \cup Jump \cup {Nobody}]
<1>1. FailedAliases \subseteq Alias
  BY InputTypes DEF FailedAliases, Failed
<1>2. ASSUME NEW a \in FailedAliases
      PROVE  results[Max({i \in Failed : aliases[i] = a})] \in Failure
  <2> DEFINE S == {i \in Failed : aliases[i] = a}
  <2>1. S \in SUBSET (1..Len(aliases)) /\ S # {} /\ Len(aliases) \in Nat
    BY InputTypes DEF FailedAliases, Failed
  <2>2. Max(S) \in S
    <3> HIDE DEF S
    <3> QED
      BY <2>1, MaxIsGreatest
  <2> QED
    BY <2>2 DEF Failed
<1>3. FirstDialError \in [kind : ErrorKind, who : Alias \cup Jump \cup {Nobody}]
  <2> DEFINE S == {i \in Position : aliases[i] \in FailedAliases}
  <2>1. CASE FailedAliases = {}
    BY <2>1 DEF FirstDialError, NoError, ErrorKind
  <2>2. CASE FailedAliases # {}
    <3>1. S \in SUBSET Nat /\ S # {}
      BY <2>2, InputTypes DEF FailedAliases, Failed
    <3>2. Min(S) \in S
      <4> HIDE DEF S
      <4> QED
        BY <3>1, MinIsLeast
    <3>3. aliases[Min(S)] \in Alias
      BY <3>2, InputTypes
    <3> QED
      BY <2>2, <3>3 DEF FirstDialError, ErrorOf, ErrorKind
  <2> QED
    BY <2>1, <2>2
<1>4. AllFailedError \in [kind : ErrorKind, who : Alias \cup Jump \cup {Nobody}]
  BY DEF AllFailedError, NoError, ErrorOf, ErrorKind
<1>5. DOMAIN DialErrs = FailedAliases
      /\ \A a \in FailedAliases : DialErrs[a] \in Failure
  BY <1>2 DEF DialErrs
<1> QED
  BY <1>1, <1>3, <1>4, <1>5 DEF DialAllError, Connected

LEMMA InitType == Init => TypeOK
<1> SUFFICES ASSUME Init PROVE TypeOK
  OBVIOUS
<1>1. aliases \in Seq(Alias) /\ 1 \in 1..(Len(aliases) + 1)
  BY InputsAssumption DEF Init
<1>2. DOMAIN dialErrs = {}
  BY DEF Init
<1>3. worker \in [Worker -> {Idle, Exited} \cup [at : Stage, job : Position]]
  BY DEF Init
<1>4. ret \in [kind : ErrorKind, who : Alias \cup Jump \cup {Nobody}]
  BY DEF Init, Pending, ErrorKind
<1> QED
  BY <1>1, <1>2, <1>3, <1>4 DEF Init, TypeOK, Phase, Result

LEMMA NextType == TypeOK /\ [Next]_vars => TypeOK'
<1> SUFFICES ASSUME TypeOK, [Next]_vars PROVE TypeOK'
  OBVIOUS
<1> USE DEF Phase
<1>1. /\ aliases' = aliases /\ config' = config /\ cfg' = cfg
      /\ Position' = Position /\ Worker' = Worker
  BY NextKeepsInputs, SameInputs
<1>2. /\ Len(aliases) \in Nat /\ Position = 1..Len(aliases)
      /\ \A i \in Position : Via(i) \in Jump \cup {Direct, GetError}
  BY InputTypes
<1>3. CASE ParseConfig
  BY <1>1, <1>3 DEF TypeOK, ParseConfig, ErrorOf, ErrorKind, jumpVars, poolVars
<1>4. CASE SkipJump
  BY <1>1, <1>2, <1>4 DEF TypeOK, SkipJump, jumpVars, poolVars, outVars
<1>5. CASE JumpConnects
  BY <1>1, <1>2, <1>5
     DEF TypeOK, JumpConnects, MustDialJump, DialJump, poolVars, outVars
<1>6. CASE JumpFails
  BY <1>1, <1>2, <1>6
     DEF TypeOK, JumpFails, MustDialJump, DialJump, ErrorOf, ErrorKind, poolVars
<1>7. CASE StartDialing
  BY <1>1, <1>2, <1>7
     DEF TypeOK, StartDialing, NoError, ErrorKind, jumpVars, poolVars
<1>8. CASE StopScheduling
  BY <1>1, <1>8 DEF TypeOK, StopScheduling, jumpVars, poolVars, outVars
<1>9. CASE Collect
  BY <1>1, <1>9, CollectType DEF TypeOK, Collect, jumpVars, poolVars
<1>10. ASSUME NEW i \in Position, CloseHost(i)
       PROVE  TypeOK'
  BY <1>1, <1>10 DEF TypeOK, CloseHost, jumpVars, poolVars, outVars
<1>11. ASSUME NEW s \in Jump, CloseJump(s)
       PROVE  TypeOK'
  BY <1>1, <1>11 DEF TypeOK, CloseJump, poolVars, outVars
<1>12. CASE ReturnError
  BY <1>1, <1>12 DEF TypeOK, ReturnError, jumpVars, poolVars, outVars
<1>13. ASSUME NEW w \in Worker, Hand(w)
       PROVE  TypeOK'
  BY <1>1, <1>2, <1>13 DEF TypeOK, Hand, Stage, jumpVars, outVars
<1>14. ASSUME NEW w \in Worker, WorkerExits(w)
       PROVE  TypeOK'
  BY <1>1, <1>14 DEF TypeOK, WorkerExits, jumpVars, outVars
<1>15. ASSUME NEW w \in Worker, Route(w)
       PROVE  TypeOK'
  <2>1. worker[w] \in [at : Stage, job : Position]
    BY <1>15, BusyWorker DEF Route, Stage
  <2>2. JumpFor(worker[w].job) \in Failure \cup {"none"}
    BY DEF JumpFor, Failure
  <2>3. /\ worker' \in [Worker -> {Idle, Exited} \cup [at : Stage, job : Position]]
        /\ abort' \in BOOLEAN
        /\ results' \in [Position -> Result]
    BY <1>15, <2>1, <2>2, FinishType, AdvanceType DEF Route, Stage
  <2> QED
    BY <1>1, <1>15, <2>3 DEF TypeOK, Route, jumpVars, outVars
<1>16. ASSUME NEW w \in Worker, Connect(w)
       PROVE  TypeOK'
  <2>1. worker[w] \in [at : Stage, job : Position]
    BY <1>16, BusyWorker DEF Connect, Stage
  <2>2. /\ worker' \in [Worker -> {Idle, Exited} \cup [at : Stage, job : Position]]
        /\ abort' \in BOOLEAN
        /\ results' \in [Position -> Result]
    BY <1>16, <2>1, FinishType, AdvanceType DEF Connect, Stage, Failure
  <2>3. held' \in [Position -> SUBSET Resource]
    BY <1>16, HoldType DEF Connect, Resource
  <2> QED
    BY <1>1, <1>16, <2>2, <2>3 DEF TypeOK, Connect, jumpVars, outVars
<1>17. ASSUME NEW w \in Worker, OpenAgent(w)
       PROVE  TypeOK'
  <2>1. worker[w] \in [at : Stage, job : Position]
    BY <1>17, BusyWorker DEF OpenAgent, Stage
  <2>2. /\ worker' \in [Worker -> {Idle, Exited} \cup [at : Stage, job : Position]]
        /\ abort' \in BOOLEAN
        /\ results' \in [Position -> Result]
    BY <1>17, <2>1, FinishType, AdvanceType DEF OpenAgent, Stage, Failure
  <2>3. held' \in [Position -> SUBSET Resource]
    BY <1>17, HoldType DEF OpenAgent, Resource
  <2> QED
    BY <1>1, <1>17, <2>2, <2>3 DEF TypeOK, OpenAgent, jumpVars, outVars
<1>18. ASSUME NEW w \in Worker, OpenSftp(w)
       PROVE  TypeOK'
  <2>1. worker[w] \in [at : Stage, job : Position]
    BY <1>18, BusyWorker DEF OpenSftp, Stage
  <2>2. /\ worker' \in [Worker -> {Idle, Exited} \cup [at : Stage, job : Position]]
        /\ abort' \in BOOLEAN
        /\ results' \in [Position -> Result]
    BY <1>18, <2>1, FinishType, AdvanceType DEF OpenSftp, Stage, Failure
  <2>3. held' \in [Position -> SUBSET Resource]
    BY <1>18, HoldType DEF OpenSftp, Resource
  <2> QED
    BY <1>1, <1>18, <2>2, <2>3 DEF TypeOK, OpenSftp, jumpVars, outVars
<1>19. ASSUME NEW w \in Worker, FetchEnv(w)
       PROVE  TypeOK'
  <2>1. worker[w] \in [at : Stage, job : Position]
    BY <1>19, BusyWorker DEF FetchEnv, Stage
  <2>2. /\ worker' \in [Worker -> {Idle, Exited} \cup [at : Stage, job : Position]]
        /\ abort' \in BOOLEAN
        /\ results' \in [Position -> Result]
    BY <1>19, <2>1, FinishType DEF FetchEnv, Failure
  <2>3. held' \in [Position -> SUBSET Resource]
    BY <1>19, HoldType DEF FetchEnv, Resource
  <2> QED
    BY <1>1, <1>19, <2>2, <2>3 DEF TypeOK, FetchEnv, jumpVars, outVars
<1>20. CASE UNCHANGED vars
  BY <1>1, <1>20 DEF TypeOK, vars, jumpVars, poolVars, outVars
<1> QED
  BY <1>3, <1>4, <1>5, <1>6, <1>7, <1>8, <1>9, <1>10, <1>11, <1>12, <1>13,
     <1>14, <1>15, <1>16, <1>17, <1>18, <1>19, <1>20
     DEF Next, CallerStep, WorkerStep

\* Every variable has its type in every reachable state, whatever the aliases,
\* the config, the options and the number of jumps and workers.
THEOREM TypeCorrect == Spec => []TypeOK
BY InitType, NextType, PTL DEF Spec

-----------------------------------------------------------------------------
(* What a step of dialOne does, told without its stages.                   *)

DialStep(w) == Route(w) \/ Connect(w) \/ OpenAgent(w) \/ OpenSftp(w) \/ FetchEnv(w)

\* The worker goes on with its position or stores a result for it.
LEMMA DialStepEffect ==
  ASSUME TypeOK, NEW w \in Worker, DialStep(w)
  PROVE  /\ worker[w] \in [at : Stage, job : Position]
         /\ UNCHANGED <<phase, next, jumpVars, outVars>>
         /\ \/ \E stage \in Stage : Advance(w, stage)
            \/ \E r \in (Failure \ {"unprepared"}) \cup {"host"} : Finish(w, r)
            \/ /\ JumpFor(worker[w].job) # "none"
               /\ Finish(w, JumpFor(worker[w].job))
<1>1. worker[w] \in [at : Stage, job : Position]
  BY BusyWorker DEF DialStep, Route, Connect, OpenAgent, OpenSftp, FetchEnv, Stage
<1>2. CASE Route(w)
  BY <1>1, <1>2 DEF Route, Stage
<1>3. CASE Connect(w)
  BY <1>1, <1>3 DEF Connect, Stage, Failure
<1>4. CASE OpenAgent(w)
  BY <1>1, <1>4 DEF OpenAgent, Stage, Failure
<1>5. CASE OpenSftp(w)
  BY <1>1, <1>5 DEF OpenSftp, Stage, Failure
<1>6. CASE FetchEnv(w)
  BY <1>1, <1>6 DEF FetchEnv, Failure
<1> QED
  BY <1>2, <1>3, <1>4, <1>5, <1>6 DEF DialStep

\* Every step is one of the caller, of the pool's hand-over, or of dialOne.
LEMMA StepKinds ==
  ASSUME Next
  PROVE  \/ CallerStep
         \/ \E w \in Worker : Hand(w) \/ WorkerExits(w) \/ DialStep(w)
  BY DEF Next, WorkerStep, DialStep

\* dialOne only runs while the pool does.
LEMMA DialsInPool ==
  ASSUME TypeOK, PoolInv, NEW w \in Worker, DialStep(w)
  PROVE  phase \in {"schedule", "wait"}
<1>1. worker[w].job \in Position /\ Position \subseteq 1..Len(aliases)
  BY DialStepEffect, InputTypes
<1>2. worker[w].job # 0
  BY <1>1, InputTypes
<1> QED
  BY <1>2 DEF PoolInv

-----------------------------------------------------------------------------
(* The jumps.                                                              *)

LEMMA NextJumps == TypeOK /\ JumpsInv /\ [Next]_vars => JumpsInv'
<1> SUFFICES ASSUME TypeOK, JumpsInv, [Next]_vars PROVE JumpsInv'
  OBVIOUS
<1> USE DEF Phase
<1>1. /\ Position' = Position /\ \A i : Via(i)' = Via(i)
      /\ Len(aliases) \in Nat /\ Position = 1..Len(aliases)
      /\ next \in 1..(Len(aliases) + 1) /\ jumpDials \in [Jump -> Nat]
  BY NextKeepsInputs, SameInputs, InputTypes DEF TypeOK
<1>2. CASE ParseConfig
  BY <1>1, <1>2 DEF JumpsInv, ParseConfig, jumpVars
<1>3. CASE SkipJump
  BY <1>1, <1>3 DEF JumpsInv, SkipJump, MustDialJump, Settled, jumpVars
<1>4. CASE JumpConnects
  <2>1. Via(next) \in Jump \ (jumpClients \cup jumpErrs)
    BY <1>4 DEF JumpConnects, MustDialJump
  <2> QED
    BY <1>1, <1>4, <2>1 DEF JumpsInv, JumpConnects, DialJump, Settled
<1>5. CASE JumpFails
  <2>1. Via(next) \in Jump \ (jumpClients \cup jumpErrs)
    BY <1>5 DEF JumpFails, MustDialJump
  <2> QED
    BY <1>1, <1>5, <2>1 DEF JumpsInv, JumpFails, DialJump, Settled
<1>6. CASE StartDialing
  <2>1. \A i \in Position : i < next
    BY <1>1, <1>6 DEF StartDialing
  <2> QED
    BY <1>1, <1>6, <2>1 DEF JumpsInv, StartDialing, Settled, jumpVars
<1>7. CASE StopScheduling
  BY <1>1, <1>7 DEF JumpsInv, StopScheduling, Settled, jumpVars
<1>8. CASE Collect
  BY <1>1, <1>8 DEF JumpsInv, Collect, jumpVars
<1>9. ASSUME NEW i \in Position, CloseHost(i)
      PROVE  JumpsInv'
  BY <1>1, <1>9 DEF JumpsInv, CloseHost, jumpVars
<1>10. ASSUME NEW s \in Jump, CloseJump(s)
       PROVE  JumpsInv'
  BY <1>1, <1>10 DEF JumpsInv, CloseJump
<1>11. CASE ReturnError
  BY <1>1, <1>11 DEF JumpsInv, ReturnError, jumpVars
<1>12. ASSUME NEW w \in Worker, Hand(w) \/ WorkerExits(w) \/ DialStep(w)
       PROVE  JumpsInv'
  <2>1. UNCHANGED <<phase, jumpVars>> /\ (next' = next \/ phase = "schedule")
    BY <1>12, DialStepEffect DEF Hand, WorkerExits
  <2> QED
    BY <1>1, <2>1 DEF JumpsInv, Settled, jumpVars
<1>13. CASE UNCHANGED vars
  BY <1>1, <1>13 DEF JumpsInv, Settled, vars, jumpVars
<1> QED
  BY <1>2, <1>3, <1>4, <1>5, <1>6, <1>7, <1>8, <1>9, <1>10, <1>11, <1>12, <1>13,
     StepKinds DEF CallerStep

-----------------------------------------------------------------------------
(* The pool.                                                               *)

LEMMA WorkerJobs ==
  ASSUME TypeOK
  PROVE  /\ 0 \notin Position
         /\ Idle.job = 0 /\ Exited.job = 0 /\ Idle # Exited
         /\ \A w \in Worker : /\ worker[w].job \in Position \cup {0}
                             /\ worker[w].job = 0 <=> worker[w] \in {Idle, Exited}
<1>1. 0 \notin Position
  BY InputTypes
<1>2. Idle.job = 0 /\ Exited.job = 0 /\ Idle # Exited
  BY DEF Idle, Exited
<1> QED
  BY <1>1, <1>2 DEF TypeOK

LEMMA NextPool == TypeOK /\ PoolInv /\ [Next]_vars => PoolInv'
<1> SUFFICES ASSUME TypeOK, PoolInv, [Next]_vars PROVE PoolInv'
  OBVIOUS
<1> USE DEF Phase
<1>1. /\ cfg' = cfg /\ Position' = Position /\ Worker' = Worker
      /\ Len(aliases) \in Nat /\ Position = 1..Len(aliases)
      /\ next \in 1..(Len(aliases) + 1)
      /\ cfg.failFast \in BOOLEAN /\ abort \in BOOLEAN
  BY NextKeepsInputs, SameInputs, InputTypes DEF TypeOK
<1>2. CASE ParseConfig \/ SkipJump \/ JumpConnects \/ JumpFails
  <2>1. /\ UNCHANGED <<worker, abort, results, hosts>>
        /\ phase \in {"parse", "prepareJumps"}
        /\ phase' \notin {"schedule", "wait"}
    BY <1>2 DEF ParseConfig, SkipJump, JumpConnects, JumpFails, poolVars, outVars
  <2> QED
    BY <1>1, <2>1 DEF PoolInv
<1>3. CASE StartDialing
  <2>1. \A i \in Position : results[i] = "none" /\ \A w \in Worker : worker[w].job # i
    BY <1>1, <1>3, WorkerJobs DEF StartDialing, PoolInv
  <2>2. UNCHANGED <<worker, abort, results>> /\ next' = 1
        /\ phase' \in {"schedule", "returned"} /\ phase = "prepareJumps"
    BY <1>3 DEF StartDialing, poolVars
  <2> QED
    BY <1>1, <2>1, <2>2 DEF PoolInv
<1>4. CASE StopScheduling
  BY <1>1, <1>4 DEF PoolInv, StopScheduling, poolVars, outVars
<1>5. CASE Collect
  <2>1. \A w \in Worker : worker[w].job = 0
    BY <1>5, WorkerJobs DEF Collect
  <2> QED
    BY <1>1, <1>5, <2>1 DEF PoolInv, Collect, poolVars
<1>6. ASSUME \/ \E i \in Position : CloseHost(i)
             \/ \E s \in Jump : CloseJump(s)
             \/ ReturnError
      PROVE  PoolInv'
  <2>1. /\ UNCHANGED <<worker, abort, results, hosts>>
        /\ phase = "closeOnError" /\ phase' \in {"closeOnError", "returned"}
    BY <1>6 DEF CloseHost, CloseJump, ReturnError, poolVars, outVars
  <2> QED
    BY <1>1, <2>1 DEF PoolInv
<1>7. ASSUME NEW w \in Worker, Hand(w)
      PROVE  PoolInv'
  <2>1. /\ results[next] = "none" /\ \A v \in Worker : worker[v].job # next
        /\ next \in Position
    BY <1>1, <1>7 DEF Hand, PoolInv
  <2>2. /\ worker' \in [Worker -> {Idle, Exited} \cup [at : Stage, job : Position]]
        /\ worker'[w].job = next /\ worker[w].job = 0
        /\ \A v \in Worker \ {w} : worker'[v] = worker[v]
    BY <1>7, <2>1, WorkerJobs DEF Hand, TypeOK, Stage
  <2>3. UNCHANGED <<phase, abort, results, hosts>> /\ next' = next + 1
        /\ phase = "schedule"
    BY <1>7 DEF Hand, outVars
  <2>4. \A i \in Position : (\E v \in Worker : worker'[v].job = i)
           <=> (i = next \/ \E v \in Worker : worker[v].job = i)
    BY <2>1, <2>2, WorkerJobs
  <2>5. \A i \in Position : i < next + 1 <=> i = next \/ i < next
    BY <1>1
  <2> QED
    BY <1>1, <2>1, <2>2, <2>3, <2>4, <2>5 DEF PoolInv
<1>8. ASSUME NEW w \in Worker, WorkerExits(w)
      PROVE  PoolInv'
  <2>1. \A v \in Worker : worker'[v].job = worker[v].job
    BY <1>8, WorkerJobs DEF WorkerExits, TypeOK
  <2> QED
    BY <1>1, <1>8, <2>1 DEF PoolInv, WorkerExits, outVars
<1>9. ASSUME NEW w \in Worker, DialStep(w)
      PROVE  PoolInv'
  <2> DEFINE k == worker[w].job
  <2>1. /\ worker[w] \in [at : Stage, job : Position] /\ k \in Position
        /\ UNCHANGED <<phase, next, hosts>> /\ phase \in {"schedule", "wait"}
    BY <1>9, DialStepEffect, DialsInPool DEF outVars
  <2>2. CASE \E stage \in Stage : Advance(w, stage)
    <3>1. \A v \in Worker : worker'[v].job = worker[v].job
      BY <2>1, <2>2 DEF Advance, TypeOK
    <3> QED
      BY <1>1, <2>1, <2>2, <3>1 DEF PoolInv, Advance
  <2>3. ASSUME NEW r \in Failure \cup {"host"}, Finish(w, r)
        PROVE  PoolInv'
    <3>1. /\ worker'[w].job = 0
          /\ \A v \in Worker \ {w} : worker'[v] = worker[v]
          /\ results' = [results EXCEPT ![k] = r]
          /\ abort' = (abort \/ (cfg.failFast /\ r \in Failure))
      BY <1>1, <2>1, <2>3, WorkerJobs DEF Finish, TypeOK
    <3>2. /\ r # "none" /\ results'[k] = r /\ results[k] = "none"
          /\ \A i \in Position \ {k} : results'[i] = results[i]
          /\ \A v \in Worker \ {w} : worker[v].job # k
          /\ k < next
      BY <2>1, <3>1 DEF Failure, PoolInv, TypeOK
    <3>3. \A i \in Position : (\E v \in Worker : worker'[v].job = i)
             <=> (i # k /\ \E v \in Worker : worker[v].job = i)
      BY <2>1, <3>1, <3>2, WorkerJobs
    <3>4. \A i \in Position :
            i < next <=> (results'[i] # "none" \/ \E v \in Worker : worker'[v].job = i)
      BY <2>1, <3>2, <3>3 DEF PoolInv
    <3>5. \A v \in Worker : worker'[v].job \in Position =>
            /\ results'[worker'[v].job] = "none"
            /\ \A u \in Worker \ {v} : worker'[u].job # worker'[v].job
      BY <3>1, <3>2, WorkerJobs DEF PoolInv
    <3>6. abort' => cfg.failFast /\ \E i \in Position : results'[i] \in Failure
      <4>1. CASE abort
        <5>1. PICK i \in Position : cfg.failFast /\ results[i] \in Failure
          BY <4>1 DEF PoolInv
        <5>2. i # k
          BY <3>2, <5>1 DEF Failure
        <5> QED
          BY <3>2, <5>1, <5>2
      <4>2. CASE cfg.failFast /\ r \in Failure
        BY <2>1, <3>2, <4>2
      <4> QED
        BY <3>1, <4>1, <4>2
    <3>7. phase = "wait" => abort' \/ next \notin Position
      BY <3>1 DEF PoolInv
    <3> QED
      BY <1>1, <2>1, <3>4, <3>5, <3>6, <3>7 DEF PoolInv
  <2> QED
    BY <1>9, <2>2, <2>3, DialStepEffect DEF JumpFor, Failure
<1>10. CASE UNCHANGED vars
  BY <1>1, <1>10 DEF PoolInv, vars, poolVars, outVars
<1> QED
  BY <1>2, <1>3, <1>4, <1>5, <1>6, <1>7, <1>8, <1>9, <1>10, StepKinds
     DEF CallerStep

-----------------------------------------------------------------------------
(* The safety properties.                                                  *)

\* A prepared position is never reported as not prepared.
LEMMA NextPrepared ==
  TypeOK /\ JumpsInv /\ PoolInv /\ JumpsPrepared /\ [Next]_vars => JumpsPrepared'
<1> SUFFICES ASSUME TypeOK, JumpsInv, PoolInv, JumpsPrepared, [Next]_vars
             PROVE  JumpsPrepared'
  OBVIOUS
<1>1. Position' = Position
  BY NextKeepsInputs, SameInputs
<1>2. CASE UNCHANGED results
  BY <1>1, <1>2 DEF JumpsPrepared
<1>3. ASSUME NEW w \in Worker, DialStep(w)
      PROVE  JumpsPrepared'
  <2> DEFINE k == worker[w].job
  <2>1. k \in Position /\ phase \in {"schedule", "wait"}
    BY <1>3, DialStepEffect, DialsInPool
  <2>2. JumpFor(k) # "unprepared"
    BY <2>1, InputTypes DEF JumpsInv, Settled, JumpFor
  <2>3. CASE \E stage \in Stage : Advance(w, stage)
    BY <1>2, <2>3 DEF Advance
  <2>4. ASSUME NEW r, r # "unprepared", Finish(w, r)
        PROVE  JumpsPrepared'
    BY <1>1, <2>1, <2>4 DEF JumpsPrepared, Finish, TypeOK
  <2> QED
    BY <1>3, <2>2, <2>3, <2>4, DialStepEffect
<1>4. CASE CallerStep
  BY <1>2, <1>4 DEF CallerStep, ParseConfig, SkipJump, JumpConnects, JumpFails,
     StartDialing, StopScheduling, Collect, CloseHost, CloseJump, ReturnError, poolVars
<1>5. ASSUME NEW w \in Worker, Hand(w) \/ WorkerExits(w)
      PROVE  JumpsPrepared'
  BY <1>2, <1>5 DEF Hand, WorkerExits
<1>6. CASE UNCHANGED vars
  BY <1>2, <1>6 DEF vars, poolVars
<1> QED
  BY <1>3, <1>4, <1>5, <1>6, StepKinds

\* Once the call has an answer no dial is running, so results and hosts agree.
LEMMA NextAnswer == TypeOK /\ PoolInv /\ AnswerInv /\ [Next]_vars => AnswerInv'
<1> SUFFICES ASSUME TypeOK, PoolInv, AnswerInv, [Next]_vars PROVE AnswerInv'
  OBVIOUS
<1> USE DEF Phase
<1>1. Position' = Position
  BY NextKeepsInputs, SameInputs
<1>2. UNCHANGED results => Connected' = Connected
  BY <1>1 DEF Connected
<1>3. phase \in {"parse", "prepareJumps"} => hosts = {} /\ Connected = {}
  BY DEF PoolInv, Connected
<1>4. CASE ParseConfig \/ SkipJump \/ JumpConnects \/ JumpFails \/ StartDialing
  <2>1. /\ UNCHANGED <<results, hosts>> /\ phase \in {"parse", "prepareJumps"}
        /\ phase' \notin {"closeOnError", "returned"} => ret' = ret
        /\ phase' = "closeOnError" => ret' # NoError
    <3>1. \A who : ErrorOf("jump", who) # NoError
      BY DEF ErrorOf, NoError
    <3>2. CASE JumpFails
      BY <3>1, <3>2 DEF JumpFails, poolVars
    <3>3. CASE ParseConfig \/ SkipJump \/ JumpConnects \/ StartDialing
      BY <3>3 DEF ParseConfig, SkipJump, JumpConnects, StartDialing, poolVars, outVars
    <3> QED
      BY <1>4, <3>2, <3>3
  <2> QED
    BY <1>2, <1>3, <2>1 DEF AnswerInv
<1>5. CASE StopScheduling
  BY <1>5 DEF AnswerInv, StopScheduling, outVars
<1>6. CASE Collect
  BY <1>2, <1>6 DEF AnswerInv, Collect, poolVars
<1>7. ASSUME \/ \E i \in Position : CloseHost(i)
             \/ \E s \in Jump : CloseJump(s)
             \/ ReturnError
      PROVE  AnswerInv'
  <2>1. /\ UNCHANGED <<results, hosts, ret>>
        /\ phase = "closeOnError" /\ phase' \in {"closeOnError", "returned"}
    BY <1>7 DEF CloseHost, CloseJump, ReturnError, poolVars, outVars
  <2> QED
    BY <1>2, <2>1 DEF AnswerInv
<1>8. ASSUME NEW w \in Worker, Hand(w) \/ WorkerExits(w) \/ DialStep(w)
      PROVE  AnswerInv'
  <2>1. CASE Hand(w)
    BY <1>2, <2>1 DEF AnswerInv, Hand, outVars
  <2>2. CASE WorkerExits(w)
    BY <1>2, <2>2 DEF AnswerInv, WorkerExits, outVars
  <2>3. CASE DialStep(w)
    BY <2>3, DialStepEffect, DialsInPool DEF AnswerInv, outVars
  <2> QED
    BY <1>8, <2>1, <2>2, <2>3
<1>9. CASE UNCHANGED vars
  BY <1>2, <1>9 DEF AnswerInv, vars, poolVars, outVars
<1> QED
  BY <1>4, <1>5, <1>6, <1>7, <1>8, <1>9, StepKinds DEF CallerStep

LEMMA NextReleases ==
  TypeOK /\ JumpsInv /\ PoolInv /\ AnswerInv /\ ErrorReleasesOwned /\ [Next]_vars
    => ErrorReleasesOwned'
<1> SUFFICES ASSUME TypeOK, JumpsInv, PoolInv, AnswerInv, ErrorReleasesOwned,
                    [Next]_vars, phase' = "returned", ret' # NoError
             PROVE  (jumpOpen = {} /\ \A i \in Connected : held[i] = {})'
  BY DEF ErrorReleasesOwned
<1>1. Position' = Position /\ Position = 1..Len(aliases) /\ Len(aliases) \in Nat
  BY NextKeepsInputs, SameInputs, InputTypes
<1>2. UNCHANGED results => Connected' = Connected
  BY <1>1 DEF Connected
<1>3. CASE ParseConfig
  BY <1>1, <1>3 DEF JumpsInv, PoolInv, Connected, ParseConfig, jumpVars, poolVars
<1>4. CASE ReturnError
  <2>1. hosts = Connected /\ jumpOpen = {}
    BY <1>4 DEF ReturnError, AnswerInv, JumpsInv
  <2>2. \A i \in Connected : held[i] = {}
    BY <1>1, <1>4, <2>1 DEF ReturnError, HostsClosed, Connected
  <2> QED
    BY <1>2, <1>4, <2>1, <2>2 DEF ReturnError, jumpVars, poolVars
<1>5. CASE StartDialing \/ Collect
  BY <1>5 DEF StartDialing, Collect
<1>6. CASE UNCHANGED vars
  BY <1>2, <1>6 DEF vars, jumpVars, poolVars, outVars, ErrorReleasesOwned
<1>7. ASSUME NEW w \in Worker, Hand(w) \/ WorkerExits(w) \/ DialStep(w)
      PROVE  FALSE
  BY <1>7, DialStepEffect, DialsInPool DEF Hand, WorkerExits
<1>8. CASE \/ SkipJump \/ JumpConnects \/ JumpFails \/ StopScheduling
           \/ \E i \in Position : CloseHost(i)
           \/ \E s \in Jump : CloseJump(s)
  BY <1>8 DEF SkipJump, JumpConnects, JumpFails, StopScheduling, CloseHost, CloseJump
<1> QED
  BY <1>3, <1>4, <1>5, <1>6, <1>7, <1>8, StepKinds DEF CallerStep

\* The step of the argument that is about FailFast: when Collect runs, every
\* alias before the earliest failure has a result, so it is a host.
LEMMA CollectEarliest ==
  ASSUME TypeOK, PoolInv, Distinct, Collect, FailedAliases # {}
  PROVE  \E i \in Failed : /\ FirstDialError = ErrorOf("target", aliases[i])
                           /\ \A j \in 1..(i - 1) : results[j] = "host"
<1> DEFINE S == {i \in Position : aliases[i] \in FailedAliases}
           first == Min(S)
<1>1. Position = 1..Len(aliases) /\ Len(aliases) \in Nat /\ next \in Nat
  BY InputTypes DEF TypeOK
<1>2. S = Failed
  BY DEF FailedAliases, Failed, Distinct
<1>3. first \in Failed /\ \A x \in Failed : first <= x
  <2>1. S \in SUBSET Nat /\ S # {}
    BY <1>1, <1>2 DEF FailedAliases
  <2>2. Min(S) \in S /\ \A x \in S : Min(S) <= x
    <3> HIDE DEF S
    <3> QED
      BY <2>1, MinIsLeast
  <2> QED
    BY <1>2, <2>2
<1>4. FirstDialError = ErrorOf("target", aliases[first])
  BY DEF FirstDialError
<1> HIDE DEF first
<1>5. first \in Position /\ first < next
  BY <1>3 DEF Failed, Failure, PoolInv, Collect
<1>6. \A w \in Worker : worker[w].job = 0
  BY WorkerJobs DEF Collect
<1>7. ASSUME NEW j \in 1..(first - 1)
      PROVE  results[j] = "host"
  <2>1. j \in Position /\ j < next /\ ~ (first <= j) /\ j # 0
    BY <1>1, <1>5
  <2>2. results[j] # "none"
    BY <1>6, <2>1 DEF PoolInv, Collect
  <2>3. results[j] \notin Failure
    BY <1>3, <2>1 DEF Failed
  <2>4. results[j] \in Result
    BY <2>1 DEF TypeOK
  <2> QED
    BY <2>2, <2>3, <2>4 DEF Result
<1> QED
  BY <1>3, <1>4, <1>7

LEMMA NextEarliest ==
  TypeOK /\ PoolInv /\ AnswerInv /\ FailFastEarliest /\ [Next]_vars
    => FailFastEarliest'
<1> SUFFICES ASSUME TypeOK, PoolInv, AnswerInv, FailFastEarliest, [Next]_vars,
                    Distinct', (ret.kind = "target")'
             PROVE  (\E i \in Failed : /\ ret.who = aliases[i]
                                       /\ \A j \in 1..(i - 1) : results[j] = "host")'
  BY DEF FailFastEarliest
<1>1. Position' = Position /\ aliases' = aliases
  BY NextKeepsInputs, SameInputs
<1>2. Distinct
  BY <1>1 DEF Distinct
<1>3. UNCHANGED results => Failed' = Failed
  BY <1>1 DEF Failed
<1>4. CASE UNCHANGED <<results, ret>>
  BY <1>1, <1>2, <1>3, <1>4 DEF FailFastEarliest
<1>5. CASE Collect
  <2>1. FailedAliases # {} /\ ret' = FirstDialError
    BY <1>5 DEF Collect, DialAllError, AllFailedError, FirstDialError, NoError, ErrorOf
  <2>2. PICK i \in Failed : /\ FirstDialError = ErrorOf("target", aliases[i])
                            /\ \A j \in 1..(i - 1) : results[j] = "host"
    BY <1>2, <1>5, <2>1, CollectEarliest
  <2>3. ret'.who = aliases[i]
    BY <2>1, <2>2 DEF ErrorOf
  <2> QED
    BY <1>1, <1>3, <1>5, <2>2, <2>3 DEF Collect, poolVars
<1>6. CASE ParseConfig \/ StartDialing \/ JumpFails
  <2>1. NoError.kind = "nil" /\ \A kind, who : ErrorOf(kind, who).kind = kind
    BY DEF ErrorOf, NoError
  <2>2. CASE JumpFails
    BY <1>4, <2>1, <2>2 DEF JumpFails, poolVars
  <2>3. CASE ParseConfig \/ StartDialing
    BY <1>4, <2>1, <2>3 DEF ParseConfig, StartDialing, poolVars
  <2> QED
    BY <1>6, <2>2, <2>3
<1>7. ASSUME NEW w \in Worker, DialStep(w)
      PROVE  FALSE
  <2>1. ret' = ret /\ ret = Pending
    BY <1>7, DialStepEffect, DialsInPool DEF AnswerInv, outVars
  <2> QED
    BY <2>1 DEF Pending
<1>8. CASE \/ SkipJump \/ JumpConnects \/ StopScheduling \/ ReturnError
           \/ \E i \in Position : CloseHost(i)
           \/ \E s \in Jump : CloseJump(s)
           \/ \E w \in Worker : Hand(w) \/ WorkerExits(w)
           \/ UNCHANGED vars
  BY <1>4, <1>8 DEF SkipJump, JumpConnects, StopScheduling, CloseHost, CloseJump,
     ReturnError, Hand, WorkerExits, vars, poolVars, outVars
<1> QED
  BY <1>5, <1>6, <1>7, <1>8, StepKinds DEF CallerStep

-----------------------------------------------------------------------------
(* The theorems.                                                           *)

LEMMA InitInv == Init => DialInv
<1> SUFFICES ASSUME Init PROVE DialInv
  OBVIOUS
<1>1. TypeOK
  BY InitType
<1>2. \A w \in Worker : worker[w].job = 0
  BY DEF Init, Idle
<1>3. JumpsInv
  BY DEF Init, JumpsInv
<1>4. 0 \notin Position
  BY <1>1, InputTypes
<1>5. PoolInv
  BY <1>2, <1>4 DEF Init, PoolInv
<1>6. JumpsPrepared /\ AnswerInv /\ ErrorReleasesOwned
  BY DEF Init, JumpsPrepared, AnswerInv, ErrorReleasesOwned
<1>7. FailFastEarliest
  BY DEF Init, FailFastEarliest, Pending
<1> QED
  BY <1>1, <1>3, <1>5, <1>6, <1>7 DEF DialInv

LEMMA NextInv == DialInv /\ [Next]_vars => DialInv'
  BY NextType, NextJumps, NextPool, NextPrepared, NextAnswer, NextReleases,
     NextEarliest DEF DialInv

\* The inductive invariant of NewSSHGroup holds in every reachable state: what
\* the maps, the workers, the results and the answer owe to one another.
THEOREM DialInvAlways == Spec => []DialInv
  BY InitInv, NextInv, PTL DEF Spec

\* jumpFor never meets a jump that prepareJumps left out.
THEOREM JumpsPreparedAlways == Spec => []JumpsPrepared
<1>1. DialInv => JumpsPrepared
  BY DEF DialInv
<1> QED
  BY <1>1, DialInvAlways, PTL

\* No ProxyJump spec is dialed twice, however many aliases share it.
THEOREM JumpDialedOnceAlways == Spec => []JumpDialedOnce
<1>1. DialInv => JumpDialedOnce
  BY DEF DialInv, JumpsInv, JumpDialedOnce
<1> QED
  BY <1>1, DialInvAlways, PTL

\* An error leaves no host of the dialer and no jump connection open.
THEOREM ErrorReleasesOwnedAlways == Spec => []ErrorReleasesOwned
<1>1. DialInv => ErrorReleasesOwned
  BY DEF DialInv
<1> QED
  BY <1>1, DialInvAlways, PTL

\* FailFast blames the earliest alias that failed, for every pool size.
THEOREM FailFastEarliestAlways == Spec => []FailFastEarliest
<1>1. DialInv => FailFastEarliest
  BY DEF DialInv
<1> QED
  BY <1>1, DialInvAlways, PTL

-----------------------------------------------------------------------------
(***************************************************************************)
(* How far a failing FailFast call goes, what a group accounts for, and    *)
(* that no jump is closed under a host.                                    *)
(***************************************************************************)

\* With FailFast every failure has ended a worker.  One worker alone is done with
\* an alias before it is handed the next, and once one failed it takes no more.
StopInv ==
  cfg.failFast =>
    /\ Cardinality(Failed) <= Cardinality({w \in Worker : worker[w] = Exited})
    /\ WorkerCount = 1 =>
         /\ \A i \in Failed : worker[1] = Exited /\ next = i + 1
         /\ \A i \in Failed, j \in Position : j > i => results[j] = "none"
         /\ worker[1].job # 0 => next = worker[1].job + 1

\* The call has not failed: it runs, or it returned a group.
Keeping == phase # "closeOnError" /\ (phase = "returned" => ret = NoError)

\* What a dial holds at the stage it has reached, and what a host holds until its
\* group is closed.
HeldInv ==
  /\ \A w \in Worker : worker[w].at \in {"agent", "sftp", "env"} =>
       "client" \in held[worker[w].job]
  /\ \A w \in Worker : worker[w].at = "env" => "sftpClient" \in held[worker[w].job]
  /\ Keeping => \A i \in Connected : {"client", "sftpClient"} \subseteq held[i]

\* What HeldInv and the promise of a group rest on.
AccountInv ==
  /\ HeldInv
  /\ phase \notin {"closeOnError", "returned"} => dialErrs = <<>>
  /\ GroupAccountsForAll

-----------------------------------------------------------------------------
(* How far a failing FailFast call goes.                                   *)

ExitedWorkers == {w \in Worker : worker[w] = Exited}

\* The pool and its positions are finite.
LEMMA FinitePool ==
  ASSUME TypeOK
  PROVE  /\ IsFiniteSet(Failed) /\ IsFiniteSet(ExitedWorkers)
         /\ Cardinality(Failed) \in Nat /\ Cardinality(ExitedWorkers) \in Nat
         /\ WorkerCount \in Int
<1>1. Len(aliases) \in Nat /\ Position = 1..Len(aliases) /\ cfg.dialConcurrency \in Int
  BY InputTypes, InputsAssumption DEF TypeOK
<1>2. WorkerCount \in Int
  <2> DEFINE S == {cfg.dialConcurrency, Len(aliases)}
  <2>1. CASE cfg.dialConcurrency < 2
    BY <2>1 DEF WorkerCount
  <2>2. CASE ~ (cfg.dialConcurrency < 2)
    <3>1. S \in SUBSET Nat /\ S # {}
      BY <1>1, <2>2
    <3>2. Min(S) \in S
      <4> HIDE DEF S
      <4> QED
        BY <3>1, MinIsLeast
    <3> QED
      BY <1>1, <2>2, <3>1, <3>2 DEF WorkerCount
  <2> QED
    BY <2>1, <2>2
<1>3. IsFiniteSet(Position) /\ IsFiniteSet(Worker)
  BY <1>1, <1>2, FS_Interval DEF Worker
<1>4. Failed \in SUBSET Position /\ ExitedWorkers \in SUBSET Worker
  BY DEF Failed, ExitedWorkers
<1>5. IsFiniteSet(Failed) /\ IsFiniteSet(ExitedWorkers)
  BY <1>3, <1>4, FS_Subset
<1> QED
  BY <1>2, <1>5, FS_CardinalityType

\* A step that keeps the results, the workers and the hand-over keeps StopInv.
LEMMA SameStops ==
  ASSUME StopInv, UNCHANGED <<cfg, aliases, results, worker>>,
         next' = next \/ (Failed = {} /\ \A w \in Worker : worker[w].job = 0)
  PROVE  StopInv'
<1>1. /\ Failed' = Failed /\ ExitedWorkers' = ExitedWorkers
      /\ WorkerCount' = WorkerCount /\ Worker' = Worker /\ Position' = Position
  BY DEF Failed, Position, ExitedWorkers, Worker, WorkerCount
<1>2. WorkerCount = 1 => 1 \in Worker
  BY DEF Worker
<1> QED
  BY <1>1, <1>2 DEF StopInv, ExitedWorkers

LEMMA NextStop == TypeOK /\ PoolInv /\ StopInv /\ [Next]_vars => StopInv'
<1> SUFFICES ASSUME TypeOK, PoolInv, StopInv, [Next]_vars PROVE StopInv'
  OBVIOUS
<1>1. /\ cfg' = cfg /\ aliases' = aliases /\ Position' = Position /\ Worker' = Worker
      /\ WorkerCount' = WorkerCount /\ 0 \notin Position
      /\ cfg.failFast \in BOOLEAN /\ next \in Nat
  <2>1. cfg' = cfg /\ aliases' = aliases /\ Position' = Position /\ Worker' = Worker
    BY NextKeepsInputs, SameInputs
  <2>2. WorkerCount' = WorkerCount
    BY <2>1 DEF WorkerCount
  <2> QED
    BY <2>1, <2>2, InputTypes, WorkerJobs DEF TypeOK
<1>2. CASE ParseConfig \/ SkipJump \/ JumpConnects \/ JumpFails \/ StartDialing
  <2>1. UNCHANGED <<results, worker>> /\ phase \in {"parse", "prepareJumps"}
    BY <1>2 DEF ParseConfig, SkipJump, JumpConnects, JumpFails, StartDialing, poolVars
  <2>2. Failed = {} /\ \A w \in Worker : worker[w].job = 0
    BY <1>1, <2>1, WorkerJobs DEF PoolInv, Failed, Failure
  <2> QED
    BY <1>1, <2>1, <2>2, SameStops
<1>3. CASE \/ StopScheduling \/ Collect \/ ReturnError
           \/ \E i \in Position : CloseHost(i)
           \/ \E s \in Jump : CloseJump(s)
  <2>1. UNCHANGED <<results, worker, next>>
    BY <1>3 DEF StopScheduling, Collect, CloseHost, CloseJump, ReturnError, poolVars
  <2>2. next' = next \/ (Failed = {} /\ \A w \in Worker : worker[w].job = 0)
    BY <2>1
  <2> QED
    BY <1>1, <2>1, <2>2, SameStops
<1>4. ASSUME NEW w \in Worker, Hand(w)
      PROVE  StopInv'
  <2>1. /\ UNCHANGED results /\ worker[w] = Idle /\ next' = next + 1
        /\ worker' = [worker EXCEPT ![w] = [at |-> "route", job |-> next]]
    BY <1>4 DEF Hand
  <2>2. ExitedWorkers' = ExitedWorkers /\ Failed' = Failed
    BY <1>1, <2>1 DEF ExitedWorkers, Failed, Exited, Idle, TypeOK
  <2>3. ASSUME cfg.failFast, WorkerCount = 1
        PROVE  Failed = {} /\ next' = worker'[1].job + 1
    <3>1. w = 1
      BY <2>3 DEF Worker
    <3> QED
      BY <2>1, <2>3, <3>1 DEF StopInv, Idle, Exited, TypeOK
  <2> QED
    BY <1>1, <2>2, <2>3 DEF StopInv, ExitedWorkers
<1>5. ASSUME NEW w \in Worker, WorkerExits(w)
      PROVE  StopInv'
  <2>1. /\ UNCHANGED <<results, next>> /\ worker[w] = Idle
        /\ worker' = [worker EXCEPT ![w] = Exited]
    BY <1>5 DEF WorkerExits
  <2>2. Failed' = Failed
    BY <1>1, <2>1 DEF Failed
  <2>3. ExitedWorkers' = ExitedWorkers \cup {w} /\ w \notin ExitedWorkers
    BY <1>1, <2>1 DEF ExitedWorkers, Exited, Idle, TypeOK
  <2>4. Cardinality(ExitedWorkers') = Cardinality(ExitedWorkers) + 1
    BY <2>3, FinitePool, FS_AddElement
  <2>5. WorkerCount = 1 => w = 1
    BY DEF Worker
  <2> QED
    BY <1>1, <2>1, <2>2, <2>4, <2>5, FinitePool DEF StopInv, ExitedWorkers, TypeOK, Exited
<1>6. ASSUME NEW w \in Worker, DialStep(w)
      PROVE  StopInv'
  <2> DEFINE k == worker[w].job
  <2>1. /\ worker[w] \in [at : Stage, job : Position] /\ k \in Position
        /\ next' = next /\ results[k] = "none"
    BY <1>6, DialStepEffect DEF PoolInv
  <2>2. worker[w] # Exited /\ k # 0 /\ k \notin Failed
    BY <1>1, <2>1 DEF Exited, Stage, Failed, Failure
  <2>3. WorkerCount = 1 => w = 1
    BY DEF Worker
  <2>4. CASE \E stage \in Stage : Advance(w, stage)
    <3>1. /\ UNCHANGED results /\ worker'[w].job = k /\ worker'[w] # Exited
          /\ \A v \in Worker \ {w} : worker'[v] = worker[v]
      BY <2>1, <2>4 DEF Advance, TypeOK, Stage, Exited
    <3>2. Failed' = Failed /\ ExitedWorkers' = ExitedWorkers
      BY <1>1, <2>2, <3>1 DEF Failed, ExitedWorkers
    <3>3. ASSUME cfg.failFast, WorkerCount = 1
          PROVE  Failed = {} /\ next = worker'[1].job + 1
      BY <2>2, <2>3, <3>1, <3>3 DEF StopInv
    <3> QED
      BY <1>1, <2>1, <3>2, <3>3 DEF StopInv, ExitedWorkers
  <2>5. CASE Finish(w, "host")
    <3>1. /\ results' = [results EXCEPT ![k] = "host"]
          /\ worker' = [worker EXCEPT ![w] = Idle]
      BY <2>5 DEF Finish, Failure
    <3>2. Failed' = Failed
      BY <1>1, <2>2, <3>1 DEF Failed, Failure, TypeOK
    <3>3. ExitedWorkers' = ExitedWorkers
      BY <1>1, <2>2, <3>1 DEF ExitedWorkers, Exited, Idle, TypeOK
    <3>4. ASSUME cfg.failFast, WorkerCount = 1
          PROVE  Failed = {} /\ worker'[1].job = 0
      BY <2>2, <2>3, <3>1, <3>4 DEF StopInv, Idle, TypeOK
    <3> QED
      BY <1>1, <2>1, <3>2, <3>3, <3>4 DEF StopInv, ExitedWorkers
  <2>6. ASSUME NEW r \in Failure, Finish(w, r), cfg.failFast
        PROVE  StopInv'
    <3>1. /\ results' = [results EXCEPT ![k] = r]
          /\ worker' = [worker EXCEPT ![w] = Exited]
      BY <2>6 DEF Finish
    <3>2. Failed' = Failed \cup {k}
      BY <1>1, <2>1, <3>1 DEF Failed, TypeOK
    <3>3. ExitedWorkers' = ExitedWorkers \cup {w} /\ w \notin ExitedWorkers
      BY <1>1, <2>2, <3>1 DEF ExitedWorkers, TypeOK
    <3>4. /\ Cardinality(ExitedWorkers') = Cardinality(ExitedWorkers) + 1
          /\ Cardinality(Failed') = Cardinality(Failed) + 1
      BY <2>2, <3>2, <3>3, FinitePool, FS_AddElement
    <3>5. ASSUME WorkerCount = 1
          PROVE  Failed' = {k} /\ next' = k + 1 /\ worker'[1] = Exited
      BY <2>1, <2>2, <2>3, <2>6, <3>1, <3>2, <3>5 DEF StopInv, TypeOK
    <3>7. ASSUME WorkerCount = 1, NEW j \in Position, j > k
          PROVE  results'[j] = "none"
      <4>1. phase \in {"schedule", "wait"} /\ next = k + 1 /\ j \in Nat /\ k \in Nat
        BY <1>6, <2>1, <2>2, <2>3, <2>6, <3>7, DialsInPool, InputTypes DEF StopInv
      <4>2. results[j] = "none" /\ j # k
        BY <3>7, <4>1 DEF PoolInv
      <4> QED
        BY <3>1, <4>2 DEF TypeOK
    <3>6. Cardinality(Failed') <= Cardinality(ExitedWorkers')
      BY <2>6, <3>4, FinitePool DEF StopInv, ExitedWorkers
    <3> QED
      BY <1>1, <3>5, <3>6, <3>7 DEF StopInv, ExitedWorkers, Exited
  <2> QED
    BY <1>1, <1>6, <2>4, <2>5, <2>6, DialStepEffect DEF StopInv, JumpFor, Failure
<1>7. CASE UNCHANGED vars
  <2>1. UNCHANGED <<results, worker, next>>
    BY <1>7 DEF vars, poolVars
  <2>2. next' = next \/ (Failed = {} /\ \A w \in Worker : worker[w].job = 0)
    BY <2>1
  <2> QED
    BY <1>1, <2>1, <2>2, SameStops
<1> QED
  BY <1>2, <1>3, <1>4, <1>5, <1>6, <1>7, StepKinds DEF CallerStep

\* With FailFast no more dials fail than there are workers, and dialed one by one
\* no alias after the first failure is contacted: for every alias list, pool size
\* and interleaving of the workers (dialAll).
THEOREM FailFastStopsAlways == Spec => []FailFastStops
<1>1. Init => StopInv
  <2> SUFFICES ASSUME Init PROVE StopInv
    OBVIOUS
  <2>1. TypeOK /\ Failed = {} /\ \A w \in Worker : worker[w].job = 0
    BY InitType DEF Init, Failed, Failure, Idle
  <2>2. Cardinality(Failed) = 0
    BY <2>1, FS_EmptySet
  <2>3. WorkerCount = 1 => 1 \in Worker
    BY DEF Worker
  <2> QED
    BY <2>1, <2>2, <2>3, FinitePool DEF StopInv, ExitedWorkers
<1>2. DialInv /\ StopInv /\ [Next]_vars => StopInv'
  BY NextStop DEF DialInv
<1>3. DialInv /\ StopInv => FailFastStops
  <2> SUFFICES ASSUME DialInv, StopInv, cfg.failFast, WorkerCount = 1,
                      NEW i \in Failed, NEW j \in Position, j > i
               PROVE  results[j] = "none" /\ \A w \in Worker : worker[w].job # j
    BY DEF StopInv, FailFastStops
  <2>1. \A w \in Worker : worker[w].job = 0
    BY DEF StopInv, Exited, Worker
  <2>2. 0 \notin Position
    BY WorkerJobs DEF DialInv
  <2> QED
    BY <2>1, <2>2 DEF StopInv
<1> QED
  BY <1>1, <1>2, <1>3, DialInvAlways, PTL DEF Spec

-----------------------------------------------------------------------------
(* What a connection holds, and what a group accounts for.                 *)

\* A step of dialOne changes what its own position holds, and leaves a host with
\* its clients.
LEMMA DialStepHeld ==
  ASSUME TypeOK, HeldInv, NEW w \in Worker, DialStep(w)
  PROVE  /\ \A i \in Position \ {worker[w].job} : held'[i] = held[i]
         /\ \/ \E stage \in Stage :
                 /\ Advance(w, stage)
                 /\ stage \in {"agent", "sftp", "env"} => "client" \in held'[worker[w].job]
                 /\ stage = "env" => "sftpClient" \in held'[worker[w].job]
            \/ \E r \in Failure : Finish(w, r)
            \/ Finish(w, "host") /\ {"client", "sftpClient"} \subseteq held'[worker[w].job]
<1> DEFINE k == worker[w].job
<1>1. /\ worker[w] \in [at : Stage, job : Position] /\ k \in Position
      /\ held \in [Position -> SUBSET Resource]
  BY DialStepEffect DEF TypeOK
<1>2. /\ worker[w].at \in {"agent", "sftp", "env"} => "client" \in held[k]
      /\ worker[w].at = "env" => "sftpClient" \in held[k]
  BY DEF HeldInv
<1> USE DEF Stage, Failure, At, Hold, Release
<1>3. CASE Route(w)
  BY <1>1, <1>3 DEF Route, JumpFor
<1>4. CASE Connect(w)
  BY <1>1, <1>4 DEF Connect
<1>5. CASE OpenAgent(w)
  BY <1>1, <1>2, <1>5 DEF OpenAgent
<1>6. CASE OpenSftp(w)
  BY <1>1, <1>2, <1>6 DEF OpenSftp
<1>7. CASE FetchEnv(w)
  BY <1>1, <1>2, <1>7 DEF FetchEnv
<1> QED
  BY <1>3, <1>4, <1>5, <1>6, <1>7 DEF DialStep

\* Workers that keep their positions, and results and connections that stay as
\* they are, keep HeldInv.
LEMMA SameHeld ==
  ASSUME HeldInv, UNCHANGED <<aliases, results, held>>,
         \A w \in Worker' : w \in Worker /\ (worker'[w] = worker[w] \/ worker'[w].at \notin
                                             {"agent", "sftp", "env"}),
         Keeping' => Keeping
  PROVE  HeldInv'
<1>1. Connected' = Connected
  BY DEF Connected, Position
<1> QED
  BY <1>1 DEF HeldInv

LEMMA NextHeld == TypeOK /\ PoolInv /\ AnswerInv /\ HeldInv /\ [Next]_vars => HeldInv'
<1> SUFFICES ASSUME TypeOK, PoolInv, AnswerInv, HeldInv, [Next]_vars PROVE HeldInv'
  OBVIOUS
<1>1. aliases' = aliases /\ Position' = Position /\ Worker' = Worker
  BY NextKeepsInputs, SameInputs
<1>2. phase \notin {"closeOnError", "returned"} => Keeping
  BY DEF Keeping
<1>3. CASE \/ ParseConfig \/ SkipJump \/ JumpConnects \/ JumpFails \/ StartDialing
           \/ StopScheduling \/ Collect
  <2>1. UNCHANGED <<results, held, worker>> /\ phase \notin {"closeOnError", "returned"}
    BY <1>3 DEF ParseConfig, SkipJump, JumpConnects, JumpFails, StartDialing,
       StopScheduling, Collect, poolVars
  <2> QED
    BY <1>1, <1>2, <2>1, SameHeld
<1>4. ASSUME \/ \E i \in Position : CloseHost(i)
             \/ \E s \in Jump : CloseJump(s)
      PROVE  HeldInv'
  <2>1. /\ phase' = "closeOnError" /\ phase = "closeOnError" /\ worker' = worker
    BY <1>4 DEF CloseHost, CloseJump, poolVars
  <2>2. \A w \in Worker : worker[w].job = 0
    BY <2>1 DEF PoolInv
  <2>3. \A w \in Worker : worker[w].at \notin {"agent", "sftp", "env"}
    BY <2>2, WorkerJobs DEF Idle, Exited
  <2>4. ~ Keeping'
    BY <2>1 DEF Keeping
  <2> QED
    BY <1>1, <2>1, <2>3, <2>4 DEF HeldInv
<1>5. CASE ReturnError
  <2>1. UNCHANGED <<results, held, worker, ret>> /\ phase = "closeOnError"
    BY <1>5 DEF ReturnError, poolVars, outVars
  <2>2. ~ Keeping'
    BY <1>5, <2>1 DEF Keeping, AnswerInv, ReturnError
  <2> QED
    BY <1>1, <2>1, <2>2, SameHeld
<1>6. ASSUME NEW w \in Worker, Hand(w) \/ WorkerExits(w)
      PROVE  HeldInv'
  <2>1. UNCHANGED <<results, held, phase, ret>>
    BY <1>6 DEF Hand, WorkerExits, outVars
  <2>2. \A v \in Worker : worker'[v] = worker[v] \/ worker'[v].at \notin {"agent", "sftp", "env"}
    BY <1>6 DEF Hand, WorkerExits, TypeOK, Exited
  <2> QED
    BY <1>1, <2>1, <2>2, SameHeld DEF Keeping
<1>7. ASSUME NEW w \in Worker, DialStep(w)
      PROVE  HeldInv'
  <2> DEFINE k == worker[w].job
  <2>1. /\ worker[w] \in [at : Stage, job : Position] /\ k \in Position
        /\ UNCHANGED <<phase, ret>> /\ results[k] = "none"
        /\ \A v \in Worker \ {w} : worker[v].job # k
    BY <1>7, DialStepEffect DEF outVars, PoolInv
  <2>2. \A i \in Position \ {k} : held'[i] = held[i]
    BY <1>7, DialStepHeld
  <2>3. \A v \in Worker : worker[v].at \in {"agent", "sftp", "env"} => worker[v].job \in Position
    BY DEF TypeOK, Idle, Exited
  <2>4. Keeping /\ Keeping'
    BY <2>1, <1>7, DialsInPool DEF Keeping
  <2>5. ASSUME NEW stage \in Stage, Advance(w, stage),
               stage \in {"agent", "sftp", "env"} => "client" \in held'[k],
               stage = "env" => "sftpClient" \in held'[k]
        PROVE  HeldInv'
    <3>1. /\ worker'[w].at = stage /\ worker'[w].job = k /\ Connected' = Connected
          /\ \A v \in Worker \ {w} : worker'[v] = worker[v]
      BY <1>1, <2>1, <2>5 DEF Advance, TypeOK, Connected
    <3>2. \A i \in Connected : held'[i] = held[i]
      BY <2>1, <2>2 DEF Connected
    <3> QED
      BY <1>1, <2>1, <2>2, <2>3, <2>4, <2>5, <3>1, <3>2 DEF HeldInv
  <2>6. ASSUME NEW r \in Failure \cup {"host"}, Finish(w, r),
               r = "host" => {"client", "sftpClient"} \subseteq held'[k]
        PROVE  HeldInv'
    <3>1. /\ worker'[w] \in {Idle, Exited} /\ results' = [results EXCEPT ![k] = r]
          /\ \A v \in Worker \ {w} : worker'[v] = worker[v]
      BY <2>1, <2>6 DEF Finish, TypeOK
    <3>2. worker'[w].at \notin {"agent", "sftp", "env"}
      BY <3>1 DEF Idle, Exited
    <3>3. \A i \in Connected' : \/ i \in Connected /\ i # k
                                \/ i = k /\ r = "host"
      BY <1>1, <2>1, <3>1 DEF Connected, TypeOK
    <3>4. \A i \in Connected' : {"client", "sftpClient"} \subseteq held'[i]
      BY <2>2, <2>4, <2>6, <3>3 DEF HeldInv, Connected
    <3>5. \A v \in Worker : worker'[v].at \in {"agent", "sftp", "env"} =>
            v # w /\ worker'[v] = worker[v] /\ held'[worker[v].job] = held[worker[v].job]
      BY <2>1, <2>2, <2>3, <3>1, <3>2
    <3> QED
      BY <1>1, <3>4, <3>5 DEF HeldInv
  <2>7. \A r \in Failure : r # "host"
    BY DEF Failure
  <2> HIDE DEF HeldInv
  <2> QED
    BY <1>7, <2>5, <2>6, <2>7, DialStepHeld
<1>8. CASE UNCHANGED vars
  <2>1. UNCHANGED <<results, held, worker, phase, ret>>
    BY <1>8 DEF vars, poolVars, outVars
  <2> QED
    BY <1>1, <2>1, SameHeld DEF Keeping
<1> QED
  BY <1>3, <1>4, <1>5, <1>6, <1>7, <1>8, StepKinds DEF CallerStep

\* Collect ends the call with a group only when every position has its result.
LEMMA CollectComplete ==
  ASSUME TypeOK, PoolInv, Collect, DialAllError = NoError
  PROVE  /\ Position \ Connected = Failed
         /\ cfg.failFast => FailedAliases = {}
         /\ Connected = {} => FailedAliases = {}
<1>1. cfg.failFast => FirstDialError = NoError
  BY DEF DialAllError
<1>2. AllFailedError = NoError
  BY DEF DialAllError
<1>3. FirstDialError = NoError => FailedAliases = {}
  BY DEF FirstDialError, ErrorOf, NoError
<1>4. Connected = {} => FailedAliases = {}
  BY <1>2 DEF AllFailedError, ErrorOf, NoError
<1>5. ~ abort
  BY <1>1, <1>3 DEF PoolInv, FailedAliases, Failed
<1>6. /\ next \notin Position /\ next \in 1..(Len(aliases) + 1)
      /\ Position = 1..Len(aliases) /\ Len(aliases) \in Nat
  BY <1>5, InputTypes DEF Collect, PoolInv, TypeOK
<1>7. \A w \in Worker : worker[w].job = 0
  BY WorkerJobs DEF Collect
<1>8. \A i \in Position : i < next /\ i # 0
  BY <1>6
<1>9. \A i \in Position : results[i] # "none"
  BY <1>7, <1>8 DEF Collect, PoolInv
<1> QED
  BY <1>1, <1>3, <1>4, <1>9 DEF TypeOK, Result, Connected, Failed, Failure

\* The map of dial errors holds a result of every alias that failed.
LEMMA DialErrsOfFailed ==
  ASSUME TypeOK
  PROVE  /\ DOMAIN DialErrs = FailedAliases
         /\ \A a \in FailedAliases : \E i \in Failed :
              aliases[i] = a /\ results[i] = DialErrs[a]
         /\ FailedAliases = {} => DialErrs = <<>>
<1>1. DOMAIN DialErrs = FailedAliases
  BY DEF DialErrs
<1>2. ASSUME NEW a \in FailedAliases
      PROVE  \E i \in Failed : aliases[i] = a /\ results[i] = DialErrs[a]
  <2> DEFINE S == {i \in Failed : aliases[i] = a}
  <2>1. S \in SUBSET (1..Len(aliases)) /\ S # {} /\ Len(aliases) \in Nat
    BY InputTypes DEF FailedAliases, Failed
  <2>2. Max(S) \in S
    <3> HIDE DEF S
    <3> QED
      BY <2>1, MaxIsGreatest
  <2>3. DialErrs[a] = results[Max(S)]
    BY DEF DialErrs
  <2> QED
    BY <2>2, <2>3
<1>3. FailedAliases = {} => DialErrs = <<>>
  BY DEF DialErrs
<1> QED
  BY <1>1, <1>2, <1>3

\* In a call without aliases nothing is left to account for.
LEMMA CollectAccounts ==
  TypeOK /\ PoolInv /\ AccountInv /\ (Collect \/ StartDialing) => GroupAccountsForAll'
<1> SUFFICES ASSUME TypeOK, PoolInv, AccountInv, Collect \/ StartDialing,
                    phase' = "returned", ret' = NoError
             PROVE  GroupAccountsForAll'
  BY DEF GroupAccountsForAll
<1>1. UNCHANGED <<inputs, results, held>>
  BY DEF Collect, StartDialing, poolVars
<1>2. aliases' = aliases /\ cfg' = cfg /\ Position' = Position
  BY <1>1, SameInputs
<1>3. Position = 1..Len(aliases) /\ Len(aliases) \in Nat /\ aliases \in Seq(Alias)
  BY InputTypes
<1>4. CASE StartDialing
  <2>1. aliases = <<>> /\ UNCHANGED <<hosts, dialErrs>> /\ dialErrs = <<>>
    BY <1>4 DEF StartDialing, AccountInv
  <2>2. Position = {}
    BY <1>3, <2>1
  <2>3. DOMAIN dialErrs' = {}
    BY <2>1
  <2> QED
    BY <1>2, <2>1, <2>2, <2>3 DEF GroupAccountsForAll
<1>5. CASE Collect
  <2>1. hosts' = Connected /\ dialErrs' = DialErrs /\ DialAllError = NoError
    BY <1>5 DEF Collect
  <2>2. Keeping
    BY <1>5 DEF Collect, Keeping
  <2>3. \A i \in Connected : {"client", "sftpClient"} \subseteq held[i]
    BY <2>2 DEF AccountInv, HeldInv
  <2>4. \A i \in Position \ Connected : aliases[i] \in DOMAIN DialErrs
    BY <1>5, <2>1, CollectComplete, DialErrsOfFailed DEF FailedAliases
  <2>5. \A a \in DOMAIN DialErrs : \E i \in Position \ Connected :
          aliases[i] = a /\ results[i] = DialErrs[a]
    BY <1>5, <2>1, CollectComplete, DialErrsOfFailed
  <2>6. cfg.failFast => DialErrs = <<>>
    BY <1>5, <2>1, CollectComplete, DialErrsOfFailed
  <2>7. ASSUME Connected = {}
        PROVE  aliases = <<>>
    <3>1. Position = {}
      BY <1>5, <2>1, <2>7, CollectComplete DEF FailedAliases
    <3>2. Len(aliases) = 0
      BY <1>3, <3>1
    <3> QED
      BY <1>3, <3>2
  <2> QED
    BY <1>1, <1>2, <2>1, <2>3, <2>4, <2>5, <2>6, <2>7 DEF GroupAccountsForAll
<1> QED
  BY <1>4, <1>5

LEMMA NextAccount == DialInv /\ AccountInv /\ [Next]_vars => AccountInv'
<1> SUFFICES ASSUME DialInv, AccountInv, [Next]_vars PROVE AccountInv'
  OBVIOUS
<1>1. TypeOK /\ PoolInv /\ AnswerInv
  BY DEF DialInv
<1>2. HeldInv'
  BY <1>1, NextHeld DEF AccountInv
<1>3. CASE Collect \/ StartDialing
  BY <1>1, <1>2, <1>3, CollectAccounts DEF AccountInv, Collect, StartDialing
<1>4. CASE \/ ParseConfig \/ SkipJump \/ JumpConnects \/ JumpFails \/ StopScheduling
           \/ ReturnError
           \/ \E i \in Position : CloseHost(i)
           \/ \E s \in Jump : CloseJump(s)
  <2>1. /\ dialErrs' = dialErrs
        /\ phase' \notin {"closeOnError", "returned"} => phase \notin {"closeOnError", "returned"}
    BY <1>4 DEF ParseConfig, SkipJump, JumpConnects, JumpFails, StopScheduling,
       ReturnError, CloseHost, CloseJump, outVars
  <2>2. phase' = "returned" => ret' # NoError
    <3>1. CASE ParseConfig
      BY <3>1 DEF ParseConfig, ErrorOf, NoError
    <3>2. CASE ReturnError
      BY <1>1, <3>2 DEF ReturnError, AnswerInv, outVars
    <3> QED
      BY <1>4, <3>1, <3>2 DEF SkipJump, JumpConnects, JumpFails, StopScheduling,
         CloseHost, CloseJump
  <2> QED
    BY <1>2, <2>1, <2>2 DEF AccountInv, GroupAccountsForAll
<1>5. ASSUME NEW w \in Worker, Hand(w) \/ WorkerExits(w) \/ DialStep(w)
      PROVE  AccountInv'
  <2>1. phase' = phase /\ dialErrs' = dialErrs /\ phase \in {"schedule", "wait"}
    BY <1>1, <1>5, DialStepEffect, DialsInPool DEF Hand, WorkerExits, outVars
  <2> QED
    BY <1>2, <2>1 DEF AccountInv, GroupAccountsForAll
<1>6. CASE UNCHANGED vars
  <2>1. UNCHANGED <<aliases, cfg, phase, ret, hosts, held, dialErrs, results>>
    BY <1>6 DEF vars, inputs, outVars, poolVars
  <2> QED
    BY <1>2, <2>1 DEF AccountInv, GroupAccountsForAll, Position
<1> QED
  BY <1>3, <1>4, <1>5, <1>6, StepKinds DEF CallerStep

\* A group that NewSSHGroup returns accounts for every alias of the call, for
\* every alias list (with duplicates), config, option and pool.
THEOREM GroupAccountsForAllAlways == Spec => []GroupAccountsForAll
<1>1. Init => AccountInv
  BY DEF Init, AccountInv, HeldInv, Idle, Connected, GroupAccountsForAll
<1>2. DialInv /\ AccountInv /\ [Next]_vars => AccountInv'
  BY NextAccount
<1>3. AccountInv => GroupAccountsForAll
  BY DEF AccountInv
<1> QED
  BY <1>1, <1>2, <1>3, DialInvAlways, PTL DEF Spec

-----------------------------------------------------------------------------
(* Shared jumps outlive the hosts they carry.                              *)

Tunnelled(i) == Via(i) \in Jump => Via(i) \in jumpClients

\* A dial past jumpFor, and a host, use a jump that prepareJumps opened; it stays
\* open as long as the host holds anything.
OpenInv ==
  /\ phase \notin {"closeOnError", "returned"} => jumpOpen = jumpClients
  /\ \A w \in Worker : worker[w].job \in Position /\ worker[w].at # "route"
       => Tunnelled(worker[w].job)
  /\ \A i \in Connected : Tunnelled(i)
  /\ phase = "closeOnError" =>
       \A i \in Connected : held[i] # {} /\ Via(i) \in Jump => Via(i) \in jumpOpen

LEMMA NextOpen == DialInv /\ OpenInv /\ [Next]_vars => OpenInv'
<1> SUFFICES ASSUME TypeOK, JumpsInv, PoolInv, AnswerInv, OpenInv, [Next]_vars
             PROVE  OpenInv'
  BY DEF DialInv
<1>1. /\ Position' = Position /\ Worker' = Worker /\ 0 \notin Position
      /\ \A i : Via(i)' = Via(i)
  BY NextKeepsInputs, SameInputs, WorkerJobs
<1>2. UNCHANGED results => Connected' = Connected
  BY <1>1 DEF Connected
<1>3. CASE \/ ParseConfig \/ SkipJump \/ JumpConnects \/ JumpFails
           \/ StartDialing \/ StopScheduling \/ Collect
  <2>1. /\ UNCHANGED <<results, worker, held>> /\ jumpClients \subseteq jumpClients'
        /\ phase \notin {"closeOnError", "returned"}
    BY <1>3 DEF ParseConfig, SkipJump, JumpConnects, JumpFails, StartDialing,
       StopScheduling, Collect, jumpVars, poolVars
  <2>2. jumpOpen' = jumpClients'
    BY <1>3, <2>1 DEF OpenInv, ParseConfig, SkipJump, JumpConnects, JumpFails,
       StartDialing, StopScheduling, Collect, DialJump, jumpVars
  <2>3. \A i \in Connected : Via(i) \in Jump => Via(i) \in jumpOpen'
    BY <2>1, <2>2 DEF OpenInv, Tunnelled
  <2> QED
    BY <1>1, <1>2, <2>1, <2>2, <2>3 DEF OpenInv, Tunnelled
<1>4. ASSUME NEW i \in Position, CloseHost(i)
      PROVE  OpenInv'
  <2>1. /\ UNCHANGED <<results, worker, jumpClients, jumpOpen>>
        /\ phase' = "closeOnError" /\ phase = "closeOnError"
        /\ held' = [held EXCEPT ![i] = {}]
    BY <1>4 DEF CloseHost, jumpVars, poolVars
  <2>2. \A j \in Connected : held'[j] # {} => held[j] # {}
    BY <2>1 DEF TypeOK, Connected
  <2> QED
    BY <1>1, <1>2, <2>1, <2>2 DEF OpenInv, Tunnelled
<1>5. ASSUME NEW s \in Jump, CloseJump(s)
      PROVE  OpenInv'
  <2>1. /\ UNCHANGED <<results, worker, jumpClients>>
        /\ phase' = "closeOnError" /\ phase = "closeOnError"
    BY <1>5 DEF CloseJump, poolVars
  <2>2. \A j \in Connected : held[j] = {}
    BY <1>5, <2>1, InputTypes DEF CloseJump, HostsClosed, AnswerInv, Connected
  <2>3. \A j \in Connected : held'[j] = {}
    BY <1>5, <2>2 DEF CloseJump, Connected
  <2> QED
    BY <1>1, <1>2, <2>1, <2>3 DEF OpenInv, Tunnelled
<1>6. CASE ReturnError
  <2>1. UNCHANGED <<results, worker, jumpClients>> /\ phase' = "returned"
    BY <1>6 DEF ReturnError, jumpVars, poolVars
  <2> QED
    BY <1>1, <1>2, <2>1 DEF OpenInv, Tunnelled
<1>7. ASSUME NEW w \in Worker, Hand(w) \/ WorkerExits(w)
      PROVE  OpenInv'
  <2>1. /\ UNCHANGED <<results, jumpClients, jumpOpen, held, phase>>
        /\ \A v \in Worker : \/ worker'[v] = worker[v]
                             \/ worker'[v].at = "route"
                             \/ worker'[v].job = 0
    BY <1>7 DEF Hand, WorkerExits, jumpVars, TypeOK, Exited
  <2> QED
    BY <1>1, <1>2, <2>1 DEF OpenInv, Tunnelled
<1>8. ASSUME NEW w \in Worker, DialStep(w)
      PROVE  OpenInv'
  <2> DEFINE k == worker[w].job
  <2>1. /\ worker[w] \in [at : Stage, job : Position] /\ k \in Position
        /\ UNCHANGED <<phase, jumpClients, jumpOpen>>
        /\ phase \in {"schedule", "wait"}
    BY <1>8, DialStepEffect, DialsInPool DEF jumpVars
  <2>2. JumpFor(k) = "none" => Tunnelled(k)
    <3>1. Via(k) \in Jump => Via(k) # GetError /\ Via(k) # Direct
      BY InputsAssumption
    <3> QED
      BY <3>1 DEF JumpFor, Tunnelled
  <2>3. ASSUME NEW stage \in Stage, Advance(w, stage)
        PROVE  OpenInv'
    <3>1. Tunnelled(k)
      <4>1. CASE Route(w)
        <5>1. ASSUME JumpFor(k) # "none"
              PROVE  FALSE
          <6>1. Finish(w, JumpFor(k))
            BY <4>1, <5>1 DEF Route
          <6>2. results' = [results EXCEPT ![k] = JumpFor(k)] /\ results' = results
            BY <2>3, <6>1 DEF Finish, Advance
          <6>3. results[k] = JumpFor(k) /\ results[k] = "none"
            BY <2>1, <6>2 DEF TypeOK, PoolInv
          <6> QED
            BY <5>1, <6>3
        <5> QED
          BY <2>2, <5>1
      <4>2. CASE ~ Route(w)
        BY <1>8, <2>1, <4>2 DEF DialStep, Connect, OpenAgent, OpenSftp, FetchEnv, At, OpenInv
      <4> QED
        BY <4>1, <4>2
    <3>2. /\ results' = results /\ worker'[w].job = k
          /\ \A v \in Worker \ {w} : worker'[v] = worker[v]
      BY <2>1, <2>3 DEF Advance, TypeOK
    <3> QED
      BY <1>1, <1>2, <2>1, <3>1, <3>2 DEF OpenInv, Tunnelled
  <2>4. ASSUME NEW r, Finish(w, r), r = "host" => Tunnelled(k)
        PROVE  OpenInv'
    <3>1. /\ results' = [results EXCEPT ![k] = r] /\ worker'[w].job = 0
          /\ \A v \in Worker \ {w} : worker'[v] = worker[v]
      BY <2>1, <2>4 DEF Finish, TypeOK, Idle, Exited
    <3>2. \A i \in Connected' : i \in Connected \/ (i = k /\ r = "host")
      BY <1>1, <2>1, <3>1 DEF TypeOK, Connected
    <3> QED
      BY <1>1, <2>1, <2>4, <3>1, <3>2 DEF OpenInv, Tunnelled
  <2>5. CASE Route(w)
    <3>1. JumpFor(k) # "host"
      BY DEF JumpFor
    <3>2. "connect" \in Stage
      BY DEF Stage
    <3> HIDE DEF k
    <3> QED
      BY <2>3, <2>4, <2>5, <3>1, <3>2 DEF Route, k
  <2>6. CASE ~ Route(w)
    <3>1. Tunnelled(k)
      BY <1>8, <2>1, <2>6 DEF DialStep, Connect, OpenAgent, OpenSftp, FetchEnv, At, OpenInv
    <3>2. \/ \E stage \in Stage : Advance(w, stage)
          \/ \E r : Finish(w, r)
      BY <1>8, DialStepEffect
    <3> QED
      BY <2>3, <2>4, <3>1, <3>2
  <2> QED
    BY <2>5, <2>6
<1>9. CASE UNCHANGED vars
  <2>1. UNCHANGED <<results, worker, held, phase, jumpClients, jumpOpen>>
    BY <1>9 DEF vars, jumpVars, poolVars
  <2> QED
    BY <1>1, <1>2, <2>1 DEF OpenInv, Tunnelled
<1> QED
  BY <1>3, <1>4, <1>5, <1>6, <1>7, <1>8, <1>9, StepKinds DEF CallerStep

\* Closing a host ends its own connection and no jump; a jump is only closed once
\* no host holds anything.
LEMMA CutOffStep ==
  ASSUME DialInv, OpenInv, Next, NEW i \in Connected, "client" \in held[i],
         "client" \notin held'[i], Via(i) \in Jump
  PROVE  Via(i) \in jumpOpen'
<1>1. TypeOK /\ PoolInv /\ AnswerInv /\ i \in Position /\ results[i] = "host"
  BY DEF DialInv, Connected
<1>2. held'[i] # held[i]
  OBVIOUS
<1>3. ASSUME NEW j \in Position, CloseHost(j)
      PROVE  Via(i) \in jumpOpen'
  BY <1>3 DEF CloseHost, OpenInv, jumpVars
<1>4. ASSUME NEW s \in Jump, CloseJump(s)
      PROVE  FALSE
  <2>1. held[i] = {}
    BY <1>1, <1>4, InputTypes DEF CloseJump, HostsClosed, AnswerInv
  <2> QED
    BY <2>1
<1>5. ASSUME NEW w \in Worker, DialStep(w)
      PROVE  FALSE
  <2>1. worker[w].job # i
    BY <1>1, <1>5 DEF PoolInv
  <2>2. held'[i] = held[i]
    BY <1>1, <1>5, <2>1 DEF DialStep, Route, Connect, OpenAgent, OpenSftp, FetchEnv,
       Hold, Release, TypeOK
  <2> QED
    BY <1>2, <2>2
<1>6. CASE \/ ParseConfig \/ SkipJump \/ JumpConnects \/ JumpFails
           \/ StartDialing \/ StopScheduling \/ Collect \/ ReturnError
           \/ \E w \in Worker : Hand(w) \/ WorkerExits(w)
  BY <1>2, <1>6 DEF ParseConfig, SkipJump, JumpConnects, JumpFails, StartDialing,
     StopScheduling, Collect, ReturnError, Hand, WorkerExits
<1> QED
  BY <1>3, <1>4, <1>5, <1>6, StepKinds DEF CallerStep

\* No shared jump is closed under a host that still uses it, however many hosts
\* share it and in whatever order closeOnError takes the jumps.
THEOREM NoHostCutOffAlways == Spec => NoHostCutOff
<1>1. Init => OpenInv
  <2> SUFFICES ASSUME Init PROVE OpenInv
    OBVIOUS
  <2>1. 0 \notin Position
    BY InitType, WorkerJobs
  <2> QED
    BY <2>1 DEF Init, OpenInv, Idle, Connected
<1>2. DialInv /\ OpenInv /\ [Next]_vars => OpenInv'
  BY NextOpen
<1>3. DialInv /\ OpenInv /\ [Next]_vars =>
        [\A i \in Connected :
           "client" \in held[i] /\ "client" \notin held'[i] /\ Via(i) \in Jump
             => Via(i) \in jumpOpen']_vars
  BY CutOffStep
<1> QED
  BY <1>1, <1>2, <1>3, DialInvAlways, PTL DEF Spec, NoHostCutOff

-----------------------------------------------------------------------------
(***************************************************************************)
(* NewSSHGroup implements DialPromise: under the mapping of GroupDial each *)
(* step of the caller, the pool and closeOnError is a step of the promise  *)
(* or changes nothing the promise speaks of.                               *)
(***************************************************************************)

\* Why a call may end with an error, told by the results.
NothingDialed     == \A i \in Position : results[i] = "none"
EarliestFailed    == cfg.failFast /\ \E i \in Failed :
                       \A j \in 1..(i - 1) : results[j] = "host"
EverythingFailed  == Connected = {} /\ \A i \in Position : results[i] # "none"
NoHope            == NothingDialed \/ EarliestFailed \/ EverythingFailed

\* closeOnError is only entered without hope.
HopeInv == phase = "closeOnError" => NoHope

-----------------------------------------------------------------------------
(* The promise in the dialer's own terms.                                  *)

LEMMA PromiseTerms ==
  ASSUME TypeOK
  PROVE  /\ Promise!Target = Position
         /\ Promise!Connected = Connected
         /\ Promise!Resolved = {i \in Position : results[i] # "none"}
         /\ \A i \in Position : Outcome[i] = "failed" <=> i \in Failed
<1>1. Promise!Target = Position
  BY InputTypes DEF Promise!Target
<1>2. \A i \in Position : /\ Outcome[i] = "untried" <=> results[i] = "none"
                          /\ Outcome[i] = "connected" <=> results[i] = "host"
                          /\ Outcome[i] = "failed" <=> i \in Failed
  BY DEF Outcome, Failed, Failure, TypeOK, Result
<1>3. Promise!Connected = Connected
  BY <1>1, <1>2 DEF Promise!Connected, Connected
<1>4. Promise!Resolved = {i \in Position : results[i] # "none"}
  BY <1>1, <1>2 DEF Promise!Resolved
<1> QED
  BY <1>1, <1>2, <1>3, <1>4

LEMMA NoHopeIsHopeless ==
  ASSUME TypeOK, NoHope
  PROVE  Promise!Hopeless
<1>1. CASE NothingDialed
  BY <1>1, PromiseTerms DEF NothingDialed, Promise!Hopeless
<1>2. CASE EarliestFailed
  <2>1. PICK i \in Failed : \A j \in 1..(i - 1) : results[j] = "host"
    BY <1>2 DEF EarliestFailed
  <2>2. i \in Position /\ Outcome[i] = "failed"
    BY PromiseTerms DEF Failed
  <2>3. 1..(i - 1) \subseteq Connected
    BY <2>1, <2>2, InputTypes DEF Connected
  <2>4. cfg.failFast
    BY <1>2 DEF EarliestFailed
  <2> QED
    BY <2>2, <2>3, <2>4, PromiseTerms DEF Promise!Hopeless
<1>3. CASE EverythingFailed
  BY <1>3, PromiseTerms DEF EverythingFailed, Promise!Hopeless
<1> QED
  BY <1>1, <1>2, <1>3 DEF NoHope

\* When Collect ends in an error there was no hope.
LEMMA CollectHope ==
  ASSUME TypeOK, PoolInv, Collect, DialAllError # NoError
  PROVE  NoHope
<1>1. /\ Position = 1..Len(aliases) /\ Len(aliases) \in Nat /\ 0 \notin Position
      /\ next \in 1..(Len(aliases) + 1)
  BY InputTypes, WorkerJobs DEF TypeOK
<1>2. \A w \in Worker : worker[w].job = 0
  BY WorkerJobs DEF Collect
<1>3. \A i \in Position : i < next <=> results[i] # "none"
  BY <1>1, <1>2 DEF Collect, PoolInv
<1>4. FailedAliases # {} /\ Failed # {}
  BY DEF DialAllError, AllFailedError, FirstDialError, FailedAliases
<1>5. CASE cfg.failFast
  <2>1. Failed \in SUBSET Nat
    BY <1>1 DEF Failed
  <2>2. Min(Failed) \in Failed /\ \A x \in Failed : Min(Failed) <= x
    BY <1>4, <2>1, MinIsLeast
  <2>3. PICK i \in Failed : \A x \in Failed : i <= x
    BY <2>2
  <2>4. i \in Position /\ i < next
    BY <1>3, <2>3 DEF Failed, Failure
  <2>5. ASSUME NEW j \in 1..(i - 1)
        PROVE  results[j] = "host"
    <3>1. j \in Position /\ j < next /\ ~ (i <= j)
      BY <1>1, <2>4
    <3>2. results[j] \notin Failure /\ results[j] # "none"
      BY <1>3, <2>3, <3>1 DEF Failed
    <3> QED
      BY <3>1, <3>2 DEF TypeOK, Result
  <2> QED
    BY <1>5, <2>3, <2>5 DEF NoHope, EarliestFailed
<1>6. CASE ~ cfg.failFast
  <2>1. Connected = {}
    BY <1>6 DEF DialAllError, AllFailedError
  <2>2. next \notin Position
    BY <1>6 DEF PoolInv, Collect
  <2>3. \A i \in Position : i < next
    BY <1>1, <2>2
  <2> QED
    BY <1>3, <2>1, <2>3 DEF NoHope, EverythingFailed
<1> QED
  BY <1>5, <1>6

LEMMA NextHope == DialInv /\ HopeInv /\ [Next]_vars => HopeInv'
<1> SUFFICES ASSUME TypeOK, PoolInv, AnswerInv, HopeInv, [Next]_vars,
                    phase' = "closeOnError"
             PROVE  NoHope'
  BY DEF DialInv, HopeInv
<1>1. Position' = Position /\ cfg' = cfg
  BY NextKeepsInputs, SameInputs
<1>2. ASSUME NoHope, UNCHANGED results
      PROVE  NoHope'
  BY <1>1, <1>2 DEF NoHope, NothingDialed, EarliestFailed, EverythingFailed, Failed,
     Connected
<1>3. CASE JumpFails
  BY <1>2, <1>3 DEF JumpFails, PoolInv, NoHope, NothingDialed, poolVars
<1>4. CASE Collect
  BY <1>2, <1>4, CollectHope DEF Collect, poolVars
<1>5. CASE \/ \E i \in Position : CloseHost(i)
           \/ \E s \in Jump : CloseJump(s)
           \/ UNCHANGED vars
  BY <1>2, <1>5 DEF HopeInv, CloseHost, CloseJump, vars, poolVars
<1>6. CASE \/ ParseConfig \/ SkipJump \/ JumpConnects \/ StartDialing \/ StopScheduling
           \/ ReturnError
           \/ \E w \in Worker : Hand(w) \/ WorkerExits(w) \/ DialStep(w)
  BY <1>6, DialStepEffect, DialsInPool DEF ParseConfig, SkipJump, JumpConnects,
     StartDialing, StopScheduling, ReturnError, Hand, WorkerExits, AnswerInv
<1> QED
  BY <1>3, <1>4, <1>5, <1>6, StepKinds DEF CallerStep

-----------------------------------------------------------------------------
(* The steps.                                                              *)

LEMMA InitPromise == Init => Promise!Init
<1> SUFFICES ASSUME Init PROVE Promise!Init
  OBVIOUS
<1>1. TypeOK /\ Len(aliases) \in Nat /\ cfg.failFast \in BOOLEAN
  BY InitType, InputTypes
<1>2. Promise!Target = Position
  BY <1>1, PromiseTerms
<1> QED
  BY <1>1, <1>2 DEF Init, Promise!Init, Connected, Outcome, Owned, Verdict

\* A step that changes neither the results, nor who holds anything, nor the
\* answer is no step of the promise.
LEMMA PromiseStutters ==
  ASSUME UNCHANGED <<aliases, cfg>>, Outcome' = Outcome, Owned' = Owned,
         Verdict' = Verdict
  PROVE  UNCHANGED Promise!vars
BY DEF Promise!vars

LEMMA NextPromise ==
  DialInv /\ AccountInv /\ HopeInv /\ [Next]_vars => [Promise!Next]_(Promise!vars)
<1> SUFFICES ASSUME DialInv, AccountInv, HopeInv, [Next]_vars
             PROVE  Promise!Next \/ UNCHANGED Promise!vars
  OBVIOUS
<1>1. /\ TypeOK /\ PoolInv /\ AnswerInv /\ TypeOK'
      /\ aliases' = aliases /\ cfg' = cfg /\ Position' = Position
  BY NextType, NextKeepsInputs, SameInputs DEF DialInv
<1>2. UNCHANGED results => Outcome' = Outcome /\ Connected' = Connected
  BY <1>1 DEF Outcome, Connected
<1>3. UNCHANGED <<results, held>> => Owned' = Owned
  BY <1>2 DEF Owned
<1>4. CASE \/ SkipJump \/ JumpConnects \/ JumpFails \/ StopScheduling
           \/ ParseConfig /\ phase' # "returned"
           \/ StartDialing /\ phase' # "returned"
           \/ Collect /\ phase' # "returned"
           \/ \E w \in Worker : Hand(w) \/ WorkerExits(w)
  <2>1. UNCHANGED <<results, held>> /\ phase # "returned" /\ phase' # "returned"
    BY <1>4 DEF SkipJump, JumpConnects, JumpFails, StopScheduling, ParseConfig,
       StartDialing, Collect, Hand, WorkerExits, poolVars
  <2> QED
    BY <1>1, <1>2, <1>3, <2>1, PromiseStutters DEF Verdict
<1>5. CASE UNCHANGED vars
  <2>1. UNCHANGED <<results, held, phase, ret>>
    BY <1>5 DEF vars, poolVars, outVars
  <2> QED
    BY <1>1, <1>2, <1>3, <2>1, PromiseStutters DEF Verdict
\* The call answers.
<1>6. ASSUME UNCHANGED <<results, held>>, phase # "returned", phase' = "returned",
             ret' # NoError, NoHope, Owned = {}
      PROVE  Promise!AnswerError
  <2>1. Promise!Hopeless
    BY <1>1, <1>6, NoHopeIsHopeless
  <2> QED
    BY <1>1, <1>2, <1>3, <1>6, <2>1 DEF Promise!AnswerError, Verdict
<1>7. CASE ParseConfig /\ phase' = "returned"
  <2>1. UNCHANGED <<results, held>> /\ phase = "parse" /\ ret' # NoError
    BY <1>7 DEF ParseConfig, poolVars, ErrorOf, NoError
  <2>2. NothingDialed /\ Connected = {}
    BY <1>1, <2>1 DEF PoolInv, NothingDialed, Connected
  <2> QED
    BY <1>6, <1>7, <2>1, <2>2 DEF NoHope, Owned, Promise!Next
<1>8. CASE ReturnError
  <2>1. /\ UNCHANGED <<results, held>> /\ phase = "closeOnError" /\ phase' = "returned"
        /\ ret' # NoError
    BY <1>1, <1>8 DEF ReturnError, poolVars, outVars, AnswerInv
  <2>2. \A i \in Connected : held[i] = {}
    BY <1>1, <1>8, <2>1, InputTypes DEF ReturnError, HostsClosed, AnswerInv, Connected
  <2> QED
    BY <1>6, <2>1, <2>2 DEF HopeInv, Owned, Promise!Next
<1>9. ASSUME UNCHANGED <<results, held>>, phase # "returned", phase' = "returned",
             ret' = NoError, \A i \in Position : results[i] # "none", Owned = Connected,
             cfg.failFast => Connected = Position,
             Connected = {} => Len(aliases) = 0
      PROVE  Promise!AnswerGroup
  <2>1. Promise!Resolved = Promise!Target /\ Promise!Connected = Connected
        /\ Promise!Target = Position
    BY <1>1, <1>9, PromiseTerms
  <2> QED
    BY <1>1, <1>2, <1>3, <1>9, <2>1 DEF Promise!AnswerGroup, Verdict
<1>10. CASE StartDialing /\ phase' = "returned"
  <2>1. /\ UNCHANGED <<results, held>> /\ phase = "prepareJumps" /\ ret' = NoError
        /\ aliases = <<>>
    BY <1>10 DEF StartDialing, poolVars
  <2>2. Len(aliases) = 0 /\ Position = {}
    BY <1>1, <2>1, InputTypes
  <2> QED
    BY <1>9, <1>10, <2>1, <2>2 DEF Owned, Connected, Promise!Next
<1>11. CASE Collect /\ phase' = "returned"
  <2>1. /\ UNCHANGED <<results, held>> /\ phase = "wait" /\ ret' = NoError
        /\ DialAllError = NoError
    BY <1>11 DEF Collect, poolVars
  <2>2. /\ Position \ Connected = Failed
        /\ cfg.failFast => FailedAliases = {}
        /\ Connected = {} => FailedAliases = {}
    BY <1>1, <1>11, <2>1, CollectComplete
  <2>3. FailedAliases = {} => Failed = {}
    BY DEF FailedAliases
  <2>4. \A i \in Position : results[i] # "none"
    BY <2>2 DEF Connected, Failed, Failure
  <2>5. Keeping
    BY <2>1 DEF Keeping
  <2>6. Owned = Connected
    BY <2>5 DEF Owned, AccountInv, HeldInv
  <2>7. Connected = {} => Len(aliases) = 0
    <3>1. Connected = {} => Position = {}
      BY <2>2, <2>3
    <3> QED
      BY <1>1, <3>1, InputTypes
  <2>8. cfg.failFast => Connected = Position
    BY <2>2, <2>3 DEF Connected
  <2> QED
    BY <1>9, <1>11, <2>1, <2>4, <2>6, <2>7, <2>8 DEF Promise!Next
\* closeOnError gives the hosts up, one by one.
<1>12. ASSUME NEW i \in Position, CloseHost(i)
       PROVE  Promise!Release(i)
  <2>1. /\ UNCHANGED <<results, ret>> /\ phase = "closeOnError" /\ phase' = "closeOnError"
        /\ i \in Owned /\ held' = [held EXCEPT ![i] = {}]
    BY <1>1, <1>12 DEF CloseHost, poolVars, outVars, AnswerInv, Owned
  <2>2. Owned' = Owned \ {i}
    BY <1>1, <1>2, <2>1 DEF Owned, TypeOK, Connected
  <2>3. Promise!Hopeless
    BY <1>1, <2>1, NoHopeIsHopeless DEF HopeInv
  <2> QED
    BY <1>1, <1>2, <2>1, <2>2, <2>3 DEF Promise!Release, Verdict
<1>13. ASSUME NEW s \in Jump, CloseJump(s)
       PROVE  UNCHANGED Promise!vars
  <2>1. UNCHANGED <<results, ret>> /\ phase = "closeOnError" /\ phase' = "closeOnError"
    BY <1>13 DEF CloseJump, poolVars, outVars
  <2>2. \A i \in Connected : held[i] = {}
    BY <1>1, <1>13, <2>1, InputTypes DEF CloseJump, HostsClosed, AnswerInv, Connected
  <2>3. \A i \in Connected : held'[i] = {}
    BY <1>13, <2>2 DEF CloseJump, Connected
  <2>4. Owned' = Owned
    BY <1>2, <2>1, <2>2, <2>3 DEF Owned
  <2> QED
    BY <1>1, <1>2, <2>1, <2>4, PromiseStutters DEF Verdict
\* A worker goes on, or resolves its position.
<1>14. ASSUME NEW w \in Worker, DialStep(w)
       PROVE  Promise!Next \/ UNCHANGED Promise!vars
  <2>0. PICK k \in Position : k = worker[w].job
    BY <1>1, <1>14, DialStepEffect
  <2>1. /\ k \in Position /\ results[k] = "none" /\ UNCHANGED <<phase, ret>>
        /\ phase # "returned"
        /\ \A i \in Position \ {k} : held'[i] = held[i]
    BY <1>1, <1>14, <2>0, DialStepEffect, DialsInPool, DialStepHeld
       DEF PoolInv, outVars, AccountInv
  <2>2. ASSUME NEW stage \in Stage, Advance(w, stage)
        PROVE  UNCHANGED Promise!vars
    <3>1. UNCHANGED results
      BY <2>2 DEF Advance
    <3>2. Owned' = Owned
      BY <1>2, <2>1, <3>1 DEF Owned, Connected
    <3> QED
      BY <1>1, <1>2, <2>1, <3>1, <3>2, PromiseStutters DEF Verdict
  <2>3. ASSUME NEW r \in Failure \cup {"host"}, Finish(w, r),
               r = "host" => held'[k] # {}
        PROVE  Promise!Resolve(k)
    <3>1. results' = [results EXCEPT ![k] = r]
      BY <2>0, <2>3 DEF Finish
    <3>2. Outcome' = [Outcome EXCEPT ![k] = IF r = "host" THEN "connected" ELSE "failed"]
      BY <1>1, <2>1, <3>1 DEF Outcome, TypeOK, Failure
    <3>3. Connected' = IF r = "host" THEN Connected \cup {k} ELSE Connected
      BY <1>1, <2>1, <3>1 DEF Connected, TypeOK
    <3>4. Owned' = IF r = "host" THEN Owned \cup {k} ELSE Owned
      BY <2>1, <2>3, <3>3 DEF Owned, Connected
    <3>5. Outcome[k] = "untried"
      BY <2>1 DEF Outcome
    <3> QED
      BY <1>1, <2>1, <3>2, <3>4, <3>5 DEF Promise!Resolve, Verdict
  <2>4. \/ \E stage \in Stage : Advance(w, stage)
        \/ \E r \in Failure : Finish(w, r)
        \/ Finish(w, "host") /\ held'[k] # {}
    BY <1>1, <1>14, <2>0, DialStepHeld DEF AccountInv
  <2>5. Promise!Target = Position /\ \A r \in Failure : r # "host"
    BY <1>1, PromiseTerms DEF Failure
  <2>6. Promise!Resolve(k) => Promise!Next
    BY <2>1, <2>5 DEF Promise!Next
  <2> QED
    BY <2>2, <2>3, <2>4, <2>5, <2>6
<1>15. \A i \in Position : Promise!Release(i) => Promise!Next
  BY <1>1, PromiseTerms DEF Promise!Next
<1> QED
  BY <1>4, <1>5, <1>7, <1>8, <1>10, <1>11, <1>12, <1>13, <1>14, <1>15, StepKinds
     DEF CallerStep

\* The dialer implements the promise made to its caller, for every alias list,
\* config, option and number of jumps and workers.
THEOREM ImplementsPromiseAlways == Spec => ImplementsPromise
<1>1. Init => AccountInv /\ HopeInv
  BY DEF Init, AccountInv, HeldInv, Idle, Connected, GroupAccountsForAll, HopeInv
<1>2. DialInv /\ AccountInv /\ [Next]_vars => AccountInv'
  BY NextAccount
<1>3. DialInv /\ HopeInv /\ [Next]_vars => HopeInv'
  BY NextHope
<1>4. DialInv /\ AccountInv /\ HopeInv /\ [Next]_vars => [Promise!Next]_(Promise!vars)
  BY NextPromise
<1> QED
  BY <1>1, <1>2, <1>3, <1>4, InitPromise, DialInvAlways, PTL
     DEF Spec, ImplementsPromise, Promise!Spec

=============================================================================
