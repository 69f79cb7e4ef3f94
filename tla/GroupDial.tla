------------------------------ MODULE GroupDial ------------------------------
(***************************************************************************)
(* NewSSHGroup and its groupDialer (ssh.go): the shared ProxyJump          *)
(* connections are opened one after the other, the aliases are then dialed *)
(* by a pool of workers fed over an unbuffered channel, the results are    *)
(* collected, and on an error everything the dialer tracks is closed.      *)
(*                                                                         *)
(* A position is an index into the alias list: an alias that is listed     *)
(* twice (ParseHosts can return duplicates) is dialed twice.  A connection *)
(* is represented by the set of resources it holds open; the network, the  *)
(* agent and the remote host fail a step by choosing its failing disjunct. *)
(***************************************************************************)
EXTENDS Integers, Sequences, FiniteSetsExt

CONSTANTS
  Alias,      \* host aliases
  Jump,       \* ProxyJump specs
  Direct,     \* ProxyJump is "" or "none"
  GetError,   \* reading ProxyJump of the alias from the config fails
  Nobody,     \* an outcome that blames no alias and no jump
  AliasLists, \* the alias lists NewSSHGroup may be called with
  Configs,    \* what the SSH config may say of each alias
  Options     \* the group options it may be called with

ASSUME InputsAssumption ==
  /\ AliasLists \subseteq Seq(Alias)
  /\ Configs \subseteq [Alias -> [proxyJump : Jump \cup {Direct, GetError},
                                  forwardAgent : BOOLEAN]]
  /\ Options \subseteq [failFast : BOOLEAN, dialConcurrency : Int,
                        forwardAgent : BOOLEAN, keepAlive : BOOLEAN]
  /\ Direct \notin Jump /\ GetError \notin Jump

VARIABLES
  aliases,     \* groupDialer.aliases            (never changes)
  config,      \* groupDialer.config             (never changes)
  cfg,         \* groupDialer.cfg                (never changes)
  phase,       \* where the calling goroutine is
  next,        \* index of the loop over aliases the caller is in
  jumpClients, \* specs with an entry in groupDialer.jumpClients
  jumpErrs,    \* specs with an entry in groupDialer.jumpErrs
  jumpOpen,    \* specs whose shared connection is open
  jumpDials,   \* history: how often each spec was dialed
  worker,      \* what each worker goroutine of dialAll is doing
  abort,       \* has the abort channel been closed?
  results,     \* dialAll's results slice
  held,        \* the resources each position's connection holds open
  hosts,       \* positions in groupDialer.hosts
  dialErrs,    \* groupDialer.dialErrs
  ret          \* the error NewSSHGroup returns, once it is known

inputs   == <<aliases, config, cfg>>
jumpVars == <<jumpClients, jumpErrs, jumpOpen, jumpDials>>
poolVars == <<worker, abort, results>>
outVars  == <<hosts, dialErrs, ret>>
vars     == <<inputs, phase, next, jumpVars, poolVars, held, outVars>>

-----------------------------------------------------------------------------
(* The inputs of one position.                                             *)

Position      == DOMAIN aliases
Via(i)        == config[aliases[i]].proxyJump
NeedsAgent(i) == cfg.forwardAgent \/ config[aliases[i]].forwardAgent

\* dialConcurrency: how many workers dialAll starts.
WorkerCount == IF cfg.dialConcurrency < 2
               THEN 1
               ELSE Min({cfg.dialConcurrency, Len(aliases)})
Worker      == 1..WorkerCount

(* Outcomes.  A failed dial is told apart by the step that failed: reading *)
(* the config, the shared jump, a jump that was never prepared, the dial   *)
(* itself, or the set-up in newHostFromClient.                             *)
Failure == {"config", "jump", "unprepared", "dial", "setup"}
Result  == {"none", "host"} \cup Failure

Phase    == {"parse", "prepareJumps", "schedule", "wait", "closeOnError",
             "returned"}
Resource == {"client", "agentConn", "sftpClient", "keepAlive"}
ErrorKind == {"pending", "nil", "config", "jump", "target", "allFailed"}

Stage  == {"route", "connect", "agent", "sftp", "env"}
Idle   == [at |-> "idle",   job |-> 0]
Exited == [at |-> "exited", job |-> 0]

Pending == [kind |-> "pending", who |-> Nobody]
NoError == [kind |-> "nil",     who |-> Nobody]
ErrorOf(kind, who) == [kind |-> kind, who |-> who]

Init ==
  /\ aliases \in AliasLists
  /\ config \in Configs
  /\ cfg \in Options
  /\ phase = "parse"
  /\ next = 1
  /\ jumpClients = {} /\ jumpErrs = {} /\ jumpOpen = {}
  /\ jumpDials = [s \in Jump |-> 0]
  /\ worker = [w \in Worker |-> Idle]
  /\ abort = FALSE
  /\ results = [i \in Position |-> "none"]
  /\ held = [i \in Position |-> {}]
  /\ hosts = {} /\ dialErrs = <<>> /\ ret = Pending

-----------------------------------------------------------------------------
(* The caller: resolveSSHConfigFile, ParseSSHConfig, prepareJumps.         *)

\* A config file that cannot be found or decoded ends the call before the
\* dialer exists.
ParseConfig ==
  /\ phase = "parse"
  /\ \/ phase' = "prepareJumps" /\ UNCHANGED ret
     \/ phase' = "returned" /\ ret' = ErrorOf("config", Nobody)
  /\ UNCHANGED <<inputs, next, jumpVars, poolVars, held, hosts, dialErrs>>

\* Mutant: a spec that failed is not remembered when it comes up again.
MustDialJumpAgain(i) ==
  /\ Via(i) \in Jump
  /\ Via(i) \notin jumpClients

\* Does the iteration of prepareJumps for position i have a jump to dial?
MustDialJump(i) ==
  /\ Via(i) \in Jump
  /\ Via(i) \notin jumpClients
  /\ Via(i) \notin jumpErrs

SkipJump ==
  /\ phase = "prepareJumps"
  /\ next \in Position
  /\ ~ MustDialJump(next)
  /\ next' = next + 1
  /\ UNCHANGED <<inputs, phase, jumpVars, poolVars, held, outVars>>

\* dialJump: count one dial of spec s, which opens the connection or not.
DialJump(s, opened) ==
  /\ jumpDials' = [jumpDials EXCEPT ![s] = @ + 1]
  /\ jumpOpen' = IF opened THEN jumpOpen \cup {s} ELSE jumpOpen

JumpConnects ==
  /\ phase = "prepareJumps"
  /\ next \in Position
  /\ MustDialJump(next)
  /\ DialJump(Via(next), TRUE)
  /\ jumpClients' = jumpClients \cup {Via(next)}
  /\ next' = next + 1
  /\ UNCHANGED <<inputs, phase, jumpErrs, poolVars, held, outVars>>

\* Mutant: the error of a failed jump is not recorded.
JumpFailsUnrecorded ==
  /\ phase = "prepareJumps"
  /\ next \in Position
  /\ MustDialJump(next)
  /\ DialJump(Via(next), FALSE)
  /\ next' = next + 1
  /\ UNCHANGED <<inputs, phase, jumpClients, jumpErrs, poolVars, held, outVars>>

JumpFails ==
  /\ phase = "prepareJumps"
  /\ next \in Position
  /\ MustDialJump(next)
  /\ DialJump(Via(next), FALSE)
  /\ \/ /\ cfg.failFast
        /\ ret' = ErrorOf("jump", Via(next))
        /\ phase' = "closeOnError"
        /\ UNCHANGED <<jumpErrs, next>>
     \/ /\ ~ cfg.failFast
        /\ jumpErrs' = jumpErrs \cup {Via(next)}
        /\ next' = next + 1
        /\ UNCHANGED <<phase, ret>>
  /\ UNCHANGED <<inputs, jumpClients, poolVars, held, hosts, dialErrs>>

-----------------------------------------------------------------------------
(* dialAll: the goroutine that feeds the workers.                          *)

\* With no alias dialAll returns nil at once; otherwise the workers start.
StartDialing ==
  /\ phase = "prepareJumps"
  /\ next \notin Position
  /\ IF aliases = <<>>
     THEN phase' = "returned" /\ ret' = NoError
     ELSE phase' = "schedule" /\ UNCHANGED ret
  /\ next' = 1
  /\ UNCHANGED <<inputs, jumpVars, poolVars, held, hosts, dialErrs>>

\* jobs <- i: the channel is unbuffered, so the send is a rendezvous with a
\* worker waiting in its range loop.
Hand(w) ==
  /\ phase = "schedule"
  /\ next \in Position
  /\ worker[w] = Idle
  /\ worker' = [worker EXCEPT ![w] = [at |-> "route", job |-> next]]
  /\ next' = next + 1
  /\ UNCHANGED <<inputs, phase, jumpVars, abort, results, held, outVars>>

\* Mutant: the select has a default case and gives up when no worker is ready.
StopSchedulingWhenBusy ==
  /\ phase = "schedule"
  /\ next \notin Position \/ abort \/ \A w \in Worker : worker[w] # Idle
  /\ phase' = "wait"
  /\ UNCHANGED <<inputs, next, jumpVars, poolVars, held, outVars>>

\* The loop ends after the last alias, or when the select takes the abort
\* case; jobs is then closed.
StopScheduling ==
  /\ phase = "schedule"
  /\ next \notin Position \/ abort
  /\ phase' = "wait"
  /\ UNCHANGED <<inputs, next, jumpVars, poolVars, held, outVars>>

\* A worker's range loop ends once jobs is closed.
WorkerExits(w) ==
  /\ phase = "wait"
  /\ worker[w] = Idle
  /\ worker' = [worker EXCEPT ![w] = Exited]
  /\ UNCHANGED <<inputs, phase, next, jumpVars, abort, results, held, outVars>>

-----------------------------------------------------------------------------
(* dialOne, run by worker w for the position i it was handed.              *)

At(w, stage) == worker[w].at = stage

Advance(w, stage) ==
  /\ worker' = [worker EXCEPT ![w].at = stage]
  /\ UNCHANGED <<abort, results>>

\* Mutant: a worker whose dial failed signals abort but goes on to the next job.
FinishAndGoOn(w, r) ==
  /\ results' = [results EXCEPT ![worker[w].job] = r]
  /\ abort' = (abort \/ (cfg.failFast /\ r \in Failure))
  /\ worker' = [worker EXCEPT ![w] = Idle]

\* Mutant: a worker whose dial failed ends without signalling abort.
FinishSilently(w, r) ==
  /\ results' = [results EXCEPT ![worker[w].job] = r]
  /\ worker' = [worker EXCEPT ![w] = IF cfg.failFast /\ r \in Failure
                                    THEN Exited ELSE Idle]
  /\ UNCHANGED abort

\* Mutant: a result that arrives after the abort is thrown away.
FinishUnlessAborted(w, r) ==
  /\ results' = IF abort THEN results
                 ELSE [results EXCEPT ![worker[w].job] = r]
  /\ IF cfg.failFast /\ (abort \/ r \in Failure)
     THEN abort' = TRUE /\ worker' = [worker EXCEPT ![w] = Exited]
     ELSE worker' = [worker EXCEPT ![w] = Idle] /\ UNCHANGED abort

\* The worker stores its result; with FailFast a failure closes abort and
\* ends the worker, otherwise it returns to its range loop.
Finish(w, r) ==
  /\ results' = [results EXCEPT ![worker[w].job] = r]
  /\ IF cfg.failFast /\ r \in Failure
     THEN abort' = TRUE /\ worker' = [worker EXCEPT ![w] = Exited]
     ELSE worker' = [worker EXCEPT ![w] = Idle] /\ UNCHANGED abort

\* jumpFor: what the jump maps say of position i; "none" when dialing goes on.
JumpFor(i) ==
  CASE Via(i) = GetError       -> "config"
    [] Via(i) = Direct         -> "none"
    [] Via(i) \in jumpErrs     -> "jump"
    [] Via(i) \in jumpClients  -> "none"
    [] OTHER                   -> "unprepared"

Route(w) ==
  /\ At(w, "route")
  /\ IF JumpFor(worker[w].job) = "none"
     THEN Advance(w, "connect")
     ELSE Finish(w, JumpFor(worker[w].job))
  /\ UNCHANGED <<inputs, phase, next, jumpVars, held, outVars>>

Hold(w, r)    == held' = [held EXCEPT ![worker[w].job] = @ \cup {r}]
Release(w, r) == held' = [held EXCEPT ![worker[w].job] = @ \ {r}]

\* dialTarget up to the SSH handshake, direct or through the jump.
Connect(w) ==
  /\ At(w, "connect")
  /\ \/ \E r \in {"config", "dial"} : Finish(w, r) /\ UNCHANGED held
     \/ /\ Hold(w, "client")
        /\ Advance(w, IF NeedsAgent(worker[w].job) THEN "agent" ELSE "sftp")
  /\ UNCHANGED <<inputs, phase, next, jumpVars, outVars>>

\* newHostFromClient, step by step.  A failure returns at once: the agent
\* connection is closed, the client (and the SFTP client on it) is not.
OpenAgent(w) ==
  /\ At(w, "agent")
  /\ \/ Hold(w, "agentConn") /\ Advance(w, "sftp")
     \/ UNCHANGED held /\ Finish(w, "setup")
  /\ UNCHANGED <<inputs, phase, next, jumpVars, outVars>>

OpenSftp(w) ==
  /\ At(w, "sftp")
  /\ \/ Hold(w, "sftpClient") /\ Advance(w, "env")
     \/ Release(w, "agentConn") /\ Finish(w, "setup")
  /\ UNCHANGED <<inputs, phase, next, jumpVars, outVars>>

FetchEnv(w) ==
  /\ At(w, "env")
  /\ \/ /\ IF cfg.keepAlive THEN Hold(w, "keepAlive") ELSE UNCHANGED held
        /\ Finish(w, "host")
     \/ Release(w, "agentConn") /\ Finish(w, "setup")
  /\ UNCHANGED <<inputs, phase, next, jumpVars, outVars>>

-----------------------------------------------------------------------------
(* After wg.Wait: collect, firstDialError, allFailedError.                 *)

Connected     == {i \in Position : results[i] = "host"}
Failed        == {i \in Position : results[i] \in Failure}
FailedAliases == {aliases[i] : i \in Failed}

\* Mutant: the map is allocated anew for every failure.
DialErrsLastOnly ==
  [a \in {aliases[i] : i \in {j \in Failed : \A k \in Failed : k <= j}} |->
     results[Max(Failed)]]

\* The map keeps the last failure of an alias that is listed twice.
DialErrs ==
  [a \in FailedAliases |-> results[Max({i \in Failed : aliases[i] = a})]]

FirstDialError ==
  IF FailedAliases = {}
  THEN NoError
  ELSE ErrorOf("target",
               aliases[Min({i \in Position : aliases[i] \in FailedAliases})])

AllFailedError ==
  IF Connected # {} \/ FailedAliases = {}
  THEN NoError
  ELSE ErrorOf("allFailed", Nobody)

\* Mutant: FailFast is honoured by the workers but not by dialAll's result.
DialAllErrorCombined == AllFailedError

DialAllError == IF cfg.failFast /\ FirstDialError # NoError
                THEN FirstDialError
                ELSE AllFailedError

\* Mutant: the hosts are only kept when the call succeeds.
CollectOnSuccess ==
  /\ phase = "wait"
  /\ \A w \in Worker : worker[w] = Exited
  /\ hosts' = IF DialAllError = NoError THEN Connected ELSE {}
  /\ dialErrs' = DialErrs
  /\ ret' = DialAllError
  /\ phase' = IF DialAllError = NoError THEN "returned" ELSE "closeOnError"
  /\ UNCHANGED <<inputs, next, jumpVars, poolVars, held>>

Collect ==
  /\ phase = "wait"
  /\ \A w \in Worker : worker[w] = Exited
  /\ hosts' = Connected
  /\ dialErrs' = DialErrs
  /\ ret' = DialAllError
  /\ phase' = IF DialAllError = NoError THEN "returned" ELSE "closeOnError"
  /\ UNCHANGED <<inputs, next, jumpVars, poolVars, held>>

-----------------------------------------------------------------------------
(* closeOnError: the tracked hosts in order, then the jump connections.    *)

HostsClosed(upTo) == \A i \in hosts : i < upTo => held[i] = {}

CloseHost(i) ==
  /\ phase = "closeOnError"
  /\ i \in hosts
  /\ held[i] # {}
  /\ HostsClosed(i)
  /\ held' = [held EXCEPT ![i] = {}]
  /\ UNCHANGED <<inputs, phase, next, jumpVars, poolVars, outVars>>

\* Mutant: the jumps do not wait for the hosts to be closed.
CloseJumpFirst(s) ==
  /\ phase = "closeOnError"
  /\ s \in jumpClients \cap jumpOpen
  /\ jumpOpen' = jumpOpen \ {s}
  /\ held' = [i \in Position |->
                IF Via(i) = s THEN held[i] \ {"client", "sftpClient"} ELSE held[i]]
  /\ UNCHANGED <<inputs, phase, next, jumpClients, jumpErrs, jumpDials,
                 poolVars, outVars>>

\* Closing a jump ends the transport of every tunnel that still uses it.
CloseJump(s) ==
  /\ phase = "closeOnError"
  /\ s \in jumpClients \cap jumpOpen
  /\ HostsClosed(Len(aliases) + 1)
  /\ jumpOpen' = jumpOpen \ {s}
  /\ held' = [i \in Position |->
                IF Via(i) = s THEN held[i] \ {"client", "sftpClient"} ELSE held[i]]
  /\ UNCHANGED <<inputs, phase, next, jumpClients, jumpErrs, jumpDials,
                 poolVars, outVars>>

ReturnError ==
  /\ phase = "closeOnError"
  /\ HostsClosed(Len(aliases) + 1)
  /\ jumpClients \cap jumpOpen = {}
  /\ phase' = "returned"
  /\ UNCHANGED <<inputs, next, jumpVars, poolVars, held, outVars>>

-----------------------------------------------------------------------------
WorkerStep(w) ==
  \/ Hand(w)
  \/ WorkerExits(w)
  \/ Route(w)
  \/ Connect(w)
  \/ OpenAgent(w)
  \/ OpenSftp(w)
  \/ FetchEnv(w)

CallerStep ==
  \/ ParseConfig
  \/ SkipJump
  \/ JumpConnects
  \/ JumpFails
  \/ StartDialing
  \/ StopScheduling
  \/ Collect
  \/ \E i \in Position : CloseHost(i)
  \/ \E s \in Jump : CloseJump(s)
  \/ ReturnError

Next == CallerStep \/ \E w \in Worker : WorkerStep(w)

Spec == Init /\ [][Next]_vars

\* Every dial attempt ends and no goroutine is forgotten by the scheduler.
FairSpec == Spec /\ WF_vars(Next)

-----------------------------------------------------------------------------
(* Properties.                                                             *)

\* Every variable has its type; a worker has a job exactly while it dials.
TypeOK ==
  /\ aliases \in AliasLists /\ config \in Configs /\ cfg \in Options
  /\ phase \in Phase
  /\ next \in 1..(Len(aliases) + 1)
  /\ jumpClients \subseteq Jump /\ jumpErrs \subseteq Jump
  /\ jumpOpen \subseteq Jump
  /\ jumpDials \in [Jump -> Nat]
  /\ worker \in [Worker -> {Idle, Exited} \cup [at : Stage, job : Position]]
  /\ abort \in BOOLEAN
  /\ results \in [Position -> Result]
  /\ held \in [Position -> SUBSET Resource]
  /\ hosts \subseteq Position
  /\ DOMAIN dialErrs \subseteq Alias
  /\ \A a \in DOMAIN dialErrs : dialErrs[a] \in Failure
  /\ ret \in [kind : ErrorKind, who : Alias \cup Jump \cup {Nobody}]

\* jumpFor's "was not prepared" branch, which its comment calls a programming
\* error, is never taken: prepareJumps reached every spec before dialing began.
JumpsPrepared == \A i \in Position : results[i] # "unprepared"

\* "At most one TCP connection is made to each jump host" (NewSSHGroup): a spec
\* shared by several aliases is dialed once, also when that dial failed.
JumpDialedOnce == \A s \in Jump : jumpDials[s] <= 1

Distinct == \A i, j \in Position : aliases[i] = aliases[j] => i = j

\* The alias a failing FailFast call blames is the earliest that failed: every
\* alias before it was dialed and connected, in whatever order the workers
\* finished (aliases are distinct).
FailFastEarliest ==
  Distinct /\ ret.kind = "target" =>
    \E i \in Failed : /\ ret.who = aliases[i]
                      /\ \A j \in 1..(i - 1) : results[j] = "host"

\* With FailFast every failure costs the pool a worker, so at most as many
\* dials fail as there are workers; dialed one by one, no alias after the first
\* failure is contacted at all.
FailFastStops ==
  cfg.failFast =>
    /\ Cardinality(Failed) <= Cardinality({w \in Worker : worker[w] = Exited})
    /\ WorkerCount = 1 =>
         \A i \in Failed, j \in Position : j > i =>
            results[j] = "none" /\ \A w \in Worker : worker[w].job # j

\* When NewSSHGroup returns an error the caller has no group to close, so
\* every connected host and every shared jump has been closed.
ErrorReleasesOwned ==
  phase = "returned" /\ ret # NoError =>
    jumpOpen = {} /\ \A i \in Connected : held[i] = {}

\* When it returns a group, the group accounts for every alias: a position is
\* a live host of the group or its alias has a dial error of its own; FailFast
\* leaves no errors and a non-empty request no empty group.
GroupAccountsForAll ==
  phase = "returned" /\ ret = NoError =>
    /\ \A i \in Position : IF i \in hosts
                          THEN {"client", "sftpClient"} \subseteq held[i]
                          ELSE aliases[i] \in DOMAIN dialErrs
    /\ \A a \in DOMAIN dialErrs :
         \E i \in Position \ hosts : aliases[i] = a /\ results[i] = dialErrs[a]
    /\ cfg.failFast => dialErrs = <<>>
    /\ hosts = {} => aliases = <<>>

\* A shared jump is never closed under a host that still uses it: a tunnelled
\* host loses its connection by its own Close only.
NoHostCutOff ==
  [][\A i \in Connected :
       "client" \in held[i] /\ "client" \notin held'[i] /\ Via(i) \in Jump
         => Via(i) \in jumpOpen']_vars

\* NewSSHGroup returns: the scheduler never waits for a worker that has ended,
\* a worker never waits for jobs that nobody closes.
Termination == <>(phase = "returned")

\* What the comment on groupDialer says of its ownership: "on any earlier
\* error, closeOnError closes them all".
ErrorClosesEverything ==
  phase = "returned" /\ ret # NoError => \A i \in Position : held[i] = {}

\* What the caller of NewSSHGroup can tell of a position, of who holds a
\* connection, and of the answer.
Outcome == [i \in Position |-> CASE results[i] = "none" -> "untried"
                                 [] results[i] = "host" -> "connected"
                                 [] OTHER               -> "failed"]
Owned   == {i \in Connected : held[i] # {}}
Verdict == IF phase # "returned" THEN "pending"
           ELSE IF ret = NoError THEN "group" ELSE "error"

\* The promise NewSSHGroup makes, whatever the pool does (DialPromise.tla).
Promise == INSTANCE DialPromise WITH
  N        <- Len(aliases),
  failFast <- cfg.failFast,
  outcome  <- Outcome,
  owned    <- Owned,
  verdict  <- Verdict

\* The dialer implements that promise.
ImplementsPromise == Promise!Spec

-----------------------------------------------------------------------------
(* The inductive invariant behind the theorems of GroupDialProofs.         *)

\* prepareJumps has decided about the jump of position i.
Settled(i) == Via(i) \in Jump => Via(i) \in jumpClients \cup jumpErrs

JumpsInv ==
  /\ jumpOpen \subseteq jumpClients
  /\ \A s \in Jump : /\ jumpDials[s] <= 1
                     /\ \/ phase \notin {"parse", "prepareJumps"}
                        \/ s \in jumpClients \cup jumpErrs
                        \/ jumpDials[s] = 0
  /\ phase = "parse" => next = 1 /\ jumpClients = {}
  /\ phase = "prepareJumps" => \A i \in Position : i < next => Settled(i)
  /\ phase \in {"schedule", "wait"} => \A i \in Position : Settled(i)

\* While the pool runs every position below next has either a result or one
\* worker, and no position from next on has any.
PoolInv ==
  /\ phase \in {"parse", "prepareJumps"} =>
       hosts = {} /\ \A i \in Position : results[i] = "none"
  /\ phase \in {"schedule", "wait"} => \A i \in Position :
       i < next <=> (results[i] # "none" \/ \E w \in Worker : worker[w].job = i)
  /\ \A w \in Worker : worker[w].job \in Position =>
       /\ results[worker[w].job] = "none"
       /\ \A v \in Worker \ {w} : worker[v].job # worker[w].job
  /\ phase \notin {"schedule", "wait"} => \A w \in Worker : worker[w].job = 0
  /\ abort => cfg.failFast /\ \E i \in Position : results[i] \in Failure
  /\ phase = "wait" => abort \/ next \notin Position

\* What the caller has answered, or is about to.
AnswerInv ==
  /\ phase \in {"closeOnError", "returned"} => hosts = Connected
  /\ phase \notin {"closeOnError", "returned"} => ret = Pending
  /\ phase = "closeOnError" => ret # NoError

DialInv ==
  /\ TypeOK
  /\ JumpsInv
  /\ JumpsPrepared
  /\ PoolInv
  /\ AnswerInv
  /\ ErrorReleasesOwned
  /\ FailFastEarliest

=============================================================================
