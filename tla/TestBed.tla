------------------------------- MODULE TestBed -------------------------------
(***************************************************************************)
(* iagotest's CreateSSHGroup: a Docker network and N containers, each with *)
(* an SSH server and a host connected to it, and the cleanups that testing *)
(* runs, last one first, when the test ends in whatever way.               *)
(*                                                                         *)
(* The Docker daemon and the containers are the environment: every call to *)
(* the daemon may fail, and a container may exit at any time.              *)
(***************************************************************************)
EXTENDS Naturals, SequencesExt

CONSTANTS
  N,                    \* how many containers (n)
  Retries,              \* how often the port is looked up
  Image, Network, Hosts \* the cleanups that are not those of a container

ASSUME BedAssumption ==
  /\ N \in Nat /\ Retries \in Nat /\ {Image, Network, Hosts} \cap Nat = {}
  /\ Image # Network /\ Image # Hosts /\ Network # Hosts

Container == 1..N

VARIABLES
  skip,      \* may the test be skipped?      (never changes)
  pc,        \* the call about to be made
  i, tries,  \* the container being made; look-ups of its port
  verdict,   \* what the test has been marked as
  diedAt,    \* the call that ended the test, or "none" (history)
  cleanups,  \* the registered cleanups that have not run
  stream,    \* is the answer to ImageBuild open?
  network,   \* is the network there?
  container, \* each container: none, created, running, exited, or removed
  attached,  \* the containers connected to the network
  connected, \* the hosts whose SSH client nobody has closed
  cutOff,    \* hosts whose container was stopped while connected (history)
  refused    \* the cleanups in which a call failed (history)

bedVars ==
  <<skip, pc, i, tries, verdict, diedAt, cleanups, stream, network, container,
    attached, connected, cutOff, refused>>

inTest     == <<skip, diedAt, verdict>>
resources  == <<stream, network, container, attached, connected>>
history    == <<cutOff, refused>>

Creating == {"start", "inspect", "connect", "port", "ready"}
Place ==
  {"client", "ping", "build", "consume", "network", "create", "dial", "body",
   "cleanup"} \cup Creating

Init ==
  /\ skip \in BOOLEAN
  /\ pc = "client" /\ i = 1 /\ tries = 0
  /\ verdict = "ok" /\ diedAt = "none" /\ cleanups = <<>>
  /\ stream = FALSE /\ network = FALSE
  /\ container = [c \in Container |-> "none"]
  /\ attached = {} /\ connected = {} /\ cutOff = {} /\ refused = {}

-----------------------------------------------------------------------------
(* CreateSSHGroup                                                          *)

\* t.Fatal and t.Skip end the test's goroutine; testing then runs the cleanups.
EndTest(as) ==
  /\ verdict' = as /\ diedAt' = pc /\ pc' = "cleanup"
  /\ UNCHANGED <<skip, i, tries, cleanups>>
Fatal == EndTest("failed")

Register(cleanup) == cleanups' = Append(cleanups, cleanup)
GoOn(place)       == pc' = place /\ UNCHANGED <<inTest, i, tries>>

Fails(place) == pc = place /\ Fatal /\ UNCHANGED <<resources, history>>

\* generateKey and createClient.
CreateClient ==
  \/ pc = "client" /\ GoOn("ping") /\ UNCHANGED <<cleanups, resources, history>>
  \/ Fails("client")

Ping ==
  \/ pc = "ping" /\ GoOn("build") /\ UNCHANGED <<cleanups, resources, history>>
  \/ /\ pc = "ping" /\ EndTest(IF skip THEN "skipped" ELSE "failed")
     /\ UNCHANGED <<resources, history>>

ImageBuild ==
  \/ /\ pc = "build" /\ GoOn("consume")
     /\ stream' = TRUE /\ Register(Image)
     /\ UNCHANGED <<network, container, attached, connected, history>>
  \/ Fails("build")

\* An error of ConsumeStream fails the test and goes on.
ConsumeStream ==
  /\ pc = "consume" /\ pc' = "network"
  /\ verdict' \in {verdict, "failed"}
  /\ UNCHANGED <<skip, diedAt, i, tries, cleanups, resources, history>>

\* createNetwork, and the registration of cleanupNetwork.
CreateNetwork ==
  \/ /\ pc = "network" /\ GoOn("create")
     /\ network' = TRUE /\ Register(Network)
     /\ UNCHANGED <<stream, container, attached, connected, history>>
  \/ Fails("network")

ContainerCreate ==
  \/ /\ pc = "create" /\ i \in Container /\ GoOn("start")
     /\ container' = [container EXCEPT ![i] = "created"]
     /\ UNCHANGED <<cleanups, stream, network, attached, connected, history>>
  \/ i \in Container /\ Fails("create")

ContainerStart ==
  \/ /\ pc = "start" /\ GoOn("inspect")
     /\ container' = [container EXCEPT ![i] = "running"]
     /\ UNCHANGED <<cleanups, stream, network, attached, connected, history>>
  \/ Fails("start")

ContainerInspect ==
  \/ pc = "inspect" /\ GoOn("connect") /\ UNCHANGED <<cleanups, resources, history>>
  \/ Fails("inspect")

NetworkConnect ==
  \/ /\ pc = "connect" /\ pc' = "port" /\ tries' = 0
     /\ attached' = attached \cup {i}
     /\ UNCHANGED <<inTest, i, cleanups, stream, network, container, connected, history>>
  \/ Fails("connect")

\* The port is looked up until the daemon has bound it, Retries times at most.
LookUpPort ==
  \/ /\ pc = "port" /\ tries < Retries
     /\ pc' \in {"port", "ready"} /\ tries' = tries + 1
     /\ UNCHANGED <<inTest, i, cleanups, resources, history>>
  \/ Fails("port")

\* waitForSSHReady. Only when createContainer has returned is the container's
\* cleanup registered.
WaitForSSHReady ==
  \/ /\ pc = "ready" /\ container[i] = "running" /\ GoOn("dial")
     /\ Register(i)
     /\ UNCHANGED <<resources, history>>
  \/ Fails("ready")

\* A dial that fails may leave its client open.
DialSSH ==
  \/ /\ pc = "dial" /\ container[i] = "running"
     /\ connected' = connected \cup {i}
     /\ pc' = "create" /\ i' = i + 1
     /\ UNCHANGED <<inTest, tries, cleanups, stream, network, container, attached, history>>
  \/ /\ pc = "dial" /\ Fatal
     /\ connected' \in {connected, connected \cup {i}}
     /\ UNCHANGED <<stream, network, container, attached, history>>

\* Mutant: the group's cleanup is lost.
RegisterGroupNot ==
  /\ pc = "create" /\ i \notin Container /\ GoOn("body")
  /\ UNCHANGED <<cleanups, resources, history>>

\* All hosts are connected: the cleanup that closes the group comes last, so it
\* will be run first.
RegisterGroup ==
  /\ pc = "create" /\ i \notin Container /\ GoOn("body")
  /\ Register(Hosts)
  /\ UNCHANGED <<resources, history>>

\* The test itself.
Body ==
  /\ pc = "body"
  /\ EndTest(verdict) \/ Fatal
  /\ UNCHANGED <<resources, history>>

-----------------------------------------------------------------------------
(* The cleanups                                                            *)

Runs(cleanup) ==
  /\ pc = "cleanup" /\ cleanups # <<>> /\ cleanup = Last(cleanups)
  /\ cleanups' = Front(cleanups)
  /\ UNCHANGED <<skip, pc, i, tries, diedAt>>

\* What fails in a cleanup is an Error: the cleanup and those below it go on.
Errors(cleanup, failed) ==
  IF failed THEN verdict' = "failed" /\ refused' = refused \cup {cleanup}
            ELSE UNCHANGED <<verdict, refused>>

\* g.Close closes every host; one that lost its container gives an error.
CloseGroup ==
  /\ Runs(Hosts)
  /\ connected' = {}
  /\ \E failed \in BOOLEAN : Errors(Hosts, failed)
  /\ UNCHANGED <<stream, network, container, attached, cutOff>>

\* Mutant: the cleanup returns at its first error.
CleanupContainerReturns(c) ==
  /\ Runs(c)
  /\ \E stops, disconnects, removes \in BOOLEAN :
       /\ attached' = IF stops /\ disconnects THEN attached \ {c} ELSE attached
       /\ container' = [container EXCEPT ![c] =
                          IF stops /\ disconnects /\ removes THEN "removed" ELSE "exited"]
       /\ UNCHANGED <<verdict, refused>>
  /\ cutOff' = cutOff \cup ({c} \cap connected)
  /\ UNCHANGED <<stream, network, connected>>

\* ContainerStop, NetworkDisconnect and ContainerRemove, each tried whatever
\* became of the one before.
CleanupContainer(c) ==
  /\ Runs(c)
  /\ \E stops, disconnects, removes \in BOOLEAN :
       /\ attached' = IF disconnects \/ removes THEN attached \ {c} ELSE attached
       /\ container' =
            [container EXCEPT ![c] =
               IF removes THEN "removed" ELSE IF stops THEN "exited" ELSE @]
       /\ Errors(c, ~ (stops /\ disconnects /\ removes))
  /\ cutOff' = cutOff \cup ({c} \cap connected)
  /\ UNCHANGED <<stream, network, connected>>

\* The daemon removes no network that a running container is connected to.
CleanupNetwork ==
  /\ Runs(Network)
  /\ LET inUse == \E c \in attached : container[c] = "running" IN
     \E refuses \in BOOLEAN :
       /\ network' = (inUse \/ refuses)
       /\ IF inUse /\ ~ refuses THEN verdict' = "failed" /\ UNCHANGED refused
                                ELSE Errors(Network, refuses)
  /\ UNCHANGED <<stream, container, attached, connected, cutOff>>

CloseStream ==
  /\ Runs(Image)
  /\ \E failed \in BOOLEAN : stream' = failed /\ Errors(Image, failed)
  /\ UNCHANGED <<network, container, attached, connected, cutOff>>

-----------------------------------------------------------------------------
\* A container may exit at any time.
Exits(c) ==
  /\ container[c] = "running"
  /\ container' = [container EXCEPT ![c] = "exited"]
  /\ UNCHANGED <<inTest, pc, i, tries, cleanups, stream, network, attached,
                 connected, history>>

SetUp ==
  \/ CreateClient \/ Ping \/ ImageBuild \/ ConsumeStream \/ CreateNetwork
  \/ ContainerCreate \/ ContainerStart \/ ContainerInspect \/ NetworkConnect
  \/ LookUpPort \/ WaitForSSHReady \/ DialSSH \/ RegisterGroup

CleanUp ==
  \/ CloseGroup \/ CleanupNetwork \/ CloseStream
  \/ \E c \in Container : CleanupContainer(c)

Next == SetUp \/ Body \/ CleanUp \/ \E c \in Container : Exits(c)

BedSpec == Init /\ [][Next]_bedVars

-----------------------------------------------------------------------------
TypeOK ==
  /\ skip \in BOOLEAN /\ pc \in Place /\ i \in 1..N + 1 /\ tries \in 0..Retries
  /\ verdict \in {"ok", "failed", "skipped"} /\ diedAt \in Place \cup {"none"}
  /\ cleanups \in Seq(Container \cup {Image, Network, Hosts})
  /\ stream \in BOOLEAN /\ network \in BOOLEAN
  /\ container \in [Container -> {"none", "created", "running", "exited", "removed"}]
  /\ attached \subseteq Container /\ connected \subseteq Container
  /\ cutOff \subseteq Container
  /\ refused \subseteq Container \cup {Image, Network, Hosts}

Over == pc = "cleanup" /\ cleanups = <<>>

Pending(cleanup) == cleanup \in Range(cleanups)
There(c) == container[c] \in {"created", "running", "exited"}

\* The container that the test died over: it was created and createContainer
\* did not return, so that nobody knows it.
Stranded == IF diedAt \in Creating THEN {i} ELSE {}

\* "Cleanup the network (will be called last due to LIFO)" and what follows from
\* the order of registration: as long as the daemon refuses nothing, the network
\* is there for every container it has to release; and a host whose group the
\* test got is closed before its container is stopped.
OrderlyCleanup ==
  /\ \A c \in Container : Pending(c) => There(c) /\ Pending(Network)
  /\ Pending(Network) => network /\ Pending(Image)
  /\ Pending(Hosts) => \A c \in Container : Pending(c)
  /\ diedAt \in {"none", "body"} => cutOff = {}

BedInv == TypeOK /\ OrderlyCleanup

\* In whatever call a test ends, its cleanups leave nothing behind that they are
\* not refused; only a test that dies within createContainer leaves that one
\* container, and the network too if it was connected and runs on.  Whatever is
\* left, the test has failed: a leak is never silent.
NothingLeftBehind ==
  Over =>
    /\ \A c \in Container : There(c) => c \in refused \cup Stranded
    /\ stream => Image \in refused
    /\ network => Network \in refused \/ \E c \in attached : c \in refused \cup Stranded
    /\ connected # {} => diedAt \in Creating \cup {"create", "dial"}
    /\ stream \/ network \/ connected # {} \/ (\E c \in Container : There(c))
         => verdict = "failed"

=============================================================================
