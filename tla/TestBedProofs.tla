----------------------------- MODULE TestBedProofs -----------------------------
(***************************************************************************)
(* Theorems about TestBed, for any number of containers and look-ups.      *)
(***************************************************************************)
EXTENDS TestBed, SequenceTheorems, TLAPS

Cleanup == Container \cup {Image, Network, Hosts}

\* The cleanups are registered in one order.
Nth(j) == IF j = 1 THEN Image ELSE IF j = 2 THEN Network
          ELSE IF j = N + 3 THEN Hosts ELSE j - 2

L == Len(cleanups)

Shape == L <= N + 3 /\ \A j \in 1..L : cleanups[j] = Nth(j)

\* How many cleanups are registered when a call is about to be made.
Registered ==
  IF pc \in {"client", "ping", "build"} THEN 0
  ELSE IF pc \in {"consume", "network"} THEN 1
  ELSE IF pc = "body" THEN N + 3
  ELSE IF pc = "dial" THEN i + 2 ELSE i + 1

\* While the group is set up, every resource has its cleanup, but for the
\* container that is being made.
SetUpInv ==
  pc # "cleanup" =>
    /\ L = Registered
    /\ diedAt = "none" /\ refused = {} /\ cutOff = {}
    /\ pc \in Creating \cup {"dial"} => i \in Container
    /\ pc \in {"client", "ping", "build", "consume", "network"} => i = 1
    /\ pc = "body" => i = N + 1
    /\ stream => L >= 1
    /\ network <=> L >= 2
    /\ \A c \in Container : There(c) => c < i \/ (c = i /\ pc \in Creating \cup {"dial"})
    /\ connected \subseteq 1..i - 1

\* Once the test is over, only what was refused, or was never registered, is left
\* when its cleanup has run.
CleanUpInv ==
  pc = "cleanup" =>
    /\ diedAt # "none"
    /\ \A c \in Container : There(c) /\ L < c + 2 => c \in refused \cup Stranded
    /\ stream /\ L < 1 => Image \in refused
    /\ network /\ L < 2 =>
         Network \in refused \/ \E c \in attached : c \in refused \cup Stranded
    /\ connected # {} /\ L < N + 3 => diedAt \in Creating \cup {"create", "dial"}
    /\ diedAt \notin {"body", "ping"} => verdict = "failed"
    /\ refused # {} => verdict = "failed"

\* What a pending cleanup is for is there.
PendingInv ==
  /\ \A c \in Container : L >= c + 2 => There(c)
  /\ L >= 2 => network
  /\ diedAt \in {"none", "body"} => cutOff = {}

BedIInv == TypeOK /\ Shape /\ SetUpInv /\ CleanUpInv /\ PendingInv

LEMMA OneMore ==
  ASSUME TypeOK, Shape, L <= N + 2, Register(Nth(L + 1))
  PROVE  Shape' /\ L' = L + 1 /\ cleanups' \in Seq(Cleanup)
<1>1. cleanups \in Seq(Cleanup) /\ L \in Nat /\ N \in Nat
  BY BedAssumption DEF TypeOK, Cleanup, L
<1>2. Nth(L + 1) \in Cleanup
  BY <1>1 DEF Nth, Cleanup, Container
<1>3. PICK x \in Cleanup : x = Nth(L + 1)
  BY <1>2
<1>4. /\ cleanups' \in Seq(Cleanup) /\ L' = L + 1
      /\ \A j \in 1..L : cleanups'[j] = cleanups[j]
      /\ cleanups'[L + 1] = Nth(L + 1)
  BY <1>1, <1>3, AppendProperties DEF Register, L
<1>5. \A j \in 1..L' : cleanups'[j] = Nth(j)
  BY <1>1, <1>4 DEF Shape
<1> QED
  BY <1>1, <1>4, <1>5 DEF Shape, Nth

LEMMA OneRun ==
  ASSUME TypeOK, Shape, NEW x, Runs(x)
  PROVE  Shape' /\ L \in 1..N + 3 /\ L' = L - 1 /\ cleanups' \in Seq(Cleanup) /\ x = Nth(L)
<1>1. cleanups \in Seq(Cleanup) /\ N \in Nat /\ cleanups # <<>>
  BY BedAssumption DEF TypeOK, Cleanup, Runs
<1>2. PICK l \in Nat \ {0} : l = Len(cleanups)
  BY <1>1
<1>3. cleanups' = SubSeq(cleanups, 1, l - 1) /\ x = cleanups[l]
  BY <1>2 DEF Runs, Last, Front
<1>4. \A j \in 1..l - 1 : cleanups[j] \in Cleanup
  BY <1>1, <1>2
<1>5. /\ cleanups' \in Seq(Cleanup) /\ Len(cleanups') = IF 1 <= l - 1 THEN (l - 1) - 1 + 1 ELSE 0
      /\ \A j \in 1..(l - 1) - 1 + 1 : cleanups'[j] = cleanups[1 + j - 1]
  BY <1>3, <1>4, SubSeqProperties
<1>6. Len(cleanups') = l - 1
  BY <1>5
<1>7. \A j \in 1..l - 1 : cleanups'[j] = cleanups[j]
  BY <1>5
<1>8. l <= N + 3 /\ \A j \in 1..l : cleanups[j] = Nth(j)
  BY <1>2 DEF Shape, L
<1>9. Shape'
  BY <1>1, <1>6, <1>7, <1>8 DEF Shape, L, Nth
<1> QED
  BY <1>1, <1>2, <1>3, <1>5, <1>6, <1>8, <1>9 DEF L

\* A test that ends: what it has made is registered, but for the container it
\* was making.
LEMMA EndsWell ==
  ASSUME BedIInv, pc # "cleanup", diedAt' = pc, pc' = "cleanup",
         UNCHANGED <<skip, i, tries, cleanups, stream, network, container, attached, cutOff, refused>>,
         connected' = connected \/ (pc = "dial" /\ connected' = connected \cup {i}),
         verdict' \in {"ok", "failed", "skipped"},
         pc \notin {"body", "ping"} => verdict' = "failed"
  PROVE  BedIInv'
<1>1. /\ N \in Nat /\ L \in Nat /\ i \in 1..N + 1 /\ L = Registered
      /\ pc \in Place /\ L' = L
  BY BedAssumption DEF BedIInv, TypeOK, L, SetUpInv
<1>2. TypeOK'
  BY <1>1 DEF BedIInv, TypeOK, SetUpInv, Place
<1>3. Shape' /\ SetUpInv'
  BY <1>1 DEF BedIInv, Shape, Nth, SetUpInv
<1>4. PendingInv'
  BY <1>1 DEF BedIInv, PendingInv, There, SetUpInv
<1>5. CleanUpInv'
  <2>1. ASSUME NEW c \in Container, There(c), L < c + 2 PROVE c \in Stranded'
    BY <1>1, <2>1 DEF BedIInv, SetUpInv, Registered, Stranded, Container, Place, Creating
  <2>2. connected' # {} /\ L < N + 3 => pc \in Creating \cup {"create", "dial"}
    BY <1>1 DEF BedIInv, SetUpInv, Registered, Place
  <2>3. ~(stream /\ L < 1) /\ ~(network /\ L < 2) /\ refused = {}
    BY <1>1 DEF BedIInv, SetUpInv
  <2>4. diedAt' # "none"
    BY <1>1 DEF Place, Creating
  <2> QED
    BY <1>1, <2>1, <2>2, <2>3, <2>4 DEF CleanUpInv, There
<1> QED
  BY <1>2, <1>3, <1>4, <1>5 DEF BedIInv

\* A call that goes on and registers nothing.
LEMMA GoesOn ==
  ASSUME BedIInv, pc # "cleanup", pc' \in Place \ {"cleanup"},
         UNCHANGED <<skip, diedAt, i, cleanups, stream, network, connected, cutOff, refused>>,
         verdict' \in {verdict, "failed"}, tries' \in 0..Retries, attached' \subseteq Container,
         container' \in [Container -> {"none", "created", "running", "exited", "removed"}],
         Registered' = Registered,
         \A c \in Container : There(c) => There(c)',
         \A c \in Container : There(c)' => There(c) \/ (c = i /\ pc' \in Creating),
         \A c \in Container : There(c) /\ c = i => pc' \in Creating \cup {"dial"},
         pc' \in Creating \cup {"dial"} => i \in Container,
         pc' \in {"client", "ping", "build", "consume", "network"} => i = 1,
         pc' = "body" => i = N + 1
  PROVE  BedIInv'
<1>1. N \in Nat /\ L \in Nat /\ i \in 1..N + 1 /\ L = Registered /\ L' = L
  BY BedAssumption DEF BedIInv, TypeOK, L, SetUpInv
<1>2. TypeOK'
  BY DEF BedIInv, TypeOK
<1>3. Shape' /\ PendingInv' /\ CleanUpInv'
  BY <1>1 DEF BedIInv, Shape, Nth, PendingInv, CleanUpInv
<1>4. SetUpInv'
  <2>1. \A c \in Container : There(c)' => c < i \/ (c = i /\ pc' \in Creating \cup {"dial"})
    BY DEF BedIInv, SetUpInv
  <2> QED
    BY <1>1, <2>1 DEF BedIInv, SetUpInv
<1> QED
  BY <1>2, <1>3, <1>4 DEF BedIInv
LEMMA GoOnKeeps ==
  ASSUME BedIInv,
         \/ CreateClient \/ Ping \/ ConsumeStream \/ ContainerCreate \/ ContainerStart
         \/ ContainerInspect \/ NetworkConnect \/ LookUpPort,
         pc' # "cleanup"
  PROVE  BedIInv'
<1> USE DEF inTest, resources, history
<1>1. /\ N \in Nat /\ L = Registered /\ i \in 1..N + 1 /\ pc \in Place /\ pc # "cleanup"
      /\ tries \in 0..Retries /\ Retries \in Nat /\ attached \subseteq Container
      /\ container \in [Container -> {"none", "created", "running", "exited", "removed"}]
      /\ \A c \in Container : There(c) => c < i \/ (c = i /\ pc \in Creating \cup {"dial"})
      /\ pc \in {"client", "ping", "build", "consume", "network"} => i = 1
      /\ pc \in Creating \cup {"dial"} => i \in Container
  <2>1. pc # "cleanup"
    BY DEF CreateClient, Ping, ConsumeStream, ContainerCreate, ContainerStart,
       ContainerInspect, NetworkConnect, LookUpPort, Fails
  <2> QED
    BY <2>1, BedAssumption DEF BedIInv, TypeOK, SetUpInv
<1>2. CASE CreateClient \/ Ping \/ ConsumeStream
  <2>1. /\ pc \in {"client", "ping", "consume"} /\ pc' \in {"ping", "build", "network"}
        /\ (pc = "consume" <=> pc' = "network") /\ verdict' \in {verdict, "failed"}
        /\ UNCHANGED <<skip, diedAt, i, tries, cleanups, stream, network, container, attached,
                      connected, cutOff, refused>>
    BY <1>1, <1>2 DEF CreateClient, Ping, ConsumeStream, GoOn, Fails, Fatal, EndTest
  <2>2. Registered' = Registered
    BY <2>1 DEF Registered
  <2>3. pc' \in Place \ {"cleanup"} /\ pc' \notin Creating \cup {"dial", "body"}
    BY <2>1 DEF Place, Creating
  <2>4. \A c \in Container : There(c)' = There(c) /\ (There(c) => c # i)
    BY <1>1, <2>1 DEF There, Creating, Container
  <2> QED
    BY <1>1, <2>1, <2>2, <2>3, <2>4, GoesOn
<1>3. CASE ContainerCreate \/ ContainerStart
  <2>1. PICK x \in {"created", "running"} :
          /\ pc \in {"create", "start"} /\ pc' \in {"start", "inspect"} /\ i \in Container
          /\ container' = [container EXCEPT ![i] = x]
          /\ UNCHANGED <<skip, verdict, diedAt, i, tries, cleanups, stream, network, attached,
                        connected, cutOff, refused>>
    <3>1. CASE ContainerCreate
      BY <1>1, <3>1 DEF ContainerCreate, GoOn, Fails, Fatal, EndTest
    <3>2. CASE ContainerStart
      BY <1>1, <3>2 DEF ContainerStart, GoOn, Fails, Fatal, EndTest, Creating
    <3> QED
      BY <1>3, <3>1, <3>2
  <2>2. Registered' = Registered
    BY <2>1 DEF Registered
  <2>3. pc' \in Place \ {"cleanup"} /\ pc' \in Creating
    BY <2>1 DEF Place, Creating
  <2>4. \A c \in Container : There(c)' => There(c) \/ c = i
    BY <1>1, <2>1 DEF There
  <2>5. container' \in [Container -> {"none", "created", "running", "exited", "removed"}]
    BY <1>1, <2>1
  <2>6. pc' \notin {"client", "ping", "build", "consume", "network", "body"}
    BY <2>1
  <2>7. \A c \in Container : There(c) => There(c)'
    BY <1>1, <2>1 DEF There
  <2>8. \A c \in Container : There(c)' => There(c) \/ (c = i /\ pc' \in Creating)
    BY <2>3, <2>4
  <2>9. verdict' \in {verdict, "failed"} /\ tries' \in 0..Retries /\ attached' \subseteq Container
    BY <1>1, <2>1
  <2>10. pc' \in Creating \cup {"dial"} => i \in Container
    BY <2>1
  <2> QED
    BY <1>1, <2>1, <2>2, <2>3, <2>5, <2>6, <2>7, <2>8, <2>9, <2>10, GoesOn
<1>4. CASE ContainerInspect \/ NetworkConnect \/ LookUpPort
  <2>1. /\ pc \in Creating /\ pc' \in {"connect", "port", "ready"} /\ i \in Container
        /\ attached' \subseteq Container /\ tries' \in 0..Retries
        /\ UNCHANGED <<skip, verdict, diedAt, i, cleanups, stream, network, container,
                      connected, cutOff, refused>>
    <3>1. CASE ContainerInspect
      BY <1>1, <3>1 DEF ContainerInspect, GoOn, Fails, Fatal, EndTest, Creating
    <3>2. CASE NetworkConnect
      BY <1>1, <3>2 DEF NetworkConnect, GoOn, Fails, Fatal, EndTest, Creating
    <3>3. CASE LookUpPort
      BY <1>1, <3>3 DEF LookUpPort, Fails, Fatal, EndTest, Creating
    <3> QED
      BY <1>4, <3>1, <3>2, <3>3
  <2>2. Registered' = Registered
    BY <2>1 DEF Registered, Creating
  <2>3. pc' \in Place \ {"cleanup"} /\ pc' \in Creating
    BY <2>1 DEF Place, Creating
  <2>4. \A c \in Container : There(c)' = There(c)
    BY <2>1 DEF There
  <2>5. pc' \notin {"client", "ping", "build", "consume", "network", "body"}
    BY <2>1
  <2> QED
    BY <1>1, <2>1, <2>2, <2>3, <2>4, <2>5, GoesOn
<1> QED
  BY <1>2, <1>3, <1>4

\* A call that goes on and registers a cleanup, or has made a host.
LEMMA RegisterKeeps ==
  ASSUME BedIInv, ImageBuild \/ CreateNetwork \/ WaitForSSHReady \/ RegisterGroup, pc' # "cleanup"
  PROVE  BedIInv'
<1> USE DEF inTest, resources, history
<1>1. /\ N \in Nat /\ L = Registered /\ i \in 1..N + 1 /\ pc \in Place /\ pc # "cleanup"
      /\ diedAt = "none" /\ refused = {} /\ cutOff = {} /\ L \in Nat
      /\ \A c \in Container : There(c) => c < i \/ (c = i /\ pc \in Creating \cup {"dial"})
      /\ pc \in {"client", "ping", "build", "consume", "network"} => i = 1
      /\ pc \in Creating \cup {"dial"} => i \in Container
      /\ \A c \in Container : L >= c + 2 => There(c)
      /\ stream => L >= 1
      /\ network <=> L >= 2
      /\ connected \subseteq 1..i - 1
  <2>1. pc # "cleanup"
    BY DEF ImageBuild, CreateNetwork, WaitForSSHReady, RegisterGroup, Fails
  <2> QED
    BY <2>1, BedAssumption DEF BedIInv, TypeOK, SetUpInv, PendingInv, L
<1>2. /\ UNCHANGED <<skip, diedAt, verdict, i, tries, container, attached, connected, cutOff, refused>>
      /\ pc' \in Place
  BY <1>1 DEF ImageBuild, CreateNetwork, WaitForSSHReady, RegisterGroup, Fails, Fatal, EndTest, GoOn,
     Place, Creating
<1>3. /\ Register(Nth(L + 1)) /\ L <= N + 2
      /\ \/ pc = "build" /\ pc' = "consume" /\ stream' = TRUE /\ UNCHANGED network
         \/ pc = "network" /\ pc' = "create" /\ network' = TRUE /\ UNCHANGED stream
         \/ pc = "ready" /\ pc' = "dial" /\ There(i) /\ UNCHANGED <<stream, network>>
         \/ pc = "create" /\ pc' = "body" /\ i = N + 1 /\ UNCHANGED <<stream, network>>
  <2>1. CASE ImageBuild
    <3>1. pc = "build" /\ pc' = "consume" /\ stream' = TRUE /\ UNCHANGED network /\ Register(Image)
      BY <1>1, <2>1 DEF ImageBuild, GoOn, Fails, Fatal, EndTest
    <3>2. L = 0
      BY <1>1, <3>1 DEF Registered
    <3> QED
      BY <1>1, <3>1, <3>2 DEF Nth
  <2>2. CASE CreateNetwork
    <3>1. pc = "network" /\ pc' = "create" /\ network' = TRUE /\ UNCHANGED stream /\ Register(Network)
      BY <1>1, <2>2 DEF CreateNetwork, GoOn, Fails, Fatal, EndTest
    <3>2. L = 1
      BY <1>1, <3>1 DEF Registered
    <3> QED
      BY <1>1, <3>1, <3>2 DEF Nth
  <2>3. CASE WaitForSSHReady
    <3>1. /\ pc = "ready" /\ pc' = "dial" /\ There(i) /\ UNCHANGED <<stream, network>>
          /\ Register(i)
      BY <1>1, <2>3 DEF WaitForSSHReady, GoOn, Fails, Fatal, EndTest, There
    <3>2. L = i + 1 /\ i \in 1..N
      BY <1>1, <3>1 DEF Registered, Creating, Container
    <3>3. Nth(L + 1) = i
      BY <1>1, <3>2 DEF Nth
    <3> QED
      BY <1>1, <3>1, <3>2, <3>3
  <2>4. CASE RegisterGroup
    <3>1. /\ pc = "create" /\ pc' = "body" /\ i = N + 1 /\ UNCHANGED <<stream, network>>
          /\ Register(Hosts)
      BY <1>1, <2>4 DEF RegisterGroup, GoOn, Container
    <3>2. L = N + 2
      BY <1>1, <3>1 DEF Registered
    <3>3. Nth(L + 1) = Hosts
      BY <1>1, <3>2 DEF Nth
    <3> QED
      BY <1>1, <3>1, <3>2, <3>3
  <2> QED
    BY <2>1, <2>2, <2>3, <2>4
<1>4. Shape' /\ L' = L + 1 /\ cleanups' \in Seq(Cleanup)
  BY <1>3, OneMore DEF BedIInv
<1>5. L' = Registered'
  BY <1>1, <1>2, <1>3, <1>4 DEF Registered
<1>6. TypeOK'
  BY <1>1, <1>2, <1>3, <1>4 DEF BedIInv, TypeOK, Cleanup
<1>7. \A c \in Container : There(c)' = There(c)
  BY <1>2 DEF There
<1>8. PendingInv'
  <2>1. ASSUME NEW c \in Container, L' >= c + 2 PROVE There(c)
    <3>1. CASE L >= c + 2
      BY <1>1, <3>1
    <3>2. CASE ~(L >= c + 2)
      <4>1. L = c + 1
        BY <1>1, <1>4, <2>1, <3>2 DEF Container
      <4> QED
        BY <1>1, <1>3, <4>1 DEF Registered, Container
    <3> QED
      BY <3>1, <3>2
  <2>2. L' >= 2 => network'
    <3>1. CASE pc = "build"
      BY <1>1, <1>4, <3>1 DEF Registered
    <3>2. CASE pc # "build"
      BY <1>1, <1>3, <1>4, <3>2 DEF Registered
    <3> QED
      BY <3>1, <3>2
  <2> QED
    BY <1>1, <1>2, <1>7, <2>1, <2>2 DEF PendingInv
<1>9. SetUpInv'
  <2>1. \A c \in Container : There(c)' => c < i \/ (c = i /\ pc' \in Creating \cup {"dial"})
    BY <1>1, <1>3, <1>7 DEF Creating, Container
  <2>2. network' <=> L' >= 2
    <3>1. CASE pc = "build"
      <4>1. L' = 1 /\ ~network /\ network' = network
        BY <1>1, <1>3, <1>4, <3>1 DEF Registered
      <4> QED
        BY <4>1
    <3>2. CASE pc = "network"
      <4>1. L' = 2 /\ network' = TRUE
        BY <1>1, <1>3, <1>4, <3>2 DEF Registered
      <4> QED
        BY <4>1
    <3>3. CASE pc \notin {"build", "network"}
      <4>1. L >= 2 /\ network' = network
        BY <1>1, <1>3, <3>3 DEF Registered
      <4> QED
        BY <1>1, <1>4, <4>1
    <3> QED
      BY <3>1, <3>2, <3>3
  <2>3. /\ pc' \in Creating \cup {"dial"} => i \in Container
        /\ pc' \in {"client", "ping", "build", "consume", "network"} => i = 1
        /\ pc' = "body" => i = N + 1
    BY <1>1, <1>3 DEF Creating
  <2>4. L' >= 1
    BY <1>1, <1>4
  <2> QED
    BY <1>1, <1>2, <1>5, <2>1, <2>2, <2>3, <2>4 DEF SetUpInv
<1>10. CleanUpInv'
  BY DEF CleanUpInv
<1> QED
  BY <1>4, <1>6, <1>8, <1>9, <1>10 DEF BedIInv
LEMMA DialKeeps ==
  ASSUME BedIInv, DialSSH, pc' # "cleanup"
  PROVE  BedIInv'
<1> USE DEF inTest, resources, history
<1>1. /\ pc = "dial" /\ pc' = "create" /\ i' = i + 1 /\ connected' = connected \cup {i}
      /\ UNCHANGED <<skip, diedAt, verdict, tries, cleanups, stream, network, container, attached,
                    cutOff, refused>>
  BY DEF DialSSH, Fatal, EndTest
<1>2. /\ N \in Nat /\ L = i + 2 /\ i \in 1..N /\ L' = L /\ connected \subseteq 1..i - 1
      /\ diedAt = "none" /\ refused = {} /\ cutOff = {} /\ (stream => L >= 1) /\ (network <=> L >= 2)
      /\ \A c \in Container : There(c) => c < i \/ c = i
  BY <1>1, BedAssumption DEF BedIInv, SetUpInv, Registered, Container, L
<1>3. TypeOK'
  BY <1>1, <1>2 DEF BedIInv, TypeOK, Place, Container
<1>4. Shape' /\ PendingInv' /\ CleanUpInv'
  BY <1>1 DEF BedIInv, Shape, Nth, L, PendingInv, There, CleanUpInv
<1>5. L' = Registered'
  BY <1>1, <1>2 DEF Registered
<1>6. connected' \subseteq 1..i' - 1
  BY <1>1, <1>2
<1>7. \A c \in Container : There(c)' => c < i'
  BY <1>1, <1>2 DEF There, Container
<1> QED
  BY <1>1, <1>2, <1>3, <1>4, <1>5, <1>6, <1>7 DEF BedIInv, SetUpInv, Creating

\* Any call of the set-up, or the test itself, may be the last one.
LEMMA FailKeeps ==
  ASSUME BedIInv, SetUp \/ Body, pc' = "cleanup"
  PROVE  BedIInv'
<1>1. /\ pc # "cleanup" /\ diedAt' = pc
      /\ UNCHANGED <<skip, i, tries, cleanups, stream, network, container, attached, cutOff, refused>>
      /\ connected' = connected \/ (pc = "dial" /\ connected' = connected \cup {i})
      /\ \/ verdict' = "failed" \/ (pc = "body" /\ verdict' = verdict)
         \/ (pc = "ping" /\ verdict' = "skipped")
  <2> USE DEF inTest, resources, history, Fails, Fatal, EndTest, GoOn
  <2>1. CASE Body
    BY <2>1 DEF Body
  <2>2. CASE Ping
    BY <2>2 DEF Ping
  <2>3. CASE DialSSH
    BY <2>3 DEF DialSSH
  <2>4. CASE CreateClient \/ ImageBuild \/ ConsumeStream \/ CreateNetwork \/ ContainerCreate
    BY <2>4 DEF CreateClient, ImageBuild, ConsumeStream, CreateNetwork, ContainerCreate
  <2>5. CASE ContainerStart \/ ContainerInspect \/ NetworkConnect \/ LookUpPort \/ WaitForSSHReady
             \/ RegisterGroup
    BY <2>5 DEF ContainerStart, ContainerInspect, NetworkConnect, LookUpPort, WaitForSSHReady,
       RegisterGroup
  <2> QED
    BY <2>1, <2>2, <2>3, <2>4, <2>5 DEF SetUp
<1>2. verdict \in {"ok", "failed", "skipped"}
  BY DEF BedIInv, TypeOK
<1>3. verdict' \in {"ok", "failed", "skipped"} /\ (pc \notin {"body", "ping"} => verdict' = "failed")
  BY <1>1, <1>2
<1> QED
  BY <1>1, <1>3, EndsWell

\* A container that exits is still there.
LEMMA ExitKeeps ==
  ASSUME BedIInv, NEW c \in Container, Exits(c)
  PROVE  BedIInv'
<1>1. /\ container' = [container EXCEPT ![c] = "exited"] /\ container[c] = "running"
      /\ UNCHANGED <<skip, diedAt, verdict, pc, i, tries, cleanups, stream, network, attached,
                    connected, cutOff, refused>>
  BY DEF Exits, inTest, history
<1>2. container \in [Container -> {"none", "created", "running", "exited", "removed"}]
  BY DEF BedIInv, TypeOK
<1>3. \A b \in Container : There(b)' <=> There(b)
  BY <1>1, <1>2 DEF There
<1>4. L' = L /\ Registered' = Registered /\ Stranded' = Stranded
  BY <1>1 DEF L, Registered, Stranded
<1>5. TypeOK'
  BY <1>1, <1>2 DEF BedIInv, TypeOK
<1>6. Shape' /\ PendingInv'
  BY <1>1, <1>3, <1>4 DEF BedIInv, Shape, Nth, PendingInv
<1>7. SetUpInv'
  BY <1>1, <1>3, <1>4 DEF BedIInv, SetUpInv
<1>8. CleanUpInv'
  BY <1>1, <1>3, <1>4 DEF BedIInv, CleanUpInv
<1> QED
  BY <1>5, <1>6, <1>7, <1>8 DEF BedIInv
\* What holds of a cleanup that runs, whichever it is.
LEMMA RunsWhat ==
  ASSUME BedIInv, NEW x, Runs(x)
  PROVE  /\ Shape' /\ L \in 1..N + 3 /\ L' = L - 1 /\ cleanups' \in Seq(Cleanup) /\ x = Nth(L)
         /\ pc = "cleanup" /\ UNCHANGED <<skip, pc, i, tries, diedAt>> /\ N \in Nat
         /\ Stranded' = Stranded /\ SetUpInv' /\ CleanUpInv
         /\ x = Hosts => L = N + 3
         /\ x = Network => L = 2
         /\ x = Image => L = 1
         /\ x \in Container => L = x + 2
<1>1. Shape' /\ L \in 1..N + 3 /\ L' = L - 1 /\ cleanups' \in Seq(Cleanup) /\ x = Nth(L)
  BY OneRun DEF BedIInv
<1>2. pc = "cleanup" /\ UNCHANGED <<skip, pc, i, tries, diedAt>>
  BY DEF Runs
<1>3. CleanUpInv
  BY <1>2 DEF BedIInv
<1>4. /\ x = Hosts => L = N + 3
      /\ x = Network => L = 2
      /\ x = Image => L = 1
      /\ x \in Container => L = x + 2
  <2>1. PICK l \in Nat : l = L
    BY <1>1, BedAssumption
  <2>2. /\ l \in 1..N + 3 /\ N \in Nat /\ x = Nth(l)
        /\ Image \notin Nat /\ Network \notin Nat /\ Hosts \notin Nat
        /\ Image # Network /\ Image # Hosts /\ Network # Hosts
    BY <1>1, <2>1, BedAssumption
  <2>3. CASE l = 1
    BY <2>1, <2>2, <2>3 DEF Nth, Container
  <2>4. CASE l = 2
    BY <2>1, <2>2, <2>4 DEF Nth, Container
  <2>5. CASE l = N + 3
    BY <2>1, <2>2, <2>5 DEF Nth, Container
  <2>6. CASE l # 1 /\ l # 2 /\ l # N + 3
    <3>1. x = l - 2 /\ l - 2 \in Nat
      BY <2>2, <2>6 DEF Nth
    <3> QED
      BY <2>1, <2>2, <3>1
  <2> QED
    BY <2>3, <2>4, <2>5, <2>6
<1> QED
  BY <1>1, <1>2, <1>3, <1>4, BedAssumption DEF SetUpInv, Stranded

\* An error in a cleanup is never silent.
LEMMA ErrorsKept ==
  ASSUME BedIInv, NEW x \in Cleanup, NEW failed \in BOOLEAN, Errors(x, failed), pc = "cleanup"
  PROVE  /\ refused' \subseteq Cleanup /\ refused \subseteq refused'
         /\ verdict' \in {"ok", "failed", "skipped"}
         /\ failed => x \in refused'
         /\ refused' # {} => verdict' = "failed"
         /\ verdict = "failed" => verdict' = "failed"
BY DEF BedIInv, TypeOK, Cleanup, Errors, CleanUpInv

LEMMA CloseKeeps ==
  ASSUME BedIInv, CloseGroup \/ CloseStream
  PROVE  BedIInv'
<1>1. PICK x \in {Hosts, Image}, failed \in BOOLEAN :
        /\ Runs(x) /\ Errors(x, failed)
        /\ connected' = IF x = Hosts THEN {} ELSE connected
        /\ stream' = IF x = Hosts THEN stream ELSE failed
        /\ UNCHANGED <<network, container, attached, cutOff>>
  BY BedAssumption DEF CloseGroup, CloseStream
<1>2. /\ Shape' /\ L \in 1..N + 3 /\ L' = L - 1 /\ cleanups' \in Seq(Cleanup)
      /\ pc = "cleanup" /\ UNCHANGED <<skip, pc, i, tries, diedAt>> /\ N \in Nat
      /\ Stranded' = Stranded /\ SetUpInv' /\ CleanUpInv
      /\ x = Hosts => L = N + 3
      /\ x = Image => L = 1
  BY <1>1, RunsWhat
<1>3. /\ refused' \subseteq Cleanup /\ refused \subseteq refused'
      /\ verdict' \in {"ok", "failed", "skipped"}
      /\ failed => x \in refused'
      /\ refused' # {} => verdict' = "failed"
      /\ verdict = "failed" => verdict' = "failed"
  BY <1>1, <1>2, ErrorsKept DEF Cleanup
<1>4. TypeOK'
  BY <1>1, <1>2, <1>3 DEF BedIInv, TypeOK, Cleanup
<1>5. \A c \in Container : There(c)' = There(c)
  BY <1>1 DEF There
<1>6. PendingInv'
  <2>1. ASSUME NEW c \in Container, L' >= c + 2 PROVE There(c)
    BY <1>2, <2>1 DEF BedIInv, PendingInv, Container
  <2>2. L' >= 2 => network'
    BY <1>1, <1>2 DEF BedIInv, PendingInv
  <2> QED
    BY <1>1, <1>2, <1>5, <2>1, <2>2 DEF BedIInv, PendingInv
<1>7. CleanUpInv'
  <2>1. ASSUME NEW c \in Container, There(c), L' < c + 2 PROVE c \in refused \cup Stranded
    <3>1. L < c + 2
      BY <1>1, <1>2, <2>1 DEF Container
    <3> QED
      BY <1>2, <2>1, <3>1 DEF CleanUpInv
  <2>2. stream' /\ L' < 1 => Image \in refused'
    <3>1. CASE x = Image
      BY <1>1, <1>3, <3>1, BedAssumption
    <3>2. CASE x # Image
      <4>2. L' >= 1
        BY <1>1, <1>2, <3>2
      <4> QED
        BY <1>2, <4>2
    <3> QED
      BY <3>1, <3>2
  <2>3. network' /\ L' < 2 =>
          Network \in refused' \/ \E c \in attached' : c \in refused' \cup Stranded'
    <3>1. CASE x = Image
      BY <1>1, <1>2, <1>3, <3>1 DEF CleanUpInv
    <3>2. CASE x = Hosts
      BY <1>1, <1>2, <3>2
    <3> QED
      BY <1>1, <3>1, <3>2
  <2>4. connected' # {} /\ L' < N + 3 => diedAt \in Creating \cup {"create", "dial"}
    BY <1>1, <1>2, BedAssumption DEF CleanUpInv
  <2>5. diedAt # "none" /\ (diedAt \notin {"body", "ping"} => verdict = "failed")
    BY <1>2 DEF CleanUpInv
  <2> QED
    BY <1>2, <1>3, <1>5, <2>1, <2>2, <2>3, <2>4, <2>5 DEF CleanUpInv
<1> QED
  BY <1>2, <1>4, <1>6, <1>7 DEF BedIInv

LEMMA NetworkKeeps ==
  ASSUME BedIInv, CleanupNetwork
  PROVE  BedIInv'
<1> DEFINE inUse == \E c \in attached : container[c] = "running"
<1>1. PICK refuses \in BOOLEAN :
        /\ Runs(Network)
        /\ network' = (inUse \/ refuses)
        /\ IF inUse /\ ~ refuses THEN verdict' = "failed" /\ UNCHANGED refused
                                 ELSE Errors(Network, refuses)
        /\ UNCHANGED <<stream, container, attached, connected, cutOff>>
  BY DEF CleanupNetwork
<1>2. /\ Shape' /\ L = 2 /\ L' = 1 /\ cleanups' \in Seq(Cleanup)
      /\ pc = "cleanup" /\ UNCHANGED <<skip, pc, i, tries, diedAt>> /\ N \in Nat
      /\ Stranded' = Stranded /\ SetUpInv' /\ CleanUpInv
  BY <1>1, RunsWhat
<1>3. /\ refused' \subseteq Cleanup /\ refused \subseteq refused'
      /\ verdict' \in {"ok", "failed", "skipped"}
      /\ refuses => Network \in refused'
      /\ refused' # {} => verdict' = "failed"
      /\ verdict = "failed" => verdict' = "failed"
  <2>1. CASE inUse /\ ~refuses
    BY <1>1, <2>1 DEF BedIInv, TypeOK, Cleanup
  <2>2. CASE ~(inUse /\ ~refuses)
    BY <1>1, <1>2, <2>2, ErrorsKept DEF Cleanup
  <2> QED
    BY <2>1, <2>2
<1>4. network' \in BOOLEAN /\ (network' => inUse \/ refuses)
  BY <1>1
<1>5. inUse => \E c \in attached : c \in refused \cup Stranded
  BY <1>2 DEF BedIInv, TypeOK, CleanUpInv, There, Container
<1> HIDE DEF inUse
<1>6. TypeOK'
  BY <1>1, <1>2, <1>3, <1>4 DEF BedIInv, TypeOK, Cleanup
<1>7. \A c \in Container : There(c)' = There(c)
  BY <1>1 DEF There
<1>8. PendingInv'
  BY <1>1, <1>2 DEF BedIInv, PendingInv, Container
<1>9. CleanUpInv'
  <2>1. \A c \in Container : There(c) => c \in refused \cup Stranded
    BY <1>2 DEF CleanUpInv, Container
  <2>2. network' => Network \in refused' \/ \E c \in attached' : c \in refused' \cup Stranded'
    BY <1>1, <1>2, <1>3, <1>4, <1>5
  <2>3. ~(L' < 1)
    BY <1>2
  <2>4. connected' # {} => diedAt \in Creating \cup {"create", "dial"}
    BY <1>1, <1>2 DEF CleanUpInv
  <2>5. diedAt # "none" /\ (diedAt \notin {"body", "ping"} => verdict = "failed")
    BY <1>2 DEF CleanUpInv
  <2> QED
    BY <1>2, <1>3, <1>7, <2>1, <2>2, <2>3, <2>4, <2>5 DEF CleanUpInv
<1> QED
  BY <1>2, <1>6, <1>8, <1>9 DEF BedIInv

LEMMA ContainerKeeps ==
  ASSUME BedIInv, NEW c \in Container, CleanupContainer(c)
  PROVE  BedIInv'
<1>1. PICK stops \in BOOLEAN, disconnects \in BOOLEAN, removes \in BOOLEAN :
        /\ Runs(c)
        /\ attached' = IF disconnects \/ removes THEN attached \ {c} ELSE attached
        /\ container' = [container EXCEPT ![c] =
                           IF removes THEN "removed" ELSE IF stops THEN "exited" ELSE @]
        /\ Errors(c, ~ (stops /\ disconnects /\ removes))
        /\ cutOff' = cutOff \cup ({c} \cap connected)
        /\ UNCHANGED <<stream, network, connected>>
  BY DEF CleanupContainer
<1>2. /\ Shape' /\ L = c + 2 /\ L' = c + 1 /\ cleanups' \in Seq(Cleanup)
      /\ pc = "cleanup" /\ UNCHANGED <<skip, pc, i, tries, diedAt>> /\ N \in Nat /\ c \in 1..N
      /\ Stranded' = Stranded /\ SetUpInv' /\ CleanUpInv
  <2>1. /\ Shape' /\ L \in 1..N + 3 /\ L' = L - 1 /\ cleanups' \in Seq(Cleanup)
        /\ pc = "cleanup" /\ UNCHANGED <<skip, pc, i, tries, diedAt>> /\ N \in Nat
        /\ Stranded' = Stranded /\ SetUpInv' /\ CleanUpInv
        /\ c \in Container => L = c + 2
    BY <1>1, RunsWhat
  <2> QED
    BY <2>1 DEF Container
<1>3. /\ refused' \subseteq Cleanup /\ refused \subseteq refused'
      /\ verdict' \in {"ok", "failed", "skipped"}
      /\ ~removes => c \in refused'
      /\ refused' # {} => verdict' = "failed"
      /\ verdict = "failed" => verdict' = "failed"
  <2>1. PICK failed \in BOOLEAN : failed = ~ (stops /\ disconnects /\ removes) /\ Errors(c, failed)
    BY <1>1
  <2> QED
    BY <1>2, <2>1, ErrorsKept DEF Cleanup
<1>4. container \in [Container -> {"none", "created", "running", "exited", "removed"}]
  BY DEF BedIInv, TypeOK
<1>5. /\ container' \in [Container -> {"none", "created", "running", "exited", "removed"}]
      /\ \A b \in Container \ {c} : There(b)' = There(b)
      /\ removes => ~There(c)'
  BY <1>1, <1>4 DEF There
<1>6. TypeOK'
  BY <1>1, <1>2, <1>3, <1>5 DEF BedIInv, TypeOK, Cleanup
<1>7. PendingInv'
  <2>1. ASSUME NEW b \in Container, L' >= b + 2 PROVE There(b)'
    <3>1. b # c /\ L >= b + 2
      BY <1>2, <2>1 DEF Container
    <3> QED
      BY <1>5, <3>1 DEF BedIInv, PendingInv
  <2>2. L' >= 2 => network'
    BY <1>1, <1>2 DEF BedIInv, PendingInv
  <2>3. diedAt' \in {"none", "body"} => cutOff' = {}
    BY <1>1, <1>2 DEF BedIInv, PendingInv, CleanUpInv, Creating
  <2> QED
    BY <2>1, <2>2, <2>3 DEF PendingInv
<1>8. CleanUpInv'
  <2>1. ASSUME NEW b \in Container, There(b)', L' < b + 2 PROVE b \in refused' \cup Stranded'
    <3>1. CASE b = c
      BY <1>3, <1>5, <2>1, <3>1
    <3>2. CASE b # c
      <4>1. There(b) /\ L < b + 2
        BY <1>2, <1>5, <2>1, <3>2 DEF Container
      <4> QED
        BY <1>2, <1>3, <4>1 DEF CleanUpInv
    <3> QED
      BY <3>1, <3>2
  <2>2. ~(L' < 2)
    BY <1>2
  <2>3. connected' # {} => diedAt \in Creating \cup {"create", "dial"}
    BY <1>1, <1>2 DEF CleanUpInv
  <2>4. diedAt # "none" /\ (diedAt \notin {"body", "ping"} => verdict = "failed")
    BY <1>2 DEF CleanUpInv
  <2> QED
    BY <1>2, <1>3, <2>1, <2>2, <2>3, <2>4 DEF CleanUpInv
<1> QED
  BY <1>2, <1>6, <1>7, <1>8 DEF BedIInv

LEMMA BedStarts == Init => BedIInv
<1> SUFFICES ASSUME Init PROVE BedIInv
  OBVIOUS
<1>1. cleanups \in Seq(Cleanup) /\ L = 0 /\ N \in Nat
  BY BedAssumption DEF Init, L
<1>2. TypeOK
  <2>1. i \in 1..N + 1 /\ tries \in 0..Retries
    BY BedAssumption DEF Init
  <2>2. container \in [Container -> {"none", "created", "running", "exited", "removed"}]
    BY DEF Init
  <2>3. cleanups \in Seq(Container \cup {Image, Network, Hosts})
    BY <1>1 DEF Cleanup
  <2> QED
    BY <2>1, <2>2, <2>3 DEF Init, TypeOK, Place
<1>3. Shape /\ PendingInv /\ CleanUpInv
  BY <1>1 DEF Init, Shape, PendingInv, CleanUpInv, Container
<1>4. SetUpInv
  BY <1>1 DEF Init, SetUpInv, Registered, Creating, There
<1> QED
  BY <1>2, <1>3, <1>4 DEF BedIInv

LEMMA BedIInvAlways == BedSpec => []BedIInv
<1>1. BedIInv /\ [Next]_bedVars => BedIInv'
  <2> SUFFICES ASSUME BedIInv, [Next]_bedVars PROVE BedIInv'
    OBVIOUS
  <2>1. CASE SetUp \/ Body
    <3>1. CASE pc' = "cleanup"
      BY <2>1, <3>1, FailKeeps
    <3>2. CASE pc' # "cleanup"
      <4>1. ~Body
        BY <3>2 DEF Body, EndTest, Fatal
      <4> QED
        BY <2>1, <3>2, <4>1, GoOnKeeps, RegisterKeeps, DialKeeps DEF SetUp
    <3> QED
      BY <3>1, <3>2
  <2>2. CASE CleanUp
    BY <2>2, CloseKeeps, NetworkKeeps, ContainerKeeps DEF CleanUp
  <2>3. CASE \E c \in Container : Exits(c)
    BY <2>3, ExitKeeps
  <2>4. CASE UNCHANGED bedVars
    <3>1. L' = L /\ Registered' = Registered /\ Stranded' = Stranded
      BY <2>4 DEF bedVars, L, Registered, Stranded
    <3> QED
      BY <2>4, <3>1 DEF bedVars, BedIInv, TypeOK, Shape, Nth, SetUpInv, CleanUpInv, PendingInv, There
  <2> QED
    BY <2>1, <2>2, <2>3, <2>4 DEF Next
<1> QED
  BY <1>1, BedStarts, PTL DEF BedSpec

\* The cleanups run in an order in which nothing is missing that one needs: the
\* network is there for every container it releases, and the hosts of a group the
\* test got are closed before their containers stop.
THEOREM BedInvAlways == BedSpec => []BedInv
<1>1. ASSUME BedIInv PROVE OrderlyCleanup
  <2>1. cleanups \in Seq(Cleanup) /\ N \in Nat /\ L \in Nat /\ L <= N + 3
    BY <1>1, BedAssumption DEF BedIInv, TypeOK, Cleanup, L, Shape
  <2>2. \A x : Pending(x) <=> \E j \in 1..L : Nth(j) = x
    BY <1>1, <2>1 DEF Pending, Range, BedIInv, Shape, L
  <2>3. /\ Pending(Network) <=> L >= 2
        /\ Pending(Image) <=> L >= 1
        /\ Pending(Hosts) => L = N + 3
        /\ \A c \in Container : Pending(c) <=> L >= c + 2
    <3>1. Pending(Network) => L >= 2
      BY <2>1, <2>2, BedAssumption DEF Nth
    <3>2. L >= 2 => Pending(Network)
      <4>1. Nth(2) = Network
        BY DEF Nth
      <4> QED
        BY <2>1, <2>2, <4>1
    <3>3. Pending(Image) <=> L >= 1
      <4>1. Nth(1) = Image
        BY DEF Nth
      <4> QED
        BY <2>1, <2>2, <4>1
    <3>4. Pending(Hosts) => L = N + 3
      BY <2>1, <2>2, BedAssumption DEF Nth
    <3>5. ASSUME NEW c \in Container PROVE Pending(c) <=> L >= c + 2
      <4>1. Nth(c + 2) = c
        BY <2>1 DEF Nth, Container
      <4>2. \A j \in 1..L : Nth(j) = c => j = c + 2
        BY <2>1, BedAssumption DEF Nth, Container
      <4> QED
        BY <2>1, <2>2, <4>1, <4>2 DEF Container
    <3> QED
      BY <3>1, <3>2, <3>3, <3>4, <3>5
  <2>4. \A c \in Container : c \in 1..N
    BY DEF Container
  <2>5. PendingInv /\ SetUpInv
    BY <1>1 DEF BedIInv
  <2> QED
    BY <2>1, <2>3, <2>4, <2>5 DEF OrderlyCleanup, PendingInv
<1>2. BedIInv => BedInv
  BY <1>1 DEF BedIInv, BedInv
<1> QED
  BY <1>2, BedIInvAlways, PTL

\* In whatever call the test dies and whatever the daemon refuses, only what was
\* refused, or the container the test died over, is left, and never silently.
THEOREM NothingLeftAlways == BedSpec => []NothingLeftBehind
<1>1. ASSUME BedIInv PROVE NothingLeftBehind
  <2> SUFFICES ASSUME Over
               PROVE /\ \A c \in Container : There(c) => c \in refused \cup Stranded
                     /\ stream => Image \in refused
                     /\ network => Network \in refused \/ \E c \in attached : c \in refused \cup Stranded
                     /\ connected # {} => diedAt \in Creating \cup {"create", "dial"}
                     /\ stream \/ network \/ connected # {} \/ (\E c \in Container : There(c))
                          => verdict = "failed"
    BY DEF NothingLeftBehind
  <2>1. L = 0 /\ pc = "cleanup" /\ N \in Nat /\ CleanUpInv
    BY <1>1, BedAssumption DEF Over, L, BedIInv
  <2>2. \A c \in Container : There(c) => c \in refused \cup Stranded
    BY <2>1 DEF CleanUpInv, Container
  <2>3. stream => Image \in refused
    BY <2>1 DEF CleanUpInv
  <2>4. network => Network \in refused \/ \E c \in attached : c \in refused \cup Stranded
    BY <2>1 DEF CleanUpInv
  <2>5. connected # {} => diedAt \in Creating \cup {"create", "dial"}
    BY <2>1 DEF CleanUpInv
  <2>6. \A c : c \in refused \cup Stranded => verdict = "failed"
    BY <2>1 DEF CleanUpInv, Stranded, Creating
  <2>7. Network \in refused \/ Image \in refused => verdict = "failed"
    BY <2>6
  <2>8. connected # {} => verdict = "failed"
    BY <2>1, <2>5 DEF CleanUpInv, Creating
  <2> QED
    BY <2>2, <2>3, <2>4, <2>5, <2>6, <2>7, <2>8
<1> QED
  BY <1>1, BedIInvAlways, PTL

===============================================================================
