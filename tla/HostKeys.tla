------------------------------- MODULE HostKeys -------------------------------
(***************************************************************************)
(* ClientConfig for one alias (ssh_config.go) and the SSH handshake its    *)
(* result is used in: which host key is asked for, and which is accepted.  *)
(* The known_hosts files are read twice, by the host key callback and for  *)
(* the list of algorithms, while other programs may rewrite them.          *)
(*                                                                         *)
(* A key type is named like one of the algorithms that use it, and that    *)
(* name is what a known_hosts line records.  knownhosts.New, the agent and *)
(* the handshake are libraries: they are modelled by what this code uses.  *)
(***************************************************************************)
EXTENDS Integers, SequencesExt

CONSTANTS
  File,        \* known_hosts files
  Algorithm,   \* host key algorithms
  TypeOf,      \* the key type an algorithm uses
  GoOrder,     \* the algorithms Go asks for when it is given none
  Second,      \* time.Second in units of time.Duration
  MaxDuration, \* the largest int64; also the largest int
  Named,       \* what UserKnownHostsFile may be: sequences of files
  Disks,       \* what the files may hold at first
  Rewrites,    \* what another program may put into a file
  Servers,     \* the algorithms a server may offer
  Settings     \* the other options, and what the machine has

KeyType == {TypeOf[a] : a \in Algorithm}

(* Lines.  The host field of an entry may name the address, hash it, match *)
(* it with a wildcard, or be about another host; the key it records may be *)
(* the server's current one of that type or not.  Two kinds of line cannot *)
(* be parsed: one of fewer than three fields ("short"), and one that has a *)
(* host, the name of a type, and no key of that type ("garbage").          *)
Line == [kind : {"entry", "revoked", "comment", "short", "garbage"},
         host : {"exact", "hashed", "wildcard", "other"},
         type : KeyType, current : BOOLEAN]
FileState == [is : {"absent", "unreadable", "text"}, lines : Seq(Line)]

Duration == -(MaxDuration + 1)..MaxDuration

ASSUME KeysAssumption ==
  /\ TypeOf \in [Algorithm -> Algorithm]
  /\ \A a \in Algorithm : TypeOf[TypeOf[a]] = TypeOf[a]
  /\ GoOrder \in Seq(Algorithm)
  /\ Servers \subseteq SUBSET Algorithm
  /\ Named \subseteq Seq(File)
  /\ Disks \subseteq [File -> FileState] /\ Rewrites \subseteq FileState
  /\ Second \in Nat /\ MaxDuration \in Nat
  /\ \A s \in Settings : /\ s.defaultTimeout \in Duration
                         /\ s.connectTimeout.is \in {"unset", "text", "number"}
                         /\ s.connectTimeout.seconds \in Int

VARIABLES
  named, server, setting, \* the inputs                     (never change)
  disk,      \* the files as they are now
  before,    \* history: the files when the call began
  at,        \* the step of ClientConfig, or of the handshake
  k,         \* index of the file it is at
  found,     \* createHostKeyCallback: the files that exist
  known,     \* the lines the callback knows
  timeout,   \* ClientConfig.Timeout
  unread,    \* knownHostAlgorithms: the lines it has still to look at
  algorithms \* ClientConfig.HostKeyAlgorithms

keyVars == <<named, server, setting, disk, before, at, k, found, known,
             timeout, unread, algorithms>>
inputs  == <<named, server, setting, before>>

Step    == {"strict", "stat", "load", "timeout", "signers", "user",
            "algorithms", "handshake"}
Outcome == {"configError", "dialError", "noCommonAlgorithm", "refused", "accepted"}

Strict == ~ setting.noChecking

Init ==
  /\ named \in Named /\ server \in Servers /\ setting \in Settings
  /\ disk \in Disks
  /\ before = disk
  /\ at = "strict" /\ k = 1
  /\ found = <<>> /\ known = {} /\ timeout = 0 /\ unread = <<>> /\ algorithms = <<>>

Go(step) == at' = step /\ k' = 1

\* get fails for one option, if for any (the config has a node it cannot read).
Fails(option) == setting.faulty = option

-----------------------------------------------------------------------------
(* getHostKeyCallback, createHostKeyCallback, knownhosts.New               *)

CheckStrict ==
  /\ at = "strict"
  /\ Go(IF Fails("StrictHostKeyChecking") THEN "configError"
        ELSE IF ~ Strict                   THEN "timeout"
        ELSE IF Fails("UserKnownHostsFile") THEN "configError" ELSE "stat")
  /\ UNCHANGED <<inputs, disk, found, known, timeout, unread, algorithms>>

\* Files that do not exist are skipped.
StatFile ==
  /\ at = "stat"
  /\ IF k <= Len(named)
     THEN /\ found' = IF disk[named[k]].is = "absent" THEN found
                      ELSE Append(found, named[k])
          /\ k' = k + 1 /\ UNCHANGED at
     ELSE Go("load") /\ UNCHANGED found
  /\ UNCHANGED <<inputs, disk, known, timeout, unread, algorithms>>

\* knownhosts.New gives up on a file it cannot open and on a line it cannot parse.
Parses(f) == /\ f.is = "text"
             /\ \A n \in DOMAIN f.lines : f.lines[n].kind \notin {"short", "garbage"}

LoadFile ==
  /\ at = "load"
  /\ IF k <= Len(found)
     THEN LET f == disk[found[k]] IN
          IF Parses(f)
          THEN known' = known \cup ToSet(f.lines) /\ k' = k + 1 /\ UNCHANGED at
          ELSE Go("configError") /\ UNCHANGED known
     ELSE Go("timeout") /\ UNCHANGED known
  /\ UNCHANGED <<inputs, disk, found, timeout, unread, algorithms>>

-----------------------------------------------------------------------------
(* The rest of ClientConfig                                                *)

\* Multiplication of an int64.
Wrap(n) == ((n + MaxDuration + 1) % (2 * (MaxDuration + 1))) - (MaxDuration + 1)

\* ConnectTimeout: none set, a text that is no int, or a number of seconds.
ConnectTimeout ==
  /\ at = "timeout"
  /\ LET t == setting.connectTimeout IN
     IF Fails("ConnectTimeout") \/ t.is = "text"
     THEN Go("configError") /\ UNCHANGED timeout
     ELSE IF t.is = "unset"
     THEN timeout' = setting.defaultTimeout /\ Go("signers")
     ELSE IF t.seconds \in 0..MaxDuration
     THEN timeout' = Wrap(t.seconds * Second) /\ Go("signers")
     ELSE Go("configError") /\ UNCHANGED timeout
  /\ UNCHANGED <<inputs, disk, found, known, unread, algorithms>>

\* The agent's keys and that of the identity file; without any the call fails.
Signers ==
  /\ at = "signers"
  /\ Go(IF Fails("IdentityFile") \/ ~ (setting.agentKeys \/ setting.fileKey)
        THEN "configError" ELSE "user")
  /\ UNCHANGED <<inputs, disk, found, known, timeout, unread, algorithms>>

User ==
  /\ at = "user"
  /\ Go(IF Fails("User") \/ ~ setting.hasUser THEN "configError" ELSE "algorithms")
  /\ UNCHANGED <<inputs, disk, found, known, timeout, unread, algorithms>>

\* Mutant: hashed entries are not recognised.
RecordsPlain(line) == line.kind \in {"entry", "garbage"} /\ line.host = "exact"

\* Mutant: the host of the line is not compared with the address.
RecordsAnyHost(line) == line.kind \in {"entry", "garbage"}

\* matchesHashedHost and the comparison with the address: the exact and the
\* hashed lines; wildcards are not matched here.  Comments, markers and short
\* lines are skipped, but nobody looks at the key: garbage counts.
Records(line) == line.kind \in {"entry", "garbage"} /\ line.host \in {"exact", "hashed"}

\* ConnectAddr: the address, or "" when Hostname or Port cannot be read.
HasAddress == ~ Fails("Hostname") /\ ~ Fails("Port")

\* knownHostAlgorithms reads file k as a whole, if it can.  Without checking,
\* or without an address, it asks for nothing.
ReadKnownHosts ==
  /\ at = "algorithms" /\ unread = <<>>
  /\ IF Strict /\ HasAddress /\ k <= Len(named)
     THEN /\ unread' = IF disk[named[k]].is = "text" THEN disk[named[k]].lines ELSE <<>>
          /\ k' = k + 1 /\ UNCHANGED at
     ELSE Go("handshake") /\ UNCHANGED unread
  /\ UNCHANGED <<inputs, disk, found, known, timeout, algorithms>>

\* Mutant: the first field of the line is taken for the type.
AddAlgorithmHost ==
  /\ at = "algorithms" /\ unread # <<>>
  /\ LET line == Head(unread) IN
     algorithms' = IF Records(line) /\ ~ Contains(algorithms, line.host)
                   THEN Append(algorithms, line.host) ELSE algorithms
  /\ unread' = Tail(unread)
  /\ UNCHANGED <<inputs, disk, at, k, found, known, timeout>>

\* Each type once, in the order of the lines.
AddAlgorithm ==
  /\ at = "algorithms" /\ unread # <<>>
  /\ LET line == Head(unread) IN
     algorithms' = IF Records(line) /\ ~ Contains(algorithms, line.type)
                   THEN Append(algorithms, line.type) ELSE algorithms
  /\ unread' = Tail(unread)
  /\ UNCHANGED <<inputs, disk, at, k, found, known, timeout>>

-----------------------------------------------------------------------------
(* The handshake (golang.org/x/crypto/ssh) and the callback                *)

Asked  == IF algorithms = <<>> THEN GoOrder ELSE algorithms
Common == {n \in DOMAIN Asked : Asked[n] \in server}
Chosen == Asked[CHOOSE n \in Common : \A m \in Common : n <= m]

\* A line of the callback's that is about this address.
Matches(line) == line.kind = "entry" /\ line.host \in {"exact", "hashed", "wildcard"}

\* The callback's verdict on the server's key of that type: revoked keys are
\* refused for every host, then one line with the key is enough.
Accepts(type) ==
  \/ ~ Strict
  \/ /\ \A l \in known : ~ (l.kind = "revoked" /\ l.type = type /\ l.current)
     /\ \E l \in known : Matches(l) /\ l.type = type /\ l.current

\* There is nothing to dial at "".  The server shows the key of the first
\* algorithm asked for that it offers.
Handshake ==
  /\ at = "handshake"
  /\ Go(IF ~ HasAddress    THEN "dialError"
        ELSE IF Common = {} THEN "noCommonAlgorithm"
        ELSE IF Accepts(TypeOf[Chosen]) THEN "accepted" ELSE "refused")
  /\ UNCHANGED <<inputs, disk, found, known, timeout, unread, algorithms>>

\* Another program rewrites a file, once during the call.
Rewrite(f) ==
  /\ at \in Step /\ disk = before
  /\ \E content \in Rewrites : disk' = [disk EXCEPT ![f] = content]
  /\ UNCHANGED <<inputs, at, k, found, known, timeout, unread, algorithms>>

ClientConfigStep ==
  \/ CheckStrict \/ StatFile \/ LoadFile \/ ConnectTimeout \/ Signers \/ User
  \/ ReadKnownHosts \/ AddAlgorithm \/ Handshake

Next == ClientConfigStep \/ \E f \in File : Rewrite(f)

Spec == Init /\ [][Next]_keyVars

-----------------------------------------------------------------------------
TypeOK ==
  /\ disk \in [File -> FileState]
  /\ at \in Step \cup Outcome
  /\ k \in 1..(Len(named) + 1)
  /\ found \in Seq(Range(named))
  /\ known \subseteq Line
  /\ timeout \in Duration
  /\ unread \in Seq(Line) /\ algorithms \in Seq(KeyType)

\* The line is about this address, and by its name; its key may be unreadable.
NamesAddress(l) == l.kind \in {"entry", "garbage"} /\ l.host \in {"exact", "hashed"}

\* The lines of the files named, before and after a rewrite.
LinesOf(d) == UNION {ToSet(d[f].lines) : f \in {g \in Range(named) : d[g].is = "text"}}

\* With host key checking on, a server is accepted only with a key that a file
\* named by UserKnownHostsFile recorded for it, before or after the rewrite,
\* and never with one that all along was marked as revoked.  Every algorithm
\* asked for is named by a line about this address, though not always by one
\* the callback would take: the list is read after the callback was made, and a
\* file rewritten in between may hold lines knownhosts.New cannot parse.
OnlyRecordedKeys ==
  at = "accepted" /\ Strict =>
    /\ \E l \in LinesOf(before) \cup LinesOf(disk) :
         Matches(l) /\ l.current /\ l.type = TypeOf[Chosen]
    /\ \A l \in LinesOf(before) \cap LinesOf(disk) :
         ~ (l.kind = "revoked" /\ l.current /\ l.type = TypeOf[Chosen])
    /\ \A n \in DOMAIN algorithms :
         \E l \in LinesOf(before) \cup LinesOf(disk) :
           NamesAddress(l) /\ l.type = algorithms[n]

\* Some line gives type as that of a key of this address, and one that is right.
Recorded(type) == \E l \in LinesOf(disk) : NamesAddress(l) /\ l.type = type
Right(type) ==
  /\ \E l \in LinesOf(disk) : Matches(l) /\ l.type = type /\ l.current
  /\ \A l \in LinesOf(disk) : ~ (l.kind = "revoked" /\ l.type = type /\ l.current)

\* What the algorithms are collected for: a server of which known_hosts records
\* a key, and no wrong one of a type the server has, is accepted whatever order
\* Go prefers, by files that are not rewritten meanwhile.  The server has to
\* offer the algorithm that is called like the key type: one that has an RSA
\* key but only signs with rsa-sha2-* is asked for ssh-rsa and turned away.
KnownServerAccepted ==
  /\ at \in Outcome \ {"configError", "dialError"} /\ Strict /\ disk = before
  /\ \E type \in server \cap KeyType : Recorded(type)
  /\ \A type \in server \cap KeyType : Recorded(type) => Right(type)
  => at = "accepted"

=============================================================================
