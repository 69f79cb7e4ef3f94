---------------------------- MODULE SSHConfigProofs ----------------------------
(***************************************************************************)
(* Theorems about HostKeys, for any number and contents of known_hosts     *)
(* files, any algorithms and any settings, and then about HostSpec, for    *)
(* any host specifications and config files; both within the program of    *)
(* SSHConfig they are parts of.                                            *)
(***************************************************************************)
EXTENDS SSHConfig, SequenceTheorems, WellFoundedInduction, TLAPS

\* The lines to be read from a file, those that are there whether it is read
\* before or after a rewrite, and all that may ever be read.
Lines(d, f)  == IF d[f].is = "text" THEN ToSet(d[f].lines) ELSE {}
Steady(f)    == Lines(before, f) \cap Lines(disk, f)
Ever         == LinesOf(before) \cup LinesOf(disk)

Given ==
  /\ named \in Seq(File) /\ setting \in Settings /\ server \subseteq Algorithm
  /\ before \in [File -> FileState]

\* createHostKeyCallback finds at most as many files as are named.
CountInv ==
  /\ Len(found) <= Len(named)
  /\ at = "strict" => found = <<>>
  /\ at = "stat" => Len(found) < k

\* One file at most is rewritten.
OneRewrite == disk # before => \E f \in File : \A g \in File \ {f} : disk[g] = before[g]

\* Nothing comes from elsewhere than the files.
SourceInv ==
  /\ known \subseteq Ever
  /\ ToSet(unread) \subseteq Ever
  /\ \A n \in DOMAIN algorithms :
       \E l \in Ever : NamesAddress(l) /\ l.type = algorithms[n]

Judged == {"noCommonAlgorithm", "refused", "accepted"}
Loaded == {"timeout", "signers", "user", "algorithms", "handshake"} \cup Judged

\* What is there all along is not missed by the callback,
LoadInv ==
  Strict =>
    /\ at = "stat" => \A n \in 1..k - 1 : Steady(named[n]) # {} => named[n] \in ToSet(found)
    /\ at = "load" => \A f \in ToSet(named) : Steady(f) # {} => f \in ToSet(found)
    /\ at = "load" => \A n \in 1..k - 1 : Steady(found[n]) \subseteq known
    /\ at \in Loaded => \A f \in ToSet(named) : Steady(f) \subseteq known

Asks(l) == l.type \in ToSet(algorithms)

\* nor by the list of algorithms, if no file is rewritten.
ReadInv ==
  Strict /\ HasAddress /\ disk = before =>
    /\ at = "algorithms" => \A n \in 1..k - 1 : \A l \in Lines(disk, named[n]) :
                              NamesAddress(l) => l \in ToSet(unread) \/ Asks(l)
    /\ at \in Judged \cup {"handshake"} => \A f \in ToSet(named) : \A l \in Lines(disk, f) :
                              NamesAddress(l) => Asks(l)

\* What the handshake has decided.
VerdictInv ==
  /\ at \in Judged => HasAddress
  /\ at = "noCommonAlgorithm" => Common = {}
  /\ at = "refused"  => Common # {} /\ ~ Accepts(TypeOf[Chosen])
  /\ at = "accepted" => Common # {} /\ Accepts(TypeOf[Chosen])

KeysInv ==
  /\ TypeOK /\ Given /\ CountInv /\ OneRewrite
  /\ SourceInv /\ LoadInv /\ ReadInv /\ VerdictInv

-----------------------------------------------------------------------------
(* Lemmas about the operators.                                             *)

\* The lines of the files named are those of each of them.
LEMMA LinesAre ==
  ASSUME NEW d, NEW l
  PROVE  l \in LinesOf(d) <=> \E f \in ToSet(named) : l \in Lines(d, f)
BY DEF LinesOf, Lines, ToSet, Range

\* The elements of a sequence, and of the longer or shorter ones the reading of
\* the files makes of it.
LEMMA Elements ==
  ASSUME NEW S, NEW s \in Seq(S)
  PROVE  /\ ToSet(s) = {s[n] : n \in 1..Len(s)}
         /\ DOMAIN s = 1..Len(s)
         /\ Len(s) \in Nat
         /\ \A x : Contains(s, x) <=> x \in ToSet(s)
         /\ ToSet(s) \subseteq S
BY DEF ToSet, Contains

LEMMA Longer ==
  ASSUME NEW S, NEW s \in Seq(S), NEW x \in S
  PROVE  /\ Append(s, x) \in Seq(S) /\ Len(Append(s, x)) = Len(s) + 1
         /\ ToSet(Append(s, x)) = ToSet(s) \cup {x}
<1> DEFINE t == Append(s, x)
<1>1. /\ t \in Seq(S) /\ Len(t) = Len(s) + 1
      /\ \A n \in 1..Len(s) : t[n] = s[n]
      /\ t[Len(s) + 1] = x
  BY AppendProperties
<1> HIDE DEF t
<1>2. PICK l \in Nat : l = Len(s)
  BY LenProperties
<1>3. ToSet(t) = {t[n] : n \in 1..l + 1} /\ ToSet(s) = {s[n] : n \in 1..l}
  BY <1>1, <1>2, Elements
<1>4. ToSet(t) = ToSet(s) \cup {x}
  BY <1>1, <1>2, <1>3
<1> QED
  BY <1>1, <1>4 DEF t

LEMMA Shorter ==
  ASSUME NEW S, NEW s \in Seq(S), s # <<>>
  PROVE  /\ Head(s) \in S /\ Tail(s) \in Seq(S)
         /\ Head(s) \in ToSet(s)
         /\ ToSet(s) = {Head(s)} \cup ToSet(Tail(s))
<1> DEFINE t == Tail(s)
<1>1. PICK l \in Nat : l = Len(s)
  BY LenProperties
<1>2. Head(s) \in S /\ t \in Seq(S) /\ Len(t) = l - 1 /\ \A n \in 1..Len(t) : t[n] = s[n + 1]
  BY <1>1, HeadTailProperties
<1>3. l >= 1 /\ Head(s) = s[1]
  BY <1>1, EmptySeq
<1> HIDE DEF t
<1>4. ToSet(t) = {t[n] : n \in 1..l - 1} /\ ToSet(s) = {s[n] : n \in 1..l}
  BY <1>1, <1>2, Elements
<1>5. ToSet(s) = {Head(s)} \cup ToSet(t)
  <2>1. ASSUME NEW n \in 1..l PROVE s[n] \in {Head(s)} \cup ToSet(t)
    <3>1. CASE n = 1
      BY <1>3, <3>1
    <3>2. CASE n # 1
      <4>1. n - 1 \in 1..l - 1 /\ n - 1 \in 1..Len(t) /\ n = (n - 1) + 1
        BY <1>2, <2>1, <3>2
      <4>2. s[n] = t[n - 1]
        BY <1>2, <4>1
      <4> QED
        BY <1>4, <4>1, <4>2
    <3> QED
      BY <3>1, <3>2
  <2>2. ASSUME NEW n \in 1..l - 1 PROVE t[n] \in ToSet(s)
    <3>1. n + 1 \in 1..l /\ t[n] = s[n + 1]
      BY <1>2
    <3> QED
      BY <1>4, <3>1
  <2>3. Head(s) \in ToSet(s)
    BY <1>3, <1>4
  <2> QED
    BY <1>4, <2>1, <2>2, <2>3
<1> QED
  BY <1>2, <1>5 DEF t

\* A set of positions has a first one.
LEMMA LeastOf ==
  ASSUME NEW S \in SUBSET Nat, S # {}
  PROVE  \E n \in S : \A m \in S : n <= m
<1> DEFINE R == OpToRel(<, Nat)
<1>1. IsWellFoundedOn(R, Nat)
  BY NatLessThanWellFounded
<1>2. \A m, n \in Nat : m < n => <<m, n>> \in R
  BY DEF OpToRel
<1> HIDE DEF R
<1>3. PICK n \in S : \A m \in S : ~ (<<m, n>> \in R)
  BY <1>1, WFMin
<1>4. \A m \in S : ~ (m < n)
  BY <1>2, <1>3, Zenon
<1> QED
  BY <1>4

\* The algorithm the handshake chooses is one that both sides have.
LEMMA ChosenIsCommon ==
  ASSUME TypeOK, Given, Common # {}
  PROVE  /\ Chosen \in server /\ Chosen \in Algorithm
         /\ algorithms # <<>> => Chosen \in ToSet(algorithms)
<1>1. \A a \in Algorithm : TypeOf[a] \in Algorithm
  BY KeysAssumption
<1>2. Asked \in Seq(Algorithm) /\ (algorithms # <<>> => Asked = algorithms)
  <2>1. KeyType \subseteq Algorithm
    BY <1>1 DEF KeyType
  <2> QED
    BY <2>1, KeysAssumption, SeqMonotonic DEF Asked, TypeOK
<1>3. Common \in SUBSET Nat
  BY <1>2, Elements DEF Common
<1>4. \E n \in Common : \A m \in Common : n <= m
  BY <1>3, LeastOf
<1>5. PICK n \in Common : Chosen = Asked[n]
  BY <1>4 DEF Chosen
<1>6. Chosen \in ToSet(Asked) /\ Chosen \in server
  BY <1>5 DEF Common, ToSet
<1> QED
  BY <1>2, <1>6 DEF Given

\* The product wraps into the int64 it is assigned to.
LEMMA WrapsIntoDuration ==
  ASSUME NEW n \in Int
  PROVE  Wrap(n) \in Duration
<1>1. PICK w \in Nat : w = MaxDuration + 1 /\ w > 0
  BY KeysAssumption
<1>2. (n + w) % (2 * w) \in 0..(2 * w - 1)
  BY <1>1
<1>3. Wrap(n) = ((n + w) % (2 * w)) - w
  BY <1>1, KeysAssumption DEF Wrap
<1> QED
  BY <1>1, <1>2, <1>3, KeysAssumption DEF Duration

-----------------------------------------------------------------------------
(* Each step preserves the invariant.                                      *)

\* Only Rewrite touches the files: every other step leaves alone what the
\* invariant says of them.
LEMMA FilesStay ==
  ASSUME UNCHANGED <<inputs, disk>>
  PROVE  /\ Ever' = Ever /\ ToSet(named)' = ToSet(named) /\ Len(named)' = Len(named)
         /\ \A f : Steady(f)' = Steady(f) /\ Lines(disk, f)' = Lines(disk, f)
         /\ Strict' <=> Strict
         /\ HasAddress' <=> HasAddress
         /\ Given => Given'
         /\ OneRewrite => OneRewrite'
BY DEF inputs, Ever, LinesOf, Lines, Steady, Strict, HasAddress, Fails, Given, OneRewrite

\* The steps that only move on.
Moves ==
  /\ UNCHANGED <<inputs, disk, found, known, unread, algorithms>> /\ k' = 1
  /\ timeout' \in Duration
  /\ \/ at' = "configError"
     \/ at = "strict" /\ at' = "stat"
     \/ at = "strict" /\ ~ Strict /\ at' = "timeout"
     \/ at \in {"timeout", "signers", "user"} /\ at' \in {"signers", "user", "algorithms"}
     \/ at = "handshake" /\ at' \in Judged \cup {"dialError"}
  /\ VerdictInv'

LEMMA MovesKeep == KeysInv /\ Moves => KeysInv'
<1> SUFFICES ASSUME KeysInv, Moves PROVE KeysInv'
  OBVIOUS
<1>1. /\ UNCHANGED <<inputs, disk, found, known, unread, algorithms>> /\ k' = 1
      /\ timeout' \in Duration /\ VerdictInv'
  BY DEF Moves
<1>2. /\ Ever' = Ever /\ ToSet(named)' = ToSet(named) /\ Len(named)' = Len(named)
      /\ \A f : Steady(f)' = Steady(f) /\ Lines(disk, f)' = Lines(disk, f)
      /\ Strict' <=> Strict
      /\ Given' /\ OneRewrite'
  BY <1>1, FilesStay DEF KeysInv
<1>3. TypeOK'
  <2>1. 1 \in 1..Len(named) + 1
    BY Elements DEF KeysInv, Given
  <2>2. at' \in Step \cup Outcome
    BY DEF Moves, Judged, Step, Outcome
  <2> QED
    BY <1>1, <2>1, <2>2 DEF KeysInv, TypeOK, inputs
<1>4. CountInv'
  <2>1. at' # "strict"
    BY DEF Moves, Judged
  <2>2. at' = "stat" => Len(found) = 0
    BY EmptySeq DEF Moves, Judged, KeysInv, CountInv
  <2> QED
    BY <1>1, <1>2, <2>1, <2>2 DEF KeysInv, CountInv
<1>5. SourceInv'
  BY <1>1, <1>2 DEF KeysInv, SourceInv, NamesAddress
<1>6. LoadInv'
  <2>1. Strict /\ at' \in Loaded => at \in Loaded
    BY DEF Moves, Loaded, Judged
  <2>2. at' # "load"
    BY DEF Moves, Judged
  <2> QED
    BY <1>1, <1>2, <2>1, <2>2 DEF KeysInv, LoadInv
<1>7. ReadInv'
  <2>1. at' \in Judged \cup {"handshake"} => at \in Judged \cup {"handshake"}
    BY DEF Moves, Judged
  <2>2. HasAddress' <=> HasAddress
    BY <1>1, FilesStay
  <2>3. Judged' = Judged /\ \A l : (Asks(l)' <=> Asks(l)) /\ (NamesAddress(l)' <=> NamesAddress(l))
    BY <1>1 DEF Judged, Asks, NamesAddress
  <2>4. disk' = disk /\ before' = before
    BY <1>1 DEF inputs
  <2> QED
    BY <1>1, <1>2, <2>1, <2>2, <2>3, <2>4 DEF KeysInv, ReadInv, Asks, NamesAddress
<1> QED
  BY <1>1, <1>2, <1>3, <1>4, <1>5, <1>6, <1>7 DEF KeysInv

\* Every step of the call and of the handshake but the reading of files.
LEMMA PlainSteps ==
  ASSUME KeysInv, CheckStrict \/ ConnectTimeout \/ Signers \/ User \/ Handshake
  PROVE  Moves
<1>1. TypeOK /\ setting \in Settings
  BY DEF KeysInv, Given
<1>2. CASE CheckStrict
  BY <1>1, <1>2 DEF CheckStrict, Moves, Go, VerdictInv, Judged, TypeOK, inputs
<1>3. CASE ConnectTimeout
  <2>1. timeout' \in Duration
    <3>1. setting.connectTimeout.seconds * Second \in Int /\ setting.defaultTimeout \in Duration
      BY <1>1, KeysAssumption
    <3>2. Wrap(setting.connectTimeout.seconds * Second) \in Duration
      BY <3>1, WrapsIntoDuration
    <3> QED
      BY <1>1, <1>3, <3>1, <3>2 DEF ConnectTimeout, TypeOK
  <2>2. at' \in {"configError", "signers"} /\ k' = 1 /\ at = "timeout"
    BY <1>3 DEF ConnectTimeout, Go
  <2>3. UNCHANGED <<inputs, disk, found, known, unread, algorithms>>
    BY <1>3 DEF ConnectTimeout
  <2> QED
    BY <2>1, <2>2, <2>3 DEF Moves, VerdictInv, Judged
<1>4. CASE Signers \/ User
  BY <1>1, <1>4 DEF Signers, User, Moves, Go, VerdictInv, Judged, TypeOK, inputs
<1>5. CASE Handshake
  <2>1. /\ UNCHANGED <<inputs, disk, found, known, timeout, unread, algorithms>>
        /\ k' = 1 /\ at = "handshake"
        /\ at' = IF ~ HasAddress    THEN "dialError"
                 ELSE IF Common = {} THEN "noCommonAlgorithm"
                 ELSE IF Accepts(TypeOf[Chosen]) THEN "accepted" ELSE "refused"
    BY <1>5 DEF Handshake, Go
  <2>2. Common' = Common /\ Chosen' = Chosen /\ (HasAddress' <=> HasAddress)
        /\ (Accepts(TypeOf[Chosen])' <=> Accepts(TypeOf[Chosen]))
    BY <2>1 DEF inputs, Common, Chosen, Asked, HasAddress, Fails, Accepts, Strict
  <2>3. VerdictInv'
    BY <2>1, <2>2 DEF VerdictInv, Judged
  <2> QED
    BY <1>1, <2>1, <2>3 DEF Moves, Judged, TypeOK
<1> QED
  BY <1>2, <1>3, <1>4, <1>5

\* What the invariant says of the later steps is not disturbed by the earlier.
LEMMA Before ==
  ASSUME KeysInv, UNCHANGED <<inputs, disk, unread, algorithms>>,
         at' \in {"stat", "load", "timeout", "configError"}, at' # "strict"
  PROVE  Given' /\ OneRewrite' /\ ReadInv' /\ VerdictInv'
<1>1. Given' /\ OneRewrite'
  BY FilesStay DEF KeysInv
<1>2. at' \notin Judged /\ at' # "algorithms" /\ at' # "handshake" /\ Judged' = Judged
  BY DEF Judged
<1>3. ReadInv'
  BY <1>2 DEF ReadInv
<1>4. VerdictInv'
  BY <1>2 DEF VerdictInv, Judged
<1> QED
  BY <1>1, <1>3, <1>4

\* createHostKeyCallback looks for one file more, or has looked for all.
LEMMA StatKeeps == KeysInv /\ StatFile => KeysInv'
<1> SUFFICES ASSUME KeysInv, StatFile PROVE KeysInv'
  OBVIOUS
<1>1. /\ at = "stat" /\ TypeOK /\ named \in Seq(File) /\ k \in Nat /\ k >= 1
      /\ UNCHANGED <<inputs, disk, known, timeout, unread, algorithms>>
  BY DEF StatFile, KeysInv, TypeOK, Given
<1>2. /\ Ever' = Ever /\ ToSet(named)' = ToSet(named) /\ Len(named)' = Len(named)
      /\ \A f : Steady(f)' = Steady(f)
      /\ (Strict' <=> Strict) /\ named' = named
  BY <1>1, FilesStay DEF inputs
<1>3. SourceInv'
  BY <1>1, <1>2 DEF KeysInv, SourceInv, NamesAddress
<1>4. PICK m \in Nat : m = Len(named)
  BY <1>1, LenProperties
<1>5. PICK p \in Nat : p = Len(found)
  BY <1>1, LenProperties DEF TypeOK
<1>6. CASE k <= m
  <2> DEFINE g == named[k]
  <2>1. /\ found' = IF disk[g].is = "absent" THEN found ELSE Append(found, g)
        /\ k' = k + 1 /\ at' = "stat"
    BY <1>1, <1>4, <1>6 DEF StatFile
  <2>2. g \in Range(named)
    BY <1>1, <1>4, <1>6 DEF Range
  <2> HIDE DEF g
  <2>3. /\ found' \in Seq(Range(named)) /\ Len(found)' <= p + 1
        /\ ToSet(found) \subseteq ToSet(found)'
        /\ disk[g].is # "absent" => g \in ToSet(found)'
    <3>1. found \in Seq(Range(named))
      BY <1>1 DEF TypeOK
    <3>2. CASE disk[g].is = "absent"
      BY <1>5, <2>1, <3>1, <3>2
    <3>3. CASE disk[g].is # "absent"
      <4>1. found' = Append(found, g)
        BY <2>1, <3>3
      <4>2. /\ Append(found, g) \in Seq(Range(named)) /\ Len(Append(found, g)) = p + 1
            /\ ToSet(Append(found, g)) = ToSet(found) \cup {g}
        BY <1>5, <2>2, <3>1, Longer
      <4> QED
        BY <4>1, <4>2
    <3> QED
      BY <3>2, <3>3
  <2>4. TypeOK'
    <3>1. Range(named)' = Range(named)
      BY <1>2
    <3> QED
      BY <1>1, <1>2, <1>4, <1>6, <2>1, <2>3, <3>1 DEF TypeOK, Step
  <2>5. CountInv'
    <3>1. p < k
      BY <1>1, <1>5 DEF KeysInv, CountInv
    <3>2. PICK q \in Nat : q = Len(found)'
      BY <1>2, <2>3, LenProperties
    <3>3. q <= p + 1
      BY <2>3, <3>2
    <3> QED
      BY <1>1, <1>2, <1>4, <1>6, <2>1, <3>1, <3>2, <3>3 DEF CountInv
  <2>6. LoadInv'
    <3>1. ASSUME Strict, NEW n \in 1..k, Steady(named[n]) # {} PROVE named[n] \in ToSet(found)'
      <4>1. CASE n = k
        BY <2>3, <3>1, <4>1 DEF g, Steady, Lines
      <4>2. CASE n # k
        <5>1. n \in 1..k - 1
          BY <1>1, <4>2
        <5> QED
          BY <1>1, <2>3, <3>1, <5>1 DEF KeysInv, LoadInv
      <4> QED
        BY <4>1, <4>2
    <3>2. k' - 1 = k /\ at' = "stat"
      BY <1>1, <2>1
    <3>3. Strict => \A n \in 1..k : Steady(named[n]) # {} => named[n] \in ToSet(found)'
      BY <3>1
    <3> QED
      BY <1>2, <3>2, <3>3 DEF LoadInv, Loaded, Judged
  <2> QED
    BY <1>1, <1>3, <2>1, <2>4, <2>5, <2>6, Before DEF KeysInv
<1>7. CASE ~ (k <= m)
  <2>1. found' = found /\ k' = 1 /\ at' = "load"
    BY <1>1, <1>4, <1>7 DEF StatFile, Go
  <2>2. TypeOK'
    <3>1. Range(named)' = Range(named) /\ 1 \in 1..m + 1
      BY <1>2
    <3> QED
      BY <1>1, <1>2, <1>4, <2>1, <3>1 DEF TypeOK, Step
  <2>3. CountInv'
    BY <1>2, <2>1 DEF KeysInv, CountInv
  <2>4. LoadInv'
    <3>1. ASSUME Strict, NEW f \in ToSet(named), Steady(f) # {} PROVE f \in ToSet(found)
      <4>1. PICK n \in 1..m : f = named[n]
        BY <1>1, <1>4, Elements
      <4>2. n \in 1..k - 1
        BY <1>1, <1>4, <1>7
      <4> QED
        BY <1>1, <3>1, <4>1, <4>2 DEF KeysInv, LoadInv
    <3>2. k' - 1 = 0 /\ 1..0 = {}
      BY <2>1
    <3> QED
      BY <1>2, <2>1, <3>1, <3>2 DEF LoadInv, Loaded, Judged
  <2> QED
    BY <1>1, <1>3, <2>1, <2>2, <2>3, <2>4, Before DEF KeysInv
<1> QED
  BY <1>6, <1>7

\* knownhosts.New loads one file more, gives up, or has loaded all.
LEMMA LoadKeeps == KeysInv /\ LoadFile => KeysInv'
<1> SUFFICES ASSUME KeysInv, LoadFile PROVE KeysInv'
  OBVIOUS
<1>1. /\ at = "load" /\ TypeOK /\ named \in Seq(File) /\ k \in Nat /\ k >= 1
      /\ UNCHANGED <<inputs, disk, found, timeout, unread, algorithms>>
  BY DEF LoadFile, KeysInv, TypeOK, Given
<1>2. /\ Ever' = Ever /\ ToSet(named)' = ToSet(named) /\ Len(named)' = Len(named)
      /\ \A f : Steady(f)' = Steady(f)
      /\ (Strict' <=> Strict) /\ named' = named /\ Range(named)' = Range(named)
  BY <1>1, FilesStay DEF inputs
<1>3. CountInv'
  <2>1. at' \in {"load", "configError", "timeout"}
    BY <1>1 DEF LoadFile, Go
  <2> QED
    BY <1>1, <1>2, <2>1 DEF KeysInv, CountInv
<1>4. PICK m \in Nat : m = Len(named)
  BY <1>1, LenProperties
<1>5. PICK p \in Nat : p = Len(found) /\ p <= m
  BY <1>1, <1>4, LenProperties DEF TypeOK, KeysInv, CountInv
<1>6. CASE k <= p /\ Parses(disk[found[k]])
  <2> DEFINE g == found[k]
             new == ToSet(disk[g].lines)
  <2>1. known' = known \cup new /\ k' = k + 1 /\ at' = "load"
    BY <1>1, <1>5, <1>6 DEF LoadFile
  <2>2. g \in Range(named) /\ g \in ToSet(named) /\ g \in File
    <3>1. g \in Range(named)
      BY <1>1, <1>5, <1>6, ElementOfSeq DEF TypeOK
    <3> QED
      BY <1>1, <3>1, Elements DEF Range, ToSet
  <2>3. disk[g].is = "text" /\ disk[g].lines \in Seq(Line)
    BY <1>1, <1>6, <2>2 DEF Parses, TypeOK, FileState
  <2>4. new \subseteq Line /\ new = Lines(disk, g)
    BY <2>3, Elements DEF Lines
  <2>5. new \subseteq Ever
    BY <2>2, <2>4, LinesAre DEF Ever
  <2> HIDE DEF g, new
  <2>6. TypeOK'
    BY <1>1, <1>2, <1>4, <1>5, <1>6, <2>1, <2>4 DEF TypeOK, Step, inputs
  <2>7. SourceInv'
    BY <1>1, <1>2, <2>1, <2>5 DEF KeysInv, SourceInv, NamesAddress
  <2>8. LoadInv'
    <3>1. ASSUME Strict, NEW n \in 1..k PROVE Steady(found[n]) \subseteq known'
      <4>1. CASE n = k
        BY <2>1, <2>4, <4>1 DEF g, Steady
      <4>2. CASE n # k
        <5>1. n \in 1..k - 1
          BY <1>1, <4>2
        <5> QED
          BY <1>1, <2>1, <3>1, <5>1 DEF KeysInv, LoadInv
      <4> QED
        BY <4>1, <4>2
    <3>2. k' - 1 = k /\ at' = "load" /\ found' = found
      BY <1>1, <2>1
    <3>3. Strict => \A n \in 1..k : Steady(found[n]) \subseteq known'
      BY <3>1
    <3>4. Strict => \A f \in ToSet(named) : Steady(f) # {} => f \in ToSet(found)
      BY <1>1 DEF KeysInv, LoadInv
    <3> QED
      BY <1>2, <3>2, <3>3, <3>4 DEF LoadInv, Loaded, Judged
  <2> QED
    BY <1>1, <1>3, <2>1, <2>6, <2>7, <2>8, Before DEF KeysInv
<1>7. CASE ~ (k <= p /\ Parses(disk[found[k]]))
  <2>1. known' = known /\ k' = 1 /\ at' = IF k <= p THEN "configError" ELSE "timeout"
    BY <1>1, <1>5, <1>7 DEF LoadFile, Go
  <2>2. TypeOK'
    <3>1. 1 \in 1..m + 1
      OBVIOUS
    <3> QED
      BY <1>1, <1>2, <1>4, <2>1, <3>1 DEF TypeOK, Step, Outcome, inputs
  <2>3. SourceInv'
    BY <1>1, <1>2, <2>1 DEF KeysInv, SourceInv, NamesAddress
  <2>4. LoadInv'
    <3>1. ASSUME Strict, ~ (k <= p), NEW f \in ToSet(named) PROVE Steady(f) \subseteq known
      <4>1. CASE Steady(f) # {}
        <5>1. f \in ToSet(found)
          BY <1>1, <3>1, <4>1 DEF KeysInv, LoadInv
        <5>2. PICK n \in 1..p : f = found[n]
          BY <1>1, <1>5, <5>1, Elements DEF TypeOK
        <5>3. n \in 1..k - 1
          BY <1>1, <1>5, <3>1
        <5> QED
          BY <1>1, <3>1, <5>2, <5>3 DEF KeysInv, LoadInv
      <4> QED
        BY <4>1
    <3>2. at' # "stat" /\ at' # "load" /\ (at' \in Loaded => ~ (k <= p))
      BY <2>1 DEF Loaded, Judged
    <3> QED
      BY <1>2, <2>1, <3>1, <3>2 DEF LoadInv
  <2> QED
    BY <1>1, <1>3, <2>1, <2>2, <2>3, <2>4, Before DEF KeysInv
<1> QED
  BY <1>6, <1>7

\* While the algorithms are collected, what was loaded stays.
LEMMA Meanwhile ==
  ASSUME KeysInv, UNCHANGED <<inputs, disk, found, known, timeout>>,
         at = "algorithms", at' \in {"algorithms", "handshake"}
  PROVE  Given' /\ OneRewrite' /\ CountInv' /\ LoadInv' /\ VerdictInv'
<1>1. /\ Given' /\ OneRewrite' /\ Len(named)' = Len(named) /\ ToSet(named)' = ToSet(named)
      /\ \A f : Steady(f)' = Steady(f)
      /\ Strict' <=> Strict
  BY FilesStay DEF KeysInv
<1>2. CountInv'
  BY <1>1 DEF KeysInv, CountInv
<1>3. at \in Loaded /\ at' \notin {"stat", "load"} /\ at' \notin Judged
  BY DEF Loaded, Judged
<1>4. LoadInv'
  BY <1>1, <1>3 DEF KeysInv, LoadInv
<1>5. VerdictInv'
  BY <1>3 DEF VerdictInv, Judged
<1> QED
  BY <1>1, <1>2, <1>4, <1>5

\* knownHostAlgorithms reads one file more, or has read all.
LEMMA ReadKeeps == KeysInv /\ ReadKnownHosts => KeysInv'
<1> SUFFICES ASSUME KeysInv, ReadKnownHosts PROVE KeysInv'
  OBVIOUS
<1>1. /\ at = "algorithms" /\ unread = <<>> /\ TypeOK /\ Given
      /\ named \in Seq(File) /\ k \in Nat /\ k >= 1
      /\ UNCHANGED <<inputs, disk, found, known, timeout, algorithms>>
  BY DEF ReadKnownHosts, KeysInv, TypeOK, Given
<1>2. /\ Ever' = Ever /\ ToSet(named)' = ToSet(named) /\ Len(named)' = Len(named)
      /\ \A f : Lines(disk, f)' = Lines(disk, f)
      /\ (Strict' <=> Strict) /\ (HasAddress' <=> HasAddress)
      /\ named' = named /\ Range(named)' = Range(named) /\ disk' = disk /\ before' = before
      /\ \A l : Asks(l)' <=> Asks(l)
  BY <1>1, FilesStay DEF inputs, Asks
<1>3. PICK m \in Nat : m = Len(named)
  BY <1>1, LenProperties
<1>4. ToSet(unread) = {}
  BY <1>1 DEF ToSet
<1>5. CASE Strict /\ HasAddress /\ k <= m
  <2> DEFINE g == named[k]
  <2>1. /\ unread' = IF disk[g].is = "text" THEN disk[g].lines ELSE <<>>
        /\ k' = k + 1 /\ at' = "algorithms"
    BY <1>1, <1>3, <1>5 DEF ReadKnownHosts
  <2>2. g \in File /\ g \in ToSet(named)
    BY <1>1, <1>3, <1>5, ElementOfSeq, Elements
  <2> HIDE DEF g
  <2>3. unread' \in Seq(Line) /\ ToSet(unread)' = Lines(disk, g)
    <3>1. disk[g].lines \in Seq(Line)
      BY <1>1, <2>2 DEF TypeOK, FileState
    <3>2. ToSet(<<>>) = {} /\ <<>> \in Seq(Line)
      BY DEF ToSet
    <3> QED
      BY <2>1, <3>1, <3>2 DEF Lines
  <2>4. TypeOK'
    BY <1>1, <1>2, <1>3, <1>5, <2>1, <2>3 DEF TypeOK, Step, inputs
  <2>5. SourceInv'
    <3>1. Lines(disk, g) \subseteq Ever
      BY <2>2, LinesAre DEF Ever
    <3> QED
      BY <1>1, <1>2, <2>3, <3>1 DEF KeysInv, SourceInv, NamesAddress
  <2>6. ReadInv'
    <3>1. ASSUME disk = before, NEW n \in 1..k, NEW l \in Lines(disk, named[n]), NamesAddress(l)
          PROVE  l \in ToSet(unread)' \/ Asks(l)
      <4>1. CASE n = k
        BY <2>3, <3>1, <4>1 DEF g
      <4>2. CASE n # k
        <5>1. n \in 1..k - 1
          BY <1>1, <4>2
        <5> QED
          BY <1>1, <1>4, <1>5, <3>1, <5>1 DEF KeysInv, ReadInv
      <4> QED
        BY <4>1, <4>2
    <3>2. k' - 1 = k /\ at' \notin Judged \cup {"handshake"} /\ Judged' = Judged
      BY <1>1, <2>1 DEF Judged
    <3>3. disk = before => \A n \in 1..k : \A l \in Lines(disk, named[n]) :
                             NamesAddress(l) => l \in ToSet(unread)' \/ Asks(l)
      BY <3>1
    <3> QED
      BY <1>2, <3>2, <3>3 DEF ReadInv, NamesAddress
  <2> QED
    BY <1>1, <2>1, <2>4, <2>5, <2>6, Meanwhile DEF KeysInv
<1>6. CASE ~ (Strict /\ HasAddress /\ k <= m)
  <2>1. unread' = unread /\ k' = 1 /\ at' = "handshake"
    BY <1>1, <1>3, <1>6 DEF ReadKnownHosts, Go
  <2>2. TypeOK'
    <3>1. 1 \in 1..m + 1
      OBVIOUS
    <3> QED
      BY <1>1, <1>2, <1>3, <2>1, <3>1 DEF TypeOK, Step, inputs
  <2>3. SourceInv'
    BY <1>1, <1>2, <2>1 DEF KeysInv, SourceInv, NamesAddress
  <2>4. ReadInv'
    <3>1. ASSUME Strict, HasAddress, disk = before,
                 NEW f \in ToSet(named), NEW l \in Lines(disk, f), NamesAddress(l)
          PROVE  Asks(l)
      <4>1. PICK n \in 1..m : f = named[n]
        BY <1>1, <1>3, Elements
      <4>2. n \in 1..k - 1
        BY <1>1, <1>3, <1>6, <3>1
      <4> QED
        BY <1>1, <1>4, <3>1, <4>1, <4>2 DEF KeysInv, ReadInv
    <3>2. Strict /\ HasAddress /\ disk = before =>
            \A f \in ToSet(named) : \A l \in Lines(disk, f) : NamesAddress(l) => Asks(l)
      BY <3>1
    <3> QED
      BY <1>2, <2>1, <3>2 DEF ReadInv, NamesAddress
  <2> QED
    BY <1>1, <2>1, <2>2, <2>3, <2>4, Meanwhile DEF KeysInv
<1> QED
  BY <1>5, <1>6

\* One line more is looked at.
LEMMA AddKeeps == KeysInv /\ AddAlgorithm => KeysInv'
<1> SUFFICES ASSUME KeysInv, AddAlgorithm PROVE KeysInv'
  OBVIOUS
<1> DEFINE line == Head(unread)
<1>1. /\ at = "algorithms" /\ at' = at /\ k' = k /\ TypeOK /\ Given
      /\ unread \in Seq(Line) /\ unread # <<>> /\ unread' = Tail(unread)
      /\ algorithms \in Seq(KeyType)
      /\ algorithms' = IF Records(line) /\ ~ Contains(algorithms, line.type)
                       THEN Append(algorithms, line.type) ELSE algorithms
      /\ UNCHANGED <<inputs, disk, found, known, timeout>>
  BY DEF AddAlgorithm, KeysInv, TypeOK
<1>2. /\ Ever' = Ever /\ Len(named)' = Len(named)
      /\ \A f : Lines(disk, f)' = Lines(disk, f)
      /\ (Strict' <=> Strict) /\ (HasAddress' <=> HasAddress)
      /\ named' = named /\ disk' = disk /\ before' = before
  BY <1>1, FilesStay DEF inputs
<1>3. /\ line \in Line /\ unread' \in Seq(Line) /\ line \in ToSet(unread)
      /\ ToSet(unread) = {line} \cup ToSet(unread)'
  BY <1>1, Shorter
<1> HIDE DEF line
<1>4. /\ algorithms' \in Seq(KeyType)
      /\ ToSet(algorithms) \subseteq ToSet(algorithms)'
      /\ ToSet(algorithms)' \subseteq ToSet(algorithms) \cup {line.type}
      /\ Records(line) => line.type \in ToSet(algorithms)'
      /\ ~ Records(line) => algorithms' = algorithms
  <2>1. line.type \in KeyType
    BY <1>3 DEF Line
  <2>2. Contains(algorithms, line.type) <=> line.type \in ToSet(algorithms)
    BY <1>1, Elements
  <2>3. CASE Records(line) /\ ~ Contains(algorithms, line.type)
    <3>1. algorithms' = Append(algorithms, line.type)
      BY <1>1, <2>3
    <3>2. /\ Append(algorithms, line.type) \in Seq(KeyType)
          /\ ToSet(Append(algorithms, line.type)) = ToSet(algorithms) \cup {line.type}
      BY <1>1, <2>1, Longer
    <3> QED
      BY <2>3, <3>1, <3>2
  <2>4. CASE ~ (Records(line) /\ ~ Contains(algorithms, line.type))
    BY <1>1, <2>2, <2>4
  <2> QED
    BY <2>3, <2>4
<1>5. \A l : Records(l) <=> NamesAddress(l)
  BY DEF Records, NamesAddress
<1>6. TypeOK'
  BY <1>1, <1>2, <1>3, <1>4 DEF TypeOK, inputs
<1>7. SourceInv'
  <2>1. line \in Ever
    BY <1>3 DEF KeysInv, SourceInv
  <2>2. ASSUME NEW n \in DOMAIN algorithms'
        PROVE  \E l \in Ever : NamesAddress(l) /\ l.type = algorithms'[n]
    <3>1. algorithms'[n] \in ToSet(algorithms)'
      BY DEF ToSet
    <3>2. CASE algorithms'[n] \in ToSet(algorithms)
      BY <3>2 DEF KeysInv, SourceInv, ToSet
    <3>3. CASE algorithms'[n] \notin ToSet(algorithms)
      <4>1. algorithms'[n] = line.type /\ Records(line)
        BY <1>4, <3>1, <3>3
      <4> QED
        BY <1>5, <2>1, <4>1
    <3> QED
      BY <3>2, <3>3
  <2>3. known' = known /\ known \subseteq Ever /\ ToSet(unread)' \subseteq Ever
    BY <1>1, <1>3 DEF KeysInv, SourceInv
  <2> QED
    BY <1>2, <2>2, <2>3 DEF SourceInv, NamesAddress
<1>8. ReadInv'
  <2>1. ASSUME Strict, HasAddress, disk = before, NEW n \in 1..k - 1,
               NEW l \in Lines(disk, named[n]), NamesAddress(l)
        PROVE  l \in ToSet(unread)' \/ Asks(l)'
    <3>1. l \in ToSet(unread) \/ Asks(l)
      BY <1>1, <2>1 DEF KeysInv, ReadInv
    <3>2. l = line => Asks(l)'
      BY <1>4, <1>5, <2>1 DEF Asks
    <3>3. Asks(l) => Asks(l)'
      BY <1>4 DEF Asks
    <3> QED
      BY <1>3, <3>1, <3>2, <3>3
  <2>2. at' = "algorithms" /\ at' \notin Judged \cup {"handshake"} /\ Judged' = Judged /\ k' = k
    BY <1>1 DEF Judged
  <2>3. Strict /\ HasAddress /\ disk = before =>
          \A n \in 1..k - 1 : \A l \in Lines(disk, named[n]) :
            NamesAddress(l) => l \in ToSet(unread)' \/ Asks(l)'
    BY <2>1
  <2> QED
    BY <1>2, <2>2, <2>3 DEF ReadInv, NamesAddress
<1> QED
  BY <1>1, <1>6, <1>7, <1>8, Meanwhile DEF KeysInv

\* Another program rewrites a file: what is there all along can only become less,
\* what may be read can only become more.
LEMMA RewriteKeeps == KeysInv /\ (\E f \in File : Rewrite(f)) => KeysInv'
<1> SUFFICES ASSUME KeysInv, NEW f \in File, Rewrite(f) PROVE KeysInv'
  OBVIOUS
<1>1. PICK content \in Rewrites : disk' = [disk EXCEPT ![f] = content]
  BY DEF Rewrite
<1>2. /\ at \in Step /\ disk = before /\ TypeOK /\ Given
      /\ UNCHANGED <<inputs, at, k, found, known, timeout, unread, algorithms>>
  BY DEF Rewrite, KeysInv
<1>3. /\ named' = named /\ before' = before /\ setting' = setting /\ server' = server
      /\ (Strict' <=> Strict)
  BY <1>2 DEF inputs, Strict
<1>4. content \in FileState
  BY KeysAssumption
<1>5. disk' \in [File -> FileState] /\ \A g \in File \ {f} : disk'[g] = before'[g]
  BY <1>1, <1>2, <1>3, <1>4 DEF TypeOK
<1>6. TypeOK'
  BY <1>2, <1>3, <1>5 DEF TypeOK
<1>7. Given' /\ OneRewrite' /\ CountInv'
  BY <1>2, <1>3, <1>5 DEF KeysInv, Given, OneRewrite, CountInv
<1>8. Ever \subseteq Ever'
  <2>1. Ever = LinesOf(before) /\ LinesOf(before)' = LinesOf(before)
    BY <1>2, <1>3 DEF Ever, LinesOf
  <2> QED
    BY <2>1 DEF Ever
<1>9. SourceInv'
  <2>1. \A n \in DOMAIN algorithms : \E l \in Ever : NamesAddress(l) /\ l.type = algorithms[n]
    BY DEF KeysInv, SourceInv
  <2>2. known \subseteq Ever /\ ToSet(unread) \subseteq Ever
    BY DEF KeysInv, SourceInv
  <2>3. known' = known /\ ToSet(unread)' = ToSet(unread) /\ algorithms' = algorithms
    BY <1>2
  <2> QED
    BY <1>8, <2>1, <2>2, <2>3 DEF SourceInv, NamesAddress
<1>10. LoadInv'
  <2>1. ASSUME NEW g PROVE Steady(g)' \subseteq Steady(g)
    BY <1>2, <1>3 DEF Steady, Lines
  <2>2. /\ at' = at /\ k' = k /\ found' = found /\ known' = known
        /\ ToSet(named)' = ToSet(named) /\ ToSet(found)' = ToSet(found)
        /\ Loaded' = Loaded
    BY <1>2, <1>3 DEF Loaded, Judged
  <2>3. Strict /\ at = "stat" => \A n \in 1..k - 1 : Steady(named[n])' # {} => named[n] \in ToSet(found)
    <3>1. \A n \in 1..k - 1 : Steady(named[n])' \subseteq Steady(named[n])
      BY <1>2, <1>3 DEF Steady, Lines
    <3>2. Strict /\ at = "stat" => \A n \in 1..k - 1 : Steady(named[n]) # {} => named[n] \in ToSet(found)
      BY DEF KeysInv, LoadInv
    <3> QED
      BY <3>1, <3>2
  <2>4. Strict /\ at = "load" => \A g \in ToSet(named) : Steady(g)' # {} => g \in ToSet(found)
    BY <2>1 DEF KeysInv, LoadInv
  <2>5. Strict /\ at = "load" => \A n \in 1..k - 1 : Steady(found[n])' \subseteq known
    <3>1. Strict /\ at = "load" => \A n \in 1..k - 1 : Steady(found[n]) \subseteq known
      BY DEF KeysInv, LoadInv
    <3>2. \A n \in 1..k - 1 : Steady(found[n])' \subseteq Steady(found[n])
      BY <1>2, <1>3 DEF Steady, Lines
    <3> QED
      BY <3>1, <3>2
  <2>6. Strict /\ at \in Loaded => \A g \in ToSet(named) : Steady(g)' \subseteq known
    BY <2>1 DEF KeysInv, LoadInv
  <2> QED
    BY <1>3, <2>2, <2>3, <2>4, <2>5, <2>6 DEF LoadInv
<1>11. ReadInv'
  <2>1. disk' = before' => disk' = disk
    BY <1>2, <1>3
  <2> QED
    BY <1>2, <1>3, <2>1 DEF KeysInv, ReadInv, HasAddress, Fails, Lines, Asks, NamesAddress, Judged
<1>12. VerdictInv'
  <2>1. at' = at /\ at \notin Judged
    BY <1>2 DEF Step, Judged
  <2> QED
    BY <2>1 DEF VerdictInv, Judged
<1> QED
  BY <1>6, <1>7, <1>9, <1>10, <1>11, <1>12 DEF KeysInv

LEMMA KeysStart == Init => KeysInv
<1> SUFFICES ASSUME Init PROVE KeysInv
  OBVIOUS
<1>1. /\ Given /\ disk \in [File -> FileState] /\ disk = before
      /\ Len(named) \in Nat /\ 1 \in 1..Len(named) + 1
  <2>1. named \in Seq(File) /\ disk \in [File -> FileState] /\ server \subseteq Algorithm
    BY KeysAssumption DEF Init
  <2> QED
    BY <2>1, LenProperties DEF Init, Given
<1>2. ToSet(unread) = {} /\ Len(found) = 0 /\ DOMAIN algorithms = {}
  BY DEF Init, ToSet
<1>3. TypeOK
  <2>1. 0 \in Duration
    BY KeysAssumption DEF Duration
  <2> QED
    BY <1>1, <2>1 DEF Init, TypeOK, Step
<1>4. CountInv /\ OneRewrite /\ SourceInv
  BY <1>1, <1>2 DEF Init, CountInv, OneRewrite, SourceInv
<1>5. LoadInv /\ ReadInv /\ VerdictInv
  BY DEF Init, LoadInv, ReadInv, VerdictInv, Loaded, Judged
<1> QED
  BY <1>1, <1>3, <1>4, <1>5 DEF KeysInv

LEMMA KeysStutter == KeysInv /\ UNCHANGED keyVars => KeysInv'
<1> SUFFICES ASSUME KeysInv, UNCHANGED keyVars PROVE KeysInv'
  OBVIOUS
<1>1. UNCHANGED <<inputs, disk>> /\ UNCHANGED <<at, k, found, known, timeout, unread, algorithms>>
  BY DEF keyVars, inputs
<1>2. /\ Ever' = Ever /\ ToSet(named)' = ToSet(named) /\ named' = named /\ disk' = disk
      /\ \A f : Steady(f)' = Steady(f) /\ Lines(disk, f)' = Lines(disk, f)
      /\ (Strict' <=> Strict) /\ (HasAddress' <=> HasAddress) /\ before' = before
      /\ Given' /\ OneRewrite'
  BY <1>1, FilesStay DEF KeysInv, inputs
<1>3. TypeOK' /\ CountInv' /\ SourceInv'
  BY <1>1, <1>2 DEF KeysInv, TypeOK, CountInv, SourceInv, NamesAddress
<1>4. LoadInv'
  <2>1. Loaded' = Loaded
    BY DEF Loaded, Judged
  <2> QED
    BY <1>1, <1>2, <2>1 DEF KeysInv, LoadInv, Steady
<1>5. ReadInv'
  BY <1>1, <1>2 DEF KeysInv, ReadInv, Asks, NamesAddress, Judged
<1>6. Common' = Common /\ Chosen' = Chosen
      /\ (Accepts(TypeOf[Chosen])' <=> Accepts(TypeOf[Chosen]))
  BY <1>1 DEF inputs, Common, Chosen, Asked, Accepts, Strict
<1>7. VerdictInv'
  BY <1>1, <1>2, <1>6 DEF KeysInv, VerdictInv, Judged
<1> QED
  BY <1>2, <1>3, <1>4, <1>5, <1>7 DEF KeysInv

LEMMA KeysKept == KeysInv /\ [Next]_keyVars => KeysInv'
BY PlainSteps, MovesKeep, StatKeeps, LoadKeeps, ReadKeeps, AddKeeps, RewriteKeeps, KeysStutter
   DEF Next, ClientConfigStep

\* In the program of SSHConfig ClientConfig takes the steps of its own
\* specification, whatever ParseHosts does before.
LEMMA KeysInvAlways == ProgramSpec => []KeysInv
<1>1. ProgramInit => KeysInv
  BY KeysStart DEF ProgramInit
<1>2. KeysInv /\ [ProgramNext]_ProgramVars => KeysInv'
  BY KeysKept DEF ProgramNext, ProgramVars
<1> QED
  BY <1>1, <1>2, PTL DEF ProgramSpec

-----------------------------------------------------------------------------
(* Theorems.                                                               *)

\* The types of what ClientConfig keeps; the timeout it computes is a duration,
\* whatever number of seconds the config gives.
THEOREM ConfigTyped == ProgramSpec => []TypeOK
<1>1. KeysInv => TypeOK
  BY DEF KeysInv
<1> QED
  BY <1>1, KeysInvAlways, PTL

\* createHostKeyCallback, knownHostAlgorithms and the handshake: with
\* StrictHostKeyChecking on, a server is accepted only with a key some named file
\* records for it, and never with one revoked all along, even if a file is
\* rewritten between the two readings; and knownHostAlgorithms asks only for
\* types that a line about the address names, whether or not its key is readable.
THEOREM OnlyRecordedKeysAlways == ProgramSpec => []OnlyRecordedKeys
<1>1. KeysInv => OnlyRecordedKeys
  <2> SUFFICES ASSUME KeysInv, at = "accepted", Strict PROVE OnlyRecordedKeys
    BY DEF OnlyRecordedKeys
  <2>1. Accepts(TypeOf[Chosen]) /\ known \subseteq Ever
    BY DEF KeysInv, VerdictInv, SourceInv
  <2>2. \E l \in Ever : Matches(l) /\ l.current /\ l.type = TypeOf[Chosen]
    BY <2>1 DEF Accepts
  <2>3. ASSUME NEW l \in LinesOf(before) \cap LinesOf(disk)
        PROVE  l \in known
    <3>1. PICK f \in ToSet(named) : l \in Lines(before, f)
      BY <2>3, LinesAre
    <3>2. PICK g \in ToSet(named) : l \in Lines(disk, g)
      BY <2>3, LinesAre
    <3>3. f \in File /\ g \in File
      BY Elements DEF KeysInv, Given
    <3>4. \E h \in {f, g} : l \in Steady(h)
      <4>1. CASE disk = before
        BY <3>1, <4>1 DEF Steady, Lines
      <4>2. CASE disk # before
        <5>1. PICK r \in File : \A h \in File \ {r} : disk[h] = before[h]
          BY <4>2 DEF KeysInv, OneRewrite
        <5>2. CASE f # r
          BY <3>1, <3>3, <5>1, <5>2 DEF Steady, Lines
        <5>3. CASE f = r /\ g # r
          BY <3>2, <3>3, <5>1, <5>3 DEF Steady, Lines
        <5>4. CASE f = r /\ g = r
          BY <3>1, <3>2, <5>4 DEF Steady
        <5> QED
          BY <5>2, <5>3, <5>4
      <4> QED
        BY <4>1, <4>2
    <3> QED
      BY <3>4 DEF KeysInv, LoadInv, Loaded, Judged
  <2>4. \A l \in LinesOf(before) \cap LinesOf(disk) :
          ~ (l.kind = "revoked" /\ l.current /\ l.type = TypeOf[Chosen])
    BY <2>1, <2>3 DEF Accepts
  <2>5. \A n \in DOMAIN algorithms : \E l \in Ever : NamesAddress(l) /\ l.type = algorithms[n]
    BY DEF KeysInv, SourceInv
  <2> QED
    BY <2>2, <2>4, <2>5 DEF OnlyRecordedKeys, Ever
<1> QED
  BY <1>1, KeysInvAlways, PTL

\* What knownHostAlgorithms is for: a server with a recorded key, and no wrong one
\* among those it would be asked for, is accepted whatever order of algorithms Go
\* prefers.
THEOREM KnownServerAlways == ProgramSpec => []KnownServerAccepted
<1>1. KeysInv => KnownServerAccepted
  <2> SUFFICES ASSUME KeysInv, at \in Outcome \ {"configError", "dialError"},
                      Strict, disk = before,
                      NEW type \in server \cap KeyType, Recorded(type),
                      \A t \in server \cap KeyType : Recorded(t) => Right(t)
               PROVE  at = "accepted"
    BY DEF KnownServerAccepted
  <2>1. at \in Judged /\ at \in Loaded /\ HasAddress /\ TypeOK /\ Given
    BY DEF Outcome, Judged, Loaded, KeysInv, VerdictInv
  <2>2. \A l \in LinesOf(disk) : NamesAddress(l) => Asks(l)
    BY <2>1, LinesAre DEF KeysInv, ReadInv
  <2>3. type \in ToSet(algorithms) /\ algorithms # <<>> /\ Asked = algorithms
    <3>1. type \in ToSet(algorithms)
      BY <2>2 DEF Recorded, Asks
    <3> QED
      BY <3>1 DEF ToSet, Asked
  <2>4. Common # {}
    BY <2>3 DEF Common, ToSet
  <2>5. Chosen \in server /\ Chosen \in ToSet(algorithms)
    BY <2>1, <2>3, <2>4, ChosenIsCommon
  <2>6. Chosen \in KeyType /\ TypeOf[Chosen] = Chosen
    <3>1. Chosen \in KeyType
      BY <2>1, <2>5, Elements DEF TypeOK
    <3> QED
      BY <3>1, KeysAssumption DEF KeyType
  <2>7. Recorded(Chosen)
    BY <2>5 DEF KeysInv, SourceInv, Ever, ToSet, Recorded
  <2>8. Right(Chosen)
    BY <2>5, <2>6, <2>7
  <2>9. known = LinesOf(disk)
    <3>1. known \subseteq LinesOf(disk)
      BY DEF KeysInv, SourceInv, Ever
    <3>2. LinesOf(disk) \subseteq known
      BY <2>1, LinesAre DEF KeysInv, LoadInv, Steady
    <3> QED
      BY <3>1, <3>2
  <2>10. Accepts(TypeOf[Chosen])
    BY <2>6, <2>8, <2>9 DEF Right, Accepts
  <2> QED
    BY <2>1, <2>4, <2>10 DEF KeysInv, VerdictInv, Judged
<1> QED
  BY <1>1, KeysInvAlways, PTL

-----------------------------------------------------------------------------
(* Host specifications.  First what functions defined by recursion are: the *)
(* library's theorems about them take an operator as a parameter, so the     *)
(* induction is written out, with sets of numbers in place of predicates.    *)

\* A set with 0 and the successor of each of its numbers has them all.
LEMMA Inductive ==
  ASSUME NEW P, 0 \in P, \A n \in Nat : n \in P => n + 1 \in P
  PROVE  Nat \subseteq P
<1> SUFFICES ASSUME Nat \ P # {} PROVE FALSE
  OBVIOUS
<1>1. Nat \ P \in SUBSET Nat
  OBVIOUS
<1>2. PICK n \in Nat \ P : \A m \in Nat \ P : n <= m
  BY <1>1, LeastOf
<1>3. n \in Nat /\ n # 0 /\ ~ (n - 1 \in Nat \ P)
  BY <1>2
<1>4. n - 1 \in Nat /\ n - 1 \in P /\ (n - 1) + 1 = n
  BY <1>3
<1> QED
  BY <1>2, <1>4

\* The ways to go on from one number to the next, and what they define.
Steps(S)                  == [Nat -> [S -> S]]
Recursion(S, start, step) ==
  {r \in [Nat -> S] : r[0] = start /\ \A n \in Nat : r[n + 1] = step[n][r[n]]}

\* A function defined by recursion over the numbers exists: each beginning of it
\* does, and they agree.
LEMMA RecursionExists ==
  ASSUME NEW S, NEW start \in S, NEW step \in Steps(S)
  PROVE  \E r : r \in Recursion(S, start, step)
<1>0. step \in [Nat -> [S -> S]]
  BY DEF Steps
<1> DEFINE Begins(n, r) == /\ r \in [0..n -> S] /\ r[0] = start
                           /\ \A m \in 0..n - 1 : r[m + 1] = step[m][r[m]]
<1>1. \A n \in Nat : \E r : Begins(n, r)
  <2> DEFINE P == {n \in Nat : \E r : Begins(n, r)}
  <2>1. 0 \in P
    <3>1. Begins(0, [m \in 0..0 |-> start])
      OBVIOUS
    <3> QED
      BY <3>1
  <2>2. ASSUME NEW n \in Nat, n \in P PROVE n + 1 \in P
    <3>1. PICK r : Begins(n, r)
      BY <2>2
    <3> DEFINE t == [m \in 0..n + 1 |-> IF m = n + 1 THEN step[n][r[n]] ELSE r[m]]
    <3>2. r[n] \in S /\ step[n][r[n]] \in S
      BY <1>0, <3>1
    <3>3. t \in [0..n + 1 -> S] /\ t[0] = start
      BY <3>1, <3>2
    <3>4. ASSUME NEW m \in 0..n PROVE t[m + 1] = step[m][t[m]]
      BY <3>1, <3>2, <3>4
    <3>5. (n + 1) - 1 = n
      OBVIOUS
    <3>6. Begins(n + 1, t)
      BY <3>3, <3>4, <3>5
    <3> HIDE DEF Begins, t
    <3> QED
      BY <3>6
  <2> HIDE DEF P
  <2>3. Nat \subseteq P
    BY <2>1, <2>2, Inductive
  <2> QED
    BY <2>3 DEF P
<1>2. ASSUME NEW m \in Nat, NEW n \in Nat, NEW r, NEW t, Begins(m, r), Begins(n, t)
      PROVE  \A p \in Nat : p <= m /\ p <= n => r[p] = t[p]
  <2> DEFINE P == {p \in Nat : p <= m /\ p <= n => r[p] = t[p]}
  <2>1. 0 \in P
    BY <1>2
  <2>2. ASSUME NEW p \in Nat, p \in P PROVE p + 1 \in P
    <3> SUFFICES ASSUME p + 1 <= m, p + 1 <= n PROVE r[p + 1] = t[p + 1]
      OBVIOUS
    <3>1. p \in 0..m - 1 /\ p \in 0..n - 1 /\ r[p] = t[p]
      BY <2>2
    <3> QED
      BY <1>2, <3>1
  <2> HIDE DEF P
  <2>3. Nat \subseteq P
    BY <2>1, <2>2, Inductive
  <2> QED
    BY <2>3 DEF P
<1> DEFINE first(n) == CHOOSE r : Begins(n, r)
           whole == [n \in Nat |-> first(n)[n]]
<1>3. \A n \in Nat : Begins(n, first(n))
  BY <1>1
<1> HIDE DEF first
<1>4. \A n \in Nat : first(n)[n] \in S
  BY <1>3
<1>5. ASSUME NEW n \in Nat PROVE first(n + 1)[n + 1] = step[n][first(n)[n]]
  <2>1. n + 1 \in Nat /\ Begins(n + 1, first(n + 1)) /\ Begins(n, first(n))
    BY <1>3
  <2>2. first(n + 1)[n] = first(n)[n]
    <3> HIDE DEF Begins
    <3>1. \A p \in Nat : p <= n + 1 /\ p <= n => first(n + 1)[p] = first(n)[p]
      BY <1>2, <2>1
    <3> QED
      BY <3>1
  <2>3. n \in 0..(n + 1) - 1
    OBVIOUS
  <2> QED
    BY <2>1, <2>2, <2>3
<1>6. first(0)[0] = start
  BY <1>3
<1>7. whole \in [Nat -> S] /\ whole[0] = start
  BY <1>4, <1>6
<1>8. \A n \in Nat : whole[n + 1] = step[n][whole[n]]
  BY <1>5
<1> QED
  BY <1>7, <1>8 DEF Recursion

-----------------------------------------------------------------------------
Size(n) == IF n < 0 THEN - n ELSE n

\* The digits of a number are counted by a recursion that ends.
LEMMA DigitsAre ==
  /\ Hosts!Digits \in [Int -> Nat]
  /\ \A n \in Int : Hosts!Digits[n] = IF n \in -9..9 THEN 1 ELSE 1 + Hosts!Digits[n \div 10]
<1> DEFINE next(c) == [n \in Int |-> IF n \in -9..9 THEN 1 ELSE 1 + c[n \div 10]]
           step    == [m \in Nat |-> [c \in [Int -> Nat] |-> next(c)]]
           one     == [n \in Int |-> 1]
<1>1. \A n \in Int : n \div 10 \in Int
  OBVIOUS
<1>2. \A c \in [Int -> Nat] : next(c) \in [Int -> Nat]
  BY <1>1
<1>3. one \in [Int -> Nat] /\ step \in [Nat -> [[Int -> Nat] -> [Int -> Nat]]]
  BY <1>2
<1>4. PICK r \in [Nat -> [Int -> Nat]] :
        r[0] = one /\ \A m \in Nat : r[m + 1] = step[m][r[m]]
  <2> DEFINE S == [Int -> Nat]
  <2>1. one \in S /\ step \in Steps(S)
    BY <1>3 DEF Steps
  <2> HIDE DEF one, next, step, S
  <2>2. PICK r : r \in Recursion(S, one, step)
    BY <2>1, RecursionExists
  <2> QED
    BY <2>2 DEF S, Recursion
<1>5. \A m \in Nat, n \in Int :
        r[m + 1][n] = IF n \in -9..9 THEN 1 ELSE 1 + r[m][n \div 10]
  <2> SUFFICES ASSUME NEW m \in Nat, NEW n \in Int
               PROVE  r[m + 1][n] = IF n \in -9..9 THEN 1 ELSE 1 + r[m][n \div 10]
    OBVIOUS
  <2>1. r[m + 1] = next(r[m])
    BY <1>4
  <2> QED
    BY <2>1
<1>6. \A m \in Nat : \A n \in Int : Size(n) <= m => r[m + 1][n] = r[m][n]
  <2> DEFINE P == {m \in Nat : \A n \in Int : Size(n) <= m => r[m + 1][n] = r[m][n]}
  <2>1. 0 \in P
    <3>1. \A n \in Int : Size(n) <= 0 => r[0 + 1][n] = 1 /\ r[0][n] = 1
      <4> SUFFICES ASSUME NEW n \in Int, Size(n) <= 0
                   PROVE  r[0 + 1][n] = 1 /\ r[0][n] = 1
        OBVIOUS
      <4>1. n = 0 /\ 0 \in -9..9 /\ r[0][n] = 1
        BY <1>4 DEF Size
      <4> QED
        BY <1>5, <4>1
    <3> QED
      BY <3>1
  <2>2. ASSUME NEW m \in Nat, m \in P PROVE m + 1 \in P
    <3> SUFFICES ASSUME NEW n \in Int, Size(n) <= m + 1
                 PROVE  r[(m + 1) + 1][n] = r[m + 1][n]
      OBVIOUS
    <3>0. PICK q \in Nat : q = m + 1
      OBVIOUS
    <3>1. CASE n \in -9..9
      <4>1. r[q + 1][n] = 1 /\ r[m + 1][n] = 1
        BY <1>5, <3>1
      <4> QED
        BY <3>0, <4>1
    <3>2. CASE n \notin -9..9
      <4>1. n \div 10 \in Int /\ Size(n \div 10) <= m
        BY <3>2 DEF Size
      <4>2. r[m + 1][n \div 10] = r[m][n \div 10]
        BY <2>2, <4>1
      <4>3. /\ r[q + 1][n] = 1 + r[q][n \div 10]
            /\ r[m + 1][n] = 1 + r[m][n \div 10]
        BY <1>5, <3>2
      <4> QED
        BY <3>0, <4>2, <4>3
    <3> QED
      BY <3>1, <3>2
  <2> HIDE DEF P
  <2>3. Nat \subseteq P
    BY <2>1, <2>2, Inductive
  <2> QED
    BY <2>3 DEF P
<1>7. \A n \in Int : \A m \in Nat : Size(n) <= m => r[m][n] = r[Size(n)][n]
  <2> SUFFICES ASSUME NEW n \in Int
               PROVE  \A m \in Nat : Size(n) <= m => r[m][n] = r[Size(n)][n]
    OBVIOUS
  <2>0. Size(n) \in Nat
    BY DEF Size
  <2> DEFINE P == {m \in Nat : Size(n) <= m => r[m][n] = r[Size(n)][n]}
  <2>1. 0 \in P
    BY <2>0
  <2>2. ASSUME NEW m \in Nat, m \in P PROVE m + 1 \in P
    <3> SUFFICES ASSUME Size(n) <= m + 1 PROVE r[m + 1][n] = r[Size(n)][n]
      OBVIOUS
    <3>1. CASE Size(n) = m + 1
      BY <3>1
    <3>2. CASE Size(n) <= m
      BY <1>6, <2>2, <3>2
    <3> QED
      BY <2>0, <3>1, <3>2
  <2> HIDE DEF P
  <2>3. Nat \subseteq P
    BY <2>1, <2>2, Inductive
  <2> QED
    BY <2>3 DEF P
<1> DEFINE whole == [n \in Int |-> r[Size(n)][n]]
<1>8. whole \in [Int -> Nat]
  BY DEF Size
<1>9. \A n \in Int : whole[n] = IF n \in -9..9 THEN 1 ELSE 1 + whole[n \div 10]
  <2> SUFFICES ASSUME NEW n \in Int
               PROVE  whole[n] = IF n \in -9..9 THEN 1 ELSE 1 + whole[n \div 10]
    OBVIOUS
  <2>1. Size(n) \in Nat /\ n \div 10 \in Int /\ Size(n) <= Size(n)
    BY DEF Size
  <2>2. whole[n] = r[Size(n) + 1][n]
    BY <1>6, <2>1
  <2>3. whole[n] = IF n \in -9..9 THEN 1 ELSE 1 + r[Size(n)][n \div 10]
    BY <1>5, <2>1, <2>2
  <2>4. Size(n \div 10) <= Size(n)
    BY DEF Size
  <2>5. r[Size(n)][n \div 10] = whole[n \div 10]
    BY <1>7, <2>1, <2>4
  <2> QED
    BY <2>3, <2>5
<1> HIDE DEF whole
<1>10. whole = [n \in Int |-> IF n \in -9..9 THEN 1 ELSE 1 + whole[n \div 10]]
  BY <1>8, <1>9
<1>11. Hosts!Digits = [n \in Int |-> IF n \in -9..9 THEN 1 ELSE 1 + Hosts!Digits[n \div 10]]
  BY <1>10 DEF Hosts!Digits
<1> QED
  <2>1. \A n \in Int : Hosts!Digits[n] = IF n \in -9..9 THEN 1 ELSE 1 + Hosts!Digits[n \div 10]
    BY <1>11
  <2> DEFINE P == {m \in Nat : \A n \in Int : Size(n) <= m => Hosts!Digits[n] \in Nat}
  <2>2. 0 \in P
    <3>1. \A n \in Int : Size(n) <= 0 => n = 0 /\ n \in -9..9
      BY DEF Size
    <3> QED
      BY <2>1, <3>1
  <2>3. ASSUME NEW m \in Nat, m \in P PROVE m + 1 \in P
    <3> SUFFICES ASSUME NEW n \in Int, Size(n) <= m + 1 PROVE Hosts!Digits[n] \in Nat
      OBVIOUS
    <3>1. CASE n \in -9..9
      BY <2>1, <3>1
    <3>2. CASE n \notin -9..9
      <4>1. n \div 10 \in Int /\ Size(n \div 10) <= m
        BY <3>2 DEF Size
      <4>2. PICK c \in Nat : c = Hosts!Digits[n \div 10]
        BY <2>3, <4>1
      <4>3. Hosts!Digits[n] = 1 + c
        BY <2>1, <3>2, <4>2
      <4> QED
        BY <4>3
    <3> QED
      BY <3>1, <3>2
  <2> HIDE DEF P
  <2>4. Nat \subseteq P
    BY <2>2, <2>3, Inductive
  <2>5. \A n \in Int : Size(n) \in Nat /\ Size(n) <= Size(n)
    BY DEF Size
  <2>6. \A n \in Int : Hosts!Digits[n] \in Nat
    BY <2>4, <2>5 DEF P
  <2> QED
    BY <1>11, <2>1, <2>6

\* The larger number has at least as many digits.
LEMMA DigitsGrow ==
  ASSUME NEW n \in Nat, NEW m \in Nat, m <= n
  PROVE  1 <= Hosts!Digits[m] /\ Hosts!Digits[m] <= Hosts!Digits[n]
<1> DEFINE D == Hosts!Digits
<1>1. D \in [Int -> Nat] /\ \A q \in Nat : D[q] = IF q \in -9..9 THEN 1 ELSE 1 + D[q \div 10]
  BY DigitsAre
<1> HIDE DEF D
<1>2. \A q \in Nat : 1 <= D[q]
  <2> SUFFICES ASSUME NEW q \in Nat PROVE 1 <= D[q]
    OBVIOUS
  <2>1. q \div 10 \in Nat
    OBVIOUS
  <2>2. PICK d \in Nat : d = D[q \div 10]
    BY <1>1, <2>1
  <2>3. D[q] = 1 \/ D[q] = 1 + d
    BY <1>1, <2>2
  <2> QED
    BY <2>3
<1> DEFINE P == {p \in Nat : \A q \in Nat : \A r \in Nat : r <= p /\ q <= r => D[q] <= D[r]}
<1>3. 0 \in P
  <2>1. \A q \in Nat, r \in Nat : r <= 0 /\ q <= r => q = 0 /\ r = 0
    OBVIOUS
  <2>2. D[0] \in Nat
    BY <1>1
  <2> QED
    BY <2>1, <2>2
<1>4. ASSUME NEW p \in Nat, p \in P PROVE p + 1 \in P
  <2> SUFFICES ASSUME NEW q \in Nat, NEW r \in Nat, r <= p + 1, q <= r
               PROVE  D[q] <= D[r]
    OBVIOUS
  <2>1. D[q] \in Nat /\ D[r] \in Nat /\ 1 <= D[r]
    BY <1>1, <1>2
  <2>2. CASE q \in -9..9
    BY <1>1, <2>1, <2>2
  <2>3. CASE q \notin -9..9
    <3>1. /\ r \notin -9..9 /\ q \div 10 \in Nat /\ r \div 10 \in Nat
          /\ q \div 10 <= r \div 10 /\ r \div 10 <= p
      BY <2>3
    <3>2. PICK d \in Nat, e \in Nat : d = D[q \div 10] /\ e = D[r \div 10]
      BY <1>1, <3>1
    <3>3. d <= e
      <4>1. D[q \div 10] <= D[r \div 10]
        BY <1>4, <3>1
      <4> QED
        BY <3>2, <4>1
    <3>4. D[q] = 1 + d /\ D[r] = 1 + e
      BY <1>1, <2>3, <3>1, <3>2
    <3> QED
      BY <3>3, <3>4
  <2> QED
    BY <2>2, <2>3
<1> HIDE DEF P
<1>5. Nat \subseteq P
  BY <1>3, <1>4, Inductive
<1>6. D[m] <= D[n]
  BY <1>5 DEF P
<1> QED
  BY <1>2, <1>6 DEF D

\* A recursion that stops at a number.
Stopped(S, start, step, l) ==
  {r \in [0..l -> S] :
     r = [n \in 0..l |-> IF n = 0 THEN start ELSE step[n - 1][r[n - 1]]]}

LEMMA RecursionStops ==
  ASSUME NEW S, NEW start \in S, NEW step \in Steps(S), NEW l \in Nat
  PROVE  \E r : r \in Stopped(S, start, step, l)
<1>1. PICK w : w \in Recursion(S, start, step)
  BY RecursionExists
<1>2. /\ w \in [Nat -> S] /\ w[0] = start
      /\ \A n \in Nat : w[n + 1] = step[n][w[n]]
  BY <1>1 DEF Recursion
<1> DEFINE r == [n \in 0..l |-> w[n]]
<1>3. r \in [0..l -> S]
  BY <1>2
<1>4. ASSUME NEW n \in 0..l PROVE r[n] = IF n = 0 THEN start ELSE step[n - 1][r[n - 1]]
  <2>1. CASE n = 0
    BY <1>2, <2>1
  <2>2. CASE n # 0
    <3>1. n - 1 \in Nat /\ n - 1 \in 0..l /\ (n - 1) + 1 = n
      BY <2>2
    <3>2. w[(n - 1) + 1] = step[n - 1][w[n - 1]]
      BY <1>2, <3>1
    <3> QED
      BY <2>2, <3>1, <3>2
  <2> QED
    BY <2>1, <2>2
<1> HIDE DEF r
<1>5. r = [n \in 0..l |-> IF n = 0 THEN start ELSE step[n - 1][r[n - 1]]]
  BY <1>3, <1>4
<1> QED
  BY <1>3, <1>5 DEF Stopped

LEMMA LiteralTyped == \A name \in Name : Hosts!Literal(name) \in Hosts!Alias
BY DEF Hosts!Literal, Hosts!Alias

\* MatchesOf goes through the patterns one by one.
LEMMA MatchesAre ==
  ASSUME NEW t, NEW c \in Hosts!Config
  PROVE  /\ Len(c.patterns) \in Nat
         /\ Hosts!MatchesOf(t, c) \in [0..Len(c.patterns) -> Seq(Hosts!Alias)]
         /\ Hosts!MatchesOf(t, c)[0] = <<>>
         /\ \A n \in 1..Len(c.patterns) :
              /\ c.patterns[n].name \in Name
              /\ Hosts!MatchesOf(t, c)[n] =
                   IF ~ c.patterns[n].wild /\ c.patterns[n].name \in t.matches
                   THEN Append(Hosts!MatchesOf(t, c)[n - 1], Hosts!Literal(c.patterns[n].name))
                   ELSE Hosts!MatchesOf(t, c)[n - 1]
<1> DEFINE pats    == c.patterns
           l       == Len(pats)
           S       == Seq(Hosts!Alias)
           Takes(n) == ~ pats[n].wild /\ pats[n].name \in t.matches
           one(n)  == Hosts!Literal(pats[n].name)
           go(n, s) == IF Takes(n) THEN Append(s, one(n)) ELSE s
           step    == [n \in Nat |-> [s \in S |-> IF n + 1 \in 1..l THEN go(n + 1, s) ELSE s]]
           M       == Hosts!MatchesOf(t, c)
<1>1. pats \in Seq([name : Name, wild : BOOLEAN])
  BY DEF Hosts!Config
<1>2. l \in Nat /\ \A n \in 1..l : pats[n].name \in Name
  <2>1. \A n \in 1..l : pats[n] \in [name : Name, wild : BOOLEAN]
    BY <1>1, ElementOfSeq
  <2> QED
    BY <1>1, <2>1, LenProperties
<1>3. \A n \in 1..l : one(n) \in Hosts!Alias
  BY <1>2, LiteralTyped
<1>4. \A n \in 1..l : \A s \in S : go(n, s) \in S
  <2> HIDE DEF one, pats, l
  <2> SUFFICES ASSUME NEW n \in 1..l, NEW s \in S PROVE go(n, s) \in S
    OBVIOUS
  <2>1. Append(s, one(n)) \in S
    BY <1>3, AppendProperties
  <2> QED
    BY <2>1
<1>5. \E r \in [0..l -> S] : r = [n \in 0..l |-> IF n = 0 THEN <<>> ELSE go(n, r[n - 1])]
  <2>1. <<>> \in S
    OBVIOUS
  <2>2. step \in Steps(S)
    <3> HIDE DEF go, l, S
    <3> QED
      BY <1>4 DEF Steps
  <2>3. PICK r \in [0..l -> S] :
          r = [n \in 0..l |-> IF n = 0 THEN <<>> ELSE step[n - 1][r[n - 1]]]
    <3> HIDE DEF step, S, l
    <3>1. PICK r : r \in Stopped(S, <<>>, step, l)
      BY <1>2, <2>1, <2>2, RecursionStops
    <3> QED
      BY <3>1 DEF Stopped
  <2>4. ASSUME NEW n \in 0..l PROVE r[n] = IF n = 0 THEN <<>> ELSE go(n, r[n - 1])
    <3> HIDE DEF go, l, S
    <3>1. CASE n = 0
      BY <2>3, <3>1
    <3>2. CASE n # 0
      <4>1. n - 1 \in Nat /\ n - 1 \in 0..l /\ (n - 1) + 1 = n /\ n \in 1..l
        BY <1>2, <3>2
      <4>2. r[n - 1] \in S
        BY <2>3, <4>1
      <4>3. step[n - 1][r[n - 1]] = go(n, r[n - 1])
        BY <4>1, <4>2
      <4>4. r[n] = step[n - 1][r[n - 1]]
        BY <2>3, <3>2
      <4> QED
        BY <3>2, <4>3, <4>4
    <3> QED
      BY <3>1, <3>2
  <2>5. r = [n \in 0..l |-> IF n = 0 THEN <<>> ELSE go(n, r[n - 1])]
    <3> HIDE DEF go, l, S
    <3>1. DOMAIN r = 0..l /\ r = [n \in 0..l |-> r[n]]
      BY <2>3
    <3> QED
      BY <2>4, <3>1
  <2> QED
    BY <2>5
<1>6. M = [n \in 0..l |-> IF n = 0 THEN <<>> ELSE go(n, M[n - 1])]
  BY <1>5 DEF Hosts!MatchesOf
<1> HIDE DEF M, go, l, S
<1>7. \A n \in 0..l : M[n] \in S
  <2> DEFINE P == {n \in Nat : n <= l => M[n] \in S}
  <2>1. 0 \in P
    <3>1. M[0] = <<>> /\ <<>> \in S
      BY <1>2, <1>6 DEF S
    <3> QED
      BY <3>1
  <2>2. ASSUME NEW n \in Nat, n \in P PROVE n + 1 \in P
    <3> SUFFICES ASSUME n + 1 <= l PROVE M[n + 1] \in S
      OBVIOUS
    <3>1. PICK q \in 1..l : q = n + 1
      BY <1>2
    <3>2. q \in 0..l /\ q # 0 /\ q - 1 = n /\ M[n] \in S
      BY <1>2, <2>2, <3>1
    <3>3. M[q] = go(q, M[n])
      BY <1>6, <3>2
    <3> QED
      BY <1>4, <3>1, <3>2, <3>3
  <2> HIDE DEF P
  <2>3. Nat \subseteq P
    BY <2>1, <2>2, Inductive
  <2> QED
    BY <1>2, <2>3 DEF P
<1>8. M \in [0..l -> S] /\ M[0] = <<>> /\ \A n \in 1..l : M[n] = go(n, M[n - 1])
  <2>1. \A n \in 0..l : M[n] = IF n = 0 THEN <<>> ELSE go(n, M[n - 1])
    BY <1>6
  <2>2. M \in [0..l -> S]
    BY <1>6, <1>7
  <2>3. 0 \in 0..l /\ \A n \in 1..l : n \in 0..l /\ n # 0
    BY <1>2
  <2> QED
    BY <2>1, <2>2, <2>3
<1> QED
  BY <1>2, <1>8 DEF M, go, l, S

-----------------------------------------------------------------------------
(* What a token and a specification stand for.                             *)

LEMMA TokenTyped ==
  ASSUME NEW t \in Hosts!Token
  PROVE  /\ t.kind \in {"blank", "literal", "range", "glob"}
         /\ t.kind = "literal" => t.name \in Name
         /\ t.kind = "range" =>
              /\ t.name \in Name
              /\ t.lo.value \in Nat /\ t.lo.digits \in Nat
              /\ t.hi.value \in Nat /\ t.hi.digits \in Nat
              /\ t.lo.digits >= Hosts!Digits[t.lo.value]
              /\ t.hi.digits >= Hosts!Digits[t.hi.value]
<1>1. CASE t.kind = "range"
  <2>1. t.name \in Name /\ t.lo \in Hosts!Numeral /\ t.hi \in Hosts!Numeral
    BY <1>1 DEF Hosts!Token
  <2> QED
    BY <1>1, <2>1 DEF Hosts!Numeral
<1> QED
  BY <1>1 DEF Hosts!Token

\* The larger of two numbers, and of three if the third is not larger than both.
LEMMA LargerOf ==
  ASSUME NEW p \in Nat, NEW q \in Nat, NEW n \in Nat
  PROVE  /\ Hosts!Max({p, q, n}) \in Nat /\ Hosts!Max({p, q}) \in Nat
         /\ Hosts!Max({p, q}) \in {p, q}
         /\ n <= p \/ n <= q => Hosts!Max({p, q, n}) = Hosts!Max({p, q})
<1> DEFINE x == IF p >= q THEN p ELSE q
           y == IF x >= n THEN x ELSE n
<1>1. x \in {p, q} /\ \A z \in {p, q} : x >= z
  OBVIOUS
<1>2. y \in {p, q, n} /\ \A z \in {p, q, n} : y >= z
  OBVIOUS
<1>3. /\ Hosts!Max({p, q}) \in {p, q}
      /\ \A z \in {p, q} : Hosts!Max({p, q}) >= z
  BY <1>1 DEF Hosts!Max
<1>4. /\ Hosts!Max({p, q, n}) \in {p, q, n}
      /\ \A z \in {p, q, n} : Hosts!Max({p, q, n}) >= z
  BY <1>2 DEF Hosts!Max
<1> QED
  BY <1>3, <1>4

\* A number in a range is written as wide as the range is.
LEMMA WidthIs ==
  ASSUME NEW t \in Hosts!Token, t.kind = "range",
         NEW n \in Int
  PROVE  /\ Hosts!Width(t, n) \in Nat
         /\ t.lo.value <= n /\ n <= t.hi.value =>
              Hosts!Width(t, n) =
                IF t.lo.digits = t.hi.digits \/ Hosts!LeadingZero(t.lo) \/ Hosts!LeadingZero(t.hi)
                THEN Hosts!Max({t.lo.digits, t.hi.digits}) ELSE Hosts!Digits[n]
<1> DEFINE D == Hosts!Digits
<1>1. PICK p \in Nat, q \in Nat, u \in Nat, v \in Nat :
        /\ p = t.lo.digits /\ q = t.hi.digits /\ u = t.lo.value /\ v = t.hi.value
        /\ p >= D[u] /\ q >= D[v]
  BY TokenTyped
<1>2. D[n] \in Nat /\ D[u] \in Nat /\ D[v] \in Nat
  BY DigitsAre
<1>3. /\ Hosts!LeadingZero(t.lo) <=> p > D[u]
      /\ Hosts!LeadingZero(t.hi) <=> q > D[v]
  BY <1>1 DEF Hosts!LeadingZero
<1>4. Hosts!Width(t, n) = IF p > D[u] \/ q > D[v] THEN Hosts!Max({p, q, D[n]}) ELSE D[n]
  BY <1>1, <1>3 DEF Hosts!Width
<1> HIDE DEF D
<1>5. Hosts!Width(t, n) \in Nat
  <2>1. Hosts!Max({p, q, D[n]}) \in Nat
    BY <1>2, LargerOf
  <2> QED
    BY <1>2, <1>4, <2>1
<1>6. ASSUME u <= n, n <= v
      PROVE  Hosts!Width(t, n) =
               IF p = q \/ p > D[u] \/ q > D[v] THEN Hosts!Max({p, q}) ELSE D[n]
  <2>1. n \in Nat /\ D[u] <= D[n] /\ D[n] <= D[v]
    BY <1>6, DigitsGrow DEF D
  <2>2. D[n] <= q
    BY <1>1, <1>2, <2>1
  <2>3. CASE p > D[u] \/ q > D[v]
    BY <1>2, <1>4, <2>2, <2>3, LargerOf
  <2>4. CASE ~ (p > D[u] \/ q > D[v]) /\ p = q
    <3>1. p = D[u] /\ q = D[v] /\ D[n] = p
      BY <1>1, <1>2, <2>1, <2>4
    <3>2. Hosts!Max({p, q}) = p
      BY <2>4, LargerOf
    <3> QED
      BY <1>4, <2>4, <3>1, <3>2
  <2>5. CASE ~ (p > D[u] \/ q > D[v]) /\ p # q
    BY <1>4, <2>5
  <2> QED
    BY <2>3, <2>4, <2>5
<1> QED
  BY <1>1, <1>3, <1>5, <1>6 DEF D

\* A range counts from one bound to the other.
LEMMA RangeIs ==
  ASSUME NEW t \in Hosts!Token, t.kind = "range", t.lo.value <= t.hi.value
  PROVE  /\ Hosts!RangeOf(t) \in Seq(Hosts!Alias)
         /\ Len(Hosts!RangeOf(t)) = t.hi.value - t.lo.value + 1
         /\ \A n \in Int : t.lo.value <= n /\ n <= t.hi.value =>
              /\ Hosts!Numbered(t.name, n, Hosts!Width(t, n)) \in Hosts!Alias
              /\ Hosts!RangeOf(t)[n - t.lo.value + 1] =
                   Hosts!Numbered(t.name, n, Hosts!Width(t, n))
<1>1. PICK u \in Nat, v \in Nat : u = t.lo.value /\ v = t.hi.value /\ u <= v
  BY TokenTyped
<1> DEFINE R   == Hosts!RangeOf(t)
           one(n) == Hosts!Numbered(t.name, n, Hosts!Width(t, n))
<1>2. \A n \in Int : one(n) \in Hosts!Alias
  <2>1. t.name \in Name /\ \A n \in Int : Hosts!Width(t, n) \in Nat
    BY TokenTyped, WidthIs
  <2> QED
    BY <2>1 DEF Hosts!Numbered, Hosts!Alias
<1>3. DOMAIN R = 1..(v - u + 1)
  BY <1>1 DEF Hosts!RangeOf
<1>4. \A m \in 1..(v - u + 1) : R[m] = one(u + m - 1)
  <2> SUFFICES ASSUME NEW m \in 1..(v - u + 1) PROVE R[m] = one(u + m - 1)
    OBVIOUS
  <2>1. PICK n \in Int : n = u + m - 1 /\ u <= n /\ n <= v
    BY <1>1
  <2>2. Hosts!Width(t, n) =
          IF t.lo.digits = t.hi.digits \/ Hosts!LeadingZero(t.lo) \/ Hosts!LeadingZero(t.hi)
          THEN Hosts!Max({t.lo.digits, t.hi.digits}) ELSE Hosts!Digits[n]
    BY <1>1, <2>1, WidthIs
  <2> QED
    BY <1>1, <2>1, <2>2 DEF Hosts!RangeOf
<1> HIDE DEF R
<1>5. R = [m \in 1..(v - u + 1) |-> one(u + m - 1)]
  <2>1. R = [m \in 1..(v - u + 1) |-> R[m]]
    BY <1>3 DEF R, Hosts!RangeOf
  <2> HIDE DEF one
  <2> QED
    BY <1>4, <2>1
<1> HIDE DEF one
<1>6. PICK w \in Nat : w = v - u + 1
  BY <1>1
<1>7. R \in Seq(Hosts!Alias) /\ Len(R) = w
  <2>1. R = [m \in 1..w |-> one(u + m - 1)]
    BY <1>5, <1>6
  <2>2. \A m \in 1..w : one(u + m - 1) \in Hosts!Alias
    BY <1>2
  <2>3. R \in Seq(Hosts!Alias)
    <3>1. R \in [1..w -> Hosts!Alias]
      BY <2>1, <2>2
    <3> QED
      BY <3>1
  <2>4. Len(R) \in Nat /\ DOMAIN R = 1..Len(R)
    BY <2>3, LenProperties
  <2>5. 1..Len(R) = 1..w
    BY <2>1, <2>4
  <2>6. Len(R) = w
    <3>1. PICK x \in Nat : x = Len(R)
      BY <2>4
    <3>2. 1..x = 1..w
      BY <2>5, <3>1
    <3>3. x = w
      BY <3>2
    <3> QED
      BY <3>1, <3>3
  <2> QED
    BY <2>3, <2>6
<1>8. \A n \in Int : u <= n /\ n <= v => R[n - u + 1] = one(n)
  <2> SUFFICES ASSUME NEW n \in Int, u <= n, n <= v PROVE R[n - u + 1] = one(n)
    OBVIOUS
  <2>1. PICK m \in 1..(v - u + 1) : m = n - u + 1 /\ n = u + m - 1
    OBVIOUS
  <2> QED
    BY <1>4, <2>1
<1> QED
  BY <1>1, <1>2, <1>6, <1>7, <1>8 DEF R, one

LEMMA MeaningOfIs ==
  ASSUME NEW t \in Hosts!Token, NEW c \in Hosts!Config
  PROVE  /\ Hosts!MeaningOf(t, c) \in Seq(Hosts!Alias)
         /\ t.kind = "blank" => Hosts!MeaningOf(t, c) = <<>>
         /\ t.kind = "literal" => Hosts!MeaningOf(t, c) = <<Hosts!Literal(t.name)>>
         /\ t.kind = "range" =>
              Hosts!MeaningOf(t, c) = IF Hosts!Malformed(t) THEN <<>> ELSE Hosts!RangeOf(t)
         /\ t.kind = "glob" =>
              Hosts!MeaningOf(t, c) = Hosts!MatchesOf(t, c)[Len(c.patterns)]
<1>1. t.kind = "blank" => Hosts!MeaningOf(t, c) = <<>>
  BY DEF Hosts!MeaningOf
<1>2. t.kind = "literal" => Hosts!MeaningOf(t, c) = <<Hosts!Literal(t.name)>>
  BY DEF Hosts!MeaningOf
<1>3. t.kind = "range" =>
        Hosts!MeaningOf(t, c) = IF Hosts!Malformed(t) THEN <<>> ELSE Hosts!RangeOf(t)
  BY DEF Hosts!MeaningOf
<1>4. t.kind = "glob" => Hosts!MeaningOf(t, c) = Hosts!MatchesOf(t, c)[Len(c.patterns)]
  BY DEF Hosts!MeaningOf
<1>5. ASSUME t.kind = "blank" PROVE Hosts!MeaningOf(t, c) \in Seq(Hosts!Alias)
  BY <1>1, <1>5, EmptySeq
<1>6. ASSUME t.kind = "literal" PROVE Hosts!MeaningOf(t, c) \in Seq(Hosts!Alias)
  <2>1. Hosts!Literal(t.name) \in Hosts!Alias
    BY <1>6, TokenTyped, LiteralTyped
  <2>2. <<Hosts!Literal(t.name)>> \in Seq(Hosts!Alias)
    BY <2>1
  <2> QED
    BY <1>2, <1>6, <2>2
<1>7. ASSUME t.kind = "range" PROVE Hosts!MeaningOf(t, c) \in Seq(Hosts!Alias)
  <2>1. ~ Hosts!Malformed(t) => t.lo.value <= t.hi.value
    BY <1>7, TokenTyped DEF Hosts!Malformed
  <2>2. ~ Hosts!Malformed(t) => Hosts!RangeOf(t) \in Seq(Hosts!Alias)
    BY <1>7, <2>1, RangeIs
  <2>3. <<>> \in Seq(Hosts!Alias)
    BY EmptySeq
  <2> QED
    BY <1>3, <1>7, <2>2, <2>3
<1>8. ASSUME t.kind = "glob" PROVE Hosts!MeaningOf(t, c) \in Seq(Hosts!Alias)
  <2>1. /\ Len(c.patterns) \in Nat
        /\ Hosts!MatchesOf(t, c) \in [0..Len(c.patterns) -> Seq(Hosts!Alias)]
    BY MatchesAre
  <2>2. Len(c.patterns) \in 0..Len(c.patterns)
    BY <2>1
  <2>3. Hosts!MatchesOf(t, c)[Len(c.patterns)] \in Seq(Hosts!Alias)
    BY <2>1, <2>2
  <2> QED
    BY <1>4, <1>8, <2>3
<1>9. t.kind \in {"blank", "literal", "range", "glob"}
  BY TokenTyped
<1> QED
  BY <1>1, <1>2, <1>3, <1>4, <1>5, <1>6, <1>7, <1>8, <1>9

\* The expansion of a specification goes through its tokens one by one.
LEMMA MeaningIs ==
  ASSUME NEW s \in Seq(Hosts!Token), NEW c \in Hosts!Config
  PROVE  /\ Len(s) \in Nat
         /\ Hosts!MeaningOfFirst(s, c) \in [0..Len(s) -> Seq(Hosts!Alias)]
         /\ Hosts!MeaningOfFirst(s, c)[0] = <<>>
         /\ \A n \in 1..Len(s) :
              /\ s[n] \in Hosts!Token
              /\ Hosts!MeaningOfFirst(s, c)[n] =
                   Hosts!MeaningOfFirst(s, c)[n - 1] \o Hosts!MeaningOf(s[n], c)
<1> DEFINE l       == Len(s)
           S       == Seq(Hosts!Alias)
           of(n)   == Hosts!MeaningOf(s[n], c)
           go(n, x) == x \o of(n)
           step    == [n \in Nat |-> [x \in S |-> IF n + 1 \in 1..l THEN go(n + 1, x) ELSE x]]
           M       == Hosts!MeaningOfFirst(s, c)
<1>1. l \in Nat
  BY LenProperties
<1>2. \A n \in 1..l : s[n] \in Hosts!Token
  BY ElementOfSeq
<1>3. \A n \in 1..l : of(n) \in S
  BY <1>2, MeaningOfIs
<1>4. \A n \in 1..l : \A x \in S : go(n, x) \in S
  <2> HIDE DEF of, l
  <2> SUFFICES ASSUME NEW n \in 1..l, NEW x \in S PROVE go(n, x) \in S
    OBVIOUS
  <2> QED
    BY <1>3, ConcatProperties
<1>5. \E r \in [0..l -> S] : r = [n \in 0..l |-> IF n = 0 THEN <<>> ELSE go(n, r[n - 1])]
  <2>1. <<>> \in S
    OBVIOUS
  <2>2. step \in Steps(S)
    <3> HIDE DEF go, l, S
    <3> QED
      BY <1>4 DEF Steps
  <2>3. PICK r \in [0..l -> S] :
          r = [n \in 0..l |-> IF n = 0 THEN <<>> ELSE step[n - 1][r[n - 1]]]
    <3> HIDE DEF step, S, l
    <3>1. PICK r : r \in Stopped(S, <<>>, step, l)
      BY <1>1, <2>1, <2>2, RecursionStops
    <3> QED
      BY <3>1 DEF Stopped
  <2>4. ASSUME NEW n \in 0..l PROVE r[n] = IF n = 0 THEN <<>> ELSE go(n, r[n - 1])
    <3> HIDE DEF go, l, S
    <3>1. CASE n = 0
      BY <2>3, <3>1
    <3>2. CASE n # 0
      <4>1. n - 1 \in Nat /\ n - 1 \in 0..l /\ (n - 1) + 1 = n /\ n \in 1..l
        BY <1>1, <3>2
      <4>2. r[n - 1] \in S
        BY <2>3, <4>1
      <4>3. step[n - 1][r[n - 1]] = go(n, r[n - 1])
        BY <4>1, <4>2
      <4>4. r[n] = step[n - 1][r[n - 1]]
        BY <2>3, <3>2
      <4> QED
        BY <3>2, <4>3, <4>4
    <3> QED
      BY <3>1, <3>2
  <2>5. r = [n \in 0..l |-> IF n = 0 THEN <<>> ELSE go(n, r[n - 1])]
    <3> HIDE DEF go, l, S
    <3>1. DOMAIN r = 0..l /\ r = [n \in 0..l |-> r[n]]
      BY <2>3
    <3> QED
      BY <2>4, <3>1
  <2> QED
    BY <2>5
<1>6. M = [n \in 0..l |-> IF n = 0 THEN <<>> ELSE go(n, M[n - 1])]
  BY <1>5 DEF Hosts!MeaningOfFirst
<1> HIDE DEF M, go, l, S
<1>7. \A n \in 0..l : M[n] \in S
  <2> DEFINE P == {n \in Nat : n <= l => M[n] \in S}
  <2>1. 0 \in P
    <3>1. M[0] = <<>> /\ <<>> \in S
      BY <1>1, <1>6 DEF S
    <3> QED
      BY <3>1
  <2>2. ASSUME NEW n \in Nat, n \in P PROVE n + 1 \in P
    <3> SUFFICES ASSUME n + 1 <= l PROVE M[n + 1] \in S
      OBVIOUS
    <3>1. PICK q \in 1..l : q = n + 1
      BY <1>1
    <3>2. q \in 0..l /\ q # 0 /\ q - 1 = n /\ M[n] \in S
      BY <1>1, <2>2, <3>1
    <3>3. M[q] = go(q, M[n])
      BY <1>6, <3>2
    <3> QED
      BY <1>4, <3>1, <3>2, <3>3
  <2> HIDE DEF P
  <2>3. Nat \subseteq P
    BY <2>1, <2>2, Inductive
  <2> QED
    BY <1>1, <2>3 DEF P
<1>8. M \in [0..l -> S] /\ M[0] = <<>> /\ \A n \in 1..l : M[n] = go(n, M[n - 1])
  <2>1. \A n \in 0..l : M[n] = IF n = 0 THEN <<>> ELSE go(n, M[n - 1])
    BY <1>6
  <2>2. M \in [0..l -> S]
    BY <1>6, <1>7
  <2>3. 0 \in 0..l /\ \A n \in 1..l : n \in 0..l /\ n # 0
    BY <1>1
  <2> QED
    BY <2>1, <2>2, <2>3
<1> QED
  BY <1>1, <1>2, <1>8 DEF M, go, l, S

-----------------------------------------------------------------------------
(* Each step of ParseHosts keeps the types.                                *)

\* What is not changed, the token ParseHosts is in, and the types.
HostsGiven ==
  /\ spec \in Seq(Hosts!Token) /\ file \in Hosts!Config
  /\ Len(file.patterns) \in Nat /\ Len(file.patterns) < MaxInt

InToken(kind) == tok <= Len(spec) /\ Hosts!Here.kind = kind

PlaceInv ==
  /\ phase \in {"range", "panic"} => InToken("range") /\ ~ Hosts!Malformed(Hosts!Here)
  /\ phase = "glob" => InToken("glob") /\ i \in 1..Len(file.patterns) + 1

HostsTypeInv == HostsGiven /\ Hosts!TypeOK /\ PlaceInv

LEMMA HereTyped ==
  ASSUME HostsTypeInv, tok <= Len(spec)
  PROVE  Hosts!Here \in Hosts!Token
<1>1. tok \in 1..Len(spec)
  BY LenProperties DEF HostsTypeInv, HostsGiven, Hosts!TypeOK
<1> QED
  BY <1>1, ElementOfSeq DEF HostsTypeInv, HostsGiven, Hosts!Here

LEMMA HostsTypeStart == Hosts!Init => HostsTypeInv
<1> SUFFICES ASSUME Hosts!Init PROVE HostsTypeInv
  OBVIOUS
<1>1. spec \in Seq(Hosts!Token) /\ file \in Hosts!Config /\ Len(file.patterns) < MaxInt
  BY HostsAssumption DEF Hosts!Init
<1>2. Len(file.patterns) \in Nat
  BY <1>1, LenProperties DEF Hosts!Config
<1>3. 1 \in 1..(Len(spec) + 1)
  BY <1>1, LenProperties
<1>4. 0 \in -(MaxInt + 1)..MaxInt /\ <<>> \in Seq(Hosts!Alias)
  BY HostsAssumption
<1>5. Hosts!TypeOK
  BY <1>3, <1>4 DEF Hosts!Init, Hosts!TypeOK
<1> QED
  BY <1>1, <1>2, <1>5 DEF HostsTypeInv, HostsGiven, PlaceInv, Hosts!Init

\* An error, and going on to the next token, from any token.
LEMMA FailTyped ==
  ASSUME HostsTypeInv, Hosts!Fail, loads' \in Nat
  PROVE  HostsTypeInv'
<1>1. HostsGiven'
  BY DEF HostsTypeInv, HostsGiven, Hosts!Fail
<1>2. <<>> \in Seq(Hosts!Alias)
  BY EmptySeq
<1>3. Hosts!TypeOK'
  BY <1>2 DEF HostsTypeInv, Hosts!TypeOK, Hosts!Fail
<1> QED
  BY <1>1, <1>3 DEF HostsTypeInv, PlaceInv, Hosts!Fail

LEMMA NextTokenTyped ==
  ASSUME HostsTypeInv, Hosts!NextToken, tok <= Len(spec),
         UNCHANGED <<spec, file, i, loads, failed>>, hosts' \in Seq(Hosts!Alias)
  PROVE  HostsTypeInv'
<1>1. HostsGiven'
  BY DEF HostsTypeInv, HostsGiven
<1>2. tok + 1 \in 1..(Len(spec) + 1)
  BY LenProperties DEF HostsTypeInv, HostsGiven, Hosts!TypeOK
<1>3. Hosts!TypeOK'
  BY <1>2 DEF HostsTypeInv, Hosts!TypeOK, Hosts!NextToken
<1> QED
  BY <1>1, <1>3 DEF HostsTypeInv, PlaceInv, Hosts!NextToken

\* expandHostToken keeps to the int type.
LEMMA RangeTyped ==
  HostsTypeInv /\ (Hosts!StartRange \/ Hosts!ExpandNext) => HostsTypeInv'
<1> SUFFICES ASSUME HostsTypeInv, Hosts!StartRange \/ Hosts!ExpandNext PROVE HostsTypeInv'
  OBVIOUS
<1> DEFINE t == Hosts!Here
<1>1. /\ UNCHANGED <<spec, file, tok, loads, failed>>
      /\ InToken("range") /\ ~ Hosts!Malformed(t)
  BY DEF Hosts!StartRange, Hosts!ExpandNext, Hosts!AtToken, InToken, HostsTypeInv, PlaceInv
<1>2. HostsGiven' /\ InToken("range")' /\ ~ Hosts!Malformed(Hosts!Here)'
  BY <1>1 DEF HostsTypeInv, HostsGiven, InToken, Hosts!Here, Hosts!Malformed
<1>3. t \in Hosts!Token /\ t.kind = "range"
  BY <1>1, HereTyped DEF InToken
<1>4. PICK u \in Nat, v \in Nat : u = t.lo.value /\ v = t.hi.value /\ u <= v /\ v <= MaxInt
  BY <1>1, <1>3, TokenTyped, HostsAssumption DEF Hosts!Malformed
<1>5. CASE Hosts!StartRange
  <2>1. i' \in -(MaxInt + 1)..MaxInt /\ hosts' = hosts
    BY <1>4, <1>5, HostsAssumption DEF Hosts!StartRange
  <2>2. phase' \in {"range", "panic"}
    BY <1>5 DEF Hosts!StartRange
  <2>3. Hosts!TypeOK'
    BY <1>1, <2>1, <2>2 DEF Hosts!TypeOK, HostsTypeInv
  <2> QED
    BY <1>2, <2>2, <2>3 DEF HostsTypeInv, PlaceInv
<1>6. CASE Hosts!ExpandNext
  <2>1. /\ phase = "range" /\ phase' = phase /\ i <= v /\ i \in Int /\ -(MaxInt + 1) <= i
        /\ i' = Hosts!Wrap(i + 1)
        /\ hosts' = Append(hosts, Hosts!Numbered(t.name, i, Hosts!Width(t, i)))
        /\ hosts \in Seq(Hosts!Alias)
    BY <1>4, <1>6, HostsAssumption DEF Hosts!ExpandNext, HostsTypeInv, Hosts!TypeOK
  <2>2. Hosts!Wrap(i + 1) \in -(MaxInt + 1)..MaxInt
    BY <1>4, <2>1, HostsAssumption DEF Hosts!Wrap
  <2>3. Hosts!Numbered(t.name, i, Hosts!Width(t, i)) \in Hosts!Alias
    <3>1. t.name \in Name /\ Hosts!Width(t, i) \in Nat
      BY <1>3, <2>1, TokenTyped, WidthIs
    <3> QED
      BY <2>1, <3>1 DEF Hosts!Numbered, Hosts!Alias
  <2>4. hosts' \in Seq(Hosts!Alias)
    BY <2>1, <2>3, AppendProperties
  <2>5. Hosts!TypeOK'
    BY <1>1, <2>1, <2>2, <2>4 DEF Hosts!TypeOK, HostsTypeInv
  <2> QED
    BY <1>2, <2>1, <2>5 DEF HostsTypeInv, PlaceInv
<1> QED
  BY <1>5, <1>6

\* hostAliases keeps to the patterns there are.
LEMMA GlobTyped ==
  HostsTypeInv /\ (Hosts!StartGlob \/ Hosts!MatchAlias) => HostsTypeInv'
<1> SUFFICES ASSUME HostsTypeInv, Hosts!StartGlob \/ Hosts!MatchAlias PROVE HostsTypeInv'
  OBVIOUS
<1>1. InToken("glob") /\ loads' = loads /\ loads \in Nat
  BY DEF Hosts!StartGlob, Hosts!MatchAlias, Hosts!AtToken, InToken, HostsTypeInv, PlaceInv,
         Hosts!TypeOK
<1>2. CASE Hosts!Fail
  BY <1>1, <1>2, FailTyped
<1>3. ASSUME UNCHANGED <<spec, file, tok, failed>>, phase' = "glob",
             i' \in 1..Len(file.patterns) + 1, hosts' \in Seq(Hosts!Alias)
      PROVE  HostsTypeInv'
  <2>1. HostsGiven' /\ InToken("glob")'
    BY <1>1, <1>3 DEF HostsTypeInv, HostsGiven, InToken, Hosts!Here
  <2>2. i' \in -(MaxInt + 1)..MaxInt
    BY <1>3, HostsAssumption DEF HostsTypeInv, HostsGiven
  <2>3. Hosts!TypeOK'
    BY <1>1, <1>3, <2>2 DEF Hosts!TypeOK, HostsTypeInv
  <2>4. i' \in 1..Len(file'.patterns) + 1
    BY <1>3
  <2> QED
    BY <1>3, <2>1, <2>3, <2>4 DEF HostsTypeInv, PlaceInv
<1>4. CASE Hosts!StartGlob
  <2>1. 1 \in 1..Len(file.patterns) + 1
    BY DEF HostsTypeInv, HostsGiven
  <2> QED
    BY <1>3, <1>4, <2>1 DEF Hosts!StartGlob, HostsTypeInv, Hosts!TypeOK
<1>5. CASE Hosts!MatchAlias /\ ~ Hosts!Fail
  <2> DEFINE p == file.patterns[i]
  <2>1. /\ phase = "glob" /\ i <= Len(file.patterns) /\ phase' = phase
        /\ UNCHANGED <<spec, file, tok, failed>> /\ i' = i + 1
        /\ hosts' = IF ~ p.wild /\ p.name \in Hosts!Here.matches
                    THEN Append(hosts, Hosts!Literal(p.name)) ELSE hosts
    BY <1>5 DEF Hosts!MatchAlias
  <2>2. i \in 1..Len(file.patterns) /\ i + 1 \in 1..Len(file.patterns) + 1
    BY <2>1 DEF HostsTypeInv, HostsGiven, PlaceInv
  <2>3. p.name \in Name
    BY <2>2, MatchesAre DEF HostsTypeInv, HostsGiven
  <2>4. Append(hosts, Hosts!Literal(p.name)) \in Seq(Hosts!Alias) /\ hosts \in Seq(Hosts!Alias)
    BY <2>3, LiteralTyped, AppendProperties DEF HostsTypeInv, Hosts!TypeOK
  <2>5. hosts' \in Seq(Hosts!Alias)
    BY <2>1, <2>4
  <2> QED
    BY <1>3, <2>1, <2>2, <2>5
<1> QED
  BY <1>2, <1>4, <1>5

LEMMA HostsTypeKept == HostsTypeInv /\ [Hosts!Next]_hostVars => HostsTypeInv'
<1> SUFFICES ASSUME HostsTypeInv, [Hosts!Next]_hostVars PROVE HostsTypeInv'
  OBVIOUS
<1>1. /\ hosts \in Seq(Hosts!Alias) /\ loads \in Nat
  BY DEF HostsTypeInv, Hosts!TypeOK
<1>2. CASE Hosts!SkipBlank
  BY <1>1, <1>2, NextTokenTyped DEF Hosts!SkipBlank, Hosts!AtToken
<1>3. CASE Hosts!TakeLiteral
  <2>1. tok <= Len(spec) /\ Hosts!Here.kind = "literal"
    BY <1>3 DEF Hosts!TakeLiteral, Hosts!AtToken
  <2>2. Hosts!Literal(Hosts!Here.name) \in Hosts!Alias
    BY <2>1, HereTyped, TokenTyped, LiteralTyped
  <2>3. hosts' \in Seq(Hosts!Alias)
    BY <1>1, <1>3, <2>2, AppendProperties DEF Hosts!TakeLiteral
  <2> QED
    BY <1>3, <2>1, <2>3, NextTokenTyped DEF Hosts!TakeLiteral
<1>4. CASE Hosts!Return
  <2>1. HostsGiven' /\ phase' = "done"
    BY <1>4 DEF Hosts!Return, HostsTypeInv, HostsGiven
  <2>2. Hosts!TypeOK'
    BY <1>4 DEF Hosts!Return, HostsTypeInv, Hosts!TypeOK
  <2> QED
    BY <2>1, <2>2 DEF HostsTypeInv, PlaceInv
<1>5. CASE Hosts!RefuseRange
  BY <1>1, <1>5, FailTyped DEF Hosts!RefuseRange
<1>6. CASE Hosts!RangeDone
  <2>1. tok <= Len(spec)
    BY <1>6 DEF Hosts!RangeDone, HostsTypeInv, PlaceInv, InToken
  <2> QED
    BY <1>1, <1>6, <2>1, NextTokenTyped DEF Hosts!RangeDone
<1>7. CASE Hosts!LoadConfig
  <2>1. CASE Hosts!Fail
    BY <1>7, <2>1, FailTyped DEF Hosts!LoadConfig
  <2>2. CASE UNCHANGED <<spec, file, phase, tok, i, hosts, failed>>
    <3>1. HostsGiven' /\ PlaceInv' /\ loads' \in Nat
      BY <1>7, <2>2 DEF Hosts!LoadConfig, HostsTypeInv, HostsGiven, PlaceInv, InToken,
                        Hosts!Here, Hosts!Malformed, Hosts!AtToken
    <3> QED
      BY <2>2, <3>1 DEF HostsTypeInv, Hosts!TypeOK
  <2> QED
    BY <1>7, <2>1, <2>2 DEF Hosts!LoadConfig
<1>8. CASE Hosts!GlobDone
  <2>1. tok <= Len(spec)
    BY <1>8 DEF Hosts!GlobDone, HostsTypeInv, PlaceInv, InToken
  <2> QED
    BY <1>1, <1>8, <2>1, NextTokenTyped DEF Hosts!GlobDone
<1>9. CASE UNCHANGED hostVars
  <2>1. HostsGiven' /\ PlaceInv'
    BY <1>9 DEF hostVars, HostsTypeInv, HostsGiven, PlaceInv, InToken,
                Hosts!Here, Hosts!Malformed
  <2> QED
    BY <1>9, <2>1 DEF hostVars, HostsTypeInv, Hosts!TypeOK
<1> QED
  BY <1>2, <1>3, <1>4, <1>5, <1>6, <1>7, <1>8, <1>9, RangeTyped, GlobTyped DEF Hosts!Next

LEMMA HostsTypeAlways == ProgramSpec => []HostsTypeInv
<1>1. ProgramInit => HostsTypeInv
  BY HostsTypeStart DEF ProgramInit
<1>2. HostsTypeInv /\ [ProgramNext]_ProgramVars => HostsTypeInv'
  BY HostsTypeKept DEF ProgramNext, ProgramVars
<1> QED
  BY <1>1, <1>2, PTL DEF ProgramSpec

-----------------------------------------------------------------------------
(* Each step of ParseHosts lists what is meant, and nothing else.          *)

\* A sequence is the beginning of another.
Begins(x, y) == \E z \in Seq(Hosts!Alias) : y = x \o z

LEMMA BeginsIsPrefix ==
  ASSUME NEW x \in Seq(Hosts!Alias), NEW y, Begins(x, y)
  PROVE  Hosts!IsPrefix(x, y)
<1>1. PICK z \in Seq(Hosts!Alias) : y = x \o z
  BY DEF Begins
<1>2. PICK l \in Nat, m \in Nat : l = Len(x) /\ m = Len(z)
  BY LenProperties
<1>3. Len(y) = l + m
  BY <1>1, <1>2, ConcatProperties
<1>4. SubSeq(y, 1, l) = SubSeq(x, 1, l)
  <2>1. CASE l = 0
    <3>1. SubSeq(x, 1, l) = <<>> /\ SubSeq(y, 1, l) = <<>>
      BY <2>1, SubSeqEmpty
    <3> QED
      BY <3>1
  <2>2. CASE l # 0
    <3>1. 1 \in 1..Len(x) /\ l \in 1..Len(x)
      BY <1>2, <2>2
    <3> QED
      BY <1>1, <3>1, SubSeqOfConcat1
  <2> QED
    BY <2>1, <2>2
<1> QED
  BY <1>2, <1>3, <1>4 DEF Hosts!IsPrefix

LEMMA BeginsOfBegins ==
  ASSUME NEW x \in Seq(Hosts!Alias), NEW y \in Seq(Hosts!Alias), NEW z, Begins(y, z)
  PROVE  Begins(x \o y, x \o z) /\ Begins(x, x \o y)
<1>1. PICK w \in Seq(Hosts!Alias) : z = y \o w
  BY DEF Begins
<1>2. x \o z = (x \o y) \o w
  BY <1>1, ConcatAssociative
<1> QED
  BY <1>2 DEF Begins

LEMMA Trivially ==
  ASSUME NEW x \in Seq(Hosts!Alias)
  PROVE  Begins(x, x) /\ Begins(<<>>, x)
<1>1. x = x \o <<>> /\ x = <<>> \o x /\ <<>> \in Seq(Hosts!Alias)
  BY ConcatEmptySeq, EmptySeq
<1> QED
  BY <1>1 DEF Begins

\* The first l elements, and one more.
LEMMA OneMore ==
  ASSUME NEW y \in Seq(Hosts!Alias), NEW l \in Nat, l < Len(y),
         NEW x \in Seq(Hosts!Alias)
  PROVE  /\ SubSeq(y, 1, l) \in Seq(Hosts!Alias)
         /\ y[l + 1] \in Hosts!Alias
         /\ Append(x \o SubSeq(y, 1, l), y[l + 1]) = x \o SubSeq(y, 1, l + 1)
<1>1. PICK m \in Nat : m = Len(y)
  BY LenProperties
<1>2. \A n \in 1..l : y[n] \in Hosts!Alias
  BY <1>1, ElementOfSeq
<1>3. SubSeq(y, 1, l) \in Seq(Hosts!Alias)
  BY <1>2, SubSeqProperties
<1>4. l + 1 \in 1..Len(y) /\ 1 \in 1..Len(y) /\ l + 1 \in 1..l + 1 /\ (l + 1) - 1 = l
  BY <1>1
<1>5. y[l + 1] \in Hosts!Alias
  BY <1>4, ElementOfSeq
<1>6. SubSeq(y, 1, l + 1) = SubSeq(y, 1, l) \o <<y[l + 1]>>
  <2>1. l + 1 \in 1..Len(y) /\ 1 \in 1..Len(y)
    BY <1>4
  <2>2. SubSeq(y, 1, l + 1) = SubSeq(y, 1, (l + 1) - 1) \o <<y[l + 1]>>
    BY <1>1, <1>4, SubSeqRecursiveSecond
  <2> QED
    BY <1>4, <2>2
<1>7. <<y[l + 1]>> \in Seq(Hosts!Alias) /\ x \o SubSeq(y, 1, l) \in Seq(Hosts!Alias)
  BY <1>3, <1>5, ConcatProperties
<1>8. Append(x \o SubSeq(y, 1, l), y[l + 1]) = (x \o SubSeq(y, 1, l)) \o <<y[l + 1]>>
  BY <1>5, <1>7, AppendIsConcat
<1>9. (x \o SubSeq(y, 1, l)) \o <<y[l + 1]>> = x \o (SubSeq(y, 1, l) \o <<y[l + 1]>>)
  <2>1. PICK s \in Seq(Hosts!Alias), e \in Seq(Hosts!Alias) :
          s = SubSeq(y, 1, l) /\ e = <<y[l + 1]>>
    BY <1>3, <1>7
  <2>2. (x \o s) \o e = x \o (s \o e)
    BY ConcatAssociative
  <2> QED
    BY <2>1, <2>2
<1> QED
  BY <1>3, <1>5, <1>6, <1>8, <1>9

LEMMA FirstOf ==
  ASSUME NEW y \in Seq(Hosts!Alias), NEW l \in Nat, l <= Len(y)
  PROVE  SubSeq(y, 1, l) \in Seq(Hosts!Alias) /\ Begins(SubSeq(y, 1, l), y)
<1>1. PICK m \in Nat : m = Len(y) /\ l <= m
  BY LenProperties
<1>2. \A n \in Int : n \in 1..m => y[n] \in Hosts!Alias
  BY <1>1, ElementOfSeq
<1>3. SubSeq(y, 1, l) \in Seq(Hosts!Alias) /\ SubSeq(y, l + 1, m) \in Seq(Hosts!Alias)
  BY <1>1, <1>2, SubSeqProperties
<1>4. y = SubSeq(y, 1, l) \o SubSeq(y, l + 1, m)
  <2>1. 1 \in 1..Len(y) + 1 /\ l \in 1 - 1..Len(y) /\ m \in l..Len(y)
    BY <1>1
  <2>2. SubSeq(y, 1, l) \o SubSeq(y, l + 1, m) = SubSeq(y, 1, m)
    BY <2>1, ConcatAdjacentSubSeq
  <2>3. SubSeq(y, 1, m) = y
    BY <1>1, SubSeqFull
  <2> QED
    BY <2>2, <2>3
<1> QED
  BY <1>3, <1>4 DEF Begins

\* What the first patterns of a config match begins what all of them do.
LEMMA MatchesGrow ==
  ASSUME NEW t, NEW c \in Hosts!Config, NEW n \in 0..Len(c.patterns)
  PROVE  Begins(Hosts!MatchesOf(t, c)[n], Hosts!MatchesOf(t, c)[Len(c.patterns)])
<1> DEFINE M == Hosts!MatchesOf(t, c)
           l == Len(c.patterns)
           P == {m \in Nat : m <= l => Begins(M[l - m], M[l])}
<1>1. /\ l \in Nat /\ M \in [0..l -> Seq(Hosts!Alias)]
      /\ \A m \in 1..l : M[m] = M[m - 1]
                         \/ \E x \in Hosts!Alias : M[m] = Append(M[m - 1], x)
  <2>1. \A m \in 1..l : Hosts!Literal(c.patterns[m].name) \in Hosts!Alias
    BY MatchesAre, LiteralTyped
  <2> QED
    BY <2>1, MatchesAre
<1> HIDE DEF M, l
<1>2. 0 \in P
  <2>1. l \in 0..l /\ l - 0 = l
    BY <1>1
  <2> QED
    BY <1>1, <2>1, Trivially
<1>3. ASSUME NEW m \in Nat, m \in P PROVE m + 1 \in P
  <2> SUFFICES ASSUME m + 1 <= l PROVE Begins(M[l - (m + 1)], M[l])
    OBVIOUS
  <2>1. PICK q \in 1..l : q = l - m /\ q - 1 = l - (m + 1) /\ q \in 0..l /\ q - 1 \in 0..l
    BY <1>1
  <2>2. Begins(M[q], M[l])
    BY <1>1, <1>3, <2>1
  <2>3. M[q] \in Seq(Hosts!Alias) /\ M[q - 1] \in Seq(Hosts!Alias)
    BY <1>1, <2>1
  <2>4. CASE M[q] = M[q - 1]
    BY <2>1, <2>2, <2>4
  <2>5. ASSUME NEW x \in Hosts!Alias, M[q] = Append(M[q - 1], x)
        PROVE  Begins(M[q - 1], M[l])
    <3>1. PICK z \in Seq(Hosts!Alias) : M[l] = M[q] \o z
      BY <2>2 DEF Begins
    <3>2. M[q] = M[q - 1] \o <<x>> /\ <<x>> \in Seq(Hosts!Alias)
      BY <2>3, <2>5, AppendIsConcat
    <3>3. PICK s \in Seq(Hosts!Alias), e \in Seq(Hosts!Alias) : s = M[q - 1] /\ e = <<x>>
      BY <2>3, <3>2
    <3>4. (s \o e) \o z = s \o (e \o z)
      BY ConcatAssociative
    <3>5. e \o z \in Seq(Hosts!Alias)
      BY ConcatProperties
    <3>6. M[l] = s \o (e \o z)
      BY <3>1, <3>2, <3>3, <3>4
    <3> QED
      BY <3>3, <3>5, <3>6 DEF Begins
  <2> QED
    BY <1>1, <2>1, <2>4, <2>5
<1> HIDE DEF P
<1>4. Nat \subseteq P
  BY <1>2, <1>3, Inductive
<1>5. n \in 0..l
  BY DEF l
<1>6. PICK m \in Nat : m = l - n /\ m <= l /\ l - m = n
  BY <1>1, <1>5
<1> QED
  BY <1>4, <1>6 DEF P, M, l

\* The expansion of the tokens before the one ParseHosts is at.
Sofar == Hosts!Meaning[tok - 1]

Blamed ==
  \/ Hosts!Here.kind = "range" /\ Hosts!Malformed(Hosts!Here)
  \/ Hosts!Here.kind = "glob" /\ (~ file.readable \/ Hosts!Here.bad)

ListInv ==
  /\ failed => phase = "done" /\ hosts = <<>> /\ tok <= Len(spec) /\ Blamed
  /\ ~ failed /\ phase \in {"token", "panic", "done"} => hosts = Sofar
  /\ ~ failed /\ phase = "done" => tok = Len(spec) + 1
  /\ phase = "range" /\ Hosts!Here.hi.value # MaxInt =>
       /\ Hosts!Here.lo.value <= i /\ i <= Hosts!Here.hi.value + 1
       /\ hosts = Sofar \o SubSeq(Hosts!RangeOf(Hosts!Here), 1, i - Hosts!Here.lo.value)
  /\ phase = "glob" => hosts = Sofar \o Hosts!MatchesOf(Hosts!Here, file)[i - 1]

LoadedInv ==
  /\ loads <= 1
  /\ loads = 1 => \E n \in 1..tok : n <= Len(spec) /\ spec[n].kind = "glob"

ExactInv == HostsTypeInv /\ spec \in Specs /\ ListInv /\ LoadedInv

LEMMA HereMeans ==
  ASSUME HostsTypeInv
  PROVE  /\ Len(spec) \in Nat /\ tok \in 1..Len(spec) + 1 /\ tok - 1 \in 0..Len(spec)
         /\ Sofar \in Seq(Hosts!Alias)
         /\ tok <= Len(spec) => Hosts!Meaning[tok] = Sofar \o Hosts!MeaningOf(Hosts!Here, file)
<1>1. Len(spec) \in Nat /\ tok \in 1..Len(spec) + 1
  BY LenProperties DEF HostsTypeInv, HostsGiven, Hosts!TypeOK
<1>2. tok - 1 \in 0..Len(spec)
  BY <1>1
<1>3. spec \in Seq(Hosts!Token) /\ file \in Hosts!Config
  BY DEF HostsTypeInv, HostsGiven
<1>4. Sofar \in Seq(Hosts!Alias)
  BY <1>2, <1>3, MeaningIs DEF Sofar, Hosts!Meaning
<1>5. ASSUME tok <= Len(spec)
      PROVE  Hosts!Meaning[tok] = Sofar \o Hosts!MeaningOf(Hosts!Here, file)
  <2>1. tok \in 1..Len(spec)
    BY <1>1, <1>5
  <2> QED
    BY <1>3, <2>1, MeaningIs DEF Sofar, Hosts!Meaning, Hosts!Here
<1> QED
  BY <1>1, <1>2, <1>4, <1>5

LEMMA LoadedKept ==
  ASSUME ExactInv, HostsTypeInv', loads' = loads, spec' = spec, tok' >= tok
  PROVE  spec' \in Specs /\ LoadedInv'
<1>1. tok \in Int /\ tok' \in Int
  BY HereMeans DEF ExactInv, HostsTypeInv, Hosts!TypeOK
<1>2. \A n \in 1..tok : n \in 1..tok'
  BY <1>1
<1> QED
  BY <1>2 DEF ExactInv, LoadedInv

\* A token is done with when all it stands for is listed.
LEMMA MovesOn ==
  ASSUME ExactInv, HostsTypeInv', ~ failed, Hosts!NextToken, tok <= Len(spec),
         UNCHANGED <<spec, file, i, loads, failed>>,
         hosts' = Sofar \o Hosts!MeaningOf(Hosts!Here, file)
  PROVE  ExactInv'
<1>1. tok' = tok + 1 /\ tok \in Int /\ phase' = "token"
  BY HereMeans DEF Hosts!NextToken, ExactInv
<1>2. hosts' = Hosts!Meaning[tok]
  BY HereMeans DEF ExactInv
<1>3. Sofar' = Hosts!Meaning[tok]
  <2>1. tok' - 1 = tok
    BY <1>1
  <2> QED
    BY <2>1 DEF Sofar, Hosts!Meaning
<1>4. ListInv'
  BY <1>1, <1>2, <1>3 DEF ListInv
<1>5. tok' >= tok
  BY <1>1
<1> QED
  BY <1>4, <1>5, LoadedKept DEF ExactInv

LEMMA BlamesRightly ==
  ASSUME ExactInv, HostsTypeInv', Hosts!Fail, Blamed, tok <= Len(spec), loads' = loads
  PROVE  ExactInv'
<1>1. ListInv'
  BY DEF Hosts!Fail, ListInv, Blamed, Hosts!Here, Hosts!Malformed
<1>2. tok' >= tok
  BY HereMeans DEF Hosts!Fail, ExactInv
<1> QED
  BY <1>1, <1>2, LoadedKept DEF ExactInv, Hosts!Fail

\* What a token stands for is listed one by one.
LEMMA Listing ==
  ASSUME ExactInv, HostsTypeInv', UNCHANGED <<spec, file, tok, loads, failed>>, ~ failed,
         phase' \in {"range", "panic", "glob"},
         phase' = "panic" => hosts' = Sofar,
         phase' = "range" /\ Hosts!Here.hi.value # MaxInt =>
           /\ Hosts!Here.lo.value <= i' /\ i' <= Hosts!Here.hi.value + 1
           /\ hosts' = Sofar \o SubSeq(Hosts!RangeOf(Hosts!Here), 1, i' - Hosts!Here.lo.value),
         phase' = "glob" => hosts' = Sofar \o Hosts!MatchesOf(Hosts!Here, file)[i' - 1]
  PROVE  ExactInv'
<1>1. Hosts!Here' = Hosts!Here /\ Sofar' = Sofar
  BY DEF Hosts!Here, Sofar, Hosts!Meaning
<1>2. ListInv'
  BY <1>1 DEF ListInv
<1>3. tok' >= tok
  BY HereMeans DEF ExactInv
<1> QED
  BY <1>2, <1>3, LoadedKept DEF ExactInv

\* A range of the specification: its bounds, and what it expands to.
LEMMA RangeHere ==
  ASSUME HostsTypeInv, InToken("range"), ~ Hosts!Malformed(Hosts!Here)
  PROVE  /\ Hosts!Here \in Hosts!Token
         /\ Hosts!Here.lo.value \in Nat /\ Hosts!Here.hi.value \in Nat
         /\ Hosts!Here.lo.value <= Hosts!Here.hi.value /\ Hosts!Here.hi.value <= MaxInt
         /\ Hosts!RangeOf(Hosts!Here) \in Seq(Hosts!Alias)
         /\ Len(Hosts!RangeOf(Hosts!Here)) = Hosts!Here.hi.value - Hosts!Here.lo.value + 1
         /\ Hosts!MeaningOf(Hosts!Here, file) = Hosts!RangeOf(Hosts!Here)
<1>1. Hosts!Here \in Hosts!Token /\ Hosts!Here.kind = "range" /\ file \in Hosts!Config
  BY HereTyped DEF InToken, HostsTypeInv, HostsGiven
<1>2. Hosts!Here.lo.value \in Nat /\ Hosts!Here.hi.value \in Nat
  BY <1>1, TokenTyped
<1>3. Hosts!Here.lo.value <= Hosts!Here.hi.value /\ Hosts!Here.hi.value <= MaxInt
  BY <1>2, HostsAssumption DEF Hosts!Malformed
<1> QED
  BY <1>1, <1>2, <1>3, RangeIs, MeaningOfIs

LEMMA RangeExact ==
  ASSUME ExactInv, HostsTypeInv',
         Hosts!StartRange \/ Hosts!ExpandNext \/ Hosts!RangeDone
  PROVE  ExactInv'
<1> DEFINE t == Hosts!Here
           R == Hosts!RangeOf(t)
<1>1. /\ InToken("range") /\ ~ Hosts!Malformed(t) /\ ~ failed
      /\ UNCHANGED <<spec, file, loads, failed>>
  BY DEF Hosts!StartRange, Hosts!ExpandNext, Hosts!RangeDone, Hosts!AtToken, InToken,
         ExactInv, ListInv, HostsTypeInv, PlaceInv
<1>2. PICK u \in Nat, v \in Nat :
        /\ u = t.lo.value /\ v = t.hi.value /\ u <= v /\ v <= MaxInt
        /\ R \in Seq(Hosts!Alias) /\ Len(R) = v - u + 1
        /\ Hosts!MeaningOf(t, file) = R
  BY <1>1, RangeHere DEF ExactInv
<1>3. Sofar \in Seq(Hosts!Alias) /\ i \in Int
  BY HereMeans, HostsAssumption DEF ExactInv, HostsTypeInv, Hosts!TypeOK
<1>4. CASE Hosts!StartRange
  <2>1. hosts' = Sofar /\ i' = u /\ phase' \in {"range", "panic"} /\ tok' = tok
    BY <1>1, <1>2, <1>4 DEF Hosts!StartRange, Hosts!AtToken, ExactInv, ListInv
  <2>2. SubSeq(R, 1, u - u) = <<>>
    BY SubSeqEmpty
  <2>3. Sofar = Sofar \o SubSeq(R, 1, u - u)
    BY <1>3, <2>2, ConcatEmptySeq
  <2>4. /\ t.lo.value <= i' /\ i' <= t.hi.value + 1
        /\ hosts' = Sofar \o SubSeq(R, 1, i' - t.lo.value)
    <3>1. u <= u /\ u <= v + 1 /\ t.lo.value = u /\ t.hi.value = v
      BY <1>2
    <3>2. hosts' = Sofar \o SubSeq(R, 1, u - u)
      BY <2>1, <2>3
    <3> HIDE DEF t, R
    <3> QED
      BY <2>1, <3>1, <3>2
  <2> QED
    BY <1>1, <2>1, <2>4, Listing
<1>5. CASE Hosts!ExpandNext /\ v = MaxInt
  <2>1. phase' = "range" /\ UNCHANGED <<spec, file, tok, loads, failed>>
    BY <1>5 DEF Hosts!ExpandNext
  <2>2. Hosts!Here.hi.value = MaxInt
    BY <1>2, <1>5
  <2> QED
    BY <1>1, <2>1, <2>2, Listing
<1>6. CASE Hosts!ExpandNext /\ v # MaxInt
  <2>1. /\ phase = "range" /\ phase' = phase /\ tok' = tok
        /\ u <= i /\ i <= v /\ hosts = Sofar \o SubSeq(R, 1, i - u)
        /\ hosts' = Append(hosts, Hosts!Numbered(t.name, i, Hosts!Width(t, i)))
        /\ i' = Hosts!Wrap(i + 1)
    BY <1>2, <1>6 DEF Hosts!ExpandNext, ExactInv, ListInv
  <2>9. /\ v <= MaxInt /\ i \in Int /\ u <= i /\ i <= v /\ Len(R) = v - u + 1
        /\ t.lo.value = u /\ t.hi.value = v
    BY <1>2, <1>3, <2>1
  <2>3. i' = i + 1
    <3>1. i + 1 <= MaxInt
      BY <1>6, <2>9, HostsAssumption
    <3>2. Hosts!Wrap(i + 1) = i + 1
      BY <2>9, <3>1, HostsAssumption DEF Hosts!Wrap
    <3> QED
      BY <2>1, <3>2
  <2>4. PICK l \in Nat : l = i - u /\ l < Len(R)
    <3> HIDE DEF t, R
    <3> QED
      BY <2>9
  <2>5. R[l + 1] = Hosts!Numbered(t.name, i, Hosts!Width(t, i))
    <3>1. t \in Hosts!Token /\ t.kind = "range"
      BY <1>1, RangeHere DEF InToken, ExactInv
    <3>2. R[i - t.lo.value + 1] = Hosts!Numbered(t.name, i, Hosts!Width(t, i))
      BY <1>2, <1>3, <2>1, <3>1, RangeIs
    <3> QED
      BY <1>2, <2>4, <3>2
  <2>6. hosts' = Sofar \o SubSeq(R, 1, l + 1)
    <3>1. Append(Sofar \o SubSeq(R, 1, l), R[l + 1]) = Sofar \o SubSeq(R, 1, l + 1)
      BY <1>2, <1>3, <2>4, OneMore
    <3>2. hosts' = Append(Sofar \o SubSeq(R, 1, l), R[l + 1])
      BY <2>1, <2>4, <2>5
    <3> QED
      BY <3>1, <3>2
  <2>7. /\ t.lo.value <= i' /\ i' <= t.hi.value + 1 /\ i' - t.lo.value = l + 1
    <3> HIDE DEF t, R
    <3> QED
      BY <2>9, <2>3, <2>4
  <2>8. hosts' = Sofar \o SubSeq(R, 1, i' - t.lo.value)
    BY <2>6, <2>7
  <2> QED
    BY <1>1, <2>1, <2>7, <2>8, Listing
<1>7. CASE Hosts!RangeDone
  <2>4. v # MaxInt
    <3>1. i <= MaxInt
      BY HostsAssumption DEF ExactInv, HostsTypeInv, Hosts!TypeOK
    <3>2. i > v
      BY <1>2, <1>7 DEF Hosts!RangeDone
    <3> QED
      BY <1>2, <1>3, <3>1, <3>2
  <2>1. /\ phase = "range" /\ Hosts!NextToken /\ UNCHANGED <<spec, file, i, loads, hosts, failed>>
        /\ i > v /\ i <= v + 1 /\ hosts = Sofar \o SubSeq(R, 1, i - u)
    BY <1>2, <1>7, <2>4 DEF Hosts!RangeDone, ExactInv, ListInv
  <2>2. i - u = Len(R)
    <3>1. Len(R) = v - u + 1 /\ i \in Int /\ i > v /\ i <= v + 1
      BY <1>2, <1>3, <2>1
    <3> HIDE DEF R
    <3> QED
      BY <3>1
  <2>3. hosts' = Sofar \o R
    BY <1>2, <2>1, <2>2, SubSeqFull
  <2> QED
    BY <1>1, <1>2, <2>1, <2>3, MovesOn DEF InToken
<1> QED
  BY <1>4, <1>5, <1>6, <1>7

LEMMA GlobExact ==
  ASSUME ExactInv, HostsTypeInv',
         Hosts!StartGlob \/ Hosts!MatchAlias \/ Hosts!GlobDone
  PROVE  ExactInv'
<1> DEFINE t == Hosts!Here
           M == Hosts!MatchesOf(t, file)
           l == Len(file.patterns)
<1>1. /\ InToken("glob") /\ ~ failed /\ loads' = loads
  BY DEF Hosts!StartGlob, Hosts!MatchAlias, Hosts!GlobDone, Hosts!AtToken, InToken,
         ExactInv, ListInv, HostsTypeInv, PlaceInv
<1>2. /\ t \in Hosts!Token /\ file \in Hosts!Config /\ l \in Nat
      /\ Hosts!MeaningOf(t, file) = M[l]
      /\ Sofar \in Seq(Hosts!Alias)
  <2>1. t \in Hosts!Token /\ t.kind = "glob" /\ file \in Hosts!Config /\ l \in Nat
    BY <1>1, HereTyped DEF InToken, ExactInv, HostsTypeInv, HostsGiven
  <2> QED
    BY <2>1, MeaningOfIs, HereMeans DEF ExactInv
<1>3. CASE Hosts!StartGlob
  <2>1. hosts' = Sofar /\ i' = 1 /\ phase' = "glob" /\ UNCHANGED <<spec, file, tok, failed>>
    BY <1>1, <1>3 DEF Hosts!StartGlob, Hosts!AtToken, ExactInv, ListInv
  <2>2. M[0] = <<>> /\ Sofar \o <<>> = Sofar
    BY <1>2, MatchesAre, ConcatEmptySeq
  <2>3. hosts' = Sofar \o M[i' - 1]
    <3>1. i' - 1 = 0
      BY <2>1
    <3> QED
      BY <2>1, <2>2, <3>1
  <2> QED
    BY <1>1, <2>1, <2>3, Listing
<1>4. CASE Hosts!MatchAlias /\ Hosts!Fail
  <2>1. tok <= Len(spec) /\ t.kind = "glob" /\ hosts' = <<>> /\ phase' = "done"
    BY <1>1, <1>4 DEF InToken, Hosts!Fail
  <2>2. t.bad
    <3> SUFFICES ASSUME ~ t.bad PROVE FALSE
      OBVIOUS
    <3>1. phase = "glob" /\ phase' = phase
      BY <1>4 DEF Hosts!MatchAlias
    <3> QED
      BY <2>1, <3>1
  <2> QED
    BY <1>1, <1>4, <2>1, <2>2, BlamesRightly DEF Blamed
<1>5. CASE Hosts!MatchAlias /\ ~ Hosts!Fail
  <2> DEFINE p == file.patterns[i]
  <2>1. /\ phase = "glob" /\ i <= l /\ phase' = phase
        /\ UNCHANGED <<spec, file, tok, failed>> /\ i' = i + 1
        /\ hosts' = IF ~ p.wild /\ p.name \in t.matches
                    THEN Append(hosts, Hosts!Literal(p.name)) ELSE hosts
        /\ hosts = Sofar \o M[i - 1]
    BY <1>5 DEF Hosts!MatchAlias, ExactInv, ListInv
  <2>2. i \in 1..l /\ i - 1 \in 0..l /\ (i + 1) - 1 = i
    BY <1>2, <2>1 DEF ExactInv, HostsTypeInv, PlaceInv
  <2>3. /\ M[i - 1] \in Seq(Hosts!Alias) /\ p.name \in Name
        /\ M[i] = IF ~ p.wild /\ p.name \in t.matches
                  THEN Append(M[i - 1], Hosts!Literal(p.name)) ELSE M[i - 1]
    <3>1. /\ M \in [0..l -> Seq(Hosts!Alias)]
          /\ \A n \in 1..l : /\ file.patterns[n].name \in Name
                            /\ M[n] = IF ~ file.patterns[n].wild /\ file.patterns[n].name \in t.matches
                                      THEN Append(M[n - 1], Hosts!Literal(file.patterns[n].name))
                                      ELSE M[n - 1]
      BY <1>2, MatchesAre
    <3> HIDE DEF M, l, t
    <3> QED
      BY <2>2, <3>1
  <2>4. Append(Sofar \o M[i - 1], Hosts!Literal(p.name))
          = Sofar \o Append(M[i - 1], Hosts!Literal(p.name))
    <3>1. PICK x \in Seq(Hosts!Alias), y \in Seq(Hosts!Alias), e \in Hosts!Alias :
            x = Sofar /\ y = M[i - 1] /\ e = Hosts!Literal(p.name)
      BY <1>2, <2>3, LiteralTyped
    <3>2. x \o y \in Seq(Hosts!Alias) /\ <<e>> \in Seq(Hosts!Alias)
      BY ConcatProperties
    <3>3. Append(x \o y, e) = (x \o y) \o <<e>> /\ Append(y, e) = y \o <<e>>
      BY <3>2, AppendIsConcat
    <3>4. (x \o y) \o <<e>> = x \o (y \o <<e>>)
      BY <3>2, ConcatAssociative
    <3> QED
      BY <3>1, <3>3, <3>4
  <2>5. hosts' = Sofar \o M[i]
    BY <2>1, <2>3, <2>4
  <2>6. hosts' = Sofar \o M[i' - 1]
    BY <2>1, <2>2, <2>5
  <2> QED
    BY <1>1, <2>1, <2>6, Listing
<1>6. CASE Hosts!GlobDone
  <2>1. /\ phase = "glob" /\ i > l /\ Hosts!NextToken
        /\ UNCHANGED <<spec, file, i, loads, hosts, failed>>
        /\ hosts = Sofar \o M[i - 1]
    BY <1>6 DEF Hosts!GlobDone, ExactInv, ListInv
  <2>2. i - 1 = l
    BY <1>2, <2>1 DEF ExactInv, HostsTypeInv, PlaceInv
  <2> QED
    BY <1>1, <1>2, <2>1, <2>2, MovesOn DEF InToken
<1> QED
  BY <1>3, <1>4, <1>5, <1>6

LEMMA ExactKept ==
  ASSUME ExactInv, [Hosts!Next]_hostVars
  PROVE  ExactInv'
<1>1. HostsTypeInv'
  BY HostsTypeKept DEF ExactInv
<1>2. /\ tok \in Int /\ Sofar \in Seq(Hosts!Alias) /\ file \in Hosts!Config
      /\ tok <= Len(spec) => Hosts!Here \in Hosts!Token
  BY HereMeans, HereTyped DEF ExactInv, HostsTypeInv, HostsGiven
<1>3. CASE Hosts!SkipBlank
  <2>1. tok <= Len(spec) /\ Hosts!Here.kind = "blank" /\ ~ failed /\ hosts' = Sofar
    BY <1>3 DEF Hosts!SkipBlank, Hosts!AtToken, ExactInv, ListInv
  <2>2. hosts' = Sofar \o Hosts!MeaningOf(Hosts!Here, file)
    BY <1>2, <2>1, MeaningOfIs, ConcatEmptySeq
  <2> QED
    BY <1>1, <1>3, <2>1, <2>2, MovesOn DEF Hosts!SkipBlank
<1>4. CASE Hosts!TakeLiteral
  <2>1. /\ tok <= Len(spec) /\ Hosts!Here.kind = "literal" /\ ~ failed
        /\ hosts' = Append(Sofar, Hosts!Literal(Hosts!Here.name))
    BY <1>4 DEF Hosts!TakeLiteral, Hosts!AtToken, ExactInv, ListInv
  <2>2. Hosts!Literal(Hosts!Here.name) \in Hosts!Alias
    BY <1>2, <2>1, TokenTyped, LiteralTyped
  <2>3. hosts' = Sofar \o Hosts!MeaningOf(Hosts!Here, file)
    BY <1>2, <2>1, <2>2, MeaningOfIs, AppendIsConcat
  <2> QED
    BY <1>1, <1>4, <2>1, <2>3, MovesOn DEF Hosts!TakeLiteral
<1>5. CASE Hosts!Return
  <2>1. /\ tok = Len(spec) + 1 /\ ~ failed /\ hosts = Sofar
        /\ phase' = "done" /\ UNCHANGED <<spec, file, tok, loads, hosts, failed>>
    BY <1>5, HereMeans DEF Hosts!Return, ExactInv, ListInv
  <2>2. Sofar' = Sofar
    BY <2>1 DEF Sofar, Hosts!Meaning
  <2>3. ListInv' /\ tok' >= tok
    BY <1>2, <2>1, <2>2 DEF ListInv
  <2> QED
    BY <1>1, <2>1, <2>3, LoadedKept DEF ExactInv
<1>6. CASE Hosts!RefuseRange
  BY <1>1, <1>6, BlamesRightly DEF Hosts!RefuseRange, Hosts!AtToken, Blamed
<1>7. CASE Hosts!LoadConfig
  <2>1. tok <= Len(spec) /\ Hosts!Here.kind = "glob" /\ loads' = 1 /\ spec' = spec
        /\ tok' = tok /\ file' = file /\ ~ failed /\ phase = "token"
    BY <1>7 DEF Hosts!LoadConfig, Hosts!AtToken, Hosts!Fail, ExactInv, ListInv
  <2>2. spec' \in Specs /\ LoadedInv'
    <3>1. tok \in 1..tok
      BY HereMeans DEF ExactInv
    <3> QED
      BY <2>1, <3>1 DEF ExactInv, LoadedInv, Hosts!Here
  <2>3. Sofar' = Sofar /\ Hosts!Here' = Hosts!Here
    BY <2>1 DEF Sofar, Hosts!Meaning, Hosts!Here
  <2>4. ListInv'
    <3>1. CASE file.readable
      BY <1>7, <2>1, <2>3, <3>1 DEF Hosts!LoadConfig, ExactInv, ListInv
    <3>2. CASE ~ file.readable
      BY <1>7, <2>1, <2>3, <3>2 DEF Hosts!LoadConfig, Hosts!Fail, ListInv, Blamed
    <3> QED
      BY <3>1, <3>2
  <2> QED
    BY <1>1, <2>2, <2>4 DEF ExactInv
<1>8. CASE UNCHANGED hostVars
  <2>1. ListInv' /\ LoadedInv' /\ spec' \in Specs
    BY <1>8 DEF hostVars, ExactInv, ListInv, LoadedInv, Sofar, Hosts!Meaning, Hosts!Here,
                Blamed, Hosts!Malformed
  <2> QED
    BY <1>1, <2>1 DEF ExactInv
<1> QED
  BY <1>1, <1>3, <1>4, <1>5, <1>6, <1>7, <1>8, RangeExact, GlobExact DEF Hosts!Next

LEMMA ExactStart == Hosts!Init => ExactInv
<1> SUFFICES ASSUME Hosts!Init PROVE ExactInv
  OBVIOUS
<1>1. HostsTypeInv
  BY HostsTypeStart
<1>2. /\ phase = "token" /\ tok = 1 /\ loads = 0 /\ hosts = <<>> /\ failed = FALSE
      /\ spec \in Specs
  BY DEF Hosts!Init
<1>3. Sofar = <<>>
  <2>1. spec \in Seq(Hosts!Token) /\ file \in Hosts!Config /\ tok - 1 = 0
    BY <1>1, <1>2 DEF HostsTypeInv, HostsGiven
  <2> QED
    BY <2>1, MeaningIs DEF Sofar, Hosts!Meaning
<1> QED
  BY <1>1, <1>2, <1>3 DEF ExactInv, ListInv, LoadedInv

\* On the way the list is a beginning of the expansion.
LEMMA ExactIsExact == ExactInv => HostsExact
<1> SUFFICES ASSUME ExactInv PROVE HostsExact
  OBVIOUS
<1> DEFINE n == IF tok > Len(spec) THEN Len(spec) ELSE tok
           A == Hosts!Meaning
<1>1. /\ Len(spec) \in Nat /\ tok \in 1..Len(spec) + 1 /\ Sofar \in Seq(Hosts!Alias)
      /\ file \in Hosts!Config
      /\ tok <= Len(spec) => A[tok] = Sofar \o Hosts!MeaningOf(Hosts!Here, file)
      /\ tok <= Len(spec) => Hosts!Here \in Hosts!Token
  BY HereMeans, HereTyped DEF ExactInv, HostsTypeInv, HostsGiven
<1>2. tok <= Len(spec) => Hosts!MeaningOf(Hosts!Here, file) \in Seq(Hosts!Alias)
  BY <1>1, MeaningOfIs
<1>3. tok > Len(spec) => tok - 1 = Len(spec) /\ Sofar = A[Len(spec)]
  BY <1>1 DEF Sofar
<1>4. A[n] \in Seq(Hosts!Alias)
  <2>1. CASE tok > Len(spec)
    BY <1>1, <1>3, <2>1
  <2>2. CASE tok <= Len(spec)
    <3>1. n = tok
      BY <1>1, <2>2
    <3>2. Sofar \o Hosts!MeaningOf(Hosts!Here, file) \in Seq(Hosts!Alias)
      BY <1>1, <1>2, <2>2, ConcatProperties
    <3> QED
      BY <1>1, <2>2, <3>1, <3>2
  <2> QED
    BY <1>1, <2>1, <2>2
<1>5. Begins(Sofar, A[n])
  <2>1. CASE tok > Len(spec)
    BY <1>1, <1>3, <2>1, Trivially
  <2>2. CASE tok <= Len(spec)
    <3>1. n = tok
      BY <1>1, <2>2
    <3>2. Begins(Sofar, Sofar \o Hosts!MeaningOf(Hosts!Here, file))
      BY <1>1, <1>2, <2>2, BeginsOfBegins, Trivially
    <3> QED
      BY <1>1, <2>2, <3>1, <3>2
  <2> QED
    BY <1>1, <2>1, <2>2
<1>6. ASSUME ~ Hosts!Endless PROVE hosts \in Seq(Hosts!Alias) /\ Begins(hosts, A[n])
  <2>1. hosts \in Seq(Hosts!Alias) /\ phase \in {"token", "range", "glob", "panic", "done"}
    BY DEF ExactInv, HostsTypeInv, Hosts!TypeOK
  <2>2. CASE failed
    BY <1>4, <2>1, <2>2, Trivially DEF ExactInv, ListInv
  <2>3. CASE ~ failed /\ phase \in {"token", "panic", "done"}
    BY <1>5, <2>1, <2>3 DEF ExactInv, ListInv
  <2>4. CASE phase = "range"
    <3> DEFINE t == Hosts!Here
               R == Hosts!RangeOf(t)
    <3>1. /\ InToken("range") /\ ~ Hosts!Malformed(t)
          /\ t.lo.value <= i /\ i <= t.hi.value + 1
          /\ hosts = Sofar \o SubSeq(R, 1, i - t.lo.value)
      BY <1>6, <2>4 DEF ExactInv, HostsTypeInv, PlaceInv, ListInv, Hosts!Endless
    <3>2. PICK u \in Nat, v \in Nat :
            /\ u = t.lo.value /\ v = t.hi.value /\ u <= v
            /\ R \in Seq(Hosts!Alias) /\ Len(R) = v - u + 1
            /\ Hosts!MeaningOf(t, file) = R
      BY <3>1, RangeHere DEF ExactInv
    <3>3. i \in Int
      BY HostsAssumption DEF ExactInv, HostsTypeInv, Hosts!TypeOK
    <3>4. PICK l \in Nat : l = i - u /\ l <= Len(R)
      BY <3>1, <3>2, <3>3
    <3>5. SubSeq(R, 1, l) \in Seq(Hosts!Alias) /\ Begins(SubSeq(R, 1, l), R)
      BY <3>2, <3>4, FirstOf
    <3>6. Begins(Sofar \o SubSeq(R, 1, l), Sofar \o R)
      BY <1>1, <3>5, BeginsOfBegins
    <3>7. tok <= Len(spec) /\ n = tok
      BY <1>1, <3>1 DEF InToken
    <3> QED
      BY <1>1, <2>1, <3>1, <3>2, <3>4, <3>6, <3>7
  <2>5. CASE phase = "glob"
    <3> DEFINE t == Hosts!Here
               M == Hosts!MatchesOf(t, file)
               l == Len(file.patterns)
    <3>1. /\ InToken("glob") /\ i \in 1..l + 1 /\ l \in Nat
          /\ hosts = Sofar \o M[i - 1]
      BY <2>5 DEF ExactInv, HostsTypeInv, HostsGiven, PlaceInv, ListInv
    <3>2. tok <= Len(spec) /\ n = tok /\ t.kind = "glob" /\ i - 1 \in 0..l
      BY <1>1, <3>1 DEF InToken
    <3>3. M[i - 1] \in Seq(Hosts!Alias) /\ Begins(M[i - 1], M[l])
      BY <1>1, <3>2, MatchesAre, MatchesGrow
    <3>4. Begins(Sofar \o M[i - 1], Sofar \o M[l])
      BY <1>1, <3>3, BeginsOfBegins
    <3>5. Hosts!MeaningOf(t, file) = M[l]
      BY <1>1, <3>2, MeaningOfIs
    <3> QED
      BY <1>1, <2>1, <3>1, <3>2, <3>4, <3>5
  <2> QED
    BY <2>1, <2>2, <2>3, <2>4, <2>5
<1>7. Hosts!Endless \/ Hosts!IsPrefix(hosts, A[n])
  BY <1>6, BeginsIsPrefix
<1>8. phase = "done" /\ ~ failed => hosts = A[Len(spec)]
  BY <1>1, <1>3 DEF ExactInv, ListInv
<1>9. failed => hosts = <<>> /\ Blamed
  BY DEF ExactInv, ListInv
<1> QED
  BY <1>7, <1>8, <1>9 DEF HostsExact, Hosts!HostsExact, ExactInv, LoadedInv, Blamed

LEMMA ExactAlways == ProgramSpec => []ExactInv
<1>1. ProgramInit => ExactInv
  BY ExactStart DEF ProgramInit
<1>2. ExactInv /\ [ProgramNext]_ProgramVars => ExactInv'
  BY ExactKept DEF ProgramNext, ProgramVars
<1> QED
  BY <1>1, <1>2, PTL DEF ProgramSpec

-----------------------------------------------------------------------------
(* The theorems about ParseHosts.                                          *)

\* Both parts of the program are type-correct, whatever the specification: the
\* counter of expandHostToken is an int even when it runs past the largest one,
\* hostAliases stays within the patterns of the config, and no more is listed
\* than aliases.
THEOREM TypesAlways == ProgramSpec => []TypesOK
<1>1. HostsTypeInv /\ TypeOK => TypesOK
  BY DEF HostsTypeInv, TypesOK
<1> QED
  BY <1>1, HostsTypeAlways, ConfigTyped, PTL

\* ParseHosts lists what the specification stands for, in order, each alias as
\* often as it is meant and as wide as it is written, for any tokens, numerals
\* and config; the loop of a range up to the largest int never ends, so that it
\* never returns a wrong list either.
THEOREM HostsExactAlways == ProgramSpec => []HostsExact
<1>1. ExactInv => HostsExact
  BY ExactIsExact
<1> QED
  BY <1>1, ExactAlways, PTL

=============================================================================
