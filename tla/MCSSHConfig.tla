----------------------------- MODULE MCSSHConfig -----------------------------
(***************************************************************************)
(* A program that resolves its host specification and then dials one of    *)
(* the aliases: HostSpec, then HostKeys.                                   *)
(***************************************************************************)
EXTENDS SSHConfig, TLC

CONSTANTS a, b, node,        \* aliases
          main, other,       \* known_hosts files
          rsa, rsa2, ecdsa, ed \* ssh-rsa, rsa-sha2-*, ecdsa-sha2-*, ssh-ed25519

(* Host specifications: all ranges between numerals of one and two digits  *)
(* with and without a zero before them, the largest int and one above it   *)
(* among them, and mixtures of tokens.                                     *)
Numerals ==
  UNION {{[value |-> v, digits |-> 1 + zeros] : zeros \in 0..1} : v \in {0, 1, 7, 9}}
  \cup UNION {{[value |-> v, digits |-> 2 + zeros] : zeros \in 0..1} : v \in {10, 11, 12, 13}}

RangeToken(lo, hi, brackets) ==
  [kind |-> "range", name |-> node, brackets |-> brackets, lo |-> lo, hi |-> hi]
N(v, d)                   == [value |-> v, digits |-> d]
GlobToken(matches, bad)   == [kind |-> "glob", matches |-> matches, bad |-> bad]

SomeTokens ==
  {[kind |-> "blank"], [kind |-> "literal", name |-> b],
   RangeToken(N(9, 1), N(10, 2), FALSE), RangeToken(N(1, 1), N(2, 1), TRUE),
   GlobToken({a, b}, FALSE), GlobToken({a}, TRUE)}

RangeSpecs == {<<RangeToken(lo, hi, FALSE)>> : lo, hi \in Numerals}
MixedSpecs == UNION {[1..n -> SomeTokens] : n \in 0..3}

AllSpecs   == RangeSpecs \cup MixedSpecs

Pattern(name, wild) == [name |-> name, wild |-> wild]
SomeConfig ==
  [readable |-> TRUE,
   patterns |-> <<Pattern(a, TRUE), Pattern(b, FALSE), Pattern(a, FALSE),
                  Pattern(a, FALSE), Pattern(node, FALSE)>>]
SomeConfigFiles ==
  {SomeConfig,
   [readable |-> FALSE, patterns |-> <<>>],
   [readable |-> TRUE, patterns |-> <<Pattern(a, TRUE)>>]}

-----------------------------------------------------------------------------
(* Known hosts.                                                            *)

Algorithms == {rsa, rsa2, ecdsa, ed}
TypeOfAlgorithm == (rsa :> rsa) @@ (rsa2 :> rsa) @@ (ecdsa :> ecdsa) @@ (ed :> ed)
GoOrderOfAlgorithms == <<ecdsa, rsa2, ed>>

L(kind, host, type, current) ==
  [kind |-> kind, host |-> host, type |-> type, current |-> current]
SomeLines ==
  {L("entry", "exact", type, TRUE) : type \in {rsa, ecdsa, ed}}
  \cup {L("entry", "hashed", ed, TRUE), L("entry", "exact", ed, FALSE),
        L("entry", "wildcard", ecdsa, TRUE), L("entry", "other", ecdsa, TRUE),
        L("revoked", "other", ed, TRUE), L("comment", "other", ed, TRUE),
        L("short", "exact", ed, TRUE), L("garbage", "exact", ed, TRUE)}
Text(lines) == [is |-> "text", lines |-> lines]
Absent      == [is |-> "absent", lines |-> <<>>]
Unreadable  == [is |-> "unreadable", lines |-> <<>>]
Texts(n)    == {Text(lines) : lines \in UNION {[1..m -> SomeLines] : m \in 0..n}}

SomeDisks ==
  {(main :> f) @@ (other :> g) :
     f \in Texts(2) \cup {Absent, Unreadable},
     g \in {Absent, Unreadable, Text(<<L("entry", "exact", ecdsa, TRUE)>>),
            Text(<<L("revoked", "other", ed, TRUE)>>)}}
SomeRewrites ==
  {Absent, Text(<<L("entry", "exact", ecdsa, TRUE)>>),
   Text(<<L("entry", "exact", ed, TRUE), L("revoked", "other", rsa, TRUE)>>),
   Text(<<L("short", "exact", ed, TRUE), L("garbage", "hashed", rsa, TRUE),
          L("entry", "exact", ecdsa, TRUE)>>)}
SomeServers == {{ed}, {rsa2, ecdsa, ed}, {rsa, rsa2}, {rsa2, ed}}
SomeNames   == {<<main, other>>, <<other, main, main>>}

Usual ==
  [noChecking |-> FALSE, faulty |-> "none", agentKeys |-> FALSE, fileKey |-> TRUE,
   hasUser |-> TRUE, defaultTimeout |-> 0,
   connectTimeout |-> [is |-> "unset", seconds |-> 0]]
Timeouts ==
  {[is |-> "text", seconds |-> 0]}
  \cup {[is |-> "number", seconds |-> s] : s \in {-1, 0, 2, 9, 20}}
OddSettings ==
  {[Usual EXCEPT !.noChecking = TRUE], [Usual EXCEPT !.defaultTimeout = 3],
   [Usual EXCEPT !.fileKey = FALSE], [Usual EXCEPT !.hasUser = FALSE],
   [Usual EXCEPT !.fileKey = FALSE, !.agentKeys = TRUE]}
  \cup {[Usual EXCEPT !.connectTimeout = t] : t \in Timeouts}
  \cup {[Usual EXCEPT !.faulty = option] :
          option \in {"StrictHostKeyChecking", "UserKnownHostsFile", "ConnectTimeout",
                      "IdentityFile", "User", "Hostname", "Port"}}
AllSettings == OddSettings \cup {Usual}

-----------------------------------------------------------------------------
(* All specifications with one handshake; one specification with all       *)
(* known_hosts files; the odd settings with one pair of files.             *)
OneSpec == <<[kind |-> "literal", name |-> b]>>
OneDisk == (main :> Text(<<L("entry", "hashed", ed, TRUE)>>)) @@ (other :> Absent)

MCInit ==
  /\ \/ setting = Usual /\ disk = OneDisk /\ server = {ed} /\ named = <<main, other>>
     \/ spec = OneSpec /\ file = SomeConfig /\ setting = Usual
     \/ spec = OneSpec /\ file = SomeConfig /\ disk = OneDisk
  /\ ProgramInit

MCSpec == MCInit /\ [][ProgramNext]_ProgramVars

=============================================================================
