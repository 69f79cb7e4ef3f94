------------------------------- MODULE HostSpec -------------------------------
(***************************************************************************)
(* ParseHosts (ssh_config.go): a host specification is resolved to a list  *)
(* of aliases, token by token.  A range counts from one bound to the other *)
(* in a machine int; a glob is matched against the aliases the SSH config  *)
(* enumerates, one by one; the config is read when the first glob comes    *)
(* up.                                                                     *)
(*                                                                         *)
(* An alias is the token's text, with the number a range put into it: its  *)
(* value and the digits it is written with (no digits, no number).         *)
(***************************************************************************)
EXTENDS Integers, SequencesExt

CONSTANTS
  Name,     \* aliases, and texts around a range
  MaxInt,   \* the largest int
  MaxAlloc, \* make panics for more elements than this
  Enough,   \* bound: a list that grows beyond this is not followed further
  Specs,    \* the host specifications ParseHosts may be called with
  ConfigFiles \* what the config file may hold

VARIABLES
  spec,   \* the tokens of the specification        (never changes)
  file,   \* what is on disk as the config file     (never changes)
  phase,  \* where ParseHosts is
  tok,    \* index of the token it is at
  i,      \* the counter of expandHostToken, or the pattern hostAliases is at
  loads,  \* how often the config file was parsed
  hosts,  \* the aliases appended so far
  failed  \* does it return an error (and nil)?

specVars == <<spec, file, phase, tok, i, loads, hosts, failed>>

\* Decimal digits of n; a bound is written with these or with zeros before them.
Digits[n \in Int] == IF n \in -9..9 THEN 1 ELSE 1 + Digits[n \div 10]
LeadingZero(s)    == s.digits > Digits[s.value]

\* int arithmetic: one past the largest is the smallest.
Wrap(n) == IF n > MaxInt THEN n - 2 * (MaxInt + 1) ELSE n

Literal(name)             == [name |-> name, number |-> 0, digits |-> 0]
Numbered(name, n, digits) == [name |-> name, number |-> n, digits |-> digits]

\* The tokens of a specification, with the bounds of a range as they are written,
\* the names a glob matches and whether filepath.Match rejects its syntax.
Numeral == {n \in [value : Nat, digits : Nat] : n.digits >= Digits[n.value]}
Token ==
  [kind : {"blank"}]
  \cup [kind : {"literal"}, name : Name]
  \cup [kind : {"range"}, name : Name, brackets : BOOLEAN, lo : Numeral, hi : Numeral]
  \cup [kind : {"glob"}, matches : SUBSET Name, bad : BOOLEAN]

\* A config: the patterns of all its Host stanzas, in the order of the file.
Config == [readable : BOOLEAN, patterns : Seq([name : Name, wild : BOOLEAN])]

Alias == [name : Name, number : Int, digits : Nat]

Here  == spec[tok]

Init ==
  /\ spec \in Specs
  /\ file \in ConfigFiles
  /\ phase = "token" /\ tok = 1 /\ i = 0 /\ loads = 0
  /\ hosts = <<>> /\ failed = FALSE

AtToken(kind) == phase = "token" /\ tok <= Len(spec) /\ Here.kind = kind

\* Every error path returns nil in place of the aliases found so far.
Fail ==
  /\ phase' = "done" /\ failed' = TRUE /\ hosts' = <<>>
  /\ UNCHANGED <<spec, file, tok, i>>

NextToken == phase' = "token" /\ tok' = tok + 1

-----------------------------------------------------------------------------
\* splitHostSpec drops it.
SkipBlank ==
  /\ AtToken("blank")
  /\ NextToken
  /\ UNCHANGED <<spec, file, i, loads, hosts, failed>>

TakeLiteral ==
  /\ AtToken("literal")
  /\ hosts' = Append(hosts, Literal(Here.name))
  /\ NextToken
  /\ UNCHANGED <<spec, file, i, loads, failed>>

\* A second range in the token, a bound that is no int, or bounds reversed.
Malformed(t) ==
  \/ t.brackets
  \/ t.lo.value > MaxInt \/ t.hi.value > MaxInt
  \/ t.lo.value > t.hi.value

RefuseRange == AtToken("range") /\ Malformed(Here) /\ Fail /\ UNCHANGED loads

\* make([]string, 0, hi-lo+1) wants a capacity it can have.
StartRange ==
  /\ AtToken("range") /\ ~ Malformed(Here)
  /\ i' = Here.lo.value
  /\ phase' = IF Wrap(Here.hi.value - Here.lo.value + 1) \in 0..MaxAlloc
              THEN "range" ELSE "panic"
  /\ UNCHANGED <<spec, file, tok, loads, hosts, failed>>

\* Mutant: the width is that of the lower bound.
WidthOfLo(t, n) ==
  IF LeadingZero(t.lo) \/ LeadingZero(t.hi)
  THEN IF t.lo.digits > Digits[n] THEN t.lo.digits ELSE Digits[n]
  ELSE Digits[n]

\* %0*d pads to the longer bound when either has a leading zero.
Width(t, n) ==
  IF LeadingZero(t.lo) \/ LeadingZero(t.hi)
  THEN Max({t.lo.digits, t.hi.digits, Digits[n]})
  ELSE Digits[n]

ExpandNext ==
  /\ phase = "range" /\ i <= Here.hi.value
  /\ Len(hosts) < Enough
  /\ hosts' = Append(hosts, Numbered(Here.name, i, Width(Here, i)))
  /\ i' = Wrap(i + 1)
  /\ UNCHANGED <<spec, file, phase, tok, loads, failed>>

RangeDone ==
  /\ phase = "range" /\ i > Here.hi.value
  /\ NextToken
  /\ UNCHANGED <<spec, file, i, loads, hosts, failed>>

\* resolveSSHConfigFile and ParseSSHConfig, once: no home directory, no such
\* file, or one that cannot be decoded.
LoadConfig ==
  /\ AtToken("glob") /\ loads = 0
  /\ loads' = 1
  /\ IF file.readable
     THEN UNCHANGED <<spec, file, phase, tok, i, hosts, failed>>
     ELSE Fail

\* hostAliases goes through the patterns of the file.
StartGlob ==
  /\ AtToken("glob") /\ loads > 0
  /\ phase' = "glob" /\ i' = 1
  /\ UNCHANGED <<spec, file, tok, loads, hosts, failed>>

\* A wildcard names no alias.  filepath.Match looks at the glob only when there
\* is an alias to match it with.
MatchAlias ==
  /\ phase = "glob" /\ i <= Len(file.patterns)
  /\ IF ~ file.patterns[i].wild /\ Here.bad
     THEN Fail
     ELSE /\ hosts' = IF ~ file.patterns[i].wild /\ file.patterns[i].name \in Here.matches
                      THEN Append(hosts, Literal(file.patterns[i].name)) ELSE hosts
          /\ i' = i + 1
          /\ UNCHANGED <<spec, file, phase, tok, failed>>
  /\ UNCHANGED loads

GlobDone ==
  /\ phase = "glob" /\ i > Len(file.patterns)
  /\ NextToken
  /\ UNCHANGED <<spec, file, i, loads, hosts, failed>>

Return ==
  /\ phase = "token" /\ tok > Len(spec)
  /\ phase' = "done"
  /\ UNCHANGED <<spec, file, tok, i, loads, hosts, failed>>

Next ==
  \/ SkipBlank \/ TakeLiteral \/ Return
  \/ RefuseRange \/ StartRange \/ ExpandNext \/ RangeDone
  \/ LoadConfig \/ StartGlob \/ MatchAlias \/ GlobDone

Spec == Init /\ [][Next]_specVars

-----------------------------------------------------------------------------
TypeOK ==
  /\ phase \in {"token", "range", "glob", "panic", "done"}
  /\ tok \in 1..(Len(spec) + 1)
  /\ i \in -(MaxInt + 1)..MaxInt
  /\ loads \in Nat
  /\ hosts \in Seq(Alias)
  /\ failed \in BOOLEAN

(* What a token stands for.  A range between numerals of one length is the *)
(* numbers between them, all written with that length; otherwise they are  *)
(* as long as the longer bound, if one is padded, or unpadded.             *)
RangeOf(t) ==
  [k \in 1..(t.hi.value - t.lo.value + 1) |->
     LET n == t.lo.value + k - 1
     IN  Numbered(t.name, n,
                  IF t.lo.digits = t.hi.digits \/ LeadingZero(t.lo) \/ LeadingZero(t.hi)
                  THEN Max({t.lo.digits, t.hi.digits}) ELSE Digits[n])]

\* Of the first n patterns of config c, the aliases that glob t matches.
MatchesOf(t, c) ==
  LET m[n \in 0..Len(c.patterns)] ==
        IF n = 0 THEN <<>>
        ELSE IF ~ c.patterns[n].wild /\ c.patterns[n].name \in t.matches
             THEN Append(m[n - 1], Literal(c.patterns[n].name)) ELSE m[n - 1]
  IN  m

MeaningOf(t, c) ==
  CASE t.kind = "blank"   -> <<>>
    [] t.kind = "literal" -> <<Literal(t.name)>>
    [] t.kind = "range"   -> IF Malformed(t) THEN <<>> ELSE RangeOf(t)
    [] t.kind = "glob"    -> MatchesOf(t, c)[Len(c.patterns)]

\* What the first n tokens of specification s stand for.
MeaningOfFirst(s, c) ==
  LET m[n \in 0..Len(s)] == IF n = 0 THEN <<>> ELSE m[n - 1] \o MeaningOf(s[n], c)
  IN  m

Meaning == MeaningOfFirst(spec, file)

\* A range up to the largest int: its counter never exceeds the bound, so that
\* the loop goes on behind it and does not end.
Endless == phase = "range" /\ Here.hi.value = MaxInt

\* ParseHosts never lists an alias the specification does not stand for, not
\* even on the way, but for a range up to the largest int: the list is always
\* a beginning of the expansion, what it returns is all of it, in order, each
\* alias as often as it is meant; an error returns nothing and blames a token
\* that is wrong, or a config that cannot be read; the config is parsed at most
\* once and only for a glob.
HostsExact ==
  /\ Endless \/ IsPrefix(hosts, Meaning[IF tok > Len(spec) THEN Len(spec) ELSE tok])
  /\ phase = "done" /\ ~ failed => hosts = Meaning[Len(spec)]
  /\ failed => /\ hosts = <<>>
               /\ \/ Here.kind = "range" /\ Malformed(Here)
                  \/ Here.kind = "glob" /\ (~ file.readable \/ Here.bad)
  /\ loads <= 1
  /\ loads = 1 => \E k \in 1..tok : k <= Len(spec) /\ spec[k].kind = "glob"

=============================================================================
