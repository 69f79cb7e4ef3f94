------------------------------ MODULE SSHConfig ------------------------------
(***************************************************************************)
(* A program that resolves its host specification (HostSpec) and then      *)
(* makes the client configuration of one of the aliases and connects with  *)
(* it (HostKeys), as NewSSHGroup does for every alias it is given.         *)
(***************************************************************************)
EXTENDS HostKeys

CONSTANTS Name, MaxInt, MaxAlloc, Enough, Specs, ConfigFiles

VARIABLES spec, file, phase, tok, i, loads, hosts, failed

Hosts    == INSTANCE HostSpec
hostVars == <<spec, file, phase, tok, i, loads, hosts, failed>>

(* Aliases and patterns are counted in an int.  A numeral has at least the *)
(* digits its value takes.                                                 *)
ASSUME HostsAssumption ==
  /\ MaxInt \in Nat
  /\ Specs \subseteq Seq(Hosts!Token)
  /\ ConfigFiles \subseteq Hosts!Config
  /\ \A c \in ConfigFiles : Len(c.patterns) < MaxInt

\* There is an alias to connect to.
Resolved == phase = "done" /\ hosts # <<>>

ProgramInit == Hosts!Init /\ Init

ProgramNext ==
  \/ Hosts!Next /\ UNCHANGED keyVars
  \/ Resolved /\ Next /\ UNCHANGED hostVars

ProgramVars == <<hostVars, keyVars>>
ProgramSpec == ProgramInit /\ [][ProgramNext]_ProgramVars

-----------------------------------------------------------------------------
\* Each variable has its type in both parts; the algorithms asked for are types of
\* keys, not another field of the lines they were read from.
TypesOK == Hosts!TypeOK /\ TypeOK

\* ParseHosts lists what the specification stands for (HostSpec.HostsExact).
HostsExact == Hosts!HostsExact

=============================================================================
