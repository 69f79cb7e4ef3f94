------------------------------ MODULE MCHostLife ------------------------------
(***************************************************************************)
(* Instances of HostLife for TLC.                                          *)
(***************************************************************************)
EXTENDS HostLife, TLC

CONSTANTS h1, h2, j1, c1, c2 \* hosts, a jump, calls of Close

Symmetry == Permutations(Host) \cup Permutations(Caller)

\* For liveness, which has no symmetry: one host is tunnelled and one is not,
\* and a call of Group.Close and one of Close meet in the tunnelled host.
MeetingInit ==
  /\ Init
  /\ keepAlive
  /\ via = (h1 :> j1) @@ (h2 :> Direct)
  /\ target = (c1 :> Group) @@ (c2 :> h1)

MeetingSpec == MeetingInit /\ [][Next]_vars /\ Fairness

=============================================================================
