------------------------------ MODULE MCGroupRun ------------------------------
(***************************************************************************)
(* Instances of GroupRun for TLC.                                          *)
(***************************************************************************)
EXTENDS GroupRun, TLC

CONSTANTS h1, h2, \* hosts
          n1, n2  \* names

\* Two hosts with names of their own, or with the same name.
PairOrTwins == {(h1 :> n1) @@ (h2 :> n) : n \in {n1, n2}}

=============================================================================
