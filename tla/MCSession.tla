------------------------------ MODULE MCSession ------------------------------
(***************************************************************************)
(* Instances of Session for TLC.                                           *)
(***************************************************************************)
EXTENDS Session, TLC

CONSTANTS s1, s2

\* Two calls of Execute, one next to a command, and two commands.
PairsOfKinds ==
  {(s1 :> "execute") @@ (s2 :> "execute"), (s1 :> "execute") @@ (s2 :> "run"),
   (s1 :> "run") @@ (s2 :> "startWait")}

\* One call of Execute.
ExecuteAlone == {(s1 :> "execute")}

=============================================================================
