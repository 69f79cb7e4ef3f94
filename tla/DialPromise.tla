----------------------------- MODULE DialPromise -----------------------------
(***************************************************************************)
(* What NewSSHGroup promises its caller about N aliases, with no mention   *)
(* of jumps, workers or channels: each alias is resolved at most once, the *)
(* call answers once, and the answer says who owns the connections.        *)
(***************************************************************************)
EXTENDS Integers

VARIABLES
  N,        \* how many aliases were asked for
  failFast, \* was FailFast given?
  outcome,  \* of each alias
  owned,    \* aliases whose host connection is open
  verdict   \* the answer of the call

vars == <<N, failFast, outcome, owned, verdict>>

Target    == 1..N
Connected == {i \in Target : outcome[i] = "connected"}
Resolved  == {i \in Target : outcome[i] # "untried"}

Init ==
  /\ N \in Nat
  /\ failFast \in BOOLEAN
  /\ outcome = [i \in Target |-> "untried"]
  /\ owned = {}
  /\ verdict = "pending"

\* When the call may answer with an error: nothing was dialed (the config or a
\* jump failed first); FailFast and the first alias that did not connect
\* failed; or every alias failed.
Hopeless ==
  \/ Resolved = {}
  \/ /\ failFast
     /\ \E i \in Target : /\ outcome[i] = "failed"
                          /\ 1..(i - 1) \subseteq Connected
  \/ Resolved = Target /\ Connected = {}

Resolve(i) ==
  /\ verdict = "pending"
  /\ outcome[i] = "untried"
  /\ \/ /\ outcome' = [outcome EXCEPT ![i] = "connected"]
        /\ owned' = owned \cup {i}
     \/ /\ outcome' = [outcome EXCEPT ![i] = "failed"]
        /\ UNCHANGED owned
  /\ UNCHANGED <<N, failFast, verdict>>

\* A connection is given up only on the way to an error.
Release(i) ==
  /\ verdict = "pending"
  /\ Hopeless
  /\ i \in owned
  /\ owned' = owned \ {i}
  /\ UNCHANGED <<N, failFast, outcome, verdict>>

\* The group owns every connection that was made; with FailFast that is all.
AnswerGroup ==
  /\ verdict = "pending"
  /\ Resolved = Target
  /\ owned = Connected
  /\ IF failFast THEN Connected = Target ELSE N > 0 => Connected # {}
  /\ verdict' = "group"
  /\ UNCHANGED <<N, failFast, outcome, owned>>

\* An error hands over nothing.
AnswerError ==
  /\ verdict = "pending"
  /\ Hopeless
  /\ owned = {}
  /\ verdict' = "error"
  /\ UNCHANGED <<N, failFast, outcome, owned>>

Next ==
  \/ \E i \in Target : Resolve(i) \/ Release(i)
  \/ AnswerGroup
  \/ AnswerError

Spec == Init /\ [][Next]_vars

=============================================================================
