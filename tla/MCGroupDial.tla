----------------------------- MODULE MCGroupDial -----------------------------
(***************************************************************************)
(* Instances of GroupDial for TLC.                                         *)
(***************************************************************************)
EXTENDS GroupDial, TLC

CONSTANTS a, b, c, \* aliases
          j, k     \* ProxyJump specs

Host(proxyJump, forwardAgent) ==
  [proxyJump |-> proxyJump, forwardAgent |-> forwardAgent]

\* The config of a, b and c.
ConfigOf(forA, forB, forC) == (a :> forA) @@ (b :> forB) @@ (c :> forC)

(* Three distinct aliases: two share jump j, the third goes another way.   *)
DistinctLists == {<<a, b, c>>}
DistinctConfigs ==
  {ConfigOf(Host(j, FALSE), Host(j, FALSE), third) :
     third \in {Host(k, FALSE), Host(Direct, FALSE)}}
PoolOptions ==
  [failFast : BOOLEAN, dialConcurrency : {0, 2, 3},
   forwardAgent : {FALSE}, keepAlive : {FALSE}]

(* Duplicated aliases, the empty list, config errors, agents, keepalives.  *)
RepeatedLists == {<<>>, <<a>>, <<a, a>>, <<a, b, a>>}
RepeatedConfigs ==
  {ConfigOf(forA, forB, Host(Direct, FALSE)) :
     forA \in {Host(j, TRUE), Host(GetError, FALSE)},
     forB \in {Host(j, FALSE), Host(Direct, FALSE)}}
RepeatedOptions ==
  [failFast : BOOLEAN, dialConcurrency : {-1, 2},
   forwardAgent : BOOLEAN, keepAlive : BOOLEAN]

(* Every way to call NewSSHGroup that the main run looks at: pools over     *)
(* distinct aliases, and the odd inputs on smaller pools.                  *)
AllLists   == DistinctLists \cup RepeatedLists
AllConfigs == DistinctConfigs \cup RepeatedConfigs
AllOptions == PoolOptions \cup RepeatedOptions

MCInit ==
  /\ Init
  /\ \/ aliases \in DistinctLists /\ config \in DistinctConfigs /\ cfg \in PoolOptions
     \/ aliases \in RepeatedLists /\ config \in RepeatedConfigs /\ cfg \in RepeatedOptions

MCSpec == MCInit /\ [][Next]_vars /\ WF_vars(Next)

(* Two and three aliases of which two are behind one jump.                 *)
PairLists   == {<<a, b>>, <<a, b, c>>}
PairConfigs == {ConfigOf(Host(j, FALSE), Host(j, TRUE), Host(Direct, FALSE))}
PairOptions ==
  [failFast : BOOLEAN, dialConcurrency : {1, 2},
   forwardAgent : {FALSE}, keepAlive : {TRUE}]

=============================================================================
