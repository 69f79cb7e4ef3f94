---------------------------- MODULE GroupRunProofs ----------------------------
(***************************************************************************)
(* Theorems about GroupRun, for any hosts, names, runs and handlers.       *)
(***************************************************************************)
EXTENDS GroupRun, SequenceTheorems, FiniteSetTheorems, TLAPS

Entries(list)  == {list[i] : i \in DOMAIN list}
Distinct(list) == \A i, j \in DOMAIN list : list[i] = list[j] => i = j

Busy       == {"handling", "appending"}
Collecting == {"shared", "collect"}

\* A task has an outcome when it has ended; the handler's host is one that failed
\* and was received; and a Run that returned has received from every host.
TaskInv ==
  /\ \A r \in Run, h \in Host : outcome[r][h] = "none" <=> task[r][h] = "running"
  /\ \A r \in Run : caller[r] \in Busy =>
       /\ failing[r] \in Host
       /\ task[r][failing[r]] = "done" /\ outcome[r][failing[r]] = "error"
  /\ \A r \in Run : caller[r] = "returned" => \A h \in Host : task[r][h] = "done"

\* e.mu: whoever appends to a collector is alone, and what it has read is still
\* what the collector holds.
LockInv ==
  /\ \A r \in Run : caller[r] = "appending" =>
       kind[r] \in Collecting /\ old[r] = errs[CollectorOf(r)]
  /\ \A q, r \in Run :
       caller[q] = "appending" /\ caller[r] = "appending"
       /\ CollectorOf(q) = CollectorOf(r) => q = r

\* Has the handler of r been through with the error of h?
Handled(r, h) ==
  /\ task[r][h] = "done" /\ outcome[r][h] = "error"
  /\ ~ (caller[r] \in Busy /\ failing[r] = h)

\* A collector holds the errors its handlers have been through with, each once.
ErrsInv ==
  /\ \A r \in Run : kind[r] \in Collecting =>
       \A h \in Host : <<r, h>> \in Entries(errs[CollectorOf(r)]) <=> Handled(r, h)
  /\ \A c \in Collector : Distinct(errs[c])

\* Collect's map at every moment, not only when its Run has returned.
MapInv ==
  /\ DOMAIN results = Run
  /\ \A r \in Run : kind[r] = "collect" =>
       /\ DOMAIN results[r] = {nameOf[h] : h \in {g \in Host : outcome[r][g] = "ok"}}
       /\ \A n \in DOMAIN results[r] :
            /\ nameOf[results[r][n]] = n
            /\ outcome[r][results[r][n]] = "ok"

IndInv == TypeOK /\ TaskInv /\ LockInv /\ ErrsInv /\ MapInv

\* What appending to a sequence does to its entries: it adds one, and they stay
\* apart if that one is new.
LEMMA AppendEntries ==
  ASSUME NEW S, NEW list \in Seq(S), NEW e \in S
  PROVE  /\ Entries(Append(list, e)) = Entries(list) \cup {e}
         /\ Distinct(list) /\ e \notin Entries(list) => Distinct(Append(list, e))
<1> DEFINE longer == Append(list, e)
<1>1. /\ DOMAIN list = 1..Len(list) /\ Len(list) \in Nat
      /\ DOMAIN longer = 1..Len(list) + 1
      /\ \A i \in 1..Len(list) : longer[i] = list[i]
      /\ longer[Len(list) + 1] = e
  BY AppendProperties, LenProperties
<1> HIDE DEF longer
<1>2. Entries(longer) = Entries(list) \cup {e}
  <2>1. ASSUME NEW x \in Entries(longer) PROVE x \in Entries(list) \cup {e}
    <3>1. PICK i \in 1..Len(list) + 1 : x = longer[i]
      BY <1>1 DEF Entries
    <3>2. i \in 1..Len(list) \/ i = Len(list) + 1
      BY <1>1
    <3> QED
      BY <1>1, <3>1, <3>2 DEF Entries
  <2>2. ASSUME NEW x \in Entries(list) PROVE x \in Entries(longer)
    <3>1. PICK i \in 1..Len(list) : x = list[i]
      BY <1>1 DEF Entries
    <3>2. i \in 1..Len(list) + 1 /\ x = longer[i]
      BY <1>1, <3>1
    <3> QED
      BY <1>1, <3>2 DEF Entries
  <2>3. e \in Entries(longer)
    <3>1. Len(list) + 1 \in 1..Len(list) + 1
      BY <1>1
    <3> QED
      BY <1>1, <3>1 DEF Entries
  <2> QED
    BY <2>1, <2>2, <2>3
<1>3. ASSUME Distinct(list), e \notin Entries(list) PROVE Distinct(longer)
  <2>1. \A i \in 1..Len(list) : list[i] # e
    BY <1>1, <1>3 DEF Entries
  <2>2. ASSUME NEW i \in 1..Len(list) + 1, NEW j \in 1..Len(list) + 1,
               longer[i] = longer[j]
        PROVE  i = j
    <3>1. (i \in 1..Len(list) \/ i = Len(list) + 1) /\ (j \in 1..Len(list) \/ j = Len(list) + 1)
      BY <1>1
    <3> QED
      BY <1>1, <1>3, <2>1, <2>2, <3>1 DEF Distinct
  <2> QED
    BY <1>1, <2>2 DEF Distinct
<1> QED
  BY <1>2, <1>3 DEF longer

\* Every step keeps the types.
LEMMA NextType == IndInv /\ [Next]_vars => TypeOK'
<1> SUFFICES ASSUME IndInv, [Next]_vars PROVE TypeOK'
  OBVIOUS
<1> USE DEF IndInv, TypeOK, TaskInv, LockInv, MapInv, CollectorOf, Collector,
    Store, Leave, Busy
<1>1. CASE UNCHANGED vars
  BY <1>1 DEF vars
<1>2. ASSUME NEW r \in Run, NEW h \in Host, NEW o \in {"ok", "error"}, TaskEnds(r, h, o)
      PROVE  TypeOK'
  <2>1. task' \in [Run -> [Host -> {"running", "sending", "done"}]]
    BY <1>2 DEF TaskEnds
  <2>2. outcome' \in [Run -> [Host -> {"none", "ok", "error"}]]
    BY <1>2 DEF TaskEnds
  <2>3. results' = results \/ Store(r, h)
    BY <1>2, Zenon DEF TaskEnds
  <2>4. ASSUME NEW q \in Run
        PROVE  /\ DOMAIN results'[q] \subseteq Name
               /\ \A n \in DOMAIN results'[q] : results'[q][n] \in Host
    <3>1. nameOf[h] \in Name
      BY RunAssumption
    <3>2. CASE results'[q] = results[q]
      BY <3>2
    <3>3. CASE results'[q] = [n \in DOMAIN results[q] \cup {nameOf[h]} |->
                                IF n = nameOf[h] THEN h ELSE results[q][n]]
      BY <3>1, <3>3
    <3>4. CASE results' = results
      BY <3>2, <3>4
    <3>5. CASE Store(r, h)
      <4>1. q # r => results'[q] = results[q]
        BY <3>5
      <4>2. q = r => results'[q] = [n \in DOMAIN results[q] \cup {nameOf[h]} |->
                                      IF n = nameOf[h] THEN h ELSE results[q][n]]
        BY <3>5
      <4> HIDE DEF IndInv, Store
      <4> QED
        BY <3>2, <3>3, <4>1, <4>2
    <3> HIDE DEF IndInv, Store
    <3> QED
      BY <2>3, <3>4, <3>5
  <2>5. UNCHANGED <<nameOf, kind, caller, failing, old, ctx, errs>>
    BY <1>2 DEF TaskEnds
  <2>6. TypeOK
    OBVIOUS
  <2> HIDE DEF IndInv, TypeOK, Store
  <2> QED
    BY <2>1, <2>2, <2>4, <2>5, <2>6 DEF TypeOK
<1>3. ASSUME NEW r \in Run, NEW h \in Host, Receive(r, h)
      PROVE  TypeOK'
  <2>1. task' \in [Run -> [Host -> {"running", "sending", "done"}]]
    BY <1>3 DEF Receive
  <2>2. \/ caller' = [caller EXCEPT ![r] = "handling"] /\ failing' = [failing EXCEPT ![r] = h]
        \/ UNCHANGED <<caller, failing>>
    BY <1>3, Zenon DEF Receive
  <2>3. UNCHANGED <<nameOf, kind, outcome, old, ctx, results, errs>>
    BY <1>3 DEF Receive
  <2>4. /\ caller' \in [Run -> {"receiving", "handling", "appending", "returned", "panicked"}]
        /\ failing' \in [Run -> Host \cup {Nobody}]
    <3>1. CASE caller' = [caller EXCEPT ![r] = "handling"] /\ failing' = [failing EXCEPT ![r] = h]
      BY <3>1
    <3>2. CASE UNCHANGED <<caller, failing>>
      BY <3>2
    <3> HIDE DEF IndInv
    <3> QED
      BY <2>2, <3>1, <3>2
  <2> HIDE DEF IndInv
  <2>5. TypeOK
    BY DEF IndInv
  <2> HIDE DEF TypeOK
  <2> QED
    BY <2>1, <2>3, <2>4, <2>5 DEF TypeOK
<1>4. ASSUME NEW r \in Run, RunReturns(r)
      PROVE  TypeOK'
  BY <1>4 DEF RunReturns
<1>5. ASSUME NEW r \in Run, Panic(r)
      PROVE  TypeOK'
  BY <1>5 DEF Panic
<1>6. ASSUME NEW r \in Run, Ignore(r)
      PROVE  TypeOK'
  BY <1>6 DEF Ignore
<1>7. ASSUME NEW r \in Run, LockErrs(r)
      PROVE  TypeOK'
  BY <1>7 DEF LockErrs
<1>8. ASSUME NEW r \in Run, AppendErr(r)
      PROVE  TypeOK'
  BY <1>8 DEF AppendErr
<1>9. ASSUME NEW r \in Run, Expire(r)
      PROVE  TypeOK'
  BY <1>9 DEF Expire
<1> HIDE DEF IndInv, TypeOK
<1> QED
  BY <1>1, <1>2, <1>3, <1>4, <1>5, <1>6, <1>7, <1>8, <1>9 DEF Next, TaskStep,
     CallerStep

\* Every step keeps outcomes and the handler's host in step with the tasks.
LEMMA NextTask == IndInv /\ [Next]_vars => TaskInv'
<1> SUFFICES ASSUME IndInv, [Next]_vars PROVE TaskInv'
  OBVIOUS
<1> USE DEF IndInv, TypeOK, TaskInv, Store, Leave, Busy
<1>1. CASE UNCHANGED vars
  BY <1>1 DEF vars
<1>2. ASSUME NEW r \in Run, NEW h \in Host, NEW o \in {"ok", "error"}, TaskEnds(r, h, o)
      PROVE  TaskInv'
  BY <1>2 DEF TaskEnds
<1>3. ASSUME NEW r \in Run, NEW h \in Host, Receive(r, h)
      PROVE  TaskInv'
  BY <1>3 DEF Receive
<1>4. ASSUME NEW r \in Run, RunReturns(r)
      PROVE  TaskInv'
  <2>1. Received(r) = Host
    <3>1. Received(r) \in SUBSET Host /\ IsFiniteSet(Host)
      BY RunAssumption DEF Received
    <3> QED
      BY <1>4, <3>1, FS_Subset DEF RunReturns
  <2>2. \A h \in Host : task[r][h] = "done"
    BY <2>1 DEF Received
  <2> QED
    BY <1>4, <2>2 DEF RunReturns
<1>5. ASSUME NEW r \in Run, Panic(r)
      PROVE  TaskInv'
  BY <1>5 DEF Panic
<1>6. ASSUME NEW r \in Run, Ignore(r)
      PROVE  TaskInv'
  BY <1>6 DEF Ignore
<1>7. ASSUME NEW r \in Run, LockErrs(r)
      PROVE  TaskInv'
  BY <1>7 DEF LockErrs
<1>8. ASSUME NEW r \in Run, AppendErr(r)
      PROVE  TaskInv'
  BY <1>8 DEF AppendErr
<1>9. ASSUME NEW r \in Run, Expire(r)
      PROVE  TaskInv'
  BY <1>9 DEF Expire
<1> QED
  BY <1>1, <1>2, <1>3, <1>4, <1>5, <1>6, <1>7, <1>8, <1>9 DEF Next, TaskStep,
     CallerStep

\* Every step keeps the collectors' locks.
LEMMA NextLock == IndInv /\ [Next]_vars => LockInv'
<1> SUFFICES ASSUME IndInv, [Next]_vars PROVE LockInv'
  OBVIOUS
<1> USE DEF IndInv, TypeOK, LockInv, CollectorOf, Collecting, Store, Leave
<1>1. CASE UNCHANGED vars
  BY <1>1 DEF vars
<1>2. ASSUME NEW r \in Run, NEW h \in Host, NEW o \in {"ok", "error"}, TaskEnds(r, h, o)
      PROVE  LockInv'
  BY <1>2 DEF TaskEnds
<1>3. ASSUME NEW r \in Run, NEW h \in Host, Receive(r, h)
      PROVE  LockInv'
  BY <1>3 DEF Receive
<1>4. ASSUME NEW r \in Run, RunReturns(r)
      PROVE  LockInv'
  BY <1>4 DEF RunReturns
<1>5. ASSUME NEW r \in Run, Panic(r)
      PROVE  LockInv'
  BY <1>5 DEF Panic
<1>6. ASSUME NEW r \in Run, Ignore(r)
      PROVE  LockInv'
  BY <1>6 DEF Ignore
<1>7. ASSUME NEW r \in Run, LockErrs(r)
      PROVE  LockInv'
  BY <1>7 DEF LockErrs
<1>8. ASSUME NEW r \in Run, AppendErr(r)
      PROVE  LockInv'
  BY <1>8 DEF AppendErr
<1>9. ASSUME NEW r \in Run, Expire(r)
      PROVE  LockInv'
  BY <1>9 DEF Expire
<1> QED
  BY <1>1, <1>2, <1>3, <1>4, <1>5, <1>6, <1>7, <1>8, <1>9 DEF Next, TaskStep,
     CallerStep

\* Every step keeps the collectors complete and free of doubles.
LEMMA NextErrs == IndInv /\ [Next]_vars => ErrsInv'
<1> SUFFICES ASSUME IndInv, [Next]_vars PROVE ErrsInv'
  OBVIOUS
<1> USE DEF IndInv, TypeOK, TaskInv, LockInv, ErrsInv, Handled, CollectorOf,
    Collector, Collecting, Store, Leave, Busy
<1>1. CASE UNCHANGED vars
  BY <1>1 DEF vars
<1>2. ASSUME NEW r \in Run, NEW h \in Host, NEW o \in {"ok", "error"}, TaskEnds(r, h, o)
      PROVE  ErrsInv'
  BY <1>2 DEF TaskEnds
<1>3. ASSUME NEW r \in Run, NEW h \in Host, Receive(r, h)
      PROVE  ErrsInv'
  BY <1>3 DEF Receive
<1>4. ASSUME NEW r \in Run, RunReturns(r)
      PROVE  ErrsInv'
  BY <1>4 DEF RunReturns
<1>5. ASSUME NEW r \in Run, Panic(r)
      PROVE  ErrsInv'
  BY <1>5 DEF Panic
<1>6. ASSUME NEW r \in Run, Ignore(r)
      PROVE  ErrsInv'
  BY <1>6 DEF Ignore
<1>7. ASSUME NEW r \in Run, LockErrs(r)
      PROVE  ErrsInv'
  BY <1>7 DEF LockErrs
<1>8. ASSUME NEW r \in Run, AppendErr(r)
      PROVE  ErrsInv'
  <2> DEFINE c == CollectorOf(r)
             e == <<r, failing[r]>>
  <2>1. /\ kind[r] \in Collecting /\ c \in Collector
        /\ e \in Run \X Host /\ errs[c] \in Seq(Run \X Host)
        /\ errs' = [errs EXCEPT ![c] = Append(errs[c], e)]
    BY <1>8 DEF AppendErr
  <2>2. e \notin Entries(errs[c])
    BY <1>8, <2>1 DEF AppendErr
  <2>3. /\ Entries(errs'[c]) = Entries(errs[c]) \cup {e}
        /\ Distinct(errs'[c])
    <3>1. errs'[c] = Append(errs[c], e)
      BY <2>1
    <3>2. Distinct(errs[c])
      BY <2>1
    <3> HIDE DEF c, e
    <3> QED
      BY <2>1, <2>2, <3>1, <3>2, AppendEntries
  <2>4. \A d \in Collector \ {c} : errs'[d] = errs[d]
    BY <2>1
  <2>5. /\ caller' = [caller EXCEPT ![r] = "receiving"] /\ caller[r] = "appending"
        /\ UNCHANGED <<kind, task, outcome, failing>>
    BY <1>8 DEF AppendErr
  <2>6. ASSUME NEW q \in Run, kind[q] \in Collecting, NEW h \in Host
        PROVE  <<q, h>> \in Entries(errs'[CollectorOf(q)]) <=> Handled(q, h)'
    <3>1. <<q, h>> \in Entries(errs[CollectorOf(q)]) <=> Handled(q, h)
      BY <2>6
    <3>2. Handled(q, h)' <=> Handled(q, h) \/ <<q, h>> = e
      BY <2>5
    <3>3. CollectorOf(q) \in Collector
      OBVIOUS
    <3>4. CASE CollectorOf(q) = c
      BY <2>3, <3>1, <3>2, <3>4
    <3>5. CASE CollectorOf(q) # c
      <4>1. q # r
        BY <3>5
      <4> QED
        BY <2>4, <3>1, <3>2, <3>3, <3>5, <4>1
    <3> QED
      BY <3>4, <3>5
  <2>7. \A d \in Collector : Distinct(errs'[d])
    BY <2>3, <2>4
  <2> QED
    BY <2>5, <2>6, <2>7
<1>9. ASSUME NEW r \in Run, Expire(r)
      PROVE  ErrsInv'
  BY <1>9 DEF Expire
<1> QED
  BY <1>1, <1>2, <1>3, <1>4, <1>5, <1>6, <1>7, <1>8, <1>9 DEF Next, TaskStep,
     CallerStep

\* Every step keeps Collect's map exact.
LEMMA NextMap == IndInv /\ [Next]_vars => MapInv'
<1> SUFFICES ASSUME IndInv, [Next]_vars PROVE MapInv'
  OBVIOUS
<1> USE DEF IndInv, TypeOK, TaskInv, MapInv, Store, Leave
<1>1. CASE UNCHANGED vars
  BY <1>1 DEF vars
<1>2. ASSUME NEW r \in Run, NEW h \in Host, NEW o \in {"ok", "error"}, TaskEnds(r, h, o)
      PROVE  MapInv'
  <2>1. /\ outcome' = [outcome EXCEPT ![r][h] = o] /\ outcome[r][h] = "none"
        /\ UNCHANGED <<nameOf, kind>>
    BY <1>2 DEF TaskEnds
  <2>2. results' = results \/ Store(r, h)
    BY <1>2, Zenon DEF TaskEnds
  <2>3. DOMAIN results' = Run
    BY <2>2
  <2>4. ASSUME NEW q \in Run, kind[q] = "collect"
        PROVE  /\ DOMAIN results'[q] =
                    {nameOf[g] : g \in {x \in Host : outcome'[q][x] = "ok"}}
               /\ \A n \in DOMAIN results'[q] :
                    /\ nameOf[results'[q][n]] = n
                    /\ outcome'[q][results'[q][n]] = "ok"
    <3>1. CASE q # r \/ o = "error"
      <4>1. results'[q] = results[q]
        BY <1>2, <2>4, <3>1 DEF TaskEnds
      <4>2. \A g \in Host : outcome'[q][g] = "ok" <=> outcome[q][g] = "ok"
        BY <2>1, <3>1
      <4>3. \A n \in DOMAIN results[q] : results[q][n] \in Host
        OBVIOUS
      <4>4. {x \in Host : outcome'[q][x] = "ok"} = {x \in Host : outcome[q][x] = "ok"}
        BY <4>2
      <4>5. DOMAIN results'[q] =
              {nameOf[g] : g \in {x \in Host : outcome'[q][x] = "ok"}}
        BY <2>1, <2>4, <4>1, <4>4
      <4>6. ASSUME NEW n \in DOMAIN results'[q]
            PROVE  nameOf[results'[q][n]] = n /\ outcome'[q][results'[q][n]] = "ok"
        BY <2>1, <2>4, <4>1, <4>2, <4>3
      <4> QED
        BY <4>5, <4>6
    <3>2. CASE q = r /\ o = "ok"
      <4>1. results'[q] = [n \in DOMAIN results[r] \cup {nameOf[h]} |->
                             IF n = nameOf[h] THEN h ELSE results[r][n]]
        BY <1>2, <2>4, <3>2 DEF TaskEnds
      <4>2. \A g \in Host : outcome'[q][g] = "ok" <=> outcome[q][g] = "ok" \/ g = h
        BY <2>1, <3>2
      <4>3. \A n \in DOMAIN results[q] : results[q][n] \in Host
        OBVIOUS
      <4>4. {nameOf[g] : g \in {x \in Host : outcome'[q][x] = "ok"}} =
              {nameOf[g] : g \in {x \in Host : outcome[q][x] = "ok"}} \cup {nameOf[h]}
        BY <4>2
      <4> QED
        BY <2>4, <3>2, <4>1, <4>2, <4>3, <4>4
    <3> QED
      BY <1>2, <3>1, <3>2
  <2> QED
    BY <2>1, <2>3, <2>4
<1>3. ASSUME NEW r \in Run, NEW h \in Host, Receive(r, h)
      PROVE  MapInv'
  BY <1>3 DEF Receive
<1>4. ASSUME NEW r \in Run, RunReturns(r)
      PROVE  MapInv'
  BY <1>4 DEF RunReturns
<1>5. ASSUME NEW r \in Run, Panic(r)
      PROVE  MapInv'
  BY <1>5 DEF Panic
<1>6. ASSUME NEW r \in Run, Ignore(r)
      PROVE  MapInv'
  BY <1>6 DEF Ignore
<1>7. ASSUME NEW r \in Run, LockErrs(r)
      PROVE  MapInv'
  BY <1>7 DEF LockErrs
<1>8. ASSUME NEW r \in Run, AppendErr(r)
      PROVE  MapInv'
  BY <1>8 DEF AppendErr
<1>9. ASSUME NEW r \in Run, Expire(r)
      PROVE  MapInv'
  BY <1>9 DEF Expire
<1> QED
  BY <1>1, <1>2, <1>3, <1>4, <1>5, <1>6, <1>7, <1>8, <1>9 DEF Next, TaskStep,
     CallerStep

\* The initial state satisfies the invariant.
LEMMA InitInd == Init => IndInv
<1> SUFFICES ASSUME Init PROVE IndInv
  OBVIOUS
<1>1. TypeOK
  BY DEF Init, TypeOK
<1>2. TaskInv /\ LockInv
  BY DEF Init, TaskInv, LockInv, Busy
<1>3. ErrsInv
  BY DEF Init, ErrsInv, Handled, Entries, Distinct, CollectorOf, Collector
<1>4. MapInv
  BY DEF Init, MapInv
<1> QED
  BY <1>1, <1>2, <1>3, <1>4 DEF IndInv

\* The invariant holds in every state of every behaviour.
LEMMA IndInvAlways == Spec => []IndInv
<1>1. IndInv /\ [Next]_vars => IndInv'
  BY NextType, NextTask, NextLock, NextErrs, NextMap DEF IndInv
<1> QED
  BY InitInd, <1>1, PTL DEF Spec

\* Collect returns a map with an entry for exactly the names under which some host
\* succeeded, the result of such a host, for any hosts, names (shared or not) and
\* interleaving of the goroutines; and every variable has its type.
THEOREM RunInvAlways == Spec => []RunInv
<1>1. IndInv => RunInv
  <2> SUFFICES ASSUME IndInv PROVE CollectExact
    BY DEF IndInv, RunInv
  <2> SUFFICES ASSUME NEW r \in Run, caller[r] = "returned", kind[r] = "collect"
               PROVE  /\ DOMAIN results[r] = {nameOf[h] : h \in Host \ Failing(r)}
                      /\ \A n \in DOMAIN results[r] :
                           /\ nameOf[results[r][n]] = n
                           /\ results[r][n] \notin Failing(r)
    BY DEF CollectExact
  <2>1. Host \ Failing(r) = {h \in Host : outcome[r][h] = "ok"}
    BY DEF IndInv, TypeOK, TaskInv, Failing
  <2> QED
    BY <2>1 DEF IndInv, MapInv, Failing
<1> QED
  BY IndInvAlways, <1>1, PTL

\* A collector shared by concurrent Runs (Errors.Handle) keeps the error of every
\* failed host of a Run that has returned, exactly once, for any number of hosts,
\* Runs and handlers.
THEOREM EveryErrorKeptAlways == Spec => []EveryErrorKept
<1>1. IndInv => EveryErrorKept
  <2> SUFFICES ASSUME IndInv, NEW r \in Run, caller[r] = "returned",
                      kind[r] \in {"shared", "collect"}
               PROVE  /\ \A h \in Host : outcome[r][h] # "none"
                      /\ \A h \in Failing(r) :
                           \E i \in DOMAIN errs[CollectorOf(r)] :
                             errs[CollectorOf(r)][i] = <<r, h>>
                      /\ Distinct(errs[CollectorOf(r)])
    BY DEF EveryErrorKept, Distinct
  <2>1. \A h \in Host : task[r][h] = "done" /\ outcome[r][h] # "none"
    BY DEF IndInv, TaskInv
  <2>2. \A h \in Failing(r) : <<r, h>> \in Entries(errs[CollectorOf(r)])
    BY <2>1 DEF IndInv, ErrsInv, Handled, Busy, Collecting, Failing
  <2>3. Distinct(errs[CollectorOf(r)])
    BY DEF IndInv, ErrsInv, CollectorOf, Collector
  <2> QED
    BY <2>1, <2>2, <2>3 DEF Entries
<1> QED
  BY IndInvAlways, <1>1, PTL

=============================================================================
