------------------------------- MODULE GroupRun -------------------------------
(***************************************************************************)
(* Group.Run and Collect (iago.go): every host of a group runs the task in *)
(* a goroutine of its own, each goroutine hands its outcome over an        *)
(* unbuffered channel to the goroutine that called Run, and that one calls *)
(* the error handler for each failure.                                     *)
(*                                                                         *)
(* Several Runs may be under way on one group and may share one Errors     *)
(* collector.  A run is told apart by its error handler; a run of kind     *)
(* "collect" is a call of Collect, which has a collector of its own.       *)
(***************************************************************************)
EXTENDS Naturals, Sequences, FiniteSets

CONSTANTS
  Host,   \* the hosts of the group
  Name,   \* their names
  Namings, \* what Host.Name may be: two hosts may have the same name
  Run,    \* calls of Group.Run, directly or by Collect
  Kinds,  \* the error handlers a run may have
  Shared, \* the Errors collector the "shared" runs have in common
  Nobody  \* no host

ASSUME RunAssumption ==
  /\ Namings \subseteq [Host -> Name]
  /\ Kinds \subseteq {"panic", "ignore", "shared", "collect"}
  /\ Shared \notin Run /\ Nobody \notin Host
  /\ IsFiniteSet(Host)

Collector == Run \cup {Shared}

VARIABLES
  nameOf,  \* Host.Name (never changes)
  kind,    \* the handler of each run (never changes)
  task,    \* where each task goroutine is
  outcome, \* what the task function returned
  caller,  \* where the goroutine that called Run is
  failing, \* the host whose error its handler has been given
  old,     \* the slice its append has read
  ctx,     \* "live", or "done" by the deadline or the deferred cancel
  results, \* Collect's map: name -> host whose result is stored
  errs     \* Errors.errs of each collector

vars == <<nameOf, kind, task, outcome, caller, failing, old, ctx, results, errs>>

Init ==
  /\ nameOf \in Namings
  /\ kind \in [Run -> Kinds]
  /\ task = [r \in Run |-> [h \in Host |-> "running"]]
  /\ outcome = [r \in Run |-> [h \in Host |-> "none"]]
  /\ caller = [r \in Run |-> "receiving"]
  /\ failing = [r \in Run |-> Nobody]
  /\ old = [r \in Run |-> <<>>]
  /\ ctx = [r \in Run |-> "live"]
  /\ results = [r \in Run |-> [n \in {} |-> Nobody]]
  /\ errs = [c \in Collector |-> <<>>]

-----------------------------------------------------------------------------
(* A task goroutine: the task function returns and its outcome is sent.    *)

\* Collect's closure, under mu: a success is stored under the host's name.
Store(r, h) ==
  results' = [results EXCEPT ![r] = [n \in DOMAIN @ \cup {nameOf[h]} |->
                                       IF n = nameOf[h] THEN h ELSE @[n]]]

\* Mutant: Collect stores what fn returned without looking at its error.
TaskEndsUnchecked(r, h, o) ==
  /\ task[r][h] = "running"
  /\ task' = [task EXCEPT ![r][h] = "sending"]
  /\ outcome' = [outcome EXCEPT ![r][h] = o]
  /\ IF kind[r] = "collect" THEN Store(r, h) ELSE UNCHANGED results
  /\ UNCHANGED <<nameOf, kind, caller, failing, old, ctx, errs>>

TaskEnds(r, h, o) ==
  /\ task[r][h] = "running"
  /\ task' = [task EXCEPT ![r][h] = "sending"]
  /\ outcome' = [outcome EXCEPT ![r][h] = o]
  /\ IF kind[r] = "collect" /\ o = "ok" THEN Store(r, h) ELSE UNCHANGED results
  /\ UNCHANGED <<nameOf, kind, caller, failing, old, ctx, errs>>

-----------------------------------------------------------------------------
(* The goroutine that called Run.                                          *)

\* errors <- ... meets <-errors; a failure goes to the handler.
Receive(r, h) ==
  /\ caller[r] = "receiving"
  /\ task[r][h] = "sending"
  /\ task' = [task EXCEPT ![r][h] = "done"]
  /\ IF outcome[r][h] = "error"
     THEN /\ caller' = [caller EXCEPT ![r] = "handling"]
          /\ failing' = [failing EXCEPT ![r] = h]
     ELSE UNCHANGED <<caller, failing>>
  /\ UNCHANGED <<nameOf, kind, outcome, old, ctx, results, errs>>

\* The caller leaves Run, by its end or by a panic; the deferred cancel runs.
Leave(r, how) ==
  /\ caller' = [caller EXCEPT ![r] = how]
  /\ ctx' = [ctx EXCEPT ![r] = "done"]
  /\ UNCHANGED <<nameOf, kind, task, outcome, failing, old, results, errs>>

Received(r) == {h \in Host : task[r][h] = "done"}

\* The loop has received once for each host.
RunReturns(r) ==
  /\ caller[r] = "receiving"
  /\ Cardinality(Received(r)) = Cardinality(Host)
  /\ Leave(r, "returned")

Panic(r) ==
  /\ caller[r] = "handling"
  /\ kind[r] = "panic"
  /\ Leave(r, "panicked")

Ignore(r) ==
  /\ caller[r] = "handling"
  /\ kind[r] = "ignore"
  /\ caller' = [caller EXCEPT ![r] = "receiving"]
  /\ UNCHANGED <<nameOf, kind, task, outcome, failing, old, ctx, results, errs>>

CollectorOf(r) == IF kind[r] = "shared" THEN Shared ELSE r

\* Mutant: Handle appends without taking e.mu.
LockErrsFree(r) ==
  /\ caller[r] = "handling"
  /\ kind[r] \in {"shared", "collect"}
  /\ old' = [old EXCEPT ![r] = errs[CollectorOf(r)]]
  /\ caller' = [caller EXCEPT ![r] = "appending"]
  /\ UNCHANGED <<nameOf, kind, task, outcome, failing, ctx, results, errs>>

\* Errors.Handle: e.mu.Lock(), and append reads the slice ...
LockErrs(r) ==
  /\ caller[r] = "handling"
  /\ kind[r] \in {"shared", "collect"}
  /\ \A q \in Run : caller[q] = "appending" => CollectorOf(q) # CollectorOf(r)
  /\ old' = [old EXCEPT ![r] = errs[CollectorOf(r)]]
  /\ caller' = [caller EXCEPT ![r] = "appending"]
  /\ UNCHANGED <<nameOf, kind, task, outcome, failing, ctx, results, errs>>

\* ... then the longer one is stored, and e.mu.Unlock().
AppendErr(r) ==
  /\ caller[r] = "appending"
  /\ errs' = [errs EXCEPT ![CollectorOf(r)] = Append(old[r], <<r, failing[r]>>)]
  /\ caller' = [caller EXCEPT ![r] = "receiving"]
  /\ old' = [old EXCEPT ![r] = <<>>]
  /\ UNCHANGED <<nameOf, kind, task, outcome, failing, ctx, results>>

\* Mutant: the context can be cancelled but has no timeout.
ExpireNever(r) == FALSE

\* The group's Timeout elapses.
Expire(r) ==
  /\ ctx[r] = "live"
  /\ ctx' = [ctx EXCEPT ![r] = "done"]
  /\ UNCHANGED <<nameOf, kind, task, outcome, caller, failing, old, results, errs>>

CallerStep(r) ==
  \/ \E h \in Host : Receive(r, h)
  \/ RunReturns(r)
  \/ Panic(r)
  \/ Ignore(r)
  \/ LockErrs(r)
  \/ AppendErr(r)

TaskStep(r, h) == \E o \in {"ok", "error"} : TaskEnds(r, h, o)

Next ==
  \E r \in Run : \/ \E h \in Host : TaskStep(r, h)
                 \/ CallerStep(r)
                 \/ Expire(r)

Spec == Init /\ [][Next]_vars

\* The timer fires and the caller is scheduled.  A task function is trusted
\* only to end once its context is done.
FairSpec ==
  /\ Spec
  /\ \A r \in Run :
       /\ WF_vars(Expire(r))
       /\ SF_vars(CallerStep(r))
       /\ \A h \in Host : WF_vars(ctx[r] = "done" /\ TaskStep(r, h))

-----------------------------------------------------------------------------
(* Properties.                                                             *)

Failing(r) == {h \in Host : outcome[r][h] = "error"}

\* Every variable has its type.
TypeOK ==
  /\ nameOf \in Namings
  /\ kind \in [Run -> Kinds]
  /\ task \in [Run -> [Host -> {"running", "sending", "done"}]]
  /\ outcome \in [Run -> [Host -> {"none", "ok", "error"}]]
  /\ caller \in [Run -> {"receiving", "handling", "appending", "returned", "panicked"}]
  /\ failing \in [Run -> Host \cup {Nobody}]
  /\ ctx \in [Run -> {"live", "done"}]
  /\ \A r \in Run : /\ DOMAIN results[r] \subseteq Name
                    /\ \A n \in DOMAIN results[r] : results[r][n] \in Host
  /\ errs \in [Collector -> Seq(Run \X Host)]
  /\ old \in [Run -> Seq(Run \X Host)]

\* "The mutex makes it safe to share one Errors across concurrent Runs": once
\* a Run has returned, its collector holds the error of each of its failed
\* hosts exactly once, whatever other Runs append meanwhile.
EveryErrorKept ==
  \A r \in Run : caller[r] = "returned" /\ kind[r] \in {"shared", "collect"} =>
    LET list == errs[CollectorOf(r)] IN
    /\ \A h \in Host : outcome[r][h] # "none"
    /\ \A h \in Failing(r) : \E i \in DOMAIN list : list[i] = <<r, h>>
    /\ \A i, j \in DOMAIN list : list[i] = list[j] => i = j

\* Collect's map has an entry for exactly the names under which some host
\* succeeded, and that entry is the result of such a host.
CollectExact ==
  \A r \in Run : caller[r] = "returned" /\ kind[r] = "collect" =>
    /\ DOMAIN results[r] = {nameOf[h] : h \in Host \ Failing(r)}
    /\ \A n \in DOMAIN results[r] :
         nameOf[results[r][n]] = n /\ results[r][n] \notin Failing(r)

\* The types, and the exact map: what a Collect returns is of the right shape
\* and complete at every moment it can be looked at.
RunInv == TypeOK /\ CollectExact

\* Run ends for tasks that do nothing but wait for their context: the timeout
\* reaches every host, and every goroutine's send finds the caller.
RunEnds == \A r \in Run : <>(caller[r] \in {"returned", "panicked"})

=============================================================================
