------------------------------ MODULE MCShellRun ------------------------------
(***************************************************************************)
(* Instances of ShellRun for TLC.                                          *)
(***************************************************************************)
EXTENDS ShellRun

Writes(out, er) == [o \in Output |-> IF o = "stdout" THEN out ELSE er]

\* A command that writes more than a channel holds, reads no input or reads it
\* to its end, and may meet a failing writer, a reader that blocks, and a silent
\* peer with and without keepalives; its outputs may have one writer.
SomeStreams ==
  {j \in [streams : {{}, Output, {"stdin", "stdout"}}, sameWriter : BOOLEAN,
          badWriters : {{}, {"stdout"}}, given : {0, 1}, ends : BOOLEAN,
          wants : {0, 2}, writes : {Writes(2, 1)}, exit : {"zero", "one"},
          keepAlive : BOOLEAN] :
     /\ "stdin" \notin j.streams => j.given = 0 /\ j.ends
     /\ j.sameWriter => j.streams = Output /\ j.badWriters = {}}

\* All three streams, with input that is read in part or completely.
AllStreams ==
  [streams : {Stream}, sameWriter : {FALSE}, badWriters : {{"stderr"}},
   given : {2}, ends : {TRUE}, wants : {1, 2}, writes : {Writes(1, 1)},
   exit : {"zero", "other"}, keepAlive : {TRUE}]

SomeJobs == SomeStreams \cup AllStreams

=============================================================================
