------------------------------ MODULE MCTransfer ------------------------------
(***************************************************************************)
(* Instances of Transfer for TLC.                                          *)
(***************************************************************************)
EXTENDS Transfer, TLC

CONSTANTS h1, h2,   \* hosts
          a1, a2,   \* aliases
          top, sub, \* directories: sub is in top
          f, g      \* files: f is in top, g in sub

\* Two hosts of an alias each, or of the same alias.
PairOrTwins == {(h1 :> a1) @@ (h2 :> a) : a \in {a1, a2}}

ParentIs == (top :> NoNode) @@ (sub :> top) @@ (f :> top) @@ (g :> sub)

ChunksAre == (f :> 2) @@ (g :> 0)

\* g is a file, or a link to an empty file or to a directory.
LinksAre == {(f :> "none") @@ (g :> to) : to \in {"none", "file", "dir"}}

GroupWrites == {"gw", "ow"}
Mode0666 == Mode0644 \cup GroupWrites
Mode0777 == Mode0755 \cup GroupWrites

\* A file permission for both, and a directory permission added.
FileAndDirPerm == {WithDirPerm(NewPerm(Mode0666), Mode0777)}
EveryPerm == {NoPerm, NewPerm(Mode0666)} \cup FileAndDirPerm

\* The umask 022, which cuts 0666 and 0777, and 077, which cuts the defaults.
Umask022 == GroupWrites
Umask077 == {"gr", "gw", "gx", "or", "ow", "ox"}
SomeUmasks == {Umask022, Umask077}

Exist(t, s, ff, gg) == (top :> t) @@ (sub :> s) @@ (f :> ff) @@ (g :> gg)

\* Nothing there, everything, and entries of the wrong kind.
Befores ==
  {Exist("none", "none", "none", "none"), Exist("dir", "dir", "file", "file"),
   Exist("dir", "file", "dir", "none")}

\* Uploads to two machines have nothing in common: one alias is enough for those.
\* What a link is matters to Size, and to a copy that reads on behind it.
\* DownloadDir has the default permissions only.
MCInit ==
  /\ Init
  /\ op = "upload" => \A i, j \in Host : alias[i] = alias[j]
  /\ op # "downloadDir" => \A n \in File : link[n] = "none"
  /\ umask = IF op = "downloadDir" THEN Umask077 ELSE Umask022

MCSpec == MCInit /\ [][Next]_vars /\ Fairness

=============================================================================
