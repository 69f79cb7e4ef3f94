CONSTANTS
  h1 = h1  h2 = h2  a1 = a1  a2 = a2
  top = top  sub = sub  f = f  g = g
  Host = {h1, h2}
  Alias = {a1, a2}
  Aliasings <- PairOrTwins
  Local = Local
  Dir = {top, sub}
  File = {f, g}
  Parent <- ParentIs
  Chunks <- ChunksAre
  Links <- LinksAre
  LinkSize = 1
  MaxLen = 3
  Src = {top, f}
  Perms <- EveryPerm
  Umasks <- SomeUmasks
  Before <- Befores
  NoNode = NoNode
SPECIFICATION MCSpec
INVARIANT DirPermsAsAsked
CHECK_DEADLOCK FALSE
