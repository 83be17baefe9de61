\* Bounds: 3 steps of the producers, 1 failing rsync.
SPECIFICATION FairSpec
CONSTANTS
  f = f
  g = g
  dotfile = dotfile
  x = x
  y = y
  Empty = Empty
  None = None
  Files = {f, g, dotfile}
  Dotfiles = {dotfile}
  Contents = {x, y}
  InPlace = FALSE
  BatchSize = 2
  MaxWrites = 3
  MaxFaults = 1
INVARIANTS
  
  NothingQueuedIsLost
PROPERTIES
  NoticedIsSubmitted
CHECK_DEADLOCK FALSE
