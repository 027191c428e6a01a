SPECIFICATION FairSpec
CONSTANTS
  s1 = s1  x1 = x1  x2 = x2  p1 = p1  p2 = p2
  Scans = {s1}
  Streams = {x1,x2}
  Procs = {p1,p2}
  Server <- FirstServes
  N = 1
  ReaperSpares = TRUE
  MaxCrashes = 1
  MaxPolls <- PollsOfOne
CHECK_DEADLOCK FALSE
INVARIANTS
  TypeOK
  NoEventMissed
  ChannelsMatchStreams
  ToldWhatIsStored
PROPERTIES
  ToldInOrder
  StreamsClose
