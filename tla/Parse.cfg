CONSTANTS
  p1 = p1
  p2 = p2
  k1 = k1
  x1 = x1
  x2 = x2
  d1 = d1
  bid = bid
  other = other
  NoStructure = NoStructure
  Junk = Junk
  Client <- Parsers
  Clearer <- Clearers
  Content <- Contents
  Draw <- Draws
  Flat <- Flats
  Categories <- CategoryOrder
  Other = other
  Document <- Samples
  Nodes <- NodesOf
  Answers <- ModelAnswers
  MaxVersion = 2
  MaxQueries = 2
  MaxClears = 1
  MaxMishaps = 2
SPECIFICATION ParseSpec
CHECK_DEADLOCK FALSE
INVARIANT KnowledgeIsSound
INVARIANT JudgementIsFounded
PROPERTY ClearSpares
