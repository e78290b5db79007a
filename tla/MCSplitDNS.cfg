CONSTANTS
  q1 = q1
  q2 = q2
  q3 = q3
  ip1 = ip1
  Queries <- ThreeQueries
  Questions <- FourQuestions
  Addresses <- OneAddress
  Messages <- MCMessages
  Content <- MCContent
  Upstreams = 2
  CacheSize = 2
SPECIFICATION SharedSpec
INVARIANTS
  TypeOK
  CacheSound
  KeptForSmallestTTL
  AnswersItsQuestion
  FirstResponseDecides
PROPERTY EveryQueryAnswered
