\* Three framings, each stream cut into reads of one to three symbols.
SPECIFICATION Spec
CONSTANTS
  Sessions <- AllSessions
  Answers <- Said1To256
  MaxChunk = 3
INVARIANTS
  TypeOK
  EachMessageOnce
  ToldIsSent
  AnswersDecode
CHECK_DEADLOCK FALSE
