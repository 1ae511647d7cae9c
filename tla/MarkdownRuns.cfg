CONSTANTS
  c1 = c1
  c2 = c2
  NoCall = NoCall
  NoText = NoText
  Calls <- MCCalls
  Sources <- Documents
  Values <- MCValues
  Worlds <- MCWorlds
  Lex <- LexSource
  Parse <- ParseTokens

SPECIFICATION FairSpec

INVARIANTS
  TypeOK
  AnsweredOnce
  NothingParsedEarly
  AsWritten
  NothingLost

PROPERTIES
  EveryCallAnswered
  CallsAreIsolated

CHECK_DEADLOCK FALSE
