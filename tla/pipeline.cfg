SPECIFICATION PipeSpec
CONSTANTS
  mine = mine  fresh = fresh  h1 = h1  h2 = h2  h3 = h3  a = a  b = b  e1 = e1
  spare1 = spare1  spare2 = spare2  spare3 = spare3  spare4 = spare4
  Absent = Absent  NoHand = NoHand  NoSession = NoSession
  Hands = {mine, fresh}
  UUIDs = {fresh}
  Deck = {h1, h2, h3, a, b, spare1, spare2, spare3, spare4}
  Default <- DefaultSettings
  Executions = {e1}
  Bodies <- Requests
  MaxEntries = 1
  StaleReads = FALSE
  SessionsExpire = FALSE
  MaxRequests = 3
  MaxInt = 9
  Keys <- HandsAndVersions
  ChunkIds <- SixChunks
  Deltas <- None
  TTL = 1
  MaxTime = 0
  Simulated <- Played
  Beaten <- Loses
  MaxGivenUp = 1
INVARIANTS
  OnePlanPerKey
  PublishedIsWritten
  OnlyNumbersFail
PROPERTIES
  BoardOnlyMovesForward
  AcceptedIsAnswered
