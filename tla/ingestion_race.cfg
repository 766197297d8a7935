SPECIFICATION Spec
CONSTANTS
  mine = mine  fresh = fresh  h1 = h1  h2 = h2  h3 = h3  a = a  b = b  joker = joker
  e1 = e1  e2 = e2  Absent = Absent  NoHand = NoHand  NoSession = NoSession
  Hands = {mine, fresh}
  UUIDs = {fresh}
  Deck = {h1, h2, h3, a, b}
  Default <- DefaultSettings
  Executions = {e1, e2}
  Bodies <- PlainBodies
  MaxEntries = 2
  StaleReads = FALSE
  SessionsExpire = FALSE
  MaxRequests = 2
  MaxInt = 15
PROPERTY
  BoardOnlyMovesForward
