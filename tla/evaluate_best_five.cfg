SPECIFICATION Spec
CONSTANT
  Deck <- OddDeck
INVARIANT
  EvaluateIsBestFive
