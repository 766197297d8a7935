SPECIFICATION Spec
CONSTANT
  Deck <- SmallDeck
INVARIANT
  OnlyTheseMisjudged
