SPECIFICATION Spec
CONSTANTS
  e1 = e1
  e2 = e2
  e3 = e3
  Junk = Junk
  NLayers = 2
  Experts = {e1, e2, e3}
  Cap = 1
  MaxWaves = 3
  Rank <- MCRank
  Guesses <- MCGuesses
  MaxLeft = 2
  RankBufs = 1
  GuessBufs = 2
INVARIANTS
  SumsRight
VIEW MCView
