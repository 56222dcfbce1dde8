CONSTANTS
  Images <- MCImages
  MaxSkip = 2
  MaxRewinds = 1
SPECIFICATION Spec
INVARIANTS ShownIntact SkipsWhatWasAsked TablesTrue
