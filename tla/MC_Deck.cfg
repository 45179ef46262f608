SPECIFICATION Spec
CONSTANTS
  Contexts = {c1, c2}
  FontSizes = {12, 24}
  Typed <- MCTyped
  ReportsHidden = FALSE
  MaxMoves = 5
  Half = 512
INVARIANT DeckTypeOK
INVARIANT HandlersAreShown
INVARIANT IntervalIsStored
INVARIANT WidthIsOfFont
PROPERTY ShownButtonIsReady
