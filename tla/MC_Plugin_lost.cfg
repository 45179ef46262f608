CONSTANTS
  Contexts = {c1}
  Callbacks = {t1}
  Main = Main
  None = None
  Media = {silence, song}
  NoMedia = silence
  FontSizes = {12}
  Widths <- MCWidths
  ConcurrentDelivery = FALSE
  WinRTFails = FALSE
  CanClose = FALSE
  MaxChanges = 1
  MaxMessages = 2
SPECIFICATION Spec
INVARIANT
  RefreshStaysUntilDrawn
