CONSTANTS
  Contexts = {c1}
  Callbacks = {t1, t2}
  Main = Main
  None = None
  Media = {silence, song, film}
  NoMedia = silence
  FontSizes = {12}
  Widths <- MCWidths
  ConcurrentDelivery = TRUE
  WinRTFails = FALSE
  CanClose = FALSE
  MaxChanges = 2
  MaxMessages = 0
SPECIFICATION Spec
INVARIANT
  TitleCurrentWhenQuiet
