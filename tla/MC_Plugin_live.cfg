CONSTANTS
  Contexts = {c1}
  Callbacks = {t1}
  Main = Main
  None = None
  Media = {silence, song}
  NoMedia = silence
  FontSizes = {12, 160}
  Widths <- MCWidths
  ConcurrentDelivery = TRUE
  WinRTFails = TRUE
  CanClose = TRUE
  MaxChanges = 1
  MaxMessages = 4
SPECIFICATION FairSpec
INVARIANTS
  NeverTerminates
  WorkerEndsOnlyWhenStopped
PROPERTIES
  CallsReturn
  MessagesAreHandled
  ButtonShowsTitle
