CONSTANTS
  Contexts = {c1, c2}
  Callbacks = {t1}
  Main = Main
  None = None
  Media = {silence, song}
  NoMedia = silence
  FontSizes = {12, 160}
  Widths <- MCWidths
  ConcurrentDelivery = TRUE
  WinRTFails = TRUE
  CanClose = FALSE
  MaxChanges = 1
  MaxMessages = 5
SPECIFICATION Spec
INVARIANTS
  TypeOK
  RefreshVisitsLiveHandlers
  TitleAndImageMatch
  HandlersMatchMap
PROPERTY
  UsesHandlersByContract
