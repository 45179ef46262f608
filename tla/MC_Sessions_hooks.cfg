SPECIFICATION Spec
CONSTANTS
  s1 = s1
  s2 = s2
  s3 = s3
  a1 = a1
  a2 = a2
  Main = Main
  Callbacks = {t1}
  Sessions = {s1, s2, s3}
  Apps = {a1, a2}
  AppOf <- MCAppOf
  None = None
  Tracks = {Untitled, m1, m2}
  Untitled = Untitled
  SharedApps = FALSE
  ConcurrentDelivery = FALSE
  MaxChanges = 2
INVARIANT SessionsTypeOK
INVARIANT RevokersOwnHooks
INVARIANT ListedSessionsHooked
INVARIANT HeardChangeIsShown
INVARIANT TitleAndImageOfOneTrack
SYMMETRY MCSymmetry
