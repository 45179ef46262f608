------------------------ MODULE MediaSessions_proofs ------------------------
(***************************************************************************)
(* Proofs about MediaSessions, for any number of sessions, applications,   *)
(* tracks, threads and changes: the hooks are those of the revokers in the *)
(* map, a plugin that has caught up hears every listed session, title and  *)
(* thumbnail are of one track, and a change that was heard is shown.       *)
(*                                                                         *)
(* The first two need to know what the handler is in the middle of.        *)
(* OwnedInv adds to RevokersOwnHooks that an entry holds the revokers of a *)
(* session of its own application, and that the application being hooked   *)
(* has no entry.  CaughtUpInv says that a handler that has seen the last   *)
(* change of the list goes over listed sessions only, and that those it is *)
(* past are hooked.                                                        *)
(*                                                                         *)
(* The others need to know what a call of CheckMedia has found so far:     *)
(* OneTrackInv, that it has a title only at its end, the one it read last; *)
(* Fresh, that what it has found is still so.                              *)
(***************************************************************************)
EXTENDS MediaSessions, TLAPS

Hooking == handler.at \in {"media", "playback"}
CaughtUp == sessionEvents.raised > 0 /\ sessionEvents.delivered = sessionEvents.raised

OwnedInv ==
  /\ RevokersOwnHooks
  /\ \A a \in Apps : mSessionHandlers[a] # None => AppOf[mSessionHandlers[a]] = a
  /\ Hooking => /\ handler.session \in Sessions \ handler.todo
                /\ mSessionHandlers[AppOf[handler.session]] = None

CaughtUpInv ==
  /\ MayCoexist(listed)
  /\ sessionEvents.delivered <= sessionEvents.raised
  /\ handler.at = "idle" => handler.todo = {}
  /\ CaughtUp =>
       /\ handler.todo \subseteq listed
       /\ Hooking => handler.session \in listed
       /\ \A s \in listed : \/ s \in handler.todo
                            \/ Hooking /\ handler.session = s
                            \/ mSessionHandlers[AppOf[s]] = s

\* A call of CheckMedia that is asking is asking somebody.
AskedInv ==
  \A t \in Threads : check[t].at \in {"properties", "status"} => check[t].session \in Sessions

SessionsInv == SessionsTypeOK /\ OwnedInv /\ AskedInv

-----------------------------------------------------------------------------
(* Type correctness.                                                       *)

LEMMA TypeInit == Init => SessionsTypeOK
<1> SUFFICES ASSUME Init PROVE SessionsTypeOK
  OBVIOUS
<1>1. check \in [Threads -> CheckType]
  BY SessionsAssumption DEF Init, CheckType, NoCheck
<1>2. handler \in HandlerType /\ constructor \in ConstructorType
  BY DEF Init, HandlerType, NoHandler, ConstructorType
<1>3. media \in [Sessions -> MediaType]
  BY DEF Init
<1> QED BY SessionsAssumption, <1>1, <1>2, <1>3 DEF Init, SessionsTypeOK

LEMMA TypePlayers ==
  ASSUME SessionsTypeOK, PlayersStep
  PROVE  SessionsTypeOK'
<1> USE SessionsAssumption
    DEF SessionsTypeOK, MediaType, HandlerType, CheckType, ConstructorType,
        Change, ListChanged, MediaListeners, PlaybackListeners, hookVars, shown
<1>1. ASSUME NEW s \in Sessions, Appear(s) PROVE SessionsTypeOK'
  BY <1>1 DEF Appear
<1>2. ASSUME NEW s \in Sessions, Vanish(s) PROVE SessionsTypeOK'
  <2>1. Silent \in MediaType
    BY DEF Silent, Statuses
  <2> QED BY <1>2, <2>1 DEF Vanish
<1>3. ASSUME NEW s \in Sessions, ChangeTrack(s) PROVE SessionsTypeOK'
  BY <1>3 DEF ChangeTrack
<1>4. ASSUME NEW s \in Sessions, ChangeStatus(s) PROVE SessionsTypeOK'
  BY <1>4 DEF ChangeStatus
<1>5. CASE ChangeCurrent
  BY <1>5 DEF ChangeCurrent
<1> QED BY <1>1, <1>2, <1>3, <1>4, <1>5 DEF PlayersStep

LEMMA TypeConstructor ==
  ASSUME SessionsTypeOK, ConstructorStep
  PROVE  SessionsTypeOK'
<1> USE SessionsAssumption
    DEF SessionsTypeOK, CheckType, ConstructorType, players, hookVars, shown, Threads
<1>1. CASE ConstructorCurrent BY <1>1 DEF ConstructorCurrent
<1>2. CASE ConstructorHookMedia BY <1>2 DEF ConstructorHookMedia
<1>3. CASE ConstructorHookPlayback BY <1>3 DEF ConstructorHookPlayback
<1>4. CASE Constructed BY <1>4 DEF Constructed
<1> QED BY <1>1, <1>2, <1>3, <1>4 DEF ConstructorStep

\* A handler step keeps the types, given that revoking takes away a hook that
\* is there.
LEMMA TypeHandler ==
  ASSUME SessionsTypeOK, OwnedInv, HandlerStep
  PROVE  SessionsTypeOK'
<1> USE SessionsAssumption
    DEF SessionsTypeOK, HandlerType, players, hookVars, shown, NoHandler
<1>1. CASE SessionsChanged BY <1>1 DEF SessionsChanged
<1>2. ASSUME NEW s \in Sessions, NextSession(s) PROVE SessionsTypeOK'
  <2> DEFINE old == mSessionHandlers[AppOf[s]]
  <2>1. ASSUME NEW r \in Sessions, r = old PROVE mediaHooks[r] > 0 /\ playbackHooks[r] > 0
    BY <2>1 DEF OwnedInv, RevokersOwnHooks
  <2> QED BY <1>2, <2>1 DEF NextSession
<1>3. CASE HookMedia BY <1>3 DEF HookMedia, OwnedInv, Hooking
<1>4. CASE HookPlayback
  <2>1. handler.session \in Sessions
    BY <1>4 DEF HookPlayback, OwnedInv, Hooking
  <2>2. handler' \in HandlerType
    BY <1>4 DEF HookPlayback
  <2>3. playbackHooks' \in [Sessions -> Nat]
    BY <1>4, <2>1 DEF HookPlayback
  <2>4. mSessionHandlers' \in [Apps -> Sessions \cup {None}]
    BY <1>4, <2>1 DEF HookPlayback
  <2> HIDE DEF HandlerType
  <2> QED BY <1>4, <2>2, <2>3, <2>4 DEF HookPlayback
<1>5. CASE HookThrows
  <2>1. handler.at = "playback" => mediaHooks[handler.session] > 0
    BY DEF OwnedInv, RevokersOwnHooks, Hooking
  <2> QED BY <1>5, <2>1 DEF HookThrows, OwnedInv, Hooking
<1>6. CASE SessionsChangedDone BY <1>6 DEF SessionsChangedDone
<1> QED BY <1>1, <1>2, <1>3, <1>4, <1>5, <1>6 DEF HandlerStep

\* A step of CheckMedia keeps the types if its own state has one.
LEMMA TypeCheckGoes ==
  ASSUME SessionsTypeOK, NEW t \in Threads, NEW to \in CheckType, CheckGoes(t, to),
         mediaEvents' \in Nat, mTitle' \in Tracks, mImage' \in Tracks
  PROVE  SessionsTypeOK'
BY DEF SessionsTypeOK, CheckGoes, players, hookVars

LEMMA TypeCheckMedia ==
  ASSUME SessionsTypeOK, AskedInv, NEW t \in Threads, Deliver(t) \/ CheckMedia(t)
  PROVE  SessionsTypeOK' /\ AskedInv'
<1> DEFINE c == check[t]
<1>1. ASSUME NEW to \in CheckType, CheckGoes(t, to),
             to.at \in {"properties", "status"} => to.session \in Sessions
      PROVE  AskedInv'
  BY <1>1 DEF SessionsTypeOK, AskedInv, CheckGoes
<1>2. c \in CheckType /\ NoCheck \in CheckType /\ NoCheck.at = "idle" /\ None \notin Sessions
  BY SessionsAssumption DEF SessionsTypeOK, CheckType, NoCheck
<1>3. /\ listed \subseteq Sessions /\ current \in listed \cup {None}
      /\ mediaEvents \in Nat /\ mTitle \in Tracks /\ mImage \in Tracks
  BY DEF SessionsTypeOK
<1> USE DEF Checking, Unanswered, CheckType
<1>4. CASE Deliver(t)
  <2>1. [NoCheck EXCEPT !.at = "current"] \in CheckType
    BY <1>2
  <2> QED BY <1>1, <1>3, <1>4, <2>1, TypeCheckGoes DEF Deliver, shown
<1>5. CASE GetCurrentSession(t)
  <2> DEFINE to == [c EXCEPT !.at = IF current = None THEN "sessions" ELSE "properties",
                             !.session = current]
  <2>1. to \in CheckType /\ (to.at \in {"properties", "status"} => to.session \in Sessions)
    BY <1>2, <1>3
  <2>2. CheckGoes(t, to) /\ UNCHANGED <<mediaEvents, shown>>
    BY <1>5 DEF GetCurrentSession
  <2> HIDE DEF to
  <2> QED BY <1>1, <1>3, <2>1, <2>2, TypeCheckGoes DEF shown
<1>6. CASE TryGetMediaProperties(t)
  <2> DEFINE to == [c EXCEPT !.at = "status", !.properties = media[c.session].track]
  <2>1. c.session \in Sessions
    BY <1>6 DEF TryGetMediaProperties, AskedInv
  <2>2. to \in CheckType /\ to.session \in Sessions
    BY <1>2, <2>1 DEF SessionsTypeOK, MediaType
  <2>3. CheckGoes(t, to) /\ UNCHANGED <<mediaEvents, shown>>
    BY <1>6 DEF TryGetMediaProperties
  <2> HIDE DEF to
  <2> QED BY <1>1, <1>3, <2>2, <2>3, TypeCheckGoes DEF shown
<1>7. CASE NoAnswer(t)
  <2> DEFINE to == [c EXCEPT !.at = Unanswered(t)]
  <2>1. to \in CheckType /\ to.at \notin {"properties", "status"}
    BY <1>2
  <2>2. CheckGoes(t, to) /\ UNCHANGED <<mediaEvents, shown>>
    BY <1>7 DEF NoAnswer
  <2> HIDE DEF to
  <2> QED BY <1>1, <1>3, <2>1, <2>2, TypeCheckGoes DEF shown
<1>8. CASE GetPlaybackInfo(t)
  <2> DEFINE playing == media[c.session].status = "Playing"
             to == [c EXCEPT !.title = IF playing THEN c.properties ELSE @,
                             !.at = IF playing /\ (c.others \/ c.properties # Untitled)
                                      THEN "store" ELSE Unanswered(t)]
  <2>1. to \in CheckType /\ to.at \notin {"properties", "status"}
    BY <1>2
  <2>2. CheckGoes(t, to) /\ UNCHANGED <<mediaEvents, shown>>
    BY <1>8 DEF GetPlaybackInfo
  <2> HIDE DEF to
  <2> QED BY <1>1, <1>3, <2>1, <2>2, TypeCheckGoes DEF shown
<1>9. CASE GetSessions(t)
  <2> DEFINE to == [c EXCEPT !.at = "next", !.others = TRUE, !.left = listed]
  <2>1. to \in CheckType /\ to.at = "next"
    BY <1>2, <1>3
  <2>2. CheckGoes(t, to) /\ UNCHANGED <<mediaEvents, shown>>
    BY <1>9 DEF GetSessions
  <2> HIDE DEF to
  <2> QED BY <1>1, <1>3, <2>1, <2>2, TypeCheckGoes DEF shown
<1>10. CASE AskNext(t)
  <2>1. PICK s \in c.left :
          CheckGoes(t, [c EXCEPT !.at = "properties", !.session = s, !.left = @ \ {s}])
    BY <1>10 DEF AskNext
  <2> DEFINE to == [c EXCEPT !.at = "properties", !.session = s, !.left = @ \ {s}]
  <2>2. to \in CheckType /\ to.session \in Sessions
    BY <1>2
  <2>3. CheckGoes(t, to) /\ UNCHANGED <<mediaEvents, shown>>
    BY <1>10, <2>1 DEF AskNext
  <2> HIDE DEF to
  <2> QED BY <1>1, <1>3, <2>2, <2>3, TypeCheckGoes DEF shown
<1>11. CASE AskedAll(t)
  <2> DEFINE to == [c EXCEPT !.at = "store"]
  <2>1. to \in CheckType /\ to.at = "store"
    BY <1>2
  <2>2. CheckGoes(t, to) /\ UNCHANGED <<mediaEvents, shown>>
    BY <1>11 DEF AskedAll
  <2> HIDE DEF to
  <2> QED BY <1>1, <1>3, <2>1, <2>2, TypeCheckGoes DEF shown
<1>12. CASE Store(t)
  <2>1. CheckGoes(t, NoCheck) /\ UNCHANGED mediaEvents /\ mTitle' \in Tracks /\ mImage' \in Tracks
    BY <1>2, <1>12, SessionsAssumption DEF Store
  <2> QED BY <1>1, <1>2, <1>3, <2>1, TypeCheckGoes
<1>13. CASE CheckThrows(t)
  BY <1>1, <1>2, <1>3, <1>13, TypeCheckGoes DEF CheckThrows, shown
<1> QED BY <1>4, <1>5, <1>6, <1>7, <1>8, <1>9, <1>10, <1>11, <1>12, <1>13 DEF CheckMedia

-----------------------------------------------------------------------------
(* The revokers and the hooks.                                             *)

hookState == <<listed, mediaHooks, playbackHooks, mSessionHandlers, handler, sessionEvents>>

LEMMA OwnedHandler ==
  ASSUME SessionsTypeOK, OwnedInv, HandlerStep
  PROVE  OwnedInv'
<1> USE DEF SessionsTypeOK, OwnedInv, RevokersOwnHooks, Hooking
<1>1. AppOf \in [Sessions -> Apps] /\ None \notin Sessions
  BY SessionsAssumption
<1>2. CASE SessionsChanged
  BY <1>2 DEF SessionsChanged, hookVars
<1>3. ASSUME NEW s \in Sessions, NextSession(s) PROVE OwnedInv'
  <2> DEFINE old == mSessionHandlers[AppOf[s]]
  <2>1. /\ handler' = [at |-> "media", todo |-> handler.todo \ {s}, session |-> s]
        /\ mediaHooks' = [r \in Sessions |-> mediaHooks[r] - IF r = old THEN 1 ELSE 0]
        /\ playbackHooks' = [r \in Sessions |-> playbackHooks[r] - IF r = old THEN 1 ELSE 0]
        /\ mSessionHandlers' = [mSessionHandlers EXCEPT ![AppOf[s]] = None]
        /\ handler.at = "next"
    BY <1>3 DEF NextSession
  <2>2. old # None => AppOf[old] = AppOf[s]
    BY <1>1
  <2>3. RevokersOwnHooks'
    <3> SUFFICES ASSUME NEW r \in Sessions
                 PROVE  /\ mediaHooks'[r] = IF mSessionHandlers'[AppOf[r]] = r THEN 1 ELSE 0
                        /\ playbackHooks'[r] = IF mSessionHandlers'[AppOf[r]] = r THEN 1 ELSE 0
      BY <2>1
    <3>1. CASE r = old
      BY <1>1, <2>1, <2>2, <3>1
    <3>2. CASE r # old
      BY <1>1, <2>1, <3>2
    <3> QED BY <3>1, <3>2
  <2> QED BY <1>1, <2>1, <2>3
<1>4. CASE HookMedia
  BY <1>1, <1>4 DEF HookMedia
<1>5. CASE HookPlayback
  BY <1>1, <1>5 DEF HookPlayback
<1>6. CASE HookThrows
  BY <1>1, <1>6 DEF HookThrows, NoHandler
<1>7. CASE SessionsChangedDone
  BY <1>7 DEF SessionsChangedDone, NoHandler, hookVars
<1> QED BY <1>2, <1>3, <1>4, <1>5, <1>6, <1>7 DEF HandlerStep

LEMMA OwnedFrame ==
  ASSUME OwnedInv, UNCHANGED <<hookVars, handler>>
  PROVE  OwnedInv'
BY DEF OwnedInv, RevokersOwnHooks, Hooking, hookVars

LEMMA AskedFrame ==
  ASSUME SessionsTypeOK, AskedInv, ConstructorStep \/ UNCHANGED check
  PROVE  AskedInv'
<1>1. CASE UNCHANGED check
  BY <1>1 DEF AskedInv
<1>2. CASE ConstructorStep
  <2>1. UNCHANGED check \/ check' = [check EXCEPT ![Main].at = "current"]
    BY <1>2 DEF ConstructorStep, ConstructorCurrent, ConstructorHookMedia,
                ConstructorHookPlayback, Constructed
  <2> QED BY <1>1, <2>1 DEF AskedInv, SessionsTypeOK, CheckType
<1> QED BY <1>1, <1>2

\* What the steps outside the SessionsChanged handler leave alone.
LEMMA StepFrames ==
  /\ PlayersStep => UNCHANGED <<hookVars, handler, check>>
  /\ ConstructorStep => UNCHANGED hookState
  /\ HandlerStep => UNCHANGED <<listed, check>>
  /\ \A t \in Threads : Deliver(t) \/ CheckMedia(t) => UNCHANGED hookState
<1>1. PlayersStep => UNCHANGED <<hookVars, handler, check>>
  BY DEF PlayersStep, Appear, Vanish, ChangeTrack, ChangeStatus, ChangeCurrent, Change
<1>2. ConstructorStep => UNCHANGED hookState
  BY DEF ConstructorStep, ConstructorCurrent, ConstructorHookMedia,
         ConstructorHookPlayback, Constructed, players, hookVars, hookState
<1>3. HandlerStep => UNCHANGED <<listed, check>>
  BY DEF HandlerStep, SessionsChanged, NextSession, HookMedia, HookPlayback, HookThrows,
         SessionsChangedDone, players
<1>4. ASSUME NEW t \in Threads, Deliver(t) \/ CheckMedia(t) PROVE UNCHANGED hookState
  BY <1>4 DEF CheckMedia, Deliver, GetCurrentSession, TryGetMediaProperties, NoAnswer,
     GetPlaybackInfo, GetSessions, AskNext, AskedAll, Store, CheckThrows, CheckGoes,
     players, hookVars, hookState
<1> QED BY <1>1, <1>2, <1>3, <1>4

THEOREM SessionsInvariant == Spec => []SessionsInv
<1>1. Init => SessionsInv
  <2> SUFFICES ASSUME Init PROVE SessionsInv
    OBVIOUS
  <2>1. OwnedInv /\ AskedInv
    BY SessionsAssumption
    DEF Init, OwnedInv, RevokersOwnHooks, Hooking, AskedInv, NoHandler, NoCheck
  <2> QED BY <2>1, TypeInit DEF SessionsInv
<1>2. SessionsInv /\ [Next]_vars => SessionsInv'
  <2> SUFFICES ASSUME SessionsInv, [Next]_vars PROVE SessionsInv'
    OBVIOUS
  <2> USE DEF SessionsInv
  <2>1. CASE PlayersStep
    BY <2>1, TypePlayers, OwnedFrame, AskedFrame, StepFrames
  <2>2. CASE ConstructorStep
    BY <2>2, TypeConstructor, OwnedFrame, AskedFrame, StepFrames DEF hookState, hookVars
  <2>3. CASE HandlerStep
    BY <2>3, TypeHandler, OwnedHandler, AskedFrame, StepFrames
  <2>4. ASSUME NEW t \in Threads, Deliver(t) \/ CheckMedia(t) PROVE SessionsInv'
    BY <2>4, TypeCheckMedia, OwnedFrame, StepFrames DEF hookState, hookVars
  <2>5. CASE UNCHANGED vars
    <3>1. SessionsTypeOK'
      BY <2>5 DEF vars, players, hookVars, shown, SessionsTypeOK
    <3> QED BY <2>5, <3>1, OwnedFrame, AskedFrame DEF vars, players
  <2> QED BY <2>1, <2>2, <2>3, <2>4, <2>5 DEF Next, Waiting
<1> QED BY <1>1, <1>2, PTL DEF Spec

\* All variables keep their declared types.
THEOREM SessionsTypeCorrect == Spec => []SessionsTypeOK
<1>1. SessionsInv => SessionsTypeOK BY DEF SessionsInv
<1> QED BY <1>1, SessionsInvariant, PTL

\* No hook is leaked, doubled or revoked twice, however the handler is cut
\* short (lines 128-144), and whether or not sessions share an application.
THEOREM SessionsRevokersOwnHooks == Spec => []RevokersOwnHooks
<1>1. SessionsInv => RevokersOwnHooks BY DEF SessionsInv, OwnedInv
<1> QED BY <1>1, SessionsInvariant, PTL

-----------------------------------------------------------------------------
(* A plugin that has caught up hears every listed session.                 *)

LEMMA CaughtUpPlayers ==
  ASSUME SessionsTypeOK, ~SharedApps, CaughtUpInv, PlayersStep
  PROVE  CaughtUpInv'
<1> USE DEF CaughtUpInv, CaughtUp, Hooking, SessionsTypeOK
<1>1. UNCHANGED <<hookVars, handler>>
  BY StepFrames
<1>2. CASE UNCHANGED <<listed, sessionEvents>>
  BY <1>1, <1>2 DEF MayCoexist, hookVars
<1>3. CASE ListChanged /\ MayCoexist(listed')
  <2>1. /\ sessionEvents'.delivered <= sessionEvents'.raised
        /\ sessionEvents'.delivered # sessionEvents'.raised
    BY <1>3 DEF ListChanged
  <2>2. MayCoexist(listed)' /\ UNCHANGED handler
    BY <1>1, <1>3 DEF MayCoexist
  <2> QED BY <2>1, <2>2
<1>4. ASSUME NEW s \in Sessions, Vanish(s) PROVE ListChanged /\ MayCoexist(listed')
  BY <1>4 DEF Vanish, MayCoexist
<1>5. ASSUME NEW s \in Sessions, Appear(s) PROVE ListChanged /\ MayCoexist(listed')
  BY <1>5 DEF Appear, MayCoexist
<1> QED BY <1>2, <1>3, <1>4, <1>5 DEF PlayersStep, ChangeTrack, ChangeStatus, ChangeCurrent

LEMMA CaughtUpHandler ==
  ASSUME SessionsTypeOK, OwnedInv, ~SharedApps, CaughtUpInv, HandlerStep
  PROVE  CaughtUpInv'
<1> USE DEF CaughtUpInv, CaughtUp, Hooking, SessionsTypeOK
<1>1. AppOf \in [Sessions -> Apps] /\ None \notin Sessions
  BY SessionsAssumption
<1>2. MayCoexist(listed)' /\ UNCHANGED listed
  BY StepFrames DEF MayCoexist
<1>3. CASE SessionsChanged
  BY <1>2, <1>3 DEF SessionsChanged
<1>4. ASSUME NEW s \in Sessions, NextSession(s) PROVE CaughtUpInv'
  <2>1. /\ handler' = [at |-> "media", todo |-> handler.todo \ {s}, session |-> s]
        /\ mSessionHandlers' = [mSessionHandlers EXCEPT ![AppOf[s]] = None]
        /\ handler.at = "next" /\ s \in handler.todo /\ UNCHANGED sessionEvents
    BY <1>4 DEF NextSession
  <2>2. ASSUME CaughtUp, NEW r \in listed, mSessionHandlers[AppOf[r]] = r, r # s
        PROVE  mSessionHandlers'[AppOf[r]] = r
    BY <1>1, <2>1, <2>2 DEF MayCoexist
  <2> QED BY <1>2, <2>1, <2>2
<1>5. CASE HookMedia
  BY <1>2, <1>5 DEF HookMedia
<1>6. CASE HookPlayback
  <2>1. /\ handler' = [handler EXCEPT !.at = "next", !.session = None]
        /\ mSessionHandlers' = [mSessionHandlers EXCEPT ![AppOf[handler.session]] = handler.session]
        /\ handler.at = "playback" /\ UNCHANGED sessionEvents
    BY <1>6 DEF HookPlayback
  <2>2. ASSUME CaughtUp, NEW r \in listed
        PROVE  r \in handler'.todo \/ mSessionHandlers'[AppOf[r]] = r
    BY <1>1, <2>1, <2>2 DEF MayCoexist
  <2> QED BY <1>2, <2>1, <2>2
<1>7. CASE HookThrows
  BY <1>2, <1>7 DEF HookThrows, NoHandler
<1>8. CASE SessionsChangedDone
  BY <1>2, <1>8 DEF SessionsChangedDone, NoHandler, hookVars
<1> QED BY <1>3, <1>4, <1>5, <1>6, <1>7, <1>8 DEF HandlerStep

LEMMA CaughtUpFrame ==
  ASSUME CaughtUpInv, UNCHANGED hookState
  PROVE  CaughtUpInv'
BY DEF CaughtUpInv, CaughtUp, Hooking, MayCoexist, hookState

\* Where no application has two sessions at once, every listed session is
\* hooked, exactly once, whenever the handler has caught up with the list, even
\* if it was cut short before: the change that cuts it short brings the next
\* (lines 121-148).
THEOREM SessionsAreHooked ==
  ASSUME ~SharedApps
  PROVE  Spec => []ListedSessionsHooked
<1>1. Init => CaughtUpInv
  BY DEF Init, CaughtUpInv, CaughtUp, Hooking, NoHandler
<1>2. SessionsInv /\ CaughtUpInv /\ [Next]_vars => CaughtUpInv'
  <2> SUFFICES ASSUME SessionsInv, CaughtUpInv, [Next]_vars PROVE CaughtUpInv'
    OBVIOUS
  <2> USE DEF SessionsInv
  <2>1. CASE PlayersStep
    BY <2>1, CaughtUpPlayers
  <2>2. CASE HandlerStep
    BY <2>2, CaughtUpHandler
  <2>3. CASE ConstructorStep \/ \E t \in Threads : Deliver(t) \/ CheckMedia(t)
    BY <2>3, CaughtUpFrame, StepFrames
  <2>4. CASE UNCHANGED vars
    BY <2>4, CaughtUpFrame DEF vars, players, hookVars, hookState
  <2> QED BY <2>1, <2>2, <2>3, <2>4 DEF Next, Waiting
<1>3. SessionsInv /\ CaughtUpInv => ListedSessionsHooked
  <2> SUFFICES ASSUME SessionsInv, CaughtUpInv, CaughtUp, handler.at = "idle", NEW s \in listed
               PROVE  mediaHooks[s] = 1 /\ playbackHooks[s] = 1
    BY DEF ListedSessionsHooked, CaughtUp
  <2> QED BY DEF SessionsInv, SessionsTypeOK, OwnedInv, RevokersOwnHooks, CaughtUpInv, Hooking
<1> QED BY <1>1, <1>2, <1>3, SessionsInvariant, PTL DEF Spec

-----------------------------------------------------------------------------
(* What CheckMedia stores.                                                 *)

\* A call of CheckMedia has a title only at its end, and the properties read
\* last are then those of the title.  Main has no call before the constructor
\* makes it.
OneTrackInv ==
  /\ mImage = mTitle
  /\ \A t \in Threads :
       /\ check[t].title # Untitled =>
            check[t].at = "store" /\ check[t].properties = check[t].title
       /\ check[t].at = "idle" => check[t] = NoCheck
  /\ constructor.at \in {"current", "media", "playback"} => check[Main].at = "idle"

LEMMA OneTrackInit == Init => OneTrackInv
BY SessionsAssumption DEF Init, OneTrackInv, NoCheck, Threads

\* The constructor calls CheckMedia from the beginning.
LEMMA OneTrackConstructor ==
  ASSUME SessionsTypeOK, OneTrackInv, ConstructorStep
  PROVE  OneTrackInv'
<1> DEFINE Stays == /\ UNCHANGED check /\ constructor'.at \in {"media", "playback", "done"}
                    /\ constructor'.at \in {"media", "playback"} =>
                         constructor.at \in {"current", "media", "playback"}
           Calls == /\ check' = [check EXCEPT ![Main].at = "current"] /\ check[Main].at = "idle"
                    /\ constructor'.at = "check"
<1>1. Stays \/ Calls
  BY DEF ConstructorStep, ConstructorCurrent, ConstructorHookMedia, ConstructorHookPlayback,
         Constructed, SessionsTypeOK, ConstructorType, OneTrackInv
<1>2. UNCHANGED <<mTitle, mImage>>
  BY DEF ConstructorStep, ConstructorCurrent, ConstructorHookMedia, ConstructorHookPlayback,
         Constructed, shown
<1>3. CASE Stays
  BY <1>2, <1>3 DEF OneTrackInv
<1>4. CASE Calls
  <2>1. check[Main] \in CheckType /\ Main \in Threads /\ check[Main].title = Untitled
    BY <1>4 DEF SessionsTypeOK, OneTrackInv, Threads, NoCheck
  <2>2. check'[Main].at = "current" /\ check'[Main].title = Untitled
    BY <1>4, <2>1 DEF SessionsTypeOK, CheckType
  <2>3. \A t \in Threads \ {Main} : check'[t] = check[t]
    BY <1>4 DEF SessionsTypeOK
  <2>4. constructor'.at = "check"
    BY <1>4
  <2> HIDE DEF Calls, Stays
  <2>5. \A t \in Threads :
          /\ check'[t].title # Untitled =>
               check'[t].at = "store" /\ check'[t].properties = check'[t].title
          /\ check'[t].at = "idle" => check'[t] = NoCheck
    BY <2>2, <2>3 DEF OneTrackInv
  <2> QED BY <1>2, <2>4, <2>5 DEF OneTrackInv
<1> QED BY <1>1, <1>3, <1>4

LEMMA OneTrackCheck ==
  ASSUME SessionsTypeOK, OneTrackInv, NEW t \in Threads, Deliver(t) \/ CheckMedia(t)
  PROVE  OneTrackInv'
<1> DEFINE c == check[t]
           Kept(d) == d.title # Untitled => d.at = "store" /\ d.properties = d.title
<1>1. ASSUME NEW d, CheckGoes(t, d), Kept(d), d.at = "idle" => d = NoCheck, UNCHANGED shown,
             c.at # "idle" \/ t # Main
      PROVE  OneTrackInv'
  BY <1>1 DEF OneTrackInv, SessionsTypeOK, CheckGoes, shown
<1>2. c \in CheckType /\ Kept(c) /\ (c.at = "idle" => c = NoCheck)
  BY DEF SessionsTypeOK, OneTrackInv
<1>3. Kept(NoCheck) /\ NoCheck.at = "idle"
  BY DEF NoCheck
<1> USE DEF Checking, Unanswered, CheckType
<1>4. CASE Deliver(t)
  <2>1. Kept([NoCheck EXCEPT !.at = "current"])
    BY DEF NoCheck
  <2>2. [NoCheck EXCEPT !.at = "current"].at = "current"
    BY DEF NoCheck
  <2> QED BY <1>1, <1>4, <2>1, <2>2 DEF Deliver
<1>5. CASE GetCurrentSession(t)
  <2> DEFINE d == [c EXCEPT !.at = IF current = None THEN "sessions" ELSE "properties",
                            !.session = current]
  <2>1. CheckGoes(t, d) /\ UNCHANGED shown /\ c.at = "current"
    BY <1>5 DEF GetCurrentSession
  <2>2. Kept(d) /\ d.at # "idle"
    BY <1>2, <2>1
  <2> QED BY <1>1, <2>1, <2>2
<1>6. CASE TryGetMediaProperties(t)
  <2> DEFINE d == [c EXCEPT !.at = "status", !.properties = media[c.session].track]
  <2>1. CheckGoes(t, d) /\ UNCHANGED shown /\ c.at = "properties"
    BY <1>6 DEF TryGetMediaProperties
  <2>2. Kept(d) /\ d.at # "idle"
    BY <1>2, <2>1
  <2> QED BY <1>1, <2>1, <2>2
<1>7. CASE NoAnswer(t)
  <2> DEFINE d == [c EXCEPT !.at = Unanswered(t)]
  <2>1. CheckGoes(t, d) /\ UNCHANGED shown /\ c.at \in {"properties", "status"}
    BY <1>7 DEF NoAnswer
  <2>2. Kept(d) /\ d.at # "idle"
    BY <1>2, <2>1
  <2> QED BY <1>1, <2>1, <2>2
<1>8. CASE GetPlaybackInfo(t)
  <2> DEFINE playing == media[c.session].status = "Playing"
             d == [c EXCEPT !.title = IF playing THEN c.properties ELSE @,
                            !.at = IF playing /\ (c.others \/ c.properties # Untitled)
                                     THEN "store" ELSE Unanswered(t)]
  <2>1. CheckGoes(t, d) /\ UNCHANGED shown /\ c.at = "status"
    BY <1>8 DEF GetPlaybackInfo
  <2>2. Kept(d) /\ d.at # "idle"
    BY <1>2, <2>1
  <2> QED BY <1>1, <2>1, <2>2
<1>9. CASE GetSessions(t)
  <2> DEFINE d == [c EXCEPT !.at = "next", !.others = TRUE, !.left = listed]
  <2>1. CheckGoes(t, d) /\ UNCHANGED shown /\ c.at = "sessions"
    BY <1>9 DEF GetSessions
  <2>2. Kept(d) /\ d.at # "idle"
    BY <1>2, <2>1
  <2> QED BY <1>1, <2>1, <2>2
<1>10. CASE AskNext(t)
  <2>1. PICK s \in c.left :
          CheckGoes(t, [c EXCEPT !.at = "properties", !.session = s, !.left = @ \ {s}])
    BY <1>10 DEF AskNext
  <2> DEFINE d == [c EXCEPT !.at = "properties", !.session = s, !.left = @ \ {s}]
  <2>2. UNCHANGED shown /\ c.at = "next"
    BY <1>10 DEF AskNext
  <2>3. Kept(d) /\ d.at # "idle"
    BY <1>2, <2>2
  <2> QED BY <1>1, <2>1, <2>2, <2>3
<1>11. CASE AskedAll(t)
  <2> DEFINE d == [c EXCEPT !.at = "store"]
  <2>1. CheckGoes(t, d) /\ UNCHANGED shown /\ c.at = "next"
    BY <1>11 DEF AskedAll
  <2>2. Kept(d) /\ d.at # "idle"
    BY <1>2, <2>1
  <2> QED BY <1>1, <2>1, <2>2
<1>12. CASE Store(t)
  <2>1. mImage' = mTitle' /\ CheckGoes(t, NoCheck) /\ c.at = "store"
    BY <1>2, <1>12 DEF Store
  <2> QED BY <1>3, <2>1 DEF OneTrackInv, SessionsTypeOK, CheckGoes
<1>13. CASE CheckThrows(t)
  <2>1. CheckGoes(t, NoCheck) /\ UNCHANGED shown /\ c.at # "idle"
    BY <1>13 DEF CheckThrows
  <2> QED BY <1>1, <1>3, <2>1
<1> QED BY <1>4, <1>5, <1>6, <1>7, <1>8, <1>9, <1>10, <1>11, <1>12, <1>13 DEF CheckMedia

LEMMA OneTrackFrame ==
  ASSUME OneTrackInv, UNCHANGED <<check, constructor, shown>>
  PROVE  OneTrackInv'
BY DEF OneTrackInv, shown

THEOREM OneTrackInvariant == Spec => []OneTrackInv
<1>1. SessionsInv /\ OneTrackInv /\ [Next]_vars => OneTrackInv'
  <2> SUFFICES ASSUME SessionsInv, OneTrackInv, [Next]_vars PROVE OneTrackInv'
    OBVIOUS
  <2> USE DEF SessionsInv
  <2>1. CASE PlayersStep
    BY <2>1, OneTrackFrame
    DEF PlayersStep, Appear, Vanish, ChangeTrack, ChangeStatus, ChangeCurrent, Change
  <2>2. CASE ConstructorStep
    BY <2>2, OneTrackConstructor
  <2>3. CASE HandlerStep
    BY <2>3, OneTrackFrame
    DEF HandlerStep, SessionsChanged, NextSession, HookMedia, HookPlayback, HookThrows,
        SessionsChangedDone
  <2>4. CASE \E t \in Threads : Deliver(t) \/ CheckMedia(t)
    BY <2>4, OneTrackCheck
  <2>5. CASE UNCHANGED vars
    BY <2>5, OneTrackFrame DEF vars
  <2> QED BY <2>1, <2>2, <2>3, <2>4, <2>5 DEF Next, Waiting
<1> QED BY <1>1, OneTrackInit, SessionsInvariant, PTL DEF Spec

\* Title and thumbnail belong to one track, although the properties object is
\* used for one session after the other, and whichever sessions come, change
\* and vanish meanwhile (lines 249-325).
THEOREM SessionsOneTrack == Spec => []TitleAndImageOfOneTrack
<1>1. OneTrackInv => TitleAndImageOfOneTrack BY DEF OneTrackInv, TitleAndImageOfOneTrack
<1> QED BY <1>1, OneTrackInvariant, PTL

-----------------------------------------------------------------------------
(* What CheckMedia finds.                                                  *)

\* What a call of CheckMedia knows if nothing has changed since it began: as
\* long as it asks the current session, what that has said; when it asks the
\* others, that the current one has no title, and where a playing session can
\* still be; in the end, a title that is right.
NoCurrentTitle == current \notin Playing \/ media[current].track = Untitled
AskingOthers(c) == c.others /\ c.at \in {"next", "properties", "status"}
Fresh(c) ==
  /\ c.at \in {"current", "sessions"} => ~c.others
  /\ c.at = "next" => c.others
  /\ c.at \in {"properties", "status"} => c.session \in listed /\ (c.others \/ c.session = current)
  /\ c.at = "status" => c.properties = media[c.session].track
  /\ c.at = "sessions" \/ AskingOthers(c) => NoCurrentTitle
  /\ AskingOthers(c) =>
       /\ c.left \subseteq listed
       /\ Playing \subseteq c.left \cup (IF c.at = "next" THEN {} ELSE {c.session})
  /\ c.at = "store" => c.title \in Findable /\ (c.title # Untitled => c.session \in listed)

\* After a change that was heard, either its event is still to be delivered, or
\* every call of CheckMedia that is running has begun since; and if none is,
\* the stored title is right.
HeardInv ==
  heard /\ mediaEvents = 0 =>
    /\ \A t \in Threads : check[t].at # "idle" => Fresh(check[t])
    /\ (\A t \in Threads : check[t].at = "idle") => mTitle \in Findable

\* While the players do not change, what is known of a call stays known.
LEMMA FreshFrame ==
  ASSUME UNCHANGED players
  PROVE  /\ \A t \in Threads : Fresh(check'[t]) => Fresh(check[t])'
         /\ \A title : title \in Findable => title \in Findable'
BY DEF players, Fresh, AskingOthers, NoCurrentTitle, Findable, Playing

LEMMA FreshCurrent ==
  ASSUME NEW c, c.at = "current", ~c.others
  PROVE  Fresh(c)
BY DEF Fresh, AskingOthers

\* A step of an undisturbed CheckMedia that does not end it.
LEMMA FreshStep ==
  ASSUME SessionsTypeOK, OneTrackInv, NEW t \in Threads, check[t].at # "idle", Fresh(check[t]),
         CheckMedia(t)
  PROVE  \/ /\ Fresh(check'[t]) /\ check'[t].at # "idle" /\ UNCHANGED mTitle
         \/ mTitle' \in Findable /\ check'[t].at = "idle"
<1> DEFINE c == check[t]
<1>1. /\ c \in CheckType /\ (c.title # Untitled => c.at = "store")
      /\ listed \subseteq Sessions /\ None \notin Sessions
      /\ media \in [Sessions -> MediaType]
  BY SessionsAssumption DEF SessionsTypeOK, OneTrackInv
<1>2. ASSUME NEW d, CheckGoes(t, d) PROVE check'[t] = d
  BY <1>2 DEF CheckGoes, SessionsTypeOK
<1> USE DEF Checking, Unanswered
<1>3. CASE GetCurrentSession(t)
  <2> DEFINE d == [c EXCEPT !.at = IF current = None THEN "sessions" ELSE "properties",
                            !.session = current]
  <2>1. CheckGoes(t, d) /\ UNCHANGED shown /\ c.at = "current"
    BY <1>3 DEF GetCurrentSession
  <2>2. /\ d.at = IF current = None THEN "sessions" ELSE "properties"
        /\ d.session = current /\ d.others = c.others /\ ~c.others
    BY <1>1, <2>1 DEF CheckType, Fresh
  <2> HIDE DEF d
  <2>3. Fresh(d) /\ d.at # "idle"
    BY <1>1, <2>2 DEF Fresh, AskingOthers, NoCurrentTitle, Playing, SessionsTypeOK
  <2> QED BY <1>2, <2>1, <2>3 DEF shown
<1>4. CASE TryGetMediaProperties(t)
  <2> DEFINE d == [c EXCEPT !.at = "status", !.properties = media[c.session].track]
  <2>1. CheckGoes(t, d) /\ UNCHANGED shown /\ c.at = "properties"
    BY <1>4 DEF TryGetMediaProperties
  <2>2. /\ d.at = "status" /\ d.properties = media[c.session].track
        /\ d.session = c.session /\ d.others = c.others /\ d.left = c.left
    BY <1>1 DEF CheckType
  <2>3. Fresh(d)
    BY <1>1, <2>1, <2>2 DEF Fresh, AskingOthers
  <2> QED BY <1>2, <2>1, <2>2, <2>3 DEF shown
<1>5. CASE NoAnswer(t)
  BY <1>5 DEF NoAnswer, Fresh
<1>6. CASE GetPlaybackInfo(t)
  <2> DEFINE playing == media[c.session].status = "Playing"
             d == [c EXCEPT !.title = IF playing THEN c.properties ELSE @,
                            !.at = IF playing /\ (c.others \/ c.properties # Untitled)
                                     THEN "store" ELSE Unanswered(t)]
  <2>1. CheckGoes(t, d) /\ UNCHANGED shown /\ c.at = "status"
    BY <1>6 DEF GetPlaybackInfo
  <2>2. /\ d.at = IF playing /\ (c.others \/ c.properties # Untitled)
                    THEN "store" ELSE Unanswered(t)
        /\ d.title = IF playing THEN c.properties ELSE c.title
        /\ d.session = c.session /\ d.others = c.others /\ d.left = c.left
    BY <1>1 DEF CheckType
  <2>3. /\ c.session \in listed /\ c.properties = media[c.session].track
        /\ c.session \in Playing <=> playing
        /\ c.title = Untitled
    BY <1>1, <2>1 DEF Fresh, Playing
  <2> HIDE DEF d
  <2>4. Fresh(d) /\ d.at # "idle"
    <3>1. CASE ~c.others
      <4>1. c.session = current
        BY <2>1, <3>1 DEF Fresh
      <4>2. CASE playing /\ c.properties # Untitled
        BY <2>2, <2>3, <3>1, <4>1, <4>2 DEF Fresh, AskingOthers, Findable
      <4>3. CASE ~(playing /\ c.properties # Untitled)
        BY <2>2, <2>3, <3>1, <4>1, <4>3 DEF Fresh, AskingOthers, NoCurrentTitle
      <4> QED BY <4>2, <4>3
    <3>2. CASE c.others
      <4>1. NoCurrentTitle /\ c.left \subseteq listed /\ Playing \subseteq c.left \cup {c.session}
        BY <2>1, <3>2 DEF Fresh, AskingOthers
      <4>2. CASE playing
        <5>1. c.properties \in Findable
          BY <2>3, <4>1, <4>2 DEF Findable, NoCurrentTitle
        <5> QED BY <2>2, <2>3, <3>2, <4>2, <5>1 DEF Fresh, AskingOthers
      <4>3. CASE ~playing
        BY <2>2, <2>3, <3>2, <4>1, <4>3 DEF Fresh, AskingOthers
      <4> QED BY <4>2, <4>3
    <3> QED BY <3>1, <3>2
  <2> QED BY <1>2, <2>1, <2>4 DEF shown
<1>7. CASE GetSessions(t)
  <2> DEFINE d == [c EXCEPT !.at = "next", !.others = TRUE, !.left = listed]
  <2>1. CheckGoes(t, d) /\ UNCHANGED shown /\ c.at = "sessions"
    BY <1>7 DEF GetSessions
  <2>2. d.at = "next" /\ d.others /\ d.left = listed
    BY <1>1 DEF CheckType
  <2>3. Fresh(d)
    BY <2>1, <2>2 DEF Fresh, AskingOthers, Playing
  <2> QED BY <1>2, <2>1, <2>2, <2>3 DEF shown
<1>8. CASE AskNext(t)
  <2>1. PICK s \in c.left :
          CheckGoes(t, [c EXCEPT !.at = "properties", !.session = s, !.left = @ \ {s}])
    BY <1>8 DEF AskNext
  <2> DEFINE d == [c EXCEPT !.at = "properties", !.session = s, !.left = @ \ {s}]
  <2>2. UNCHANGED shown /\ c.at = "next"
    BY <1>8 DEF AskNext
  <2>3. /\ d.at = "properties" /\ d.session = s /\ d.left = c.left \ {s}
        /\ d.others = c.others /\ c.others
    BY <1>1, <2>2 DEF CheckType, Fresh
  <2>4. Fresh(d)
    BY <2>2, <2>3 DEF Fresh, AskingOthers
  <2> QED BY <1>2, <2>1, <2>2, <2>3, <2>4 DEF shown
<1>9. CASE AskedAll(t)
  <2> DEFINE d == [c EXCEPT !.at = "store"]
  <2>1. CheckGoes(t, d) /\ UNCHANGED shown /\ c.at = "next" /\ c.left = {}
    BY <1>9 DEF AskedAll
  <2>2. d.at = "store" /\ d.title = c.title /\ c.title = Untitled
    BY <1>1, <2>1 DEF CheckType
  <2>3. Playing = {} /\ Untitled \in Findable
    BY <2>1 DEF Fresh, AskingOthers, Findable
  <2>4. Fresh(d)
    BY <2>2, <2>3 DEF Fresh, AskingOthers
  <2> QED BY <1>2, <2>1, <2>2, <2>4 DEF shown
<1>10. CASE Store(t)
  <2>1. CheckGoes(t, NoCheck) /\ mTitle' = c.title /\ c.at = "store"
    BY <1>10 DEF Store
  <2>2. NoCheck.at = "idle" /\ c.title \in Findable
    BY <2>1 DEF NoCheck, Fresh
  <2> QED BY <1>2, <2>1, <2>2
<1>11. CASE CheckThrows(t)
  BY <1>11 DEF CheckThrows, Fresh
<1> QED BY <1>3, <1>4, <1>5, <1>6, <1>7, <1>8, <1>9, <1>10, <1>11 DEF CheckMedia

\* A change that is heard raises an event; one that is not claims nothing.
LEMMA HeardPlayers ==
  ASSUME SessionsTypeOK, PlayersStep
  PROVE  HeardInv'
<1>1. ASSUME NEW n \in Nat, Change(n) PROVE heard' => mediaEvents' # 0
  <2>1. heard' => n > 0
    BY <1>1, Zenon DEF Change
  <2>2. mediaEvents' = mediaEvents + n /\ mediaEvents \in Nat
    BY <1>1 DEF Change, SessionsTypeOK
  <2> QED BY <2>1, <2>2
<1>2. ASSUME NEW s \in Sessions PROVE MediaListeners(s) \in Nat /\ PlaybackListeners(s) \in Nat
  BY DEF MediaListeners, PlaybackListeners, SessionsTypeOK
<1> QED
  BY <1>1, <1>2 DEF HeardInv, PlayersStep, Appear, Vanish, ChangeTrack, ChangeStatus, ChangeCurrent

\* The constructor's call of CheckMedia is a fresh one.
LEMMA HeardConstructor ==
  ASSUME SessionsTypeOK, OneTrackInv, HeardInv, ConstructorStep
  PROVE  HeardInv'
<1>1. /\ UNCHANGED <<players, mediaEvents, shown>>
      /\ \/ UNCHANGED check
         \/ check' = [check EXCEPT ![Main].at = "current"] /\ check[Main] = NoCheck
  BY DEF ConstructorStep, ConstructorCurrent, ConstructorHookMedia, ConstructorHookPlayback,
         Constructed, OneTrackInv, Threads
<1>2. UNCHANGED heard
  BY <1>1 DEF players
<1>3. CASE UNCHANGED check
  BY <1>1, <1>2, <1>3, FreshFrame DEF HeardInv, shown
<1>4. CASE check' = [check EXCEPT ![Main].at = "current"] /\ check[Main] = NoCheck
  <2>1. check'[Main].at = "current" /\ ~check'[Main].others
    BY <1>4 DEF SessionsTypeOK, CheckType, NoCheck, Threads
  <2>2. Fresh(check'[Main]) /\ Main \in Threads
    BY <2>1, FreshCurrent DEF Threads
  <2>3. \A t \in Threads \ {Main} : check'[t] = check[t]
    BY <1>4 DEF SessionsTypeOK
  <2> QED BY <1>1, <1>2, <2>1, <2>2, <2>3, FreshFrame DEF HeardInv
<1> QED BY <1>1, <1>3, <1>4

\* An event is delivered when no call of CheckMedia is running.
LEMMA HeardDeliver ==
  ASSUME SessionsTypeOK, ~ConcurrentDelivery, NEW t \in Threads, Deliver(t)
  PROVE  HeardInv'
<1>1. /\ \A u \in Threads : check[u].at = "idle"
      /\ check' = [check EXCEPT ![t] = [NoCheck EXCEPT !.at = "current"]]
      /\ UNCHANGED players
  BY DEF Deliver, Checking, CheckGoes
<1>2. check'[t].at = "current" /\ ~check'[t].others /\ \A u \in Threads \ {t} : check'[u].at = "idle"
  BY <1>1 DEF SessionsTypeOK, NoCheck
<1>3. Fresh(check'[t])
  BY <1>2, FreshCurrent
<1> QED BY <1>1, <1>2, <1>3, FreshFrame DEF HeardInv

LEMMA HeardCheck ==
  ASSUME SessionsTypeOK, OneTrackInv, HeardInv, NEW t \in Threads, CheckMedia(t)
  PROVE  HeardInv'
<1>1. UNCHANGED <<players, mediaEvents>> /\ check[t].at # "idle"
      /\ \A u \in Threads \ {t} : check'[u] = check[u]
  BY DEF CheckMedia, GetCurrentSession, TryGetMediaProperties, NoAnswer, GetPlaybackInfo,
         GetSessions, AskNext, AskedAll, Store, CheckThrows, CheckGoes, Checking, SessionsTypeOK
<1>2. UNCHANGED heard
  BY <1>1 DEF players
<1> SUFFICES ASSUME heard, mediaEvents = 0
             PROVE  /\ \A u \in Threads : check'[u].at # "idle" => Fresh(check[u])'
                    /\ (\A u \in Threads : check'[u].at = "idle") => mTitle' \in Findable'
  BY <1>1, <1>2 DEF HeardInv
<1>3. \A u \in Threads : check[u].at # "idle" => Fresh(check[u])
  BY DEF HeardInv
<1>4. \/ /\ Fresh(check'[t]) /\ check'[t].at # "idle" /\ UNCHANGED mTitle
      \/ mTitle' \in Findable /\ check'[t].at = "idle"
  BY <1>1, <1>3, FreshStep
<1> QED BY <1>1, <1>3, <1>4, FreshFrame

LEMMA HeardFrame ==
  ASSUME HeardInv, UNCHANGED <<players, mediaEvents, check, shown>>
  PROVE  HeardInv'
<1>1. UNCHANGED heard
  BY DEF players
<1> QED BY <1>1, FreshFrame DEF HeardInv, shown

\* If media events are delivered one at a time, a change that is heard ends in
\* a title that is right, although CheckMedia asks the sessions one by one
\* while they change, the constructor's call overlaps with one of an event, and
\* calls are cut short by sessions that vanish (lines 246-347).  Run overtake
\* shows that the assumption is needed.
THEOREM SessionsHeardChangeIsShown ==
  ASSUME ~ConcurrentDelivery
  PROVE  Spec => []HeardChangeIsShown
<1>1. Init => HeardInv
  BY DEF Init, HeardInv
<1>2. SessionsInv /\ OneTrackInv /\ HeardInv /\ [Next]_vars => HeardInv'
  <2> SUFFICES ASSUME SessionsInv, OneTrackInv, HeardInv, [Next]_vars PROVE HeardInv'
    OBVIOUS
  <2> USE DEF SessionsInv
  <2>1. CASE PlayersStep
    BY <2>1, HeardPlayers
  <2>2. CASE ConstructorStep
    BY <2>2, HeardConstructor
  <2>3. CASE HandlerStep
    BY <2>3, HeardFrame
    DEF HandlerStep, SessionsChanged, NextSession, HookMedia, HookPlayback, HookThrows,
        SessionsChangedDone
  <2>4. CASE \E t \in Threads : Deliver(t) \/ CheckMedia(t)
    BY <2>4, HeardDeliver, HeardCheck
  <2>5. CASE UNCHANGED vars
    BY <2>5, HeardFrame DEF vars
  <2> QED BY <2>1, <2>2, <2>3, <2>4, <2>5 DEF Next, Waiting
<1>3. HeardInv => HeardChangeIsShown
  BY DEF HeardInv, HeardChangeIsShown, Quiet, Checking
<1> QED BY <1>1, <1>2, <1>3, SessionsInvariant, OneTrackInvariant, PTL DEF Spec
=============================================================================
