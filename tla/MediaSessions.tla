--------------------------- MODULE MediaSessions ---------------------------
(***************************************************************************)
(* How the plugin of MediaStreamDeckPlugin.cpp listens to the media        *)
(* sessions of Windows and chooses the one it shows:                       *)
(*   - the constructor hooks the session that is current at startup;       *)
(*   - the SessionsChanged handler hooks every listed session, and keeps   *)
(*     the revokers of the hooks in mSessionHandlers, by application;      *)
(*   - a hook that fires runs CheckMedia, which asks the current session,  *)
(*     then the others, for their properties and their playback status.    *)
(*                                                                         *)
(* The sessions belong to the players: they appear, change and vanish      *)
(* between any two steps of the plugin.  A session object that vanished    *)
(* does not come back; a player that does has a new one of the same        *)
(* application.  A track stands for a title with its thumbnail, Untitled   *)
(* for an empty title.  What RefreshAllHandlers does with the result is in *)
(* module MediaStreamDeckPlugin.                                           *)
(***************************************************************************)
EXTENDS Integers, FiniteSets

CONSTANTS
  Main,                \* the thread that constructs the plugin
  Callbacks,           \* the threads on which media events are delivered
  Sessions,            \* the session objects that may ever exist
  Apps,                \* the applications, by SourceAppUserModelId
  AppOf,               \* the application of each session
  None,                \* no session
  Tracks,              \* the properties a session may report
  Untitled,            \* the properties with an empty title
  SharedApps,          \* may an application have two sessions at once?
  ConcurrentDelivery,  \* may a media event arrive while CheckMedia runs?
  MaxChanges           \* bound: changes of the sessions

Threads == Callbacks \cup {Main}

ASSUME SessionsAssumption ==
  /\ Main \notin Callbacks
  /\ None \notin Sessions
  /\ AppOf \in [Sessions -> Apps]
  /\ Untitled \in Tracks
  /\ {SharedApps, ConcurrentDelivery} \subseteq BOOLEAN
  /\ MaxChanges \in Nat

VARIABLES
  listed,            \* the sessions GetSessions returns
  gone,              \* the sessions that have vanished
  current,           \* the session GetCurrentSession returns
  media,             \* per session, its track and playback status
  changes,           \* how often the players have changed something
  heard,             \* did the last change raise a media event of the plugin?
  mediaHooks,        \* per session, revocable hooks on MediaPropertiesChanged
  playbackHooks,     \* per session, revocable hooks on PlaybackInfoChanged
  mSessionHandlers,  \* per application, the session its revokers are for
  constructor,       \* the constructor, and the session it hooks for ever
  handler,           \* the running SessionsChanged handler
  sessionEvents,     \* SessionsChanged events raised and delivered
  mediaEvents,       \* media events raised and not yet delivered
  check,             \* per thread, its call of CheckMedia
  mTitle,            \* the track whose title was stored last
  mImage             \* the track whose thumbnail was stored last

players == <<listed, gone, current, media, changes, heard>>
hookVars == <<mediaHooks, playbackHooks, mSessionHandlers>>
shown == <<mTitle, mImage>>
vars == <<players, hookVars, constructor, handler, sessionEvents, mediaEvents, check, shown>>

\* Of the values of PlaybackStatus only Playing is told apart.
Statuses == {"Playing", "Paused"}
Silent == [track |-> Untitled, status |-> "Paused"]
NoHandler == [at |-> "idle", todo |-> {}, session |-> None]
NoCheck == [at |-> "idle", session |-> None, others |-> FALSE, left |-> {},
            properties |-> Untitled, title |-> Untitled]

MediaType == [track : Tracks, status : Statuses]
HandlerType == [at : {"idle", "next", "media", "playback"}, todo : SUBSET Sessions,
                session : Sessions \cup {None}]
CheckType == [at : {"idle", "current", "properties", "status", "sessions", "next", "store"},
              session : Sessions \cup {None}, others : BOOLEAN, left : SUBSET Sessions,
              properties : Tracks, title : Tracks]
ConstructorType == [at : {"current", "media", "playback", "check", "done"},
                    session : Sessions \cup {None}]

\* The type invariant of the sessions.
SessionsTypeOK ==
  /\ listed \subseteq Sessions /\ gone \subseteq Sessions
  /\ current \in listed \cup {None}
  /\ media \in [Sessions -> MediaType]
  /\ changes \in Nat /\ heard \in BOOLEAN
  /\ mediaHooks \in [Sessions -> Nat] /\ playbackHooks \in [Sessions -> Nat]
  /\ mSessionHandlers \in [Apps -> Sessions \cup {None}]
  /\ constructor \in ConstructorType
  /\ handler \in HandlerType
  /\ sessionEvents \in [raised : Nat, delivered : Nat]
  /\ mediaEvents \in Nat
  /\ check \in [Threads -> CheckType]
  /\ mTitle \in Tracks /\ mImage \in Tracks

\* Sessions an application may have at the same time.
MayCoexist(S) == SharedApps \/ \A s, t \in S : s # t => AppOf[s] # AppOf[t]

\* The plugin has just subscribed to SessionsChanged; players may be running.
Init ==
  /\ listed \in {S \in SUBSET Sessions : MayCoexist(S)}
  /\ gone = {}
  /\ current \in listed \cup {None}
  /\ media \in {m \in [Sessions -> MediaType] : \A s \in Sessions \ listed : m[s] = Silent}
  /\ changes = 0 /\ heard = FALSE
  /\ mediaHooks = [s \in Sessions |-> 0] /\ playbackHooks = [s \in Sessions |-> 0]
  /\ mSessionHandlers = [a \in Apps |-> None]
  /\ constructor = [at |-> "current", session |-> None]
  /\ handler = NoHandler
  /\ sessionEvents = [raised |-> 0, delivered |-> 0]
  /\ mediaEvents = 0
  /\ check = [t \in Threads |-> NoCheck]
  /\ mTitle = Untitled /\ mImage = Untitled

-----------------------------------------------------------------------------
(* The players.                                                            *)

\* How often a change of session s is reported: by the constructor's hooks,
\* which are never revoked, and by those of the handler.
MediaListeners(s) ==
  mediaHooks[s] + (IF constructor.session = s /\ constructor.at \in {"playback", "check", "done"}
                     THEN 1 ELSE 0)
PlaybackListeners(s) ==
  playbackHooks[s] + (IF constructor.session = s /\ constructor.at \in {"check", "done"}
                        THEN 1 ELSE 0)

\* A change of the players that raises n media events.
Change(n) ==
  /\ changes < MaxChanges
  /\ changes' = changes + 1
  /\ mediaEvents' = mediaEvents + n
  /\ heard' = (n > 0)
  /\ UNCHANGED <<hookVars, constructor, handler, check, shown>>

ListChanged == sessionEvents' = [sessionEvents EXCEPT !.raised = @ + 1]

Appear(s) ==
  /\ s \notin listed \cup gone
  /\ MayCoexist(listed \cup {s})
  /\ Change(0)
  /\ listed' = listed \cup {s}
  /\ \E m \in MediaType : media' = [media EXCEPT ![s] = m]
  /\ ListChanged
  /\ UNCHANGED <<gone, current>>

\* A session ends.  It may or may not report the end of its playback.
Vanish(s) ==
  /\ s \in listed
  /\ \E n \in {0, PlaybackListeners(s)} : Change(n)
  /\ listed' = listed \ {s}
  /\ gone' = gone \cup {s}
  /\ IF current = s THEN current' \in listed' \cup {None} ELSE current' = current
  /\ media' = [media EXCEPT ![s] = Silent]
  /\ ListChanged

ChangeTrack(s) ==
  /\ s \in listed
  /\ Change(MediaListeners(s))
  /\ \E m \in Tracks \ {media[s].track} : media' = [media EXCEPT ![s].track = m]
  /\ UNCHANGED <<listed, gone, current, sessionEvents>>

ChangeStatus(s) ==
  /\ s \in listed
  /\ Change(PlaybackListeners(s))
  /\ \E p \in Statuses \ {media[s].status} : media' = [media EXCEPT ![s].status = p]
  /\ UNCHANGED <<listed, gone, current, sessionEvents>>

\* Windows chooses another current session.  The plugin does not subscribe to
\* CurrentSessionChanged.
ChangeCurrent ==
  /\ Change(0)
  /\ \E s \in (listed \cup {None}) \ {current} : current' = s
  /\ UNCHANGED <<listed, gone, media, sessionEvents>>

PlayersStep ==
  \/ \E s \in Sessions : Appear(s) \/ Vanish(s) \/ ChangeTrack(s) \/ ChangeStatus(s)
  \/ ChangeCurrent

-----------------------------------------------------------------------------
(* The constructor, after it has subscribed to SessionsChanged.            *)

ConstructorCurrent ==
  /\ constructor.at = "current"
  /\ constructor' = [at |-> IF current = None THEN "check" ELSE "media", session |-> current]
  /\ check' = IF current = None THEN [check EXCEPT ![Main].at = "current"] ELSE check
  /\ UNCHANGED <<players, hookVars, handler, sessionEvents, mediaEvents, shown>>

ConstructorHookMedia ==
  /\ constructor.at = "media"
  /\ constructor' = [constructor EXCEPT !.at = "playback"]
  /\ UNCHANGED <<players, hookVars, handler, sessionEvents, mediaEvents, check, shown>>

\* The second hook, and the call of CheckMedia.
ConstructorHookPlayback ==
  /\ constructor.at = "playback"
  /\ constructor' = [constructor EXCEPT !.at = "check"]
  /\ check' = [check EXCEPT ![Main].at = "current"]
  /\ UNCHANGED <<players, hookVars, handler, sessionEvents, mediaEvents, shown>>

Constructed ==
  /\ constructor.at = "check"
  /\ check[Main].at = "idle"
  /\ constructor' = [constructor EXCEPT !.at = "done"]
  /\ UNCHANGED <<players, hookVars, handler, sessionEvents, mediaEvents, check, shown>>

ConstructorStep ==
  ConstructorCurrent \/ ConstructorHookMedia \/ ConstructorHookPlayback \/ Constructed

-----------------------------------------------------------------------------
(* The SessionsChanged handler.  Windows runs one at a time.               *)

SessionsChanged ==
  /\ handler.at = "idle"
  /\ sessionEvents.delivered < sessionEvents.raised
  /\ sessionEvents' = [sessionEvents EXCEPT !.delivered = @ + 1]
  /\ handler' = [at |-> "next", todo |-> listed, session |-> None]
  /\ UNCHANGED <<players, hookVars, constructor, mediaEvents, check, shown>>

\* The hooks registered before for the same application are revoked, and their
\* entry is erased.
NextSession(s) ==
  LET old == mSessionHandlers[AppOf[s]] IN
  /\ handler.at = "next"
  /\ s \in handler.todo
  /\ handler' = [at |-> "media", todo |-> handler.todo \ {s}, session |-> s]
  /\ mediaHooks' = [r \in Sessions |-> mediaHooks[r] - IF r = old THEN 1 ELSE 0]
  /\ playbackHooks' = [r \in Sessions |-> playbackHooks[r] - IF r = old THEN 1 ELSE 0]
  /\ mSessionHandlers' = [mSessionHandlers EXCEPT ![AppOf[s]] = None]
  /\ UNCHANGED <<players, constructor, sessionEvents, mediaEvents, check, shown>>

HookMedia ==
  /\ handler.at = "media"
  /\ mediaHooks' = [mediaHooks EXCEPT ![handler.session] = @ + 1]
  /\ handler' = [handler EXCEPT !.at = "playback"]
  /\ UNCHANGED <<players, playbackHooks, mSessionHandlers, constructor, sessionEvents,
                 mediaEvents, check, shown>>

\* Fault: the old entry is looked for after the new one has been put in.
HookThenErase ==
  /\ handler.at = "playback"
  /\ mediaHooks' = [mediaHooks EXCEPT ![handler.session] = @ - 1]
  /\ handler' = [handler EXCEPT !.at = "next", !.session = None]
  /\ UNCHANGED <<players, playbackHooks, mSessionHandlers, constructor, sessionEvents,
                 mediaEvents, check, shown>>

\* The second hook; both revokers go into the map.
HookPlayback ==
  /\ handler.at = "playback"
  /\ playbackHooks' = [playbackHooks EXCEPT ![handler.session] = @ + 1]
  /\ mSessionHandlers' = [mSessionHandlers EXCEPT ![AppOf[handler.session]] = handler.session]
  /\ handler' = [handler EXCEPT !.at = "next", !.session = None]
  /\ UNCHANGED <<players, mediaHooks, constructor, sessionEvents, mediaEvents, check, shown>>

\* Fault: the first hook was registered without a revoker.
HookThrowsLeaking ==
  /\ handler.at \in {"media", "playback"}
  /\ handler.session \notin listed
  /\ handler' = NoHandler
  /\ UNCHANGED <<players, hookVars, constructor, sessionEvents, mediaEvents, check, shown>>

\* Fault: a revoker is destroyed that was not assigned yet.
HookThrowsEarly ==
  /\ handler.at \in {"media", "playback"}
  /\ handler.session \notin listed
  /\ mediaHooks' = [mediaHooks EXCEPT ![handler.session] = @ - 1]
  /\ handler' = NoHandler
  /\ UNCHANGED <<players, playbackHooks, mSessionHandlers, constructor, sessionEvents,
                 mediaEvents, check, shown>>

\* Hooking a session that has vanished may throw.  Nothing catches that in the
\* handler: it ends, and a revoker that is not in the map yet is destroyed.
HookThrows ==
  /\ handler.at \in {"media", "playback"}
  /\ handler.session \notin listed
  /\ mediaHooks' = IF handler.at = "playback"
                   THEN [mediaHooks EXCEPT ![handler.session] = @ - 1] ELSE mediaHooks
  /\ handler' = NoHandler
  /\ UNCHANGED <<players, playbackHooks, mSessionHandlers, constructor, sessionEvents,
                 mediaEvents, check, shown>>

SessionsChangedDone ==
  /\ handler.at = "next"
  /\ handler.todo = {}
  /\ handler' = NoHandler
  /\ UNCHANGED <<players, hookVars, constructor, sessionEvents, mediaEvents, check, shown>>

HandlerStep ==
  \/ SessionsChanged \/ (\E s \in Sessions : NextSession(s))
  \/ HookMedia \/ HookPlayback \/ HookThrows \/ SessionsChangedDone

-----------------------------------------------------------------------------
(* CheckMedia.                                                             *)

Checking(t, from) == check[t].at = from
CheckGoes(t, to) ==
  /\ check' = [check EXCEPT ![t] = to]
  /\ UNCHANGED <<players, hookVars, constructor, handler, sessionEvents>>

\* MediaChangedHandler or PlaybackChangedHandler is called on thread t.
Deliver(t) ==
  /\ t # Main
  /\ Checking(t, "idle")
  /\ mediaEvents > 0
  /\ ConcurrentDelivery \/ \A u \in Threads : Checking(u, "idle")
  /\ mediaEvents' = mediaEvents - 1
  /\ CheckGoes(t, [NoCheck EXCEPT !.at = "current"])
  /\ UNCHANGED shown

GetCurrentSession(t) ==
  /\ Checking(t, "current")
  /\ CheckGoes(t, [check[t] EXCEPT !.at = IF current = None THEN "sessions" ELSE "properties",
                                   !.session = current])
  /\ UNCHANGED <<mediaEvents, shown>>

TryGetMediaProperties(t) ==
  /\ Checking(t, "properties")
  /\ CheckGoes(t, [check[t] EXCEPT !.at = "status",
                                   !.properties = media[check[t].session].track])
  /\ UNCHANGED <<mediaEvents, shown>>

\* The session that was asked is not playing, or has no properties or no
\* playback information: another one is asked.
Unanswered(t) == IF check[t].others THEN "next" ELSE "sessions"

NoAnswer(t) ==
  /\ check[t].at \in {"properties", "status"}
  /\ check[t].session \notin listed
  /\ CheckGoes(t, [check[t] EXCEPT !.at = Unanswered(t)])
  /\ UNCHANGED <<mediaEvents, shown>>

GetPlaybackInfo(t) ==
  LET c == check[t]
      playing == media[c.session].status = "Playing" IN
  /\ Checking(t, "status")
  /\ CheckGoes(t,
       [c EXCEPT !.title = IF playing THEN c.properties ELSE @,
                 !.at = IF playing /\ (c.others \/ c.properties # Untitled)
                          THEN "store" ELSE Unanswered(t)])
  /\ UNCHANGED <<mediaEvents, shown>>

\* Fault: no other session is asked.
GetNoSessions(t) ==
  /\ Checking(t, "sessions")
  /\ CheckGoes(t, [check[t] EXCEPT !.at = "store", !.others = TRUE])
  /\ UNCHANGED <<mediaEvents, shown>>

GetSessions(t) ==
  /\ Checking(t, "sessions")
  /\ CheckGoes(t, [check[t] EXCEPT !.at = "next", !.others = TRUE, !.left = listed])
  /\ UNCHANGED <<mediaEvents, shown>>

\* The order in which Windows lists the sessions is not known.
AskNext(t) ==
  /\ Checking(t, "next")
  /\ \E s \in check[t].left :
       CheckGoes(t, [check[t] EXCEPT !.at = "properties", !.session = s, !.left = @ \ {s}])
  /\ UNCHANGED <<mediaEvents, shown>>

AskedAll(t) ==
  /\ Checking(t, "next")
  /\ check[t].left = {}
  /\ CheckGoes(t, [check[t] EXCEPT !.at = "store"])
  /\ UNCHANGED <<mediaEvents, shown>>

\* Fault: the thumbnail is that of the session asked last, title or not.
StoreLastImage(t) ==
  /\ Checking(t, "store")
  /\ mTitle' = check[t].title
  /\ mImage' = check[t].properties
  /\ CheckGoes(t, NoCheck)
  /\ UNCHANGED mediaEvents

\* The thumbnail is fetched from the properties read last, if there is a title.
Store(t) ==
  /\ Checking(t, "store")
  /\ mTitle' = check[t].title
  /\ mImage' = IF check[t].title = Untitled THEN Untitled ELSE check[t].properties
  /\ CheckGoes(t, NoCheck)
  /\ UNCHANGED mediaEvents

\* A session that has vanished makes a call throw: CheckMedia gives up.
CheckThrows(t) ==
  /\ \/ check[t].at \in {"properties", "status"}
     \/ Checking(t, "store") /\ check[t].title # Untitled
  /\ check[t].session \notin listed
  /\ CheckGoes(t, NoCheck)
  /\ UNCHANGED <<mediaEvents, shown>>

CheckMedia(t) ==
  \/ GetCurrentSession(t) \/ TryGetMediaProperties(t) \/ NoAnswer(t) \/ GetPlaybackInfo(t)
  \/ GetSessions(t) \/ AskNext(t) \/ AskedAll(t) \/ Store(t) \/ CheckThrows(t)

-----------------------------------------------------------------------------
\* The plugin has nothing to do until the players change something.
Quiet ==
  /\ constructor.at = "done"
  /\ handler.at = "idle" /\ sessionEvents.delivered = sessionEvents.raised
  /\ mediaEvents = 0 /\ \A t \in Threads : Checking(t, "idle")

Waiting == Quiet /\ UNCHANGED vars

Next ==
  \/ PlayersStep \/ ConstructorStep \/ HandlerStep
  \/ \E t \in Threads : Deliver(t) \/ CheckMedia(t)
  \/ Waiting

Spec == Init /\ [][Next]_vars

-----------------------------------------------------------------------------
(* Safety.                                                                 *)

\* The hooks that exist are those whose revokers the map holds, plus the one
\* the running handler has registered and not yet put into the map: none is
\* leaked when a handler is cut short, none is doubled when it runs again, and
\* none is revoked twice (lines 128-144).
RevokersOwnHooks ==
  \A s \in Sessions :
    LET held == IF mSessionHandlers[AppOf[s]] = s THEN 1 ELSE 0
        local == IF handler.at = "playback" /\ handler.session = s THEN 1 ELSE 0
    IN mediaHooks[s] = held + local /\ playbackHooks[s] = held

\* Once the list of sessions has changed and the handler has caught up, the
\* plugin hears every listed session (lines 124-125: the existing handlers are
\* cancelled and new ones registered to keep everything in sync), even if
\* handlers were cut short by sessions that vanished under them.
ListedSessionsHooked ==
  (/\ sessionEvents.raised > 0 /\ sessionEvents.delivered = sessionEvents.raised
   /\ handler.at = "idle")
  => \A s \in listed : mediaHooks[s] = 1 /\ playbackHooks[s] = 1

\* Title and thumbnail belong to one track, although CheckMedia reuses the
\* properties object from session to session (lines 249-325).
TitleAndImageOfOneTrack == mImage = mTitle

\* What CheckMedia would find if nothing changed while it runs: the title of
\* the current session if it is playing one, else that of a playing session.
Playing == {s \in listed : media[s].status = "Playing"}
Findable ==
  IF current \in Playing /\ media[current].track # Untitled
  THEN {media[current].track}
  ELSE IF Playing = {} THEN {Untitled} ELSE {media[s].track : s \in Playing}

\* At rest, if the last change was reported to the plugin at all, the stored
\* title is one that is playing now, whatever changed, appeared or vanished
\* while CheckMedia asked the sessions one by one (lines 246-347).
HeardChangeIsShown == Quiet /\ heard => mTitle \in Findable
=============================================================================
