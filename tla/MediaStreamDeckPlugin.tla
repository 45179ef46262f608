----------------------- MODULE MediaStreamDeckPlugin -----------------------
(***************************************************************************)
(* The plugin object of MediaStreamDeckPlugin.cpp and the threads that use *)
(* it at the same time:                                                    *)
(*   - Main, which constructs the plugin, then runs the websocket loop and *)
(*     handles one Stream Deck message at a time, and in the end deletes   *)
(*     the plugin (main.cpp);                                              *)
(*   - the callback threads on which Windows reports media changes, each   *)
(*     of which runs CheckMedia;                                           *)
(*   - one worker thread per button, inside its ButtonHandler, which runs  *)
(*     HandleButton over and over.                                         *)
(* They share the map mContextHandlers, guarded by mContextHandlersMutex,  *)
(* and the pair mTitle, mImage, guarded by mButtonDataMutex.  The handler  *)
(* objects are those of module ButtonHandler.                              *)
(*                                                                         *)
(* One media value stands for one playing item with its title and its      *)
(* thumbnail, NoMedia for nothing playing (empty title, empty image).      *)
(***************************************************************************)
EXTENDS ButtonHandler, TitleScroll

CONSTANTS
  Main,                \* the main thread
  Callbacks,           \* the threads on which media events are delivered
  None,                \* the owner of a free mutex; no context
  Media,               \* what may be playing
  NoMedia,             \* nothing is playing
  FontSizes,           \* the font sizes Stream Deck reports
  ConcurrentDelivery,  \* may a media event arrive while CheckMedia runs?
  WinRTFails,          \* may a WinRT call of CheckMedia throw?
  CanClose,            \* may the connection to Stream Deck be closed?
  MaxChanges,          \* bound: changes of the playing media
  MaxMessages          \* bound: messages from Stream Deck

Checkers == Callbacks \cup {Main}

ASSUME ThreadsAssumption ==
  /\ Main \notin Callbacks
  /\ None \notin Checkers \cup Contexts
  /\ Checkers \cap Contexts = {}
ASSUME DataAssumption ==
  /\ NoMedia \in Media
  /\ FontSizes \subseteq Nat \ {0, 1}
  /\ {TextWidth(f) : f \in FontSizes} \subseteq Widths
ASSUME BoundsAssumption ==
  /\ {ConcurrentDelivery, WinRTFails, CanClose} \subseteq BOOLEAN
  /\ {MaxChanges, MaxMessages} \subseteq Nat

VARIABLES
  mContextHandlers,  \* the contexts that have an entry in the map
  contextsMutex,     \* the owner of mContextHandlersMutex
  dataMutex,         \* the owner of mButtonDataMutex
  mTitle,            \* the media whose title is in mTitle
  mImage,            \* the media whose thumbnail is in mImage
  main,              \* where Main is, and the context of the message it handles
  checker,           \* per thread, its call of CheckMedia
  button,            \* per context, its worker's call of HandleButton
  deck,              \* per context, the title and image last sent to its button
  media,             \* what is playing
  events,            \* media events raised and not yet delivered
  changes,           \* how often the playing media has changed
  messages           \* how many messages Main has received

vars == <<handlerVars, mContextHandlers, contextsMutex, dataMutex, mTitle, mImage,
          main, checker, button, deck, media, events, changes, messages>>

environment == <<media, events, changes, messages>>
pluginData == <<mContextHandlers, mTitle, mImage>>

MainStates == {"construct", "run", "lockStart", "setRefresh", "start", "starting",
               "lockErase", "delete", "deleting", "destruct", "freed"}
CheckStates == {"idle", "sample", "lockData", "writeImage", "writeTitle",
                "lockContexts", "refreshAll"}
ButtonStates == {"args", "argRefresh", "argWidth", "entry", "image", "title", "draw"}

CheckType == [at : CheckStates, sample : Media, todo : SUBSET Contexts]
ButtonType == [at : ButtonStates, refresh : BOOLEAN, width : Widths \cup {0},
               title : Media]
DeckType == [title : Media, image : Media]

NewCall == [at |-> "args", refresh |-> FALSE, width |-> 0, title |-> NoMedia]
Listening == [at |-> "run", context |-> None]
NoCheck == [at |-> "idle", sample |-> NoMedia, todo |-> {}]

\* The type invariant of the plugin.
TypeOK ==
  /\ HandlerTypeOK
  /\ mContextHandlers \subseteq Contexts
  /\ contextsMutex \in Checkers \cup {None}
  /\ dataMutex \in Checkers \cup Contexts \cup {None}
  /\ mTitle \in Media /\ mImage \in Media
  /\ main \in [at : MainStates, context : Contexts \cup {None}]
  /\ checker \in [Checkers -> CheckType]
  /\ button \in [Contexts -> ButtonType]
  /\ deck \in [Contexts -> DeckType]
  /\ media \in Media
  /\ events \in Nat /\ changes \in Nat /\ messages \in Nat

\* The constructor has registered its hooks and calls CheckMedia on Main.
Init ==
  /\ HandlerInit
  /\ mContextHandlers = {}
  /\ contextsMutex = None /\ dataMutex = None
  /\ mTitle = NoMedia /\ mImage = NoMedia
  /\ main = [at |-> "construct", context |-> None]
  /\ checker = [[t \in Checkers |-> NoCheck] EXCEPT ![Main].at = "sample"]
  /\ button = [c \in Contexts |-> NewCall]
  /\ deck = [c \in Contexts |-> [title |-> NoMedia, image |-> NoMedia]]
  /\ media \in Media
  /\ events = 0 /\ changes = 0 /\ messages = 0

-----------------------------------------------------------------------------
(* CheckMedia, on Main in the constructor and on the callback threads.     *)

\* The playing media changes, and Windows raises an event for it.
MediaChange ==
  /\ changes < MaxChanges
  /\ \E m \in Media \ {media} : media' = m
  /\ events' = events + 1
  /\ changes' = changes + 1
  /\ UNCHANGED <<handlerVars, pluginData, contextsMutex, dataMutex, main, checker,
                 button, deck, messages>>

\* MediaChangedHandler or PlaybackChangedHandler is called on thread t.
Deliver(t) ==
  /\ t # Main
  /\ events > 0
  /\ checker[t].at = "idle"
  /\ ConcurrentDelivery \/ \A u \in Checkers : checker[u].at = "idle"
  /\ events' = events - 1
  /\ checker' = [checker EXCEPT ![t].at = "sample"]
  /\ UNCHANGED <<handlerVars, pluginData, contextsMutex, dataMutex, main, button,
                 deck, media, changes, messages>>

\* The media is sampled into currentTitle and currentImage.
Sample(t) ==
  /\ checker[t].at = "sample"
  /\ checker' = [checker EXCEPT ![t] = [@ EXCEPT !.at = "lockData", !.sample = media]]
  /\ UNCHANGED <<handlerVars, pluginData, contextsMutex, dataMutex, main, button,
                 deck, environment>>

\* A WinRT call throws: the exception is caught and CheckMedia returns.
SampleThrows(t) ==
  /\ WinRTFails
  /\ checker[t].at = "sample"
  /\ checker' = [checker EXCEPT ![t] = NoCheck]
  /\ UNCHANGED <<handlerVars, pluginData, contextsMutex, dataMutex, main, button,
                 deck, environment>>

LockData(t) ==
  /\ checker[t].at = "lockData"
  /\ dataMutex = None
  /\ dataMutex' = t
  /\ checker' = [checker EXCEPT ![t].at = "writeImage"]
  /\ UNCHANGED <<handlerVars, pluginData, contextsMutex, main, button, deck, environment>>

WriteImage(t) ==
  /\ checker[t].at = "writeImage"
  /\ mImage' = checker[t].sample
  /\ checker' = [checker EXCEPT ![t].at = "writeTitle"]
  /\ UNCHANGED <<handlerVars, mContextHandlers, mTitle, contextsMutex, dataMutex, main,
                 button, deck, environment>>

\* The title is written and the lock released.
WriteTitle(t) ==
  /\ checker[t].at = "writeTitle"
  /\ mTitle' = checker[t].sample
  /\ dataMutex' = None
  /\ checker' = [checker EXCEPT ![t].at = "lockContexts"]
  /\ UNCHANGED <<handlerVars, mContextHandlers, mImage, contextsMutex, main, button,
                 deck, environment>>

\* RefreshAllHandlers locks the map and iterates over its entries.
LockContexts(t) ==
  /\ checker[t].at = "lockContexts"
  /\ contextsMutex = None
  /\ contextsMutex' = t
  /\ checker' = [checker EXCEPT ![t] = [@ EXCEPT !.at = "refreshAll",
                                                !.todo = mContextHandlers]]
  /\ UNCHANGED <<handlerVars, pluginData, dataMutex, main, button, deck, environment>>

RefreshOne(t, c) ==
  /\ checker[t].at = "refreshAll"
  /\ c \in checker[t].todo
  /\ SetRefresh(c, TRUE)
  /\ checker' = [checker EXCEPT ![t].todo = @ \ {c}]
  /\ UNCHANGED <<pluginData, contextsMutex, dataMutex, main, button, deck, environment>>

UnlockContexts(t) ==
  /\ checker[t].at = "refreshAll"
  /\ checker[t].todo = {}
  /\ contextsMutex' = None
  /\ checker' = [checker EXCEPT ![t] = NoCheck]
  /\ UNCHANGED <<handlerVars, pluginData, dataMutex, main, button, deck, environment>>

CheckStep(t) ==
  \/ Sample(t) \/ SampleThrows(t)
  \/ LockData(t) \/ WriteImage(t) \/ WriteTitle(t)
  \/ LockContexts(t) \/ (\E c \in Contexts : RefreshOne(t, c)) \/ UnlockContexts(t)

-----------------------------------------------------------------------------
(* HandleButton, on the worker of a context.                               *)

Call(c, from) == worker[c] = "call" /\ button[c].at = from

\* The lambda evaluates handler->refresh() and handler->text_width(), each
\* under the object's mutex, in an order C++ leaves open.
ReadRefresh(c) ==
  /\ \/ /\ Call(c, "args")
        /\ button' = [button EXCEPT ![c] = [@ EXCEPT !.at = "argWidth",
                                                     !.refresh = doRefresh[c]]]
     \/ /\ Call(c, "argRefresh")
        /\ button' = [button EXCEPT ![c] = [@ EXCEPT !.at = "entry",
                                                     !.refresh = doRefresh[c]]]
  /\ UNCHANGED <<handlerVars, pluginData, contextsMutex, dataMutex, main, checker,
                 deck, environment>>

ReadWidth(c) ==
  /\ \/ /\ Call(c, "args")
        /\ button' = [button EXCEPT ![c] = [@ EXCEPT !.at = "argRefresh",
                                                     !.width = textWidth[c]]]
     \/ /\ Call(c, "argWidth")
        /\ button' = [button EXCEPT ![c] = [@ EXCEPT !.at = "entry",
                                                     !.width = textWidth[c]]]
  /\ UNCHANGED <<handlerVars, pluginData, contextsMutex, dataMutex, main, checker,
                 deck, environment>>

\* mConnectionManager is set once the constructor has returned.
HasConnectionManager == main.at # "construct"

\* Not all invariants are established yet: nothing is drawn, the tick is 0.
NotReady(c) ==
  /\ Call(c, "entry")
  /\ ~HasConnectionManager \/ button[c].width = 0
  /\ WorkerReturn(c, 0)
  /\ button' = [button EXCEPT ![c] = NewCall]
  /\ UNCHANGED <<pluginData, contextsMutex, dataMutex, main, checker, deck, environment>>

\* Fault: the media data is read without the lock.
ButtonWithoutLock(c) ==
  /\ Call(c, "entry")
  /\ HasConnectionManager /\ button[c].width # 0
  /\ button' = [button EXCEPT ![c].at = IF button[c].refresh THEN "image" ELSE "title"]
  /\ dataMutex' = c
  /\ UNCHANGED <<handlerVars, pluginData, contextsMutex, main, checker, deck, environment>>

\* Fault: the worker also takes the lock of the map, as the comment in
\* WillDisappearForAction (lines 448-450) says it does.
ButtonNeedsMap(c) ==
  /\ Call(c, "entry")
  /\ HasConnectionManager /\ button[c].width # 0
  /\ contextsMutex = None /\ dataMutex = None
  /\ dataMutex' = c
  /\ button' = [button EXCEPT ![c].at = IF button[c].refresh THEN "image" ELSE "title"]
  /\ UNCHANGED <<handlerVars, pluginData, contextsMutex, main, checker, deck, environment>>

\* The media data is read under its lock.
ButtonLock(c) ==
  /\ Call(c, "entry")
  /\ HasConnectionManager /\ button[c].width # 0
  /\ dataMutex = None
  /\ dataMutex' = c
  /\ button' = [button EXCEPT ![c].at = IF button[c].refresh THEN "image" ELSE "title"]
  /\ UNCHANGED <<handlerVars, pluginData, contextsMutex, main, checker, deck, environment>>

\* SetImage, under the lock.
DrawImage(c) ==
  /\ Call(c, "image")
  /\ deck' = [deck EXCEPT ![c].image = mImage]
  /\ button' = [button EXCEPT ![c].at = "title"]
  /\ UNCHANGED <<handlerVars, pluginData, contextsMutex, dataMutex, main, checker,
                 environment>>

\* The title is copied and the lock released.
CopyTitle(c) ==
  /\ Call(c, "title")
  /\ button' = [button EXCEPT ![c] = [@ EXCEPT !.at = "draw", !.title = mTitle]]
  /\ dataMutex' = None
  /\ UNCHANGED <<handlerVars, pluginData, contextsMutex, main, checker, deck, environment>>

\* Fault: the title is only sent with a refresh.
DrawTitleOnRefresh(c) ==
  /\ Call(c, "draw")
  /\ deck' = [deck EXCEPT ![c].title = IF button[c].refresh THEN button[c].title ELSE @]
  /\ WorkerReturn(c, 1)
  /\ button' = [button EXCEPT ![c] = NewCall]
  /\ UNCHANGED <<pluginData, contextsMutex, dataMutex, main, checker, environment>>

\* SetTitle; the tick returned is positive.
DrawTitle(c) ==
  /\ Call(c, "draw")
  /\ deck' = [deck EXCEPT ![c].title = button[c].title]
  /\ WorkerReturn(c, 1)
  /\ button' = [button EXCEPT ![c] = NewCall]
  /\ UNCHANGED <<pluginData, contextsMutex, dataMutex, main, checker, environment>>

HandleButton(c) ==
  \/ ReadRefresh(c) \/ ReadWidth(c) \/ NotReady(c)
  \/ ButtonLock(c) \/ DrawImage(c) \/ CopyTitle(c) \/ DrawTitle(c)

\* The steps of ButtonHandler's own loop.
WorkerLoopStep(c) ==
  /\ WorkerStep(c)
  /\ UNCHANGED <<pluginData, contextsMutex, dataMutex, main, checker, button, deck,
                 environment>>

-----------------------------------------------------------------------------
(* The messages Main handles.                                              *)

Receive ==
  /\ main.at = "run"
  /\ messages < MaxMessages
  /\ messages' = messages + 1
  /\ UNCHANGED <<media, events, changes>>

\* The title is blanked so that Stream Deck answers with the font size; the
\* rest is StartButtonHandler.
ReceiveSettings(c) ==
  /\ Receive
  /\ deck' = [deck EXCEPT ![c].title = NoMedia]
  /\ main' = [at |-> "lockStart", context |-> c]
  /\ UNCHANGED <<handlerVars, pluginData, contextsMutex, dataMutex, checker, button>>

WillAppearForAction(c) == ReceiveSettings(c)

\* Fault: a handler is created although the context has one.
StartAlwaysNew ==
  LET c == main.context IN
  /\ main.at = "lockStart"
  /\ contextsMutex = None
  /\ contextsMutex' = Main
  /\ New(c) /\ mContextHandlers' = mContextHandlers \cup {c}
  /\ main' = [main EXCEPT !.at = "setRefresh"]
  /\ UNCHANGED <<mTitle, mImage, dataMutex, checker, button, deck, environment>>

\* StartButtonHandler takes the lock and finds or creates the handler.
StartLock ==
  LET c == main.context IN
  /\ main.at = "lockStart"
  /\ contextsMutex = None
  /\ contextsMutex' = Main
  /\ IF c \in mContextHandlers
       THEN UNCHANGED <<handlerVars, mContextHandlers>>
       ELSE New(c) /\ mContextHandlers' = mContextHandlers \cup {c}
  /\ main' = [main EXCEPT !.at = "setRefresh"]
  /\ UNCHANGED <<mTitle, mImage, dataMutex, checker, button, deck, environment>>

StartSetRefresh ==
  /\ main.at = "setRefresh"
  /\ SetRefresh(main.context, TRUE)
  /\ main' = [main EXCEPT !.at = "start"]
  /\ UNCHANGED <<pluginData, contextsMutex, dataMutex, checker, button, deck, environment>>

StartCall ==
  /\ main.at = "start"
  /\ Start(main.context)
  /\ main' = [main EXCEPT !.at = "starting"]
  /\ UNCHANGED <<pluginData, contextsMutex, dataMutex, checker, button, deck, environment>>

\* start() has returned or thrown; either way the lock is released.
StartDone ==
  /\ main.at = "starting"
  /\ call[main.context] = "none"
  /\ contextsMutex' = None
  /\ main' = Listening
  /\ UNCHANGED <<handlerVars, pluginData, dataMutex, checker, button, deck, environment>>

\* WillDisappear looks the context up without the lock.
WillDisappearForAction(c) ==
  /\ Receive
  /\ main' = IF c \in mContextHandlers THEN [at |-> "lockErase", context |-> c] ELSE main
  /\ UNCHANGED <<handlerVars, pluginData, contextsMutex, dataMutex, checker, button, deck>>

\* Faults: the entry is erased without the lock; the handler is never deleted.
EraseUnlocked ==
  /\ main.at = "lockErase"
  /\ mContextHandlers' = mContextHandlers \ {main.context}
  /\ main' = [main EXCEPT !.at = "delete"]
  /\ UNCHANGED <<handlerVars, mTitle, mImage, contextsMutex, dataMutex, checker, button,
                 deck, environment>>

EraseWithoutDelete ==
  /\ main.at = "lockErase"
  /\ contextsMutex = None
  /\ mContextHandlers' = mContextHandlers \ {main.context}
  /\ main' = Listening
  /\ UNCHANGED <<handlerVars, mTitle, mImage, contextsMutex, dataMutex, checker, button,
                 deck, environment>>

\* The entry is erased in a critical section of its own.
EraseEntry ==
  /\ main.at = "lockErase"
  /\ contextsMutex = None
  /\ mContextHandlers' = mContextHandlers \ {main.context}
  /\ main' = [main EXCEPT !.at = "delete"]
  /\ UNCHANGED <<handlerVars, mTitle, mImage, contextsMutex, dataMutex, checker, button,
                 deck, environment>>

DeleteHandler ==
  /\ main.at = "delete"
  /\ Delete(main.context)
  /\ main' = [main EXCEPT !.at = "deleting"]
  /\ UNCHANGED <<pluginData, contextsMutex, dataMutex, checker, button, deck, environment>>

DeleteDone ==
  /\ main.at = "deleting"
  /\ call[main.context] = "none"
  /\ main' = Listening
  /\ UNCHANGED <<handlerVars, pluginData, contextsMutex, dataMutex, checker, button,
                 deck, environment>>

\* Fault: the font size itself is taken for the text width.
SetWidthToFontSize(c) ==
  /\ Receive
  /\ contextsMutex = None
  /\ IF c \in mContextHandlers
       THEN \E f \in FontSizes : SetTextWidth(c, f)
       ELSE UNCHANGED handlerVars
  /\ UNCHANGED <<pluginData, contextsMutex, dataMutex, main, checker, button, deck>>

\* The width follows the font size, if the button still has a handler.
TitleParametersDidChange(c) ==
  /\ Receive
  /\ contextsMutex = None
  /\ IF c \in mContextHandlers
       THEN \E f \in FontSizes : SetTextWidth(c, TextWidth(f))
       ELSE UNCHANGED handlerVars
  /\ UNCHANGED <<pluginData, contextsMutex, dataMutex, main, checker, button, deck>>

\* Main's part of start() and of ~ButtonHandler.
MainCallStep(c) ==
  /\ CallStep(c)
  /\ UNCHANGED <<pluginData, contextsMutex, dataMutex, main, checker, button, deck,
                 environment>>

-----------------------------------------------------------------------------
(* The life of the plugin object on Main (main.cpp).                       *)

\* The constructor returns, the connection manager is set, the loop runs.
Constructed ==
  /\ main.at = "construct"
  /\ checker[Main].at = "idle"
  /\ main' = Listening
  /\ UNCHANGED <<handlerVars, pluginData, contextsMutex, dataMutex, checker, button,
                 deck, environment>>

\* The connection is closed or fails: Run() returns, the plugin is deleted.
Close ==
  /\ CanClose
  /\ main.at = "run"
  /\ main' = [main EXCEPT !.at = "destruct"]
  /\ UNCHANGED <<handlerVars, pluginData, contextsMutex, dataMutex, checker, button,
                 deck, environment>>

\* ~MediaStreamDeckPlugin deletes every handler, without the lock.
DestructHandler(c) ==
  /\ main.at = "destruct"
  /\ c \in mContextHandlers \cap live
  /\ \A d \in Contexts : call[d] = "none"
  /\ Delete(c)
  /\ UNCHANGED <<pluginData, contextsMutex, dataMutex, main, checker, button, deck,
                 environment>>

Destructed ==
  /\ main.at = "destruct"
  /\ mContextHandlers \cap live = {}
  /\ main' = [main EXCEPT !.at = "freed"]
  /\ UNCHANGED <<handlerVars, pluginData, contextsMutex, dataMutex, checker, button,
                 deck, environment>>

\* Nothing to do: Main waits for a message, no callback and no worker runs;
\* or Main has returned, and the process ends with every thread in it.
Waiting ==
  /\ \/ /\ main.at = "run"
        /\ \A t \in Checkers : checker[t].at = "idle"
        /\ \A c \in Contexts : worker[c] = "none"
     \/ main.at = "freed"
  /\ UNCHANGED vars

Message(c) ==
  \/ WillAppearForAction(c) \/ ReceiveSettings(c)
  \/ WillDisappearForAction(c) \/ TitleParametersDidChange(c)

MainStep ==
  \/ Constructed \/ StartLock \/ StartSetRefresh \/ StartCall \/ StartDone
  \/ EraseEntry \/ DeleteHandler \/ DeleteDone
  \/ (\E c \in Contexts : MainCallStep(c) \/ DestructHandler(c))
  \/ Destructed

Next ==
  \/ MediaChange
  \/ \E t \in Checkers : Deliver(t) \/ CheckStep(t)
  \/ \E c \in Contexts : WorkerLoopStep(c) \/ HandleButton(c) \/ Message(c)
  \/ MainStep
  \/ Close
  \/ Waiting

Spec == Init /\ [][Next]_vars

(***************************************************************************)
(* Fairness.  Every thread that can run is run, and Windows delivers the   *)
(* events it raised.  mButtonDataMutex is taken by every worker on every   *)
(* pass, for ever, so waiting for it needs strong fairness: each of them   *)
(* holds it for an instant and then sleeps for its interval, so that a     *)
(* waiter gets its turn.  Stream Deck and the media owe us nothing: no     *)
(* message, change or close is fair.                                       *)
(***************************************************************************)
Fairness ==
  /\ WF_vars(MainStep)
  /\ \A t \in Checkers : /\ WF_vars(Deliver(t) \/ CheckStep(t))
                        /\ SF_vars(LockData(t))
  /\ \A c \in Contexts : /\ WF_vars(WorkerLoopStep(c) \/ HandleButton(c))
                        /\ SF_vars(ButtonLock(c))

FairSpec == Spec /\ Fairness

-----------------------------------------------------------------------------
(* What must hold.                                                         *)

\* Before the plugin is being deleted.
Serving == main.at \notin {"destruct", "freed"}

\* RefreshAllHandlers never touches a deleted handler: what it still has to
\* visit is alive although WillDisappear deletes outside the lock (line 459)
\* and looks up outside it (line 451).
RefreshVisitsLiveHandlers ==
  Serving => \A t \in Checkers : checker[t].todo \subseteq live

\* Title and image are those of one sample of the media, both in the shared
\* pair whenever no CheckMedia is writing it, and on a button that has just
\* been sent its image and is about to be sent its title.
TitleAndImageMatch ==
  /\ dataMutex \notin Checkers => mTitle = mImage
  /\ \A c \in Contexts :
       button[c].at = "draw" /\ button[c].refresh => deck[c].image = button[c].title

\* When no message is being handled, the handlers that exist are exactly
\* those in the map: a button that disappeared leaves no handler and no
\* worker behind, and every button that appeared has its handler.
HandlersMatchMap ==
  main.at = "run" => live = mContextHandlers

\* Between samples the stored title is that of the playing media: "it all
\* ends up eventually correct" (line 298).
TitleCurrentWhenQuiet ==
  (events = 0 /\ \A t \in Checkers : checker[t].at = "idle") => mTitle = media

\* No CheckMedia has data of which it still has to tell the buttons.
NothingToTell ==
  \A t \in Checkers : checker[t].at \in {"idle", "sample", "lockData"}

\* A refresh that is not set any more has been drawn: "mark the refresh as
\* done, otherwise it stays set until a draw happens" (lines 88-89).
RefreshStaysUntilDrawn ==
  \A c \in mContextHandlers :
    (NothingToTell /\ worker[c] \in {"sleep", "loop"} /\ ~doRefresh[c])
      => deck[c].image = mImage

\* No media callback runs in a plugin that has been deleted: the handlers
\* "verify 'this' is valid" (lines 182-183).
CallbacksSeeLivePlugin ==
  main.at = "freed" => \A t \in Callbacks : checker[t].at = "idle"

\* The plugin uses every handler object by the contract of its class.
UsesHandlersByContract == HandlerSpec

\* Every message is handled to the end and every close ends the process: the
\* joins under mContextHandlersMutex (lines 482-495) and in the destructors
\* never wait for each other.
MessagesAreHandled ==
  main.at \notin {"construct", "run", "freed"} ~> main.at \in {"run", "freed"}

\* A button that has a worker and knows its text width ends up showing the
\* stored title, whatever was lost or overtaken before.
ButtonShowsTitle ==
  \A c \in Contexts :
    <>[](main.at = "run" /\ worker[c] # "none" /\ textWidth[c] # 0
           => deck[c].title = mTitle)

=============================================================================
