-------------------- MODULE MediaStreamDeckPlugin_proofs --------------------
(***************************************************************************)
(* Proofs about the plugin, for any number of buttons, callback threads,   *)
(* messages and media changes, and whether or not it is closed.            *)
(*                                                                         *)
(* The inductive invariant PluginInv says who holds each mutex (LockInv),  *)
(* how the map, the objects that exist and the message in progress agree   *)
(* (MapInv), what RefreshAllHandlers may still visit (VisitInv), and which *)
(* media the title and the image are those of (DataInv); the state of each *)
(* handler object is that of ButtonHandler's own invariant, HandlerInv.    *)
(***************************************************************************)
EXTENDS MediaStreamDeckPlugin, ButtonHandler_proofs

\* Main is inside StartButtonHandler and holds mContextHandlersMutex.
Starting == {"setRefresh", "start", "starting"}

\* Main is inside WillDisappearForAction and has erased the entry.
Erased == {"delete", "deleting"}

LockInv ==
  /\ \A t \in Callbacks : checker[t].at = "refreshAll" <=> contextsMutex = t
  /\ checker[Main].at = "refreshAll" \/ main.at \in Starting <=> contextsMutex = Main
  /\ \A t \in Checkers :
       checker[t].at \in {"writeImage", "writeTitle"} <=> dataMutex = t
  /\ \A c \in Contexts : button[c].at \in {"image", "title"} <=> dataMutex = c
  /\ main.at # "construct" => checker[Main].at = "idle"

\* The object that has left the map and is not freed yet.
Dying ==
  IF main.at = "delete" \/ (main.at = "deleting" /\ call[main.context] = "deleteJoin")
    THEN {main.context} ELSE {}

MapInv ==
  /\ main.at \in {"lockStart", "lockErase"} => main.context \in Contexts
  /\ main.at \in Starting \cup {"lockErase"} => main.context \in mContextHandlers
  /\ main.at \in Erased => main.context \in Contexts \ mContextHandlers
  /\ Serving => live = mContextHandlers \cup Dying
  /\ ~Serving => live \subseteq mContextHandlers
  /\ \A c \in Contexts :
       /\ call[c] \in {"startJoin", "startSpawn"} => main.at = "starting" /\ main.context = c
       /\ call[c] = "deleteJoin" => \/ main.at = "destruct"
                                    \/ main.at = "deleting" /\ main.context = c

VisitInv ==
  \A t \in Checkers :
    /\ checker[t].at # "refreshAll" => checker[t].todo = {}
    /\ Serving => checker[t].todo \subseteq mContextHandlers

DataInv ==
  /\ \A t \in Checkers : checker[t].at = "writeTitle" => mImage = checker[t].sample
  /\ (\A t \in Checkers : checker[t].at # "writeTitle") => mTitle = mImage
  /\ \A c \in Contexts : button[c].refresh =>
       /\ button[c].at = "title" => deck[c].image = mImage
       /\ button[c].at = "draw" => deck[c].image = button[c].title

PluginInv == TypeOK /\ HandlerInv /\ LockInv /\ MapInv /\ VisitInv /\ DataInv

-----------------------------------------------------------------------------
(* Frames: a part of the invariant only speaks of some of the state.        *)

LEMMA LockFrame ==
  ASSUME LockInv, UNCHANGED <<contextsMutex, dataMutex, main, checker, button>>
  PROVE  LockInv'
BY DEF LockInv

LEMMA MapFrame ==
  ASSUME MapInv, UNCHANGED <<live, call, mContextHandlers, main>>
  PROVE  MapInv'
BY DEF MapInv, Dying, Serving

LEMMA VisitFrame ==
  ASSUME VisitInv, UNCHANGED <<mContextHandlers, main, checker>>
  PROVE  VisitInv'
BY DEF VisitInv, Serving

LEMMA DataFrame ==
  ASSUME DataInv, UNCHANGED <<mTitle, mImage, checker, button, deck>>
  PROVE  DataInv'
BY DEF DataInv

-----------------------------------------------------------------------------
(* The type invariant.  The states of CheckMedia, of HandleButton and of    *)
(* the deck change for one thread or button at a time.                      *)

LEMMA CheckerTypeInv ==
  ASSUME TypeOK, NEW t \in Checkers, NEW r \in CheckType,
         checker' = [checker EXCEPT ![t] = r]
  PROVE  checker' \in [Checkers -> CheckType]
BY DEF TypeOK

-----------------------------------------------------------------------------
(* CheckMedia.                                                             *)

LEMMA MediaChangeInv ==
  ASSUME PluginInv, MediaChange
  PROVE  PluginInv'
<1> USE DEF PluginInv, MediaChange, environment, pluginData
<1>1. TypeOK'
  BY DEF TypeOK, HandlerTypeOK, handlerVars
<1> QED
  BY <1>1, HandlerStutterInv, LockFrame, MapFrame, VisitFrame, DataFrame DEF handlerVars

LEMMA DeliverInv ==
  ASSUME PluginInv, NEW t \in Checkers, Deliver(t)
  PROVE  PluginInv'
<1> USE DEF PluginInv, Deliver, environment, pluginData
<1>1. TypeOK'
  BY DEF TypeOK, HandlerTypeOK, handlerVars, CheckType, CheckStates
<1>2. LockInv'
  BY ThreadsAssumption DEF LockInv, TypeOK, CheckType, Checkers
<1>3. VisitInv'
  BY DEF VisitInv, Serving, TypeOK, CheckType
<1>4. DataInv'
  BY DEF DataInv, TypeOK, CheckType
<1> QED
  BY <1>1, <1>2, <1>3, <1>4, HandlerStutterInv, MapFrame DEF handlerVars

LEMMA SampleInv ==
  ASSUME PluginInv, NEW t \in Checkers, Sample(t)
  PROVE  PluginInv'
<1> USE DEF PluginInv, Sample, environment, pluginData
<1>1. TypeOK'
  <2>1. checker[t] \in CheckType
    BY DEF TypeOK
  <2>2. [checker[t] EXCEPT !.at = "lockData", !.sample = media] \in CheckType
    BY <2>1 DEF TypeOK, CheckType, CheckStates
  <2>3. checker' \in [Checkers -> CheckType]
    BY <2>2 DEF TypeOK
  <2> QED BY <2>3 DEF TypeOK, HandlerTypeOK, handlerVars
<1>2. LockInv'
  BY ThreadsAssumption DEF LockInv, TypeOK, CheckType, Checkers
<1>3. VisitInv'
  BY DEF VisitInv, Serving, TypeOK, CheckType
<1>4. DataInv'
  BY DEF DataInv, TypeOK, CheckType
<1> QED
  BY <1>1, <1>2, <1>3, <1>4, HandlerStutterInv, MapFrame DEF handlerVars

LEMMA SampleThrowsInv ==
  ASSUME PluginInv, NEW t \in Checkers, SampleThrows(t)
  PROVE  PluginInv'
<1> USE DEF PluginInv, SampleThrows, environment, pluginData
<1>1. TypeOK'
  BY DataAssumption DEF TypeOK, HandlerTypeOK, handlerVars, CheckType, CheckStates, NoCheck
<1>2. LockInv'
  BY ThreadsAssumption DEF LockInv, TypeOK, CheckType, Checkers, NoCheck
<1>3. VisitInv'
  BY DEF VisitInv, Serving, TypeOK, CheckType, NoCheck
<1>4. DataInv'
  BY DEF DataInv, TypeOK, CheckType, NoCheck
<1> QED
  BY <1>1, <1>2, <1>3, <1>4, HandlerStutterInv, MapFrame DEF handlerVars

LEMMA LockDataInv ==
  ASSUME PluginInv, NEW t \in Checkers, LockData(t)
  PROVE  PluginInv'
<1> USE DEF PluginInv, LockData, environment, pluginData
<1>1. TypeOK'
  BY DEF TypeOK, HandlerTypeOK, handlerVars, CheckType, CheckStates
<1>2. LockInv'
  BY ThreadsAssumption DEF LockInv, TypeOK, CheckType, Checkers
<1>3. VisitInv'
  BY DEF VisitInv, Serving, TypeOK, CheckType
<1>4. DataInv'
  BY DEF DataInv, TypeOK, CheckType
<1> QED
  BY <1>1, <1>2, <1>3, <1>4, HandlerStutterInv, MapFrame DEF handlerVars

LEMMA WriteImageInv ==
  ASSUME PluginInv, NEW t \in Checkers, WriteImage(t)
  PROVE  PluginInv'
<1> USE DEF PluginInv, WriteImage, environment, pluginData
<1>1. TypeOK'
  BY DEF TypeOK, HandlerTypeOK, handlerVars, CheckType, CheckStates
<1>2. LockInv'
  BY ThreadsAssumption DEF LockInv, TypeOK, CheckType, Checkers
<1>3. VisitInv'
  BY DEF VisitInv, Serving, TypeOK, CheckType
<1>4. DataInv'
  BY ThreadsAssumption DEF DataInv, TypeOK, CheckType, LockInv
<1> QED
  BY <1>1, <1>2, <1>3, <1>4, HandlerStutterInv, MapFrame DEF handlerVars

LEMMA WriteTitleInv ==
  ASSUME PluginInv, NEW t \in Checkers, WriteTitle(t)
  PROVE  PluginInv'
<1> USE DEF PluginInv, WriteTitle, environment, pluginData
<1>1. TypeOK'
  BY DEF TypeOK, HandlerTypeOK, handlerVars, CheckType, CheckStates
<1>2. LockInv'
  BY ThreadsAssumption DEF LockInv, TypeOK, CheckType, Checkers
<1>3. VisitInv'
  BY DEF VisitInv, Serving, TypeOK, CheckType
<1>4. DataInv'
  BY ThreadsAssumption DEF DataInv, TypeOK, CheckType, LockInv
<1> QED
  BY <1>1, <1>2, <1>3, <1>4, HandlerStutterInv, MapFrame DEF handlerVars

LEMMA LockContextsInv ==
  ASSUME PluginInv, NEW t \in Checkers, LockContexts(t)
  PROVE  PluginInv'
<1> USE DEF PluginInv, LockContexts, environment, pluginData
<1>1. TypeOK'
  <2>1. checker[t] \in CheckType
    BY DEF TypeOK
  <2>2. [checker[t] EXCEPT !.at = "refreshAll", !.todo = mContextHandlers] \in CheckType
    BY <2>1 DEF TypeOK, CheckType, CheckStates
  <2>3. checker' \in [Checkers -> CheckType]
    BY <2>2 DEF TypeOK
  <2> QED BY <2>3 DEF TypeOK, HandlerTypeOK, handlerVars
<1>2. LockInv'
  BY ThreadsAssumption DEF LockInv, TypeOK, CheckType, Checkers
<1>3. VisitInv'
  BY DEF VisitInv, Serving, TypeOK, CheckType
<1>4. DataInv'
  BY DEF DataInv, TypeOK, CheckType
<1> QED
  BY <1>1, <1>2, <1>3, <1>4, HandlerStutterInv, MapFrame DEF handlerVars

LEMMA RefreshOneInv ==
  ASSUME PluginInv, NEW t \in Checkers, NEW c \in Contexts, RefreshOne(t, c)
  PROVE  PluginInv'
<1> USE DEF PluginInv, RefreshOne, SetRefresh, environment, pluginData
<1>1. HandlerInv'
  BY SetRefreshInv DEF SetRefresh
<1>2. TypeOK'
  <2>1. checker' \in [Checkers -> CheckType]
    BY DEF TypeOK, CheckType
  <2> QED BY <1>1, <2>1 DEF TypeOK, HandlerInv
<1>3. LockInv'
  BY ThreadsAssumption DEF LockInv, TypeOK, CheckType, Checkers
<1>4. VisitInv'
  BY DEF VisitInv, Serving, TypeOK, CheckType
<1>5. DataInv'
  BY DEF DataInv, TypeOK, CheckType
<1> QED
  BY <1>1, <1>2, <1>3, <1>4, <1>5, MapFrame DEF handlerVars

LEMMA UnlockContextsInv ==
  ASSUME PluginInv, NEW t \in Checkers, UnlockContexts(t)
  PROVE  PluginInv'
<1> USE DEF PluginInv, UnlockContexts, environment, pluginData
<1>1. TypeOK'
  BY DataAssumption DEF TypeOK, HandlerTypeOK, handlerVars, CheckType, CheckStates, NoCheck
<1>2. LockInv'
  <2>1. CASE t = Main
    BY <2>1, ThreadsAssumption DEF LockInv, TypeOK, CheckType, Checkers, NoCheck, Starting
  <2>2. CASE t \in Callbacks
    BY <2>2, ThreadsAssumption DEF LockInv, TypeOK, CheckType, Checkers, NoCheck
  <2> QED BY <2>1, <2>2 DEF Checkers
<1>3. VisitInv'
  BY DEF VisitInv, Serving, TypeOK, CheckType, NoCheck
<1>4. DataInv'
  BY DEF DataInv, TypeOK, CheckType, NoCheck
<1> QED
  BY <1>1, <1>2, <1>3, <1>4, HandlerStutterInv, MapFrame DEF handlerVars

-----------------------------------------------------------------------------
(* HandleButton and the loop that calls it.                                *)

LEMMA ReadRefreshInv ==
  ASSUME PluginInv, NEW c \in Contexts, ReadRefresh(c)
  PROVE  PluginInv'
<1> USE DEF PluginInv
<1>1. PICK at \in {"argWidth", "entry"} :
        button' = [button EXCEPT ![c] = [@ EXCEPT !.at = at, !.refresh = doRefresh[c]]]
  BY DEF ReadRefresh
<1>2. /\ button[c].at \in {"args", "argRefresh"}
      /\ UNCHANGED <<handlerVars, pluginData, contextsMutex, dataMutex, main, checker,
                     deck, environment>>
  BY DEF ReadRefresh, Call
<1>3. TypeOK'
  <2>1. doRefresh[c] \in BOOLEAN /\ button[c] \in ButtonType
    BY DEF TypeOK, HandlerTypeOK
  <2>2. [button[c] EXCEPT !.at = at, !.refresh = doRefresh[c]] \in ButtonType
    BY <2>1 DEF ButtonType, ButtonStates
  <2>3. button' \in [Contexts -> ButtonType]
    BY <1>1, <2>2 DEF TypeOK
  <2> QED BY <1>2, <2>3 DEF TypeOK, HandlerTypeOK, handlerVars, pluginData, environment
<1>4. LockInv'
  BY <1>1, <1>2, ThreadsAssumption DEF LockInv, TypeOK, ButtonType
<1>5. DataInv'
  BY <1>1, <1>2 DEF DataInv, TypeOK, ButtonType, DeckType, pluginData
<1> QED
  BY <1>2, <1>3, <1>4, <1>5, HandlerStutterInv, MapFrame, VisitFrame DEF handlerVars, pluginData

LEMMA ReadWidthInv ==
  ASSUME PluginInv, NEW c \in Contexts, ReadWidth(c)
  PROVE  PluginInv'
<1> USE DEF PluginInv
<1>1. PICK at \in {"argRefresh", "entry"} :
        button' = [button EXCEPT ![c] = [@ EXCEPT !.at = at, !.width = textWidth[c]]]
  BY DEF ReadWidth
<1>2. /\ button[c].at \in {"args", "argWidth"}
      /\ UNCHANGED <<handlerVars, pluginData, contextsMutex, dataMutex, main, checker,
                     deck, environment>>
  BY DEF ReadWidth, Call
<1>3. TypeOK'
  <2>1. textWidth[c] \in Widths \cup {0} /\ button[c] \in ButtonType
    BY DEF TypeOK, HandlerTypeOK
  <2>2. [button[c] EXCEPT !.at = at, !.width = textWidth[c]] \in ButtonType
    BY <2>1 DEF ButtonType, ButtonStates
  <2>3. button' \in [Contexts -> ButtonType]
    BY <1>1, <2>2 DEF TypeOK
  <2> QED BY <1>2, <2>3 DEF TypeOK, HandlerTypeOK, handlerVars, pluginData, environment
<1>4. LockInv'
  BY <1>1, <1>2, ThreadsAssumption DEF LockInv, TypeOK, ButtonType
<1>5. DataInv'
  BY <1>1, <1>2 DEF DataInv, TypeOK, ButtonType, DeckType, pluginData
<1> QED
  BY <1>2, <1>3, <1>4, <1>5, HandlerStutterInv, MapFrame, VisitFrame DEF handlerVars, pluginData

LEMMA NotReadyInv ==
  ASSUME PluginInv, NEW c \in Contexts, NotReady(c)
  PROVE  PluginInv'
<1> USE DEF PluginInv, NotReady, NewCall, Call, WorkerReturn, Goto, environment, pluginData
<1>1. HandlerInv'
  BY WorkerReturnInv DEF Ticks, WorkerReturn, Goto
<1>2. TypeOK'
  BY <1>1, DataAssumption DEF HandlerInv, TypeOK, ButtonType, ButtonStates
<1>3. LockInv'
  BY ThreadsAssumption DEF LockInv, TypeOK, ButtonType
<1>4. DataInv'
  BY DEF DataInv, TypeOK, ButtonType, DeckType
<1> QED
  BY <1>1, <1>2, <1>3, <1>4, MapFrame, VisitFrame DEF handlerVars

LEMMA ButtonLockInv ==
  ASSUME PluginInv, NEW c \in Contexts, ButtonLock(c)
  PROVE  PluginInv'
<1> USE DEF PluginInv, ButtonLock, Call, environment, pluginData
<1>1. TypeOK'
  BY DEF TypeOK, HandlerTypeOK, handlerVars, ButtonType, ButtonStates
<1>2. LockInv'
  BY ThreadsAssumption DEF LockInv, TypeOK, ButtonType
<1>3. DataInv'
  BY DEF DataInv, TypeOK, ButtonType, DeckType
<1> QED
  BY <1>1, <1>2, <1>3, HandlerStutterInv, MapFrame, VisitFrame DEF handlerVars

LEMMA DrawImageInv ==
  ASSUME PluginInv, NEW c \in Contexts, DrawImage(c)
  PROVE  PluginInv'
<1> USE DEF PluginInv, DrawImage, Call, environment, pluginData
<1>1. TypeOK'
  <2>1. deck' \in [Contexts -> DeckType]
    BY DEF TypeOK, DeckType
  <2>2. button' \in [Contexts -> ButtonType]
    BY DEF TypeOK, ButtonType, ButtonStates
  <2> QED BY <2>1, <2>2 DEF TypeOK, HandlerTypeOK, handlerVars
<1>2. LockInv'
  BY ThreadsAssumption DEF LockInv, TypeOK, ButtonType
<1>3. DataInv'
  BY DEF DataInv, TypeOK, ButtonType, DeckType
<1> QED
  BY <1>1, <1>2, <1>3, HandlerStutterInv, MapFrame, VisitFrame DEF handlerVars

LEMMA CopyTitleInv ==
  ASSUME PluginInv, NEW c \in Contexts, CopyTitle(c)
  PROVE  PluginInv'
<1> USE DEF PluginInv, CopyTitle, Call, environment, pluginData
<1>1. TypeOK'
  <2>1. button[c] \in ButtonType
    BY DEF TypeOK
  <2>2. [button[c] EXCEPT !.at = "draw", !.title = mTitle] \in ButtonType
    BY <2>1 DEF TypeOK, ButtonType, ButtonStates
  <2>3. button' \in [Contexts -> ButtonType]
    BY <2>2 DEF TypeOK
  <2> QED BY <2>3 DEF TypeOK, HandlerTypeOK, handlerVars
<1>2. LockInv'
  BY ThreadsAssumption DEF LockInv, TypeOK, ButtonType
<1>3. DataInv'
  BY ThreadsAssumption DEF DataInv, LockInv, TypeOK, ButtonType, DeckType, Checkers
<1> QED
  BY <1>1, <1>2, <1>3, HandlerStutterInv, MapFrame, VisitFrame DEF handlerVars

LEMMA DrawTitleInv ==
  ASSUME PluginInv, NEW c \in Contexts, DrawTitle(c)
  PROVE  PluginInv'
<1> USE DEF PluginInv, DrawTitle, NewCall, Call, WorkerReturn, Goto, environment, pluginData
<1>1. HandlerInv'
  BY WorkerReturnInv DEF Ticks, WorkerReturn, Goto
<1>2. TypeOK'
  BY <1>1, DataAssumption DEF HandlerInv, TypeOK, ButtonType, ButtonStates, DeckType
<1>3. LockInv'
  BY ThreadsAssumption DEF LockInv, TypeOK, ButtonType
<1>4. DataInv'
  BY DEF DataInv, TypeOK, ButtonType, DeckType
<1> QED
  BY <1>1, <1>2, <1>3, <1>4, MapFrame, VisitFrame DEF handlerVars

LEMMA WorkerLoopStepInv ==
  ASSUME PluginInv, NEW c \in Contexts, WorkerLoopStep(c)
  PROVE  PluginInv'
<1> USE DEF PluginInv, WorkerLoopStep, pluginData, environment
<1>1. HandlerInv'
  BY WorkerStepInv
<1>2. UNCHANGED <<live, call>>
  BY DEF WorkerStep, WorkerLoop, WorkerRefresh, WorkerClear, WorkerWake
<1>3. TypeOK'
  BY <1>1 DEF HandlerInv, TypeOK
<1> QED
  BY <1>1, <1>2, <1>3, LockFrame, MapFrame, VisitFrame, DataFrame

-----------------------------------------------------------------------------
(* The messages.  Main alone changes the map and the objects, so MapInv is  *)
(* at stake in each of its steps.                                           *)

LEMMA ReceiveSettingsInv ==
  ASSUME PluginInv, NEW c \in Contexts, ReceiveSettings(c)
  PROVE  PluginInv'
<1> USE DEF PluginInv, ReceiveSettings, Receive, environment, pluginData
<1>1. TypeOK'
  BY DataAssumption DEF TypeOK, HandlerTypeOK, handlerVars, MainStates, DeckType
<1>2. LockInv'
  BY ThreadsAssumption DEF LockInv, TypeOK, Starting, Checkers
<1>3. MapInv'
  BY DEF MapInv, HandlerTypeOK, CallStates, TypeOK, Serving, Dying, Starting, Erased, handlerVars
<1>4. VisitInv'
  BY DEF VisitInv, Serving
<1>5. DataInv'
  BY DEF DataInv, TypeOK, ButtonType, DeckType
<1> QED
  BY <1>1, <1>2, <1>3, <1>4, <1>5, HandlerStutterInv

LEMMA StartLockInv ==
  ASSUME PluginInv, StartLock
  PROVE  PluginInv'
<1> USE DEF PluginInv, StartLock, environment, pluginData
<1>1. HandlerInv'
  BY NewInv, HandlerStutterInv DEF MapInv, HandlerTypeOK, CallStates, TypeOK, Serving, Dying, Starting, Erased, handlerVars
<1>2. TypeOK'
  <2>1. mContextHandlers' \subseteq Contexts
    BY DEF MapInv, TypeOK
  <2>2. main' \in [at : MainStates, context : Contexts \cup {None}]
    BY DEF TypeOK, MainStates
  <2> QED BY <1>1, <2>1, <2>2 DEF HandlerInv, TypeOK, Checkers
<1>3. LockInv'
  BY ThreadsAssumption DEF LockInv, TypeOK, Starting, Checkers
<1>4. MapInv'
  BY DEF MapInv, HandlerTypeOK, CallStates, TypeOK, Serving, Dying, Starting, Erased, handlerVars, New
<1>5. VisitInv'
  BY DEF VisitInv, Serving
<1> QED
  BY <1>1, <1>2, <1>3, <1>4, <1>5, DataFrame

LEMMA StartSetRefreshInv ==
  ASSUME PluginInv, StartSetRefresh
  PROVE  PluginInv'
<1> USE DEF PluginInv, StartSetRefresh, environment, pluginData
<1>1. HandlerInv'
  BY SetRefreshInv DEF MapInv, HandlerTypeOK, CallStates, TypeOK, Serving, Dying, Starting, Erased, handlerVars
<1>2. TypeOK'
  BY <1>1 DEF HandlerInv, TypeOK, MainStates
<1>3. LockInv'
  BY ThreadsAssumption DEF LockInv, TypeOK, Starting, Checkers
<1>4. MapInv'
  BY DEF MapInv, HandlerTypeOK, CallStates, TypeOK, Serving, Dying, Starting, Erased, handlerVars, SetRefresh
<1>5. VisitInv'
  BY DEF VisitInv, Serving
<1> QED
  BY <1>1, <1>2, <1>3, <1>4, <1>5, DataFrame

LEMMA StartCallInv ==
  ASSUME PluginInv, StartCall
  PROVE  PluginInv'
<1> USE DEF PluginInv, StartCall, environment, pluginData
<1>1. HandlerInv'
  BY StartInv DEF MapInv, HandlerTypeOK, CallStates, TypeOK, Serving, Dying, Starting, Erased, handlerVars
<1>2. TypeOK'
  BY <1>1 DEF HandlerInv, TypeOK, MainStates
<1>3. LockInv'
  BY ThreadsAssumption DEF LockInv, TypeOK, Starting, Checkers
<1>4. MapInv'
  BY DEF MapInv, HandlerTypeOK, CallStates, TypeOK, Serving, Dying, Starting, Erased, handlerVars, Start, StopThen
<1>5. VisitInv'
  BY DEF VisitInv, Serving
<1> QED
  BY <1>1, <1>2, <1>3, <1>4, <1>5, DataFrame

LEMMA StartDoneInv ==
  ASSUME PluginInv, StartDone
  PROVE  PluginInv'
<1> USE DEF PluginInv, StartDone, Listening, environment, pluginData
<1>1. TypeOK'
  BY DEF TypeOK, HandlerTypeOK, handlerVars, MainStates
<1>2. LockInv'
  BY ThreadsAssumption DEF LockInv, TypeOK, Starting, Checkers
<1>3. MapInv'
  BY DEF MapInv, HandlerTypeOK, CallStates, TypeOK, Serving, Dying, Starting, Erased, handlerVars
<1>4. VisitInv'
  BY DEF VisitInv, Serving
<1> QED
  BY <1>1, <1>2, <1>3, <1>4, HandlerStutterInv, DataFrame

LEMMA WillDisappearForActionInv ==
  ASSUME PluginInv, NEW c \in Contexts, WillDisappearForAction(c)
  PROVE  PluginInv'
<1> USE DEF PluginInv, WillDisappearForAction, Receive, environment, pluginData
<1>1. TypeOK'
  BY DEF TypeOK, HandlerTypeOK, handlerVars, MainStates
<1>2. LockInv'
  BY ThreadsAssumption DEF LockInv, TypeOK, Starting, Checkers
<1>3. MapInv'
  BY DEF MapInv, HandlerTypeOK, CallStates, TypeOK, Serving, Dying, Starting, Erased, handlerVars
<1>4. VisitInv'
  BY DEF VisitInv, Serving
<1> QED
  BY <1>1, <1>2, <1>3, <1>4, HandlerStutterInv, DataFrame

LEMMA EraseEntryInv ==
  ASSUME PluginInv, EraseEntry
  PROVE  PluginInv'
<1> USE DEF PluginInv, EraseEntry, environment, pluginData
<1>1. TypeOK'
  BY DEF TypeOK, HandlerTypeOK, handlerVars, MainStates
<1>2. LockInv'
  BY ThreadsAssumption DEF LockInv, TypeOK, Starting, Checkers
<1>3. MapInv'
  BY DEF MapInv, HandlerTypeOK, CallStates, TypeOK, Serving, Dying, Starting, Erased, handlerVars
<1>4. VisitInv'
  BY ThreadsAssumption DEF VisitInv, LockInv, TypeOK, Checkers, Serving
<1> QED
  BY <1>1, <1>2, <1>3, <1>4, HandlerStutterInv, DataFrame

LEMMA DeleteHandlerInv ==
  ASSUME PluginInv, DeleteHandler
  PROVE  PluginInv'
<1> USE DEF PluginInv, DeleteHandler, environment, pluginData
<1>1. HandlerInv'
  BY DeleteInv DEF MapInv, HandlerTypeOK, CallStates, TypeOK, Serving, Dying, Starting, Erased, handlerVars
<1>2. TypeOK'
  BY <1>1 DEF HandlerInv, TypeOK, MainStates
<1>3. LockInv'
  BY ThreadsAssumption DEF LockInv, TypeOK, Starting, Checkers
<1>4. MapInv'
  BY DEF MapInv, HandlerTypeOK, CallStates, TypeOK, Serving, Dying, Starting, Erased, handlerVars, Delete, StopThen
<1>5. VisitInv'
  BY DEF VisitInv, Serving
<1> QED
  BY <1>1, <1>2, <1>3, <1>4, <1>5, DataFrame

LEMMA DeleteDoneInv ==
  ASSUME PluginInv, DeleteDone
  PROVE  PluginInv'
<1> USE DEF PluginInv, DeleteDone, Listening, environment, pluginData
<1>1. TypeOK'
  BY DEF TypeOK, HandlerTypeOK, handlerVars, MainStates
<1>2. LockInv'
  BY ThreadsAssumption DEF LockInv, TypeOK, Starting, Checkers
<1>3. MapInv'
  BY DEF MapInv, HandlerTypeOK, CallStates, TypeOK, Serving, Dying, Starting, Erased, handlerVars
<1>4. VisitInv'
  BY DEF VisitInv, Serving
<1> QED
  BY <1>1, <1>2, <1>3, <1>4, HandlerStutterInv, DataFrame

LEMMA TitleParametersDidChangeInv ==
  ASSUME PluginInv, NEW c \in Contexts, TitleParametersDidChange(c)
  PROVE  PluginInv'
<1> USE DEF PluginInv, TitleParametersDidChange, Receive, environment, pluginData
<1>1. HandlerInv'
  BY SetTextWidthInv, HandlerStutterInv, DataAssumption
<1>2. TypeOK'
  BY <1>1 DEF HandlerInv, TypeOK
<1>3. MapInv'
  BY MapFrame DEF SetTextWidth, handlerVars
<1> QED
  BY <1>1, <1>2, <1>3, LockFrame, VisitFrame, DataFrame

LEMMA MainCallStepInv ==
  ASSUME PluginInv, NEW c \in Contexts, MainCallStep(c)
  PROVE  PluginInv'
<1> USE DEF PluginInv, MainCallStep, environment, pluginData
<1>1. HandlerInv'
  BY CallStepInv
<1>2. TypeOK'
  BY <1>1 DEF HandlerInv, TypeOK
<1>3. MapInv'
  BY DEF MapInv, HandlerTypeOK, CallStates, TypeOK, Serving, Dying, Starting, Erased, CallStep, StartJoin, StartSpawn, DeleteJoin
<1> QED
  BY <1>1, <1>2, <1>3, LockFrame, VisitFrame, DataFrame

-----------------------------------------------------------------------------
(* The life of the plugin.                                                 *)

LEMMA ConstructedInv ==
  ASSUME PluginInv, Constructed
  PROVE  PluginInv'
<1> USE DEF PluginInv, Constructed, Listening, environment, pluginData
<1>1. TypeOK'
  BY DEF TypeOK, HandlerTypeOK, handlerVars, MainStates
<1>2. LockInv'
  BY ThreadsAssumption DEF LockInv, TypeOK, Starting, Checkers
<1>3. MapInv'
  BY DEF MapInv, HandlerTypeOK, CallStates, TypeOK, Serving, Dying, Starting, Erased, handlerVars
<1>4. VisitInv'
  BY DEF VisitInv, Serving
<1> QED
  BY <1>1, <1>2, <1>3, <1>4, HandlerStutterInv, DataFrame

LEMMA CloseInv ==
  ASSUME PluginInv, Close
  PROVE  PluginInv'
<1> USE DEF PluginInv, Close, environment, pluginData
<1>1. TypeOK'
  BY DEF TypeOK, HandlerTypeOK, handlerVars, MainStates
<1>2. LockInv'
  BY ThreadsAssumption DEF LockInv, TypeOK, Starting, Checkers
<1>3. MapInv'
  BY DEF MapInv, HandlerTypeOK, CallStates, TypeOK, Serving, Dying, Starting, Erased, handlerVars
<1>4. VisitInv'
  BY DEF VisitInv, Serving
<1> QED
  BY <1>1, <1>2, <1>3, <1>4, HandlerStutterInv, DataFrame

LEMMA DestructHandlerInv ==
  ASSUME PluginInv, NEW c \in Contexts, DestructHandler(c)
  PROVE  PluginInv'
<1> USE DEF PluginInv, DestructHandler, environment, pluginData
<1>1. HandlerInv'
  BY DeleteInv
<1>2. TypeOK'
  BY <1>1 DEF HandlerInv, TypeOK
<1>3. MapInv'
  BY DEF MapInv, HandlerTypeOK, CallStates, TypeOK, Serving, Dying, Starting, Erased, handlerVars, Delete, StopThen
<1> QED
  BY <1>1, <1>2, <1>3, LockFrame, VisitFrame, DataFrame

LEMMA DestructedInv ==
  ASSUME PluginInv, Destructed
  PROVE  PluginInv'
<1> USE DEF PluginInv, Destructed, environment, pluginData
<1>1. TypeOK'
  BY DEF TypeOK, HandlerTypeOK, handlerVars, MainStates
<1>2. LockInv'
  BY ThreadsAssumption DEF LockInv, TypeOK, Starting, Checkers
<1>3. MapInv'
  BY DEF MapInv, HandlerTypeOK, CallStates, TypeOK, Serving, Dying, Starting, Erased, handlerVars, HandlerInv, CallAgrees
<1>4. VisitInv'
  BY DEF VisitInv, Serving
<1> QED
  BY <1>1, <1>2, <1>3, <1>4, HandlerStutterInv, DataFrame

-----------------------------------------------------------------------------
(* The theorems.                                                           *)

LEMMA InitInv == Init => PluginInv
<1> SUFFICES ASSUME Init PROVE PluginInv
  OBVIOUS
<1> USE DEF Init
<1>1. HandlerInv
  BY HandlerInitInv
<1>2. TypeOK
  BY <1>1, DataAssumption DEF TypeOK, HandlerInv, MainStates, CheckType, CheckStates, NoCheck,
     ButtonType, ButtonStates, NewCall, DeckType, Checkers
<1>3. LockInv
  BY ThreadsAssumption DEF LockInv, Starting, Checkers, NoCheck, NewCall
<1>4. MapInv
  BY DEF MapInv, HandlerInit, Starting, Erased, Serving, Dying
<1>5. VisitInv
  BY DEF VisitInv, Checkers, NoCheck
<1>6. DataInv
  BY DEF DataInv, Checkers, NoCheck, NewCall
<1> QED
  BY <1>1, <1>2, <1>3, <1>4, <1>5, <1>6 DEF PluginInv

LEMMA StutterInv ==
  ASSUME PluginInv, UNCHANGED vars
  PROVE  PluginInv'
<1> USE DEF PluginInv, vars
<1>1. HandlerInv'
  BY HandlerStutterInv
<1>2. TypeOK'
  BY <1>1 DEF TypeOK, HandlerInv
<1> QED
  BY <1>1, <1>2, LockFrame, MapFrame, VisitFrame, DataFrame DEF handlerVars

LEMMA NextInv ==
  ASSUME PluginInv, Next
  PROVE  PluginInv'
<1>1. CASE MediaChange
  BY <1>1, MediaChangeInv
<1>2. ASSUME NEW t \in Checkers, Deliver(t) \/ CheckStep(t)
      PROVE  PluginInv'
  BY <1>2, DeliverInv, SampleInv, SampleThrowsInv, LockDataInv, WriteImageInv, WriteTitleInv,
     LockContextsInv, RefreshOneInv, UnlockContextsInv DEF CheckStep
<1>3. ASSUME NEW c \in Contexts, WorkerLoopStep(c) \/ HandleButton(c)
      PROVE  PluginInv'
  BY <1>3, WorkerLoopStepInv, ReadRefreshInv, ReadWidthInv, NotReadyInv, ButtonLockInv,
     DrawImageInv, CopyTitleInv, DrawTitleInv DEF HandleButton
<1>4. ASSUME NEW c \in Contexts, Message(c)
      PROVE  PluginInv'
  BY <1>4, ReceiveSettingsInv, WillDisappearForActionInv, TitleParametersDidChangeInv
     DEF Message, WillAppearForAction
<1>5. CASE MainStep
  BY <1>5, ConstructedInv, StartLockInv, StartSetRefreshInv, StartCallInv, StartDoneInv,
     EraseEntryInv, DeleteHandlerInv, DeleteDoneInv, MainCallStepInv, DestructHandlerInv,
     DestructedInv DEF MainStep
<1>6. CASE Close
  BY <1>6, CloseInv
<1>7. CASE Waiting
  BY <1>7, StutterInv DEF Waiting
<1> QED
  BY <1>1, <1>2, <1>3, <1>4, <1>5, <1>6, <1>7 DEF Next

LEMMA PluginInvImplies ==
  ASSUME PluginInv
  PROVE  /\ TypeOK
         /\ RefreshVisitsLiveHandlers
         /\ TitleAndImageMatch
         /\ HandlersMatchMap
         /\ NeverTerminates
<1> USE DEF PluginInv
<1>1. RefreshVisitsLiveHandlers
  BY DEF RefreshVisitsLiveHandlers, VisitInv, MapInv
<1>2. TitleAndImageMatch
  BY DEF TitleAndImageMatch, DataInv, LockInv
<1>3. HandlersMatchMap
  BY DEF HandlersMatchMap, MapInv, Dying, Serving
<1> QED
  BY <1>1, <1>2, <1>3, HandlerInvImplies

THEOREM PluginInvariant == Spec => []PluginInv
<1>1. PluginInv /\ [Next]_vars => PluginInv'
  BY NextInv, StutterInv
<1> QED
  BY InitInv, <1>1, PTL DEF Spec

\* Every field of the plugin and of its handlers keeps its type.
THEOREM PluginTypeCorrect == Spec => []TypeOK
<1>1. PluginInv => TypeOK
  BY PluginInvImplies
<1> QED
  BY <1>1, PluginInvariant, PTL

\* Until the plugin is deleted, RefreshAllHandlers (lines 358-364) only visits
\* handlers that exist, although WillDisappearForAction looks the context up
\* (line 451) and deletes its handler (line 459) outside the lock.
THEOREM PluginRefreshVisitsLiveHandlers == Spec => []RefreshVisitsLiveHandlers
<1>1. PluginInv => RefreshVisitsLiveHandlers
  BY PluginInvImplies
<1> QED
  BY <1>1, PluginInvariant, PTL

\* Whatever CheckMedia calls overlap, title and image always belong to the
\* same sample, in the shared pair (lines 339-343) and on a button that draws
\* both (lines 210-216).
THEOREM PluginTitleAndImageMatch == Spec => []TitleAndImageMatch
<1>1. PluginInv => TitleAndImageMatch
  BY PluginInvImplies
<1> QED
  BY <1>1, PluginInvariant, PTL

\* Between messages exactly the handlers in the map exist: neither a
\* disappearing button nor a failed start() leaves one behind or loses one.
THEOREM PluginHandlersMatchMap == Spec => []HandlersMatchMap
<1>1. PluginInv => HandlersMatchMap
  BY PluginInvImplies
<1> QED
  BY <1>1, PluginInvariant, PTL

\* No use the plugin makes of its handlers, the destruction of the plugin
\* included, ends the process through a joinable thread.
THEOREM PluginNeverTerminates == Spec => []NeverTerminates
<1>1. PluginInv => NeverTerminates
  BY PluginInvImplies
<1> QED
  BY <1>1, PluginInvariant, PTL

-----------------------------------------------------------------------------
(* The plugin and the contract of ButtonHandler.                           *)

\* The steps that call an operation of a handler do so as its contract says.
LEMMA StepByContract ==
  ASSUME PluginInv, Serving, Next
  PROVE  HandlerNext \/ UNCHANGED handlerVars
<1> USE DEF PluginInv
<1>1. ASSUME NEW c \in mContextHandlers
      PROVE  c \in Contexts /\ c \in live /\ call[c] # "deleteJoin"
  BY <1>1 DEF TypeOK, MapInv, Erased, Serving
<1>2. ASSUME NEW c \in Contexts, Client(c) \/ CallStep(c) \/ WorkerStep(c)
                                \/ WorkerReturn(c, 0) \/ WorkerReturn(c, 1)
      PROVE  HandlerNext
  BY <1>2 DEF HandlerNext, Ticks
<1>3. CASE MediaChange
  BY <1>3 DEF MediaChange
<1>4. ASSUME NEW t \in Checkers, Deliver(t) \/ CheckStep(t)
      PROVE  HandlerNext \/ UNCHANGED handlerVars
  <2>1. ASSUME NEW c \in Contexts, RefreshOne(t, c)
        PROVE  HandlerNext
    <3>1. c \in mContextHandlers
      BY <2>1 DEF RefreshOne, VisitInv
    <3> QED
      BY <1>1, <1>2, <2>1, <3>1 DEF RefreshOne, Client
  <2> QED
    BY <1>4, <2>1 DEF Deliver, CheckStep, Sample, SampleThrows, LockData, WriteImage,
       WriteTitle, LockContexts, UnlockContexts
<1>5. ASSUME NEW c \in Contexts, WorkerLoopStep(c) \/ HandleButton(c)
      PROVE  HandlerNext \/ UNCHANGED handlerVars
  BY <1>2, <1>5 DEF WorkerLoopStep, HandleButton, ReadRefresh, ReadWidth, NotReady,
     ButtonLock, DrawImage, CopyTitle, DrawTitle
<1>6. ASSUME NEW c \in Contexts, Message(c)
      PROVE  HandlerNext \/ UNCHANGED handlerVars
  <2>1. CASE TitleParametersDidChange(c)
    BY <1>1, <1>2, <2>1, DataAssumption DEF TitleParametersDidChange, Client
  <2> QED
    BY <1>6, <2>1 DEF Message, WillAppearForAction, ReceiveSettings, WillDisappearForAction
<1>7. CASE MainStep
  <2>1. CASE StartLock
    BY <1>2, <2>1 DEF StartLock, Client, MapInv, Dying
  <2>2. CASE StartSetRefresh
    BY <1>1, <1>2, <2>2 DEF StartSetRefresh, Client, MapInv, Starting
  <2>3. CASE StartCall
    BY <1>1, <1>2, <2>3 DEF StartCall, Client, MapInv, Starting
  <2>4. CASE DeleteHandler
    BY <1>2, <2>4 DEF DeleteHandler, Client, Delete, MapInv, Dying, Erased
  <2>5. ASSUME NEW c \in Contexts, MainCallStep(c)
        PROVE  HandlerNext
    BY <1>2, <2>5 DEF MainCallStep
  <2> QED
    BY <1>7, <2>1, <2>2, <2>3, <2>4, <2>5 DEF MainStep, Constructed, StartDone, EraseEntry,
       DeleteDone, DestructHandler, Destructed, Serving
<1>8. CASE Close \/ Waiting
  BY <1>8 DEF Close, Waiting, vars
<1> QED
  BY <1>3, <1>4, <1>5, <1>6, <1>7, <1>8 DEF Next

LEMMA ServingStep ==
  ASSUME TypeOK, Serving, ~CanClose, Next
  PROVE  Serving'
<1> USE DEF Serving, TypeOK
<1>1. CASE MediaChange
  BY <1>1 DEF MediaChange
<1>2. ASSUME NEW t \in Checkers, Deliver(t) \/ CheckStep(t)
      PROVE  UNCHANGED main
  BY <1>2 DEF Deliver, CheckStep, Sample, SampleThrows, LockData, WriteImage, WriteTitle,
     LockContexts, RefreshOne, UnlockContexts
<1>3. ASSUME NEW c \in Contexts, WorkerLoopStep(c) \/ HandleButton(c)
      PROVE  UNCHANGED main
  BY <1>3 DEF WorkerLoopStep, HandleButton, ReadRefresh, ReadWidth, NotReady, ButtonLock,
     DrawImage, CopyTitle, DrawTitle
<1>4. ASSUME NEW c \in Contexts, Message(c)
      PROVE  Serving'
  BY <1>4 DEF Message, WillAppearForAction, ReceiveSettings, WillDisappearForAction,
     TitleParametersDidChange
<1>5. CASE MainStep
  <2>1. ASSUME NEW c \in Contexts, MainCallStep(c) \/ DestructHandler(c)
        PROVE  UNCHANGED main
    BY <2>1 DEF MainCallStep, DestructHandler
  <2>2. ~Destructed
    BY DEF Destructed
  <2>3. CASE Constructed \/ StartDone \/ DeleteDone
    BY <2>3 DEF Constructed, StartDone, DeleteDone, Listening
  <2>4. CASE StartLock \/ StartSetRefresh \/ StartCall \/ EraseEntry \/ DeleteHandler
    BY <2>4 DEF StartLock, StartSetRefresh, StartCall, EraseEntry, DeleteHandler
  <2> QED
    BY <1>5, <2>1, <2>2, <2>3, <2>4 DEF MainStep
<1>6. CASE Waiting
  BY <1>6 DEF Waiting, vars
<1> QED
  BY <1>1, <1>2, <1>3, <1>4, <1>5, <1>6 DEF Next, Close

\* As long as the connection stays open, the plugin uses its handlers by the
\* contract of ButtonHandler: it never touches one that is deleted or being
\* deleted, and calls start() and delete one at a time.  (Closing breaks it:
\* a callback may still be refreshing the handlers that the destructor, which
\* takes no lock, deletes.)
THEOREM PluginUsesHandlersByContract ==
  ASSUME ~CanClose
  PROVE  Spec => UsesHandlersByContract
<1>1. Init => HandlerInit /\ Serving
  BY DEF Init, Serving
<1>2. PluginInv /\ Serving /\ [Next]_vars => [HandlerNext]_handlerVars /\ Serving'
  <2>1. ASSUME PluginInv, Serving, Next
        PROVE  [HandlerNext]_handlerVars /\ Serving'
    BY <2>1, StepByContract, ServingStep DEF PluginInv
  <2>2. ASSUME Serving, UNCHANGED vars
        PROVE  [HandlerNext]_handlerVars /\ Serving'
    BY <2>2 DEF vars, Serving
  <2> QED
    BY <2>1, <2>2
<1> QED
  BY <1>1, <1>2, PluginInvariant, PTL DEF Spec, HandlerSpec, UsesHandlersByContract

=============================================================================
