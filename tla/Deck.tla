-------------------------------- MODULE Deck --------------------------------
(***************************************************************************)
(* The Stream Deck application between the user, the property inspector    *)
(* (media.js) and the plugin, and how the plugin follows it.               *)
(*                                                                         *)
(* The application shows and hides buttons, keeps the settings and the     *)
(* font of each, and tells the plugin of every change in one stream of     *)
(* messages.  The inspector and the plugin each write to it over a         *)
(* websocket of their own.  OnMessage handles one message after the other; *)
(* here a handler is one step, and module MediaStreamDeckPlugin shows that *)
(* it is carried through against the plugin's other threads.               *)
(*                                                                         *)
(* The plugin holds per context the ButtonHandler in mContextHandlers,     *)
(* with the interval its worker was started with and its text width.       *)
(***************************************************************************)
EXTENDS JsonAccess, TitleScroll, Sequences

CONSTANTS
  Contexts,        \* the buttons
  FontSizes,       \* the font sizes a user may choose
  Typed,           \* what parseInt makes of what a user may type
  ReportsHidden,   \* are new settings of hidden buttons reported too?
  MaxMoves         \* bound: what the user does

\* The value in media.html (line 14), and in ReceiveSettings.
DefaultInterval == 250

\* parseInt makes an integer, or NaN, of what was typed.  A font size is above 1,
\* or TextWidth has no value.
ASSUME DeckAssumption ==
  /\ FontSizes \subseteq Nat \ {0, 1} /\ FontSizes \subseteq Int32 /\ FontSizes # {}
  /\ Typed \subseteq [is : {"integer", "null"}, value : Int]
  /\ DefaultInterval \in Int32
  /\ ReportsHidden \in BOOLEAN
  /\ MaxMoves \in Nat

VARIABLES
  shown,         \* the buttons on the device
  settings,      \* per button, the fields of its stored settings
  fontSize,      \* per button, the font size of its title
  inspector,     \* the button whose inspector is open, and its input field
  fromInspector, \* setSettings on their way from the inspector
  fromPlugin,    \* the buttons whose title the plugin has blanked, on their way
  toPlugin,      \* messages on their way to the plugin
  handlers,      \* the plugin's mContextHandlers
  moves          \* how much the user has done

channels == <<fromInspector, fromPlugin, toPlugin>>
vars == <<shown, settings, fontSize, inspector, channels, handlers, moves>>

Closed == [open |-> FALSE]
NoButton == [exists |-> FALSE, interval |-> 0, width |-> 0]

Message(event, c, payload) ==
  [event |-> String(event), context |-> String(c), payload |-> Object(payload)]

SettingsMessage(event, c, fields) == Message(event, c, [settings |-> Object(fields)])

TitleMessage(c, size) ==
  Message("titleParametersDidChange", c,
          [titleParameters |-> Object([fontSize |-> Integer(size)])])

SettingsType == {NoFields} \cup [refresh_time : Typed]

\* The type invariant of Stream Deck and the plugin's handlers.
DeckTypeOK ==
  /\ shown \subseteq Contexts
  /\ settings \in [Contexts -> SettingsType]
  /\ fontSize \in [Contexts -> FontSizes]
  /\ inspector \in {Closed} \cup [open : {TRUE}, context : Contexts,
                                  field : Typed \cup {Integer(DefaultInterval)}]
  /\ fromInspector \in Seq([context : Contexts, payload : SettingsType])
  /\ fromPlugin \in Seq(Contexts)
  /\ handlers \in [Contexts -> [exists : BOOLEAN, interval : Int32, width : 0 .. 72]]
  /\ moves \in Nat

Init ==
  /\ shown = {}
  /\ settings = [c \in Contexts |-> NoFields]
  /\ fontSize \in [Contexts -> FontSizes]
  /\ inspector = Closed
  /\ fromInspector = <<>> /\ fromPlugin = <<>> /\ toPlugin = <<>>
  /\ handlers = [c \in Contexts |-> NoButton]
  /\ moves = 0

-----------------------------------------------------------------------------
(* The user.                                                               *)

Move ==
  /\ moves < MaxMoves
  /\ moves' = moves + 1

Show(c) ==
  /\ Move
  /\ c \notin shown
  /\ shown' = shown \cup {c}
  /\ toPlugin' = Append(toPlugin, SettingsMessage("willAppear", c, settings[c]))
  /\ UNCHANGED <<settings, fontSize, inspector, fromInspector, fromPlugin, handlers>>

\* Another page or profile: the inspector of a button may stay open.
Hide(c) ==
  /\ Move
  /\ c \in shown
  /\ shown' = shown \ {c}
  /\ toPlugin' = Append(toPlugin, SettingsMessage("willDisappear", c, settings[c]))
  /\ UNCHANGED <<settings, fontSize, inspector, fromInspector, fromPlugin, handlers>>

ChangeFont(c) ==
  /\ Move
  /\ c \in shown
  /\ \E size \in FontSizes \ {fontSize[c]} :
       /\ fontSize' = [fontSize EXCEPT ![c] = size]
       /\ toPlugin' = Append(toPlugin, TitleMessage(c, size))
  /\ UNCHANGED <<shown, settings, inspector, fromInspector, fromPlugin, handlers>>

\* OnMessage does nothing for a key, a device, or a message to the plugin.
PressKey(c) ==
  /\ Move
  /\ c \in shown
  /\ \E event \in {"keyDown", "keyUp"} :
       toPlugin' = Append(toPlugin, SettingsMessage(event, c, settings[c]))
  /\ UNCHANGED <<shown, settings, fontSize, inspector, fromInspector, fromPlugin, handlers>>

-----------------------------------------------------------------------------
(* The property inspector.                                                 *)

\* applySettings puts the stored interval into the field, if there is one.
OpenInspector(c) ==
  /\ Move
  /\ c \in shown
  /\ inspector' = [open |-> TRUE, context |-> c,
                   field |-> IF "refresh_time" \in DOMAIN settings[c]
                               THEN settings[c].refresh_time ELSE Integer(DefaultInterval)]
  /\ UNCHANGED <<shown, settings, fontSize, channels, handlers>>

\* The field changes, and setSettings sends what parseInt makes of it.
SetSettings(value) ==
  /\ Move
  /\ inspector.open
  /\ value # inspector.field
  /\ inspector' = [inspector EXCEPT !.field = value]
  /\ fromInspector' = Append(fromInspector, [context |-> inspector.context,
                                             payload |-> [refresh_time |-> value]])
  /\ UNCHANGED <<shown, settings, fontSize, fromPlugin, toPlugin, handlers>>

CloseInspector ==
  /\ Move
  /\ inspector.open
  /\ inspector' = Closed
  /\ UNCHANGED <<shown, settings, fontSize, channels, handlers>>

UserStep ==
  \/ \E c \in Contexts :
       Show(c) \/ Hide(c) \/ ChangeFont(c) \/ PressKey(c) \/ OpenInspector(c)
  \/ \E value \in Typed : SetSettings(value)
  \/ CloseInspector

-----------------------------------------------------------------------------
(* What the application does with the messages it receives.                *)

\* The new settings are stored and reported to the plugin.
StoreSettings ==
  /\ fromInspector # <<>>
  /\ LET m == Head(fromInspector) IN
       /\ settings' = [settings EXCEPT ![m.context] = m.payload]
       /\ toPlugin' = IF m.context \in shown \/ ReportsHidden
                      THEN Append(toPlugin, SettingsMessage("didReceiveSettings", m.context, m.payload))
                      ELSE toPlugin
  /\ fromInspector' = Tail(fromInspector)
  /\ UNCHANGED <<shown, fontSize, inspector, fromPlugin, handlers, moves>>

\* A new title is answered with the parameters it is drawn with, that of a
\* hidden button perhaps (lines 505-507 of the plugin).
AnswerTitle ==
  /\ fromPlugin # <<>>
  /\ LET c == Head(fromPlugin) IN
       \/ toPlugin' = Append(toPlugin, TitleMessage(c, fontSize[c]))
       \/ c \notin shown /\ UNCHANGED toPlugin
  /\ fromPlugin' = Tail(fromPlugin)
  /\ UNCHANGED <<shown, settings, fontSize, inspector, fromInspector, handlers, moves>>

-----------------------------------------------------------------------------
(* The plugin.                                                             *)

\* The next message, and what its handlers are given.
Received == Head(toPlugin)
Event == GetStringByName(Received, "event")
Context == GetStringByName(Received, "context")
Payload == GetObjectByName(Received, "payload")

\* Fault: a handler that is running is left alone.
StartIfNew(period, c) ==
  handlers' = IF handlers[c].exists THEN handlers
              ELSE [handlers EXCEPT ![c] = [exists |-> TRUE, interval |-> period, width |-> 0]]

\* A handler that exists is used again, with the width it has, and started with
\* the new interval.
StartButtonHandler(period, c) ==
  handlers' = [handlers EXCEPT ![c] = [exists |-> TRUE, interval |-> period,
                                       width |-> IF @.exists THEN @.width ELSE 0]]

\* Fault: the title is blanked only when the handler is new to the plugin.
ReceiveSettingsQuietly ==
  LET refresh_time == GetIntByName(GetObjectByName(Payload, "settings"), "refresh_time") IN
  /\ fromPlugin' = IF handlers[Context].exists THEN Append(fromPlugin, Context) ELSE fromPlugin
  /\ StartButtonHandler(IF refresh_time = 0 THEN DefaultInterval ELSE refresh_time, Context)

\* The title is blanked to be told the font size, and the handler is started
\* again with the interval of the settings.
ReceiveSettings ==
  LET refresh_time == GetIntByName(GetObjectByName(Payload, "settings"), "refresh_time") IN
  /\ fromPlugin' = Append(fromPlugin, Context)
  /\ StartButtonHandler(IF refresh_time = 0 THEN DefaultInterval ELSE refresh_time, Context)

WillDisappearForAction ==
  /\ handlers' = [handlers EXCEPT ![Context] = NoButton]
  /\ UNCHANGED fromPlugin

\* Fault: operator[] in the place of find makes the entry it does not find.
TitleMakesEntry ==
  LET font_size == GetIntByName(GetObjectByName(Payload, "titleParameters"), "fontSize") IN
  /\ handlers' = [handlers EXCEPT ![Context] = [@ EXCEPT !.exists = TRUE,
                                                        !.width = TextWidth(font_size)]]
  /\ UNCHANGED fromPlugin

\* Fault: only the first font size counts.
TitleOnce ==
  LET font_size == GetIntByName(GetObjectByName(Payload, "titleParameters"), "fontSize") IN
  /\ handlers' = IF handlers[Context].exists /\ handlers[Context].width = 0
                 THEN [handlers EXCEPT ![Context].width = TextWidth(font_size)] ELSE handlers
  /\ UNCHANGED fromPlugin

\* An answer that comes after the button has gone is ignored.
TitleParametersDidChange ==
  LET font_size == GetIntByName(GetObjectByName(Payload, "titleParameters"), "fontSize") IN
  /\ handlers' = IF handlers[Context].exists
                 THEN [handlers EXCEPT ![Context].width = TextWidth(font_size)] ELSE handlers
  /\ UNCHANGED fromPlugin

OnMessage ==
  /\ toPlugin # <<>>
  /\ \/ Event \in {"willAppear", "didReceiveSettings"} /\ ReceiveSettings
     \/ Event = "willDisappear" /\ WillDisappearForAction
     \/ Event = "titleParametersDidChange" /\ TitleParametersDidChange
     \/ Event \in {"keyDown", "keyUp"} /\ UNCHANGED <<handlers, fromPlugin>>
  /\ toPlugin' = Tail(toPlugin)
  /\ UNCHANGED <<shown, settings, fontSize, inspector, fromInspector, moves>>

-----------------------------------------------------------------------------
\* Every message has arrived and been handled.
Settled == fromInspector = <<>> /\ fromPlugin = <<>> /\ toPlugin = <<>>

Waiting == Settled /\ UNCHANGED vars

Next == UserStep \/ StoreSettings \/ AnswerTitle \/ OnMessage \/ Waiting

\* The application and the plugin go on reading their sockets.
Fairness == WF_vars(StoreSettings) /\ WF_vars(AnswerTitle) /\ WF_vars(OnMessage)

Spec == Init /\ [][Next]_vars /\ Fairness

-----------------------------------------------------------------------------
(* Safety.                                                                 *)

\* Once the plugin has caught up, the handlers are those of the buttons on the
\* device: no answer that comes after a button has gone brings its handler
\* back, and none is lost when buttons come and go (lines 443-513).
HandlersAreShown == Settled => {c \in Contexts : handlers[c].exists} = shown

\* Once the plugin has caught up, every worker runs with the interval that is
\* stored, or the default when that is missing, zero or not a number, whatever
\* was typed while the button came and went (lines 463-478).
IntervalIsStored ==
  Settled => \A c \in shown :
    LET t == GetIntByName(settings[c], "refresh_time")
    IN handlers[c].interval = IF t = 0 THEN DefaultInterval ELSE t

\* Once the plugin has caught up, the text width of every handler is that of
\* the button's font, although a new handler starts without one and the answer
\* that brings it may cross a change of the font (lines 474-475 and 498-513).
WidthIsOfFont == Settled => \A c \in shown : handlers[c].width = TextWidth(fontSize[c])

(* Liveness.                                                               *)

\* A button that is shown is drawn in the end, or hidden again: the plugin
\* gets it a handler with a text width (lines 200-204).
ShownButtonIsReady ==
  \A c \in Contexts :
    c \in shown ~> (c \notin shown \/ (handlers[c].exists /\ handlers[c].width > 0))
=============================================================================
