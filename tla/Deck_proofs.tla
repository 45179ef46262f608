----------------------------- MODULE Deck_proofs -----------------------------
(***************************************************************************)
(* Proofs about Deck, for any buttons, fonts, inputs and number of moves:  *)
(* whatever crosses on the way, the plugin that has caught up has the      *)
(* handlers, the intervals and the widths of what is on the device.        *)
(*                                                                         *)
(* The inductive invariant looks at the messages that are on their way to  *)
(* the plugin.  One that says what is no longer so (Stops for a button     *)
(* that is shown, settings or a font that are not the stored ones) is      *)
(* followed by one that says what is; and if none of these is left, the    *)
(* handler is as it should be.  For the width, the plugin may also still   *)
(* have to ask, or wait for the answer.                                    *)
(***************************************************************************)
EXTENDS Deck, SequenceTheorems, TLAPS

\* The messages that start, stop and size the handler of a button, and others.
SettingsMessages(events, c, values) ==
  {SettingsMessage(event, c, fields) : event \in events, fields \in values}
Starts(c) == SettingsMessages({"willAppear", "didReceiveSettings"}, c, SettingsType)
Stops(c) == SettingsMessages({"willDisappear"}, c, SettingsType)
Keys(c) == SettingsMessages({"keyDown", "keyUp"}, c, SettingsType)
Titles(c) == {TitleMessage(c, size) : size \in FontSizes}

Messages == UNION {Starts(c) \cup Stops(c) \cup Keys(c) \cup Titles(c) : c \in Contexts}

\* Those that bring some settings, and some font size.
Announcing(c, fields) == SettingsMessages({"willAppear", "didReceiveSettings"}, c, {fields})
Sizing(c, size) == {TitleMessage(c, size)}

\* The interval that is used for some settings.
Interval(fields) ==
  LET t == GetIntByName(fields, "refresh_time") IN IF t = 0 THEN DefaultInterval ELSE t

Has(q, B) == \E i \in DOMAIN q : q[i] \in B
Followed(q, A, B) == \A i \in DOMAIN q : q[i] \in A => \E j \in DOMAIN q : i < j /\ q[j] \in B

\* The handler of a button will be there as long as the button is, and no
\* longer, but for settings that are reported after the button has gone.
HandlerFollows(c) ==
  IF c \in shown
  THEN Followed(toPlugin, Stops(c), Starts(c)) /\ (handlers[c].exists \/ Has(toPlugin, Starts(c)))
  ELSE ~ReportsHidden =>
    /\ Followed(toPlugin, Starts(c), Stops(c))
    /\ handlers[c].exists => Has(toPlugin, Stops(c))

\* The last word on the interval is what is stored, and so is the interval if
\* nothing more is said about it.
IntervalFollows(c) ==
  LET last == Announcing(c, settings[c]) IN
  c \in shown =>
    /\ Followed(toPlugin, Starts(c) \ last, last)
    /\ handlers[c].interval = Interval(settings[c]) \/ Has(toPlugin, last)

\* A title was blanked whose answer is still to come, or will be blanked.
Asked(c) == Has(fromPlugin, {c}) \/ Has(toPlugin, Starts(c))

WidthFollows(c) ==
  LET last == Sizing(c, fontSize[c]) IN
  c \in shown =>
    \/ Asked(c)
    \/ /\ Followed(toPlugin, Titles(c) \ last, last)
       /\ handlers[c].width = TextWidth(fontSize[c]) \/ Has(toPlugin, last)

Follows(c) == HandlerFollows(c) /\ IntervalFollows(c) /\ WidthFollows(c)

DeckTypeInv == DeckTypeOK /\ toPlugin \in Seq(Messages)
DeckInv == DeckTypeInv /\ \A c \in Contexts : Follows(c)

-----------------------------------------------------------------------------
(* Conversions and lookups.                                                *)

LEMMA ToIntType == \A n \in Int : ToInt(n) \in Int32
BY HalfAssumption DEF ToInt, Int32

LEMMA ToIntOfInt32 == \A n \in Int32 : ToInt(n) = n
BY HalfAssumption DEF ToInt, Int32

LEMMA TextWidthType == \A size \in Nat \ {0, 1} : TextWidth(size) \in 0..72
<1> SUFFICES ASSUME NEW size \in Nat \ {0, 1} PROVE TextWidth(size) \in 0..72
  OBVIOUS
<1>1. size \div 2 \in Nat \ {0}
  OBVIOUS
<1>2. \A d \in Nat \ {0} : 72 \div d \in 0..72
  OBVIOUS
<1> QED BY <1>1, <1>2 DEF TextWidth

LEMMA MessageFields ==
  ASSUME NEW event, NEW c, NEW payload
  PROVE  /\ GetStringByName(Message(event, c, payload), "event") = event
         /\ GetStringByName(Message(event, c, payload), "context") = c
         /\ GetObjectByName(Message(event, c, payload), "payload") = payload
BY DEF Message, GetStringByName, GetObjectByName, Lookup, String, Object

LEMMA SettingsFields ==
  ASSUME NEW fields
  PROVE  GetObjectByName([settings |-> Object(fields)], "settings") = fields
BY DEF GetObjectByName, Lookup, Object

LEMMA TitleFields ==
  ASSUME NEW size \in FontSizes
  PROVE  GetIntByName(GetObjectByName([titleParameters |-> Object([fontSize |-> Integer(size)])],
                                      "titleParameters"), "fontSize") = size
<1>1. GetObjectByName([titleParameters |-> Object([fontSize |-> Integer(size)])],
                      "titleParameters") = [fontSize |-> Integer(size)]
  BY DEF GetObjectByName, Lookup, Object
<1>2. Lookup([fontSize |-> Integer(size)], "fontSize", "integer", 0) = size
  BY DEF Lookup, Integer
<1> QED BY <1>1, <1>2, ToIntOfInt32, DeckAssumption DEF GetIntByName

LEMMA IntervalType == \A fields \in SettingsType : Interval(fields) \in Int32
<1> SUFFICES ASSUME NEW fields \in SettingsType PROVE Interval(fields) \in Int32
  OBVIOUS
<1>1. Lookup(fields, "refresh_time", "integer", 0) \in Int
  <2>1. CASE fields = NoFields
    BY <2>1 DEF Lookup, NoFields
  <2>2. CASE fields \in [refresh_time : Typed]
    BY <2>2, DeckAssumption DEF Lookup
  <2> QED BY <2>1, <2>2 DEF SettingsType
<1> QED BY <1>1, ToIntType, DeckAssumption DEF Interval, GetIntByName

-----------------------------------------------------------------------------
(* Messages and their sequences.                                           *)

EventOf(m) == GetStringByName(m, "event")
ContextOf(m) == GetStringByName(m, "context")
SettingsOf(m) == GetObjectByName(GetObjectByName(m, "payload"), "settings")
SizeOf(m) ==
  GetIntByName(GetObjectByName(GetObjectByName(m, "payload"), "titleParameters"), "fontSize")

LEMMA SettingsMessageFields ==
  ASSUME NEW event, NEW c, NEW fields
  PROVE  LET m == SettingsMessage(event, c, fields)
         IN EventOf(m) = event /\ ContextOf(m) = c /\ SettingsOf(m) = fields
BY MessageFields, SettingsFields DEF SettingsMessage, EventOf, ContextOf, SettingsOf

LEMMA TitleMessageFields ==
  ASSUME NEW c, NEW size \in FontSizes
  PROVE  LET m == TitleMessage(c, size)
         IN /\ EventOf(m) = "titleParametersDidChange" /\ ContextOf(m) = c
            /\ SizeOf(m) = size
BY MessageFields, TitleFields DEF TitleMessage, EventOf, ContextOf, SizeOf

\* What a message is tells whose and which it is.
LEMMA MessageKinds ==
  ASSUME NEW m \in Messages
  PROVE  /\ ContextOf(m) \in Contexts
         /\ EventOf(m) \in {"willAppear", "didReceiveSettings", "willDisappear",
                            "keyDown", "keyUp", "titleParametersDidChange"}
         /\ EventOf(m) # "titleParametersDidChange" => SettingsOf(m) \in SettingsType
         /\ EventOf(m) = "titleParametersDidChange" => SizeOf(m) \in FontSizes
         /\ \A c : /\ m \in Starts(c) <=> /\ ContextOf(m) = c
                                          /\ EventOf(m) \in {"willAppear", "didReceiveSettings"}
                   /\ m \in Stops(c) <=> ContextOf(m) = c /\ EventOf(m) = "willDisappear"
                   /\ m \in Titles(c) <=> /\ ContextOf(m) = c
                                          /\ EventOf(m) = "titleParametersDidChange"
                   /\ \A fields \in SettingsType :
                        m \in Announcing(c, fields) <=> m \in Starts(c) /\ SettingsOf(m) = fields
                   /\ \A size \in FontSizes :
                        m \in Sizing(c, size) <=> m \in Titles(c) /\ SizeOf(m) = size
<1>1. PICK b \in Contexts : m \in Starts(b) \cup Stops(b) \cup Keys(b) \cup Titles(b)
  BY DEF Messages
<1> USE DEF Starts, Stops, Keys, Titles, Announcing, Sizing, SettingsMessages
<1>2. CASE \E event \in {"willAppear", "didReceiveSettings", "willDisappear", "keyDown", "keyUp"},
              fields \in SettingsType : m = SettingsMessage(event, b, fields)
  BY <1>2, SettingsMessageFields, TitleMessageFields
<1>3. CASE \E size \in FontSizes : m = TitleMessage(b, size)
  BY <1>3, SettingsMessageFields, TitleMessageFields
<1> QED BY <1>1, <1>2, <1>3

LEMMA SettingsMessageKind ==
  ASSUME NEW c \in Contexts, NEW fields \in SettingsType,
         NEW event \in {"willAppear", "didReceiveSettings", "willDisappear", "keyDown", "keyUp"}
  PROVE  SettingsMessage(event, c, fields) \in Messages
BY DEF Messages, Starts, Stops, Keys, SettingsMessages

LEMMA TitleMessageKind ==
  ASSUME NEW c \in Contexts, NEW size \in FontSizes
  PROVE  TitleMessage(c, size) \in Messages
BY DEF Messages, Titles

LEMMA AppendFacts ==
  ASSUME NEW M, NEW q \in Seq(M), NEW m \in M
  PROVE  /\ Append(q, m) \in Seq(M)
         /\ \A B : Has(Append(q, m), B) <=> Has(q, B) \/ m \in B
         /\ \A A, B : m \notin A /\ (Followed(q, A, B) \/ m \in B) => Followed(Append(q, m), A, B)
<1>1. /\ Append(q, m) \in Seq(M) /\ Len(q) \in Nat
      /\ DOMAIN q = 1..Len(q) /\ DOMAIN Append(q, m) = 1..(Len(q) + 1)
      /\ \A i \in 1..Len(q) : Append(q, m)[i] = q[i]
      /\ Append(q, m)[Len(q) + 1] = m
  OBVIOUS
<1>2. ASSUME NEW B PROVE Has(Append(q, m), B) <=> Has(q, B) \/ m \in B
  BY <1>1 DEF Has
<1>3. ASSUME NEW A, NEW B, m \notin A, Followed(q, A, B) \/ m \in B
      PROVE  Followed(Append(q, m), A, B)
  BY <1>1, <1>3 DEF Followed
<1> QED BY <1>1, <1>2, <1>3

LEMMA TailFacts ==
  ASSUME NEW M, NEW q \in Seq(M), q # <<>>
  PROVE  /\ Head(q) \in M /\ Tail(q) \in Seq(M)
         /\ \A B : Has(q, B) <=> Head(q) \in B \/ Has(Tail(q), B)
         /\ \A A, B : Followed(q, A, B) => /\ Followed(Tail(q), A, B)
                                           /\ Head(q) \in A => Has(Tail(q), B)
<1>1. /\ Head(q) = q[1] /\ Tail(q) \in Seq(M) /\ Len(q) \in Nat \ {0}
      /\ DOMAIN q = 1..Len(q) /\ DOMAIN Tail(q) = 1..(Len(q) - 1)
      /\ \A i \in 1..(Len(q) - 1) : Tail(q)[i] = q[i + 1]
  OBVIOUS
<1>2. \A i \in 2..Len(q) : i - 1 \in DOMAIN Tail(q) /\ Tail(q)[i - 1] = q[i]
  BY <1>1
<1>3. \A j \in DOMAIN Tail(q) : j + 1 \in DOMAIN q /\ Tail(q)[j] = q[j + 1]
  BY <1>1
<1>4. ASSUME NEW B PROVE Has(q, B) <=> Head(q) \in B \/ Has(Tail(q), B)
  <2>1. ASSUME Has(q, B), Head(q) \notin B PROVE Has(Tail(q), B)
    <3>1. PICK i \in DOMAIN q : q[i] \in B
      BY <2>1 DEF Has
    <3>2. i \in 2..Len(q)
      BY <1>1, <2>1, <3>1
    <3> QED BY <1>2, <3>1, <3>2 DEF Has
  <2>2. Head(q) \in B => Has(q, B)
    BY <1>1 DEF Has
  <2>3. Has(Tail(q), B) => Has(q, B)
    BY <1>3 DEF Has
  <2> QED BY <2>1, <2>2, <2>3
<1>5. ASSUME NEW A, NEW B, Followed(q, A, B)
      PROVE  Followed(Tail(q), A, B) /\ (Head(q) \in A => Has(Tail(q), B))
  <2>1. ASSUME NEW i \in DOMAIN q, q[i] \in A
        PROVE  \E j \in DOMAIN Tail(q) : i < j + 1 /\ Tail(q)[j] \in B
    <3>1. PICK j \in DOMAIN q : i < j /\ q[j] \in B
      BY <1>5, <2>1 DEF Followed
    <3>2. j \in 2..Len(q) /\ i < (j - 1) + 1
      BY <1>1, <3>1
    <3> QED BY <1>2, <3>1, <3>2
  <2>2. Head(q) \in A => Has(Tail(q), B)
    BY <1>1, <2>1 DEF Has
  <2>3. ASSUME NEW k \in DOMAIN Tail(q), Tail(q)[k] \in A
        PROVE  \E j \in DOMAIN Tail(q) : k < j /\ Tail(q)[j] \in B
    <3>1. k + 1 \in DOMAIN q /\ q[k + 1] \in A
      BY <1>3, <2>3
    <3>2. PICK j \in DOMAIN Tail(q) : k + 1 < j + 1 /\ Tail(q)[j] \in B
      BY <2>1, <3>1
    <3> QED BY <1>1, <3>2
  <2> QED BY <2>2, <2>3 DEF Followed
<1> QED BY <1>1, <1>4, <1>5

LEMMA LastFacts ==
  ASSUME NEW q, NEW A, NEW B, Followed(q, A \ B, B), Has(q, A)
  PROVE  Has(q, B)
BY DEF Followed, Has

LEMMA EmptyFacts == \A B : ~Has(<<>>, B)
BY DEF Has

-----------------------------------------------------------------------------
(* Type correctness.                                                       *)

LEMMA DeckTypeInit == Init => DeckTypeInv
BY HalfAssumption DEF Init, DeckTypeInv, DeckTypeOK, SettingsType, NoButton, Int32

\* What the user does.
LEMMA DeckTypeUser ==
  ASSUME DeckTypeInv, UserStep
  PROVE  DeckTypeInv'
<1> USE DEF DeckTypeInv, DeckTypeOK, Move
<1>1. \A m \in Messages : Append(toPlugin, m) \in Seq(Messages)
  BY AppendFacts
<1>2. ASSUME NEW c \in Contexts, Show(c) \/ Hide(c) \/ PressKey(c)
      PROVE  DeckTypeInv'
  <2>1. PICK event \in {"willAppear", "willDisappear", "keyDown", "keyUp"} :
          toPlugin' = Append(toPlugin, SettingsMessage(event, c, settings[c]))
    BY <1>2 DEF Show, Hide, PressKey
  <2>2. toPlugin' \in Seq(Messages)
    BY <1>1, <2>1, SettingsMessageKind
  <2>3. UNCHANGED <<settings, fontSize, inspector, fromInspector, fromPlugin, handlers>>
    BY <1>2 DEF Show, Hide, PressKey
  <2>4. shown' \subseteq Contexts /\ moves' \in Nat
    BY <1>2 DEF Show, Hide, PressKey
  <2> QED BY <2>2, <2>3, <2>4
<1>3. ASSUME NEW c \in Contexts, ChangeFont(c) PROVE DeckTypeInv'
  <2>1. PICK size \in FontSizes : /\ fontSize' = [fontSize EXCEPT ![c] = size]
                                  /\ toPlugin' = Append(toPlugin, TitleMessage(c, size))
    BY <1>3 DEF ChangeFont
  <2>2. toPlugin' \in Seq(Messages)
    BY <1>1, <2>1, TitleMessageKind
  <2>3. fontSize' \in [Contexts -> FontSizes]
    BY <2>1
  <2>4. /\ UNCHANGED <<shown, settings, inspector, fromInspector, fromPlugin, handlers>>
        /\ moves' \in Nat
    BY <1>3 DEF ChangeFont
  <2> QED BY <2>2, <2>3, <2>4
<1>4. ASSUME NEW c \in Contexts, OpenInspector(c) PROVE DeckTypeInv'
  <2>1. "refresh_time" \in DOMAIN settings[c] => settings[c].refresh_time \in Typed
    BY DEF SettingsType, NoFields
  <2>2. inspector' \in [open : {TRUE}, context : Contexts,
                        field : Typed \cup {Integer(DefaultInterval)}]
    BY <1>4, <2>1 DEF OpenInspector
  <2> QED BY <1>4, <2>2 DEF OpenInspector, channels
<1>5. ASSUME NEW value \in Typed, SetSettings(value) PROVE DeckTypeInv'
  <2>1. inspector \in [open : {TRUE}, context : Contexts,
                       field : Typed \cup {Integer(DefaultInterval)}]
    <3>1. inspector # Closed
      BY <1>5 DEF SetSettings, Closed
    <3> QED BY <3>1
  <2>2. [context |-> inspector.context, payload |-> [refresh_time |-> value]]
          \in [context : Contexts, payload : SettingsType]
    BY <2>1 DEF SettingsType
  <2>3. fromInspector' \in Seq([context : Contexts, payload : SettingsType])
    BY <1>5, <2>2 DEF SetSettings
  <2>4. inspector' \in [open : {TRUE}, context : Contexts,
                        field : Typed \cup {Integer(DefaultInterval)}]
    BY <1>5, <2>1 DEF SetSettings
  <2>5. /\ UNCHANGED <<shown, settings, fontSize, fromPlugin, toPlugin, handlers>>
        /\ moves' \in Nat
    BY <1>5 DEF SetSettings
  <2> QED BY <2>3, <2>4, <2>5
<1>6. CASE CloseInspector
  BY <1>6 DEF CloseInspector, channels
<1> QED BY <1>2, <1>3, <1>4, <1>5, <1>6 DEF UserStep

\* What Stream Deck does.
LEMMA DeckTypeApplication ==
  ASSUME DeckTypeInv, StoreSettings \/ AnswerTitle
  PROVE  DeckTypeInv'
<1> USE DEF DeckTypeInv, DeckTypeOK
<1>1. CASE StoreSettings
  <2> DEFINE m == Head(fromInspector)
  <2>1. /\ m \in [context : Contexts, payload : SettingsType]
        /\ fromInspector' \in Seq([context : Contexts, payload : SettingsType])
    BY <1>1, TailFacts DEF StoreSettings
  <2>2. SettingsMessage("didReceiveSettings", m.context, m.payload) \in Messages
    BY <2>1, SettingsMessageKind
  <2>3. toPlugin' \in Seq(Messages)
    BY <1>1, <2>2, AppendFacts DEF StoreSettings
  <2> QED BY <1>1, <2>1, <2>3 DEF StoreSettings
<1>2. CASE AnswerTitle
  <2> DEFINE c == Head(fromPlugin)
  <2>1. c \in Contexts /\ fromPlugin' \in Seq(Contexts)
    BY <1>2, TailFacts DEF AnswerTitle
  <2>2. Append(toPlugin, TitleMessage(c, fontSize[c])) \in Seq(Messages)
    BY <2>1, TitleMessageKind, AppendFacts
  <2>3. toPlugin' \in Seq(Messages)
    BY <1>2, <2>2 DEF AnswerTitle
  <2> QED BY <1>2, <2>1, <2>3 DEF AnswerTitle
<1> QED BY <1>1, <1>2

\* The message that is handled, and what the handlers are after it.
LEMMA HandledMessage ==
  ASSUME DeckTypeInv, OnMessage
  PROVE  LET m == Head(toPlugin)
             c == ContextOf(m)
         IN /\ m \in Messages /\ c \in Contexts
            /\ \/ /\ EventOf(m) \in {"willAppear", "didReceiveSettings"}
                  /\ SettingsOf(m) \in SettingsType
                  /\ fromPlugin' = Append(fromPlugin, c)
                  /\ handlers' = [handlers EXCEPT ![c] =
                                    [exists |-> TRUE, interval |-> Interval(SettingsOf(m)),
                                     width |-> IF handlers[c].exists THEN handlers[c].width ELSE 0]]
               \/ /\ EventOf(m) = "willDisappear" /\ UNCHANGED fromPlugin
                  /\ handlers' = [handlers EXCEPT ![c] = NoButton]
               \/ /\ EventOf(m) = "titleParametersDidChange" /\ UNCHANGED fromPlugin
                  /\ SizeOf(m) \in FontSizes
                  /\ handlers' = IF handlers[c].exists
                                 THEN [handlers EXCEPT ![c].width = TextWidth(SizeOf(m))]
                                 ELSE handlers
               \/ EventOf(m) \in {"keyDown", "keyUp"} /\ UNCHANGED <<handlers, fromPlugin>>
<1> DEFINE m == Head(toPlugin)
<1>1. m \in Messages
  BY TailFacts DEF DeckTypeInv, OnMessage
<1>2. Received = m /\ Event = EventOf(m) /\ Context = ContextOf(m)
  BY DEF Received, Event, Context, EventOf, ContextOf
<1>3. CASE Event \in {"willAppear", "didReceiveSettings"} /\ ReceiveSettings
  BY <1>1, <1>2, <1>3, MessageKinds
  DEF ReceiveSettings, StartButtonHandler, Interval, SettingsOf, Payload, DeckTypeInv, DeckTypeOK
<1>4. CASE Event = "willDisappear" /\ WillDisappearForAction
  BY <1>1, <1>2, <1>4, MessageKinds DEF WillDisappearForAction
<1>5. CASE Event = "titleParametersDidChange" /\ TitleParametersDidChange
  BY <1>1, <1>2, <1>5, MessageKinds DEF TitleParametersDidChange, SizeOf, Payload
<1>6. CASE Event \in {"keyDown", "keyUp"} /\ UNCHANGED <<handlers, fromPlugin>>
  BY <1>1, <1>2, <1>6, MessageKinds
<1> QED BY <1>3, <1>4, <1>5, <1>6 DEF OnMessage

LEMMA DeckTypePlugin ==
  ASSUME DeckTypeInv, OnMessage
  PROVE  DeckTypeInv'
<1> DEFINE m == Head(toPlugin)
           c == ContextOf(m)
           HandlerType == [exists : BOOLEAN, interval : Int32, width : 0 .. 72]
           started == [exists |-> TRUE, interval |-> Interval(SettingsOf(m)),
                       width |-> IF handlers[c].exists THEN handlers[c].width ELSE 0]
           sized == [handlers[c] EXCEPT !.width = TextWidth(SizeOf(m))]
<1>1. toPlugin' \in Seq(Messages) /\ UNCHANGED <<shown, settings, fontSize, inspector,
                                                  fromInspector, moves>>
  BY TailFacts DEF OnMessage, DeckTypeInv
<1>2. /\ c \in Contexts /\ handlers \in [Contexts -> HandlerType] /\ handlers[c] \in HandlerType
      /\ fromPlugin \in Seq(Contexts)
  BY HandledMessage DEF DeckTypeInv, DeckTypeOK
<1>3. \/ /\ SettingsOf(m) \in SettingsType
         /\ fromPlugin' = Append(fromPlugin, c) /\ handlers' = [handlers EXCEPT ![c] = started]
      \/ UNCHANGED fromPlugin /\ handlers' = [handlers EXCEPT ![c] = NoButton]
      \/ /\ SizeOf(m) \in FontSizes /\ UNCHANGED fromPlugin
         /\ handlers' = [handlers EXCEPT ![c] = sized] \/ UNCHANGED handlers
      \/ UNCHANGED <<handlers, fromPlugin>>
  BY <1>2, HandledMessage
<1>4. SettingsOf(m) \in SettingsType => started \in HandlerType
  BY <1>2, IntervalType
<1>5. SizeOf(m) \in FontSizes => sized \in HandlerType
  BY <1>2, DeckAssumption, TextWidthType
<1>6. NoButton \in HandlerType
  BY HalfAssumption DEF NoButton, Int32
<1> HIDE DEF HandlerType, started, sized, c, m
<1>7. handlers' \in [Contexts -> HandlerType]
  BY <1>2, <1>3, <1>4, <1>5, <1>6
<1>8. fromPlugin' \in Seq(Contexts)
  BY <1>2, <1>3, AppendFacts
<1> QED BY <1>1, <1>7, <1>8 DEF DeckTypeInv, DeckTypeOK, HandlerType

LEMMA DeckTypeStep == DeckTypeInv /\ [Next]_vars => DeckTypeInv'
<1> SUFFICES ASSUME DeckTypeInv, [Next]_vars PROVE DeckTypeInv'
  OBVIOUS
<1>1. CASE UserStep
  BY <1>1, DeckTypeUser
<1>2. CASE StoreSettings \/ AnswerTitle
  BY <1>2, DeckTypeApplication
<1>3. CASE OnMessage
  BY <1>3, DeckTypePlugin
<1>4. CASE UNCHANGED vars
  BY <1>4 DEF vars, channels, DeckTypeInv, DeckTypeOK
<1> QED BY <1>1, <1>2, <1>3, <1>4 DEF Next, Waiting

\* Whatever is typed, the interval of a handler is an int, and the width fits
\* the button (EPLJSONUtils.h line 119, lines 463-478 and 511 of the plugin).
THEOREM DeckTypeCorrect == Spec => []DeckTypeOK
<1>1. DeckTypeInv => DeckTypeOK
  BY DEF DeckTypeInv
<1> QED BY <1>1, DeckTypeInit, DeckTypeStep, PTL DEF Spec

-----------------------------------------------------------------------------
(* The plugin follows.                                                     *)

LEMMA FollowsInit == Init => \A c \in Contexts : Follows(c)
BY DEF Init, Follows, HandlerFollows, IntervalFollows, WidthFollows, NoButton, Followed, Has

\* Nothing of a button changes but its stored settings, if it is hidden, and no
\* message about it comes or goes.
LEMMA FollowsFrame ==
  ASSUME DeckTypeOK, NEW c \in Contexts, Follows(c),
         c \in shown' <=> c \in shown,
         fontSize'[c] = fontSize[c], handlers'[c] = handlers[c],
         c \in shown => settings'[c] = settings[c],
         Has(fromPlugin, {c}) => Has(fromPlugin', {c}),
         \A A, B : A \subseteq Starts(c) \cup Stops(c) \cup Titles(c) =>
           /\ Has(toPlugin', A) <=> Has(toPlugin, A)
           /\ Followed(toPlugin, A, B) => Followed(toPlugin', A, B)
  PROVE  Follows(c)'
<1>1. HandlerFollows(c)'
  BY DEF Follows, HandlerFollows
<1>2. IntervalFollows(c)'
  <2> DEFINE last == Announcing(c, settings[c])
  <2>1. last \subseteq Starts(c)
    BY DEF DeckTypeOK, Announcing, Starts, SettingsMessages
  <2>2. /\ Has(toPlugin', last) <=> Has(toPlugin, last)
        /\ Followed(toPlugin, Starts(c) \ last, last) => Followed(toPlugin', Starts(c) \ last, last)
    BY <2>1
  <2>3. c \in shown => Announcing(c, settings'[c]) = last
    OBVIOUS
  <2> HIDE DEF last
  <2> QED BY <2>2, <2>3 DEF Follows, IntervalFollows, last
<1>3. WidthFollows(c)'
  <2> DEFINE last == Sizing(c, fontSize[c])
  <2>1. last \subseteq Titles(c)
    BY DEF DeckTypeOK, Sizing, Titles
  <2>2. /\ Has(toPlugin', last) <=> Has(toPlugin, last)
        /\ Followed(toPlugin, Titles(c) \ last, last) => Followed(toPlugin', Titles(c) \ last, last)
        /\ Has(toPlugin', Starts(c)) <=> Has(toPlugin, Starts(c))
    BY <2>1
  <2>3. Asked(c) => Asked(c)'
    BY <2>2 DEF Asked
  <2> QED BY <2>2, <2>3 DEF Follows, WidthFollows
<1> QED BY <1>1, <1>2, <1>3 DEF Follows

\* Such a message is one about another button, or about a key.
LEMMA UnrelatedMessage ==
  ASSUME NEW c, NEW q \in Seq(Messages), NEW A,
         A \subseteq Starts(c) \cup Stops(c) \cup Titles(c), NEW B
  PROVE  /\ \A m \in Messages :
              ContextOf(m) # c \/ EventOf(m) \in {"keyDown", "keyUp"} =>
                /\ Has(Append(q, m), A) <=> Has(q, A)
                /\ Followed(q, A, B) => Followed(Append(q, m), A, B)
         /\ q # <<>> /\ (ContextOf(Head(q)) # c \/ EventOf(Head(q)) \in {"keyDown", "keyUp"}) =>
              /\ Has(Tail(q), A) <=> Has(q, A)
              /\ Followed(q, A, B) => Followed(Tail(q), A, B)
<1>1. \A m \in Messages :
        ContextOf(m) # c \/ EventOf(m) \in {"keyDown", "keyUp"} => m \notin A
  BY MessageKinds
<1>2. ASSUME NEW m \in Messages, m \notin A
      PROVE  /\ Has(Append(q, m), A) <=> Has(q, A)
             /\ Followed(q, A, B) => Followed(Append(q, m), A, B)
  BY <1>2, AppendFacts
<1>3. ASSUME q # <<>> PROVE Head(q) \in Messages /\ (Has(q, A) <=> Head(q) \in A \/ Has(Tail(q), A))
                            /\ (Followed(q, A, B) => Followed(Tail(q), A, B))
  BY <1>3, TailFacts
<1> QED BY <1>1, <1>2, <1>3

\* A message that is not about a button is queued, or handled.
LEMMA FollowsUnrelated ==
  ASSUME DeckTypeInv, NEW c \in Contexts, Follows(c), NEW m \in Messages,
         ContextOf(m) # c \/ EventOf(m) \in {"keyDown", "keyUp"},
         \/ toPlugin' = Append(toPlugin, m)
         \/ toPlugin # <<>> /\ m = Head(toPlugin) /\ toPlugin' = Tail(toPlugin),
         c \in shown' <=> c \in shown,
         fontSize'[c] = fontSize[c], handlers'[c] = handlers[c],
         c \in shown => settings'[c] = settings[c],
         Has(fromPlugin, {c}) => Has(fromPlugin', {c})
  PROVE  Follows(c)'
<1>1. toPlugin \in Seq(Messages) /\ DeckTypeOK
  BY DEF DeckTypeInv
<1>2. ASSUME NEW A, NEW B, A \subseteq Starts(c) \cup Stops(c) \cup Titles(c)
      PROVE  /\ Has(toPlugin', A) <=> Has(toPlugin, A)
             /\ Followed(toPlugin, A, B) => Followed(toPlugin', A, B)
  <2>1. CASE toPlugin' = Append(toPlugin, m)
    BY <1>1, <1>2, <2>1, UnrelatedMessage
  <2>2. CASE toPlugin # <<>> /\ m = Head(toPlugin) /\ toPlugin' = Tail(toPlugin)
    BY <1>1, <1>2, <2>2, UnrelatedMessage
  <2> QED BY <2>1, <2>2
<1> QED BY <1>1, <1>2, FollowsFrame

\* A button is shown: its handler will be there, with the interval and the font
\* that are stored.
LEMMA FollowsShow ==
  ASSUME DeckTypeInv, NEW c \in Contexts, Follows(c), Show(c)
  PROVE  Follows(c)'
<1> DEFINE m == SettingsMessage("willAppear", c, settings[c])
<1>1. /\ toPlugin' = Append(toPlugin, m) /\ toPlugin \in Seq(Messages)
      /\ settings[c] \in SettingsType /\ c \notin shown /\ c \in shown'
      /\ UNCHANGED <<settings, fontSize, fromPlugin, handlers>>
  BY DEF Show, DeckTypeInv, DeckTypeOK
<1>2. m \in Messages /\ EventOf(m) = "willAppear" /\ ContextOf(m) = c /\ SettingsOf(m) = settings[c]
  BY <1>1, SettingsMessageKind, SettingsMessageFields
<1> HIDE DEF m
<1>3. m \in Starts(c) /\ m \in Announcing(c, settings[c]) /\ m \notin Stops(c)
  BY <1>1, <1>2, MessageKinds
<1>4. /\ Has(toPlugin', Starts(c)) /\ Has(toPlugin', Announcing(c, settings[c]))
      /\ Followed(toPlugin', Stops(c), Starts(c))
      /\ Followed(toPlugin', Starts(c) \ Announcing(c, settings[c]), Announcing(c, settings[c]))
  BY <1>1, <1>2, <1>3, AppendFacts
<1> QED BY <1>1, <1>4 DEF Follows, HandlerFollows, IntervalFollows, WidthFollows, Asked

LEMMA FollowsHide ==
  ASSUME DeckTypeInv, NEW c \in Contexts, Follows(c), Hide(c)
  PROVE  Follows(c)'
<1> DEFINE m == SettingsMessage("willDisappear", c, settings[c])
<1>1. /\ toPlugin' = Append(toPlugin, m) /\ toPlugin \in Seq(Messages)
      /\ settings[c] \in SettingsType /\ c \notin shown'
  BY DEF Hide, DeckTypeInv, DeckTypeOK
<1>2. m \in Messages /\ EventOf(m) = "willDisappear" /\ ContextOf(m) = c
  BY <1>1, SettingsMessageKind, SettingsMessageFields
<1> HIDE DEF m
<1>3. m \in Stops(c) /\ m \notin Starts(c)
  BY <1>1, <1>2, MessageKinds
<1>4. Has(toPlugin', Stops(c)) /\ Followed(toPlugin', Starts(c), Stops(c))
  BY <1>1, <1>2, <1>3, AppendFacts
<1> QED BY <1>1, <1>4 DEF Follows, HandlerFollows, IntervalFollows, WidthFollows

\* A title message leaves handler and interval to the others, and is the last
\* word on the width if it tells the font that is stored then.
LEMMA FollowsTitle ==
  ASSUME DeckTypeInv, DeckTypeInv', NEW c \in Contexts, Follows(c),
         UNCHANGED <<shown, settings, handlers>>,
         toPlugin' = Append(toPlugin, TitleMessage(c, fontSize'[c]))
  PROVE  Follows(c)'
<1> DEFINE m == TitleMessage(c, fontSize'[c])
           lastStart == Announcing(c, settings[c])
           last == Sizing(c, fontSize'[c])
<1>1. /\ toPlugin' = Append(toPlugin, m) /\ toPlugin \in Seq(Messages)
      /\ fontSize'[c] \in FontSizes /\ settings[c] \in SettingsType
  BY DEF DeckTypeInv, DeckTypeOK
<1>2. /\ m \in Messages /\ EventOf(m) = "titleParametersDidChange" /\ ContextOf(m) = c
      /\ SizeOf(m) = fontSize'[c]
  BY <1>1, TitleMessageKind, TitleMessageFields
<1> HIDE DEF m
<1>3. m \notin Starts(c) /\ m \notin Stops(c) /\ m \notin lastStart /\ m \in last
  BY <1>1, <1>2, MessageKinds
<1> HIDE DEF lastStart, last
<1>4. /\ Has(toPlugin', Starts(c)) <=> Has(toPlugin, Starts(c))
      /\ Has(toPlugin', Stops(c)) <=> Has(toPlugin, Stops(c))
      /\ Has(toPlugin', lastStart) <=> Has(toPlugin, lastStart)
      /\ Followed(toPlugin, Stops(c), Starts(c)) => Followed(toPlugin', Stops(c), Starts(c))
      /\ Followed(toPlugin, Starts(c), Stops(c)) => Followed(toPlugin', Starts(c), Stops(c))
      /\ Followed(toPlugin, Starts(c) \ lastStart, lastStart) =>
           Followed(toPlugin', Starts(c) \ lastStart, lastStart)
      /\ Has(toPlugin', last) /\ Followed(toPlugin', Titles(c) \ last, last)
  BY <1>1, <1>2, <1>3, AppendFacts
<1>5. HandlerFollows(c)'
  BY <1>4 DEF Follows, HandlerFollows
<1>6. IntervalFollows(c)'
  BY <1>4 DEF Follows, IntervalFollows, lastStart
<1>7. WidthFollows(c)'
  BY <1>4 DEF WidthFollows, last
<1> QED BY <1>5, <1>6, <1>7 DEF Follows

LEMMA FollowsUser ==
  ASSUME DeckTypeInv, DeckTypeInv', NEW c \in Contexts, Follows(c), UserStep
  PROVE  Follows(c)'
<1>1. ASSUME NEW d \in Contexts, Show(d) \/ Hide(d) \/ PressKey(d) PROVE Follows(c)'
  <2>1. PICK event \in {"willAppear", "willDisappear", "keyDown", "keyUp"} :
          /\ toPlugin' = Append(toPlugin, SettingsMessage(event, d, settings[d]))
          /\ event \in {"keyDown", "keyUp"} <=> PressKey(d)
    BY <1>1 DEF Show, Hide, PressKey
  <2> DEFINE m == SettingsMessage(event, d, settings[d])
  <2>2. m \in Messages /\ EventOf(m) = event /\ ContextOf(m) = d
    BY SettingsMessageKind, SettingsMessageFields DEF DeckTypeInv, DeckTypeOK
  <2>3. CASE c = d /\ ~PressKey(d)
    BY <1>1, <2>3, FollowsShow, FollowsHide
  <2>4. CASE c # d \/ PressKey(d)
    <3>1. /\ c \in shown' <=> c \in shown
          /\ UNCHANGED <<settings, fontSize, fromPlugin, handlers>>
      BY <1>1, <2>4 DEF Show, Hide, PressKey
    <3> QED BY <2>1, <2>2, <2>4, <3>1, FollowsUnrelated
  <2> QED BY <2>3, <2>4
<1>2. ASSUME NEW d \in Contexts, ChangeFont(d) PROVE Follows(c)'
  <2>1. PICK size \in FontSizes : /\ fontSize' = [fontSize EXCEPT ![d] = size]
                                  /\ toPlugin' = Append(toPlugin, TitleMessage(d, size))
    BY <1>2 DEF ChangeFont
  <2>2. UNCHANGED <<shown, settings, fromPlugin, handlers>> /\ fontSize'[d] = size
    BY <1>2, <2>1 DEF ChangeFont, DeckTypeInv, DeckTypeOK
  <2>3. CASE c = d
    BY <2>1, <2>2, <2>3, FollowsTitle
  <2>4. CASE c # d
    <3>1. fontSize'[c] = fontSize[c]
      BY <2>1, <2>4 DEF DeckTypeInv, DeckTypeOK
    <3>2. TitleMessage(d, size) \in Messages /\ ContextOf(TitleMessage(d, size)) = d
      BY TitleMessageKind, TitleMessageFields
    <3> QED BY <2>1, <2>2, <2>4, <3>1, <3>2, FollowsUnrelated
  <2> QED BY <2>3, <2>4
<1>3. CASE CloseInspector \/ (\E d \in Contexts : OpenInspector(d))
           \/ (\E value \in Typed : SetSettings(value))
  <2>1. UNCHANGED <<shown, settings, fontSize, fromPlugin, toPlugin, handlers>>
    BY <1>3 DEF CloseInspector, OpenInspector, SetSettings, channels
  <2> QED BY <2>1, FollowsFrame DEF DeckTypeInv
<1> QED BY <1>1, <1>2, <1>3 DEF UserStep

LEMMA FollowsStore ==
  ASSUME DeckTypeInv, NEW c \in Contexts, Follows(c), StoreSettings
  PROVE  Follows(c)'
<1> DEFINE r == Head(fromInspector)
           m == SettingsMessage("didReceiveSettings", r.context, r.payload)
<1>1. r \in [context : Contexts, payload : SettingsType]
  BY TailFacts DEF StoreSettings, DeckTypeInv, DeckTypeOK
<1>2. /\ settings' = [settings EXCEPT ![r.context] = r.payload]
      /\ toPlugin' = IF r.context \in shown \/ ReportsHidden THEN Append(toPlugin, m) ELSE toPlugin
      /\ UNCHANGED <<shown, fontSize, fromPlugin, handlers>>
  BY DEF StoreSettings
<1>3. m \in Messages /\ EventOf(m) = "didReceiveSettings" /\ ContextOf(m) = r.context
      /\ SettingsOf(m) = r.payload
  BY <1>1, SettingsMessageKind, SettingsMessageFields
<1> HIDE DEF m, r
<1>4. CASE r.context \notin shown /\ ~ReportsHidden
  <2>1. UNCHANGED toPlugin /\ (c \in shown => settings'[c] = settings[c])
    BY <1>2, <1>4 DEF DeckTypeInv, DeckTypeOK
  <2> QED BY <1>2, <2>1, FollowsFrame DEF DeckTypeInv
<1>5. CASE r.context # c /\ (r.context \in shown \/ ReportsHidden)
  <2>1. toPlugin' = Append(toPlugin, m) /\ settings'[c] = settings[c]
    BY <1>2, <1>5 DEF DeckTypeInv, DeckTypeOK
  <2> QED BY <1>2, <1>3, <1>5, <2>1, FollowsUnrelated
<1>6. CASE r.context = c /\ c \in shown
  <2> DEFINE last == Announcing(c, settings'[c])
  <2>1. /\ toPlugin' = Append(toPlugin, m) /\ toPlugin \in Seq(Messages)
        /\ settings'[c] = r.payload /\ r.payload \in SettingsType
    BY <1>1, <1>2, <1>6 DEF DeckTypeInv, DeckTypeOK
  <2>2. m \in Starts(c) /\ m \in last /\ m \notin Stops(c)
    BY <1>3, <1>6, <2>1, MessageKinds
  <2> HIDE DEF last
  <2>3. /\ Has(toPlugin', Starts(c)) /\ Has(toPlugin', last)
        /\ Followed(toPlugin', Stops(c), Starts(c)) /\ Followed(toPlugin', Starts(c) \ last, last)
    BY <1>3, <2>1, <2>2, AppendFacts
  <2> QED BY <1>2, <1>6, <2>3 DEF Follows, HandlerFollows, IntervalFollows, WidthFollows, Asked, last
<1>7. CASE r.context = c /\ c \notin shown /\ ReportsHidden
  BY <1>2, <1>7 DEF Follows, HandlerFollows, IntervalFollows, WidthFollows
<1> QED BY <1>4, <1>5, <1>6, <1>7

LEMMA FollowsAnswer ==
  ASSUME DeckTypeInv, DeckTypeInv', NEW c \in Contexts, Follows(c), AnswerTitle
  PROVE  Follows(c)'
<1> DEFINE d == Head(fromPlugin)
           m == TitleMessage(d, fontSize[d])
<1>1. /\ d \in Contexts
      /\ Has(fromPlugin, {c}) => c = d \/ Has(fromPlugin', {c})
  BY TailFacts DEF AnswerTitle, DeckTypeInv, DeckTypeOK
<1>2. /\ toPlugin' = Append(toPlugin, m) \/ (d \notin shown /\ UNCHANGED toPlugin)
      /\ UNCHANGED <<shown, settings, fontSize, handlers>>
  BY DEF AnswerTitle
<1>3. m \in Messages /\ ContextOf(m) = d
  BY <1>1, TitleMessageKind, TitleMessageFields DEF DeckTypeInv, DeckTypeOK
<1>4. CASE c = d /\ toPlugin' = Append(toPlugin, m)
  BY <1>2, <1>4, FollowsTitle
<1>5. CASE c = d /\ d \notin shown /\ UNCHANGED toPlugin
  BY <1>2, <1>5 DEF Follows, HandlerFollows, IntervalFollows, WidthFollows
<1>6. CASE c # d /\ toPlugin' = Append(toPlugin, m)
  BY <1>1, <1>2, <1>3, <1>6, FollowsUnrelated
<1>7. CASE c # d /\ UNCHANGED toPlugin
  BY <1>1, <1>2, <1>7, FollowsFrame DEF DeckTypeInv
<1> QED BY <1>2, <1>4, <1>5, <1>6, <1>7

\* The plugin handles a message about the button.
LEMMA FollowsMessage ==
  ASSUME DeckTypeInv, NEW c \in Contexts, Follows(c), OnMessage
  PROVE  Follows(c)'
<1> DEFINE m == Head(toPlugin)
           d == ContextOf(m)
           lastStart == Announcing(c, settings[c])
           lastTitle == Sizing(c, fontSize[c])
<1>1. /\ toPlugin \in Seq(Messages) /\ toPlugin # <<>> /\ toPlugin' = Tail(toPlugin)
      /\ settings[c] \in SettingsType /\ fontSize[c] \in FontSizes
      /\ UNCHANGED <<shown, settings, fontSize>>
      /\ handlers \in [Contexts -> [exists : BOOLEAN, interval : Int32, width : 0 .. 72]]
      /\ fromPlugin \in Seq(Contexts)
  BY DEF OnMessage, DeckTypeInv, DeckTypeOK
<1>2. m \in Messages /\ d \in Contexts
  BY HandledMessage
<1>3. CASE d # c
  <2>1. handlers'[c] = handlers[c] /\ (fromPlugin' = Append(fromPlugin, d) \/ UNCHANGED fromPlugin)
    BY <1>1, <1>2, <1>3, HandledMessage
  <2>2. Has(fromPlugin, {c}) => Has(Append(fromPlugin, d), {c})
    BY <1>1, <1>2, AppendFacts
  <2> QED BY <1>1, <1>2, <1>3, <2>1, <2>2, FollowsUnrelated
<1>4. /\ Has(toPlugin, Starts(c)) <=> m \in Starts(c) \/ Has(toPlugin', Starts(c))
      /\ Has(toPlugin, Stops(c)) <=> m \in Stops(c) \/ Has(toPlugin', Stops(c))
      /\ Has(toPlugin, lastStart) <=> m \in lastStart \/ Has(toPlugin', lastStart)
      /\ Has(toPlugin, lastTitle) <=> m \in lastTitle \/ Has(toPlugin', lastTitle)
      /\ \A A, B : Followed(toPlugin, A, B) => /\ Followed(toPlugin', A, B)
                                               /\ m \in A => Has(toPlugin', B)
  BY <1>1, TailFacts
<1>5. CASE d = c /\ EventOf(m) \in {"willAppear", "didReceiveSettings"}
  <2>1. /\ fromPlugin' = Append(fromPlugin, c)
        /\ handlers'[c].exists /\ handlers'[c].interval = Interval(SettingsOf(m))
    BY <1>1, <1>5, HandledMessage
  <2>2. /\ m \in Starts(c) /\ m \notin Stops(c)
        /\ m \in lastStart <=> SettingsOf(m) = settings[c]
    BY <1>1, <1>2, <1>5, MessageKinds
  <2>3. Asked(c)'
    BY <1>1, <2>1, AppendFacts DEF Asked
  <2> HIDE DEF m, lastStart
  <2>4. HandlerFollows(c)'
    BY <1>1, <1>4, <2>1, <2>2 DEF Follows, HandlerFollows
  <2>5. IntervalFollows(c)'
    BY <1>1, <1>4, <2>1, <2>2 DEF Follows, IntervalFollows, lastStart
  <2> QED BY <2>3, <2>4, <2>5 DEF Follows, WidthFollows
<1>6. CASE d = c /\ EventOf(m) = "willDisappear"
  <2>1. UNCHANGED fromPlugin /\ ~handlers'[c].exists
    BY <1>1, <1>6, HandledMessage DEF NoButton
  <2>2. m \in Stops(c) /\ m \notin Starts(c) /\ m \notin lastStart
    BY <1>1, <1>2, <1>6, MessageKinds
  <2> HIDE DEF m
  <2>3. HandlerFollows(c)' /\ (c \in shown => Has(toPlugin', Starts(c)))
    BY <1>1, <1>4, <2>1, <2>2 DEF Follows, HandlerFollows
  <2>4. IntervalFollows(c)'
    <3>1. c \in shown => Followed(toPlugin', Starts(c) \ lastStart, lastStart)
      BY <1>4 DEF Follows, IntervalFollows
    <3>2. c \in shown => Has(toPlugin', lastStart)
      BY <2>3, <3>1, LastFacts
    <3> QED BY <1>1, <3>1, <3>2 DEF IntervalFollows
  <2> QED BY <1>1, <2>3, <2>4 DEF Follows, WidthFollows, Asked
<1>7. CASE d = c /\ EventOf(m) = "titleParametersDidChange"
  <2>1. /\ UNCHANGED fromPlugin
        /\ handlers'[c].exists <=> handlers[c].exists
        /\ handlers'[c].interval = handlers[c].interval
        /\ handlers[c].exists => handlers'[c].width = TextWidth(SizeOf(m))
    BY <1>1, <1>7, HandledMessage
  <2>2. /\ m \notin Starts(c) /\ m \notin Stops(c) /\ m \notin lastStart /\ m \in Titles(c)
        /\ m \in lastTitle <=> SizeOf(m) = fontSize[c]
    BY <1>1, <1>2, <1>7, MessageKinds
  <2> HIDE DEF m, lastStart, lastTitle
  <2>3. HandlerFollows(c)'
    BY <1>1, <1>4, <2>1, <2>2 DEF Follows, HandlerFollows
  <2>4. IntervalFollows(c)'
    BY <1>1, <1>4, <2>1, <2>2 DEF Follows, IntervalFollows, lastStart
  <2>5. WidthFollows(c)'
    <3>1. CASE Asked(c)
      BY <1>4, <2>1, <2>2, <3>1 DEF WidthFollows, Asked
    <3>2. CASE ~Asked(c) /\ c \in shown
      <4>1. handlers'[c].width = TextWidth(SizeOf(m))
        BY <2>1, <3>2 DEF Follows, HandlerFollows, Asked
      <4> QED BY <1>1, <1>4, <2>2, <3>2, <4>1 DEF Follows, WidthFollows, lastTitle
    <3> QED BY <1>1, <3>1, <3>2 DEF WidthFollows
  <2> QED BY <2>3, <2>4, <2>5 DEF Follows
<1>8. CASE d = c /\ EventOf(m) \in {"keyDown", "keyUp"}
  BY <1>1, <1>2, <1>8, HandledMessage, FollowsUnrelated
<1> QED BY <1>2, <1>3, <1>5, <1>6, <1>7, <1>8, MessageKinds

THEOREM DeckFollows == Spec => []DeckInv
<1>1. DeckInv /\ [Next]_vars => DeckInv'
  <2> SUFFICES ASSUME DeckTypeInv, DeckTypeInv', [Next]_vars, NEW c \in Contexts, Follows(c)
               PROVE  Follows(c)'
    BY DeckTypeStep DEF DeckInv
  <2>1. CASE UserStep
    BY <2>1, FollowsUser
  <2>2. CASE StoreSettings
    BY <2>2, FollowsStore
  <2>3. CASE AnswerTitle
    BY <2>3, FollowsAnswer
  <2>4. CASE OnMessage
    BY <2>4, FollowsMessage
  <2>5. CASE UNCHANGED vars
    BY <2>5, FollowsFrame DEF vars, channels, DeckTypeInv
  <2> QED BY <2>1, <2>2, <2>3, <2>4, <2>5 DEF Next, Waiting
<1>2. Init => DeckInv
  BY DeckTypeInit, FollowsInit DEF DeckInv
<1> QED BY <1>1, <1>2, PTL DEF Spec

\* When the plugin has caught up, no message is left that could be the last.
LEMMA DeckSettled ==
  ASSUME DeckInv, Settled
  PROVE  (~ReportsHidden => HandlersAreShown) /\ IntervalIsStored /\ WidthIsOfFont
<1>1. /\ \A B : ~Has(toPlugin, B) /\ ~Has(fromPlugin, B)
      /\ shown \subseteq Contexts
      /\ \A c \in Contexts : HandlerFollows(c) /\ IntervalFollows(c) /\ WidthFollows(c)
  BY EmptyFacts DEF Settled, DeckInv, DeckTypeInv, DeckTypeOK, Follows
<1>2. ~ReportsHidden => HandlersAreShown
  BY <1>1 DEF HandlersAreShown, HandlerFollows
<1>3. IntervalIsStored
  BY <1>1 DEF IntervalIsStored, IntervalFollows, Interval
<1>4. WidthIsOfFont
  BY <1>1 DEF WidthIsOfFont, WidthFollows, Asked
<1> QED BY <1>2, <1>3, <1>4

\* The handlers are those of the buttons on the device once the plugin has
\* caught up, whatever was shown, hidden, typed and answered in whichever order
\* (lines 443-513), unless the settings of hidden buttons are reported.
THEOREM DeckHandlersAreShown ==
  ASSUME ~ReportsHidden
  PROVE  Spec => []HandlersAreShown
<1>1. DeckInv => HandlersAreShown
  BY DeckSettled DEF HandlersAreShown
<1> QED BY <1>1, DeckFollows, PTL

\* Every worker then runs with the interval that is stored (lines 463-478).
THEOREM DeckIntervalIsStored == Spec => []IntervalIsStored
<1>1. DeckInv => IntervalIsStored
  BY DeckSettled DEF IntervalIsStored
<1> QED BY <1>1, DeckFollows, PTL

\* Every title is then as wide as the button's font allows (lines 474-475 and
\* 498-513).
THEOREM DeckWidthIsOfFont == Spec => []WidthIsOfFont
<1>1. DeckInv => WidthIsOfFont
  BY DeckSettled DEF WidthIsOfFont
<1> QED BY <1>1, DeckFollows, PTL
=============================================================================
