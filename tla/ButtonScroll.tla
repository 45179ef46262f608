---------------------------- MODULE ButtonScroll ----------------------------
(***************************************************************************)
(* The scrolling of one button: the passes of its worker's loop with the   *)
(* tick that HandleButton returns and is given again, while the title, the *)
(* text width and the refresh flag change between them.                    *)
(*                                                                         *)
(* A pass is one step here.  The loop reads the refresh flag, the width    *)
(* and the title one after the other, and a title may change between these *)
(* reads (module MediaStreamDeckPlugin); what the pass then draws is what  *)
(* it draws when the title changes before it without its refresh, which    *)
(* NewTitle therefore allows.                                              *)
(***************************************************************************)
EXTENDS TitleScroll

CONSTANTS
  MaxLength,    \* bound: the length of a title
  TextWidths,   \* the text widths of the font sizes in use
  IntMax,       \* the largest int
  MaxChanges    \* bound: changes of the title and of the width

\* A title is far shorter than the largest int.
ASSUME ScrollAssumption ==
  /\ MaxLength \in Nat /\ MaxChanges \in Nat /\ IntMax \in Nat
  /\ TextWidths \subseteq Nat
  /\ \A w \in TextWidths : MaxLength + w < IntMax

VARIABLES
  title,        \* the length of mTitle; 0: nothing is playing
  textWidth,    \* the handler's textWidth; 0: not known yet
  doRefresh,    \* the handler's doRefresh
  currentTick,  \* the handler's currentTick
  shown,        \* the window last sent: its start, its length, the title and
                \* the width it was cut for
  changes

scrollVars == <<title, textWidth, doRefresh, currentTick, shown, changes>>

IntMin == -IntMax - 1
Blank == [start |-> 0, length |-> 0, title |-> 0, width |-> 0]

\* What StartButtonHandler starts the worker with.
Init ==
  /\ title \in 0..MaxLength
  /\ textWidth = 0
  /\ doRefresh = TRUE
  /\ currentTick = 0
  /\ shown = Blank
  /\ changes = 0

\* A title, perhaps as long as the one before it; RefreshAllHandlers asks for a
\* refresh, which may be lost. With the same title this is also the refresh that
\* comes some passes after the title, and the one for new settings.
NewTitle ==
  /\ changes < MaxChanges
  /\ title' \in 0..MaxLength
  /\ doRefresh' \in {doRefresh, TRUE}
  /\ changes' = changes + 1
  /\ UNCHANGED <<textWidth, currentTick, shown>>

\* TitleParametersDidChange: a running scroll is not started again.
NewTextWidth ==
  /\ changes < MaxChanges
  /\ \E w \in TextWidths \ {textWidth} : textWidth' = w
  /\ changes' = changes + 1
  /\ UNCHANGED <<title, doRefresh, currentTick, shown>>

\* Fault: a tick without a width.
IncrementedForever(tick) == tick + 1

\* ++tick in two's complement; it leaves the range of int on no other path.
Incremented(tick) == IF tick = IntMax THEN IntMin ELSE tick + 1

\* What HandleButton sends for a tick, and the tick it returns.
Cut(tick) ==
  [start |-> tick, length |-> WindowLength(tick, title, textWidth),
   title |-> title, width |-> textWidth]

HandleButton(tick) ==
  IF title = 0
    THEN shown' = Blank /\ currentTick' = Incremented(tick)
    ELSE LET at == Started(tick, title, textWidth) IN
         shown' = Cut(at) /\ currentTick' = Incremented(at)

\* Fault: the refresh is not marked as done.
PassKeepsRefresh ==
  LET tick == IF doRefresh THEN 0 ELSE currentTick IN
  /\ IF textWidth = 0
       THEN currentTick' = 0 /\ UNCHANGED shown
       ELSE HandleButton(tick)
  /\ UNCHANGED <<title, textWidth, doRefresh, changes>>

\* One pass of the worker's loop.
Pass ==
  LET tick == IF doRefresh THEN 0 ELSE currentTick IN
  /\ IF textWidth = 0
       THEN currentTick' = 0 /\ UNCHANGED shown
       ELSE HandleButton(tick)
  /\ doRefresh' = (doRefresh /\ currentTick' <= 0)
  /\ UNCHANGED <<title, textWidth, changes>>

Next == NewTitle \/ NewTextWidth \/ Pass

\* The worker runs for as long as its button is there.
Spec == Init /\ [][Next]_scrollVars /\ WF_scrollVars(Pass)

-----------------------------------------------------------------------------

\* The type invariant: the tick keeps the width of an int.
ScrollTypeOK ==
  /\ title \in 0..MaxLength
  /\ textWidth \in TextWidths \cup {0}
  /\ doRefresh \in BOOLEAN
  /\ currentTick \in IntMin..IntMax
  /\ shown \in [start : Nat, length : Nat, title : 0..MaxLength,
                width : TextWidths \cup {0}]
  /\ changes \in Nat

\* substr (line 229) is never given a start beyond the padded title, which
\* would end the process, and always finds enough characters to fill the
\* button; whatever title and width the tick was counted for, and after the
\* tick has overflowed while nothing was playing.
WindowFitsButton ==
  /\ shown.start <= PaddedLength(shown.title, shown.width)
  /\ shown.title > 0 => shown.length = shown.width

\* While title and width stay, the window advances by one character at a time
\* and starts again only when the title has left it (lines 225-227), or for a
\* refresh or a time in which the font was too large to draw anything.
ScrollsByOne ==
  [][(Pass /\ ~doRefresh /\ currentTick # 0 /\ textWidth # 0 /\ shown'.title > 0
        /\ shown'.title = shown.title /\ shown'.width = shown.width)
       => \/ shown'.start = shown.start + 1
          \/ /\ shown'.start = 0
             /\ Visible(shown.start, shown.title, shown.width) = {}
             /\ shown.start = shown.title + shown.width]_scrollVars

\* Once title and width have settled, every character of the title comes by
\* on the button again and again.
WholeTitleShown ==
  \A i \in 1..MaxLength :
    []<>(i <= title /\ textWidth > 0
           => i \in Visible(shown.start, shown.title, shown.width))

=============================================================================
