------------------------- MODULE ButtonScroll_proofs -------------------------
(***************************************************************************)
(* Proofs about ButtonScroll, for titles and text widths of any length and *)
(* an int of any size that is large enough to count them.                  *)
(*                                                                         *)
(* ScrollInv adds what ties the tick to the window on the button: a window *)
(* that shows a title starts no later than where the title has left it,    *)
(* and the tick the loop holds is the one after it, or 0.                  *)
(***************************************************************************)
EXTENDS ButtonScroll, TLAPS

ScrollInv ==
  /\ ScrollTypeOK
  /\ WindowFitsButton
  /\ shown.start <= shown.title + shown.width
  /\ shown.title > 0 => currentTick \in {0, shown.start + 1}

\* The tick HandleButton uses is a position of the window in which it is
\* filled by the padded title (lines 221-229), whatever int it was given.
LEMMA StartedFits ==
  ASSUME NEW n \in Nat, NEW w \in Nat, NEW tick \in Int
  PROVE  /\ Started(tick, n, w) \in 0..(n + w)
         /\ WindowLength(Started(tick, n, w), n, w) = w
BY DEF Started, WindowLength, PaddedLength

LEMMA ScrollInitInv == Init => ScrollInv
BY ScrollAssumption DEF Init, ScrollInv, ScrollTypeOK, WindowFitsButton, Blank, IntMin,
   PaddedLength

LEMMA ScrollPassInv ==
  ASSUME ScrollInv, Pass
  PROVE  ScrollInv'
<1> DEFINE tick == IF doRefresh THEN 0 ELSE currentTick
<1> USE ScrollAssumption
<1>1. CASE textWidth = 0
  BY <1>1 DEF Pass, ScrollInv, ScrollTypeOK, WindowFitsButton, IntMin
<1>2. CASE textWidth # 0 /\ title = 0
  BY <1>2 DEF Pass, HandleButton, Incremented, Blank, ScrollInv, ScrollTypeOK,
     WindowFitsButton, IntMin, PaddedLength
<1>3. CASE textWidth # 0 /\ title # 0
  <2> DEFINE at == Started(tick, title, textWidth)
  <2>1. title \in Nat /\ textWidth \in Nat /\ tick \in Int
        /\ title + textWidth < IntMax
    BY <1>3 DEF ScrollInv, ScrollTypeOK, IntMin
  <2>2. at \in 0..(title + textWidth) /\ WindowLength(at, title, textWidth) = textWidth
    BY <2>1, StartedFits
  <2>3. shown' = Cut(at) /\ currentTick' = at + 1 /\ UNCHANGED <<title, textWidth, changes>>
    BY <1>3, <2>1, <2>2 DEF Pass, HandleButton, Incremented
  <2>4. doRefresh' \in BOOLEAN
    BY DEF Pass, ScrollInv, ScrollTypeOK
  <2> HIDE DEF tick, at
  <2> QED
    BY <1>3, <2>1, <2>2, <2>3, <2>4 DEF Cut, ScrollInv, ScrollTypeOK, WindowFitsButton,
       IntMin, PaddedLength
<1> QED
  BY <1>1, <1>2, <1>3

THEOREM ScrollInvariant == Spec => []ScrollInv
<1>1. ScrollInv /\ [Next]_scrollVars => ScrollInv'
  <2> SUFFICES ASSUME ScrollInv, [Next]_scrollVars PROVE ScrollInv'
    OBVIOUS
  <2> USE ScrollAssumption DEF ScrollInv, ScrollTypeOK, WindowFitsButton
  <2>1. CASE NewTitle
    <3>1. doRefresh' \in BOOLEAN
      BY <2>1, Zenon DEF NewTitle
    <3>2. title' \in 0..MaxLength /\ changes' \in Nat
          /\ UNCHANGED <<textWidth, currentTick, shown>>
      BY <2>1 DEF NewTitle
    <3> QED
      BY <3>1, <3>2
  <2>2. CASE NewTextWidth
    BY <2>2 DEF NewTextWidth
  <2>3. CASE Pass
    BY <2>3, ScrollPassInv
  <2>4. CASE UNCHANGED scrollVars
    BY <2>4 DEF scrollVars
  <2> QED
    BY <2>1, <2>2, <2>3, <2>4 DEF Next
<1> QED
  BY ScrollInitInv, <1>1, PTL DEF Spec

\* The tick stays an int and every window a window of some title.
THEOREM ScrollTypeCorrect == Spec => []ScrollTypeOK
<1>1. ScrollInv => ScrollTypeOK
  BY DEF ScrollInv
<1> QED
  BY <1>1, ScrollInvariant, PTL

\* substr (line 229) never throws and always fills the button, however title
\* and width change under a running scroll.
THEOREM ScrollWindowFits == Spec => []WindowFitsButton
<1>1. ScrollInv => WindowFitsButton
  BY DEF ScrollInv
<1> QED
  BY <1>1, ScrollInvariant, PTL

\* While title and width stay, the window moves by one character, and it
\* starts again only when the title has left it (lines 225-227, 235).
THEOREM ScrollAdvances == Spec => ScrollsByOne
<1> DEFINE Advance ==
      (Pass /\ ~doRefresh /\ currentTick # 0 /\ textWidth # 0 /\ shown'.title > 0
         /\ shown'.title = shown.title /\ shown'.width = shown.width)
        => \/ shown'.start = shown.start + 1
           \/ /\ shown'.start = 0
              /\ Visible(shown.start, shown.title, shown.width) = {}
              /\ shown.start = shown.title + shown.width
<1>1. ScrollInv /\ [Next]_scrollVars => [Advance]_scrollVars
  <2> SUFFICES ASSUME ScrollInv, Pass, ~doRefresh, currentTick # 0, textWidth # 0,
                      shown'.title > 0, shown'.title = shown.title,
                      shown'.width = shown.width
               PROVE  \/ shown'.start = shown.start + 1
                      \/ /\ shown'.start = 0
                         /\ Visible(shown.start, shown.title, shown.width) = {}
                         /\ shown.start = shown.title + shown.width
    OBVIOUS
  <2>1. title # 0
    BY DEF Pass, HandleButton, Blank
  <2>2. shown' = Cut(Started(currentTick, title, textWidth))
    BY <2>1 DEF Pass, HandleButton
  <2>3. shown.title = title /\ shown.width = textWidth
    BY <2>2 DEF Cut
  <2>4. currentTick = shown.start + 1
    BY <2>1, <2>3, ScrollAssumption DEF ScrollInv, ScrollTypeOK
  <2>5. shown'.start = Started(shown.start + 1, title, textWidth)
    BY <2>2, <2>4 DEF Cut
  <2>6. /\ shown.start \in Nat /\ title \in Nat /\ textWidth \in Nat
        /\ shown.start <= title + textWidth
    BY <2>3, ScrollAssumption DEF ScrollInv, ScrollTypeOK
  <2>7. CASE shown.start = title + textWidth
    <3>1. shown'.start = 0
      BY <2>5, <2>6, <2>7 DEF Started, PaddedLength
    <3>2. Visible(shown.start, title, textWidth) = {}
      BY <2>6, <2>7 DEF Visible
    <3> QED
      BY <2>3, <2>7, <3>1, <3>2
  <2>8. CASE shown.start < title + textWidth
    BY <2>5, <2>6, <2>8 DEF Started, PaddedLength
  <2> QED
    BY <2>6, <2>7, <2>8
<1> QED
  BY <1>1, ScrollInvariant, PTL DEF Spec, ScrollsByOne

=============================================================================
