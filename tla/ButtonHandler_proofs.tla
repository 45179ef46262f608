------------------------ MODULE ButtonHandler_proofs ------------------------
(***************************************************************************)
(* Proofs about ButtonHandler: a client that keeps to the contract of the  *)
(* class never brings the process down, for any set of objects and widths. *)
(*                                                                         *)
(* NeverTerminates is not inductive.  What makes it hold is the agreement  *)
(* between _execute, the worker and the call in progress (HandlerInv): a   *)
(* worker that has not ended runs because _execute is set, or is on its    *)
(* way out because a stop() is waiting for it; so a start() or a delete    *)
(* that finds _execute clear finds no worker either.                       *)
(***************************************************************************)
EXTENDS ButtonHandler, TLAPS

Joining == {"startJoin", "deleteJoin"}

\* One object: where its call, its worker and _execute agree.
CallAgrees(c) ==
  /\ call[c] # "none" => c \in live /\ ~execute[c]
  /\ call[c] = "startSpawn" => worker[c] = "none"

WorkerAgrees(c) ==
  /\ c \notin live => worker[c] = "none"
  /\ worker[c] = "exited" => call[c] \in Joining
  /\ worker[c] # "none" => execute[c] \/ call[c] \in Joining

HandlerInv ==
  /\ HandlerTypeOK
  /\ \A c \in Contexts : CallAgrees(c) /\ WorkerAgrees(c)

-----------------------------------------------------------------------------
(* Each operation of the class preserves HandlerInv.  The lemmas are used   *)
(* again for the plugin, which performs the same operations.                *)

LEMMA HandlerInitInv == HandlerInit => HandlerInv
BY DEF HandlerInit, HandlerInv, HandlerTypeOK, CallAgrees, WorkerAgrees,
       Ticks, WorkerStates, CallStates

LEMMA NewInv ==
  ASSUME HandlerInv, NEW c \in Contexts, c \notin live, New(c)
  PROVE  HandlerInv'
BY DEF HandlerInv, HandlerTypeOK, CallAgrees, WorkerAgrees, New,
       Ticks, WorkerStates, CallStates, Joining

LEMMA SetRefreshInv ==
  ASSUME HandlerInv, NEW c \in Contexts, NEW refresh \in BOOLEAN, SetRefresh(c, refresh)
  PROVE  HandlerInv'
BY DEF HandlerInv, HandlerTypeOK, CallAgrees, WorkerAgrees, SetRefresh

LEMMA SetTextWidthInv ==
  ASSUME HandlerInv, NEW c \in Contexts, NEW w \in Widths, SetTextWidth(c, w)
  PROVE  HandlerInv'
BY DEF HandlerInv, HandlerTypeOK, CallAgrees, WorkerAgrees, SetTextWidth

LEMMA StartInv ==
  ASSUME HandlerInv, NEW c \in Contexts, c \in live, Start(c)
  PROVE  HandlerInv'
<1>1. CASE execute[c]
  BY <1>1 DEF HandlerInv, HandlerTypeOK, CallAgrees, WorkerAgrees, Start, StopThen,
              CallStates, Joining
<1>2. CASE ~execute[c]
  BY <1>2 DEF HandlerInv, HandlerTypeOK, CallAgrees, WorkerAgrees, Start,
              CallStates, Joining
<1> QED BY <1>1, <1>2

LEMMA DeleteInv ==
  ASSUME HandlerInv, NEW c \in Contexts, c \in live, Delete(c)
  PROVE  HandlerInv'
<1>1. CASE execute[c]
  BY <1>1 DEF HandlerInv, HandlerTypeOK, CallAgrees, WorkerAgrees, Delete, StopThen,
              CallStates, Joining
<1>2. CASE ~execute[c]
  BY <1>2 DEF HandlerInv, HandlerTypeOK, CallAgrees, WorkerAgrees, Delete,
              CallStates, Joining
<1> QED BY <1>1, <1>2

LEMMA CallStepInv ==
  ASSUME HandlerInv, NEW c \in Contexts, CallStep(c)
  PROVE  HandlerInv'
<1> USE DEF HandlerInv, HandlerTypeOK, CallAgrees, WorkerAgrees,
            WorkerStates, CallStates, Joining
<1>1. CASE StartJoin(c) BY <1>1 DEF StartJoin
<1>2. CASE StartSpawn(c) BY <1>2 DEF StartSpawn
<1>3. CASE DeleteJoin(c) BY <1>3 DEF DeleteJoin
<1> QED BY <1>1, <1>2, <1>3 DEF CallStep

LEMMA WorkerStepInv ==
  ASSUME HandlerInv, NEW c \in Contexts, WorkerStep(c)
  PROVE  HandlerInv'
<1> USE DEF HandlerInv, HandlerTypeOK, CallAgrees, WorkerAgrees, Goto,
            WorkerStates, CallStates, Ticks, Joining
<1>1. CASE WorkerLoop(c) BY <1>1 DEF WorkerLoop
<1>2. CASE WorkerRefresh(c) BY <1>2 DEF WorkerRefresh
<1>3. CASE WorkerClear(c) BY <1>3 DEF WorkerClear
<1>4. CASE WorkerWake(c) BY <1>4 DEF WorkerWake
<1> QED BY <1>1, <1>2, <1>3, <1>4 DEF WorkerStep

LEMMA WorkerReturnInv ==
  ASSUME HandlerInv, NEW c \in Contexts, NEW tick \in Ticks, WorkerReturn(c, tick)
  PROVE  HandlerInv'
BY DEF HandlerInv, HandlerTypeOK, CallAgrees, WorkerAgrees, WorkerReturn, Goto,
       WorkerStates, CallStates, Ticks, Joining

LEMMA HandlerStutterInv ==
  ASSUME HandlerInv, UNCHANGED handlerVars
  PROVE  HandlerInv'
BY DEF HandlerInv, HandlerTypeOK, CallAgrees, WorkerAgrees, handlerVars

LEMMA HandlerInvImplies ==
  ASSUME HandlerInv
  PROVE  HandlerTypeOK /\ NeverTerminates /\ WorkerEndsOnlyWhenStopped
BY DEF HandlerInv, CallAgrees, WorkerAgrees, Joining, NeverTerminates,
       WorkerEndsOnlyWhenStopped

-----------------------------------------------------------------------------

THEOREM HandlerInvariant == HandlerSpec => []HandlerInv
<1>1. HandlerInit => HandlerInv
  BY HandlerInitInv
<1>2. HandlerInv /\ [HandlerNext]_handlerVars => HandlerInv'
  <2> SUFFICES ASSUME HandlerInv, [HandlerNext]_handlerVars PROVE HandlerInv'
    OBVIOUS
  <2>1. CASE UNCHANGED handlerVars
    BY <2>1, HandlerStutterInv
  <2>2. CASE HandlerNext
    <3> PICK c \in Contexts : \/ Client(c) \/ CallStep(c) \/ WorkerStep(c)
                              \/ \E tick \in Ticks : WorkerReturn(c, tick)
      BY <2>2 DEF HandlerNext
    <3>1. CASE Client(c)
      BY <3>1, NewInv, SetRefreshInv, SetTextWidthInv, StartInv, DeleteInv DEF Client
    <3>2. CASE CallStep(c)
      BY <3>2, CallStepInv
    <3>3. CASE WorkerStep(c)
      BY <3>3, WorkerStepInv
    <3>4. CASE \E tick \in Ticks : WorkerReturn(c, tick)
      BY <3>4, WorkerReturnInv
    <3> QED BY <3>1, <3>2, <3>3, <3>4
  <2> QED BY <2>1, <2>2
<1> QED BY <1>1, <1>2, PTL DEF HandlerSpec

\* The fields of every object keep their declared types.
THEOREM HandlerTypeCorrect == HandlerSpec => []HandlerTypeOK
<1>1. HandlerInv => HandlerTypeOK BY HandlerInvImplies
<1> QED BY <1>1, HandlerInvariant, PTL

\* No sequence of calls the contract allows, and no interleaving with the
\* workers, assigns to or destroys a joinable thread, or leaves a worker to a
\* freed object (lines 43-48 and 70-97).
THEOREM HandlerNeverTerminates == HandlerSpec => []NeverTerminates
<1>1. HandlerInv => NeverTerminates BY HandlerInvImplies
<1> QED BY <1>1, HandlerInvariant, PTL

\* A worker leaves its loop only while a stop() waits to join it (lines 45-47
\* and 79): a button that was started goes on being drawn.
THEOREM HandlerWorkersStay == HandlerSpec => []WorkerEndsOnlyWhenStopped
<1>1. HandlerInv => WorkerEndsOnlyWhenStopped BY HandlerInvImplies
<1> QED BY <1>1, HandlerInvariant, PTL

=============================================================================
