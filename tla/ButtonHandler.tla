--------------------------- MODULE ButtonHandler ---------------------------
(***************************************************************************)
(* The class ButtonHandler of MediaStreamDeckPlugin.cpp: an object that    *)
(* owns one worker thread.  The worker calls a function, sleeps, and calls *)
(* it again, until stop() clears _execute; stop() then joins it.  start()  *)
(* may be called on a running object and restarts its worker, and the      *)
(* destructor stops the worker of a running object.                        *)
(*                                                                         *)
(* An object is named by the button context it serves, because the plugin  *)
(* keeps at most one object per context.  Each access to _execute (atomic) *)
(* and each critical section of the object's own mutex, which takes no     *)
(* other lock, is one step.                                                *)
(*                                                                         *)
(* Specified by itself, the module is the contract of the class: any       *)
(* client may create objects and use those that exist, one start() or      *)
(* delete at a time, and use none while its destructor runs.               *)
(***************************************************************************)
EXTENDS Integers

CONSTANTS
  Contexts,      \* the identities of the handler objects
  Widths         \* the values the client passes to set_text_width

ASSUME WidthsAssumption == Widths \subseteq Int

VARIABLES
  live,          \* the objects that are allocated
  execute,       \* _execute
  doRefresh,     \* doRefresh
  textWidth,     \* textWidth
  currentTick,   \* currentTick; 1 stands for every positive tick
  worker,        \* where the worker thread is; "none": _thd is not joinable
  call           \* where the client's call of start() or the destructor is

handlerVars ==
  <<live, execute, doRefresh, textWidth, currentTick, worker, call>>

Ticks == {0, 1}

\* "exited": the loop has ended, and the thread can still be joined.
WorkerStates == {"none", "loop", "refresh", "call", "drawn", "sleep", "exited"}

CallStates == {"none", "startJoin", "startSpawn", "deleteJoin"}

\* One type invariant: every field has its declared type.
HandlerTypeOK ==
  /\ live \subseteq Contexts
  /\ execute \in [Contexts -> BOOLEAN]
  /\ doRefresh \in [Contexts -> BOOLEAN]
  /\ textWidth \in [Contexts -> Widths \cup {0}]
  /\ currentTick \in [Contexts -> Ticks]
  /\ worker \in [Contexts -> WorkerStates]
  /\ call \in [Contexts -> CallStates]

HandlerInit ==
  /\ live = {}
  /\ execute = [c \in Contexts |-> FALSE]
  /\ doRefresh = [c \in Contexts |-> FALSE]
  /\ textWidth = [c \in Contexts |-> 0]
  /\ currentTick = [c \in Contexts |-> 0]
  /\ worker = [c \in Contexts |-> "none"]
  /\ call = [c \in Contexts |-> "none"]

-----------------------------------------------------------------------------
(* What a client does to an object.                                        *)

\* The constructor.
New(c) ==
  /\ live' = live \cup {c}
  /\ execute' = [execute EXCEPT ![c] = FALSE]
  /\ doRefresh' = [doRefresh EXCEPT ![c] = FALSE]
  /\ textWidth' = [textWidth EXCEPT ![c] = 0]
  /\ currentTick' = [currentTick EXCEPT ![c] = 0]
  /\ UNCHANGED <<worker, call>>

SetRefresh(c, refresh) ==
  /\ doRefresh' = [doRefresh EXCEPT ![c] = refresh]
  /\ UNCHANGED <<live, execute, textWidth, currentTick, worker, call>>

SetTextWidth(c, newWidth) ==
  /\ textWidth' = [textWidth EXCEPT ![c] = newWidth]
  /\ UNCHANGED <<live, execute, doRefresh, currentTick, worker, call>>

\* Fault: stop() does not clear _execute before it joins.
StopWithoutClearing(c, next) ==
  /\ call' = [call EXCEPT ![c] = next]
  /\ UNCHANGED <<live, execute, doRefresh, textWidth, currentTick, worker>>

\* stop(), up to the join, on behalf of start() or of the destructor.
StopThen(c, next) ==
  /\ execute' = [execute EXCEPT ![c] = FALSE]
  /\ call' = [call EXCEPT ![c] = next]
  /\ UNCHANGED <<live, doRefresh, textWidth, currentTick, worker>>

\* The join of stop(): it blocks while the thread runs, and is skipped when
\* there is no thread.
Joined(c) == worker[c] \in {"none", "exited"}

\* Fault: start() forgets to stop a running worker.
StartWithoutStop(c) ==
  /\ call[c] = "none"
  /\ call' = [call EXCEPT ![c] = "startSpawn"]
  /\ UNCHANGED <<live, execute, doRefresh, textWidth, currentTick, worker>>

\* start() is called: a running worker is stopped first.
Start(c) ==
  /\ call[c] = "none"
  /\ \/ execute[c] /\ StopThen(c, "startJoin")
     \/ /\ ~execute[c]
        /\ call' = [call EXCEPT ![c] = "startSpawn"]
        /\ UNCHANGED <<live, execute, doRefresh, textWidth, currentTick, worker>>

StartJoin(c) ==
  /\ call[c] = "startJoin"
  /\ Joined(c)
  /\ worker' = [worker EXCEPT ![c] = "none"]
  /\ call' = [call EXCEPT ![c] = "startSpawn"]
  /\ UNCHANGED <<live, execute, doRefresh, textWidth, currentTick>>

\* Fault: the thread is created and _execute never set.
SpawnWithoutExecute(c) ==
  /\ call[c] = "startSpawn"
  /\ worker' = [worker EXCEPT ![c] = "loop"]
  /\ call' = [call EXCEPT ![c] = "none"]
  /\ UNCHANGED <<live, execute, doRefresh, textWidth, currentTick>>

\* _execute is set, then the thread is created.  Creation may throw: _execute
\* stays set and there is no thread.
StartSpawn(c) ==
  /\ call[c] = "startSpawn"
  /\ execute' = [execute EXCEPT ![c] = TRUE]
  /\ \/ worker' = [worker EXCEPT ![c] = "loop"]
     \/ UNCHANGED worker
  /\ call' = [call EXCEPT ![c] = "none"]
  /\ UNCHANGED <<live, doRefresh, textWidth, currentTick>>

\* Fault: the destructor does not stop the worker.
DeleteWithoutStop(c) ==
  /\ call[c] = "none"
  /\ live' = live \ {c}
  /\ UNCHANGED <<execute, doRefresh, textWidth, currentTick, worker, call>>

\* The object is deleted: the destructor stops a running worker first.
Delete(c) ==
  /\ call[c] = "none"
  /\ \/ execute[c] /\ StopThen(c, "deleteJoin")
     \/ /\ ~execute[c]
        /\ live' = live \ {c}
        /\ UNCHANGED <<execute, doRefresh, textWidth, currentTick, worker, call>>

DeleteJoin(c) ==
  /\ call[c] = "deleteJoin"
  /\ Joined(c)
  /\ live' = live \ {c}
  /\ worker' = [worker EXCEPT ![c] = "none"]
  /\ call' = [call EXCEPT ![c] = "none"]
  /\ UNCHANGED <<execute, doRefresh, textWidth, currentTick>>

CallStep(c) == StartJoin(c) \/ StartSpawn(c) \/ DeleteJoin(c)

-----------------------------------------------------------------------------
(* The worker thread: the lambda that start() runs.                        *)

Goto(c, from, to) ==
  /\ worker[c] = from
  /\ worker' = [worker EXCEPT ![c] = to]

\* The while condition.
WorkerLoop(c) ==
  /\ Goto(c, "loop", IF execute[c] THEN "refresh" ELSE "exited")
  /\ UNCHANGED <<live, execute, doRefresh, textWidth, currentTick, call>>

\* A requested refresh resets the animation.
WorkerRefresh(c) ==
  /\ Goto(c, "refresh", "call")
  /\ currentTick' = [currentTick EXCEPT ![c] = IF doRefresh[c] THEN 0 ELSE @]
  /\ UNCHANGED <<live, execute, doRefresh, textWidth, call>>

\* The function returns the next tick.
WorkerReturn(c, tick) ==
  /\ Goto(c, "call", IF tick > 0 THEN "drawn" ELSE "sleep")
  /\ currentTick' = [currentTick EXCEPT ![c] = tick]
  /\ UNCHANGED <<live, execute, doRefresh, textWidth, call>>

\* Something was drawn: the refresh is marked as done.
WorkerClear(c) ==
  /\ Goto(c, "drawn", "sleep")
  /\ doRefresh' = [doRefresh EXCEPT ![c] = FALSE]
  /\ UNCHANGED <<live, execute, textWidth, currentTick, call>>

WorkerWake(c) ==
  /\ Goto(c, "sleep", "loop")
  /\ UNCHANGED <<live, execute, doRefresh, textWidth, currentTick, call>>

WorkerStep(c) == WorkerLoop(c) \/ WorkerRefresh(c) \/ WorkerClear(c) \/ WorkerWake(c)

-----------------------------------------------------------------------------

\* The calls the contract allows.
Client(c) ==
  \/ c \notin live /\ New(c)
  \/ /\ c \in live
     /\ call[c] # "deleteJoin"
     /\ \/ SetRefresh(c, TRUE)
        \/ \E w \in Widths : SetTextWidth(c, w)
        \/ Start(c)
        \/ Delete(c)

HandlerNext ==
  \E c \in Contexts :
    \/ Client(c)
    \/ CallStep(c)
    \/ WorkerStep(c)
    \/ \E tick \in Ticks : WorkerReturn(c, tick)

HandlerSpec == HandlerInit /\ [][HandlerNext]_handlerVars

\* The operating system runs the worker and the calling thread, and the
\* function the worker calls returns.
HandlerFairness ==
  \A c \in Contexts :
    /\ WF_handlerVars(WorkerStep(c) \/ \E tick \in Ticks : WorkerReturn(c, tick))
    /\ WF_handlerVars(CallStep(c))

FairHandlerSpec == HandlerSpec /\ HandlerFairness

-----------------------------------------------------------------------------

\* The process is never ended by std::terminate: no thread is assigned to a
\* std::thread that is still joinable (start(), line 77), and none is
\* destroyed while joinable (~ButtonHandler).  A freed object has no worker
\* left that could use it.
NeverTerminates ==
  \A c \in Contexts :
    /\ call[c] = "startSpawn" => worker[c] = "none"
    /\ c \notin live => worker[c] = "none"

\* A worker ends only because a stop() asked it to, and that stop() is still
\* waiting to join it: a running object never loses its worker.
WorkerEndsOnlyWhenStopped ==
  \A c \in Contexts :
    worker[c] = "exited" => call[c] \in {"startJoin", "deleteJoin"}

\* start() and the destructor return: the join at line 47 does not block for
\* ever, whatever the worker is doing when it is stopped.
CallsReturn ==
  \A c \in Contexts : call[c] # "none" ~> call[c] = "none"

=============================================================================
