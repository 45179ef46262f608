# A verification project for the Stream Deck media plugin

The plugin (`Sources/`) shows what Windows is playing on Stream Deck buttons:
the thumbnail as the button's image and the title as text that scrolls. It is a
small program with an unusual number of threads, and nearly all that can go
wrong in it goes wrong between them. The TLA+ modules of this directory model
the plugin's own code and the websocket connection under it; TLC checks them on small instances, and TLAPS proves the
safety results for every number of buttons, threads and messages.

Line numbers without a file are those of `Sources/MediaStreamDeckPlugin.cpp`.
`websocketpp/` stands for `Sources/Vendor/websocketpp/websocketpp/`.

## 1. The system

| Part | Where | State | Operations |
|---|---|---|---|
| `ButtonHandler` | lines 30-113 | `_execute`, `textWidth`, `currentTick`, `doRefresh`, `_thd`, a mutex | constructor, destructor, `start`, `stop`, setters and getters, the worker's loop |
| `MediaStreamDeckPlugin` | lines 115-513 | `mContextHandlers` with its mutex, `mTitle` and `mImage` with theirs, `mMgr`, `mSessionHandlers`, `mConnectionManager` | `CheckMedia`, `RefreshAllHandlers`, `HandleButton`, the message handlers, constructor, destructor |
| Title scrolling | lines 198-238, 511 | the tick that `HandleButton` returns and is given again | padding, window, restart |
| Media sessions | lines 121-155, 249-291 | hooks on sessions, revokers per application | `SessionsChanged`, the choice of the session to sample |
| Connection manager | `Common/ESDConnectionManager.cpp` | the websocket, the plugin's uuid | `Run`, `OnMessage`, `SetTitle`, `SetImage`, ... |
| Websocket connection | `websocketpp/impl/connection_impl.hpp` | `m_state`, `m_internal_state`, `m_handshake_timer`, `m_send_queue`, `m_current_msgs`, `m_write_flag`, two mutexes | handlers of the event loop; `send` from any thread |
| Transport | `websocketpp/transport/asio/` | the socket, timers, the queue of the event loop | resolve, connect, read, write, dispatch, `run` |
| Frame parser | `websocketpp/processors/hybi13.hpp` | the header so far, the data and the control message so far, bytes needed | `consume`, `get_message` |
| Process | `Common/main.cpp` | | arguments, construction, event loop, deletion |
| Settings | `js/media.js`, `ReceiveSettings` | `refresh_time` in Stream Deck's store | the property inspector writes it, the plugin restarts the handler |
| JSON access | `Common/EPLJSONUtils.h` | | typed lookup with a default |
| Paths | `Common/ESDUtilitiesWindows.cpp` | | pure functions on path strings |
| Localizer | `Common/ESDLocalizer.cpp` | a JSON table | loaded at start, never asked |

The threads:

- **Main** runs `main`: it constructs the plugin, whose constructor hooks the
  media sessions and calls `CheckMedia`; then it runs the event loop of the
  websocket, which connects, reads, writes, expires timers and hands it one Stream
  Deck message after the other; when the loop runs out of work, the connection
  being closed, it deletes the plugin.
- **Callback threads** of Windows run `MediaChangedHandler`,
  `PlaybackChangedHandler` (both only call `CheckMedia`) and the
  `SessionsChanged` lambda. They exist from the constructor on, and nothing
  waits for them at the end.
- **Workers**, one per button, run the loop of `ButtonHandler::start`, which calls
  `HandleButton` and sleeps. `HandleButton` sends the image and the title, on the
  worker's thread: `send` checks the state, queues the message, and posts the write
  to Main's loop.

They meet in `mContextHandlers` (Main writes it; callback threads iterate over
it), in the pair `mTitle`/`mImage` (callbacks write it, workers read it), and in
the fields of each `ButtonHandler` (all three), and in the state and the queue of
the connection (workers and Main). Main joins a worker in `stop()`:
under `mContextHandlersMutex` when a button is configured again (line 482), and
without it when a button disappears (line 459) or the plugin is deleted.

What is hard here: a worker that reads the refresh flag twice and clears it later;
`CheckMedia` calls that overlap; objects deleted outside the lock that guards the
map; joins under a lock; a `std::thread` that must not be joinable when it is
assigned or destroyed; the end of the process while callbacks run; a tick that
survives changes of title, width and sign; sends that race with each other and
with the end of the connection; timers that expire while what they wait for
happens; frames that come in pieces. `PROJECT.json` lists each hazard at its
line with the properties that cover it.

What makes each part correct:

- `ButtonHandler`: a running object has a worker, a stopped one none; `start()`
  and the destructor return.
- the plugin: the objects that exist are those in the map; nobody touches a
  deleted one; title and image belong together; the buttons end up showing the
  stored title; messages are handled to the end.
- scrolling: the window is always inside the padded title, moves by one, and
  shows all of it.
- sessions: every playing session is hooked once; the sample is the playing one.
- settings: the interval in use ends up being the stored one.
- connection: what was accepted is transmitted in order, the registration first,
  until the connection ends; late answers and timers revive nothing; `run` returns
  after the connection has ended, and then does.
- frame parser: whatever the reads are, the messages are those that were sent; it
  fails at the first frame that is wrong and not before.

## 2. The modules

| Module | Models |
|---|---|
| `ButtonHandler` | the class by itself, and as a contract: what a client may call and what it gets |
| `MediaStreamDeckPlugin` | the plugin and its threads; extends `ButtonHandler`, whose operations its steps perform |
| `TitleScroll` | the arithmetic of the scrolling title, as operators |
| `ButtonScroll` | one button's scroll from pass to pass; extends `TitleScroll` |
| `MediaSessions` | hooks on the media sessions, and the choice of the session that is shown |
| `JsonAccess` | the lookups in messages and settings, as operators |
| `Deck` | Stream Deck, user, property inspector and the plugin's message handlers; extends `JsonAccess` and `TitleScroll` |
| `Paths` | the path functions, as operators, and the search for the plugin's folder |
| `SendChannel` | what a connection promises to its senders: the abstract specification |
| `Connection` | the client connection, its transport and its senders; implements `SendChannel` |
| `Frames` | the parser that makes messages of the bytes that are read |
| `MC_Plugin`, `MC_ButtonScroll`, `MC_Sessions`, `MC_Deck`, `MC_Paths`, `MC_Connection`, `MC_Frames` | values of the constants for TLC |
| `ButtonHandler_proofs`, `MediaStreamDeckPlugin_proofs`, `ButtonScroll_proofs`, `MediaSessions_proofs`, `Deck_proofs`, `Connection_proofs`, `Frames_proofs`, `Paths_proofs` | the theorems |

Three modules look at the plugin from three sides, each taking as one step what
another has in detail. `MediaStreamDeckPlugin` has every step of the threads, but
samples the media at once and takes messages as they come. `MediaSessions` has
the sampling session by session, and leaves out the buttons. `Deck` has the
messages in the order in which Stream Deck sends them, and each message handler
as one step. `Connection` and `Frames` are the layers below: the plugin's modules
take a message as handed on and a title as sent, these two say when that is so.

A definition whose comment begins with *Fault* is a plausible mistake in the
definition after it. No behaviour uses it: it is put in the place of the right
definition to confirm that a property can fail (`mutants` in `PROJECT.json`).

### ButtonHandler

An object is named by the context of its button; the plugin has at most one per
context. `execute`, `doRefresh`, `textWidth` and `currentTick` are the fields;
`worker` is the position of the worker in the loop of lines 79-95 ("none" when
`_thd` is not joinable, "exited" when the loop has ended and the join is still
to come); `call` is the position of the client inside `start()` or the
destructor. Each access to the atomic `_execute` and each critical section of the
object's own mutex is one step; that mutex is held for one access and nothing else
is locked under it, so the sections are atomic. `currentTick` distinguishes 0 from
positive: nothing else decides control (lines 83-92). That the tick of an idle button
overflows to a negative one, which leaves the refresh flag set, is in `ButtonScroll`
only: in `MediaStreamDeckPlugin` every draw returns a positive tick. `StartSpawn` lets the
creation of the thread fail, which leaves `_execute` set and no thread.

`HandlerSpec` is the contract: one `start()` or delete of an object at a time, no
call on an object that is deleted or being deleted.

### MediaStreamDeckPlugin

- *Data.* A media value is one playing item: its title in `mTitle`, its thumbnail
  in `mImage`. The same title first without and then with its thumbnail (line
  296) is two media values. `NoMedia` is the empty title and image.
- *CheckMedia* (lines 246-364): `Sample` reads what plays, or `SampleThrows`;
  then `LockData`, `WriteImage`, `WriteTitle` (which unlocks), `LockContexts`,
  `RefreshOne` per entry, `UnlockContexts`. The sample is one step because title
  and thumbnail come from one properties object; the choice of the session is
  the subject of `MediaSessions`.
- *HandleButton* (lines 198-238, called at 494): the two arguments in either
  order, the test at line 204, the lock, the image when a refresh was asked for,
  the copy of the title with the unlock, and the title sent after it. `deck` holds
  what was last sent to each button.
- *Messages* (lines 435-513): received one at a time by Main. `ReceiveSettings`
  blanks the title and goes through `StartButtonHandler`: `StartLock`,
  `StartSetRefresh`, `StartCall`, the steps of `start()` itself, `StartDone`.
  `WillDisappearForAction` looks up without the lock; `EraseEntry` takes it;
  `DeleteHandler` runs without it. A message may come at any time and for any
  context, whether its button is shown or not.
- *Life*: the specification begins in the constructor's call of `CheckMedia`;
  `Constructed` sets the connection manager; `Close` ends the loop;
  `DestructHandler` and `Destructed` are the destructor, which takes no lock.

Critical sections on `mButtonDataMutex` are split, since a worker sends the image
inside one; `EraseEntry` and `TitleParametersDidChange` are single steps that need
the lock to be free, because nothing in them can be observed half done.

### TitleScroll, ButtonScroll

A title is its length, a window the positions of the title's characters in it.
`Started` is the restart of lines 225-227, with the comparison of an `int` with a
`size_t`: a negative tick compares as larger than any length. `ButtonScroll` runs
one pass of the loop per step, `currentTick` within `IntMin..IntMax` in two's
complement. The code reads the flag, the width and the title at different moments
of a pass; a title that changes between them shows as a title that changes before
the pass without a restart, so `NewTitle` may or may not leave the refresh flag
set. It may also ask for a refresh without another title, as new settings do.

### MediaSessions

- *Players* (Windows, from how the code uses it): `listed` is what `GetSessions`
  returns, `current` what `GetCurrentSession` returns; a session reports a track
  and a status. A track is a title with its thumbnail. Sessions appear, vanish and
  change at any time; a change raises one media event per hook on it, and a change
  of the list raises `SessionsChanged`. Whether a session that ends still reports
  the end of its playback is left open. A hook is taken to live as long as its
  session, although the plugin lets go of the session's object (lines 128, 150).
- *Constructor* (lines 115-158): the two hooks on the session that is current, which
  nothing revokes, and `CheckMedia`.
- *SessionsChanged* (lines 121-146): the list of sessions, then for each of them
  `NextSession` (the old revokers revoked, the entry erased), `HookMedia`,
  `HookPlayback` (with the entry). `HookThrows`: hooking a session that vanished
  throws, the revoker in scope is destroyed and the handler ends.
- *CheckMedia* (lines 246-356): one step per question to Windows
  (`GetCurrentSession`, `TryGetMediaProperties`, `GetPlaybackInfo`, `GetSessions`),
  `AskNext` in any order, and `Store`, which keeps a title and the thumbnail from the
  `properties` object that was read last. A vanished session does not answer, or
  throws.

### JsonAccess, Deck

- *Messages* are JSON values: records of a kind and a value. `GetIntByName`
  converts to an int in two's complement, here of `-Half..Half-1`.
- *Stream Deck* (from how the code uses it): it shows and hides buttons, stores
  settings and fonts, and sends the plugin `willAppear`, `willDisappear`,
  `didReceiveSettings`, `titleParametersDidChange`, `keyDown` and `keyUp` in one
  stream. A new title is answered with its parameters, that of a hidden button
  perhaps. `ReportsHidden` says whether new settings of a hidden button are reported
  too, which an inspector left open can cause.
- *Inspector* (`js/media.js`): the field is filled when it opens; a changed field is
  sent as `parseInt` makes it, unchecked (NaN is null in JSON).
- *Plugin*: `OnMessage` takes the next message and does what the handler does with
  `mContextHandlers`, of which interval and text width are kept.

### SendChannel, Connection

`SendChannel` has three variables, `pending`, `wire` and `up`, and three actions.
It promises order, and no message twice or left out, until a final message has
gone out or the transport breaks. It promises no more: whoever sends then is
not told (which `SetTitle` would ignore anyhow).

`Connection` begins in `Run` (`ESDConnectionManager.cpp` 144-187) after
`connect`, with the resolution under way.

- *Main.* The loop runs one handler at a time, so a handler is one step; only a
  read is one step for each frame that is in it, since senders may run between
  their handlers. `main` tells whether Main is in the loop, in the open handler,
  among the frames of a read, or out of `Run`. `op` is the set of operations of
  the socket whose handler is still to run; `posted` counts the calls of
  `write_frame` in the queue of the loop.
- *Handshake.* A response is valid, invalid, or valid but for a
  `Sec-WebSocket-Extensions` header that cannot be parsed (`badExtensions`). The last
  makes the handler call `terminate` and go on (lines 1629-1635 there): `main` is
  "refused" until `OpenAnyway` has set the state to open, and a sender may look at the
  state in between. `shut` says that `terminate` has shut the socket down, whatever the
  state is afterwards; its reads and writes then fail (`Broken`).
- *Timers.* Of the timers for resolution and TCP connect one exists at a time
  (`connectTimer`; the code asks whether its time has passed, not whether its
  handler has run). `handshakeTimer` is what `m_handshake_timer` points to;
  `timeouts` counts handshake timers whose handler will run whatever is cancelled,
  because they have expired or because a later one has taken their place.
- *Frames received.* Data, ping, close (valid or not) and whatever makes `consume`
  fail; which bytes make which frame is the subject of `Frames`. Pongs, and reads
  that complete no frame, change nothing here. Whether the close was clean is
  kept by the code for its log only, and left out.
- *Sending.* `SendCheck`, `SendPush` and `SendDispatch` are the two critical
  sections and the call after them. Main's own sends (the registration in
  `OnOpen`, an answer in `OnMessage`, pongs, close frames) are the whole of it in
  one step, which loses nothing: a sender in between sees the same queue and the
  same flag. Workers exist once a message has been heard. (A debug build also logs
  through the connection, from other threads and earlier; it is not modelled.)
- *The socket.* A read or write fails only when an end has been shut down; a write
  may still succeed then. `Terminal` marks the close frame that answers a protocol
  error, after which the connection is dropped.

`OnFail` and `OnClose` only print, and `async_shutdown` of a plain socket calls
its handler at once, so that `terminate` is one step. `OnMessage` catches what the
plugin throws; that `Run` may end by an exception of websocketpp is left out, for
none is thrown by the overloads it calls.

### Frames

A byte is known by its frame and its place there; the frame says what its header
bytes mean and what its payload bytes are in UTF-8. The peer may send any of the
frames, `handle_read_frame` takes any part of what has come, and the loop of
`consume` is one step per pass (`ReadBasicHeader`, `ReadExtendedHeader`,
`ReadPayload`), with `get_message` when a message is ready. `failed` is that
`consume` has reported an error: nothing is read then. Data messages are texts;
binary ones, which Stream Deck does not send, take the same way without the test
of UTF-8. `WordSize` is how many values a `size_t` has (the plugin is built for 32 and
for 64 bits): the sum that is compared with the limit, `SizeSum`, is one of two
`size_t`. The reference is at the end of the module: `Good` says which frame may
follow those before it, and `Messages` which messages the frames make, both from
the frames as a whole and without a parser; the size of a message is for `Good` what a
`size_t` makes of it, as it is for the parser. They are recursive functions of the
number of frames (`DataOf`, `MessagesOf`), so that the proofs can use them.

### Paths

A path is a sequence of characters, of which only delimiters, colon and dot are
told apart; the others are `Letters`. The operators are the functions of
`ESDUtilitiesWindows.cpp`; the actions are the loop of `GetPluginPath` (lines 246-270
there). `PathsAssumption` says what Windows allows: a name has neither delimiter nor
colon (`IsName`), and a path starts with a drive `X:\` or a share `\\server\share`
(`IsDrive`, `IsShare`). `Below` and `PathsOf` make the paths the search is about, from
the names and without the functions that are checked. A share may itself be named
`.sdPlugin`, and is found then; a drive cannot be.

## 3. The runs

| Run | Bounds | What it shows |
|---|---|---|
| `safety` | 2 buttons, 1 callback thread besides the constructor, 1 media change, 5 messages, WinRT failures, font sizes 12 and 160 | types; `RefreshAllHandlers` reaches live handlers only; title and image match; the map and the objects agree; the plugin implements `HandlerSpec`: each step on a handler is one its contract allows |
| `live` | 1 button, 1 callback, 1 change, 4 messages, WinRT failures, closing | no joinable thread is assigned or destroyed, by closing neither, and no worker is lost, thread creation failing or not; every call on a handler returns; every message and close is handled to the end; a drawn button ends up with the stored title |
| `scrolling` | titles of 0-4 characters, widths 0, 2, 3, an int of -9..8, 4 changes | full windows, one step at a time, every character in turn, through overflow |
| `hooks` | 3 sessions of 2 applications, 2 titles and the empty one, 2 changes | hooks and revokers agree; once the handler has caught up every listed session is heard; a reported change ends in a title that is playing; thumbnail and title belong together |
| `follow` | 2 buttons, 2 fonts, 5 moves of the user; intervals that are good, 0, not a number, too large | handlers, intervals and widths follow the device; a shown button gets a handler with a width |
| `paths` | a drive and two shares, 1-4 names with and without dots | the nearest .sdPlugin folder is found; the path functions agree |
| `connection` | Main and 1 worker, 2 messages of it, 2 frames received | order, no lost wakeup, one write at a time; what follows a close frame; registration first; the state never goes back but in a failed negotiation of extensions; `Run` outlives the connection and returns; an accepted title is transmitted or the connection ends |
| `frames` | 3 frames of 30, payloads of 0-3, 7 and 8 bytes, reads of 1-4 bytes, a `size_t` of 8 values | the messages of exactly the complete frames, in order; failure at the first wrong frame; the limit, without the frame of 7 bytes; everything is read |
| `overtake`, `lost`, `freed` | 1 button, 1 or 2 callbacks | violations, section 6 |
| `unheard` | 2 sessions of one application | violation, section 6 |

Why the bounds are enough. Everything that one button's worker does to another
goes through the shared data and the two mutexes, so two buttons show it; the
constructor's `CheckMedia` and one callback show what two calls do to each other. Four messages
hold a whole life (appear, title parameters, settings or disappear, appear again);
five let a second button live through it. A media change costs one event and one
`CheckMedia`; two of them are needed for overtaking, one for everything else.
`changes` and `messages` count what the environment does; the program's own
steps are not bounded. The proofs remove the bounds for the safety properties. In
`scrolling` the titles are shorter than, as long as and longer than the widths, and
the int is just large enough for the longest padded title, so that an idle button
overflows it.

`ConcurrentDelivery` says whether events may be delivered while a `CheckMedia`
runs. Nothing in the code prevents it; `lost` and `freed` exclude it to show that
they need no overlap. `CanClose` is TRUE where
the end of the plugin is part of the question. Deadlock is checked in these runs:
`Waiting` is the only state without work, in which Main waits for a message and
nothing else runs, or has returned.

In `hooks` the third session is the second of its application, so that one can take
another's place. Two changes suffice for one before and one during a `CheckMedia` or
a handler. A session that has been hooked, vanishes and is replaced takes three:
that case is in the proofs, which hold for any number of changes. Events are
delivered one at a time: overlapping `CheckMedia` calls are the subject of
`overtake`. `hooks` allows one session per application at a time (`SharedApps`
FALSE), and `follow` has settings of hidden buttons not reported; the first assumption is needed
(`unheard`), and without the second a handler comes back for a hidden button, which
no comment in the code speaks of. Five moves of the user hide and show a
button again and change its settings or font, with all messages still under way.

In `connection` Main sends as well (registration, answers, pongs, close frames), so
that one worker makes two senders; the second of its two messages meets a write
under way, a full queue, or a close frame. Two frames hold a close frame after data,
two close frames, and an error while closing. In `frames` the sizes are scaled down:
1 byte fits the short header, 2 the middle one, a message has 3 at most, and a read
buffer of 4 bytes ends in each part of a frame. A `size_t` holds no 8, and the 7 of the
longest frame only alone: added to what a message has already, it wraps. Three frames hold a control frame
between two fragments. Deadlock is not checked in these two: `Run` returns, and the
peer may stop sending.

The type invariants `HandlerTypeOK`, `ConnectionTypeOK` and `FramesTypeOK` have no run
of their own: `HandlerTypeOK` is a conjunct of `TypeOK`, and all three are proved.

### Fairness

Weak fairness of each thread: the operating system runs it, and the sleep in the
loop ends. The two waits for `mButtonDataMutex` (lines 211 and 340) have strong
fairness, since every worker takes that mutex again and again and a wait for it
is enabled only in between: a worker holds it for two calls and then sleeps for
its interval, and a Windows mutex wakes a waiter. Windows delivers the events it
has raised. In `Connection` every handler of Main runs to its end; the loop takes its
events first in, first out, so that none waits for ever behind others (strong
fairness, since Main is out of the loop again and again); timers expire; a thread
inside `send` goes on; and the peer takes what is written, without which no write
ends, as websocketpp has no timeout for writes. Nobody has to send, answer or close.
In `Frames` what has come is read. No fairness is assumed of Stream Deck or of the media: no message,
change or close has to come. In `ButtonScroll` only the pass is fair. In `Deck`
Stream Deck and the plugin go on reading their sockets; the user need not do
anything.

## 4. What is proved

All theorems hold for any constants that satisfy the named assumptions (the
identities of threads and contexts are distinct; the widths are those of the font
sizes, none of which is 0 or 1; a padded title is shorter than the largest int; what
`parseInt` makes of an input is an integer or null; a frame's header can hold the
length of its payload; a `size_t` holds the message limit and what a header of 16 bits
can announce; names have no delimiters and roots are drives or shares). Where a theorem assumes more, it is said below.

**ButtonHandler.** `NeverTerminates` is not inductive: a `start()` that finds
`_execute` clear skips the join, and is safe only if there is no worker then.
`HandlerInv` adds that a worker which has not ended either has `_execute` set or
a `stop()` waiting for it, that one which has ended is waited for, and that a call
in progress has cleared `_execute` on a live object. One lemma per operation
shows that it preserves `HandlerInv`; from them follow `HandlerTypeCorrect`,
`HandlerNeverTerminates` and `HandlerWorkersStay`.

**The plugin.** `PluginInv` has one part per concern: `LockInv` (who holds which
mutex, by position), `MapInv` (map, live objects, and the object between its
removal from the map and its deletion), `VisitInv` (what `RefreshAllHandlers` has
still to visit is in the map), `DataInv` (which media title and image are of while
they are being written and drawn), and `HandlerInv`, for which the lemmas about
`ButtonHandler` are used again. Frame lemmas dispose of the parts a step does not
touch. The argument for `RefreshVisitsLiveHandlers`: while a callback visits, it
holds the mutex, so Main cannot be erasing; what is in the map is live; and a
handler is deleted only after it was erased. The theorems are
`PluginTypeCorrect`, `PluginRefreshVisitsLiveHandlers`,
`PluginTitleAndImageMatch`, `PluginHandlersMatchMap`, `PluginNeverTerminates`, and
`PluginUsesHandlersByContract`, the refinement: as long as the connection stays
open, every step of the plugin is a step of `HandlerSpec` or leaves the handlers
alone.

**Scrolling.** `ScrollInv` adds to types and `WindowFitsButton` that the tick is
one beyond the window on the button, or 0, and that the window starts no later
than where the title has left it. `ScrollWindowFits` and `ScrollAdvances` follow.

**Sessions.** `RevokersOwnHooks` is nearly inductive: with the types, it needs only
that the entry of the application being hooked is empty while the handler is between
its hooks. `ListedSessionsHooked` needs what a handler has still to do: every
listed session is hooked, or in the handler's list, or a `SessionsChanged` is still
to be delivered. That is preserved only because hooking a session can revoke no
hook but that of a session of its application, which without `SharedApps` is no
longer listed. Hence `SessionsAreHooked` assumes `~SharedApps`, and
`SessionsRevokersOwnHooks` does not.

`SessionsOneTrack` needs to know what a call has found so far: it has a title only at
its end, that of the properties it read last (`OneTrackInv`). For
`SessionsHeardChangeIsShown`, after a change that was heard either its event is still
to be delivered, or every call of `CheckMedia` that is running has begun since, so that
what it has found is still true (`Fresh`: the session it asks is listed and is the
current one unless that has no title, and no session it is past is playing); and when
none is running, the stored title is right (`HeardInv`). That holds only if callbacks do
not overtake each other, so the theorem assumes `~ConcurrentDelivery`; `overtake` shows
what happens without.

**The device.** The plugin lags behind the device by the messages on their way to it.
The invariant of `Deck_proofs` relates the two: a message that says what is no
longer so is followed by a later one that says what is (`Followed`), and if no such
message is left, the handler is there or not, with the interval and the width it
should have (`Has`). A width is lost with its handler and asked for again, so there the
question or its answer may be under way as well. Each action is shown to append, take
or replace messages in a way that keeps this. `DeckIntervalIsStored`,
`DeckWidthIsOfFont` and `DeckTypeCorrect` hold with and without `ReportsHidden`;
`DeckHandlersAreShown` assumes `~ReportsHidden`.

**The connection.** `ConnectionInv` has eight parts. Besides the types, `OpInv` says
which operations of the socket can be under way together, and that nothing is sent
while connecting; `AliveInv` what keeps the loop from running out of work in each
state, and that a refused connection is closed with no operation under way, which is
why the one step from closed to open in `StateAdvances` is `OpenAnyway`; `OneWriteAtATime` and `QueueIsServed` are inductive with it; `BatchInv` has a
terminal message at the end of a batch only; `RegisterInv` the registration as the
oldest message of all; `CloseInv` who may still be inside `send` after a close frame
was queued. Each action is shown to be one of four things for the queue (rest, queue
a message, take a batch, end a batch), and each part is shown to survive these four.
The theorems are one per property, and `Implements`: every step is a step of
`SendChannel` or leaves it alone, under the mapping `pending <- currentMsgs \o
sendQueue`, `up <- ~(writeFlag /\ "write" \notin op)`.

**Frames.** `FramesInv`: every byte the parser holds is one of a frame that was sent,
what is read and what is needed of the extended header make its length, and the
limit has been reserved for the payload that is still to come, unless the peer has sent
a frame that makes the sum of sizes wrap. That every frame is a step of its own is why
`SmallFramesMeetLimit` needs the reservation; that no frame is `Huge` makes `SizeSum`
the sum it stands for (`SizeSumFacts`, `SmallSize`).

`DeliveryCorrect` and `FailureCorrect` compare the parser with the reference, and need
to know where in the stream it is. `ParseInv` says that the bytes which are left
follow each other as they were sent (`Flow`), that the next one belongs to a frame
`p`, that all frames before `p` were good and their messages have been handed on
(`Done`), and, for each state of the parser, that what it keeps is what `p` and the
frames before it say up to that byte (`InBasic`, `InExtended`, `InPayload`,
`InReady`). The cuts between reads disappear in `Flow`, which speaks of buffer and
socket as one sequence. A step of the parser then takes `k` bytes of `p`; at the end of
a header or a payload its tests are shown to be those of `Good(p)`, in which the
recursion of `DataOf` and of `Messages` advances by one frame. A test that fails is
`~Good(p)`: with a payload that fails before its end, because a text that is not
well-formed so far stays so. TLC has checked `ParseInv` on the run's instance.

The recursive functions are well-defined by `RecursionExists` and computed by one
unfolding, both proved in the module. The induction they take cannot come from the
library, whose induction theorem has an operator for its parameter. `SetInduction`
replaces it, by counting: if `n` were missing from a set of naturals that has 0 and
every successor, then subtracting 1 would map the missing numbers up to `n` one-to-one
to those below `n`, which are fewer.

**Paths.** What the functions need of a path is `Located`: its root is a drive or a
share, it has no slash, and unless it is a drive it ends with a name. Every root is
`Located`; what is `Below` such a path is so again, has that path for its
`GetFolderPath`, ends in `.sdPlugin` exactly when `GetExtension` says so, and is what
`AddPathComponent` makes (`LocatedBelow`, `BelowFacts`, `AddedFacts`). By `SetInduction`
every path of the tree is `Located`, and a share is its own folder. `PathsInv` says that
the search is at one of the folders above the executable and that none of those
it has left was the one. `NearestIsFound`, `SearchGoesUp` and
`AddedFileIsInItsFolder` follow, for any depth.

Only model-checked: the liveness properties (`CallsReturn`, `MessagesAreHandled`,
`ButtonShowsTitle`, `WholeTitleShown`, `ShownButtonIsReady`, `RunReturnsInTheEnd`,
`AcceptedIsTransmitted`, `AllIsRead`), because fairness and ENABLED are out of the
prover's reach. Every other property of a passing run is stated by a theorem.

## 5. What is not modelled

- `main`'s arguments and registration; `OnMessage`'s devices and messages to the
  plugin, which it ignores. A missing or tiny `fontSize`, which would divide by zero at
  line 511, is assumed away.
- Two `SessionsChanged` handlers at once: Windows is taken to run one at a time.
- A thumbnail that cannot be decoded while its session lives.
- Of websocketpp: servers, TLS, proxies, compression, pings and closes of the
  endpoint's own, pausing, writing and masking of frames, the text of the handshake. The
  plugin asks for none of them or, for the last two, nothing but data conversion is
  done. A thread sanitizer would object to `m_state`, which senders read under a
  lock that the loop does not take; it is one word, read and written whole.
- Of asio and json (nearly all lines of the repository): only what the connection and
  the plugin use of them. Event loop, sockets and timers are in `Connection` as what
  they promise, JSON values in `JsonAccess`. The rest is called by nothing here.
- The growth of the send queue while Stream Deck does not read.
- How long a worker sleeps: `Deck` follows the interval, no property depends on time.
- The plugin's UTF-8 conversion, image scaling and encoding; logging (compiled out); localizer (loaded and
  never asked); macOS utilities (in no build).
- Exceptions from memory exhaustion.
- Executables whose path begins with `\\?\` or is relative. `GetModuleFileName` returns
  such a path if Stream Deck started the program by it; `GetPluginPath` has no case for
  it.

## 6. Where code and comments disagree

- **`overtake`** - `CheckMedia` locks only to write (line 339), after sampling. Two
  calls that overlap may write in the opposite order, and the older title stays
  until the media changes again. Line 298: "it all ends up eventually correct".
- **`lost`** - `set_refresh(false)` (line 91) clears a refresh that arrived after
  line 494 had read the flag: the new image is not drawn. Lines 88-89:
  "otherwise it stays set until a draw happens".
- **`freed`** - nothing waits for callbacks before the plugin is deleted, and
  `this != nullptr` does not notice. Lines 182-183: "it must verify 'this' is
  valid".
- **`unheard`** - `mSessionHandlers` is keyed by application. Of two sessions of one
  application the one hooked later revokes the other's new hooks (line 134), which
  is then heard no more. Lines 124-125: cancelling and registering again
  "simplifies keeping everything in sync".
- The comment at lines 448-450 says that the worker acquires the lock of the map.
  It does not, and must not: with the fault `ButtonNeedsMap`, which makes it do so,
  `MessagesAreHandled` fails, Main joining the worker under that lock.

Other disagreements, which the models show and no run is kept for:

- The destructor goes through `mContextHandlers` and deletes the handlers without the
  mutex (line 162), while `RefreshAllHandlers` may be on its way through the same map
  and call `set_refresh` on a deleted handler (`MediaStreamDeckPlugin.h` 61: the mutex
  "protects mContextHandlers"). In run `freed` TLC finds `RefreshVisitsLiveHandlers`
  violated when its condition `Serving` is left out.
- When the extensions cannot be negotiated, `handle_read_http_response` calls
  `terminate` without leaving (`websocketpp/impl/connection_impl.hpp` 1629). The
  connection, whose socket has been shut down, goes from closed to open, the plugin
  registers, and frames that came with the response are handed on. Lines 1620-1621
  there: "kill all connections that fail extension negotiation". With the bounds of
  `connection` TLC finds `KilledHandsOnNothing` violated. `StateOnlyAdvances` makes this
  the one exception, and `RunReturnsInTheEnd` holds of it as well: the next read or
  write fails.
- `out.size() + m_bytes_needed` (`websocketpp/processors/hybi13.hpp` 457) is a sum of
  two `size_t`. A continuation that announces nearly as many bytes as a `size_t` can
  count makes it wrap to a small number: the limit is not reached, and the message grows
  with every byte that follows. `websocketpp/config/core_client.hpp` 229-231: the maximum
  message size "determines the point at which the library will fail a connection".
  `validate_incoming_extended_header` asks only whether a length fits in 32 bits, and
  only where a `size_t` has no more. With the bounds of `frames` TLC finds
  `SizeIsLimited` violated; what holds is `SmallFramesMeetLimit`.
- A refresh that arrives between line 83 and line 494 is drawn into the running
  scroll (lines 81-82: "Refresh requires we reset the animation").
- The `SessionsChanged` handler does not run `CheckMedia`: the title of a playing
  session that vanishes without a playback event stays (line 218: "Only draw the
  title if set (i.e. media is actually playing)").
- The search of lines 276-290 breaks at the first playing session, even if it has no
  title (line 270: "let's see if they have something playing somewhere else").
- The inspector sends whatever `parseInt` returns, and the plugin uses any int but 0;
  a number too large for an int even becomes negative (line 14 of `media.html`:
  `required pattern="\d{2,}"`).
- `finalize_message` (`websocketpp/processors/hybi13.hpp` 537) looks at the opcode of
  the last frame. A text in several frames ends with a continuation, and may end
  within a character (line 536: "ensure that text messages end on a valid UTF8 code
  point"). `Good` in `Frames` therefore asks it of a single frame only.
- A handshake timer that has expired before the handshake is done terminates the
  connection after it has opened; cancelling it (`impl/connection_impl.hpp`, in
  `handle_read_http_response`) comes too late.
- Two close frames of which the second is invalid are both acknowledged, although
  `changelog.md` of websocketpp (0.3.0-alpha2) has fixed what two close frames do. The
  connection still ends: `RunReturnsInTheEnd`.

## 7. Plan

Done: all modules of section 2, their runs, and the proofs of section 4. Left:

1. The plugin while it is being closed: the contract with the destructor in between.
2. That the `CheckMedia` of `MediaSessions` implements the one step of
   `MediaStreamDeckPlugin`'s `Sample`.
