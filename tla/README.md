# A specification of psi-shared

psi-shared is a C++ library for calls and events between the processes of one
machine, over shared memory. This directory models it in TLA+: TLC checks small
instances, TLAPS proves the properties that matter most for all of them.

## 1. The system

A *service* is three spaces in shared memory, each behind a named semaphore
(`os_mutex.cpp`) that every process takes around each operation.

    client process                                       server process
      user threads  --- call frames --->  CallSpace  --->  server thread
      callback thread <--- answers ---  CallbackSpace <---  methods, on the
      event thread  <--- events ---     EventSpace   <---  thread or a loop
      connection thread <-- m_isAvailable of all three --- ctor, dtor

| Component | State | Operations | What makes it correct |
|---|---|---|---|
| CallSpace | bytes up to `m_currentWriteIndex`, `m_lastClientId` | `push`, `pop`, `clear`, `generateClientId` | frames stay whole, ordered, taken once |
| CallbackSpace | a status and an answer per slot | `pushCallback`, `updateCallback`, `popCallback`, `clearCallback` | one call per slot; the answer is that call's |
| Client calls (`IClientIPC`) | `m_cbDataSubs`, `m_isActive`, closures with the loop | `callServer`, `connect`, `disconnect`, destructor, the callback thread | a callback runs once, in the end, with its own answer |
| Server (`IServerIPCBase`, `IServerIPC`) | the drained batch, what it gave its loop, callback objects held by methods | `readMemory`, `onReadCallMemory`, `onCallback`, destructor | every accepted frame is served, in order, once |
| EventRingBuffer | slots, `m_read`, `m_write` | `push`, `pop`, `reset` | a bounded queue |
| EventSpace | a ring per client, registered bits, availability | `registerClient`, `unregisterClient`, `push`, `pop` | a queue per client, isolated from the others |
| Event delivery (`IClientIPC`, `IEventClientIPC`) | `m_evClientId`, `m_evDataListeners`, the event thread's view and tasks | constructor, `subscribe`, `~Listener`, the event thread, `notify` | a subscribed function gets each event intact, once, in order |
| Thread hand-over (`IClientIPC`) | two threads, a condition variable, `m_isActive` | `connect`, `disconnect`, waits, notifications, joins | `disconnect` returns and leaves nothing running |
| Availability | three flags, an attribute | constructor and destructor of the server, the connection thread | the attribute follows the server |
| Shared memory objects (`sm_manager_impl.h`) | a mapping per name and process | `isShared`, `loadToShared`, `loadFromShared` | one initialisation per service |
| Framing and serialization (`IPCCall.h`, `Serializer.h`, ...) | none | sizes, bytes of frames and answers | what is parsed is what was written; sizes are right in 16 bits |

How the parts meet: a user thread takes a slot, registers the call with the
callback thread under `m_mtxCbData`, then pushes its frame; the server's thread
drains the whole call space in one critical section and runs the methods; a method
answers, possibly later and on any thread, by slot index; the callback thread
polls the slots of all waiting calls and makes a closure of each that has its
answer or its deadline; closures run on that thread or on the client's loop. For
events the server writes to every registered ring; the event thread drains its
ring, copies each payload *after* releasing the mutex, and then runs the tasks
it collected.

What is hard: the interleaving of user threads, callback thread, loop, server
thread and other processes; slots and event ids that are reused by index with
nothing to say who used them before; deadlines that race answers; a server that
exits, crashes and is restarted over the spaces it left; queues at their limit;
memory that is read after its lock was released. `PROJECT.json` lists each of
these hazards at its line, with the properties that watch it.

## 2. Modules

| Module | Stands for |
|---|---|
| `CallSpace` | `CallSpace.h`: operations on the frames, over its own variables |
| `CallbackSpace` | `CallbackSpace.h`: the array of slots |
| `RequestReply` | extends both: clients (`IClientIPC.hpp`, `readCbData` of `ClientIPC.cpp`) and server (`ServerIPCBase.cpp`, `IServerIPC.h`) |
| `CallPromise` | abstract: what a call that asks for an answer is promised |
| `EventRingBuffer` | `EventRingBuffer.h`: the operations as functions of one ring |
| `EventSpace` | `EventSpace.h`: a ring per bit, extends the ring |
| `EventQueues` | abstract: one bounded first-in first-out queue per member |
| `EventDelivery` | extends `EventSpace`: `notifyEvent`, client objects, Listeners, `readEvData` |
| `ServiceLifecycle` | `sm_manager_impl.h`, `sm_object_impl.h`, `os_mutex.cpp`, the constructors and destructors of `IServerIPCBase` and `IClientIPC`, the connection thread |
| `ClientThreads` | `connect`, `disconnect`, `readCbData`, `readEvData` and `callServerWithReturn`, as threads that wait for each other |
| `ArgSizes` | `Serializer.h`, `Deserializer.h`: pure operators on arguments and bytes |
| `CallFraming` | extends it: `IPCCall.h`, `validateCall`, `onReadCallMemory`, `IPCCallback.h` |
| `Filtering` | no code: `Only(s, S)`, the elements of `s` that are in `S`, in order |
| `RequestReplyProofs`, `CallProofs` | theorems about `RequestReply` |
| `EventProofs`, `HearingProofs` | theorems about `EventDelivery` |
| `LifecycleProofs`, `ThreadProofs`, `FramingProofs` | theorems about `ServiceLifecycle`, `ClientThreads`, `CallFraming` |
| `FilteringProofs` | lemmas about `Only` |
| `MC...` | the instances for TLC |

`RequestReply` composes calls and answers, `EventDelivery` events. `ClientThreads`
has the threads they share and leaves out slots and rings; `ServiceLifecycle` has
the objects' lives and leaves out what they do while they are up; `CallFraming` has
the bytes of what `RequestReply` treats as whole frames.

### Calls

A frame, an answer and the call they belong to are one value: the call. Its frame
has a constant size (`FrameSize`), of which `HEAD_SZ + LEN_SZ` are the head and the
length field. Per call, `caller` is the place of its user thread in
`callServer`: `TakeSlot` and `Register` are the two halves of `pushCb`, `PushCall`
the push. The callback thread's `cbThread` is at the loop's condition (`top`), in
the condition variable (`wait`), in a pass under `m_mtxCbData` (`scan`), or runs
closures (`run`). A pass is one step per waiting call (`VisitDue`, `VisitAnswered`,
`VisitWaiting`), because the space's mutex is released between two calls of a pass.
`subs` is `m_cbDataSubs`; `todo` holds the closures, as the local vector and the
loop's queue do. `expired` says whose deadline has passed; deadlines may pass in
any order and at any time, which covers every choice of timeouts.

The server's `ReadMemory` is the critical section of `readMemory`; `Dispatch` is
one iteration of `onReadCallMemory`; `Answer` is `onCallback`, for a method that
answers when it likes, up to `MaxAnswers` times. `ServerExit` is the destructor,
which joins the thread and so finishes the batch; `ServerCrash` loses the batch.
Both leave the spaces as they are, and `ServerStart` finds them.

History variables, which no action reads in a guard: `accepted`, `served`, `lost`
(the calls whose frames a server had drained or given to its loop when it ended),
`abandoned`, and `delivered`, what each callback was invoked with.

### Events

An event stands for its id, its size and its payload; each is sent at most once,
so that an event names a notification. `Pop` is the critical section of the drain
loop: it moves the read index and leaves `view` pointing at the slot; `Copy` reads
the slot's *present* content and selects the targets. The payload copy and
the selection of targets, two statements apart in the code, are one step:
the ring is only touched by the first and the Listeners only by the second.
`RunTask` and `RunPosted` invoke the targets' functions. `DestroyListener` is
`~Listener`: it gives the client's id back and, as in the code, leaves both
`m_evClientId` and the function in `m_evDataListeners`. `ServerStart` and `ServerExit` set
the event space's flag; a server that dies without clearing the flag cannot be told
here from one that does not notify.

History: `notified`, `sent` (what each ring took since it was registered),
`taken`, `heard`, `late` and `unregistered`.

### Service lifecycle

Objects (servers and clients) are constructed once each, in the process
`ProcessOf` gives them. A constructor goes through the spaces (`space`): `isShared`
decides, in a region of the managers' semaphore, between `loadFromShared` and
`loadToShared`, which are other regions. `createImpl` gives the process a new
mapping; the manager keeps the latest, a client keeps the one it was given, and a
mapping is closed with the last that keeps it (`Mappings`). `isShared` never closes
its descriptor (`leaked`); with `FdLimit` descriptors in use `shm_open` fails, and
`Found` takes an existing space for a missing one. `loadToShared` writes a whole
new space: the flag as the object wants it, and no registered clients. When
`createImpl` has no descriptor and the process no mapping from before, nothing is written and the
constructor goes on all the same: a server is then up without that flag (`bare`). A
missing mapping is a null pointer to whoever uses it later, which has no step but `Crash`.
`registerClient` gives out `CLIENTS_SIZE` ids and then fails, and the client is constructed
without one: `registered` are the ids that are taken, `m_evClientId` the clients that were given one.
What listeners take and give back afterwards is in `EventDelivery`.

A server's destructor lowers the flags one by one. `ReadFlag` and `ReadLastFlag` are
`updateConnectionStatus`, each flag in a region of its own. `Crash` ends a process
with all its objects, outside of any region or inside one, and then the semaphore
is `stuck`: whoever needs it stops for ever. `HangInLoadToShared` is the one place
where the code waits for a semaphore with another in its hands.

History: `raced`, `starved`, `overlapped`, `left` and `bare` say what has disturbed a space;
`moment` says whether all flags were up at one moment of the poll under way.

### Client threads

`cbThread` is at the loop's condition (`top`), about to evaluate the predicate
(`check`), between the predicate and the sleep with the mutex (`block`), asleep
(`waiting`), in a pass with the mutex (`scan`, or `flush` if it found the client
disconnected), or running closures (`run`). `NotifyCb` reaches a thread that is
`waiting` and nobody else. `disconnecting` is the place in `disconnect`, and `who`
the thread that is in it. A join by the thread to be joined throws and ends the process
(`terminated`). Callbacks and event functions are the user's: `does` says for each
that it does nothing of interest, disconnects, or makes a call, possibly one that
waits for its value (`Blocking`). `RunnerFor` is the thread or the loop.

### Framing

Bytes are cells: a function from offsets to what was written there. Offsets and
lengths are the code's, and sums of lengths are taken in 16 bits. `Frame`,
`ParseFrame`, `ReplyBytes` and `Answered` are the four conversions; a read at an
offset where nothing was written would be an error of TLC. What the code does value
after value (`Joined`, `Total`, `ReadVector`, `ReadTuple`) is a recursive function of the
number of values, about which one can prove.

### Properties

Calls:

- `SlotOwnership`: a slot is in use exactly as long as one call holds it. It would
  break if a late timeout closure cleared a slot somebody else had taken since.
- `AtMostOnce`: no callback runs twice. For `callServerWithReturn` a second run
  would set a promise twice, which throws on the callback thread.
- `AnswersMatchUndisturbed`: slots carry no call id, yet without timeouts, repeated
  or unasked answers every callback gets its own call's answer.
- `AnswersMatch`, without that condition, is violated (section 4).
- `ServedInOrder`, `NothingLost`: the drain keeps order, over exits and crashes,
  and loses nothing but what a server that ended had drained or given to its loop: what
  it left in the call space is there for the next one.
- `WaitingEnds`, `CallsReachTheServer`: liveness.
- `PromisesKept`: refinement. To a call that asks for an answer the library is
  `CallPromise`: a place out of `QUEUE_SIZE` from the asking until the answer is collected or
  the failure told, one outcome, a refusal for lack of places only when there is
  none; a destroyed client's places are lost. The places are the slots in shared memory
  (`FreeSlots`), the fate of a call is read off the client's lists and its callback, so
  that the two have to agree in every step.

Events:

- `ViewIntact`: the slot that is copied after the unlock is not overwritten first.
- `EventsInOrder`: sent = taken followed by what the ring holds, per client.
- `HeardInOrder`: the order survives view, copy, tasks and loop.
- `EventsHeard`: liveness.
- `RingsAreQueues`: refinement, the rings implement `EventQueues`.
- `SilentAfterUnsubscribe`: violated (section 4).

`ViewIntact`, `EventsInOrder`, `HeardInOrder` and `EventsHeard` speak of clients
whose id nobody gave back (`Undisturbed`): what happens to the others is what
`silent` shows.

Service lifecycle:

- `KeptUndisturbed`: the flags of a live server and the ids that live clients were given are
  lost only to a race on creation, to a process out of descriptors, which takes a space
  for missing, and, the flags, to an overlapping server; and a flag is missing from the start only if
  the server's process had no descriptor to make the space.
- `NoPhantomServer`: a flag that is up has a server behind it, or one that died.
- `ReportedWasAvailable`: a client that starts to report the server as available is right
  about one moment, although it read the flags at three: they are raised,
  lowered and read in the same order. Two overlapping servers, a race or a lack of
  descriptors break that.
- `DestructionNoticed`, `ServerNoticed`: liveness of the attribute.
- `AvailableWhenRunning`: violated (section 4).

Threads:

- `QuietAfterDisconnect`: after `disconnect` nothing of the client runs, except on
  the loop; the destructor relies on it.
- `DisconnectReturns`, `BlockingReturns`: liveness, with every way in which the code
  may hang named in the property: the missed notification, a value waited for on
  the thread or loop that should deliver it, a value waited for while the client
  is disconnected, a self-join.
- `DisconnectEnds`, without those, is violated (section 4).

Framing:

- `ArgsArrive`, `AnswersArrive`: what is read is what was written, for frames at any
  offset and behind any other; a string longer than 16 bits can say is cut.
- `ParsedInFull`: the parse loop finds every frame, in order, and ends at the end.
- `RefusedTooBig`: a call without vectors is refused only if its frame is too big.
- `SizeOfArgsMatchesSerialize`: violated (section 4).

## 3. Runs, bounds, fairness

| Run | Question | Instance |
|---|---|---|
| `slots` | who owns a slot, whose answer is it, between processes | 2 clients (one looped), 1 slot, 4 calls: two that wait for an answer, one whose arguments are too big, one one-way that is answered all the same |
| `server` | does the drain lose or reorder, does every waiting call end, is the promise kept | 1 client, 3 calls, two with callback, one unknown, 1 slot, 1 exit or crash, loop, room for 2 frames |
| `stale` | violated: whose answer after a timeout | 2 clients, 1 slot |
| `events` | order, rings as queues while ids change hands | 2 clients (one looped), 2 listeners, 2 events, rings for 1 event, 2 ids |
| `event_ring` | a view while the ring fills up and wraps around, liveness | 2 clients for 1 id, 1 listener, 3 events, ring for 1 event (2 slots) |
| `silent` | violated: a destroyed Listener is called | 2 clients, 2 ids |
| `lifecycle` | creation, flags and the attribute under races, crashes and lack of descriptors | 2 servers, 1 client, 2 processes, 2 spaces, 1 id, 4 descriptors per process, 1 crash |
| `created` | violated: a running server that is unavailable | 1 server, 1 client, 2 processes, 3 spaces |
| `threads` | does everything that waits for a thread end | 2 calls, one of them blocking, 1 event, 6 programs, with and without loop, 2 connects |
| `join` | violated: a disconnect that does not return | 1 call, 1 event, 1 connect |
| `frames` | is what is read what was written | 6 calls, frames of 512 bytes, room for one of that size |
| `sizes` | violated: the size of a vector | 3 calls |

Bounds. The number of calls and of events is finite because each is made once;
client ids end at `MAX_CLIENT_ID` (65535 in the code, 1 or 2 here, so that they run
out); `MaxAnswers` and `MaxExits` bound the answers of a method and the ends of a
server, `MaxCrashes` the processes that die, `MaxConnects` the calls of `connect`.
A reuse of a slot needs two calls and one slot. Repeated answers are in the model
and the proofs (`MaxAnswers` is any number there); in `slots` the answer nobody asked
for is that of the one-way call. A refused push needs room for fewer bytes than the
calls have. A ring of two slots holds one event and wraps around with the second; to write the
slot in view takes a third, pushed between `Pop` and `Copy`: the first is in view, the second fills
the ring, and `isFull` is all that refuses the third. Two spaces
are enough for flags of different moments, and the last of them is the one with
the registrations; the invariants were also seen to hold with three spaces, whose
temporal properties TLC does not finish in minutes. Four descriptors are two of
`isShared` and two mappings, so that the second object of a process runs out of
them; and when two objects of one process are at the first space together, the server may be
left without the second.
In `lifecycle` the one client has one id: two clients and the temporal properties are too
many states, so that a refused registration is met in the event runs (two clients, one
id) and, for any numbers, in the theorem. Two connects show what the first leaves to the second. The six calls of
`frames` are each a case: no arguments, a mixture with an empty string and a vector
of strings, a frame full to the last byte, arguments that are too many, a string of
65541 characters, an unknown method. `CHECK_DEADLOCK FALSE` everywhere: calls,
events and objects end.

Fairness.

- In `server`: the callback thread's steps and its closures are weakly fair, since
  the semaphore is held for short regions only; deadlines pass; `Wake` is fair
  only while a call waits, as `pushCb` adds the call and notifies under
  `m_mtxCbData`. The server's thread and its loop run. A method need not answer, a
  server need not start, a user need not act.
- In `event_ring`: the event thread is weakly fair as a whole (its wait is a
  `wait_for` of 50 microseconds), and so is the loop; nothing is assumed of servers, users
  and listeners. Because notifications are finite, `EventsHeard` says nothing about
  a server that notifies for ever faster than the thread drains (a hazard).
- In `lifecycle`: only the polls are weakly fair. A poll whose semaphore is stuck
  is not enabled, which is why both liveness properties except `stuck`.
- In `threads` and `join`: each thread's own steps are weakly fair - except that a
  sleeping thread has none, so that a missed notification stays missed; spurious
  wake-ups may happen and need not. A function that makes a call asks for
  `m_mtxCbData`, which the callback thread takes in every round while calls wait: its
  step is strongly fair, as a mutex that is asked for again and again is had in the
  end. Nothing makes a user call, connect or disconnect.

## 4. What the code does against its documents

- **`stale`**: call `a` times out; its closure clears the slot; `d`, of another
  client, takes the slot; the server's answer to `a` arrives, finds `Pending` and is
  given to `d`. `updateCallback` has no way to tell (CallbackSpace.h:76).
- **`silent`**: the listener of `k1` is destroyed, which frees `k1`'s id; `k2` is
  constructed and gets it; `k1`'s event thread keeps popping with it, takes `k2`'s
  event, finds the destroyed Listener's function in `m_evDataListeners` and calls
  it, where IEventClientIPC.h:18 says that destroying the Listener unsubscribes.
- **`created`**: a client asks `isShared` before the server creates the space, and
  writes its own afterwards, over the server's flag (IClientIPC.hpp:225). The server
  runs and no client ever sees it.
- **`join`**: `disconnect` clears `m_isActive` and notifies without `m_mtxCbData`
  (ClientIPC.cpp:46), after the callback thread has seen the flag set and before it
  sleeps. The join waits for a thread that nobody wakes.
- **`sizes`**: `sizeOfArgs` has no overload for vectors (Serializer.h:72), so that the
  size check passes calls whatever their vectors hold, and `serialize_with_args`
  writes them into a buffer of 512 bytes.

Two more, which the properties name as exceptions and no document speaks of:
`isShared` leaks a descriptor per call, and a process that has none left overwrites
spaces in use (`starved`) or, when the space is really missing, constructs a server without it
(`bare`); a new server that is constructed before the old one is
destroyed loses its flags to the old one's destructor (`overlapped`).

## 5. Proofs

The constants are only assumed to satisfy the named `ASSUME`s: the types of the
parameters, non-empty arrays, and `CallFits` (below). The theorems hold for any
number of clients, servers, calls, slots, ids, spaces and for any sizes.

`RequestReplyProofs`, in three layers, each inductive relative to the former:

1. `TypeInv`: `TypeOK`, and `PassInv` (only a pass has calls to visit), `ReadyInv` (a
   Ready slot has an answer), `TakerInv`. Without `ReadyInv` the type of a closure's
   data does not follow. Gives `TypeCorrect`.
2. `PlaceInv`: a call is in one place (its caller, `subs`, a closure, `abandoned`) or
   its callback has run, and has at most one closure. `AtMostOnce` is a part of it:
   `OnceOnly`. Together with it `SlotOwnership` is inductive: `SlotsOwned`. The heart
   is that a slot leaves `Pending` or `Ready` only by the call that holds it.
3. `TravelInv` and `OwnInv`: a frame on its way, or a method that may answer, belongs
   to a call that has returned; as long as nothing is disturbed, a call that can
   still get its first answer holds a `Pending` slot, hence nobody else's answer can
   be written there. Gives `OwnAnswers`.

`CallProofs` gives `InOrderOfFrames` and `NoFrameLost`. `OrderInv` follows a frame from `m_data` to
`batch`, to `posted` and to `served`: a frame is accepted once, because its caller
returns from `push`; each of the four sequences is ascending in the order of
`accepted`, and each is ahead of those a frame passes before. Lemmas about moving
the head of one sequence behind another (`MoveHead`, `DropHead`, `AppendBehind`,
`AcceptOne`) carry it over the steps. For `NothingLost`, a drain, a dispatch and a method move a
frame from the front of one sequence to the end of the one ahead of it, which changes
their concatenation at most by a frame that `Known` leaves out; `DirectInv` (a server without a
loop has posted nothing) is for the method. When a server ends, what it had becomes `lost`: by `OrderInv`
a frame is in one sequence only, so that none served before or still in the call space is lost
with it (`LostInv`), and leaving out the lost ones on both sides leaves out just those the server had.

`FilteringProofs` has what those and the thread proofs need of a filter: `Only` of an
appended element, of a concatenation, of a sequence whose head is left out, of a filtered
sequence (`OnlyTwice`), of two sets that agree on a sequence (`OnlyAgree`), and its type.
The induction is by a least counterexample (`Least`): a set of naturals that is not empty has
a least element, by the library's theorem on the ordering of the naturals; the
induction rule itself takes an operator, which the provers cannot instantiate. `Only` is
therefore a recursive function, and stands in the models where `SelectSeq` would.

`CallProofs` also gives `CallsKeepThePromise`. Under `TypeInv`, `PlaceInv` and `SlotOwnership`
each action is one of the promise or changes neither the free slots nor a fate;
`SlotOwnership` is what makes the slot that a closure clears a slot that was taken.

`EventProofs`:

1. `TypeInv`: `TypeOK`, `IdInv` (who has an id), `ViewInv`, and `RingsFilled` (the
   slots between the indices were written). Gives `EventTypeCorrect`.
2. `DeliveryInv`: an id is registered unless given back (`GivenInv`), only one client
   has an id that was never given back (`SoleInv`), and the slot in view is the one
   just behind the read index, unchanged (`BehindInv`), which is the slot `push`
   leaves unused. Gives `ViewsIntact` and `InOrder`.
3. The refinement: lemmas about `Contents` after `ringPush`, `ringPop` and `reset`
   (modular arithmetic on the indices), then one step per action of `EventQueues`.
   Gives `RingsImplementQueues`.

`HearingProofs` gives `EventsHeardInOrder`, over `TypeInv`, `DeliveryInv` and `EventsInOrder`. The tasks
of a client are one queue, `Line`, of which the loop may hold the front. `HearingInv`
says that each ring took events in the order of the notifications (`SentInv`); that what
is in view and what every task carries was popped before what comes behind it, and is
for a Listener that asked for it (`LineInv`); that what a Listener heard comes
before everything in the queue (`HeardInv`); and, so that a client whose id somebody else had
before is new in every way, that nothing is in the hands of a client that has no id
(`UnusedInv`, `LooplessInv`, `TargetInv`). `ViewIntact` makes the event that is copied the event that was popped.

`LifecycleProofs`:

1. `NoPhantomServer` is inductive together with `StartsAtFirst`: a server begins its
   destructor at the first space, so `Raised` holds of every space when it is up. A
   flag that rises has its server just advanced behind it; a flag whose server
   leaves is lowered in the same step, or is in `left`. Gives `NoPhantoms`.
2. `KeptUndisturbed` needs what holds in the middle of a constructor: a space that was
   made exists for ever, so nobody finds it missing unless it is
   `starved`; an object about to make a space that exists, or two about to
   make one, have put it in `raced` or `starved` (`LateMaker`, `TwoMakers`); the flags and
   ids of objects past a space are there (`FlagsKept`, `IdsKept`). An object may be past
   a space it did not get: whoever has a mapping, found the space, raised a flag or took an id shows that
   the space exists (`MappedExist`, `FoundExist`, `RaisedExist`, `IdsExist`), and a server that did not is
   in `bare`, of spaces behind it only (`BareBehind`). One lemma per
   action, or per group of them, shows what it keeps. Gives `NothingOverwritten`.
3. Types: `LimitInv` bounds the mappings and leaked descriptors of a process. An
   object adds one mapping and only with a descriptor left, a client keeps what its
   process has mapped already: sets of mappings are compared, and their cardinalities follow. Gives `LifecycleTypes`.
4. `SnapshotInv`: in a poll that saw all flags up so far, either they were all up at
   one moment of it, or one that is still to be read is down. Lowering a flag keeps
   this; a server that raises a flag has raised those before it (`FlagsKept`), so the
   one that raises the last flag down ahead of the poll makes all of them up; and the
   poll itself does not pass a flag that is down and find it up. At the last flag nothing
   is left ahead, so there was such a moment. Gives `ReportsWereTrue`.

`ThreadProofs` gives `ThreadTypes` and `QuietAfter`. The type of `m_cbDataSubs` after a pass is a
matter of `Only`. `QuietInv`: a thread that is not in its round of
functions has none queued or running (`IdleUnlessRun`), and `disconnect` clears the
flag first, reaches the second join only when the callback thread has ended, and
returns only when both have (`JoinedInOrder`).

`FramingProofs` gives `RefusedJustly`, `AnswersComeBack`, `ArgumentsArrive` and
`BytesParsedInFull`, for arguments and answers of any number, type and length that
`CallFramingAssumption` admits (section 6).

1. Recursion: a recursive function has a value because each step has one
   (`RecursionExists`, by a least length that has none); what it computes is shown from one
   length to the next (`Induct`). Both rest on `Least`, as `Only` does.
2. Bytes: a run of bytes (`IsRun`) put behind another disturbs neither (`BehindRun`), hence
   of any number of runs each lies at the sum of the sizes before it (`JoinedRuns`).
   `Agree(cells, at, run)` says that `run` lies in `cells` from `at` on.
3. Values: where the bytes of a scalar, a vector or the arguments of a call lie, reading
   gives the value and the place just behind it (`ScalarRead`, `VectorRead`, `TupleRead`), if every
   string is short enough for its length field. A vector's length has to pass the
   reader's guard `n <= MAX_SIZE \div sizeof(T)` (`VectorLength`). A `std::string` has 32 bytes as an
   object and may have 8 as bytes, so this takes a `MAX_CALL_SZ` of at most `ReadableSize`, 16376.
4. Frames: `FramesInOrder` splits `accepted` into the calls parsed, those whose frames lie in
   the server's copy from `i` on, and those whose frames lie in the call space; `Laid` gives every
   frame its place. A push adds a frame behind the last, a drain makes the call space
   the copy (which was read to its end), and `ParseFrame` takes the frame at `i`, passes no bound
   check early and gets to where the next frame lies. With `ArgsArrive` this is inductive
   (`FramesInv`). That a slot holds the whole answer to its call is inductive as it stands.
5. `RefusedJustly`: in 16 bits a size is never measured as more than it is (`MeasuredWritten`).

Every invariant, action property and refinement that a passing run checks is proved.
Only model-checked are the liveness properties, which are out of the prover's reach.

## 6. What the models leave out

- A region under a named semaphore is one step. That a process dies in such a region
  is modelled in `ServiceLifecycle` only; a failing `sem_open`, which turns the
  semaphore into nothing, is not modelled.
- `shm_open` fails only for lack of descriptors, `ftruncate` and `mmap` never.
- `Destroy` assumes what the code needs and does not check: no thread is inside a
  call on the object, its loop has run its closures, its Listeners are gone.
- The server thread is joined in the base class's destructor, when the derived
  object is gone already: what it does then is undefined. `ServerExit` joins first.
- `psi::comm::SafeCaller` and `psi::thread::ILoop` are external: a loop runs what it
  was given in order (events, methods) or in some order (closures of calls), and
  a guarded closure whose owner is gone does nothing.
- Subscriptions on one client are made by one thread at a time: `subscribe` checks and
  sets `m_evClientId` without a lock, in the model in one step. `getSharedMemory`
  reads a `shared_ptr` without a lock, in the model with the region before it.
- Two threads that disconnect one client at once: the second returns at once and is
  not followed further.
- Closures made by one pass run in any order in `RequestReply`; the code runs them in
  list order, so the model allows more.
- `validateCall` measures the arguments against the frame less its head and forgets
  the two bytes of the length: 497 and 498 bytes of arguments (frame of 512) pass the
  check, are written past the frame's buffer and refused by `push`. `CallFits` and
  `CallFramingAssumption` exclude these sizes, and vectors that do not fit, because
  writing past a buffer is undefined; a refused frame itself is modelled.
- `CallFramingAssumption` also bounds `MAX_CALL_SZ` by `ReadableSize` (16376 bytes; the
  library's spaces have 512): in a larger frame a vector of more than 2047 short strings
  would be taken for malformed and read as empty.
- Answers that do not fit a slot: `serialize` writes them into an array of that
  size before `updateCallback` looks at their size. Excluded likewise.
- The event size check in the ring never refuses, since the server's buffer is as
  large as a slot.
- A method that returns a value and takes a vector is none of the cases of
  MemberFnWrapper.h:106-143: nothing is put into `m_any`, and line 148 throws on the server's
  thread. That is not told from `ServerCrash`.
- What the properties except, one by one, is written in `PROJECT.json`: hazards that no
  property covers have a note instead (a self-join, nested waits, semaphores that died with a
  process, slots of destroyed clients, answers to calls without callback, among others).
- `m_callId` and error texts; vectors of vectors; `deserializeTypeVariadic`, which only
  tests use; Windows.

## 7. Plan

1. `ServiceLifecycle` with three spaces and two clients, if the state space can be
   brought down.
