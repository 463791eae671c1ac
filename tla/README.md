# Formal model of the QNX ATC real-time system

TLA+ modules of the three processes of this repository (`ATC/`, `Computer/`,
`Display/`), TLC runs on small instances, and TLAPS proofs for all instances.
File names below are relative to `src/` of the project they belong to.

## 1. The system

| Component | State it keeps | Operations |
|---|---|---|
| Aircraft (`ATC`, one thread each) | position, speed, arrival time | wait, ENTER_AIRSPACE, name_attach, one move and one message per second, EXIT_AIRSPACE |
| Radar (`ATC`, two threads) | `planesInAirspace`, two report buffers, `activeBufferIndex`, `wasAirspaceEmpty`, the channel, `stopThreads` | listener: register and remove; poller: copy, poll, erase, switch buffer, write; construction, shutdown |
| ATC main, AirTrafficControl | the aircraft, `allPlanesFinished`, `tick_counter` | read the file, start, join, destroy the Radar |
| Shared memory `/radar_shared_mem`, semaphore `/radar_shm_sem` | `plane_data`, `count`, `is_empty`, `timestamp` | created, cleared, written by the Radar; read by the two other processes |
| Computer System (two threads) | `timeConstraintCollisionFreq`, `running`, `listen` | read a snapshot, check all pairs, alert the Display; handle command 5; join |
| Operator Console (one thread) | `exit` | commands 0 to 5, each a blocking MsgSend |
| Communications System (one thread) | - | receive, reply, forward to the aircraft; augmented request |
| Display (two threads) | `collision_warnings`, `running` | listener: receive, reply, store; loop: read a snapshot, render |
| ATCTimer | a timer pulse | wait for the next period |

They interact by QNX messages (a `MsgSend` blocks until `MsgReply`), by channel
names that appear and vanish (`name_attach`, `name_open`, `name_detach`), by
shared memory under a named semaphore, and by variables of one process that
its threads share, some under a mutex and some not.

What is hard here: replies sent before the state they acknowledge is changed
(listener, Display listener, Communications System); an aircraft that can be
registered and not yet be reachable, or still registered and gone; a set that is
copied, polled and published in three steps; threads blocked in each other's
`MsgSend`; a snapshot written and read entry by entry by processes that start,
stop and are killed independently; a plain `int` that one thread changes while
another one loops up to it; and shutdown, where every process joins threads that
may wait for a message nobody sends.

What makes each component correct:

- Aircraft: it enters when its time has come, moves on as long as it is polled,
  reports what predicts its flight, and its leaving is known to the Radar.
- Radar: aircraft that fly are tracked; each picture is complete, has one report
  of each aircraft, is newer than the one before; the departed disappear;
  shutdown ends.
- Shared memory: readers use whole snapshots; the semaphore excludes and
  is always released; readers stop at the end.
- Computer System: the check finds what it defines as a conflict whatever the
  order of the aircraft and the changes of the constraint; alerts are sound and
  fit the message; threads end.
- Communications and console: commands are answered, reach their aircraft once
  and in order, and are in effect when their sender goes on.
- Display: what it shows is about one snapshot and never goes back; warnings
  appear and disappear with the conflict; it stops.

PROJECT.json lists every hazard at its line with the properties that cover it.

## 2. Modules

| Module | What it models |
|---|---|
| `TrafficPicture` | abstract: flights, and the pictures of them that are published |
| `Radar` | the ATC process: aircraft threads, listener, poller, main; implements `TrafficPicture` |
| `SnapshotRegister` | abstract: a register of snapshots, written and read in one step each |
| `SharedSnapshot` | shared memory and semaphore: constructor, writes, destructor, kill and restart of the writer; two readers; implements `SnapshotRegister` |
| `CollisionCheck` | `checkAxes` and `sameSpeed` as operators |
| `CollisionAlert` | extends CollisionCheck: monitor, operator thread, console, Computer's main, Display |
| `CommandQueue` | abstract: one queue of commands, each of which takes effect in one step or is dropped |
| `OperatorCommands` | console, Communications System, the Radar's poller and the aircraft: what commands and reports do; implements `CommandQueue` |
| `SafeSeparation` | extends OperatorCommands and applies CollisionCheck to its reports |
| `MCRadar`, `MCSharedSnapshot`, `MCCollisionAlert`, `MCOperatorCommands` | instances for TLC |
| `RadarProofs`, `SharedSnapshotProofs`, `CollisionCheckProofs`, `CollisionAlertProofs`, `OperatorCommandsProofs`, `SafeSeparationProofs` | theorems and proofs |

The modules meet in what one of them takes for granted and another one shows.
Radar publishes in one step, and CollisionAlert reads in one step, because
SharedSnapshot implements SnapshotRegister, for readers that have the running
Radar's semaphore. The alerts are about positions reported some moves ago:
SafeSeparation joins CollisionCheck and OperatorCommands to say what a verdict on
reports is worth for the aircraft (`ClearIsSafe`), and `PredictionPersists` in
CollisionCheckProofs what it is worth for the next check. Radar takes
an operator's command for a message that delays a poll (`ServeOther`), and
CollisionAlert for something that takes the console's time (`CommsForward`);
OperatorCommands has its effects, shows that both end, and implements
CommandQueue, in which neither of them is there.

Operators with a suffix after an underscore, commented *Seeded fault*
(`Reachable_Waiting`), are variants of the operator that follows them. No
specification uses them: each is a plausible bug that must make one property
fail, and PROJECT.json pairs them.

### Radar

A thread is a variable that says where it is; a message in flight is the place
of its blocked sender. `flight[p]` goes through `approach`, `entering` (blocked
in ENTER), `entered` (replied to, channel not yet attached), `moving`,
`receive`, `exiting`, `leaving`, `gone`, or ends in `failed`. The listener has
one step for `MsgReceive` together with `MsgReply`, and another for the change
of `planesInAirspace`, as in `Radar.cpp:108-132`. The poller copies the set,
visits it in any order, opens each channel, blocks in `MsgSend`, keeps the
reply, erases an aircraft on failure, switches the buffer and writes. A position
is abstracted to the number of moves made, which is enough to say that a report
is old. A flight may leave after any number of moves up to `MaxMoves`.
`ServeOther` stands for everything else that ends an aircraft's `MsgReceive`:
an operator's command or the pulse of a closed connection. `ListenerCall` splits
the test of `stopThreads` from the use of `Radar_channel`, which main may have
detached meanwhile; the outcomes are a killed process or a failing call.

TrafficPicture says what a reader of shared memory may rely on: aircraft fly
once, and each published picture has one report of an aircraft, newer than the
one before and not newer than its moves, and misses no flying aircraft the one
before showed. `PublishesTraffic` is that specification with the aircraft in
their update loop for `airborne` and `sharedMem` for `picture`: a write by the
poller, and the clearing at the end, are its `Publish`; attaching and moving are
`Appear` and `Fly`; all other steps of the ATC process stutter.

Left out: failures of `shm_open`, `mmap` and of the Radar's own `name_attach`;
failures of `MsgSend` to the Radar, whose channel is detached only after all
aircraft are joined; two aircraft of one ID. `name_open` is taken for a lookup
that does not block, a step before the `MsgSend`: an assumption, see section 5.
That flights end (`MaxMoves`) is an assumption too, and the properties of progress
rest on it: a position command to the place where an aircraft is gives it the
speed 0, and it then stays in the airspace for as long as it is not told to move.

### SharedSnapshot

One step per field and per entry of `plane_data`, for the writer and for each
reader; `Wait` and `Post` do nothing on `SEM_FAILED`, as in the code. A snapshot
is its number, so `Whole(s)` says that all entries copied are of the write that
the timestamp names. `CountFirst` holds the reader that reads `count` before
`timestamp` (the Display). `Crash` kills the ATC process at any step; object,
names and a held semaphore stay as they are, and the next run unlinks and
creates a new semaphore, which old readers do not see. `clean[r]` is a history
variable: the reader took the running Radar's own semaphore while the Radar was
between writes or waiting, and nothing has been cleared since.

SnapshotRegister has no fields, no semaphore and no phases of a reader: `Write`
puts a snapshot into it, `Read` gives a reader the latest one, `Lose` and `Reset`
stand for a Radar that stops, is killed or starts again. `ReadsAreAtomic` is that
specification with `LatestImage`, `LatestNumber` and `ReadImage` for its
variables. A write counts from its first field on, and a clean read from the
moment it has the semaphore: with the semaphore held, nobody can tell these from
writes and reads in one step. The destructor's start and a kill are `Lose`, which
may take the snapshot being written with it, and `clearSharedMemory`, which
disturbs the reads in progress, is `Reset`. A reader whose snapshot is not clean has none in the register,
so nothing is promised of it.

Left out: restarts of readers, a new ATC run after an orderly exit (a new
object), and the access to an object between `shm_open` and `ftruncate`.

### CollisionCheck and CollisionAlert

Positions and velocities are integers in a unit that makes
`NEGLIGIBLE_DIFFERENCE` a whole number; rounding of doubles is left out.
`checkAxes(p, q, n)` is the whole function for one value of the constraint.
CollisionAlert runs it second by second: `CheckSecond` is one turn of the loop,
and the constraint it compares with is the current one or the one last used,
which are the values a build can produce for the unsynchronised `int`
(`ComputerSystem.cpp:209` and `:283`). `alert` carries as history the snapshot
and the lowest and highest constraint in force while it was computed. More pairs
than `Capacity` lead to `overrun`, after which nothing more is said of the
Computer. `pulses` counts the pulse of the monitor's `name_close`, which the
listener receives before the next alert.

A snapshot is read in one step here; SharedSnapshot says when that is justified.
The Communications System is present only as something that takes the console's
time; OperatorCommands has the rest of it. The Computer's main stops
at `joinComms`: HandleCommunications ends only on an EXIT message and nothing
sends one.

### OperatorCommands

The Radar's poller and the Communications System reach an aircraft by the same
calls, so they are two *clients* with the same steps: `Open` (name_open), a
message that waits (`sending`), the answer or the end of the aircraft's channel
(`Receive`, `SendFails`), and `Close`. What a client sends is in `order`, what
came back in `answer`. The console blocks in `toComms`; `TakeCommand` replies to
it at once, except for a request for information, where it stays blocked in
`toAircraft` until the Communications System is done, successfully or not
(`Finish`).

An aircraft makes a move, tests the bounds, serves **one** message or pulse, and
moves again. `pulses[p]` are the disconnect pulses of closed connections, which
take a turn as a message does and arrive before the client's next message.
`Obey` is the switch over the message types: a heading replaces the velocity's
components that are not 0, a position sets the velocity to a third of the
distance, an altitude sets the position itself. Coordinates are integers, and a
third may be rounded down or up, which stands for the rounding of doubles.
`moves`, `turns` and `last` are history variables: how often an aircraft has
moved, how many messages and pulses it has served, and which command it obeyed
last, after how many of both. `TypeOK` also says that no pulse waits in a channel
that is not there (`ChannelsOK`), which is what name_detach is for.

CommandQueue is what the operator is promised. Its queue is, in the code, the
command the Communications System is working on followed by the one the console
is blocked with (`AtComms \o AtConsole`), and `Phase` forgets whether an aircraft
waits in `MsgReceive`. `CommandsQueue` is that specification: `TakeCommand` and
the messages of the poller stutter, `Receive` of a command is `Execute`, a
`name_open` or `MsgSend` that fails is `Drop`. Both fail only for an aircraft
without a channel, before its arrival or after its end, so no command to a flying
aircraft is dropped.

SafeSeparation takes the reports that the Radar, the Communications System and
the operator hold as entries of the shared memory and asks `checkAxes` about each
two of them. `ClearIsSafe` says that two aircraft found clear are not too close as
long as they have made equally many moves since, no more than `TimeConstraint`,
and obeyed no command. Velocities that `sameVelocity` takes for equal and that
are not equal are left out: `NearlyEqualVelocityShortcut` is about them.

Left out: the steps of registration (module Radar); the message types no program
sends to an aircraft (`EXIT`, `COLLISION_DETECTED`,
`CHANGE_TIME_CONSTRAINT_COLLISIONS`); failures of `ConnectAttach`; the printed
lines. In `messageAircraftAugmented`, name_close and the reply to the console are
one step. A name_open while the aircraft is on its way to `name_attach` fails, as
before its arrival.

## 3. Runs

| Run | Instance | Result |
|---|---|---|
| `radar` | 2 aircraft, 3 moves, 255 000 states | all hold |
| `radar_tracked` | 2 aircraft | `FlyingIsTracked` violated |
| `radar_enters` | 2 aircraft | `EveryAircraftEnters` violated |
| `snapshot_safety` | both readers, 2 entries, 2 writes, 2 starts, 3.75 million states | all hold |
| `snapshot_liveness` | both readers, 2 entries, 1 write, no kill, 58 000 states | all hold |
| `snapshot_without_sync` | both readers, 1 start | `SnapshotsAreWhole` violated |
| `alert_safety` | 4 snapshots of up to 3 aircraft, constraints -1, 1, 2; 976 000 states | all hold |
| `alert_liveness` | 3 snapshots, constraints 1, 2; 203 000 states | all hold |
| `alert_overrun` | 3 aircraft in conflict, room for 2 pairs | `AlertFits` violated |
| `display_stops`, `threads_joined` | as `alert_liveness` | violated |
| `operator_commands` | 2 aircraft, 2 axes, 5 orders of which 2 are given, 181 000 states | all hold |

Each property is explained where it is defined. What they show:

- **Radar.** `ReportedStaysTracked`, `OneReportPerPlane`, `PollIsComplete`,
  `EmptyWriteIsEmpty`, `NobodyLeftBehind`: once an aircraft has answered the Radar, no interleaving
  of its flight, the listener and the poller makes the pictures wrong, and the
  poller never falls silent while a departed aircraft is still shown.
  `ReportsAdvance` and `NoDropouts` relate each picture to the next one, and
  `PublishesTraffic` says that these pictures are all there is to see. A crash of
  the listener in the shutdown is possible, but `CrashIsLate`: after the last
  flight.
  `PollerUnblocked`, `ReportedFliesOn`, `DepartedIsForgotten` and
  `ShutdownCompletes` are the corresponding promises of progress.
- **Registration.** `FlyingIsTracked` fails: an aircraft polled between the reply
  to its ENTER and its `name_attach` is erased and never registered again.
  `EveryAircraftEnters` fails for an aircraft that is faster than the thread
  that attaches the Radar's channel.
- **Snapshots.** `SemaphoresExclude` and `CleanReadIsWhole` hold across kills and
  restarts, and `ReadsAreAtomic` says more: a clean reader gets a snapshot that
  was the latest one at some moment of its reading, so never an older one than
  before. `SnapshotsAreWhole`, which README.md:126 promises of all reads,
  fails for a reader that started between the creation of the object and that
  of the semaphore. `ReaderUnblocked` and `ReadersStop` hold when the ATC process
  is not killed.
- **Alerts.** `AlertsAreSound`, `ScreenAdvances` and `NoAlertOverwritten` hold
  although the constraint changes in the middle of a check and the listener
  replies before it stores. `SmallAlertsFit` says for which traffic the message is
  large enough: with room for 128 pairs, for 16 aircraft. `ConflictShown`, `AllClearShown` and
  `OperatorServed` say that warnings come and go and commands are answered.
  `AlertFits`, `DisplayStops` and `ThreadsJoined` fail in the code.
- **Commands.** `SentIsObeyed` and `CommandsInOrder` hold although the console is
  told OK, and the operator types on, before the aircraft has the command.
  `ReportsInside` holds although any altitude is accepted: the aircraft moves and
  tests its bounds before it reports. `ReportsPredict` says what a report that is
  no longer new is worth. `TargetReached` says that a position command does what
  its comment promises: the third message or pulse after it finds the aircraft at
  the target, so that each poll, request or pulse takes one move and none costs or
  adds one.
  `CommandsQueue` says as a whole what the operator may rely on, one queue whose
  commands change one aircraft each, and `ClearIsSafe` that polls, shared memory and check lose
  nothing: who was found clear stays clear for as long as the check looked ahead.
  `ConsoleServed` and `PollAnswered` say that neither the operator nor the Radar
  is held up for ever by the other's messages or by an aircraft that leaves. They
  do not say that a command has an effect: one to an aircraft that cannot be
  reached is dropped after the OK, and the code means it that way.

**Bounds.** `MaxMoves` 3 lets an aircraft be in two pictures, answered for by both
buffers, and leave by a third move, while the other one enters, leaves and is
forgotten; two aircraft are enough for one to change under the poll of the
other. Two entries are the
least for a torn copy; two writes and two starts the least for an old and a new
semaphore with data of both. The pictures of the alert runs have a pair with a
conflict later, one now and none, three aircraft (so that both loops move), and
the empty one; constraint -1 is the boundary where the loop does not run.
`MaxSnapshots` 2 and `MaxCommands` 1 let a snapshot and the constraint change in
the middle of a check. In `operator_commands` no order stops an aircraft in x, so
every flight ends and moves need no bound; the orders turn an aircraft back,
send it to a target at and one beyond the bounds, set an altitude outside them,
ask for information, and change one component of the other aircraft's velocity.
Two commands, of which the second may overtake nothing, are the least for an
order of commands, for a report made before a command and used after it, and for
a target reached with another message in between. With the separation of 2 and 3
and a `TimeConstraint` of 2, aircraft 1 on its way back and aircraft 2 are a pair
whose reported positions are clear and whose velocities bring them too close a
move later, so a verdict depends on both. The proofs do not need these bounds.

**Deadlock** is checked in the Radar runs, where the end of the process is the
action `Terminated`. The other runs turn it off: their systems stop, in the
states that the hazards describe.

**Fairness.** Every thread is weakly fair: it is scheduled by the operating
system and never waits in a loop of its own without a timer. A semaphore does
not pass over a waiting reader for ever (`SF` on `ReaderSemWait`): POSIX wakes by
priority and then by waiting time, and the holder works for a fraction of its
one-second period. A channel is served in the order of arrival, so an aircraft
does not pass over a waiting client for ever (`SF` on `Receive`), although a pulse
or the other client may be served first. Not fair are the operator, other messages to an aircraft,
further snapshots, the end of the Radar, and kills.

## 4. Proofs

All theorems hold for every value of the constants that satisfies the `ASSUME` of
the module (a set of aircraft of any size, any bounds, any orders), and every leaf
is checked by tlapm. CollisionAlertProofs uses
CollisionCheckProofs, and SafeSeparationProofs uses OperatorCommandsProofs.

- **RadarProofs.** The properties are not inductive alone. `IInv` adds where the
  threads' local variables are set (`LocalsOK`), that an aircraft is in the set
  and in a copy of it only after its ENTER was handled (`RegistrationOK`), that a
  report is of an aircraft that has attached its channel and is not newer than
  its moves (`ReportsOK`), when an aircraft may be erased (`TargetOK`), which
  buffer holds what at which point of a poll (`BuffersOK`, `VisitedOK`), and that
  what waits to be published is newer than the picture and misses no flying
  aircraft of it (`NewerOK`, `PictureOK`). The key fact for
  `ReportedStaysTracked`: an aircraft that has answered keeps its channel until
  it leaves, so no later poll of it fails while it flies. One lemma for each
  thread, then the theorems. `PublishesTrafficCorrect` is the refinement: the
  initial states map, and under `IInv` every step of each thread maps to a step
  of TrafficPicture or to a stutter; `NewerOK` and `PictureOK` are what its
  `Publish` asks for. `NobodyLeftCorrect`: each write sets
  `wasAirspaceEmpty` to whether it was made for an empty airspace, and then the
  buffer it wrote was drained (`BuffersOK`).
- **SharedSnapshotProofs.** `IInv` ties the value of each semaphore to who holds
  it, says how far a write and a copy have got, and that a clean reader sees the
  object of one write (`CleanObject`, `CleanCopy`). A killed run's semaphore
  can never be the new run's: each start has a semaphore of its own.
  `ReadsAreAtomicCorrect` is the refinement: with `IInv`, `WriteTimestamp` is the
  register's `Write`, since the semaphore leaves no clean reader in the middle of
  a copy; the steps up to `SemPost` stutter, since they end with the object whole;
  `ReaderSemWait` of a clean reader is its `Read`, since the object is whole then
  and stays as it is until the copy is done (`CleanReader`); `Use` and `ReaderStop`
  are `Drop`.
- **CollisionCheckProofs.** Symmetry, monotony in the constraint, the shortcut for
  equal velocities (the comment at `ComputerSystem.cpp:198`), and that a
  prediction persists while the aircraft fly on. `WarnedAhead` says more: a conflict
  T seconds ahead is warned of in every second until it happens. Two theorems say
  what the check does not see: `NearlyEqualVelocityShortcut` bounds the distance of
  pairs that are judged at time 0 only, `BetweenSeconds` that of pairs that are too
  close between two whole seconds.
- **CollisionAlertProofs.** `IInv` says which pairs have been judged
  (`CheckDone`), which seconds of the current pair (`CheckSeconds`), that every
  constraint used lies between the recorded ones (`CheckBounds`), and that the
  snapshots on the way to the screen are ordered (`OrderInv`). When the pair loop
  ends, all pairs are judged, hence the alert is sound (`FillCheck`).
  `SmallAlertsFitCorrect` counts: the pairs stored are pairs of the snapshot,
  in order and once each, so there are at most n(n-1)/2 of them (`PairsBounded`).
- **OperatorCommandsProofs.** `IInv` has `ReportsInside`, `ReportsPredict` and
  `SentIsObeyed` themselves and adds that the numbers of commands rise from the
  reports to the aircraft, the Communications System and the console
  (`NumbersOK`), that an aircraft that receives is inside the airspace
  (`BoundsOK`), that the rest of the way to a target is what the velocity covers
  in the rest of the three moves, but for rounding (`GoalsOK`), that an aircraft
  has moved once for each message or pulse, and once more while it waits for the
  next (`TurnsOK`), and that the Communications System sends to attached aircraft
  only (`SentOK`).
  `ReportsPredict` is inductive with these: a move adds the velocity to both
  sides, and a command changes `last`, so that older reports promise nothing.
  `TargetReached` is `GoalsOK` after three moves, which `TurnsOK` says the third
  message or pulse comes after, and the order of commands
  follows from `NumbersOK`. `CommandsQueueCorrect` is the refinement: one lemma for
  each thread that maps its steps to `Enter`, `Fly`, `Leave`, `Issue`, `TakeFirst`
  or a stutter. A command that is received is the first of the queue, because the
  Communications System takes the next one only when it has finished with the last.
- **SafeSeparationProofs.** `AgesOK`: no report is newer than its aircraft's moves.
  With `ReportsPredict` of `IInv`, the position of an aircraft is where the check
  expects it (`Foretold`), so two aircraft are too close now if and only if the
  check finds their reports in conflict at the second that is now
  (`VerdictForetells`), and that is a second it looks at.

Only model-checked: liveness, which is out of the prover's reach (`PollerUnblocked`,
`ReportedFliesOn`, `DepartedIsForgotten`, `ShutdownCompletes`, `ReaderUnblocked`,
`ReadersStop`, `ConflictShown`, `AllClearShown`, `OperatorServed`, `PollAnswered`,
`ConsoleServed`). Every other property of a passing run is a theorem. The
violations are shown by TLC's counterexamples.

## 5. Not modelled

- **ATCTimer and elapsed time.** Each wait may end at any time, so the results
  hold for all timings. What cannot be said is how many seconds something takes,
  and whether a thread that was blocked for several periods catches up on them:
  that depends on how the kernel queues timer pulses, which the code leaves open.
- **Text.** Parsing of the input file and of the operator's lines, what is
  printed, the layout of the screen. A failed request for information therefore
  only ends in an empty `shown`.
- **Code nothing calls or reaches**: `sendMessagesToComms`,
  `handleTimeConstraintChange`, `tick`, `tock`, and the cases of `EXIT`.
- **Failures the code gives up on**: `shm_open`, `ftruncate`, `mmap`,
  `ChannelCreate`, thread creation, the Radar's own `name_attach`; and a
  `MsgReceive` that fails on a channel that exists: the aircraft's thread then ends
  without name_detach and without EXIT (`Aircraft.cpp:127-130`), the loops of
  HandleCommunications (`CommunicationsSystem.cpp:37-40`) and of processMessage
  (`ComputerSystem.cpp:265-269`) break off.
- **The connect message of `name_open`.** On QNX name_open sends an `_IO_CONNECT`
  message, which the owner of the channel must receive and answer. An aircraft has
  no case for it: it answers it like an unknown message, and it takes a turn of its
  loop, and so a move, like a poll. The models leave this message out. What is
  checked counts moves and turns, not seconds or polls, and a message that changes
  nothing and takes a turn is there already (the other client's, a pulse,
  `ServeOther`); the end of the channel ends a blocked name_open as it ends a
  blocked `MsgSend`. So the outcomes are the same, but for a name_open that is
  answered by the channel's end only, which fails where the model's `MsgSend` does.
- **Numbers**: rounding of doubles (only thirds are rounded), overflow of the
  counters.

## 6. Plan

Done: the modules above with their runs and proofs, among them the three abstract
specifications (`TrafficPicture`, `SnapshotRegister`, `CommandQueue`) with their
refinements, and the drift of pairs with nearly equal velocities. What could
follow:

1. A composition of Radar, readers and alerts at the level of whole snapshots
   (`TrafficPicture` and `SnapshotRegister` in the place of Radar and
   SharedSnapshot), from an aircraft's move to the warning on the screen.
2. An abstract specification of the alert's way, as there is one of the command's.
3. ATCTimer with a bound on how late a thread runs, for statements such as "a
   conflict is shown within two periods".
