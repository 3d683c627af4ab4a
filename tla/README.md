# Remote Engine Blocker: specification

TLA+ models of the Remote Engine Blocker (REB) of this repository, with TLC
configurations that check them on small instances and TLAPS proofs that hold for
every value of the constants. Paths below are relative to the repository's root;
`PROJECT.json` maps every definition to the lines it stands for.

## 1. The system

A vehicle immobilizer and its simulation. A C program, the *server*
(`src/app/reb_server_loop.c`), holds the core; Python programs play the rest of
the vehicle and exchange CAN messages as text over a UDP hub. One of them, the
*bridge*, turns the hub's datagrams into 16-byte frames on a TCP connection to
the server.

```
 dashboard (panel, TCU, BCM)   engine ECU   fuel ECU
        \            |            /
            virtual_bus.py  (UDP)
                     |
              reb_bridge.py
                     |  TCP, 16-byte frames
   can_socket_transport > can_rx > can_codec > can_monitor
                     |
      reb_can_adapter > reb_core (state machine, security)
                     |          \ reb_persistence > state file
      reb_can_adapter > can_codec > can_tx > can_socket_transport
```

### Inventory

| Component | State it keeps | Operations | What makes it correct |
|---|---|---|---|
| State machine `reb_state_machine.c` | `RebContext` (state, automatic flag, three timestamps) | one `step` per message: inputs and context to outputs and context | goes forward from theft to lock in order, with alarms before the lock; back only by a cancel before BLOCKING or a fresh unlock |
| Command security `reb_security.c` | last accepted nonce, ring buffer of 10 nonces, attempt counter | validate a command, allow an unlock | no nonce is accepted twice until the context is reset |
| Core facade and persistence `reb_core.c`, `reb_persistence.c` | the state file | load at start, save after every step | what has been announced survives a restart |
| CAN adapter `reb_can_adapter.c` | none | received message to inputs; context and outputs to three frames | the frames say what the core decided |
| Server loop `reb_server_loop.c` | latched inputs, `now_ms`; two sockets, the started socket library | set-up of the sockets, receive, step, save, answer, tear-down; start with and without `--fresh-start` | a theft resolves, a lock and a release reach the bus; whatever was acquired is given back |
| Identifiers, frames, receive, transmit `can_ids.c`, `can_frame.c`, `can_rx.c`, `can_tx.c` | none | validate, look up, dispatch | nothing the simulator sends is refused |
| Codec `can_codec.c` | none | seven decoders, four encoders | both sides of the wire agree on the layout |
| Monitor `can_monitor.c` | last time of each message | record, ask for freshness and health | fresh means recent |
| Socket transport `can_socket_transport.c` | the socket, whether it is attached and started | start, attach, whole frames over a byte stream, detach, shut down | a partial read or write loses nothing; starts and ends of the library balance |
| Bridge `sim/bus/reb_bridge.py` | two sockets, the frames of a transaction | connect, register, one transaction per bus message | answers reach the bus once and in order |
| Virtual bus `sim/bus/virtual_bus.py` | known clients | register the sender of a datagram, pass it on to the others | who is known hears everything that is not lost |
| Dashboard and panel, TCU `sim/dashboard`, `sim/tcu` | simulated clock, two command counters, the source of the last command, the state and the alarm shown | buttons, clock ticks, display | the owner's unlock button works; what is shown is what the core decided |
| BCM, engine and fuel ECU `sim/bcm`, `sim/engine_ecu`, `sim/fuel_ecu` | what they latched | register, send an intrusion, obey a frame | the actuators do what the core decided, in the end |
| Vehicle plant, logger, `reb_rules.c`, tests, tools | | | not modelled, see section 7 |

All components except the server and its file are single-threaded loops that
share nothing; they interact by messages only. The server calls its own parts
one after the other in one thread.

### What is hard about it

* **Crashes and the file.** The file is truncated and rewritten on every message
  and every result of the writing is ignored. The process can die between
  stepping, truncating, writing and answering.
* **Clocks.** The server's clock is whatever the last tick said, is 1000 after a
  restart, and wraps; the timestamps it is compared with come from the file.
* **Numbers that are judged by history.** Two senders count independently and a
  window that moves with each accepted command judges both, over a link that
  loses messages.
* **Only messages drive it.** No timer exists: a lock or a release that the core
  has decided appears on the bus with a later message.
* **A half-aligned stream.** The bridge reads a first answer without a limit and
  the others with one; a late answer or a limit in the middle of a frame moves
  what it reads later.
* **Layouts written twice**, in Python and in C.
* **Being known.** The hub passes datagrams to addresses it has heard from. An
  ECU sends one datagram in its life and the bridge speaks only when spoken to:
  if the hub was not there, or is a new one, nobody notices.
* **Memory on the other side.** The dashboard decides about its alarm from a
  status it received and from the button it remembers, at another time than the
  core.
* **Resources on error paths.** Five calls set up the server, each may fail, and
  main and the transport start the socket library separately.

`PROJECT.json` lists each hazard at its line with the properties that cover it.

## 2. Modules

| Module | Models | State and actions |
|---|---|---|
| `RebTypes` | `reb_types.h`, `reb_config.h` | records and calibration constants; unsigned subtraction |
| `RebSecurity` | `reb_security.c` | a predicate and a resulting context for each function |
| `RebStateMachine` | `reb_state_machine.c` | one action per path of the `switch`; `Step(in)` is one call |
| `Immobilizer` | the abstract promise | idle, warned, armed, blocking, blocked, and the spent nonces |
| `RebCanAdapter` | `reb_can_adapter.c` | both conversions, messages as records |
| `RebServer` | server loop, `reb_core.c`, `reb_persistence.c`, the dashboard's clock | the loop cut where it can be interrupted: receive and step, open the file, write it, send each frame; faults as actions |
| `RebSenders` | the command counters of `tcu_module.py` and `dashboard.py` with the core | press, lose, deliver, restart of the dashboard |
| `CanStack` | payloads, frame, transport, receive, codec, transmit, monitor, ECUs | one action per source of frames: simulator, clock tick, another client |
| `ServerConnection` | `main` of the server around its loop, life cycle of `can_socket_transport.c` | one action per call that acquires or fails, the tear-down in two steps |
| `BridgeLink` | `reb_bridge.py` and the byte stream to the server | connecting, registering, bytes, partial reads and sends, the 50 ms limit, loss and stop of either side |
| `LossyChannel` | the abstract promise of the bridge | what is received is a subsequence of what is sent |
| `VirtualBus` | `virtual_bus.py` and the way programs get known to it | the hub's clients, queues, lost copies, start and restart |
| `RebNetwork` | the programs around the bus | buttons, answers, what ECUs and dashboard hold |
| `RebStateMachineProofs` | | theorems on `RebStateMachine`, and lemmas about the core that the next three cite |
| `RebServerProofs`, `RebServerTimingProofs` | | theorems on `RebServer`: types, ledger and file; the confirmation window |
| `RebSendersProofs`, `CanStackProofs` | | theorems on `RebSenders` and on `CanStack` |
| `BridgeLinkProofs`, `ServerConnectionProofs` | | theorems on `BridgeLink`: the stream of answers; what is acquired and released |
| `RebNetworkProofs` | | theorems on `RebNetwork` |
| `MC...` | | values for the constants |

`RebServer` and `RebSenders` compose the state machine with `INSTANCE` and the
adapter with `EXTENDS`; `BridgeLink` extends `ServerConnection`, `RebNetwork`
extends `VirtualBus`. `RebNetwork` stands on the two abstract specifications: its
core is `Immobilizer` and its bridge a `LossyChannel`, so that five programs fit
in one model. `RebStateMachine` implements `Immobilizer` with phase
taken from the state and the automatic flag; `RebServer` implements it again with
phase and nonces taken from the **state file**, which makes the abstract state
survive crashes. `BridgeLink` implements `LossyChannel` with the answers of the
server as what is sent, the answers on the bus as what is received and the place
of the last published answer as the position.

Names follow the code. Definitions marked *Mutant* are variants with a plausible
bug; they are used by the tests of the properties listed in `PROJECT.json` and by
nothing else. History variables (`spent`, `accepted`, `waited`, `moving`,
`announced`, `unbacked`, `restarts`, `age`, `late`, `split`, `asked`, `published`,
`missed`, `faults`) have no counterpart in the code and no action's guard reads
them, except that `restarts` and `faults` bound what may go wrong.

Abstractions worth knowing:

* speeds are counted in 1/100 km/h, so that the thresholds 0.5 and 5.0 km/h are
  integers; the adapter's division to whole km/h is kept;
* the additive checksum accepts every complete record. A short file leaves
  uninitialised memory in the record; `UninitializedRecords` are the contexts it
  may then yield, a few of them given by the configuration. Every field may have
  any value of its type's width: a state the enumeration lacks (a disjunct of
  `Handle`, the `default:` of the switch, repairs it) and a write index beyond the
  ring;
* with such an index the next accepted nonce is stored out of bounds
  (`reb_security.c:27`), at most a kilobyte behind the ring, in the stack frame of
  `main`. That is undefined behaviour, modelled as the choice `Overrun` or
  `OverrunStops`: the word hits fields behind the ring, the outputs, the latched
  speed, the clock, or ends the process. The store wraps the index, so this happens
  once for each such file;
* `RebNetwork` has no clock, speed or nonce: where the core's step depends on
  them, every outcome `Immobilizer` allows may happen, and no spent nonce is
  remembered. The hub passes a datagram on in the step that sends it, since it
  handles one at a time; delay is in the queues of bridge and dashboard. An ECU
  never sends after its start, so its queue can be read at once;
* printing is left out, and of the dashboard's labels all but the state and the
  alarm; message fields nothing
  reads are left out of the decoded records, though `CanStack` lays them out as
  bytes;
* the bus's text form is not spelled out.

## 3. Runs

Bounds are the constants of each configuration. Moduli stand for the widths of
C types: the models compute modulo them as the code does.

| Run | Question | Bounds, and why they are enough |
|---|---|---|
| `state_machine` | Is the state machine right, called with any inputs in any order? | Window 3, ring 2, nonces 0..6: three windows and twice the ring, so the ring forgets and wraps. Clock modulo 4 with a confirmation window of 2: the clock wraps during the window. Four speeds, one on each side of every threshold. |
| `server_restart` | Does the file, seen alone, keep the promise of `Immobilizer` across stops and power loss? | Nonces 0..2, clock modulo 4, window 2, four kinds of fault: stop, power loss between any two steps except truncation and write, lost ticks, a restart of the dashboard's clock. |
| `server_faults` | Does what was announced survive, whenever the file backs it, with a file that may be torn, unwritten or ignored? Do types and ledger hold? | Commands by the TCU, including STATUS_REQUEST and an unknown one; a short file yields arbitrary memory, with a foreign state or a write index beyond the ring; clock modulo 3, window 1. Stops, power loss anywhere, failing saves and fresh starts, any number of them in any order; not lost ticks and restarts of the dashboard, which `server_restart` has. |
| `server_live` | Is the confirmation window kept to the tick? Is the starter locked at rest only? Does a theft resolve, and do a lock and a release reach the bus? | Clock to 6, window 2, reported speeds on both sides of 1 km/h, a disk that may fail on each save. |
| `senders` | What can take the unlock button out of reach? | Nonces to 5, window 2: both counters can pass the window and reach the end of their range; two frames in flight; one restart of the dashboard. |
| `bridge` | Which answers reach the bus, from the start of both sides to their end? Is everything released? | Four messages, one of them ignored, three answers each, frames of three bytes: every partial read, a limit at every place, and enough messages for a late answer to be read two transactions later. Any call of the set-up may fail, either side may stop anywhere. |
| `network` | Do dashboard and ECUs hold what the core decided? | All four clients, queues of one (a longer one delays more of the same kind of message; the one answer a bridge works on is three frames as in the code), one fault: a lost copy, a program started before the hub, an ECU started again, or a new hub, at any place. The README of the repository starts the hub first; another order is counted as the fault. |
| `can_stack` | Does every message mean at both ends the same? | A byte has 128 values, which keeps a 32-bit time within TLC's integers; messages with values beyond the first byte; two ticks that meet the timeouts 500 and 1000 exactly and exceed them by one. |

Checked properties, by hazard:

* anti-replay: `SpentNoncesRejected`, `NonceSpentOnce`, `HistoryInOrder`,
  `HistoryKeepsNewest`;
* order of events: `AutomaticOnlyInTheft`, `LockIsAnnounced`,
  `ImplementsImmobilizer` (twice), `WindowHonoured`, `WindowNotOverstayed`;
* rounding and stale values: `NoLockOnTheMove` (the speed is latched from message
  to message and divided down to whole km/h; a lock is decided at a last report
  below 1 km/h only, which by that division is what the code calls 0);
* crashes: `LockSurvivesRestart`, `AnnouncedNonceStaysSpent`. The fault that breaks
  the promise is told apart by `unbacked`: the bus was told something while the
  file did not say it (a lost or torn save, an unlock accepted since, a start that
  ignores the file). Any other sequence of faults leaves both intact;
* progress: `TheftResolves`, `BlockingReachesBus`, `ReleaseReachesBus`,
  `PersistentUnlockReleases`, `KeepsServing`, `EcuConverges` (after any fault that
  leaves everybody connected, the ECUs get to the lock and to the release);
* senders: `ReachLostByWasteOnly` (unlock presses themselves never take a sender
  out of reach, even when the other sender moves the window) and
  `OutOfReachForGood`;
* the wire: `MeaningPreserved`, `EcusObey`, `OnlyStrangersRefused`,
  `ImplementsChannel`, `NoAnswerSkipped`, `TransactionComplete`;
* agreement: `ListenersAgree`, `DashboardShowsCore`;
* being known: `DeafForGood` (nothing but a new start of a program that is
  unknown to the hub brings it back);
* resources: `AllReleased`;
* the monitor: `FreshIsRecent`, `RecentIsFresh`.

Deadlock is checked except in `bridge`, where everybody has left once the
connection is gone, and `can_stack`, where a refused frame ends the server.

### Fairness

* `RebServer!FairSpec`: the process is restarted when down and goes on between
  two messages, since each call returns or, after a store out of bounds, ends the
  process (weak fairness). The dashboard sends
  ticks for ever and the vehicle keeps reporting that it stands still; both
  compete with other messages for the one connection, hence strong fairness.
  These are assumptions about the environment: the server has no timer and does
  nothing without messages.
* `RebSenders!FairSpec`: the loop takes what has arrived; the owner keeps
  pressing the two unlock buttons. Losses are not bounded, but
  `PersistentUnlockReleases` allows for a reach that was lost.
* `BridgeLink!FairSpec`: the bridge and the server keep executing. Nobody is
  required to publish, to start the bridge, and nothing is required to fail.
* `RebNetwork!FairSpec`: bridge and dashboard go on with what waits for them, and
  somebody presses the button that advances the time. The second is an assumption
  about the person at the dashboard: no program ticks by itself, and without a
  message the core does not even answer. No loss is excluded other than by
  `MaxFaults`; starting the programs is not required, `EcuConverges` speaks of the
  time they are connected.

## 4. Disagreements between documents and code

Each of these runs checks one property that states what a document or comment
says, and ends with a counterexample.

| Run | Document | Code |
|---|---|---|
| `torn_save` | `raw_requirements.md:546`: BLOCKED is re-entered after an abrupt power cut | `fopen("wb")` empties the only copy before rewriting it: a power cut while the starter is locked and the core in BLOCKED leaves no record |
| `restarted_clock` | `raw_requirements.md:246`: a 60 s window before BLOCKING | after a restart the clock is 1000 again; an intrusion taken before the first tick, or a stored timestamp ahead of the clock, ends the window at the next tick |
| `starter_cut` | `can_messages.md:336`: REB_PREVENT_START is never issued while the vehicle moves | the frame goes out in the step after the transition, whatever speed that message reports |
| `late_cancel` | `reb_types.h:96-98`: a cancel aborts the blocking sequence and returns the system to IDLE; `raw_requirements.md:393` (FR-012): abort is permitted until the first blocking actuation | the BLOCKING case reads no command, and the step that enters it commands no derating, so a cancel is ignored before anything has been actuated; at rest the very message that carries it locks |

`Immobilizer` follows the code on the last of these: its `Cancel` is enabled in
`warned` and `armed`, not in `blocking`. What is shown to implement it is
therefore not shown to obey FR-012.

Noted while reading and not made into runs: an unlock newer than all accepted ones
is refused when its counter is more than the window ahead
(`reb_security.c:72`; `OutOfReachForGood` checks what follows from it), and
`reb_security.h` speaks of some out-of-order delivery, while the window moves with
every accepted command and takes nothing older; `reb_config.h:118` says that more
than REB_MAX_INVALID_ATTEMPTS trigger a security lockout, while the counter is
incremented (twice for an invalid command, in `reb_security.c:97` and
`reb_state_machine.c:161`), wraps, and is never read; `cmd_type` 3 is STATUS_REQUEST in
`can_messages.md:231` and CANCEL in the core (`reb_can_adapter.c:20`; the
message is part of `server_faults`); the 120 s dwell before BLOCKED (FR-010) is
commented out (`reb_state_machine.c:114`); derating stays at its maximum in
BLOCKED (`reb_state_machine.c:142`, FR-011); REB_STATUS says BLOCKED one message
before REB_PREVENT_START says BLOCK (`raw_requirements.md:376`); the step that
enters BLOCKING commands no derating and none is ramped, since each step starts
from zero; the nonce of a cancel is never read although `can_messages.md:352`
wants duplicates ignored; `last_valid_nonce` returns to 0 with every release, so
the numbers of the epoch before are accepted again; unknown identifiers end the
server (`can_messages.md:365`); a remote frame with a known identifier is
decoded as eight zero bytes; after `--fresh-start` the old file stays until the
first save; a counter at 65535 makes `struct.pack` raise; the monitor is filled
and never asked, and a dashboard tick of 1000 ms makes VEHICLE_STATE and
TCU_TO_REB stale at once; an answer 50 ms late is published only with the answers
to the next message, and a limit that strikes inside a frame leaves the bridge
out of step with the stream until it is restarted; the alarm of the dashboard
follows the last button, so that an unlock press that is not accepted silences it
while the core is BLOCKING (`raw_requirements.md:446`, FR-013); a restart of the hub
cuts the bridge off for good, and with it the core (`DeafForGood`); a second
bridge waits in the listen backlog and is never served, and one that connects
just before the server gives up learns of it with its first message only;
`BCMModule.update_alerts` computes horn and lights by another rule than the
dashboard and nobody reads its result; the README names a `test_dashboard.py` that
does not exist.

## 5. Proofs

All proofs are checked by TLAPS for every value of the constants that meets the
named assumptions; TLC evaluates the assumptions in every run and checks the same
properties on the runs' instances. `PROJECT.json` names the property each theorem
states.

### The state machine

`RebStateMachineProofs` proves, for every calibration, every integer width and
every set of inputs:

| Theorem | Statement |
|---|---|
| `TypeCorrect` | every field stays within its C type |
| `RingBufferSorted` | from the write index on, the ring buffer is in order of age |
| `RingBufferCorrect` | it keeps the newest nonces |
| `NoReplayInEpoch` | a spent nonce is outside the window |
| `ReplayTestNeverDecides` | the ring buffer's test rejects nothing the window accepts: by itself it never decides |
| `FlagConfined` | the automatic flag is set in THEFT_CONFIRMED only |
| `AcceptedAtMostOnce` | no two steps of an epoch accept the same nonce |
| `NoSilentLock` | the step before the first locking step gave both alarms |
| `Refinement` | the state machine implements `Immobilizer` |

**Assumptions.** `ModuliAssumption` (widths are positive),
`CalibrationAssumption` (timeouts fit a timestamp, window and ring are not
empty), `SpeedsAssumption` and `InputsAssumption` (inputs are of their types).

**Argument.** None of the ledger properties is inductive alone. `IInv` adds
`LedgerBounded`, that every spent nonce is at most `last_valid_nonce`; by
`HistoryInOrder` the ring holds spent nonces and initial zeros only. A command
accepted by the window is then newer than everything spent and everything in the
ring; writing it at the index, which
holds the oldest entry (`WriteIndexIsOldest`), keeps the order, and what falls
out is older than what stays. `LedgerStep` reduces the thirteen actions to three
effects on the ledger (unchanged, one newer nonce, emptied), so the ring is
reasoned about once. For `NoSilentLock` the invariant has `BlockedIsAnnounced`: in
a blocked context the starter is locked already, or the step before gave both
alarms.
`Refinement` maps each action to one of `Immobilizer` or to a stutter, using
`LedgerBounded` to show that what the window accepts is fresh.

### The server and its file

`RebServerProofs` proves, for every clock, set of messages and ring buffer:

| Theorem | Statement | Faults excluded |
|---|---|---|
| `TypeCorrect` | memory, file, bus and the answer under way keep their types | none |
| `LoadedLedgerRejected` | what the running context accepted, since the file it was loaded from began, is behind its window | none |
| `LockIsDurable` | a starter the ECU was told to lock is found locked after any stop or power loss, as long as the file backs what was said | none |
| `WindowIsDurable` | on the same condition, the announced nonce stays behind the window | none |
| `DurableRefinement` | seen from the file, the server implements `Immobilizer` | `torn`, `disk`, `fresh` (`FileIsKept`) |
| `LockAtRest` | the step that locks is taken at a last report below 1 km/h | `torn`, `disk` (`SavesComplete`) |

**Assumptions.** Those of the state machine, `ServerAssumption`,
`MessagesAssumption` (the messages of the environment hold fields of their types,
no clock tick among them: the dashboard's clock is the action `Tick`) and
`RecordsAssumption` (a field of uninitialised memory that is taken for a record has
the width of its type, and nothing else is assumed of it).

**The excluded faults are needed.** The durability theorems exclude none; their
condition `~unbacked` says which promises a fault has taken back, and the run
`torn_save` shows one that is. For the refinement, a torn record is read back as
anything, with `disk` a step that was announced is taken back by the next restart,
and with `fresh` the next start discards the file; none of them is a step of
`Immobilizer`. `LockAtRest` needs complete saves because a foreign record may bring
an index beyond the ring, and a store out of bounds may change the latched speed.

**Argument.** What a step of the core does is not proved again: `CP` instantiates
`RebStateMachineProofs` on the server's context and its lemmas are cited once
`SameStep` has identified the two instances. `IInv` adds to the types that the
ledger in the **file** is behind the file's window, so that a restart, which loads
both, keeps the promise. A record of uninitialised memory may hold a state the
enumeration lacks until the next step has repaired it: `TypeOK` therefore speaks
of `MemoryStates` in memory and of `RebContext` in the file, since every step
leaves a state of the enumeration behind. For durability `SavedFirst` says that as
long as `~unbacked` the bus is never ahead of the file: what the ECU heard is in
the file already, and until the save is made only memory is ahead; an unlock,
which takes the promise back, is told apart (`Releasing`). The two durability
properties are not inductive without it. For `LockAtRest` the invariants
`SpeedLatched` (what the core compares is the last report in whole km/h, as long
as the write index is inside the ring: `InRing`) and `LocksAtRest` lead from the
report to the step. For the refinement `Committing` says that between step and
save the context in memory is one step of `Immobilizer` ahead of the file, or
none; the abstract step happens where the file is opened for the save, and a crash
before that is a stutter.

`RebServerTimingProofs` proves, for every window and pace of the clock, with a
disk that may fail and starts that may be fresh:

| Theorem | Statement |
|---|---|
| `WindowCloses` | no tick that reaches the end of the window leaves the core in THEFT_CONFIRMED |
| `WindowIsHonoured` | an automatic theft blocks after its whole window, never before |

Both assume `KeepsRunning`: no stop, no power loss, no lost tick, no restart of the
dashboard's clock. The run `restarted_clock` shows why a restart of the server has
to be excluded. `WindowKept` says that the server's clock is the dashboard's, that
the write index is inside the ring, so that no store out of bounds touches that
clock, and that the time since the theft event is the difference the code computes, in
unsigned arithmetic; between ticks the difference does not change, hence no other
message ends the window.

### The senders

`RebSendersProofs` proves, for every nonce window, width of a nonce, queue and
number of restarts:

| Theorem | Statement |
|---|---|
| `TypeCorrect` | counters, frames and context keep their ranges |
| `UnlockPressesAreFree` | an unlock press never takes a sender of a blocked vehicle out of reach; wasted presses or a loss do |
| `StrandedUntilRestart` | out of both senders' reach, the vehicle stays blocked until the dashboard is restarted |

It rests on `SendersAssumption`. The argument is `BlockedDelivery`: in a blocked
context the only message that moves the window is an unlock inside it, and it
lifts the lock. The numbers that can release a vehicle therefore stay the same
until one does. A sender is within reach by such a number ahead of its counter or
by an unlock under way that carries one; an unlock press takes a number from the
first into the second (`ReachedStep`), so it cannot cost the reach. The inductive
invariant `SInv` is that of the state machine with the ranges of counters, frames
and restarts; it also says that every frame under way is one a button can send.

### The wire

`CanStackProofs` proves, for every size of a byte, every message and answer whose
fields fit, and every timeout of the table:

| Theorem | Statement |
|---|---|
| `TypeCorrect` | clock, monitor and ECUs keep their ranges |
| `RoundTrip` | the sender's layout, the bridge's frame, the transport and the decoder compose to the identity |
| `OnlyStrangersEndTheLoop` | no message of the simulator and no answer ends the loop |
| `EcusFollow` | what engine and fuel ECU latch is what the core answered last |
| `FreshnessIsReal`, `RecentIsSeen` | fresh means recent, and recent (ticks excepted) means fresh |

**Assumptions.** `CanAssumption` (a byte holds a percentage, the clock fits four
bytes), `MeantAssumption` (the fields fit the bytes the sender has for them:
Python raises otherwise), `AnsweredAssumption` (what `RebServer` proves of the
outputs) and `OtherFramesAssumption` (no accepted clock tick from another
client). `TwoBytes` and `FourBytes` prove the arithmetic of little-endian numbers
once, from the uniqueness of quotient and remainder; each message is then
followed through its own layout. `MonitorKeepsAge` says that what the monitor has
recorded is the age of the message, and for the message that moves the clock at
least that, since it is recorded with the clock before it moves.

`BridgeLinkProofs` proves, for every frame size, number of answers to a message,
capacity and set of faults, under `BridgeAssumption`:

| Theorem | Statement |
|---|---|
| `TypeCorrect` | queues, frames and unfinished frames keep their sizes |
| `NothingSkipped` | as long as no limit strikes inside a frame, the published answers are the first of those due |
| `TransactionsComplete` | as long as no limit strikes before the server has answered, a transaction ends with every answer published |
| `ChannelRefinement` | bridge, byte stream and server implement `LossyChannel` |

**Argument.** What was asked determines the whole stream of answers, also the bytes
not sent yet. `Flow` names three places: how many bytes are behind the bridge
(`read`), how many of those are published or dropped (`done`), how many messages
the server has handled (`handled`). Its parts say that frames in hand, the
unfinished frame, the bytes on the connection and the unsent ones are consecutive
pieces of that stream from `done` on (`Holding`, `Answering`), and the same for the
questions (`Asking`). The pieces need not begin where a frame does: after a limit
inside a frame they do not, and `FrameRead` shows that sixteen bytes are then no
frame of the server or exactly one that is due. `ChannelRefinement` follows since
`done` only grows, so the place of what is published does, too. The places inside a
stream are quotients and remainders by the frame size, a constant of unknown
value; `Place`, `NextBlock` and `Monotone` hold that arithmetic.

`ServerConnectionProofs` proves `EverythingReleased` for every behaviour of
bridge, bus and faults; its invariant lists what is held at each step of `main`.

### The network

`RebNetworkProofs` proves, for every queue capacity, number of faults and choice
of buttons:

| Theorem | Statement |
|---|---|
| `TypeCorrect` | no socket holds more than its capacity, the bridge holds at most one answer, only running modules are known |
| `CutOffForGood` | a bridge or ECU unknown to the hub comes back by its own start only |
| `EcusAgree` | an ECU that got the latest frame of its kind holds what the server last answered |
| `DashboardAgrees` | with nothing under way, the dashboard shows the core's state and the alarm that is due |

It rests on `BusAssumption` and `NetworkAssumption`. The typing invariant `Shape`
says what may lie in each queue and that the unpublished answer is a tail of
status, derating, lock, its status naming the core's present state. `EcuInv` drops
"running" from `ListenersAgree` and adds that an ECU not yet started holds what it
will start with, which a first start needs. `DashboardShowsCore` speaks of an
empty network only and is not inductive: `DisplayInv` says of every state that the
last status waiting (or, if none waits, the one shown) is the core's, unless a
newer one is still among the answers, and compares the alarm once the command that
may change it has left the bridge's queue.

**Model-checked only.** Liveness, and all that needs fairness or ENABLED, is out of
the prover's reach: `TheftResolves`, `BlockingReachesBus`, `ReleaseReachesBus`,
`PersistentUnlockReleases`, `KeepsServing`, `EcuConverges`. Every other property of a
passing run is stated by a theorem.

## 6. Plan

Done: types and security, state machine, abstract immobilizer, adapter, server
with persistence and faults, server connection, senders, bridge and abstract
channel, CAN stack, virtual bus and network; a theorem for every safety
invariant, action property and refinement that a passing run checks.

Next, in this order:

1. The steps of the liveness properties that need no fairness: that the clock's
   distance to the end of the window never grows (`TheftResolves`), and that an
   unlock in reach at the head of the queue releases
   (`PersistentUnlockReleases`).
2. `VirtualBus` on its own: who is known hears everything that is not lost.

## 7. Not modelled

* `vehicle_plant.py` reads `self.speed_kmh`, which it never sets; the models let
  the vehicle report any speed instead.
* `reb_logger.c` prints, `reb_rules.c` is never called, `can_frame_set_data` and
  the encoder of REB_GPS_REQUEST have no caller in the server.
* The hub's echo to the dashboard, which sets the gauge to what it shows already
  (and makes its SEND button repeat an older speed if it comes late); the labels
  that repeat a frame; the buttons that test horn and lights and disturb the
  alarm until the next status; the scripted demonstration, which presses the
  modelled buttons in a fixed order. The jump buttons are ticks of 70 s and
  200 s, covered by arbitrary `TickDeltas`.
* `RebServer` composed with `BridgeLink` in one run: crash points times byte
  positions is beyond TLC here. Each is checked alone, `RebServer` against a
  client that may send any message and vanish at any time, and the composition
  is made on their abstract specifications in `RebNetwork`.
* The concrete checksum and byte layout of the state file.
* Tests and tools, which were read for what they say about the code.
