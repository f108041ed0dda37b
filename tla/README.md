# penn_daq in TLA+

penn_daq is the daemon that controls the front-end electronics of a detector.
One process holds TCP connections to up to 19 crate controllers (XL3s), to the
computer in front of the trigger system (the SBC, which speaks for the MTC/D),
to one controller (a person's terminal, `tut`) and to viewers that only watch.
The controller sends command lines; the main loop parses each one and starts a
thread for it; the thread talks to the hardware over the connections it has
locked. Some commands are tests that last hours, and two of them, `final_test`
and `ecal`, issue other commands themselves and ask the operator questions.

This directory models the parts of that program whose correctness depends on
the order in which threads, connections and packets meet. Paths below are
relative to the repository (`src/src/...` is the daemon's code).

## The system's parts

| part | state | operations | interacts with |
|---|---|---|---|
| thread pool and device locks (`utils/daq_utils.c`) | `thread_pool`, `thread_done`, `sbc_lock`, `xl3_lock` | `thread_and_lock`, `unthread_and_unlock`, `temp_unlock`, `relock`, `cleanup_threads`, `kill_all_threads` | every command handler, the main loop, the sessions |
| main loop (`core/main.c`) | fd sets, readable set, the two mutexes | one iteration of `while(1)` | everything |
| connections (`net/net.c`, `net/process_packet.c`) | `rw_xl3_fd`, `rw_sbc_fd`, `rw_cont_fd`, `rw_view_fd`, `views_connected` | `accept_connection`, `read_xl3_packet`, `read_control_command`, `read_viewer_data` | main loop; workers close and replace connections |
| XL3 requests (`xl3/xl3_rw.c`) | `command_number`, the packets in flight | `do_xl3_cmd`, `do_xl3_cmd_no_response`, `xl3_rw` | the XL3; accept |
| result buffer (`xl3/xl3_rw.c`) | `multifc_buffer`, `multifc_buffer_full` | `wait_for_multifc_results`, `wait_for_cald_test_results`, `read_xl3_queue` | the XL3 |
| MTC requests (`mtc/mtc_rw.c`, `mtc/mtc_cmds.c`) | `rw_sbc_fd` | `do_mtc_cmd`, `mtc_reg_read/write`, `sbc_control` | the SBC |
| sessions (`tests/final_test.c`, `tests/ecal.c`) | `running_final_test`, `running_ecal`, `reading_from_tut`, `final_test_cmd` | the scripts, `read_from_tut` | a second caller of `thread_and_lock` |
| hardware tests (`tests/*.c`) | registers of the MTC and the boards; `see_refl` also `running_final_test`, `reading_from_tut` | 20 tests | XL3 and MTC requests |
| crate and MTC initialisation (`crate/`, `mtc/mtc_init.c`) | hardware registers | `crate_init`, `mtc_init` | database documents |
| macros (`run_macro`) | `running_macro`, its position in the file | one line per iteration of the main loop | command dispatch |
| database (`db/`) | none in the daemon | builds and posts documents | HTTP server |
| `tut` | a client's line editor | sends lines | controller socket |

### What is hard about it

* **Locks without a mutex.** `thread_and_lock` looks at the locks, looks for a
  slot, and sets the locks; workers clear locks and slots meanwhile. The mutex
  once meant for it is commented out. This is sound while main is the only
  caller; the sessions are a second one.
* **A thread ends in several stores.** Its locks are cleared one by one and
  `thread_done` last; `cleanup_threads` acts on that flag.
* **Descriptor numbers are reused.** A broken connection may be closed by main,
  by a worker, or by `accept_connection`, and the number is in use again at once.
* **Two mutexes in two orders**, held over a `select` without a limit and over
  calls to `ssh`.
* **Answers come late.** A request that has timed out is still answered, while
  the next one waits.
* **Sessions** take the controller's input over with a flag, wait on a condition
  variable without a predicate, and have many exits. `see_refl` writes the same
  flag, and `final_test` issues it.
* **Prompts open the locks.** While any thread is in `read_from_tut`, main reads
  every XL3, locked or not (`main.c:156`, `process_packet.c:61`).

`PROJECT.json` lists each hazard at its line, with the properties that would
catch it.

## Modules

| module | models |
|---|---|
| `DeviceLocks` | the promise: a command gets all its devices at once or none; another cannot have them until it gives them back |
| `ThreadLocks` | `thread_and_lock`, the end of a worker, `temp_unlock`/`relock`, `cleanup_threads`, the connections as far as locking asks for them |
| `ThreadLocksProofs` | the inductive invariant and the safety theorems |
| `ThreadLocksRefinement` | `ThreadLocks` implements `DeviceLocks` |
| `Sessions` | `final_test` and `ecal` on top of `ThreadLocks` |
| `SessionsProofs` | its inductive invariants and theorems, for any script |
| `MainLoop` | `main`'s loop, accept, read, close, the mutexes, one worker per device |
| `MainLoopProofs` | its inductive invariant and theorems |
| `Xl3Cmd` | one thread's requests to its XL3s |
| `Xl3CmdProofs` | its inductive invariant and theorems |
| `Collector` | results that come in packets of their own after the reply: `wait_for_multifc_results`, `wait_for_cald_test_results`, the buffer for other packets' results |
| `CollectorProofs` | its inductive invariant and theorems |
| `PacketLemmas` | facts about sequences and about numbers that go round, for the proofs of `Xl3Cmd` and `Collector` |
| `Steps` | the vocabulary of commands and tests: requests, MTC register changes, buffers, locks, choices, loops; `mtc_utils`, `fec_utils`, `xl3_utils` and the posting of documents in it |
| `Commands` | the commands that are no tests, `mtc_init`, `crate_init`, `run_pedestals` and its end, as programs |
| `Tests` | the 18 hardware tests as programs |
| `Workers` | threads that run these programs: the dispatch table, the MTC, the XL3s' modes, locks, buffers |
| `WorkersProofs` | a logic for such programs, each handler of the table in it, the inductive invariant and theorems |
| `MC...` | the instances TLC checks |

Definitions that begin with a comment `Bug:` are variants of the definition
below them. No specification uses them: they are there to see that a property
fails when the code goes wrong in that way, and `PROJECT.json` says which.

### ThreadLocks

`Call(x, r)` is a handler that calls `thread_and_lock` with the devices and the
force flag of `r`. `CheckDevice` is one turn of the loops at
`daq_utils.c:251-274`, `ScanPool` and `ClaimSlot` the search for a slot,
`LockDevice` one store into `sbc_lock` or `xl3_lock`, `Spawn` the
`pthread_create` of the handler. Each of them is a step: main and a worker
interleave between any two. A worker that has done its work (`Finish`) clears
its locks device by device (`UnlockDevice`) and then sets `thread_done`
(`SetDone`). `CleanupThreads` is one pass of `cleanup_threads`, in one
step. Its three stores to a slot (`daq_utils.c:455-457`) can be taken together here:
the slot's thread has ended, and only main claims slots, later. With a
session as second caller that is no longer so, and `Sessions` takes them one by one.
A lock is 0, 1 (locked) or 2 (lent by `temp_unlock`); only 0 lets a command in.

### Sessions

A session is a worker that has given back its locks and calls
`thread_and_lock` itself. What it does is a constant, `Script`; `MCSessions`
holds short versions of the two scripts of the code with each kind of step.
`Ecal` says which of the two programs it is, and so which flag it sets and how it
gives up: `ecal` resets its flag when `crate_init` fails, `final_test` does not
(`GiveUp`). Neither always resets it: the two exits of `ecal` without a FEC document
(`ecal.c:814-825`) leave it set (`EndWithoutFec`), after which main hands every line
to a session that has ended. `Unthread` is its last `unthread_and_unlock`, after
which its cell is free for another thread.

`running_ecal` is written by ECAL alone. `running_final_test` is also written by
`see_refl`, which sets it when it starts and resets it when it ends or is told to
quit, but not when it gives up (`SeeRefl`). A request has a name, so that a thread
that runs `see_refl` is known, whoever issued it. This matters twice:

* `final_test` issues `see_refl` as its last command (`final_test.c:533`). When that
  has ended, the flag is down while the session goes on to set `xl3_lock` and post its
  documents (lines 548-558). Main accepts commands again meanwhile, and such a
  command overlaps with the session. `SettledExclusive` therefore speaks of the time
  before the session's `see_refl` has been accepted (`OwnSeeRefl`).
* A `see_refl` that main has accepted just before a `final_test` resets the flag
  while the session issues commands. Then main and the session can meet in
  `thread_and_lock`, and a prompt may wait for an answer that main treats as a
  command. Nothing in the code prevents it; the properties of a final test suppose
  that it does not happen (`SeeReflIsLast`). An ECAL is safe from it, and
  `Sessions_ecal` lets main issue `see_refl` beside one.

Main's `cleanup_threads` is three steps here (`FreeCell`, `ForgetCell`, `ResetDone`),
between which the session may find the freed cell again (`FreeCells`), claim the
slot and have its worker created, run and finish. If it finishes before `ResetDone`,
its mark is lost and its slot is never looked at again (`Lost`). `FreesOnlyDead` says
that at least no cell in use is freed; `SharedSlots` in `SessionInv` says what slots
and marks mean at each of these stores. `SlotAccounting` of `ThreadLocks` does not
hold here.

`SettledExclusive` says that what a session does next overlaps with no command on
the devices it has waited for. It is proved for every script of a final test. It fails for
`ecal`, whose first locks (`ecal.c:211`) are set without a look and cleared
again: a command that main accepted before the flag was set loses its lock.
TLC shows this when `SettledExclusive` is added to `Sessions_ecal.cfg`. And it
ends with the flag: in the interval in which any session has reset it but not yet
cleared its locks, `CommandsExclusive` fails.

Not in the module: macros, and `ecal -#`, which issues `find_noise` without having
set a flag (`ecal.c:737-762`), so that nothing keeps main out of its way. The locks
that ECAL sets or clears between its commands (lines 646 and 739) are the steps `lock`
and `unlock` of a script; the script of the run has the first of them only.

### MainLoop

The kernel's side is `sock` (closed, quiet, data, gone) and `waiting`
(listening sockets with a client). `accept` and `socket` give the lowest closed
descriptor. `mpc` is main's place in the loop, `cur` the descriptor at hand. A
handler is cut where another thread can come between: before each mutex is
taken, before and after `recv`, and between `close` and the store that forgets
the number. `StartWorker` stands for the whole of `ThreadLocks`.

`Prompt` is `read_from_tut` of whatever thread: it sets or resets
`reading_from_tut`. While it is set, main selects and reads the XL3s that workers
have locked too. `overheard` remembers that main has read one. From then on main and
a worker may both see the end of a connection and both close its number, the second
time perhaps somebody else's: `DescriptorsDistinct` is stated for as long as main has
overheard nobody, and with it the part of `LoopInv` that keeps the tables apart
(`Apart`). What holds in spite of prompts is that main selects open sockets only, and
that a prompt is the only way in: `ReadsNoBusyCrate`, a property of steps, says that main and
a worker come to be at one crate's socket only by main's read during a prompt,
never by a worker that starts or calls `relock` while main is about to read.

### Xl3Cmd

`Send` writes the packet and counts, `Select` and `ReceiveFrom` are the loop of
`do_xl3_cmd`: one packet per readable socket and turn. `readable_fdset` is
replaced by its readable part, as `select` does. Requests carry an `id` the
program cannot see, by which the properties tell a late reply from the right one.
`ReadByOthers` is main, or another thread, reading or closing a crate's connection:
one that the thread has not locked, or, while somebody prompts (`Prompts`), its own.
`RequestEnds` has two exceptions, and the model shows that both are real: main has
taken the packet that `select` had found for the thread (`overheard`), or, after two
new connections, a descriptor that `select` found readable belongs to another
crate. Either way `recv` then waits without a limit.

### Collector

One crate and its commands, one after the other; each waits for its reply
(`ReadReply`), looks through the stored results (`ScanStored`) and then takes
packets of results (`ReceiveAcks`, `CollectPoints`). A step looks at one result
(`ScanStored`, `CollectAck`), as the turns of the loops over `howmany` do. The
XL3 acknowledges and works off its queue in its own time, so the results of a
command that has timed out meet the wait of a later one. `StoredForMe` compares
with the unreduced number and `ForMe` with the reduced one, as the code does.
Every call asks for a number of its own, hence stored results are never used:
while the number is small nobody asks for theirs again, and when it has gone
round the comparison at line 176 cannot match any more. That comparison is what
keeps `ResultsAreMine` true: a variant with the missing `% 65536` takes stale
results for new ones. `NextCrate` is the index `i` shared by three loops: behind a
packet of few results the loop over crates comes back to the same crate and
calls `recv` without `select`. Main reads the crate between commands only
(`ReadByMain`): nobody prompts meanwhile. During a prompt it could take results from a
command that waits; `CaldComplete` does not hold then, since a lost point is not
missed.

### Steps, Commands, Tests, Workers

A thread function is a value: a sequence of steps, each a record whose `op` says
what it does. `Choose` is a condition on measured or typed-in data, `While` a
loop of unknown length, `ForCrates` a loop over the crates of a mask (an `Each`
step holds those that are left), `Return(p)` an early exit that does `p` and ends.
`malloc_or` is a `malloc` whose failure is an exit, `malloc_unchecked` one whose result
nobody looks at: the program goes on without the buffer. `ped_run` and `find_noise`
have the latter (`ped_run.c:134`, `find_noise.c:163`) and write through NULL when it
fails. `BuffersSound` forbids such a write, but to these two (`Unchecked`): of them it
asks only that they write to nothing they have freed, free nothing twice and leak nothing. So
each test in `Tests` reads as its C function without the arithmetic: what it asks
of which device, in which order, and what each exit undoes. `Workers` runs
them. Its jobs are names of the table with a crate, a crate mask or neither, as
the handler takes it (`InTable`, which `WorkersConstantsOK` assumes). `Start` stands
for the whole of `ThreadLocks` (all locks or none);
`LoseSbc` can replace any request to the MTC, after which nothing reaches it.
Of the MTC it keeps what decides who gets pulses: two bits of the control
register, the pedestal mask and whether the pulser runs freely; of an XL3 its
mode. `held` and `calm` are history variables.

## Runs

| run | bounds | shows |
|---|---|---|
| `ThreadLocks` | 1 crate and the SBC, 2 threads, pool of 2, one yield each | type, exclusion, lock and slot accounting, the inductive invariant; locks and slots come back; refinement of `DeviceLocks` |
| `Sessions_ecal` | 1 crate and the SBC, 3 threads, an ECAL of five steps, main issues `sbc_control` and `see_refl`, connections fail, no yields | main and the session never overlap in `thread_and_lock`; what slots, marks and cells mean at each store of main's cleanup; no cell in use is freed |
| `Sessions_live` | 1 crate and the SBC, 3 threads, a final test of five steps with its `see_refl`, main issues a command on its crate, no faults | the session is alone on what it has waited for until its `see_refl`; it comes to its end |
| `Sessions_end` (violation) | a final test of seven steps | a session's end clears another command's lock |
| `MainLoop_safety` | 1 crate, 1 viewer, 2 connection descriptors, one yield, prompts at any time | main selects open sockets only, tables do not share a descriptor until main has overheard a worker, which it does only during a prompt |
| `MainLoop_live` | 1 crate, no viewer, 3 connection descriptors, no prompts | each worker ends |
| `MainLoop_refused` (violation) | | a refused connection stops the daemon |
| `Xl3Cmd_one` | 2 crates, one of them the thread's, 4 requests, numbers modulo 3, two faults, one unasked packet, prompts at any time | the answer is the right one, a time-out is honest, a request ends |
| `Xl3Cmd_several` (violation) | both crates the thread's, no prompts | a request times out although its reply is there |
| `Workers_commands` | 2 crates; one thread runs any sequence of commands and tests, another works on the second crate | own devices only, locks and buffers come back on every path, own pulses only, no pulses left behind |
| `Workers_pedestals_end` (violation) | `run_pedestals_crate` and its end on the second crate | the crates go on reading out |
| `Collector` | 3 commands, numbers modulo 2, 2 results, 2 slots of 2 points, one unasked packet, one broken connection, crate number 2 | results are the command's own and complete, waits end |

Why these bounds are enough. Locking conflicts need two commands and a third to
take what was wrongly freed; the pool of two is full while two commands run. A
session conflicts with one ordinary command at a time on one device. In `Sessions`
there is one session, main issues nothing more once its thread has ended (what
follows is `ThreadLocks`), and a `see_refl` asks once or not at all. Two or three connection
descriptors for a controller, an XL3, the SBC and a viewer make numbers go round; with
prompts a third is beyond TLC's reach (more than eight million states), and the
theorems hold for any number. Four requests modulo 3 make packet numbers
go round, and two faults give a descriptor to another crate.
In `Collector` the third command has the number of the first again, two results
come in one packet or in two, and crate number 2 is the first whose packet of one
result is followed by a second visit. In `Workers_commands` the number of
commands is not bounded, so every command meets every state of the MTC that
another one leaves. Two crates tell a crate's own mask from others'; at most one
of a command's buffers is NULL, which is each of the code's early exits. Of the
threads one is busy with everything and the other with one command: what
two threads with programs do to each other is taking locks, and that is the
subject of `ThreadLocks`.

What `Workers_commands` leaves out: `run_pedestals_end` runs on crate number 0
only, since for any other crate `TouchesOwn` fails (see below), error
exits that the code cannot take because the function they ask always succeeds,
and time-outs of the MTC.

Where deadlock is not checked: `MainLoop` stops for good when refused
connections leave the mutex taken (`MainLoop_safety` includes them), `Xl3Cmd`
when its bounds on requests, packets and faults are used up, and `Collector`
likewise or in the `recv` without a `select`.

### Fairness

* `ThreadLocks`: every thread and the main loop run on (the scheduler is
  preemptive and no thread holds a mutex here); a command's own work ends,
  since every wait for the hardware has a time limit. The environment
  (connections made and lost) owes nothing.
* `Sessions_live`: besides, the operator answers prompts and the SBC can be
  reached. Without it the code retries for ever, and says so. A session that spins on a
  lock or for a free slot gets on if there is a moment again and again at which it could
  (strong fairness): it polls without a pause, and commands are typed. One thing
  can keep it for ever: `cleanup_threads` may lose slots to it, and `SessionEnds` excepts
  the state in which it has lost all but the session's own (`NoSlotLeft`).
* `MainLoop_live`: each thread runs on and a mutex is passed on fairly; a
  controller connects whenever none is. The last is needed: main calls `select`
  without a time limit and with both mutexes held, and it is a writable
  descriptor of the set that lets it go on. And the peer of a socket on which
  main waits in `recv` says something more in the end (an XL3 sends pings).
* `Xl3Cmd`: the thread runs on. The XL3 owes nothing, not even an answer; it
  says finitely much unasked.
* `Collector`: likewise. `WaitEnds` is about every wait but the `recv` without a
  `select`, which the code does not limit.
* `Workers` has safety properties only.

## What is proved

For every value of the constants: any numbers of crates, slots, threads,
viewers, descriptors, requests and faults, any modulus of the packet numbers,
any set of commands, any script of a session, any jobs of the dispatch table. What
a theorem supposes besides is said with it.

| component | theorem | states |
|---|---|---|
| thread pool and locks | `TypeCorrect` | `TypeOK` |
| (`ThreadLocksProofs`) | `InductiveInvariant` | `IInv`, if main is the only caller (`SingleCaller`) |
| | `MutualExclusionHolds`, `LockedIffOwnedHolds`, `SlotAccountingHolds`, `FreesOnlyFinishedHolds` | the properties of these names, likewise |
| (`ThreadLocksRefinement`) | `RefinesDeviceLocks` | every step is one of `DeviceLocks` or leaves the owners alone |
| sessions | `SessionInvHolds`, `SessionTypeCorrect` | `SessionInv`, `STypeOK`, all of this component if the session's flag is its own (`FlagIsItsOwn`) |
| (`SessionsProofs`) | `OneCallerHolds` | `OneCallerAtATime` |
| | `SessionFreesOnlyDead` | `FreesOnlyDead` |
| | `FinalTestKeepsLocks`, `SettledExclusiveHolds` | `FinalTestInv`, `SettledExclusive`, if besides the script locks only what it has waited for (`LocksWhatItSettled`: final test) |
| main loop | `LoopInvHolds`, `LoopTypeCorrect` | `LoopInv`, `TypeOK` |
| (`MainLoopProofs`) | `SelectIsSafe`, `NoTwoConnectionsShare`, `MainLeavesBusyCrates` | `SelectsOpenSockets`, `DescriptorsDistinct`, `ReadsNoBusyCrate` |
| | `OnlyRefusalsLockMainOut` | `NoSelfDeadlock`, if nobody is refused |
| XL3 requests | `ReplyInvHolds`, `Xl3TypeCorrect` | `ReplyInv`, `TypeOK` |
| (`Xl3CmdProofs`) | `AnswersAreMine` | `AnswerIsMine` |
| | `OneCrateTimesOutUnanswered` | `TimesOutOnlyUnanswered`, if the thread has one crate |
| result buffer | `CollectorInvHolds`, `CollectorTypeCorrect` | `CollectorInv`, `CTypeOK` |
| (`CollectorProofs`) | `ResultsMine`, `StoredStale`, `ErrorsReal` | `ResultsAreMine`, `StoredIsStale`, `ErrorsAreReal` |
| | `CaldCompletes` | `CaldComplete` |
| commands and tests | `HandlersSafe` | each handler runs safely by itself (`Safe`), from any state of the MTC |
| (`WorkersProofs`) | `WorkersTypesOK`, `CommandsGiveLocksBack`, `BuffersUsedSoundly`, `PulserLeftQuiet` | `WTypeOK`, `LocksComeBack`, `BuffersSound`, `PulserQuiet` |
| | `CommandsTouchTheirOwn` | `TouchesOwn`, if `run_pedestals_end` is given masks with the first crate (`PedestalsEndFirst`) |
| | `SoftGtsStayInTheirCrates` | `OwnPulses`, if not at the Penn test stand |

`FlagIsItsOwn` is true of every ECAL, and of a final test whose own `see_refl` is its last
command (as in the code) while main issues none. With these every invariant and
action property that a passing run checks is a theorem.

Each of these components has one inductive invariant, which a run checks as well
(but for that of `Workers`, which speaks of sets of configurations and is out of
TLC's reach), one lemma for each action (under it a step for each conjunct it can disturb),
and a few lemmas about what groups of actions leave alone.

**Locks.** `MutualExclusion` is not inductive: that a device is free when the
caller has looked at all locks depends on nobody else setting locks in between,
and that a slot is free on the order in which a worker clears its locks and sets
`thread_done`. `IInv` adds what the caller has already established at each of
its control states (the devices checked are unowned, the slot found is
unclaimed and its `thread_done` is 0) and what a worker still owes at each of
its own (the locks not yet cleared, the slot it came from). It has two parts.
`PoolInv` (types, slots) needs no more than that at most one caller is inside
`thread_and_lock` at a time; `LockInv` (exclusion) needs besides that nobody sets
or clears a lock without asking, which sessions do. `SingleCaller` is a
hypothesis, not an assumption of the module, so that the lemmas serve `Sessions`
too.

**Sessions.** That the two callers never meet rests on the first prompt. A
command that main has read before the session set its flag may still be inside
`thread_and_lock`; but the operator's answer reaches the session through main,
which must have left it by then, and while the flag is set main hands every line
to the session (`MainDiverts`). Hence the assumption in `SessionConstantsOK` that
a script's first step is a prompt, as both scripts' are. That the flag stays set is
`FlagStands`. For ECAL nobody else writes it. For a final test this needs
`SeeReflIsLast`: the only `see_refl` is then the session's own, and once it is
accepted the session calls `thread_and_lock` no more, so that it does not matter that
main is no longer diverted.

With one caller at a time there are still main's three stores to a slot beside the
session's search for one. `SharedSlots` has two exceptions for them: a slot may be
claimed with the mark of its last thread on it, but only the one that main is about
to reset (`MarkIsStale`), and a cell may stand in two slots, but one of them is
the one whose cell main has just freed. Main is then past the test of the mark, so
it frees nothing else before the mark is gone: hence `FreesOnlyDead`.

Exclusion needs the script: `FinalTestInv` holds until the session ends or issues its
`see_refl`, for every script that locks only devices for whose last command it has
waited. `ecal` is not such a script.

**Main loop.** `LoopInv` says where the mutexes are at each place of the loop
(`MutexesHeld`), which descriptors the sets and the tables may name
(`SetsSeparate`, `TablesInSets`: each of its own kind and open, but for the one that
main has closed and is about to forget), and that the crate main has at hand
stays unlocked (`CurAtHand`). The part called `Sound` holds in every state, the
part called `Apart` until main has read a locked XL3 during a prompt: two who close
one socket break it. `ReadsNoBusyCrate` holds in spite of that, because main holds
`socket_lock` over its pass, which `relock` takes. The exception in
`NoSelfDeadlock` is exact: without refusals the theorem, with one the run
`MainLoop_refused`.

**Packet numbers.** The program compares 16-bit numbers, the properties speak of
requests. `SentAs` gives each packet the number n its request had before it went
round and bounds `command_number - n` by the requests made since. As long as
less than `Modulus` requests are made while something of an earlier one is unread
(`MayAsk` in `Xl3Cmd` and `Collector`), two numbers that look the same are the
same (`ModDiffers` in `PacketLemmas`). The bound is sharp: one more request and a
late answer looks like the right one. The code relies on it, with 65536 for
`Modulus` and time-outs of seconds.

**Stored results.** In `CollectorInv` the results put aside have numbers below the
one that is looked for (`StoredNumbered`), since the search does not reduce its
own number. So none of them is ever taken: the proof of `ScanStoredKeeps` shows
the two branches of `wait_for_multifc_results` that take a stored result to be
dead, whatever arrives. That a read gives up only while a result is missing
(`ErrorsAreReal`) needs the order in which the XL3 sends: a result out of order
cannot come behind the last one in the same packet (`StillMissing`).

**Points of a CALD test.** Their packets carry the slot and not the place in it; the
program counts. `CaldInv` says that it counts right: the points given so far are
those of the cells before `current` (`PointsStored`), each packet of the inbox
begins where the ones before it end, the XL3 goes on behind the last of them and
an end packet comes when the last slot is full (`PointsUnderway`). Moving on to
the next slot when the present one is full is then the division of a point's
number by `num_cmds` (`PlaceOfPoints`).

**Commands and tests.** What is left of a thread's program may be any of the
unboundedly many unfoldings of its loops, so an invariant cannot list its places.
`WorkersProofs` has a small logic instead. A thread sees its own belongings (the
devices it has locked and lent, its buffers) and, while it has the SBC, the MTC.
`Legal` is what the properties ask of a step, `Does` what the step makes of this
view. `Runs(j, o, M, p, o2, M2)` says that for job `j`, from belongings `o` and any
view of `M`, the program `p` takes legal steps only, whatever its choices and however
often its loops turn, leaves `o2` and a view of `M2`, and gives everything back if it
returns early; `Ends` that it leaves nothing either way; `Safe` that a handler's
program ends so, started with what the handler has locked and any state of the MTC.
`Runs` is stated with a set of configurations that is closed under steps (`Closed`).
This is induction over a program's steps without an induction theorem, and it is
what makes the loops tractable: a rule exhibits the set. There is a rule for each
construct: sequence, choice, loop, loop over crates, early return.

Each function of `Steps` and each program of `Commands` and `Tests` then has its
lemma, composed from those of what it calls, as the C function is from its calls.
Most say that the function changes nothing its caller relies on (`Steady`), some
what they establish: `setup_pedestals` a mask of the caller's crates and a stopped
or soft pulser, the unsetting of masks an MTC without free pulses.
`HandlersSafe` sums this up for the dispatch table. `ped_run` and `find_noise` go on
when a `malloc` has failed; for them `Legal` asks less of a store, and `UncheckedEnds` is
the rule for a `malloc` whose failure nobody sees.

The invariant `WInv` says that the locks are those of the threads' devices, that no
two threads have one device, and that each thread is on its way through a program
that runs safely from what it sees now (`OnItsWay`). What others do is not in a
thread's view: they cannot take its devices, and cannot reach the MTC without the SBC's
lock (`OthersUndisturbed`). So each action keeps `WInv` by the closedness of the acting
thread's configurations, and the properties follow from `Legal` and, at the end
of a program, from `Done`.

Two theorems have a hypothesis, and neither holds without. `PedestalsEndFirst`
excludes the second disagreement below: for another mask `run_pedestals_end` changes
the mode of a crate that it has not locked, and `TouchesOwn` fails (`Legal` lets
just this step pass, so that the other theorems need no hypothesis). At the Penn test
stand `set_ped_crate_mask` sets every bit, and `OwnPulses` fails by design.

### Only model-checked

* Liveness (`LocksReleased`, `SlotsRecycled`, `SessionEnds`, `WorkersEnd`,
  `RequestEnds`, `WaitEnds`) and the liveness that `ImplementsDeviceLocks` includes:
  the proof system has no rules for fairness and ENABLED.
* The violations are single behaviours, which TLC shows.

## Where the code and its words disagree

1. `final_test.c:564`: `running_final_test = 0` comes before
   `unthread_and_unlock`, which clears locks whoever has set them. A command
   accepted in between loses its lock (`Sessions_end`).
2. `run_pedestals.c:301`: `change_mode(INIT_MODE,arg.crate,0x0,...)` names crate
   0 whatever the crates are (`Workers_pedestals_end`).
3. `net.c:162,166,176,190`: four early returns keep `main_fdset_lock`
   (`MainLoop_refused`).
4. `xl3_rw.c:42`: `select` overwrites the set the next turn waits on
   (`Xl3Cmd_several`).

Seen on the way, without a run of their own:

* `final_test.c:101` returns with `running_final_test` set when `crate_init`
  reports a missing connection; `ecal.c:241` resets its flag at the same place.
  So do ECAL's exits without a FEC document (`ecal.c:814-817`, `822-825`) and
  `see_refl`'s with too many errors (`see_refl.c:99-105`, `119-125`). The controller's
  lines go to nobody then. `Sessions` has these exits (`GiveUp`, `EndWithoutFec`,
  `SeeReflFails`).
* `see_refl.c:141,186` reset the flag of the `final_test` that has issued it, before
  `final_test.c:548-558` sets locks (see Sessions above).
* `daq_utils.c:455-457`: with a session as second caller a `thread_done` may be lost
  between the second and the third store, and with it a slot (`Lost`).
* `main.c:156`, `process_packet.c:61`: while anybody prompts, main may take a packet
  from a worker, which then waits in `recv` (`RequestEnds`), or close its connection
  beside it (`DescriptorsDistinct`).
* `ped_run.c:134-135`, `find_noise.c:163,266-267`: the results of `malloc` are not looked at.
* `ecal.c:737-762`: `ecal -#` clears locks and issues `find_noise` without having set
  `running_ecal`.
* `ecal.c:211,226`: locks are set and cleared whoever has them, "since nothing
  else should use them" (`ecal.c:149`); a command accepted before the flag was
  set still may, and the session's next one joins it.
* `xl3_rw.c:407` writes each point of a CALD test to `point_buf[0]` as well, so that
  slot 0 loses its first; `CaldComplete` leaves this cell out.
* `multifc_buffer` is never emptied and has no bound (`StoredIsStale` says what is
  in it).
* `fifo_test` frees `readout_data` on no path, and `cald_test` not the one buffer
  when the other is NULL (`Leaky` in `Workers`).
* `see_refl`'s "quit" leaves the pulser running (`LeavePulses`).
* `ttot.c:509`: the loop over channels shares its `j` with two loops in it and
  looks at the first channel only; `find_noise.c:171,314` index `slot_mask` with
  the slot instead of the crate.

## Not modelled, and why

* Parsing of command arguments, printing, logging, the documents posted to the
  database: text, without state that another part depends on.
* `db/pouch.c`, `db/json.c`: third-party code. `tut.c`: a client.
* Memory and visibility: the locks are plain integers shared without a barrier.
  The models take stores and loads of them as atomic and sequentially
  consistent, which the compiler does not promise (`while (xl3_lock[i] != 0){}`
  may even become an endless loop).
* Partial packets: `recv` is taken to return a whole packet, as the code does.
* What tests measure and compute from it: their loops have any number of turns
  and their conditions any outcome. So the models say nothing of the loops that
  may not end (`isetm` at `cmos_m_gtvalid.c:360`, `read_out_bundles` when every
  request fails).
* A time-out of `do_mtc_cmd`: the late answer would be taken by the next request.
* `load_relays`: not in the dispatch table.
* `kill_threads` and macros: see the plan.

## Plan

Done: `DeviceLocks`, `ThreadLocks` with proofs and refinement, `Sessions`,
`MainLoop`, `Xl3Cmd`, `Collector`, `Steps`, `Commands`, `Tests`, `Workers`, and the
proofs of all invariants that the runs check.

Next, in this order:

1. Pure algorithms against reference definitions: the searches of `ttot`,
   `crate_cbal`, `find_noise`, `zdisc`, the bit fields of `mtc_utils`.
2. `KillThreads`: cancellation at any point, macros beside sessions.
3. `MtcCmd`: requests to the SBC with time-outs.

Runs are few and each asks one question; when a later module needs one,
runs of a module with a small state space are merged.
