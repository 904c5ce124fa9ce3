# Rotator-Bridge in TLA+

Rotator-Bridge accepts the `rotctld` protocol of gpredict and drives a surveillance
camera's pan-tilt head, the *CamPTZ*, over TCP. Everything interesting in it is
concurrency: session threads call into a controller that answers from another thread,
through a queue, a condition variable, callbacks that may outlive the caller, a
suppression scheme that calls itself back from three kinds of threads, and a keep-alive
thread beside them all. This directory models that, checks it with TLC and proves the
central results with TLAPS.

## The system

Paths are relative to the repository.

| part | state | operations | talks to |
|---|---|---|---|
| rotctld source (`src/rotators/rotctld.cpp`) | listening socket, one thread per session | accept; commands `p`, `P`, `S` | the request handler |
| pipeline (`src/cliMain.cpp`) | none | the request handler: `RequestSync` with 1000 ms; two preset commands at start-up | controller |
| `RotatorController::RequestSync` (`include/RotatorCommon.hpp`) | a response and a condition variable in the call's frame | call, callback, timeout, return | `Request` |
| CamPTZ worker (`src/rotators/CamPTZ.cpp`) | `jobQueue`, `jobEventMutex`, `jobEvent`, `threadClosing`, `threadExited`, the socket | `Start`, push and notify, `threadMain`, `Terminate` | the device |
| CamPTZ smartSink (same file) | `smartSinkSampling`, `smartSinkTargetChanged`, last targets, `lastPosChange`, four samples | `RequestImpl`: suppress, sample, judge, replay, record | worker queue, itself |
| CamPTZ keep-alive (same file) | the loop's local error | every 5 s request both last targets | `RequestSync`, smartSink's record |
| CamPTZ codec (same file) | offsets | angle to frame, frame to angle | the device |
| `ThreadsafeQueue`, `send_fixed`, `recv_fixed` (`include/RotatorCommon.hpp`) | a queue under a mutex | `push`, `pop`, `size` | |
| command line (`include/popl.hpp`, `src/cliMain.cpp`) | options, their values | parse, value, start-up | `Initialize` of source and sink |
| socket shims, `test.py` | | macros, a manual script | |

What is hard, part by part, and what makes each part correct:

- **Worker.** A notification between the test and the wait would be lost; `Terminate`
  against a worker in any place; a worker that ends while requests arrive; a device that
  closes. *Correct:* every admitted request is in one place and is answered once, in
  order, while the worker lives; nothing is answered after `Terminate`.
- **RequestSync.** Callbacks write into a frame without its mutex, the waits have no
  predicate, and a call that timed out leaves a callback with dangling references.
  *Correct:* a call ends, and returns its own response or none.
- **smartSink.** A test-and-set in two steps, flags that one chain resets under another, a
  decision on data one second old, and a chain whose own questions are suppressed.
  *Correct:* suppression ends, the requests that are not suppressed stay in order, a
  target that was suppressed is reached later, and the verdict follows the motor.
- **Keep-alive.** It reads a target and requests it later. *Correct:* the device ends at
  the last target.
- **Codec.** Wraps, rounding, signed bytes. *Correct:* the frame denotes the target and
  the angle read back is the device's.
- **Command line.** What is read past a mistake, given twice or given after `--`.
  *Correct:* of the settings before `--` the first counts, those after it are none, and a
  number that cannot be read stops the program.
- **The whole.** A position is two requests, each may be given up and still be carried
  out, and the keep-alive thread comes in between. *Correct:* the device does not rest at
  a target its commander has replaced, a query reads no target from before its session's
  latest one, and every command is replied to.
- **rotctld.** The stream is cut anywhere; descriptors are closed on many paths and handed
  out again; two commands make one position; failures are to be told apart from positions.
  *Correct:* a session replies to its commands in order and to none twice, works with its
  own descriptor, and ends.

## Modules

| module | stands for |
|---|---|
| `RotatorService` | what `RotatorController::Request` promises: refuse, answer at once, or admit and answer in order, never twice |
| `CamPTZWorker` | `Start`, the pushing part of `RequestImpl`, `threadMain`, `Terminate` |
| `RequestSync` | `RequestSync` and its callback, on top of `RotatorService` |
| `BlockingCalls` | what `RequestSync` promises to threads that call it one call after the other |
| `SmartSink` | `RequestImpl` with smartSink, the sampling chains, the keep-alive loop, with the worker as one step per job |
| `Rotctld` | listener, sessions, the descriptor table they share with the camera's socket |
| `SmartSinkSamples` | the samples of the chains, asked or faked, and the verdict on them, on top of `CamPTZCodec` |
| `CamPTZCodec` | angles to frames, replies to angles, the device as bytes see it |
| `Options` | popl's `parse` and `value` as `main` uses them |
| `Bridge` | sessions, request handler, keep-alive thread, worker and device, on top of `BlockingCalls` |
| `MCCamPTZWorker`, `MCRequestSync`, `MCSmartSink`, `MCSmartSinkSamples`, `MCRotctld`, `MCOptions`, `MCBridge` | the sets TLC puts for the constants; `MCSmartSinkSamples` has those of `CamPTZCodec`, too |
| `CamPTZWorkerProofs`, `RequestSyncProofs`, `SmartSinkProofs`, `SmartSinkSamplesProofs`, `RotctldProofs`, `CamPTZCodecProofs`, `OptionsProofs`, `BridgeProofs` | theorems and proofs about the module each is named after |

Definitions whose comment begins with "Mutant:" are not part of the model: each is a
plausible mistake in the definition that follows it, used to see that a property notices.

### CamPTZWorker

Every thread has a control point (`start`, `call[j]`, `worker`, `terminate`), and an
action is what lies between two accesses to shared state. `jobEventMutex` is explicit. A
worker in `"block"` has tested the predicate and still owns the mutex; in `"wait"` it has
released it; a notification or a spurious wakeup takes it to `"wake"`, from where it
relocks. `Connect` has two outcomes, `Send` two, `Recv` three: the reply, an error, and
the end of file that `recv_fixed` never leaves. A failed `assert` and SIGPIPE end the
process, after which nothing moves. `Request` on a controller is only possible after
`Start`, as in `cliMain`; `Terminate` is called at most once, which a join forces. The
data of a job is whether it is a command or a query, which decides whether it receives.

### RequestSync

A call is a pair of a caller and a number; `respTemp` and the condition variable live in
the frame of the caller's latest call. The callback's write and its notification are two
steps, and both go through `Hits`: while its own call runs they reach its frame;
afterwards they reach a later frame of the same stack, if it got the same address, or
nothing with a meaning here. This is undefined behaviour in the code, and the choice
covers what a build does with it in practice. The controller is `RotatorService` itself,
instantiated. `clean` is a history variable: no callback of the caller was left over when
the call began.

`BlockingCalls` is the abstraction of it that a composition can afford: the controller's
`pending` and `status`, and what each call returned. A call is given back with its own
response if there is one, else with none, or in either case with one that is `Late`:
answered behind its caller's back. That a refused call may do so too, because
`RequestSync` returns `respTemp` there, was found by checking the refinement.

### SmartSink

`RequestImpl(t)` is one state machine for all threads that run it: a session's call, the
keep-alive thread, and a chain that replays its request. Each step makes one access to
what the threads share: the target recorded last, `lastPosChange`, the flag; set the flag;
reset `smartSinkTargetChanged` and start the chain; look at the flag again; answer by
fake; compare with the target recorded last, set `smartSinkTargetChanged`, stamp
`lastPosChange`, store the target; push. A chain walks through its four questions; each is
itself a call of `RequestImpl`, so it is refused, faked or pushed. `runner` says which
thread carries the chain: the one that started it, the detached timer thread, or the
worker, which cannot serve another job meanwhile. Abstracted: the angles of the samples
(whether a replay is needed is open) and time (`recent` becomes false at any moment). The
worker serves one job per step, or is caught in `recv_fixed` for ever (`spinning`); its
inner steps are `CamPTZWorker`'s. `owed` is a history variable: the requests pushed and
not answered yet, in the order of their pushing. It is what `RotatorService` calls
`pending`; the queue itself, with the chains' questions and the keep-alive thread's
commands between the requests, is tied to it only by what the code does.

### SmartSinkSamples

What `SmartSink` leaves open: what a chain knows of the motor when it decides. A chain
sets `smartSinkSampling` before its first question, so `RequestImpl` answers its questions
itself, with a payload nobody has set (`Fake`; `Garbage` are the angles it may hold). Only
while the end of a rival chain, which had passed the test of the flag as well, has taken
the flag back does a question reach the device (`Ask`, `Answer`), through the frames and
bytes of `CamPTZCodec`, beside the requests of others and a motor that moves. All chains
share the four members of the controller (`samples`). Each sample carries two facts the
code does not have: whether the device gave it, and where the axis was. `judged` is a
history variable: the decision just made.

### Rotctld

The listener thread, one thread per session and the camera's socket share one table of
descriptors, in which the lowest free one is handed out (`Open`) and `Close` asks for no
owner, as in the operating system. A client's stream is a sequence of lines, and a line
a sequence of bytes with a newline behind them; a byte is `p`, `P`, `S` or another,
which is all the code looks at, and a run of others is as good as one. `Receive` takes
any non-empty prefix with the gpredict workaround, which may end or begin inside a line,
and up to the first newline without it; the first byte taken decides what the session
does. `gpredictBugWalkaround` is set once, to either value. A session that reads by
lines and meets the end of file is in `recv_fixed` for ever (`"spin"`). The process may
die of SIGPIPE, or because `main` returns when the listener ended. What a reply contains
is left out: it depends on the request handler only, and no step of the session depends
on it. Lines fit the buffer.

### CamPTZCodec

Angles are integers, thousandths of a degree, ten times finer than the device's own; the
rounding errors of doubles below that are left out. `Round`, `Quotient`, `Remainder` and
`Byte` do what `std::round`, `/`, `%` and the conversion to `char` do with negative
numbers. `signedChar` is the compiler's choice and is open, as are the offsets within
the ranges `CamPTZ.hpp` names. One request is under way at a time, and the motor may
move on between any two (`Move`). The device is external: it reads words big-endian and
ignores a frame with a wrong sum, so a frame it would ignore is a deadlock of the model,
and this run checks for deadlock. `aim` is a history variable: what the device was sent
to and stays at.

### Options

One action is one turn of the loop in `parse`, by the kind of argument. Texts are told
apart by what reads them: whole numbers, decimal ones, words. `Main` is what follows the
loop: help, or the values `Initialize` is called with. What follows `--` is recorded as
no option and the loop goes through it all the same, so the passing properties speak of
the arguments before `--`, and `options_dashes` of the others. Only the kinds of options
`main` registers are modelled, so `Argument::required`, attributes and INI files are
not.

### Bridge

Everything from a command to its reply, with smartSink off. A session reads a command,
makes two calls, replies; the calls are `BlockingCalls`, and `Serve` is the answer of the
controller together with its effect on the device. Angles are named by the call that asked
for them, which makes "older" and "somebody else's" visible. `Home` is the 0.0 that the
keep-alive thread repeats. A worker that fails answers the request in its hands, without
an angle, and then refuses. The commands the device gets are in the order of admission,
which `CamPTZWorker` guarantees; its motor is taken to be there at once. The sockets of
sessions, and `S`, are in `Rotctld`.

## Runs

| run | question | result |
|---|---|---|
| `worker` | type invariant, `NoLostWakeup`, `EachJobOnce`, `FailureIsLast`, `EmptyPopMeansClosing`, `LeftWorkerRefuses`, `TerminateIsFinal`, `AdmittedAnswered`, `TerminateReturnsAfterJob`, refinement of `RotatorService` | holds |
| `sync` | type invariant, `CleanCallExact`, `ForeignIsAbandoned`, `TimedCallEnds`, refinement of `BlockingCalls` | holds |
| `sink` | type invariant, `SamplingHasOwner`, `SamplingEnds`, refinement of `RotatorService` | holds |
| `sink_keepalive` | `KeepAliveRestores` | holds |
| `rotctld` | type invariant, `RepliesInOrder`, `DescriptorsIntact`, `CommandAnswered`, `SessionEnds` | holds |
| `codec` | type invariant, `DeviceGoesToTarget`, `AziReadBack`, no deadlock; the samples' type invariant, `VerdictRight` | holds |
| `options` | type invariant, `FirstSettingCounts`, `OutcomeRight` | holds |
| `bridge` | type invariant, `RestsAtLatest`, `ReadsOwnWrites`, `CommandsReplied` | holds |
| `sync_mismatch` | `ResponseMatchesRequest` | violated |
| `sink_suppress` | `SuppressesRepeatsOnly` | violated |
| `samples_stopped` | `StoppedMeansReplay` | violated |
| `options_dashes` | `OptionsEndAtDashes` | violated |

**Bounds.** `worker`: two commands and a query. Two requests race for a notification, a
third can arrive after a failure, and a query receives; more requests add only more of
the same queue, and the theorems hold for any number.

`sync`: two callers, one with and one without a timeout, two calls each (`MaxCalls`), so
that a callback can be late and meet the next call's frame; the theorems hold for any
number of calls.

`sink`: three requests, each for one angle that is not the initial target, or a query:
one request changes the target, the two others race for the flag, and the two chains
(`Chains`) can overlap, the end of one resetting the flag of the other. A second angle
would multiply the states; `sink_suppress` has it, the initial 0.0, and in
`sink_keepalive` the keep-alive thread requests it. `Room` delays requests while no chain
is left for them, so a chain can always be started. `sink_keepalive`: one request, two
chains and the keep-alive thread, on a connection that holds (`MayFail` false):
a failed one excuses the property.

`rotctld`: one client with two lines (`MaxCommands`) out of a query, a position, a stop,
one without a reply but with a letter inside, like `\dump_state`, and a query with a
second letter, cut anywhere; and a descriptor for each of listener, camera and session,
reused when one of them closes. A second session would share nothing with the first but
the table.

`codec`: azimuths on both sides of the wrap under extreme offsets, angles whose bytes
are 127, 128 and 255 apart, 360 itself and what rounds to it. The chains multiply the
states, so they have one pair of offsets to themselves (the constraint `InScope`): there
two of them, so that one can take the flag back under the other, run beside queries on a
motor at three places, two of them 2 degrees apart across north, the third 4.6 degrees
from one and 6.6 from the other; with the other offsets the requests are all there and
the chains are not. The chains are interchangeable and the run checks safety only, so it
uses their symmetry. `samples_stopped` needs one chain, and a payload that may hold two
angles.

`options`: one option of each type besides `--help`, one text of each kind, and three
arguments (`MaxArgs`), enough for an option that comes twice with anything before,
between or behind; `options_dashes` needs two.

`bridge`: a session with two commands (`MaxCommands`), so that a target can be replaced
and read, beside one round of the keep-alive thread (`MaxRounds`), which stands for any
other caller: a second session enters by the same two calls.

Deadlock checking is off but for `codec` and `samples_stopped`: callers stop calling,
and the process may abort.

**Fairness.** Every runnable thread runs, and a pending send or receive completes (weak
fairness on each thread's steps); sleeps and timeouts end. Not assumed: that anybody
calls, that the controller of `RequestSync` answers, that a wakeup is spurious, that
`Terminate` is called, that a client of `Rotctld` sends or leaves, that the device of
`Bridge` ever answers. `AdmittedAnswered` names the excuses: the worker left, is caught
in a receive, is closing, or the process is dead.

**What the violated properties show.** Each states what a comment or the repository's README
says:

- `sync_mismatch`: the response to an abandoned call is returned by the next one, as an
  azimuth for an elevation.
- `sink_suppress`: while a chain samples, queries are answered with uninitialised angles
  and new targets are dropped.
- `samples_stopped`: a chain answers its own questions with angles nobody set, and takes a
  motor at rest for a moving one.
- `options_dashes`: an option after `--` is parsed as one, though a comment in popl says
  "from here on only non opt args".

Seen on the way, without a run of their own:

- The worker. `Terminate` joins with `jobEventMutex` locked, so it and a worker that waits
  stop for ever: `TerminateReturnsAfterJob` says when it does return, and excepts this.
  One that gets past that finds the queue empty and trips `assert(job.has_value())`, which
  nothing else does (`EmptyPopMeansClosing`). `Start` stores `threadExited = false` after
  it created the thread, possibly over the `true` of one that failed to connect, which
  `LeftWorkerRefuses` excepts. Jobs in the queue of a worker that failed stay there, with
  their callbacks: `EachJobOnce` counts them as queued. The end of file makes `recv_fixed`
  an endless loop (`spin`).
- `RequestSync`. A request answered by fake is answered before its caller waits, so the
  caller waits for its whole timeout; a wait without timeout can sleep for ever or end
  spuriously, but nobody passes 0.
- smartSink. The replay of a chain is suppressed by the flag the chain itself has set; two
  sessions can both pass the test of the flag; a first request for 0.0 counts as a repeat;
  a tilt of more than 45 degrees between two samples counts as a small one. The keep-alive
  thread reads a target and requests it later, so it can take back a newer one and repeat
  the older from then on: `KeepAliveRestores` is therefore about the target last recorded,
  by whomever.
- The keep-alive thread. With smartSink off nobody records the targets, so it requests the
  initial one, 0.0 and 0.0, for ever, whatever was commanded: the target `Home` of
  `Bridge`, where `RestsAtLatest` lets an axis be.
- rotctld. With the workaround, a segment that begins inside a line is judged by its first
  byte, so a line like `\dump_state`, cut before a letter, is replied to, and the second
  of two commands in one segment is not: `RepliesInOrder` says so (`Strays`). A listener
  whose `bind` failed closes its descriptor twice, and the second time it may be the
  camera's, which is why `DescriptorsIntact` is about sessions. `rotctld::Terminate` joins
  a listener that only a failing `accept` ends. `resp.success` is not looked at, so a
  failed query is reported as a position; `ReadsOwnWrites` is about a connection that
  lasts.
- Numbers. With a signed `char` any angle with a byte above 127 is read back wrong, by
  2.56 or by 655.36 degrees (`AziReadBack` holds for the others only); the elevation read
  back is off by twice its offset, because the offset is added again where the azimuth's
  is taken off; an elevation beyond the zenith sends the device elsewhere.
- Options. A lone dash is forgotten; `main` looks at neither unknown options nor stray
  arguments, so `--rotctld-tcp-port 4000` leaves the default; the ranges of the offsets
  are not checked anywhere.

## Proofs

TLAPS proves, for every value of the constants that satisfies the modules' assumptions,
every invariant and every action property the passing runs check, and the three
refinements:

| module | theorems | for any |
|---|---|---|
| `CamPTZWorkerProofs` | `TypeCorrect`, `WakeupCorrect`, `JobsCorrect`, `FailureCorrect`, `TerminateCorrect`, `EmptyPopCorrect`, `LeftWorkerCorrect`, `WorkerImplementsService` | set of jobs |
| `RequestSyncProofs` | `SyncTypeCorrect`, `CleanCallCorrect`, `ForeignCorrect`, `SyncImplementsBlocking` | set of callers and number of calls |
| `SmartSinkProofs` | `SinkTypeCorrect`, `SamplingOwnerCorrect`, `SinkImplementsService` | number of requests and of chains alive at once |
| `SmartSinkSamplesProofs` | `SamplesTypeCorrect`, `VerdictIsRight` | set of chains, unset payloads, offsets, angles and positions in range |
| `RotctldProofs` | `SourceTypeCorrect`, `SessionDescriptorsIntact`, `SessionRepliesInOrder` | clients, lines and numbers of them, sizes of the descriptor table |
| `CamPTZCodecProofs` | `CodecTypeCorrect`, `DeviceReachesTarget`, `AzimuthReadBack` | offsets, angles and positions in range |
| `OptionsProofs` | `OptionsTypeCorrect`, `FirstSettingCorrect`, `OutcomeCorrect` | options, texts and lengths of the command line |
| `BridgeProofs` | `BridgeTypeCorrect`, `BridgeRestsAtLatest`, `SessionReadsOwnWrites` | sessions, commands and rounds of the keep-alive thread |

Each module has an inductive invariant, `IInv` (`ChainInv` in the samples' case; with
conjuncts of their own in the worker's and `RequestSync`'s cases), which TLC checked on
the runs' instances first; one lemma per conjunct says that every step preserves it, and
the theorems follow by temporal reasoning.

**Assumptions.** They are what the code or the host gives: that the kinds of threads are
different threads and sentinel values are nobody's (`Home` is not `Unset`, `None` is no
job), that offsets and angles are in the ranges the headers name, that options have one
type each and texts are of one kind each, that descriptors are finitely many numbers. TLC
evaluates them in every run. None gives the size of a set.

**The worker's argument.** `NoLostWakeup` is not inductive: that no notification falls
between test and wait depends on who owns `jobEventMutex`, and `Start` must have
happened. `IInv` adds who owns the mutex at which control point, and that between a false
test and the wait the queue is empty or somebody is on the way to notify. `EachJobOnce`
needs the job in hand to be tied to the control point, and `FailureIsLast` the local
`error` to the callback. Each conjunct has a lemma for its preservation, one step per
action; the theorems follow by temporal reasoning. The refinement maps `Push` to `Admit`
and `Callback` to `Answer`; every other step stutters, which rests on the same invariant.
The two facts about the worker's ends are inductive beside `IInv`: that a pop of an empty
queue is on its way only when closing was announced, and that nobody calls before `Start`
is over, so that its store cannot follow an answer.

**The argument for RequestSync.** The abstract queue holds each admitted call once and
exactly the pending ones; a pending call's number is at most its caller's frame; a
callback in progress belongs to an answered call. A caller that began clean can only
have its own call outstanding, so that any write that hits its frame is its own. A
foreign response can only be an earlier call, whose frame was left empty-handed or with
another call's response: an answered call answers once. For the refinement, `KeptInv`
adds that a call which goes on was accepted and that an answer never leaves its frame
empty; with `FrameContents` (a frame holds nothing, its own response or a late one) a
return is what `BlockingCalls` allows.

**The argument for smartSink.** That the flag has an owner is inductive only when chains
are known to be where they seem: the owner is a chain that waits for no answer of the
worker, and a chain moves when the worker serves its question. A chain comes to wait
only when it finds the flag reset, and then nobody need own it. `SampleInv` says that
each question in the queue is that of a chain which waits for it, and is there once;
without it a second answer could take an ended chain on from nowhere, which the type
invariant excludes too. `RecordInv` says that what is being recorded is a change of a
target, without which the recorded target would have no type, and that a chain replays
its request at its end only. For the refinement, `QueuedInv` and `AnswerInv` say that a
request in the queue was pushed, once, and is not answered, and that `suppressPushing`
is set exactly while a request that was answered by fake is being recorded, so that it
is not pushed as well; `OwedInv` that the requests owed an answer are those in the
queue, in the same order. The steps are first sorted by what they do to requests and
queue (`StepKinds`: refused, faked, pushed, answered, and what chains and keep-alive
thread do); what is answered is the head of the queue, hence of `owed`.

**The argument for the samples.** A sample the device gave is what `CamPTZCodec` decodes
of the place where the axis was (`FromDevice`), because a question on its way is the
worker's job until it is answered and the device answers with where it is. The verdict
is then arithmetic: the offsets cancel, and the code's shorter way around is the
distance on the circle (`ShorterWay`). Samples answered by fake are in the invariant
too, with nothing known of their angle; the theorem claims nothing of a verdict that
uses one.

**The argument for rotctld.** That sessions keep their descriptors is not inductive: the
listener closes one twice and the camera opens and closes beside it. `SockInv` and
`TableInv` add that there are sessions only behind a listener that owns its own
descriptor or has left its loop, so that what it closes by mistake is nobody's session,
and that a camera which lost its descriptor did so after a listener that had no
sessions. For the replies, `ByteInv` says that each byte still to come is that of a line
the client sent, and that a letter behind the first byte makes the line one with a
letter inside; `OrderInv` that the bytes come in the order of the lines, each ended
before the next begins; `ReplyInv` that the replies are increasing, but for lines with a
letter inside, and that replies and the line in hand come before all bytes that are
left; `LineInv` that reading by lines the stream is cut between lines, and each line
received is answered or in hand. Nothing is assumed about the network, nor about where
it cuts.

**The argument for the codec.** `WireInv` and `ReplyInv` say that what travels is the
frame of the job in hand and the bytes of the position, so that the theorems are
arithmetic: offset, `Wrap`, `Round` and bytes are composed, and what remains is a rounding
error and at most one full turn (`ApartFacts`). `DeviceGoesToTarget` is inductive beside
them, given that the device never points beyond the full turn (`PositionInv`).

**The argument for the options.** Each property speaks of the end of the loop in `parse`;
the invariant says the same of what was read so far: the first value is the first setting
before `n`, help was asked for before `n`, and nothing before `n` was unreadable. The loop
reads what follows `--` like the rest, so this is stronger than the properties: the first
setting of all is the first one before `--` whenever there is one there.

**The argument for the bridge.** `RestsAtLatest` speaks of rest only. What holds always
is that an axis is where the last *answered* change of its session took it
(`DeviceInv`), because a caller's calls are answered in the order in which it made them
(`OrderInv`), because the queue is in that order (`QueueInv`); at rest all calls are
answered. `ReadsOwnWrites` needs in addition that what comes back from a call is the
response to it or to one its caller made before (`CallInv`), that a good reading was
taken behind all earlier changes of its session (`PayloadInv`), and that until the
worker failed no call was refused (`CommandInv`). The abstractions meet in
`BlockingCalls`: the worker and smartSink implement `RotatorService`, `RequestSync` on
that implements `BlockingCalls`, and the actions of `Bridge` are built from those of
`BlockingCalls`.

**Model-checked only.** Liveness (`AdmittedAnswered`, `TerminateReturnsAfterJob`,
`TimedCallEnds`, `SamplingEnds`, `KeepAliveRestores`, `CommandAnswered`, `SessionEnds`,
`CommandsReplied`), which is outside the prover's reach: it would need `ENABLED` under
fairness. The four violated properties are counterexamples of TLC.

## Not modelled

- Data races on plain members (`threadExited`, `threadClosing`, the targets) beyond the
  order of accesses: each access is atomic in the models, that to a target, a `double`,
  included.
- The error of doubles, and the text of numbers (`snprintf`, `sscanf`).
- A connection that reconnects: the code never does.
- The parts of popl nobody here uses: `Value`, attributes, INI files, the printers, which
  are most of the header. The portability macros and `test.py`, which have no state.

## Plan

In order of importance; all of it is done.

1. `RotatorService`, `CamPTZWorker`: safety, liveness, refinement; theorems.
2. `RequestSync`: delivery and late callbacks; theorems.
3. `SmartSink`: suppression, chains, keep-alive.
4. `Rotctld`: listener and sessions, `p`, `P`, `S`, both ways of receiving, closing.
5. `CamPTZCodec`: angles and frames; on top of it `SmartSinkSamples`: samples and verdicts.
6. `BlockingCalls` and `Bridge`: the composition, from the command to the reply.
7. `Options`: the command line.
8. Theorems: for every module the type invariant and the safety properties its runs
   check, and the refinements of `RotatorService` and of `BlockingCalls`.
