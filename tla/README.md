# mcpfz-probe in TLA+

`mcpfz-probe` watches an MCP server while a fuzzer calls its tools. A BPF program
pushes the syscalls of every process into a ring buffer, a Rust sidecar reads the
ring, filters it by process group and attributes each event to the tool call that is
active, and a Python monitor inside the fuzzer turns the sidecar's NDJSON into one
summary per call. This directory models the part of that which is hard to test: who
attributes what to which call when the kernel, two threads of the sidecar, two pipes,
a reader thread and callers with timeouts run at the same time; and what becomes of one
syscall on its way to a finding of the policy engine.

Paths below: `ebpf.rs`, `fake.rs` and `main.rs` are in `crates/mcpfz-probe/src/`,
"the BPF program" is `crates/mcpfz-probe-ebpf/src/main.rs`, `monitor.py` and
`policy.py` are in `src/mcpfz_probe/`.

## Inventory

| Component | State | Operations | What is hard | What makes it correct |
|---|---|---|---|---|
| BPF program | ring buffer `EVENTS`, 256 KiB | nine tracepoints: reserve, fill, submit | runs on every CPU; a record is reserved before and submitted after others; full ring | order of the ring kept, nothing read before submit; losses visible |
| eBPF backend, control thread | `State` under a mutex, shutdown flag | scope, mark begin, mark end, shutdown | changes `State` while the main loop is in the middle of a record or a pass; writes stdout too | begin confirmed once in force; end only queued |
| eBPF backend, main loop | batch counter, pgid cache, snapshot per record | passes: drain, filter, decode, write, apply ends, poll | end marks against the drain; batch limit; stale group; shutdown in a pass | attribution; end is final; no starvation |
| Fake backend | script, `active_call`, `active_tool` | on_start, handle_line, fire | overlapping calls; order of status and events; a failed write | same promises as the eBPF backend; exact replay |
| Command line (`main.rs`) | none | parse_args, run, run_fake, exit codes | repeated options, values that look like options, help after an error | what was given is what runs; success means that nothing was left unanswered |
| Runtime monitor | process, two dictionaries of signals, events by call, ambient events, drop count | start, stop, set_scope_pgid, begin_call, end_call, reader thread | lost wake-up; timeout against late answer; SIGTERM against shutdown; late events of a call nobody waits for; a sidecar that crashes; a reader that dies; start() after stop() over the old dictionaries | an answered summary is complete; events stay until they are handed over |
| FakeRuntimeMonitor | active call, events by call, ambient events | start, record, begin_call, end_call | scripted events that name a call or not; a second start() | keeps the same book as the monitor |
| Event decoding | none (pure) | decode, flags_to_string, fmt_addr | two bits of the flags are a number, the others bits; strings unreadable or cut, addresses read in part | no write is hidden, none invented |
| Policy engine | none (pure) | evaluate_events | flags as names; paths resolved later and elsewhere than they were used | a finding is what the syscall deserves |
| Build script, examples | none | | | |

Interaction: the monitor writes control lines to the sidecar's stdin; the sidecar
writes events and status lines to its stdout, from two threads behind one lock; the
ring is shared by the kernel and the main loop; `State` and the shutdown flag are
shared by the sidecar's threads; signals and dictionaries by the monitor's callers and
its reader thread.

The hazards this gives rise to, each at its line, are the `hazards` of `PROJECT.json`.

## Modules

| Module | Models |
|---|---|
| `SidecarProtocol` | control messages and stdout lines |
| `CallLedger` | abstract specification: what a backend promises to the reader of its stdout |
| `KernelRing` | the ring buffer and the tracepoints (operators, no `Next`) |
| `EbpfSidecar` | `run()` of `ebpf.rs`: both threads (operators, no `Next`) |
| `EbpfSession` | `EbpfSidecar` with the loosest client and kernel; its properties |
| `MCEbpfSession` | instances for TLC |
| `EbpfClaims` | statements of comments and documents that the code does not keep |
| `EbpfSidecarProofs` | lemmas about the steps of the sidecar's two threads, used by the proofs about the session and about the whole probe |
| `EbpfSessionProofs`, `EbpfWindowProofs` | theorems about `EbpfSession`: types, filter, passes and ledger; end marks, scope and windows |
| `MonitorBook` | abstract specification: what a monitor promises the fuzzer |
| `SidecarMonitor` | `SidecarRuntimeMonitor` of `monitor.py` (operators, no `Next`) |
| `ProbeSystem`, `MCProbeSystem` | monitor, pipes, sidecar and kernel together, with faults and restarts |
| `ProbeProofs`, `ProbeSummaryProofs`, `ProbeWindowProofs` | theorems about `ProbeSystem`: types and book; answered summaries and marks; the window of a call |
| `FakeBackend` | `fake.rs` with a client that may overlap calls |
| `FakeProcess`, `MCFakeBackend` | `main.rs` around it: command line, events file, exit code |
| `FakeProofs` | theorems about `FakeBackend`, and about it inside `FakeProcess` |
| `EventRules` | what a tracepoint may read, `decode`, `policy.py`, and the kernel's meaning of the arguments (pure) |
| `FakeMonitor` | `FakeRuntimeMonitor` of `monitor.py` (operators, no `Next`) |
| `RuntimeFindings`, `MCRuntimeFindings` | from a syscall to a finding: `EventRules` and `FakeMonitor` with a server that moves |
| `FindingsProofs` | theorems about `RuntimeFindings` |

```
SidecarProtocol <- KernelRing <- EbpfSidecar <- EbpfSession <- MCEbpfSession <- EbpfClaims
       ^                              ^             |  INSTANCE CallLedger
       |                              +---- ProbeSystem <- MCProbeSystem
       +---- SidecarMonitor <---------------+   INSTANCE MonitorBook
       +---- FakeBackend <- FakeProcess <- MCFakeBackend   (INSTANCE CallLedger)

EventRules, FakeMonitor <- RuntimeFindings <- MCRuntimeFindings   (INSTANCE MonitorBook)

EbpfSidecar <- EbpfSidecarProofs <- EbpfSessionProofs <- EbpfWindowProofs
                        ^
                        +---- ProbeProofs <- ProbeSummaryProofs <- ProbeWindowProofs
```

Operators that no specification uses and whose comment begins with "Mutant" are
plausible bugs, kept next to the definition they would replace; each breaks a property.

### How state and actions correspond to the code

*Ring.* `ring` is the sequence of reserved records. A record keeps its place from
`reserve` to the drop of the `RingBufItem`; `ready` says that it was submitted, and
`HasNext` (`RingBuf::next`) only looks at the first one. What a tracepoint copies is
reduced to the process and to `usable`, whether `decode` accepts the record.

*Sidecar.* `active_call`, `scope_pgid`, `scoped`, `pending_ends` are the fields of
`State`. A step is one lock of `State`, one locked line on stdout, one look at the ring
or `/proc`: what happens in between is private to a thread. So a scope or begin is two
steps of the control thread (`ReadScope`/`ReadBegin`, then `WriteStatus`), an end is one
(`ReadEnd`, which queues it). A pass of the main loop is `BeginPass`; for each record
`NextRecord` (take it and copy the attribution under the lock), `KeepRecord` or
`SkipRecord` (filter through the cache, decode) and `WriteEvent`; `EndDrain`, `TakeEnds`,
for each end `ApplyEnd` and `WriteEnd`, and `NextPass`. The poll of at most 200 ms has
no effect of its own: the loop goes on whether or not it was woken. Leaving the loop
(`ExitLoop`) includes joining the control thread, which has ended by then.

*Monitor.* A step is one critical section of `_lock`, with the write or wait next to it.
`process` is `_process` with the stages of `stop()`. When the sidecar is gone or the
monitor is stopped, `_send` raises: the caller's `pc` becomes `failed`, and whatever it
registered stays. `start()` after `stop()` (`Restart`) makes a new process and a new reader
and leaves the dictionaries alone.

*Faults.* `Fault` counts against `MaxFaults`: a wait that times out, a crash of the sidecar,
a failed write to the raw event file (no handler in `_read_stdout` catches it, the thread
ends), and a join of the reader that times out because lines are left in the pipe. When the
process is gone (`SidecarGone`) its `State`, its ring and its stdin are gone with it; what
it wrote before stays in the pipe for the reader.

*Fake backend.* One thread; a step reads a line or writes one. Any write can fail
(`WriteFails`), which ends `run()`. `FakeProcess` starts it from a command line: a *setting*
is an option with its value or a single word; the parser (`ParseOption`, `ParseFlag`) sees
only the flattened words, the properties compare with the settings. `CommandLineAssumption`
makes the two say the same: an option takes the word behind it, whatever it looks like, so a
setting that is an option's word alone ends the line. Every sequence of nonempty words is cut
in exactly one such way.

*From syscall to finding.* The tracepoint makes one of the `Records` of a syscall: `Syscall(s, r)`
takes any. `Captured` says which names can be in it: the path itself, nothing (unreadable, or not
UTF-8), or any other, since a path of more than 255 bytes becomes its prefix (`lib.rs:10`, BPF
program 67 and 169), the host or port of an address stays 0 when its read fails (104-113), and another
thread may write the buffer before the kernel reads it. An argument that cannot be read is 0 (166). A
prefix is a name by where it leads, so a relative path that is cut is any name too. A path is reduced to a class: allowed, outside, secret (outside
and matching a sensitive pattern), the server's link, a path through the link, a relative
path. The integer of `open(2)` is the set of its bits, `flags_to_string` a set of names.
`Touched`, `CanModify` and `AsksToModify` say what the kernel does with the arguments and
are what the rules are judged by. A step of `RuntimeFindings` is a syscall (decoded and given to
`record`), a call of the monitor, an evaluation, or a move of the server: `Relink` and
`Chdir` are not traced. `FakeRuntimeMonitor` stands here for either monitor, since both keep
the `MonitorBook`.

*History variables* never feed back into an action of the code (`sent` bounds the client): `tag` (the calls open while a record
was captured), `owed` (records of the ring a pass still has to take out), `seen` (groups
a process was in during the pass), `sent`, `summary[c].answered`, `lost`, `mine` (calls begun with
the present sidecar process), `reported` (events the sidecar wrote for each call), `given`
(the settings of a command line), `did` (the syscall behind an event, and the record of it).

## Properties and runs

`EbpfSession` never reads stdout, so that stdout is the complete history and a property
can speak of the order of any two lines.

| Run | Question | Properties |
|---|---|---|
| `EbpfSerial` | one call at a time, as the fuzzer serializes them | `EndNamesItsMark`, `OpenWindowKept`, `OneLateStartup`, `PassCoversItsStart` |
| `EbpfOverlap` | any order of marks, and shutdown | `NoEventAfterEnd`, `EveryEndOnce`, `KeepsLedger` |
| `EbpfScoped` | the filter against processes that exit, appear, move; odd control lines | `TypeOK`, `FilteredByThisPass` |
| `EbpfBusyHost` | out-of-scope records for ever | `BeginConfirmed`, `EndAnswered`, `ShutdownStops` |
| `ProbeTimeouts` | the whole probe: timeouts, crashes, a reader that dies, stop() and restart | `AnsweredSummaryComplete`, `AnsweredHasAll`, `AnsweredWindowKept`, `BeginAnswerComing`, `EndAnswerComing`, `KeepsBook` |
| `ProbeLive` | the whole probe, no timeouts, a ring that overflows | `TypeOK`, `CallsReturn` |
| `Fake` | the fake backend from command line to exit code, overlapping calls | `TypeOK`, `ReplayedExactly`, `ParsedAsGiven`, `SuccessMeansAnswered`, `KeepsLedger` |
| `Findings` | from a syscall to a finding, whatever was read of it, while the server moves | `NothingMissed`, `NothingInvented`, `KeepsBook` |

What they show, in words:

* **An end status is the last word on a call** (`NoEventAfterEnd`), whatever the order
  of marks. `monitor.py:147-149` relies on it; with the monitor it gives
  `AnsweredSummaryComplete`: when `end_call` returns because its signal was set, no event
  of the call is in the pipe, in the dictionary or about to be written. This holds with
  timeouts too, and during `stop()`. With `AnsweredHasAll` it holds *all* of them: as many as
  the sidecar wrote for the call, though the sidecar may have crashed, been stopped or
  been started again, or the reader died, between any two steps. (For calls begun with the sidecar that
  answered: a call that survives a restart may be answered by a sidecar that never had it.)
* **Events stay until they are handed over** (`KeepsBook`), in order and once, over restarts
  too. Both monitors implement the same abstract book, so a test that uses
  `FakeRuntimeMonitor` sees what the real one would show.
* **An open window keeps its events** (`OpenWindowKept`): from the begin status until
  the end mark is written, no event captured in the window is reported without the call.
  It holds for serialized calls while every end mark was answered (`AnsweredWindowKept`).
* **A pass covers its start** (`PassCoversItsStart`): with a ring not larger than a batch,
  the end marks of a pass are taken after every record that was readable when it started.
* **No end mark is lost or doubled** (`EveryEndOnce`) and it answers its own call when
  calls are serialized (`EndNamesItsMark`).
* **A filter decision is not older than its pass** (`FilteredByThisPass`).
* **A busy host starves nobody**: marks are confirmed and answered, shutdown stops both
  threads, and in the whole probe both waits end without their timeouts (`CallsReturn`). Pipes are unbounded
  in the model, so this is about wake-ups and starvation and not about writers blocked on a full pipe.
* **No mark is swallowed** (`BeginAnswerComing`, `EndAnswerComing`): while the sidecar runs and the
  reader reads, what a caller waits for is always somewhere on its way, from the mark in stdin to
  the status line in the pipe. This is what `CallsReturn` rests on, and it also holds after timeouts, crashes
  and restarts. An end status may come early, though: with `ClaimStaleEnd`, a call can be ended by
  its predecessor's mark, and it is answered all the same. Where calls overlap, one can
  be ended under the id of another and wait in vain, so `EndAnswerComing` asks for one call at a time.
* **Both backends keep the same ledger** (`KeepsLedger`): the CI backend and the real one
  differ in which open call gets an event, never in whether the call is open.
* **Success means that nothing was left out** (`SuccessMeansAnswered`): when the fake sidecar
  exits with 0 after a session, every mark the client sent was answered; success without a session
  is help.
* **What was given is what runs** (`ParsedAsGiven`): a session runs only with the values
  given last for each option, and the first word that is no option decides between help and
  a usage error.
* **Findings are what the syscalls deserve** (`NothingMissed`, `NothingInvented`), in both
  directions and for every combination of open flags of the run: an open that can write,
  create or truncate outside the write roots has a finding, and a finding is about something
  the arguments asked for. Both speak of records that say what the syscall was given; see below
  for what is not knowable to the policy engine.

### What the code does not keep

Each of these runs expects TLC to find the violation.

* `ClaimInCall` – `ebpf.rs:69-70` and `121-122` say that end marks are applied after a
  drain, so that events captured during the call attribute to it. The drain comes before
  the queue is *taken*, not between taking and applying. Trace: the main loop finds the
  ring empty; a syscall of the call is captured; `end_call` writes the mark and the
  control thread queues it; the main loop takes the queue and closes the call; the next
  pass reports the event without the call – or with the next call, if that has begun
  meanwhile. Taking `pending_ends` before draining would close the window.
* `ClaimOverlap` – `README.md:129-130` of the repository says events of overlapping calls
  land in the `ambient` bucket. They are attributed to the call begun last, until the
  first end mark of either closes it.
* `ClaimStaleEnd` – a timeout in `end_call` leaves an end mark on its way. If the fuzzer
  has begun the next call by the time it is applied, `active_call.take().or(..)` ends that
  call: its window is closed with an end status it did not ask for.
* `ClaimDrop` – `docs/protocol.md:89-93` has a drop event and `monitor.py` derives
  `truncated` from it. A full ring makes `reserve` fail silently, and the eBPF backend
  writes no drop line.

Three more observations without a run: a begin takes effect at once (`ebpf.rs:114`), so a record
captured before it and not drained yet is reported with the call, where
`docs/architecture.md:49` says events outside a window stay ambient (the mirror image of
`ClaimInCall`); end marks that were queued when the shutdown flag is
seen stay unanswered (`EndAnswered` excludes sessions being shut down), and the "descendant
tracking" of `docs/architecture.md:27` is the process-group filter and nothing more.

### What the policy engine cannot know

`NothingMissed` and `NothingInvented` are about events for which `Knowable` holds. Where it
does not, the verdict may be wrong in either direction, and nothing in the event tells:

* `Path.resolve()` runs when the events are evaluated, in the monitor: a link that was moved
  since then leads elsewhere, and a relative path starts in the monitor's directory, not in
  the server's or at the `dirfd` of the call (`policy.py:148`).
* `resolve()` follows the last component as well, `unlink` does not: deleting a link is judged by
  its target.
* A path the tracepoint could not read, or that is not UTF-8, is empty; a deletion or chmod
  without a path is no finding.
* Of a path of more than 255 bytes the event has the first 255 (or nothing, when they end inside
  a character): another path, which may lead elsewhere, and the policy engine judges that one.
* An address is read in three parts. Without its family there is no event; without port or host
  the event names port 0 or 0.0.0.0 and is judged as that destination.
* Open flags that could not be read are 0: the event says `O_RDONLY`.
* The tracepoint reads user memory before the kernel does: what another thread writes in between is
  what the kernel uses and not what the event says.

Two things are in the rules themselves and in the model: sensitive patterns are matched
against the path as it was written, so that a link or a relative path to a secret is not a
`sensitive_read`; and `O_APPEND` or `O_PATH|O_WRONLY` count as a write, which is why
`NothingInvented` asks what the arguments speak of (`AsksToModify`) and not what the kernel
lets them do (`CanModify`).

### Bounds

* `MaxEvents` bounds event lines plus records in the ring; records that are filtered out
  or rejected are not counted, so the ring can be refilled for ever. `MaxCaptures` bounds
  captures in `ProbeSystem`. Two are enough for an event on each side of a mark, for a
  batch that is cut in the middle and for an overflow of a ring of one.
* `RingCap` 1 or 2 and `DrainBatch` 1 or 2 keep the relation of the code's numbers,
  `RingCap <= DrainBatch`. The smallest record (`NetEvent`, `PtraceEvent`) takes 48 bytes
  and an 8 byte header, so 256 KiB hold at most 4681 records, below 8192: this is what
  `ebpf.rs:147` says, and the assumption `BatchAssumption`.
* `MaxFaults` is 2 and `MaxStarts` 2 in `ProbeTimeouts`: a timeout and a crash, or two
  timeouts, in a probe that was started twice, with two calls.
* `MaxSyscalls` 1 in `Findings`: a verdict is about one event, and the script adds one that
  brings its own call; two calls disturb each other. `OpenFlags` has each access mode, each
  flag that makes an open a write by itself, `O_EXCL`, `O_PATH` with a write mode, and a bit above
  the 32 the decoder keeps; the theorems cover every set of bits, any script and a second
  `start()`. `Targets` has a place inside and one outside the write roots.
* Each control message is sent at most once (call ids are fresh); `Messages` names the
  ones a run uses. Two calls are what it takes for one call to disturb another. One
  process and one group suffice for attribution; `EbpfScoped` has a process that moves
  between a group, no group and back.
* `SYMMETRY` is used on call ids where only invariants or a refinement are checked; no
  liveness run uses it.
* The runs say `CHECK_DEADLOCK FALSE`: a session ends when the client has nothing more
  to send or the sidecar was shut down.

### Fairness

`EbpfSession!FairSpec` is weak fairness of each of the two threads: the operating system
runs them, neither waits for the other except for short critical sections, and the poll
has a timeout. The client, the tasks and the tracepoints owe nothing. `ProbeSystem!FairSpec`
adds the reader thread and the callers that wait; the fuzzer need not call anything.
Weak fairness of a whole thread suffices because a thread is always at one place.

## Proofs

For every value of the constants that satisfies the named assumptions
(`ProtocolAssumption`, `RingCapAssumption`, `BatchAssumption`, `SessionAssumption`,
`SystemAssumption`, `SummaryAssumption`, `FakeAssumption`, `ProcessAssumption`,
`CommandLineAssumption`, `RulesAssumption`, `FindingsAssumption`). Four theorems assume `Overlap = FALSE` besides, one call at a time:
that is how the fuzzer calls the probe and what the runs `EbpfSerial` and `ProbeTimeouts`
instantiate, and `ClaimOverlap` shows what becomes of the window without it. All other theorems cover
overlapping calls.

### The sidecar, `EbpfSession`

* `EbpfSessionProofs!TypeCorrect` – `Spec => []TypeOK`.
* `EbpfSessionProofs!PassCovers` – `Spec => []PassCoversItsStart`. Not inductive by itself:
  `PassInv` adds that `owed` counts submitted records at the head of the ring and that
  `drained + owed` is at most `RingCap` during a drain (one more with a record at hand), so that the drain can
  neither stop for want of a record nor at the limit while something is owed.
* `EbpfSessionProofs!FilterIsFresh` – `Spec => []FilteredByThisPass`. `CacheInv` adds that
  during a drain every cached group is one the process had in this pass, and that the
  record about to be written passed the filter with the group the cache now holds.
* `EbpfSessionProofs!EndIsFinal` – `Spec => []NoEventAfterEnd`. `LedgerInv` says what a call
  that was answered can no longer be: the active call, the call of the snapshot, or one
  whose begin mark is still to be read. The last needs that marks are in order in stdin.
* `EbpfSessionProofs!KeepsTheLedger` – `Spec => KeepsLedger`, the refinement: initial
  states map to initial states, and each action to an action of `CallLedger` or to a
  stutter, using `LedgerInv`.
* `EbpfWindowProofs!NoEndLost` – `Spec => []EveryEndOnce`. `EndsInv` adds that between two
  passes no end mark is in hand (taking the queue would drop it); with the order of marks in stdin from
  `LedgerInv`, reading one raises the number of ends read by one.
* `EbpfWindowProofs!LateStartupOnce` – `Spec => []OneLateStartup`. `StartupInv` adds that
  a written or pending scope line means `scoped`, and that once a late startup event is out, no snapshot
  is of the startup bucket any more.
* `EbpfWindowProofs!EndIsOfItsMark` – `Spec => []EndNamesItsMark`, one call at a time. `SerialInv`
  says what the client's order of marks means: a call that is ended was confirmed, two calls begun and
  not answered are the same (`OneAtATime`), there is one end mark at most on its way through
  stdin, queue and pass (`OneEnd`), and a begun call is active until it is applied (`HeldUntilEnd`).
* `EbpfWindowProofs!WindowKept` – `Spec => []OpenWindowKept`, one call at a time. `WindowInv` adds that
  a record at hand is submitted (so its tag is final), that a call open when it was captured and open now
  is the call of its snapshot, and that tags hold confirmed calls only (a call that opens
  later cannot be in the tag of an older line). Uses `SerialInv`.

### The whole probe, `ProbeSystem`

However many waits time out, sidecars crash, readers die, and monitors are stopped and started:

* `ProbeProofs!ProbeTypes` – `Spec => []TypeOK`.
* `ProbeProofs!KeepsTheBook` – `Spec => KeepsBook`, the refinement of `MonitorBook`: the reader and the
  return of `end_call` are its only steps, everything else stutters.
* `ProbeSummaryProofs!SummaryComplete` – `Spec => []AnsweredSummaryComplete`. `LedgerInv` is the one
  of the session carried over both pipes, with a stdout that somebody reads and a sidecar that can
  be replaced: begin marks are written once and ends behind them (`MarksInOrder`); the sidecar holds
  only calls begun and none that is closed, where closed means that the end status is in the pipe, was
  read, or was answered (`Holding`); no event of such a call follows the status in the pipe, and none
  was put aside (`NothingBehind`); a new call is unknown (`NewCalls`); a monitor that forgot its
  process has no sidecar alive (`GoneWhenOff`). It holds for overlapping calls.
* `ProbeSummaryProofs!SummaryHasAll` – `Spec => []AnsweredHasAll`. `CountInv` counts the events of each
  call of the present sidecar: while its reader lives, those in the pipe and those put aside are as many
  as were written, and those put aside alone once the end status was read. A reader that died or was
  stopped sets no signal any more.
* `ProbeSummaryProofs!BeginsAreAnswered` – `Spec => []BeginAnswerComing`, for overlapping calls too. Inductive
  on top of the types: what a step can be for a sidecar that still runs after it is stated once
  (`StepKinds`), nobody but its own caller makes a call wait (`WaitsBefore`), and each step leaves the answer
  where it is or moves it one place on (`BeginStaysComing`).
* `ProbeSummaryProofs!EndsAreAnswered` – `Spec => []EndAnswerComing`, one call at a time. Here the place where an
  answer could be lost is `ApplyEnd`, which answers for the active call and not for the mark. `LastBegun` says
  that the busy call is the last one begun: no begin mark is behind its own, and once that is read no other
  call is active. `EndInHand` says that marks are in hand only between `TakeEnds` and `NextPass`, and that
  the end status about to be written for the mark of the busy call names that call.
* `ProbeWindowProofs!AnsweredWindow` – `Spec => []AnsweredWindowKept`, one call at a time. `CallInv` says what
  the fuzzer's order of calls means inside: whom the sidecar was told of is the busy call (`OneCall`),
  and, as long as every summary was answered, there is one end mark at most, for the call that is
  closing (`OneEndMark`), and a call begun with the present sidecar is active until then (`HeldOpen`).
  `WindowInv` is that of the session over four places: ring, record at hand, pipe and dictionaries. `StepShifts` is
  its core: a call that opens was never open before, so no older tag names it. That a wait of
  `begin_call` times out does no harm; that one of `end_call` does can, which is `ClaimStaleEnd`.

### The fake backend and the findings

* `FakeProofs!FakeTypeCorrect` – `Spec => []TypeOK` of `FakeBackend`.
* `FakeProofs!FakeKeepsTheLedger` – `Spec => KeepsLedger` of `FakeBackend`, for a client
  whose marks carry a call id (`Named`), as those of `monitor.py` do. Without that it is
  false: an end mark without an id closes the active call, and a later end mark *with* its id
  would replay events of the closed call. `LedgerInv` says that marks wait in stdin once and
  in order (`QueueInv`), that an answered call has no mark left, and that the active call and
  the call being fired for were begun and not answered.
* `FakeProofs!ProcessTypeCorrect`, `FakeProofs!ProcessKeepsTheLedger` – the same for `ProcessSpec`,
  where a command line is read first and the events file may turn out to be none:
  to the backend a step of the process is one of its own, or the choice of its script before
  its first step (`ProcessSteps`), which the ledger does not see.
* `FakeProofs!SuccessAnswersAll` – `ProcessSpec => []SuccessMeansAnswered`. `SessionInv` says
  that a mark that was taken from stdin is reported or at hand, and that a shutdown message is
  the last line there, so that the one way out with success leaves nothing unread.
* `FakeProofs!ScriptReplayed` – `ProcessSpec => []ReplayedExactly`, for a client whose marks carry a
  call id. `ReplayInv` counts the events of each open call: none before its begin status, those of
  the entries `fire()` has looked at while it replays, all of them in between (`Counted`). The tool in
  hand is the call's from its begin mark to its end status unless a mark of another call was
  reported (`ToolKnown`); that is why the property asks for a call that was alone. `WantedCounts` splits
  what is wanted into the entries of the two marks.
* `FakeProofs!ParsesAsGiven` – `ProcessSpec => []ParsedAsGiven`, for command lines of any length.
  `ParseInv` says that while the process parses, some first settings are all options, the words
  left are those of the settings behind them, and each field has the value given last among the first
  (`ParsedUpTo`). A step takes one setting more or quits at it, and it is then the first that is no
  option (`QuitsAtOdd`). What stays is a fact about data: the words of a line are those of its first
  setting followed by those of the rest (`FlattenFirst`), by induction on the length. The
  library's induction theorems take an operator and cannot be used; `Induct` states
  induction for a set instead, from the least-element theorem `WFMin`, and `FlattenJoins` shows with it
  that the recursive function inside `FlattenSeq` exists and is what its definition says.
* `FindingsProofs!MissesNothing`, `InventsNothing` – `Spec => []NothingMissed` and
  `Spec => []NothingInvented` of `RuntimeFindings`, for every set of 64 bits as open flags, any
  directories, scripts, calls and moves, and whatever the tracepoints read. The premise `Knowable` is what the list
  above leaves. `FindingsInv` says that everything filed, summarised
  or still to be played is an event `decode()` can make, and that a finding was made from the
  event in the summary. `Verdict` does the work for one event: `FlagsFaithful` for the flags,
  `ResolvedRight` for the path, and `EventOf` says what the events of all records are.
* `FindingsProofs!FakeMonitorKeepsBook` – `Spec => KeepsBook` of `RuntimeFindings`, the
  refinement of `MonitorBook`.

A script is assumed to imitate events of real syscalls (`FindingsAssumption`) and to be a
sequence of entries of known triggers (`FakeAssumption`).

### Only model-checked

* All liveness: `BeginConfirmed`, `EndAnswered`, `ShutdownStops`, `CallsReturn`. Fairness and `ENABLED`
  are beyond the prover. What `CallsReturn` needs apart from them, that no answer is lost, is proved.
* The four claims the code does not keep: a violation is a trace, not a theorem.

## Not modelled

* The capacity of the pipes. A writer is never blocked, so nothing here excludes that a reader
  that died lets stdout fill up: the thread that writes then holds the stdout lock, the other
  one waits for it, stdin is read no more, and `_send` blocks once that is full too.
* Loading and attaching the BPF programs (`ebpf.rs:33-62`) and the build script: they come
  before the first step and fail as a whole.
* The text of events (`fmt_addr`, octal modes, timestamps, severities and messages of
  findings), `fnmatch` and prefix matching of paths beyond the classes above, the texts of
  `--help` and `--version`, `RuntimeSummary.counts` and `compact`: formatting nobody computes with.
* `parse_script` beyond whether it accepts the file, and an event object of a script that
  brings its own `bucket` or `call_id`. Lines the backends never write (a count that is no
  number) appear only as the death of the reader.
* What `Path.resolve()` does on a loop of links: it depends on the Python version.
* The examples.

## Plan

1. Done: the eBPF backend and its proofs; the probe with timeouts, crashes, stop() and
   restart; the fake backend with its process and proofs; decoding, policy and
   `FakeRuntimeMonitor` composed, with proofs.
2. Done: theorems for every safety property a passing run checks.
3. Left: the loader's attach loop as a step of its own, if the backend ever attaches or
   detaches while it runs; a theorem for one call at a time after an `end_call` that timed out, if
   the probe ever tells an old end mark from a new one.
