# K230Claw: verification project

K230Claw is an AI agent for the K230 board: a C program of a dozen threads in
which channels (serial CLI, web page), a cron service and sensors feed a queue,
an agent thread answers each message with the help of a language model and its
tools, and a dispatcher delivers the answers.  This directory holds TLA+ models
of its concurrent and persistent parts, the TLC configurations that check them
on small instances, and proofs that TLAPS checks for every instance.

All paths below are relative to `src/package/k230claw/src/`.

- [Inventory](#inventory): the system's parts, what makes them hard, what makes them correct
- [How the project is laid out](#how-the-project-is-laid-out): modules, compositions, abstractions
- [The modules](#the-modules): how state and actions correspond to the code
- [The runs](#the-runs): what each checks and shows, bounds, fairness
- [The proofs](#the-proofs)
- [Where code and documents disagree](#where-code-and-documents-disagree)
- [Not modelled](#not-modelled)

## Inventory

### Parts, state, operations

| part | state | operations | threads that use it |
|---|---|---|---|
| message bus (`bus/message_bus.c`) | two rings of 16 `kc_msg_t`, each with one mutex and two condition variables | push (1 s time-out), pop (blocks, polls the shutdown flag each second) | inbound: CLI, gateway, cron, sensors push, agent pops; outbound: agent pushes, dispatcher pops |
| agent loop (`agent/agent_loop.c`) | the turn: messages, `history_msg_count`, iteration, tools text | receive, load and trim the history, tool loop, save the turn, answer | agent |
| sessions (`memory/session_mgr.c`) | one JSONL file per chat, `s_append_count` | append, compact, load history, clear | agent; clear also from CLI and gateway |
| cron service (`cron/cron_service.c`, `tools/tool_cron.c`) | `s_jobs`, `s_next_id`, a JSON file | scan and fire, add, remove, save, load | cron, agent (tools), main (stop) |
| roles (`roles/role_mgr.c`) | role table, active role | load, switch | main, CLI, agent (tool) |
| tool registry (`tools/tool_registry.c`) | tool table, disabled flags, cached tools text | rebuild, execute, disable | agent, and whoever switches roles |
| sensor manager (`sensors/sensor_mgr.c`) | `s_running` flags, event throttle | start, stop, push event | sensors, and whoever switches roles |
| sensor state (`sensors/sensor_state.c`) | name/value table | set, get, summary | sensors, agent |
| face sensor (`sensors/sensor_face.c`) | presence state machine, registration request | detect, verify, register | face thread, agent (tool) |
| voice sensor, audio (`sensors/sensor_voice.c`, `tools/tool_audio.c`, `hal/hal_audio.c`) | who has the microphone, pause flag | listen, pause, record, play | voice thread, agent (tool) |
| camera stream (`hal/hal_camera_stream.cpp`) | capture and AI threads, frame callbacks | start, stop, deliver a frame | two own threads, gateway, sensors |
| gateway (`gateway/ws_server.c`) | WebSocket and stream clients | HTTP handlers, push, stream | mongoose thread, capture thread |
| LLM proxy (`llm/llm_proxy.c`) | provider, key, model, URL | request with retries, setters | agent; setters from the gateway |
| configuration (`hal/kc_config.c`) | one cJSON tree, one file | get, set, save, load | all |
| channels (`channels/channel_mgr.c`) | a table filled at start | start, stop, send | main, dispatcher |
| CLI and dispatcher (`cli/serial_cli.c`) | run flags, terminal mode | read a line, commands, deliver | input thread, dispatcher |
| shell tool (`tools/tool_shell.c`) | a child process and its pipe | run with time-out, kill, reap | agent, CLI |
| main (`main.c`) | `s_running` | start order, signals, stop order | main |

Interaction is by the two queues (messages own their heap content), by direct
calls under a component's mutex or with none, by files, by callbacks (camera
frames), and by one flag, `s_running`, read through `kc_is_shutting_down()`, that every loop polls.

### What is hard here

- **Ownership across queues.**  `kc_msg_t` is copied by `memcpy`; the content
  pointer has to have one owner on every path, time-outs and shutdown included.
- **Pointers and indices kept across an unlock or a change.**  The cron thread
  keeps `j = &s_jobs[i]` across an unlocked push; the agent keeps
  `history_msg_count` across a trim and `tools_json` across a role switch.
- **Files written outside the lock, or without one.**  Cron and configuration
  snapshots, the session files against `/clearhis`.
- **Power loss** between two file operations, of lines not yet on the disk, and torn
  lines; files that do not open.
- **Waking up.**  Bounded queues with `signal`, polls, time-outs, and a flag set
  in a signal handler that cannot wake anyone.
- **Requests across threads.**  Face registration with a time-out, the pause of
  the voice thread, the restart of the camera stream under clients.

### What makes each part correct

- *bus*: FIFO, nothing lost or doubled, one owner per block; no lost wake-up;
  messages are taken; consumers leave at shutdown.
- *cron*: unique ids; a removed job stays removed; no job is lost; each fires at
  most once a scan, a once job once; the file follows the table; stop completes.
- *agent and sessions*: every context sent to the model pairs tool_use with
  tool_result; a turn is saved as it was said; a compaction keeps the newest
  lines; files stay bounded; a cleared conversation stays cleared.
- *roles, registry, sensors*: active role, enabled tools and running sensors
  agree; no pointer to a freed tools text; no second thread per sensor; a switch
  ends.
- *face*: presence follows the owner, neither for strangers nor for one frame;
  one registration per request, and its answer goes to that request.
- *voice*: one thread has the microphone; a pause ends with its recording; a wake
  word is silenced for a bounded time only.
- *stream*: listed clients get each frame once; no thread outlives a stop; the
  camera is set up by one thread at a time.
- *configuration, LLM*: a request uses one provider's key, URL and model; the
  file holds what is in use; a preset keeps its key.
- *shell*: every command returns; what it leaves behind is known.
- *whole program*: answers are shown in the order of the messages, on their own
  channel; a stop ends and saves after everybody has ended.

The hazards behind these, each at its line, are in `PROJECT.json`.

## How the project is laid out

| component | module | checked by | proofs |
|---|---|---|---|
| message bus | `MessageQueue`, abstractly `MessageTransfer` | `MCMessageQueue` | `MessageQueueProofs` |
| start, operation and stop of the program | `Pipeline` | `MCPipeline` | `PipelineProofs` |
| agent loop and sessions | `AgentTurn` | `MCAgentTurn` | `AgentTurnProofs` |
| cron service | `Cron` | `MCCron` | `CronProofs` |
| roles, tool registry, sensor manager | `RoleSwitch` | `MCRoleSwitch` | `RoleSwitchProofs` |
| face sensor | `FaceSensor` | `MCFaceSensor` | `FaceSensorProofs` |
| configuration, LLM proxy, settings handlers | `ConfigUpdate` | `MCConfigUpdate` | `ConfigUpdateProofs` |
| voice sensor, recording tool, event throttle | `VoiceMic` | `MCDevices` | `DevicesProofs` |
| shell tool | `ShellExec` | `MCDevices` | `DevicesProofs` |
| camera stream and its clients | `CameraStream` | `MCDevices` | `DevicesProofs` |

The modules compose by what one takes for granted of the other.  `Pipeline` joins
agent, dispatcher, producers and main through two queues, each of them the
sequence of `MessageTransfer`, which `MessageQueue` is proved to implement; a
turn, which it takes as one that says some texts and ends, is taken apart in
`AgentTurn`, a role switch in `RoleSwitch`, a producer's inside in `Cron`,
`FaceSensor` and `VoiceMic`.  `RoleSwitch` composes three components that have no
lock in common; `ConfigUpdate` composes four; `CameraStream` composes the
stream's threads with the server's.  `MCDevices` puts three modules that share
nothing side by side: a behaviour belongs to one of them.  `Selection` is what a
loop does that drops some entries of a list and closes up the rest: `Cron`,
`AgentTurn` and `Pipeline` use it.

What could still be added is the list of WebSocket clients, which only the server's
thread and `ws_send` use.

## The modules

### MessageQueue (`bus/message_bus.c`), abstractly MessageTransfer

One queue with the loops of its users, generic in who they are; the inbound and
outbound queues are instances.  `buf`, `head`, `tail`, `count` are the fields of
`kc_queue_t`; `hand[t]` is the `msg.content` thread t owns; `pc` says where it
is; `shutdown` is `kc_is_shutting_down()`.

An action is what happens from taking the mutex to releasing it or to waiting.
`pthread_cond_timedwait` is three states: `waiting`, then `woken` (it will
return 0) or `expired` (it will return ETIMEDOUT), and the thread must still get
the mutex back, so that others run in between.  `Signalled` is
`pthread_cond_signal`: it wakes one waiter if there is one, and may be consumed
by a producer whose wait is timing out; `Spurious` is the wake-up POSIX allows.

| action | code |
|---|---|
| Compose | the caller strdups the content (`ws_server.c`, `serial_cli.c`, ...) |
| PushWait, PushWrite | the loop and the write of `queue_push` |
| PushExpire, PushFail | its time-out, and the caller's free of the content |
| LoopHead | `while (!kc_is_shutting_down())` of agent and dispatcher |
| PopRead, PopWait, PopShutdown, PopPoll | `queue_pop` |
| Handle | the consumer uses and frees the message, or frees it at shutdown |

A popped slot keeps its stale pointer, as in the code: the part of QueueSound
that gives a block one owner is about the `count` live slots.  Blocks are drawn from a finite heap, so that freeing and
reusing an address is in the model.  `MessageTransfer` is what callers rely on:
a sequence of blocks and one hand per thread; `Obtain`, `Send`, `Receive`,
`Discard`.  The refinement maps its queue to the `count` slots from `tail` on.

### Cron (`cron/cron_service.c`, `tools/tool_cron.c`)

`jobs` is the used part of `s_jobs`; a job keeps id, interval (0 for a once
job), next time and enabled flag.  The mutex is never held across an action.
The cron thread's scan is cut where it releases the mutex: `Wake` (scan up to
the first due job), `PushMessage` (unlocked), `Resume` (write through `j`,
which is `idx` here and may refer to another job by now or to a dead slot, then
scan on; at the end drop disabled jobs and request a save).  The agent's
`Schedule` and `RemoveJob` run at any time the cron thread does not hold the
mutex.  `cron_save` is three steps per thread: snapshot under the mutex, `fopen`
that truncates, write; `SaveFail` is an `fopen` that fails.  `Restart` is a new
process, after power loss or stop, that loads what the file holds.

The clock stands still only while `MaxClock` says so; `CRON_CHECK_INTERVAL` is
not modelled, a scan may begin whenever the thread sleeps.  History variables
(`known`, `firings`, ...) record what the program does not keep.  A push counts as
a firing whether or not the queue takes the message: what becomes of it is in
`Pipeline`.

### AgentTurn (`agent/agent_loop.c`, `memory/session_mgr.c`)

A message is its kind: user, answer, use (an assistant message with tool_use
blocks), result.  `file[c]` is the sequence of lines of a chat's JSONL file, each with its
kind and, for ClearStays, the number of removals before it.  The turn is
`Begin` (take a message, load the history, which may not be readable, and repair its
start), `Trim` (any number of rounds of `trim_context`: what a text costs in tokens
is left open, so that the context may be left at the end of any of the rounds,
`RoundEnds`), `LlmError`, `LlmText`, `LlmTools` (with and without
`response_handled`), `IterationLimit`, then for each message one `SaveNext`, or
`AppendFails` if the file does not open, `CompactRead` and `CompactRename` whenever
the shared counter comes round, or `CompactFails`, and `Reply`.  `Clear` is
`session_clear` in the CLI's or gateway's thread, between any two of these.

`Crash` is a power loss.  An append is not synced: of the lines appended since the
last compaction (`synced`) any number of the newest may be gone, and the first one
gone may be left torn, which spoils the next line appended to it.  A compaction syncs
its temporary file; that a rename or an unlink that was done outlasts the power loss
is assumed.  `sound` counts how many of the newest lines have nothing missing between
them: it starts again from 0 when an append fails, a line is spoiled, the power goes, or
a trimmed turn is saved, and reaches MaxHistory again after as many appends.

### RoleSwitch (`roles/role_mgr.c`, `tools/tool_registry.c`, `sensors/sensor_mgr.c`)

`role_mgr_switch` takes no lock, so that each of its steps is an action of the
thread it runs in: main (the saved role, after `LoadRole`), the CLI, or the agent
in the middle of a turn; and nothing keeps one from beginning while another is on its
way, or after main has stopped the sensors.  `pc[t]` and `todo[t]` are where thread t
is in the switch and what is left of the loop it is in: `StopSensor` sets the flag,
`Joined` waits for the thread (`joining`), `Reset` and `Disable` change the flags,
`FreeText` and `BuildText` are `tool_registry_rebuild`, `Activate` sets `s_active`,
`StartSensor`, `Started` and `StartFails` the start, `Finish` stores the name.
`heap` holds every tools text ever built with the number of its frees; `text` is
the registry's pointer and `held` the agent's `tools_json`.  A sensor's threads
are numbered: `handle` is the one a stop would join, `alive` those that run.
`StopAll` and `Halt` are main's end.  Two switches at once may free one text twice, or
join one thread and free one model twice: C leaves undefined what happens, and in the
model it goes unnoticed or ends the process (`Aborts`).  `mixed` and `crossed` record
that the last switch to begin, or any, overlapped with another.  The sensors' own stop
and start are taken from `sensor_voice.c`; those of the face sensor have the same shape.

### FaceSensor (`sensors/sensor_face.c`)

`thread` is where the sensor's thread is in its frame: `Capture` (which frame,
and whether `register_req` is up), `Store`, `StoreOk` or `StoreFails`, `Lower`
(`register_req = 0`), `Answer` (`register_done = 1`), then `Decide`, the
verification and the presence states.  The tool is `Ask`, `ClearOk`, `Raise`,
the three writes of `face_sensor_register`, then `TakeAnswer`, or at any moment the
last look at `register_done`, `GiveUp`, and the write that takes the request back,
`TimeOut`; an answer may come between these two.  `Store` may fail to save the
embedding, which the code ignores: `disk` then keeps what it has, or has nothing.  `Load` and `Start` are `face_start`, `Stop` and `Joined`
`face_stop`.  A frame is the person of its largest face or nobody; recognition
tells people apart or fails.  The published values are copies of these
states and left out; the throttle of events is in `VoiceMic`.

### Pipeline (`main.c`, `agent/agent_loop.c`, `cli/serial_cli.c`, `channels/channel_mgr.c`)

`main` is what main does next: it starts agent, CLI, page, dispatcher, sensors and
cron one after the other (`Starts`: a start that fails ends the program), is
`ready` once the signal handler is set, and after `Signal` joins cron, sensors,
dispatcher, CLI, page and agent in that order (`Stop`) and saves.  A signal before
`ready` ends the process.  `place[p]` is where a producer is: `Compose` a
message, `Push` it, with a full queue losing it, `End`; the CLI also runs a
`Command`, and a `SwitchRole` by command or tool starts and stops the sensors even
after main has stopped them for good.  The agent is `Take`, any number of
`SayText`, `Answer` or `Handled` (a tool has answered), `AgentEnds`; the
dispatcher `Pop`, `SendOut`, `DispatchEnds`.  A pop that sees the flag after the
message frees it, which is why the ends may drop one.  `from[m]` is the channel
of a message; "system" goes to all.

### VoiceMic (`sensors/sensor_voice.c`, `tools/tool_audio.c`, `sensors/sensor_mgr.c`)

`thread` is where `voice_thread` is in its loop: `Open` or `Refused`, `Pause`
(the flag is seen, the device closed), `PauseEnds`, `Read`, `Wake` (its own limit,
`lastWake`), `Push` (`throttle_check`, whose slot is taken before the push may
fail), `Pushed`.  `mic` is who has the capture device, `cap` whether the thread
has a handle.  The recording tool is `Ask` (it sets `paused`), `ToolOpen` or
`ToolRefused`, at once and without waiting for the thread, `Recorded`, `Resume`.
`Start`, `Stop`, `Joined` are the sensor manager's; `Start` clears `paused`,
whoever has set it.

### ShellExec (`tools/tool_shell.c`)

`place` is where `exec_with_timeout` is: `Time` at the head of its loop, then the
read (`ReadSome`, `ReadNothing`, `ReadEnd`), `WaitReaps` or `WaitSleeps`, `Drain`,
and after the time-out `Term`, `GraceReaps` or `Kill` and `KillReaps`.  The child
is a session of two, the shell and a helper it forks; each may write, close its
output, ignore SIGTERM or end at any moment (`System`), and owes nothing.  A
zombie is a shell nobody has waited for.

### CameraStream (`hal/hal_camera_stream.cpp`, `gateway/ws_server.c`)

`running`, `stopping`, `ready`, `cbs` are the fields of `s_stream`; `capture[n]`
and `ai[n]` the threads of the n-th start; `manager` where the caller of start or
stop is (`Start`, `StartClears`, `StartCapture`, `StartAI`, `StartAborts`; `Stop`,
`StopJoins`, `StopClears`).  `calling` is the number of callbacks the capture
thread has yet to call in this frame, under `cb_mutex`: the loop looks at `stopping`
(`Frame`), and the callbacks are called (`Call` and `Send`), or none if the frame
could not be encoded.  The server's thread takes a request in three unlocked steps, `Add` to the list,
`Count` and `Register`, and closes connections, `Hangup` and `Close`.  One start
comes after the other, as in role switches that do not overlap.

### ConfigUpdate (`hal/kc_config.c`, `llm/llm_proxy.c`, `gateway/ws_server.c`)

`tree` and `presets` are `s_config`, `file` what is on disk, `llm` the copy of the
settings in `llm_proxy.c`, `page` the page's own copy of the list of presets.
`SetConfig` takes a message with any of its fields: keys and URLs of either provider
are stored first, then come the model and the provider, each if it is given;
`ApplyPreset` takes a preset, with a provider and a URL that may be any; `SavePresets`
a list that the page makes from the one it was last shown (`PageLists`), which may be
out of date, as `GetConfig` comes at any time or not at all.  `at` is the handler's next
step, `UseModel`, `UseProvider`, `UseKey`, `UseUrl` or `SaveLast`, with what the message
gave in `work`; each of them but `UseUrl` ends in `kc_config_save`, whose place is
`saving`: `SaveText` under the mutex, `SaveOpen`, which truncates the file or fails, and
`SaveWrite`, which may fail too.  A store in the tree is part of the step before it,
since only the server's thread looks at it.  Between any two steps the agent copies the
settings (`Ask`) and calls with its copy (`Retry`, `Answered`), and the power may go
(`Restart`); a file with more presets than `Fits` stands for one above 8 KB, which is
not read.  A key and a URL is known by the provider it was given for.  `typed` remembers
which key was typed for a preset, and `lost` that it has since been sent with its mask
while the program had no preset to take the key from, or another one's; `chosen`
remembers the provider and the model last named.

### MC modules

`MCMessageQueue`, `MCCron`, `MCAgentTurn`, `MCRoleSwitch`, `MCFaceSensor`,
`MCConfigUpdate` and `MCPipeline` extend their module for the .cfg files;
`MCDevices` is the sum of `CameraStream`, which it extends, and `VoiceMic` and
`ShellExec`, of which it has an instance each (MicShared, Heard and Leftovers are
the instances' properties).
A definition whose comment says "mutant" is a plausible bug in the definition
below it; it is part of no specification and serves to test the properties.

## The runs

| run | instance | checks | shows |
|---|---|---|---|
| queue | 2 producers, 1 consumer, 2 slots, 4 blocks, 1 spurious wake-up | TypeOK, QueueSound, TransferSpec, Delivered, ConsumersExit | the ring is a FIFO, nothing leaks or is freed twice, nobody sleeps through a message, messages are taken, SIGTERM ends the consumer |
| cron | 2 slots, 2 ids, clock to 2, 1 restart, saves may fail | TypeOK, JobsConserved, FiresOnce, FileCurrentUnlessSpoiled, CronGoesOn | the table survives removals under the cron thread's pointer but for the exceptions named, and restarts at any point; due jobs fire, a stop joins and saves |
| turn | 1 chat, 3 turns, 2 tool rounds, windows of 4 and 3, compaction every 3, trims, 1 removal, 1 power loss, 1 file that does not open | TypeOK, ContextPaired, SavedFaithful, ClearStays, TrimNeverSplits, NothingForgotten | a context is well paired and a turn saved as said, over compactions and `/clearhis` in the middle of a save, and again some lines after a failure; no compaction or trim loses newest lines or splits pairs |
| roles | built-in role and 2 files, 1 sensor, 2 tools, 2 switches by the agent and main's own at start and end, overlapping in every way | TypeOK, RoleInForce, RegistryTextLives, SwitchEnds | flags, tools text and saved name agree with the role after a switch that ran alone, sensor threads while none overlapped, over failed starts and dead devices; the text to be taken next is live; a switch that runs alone ends |
| face | 2 people, absence after 2 frames, verification every 4, 2 starts, 2 requests | TypeOK, PresenceFollows, RegisterAnswers, OwnerArrives, NoFlapping | presence follows the owner within tight bounds, strangers cause no arrival, the register tool tells the truth |
| devices | interval 2, clock to 5, 2 starts; output 3, pipe 2, time-out 2, grace 1, 2 calls; 2 connections, list and callbacks of 2, 2 starts, 2 requests | DevicesTypeOK, MicShared, Heard, Leftovers, StreamThreads, FramesReachClients, DevicesGoOn | the microphone has one user, a wake word repeated is heard, commands return and leave what is said, stream threads end, listed clients get frames, nobody waits for ever |
| settings | 1 preset name, 2 models, 2 keys, 2 presets of which the longest file holds 1, 2 attempts, 2 messages of the page, 1 restart | TypeOK, RequestOfOneProvider, SettingsLast, KeysFollowPresets | no request mixes providers, the file holds what is in use, presets keep their keys |
| pipeline | queues of 2, 2 messages, a text before the first answer | TypeOK, ShownInOrder, SavedLast, Flows | answers are shown in order on their channels, a stop from any state ends, and saves last |
| cron_once, turn_trimmed, role_text, face_debounce | small | OnceFiresOnce; TurnSavedInFull; TextInUse; Debounced | counterexamples, see [below](#where-code-and-documents-disagree) |

**Bounds.**  *queue*: two slots are the smallest ring in which head and tail
differ, wrap, and meet both when full and when empty; two producers the smallest
number that race for a slot, and a queue of the program has one consumer.  Four
blocks let the ring be full while both producers wait.  The proofs lift the safety
part to every size.  *cron*: two jobs suffice for a removal to move a job
under the cron thread's pointer, or to leave the pointer on a dead slot; a clock
of 2 lets a job of interval 1 fire twice (cron_once has three jobs).  *turn*: a window
of 4 and files of 3 lines are shorter than one turn with two tool rounds (up to 7
lines), so that every cut between a use and its result occurs; the compaction
interval of 3 falls into each position of a save; three turns are enough for one whose
lines are lost or torn, one that appends after it, and one that reads both.  *roles*:
three roles, of which two share the sensor and one of these disables a tool, make a
switch stop, keep and start it; two switches of the agent and those of main's start and
end put two at once in every order, and leave one that runs alone after them.  A third
switching thread and a second sensor are covered by the theorems.  *face*: the counters keep the order of the code's (30 and 50):
verification is rarer than the end of an absence; both bounds are tight, as one
frame less breaks PresenceFollows.  Two starts and two requests let an answer, a
time-out and a restart meet the next of its kind.  *devices*: a clock of 5 holds two
silences of interval 2, and the bound of Heard (less than 2 * Interval - 1) is
tight: one second less is violated.  Output 3 against a pipe of 2 lets a command
be read in part, to the limit, and beyond it; two calls let one find what the
other left.  Two connections share callbacks, leave, and are there over a restart; a
third request, and a third connection, which finds the list full, are covered by the theorem ClientsServed; they would make
the liveness part of the run too long.  *settings*: two presets
are the least number that can be confused, by their models, and one more than the file
has room for; two messages let one handler meet what the one before has left, and a
page send what the one before has made out of date; one restart a file of any moment.
The messages are the form's, with a model that may be another provider's, and those of
one field alone; the theorems are about all.  *pipeline*: queues of two are the
smallest in which a pop can take the wrong end, and two messages overtake each other
if anything can; with a text before an answer three texts fill the outbound queue.  The
inbound one, with two messages, is full but no third waits for it: that is in the run
queue and in the theorem for any number.  Three messages are too many for the liveness
part, as are further texts before an answer: `MaxTexts` bounds those of one turn
together with what has been said before.
`MaxTurns`, `MaxClears`, `MaxCrashes`, `MaxFails`, `MaxBoots`, `MaxId`, `MaxClock`, `MaxTime`,
`MaxSpurious`, `MaxSwitches`, `MaxStarts` (of the face sensor, of the voice sensor
and of the stream), `MaxRequests`, `MaxCalls`, `MaxChanges`, `MaxPresets`, `Fits`,
`MaxMsgs` of `Pipeline`, `MaxTexts` and `PipeSize` bound what is unbounded, or much
larger, in the program.  Deadlock is not checked where these bounds, or the
program's own shutdown, make the system stop.

**Fairness.**  Weak fairness throughout, and only for steps a scheduled thread
takes by itself; no property needs a thread to win a race, and nobody is obliged
to type, fire, switch, stop or fail.
`MessageQueue`: a thread inside push or pop gets the mutex in the end, and its
timed wait ends.  `Cron`: the cron thread runs on, a save that was begun ends, and
main joins; none on the agent's tools, the clock, or restarts.
`RoleSwitch`: a thread in a switch is scheduled, main gets through its steps, and
a sensor's thread whose flag is set comes round to its loop's head.
`Pipeline`: each thread gets through what it has begun, the model answers or fails
(curl has a time-out), and a command ends: `/shell` has a limit of five minutes, while
`/wifi` waits for its child without one (`serial_cli.c:288`), so that its end is an
assumption.
`VoiceMic`: both threads run; an open of a free device is tried in the end (the
device need not be free again before), and a refusal need not come.
`ShellExec`: the caller runs and time passes; the processes owe nothing.
`CameraStream`: all threads run.  `AgentTurn`, `FaceSensor` and `ConfigUpdate`
have no liveness property: an iteration of each ends by a bounded loop, and what
it waits for (the model, a frame, a message of the page) is not the program's.
Most liveness properties have the form []<>: a block on its way, a switch, a command,
a start of the stream or a due job does not stay so for ever.  Each says of one
place that it is left again and again, which is the same as that it is left whenever
it is reached.

**What conditional properties leave out.**  Each exception is a named history
variable, and is what the code does.

- *Cron.*  `shifted`: FiresOnce and JobsConserved hold in part as long as no removal
  moved the table while the cron thread was between its unlock and relock, and
  CronGoesOn excepts the job such a removal makes it pass over until its next scan.
  `spoiled`: FileCurrentUnlessSpoiled excepts the time from a save that failed, or
  overlapped with another, to the next one that has the file to itself.
- *AgentTurn.*  `sound`: ContextPaired asks for well paired messages where the newest
  MaxHistory lines of the file have nothing missing; after an append that failed, a
  power loss or a trimmed turn (turn_trimmed) a tool message may be without its
  partner until it has left the window, since the repair in `session_get_history`
  sees only its start.  `failed`, `trimmed` and the iteration limit (whose closing text is
  put in `messages` and in `final_text`, and saved twice): SavedFaithful then says
  only that the lines appended are in the file, not that they are all that was said;
  `removed`: of a file removed meanwhile, only that it ends with them.  `raced`:
  ClearStays excepts a `/clearhis` between the read and the rename of a compaction.
  NothingForgotten is about steps while there is power, as an append is not synced.
  The bound on the file in TypeOK is about one chat: the append counter is shared,
  and with two all compactions may fall to one of them; each restart and each file that
  does not open adds an interval.
- *RoleSwitch.*  `mixed`: tools, text and saved name need not be the role's after a
  switch that overlapped with another, until one has run alone; SwitchEnds excepts a
  switch that overlaps too.  `crossed`: the sensors' part of RoleInForce is about
  programs in which no two switches have overlapped and none has begun after main's
  stop, since two switches may lose the handle of a thread for good.
- *FaceSensor.*  `raced`: RegisterAnswers excepts an answer on its way when the tool's
  time runs out, and a restart of the sensor over an answer not yet read.
- *Devices.*  `overtaken`: a recording need not end if a start of the sensor has
  withdrawn its pause and the voice thread has the device for good.  `deserted`:
  FramesReachClients excepts clients that were there when a start or a stop cleared the
  callbacks, who get nothing more; `left`: once a client has left, the callback may be
  registered twice and frames come twice.  `failed`, `hurried`: StreamThreads excepts
  the AI thread of a stream whose camera did not open, which the stop does not join,
  and one that went on after its five seconds without the camera.  Leftovers says who is
  left running in the command's session: a process that has left it (setsid) escapes the
  kill of the group.
- *ConfigUpdate.*  `kept`: RequestOfOneProvider excepts the key of a provider that had
  none when it was chosen; `mid`: the pair of provider and model of a request copied in
  the middle of a handler.  `unsaved`: SettingsLast excepts the time from a save that
  failed to the next; `stale`: what the proxy works with may differ from the tree in a
  key or URL sent without a provider, until a provider is named.  `lost`:
  KeysFollowPresets excepts the single preset that was sent with its mask when the
  program had none of its name and model, not its own, or two.

## The proofs

Eight modules, every proof checked to the last leaf.  Each theorem is about every
value of the constants, bounds included, from the assumption its module names, which
says little more than which constants are numbers.  Every invariant and every action
property that a passing run checks is stated by a theorem, and so is the refinement.

`MessageQueueProofs`, from `QueueAssumption` (producers and consumers are
disjoint, the capacity is positive, `Nil` is no block):

- `Invariant`: Spec => []IInv, with IInv the conjunction of TypeOK, RingOK,
  SingleOwner and HandMatchesState; from it `TypeCorrect` and `QueueCorrect`
  (QueueSound, the last three);
- `Refinement`: Spec => TransferSpec, the ring implements the bounded FIFO.

None of the four is inductive alone.  SingleOwner needs HandMatchesState (a
producer that writes owns a block, and a consumer that reads has an empty hand)
and RingOK (the slot written is not one of the live ones); HandMatchesState needs
RingOK (what a pop reads is a block).  Steps that move no block are covered by one
lemma (`QuietStep`), steps that free one by another (`FreeStep`), and the two that
matter, `PushWriteStep` and `PopReadStep`, reason about slots modulo the capacity
through `ModWrap`, `SlotInjective` and `SlotShift`.  The refinement maps Compose,
PushWrite, PopRead and the two frees to Obtain, Send, Receive and Discard, and
everything else to stuttering.

`CronProofs`, from `CronAssumption`: `TypeCorrect`, `JobsNeverLost` (JobsConserved),
`OnceJobsFireOnce` (FiresOnce) and `FileIsCurrent` (FileCurrentUnlessSpoiled), for
any table, intervals, delays, and number of jobs and restarts.  The invariant,
CronInv, has three groups.  About the table, in memory, in a snapshot or in the
file: ids are unique and below the next one (Tables, Numbered), and once jobs stay
apart from the others (OnceJobs).  About the scan: which jobs are enabled in which
phase (Phases), what the scan has been past (Scanned), that the pointer refers to
the job being pushed unless a removal moved the table (Pointed), and that a once
job still in the table has not fired (Unfired).  About the whole: every id given out
is in the table or accounted for (Conserved), and while nobody changes the table or is about to take a
snapshot of it, the one snapshot being written is the table, or else the file is
(Fresh).
A removal and the dropping of disabled jobs are both `Selected`, and the lemmas about
it say that the selected jobs are those of the positions, in their order.

`AgentTurnProofs`, from `TurnAssumption`: `TypeCorrect`, `ContextIsPaired`
(ContextPaired), `SavedIsSaid` (SavedFaithful), `ClearsStay` (ClearStays),
`TrimKeepsPairs` (TrimNeverSplits) and `NothingIsForgotten` (NothingForgotten), for
any window, compaction interval, length of file, number of chats, and number of files
that do not open.  TurnInv follows the messages of a turn: they are the end of the
context (Talking), from `history_msg_count` on unless a trim moved them (Unmoved), then
partly appended and partly still to be appended (Halves), and what was appended is at
the end of the file or of the copy that will replace it (Newest).  A use and its result
are neighbours among the lines of a file with nothing missing between them, the one
being appended to excepted, where the result may be the next to come (Linked); that is
what makes a cut anywhere harmless, because the repair of `session_get_history` drops a
result at the start of a window and a window never ends with a use.  Aged and Copied
are about the removals and the two steps of a compaction; Sized counts the appends since
the last compaction, which bounds the file of a single chat.

`PipelineProofs`, from `PipelineAssumption`: `TypeCorrect`, `SavesLast` (SavedLast)
and `ShownAsSaid` (ShownInOrder), for any queues, messages and texts.  SavesLast
rests on what main has joined, stage by stage (Gone).  ShownAsSaid has the two queues
in series: what was accepted is what the agent took and then the inbound queue
(Inbound), what was said is what the dispatcher took and then the outbound one
(Outbound), and what was said belongs to the messages in the order in which the agent
took them, the texts of each counted from 1 (Spoken); Numbered keeps two producers
from holding one message.

`ConfigUpdateProofs`, from `ConfigAssumption`: `TypeCorrect`,
`RequestsOfOneProvider` (RequestOfOneProvider), `SettingsKept` (SettingsLast) and
`KeysKept` (KeysFollowPresets), for any names, keys, presets, attempts and restarts, any
set of messages with any of the fields, and any length of the longest file.
SettingsInv says of tree, file and text that a key or URL stored for a provider was
given for it, and of their presets that the keys are as typed or lost, while the page's
may be masked (Texted); of the handler, that its next step finds what it needs in the
message (Working); of proxy and tree, that they name the same provider and model, and
agree in key and URL but for what a step still to come or one of the two exceptions
explains (Agreed); and that a text is that of the settings until it is written, and the
file the last text, unless a save failed (Saved).  There is one lemma for each action.
For KeysKept it has to be shown that the entry of a list which is not lost was made from
the one preset that Restored finds (`FirstFound`, `TheOneIsFound`, `RestoredOwn`), and
that whatever the page does to its list, each of its entries stays masked, as typed, or
lost (`FormsSent`, `PageSent`).

`FaceSensorProofs`, from `FaceAssumption`:

- `Invariant`: Spec => []IInv, with IInv the conjunction of TypeOK, OwnerKnown,
  DoubtCounted and StrangerCounted; from it `TypeCorrect`, `PresenceCorrect`
  (PresenceFollows), and the action properties `ArrivalCorrect` (OwnerArrives) and
  `FlappingCorrect` (NoFlapping);
- `RegisterCorrect` (RegisterAnswers), from an invariant `Handshake` of its own.

The bounds on frames follow from counting in step with the code: while the owner
is present but in doubt, `absent` grows with each frame and stays ahead of the
frames with the owner back (DoubtCounted); while a stranger stands in for a
present owner, `verify` grows with each frame until the verification is due, and
`absent` from then on (StrangerCounted).  Both need OwnerKnown: a present owner is
registered and the model is loaded, so that the verification does take place.  A
registration in the middle of a frame breaks StrangerCounted until the frame is
decided; the invariant says so.  Handshake adds that a request is up only while the
tool waits or has just given up (`Waiting`), unless a race has left one behind.

`RoleSwitchProofs`, from `RoleAssumption`, for any roles, tools, sensors, users and
number of switches, however they overlap: `TypeCorrect`, `RegistryTextIsLive`
(RegistryTextLives) and `RolesInForce` (RoleInForce).  For the text the invariant is that
whoever freed the one the registry points to is still at work on the next, and that a
new text is one nobody has freed (TextInv).  For RoleInForce the place of a switch tells
what it has done so far: to the tools, if none has run beside it since it began
(ToolsInv), whatever the flags were before; and to the sensors, of which a switch stops
those that its view of the role in force lists, if no two have ever overlapped
(SensorsInv).  The types have an invariant of their own (TypesInv).

`DevicesProofs`, from `DevicesAssumption`:

- the microphone: `MicrophoneShared` (MicShared), inductive together with "running
  means there is a thread" (RunningIsThread), as otherwise a start would lose the
  handle of the thread before; `UserIsHeard` (Heard), because the
  wake word noted last is less than an interval newer than the slot taken last
  (WokenOnce);
- the shell: `LeftoversCorrect` (Leftovers), carried back from the return to the
  place where the shell was waited for or killed (Settled);
- the stream: `ThreadsJoined` (StreamThreads) and `ClientsServed`
  (FramesReachClients).  For the first the invariant ties the flags to the threads
  of the latest start at each place of the manager (Latest, Flags), with earlier
  starts over and later ones not begun (PastAndFuture).  For the second: whoever is
  listed while no callback is registered is the client the server's thread is still at
  (Registered), and the callback is registered once, for the first client (Once);
  `AddedAlone` is the counting argument.  A list for one client would break it: each
  further client is then taken for the first;
- the types of the three: `TypesCorrect` (DevicesTypeOK).

**Two means.**  Induction on numbers is done through the least counterexample: a set
of numbers that is not empty has a least element (`LeastNatural`, from the library's
theorem about well-founded relations).  Loops that drop entries of a list are written
with `Selected`, which names the positions that stay; the provers know nothing of
`SelectSeq`.

**Only model-checked** are the six liveness properties (Delivered, ConsumersExit,
CronGoesOn, SwitchEnds, DevicesGoOn, Flows): fairness rests on ENABLED, which is out of
the prover's reach.

## Where code and documents disagree

- **cron_once.**  `cron_service.h:22` promises that a once job is executed once.
  While the cron thread waits in its push, the agent removes a job in a lower
  slot; `j` then refers to the next job, which is disabled in place of the one
  that fired, and that one fires again at the next scan.
- **turn_trimmed.**  `agent_loop.c:440` says the loop saves the messages of this
  turn.  It starts at an index taken before the trim removed messages from the
  front, and leaves out as many messages of the turn, the user's first; a
  tool_use may be left out whose tool_result is saved.
- **role_text.**  `tool_registry.h:51` gives the tools text static lifetime.  A
  switch of role frees it (`tool_registry.c:110`), and a turn that fetched it
  before goes on giving it to the model; the turn's own switch_role suffices.
- **face_debounce.**  `sensor_face.h:15` promises three seconds of debounce.  One
  frame without a face clears `is_owner`, and nobody verifies again before the
  50th frame, while the absence is over at the 31st: the owner is reported to
  have left, and to have come back one frame later.

The exceptions of the conditional properties show more, which no run states as a
violation because it is the condition of a property that holds:

- `/clearhis` (`README.md:174` of the repository) between the read and the rename
  of a compaction (`session_mgr.c:110`) is undone by the rename.
- Two threads in `cron_save` may write in the other order than they took their
  snapshots.
- A restart of the stream (`hal_camera_stream.cpp:434`) clears the callbacks:
  clients that were listed, and those who join them, get no frames until all of
  them have left.
- A shell whose output ends before it does is not waited for: the loop breaks at
  the end of the output (`tool_shell.c:161`) and nothing after it calls `waitpid`;
  the status is lost and the shell stays a zombie.
- A preset renamed in the page without its key typed again is stored with the
  mask as its key (`ws_server.c:398`), and so is one that a page with an old list sends
  back after it was deleted elsewhere.
- A key or URL sent without a provider is stored, and not used until a provider is named
  or the program restarted (`ws_server.c:300`).
- A configuration above 8 KB is written (`kc_config.c:189`) and not read at the next
  start (`kc_config.c:43`), which begins with an empty one and overwrites it.
- A power loss between two saves of one handler leaves the model of one provider
  with the name of another.
- An append that cannot open the session file is dropped and the turn goes on
  (`agent_loop.c:443`): a tool_use may be saved without its result.
- Two switches of role at once may free one tools text twice (`tool_registry.c:110`), or
  join one sensor's thread twice.

Two behaviours of the bus that the model shows and no document denies: a push
whose wait expires fails without looking at `count` again, even if a slot has
become free meanwhile; and its one-second deadline is set anew at each wake-up,
so that a producer that loses each race for a slot waits on.

## Not modelled

Left out: texts and their sizes (prompts, JSON, truncation to buffers, the shell's
list of allowed commands), HTTP and the vendor protocols of the LLM proxy,
numerical code (KPU, detection, audio features, text to speech), device I/O, the
sensor state (a table of last values, each call one step under one mutex), the
skill and memory stores (files read or written in one call), the file, web, time
and hardware tools (one blocking call each), vendored code, and the board's build.
Most lines of the repository are of these kinds: a single header,
`hal/tts/include/pinyin_dict.h`, is a table of 41,500 lines, two thirds of all
source lines counted here, and `AudioFile.h`, cJSON and mongoose are vendored; the
share of lines that TLA+ definitions stand for is therefore small and cannot
become large, while the components that keep state across threads, files or calls
are modelled.

Assumptions on the environment: a rename or an unlink that has returned outlasts a power
loss; `mg_ws_send` (`ws_server.c:620`), called by the dispatcher while the server's thread
polls, is one step of `Pipeline`, as both work on mongoose's buffers without a lock and
the library is not modelled; memory does not run out where the code does not
handle it; the CLI's, dispatcher's and server's threads can be created (their
callers ignore the result, `serial_cli.c:486`, `serial_cli.c:508`,
`ws_server.c:595`); the terminal gives whole lines, or ends.  `pthread_*`, `time`,
processes and the file system are modelled from how the code uses them and marked
external in the map where a definition stands for nothing else.
