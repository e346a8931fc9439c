# bitaxe-fix in TLA+

A verification project for the firmware in `src/`: an ESP32 that drives a
Bitcoin mining ASIC, talks Stratum V1 or V2 to one of two pools, protects the
hardware against heat and undervoltage, and serves a web interface. The firmware
is a set of FreeRTOS tasks that share one `GlobalState` almost without locks.
The hard part is not what a task computes but what the others do between two of
its steps. That is what the modules here describe.

## 1. The system

| part | state | operations | talks to |
|---|---|---|---|
| work queue (`work_queue.c`) | ring of 12 job pointers, a free function per slot | enqueue, dequeue (blocking, timed), clear | Stratum tasks, job creation, coordinator |
| protocol coordinator (`tasks/protocol_coordinator.c`) | state, failure counter, heartbeat flag, shutdown flags, event queue of 8 | handle event, switch pool, probe, pause, resume | Stratum tasks (events, flags), work queue, power management (`pools_unavailable`) |
| Stratum V1 task (`tasks/stratum_v1_task.c`, `components/stratum/stratum_api.c`) | socket, line buffer, request ids and their timing, retry counter | connect, set up, receive lines, submit | coordinator, work queue, result task |
| Stratum V2 task (`tasks/stratum_v2_task.c`) | noise session, channel, ring of pending jobs, target, submit stamps | handshake, open channel, job / prev-hash / target messages, submit | coordinator, work queue, result task |
| job creation (`tasks/create_jobs_task.c`) | current work, its protocol, extranonce counter | dequeue, build ASIC jobs | work queue, ASIC, active jobs |
| ASIC results (`tasks/asic_result_task.c`) and drivers (`components/asic`) | active jobs, valid flags, job ids | match nonces to jobs, submit shares | Stratum tasks, scoreboard, statistics |
| power management (`tasks/power_management_task.c`) | pause flag, start failures, sensor deadline, filters, last voltage and frequency | stop, start with retries, overheat pause, govern | everybody, through `ASIC_initalized`, `hardware_fault`, `mining_paused` and `pools_unavailable` |
| regulator (`power/TPS546.c`, `power/vcore.c`) | registers of the chip, failure counter | initialise, program limits, set output, telemetry | power management, self test |
| tuning limits, autotune (`tuning_limits.c`, `tasks/autotune_task.c`) | last value corrected; search state | clamp and write back; climb, back off | settings, power management, HTTP |
| settings store (`nvs_config.c`) and its HTTP handlers | RAM cache, save queue, flash | get, set, asynchronous flash write, migrate, load | everybody |
| scoreboard, statistics | best shares and their flash slots, ring of samples | insert, thin out, read | results, settings, HTTP |
| self test (`self_test/self_test.c`) | factory flag, verdict, measurements | the checks in order, pass, fail, cancel | power, ASIC, button |
| WiFi (`components/connect`) | connected flag, AP state, address timer, scan | events of the driver, scan, toggle | Stratum tasks, boot, HTTP |
| WebSocket, log buffer | client table, log ring that survives a reset, last full state | greet, stream, broadcast differences | HTTP server |
| BAP (`main/bap`) | subscriptions, last values, send queue, line buffer | subscribe, request, set, update | accessory on a serial line |
| MQTT (`tasks/mqtt_task.c`) | client, certificate, failure counter | start, publish, stop, give up | broker |
| display (`screen.c`, `display.c`) | screen shown, timers, identify mode | the periodic callback, buttons | everybody's flags |

What is hard: producers, consumer and coordinator meet in the work queue while
its free function is swapped; stopped Stratum tasks live on for a while and
their events arrive after the switch they caused; a job changes hands four times
and its slot is reused while a share of it is on its way; five tasks set the
flags that power management reads once per turn, and a turn can take from 100 ms
to many minutes; a setting is queued, cached and stored at three different
moments and the power can go between any two; every step on the regulator, the
chips, the bus or the network can fail; timeouts race late answers.
`PROJECT.json` lists these hazards at their lines together with the properties
that would catch them going wrong.

## 2. Modules

| module | models | composes |
|---|---|---|
| `Fifo` | what `work_queue.h` promises: a bounded FIFO of jobs with their free functions | - |
| `WorkQueue` | `work_queue.c` and how its callers use it | refines `Fifo` |
| `Coordinator` | `protocol_coordinator.c` and the connection life cycle of both Stratum tasks | - |
| `PowerManagement` | `power_management_task.c`, `asic_init.c`, the clamps, the flags the others set | - |
| `JobPipeline` | protocol task, queue, `create_jobs_task.c`, driver table, `asic_result_task.c` as one chain | uses the queue as `Fifo` describes it |
| `Settings` | `nvs_config.c`, the handlers of `http_server.c` that store, the frequency clamp beside them | - |
| `Sv1Session`, `Sv2Session` | one run of the V1 and of the V2 task with the result task beside it | - |
| `Records` | `scoreboard.c`, `statistics_task.c` | - |
| `SelfTest`, `Autotune`, `Regulator` | `self_test.c`; `autotune_task.c`; `TPS546.c` and `vcore.c` | - |
| `Wifi`, `WebSocket`, `Bap`, `BapLine`, `Mqtt`, `Screen` | the links to the outside | - |
| `WorkQueue_proofs`, `Coordinator_proofs`, `PowerManagement_proofs`, `JobPipeline_proofs`, `Settings_proofs` | theorems about the module they are named after | extend it |
| `Interfaces_proofs` | theorems about `Mqtt`, `BapLine`, `Bap`, `Screen`, `Wifi` | extends them |
| `Tuning_proofs` | theorems about `Autotune`, `SelfTest`, `Regulator`, `Records` | extends them |
| `Streams_proofs` | theorems about `WebSocket`, `Sv1Session`, `Sv2Session` | extends them |
| `MC_Interfaces` | the six links in one run | extends them |
| `MC_Mining` | the sessions, records, self test, autotune, regulator and a two-producer queue in one run | extends them |
| other `MC_*` | an instance for TLC each | - |

A behaviour of `MC_Interfaces` or `MC_Mining` is a behaviour of one part, chosen
in the initial state; the parts share no modelled state, so interleaving them
would multiply the states and show nothing more.

Operators named `Mut_...` are wrong versions of the definition they precede (a
dropped guard, a missing reset). No specification uses them. Substituting one
for its definition makes TLC report the property that it is meant to break,
which shows that the property depends on that line of the code.

### WorkQueue

The body of a call between `pthread_mutex_lock` and unlock or `cond_wait` is one
action. `pc[t]` says where thread `t` is: `"enq"`, `"deq"`, `"deqt"`, `"clear"`
inside the call and before the lock, `"..._wait"` in a condition wait, `"idle"`
outside. `pthread_cond_signal` (in `ReturnAndSignal`) wakes one arbitrary
waiter, if any, which must take the lock and test the condition again.
`SpuriousWakeup` is POSIX's permission to return without a signal. The producers
also call the blocking `queue_dequeue` to drop the oldest job when they read a
full `count` without the lock, as both Stratum tasks do. `SetFreeFn` is the
unlocked assignment with which a protocol task installs its free function.
`captured` is a history variable: the free function in force when a job was
enqueued.

### Coordinator

`state`, `failures`, `heartbeat`, `runningProtocol` and `shutdown` are the
file's statics (`s_state`, `s_consecutive_pool_failures`, ...), `events` is
`s_event_queue` and `Post` the send without waiting, which loses an event when
the queue is full. `pc` is where the coordinator task is: in its receive, in a
probe (during which others run) or in the stopping loop, which polls the event
queue and discards every event that is neither the exit it waits for nor a
failure. `RunOn` collects what every move to a pool does: clear the queue and
the share statistics (`backlog`), set the flags, start the task.

A Stratum task is a record: its phase in the connection loop, its protocol, the
pool it talks to and its retry counter. A pool is `"down"`, `"good"` or
`"rejecting"` (it answers and refuses). Probes differ as in the code: an SV2
pool is reachable when TCP connects, a V1 pool when it sends a job. The pool
settings are read at boot, so `settings` is chosen in `Init`. `PromptExit`
states the assumption that a stopped task exits within the ten-second wait;
`failureLost` is a history variable.

### PowerManagement

`pc` cuts one turn of the loop where other tasks can run: the frequency ramp of
`mining_stop` (up to seven seconds), the delays of `mining_start`, the cooling
loop. Readings are classes, since the code only compares them with thresholds;
the exponential filters move towards the reading by any amount. Time is counted
in turns for the sensor deadline. `VCORE_set_voltage` can fail having changed
the output or not. A setter, the task's own included, appends to `saves`, of
which `SaveSetting` (nvs_task) takes one update at a time to the cache that every
getter reads; `RestartReduced` queues the reduced settings and `RestartMining`
reads whatever the cache then holds. `excursion` remembers whether a voltage above
the one at the last overheat was asked for since. `BootDetects` and `BootMarks` are `asic_initialize` in
`app_main`, which runs beside the task on a cold boot. The chip reading is
`"none"` while the ASIC is down, as `Thermal_get_chip_temp` returns -1.

### JobPipeline

A job is a number with the kind it was allocated as (V1, SV2 standard, SV2
extended) and the session it came from. The protocol task receives, enqueues
(dropping or clearing as the handlers do), reconnects and is switched to the
other pool by the coordinator; `create_jobs_task` dequeues with a timeout, checks
the protocol, frees the old work, generates ASIC work and puts it into the
driver's table; the chip finds a nonce for whatever it was given last in a slot;
the result task looks the slot up, takes a snapshot and submits later. A protocol
task may end anywhere in an iteration of `create_jobs_task`, which reads protocol
and channel flag several times; `released` says that one has, until the next
dequeue. `miscast`,
`repeated`, `misattributed` and `freed` are history: a job read as another kind,
the same work sent again, a share submitted for a job its nonce was not found for,
the jobs freed.

### Settings

`SetNext` is one setter of a request: it compares with `cache` and appends to
`saveQueue`, waiting while the queue is full. `TakeUpdate` and `WriteFlash` are
the two halves of `nvs_task`. `Crash` loses power and everything but `flash`; the boot then
runs the migration of older keys and the load, step by step, and can be
interrupted too. `accepted` and `atBoot` are history, from which the properties
recompute what cache and flash must hold.

### Sessions: Sv1Session and Sv2Session

`Sv1Session` keeps `json_rpc_buffer` as a sequence of bytes that know their
connection and line; reads bring chunks of any size up to a limit, so that lines
are split and joined in every way. What the pool says is chosen when the line is
handled, which covers every parser's outcome. `carried` remembers that buffer or
timings are left over from an earlier connection, which the code does not reset
on every path (section 5); `overrun`, that the request ids came round to the
timing slot of a share that had no answer yet. `Sv2Session` keeps the ring of pending jobs, the
previous hash, the stamps of submitted shares and which parts of the link exist;
the result task's submit is split where the code releases or skips the lock.

### Records, SelfTest, Autotune, Regulator

`Records` compares the board in memory with its slots in flash while the queued
writes are carried out one at a time and a reset can come between them; the
statistics are the times of the samples, thinned as in the code (the bisection
for the sample to drop is a recursive function of its turns), with a reader that
goes on by index. `SelfTest` has a step for every check in its order, each
of which may fail, with nonces, measurements and the button beside it; the flag
has a cached and a stored value. The power task runs beside the test
(`PowerNext`): it looks for the end of the test only at the top of its loop, and
may overheat and start the chip again in between. No other task can pause it, as
the API is not up in a test. `chipOn` is a chip with its voltage and out of reset.
`Autotune` counts time in polls and keeps, as history, the ages that its timing
promises are about and the frequency that its last step came down from
(`unstable`); its updates are queued, a step makes two of them, and a reset may
lose both or the second (`SaveFloat`, `TunerReset`). The user may edit the stored
tuned frequency too. `Regulator` has the
arithmetic of the two number formats of the chip (11-bit and 16-bit linear, with
their rounding towards zero) and the configuration of three boards, so that
`LimitsProgrammed` is about what the chip reads back: the current, voltage,
temperature and margin limits and the times of switching on and off.

### The links: Wifi, WebSocket, Bap, BapLine, Mqtt, Screen

`Wifi` has the driver's event queue, the handler that sleeps in the event task,
the scan of the HTTP task, the address timer and the access point; `excused`
records the two ways in which the code leaves the station alone (a client on the
access point, an event swallowed by a scan). `WebSocket` numbers log bytes by
absolute position, so that a cell that holds the wrong byte is visible, and
numbers the state of the system by version; a greeting or a broadcast may reach
its clients or not, and `unsent` remembers whom one did not. `Bap` has handlers, update task and
send task around the mutex that each waits for at most 100 ms, on a clock that
wraps; `BapLine` is the byte-wise state machine of the receive task. `Mqtt`
splits the stop of the client, during which its events still arrive. `Screen` is
one callback of the display with the conditions that interrupt the carousel, a
panel whose driver may fail and the layer with which identify mode covers every
screen.

## 3. Runs

All run in under two and a half minutes with two workers.

| run | what it shows |
|---|---|
| `WorkQueue` | one Stratum task, consumer and coordinator, free functions swapped at any moment: `TypeOK`, one owner per job (`ExclusiveOwnership`), its own free function (`FreedAsCaptured`), the ring implements `Fifo`, and a blocked enqueue ends (`EnqueueReturns`) |
| `Coordinator` | V2 primary, V1 fallback, with fail-over, with the fallback chosen by the user and with one pool only: at most one task, idle when paused, no foreign work after a switch, and `MiningComesBack` unless a failure report was lost |
| `PowerPause` | pauses, lost pools and every fault, from a cold boot or on a running device: a pause ends (`PauseEnds`); and of a device that has been mining, not of one that still boots, a stopped ASIC is down, a running one up, and a fault stops it for good. Nothing overheats here, so the part of `StoppedMeansDown` about cooling is left to its proof |
| `PowerOverheat` | overheats with a failing regulator and settings queued at any moment: the ASIC restarts cooled, and no higher than it overheated unless somebody asked for it (`RestartsCooled`) |
| `JobPipeline` | a V1 pool beside an SV2 pool of either channel type, switches, reconnects, pauses and ending tasks at every step: a job is freed once and never lost (`JobsFreedOnce`); it is read as what it is (`CastSafe`) and never sent twice over an open channel (`NoRepeatedWork`), but for the iteration in which a protocol task ends; and a share carries its own job (`ShareIntact`) |
| `Settings` | requests, the clamp, losses of power, failing flash writes and migration: cache and flash are always what a prefix of the accepted updates makes of the boot's settings, a key is missing from flash only while nobody has set it, and a request is answered |
| `Interfaces` | the six links: the station keeps trying, the connected flag is true and the device reachable; log chunks are whole, in order and once; API clients that every frame has reached are not left behind; an accessory shows what the device believes it shows; no byte past the line buffer; no MQTT client without its certificate or after its release; an alarm is on the display two callbacks later, under nothing but identify mode |
| `Mining` | V2 work is on the newest previous hash and no response time comes from an older share; V1 lines are whole and verdicts counted once; scoreboard and samples survive resets and readers; the factory flag is earned, and a verdict leaves the chip in reset but for one restart by the power task; autotune climbs only after its windows and never resumes at what it stepped down from; the regulator's output and limits are as the board asks, whatever transfer fails; no wake-up of the queue is lost between two producers (`NoMissedWakeup`) |
| `CoordinatorStray`, `PipelineCast`, `SettingsOverclock`, `BapTimeout` | disagreements between comments and code, see section 5 |

**Bounds.** A ring of two slots wraps with three enqueues and is full with two.
The `WorkQueue` run has one producer because beside a second one, which may
refill the ring for ever, an enqueue need not return; the queue in the `Mining`
run has two producers and four jobs, so that both can block on a full ring while
it is cleared, spurious wake-ups, and one free function, since the invariant
there does not look at it. Two task identities are enough for one live task and
one that is being replaced or has become a stray. An event queue of two instead
of eight overflows after three events. Two retries instead of three only shorten
the way to a failure; one poll of the stopping loop (`StopPolls`) still separates
"exited in time" from "gave up". Frequencies and voltages of `PowerManagement`
are small numbers on which a reduction both stays inside the envelope and leaves
it; three start failures are the code's own number; in `PowerPause` a sensor
timeout of 2 turns and a grace of 4 keep the two apart (330,522 states).
`PowerOverheat` has two voltages, so that one can be asked for above the other,
one frequency and readings that are cool or hot, since its property is about
heat, cooling and voltage. A save queue of two in both, instead of twenty, holds
both reduced settings, or one of them behind a setting of the user. `JobPipeline` has a queue of one, two
driver slots, two jobs, two connections and two extranonce values per job: a slot
is reused while a share is on its way, and a switch finds a job queued, dequeued
or current. `Settings` has a queue of two and three requests, so a setter blocks
and a second request meets what the first left queued; one loss of power at every
point. The session modules have two connections (something can be left over),
two ring slots of V2 (they wrap at the third job) and three timing slots of V1
(the ids come round to a share that is still unanswered), lines of one to three bytes
read in chunks of up to two, and limits which a line can pass. The log ring of
three bytes is overwritten twice within six, and the search for the next line,
4 KB in the code, is cut short after two; two versions of the state are enough for
a client that misses one. `Autotune` has three presets and users' values below,
between and above them. `Records` has a
board of three slots, and five samples that are thinned several times within
twelve. `Regulator` uses the real voltages of three boards and two failing
transfers.

In `Settings`, `Interfaces` and `Mining` (and in `SettingsOverclock` and
`BapTimeout`) the bounded inputs run out, so a final state is no
deadlock of the code and `CHECK_DEADLOCK` is off. It is checked in the others.

**Fairness.** `WorkQueue`: every ready thread runs; `create_jobs_task`, at
priority 20 against the producers' 5, is strongly fair in its dequeue; no
endless series of spurious wake-ups (each would re-arm the timeout).
`Coordinator`: coordinator and tasks run, their waits and connection attempts
have timeouts; a pool whose connection stays usable answers the setup (strong
fairness, since connections come and go). `PowerManagement`: the task, the boot
and the clock proceed; nobody is obliged to request anything, and nothing
obliges the device to cool down. `Settings`: `nvs_task` and the HTTP task run
whenever they can. The other runs check safety only.

## 4. Proofs

All the safety properties that the runs check, thirty-five of the forty, are
theorems as well; the other five are liveness. The theorems hold for every value of the constants: any number of threads, tasks, clients, jobs, keys
or topics, any size of queue, ring or buffer, and as many faults, connections and
losses of power as one likes. Eight modules hold them; each argument has the same
form, an inductive invariant with one step per action of `Next`.
| theorem | property | hypotheses |
|---|---|---|
| `WorkQueue_proofs`: `TypeCorrect`, `Safety`, `FreedWithItsFunction`, `Refinement` | `TypeOK`, `ExclusiveOwnership`, `FreedAsCaptured`, `ImplementsFifo` | - |
| `WakeupsAreNoticed` | `NoMissedWakeup` | finitely many threads |
| `Coordinator_proofs`: `OneTaskAtMost`, `PauseIsIdle`, `NothingForeign` | `OneTask`, `PausedMeansIdle`, `NoForeignWork` | `PromptExit` |
| `PowerManagement_proofs`: `StopHolds` | `StoppedMeansDown` | - |
| `RunningHolds` | `RunningMeansUp` | `NoSilentRestart` |
| `CoolingHolds` | `RestartsCooled` (an action property) | `"chips"` is not in `Faults`, `ReductionReduces` |
| `JobPipeline_proofs`: `JobsHaveOneFate`, `SharesKeepTheirJob`, `WorkIsNew` | `JobsFreedOnce`, `ShareIntact`, `NoRepeatedWork` | - |
| `CastsAreSafe` | `CastSafe` | `OneChannelType` |
| `Settings_proofs`: `CacheHoldsPrefix`, `FlashHoldsPrefix` | `CacheIsPrefix`, `FlashIsPrefix` | - |
| `Interfaces_proofs`: `ClientIsOwned`, `AlwaysKeepsTrying`, `AlwaysReachable` | `ClientOwned`, `KeepsTrying`, `ReachableAndTruthful` | - |
| `LinesFit`, `AlarmIsShown`, `AccessoryIsCurrent` | `LineFits`, `AlarmOnDisplay`, `AccessoryCurrent` | types of the constants |
| `Tuning_proofs`: `ClimbsAreEarned` | `NeverRash` | `TunerConstants` |
| `VerdictIsEarned` | `TestEarned` | type of `Expected` |
| `OutputIsAsAsked`, `LimitsAreProgrammed` | `OutputAsAsked`, `LimitsProgrammed` | the three boards |
| `SamplesStayInOrder` | `SamplesInOrder` | a buffer of two samples or more |
| `SearchEnds` | the bisection ends, inside the buffer | the same, and ascending times |
| `ScoreboardIsSafe` | `ScoreboardSurvives` | a board of one place or more |
| `Streams_proofs`: `ClientsAreCurrent` | `ApiClientsCurrent` | -1 is no descriptor |
| `StreamIsIntact` | `LogStreamIntact` | `LogConstants` |
| `LinesAreWhole` | `LinesWhole` | - |
| `VerdictsAreCounted` | `VerdictsCounted` | a positive number of slots |
| `WorkIsOnNewestHash`, `ResponseTimesAreFresh` | `JobsOnNewestHash`, `ResponseTimeNotStale` | a positive queue length, number of slots |

**Hypotheses.** "-" means nothing beyond the `ASSUME`s of the module, which TLC
evaluates in its runs: sizes are positive, NULL is no job, the settings' keys are
distinct, voltages and frequencies are positive and ordered. The others say where
the code is right:

* `PromptExit`: a stopped Stratum task is gone within the ten seconds that
  `protocol_coordinator.c` waits. `CoordinatorStray` is the run without it.
* `NoSilentRestart`: no overheat meets chips that stay silent in the restart,
  whose result line 354 of `power_management_task.c` ignores. `RestartsCooled`
  needs chips that answer for the reason given in section 5, and
  `ReductionReduces`: subtracting the reduction from the lowest voltage a
  regulator takes does not fall back to the default (100 mV against 800 mV and
  more, `vcore.c:158`), which may be higher.
* `OneChannelType`: no device has two SV2 pools of different channel types.
  `PipelineCast` is the run without it.
* `TunerConstants`: the presets strictly ascend, frequencies are numbers and the warm-up is no shorter than the
  cooldown (5 minutes and 1 minute, `autotune_task.c:18-20`). Otherwise switching
  autotune off and on would shorten a cooldown: a condition the file relies on
  without saying so.
* `LogConstants`: the ring holds the longest line.

**The inductive invariants**, each more than the property it is for:

* `IInv` of the queue: type, `RingInv` (head, tail and count agree),
  `ExclusiveOwnership`, `FreedAsCaptured`. That enqueuing keeps owners apart
  needs that the tail slot is outside the queued positions. The refinement maps
  `fifo` to the sequence of queued pairs; every action is a put, a take, a flush
  or a stutter. This entitles `JobPipeline` to treat the queue as a sequence.
  `NoMissedWakeup` is inductive by itself once the type invariant is known; the
  steps count the awake dequeuers.
* `TypeInv` and `CoordInv`: a failure counter below its threshold while not
  paused; one live task (`Sole`), the last word of a task that has gone is the
  last event in the queue (`LastWord`), no task while idle or paused (`Silence`),
  and a stopping loop that counts a poll has nobody left (`NothingLeft`).
* `PauseInv`, `Up`, `Cooled`: where in the turn the pause flag, the supply and
  the overheat flag may have which value; stored and queued voltages stay at or
  above the regulator's minimum, or the reduction could raise one. `Within`: while
  nobody has asked for more, the cache and every queued voltage are at most the one
  at the overheat after clamping (`Bounded`), so whichever of them the restart
  reads, it is no higher. This is why the restart may come before the update.
* `JobInv`: every received number is in exactly one of queue, hand, current work
  and freed. `RepeatInv`: work that was sent belongs to a freed job or to the
  current one with a smaller roll. `CastInv`: what is queued or in hand is of the
  pool in use, and the extended flag stays up as long as an extended job exists;
  of the work in hand `RepeatInv` and `CastInv` say so while `released` is false.
* `SettingsInv`: type, what a request may still set, the order of queue and saver
  against `accepted`, and cache and flash as replays of a prefix. The lemmas
  `ReplayStep` and `ReplayPrefix` say what one more update does to a replay.
* `MqttInv`, `LineInv`, `ScreenInv`, `BapInv`: which fields a state of the loop
  implies. `AllBelieved` of `BapInv` follows a value from the mark to the queue
  and to the display: the last queued message of a topic, or the display if there
  is none, is what the device believes.
* `WifiInv`: `Settled` says that the last pending event of a pair (got address or
  disconnected; access point started or stopped) agrees with the driver, and the
  flag does when none is pending; `Ahead`, that an idle station has an event or
  the sleeping handler ahead of it.
* `TunerInv`: the task's own ages bound the ages of the history from below.
  `Remembered`: what autotune would resume from, once the queued updates are
  stored, is below what it stepped down from, and so is a queued update.
  `TestInv`: what each later check may assume of the earlier ones; `Powered`: under
  a verdict the chip is in reset, or the power task has revived it and is asleep
  or gone, from where it cannot do so again. `RegInv`: the
  command register holds a voltage of the board's range while the output is on
  and before it is switched on. `LimitsInv`: the registers written so far hold the
  encoded value unless their write failed (`Programmed`), and nothing but
  `TPS546_set_vout` writes one afterwards.
* The number formats of the regulator have a lemma each. `FloatBack`: every value
  from 0.032 to 1024 that is written as SLINEAR11 and read back has lost less than
  one part in 512 (the mantissa has at least 512 steps there); `IntBack` the same
  for integers and `UlinearBack` for the voltages. The limits of the boards are
  instances.
* `SamplesInv`: the samples ascend, up to the clock, and what the reader was sent
  last is older than every sample it has still to read. It needs that the sample
  that is dropped exists, which is `SearchEnds`: a turn keeps a part of the span
  that is not empty and is shorter, so after as many turns as there are samples
  the loop `while (high - low > 1)` has ended.
* `BoardInv`: there is a `Course`, the states which flash passes through while the
  queued writes are carried out: it begins with flash as it is, ends with the
  board, each state is in order and without a gap, and an entry of the board is in
  each of them unless its first write is still to come. `CourseExtends` appends
  the writes of a new share, which go from the last place up; in the other order
  an entry would be overwritten before it was copied down.
* `TableInv`, `ViewInv`: the count of clients is that of the occupied slots, a
  descriptor has one slot, and the view of each client that missed no frame is as
  new as the baseline.
  `LogInv`: the last `LogSize` positions since the reader are in their cells.
* `LineInv`, `VerdictInv` of the V1 session: the bytes in the buffer are
  bytes of this connection, in order, a line changing only behind its end, and the
  unfinished one is the line being received; counted verdicts, timed slots and a
  share being sent are together no more than the shares, and no slot holds an
  older share than a request that could be answered from it.
* `JobsInv`, `StampInv` of the V2 session: every job is clean, so the queue holds
  one at most and none before the channel is open; a share is stamped before it
  is sent, so the slot of an unacknowledged one holds its stamp, a later one or
  none.

**Only model-checked.** Liveness (`EnqueueReturns`, `MiningComesBack`,
`FaultStopsForGood`, `PauseEnds`, `RequestReturns`): fairness and ENABLED are
outside the proof system's reach.

## 5. Where the code and its comments disagree

With a run each, whose counterexample shows the disagreement:

* `CoordinatorStray`: "No protocol task is running" in `COORD_STATE_PAUSED`
  (`protocol_coordinator.c:24`). A V1 task that outlives the ten-second wait is
  adopted again when `start_v1_task` clears the shared flag.
* `PipelineCast`: "Safe to cast" (`create_jobs_task.c:107`). Two SV2 pools of
  different channel types have the same protocol; `stratum_v2_task.c:773`
  publishes the new channel flag while a job of the other type is still current.
* `SettingsOverclock`: "overclockEnabled may arrive in the same body, so honour
  that" (`http_server.c:961`). The clamp can run between the two updates and
  store a reduced frequency behind them.
* `BapTimeout`: "5 minutes without refresh" (`bap_subscription.c:225`,
  `bap_readme.md:202`). The time is read before the mutex is taken; a
  subscription renewed in between is later than it, the unsigned difference wraps
  and the subscription expires at once.

Read in the source while modelling, without a run of their own. Each is in the
model as the code has it; properties name the exception where they need one.

* Coordinator: "All configured pools have exhausted retries" (line 358), although
  the counter survives a return to the primary (line 309).
  `protocol_coordinator.h:16` says success means an accepted setup,
  `stratum_v1_task.c:438-444` reports it for a rejected one too.
* Power: an ASIC that does not come back must not be declared running (line 252),
  the overheat restart does it (line 354). "Whichever governor is more
  restrictive wins" (line 430), but a throttled frequency is not applied again
  after a pause (line 473). Lines 466-467 say the frequency is not raised when the
  voltage could not be set, line 473 does it. `ASIC_initalized` is cleared "so
  tasks stop issuing UART commands" (line 73), the cold boot can set it afterwards
  (`asic_init.c:61`). Line 306 says boards with an internal sensor can read it
  while the ASIC is down, `thermal.c:76` returns -1. Line 41 says the grace
  period covers re-initialisation, an overheat restart gets none. "Restoring at
  reduced settings" (line 351): the reduced settings are only queued, for a task of
  lower priority, and `mining_start` three lines later usually reads the old ones,
  or higher ones the user has stored during the cooling (`RestartsCooled`: never
  higher than at the overheat unless somebody asked for it). A higher voltage that
  the restart used stays in force when the settings then come back to
  `last_core_voltage`, which mining_start does not update (line 473). After a failed
  restart that followed cooling, the overheat flag stays set and a user's pause
  and resume restart without cooling (`PowerOverheat` leaves out the chip fault
  for this reason).
* Pipeline: the comment at `create_jobs_task.c:70-72` on the first job after a
  switch is contradicted by lines 95-104, which discard it. After an SV2 extended
  reconnect the connection is zeroed while the channel flag stays set, so the same
  work goes out again with an empty extranonce (`NoRepeatedWork` speaks of open
  channels); the zeroing also drops pending jobs without freeing them and runs
  without `sv2_conn_lock`. "Safe to cast" (line 107) is about
  one reading of the protocol, but the channel flag is read again and again: when
  `sv2_conn_release` (`stratum_v2_task.c:192-199`) clears it between lines 159 and
  178, or 89 and 108, an extended job is cast to a standard one and sent without
  an extranonce (`released`; up to the next dequeue).
  A clean notification that meets an empty queue, and a
  switch from V1 to V2, leave `valid_jobs` set.
* V2 session: the inner receive loop never looks at the shutdown flag; the first
  previous hash enqueues other pending jobs as clean behind the one it names; a
  share may be submitted through a connection newer than its job's.
* V1 session: after `client.reconnect` or a pause the line buffer and the request
  timings carry over to the next connection (`carried`). The time stamp of a
  request is taken after it is written. When the ids go round the timing slots
  while a share is unanswered, its answer is timed from the newer one
  (`overrun`). A task whose pool stays silent does not
  see the shutdown. At `stratum_v1_task.c:353` a producer that read a full queue
  can fall asleep in the blocking dequeue when the queue was emptied meanwhile.
* Settings: `http_server.c:864` reloads the pools from a cache that the queued
  updates have not reached. A setter compares with the cache, so setting A again
  behind a queued B is lost. A placeholder password behind a queued new one keeps
  the older one (against lines 821-824). `migrate_legacy_pools` is not atomic
  (`nvs_config.c:219`). `tuning_limits.c:44-46` says a corrected value is stored; the
  second identical one is not. An upload that fails leaves `is_firmware_update`
  set, and the OTA one skips `esp_ota_abort`.
* WebSocket: a client greeted while the API task hibernates can miss a change,
  and a full state made before a broadcast can be sent after it (`raced`). A frame
  that could not be sent (`websocket.c:102`) or composed (`websocket_api.c:46-73`)
  is only logged while the baseline moves on (line 124), so that the client misses
  the change until it connects again (`unsent`). A restart in the middle of a write
  to the log leaves bytes behind the end of the log; the stream begins behind them,
  and a reader from further back is not modelled.
* WiFi: an event swallowed by a scan may leave the station without a retry and the
  client count wrong; with clients on the access point a lost station is neither
  retried nor reported (`excused`).
* BAP: `SET frequency` programs the chip from the receive task without a lock;
  `last_values` is marked before the message is queued (`lostSince`); a command
  that ends in CR LF is handled twice, against `bap_readme.md:107`.
* Coordinator and sessions: a FAILED that meets the full event queue is lost and
  nobody restarts the pool (`failureLost`). A V1 verdict that is answered before its
  request is stamped is taken for a setup answer and not counted.
* Records: SV2 standard shares have an empty extranonce2 (`create_jobs_task.c:314`),
  which the load after a reset cannot parse (`blank`).
* Self test: a long press before the failure cancels the factory test at once,
  against the comment at line 780. `tests_done` does not look at the result of
  `VCORE_set_voltage(0)` (line 749): a chip that keeps its voltage is only held in
  reset. The power task sees the end of the test at the top of its loop alone
  (`power_management_task.c:180`); one that was in a turn or cooling when the test
  ended may start the chip under the verdict (line 354), once (`revived`).
* Screen: after an alarm the carousel walks through the status screens; a request
  to end identify mode can be lost. Identify mode covers an alarm
  (`screen.c:463-468`), and while `display_on` fails (`display.c:255`) the panel
  stays dark, without a message.
* MQTT: without WiFi the loop at 271-274 comes before the give-up at 293, against
  lines 22-25.
* Autotune: "last confirmed-stable frequency" (50-52) is stored before it is
  confirmed; the header (11-15) says either signal backs off, only the error rate
  does. The two updates of a step (112-113) can be torn by a reset, after which
  autotune resumes at what it stepped down from; so it does after the user has
  stored a tuned frequency, which the API accepts (`nvs_config.c:67`). At the lowest
  preset a back-off stores nothing.
* Regulator: `read_failures` counts across getters and any success resets it,
  against lines 743-746; `TPS546_set_vout` returns success when OPERATION does not
  read back as on; the initial OPERATION_OFF may fail unnoticed, against "Make sure
  power is turned off until commanded" (line 405).

## 6. Not modelled, and the plan

`PROJECT.json` lists every component with its status. Left out for good: hashing
and byte order (`mining.c`), the coinbase decoder, SV2 framing and cryptography
(data without protocol); registers, CRC and PLL of the ASIC and thermal drivers
and the fan's PID (floating-point control); the captive portal's DNS server,
vendored; presentation (display layout, Angular front end, HTTP file serving and
uploads); the T-Watch panel, a separate device that polls the API.

Planned: the composition of `Coordinator` and `PowerManagement` through
`pools_unavailable` and `ASIC_initalized`.
