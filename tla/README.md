# Verification of t5_ai_coffee

TLA+ models, TLC runs and TLAPS proofs about the touch-screen program of an
espresso and tea machine: the C++ code under `src/src` (pages, pop-ups,
protocols) on top of the cdroid view library, talking to the machine's
controller (the *MCU*) over a serial line, to the Tuya cloud through its SDK and
to a voice assistant over TCP.

The program is in effect one event loop. View callbacks, the timer of the window
manager, the MCU's frames and the cloud's commands all end up on the main thread
and run to their end there; beside it run two worker threads for what would block. What
makes the pages hard is not preemption but *who calls whom*: a handler starts and stops work by pressing buttons (`performClick`),
buttons ask pop-ups, pop-ups call `updateDate`, and `updateDate` presses buttons.
So the interesting questions are about long sequences of events from four
actors (user, MCU, cloud, assistant) and about what a handler finds when another
one has run since it was armed.

## 1. The parts of the system

| part | where | state | operations | talks to |
|---|---|---|---|---|
| window manager | `windows/wind_mgr.cc`, `page_base.cc`, `page_screensaver.cc` | shown page, kept pages, sleeping page, delayed-deletion list and its message, back list, one pop-up | showPage, showPrevPage, showHomePage, showPopPage, screenSaver, updateDate, handleMessage | every page and pop-up; called by MCU and cloud code through updateDate |
| home page and tabs | `windows/page_home.cc`, `home_tab_mode_{esp,americano,mas_esp,handwash,tea}.cc` | tab, group, buttons drawn as working or reacting, `machineState`, `eqStatus`, tea step | clicks, arcs, updatePageData, dealWarnStatus, dealTuyaExt, dealAiExt | `CConnMgr` (commands to the MCU), `TuyaOsMgr` (reports), window manager (pop-ups) |
| warning pop-up | `windows/pop_warn.cc` | warnings listed, the one asked about, the reminder's two weeks | confirm, clean now, later, updatePageData | `warnState`/`warnIsDealState`, updateDate(CS_WARN_CLOSE) |
| tea and rebrew pop-ups | `pop_normal.cc`, `pop_tea_rebrew.cc` | the callback that the tea tab gave | enter, cancel | tea tab |
| frames of the MCU | `protocol/conn_mgr.cc` | bits of `machineState`, preheat percentage, ground weight, `warnState` | onCommDeal | updateDate |
| cloud reports and commands | `protocol/tuya_os_mgr.cc` | connection state, last values sent, values kept while offline, timers, command queue | onNetStatus, reportDpData, reportAllStatus, handleEvents, onDpCommDeal, dealTuyaCallback | SDK threads; updateDate |
| voice assistant | `protocol/t5_conn_mgr.cc`, `tcp_conn_mgr.cc` | recipe received | JSON commands | updateDate |
| clean page | `windows/page_clean.cc` | kind and step of the cleaning, bits of `machineState` | changePageStep, updatePageData, buttons, stop pop-up | MCU, cloud, window manager, warning pop-up |
| setting, factory, calibration pages | `page_setting.cc`, `page_factory.cc`, `page_scale_calibration.cc` | switches, factory flag | navigation, pop-ups | window manager |
| upgrade of the MCU | `conn_mgr.cc` (boot loader), `pop_normal.cc` | packet counter, bytes sent | sendBootLoaderData and its acknowledgements | serial line |
| serial line and frames | `uart_client.cc`, `mcu_ui.h`, `packet_buffer.cc` | receive buffer | add, complete, check, onUartData | MCU below, conn_mgr above |
| task pool | `common/comm_class.cc` | waiting and finished tasks, status and task of each worker | add, handleEvents, onThread | whoever adds a task; `onMain` on the main thread |
| network check | `main.cc` | `mNetChecking`, `mPingFailCount`, `netOk` | the tick, onTask, onMain | task pool, title bar, pages |
| the rest | favourites tab, side button, sockets, Wi-Fi, downloads, configuration, view library, I2C, power button | | | |

Every part, with the reason when it is not modelled, is a row of `components`
in `PROJECT.json`; every place where this code can go wrong in a way that is
hard to test is a row of `hazards`, with the properties that watch it.

### What makes each part correct

* *Window manager*: no pointer to a deleted page; nothing in use is deleted;
  what is queued is deleted in the end and no page is forgotten; the page under the
  screen saver comes back; a pop-up's callback finds its page.
* *Home page*: one job at a time; buttons show what the machine does; a job does
  not start against a warning and does not survive a fault; a job that is done
  stays done and is counted once; the page stays usable; no handler recurses
  for ever.
* *Warning pop-up*: every warning is put to the user; confirming the last one ends a
  job that waited for it; a reminder put off stays away.
* *Cloud reports*: whatever the connection does, the cloud learns the truth in the
  end; a state reported is the state the machine is in.
* *Clean page*: "done" means that every round was done; nothing cleans that the program
  has forgotten; only a button or a command starts a cleaning; while it says "cleaning", something
  cleans.
* *Serial line*: on an undisturbed line every frame arrives, once, in order and at once; after
  a disturbance the receiver finds the frames again.
* *Task pool*: a task is run by one worker and told to the main thread once, in order; every task
  comes back. (That it is not touched after that is not so: its id is read once more for the log,
  see below.)
* *Network check*: one at a time; a network lost or back for good is noticed.

## 2. The modules

### WindMgr (with MCWindMgr, WindMgr_proofs)

The pages are *heap objects*: `heap[o]` is the type of the page allocated in slot
`o`, and a new page takes any free slot, so that a stale pointer is visible (its
slot is free) or aliases a younger page, as in C++. `show`, `homePage`,
`settingPage`, `preAction`, `closeList`, `pageList`, `pop` are the members of
`WindowManager`; `closeTimer` says that `MSG_PAGE_DELAY_CLOSE` is on its way.
`ShowPage(t, isNew, list)` is `showPage` with its branches as disjuncts, in the
order of the source: the page is already shown (`Shown = t`), a kept page
(`ShowKept`), the sleeping page comes back instead (`ShowSleeper`), a queued page
is taken off the list (`ShowReused`), a page is created (`ShowNew`).
`Listed` keeps the operator precedence of `wind_mgr.cc:106` (`&&` before `||`).
The actions are the handlers that navigate: the title bar, the hidden entries of the
setting page, the screen saver and waking, the stop-clean and warning pop-ups,
the cloud's brew and clean commands, the assistant's way home (`AiData`), and the delayed
message `DelayClose`.

A pop-up records the page its callbacks captured (`owner`), because the callback
of the stop-clean pop-up uses the page's `this` (`page_clean.cc:324`). Work is
abstracted to two bits (`BREW`, `CLEAN`), which is all navigation looks at.

`orphaned` is a history variable: it is true while a stop-clean pop-up is open whose page was
made to leave, by the cloud's stop of the cleaning (`TuyaCleanStop`, `page_clean.cc:174`) or by
the assistant, which goes to the home page and leaves the pop-up open (`AiData`,
`wind_mgr.cc:357`). In these two cases the page is deleted 100 ms
later under the pop-up, so `PopOwnerLive` says "alive, unless orphaned";
`EnterStopClean` then reads `mIsSelectWater` of a dead object, modelled as a
nondeterministic choice of the cleaning that is stopped.

### HomeBrew (with HomeBrew_proofs, HomeCoffee_proofs, HomeMachine_proofs)

One record, `home`, holds the page's widgets and the fields of `g_appData` it works
on; the comment of each field names its source. Because a handler presses other
buttons before it returns, a handler is an *operator from state to state*
(`BeanClick`, `CupClick`, `HotClick`, `StopTea`, `SetGroup`, `DealWarn`,
`WarnClosed`, ...), composed in the order of the calls; an action applies one to
`home`. Where the code's branches are alternatives of an if/else chain the operator is a `CASE`.

* User: `TapBean` ... `WakeUp`. A pop-up covers the page (`AtPage`); levels and
  visibility that hide a widget are guards (`SlideDose`, `SlideWater`).
* MCU: `PreheatDone`, `Reheat`, `GrindDone`, `BrewDone`, `HotWaterDone`,
  `SteamDone`, `WarnFrame` are `onCommDeal` followed by `updateDate` down to the
  page's `updatePageData`.
* Cloud and assistant: `Tuya...` and `Ai...` are the branches of `updateDate`
  and of `dealTuyaExt`/`dealAiExt`. A brew command that finds one of the tea's questions open
  answers it (`TuyaAnswer`), as `wind_mgr.cc:320-334` does.

Two ways a handler may fail to return are modelled by the pop-up value `LOST`,
which has no successor: a warning's cancel button calling `updateDate` with the
flag that closed it still set (`ClosePop`; whatever the handler would do
after that call, it does not get there), and the callback of a tea pop-up
whose pop-up is closed from within (`NextStep`). They are states the program can
reach, so runs that allow them say `CHECK_DEADLOCK FALSE`.

Abstractions: how much powder is ground is the Boolean `enough`; how full the arcs are is the
bean or cup size they choose, free at each change; the preheat percentage is
`ready`; the second preheat level some tabs draw the hot water button with
(`home_tab_mode_esp.cc:130`) is `ready` too; recipes, temperatures, presets and texts are left
out; timers (two weeks of silence, the idle time) may fire at any moment.
Texts such as toasts are not state, so a refused press is a step to the same state.

### TuyaReport (with TuyaReport_proofs)

`net` is `tuyaWifiStatus`, `mIsConnCloud`, `mIsNetDisConn`; `dp` is
`mTuyaDpList` (`sent`), `mTuyaDpCacheList` (`cache`), `mNextReportStandbyTime`
(`standbyDue`) and what the cloud shows (`cloud`). Three data points stand for
the classes there are: one told again from the program's state by every report of
everything (`WORK_STATE`), one told again unless a kept value is told
(`MAKEING_START`), one told only when it changes (`CLEANING_MODE`). `Tell` does
not send a value equal to the last one sent and arms the change to standby;
`ReportAll` is `reportAllStatus`, including that it forgets what was kept even
when nothing could be sent. A report handed to the SDK is taken to arrive
(`tuya_report_dp`'s result is ignored by the code, and delivery is the SDK's).

`MaxChanges` bounds what the pages report. With the bound exhausted the machine
rests, which is what `CloudCatchesUp` is about: the network goes on changing
without bound.

### CleanPage (with CleanPage_proofs)

One record, as in HomeBrew, and for the same reason: a report or a warning runs through
`updateDate`, the pop-up and `updatePageData` in one call, whose handlers
(`Down`, `Pauses`, `StepBack`, `Resume`, `CloudStarts`, `Stop`) follow each
other in the order of `page_clean.cc:109-177`. `page` is the page shown, `closing` the clean
pages that wait to be deleted and may be shown again (as they were left), `bits` the two cleaning
bits of `machineState`, `told` the last thing the controller was asked to do,
`flags` the bits of `statusChangeFlag` that `updateDate` leaves set when it
opens the page for a command and returns (`wind_mgr.cc:353`). `AiData` and `TuyaBrew` take the page
away while it cleans, the first with its pop-up left open; a brew command over a warning
(WindMgr has it) or during a start that waits is left out here. `rounds` counts the
calcify rounds that ended for this page; the code has no such counter, it is there to say what "done"
means. Other jobs, the screen saver and the reports to the cloud are left out.

### McuFrames (implements FrameChannel; with McuFrames_proofs)

`line` is what the controller has sent and nobody has read, `buf` the receive
buffer, `got` the frames handed on by the last reading. `Add` is `MCU2UI::add` with its loop
(`Fill`, one `Round` after the other) and the bytes it gives back (`Excess`, `Trim`), `Complete` and `Check` are the
methods of that name, `Deal` is the loop of `onUartData`, `Handed` what one frame gives to `onCommand`. `Read` takes any number of bytes, so a
frame comes in any chunks and a chunk holds any part of several frames. `Disturb` loses, changes or
inserts a byte. Bytes are numbers below `Base`; the sum of a frame wraps at `Base`, as
`unsigned char` does. The abstract module `FrameChannel` is a queue of frames from which a prefix is
delivered at a time; from the first disturbance on it promises nothing.

### TaskPool, NetCheck (implement TaskBoard; with NetCheck_proofs)

`waitTasks`, `mainTasks`, `status` and `tdata` are the fields of `ThreadPool` and its
`ThreadData`; `at` is a worker's place in `onThread`, `main` the main thread's in
`handleEvents`. A `Cell` is an allocated `TaskData`: once deleted it may be
allocated again, so a pointer left in an idle worker may come to point to another task, as in
C++. The main thread's steps are one assignment of a task, taking the mutex, one `onMain`, and giving the
mutex back; a worker's are the end of `onTask`, pushing under the mutex, becoming idle, and the log line after
that (`LogId`), which still reads the task. Nothing reads the pointer of an idle worker after its log line
(`del()` would, but nobody calls it), so the model forgets it there. The
status of a worker and its task are plain fields shared by two threads; the model
takes each thread's stores to be seen in program order.

`NetCheck` composes the pool with its most delicate client, the check of the network: `Tick` adds
one when none is under way, `CheckNet` counts failures on a worker, `CheckDone` turns
the count into `netOk`. Other tasks only keep workers busy. `TaskBoard` is what clients may
rely on, without threads or a mutex: tasks wait in order, at most as many run as there are
workers, and they are told in the order in which they ended.

### How they fit together

WindMgr, HomeBrew, TuyaReport and CleanPage share `machineState`, `warnState`, `eqStatus` and
`updateDate`, each seen at the detail its questions need: WindMgr keeps pages and pop-ups exact and work
as two bits; HomeBrew keeps work, buttons and pop-ups exact and pages as
`shown`; CleanPage keeps the clean pages and both their rounds exact and every other page as
"not shown"; TuyaReport keeps connection and reports exact and the page as
`StartBrew`, `StopBrew`, `BrewDone`, the three ways a cup toggle reports. McuFrames lies below the
frames that HomeBrew and CleanPage take as actions (`GrindDone`, `WarnFrame`, `CleanDone`, ...): that
they arrive whole and in order is what `KeepsChannel` says. TaskPool lies below whatever blocks:
the check of the network and the reports of recipes.

## 3. The runs

All runs are complete (no state constraint); TLC explores every reachable state.

| run | instance | what it shows |
|---|---|---|
| `windmgr` | 5 page slots, back list of at most 4 | pointers live, nothing in use queued, a sleeper exactly under the screen saver, queued pages always have a message, pop-up owners live unless cloud or assistant took them away |
| `home_coffee` | the four coffee tabs; E06 (must stop) and A01 (pauses) | nine properties of the page used at the machine, see below |
| `home_tea` | espresso, americano, tea; E06, A01 | the tea's steps and pop-ups keep buttons and machine in step |
| `home_cloud` | espresso, americano; E06, A02 (the reminder); grind, brew, stop, clean and assistant commands | one job at a time and no start against a warning when commands come too; the reminder's silence is kept |
| `home_tea_cloud` | espresso, americano, tea; brew commands, heating again | water and grinder never together, even where tea starts past the checks |
| `tuya_report` | at most 4 changes of the machine | a cloud that stays connected shows the work state and the switch in the end |
| `net_check` | 2 workers, 3 tasks at once, batches of 2 | one holder for each task, the order of the board, every task comes back; one check at a time, losses and returns of the network are noticed |
| `frames` | bytes below 8, frames of one or two data bytes, 0 or equal to the head, a buffer of 6, one disturbed byte | an undisturbed line is a channel; the receiver finds back, with the two exceptions that `Recovers` names |
| `clean_page` | A01, A02, a fault; every cleaning command, brew commands, the assistant | done means two rounds; the controller never cleans unknown to the program; no report starts a cleaning |
| `home_tea_fault` | tea with E06 | *violated*: a fault does not stop tea |
| `home_two_jobs` | brew commands, tea | *violated*: tea brews while hot water or the grinder runs |
| `clean_stuck` | A01, A02, no cleaning commands | *violated*: `BusyIsCleaning`, a page that says "cleaning, please wait" while nothing cleans |

The violated ones each check one statement of the repository; `findings` quotes
it and names the line that contradicts it.

**Why the bounds are enough.** In `windmgr` at most five pages exist at once for
every behaviour that does not leak (home, setting, one shown, one asleep, one
queued); with five slots slot reuse, aliasing and double queueing all occur. When
no slot is free `ShowNew` is disabled, which cuts only behaviours with
yet another queued page. A back list of four entries covers erasing from the
middle and both branches of `showPrevPage`. The home page has no counters: the
runs bound only which tabs, warnings and remote actors take part, and the
warnings chosen have one member for each combination of masks that matters (E06
in every stop mask; A01 in the masks of extraction, hot water and steam, and
pausing; A02 in none). Commands and
tea are split over two runs because their product does not finish in time. Four changes
allow two complete brews, hence every pair of "kept from the first, told from the
second".

In `net_check` three cells are one more than the workers and than a batch: a task waits while
both workers are taken, cells are allocated again while a worker still logs its last task, and
a finished task may be left for the next round; with four cells the product with the counter and the link
does not finish in time (the proofs are for any number). `MaxFails` caps the counter at three, from where on it decides nothing. In
`frames` the shortest frame fills five of the six bytes of the buffer, so a frame lies across its end
as soon as anything precedes it, and a length byte may ask for more than the buffer holds;
eleven bytes on the line are two frames and a byte, hence a frame with parts of both its neighbours in one
chunk. Of the two data bytes of `frames` one equals the head, so that heads occur as data and as a
sum, and some frames add up to zero and are refused. One disturbed byte suffices to
lose the place; the search for it does not depend on how many were disturbed before. In `clean_page`
at most two clean pages wait to be deleted: the one left and the one that "clean now" left before.

**Symmetry.** Only the slots of the heap are permuted, in a run with invariants only.

**Fairness.** Nothing is assumed of the network, the user or the cloud.

* `TuyaReport`: timers. `handleEvents` is polled by the main loop (`checkEvents` returns 1 each
  `TICK_TIME`), so a report of everything that stays due is made, and a change to standby that stays due.
* `NetCheck`: the main loop polls its handlers in turn (weak for `Handle`; strong for
  `Tick`, which is possible only between two rounds of the pool), the system runs every thread and a
  task ends (weak for each worker), and a mutex that is free again and again is not refused for ever
  (strong for `HandOn`: the main thread takes it in every round, and between two rounds
  lets it go).
* `McuFrames`: the line is polled (weak for `Read`), and the controller goes on sending frames, also
  ones whose sum is not zero (strong). Without the latter "finds back" would be
  refuted by a controller that is silent.

### The properties of the home page

`OneJob` (grinding, brewing and hot water exclude each other), `ButtonsMatch` (what is
drawn is what runs; the page *stops* work by pressing what is drawn as working, so
a mismatch turns a stop into a start), `Usable` (an idle heated page has a bean and
a cup, or both tea buttons, that react), `NotLost` (no endless recursion),
`DoneStaysDone`, `FaultStops`, `NoStartWhenWarned`, `CountedWhenDone`,
`ConfirmStops`, `SnoozeKept`, `NeverGrindIntoWater`. `OneJob` is checked where commands are
(`home_cloud`), which includes all a user can do on those tabs. None of them is stated by
one line of the code. Each has a mutant: a plausible slip in a mapped definition
that makes TLC refute it under the same configuration.

Which property holds where is itself a result. `OneJob`, `NoStartWhenWarned`
and `FaultStops` hold on the coffee tabs and fail on the tea tab, since the tea
tab has ways to start that skip `onChildDealClickListener` (the rebrew button and
the tea command) and a stop that asks first. `ButtonsMatch` and `DoneStaysDone` hold at
the machine and fail with brew commands, since `setGroupType` redraws the
buttons of a job that goes on. `NotLost` holds while neither commands nor tea
pop-ups meet a warning.

### The properties of the other parts

* `TwoRounds`: a page that tells the user the calcify cleaning is done has seen the controller
  end two rounds. Warnings step back, commands jump to a round, "clean now" opens
  another page; none of them may skip a round.
* `ToldHasBit`: while the controller was last told to clean, the bit that makes its report count, and that
  keeps the user from leaving, is set.
* `FramesStartNothing`: no frame sets off a cleaning, with the exception of a standing fault that
  steps back from the pause into the first round (below).
* `Prompt`, `KeepsChannel`, `Recovers`: on an undisturbed line nothing that was read is held back and
  the receiver is a `FrameChannel`; after a disturbance frames arrive again, unless the
  receiver went deaf or frames with a head among their bytes (`Plain` says which have none) keep
  coming (both below).
* `OneHolder`, `KeepsBoard`, `Served`: one holder per task until it was handed on; the order of the
  board; every task comes back.
* `OneCheck`, `NoticesLoss`, `NoticesReturn`: the counter that a worker writes and the main thread reads
  has one user at a time; `netOk` follows the link in the end.

### Seen in the models and told only here

* Confirming the rebrew pop-up starts tea with the tank reported empty: `startWork` is called at once
  (`home_tab_mode_tea.cc:418`) and the checks of `onChildDealClickListener` have no case for
  it. `NoStartWhenWarned` fails on the tea tab with A01.
* A brew command while hot water runs redraws the hot water button as off
  (`home_tab_mode_esp.cc:125`); when the MCU then reports the end, the page presses the button
  and starts hot water again (`page_home.cc:446`). `DoneStaysDone` fails with brew commands.
* The change to standby, armed three seconds after a reported end (`tuya_os_mgr.cc:112`), also comes
  when the next brew has been started meanwhile: the cloud and `eqStatus` then say standby.
* A fault that goes on while the warnings change steps the cleaning back once per change
  (`page_clean.cc:133`), from the second round over the pause into the first, which it starts
  under the fault. Closing any warning starts the step's cleaning likewise (`page_clean.cc:140`).
* The controller's "not cleaning" after the pause for an empty tank is taken for the end of the round,
  since the bit is still set (`conn_mgr.cc:436`).
* "Clean now" while a calcify round runs opens a second page; the end of that round clears the
  bit of whatever the new page has started.
* `check()` of a frame never compares the sum with the byte sent (`mcu_ui.h:183`): `SumsRight` is refuted
  by one changed byte.
* A length byte that asks for more than the buffer holds makes the receiver deaf until the next start
  (`Deaf`; `mcu_ui.h:129`). On an undisturbed line no frame is that long.
* A data byte equal to a head byte can keep a receiver that lost its place from finding it, when the same
  frame comes again and again: without its last disjunct TLC refutes `Recovers` in `frames` (the frame
  7 1 7 7 1, read in the wrong pieces each time). Nothing in the protocol
  keeps the head bytes 0x5A and 0x5B out of the data.
* The result of a check that was under way when the user turned Wi-Fi off sets `netOk` again
  (`main.cc:104`), until three later checks fail.
* A check that cannot open its socket returns -1, which `onTask` takes for success (`hv_net.c:608`).
* A worker reads the id of its task for a log line after it has handed it on and become idle
  (`comm_class.cc:146`, `LogId`). `LogReadsLive`, that the task still exists then, is refuted by a round of
  the main thread in between; what is read goes to the log only.
* At this commit `main` does not open the controller's line: the call of `g_objConnMgr->init()` is commented out
  (`main.cc:149`). The models take the frames as `onCommDeal` and the receiver would.
* Two commands of the cloud in one tick share one set of variables: of a stop and a start the first entry
  is dealt with as the start and the second, held back, as a stop one tick later (`tuya_os_mgr.cc:190`).
  An amount or a cleaning mode once sent serves later commands that come without one.

* Showing a kept page sets `mPreActionPage` to null (`wind_mgr.cc:143`). When the
  calibration page sleeps (it is not on the back list, `page_setting.cc:336`), or when
  a brew command wakes the home page over a sleeping clean page, the sleeper is
  neither shown nor queued any more and is never deleted.
* "Clean now" of the reminder leaves the home page while a job runs
  (`pop_warn.cc:117`; the title bar refuses that, `page_base.cc:180`). A frame
  that ends the job then finds no home page to press its button.
* Hot water asked for by the cloud on a tab without that button marks tab 0
  (americano) and opens the espresso group (`page_home.cc:1410`).
* `~PageFactory` assigns `true` to `mIsFactory` (`page_factory.cc:44`), so factory mode
  lasts until the next start.
* After a reconnection the values kept are told after the current ones
  (`tuya_os_mgr.cc:495`), so a stale value may show until the next report of everything,
  half an hour later.
* A "done" that equals the last value sent is not sent and does not arm the change to
  standby (`tuya_os_mgr.cc:445`): after a change to standby made offline the
  machine may stay in "done".
* A report of everything on the local network, with the cloud not yet back, clears what was
  kept without sending it (`tuya_os_mgr.cc:524`).

## 4. The proofs

TLAPS proves, for every value of the constants that meets the named assumptions:

| theorem | module | says |
|---|---|---|
| `WindMgrTypeOK` | WindMgr_proofs | `Spec => []TypeOK` |
| `NoUseAfterDelete` | WindMgr_proofs | `Spec => []PointersLive`: for any heap and any bound on the back list |
| `QueueIsDisjoint` | WindMgr_proofs | `Spec => []NothingInUseIsQueued` |
| `OneSleeper` | WindMgr_proofs | `Spec => []SleeperIffScreenSaver` |
| `QueuedAreDeleted` | WindMgr_proofs | `Spec => []QueuedHasTimer` |
| `CallbackFindsPage` | WindMgr_proofs | `Spec => []PopOwnerLive` |
| `HomeTypeOK` | HomeBrew_proofs | `Spec => []TypeOK`, for any tabs, warnings and remote events |
| `WaterAndGrinderApart` | HomeBrew_proofs | `Spec => []NeverGrindIntoWater`, likewise |
| `ReminderStaysOff` | HomeBrew_proofs | `Spec => SnoozeKept`, likewise |
| `OneJobWithoutTea` | HomeCoffee_proofs | `Spec => []OneJob` without the tea tab, for any faults and remote events |
| `StartsAreChecked` | HomeCoffee_proofs | `Spec => NoStartWhenWarned`, likewise |
| `ButtonsMatchAtMachine` | HomeMachine_proofs | `Spec => []ButtonsMatch` under `AtMachine` |
| `UsableAtMachine` | HomeMachine_proofs | `Spec => []Usable` under `AtMachine` |
| `DoneStaysDoneAtMachine` | HomeMachine_proofs | `Spec => DoneStaysDone` under `AtMachine` |
| `FaultStopsAtMachine` | HomeMachine_proofs | `Spec => FaultStops` under `AtMachine` |
| `CountedWhenDoneAtMachine` | HomeMachine_proofs | `Spec => CountedWhenDone` under `AtMachine` |
| `ConfirmStopsAtMachine` | HomeMachine_proofs | `Spec => ConfirmStops` under `AtMachine` |
| `NotLostAtMachine` | HomeMachine_proofs | `Spec => []NotLost` under `AtMachine` without remote events |
| `CleanTypeOK` | CleanPage_proofs | `Spec => []TypeOK`, for any warnings and commands, any bound on the waiting pages |
| `DoneAfterTwoRounds` | CleanPage_proofs | `Spec => []TwoRounds`, likewise |
| `NoForgottenOrder` | CleanPage_proofs | `Spec => []ToldHasBit`, likewise |
| `ReportsStartNothing` | CleanPage_proofs | `Spec => FramesStartNothing`, likewise |
| `ReportsTypeOK` | TuyaReport_proofs | `Spec => []TypeOK`, for any number of changes |
| `Typing`, `Holding`, `Ready` | NetCheck_proofs | `Spec => []TypeOK`, `[]OneHolder`, `[]WorkerReady`, for any cells, any finite set of workers, any batch |
| `Implements` | NetCheck_proofs | `Spec => KeepsBoard`: the pool implements the board |
| `UsesPool` | NetCheck_proofs | `NetSpec => Spec`: the composition only takes steps of the pool |
| `NetTyping`, `CheckingOnce` | NetCheck_proofs | `NetSpec => []NetTypeOK`, `NetSpec => []OneCheck` |
| `TypesKept` | McuFrames_proofs | `Spec => []TypeOK`, for any bytes, heads, sizes and disturbances: both loops of the receiver end and its buffer is not overrun |
| `PromptDelivery` | McuFrames_proofs | `Spec => []Prompt`, likewise |
| `IsChannel` | McuFrames_proofs | `Spec => KeepsChannel`: the receiver implements the channel, however the bytes are cut |

**Window manager.** The safety properties are not inductive one by one: that the
shown page stays live needs that it is not queued, that it is not queued needs that a
page taken off the list is the one shown, and that the sleeper is not
the shown page needs that it sleeps only under the screen saver. The inductive
invariant is their conjunction with the types. `showPage` is the only operation that moves
pages, so its four branches are proved once as lemmas and every action that
calls it cites them; `DelayClose` is the only action that frees. Assumptions: the null pointer is no
slot, the bound on the back list is positive. That callbacks find their page needs
more: there is one setting page, which is never deleted, and a stop-clean question not orphaned
belongs to the page shown (`OwnerInv`, inductive together with the rest).

**Home page, three layers.** Every operator on the page's state has a lemma: given a state that
satisfies the invariant, its result does. Actions are composed of operators, so
each action's step cites the lemmas in the order of its calls. The layers are three inductive
invariants, each over the one before, and each as general as what it proves allows.

* `Safe` (HomeBrew_proofs; any constants) adds to the type that water and the grinder are apart. It
  holds for tea commands too: `StartTea` adds only the bit of a brew, and both
  `BeanClick` and `HotClick` test each other's bit, which no path but theirs sets. For
  `SnoozeKept` every operator but `WarnFrame`'s is shown to be `Quiet`: it never asks about a
  reminder that is put off and not listed.
* `Coffee` (HomeCoffee_proofs; no tea tab, any faults, any commands) adds one job at a
  time and which tabs and pop-ups there are. For `NoStartWhenWarned` the operators are
  related to the state before (`Fine`): what they add to `machineState` is not warned
  against. The presses that skip the warnings (`PressBean(h, FALSE)` and the like, in `DealWarn`
  and `WarnClosed`) are shown to find their job running, so that they only stop. The hypothesis is needed:
  on the tea tab both fail (`home_two_jobs`; `NoStartWhenWarned` by the rebrew button, below).
* `Mach` (HomeMachine_proofs; `AtMachine`) adds what the buttons know: what is drawn as
  working is what runs, and reacts (`Drawn`); a running job means a heated machine, a disabled hot
  water button and the page shown (`Runs`); of two sizes only the one the arcs call for reacts (`Sized`); the
  button of a job that can be started reacts (`Reacts`); the reminder is nowhere (`NoReminder`). `ButtonsMatch`
  alone is not inductive: the press that follows a report is one of the button that the amount of
  water calls for, not of the one that is drawn, so that it is the right one needs `Sized`, and that
  it is not refused needs the second half of `Drawn`. With `Mach` the result of each report can be told
  exactly, from which the action properties follow.

`AtMachine` says: no tea tab, no reminder (A02), and of the remote events only commands that grind
or stop. Each of the others is excluded because `ButtonsMatch` is false with
it (TLC finds a counterexample of a few steps): with A02 "clean now" leaves the page while a job runs,
and coming back draws hot water and steam as off; commands that extract, carry a
recipe or clean, and a machine that heats up again during a brew, redraw or leave a tab whose job
goes on. The tea tab is excluded because the proof rests on one job at a time; that `ButtonsMatch`, `Usable`, `DoneStaysDone`
and `CountedWhenDone` hold with it is model-checked (`home_tea`). All other warnings,
in any number, are covered; `home_coffee` has two of them.

**Clean page.** `IInv` says of the page shown and of each page that waits to be deleted (`Sound`) how many rounds
ended for the step it shows, since "done" is reached from the second round only and a page can be shown
again as it was left; and of the whole state (`Good`) that what the controller was told is in the
bits. A handler's branches are lemmas on `Good`, as above.

**Reports.** The invariant is the type and that what the cloud shows is what was last sent to it
(`Mirrors`), for `Tell` compares with the latter. That both are the truth in the
end is liveness (`CloudCatchesUp`).

**Task pool.** `OneHolder` alone is not inductive: that a worker pushes a task it holds needs that
a worker that has run is busy, which is `WorkerReady`; their conjunction with the types is. The steps
that move a task (`Add`, `Assign`, `Push`, `Report`) each have a lemma about where tasks are
afterwards. For the refinement a step of the pool is a step of the board: `Add` submits, `Assign` starts
(that there is room follows from an idle worker, by counting), `Push` finishes, `Report` tells, and all others
leave the board alone; that the pushed task is no longer held by another worker is `OneHolder` again.
The assumptions are that null is no cell, workers are finitely many, a batch is at least one.

**Network check.** `UsesPool` carries the pool's invariant over to the composition. `CheckIs`
says without counting that the checks are none, or one live task, as `mNetChecking` says; `OneCheck` follows
from it.

**Receiver of frames.** `Sum`, `Fill` and `Deal` are recursive functions on sequences, and the library's
induction theorems cannot be used (they take an operator as a parameter). What is needed is
first-order: a set of numbers that is not empty has a least one (`LeastNat`, from the
well-founded order of the numbers). With it each function is shown to exist and to satisfy its
equation (`FillEquation`, `DealEquation`): every `Round` leaves less of the chunk to read, and an `Add` to an
empty buffer always reads something, so both loops end. What a loop does is then shown for
a least chunk that refutes it. The undisturbed line is described by `Streams`, the least set of pairs that
holds the empty pair and, with the bytes `s` and the frames `q`, also the bytes of a frame before `s` and
that frame (unless `check` refuses it) before `q`. The inductive invariant says that, as long as nothing
was disturbed, what the buffer holds followed by the line is such a sequence, with the queue the frames due
for it, and that the buffer is `Short`: it holds no whole frame. `Short` is needed, since a whole frame left in
the buffer would wait for the next byte, and it is why one round is enough (`AddOnce`). A chunk either
ends inside the frame that comes first, and all of it is kept (`AddPart`), or ends it, and what
is given back is what follows it (`AddWhole`); `DealClean` goes through all frames of a chunk.
`Prompt` is the case of the empty line, and a reading is a delivery of the
channel. The assumptions are that the heads, the end and the data are bytes, and that a frame of the largest
size fits the buffer and its length a byte. A frame whose own bytes add up to zero is
refused by `check` although nothing was disturbed: the channel carries it neither, so the theorem says nothing of it.

**Only model-checked.**

* Everything that is liveness under fairness (`CloudCatchesUp`, `Served`, `NoticesLoss`, `NoticesReturn`,
  `Recovers`): out of the prover's reach. Of the receiver after a disturbance only the type is proved.
* The four properties of `home_tea` on the tea tab, as said above.

## 5. What is not modelled, and why

* *The queue of cloud commands* (`mCallbackList`): several threads of the SDK push into a plain vector that
  the main loop iterates over and erases from. What a program with that race does is not
  defined, and its rules for two commands in one tick are stated nowhere; the commands are
  modelled one at a time, as the pages take them.
* *The upgrade of the controller and of the program*: `send2MCU` returns before it sends
  (`conn_mgr.cc:329`), so the packet loop would be driven by an environment the program never talks to.
  The rest is libcurl, `md5sum` and shell scripts. Read from the code: the static times in
  `pop_normal.cc:113` make a second try time out at once; a warning that closes the pop-up leaves the download's
  callback and its worker with a pointer into it; the byte of an acknowledgement is compared
  with an `int` counter (`conn_mgr.cc:493`), so an upload of more than 256 packets would stop.
* *Frames of the assistant and of the side button*: `AI2MCU` and `IIC2UI` have receivers of their own, the
  first without a check, the second without the search for what follows a frame.
* *The recipe editors, presets, favourites, switches of the setting page, configuration*: values a
  user edits and a file keeps; no other part decides on them but where the models say so.
* *Drawing, layout, texts, animations, widgets*: no state that another part reads.
* *Wi-Fi, sockets, I2C, GPIO*: control of external daemons and devices.
* *Third-party code*: three lines of four are vendored (the headers of the Tuya SDK under `tuya`, and one
  header of SIMD intrinsics under `3rdpart`); a share of the lines of the whole repository therefore says little
  about how much of the program is covered. The program's own code is `src/src` and `main.cc`, some
  thirty-five thousand lines; about half of it is widgets, drawing and layout.

What could be added next: the properties of `home_tea` as theorems, which needs an invariant
about the tea's steps and pop-ups in place of one job at a time; WindMgr as the abstract specification of the home
page's `shown` and `pop`; the two other receivers of frames.
