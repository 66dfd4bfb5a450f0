# A verification project for the ebike wireless remote

The repository is the firmware of a four-key remote control for an electric
bicycle: an nRF52840 board that talks ANT+ to the motor controller (LEV
profile) and to a bicycle computer (Controls profile), and Bluetooth to a
configuration client. This directory models the parts of the firmware whose
correctness depends on the order of events, checks the models with TLC, and
proves some of what is checked with TLAPS. Paths below are relative to `src/`;
`SDK` stands for `firmware/nRF5_SDK_16.0.0/components`.

Contents: [the system](#the-system), [what is modelled where](#modules),
[runs](#runs), [proofs](#proofs), [disagreements](#disagreements),
[what is left out](#not-modelled), [plan](#plan).

## The system

One processor, two kinds of context. The **main thread** initialises the
hardware and then loops: `check_interrupt_flags()`, then sleep until an event
(`firmware/main.c:1417`). The **interrupt handlers** (SoftDevice events, the RTC
of the timer library, GPIOTE) all have priority 6, so that each runs to
completion before the next and any of them can come between two instructions
of the main thread. What the handlers want of the main thread they leave in
globals. RAM is lost with each reset; flash, the retained register GPREGRET and
the pins stay. Nearly every change of mode is made by a *reset*: the new setting
is written to flash and the next boot reads it.

| Component | State | Operations | Interacts with |
|---|---|---|---|
| Configuration store: `eeprom.c` over `SDK/libraries/fds/fds.c` | records in flash, operation queue, step of the operation at its head, latest record id, descriptor, RAM copy | `eeprom_init`, `eeprom_write_variables`, fstorage callbacks, reset | main thread; SoftDevice (flash writes) |
| Configuration life cycle: `check_interrupt_flags`, `wait_and_reset`, `shutdown`, boot | device numbers, three option bits, flags, GPREGRET, the Bluetooth timer | the loop's tests, one characteristic write handler, time-outs, reset, system off, bootloader | store, gestures, Bluetooth |
| Timer library: `SDK/libraries/timer/app_timer2.c` | request queue (10), sorted list, an active flag per timer | `app_timer_start`, `app_timer_stop`, the RTC interrupt | every other component |
| Key driver: `SDK/libraries/button/app_button.c` | debouncing state per pin, mask of active pins, polling timer | GPIOTE event, poll | timers; gestures by callback |
| Gestures: `button_event_handler` and the long-press, one-hour and LED time-outs of `main.c` | long-press flag, `plus_minus_flag`, `shutdown_flag`, two Bluetooth flags | push, release, long press, time-outs | key driver, timers, LED, main loop |
| LED: `led_pwm_on`, `led_softblink`, `low_power_pwm` | `soft_blink`, PWM state, two timers | on for a time, on without end, off | gestures, ANT search, main thread |
| ANT search and channels: `ANT_Search_*`, `ant_lev.c`, `antplus_controls.c` | channel status, restart count, search timer | open, close, channel events | SoftDevice (ANT), LED |
| Messages of the keys: `buttons_send_page16`, `buttons_send_pag73` and the pages they send | travel mode, sequence number | short and long presses, end of a transfer | gestures; the bike, the bike computer |
| Page codecs: `ant_lev/pages`, `antplus_controls/pages` | profile data, page buffers | encode, decode | channels |
| Bluetooth link: handlers of `main.c`, `SDK/ble/ble_advertising`, `SDK/ble/common/ble_conn_params.c` | connection handle, advertising, one negotiation (instance, timer, count) | connect, disconnect, parameter updates, failed pairing, time-outs | life cycle (resets) |

What is hard here, and what would make each part correct:

* **Store.** An update is a chain of five or six separate flash writes, and the
  reset that follows it waits a fixed second instead of for its end. Correct
  means: a boot never loads a record that is not complete, nor one older than the
  last boot loaded; record ids are unique, since an update finds its victim by id;
  the pages never overrun; a completed update is what the next boot loads.
* **Life cycle.** `new_ant_device_id` is written by an interrupt and loaded three
  times in a row by the main thread; several flags may be up at once and one
  reset serves one of them. Correct means: a command is obeyed and not stored as a
  device number, a save changes one thing, Bluetooth ends, a bootloader or shutdown
  request is honoured.
* **Timers.** A call decides by the active flag at once and takes effect later, from
  a queue that overflows into an error which resets the chip. Correct means: a timer
  started at rest runs, a stopped one is silent, none is listed twice.
* **Keys.** Edges, samples and the mask that says whether to poll are updated at
  different times. Correct means: no held key is unwatched, pushes and releases
  alternate, and what the application was told last ends up true.
* **Gestures.** One long-press timer and one flag serve four keys; the long-press
  handler waits for seconds and then reads the pins; every LED flash and every key
  event put requests in one queue of ten. Correct means: a long press belongs to a
  key that is held, a gesture has its effect, flashes end.
* **ANT search.** Two channels, handled event by event, start and stop one timer and one
  LED, which key presses use too; `restart_count` is an `int8_t` that is never reset.
  Correct means: a channel is given up only when its restarts are used up, a lit LED
  has a running timer that ends it, the light of the search goes out after it.
* **Messages.** The remote does not read the bike's travel mode: it counts presses and
  sends the result once, acknowledged but never repeated. Correct means: what the bike has
  is behind by the presses that were lost and no more, a press that gets through
  moves it one level from there, no command is taken for a repeat of the one before.
* **Codecs.** A decoder is the inverse of its encoder, and touches its own fields only.
* **Bluetooth link.** Three modules handle the same events in the order of their
  observer priorities, a timer fires in between, and nearly every call that the SoftDevice
  refuses resets the remote. Correct means: a disconnection leads back to advertising, a
  negotiation goes on until it ends, and the code never resets a link that is up.

## Modules

```
ConfigRegister  <--implements--  ConfigFlash  <--instance--  RemoteConfig
AppTimer  <--instance--  Gestures  --instance-->  AppButton
AppTimer  <--instance--  AntSearch
AppTimer  <--instance--  BleLink
ConfigFlash_proofs  <--instance--  RemoteConfig_proofs
AppButton_proofs  <--instance--  Gestures_proofs
KeyMessages, LevPages  <--extends--  KeyMessages_proofs
```

The `MC*` modules extend a module for TLC, with the instances in `*.cfg`;
the `*_proofs` modules extend it for TLAPS. `PROJECT.json` maps each definition
to the lines it stands for. Definitions named `Mutant_*` are not part of the
specifications: each is a plausible mistake in the definition that follows it,
kept to show that the properties can tell.

**ConfigRegister** is what the store promises: one number, the configuration a
boot would load, which only moves forward, and only to a configuration that was
saved.

**ConfigFlash** is `eeprom.c` over the parts of `fds.c` it runs through. `flash` is
the data pages as one sequence in scan order, a record being an id, the number
of the save that made its data, and a state (`partial` until its header is
finalized, then `valid`, then `dirty`). `ops` and `step` are the operation queue
and the step machine of `write_execute()`. Each action of `FlashStep` is one
flash write and its callback; `Reset` and `TimeOut` may come between any two if
`Faults`. `BootFound`, `BootDefault` and `BootFault` are the three ways
`eeprom_init()` ends (record found; none, default written; no room, fault reset).
`WriteData` copies RAM *at that moment*, as the code does: the default write of a
first boot may carry a configuration saved after it was queued.

**RemoteConfig** is the main thread load by load. `pc` runs through `ids`, `select`,
`adopt`, `save`, `flags`, `on`, `off` as `check_interrupt_flags()` does (the build is
`-O0`, `firmware/Makefile:231`, and the variable is not volatile, so every occurrence
is a load and every load a step); `wait` is the second before the reset, `stop`
is `shutdown()`. `BleWrite`, `Gesture`, `BluetoothTimeout`, `DfuGesture` and
`IdleShutdown` are the interrupt handlers, enabled between any two steps.
`ConfigFlash` is instanced with its own variables, and its actions are conjoined to
those of the main thread. The bootloader, waking from system off and taking out
the battery are external.

**AppTimer** is `app_timer2.c`: `active`, the list `armed`, the queue `m_req_fifo`.
`app_timer_start` and `app_timer_stop` test and clear the flag at once and queue a
request; `timer_req_process` carries one out; `timer_expire` takes a timer
from the list and clears its flag (a repeated one is put back). The order of expiry
is left open: any listed timer may be next. Nothing is assumed of the callers. Two
histories say what they may count on: `promised`, the timers started with success and not
stopped or expired since, and `fresh`, those of them started *at rest*: with the flag clear
and no request of the timer in the queue. A call that finds the queue full is `NoMem`,
the reset of `APP_ERROR_CHECK`.

**AppButton** is the key driver: edges latched by GPIOTE, the debouncing machine of
`evt_handle()`, the mask `m_pin_active` and the polling timer, which here simply runs or
not. `cold` holds the keys held since before start-up, which raise no edge.

**Gestures** composes the two with the handlers of `main.c`. A handler is a function of a
context (flags, queue, whether a call failed) built from the calls it makes, each
of which is `AppTimer`'s `Ignored` and `FlagAfterCall`; the RTC interrupt then carries the
queue out with `FlagAfter` and `ArmedAfter`, one request per step, and `isr` is `requests`
until the queue is empty, so that no other handler runs in between. A call that finds the queue full ends the
session as `APP_ERROR_CHECK` does, except in the key driver, which only logs. The
long-press handler is two steps, before and after its waits, between which the user may
move keys (interrupts may not run). `AppButton` is instanced with `polling` defined as
"the last word on the polling timer is a start", and `KeysSpec` says that the
composition still is an `AppButton`, but for the end of a poll whose restart a full queue
refuses (`PollRefused`). What key frames contain, and the ANT search (whose
LED and timer use the same queue), are not in this module.

**AntSearch** is the search and the boot that begins it: `main` is where the main thread is
(`led_pwm_on` tests `soft_blink` in one step, `TestBlue` or `StartSearch`, and lights the LED in
another, `Lights`, with interrupts between), `status` each channel as the SoftDevice reports
it, `pending` the channel events it has queued, `restart_count`, and `led`, which tells who
has the LED where the code has one flag. `Found`, `Lost` and `GivenUp` are the radio
(external). `ChannelEvents` is the poll of the SoftDevice's events, one per step, and `Process`
one timer request; `busy` tells which of the two loops an interrupt is in, and neither the
main thread nor another handler runs until it is done. So up to `MaxPending` events of both
channels are handled in one batch before the RTC interrupt sees a request
(`nrf_sdh_ant.c:121`). What the library makes of their requests is another matter than what
they wanted: `Wanted` is the last request of a timer in the queue, or else its flag. A
request that finds the queue full is the reset of `APP_ERROR_CHECK` (`Leave`, `Restarted`).
`SearchTimeout`, `LedTimeout` and `Lapse` are the timers as in `Gestures`; `Reopen` and
`KeyFlash` are what keys do to channels and LED. `wiped` says that a handler has uninitialised
the soft blink between the test and the use of it: the use ends in an error or through a
null pointer, both of which are the reset `Reset`. The handlers of the two profiles are the
same text, hence one `Handle`. `KeyFlash` waits until no request for `led_timer` is
queued, since the polls that report keys are 25 ms apart.

**BleLink** is the Bluetooth link of a remote in configuration mode. `link`, `advertising`,
`request` and the queue `events` are the SoftDevice's; `m_conn_handle` is `main.c`'s;
`claimed`, `update_count` and `params_ok` are the single instance of `ble_conn_params.c`, whose
timer is the `active`, `armed` and `m_req_fifo` of an `AppTimer`. What the central does
(`Connects`, `Drops`, `Answers`, `Updates`, `Troubles`) is external and reaches the handlers as
events, each of which one action takes from the queue and passes through every observer in the
order of the priorities of `sdk_config.h`. All that wait are handled in one batch, then
the requests of the timer (`Process`), and `busy` tells which; `UpdateTimeout` and `Lapse` come
between batches. A refused call under `APP_ERROR_CHECK` ends in the stage `fault`; the other
users of the timer queue may have filled it, so a request for the timer may also end in
the stage `nomem`. `Reboot` is what follows. `Orphaned` is the state that a `CONNECTED` with bad
parameters and a `DISCONNECTED` in one batch leave behind: the timer's flag is set and the timer
is not in the list, so that the start of the next link's negotiation is ignored.

**KeyMessages** is what the keys send: `travel_mode` and `sequence` in the remote, `transfer`
for the acknowledged message under way on each channel, `level` and `heard` at the other
end. `ShortPress`, `LongPress` and `PageKey` are the handlers; `TransferEnds` is the event
that ends a transfer, heard or not, whose handler in `ant_lev.c` decodes a buffer nobody
filled: the travel mode may become one of `Strays` (`Stray`). `base` is the mode the remote
counts on from: the one the bike heard last, or the 0 of a new session, or a stray one.
`missed` and `newer` count presses for the properties; `synced` and `strayed` say whether the
bike still has `base` and whether the count has left its steps. `BikeChanges` is the bike's own
display, `Session` a new session of the remote.

The same handler goes on to ask the sensor's callback block whether another message
is to follow (`ant_lev.c:241`). It is zero memory: `m_ant_lev` is static (`main.c:391`), nobody sets
`p_sens_cb`, and the firmware is built with `-O0`, so the test reads through the null
pointer. Address 6 is a byte of the reset vector (0x00000A81 in the SoftDevice's image), and
its value 0 is `ANT_REQUEST_CONTROLLER_IDLE`: no message follows. `TransferEnds` says so.

**LevPages** holds the page codecs as operators on the seven bytes of a page: one encoder and
one decoder per page, `page_16_decode` with the lights, turn signals and gears that its
encoder never sends.

## Runs

`tlc -config X.cfg MCmodule.tla` in this directory; each takes less than three minutes
with two workers.

| Run | Instance | Checks | Shows |
|---|---|---|---|
| `flash_faults` | room for 7 records, 4 saves, faults | `TypeOK UniqueIds RegisterSpec` | whatever is interrupted, ids stay unique, the pages hold what is queued, and the flash implements `ConfigRegister` |
| `flash_stale` | 5 records, 3 saves, faults | `LatestWins`, violated | after one interrupted update, completed updates are not what boots load |
| `remote_faults` | 4 records, 2 saves, 4 characteristic values, 2 writes per boot, faults | `TypeOK FlashSpec SaveChangesOneThing OneWriteIsObeyed` | the main thread uses the store as `ConfigFlash` assumes; one request per record; no command is stored as a device number in a boot that has seen one write |
| `remote_ids` | 4 records, 2 saves, a device number and a command, 2 writes per boot | `ValidIds`, violated | with two writes in one boot a command is stored as a device number |
| `remote_quiet` | 5 records, 3 saves, 4 values, 2 writes per boot, no faults | `SingleCopy LastSaveRuns SavedEventually BluetoothEnds DfuReached ShutdownHonoured` | if the fixed waits are long enough, saves are stored and run, and each request has its effect |
| `timer` | 2 single-shot timers, 1 repeated, queue of 4 | `TypeOK StartedIsRunning StoppedIsSilent ListedOnce StartedExpires` | in whatever order callers start and stop, a start at rest is kept, a stopped timer is silent, and the list is sound |
| `keys` | 3 keys | `HeldKeyIsWatched UnrestIsPolled ToldIsTrue LastWordIsTrue` | no key is lost, events alternate, and end with the truth |
| `gestures` | all four keys, 3 moves, one feature, queue of 10 | `TypeOK LongNeedsKey DfuOnGesture KeysSpec DeepSleepOnGesture FlashEnds` | against the queue as configured: a long press belongs to a key, the bootloader gesture fits the queue, the key driver takes its own steps but for a refused poll, deep sleep follows its gesture, flashes end |
| `together` | PLUS, STANDBY, 2 moves | `BluetoothOnGesture`, violated | two keys pushed together never become a long press |
| `search` | both channels, restarts below 2, a counter of -4..3, batches of 3 events, queue of 10 | `ClosedIsUsedUp UnseenSearchIsSpent LedIsTimed SearchLedEnds` | channels are given up only when their restarts are used up; a channel searches with no timer wanted only after that; a flash has its timer, a search light a wanted one; the search light goes out unless its timer was left out of the list |
| `link` | one link at a time, 3 requests, 4 events and requests that wait, queue of 10 | `LinkInv DisconnectIsHarmless NoResetOnHealthyLink NegotiationEnds` | a disconnection leads back to advertising; a negotiation goes on and ends unless its timer is orphaned; a refused Bluetooth call resets the remote only when its link is gone or forgotten by `main.c` |
| `messages` | one feature at a time, 4 travel modes, sequence numbers 0..3, 5 missed presses | `MessagesInv OneLevelPerPress NeverTakenForRepeat` | from the mode the bike heard last the count drifts by the presses lost, a press is one step from the mode counted from, no command is taken for a repeat |

A property ending in `Inv` (and `LedIsTimed`, `LastWordIsTrue`) is a conjunction of the named
parts above it in its module.

**Bounds.** `Capacity` is small so that the pages fill up within the run, and at least
two more than the saves where they should not. Four saves give every overlap the
queue allows (a default write and an update, then an update interrupted, then one that
finds two valid records, then one more). Two or three saves suffice for
`RemoteConfig`, where the store's own interleavings are not the question; `Values`
holds one value of each kind of branch of the switch. Two characteristic writes per boot are
what the three loads need to disagree; the theorems cover any number. Three timers let two
share the queue with a third; with four slots the queue fills. Three keys let one press fall
between the events of two others. In `gestures` the queue has its configured ten slots, and
three moves are the two pushes of a gesture and one key that comes, bounces or goes
meanwhile; the counter stops the user and nothing else. The theorems have no bound on moves.
In `AntSearch`, `Limit` stands for 12 and `MaxCount` for 127, small so that the counter passes
its limit and wraps within the run; `MaxPending = 3` holds the time-out and the closing of one
channel, which always come together, with the loss of the other. In `BleLink`, `MaxUpdates` is
the code's own 3, and four events let a connection, an update, a disconnection and the next
connection wait together. In `KeyMessages` a step of 8 is the code's, `Top` is 24 for four
levels; the sequence wraps at 4, so that five missed presses are more than a turn of it;
`Strays = {250}` is close enough to the end of the byte to wrap past it; the two channels
share nothing but the reset, hence one feature per configuration.

**Deadlock** is checked everywhere except in `Gestures`, where a session ends (system
off, reset, bootloader) and the module does not model the next one.

**Fairness.** A pending interrupt is taken and the SoftDevice goes on with queued flash
writes (weak fairness): nothing masks interrupts for ever. An RTC compare event is
latched and handled after the queue work that the same interrupt does, and the idle
loop resumes after each interrupt, so the steps that other events can disable again and
again are strongly fair: `timer_expire`, the end of a flash and the loop's tests in
`Gestures` (`Expires("led")`, `Ends`, `Acts`), `UpdateTimeout` in `BleLink`. All others are weakly
fair. A device that is down is *not* assumed to be switched on in `RemoteConfig`. Nothing is
assumed of the user. In `AntSearch` the main thread goes on. In `BleLink` a queued event is
handled, and the SoftDevice ends a link that is closing and a procedure that is pending
(both have time-outs in the Bluetooth specification); the central need not connect, stay
or leave. `KeyMessages` assumes nothing. In `Gestures` each condition is stated over the one
variable that shows that the action was taken, which says the same and keeps TLC from
evaluating handlers in `ENABLED`.

## Proofs

Proved by TLAPS for every value of the constants (`tlapm M_proofs.tla`). Each follows
one plan: an inductive invariant `IInv`, a lemma per action that preserves it, and a
temporal step.

* `ConfigFlash_proofs`: `TypeCorrect`, `IdsAreUnique`, `FlashIsARegister`, for every
  capacity, number of saves, and with faults or without. `IInv` is `TypeOK` and
  * `Ordered`: among valid records, page order is id order and age order. This is why
    taking the first valid record never goes back in time;
  * `Fresh`: nothing stored was not accepted, and RAM is not older than flash while a
    write is queued;
  * `NewIds`: queued ids exceed those in flash, although they restart from the
    largest *valid* id at each boot;
  * `InProgress`: the record being written is the last one, and not valid before its data is.

  `FlashIsARegister` maps each step to a step of `ConfigRegister` or a stutter: only the
  write that validates a first record and the one that flags an old record change what
  a boot would load.
* `AppTimer_proofs`: `TimerTypes`, `StartIsKept` (`StartedIsRunning`), `StopIsKept`
  (`StoppedIsSilent`) and `NoDoubleInsertion` (`ListedOnce`), for every set of timers, queue length
  and order of calls. The invariants rest on the drain loop being closed to calls (`draining`):
  * `Fate` is `NotStartedTwice` (outside the loop a set flag has no start behind it), `Silent` (each
    queued start of a timer that is not promised has a stop behind it, and such a timer is
    listed with its flag set only until that stop is carried out) and `Kept` (a fresh timer
    has no stop queued, and is listed with its flag set or has its start queued);
  * `Insertable`: a timer that is listed with a clear flag has its stop in the queue, and each
    start of a listed timer that will not find the flag set has a stop before it.

  `StartIsKept` is about starts at rest because nothing more is true: a start made behind a
  queued start and stop, or of a flag that such a batch left, is accepted and lost, which is
  what run `together` shows of `main.c`.
* `AppButton_proofs`: `KeyTypes`, `WatchedKeys`, `PolledKeys`, `PairedEvents`, for every
  set of keys. `IInv` adds `MaskCovers` (the mask has every pin out of its rest state)
  and `MaskIsPolled` (while the mask is not empty the timer runs), which is what lets
  the GPIOTE handler leave the timer alone.
* `KeyMessages_proofs`: `LagStaysSmall` (`MessagesInv`), `PressIsOneLevel` and `CommandsAreTold`,
  for every step, range and width of the travel mode, every wrap of the sequence number,
  every set of stray modes, and both features at once. `IInv` adds
  * `CountsInSteps`: without a stray mode the travel mode is a multiple of the step within the
    range, which is why the equality tests at the ends suffice. This rests on the
    assumption that `Top` is a multiple of `Step` (56 and 8);
  * `MessageIsRecent` and `LevelIsNear`: a message under way is off by the presses after it, the
    count by those since `base`; when the message is heard, the one becomes the other.

  `NextIsStep` and `NumbersCount`, inductive given `IInv`, say what mode and number the message
  under way carries; the two action properties follow from them. `NextIsStep` speaks of `base`,
  so that `PressIsOneLevel` covers the first press of a session and those after a stray mode.
* `BleLink_proofs`: `NegotiationIsKept` (`LinkInv`), `EndIsHarmless` (`DisconnectIsHarmless`)
  and `HealthyLinkIsKept` (`NoResetOnHealthyLink`), for every number of requests, length of the
  batches and of the timer queue. `IInv` is `TypeOK`, `OneLinkAtATime`, `TimerIsClaimed` and
  `NegotiationGoesOn`. Since advertising starts again only in the handler of the disconnection,
  the queue never holds events of two links (`OneLinkAtATime`):
  * `AdvertisesAfterEnd`: while the remote advertises, no connection or disconnection waits
    and the instance is free, which is why `on_connect` always finds it so;
  * `ConnectionIsFirst`, `DisconnectionIsLast`: what waits of one link is in order, and
    nobody advertises when a disconnection is handled, which is why the first start succeeds.

  `TimerIsClaimed` says that without a claim the timer is off or out of the list and the last
  request for it, if any, is a stop: why `update_timeout_handler` never runs for a link that is gone and
  handled. The exemption `Orphaned` in `NegotiationGoesOn` is not an assumption but the code's
  behaviour (see [Disagreements](#disagreements)).

* `RemoteConfig_proofs` needs no second proof of the store. `InPhase` relates `pc` to the
  phase of the store, and with it each step of the whole is a step of the store or none:
  `MainUsesStore` (`FlashSpec`), so that all of `ConfigFlash_proofs` holds of the firmware,
  `RemoteIsARegister` first. On top of that
  * `Life`: at most two operations are queued, and until the save the main thread runs what
    it loaded but for one thing. `LifeTypes` and `OneThingPerSave` (`SaveChangesOneThing`)
    follow, for every order of writes and gestures among the three loads;
  * `OneWrite`: before the first write of a boot nothing is to be handled, and until a second
    one what is copied after the switch is no command. `CommandsNeedTwoWrites` (`OneWriteIsObeyed`) follows for every
    number of writes and every value: a command becomes a device number only in a boot that
    has seen a second write. Run `remote_ids` shows that with the second it does;
  * `OneCopyIsLeft` (`SingleCopy`) and `LastSaveIsRun` (`LastSaveRuns`) **if no reset or
    time-out cuts a flash operation short** (`~Faults`), which is what the waits of a second
    are for.

  The last two rest on `CopyIsSingle` and `UpdateIsLatest` of `ConfigFlash_proofs`, under the
  same hypothesis: `Quiet` is the shape of the queue (the default write, an update, or both
  in this order), one valid copy but between an update's last two writes, and the last
  save in RAM and then in flash. `UpdateIsLatest` is the property that `flash_stale` finds
  violated with faults: interrupted updates are the only way to a stale configuration.
* `AntSearch_proofs`: `ClosedMeansSpent` (`ClosedIsUsedUp`) for every limit, width of the
  counter and queues, past the wrap of the counter too: `Opened` adds to it that nothing
  happens on the channels while main has not opened them. `LitLedIsTimed` (`LedIsTimed`) and
  `UnseenMeansSpent` (`UnseenSearchIsSpent`), for batches of any length. Their invariant
  `Watched` says who wants which timer whatever is queued: a flash has its timer (`FlashFit`), a
  search light wants its own (`SearchFit`), main lights the LED for the search only once it
  wants the timer, and no batch of events ends in a search given up, whose closing follows.
  What is wanted is read off the last request in the queue, so the theorems hold where the
  library's list lags behind or loses a start.
* `Gestures_proofs`: `GestureTypes` (`TypeOK`) and `LongPressNeedsKey` (`LongNeedsKey`) for
  every set of keys and features, any number of moves and **every length of the queue**. Each
  handler is a chain of calls on a context, and each call keeps the context `Sound` and
  `Spares` (leaves alone) every timer but its own; `Idle` says that no long press is
  remembered or to come. `Tidy`, inductive with the types, says:
  * a long press, remembered, under way or to come, belongs to a pushed key;
  * `QueuedAreOff`: outside the loop over the requests, a timer with a request in the queue
    has its flag clear, so that a timer that expires has no request behind it. This is
    what makes the library's early decision by the flag harmless to the handlers;
  * `PollIsKept`: nobody stops the timer of the poll, and its flag implies it is listed.

  `KeysAreKept` (`KeysSpec`) is the refinement of `AppButton` by the whole composition, with no
  hypothesis. The driver ignores a refused start, so when a poll ends against a full queue no key
  is polled again: `KeysSpec` has that as a step of its own, `PollRefused`, and the theorem says that it
  is the only way out of the driver's specification. With the ten slots of the firmware the
  step is reachable for two keys already (hazard at `app_button.c:217`).

  `DfuIsReached` (`DfuOnGesture`) is about **how long the queue must be**: if `LongRequests + 6 <=
  OpQueueSize`, for any keys and any number of moves, a long press of ENTER and STANDBY
  ends in the bootloader. `LongRequests` is what the handler of the long press may add to
  the queue in one go: its own stop and the display of the features or a flash. It is at
  most 4 with one feature, which makes **the ten slots of `sdk_config.h:897` enough**. Each
  handler has a lemma that counts what it adds (`LedAdds`, `HandlerAdds`, `PollAdds` ...), on the
  cardinality of the positions in the queue, and two invariants bound what the long press
  finds there. `LongAlone`: each handler of a key that queues anything stops the long press
  (`HandledEnds`), so while it may expire, nothing but the LED has queued, two requests at most.
  `AskedOnce`: a key out of its rest state is in the mask, and the driver asks for the poll
  only while the mask is empty, so while a key is pushed there is one request for the poll at
  most, however the others bounce. With two features the bound is 13 slots, with three 16, and
  ten are indeed too few then: see [Disagreements](#disagreements).
* `KeyMessages_proofs` ends with the page codecs. `PageSixteenIsUnderstood` is about the page the
  firmware sends: for all values of twelve and eight bits its three values arrive whole, and of
  the lights, turn signals and gears that the decoder also stores it says which bits of
  the circumference and the manufacturer they are. `UpperBitsAreLost` says, for all values and
  field by field, what the decoders of the other pages make of their encoders' bytes.

Only model-checked:

* everything under fairness (liveness is out of the prover's reach here): `LastWordIsTrue`,
  `StartedExpires`, `DeepSleepOnGesture`, `FlashEnds`, `SearchLedEnds`, `NegotiationEnds`, and the
  eventual properties of `remote_quiet`.

## Disagreements

Between the code and what the repository says of it, each with a run that shows it
(`findings` in `PROJECT.json` has the details):

* `flash_stale`: an interrupted update leaves two valid records; later updates
  replace only the one found first, and every boot runs the configuration before the
  last (`configuration.md:4` "permanently stored").
* `together`: keys pushed within one poll queue stop, start, stop, start; the second
  start is ignored because of the flag the first one set, and no long press comes
  (`operation.md:26`).
* `remote_ids`: `new_ant_device_id` is loaded three times (`main.c:1293`) and a second
  characteristic write may come between: a command is stored as a device number
  (`configuration.md:11`, and the comment at `main.c:1256`).

One more can be shown by changing a configuration of an existing run: with all three options
on, ENTER + STANDBY restarts the remote instead of entering the bootloader
(`operation.md:25`). The long-press handler queues ten timer operations for its display, as many
as the queue holds (`sdk_config.h:897`), so the LED call at `main.c:610` is refused and resets
the chip before `main.c:611` leaves the mark for the bootloader. With
`Buttons = {"ENTER", "STANDBY"}`, `Features = {"ebike", "garmin", "brake"}`, `OpQueueSize = 10` and
`MaxMoves = 2`, `MCGestures` violates `DfuOnGesture`; with two of the features and `MaxMoves = 0`
(which leaves the moves unbounded) as well, if the timers of the LED and of the poll expire just
before the long press.

Met while modelling, without a run of their own.

Keys and configuration: the same sequence on two releases in
one poll takes the one-hour timer away (`battery.md:3`); bounces, or the display of a long
ENTER, can leave no room for the poll's restart in the ten slots, after which no key is
noticed and a deep-sleep gesture that has begun may not end (`app_button.c:217`, the step
`PollRefused`); a device number above 89 that is no command is stored unchecked
(`main.c:1001`); a press too short to be
reported leaves its bit in the mask and the poll running (`app_button.c:171`); a
characteristic write in the second before a reset is acknowledged and forgotten
(`main.c:469`); the second release of a two-key long press counts as a short press
(`main.c:721`); deep sleep starts at the first release of its two keys, so the other may
wake the remote again (`main.c:654`).

Bluetooth: a failed pairing clears the connection handle before it disconnects with it
(`main.c:1165`), so the link stays up, and a negotiation that fails later, or an attribute
request, uses the invalid handle and resets the remote, where the comment at
`main.c:1082` says "All this function does is to disconnect" (hence the last words of
`NoResetOnHealthyLink`); a reset of that kind starts the five minutes of Bluetooth over; a
connection with bad parameters that ends within the same batch of events leaves the
negotiation's timer orphaned, and the next link's parameters are never negotiated
(`app_timer2.c:412`, the exemption in `LinkInv` and `NegotiationEnds`); the
negotiation's timer is not stopped when the parameters become good, which costs one
needless request (`ble_conn_params.c:369`); both `main.c` and `ble_advertising.c` start
advertising after a disconnection, harmless only by the observer priorities
(`sdk_config.h:335`, `:4389`).

Messages: the travel mode starts at 0 whatever the bike is set to, so that the first PLUS of a
session may lower it and the first MINUS turn it to 0 (`operation.md:18`; `OneLevelPerPress`
says from which mode each press goes); after missed presses the next one is a jump; an unfilled buffer decoded
at the end of a transfer may leave a travel mode that steps past both ends; the numbers of
page 73 start again each session, so the first command of a session may equal the last one
heard of the session before. Its upper byte is made by a shift of one bit
(`antplus_controls_page_73.c:30`), harmless for the two commands there are.

Pages: the decoders of most twelve-bit fields lose the upper four bits (`x & 0x0f << 8`), page
3 takes the system state for the travel mode, page 4 skips the cycle count, and page 2 reads
the wrong bytes of the odometer; page 16's takes its lights, turn signals and gears from bytes
that its encoder fills with other values. `UpperBitsAreLost` and `PageSixteenIsUnderstood` state
all of it. Page 82 is never sent.

Search and LED: a start, a stop and a start of the search in one batch of events leave the search
light on and its timer out of the list, until the next stop (`app_timer2.c:412`, the exemption in
`SearchLedEnds`); the text of `battery.md:3`, "ultra low power mode if it fails to connect"
in about 30 seconds, has no code; a flash that ends between the test and the use of
`soft_blink` at start-up resets the remote.

## Not modelled

* The duty cycle of the LED (`low_power_pwm.c`, `led_softblink.c`), and the endless Bluetooth
  blink outside the boot: who has the LED is modelled, what it looks like is not.
* In `BleLink`, the answers to authorisation requests and the bonding itself, which
  change no state of the application, and the GATT database; the write of the
  characteristic is in `RemoteConfig`.
* Garbage collection of `fds.c`, and records of the peer manager in the same pages: only
  the peer manager asks for collection (`PM_EVT_STORAGE_FULL`).
* `app_timer2.c`: tick arithmetic, the RTC's 24-bit wrap and the scheduler variant.
* Start-up code (SoftDevice, RAM retention, GAP parameters), power management, the
  SDK's fifo and atomics: straight-line or vendor code; what the models need of it
  (a fifo that refuses when full, reset, system off) is in the calling modules.
* Bootloader image, build files, documents, 3D design: no program logic.

## Plan

Done, in this order: ConfigRegister, ConfigFlash, RemoteConfig and the store's proofs;
AppTimer and AppButton with theirs; Gestures; AntSearch, then with the boot; BleLink;
KeyMessages and LevPages, with proofs of BleLink and KeyMessages; proofs of the store without
faults, of RemoteConfig, AntSearch and Gestures; the bootloader gesture in the request queue;
the timer library for all callers, batches of channel and Bluetooth events, and the pages.
Every safety property of the runs that pass is stated by a theorem.

Left:

* Ticks in `AppTimer`: a start writes the end of the interval at once, also while the timer
  is still listed for its stop to be carried out (`app_timer2.c:583`), so the order of the
  list is a property of its own.
