# telemetry-in-midair-rs in TLA+

A tracker board carries two processors. The **WIO-E5** (STM32WLE5, `wio/`) reads a GPS
receiver, broadcasts positions over LoRa, repeats what other boards broadcast and logs to
an SD card. The **ESP32-C6** (`esp/`) serves a phone over BLE and a host program over USB,
owns the power rail of the WIO and GPS, and passes configuration and firmware on to the WIO over
a UART. `proto/` is the code both share, `wio/bootloader/` the boot loader that installs a
new WIO image, `tools/` the host programs.

This directory holds the TLA+ model of that system: modules translated from the source,
TLC configurations that check them on small instances, and proofs that TLAPS checks for
every instance. `PROJECT.json` lists, definition by definition, the source lines each one
stands for, the runs, and the hazards of the code with the properties that cover them.

    tlc -config SwapBoot_safe.cfg MCSwapBoot      # a run: module MC<M>, config <M>_<run>.cfg
    tlapm LoraNet_proofs.tla                      # the proofs about a module

## 1. Inventory

What each part keeps, does, and has to get right. *Modelled* names the module; parts
without one are in section 7 (plan) or section 8 (left out).

| Part | State | Operations | Correct when | Modelled |
|-|-|-|-|-|
| Boot loader `wio/bootloader/src/main.rs` | ACTIVE and DFU partitions of 56 pages, scratch page, boot-state page (magic, progress) | swap, revert, validity check, jump | whatever moment power fails, what it jumps to is one whole image; an image that did not confirm gives way to the old one | `SwapBoot` |
| Boot state `wio/src/boot_state.rs`, watchdog `watchdog.rs` | the same page; IWDG counter | `request_swap`, `confirm_boot`, `start`, `feed` | a confirmed image is healthy, an unhealthy one is reset | `SwapBoot` |
| Firmware receiver `wio/src/fwupdate.rs` | `active`, next sequence number, page buffer, CRC, DFU pages | `begin`, `data`, `end`, `abort` | the DFU partition holds the announced image when a swap is requested | `SwapBoot` (pages), `BulkTransfer` (protocol) |
| Config receiver `wio/src/cfgxfer.rs` | buffer, next sequence number, CRC | `begin`, `data`, `end` | what is applied is one complete text | `BulkTransfer` |
| ESP link requests `esp/src/bin/main.rs` 560-800 | `LINK_LOCK`, `ACK_SIGNAL`, `OUT_CHANNEL`, link-up flag | `wio_request`, `heartbeat_task`, `uart_rx_task` | an answer reaches the task that waits for it | `BulkTransfer` |
| ESP bulk bridge (`handle_bulk`, `usb_task`, `gatt_session`) | `BulkState` per client task, `FW_XFER_ACTIVE` | `OP_BEGIN/DATA/END/ABORT`, idle abort, clean-up of a session | one transfer at a time; nothing is left behind by one that ended | `BulkTransfer` |
| Host link `tools/wio_link.py` | operation in hand, attempts | `send_bulk`, `bulk_op_retry`, `send_end` | success is reported only for what is in force | `BulkTransfer` |
| LoRa node `wio/src/node.rs` | next id, seen table (16), repeat queue (4) | `send`, `poll`, `send_due_repeat`, `configure` | a broadcast is delivered and repeated once; the hop count bounds it | `LoraNet` |
| Radio driver `wio/src/radio.rs` | chip mode, IRQ status, RX buffer | `init`, `standby`, `poll_recv`, `send` | a packet is read once, a transmission ends within its timeout, reception resumes | `LoraNet` (the buffer and mode a node sees), `RadioTiming` (its timeouts) |
| WIO loop `wio/src/bin/main.rs` | `sleeping`, deadlines, last fix, config | serve a command, GPS, beacon, receive, repeat, status, SD | every duty gets its turn, none acts while asleep or in a transfer | `WioLoop`; what single duties do in `SwapBoot`, `BulkTransfer`, `Storage`, `PowerSleep`, `LoraNet` |
| Radio coordination (`RADIO_BUSY`, `peer_busy`, `wio_busy`) | flag with a 3 s life on either side | set, clear, expire | neither starts on the other's flag, and none waits for ever | `WioLoop`; its delay as `Hold` in `LoraNet` |
| Link framing `proto/src/link.rs` 247-386, `wio/src/esplink.rs` | parser state, receive ring | `push`, `build`, `drain_rx_isr` | frames arrive whole, in order, once; each disturbance costs a bounded number of them | `FrameLink` |
| Configuration store `wio/src/cfgstore.rs`, `sdlog.rs` 276-307, `main.rs` 122-158, 299-348 | RADIO.CFG on the card, backup page in flash, config in force | read at boot, CFG_END, `write`, `matches` | a config reported stored is in force after the next power cycle, and never half a config | `Storage` |
| SD log `wio/src/sdlog.rs` | mount, pending lines, header flag, retry time | `poll`, `flush`, `log_position`, `disable` | a card that fails or comes back costs no line that the buffer can hold; one header per log, first | `Storage` |
| ESP power `esp/src/bin/main.rs` 205-486, 939-1222, 1346-1442 | rail pin, settings in RTC RAM and NVS, deep sleep | boot restore, `serve_task`, `apply_config`, reset pulse | settings survive sleep and power loss; the rail is as asked; every unanswered wake ends, and none is too short to be reached | `PowerSleep` |
| GPS `wio/src/gps.rs` | fix, sentence pair, asleep flag, silence timer | `poll`, `configure`, `sleep`, `wake` | an old fix is not reported as current; the configuration reaches the receiver | `GpsReceiver`, in `WioLoop` |
| Config text `proto/src/radiocfg.rs` | - | `parse`, air time, timeouts, jitter, dedup window | derived timings fit one another at every preset | `RadioTiming` (timings); parsing as a result in `Storage` |
| LoRa payloads `proto/src/lora.rs`, BLE settings `proto/src/ble.rs` | - | `encode_position`, `decode_position`, clamps, settings blob | a decoded position has the fields that were sent | header as `Copy` in `LoraNet`, which fields in `RadioTiming`, settings in `PowerSleep` |
| LEDs, SPI driver of the card, clocks, BLE address, build scripts | - | - | - | not modelled |

### How they interact

* Phone or host → ESP: bulk operations (BEGIN, DATA with a sequence number, END with a
  CRC, ABORT), each answered once; BLE adds configuration writes. USB and BLE run in
  separate tasks and share one link to the WIO.
* ESP ↔ WIO: CRC-8 framed commands over a UART, one acknowledgement per command,
  matched *by command number only*. The WIO answers from its main loop, the ESP
  waits in `wio_request` under a lock with a timeout.
* WIO ↔ air: single-buffer receiver, blocking transmitter. `RADIO_BUSY` frames both
  ways ask the other processor to stay off the air; the wish expires after 3 s.
* ESP → WIO: the power rail and a reset pulse, at any moment.
* Application ↔ boot loader: the boot-state page and the DFU partition, across resets.

### What is hard here

Power fails between two flash operations; acknowledgements are lost, late or meant
for an earlier request; two clients use one link; a BLE session disappears at any
`await`; an ESP timeout runs out while the WIO works; the host's retry crosses the
ESP's clean-up; broadcasts come back by other paths after a node has forgotten them;
8-bit frame ids wrap; a node resets, sleeps or is reconfigured in the middle of all
that. Each is a hazard in `PROJECT.json`, at its line.

## 2. Modules

| Module | Lines | What it is |
|-|-|-|
| `AtomicUpdate` | 78 | abstract: the running image changes as a whole and an unconfirmed one gives way |
| `SwapBoot` | 550 | boot loader, boot-state page, staging, confirmation, power failure; refines `AtomicUpdate` |
| `SwapBoot_proofs` | 422 | `SafeInv`, three invariants and the refinement, for any number of pages and images |
| `BulkTransfer` | 789 | host and BLE client, ESP tasks, UART, WIO receivers, faults |
| `BulkTransfer_proofs` | 2138 | types, ownership of the link, the lock, the answers, ESP and WIO in step, what is committed, for any clients' transfers and faults |
| `BulkTransfer_clients_proofs` | 3215 | what a transfer comes to when nothing but clients fails: nothing left behind, a true success, retries that are enough |
| `FrameChannel` | 43 | abstract: what both processors rely on their UART link for |
| `FrameLink` | 226 | frame builder, line, receive ring and parser, byte by byte; refines `FrameChannel` |
| `FrameLink_proofs` | 2332 | types and the refinement, for any payload length, ring and number of disturbances |
| `LoraNet` | 351 | nodes with a beacon, seen table and repeat queue; the air; time; disturbances |
| `LoraNet_proofs` | 1657 | types, deduplication, the passing of new broadcasts and the hop bound, for any network |
| `RadioTiming` | 57 | air time, timeouts, jitter and payload length at every preset, as arithmetic |
| `GpsReceiver` | 60 | the GPS driver and the module behind it, as operators for `WioLoop` |
| `WioLoop` | 437 | a pass of the WIO's loop in time, with GPS and radio, and the ESP's commands, transfers and notifier |
| `WioLoop_proofs` | 1127 | types, watchdog, GPS settings, the notifications a transmission meets, for any times and configurations |
| `PowerSleep` | 515 | the ESP's start, advertising budget, sessions, deep sleep, settings in RTC RAM and NVS, rail and reset line |
| `PowerSleep_proofs` | 980 | types, the rail, the settings, the awake time, for any times and faults |
| `Storage` | 453 | the WIO's configuration on the card and in flash, and the log |
| `Storage_proofs` | 1031 | types, whole configurations, what a start adopts, the log's header and lines, for any texts and cards |
| `MCSwapBoot`, `MCBulkTransfer`, `MCFrameLink`, `MCLoraNet`, `MCWioLoop`, `MCPowerSleep`, `MCStorage` | 115 | the values TLC gives the constants |

The modules meet at one boundary each. `BulkTransfer` says *which image* reaches
the WIO and when `FwUpdate::end` agrees to it; `SwapBoot` starts from that agreement
(`EndVerified`) with pages that were written well or not. `LoraNet` sees a transfer
as a period in which the loop leaves the radio alone. `Storage` starts where a config that
parses has arrived. `PowerSleep` owns the power the others lose: its `DrivePwr` and reset pulse
are `PowerLoss`, the `reset` fault, `Reset`, `Restart` and `PowerFails` over there. `BulkTransfer`
loses whole frames: that damaged bytes amount to lost frames, and to how many,
is `FrameLink`'s matter; its fault `uart_out` is one frame, and a disturbance that costs more is more
faults. `WioLoop` has the passes that `LoraNet` takes to be instantaneous: `Hold` and the
transfers there are the waiting for `peer` and the ends of passes here. The commands it handles
come from `PowerSleep` (sleep) and `BulkTransfer` (transfers).

### SwapBoot

State: `active`, `dfu`, `scratch` (a page holds data of one image or `Junk`), `magic`
and `progress` (the boot-state page), and the point of the code the processor is at,
`<<task, pc>>`. RAM is `page`, `buf` (PAGE_BUF), `rx`/`rxPages` (the receiver).
`plan` is history: both partitions when the swap was requested.

* Every flash page is written in two actions, erase and program; `InstallErase`,
  `InstallProgram` and so on are the two halves of `copy_page` and of `write_state`.
  Between them the page is `Junk`, or the boot-state page is `ERASED`, and a reset there
  takes what it finds: an erased magic is a normal boot (`BootNormal`).
* `BootSwap`, `BootRevert`, `BootNormal` are the three arms of the boot loader's `main`;
  `Start` is the progress word as `read_progress` takes it; `JumpToApp` and
  `WaitForReflash` the two results of `app_valid`. A board may start without an application
  (`Blank`): the loader then waits, and nothing else can happen to it.
* The application confirms (`ConfirmBoot`, `ConfirmProgram`), initialises
  (`InitDone`) and runs; `HangsEarly` and `HangsInInit` are images that stop before
  and after the confirmation, `WatchdogReset` ends both.
* `Begin` to `RequestSwap` are the receiver, a page at a time; `WritePageProgram`
  also writes a page wrongly, which the CRC in `EndVerified` finds.
* `PowerLoss` is a reset at any point in `LossAt`.

`SafePoints` leaves out the points from which the code does not recover. While a page is
exchanged, the old page is written to DFU after the new one is in ACTIVE; failing at
`giveback`/`givingback` or before the progress is marked makes the
resumed swap copy the page a second time from a DFU that no longer holds it. The
run `swap_giveback_loss` shows what is lost there. Adding
`installing` alone breaks `OldImageKept`, adding `mark` breaks `NewImageInstalled`,
adding `marking` lets the loader hand over a half-swapped partition; failing while DFU still
holds the new page (`LossKeepsNew`) costs the way back but not the new image. `MCSwapBoot`
has these sets, to be put in place of `SafePoints`.

### BulkTransfer

State: per client the operation it is in, what is on its way in either direction and
the ESP's `BulkState`; per task what its `wio_request` waits for; `LINK_LOCK`,
`ACK_SIGNAL`, `FW_XFER_ACTIVE`; the two directions of the UART; the WIO's receivers
and busy flag; the contents committed.

* A step of an ESP task runs from one `await` to the next: `Serve` (the part of
  `handle_bulk` up to its request), `TakeLock`, `LinkReceives` (an ack into
  `ACK_SIGNAL`), `SkipAck` (one with another command), `Done` (the answer, or the
  timeout, and the rest of `handle_bulk`). `UsbIdleAbort`, `SessionEnds` and
  `NotifierEnds` are the three ways a transfer loses its client.
* `toWio` merges OUT_CHANNEL, the wire and the WIO's receive ring; a frame that
  finds it full is dropped.
* A timeout runs out when nothing that would end the wait is under way. One that
  runs out earlier costs a fault, `slow` (the ESP's) or `late` (the host's). The
  others are lost frames and replies, a vanished client, a lost BLE link, a failing
  page, a WIO reset. `met` remembers which kinds occurred, and `overlap` for a client that starts
  again while its last operation is still in the ESP's hands.
* CRC32 is equality with the announced image. A received image is the sequence of the
  chunks in it, so a mixture of two transfers is a value of its own.
* BLE clients send the same operations without `send_bulk`'s repetitions. The central
  program is not part of the repository; it is driven here as the protocol allows.

### FrameLink

State: the frame being written (`out`), the ring, the parser (`state`, `expected`, `buf`; `lo`,
the low length byte, which the code keeps in `expected`).

* `Build` is `build`, which cuts a payload that is too long; the sender blocks until a frame
  is out. `Receives` and `Overflows` are the two branches of `drain_rx_isr`; `FeedSync`,
  `FeedLenLo`, `FeedLenHi`, `FeedData`, `FeedCrc` the five arms of `FrameParser::feed`, one byte per step as
  `EspLink::poll` feeds them.
* A byte is its frame, its place there and the frame's length, not a value. A byte out of its place
  reads as anything: a SYNC or not, any length (one above the largest stands for all of those), a
  CRC that fits or not. CRC-8 finds a single garbled byte; two may cancel out.
* `LosesByte`, `GarblesByte`, `AddsByte` are the line: a byte overrun in the receiver, a changed one, one that
  nobody sent. A byte taken for a SYNC or a CRC that was none (`fooled`) counts as a disturbance too.
  Once there have been `MaxHurts` of them the line is clean and the ring is drained in time.
* `stamp` and `pos` are history kept in a byte: the disturbances before it and how far the sender was.
* The other direction is the same, with the UART's queue for the ring.

### LoraNet

State: per node its configuration, `nextId`, the ticks to its next beacon, `seen` (an
age per address and id; `Ttl` = not remembered), the repeat queue with its delays, the
packet its receiver holds, and what its loop does (runs, sleeps, serves a transfer).

* `Broadcast`, `DropEcho`, `DropDuplicate`, `Accept`, `SendRepeat` are `send`, the three
  ends of `poll`, and `send_due_repeat`, with `mark_seen` and `queue_repeat` in them.
* A transmission reaches any subset of the listeners in range: collisions, bad CRCs and
  a receiver that is sending are all "not heard". A packet overwrites an unread one.
* Time passes in ticks and a pass of the loop takes none; a due repeat may wait `Hold` ticks
  for the ESP's radio. Ages and delays are relative, so no clock has to be bounded.
* `Reset`, `Reconfigure`, `FallAsleep`/`WakeUp` and `TransferBegins`/`Ends` happen to a
  node from outside, at most `MaxDisturbances` times.
* `late`, `forgot`: a copy was under way as long as the window; a node lost an
  entry before its time. `InTime` excludes both and is the condition under which
  `dedup_ttl_s` can keep its promise.

### RadioTiming, GpsReceiver, WioLoop

`RadioTiming` has the functions of `radiocfg.rs` and `lora.rs` that give times and lengths, and the
air time of a packet by the data sheet's formula (external). `GpsReceiver` has the driver (`gpsSleeping`, `fix`) and
the module (`moduleAwake`, `settings`); the module is external and modelled from what the driver relies
on: it reports while it runs, any byte wakes it and is lost, its RAM settings outlive backup mode but not its power. So
`GpsSleep`, which the driver sends whatever it knows, puts a running module to sleep and *wakes* one in backup.

State of `WioLoop`: the configuration and mode, the place in a pass, the deadlines
(`beaconIn`, `clearIn`, `repeats`) and the age of the ESP's flag (`peer`), the watchdog, the GPS, the ESP's bulk operation, its copy of
the flag and its round of notifications, the frames under way.

* A pass goes from `BeginPass`, which reads the time, through the frames (`Handle...`), the GPS
  (`EndDrain`, which a transfer or soft sleep makes the last step), `Beacon` or `NoBeacon`, `Clear`, `Receive`, `Repeat` and
  the card (`Store`) to `Stored`. `Beacon` and `Repeat` block the loop for `left` ticks: the packet's
  time on the air if the radio reports it done, the driver's timeout if it does not.
* Deadlines are relative to the time the pass began; `lag` is how long ago that is, so that a
  deadline read late is read late here too. They are residues modulo `2 * HalfRange`, the range of the 32-bit
  millisecond clock, and `Due` and `PeerBusy` are the code's wrapping comparisons: a deadline that nobody served for
  half the range is in the future again, and a flag never cleared comes alive once per turn of the clock.
* A tick is a second and a half. Only blocked time counts for the watchdog: transmissions and the card's work at the end of a pass,
  which `SdMax` bounds at one tick. That bound is an assumption; the crates give no deadline for a card operation. The writes to
  card and flash at CFG_END come in the *same* pass, before the beacon, and are not counted, so that a slow card there
  shortens the watchdog's margin by as much. A repeated packet is taken to be as long as an own one.
* The ESP sends a command only when the one before is answered or its 500 ms have passed (`wio_request` holds `LINK_LOCK`).
* The notifier's round is `BeginRound`, the one look at the flag, and two or three `Notified`, one per `await`; between any two of them
  `HearFlag`, a pass or a command may come. A round takes no tick: BLE notifications are queued in milliseconds.
  Notifications that never look at the flag - log lines (1333), acks (1281), settings (1233) - are left out.
* The ESP: `AskSleep`, `BulkBegin`, `BulkData`, `BulkEnd` are the frames that reach the WIO (the protocol
  behind them is `BulkTransfer`), `HearFlag` its flag.
* `Restart` is a reset from outside, with the rail or without; `Bites` the watchdog; `HandleFwEnd` the
  reset that ends a firmware transfer (one refused ends as an abort does). A restart keeps the configuration, as with a
  backup in flash it does.
* Only RADIO_BUSY frames are lost (`LoseFrame`): nothing repeats them, while commands are
  acknowledged. A radio that refuses a command, POSITION and STATUS frames are left out.

### PowerSleep

State: where `main` and `serve_task` are (`esp`), the budget `left` to `wake_ends`, what
`apply_config` is in (`call`), `rtc` (PERSIST) and `nvs` (the record), the pins `rail` and
`released`, the WIO behind them, and the frames between the two.

* `Boot` is `main` up to the task: settings from RTC RAM, else flash, else defaults, and the rail
  dark after a wake. `SleepNow`, `Advertise`, `ConnectFails`, `PauseEnds`,
  `WindowExpires`, `Connect` and `SessionEnds` are one round of `serve_task`.
* Time is a tick, taken only where the code waits (`Waiting`); a session has no clock because
  none of its steps looks at `wake_ends`, which is set again when it ends.
* A setting is written in two steps: `SetPwrEn`, `SetEspSleep`, `SetAdvWindow` update RTC RAM
  and erase the sector (`Save`), `SaveWrite` programs it. `SetWioSleep` and `SetGpsSleep` touch
  only RTC RAM and send a request, which `Answered`, `TimedOut` and `PulseEnds` finish.
* `nvs` is the record by what `nvs_decode` makes of it: `None` stands for all that it
  refuses. The two older layouts are in `NvsLoad`. The partition table is assumed
  to have an NVS partition; `persist_update` is one step, as no `await` divides it.
* `EspReset` keeps RTC RAM; the rail may drop or hold, as the pin's reset state decides.
* `told` is what the app was last answered, `stale` what an interrupted or refused save may
  leave in its place; `awake` the ticks the board has been awake.
* Left out: heartbeat (in `BulkTransfer`), GPS backup mode, the settings' other readers.

### Storage

State: the card in the `slot` and whether it has answered init (`inited`), `text` and
`log` of each card, the backup `page`, the fields of `SdLog`, the configuration in force.

* `BootMount` and `BootConfig` are `init` up to the configuration (`Choice` is the card's file,
  else the page, else the defaults; `Adopt` turns a card off for good).
* `Push` to `ProgramFlash` are CFG_END of a text that parses, divided where a power failure
  matters: the file opened (and truncated), closed, the page erased, programmed. The answer and
  the line "config applied, saved to ..." are `Report`.
* `LogPosition`, `RetryMount`, `FlushOpen`, `FlushClose` are the log. Lines are numbered, 0 is
  what is left of a line cut by `DropOldest`. Minutes between mounts and seconds between
  flushes are not counted: a soft sleep or a transfer only delays them.
* `CardWorks` and `CardFails` are the two results of a file operation. A card pulled and put
  back has lost its init, so the next operation fails though `mounted` still holds. An
  operation that fails on a card that works may have reached it or not, or in part: a failing open of RADIO.CFG leaves
  it as it was, empty, or with a length but no clusters (`Bad`); a failing write or close leaves the
  new text, its front (`Torn` if that parses by itself) or what cannot be parsed (`Left`). A lookup of the log that fails at a
  mount counts as a missing log (`Mount`).
* `spoiled` are the stores whose last write failed or was cut short, `misread` the cards whose log a mount has missed:
  history by which the properties name what the code cannot promise then.
* `Pull`, `Insert`, `Edit` are the owner (`Found`: what a computer may leave), `PowerFails`
  every reset of the WIO.
* Left out: `cfg_loaded`, which only colours a status line, and the log of link events.

## 3. Runs

| Run | Checks | Distinct states | Shows |
|-|-|-|-|
| `swap_safe` | `SafeInv BootsWholeImage OldImageKept IsAtomic UpdateSettles` | 76 k | failing at any safe point, an update is atomic, can be reverted until confirmed, and settles |
| `swap_giveback_loss` | `BootsWholeImage`, violated | - | failing while the old page is written back boots a mixture |
| `swap_hang` | `HangingImageGivesWay`, violated | - | an image that hangs in init has already confirmed |
| `bulk_safe` | `TypeOK OneOwner InStep CommitsWhatWasAsked AnswerReachesCaller` | 2.11 M | two transfers of the host, one of the central, two early timeouts, lost frames or lost clients: one owner, answers to their callers, no mixture committed, in step while no answer comes late |
| `bulk_single` | `ClientsLeaveNothing RetriesSucceed SuccessMeansCommitted LinkFreed ClientsFinish` | 56 k | any one fault: retries help, success is true, clients finish and leave nothing, the link is freed |
| `bulk_dangling` | `NothingDangling`, violated | - | a lost chunk leaves the WIO receiving |
| `link_frames` | `TypeOK IsFrameChannel` | 2.71 M | five frames and any two disturbances: frames whole, in order, once, and a bounded loss |
| `lora_dedup` | `TypeOK HandledOnce HopBudget FreshFramesPass` | 854 k | a leaf and two repeaters, wrapping ids, any one disturbance |
| `wio_loop` | `TypeOK WatchdogFed GpsRunsConfig OneRoundOnAir TurnsCome` | 1.87 M | a leaf made a slow repeater, two commands or transfers, a clock that wraps; a frame to repeat, a lost flag or a reset |
| `power_safe` | `TypeOK RailAsAsked BudgetKept SettingsKept WakesLongEnough SleepsAgain WakeWorks` | 553 k | any two faults and two writes from any record in the field |
| `storage_safe` | `TypeOK ConfigIsWhole NeverForgotten HeaderFirst ReportHolds LinesKept LinesWritten` | 2.32 M | two pushes, three lines, three visits to the card, one operation that fails before, after or half-way through its effect, power failing at will |
| `storage_either` | `PersistsEitherWay`, violated | - | a board with its card turned off forgets a pushed config at the next start |

`MCWioLoop` also has two assumptions that TLC evaluates over *every* spreading factor, bandwidth, coding rate
and length: the driver's poll outlasts every packet, the chip's timeout outlasts the poll, and LDRO is set
exactly where a symbol takes 16.38 ms or longer (`TimesHold`); the mask's lengths fit the payload (`MaskHolds`).

### Bounds, and why they are enough

* **SwapBoot**: three pages (first, middle, last), four images of sizes 1, 2, 1, 3: every case of
  a slot with pages past its image, a working, an early-stopping and a hanging image. Power
  failures are not counted: the graph closes. The proofs lift pages and images to any number.
* **BulkTransfer**: two chunks, the least with a first and a last one that differ; two
  attempts instead of three; two transfers of the host, so that a late ack or a repetition can reach
  the next one, beside one of the central; one each where liveness is checked; the
  link holds six frames, more than is ever under way without faults. Two faults:
  the counterexamples found while modelling had the shape "loss, then late". Pairs are taken from
  the six kinds that make the two ends disagree; the other five (a reply lost in the USB FIFO, an ack
  lost on the UART, a failing page, a reset) occur one at a time in `bulk_single`, and to what follows
  a lost reply or ack is an answer that comes late and is not heard.
  `Chunks = 2` leaves out an image of a single chunk, for which
  `CommitsWhatWasAsked` fails after three such faults: late frames of an earlier transfer are then
  as many as the new one has, and its END commits the earlier image. No firmware is that small,
  and as long as no answer comes late the property is proved for images of any length.
* **FrameLink**: payloads of no byte, one and one too many, so that the shortest frame,
  a full one and the builder's cut occur; a ring that holds just the shortest frame; two disturbances,
  the second inside what the first has broken; five frames, so that several can be lost to one. A disturbance costs
  `FramesPerHurt = (MaxPayload + 10) \div 5` of them; with the code's `MAX_PAYLOAD = 256` that is 53.
* **LoraNet**: two repeaters and a leaf in range of one another give the shortest way
  back (leaf → repeater → repeater → leaf) and both orders at a third node. Two
  ids make the counter wrap in the third frame; `Ids * Interval = 6` keeps it two windows
  of `Ttl = 3` long, as 256 ids at 10 s keep it far above 3 s. `Jitter = 1 < Ttl / MaxHops`.
  Two seen slots and one repeat slot are full in reachable states. `forgot` becomes true in
  some behaviours and `late` in others, so `InTime` is not constant.
* **WioLoop**: the times are those `RadioTiming` gives for SF7 and SF11 at 125 kHz, rounded up to
  ticks of 1.5 s: a packet of one tick, a poll of one and of two, the flag's life of two and the
  watchdog's four, so that a slow poll lasts as long as the flag and two of them as long as the watchdog. The clock's range
  is eight ticks (`HalfRange = 4`), more than any deadline ahead (3), so that it wraps, and a soft sleep makes a deadline
  future again. Notifications come every tick (`NotifyInterval = 1`), so that a round can meet each tick of a transmission; that the
  interval is positive (`NotifyAssumption`) means that it is longer than a flag takes over the UART, milliseconds; its limits are those of
  `clamp_interval`, in a crate outside the repository. Two
  commands, so that a sleep command is repeated, or a configuration meets a module put to sleep by the one before; one
  frame to repeat, one lost flag or one reset. Three notifications after a heard flag occur, so that the bound `Round` is tight.
* **PowerSleep**: a window of two ticks or three, so that it can be shortened, expire and be
  outlived; a linger time below it and a pause (`Backoff`) as long as it; offers below, at and above the
  limits. Two writes let one setting be changed while another is in doubt; two faults are the
  least that spoil a save and then lose RTC RAM. The records in flash are none, one of either old
  layout, and one with interval, window and rail off their defaults.
* **Storage**: two configs, one of which turns the card off; one card, since the log and the file
  of a second are never related to those of the first; two pushes (the second meets what the
  first left); three lines with room for two, so that the buffer overflows; three touches, enough for
  pull, edit, insert; one fault, which is what `NeverForgotten` and a misread log take, beside power
  failures, which are not counted.

### Deadlock

`bulk_safe` and `bulk_single` turn the check off: two clients that have made their
transfers and have no further fault to meet rest, and a BLE session dropped at the wrong
place stops everything. `lora_dedup` turns it off because a node asleep may never be woken and
`MaxFrames` ends the beacons, `link_frames` because all its frames are sent in the end, `power_safe` because a central may stay for ever and a board
without power may never get it back. `storage_safe`, `swap_safe`, `wio_loop` and the others check it: their
systems never stop.

## 4. Fairness

* `SwapBoot!Fairness`: boot loader, start-up code and the last step of a swap request run when they
  can - one processor without preemption in straight-line code. No host has to send an image and power does not have to
  fail; `UpdateSettles` is conditional on power failing no more.
* `BulkTransfer!FairSpec`: weak fairness of every step an executor, a timer or the wire takes,
  separately per task. Embassy polls every woken task; `LINK_LOCK` is a fair async mutex. The host program acts on a
  reply, which `send_bulk` does; a BLE central owes nothing: it may fall silent in a transfer and stay connected.
  No client has to start, no fault has to happen. `LinkFreed` therefore excepts a central that stays silent for ever
  (`CentralOwes`): no code of the ESP ends its transfer.
* `PowerSleep!FairSpec`: the executor runs what is ready and the link delivers (weak fairness), and
  time goes on (`SF_vars(Tick)`): between two instants the ESP takes finitely many steps. `Tick` is not
  always enabled, because steps that are due go first. No central has to come, leave or write.
  `SleepsAgain` needs it: attempts to connect that fail for ever must not keep the board awake.
* `Storage!FairSpec`: the loop runs and polls the card. Nobody has to push, touch the card or
  restore power.
* `WioLoop!Fairness`: both processors run (`Runs`): as long as the loop has a step to take, a frame or a timer is there for
  the ESP, or time can go on, one of these happens. One condition is enough because time waits for none
  of them for good: what the two do in a tick is finite, and `Tick` is enabled only when it is done. Nobody has to
  give a command, lose a frame or reset. `TurnsCome` is
  conditional: notifications get their turn if beacons are further apart than the flag lives (`Spaced`), beacons theirs
  if there is a fix and no transfer, sleep or listening role for ever (`MayBeacon`).
* `LoraNet` and `FrameLink` have no liveness property: a packet or a frame may always be lost.

## 5. What disagrees with the code's own words

Four runs end in a violation on purpose; each checks what a comment or document of the
repository says. `PROJECT.json` "findings" quotes each line.

* `swap_giveback_loss`: the swap is called power-fail-safe (`bootloader/src/main.rs:190`).
* `swap_hang`: a hang anywhere in init is said to revert (`wio/src/bin/main.rs:103`).
* `bulk_dangling`: an abort is said to leave neither side waiting (`tools/wio_link.py:339`).
* `storage_either`: with the card off, the config is said to persist in flash either way
  (`RADIO.example.toml:98`).

Further defects met while modelling are kept as hazards with a note, without a run of their own.
The properties around them are stated so that they hold, and can be seen to fail when the
exception is lifted:

* a central that falls silent in a transfer and stays connected keeps `FW_XFER_ACTIVE` set for as long: only `usb_task` has the idle
  path (829-846) by which `esp/src/bin/main.rs:1585` excuses a failed end (`LinkFreed` without `CentralOwes`);
* a repeated OP_BEGIN is refused: it has no sequence number to recognise it by;
* a config refused at the end, whose reply is lost, is reported as applied by the repetition
  (`bulk_single` with `Shapes = {"unparsable"}` and a TOML client breaks `SuccessMeansCommitted`);
* a BLE link lost while the events arm waits in `handle_bulk` leaves `FW_XFER_ACTIVE` set
  (`bulk_single` with the fault `cancel` breaks `LinkFreed`);
* the same loss in `pulse_wio_reset` leaves the WIO's reset line low until the next pulse
  or restart (`NotifierEnds` with `call = "pulse"`);
* the late ack of a sleep request answers the wake that follows it (`WakeWorks` without its bound
  on faults);
* power lost while RADIO.CFG is open leaves an empty file, which parses as the defaults and is
  preferred to the backup in flash, against `wio/src/cfgstore.rs:3-8`; an open, write or close that fails on a working card can leave the same, or the front
  of the new text, though the push is then reported as saved to flash (`NeverForgotten` without its
  `text[slot] \notin {Empty, Torn}`);
* any error of the lookup at a mount (`wio/src/sdlog.rs:175`) is taken for a missing log: a second header goes into the middle
  of the file (`HeaderFirst` without `misread`);
* an OP_END refused because fewer bytes came than were announced (`esp/src/bin/main.rs:1569`) clears the
  transfer on the ESP without telling the WIO, which keeps receiving. It takes an answer that comes too late to get
  there; `ClientsLeaveNothing` is therefore asked only while nothing but clients fails;
* "resyncs on the next valid frame by CRC" (`esp/src/bin/main.rs:790`, `wio/src/esplink.rs:41`): a lost
  byte costs the frame after it as well, and a damaged length up to 53 short ones (`Cost <- 1` breaks
  `IsFrameChannel`);
* a GPS configuration pushed while the module sleeps is never applied, also when it is pushed
  again, as the loop compares it with the one in force (`GpsRunsConfig` without `missed`); the same holds for a reset of the firmware while
  the module sleeps;
* a GPS_SLEEP(1) sent again, as after the ESP's timeout, wakes the module: `Gps::sleep` has no guard (`wio/src/gps.rs:314`), and the bytes to a module in
  backup wake it and are lost. It stays awake, reported asleep, and configurations pass it by
  (`moduleAwake /\ gpsSleeping` is reachable);
* a deadline that nobody serves for half the clock's range, 24.8 days of soft sleep, interval 0 or `rx_only`, is not due again for as
  long (`wio/src/bin/main.rs:53`), and a peer flag whose clear was lost comes alive for 3 s every 49.7 days (`Due`, `PeerBusy`);
* "Defer discretionary notifications while the LoRa radio transmits" (`esp/src/bin/main.rs:1312`): the flag is looked at once per round, so
  that up to three notifications follow a flag heard meanwhile (`OneRoundOnAir` with `strays = 0`), and log lines, acks and settings
  never look at it;
* a sentence that was in the UART when the module was put to sleep brings the fix back after
  `Gps::sleep` has cleared it, and nothing ages it: beacons then repeat an old position
  (`line` in `GpsReceiver`);
* RADIO_BUSY lives 3 s, but at SF12 and 125 kHz a transmission the radio does not report done blocks 4.9 s
  (`OneRoundOnAir` ends with the flag's life, `onAirFor < BusyLife`); the flag is refreshed by chunks of a transfer only, so a host that
  pauses longer lets it expire although it should not (`esp/src/bin/main.rs:1535`);
* two transmissions in one pass, a beacon and a repeat, outlast the watchdog's 6 s at SF12 and 62 kHz, or at SF12 and 125 kHz
  if neither is reported done (`WatchdogFed` names the condition);
* beacons every 2 s at SF12 and 125 kHz hold every notification back (what `Spaced` excepts in `NotifierTurns`);
* a shortened beacon interval takes effect after the old one has run out (`HandleConfig` leaves `beaconIn`
  alone);
* `wio_request` gives the WIO 2 s and the heartbeat 500 ms, less than a slow transmission blocks its loop: an
  acknowledged command then counts as failed (the fault `slow` in `BulkTransfer` and `PowerSleep`).

## 6. Proofs

TLAPS proves, for every value of the constants that satisfies the named assumptions:

* **SafeSwap** `Spec => []SafeInv`, if `LossAt \subseteq SafePoints`. `BootsWholeImage` and
  `OldImageKept` are not inductive: they say nothing of scratch, of the buffer or of the progress
  word, on which a resumed swap depends. `SafeInv` says which page of which image is
  where at every point of the code: pages below the one under work are exchanged,
  those above untouched, and `ExchangeInv` follows the page through its three copies.
  One lemma per action; **WholeImageBoots**, **RollbackKept** and **InstalledAsStaged** (what is tried is, page for
  page, what was staged) follow from it.
* **Refinement** `Spec => IsAtomic`: each action maps to one of `AtomicUpdate` or a
  stutter under the mapping `Phase`, `Current`, `Other`, `Running`, using `SafeInv`.
* **TypeCorrect**, **Ownership**, **LockSerialises**, **AnswersKept** (`BulkTransfer_proofs`): for any
  transfers and faults, at most one client is in a transfer, only the holder of
  `LINK_LOCK` waits for `ACK_SIGNAL`, and an answer leaves the signal to its caller.
* **StaysInStep**, **CommitsOnlyAsked** (`BulkTransfer_proofs`): for any number of chunks, attempts,
  transfers and faults of every kind but those that give up a `wio_request` whose answer is still coming
  (`AnswersInTime`). An ack names only its command, so that the ESP counts whatever ack
  comes; what makes it the right one is that there is no other. `OneCallUnderWay` says this: the call of the holder of
  `LINK_LOCK` is on its way out, or its ack is on its way back or in the signal, or it is lost, and
  nothing else asks for an answer. With it `ClientInStep` can say where the receiver is
  at each of these places - a call not yet read finds it where the ESP is, an ack tells where it was
  left - and `EndsAsked` that a committed image has the END of its client behind it.
* **NothingStaysBehind**, **SuccessIsCommitted**, **RetriesAreEnough** (`BulkTransfer_clients_proofs`): for any
  number of chunks, transfers, attempts and faults of the clients' (a lost reply, a host that vanished, a lost BLE link). The
  three need more than `SyncInv`, because they speak of how a transfer ends. `RoomInv` counts what can
  be under way - a call or a ping, the busy flag, an abort - so that with room for four frames (`LinkHoldsAll`) the UART loses
  none; `PlacedInv` then says that the call of the lock's holder is in exactly one place and behind it
  nothing that would overtake it, and `KeepsInv` what the receiver has at each place. `BusyCalm` and `RxCalm`: when no client
  is in a transfer, the last word on the busy flag is FALSE, and a firmware receiver still in one has an abort coming.
  On top of the link, `HostInv` says the same of each client: its operation or the reply to it is in one place and fits
  the chunk it is at. `RetryInv` adds that every attempt but the last cost a reply, so that with fewer lost than `Attempts` none
  is given up. **SuccessIsCommitted** excludes the shape `unparsable`, for which section 5 tells why it
  fails. **RetriesAreEnough** is about the USB host's good images while the central does not use the link.
* **TypeCorrect**, **Refinement** (`FrameLink_proofs`): for any payload length, ring, number of frames and of
  disturbances, `Spec => IsFrameChannel`. Which frame the parser takes depends on bytes it saw long ago, so the
  invariant follows the bytes on their way. `OutInv`: what is left of the frame being written; `ChainInv`: from one byte to the next
  the sender came further by one place and one for each disturbance between them, and without any they
  follow one another; `OrderInv`: frames in the ring are in order and later than the last delivered; `CostInv`: the frames
  passed over are paid for by the disturbances up to the byte fed last. A sender counts five places for each frame, so
  that out of step the debt is counted in places: what was passed over, and what the parser
  may still take in. One disturbance lets it take in at most `MaxPayload + 4` bytes and pays for
  `5 * FramesPerHurt >= MaxPayload + 6`.
* **TypeCorrect**, **FedInTime**, **SettingsInForce**, **OneRoundMeets** (`WioLoop_proofs`): for any
  configurations, times and bounds. `DogInv` says how long a pass may have taken at each place of it, `SettingsInv` that a module
  whose settings were not missed runs them, asleep or not, and that one the driver takes for awake is. `FlagInv` says of an
  announced transmission that its notifications and what is left of the round make one round at most
  (`strays + notifying <= Round`), and why no second begins: the flag is the last frame under way, in whose time the
  notifier's interval has not run out again, or it is held for the rest of its life. `TypeCorrect` includes
  that the loop's times stay residues of its clock (`ShiftTyped`).
* **TypeCorrect**, **Deduplication** (`LoraNet_proofs`): for every network, `HandledOnce`.
  The invariant `OnceInv` rests on one idea: *an entry of a seen table is never
  older than any copy still under way of the broadcast it stands for*. As long as
  no copy reaches the window's age, none meets a node that has forgotten it. Its
  parts say that copies carry the pair of their broadcast (`Genuine`, `Agree`), that a
  node that took a broadcast remembers it as recently as any copy (`Remembered`), and
  that histories count what is queued (`Counted`, `Queued`). **NewBroadcastsPass** is the other half: a node drops no
  broadcast for an earlier one under the same id, as long as copies are younger than the window and no node has lost an entry
  (`InTime`). An entry may be renewed by late copies of the broadcast it
  stands for, but only by ones younger than the window, so that it lasts less than two windows from the day of that
  broadcast, and the next one under its id comes `Ids` intervals later. This needs addresses that differ
  (`AddressesDistinct`) and `Ids * Interval >= 2 * Ttl - 1` (`IdsOutlastWindows`). **HopsBounded** needs none of the clocks: by
  `FundedInv` the hops a copy has left and the repeats behind it never add up to more than its maker was
  configured for, then or at some other time.
* **TypeCorrect**, **RailObeys**, **SettingsSurvive** (`PowerSleep_proofs`): for any times, offers and
  faults. `RailAsAsked` is inductive only with what a request in progress implies about the session
  (`SessionInv`); `SettingsKept` needs `RecoverInv`, that outside a save *both* copies of the settings, RTC RAM
  and what `nvs_decode` makes of the record, are among those told or in doubt, and `StartInv`,
  that a board running without RTC RAM found nothing in flash. **BudgetHolds** and **WakesReachable** rest on
  `BudgetInv`: the time awake and the time left of the window always add up to it, so that a retry,
  a pause or a changed setting cannot start it over.
* **ConfigWhole**, **BackedKeepsConfig**, **ReportedConfigReturns** (`Storage_proofs`): for any texts,
  cards and faults. The invariant `StoreInv` says what each store holds at each point of a push
  (`PushInv`), what a report still guarantees (`ReportInv`: as long as nobody touches the card, the
  stores it names hold the config), and that what init mounted it can read (`MountInv`). `BackedInv` is why it
  takes two failures to forget: of a backed board the file and the page are each whole, or spoiled, or
  being rewritten; `WholeInv` that only a spoiled card has the front of a text. The
  third is an action property: the start after a report adopts what it named.
  **TypeCorrect**, **OneHeaderFirst**, **NoLineLost**: `LogInv` ties the header flag to an
  empty log (`FreshInv`) on every card that no mount has misread, so that the header is written at most once and first; lemmas on sequences say
  which lines `DropOldest`, a join and an append keep.

The assumptions are those named in the modules, on the constants only: sizes and times are
naturals and positive where the code divides or counts by them, values that stand for different
things differ, `LossAt` stays within `SafePoints`. Hypotheses of single theorems are the two on addresses and ids of
`NewBroadcastsPass`, and `LinkHoldsAll` (the link has room for four frames; OUT_CHANNEL alone has for eight) and the absent
`unparsable` of `BulkTransfer_clients_proofs`. TLC evaluates the assumptions and `LinkHoldsAll` in the runs above, whose
images are all `good`.

Only model-checked: everything that needs fairness (`UpdateSettles`, `LinkFreed`,
`ClientsFinish`, `SleepsAgain`, `WakeWorks`, `LinesWritten`, `TurnsCome`), as ENABLED and liveness are out of the
prover's reach; `CommitsWhatWasAsked` when answers come late, where it depends on the bounds (above);
`SuccessMeansCommitted` after a single fault that is not a client's (a frame lost on the UART, an answer that comes late,
a failing page, a reset): the theorem covers any number of the clients' only. Nothing here is defined by
recursion, so no induction over data is needed.

## 7. Plan

What is left, in this order:

1. The ESP's rail switch and deep sleep together with a transfer in progress: `PowerSleep` and `BulkTransfer` composed over a
   WIO that loses its power.
2. The cache of remote positions in the ESP (POSITION frames, their slots and ages) and what the
   notifier makes of it.
3. The ranges of the configuration's keys as they bound `RadioTiming`: which presets a text can ask for.

## 8. Not modelled, and why

* Clocks and PLL set-up, LEDs, pin assignment, the derivation of the BLE address: hardware access without decisions.
* The card's SPI commands: a protocol with one master and no concurrency; `Storage` sees an operation work or
  fail. The FAT library is external.
* The layout of position payloads and of the settings blob, and the keys of the configuration: sequential code
  with unit tests beside it. `LoraNet` uses the header, `RadioTiming` the lengths.
* The ESP's cache of remote positions, POSITION and STATUS frames: they carry data and change no control of the
  modules here.
* A radio whose commands fail, and the race of `poll_recv` between reading the IRQ status and the buffer status
  (`wio/src/radio.rs:346`): `LoraNet`'s receiver has one buffer that is read as a whole.
* Argument handling and text editing of the host programs; the flashing tool for the ESP.
* Build scripts, lock files, images.

