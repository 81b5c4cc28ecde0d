------------------------------ MODULE WioLoop -------------------------------
(***************************************************************************)
(* The loop of the WIO (wio/src/bin/main.rs) with the GPS driver and the   *)
(* blocking radio, and what the ESP's tasks have to do with it: commands,  *)
(* transfers, the notifier, and the two RADIO_BUSY flags by which either   *)
(* processor keeps off the air while the other is on it.                   *)
(*                                                                         *)
(* Time passes in ticks.  All times of the loop are relative to `now',     *)
(* which it reads when a pass begins; lag is how long ago that was.  They  *)
(* are residues of its 32-bit clock, whose range is 2 * HalfRange ticks.   *)
(* What takes no tick is done before time goes on: frames under way, a     *)
(* pass once per tick, a round of notifications that is due.               *)
(***************************************************************************)
EXTENDS Integers, Sequences, GpsReceiver

CONSTANTS
  Configs, BootConfig,      \* configurations pushed, and the one at the start
  FirstBeacon,              \* ticks from a start to next_beacon
  BeaconJitter, Retry,      \* random delay of a beacon; delay of one held back
  BusyLife,                 \* RADIO_BUSY_TIMEOUT_MS
  DogPeriod,                \* of the watchdog
  SdMax,                    \* longest work on the card in a pass
  RepeatSlots,
  HalfRange,                \* 2^31 ms, up to which a deadline that has passed is due
  NotifyInterval,           \* NOTIFY_INTERVAL_MS
  MaxCommands,              \* commands and transfers of the ESP
  MaxEvents                 \* frames to repeat, frames lost, resets of the WIO

Roles == {"leaf", "repeater", "tx_only", "rx_only"}
\* interval 0 switches the beacon off; air: ticks of a packet on the air;
\* poll, jitter: tx_poll_timeout_ms, repeat_jitter_ms.
Config == [role : Roles, interval : Nat, gps : GpsConfigs, air : Nat, poll : Nat, jitter : Nat]
Slots == 1..RepeatSlots

ASSUME ConfigAssumption == Configs \subseteq Config /\ BootConfig \in Configs
ASSUME BoundsAssumption ==
  {FirstBeacon, BeaconJitter, Retry, BusyLife, DogPeriod, SdMax, RepeatSlots, NotifyInterval,
   MaxCommands, MaxEvents} \subseteq Nat
ASSUME NotifyAssumption == NotifyInterval > 0
\* Deadlines are set less than half the clock's range ahead: the longest is beacon_interval_s, 16 bits.
ASSUME RangeAssumption ==
  /\ HalfRange \in Nat
  /\ FirstBeacon < HalfRange /\ Retry < HalfRange
  /\ \A c \in Configs : c.interval + BeaconJitter < HalfRange /\ c.poll < HalfRange /\ c.jitter < HalfRange

VARIABLES
  cfg,
  sleeping, transfer,    \* soft sleep; FwUpdate is active
  pc,                    \* where in a pass
  lag, left,             \* ticks since `now' was read; ticks the radio or the card still take
  beaconIn, clearIn,     \* to next_beacon, to busy_clear_at; Never: None
  peer,                  \* age of the ESP's flag; Never: not set
  repeats,               \* per slot: ticks to due_ms; Never: free
  dog,                   \* ticks inside passes since the watchdog was fed
  bulk,                  \* ESP: the kind of transfer under way
  espHold, notifyIn,     \* ESP: what is left of the WIO's flag; ticks to the next round of notifications
  notifying,             \* ESP: what is left of a round
  toWio, toEsp,          \* frames under way
  onAirFor, unannounced, \* history: ticks of this transmission, BusyLife at most; its flag was lost
  strays,                \* history: notifications during this transmission, Round + 1 at most
  failed,                \* history: a transmission of this pass was not reported done
  missed,                \* history: settings were kept from a module taken to sleep, or lost on one that slept
  commands, events       \* bounds: commands and transfers; frames heard to repeat, frames lost, resets

Never == -1
Round == 3    \* notifications of a round: position, telemetry, and remote if a node has been heard

passVars == <<pc, lag, left, dog>>
timers == <<beaconIn, clearIn, peer, repeats>>
modeVars == <<cfg, sleeping, transfer>>
espVars == <<bulk, espHold, notifyIn, notifying>>
airVars == <<onAirFor, unannounced, strays, failed>>
counters == <<commands, events>>
vars == <<gpsVars, passVars, timers, modeVars, espVars, toWio, toEsp, airVars, missed, counters>>

\* The other steps of a pass take no time; what happens during them may happen after them.
TimeMayPass == pc = "idle" \/ left > 0
OnAir == pc \in {"beaconing", "repeating"}
Transmits(c) == c.role # "rx_only"
Receives(c) == c.role # "tx_only"
Repeats(c) == c.role = "repeater"

\* millis() counts in 32 bits.
Wrap == 2 * HalfRange
Clock == 0..Wrap - 1

\* A time some ticks on, or back.
\* Mutant of Shift: the clock does not wrap.
ShiftUnwrapped(t, ticks) == IF t = Never THEN Never ELSE t + ticks
Shift(t, ticks) == IF t = Never THEN Never ELSE (t + ticks) % Wrap

\* A deadline passed less than half the range ago; the flag was set less than its life ago.
Due(t) == t # Never /\ (-t) % Wrap < HalfRange
PeerBusy == peer # Never /\ peer < BusyLife

Event == events < MaxEvents /\ events' = events + 1

CountDown(t) == IF t > 0 THEN t - 1 ELSE 0

Init ==
  /\ cfg = BootConfig /\ sleeping = FALSE /\ transfer = FALSE
  /\ pc = "idle" /\ lag = 0 /\ left = 0 /\ dog = 0
  /\ beaconIn = FirstBeacon /\ clearIn = Never /\ peer = Never /\ repeats = [s \in Slots |-> Never]
  /\ gpsSleeping = FALSE /\ fix = FALSE /\ line = "none"
  /\ moduleAwake = TRUE /\ settings = BootConfig.gps
  /\ bulk = "none" /\ espHold = 0 /\ notifyIn = NotifyInterval /\ notifying = 0
  /\ toWio = <<>> /\ toEsp = <<>>
  /\ onAirFor = 0 /\ unannounced = FALSE /\ strays = 0 /\ failed = FALSE /\ missed = FALSE
  /\ commands = 0 /\ events = 0

-----------------------------------------------------------------------------
(***************************************************************************)
(* A pass: read the time, handle the ESP's frames.                         *)
(***************************************************************************)
Frame(cmd, on, new) == [cmd |-> cmd, on |-> on, cfg |-> new]
Flag(cmd, on) == Frame(cmd, on, BootConfig)

\* Mutant of FlagAges: peer_busy without its timeout.
FlagStays == peer' = peer
FlagAges == peer' = Shift(peer, lag)

BeginPass ==
  /\ pc = "idle" /\ (lag > 0 \/ toWio # <<>>)
  /\ pc' = "drain" /\ lag' = 0
  /\ beaconIn' = Shift(beaconIn, -lag)
  /\ clearIn' = Shift(clearIn, -lag)
  /\ FlagAges
  /\ repeats' = [s \in Slots |-> Shift(repeats[s], -lag)]
  /\ UNCHANGED <<gpsVars, left, dog, modeVars, espVars, toWio, toEsp, airVars, missed, counters>>

Handles(cmd) == pc = "drain" /\ toWio # <<>> /\ Head(toWio).cmd = cmd /\ toWio' = Tail(toWio)
On == Head(toWio).on

HandleBusy ==
  /\ Handles("RADIO_BUSY")
  /\ peer' = IF On THEN 0 ELSE Never
  /\ UNCHANGED <<gpsVars, passVars, beaconIn, clearIn, repeats, modeVars, espVars, toEsp, airVars, missed, counters>>

HandleWioSleep ==
  /\ Handles("WIO_SLEEP")
  /\ sleeping' = On
  /\ UNCHANGED <<gpsVars, passVars, timers, cfg, transfer, espVars, toEsp, airVars, missed, counters>>

HandleGpsSleep ==
  /\ Handles("GPS_SLEEP")
  /\ IF On THEN GpsSleep ELSE GpsWake
  /\ UNCHANGED <<passVars, timers, modeVars, espVars, toEsp, airVars, missed, counters>>

\* Mutant of Regps: the new settings are compared with themselves.
RegpsLate(new) == new.gps # new.gps
Regps(new) == new.gps # cfg.gps

\* The settings go to the module if they are new and the module is awake.
HandleConfig ==
  /\ Handles("CFG_END")
  /\ LET new == Head(toWio).cfg IN
       /\ cfg' = new
       /\ repeats' = [s \in Slots |-> Never]
       /\ IF Regps(new) /\ ~gpsSleeping THEN GpsConfigure(new.gps) ELSE UNCHANGED gpsVars
       /\ missed' = IF Regps(new) THEN gpsSleeping ELSE missed
  /\ UNCHANGED <<passVars, beaconIn, clearIn, peer, sleeping, transfer, espVars, toEsp, airVars, counters>>

HandleTransfer ==
  /\ \/ Handles("FW_BEGIN") /\ transfer' = TRUE
     \/ Handles("FW_ABORT") /\ transfer' = FALSE
  /\ UNCHANGED <<gpsVars, passVars, timers, cfg, sleeping, espVars, toEsp, airVars, missed, counters>>

Feed == dog' = 0 /\ failed' = FALSE
EndPass == Feed /\ pc' = "idle"

\* A transfer or a soft sleep ends the pass here; otherwise the GPS is polled.
EndDrain ==
  /\ pc = "drain" /\ toWio = <<>>
  /\ IF transfer \/ sleeping THEN EndPass /\ UNCHANGED gpsVars
     ELSE pc' = "beacon" /\ GpsPoll /\ UNCHANGED <<dog, failed>>
  /\ UNCHANGED <<lag, left, timers, modeVars, espVars, toWio, toEsp, onAirFor, unannounced, strays, missed, counters>>

-----------------------------------------------------------------------------
(***************************************************************************)
(* The rest of a pass: the beacon, the flag, a packet received, a packet   *)
(* repeated, the card.  A transmission blocks the loop until the radio     *)
(* reports it done, or until the poll gives up.                            *)
(***************************************************************************)
\* Mutant of Announce: the ESP is not told.
AnnounceNot == UNCHANGED toEsp /\ clearIn' = cfg.poll
Announce == toEsp' = Append(toEsp, TRUE) /\ clearIn' = cfg.poll

\* Mutant of Blocks: the poll does not give up.
BlocksOn == left' \in {cfg.air, DogPeriod} /\ failed' = (failed \/ left' = DogPeriod)
Blocks ==
  \/ left' = cfg.air /\ UNCHANGED failed
  \/ left' = cfg.poll /\ failed' = TRUE

Transmit(place) ==
  /\ pc' = place
  /\ Announce
  /\ onAirFor' = 0 /\ unannounced' = FALSE /\ strays' = 0
  /\ Blocks
  /\ UNCHANGED <<gpsVars, lag, dog, peer, modeVars, espVars, toWio, missed>>

Landed == onAirFor' = 0 /\ unannounced' = FALSE /\ strays' = 0

BeaconDue == Transmits(cfg) /\ cfg.interval # 0 /\ Due(beaconIn)

Beacon ==
  /\ pc = "beacon" /\ BeaconDue
  /\ fix /\ ~PeerBusy
  /\ Transmit("beaconing")
  /\ \E wait \in 0..BeaconJitter : beaconIn' = cfg.interval + wait
  /\ UNCHANGED <<repeats, counters>>

NoBeacon ==
  /\ pc = "beacon" /\ ~(BeaconDue /\ fix /\ ~PeerBusy)
  /\ pc' = "clear"
  /\ beaconIn' = IF BeaconDue THEN Retry ELSE beaconIn
  /\ UNCHANGED <<gpsVars, lag, left, dog, clearIn, peer, repeats, modeVars, espVars, toWio, toEsp,
                 airVars, missed, counters>>

SentBeacon ==
  /\ pc = "beaconing" /\ left = 0
  /\ pc' = "clear"
  /\ Landed
  /\ UNCHANGED <<gpsVars, lag, left, dog, timers, modeVars, espVars, toWio, toEsp, failed, missed, counters>>

Clear ==
  /\ pc = "clear"
  /\ pc' = "receive"
  /\ IF Due(clearIn) THEN clearIn' = Never /\ toEsp' = Append(toEsp, FALSE) ELSE UNCHANGED <<clearIn, toEsp>>
  /\ UNCHANGED <<gpsVars, lag, left, dog, beaconIn, peer, repeats, modeVars, espVars, toWio, airVars,
                 missed, counters>>

\* A repeater queues what it hears; with all slots in use it drops it.
Receive ==
  /\ pc = "receive"
  /\ pc' = "repeat"
  /\ \/ UNCHANGED <<repeats, events>>
     \/ /\ Receives(cfg) /\ Repeats(cfg) /\ Event
        /\ \E s \in Slots, wait \in 0..cfg.jitter :
             /\ repeats[s] = Never
             /\ \A t \in 1..s - 1 : repeats[t] # Never
             /\ repeats' = [repeats EXCEPT ![s] = wait]
  /\ UNCHANGED <<gpsVars, lag, left, dog, beaconIn, clearIn, peer, modeVars, espVars, toWio, toEsp,
                 airVars, missed, commands>>

RepeatDue == {s \in Slots : Due(repeats[s])}

Repeat ==
  /\ pc = "repeat" /\ ~PeerBusy
  /\ \E s \in RepeatDue :
       /\ \A t \in RepeatDue : s <= t
       /\ repeats' = [repeats EXCEPT ![s] = Never]
  /\ Transmit("repeating")
  /\ UNCHANGED <<beaconIn, counters>>

\* The status report is sent, the card polled.
Store(from) ==
  /\ pc = from
  /\ pc' = "store" /\ left' \in 0..SdMax
  /\ Landed
  /\ UNCHANGED <<gpsVars, lag, dog, timers, modeVars, espVars, toWio, toEsp, failed, missed, counters>>

NoRepeat == (RepeatDue = {} \/ PeerBusy) /\ Store("repeat")
SentRepeat == left = 0 /\ Store("repeating")

Stored ==
  /\ pc = "store" /\ left = 0
  /\ EndPass
  /\ UNCHANGED <<gpsVars, lag, left, timers, modeVars, espVars, toWio, toEsp, onAirFor, unannounced, strays,
                 missed, counters>>

Pass ==
  \/ BeginPass \/ HandleBusy \/ HandleWioSleep \/ HandleGpsSleep \/ HandleConfig \/ HandleTransfer
  \/ EndDrain \/ Beacon \/ NoBeacon \/ SentBeacon \/ Clear \/ Receive \/ Repeat \/ NoRepeat
  \/ SentRepeat \/ Stored

-----------------------------------------------------------------------------
(***************************************************************************)
(* A start: after the watchdog, the end of a firmware transfer, or the     *)
(* ESP's reset pulse; or with the rail, which powers the module as well.   *)
(***************************************************************************)
Start(powered) ==
  /\ GpsStart(cfg.gps, powered)
  /\ missed' = (powered /\ ~moduleAwake)
  /\ sleeping' = FALSE /\ transfer' = FALSE
  /\ pc' = "idle" /\ lag' = 0 /\ left' = 0 /\ dog' = 0
  /\ beaconIn' = FirstBeacon /\ clearIn' = Never /\ peer' = Never /\ repeats' = [s \in Slots |-> Never]
  /\ toWio' = <<>>
  /\ Landed /\ failed' = FALSE
  /\ UNCHANGED <<cfg, espVars, toEsp, commands>>

Bites == dog >= DogPeriod /\ Start(TRUE) /\ UNCHANGED events
HandleFwEnd == pc = "drain" /\ toWio # <<>> /\ Head(toWio).cmd = "FW_END" /\ Start(TRUE) /\ UNCHANGED events
Restart == TimeMayPass /\ Event /\ \E powered \in BOOLEAN : Start(powered)

-----------------------------------------------------------------------------
(***************************************************************************)
(* The ESP.                                                                *)
(***************************************************************************)
EspUnchanged == UNCHANGED <<gpsVars, passVars, timers, modeVars, airVars, missed, events>>

Commands(frames) ==
  /\ TimeMayPass
  /\ toWio = <<>> \/ lag > 0
  /\ commands < MaxCommands /\ commands' = commands + 1
  /\ toWio' = toWio \o frames

AskSleep ==
  /\ \E cmd \in {"WIO_SLEEP", "GPS_SLEEP"}, on \in BOOLEAN : Commands(<<Flag(cmd, on)>>)
  /\ EspUnchanged /\ UNCHANGED <<espVars, toEsp>>

BulkBegin ==
  /\ bulk = "none" /\ bulk' \in {"config", "firmware"}
  /\ Commands((IF bulk' = "firmware" THEN <<Flag("FW_BEGIN", TRUE)>> ELSE <<>>) \o <<Flag("RADIO_BUSY", TRUE)>>)
  /\ EspUnchanged /\ UNCHANGED <<espHold, notifyIn, notifying, toEsp>>

BulkData ==
  /\ TimeMayPass /\ lag > 0
  /\ bulk # "none" /\ toWio = <<>>
  /\ toWio' = <<Flag("RADIO_BUSY", TRUE)>>
  /\ EspUnchanged /\ UNCHANGED <<espVars, toEsp, commands>>

BulkEnd ==
  /\ TimeMayPass
  /\ bulk # "none" /\ bulk' = "none"
  /\ \E last \in {Flag("FW_ABORT", TRUE)} \cup
                 (IF bulk = "firmware" THEN {Flag("FW_END", TRUE)} ELSE {Frame("CFG_END", TRUE, c) : c \in Configs}) :
       toWio' = toWio \o <<last, Flag("RADIO_BUSY", FALSE)>>
  /\ EspUnchanged /\ UNCHANGED <<espHold, notifyIn, notifying, toEsp, commands>>

HearFlag ==
  /\ TimeMayPass
  /\ toEsp # <<>> /\ toEsp' = Tail(toEsp)
  /\ espHold' = IF Head(toEsp) THEN BusyLife ELSE 0
  /\ EspUnchanged /\ UNCHANGED <<bulk, notifyIn, notifying, toWio, commands>>

\* The notifier waits its interval, then until the WIO is not busy; it does not look again
\* before the rest of the round.
NotifyDue == notifyIn = 0 /\ notifying = 0 /\ espHold = 0
BeginRound ==
  /\ TimeMayPass /\ NotifyDue
  /\ notifying' \in {Round - 1, Round}
  /\ EspUnchanged /\ UNCHANGED <<bulk, espHold, notifyIn, toWio, toEsp, commands>>

Notified ==
  /\ TimeMayPass
  /\ notifying > 0 /\ notifying' = notifying - 1
  /\ notifyIn' = IF notifying = 1 THEN NotifyInterval ELSE notifyIn
  /\ strays' = IF OnAir /\ strays <= Round THEN strays + 1 ELSE strays
  /\ UNCHANGED <<gpsVars, passVars, timers, modeVars, bulk, espHold, toWio, toEsp, onAirFor, unannounced, failed,
                 missed, counters>>

-----------------------------------------------------------------------------
\* A RADIO_BUSY frame is lost.
LoseFrame ==
  /\ TimeMayPass
  /\ Event
  /\ \/ /\ \E i \in 1..Len(toWio) :
             /\ toWio[i].cmd = "RADIO_BUSY"
             /\ toWio' = SubSeq(toWio, 1, i - 1) \o SubSeq(toWio, i + 1, Len(toWio))
        /\ UNCHANGED <<toEsp, unannounced>>
     \/ /\ toEsp # <<>> /\ toEsp' = Tail(toEsp)
        /\ unannounced' = (unannounced \/ Head(toEsp))
        /\ UNCHANGED toWio
  /\ UNCHANGED <<gpsVars, passVars, timers, modeVars, espVars, onAirFor, strays, failed, missed, commands>>

Resting == pc = "idle" /\ lag = 0 /\ toWio = <<>>
Blocked == (OnAir \/ pc = "store") /\ left > 0 /\ dog < DogPeriod

Tick ==
  /\ (Resting \/ Blocked) /\ toEsp = <<>> /\ notifying = 0 /\ ~NotifyDue
  /\ lag' = lag + 1
  /\ left' = CountDown(left)
  /\ dog' = IF Blocked THEN dog + 1 ELSE dog
  /\ onAirFor' = IF OnAir /\ onAirFor < BusyLife THEN onAirFor + 1 ELSE onAirFor
  /\ espHold' = CountDown(espHold) /\ notifyIn' = CountDown(notifyIn)
  /\ UNCHANGED <<gpsVars, pc, timers, modeVars, bulk, notifying, toWio, toEsp, unannounced, strays, failed, missed,
                 counters>>

Wio == Pass \/ Bites \/ HandleFwEnd
Esp == HearFlag \/ BeginRound \/ Notified
Runs == Tick \/ Wio \/ Esp
Next == Runs \/ Restart \/ AskSleep \/ BulkBegin \/ BulkData \/ BulkEnd \/ LoseFrame

\* Both processors run: what they do in a tick is finite, so that neither waits for good for the
\* other.  What the host and the owner do, and faults, need not come.
Fairness == WF_vars(Runs)
Spec == Init /\ [][Next]_vars /\ Fairness

-----------------------------------------------------------------------------
Commanded == {"RADIO_BUSY", "WIO_SLEEP", "GPS_SLEEP", "CFG_END", "FW_BEGIN", "FW_ABORT", "FW_END"}
Frames == [cmd : Commanded, on : BOOLEAN, cfg : Configs]

GpsTypes ==
  /\ gpsSleeping \in BOOLEAN /\ fix \in BOOLEAN /\ line \in Sentences /\ moduleAwake \in BOOLEAN
  /\ settings \in GpsConfigs
PassTypes ==
  /\ pc \in {"idle", "drain", "beacon", "beaconing", "clear", "receive", "repeat", "repeating", "store"}
  /\ lag \in Nat /\ left \in Nat /\ dog \in Nat
TimerTypes ==
  /\ beaconIn \in Clock /\ clearIn \in Clock \cup {Never} /\ peer \in Clock \cup {Never}
  /\ repeats \in [Slots -> Clock \cup {Never}]
ModeTypes == cfg \in Configs /\ sleeping \in BOOLEAN /\ transfer \in BOOLEAN
EspTypes ==
  /\ bulk \in {"none", "config", "firmware"} /\ espHold \in Nat /\ notifyIn \in Nat
  /\ notifying \in 0..Round
LinkTypes == toWio \in Seq(Frames) /\ toEsp \in Seq(BOOLEAN)
HistoryTypes ==
  /\ onAirFor \in Nat /\ unannounced \in BOOLEAN /\ strays \in 0..Round + 1
  /\ failed \in BOOLEAN /\ missed \in BOOLEAN
  /\ commands \in Nat /\ events \in Nat

\* Types; the loop's times stay residues of its clock, an absent one is Never.
TypeOK ==
  GpsTypes /\ PassTypes /\ TimerTypes /\ ModeTypes /\ EspTypes /\ LinkTypes /\ HistoryTypes

\* The watchdog bites only at a preset at which two transmissions and the work on
\* the card take too long: two that are reported done or, if one is not, two polls.
Longest == IF failed /\ cfg.poll > cfg.air THEN cfg.poll ELSE cfg.air
WatchdogFed == dog >= DogPeriod => 2 * Longest + SdMax >= DogPeriod

\* "Defer discretionary notifications while the LoRa radio transmits": a transmission whose flag
\* was not lost and is alive meets the notifier's notifications of one round at most, of a round
\* that looked before the flag was set.  Log lines, acks and settings never look, and come on top.
OneRoundOnAir == OnAir /\ ~unannounced /\ onAirFor < BusyLife => strays <= Round

\* A module that runs, whether the driver knows or not, has the settings of the configuration in
\* force, unless they were pushed, or the firmware started, while it was taken to sleep or slept.
GpsRunsConfig == moduleAwake /\ ~missed => settings = cfg.gps

\* Neither processor keeps the other off the air for good: beacons whose interval
\* outlasts the flag leave time for notifications; the end of a transfer leaves it to beacons.
Spaced == cfg.interval = 0 \/ ~Transmits(cfg) \/ cfg.interval > cfg.poll + SdMax \/ cfg.interval > BusyLife
NotifierTurns == <>[]Spaced => []<>(notifyIn = NotifyInterval)
MayBeacon == Transmits(cfg) /\ cfg.interval # 0 /\ fix /\ ~sleeping /\ ~transfer /\ bulk = "none"
BeaconTurns == <>[]MayBeacon => []<>(pc = "beaconing")
TurnsCome == NotifierTurns /\ BeaconTurns
=============================================================================
