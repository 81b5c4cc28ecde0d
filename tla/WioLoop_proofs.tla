--------------------------- MODULE WioLoop_proofs ---------------------------
(***************************************************************************)
(* WioLoop for every choice of configurations, times and faults: types,    *)
(* the watchdog, the settings of the GPS module, and the notifications     *)
(* that meet a transmission.                                               *)
(***************************************************************************)
EXTENDS WioLoop, SequenceTheorems, TLAPS

USE ConfigAssumption

\* Where a pass is, and how long it may have taken to get there.
DogInv ==
  /\ pc \in {"idle", "drain", "beacon"} => dog = 0 /\ ~failed
  /\ pc = "beaconing" => dog + left <= Longest
  /\ pc \in {"clear", "receive", "repeat"} => dog <= Longest
  /\ pc = "repeating" => dog + left <= 2 * Longest
  /\ pc = "store" => dog + left <= 2 * Longest + SdMax

\* The driver knows a module that sleeps; what has not been missed is in force.
SettingsInv ==
  /\ ~gpsSleeping => moduleAwake
  /\ ~missed => settings = cfg.gps

\* While the WIO transmits, its flag is the last frame under way to the ESP, in whose time at most
\* one round can begin, or the ESP holds it for what is left of its life; what has gone out and
\* what is left of the round make one round.
FlagInv ==
  OnAir /\ ~unannounced /\ onAirFor < BusyLife =>
    /\ strays + notifying <= Round
    /\ \/ /\ toEsp # <<>> /\ toEsp[Len(toEsp)] = TRUE
          /\ strays > 0 /\ notifying = 0 => notifyIn > 0
       \/ toEsp = <<>> /\ espHold + onAirFor >= BusyLife

LoopInv == TypeOK /\ DogInv /\ SettingsInv /\ FlagInv

-----------------------------------------------------------------------------
(***************************************************************************)
(* The operators.                                                          *)
(***************************************************************************)
LEMMA BoundsTyped ==
  /\ FirstBeacon \in Nat /\ BeaconJitter \in Nat /\ Retry \in Nat /\ BusyLife \in Nat
  /\ DogPeriod \in Nat /\ SdMax \in Nat /\ NotifyInterval \in Nat
BY BoundsAssumption

LEMMA RoundTyped == Round \in Nat /\ Round - 1 \in 1..Round /\ 0 \in 0..Round /\ 0 \in 0..Round + 1
BY DEF Round

LEMMA ConfigTyped ==
  ASSUME NEW c \in Configs
  PROVE  /\ c.interval \in Nat /\ c.air \in Nat /\ c.poll \in Nat /\ c.jitter \in Nat
         /\ c.gps \in GpsConfigs
BY DEF Config

LEMMA ShiftTyped ==
  ASSUME NEW n \in Int, NEW t \in Clock \cup {Never}
  PROVE  /\ Shift(t, n) \in Clock \cup {Never}
         /\ t \in Clock => Shift(t, n) \in Clock
<1>1. HalfRange \in Nat /\ HalfRange > 0
  BY BoundsTyped, RangeAssumption
<1>2. t + n \in Int
  BY <1>1 DEF Clock, Wrap, Never
<1>3. (t + n) % Wrap \in Clock
  BY <1>1, <1>2 DEF Clock, Wrap
<1> QED
  BY <1>1, <1>3 DEF Shift, Clock, Wrap, Never

\* What deadlines are set to lies in the clock's range.
LEMMA SetTyped ==
  /\ FirstBeacon \in Clock /\ Retry \in Clock /\ 0 \in Clock
  /\ \A c \in Configs :
       /\ c.poll \in Clock
       /\ \A wait \in 0..BeaconJitter : c.interval + wait \in Clock
       /\ \A wait \in 0..c.jitter : wait \in Clock
BY BoundsTyped, ConfigTyped, RangeAssumption DEF Clock, Wrap

LEMMA CountDownTyped == \A t \in Nat : CountDown(t) \in Nat
BY DEF CountDown

LEMMA LongestTyped ==
  ASSUME ModeTypes
  PROVE  /\ cfg.air \in Nat /\ cfg.poll \in Nat
         /\ Longest \in Nat /\ cfg.air <= Longest
         /\ failed => cfg.poll <= Longest
<1>1. cfg.air \in Nat /\ cfg.poll \in Nat
  BY ConfigTyped DEF ModeTypes
<1> QED
  BY <1>1 DEF Longest

LEMMA FrameTyped ==
  ASSUME NEW c \in Commanded, NEW on \in BOOLEAN, NEW new \in Configs
  PROVE  Frame(c, on, new) \in Frames /\ Flag(c, on) \in Frames
BY DEF Frame, Flag, Frames

\* A frame taken out of the queue leaves a queue of frames.
LEMMA RemovedTyped ==
  ASSUME NEW S, NEW q \in Seq(S), NEW i \in 1..Len(q)
  PROVE  SubSeq(q, 1, i - 1) \o SubSeq(q, i + 1, Len(q)) \in Seq(S)
<1>1. SubSeq(q, 1, i - 1) \in Seq(S)
  BY SubSeqProperties
<1>2. SubSeq(q, i + 1, Len(q)) \in Seq(S)
  BY SubSeqProperties
<1> QED
  BY <1>1, <1>2, ConcatProperties

-----------------------------------------------------------------------------
(***************************************************************************)
(* Types.                                                                  *)
(***************************************************************************)
LEMMA InitTyped == Init => TypeOK
<1> SUFFICES ASSUME Init
             PROVE  TypeOK
  OBVIOUS
<1>1. BootConfig.gps \in GpsConfigs
  BY ConfigTyped
<1>2. GpsTypes
  BY <1>1 DEF Init, GpsTypes, Sentences
<1>3. PassTypes
  BY DEF Init, PassTypes
<1>4. TimerTypes
  BY SetTyped DEF Init, TimerTypes
<1>5. ModeTypes
  BY DEF Init, ModeTypes
<1>6. EspTypes /\ LinkTypes
  BY BoundsTyped, RoundTyped DEF Init, EspTypes, LinkTypes
<1>7. HistoryTypes
  BY RoundTyped DEF Init, HistoryTypes
<1> QED
  BY <1>2, <1>3, <1>4, <1>5, <1>6, <1>7 DEF TypeOK

LEMMA GpsSame == GpsTypes /\ UNCHANGED gpsVars => GpsTypes'
BY DEF GpsTypes, gpsVars, driverVars, moduleVars

LEMMA PassSame == PassTypes /\ UNCHANGED passVars => PassTypes'
BY DEF PassTypes, passVars

LEMMA TimerSame == TimerTypes /\ UNCHANGED timers => TimerTypes'
BY DEF TimerTypes, timers

LEMMA ModeSame == ModeTypes /\ UNCHANGED modeVars => ModeTypes'
BY DEF ModeTypes, modeVars

LEMMA EspSame == EspTypes /\ UNCHANGED espVars => EspTypes'
BY DEF EspTypes, espVars

LEMMA LinkSame == LinkTypes /\ UNCHANGED <<toWio, toEsp>> => LinkTypes'
BY DEF LinkTypes

LEMMA HistorySame == HistoryTypes /\ UNCHANGED <<airVars, missed, counters>> => HistoryTypes'
BY DEF HistoryTypes, airVars, counters

LEMMA PartsTyped ==
  ASSUME NEW S, NEW q \in Seq(S)
  PROVE  /\ q # <<>> => Head(q) \in S /\ Tail(q) \in Seq(S)
         /\ \A e \in S : Append(q, e) \in Seq(S)
         /\ \A r \in Seq(S) : q \o r \in Seq(S)
BY HeadTailProperties, AppendProperties, ConcatProperties

LEMMA LiteralTyped ==
  ASSUME NEW S, NEW a \in S, NEW b \in S
  PROVE  <<>> \in Seq(S) /\ <<a>> \in Seq(S) /\ <<a, b>> \in Seq(S)
OBVIOUS

LEMMA HandledTyped ==
  ASSUME LinkTypes, NEW cmd, Handles(cmd), UNCHANGED toEsp
  PROVE  LinkTypes' /\ On \in BOOLEAN /\ Head(toWio).cfg \in Configs
<1>1. Head(toWio) \in Frames /\ Tail(toWio) \in Seq(Frames)
  BY PartsTyped DEF LinkTypes, Handles
<1>2. LinkTypes'
  BY <1>1 DEF LinkTypes, Handles
<1> QED
  BY <1>1, <1>2 DEF On, Frames

LEMMA BeginPassTyped == TypeOK /\ BeginPass => TypeOK'
<1> SUFFICES ASSUME TypeOK, BeginPass
             PROVE  TypeOK'
  OBVIOUS
<1> USE DEF TypeOK
<1>1. GpsTypes' /\ ModeTypes' /\ EspTypes' /\ LinkTypes' /\ HistoryTypes'
  BY GpsSame, ModeSame, EspSame, LinkSame, HistorySame DEF BeginPass
<1>2. PassTypes'
  BY DEF PassTypes, BeginPass
<1>3. TimerTypes'
  BY ShiftTyped DEF TimerTypes, BeginPass, FlagAges, PassTypes
<1> QED
  BY <1>1, <1>2, <1>3

LEMMA HandleBusyTyped == TypeOK /\ HandleBusy => TypeOK'
<1> SUFFICES ASSUME TypeOK, HandleBusy
             PROVE  TypeOK'
  OBVIOUS
<1> USE DEF TypeOK
<1>1. GpsTypes' /\ PassTypes' /\ ModeTypes' /\ EspTypes' /\ HistoryTypes'
  BY GpsSame, PassSame, ModeSame, EspSame, HistorySame DEF HandleBusy
<1>2. TimerTypes'
  BY SetTyped DEF TimerTypes, HandleBusy
<1>3. LinkTypes'
  BY HandledTyped DEF LinkTypes, HandleBusy
<1> QED
  BY <1>1, <1>2, <1>3

LEMMA HandleWioSleepTyped == TypeOK /\ HandleWioSleep => TypeOK'
<1> SUFFICES ASSUME TypeOK, HandleWioSleep
             PROVE  TypeOK'
  OBVIOUS
<1> USE DEF TypeOK
<1>1. GpsTypes' /\ PassTypes' /\ TimerTypes' /\ EspTypes' /\ HistoryTypes'
  BY GpsSame, PassSame, TimerSame, EspSame, HistorySame DEF HandleWioSleep
<1>2. ModeTypes'
  BY HandledTyped DEF ModeTypes, HandleWioSleep
<1>3. LinkTypes'
  BY HandledTyped DEF LinkTypes, HandleWioSleep
<1> QED
  BY <1>1, <1>2, <1>3

LEMMA HandleGpsSleepTyped == TypeOK /\ HandleGpsSleep => TypeOK'
<1> SUFFICES ASSUME TypeOK, HandleGpsSleep
             PROVE  TypeOK'
  OBVIOUS
<1> USE DEF TypeOK
<1>1. PassTypes' /\ TimerTypes' /\ ModeTypes' /\ EspTypes' /\ HistoryTypes'
  BY PassSame, TimerSame, ModeSame, EspSame, HistorySame DEF HandleGpsSleep
<1>2. GpsTypes'
  BY DEF GpsTypes, HandleGpsSleep, GpsSleep, GpsWake, UartWakes, Sentences, driverVars, moduleVars
<1>3. LinkTypes'
  BY HandledTyped DEF LinkTypes, HandleGpsSleep
<1> QED
  BY <1>1, <1>2, <1>3

LEMMA HandleConfigTyped == TypeOK /\ HandleConfig => TypeOK'
<1> SUFFICES ASSUME TypeOK, HandleConfig
             PROVE  TypeOK'
  OBVIOUS
<1> USE DEF TypeOK
<1>1. PassTypes' /\ EspTypes'
  BY PassSame, EspSame DEF HandleConfig
<1>2. GpsTypes'
  BY ConfigTyped, HandledTyped DEF GpsTypes, HandleConfig, GpsConfigure, UartWakes, gpsVars, driverVars, moduleVars
<1>3. TimerTypes'
  BY DEF TimerTypes, HandleConfig, Never
<1>4. ModeTypes'
  BY HandledTyped DEF ModeTypes, HandleConfig
<1>5. LinkTypes'
  BY HandledTyped DEF LinkTypes, HandleConfig
<1>6. HistoryTypes'
  BY DEF HistoryTypes, HandleConfig, airVars, counters, GpsTypes
<1> QED
  BY <1>1, <1>2, <1>3, <1>4, <1>5, <1>6

LEMMA HandleTransferTyped == TypeOK /\ HandleTransfer => TypeOK'
<1> SUFFICES ASSUME TypeOK, HandleTransfer
             PROVE  TypeOK'
  OBVIOUS
<1> USE DEF TypeOK
<1>1. GpsTypes' /\ PassTypes' /\ TimerTypes' /\ EspTypes' /\ HistoryTypes'
  BY GpsSame, PassSame, TimerSame, EspSame, HistorySame DEF HandleTransfer
<1>2. ModeTypes'
  BY DEF ModeTypes, HandleTransfer
<1>3. LinkTypes'
  BY HandledTyped DEF LinkTypes, HandleTransfer
<1> QED
  BY <1>1, <1>2, <1>3

LEMMA EndDrainTyped == TypeOK /\ EndDrain => TypeOK'
<1> SUFFICES ASSUME TypeOK, EndDrain
             PROVE  TypeOK'
  OBVIOUS
<1> USE DEF TypeOK
<1>1. TimerTypes' /\ ModeTypes' /\ EspTypes' /\ LinkTypes'
  BY TimerSame, ModeSame, EspSame, LinkSame DEF EndDrain
<1>2. GpsTypes'
  BY DEF GpsTypes, EndDrain, GpsPoll, Fold, Sentences, gpsVars, driverVars, moduleVars
<1>3. PassTypes'
  BY DEF PassTypes, EndDrain, EndPass, Feed
<1>4. HistoryTypes'
  BY DEF HistoryTypes, EndDrain, EndPass, Feed, counters
<1> QED
  BY <1>1, <1>2, <1>3, <1>4

LEMMA BeaconTyped == TypeOK /\ Beacon => TypeOK'
<1> SUFFICES ASSUME TypeOK, Beacon
             PROVE  TypeOK'
  OBVIOUS
<1> USE DEF TypeOK
<1>1. GpsTypes' /\ ModeTypes' /\ EspTypes'
  BY GpsSame, ModeSame, EspSame DEF Beacon, Transmit, Announce, Blocks
<1>2. PassTypes'
  BY LongestTyped DEF PassTypes, Beacon, Transmit, Announce, Blocks
<1>3. TimerTypes'
  BY SetTyped DEF TimerTypes, Beacon, Transmit, Announce, Blocks, Never, ModeTypes
<1>4. LinkTypes'
  BY DEF LinkTypes, Beacon, Transmit, Announce, Blocks
<1>5. HistoryTypes'
  BY RoundTyped DEF HistoryTypes, Beacon, Transmit, Announce, Blocks, counters
<1> QED
  BY <1>1, <1>2, <1>3, <1>4, <1>5

LEMMA RepeatTyped == TypeOK /\ Repeat => TypeOK'
<1> SUFFICES ASSUME TypeOK, Repeat
             PROVE  TypeOK'
  OBVIOUS
<1> USE DEF TypeOK
<1>1. GpsTypes' /\ ModeTypes' /\ EspTypes'
  BY GpsSame, ModeSame, EspSame DEF Repeat, Transmit, Announce, Blocks
<1>2. PassTypes'
  BY LongestTyped DEF PassTypes, Repeat, Transmit, Announce, Blocks
<1>3. TimerTypes'
  BY SetTyped DEF TimerTypes, Repeat, Transmit, Announce, Blocks, ModeTypes
<1>4. LinkTypes'
  BY DEF LinkTypes, Repeat, Transmit, Announce, Blocks
<1>5. HistoryTypes'
  BY RoundTyped DEF HistoryTypes, Repeat, Transmit, Announce, Blocks, counters
<1> QED
  BY <1>1, <1>2, <1>3, <1>4, <1>5

LEMMA NoBeaconTyped == TypeOK /\ NoBeacon => TypeOK'
<1> SUFFICES ASSUME TypeOK, NoBeacon
             PROVE  TypeOK'
  OBVIOUS
<1> USE DEF TypeOK
<1>1. GpsTypes' /\ ModeTypes' /\ EspTypes' /\ LinkTypes' /\ HistoryTypes'
  BY GpsSame, ModeSame, EspSame, LinkSame, HistorySame DEF NoBeacon
<1>2. PassTypes'
  BY DEF PassTypes, NoBeacon
<1>3. TimerTypes'
  BY SetTyped DEF TimerTypes, NoBeacon
<1> QED
  BY <1>1, <1>2, <1>3

LEMMA SentBeaconTyped == TypeOK /\ SentBeacon => TypeOK'
<1> SUFFICES ASSUME TypeOK, SentBeacon
             PROVE  TypeOK'
  OBVIOUS
<1> USE DEF TypeOK
<1>1. GpsTypes' /\ TimerTypes' /\ ModeTypes' /\ EspTypes' /\ LinkTypes'
  BY GpsSame, TimerSame, ModeSame, EspSame, LinkSame DEF SentBeacon
<1>2. PassTypes'
  BY DEF PassTypes, SentBeacon
<1>3. HistoryTypes'
  BY RoundTyped DEF HistoryTypes, SentBeacon, Landed, counters
<1> QED
  BY <1>1, <1>2, <1>3

LEMMA ClearTyped == TypeOK /\ Clear => TypeOK'
<1> SUFFICES ASSUME TypeOK, Clear
             PROVE  TypeOK'
  OBVIOUS
<1> USE DEF TypeOK
<1>1. GpsTypes' /\ ModeTypes' /\ EspTypes' /\ HistoryTypes'
  BY GpsSame, ModeSame, EspSame, HistorySame DEF Clear
<1>2. PassTypes'
  BY DEF PassTypes, Clear
<1>3. TimerTypes'
  BY DEF TimerTypes, Clear, Never
<1>4. LinkTypes'
  BY PartsTyped DEF LinkTypes, Clear
<1> QED
  BY <1>1, <1>2, <1>3, <1>4

LEMMA ReceiveTyped == TypeOK /\ Receive => TypeOK'
<1> SUFFICES ASSUME TypeOK, Receive
             PROVE  TypeOK'
  OBVIOUS
<1> USE DEF TypeOK
<1>1. GpsTypes' /\ ModeTypes' /\ EspTypes' /\ LinkTypes'
  BY GpsSame, ModeSame, EspSame, LinkSame DEF Receive
<1>2. PassTypes'
  BY DEF PassTypes, Receive
<1>3. TimerTypes'
  BY SetTyped DEF TimerTypes, Receive, ModeTypes
<1>4. HistoryTypes'
  BY DEF HistoryTypes, Receive, Event, airVars
<1> QED
  BY <1>1, <1>2, <1>3, <1>4

LEMMA NoRepeatTyped == TypeOK /\ NoRepeat => TypeOK'
<1> SUFFICES ASSUME TypeOK, NoRepeat
             PROVE  TypeOK'
  OBVIOUS
<1> USE DEF TypeOK
<1>1. GpsTypes' /\ TimerTypes' /\ ModeTypes' /\ EspTypes' /\ LinkTypes'
  BY GpsSame, TimerSame, ModeSame, EspSame, LinkSame DEF NoRepeat, Store
<1>2. PassTypes'
  BY BoundsTyped DEF PassTypes, NoRepeat, Store
<1>3. HistoryTypes'
  BY RoundTyped DEF HistoryTypes, NoRepeat, Store, Landed, counters
<1> QED
  BY <1>1, <1>2, <1>3

LEMMA SentRepeatTyped == TypeOK /\ SentRepeat => TypeOK'
<1> SUFFICES ASSUME TypeOK, SentRepeat
             PROVE  TypeOK'
  OBVIOUS
<1> USE DEF TypeOK
<1>1. GpsTypes' /\ TimerTypes' /\ ModeTypes' /\ EspTypes' /\ LinkTypes'
  BY GpsSame, TimerSame, ModeSame, EspSame, LinkSame DEF SentRepeat, Store
<1>2. PassTypes'
  BY BoundsTyped DEF PassTypes, SentRepeat, Store
<1>3. HistoryTypes'
  BY RoundTyped DEF HistoryTypes, SentRepeat, Store, Landed, counters
<1> QED
  BY <1>1, <1>2, <1>3

LEMMA StoredTyped == TypeOK /\ Stored => TypeOK'
<1> SUFFICES ASSUME TypeOK, Stored
             PROVE  TypeOK'
  OBVIOUS
<1> USE DEF TypeOK
<1>1. GpsTypes' /\ TimerTypes' /\ ModeTypes' /\ EspTypes' /\ LinkTypes'
  BY GpsSame, TimerSame, ModeSame, EspSame, LinkSame DEF Stored
<1>2. PassTypes'
  BY DEF PassTypes, Stored, EndPass, Feed
<1>3. HistoryTypes'
  BY DEF HistoryTypes, Stored, EndPass, Feed, counters
<1> QED
  BY <1>1, <1>2, <1>3

LEMMA BitesTyped == TypeOK /\ Bites => TypeOK'
<1> SUFFICES ASSUME TypeOK, Bites
             PROVE  TypeOK'
  OBVIOUS
<1> USE DEF TypeOK
<1>1. EspTypes'
  BY EspSame DEF Bites, Start
<1>2. GpsTypes'
  BY ConfigTyped DEF GpsTypes, Bites, Start, GpsStart, UartWakes, Sentences, ModeTypes
<1>3. PassTypes'
  BY DEF PassTypes, Bites, Start
<1>4. TimerTypes'
  BY SetTyped DEF TimerTypes, Bites, Start
<1>5. ModeTypes'
  BY DEF ModeTypes, Bites, Start
<1>6. LinkTypes'
  BY DEF LinkTypes, Bites, Start
<1>7. HistoryTypes'
  BY RoundTyped DEF HistoryTypes, Bites, Start, Landed, GpsTypes
<1> QED
  BY <1>1, <1>2, <1>3, <1>4, <1>5, <1>6, <1>7

LEMMA HandleFwEndTyped == TypeOK /\ HandleFwEnd => TypeOK'
<1> SUFFICES ASSUME TypeOK, HandleFwEnd
             PROVE  TypeOK'
  OBVIOUS
<1> USE DEF TypeOK
<1>1. EspTypes'
  BY EspSame DEF HandleFwEnd, Start
<1>2. GpsTypes'
  BY ConfigTyped DEF GpsTypes, HandleFwEnd, Start, GpsStart, UartWakes, Sentences, ModeTypes
<1>3. PassTypes'
  BY DEF PassTypes, HandleFwEnd, Start
<1>4. TimerTypes'
  BY SetTyped DEF TimerTypes, HandleFwEnd, Start
<1>5. ModeTypes'
  BY DEF ModeTypes, HandleFwEnd, Start
<1>6. LinkTypes'
  BY DEF LinkTypes, HandleFwEnd, Start
<1>7. HistoryTypes'
  BY RoundTyped DEF HistoryTypes, HandleFwEnd, Start, Landed, GpsTypes
<1> QED
  BY <1>1, <1>2, <1>3, <1>4, <1>5, <1>6, <1>7

LEMMA RestartTyped == TypeOK /\ Restart => TypeOK'
<1> SUFFICES ASSUME TypeOK, Restart
             PROVE  TypeOK'
  OBVIOUS
<1> USE DEF TypeOK
<1>1. EspTypes'
  BY EspSame DEF Restart, Start
<1>2. GpsTypes'
  BY ConfigTyped DEF GpsTypes, Restart, Start, GpsStart, UartWakes, Sentences, ModeTypes
<1>3. PassTypes'
  BY DEF PassTypes, Restart, Start
<1>4. TimerTypes'
  BY SetTyped DEF TimerTypes, Restart, Start
<1>5. ModeTypes'
  BY DEF ModeTypes, Restart, Start
<1>6. LinkTypes'
  BY DEF LinkTypes, Restart, Start
<1>7. missed' \in BOOLEAN
  BY DEF Restart, Start, GpsTypes
<1>8. onAirFor' \in Nat /\ unannounced' \in BOOLEAN /\ strays' \in 0..Round + 1 /\ failed' \in BOOLEAN
  <2>1. onAirFor' = 0 /\ unannounced' = FALSE /\ strays' = 0 /\ failed' = FALSE
    BY DEF Restart, Start, Landed
  <2> QED
    BY <2>1, RoundTyped
<1>9. commands' \in Nat /\ events' \in Nat
  BY DEF HistoryTypes, Restart, Start, Event
<1>10. HistoryTypes'
  BY <1>7, <1>8, <1>9 DEF HistoryTypes
<1> QED
  BY <1>1, <1>2, <1>3, <1>4, <1>5, <1>6, <1>10

LEMMA AskSleepTyped == TypeOK /\ AskSleep => TypeOK'
<1> SUFFICES ASSUME TypeOK, AskSleep
             PROVE  TypeOK'
  OBVIOUS
<1> USE DEF TypeOK
<1>1. GpsTypes' /\ PassTypes' /\ TimerTypes' /\ ModeTypes' /\ EspTypes'
  BY GpsSame, PassSame, TimerSame, ModeSame, EspSame DEF AskSleep, EspUnchanged
<1>2. LinkTypes'
  BY FrameTyped DEF LinkTypes, AskSleep, Commands, Commanded
<1>3. HistoryTypes'
  BY DEF HistoryTypes, AskSleep, Commands, EspUnchanged, airVars
<1> QED
  BY <1>1, <1>2, <1>3

LEMMA BulkBeginTyped == TypeOK /\ BulkBegin => TypeOK'
<1> SUFFICES ASSUME TypeOK, BulkBegin
             PROVE  TypeOK'
  OBVIOUS
<1> USE DEF TypeOK
<1>1. GpsTypes' /\ PassTypes' /\ TimerTypes' /\ ModeTypes'
  BY GpsSame, PassSame, TimerSame, ModeSame DEF BulkBegin, EspUnchanged
<1>2. EspTypes'
  BY DEF EspTypes, BulkBegin
<1>3. LinkTypes'
  <2>1. Flag("FW_BEGIN", TRUE) \in Frames /\ Flag("RADIO_BUSY", TRUE) \in Frames
    BY FrameTyped DEF Commanded
  <2>2. (IF bulk' = "firmware" THEN <<Flag("FW_BEGIN", TRUE)>> ELSE <<>>) \o <<Flag("RADIO_BUSY", TRUE)>> \in Seq(Frames)
    BY <2>1, LiteralTyped, PartsTyped
  <2> QED
    BY <2>2, PartsTyped DEF LinkTypes, BulkBegin, Commands
<1>4. HistoryTypes'
  BY DEF HistoryTypes, BulkBegin, Commands, EspUnchanged, airVars
<1> QED
  BY <1>1, <1>2, <1>3, <1>4

LEMMA BulkDataTyped == TypeOK /\ BulkData => TypeOK'
<1> SUFFICES ASSUME TypeOK, BulkData
             PROVE  TypeOK'
  OBVIOUS
<1> USE DEF TypeOK
<1>1. GpsTypes' /\ PassTypes' /\ TimerTypes' /\ ModeTypes' /\ EspTypes'
  BY GpsSame, PassSame, TimerSame, ModeSame, EspSame DEF BulkData, EspUnchanged
<1>2. Flag("RADIO_BUSY", TRUE) \in Frames
  BY FrameTyped DEF Commanded
<1>4. LinkTypes'
  BY <1>2, LiteralTyped DEF LinkTypes, BulkData
<1>3. HistoryTypes'
  BY DEF HistoryTypes, BulkData, EspUnchanged, airVars
<1> QED
  BY <1>1, <1>3, <1>4

LEMMA BulkEndTyped == TypeOK /\ BulkEnd => TypeOK'
<1> SUFFICES ASSUME TypeOK, BulkEnd
             PROVE  TypeOK'
  OBVIOUS
<1> USE DEF TypeOK
<1>1. GpsTypes' /\ PassTypes' /\ TimerTypes' /\ ModeTypes'
  BY GpsSame, PassSame, TimerSame, ModeSame DEF BulkEnd, EspUnchanged
<1>2. EspTypes'
  BY DEF EspTypes, BulkEnd
<1>3. LinkTypes'
  <2>1. /\ {Flag("FW_ABORT", TRUE), Flag("FW_END", TRUE), Flag("RADIO_BUSY", FALSE)} \subseteq Frames
        /\ \A c \in Configs : Frame("CFG_END", TRUE, c) \in Frames
    BY FrameTyped DEF Commanded
  <2>2. PICK last \in Frames : toWio' = toWio \o <<last, Flag("RADIO_BUSY", FALSE)>>
    BY <2>1 DEF BulkEnd
  <2>3. <<last, Flag("RADIO_BUSY", FALSE)>> \in Seq(Frames)
    BY <2>1, LiteralTyped
  <2> QED
    BY <2>2, <2>3, PartsTyped DEF LinkTypes, BulkEnd
<1>4. HistoryTypes'
  BY DEF HistoryTypes, BulkEnd, EspUnchanged, airVars
<1> QED
  BY <1>1, <1>2, <1>3, <1>4

LEMMA HearFlagTyped == TypeOK /\ HearFlag => TypeOK'
<1> SUFFICES ASSUME TypeOK, HearFlag
             PROVE  TypeOK'
  OBVIOUS
<1> USE DEF TypeOK
<1>1. GpsTypes' /\ PassTypes' /\ TimerTypes' /\ ModeTypes'
  BY GpsSame, PassSame, TimerSame, ModeSame DEF HearFlag, EspUnchanged
<1>2. EspTypes'
  BY BoundsTyped DEF EspTypes, HearFlag
<1>3. LinkTypes'
  BY PartsTyped DEF LinkTypes, HearFlag
<1>4. HistoryTypes'
  BY DEF HistoryTypes, HearFlag, EspUnchanged, airVars
<1> QED
  BY <1>1, <1>2, <1>3, <1>4

LEMMA BeginRoundTyped == TypeOK /\ BeginRound => TypeOK'
<1> SUFFICES ASSUME TypeOK, BeginRound
             PROVE  TypeOK'
  OBVIOUS
<1> USE DEF TypeOK
<1>1. GpsTypes' /\ PassTypes' /\ TimerTypes' /\ ModeTypes' /\ LinkTypes'
  BY GpsSame, PassSame, TimerSame, ModeSame, LinkSame DEF BeginRound, EspUnchanged
<1>2. EspTypes'
  BY RoundTyped DEF EspTypes, BeginRound
<1>3. HistoryTypes'
  BY DEF HistoryTypes, BeginRound, EspUnchanged, airVars
<1> QED
  BY <1>1, <1>2, <1>3

LEMMA NotifiedTyped == TypeOK /\ Notified => TypeOK'
<1> SUFFICES ASSUME TypeOK, Notified
             PROVE  TypeOK'
  OBVIOUS
<1> USE DEF TypeOK
<1>1. GpsTypes' /\ PassTypes' /\ TimerTypes' /\ ModeTypes' /\ LinkTypes'
  BY GpsSame, PassSame, TimerSame, ModeSame, LinkSame DEF Notified
<1>2. EspTypes'
  BY BoundsTyped, RoundTyped DEF EspTypes, Notified
<1>3. HistoryTypes'
  BY RoundTyped DEF HistoryTypes, Notified, counters
<1> QED
  BY <1>1, <1>2, <1>3

LEMMA LoseFrameTyped == TypeOK /\ LoseFrame => TypeOK'
<1> SUFFICES ASSUME TypeOK, LoseFrame
             PROVE  TypeOK'
  OBVIOUS
<1> USE DEF TypeOK
<1>1. GpsTypes' /\ PassTypes' /\ TimerTypes' /\ ModeTypes' /\ EspTypes'
  BY GpsSame, PassSame, TimerSame, ModeSame, EspSame DEF LoseFrame
<1>2. LinkTypes'
  BY RemovedTyped, PartsTyped DEF LinkTypes, LoseFrame
<1>3. toEsp # <<>> => Head(toEsp) \in BOOLEAN
  BY PartsTyped DEF LinkTypes
<1>4. unannounced' \in BOOLEAN
  BY <1>3 DEF HistoryTypes, LoseFrame
<1>5. UNCHANGED <<onAirFor, strays, failed, missed, commands>>
  BY DEF LoseFrame
<1>6. events' \in Nat
  <2>1. events' = events + 1
    BY DEF LoseFrame, Event
  <2> QED
    BY <2>1 DEF HistoryTypes
<1>7. HistoryTypes'
  BY <1>4, <1>5, <1>6 DEF HistoryTypes
<1> QED
  BY <1>1, <1>2, <1>7

LEMMA TickTyped == TypeOK /\ Tick => TypeOK'
<1> SUFFICES ASSUME TypeOK, Tick
             PROVE  TypeOK'
  OBVIOUS
<1> USE DEF TypeOK
<1>1. GpsTypes' /\ TimerTypes' /\ ModeTypes' /\ LinkTypes'
  BY GpsSame, TimerSame, ModeSame, LinkSame DEF Tick
<1>2. PassTypes'
  BY CountDownTyped DEF PassTypes, Tick
<1>3. EspTypes'
  BY CountDownTyped DEF EspTypes, Tick
<1>4. HistoryTypes'
  BY DEF HistoryTypes, Tick, counters
<1> QED
  BY <1>1, <1>2, <1>3, <1>4

LEMMA NextTyped == TypeOK /\ [Next]_vars => TypeOK'
<1> SUFFICES ASSUME TypeOK, [Next]_vars
             PROVE  TypeOK'
  OBVIOUS
<1>1. CASE Next
  BY <1>1, BeginPassTyped, HandleBusyTyped, HandleWioSleepTyped, HandleGpsSleepTyped, HandleConfigTyped,
     HandleTransferTyped, EndDrainTyped, BeaconTyped, NoBeaconTyped, SentBeaconTyped, ClearTyped,
     ReceiveTyped, RepeatTyped, NoRepeatTyped, SentRepeatTyped, StoredTyped, BitesTyped, HandleFwEndTyped,
     RestartTyped, AskSleepTyped, BulkBeginTyped, BulkDataTyped, BulkEndTyped, HearFlagTyped, BeginRoundTyped, NotifiedTyped,
     LoseFrameTyped, TickTyped
  DEF Next, Runs, Wio, Pass, Esp
<1>2. CASE UNCHANGED vars
  BY <1>2, GpsSame, PassSame, TimerSame, ModeSame, EspSame, LinkSame, HistorySame DEF TypeOK, vars
<1> QED
  BY <1>1, <1>2

-----------------------------------------------------------------------------
(***************************************************************************)
(* The watchdog.                                                           *)
(***************************************************************************)
\* Actions that leave the place, the times and the configuration of a pass alone.
LEMMA DogSame ==
  ASSUME DogInv, UNCHANGED <<pc, left, dog, cfg, failed>>
  PROVE  DogInv'
BY DEF DogInv, Longest

LEMMA DogFed ==
  ASSUME dog' = 0, failed' = FALSE, pc' \in {"idle", "drain", "beacon"}
  PROVE  DogInv'
BY DEF DogInv

\* A transmission takes Longest at most, which a failure may raise.
LEMMA BlocksLongest ==
  ASSUME TypeOK, Blocks, UNCHANGED cfg
  PROVE  /\ left' \in Nat /\ Longest \in Nat /\ Longest' \in Nat
         /\ left' <= Longest' /\ Longest <= Longest'
<1>1. cfg.air \in Nat /\ cfg.poll \in Nat
  BY LongestTyped DEF TypeOK
<1> QED
  BY <1>1 DEF Blocks, Longest

LEMMA SumBound ==
  ASSUME NEW a \in Nat, NEW b \in Nat, NEW c \in Nat, NEW m \in Nat, a <= 2 * c, b <= m
  PROVE  a + b <= 2 * c + m
OBVIOUS

LEMMA DogPass ==
  ASSUME TypeOK, DogInv, Pass
  PROVE  DogInv'
<1> USE DEF TypeOK
<1>1. dog \in Nat /\ left \in Nat /\ SdMax \in Nat /\ Longest \in Nat
  BY BoundsTyped, LongestTyped DEF PassTypes
<1>2. CASE BeginPass
  BY <1>2 DEF BeginPass, DogInv, airVars, modeVars
<1>3. CASE HandleBusy \/ HandleWioSleep \/ HandleGpsSleep \/ HandleTransfer
  BY <1>3, DogSame DEF HandleBusy, HandleWioSleep, HandleGpsSleep, HandleTransfer, passVars, airVars, modeVars
<1>4. CASE HandleConfig
  BY <1>4 DEF HandleConfig, Handles, DogInv, passVars, airVars
<1>5. CASE EndDrain
  BY <1>5 DEF EndDrain, EndPass, Feed, DogInv, modeVars
<1>6. CASE Beacon
  <2>1. pc' = "beaconing" /\ dog' = 0 /\ left' \in Nat /\ left' <= Longest'
    BY <1>6, BlocksLongest DEF Beacon, Transmit, DogInv, modeVars
  <2> QED
    BY <2>1 DEF DogInv
<1>7. CASE NoBeacon
  BY <1>1, <1>7 DEF NoBeacon, DogInv, airVars, modeVars, Longest
<1>8. CASE SentBeacon
  <2>1. pc' = "clear" /\ dog' <= Longest'
    BY <1>1, <1>8 DEF SentBeacon, DogInv, modeVars, Longest
  <2> QED
    BY <2>1 DEF DogInv
<1>9. CASE Clear \/ Receive
  <2>1. pc \in {"clear", "receive"} /\ pc' \in {"receive", "repeat"} /\ UNCHANGED <<dog, cfg, failed>>
    BY <1>9 DEF Clear, Receive, modeVars, airVars
  <2>2. dog' <= Longest'
    BY <2>1 DEF DogInv, Longest
  <2> QED
    BY <2>1, <2>2 DEF DogInv
<1>10. CASE Repeat
  <2>1. pc' = "repeating" /\ dog' = dog /\ dog <= Longest
    BY <1>10 DEF Repeat, Transmit, DogInv
  <2>2. dog' + left' <= 2 * Longest'
    BY <1>1, <1>10, <2>1, BlocksLongest DEF Repeat, Transmit, modeVars
  <2> QED
    BY <2>1, <2>2 DEF DogInv
<1>11. CASE NoRepeat \/ SentRepeat
  <2>1. pc' = "store" /\ left' \in 0..SdMax /\ dog' = dog /\ dog <= 2 * Longest /\ Longest' = Longest
    BY <1>1, <1>11 DEF NoRepeat, SentRepeat, Store, DogInv, modeVars, Longest
  <2>2. left' \in Nat /\ left' <= SdMax
    BY <1>1, <2>1
  <2>3. dog <= 2 * Longest
    BY <2>1
  <2>4. dog + left' <= 2 * Longest + SdMax
    BY <1>1, <2>2, <2>3, SumBound
  <2> QED
    BY <2>1, <2>4 DEF DogInv
<1>12. CASE Stored
  BY <1>12, DogFed DEF Stored, EndPass, Feed
<1> QED
  BY <1>2, <1>3, <1>4, <1>5, <1>6, <1>7, <1>8, <1>9, <1>10, <1>11, <1>12 DEF Pass

LEMMA DogNext == TypeOK /\ DogInv /\ [Next]_vars => DogInv'
<1> SUFFICES ASSUME TypeOK, DogInv, [Next]_vars
             PROVE  DogInv'
  OBVIOUS
<1>1. CASE Pass
  BY <1>1, DogPass
<1>2. CASE Bites \/ HandleFwEnd \/ Restart
  <2>1. dog' = 0 /\ failed' = FALSE /\ pc' = "idle"
    BY <1>2 DEF Bites, HandleFwEnd, Restart, Start
  <2> QED
    BY <2>1, DogFed
<1>3. CASE AskSleep \/ BulkBegin \/ BulkData \/ BulkEnd \/ Esp
  BY <1>3, DogSame
  DEF AskSleep, BulkBegin, BulkData, BulkEnd, Esp, HearFlag, BeginRound, Notified, EspUnchanged, passVars, modeVars, airVars
<1>4. CASE LoseFrame
  BY <1>4, DogSame DEF LoseFrame, passVars, modeVars
<1>5. CASE Tick
  <2>1. dog \in Nat /\ left \in Nat /\ SdMax \in Nat /\ Longest \in Nat /\ Longest' = Longest
    BY <1>5, BoundsTyped, LongestTyped DEF Tick, TypeOK, PassTypes, modeVars, Longest
  <2>2. CASE Blocked
    <3>1. dog' + left' = dog + left /\ pc' = pc /\ pc \in {"beaconing", "repeating", "store"}
      BY <1>5, <2>1, <2>2 DEF Tick, Blocked, OnAir, CountDown
    <3> QED
      BY <2>1, <3>1 DEF DogInv
  <2>3. CASE ~Blocked
    BY <1>5, <2>3 DEF Tick, Resting, DogInv
  <2> QED
    BY <2>2, <2>3
<1>6. CASE UNCHANGED vars
  BY <1>6, DogSame DEF vars, passVars, modeVars, airVars
<1> QED
  BY <1>1, <1>2, <1>3, <1>4, <1>5, <1>6 DEF Next, Runs, Wio

-----------------------------------------------------------------------------
(***************************************************************************)
(* The settings of the GPS module.                                         *)
(***************************************************************************)
LEMMA SettingsSame ==
  ASSUME SettingsInv, UNCHANGED <<gpsSleeping, moduleAwake, missed, settings, cfg>>
  PROVE  SettingsInv'
BY DEF SettingsInv

LEMMA ConfigKeepsSettings ==
  ASSUME SettingsInv, HandleConfig
  PROVE  SettingsInv'
<1> DEFINE new == Head(toWio).cfg
<1>1. cfg' = new /\ missed' = IF Regps(new) THEN gpsSleeping ELSE missed
  BY DEF HandleConfig
<1>2. CASE Regps(new) /\ ~gpsSleeping
  <2>1. moduleAwake' = TRUE /\ settings' = new.gps /\ gpsSleeping' = gpsSleeping
    BY <1>2 DEF HandleConfig, GpsConfigure, UartWakes, SettingsInv, driverVars
  <2> QED
    BY <1>1, <2>1 DEF SettingsInv
<1>3. CASE Regps(new) /\ gpsSleeping
  BY <1>1, <1>3 DEF HandleConfig, SettingsInv, gpsVars, driverVars, moduleVars
<1>4. CASE ~Regps(new)
  BY <1>1, <1>4 DEF HandleConfig, Regps, SettingsInv, gpsVars, driverVars, moduleVars
<1> QED
  BY <1>2, <1>3, <1>4

LEMMA StartKeepsSettings ==
  ASSUME SettingsInv, NEW powered \in BOOLEAN, Start(powered)
  PROVE  SettingsInv'
BY DEF SettingsInv, Start, GpsStart, UartWakes

LEMMA SettingsNext == SettingsInv /\ [Next]_vars => SettingsInv'
<1> SUFFICES ASSUME SettingsInv, [Next]_vars
             PROVE  SettingsInv'
  OBVIOUS
<1>1. CASE HandleConfig
  BY <1>1, ConfigKeepsSettings
<1>2. CASE HandleGpsSleep
  BY <1>2 DEF HandleGpsSleep, GpsSleep, GpsWake, UartWakes, SettingsInv, modeVars
<1>3. CASE Bites \/ HandleFwEnd \/ Restart
  BY <1>3, StartKeepsSettings DEF Bites, HandleFwEnd, Restart
<1>4. CASE EndDrain
  BY <1>4, SettingsSame DEF EndDrain, GpsPoll, gpsVars, driverVars, moduleVars, modeVars
<1>5. CASE BeginPass \/ HandleBusy \/ HandleWioSleep \/ HandleTransfer
  BY <1>5, SettingsSame
  DEF BeginPass, HandleBusy, HandleWioSleep, HandleTransfer, gpsVars, driverVars, moduleVars, modeVars
<1>6. CASE Beacon \/ NoBeacon \/ SentBeacon \/ Clear \/ Receive
  BY <1>6, SettingsSame
  DEF Beacon, NoBeacon, SentBeacon, Clear, Receive, Transmit, gpsVars, driverVars, moduleVars, modeVars
<1>7. CASE Repeat \/ NoRepeat \/ SentRepeat \/ Stored
  BY <1>7, SettingsSame
  DEF Repeat, NoRepeat, SentRepeat, Store, Stored, Transmit, gpsVars, driverVars, moduleVars, modeVars
<1>8. CASE AskSleep \/ BulkBegin \/ BulkData \/ BulkEnd \/ Esp
  BY <1>8, SettingsSame
  DEF AskSleep, BulkBegin, BulkData, BulkEnd, Esp, HearFlag, BeginRound, Notified, EspUnchanged,
      gpsVars, driverVars, moduleVars, modeVars
<1>9. CASE LoseFrame \/ Tick
  BY <1>9, SettingsSame DEF LoseFrame, Tick, gpsVars, driverVars, moduleVars, modeVars
<1>10. CASE UNCHANGED vars
  BY <1>10, SettingsSame DEF vars, gpsVars, driverVars, moduleVars, modeVars
<1> QED
  BY <1>1, <1>2, <1>3, <1>4, <1>5, <1>6, <1>7, <1>8, <1>9, <1>10 DEF Next, Runs, Wio, Pass

-----------------------------------------------------------------------------
(***************************************************************************)
(* The flag.                                                               *)
(***************************************************************************)
LEMMA FlagSame ==
  ASSUME FlagInv, UNCHANGED <<pc, toEsp, espHold, notifyIn, notifying, onAirFor, unannounced, strays>>
  PROVE  FlagInv'
BY DEF FlagInv, OnAir

\* A notification is taken from what is left of the round; with the last one the interval begins.
LEMMA NotifiedFlags ==
  ASSUME TypeOK, FlagInv, Notified
  PROVE  FlagInv'
<1> SUFFICES ASSUME OnAir', ~unannounced', onAirFor' < BusyLife
             PROVE  /\ strays' + notifying' <= Round
                    /\ \/ /\ toEsp' # <<>> /\ toEsp'[Len(toEsp')] = TRUE
                          /\ strays' > 0 /\ notifying' = 0 => notifyIn' > 0
                       \/ toEsp' = <<>> /\ espHold' + onAirFor' >= BusyLife
  BY DEF FlagInv
<1>1. UNCHANGED <<pc, toEsp, espHold, onAirFor, unannounced>>
  BY DEF Notified, passVars
<1>2. strays \in 0..Round + 1 /\ notifying \in 0..Round /\ notifyIn \in Nat
  BY DEF TypeOK, EspTypes, HistoryTypes
<1>3. /\ strays + notifying <= Round
      /\ \/ toEsp # <<>> /\ toEsp[Len(toEsp)] = TRUE
         \/ toEsp = <<>> /\ espHold + onAirFor >= BusyLife
  BY <1>1 DEF FlagInv, OnAir
<1>4. strays' + notifying' <= Round
  BY <1>1, <1>2, <1>3, RoundTyped DEF Notified
<1>5. notifying' = 0 => notifyIn' > 0
  BY <1>2, BoundsTyped, NotifyAssumption DEF Notified
<1> QED
  BY <1>1, <1>3, <1>4, <1>5

\* No round begins once the flag has been heard, and one at most before.
LEMMA BeginRoundFlags ==
  ASSUME TypeOK, FlagInv, BeginRound
  PROVE  FlagInv'
<1> SUFFICES ASSUME OnAir', ~unannounced', onAirFor' < BusyLife
             PROVE  /\ strays' + notifying' <= Round
                    /\ toEsp' # <<>> /\ toEsp'[Len(toEsp')] = TRUE
                    /\ notifying' # 0
  BY DEF FlagInv
<1>1. UNCHANGED <<pc, toEsp, espHold, onAirFor, unannounced, strays>>
  BY DEF BeginRound, EspUnchanged, passVars, airVars
<1>2. /\ strays \in 0..Round + 1 /\ notifyIn = 0 /\ notifying = 0 /\ espHold = 0
      /\ notifying' \in 1..Round /\ onAirFor \in Nat /\ BusyLife \in Nat
  BY BoundsTyped, RoundTyped DEF TypeOK, HistoryTypes, BeginRound, NotifyDue
<1>3. toEsp # <<>> /\ toEsp[Len(toEsp)] = TRUE /\ strays = 0
  BY <1>1, <1>2 DEF FlagInv, OnAir
<1> QED
  BY <1>1, <1>2, <1>3

LEMMA EmptyIsLength0 ==
  ASSUME NEW S, NEW r \in Seq(S)
  PROVE  r = <<>> <=> Len(r) = 0
BY EmptySeq

\* What is last in a queue remains last, or was its only element.
LEMMA LastOfTail ==
  ASSUME NEW S, NEW q \in Seq(S), q # <<>>
  PROVE  \/ Tail(q) = <<>> /\ Head(q) = q[Len(q)]
         \/ Tail(q) # <<>> /\ Tail(q)[Len(Tail(q))] = q[Len(q)]
<1> DEFINE r == Tail(q)
<1>1. Len(q) \in Nat /\ Len(q) # 0 /\ Head(q) = q[1]
  BY EmptySeq
<1>2. r \in Seq(S) /\ Len(r) = Len(q) - 1 /\ \A i \in 1..Len(r) : r[i] = q[i + 1]
  BY HeadTailProperties
<1> HIDE DEF r
<1>3. r = <<>> <=> Len(q) = 1
  BY <1>1, <1>2, EmptyIsLength0
<1>4. Len(q) # 1 => r[Len(r)] = q[Len(q)]
  BY <1>1, <1>2
<1>5. \/ r = <<>> /\ Head(q) = q[Len(q)]
      \/ r # <<>> /\ r[Len(r)] = q[Len(q)]
  BY <1>1, <1>3, <1>4
<1> QED
  BY <1>5 DEF r

LEMMA TransmitFlags ==
  ASSUME TypeOK, NEW place, Transmit(place)
  PROVE  FlagInv'
<1>1. toEsp \in Seq(BOOLEAN) /\ toEsp' = Append(toEsp, TRUE)
  BY DEF TypeOK, LinkTypes, Transmit, Announce
<1>2. toEsp' # <<>> /\ Len(toEsp') = Len(toEsp) + 1 /\ toEsp'[Len(toEsp) + 1] = TRUE
  BY <1>1, AppendProperties
<1>3. strays' = 0 /\ notifying' \in 0..Round
  BY DEF TypeOK, EspTypes, Transmit, espVars
<1>4. strays' + notifying' <= Round
  <2>1. \A n \in 0..Round : 0 + n <= Round
    BY RoundTyped
  <2> QED
    BY <1>3, <2>1
<1>5. toEsp'[Len(toEsp')] = TRUE
  BY <1>2
<1> QED
  BY <1>2, <1>3, <1>4, <1>5 DEF FlagInv

LEMMA HearFlagFlags ==
  ASSUME TypeOK, FlagInv, HearFlag
  PROVE  FlagInv'
<1> SUFFICES ASSUME OnAir', ~unannounced', onAirFor' < BusyLife
             PROVE  /\ strays' + notifying' <= Round
                    /\ \/ /\ toEsp' # <<>> /\ toEsp'[Len(toEsp')] = TRUE
                          /\ strays' > 0 /\ notifying' = 0 => notifyIn' > 0
                       \/ toEsp' = <<>> /\ espHold' + onAirFor' >= BusyLife
  BY DEF FlagInv
<1>1. toEsp \in Seq(BOOLEAN) /\ toEsp # <<>> /\ toEsp' = Tail(toEsp)
  BY DEF TypeOK, LinkTypes, HearFlag
<1>2. onAirFor \in Nat /\ BusyLife \in Nat
  BY BoundsTyped DEF TypeOK, HistoryTypes
<1>3. UNCHANGED <<pc, onAirFor, unannounced, strays, notifying, notifyIn>>
  BY DEF HearFlag, EspUnchanged, airVars, passVars
<1>4. /\ strays + notifying <= Round /\ toEsp[Len(toEsp)] = TRUE
      /\ strays > 0 /\ notifying = 0 => notifyIn > 0
  BY <1>1, <1>3 DEF FlagInv, OnAir
<1>5. CASE toEsp' = <<>> /\ Head(toEsp) = TRUE
  <2>1. espHold' = BusyLife
    BY <1>5 DEF HearFlag
  <2>2. espHold' + onAirFor' >= BusyLife
    BY <1>2, <1>3, <2>1
  <2> QED
    BY <1>3, <1>4, <1>5, <2>2
<1>6. CASE toEsp' # <<>> /\ toEsp'[Len(toEsp')] = TRUE
  BY <1>3, <1>4, <1>6
<1> QED
  BY <1>1, <1>4, <1>5, <1>6, LastOfTail

LEMMA LossFlags ==
  ASSUME TypeOK, FlagInv, LoseFrame
  PROVE  FlagInv'
<1>1. UNCHANGED <<pc, espHold, notifyIn, notifying, onAirFor, strays>>
  BY DEF LoseFrame, passVars, espVars
<1>2. CASE UNCHANGED <<toEsp, unannounced>>
  BY <1>1, <1>2, FlagSame
<1>3. CASE toEsp # <<>> /\ toEsp' = Tail(toEsp) /\ unannounced' = (unannounced \/ Head(toEsp))
  <2> SUFFICES ASSUME OnAir', ~unannounced', onAirFor' < BusyLife
               PROVE  /\ strays' + notifying' <= Round
                      /\ toEsp' # <<>> /\ toEsp'[Len(toEsp')] = TRUE
                      /\ strays' > 0 /\ notifying' = 0 => notifyIn' > 0
    BY DEF FlagInv
  <2>1. toEsp \in Seq(BOOLEAN) /\ ~unannounced /\ ~Head(toEsp)
    BY <1>3 DEF TypeOK, LinkTypes, HistoryTypes
  <2>2. /\ strays + notifying <= Round /\ toEsp[Len(toEsp)] = TRUE
        /\ strays > 0 /\ notifying = 0 => notifyIn > 0
    BY <1>1, <1>3, <2>1 DEF FlagInv, OnAir
  <2>3. toEsp' # <<>> /\ toEsp'[Len(toEsp')] = TRUE
    BY <1>3, <2>1, <2>2, LastOfTail
  <2> QED
    BY <1>1, <2>2, <2>3
<1> QED
  BY <1>2, <1>3 DEF LoseFrame

LEMMA TickFlags ==
  ASSUME TypeOK, FlagInv, Tick
  PROVE  FlagInv'
<1> SUFFICES ASSUME OnAir', ~unannounced', onAirFor' < BusyLife
             PROVE  strays' + notifying' <= Round /\ toEsp' = <<>> /\ espHold' + onAirFor' >= BusyLife
  BY DEF FlagInv
<1>1. toEsp' = <<>> /\ toEsp = <<>> /\ UNCHANGED <<pc, unannounced, strays, notifying>>
  BY DEF Tick
<1>2. espHold \in Nat /\ onAirFor \in Nat /\ BusyLife \in Nat
  BY BoundsTyped DEF TypeOK, EspTypes, HistoryTypes
<1>3. onAirFor < BusyLife /\ onAirFor' = onAirFor + 1
  BY <1>1, <1>2 DEF Tick, OnAir
<1>4. strays + notifying <= Round /\ espHold + onAirFor >= BusyLife
  BY <1>1, <1>3 DEF FlagInv, OnAir
<1>5. espHold' + onAirFor' >= BusyLife
  BY <1>2, <1>3, <1>4 DEF Tick, CountDown
<1> QED
  BY <1>1, <1>4, <1>5

LEMMA FlagNext == TypeOK /\ FlagInv /\ [Next]_vars => FlagInv'
<1> SUFFICES ASSUME TypeOK, FlagInv, [Next]_vars
             PROVE  FlagInv'
  OBVIOUS
<1>1. CASE BeginPass \/ EndDrain \/ NoBeacon \/ SentBeacon \/ Clear \/ Receive \/ NoRepeat \/ SentRepeat \/ Stored
  <2>1. ~OnAir'
    BY <1>1 DEF BeginPass, EndDrain, EndPass, NoBeacon, SentBeacon, Clear, Receive, NoRepeat, SentRepeat, Store,
                Stored, OnAir
  <2> QED
    BY <2>1 DEF FlagInv
<1>2. CASE HandleBusy \/ HandleWioSleep \/ HandleGpsSleep \/ HandleConfig \/ HandleTransfer
  BY <1>2, FlagSame
  DEF HandleBusy, HandleWioSleep, HandleGpsSleep, HandleConfig, HandleTransfer, passVars, espVars, airVars
<1>3. CASE Beacon \/ Repeat
  BY <1>3, TransmitFlags DEF Beacon, Repeat
<1>4. CASE Bites \/ HandleFwEnd \/ Restart
  <2>1. ~OnAir'
    BY <1>4 DEF Bites, HandleFwEnd, Restart, Start, OnAir
  <2> QED
    BY <2>1 DEF FlagInv
<1>5. CASE AskSleep \/ BulkBegin \/ BulkData \/ BulkEnd
  BY <1>5, FlagSame
  DEF AskSleep, BulkBegin, BulkData, BulkEnd, EspUnchanged, passVars, espVars, airVars
<1>6. CASE HearFlag
  BY <1>6, HearFlagFlags
<1>7. CASE LoseFrame
  BY <1>7, LossFlags
<1>8. CASE Tick
  BY <1>8, TickFlags
<1>9. CASE BeginRound
  BY <1>9, BeginRoundFlags
<1>10. CASE Notified
  BY <1>10, NotifiedFlags
<1>11. CASE UNCHANGED vars
  BY <1>11, FlagSame DEF vars, passVars, espVars, airVars
<1> QED
  BY <1>1, <1>2, <1>3, <1>4, <1>5, <1>6, <1>7, <1>8, <1>9, <1>10, <1>11 DEF Next, Runs, Wio, Pass, Esp

-----------------------------------------------------------------------------
LEMMA LoopAlways == Spec => []LoopInv
<1>1. Init => LoopInv
  <2> SUFFICES ASSUME Init
               PROVE  LoopInv
    OBVIOUS
  <2>1. TypeOK
    BY InitTyped
  <2>2. DogInv /\ SettingsInv /\ FlagInv
    BY DEF Init, DogInv, SettingsInv, FlagInv, OnAir
  <2> QED
    BY <2>1, <2>2 DEF LoopInv
<1>2. LoopInv /\ [Next]_vars => LoopInv'
  BY NextTyped, DogNext, SettingsNext, FlagNext DEF LoopInv
<1> QED
  BY <1>1, <1>2, PTL DEF Spec

\* Every variable stays in its type, and the times of the loop in the range of its clock, which
\* they wrap within: one that is not served for half the range is not due for as long.
THEOREM TypeCorrect == Spec => []TypeOK
<1>1. LoopInv => TypeOK
  BY DEF LoopInv
<1> QED
  BY <1>1, LoopAlways, PTL

\* For any presets, card and watchdog period, the loop is reset only where two
\* transmissions, or two polls that give up, and the card may take the period.
THEOREM FedInTime == Spec => []WatchdogFed
<1>1. LoopInv => WatchdogFed
  <2> SUFFICES ASSUME LoopInv, dog >= DogPeriod
               PROVE  2 * Longest + SdMax >= DogPeriod
    BY DEF WatchdogFed
  <2>1. /\ dog \in Nat /\ left \in Nat /\ SdMax \in Nat /\ Longest \in Nat /\ DogPeriod \in Nat
        /\ pc \in {"idle", "drain", "beacon", "beaconing", "clear", "receive", "repeat", "repeating", "store"}
    BY BoundsTyped, LongestTyped DEF LoopInv, TypeOK, PassTypes
  <2>2. dog <= 2 * Longest + SdMax
    BY <2>1 DEF LoopInv, DogInv
  <2> QED
    BY <2>1, <2>2
<1> QED
  BY <1>1, LoopAlways, PTL

\* Whatever is pushed, put to sleep once or again, woken and reset in whatever order, a module
\* that runs has the settings of the configuration in force unless they came while the driver took
\* it to sleep, or were lost on it at a start.
THEOREM SettingsInForce == Spec => []GpsRunsConfig
<1>1. LoopInv => GpsRunsConfig
  BY DEF LoopInv, SettingsInv, GpsRunsConfig
<1> QED
  BY <1>1, LoopAlways, PTL

\* For any times, a transmission whose flag was not lost and is alive meets the notifications of
\* one round at most, however the notifier's awaits, the flag and the loop interleave.
THEOREM OneRoundMeets == Spec => []OneRoundOnAir
<1>1. LoopInv => OneRoundOnAir
  <2> SUFFICES ASSUME LoopInv, OnAir, ~unannounced, onAirFor < BusyLife
               PROVE  strays <= Round
    BY DEF OneRoundOnAir
  <2>1. strays + notifying <= Round
    BY DEF LoopInv, FlagInv
  <2>2. strays \in 0..Round + 1 /\ notifying \in 0..Round
    BY DEF LoopInv, TypeOK, EspTypes, HistoryTypes
  <2> QED
    BY <2>1, <2>2, RoundTyped
<1> QED
  BY <1>1, LoopAlways, PTL
=============================================================================
