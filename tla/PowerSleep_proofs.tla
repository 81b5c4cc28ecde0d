------------------------- MODULE PowerSleep_proofs --------------------------
(***************************************************************************)
(* PowerSleep for every choice of times, limits, values and faults: types, *)
(* the rail as the app has asked for it, the settings that survive, and    *)
(* how long a wake lasts.                                                  *)
(***************************************************************************)
EXTENDS PowerSleep, TLAPS

USE TimesAssumption, BoundsAssumption, NoneAssumption, FlashAssumption

\* A request, a pulse or a save is under way in a session only; without power
\* nothing is left in RTC RAM and the rail is down.
SessionInv ==
  /\ call # "no" => esp = "session"
  /\ esp = "session" => served
  /\ esp = "off" => rtc = None /\ ~rail

\* What a start without RTC RAM would restore.
Recovered == IF NvsLoad = None THEN Default ELSE NvsLoad

\* Between saves RTC RAM and flash, each by itself, give settings that are told
\* or in doubt; during one, flash gives none.
RecoverInv ==
  /\ call # "saving" =>
       /\ rtc # None => InForce(rtc) \in {told} \cup stale
       /\ InForce(Recovered) \in {told} \cup stale
  /\ call = "saving" => nvs = None /\ rtc # None

\* A board that runs without RTC RAM has found nothing in flash to restore.
StartInv == Running /\ rtc = None => NvsLoad = None

PowerInv == TypeOK /\ SessionInv /\ RailAsAsked /\ RecoverInv /\ StartInv

-----------------------------------------------------------------------------
(***************************************************************************)
(* The operators.                                                          *)
(***************************************************************************)
LEMMA DefaultTyped == Default \in Settings
BY DEF Default, Settings, Intervals, Windows

LEMMA PersistTyped ==
  ASSUME rtc \in Settings \cup {None}
  PROVE  Persist \in Settings
BY DefaultTyped DEF Persist

LEMMA WindowTyped ==
  ASSUME NEW p \in Settings
  PROVE  AdvWindow(p) \in 0..(AdvMax + Linger)
<1>1. p.adv \in Windows
  BY DEF Settings
<1> QED
  BY <1>1 DEF AdvWindow, Windows

LEMMA LoadTyped ==
  ASSUME nvs \in Record \cup {None}
  PROVE  NvsLoad \in Settings \cup {None}
<1>1. CASE nvs = None
  BY <1>1 DEF NvsLoad
<1>2. CASE nvs # None
  <2>1. nvs.saved \in Settings
    BY <1>2 DEF Record
  <2>2. [nvs.saved EXCEPT !.adv = 0] \in Settings
    BY <2>1 DEF Settings, Windows
  <2> QED
    BY <1>2, <2>1, <2>2 DEF NvsLoad
<1> QED
  BY <1>1, <1>2

LEMMA ClampTyped ==
  ASSUME NEW v \in Nat, NEW low \in Nat, NEW high \in Nat, low <= high
  PROVE  Clamp(v, low, high) \in low..high
BY DEF Clamp

\* What has just been encoded is what a start restores.
LEMMA EncodeLoads ==
  ASSUME NEW p \in Settings, nvs' = NvsEncode(p)
  PROVE  nvs' \in Record /\ NvsLoad' = p /\ Recovered' = p
<1>1. nvs' \in Record /\ nvs'.version = 3 /\ nvs'.saved = p
  BY DEF NvsEncode, Record
<1>2. nvs' # None /\ p # None
  BY <1>1
<1> QED
  BY <1>1, <1>2 DEF NvsLoad, Recovered

LEMMA PowerTyped ==
  ASSUME TypeOK, NEW on \in BOOLEAN, DrivePwr(on), (wio = "off") = ~rail
  PROVE  /\ rail' = on
         /\ wio' \in {"off", "boot", "run", "soft"}
         /\ (wio' = "off") = ~rail'
BY DEF TypeOK, DrivePwr

-----------------------------------------------------------------------------
(***************************************************************************)
(* What steps leave alone.                                                 *)
(***************************************************************************)
LEMMA RecoverSame ==
  ASSUME RecoverInv, UNCHANGED settingVars, call' = "saving" <=> call = "saving"
  PROVE  RecoverInv'
BY DEF RecoverInv, Recovered, NvsLoad, settingVars, InForce, AdvWindow, ConfiguredOn

LEMMA StartSame ==
  ASSUME StartInv, UNCHANGED <<rtc, nvs>>, Running' => Running
  PROVE  StartInv'
BY DEF StartInv, NvsLoad

LEMMA PersistSame ==
  ASSUME UNCHANGED rtc
  PROVE  Persist' = Persist
BY DEF Persist

\* Advertise, ConnectFails, PauseEnds, Tick: the rest of the board stands still.
LEMMA ServeOnlyStep ==
  ASSUME PowerInv, ServeOnly,
         esp \in {"round", "accept", "pause", "asleep"},
         esp' \in {"round", "accept", "pause", "asleep"}, esp = "asleep" <=> esp' = "asleep",
         interval' \in Intervals, left' \in 0..(AdvMax + Linger),
         timer' \in Nat, awake' \in 0..MaxAwake
  PROVE  PowerInv'
<1>1. TypeOK'
  BY DEF PowerInv, TypeOK, ServeOnly, callVars, settingVars, boardVars
<1>2. SessionInv'
  BY DEF PowerInv, SessionInv, ServeOnly, callVars, settingVars, boardVars
<1>3. RailAsAsked'
  BY PersistSame DEF PowerInv, RailAsAsked, Running, ServeOnly, settingVars, boardVars
<1>4. RecoverInv'
  BY RecoverSame DEF PowerInv, ServeOnly, callVars
<1>9. StartInv'
  BY StartSame DEF PowerInv, Running, ServeOnly, settingVars
<1> QED
  BY <1>1, <1>2, <1>3, <1>4, <1>9 DEF PowerInv

LEMMA AdvertiseStep ==
  ASSUME PowerInv, Advertise
  PROVE  PowerInv'
<1>1. Persist.sleep \in Intervals
  BY PersistTyped DEF PowerInv, TypeOK, Settings
<1>2. timer' \in Nat
  BY DEF Advertise
<1> QED
  BY <1>1, <1>2, ServeOnlyStep DEF Advertise, PowerInv, TypeOK

LEMMA ConnectFailsStep ==
  ASSUME PowerInv, ConnectFails
  PROVE  PowerInv'
BY ServeOnlyStep DEF ConnectFails, PowerInv, TypeOK

LEMMA PauseEndsStep ==
  ASSUME PowerInv, PauseEnds
  PROVE  PowerInv'
BY ServeOnlyStep DEF PauseEnds, PowerInv, TypeOK

LEMMA TickStep ==
  ASSUME PowerInv, Tick
  PROVE  PowerInv'
<1>1. left' \in 0..(AdvMax + Linger) /\ timer' \in Nat /\ awake' \in 0..MaxAwake
  BY DEF Tick, LeftOfBudget, PowerInv, TypeOK, MaxAwake
<1> QED
  BY <1>1, ServeOnlyStep DEF Tick, Waiting, PowerInv, TypeOK

\* Every state in which no save is under way, started over without RAM.
LEMMA LoseRamTyped ==
  ASSUME LoseRam
  PROVE  call' = "no" /\ linked' = FALSE
BY DEF LoseRam

LEMMA DeepSleepStep ==
  ASSUME PowerInv, NEW secs \in Nat, esp \in {"round", "accept"}, EnterDeepSleep(secs)
  PROVE  PowerInv'
<1> USE DEF EnterDeepSleep
<1>0. call = "no"
  BY DEF PowerInv, SessionInv, TypeOK
<1>1. rail' = FALSE /\ wio' \in {"off", "boot", "run", "soft"} /\ (wio' = "off") = ~rail'
  BY PowerTyped DEF PowerInv, RailAsAsked
<1>2. TypeOK'
  BY <1>1, LoseRamTyped DEF PowerInv, TypeOK, settingVars
<1>3. SessionInv'
  BY <1>1, LoseRamTyped DEF SessionInv
<1>4. RailAsAsked'
  BY <1>1 DEF RailAsAsked, Running
<1>5. RecoverInv'
  BY <1>0, LoseRamTyped, RecoverSame DEF PowerInv
<1>9. StartInv'
  BY DEF StartInv, Running
<1> QED
  BY <1>2, <1>3, <1>4, <1>5, <1>9 DEF PowerInv

LEMMA SleepNowStep ==
  ASSUME PowerInv, SleepNow
  PROVE  PowerInv'
<1>1. Persist.sleep \in Nat
  BY PersistTyped DEF PowerInv, TypeOK, Settings, Intervals
<1> QED
  BY <1>1, DeepSleepStep DEF SleepNow

LEMMA WindowExpiresStep ==
  ASSUME PowerInv, WindowExpires
  PROVE  PowerInv'
<1>1. interval \in Nat
  BY DEF PowerInv, TypeOK, Intervals
<1> QED
  BY <1>1, DeepSleepStep DEF WindowExpires

-----------------------------------------------------------------------------
(***************************************************************************)
(* Start, restarts and sessions.                                           *)
(***************************************************************************)
LEMMA RestartStep ==
  ASSUME PowerInv, NEW p \in {"off", "boot"}, NEW wakes \in BOOLEAN, Restart(p, wakes),
         rtc' = rtc \/ rtc' = None,
         p = "off" => rtc' = None /\ rail' = FALSE,
         wio' \in {"off", "boot", "run", "soft"}, rail' \in BOOLEAN, (wio' = "off") = ~rail'
  PROVE  PowerInv'
<1> USE DEF Restart
<1>1. TypeOK'
  BY LoseRamTyped DEF PowerInv, TypeOK
<1>2. SessionInv'
  BY LoseRamTyped DEF SessionInv
<1>3. RailAsAsked'
  BY DEF RailAsAsked, Running
<1>4. RecoverInv'
  <2>1. NvsLoad' = NvsLoad /\ Recovered' = Recovered
    BY DEF NvsLoad, Recovered
  <2>2. InForce(Recovered)' = InForce(Recovered) /\ (rtc' # None => InForce(rtc)' = InForce(rtc))
    BY <2>1 DEF InForce, AdvWindow, ConfiguredOn
  <2>3. CASE call # "saving"
    BY <2>2, <2>3, LoseRamTyped DEF PowerInv, RecoverInv, InDoubt
  <2>4. CASE call = "saving"
    <3>1. Recovered = Default /\ (rtc' # None => Persist = rtc)
      BY <2>4 DEF PowerInv, RecoverInv, Recovered, NvsLoad, Persist
    <3> QED
      BY <2>2, <2>4, <3>1, LoseRamTyped DEF RecoverInv, InDoubt
  <2> QED
    BY <2>3, <2>4
<1>9. StartInv'
  BY DEF StartInv, Running
<1> QED
  BY <1>1, <1>2, <1>3, <1>4, <1>9 DEF PowerInv

LEMMA RestartsStep ==
  ASSUME PowerInv, WakeUp \/ PowerFails \/ PowerReturns \/ EspReset
  PROVE  PowerInv'
<1>0. (wio = "off") = ~rail /\ rail \in BOOLEAN /\ wio \in {"off", "boot", "run", "soft"}
  BY DEF PowerInv, RailAsAsked, TypeOK
<1>1. CASE WakeUp
  BY <1>0, <1>1, RestartStep DEF WakeUp
<1>2. CASE PowerFails
  <2>1. rail' = FALSE /\ wio' \in {"off", "boot", "run", "soft"} /\ (wio' = "off") = ~rail'
    BY <1>0, <1>2, PowerTyped DEF PowerFails, PowerInv
  <2> QED
    BY <1>2, <2>1, RestartStep DEF PowerFails
<1>3. CASE PowerReturns
  BY <1>0, <1>3, RestartStep DEF PowerReturns
<1>4. CASE EspReset
  <2>1. CASE DrivePwr(FALSE)
    <3>1. rail' = FALSE /\ wio' \in {"off", "boot", "run", "soft"} /\ (wio' = "off") = ~rail'
      BY <1>0, <2>1, PowerTyped DEF PowerInv
    <3> QED
      BY <1>4, <3>1, RestartStep DEF EspReset
  <2>2. CASE UNCHANGED <<rail, wio>>
    BY <1>0, <1>4, <2>2, RestartStep DEF EspReset
  <2> QED
    BY <1>4, <2>1, <2>2 DEF EspReset
<1> QED
  BY <1>1, <1>2, <1>3, <1>4

LEMMA BootStep ==
  ASSUME PowerInv, Boot
  PROVE  PowerInv'
<1> DEFINE p == IF Restored = None THEN Default ELSE Restored
<1> USE DEF Boot
<1>0. Restored \in Settings \cup {None} /\ p \in Settings
  BY LoadTyped, DefaultTyped DEF PowerInv, TypeOK, Restored
<1>1. call = "no" /\ call' = "no"
  BY DEF PowerInv, SessionInv, TypeOK, callVars
<1>2. RailAfterBoot(p) \in BOOLEAN
  BY <1>0 DEF RailAfterBoot, ConfiguredOn, PowerInv, TypeOK, Settings
<1>3. /\ rail' = RailAfterBoot(p)
      /\ wio' \in {"off", "boot", "run", "soft"} /\ (wio' = "off") = ~rail'
  BY <1>2, PowerTyped DEF PowerInv, RailAsAsked
<1>4. Persist' = p
  BY <1>0 DEF Persist
<1>5. TypeOK'
  <2>1. left' \in 0..(AdvMax + Linger)
    BY <1>0, WindowTyped
  <2>2. rtc' \in Settings \cup {None} /\ rail' \in BOOLEAN
    BY <1>0, <1>2, <1>3
  <2>3. awake' \in 0..MaxAwake
    BY DEF MaxAwake
  <2>4. UNCHANGED <<woke, linked, interval, timer, nvs, woken>>
    OBVIOUS
  <2>5. esp' = "round" /\ served' = FALSE /\ released' = TRUE
    OBVIOUS
  <2> HIDE DEF Boot
  <2> QED
    BY <1>1, <1>3, <2>1, <2>2, <2>3, <2>4, <2>5 DEF PowerInv, TypeOK
<1>6. SessionInv'
  BY <1>1 DEF SessionInv
<1>7. RailAsAsked'
  BY <1>3, <1>4 DEF RailAsAsked, Running, RailAfterBoot
<1>8. RecoverInv'
  <2>1. NvsLoad' = NvsLoad /\ Recovered' = Recovered
    BY DEF NvsLoad, Recovered
  <2>2. InForce(Recovered)' = InForce(Recovered)
    BY <2>1 DEF InForce, AdvWindow, ConfiguredOn
  <2>3. Restored # None => Restored \in {rtc, Recovered} /\ (Restored = rtc => rtc # None)
    BY DEF Restored, Recovered
  <2>4. rtc' # None => InForce(rtc)' = InForce(Restored)
    BY DEF InForce, AdvWindow, ConfiguredOn
  <2> QED
    BY <1>1, <2>2, <2>3, <2>4 DEF PowerInv, RecoverInv
<1>9. StartInv'
  BY DEF StartInv, Restored, NvsLoad
<1> QED
  BY <1>5, <1>6, <1>7, <1>8, <1>9 DEF PowerInv

LEMMA ConnectStep ==
  ASSUME PowerInv, Connect
  PROVE  PowerInv'
<1> USE DEF Connect
<1>0. call = "no" /\ call' = "no"
  BY DEF PowerInv, SessionInv, TypeOK, callVars
<1>1. ConfiguredOn(Persist) \in BOOLEAN /\ (rail => ConfiguredOn(Persist))
  BY PersistTyped DEF PowerInv, TypeOK, Settings, ConfiguredOn, RailAsAsked, Running
<1>2. rail \/ ConfiguredOn(Persist) \in BOOLEAN
  BY <1>1 DEF PowerInv, TypeOK
<1>3. /\ rail' = (rail \/ ConfiguredOn(Persist))
      /\ wio' \in {"off", "boot", "run", "soft"} /\ (wio' = "off") = ~rail'
  BY <1>2, PowerTyped DEF PowerInv, RailAsAsked, SessionPower
<1>4. rail' = ConfiguredOn(Persist)'
  BY <1>1, <1>3, PersistSame DEF settingVars, ConfiguredOn, PowerInv, TypeOK
<1>5. TypeOK'
  BY <1>0, <1>1, <1>2, <1>3 DEF PowerInv, TypeOK, settingVars, callVars
<1>6. SessionInv'
  BY <1>0 DEF SessionInv
<1>7. RailAsAsked'
  BY <1>3, <1>4 DEF RailAsAsked, Running
<1>8. RecoverInv'
  BY <1>0, RecoverSame DEF PowerInv
<1>9. StartInv'
  BY StartSame DEF PowerInv, Running, settingVars
<1> QED
  BY <1>5, <1>6, <1>7, <1>8, <1>9 DEF PowerInv

LEMMA LinkLostStep ==
  ASSUME PowerInv, LinkLost
  PROVE  PowerInv'
<1> USE DEF LinkLost
<1>1. TypeOK'
  BY DEF PowerInv, TypeOK, callVars, settingVars, boardVars
<1>2. SessionInv'
  BY DEF PowerInv, SessionInv, callVars, settingVars, boardVars
<1>3. RailAsAsked'
  BY PersistSame DEF PowerInv, RailAsAsked, Running, settingVars, boardVars
<1>4. RecoverInv'
  BY RecoverSame DEF PowerInv, callVars
<1>9. StartInv'
  BY StartSame DEF PowerInv, Running, settingVars
<1> QED
  BY <1>1, <1>2, <1>3, <1>4, <1>9 DEF PowerInv

LEMMA AfterSessionStep ==
  ASSUME PowerInv, esp = "session", call # "saving", AfterSession
  PROVE  PowerInv'
<1> USE DEF AfterSession
<1>0. left' \in 0..(AdvMax + Linger) /\ awake' \in 0..MaxAwake
  BY DEF MaxAwake
<1>1. TypeOK'
  BY <1>0, Zenon DEF PowerInv, TypeOK, settingVars, boardVars
<1>2. SessionInv'
  BY DEF PowerInv, SessionInv, settingVars, boardVars
<1>3. RailAsAsked'
  BY PersistSame DEF PowerInv, SessionInv, RailAsAsked, Running, settingVars, boardVars
<1>4. RecoverInv'
  BY RecoverSame DEF PowerInv
<1>9. StartInv'
  BY StartSame DEF PowerInv, Running, settingVars
<1> QED
  BY <1>1, <1>2, <1>3, <1>4, <1>9 DEF PowerInv

-----------------------------------------------------------------------------
(***************************************************************************)
(* apply_config and the WIO.                                               *)
(***************************************************************************)

\* A save, started or refused, of settings that agree with the rail.
LEMMA SaveStep ==
  ASSUME PowerInv, esp = "session", call = "no", UNCHANGED serveVars,
         NEW p \in Settings, Save(p), UNCHANGED <<released, woken>>,
         rail' = ConfiguredOn(p), rail' \in BOOLEAN,
         wio' \in {"off", "boot", "run", "soft"}, (wio' = "off") = ~rail'
  PROVE  PowerInv'
<1>1. rtc' = p /\ p # None /\ Persist' = p
  BY DEF Save, Persist
<1>2. call' \in {"no", "saving"} /\ nvs' \in {nvs, None}
  BY DEF Save, callVars
<1>3. TypeOK'
  BY <1>1, <1>2 DEF PowerInv, TypeOK, serveVars
<1>4. SessionInv'
  BY DEF PowerInv, SessionInv, serveVars
<1>5. RailAsAsked'
  BY <1>1 DEF PowerInv, SessionInv, RailAsAsked, Running, serveVars, ConfiguredOn
<1>6. RecoverInv'
  <2>1. CASE call' = "saving"
    BY <1>1, <2>1 DEF RecoverInv, Save, callVars
  <2>2. CASE call' = "no"
    <3>1. nvs' = nvs /\ told' = InForce(p) /\ stale' = stale \cup {told}
      BY <2>2 DEF Save
    <3>2. NvsLoad' = NvsLoad /\ Recovered' = Recovered
      BY <3>1 DEF NvsLoad, Recovered
    <3>3. InForce(Recovered)' = InForce(Recovered) /\ InForce(rtc)' = InForce(p)
      BY <1>1, <3>2 DEF InForce, AdvWindow, ConfiguredOn
    <3> QED
      BY <2>2, <3>1, <3>3 DEF PowerInv, RecoverInv
  <2> QED
    BY <1>2, <2>1, <2>2
<1>9. StartInv'
  BY <1>1 DEF StartInv
<1> QED
  BY <1>3, <1>4, <1>5, <1>6, <1>9 DEF PowerInv

LEMMA SetPwrEnStep ==
  ASSUME PowerInv, NEW on \in BOOLEAN, SetPwrEn(on)
  PROVE  PowerInv'
<1> DEFINE p == [Persist EXCEPT !.pwrOff = ~on]
<1>1. p \in Settings /\ ConfiguredOn(p) = on
  BY PersistTyped DEF PowerInv, TypeOK, Settings, ConfiguredOn
<1>2. rail' = on /\ wio' \in {"off", "boot", "run", "soft"} /\ (wio' = "off") = ~rail'
  BY PowerTyped DEF SetPwrEn, PowerInv, RailAsAsked
<1> QED
  BY <1>1, <1>2, SaveStep DEF SetPwrEn, Write

LEMMA SetTimeStep ==
  ASSUME PowerInv, Write, UNCHANGED <<serveVars, boardVars, woken>>,
         NEW p \in Settings, p.pwrOff = Persist.pwrOff, Save(p)
  PROVE  PowerInv'
<1>1. rail' = ConfiguredOn(p) /\ rail' \in BOOLEAN
  BY DEF Write, PowerInv, TypeOK, RailAsAsked, ConfiguredOn, boardVars
<1>2. wio' \in {"off", "boot", "run", "soft"} /\ (wio' = "off") = ~rail'
  BY DEF PowerInv, TypeOK, RailAsAsked, boardVars
<1> QED
  BY <1>1, <1>2, SaveStep DEF Write, boardVars

LEMMA SetEspSleepStep ==
  ASSUME PowerInv, NEW secs \in Offered, SetEspSleep(secs)
  PROVE  PowerInv'
<1> DEFINE s == IF secs > 0 THEN Clamp(secs, SleepMin, SleepMax) ELSE 0
           p == [Persist EXCEPT !.sleep = s]
<1>1. s \in Intervals
  BY ClampTyped DEF Intervals
<1>2. p \in Settings /\ p.pwrOff = Persist.pwrOff
  BY <1>1, PersistTyped DEF PowerInv, TypeOK, Settings
<1> QED
  BY <1>2, SetTimeStep DEF SetEspSleep

LEMMA SetAdvWindowStep ==
  ASSUME PowerInv, NEW secs \in Offered, SetAdvWindow(secs)
  PROVE  PowerInv'
<1> DEFINE s == Clamp(secs, AdvMin, AdvMax)
           p == [Persist EXCEPT !.adv = s]
<1>0. AdvMin <= AdvMax
  OBVIOUS
<1>1. s \in Windows
  BY <1>0, ClampTyped DEF Windows
<1>2. p \in Settings /\ p.pwrOff = Persist.pwrOff
  BY <1>1, PersistTyped DEF PowerInv, TypeOK, Settings
<1> QED
  BY <1>2, SetTimeStep DEF SetAdvWindow

LEMMA SaveWriteStep ==
  ASSUME PowerInv, SaveWrite
  PROVE  PowerInv'
<1> USE DEF SaveWrite
<1>0. /\ Persist \in Settings /\ rtc # None /\ Persist = rtc /\ rtc' = rtc /\ nvs = None
      /\ Persist' = Persist /\ rtc \in Settings
  BY PersistTyped DEF PowerInv, TypeOK, RecoverInv, Persist
<1>1. nvs' \in Record \cup {None}
  BY <1>0, EncodeLoads
<1>2. TypeOK'
  BY <1>0, <1>1 DEF PowerInv, TypeOK, serveVars, boardVars
<1>3. SessionInv'
  BY DEF PowerInv, SessionInv, serveVars, boardVars
<1>4. RailAsAsked'
  BY <1>0 DEF PowerInv, RailAsAsked, Running, serveVars, boardVars
<1>5. RecoverInv'
  <2>1. InForce(rtc)' = InForce(Persist) /\ told' = InForce(Persist) /\ call' = "no"
    BY <1>0 DEF InForce, AdvWindow, ConfiguredOn
  <2>2. CASE nvs' = NvsEncode(Persist)
    <3>1. Recovered' = Persist
      BY <1>0, <2>2, EncodeLoads
    <3>2. InForce(Recovered)' = InForce(Persist)
      BY <3>1 DEF InForce, AdvWindow, ConfiguredOn
    <3> QED
      BY <2>1, <3>2 DEF RecoverInv
  <2>3. CASE nvs' = nvs /\ stale' = stale \cup {InForce(Default)}
    <3>1. Recovered' = Default
      BY <1>0, <2>3 DEF NvsLoad, Recovered
    <3>2. InForce(Recovered)' = InForce(Default)
      BY <3>1 DEF InForce, AdvWindow, ConfiguredOn
    <3> QED
      BY <2>1, <2>3, <3>2 DEF RecoverInv
  <2> QED
    BY <2>2, <2>3
<1>9. StartInv'
  BY <1>0 DEF StartInv
<1> QED
  BY <1>2, <1>3, <1>4, <1>5, <1>9 DEF PowerInv

\* The flag of a soft sleep, of the WIO or the GPS, in RTC RAM only.
LEMMA FlagStep ==
  ASSUME PowerInv, Write, NEW p \in Settings, rtc' = p, InForce(p) = InForce(Persist),
         p.pwrOff = Persist.pwrOff,
         call' = "request", UNCHANGED <<serveVars, nvs, told, stale, boardVars>>, woken' \in BOOLEAN
  PROVE  PowerInv'
<1>1. p # None /\ Persist' = p /\ call = "no"
  BY DEF Persist, Write
<1>2. TypeOK'
  BY DEF PowerInv, TypeOK, serveVars, boardVars
<1>3. SessionInv'
  BY DEF PowerInv, SessionInv, Write, serveVars, boardVars
<1>4. RailAsAsked'
  BY <1>1 DEF PowerInv, RailAsAsked, Running, ConfiguredOn, serveVars, boardVars
<1>5. InForce(Persist) \in {told} \cup stale
  <2>1. CASE rtc = None
    <3>1. Persist = Default /\ Recovered = Default
      BY <2>1 DEF Persist, Recovered, StartInv, PowerInv, Running, Write
    <3> QED
      BY <1>1, <3>1 DEF PowerInv, RecoverInv
  <2>2. CASE rtc # None
    BY <1>1, <2>2 DEF Persist, PowerInv, RecoverInv
  <2> QED
    BY <2>1, <2>2
<1>6. RecoverInv'
  <2>1. NvsLoad' = NvsLoad /\ Recovered' = Recovered
    BY DEF NvsLoad, Recovered
  <2>2. InForce(Recovered)' = InForce(Recovered) /\ InForce(rtc)' = InForce(p)
    BY <2>1 DEF InForce, AdvWindow, ConfiguredOn
  <2> QED
    BY <1>1, <1>5, <2>2 DEF PowerInv, RecoverInv
<1>9. StartInv'
  BY <1>1 DEF StartInv
<1> QED
  BY <1>2, <1>3, <1>4, <1>6, <1>9 DEF PowerInv

LEMMA SetWioSleepStep ==
  ASSUME PowerInv, NEW b \in BOOLEAN, SetWioSleep(b)
  PROVE  PowerInv'
<1> DEFINE p == [Persist EXCEPT !.wioSleep = b]
<1>1. p \in Settings /\ p.pwrOff = Persist.pwrOff /\ p.sleep = Persist.sleep /\ p.adv = Persist.adv
  BY PersistTyped DEF PowerInv, TypeOK, Settings
<1>2. InForce(p) = InForce(Persist)
  BY <1>1 DEF InForce, AdvWindow, ConfiguredOn
<1> QED
  BY <1>1, <1>2, FlagStep DEF SetWioSleep, Request

LEMMA SetGpsSleepStep ==
  ASSUME PowerInv, NEW b \in BOOLEAN, SetGpsSleep(b)
  PROVE  PowerInv'
<1> DEFINE p == [Persist EXCEPT !.gpsSleep = b]
<1>1. p \in Settings /\ p.pwrOff = Persist.pwrOff /\ p.sleep = Persist.sleep /\ p.adv = Persist.adv
  BY PersistTyped DEF PowerInv, TypeOK, Settings
<1>2. InForce(p) = InForce(Persist)
  BY <1>1 DEF InForce, AdvWindow, ConfiguredOn
<1>3. woken' \in BOOLEAN
  BY DEF SetGpsSleep, PowerInv, TypeOK
<1> QED
  BY <1>1, <1>2, <1>3, FlagStep DEF SetGpsSleep, Request

\* A request goes on or ends; the WIO may be reset by it, its power stays.
LEMMA CallStep ==
  ASSUME PowerInv, call \in {"no", "request", "pulse"}, call' \in {call, "no", "pulse"},
         call' # "no" => call # "no", UNCHANGED <<serveVars, settingVars, rail>>,
         released' \in BOOLEAN, woken' \in BOOLEAN,
         wio' \in {"off", "boot", "run", "soft"}, (wio' = "off") = ~rail
  PROVE  PowerInv'
<1>1. TypeOK'
  BY DEF PowerInv, TypeOK, serveVars, settingVars
<1>2. SessionInv'
  BY DEF PowerInv, SessionInv, serveVars, settingVars
<1>3. RailAsAsked'
  BY PersistSame DEF PowerInv, RailAsAsked, Running, serveVars, settingVars
<1>4. RecoverInv'
  BY RecoverSame DEF PowerInv
<1>5. StartInv'
  BY StartSame DEF PowerInv, Running, serveVars, settingVars
<1> QED
  BY <1>1, <1>2, <1>3, <1>4, <1>5 DEF PowerInv

LEMMA RequestStep ==
  ASSUME PowerInv, Answered \/ TimedOut \/ PulseEnds
  PROVE  PowerInv'
<1>0. /\ wio \in {"off", "boot", "run", "soft"} /\ (wio = "off") = ~rail
      /\ released \in BOOLEAN /\ woken \in BOOLEAN /\ rail \in BOOLEAN
      /\ IsWake \in BOOLEAN
  BY DEF PowerInv, TypeOK, RailAsAsked, IsWake
<1>1. CASE Answered
  BY <1>0, <1>1, CallStep DEF Answered, callVars, boardVars
<1>2. CASE TimedOut
  BY <1>0, <1>2, CallStep DEF TimedOut, PulseOrGiveUp
<1>3. CASE PulseEnds
  BY <1>0, <1>3, CallStep DEF PulseEnds
<1> QED
  BY <1>1, <1>2, <1>3

LEMMA WioStep ==
  ASSUME PowerInv, Wio
  PROVE  PowerInv'
<1>0. LinkOnly /\ wio' \in {"off", "boot", "run", "soft"} /\ (wio' = "off") = ~rail
  BY DEF PowerInv, TypeOK, RailAsAsked, Wio, WioBoots, WioServes, FrameLost, AckLost
<1> USE DEF LinkOnly
<1>1. TypeOK'
  BY <1>0 DEF PowerInv, TypeOK, serveVars, callVars, settingVars
<1>2. SessionInv'
  BY <1>0 DEF PowerInv, SessionInv, serveVars, callVars, settingVars
<1>3. RailAsAsked'
  BY <1>0, PersistSame DEF PowerInv, RailAsAsked, Running, serveVars, settingVars
<1>4. RecoverInv'
  BY <1>0, RecoverSame DEF PowerInv, callVars
<1>5. StartInv'
  BY <1>0, StartSame DEF PowerInv, Running, serveVars, settingVars
<1> QED
  BY <1>1, <1>2, <1>3, <1>4, <1>5 DEF PowerInv

LEMMA StutterStep ==
  ASSUME PowerInv, UNCHANGED vars
  PROVE  PowerInv'
<1> USE DEF vars, serveVars, callVars, settingVars, boardVars
<1>1. TypeOK'
  BY DEF PowerInv, TypeOK
<1>2. SessionInv'
  BY DEF PowerInv, SessionInv
<1>3. RailAsAsked'
  BY PersistSame DEF PowerInv, RailAsAsked, Running
<1>4. RecoverInv'
  BY RecoverSame DEF PowerInv
<1>5. StartInv'
  BY StartSame DEF PowerInv, Running
<1> QED
  BY <1>1, <1>2, <1>3, <1>4, <1>5 DEF PowerInv

-----------------------------------------------------------------------------
(***************************************************************************)
(* The theorems.                                                           *)
(***************************************************************************)
LEMMA PowerInit == Init => PowerInv
<1> SUFFICES ASSUME Init PROVE PowerInv
  OBVIOUS
<1> USE DEF Init
<1>1. TypeOK
  <2>1. awake \in 0..MaxAwake /\ left \in 0..(AdvMax + Linger) /\ interval \in Intervals
    BY DEF MaxAwake, Intervals
  <2>2. nvs \in Record \cup {None}
    OBVIOUS
  <2> QED
    BY <2>1, <2>2 DEF TypeOK
<1>2. SessionInv /\ RailAsAsked /\ StartInv
  BY DEF SessionInv, RailAsAsked, StartInv, Running
<1>3. RecoverInv
  BY DEF RecoverInv, Recovered
<1> QED
  BY <1>1, <1>2, <1>3 DEF PowerInv

LEMMA PowerStep == PowerInv /\ [Next]_vars => PowerInv'
<1> SUFFICES ASSUME PowerInv, [Next]_vars PROVE PowerInv'
  OBVIOUS
<1>1. CASE Boot
  BY <1>1, BootStep
<1>2. CASE Serve
  BY <1>2, SleepNowStep, AdvertiseStep, PauseEndsStep, WindowExpiresStep DEF Serve
<1>3. CASE ConnectFails \/ Connect \/ LinkLost
  BY <1>3, ConnectFailsStep, ConnectStep, LinkLostStep
<1>4. CASE SessionEnds \/ NotifierEnds
  BY <1>4, AfterSessionStep DEF SessionEnds, NotifierEnds
<1>5. CASE ApplyConfig
  BY <1>5, SetPwrEnStep, SetWioSleepStep, SetGpsSleepStep, SetEspSleepStep, SetAdvWindowStep
     DEF ApplyConfig
<1>6. CASE Finish
  BY <1>6, SaveWriteStep, RequestStep DEF Finish
<1>7. CASE Wio
  BY <1>7, WioStep
<1>8. CASE Tick
  BY <1>8, TickStep
<1>9. CASE WakeUp \/ PowerFails \/ PowerReturns \/ EspReset
  BY <1>9, RestartsStep
<1>10. CASE UNCHANGED vars
  BY <1>10, StutterStep
<1> QED
  BY <1>1, <1>2, <1>3, <1>4, <1>5, <1>6, <1>7, <1>8, <1>9, <1>10 DEF Next

LEMMA PowerAlways == Spec => []PowerInv
BY PowerInit, PowerStep, PTL DEF Spec

\* Every variable keeps its type, and every stored time its limits, whatever an
\* app writes and flash holds.
THEOREM TypeCorrect == Spec => []TypeOK
<1>1. PowerInv => TypeOK
  BY DEF PowerInv
<1> QED
  BY <1>1, PowerAlways, PTL

\* The rail is dark in deep sleep and in a wake nobody answers, never up against
\* the app's setting, and as the app has set it in every session.
THEOREM RailObeys == Spec => []RailAsAsked
<1>1. PowerInv => RailAsAsked
  BY DEF PowerInv
<1> QED
  BY <1>1, PowerAlways, PTL

\* Whatever sleeps, resets, power failures and refused flash operations happen,
\* the settings in force are those last acknowledged, as a whole, or, after a save
\* that did not finish, the defaults or those it was to replace.
THEOREM SettingsSurvive == Spec => []SettingsKept
<1>1. PowerInv => SettingsKept
  <2> SUFFICES ASSUME PowerInv, Running, call # "saving"
               PROVE  InForce(Persist) \in {told} \cup stale
    BY DEF SettingsKept
  <2>1. CASE rtc = None
    BY <2>1 DEF PowerInv, StartInv, RecoverInv, Recovered, Persist
  <2>2. CASE rtc # None
    BY <2>2 DEF PowerInv, RecoverInv, Persist
  <2> QED
    BY <2>1, <2>2
<1> QED
  BY <1>1, PowerAlways, PTL

-----------------------------------------------------------------------------
(***************************************************************************)
(* The time the board is awake.                                            *)
(***************************************************************************)
Window == IF served THEN Linger ELSE AdvWindow(Persist)

\* With sleep on, what is left of the window has been counted off it; once it is spent,
\* only a pause begun in time may follow.
OnBudget ==
  /\ left > 0 => awake + left = Window
  /\ left = 0 => Window <= awake
  /\ left = 0 /\ esp = "round" => awake <= Window + Backoff
  /\ left = 0 /\ esp = "accept" => awake <= Window
  /\ left = 0 /\ esp = "pause" => awake + timer <= Window + Backoff
  /\ esp = "pause" => timer <= Backoff
BudgetInv ==
  /\ esp = "accept" => interval = Persist.sleep
  /\ esp \in {"round", "accept", "pause"} /\ Persist.sleep > 0 => OnBudget

LEMMA StoredWindow ==
  ASSUME NEW p \in Settings
  PROVE  AdvWindow(p) \in Nat /\ AdvWindow(p) <= AdvMax /\ AdvWindow(p) >= AdvMin
<1>1. p.adv \in Windows
  BY DEF Settings
<1> QED
  BY <1>1 DEF AdvWindow, Windows

LEMMA WindowBounds ==
  ASSUME PowerInv
  PROVE  /\ Window \in Nat /\ Window > 0 /\ Window <= AdvMax + Linger
         /\ AdvWindow(Persist) >= AdvMin
         /\ left \in Nat /\ timer \in Nat /\ awake \in Nat /\ Persist.sleep \in Nat
<1>1. Persist \in Settings
  BY PersistTyped DEF PowerInv, TypeOK
<1>2. AdvWindow(Persist) \in Nat /\ AdvWindow(Persist) <= AdvMax /\ AdvWindow(Persist) >= AdvMin
  BY <1>1, StoredWindow
<1>3. Persist.sleep \in Nat
  BY <1>1 DEF Settings, Intervals
<1>4. left \in Nat /\ timer \in Nat /\ awake \in Nat
  BY DEF PowerInv, TypeOK, MaxAwake
<1> QED
  BY <1>2, <1>3, <1>4 DEF Window

LEMMA WindowSame ==
  ASSUME UNCHANGED <<rtc, served>>
  PROVE  Window' = Window /\ Persist' = Persist
BY DEF Window, AdvWindow, Persist

\* One tick, in numbers: w the window, l what is left, a awake, t the pause.
LEMMA TickCounts ==
  ASSUME NEW w \in Nat, NEW l \in Nat, NEW a \in Nat, NEW t \in Nat,
         w <= AdvMax + Linger, l > 0 => a + l = w, l = 0 => a < w + Backoff
  PROVE  /\ a # MaxAwake
         /\ l > 1 => (a + 1) + (l - 1) = w
         /\ l = 1 => a + 1 = w
BY DEF MaxAwake

LEMMA TickBudget ==
  ASSUME PowerInv, BudgetInv, Tick
  PROVE  BudgetInv'
<1>1. Window' = Window /\ Persist' = Persist /\ esp' = esp /\ interval' = interval
  BY WindowSame DEF Tick, ServeOnly, settingVars
<1>2. CASE ~(esp \in {"round", "accept", "pause"} /\ Persist.sleep > 0)
  BY <1>1, <1>2 DEF BudgetInv
<1>3. CASE esp \in {"round", "accept", "pause"} /\ Persist.sleep > 0
  <2>1. OnBudget /\ (esp = "accept" => interval = Persist.sleep)
    BY <1>3 DEF BudgetInv
  <2>2. (esp = "accept" /\ left > 0) \/ (esp = "pause" /\ timer > 0)
    BY <1>3, <2>1, WindowBounds DEF Tick, Waiting
  <2>3. timer' = (IF timer > 0 THEN timer - 1 ELSE 0) /\ left' = (IF left > 0 THEN left - 1 ELSE 0)
    BY <1>3 DEF Tick, LeftOfBudget
  <2>4. left = 0 => awake < Window + Backoff
    BY <2>1, <2>2, WindowBounds DEF OnBudget
  <2>5. /\ awake # MaxAwake
        /\ left > 1 => (awake + 1) + (left - 1) = Window
        /\ left = 1 => awake + 1 = Window
    BY <2>1, <2>4, TickCounts, WindowBounds DEF OnBudget
  <2>6. awake' = awake + 1
    BY <1>3, <2>5 DEF Tick
  <2>7. (left' > 0 => awake' + left' = Window) /\ (left' = 0 => Window <= awake')
    BY <2>1, <2>3, <2>5, <2>6, WindowBounds DEF OnBudget
  <2>8. esp # "round"
    BY <2>2
  <2>9. left' = 0 /\ esp = "accept" => awake' <= Window
    BY <2>2, <2>3, <2>5, <2>6, WindowBounds
  <2>10. esp = "pause" => timer' <= Backoff
    BY <2>1, <2>2, <2>3, WindowBounds DEF OnBudget
  <2>11. left' = 0 /\ esp = "pause" => awake' + timer' <= Window + Backoff
    <3>1. CASE left = 0
      BY <2>1, <2>2, <2>3, <2>6, <3>1, WindowBounds DEF OnBudget
    <3>2. CASE left > 0
      BY <2>2, <2>3, <2>5, <2>6, <2>10, <3>2, WindowBounds
    <3> QED
      BY <3>1, <3>2, WindowBounds
  <2>12. OnBudget'
    BY <1>1, <2>7, <2>8, <2>9, <2>10, <2>11 DEF OnBudget
  <2> QED
    BY <1>1, <2>1, <2>12 DEF BudgetInv
<1> QED
  BY <1>2, <1>3

LEMMA ServeBudget ==
  ASSUME PowerInv, BudgetInv, Advertise \/ ConnectFails \/ PauseEnds
  PROVE  BudgetInv'
<1>1. Window' = Window /\ Persist' = Persist /\ UNCHANGED <<left, awake>>
  BY WindowSame DEF Advertise, ConnectFails, PauseEnds, ServeOnly, settingVars
<1>2. esp' = "accept" => interval' = Persist.sleep
  BY DEF Advertise, ConnectFails, PauseEnds
<1>3. ASSUME Persist.sleep > 0 PROVE OnBudget'
  <2>1. esp \in {"round", "accept", "pause"} /\ OnBudget
    BY <1>3 DEF BudgetInv, Advertise, ConnectFails, PauseEnds
  <2>2. CASE Advertise
    <3>1. left > 0 /\ (esp' = "pause" => timer' = Backoff)
      BY <1>3, <2>2 DEF Advertise
    <3> QED
      BY <1>1, <2>1, <3>1, WindowBounds DEF OnBudget
  <2>3. CASE ConnectFails
    <3>1. /\ esp = "accept" /\ esp' \in {"pause", "round"}
          /\ esp' = "pause" => timer' = 1
      BY <2>3 DEF ConnectFails
    <3> QED
      BY <1>1, <2>1, <3>1, WindowBounds DEF OnBudget
  <2>4. CASE PauseEnds
    <3>1. esp = "pause" /\ esp' = "round" /\ timer = 0
      BY <2>4 DEF PauseEnds
    <3> QED
      BY <1>1, <2>1, <3>1, WindowBounds DEF OnBudget
  <2> QED
    BY <2>2, <2>3, <2>4
<1> QED
  BY <1>1, <1>2, <1>3 DEF BudgetInv

LEMMA PlusZero ==
  ASSUME NEW n \in Nat, n > 0
  PROVE  0 + n = n /\ n # 0
OBVIOUS

\* A window begins with a start and after a session.
LEMMA FreshBudget ==
  ASSUME esp' = "round", awake' = 0, left' = Window', left' \in Nat, left' > 0
  PROVE  BudgetInv'
<1>1. 0 + left' = left' /\ left' # 0
  BY PlusZero
<1>2. awake' + left' = Window' /\ esp' \notin {"accept", "pause"}
  BY <1>1, Zenon
<1>3. OnBudget'
  BY <1>1, <1>2, Zenon DEF OnBudget
<1> QED
  BY <1>2, <1>3, Zenon DEF BudgetInv

LEMMA BeginBudget ==
  ASSUME PowerInv, Boot \/ SessionEnds \/ NotifierEnds
  PROVE  BudgetInv'
<1>1. CASE Boot
  <2>1. esp' = "round" /\ awake' = 0 /\ served' = FALSE
    BY <1>1 DEF Boot
  <2>2. rtc' \in Settings \cup {None}
    BY <1>1, BootStep DEF PowerInv, TypeOK
  <2>3. Persist' \in Settings
    BY <2>2, DefaultTyped DEF Persist
  <2>4. left' = AdvWindow(Persist')
    BY <1>1 DEF Boot, Persist
  <2>5. Window' = AdvWindow(Persist')
    BY <2>1 DEF Window, AdvWindow
  <2>6. left' \in Nat /\ left' > 0
    BY <2>3, <2>4, StoredWindow
  <2> QED
    BY <2>1, <2>4, <2>5, <2>6, FreshBudget
<1>2. CASE SessionEnds \/ NotifierEnds
  <2>1. esp' = "round" /\ awake' = 0 /\ left' = Linger /\ served' = TRUE
    BY <1>2 DEF SessionEnds, NotifierEnds, AfterSession, PowerInv, SessionInv
  <2>2. left' = Window' /\ left' \in Nat /\ left' > 0
    BY <2>1 DEF Window
  <2> QED
    BY <2>1, <2>2, FreshBudget
<1> QED
  BY <1>1, <1>2

LEMMA BudgetSame ==
  ASSUME BudgetInv, UNCHANGED serveVars, Persist' = Persist
  PROVE  BudgetInv'
BY DEF BudgetInv, OnBudget, Window, AdvWindow, serveVars

LEMMA BudgetNext == PowerInv /\ BudgetInv /\ [Next]_vars => BudgetInv'
<1> SUFFICES ASSUME PowerInv, BudgetInv, [Next]_vars PROVE BudgetInv'
  OBVIOUS
<1>1. CASE esp' \notin {"round", "accept", "pause"}
  BY <1>1 DEF BudgetInv
<1>2. CASE Boot \/ SessionEnds \/ NotifierEnds
  BY <1>2, BeginBudget
<1>3. CASE Advertise \/ ConnectFails \/ PauseEnds
  BY <1>3, ServeBudget
<1>4. CASE Tick
  BY <1>4, TickBudget
<1>5. CASE UNCHANGED <<serveVars, rtc>>
  BY <1>5, BudgetSame, PersistSame
<1>6. CASE SleepNow \/ WindowExpires \/ Connect \/ WakeUp \/ PowerFails \/ PowerReturns \/ EspReset
  BY <1>1, <1>6 DEF SleepNow, WindowExpires, EnterDeepSleep, Connect, WakeUp, PowerFails, PowerReturns,
                    EspReset, Restart
<1>7. CASE LinkLost
  BY <1>1, <1>7 DEF LinkLost
<1>8. CASE ApplyConfig
  BY <1>1, <1>8 DEF ApplyConfig, SetPwrEn, SetWioSleep, SetGpsSleep, SetEspSleep, SetAdvWindow, Write, serveVars
<1>9. CASE Finish
  BY <1>5, <1>9 DEF Finish, SaveWrite, Answered, TimedOut, PulseEnds, settingVars
<1>10. CASE Wio
  BY <1>5, <1>10 DEF Wio, WioBoots, WioServes, FrameLost, AckLost, LinkOnly, settingVars
<1>11. CASE UNCHANGED vars
  BY <1>5, <1>11 DEF vars, settingVars
<1> QED
  BY <1>2, <1>3, <1>4, <1>6, <1>7, <1>8, <1>9, <1>10, <1>11 DEF Next, Serve

LEMMA BudgetAlways == Spec => [](PowerInv /\ BudgetInv)
<1>1. Init => PowerInv /\ BudgetInv
  BY PowerInit DEF Init, BudgetInv
<1>2. (PowerInv /\ BudgetInv) /\ [Next]_vars => (PowerInv /\ BudgetInv)'
  BY PowerStep, BudgetNext
<1> QED
  BY <1>1, <1>2, PTL DEF Spec

\* However many attempts to advertise or connect fail, the board is awake for its
\* window, or the linger time, and one pause at most before it serves or sleeps.
THEOREM BudgetHolds == Spec => []BudgetKept
<1>1. PowerInv /\ BudgetInv => BudgetKept
  <2> SUFFICES ASSUME PowerInv, BudgetInv, Running, esp # "session", Persist.sleep > 0
               PROVE  awake <= Window + Backoff
    BY DEF BudgetKept, Window
  <2>1. esp \in {"round", "accept", "pause"}
    BY DEF PowerInv, TypeOK, Running
  <2>2. OnBudget
    BY <2>1 DEF BudgetInv
  <2> QED
    BY <2>1, <2>2, WindowBounds DEF OnBudget
<1> QED
  BY <1>1, BudgetAlways, PTL

\* A wake nobody answers is never shorter than AdvMin, whatever was restored.
THEOREM WakesReachable == Spec => WakesLongEnough
<1>1. PowerInv /\ BudgetInv /\ [Next]_vars => [esp # "asleep" /\ esp' = "asleep" /\ ~served => awake >= AdvMin]_vars
  <2> SUFFICES ASSUME PowerInv, BudgetInv, Next, esp # "asleep", esp' = "asleep", ~served
               PROVE  awake >= AdvMin
    OBVIOUS
  <2>1. SleepNow \/ WindowExpires
    BY DEF Next, Boot, Serve, ConnectFails, Connect, LinkLost, SessionEnds, NotifierEnds, AfterSession,
           ApplyConfig, SetPwrEn, SetWioSleep, SetGpsSleep, SetEspSleep, SetAdvWindow, Finish, SaveWrite, Answered,
           TimedOut, PulseEnds, Wio, WioBoots, WioServes, FrameLost, AckLost, LinkOnly, Tick, WakeUp, PowerFails,
           PowerReturns, EspReset, Restart, Advertise, PauseEnds, serveVars
  <2>2. esp \in {"round", "accept"} /\ left = 0 /\ Persist.sleep > 0
    BY <2>1, WindowBounds DEF SleepNow, WindowExpires, BudgetInv
  <2>3. Window <= awake
    BY <2>2 DEF BudgetInv, OnBudget
  <2> QED
    BY <2>3, WindowBounds DEF Window
<1> QED
  BY <1>1, BudgetAlways, PTL DEF Spec, WakesLongEnough
=============================================================================
