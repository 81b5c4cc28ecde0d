----------------------------- MODULE PowerSleep -----------------------------
(***************************************************************************)
(* Power and sleep of the board, all of it in the ESP's hands              *)
(* (esp/src/bin/main.rs): the start, with what survived of the settings;   *)
(* serve_task, which advertises, serves one central at a time and goes to  *)
(* deep sleep when its time is spent; apply_config, which changes settings,*)
(* the GPS/LoRa rail and the WIO's soft sleep; the rail, the WIO's reset   *)
(* line and the requests of apply_config to the WIO.                       *)
(*                                                                         *)
(* Time passes in ticks while the ESP sleeps, pauses or waits for a        *)
(* central; the steps in between take none, and sessions have no clock.    *)
(* Faults (power fails, the ESP is reset, a frame is lost, a reply late, a *)
(* flash operation refused, an arm of a session dropped) are counted.      *)
(***************************************************************************)
EXTENDS Integers, Sequences

CONSTANTS
  None,
  SleepMin, SleepMax,            \* ESP_SLEEP_MIN_S, ESP_SLEEP_MAX_S in ticks
  AdvMin, AdvMax, AdvDefault,    \* ESP_ADV_MIN_S, ESP_ADV_MAX_S, ESP_ADV_DEFAULT_S
  Linger,                        \* SLEEP_LINGER_S
  Backoff,                       \* pause after a failed advertise
  Flash,                         \* what flash may hold at the start
  Offered,                       \* values an app writes for an interval or a window
  MaxWrites,                     \* config writes
  FaultKinds, MaxFaults

ASSUME TimesAssumption ==
  /\ {SleepMin, SleepMax, AdvMin, AdvMax, AdvDefault, Linger, Backoff} \subseteq Nat \ {0}
  /\ SleepMin <= SleepMax /\ AdvMin <= AdvDefault /\ AdvDefault <= AdvMax
ASSUME BoundsAssumption == Offered \subseteq Nat /\ MaxWrites \in Nat /\ MaxFaults \in Nat
ASSUME FaultsAssumption ==
  FaultKinds \subseteq {"power", "reset", "uart_out", "uart_in", "slow", "flash", "cancel"}

Intervals == {0} \cup (SleepMin..SleepMax)
Windows == {0} \cup (AdvMin..AdvMax)

\* Persist: the two times and the flags.
Settings == [sleep : Intervals, adv : Windows,
             pwrOff : BOOLEAN, wioSleep : BOOLEAN, gpsSleep : BOOLEAN]
Default == [sleep |-> 0, adv |-> 0, pwrOff |-> FALSE, wioSleep |-> FALSE, gpsSleep |-> FALSE]

Record == [version : 1..3, saved : Settings]
ASSUME NoneAssumption == None \notin Settings \cup Record
ASSUME FlashAssumption == Flash \subseteq Record \cup {None}

VARIABLES
  esp,       \* where main and serve_task are
  woke,      \* woke_from_sleep
  interval,  \* sleep_interval of this round of serve_task
  left,      \* ticks to wake_ends
  timer,     \* ticks of a pause or of the deep sleep
  linked,    \* FALSE: the central is gone and the session has not noticed
  call,      \* what apply_config is in: "no", "saving", "request" or "pulse"
  request,   \* the frame of its wio_request
  rtc,       \* Persist in RTC RAM, None without the magic
  nvs,       \* the record in flash, None when it does not decode
  rail,      \* RAIL_ON and GPIO2
  released,  \* GPIO6: the WIO is not held in reset
  wio,       \* "off", "boot", "run" or "soft"
  toWio, acks,  \* the link to the WIO and back
  served,    \* history: a central was served since the ESP started
  awake,     \* history: ticks awake since it started or a central left
  told,      \* history: the settings last acknowledged to an app
  stale,     \* history: settings an unfinished save may have left instead
  woken,     \* history: the app was told that the WIO is awake
  writes, faults

serveVars == <<esp, woke, interval, left, timer, linked, served, awake>>
callVars == <<call, request>>
settingVars == <<rtc, nvs, told, stale>>
boardVars == <<rail, released, wio>>
linkVars == <<toWio, acks>>
vars == <<serveVars, callVars, settingVars, boardVars, linkVars, woken, writes, faults>>

Fault(kind) ==
  /\ kind \in FaultKinds /\ faults < MaxFaults
  /\ faults' = faults + 1

-----------------------------------------------------------------------------
(***************************************************************************)
(* Settings.                                                               *)
(***************************************************************************)
Persist == IF rtc = None THEN Default ELSE rtc

\* Mutant: a stored 0 is a window.
AdvWindowStored(p) == p.adv

AdvWindow(p) == IF p.adv = 0 THEN AdvDefault ELSE p.adv

ConfiguredOn(p) == ~p.pwrOff

\* nvs_decode: version 1 had another layout, version 2 no window.
NvsLoad ==
  IF nvs = None \/ nvs.version = 1 THEN None
  ELSE IF nvs.version = 2 THEN [nvs.saved EXCEPT !.adv = 0]
  ELSE nvs.saved

\* What of the settings the board promises to keep.
InForce(p) == [sleep |-> p.sleep, adv |-> AdvWindow(p), on |-> ConfiguredOn(p)]

Init ==
  /\ esp = "off" /\ woke = FALSE
  /\ interval = 0 /\ left = 0 /\ timer = 0
  /\ linked = FALSE
  /\ call = "no" /\ request = None
  /\ rtc = None
  /\ nvs \in Flash
  /\ rail = FALSE /\ released = TRUE /\ wio = "off"
  /\ toWio = <<>> /\ acks = <<>>
  /\ served = FALSE /\ awake = 0
  /\ told = InForce(IF NvsLoad = None THEN Default ELSE NvsLoad)
  /\ stale = {}
  /\ woken = FALSE
  /\ writes = 0 /\ faults = 0

-----------------------------------------------------------------------------
(***************************************************************************)
(* The rail and the WIO it powers.                                         *)
(***************************************************************************)
DrivePwr(on) ==
  /\ rail' = on
  /\ wio' = IF ~on THEN "off" ELSE IF rail THEN wio ELSE "boot"

\* The ESP's RAM is lost, and with it what it was about to send.
LoseRam ==
  /\ call' = "no" /\ request' = None
  /\ toWio' = <<>> /\ acks' = <<>>
  /\ linked' = FALSE

Restored == IF rtc = None THEN NvsLoad ELSE rtc

\* Mutant: a wake check comes up with the rail the app has asked for.
RailAfterBootLit(p) == ConfiguredOn(p)

RailAfterBoot(p) == ~woke /\ ConfiguredOn(p)

\* main, up to the first round of serve_task.
Boot ==
  LET p == IF Restored = None THEN Default ELSE Restored IN
  /\ esp = "boot"
  /\ esp' = "round"
  /\ rtc' = Restored
  /\ DrivePwr(RailAfterBoot(p)) /\ released' = TRUE
  /\ left' = AdvWindow(p)
  /\ served' = FALSE /\ awake' = 0
  /\ UNCHANGED <<woke, interval, timer, linked, callVars, nvs, told, stale, linkVars, woken,
                 writes, faults>>

-----------------------------------------------------------------------------
(***************************************************************************)
(* serve_task.                                                             *)
(***************************************************************************)

\* Nothing of the session, the board or the settings changes.
ServeOnly == UNCHANGED <<woke, linked, served, callVars, settingVars, boardVars, linkVars,
                         woken, writes, faults>>

EnterDeepSleep(secs) ==
  /\ esp' = "asleep" /\ timer' = secs
  /\ DrivePwr(FALSE)
  /\ LoseRam
  /\ UNCHANGED <<woke, interval, left, served, awake, settingVars, released, woken, writes, faults>>

SleepNow == esp = "round" /\ Persist.sleep > 0 /\ left = 0 /\ EnterDeepSleep(Persist.sleep)

Advertise ==
  /\ esp = "round" /\ (Persist.sleep > 0 => left > 0)
  /\ interval' = Persist.sleep
  /\ \/ esp' = "accept" /\ timer' = 0
     \/ esp' = "pause" /\ timer' = Backoff
  /\ UNCHANGED <<left, awake>>
  /\ ServeOnly

\* Mutant: the attempt that failed gives its time back.
ConnectFailsAfresh ==
  /\ esp = "accept"
  /\ esp' = "pause" /\ timer' = 1
  /\ left' = AdvWindow(Persist)
  /\ UNCHANGED <<interval, awake>>
  /\ ServeOnly

\* A connection that does not complete, or one the attribute server refuses.
ConnectFails ==
  /\ esp = "accept"
  /\ \/ esp' = "pause" /\ timer' = 1
     \/ esp' = "round" /\ timer' = 0
  /\ UNCHANGED <<interval, left, awake>>
  /\ ServeOnly

PauseEnds ==
  /\ esp = "pause" /\ timer = 0
  /\ esp' = "round"
  /\ UNCHANGED <<interval, left, timer, awake>>
  /\ ServeOnly

WindowExpires == esp = "accept" /\ interval > 0 /\ left = 0 /\ EnterDeepSleep(interval)

SessionPower == DrivePwr(rail \/ ConfiguredOn(Persist))

Connect ==
  /\ esp = "accept"
  /\ esp' = "session" /\ linked' = TRUE
  /\ served' = TRUE
  /\ SessionPower
  /\ UNCHANGED <<woke, interval, left, timer, awake, callVars, settingVars, released, linkVars,
                 woken, writes, faults>>

LinkLost ==
  /\ esp = "session" /\ linked
  /\ linked' = FALSE
  /\ UNCHANGED <<esp, woke, interval, left, timer, served, awake, callVars, settingVars, boardVars,
                 linkVars, woken, writes, faults>>

AfterSession ==
  /\ esp' = "round" /\ linked' = FALSE
  /\ left' = Linger /\ awake' = 0
  /\ call' = "no" /\ request' = None
  /\ UNCHANGED <<woke, interval, timer, served, settingVars, boardVars, linkVars, woken, writes>>

\* The events arm is back at conn.next().
SessionEnds == esp = "session" /\ ~linked /\ call = "no" /\ AfterSession /\ UNCHANGED faults

\* The notifier's notify fails first and select3 drops the events arm where it awaits.
NotifierEnds ==
  /\ esp = "session" /\ ~linked /\ call \in {"request", "pulse"}
  /\ Fault("cancel")
  /\ AfterSession

-----------------------------------------------------------------------------
(***************************************************************************)
(* apply_config.                                                           *)
(***************************************************************************)
Write ==
  /\ esp = "session" /\ linked /\ call = "no"
  /\ writes < MaxWrites
  /\ writes' = writes + 1

\* nvs_save erases the sector, which may be refused: the app is told OK all the same.
Save(p) ==
  /\ rtc' = p
  /\ \/ /\ call' = "saving" /\ UNCHANGED request
        /\ nvs' = None
        /\ UNCHANGED <<told, stale, faults>>
     \/ /\ Fault("flash")
        /\ told' = InForce(p) /\ stale' = stale \cup {told}
        /\ UNCHANGED <<nvs, callVars>>

SetPwrEn(on) ==
  /\ Write
  /\ DrivePwr(on)
  /\ Save([Persist EXCEPT !.pwrOff = ~on])
  /\ UNCHANGED <<serveVars, released, linkVars, woken>>

\* Mutant: only the lower limit is kept.
ClampBelow(v, low, high) == IF v < low THEN low ELSE v

Clamp(v, low, high) == IF v < low THEN low ELSE IF v > high THEN high ELSE v

SetEspSleep(secs) ==
  /\ Write
  /\ Save([Persist EXCEPT !.sleep = IF secs > 0 THEN Clamp(secs, SleepMin, SleepMax) ELSE 0])
  /\ UNCHANGED <<serveVars, boardVars, linkVars, woken>>

SetAdvWindow(secs) ==
  /\ Write
  /\ Save([Persist EXCEPT !.adv = Clamp(secs, AdvMin, AdvMax)])
  /\ UNCHANGED <<serveVars, boardVars, linkVars, woken>>

\* Mutant: the window is left out of the record.
NvsEncodeShort(p) == [version |-> 3, saved |-> [p EXCEPT !.adv = 0]]

NvsEncode(p) == [version |-> 3, saved |-> p]

SaveWrite ==
  /\ call = "saving"
  /\ call' = "no" /\ UNCHANGED request
  /\ \/ /\ nvs' = NvsEncode(Persist)
        /\ stale' = {}
        /\ UNCHANGED faults
     \/ /\ Fault("flash")
        /\ stale' = stale \cup {InForce(Default)}
        /\ UNCHANGED nvs
  /\ told' = InForce(Persist)
  /\ UNCHANGED <<serveVars, rtc, boardVars, linkVars, woken, writes>>

\* wio_request forgets an earlier answer and queues its frame.
Request(cmd, sleep) ==
  /\ call' = "request" /\ request' = <<cmd, sleep>>
  /\ toWio' = Append(toWio, <<cmd, sleep>>)
  /\ UNCHANGED acks

\* The flag is kept in RTC RAM; flash gets it with the next save of another setting.
SetWioSleep(sleep) ==
  /\ Write
  /\ rtc' = [Persist EXCEPT !.wioSleep = sleep]
  /\ Request("wio_sleep", sleep)
  /\ woken' = FALSE
  /\ UNCHANGED <<serveVars, nvs, told, stale, boardVars, faults>>

SetGpsSleep(sleep) ==
  /\ Write
  /\ rtc' = [Persist EXCEPT !.gpsSleep = sleep]
  /\ Request("gps_sleep", sleep)
  /\ UNCHANGED <<serveVars, nvs, told, stale, boardVars, woken, faults>>

IsWake == request = <<"wio_sleep", FALSE>>

\* The answer is matched by its command.
Answered ==
  /\ call = "request" /\ acks # <<>>
  /\ acks' = Tail(acks)
  /\ IF Head(acks) = request[1]
     THEN call' = "no" /\ request' = None /\ woken' = (woken \/ IsWake)
     ELSE UNCHANGED <<callVars, woken>>
  /\ UNCHANGED <<serveVars, settingVars, boardVars, toWio, writes, faults>>

\* Mutant: an answer that does not come is left at that.
WithoutPulse == call' = "no" /\ request' = None /\ woken' = (woken \/ IsWake) /\ UNCHANGED <<released, wio>>

\* A wake that is not answered pulls the reset line.
PulseOrGiveUp ==
  IF IsWake
  THEN /\ call' = "pulse" /\ released' = FALSE
       /\ wio' = IF rail THEN "boot" ELSE "off"
       /\ UNCHANGED <<request, woken>>
  ELSE /\ call' = "no" /\ request' = None
       /\ UNCHANGED <<released, wio, woken>>

TimedOut ==
  /\ call = "request"
  /\ IF toWio = <<>> /\ acks = <<>> THEN UNCHANGED faults ELSE Fault("slow")
  /\ PulseOrGiveUp
  /\ UNCHANGED <<serveVars, settingVars, rail, linkVars, writes>>

PulseEnds ==
  /\ call = "pulse"
  /\ released' = TRUE
  /\ call' = "no" /\ request' = None
  /\ woken' = TRUE
  /\ UNCHANGED <<serveVars, settingVars, rail, wio, linkVars, writes, faults>>

-----------------------------------------------------------------------------
(***************************************************************************)
(* The WIO and the link.                                                   *)
(***************************************************************************)
LinkOnly == UNCHANGED <<serveVars, callVars, settingVars, rail, released, woken, writes>>

WioBoots ==
  /\ wio = "boot" /\ released
  /\ wio' = "run"
  /\ UNCHANGED <<linkVars, faults>>
  /\ LinkOnly

\* The loop's WIO_SLEEP and GPS_SLEEP, which it answers asleep or not.
WioServes ==
  /\ wio \in {"run", "soft"} /\ toWio # <<>>
  /\ toWio' = Tail(toWio)
  /\ acks' = Append(acks, Head(toWio)[1])
  /\ wio' = IF Head(toWio)[1] = "gps_sleep" THEN wio
            ELSE IF Head(toWio)[2] THEN "soft" ELSE "run"
  /\ UNCHANGED faults
  /\ LinkOnly

\* Nobody listens, or the frame or its ack is damaged.
FrameLost ==
  /\ toWio # <<>>
  /\ IF wio \in {"off", "boot"} THEN UNCHANGED faults ELSE Fault("uart_out")
  /\ toWio' = Tail(toWio)
  /\ UNCHANGED <<acks, wio>>
  /\ LinkOnly

\* An ack nobody waits for is overwritten or reset by the next request.
AckLost ==
  /\ acks # <<>>
  /\ IF call # "request" THEN UNCHANGED faults ELSE Fault("uart_in")
  /\ acks' = Tail(acks)
  /\ UNCHANGED <<toWio, wio>>
  /\ LinkOnly

-----------------------------------------------------------------------------
(***************************************************************************)
(* Time, power and resets.                                                 *)
(***************************************************************************)

LeftOfBudget == IF left > 0 THEN left - 1 ELSE 0

\* A deadline that is due goes first.
Waiting ==
  \/ esp = "accept" /\ (interval > 0 => left > 0)
  \/ esp \in {"pause", "asleep"} /\ timer > 0

MaxAwake == AdvMax + Linger + Backoff + 1    \* bound of the history awake

Tick ==
  /\ Waiting
  /\ timer' = IF timer > 0 THEN timer - 1 ELSE 0
  /\ left' = IF esp = "asleep" THEN left ELSE LeftOfBudget
  /\ awake' = IF esp = "asleep" \/ awake = MaxAwake THEN awake ELSE awake + 1
  /\ UNCHANGED <<esp, interval>>
  /\ ServeOnly

\* The settings a save in progress leaves in doubt.
InDoubt == IF call = "saving" THEN stale \cup {InForce(Default), InForce(Persist)} ELSE stale

Restart(p, wakes) ==
  /\ esp' = p /\ woke' = wakes
  /\ LoseRam
  /\ stale' = InDoubt
  /\ UNCHANGED <<interval, left, timer, served, awake, nvs, told, released, woken, writes>>

WakeUp ==
  /\ esp = "asleep" /\ timer = 0
  /\ Restart("boot", TRUE)
  /\ UNCHANGED <<rtc, rail, wio, faults>>

PowerFails ==
  /\ esp # "off" /\ Fault("power")
  /\ Restart("off", FALSE)
  /\ rtc' = None
  /\ DrivePwr(FALSE)

PowerReturns ==
  /\ esp = "off"
  /\ Restart("boot", FALSE)
  /\ UNCHANGED <<rtc, rail, wio, faults>>

\* A panic or the reset button: RTC RAM is kept; the rail may or may not drop.
EspReset ==
  /\ esp \notin {"off", "boot", "asleep"} /\ Fault("reset")
  /\ Restart("boot", FALSE)
  /\ \/ DrivePwr(FALSE)
     \/ UNCHANGED <<rail, wio>>
  /\ UNCHANGED rtc

-----------------------------------------------------------------------------
ApplyConfig ==
  \/ \E b \in BOOLEAN : SetPwrEn(b) \/ SetWioSleep(b) \/ SetGpsSleep(b)
  \/ \E v \in Offered : SetEspSleep(v) \/ SetAdvWindow(v)

Finish == SaveWrite \/ Answered \/ TimedOut \/ PulseEnds

Serve == SleepNow \/ Advertise \/ PauseEnds \/ WindowExpires

Wio == WioBoots \/ WioServes \/ FrameLost \/ AckLost

Next ==
  \/ Boot \/ Serve \/ ConnectFails \/ Connect \/ LinkLost
  \/ SessionEnds \/ NotifierEnds \/ ApplyConfig \/ Finish
  \/ Wio \/ Tick
  \/ WakeUp \/ PowerFails \/ PowerReturns \/ EspReset

Spec == Init /\ [][Next]_vars

\* The executor runs what is ready, timers fire and the link delivers.  Time
\* goes on: no infinite number of steps without it.  No central has to come,
\* leave or write, and power does not have to return.
FairSpec ==
  /\ Spec
  /\ WF_vars(Boot) /\ WF_vars(Serve) /\ SF_vars(Tick) /\ WF_vars(WakeUp)
  /\ WF_vars(SessionEnds) /\ WF_vars(Finish) /\ WF_vars(Wio)

-----------------------------------------------------------------------------
\* Every variable has a value of its type; the times are 0 or within their limits.
TypeOK ==
  /\ esp \in {"off", "boot", "round", "accept", "pause", "session", "asleep"}
  /\ woke \in BOOLEAN /\ linked \in BOOLEAN /\ served \in BOOLEAN
  /\ interval \in Intervals
  /\ left \in 0..(AdvMax + Linger)
  /\ timer \in Nat /\ awake \in 0..MaxAwake
  /\ call \in {"no", "saving", "request", "pulse"}
  /\ rtc \in Settings \cup {None}
  /\ nvs \in Record \cup {None}
  /\ rail \in BOOLEAN /\ released \in BOOLEAN
  /\ wio \in {"off", "boot", "run", "soft"}
  /\ woken \in BOOLEAN

Running == esp \notin {"off", "boot", "asleep"}

\* "The GPS/LoRa rail is off for the whole sleep and stays off through the
\* advertising window - a wake that nobody answers never powers the WIO or GPS
\* at all" (README), it is never on against the app's setting, and a session
\* has it as the app has set it.
RailAsAsked ==
  /\ esp = "asleep" \/ (Running /\ woke /\ ~served) => ~rail
  /\ Running /\ rail => ConfiguredOn(Persist)
  /\ esp = "session" => rail = ConfiguredOn(Persist)
  /\ (wio = "off") = ~rail

\* serve_task: "A deadline cannot be restarted by a retry": with sleep on and no
\* central served the board is awake for its window, or the linger time, and one
\* pause at most, however many attempts fail.
BudgetKept ==
  Running /\ esp # "session" /\ Persist.sleep > 0
    => awake <= (IF served THEN Linger ELSE AdvWindow(Persist)) + Backoff

\* adv_window_s: a wake that nobody answers listens at least AdvMin before the board
\* sleeps again, whatever was written or restored: it stays within reach.
WakesLongEnough == [][esp # "asleep" /\ esp' = "asleep" /\ ~served => awake >= AdvMin]_vars

\* Across sleep, resets and flat batteries the settings in force are those the
\* app was last told, as a whole; a save that was interrupted or refused leaves
\* the defaults or what it replaced.
SettingsKept ==
  Running /\ call # "saving" => InForce(Persist) \in {told} \cup stale

\* With sleep on, a board that waits for a central comes to sleep or to serve one.
SleepsAgain ==
  (Running /\ esp # "session" /\ Persist.sleep > 0) ~> (esp \in {"asleep", "session", "off"})

\* CFG_WIO_SLEEP: "0 wakes it (WIO_SLEEP(0), with a reset pulse as fallback when
\* the WIO does not ack)": an app that was told so, with one fault at most, has
\* its WIO awake after all.
WakeWorks == [](faults <= 1) => ((woken /\ wio = "soft") ~> (~woken \/ wio # "soft"))
=============================================================================
