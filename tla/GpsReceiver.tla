---------------------------- MODULE GpsReceiver -----------------------------
(***************************************************************************)
(* The driver of the GPS receiver (wio/src/gps.rs) and the module behind   *)
(* it, which is external: it reports while it runs, sleeps on a PMREQ that *)
(* finds it awake, wakes on EXTINT or on any byte, and keeps its RAM       *)
(* settings while it sleeps.                                               *)
(***************************************************************************)
CONSTANT GpsConfigs    \* GNSS and power settings

Sentences == {"none", "valid", "void"}   \* RMC with a fix and without

VARIABLES
  gpsSleeping,    \* the driver: sleeping
  fix,            \* the driver: FLAG_FIX of the packet
  line,           \* the sentence left in the UART when the module fell asleep
  moduleAwake,    \* the module: runs, and is not in backup
  settings        \* the module: settings in its RAM

driverVars == <<gpsSleeping, fix, line>>
moduleVars == <<moduleAwake, settings>>
gpsVars == <<driverVars, moduleVars>>

\* Any byte wakes the module; the message it is part of is lost.
UartWakes == moduleAwake' = TRUE

-----------------------------------------------------------------------------
\* Gps::poll and fold: what has come since the last poll; a UART error loses it.
Incoming == IF moduleAwake THEN Sentences ELSE {"none", line}
Fold(sentence) == fix' = ((fix \/ sentence = "valid") /\ sentence # "void")

GpsPoll ==
  /\ \E sentence \in Incoming : Fold(sentence)
  /\ line' = "none"
  /\ UNCHANGED <<gpsSleeping, moduleVars>>

-----------------------------------------------------------------------------
\* Gps::configure: nothing while the module is in backup mode.
GpsConfigure(new) ==
  /\ IF gpsSleeping THEN UNCHANGED moduleVars
     ELSE UartWakes /\ settings' = (IF moduleAwake THEN new ELSE settings)
  /\ UNCHANGED driverVars

\* Gps::sleep, whatever the driver knows: a PMREQ to a module in backup wakes it, and is lost.
GpsSleep ==
  /\ gpsSleeping' = TRUE /\ fix' = FALSE /\ moduleAwake' = ~moduleAwake
  /\ line' \in Sentences
  /\ UNCHANGED settings

GpsWake ==
  /\ gpsSleeping' = FALSE /\ UartWakes
  /\ line' = "none"
  /\ UNCHANGED <<fix, settings>>

\* A start of the firmware: a new driver, which takes the module for awake and configures it;
\* powered: the module kept its power, and sleeps if it did.
GpsStart(new, powered) ==
  /\ gpsSleeping' = FALSE /\ fix' = FALSE /\ line' = "none"
  /\ UartWakes
  /\ settings' = IF powered /\ ~moduleAwake THEN settings ELSE new
=============================================================================
