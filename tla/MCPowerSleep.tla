---------------------------- MODULE MCPowerSleep ----------------------------
(***************************************************************************)
(* The instance of PowerSleep for TLC: boards as they leave the factory,   *)
(* and boards in the field with a record of either layout.                 *)
(***************************************************************************)
EXTENDS PowerSleep

Asleep == [Default EXCEPT !.sleep = SleepMin]

FlashInTheField ==
  {None, [version |-> 1, saved |-> Asleep], [version |-> 2, saved |-> Asleep],
   [version |-> 3, saved |-> [[Asleep EXCEPT !.adv = AdvMax] EXCEPT !.pwrOff = TRUE]]}
=============================================================================
