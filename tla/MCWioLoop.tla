----------------------------- MODULE MCWioLoop ------------------------------
(***************************************************************************)
(* The instance of WioLoop for TLC: presets with the times RadioTiming     *)
(* gives them, in ticks of a second and a half.                            *)
(***************************************************************************)
EXTENDS WioLoop, RadioTiming

TickMs == 1500
Ticks(ms) == (ms + TickMs - 1) \div TickMs

Preset(role, interval, gps, sf, bw, mask) ==
  [role |-> role, interval |-> interval, gps |-> gps,
   air |-> Ticks(AirTime(sf, bw, 5, HeaderLen + PositionMsgLen(mask))),
   poll |-> Ticks(TxPollTimeout(sf, bw)), jitter |-> Ticks(RepeatJitter(sf, bw))]

Fast == Preset("leaf", 3, "g1", 7, 125, RequiredFields)
Slow == Preset("repeater", 3, "g2", 11, 125, Fields)

\* The driver's poll outlasts every packet, the chip's timeout the poll, and LDRO is what the
\* symbol time asks for.
ASSUME TimesHold ==
  \A sf \in SpreadingFactors, bw \in Bandwidths, cr \in CodingRates, len \in HeaderLen..HeaderLen + PayloadMax :
    /\ AirTime(sf, bw, cr, len) < TxPollTimeout(sf, bw)
    /\ TxPollTimeout(sf, bw) < TxChipTimeout(sf, bw)
    /\ Ldro(sf, bw) <=> SymbolTime(sf, bw) >= 16380
ASSUME MaskHolds ==
  /\ PositionMsgLen(Fields) = PositionMsgMax /\ PositionMsgMax <= PayloadMax
MCConfigs == {Fast, Slow}
=============================================================================
