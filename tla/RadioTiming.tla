---------------------------- MODULE RadioTiming -----------------------------
(***************************************************************************)
(* The times the firmware derives from the modulation (proto/src/          *)
(* radiocfg.rs), in milliseconds, and the time a packet really takes.      *)
(***************************************************************************)
EXTENDS Integers

SpreadingFactors == 5..12
Bandwidths == {62, 125, 250, 500}   \* kHz; 62 stands for 62.5
CodingRates == 5..8

\* Air time relative to SF7 at 125 kHz, at least 1.
AirtimeScale(sf, bw) ==
  LET scale == ((IF sf > 7 THEN 2^(sf - 7) ELSE 1) * 125) \div bw
  IN  IF scale > 1 THEN scale ELSE 1

TxPollTimeout(sf, bw) == 150 * AirtimeScale(sf, bw) + 100
TxChipTimeout(sf, bw) == TxPollTimeout(sf, bw) + 500
RepeatJitter(sf, bw) == 100 * AirtimeScale(sf, bw)

\* Low data rate optimisation: symbols of 16.38 ms and longer.
Ldro(sf, bw) == 2^sf * 100 >= 1638 * bw

-----------------------------------------------------------------------------
(***************************************************************************)
(* What is sent: the header, the tag, the mask, and the fields chosen.     *)
(***************************************************************************)
FieldWidth == [lat |-> 4, lon |-> 4, alt |-> 2, speed |-> 2, course |-> 2, sats |-> 1, time |-> 4]
Fields == DOMAIN FieldWidth
RequiredFields == {"lat", "lon"}

\* The widths of the fields in mask, added up field by field.
Width(mask, field) == IF field \in mask THEN FieldWidth[field] ELSE 0
FieldsLen(mask) ==
  Width(mask, "lat") + Width(mask, "lon") + Width(mask, "alt") + Width(mask, "speed")
    + Width(mask, "course") + Width(mask, "sats") + Width(mask, "time")

PositionMsgLen(mask) == 2 + FieldsLen(mask)
PositionMsgMax == 21
HeaderLen == 3
PayloadMax == 32

-----------------------------------------------------------------------------
(***************************************************************************)
(* The radio: microseconds of a symbol, symbols of a packet with explicit  *)
(* header, CRC and a preamble of 8, by the data sheet's formula.           *)
(***************************************************************************)
SymbolTime(sf, bw) == 2^sf * (IF bw = 62 THEN 16 ELSE 1000 \div bw)

PacketSymbols(sf, bw, cr, len) ==
  LET bits == 8 * len + 16 + 20 - 4 * sf + (IF sf > 6 THEN 8 ELSE 0)
      perBlock == 4 * (IF Ldro(sf, bw) THEN sf - 2 ELSE sf)
      blocks == IF bits > 0 THEN (bits + perBlock - 1) \div perBlock ELSE 0
  IN  8 + (IF sf > 6 THEN 5 ELSE 7) + 8 + blocks * cr

AirTime(sf, bw, cr, len) == (SymbolTime(sf, bw) * PacketSymbols(sf, bw, cr, len)) \div 1000 + 1
=============================================================================
