----------------------------- MODULE FrameLink ------------------------------
(***************************************************************************)
(* One direction of the UART between ESP32-C6 and WIO-E5: the frame        *)
(* builder and the byte-at-a-time parser of proto/src/link.rs, and the     *)
(* receive ring that the WIO's interrupt fills and its loop drains         *)
(* (wio/src/esplink.rs).  The other direction is the same with the UART's  *)
(* hardware queue in place of the ring.                                    *)
(*                                                                         *)
(* A byte is what it was sent as: its frame, its place there, and the      *)
(* length of that frame.  What a misplaced byte reads as is open: a SYNC   *)
(* or not, any length, a CRC that fits or not.  CRC-8 finds every single   *)
(* garbled byte; otherwise it may be fooled.                               *)
(*                                                                         *)
(* Histories count what disturbed the line and what the parser mistook.    *)
(* Each byte carries two of them from where it entered the ring: stamp,    *)
(* the disturbances before it, and pos, how far the sender had come.       *)
(***************************************************************************)
EXTENDS Integers, Sequences

CONSTANTS
  MaxPayload,    \* MAX_PAYLOAD
  Payloads,      \* payload lengths that are sent
  Room,          \* bytes the ring holds
  MaxFrames,     \* frames sent
  MaxHurts       \* disturbances

ASSUME BoundsAssumption ==
  /\ {MaxPayload, Room, MaxFrames, MaxHurts} \subseteq Nat
  /\ Payloads \subseteq Nat

States == {"Sync", "LenLo", "LenHi", "Data", "Crc"}

Byte == [frame : Nat, at : Nat, len : 0..MaxPayload, ok : BOOLEAN, stamp : Nat, pos : Nat]

Genuine(frame, at, n) == [frame |-> frame, at |-> at, len |-> n, ok |-> TRUE, stamp |-> 0, pos |-> 0]

\* No place in any frame; and the byte before all others.
Noise == [frame |-> 0, at |-> 0, len |-> 0, ok |-> FALSE, stamp |-> 0, pos |-> 0]
Before == Genuine(0, 5, 0)

VARIABLES
  sent,                  \* frames handed to the builder
  out,                   \* bytes of the frame being written
  ring,                  \* bytes received, not yet read
  state, expected, buf,  \* FrameParser
  lo,                    \* the byte taken for LEN_LO
  last,                  \* history: the byte fed last
  taken,                 \* history: the last frame delivered
  lost,                  \* history: frames passed over
  invented,              \* history: frames delivered that were not sent
  damaged,               \* history: bytes lost, garbled or added on the line
  fooled                 \* history: bytes taken for a SYNC or a CRC that were none

lineVars == <<sent, out>>
parserVars == <<state, expected, buf, lo, last>>
countVars == <<taken, lost, invented>>
vars == <<lineVars, ring, parserVars, countVars, damaged, fooled>>

Hurts == damaged + fooled

Init ==
  /\ sent = 0 /\ out = <<>> /\ ring = <<>>
  /\ state = "Sync" /\ expected = 0 /\ buf = <<>> /\ lo = Noise /\ last = Before
  /\ taken = 0 /\ lost = 0 /\ invented = 0
  /\ damaged = 0 /\ fooled = 0

-----------------------------------------------------------------------------
(***************************************************************************)
(* The sender writes a frame and blocks until it is out.  The interrupt    *)
(* puts what arrives into the ring; a full ring drops it.                  *)
(***************************************************************************)
PayloadLen(n) == IF n <= MaxPayload THEN n ELSE MaxPayload

FrameBytes(frame, n) == [i \in 1..n + 5 |-> Genuine(frame, i, n)]

Build(n) ==
  /\ out = <<>> /\ sent < MaxFrames
  /\ sent' = sent + 1
  /\ out' = FrameBytes(sent + 1, PayloadLen(n))
  /\ UNCHANGED <<ring, parserVars, countVars, damaged, fooled>>

\* Bytes sent, five counted for each frame.
Upto5(n) == IF n > 5 THEN 5 ELSE n
Place(frames, rest) == IF rest = <<>> THEN 5 * frames ELSE 5 * (frames - 1) + Upto5(Head(rest).at - 1)
Pos == Place(sent, out)
Enqueue(byte) == ring' = Append(ring, [byte EXCEPT !.stamp = damaged', !.pos = Pos'])

Receives ==
  /\ out # <<>>
  /\ out' = Tail(out)
  /\ Len(ring) < Room
  /\ UNCHANGED <<sent, parserVars, countVars, damaged, fooled>>
  /\ Enqueue(Head(out))

Overflows ==
  /\ out # <<>>
  /\ out' = Tail(out)
  /\ Len(ring) >= Room
  /\ damaged' = damaged + 1
  /\ UNCHANGED <<sent, ring, parserVars, countVars, fooled>>

\* The line: a byte the receiver overran, a garbled one, one out of nowhere
\* (the ESP's boot ROM writes to the same UART).  Once MaxHurts is reached the
\* line is clean and the loop drains the ring in time.
LosesByte ==
  /\ out # <<>>
  /\ out' = Tail(out)
  /\ damaged' = damaged + 1
  /\ UNCHANGED <<sent, ring, parserVars, countVars, fooled>>

GarblesByte ==
  /\ out # <<>> /\ Len(ring) < Room
  /\ out' = Tail(out)
  /\ damaged' = damaged + 1
  /\ UNCHANGED <<sent, parserVars, countVars, fooled>>
  /\ Enqueue([Head(out) EXCEPT !.ok = FALSE])

AddsByte ==
  /\ Len(ring) < Room
  /\ damaged' = damaged + 1
  /\ UNCHANGED <<lineVars, parserVars, countVars, fooled>>
  /\ Enqueue(Noise)

Disturbance == Hurts < MaxHurts /\ (Overflows \/ LosesByte \/ GarblesByte \/ AddsByte)

-----------------------------------------------------------------------------
(***************************************************************************)
(* FrameParser::feed, one action per arm, fed by EspLink::poll.            *)
(***************************************************************************)
Dequeue == ring # <<>> /\ ring' = Tail(ring) /\ last' = Head(ring)
Fed == Head(ring)

StartsFrame(byte) == byte.ok /\ byte.at = 1

FeedSync ==
  /\ state = "Sync" /\ Dequeue
  /\ \/ StartsFrame(Fed) /\ state' = "LenLo" /\ UNCHANGED fooled
     \/ ~StartsFrame(Fed) /\ Hurts < MaxHurts /\ state' = "LenLo" /\ fooled' = fooled + 1
     \/ ~StartsFrame(Fed) /\ UNCHANGED <<state, fooled>>
  /\ UNCHANGED <<lineVars, expected, buf, lo, countVars, damaged>>

FeedLenLo ==
  /\ state = "LenLo" /\ Dequeue
  /\ lo' = Fed
  /\ state' = "LenHi"
  /\ UNCHANGED <<lineVars, expected, buf, countVars, damaged, fooled>>

\* The two length bytes of one frame give its length; others any, MaxPayload + 1 standing
\* for every length above MaxPayload.  The low one waits in lo, not in expected.
IsLength(low, high) ==
  low.ok /\ high.ok /\ low.frame = high.frame /\ low.at = 2 /\ high.at = 3
Announced(low, high) == IF IsLength(low, high) THEN {low.len} ELSE 0..MaxPayload + 1

\* Mutants of Rejects: a length one above the buffer's is taken, the longest is not.
RejectsLate(n) == n > MaxPayload + 1
RejectsLongest(n) == n >= MaxPayload
Rejects(n) == n > MaxPayload

FeedLenHi ==
  /\ state = "LenHi" /\ Dequeue
  /\ \E n \in Announced(lo, Fed) :
       IF Rejects(n) THEN state' = "Sync" /\ UNCHANGED <<expected, buf>>
       ELSE state' = "Data" /\ expected' = n + 1 /\ buf' = <<>>
  /\ lo' = Noise
  /\ UNCHANGED <<lineVars, countVars, damaged, fooled>>

FeedData ==
  /\ state = "Data" /\ Dequeue
  /\ buf' = Append(buf, Fed)
  /\ state' = IF Len(buf') >= expected THEN "Crc" ELSE "Data"
  /\ UNCHANGED <<lineVars, expected, lo, countVars, damaged, fooled>>

\* buf and the byte after it stand in their places in one frame.
InPlace(crc) ==
  /\ crc.at = expected + 4 /\ crc.len = expected - 1
  /\ \A i \in 1..expected : buf[i].frame = crc.frame /\ buf[i].at = i + 3
Garbled(crc) == {i \in 1..expected : ~buf[i].ok} \cup (IF crc.ok THEN {} ELSE {expected + 1})
Whole(crc) == InPlace(crc) /\ Garbled(crc) = {}
OneGarbled(crc) == InPlace(crc) /\ \E i \in 1..expected + 1 : Garbled(crc) = {i}

Deliver(frame) ==
  /\ taken' = frame
  /\ lost' = lost + (frame - taken - 1)
  /\ UNCHANGED <<invented, fooled>>

FeedCrc ==
  /\ state = "Crc" /\ Dequeue
  /\ state' = "Sync"
  /\ \/ Whole(Fed) /\ Deliver(Fed.frame)
     \/ ~Whole(Fed) /\ UNCHANGED <<countVars, fooled>>
     \/ /\ ~Whole(Fed) /\ ~OneGarbled(Fed) /\ Hurts < MaxHurts
        /\ invented' = invented + 1 /\ fooled' = fooled + 1
        /\ UNCHANGED <<taken, lost>>
  /\ UNCHANGED <<lineVars, expected, buf, lo, damaged>>

Feed == FeedSync \/ FeedLenLo \/ FeedLenHi \/ FeedData \/ FeedCrc

Next == (\E n \in Payloads : Build(n)) \/ Receives \/ Disturbance \/ Feed

Spec == Init /\ [][Next]_vars

-----------------------------------------------------------------------------
LineTypes ==
  /\ sent \in 0..MaxFrames /\ out \in Seq(Byte)
  /\ ring \in Seq(Byte) /\ Len(ring) <= Room
ParserTypes ==
  /\ state \in States /\ expected \in 0..MaxPayload + 1
  /\ buf \in Seq(Byte) /\ lo \in Byte /\ last \in Byte
  /\ state = "Data" => Len(buf) < expected
  /\ state = "Crc" => Len(buf) = expected /\ expected > 0
HistoryTypes ==
  /\ taken \in Nat /\ lost \in Nat /\ invented \in Nat
  /\ damaged \in Nat /\ fooled \in Nat
\* Types; what the parser still expects fits its buffer.
TypeOK == LineTypes /\ ParserTypes /\ HistoryTypes

\* Frames one disturbance may cost: the one it hits, and those the parser takes
\* for the rest of a frame as long as can be.  "The frame parser resyncs on the
\* next valid frame by CRC" (esp/src/bin/main.rs:790) leaves these out.
FramesPerHurt == (MaxPayload + 10) \div 5

\* Frames arrive whole, in order and once; each disturbance costs FramesPerHurt
\* of them at most, and brings one that was not sent at most.
Channel == INSTANCE FrameChannel WITH Cost <- FramesPerHurt, hurts <- Hurts
IsFrameChannel == Channel!Spec
=============================================================================
