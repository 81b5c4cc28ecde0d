-------------------------- MODULE FrameLink_proofs --------------------------
(***************************************************************************)
(* FrameLink for every payload length, ring and number of frames and       *)
(* disturbances: types, and that it implements FrameChannel.               *)
(*                                                                         *)
(* The argument follows the bytes from the sender to the parser: what is   *)
(* left of the frame being written (OutInv), the chain of bytes received   *)
(* (ChainInv), their order (OrderInv), and what the disturbances up to the *)
(* byte fed last have paid for (CostInv).                                  *)
(***************************************************************************)
EXTENDS FrameLink, SequenceTheorems, TLAPS

\* q is what is left of a frame being written: its bytes from place a on.
Rest(frame, q, n, a) ==
  /\ Len(q) = n + 6 - a
  /\ \A i \in 1..Len(q) : q[i] = Genuine(frame, a + i - 1, n)
  /\ a < n + 6 => frame > 0
OutInv == \E n \in 0..MaxPayload : \E a \in 1..n + 6 : Rest(sent, out, n, a)

\* The bytes received, the one fed last before those in the ring.
At(i) == IF i = 0 THEN last ELSE ring[i]

Follows(a, b) ==
  \/ a.at < a.len + 5 /\ b.frame = a.frame /\ b.at = a.at + 1 /\ b.len = a.len
  \/ a.at = a.len + 5 /\ b.frame = a.frame + 1 /\ b.at = 1
SenderFollows(z) == IF out = <<>> THEN z.frame = sent /\ z.at = z.len + 5 ELSE Follows(z, Head(out))

ByteInv(b) ==
  /\ b.at <= b.len + 5
  /\ b.stamp <= damaged
  /\ b.ok => b.at # 0
  /\ b.at # 0 => b.pos = 5 * (b.frame - 1) + Upto5(b.at)

\* Between two bytes the sender came further by one place, and one for each
\* disturbance; without one nothing is missing between them.
Linked(a, b) ==
  /\ a.stamp <= b.stamp
  /\ a.pos <= b.pos /\ b.pos <= a.pos + 1 + (b.stamp - a.stamp)
  /\ a.stamp = b.stamp => b.ok
  /\ a.stamp = b.stamp /\ a.at # 0 => Follows(a, b)
SenderLinked(z) ==
  /\ z.pos <= Pos /\ Pos <= z.pos + (damaged - z.stamp)
  /\ z.stamp = damaged /\ z.at # 0 => SenderFollows(z)

ChainInv ==
  /\ \A i \in 0..Len(ring) : ByteInv(At(i))
  /\ \A i \in 0..Len(ring) - 1 : Linked(At(i), At(i + 1))
  /\ SenderLinked(At(Len(ring)))

\* Bytes that stand in frames are in the order in which they were written.
Earlier(a, b) ==
  a.at # 0 /\ b.at # 0 => a.frame < b.frame \/ (a.frame = b.frame /\ a.len = b.len /\ a.at < b.at)
OrderInv ==
  /\ taken <= sent /\ (out # <<>> => taken < sent)
  /\ \A i \in 1..Len(ring) : ring[i].at # 0 => taken < ring[i].frame /\ ring[i].frame <= sent
  /\ \A i, j \in 1..Len(ring) : i < j => Earlier(ring[i], ring[j])
  /\ out # <<>> => \A i \in 1..Len(ring) : Earlier(ring[i], Head(out))

\* The parser is in step with the sender.
InFrame ==
  /\ last.ok /\ last.at < last.len + 5
  /\ \/ state = "LenLo" /\ last.at = 1
     \/ state = "LenHi" /\ last.at = 2 /\ lo = last
     \/ /\ state = (IF last.at = last.len + 4 THEN "Crc" ELSE "Data")
        /\ last.at > 2 /\ expected = last.len + 1 /\ Len(buf) = last.at - 3
        /\ \A i \in 1..Len(buf) : buf[i].ok /\ buf[i].frame = last.frame /\ buf[i].at = i + 3

\* The longest way from here to the end of a frame that was none.
Ahead ==
  CASE state = "Sync" -> 0
    [] state = "LenLo" -> MaxPayload + 4
    [] state = "LenHi" -> MaxPayload + 3
    [] OTHER -> expected - Len(buf) + 1

\* What the disturbances before the byte fed last may have cost: five places of the
\* sender for each frame.  In step, all frames before this one are accounted for; out
\* of step, so is all that the parser may still take in.
Bound(h) == FramesPerHurt * h
Budget == Bound(last.stamp + fooled)
InStepCost == lost - taken + last.frame - 1 <= Budget
OutOfStepCost == 5 * (lost - taken) + last.pos + Ahead <= 5 * Budget
CostInv ==
  /\ (InFrame /\ InStepCost) \/ OutOfStepCost
  /\ 5 * taken <= last.pos

LinkInv == TypeOK /\ OutInv /\ ChainInv /\ OrderInv /\ CostInv

-----------------------------------------------------------------------------
(***************************************************************************)
(* Bytes and sequences of them.                                            *)
(***************************************************************************)
LEMMA BoundsTyped ==
  MaxPayload \in Nat /\ Room \in Nat /\ MaxFrames \in Nat /\ MaxHurts \in Nat
BY BoundsAssumption

LEMMA GenuineTyped ==
  ASSUME NEW f \in Nat, NEW a \in Nat, NEW n \in 0..MaxPayload
  PROVE  /\ Genuine(f, a, n) \in Byte
         /\ Genuine(f, a, n).frame = f /\ Genuine(f, a, n).at = a /\ Genuine(f, a, n).len = n
         /\ Genuine(f, a, n).ok
BY DEF Genuine, Byte

LEMMA NoiseTyped == Noise \in Byte /\ Before \in Byte
BY BoundsTyped DEF Noise, Before, Genuine, Byte

LEMMA ByteTyped ==
  ASSUME NEW b \in Byte
  PROVE  /\ b.frame \in Nat /\ b.at \in Nat /\ b.len \in 0..MaxPayload /\ b.ok \in BOOLEAN
         /\ b.stamp \in Nat /\ b.pos \in Nat
BY DEF Byte

\* A byte as the ring gets it, and a garbled one.
Stamped(b, s, p) == [b EXCEPT !.stamp = s, !.pos = p]
Broken(b) == [b EXCEPT !.ok = FALSE]
SameBut(b, c) == c \in Byte /\ c.frame = b.frame /\ c.at = b.at /\ c.len = b.len

LEMMA StampedTyped ==
  ASSUME NEW b \in Byte, NEW s \in Nat, NEW p \in Nat
  PROVE  /\ SameBut(b, Stamped(b, s, p)) /\ Stamped(b, s, p).ok = b.ok
         /\ Stamped(b, s, p).stamp = s /\ Stamped(b, s, p).pos = p
BY DEF Byte, Stamped, SameBut

LEMMA BrokenTyped ==
  ASSUME NEW b \in Byte
  PROVE  SameBut(b, Broken(b)) /\ Broken(b).ok = FALSE
BY DEF Byte, Broken, SameBut

LEMMA TailOf ==
  ASSUME NEW S, NEW q \in Seq(S), q # <<>>
  PROVE  /\ Head(q) \in S /\ Head(q) = q[1]
         /\ Tail(q) \in Seq(S) /\ Len(Tail(q)) = Len(q) - 1
         /\ \A i \in 1..Len(q) - 1 : Tail(q)[i] = q[i + 1]
BY HeadTailProperties

LEMMA AppendOf ==
  ASSUME NEW S, NEW q \in Seq(S), NEW e \in S
  PROVE  /\ Append(q, e) \in Seq(S) /\ Len(Append(q, e)) = Len(q) + 1
         /\ \A i \in 1..Len(q) : Append(q, e)[i] = q[i]
         /\ Append(q, e)[Len(q) + 1] = e
BY AppendProperties

LEMMA EmptyIsLength0 ==
  ASSUME NEW S, NEW q \in Seq(S)
  PROVE  /\ Len(q) \in Nat /\ (q = <<>> <=> Len(q) = 0)
         /\ q # <<>> => Head(q) = q[1]
BY EmptySeq, LenProperties, HeadTailProperties

-----------------------------------------------------------------------------
(***************************************************************************)
(* The sender.                                                             *)
(***************************************************************************)
\* What Rest says of the byte to come and of how far the sender is.
LEMMA RestFacts ==
  ASSUME NEW s \in Nat, NEW q \in Seq(Byte), NEW n \in 0..MaxPayload, NEW a \in 1..n + 6, Rest(s, q, n, a)
  PROVE  /\ q = <<>> <=> a = n + 6
         /\ q # <<>> => Head(q) = Genuine(s, a, n) /\ s > 0
         /\ Place(s, q) = (IF a = n + 6 THEN 5 * s ELSE 5 * (s - 1) + Upto5(a - 1))
         /\ Place(s, q) \in Nat
<1> USE BoundsTyped
<1>1. n \in Nat /\ a \in Nat /\ a >= 1 /\ a <= n + 6
  OBVIOUS
<1>2. q = <<>> <=> a = n + 6
  BY <1>1, EmptyIsLength0 DEF Rest
<1>3. ASSUME q # <<>>
      PROVE  /\ Head(q) = Genuine(s, a, n) /\ s > 0
             /\ Place(s, q) = 5 * (s - 1) + Upto5(a - 1)
  <2>1. Len(q) \in Nat /\ Len(q) # 0 /\ Head(q) = q[1]
    BY <1>3, EmptyIsLength0
  <2>2. q[1] = Genuine(s, a + 1 - 1, n)
    BY <2>1 DEF Rest
  <2>3. a + 1 - 1 = a
    BY <1>1
  <2>4. Head(q) = Genuine(s, a, n)
    BY <2>1, <2>2, <2>3
  <2>5. s > 0
    BY <1>1, <1>2, <1>3 DEF Rest
  <2>6. Head(q).at = a
    BY <2>4, <1>1, GenuineTyped
  <2> QED
    BY <1>1, <1>3, <2>4, <2>5, <2>6 DEF Place, Upto5
<1>4. a = n + 6 => Place(s, q) = 5 * s
  BY <1>2 DEF Place
<1>5. a # n + 6 => Place(s, q) \in Nat
  BY <1>1, <1>2, <1>3 DEF Upto5
<1> QED
  BY <1>2, <1>3, <1>4, <1>5

LEMMA RestShrinks ==
  ASSUME NEW s \in Nat, NEW q \in Seq(Byte), NEW r \in Seq(Byte), NEW n \in 0..MaxPayload, NEW a \in 1..n + 5,
         Rest(s, q, n, a), Len(r) = Len(q) - 1, \A i \in 1..Len(q) - 1 : r[i] = q[i + 1]
  PROVE  Rest(s, r, n, a + 1)
<1> USE BoundsTyped
<1>1. n \in Nat /\ a \in Nat /\ Len(q) = n + 6 - a /\ Len(r) = n + 6 - (a + 1)
  BY DEF Rest
<1>2. \A i \in 1..Len(r) : r[i] = Genuine(s, (a + 1) + i - 1, n)
  <2> SUFFICES ASSUME NEW i \in 1..Len(r)
               PROVE  r[i] = Genuine(s, (a + 1) + i - 1, n)
    OBVIOUS
  <2>1. i \in Int /\ i + 1 \in 1..Len(q) /\ i \in 1..Len(q) - 1
    BY <1>1
  <2>2. r[i] = q[i + 1] /\ q[i + 1] = Genuine(s, a + (i + 1) - 1, n)
    BY <2>1 DEF Rest
  <2>3. a + (i + 1) - 1 = (a + 1) + i - 1
    BY <1>1, <2>1
  <2> QED
    BY <2>2, <2>3
<1>3. s > 0
  BY <1>1 DEF Rest
<1> QED
  BY <1>1, <1>2, <1>3 DEF Rest

\* The byte that leaves the sender, and what it leaves behind.
Leaves(s, q, r, n, a) ==
  /\ a \in 1..n + 5
  /\ s > 0 /\ Head(q) = Genuine(s, a, n) /\ Place(s, q) = 5 * (s - 1) + Upto5(a - 1)
  /\ r = <<>> <=> a = n + 5
  /\ r # <<>> => Head(r) = Genuine(s, a + 1, n)
  /\ Place(s, r) = 5 * (s - 1) + Upto5(a) /\ Place(s, r) \in Nat

LEMMA RestSteps ==
  ASSUME NEW s \in Nat, NEW q \in Seq(Byte), NEW r \in Seq(Byte), NEW n \in 0..MaxPayload, NEW a \in 1..n + 6,
         Rest(s, q, n, a), q # <<>>, Len(r) = Len(q) - 1, \A i \in 1..Len(q) - 1 : r[i] = q[i + 1]
  PROVE  Leaves(s, q, r, n, a) /\ a + 1 \in 1..n + 6 /\ Rest(s, r, n, a + 1)
<1>1. n \in Nat /\ a \in 1..n + 5 /\ a + 1 \in 1..n + 6 /\ a \in Nat
  BY BoundsTyped, RestFacts
<1>2. s > 0 /\ Head(q) = Genuine(s, a, n) /\ Place(s, q) = 5 * (s - 1) + Upto5(a - 1)
  BY <1>1, RestFacts
<1>3. Rest(s, r, n, a + 1)
  BY <1>1, RestShrinks
<1> DEFINE c == a + 1
<1>4. c \in 1..n + 6 /\ Rest(s, r, n, c) /\ c - 1 = a
  BY <1>1, <1>3
<1> HIDE DEF c
<1>5. /\ r = <<>> <=> c = n + 6
      /\ r # <<>> => Head(r) = Genuine(s, c, n)
      /\ Place(s, r) = (IF c = n + 6 THEN 5 * s ELSE 5 * (s - 1) + Upto5(c - 1))
      /\ Place(s, r) \in Nat
  <2>1. r = <<>> <=> c = n + 6
    BY <1>4, RestFacts
  <2>2. r # <<>> => Head(r) = Genuine(s, c, n)
    BY <1>4, RestFacts
  <2>3. Place(s, r) = (IF c = n + 6 THEN 5 * s ELSE 5 * (s - 1) + Upto5(c - 1))
    BY <1>4, RestFacts
  <2>4. Place(s, r) \in Nat
    BY <1>4, RestFacts
  <2> QED
    BY <2>1, <2>2, <2>3, <2>4
<1>6. Place(s, r) = 5 * (s - 1) + Upto5(a)
  BY <1>1, <1>4, <1>5 DEF Upto5
<1>7. c = a + 1
  BY DEF c
<1> QED
  BY <1>1, <1>2, <1>3, <1>5, <1>6, <1>7 DEF Leaves

LEMMA SenderLeaves ==
  ASSUME NEW s \in Nat, NEW q \in Seq(Byte), q # <<>>, NEW r, r = Tail(q),
         \E n \in 0..MaxPayload : \E a \in 1..n + 6 : Rest(s, q, n, a)
  PROVE  /\ r \in Seq(Byte)
         /\ \E n \in 0..MaxPayload : \E a \in 1..n + 6 : Rest(s, r, n, a)
         /\ \E n \in 0..MaxPayload : \E a \in 1..n + 5 : Leaves(s, q, r, n, a)
<1>1. PICK n \in 0..MaxPayload : \E a \in 1..n + 6 : Rest(s, q, n, a)
  OBVIOUS
<1>2. PICK a \in 1..n + 6 : Rest(s, q, n, a)
  BY <1>1
<1>3. r \in Seq(Byte) /\ Len(r) = Len(q) - 1 /\ \A i \in 1..Len(q) - 1 : r[i] = q[i + 1]
  BY TailOf
<1>4. Leaves(s, q, r, n, a) /\ a + 1 \in 1..n + 6 /\ Rest(s, r, n, a + 1)
  BY <1>2, <1>3, RestSteps
<1>5. a \in 1..n + 5
  BY <1>4 DEF Leaves
<1> QED
  BY <1>3, <1>4, <1>5

LEMMA SenderSteps ==
  ASSUME sent \in Nat, out \in Seq(Byte), OutInv, out # <<>>, out' = Tail(out), sent' = sent
  PROVE  /\ out' \in Seq(Byte) /\ OutInv'
         /\ Pos = Place(sent, out) /\ Pos' = Place(sent, out')
         /\ \E n \in 0..MaxPayload : \E a \in 1..n + 5 : Leaves(sent, out, out', n, a)
<1> DEFINE r == out'
           s == sent
           q == out
<1>1. /\ s \in Nat /\ q \in Seq(Byte) /\ q # <<>> /\ r = Tail(q)
      /\ \E n \in 0..MaxPayload : \E a \in 1..n + 6 : Rest(s, q, n, a)
  BY DEF OutInv
<1> HIDE DEF r, s, q
<1>2. /\ r \in Seq(Byte)
      /\ \E n \in 0..MaxPayload : \E a \in 1..n + 6 : Rest(s, r, n, a)
      /\ \E n \in 0..MaxPayload : \E a \in 1..n + 5 : Leaves(s, q, r, n, a)
  BY <1>1, SenderLeaves
<1>3. OutInv'
  BY <1>2 DEF r, s, OutInv
<1>4. Pos = Place(sent, out) /\ Pos' = Place(sent, out')
  BY DEF Pos
<1> QED
  BY <1>2, <1>3, <1>4 DEF r, s, q

LEMMA BuildSteps ==
  ASSUME TypeOK, NEW k \in Payloads, Build(k)
  PROVE  /\ out' \in Seq(Byte) /\ OutInv' /\ Pos' = Pos /\ Pos \in Nat
         /\ \E n \in 0..MaxPayload : out' # <<>> /\ Head(out') = Genuine(sent', 1, n)
<1> DEFINE n == PayloadLen(k)
           s == sent + 1
           r == FrameBytes(s, n)
<1>1. n \in 0..MaxPayload /\ s \in Nat /\ s > 0 /\ sent \in Nat
  BY BoundsAssumption DEF PayloadLen, TypeOK, LineTypes
<1>2. out = <<>> /\ sent' = s /\ out' = r
  BY DEF Build
<1> HIDE DEF n, s
<1>3. n \in Nat /\ r = [i \in 1..n + 5 |-> Genuine(s, i, n)]
  BY <1>1, BoundsTyped DEF FrameBytes
<1> HIDE DEF r
<1>4. r \in Seq(Byte) /\ Len(r) = n + 5 /\ \A i \in 1..n + 5 : r[i] = Genuine(s, i, n)
  <2>1. \A i \in 1..n + 5 : Genuine(s, i, n) \in Byte
    BY <1>1, <1>3, GenuineTyped
  <2>2. r \in [1..n + 5 -> Byte] /\ n + 5 \in Nat
    BY <1>3, <2>1
  <2>3. r \in Seq(Byte)
    BY <2>2, SeqDef
  <2>4. Len(r) = n + 5
    BY <2>2, <2>3, LenProperties
  <2> QED
    BY <1>3, <2>3, <2>4
<1>5. Rest(s, r, n, 1)
  <2>1. \A i \in 1..Len(r) : r[i] = Genuine(s, 1 + i - 1, n)
    <3> SUFFICES ASSUME NEW i \in 1..Len(r) PROVE r[i] = Genuine(s, 1 + i - 1, n)
      OBVIOUS
    <3>1. i \in Int /\ i \in 1..n + 5 /\ 1 + i - 1 = i
      BY <1>3, <1>4
    <3> QED
      BY <1>4, <3>1
  <2>2. Len(r) = n + 6 - 1
    BY <1>3, <1>4
  <2> QED
    BY <1>1, <2>1, <2>2 DEF Rest
<1>6. 1 \in 1..n + 6 /\ 1 # n + 6
  BY <1>3
<1>7. r # <<>> /\ Head(r) = Genuine(s, 1, n)
  BY <1>1, <1>4, <1>5, <1>6, RestFacts
<1>8. Place(s, r) = 5 * (s - 1) + Upto5(1 - 1)
  BY <1>1, <1>4, <1>5, <1>6, RestFacts
<1>9. Pos' = 5 * sent
  BY <1>1, <1>2, <1>8 DEF s, Pos, Upto5
<1>10. Pos = 5 * sent
  BY <1>2 DEF Pos, Place
<1>11. OutInv'
  BY <1>1, <1>2, <1>5, <1>6 DEF OutInv
<1> QED
  BY <1>1, <1>2, <1>4, <1>7, <1>9, <1>10, <1>11

\* Pos of the line as it stands.
LEMMA PosTyped ==
  ASSUME sent \in Nat, out \in Seq(Byte), OutInv
  PROVE  Pos \in Nat
<1>1. PICK n \in 0..MaxPayload : \E a \in 1..n + 6 : Rest(sent, out, n, a)
  BY DEF OutInv
<1>2. PICK a \in 1..n + 6 : Rest(sent, out, n, a)
  BY <1>1
<1>3. Place(sent, out) \in Nat
  BY <1>2, RestFacts
<1> QED
  BY <1>3 DEF Pos

\* The byte c, a copy of b with its histories, is in the ring's last place.
Arrives(b, c) ==
  /\ SameBut(b, c) /\ c.ok = b.ok
  /\ c.stamp = damaged' /\ c.pos = Pos'
  /\ ring' \in Seq(Byte) /\ Len(ring') = Len(ring) + 1
  /\ \A i \in 1..Len(ring) : ring'[i] = ring[i]
  /\ ring'[Len(ring) + 1] = c

LEMMA EnqueueSteps ==
  ASSUME ring \in Seq(Byte), NEW b \in Byte, Enqueue(b), damaged' \in Nat, Pos' \in Nat
  PROVE  \E c \in Byte : Arrives(b, c)
<1> DEFINE d == damaged'
           p == Pos'
           r == ring'
           c == Stamped(b, d, p)
<1>1. d \in Nat /\ p \in Nat /\ r = Append(ring, c)
  BY DEF Enqueue, Stamped
<1> HIDE DEF d, p, r
<1>2. SameBut(b, c) /\ c.ok = b.ok /\ c.stamp = d /\ c.pos = p
  BY <1>1, StampedTyped
<1> HIDE DEF c
<1>3. c \in Byte
  BY <1>2 DEF SameBut
<1>4. /\ r \in Seq(Byte) /\ Len(r) = Len(ring) + 1
      /\ \A i \in 1..Len(ring) : r[i] = ring[i]
      /\ r[Len(ring) + 1] = c
  BY <1>1, <1>3, AppendOf
<1> QED
  BY <1>2, <1>3, <1>4 DEF Arrives, d, p, r

LEMMA DequeueSteps ==
  ASSUME ring \in Seq(Byte), Dequeue
  PROVE  /\ Len(ring) \in Nat /\ Len(ring) > 0
         /\ Fed \in Byte /\ Fed = ring[1] /\ last' = Fed
         /\ ring' \in Seq(Byte) /\ Len(ring') = Len(ring) - 1
         /\ \A i \in 1..Len(ring) - 1 : ring'[i] = ring[i + 1]
<1> DEFINE r == ring'
<1>1. ring # <<>> /\ r = Tail(ring) /\ last' = Fed
  BY DEF Dequeue, Fed
<1> HIDE DEF r
<1>2. /\ Fed \in Byte /\ Fed = ring[1]
      /\ r \in Seq(Byte) /\ Len(r) = Len(ring) - 1
      /\ \A i \in 1..Len(ring) - 1 : r[i] = ring[i + 1]
  BY <1>1, TailOf DEF Fed
<1>3. Len(ring) \in Nat /\ Len(ring) > 0
  BY <1>1, EmptyIsLength0
<1> QED
  BY <1>1, <1>2, <1>3 DEF r

-----------------------------------------------------------------------------
(***************************************************************************)
(* Types, and what is left of the frame being written.                     *)
(***************************************************************************)
LineInv == TypeOK /\ OutInv

LEMMA InitTyped == Init => LineInv
<1> SUFFICES ASSUME Init PROVE LineInv
  OBVIOUS
<1> USE BoundsTyped, NoiseTyped DEF Init
<1>1. TypeOK
  <2>1. <<>> \in Seq(Byte) /\ Len(<<>>) = 0
    OBVIOUS
  <2>2. LineTypes
    BY <2>1 DEF LineTypes
  <2>3. ParserTypes
    BY <2>1 DEF ParserTypes, States
  <2> QED
    BY <2>2, <2>3 DEF TypeOK, HistoryTypes
<1>2. Rest(0, <<>>, 0, 6)
  BY DEF Rest
<1>3. 0 \in 0..MaxPayload /\ 6 \in 1..0 + 6
  OBVIOUS
<1>4. OutInv
  BY <1>2, <1>3 DEF OutInv
<1> QED
  BY <1>1, <1>4 DEF LineInv

\* The groups of TypeOK that a step leaves alone.
LEMMA ParserTypesSame == ParserTypes /\ UNCHANGED parserVars => ParserTypes'
BY DEF ParserTypes, parserVars

LEMMA OutInvSame == OutInv /\ UNCHANGED lineVars => OutInv'
BY DEF OutInv, lineVars, Rest

LEMMA BuildTyped == LineInv /\ (\E k \in Payloads : Build(k)) => LineInv'
<1> SUFFICES ASSUME LineInv, NEW k \in Payloads, Build(k) PROVE LineInv'
  OBVIOUS
<1>1. out' \in Seq(Byte) /\ OutInv'
  BY BuildSteps DEF LineInv
<1>2. LineTypes'
  BY <1>1, BoundsTyped DEF LineInv, TypeOK, LineTypes, Build
<1>3. ParserTypes'
  BY ParserTypesSame DEF LineInv, TypeOK, Build
<1>4. HistoryTypes'
  BY DEF LineInv, TypeOK, HistoryTypes, Build, countVars
<1> QED
  BY <1>1, <1>2, <1>3, <1>4 DEF LineInv, TypeOK

\* A byte leaves the sender: c, if any, is what the ring gets.
Shift == out # <<>> /\ out' = Tail(out) /\ sent' = sent

LEMMA ShiftTyped ==
  ASSUME LineInv, Shift
  PROVE  /\ sent' \in 0..MaxFrames /\ out' \in Seq(Byte) /\ OutInv'
         /\ Pos' \in Nat
         /\ \E n \in 0..MaxPayload : \E a \in 1..n + 5 : Leaves(sent, out, out', n, a)
<1>1. sent \in 0..MaxFrames /\ sent \in Nat /\ out \in Seq(Byte) /\ OutInv
  BY BoundsTyped DEF LineInv, TypeOK, LineTypes
<1>2. /\ out' \in Seq(Byte) /\ OutInv'
      /\ Pos' = Place(sent, out')
      /\ \E n \in 0..MaxPayload : \E a \in 1..n + 5 : Leaves(sent, out, out', n, a)
  BY <1>1, SenderSteps DEF Shift
<1>3. Pos' \in Nat
  BY <1>2 DEF Leaves
<1> QED
  BY <1>1, <1>2, <1>3 DEF Shift

LEMMA LineTyped ==
  ASSUME LineInv
  PROVE  /\ ring \in Seq(Byte) /\ out \in Seq(Byte) /\ sent \in 0..MaxFrames /\ Len(ring) \in Nat /\ Len(ring) <= Room
         /\ ParserTypes /\ damaged \in Nat /\ fooled \in Nat /\ taken \in Nat /\ lost \in Nat
         /\ invented \in Nat
         /\ out # <<>> => Head(out) \in Byte
BY TailOf, EmptyIsLength0 DEF LineInv, TypeOK, LineTypes, HistoryTypes

LEMMA ReceivesTyped ==
  ASSUME LineInv, Receives
  PROVE  LineInv' /\ Shift /\ \E c \in Byte : Arrives(Head(out), c)
<1>1. Shift
  BY DEF Shift, Receives
<1>2. sent' \in 0..MaxFrames /\ out' \in Seq(Byte) /\ OutInv' /\ Pos' \in Nat
  BY <1>1, ShiftTyped
<1>3. Head(out) \in Byte /\ damaged' \in Nat /\ ring \in Seq(Byte)
  BY LineTyped DEF Receives
<1>4. PICK c \in Byte : Arrives(Head(out), c)
  BY <1>2, <1>3, EnqueueSteps DEF Receives
<1>5. LineTypes'
  BY <1>2, <1>4, LineTyped, BoundsTyped DEF LineTypes, Receives, Arrives
<1>6. ParserTypes'
  BY ParserTypesSame, LineTyped DEF Receives
<1>7. HistoryTypes'
  BY LineTyped DEF HistoryTypes, Receives, countVars
<1> QED
  BY <1>1, <1>2, <1>4, <1>5, <1>6, <1>7 DEF LineInv, TypeOK

LEMMA LosesTyped ==
  ASSUME LineInv, Overflows \/ LosesByte
  PROVE  LineInv' /\ Shift
<1>1. Shift
  BY DEF Shift, Overflows, LosesByte
<1>2. sent' \in 0..MaxFrames /\ out' \in Seq(Byte) /\ OutInv'
  BY <1>1, ShiftTyped
<1>3. LineTypes'
  BY <1>2, LineTyped DEF LineTypes, Overflows, LosesByte
<1>4. ParserTypes'
  BY ParserTypesSame, LineTyped DEF Overflows, LosesByte
<1>5. HistoryTypes'
  BY LineTyped DEF HistoryTypes, Overflows, LosesByte, countVars
<1> QED
  BY <1>1, <1>2, <1>3, <1>4, <1>5 DEF LineInv, TypeOK

LEMMA GarblesTyped ==
  ASSUME LineInv, GarblesByte
  PROVE  LineInv' /\ Shift /\ \E c \in Byte : Arrives(Broken(Head(out)), c)
<1>1. Shift
  BY DEF Shift, GarblesByte
<1>2. sent' \in 0..MaxFrames /\ out' \in Seq(Byte) /\ OutInv' /\ Pos' \in Nat
  BY <1>1, ShiftTyped
<1>3. Head(out) \in Byte /\ damaged' \in Nat /\ ring \in Seq(Byte)
  BY LineTyped DEF GarblesByte
<1>4. Broken(Head(out)) \in Byte
  BY <1>3, BrokenTyped DEF SameBut
<1>5. Enqueue(Broken(Head(out)))
  BY DEF GarblesByte, Broken
<1>6. PICK c \in Byte : Arrives(Broken(Head(out)), c)
  BY <1>2, <1>3, <1>4, <1>5, EnqueueSteps
<1>7. LineTypes'
  BY <1>2, <1>6, LineTyped, BoundsTyped DEF LineTypes, GarblesByte, Arrives
<1>8. ParserTypes'
  BY ParserTypesSame, LineTyped DEF GarblesByte
<1>9. HistoryTypes'
  BY LineTyped DEF HistoryTypes, GarblesByte, countVars
<1> QED
  BY <1>1, <1>2, <1>6, <1>7, <1>8, <1>9 DEF LineInv, TypeOK

LEMMA AddsTyped ==
  ASSUME LineInv, AddsByte
  PROVE  LineInv' /\ Pos' = Pos /\ Pos \in Nat /\ \E c \in Byte : Arrives(Noise, c)
<1>1. UNCHANGED lineVars /\ Pos' = Pos
  BY DEF AddsByte, Pos, lineVars
<1>2. OutInv' /\ Pos \in Nat
  BY <1>1, OutInvSame, PosTyped, LineTyped DEF LineInv
<1>3. damaged' \in Nat /\ ring \in Seq(Byte)
  BY LineTyped DEF AddsByte
<1>4. PICK c \in Byte : Arrives(Noise, c)
  BY <1>1, <1>2, <1>3, NoiseTyped, EnqueueSteps DEF AddsByte
<1>5. LineTypes'
  BY <1>1, <1>4, LineTyped, BoundsTyped DEF LineTypes, AddsByte, Arrives, lineVars
<1>6. ParserTypes'
  BY ParserTypesSame, LineTyped DEF AddsByte
<1>7. HistoryTypes'
  BY LineTyped DEF HistoryTypes, AddsByte, countVars
<1> QED
  BY <1>1, <1>2, <1>4, <1>5, <1>6, <1>7 DEF LineInv, TypeOK

LEMMA FedTyped ==
  ASSUME LineInv, Dequeue, UNCHANGED lineVars
  PROVE  LineTypes' /\ OutInv' /\ last' = Fed /\ Fed \in Byte
<1>1. /\ Fed \in Byte /\ last' = Fed
      /\ ring' \in Seq(Byte) /\ Len(ring') = Len(ring) - 1
  BY DequeueSteps, LineTyped
<1>2. LineTypes'
  BY <1>1, LineTyped, BoundsTyped DEF LineTypes, lineVars
<1> QED
  BY <1>1, <1>2, OutInvSame DEF LineInv

LEMMA FeedTyped == LineInv /\ OrderInv /\ Feed => LineInv'
<1> SUFFICES ASSUME LineInv, OrderInv, Feed PROVE LineInv'
  OBVIOUS
<1>1. Dequeue /\ UNCHANGED lineVars
  BY DEF Feed, FeedSync, FeedLenLo, FeedLenHi, FeedData, FeedCrc
<1>2. LineTypes' /\ OutInv' /\ last' = Fed /\ Fed \in Byte
  BY <1>1, FedTyped
<1>3. HistoryTypes /\ ParserTypes
  BY DEF LineInv, TypeOK
<1>4. CASE FeedSync
  <2>1. ParserTypes'
    BY <1>2, <1>3, <1>4 DEF ParserTypes, FeedSync, States
  <2>2. HistoryTypes'
    BY <1>3, <1>4 DEF HistoryTypes, FeedSync, countVars
  <2> QED
    BY <1>2, <2>1, <2>2 DEF LineInv, TypeOK
<1>5. CASE FeedLenLo
  <2>1. ParserTypes'
    BY <1>2, <1>3, <1>5 DEF ParserTypes, FeedLenLo, States
  <2>2. HistoryTypes'
    BY <1>3, <1>5 DEF HistoryTypes, FeedLenLo, countVars
  <2> QED
    BY <1>2, <2>1, <2>2 DEF LineInv, TypeOK
<1>6. CASE FeedLenHi
  <2>1. PICK n \in Announced(lo, Fed) :
          IF Rejects(n) THEN state' = "Sync" /\ UNCHANGED <<expected, buf>>
          ELSE state' = "Data" /\ expected' = n + 1 /\ buf' = <<>>
    BY <1>6 DEF FeedLenHi
  <2>2. n \in 0..MaxPayload + 1
    BY <1>2, <1>3, ByteTyped, BoundsTyped DEF Announced, ParserTypes
  <2>3. lo' \in Byte
    BY <1>6, NoiseTyped DEF FeedLenHi
  <2>4. CASE Rejects(n)
    <3>1. state' = "Sync" /\ UNCHANGED <<expected, buf>>
      BY <2>1, <2>4
    <3>2. ParserTypes'
      BY <1>2, <1>3, <2>3, <3>1 DEF ParserTypes, States
    <3>3. HistoryTypes'
      BY <1>3, <1>6 DEF HistoryTypes, FeedLenHi, countVars
    <3> QED
      BY <1>2, <3>2, <3>3 DEF LineInv, TypeOK
  <2>5. CASE ~Rejects(n)
    <3>1. state' = "Data" /\ expected' = n + 1 /\ buf' = <<>>
      BY <2>1, <2>5
    <3>2. expected' \in 1..MaxPayload + 1
      BY <2>2, <2>5, <3>1, BoundsTyped DEF Rejects
    <3>3. buf' \in Seq(Byte) /\ Len(buf') = 0
      BY <3>1
    <3>4. ParserTypes'
      BY <1>2, <2>3, <3>1, <3>2, <3>3, BoundsTyped DEF ParserTypes, States
    <3>5. HistoryTypes'
      BY <1>3, <1>6 DEF HistoryTypes, FeedLenHi, countVars
    <3> QED
      BY <1>2, <3>4, <3>5 DEF LineInv, TypeOK
  <2> QED
    BY <2>4, <2>5
<1>7. CASE FeedData
  <2>1. buf' \in Seq(Byte) /\ Len(buf') = Len(buf) + 1 /\ Len(buf) \in Nat
    BY <1>2, <1>3, <1>7, AppendOf, EmptyIsLength0 DEF FeedData, ParserTypes
  <2>2. expected \in Nat /\ Len(buf) < expected
    BY <1>3, <1>7, BoundsTyped DEF ParserTypes, FeedData
  <2>3. ParserTypes'
    BY <1>2, <1>3, <1>7, <2>1, <2>2 DEF ParserTypes, FeedData, States
  <2>4. HistoryTypes'
    BY <1>3, <1>7 DEF HistoryTypes, FeedData, countVars
  <2> QED
    BY <1>2, <2>3, <2>4 DEF LineInv, TypeOK
<1>8. CASE FeedCrc
  <2>1. ParserTypes'
    BY <1>2, <1>3, <1>8 DEF ParserTypes, FeedCrc, States
  <2>2. HistoryTypes'
    <3>1. CASE Whole(Fed) /\ Deliver(Fed.frame)
      <4>1. Fed.at # 0 /\ Fed.frame \in Nat
        BY <1>2, <1>3, <3>1, ByteTyped, BoundsTyped DEF Whole, InPlace, ParserTypes
      <4>2. taken < Fed.frame
        BY <1>1, <4>1, DequeueSteps, LineTyped DEF OrderInv
      <4>3. taken' = Fed.frame /\ lost' = lost + (Fed.frame - taken - 1) /\ UNCHANGED <<invented, fooled>>
        BY <3>1 DEF Deliver
      <4>4. lost' \in Nat
        BY <1>3, <4>1, <4>2, <4>3 DEF HistoryTypes
      <4> QED
        BY <1>3, <1>8, <4>1, <4>3, <4>4 DEF HistoryTypes, FeedCrc
    <3>2. CASE UNCHANGED <<countVars, fooled>>
      BY <1>3, <1>8, <3>2 DEF HistoryTypes, FeedCrc, countVars
    <3>3. CASE invented' = invented + 1 /\ fooled' = fooled + 1 /\ UNCHANGED <<taken, lost>>
      BY <1>3, <1>8, <3>3 DEF HistoryTypes, FeedCrc
    <3> QED
      BY <1>8, <3>1, <3>2, <3>3 DEF FeedCrc
  <2> QED
    BY <1>2, <2>1, <2>2 DEF LineInv, TypeOK
<1> QED
  BY <1>4, <1>5, <1>6, <1>7, <1>8 DEF Feed

-----------------------------------------------------------------------------
(***************************************************************************)
(* The order of the bytes.                                                 *)
(***************************************************************************)
LEMMA OrderStarts == Init => OrderInv
<1> SUFFICES ASSUME Init PROVE OrderInv
  OBVIOUS
<1>1. sent = 0 /\ out = <<>> /\ taken = 0 /\ Len(ring) = 0
  BY DEF Init
<1> QED
  BY <1>1 DEF OrderInv

LEMMA RingTyped ==
  ASSUME LineInv
  PROVE  \A i \in 1..Len(ring) :
           ring[i] \in Byte /\ ring[i].frame \in Nat /\ ring[i].at \in Nat /\ ring[i].len \in Nat
<1> SUFFICES ASSUME NEW i \in 1..Len(ring)
             PROVE  ring[i] \in Byte /\ ring[i].frame \in Nat /\ ring[i].at \in Nat /\ ring[i].len \in Nat
  OBVIOUS
<1>1. ring[i] \in Byte
  BY LineTyped, ElementOfSeq
<1> QED
  BY <1>1, ByteTyped, BoundsTyped

LEMMA OrderAfterBuild ==
  ASSUME LineInv, OrderInv, NEW k \in Payloads, Build(k)
  PROVE  OrderInv'
<1>1. PICK n \in 0..MaxPayload : out' # <<>> /\ Head(out') = Genuine(sent', 1, n)
  BY BuildSteps DEF LineInv
<1>2. sent' = sent + 1 /\ sent \in Nat /\ taken \in Nat /\ UNCHANGED <<ring, taken>>
  BY LineTyped, BoundsTyped DEF Build, countVars
<1>3. Head(out').frame = sent + 1
  BY <1>1, <1>2, GenuineTyped
<1>4. \A i \in 1..Len(ring) : Earlier(ring[i], Head(out'))
  BY <1>2, <1>3, RingTyped DEF OrderInv, Earlier
<1>5. \A i \in 1..Len(ring) : ring[i].at # 0 => taken < ring[i].frame /\ ring[i].frame <= sent + 1
  BY <1>2, RingTyped DEF OrderInv
<1> QED
  BY <1>2, <1>4, <1>5 DEF OrderInv

\* The sender moves on: what was earlier than its last byte is earlier than its next.
LEMMA OrderShifts ==
  ASSUME LineInv, OrderInv, Shift
  PROVE  /\ sent > 0 /\ Head(out).frame = sent /\ Head(out).at \in Nat /\ taken < sent
         /\ out' # <<>> => Earlier(Head(out), Head(out'))
         /\ out' # <<>> => \A i \in 1..Len(ring) : Earlier(ring[i], Head(out'))
<1>1. PICK n \in 0..MaxPayload : \E a \in 1..n + 5 : Leaves(sent, out, out', n, a)
  BY ShiftTyped
<1>2. PICK a \in 1..n + 5 : Leaves(sent, out, out', n, a)
  BY <1>1
<1>3. /\ sent \in Nat /\ sent > 0 /\ a \in Nat /\ n \in 0..MaxPayload /\ a + 1 \in Nat
      /\ Head(out) = Genuine(sent, a, n)
      /\ out' # <<>> => Head(out') = Genuine(sent, a + 1, n)
  BY <1>2, LineTyped, BoundsTyped DEF Leaves
<1>4. Head(out).frame = sent /\ Head(out).at = a /\ Head(out).len = n
  BY <1>3, GenuineTyped
<1>5. out' # <<>> => Head(out').frame = sent /\ Head(out').at = a + 1 /\ Head(out').len = n
  BY <1>3, GenuineTyped
<1>6. ASSUME out' # <<>> PROVE Earlier(Head(out), Head(out'))
  BY <1>3, <1>4, <1>5, <1>6 DEF Earlier
<1>7. ASSUME out' # <<>>, NEW i \in 1..Len(ring) PROVE Earlier(ring[i], Head(out'))
  <2>1. Earlier(ring[i], Head(out)) /\ a # 0
    BY <1>2 DEF OrderInv, Shift
  <2>2. ring[i].at \in Nat /\ ring[i].frame \in Nat
    BY RingTyped
  <2> QED
    BY <1>3, <1>4, <1>5, <1>7, <2>1, <2>2 DEF Earlier
<1> QED
  BY <1>3, <1>4, <1>6, <1>7 DEF OrderInv, Shift

LEMMA OrderAfterLoss ==
  ASSUME LineInv, OrderInv, Shift, UNCHANGED <<ring, taken>>
  PROVE  OrderInv'
BY OrderShifts DEF OrderInv, Shift

LEMMA OrderAfterArrival ==
  ASSUME LineInv, OrderInv, Shift, UNCHANGED taken,
         NEW b, SameBut(Head(out), b), NEW c \in Byte, Arrives(b, c)
  PROVE  OrderInv'
<1> DEFINE L == Len(ring)
<1>1. /\ sent' = sent /\ L \in Nat /\ Len(ring') = L + 1
      /\ \A i \in 1..L : ring'[i] = ring[i]
      /\ ring'[L + 1] = c
  BY LineTyped DEF Shift, Arrives
<1>2. c.frame = Head(out).frame /\ c.at = Head(out).at /\ c.len = Head(out).len
  BY DEF Arrives, SameBut
<1> HIDE DEF L
<1>3. \A i \in 1..L + 1 : i \in 1..L \/ i = L + 1
  BY <1>1
<1>4. \A i \in 1..L : Earlier(ring[i], c)
  BY <1>2 DEF OrderInv, Earlier, L, Shift
<1>5. /\ sent > 0 /\ c.frame = sent /\ taken < sent
      /\ out' # <<>> => Earlier(c, Head(out'))
      /\ out' # <<>> => \A i \in 1..L : Earlier(ring[i], Head(out'))
  BY <1>2, OrderShifts DEF Earlier, L
<1>6. \A i \in 1..L + 1 : ring'[i].at # 0 => taken < ring'[i].frame /\ ring'[i].frame <= sent
  <2> SUFFICES ASSUME NEW i \in 1..L + 1, ring'[i].at # 0 PROVE taken < ring'[i].frame /\ ring'[i].frame <= sent
    OBVIOUS
  <2>1. CASE i \in 1..L
    BY <1>1, <2>1 DEF OrderInv, L
  <2>2. CASE i = L + 1
    BY <1>1, <1>5, <2>2, LineTyped, BoundsTyped
  <2> QED
    BY <1>3, <2>1, <2>2
<1>7. \A i, j \in 1..L + 1 : i < j => Earlier(ring'[i], ring'[j])
  <2> SUFFICES ASSUME NEW i \in 1..L + 1, NEW j \in 1..L + 1, i < j PROVE Earlier(ring'[i], ring'[j])
    OBVIOUS
  <2>1. i \in 1..L /\ (j \in 1..L \/ j = L + 1)
    BY <1>1
  <2>2. CASE j \in 1..L
    BY <1>1, <2>1, <2>2 DEF OrderInv, L
  <2>3. CASE j = L + 1
    BY <1>1, <1>4, <2>1, <2>3
  <2> QED
    BY <2>1, <2>2, <2>3
<1>8. out' # <<>> => \A i \in 1..L + 1 : Earlier(ring'[i], Head(out'))
  <2> SUFFICES ASSUME out' # <<>>, NEW i \in 1..L + 1 PROVE Earlier(ring'[i], Head(out'))
    OBVIOUS
  <2>1. CASE i \in 1..L
    BY <1>1, <1>5, <2>1
  <2>2. CASE i = L + 1
    BY <1>1, <1>5, <2>2
  <2> QED
    BY <1>3, <2>1, <2>2
<1> QED
  BY <1>1, <1>5, <1>6, <1>7, <1>8 DEF OrderInv

LEMMA OrderAfterNoise ==
  ASSUME LineInv, OrderInv, UNCHANGED lineVars, UNCHANGED taken, NEW c \in Byte, Arrives(Noise, c)
  PROVE  OrderInv'
<1> DEFINE L == Len(ring)
<1>1. /\ sent' = sent /\ out' = out /\ L \in Nat /\ Len(ring') = L + 1
      /\ \A i \in 1..L : ring'[i] = ring[i]
      /\ ring'[L + 1] = c
  BY LineTyped DEF lineVars, Arrives
<1>2. c.at = 0
  BY DEF Arrives, SameBut, Noise
<1> HIDE DEF L
<1>3. \A i \in 1..L + 1 : i \in 1..L \/ i = L + 1
  BY <1>1
<1>4. \A i \in 1..L + 1 : ring'[i].at # 0 => taken < ring'[i].frame /\ ring'[i].frame <= sent
  BY <1>1, <1>2, <1>3 DEF OrderInv, L
<1>5. \A i, j \in 1..L + 1 : i < j => Earlier(ring'[i], ring'[j])
  <2> SUFFICES ASSUME NEW i \in 1..L + 1, NEW j \in 1..L + 1, i < j PROVE Earlier(ring'[i], ring'[j])
    OBVIOUS
  <2>1. i \in 1..L /\ (j \in 1..L \/ j = L + 1)
    BY <1>1
  <2>2. CASE j \in 1..L
    BY <1>1, <2>1, <2>2 DEF OrderInv, L
  <2>3. CASE j = L + 1
    BY <1>1, <1>2, <2>3 DEF Earlier
  <2> QED
    BY <2>1, <2>2, <2>3
<1>6. out' # <<>> => \A i \in 1..L + 1 : Earlier(ring'[i], Head(out'))
  <2> SUFFICES ASSUME out' # <<>>, NEW i \in 1..L + 1 PROVE Earlier(ring'[i], Head(out'))
    OBVIOUS
  <2>1. CASE i \in 1..L
    BY <1>1, <2>1 DEF OrderInv, L
  <2>2. CASE i = L + 1
    BY <1>1, <1>2, <2>2 DEF Earlier
  <2> QED
    BY <1>3, <2>1, <2>2
<1> QED
  BY <1>1, <1>4, <1>5, <1>6 DEF OrderInv

LEMMA OrderAfterFed ==
  ASSUME LineInv, OrderInv, Dequeue, UNCHANGED lineVars,
         \/ UNCHANGED taken
         \/ taken' = Fed.frame /\ Fed.at = Fed.len + 5 /\ \A i \in 1..Len(ring) : ring[i].at <= ring[i].len + 5
  PROVE  OrderInv'
<1> DEFINE L == Len(ring)
<1>1. /\ sent' = sent /\ out' = out /\ L \in Nat /\ L > 0 /\ Len(ring') = L - 1 /\ Fed = ring[1]
      /\ \A i \in 1..L - 1 : ring'[i] = ring[i + 1]
  BY LineTyped, DequeueSteps DEF lineVars
<1> HIDE DEF L
<1>2. \A i \in 1..L - 1 : i + 1 \in 1..L /\ i \in Int /\ 1 < i + 1
  BY <1>1
<1>3. \A i, j \in 1..L - 1 : i < j => Earlier(ring'[i], ring'[j])
  <2> SUFFICES ASSUME NEW i \in 1..L - 1, NEW j \in 1..L - 1, i < j PROVE Earlier(ring'[i], ring'[j])
    OBVIOUS
  <2>1. i + 1 \in 1..L /\ j + 1 \in 1..L /\ i + 1 < j + 1
    BY <1>1
  <2>2. Earlier(ring[i + 1], ring[j + 1])
    BY <2>1 DEF OrderInv, L
  <2> QED
    BY <1>1, <2>2
<1>4. out # <<>> => \A i \in 1..L - 1 : Earlier(ring'[i], Head(out))
  BY <1>1, <1>2 DEF OrderInv, L
<1>5. CASE UNCHANGED taken
  <2>1. \A i \in 1..L - 1 : ring'[i].at # 0 => taken < ring'[i].frame /\ ring'[i].frame <= sent
    BY <1>1, <1>2 DEF OrderInv, L
  <2> QED
    BY <1>1, <1>3, <1>4, <1>5, <2>1 DEF OrderInv
<1>6. CASE taken' = Fed.frame /\ Fed.at = Fed.len + 5 /\ \A i \in 1..L : ring[i].at <= ring[i].len + 5
  <2>1. 1 \in 1..L /\ Fed.frame \in Nat /\ Fed.len \in Nat /\ Fed.at # 0 /\ Fed.at \in Nat
    BY <1>1, <1>6, RingTyped DEF L
  <2>2. Fed.frame <= sent /\ taken' <= sent
    BY <1>1, <1>6, <2>1 DEF OrderInv, L
  <2>3. ASSUME NEW i \in 1..L - 1, ring'[i].at # 0
        PROVE  taken' < ring'[i].frame /\ ring'[i].frame <= sent
    <3>1. i + 1 \in 1..L /\ 1 < i + 1 /\ ring'[i] = ring[i + 1]
      BY <1>1, <1>2
    <3>2. Earlier(Fed, ring[i + 1]) /\ ring[i + 1].frame <= sent /\ ring[i + 1].at <= ring[i + 1].len + 5
      BY <1>1, <1>6, <2>1, <2>3, <3>1 DEF OrderInv, L
    <3>3. ring[i + 1].frame \in Nat /\ ring[i + 1].at \in Nat /\ ring[i + 1].len \in Nat
      BY <3>1, RingTyped DEF L
    <3>4. Fed.frame < ring[i + 1].frame
      BY <1>6, <2>1, <2>3, <3>1, <3>2, <3>3 DEF Earlier
    <3> QED
      BY <1>6, <3>1, <3>2, <3>4
  <2>4. out # <<>> => taken' < sent
    <3> SUFFICES ASSUME out # <<>> PROVE taken' < sent
      OBVIOUS
    <3>1. PICK n \in 0..MaxPayload : \E a \in 1..n + 6 : Rest(sent, out, n, a)
      BY DEF LineInv, OutInv
    <3>2. PICK a \in 1..n + 6 : Rest(sent, out, n, a)
      BY <3>1
    <3>3. Head(out) = Genuine(sent, a, n) /\ a # n + 6 /\ sent \in Nat
      BY <3>2, LineTyped, RestFacts, BoundsTyped
    <3>4. a \in Nat /\ n \in Nat /\ a < n + 6 /\ a # 0
      BY <3>2, <3>3
    <3>5. Genuine(sent, a, n).frame = sent /\ Genuine(sent, a, n).at = a /\ Genuine(sent, a, n).len = n
      BY <3>3, <3>4, GenuineTyped
    <3>6. Earlier(Fed, Head(out))
      BY <1>1, <2>1 DEF OrderInv, L
    <3>7. Head(out).frame = sent /\ Head(out).at = a /\ Head(out).len = n
      BY <3>3, <3>5
    <3> QED
      BY <1>6, <2>1, <2>2, <3>3, <3>4, <3>6, <3>7 DEF Earlier
  <2> QED
    BY <1>1, <1>3, <1>4, <2>2, <2>3, <2>4 DEF OrderInv
<1> QED
  BY <1>5, <1>6 DEF L

-----------------------------------------------------------------------------
(***************************************************************************)
(* The chain of the bytes received.                                        *)
(***************************************************************************)
LEMMA AtTyped ==
  ASSUME LineInv
  PROVE  \A i \in 0..Len(ring) : At(i) \in Byte
<1> SUFFICES ASSUME NEW i \in 0..Len(ring) PROVE At(i) \in Byte
  OBVIOUS
<1>1. last \in Byte /\ Len(ring) \in Nat
  BY LineTyped DEF ParserTypes
<1>2. i # 0 => i \in 1..Len(ring)
  BY <1>1
<1>3. i # 0 => ring[i] \in Byte
  BY <1>2, RingTyped
<1> QED
  BY <1>1, <1>3 DEF At

LEMMA BytesLater ==
  ASSUME NEW b \in Byte, ByteInv(b), damaged \in Nat, damaged' \in Nat, damaged <= damaged'
  PROVE  ByteInv(b)'
<1>1. b.stamp \in Nat
  BY ByteTyped
<1> QED
  BY <1>1 DEF ByteInv

LEMMA ChainStarts == Init => ChainInv
<1> SUFFICES ASSUME Init PROVE ChainInv
  OBVIOUS
<1>1. Len(ring) = 0 /\ At(0) = Genuine(0, 5, 0) /\ out = <<>> /\ sent = 0 /\ damaged = 0
  BY DEF Init, At, Before
<1>2. ByteInv(Genuine(0, 5, 0))
  BY <1>1 DEF ByteInv, Genuine, Upto5
<1>3. Pos = 0
  BY <1>1 DEF Pos, Place
<1>4. SenderLinked(Genuine(0, 5, 0))
  BY <1>1, <1>3 DEF SenderLinked, SenderFollows, Genuine
<1>5. \A i \in 0..0 : i = 0
  OBVIOUS
<1>6. \A i \in 0..0 - 1 : FALSE
  OBVIOUS
<1> QED
  BY <1>1, <1>2, <1>4, <1>5, <1>6 DEF ChainInv

\* The ring does not change.
LEMMA ChainAfterLoss ==
  ASSUME LineInv, ChainInv, UNCHANGED <<ring, last>>, damaged' \in Nat, damaged <= damaged',
         NEW z, z = At(Len(ring)), SenderLinked(z)'
  PROVE  ChainInv'
<1>1. \A i \in 0..Len(ring) : At(i)' = At(i)
  BY DEF At
<1>2. Len(ring') = Len(ring) /\ Len(ring) \in Nat /\ damaged \in Nat
  BY LineTyped
<1>3. \A i \in 0..Len(ring) : ByteInv(At(i))'
  <2> SUFFICES ASSUME NEW i \in 0..Len(ring) PROVE ByteInv(At(i))'
    OBVIOUS
  <2>1. PICK b : b = At(i)
    OBVIOUS
  <2>2. b \in Byte /\ ByteInv(b)
    BY <2>1, AtTyped DEF ChainInv
  <2>3. ByteInv(b)'
    BY <1>2, <2>2, BytesLater
  <2>4. At(i)' = b
    BY <1>1, <2>1
  <2> QED
    BY <2>3, <2>4 DEF ByteInv
<1>4. \A i \in 0..Len(ring) - 1 : Linked(At(i), At(i + 1))'
  <2> SUFFICES ASSUME NEW i \in 0..Len(ring) - 1 PROVE Linked(At(i), At(i + 1))'
    OBVIOUS
  <2>1. i \in 0..Len(ring) /\ i + 1 \in 0..Len(ring)
    BY <1>2
  <2>2. At(i)' = At(i) /\ At(i + 1)' = At(i + 1) /\ Linked(At(i), At(i + 1))
    BY <1>1, <2>1 DEF ChainInv
  <2> QED
    BY <2>2 DEF Linked, Follows
<1>5. SenderLinked(At(Len(ring)))'
  <2>1. At(Len(ring))' = z
    BY <1>1, <1>2
  <2> QED
    BY <2>1 DEF SenderLinked, SenderFollows, Follows
<1> QED
  BY <1>2, <1>3, <1>4, <1>5 DEF ChainInv

\* The ring gets one byte.
LEMMA ChainAfterArrival ==
  ASSUME LineInv, ChainInv, UNCHANGED last, damaged' \in Nat, damaged <= damaged',
         NEW b, NEW c \in Byte, Arrives(b, c), ByteInv(c)', SenderLinked(c)',
         NEW z, z = At(Len(ring)), Linked(z, c)
  PROVE  ChainInv'
<1>1. PICK L : L = Len(ring)
  OBVIOUS
<1>2. /\ L \in Nat /\ Len(ring') = L + 1 /\ damaged \in Nat
      /\ \A i \in 1..L : ring'[i] = ring[i]
      /\ ring'[L + 1] = c
  BY <1>1, LineTyped DEF Arrives
<1>3. \A i \in 0..L : At(i)' = At(i)
  BY <1>2 DEF At
<1>4. At(L + 1)' = c
  BY <1>2 DEF At
<1>5. \A i \in 0..L + 1 : ByteInv(At(i))'
  <2> SUFFICES ASSUME NEW i \in 0..L + 1 PROVE ByteInv(At(i))'
    OBVIOUS
  <2>1. CASE i \in 0..L
    <3>1. PICK d : d = At(i)
      OBVIOUS
    <3>2. d \in Byte /\ ByteInv(d)
      BY <1>1, <2>1, <3>1, AtTyped DEF ChainInv
    <3>3. ByteInv(d)'
      BY <1>2, <3>2, BytesLater
    <3>4. At(i)' = d
      BY <1>3, <2>1, <3>1
    <3> QED
      BY <3>3, <3>4 DEF ByteInv
  <2>2. CASE i = L + 1
    BY <1>4, <2>2 DEF ByteInv
  <2>3. i \in 0..L \/ i = L + 1
    BY <1>2
  <2> QED
    BY <2>1, <2>2, <2>3
<1>6. \A i \in 0..L : Linked(At(i), At(i + 1))'
  <2> SUFFICES ASSUME NEW i \in 0..L PROVE Linked(At(i), At(i + 1))'
    OBVIOUS
  <2>1. CASE i \in 0..L - 1
    <3>1. i \in 0..L /\ i + 1 \in 0..L
      BY <1>2, <2>1
    <3>2. At(i)' = At(i) /\ At(i + 1)' = At(i + 1) /\ Linked(At(i), At(i + 1))
      BY <1>1, <1>3, <2>1, <3>1 DEF ChainInv
    <3> QED
      BY <3>2 DEF Linked, Follows
  <2>2. CASE i = L
    <3>1. At(i)' = z /\ At(i + 1)' = c
      BY <1>1, <1>2, <1>3, <1>4, <2>2
    <3> QED
      BY <3>1 DEF Linked, Follows
  <2>3. i \in 0..L - 1 \/ i = L
    BY <1>2
  <2> QED
    BY <2>1, <2>2, <2>3
<1>7. Len(ring') - 1 = L
  BY <1>2
<1>8. SenderLinked(At(Len(ring)))'
  <2>1. At(Len(ring))' = c
    BY <1>2 DEF At
  <2> QED
    BY <2>1 DEF SenderLinked, SenderFollows, Follows
<1> QED
  BY <1>2, <1>5, <1>6, <1>7, <1>8 DEF ChainInv

\* The ring gives one byte.
LEMMA ChainAfterFed ==
  ASSUME LineInv, ChainInv, Dequeue, UNCHANGED lineVars, UNCHANGED damaged
  PROVE  ChainInv'
<1> DEFINE L == Len(ring)
<1>1. /\ L \in Nat /\ L > 0 /\ Len(ring') = L - 1
      /\ \A i \in 1..L - 1 : ring'[i] = ring[i + 1]
      /\ last' = ring[1]
  BY LineTyped, DequeueSteps
<1> HIDE DEF L
<1>2. \A i \in 0..L - 1 : At(i)' = At(i + 1)
  BY <1>1 DEF At
<1>3. \A i \in 0..L - 1 : i + 1 \in 0..L
  BY <1>1
<1>4. \A i \in 0..L - 1 : ByteInv(At(i))'
  BY <1>2, <1>3 DEF ChainInv, ByteInv, L
<1>5. \A i \in 0..L - 2 : Linked(At(i), At(i + 1))'
  <2> SUFFICES ASSUME NEW i \in 0..L - 2 PROVE Linked(At(i), At(i + 1))'
    OBVIOUS
  <2>1. i \in 0..L - 1 /\ i + 1 \in 0..L - 1
    BY <1>1
  <2>2. At(i)' = At(i + 1) /\ At(i + 1)' = At((i + 1) + 1) /\ Linked(At(i + 1), At((i + 1) + 1))
    BY <1>2, <2>1 DEF ChainInv, L
  <2> QED
    BY <2>2 DEF Linked, Follows
<1>6. SenderLinked(At(Len(ring)))'
  <2>1. L - 1 \in 0..L - 1 /\ (L - 1) + 1 = L
    BY <1>1
  <2>2. At(Len(ring))' = At(L)
    BY <1>1, <1>2, <2>1
  <2>3. SenderLinked(At(L)) /\ Pos' = Pos
    BY DEF ChainInv, L, Pos, lineVars
  <2> QED
    BY <2>2, <2>3 DEF SenderLinked, SenderFollows, Follows, lineVars
<1>7. Len(ring') - 1 = L - 2
  BY <1>1
<1> QED
  BY <1>1, <1>4, <1>5, <1>6, <1>7 DEF ChainInv

LEMMA BuildLinks ==
  ASSUME LineInv, ChainInv, NEW k \in Payloads, Build(k)
  PROVE  ChainInv'
<1>1. PICK z : z = At(Len(ring))
  OBVIOUS
<1>2. SenderLinked(z) /\ UNCHANGED <<ring, last>> /\ damaged' = damaged /\ damaged \in Nat
  BY <1>1, LineTyped DEF ChainInv, Build, parserVars
<1>3. out = <<>> /\ sent' = sent + 1 /\ Pos' = Pos /\ sent \in Nat
  BY BuildSteps, LineTyped, BoundsTyped DEF Build, LineInv
<1>4. PICK n \in 0..MaxPayload : out' # <<>> /\ Head(out') = Genuine(sent', 1, n)
  BY BuildSteps DEF LineInv
<1>5. Head(out').frame = sent + 1 /\ Head(out').at = 1
  BY <1>3, <1>4, GenuineTyped
<1>6. SenderLinked(z)'
  BY <1>2, <1>3, <1>4, <1>5 DEF SenderLinked, SenderFollows, Follows
<1> QED
  BY <1>1, <1>2, <1>6, ChainAfterLoss

\* What a byte that leaves the sender means for the last byte received.
LEMMA Shifts ==
  ASSUME LineInv, Shift
  PROVE  /\ Pos \in Nat /\ Pos' \in Nat /\ Pos <= Pos' /\ Pos' <= Pos + 1
         /\ Head(out) \in Byte /\ Head(out).ok /\ Head(out).at # 0 /\ Head(out).at <= Head(out).len + 5
         /\ Pos' = 5 * (Head(out).frame - 1) + Upto5(Head(out).at)
         /\ \A b : b.frame = Head(out).frame /\ b.at = Head(out).at /\ b.len = Head(out).len => SenderFollows(b)'
<1>1. PICK n \in 0..MaxPayload : \E a \in 1..n + 5 : Leaves(sent, out, out', n, a)
  BY ShiftTyped
<1>2. PICK a \in 1..n + 5 : Leaves(sent, out, out', n, a)
  BY <1>1
<1>3. sent \in Nat /\ a \in Nat /\ a >= 1 /\ a <= n + 5 /\ n \in 0..MaxPayload /\ n \in Nat /\ a + 1 \in Nat
  BY <1>2, LineTyped, BoundsTyped
<1>4. /\ Head(out) = Genuine(sent, a, n)
      /\ Place(sent, out) = 5 * (sent - 1) + Upto5(a - 1)
      /\ Place(sent, out') = 5 * (sent - 1) + Upto5(a)
      /\ out' = <<>> <=> a = n + 5
      /\ out' # <<>> => Head(out') = Genuine(sent, a + 1, n)
  BY <1>2 DEF Leaves
<1>5. Pos = 5 * (sent - 1) + Upto5(a - 1) /\ Pos' = 5 * (sent - 1) + Upto5(a) /\ Pos \in Nat /\ Pos' \in Nat
  BY <1>4, ShiftTyped, PosTyped, LineTyped, BoundsTyped DEF Pos, Shift, LineInv
<1>6. Upto5(a - 1) \in Nat /\ Upto5(a) \in Nat /\ Upto5(a - 1) <= Upto5(a) /\ Upto5(a) <= Upto5(a - 1) + 1
  BY <1>3 DEF Upto5
<1>7. Pos <= Pos' /\ Pos' <= Pos + 1
  BY <1>3, <1>5, <1>6
<1>8. Head(out) \in Byte /\ Head(out).frame = sent /\ Head(out).at = a /\ Head(out).len = n /\ Head(out).ok
  BY <1>3, <1>4, GenuineTyped
<1>9. ASSUME NEW b, b.frame = Head(out).frame /\ b.at = Head(out).at /\ b.len = Head(out).len
      PROVE  SenderFollows(b)'
  <2>1. b.frame = sent /\ b.at = a /\ b.len = n /\ sent' = sent
    BY <1>8, <1>9 DEF Shift
  <2>2. CASE out' = <<>>
    BY <1>4, <2>1, <2>2 DEF SenderFollows
  <2>3. CASE out' # <<>>
    <3>1. Head(out').frame = sent /\ Head(out').at = a + 1 /\ Head(out').len = n /\ a < n + 5
      BY <1>3, <1>4, <2>3, GenuineTyped
    <3> QED
      BY <2>1, <2>3, <3>1 DEF SenderFollows, Follows
  <2> QED
    BY <2>2, <2>3
<1> QED
  BY <1>3, <1>5, <1>7, <1>8, <1>9

LEMMA ReceivesLinks ==
  ASSUME LineInv, ChainInv, Receives
  PROVE  ChainInv'
<1>1. Shift
  BY ReceivesTyped
<1>2. PICK c \in Byte : Arrives(Head(out), c)
  BY ReceivesTyped
<1>3. PICK z : z = At(Len(ring))
  OBVIOUS
<1>4. z \in Byte /\ ByteInv(z) /\ SenderLinked(z)
  BY <1>3, AtTyped, LineTyped DEF ChainInv
<1>5. damaged' = damaged /\ damaged \in Nat /\ UNCHANGED last
  BY LineTyped DEF Receives, parserVars
<1>6. /\ c.frame = Head(out).frame /\ c.at = Head(out).at /\ c.len = Head(out).len
      /\ c.ok = Head(out).ok /\ c.stamp = damaged /\ c.pos = Pos'
  BY <1>2, <1>5 DEF Arrives, SameBut
<1>7. /\ Pos \in Nat /\ Pos' \in Nat /\ Pos <= Pos' /\ Pos' <= Pos + 1
      /\ c.ok /\ c.at # 0 /\ c.at <= c.len + 5
      /\ Pos' = 5 * (c.frame - 1) + Upto5(c.at)
      /\ SenderFollows(c)'
  BY <1>1, <1>6, Shifts
<1>8. ByteInv(c)'
  BY <1>5, <1>6, <1>7 DEF ByteInv
<1>9. SenderLinked(c)'
  BY <1>5, <1>6, <1>7 DEF SenderLinked
<1>10. Linked(z, c)
  <2>1. z.stamp \in Nat /\ z.stamp <= damaged /\ z.pos \in Nat
    BY <1>4, ByteTyped DEF ByteInv
  <2>2. z.pos <= Pos /\ Pos <= z.pos + (damaged - z.stamp)
    BY <1>4 DEF SenderLinked
  <2>3. z.pos <= c.pos /\ c.pos <= z.pos + 1 + (c.stamp - z.stamp)
    BY <1>5, <1>6, <1>7, <2>1, <2>2
  <2>4. z.stamp = c.stamp /\ z.at # 0 => Follows(z, c)
    BY <1>1, <1>4, <1>6 DEF SenderLinked, SenderFollows, Follows, Shift
  <2> QED
    BY <1>6, <1>7, <2>1, <2>3, <2>4 DEF Linked
<1> QED
  BY <1>2, <1>3, <1>5, <1>8, <1>9, <1>10, ChainAfterArrival

LEMMA LosesLinks ==
  ASSUME LineInv, ChainInv, Overflows \/ LosesByte
  PROVE  ChainInv'
<1>1. Shift
  BY LosesTyped
<1>2. PICK z : z = At(Len(ring))
  OBVIOUS
<1>3. z \in Byte /\ ByteInv(z) /\ SenderLinked(z)
  BY <1>2, AtTyped, LineTyped DEF ChainInv
<1>4. damaged' = damaged + 1 /\ damaged \in Nat /\ UNCHANGED <<ring, last>>
  BY LineTyped DEF Overflows, LosesByte, parserVars
<1>5. Pos \in Nat /\ Pos' \in Nat /\ Pos <= Pos' /\ Pos' <= Pos + 1
  BY <1>1, Shifts
<1>6. z.stamp \in Nat /\ z.stamp <= damaged /\ z.pos \in Nat
  BY <1>3, ByteTyped DEF ByteInv
<1>7. z.pos <= Pos /\ Pos <= z.pos + (damaged - z.stamp)
  BY <1>3 DEF SenderLinked
<1>8. z.pos <= Pos' /\ Pos' <= z.pos + (damaged' - z.stamp) /\ z.stamp # damaged'
  BY <1>4, <1>5, <1>6, <1>7
<1>9. SenderLinked(z)'
  BY <1>8 DEF SenderLinked
<1>10. damaged' \in Nat /\ damaged <= damaged'
  BY <1>4
<1> QED
  BY <1>2, <1>4, <1>9, <1>10, ChainAfterLoss

LEMMA GarblesLinks ==
  ASSUME LineInv, ChainInv, GarblesByte
  PROVE  ChainInv'
<1>1. Shift
  BY GarblesTyped
<1>2. PICK c \in Byte : Arrives(Broken(Head(out)), c)
  BY GarblesTyped
<1>3. PICK z : z = At(Len(ring))
  OBVIOUS
<1>4. z \in Byte /\ ByteInv(z) /\ SenderLinked(z)
  BY <1>3, AtTyped, LineTyped DEF ChainInv
<1>5. damaged' = damaged + 1 /\ damaged \in Nat /\ UNCHANGED last
  BY LineTyped DEF GarblesByte, parserVars
<1>6. Head(out) \in Byte
  BY <1>1, Shifts
<1>7. /\ c.frame = Head(out).frame /\ c.at = Head(out).at /\ c.len = Head(out).len /\ ~c.ok
      /\ c.stamp = damaged + 1 /\ c.pos = Pos'
  BY <1>2, <1>5, <1>6, BrokenTyped DEF Arrives, SameBut
<1>8. /\ Pos \in Nat /\ Pos' \in Nat /\ Pos <= Pos' /\ Pos' <= Pos + 1
      /\ c.at # 0 /\ c.at <= c.len + 5
      /\ Pos' = 5 * (c.frame - 1) + Upto5(c.at)
      /\ SenderFollows(c)'
  BY <1>1, <1>7, Shifts
<1>9. ByteInv(c)'
  BY <1>5, <1>7, <1>8 DEF ByteInv
<1>10. SenderLinked(c)'
  BY <1>5, <1>7, <1>8 DEF SenderLinked
<1>11. Linked(z, c)
  <2>1. z.stamp \in Nat /\ z.stamp <= damaged /\ z.pos \in Nat
    BY <1>4, ByteTyped DEF ByteInv
  <2>2. z.pos <= Pos /\ Pos <= z.pos + (damaged - z.stamp)
    BY <1>4 DEF SenderLinked
  <2>3. z.pos <= c.pos /\ c.pos <= z.pos + 1 + (c.stamp - z.stamp) /\ z.stamp # c.stamp /\ z.stamp <= c.stamp
    BY <1>5, <1>7, <1>8, <2>1, <2>2
  <2> QED
    BY <2>3 DEF Linked
<1>12. damaged' \in Nat /\ damaged <= damaged'
  BY <1>5
<1> QED
  BY <1>2, <1>3, <1>5, <1>9, <1>10, <1>11, <1>12, ChainAfterArrival

LEMMA AddsLinks ==
  ASSUME LineInv, ChainInv, AddsByte
  PROVE  ChainInv'
<1>1. UNCHANGED lineVars /\ Pos' = Pos /\ Pos \in Nat
  BY AddsTyped DEF AddsByte
<1>2. PICK c \in Byte : Arrives(Noise, c)
  BY AddsTyped
<1>3. PICK z : z = At(Len(ring))
  OBVIOUS
<1>4. z \in Byte /\ ByteInv(z) /\ SenderLinked(z)
  BY <1>3, AtTyped, LineTyped DEF ChainInv
<1>5. damaged' = damaged + 1 /\ damaged \in Nat /\ UNCHANGED last
  BY LineTyped DEF AddsByte, parserVars
<1>6. c.at = 0 /\ c.len = 0 /\ ~c.ok /\ c.stamp = damaged + 1 /\ c.pos = Pos
  BY <1>1, <1>2, <1>5 DEF Arrives, SameBut, Noise
<1>7. ByteInv(c)'
  BY <1>5, <1>6 DEF ByteInv
<1>8. SenderLinked(c)'
  BY <1>1, <1>5, <1>6 DEF SenderLinked
<1>9. Linked(z, c)
  <2>1. z.stamp \in Nat /\ z.stamp <= damaged /\ z.pos \in Nat
    BY <1>4, ByteTyped DEF ByteInv
  <2>2. z.pos <= Pos /\ Pos <= z.pos + (damaged - z.stamp)
    BY <1>4 DEF SenderLinked
  <2>3. z.pos <= c.pos /\ c.pos <= z.pos + 1 + (c.stamp - z.stamp) /\ z.stamp # c.stamp /\ z.stamp <= c.stamp
    BY <1>1, <1>5, <1>6, <2>1, <2>2
  <2> QED
    BY <2>3 DEF Linked
<1>10. damaged' \in Nat /\ damaged <= damaged'
  BY <1>5
<1> QED
  BY <1>2, <1>3, <1>5, <1>7, <1>8, <1>9, <1>10, ChainAfterArrival

\* Sums over places, frames and what they cost.
LEMMA SumDelivered ==
  ASSUME NEW l \in Int, NEW t \in Int, NEW u \in Int, NEW v \in Int, v = l + (u - t - 1)
  PROVE  v - u <= l - t /\ v - u = l - t - 1
OBVIOUS

LEMMA SumInFrame ==
  ASSUME NEW D \in Int, NEW E \in Int, NEW p \in Int, NEW q \in Int, NEW A \in Int, NEW C \in Int,
         NEW B \in Int, NEW F \in Int, NEW s \in Nat, NEW x \in Nat,
         E <= D, q <= p + 1 + s, C <= A - 1, 5 * D + p + A <= 5 * B, 5 * F >= 5 * B + s + x
  PROVE  5 * E + q + C <= 5 * F
OBVIOUS

LEMMA SumStart ==
  ASSUME NEW D \in Int, NEW p \in Int, NEW q \in Int, NEW f \in Int,
         NEW B \in Int, NEW F \in Int, NEW s \in Nat, NEW x \in Nat,
         q <= p + 1 + s, 5 * D + p <= 5 * B, 5 * F >= 5 * B + s + x, q = 5 * (f - 1) + 1
  PROVE  D + f - 1 <= F
<1>1. 5 * (D + f - 1) <= 5 * F
  OBVIOUS
<1> QED
  BY <1>1

LEMMA SumHurt ==
  ASSUME NEW D \in Int, NEW p \in Int, NEW q \in Int, NEW A \in Int,
         NEW B \in Int, NEW F \in Int, NEW s \in Nat, NEW x \in Nat, NEW m \in Nat,
         q <= p + 1 + s, A <= m + 4, 5 * D + p <= 5 * B, 5 * F >= 5 * B + s + x + m + 5
  PROVE  5 * D + q + A <= 5 * F
OBVIOUS

LEMMA SumSkip ==
  ASSUME NEW D \in Int, NEW p \in Int, NEW q \in Int, NEW f \in Int, NEW u \in Nat,
         NEW B \in Int, NEW F \in Int,
         q <= p + 1, 5 * D + p <= 5 * B, 5 * F >= 5 * B, u >= 2, u <= 5, q - u = 5 * (f - 1)
  PROVE  5 * D + q <= 5 * F
<1>1. 5 * (D + f - 1) + u - 1 <= 5 * B
  OBVIOUS
<1>2. D + f - 1 < B
  BY <1>1
<1>3. 5 * (D + f - 1) + 5 <= 5 * B
  BY <1>2
<1> QED
  BY <1>3

LEMMA SumLeaves ==
  ASSUME NEW D \in Int, NEW E \in Int, NEW p \in Int, NEW q \in Int, NEW A \in Int,
         NEW C \in Int, NEW f \in Int, NEW u \in Nat,
         NEW B \in Int, NEW F \in Int, NEW s \in Nat, NEW x \in Nat, NEW m \in Nat,
         E <= D, p - u = 5 * (f - 1), q <= p + 1 + s, D + f - 1 <= B, C <= A - 1, u + A <= m + 5,
         5 * F >= 5 * B + s + x + m + 5
  PROVE  5 * E + q + C <= 5 * F
<1>1. 5 * D + 5 * (f - 1) <= 5 * B
  OBVIOUS
<1>2. 5 * E + q <= 5 * B + u + 1 + s
  BY <1>1
<1> QED
  BY <1>2

LEMMA SumDelivers ==
  ASSUME NEW D \in Int, NEW E \in Int, NEW q \in Int, NEW f \in Int, NEW B \in Int, NEW F \in Int,
         E = D - 1, q = 5 * f, D + f - 1 <= B, 5 * F >= 5 * B
  PROVE  5 * E + q <= 5 * F
<1>1. 5 * (D + f - 1) <= 5 * B
  OBVIOUS
<1> QED
  BY <1>1

LEMMA SumAhead ==
  ASSUME NEW a \in Int, NEW l \in Int, NEW e \in Int, NEW b \in Int, NEW A \in Int, NEW m \in Int,
         A = e - b + 1, e = l + 1, b = a - 3, l <= m
  PROVE  a + A <= m + 5
OBVIOUS

LEMMA SumData ==
  ASSUME NEW a \in Int, NEW l \in Int, NEW c \in Int, NEW b \in Int, NEW d \in Int,
         b = a - 3, c = a + 1, d = b + 1, a > 2, a < l + 4
  PROVE  d = c - 3 /\ c > 2 /\ c < l + 5
OBVIOUS

-----------------------------------------------------------------------------
(***************************************************************************)
(* What the disturbances pay for.                                          *)
(***************************************************************************)
LEMMA Pays ==
  ASSUME NEW k \in Nat, NEW m \in Nat, NEW h \in Nat, NEW x \in Nat, 5 * k >= m + 6
  PROVE  /\ k * h \in Nat /\ k * (h + x) \in Nat
         /\ 5 * (k * (h + x)) >= 5 * (k * h) + x
         /\ x > 0 => 5 * (k * (h + x)) >= 5 * (k * h) + x + m + 5
<1>1. PICK d \in Nat : 5 * k = m + 6 + d
  <2>1. 5 * k - m - 6 \in Nat /\ 5 * k = m + 6 + (5 * k - m - 6)
    OBVIOUS
  <2> QED
    BY <2>1
<1>2. d * x \in Nat /\ m * x \in Nat /\ k * x \in Nat /\ k * h \in Nat
  OBVIOUS
<1>3. k * (h + x) = k * h + k * x
  OBVIOUS
<1>4. 5 * (k * x) = m * x + 6 * x + d * x
  <2>1. 5 * (k * x) = (5 * k) * x
    OBVIOUS
  <2>2. (m + 6 + d) * x = m * x + 6 * x + d * x
    OBVIOUS
  <2> QED
    BY <1>1, <2>1, <2>2
<1>5. x > 0 => m * x >= m
  OBVIOUS
<1> QED
  BY <1>2, <1>3, <1>4, <1>5

LEMMA CostTyped == FramesPerHurt \in Nat /\ 5 * FramesPerHurt >= MaxPayload + 6
BY BoundsTyped DEF FramesPerHurt

\* s disturbances before the byte fed, x bytes mistaken at it.
LEMMA BudgetGrows ==
  ASSUME LineInv, last' \in Byte, NEW s \in Nat, NEW x \in Nat, last'.stamp = last.stamp + s, fooled' = fooled + x
  PROVE  /\ Budget \in Nat /\ Budget' \in Nat
         /\ 5 * Budget' >= 5 * Budget + s + x
         /\ s + x > 0 => 5 * Budget' >= 5 * Budget + s + x + MaxPayload + 5
<1> DEFINE h == last.stamp + fooled
<1>1. h \in Nat /\ last.stamp \in Nat /\ fooled \in Nat
  <2>1. last \in Byte /\ fooled \in Nat
    BY LineTyped DEF ParserTypes
  <2>2. last.stamp \in Nat
    BY <2>1, ByteTyped
  <2> QED
    BY <2>1, <2>2
<1>2. last'.stamp + fooled' = h + (s + x)
  BY <1>1
<1>3. Budget = FramesPerHurt * h
  BY DEF Budget, Bound
<1>4. Budget' = FramesPerHurt * (h + (s + x))
  BY <1>2 DEF Budget, Bound, FramesPerHurt
<1> HIDE DEF h
<1>5. s + x \in Nat
  OBVIOUS
<1>6. /\ FramesPerHurt * h \in Nat /\ FramesPerHurt * (h + (s + x)) \in Nat
      /\ 5 * (FramesPerHurt * (h + (s + x))) >= 5 * (FramesPerHurt * h) + (s + x)
      /\ s + x > 0 => 5 * (FramesPerHurt * (h + (s + x))) >= 5 * (FramesPerHurt * h) + (s + x) + MaxPayload + 5
  BY <1>1, <1>5, CostTyped, BoundsTyped, Pays
<1> QED
  BY <1>3, <1>4, <1>6, BoundsTyped

\* The byte fed after the last one, s disturbances later.
Steps(s) ==
  /\ Fed.stamp = last.stamp + s
  /\ last.pos <= Fed.pos /\ Fed.pos <= last.pos + 1 + s
  /\ s = 0 => Fed.ok
  /\ s = 0 /\ last.at # 0 => Follows(last, Fed)

LEMMA FeedFacts ==
  ASSUME LineInv, ChainInv, Dequeue
  PROVE  /\ last' = Fed /\ last \in Byte /\ Fed \in Byte
         /\ ByteInv(last) /\ ByteInv(Fed)
         /\ \E s \in Nat : Steps(s)
<1>1. /\ Len(ring) \in Nat /\ Len(ring) > 0 /\ Fed \in Byte /\ last' = Fed /\ At(0) = last
      /\ At(0 + 1) = Fed /\ At(1) = Fed
  BY LineTyped, DequeueSteps DEF At
<1>2. 0 \in 0..Len(ring) /\ 1 \in 0..Len(ring) /\ 0 \in 0..Len(ring) - 1
  BY <1>1
<1>3. ByteInv(last) /\ ByteInv(Fed) /\ Linked(last, Fed)
  BY <1>1, <1>2 DEF ChainInv
<1>4. last \in Byte
  BY LineTyped DEF ParserTypes
<1>5. last.stamp \in Nat /\ Fed.stamp \in Nat /\ last.stamp <= Fed.stamp
  BY <1>1, <1>3, <1>4, ByteTyped DEF Linked
<1> DEFINE s == Fed.stamp - last.stamp
<1>6. s \in Nat /\ Fed.stamp = last.stamp + s
  BY <1>5
<1>7. last.pos <= Fed.pos /\ Fed.pos <= last.pos + 1 + s
  BY <1>3 DEF Linked
<1>8. s = 0 => last.stamp = Fed.stamp
  BY <1>5
<1>9. Steps(s)
  BY <1>3, <1>6, <1>7, <1>8 DEF Linked, Steps
<1> QED
  BY <1>1, <1>3, <1>4, <1>6, <1>9

\* No step of the parser brings what is lost closer to what was delivered.
LEMMA Shortfall ==
  ASSUME LineInv, OrderInv, Feed
  PROVE  /\ lost - taken \in Int /\ lost' - taken' \in Int /\ lost' - taken' <= lost - taken
         /\ fooled' \in {fooled, fooled + 1}
<1>1. lost \in Nat /\ taken \in Nat /\ fooled \in Nat /\ lost' \in Nat /\ taken' \in Nat
  BY FeedTyped, LineTyped DEF LineInv, TypeOK, HistoryTypes
<1>2. CASE UNCHANGED <<taken, lost>> /\ fooled' \in {fooled, fooled + 1}
  BY <1>1, <1>2
<1>3. CASE lost' = lost + (taken' - taken - 1) /\ fooled' = fooled
  <2> DEFINE l == lost'
             u == taken'
  <2>1. l = lost + (u - taken - 1) /\ l \in Nat /\ u \in Nat
    BY <1>1, <1>3
  <2> HIDE DEF l, u
  <2>2. lost - taken \in Int /\ l - u \in Int /\ l - u <= lost - taken
    BY <1>1, <2>1, SumDelivered
  <2>3. fooled' \in {fooled, fooled + 1}
    BY <1>3
  <2> QED
    BY <2>2, <2>3 DEF l, u
<1>4. CASE FeedSync
  BY <1>2, <1>4 DEF FeedSync, countVars
<1>5. CASE FeedLenLo
  BY <1>2, <1>5 DEF FeedLenLo, countVars
<1>6. CASE FeedLenHi
  BY <1>2, <1>6 DEF FeedLenHi, countVars
<1>7. CASE FeedData
  BY <1>2, <1>7 DEF FeedData, countVars
<1>8. CASE FeedCrc
  BY <1>2, <1>3, <1>8 DEF FeedCrc, Deliver, countVars
<1> QED
  BY <1>4, <1>5, <1>6, <1>7, <1>8 DEF Feed

\* A byte inside what is taken for a frame brings its end closer.
LEMMA AheadShrinks ==
  ASSUME LineInv, Feed, state # "Sync"
  PROVE  Ahead \in Nat /\ Ahead' \in Nat /\ Ahead' <= Ahead - 1
<1>1. expected \in Nat /\ Len(buf) \in Nat /\ MaxPayload \in Nat /\ buf \in Seq(Byte) /\ state \in States
  BY LineTyped, BoundsTyped, EmptyIsLength0 DEF ParserTypes
<1>2. CASE FeedSync
  BY <1>2 DEF FeedSync
<1>3. CASE FeedLenLo
  BY <1>1, <1>3 DEF FeedLenLo, Ahead
<1>4. CASE FeedLenHi
  <2>1. PICK n \in Announced(lo, Fed) :
          IF Rejects(n) THEN state' = "Sync" /\ UNCHANGED <<expected, buf>>
          ELSE state' = "Data" /\ expected' = n + 1 /\ buf' = <<>>
    BY <1>4 DEF FeedLenHi
  <2>2. n \in 0..MaxPayload + 1
    BY <1>4, <2>1, LineTyped, ByteTyped, BoundsTyped DEF Announced, ParserTypes, IsLength
  <2>3. Ahead = MaxPayload + 3
    BY <1>4 DEF FeedLenHi, Ahead
  <2>4. CASE Rejects(n)
    BY <1>1, <2>1, <2>3, <2>4 DEF Ahead
  <2>5. CASE ~Rejects(n)
    <3>1. n <= MaxPayload /\ state' = "Data" /\ expected' = n + 1 /\ Len(buf') = 0
      BY <1>1, <2>1, <2>2, <2>5 DEF Rejects
    <3>2. Ahead' = n + 2
      BY <2>2, <3>1, <1>1 DEF Ahead
    <3> QED
      BY <1>1, <2>2, <2>3, <3>1, <3>2
  <2> QED
    BY <2>4, <2>5
<1>5. CASE FeedData
  <2>1. Fed \in Byte
    BY <1>5, LineTyped, DequeueSteps DEF FeedData
  <2>2. Len(buf') = Len(buf) + 1 /\ expected' = expected /\ state' \in {"Data", "Crc"} /\ Len(buf) < expected
    BY <1>1, <1>5, <2>1, LineTyped, AppendOf DEF FeedData, ParserTypes
  <2>3. Ahead = expected - Len(buf) + 1
    BY <1>5 DEF FeedData, Ahead
  <2>4. Ahead' = expected' - Len(buf') + 1
    BY <2>2 DEF Ahead
  <2> QED
    BY <1>1, <2>2, <2>3, <2>4
<1>6. CASE FeedCrc
  <2>1. Len(buf) = expected /\ state = "Crc" /\ state' = "Sync"
    BY <1>6, LineTyped DEF FeedCrc, ParserTypes
  <2>2. Ahead = 1 /\ Ahead' = 0
    BY <1>1, <2>1 DEF Ahead
  <2> QED
    BY <2>2
<1> QED
  BY <1>2, <1>3, <1>4, <1>5, <1>6 DEF Feed

LEMMA CostStarts == Init => CostInv
<1> SUFFICES ASSUME Init PROVE CostInv
  OBVIOUS
<1>1. lost = 0 /\ taken = 0 /\ fooled = 0 /\ last.pos = 0 /\ last.stamp = 0 /\ state = "Sync"
  BY DEF Init, Before, Genuine
<1>2. Budget = FramesPerHurt * 0 /\ Ahead = 0
  BY <1>1 DEF Budget, Bound, Ahead
<1>3. Budget = 0
  BY <1>2, CostTyped
<1> QED
  BY <1>1, <1>2, <1>3 DEF CostInv, OutOfStepCost

LEMMA CostSame ==
  ASSUME CostInv, UNCHANGED parserVars, UNCHANGED countVars, UNCHANGED fooled
  PROVE  CostInv'
BY DEF CostInv, InFrame, InStepCost, OutOfStepCost, Ahead, Budget, Bound, FramesPerHurt, parserVars, countVars

\* Out of step, inside what is taken for a frame.
LEMMA OutOfStepInFrame ==
  ASSUME LineInv, OrderInv, ChainInv, Feed, OutOfStepCost, state # "Sync"
  PROVE  OutOfStepCost'
<1>1. Dequeue
  BY DEF Feed, FeedSync, FeedLenLo, FeedLenHi, FeedData, FeedCrc
<1>2. PICK s \in Nat : Steps(s)
  BY <1>1, FeedFacts
<1>3. PICK x \in Nat : fooled' = fooled + x
  BY Shortfall, LineTyped
<1>4. /\ last' = Fed /\ last' \in Byte /\ last'.stamp = last.stamp + s /\ last.pos \in Nat
      /\ last'.pos \in Nat /\ last'.pos <= last.pos + 1 + s
  BY <1>1, <1>2, FeedFacts, ByteTyped DEF Steps
<1>5. Budget \in Nat /\ Budget' \in Nat /\ 5 * Budget' >= 5 * Budget + s + x
  BY <1>3, <1>4, BudgetGrows
<1>6. Ahead \in Nat /\ Ahead' \in Nat /\ Ahead' <= Ahead - 1
  BY AheadShrinks
<1>7. lost - taken \in Int /\ lost' - taken' \in Int /\ lost' - taken' <= lost - taken
  BY Shortfall
<1>8. 5 * (lost - taken) + last.pos + Ahead <= 5 * Budget
  BY DEF OutOfStepCost
<1> DEFINE D == lost - taken
           E == lost' - taken'
           q == last'.pos
           C == Ahead'
           F == Budget'
<1>9. D \in Int /\ E \in Int /\ E <= D /\ 5 * D + last.pos + Ahead <= 5 * Budget
  BY <1>7, <1>8
<1>10. /\ last.pos \in Nat /\ q \in Nat /\ q <= last.pos + 1 + s
       /\ Budget \in Nat /\ F \in Nat /\ 5 * F >= 5 * Budget + s + x
       /\ Ahead \in Nat /\ C \in Nat /\ C <= Ahead - 1
  BY <1>4, <1>5, <1>6
<1> HIDE DEF D, E, q, C, F
<1>11. 5 * E + q + C <= 5 * F
  BY <1>9, <1>10, SumInFrame
<1> QED
  BY <1>11 DEF E, q, C, F, OutOfStepCost

\* Out of step, a SYNC is looked for.
LEMMA OutOfStepSync ==
  ASSUME LineInv, OrderInv, ChainInv, FeedSync, OutOfStepCost
  PROVE  (InFrame /\ InStepCost)' \/ OutOfStepCost'
<1>1. Dequeue /\ Feed /\ state = "Sync" /\ UNCHANGED <<taken, lost>>
  BY DEF Feed, FeedSync, countVars
<1>2. PICK s \in Nat : Steps(s)
  BY <1>1, FeedFacts
<1>3. PICK x \in Nat : fooled' = fooled + x
  BY <1>1, Shortfall, LineTyped
<1>4. /\ last' = Fed /\ last' \in Byte /\ last'.stamp = last.stamp + s
      /\ last.pos \in Nat /\ last'.pos \in Nat /\ last.pos <= last'.pos /\ last'.pos <= last.pos + 1 + s
      /\ last'.frame \in Nat /\ last'.at \in Nat /\ last'.len \in Nat
  BY <1>1, <1>2, FeedFacts, ByteTyped, BoundsTyped DEF Steps
<1>5. /\ Budget \in Nat /\ Budget' \in Nat /\ 5 * Budget' >= 5 * Budget + s + x
      /\ s + x > 0 => 5 * Budget' >= 5 * Budget + s + x + MaxPayload + 5
  BY <1>3, <1>4, BudgetGrows
<1>6. ByteInv(Fed)
  BY <1>1, FeedFacts
<1> DEFINE D == lost - taken
           f == last'
           q == last'.pos
           F == Budget'
           C == Ahead'
<1>7. D = lost' - taken' /\ D \in Int
  BY <1>1, LineTyped
<1>8. Ahead = 0 /\ 5 * (lost - taken) + last.pos + Ahead <= 5 * Budget
  BY <1>1 DEF Ahead, OutOfStepCost
<1>9. /\ last.pos \in Nat /\ q \in Nat /\ f \in Byte /\ q = f.pos
      /\ q <= last.pos + 1 + s
      /\ f.frame \in Nat /\ f.at \in Nat /\ f.len \in Nat
      /\ f = Fed /\ ByteInv(f)
  BY <1>4, <1>6
<1>10. /\ Budget \in Nat /\ F \in Nat /\ x \in Nat /\ 5 * F >= 5 * Budget + s + x
       /\ s + x > 0 => 5 * F >= 5 * Budget + s + x + MaxPayload + 5
  BY <1>5
<1> HIDE DEF D, f, q, F, C
<1>11. 5 * D + last.pos <= 5 * Budget
  BY <1>7, <1>8, <1>9 DEF D
<1>12. CASE StartsFrame(Fed) /\ state' = "LenLo" /\ UNCHANGED fooled
  <2>1. f.ok /\ f.at = 1 /\ q = 5 * (f.frame - 1) + 1
    BY <1>9, <1>12 DEF StartsFrame, ByteInv, Upto5
  <2>2. InFrame'
    BY <1>9, <1>12, <2>1 DEF InFrame, f
  <2>3. D + f.frame - 1 <= F
    BY <1>7, <1>9, <1>10, <1>11, <2>1, SumStart
  <2>4. InStepCost'
    BY <1>7, <2>3 DEF InStepCost, f, F
  <2> QED
    BY <2>2, <2>4
<1>13. CASE s + x > 0 /\ state' \in {"Sync", "LenLo"}
  <2>1. C \in Int /\ C <= MaxPayload + 4
    BY <1>13, BoundsTyped DEF Ahead, C
  <2>2. 5 * F >= 5 * Budget + s + x + MaxPayload + 5
    BY <1>10, <1>13
  <2>3. 5 * D + q + C <= 5 * F
    BY <1>7, <1>9, <1>10, <1>11, <2>1, <2>2, BoundsTyped, SumHurt
  <2> QED
    BY <1>7, <2>3 DEF OutOfStepCost, q, C, F
<1>14. CASE s = 0 /\ ~StartsFrame(Fed) /\ UNCHANGED <<state, fooled>>
  <2>1. C = 0
    BY <1>1, <1>14 DEF Ahead, C
  <2>2. f.ok /\ f.at # 1 /\ f.at # 0
    BY <1>2, <1>9, <1>14 DEF Steps, StartsFrame, ByteInv
  <2>3. PICK u \in Nat : u >= 2 /\ u <= 5 /\ q - u = 5 * (f.frame - 1)
    <3>1. Upto5(f.at) \in Nat /\ Upto5(f.at) >= 2 /\ Upto5(f.at) <= 5
      BY <1>9, <2>2 DEF Upto5
    <3>2. q = 5 * (f.frame - 1) + Upto5(f.at)
      BY <1>9, <2>2 DEF ByteInv
    <3> QED
      BY <1>9, <3>1, <3>2
  <2>4. q <= last.pos + 1 /\ 5 * F >= 5 * Budget
    BY <1>9, <1>10, <1>14
  <2>5. 5 * D + q <= 5 * F
    <3>1. D \in Int /\ last.pos \in Int /\ q \in Int /\ f.frame \in Int /\ Budget \in Int /\ F \in Int
      BY <1>7, <1>9, <1>10
    <3> QED
      BY <1>11, <2>3, <2>4, <3>1, SumSkip
  <2>6. 5 * D + q + C <= 5 * F
    BY <1>7, <1>9, <2>1, <2>5
  <2> QED
    BY <1>7, <2>6 DEF OutOfStepCost, q, C, F
<1>15. s > 0 => s + x > 0
  BY <1>10
<1>16. fooled' = fooled + 1 => s + x > 0
  BY <1>3, LineTyped
<1> QED
  BY <1>1, <1>12, <1>13, <1>14, <1>15, <1>16 DEF FeedSync

\* In step: what is read and what is to come fit into a frame.
LEMMA FrameAhead ==
  ASSUME LineInv, ChainInv, Dequeue, InFrame
  PROVE  \E u \in Nat : last.pos - u = 5 * (last.frame - 1) /\ u + Ahead <= MaxPayload + 5
<1>1. /\ last.at \in Nat /\ last.len \in 0..MaxPayload /\ last.len \in Nat /\ last.frame \in Nat /\ last.pos \in Nat
      /\ expected \in Nat /\ Len(buf) \in Nat /\ MaxPayload \in Nat
  BY LineTyped, ByteTyped, BoundsTyped, EmptyIsLength0 DEF ParserTypes
<1>2. last.at # 0 /\ last.pos = 5 * (last.frame - 1) + Upto5(last.at)
  BY <1>1, FeedFacts DEF ByteInv, InFrame
<1>3. Upto5(last.at) \in Nat /\ Upto5(last.at) <= last.at
  BY <1>1 DEF Upto5
<1>4. last.pos - Upto5(last.at) = 5 * (last.frame - 1)
  BY <1>1, <1>2, <1>3
<1>5. last.at + Ahead <= MaxPayload + 5 /\ Ahead \in Int
  <2>1. CASE state = "LenLo" /\ last.at = 1
    BY <1>1, <2>1 DEF Ahead
  <2>2. CASE state = "LenHi" /\ last.at = 2
    BY <1>1, <2>2 DEF Ahead
  <2>3. CASE state \in {"Data", "Crc"} /\ expected = last.len + 1 /\ Len(buf) = last.at - 3
    <3> DEFINE A == Ahead
    <3>1. A = expected - Len(buf) + 1
      BY <2>3 DEF Ahead
    <3> HIDE DEF A
    <3>2. A \in Int
      BY <1>1, <3>1
    <3>3. last.at + A <= MaxPayload + 5
      <4>1. /\ last.at \in Int /\ last.len \in Int /\ expected \in Int /\ Len(buf) \in Int
            /\ MaxPayload \in Int /\ last.len <= MaxPayload
        BY <1>1
      <4>2. expected = last.len + 1 /\ Len(buf) = last.at - 3
        BY <2>3
      <4> QED
        BY <3>1, <3>2, <4>1, <4>2, SumAhead
    <3> QED
      BY <3>2, <3>3 DEF A
  <2> QED
    BY <2>1, <2>2, <2>3 DEF InFrame
<1>6. Upto5(last.at) + Ahead <= MaxPayload + 5
  BY <1>1, <1>3, <1>5
<1> QED
  BY <1>3, <1>4, <1>6

\* In step, and the line was disturbed before the byte fed.
LEMMA InStepLeaves ==
  ASSUME LineInv, OrderInv, ChainInv, Feed, InFrame, InStepCost, NEW s \in Nat, Steps(s), s > 0
  PROVE  OutOfStepCost'
<1>1. Dequeue /\ state # "Sync"
  BY DEF Feed, FeedSync, FeedLenLo, FeedLenHi, FeedData, FeedCrc, InFrame
<1>2. PICK u \in Nat : last.pos - u = 5 * (last.frame - 1) /\ u + Ahead <= MaxPayload + 5
  BY <1>1, FrameAhead
<1>3. PICK x \in Nat : fooled' = fooled + x
  BY Shortfall, LineTyped
<1>4. last' = Fed /\ last' \in Byte /\ last'.stamp = last.stamp + s /\ last.frame \in Nat
      /\ last.pos \in Nat /\ last'.pos \in Nat /\ last'.pos <= last.pos + 1 + s
  BY <1>1, FeedFacts, ByteTyped DEF Steps
<1>5. Budget \in Nat /\ Budget' \in Nat /\ (s + x > 0 => 5 * Budget' >= 5 * Budget + s + x + MaxPayload + 5)
  BY <1>3, <1>4, BudgetGrows
<1>6. s + x > 0
  OBVIOUS
<1>7. Ahead \in Nat /\ Ahead' \in Nat /\ Ahead' <= Ahead - 1
  BY <1>1, AheadShrinks
<1> DEFINE D == lost - taken
           E == lost' - taken'
           q == last'.pos
           C == Ahead'
           F == Budget'
<1>8. D \in Int /\ E \in Int /\ E <= D /\ D + last.frame - 1 <= Budget
  BY Shortfall DEF InStepCost
<1>9. q \in Nat /\ q <= last.pos + 1 + s /\ C \in Int /\ C <= Ahead - 1 /\ F \in Int
  BY <1>4, <1>5, <1>7
<1>10. 5 * F >= 5 * Budget + s + x + MaxPayload + 5
  BY <1>5, <1>6
<1> HIDE DEF D, E, q, C, F
<1>11. /\ last.pos \in Int /\ q \in Int /\ Ahead \in Int /\ last.frame \in Int
       /\ Budget \in Int /\ MaxPayload \in Nat
  BY <1>4, <1>5, <1>7, <1>9, BoundsTyped
<1>12. 5 * E + q + C <= 5 * F
  BY <1>2, <1>8, <1>9, <1>10, <1>11, SumLeaves
<1> QED
  BY <1>12 DEF E, q, C, F, OutOfStepCost

\* In step, and nothing disturbed the line: the byte fed is the next of the frame.
LEMMA InStepNext ==
  ASSUME LineInv, ChainInv, Dequeue, InFrame, Steps(0)
  PROVE  /\ Fed.ok /\ Fed.frame = last.frame /\ Fed.at = last.at + 1 /\ Fed.len = last.len
         /\ last.at \in Nat /\ last.len \in Nat /\ last.frame \in Nat /\ last.len <= MaxPayload
         /\ Fed.at <= Fed.len + 5
<1>1. /\ last.at \in Nat /\ last.len \in 0..MaxPayload /\ last.frame \in Nat /\ last.at # 0
      /\ last.at < last.len + 5
  BY FeedFacts, ByteTyped DEF ByteInv, InFrame
<1>2. Fed.ok /\ Follows(last, Fed)
  BY <1>1 DEF Steps
<1> QED
  BY <1>1, <1>2, BoundsTyped DEF Follows

\* A frame that is in step to its end is taken whole.
LEMMA InStepWhole ==
  ASSUME LineInv, ChainInv, FeedCrc, InFrame, Steps(0)
  PROVE  Whole(Fed) /\ Fed.frame = last.frame /\ Fed.at = Fed.len + 5
<1>1. Dequeue /\ state = "Crc" /\ Len(buf) = expected
  BY LineTyped DEF FeedCrc, ParserTypes
<1>2. /\ last.at = last.len + 4 /\ expected = last.len + 1 /\ last.at \in Nat
      /\ \A i \in 1..Len(buf) : buf[i].ok /\ buf[i].frame = last.frame /\ buf[i].at = i + 3
  BY <1>1, InStepNext DEF InFrame
<1>3. Fed.ok /\ Fed.frame = last.frame /\ Fed.at = last.len + 5 /\ Fed.len = last.len /\ last.len \in Nat
  BY <1>1, <1>2, InStepNext
<1>4. InPlace(Fed)
  BY <1>1, <1>2, <1>3 DEF InPlace
<1>5. Garbled(Fed) = {}
  BY <1>1, <1>2, <1>3 DEF Garbled
<1> QED
  BY <1>3, <1>4, <1>5 DEF Whole

LEMMA InStepStays ==
  ASSUME LineInv, OrderInv, ChainInv, FeedLenLo \/ FeedLenHi \/ FeedData, InFrame, InStepCost, Steps(0)
  PROVE  (InFrame /\ InStepCost)'
<1>1. Dequeue /\ UNCHANGED <<taken, lost, fooled>> /\ last' = Fed /\ Fed \in Byte
  BY FeedFacts DEF FeedLenLo, FeedLenHi, FeedData, countVars
<1> DEFINE f == last'
<1>2. /\ f = Fed /\ f.ok /\ f.frame = last.frame /\ f.at = last.at + 1 /\ f.len = last.len /\ f.stamp = last.stamp
      /\ last.at \in Nat /\ last.len \in Nat /\ last.frame \in Nat /\ last.len <= MaxPayload
  <2>1. Fed.stamp = last.stamp + 0 /\ last.stamp \in Nat
    BY <1>1, FeedFacts, ByteTyped DEF Steps
  <2> QED
    BY <1>1, <2>1, InStepNext
<1>3. Budget' = Budget
  <2>1. last'.stamp = last.stamp /\ fooled' = fooled
    BY <1>1, <1>2
  <2> QED
    BY <2>1 DEF Budget, Bound, FramesPerHurt
<1>4. InStepCost'
  BY <1>1, <1>2, <1>3 DEF InStepCost
<1>5. MaxPayload \in Nat /\ Len(buf) \in Nat /\ buf \in Seq(Byte) /\ lo \in Byte
  BY LineTyped, BoundsTyped, EmptyIsLength0 DEF ParserTypes
<1> HIDE DEF f
<1>6. CASE FeedLenLo
  <2>1. state' = "LenHi" /\ lo' = f /\ last.at = 1 /\ f.at = 2
    BY <1>1, <1>2, <1>6 DEF FeedLenLo, InFrame
  <2>2. InFrame'
    BY <1>2, <2>1 DEF InFrame, f
  <2> QED
    BY <1>4, <2>2
<1>7. CASE FeedLenHi
  <2>1. last.at = 2 /\ lo = last /\ last.ok /\ f.at = 3
    BY <1>2, <1>7 DEF FeedLenHi, InFrame
  <2>2. Announced(lo, Fed) = {last.len}
    BY <1>2, <2>1 DEF Announced, IsLength
  <2>3. ~Rejects(last.len)
    BY <1>2, <1>5 DEF Rejects
  <2>4. state' = "Data" /\ expected' = last.len + 1 /\ buf' = <<>>
    BY <1>7, <2>2, <2>3 DEF FeedLenHi
  <2>5. Len(buf') = 0
    BY <2>4
  <2>6. InFrame'
    BY <1>2, <2>1, <2>4, <2>5 DEF InFrame, f
  <2> QED
    BY <1>4, <2>6
<1>8. CASE FeedData
  <2>1. /\ last.at > 2 /\ last.at < last.len + 4 /\ expected = last.len + 1 /\ Len(buf) = last.at - 3
        /\ \A i \in 1..Len(buf) : buf[i].ok /\ buf[i].frame = last.frame /\ buf[i].at = i + 3
    <3>1. state = "Data" /\ last.at < last.len + 5
      BY <1>8 DEF FeedData, InFrame
    <3>2. /\ state = IF last.at = last.len + 4 THEN "Crc" ELSE "Data"
          /\ last.at > 2 /\ expected = last.len + 1 /\ Len(buf) = last.at - 3
          /\ \A i \in 1..Len(buf) : buf[i].ok /\ buf[i].frame = last.frame /\ buf[i].at = i + 3
      BY <3>1 DEF InFrame
    <3>3. last.at # last.len + 4
      BY <3>1, <3>2
    <3>4. last.at < last.len + 4
      BY <1>2, <3>1, <3>3
    <3> QED
      BY <3>2, <3>4
  <2> DEFINE b == buf'
  <2>2. b = Append(buf, Fed) /\ expected' = expected /\ state' = IF Len(b) >= expected THEN "Crc" ELSE "Data"
    BY <1>8 DEF FeedData
  <2> HIDE DEF b
  <2>3. Len(b) = Len(buf) + 1 /\ (\A i \in 1..Len(buf) : b[i] = buf[i]) /\ b[Len(buf) + 1] = Fed
    BY <1>1, <1>5, <2>2, AppendOf
  <2>4. Len(b) = f.at - 3 /\ f.at > 2 /\ f.at < f.len + 5
    <3>1. f.at \in Int /\ Len(b) \in Int /\ last.at \in Int /\ last.len \in Int /\ Len(buf) \in Int
      BY <1>2, <1>5, <2>3
    <3>2. Len(b) = f.at - 3 /\ f.at > 2 /\ f.at < last.len + 5
      BY <1>2, <2>1, <2>3, <3>1, SumData
    <3> QED
      BY <1>2, <3>2
  <2>5. state' = IF f.at = f.len + 4 THEN "Crc" ELSE "Data"
    BY <1>2, <2>1, <2>2, <2>4
  <2>6. \A i \in 1..Len(b) : b[i].ok /\ b[i].frame = f.frame /\ b[i].at = i + 3
    <3> SUFFICES ASSUME NEW i \in 1..Len(b) PROVE b[i].ok /\ b[i].frame = f.frame /\ b[i].at = i + 3
      OBVIOUS
    <3>1. CASE i \in 1..Len(buf)
      BY <1>2, <2>1, <2>3, <3>1
    <3>2. CASE i = Len(buf) + 1
      BY <1>2, <2>1, <2>3, <3>2
    <3> QED
      BY <1>5, <2>3, <3>1, <3>2
  <2>7. expected' = f.len + 1
    BY <1>2, <2>1, <2>2
  <2>8. InFrame'
    BY <1>2, <2>4, <2>5, <2>6, <2>7 DEF InFrame, f, b
  <2> QED
    BY <1>4, <2>8
<1> QED
  BY <1>6, <1>7, <1>8

\* What a delivered frame is.
LEMMA Delivered ==
  ASSUME LineInv, ChainInv, FeedCrc, Whole(Fed)
  PROVE  /\ taken' = Fed.frame /\ lost' = lost + (Fed.frame - taken - 1) /\ UNCHANGED <<fooled, invented>>
         /\ last' = Fed /\ Fed \in Byte /\ Fed.frame \in Nat /\ Fed.pos \in Nat
         /\ Fed.at = Fed.len + 5 /\ Fed.at # 0
         /\ Fed.pos = 5 * Fed.frame
<1>1. Dequeue /\ Deliver(Fed.frame)
  BY DEF FeedCrc
<1>2. /\ last' = Fed /\ Fed \in Byte /\ Fed.frame \in Nat /\ Fed.pos \in Nat /\ Fed.len \in Nat
      /\ Fed.at \in Nat /\ ByteInv(Fed)
  BY <1>1, FeedFacts, ByteTyped, BoundsTyped
<1>3. expected \in Nat /\ Fed.at = expected + 4 /\ Fed.len = expected - 1
  BY LineTyped, BoundsTyped DEF ParserTypes, Whole, InPlace
<1>4. Fed.at = Fed.len + 5 /\ Fed.at # 0 /\ Upto5(Fed.at) = 5
  BY <1>2, <1>3 DEF Upto5
<1>5. Fed.pos = 5 * (Fed.frame - 1) + 5
  BY <1>2, <1>4 DEF ByteInv
<1>6. Fed.pos = 5 * Fed.frame
  BY <1>2, <1>5
<1> QED
  BY <1>1, <1>2, <1>4, <1>6 DEF Deliver

LEMMA InStepDelivers ==
  ASSUME LineInv, OrderInv, ChainInv, FeedCrc, InFrame, InStepCost, Steps(0)
  PROVE  OutOfStepCost'
<1>1. Whole(Fed) /\ Fed.frame = last.frame
  BY InStepWhole
<1>2. /\ taken' = Fed.frame /\ lost' = lost + (Fed.frame - taken - 1) /\ fooled' = fooled + 0
      /\ last' = Fed /\ Fed \in Byte /\ Fed.frame \in Nat /\ Fed.pos \in Nat /\ Fed.pos = 5 * Fed.frame
  BY <1>1, Delivered, LineTyped
<1>3. last'.stamp = last.stamp + 0
  BY <1>2 DEF Steps
<1>4. Budget \in Nat /\ Budget' \in Nat /\ 5 * Budget' >= 5 * Budget + 0 + 0
  BY <1>2, <1>3, BudgetGrows
<1> DEFINE D == lost - taken
           l == lost'
           u == taken'
           q == last'.pos
           F == Budget'
           C == Ahead'
<1>5. C = 0
  BY DEF FeedCrc, Ahead
<1>6. l \in Int /\ u \in Int /\ l = lost + (u - taken - 1) /\ lost \in Int /\ taken \in Int /\ D \in Int
  BY <1>2, LineTyped
<1>7. /\ u = Fed.frame /\ q = Fed.pos /\ Fed.pos = 5 * Fed.frame /\ q \in Int
      /\ Budget \in Nat /\ F \in Nat /\ 5 * F >= 5 * Budget + 0 + 0
  <2>1. u = Fed.frame /\ q = Fed.pos /\ Fed.pos = 5 * Fed.frame /\ q \in Int
    BY <1>2
  <2>2. Budget \in Nat /\ F \in Nat /\ 5 * F >= 5 * Budget + 0 + 0
    BY <1>4
  <2> QED
    BY <2>1, <2>2
<1>8. D + u - 1 <= Budget
  BY <1>1, <1>2 DEF InStepCost
<1> HIDE DEF l, u, q, F, C
<1>9. l - u = lost - taken - 1 /\ l - u \in Int
  BY <1>6, SumDelivered
<1> DEFINE E == l - u
<1>10. E = D - 1 /\ E \in Int
  BY <1>9
<1> HIDE DEF D, E
<1>11. 5 * E + q <= 5 * F
  <2>1. Budget \in Int /\ F \in Int /\ 5 * F >= 5 * Budget /\ q = 5 * u
    BY <1>7
  <2> QED
    BY <1>6, <1>7, <1>8, <1>10, <2>1, SumDelivers
<1>12. 5 * E + q + C <= 5 * F
  BY <1>5, <1>7, <1>10, <1>11
<1> QED
  BY <1>12 DEF OutOfStepCost, E, l, u, q, F, C

LEMMA TakenReached ==
  ASSUME LineInv, ChainInv, CostInv, Feed
  PROVE  5 * taken' <= last'.pos
<1>1. CASE UNCHANGED taken /\ Dequeue
  <2>1. PICK s \in Nat : Steps(s)
    BY <1>1, FeedFacts
  <2>2. last' = Fed /\ last.pos \in Nat /\ Fed.pos \in Nat /\ last.pos <= Fed.pos /\ taken \in Nat
    BY <1>1, <2>1, FeedFacts, ByteTyped, LineTyped DEF Steps
  <2>3. 5 * taken <= last.pos
    BY DEF CostInv
  <2>4. 5 * taken <= Fed.pos
    BY <2>2, <2>3
  <2> QED
    BY <1>1, <2>2, <2>4
<1>2. CASE FeedCrc /\ Whole(Fed)
  <2>1. taken' = Fed.frame /\ last' = Fed /\ Fed.pos = 5 * Fed.frame /\ Fed.frame \in Nat
    BY <1>2, Delivered
  <2>2. 5 * Fed.frame <= Fed.pos
    BY <2>1
  <2> QED
    BY <2>1, <2>2
<1> QED
  BY <1>1, <1>2 DEF Feed, FeedSync, FeedLenLo, FeedLenHi, FeedData, FeedCrc, countVars

LEMMA CostAfterFeed ==
  ASSUME LineInv, OrderInv, ChainInv, CostInv, Feed
  PROVE  CostInv'
<1>1. (InFrame /\ InStepCost)' \/ OutOfStepCost'
  <2>1. CASE OutOfStepCost
    <3>1. CASE state = "Sync"
      <4>1. FeedSync
        BY <3>1 DEF Feed, FeedLenLo, FeedLenHi, FeedData, FeedCrc
      <4> QED
        BY <2>1, <4>1, OutOfStepSync
    <3>2. CASE state # "Sync"
      BY <2>1, <3>2, OutOfStepInFrame
    <3> QED
      BY <3>1, <3>2
  <2>2. CASE InFrame /\ InStepCost
    <3>1. Dequeue
      BY DEF Feed, FeedSync, FeedLenLo, FeedLenHi, FeedData, FeedCrc
    <3>2. PICK s \in Nat : Steps(s)
      BY <3>1, FeedFacts
    <3>3. CASE s > 0
      BY <2>2, <3>2, <3>3, InStepLeaves
    <3>4. CASE s = 0
      <4>1. ~FeedSync
        BY <2>2 DEF FeedSync, InFrame
      <4> QED
        BY <2>2, <3>2, <3>4, <4>1, InStepStays, InStepDelivers DEF Feed
    <3>5. s > 0 \/ s = 0
      OBVIOUS
    <3> QED
      BY <3>3, <3>4, <3>5
  <2> QED
    BY <2>1, <2>2 DEF CostInv
<1> QED
  BY <1>1, TakenReached DEF CostInv

-----------------------------------------------------------------------------
(***************************************************************************)
(* The invariant.                                                          *)
(***************************************************************************)
LEMMA LinkStarts == Init => LinkInv
BY InitTyped, ChainStarts, OrderStarts, CostStarts DEF LinkInv, LineInv

LEMMA LinkSteps == LinkInv /\ [Next]_vars => LinkInv'
<1> SUFFICES ASSUME LinkInv, [Next]_vars PROVE LinkInv'
  OBVIOUS
<1>1. LineInv /\ ChainInv /\ OrderInv /\ CostInv
  BY DEF LinkInv, LineInv
<1>2. ASSUME NEW k \in Payloads, Build(k) PROVE LinkInv'
  <2>1. LineInv' /\ ChainInv' /\ OrderInv'
    BY <1>1, <1>2, BuildTyped, BuildLinks, OrderAfterBuild
  <2>2. CostInv'
    BY <1>1, <1>2, CostSame DEF Build
  <2> QED
    BY <2>1, <2>2 DEF LinkInv, LineInv
<1>3. CASE Receives
  <2>1. LineInv' /\ ChainInv' /\ Shift
    BY <1>1, <1>3, ReceivesTyped, ReceivesLinks
  <2>2. PICK c \in Byte : Arrives(Head(out), c)
    BY <1>1, <1>3, ReceivesTyped
  <2>3. SameBut(Head(out), Head(out))
    BY <1>1, <2>1, Shifts DEF SameBut
  <2>4. OrderInv'
    BY <1>1, <1>3, <2>1, <2>2, <2>3, OrderAfterArrival DEF Receives, countVars
  <2>5. CostInv'
    BY <1>1, <1>3, CostSame DEF Receives
  <2> QED
    BY <2>1, <2>4, <2>5 DEF LinkInv, LineInv
<1>4. CASE Overflows \/ LosesByte
  <2>1. LineInv' /\ ChainInv' /\ Shift
    BY <1>1, <1>4, LosesTyped, LosesLinks
  <2>2. OrderInv'
    BY <1>1, <1>4, <2>1, OrderAfterLoss DEF Overflows, LosesByte, countVars
  <2>3. CostInv'
    BY <1>1, <1>4, CostSame DEF Overflows, LosesByte
  <2> QED
    BY <2>1, <2>2, <2>3 DEF LinkInv, LineInv
<1>5. CASE GarblesByte
  <2>1. LineInv' /\ ChainInv' /\ Shift
    BY <1>1, <1>5, GarblesTyped, GarblesLinks
  <2>2. PICK c \in Byte : Arrives(Broken(Head(out)), c)
    BY <1>1, <1>5, GarblesTyped
  <2>3. SameBut(Head(out), Broken(Head(out)))
    BY <1>1, <2>1, Shifts, BrokenTyped
  <2>4. OrderInv'
    BY <1>1, <1>5, <2>1, <2>2, <2>3, OrderAfterArrival DEF GarblesByte, countVars
  <2>5. CostInv'
    BY <1>1, <1>5, CostSame DEF GarblesByte
  <2> QED
    BY <2>1, <2>4, <2>5 DEF LinkInv, LineInv
<1>6. CASE AddsByte
  <2>1. LineInv' /\ ChainInv'
    BY <1>1, <1>6, AddsTyped, AddsLinks
  <2>2. PICK c \in Byte : Arrives(Noise, c)
    BY <1>1, <1>6, AddsTyped
  <2>3. OrderInv'
    BY <1>1, <1>6, <2>2, OrderAfterNoise DEF AddsByte, countVars
  <2>4. CostInv'
    BY <1>1, <1>6, CostSame DEF AddsByte
  <2> QED
    BY <2>1, <2>3, <2>4 DEF LinkInv, LineInv
<1>7. CASE Feed
  <2>1. LineInv' /\ CostInv'
    BY <1>1, <1>7, FeedTyped, CostAfterFeed
  <2>2. Dequeue /\ UNCHANGED lineVars /\ UNCHANGED damaged
    BY <1>7 DEF Feed, FeedSync, FeedLenLo, FeedLenHi, FeedData, FeedCrc
  <2>3. ChainInv'
    BY <1>1, <2>2, ChainAfterFed
  <2>4. \A i \in 1..Len(ring) : ring[i].at <= ring[i].len + 5
    <3> SUFFICES ASSUME NEW i \in 1..Len(ring) PROVE ring[i].at <= ring[i].len + 5
      OBVIOUS
    <3>1. i \in 0..Len(ring) /\ At(i) = ring[i]
      BY <1>1, LineTyped DEF At
    <3> QED
      BY <1>1, <3>1 DEF ChainInv, ByteInv
  <2>5. UNCHANGED taken \/ (taken' = Fed.frame /\ Fed.at = Fed.len + 5)
    <3>1. FeedCrc /\ Whole(Fed) => taken' = Fed.frame /\ Fed.at = Fed.len + 5
      BY <1>1, Delivered
    <3> QED
      BY <1>7, <3>1 DEF Feed, FeedSync, FeedLenLo, FeedLenHi, FeedData, FeedCrc, countVars
  <2>6. OrderInv'
    BY <1>1, <2>2, <2>4, <2>5, OrderAfterFed
  <2> QED
    BY <2>1, <2>3, <2>6 DEF LinkInv, LineInv
<1>8. CASE UNCHANGED vars
  <2>1. /\ UNCHANGED <<lineVars, ring, parserVars, countVars, damaged, fooled>>
        /\ UNCHANGED <<sent, out, taken, lost, invented, last>>
    BY <1>8 DEF vars, lineVars, countVars, parserVars
  <2>2. TypeOK'
    BY <1>1, <2>1, ParserTypesSame DEF LineInv, TypeOK, LineTypes, HistoryTypes
  <2>3. OutInv' /\ CostInv'
    BY <1>1, <2>1, OutInvSame, CostSame DEF LineInv
  <2>4. OrderInv'
    BY <1>1, <2>1 DEF OrderInv
  <2>5. ChainInv'
    <3>1. PICK z : z = At(Len(ring))
      OBVIOUS
    <3>2. SenderLinked(z)'
      BY <1>1, <2>1, <3>1 DEF ChainInv, SenderLinked, SenderFollows, Pos
    <3> QED
      BY <1>1, <2>1, <3>1, <3>2, LineTyped, ChainAfterLoss
  <2> QED
    BY <2>2, <2>3, <2>4, <2>5 DEF LinkInv
<1> QED
  BY <1>2, <1>3, <1>4, <1>5, <1>6, <1>7, <1>8 DEF Next, Disturbance

LEMMA LinkHolds == Spec => []LinkInv
<1>1. Init => LinkInv
  BY LinkStarts
<1>2. LinkInv /\ [Next]_vars => LinkInv'
  BY LinkSteps
<1> QED
  BY <1>1, <1>2, PTL DEF Spec

\* Every variable keeps its type; what the parser still expects fits its buffer.
THEOREM TypeCorrect == Spec => []TypeOK
<1>1. LinkInv => TypeOK
  BY DEF LinkInv
<1> QED
  BY <1>1, LinkHolds, PTL

-----------------------------------------------------------------------------
(***************************************************************************)
(* Each step is one of FrameChannel's, or none.                            *)
(***************************************************************************)
LEMMA ChannelStarts == Init => Channel!Init
BY DEF Init, Channel!Init, Hurts

\* What nothing disturbed is not mistaken for a frame.
LEMMA InventsAfterHurt ==
  ASSUME LinkInv, FeedCrc, ~Whole(Fed)
  PROVE  Hurts > 0
<1> SUFFICES ASSUME ~(Hurts > 0) PROVE FALSE
  OBVIOUS
<1>1. LineInv /\ ChainInv /\ OrderInv /\ CostInv /\ Dequeue
  BY DEF LinkInv, LineInv, FeedCrc
<1>2. damaged = 0 /\ fooled = 0
  BY <1>1, LineTyped DEF Hurts
<1>3. PICK s \in Nat : Steps(s)
  BY <1>1, FeedFacts
<1>4. last.stamp = 0 /\ Fed.stamp = 0 /\ last.pos \in Nat
  BY <1>1, <1>2, FeedFacts, ByteTyped DEF ByteInv
<1>5. Steps(0)
  <2>1. s = 0
    BY <1>3, <1>4 DEF Steps
  <2> QED
    BY <1>3, <2>1
<1>6. ~InFrame
  BY <1>1, <1>5, InStepWhole
<1>7. OutOfStepCost /\ 5 * taken <= last.pos
  BY <1>1, <1>6 DEF CostInv
<1>8. Ahead = 1
  BY <1>1, LineTyped, BoundsTyped DEF FeedCrc, ParserTypes, Ahead
<1>9. Budget = 0
  <2>1. Budget = FramesPerHurt * 0
    BY <1>2, <1>4 DEF Budget, Bound
  <2> QED
    BY <2>1, CostTyped
<1>10. 5 * (lost - taken) + last.pos + 1 <= 0 /\ lost \in Nat /\ taken \in Nat
  BY <1>1, <1>7, <1>8, <1>9, LineTyped DEF OutOfStepCost
<1> QED
  BY <1>4, <1>7, <1>10

\* A frame that is delivered is the next or one further on, and those passed
\* over have been paid for.
LEMMA DeliversInOrder ==
  ASSUME LinkInv, FeedCrc, Whole(Fed)
  PROVE  Channel!Deliver
<1>1. LineInv /\ ChainInv /\ OrderInv /\ CostInv /\ Dequeue
  BY DEF LinkInv, LineInv, FeedCrc
<1>2. /\ taken' = Fed.frame /\ lost' = lost + (Fed.frame - taken - 1) /\ UNCHANGED <<fooled, invented>>
      /\ last' = Fed /\ Fed \in Byte /\ Fed.frame \in Nat /\ Fed.pos \in Nat
      /\ Fed.at # 0 /\ Fed.pos = 5 * Fed.frame
  BY <1>1, Delivered
<1>3. /\ Fed = ring[1] /\ 1 \in 1..Len(ring) /\ sent \in Nat /\ taken \in Nat /\ lost \in Nat
      /\ damaged \in Nat /\ fooled \in Nat
  BY <1>1, DequeueSteps, LineTyped, BoundsTyped
<1>4. taken < Fed.frame /\ Fed.frame <= sent
  BY <1>1, <1>2, <1>3 DEF OrderInv
<1>5. Fed.frame \in taken + 1..sent
  BY <1>2, <1>3, <1>4
<1>6. lost' <= FramesPerHurt * Hurts
  <2>1. LineInv' /\ CostInv'
    BY <1>1, FeedTyped, CostAfterFeed DEF Feed
  <2>2. OutOfStepCost' /\ Ahead' = 0
    BY <2>1 DEF CostInv, FeedCrc, InFrame, Ahead
  <2> DEFINE l == lost'
             u == taken'
             q == last'.pos
             F == Budget'
             C == Ahead'
             h == last'.stamp + fooled'
  <2>3. 5 * (l - u) + q + C <= 5 * F
    BY <2>2 DEF OutOfStepCost
  <2>4. F = FramesPerHurt * h
    BY DEF Budget, Bound, FramesPerHurt
  <2>5. h \in Nat /\ h <= damaged + fooled
    <3>1. Fed.stamp \in Nat /\ Fed.stamp <= damaged /\ h = Fed.stamp + fooled
      BY <1>1, <1>2, FeedFacts, ByteTyped DEF ByteInv
    <3> HIDE DEF h
    <3> QED
      BY <1>3, <3>1
  <2>6. C = 0 /\ u = Fed.frame /\ q = Fed.pos
    BY <1>2, <2>2
  <2>7. l \in Nat /\ u \in Nat
    BY <2>1, LineTyped DEF LineInv, TypeOK, HistoryTypes
  <2> HIDE DEF l, u, q, F, C, h
  <2>8. q = 5 * u /\ q \in Nat
    BY <1>2, <2>6
  <2>9. F \in Nat /\ F <= FramesPerHurt * (damaged + fooled)
    <3>1. PICK d \in Nat : damaged + fooled = h + d
      <4>1. damaged + fooled - h \in Nat /\ damaged + fooled = h + (damaged + fooled - h)
        BY <1>3, <2>5
      <4> QED
        BY <4>1
    <3>2. /\ FramesPerHurt * (h + d) = FramesPerHurt * h + FramesPerHurt * d
          /\ FramesPerHurt * d \in Nat /\ FramesPerHurt * h \in Nat
      BY <2>5, CostTyped
    <3> QED
      BY <2>4, <3>1, <3>2
  <2>10. l <= F
    BY <2>3, <2>6, <2>7, <2>8, <2>9
  <2>11. FramesPerHurt * (damaged + fooled) \in Nat
    BY <1>3, CostTyped
  <2>12. l <= FramesPerHurt * (damaged + fooled)
    BY <2>7, <2>9, <2>10, <2>11
  <2> QED
    BY <2>12 DEF l, Hurts
<1>7. UNCHANGED <<sent, Hurts, invented>>
  BY <1>2 DEF FeedCrc, lineVars, Hurts
<1> QED
  BY <1>2, <1>5, <1>6, <1>7 DEF Channel!Deliver

LEMMA ChannelSteps == LinkInv /\ [Next]_vars => [Channel!Next]_(Channel!vars)
<1> SUFFICES ASSUME LinkInv, [Next]_vars PROVE [Channel!Next]_(Channel!vars)
  OBVIOUS
<1>1. LineInv /\ ChainInv /\ OrderInv /\ CostInv
  BY DEF LinkInv, LineInv
<1>2. sent \in Nat /\ damaged \in Nat /\ fooled \in Nat
  BY <1>1, LineTyped, BoundsTyped
<1>3. ASSUME NEW k \in Payloads, Build(k) PROVE Channel!Send
  BY <1>3 DEF Build, countVars, Channel!Send, Hurts
<1>4. CASE UNCHANGED <<sent, countVars, damaged, fooled>>
  BY <1>4 DEF countVars, Hurts, Channel!vars
<1>5. CASE UNCHANGED <<sent, countVars>> /\ Hurts' = Hurts + 1
  BY <1>5 DEF countVars, Channel!Next, Channel!Disturb
<1>6. CASE damaged' = damaged + 1 /\ UNCHANGED <<sent, countVars, fooled>>
  <2>1. Hurts' = Hurts + 1
    BY <1>2, <1>6 DEF Hurts
  <2> QED
    BY <1>5, <1>6, <2>1
<1>7. CASE fooled' = fooled + 1 /\ UNCHANGED <<sent, countVars, damaged>>
  <2>1. Hurts' = Hurts + 1
    BY <1>2, <1>7 DEF Hurts
  <2> QED
    BY <1>5, <1>7, <2>1
<1>8. CASE FeedCrc
  <2>1. CASE Whole(Fed)
    BY <1>8, <2>1, DeliversInOrder DEF Channel!Next
  <2>2. CASE ~Whole(Fed) /\ UNCHANGED <<countVars, fooled>>
    BY <1>4, <1>8, <2>2 DEF FeedCrc, lineVars
  <2>3. CASE ~Whole(Fed) /\ invented' = invented + 1 /\ fooled' = fooled + 1 /\ UNCHANGED <<taken, lost>>
    <3>1. Hurts > 0
      BY <1>8, <2>3, InventsAfterHurt
    <3>2. Hurts' = Hurts + 1 /\ UNCHANGED sent
      BY <1>2, <1>8, <2>3 DEF FeedCrc, lineVars, Hurts
    <3> QED
      BY <2>3, <3>1, <3>2 DEF Channel!Next, Channel!Invent
  <2> QED
    BY <1>8, <2>1, <2>2, <2>3 DEF FeedCrc
<1>9. CASE Receives
  BY <1>4, <1>9 DEF Receives
<1>10. CASE Overflows \/ LosesByte \/ GarblesByte \/ AddsByte
  BY <1>6, <1>10 DEF Overflows, LosesByte, GarblesByte, AddsByte, lineVars
<1>11. CASE FeedSync
  BY <1>4, <1>7, <1>11 DEF FeedSync, lineVars
<1>12. CASE FeedLenLo \/ FeedLenHi \/ FeedData
  BY <1>4, <1>12 DEF FeedLenLo, FeedLenHi, FeedData, lineVars
<1>13. CASE UNCHANGED vars
  BY <1>4, <1>13 DEF vars, lineVars
<1> QED
  BY <1>3, <1>8, <1>9, <1>10, <1>11, <1>12, <1>13 DEF Next, Disturbance, Feed, Channel!Next

\* Frames arrive whole, in the order in which they were sent and once each;
\* a disturbance costs FramesPerHurt of them at most, however long the frames
\* are and whatever the parser takes the bytes for that are out of their place.
THEOREM Refinement == Spec => IsFrameChannel
<1>1. Init => Channel!Init
  BY ChannelStarts
<1>2. LinkInv /\ [Next]_vars => [Channel!Next]_(Channel!vars)
  BY ChannelSteps
<1> QED
  BY <1>1, <1>2, LinkHolds, PTL DEF Spec, IsFrameChannel, Channel!Spec
=============================================================================
