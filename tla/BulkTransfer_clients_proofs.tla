--------------------- MODULE BulkTransfer_clients_proofs ---------------------
(***************************************************************************)
(* What a transfer comes to when only its client fails: it vanishes, its   *)
(* BLE link is lost, or replies to it are.  For every number of chunks,    *)
(* transfers, attempts and such faults.                                    *)
(*                                                                         *)
(* The UART loses nothing then, as long as it has room; so the invariant   *)
(* says how much there can be on it, where exactly the call of the lock's  *)
(* holder is, what the WIO has received, and on top of that what each      *)
(* client at each of its steps can expect.                                 *)
(***************************************************************************)
EXTENDS BulkTransfer_proofs

USE NoneAssumption DEF Clients, Requesters, Kinds, Steps

-----------------------------------------------------------------------------
(***************************************************************************)
(* The invariant of the ESP, the link and the WIO.                         *)
(***************************************************************************)

Ending(c) == wait[c] # "no" /\ request[c].cmd[2] = "end"

\* At most n frames beside the call are on their way to the WIO.
Backlog(n) == Len(toWio) <= n + (IF NoCall(toWio) THEN 0 ELSE 1)

RoomInv ==
  /\ Backlog(3)
  /\ \A c \in Clients : bulk[c] # None => Backlog(IF Chunking(c) THEN 2 ELSE 1)

GoesOut(c) == toWio # <<>> /\ toWio[Len(toWio)] = request[c]

ComesBack(c) ==
  /\ toWio = <<>>
  /\ IF toEsp = <<>> THEN signal # None /\ signal.cmd = request[c].cmd
     ELSE toEsp[Len(toEsp)].cmd = request[c].cmd

\* The call of a client is not lost, and it is the last on its way.
PlacedInv == \A c \in Clients : holder = c => GoesOut(c) \/ ComesBack(c)

Part(item, n) == [k \in 1..n |-> <<item, k>>]

\* The WIO has the first n chunks of the item c sends.
Filled(c, item, n) ==
  /\ rx[Kind[c]] # None
  /\ rx[Kind[c]].item = item /\ rx[Kind[c]].next = n /\ rx[Kind[c]].got = Part(item, n)

\* The WIO refuses this item, when it has all of it.
Refuses(c, item) == Kind[c] = "TOML" /\ item.shape = "unparsable"

Refused(c) == rx[Kind[c]] = None /\ Refuses(c, bulk[c].item) /\ bulk[c].next = Chunks

\* The receiver has what the BulkState of c says, until it has read the call
\* that is under way.
KeepsInv(c) ==
  bulk[c] # None =>
    /\ (wait[c] = "answer" /\ toWio = <<>>) \/ Filled(c, bulk[c].item, bulk[c].next) \/ Refused(c)
    /\ FwAbort \notin Range(toWio)
    /\ Chunking(c) => /\ request[c].arg.item = bulk[c].item
                      /\ request[c].arg.chunk = request[c].arg.seq + 1
                      /\ bulk[c].next < Chunks
    /\ Ending(c) => bulk[c].next = Chunks

\* What the ack of a call says of the receiver.
AckMeans(c, ack) ==
  wait[c] = "answer" /\ ack.cmd = request[c].cmd =>
    /\ Beginning(c) => IF ack.ok THEN Filled(c, request[c].arg, 0) ELSE request[c].arg.shape = "oversize"
    /\ Chunking(c) => /\ ack.ok /\ ack.value = bulk[c].next + 1
                      /\ Filled(c, bulk[c].item, bulk[c].next + 1)
    /\ Ending(c) => /\ rx[Kind[c]] = None
                    /\ IF ack.ok THEN Image(request[c].arg) \in committed ELSE Refuses(c, request[c].arg)

ReceiverInv(c) == KeepsInv(c) /\ \A ack \in Acks : AckMeans(c, ack)

\* The last word on the busy flag is FALSE.
EndsCalm(link, on) ==
  /\ on => RadioBusy(FALSE) \in Range(link)
  /\ \A i \in DOMAIN link : link[i] = RadioBusy(TRUE) =>
       \E j \in DOMAIN link : j > i /\ link[j] = RadioBusy(FALSE)

BusyCalm == (\A c \in Clients : bulk[c] = None) => EndsCalm(toWio, busy)

Accepted(c) ==
  Beginning(c) /\ wait[c] = "answer" /\ \E ack \in Acks : ack.cmd = request[c].cmd /\ ack.ok

\* A receiver of firmware has a client, or an abort on its way.
RxCalm ==
  rx["FIRMWARE"] # None =>
    \/ FwAbort \in Range(toWio)
    \/ \E c \in Clients : Kind[c] = "FIRMWARE" /\ (bulk[c] # None \/ Accepted(c))

XferOwned == xferActive => \E c \in Clients : Claims(c)

LinkInv ==
  RoomInv /\ PlacedInv /\ (\A c \in Clients : ReceiverInv(c)) /\ BusyCalm /\ RxCalm /\ XferOwned

-----------------------------------------------------------------------------
(***************************************************************************)
(* The invariant of a client.                                              *)
(***************************************************************************)

\* Its operation, or the reply, is in one place.
OneOp(c) ==
  /\ Len(ops[c]) <= 1 /\ Len(replies[c]) <= 1
  /\ ops[c] # <<>> => wait[c] = "no"
  /\ ReplyComing(c) => replies[c] = <<>>
  /\ host[c].pc \in {"idle", "ok", "failed"} => ~ReplyComing(c) /\ bulk[c] = None
  /\ host[c].pc \in Steps => host[c].tries > 0 /\ (c = "ble" => session)

\* The operation on its way is the client's, if it is still there, and fits
\* the transfer.
OpInv(c) ==
  ops[c] # <<>> =>
    LET op == Head(ops[c])
    IN  /\ host[c].pc \in Steps => /\ op.op = host[c].pc /\ op.item = host[c].item
                                   /\ op.seq = host[c].seq /\ op.chunk = host[c].sent + 1
        /\ op.op = "data" => /\ bulk[c] # None /\ op.item = bulk[c].item
                             /\ op.chunk = op.seq + 1 /\ op.seq < Chunks
                             /\ bulk[c].next \in {op.seq, op.seq + 1}
        /\ op.op = "end" /\ bulk[c] # None => bulk[c].next = Chunks

Settled(c) == Image(host[c].item) \in committed \/ Refuses(c, host[c].item)

BeginInv(c) ==
  host[c].pc = "begin" =>
    /\ host[c].seq = 0 /\ host[c].sent = 0
    /\ wait[c] # "no" => Beginning(c) /\ request[c].arg = host[c].item
    /\ replies[c] # <<>> /\ Reply(c).status = "OK" =>
         bulk[c] # None /\ bulk[c].item = host[c].item /\ bulk[c].next = 0

DataInv(c) ==
  host[c].pc = "data" =>
    /\ bulk[c] # None /\ bulk[c].item = host[c].item
    /\ host[c].seq = host[c].sent
    /\ bulk[c].next \in {host[c].sent, host[c].sent + 1}
    /\ wait[c] # "no" => Chunking(c) /\ bulk[c].next = host[c].sent
    /\ replies[c] # <<>> => /\ Reply(c).status = "OK" /\ Reply(c).next = bulk[c].next
                            /\ bulk[c].next = host[c].sent + 1

\* The first OP_END meets the transfer; later ones may find it ended.
EndInv(c) ==
  host[c].pc = "end" =>
    /\ host[c].sent = Chunks
    /\ wait[c] # "no" => Ending(c)
    /\ bulk[c] # None => bulk[c].item = host[c].item /\ bulk[c].next = Chunks
    /\ bulk[c] = None => Settled(c)
    /\ host[c].tries = 1 /\ ReplyComing(c) => bulk[c] # None
    /\ ~ReplyComing(c) /\ bulk[c] # None => Refuses(c, host[c].item)
    /\ replies[c] # <<>> =>
         \/ Reply(c).status = "OK" /\ bulk[c] = None
         \/ Reply(c).status = "WIO_ERROR" /\ Refuses(c, host[c].item)
         \/ Reply(c).status = "BAD_STATE" /\ bulk[c] = None /\ host[c].tries > 1

AbortInv(c) == host[c].pc = "abort" => wait[c] = "no" /\ (ops[c] = <<>> => bulk[c] = None)

OkInv(c) == host[c].pc = "ok" => host[c].item \in Item /\ Settled(c)

HostInv(c) ==
  OneOp(c) /\ OpInv(c) /\ BeginInv(c) /\ DataInv(c) /\ EndInv(c) /\ AbortInv(c) /\ OkInv(c)

\* The invariant, while nothing but clients has failed.
ClientInv == LinkInv /\ \A c \in Clients : HostInv(c)

\* What holds before each step.
Sound == OwnerInv /\ TypeInv /\ HolderWaits /\ Sync /\ ClientInv

-----------------------------------------------------------------------------
(***************************************************************************)
(* Queues.                                                                 *)
(***************************************************************************)

LEMMA AppendLast ==
  ASSUME NEW S, NEW s \in Seq(S), NEW x \in S
  PROVE  /\ Append(s, x) \in Seq(S) /\ Append(s, x) # <<>>
         /\ Len(Append(s, x)) = Len(s) + 1 /\ Len(s) \in Nat
         /\ Append(s, x)[Len(Append(s, x))] = x
         /\ DOMAIN s = 1..Len(s) /\ DOMAIN Append(s, x) = 1..(Len(s) + 1)
         /\ \A i \in 1..Len(s) : Append(s, x)[i] = s[i]
         /\ Range(Append(s, x)) = Range(s) \cup {x}
<1>1. /\ Append(s, x) \in Seq(S) /\ Len(s) \in Nat /\ Len(Append(s, x)) = Len(s) + 1
      /\ Append(s, x)[Len(s) + 1] = x
      /\ \A i \in 1..Len(s) : Append(s, x)[i] = s[i]
  BY AppendProperties
<1>2. Append(s, x) # <<>>
  BY <1>1
<1>3. DOMAIN s = 1..Len(s) /\ DOMAIN Append(s, x) = 1..(Len(s) + 1)
  BY <1>1
<1> QED BY <1>1, <1>2, <1>3, AppendCalls

\* NoCall is told from the end of a queue.
LEMMA AppendCallOnly ==
  ASSUME NEW S, NEW s \in Seq(S), NEW x \in S
  PROVE  NoCall(Append(s, x)) <=> NoCall(s) /\ ~IsCall(x)
<1>1. Range(Append(s, x)) = Range(s) \cup {x}
  BY AppendCalls
<1> QED BY <1>1, NoCallRange

LEMMA TailLast ==
  ASSUME NEW S, NEW s \in Seq(S), s # <<>>
  PROVE  /\ Len(s) \in Nat /\ Len(s) > 0
         /\ Tail(s) \in Seq(S) /\ Len(Tail(s)) = Len(s) - 1
         /\ Head(s) = s[1] /\ Head(s) \in S
         /\ Tail(s) = <<>> <=> Len(s) = 1
         /\ Tail(s) # <<>> => Tail(s)[Len(Tail(s))] = s[Len(s)]
         /\ DOMAIN s = 1..Len(s) /\ DOMAIN Tail(s) = 1..(Len(s) - 1)
         /\ \A i \in 1..(Len(s) - 1) : Tail(s)[i] = s[i + 1]
         /\ Range(s) = Range(Tail(s)) \cup {Head(s)}
<1>1. /\ Len(s) \in Nat /\ Len(s) > 0 /\ Tail(s) \in Seq(S) /\ Len(Tail(s)) = Len(s) - 1
      /\ Head(s) \in S
  BY HeadTailProperties
<1>2. \A i \in 1..Len(Tail(s)) : Tail(s)[i] = s[i + 1]
  BY <1>1, HeadTailProperties
<1>3. Head(s) = s[1] /\ DOMAIN s = 1..Len(s) /\ DOMAIN Tail(s) = 1..(Len(s) - 1)
  BY <1>1
<1>4. Tail(s) = <<>> <=> Len(s) = 1
  <2>1. Tail(s) = <<>> <=> Len(Tail(s)) = 0
    BY <1>1
  <2> QED BY <1>1, <2>1
<1>5. Tail(s) # <<>> => Tail(s)[Len(Tail(s))] = s[Len(s)]
  <2>1. Tail(s) # <<>> => Len(Tail(s)) \in 1..Len(Tail(s)) /\ Len(Tail(s)) + 1 = Len(s)
    BY <1>1, <1>4
  <2> QED BY <1>2, <2>1
<1>6. Range(s) = Range(Tail(s)) \cup {Head(s)}
  <2>1. \A i \in DOMAIN s : i = 1 \/ (i - 1 \in DOMAIN Tail(s) /\ Tail(s)[i - 1] = s[i])
    BY <1>1, <1>2, <1>3
  <2>2. 1 \in DOMAIN s /\ \A i \in DOMAIN Tail(s) : i + 1 \in DOMAIN s /\ s[i + 1] = Tail(s)[i]
    BY <1>1, <1>2, <1>3
  <2>3. \A x \in Range(s) : x \in Range(Tail(s)) \/ x = Head(s)
    BY <1>3, <2>1 DEF Range
  <2>4. Range(Tail(s)) \subseteq Range(s) /\ Head(s) \in Range(s)
    BY <1>1, TailCalls
  <2> QED BY <2>3, <2>4
<1> QED BY <1>1, <1>2, <1>3, <1>4, <1>5, <1>6

-----------------------------------------------------------------------------
(***************************************************************************)
(* Where the call is.                                                      *)
(***************************************************************************)

\* The holder's call is the last frame: when the WIO reads it, nothing is behind.
LEMMA CallIsLast ==
  ASSUME Sound, holder \in Clients, toWio # <<>>, IsCall(Head(toWio))
  PROVE  toWio = <<Head(toWio)>> /\ Tail(toWio) = <<>>
<1>1. toWio \in Seq(Frames)
  BY DEF Sound, TypeInv, LinkTyped
<1>2. toWio[Len(toWio)] = request[holder]
  BY DEF Sound, ClientInv, LinkInv, PlacedInv, GoesOut, ComesBack
<1>3. IsCall(request[holder])
  <2>1. wait[holder] # "no"
    BY DEF Sound, HolderWaits
  <2> QED BY <2>1, RequestIsCall DEF Sound, TypeInv
<1>4. 1 = Len(toWio)
  <2>1. 1 \in DOMAIN toWio /\ Len(toWio) \in DOMAIN toWio /\ Head(toWio) = toWio[1]
    BY <1>1, TailLast
  <2> QED BY <1>2, <1>3, <2>1 DEF Sound, Sync, OneCallUnderWay, LoneCall
<1> QED BY <1>1, <1>4, TailLast

\* wio_request returns with the answer to its call, and the link is empty then.
LEMMA CallReturns ==
  ASSUME Sound, OnlyClientsFailed', NEW c \in Clients, NEW status, Returns(c, status)
  PROVE  /\ signal # None /\ signal.cmd = request[c].cmd /\ signal \in Acks
         /\ status = IF signal.ok THEN "OK" ELSE "WIO_ERROR"
         /\ toWio = <<>> /\ toEsp = <<>>
<1>1. wait[c] = "answer" /\ holder = c
  BY DEF Returns, Sound, OwnerInv, LockHeld
<1>2. IsCall(request[c])
  BY <1>1, RequestIsCall DEF Sound, TypeInv
<1>3. GoesOut(c) \/ ComesBack(c)
  BY <1>1 DEF Sound, ClientInv, LinkInv, PlacedInv
<1>4. toWio \in Seq(Frames) /\ toEsp \in Seq(Ack)
  BY DEF Sound, TypeInv, LinkTyped
<1>5. toWio # <<>> => Len(toWio) \in DOMAIN toWio
  BY <1>4, TailLast
<1>6. toEsp # <<>> => Len(toEsp) \in DOMAIN toEsp
  BY <1>4, TailLast
<1>7. GoesOut(c) => ~NoCall(toWio)
  BY <1>2, <1>5 DEF GoesOut, NoCall
<1>8. ComesBack(c) /\ toEsp # <<>> => ~NoCall(toEsp)
  BY <1>2, <1>6 DEF ComesBack, NoCall, IsCall
<1>9. ASSUME ~(signal # None /\ signal.cmd = request[c].cmd) PROVE FALSE
  <2>1. signal = None /\ Expired(AnswerComing(c), "slow")
    BY <1>9 DEF Returns
  <2>2. AnswerComing(c)
    BY <1>3, <1>5, <1>6, <1>9 DEF GoesOut, ComesBack, AnswerComing
  <2> QED BY <2>1, <2>2 DEF Expired, Fault, OnlyClientsFailed
<1>10. NoCall(toWio) /\ NoCall(toEsp)
  BY <1>2, <1>9 DEF Sound, Sync, OneCallUnderWay, IsCall
<1>11. toWio = <<>> /\ toEsp = <<>>
  BY <1>3, <1>7, <1>8, <1>10 DEF ComesBack
<1> QED BY <1>9, <1>11 DEF Returns, Acks

\* A frame that belongs to a transfer, when the WIO reads it.
LEMMA CallRead ==
  ASSUME Sound, toWio # <<>>, NEW kind \in Kinds, NEW step \in {"begin", "data", "end"},
         Head(toWio).cmd = <<kind, step>>
  PROVE  /\ holder \in Clients /\ Kind[holder] = kind /\ wait[holder] = "answer"
         /\ request[holder] = Head(toWio) /\ request[holder].cmd[2] = step
         /\ toWio = <<Head(toWio)>> /\ Tail(toWio) = <<>>
         /\ \A ack \in Acks : ack.cmd # request[holder].cmd
         /\ \A d \in Clients \ {holder} : bulk[d] = None /\ wait[d] = "no"
<1>1. IsCall(Head(toWio))
  BY DEF IsCall
<1>2. /\ holder \in Clients /\ Kind[holder] = kind /\ wait[holder] = "answer"
      /\ request[holder] = Head(toWio) /\ request[holder].cmd[2] = step
      /\ \A ack \in Acks : ack.cmd # request[holder].cmd
      /\ \A d \in Clients \ {holder} : bulk[d] = None /\ wait[d] = "no"
  BY HolderCalls DEF Sound
<1> QED BY <1>1, <1>2, CallIsLast

-----------------------------------------------------------------------------
(***************************************************************************)
(* The parts of the invariant that a step leaves alone.                    *)
(***************************************************************************)

LEMMA SoundParts ==
  ASSUME Sound
  PROVE  /\ OwnerInv /\ TypeInv /\ HolderWaits /\ Sync
         /\ RoomInv /\ PlacedInv /\ BusyCalm /\ RxCalm /\ XferOwned
         /\ \A c \in Clients : ReceiverInv(c) /\ HostInv(c)
         /\ toWio \in Seq(Frames) /\ toEsp \in Seq(Ack)
BY DEF Sound, ClientInv, LinkInv, TypeInv, LinkTyped

\* The task that owns the link makes no request: nor does any other client.
LEMMA OwnerFree ==
  ASSUME Sound, NEW c \in Clients, bulk[c] # None, wait[c] = "no"
  PROVE  /\ holder \notin Clients
         /\ \A d \in Clients : wait[d] = "no"
         /\ \A d \in Clients \ {c} : bulk[d] = None
<1>1. \A d \in Clients \ {c} : bulk[d] = None /\ wait[d] = "no"
  BY SoundParts, OtherIdle DEF Claims
<1>2. holder \in Clients => wait[holder] = "answer"
  BY SoundParts DEF HolderWaits
<1> QED BY <1>1, <1>2

LEMMA BacklogShrinks ==
  ASSUME Sound, toWio' = toWio \/ toWio' = <<>> \/ (toWio # <<>> /\ toWio' = Tail(toWio)),
         NEW n \in Nat, Backlog(n)
  PROVE  Backlog(n)'
<1>1. Len(toWio) \in Nat /\ (NoCall(toWio) => Len(toWio) <= n) /\ Len(toWio) <= n + 1
  BY SoundParts DEF Backlog
<1>2. CASE toWio' = toWio
  BY <1>2 DEF Backlog
<1>3. CASE toWio' = <<>>
  BY <1>3 DEF Backlog
<1>4. CASE toWio # <<>> /\ toWio' = Tail(toWio)
  <2>1. Len(toWio') = Len(toWio) - 1
    BY <1>4, SoundParts, TailLast
  <2> QED BY <1>1, <2>1 DEF Backlog
<1> QED BY <1>2, <1>3, <1>4

LEMMA RoomShrinks ==
  ASSUME Sound, toWio' = toWio \/ toWio' = <<>> \/ (toWio # <<>> /\ toWio' = Tail(toWio)),
         \A c \in Clients : bulk'[c] # None => bulk[c] # None /\ (Chunking(c) => Chunking(c)')
  PROVE  RoomInv'
<1>1. Backlog(3)'
  BY SoundParts, BacklogShrinks DEF RoomInv
<1>2. ASSUME NEW c \in Clients, bulk'[c] # None PROVE Backlog(IF Chunking(c) THEN 2 ELSE 1)'
  <2>1. Backlog(IF Chunking(c) THEN 2 ELSE 1)
    BY <1>2, SoundParts DEF RoomInv
  <2>2. CASE Chunking(c)
    <3>1. Backlog(2)' /\ Chunking(c)'
      BY <1>2, <2>1, <2>2, BacklogShrinks
    <3> QED BY <3>1
  <2>3. CASE ~Chunking(c)
    <3>1. Backlog(1)'
      BY <2>1, <2>3, BacklogShrinks
    <3>2. Len(toWio') \in Nat
      BY SoundParts, TailLast
    <3> QED BY <3>1, <3>2 DEF Backlog
  <2> QED BY <2>2, <2>3
<1> QED BY <1>1, <1>2 DEF RoomInv

LEMMA RoomEmpty ==
  ASSUME Len(toWio') \in Nat, Len(toWio') <= 1
  PROVE  RoomInv'
BY DEF RoomInv, Backlog

\* A step that tells a client's receiver nothing.
LEMMA ReceiverSame ==
  ASSUME NEW d \in Clients, ReceiverInv(d),
         bulk'[d] = bulk[d], wait'[d] = wait[d], request'[d] = request[d],
         rx'[Kind[d]] = rx[Kind[d]], committed \subseteq committed',
         bulk[d] # None => FwAbort \notin Range(toWio'),
         wait[d] = "answer" /\ toWio = <<>> => toWio' = <<>>,
         \A ack \in Acks' : ack \in Acks \/ wait[d] # "answer" \/ ack.cmd # request[d].cmd
  PROVE  ReceiverInv(d)'
<1>1. \A item, n : Filled(d, item, n) => Filled(d, item, n)'
  BY DEF Filled
<1>2. Refused(d) => Refused(d)'
  BY DEF Refused, Refuses
<1>3. /\ Chunking(d)' <=> Chunking(d)
      /\ Beginning(d)' <=> Beginning(d)
      /\ Ending(d)' <=> Ending(d)
  BY DEF Chunking, Beginning, Ending
<1>4. KeepsInv(d)'
  BY <1>1, <1>2, <1>3 DEF ReceiverInv, KeepsInv
<1>5. ASSUME NEW ack \in Acks' PROVE AckMeans(d, ack)'
  BY <1>1, <1>3, <1>5 DEF ReceiverInv, AckMeans, Refuses
<1> QED BY <1>4, <1>5 DEF ReceiverInv

LEMMA ReceiverIdle ==
  ASSUME NEW d \in Clients, bulk'[d] = None, wait'[d] = "no"
  PROVE  ReceiverInv(d)'
BY DEF ReceiverInv, KeepsInv, AckMeans

LEMMA AcceptedSame ==
  ASSUME NEW d \in Clients, Accepted(d), wait'[d] = wait[d], request'[d] = request[d],
         \A ack \in Acks : ack.cmd = request[d].cmd => ack \in Acks'
  PROVE  Accepted(d)'
BY DEF Accepted, Beginning

\* The busy flag is what the last frame of its kind says.
LEMMA BusyFrames == /\ RadioBusy(TRUE) # RadioBusy(FALSE)
                    /\ FwAbort # RadioBusy(TRUE) /\ FwAbort # RadioBusy(FALSE)
<1>1. RadioBusy(TRUE).arg = TRUE /\ RadioBusy(FALSE).arg = FALSE
  BY DEF RadioBusy, Frame
<1>2. /\ FwAbort.cmd[1] = "FIRMWARE"
      /\ RadioBusy(TRUE).cmd[1] = "LINK" /\ RadioBusy(FALSE).cmd[1] = "LINK"
  BY DEF FwAbort, RadioBusy, Frame
<1> QED BY <1>1, <1>2

LEMMA CalmAppend ==
  ASSUME NEW s \in Seq(Frames), NEW f \in Frames, f # RadioBusy(TRUE), NEW on, EndsCalm(s, on)
  PROVE  EndsCalm(Append(s, f), on)
<1> DEFINE t == Append(s, f)
<1>1. /\ Len(s) \in Nat /\ DOMAIN s = 1..Len(s) /\ DOMAIN t = 1..(Len(s) + 1)
      /\ t[Len(t)] = f /\ Len(t) = Len(s) + 1
      /\ \A i \in 1..Len(s) : t[i] = s[i]
      /\ Range(t) = Range(s) \cup {f}
  BY AppendLast
<1> HIDE DEF t
<1>2. ASSUME NEW i \in DOMAIN t, t[i] = RadioBusy(TRUE)
      PROVE  \E j \in DOMAIN t : j > i /\ t[j] = RadioBusy(FALSE)
  <2>1. i # Len(t)
    BY <1>1, <1>2
  <2>2. i \in 1..Len(s)
    BY <1>1, <2>1
  <2>3. PICK j \in DOMAIN s : j > i /\ s[j] = RadioBusy(FALSE)
    BY <1>1, <1>2, <2>2 DEF EndsCalm
  <2>4. j \in DOMAIN t /\ t[j] = s[j]
    BY <1>1
  <2> QED BY <2>3, <2>4
<1>3. on => RadioBusy(FALSE) \in Range(t)
  BY <1>1 DEF EndsCalm
<1> QED BY <1>2, <1>3 DEF EndsCalm, t

\* Reading a frame changes nothing about the last word, also when it is one.
LEMMA CalmTail ==
  ASSUME NEW s \in Seq(Frames), s # <<>>, NEW on, NEW now \in BOOLEAN, EndsCalm(s, on),
         Head(s) = RadioBusy(now) \/ (Head(s) # RadioBusy(FALSE) /\ now = on)
  PROVE  EndsCalm(Tail(s), now)
<1> DEFINE t == Tail(s)
<1>1. /\ Len(s) \in Nat /\ DOMAIN s = 1..Len(s) /\ DOMAIN t = 1..(Len(s) - 1)
      /\ Head(s) = s[1] /\ Len(s) > 0
      /\ \A i \in 1..(Len(s) - 1) : t[i] = s[i + 1]
      /\ Range(s) = Range(t) \cup {Head(s)}
  BY TailLast
<1> HIDE DEF t
<1>2. ASSUME NEW k \in DOMAIN s, s[k] = RadioBusy(TRUE)
      PROVE  \E j \in DOMAIN t : j >= k /\ t[j] = RadioBusy(FALSE)
  <2>1. PICK j \in DOMAIN s : j > k /\ s[j] = RadioBusy(FALSE)
    BY <1>2 DEF EndsCalm
  <2>2. j \in Int /\ k \in Int /\ k >= 1 /\ j <= Len(s)
    BY <1>1
  <2>3. j - 1 \in DOMAIN t /\ j - 1 >= k /\ (j - 1) + 1 = j
    BY <1>1, <2>1, <2>2
  <2>4. t[j - 1] = s[(j - 1) + 1]
    BY <1>1, <2>3
  <2>5. t[j - 1] = RadioBusy(FALSE)
    BY <2>1, <2>3, <2>4
  <2> QED BY <2>3, <2>5
<1>3. ASSUME NEW i \in DOMAIN t, t[i] = RadioBusy(TRUE)
      PROVE  \E j \in DOMAIN t : j > i /\ t[j] = RadioBusy(FALSE)
  <2>1. i \in Int /\ i \in 1..(Len(s) - 1)
    BY <1>1, <1>3
  <2>2. i + 1 \in DOMAIN s
    BY <1>1, <2>1
  <2>3. s[i + 1] = RadioBusy(TRUE)
    BY <1>1, <1>3, <2>1
  <2>4. PICK j \in DOMAIN t : j >= i + 1 /\ t[j] = RadioBusy(FALSE)
    BY <1>2, <2>2, <2>3
  <2>5. j \in Int
    BY <1>1
  <2>6. j > i
    BY <2>1, <2>4, <2>5
  <2> QED BY <2>4, <2>6
<1>4. ASSUME now PROVE RadioBusy(FALSE) \in Range(t)
  <2>1. CASE Head(s) = RadioBusy(now)
    <3>1. now = TRUE
      BY <1>4
    <3>2. RadioBusy(now) = RadioBusy(TRUE)
      BY <3>1
    <3>3. 1 \in DOMAIN s
      BY <1>1
    <3>4. s[1] = RadioBusy(TRUE)
      BY <1>1, <2>1, <3>2
    <3> QED BY <1>2, <3>3, <3>4 DEF Range
  <2>2. CASE Head(s) # RadioBusy(FALSE) /\ now = on
    BY <1>1, <1>4, <2>2 DEF EndsCalm
  <2> QED BY <2>1, <2>2
<1> QED BY <1>3, <1>4 DEF EndsCalm, t

\* Reading a frame that is no call leaves a client's call on its way.
LEMMA PlacedTail ==
  ASSUME Sound, toWio # <<>>, ~IsCall(Head(toWio)), toWio' = Tail(toWio), UNCHANGED <<holder, request>>
  PROVE  PlacedInv' /\ (holder \in Clients => toWio' # <<>>)
<1> SUFFICES ASSUME holder \in Clients PROVE GoesOut(holder)'
  BY DEF PlacedInv, GoesOut
<1>1. toWio[Len(toWio)] = request[holder]
  BY SoundParts DEF PlacedInv, GoesOut, ComesBack
<1>2. IsCall(request[holder])
  BY SoundParts, RequestIsCall DEF HolderWaits, TypeInv
<1>3. Head(toWio) = toWio[1] /\ (Tail(toWio) = <<>> <=> Len(toWio) = 1)
      /\ (Tail(toWio) # <<>> => Tail(toWio)[Len(Tail(toWio))] = toWio[Len(toWio)])
  BY SoundParts, TailLast
<1>4. Tail(toWio) # <<>>
  BY <1>1, <1>2, <1>3
<1> QED BY <1>1, <1>3, <1>4 DEF GoesOut

LEMMA PlacedSame ==
  ASSUME PlacedInv, UNCHANGED <<toWio, toEsp, signal>>, holder' \in {holder, None},
         \A c \in Clients : holder = c => request'[c] = request[c]
  PROVE  PlacedInv'
BY DEF PlacedInv, GoesOut, ComesBack


-----------------------------------------------------------------------------
(***************************************************************************)
(* The ESP's steps.                                                        *)
(***************************************************************************)

\* A step that brings neither a frame to the WIO nor a new ack.
LEMMA LinkQuiet ==
  ASSUME Sound, UNCHANGED <<bulk, xferActive, toWio, rx, busy, committed>>,
         \A c \in Clients : wait'[c] = wait[c] /\ request'[c] = request[c],
         PlacedInv', Acks' \subseteq Acks, \A c \in Clients : Accepted(c) => Accepted(c)'
  PROVE  LinkInv'
<1>1. RoomInv'
  BY SoundParts, RoomShrinks DEF Chunking
<1>2. ASSUME NEW d \in Clients PROVE ReceiverInv(d)'
  <2>1. bulk[d] # None => FwAbort \notin Range(toWio')
    BY SoundParts DEF ReceiverInv, KeepsInv
  <2>2. rx'[Kind[d]] = rx[Kind[d]]
    OBVIOUS
  <2> QED BY <2>1, <2>2, SoundParts, ReceiverSame
<1>3. BusyCalm'
  BY SoundParts DEF BusyCalm
<1>4. RxCalm'
  BY SoundParts DEF RxCalm
<1>5. XferOwned'
  BY SoundParts DEF XferOwned, Claims, Beginning
<1> QED BY <1>1, <1>2, <1>3, <1>4, <1>5 DEF LinkInv

LEMMA LinkUnchanged ==
  ASSUME Sound, UNCHANGED <<bulk, callVars, xferActive, holder, signal, linkVars, rx, busy, committed>>
  PROVE  LinkInv'
<1> USE DEF callVars, linkVars
<1>1. PlacedInv'
  BY SoundParts, PlacedSame
<1>2. Acks' = Acks
  BY DEF Acks
<1>3. \A c \in Clients : Accepted(c) => Accepted(c)'
  BY <1>2 DEF Accepted, Beginning
<1> QED BY <1>1, <1>2, <1>3, LinkQuiet

LEMMA RoomForBusy ==
  ASSUME Sound, LinkHoldsAll, NEW c \in Clients, bulk[c] # None, wait[c] = "no"
  PROVE  Len(toWio) \in Nat /\ Len(toWio) + 1 < LinkRoom /\ Backlog(1)
<1>1. Backlog(1) /\ Len(toWio) \in Nat
  BY SoundParts DEF RoomInv, Chunking
<1> QED BY <1>1, Bounds DEF Backlog, LinkHoldsAll

\* A frame that finds room, and is no call.
LEMMA FrameQueued ==
  ASSUME NEW s \in Seq(Frames), Len(s) < LinkRoom, NEW f \in Frames, ~IsCall(f)
  PROVE  /\ Queued(s, f) = Append(s, f)
         /\ Queued(s, f) \in Seq(Frames) /\ Len(Queued(s, f)) = Len(s) + 1 /\ Len(s) \in Nat
         /\ Range(Queued(s, f)) = Range(s) \cup {f}
         /\ NoCall(Queued(s, f)) <=> NoCall(s)
<1>1. Queued(s, f) = Append(s, f)
  BY DEF Queued
<1>2. /\ Append(s, f) \in Seq(Frames) /\ Len(Append(s, f)) = Len(s) + 1 /\ Len(s) \in Nat
      /\ Range(Append(s, f)) = Range(s) \cup {f}
  BY AppendLast
<1>3. NoCall(Append(s, f)) <=> NoCall(s)
  BY AppendCallOnly
<1> QED BY <1>1, <1>2, <1>3

LEMMA BusyQueued ==
  ASSUME NEW s \in Seq(Frames), Len(s) < LinkRoom, NEW f \in {RadioBusy(TRUE), RadioBusy(FALSE)}
  PROVE  /\ Queued(s, f) \in Seq(Frames) /\ Len(Queued(s, f)) = Len(s) + 1 /\ Len(s) \in Nat
         /\ Range(Queued(s, f)) = Range(s) \cup {f}
         /\ NoCall(Queued(s, f)) <=> NoCall(s)
<1>1. f \in Frames /\ ~IsCall(f)
  BY FramesSent, NotCalls
<1> QED BY <1>1, FrameQueued

\* A request that is made, and waits for the lock.
LEMMA ForwardLink ==
  ASSUME Sound, LinkHoldsAll, NEW c \in Clients, wait[c] = "no",
         NEW step \in {"begin", "data", "end"}, NEW arg, Forward(c, step, arg),
         UNCHANGED <<bulk, holder, signal, toEsp, rx, busy, committed>>,
         step = "begin" => ~xferActive /\ xferActive' /\ UNCHANGED toWio,
         step # "begin" => bulk[c] # None /\ UNCHANGED xferActive,
         step = "data" => /\ arg.item = bulk[c].item /\ arg.chunk = arg.seq + 1
                          /\ bulk[c].next < Chunks
                          /\ Send(RadioBusy(TRUE)),
         step = "end" => bulk[c].next = Chunks /\ UNCHANGED toWio
  PROVE  LinkInv'
<1>1. /\ wait'[c] = "lock" /\ request'[c].cmd[2] = step /\ request'[c].arg = arg
      /\ \A r \in Requesters \ {c} : wait'[r] = wait[r] /\ request'[r] = request[r]
  BY SoundParts DEF Forward, Request, Frame, OwnerInv, CallsWellFormed
<1>2. step = "begin" => \A d \in Clients : bulk[d] = None
  BY SoundParts DEF OwnerInv, OneOwner, Claims
<1>3. step # "begin" => holder \notin Clients /\ \A d \in Clients \ {c} : bulk[d] = None /\ wait[d] = "no"
  BY OwnerFree
<1>4. ASSUME bulk[c] # None PROVE Len(toWio) < LinkRoom
  <2>1. Len(toWio) \in Nat /\ Len(toWio) + 1 < LinkRoom
    BY <1>4, RoomForBusy
  <2> QED BY <2>1, Bounds
<1>5. step = "data" => /\ Len(toWio') = Len(toWio) + 1 /\ Len(toWio) \in Nat
                       /\ Range(toWio') = Range(toWio) \cup {RadioBusy(TRUE)}
                       /\ (NoCall(toWio') <=> NoCall(toWio))
  <2>1. RadioBusy(TRUE) \in {RadioBusy(TRUE), RadioBusy(FALSE)}
    OBVIOUS
  <2>2. bulk[c] # None => /\ Len(Queued(toWio, RadioBusy(TRUE))) = Len(toWio) + 1 /\ Len(toWio) \in Nat
                          /\ Range(Queued(toWio, RadioBusy(TRUE))) = Range(toWio) \cup {RadioBusy(TRUE)}
                          /\ (NoCall(Queued(toWio, RadioBusy(TRUE))) <=> NoCall(toWio))
    BY <1>4, <2>1, SoundParts, BusyQueued
  <2>3. step = "data" => bulk[c] # None /\ toWio' = Queued(toWio, RadioBusy(TRUE))
    BY DEF Send
  <2> QED BY <2>2, <2>3
<1>6. RoomInv'
  <2>1. CASE step = "begin"
    <3>1. Backlog(3)'
      BY <2>1, SoundParts DEF RoomInv, Backlog
    <3> QED BY <1>2, <2>1, <3>1 DEF RoomInv
  <2>2. CASE step = "data"
    <3>1. Backlog(1)
      BY <2>2, RoomForBusy
    <3>2. Backlog(2)' /\ Backlog(3)'
      BY <1>5, <2>2, <3>1 DEF Backlog
    <3>3. Chunking(c)'
      BY <1>1, <2>2 DEF Chunking
    <3> QED BY <1>3, <2>2, <3>2, <3>3 DEF RoomInv
  <2>3. CASE step = "end"
    <3>1. Backlog(1)
      BY <2>3, RoomForBusy
    <3>2. Backlog(1)' /\ Backlog(3)'
      BY <2>3, <3>1, SoundParts DEF RoomInv, Backlog
    <3>3. ~Chunking(c)'
      BY <1>1, <2>3 DEF Chunking
    <3> QED BY <1>3, <2>3, <3>2, <3>3 DEF RoomInv
  <2> QED BY <2>1, <2>2, <2>3
<1>7. PlacedInv'
  <2>1. holder # c
    BY SoundParts DEF HolderWaits
  <2> QED BY <1>1, <1>3, <2>1, SoundParts, PlacedSame DEF PlacedInv
<1>8. ASSUME NEW d \in Clients PROVE ReceiverInv(d)'
  <2>1. CASE d # c /\ step = "begin"
    <3>1. Acks' = Acks
      BY DEF Acks
    <3> QED BY <1>1, <1>2, <2>1, <3>1, SoundParts, ReceiverSame
  <2>2. CASE d # c /\ step # "begin"
    BY <1>1, <1>3, <2>2, ReceiverIdle
  <2>3. CASE d = c
    <3>1. bulk[c] # None => Filled(c, bulk[c].item, bulk[c].next) \/ Refused(c)
      BY SoundParts DEF ReceiverInv, KeepsInv
    <3>2. bulk[c] # None => Filled(c, bulk[c].item, bulk[c].next)' \/ Refused(c)'
      BY <3>1 DEF Filled, Refused, Refuses
    <3>3. bulk[c] # None => FwAbort \notin Range(toWio')
      BY <1>5, SoundParts, BusyFrames DEF ReceiverInv, KeepsInv
    <3>4. bulk[c] # None /\ Chunking(c)' => step = "data"
      BY <1>1 DEF Chunking
    <3>5. bulk[c] # None /\ Ending(c)' => step = "end"
      BY <1>1 DEF Ending
    <3>6. KeepsInv(c)'
      BY <1>1, <3>2, <3>3, <3>4, <3>5 DEF KeepsInv
    <3>7. \A ack \in Acks' : AckMeans(c, ack)'
      BY <1>1 DEF AckMeans
    <3> QED BY <2>3, <3>6, <3>7 DEF ReceiverInv
  <2> QED BY <2>1, <2>2, <2>3
<1>9. BusyCalm'
  BY SoundParts DEF BusyCalm
<1>10. RxCalm'
  <2>1. FwAbort \in Range(toWio) => FwAbort \in Range(toWio')
    BY <1>5
  <2>2. ASSUME NEW d \in Clients, Accepted(d) PROVE Accepted(d)'
    <3>1. d # c
      BY <2>2 DEF Accepted
    <3>2. Acks' = Acks
      BY DEF Acks
    <3> QED BY <1>1, <2>2, <3>1, <3>2, AcceptedSame
  <2> QED BY <2>1, <2>2, SoundParts DEF RxCalm
<1>11. XferOwned'
  <2>1. step = "begin" => Claims(c)'
    BY <1>1 DEF Claims, Beginning
  <2>2. step # "begin" => Claims(c)'
    BY DEF Claims
  <2> QED BY <2>1, <2>2 DEF XferOwned
<1> QED BY <1>6, <1>7, <1>8, <1>9, <1>10, <1>11 DEF LinkInv

LEMMA CalmClosed ==
  ASSUME NEW s \in Seq(Frames), NEW on
  PROVE  EndsCalm(Append(s, RadioBusy(FALSE)), on)
<1> DEFINE t == Append(s, RadioBusy(FALSE))
<1>1. /\ Len(s) \in Nat /\ DOMAIN t = 1..(Len(s) + 1) /\ Len(t) = Len(s) + 1
      /\ t[Len(t)] = RadioBusy(FALSE) /\ Range(t) = Range(s) \cup {RadioBusy(FALSE)}
  <2> DEFINE f == RadioBusy(FALSE)
  <2>1. f \in Frames
    BY FramesSent
  <2> HIDE DEF f
  <2>2. /\ Len(s) \in Nat /\ DOMAIN Append(s, f) = 1..(Len(s) + 1) /\ Len(Append(s, f)) = Len(s) + 1
        /\ Append(s, f)[Len(Append(s, f))] = f /\ Range(Append(s, f)) = Range(s) \cup {f}
    BY <2>1, AppendLast
  <2> QED BY <2>2 DEF f
<1> HIDE DEF t
<1>2. ASSUME NEW i \in DOMAIN t, t[i] = RadioBusy(TRUE)
      PROVE  \E j \in DOMAIN t : j > i /\ t[j] = RadioBusy(FALSE)
  <2>1. i # Len(t)
    BY <1>1, <1>2, BusyFrames
  <2>2. Len(t) \in DOMAIN t /\ Len(t) > i
    BY <1>1, <2>1
  <2> QED BY <1>1, <2>2
<1> QED BY <1>1, <1>2 DEF EndsCalm, t

LEMMA AbandonLink ==
  ASSUME Sound, LinkHoldsAll, NEW c \in Clients, wait[c] = "no", Abandon(c),
         UNCHANGED <<callVars, holder, signal, toEsp, rx, busy, committed>>
  PROVE  LinkInv'
<1>1. CASE bulk[c] = None
  BY <1>1, LinkUnchanged DEF Abandon, linkVars
<1>2. CASE bulk[c] # None
  <2> DEFINE first == Append(toWio, FwAbort)
             both == Append(first, RadioBusy(FALSE))
  <2>1. /\ holder \notin Clients
        /\ \A d \in Clients : wait[d] = "no"
        /\ \A d \in Clients \ {c} : bulk[d] = None
    BY <1>2, OwnerFree
  <2>2. Len(toWio) \in Nat /\ Len(toWio) + 1 < LinkRoom /\ Backlog(1) /\ toWio \in Seq(Frames)
    BY <1>2, RoomForBusy, SoundParts
  <2>3. /\ first \in Seq(Frames) /\ Len(first) = Len(toWio) + 1
        /\ FwAbort \in Range(first)
        /\ NoCall(first) <=> NoCall(toWio)
    BY <2>2, AppendLast, AppendCallOnly, FramesSent, NotCalls
  <2>4. toWio' = Queued(Queued(toWio, FwAbort), RadioBusy(FALSE))
    BY <1>2 DEF Abandon, SendTwo
  <2>5. Queued(toWio, FwAbort) = first
    BY <2>2, Bounds DEF Queued
  <2> HIDE DEF first
  <2>6. toWio' = both
    BY <2>2, <2>3, <2>4, <2>5, Bounds DEF Queued
  <2>7. /\ Len(both) = Len(first) + 1
        /\ FwAbort \in Range(both)
        /\ NoCall(both) <=> NoCall(first)
    <3>1. Len(first) < LinkRoom
      BY <2>2, <2>3, Bounds
    <3>2. Queued(first, RadioBusy(FALSE)) = both
      BY <3>1 DEF Queued
    <3> HIDE DEF both
    <3> QED BY <2>3, <3>1, <3>2, BusyQueued
  <2>8. EndsCalm(both, busy)
    BY <2>3, CalmClosed
  <2> HIDE DEF both
  <2>9. xferActive' = FALSE /\ \A d \in Clients : bulk'[d] = None /\ wait'[d] = "no"
    BY <1>2, <2>1, SoundParts DEF Abandon, Release, callVars, OwnerInv, CallsWellFormed
  <2>10. RoomInv'
    <3>1. Backlog(3)'
      BY <2>2, <2>3, <2>6, <2>7 DEF Backlog
    <3> QED BY <2>9, <3>1 DEF RoomInv
  <2>11. PlacedInv'
    BY <2>1 DEF PlacedInv
  <2>12. \A d \in Clients : ReceiverInv(d)'
    BY <2>9, ReceiverIdle
  <2>13. BusyCalm'
    BY <2>6, <2>8 DEF BusyCalm
  <2>14. RxCalm'
    BY <2>6, <2>7 DEF RxCalm
  <2>15. XferOwned'
    BY <2>9 DEF XferOwned
  <2> QED BY <2>10, <2>11, <2>12, <2>13, <2>14, <2>15 DEF LinkInv
<1> QED BY <1>1, <1>2

\* The signal is the only ack that is left when a client's request returns.
LEMMA SignalMeans ==
  ASSUME Sound, OnlyClientsFailed', NEW c \in Clients, NEW status, Returns(c, status)
  PROVE  /\ AckMeans(c, signal) /\ signal.cmd = request[c].cmd /\ Acks = {signal}
         /\ status = "OK" <=> signal.ok
         /\ \A d \in Clients \ {c} : bulk[d] = None /\ wait[d] = "no"
<1>1. /\ signal # None /\ signal.cmd = request[c].cmd /\ signal \in Acks
      /\ status = IF signal.ok THEN "OK" ELSE "WIO_ERROR"
      /\ toWio = <<>> /\ toEsp = <<>>
  BY CallReturns
<1>2. AckMeans(c, signal)
  BY <1>1, SoundParts DEF ReceiverInv
<1>3. Acks = {signal}
  BY <1>1, EmptyCalls DEF Acks
<1>4. signal \in Ack
  BY <1>1, SoundParts DEF TypeInv, EspTyped
<1>5. wait[c] = "answer"
  BY DEF Returns
<1>6. \A d \in Clients \ {c} : bulk[d] = None /\ wait[d] = "no"
  BY <1>5, SoundParts, WaitingClaims, OtherIdle
<1> QED BY <1>1, <1>2, <1>3, <1>6

\* A client that owns nothing else, once its request has returned.
LEMMA ReturnedLink ==
  ASSUME Sound, LinkHoldsAll, OnlyClientsFailed', NEW c \in Clients, NEW status, Returns(c, status),
         \A d \in Clients \ {c} : bulk'[d] = bulk[d],
         UNCHANGED <<rx, busy, committed, toEsp>>,
         NEW f \in {RadioBusy(TRUE), RadioBusy(FALSE)}, UNCHANGED toWio \/ Send(f),
         KeepsInv(c)', BusyCalm', RxCalm', XferOwned'
  PROVE  LinkInv'
<1>1. toWio = <<>> /\ \A d \in Clients \ {c} : bulk[d] = None /\ wait[d] = "no"
  BY CallReturns, SignalMeans
<1>2. /\ holder' = None /\ wait'[c] = "no" /\ \A d \in Clients \ {c} : wait'[d] = wait[d]
  BY SoundParts DEF Returns, Drop, OwnerInv, CallsWellFormed
<1>3. RoomInv'
  <2>1. CASE UNCHANGED toWio
    <3>1. Len(toWio') = 0
      BY <1>1, <2>1
    <3> QED BY <3>1, RoomEmpty
  <2>2. CASE Send(f)
    <3>1. toWio' = Queued(toWio, f)
      BY <2>2 DEF Send
    <3>2. Len(toWio) = 0
      BY <1>1
    <3>3. Len(toWio) < LinkRoom
      BY <3>2, Bounds
    <3>4. Len(toWio') = Len(toWio) + 1
      BY <3>1, <3>3, SoundParts, BusyQueued
    <3> QED BY <3>2, <3>4, RoomEmpty
  <2> QED BY <2>1, <2>2
<1>4. PlacedInv'
  BY <1>2 DEF PlacedInv
<1>5. ASSUME NEW d \in Clients PROVE ReceiverInv(d)'
  <2>1. CASE d = c
    BY <1>2, <2>1 DEF ReceiverInv, AckMeans
  <2>2. CASE d # c
    BY <1>1, <1>2, <2>2, ReceiverIdle
  <2> QED BY <2>1, <2>2
<1> QED BY <1>3, <1>4, <1>5 DEF LinkInv

\* Nothing but the busy flag is on the link then.
LEMMA BusyAlone ==
  ASSUME NEW f \in {RadioBusy(TRUE), RadioBusy(FALSE)}, toWio = <<>>, UNCHANGED toWio \/ Send(f)
  PROVE  FwAbort \notin Range(toWio) /\ FwAbort \notin Range(toWio')
<1>1. Range(toWio) = {}
  BY EmptyCalls
<1>2. CASE UNCHANGED toWio
  BY <1>1, <1>2
<1>3. CASE Send(f)
  <2>1. <<>> \in Seq(Frames) /\ Len(<<>>) = 0
    OBVIOUS
  <2>2. Len(<<>>) < LinkRoom
    BY <2>1, Bounds
  <2>3. Range(Queued(<<>>, f)) = Range(<<>>) \cup {f}
    BY <2>1, <2>2, BusyQueued
  <2> QED BY <1>1, <1>3, <2>3, BusyFrames DEF Send
<1> QED BY <1>1, <1>2, <1>3

LEMMA BeginDoneLink ==
  ASSUME Sound, LinkHoldsAll, OnlyClientsFailed', NEW c \in Clients, NEW status, BeginDone(c, status)
  PROVE  LinkInv'
<1> DEFINE f == RadioBusy(TRUE)
           granted == [item |-> request[c].arg, received |-> 0, next |-> 0]
<1>1. /\ Returns(c, status) /\ wait[c] = "answer" /\ Beginning(c)
      /\ UNCHANGED <<rx, busy, committed, toEsp>>
  BY DEF BeginDone, Resumes, Beginning, wioVars
<1>2. /\ toWio = <<>> /\ Acks = {signal} /\ signal.cmd = request[c].cmd
      /\ status = "OK" <=> signal.ok
      /\ \A d \in Clients \ {c} : bulk[d] = None /\ wait[d] = "no"
      /\ signal.ok => Filled(c, request[c].arg, 0)
  BY <1>1, CallReturns, SignalMeans DEF AckMeans
<1>3. bulk[c] = None
  BY <1>1, SoundParts DEF OwnerInv, BeginsAfresh
<1>4. wait'[c] = "no"
  BY <1>1, SoundParts DEF Returns, Drop, OwnerInv, CallsWellFormed
<1>5. f \in {RadioBusy(TRUE), RadioBusy(FALSE)} /\ (UNCHANGED toWio \/ Send(f))
  BY DEF BeginDone
<1>6. FwAbort \notin Range(toWio) /\ FwAbort \notin Range(toWio')
  BY <1>2, <1>5, BusyAlone
<1>7. CASE status = "OK"
  <2>1. bulk' = [bulk EXCEPT ![c] = granted] /\ UNCHANGED xferActive
    BY <1>7 DEF BeginDone
  <2>2. bulk'[c] = granted /\ \A d \in Clients \ {c} : bulk'[d] = bulk[d]
    BY <2>1, SoundParts DEF OwnerInv, CallsWellFormed
  <2>3. granted.item = request[c].arg /\ granted.next = 0 /\ granted # None
    <3>1. granted \in BulkState
      BY <1>1, SoundParts, Bounds DEF TypeInv, RequestsTyped, ItemFrames, ChunkFrames, Beginning, BulkState
    <3> QED BY <3>1, OptionAssumption
  <2> HIDE DEF granted
  <2>4. Filled(c, bulk[c].item, bulk[c].next)'
    BY <1>1, <1>2, <1>7, <2>2, <2>3 DEF Filled
  <2>5. KeepsInv(c)'
    BY <1>4, <1>6, <2>4 DEF KeepsInv, Chunking, Ending
  <2>6. BusyCalm'
    BY <2>2, <2>3 DEF BusyCalm
  <2>7. RxCalm'
    <3>1. rx["FIRMWARE"] # None => Kind[c] = "FIRMWARE"
      BY <1>2, <1>3, <1>6, SoundParts DEF RxCalm, Accepted
    <3> QED BY <1>1, <2>2, <2>3, <3>1 DEF RxCalm
  <2>8. XferOwned'
    BY <2>2, <2>3 DEF XferOwned, Claims
  <2> HIDE DEF f
  <2> QED BY <1>1, <1>5, <2>2, <2>5, <2>6, <2>7, <2>8, ReturnedLink
<1>8. CASE status # "OK"
  <2>1. UNCHANGED <<bulk, toWio>> /\ xferActive' = FALSE
    BY <1>8 DEF BeginDone
  <2>2. KeepsInv(c)'
    BY <1>3, <2>1 DEF KeepsInv
  <2>3. BusyCalm'
    BY <1>1, <2>1, SoundParts DEF BusyCalm
  <2>4. RxCalm'
    BY <1>1, <1>2, <1>3, <1>6, <1>8, SoundParts DEF RxCalm, Accepted
  <2>5. XferOwned'
    BY <2>1 DEF XferOwned
  <2> HIDE DEF f
  <2> QED BY <1>1, <1>5, <2>1, <2>2, <2>3, <2>4, <2>5, ReturnedLink
<1> QED BY <1>7, <1>8

LEMMA DataDoneLink ==
  ASSUME Sound, LinkHoldsAll, OnlyClientsFailed', NEW c \in Clients, NEW status, DataDone(c, status)
  PROVE  /\ LinkInv' /\ status = "OK"
         /\ bulk'[c].next = bulk[c].next + 1 /\ bulk'[c].item = bulk[c].item /\ bulk'[c] # None
         /\ signal.value = bulk[c].next + 1
<1>1. /\ Returns(c, status) /\ wait[c] = "answer" /\ Chunking(c) /\ ~Beginning(c)
      /\ UNCHANGED <<rx, busy, committed, toEsp>>
  BY DEF DataDone, Resumes, Beginning, Chunking, wioVars
<1>2. /\ toWio = <<>> /\ Acks = {signal}
      /\ status = "OK" <=> signal.ok
      /\ \A d \in Clients \ {c} : bulk[d] = None /\ wait[d] = "no"
      /\ signal.ok /\ signal.value = bulk[c].next + 1 /\ Filled(c, bulk[c].item, bulk[c].next + 1)
  BY <1>1, CallReturns, SignalMeans DEF AckMeans
<1>3. bulk[c] # None /\ bulk[c] \in BulkState
  BY <1>1, SoundParts, WaitingClaims DEF TypeInv, BulkTyped
<1>4. wait'[c] = "no"
  BY <1>1, SoundParts DEF Returns, Drop, OwnerInv, CallsWellFormed
<1> DEFINE more == [bulk[c] EXCEPT !.next = signal.value, !.received = @ + 1]
<1>5. bulk' = [bulk EXCEPT ![c] = more] /\ UNCHANGED <<xferActive, toWio>>
  BY <1>2 DEF DataDone
<1>6. more.next = bulk[c].next + 1 /\ more.item = bulk[c].item /\ more # None
  <2>1. more.next = bulk[c].next + 1 /\ more.item = bulk[c].item
    BY <1>2, <1>3 DEF BulkState
  <2>2. more \in BulkState
    <3>1. signal.value \in 0..Chunks
      BY <1>1, <1>2, SoundParts, ReturnsTyped DEF TypeInv
    <3>2. bulk[c].received + 1 \in Nat
      BY <1>3 DEF BulkState
    <3> QED BY <1>3, <3>1, <3>2 DEF BulkState
  <2> QED BY <2>1, <2>2, OptionAssumption
<1>7. bulk'[c] = more /\ \A d \in Clients \ {c} : bulk'[d] = bulk[d]
  BY <1>5, SoundParts DEF OwnerInv, CallsWellFormed
<1> HIDE DEF more
<1>8. FwAbort \notin Range(toWio')
  BY <1>2, <1>5, EmptyCalls
<1>9. Filled(c, bulk[c].item, bulk[c].next)'
  BY <1>1, <1>2, <1>6, <1>7 DEF Filled
<1>10. KeepsInv(c)'
  BY <1>4, <1>8, <1>9 DEF KeepsInv, Chunking, Ending
<1>11. BusyCalm'
  BY <1>6, <1>7 DEF BusyCalm
<1>12. RxCalm'
  <2>1. FwAbort \notin Range(toWio)
    BY <1>2, EmptyCalls
  <2>2. rx["FIRMWARE"] # None => Kind[c] = "FIRMWARE"
    BY <1>2, <2>1, SoundParts DEF RxCalm, Accepted
  <2> QED BY <1>1, <1>6, <1>7, <2>2 DEF RxCalm
<1>13. XferOwned'
  BY <1>6, <1>7 DEF XferOwned, Claims
<1>14. LinkInv'
  <2> DEFINE f == RadioBusy(TRUE)
  <2>1. f \in {RadioBusy(TRUE), RadioBusy(FALSE)} /\ UNCHANGED toWio
    BY <1>5
  <2> HIDE DEF f
  <2> QED BY <1>1, <1>7, <1>10, <1>11, <1>12, <1>13, <2>1, ReturnedLink
<1> QED BY <1>2, <1>6, <1>7, <1>14

LEMMA EndDoneLink ==
  ASSUME Sound, LinkHoldsAll, OnlyClientsFailed', NEW c \in Clients, NEW status, EndDone(c, status)
  PROVE  /\ LinkInv' /\ status \in {"OK", "WIO_ERROR"}
         /\ bulk[c] # None /\ request[c].arg = bulk[c].item
         /\ status = "OK" => Image(bulk[c].item) \in committed /\ bulk'[c] = None
         /\ status # "OK" => Refuses(c, bulk[c].item) /\ bulk'[c] = bulk[c]
<1> DEFINE f == RadioBusy(FALSE)
<1>1. /\ Returns(c, status) /\ wait[c] = "answer" /\ Ending(c) /\ ~Beginning(c) /\ ~Chunking(c)
      /\ UNCHANGED <<rx, busy, committed, toEsp>>
  BY DEF EndDone, Resumes, Beginning, Chunking, Ending, wioVars
<1>2. /\ toWio = <<>> /\ Acks = {signal} /\ status \in {"OK", "WIO_ERROR"}
      /\ status = "OK" <=> signal.ok
      /\ \A d \in Clients \ {c} : bulk[d] = None /\ wait[d] = "no"
      /\ rx[Kind[c]] = None
      /\ IF signal.ok THEN Image(request[c].arg) \in committed ELSE Refuses(c, request[c].arg)
  BY <1>1, CallReturns, SignalMeans DEF AckMeans
<1>3. bulk[c] # None /\ request[c].arg = bulk[c].item /\ bulk[c].next = Chunks
  BY <1>1, SoundParts, WaitingClaims DEF Sync, ClientInStep, BulkInStep, ReceiverInv, KeepsInv
<1>4. wait'[c] = "no"
  BY <1>1, SoundParts DEF Returns, Drop, OwnerInv, CallsWellFormed
<1>5. f \in {RadioBusy(TRUE), RadioBusy(FALSE)} /\ (UNCHANGED toWio \/ Send(f))
  BY DEF EndDone
<1>6. FwAbort \notin Range(toWio) /\ FwAbort \notin Range(toWio')
  BY <1>2, <1>5, BusyAlone
<1>7. rx["FIRMWARE"] = None
  BY <1>2, <1>6, SoundParts DEF RxCalm, Accepted
<1>8. RxCalm'
  BY <1>1, <1>7 DEF RxCalm
<1>9. CASE status = "OK"
  <2>1. Release(c) /\ Send(f)
    BY <1>9 DEF EndDone
  <2>2. bulk'[c] = None /\ xferActive' = FALSE /\ \A d \in Clients \ {c} : bulk'[d] = bulk[d]
    BY <2>1, SoundParts DEF Release, OwnerInv, CallsWellFormed
  <2>3. KeepsInv(c)'
    BY <2>2 DEF KeepsInv
  <2>4. BusyCalm'
    <3>1. <<>> \in Seq(Frames) /\ Len(<<>>) = 0
      OBVIOUS
    <3>2. Len(toWio) < LinkRoom
      BY <1>2, <3>1, Bounds
    <3>3. toWio' = Append(<<>>, RadioBusy(FALSE))
      BY <1>2, <2>1, <3>2 DEF Send, Queued
    <3> QED BY <3>1, <3>3, CalmClosed DEF BusyCalm
  <2>5. XferOwned'
    BY <2>2 DEF XferOwned
  <2> HIDE DEF f
  <2>6. LinkInv'
    BY <1>1, <1>5, <1>8, <2>2, <2>3, <2>4, <2>5, ReturnedLink
  <2> QED BY <1>2, <1>3, <1>9, <2>2, <2>6
<1>10. CASE status # "OK"
  <2>1. UNCHANGED <<bulk, xferActive, toWio>>
    BY <1>10 DEF EndDone
  <2>2. Refused(c)'
    BY <1>1, <1>2, <1>3, <1>10, <2>1 DEF Refused, Refuses
  <2>3. KeepsInv(c)'
    BY <1>4, <1>6, <2>2 DEF KeepsInv, Chunking, Ending
  <2>4. BusyCalm'
    BY <1>3, <2>1 DEF BusyCalm
  <2>5. XferOwned'
    BY <1>3, <2>1 DEF XferOwned, Claims
  <2> HIDE DEF f
  <2>6. LinkInv'
    BY <1>1, <1>5, <1>8, <2>1, <2>3, <2>4, <2>5, ReturnedLink
  <2> QED BY <1>2, <1>3, <1>10, <2>1, <2>6
<1> QED BY <1>9, <1>10

LEMMA LockLink ==
  ASSUME Sound, LinkHoldsAll, NEW r \in Requesters, TakeLock(r)
  PROVE  LinkInv'
<1>1. /\ holder = None /\ holder' = r /\ wait[r] = "lock" /\ signal' = None
      /\ wait'[r] = "answer" /\ \A d \in Clients \ {r} : wait'[d] = wait[d]
      /\ UNCHANGED <<bulk, request, xferActive, rx, busy, committed, toEsp>>
      /\ Send(request[r])
  BY SoundParts DEF TakeLock, wioVars, OwnerInv, CallsWellFormed
<1>2. \A d \in Clients : wait[d] # "answer"
  BY <1>1, SoundParts DEF OwnerInv, LockHeld
<1>3. NoCall(toWio) /\ NoCall(toEsp)
  BY <1>1, SoundParts, FreeLockNoCall DEF Sync
<1>4. request[r] \in Frames /\ IsCall(request[r])
  BY <1>1, SoundParts, FramesSent, RequestIsCall DEF TypeInv, RequestsTyped
<1>5. Len(toWio) < LinkRoom
  BY <1>3, SoundParts, Bounds DEF RoomInv, Backlog, LinkHoldsAll
<1> DEFINE s == toWio
           f == request[r]
           t == Append(s, f)
<1>6. toWio' = t
  BY <1>1, <1>5 DEF Send, Queued
<1>7. /\ Len(t) = Len(s) + 1 /\ Len(s) \in Nat /\ t # <<>> /\ t[Len(t)] = f
      /\ Range(t) = Range(s) \cup {f}
  <2> HIDE DEF s, f
  <2>1. s \in Seq(Frames) /\ f \in Frames
    BY <1>4, SoundParts DEF s, f
  <2> QED BY <2>1, AppendLast
<1>8. ~NoCall(t)
  <2> HIDE DEF s, f
  <2>1. s \in Seq(Frames) /\ f \in Frames /\ IsCall(f)
    BY <1>4, SoundParts DEF s, f
  <2> QED BY <2>1, AppendCallOnly
<1>9. f # FwAbort /\ f # RadioBusy(TRUE)
  BY <1>4, NotCalls
<1>10. \A on : EndsCalm(s, on) => EndsCalm(t, on)
  <2> HIDE DEF s, f
  <2>1. s \in Seq(Frames) /\ f \in Frames
    BY <1>4, SoundParts DEF s, f
  <2> QED BY <1>9, <2>1, CalmAppend
<1> HIDE DEF t
<1>11. RoomInv'
  <2>1. ASSUME NEW n \in Nat, Backlog(n) PROVE Backlog(n)'
    BY <1>3, <1>6, <1>7, <1>8, <2>1 DEF Backlog
  <2>2. ASSUME NEW d \in Clients, bulk'[d] # None PROVE Backlog(IF Chunking(d) THEN 2 ELSE 1)'
    <3>1. Chunking(d)' <=> Chunking(d)
      BY <1>1 DEF Chunking
    <3>2. Backlog(IF Chunking(d) THEN 2 ELSE 1)
      BY <1>1, <2>2, SoundParts DEF RoomInv
    <3>3. CASE Chunking(d)
      <4>1. Backlog(2)'
        BY <2>1, <3>2, <3>3
      <4> QED BY <3>1, <3>3, <4>1
    <3>4. CASE ~Chunking(d)
      <4>1. Backlog(1)'
        BY <2>1, <3>2, <3>4
      <4> QED BY <3>1, <3>4, <4>1
    <3> QED BY <3>3, <3>4
  <2>3. Backlog(3)'
    BY <2>1, SoundParts DEF RoomInv
  <2> QED BY <2>2, <2>3 DEF RoomInv
<1>12. PlacedInv'
  BY <1>1, <1>6, <1>7 DEF PlacedInv, GoesOut
<1>13. ASSUME NEW d \in Clients PROVE ReceiverInv(d)'
  <2>1. wait'[d] # "no" <=> wait[d] # "no"
    BY <1>1
  <2>2. /\ Chunking(d)' <=> Chunking(d)
        /\ Ending(d)' <=> Ending(d)
    BY <1>1, <2>1 DEF Chunking, Ending
  <2>3. bulk[d] # None => Filled(d, bulk[d].item, bulk[d].next) \/ Refused(d)
    BY <1>2, SoundParts DEF ReceiverInv, KeepsInv
  <2>4. bulk[d] # None => Filled(d, bulk[d].item, bulk[d].next)' \/ Refused(d)'
    BY <1>1, <2>3 DEF Filled, Refused, Refuses
  <2>5. bulk[d] # None => FwAbort \notin Range(toWio')
    BY <1>6, <1>7, <1>9, SoundParts DEF ReceiverInv, KeepsInv
  <2>6. KeepsInv(d)'
    BY <1>1, <2>2, <2>4, <2>5, SoundParts DEF ReceiverInv, KeepsInv
  <2>7. \A ack \in Acks' : ~IsCall(ack)
    BY <1>1, <1>3, NoCallRange DEF Acks
  <2>8. wait'[d] # "no" => IsCall(request'[d])
    BY <1>1, <2>1, SoundParts, RequestIsCall DEF TypeInv
  <2>9. \A ack \in Acks' : AckMeans(d, ack)'
    BY <2>7, <2>8 DEF AckMeans, IsCall
  <2> QED BY <2>6, <2>9 DEF ReceiverInv
<1>14. BusyCalm'
  BY <1>1, <1>6, <1>10, SoundParts DEF BusyCalm
<1>15. RxCalm'
  BY <1>1, <1>2, <1>6, <1>7, SoundParts DEF RxCalm, Accepted
<1>16. XferOwned'
  BY <1>1, SoundParts DEF XferOwned, Claims, Beginning
<1> QED BY <1>11, <1>12, <1>13, <1>14, <1>15, <1>16 DEF LinkInv

LEMMA HeartbeatLink ==
  ASSUME Sound, Heartbeat \/ HeartbeatDone
  PROVE  LinkInv'
<1>1. /\ UNCHANGED <<bulk, xferActive, toWio, toEsp, rx, busy, committed>>
      /\ \A c \in Clients : wait'[c] = wait[c] /\ request'[c] = request[c]
  BY SoundParts DEF Heartbeat, HeartbeatDone, Request, Returns, Drop, wioVars, linkVars,
                    OwnerInv, CallsWellFormed
<1>2. CASE Heartbeat
  <2>1. UNCHANGED <<holder, signal>>
    BY <1>2 DEF Heartbeat
  <2>2. PlacedInv'
    BY <1>1, <2>1, SoundParts, PlacedSame
  <2>3. Acks' = Acks
    BY <1>1, <2>1 DEF Acks
  <2>4. \A c \in Clients : Accepted(c) => Accepted(c)'
    BY <1>1, <2>3 DEF Accepted, Beginning
  <2> QED BY <1>1, <2>2, <2>3, <2>4, LinkQuiet
<1>3. CASE HeartbeatDone
  <2>1. wait["heartbeat"] = "answer" /\ holder' = None /\ signal' = None
    BY <1>3 DEF HeartbeatDone, Returns
  <2>2. \A c \in Clients : wait[c] # "answer"
    BY <2>1, SoundParts DEF OwnerInv, LockHeld
  <2>3. Acks' \subseteq Acks
    BY <1>1, <2>1 DEF Acks
  <2>4. PlacedInv'
    BY <2>1 DEF PlacedInv
  <2> QED BY <1>1, <2>2, <2>3, <2>4, LinkQuiet DEF Accepted
<1> QED BY <1>2, <1>3

LEMMA SkipLink ==
  ASSUME Sound, NEW r \in Requesters, SkipAck(r)
  PROVE  LinkInv'
<1>1. /\ wait[r] = "answer" /\ signal # None /\ signal.cmd # request[r].cmd /\ signal' = None
      /\ UNCHANGED <<bulk, wait, request, xferActive, holder, toWio, toEsp, rx, busy, committed>>
  BY DEF SkipAck, callVars, wioVars, linkVars
<1>2. holder = r
  BY <1>1, SoundParts DEF OwnerInv, LockHeld
<1>3. PlacedInv'
  BY <1>1, <1>2, SoundParts DEF PlacedInv, GoesOut, ComesBack
<1>4. Acks' \subseteq Acks /\ \A ack \in Acks : ack # signal => ack \in Acks'
  BY <1>1 DEF Acks
<1>5. ASSUME NEW c \in Clients, Accepted(c) PROVE Accepted(c)'
  <2>1. c = r
    BY <1>2, <1>5, SoundParts DEF Accepted, OwnerInv, LockHeld
  <2> QED BY <1>1, <1>4, <1>5, <2>1 DEF Accepted, Beginning
<1> QED BY <1>1, <1>3, <1>4, <1>5, LinkQuiet

\* The answer to a client's call is not the ack that another one overwrites.
LEMMA ReceivesLink ==
  ASSUME Sound, LinkReceives
  PROVE  LinkInv'
<1>1. /\ toEsp # <<>> /\ signal' = Head(toEsp) /\ toEsp' = Tail(toEsp)
      /\ UNCHANGED <<bulk, wait, request, xferActive, holder, toWio, rx, busy, committed>>
  BY DEF LinkReceives, callVars, wioVars
<1>2. toEsp \in Seq(Ack)
  BY SoundParts
<1>3. /\ Len(toEsp) \in Nat /\ Len(toEsp) > 0
      /\ Head(toEsp) = toEsp[1] /\ Head(toEsp) \in Ack
      /\ Tail(toEsp) = <<>> <=> Len(toEsp) = 1
      /\ Tail(toEsp) # <<>> => Tail(toEsp)[Len(Tail(toEsp))] = toEsp[Len(toEsp)]
      /\ Range(toEsp) = Range(Tail(toEsp)) \cup {Head(toEsp)}
  BY <1>1, <1>2, TailLast
<1>4. signal' # None
  BY <1>1, <1>3, OptionAssumption
<1>5. Acks' \subseteq Acks /\ Range(toEsp) \subseteq Acks'
  BY <1>1, <1>3, <1>4 DEF Acks
<1>6. PlacedInv'
  <2>1. ASSUME NEW c \in Clients, holder = c, ComesBack(c) PROVE ComesBack(c)'
    BY <1>1, <1>3, <1>4, <2>1 DEF ComesBack
  <2>2. ASSUME NEW c \in Clients, GoesOut(c) PROVE GoesOut(c)'
    BY <1>1, <2>2 DEF GoesOut
  <2> QED BY <1>1, <2>1, <2>2, SoundParts DEF PlacedInv
<1>7. ASSUME NEW c \in Clients, Accepted(c) PROVE Accepted(c)'
  <2>1. PICK ack \in Acks : ack.cmd = request[c].cmd /\ ack.ok
    BY <1>7 DEF Accepted
  <2>2. wait[c] = "answer" /\ holder = c /\ IsCall(request[c])
    BY <1>7, SoundParts, RequestIsCall DEF Accepted, OwnerInv, LockHeld, TypeInv
  <2>3. ack \in Range(toEsp)
    <3> SUFFICES ASSUME ack = signal, signal # None PROVE FALSE
      BY DEF Acks
    <3>1. NoCall(toWio) /\ NoCall(toEsp)
      BY <2>1, <2>2, SoundParts DEF Sync, OneCallUnderWay, IsCall
    <3>2. Len(toEsp) \in DOMAIN toEsp /\ (toWio # <<>> => Len(toWio) \in DOMAIN toWio)
      BY <1>1, SoundParts, TailLast
    <3>3. GoesOut(c) \/ ComesBack(c)
      BY <2>2, SoundParts DEF PlacedInv
    <3> QED BY <1>1, <2>2, <3>1, <3>2, <3>3 DEF GoesOut, ComesBack, NoCall, IsCall
  <2> QED BY <1>1, <1>5, <1>7, <2>1, <2>3 DEF Accepted, Beginning
<1> QED BY <1>1, <1>5, <1>6, <1>7, LinkQuiet

-----------------------------------------------------------------------------
(***************************************************************************)
(* The WIO's steps.                                                        *)
(***************************************************************************)

\* A receiver of firmware belongs to the transfer whose frame the WIO reads.
LEMMA RxOwned ==
  ASSUME Sound, toWio # <<>>, NEW kind \in Kinds, NEW step \in {"begin", "data", "end"},
         Head(toWio).cmd = <<kind, step>>, rx["FIRMWARE"] # None
  PROVE  Kind[holder] = "FIRMWARE" /\ bulk[holder] # None
<1>1. /\ holder \in Clients /\ toWio = <<Head(toWio)>> /\ Tail(toWio) = <<>>
      /\ \A ack \in Acks : ack.cmd # request[holder].cmd
      /\ \A d \in Clients \ {holder} : bulk[d] = None /\ wait[d] = "no"
  BY CallRead
<1>2. FwAbort \notin Range(toWio)
  <2>1. Range(toWio) = Range(Tail(toWio)) \cup {Head(toWio)}
    BY SoundParts, TailLast
  <2>2. IsCall(Head(toWio))
    BY DEF IsCall
  <2> QED BY <1>1, <2>1, <2>2, EmptyCalls, NotCalls
<1>3. \A d \in Clients : ~Accepted(d)
  BY <1>1 DEF Accepted
<1>4. PICK d \in Clients : Kind[d] = "FIRMWARE" /\ bulk[d] # None
  BY <1>2, <1>3, SoundParts DEF RxCalm
<1> QED BY <1>1, <1>4

\* The WIO reads a client's call and answers it: what is left to show is what
\* that makes of the receiver.
LEMMA CallLink ==
  ASSUME Sound, UNCHANGED espVars, toWio # <<>>, NEW kind \in Kinds,
         NEW step \in {"begin", "data", "end"}, Head(toWio).cmd = <<kind, step>>,
         toWio' = Tail(toWio) \/ toWio' = <<>>,
         NEW ok \in BOOLEAN, NEW value \in 0..Chunks, Answer(ok, value),
         busy' = busy \/ bulk[holder] # None,
         \A k \in Kinds \ {kind} : rx'[k] \in {rx[k], None},
         step = "begin" => rx'[kind] = rx[kind] \/ ok,
         \A ack : ack.ok = ok /\ ack.value = value => AckMeans(holder, ack)'
  PROVE  LinkInv'
<1>1. /\ holder \in Clients /\ Kind[holder] = kind /\ wait[holder] = "answer"
      /\ request[holder] = Head(toWio) /\ request[holder].cmd[2] = step
      /\ toWio = <<Head(toWio)>> /\ Tail(toWio) = <<>>
      /\ \A ack \in Acks : ack.cmd # request[holder].cmd
      /\ \A d \in Clients \ {holder} : bulk[d] = None /\ wait[d] = "no"
  BY CallRead
<1>2. toWio' = <<>> /\ UNCHANGED <<bulk, wait, request, xferActive, holder, signal>>
  BY <1>1 DEF espVars
<1> DEFINE new == [ok |-> ok, cmd |-> Head(toWio).cmd, value |-> value]
<1>3. new \in Ack /\ new.cmd = Head(toWio).cmd /\ new.ok = ok /\ new.value = value
  <2>1. <<kind, step>> \in Kinds \X Steps
    OBVIOUS
  <2> QED BY <2>1 DEF Ack
<1>4. toEsp' = Append(toEsp, new)
  BY DEF Answer
<1> HIDE DEF new
<1>5. /\ toEsp' # <<>> /\ toEsp'[Len(toEsp')] = new /\ Range(toEsp') = Range(toEsp) \cup {new}
  <2> DEFINE t == Append(toEsp, new)
  <2>1. t # <<>> /\ t[Len(t)] = new /\ Range(t) = Range(toEsp) \cup {new}
    BY <1>3, SoundParts, AppendLast
  <2> QED BY <1>4, <2>1
<1>6. Acks' = Acks \cup {new}
  BY <1>2, <1>5 DEF Acks
<1>7. RoomInv'
  BY <1>2, SoundParts, RoomShrinks DEF Chunking
<1>8. PlacedInv'
  BY <1>1, <1>2, <1>3, <1>5 DEF PlacedInv, ComesBack
<1>9. ReceiverInv(holder)'
  <2>1. FwAbort \notin Range(toWio')
    BY <1>2, EmptyCalls
  <2>2. /\ Chunking(holder)' <=> Chunking(holder)
        /\ Ending(holder)' <=> Ending(holder)
    BY <1>2 DEF Chunking, Ending
  <2>3. KeepsInv(holder)'
    BY <1>1, <1>2, <2>1, <2>2, SoundParts DEF ReceiverInv, KeepsInv
  <2>4. ASSUME NEW ack \in Acks' PROVE AckMeans(holder, ack)'
    <3>1. CASE ack \in Acks
      BY <1>1, <1>2, <3>1 DEF AckMeans
    <3>2. CASE ack = new
      BY <1>3, <3>2
    <3> QED BY <1>6, <3>1, <3>2
  <2>5. \A ack \in Acks' : AckMeans(holder, ack)'
    BY <2>4
  <2> QED BY <1>2, <2>3, <2>5 DEF ReceiverInv
<1>10. ASSUME NEW d \in Clients \ {holder} PROVE ReceiverInv(d)'
  BY <1>1, <1>2, ReceiverIdle
<1>11. BusyCalm'
  <2>1. CASE bulk[holder] # None
    BY <1>1, <1>2, <2>1 DEF BusyCalm
  <2>2. CASE ~(\A d \in Clients : bulk[d] = None)
    BY <1>2, <2>2 DEF BusyCalm
  <2>3. CASE busy' = busy /\ \A d \in Clients : bulk[d] = None
    <3>1. EndsCalm(toWio, busy)
      BY <2>3, SoundParts DEF BusyCalm
    <3>2. Head(toWio) # RadioBusy(FALSE) /\ busy \in BOOLEAN
      <4>1. IsCall(Head(toWio))
        BY DEF IsCall
      <4> QED BY <4>1, SoundParts, NotCalls DEF TypeInv, WioTyped
    <3>3. EndsCalm(Tail(toWio), busy)
      BY <3>1, <3>2, SoundParts, CalmTail
    <3> QED BY <1>1, <1>2, <2>3, <3>3 DEF BusyCalm
  <2> QED BY <2>1, <2>2, <2>3
<1>12. RxCalm'
  <2> SUFFICES ASSUME rx'["FIRMWARE"] # None
               PROVE  Kind[holder] = "FIRMWARE" /\ (bulk[holder] # None \/ Accepted(holder)')
    BY <1>1, <1>2 DEF RxCalm
  <2>1. CASE rx["FIRMWARE"] # None
    BY <2>1, RxOwned
  <2>2. CASE rx["FIRMWARE"] = None
    <3>1. kind = "FIRMWARE"
      BY <2>2
    <3>2. CASE step = "begin"
      <4>1. ok
        BY <2>2, <3>1, <3>2
      <4> QED BY <1>1, <1>2, <1>3, <1>6, <3>1, <3>2, <4>1 DEF Accepted, Beginning
    <3>3. CASE step # "begin"
      <4>1. bulk[holder] # None
        BY <1>1, <3>3, SoundParts, WaitingClaims DEF Beginning
      <4> QED BY <1>1, <3>1, <4>1
    <3> QED BY <3>2, <3>3
  <2> QED BY <2>1, <2>2
<1>13. XferOwned'
  BY <1>2, SoundParts DEF XferOwned, Claims, Beginning
<1>14. \A d \in Clients : ReceiverInv(d)'
  BY <1>2, <1>9, <1>10
<1> QED BY <1>7, <1>8, <1>11, <1>12, <1>13, <1>14 DEF LinkInv

LEMMA PartEmpty == \A item : Part(item, 0) = <<>>
BY DEF Part

LEMMA PartAppend ==
  ASSUME NEW n \in Nat, NEW item
  PROVE  Append(Part(item, n), <<item, n + 1>>) = Part(item, n + 1)
<1> DEFINE s == Part(item, n)
           t == Append(s, <<item, n + 1>>)
<1>1. s \in Seq({item} \X Nat) /\ Len(s) = n /\ \A i \in 1..n : s[i] = <<item, i>>
  BY DEF Part
<1>2. <<item, n + 1>> \in {item} \X Nat
  OBVIOUS
<1>3. /\ t \in Seq({item} \X Nat) /\ DOMAIN t = 1..(n + 1) /\ Len(t) = n + 1
      /\ t[n + 1] = <<item, n + 1>>
      /\ \A i \in 1..n : t[i] = s[i]
  <2> HIDE DEF s
  <2> QED BY <1>1, <1>2, AppendLast
<1>4. \A i \in 1..(n + 1) : t[i] = <<item, i>>
  <2> HIDE DEF s, t
  <2> QED BY <1>1, <1>3
<1>5. t = [i \in 1..(n + 1) |-> t[i]]
  <2> HIDE DEF t
  <2> QED BY <1>3
<1> HIDE DEF t
<1>6. t = [i \in 1..(n + 1) |-> <<item, i>>]
  BY <1>4, <1>5
<1> QED BY <1>6 DEF t, Part

LEMMA WioBeginLink ==
  ASSUME Sound, NEW kind \in Kinds, WioBegin(kind)
  PROVE  LinkInv'
<1>1. /\ toWio # <<>> /\ Head(toWio).cmd = <<kind, "begin">> /\ toWio' = Tail(toWio)
      /\ UNCHANGED espVars /\ UNCHANGED <<busy, committed>>
  BY DEF WioBegin, Gets
<1>2. /\ holder \in Clients /\ Kind[holder] = kind
      /\ request[holder] = Head(toWio) /\ request[holder].cmd[2] = "begin"
  BY <1>1, CallRead
<1> DEFINE state == [item |-> Arg, next |-> 0, got |-> <<>>]
<1>3. PICK ok \in BOOLEAN :
        /\ Answer(ok, 0) /\ (ok <=> Arg.shape # "oversize")
        /\ ok => SetRx(kind, state)
        /\ ~ok => UNCHANGED rx
  BY DEF WioBegin
<1>4. DOMAIN rx = Kinds
  BY SoundParts DEF TypeInv, WioTyped
<1>5. /\ \A k \in Kinds \ {kind} : rx'[k] \in {rx[k], None}
      /\ rx'[kind] = rx[kind] \/ ok
      /\ ok => rx'[kind] = state
  BY <1>3, <1>4 DEF SetRx
<1>6. state.item = Arg /\ state.next = 0 /\ state.got = <<>> /\ state # None
  <2>1. Arg \in Item
    BY <1>1, SoundParts, FirstFrame, FrameCarries DEF Arg, TypeInv
  <2>2. state \in Receiver
    BY <2>1, Bounds, EmptySeq DEF Receiver
  <2> QED BY <2>2, OptionAssumption
<1> HIDE DEF state
<1>7. ASSUME NEW ack, ack.ok = ok, ack.value = 0 PROVE AckMeans(holder, ack)'
  <2>1. UNCHANGED <<wait, request, holder>>
    BY <1>1 DEF espVars
  <2>2. ~Chunking(holder)' /\ ~Ending(holder)'
    BY <1>2, <2>1 DEF Chunking, Ending
  <2>3. Arg = request'[holder'].arg
    BY <1>2, <2>1 DEF Arg
  <2>4. ok => Filled(holder, request[holder].arg, 0)'
    BY <1>2, <1>5, <1>6, <2>1, <2>3, PartEmpty DEF Filled
  <2> QED BY <1>3, <1>7, <2>1, <2>2, <2>3, <2>4 DEF AckMeans
<1>8. 0 \in 0..Chunks
  BY Bounds
<1> QED BY <1>1, <1>3, <1>5, <1>7, <1>8, CallLink

\* The WIO reads the chunk that comes next, never one it has already.
LEMMA WioDataLink ==
  ASSUME Sound, NEW kind \in Kinds, WioData(kind)
  PROVE  LinkInv'
<1>1. /\ toWio # <<>> /\ Head(toWio).cmd = <<kind, "data">> /\ toWio' = Tail(toWio)
      /\ UNCHANGED espVars /\ UNCHANGED <<busy, committed>>
  BY DEF WioData, Gets
<1>2. /\ holder \in Clients /\ Kind[holder] = kind /\ wait[holder] = "answer"
      /\ request[holder] = Head(toWio) /\ request[holder].cmd[2] = "data"
  BY <1>1, CallRead
<1>3. Chunking(holder) /\ ~Beginning(holder) /\ ~Ending(holder) /\ bulk[holder] # None
  BY <1>2, SoundParts, WaitingClaims DEF Chunking, Beginning, Ending
<1> DEFINE n == bulk[holder].next
           item == bulk[holder].item
<1>4. n \in Nat /\ n < Chunks
  <2>1. bulk[holder] \in BulkState
    BY <1>2, <1>3, SoundParts DEF TypeInv, BulkTyped
  <2>2. n < Chunks
    BY <1>2, <1>3, SoundParts DEF ReceiverInv, KeepsInv
  <2> QED BY <2>1, <2>2, Bounds DEF BulkState
<1>5. Arg.seq = n /\ Arg.item = item /\ Arg.chunk = n + 1
  <2>1. Arg = request[holder].arg
    BY <1>2 DEF Arg
  <2>2. Arg.seq = n
    BY <1>2, <1>3, <2>1, SoundParts DEF Sync, ClientInStep, BulkInStep
  <2>3. Arg.item = item /\ Arg.chunk = Arg.seq + 1
    BY <1>2, <1>3, <2>1, SoundParts DEF ReceiverInv, KeepsInv
  <2> QED BY <2>2, <2>3
<1>6. /\ rx[kind] # None /\ rx[kind].item = item /\ rx[kind].next = n /\ rx[kind].got = Part(item, n)
  <2>1. Filled(holder, item, n)
    BY <1>1, <1>2, <1>3, <1>4, Bounds, SoundParts DEF ReceiverInv, KeepsInv, Refused
  <2> QED BY <1>2, <2>1 DEF Filled
<1>7. rx[kind] \in Receiver /\ Len(rx[kind].got) = n
  BY <1>6, SoundParts DEF TypeInv, WioTyped
<1> DEFINE state == [rx[kind] EXCEPT !.next = @ + 1, !.got = Append(@, <<Arg.item, Arg.chunk>>)]
<1>8. Answer(TRUE, n + 1) /\ SetRx(kind, state)
  <2>1. ~(rx[kind] # None /\ Arg.seq + 1 = rx[kind].next)
    BY <1>4, <1>5, <1>6
  <2>2. ~(rx[kind] # None => Arg.seq \notin {rx[kind].next, rx[kind].next - 1})
    BY <1>5, <1>6
  <2>3. Len(rx[kind].got) # Chunks
    BY <1>4, <1>7, Bounds
  <2>4. Answer(TRUE, rx[kind].next + 1) /\ SetRx(kind, state)
    BY <2>1, <2>2, <2>3 DEF WioData
  <2> QED BY <1>6, <2>4
<1>9. state.item = item /\ state.next = n + 1 /\ state.got = Part(item, n + 1) /\ state # None
  <2>1. state.got = Append(Part(item, n), <<item, n + 1>>)
    BY <1>5, <1>6, <1>7 DEF Receiver
  <2>2. state.item = item /\ state.next = n + 1
    BY <1>6, <1>7 DEF Receiver
  <2>3. state # None
    <3>1. Expected(kind)
      BY <1>4, <1>5, <1>6, <1>7 DEF Expected
    <3>2. state \in Receiver
      BY <1>1, <3>1, ReceiverCounts, SoundParts DEF TypeInv
    <3> QED BY <3>2, OptionAssumption
  <2> HIDE DEF state, n, item
  <2> QED BY <1>4, <2>1, <2>2, <2>3, PartAppend
<1>10. rx'[kind] = state /\ \A k \in Kinds \ {kind} : rx'[k] \in {rx[k], None}
  BY <1>8, SoundParts DEF SetRx, TypeInv, WioTyped
<1> HIDE DEF state
<1>11. ASSUME NEW ack, ack.ok = TRUE, ack.value = n + 1 PROVE AckMeans(holder, ack)'
  <2>1. UNCHANGED <<wait, request, holder, bulk>>
    BY <1>1 DEF espVars
  <2>2. ~Beginning(holder)' /\ ~Ending(holder)'
    BY <1>3, <2>1 DEF Beginning, Ending
  <2>3. Filled(holder, bulk[holder].item, bulk[holder].next + 1)'
    BY <1>2, <1>9, <1>10, <2>1 DEF Filled
  <2> QED BY <1>11, <2>1, <2>2, <2>3 DEF AckMeans
<1>12. n + 1 \in 0..Chunks /\ TRUE \in BOOLEAN
  BY <1>4, Bounds
<1> HIDE DEF n
<1> QED BY <1>1, <1>8, <1>10, <1>11, <1>12, CallLink

\* The end finds all chunks, in order, or a receiver that refused them before.
LEMMA EndRead ==
  ASSUME Sound, toWio # <<>>, NEW kind \in Kinds, Head(toWio).cmd = <<kind, "end">>
  PROVE  /\ holder \in Clients /\ Kind[holder] = kind /\ Ending(holder)
         /\ ~Beginning(holder) /\ ~Chunking(holder)
         /\ bulk[holder] # None /\ request[holder].arg = Arg
         /\ \/ rx[kind] # None /\ rx[kind].item = Arg /\ rx[kind].got = Image(Arg)
            \/ rx[kind] = None /\ Refuses(holder, Arg)
<1>1. /\ holder \in Clients /\ Kind[holder] = kind /\ wait[holder] = "answer"
      /\ request[holder] = Head(toWio) /\ request[holder].cmd[2] = "end"
  BY CallRead
<1>2. Ending(holder) /\ ~Beginning(holder) /\ ~Chunking(holder) /\ bulk[holder] # None
  BY <1>1, SoundParts, WaitingClaims DEF Chunking, Beginning, Ending
<1>3. request[holder].arg = Arg /\ Arg = bulk[holder].item /\ bulk[holder].next = Chunks
  <2>1. Arg = request[holder].arg
    BY <1>1 DEF Arg
  <2>2. request[holder].arg = bulk[holder].item
    BY <1>1, <1>2, SoundParts DEF Sync, ClientInStep, BulkInStep
  <2>3. bulk[holder].next = Chunks
    BY <1>1, <1>2, SoundParts DEF ReceiverInv, KeepsInv
  <2> QED BY <2>1, <2>2, <2>3
<1>4. Filled(holder, bulk[holder].item, bulk[holder].next) \/ Refused(holder)
  BY <1>1, <1>2, SoundParts DEF ReceiverInv, KeepsInv
<1>5. Part(Arg, Chunks) = Image(Arg)
  BY DEF Part, Image
<1> QED BY <1>1, <1>2, <1>3, <1>4, <1>5 DEF Filled, Refused

LEMMA WioEndLink ==
  ASSUME Sound, WioEndConfig \/ WioEndFirmware
  PROVE  LinkInv'
<1>1. PICK kind \in Kinds :
        \/ WioEndConfig /\ kind = "TOML"
        \/ WioEndFirmware /\ kind = "FIRMWARE"
  OBVIOUS
<1>2. /\ toWio # <<>> /\ Head(toWio).cmd = <<kind, "end">>
      /\ toWio' = Tail(toWio) \/ toWio' = <<>>
      /\ UNCHANGED espVars
      /\ rx'[kind] = None /\ \A k \in Kinds \ {kind} : rx'[k] \in {rx[k], None}
      /\ committed \subseteq committed'
  BY <1>1, SoundParts DEF WioEndConfig, WioEndFirmware, Gets, SetRx, Rebooted, TypeInv, WioTyped
<1>3. /\ holder \in Clients /\ Kind[holder] = kind /\ Ending(holder)
      /\ ~Beginning(holder) /\ ~Chunking(holder)
      /\ bulk[holder] # None /\ request[holder].arg = Arg
      /\ \/ rx[kind] # None /\ rx[kind].item = Arg /\ rx[kind].got = Image(Arg)
         \/ rx[kind] = None /\ Refuses(holder, Arg)
  BY <1>2, EndRead
<1>4. PICK ok \in BOOLEAN :
        /\ Answer(ok, 0)
        /\ IF ok THEN Image(Arg) \in committed' ELSE Refuses(holder, Arg)
  <2>1. CASE kind = "TOML"
    <3>1. CASE rx[kind] # None /\ Applicable(rx[kind].got, Arg)
      BY <1>1, <1>3, <2>1, <3>1 DEF WioEndConfig
    <3>2. CASE ~(rx[kind] # None /\ Applicable(rx[kind].got, Arg))
      <4>1. Refuses(holder, Arg)
        BY <1>3, <2>1, <3>2 DEF Applicable, Refuses
      <4>2. Answer(FALSE, 0)
        BY <1>1, <2>1, <3>2 DEF WioEndConfig
      <4> QED BY <4>1, <4>2
    <3> QED BY <3>1, <3>2
  <2>2. CASE kind = "FIRMWARE"
    <3>1. rx[kind] # None /\ Verified(rx[kind]) /\ rx[kind].got = Image(Arg)
      BY <1>3, <2>2 DEF Verified, Refuses
    <3>2. Answer(TRUE, 0) /\ committed' = committed \cup {rx[kind].got}
      BY <1>1, <2>2, <3>1 DEF WioEndFirmware
    <3> QED BY <3>1, <3>2
  <2> QED BY <2>1, <2>2
<1>5. ASSUME NEW ack, ack.ok = ok, ack.value = 0 PROVE AckMeans(holder, ack)'
  <2>1. UNCHANGED <<wait, request, holder, bulk>>
    BY <1>2 DEF espVars
  <2>2. ~Beginning(holder)' /\ ~Chunking(holder)'
    BY <1>3, <2>1 DEF Beginning, Chunking
  <2>3. rx'[Kind[holder]] = None
    BY <1>2, <1>3
  <2>4. Refuses(holder, Arg) => Refuses(holder, request[holder].arg)'
    BY <1>3, <2>1 DEF Refuses
  <2> QED BY <1>3, <1>4, <1>5, <2>1, <2>2, <2>3, <2>4 DEF AckMeans
<1>6. 0 \in 0..Chunks
  BY Bounds
<1> QED BY <1>2, <1>3, <1>4, <1>5, <1>6, CallLink

\* A frame that is no call: the answer to a client's call is still to come.
LEMMA NoAnswerYet ==
  ASSUME Sound, toWio # <<>>, ~IsCall(Head(toWio)), NEW d \in Clients, wait[d] = "answer"
  PROVE  /\ IsCall(request[d]) /\ \A ack \in Acks : ack.cmd # request[d].cmd
         /\ ~Accepted(d)
<1>1. holder = d /\ IsCall(request[d])
  BY SoundParts, RequestIsCall DEF OwnerInv, LockHeld, TypeInv
<1>2. toWio[Len(toWio)] = request[d] /\ Len(toWio) \in DOMAIN toWio
  BY <1>1, SoundParts, TailLast DEF PlacedInv, GoesOut, ComesBack
<1>3. ~NoCall(toWio)
  BY <1>1, <1>2 DEF NoCall
<1>4. \A ack \in Acks : ~IsCall(ack)
  BY <1>3, NoCallRange, SoundParts DEF Sync, OneCallUnderWay, Acks
<1>5. \A ack \in Acks : ack.cmd # request[d].cmd
  BY <1>1, <1>4 DEF IsCall
<1> QED BY <1>1, <1>5 DEF Accepted

LEMMA WioAbortLink ==
  ASSUME Sound, WioAbort
  PROVE  LinkInv'
<1>1. /\ toWio # <<>> /\ Head(toWio).cmd = <<"FIRMWARE", "abort">> /\ toWio' = Tail(toWio)
      /\ UNCHANGED <<bulk, wait, request, xferActive, holder, signal, busy, committed>>
      /\ Answer(TRUE, 0) /\ rx'["FIRMWARE"] = None
  BY SoundParts DEF WioAbort, Gets, espVars, SetRx, TypeInv, WioTyped
<1>2. Head(toWio) \in Frames /\ ~IsCall(Head(toWio)) /\ Head(toWio) \in Range(toWio)
  BY <1>1, SoundParts, TailLast DEF IsCall
<1>3. Head(toWio) = FwAbort
  <2>1. Head(toWio).cmd[2] = "abort"
    BY <1>1
  <2>2. Head(toWio) \in OtherFrames
    BY <1>2, <2>1 DEF Frames, ItemFrames, ChunkFrames
  <2>3. Ping.cmd[2] # "abort" /\ \A on : RadioBusy(on).cmd[2] # "abort"
    BY DEF Ping, RadioBusy, Frame
  <2> QED BY <2>1, <2>2, <2>3 DEF OtherFrames
<1>4. \A d \in Clients : bulk[d] = None
  BY <1>2, <1>3, SoundParts DEF ReceiverInv, KeepsInv
<1>5. RoomInv'
  BY <1>1, SoundParts, RoomShrinks DEF Chunking
<1>6. PlacedInv'
  BY <1>1, <1>2, PlacedTail
<1> DEFINE new == [ok |-> TRUE, cmd |-> Head(toWio).cmd, value |-> 0]
<1>7. new \in Ack /\ new.cmd = <<"FIRMWARE", "abort">>
  <2>1. <<"FIRMWARE", "abort">> \in Kinds \X Steps /\ 0 \in 0..Chunks
    BY Bounds
  <2> QED BY <1>1, <2>1 DEF Ack
<1>8. toEsp' = Append(toEsp, new)
  BY <1>1 DEF Answer
<1> HIDE DEF new
<1>9. Acks' = Acks \cup {new}
  <2> DEFINE t == Append(toEsp, new)
  <2>1. Range(t) = Range(toEsp) \cup {new}
    BY <1>7, SoundParts, AppendLast
  <2> QED BY <1>1, <1>8, <2>1 DEF Acks
<1>10. ASSUME NEW d \in Clients PROVE ReceiverInv(d)'
  <2>1. KeepsInv(d)'
    BY <1>1, <1>4 DEF KeepsInv
  <2>2. ASSUME NEW ack \in Acks', wait'[d] = "answer" PROVE ack.cmd # request'[d].cmd
    <3>1. IsCall(request[d]) /\ \A old \in Acks : old.cmd # request[d].cmd
      BY <1>1, <1>2, <2>2, NoAnswerYet
    <3>2. request[d].cmd # <<"FIRMWARE", "abort">>
      BY <3>1 DEF IsCall
    <3> QED BY <1>1, <1>7, <1>9, <3>1, <3>2
  <2>3. \A ack \in Acks' : AckMeans(d, ack)'
    BY <2>2 DEF AckMeans
  <2> QED BY <2>1, <2>3 DEF ReceiverInv
<1>11. BusyCalm'
  <2>1. EndsCalm(toWio, busy)
    BY <1>4, SoundParts DEF BusyCalm
  <2>2. Head(toWio) # RadioBusy(FALSE) /\ busy \in BOOLEAN
    BY <1>3, BusyFrames, SoundParts DEF TypeInv, WioTyped
  <2>3. EndsCalm(Tail(toWio), busy)
    BY <1>1, <2>1, <2>2, SoundParts, CalmTail
  <2> QED BY <1>1, <2>3 DEF BusyCalm
<1>12. RxCalm'
  BY <1>1 DEF RxCalm
<1>13. XferOwned'
  BY <1>1, SoundParts DEF XferOwned, Claims, Beginning
<1> QED BY <1>5, <1>6, <1>10, <1>11, <1>12, <1>13 DEF LinkInv

\* A ping or a busy flag changes nothing for the transfer.
LEMMA WioPassesLink ==
  ASSUME Sound, toWio # <<>>, toWio' = Tail(toWio), Head(toWio) # FwAbort,
         UNCHANGED <<bulk, wait, request, xferActive, holder, signal, rx, committed>>,
         PlacedInv', EndsCalm(toWio, busy) => EndsCalm(toWio', busy'),
         \A d \in Clients : wait[d] = "answer" =>
           toEsp' = toEsp /\ ~IsCall(Head(toWio))
  PROVE  LinkInv'
<1>1. RoomInv'
  BY SoundParts, RoomShrinks DEF Chunking
<1>2. Range(toWio) = Range(toWio') \cup {Head(toWio)}
  BY SoundParts, TailLast
<1>3. ASSUME NEW d \in Clients PROVE ReceiverInv(d)'
  <2>1. bulk[d] # None => FwAbort \notin Range(toWio')
    BY <1>2, SoundParts DEF ReceiverInv, KeepsInv
  <2>2. \A ack \in Acks' : ack \in Acks \/ wait[d] # "answer" \/ ack.cmd # request[d].cmd
    BY DEF Acks
  <2>3. rx'[Kind[d]] = rx[Kind[d]]
    OBVIOUS
  <2> QED BY <2>1, <2>2, <2>3, SoundParts, ReceiverSame
<1>4. BusyCalm'
  BY SoundParts DEF BusyCalm
<1>5. RxCalm'
  <2>1. FwAbort \in Range(toWio) => FwAbort \in Range(toWio')
    BY <1>2
  <2>2. \A d \in Clients : ~Accepted(d)
    <3>1. ASSUME NEW d \in Clients, Accepted(d) PROVE FALSE
      BY <3>1, NoAnswerYet DEF Accepted
    <3> QED BY <3>1
  <2> QED BY <2>1, <2>2, SoundParts DEF RxCalm
<1>6. XferOwned'
  BY SoundParts DEF XferOwned, Claims, Beginning
<1> QED BY <1>1, <1>3, <1>4, <1>5, <1>6 DEF LinkInv

LEMMA WioPingLink ==
  ASSUME Sound, WioPing
  PROVE  LinkInv'
<1>1. /\ toWio # <<>> /\ Head(toWio).cmd = <<"LINK", "ping">> /\ toWio' = Tail(toWio)
      /\ UNCHANGED <<bulk, wait, request, xferActive, holder, signal, rx, busy, committed>>
  BY DEF WioPing, Gets, espVars, wioVars
<1>2. IsCall(Head(toWio)) /\ Head(toWio) \in Range(toWio)
  BY <1>1, SoundParts, TailLast DEF IsCall
<1>3. holder \notin Clients
  <2> SUFFICES ASSUME holder \in Clients PROVE FALSE
    OBVIOUS
  <2>1. Head(toWio) = request[holder] /\ wait[holder] = "answer"
    BY <1>2, SoundParts DEF Sync, OneCallUnderWay, HolderWaits
  <2>2. request[holder].cmd[2] # "ping"
    BY <2>1, SoundParts DEF TypeInv, RequestsTyped
  <2> QED BY <1>1, <2>1, <2>2
<1>4. \A d \in Clients : wait[d] # "answer"
  BY <1>3, SoundParts DEF OwnerInv, LockHeld
<1>5. PlacedInv'
  BY <1>1, <1>3 DEF PlacedInv
<1>6. Head(toWio) # FwAbort /\ Head(toWio) # RadioBusy(FALSE)
  BY <1>2, NotCalls
<1>7. EndsCalm(toWio, busy) => EndsCalm(toWio', busy')
  <2>1. busy \in BOOLEAN
    BY SoundParts DEF TypeInv, WioTyped
  <2> QED BY <1>1, <1>6, <2>1, SoundParts, CalmTail
<1> QED BY <1>1, <1>4, <1>5, <1>6, <1>7, WioPassesLink

LEMMA WioBusyLink ==
  ASSUME Sound, WioBusy
  PROVE  LinkInv'
<1>1. /\ toWio # <<>> /\ Head(toWio).cmd = <<"LINK", "busy">> /\ toWio' = Tail(toWio)
      /\ UNCHANGED <<bulk, wait, request, xferActive, holder, signal, rx, committed, toEsp>>
      /\ busy' = Head(toWio).arg
  BY DEF WioBusy, Gets, espVars, Arg
<1>2. Head(toWio) \in Frames /\ ~IsCall(Head(toWio))
  BY <1>1, SoundParts, TailLast DEF IsCall
<1>3. \E on \in BOOLEAN : Head(toWio) = RadioBusy(on)
  <2>1. Head(toWio).cmd[2] = "busy"
    BY <1>1
  <2>2. Head(toWio) \in OtherFrames
    BY <1>2, <2>1 DEF Frames, ItemFrames, ChunkFrames
  <2>3. Ping.cmd[2] # "busy" /\ FwAbort.cmd[2] # "busy"
    BY DEF Ping, FwAbort, Frame
  <2> QED BY <2>1, <2>2, <2>3 DEF OtherFrames
<1>4. PICK on \in BOOLEAN : Head(toWio) = RadioBusy(on)
  BY <1>3
<1>5. RadioBusy(on).arg = on
  BY DEF RadioBusy, Frame
<1>6. busy' = on
  BY <1>1, <1>4, <1>5
<1>7. PlacedInv'
  BY <1>1, <1>2, PlacedTail
<1>8. Head(toWio) # FwAbort
  <2>1. FwAbort.cmd[2] = "abort" /\ Head(toWio).cmd[2] = "busy"
    BY <1>1 DEF FwAbort, Frame
  <2> QED BY <2>1
<1>9. EndsCalm(toWio, busy) => EndsCalm(toWio', busy')
  BY <1>1, <1>4, <1>6, SoundParts, CalmTail
<1> QED BY <1>1, <1>2, <1>7, <1>8, <1>9, WioPassesLink

-----------------------------------------------------------------------------
(***************************************************************************)
(* Every step keeps the ESP, the link and the WIO together.                *)
(***************************************************************************)

LEMMA ServeLink ==
  ASSUME Sound, LinkHoldsAll, NEW c \in Clients, Serve(c)
  PROVE  LinkInv'
<1>1. /\ wait[c] = "no" /\ ops[c] # <<>>
      /\ UNCHANGED <<holder, signal, toEsp, rx, busy, committed>>
  BY DEF Serve, OpBegin, OpData, OpEnd, OpAbort, Serves, wioVars
<1>2. ASSUME UNCHANGED <<bulk, callVars, xferActive, toWio>> PROVE LinkInv'
  BY <1>1, <1>2, LinkUnchanged DEF linkVars
<1>3. CASE OpBegin(c)
  <2>1. CASE UNCHANGED <<xferActive, callVars>>
    BY <1>2, <1>3, <2>1 DEF OpBegin
  <2>2. CASE ~xferActive /\ xferActive' = TRUE /\ Forward(c, "begin", Head(ops[c]).item)
    <3>1. UNCHANGED <<bulk, toWio>>
      BY <1>3 DEF OpBegin
    <3> QED BY <1>1, <2>2, <3>1, ForwardLink
  <2> QED BY <1>3, <2>1, <2>2 DEF OpBegin
<1>4. CASE OpData(c)
  <2>1. CASE UNCHANGED <<callVars, toWio>>
    BY <1>2, <1>4, <2>1 DEF OpData
  <2>2. CASE ~(UNCHANGED <<callVars, toWio>>)
    <3> DEFINE op == Head(ops[c])
    <3>1. /\ bulk[c] # None /\ op.seq = bulk[c].next /\ Send(RadioBusy(TRUE)) /\ Forward(c, "data", op)
          /\ UNCHANGED <<bulk, xferActive>> /\ op.op = "data"
      BY <1>4, <2>2 DEF OpData, Serves
    <3>2. op.item = bulk[c].item /\ op.chunk = op.seq + 1 /\ op.seq < Chunks
      BY <1>1, <3>1, SoundParts DEF HostInv, OpInv
    <3> HIDE DEF op
    <3> QED BY <1>1, <3>1, <3>2, ForwardLink
  <2> QED BY <2>1, <2>2
<1>5. CASE OpEnd(c)
  <2>1. CASE bulk[c] = None
    BY <1>2, <1>5, <2>1 DEF OpEnd
  <2>2. CASE bulk[c] # None
    <3>1. bulk[c].next = Chunks
      BY <1>1, <1>5, <2>2, SoundParts DEF HostInv, OpInv, OpEnd, Serves
    <3>2. bulk[c].received = bulk[c].next
      BY <2>2, SoundParts DEF Sync, ClientInStep, BulkInStep
    <3>3. Forward(c, "end", bulk[c].item) /\ UNCHANGED <<bulk, xferActive, toWio>>
      BY <1>5, <2>2, <3>1, <3>2 DEF OpEnd
    <3> QED BY <1>1, <2>2, <3>1, <3>3, ForwardLink
  <2> QED BY <2>1, <2>2
<1>6. CASE OpAbort(c)
  BY <1>1, <1>6, AbandonLink DEF OpAbort
<1> QED BY <1>3, <1>4, <1>5, <1>6 DEF Serve

\* The faults that are not the clients'.
LEMMA ClientFaults ==
  ASSUME OnlyClientsFailed'
  PROVE  /\ \A kind : Fault(kind) => kind \in {"begin_ack", "usb_ack", "vanish", "drop"}
         /\ ~NotifierEnds /\ ~LoseFrame /\ ~LoseAck /\ ~WioFlashFails /\ ~WioReset
<1>1. \A kind : Fault(kind) => kind \in {"begin_ack", "usb_ack", "vanish", "drop"}
  BY DEF Fault, OnlyClientsFailed
<1>2. /\ ~Fault("cancel") /\ ~Fault("uart_out") /\ ~Fault("uart_in")
      /\ ~Fault("flash") /\ ~Fault("reset")
  BY <1>1
<1>3. ~NotifierEnds /\ ~LoseFrame /\ ~LoseAck
  BY <1>2 DEF NotifierEnds, LoseFrame, LoseAck
<1>4. ~WioFlashFails /\ ~WioReset
  BY <1>2 DEF WioFlashFails, WioReset
<1> QED BY <1>1, <1>3, <1>4

LEMMA StepLink ==
  ASSUME Sound, LinkHoldsAll, [Next]_vars, OnlyClientsFailed'
  PROVE  LinkInv'
<1> USE DEF clientVars, espVars, wioVars, linkVars, callVars
<1>0. ASSUME UNCHANGED <<bulk, wait, request, xferActive, holder, signal, toWio, toEsp, rx, busy, committed>>
      PROVE  LinkInv'
  BY <1>0, LinkUnchanged
<1>1. ASSUME NEW c \in Clients, Client(c) PROVE LinkInv'
  BY <1>0, <1>1 DEF Client, Start, BeginAnswered, DataAnswered, EndAnswered, AbortAnswered, Answered
<1>2. CASE HostTimeout \/ LoseReply \/ HostVanishes \/ BleLinkLost
  BY <1>0, <1>2 DEF HostTimeout, LoseReply, HostVanishes, BleLinkLost
<1>3. ASSUME NEW c \in Clients, Done(c) PROVE LinkInv'
  BY <1>3, BeginDoneLink, DataDoneLink, EndDoneLink DEF Done
<1>4. CASE UsbIdleAbort \/ SessionEnds
  BY <1>4, AbandonLink DEF UsbIdleAbort, SessionEnds
<1>5. CASE Wio
  BY <1>5, WioBeginLink, WioDataLink, WioEndLink, WioAbortLink, WioPingLink, WioBusyLink DEF Wio
<1>6. CASE UNCHANGED vars
  BY <1>0, <1>6 DEF vars
<1> QED
  BY <1>1, <1>2, <1>3, <1>4, <1>5, <1>6, ClientFaults, ServeLink, LockLink, HeartbeatLink, SkipLink,
     ReceivesLink DEF Next

-----------------------------------------------------------------------------
(***************************************************************************)
(* The clients' steps.                                                     *)
(***************************************************************************)

\* What a client expects does not depend on the others, nor on a reply it has not read.
LEMMA HostSame ==
  ASSUME NEW c \in Clients, HostInv(c),
         host'[c] = host[c], ops'[c] = ops[c], replies'[c] \in {replies[c], <<>>},
         bulk'[c] = bulk[c], request'[c] = request[c], wait'[c] = "no" <=> wait[c] = "no",
         committed \subseteq committed', c = "ble" /\ session => session'
  PROVE  HostInv(c)'
<1> USE DEF HostInv
<1>1. /\ ReplyComing(c)' <=> ReplyComing(c)
      /\ Beginning(c)' <=> Beginning(c)
      /\ Chunking(c)' <=> Chunking(c)
      /\ Ending(c)' <=> Ending(c)
      /\ replies'[c] # <<>> => Reply(c)' = Reply(c)
      /\ Settled(c) => Settled(c)'
      /\ Refuses(c, host[c].item)' <=> Refuses(c, host[c].item)
  BY DEF ReplyComing, Beginning, Chunking, Ending, Reply, Settled, Refuses
<1>2. OneOp(c)'
  <2>1. Len(replies'[c]) <= 1
    BY DEF OneOp
  <2> QED BY <1>1, <2>1 DEF OneOp
<1>3. OpInv(c)'
  BY DEF OpInv
<1>4. BeginInv(c)' /\ DataInv(c)'
  BY <1>1 DEF BeginInv, DataInv
<1>5. EndInv(c)'
  BY <1>1 DEF EndInv
<1>6. AbortInv(c)' /\ OkInv(c)'
  BY <1>1 DEF AbortInv, OkInv
<1> QED BY <1>2, <1>3, <1>4, <1>5, <1>6

\* A client that sends its next operation.
LEMMA SubmitHost ==
  ASSUME Sound, NEW c \in Clients, NEW h, Submit(c, h), ~ReplyComing(c),
         UNCHANGED <<session, bulk, wait, request, committed>>,
         h.pc \in Steps, h.tries \in Nat, h.tries > 0, c = "ble" => session,
         h.pc = "begin" => h.seq = 0 /\ h.sent = 0,
         h.pc = "data" => /\ bulk[c] # None /\ bulk[c].item = h.item
                          /\ h.seq = h.sent /\ h.seq < Chunks
                          /\ bulk[c].next \in {h.sent, h.sent + 1},
         h.pc = "end" =>
           /\ h.sent = Chunks
           /\ bulk[c] # None => bulk[c].item = h.item /\ bulk[c].next = Chunks
           /\ bulk[c] = None => Image(h.item) \in committed \/ Refuses(c, h.item)
           /\ h.tries = 1 => bulk[c] # None
  PROVE  HostInv(c)'
<1> DEFINE op == [op |-> h.pc, item |-> h.item, seq |-> h.seq, chunk |-> h.sent + 1]
<1>1. ops[c] = <<>> /\ wait[c] = "no" /\ wait'[c] = "no" /\ bulk'[c] = bulk[c]
  BY DEF ReplyComing
<1>2. host'[c] = h /\ replies'[c] = <<>> /\ ops'[c] = Append(<<>>, op)
  BY <1>1, SoundParts DEF Submit, TypeInv, HostTyped, QueuesTyped
<1>3. ops'[c] # <<>> /\ Len(ops'[c]) = 1 /\ Head(ops'[c]) = op
  BY <1>2
<1>4. op.op = h.pc /\ op.item = h.item /\ op.seq = h.seq /\ op.chunk = h.sent + 1
  OBVIOUS
<1> HIDE DEF op
<1>5. ReplyComing(c)' /\ ~(wait'[c] # "no")
  BY <1>1, <1>3 DEF ReplyComing
<1>6. OneOp(c)'
  <2>1. Len(replies'[c]) <= 1
    BY <1>2
  <2> QED BY <1>1, <1>2, <1>3, <1>5, <2>1 DEF OneOp
<1>7. OpInv(c)'
  BY <1>1, <1>2, <1>3, <1>4 DEF OpInv
<1>8. BeginInv(c)' /\ DataInv(c)'
  BY <1>1, <1>2 DEF BeginInv, DataInv
<1>9. EndInv(c)'
  BY <1>1, <1>2, <1>5 DEF EndInv, Settled, Refuses
<1>10. AbortInv(c)' /\ OkInv(c)'
  BY <1>1, <1>2, <1>3 DEF AbortInv, OkInv
<1> QED BY <1>6, <1>7, <1>8, <1>9, <1>10 DEF HostInv

\* A client that has come to an end, or gone away.
LEMMA ConcludeHost ==
  ASSUME Sound, NEW c \in Clients, NEW result \in {"ok", "failed", "gone"}, Conclude(c, result),
         UNCHANGED <<bulk, wait, request, committed>>,
         result # "gone" => ~ReplyComing(c) /\ bulk[c] = None,
         result = "ok" => host[c].item \in Item /\ Settled(c)
  PROVE  HostInv(c)'
<1>1. /\ host'[c].pc = result /\ host'[c].item = host[c].item
      /\ UNCHANGED <<ops, replies>>
  BY SoundParts, HostFields DEF Conclude, TypeInv, HostTyped, HostRecord
<1>2. HostInv(c)
  BY SoundParts
<1>3. OneOp(c)'
  BY <1>1, <1>2 DEF HostInv, OneOp, ReplyComing
<1>4. OpInv(c)'
  BY <1>1, <1>2 DEF HostInv, OpInv
<1>5. BeginInv(c)' /\ DataInv(c)' /\ EndInv(c)' /\ AbortInv(c)'
  BY <1>1 DEF BeginInv, DataInv, EndInv, AbortInv
<1>6. OkInv(c)'
  BY <1>1 DEF OkInv, Settled, Refuses
<1> QED BY <1>3, <1>4, <1>5, <1>6 DEF HostInv

\* A reply that is there is the only one, and nothing else is under way.
LEMMA AnsweredAlone ==
  ASSUME Sound, NEW c \in Clients, NEW pc \in Steps, Answered(c, pc)
  PROVE  /\ ~ReplyComing(c) /\ replies[c] # <<>> /\ host[c].pc = pc
         /\ UNCHANGED <<session, bulk, wait, request, committed>> /\ (c = "ble" => session)
         /\ host[c] \in HostRecord
         /\ host[c].sent \in 0..Chunks /\ host[c].tries \in 0..Attempts /\ host[c].tries > 0
BY SoundParts, HostFields DEF Answered, HostInv, OneOp, espVars, callVars, wioVars, TypeInv

LEMMA GiveUpHost ==
  ASSUME Sound, NEW c \in Clients, GiveUp(c), ~ReplyComing(c), c = "ble" => session,
         UNCHANGED <<session, bulk, wait, request, committed>>
  PROVE  HostInv(c)'
<1> DEFINE h == Operation(c, "abort")
<1>1. h.pc = "abort" /\ h.tries = 1
  BY SoundParts, HostFields DEF Operation, HostRecord, TypeInv
<1>2. Submit(c, h)
  BY DEF GiveUp
<1> HIDE DEF h
<1> QED BY <1>1, <1>2, SubmitHost

LEMMA RetryHost ==
  ASSUME Sound, NEW c \in Clients, host[c].pc \in {"begin", "data", "end"}, Retry(c), ~ReplyComing(c),
         UNCHANGED <<session, bulk, wait, request, committed>>
  PROVE  HostInv(c)'
<1> DEFINE h == [host[c] EXCEPT !.tries = @ + 1]
<1>1. host[c] \in HostRecord /\ host[c].tries \in 0..Attempts /\ HostInv(c)
  BY SoundParts, HostFields DEF TypeInv
<1>2. /\ h.pc = host[c].pc /\ h.item = host[c].item /\ h.seq = host[c].seq /\ h.sent = host[c].sent
      /\ h.tries = host[c].tries + 1
  BY <1>1 DEF HostRecord
<1>3. Submit(c, h)
  BY DEF Retry
<1> HIDE DEF h
<1>4. host[c].tries > 0 /\ (c = "ble" => session)
  BY <1>1 DEF HostInv, OneOp
<1>5. h.tries \in Nat /\ h.tries > 0 /\ h.tries # 1
  BY <1>1, <1>2, <1>4
<1>6. host[c].pc = "data" => host[c].sent < Chunks
  BY SoundParts DEF TypeInv, HostTyped
<1>7. h.pc = "begin" => h.seq = 0 /\ h.sent = 0
  BY <1>1, <1>2 DEF HostInv, BeginInv
<1>8. h.pc = "data" => /\ bulk[c] # None /\ bulk[c].item = h.item
                       /\ h.seq = h.sent /\ h.seq < Chunks
                       /\ bulk[c].next \in {h.sent, h.sent + 1}
  BY <1>1, <1>2, <1>6 DEF HostInv, DataInv
<1>9. h.pc = "end" =>
        /\ h.sent = Chunks
        /\ bulk[c] # None => bulk[c].item = h.item /\ bulk[c].next = Chunks
        /\ bulk[c] = None => Image(h.item) \in committed \/ Refuses(c, h.item)
  BY <1>1, <1>2 DEF HostInv, EndInv, Settled
<1> QED BY <1>2, <1>3, <1>4, <1>5, <1>7, <1>8, <1>9, SubmitHost

LEMMA ClientHost ==
  ASSUME Sound, OnlyClientsFailed', NEW c \in Clients, Client(c)
  PROVE  HostInv(c)'
<1> USE DEF HostInv
<1>1. CASE Start(c)
  <2>1. PICK shape \in Shapes :
          Submit(c, [pc |-> "begin", item |-> [from |-> c, nr |-> NrOf(c) + 1, shape |-> shape],
                     seq |-> 0, sent |-> 0, tries |-> 1])
    BY <1>1 DEF Start
  <2> DEFINE h == [pc |-> "begin", item |-> [from |-> c, nr |-> NrOf(c) + 1, shape |-> shape],
                   seq |-> 0, sent |-> 0, tries |-> 1]
  <2>2. h.pc = "begin" /\ h.seq = 0 /\ h.sent = 0 /\ h.tries = 1
    OBVIOUS
  <2>3. Submit(c, h)
    BY <2>1
  <2>4. ~ReplyComing(c) /\ (c = "ble" => session)
    BY <1>1 DEF Start, OnlyClientsFailed
  <2>5. UNCHANGED <<session, bulk, wait, request, committed>>
    BY <1>1 DEF Start, espVars, wioVars
  <2> HIDE DEF h
  <2> QED BY <2>2, <2>3, <2>4, <2>5, SubmitHost
<1>2. CASE BeginAnswered(c)
  <2>1. /\ ~ReplyComing(c) /\ replies[c] # <<>> /\ host[c].pc = "begin" /\ (c = "ble" => session)
        /\ UNCHANGED <<session, bulk, wait, request, committed>> /\ host[c] \in HostRecord
    BY <1>2, AnsweredAlone DEF BeginAnswered
  <2>2. CASE Reply(c).status # "OK"
    BY <1>2, <2>1, <2>2, GiveUpHost DEF BeginAnswered
  <2>3. CASE Reply(c).status = "OK"
    <3> DEFINE h == Operation(c, "data")
    <3>1. h.pc = "data" /\ h.item = host[c].item /\ h.seq = 0 /\ h.sent = 0 /\ h.tries = 1
      BY <2>1, SoundParts DEF Operation, HostRecord, BeginInv
    <3>2. Submit(c, h)
      BY <1>2, <2>3 DEF BeginAnswered
    <3> HIDE DEF h
    <3>3. bulk[c] # None /\ bulk[c].item = h.item /\ bulk[c].next = 0
      BY <2>1, <2>3, <3>1, SoundParts DEF BeginInv
    <3> QED BY <2>1, <3>1, <3>2, <3>3, Bounds, SubmitHost
  <2> QED BY <2>2, <2>3
<1>3. CASE DataAnswered(c)
  <2>1. /\ ~ReplyComing(c) /\ replies[c] # <<>> /\ host[c].pc = "data" /\ (c = "ble" => session)
        /\ UNCHANGED <<session, bulk, wait, request, committed>>
        /\ host[c] \in HostRecord /\ host[c].sent \in 0..Chunks
    BY <1>3, AnsweredAlone DEF DataAnswered
  <2>2. /\ Reply(c).status = "OK" /\ Reply(c).next = host[c].sent + 1
        /\ bulk[c] # None /\ bulk[c].item = host[c].item /\ bulk[c].next = host[c].sent + 1
    BY <2>1, SoundParts DEF DataInv
  <2>3. host[c].sent < Chunks
    BY <2>1, SoundParts DEF TypeInv, HostTyped
  <2> DEFINE sent == host[c].sent + 1
             h == [host[c] EXCEPT !.pc = IF sent = Chunks THEN "end" ELSE "data",
                                  !.seq = Reply(c).next, !.sent = sent, !.tries = 1]
  <2>4. /\ h.pc = IF sent = Chunks THEN "end" ELSE "data"
        /\ h.item = host[c].item /\ h.seq = sent /\ h.sent = sent /\ h.tries = 1
    BY <2>1, <2>2 DEF HostRecord
  <2>5. Submit(c, h)
    BY <1>3, <2>2 DEF DataAnswered
  <2>6. sent <= Chunks /\ sent \in Nat /\ Chunks \in Nat /\ bulk[c].next = sent
    BY <2>1, <2>2, <2>3, Bounds
  <2> HIDE DEF h, sent
  <2>7. h.pc = "data" => h.seq < Chunks
    BY <2>4, <2>6
  <2> QED BY <2>1, <2>2, <2>4, <2>5, <2>6, <2>7, SubmitHost
<1>4. CASE EndAnswered(c)
  <2>1. /\ ~ReplyComing(c) /\ replies[c] # <<>> /\ host[c].pc = "end" /\ (c = "ble" => session)
        /\ UNCHANGED <<session, bulk, wait, request, committed>>
    BY <1>4, AnsweredAlone DEF EndAnswered
  <2>2. /\ bulk[c] = None => Settled(c)
        /\ \/ Reply(c).status = "OK" /\ bulk[c] = None
           \/ Reply(c).status = "WIO_ERROR"
           \/ Reply(c).status = "BAD_STATE" /\ bulk[c] = None
    BY <2>1, SoundParts DEF EndInv
  <2>3. (Conclude(c, "ok") /\ Reply(c).status \in {"OK", "BAD_STATE"}) \/ GiveUp(c)
    BY <1>4, <2>2 DEF EndAnswered
  <2>4. CASE GiveUp(c)
    BY <2>1, <2>4, GiveUpHost
  <2>5. CASE Conclude(c, "ok") /\ Reply(c).status \in {"OK", "BAD_STATE"}
    <3>1. host[c].item \in Item
      BY <2>1, SoundParts, HostFields DEF TypeInv
    <3> QED BY <2>1, <2>2, <2>5, <3>1, ConcludeHost
  <2> QED BY <2>3, <2>4, <2>5
<1>5. CASE AbortAnswered(c)
  <2>1. /\ ~ReplyComing(c) /\ host[c].pc = "abort"
        /\ UNCHANGED <<session, bulk, wait, request, committed>>
    BY <1>5, AnsweredAlone DEF AbortAnswered
  <2>2. bulk[c] = None
    BY <2>1, SoundParts DEF AbortInv, ReplyComing
  <2> QED BY <1>5, <2>1, <2>2, ConcludeHost DEF AbortAnswered
<1> QED BY <1>1, <1>2, <1>3, <1>4, <1>5 DEF Client

LEMMA TimeoutHost ==
  ASSUME Sound, OnlyClientsFailed', NEW c \in Clients, c = "usb", HostTimeout
  PROVE  HostInv(c)'
<1>1. /\ host[c].pc \in Steps /\ (c = "ble" => session)
      /\ UNCHANGED <<session, bulk, wait, request, committed>>
  BY DEF HostTimeout, espVars, wioVars
<1>2. ~ReplyComing(c)
  BY DEF HostTimeout, Expired, Fault, OnlyClientsFailed
<1>3. \/ host[c].pc # "abort" /\ (Retry(c) \/ GiveUp(c))
      \/ host[c].pc = "abort" /\ Conclude(c, "failed")
  BY DEF HostTimeout
<1>4. host[c].pc = "abort" => bulk[c] = None
  BY <1>1, <1>2, SoundParts DEF HostInv, AbortInv, ReplyComing
<1>5. CASE host[c].pc # "abort" /\ Retry(c)
  BY <1>1, <1>2, <1>5, RetryHost
<1>6. CASE GiveUp(c)
  BY <1>1, <1>2, <1>6, GiveUpHost
<1>7. CASE host[c].pc = "abort" /\ Conclude(c, "failed")
  BY <1>1, <1>2, <1>4, <1>7, ConcludeHost
<1> QED BY <1>3, <1>5, <1>6, <1>7

\* The ESP answers an operation, at once or after its request.
LEMMA AnswerHost ==
  ASSUME Sound, NEW c \in Clients, ReplyComing(c), NEW status, NEW next, Respond(c, status, next),
         host'[c] = host[c], ops'[c] = <<>>, wait'[c] = "no", UNCHANGED <<session, committed>>,
         host[c].pc = "begin" /\ status = "OK" =>
           bulk'[c] # None /\ bulk'[c].item = host[c].item /\ bulk'[c].next = 0,
         host[c].pc = "data" =>
           /\ status = "OK" /\ bulk'[c] # None /\ bulk'[c].item = host[c].item
           /\ next = bulk'[c].next /\ bulk'[c].next = host[c].sent + 1,
         host[c].pc = "end" =>
           /\ bulk'[c] = None => Settled(c)
           /\ bulk'[c] # None => /\ bulk'[c].item = host[c].item /\ bulk'[c].next = Chunks
                                 /\ Refuses(c, host[c].item)
           /\ \/ status = "OK" /\ bulk'[c] = None
              \/ status = "WIO_ERROR" /\ Refuses(c, host[c].item)
              \/ status = "BAD_STATE" /\ bulk'[c] = None /\ host[c].tries > 1,
         host[c].pc = "abort" => bulk'[c] = None
  PROVE  HostInv(c)'
<1> DEFINE r == [status |-> status, next |-> next]
<1>1. HostInv(c)
  BY SoundParts
<1>2. replies[c] = <<>> /\ replies \in [Clients -> Seq(ReplyRecord)]
  BY <1>1, SoundParts DEF HostInv, OneOp, TypeInv, QueuesTyped
<1>3. replies'[c] = Append(<<>>, r)
  BY <1>2 DEF Respond
<1>4. r.status = status /\ r.next = next
  OBVIOUS
<1> HIDE DEF r
<1>5. Len(replies'[c]) = 1 /\ Head(replies'[c]) = r
  BY <1>3
<1>6. Reply(c)'.status = status /\ Reply(c)'.next = next
  BY <1>4, <1>5 DEF Reply
<1>7. ~ReplyComing(c)'
  BY DEF ReplyComing
<1>8. OneOp(c)'
  <2>1. Len(ops'[c]) = 0
    OBVIOUS
  <2> QED BY <1>1, <1>5, <1>7, <2>1 DEF HostInv, OneOp
<1>9. OpInv(c)'
  BY DEF OpInv
<1>10. BeginInv(c)'
  BY <1>1, <1>6 DEF HostInv, BeginInv
<1>11. DataInv(c)'
  BY <1>1, <1>6 DEF HostInv, DataInv
<1>12. EndInv(c)'
  <2>1. (Settled(c)' <=> Settled(c)) /\ (Refuses(c, host[c].item)' <=> Refuses(c, host[c].item))
    BY DEF Settled, Refuses
  <2> QED BY <1>1, <1>6, <1>7, <2>1 DEF HostInv, EndInv
<1>13. AbortInv(c)' /\ OkInv(c)'
  BY <1>1 DEF HostInv, AbortInv, OkInv, OneOp
<1> QED BY <1>8, <1>9, <1>10, <1>11, <1>12, <1>13 DEF HostInv

\* The ESP forwards an operation.
LEMMA AskHost ==
  ASSUME Sound, NEW c \in Clients, NEW step \in {"begin", "data", "end"}, NEW arg,
         Forward(c, step, arg), wait[c] = "no", ops[c] # <<>>, Head(ops[c]).op = step, ops'[c] = <<>>,
         UNCHANGED <<host, replies, session, bulk, committed>>,
         step = "begin" => arg = Head(ops[c]).item,
         step = "data" => Head(ops[c]).seq = bulk[c].next
  PROVE  HostInv(c)'
<1> DEFINE frame == Frame(<<Kind[c], step>>, arg)
<1>1. frame.cmd[2] = step /\ frame.arg = arg
  BY DEF Frame
<1>2. wait'[c] = "lock" /\ request'[c] = frame
  BY SoundParts DEF Forward, Request, OwnerInv, CallsWellFormed
<1> HIDE DEF frame
<1>3. HostInv(c) /\ ReplyComing(c) /\ ReplyComing(c)'
  BY <1>2, SoundParts DEF ReplyComing
<1>4. host[c].pc \in Steps => /\ step = host[c].pc /\ Head(ops[c]).item = host[c].item
                              /\ Head(ops[c]).seq = host[c].seq
  BY <1>3 DEF HostInv, OpInv
<1>5. /\ Beginning(c)' <=> step = "begin"
      /\ Chunking(c)' <=> step = "data"
      /\ Ending(c)' <=> step = "end"
  BY <1>1, <1>2 DEF Beginning, Chunking, Ending
<1>6. OneOp(c)'
  <2>1. Len(ops'[c]) = 0
    OBVIOUS
  <2> QED BY <1>3, <2>1 DEF HostInv, OneOp
<1>7. OpInv(c)'
  BY DEF OpInv
<1>8. replies[c] = <<>>
  BY <1>3 DEF HostInv, OneOp
<1>9. BeginInv(c)'
  BY <1>1, <1>2, <1>3, <1>4, <1>5, <1>8 DEF HostInv, BeginInv
<1>10. DataInv(c)'
  BY <1>3, <1>4, <1>5, <1>8 DEF HostInv, DataInv
<1>11. EndInv(c)'
  <2>1. Settled(c)' <=> Settled(c)
    BY DEF Settled, Refuses
  <2> QED BY <1>3, <1>4, <1>5, <1>8, <2>1 DEF HostInv, EndInv
<1>12. AbortInv(c)' /\ OkInv(c)'
  BY <1>3, <1>4 DEF HostInv, AbortInv, OkInv, OneOp
<1> QED BY <1>6, <1>7, <1>9, <1>10, <1>11, <1>12 DEF HostInv

LEMMA ServeHost ==
  ASSUME Sound, NEW c \in Clients, Serve(c)
  PROVE  HostInv(c)'
<1> DEFINE op == Head(ops[c])
<1>1. /\ wait[c] = "no" /\ ops[c] # <<>>
      /\ ops' = [ops EXCEPT ![c] = Tail(@)]
      /\ UNCHANGED <<host, session, committed>>
  BY DEF Serve, OpBegin, OpData, OpEnd, OpAbort, Serves, wioVars
<1>2. HostInv(c) /\ ReplyComing(c)
  BY <1>1, SoundParts DEF ReplyComing
<1>3. ops'[c] = <<>>
  <2>1. ops \in [Clients -> Seq(OpRecord)] /\ Len(ops[c]) <= 1
    BY <1>2, SoundParts DEF TypeInv, QueuesTyped, HostInv, OneOp
  <2>2. ops'[c] = Tail(ops[c]) /\ ops[c] \in Seq(OpRecord)
    BY <1>1, <2>1
  <2> QED BY <1>1, <2>1, <2>2
<1>4. host[c].pc \in Steps => op.op = host[c].pc /\ op.item = host[c].item /\ op.seq = host[c].seq
  BY <1>1, <1>2 DEF HostInv, OpInv
<1>5. UNCHANGED <<wait, request>> => wait'[c] = "no"
  BY <1>1
<1>6. CASE OpBegin(c)
  <2>1. op.op = "begin" /\ UNCHANGED bulk
    BY <1>6 DEF OpBegin, Serves
  <2>2. ASSUME NEW status \in {"BAD_STATE", "BAD_VALUE"}, Respond(c, status, 0), UNCHANGED callVars
        PROVE  HostInv(c)'
    <3>1. status # "OK" /\ wait'[c] = "no"
      BY <1>5, <2>2 DEF callVars
    <3>2. host[c].pc \notin {"data", "end", "abort"}
      BY <1>4, <2>1
    <3> HIDE DEF op
    <3> QED BY <1>1, <1>2, <1>3, <2>2, <3>1, <3>2, AnswerHost
  <2>3. CASE Forward(c, "begin", op.item) /\ UNCHANGED replies
    BY <1>1, <1>3, <2>1, <2>3, AskHost
  <2> QED BY <1>6, <2>2, <2>3 DEF OpBegin
<1>7. CASE OpData(c)
  <2>1. op.op = "data" /\ UNCHANGED bulk
    BY <1>7 DEF OpData, Serves
  <2>2. bulk[c] # None /\ op.item = bulk[c].item /\ bulk[c].next \in {op.seq, op.seq + 1}
    BY <1>1, <1>2, <2>1 DEF HostInv, OpInv
  <2>3. op.seq \in 0..Chunks
    BY <1>7, SoundParts, OpServed DEF OpData, TypeInv
  <2>4. CASE op.seq + 1 = bulk[c].next
    <3>0. op.seq \in {bulk[c].next, bulk[c].next - 1} /\ op.seq # bulk[c].next
      BY <2>3, <2>4
    <3>1. Respond(c, "OK", bulk[c].next) /\ UNCHANGED callVars
      BY <1>7, <2>2, <2>4, <3>0, Zenon DEF OpData
    <3>2. wait'[c] = "no"
      BY <1>5, <3>1 DEF callVars
    <3>3. host[c].pc \notin {"begin", "end", "abort"}
      BY <1>4, <2>1
    <3>4. host[c].pc = "data" => bulk[c].item = host[c].item /\ bulk[c].next = host[c].sent + 1
      BY <1>2, <1>4, <2>4 DEF HostInv, DataInv
    <3> HIDE DEF op
    <3> QED BY <1>1, <1>2, <1>3, <2>1, <2>2, <3>1, <3>2, <3>3, <3>4, AnswerHost
  <2>5. CASE op.seq = bulk[c].next
    <3>0. op.seq + 1 # bulk[c].next /\ op.seq \in {bulk[c].next, bulk[c].next - 1}
      BY <2>3, <2>5
    <3>1. Forward(c, "data", op) /\ UNCHANGED replies
      BY <1>7, <2>2, <3>0, Zenon DEF OpData
    <3> QED BY <1>1, <1>3, <2>1, <2>5, <3>1, AskHost
  <2> QED BY <2>2, <2>4, <2>5
<1>8. CASE OpEnd(c)
  <2>1. op.op = "end"
    BY <1>8 DEF OpEnd, Serves
  <2>2. CASE bulk[c] = None
    <3>1. Respond(c, "BAD_STATE", 0) /\ UNCHANGED <<bulk, callVars>>
      BY <1>8, <2>2 DEF OpEnd
    <3>2. wait'[c] = "no" /\ bulk'[c] = None
      BY <1>5, <2>2, <3>1 DEF callVars
    <3>3. host[c].pc \notin {"begin", "data", "abort"}
      BY <1>4, <2>1
    <3>4. host[c].pc = "end" => Settled(c) /\ host[c].tries > 1
      <4>1. host[c].tries \in 0..Attempts
        BY SoundParts, HostFields DEF TypeInv
      <4>2. host[c].pc = "end" => Settled(c) /\ host[c].tries > 0 /\ host[c].tries # 1
        BY <1>2, <2>2 DEF HostInv, OneOp, EndInv
      <4> QED BY <4>1, <4>2, Bounds
    <3> HIDE DEF op
    <3> QED BY <1>1, <1>2, <1>3, <3>1, <3>2, <3>3, <3>4, AnswerHost
  <2>3. CASE bulk[c] # None
    <3>1. bulk[c].next = Chunks
      BY <1>1, <1>2, <2>1, <2>3 DEF HostInv, OpInv
    <3>2. bulk[c].received = bulk[c].next
      BY <2>3, SoundParts DEF Sync, ClientInStep, BulkInStep
    <3>3. Forward(c, "end", bulk[c].item) /\ UNCHANGED <<bulk, replies>>
      BY <1>8, <2>3, <3>1, <3>2 DEF OpEnd
    <3> QED BY <1>1, <1>3, <2>1, <3>3, AskHost
  <2> QED BY <2>2, <2>3
<1>9. CASE OpAbort(c)
  <2>1. op.op = "abort" /\ Abandon(c) /\ Respond(c, "OK", 0) /\ UNCHANGED callVars
    BY <1>9 DEF OpAbort, Serves
  <2>2. bulk'[c] = None
    BY <2>1, SoundParts DEF Abandon, Release, OwnerInv, CallsWellFormed
  <2>3. wait'[c] = "no"
    BY <1>5, <2>1 DEF callVars
  <2>4. host[c].pc \notin {"begin", "data", "end"}
    BY <1>4, <2>1
  <2> HIDE DEF op
  <2> QED BY <1>1, <1>2, <1>3, <2>1, <2>2, <2>3, <2>4, AnswerHost
<1> QED BY <1>6, <1>7, <1>8, <1>9 DEF Serve

LEMMA DoneHost ==
  ASSUME Sound, LinkHoldsAll, OnlyClientsFailed', NEW c \in Clients, Done(c)
  PROVE  HostInv(c)'
<1>1. PICK status \in {"OK", "WIO_ERROR", "WIO_TIMEOUT"} :
        BeginDone(c, status) \/ DataDone(c, status) \/ EndDone(c, status)
  BY DEF Done
<1>2. /\ wait[c] = "answer" /\ Returns(c, status) /\ UNCHANGED <<host, ops, session, committed>>
  BY <1>1 DEF BeginDone, DataDone, EndDone, Resumes, wioVars
<1>3. HostInv(c) /\ ReplyComing(c) /\ wait'[c] = "no" /\ ops'[c] = <<>>
  BY <1>2, SoundParts DEF ReplyComing, Returns, Drop, OwnerInv, CallsWellFormed, HostInv, OneOp
<1>4. /\ host[c].pc = "begin" => Beginning(c) /\ request[c].arg = host[c].item
      /\ host[c].pc = "data" => /\ Chunking(c) /\ bulk[c].item = host[c].item
                                /\ bulk[c].next = host[c].sent
      /\ host[c].pc = "end" => /\ Ending(c)
                               /\ bulk[c] # None => bulk[c].item = host[c].item /\ bulk[c].next = Chunks
      /\ host[c].pc # "abort"
  BY <1>2, <1>3 DEF HostInv, BeginInv, DataInv, EndInv, AbortInv
<1>5. CASE BeginDone(c, status)
  <2>1. request[c].cmd[2] = "begin" /\ Respond(c, status, 0)
    BY <1>5 DEF BeginDone, Resumes
  <2>2. host[c].pc \notin {"data", "end"}
    BY <1>4, <2>1 DEF Chunking, Ending
  <2> DEFINE granted == [item |-> request[c].arg, received |-> 0, next |-> 0]
  <2>3. status = "OK" => bulk'[c] = granted
    BY <1>5, SoundParts DEF BeginDone, OwnerInv, CallsWellFormed
  <2>4. granted.item = request[c].arg /\ granted.next = 0 /\ granted # None
    <3>1. granted \in BulkState
      BY <1>2, <2>1, SoundParts, Bounds DEF TypeInv, RequestsTyped, ItemFrames, ChunkFrames, BulkState
    <3> QED BY <3>1, OptionAssumption
  <2> HIDE DEF granted
  <2> QED BY <1>2, <1>3, <1>4, <2>1, <2>2, <2>3, <2>4, AnswerHost
<1>6. CASE DataDone(c, status)
  <2>1. /\ status = "OK" /\ request[c].cmd[2] = "data" /\ Respond(c, "OK", signal.value)
        /\ bulk'[c].next = bulk[c].next + 1 /\ bulk'[c].item = bulk[c].item /\ bulk'[c] # None
        /\ signal.value = bulk[c].next + 1
    BY <1>6, DataDoneLink DEF DataDone, Resumes
  <2>2. host[c].pc \notin {"begin", "end"}
    BY <1>4, <2>1 DEF Beginning, Ending
  <2> QED BY <1>2, <1>3, <1>4, <2>1, <2>2, AnswerHost
<1>7. CASE EndDone(c, status)
  <2>1. /\ request[c].cmd[2] = "end" /\ Respond(c, status, 0)
        /\ status \in {"OK", "WIO_ERROR"} /\ bulk[c] # None
        /\ status = "OK" => Image(bulk[c].item) \in committed /\ bulk'[c] = None
        /\ status # "OK" => Refuses(c, bulk[c].item) /\ bulk'[c] = bulk[c]
    BY <1>7, EndDoneLink DEF EndDone, Resumes
  <2>2. host[c].pc \notin {"begin", "data"}
    BY <1>4, <2>1 DEF Beginning, Chunking
  <2>3. host[c].pc = "end" /\ status = "OK" => Settled(c)
    BY <1>4, <2>1 DEF Settled
  <2> QED BY <1>2, <1>3, <1>4, <2>1, <2>2, <2>3, AnswerHost
<1> QED BY <1>1, <1>5, <1>6, <1>7

\* A transfer that is given up behind the back of a client that says nothing more.
LEMMA AbandonHost ==
  ASSUME Sound, NEW c \in Clients, Abandon(c), wait[c] = "no", ops[c] = <<>>,
         UNCHANGED <<host, ops, replies, wait, request, committed>>, session => session',
         host[c].pc \notin {"begin", "data"}, host[c].pc = "end" => replies[c] = <<>>
  PROVE  HostInv(c)'
<1>1. bulk'[c] = None
  BY SoundParts DEF Abandon, Release, OwnerInv, CallsWellFormed
<1>2. HostInv(c) /\ ~ReplyComing(c) /\ ~ReplyComing(c)'
  BY SoundParts DEF ReplyComing
<1>3. Settled(c)' <=> Settled(c)
  BY DEF Settled, Refuses
<1>4. OneOp(c)' /\ OpInv(c)'
  BY <1>1, <1>2 DEF HostInv, OneOp, OpInv
<1>5. BeginInv(c)' /\ DataInv(c)'
  BY DEF BeginInv, DataInv
<1>6. EndInv(c)'
  BY <1>1, <1>2, <1>3 DEF HostInv, EndInv, Settled
<1>7. AbortInv(c)' /\ OkInv(c)'
  BY <1>1, <1>2, <1>3 DEF HostInv, AbortInv, OkInv
<1> QED BY <1>4, <1>5, <1>6, <1>7 DEF HostInv

\* A step of one client, or of its task, is none of the other's.
LEMMA OtherHost ==
  ASSUME Sound, NEW c \in Clients, NEW d \in Clients \ {c}, Client(c) \/ Serve(c) \/ Done(c)
  PROVE  HostInv(d)'
<1> USE DEF clientVars, espVars, wioVars, callVars
<1>1. /\ host \in [Clients -> HostRecord] /\ DOMAIN ops = Clients /\ DOMAIN replies = Clients
      /\ DOMAIN bulk = Clients /\ DOMAIN wait = Requesters /\ DOMAIN request = Requesters
  BY SoundParts DEF TypeInv, HostTyped, QueuesTyped, OwnerInv, CallsWellFormed
<1>2. CASE Client(c)
  <2>1. UNCHANGED <<session, bulk, wait, request, committed>>
    BY <1>2 DEF Client, Start, BeginAnswered, DataAnswered, EndAnswered, AbortAnswered, Answered
  <2>2. (\E h : Submit(c, h)) \/ (\E result : Conclude(c, result))
    BY <1>2 DEF Client, Start, BeginAnswered, DataAnswered, EndAnswered, AbortAnswered, GiveUp, Retry
  <2>3. host'[d] = host[d] /\ ops'[d] = ops[d] /\ replies'[d] = replies[d]
    BY <1>1, <2>2 DEF Submit, Conclude
  <2> QED BY <2>1, <2>3, SoundParts, HostSame
<1>3. CASE Serve(c)
  <2>1. UNCHANGED <<host, session, committed>> /\ ops' = [ops EXCEPT ![c] = Tail(@)]
    BY <1>3 DEF Serve, OpBegin, OpData, OpEnd, OpAbort, Serves
  <2>2. (\E status, next : Respond(c, status, next)) \/ UNCHANGED replies
    BY <1>3 DEF Serve, OpBegin, OpData, OpEnd, OpAbort
  <2>3. UNCHANGED bulk \/ Release(c)
    BY <1>3 DEF Serve, OpBegin, OpData, OpEnd, OpAbort, Abandon
  <2>4. UNCHANGED <<wait, request>> \/ (\E frame : Request(c, frame))
    BY <1>3 DEF Serve, OpBegin, OpData, OpEnd, OpAbort, Forward
  <2>5. ops'[d] = ops[d] /\ replies'[d] = replies[d]
    BY <1>1, <2>1, <2>2 DEF Respond
  <2>6. bulk'[d] = bulk[d] /\ wait'[d] = wait[d] /\ request'[d] = request[d]
    BY <1>1, <2>3, <2>4 DEF Release, Request
  <2> QED BY <2>1, <2>5, <2>6, SoundParts, HostSame
<1>4. CASE Done(c)
  <2>1. PICK status \in {"OK", "WIO_ERROR", "WIO_TIMEOUT"} :
          BeginDone(c, status) \/ DataDone(c, status) \/ EndDone(c, status)
    BY <1>4 DEF Done
  <2>2. Returns(c, status) /\ UNCHANGED <<host, ops, session, committed>>
    BY <2>1 DEF BeginDone, DataDone, EndDone, Resumes
  <2>3. \E s, next : Respond(c, s, next)
    BY <2>1 DEF BeginDone, DataDone, EndDone
  <2>4. replies'[d] = replies[d]
    BY <1>1, <2>3 DEF Respond
  <2>5. bulk'[d] = bulk[d]
    BY <1>1, <2>1 DEF BeginDone, DataDone, EndDone, Release
  <2>6. wait'[d] = wait[d] /\ request'[d] = request[d]
    BY <1>1, <2>2 DEF Returns, Drop
  <2> QED BY <2>2, <2>4, <2>5, <2>6, SoundParts, HostSame
<1> QED BY <1>2, <1>3, <1>4

\* The reset of a client's reply, the loss of its link, its end.
LEMMA FaultHost ==
  ASSUME Sound, OnlyClientsFailed', NEW d \in Clients,
         HostTimeout \/ LoseReply \/ HostVanishes \/ BleLinkLost
  PROVE  HostInv(d)'
<1> USE DEF clientVars, espVars, wioVars, callVars
<1>1. /\ host \in [Clients -> HostRecord] /\ DOMAIN ops = Clients /\ replies \in [Clients -> Seq(ReplyRecord)]
      /\ \A c \in Clients : HostInv(c)
  BY SoundParts DEF TypeInv, HostTyped, QueuesTyped
<1>2. CASE HostTimeout
  <2>1. CASE d = "usb"
    BY <1>2, <2>1, TimeoutHost
  <2>2. CASE d # "usb"
    <3>1. (\E h : Submit("usb", h)) \/ (\E result : Conclude("usb", result))
      BY <1>2 DEF HostTimeout, GiveUp, Retry
    <3>2. host'[d] = host[d] /\ ops'[d] = ops[d] /\ replies'[d] = replies[d]
      BY <1>1, <2>2, <3>1 DEF Submit, Conclude
    <3>3. UNCHANGED <<session, bulk, wait, request, committed>>
      BY <1>2 DEF HostTimeout
    <3> QED BY <1>1, <3>2, <3>3, HostSame
  <2> QED BY <2>1, <2>2
<1>3. CASE LoseReply
  <2>1. UNCHANGED <<host, ops, session, bulk, wait, request, committed>>
    BY <1>3 DEF LoseReply
  <2>2. replies["usb"] \in Seq(ReplyRecord) /\ Len(replies["usb"]) <= 1 /\ replies["usb"] # <<>>
    BY <1>1, <1>3 DEF HostInv, OneOp, LoseReply
  <2>3. Tail(replies["usb"]) = <<>>
    BY <2>2
  <2>4. replies'[d] \in {replies[d], <<>>}
    BY <1>1, <1>3, <2>3 DEF LoseReply
  <2> QED BY <1>1, <2>1, <2>4, HostSame
<1>4. CASE HostVanishes \/ BleLinkLost
  <2>1. PICK c \in Clients : Conclude(c, "gone") /\ (c = "ble" \/ UNCHANGED session)
    BY <1>4 DEF HostVanishes, BleLinkLost
  <2>2. UNCHANGED <<bulk, wait, request, committed>>
    BY <1>4 DEF HostVanishes, BleLinkLost
  <2>3. CASE d = c
    BY <2>1, <2>2, <2>3, ConcludeHost
  <2>4. CASE d # c
    <3>1. host'[d] = host[d] /\ ops'[d] = ops[d] /\ replies'[d] = replies[d]
      BY <1>1, <2>1, <2>4 DEF Conclude
    <3>2. d = "ble" /\ session => session'
      BY <2>1, <2>4
    <3> QED BY <1>1, <2>2, <3>1, <3>2, HostSame
  <2> QED BY <2>3, <2>4
<1> QED BY <1>2, <1>3, <1>4

LEMMA StepHosts ==
  ASSUME Sound, LinkHoldsAll, [Next]_vars, OnlyClientsFailed', NEW d \in Clients
  PROVE  HostInv(d)'
<1> USE DEF clientVars, espVars, wioVars, linkVars, callVars
<1>1. HostInv(d)
  BY SoundParts
<1>2. ASSUME UNCHANGED <<host, ops, replies, session, bulk, committed>>, request'[d] = request[d],
             wait'[d] = "no" <=> wait[d] = "no"
      PROVE  HostInv(d)'
  BY <1>1, <1>2, HostSame
<1>3. ASSUME NEW c \in Clients, Client(c) \/ Serve(c) \/ Done(c) PROVE HostInv(d)'
  <2>1. CASE d = c
    BY <1>3, <2>1, ClientHost, ServeHost, DoneHost
  <2>2. CASE d # c
    BY <1>3, <2>2, OtherHost
  <2> QED BY <2>1, <2>2
<1>4. CASE Heartbeat \/ HeartbeatDone
  <2>1. UNCHANGED <<host, ops, replies, session, bulk, committed>>
    BY <1>4 DEF Heartbeat, HeartbeatDone
  <2>2. wait'[d] = wait[d] /\ request'[d] = request[d]
    BY <1>4, SoundParts DEF Heartbeat, HeartbeatDone, Request, Returns, Drop, OwnerInv, CallsWellFormed
  <2> QED BY <1>2, <2>1, <2>2
<1>5. ASSUME NEW r \in Requesters, TakeLock(r) \/ SkipAck(r) PROVE HostInv(d)'
  <2>1. UNCHANGED <<host, ops, replies, session, bulk, committed, request>>
    BY <1>5 DEF TakeLock, SkipAck
  <2>2. wait'[d] = "no" <=> wait[d] = "no"
    BY <1>5, SoundParts DEF TakeLock, SkipAck, OwnerInv, CallsWellFormed
  <2> QED BY <1>2, <2>1, <2>2
<1>6. CASE UsbIdleAbort
  <2>1. CASE d = "usb"
    BY <1>6, <2>1, AbandonHost DEF UsbIdleAbort, HostSilent
  <2>2. CASE d = "ble"
    <3>1. bulk'["ble"] = bulk["ble"]
      BY <1>6, SoundParts DEF UsbIdleAbort, Abandon, Release, OwnerInv, CallsWellFormed
    <3>2. UNCHANGED <<host, ops, replies, session, wait, request, committed>>
      BY <1>6 DEF UsbIdleAbort
    <3> QED BY <1>1, <2>2, <3>1, <3>2, HostSame
  <2> QED BY <2>1, <2>2
<1>7. CASE SessionEnds
  <2>1. CASE d = "ble"
    <3>1. host[d].pc \notin Steps
      BY <1>1, <1>7, <2>1 DEF SessionEnds, HostInv, OneOp
    <3> QED BY <1>7, <2>1, <3>1, AbandonHost DEF SessionEnds
  <2>2. CASE d = "usb"
    <3>1. bulk'["usb"] = bulk["usb"]
      BY <1>7, SoundParts DEF SessionEnds, Abandon, Release, OwnerInv, CallsWellFormed
    <3>2. UNCHANGED <<host, ops, replies, wait, request, committed>>
      BY <1>7 DEF SessionEnds
    <3> QED BY <1>1, <2>2, <3>1, <3>2, HostSame
  <2> QED BY <2>1, <2>2
<1>8. CASE LinkReceives
  BY <1>2, <1>8 DEF LinkReceives
<1>9. CASE Wio
  <2>1. UNCHANGED <<host, ops, replies, session, bulk, wait, request>>
    BY <1>9 DEF Wio, WioBegin, WioData, WioEndConfig, WioEndFirmware, WioAbort, WioPing, WioBusy, Gets
  <2>2. committed \subseteq committed'
    BY <1>9 DEF Wio, WioBegin, WioData, WioEndConfig, WioEndFirmware, WioAbort, WioPing, WioBusy
  <2> QED BY <1>1, <2>1, <2>2, HostSame
<1>10. CASE UNCHANGED vars
  BY <1>2, <1>10 DEF vars
<1> QED
  BY <1>3, <1>4, <1>5, <1>6, <1>7, <1>8, <1>9, <1>10, FaultHost, ClientFaults DEF Next

-----------------------------------------------------------------------------
(***************************************************************************)
(* The invariant holds as long as nothing but clients has failed.          *)
(***************************************************************************)

LEMMA InitClients == Init => ClientInv
<1> SUFFICES ASSUME Init PROVE ClientInv
  OBVIOUS
<1>1. /\ toWio = <<>> /\ toEsp = <<>> /\ signal = None /\ holder = None /\ busy = FALSE /\ ~xferActive
      /\ rx["FIRMWARE"] = None
      /\ \A c \in Clients : /\ bulk[c] = None /\ wait[c] = "no" /\ ops[c] = <<>> /\ replies[c] = <<>>
                            /\ host[c].pc = "idle"
  BY DEF Init
<1>2. Len(toWio) = 0 /\ DOMAIN toWio = {}
  BY <1>1
<1>3. RoomInv
  BY <1>1, <1>2 DEF RoomInv, Backlog
<1>4. PlacedInv
  BY <1>1 DEF PlacedInv
<1>5. ASSUME NEW c \in Clients PROVE ReceiverInv(c)
  BY <1>1 DEF ReceiverInv, KeepsInv, AckMeans
<1>6. BusyCalm
  BY <1>1, <1>2 DEF BusyCalm, EndsCalm
<1>7. RxCalm /\ XferOwned
  BY <1>1 DEF RxCalm, XferOwned
<1>8. ASSUME NEW c \in Clients PROVE HostInv(c)
  <2>1. OneOp(c) /\ OpInv(c)
    BY <1>1 DEF OneOp, OpInv, ReplyComing
  <2>2. BeginInv(c) /\ DataInv(c) /\ EndInv(c) /\ AbortInv(c) /\ OkInv(c)
    BY <1>1 DEF BeginInv, DataInv, EndInv, AbortInv, OkInv
  <2> QED BY <2>1, <2>2 DEF HostInv
<1> QED BY <1>3, <1>4, <1>5, <1>6, <1>7, <1>8 DEF ClientInv, LinkInv

\* Faults are counted and not forgotten.
FaultsGrow == met \subseteq met' /\ faults' \in {faults, faults + 1}

LEMMA FaultsStay == [Next]_vars => FaultsGrow
<1> SUFFICES ASSUME [Next]_vars PROVE FaultsGrow
  OBVIOUS
<1> USE DEF FaultsGrow, clientVars, espVars, wioVars, linkVars, faultVars, Fault, Expired
<1>1. ASSUME NEW c \in Clients, Client(c) \/ Serve(c) \/ Done(c) PROVE FaultsGrow
  BY <1>1 DEF Client, Start, BeginAnswered, DataAnswered, EndAnswered, AbortAnswered, Answered,
              Serve, OpBegin, OpData, OpEnd, OpAbort, Serves, Done, BeginDone, DataDone, EndDone,
              Resumes, Returns
<1>2. CASE HostTimeout \/ LoseReply \/ HostVanishes \/ BleLinkLost
  BY <1>2 DEF HostTimeout, LoseReply, HostVanishes, BleLinkLost
<1>3. CASE Heartbeat \/ HeartbeatDone
  BY <1>3 DEF Heartbeat, HeartbeatDone, Returns
<1>4. ASSUME NEW r \in Requesters, TakeLock(r) \/ SkipAck(r) PROVE FaultsGrow
  BY <1>4 DEF TakeLock, SkipAck
<1>5. CASE UsbIdleAbort \/ SessionEnds \/ NotifierEnds
  BY <1>5 DEF UsbIdleAbort, SessionEnds, NotifierEnds
<1>6. CASE LinkReceives \/ LoseFrame \/ LoseAck
  BY <1>6 DEF LinkReceives, LoseFrame, LoseAck
<1>7. CASE Wio \/ WioFlashFails \/ WioReset
  BY <1>7 DEF Wio, WioBegin, WioData, WioEndConfig, WioEndFirmware, WioAbort, WioPing, WioBusy, Gets,
              WioFlashFails, WioReset
<1>8. CASE UNCHANGED vars
  BY <1>8 DEF vars
<1> QED BY <1>1, <1>2, <1>3, <1>4, <1>5, <1>6, <1>7, <1>8 DEF Next

ClientsInvariant == OwnerInv /\ TypeInv /\ SyncInv /\ (OnlyClientsFailed => ClientInv)

LEMMA ClientsSound == ClientsInvariant /\ OnlyClientsFailed => Sound
BY DEF ClientsInvariant, OnlyClientsFailed, SyncInv, AnswersInTime, Sound

LEMMA StepClients == LinkHoldsAll /\ ClientsInvariant /\ [Next]_vars => ClientsInvariant'
<1> SUFFICES ASSUME LinkHoldsAll, ClientsInvariant, [Next]_vars PROVE ClientsInvariant'
  OBVIOUS
<1>1. OwnerInv' /\ TypeInv' /\ SyncInv'
  BY StepOwner, StepTyped, StepSync DEF ClientsInvariant
<1>2. ASSUME OnlyClientsFailed' PROVE ClientInv'
  <2>1. OnlyClientsFailed
    BY <1>2, FaultsStay DEF OnlyClientsFailed, FaultsGrow
  <2>2. Sound
    BY <2>1, ClientsSound
  <2> QED BY <1>2, <2>2, StepLink, StepHosts DEF ClientInv
<1> QED BY <1>1, <1>2 DEF ClientsInvariant

LEMMA ClientsHold == ASSUME LinkHoldsAll PROVE Spec => []ClientsInvariant
<1>1. Init => ClientsInvariant
  BY InitOwner, InitTyped, InitSync, InitClients DEF ClientsInvariant
<1>2. ClientsInvariant /\ [Next]_vars => ClientsInvariant'
  BY StepClients
<1> QED BY <1>1, <1>2, PTL DEF Spec

-----------------------------------------------------------------------------
(***************************************************************************)
(* What the invariant says when a transfer is over.                        *)
(***************************************************************************)

LEMMA NothingLeft ==
  ASSUME Sound PROVE NothingDangling
<1> SUFFICES ASSUME ~xferActive, toWio = <<>> PROVE rx["FIRMWARE"] = None /\ ~busy
  BY DEF NothingDangling
<1>1. \A c \in Clients : bulk[c] = None /\ ~Beginning(c)
  BY SoundParts DEF OwnerInv, OneOwner, Claims
<1>2. Range(toWio) = {}
  BY EmptyCalls
<1>3. rx["FIRMWARE"] = None
  BY <1>1, <1>2, SoundParts DEF RxCalm, Accepted
<1>4. ~busy
  BY <1>1, <1>2, SoundParts DEF BusyCalm, EndsCalm
<1> QED BY <1>3, <1>4

\* gatt_session: "make sure a dangling transfer does not leave the WIO waiting
\* or the busy flag set"; usb_task does the same for a host that vanished.
\* Whatever client goes away, at whatever step, and whatever reply is lost, the
\* WIO is left with no firmware transfer and no radio held back.
THEOREM NothingStaysBehind == ASSUME LinkHoldsAll PROVE Spec => []ClientsLeaveNothing
<1>1. ClientsInvariant => ClientsLeaveNothing
  BY ClientsSound, NothingLeft DEF ClientsLeaveNothing
<1> QED BY <1>1, ClientsHold, PTL

\* send_end: "the work is committed, so treat as success".  A client that
\* reports success has its image installed or applied, for every image the WIO
\* does not refuse to parse, as long as only clients failed.
THEOREM SuccessIsCommitted ==
  ASSUME LinkHoldsAll, "unparsable" \notin Shapes
  PROVE  Spec => [](OnlyClientsFailed => SuccessMeansCommitted)
<1>1. ClientsInvariant => (OnlyClientsFailed => SuccessMeansCommitted)
  <2> SUFFICES ASSUME ClientsInvariant, OnlyClientsFailed, NEW c \in Clients, host[c].pc = "ok"
               PROVE  Image(host[c].item) \in committed
    BY DEF SuccessMeansCommitted
  <2>1. Settled(c) /\ host[c].item \in Item
    BY ClientsSound, SoundParts DEF HostInv, OkInv
  <2>2. host[c].item.shape # "unparsable"
    BY <2>1 DEF Item
  <2> QED BY <2>1, <2>2 DEF Settled, Refuses
<1> QED BY <1>1, ClientsHold, PTL

-----------------------------------------------------------------------------
(***************************************************************************)
(* Retries: fewer replies to OP_DATA and OP_END are lost than there are    *)
(* attempts, and no other client uses the link.                            *)
(***************************************************************************)

Undisturbed == FewRepliesLost("usb_ack") /\ host["ble"].pc = "idle"

\* A reply to the client is under way, or here.
Replying == ReplyComing("usb") \/ replies["usb"] # <<>>

\* OP_BEGIN, of which no reply is lost, finds the link free.
RetryBegin ==
  host["usb"].pc = "begin" =>
    /\ Replying
    /\ ReplyComing("usb") => bulk["usb"] = None
    /\ replies["usb"] # <<>> /\ host["usb"].item.shape = "good" => Reply("usb").status = "OK"

\* Each attempt but the last one has cost a lost reply.
RetryCount ==
  host["usb"].pc \in {"data", "end"} =>
    host["usb"].tries <= faults + (IF Replying THEN 1 ELSE 0)

RetryParts == host["usb"].pc # "gone" /\ RetryBegin /\ RetryCount /\ ~GoodImageFails

RetryInv == faults \in Nat /\ (Undisturbed => RetryParts)

\* What a step has to know of the other client, and of the faults.
Alone == /\ Sound /\ LinkHoldsAll /\ OnlyClientsFailed' /\ RetryParts
         /\ faults \in Nat /\ faults' \in {faults, faults + 1} /\ faults < Attempts /\ faults' < Attempts
         /\ host["ble"].pc = "idle" /\ UNCHANGED host["ble"]

LEMMA AloneParts ==
  ASSUME Alone
  PROVE  /\ Sound /\ OnlyClientsFailed' /\ HostInv("usb") /\ RetryParts /\ LinkHoldsAll
         /\ bulk["ble"] = None /\ wait["ble"] = "no" /\ ops["ble"] = <<>>
         /\ host["usb"] \in HostRecord /\ host["usb"].tries \in 0..Attempts
         /\ host["usb"].pc \in Steps => host["usb"].tries > 0 /\ host["usb"].item \in Item
         /\ 1 <= faults' + 1
<1>1. Sound /\ OnlyClientsFailed' /\ HostInv("usb") /\ HostInv("ble") /\ RetryParts /\ LinkHoldsAll
  BY SoundParts DEF Alone
<1>2. bulk["ble"] = None /\ wait["ble"] = "no" /\ ops["ble"] = <<>>
  BY <1>1 DEF Alone, HostInv, OneOp, ReplyComing
<1>3. /\ host["usb"] \in HostRecord /\ host["usb"].tries \in 0..Attempts
      /\ host["usb"].pc \in Steps => host["usb"].item \in Item
  BY <1>1, SoundParts, HostFields DEF TypeInv
<1>4. 1 <= faults' + 1
  <2>1. faults \in Nat /\ faults' \in {faults, faults + 1}
    BY DEF Alone
  <2>2. faults' = faults \/ faults' = faults + 1
    BY <2>1
  <2>3. faults' \in Nat
    BY <2>1, <2>2
  <2>4. \A n \in Nat : 1 <= n + 1
    OBVIOUS
  <2> QED BY <2>3, <2>4
<1> QED BY <1>1, <1>2, <1>3, <1>4 DEF HostInv, OneOp

\* A step that is neither the client's nor an answer to it.
LEMMA RetrySame ==
  ASSUME Alone,
         host'["usb"] = host["usb"], ops'["usb"] = ops["usb"], replies'["usb"] = replies["usb"],
         bulk'["usb"] = bulk["usb"] \/ host["usb"].pc # "begin",
         wait'["usb"] = "no" <=> wait["usb"] = "no"
  PROVE  RetryParts'
<1>1. RetryParts
  BY DEF Alone
<1>2. /\ Replying' <=> Replying
      /\ ReplyComing("usb")' <=> ReplyComing("usb")
      /\ Reply("usb")' = Reply("usb")
  BY DEF Replying, ReplyComing, Reply
<1>3. RetryBegin'
  BY <1>1, <1>2 DEF RetryParts, RetryBegin
<1>4. RetryCount'
  <2>1. host["usb"].tries \in 0..Attempts
    BY AloneParts
  <2> QED BY <1>1, <1>2, <2>1, Bounds DEF RetryParts, RetryCount, Alone
<1>5. ~GoodImageFails'
  BY <1>1 DEF RetryParts, GoodImageFails, Alone
<1> QED BY <1>1, <1>3, <1>4, <1>5 DEF RetryParts

\* An operation that is served is answered or asked of the WIO.
LEMMA RetryServed ==
  ASSUME Alone, host'["usb"] = host["usb"], ReplyComing("usb"),
         ReplyComing("usb")' \/ replies'["usb"] # <<>>,
         host["usb"].pc = "begin" /\ ReplyComing("usb")' => bulk'["usb"] = None,
         host["usb"].pc = "begin" /\ host["usb"].item.shape = "good" /\ replies'["usb"] # <<>> =>
           Reply("usb")'.status = "OK"
  PROVE  RetryParts'
<1>1. RetryParts
  BY DEF Alone
<1>2. Replying /\ Replying'
  BY DEF Replying
<1>3. RetryBegin'
  BY <1>1, <1>2 DEF RetryParts, RetryBegin
<1>4. RetryCount'
  <2>1. host["usb"].tries \in 0..Attempts
    BY AloneParts
  <2> QED BY <1>1, <1>2, <2>1, Bounds DEF RetryParts, RetryCount, Alone
<1>5. ~GoodImageFails'
  BY <1>1 DEF RetryParts, GoodImageFails, Alone
<1> QED BY <1>1, <1>3, <1>4, <1>5 DEF RetryParts

\* The client sends its next operation.
LEMMA RetrySubmit ==
  ASSUME Alone, NEW h, Submit("usb", h), ~ReplyComing("usb"), UNCHANGED <<bulk, wait>>,
         h.pc \in Steps, h.pc = "begin" => bulk["usb"] = None,
         h.pc \in {"data", "end"} => h.tries <= faults' + 1,
         h.pc = "abort" => h.item.shape # "good"
  PROVE  RetryParts'
<1> DEFINE op == [op |-> h.pc, item |-> h.item, seq |-> h.seq, chunk |-> h.sent + 1]
<1>1. /\ host \in [Clients -> HostRecord] /\ ops \in [Clients -> Seq(OpRecord)]
      /\ replies \in [Clients -> Seq(ReplyRecord)]
  BY AloneParts, SoundParts DEF TypeInv, HostTyped, QueuesTyped
<1>2. host'["usb"] = h /\ replies'["usb"] = <<>> /\ ops'["usb"] = Append(<<>>, op)
  BY <1>1 DEF Submit, ReplyComing
<1> HIDE DEF op
<1>3. ops'["usb"] # <<>>
  BY <1>2
<1>4. Replying' /\ ReplyComing("usb")'
  BY <1>3 DEF Replying, ReplyComing
<1>5. RetryBegin'
  BY <1>2, <1>4 DEF RetryBegin
<1>6. RetryCount'
  BY <1>2, <1>4 DEF RetryCount
<1>7. ~GoodImageFails'
  BY <1>2 DEF GoodImageFails
<1> QED BY <1>2, <1>5, <1>6, <1>7 DEF RetryParts

LEMMA RetryConclude ==
  ASSUME Alone, NEW result \in {"ok", "failed"}, Conclude("usb", result),
         result = "failed" => host["usb"].item.shape # "good"
  PROVE  RetryParts'
<1>1. host'["usb"].pc = result /\ host'["usb"].item = host["usb"].item
  BY AloneParts, SoundParts DEF Conclude, TypeInv, HostTyped, HostRecord
<1> QED BY <1>1 DEF RetryParts, RetryBegin, RetryCount, GoodImageFails

LEMMA RetryClient ==
  ASSUME Alone, Client("usb")
  PROVE  RetryParts'
<1>1. RetryParts /\ HostInv("usb") /\ Sound /\ host["usb"] \in HostRecord
  BY AloneParts
<1> USE DEF espVars, wioVars, callVars
<1>2. CASE Start("usb")
  <2>1. PICK shape \in Shapes :
          Submit("usb", [pc |-> "begin", item |-> [from |-> "usb", nr |-> NrOf("usb") + 1, shape |-> shape],
                         seq |-> 0, sent |-> 0, tries |-> 1])
    BY <1>2 DEF Start
  <2> DEFINE h == [pc |-> "begin", item |-> [from |-> "usb", nr |-> NrOf("usb") + 1, shape |-> shape],
                   seq |-> 0, sent |-> 0, tries |-> 1]
  <2>2. h.pc = "begin"
    OBVIOUS
  <2>3. Submit("usb", h)
    BY <2>1
  <2>4. UNCHANGED <<bulk, wait>> /\ host["usb"].pc \in {"idle", "ok", "failed"}
    BY <1>1, <1>2 DEF Start, RetryParts
  <2>5. bulk["usb"] = None /\ ~ReplyComing("usb")
    BY <1>1, <2>4 DEF HostInv, OneOp
  <2> HIDE DEF h
  <2> QED BY <2>2, <2>3, <2>4, <2>5, RetrySubmit
<1>3. ASSUME GiveUp("usb"), ~ReplyComing("usb"), UNCHANGED <<bulk, wait>>,
             host["usb"].item.shape # "good"
      PROVE  RetryParts'
  <2> DEFINE h == Operation("usb", "abort")
  <2>1. h.pc = "abort" /\ h.item = host["usb"].item
    BY <1>1 DEF Operation, HostRecord
  <2>2. Submit("usb", h)
    BY <1>3 DEF GiveUp
  <2> HIDE DEF h
  <2> QED BY <1>3, <2>1, <2>2, RetrySubmit
<1>4. CASE BeginAnswered("usb")
  <2>1. /\ host["usb"].pc = "begin" /\ replies["usb"] # <<>> /\ ~ReplyComing("usb")
        /\ UNCHANGED <<bulk, wait>>
    BY <1>1, <1>4 DEF BeginAnswered, Answered, HostInv, OneOp
  <2>2. CASE Reply("usb").status = "OK"
    <3> DEFINE h == Operation("usb", "data")
    <3>1. h.pc = "data" /\ h.tries = 1
      BY <1>1 DEF Operation, HostRecord
    <3>2. Submit("usb", h)
      BY <1>4, <2>2 DEF BeginAnswered
    <3>3. 1 <= faults' + 1
      BY AloneParts
    <3> HIDE DEF h
    <3> QED BY <2>1, <3>1, <3>2, <3>3, RetrySubmit
  <2>3. CASE Reply("usb").status # "OK"
    <3>1. host["usb"].item.shape # "good"
      BY <1>1, <2>1, <2>3 DEF RetryParts, RetryBegin
    <3> QED BY <1>3, <1>4, <2>1, <2>3, <3>1 DEF BeginAnswered
  <2> QED BY <2>2, <2>3
<1>5. CASE DataAnswered("usb")
  <2>1. /\ host["usb"].pc = "data" /\ replies["usb"] # <<>> /\ ~ReplyComing("usb")
        /\ UNCHANGED <<bulk, wait>>
    BY <1>1, <1>5 DEF DataAnswered, Answered, HostInv, OneOp
  <2>2. Reply("usb").status = "OK"
    BY <1>1, <2>1 DEF HostInv, DataInv
  <2> DEFINE sent == host["usb"].sent + 1
             h == [host["usb"] EXCEPT !.pc = IF sent = Chunks THEN "end" ELSE "data",
                                      !.seq = Reply("usb").next, !.sent = sent, !.tries = 1]
  <2>3. h.pc \in {"data", "end"} /\ h.tries = 1
    BY <1>1 DEF HostRecord
  <2>4. Submit("usb", h)
    BY <1>5, <2>2 DEF DataAnswered
  <2>5. 1 <= faults' + 1
    BY AloneParts
  <2> HIDE DEF h
  <2> QED BY <2>1, <2>3, <2>4, <2>5, RetrySubmit
<1>6. CASE EndAnswered("usb")
  <2>1. /\ host["usb"].pc = "end" /\ replies["usb"] # <<>> /\ ~ReplyComing("usb")
        /\ UNCHANGED <<bulk, wait>>
    BY <1>1, <1>6 DEF EndAnswered, Answered, HostInv, OneOp
  <2>2. \/ Reply("usb").status = "OK"
        \/ Reply("usb").status = "WIO_ERROR" /\ Refuses("usb", host["usb"].item)
        \/ Reply("usb").status = "BAD_STATE" /\ host["usb"].tries > 1
    BY <1>1, <2>1 DEF HostInv, EndInv
  <2>3. host["usb"].tries \in 0..Attempts
    BY AloneParts
  <2>4. CASE Reply("usb").status = "WIO_ERROR" /\ Refuses("usb", host["usb"].item)
    <3>1. GiveUp("usb") /\ host["usb"].item.shape # "good"
      BY <1>6, <2>4 DEF EndAnswered, Refuses
    <3> QED BY <1>3, <2>1, <3>1
  <2>5. CASE /\ Reply("usb").status \in {"OK", "BAD_STATE"}
             /\ Reply("usb").status = "BAD_STATE" => host["usb"].tries # 1
    <3>1. Conclude("usb", "ok")
      BY <1>6, <2>5 DEF EndAnswered
    <3> QED BY <3>1, RetryConclude
  <2> QED BY <2>2, <2>3, <2>4, <2>5
<1>7. CASE AbortAnswered("usb")
  <2>1. host["usb"].item.shape # "good"
    BY <1>1, <1>7 DEF AbortAnswered, Answered, RetryParts, GoodImageFails, Alone
  <2> QED BY <1>7, <2>1, RetryConclude DEF AbortAnswered
<1> QED BY <1>2, <1>4, <1>5, <1>6, <1>7 DEF Client

LEMMA RetryTimeout ==
  ASSUME Alone, HostTimeout
  PROVE  RetryParts'
<1>1. RetryParts /\ HostInv("usb") /\ Sound /\ host["usb"] \in HostRecord /\ host["usb"].tries \in 0..Attempts
  BY AloneParts
<1>2. ~ReplyComing("usb") /\ ~Replying /\ UNCHANGED <<bulk, wait>> /\ host["usb"].pc \in Steps
  <2>9. \A kind : Fault(kind) => kind \in {"begin_ack", "usb_ack", "vanish", "drop"}
    BY AloneParts, ClientFaults
  <2>1. ~Fault("late")
    BY <2>9
  <2>2. ~ReplyComing("usb")
    BY <2>1 DEF HostTimeout, Expired
  <2>3. replies["usb"] = <<>> /\ UNCHANGED <<bulk, wait>> /\ host["usb"].pc \in Steps
    BY DEF HostTimeout, espVars, callVars
  <2> QED BY <2>2, <2>3 DEF Replying
<1>3. host["usb"].pc # "begin"
  BY <1>1, <1>2 DEF RetryParts, RetryBegin
<1>4. host["usb"].pc \in {"data", "end"} => host["usb"].tries <= faults /\ host["usb"].tries < Attempts
  <2>1. faults \in Nat /\ faults < Attempts
    BY DEF Alone
  <2>2. host["usb"].pc \in {"data", "end"} => host["usb"].tries <= faults
    BY <1>1, <1>2, <2>1 DEF RetryParts, RetryCount
  <2> QED BY <1>1, <2>1, <2>2, Bounds
<1>5. CASE host["usb"].pc \in {"data", "end"}
  <2> DEFINE h == [host["usb"] EXCEPT !.tries = @ + 1]
  <2>1. h.pc = host["usb"].pc /\ h.tries = host["usb"].tries + 1
    BY <1>1 DEF HostRecord
  <2>2. Submit("usb", h)
    BY <1>1, <1>4, <1>5, Bounds DEF HostTimeout, Retry
  <2>3. h.tries <= faults' + 1
    <3>1. faults' = faults
      BY <1>2 DEF HostTimeout, Expired, faultVars
    <3>2. faults \in Nat
      BY DEF Alone
    <3> QED BY <1>1, <1>4, <1>5, <2>1, <3>1, <3>2
  <2> HIDE DEF h
  <2> QED BY <1>2, <1>5, <2>1, <2>2, <2>3, RetrySubmit
<1>6. CASE host["usb"].pc = "abort"
  <2>1. Conclude("usb", "failed")
    BY <1>6 DEF HostTimeout
  <2>2. host["usb"].item.shape # "good"
    BY <1>1, <1>6 DEF RetryParts, GoodImageFails, Alone
  <2> QED BY <2>1, <2>2, RetryConclude
<1> QED BY <1>2, <1>3, <1>5, <1>6

LEMMA RetryLoses ==
  ASSUME Alone, LoseReply, met' \subseteq {"usb_ack"}
  PROVE  RetryParts'
<1>1. RetryParts /\ HostInv("usb") /\ Sound /\ host["usb"].tries \in 0..Attempts
  BY AloneParts
<1>2. host["usb"].pc # "begin" /\ faults' = faults + 1 /\ UNCHANGED <<host, ops, wait>>
  BY DEF LoseReply, Fault, espVars, callVars
<1>3. Replying
  BY DEF LoseReply, Replying
<1>4. RetryCount'
  <2>1. faults \in Nat
    BY DEF Alone
  <2>2. host["usb"].pc \in {"data", "end"} => host["usb"].tries <= faults + 1
    BY <1>1, <1>3 DEF RetryParts, RetryCount
  <2>3. \A n : (n = faults' \/ n = faults' + 1) /\ host["usb"].tries <= faults' => host["usb"].tries <= n
    BY <1>1, <1>2, <2>1
  <2> QED BY <1>2, <2>2, <2>3 DEF RetryCount
<1>5. ~GoodImageFails'
  BY <1>1, <1>2 DEF RetryParts, GoodImageFails, Alone
<1> QED BY <1>1, <1>2, <1>4, <1>5 DEF RetryParts, RetryBegin

LEMMA RetryServe ==
  ASSUME Alone, Serve("usb")
  PROVE  RetryParts'
<1>1. RetryParts /\ HostInv("usb") /\ Sound
  BY AloneParts
<1>2. /\ wait["usb"] = "no" /\ ops["usb"] # <<>> /\ UNCHANGED host
  BY DEF Serve, OpBegin, OpData, OpEnd, OpAbort, Serves
<1>3. ReplyComing("usb") /\ replies["usb"] = <<>> /\ replies \in [Clients -> Seq(ReplyRecord)]
  BY <1>1, <1>2, SoundParts DEF ReplyComing, HostInv, OneOp, TypeInv, QueuesTyped
<1>4. ASSUME NEW status, NEW next, Respond("usb", status, next)
      PROVE  replies'["usb"] # <<>> /\ Reply("usb")'.status = status
  <2>1. replies'["usb"] = Append(<<>>, [status |-> status, next |-> next])
    BY <1>3, <1>4 DEF Respond
  <2>2. replies'["usb"] # <<>> /\ Head(replies'["usb"]) = [status |-> status, next |-> next]
    BY <2>1
  <2> QED BY <2>2 DEF Reply
<1>5. ASSUME NEW step, NEW arg, Forward("usb", step, arg) PROVE ReplyComing("usb")'
  BY <1>1, <1>5, SoundParts DEF Forward, Request, ReplyComing, OwnerInv, CallsWellFormed
<1>6. (\E status, next : Respond("usb", status, next)) \/ (\E step, arg : Forward("usb", step, arg))
  BY DEF Serve, OpBegin, OpData, OpEnd, OpAbort
<1>7. ReplyComing("usb")' \/ replies'["usb"] # <<>>
  BY <1>4, <1>5, <1>6
<1>8. CASE host["usb"].pc # "begin"
  BY <1>2, <1>3, <1>7, <1>8, RetryServed
<1>9. CASE host["usb"].pc = "begin"
  <2>1. Head(ops["usb"]).op = "begin" /\ Head(ops["usb"]).item = host["usb"].item
    BY <1>1, <1>2, <1>9 DEF HostInv, OpInv
  <2>2. OpBegin("usb")
    BY <2>1 DEF Serve, OpData, OpEnd, OpAbort, Serves
  <2>3. bulk["usb"] = None /\ UNCHANGED bulk
    BY <1>1, <1>3, <1>9, <2>2 DEF RetryParts, RetryBegin, OpBegin
  <2>4. ~xferActive
    <3>1. \A c \in Clients : ~Claims(c)
      BY <1>2, <2>3, AloneParts DEF Claims, Beginning
    <3> QED BY <1>1, <3>1, SoundParts DEF XferOwned
  <2>5. CASE host["usb"].item.shape = "good"
    <3>1. UNCHANGED replies
      BY <2>1, <2>2, <2>4, <2>5 DEF OpBegin
    <3> QED BY <1>2, <1>3, <1>7, <2>3, <3>1, RetryServed
  <2>6. CASE host["usb"].item.shape # "good"
    BY <1>2, <1>3, <1>7, <2>3, <2>6, RetryServed
  <2> QED BY <2>5, <2>6
<1> QED BY <1>8, <1>9

LEMMA RetryDone ==
  ASSUME Alone, Done("usb")
  PROVE  RetryParts'
<1>1. RetryParts /\ HostInv("usb") /\ Sound /\ OnlyClientsFailed'
  BY AloneParts
<1>2. PICK status \in {"OK", "WIO_ERROR", "WIO_TIMEOUT"} :
        BeginDone("usb", status) \/ DataDone("usb", status) \/ EndDone("usb", status)
  BY DEF Done
<1>3. /\ wait["usb"] = "answer" /\ Returns("usb", status) /\ UNCHANGED <<host, ops>>
      /\ \E s, next : Respond("usb", s, next)
  BY <1>2 DEF BeginDone, DataDone, EndDone, Resumes
<1>4. /\ ReplyComing("usb") /\ replies["usb"] = <<>> /\ replies \in [Clients -> Seq(ReplyRecord)]
      /\ wait'["usb"] = "no" /\ ops["usb"] = <<>>
  BY <1>1, <1>3, SoundParts DEF ReplyComing, HostInv, OneOp, TypeInv, QueuesTyped, Returns, Drop,
                                 OwnerInv, CallsWellFormed
<1>5. ASSUME NEW s, NEW next, Respond("usb", s, next)
      PROVE  replies'["usb"] # <<>> /\ Reply("usb")'.status = s
  <2>1. replies'["usb"] = Append(<<>>, [status |-> s, next |-> next])
    BY <1>4, <1>5 DEF Respond
  <2>2. replies'["usb"] # <<>> /\ Head(replies'["usb"]) = [status |-> s, next |-> next]
    BY <2>1
  <2> QED BY <2>2 DEF Reply
<1>6. replies'["usb"] # <<>> /\ ~ReplyComing("usb")'
  BY <1>3, <1>4, <1>5 DEF ReplyComing
<1>7. ASSUME host["usb"].pc = "begin", host["usb"].item.shape = "good" PROVE Reply("usb")'.status = "OK"
  <2>1. Beginning("usb") /\ request["usb"].arg = host["usb"].item
    BY <1>1, <1>3, <1>7 DEF HostInv, BeginInv
  <2>2. BeginDone("usb", status)
    BY <1>2, <2>1 DEF DataDone, EndDone, Resumes, Beginning
  <2>3. AckMeans("usb", signal) /\ signal.cmd = request["usb"].cmd /\ (status = "OK" <=> signal.ok)
    BY <1>1, <1>3, SignalMeans
  <2>4. signal.ok
    BY <1>3, <1>7, <2>1, <2>3 DEF AckMeans
  <2> QED BY <1>5, <2>2, <2>3, <2>4 DEF BeginDone
<1> QED BY <1>3, <1>4, <1>6, <1>7, RetryServed

\* The other client stays idle, so the steps of its task are none.
LEMMA RetryOthers ==
  ASSUME Alone, [Next]_vars, met' \subseteq {"usb_ack"}
  PROVE  RetryParts'
<1>1. /\ Sound /\ OnlyClientsFailed' /\ bulk["ble"] = None /\ wait["ble"] = "no" /\ ops["ble"] = <<>>
      /\ host["ble"].pc = "idle" /\ host'["ble"] = host["ble"]
  BY AloneParts DEF Alone
<1> USE DEF clientVars, espVars, wioVars, linkVars, callVars
<1>2. ~Client("ble") /\ ~Serve("ble") /\ ~Done("ble")
  <2>1. ~Start("ble")
    <3> SUFFICES ASSUME Start("ble") PROVE FALSE
      OBVIOUS
    <3>1. \E h : h.pc = "begin" /\ Submit("ble", h)
      BY DEF Start
    <3>2. host'["ble"].pc = "begin"
      BY <1>1, <3>1, SoundParts DEF Submit, TypeInv, HostTyped
    <3> QED BY <1>1, <3>2
  <2>2. ~Client("ble")
    BY <1>1, <2>1 DEF Client, BeginAnswered, DataAnswered, EndAnswered, AbortAnswered, Answered
  <2>3. ~Serve("ble") /\ ~Done("ble")
    BY <1>1 DEF Serve, OpBegin, OpData, OpEnd, OpAbort, Serves, Done, BeginDone, DataDone, EndDone, Resumes
  <2> QED BY <2>2, <2>3
<1>3. ~HostVanishes /\ ~BleLinkLost
  <2>1. \A kind : Fault(kind) => kind = "usb_ack"
    BY DEF Fault
  <2>2. ~Fault("vanish") /\ ~Fault("drop")
    BY <2>1
  <2> QED BY <2>2 DEF HostVanishes, BleLinkLost
<1>4. CASE UNCHANGED <<host, ops, replies, bulk, wait>>
  BY <1>4, RetrySame
<1>5. CASE HeartbeatDone \/ Heartbeat
  <2>1. UNCHANGED <<host, ops, replies, bulk>>
    BY <1>5 DEF HeartbeatDone, Heartbeat
  <2>2. wait'["usb"] = wait["usb"]
    BY <1>1, <1>5, SoundParts DEF HeartbeatDone, Heartbeat, Request, Returns, Drop, OwnerInv, CallsWellFormed
  <2> QED BY <2>1, <2>2, RetrySame
<1>6. ASSUME NEW r \in Requesters, TakeLock(r) \/ SkipAck(r) PROVE RetryParts'
  <2>1. UNCHANGED <<host, ops, replies, bulk>>
    BY <1>6 DEF TakeLock, SkipAck
  <2>2. wait'["usb"] = "no" <=> wait["usb"] = "no"
    BY <1>1, <1>6, SoundParts DEF TakeLock, SkipAck, OwnerInv, CallsWellFormed
  <2> QED BY <2>1, <2>2, RetrySame
<1>7. CASE UsbIdleAbort \/ SessionEnds
  <2>1. UNCHANGED <<host, ops, replies, wait>>
    BY <1>7 DEF UsbIdleAbort, SessionEnds
  <2>2. bulk'["usb"] = bulk["usb"] \/ host["usb"].pc # "begin"
    BY <1>1, <1>7 DEF UsbIdleAbort, HostSilent, SessionEnds, Abandon
  <2> QED BY <2>1, <2>2, RetrySame
<1>8. CASE LinkReceives
  BY <1>4, <1>8 DEF LinkReceives
<1>9. CASE Wio
  BY <1>4, <1>9 DEF Wio, WioBegin, WioData, WioEndConfig, WioEndFirmware, WioAbort, WioPing, WioBusy, Gets
<1>10. CASE UNCHANGED vars
  BY <1>4, <1>10 DEF vars
<1>11. ~NotifierEnds /\ ~LoseFrame /\ ~LoseAck /\ ~WioFlashFails /\ ~WioReset
  BY <1>1, ClientFaults
<1>12. ASSUME NEW c \in Clients, Client(c) \/ Serve(c) \/ Done(c) PROVE RetryParts'
  <2>1. c = "usb"
    BY <1>2, <1>12
  <2> QED BY <1>12, <2>1, RetryClient, RetryServe, RetryDone
<1> QED
  BY <1>3, <1>5, <1>6, <1>7, <1>8, <1>9, <1>10, <1>11, <1>12, RetryTimeout, RetryLoses DEF Next

\* Once a client has started it is never idle again.
LEMMA IdleBefore ==
  ASSUME TypeInv, [Next]_vars, host'["ble"].pc = "idle"
  PROVE  host["ble"].pc = "idle" /\ host'["ble"] = host["ble"]
<1> USE DEF clientVars, espVars, wioVars, linkVars
<1>1. host \in [Clients -> HostRecord]
  BY DEF TypeInv, HostTyped
<1>2. ASSUME NEW c \in Clients, NEW h, Submit(c, h), h.pc # "idle"
      PROVE  host["ble"].pc = "idle" /\ host'["ble"] = host["ble"]
  BY <1>1, <1>2 DEF Submit
<1>3. ASSUME NEW c \in Clients, NEW result \in {"ok", "failed", "gone"}, Conclude(c, result)
      PROVE  host["ble"].pc = "idle" /\ host'["ble"] = host["ble"]
  <2>1. host'[c].pc = result
    BY <1>1, <1>3 DEF Conclude, HostRecord
  <2>2. c = "usb"
    BY <1>3, <2>1
  <2> QED BY <1>1, <1>3, <2>2 DEF Conclude
<1>4. ASSUME NEW c \in Clients, GiveUp(c)
      PROVE  host["ble"].pc = "idle" /\ host'["ble"] = host["ble"]
  <2>1. Operation(c, "abort").pc = "abort" /\ Submit(c, Operation(c, "abort"))
    BY <1>1, <1>4 DEF GiveUp, Operation, HostRecord
  <2> QED BY <1>2, <2>1
<1>5. ASSUME NEW c \in Clients, Retry(c), host[c].pc \in Steps
      PROVE  host["ble"].pc = "idle" /\ host'["ble"] = host["ble"]
  <2> DEFINE h == [host[c] EXCEPT !.tries = @ + 1]
  <2>1. h.pc = host[c].pc /\ Submit(c, h)
    BY <1>1, <1>5 DEF Retry, HostRecord
  <2> HIDE DEF h
  <2> QED BY <1>2, <1>5, <2>1
<1>6. ASSUME NEW c \in Clients, Client(c)
      PROVE  host["ble"].pc = "idle" /\ host'["ble"] = host["ble"]
  <2>1. CASE Start(c)
    <3>1. \E h : h.pc = "begin" /\ Submit(c, h)
      BY <2>1 DEF Start
    <3> QED BY <1>2, <3>1
  <2>2. CASE BeginAnswered(c)
    <3>1. Operation(c, "data").pc = "data"
      BY <1>1 DEF Operation, HostRecord
    <3> QED BY <1>2, <1>4, <2>2, <3>1 DEF BeginAnswered
  <2>3. CASE DataAnswered(c)
    <3>1. (\E h : h.pc \in {"data", "end"} /\ Submit(c, h)) \/ GiveUp(c)
      <4> DEFINE sent == host[c].sent + 1
                 h == [host[c] EXCEPT !.pc = IF sent = Chunks THEN "end" ELSE "data",
                                      !.seq = Reply(c).next, !.sent = sent, !.tries = 1]
      <4>1. h.pc \in {"data", "end"}
        BY <1>1 DEF HostRecord
      <4>2. Submit(c, h) \/ GiveUp(c)
        BY <2>3 DEF DataAnswered
      <4> HIDE DEF h
      <4> QED BY <4>1, <4>2
    <3> QED BY <1>2, <1>4, <3>1
  <2>4. CASE EndAnswered(c) \/ AbortAnswered(c)
    BY <1>3, <1>4, <1>5, <2>4 DEF EndAnswered, AbortAnswered, Answered
  <2> QED BY <1>6, <2>1, <2>2, <2>3, <2>4 DEF Client
<1>7. CASE HostTimeout \/ HostVanishes \/ BleLinkLost
  BY <1>3, <1>4, <1>5, <1>7 DEF HostTimeout, HostVanishes, BleLinkLost
<1>8. CASE UNCHANGED host
  BY <1>8
<1>9. ASSUME NEW c \in Clients, Serve(c) \/ Done(c) PROVE UNCHANGED host
  BY <1>9 DEF Serve, OpBegin, OpData, OpEnd, OpAbort, Serves, Done, BeginDone, DataDone, EndDone, Resumes
<1>10. ASSUME NEW r \in Requesters, TakeLock(r) \/ SkipAck(r) PROVE UNCHANGED host
  BY <1>10 DEF TakeLock, SkipAck
<1>11. CASE \/ LoseReply \/ Heartbeat \/ HeartbeatDone \/ UsbIdleAbort \/ SessionEnds \/ NotifierEnds
            \/ LinkReceives \/ LoseFrame \/ LoseAck \/ WioFlashFails \/ WioReset \/ UNCHANGED vars
  <2>1. UNCHANGED host
    BY <1>11 DEF LoseReply, Heartbeat, HeartbeatDone, UsbIdleAbort, SessionEnds, NotifierEnds, LinkReceives,
                 LoseFrame, LoseAck, WioFlashFails, Gets, WioReset, vars
  <2> QED BY <1>8, <2>1
<1>12. CASE Wio
  <2>1. UNCHANGED host
    BY <1>12 DEF Wio, WioBegin, WioData, WioEndConfig, WioEndFirmware, WioAbort, WioPing, WioBusy, Gets
  <2> QED BY <1>8, <2>1
<1> QED BY <1>6, <1>7, <1>8, <1>9, <1>10, <1>11, <1>12 DEF Next

LEMMA StepRetry == LinkHoldsAll /\ ClientsInvariant /\ RetryInv /\ [Next]_vars => RetryInv'
<1> SUFFICES ASSUME LinkHoldsAll, ClientsInvariant, RetryInv, [Next]_vars PROVE RetryInv'
  OBVIOUS
<1>1. faults \in Nat /\ faults' \in {faults, faults + 1} /\ met \subseteq met'
  BY FaultsStay DEF RetryInv, FaultsGrow
<1>2. (faults' = faults \/ faults' = faults + 1) /\ faults' \in Nat
  BY <1>1
<1>3. ASSUME Undisturbed' PROVE RetryParts'
  <2>1. met' \subseteq {"usb_ack"} /\ faults' < Attempts /\ host'["ble"].pc = "idle"
    BY <1>3 DEF Undisturbed, FewRepliesLost
  <2>2. OnlyClientsFailed /\ OnlyClientsFailed' /\ met \subseteq {"usb_ack"}
    BY <1>1, <2>1 DEF OnlyClientsFailed
  <2>3. Sound
    BY <2>2, ClientsSound
  <2>4. host["ble"].pc = "idle" /\ host'["ble"] = host["ble"]
    BY <2>1, <2>3, SoundParts, IdleBefore
  <2>5. faults < Attempts
    BY <1>1, <1>2, <2>1, Bounds
  <2>6. RetryParts
    BY <2>2, <2>4, <2>5 DEF RetryInv, Undisturbed, FewRepliesLost
  <2>7. Alone
    BY <1>1, <2>1, <2>2, <2>3, <2>4, <2>5, <2>6 DEF Alone
  <2> QED BY <2>1, <2>7, RetryOthers
<1> QED BY <1>2, <1>3 DEF RetryInv

LEMMA InitRetry == Init => RetryInv
<1> SUFFICES ASSUME Init PROVE RetryInv
  OBVIOUS
<1>1. host["usb"].pc = "idle" /\ faults = 0
  BY DEF Init
<1> QED BY <1>1 DEF RetryInv, RetryParts, RetryBegin, RetryCount, GoodImageFails

\* bulk_op_retry: "Retrying is safe: the ESP and WIO both de-duplicate by
\* sequence number".  As long as fewer replies to OP_DATA and OP_END are lost
\* than bulk_op_retry makes attempts, no image the WIO accepts is given up: for
\* every number of attempts, chunks and transfers.
THEOREM RetriesAreEnough == ASSUME LinkHoldsAll PROVE Spec => []RetriesSucceed
<1>1. Init => ClientsInvariant /\ RetryInv
  BY InitOwner, InitTyped, InitSync, InitClients, InitRetry DEF ClientsInvariant
<1>2. (ClientsInvariant /\ RetryInv) /\ [Next]_vars => (ClientsInvariant /\ RetryInv)'
  BY StepClients, StepRetry
<1>3. RetryInv => RetriesSucceed
  BY DEF RetryInv, RetryParts, RetriesSucceed, Undisturbed, GoodImageFails
<1> QED BY <1>1, <1>2, <1>3, PTL DEF Spec
=============================================================================
