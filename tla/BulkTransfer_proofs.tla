------------------------- MODULE BulkTransfer_proofs -------------------------
(***************************************************************************)
(* Proofs about BulkTransfer, for every number of chunks, transfers,       *)
(* attempts and faults, and for every kind of fault.                       *)
(***************************************************************************)
EXTENDS BulkTransfer, SequenceTheorems, TLAPS

USE NoneAssumption DEF Clients, Requesters, Kinds, Steps

\* The shape of the state: a wio_request per task, a BulkState per client.
CallsWellFormed ==
  /\ wait \in [Requesters -> {"no", "lock", "answer"}]
  /\ DOMAIN request = Requesters
  /\ DOMAIN bulk = Clients

\* A transfer that begins has no BulkState yet, so none is left behind when it
\* is refused and the flag cleared.
BeginsAfresh == \A c \in Clients : Beginning(c) => bulk[c] = None

\* The inductive invariant: who owns the link and who waits for an answer.
OwnerInv == CallsWellFormed /\ OneOwner /\ BeginsAfresh /\ LockHeld

LEMMA InitOwner == Init => OwnerInv
BY DEF Init, OwnerInv, CallsWellFormed, OneOwner, BeginsAfresh, LockHeld, Claims, Beginning

\* A transfer that is given up while its task makes no request frees the link.
LEMMA ReleaseOwner ==
  ASSUME OwnerInv, NEW c \in Clients, bulk[c] # None, wait[c] = "no", Release(c),
         UNCHANGED <<wait, request, holder>>
  PROVE  OwnerInv'
<1> USE DEF OwnerInv, CallsWellFormed, OneOwner, BeginsAfresh, LockHeld, Claims, Beginning, Release
<1>1. \A d \in Clients \ {c} : bulk'[d] = None /\ ~Beginning(d)'
  OBVIOUS
<1>2. bulk'[c] = None /\ ~Beginning(c)'
  OBVIOUS
<1>3. \A d \in Clients : wait[d] # "no" => Beginning(d) \/ bulk[d] # None
  OBVIOUS
<1>4. \A d \in Clients \ {c} : wait[d] = "no"
  BY <1>3
<1> QED BY <1>1, <1>2, <1>4

\* A chunk or an end is forwarded by the owner only.
LEMMA ForwardOwner ==
  ASSUME OwnerInv, NEW c \in Clients, bulk[c] # None, wait[c] = "no",
         NEW step \in {"data", "end"}, NEW arg, Forward(c, step, arg),
         UNCHANGED <<bulk, xferActive, holder>>
  PROVE  OwnerInv'
<1> USE DEF OwnerInv, CallsWellFormed, OneOwner, BeginsAfresh, LockHeld, Claims, Beginning, Forward, Request, Frame
<1>1. /\ wait'[c] = "lock" /\ request'[c].cmd[2] = step
      /\ \A r \in Requesters \ {c} : wait'[r] = wait[r] /\ request'[r] = request[r]
  OBVIOUS
<1>2. \A d \in Clients : Claims(d)' <=> Claims(d)
  BY <1>1
<1> QED BY <1>1, <1>2

\* A request that returns leaves nobody waiting for the lock's answer.
LEMMA ReturnsOwner ==
  ASSUME OwnerInv, NEW r \in Requesters, NEW status, Returns(r, status)
  PROVE  /\ CallsWellFormed /\ bulk' = bulk => CallsWellFormed'
         /\ LockHeld'
         /\ wait'[r] = "no"
         /\ \A q \in Requesters \ {r} : wait'[q] = wait[q] /\ request'[q] = request[q]
BY DEF OwnerInv, CallsWellFormed, LockHeld, Returns, Drop

LEMMA StepOwner == OwnerInv /\ [Next]_vars => OwnerInv'
<1> SUFFICES ASSUME OwnerInv, [Next]_vars PROVE OwnerInv'
  OBVIOUS
<1> USE DEF OwnerInv, CallsWellFormed, OneOwner, BeginsAfresh, LockHeld, Claims, Beginning,
            clientVars, callVars, espVars, wioVars, linkVars
<1>1. CASE UNCHANGED <<bulk, wait, request, xferActive, holder>>
  BY <1>1
<1>2. ASSUME NEW c \in Clients, Client(c) PROVE OwnerInv'
  BY <1>1, <1>2 DEF Client, Start, BeginAnswered, DataAnswered, EndAnswered, AbortAnswered, Answered
<1>3. ASSUME NEW c \in Clients, Serve(c) PROVE OwnerInv'
  <2>1. CASE OpBegin(c)
    BY <2>1 DEF OpBegin, Serves, Request, Forward, Frame
  <2>2. CASE OpData(c)
    BY <1>1, <2>2, ForwardOwner DEF OpData, Serves
  <2>3. CASE OpEnd(c)
    BY <1>1, <2>3, ForwardOwner, ReleaseOwner DEF OpEnd, Serves
  <2>4. CASE OpAbort(c)
    BY <1>1, <2>4, ReleaseOwner DEF OpAbort, Abandon, Serves
  <2> QED BY <1>3, <2>1, <2>2, <2>3, <2>4 DEF Serve
<1>4. ASSUME NEW c \in Clients, NEW status, BeginDone(c, status) PROVE OwnerInv'
  <2>1. Returns(c, status) /\ Beginning(c) /\ UNCHANGED asked
    BY <1>4 DEF BeginDone, Resumes
  <2> DEFINE granted == [item |-> request[c].arg, received |-> 0, next |-> 0]
  <2>2. CASE bulk' = [bulk EXCEPT ![c] = granted] /\ xferActive' = xferActive
    <3>1. CallsWellFormed' /\ \A d \in Clients \ {c} : bulk'[d] = bulk[d]
      BY <2>1, <2>2, ReturnsOwner DEF Returns, Drop
    <3>2. \A d \in Clients \ {c} : ~Claims(d) /\ ~Claims(d)' /\ wait'[d] = "no"
      BY <2>1, <3>1, ReturnsOwner
    <3> QED BY <2>1, <2>2, <3>1, <3>2, ReturnsOwner
  <2>3. CASE bulk' = bulk /\ xferActive' = FALSE
    <3>1. \A d \in Clients \ {c} : ~Claims(d) /\ ~Claims(d)' /\ wait'[d] = "no"
      BY <2>1, <2>3, ReturnsOwner
    <3>2. ~Claims(c)'
      BY <2>1, <2>3, ReturnsOwner
    <3> QED BY <2>1, <2>3, <3>1, <3>2, ReturnsOwner
  <2> QED BY <1>4, <2>2, <2>3 DEF BeginDone
<1>5. ASSUME NEW c \in Clients, NEW status, DataDone(c, status) PROVE OwnerInv'
  <2>1. Returns(c, status) /\ wait[c] # "no" /\ ~Beginning(c)
    BY <1>5 DEF DataDone, Resumes
  <2>2. \A d \in Clients \ {c} : ~Claims(d) /\ wait'[d] = "no"
    BY <2>1, ReturnsOwner
  <2>3. DOMAIN bulk' = Clients /\ \A d \in Clients \ {c} : bulk'[d] = bulk[d]
    BY <1>5 DEF DataDone, Release
  <2>4. xferActive' = xferActive \/ bulk'[c] = None
    BY <1>5 DEF DataDone, Release
  <2>5. CallsWellFormed'
    BY <2>1, <2>3 DEF Returns, Drop
  <2> QED BY <2>1, <2>2, <2>3, <2>4, <2>5, ReturnsOwner
<1>6. ASSUME NEW c \in Clients, NEW status, EndDone(c, status) PROVE OwnerInv'
  <2>1. Returns(c, status) /\ wait[c] # "no" /\ ~Beginning(c)
    BY <1>6 DEF EndDone, Resumes
  <2>2. \A d \in Clients \ {c} : ~Claims(d) /\ wait'[d] = "no"
    BY <2>1, ReturnsOwner
  <2>3. CASE Release(c)
    <3>1. CallsWellFormed' /\ bulk'[c] = None /\ \A d \in Clients \ {c} : bulk'[d] = None
      BY <2>2, <2>3 , <2>1 DEF Returns, Drop, Release
    <3> QED BY <2>1, <2>2, <3>1, ReturnsOwner
  <2>4. CASE UNCHANGED <<bulk, xferActive>>
    BY <2>1, <2>2, <2>4, ReturnsOwner
  <2> QED BY <1>6, <2>3, <2>4 DEF EndDone
<1>7. CASE Heartbeat
  BY <1>7 DEF Heartbeat, Request, Ping, Frame
<1>8. CASE HeartbeatDone
  BY <1>8 DEF HeartbeatDone, Returns, Drop
<1>9. ASSUME NEW r \in Requesters, TakeLock(r) PROVE OwnerInv'
  BY <1>9 DEF TakeLock
<1>10. ASSUME NEW r \in Requesters, SkipAck(r) PROVE OwnerInv'
  BY <1>1, <1>10 DEF SkipAck
<1>11. CASE UsbIdleAbort
  BY <1>11, ReleaseOwner DEF UsbIdleAbort, Abandon
<1>12. CASE SessionEnds
  BY <1>1, <1>12, ReleaseOwner DEF SessionEnds, Abandon
<1>13. CASE NotifierEnds
  BY <1>13 DEF NotifierEnds, Drop
<1>14. CASE HostTimeout \/ LoseReply \/ HostVanishes \/ BleLinkLost
  BY <1>1, <1>14 DEF HostTimeout, LoseReply, HostVanishes, BleLinkLost
<1>15. CASE LinkReceives \/ LoseFrame \/ LoseAck
  BY <1>1, <1>15 DEF LinkReceives, LoseFrame, LoseAck
<1>16. CASE Wio \/ WioFlashFails \/ WioReset
  BY <1>1, <1>16 DEF Wio, WioBegin, WioData, WioEndConfig, WioEndFirmware, WioAbort, WioPing,
                     WioBusy, WioFlashFails, WioReset, Gets
<1>17. CASE UNCHANGED vars
  BY <1>1, <1>17 DEF vars
<1> QED
  BY <1>2, <1>3, <1>4, <1>5, <1>6, <1>7, <1>8, <1>9, <1>10, <1>11, <1>12, <1>13, <1>14,
     <1>15, <1>16, <1>17 DEF Next, Done

\* At most one client is in a transfer and FW_XFER_ACTIVE is set meanwhile:
\* handle_bulk's swap keeps BLE and USB apart in every interleaving, and no
\* way out of a transfer clears the flag of another one.
THEOREM Ownership == Spec => []OneOwner
<1>1. OwnerInv => OneOwner
  BY DEF OwnerInv
<1> QED BY InitOwner, StepOwner, <1>1, PTL DEF Spec

\* Only the holder of LINK_LOCK waits for ACK_SIGNAL.
THEOREM LockSerialises == Spec => []LockHeld
<1>1. OwnerInv => LockHeld
  BY DEF OwnerInv
<1> QED BY InitOwner, StepOwner, <1>1, PTL DEF Spec

LEMMA StepAnswer ==
  ASSUME OwnerInv, [Next]_vars, NEW r \in Requesters,
         wait[r] = "answer", signal # None, signal.cmd = request[r].cmd, signal' # signal
  PROVE  wait'[r] = "no" \/ LinkReceives
<1> USE DEF OwnerInv, CallsWellFormed, LockHeld, clientVars, callVars, espVars, wioVars, linkVars
<1>1. ASSUME NEW q \in Requesters, TakeLock(q) PROVE FALSE
  BY <1>1 DEF TakeLock
<1>2. ASSUME NEW q \in Requesters, SkipAck(q) PROVE FALSE
  BY <1>2 DEF SkipAck
<1>3. ASSUME NEW q \in Requesters, NEW status, Returns(q, status) PROVE wait'[r] = "no"
  BY <1>3 DEF Returns, Drop
<1>4. ASSUME NEW c \in Clients, Done(c) PROVE wait'[r] = "no"
  BY <1>3, <1>4 DEF Done, BeginDone, DataDone, EndDone, Resumes
<1>5. CASE HeartbeatDone
  BY <1>3, <1>5 DEF HeartbeatDone
<1>6. ASSUME NEW c \in Clients, Client(c) \/ Serve(c) PROVE FALSE
  BY <1>6 DEF Client, Start, BeginAnswered, DataAnswered, EndAnswered, AbortAnswered, Answered,
              Serve, OpBegin, OpData, OpEnd, OpAbort, Serves
<1>7. CASE HostTimeout \/ LoseReply \/ HostVanishes \/ BleLinkLost \/ Heartbeat
             \/ UsbIdleAbort \/ SessionEnds \/ NotifierEnds \/ LoseFrame \/ LoseAck
  BY <1>7 DEF HostTimeout, LoseReply, HostVanishes, BleLinkLost, Heartbeat, UsbIdleAbort,
              SessionEnds, NotifierEnds, LoseFrame, LoseAck
<1>8. CASE Wio \/ WioFlashFails \/ WioReset
  BY <1>8 DEF Wio, WioBegin, WioData, WioEndConfig, WioEndFirmware, WioAbort, WioPing,
              WioBusy, WioFlashFails, WioReset, Gets
<1>9. CASE UNCHANGED vars
  BY <1>9 DEF vars
<1> QED
  BY <1>1, <1>2, <1>4, <1>5, <1>6, <1>7, <1>8, <1>9 DEF Next

\* No task takes the answer another one waits for out of ACK_SIGNAL, whichever
\* of the heartbeat, the USB task and the BLE session calls wio_request when.
THEOREM AnswersKept == Spec => AnswerReachesCaller
<1>1. OwnerInv /\ [Next]_vars =>
        [\A r \in Requesters :
           (wait[r] = "answer" /\ signal # None /\ signal.cmd = request[r].cmd /\ signal' # signal)
             => wait'[r] = "no" \/ LinkReceives]_vars
  BY StepAnswer
<1> QED BY InitOwner, StepOwner, <1>1, PTL DEF Spec, AnswerReachesCaller
-----------------------------------------------------------------------------
(***************************************************************************)
(* Types.                                                                  *)
(***************************************************************************)

OpRecord == [op : Steps, item : Item, seq : 0..Chunks, chunk : Nat \ {0}]

HostRecord ==
  [pc : Steps \cup {"idle", "ok", "failed", "gone"}, item : Item \cup {None},
   seq : 0..Chunks, sent : 0..Chunks, tries : 0..Attempts]

Statuses == {"OK", "BAD_STATE", "BAD_VALUE", "WIO_ERROR", "WIO_TIMEOUT"}

ReplyRecord == [status : Statuses, next : 0..Chunks]

ItemFrames == [cmd : Kinds \X {"begin", "end"}, arg : Item]
ChunkFrames == [cmd : Kinds \X {"data"}, arg : OpRecord]
OtherFrames == {Ping, FwAbort, RadioBusy(TRUE), RadioBusy(FALSE)}
Frames == ItemFrames \cup (ChunkFrames \cup OtherFrames)

\* What a client has begun it knows, and it sends no chunk beyond the last.
HostTyped ==
  /\ host \in [Clients -> HostRecord]
  /\ \A c \in Clients : host[c].pc \in Steps => host[c].item \in Item
  /\ \A c \in Clients : host[c].pc \in {"begin", "data"} => host[c].sent < Chunks

QueuesTyped ==
  /\ ops \in [Clients -> Seq(OpRecord)]
  /\ replies \in [Clients -> Seq(ReplyRecord)]

BulkTyped == \A c \in Clients : bulk[c] # None => bulk[c] \in BulkState

\* A task waits for the answer to a frame of its own.
RequestsTyped ==
  /\ \A c \in Clients : wait[c] # "no" =>
       /\ request[c] \in ItemFrames \cup ChunkFrames
       /\ request[c].cmd \in {Kind[c]} \X {"begin", "data", "end"}
  /\ wait["heartbeat"] # "no" => request["heartbeat"] = Ping

EspTyped ==
  /\ holder \in Requesters \cup {None}
  /\ signal # None => signal \in Ack
  /\ asked \subseteq Item
  /\ session \in BOOLEAN /\ xferActive \in BOOLEAN

LinkTyped ==
  /\ toWio \in Seq(Frames) /\ Len(toWio) <= LinkRoom
  /\ toEsp \in Seq(Ack)

\* The WIO counts the chunks it has.
WioTyped ==
  /\ rx \in [Kinds -> Receiver \cup {None}]
  /\ \A kind \in Kinds : rx[kind] # None =>
       rx[kind] \in Receiver /\ Len(rx[kind].got) = rx[kind].next
  /\ busy \in BOOLEAN

TypeInv == HostTyped /\ QueuesTyped /\ BulkTyped /\ RequestsTyped /\ EspTyped /\ LinkTyped /\ WioTyped

LEMMA Bounds ==
  /\ Chunks \in Nat /\ Chunks > 0
  /\ Attempts \in Nat /\ Attempts > 0
  /\ LinkRoom \in Nat /\ LinkRoom > 0
BY BoundsAssumption

LEMMA InitTyped == Init => TypeInv
<1> SUFFICES ASSUME Init PROVE TypeInv
  OBVIOUS
<1>1. HostTyped
  BY Bounds DEF Init, HostTyped, HostRecord
<1>2. QueuesTyped
  BY DEF Init, QueuesTyped
<1>3. BulkTyped /\ RequestsTyped /\ EspTyped
  BY DEF Init, BulkTyped, RequestsTyped, EspTyped
<1>4. LinkTyped
  BY Bounds DEF Init, LinkTyped
<1>5. WioTyped
  BY DEF Init, WioTyped
<1> QED BY <1>1, <1>2, <1>3, <1>4, <1>5 DEF TypeInv

\* What a step leaves alone keeps its type.
LEMMA ClientsSame ==
  HostTyped /\ QueuesTyped /\ UNCHANGED clientVars => HostTyped' /\ QueuesTyped'
BY DEF HostTyped, QueuesTyped, clientVars

LEMMA EspSame ==
  BulkTyped /\ RequestsTyped /\ EspTyped /\ UNCHANGED espVars
    => BulkTyped' /\ RequestsTyped' /\ EspTyped'
BY DEF BulkTyped, RequestsTyped, EspTyped, espVars

LEMMA RequestsSame == RequestsTyped /\ UNCHANGED callVars => RequestsTyped'
BY DEF RequestsTyped, callVars

LEMMA LinkSame == LinkTyped /\ UNCHANGED linkVars => LinkTyped'
BY DEF LinkTyped, linkVars

LEMMA WioSame == WioTyped /\ UNCHANGED wioVars => WioTyped'
BY DEF WioTyped, wioVars

(***************************************************************************)
(* The client.                                                             *)
(***************************************************************************)

LEMMA SubmitTyped ==
  ASSUME HostTyped, QueuesTyped, NEW c \in Clients, NEW h \in HostRecord,
         h.pc \in Steps, h.item \in Item, h.pc \in {"begin", "data"} => h.sent < Chunks, Submit(c, h)
  PROVE  HostTyped' /\ QueuesTyped'
<1> DEFINE op == [op |-> h.pc, item |-> h.item, seq |-> h.seq, chunk |-> h.sent + 1]
<1>1. HostTyped'
  BY DEF HostTyped, Submit
<1>2. op \in OpRecord
  BY Bounds DEF HostRecord, OpRecord
<1>3. ops[c] \in Seq(OpRecord)
  BY DEF QueuesTyped
<1>4. Append(ops[c], op) \in Seq(OpRecord)
  BY <1>2, <1>3
<1>5. ops' = [ops EXCEPT ![c] = Append(@, op)] /\ replies' = [replies EXCEPT ![c] = <<>>]
  BY DEF Submit
<1> HIDE DEF op
<1>6. ops' \in [Clients -> Seq(OpRecord)]
  BY <1>4, <1>5 DEF QueuesTyped
<1>7. replies' \in [Clients -> Seq(ReplyRecord)]
  BY <1>5 DEF QueuesTyped
<1> QED BY <1>1, <1>6, <1>7 DEF QueuesTyped

LEMMA ConcludeTyped ==
  ASSUME HostTyped, QueuesTyped, NEW c \in Clients, NEW result \in {"ok", "failed", "gone"},
         Conclude(c, result)
  PROVE  HostTyped' /\ QueuesTyped'
BY DEF HostTyped, QueuesTyped, Conclude, HostRecord

LEMMA HostFields ==
  ASSUME HostTyped, NEW c \in Clients
  PROVE  /\ host[c] \in HostRecord
         /\ host[c].seq \in 0..Chunks /\ host[c].sent \in 0..Chunks /\ host[c].tries \in 0..Attempts
         /\ host[c].pc \in Steps => host[c].item \in Item
BY DEF HostTyped, HostRecord

LEMMA HostAmended ==
  ASSUME NEW h \in HostRecord, NEW pc \in Steps
  PROVE  /\ [h EXCEPT !.pc = pc, !.tries = 1] \in HostRecord
         /\ \A seq, sent \in 0..Chunks :
              [h EXCEPT !.pc = pc, !.seq = seq, !.sent = sent, !.tries = 1] \in HostRecord
<1>1. 1 \in 0..Attempts /\ pc \in Steps \cup {"idle", "ok", "failed", "gone"}
  BY Bounds
<1>2. [h EXCEPT !.pc = pc, !.tries = 1] \in HostRecord
  BY <1>1 DEF HostRecord
<1>3. ASSUME NEW seq \in 0..Chunks, NEW sent \in 0..Chunks
      PROVE  [h EXCEPT !.pc = pc, !.seq = seq, !.sent = sent, !.tries = 1] \in HostRecord
  BY <1>1 DEF HostRecord
<1> QED BY <1>2, <1>3

LEMMA RetryTyped ==
  ASSUME HostTyped, QueuesTyped, NEW c \in Clients, host[c].pc \in Steps, Retry(c)
  PROVE  HostTyped' /\ QueuesTyped'
<1> DEFINE h == [host[c] EXCEPT !.tries = @ + 1]
<1>1. h \in HostRecord /\ h.pc = host[c].pc /\ h.item = host[c].item /\ h.sent = host[c].sent
  BY HostFields, Bounds DEF HostRecord, Retry
<1>2. host[c].pc \in {"begin", "data"} => host[c].sent < Chunks
  BY DEF HostTyped
<1>3. Submit(c, h)
  BY DEF Retry
<1> HIDE DEF h
<1> QED BY <1>1, <1>2, <1>3, HostFields, SubmitTyped

LEMMA GiveUpTyped ==
  ASSUME HostTyped, QueuesTyped, NEW c \in Clients, host[c].pc \in Steps, GiveUp(c)
  PROVE  HostTyped' /\ QueuesTyped'
<1> DEFINE h == Operation(c, "abort")
<1>1. h \in HostRecord
  BY HostFields, HostAmended DEF Operation
<1>3. h.pc = "abort" /\ h.item = host[c].item
  BY HostFields DEF HostRecord, Operation
<1>2. Submit(c, h)
  BY DEF GiveUp
<1> HIDE DEF h
<1> QED BY <1>1, <1>2, <1>3, HostFields, SubmitTyped

LEMMA ClientTyped ==
  ASSUME HostTyped, QueuesTyped, NEW c \in Clients, Client(c)
  PROVE  HostTyped' /\ QueuesTyped'
<1>1. CASE Start(c)
  <2>1. PICK shape \in Shapes :
          Submit(c, [pc |-> "begin", item |-> [from |-> c, nr |-> NrOf(c) + 1, shape |-> shape],
                     seq |-> 0, sent |-> 0, tries |-> 1])
    BY <1>1 DEF Start
  <2> DEFINE item == [from |-> c, nr |-> NrOf(c) + 1, shape |-> shape]
             h == [pc |-> "begin", item |-> item, seq |-> 0, sent |-> 0, tries |-> 1]
  <2>2. NrOf(c) \in Nat
    BY DEF NrOf, HostTyped, HostRecord, Item
  <2>3. item \in Item
    BY <2>2 DEF Item
  <2> HIDE DEF item
  <2>4. h \in HostRecord /\ h.pc = "begin" /\ h.item \in Item /\ h.sent < Chunks
    BY <2>3, Bounds DEF HostRecord
  <2>5. Submit(c, h)
    BY <2>1 DEF item
  <2> HIDE DEF h
  <2> QED BY <2>4, <2>5, SubmitTyped
<1>2. CASE BeginAnswered(c)
  <2>1. CASE GiveUp(c)
    BY <1>2, <2>1, GiveUpTyped DEF BeginAnswered, Answered
  <2>2. CASE Submit(c, Operation(c, "data"))
    <3> DEFINE h == Operation(c, "data")
    <3>0. host[c].pc = "begin"
      BY <1>2 DEF BeginAnswered, Answered
    <3>1. h \in HostRecord
      BY HostFields, HostAmended DEF Operation
    <3>4. h.pc = "data" /\ h.item = host[c].item /\ h.sent = host[c].sent
      BY HostFields DEF HostRecord, Operation
    <3>5. host[c].sent < Chunks
      BY <3>0 DEF HostTyped
    <3>2. Submit(c, h)
      BY <2>2
    <3> HIDE DEF h
    <3> QED BY <3>0, <3>1, <3>2, <3>4, <3>5, HostFields, SubmitTyped
  <2> QED BY <1>2, <2>1, <2>2 DEF BeginAnswered
<1>3. CASE DataAnswered(c)
  <2>1. CASE GiveUp(c)
    BY <1>3, <2>1, GiveUpTyped DEF DataAnswered, Answered
  <2>2. CASE ~GiveUp(c)
    <3> DEFINE sent == host[c].sent + 1
               h == [host[c] EXCEPT !.pc = IF sent = Chunks THEN "end" ELSE "data",
                                    !.seq = Reply(c).next, !.sent = sent, !.tries = 1]
    <3>1. Submit(c, h) /\ host[c].pc = "data" /\ replies[c] # <<>>
      BY <1>3, <2>2 DEF DataAnswered, Answered
    <3>2. Reply(c).next \in 0..Chunks
      <4>1. replies[c] \in Seq(ReplyRecord) /\ replies[c] # <<>>
        BY <3>1 DEF QueuesTyped
      <4>2. Reply(c) \in ReplyRecord
        BY <4>1, HeadTailProperties DEF Reply
      <4> QED BY <4>2 DEF ReplyRecord
    <3>3. sent \in 0..Chunks /\ host[c].item \in Item
      BY <3>1, HostFields, Bounds DEF HostTyped
    <3> DEFINE pc == IF sent = Chunks THEN "end" ELSE "data"
    <3>4. pc \in Steps /\ (pc \in {"begin", "data"} => sent < Chunks)
      BY <3>3, Bounds
    <3>5. h.pc = pc /\ h.item = host[c].item /\ h.sent = sent
      BY HostFields DEF HostRecord
    <3> HIDE DEF pc, sent
    <3>6. h \in HostRecord
      BY <3>2, <3>3, <3>4, HostFields, HostAmended DEF pc
    <3> HIDE DEF h
    <3> QED BY <3>1, <3>3, <3>4, <3>5, <3>6, SubmitTyped
  <2> QED BY <2>1, <2>2
<1>4. CASE EndAnswered(c)
  BY <1>4, GiveUpTyped, RetryTyped, ConcludeTyped DEF EndAnswered, Answered
<1>5. CASE AbortAnswered(c)
  BY <1>5, ConcludeTyped DEF AbortAnswered
<1> QED BY <1>1, <1>2, <1>3, <1>4, <1>5 DEF Client

(***************************************************************************)
(* The ESP.                                                                *)
(***************************************************************************)

LEMMA QueuedTyped ==
  ASSUME NEW link \in Seq(Frames), Len(link) <= LinkRoom, NEW frame \in Frames
  PROVE  Queued(link, frame) \in Seq(Frames) /\ Len(Queued(link, frame)) <= LinkRoom
<1>1. CASE Len(link) < LinkRoom
  <2>1. Append(link, frame) \in Seq(Frames) /\ Len(Append(link, frame)) = Len(link) + 1
    BY AppendProperties
  <2> QED BY <1>1, <2>1, Bounds DEF Queued
<1>2. CASE ~(Len(link) < LinkRoom)
  BY <1>2 DEF Queued
<1> QED BY <1>1, <1>2

LEMMA SendTyped ==
  ASSUME LinkTyped, UNCHANGED toEsp,
         NEW frame \in Frames, NEW second \in Frames,
         Send(frame) \/ SendTwo(frame, second) \/ UNCHANGED toWio
  PROVE  LinkTyped'
BY QueuedTyped DEF LinkTyped, Send, SendTwo

LEMMA FramesSent ==
  /\ Ping \in Frames /\ FwAbort \in Frames
  /\ RadioBusy(TRUE) \in Frames /\ RadioBusy(FALSE) \in Frames
  /\ ItemFrames \subseteq Frames /\ ChunkFrames \subseteq Frames
BY DEF Frames, OtherFrames

LEMMA RespondTyped ==
  ASSUME HostTyped, QueuesTyped, UNCHANGED host, NEW c \in Clients,
         UNCHANGED ops \/ (ops[c] # <<>> /\ ops' = [ops EXCEPT ![c] = Tail(@)]),
         NEW status \in Statuses, NEW next \in 0..Chunks,
         Respond(c, status, next) \/ UNCHANGED replies
  PROVE  HostTyped' /\ QueuesTyped'
<1>1. HostTyped'
  BY DEF HostTyped
<1>2. ops' \in [Clients -> Seq(OpRecord)]
  <2>1. ops \in [Clients -> Seq(OpRecord)] /\ ops[c] \in Seq(OpRecord)
    BY DEF QueuesTyped
  <2>2. ops[c] # <<>> => Tail(ops[c]) \in Seq(OpRecord)
    BY <2>1, HeadTailProperties
  <2> QED BY <2>1, <2>2
<1>3. [status |-> status, next |-> next] \in ReplyRecord
  BY DEF ReplyRecord
<1>4. replies' \in [Clients -> Seq(ReplyRecord)]
  <2>1. replies \in [Clients -> Seq(ReplyRecord)] /\ replies[c] \in Seq(ReplyRecord)
    BY DEF QueuesTyped
  <2>2. Append(replies[c], [status |-> status, next |-> next]) \in Seq(ReplyRecord)
    BY <1>3, <2>1, AppendProperties
  <2> QED BY <2>1, <2>2 DEF Respond
<1> QED BY <1>1, <1>2, <1>4 DEF QueuesTyped

\* The operation a task serves.
LEMMA OpServed ==
  ASSUME QueuesTyped, NEW c \in Clients, NEW step, Serves(c, step)
  PROVE  /\ Head(ops[c]) \in OpRecord
         /\ Head(ops[c]).item \in Item /\ Head(ops[c]).seq \in 0..Chunks
<1>1. ops[c] \in Seq(OpRecord) /\ ops[c] # <<>>
  BY DEF QueuesTyped, Serves
<1>2. Head(ops[c]) \in OpRecord
  BY <1>1, HeadTailProperties
<1> QED BY <1>2 DEF OpRecord

LEMMA RequestTyped ==
  ASSUME OwnerInv, RequestsTyped, NEW c \in Clients, NEW step \in {"begin", "data", "end"}, NEW arg,
         step = "data" => arg \in OpRecord, step # "data" => arg \in Item, Forward(c, step, arg)
  PROVE  RequestsTyped'
<1> DEFINE frame == Frame(<<Kind[c], step>>, arg)
<1>1. frame \in ItemFrames \cup ChunkFrames /\ frame.cmd \in {Kind[c]} \X {"begin", "data", "end"}
  BY KindAssumption DEF Frame, ItemFrames, ChunkFrames
<1>2. /\ wait' = [wait EXCEPT ![c] = "lock"] /\ request' = [request EXCEPT ![c] = frame]
      /\ wait \in [Requesters -> {"no", "lock", "answer"}] /\ DOMAIN request = Requesters
  BY DEF Forward, Request, OwnerInv, CallsWellFormed
<1> HIDE DEF frame
<1> QED BY <1>1, <1>2 DEF RequestsTyped

LEMMA BulkSame ==
  ASSUME OwnerInv, BulkTyped, NEW c \in Clients, UNCHANGED bulk \/ Release(c)
  PROVE  BulkTyped'
BY DEF OwnerInv, CallsWellFormed, BulkTyped, Release

LEMMA ServeTyped ==
  ASSUME OwnerInv, TypeInv, NEW c \in Clients, Serve(c)
  PROVE  TypeInv'
<1> USE DEF TypeInv
<1>1. /\ UNCHANGED <<host, session, holder, signal, wioVars, toEsp>>
      /\ ops[c] # <<>> /\ ops' = [ops EXCEPT ![c] = Tail(@)]
      /\ Head(ops[c]) \in OpRecord /\ Head(ops[c]).item \in Item
  BY OpServed DEF Serve, OpBegin, OpData, OpEnd, OpAbort, Serves
<1>2. WioTyped'
  BY <1>1, WioSame
<1>3. HostTyped' /\ QueuesTyped'
  <2>1. bulk[c] # None => bulk[c].next \in 0..Chunks
    BY DEF BulkTyped, BulkState
  <2>2. CASE UNCHANGED replies
    <3>1. 0 \in 0..Chunks /\ "OK" \in Statuses
      BY Bounds DEF Statuses
    <3> QED BY <1>1, <2>2, <3>1, RespondTyped
  <2>3. CASE \E status \in Statuses, next \in 0..Chunks : Respond(c, status, next)
    BY <1>1, <2>3, RespondTyped
  <2>4. 0 \in 0..Chunks
    BY Bounds
  <2>5. CASE OpBegin(c)
    BY <2>2, <2>3, <2>4, <2>5 DEF OpBegin, Statuses
  <2>6. CASE OpData(c)
    BY <2>1, <2>2, <2>3, <2>4, <2>6 DEF OpData, Statuses
  <2>7. CASE OpEnd(c)
    BY <2>2, <2>3, <2>4, <2>7 DEF OpEnd, Statuses
  <2>8. CASE OpAbort(c)
    BY <2>3, <2>4, <2>8 DEF OpAbort, Statuses
  <2> QED BY <2>5, <2>6, <2>7, <2>8 DEF Serve
<1>4. LinkTyped'
  BY <1>1, SendTyped, FramesSent DEF Serve, OpBegin, OpData, OpEnd, OpAbort, Abandon
<1>5. BulkTyped'
  BY <1>1, BulkSame DEF Serve, OpBegin, OpData, OpEnd, OpAbort, Abandon
<1>6. RequestsTyped'
  <2>1. bulk[c] # None => bulk[c].item \in Item
    BY DEF BulkTyped, BulkState
  <2> QED BY <1>1, <2>1, RequestTyped, RequestsSame DEF Serve, OpBegin, OpData, OpEnd, OpAbort
<1>7. EspTyped'
  <2>1. bulk[c] # None => bulk[c].item \in Item
    BY DEF BulkTyped, BulkState
  <2>2. asked' \subseteq Item
    <3>1. UNCHANGED asked \/ (bulk[c] # None /\ asked' = asked \cup {bulk[c].item})
      BY DEF Serve, OpBegin, OpData, OpEnd, OpAbort
    <3> QED BY <2>1, <3>1 DEF EspTyped
  <2>3. xferActive' \in BOOLEAN
    BY DEF EspTyped, Serve, OpBegin, OpData, OpEnd, OpAbort, Abandon, Release
  <2> QED BY <1>1, <2>2, <2>3 DEF EspTyped
<1> QED BY <1>2, <1>3, <1>4, <1>5, <1>6, <1>7

LEMMA DropTyped ==
  ASSUME OwnerInv, RequestsTyped, NEW r \in Requesters, Drop(r)
  PROVE  RequestsTyped'
BY DEF OwnerInv, CallsWellFormed, RequestsTyped, Drop

\* A request that returns OK had an ack of the WIO in the signal.
LEMMA ReturnsTyped ==
  ASSUME OwnerInv, RequestsTyped, EspTyped, NEW r \in Requesters, NEW status, Returns(r, status)
  PROVE  /\ RequestsTyped'
         /\ holder' = None /\ signal' = None
         /\ status \in {"OK", "WIO_ERROR", "WIO_TIMEOUT"}
         /\ status = "OK" => signal \in Ack /\ signal.value \in 0..Chunks
<1>1. RequestsTyped'
  BY DropTyped DEF Returns
<1>2. holder' = None /\ signal' = None /\ status \in {"OK", "WIO_ERROR", "WIO_TIMEOUT"}
  BY DEF Returns
<1>3. status = "OK" => signal \in Ack
  BY DEF Returns, EspTyped
<1>4. signal \in Ack => signal.value \in 0..Chunks
  BY DEF Ack
<1> QED BY <1>1, <1>2, <1>3, <1>4

LEMMA DoneTyped ==
  ASSUME OwnerInv, TypeInv, NEW c \in Clients, Done(c)
  PROVE  TypeInv'
<1> USE DEF TypeInv
<1>1. PICK status \in {"OK", "WIO_ERROR", "WIO_TIMEOUT"} :
        BeginDone(c, status) \/ DataDone(c, status) \/ EndDone(c, status)
  BY DEF Done
<1>2. /\ wait[c] = "answer" /\ Returns(c, status)
      /\ UNCHANGED <<host, ops, session, asked, rx, busy, committed, toEsp>>
  BY <1>1 DEF BeginDone, DataDone, EndDone, Resumes, wioVars
<1>3. RequestsTyped' /\ EspTyped'
  <2>1. xferActive' \in BOOLEAN
    BY <1>1 DEF BeginDone, DataDone, EndDone, Release, EspTyped
  <2> QED BY <1>2, <2>1, ReturnsTyped DEF EspTyped
<1>4. WioTyped'
  BY <1>2, WioSame DEF wioVars
<1>5. LinkTyped'
  BY <1>1, <1>2, SendTyped, FramesSent DEF BeginDone, DataDone, EndDone
<1>6. HostTyped' /\ QueuesTyped'
  <2>1. 0 \in 0..Chunks /\ status \in Statuses
    BY Bounds DEF Statuses
  <2>2. \E s \in Statuses, next \in 0..Chunks : Respond(c, s, next)
    BY <1>1, <1>2, <2>1, ReturnsTyped DEF BeginDone, DataDone, EndDone
  <2> QED BY <1>2, <2>2, RespondTyped
<1>7. BulkTyped'
  <2>1. CASE UNCHANGED bulk \/ Release(c)
    BY <2>1, BulkSame
  <2>2. CASE BeginDone(c, status)
    <3>1. request[c].arg \in Item
      BY <1>2, <2>2 DEF RequestsTyped, ItemFrames, ChunkFrames, BeginDone, Resumes
    <3>2. [item |-> request[c].arg, received |-> 0, next |-> 0] \in BulkState
      BY <3>1, Bounds DEF BulkState
    <3> QED BY <2>1, <2>2, <3>2 DEF BeginDone, BulkTyped, OwnerInv, CallsWellFormed
  <2>3. CASE DataDone(c, status) /\ status = "OK"
    <3>1. bulk[c] \in BulkState
      BY <1>2, <2>3 DEF OwnerInv, OneOwner, Beginning, BulkTyped, DataDone, Resumes
    <3>2. [bulk[c] EXCEPT !.next = signal.value, !.received = @ + 1] \in BulkState
      <4>1. signal.value \in 0..Chunks
        BY <1>2, <2>3, ReturnsTyped
      <4>2. bulk[c].received + 1 \in Nat
        BY <3>1 DEF BulkState
      <4> QED BY <3>1, <4>1, <4>2 DEF BulkState
    <3>3. bulk' = [bulk EXCEPT ![c] = [bulk[c] EXCEPT !.next = signal.value, !.received = @ + 1]]
      BY <2>3 DEF DataDone, OwnerInv, CallsWellFormed
    <3> QED BY <3>2, <3>3 DEF BulkTyped, OwnerInv, CallsWellFormed
  <2> QED BY <1>1, <2>1, <2>2, <2>3 DEF DataDone, EndDone
<1> QED BY <1>3, <1>4, <1>5, <1>6, <1>7

LEMMA LockTyped ==
  ASSUME OwnerInv, TypeInv, NEW r \in Requesters, TakeLock(r)
  PROVE  TypeInv'
<1> USE DEF TypeInv
<1>1. request[r] \in Frames
  BY FramesSent DEF TakeLock, RequestsTyped
<1>2. LinkTyped'
  BY <1>1, SendTyped DEF TakeLock
<1>3. HostTyped' /\ QueuesTyped' /\ WioTyped'
  BY ClientsSame, WioSame DEF TakeLock
<1>4. RequestsTyped'
  BY DEF RequestsTyped, TakeLock, OwnerInv, CallsWellFormed
<1>5. BulkTyped' /\ EspTyped'
  BY DEF BulkTyped, EspTyped, TakeLock
<1> QED BY <1>2, <1>3, <1>4, <1>5

LEMMA HeartbeatTyped ==
  ASSUME OwnerInv, TypeInv, Heartbeat \/ HeartbeatDone \/ \E r \in Requesters : SkipAck(r)
  PROVE  TypeInv'
<1> USE DEF TypeInv
<1>1. HostTyped' /\ QueuesTyped' /\ WioTyped' /\ LinkTyped'
  BY ClientsSame, WioSame, LinkSame DEF Heartbeat, HeartbeatDone, SkipAck, linkVars
<1>2. BulkTyped'
  BY DEF BulkTyped, Heartbeat, HeartbeatDone, SkipAck
<1>3. RequestsTyped'
  <2>1. CASE Heartbeat
    BY <2>1 DEF RequestsTyped, Heartbeat, Request, OwnerInv, CallsWellFormed
  <2>2. CASE HeartbeatDone
    BY <2>2, ReturnsTyped DEF HeartbeatDone
  <2>3. CASE \E r \in Requesters : SkipAck(r)
    BY <2>3, RequestsSame DEF SkipAck
  <2> QED BY <2>1, <2>2, <2>3
<1>4. EspTyped'
  BY DEF EspTyped, Heartbeat, HeartbeatDone, SkipAck, Returns
<1> QED BY <1>1, <1>2, <1>3, <1>4

\* A transfer is given up, or a session ends in the middle of a request.
LEMMA EndsTyped ==
  ASSUME OwnerInv, TypeInv, UsbIdleAbort \/ SessionEnds \/ NotifierEnds
  PROVE  TypeInv'
<1> USE DEF TypeInv
<1>1. HostTyped' /\ QueuesTyped'
  <2>1. CASE UsbIdleAbort \/ SessionEnds
    BY <2>1, ClientsSame DEF UsbIdleAbort, SessionEnds
  <2>2. CASE NotifierEnds
    BY <2>2, EmptySeq DEF NotifierEnds, HostTyped, QueuesTyped
  <2> QED BY <2>1, <2>2
<1>2. WioTyped'
  BY WioSame DEF UsbIdleAbort, SessionEnds, NotifierEnds
<1>3. LinkTyped'
  BY SendTyped, FramesSent DEF UsbIdleAbort, SessionEnds, NotifierEnds, Abandon, linkVars
<1>4. BulkTyped'
  BY DEF BulkTyped, UsbIdleAbort, SessionEnds, NotifierEnds, Abandon, Release, OwnerInv, CallsWellFormed
<1>5. RequestsTyped'
  BY RequestsSame, DropTyped DEF UsbIdleAbort, SessionEnds, NotifierEnds
<1>6. EspTyped'
  BY DEF EspTyped, UsbIdleAbort, SessionEnds, NotifierEnds, Abandon, Release
<1> QED BY <1>1, <1>2, <1>3, <1>4, <1>5, <1>6

LEMMA FaultsTyped ==
  ASSUME TypeInv, HostTimeout \/ LoseReply \/ HostVanishes \/ BleLinkLost
  PROVE  TypeInv'
<1> USE DEF TypeInv
<1>1. HostTyped' /\ QueuesTyped'
  <2>1. CASE HostTimeout
    BY <2>1, RetryTyped, GiveUpTyped, ConcludeTyped DEF HostTimeout
  <2>2. CASE LoseReply
    <3>1. replies["usb"] \in Seq(ReplyRecord) /\ replies["usb"] # <<>>
      BY <2>2 DEF LoseReply, QueuesTyped
    <3>2. Tail(replies["usb"]) \in Seq(ReplyRecord)
      BY <3>1, HeadTailProperties
    <3> QED BY <2>2, <3>2 DEF LoseReply, HostTyped, QueuesTyped
  <2>3. CASE HostVanishes \/ BleLinkLost
    BY <2>3, ConcludeTyped DEF HostVanishes, BleLinkLost
  <2> QED BY <2>1, <2>2, <2>3
<1>2. WioTyped' /\ LinkTyped'
  BY WioSame, LinkSame DEF HostTimeout, LoseReply, HostVanishes, BleLinkLost
<1>3. BulkTyped' /\ RequestsTyped'
  BY RequestsSame DEF BulkTyped, HostTimeout, LoseReply, HostVanishes, BleLinkLost, espVars, callVars
<1>4. EspTyped'
  BY DEF EspTyped, HostTimeout, LoseReply, HostVanishes, BleLinkLost, espVars
<1> QED BY <1>1, <1>2, <1>3, <1>4

(***************************************************************************)
(* The link and the WIO.                                                   *)
(***************************************************************************)

LEMMA LinkTasksTyped ==
  ASSUME TypeInv, LinkReceives \/ LoseFrame \/ LoseAck
  PROVE  TypeInv'
<1> USE DEF TypeInv
<1>1. HostTyped' /\ QueuesTyped' /\ WioTyped'
  BY ClientsSame, WioSame DEF LinkReceives, LoseFrame, LoseAck
<1>2. BulkTyped' /\ RequestsTyped'
  BY RequestsSame DEF BulkTyped, LinkReceives, LoseFrame, LoseAck, espVars, callVars
<1>3. toEsp # <<>> => Head(toEsp) \in Ack /\ Tail(toEsp) \in Seq(Ack)
  BY HeadTailProperties DEF LinkTyped
<1>4. toWio # <<>> => Tail(toWio) \in Seq(Frames) /\ Len(Tail(toWio)) <= LinkRoom
  BY HeadTailProperties, Bounds DEF LinkTyped
<1>5. EspTyped'
  BY <1>3 DEF EspTyped, LinkReceives, LoseFrame, LoseAck, espVars
<1>6. LinkTyped'
  BY <1>3, <1>4 DEF LinkTyped, LinkReceives, LoseFrame, LoseAck
<1> QED BY <1>1, <1>2, <1>5, <1>6

\* What a frame carries, and the command its ack repeats.
LEMMA FrameCarries ==
  ASSUME NEW f \in Frames, NEW kind \in Kinds
  PROVE  /\ f.cmd \in {<<kind, "begin">>, <<kind, "end">>} => f.arg \in Item
         /\ f.cmd = <<kind, "data">> => f.arg \in OpRecord
         /\ f.cmd = <<"LINK", "busy">> => f.arg \in BOOLEAN
<1>1. CASE f \in ItemFrames
  BY <1>1 DEF ItemFrames
<1>2. CASE f \in ChunkFrames
  BY <1>2 DEF ChunkFrames
<1>3. CASE f \in OtherFrames
  <2>1. f \in {Ping, FwAbort} => f.cmd \in {<<"LINK", "ping">>, <<"FIRMWARE", "abort">>}
    BY DEF Ping, FwAbort, Frame
  <2>2. ASSUME NEW on \in BOOLEAN, f = RadioBusy(on)
        PROVE  f.cmd = <<"LINK", "busy">> /\ f.arg \in BOOLEAN
    BY <2>2 DEF RadioBusy, Frame
  <2>3. f \in {Ping, FwAbort} \/ \E on \in BOOLEAN : f = RadioBusy(on)
    BY <1>3 DEF OtherFrames
  <2>4. <<kind, "begin">>[2] = "begin" /\ <<kind, "end">>[2] = "end" /\ <<kind, "data">>[2] = "data"
    OBVIOUS
  <2> QED BY <2>1, <2>2, <2>3, <2>4
<1> QED BY <1>1, <1>2, <1>3 DEF Frames

LEMMA FirstFrame ==
  ASSUME LinkTyped, toWio # <<>>
  PROVE  Head(toWio) \in Frames /\ Tail(toWio) \in Seq(Frames) /\ Len(Tail(toWio)) <= LinkRoom
BY HeadTailProperties, Bounds DEF LinkTyped

LEMMA AnswerTyped ==
  ASSUME LinkTyped, NEW ok \in BOOLEAN, NEW value \in 0..Chunks, Answer(ok, value), toWio # <<>>,
         Head(toWio).cmd \in (Kinds \X Steps) \cup {<<"LINK", "ping">>},
         toWio' = Tail(toWio) \/ toWio' = <<>>
  PROVE  LinkTyped'
<1>1. [ok |-> ok, cmd |-> Head(toWio).cmd, value |-> value] \in Ack
  BY DEF Ack
<1>2. toEsp' \in Seq(Ack)
  BY <1>1, AppendProperties DEF Answer, LinkTyped
<1>3. toWio' \in Seq(Frames) /\ Len(toWio') <= LinkRoom
  <2>1. CASE toWio' = Tail(toWio)
    BY <2>1, FirstFrame
  <2>2. CASE toWio' = <<>>
    BY <2>2, Bounds
  <2> QED BY <2>1, <2>2
<1> QED BY <1>2, <1>3 DEF LinkTyped

\* What the ESP's tasks and the clients know, while the WIO works.
LEMMA WioAlone ==
  ASSUME TypeInv, UNCHANGED <<clientVars, espVars>>
  PROVE  HostTyped' /\ QueuesTyped' /\ BulkTyped' /\ RequestsTyped' /\ EspTyped'
BY ClientsSame, EspSame DEF TypeInv

\* A receiver that is set anew, or taken away.
LEMMA ReceiverTyped ==
  ASSUME WioTyped, NEW kind \in Kinds, NEW state, SetRx(kind, state), UNCHANGED busy,
         state = None \/ (state \in Receiver /\ Len(state.got) = state.next)
  PROVE  WioTyped'
BY DEF WioTyped, SetRx

\* The chunk that is expected makes the receiver count one more.
LEMMA ReceiverCounts ==
  ASSUME WioTyped, LinkTyped, NEW kind \in Kinds, toWio # <<>>, Head(toWio).cmd = <<kind, "data">>,
         Expected(kind)
  PROVE  /\ rx[kind].next \in 0..Chunks /\ rx[kind].next + 1 \in 0..Chunks
         /\ rx[kind].item \in Item
         /\ LET next == [rx[kind] EXCEPT !.next = @ + 1, !.got = Append(@, <<Arg.item, Arg.chunk>>)]
            IN  /\ next \in Receiver
                /\ next.next = rx[kind].next + 1 /\ next.item = rx[kind].item
                /\ Len(next.got) = next.next
<1>1. Arg \in OpRecord
  BY FirstFrame, FrameCarries DEF Arg
<1>2. <<Arg.item, Arg.chunk>> \in Item \X (Nat \ {0})
  BY <1>1 DEF OpRecord
<1>3. /\ rx[kind] \in Receiver /\ Len(rx[kind].got) = rx[kind].next
      /\ Len(rx[kind].got) < Chunks
  BY DEF WioTyped, Expected
<1>4. /\ rx[kind].got \in Seq(Item \X (Nat \ {0})) /\ rx[kind].next \in 0..Chunks
      /\ rx[kind].item \in Item
  BY <1>3 DEF Receiver
<1> DEFINE more == Append(rx[kind].got, <<Arg.item, Arg.chunk>>)
           next == [rx[kind] EXCEPT !.next = @ + 1, !.got = Append(@, <<Arg.item, Arg.chunk>>)]
<1>5. more \in Seq(Item \X (Nat \ {0})) /\ Len(more) = Len(rx[kind].got) + 1
  BY <1>2, <1>4, AppendProperties
<1>6. rx[kind].next + 1 \in 0..Chunks
  BY <1>3, <1>4, Bounds
<1>7. next = [rx[kind] EXCEPT !.next = rx[kind].next + 1, !.got = more]
  BY <1>3 DEF Receiver
<1> HIDE DEF more
<1>8. [rx[kind] EXCEPT !.next = rx[kind].next + 1, !.got = more] \in Receiver
  BY <1>3, <1>5, <1>6 DEF Receiver
<1>9. next.next = rx[kind].next + 1 /\ next.got = more /\ next.item = rx[kind].item
  BY <1>3, <1>7 DEF Receiver
<1> QED BY <1>3, <1>4, <1>5, <1>6, <1>7, <1>8, <1>9

LEMMA WioBeginTyped ==
  ASSUME TypeInv, NEW kind \in Kinds, WioBegin(kind)
  PROVE  TypeInv'
<1> USE DEF TypeInv
<1>1. /\ toWio # <<>> /\ Head(toWio).cmd = <<kind, "begin">> /\ toWio' = Tail(toWio)
      /\ UNCHANGED <<clientVars, espVars>> /\ UNCHANGED busy
  BY DEF WioBegin, Gets
<1>2. Arg \in Item
  BY <1>1, FirstFrame, FrameCarries DEF Arg
<1>3. LinkTyped'
  <2>1. <<kind, "begin">> \in Kinds \X Steps /\ 0 \in 0..Chunks
    BY Bounds
  <2> QED BY <1>1, <2>1, AnswerTyped DEF WioBegin
<1>4. [item |-> Arg, next |-> 0, got |-> <<>>] \in Receiver
  BY <1>2, Bounds, EmptySeq DEF Receiver
<1>5. WioTyped'
  <2>1. CASE UNCHANGED rx
    BY <1>1, <2>1 DEF WioTyped
  <2>2. CASE SetRx(kind, [item |-> Arg, next |-> 0, got |-> <<>>])
    BY <1>1, <1>4, <2>2, ReceiverTyped
  <2> QED BY <2>1, <2>2 DEF WioBegin
<1> QED BY <1>1, <1>3, <1>5, WioAlone

LEMMA WioDataTyped ==
  ASSUME TypeInv, NEW kind \in Kinds, WioData(kind)
  PROVE  TypeInv'
<1> USE DEF TypeInv
<1>1. /\ toWio # <<>> /\ Head(toWio).cmd = <<kind, "data">> /\ toWio' = Tail(toWio)
      /\ UNCHANGED <<clientVars, espVars>> /\ UNCHANGED busy
  BY DEF WioData, Gets
<1>2. LinkTyped'
  <2>1. PICK ok \in BOOLEAN, value \in 0..Chunks : Answer(ok, value)
    <3>1. rx[kind] # None => rx[kind].next \in 0..Chunks
      BY DEF WioTyped, Receiver
    <3>2. 0 \in 0..Chunks
      BY Bounds
    <3>3. Expected(kind) => rx[kind].next + 1 \in 0..Chunks
      BY <1>1, ReceiverCounts
    <3> QED BY <3>1, <3>2, <3>3 DEF WioData
  <2>2. <<kind, "data">> \in Kinds \X Steps
    OBVIOUS
  <2> QED BY <1>1, <2>1, <2>2, AnswerTyped
<1>3. WioTyped'
  <2>1. CASE UNCHANGED rx
    BY <1>1, <2>1 DEF WioTyped
  <2>2. CASE SetRx(kind, None)
    BY <1>1, <2>2, ReceiverTyped
  <2>3. CASE Expected(kind) /\ SetRx(kind, [rx[kind] EXCEPT !.next = @ + 1,
                                                           !.got = Append(@, <<Arg.item, Arg.chunk>>)])
    BY <1>1, <2>3, ReceiverTyped, ReceiverCounts
  <2> QED BY <2>1, <2>2, <2>3 DEF WioData
<1> QED BY <1>1, <1>2, <1>3, WioAlone

LEMMA WioOthersTyped ==
  ASSUME TypeInv, WioEndConfig \/ WioEndFirmware \/ WioAbort \/ WioPing \/ WioBusy \/ WioFlashFails
  PROVE  TypeInv'
<1> USE DEF TypeInv
<1>1. UNCHANGED <<clientVars, espVars>> /\ toWio # <<>>
  BY DEF WioEndConfig, WioEndFirmware, WioAbort, WioPing, WioBusy, WioFlashFails, Gets
<1>2. LinkTyped'
  <2>1. CASE WioBusy
    BY <1>1, <2>1, FirstFrame DEF WioBusy, Gets, LinkTyped
  <2>2. CASE ~WioBusy
    <3>1. Head(toWio).cmd \in {<<"TOML", "end">>, <<"FIRMWARE", "end">>, <<"FIRMWARE", "data">>,
                                <<"FIRMWARE", "abort">>, <<"LINK", "ping">>}
      BY <2>2 DEF WioEndConfig, WioEndFirmware, WioAbort, WioPing, WioFlashFails, Gets
    <3>2. toWio' = Tail(toWio) \/ toWio' = <<>>
      BY <2>2 DEF WioEndConfig, WioEndFirmware, WioAbort, WioPing, WioFlashFails, Gets
    <3>3. 0 \in 0..Chunks /\ 1 \in 0..Chunks
      BY Bounds
    <3>4. \E ok \in BOOLEAN, value \in 0..Chunks : Answer(ok, value)
      BY <2>2, <3>3 DEF WioEndConfig, WioEndFirmware, WioAbort, WioPing, WioFlashFails
    <3>5. Head(toWio).cmd \in (Kinds \X Steps) \cup {<<"LINK", "ping">>}
      BY <3>1
    <3> QED BY <1>1, <3>2, <3>4, <3>5, AnswerTyped
  <2> QED BY <2>1, <2>2
<1>3. WioTyped'
  <2>1. CASE WioBusy
    BY <2>1, FirstFrame, FrameCarries DEF WioBusy, Gets, WioTyped, Arg
  <2>2. CASE WioPing
    BY <2>2, WioSame DEF WioPing
  <2>3. CASE UNCHANGED busy /\ \E kind \in Kinds : SetRx(kind, None)
    BY <2>3, ReceiverTyped
  <2>4. CASE Rebooted
    BY <2>4 DEF WioTyped, Rebooted
  <2> QED BY <2>1, <2>2, <2>3, <2>4 DEF WioEndConfig, WioEndFirmware, WioAbort, WioFlashFails
<1> QED BY <1>1, <1>2, <1>3, WioAlone

LEMMA WioResetTyped == TypeInv /\ WioReset => TypeInv'
<1> SUFFICES ASSUME TypeInv, WioReset PROVE TypeInv'
  OBVIOUS
<1>1. HostTyped' /\ QueuesTyped' /\ BulkTyped' /\ RequestsTyped' /\ EspTyped'
  BY WioAlone DEF WioReset
<1>2. WioTyped'
  BY DEF TypeInv, WioTyped, WioReset, Rebooted
<1>3. LinkTyped'
  BY Bounds, EmptySeq DEF TypeInv, LinkTyped, WioReset
<1> QED BY <1>1, <1>2, <1>3 DEF TypeInv

LEMMA StepTyped == OwnerInv /\ TypeInv /\ [Next]_vars => TypeInv'
<1> SUFFICES ASSUME OwnerInv, TypeInv, [Next]_vars PROVE TypeInv'
  OBVIOUS
<1>1. ASSUME NEW c \in Clients, Client(c) PROVE TypeInv'
  <2>1. UNCHANGED <<espVars, wioVars, linkVars>>
    BY <1>1 DEF Client, Start, BeginAnswered, DataAnswered, EndAnswered, AbortAnswered, Answered
  <2> QED BY <1>1, <2>1, ClientTyped, EspSame, WioSame, LinkSame DEF TypeInv
<1>2. CASE UNCHANGED vars
  BY <1>2, ClientsSame, EspSame, WioSame, LinkSame DEF TypeInv, vars
<1>3. CASE Wio \/ WioFlashFails \/ WioReset
  BY <1>3, WioBeginTyped, WioDataTyped, WioOthersTyped, WioResetTyped DEF Wio
<1> QED
  BY <1>1, <1>2, <1>3, ServeTyped, DoneTyped, LockTyped, HeartbeatTyped, EndsTyped, FaultsTyped,
     LinkTasksTyped DEF Next

LEMMA TypeInvIsTypeOK == TypeInv => TypeOK
<1> SUFFICES ASSUME TypeInv PROVE TypeOK
  OBVIOUS
<1> USE DEF TypeInv
<1>1. ASSUME NEW c \in Clients
      PROVE  /\ host[c].pc \in Steps \cup {"idle", "ok", "failed", "gone"}
             /\ host[c].seq \in 0..Chunks /\ host[c].sent \in 0..Chunks
             /\ host[c].tries \in 0..Attempts
  BY DEF HostTyped, HostRecord
<1>2. ASSUME NEW c \in Clients
      PROVE  /\ bulk[c] # None => bulk[c] \in BulkState
             /\ wait[c] # "no" => request[c].cmd \in {Kind[c]} \X Steps
  BY DEF BulkTyped, RequestsTyped
<1>3. ASSUME NEW kind \in Kinds, rx[kind] # None
      PROVE  rx[kind].next \in 0..Chunks /\ Len(rx[kind].got) <= Chunks
  BY <1>3, Bounds DEF WioTyped, Receiver
<1> QED BY <1>1, <1>2, <1>3 DEF TypeOK, EspTyped, LinkTyped, WioTyped

\* Whatever is lost, repeated or late, the sequence numbers and chunk counts of
\* the host, the ESP and the WIO stay within the image, the client makes no
\* more than ATTEMPTS attempts, and a task waits for a command of its own kind.
THEOREM TypeCorrect == Spec => []TypeOK
<1>1. Init => OwnerInv /\ TypeInv
  BY InitOwner, InitTyped
<1>2. OwnerInv /\ TypeInv /\ [Next]_vars => (OwnerInv /\ TypeInv)'
  BY StepOwner, StepTyped
<1> QED BY <1>1, <1>2, TypeInvIsTypeOK, PTL DEF Spec
-----------------------------------------------------------------------------
(***************************************************************************)
(* The ESP and the WIO in step.                                            *)
(***************************************************************************)

\* A frame or an ack of a wio_request: not an abort, not the busy flag.
IsCall(x) == x.cmd[2] \in {"begin", "data", "end", "ping"}

NoCall(s) == \A i \in DOMAIN s : ~IsCall(s[i])

LoneCall(s) == \A i, j \in DOMAIN s : IsCall(s[i]) /\ IsCall(s[j]) => i = j

\* The acks the ESP has not looked at yet.
Acks == Range(toEsp) \cup ({signal} \ {None})

HolderWaits == holder # None => wait[holder] = "answer"

\* The call of the lock's holder is in one place: on the way to the WIO, on the
\* way back, in ACK_SIGNAL, or lost; and no other call is anywhere.
OneCallUnderWay ==
  /\ LoneCall(toWio) /\ LoneCall(toEsp)
  /\ NoCall(toWio) \/ NoCall(toEsp)
  /\ signal # None /\ IsCall(signal) => NoCall(toWio) /\ NoCall(toEsp)
  /\ \A f \in Range(toWio) : IsCall(f) => holder # None /\ f = request[holder]
  /\ \A ack \in Acks : IsCall(ack) => holder # None /\ ack.cmd = request[holder].cmd

\* The receiver of the kind c sends, if there is one, has n chunks of item.
Holds(c, n, item) ==
  rx[Kind[c]] # None => rx[Kind[c]].next = n /\ rx[Kind[c]].item = item

Chunking(c) == wait[c] # "no" /\ request[c].cmd[2] = "data"

\* What an ack that the request of c may still take says of the receiver.
AckTells(c, ack) ==
  wait[c] = "answer" /\ ack.ok /\ ack.cmd = request[c].cmd =>
    /\ Beginning(c) => Holds(c, 0, request[c].arg)
    /\ Chunking(c) => ack.value = bulk[c].next + 1 /\ Holds(c, bulk[c].next + 1, bulk[c].item)

\* The receiver is where the BulkState of c is, except while the ack of a chunk
\* is on its way or lost.
BulkInStep(c) ==
  bulk[c] # None =>
    /\ bulk[c].received = bulk[c].next
    /\ Chunking(c) => request[c].arg.seq = bulk[c].next
    /\ wait[c] # "no" /\ ~Chunking(c) => request[c].arg = bulk[c].item
    /\ \/ Chunking(c) /\ wait[c] = "answer" /\ NoCall(toWio)
       \/ Holds(c, bulk[c].next, bulk[c].item)

\* An OP_END that waits for its answer has been asked for.
EndsAsked == \A c \in Clients : wait[c] # "no" /\ request[c].cmd[2] = "end" => request[c].arg \in asked

ClientInStep(c) == BulkInStep(c) /\ \A ack \in Acks : AckTells(c, ack)

Sync == OneCallUnderWay /\ (\A c \in Clients : ClientInStep(c)) /\ CommitsWhatWasAsked

\* The inductive invariant: as long as no answer came late, ESP and WIO agree.
SyncInv == HolderWaits /\ EndsAsked /\ (AnswersInTime => Sync)

(***************************************************************************)
(* Calls in a queue.                                                       *)
(***************************************************************************)

LEMMA TailCalls ==
  ASSUME NEW S, NEW s \in Seq(S), s # <<>>
  PROVE  /\ Range(Tail(s)) \subseteq Range(s)
         /\ Head(s) \in Range(s)
         /\ NoCall(s) => NoCall(Tail(s))
         /\ LoneCall(s) => LoneCall(Tail(s))
         /\ LoneCall(s) /\ IsCall(Head(s)) => NoCall(Tail(s))
<1>1. Tail(s) \in Seq(S) /\ Len(s) \in Nat /\ Len(s) > 0 /\ Len(Tail(s)) = Len(s) - 1
  BY HeadTailProperties
<1>2. \A i \in 1..Len(Tail(s)) : Tail(s)[i] = s[i + 1] /\ i + 1 \in 1..Len(s) /\ i + 1 # 1
  BY <1>1, HeadTailProperties
<1>3. Head(s) = s[1] /\ 1 \in 1..Len(s)
  BY <1>1
<1>4. DOMAIN s = 1..Len(s) /\ DOMAIN Tail(s) = 1..Len(Tail(s))
  BY <1>1
<1>5. Range(Tail(s)) \subseteq Range(s) /\ Head(s) \in Range(s)
  BY <1>2, <1>3, <1>4 DEF Range
<1>6. NoCall(s) => NoCall(Tail(s))
  BY <1>2, <1>4 DEF NoCall
<1>7. ASSUME LoneCall(s) PROVE LoneCall(Tail(s))
  <2>1. ASSUME NEW i \in DOMAIN Tail(s), NEW j \in DOMAIN Tail(s),
               IsCall(Tail(s)[i]), IsCall(Tail(s)[j])
        PROVE  i = j
    <3>1. i \in Int /\ j \in Int /\ i + 1 = j + 1
      BY <1>2, <1>4, <1>7, <2>1 DEF LoneCall
    <3> QED BY <3>1
  <2> QED BY <2>1 DEF LoneCall
<1>8. LoneCall(s) /\ IsCall(Head(s)) => NoCall(Tail(s))
  BY <1>2, <1>3, <1>4 DEF LoneCall, NoCall
<1> QED BY <1>5, <1>6, <1>7, <1>8

LEMMA AppendCalls ==
  ASSUME NEW S, NEW s \in Seq(S), NEW x \in S
  PROVE  /\ Range(Append(s, x)) = Range(s) \cup {x}
         /\ NoCall(s) /\ ~IsCall(x) => NoCall(Append(s, x))
         /\ LoneCall(s) /\ ~IsCall(x) => LoneCall(Append(s, x))
         /\ NoCall(s) => LoneCall(Append(s, x))
<1> DEFINE t == Append(s, x)
<1>1. /\ t \in Seq(S) /\ Len(s) \in Nat /\ Len(t) = Len(s) + 1 /\ t[Len(s) + 1] = x
      /\ \A i \in 1..Len(s) : t[i] = s[i]
  BY AppendProperties
<1>2. DOMAIN s = 1..Len(s) /\ DOMAIN t = 1..(Len(s) + 1)
  BY <1>1
<1>3. \A i \in DOMAIN t : (i \in DOMAIN s /\ t[i] = s[i]) \/ (i = Len(s) + 1 /\ t[i] = x)
  BY <1>1, <1>2
<1>4. \A i \in DOMAIN s : i \in DOMAIN t /\ t[i] = s[i]
  BY <1>1, <1>2
<1>5. Len(s) + 1 \in DOMAIN t /\ t[Len(s) + 1] = x
  BY <1>1, <1>2
<1> HIDE DEF t
<1>6. Range(t) = Range(s) \cup {x}
  BY <1>3, <1>4, <1>5 DEF Range
<1>7. NoCall(s) /\ ~IsCall(x) => NoCall(t)
  BY <1>3 DEF NoCall
<1>8. LoneCall(s) /\ ~IsCall(x) => LoneCall(t)
  BY <1>3 DEF LoneCall
<1>9. NoCall(s) => LoneCall(t)
  BY <1>3 DEF LoneCall, NoCall
<1> QED BY <1>6, <1>7, <1>8, <1>9 DEF t

LEMMA EmptyCalls == Range(<<>>) = {} /\ NoCall(<<>>) /\ LoneCall(<<>>)
BY DEF Range, NoCall, LoneCall

LEMMA QueuedCalls ==
  ASSUME NEW link \in Seq(Frames), NEW frame \in Frames
  PROVE  /\ Range(Queued(link, frame)) \subseteq Range(link) \cup {frame}
         /\ NoCall(link) /\ ~IsCall(frame) => NoCall(Queued(link, frame))
         /\ LoneCall(link) /\ ~IsCall(frame) => LoneCall(Queued(link, frame))
         /\ NoCall(link) => LoneCall(Queued(link, frame))
<1>1. NoCall(link) => LoneCall(link)
  BY DEF NoCall, LoneCall
<1> QED BY <1>1, AppendCalls DEF Queued

LEMMA NoCallRange == \A s : NoCall(s) <=> \A x \in Range(s) : ~IsCall(x)
BY DEF NoCall, Range

\* What is not a call.
LEMMA NotCalls ==
  /\ ~IsCall(FwAbort) /\ ~IsCall(RadioBusy(TRUE)) /\ ~IsCall(RadioBusy(FALSE))
  /\ IsCall(Ping)
BY DEF IsCall, FwAbort, RadioBusy, Ping, Frame

\* A step that puts no call on the link to the WIO.
SendsNoCall ==
  /\ LoneCall(toWio) => LoneCall(toWio')
  /\ NoCall(toWio) => NoCall(toWio')
  /\ \A f \in Range(toWio') : IsCall(f) => f \in Range(toWio)

LEMMA SendsNone ==
  ASSUME LinkTyped,
         \/ UNCHANGED toWio \/ toWio' = <<>> \/ (toWio # <<>> /\ toWio' = Tail(toWio))
         \/ Send(RadioBusy(TRUE)) \/ Send(RadioBusy(FALSE)) \/ SendTwo(FwAbort, RadioBusy(FALSE))
  PROVE  SendsNoCall
<1> DEFINE others == {FwAbort, RadioBusy(TRUE), RadioBusy(FALSE)}
<1>1. toWio \in Seq(Frames) /\ Len(toWio) <= LinkRoom
  BY DEF LinkTyped
<1>2. \A frame \in others : frame \in Frames /\ ~IsCall(frame)
  BY FramesSent, NotCalls
<1>3. ASSUME NEW frame \in others, Send(frame) PROVE SendsNoCall
  <2>1. frame \in Frames /\ ~IsCall(frame)
    BY <1>2
  <2>2. /\ Range(Queued(toWio, frame)) \subseteq Range(toWio) \cup {frame}
        /\ NoCall(toWio) => NoCall(Queued(toWio, frame))
        /\ LoneCall(toWio) => LoneCall(Queued(toWio, frame))
    BY <1>1, <2>1, QueuedCalls
  <2> QED BY <1>3, <2>1, <2>2 DEF Send, SendsNoCall
<1>4. CASE SendTwo(FwAbort, RadioBusy(FALSE))
  <2> DEFINE first == Queued(toWio, FwAbort)
  <2>1. first \in Seq(Frames)
    BY <1>1, <1>2, QueuedTyped
  <2>2. /\ Range(first) \subseteq Range(toWio) \cup {FwAbort}
        /\ NoCall(toWio) => NoCall(first)
        /\ LoneCall(toWio) => LoneCall(first)
    BY <1>1, <1>2, QueuedCalls
  <2>3. toWio' = Queued(first, RadioBusy(FALSE))
    BY <1>4 DEF SendTwo
  <2> HIDE DEF first
  <2>4. /\ Range(toWio') \subseteq Range(first) \cup {RadioBusy(FALSE)}
        /\ NoCall(first) => NoCall(toWio')
        /\ LoneCall(first) => LoneCall(toWio')
    BY <1>2, <2>1, <2>3, QueuedCalls
  <2> QED BY <1>2, <2>2, <2>4 DEF SendsNoCall
<1>5. CASE toWio # <<>> /\ toWio' = Tail(toWio)
  BY <1>1, <1>5, TailCalls DEF SendsNoCall
<1>6. CASE toWio' = <<>>
  BY <1>6, EmptyCalls DEF SendsNoCall
<1>7. CASE UNCHANGED toWio
  BY <1>7 DEF SendsNoCall
<1> QED BY <1>3, <1>4, <1>5, <1>6, <1>7

LEMMA CallsKept ==
  ASSUME OneCallUnderWay, SendsNoCall, UNCHANGED <<holder, toEsp>>,
         holder # None => request'[holder] = request[holder], signal' \in {signal, None}
  PROVE  OneCallUnderWay'
<1>1. LoneCall(toWio') /\ LoneCall(toEsp')
  BY DEF OneCallUnderWay, SendsNoCall
<1>2. NoCall(toWio') \/ NoCall(toEsp')
  BY DEF OneCallUnderWay, SendsNoCall
<1>3. signal' # None /\ IsCall(signal') => NoCall(toWio') /\ NoCall(toEsp')
  BY DEF OneCallUnderWay, SendsNoCall
<1>4. \A f \in Range(toWio') : IsCall(f) => holder' # None /\ f = request'[holder']
  BY DEF OneCallUnderWay, SendsNoCall
<1>5. \A ack \in Acks' : IsCall(ack) => holder' # None /\ ack.cmd = request'[holder'].cmd
  BY DEF OneCallUnderWay, Acks
<1> QED BY <1>1, <1>2, <1>3, <1>4, <1>5 DEF OneCallUnderWay

\* What a task requests is a call.
LEMMA RequestIsCall ==
  ASSUME RequestsTyped, NEW r \in Requesters, wait[r] # "no"
  PROVE  IsCall(request[r])
<1>1. CASE r = "heartbeat"
  BY <1>1, NotCalls DEF RequestsTyped
<1>2. CASE r \in Clients
  BY <1>2 DEF RequestsTyped, IsCall
<1> QED BY <1>1, <1>2

\* A request that returns in time leaves no call behind it.
LEMMA CallsReturned ==
  ASSUME OwnerInv, TypeInv, OneCallUnderWay, AnswersInTime',
         NEW r \in Requesters, NEW status, Returns(r, status)
  PROVE  NoCall(toWio) /\ NoCall(toEsp)
<1>1. wait[r] = "answer" /\ holder = r /\ IsCall(request[r])
  BY RequestIsCall DEF OwnerInv, LockHeld, TypeInv, Returns
<1>2. CASE signal # None /\ signal.cmd = request[r].cmd
  BY <1>1, <1>2 DEF OneCallUnderWay, IsCall
<1>3. CASE ~(signal # None /\ signal.cmd = request[r].cmd)
  <2>1. ~AnswerComing(r)
    BY <1>3 DEF Returns, Expired, Fault, AnswersInTime
  <2>2. \A i \in DOMAIN toWio : ~IsCall(toWio[i])
    BY <1>1, <2>1 DEF AnswerComing, OneCallUnderWay, Range
  <2>3. \A i \in DOMAIN toEsp : ~IsCall(toEsp[i])
    BY <1>1, <2>1 DEF AnswerComing, OneCallUnderWay, Range, Acks
  <2> QED BY <2>2, <2>3 DEF NoCall
<1> QED BY <1>2, <1>3

LEMMA NoCallsLeft ==
  ASSUME NoCall(toWio), NoCall(toEsp), SendsNoCall, UNCHANGED toEsp, signal' = None
  PROVE  OneCallUnderWay'
<1>1. NoCall(toWio') /\ NoCall(toEsp')
  BY DEF SendsNoCall
<1>2. LoneCall(toWio') /\ LoneCall(toEsp')
  BY <1>1 DEF NoCall, LoneCall
<1>3. \A x \in Range(toWio') \cup Range(toEsp') : ~IsCall(x)
  BY <1>1, NoCallRange
<1> QED BY <1>1, <1>2, <1>3 DEF OneCallUnderWay, Acks

LEMMA FreeLockNoCall ==
  ASSUME OneCallUnderWay, holder = None
  PROVE  NoCall(toWio) /\ NoCall(toEsp) /\ (signal # None => ~IsCall(signal))
BY DEF OneCallUnderWay, NoCall, Range, Acks

LEMMA LockCalls ==
  ASSUME OwnerInv, TypeInv, OneCallUnderWay, NEW r \in Requesters, TakeLock(r)
  PROVE  OneCallUnderWay'
<1>1. NoCall(toWio) /\ NoCall(toEsp) /\ UNCHANGED toEsp
  BY FreeLockNoCall DEF TakeLock
<1>2. holder' = r /\ r # None /\ request' = request /\ signal' = None
  BY DEF TakeLock
<1>3. request[r] \in Frames /\ toWio \in Seq(Frames)
  BY FramesSent DEF TakeLock, TypeInv, RequestsTyped, LinkTyped
<1>4. /\ Range(toWio') \subseteq Range(toWio) \cup {request[r]}
      /\ LoneCall(toWio')
  BY <1>1, <1>3, QueuedCalls DEF TakeLock, Send
<1>5. LoneCall(toEsp')
  BY <1>1 DEF NoCall, LoneCall
<1>6. \A f \in Range(toWio') : IsCall(f) => f = request[r]
  BY <1>1, <1>4, NoCallRange
<1>7. \A ack \in Acks' : ~IsCall(ack)
  BY <1>1, <1>2, NoCallRange DEF Acks
<1> QED BY <1>1, <1>2, <1>4, <1>5, <1>6, <1>7 DEF OneCallUnderWay

LEMMA LinkCalls ==
  ASSUME TypeInv, OneCallUnderWay, LinkReceives \/ LoseAck
  PROVE  OneCallUnderWay' /\ Acks' \subseteq Acks
<1>1. /\ toEsp \in Seq(Ack) /\ toEsp # <<>> /\ toEsp' = Tail(toEsp)
      /\ UNCHANGED <<holder, request, toWio>>
      /\ signal' \in {signal, Head(toEsp)}
  <2>1. toEsp \in Seq(Ack)
    BY DEF TypeInv, LinkTyped
  <2>2. CASE LinkReceives
    BY <2>1, <2>2 DEF LinkReceives, callVars
  <2>3. CASE LoseAck
    BY <2>1, <2>3 DEF LoseAck, espVars
  <2> QED BY <2>2, <2>3
<1>2. /\ Range(toEsp') \subseteq Range(toEsp) /\ Head(toEsp) \in Range(toEsp)
      /\ NoCall(toEsp) => NoCall(toEsp')
      /\ LoneCall(toEsp')
      /\ IsCall(Head(toEsp)) => NoCall(toEsp')
  BY <1>1, TailCalls DEF OneCallUnderWay
<1>3. Acks' \subseteq Acks
  <2>1. CASE signal' = signal
    BY <1>2, <2>1 DEF Acks
  <2>2. CASE signal' = Head(toEsp)
    BY <1>2, <2>2 DEF Acks
  <2> QED BY <1>1, <2>1, <2>2
<1>4. NoCall(toWio) \/ NoCall(toEsp)
  BY DEF OneCallUnderWay
<1>5. IsCall(Head(toEsp)) => NoCall(toWio)
  BY <1>2, <1>4, NoCallRange
<1>6. signal' # None /\ IsCall(signal') => NoCall(toWio') /\ NoCall(toEsp')
  BY <1>1, <1>2, <1>5 DEF OneCallUnderWay
<1> QED BY <1>1, <1>2, <1>3, <1>4, <1>6 DEF OneCallUnderWay

\* The WIO takes a frame and answers a call.
LEMMA WioCalls ==
  ASSUME TypeInv, OneCallUnderWay, UNCHANGED espVars, toWio # <<>>,
         toWio' = Tail(toWio) \/ toWio' = <<>>,
         NEW ack \in Ack, ack.cmd = Head(toWio).cmd, toEsp' = Append(toEsp, ack)
  PROVE  OneCallUnderWay' /\ Acks' = Acks \cup {ack}
<1>1. toWio \in Seq(Frames) /\ toEsp \in Seq(Ack) /\ UNCHANGED <<holder, request, signal>>
  BY DEF TypeInv, LinkTyped, espVars
<1>2. /\ SendsNoCall
      /\ Head(toWio) \in Range(toWio)
      /\ IsCall(Head(toWio)) => NoCall(toWio')
  BY <1>1, SendsNone, TailCalls, EmptyCalls DEF TypeInv, OneCallUnderWay
<1>3. Range(toEsp') = Range(toEsp) \cup {ack}
  BY <1>1, AppendCalls
<1>4. Acks' = Acks \cup {ack}
  BY <1>1, <1>3 DEF Acks
<1>5. IsCall(ack) <=> IsCall(Head(toWio))
  BY DEF IsCall
<1>6. CASE IsCall(Head(toWio))
  <2>1. ~NoCall(toWio)
    BY <1>2, <1>6, NoCallRange
  <2>2. NoCall(toEsp) /\ (signal # None => ~IsCall(signal))
    BY <2>1 DEF OneCallUnderWay
  <2>3. LoneCall(toEsp') /\ LoneCall(toWio') /\ NoCall(toWio')
    BY <1>1, <1>2, <1>6, <2>2, AppendCalls DEF OneCallUnderWay, SendsNoCall
  <2>4. holder # None /\ ack.cmd = request[holder].cmd
    BY <1>2, <1>6 DEF OneCallUnderWay
  <2>5. \A f \in Range(toWio') : ~IsCall(f)
    BY <2>3, NoCallRange
  <2> QED BY <1>1, <1>4, <2>2, <2>3, <2>4, <2>5 DEF OneCallUnderWay
<1>7. CASE ~IsCall(Head(toWio))
  <2>1. LoneCall(toEsp') /\ (NoCall(toEsp) => NoCall(toEsp'))
    BY <1>1, <1>5, <1>7, AppendCalls DEF OneCallUnderWay
  <2>2. LoneCall(toWio') /\ (NoCall(toWio) => NoCall(toWio'))
    BY <1>2 DEF OneCallUnderWay, SendsNoCall
  <2>3. \A f \in Range(toWio') : IsCall(f) => holder # None /\ f = request[holder]
    BY <1>2 DEF OneCallUnderWay, SendsNoCall
  <2> QED BY <1>1, <1>4, <1>5, <1>7, <2>1, <2>2, <2>3 DEF OneCallUnderWay
<1> QED BY <1>4, <1>6, <1>7

(***************************************************************************)
(* What a client and the WIO know of each other.                           *)
(***************************************************************************)

\* A step that leaves a client's transfer alone, brings it no answer and at
\* most takes its receiver away.
LEMMA StandsBy ==
  ASSUME NEW d \in Clients, ClientInStep(d),
         bulk'[d] = bulk[d], wait'[d] = wait[d], request'[d] = request[d],
         rx'[Kind[d]] \in {rx[Kind[d]], None},
         \A ack \in Acks' : ack \in Acks \/ ~ack.ok \/ wait[d] = "no" \/ ack.cmd # request[d].cmd,
         NoCall(toWio) => NoCall(toWio')
  PROVE  ClientInStep(d)'
<1>1. \A n, item : Holds(d, n, item) => Holds(d, n, item)'
  BY DEF Holds
<1>2. /\ Chunking(d)' <=> Chunking(d)
      /\ Beginning(d)' <=> Beginning(d)
  BY DEF Chunking, Beginning
<1>3. BulkInStep(d)'
  BY <1>1, <1>2 DEF ClientInStep, BulkInStep
<1>4. ASSUME NEW ack \in Acks' PROVE AckTells(d, ack)'
  BY <1>1, <1>2, <1>4 DEF ClientInStep, AckTells
<1> QED BY <1>3, <1>4 DEF ClientInStep

LEMMA OtherIdle ==
  ASSUME OwnerInv, NEW c \in Clients, Claims(c), NEW d \in Clients \ {c}
  PROVE  bulk[d] = None /\ wait[d] = "no"
BY DEF OwnerInv, OneOwner, Claims

LEMMA WaitingClaims ==
  ASSUME OwnerInv, NEW c \in Clients, wait[c] # "no"
  PROVE  Claims(c) /\ (~Beginning(c) => bulk[c] # None)
BY DEF OwnerInv, OneOwner, Claims

\* A client without a transfer and without a request has nothing to be in step with.
LEMMA IdleInStep ==
  ASSUME NEW d \in Clients, bulk'[d] = None, wait'[d] = "no"
  PROVE  ClientInStep(d)'
BY DEF ClientInStep, BulkInStep, AckTells

\* A request that has not been sent yet.
LEMMA ForwardInStep ==
  ASSUME OwnerInv, NEW c \in Clients, wait[c] = "no", ClientInStep(c),
         NEW step \in {"begin", "data", "end"}, NEW arg, Forward(c, step, arg),
         UNCHANGED <<bulk, rx>>,
         step = "begin" => bulk[c] = None,
         step = "data" => bulk[c] # None /\ arg.seq = bulk[c].next,
         step = "end" => bulk[c] # None /\ arg = bulk[c].item
  PROVE  ClientInStep(c)'
<1>1. wait'[c] = "lock" /\ request'[c].cmd[2] = step /\ request'[c].arg = arg
  BY DEF Forward, Request, Frame, OwnerInv, CallsWellFormed
<1>2. \A ack \in Acks' : AckTells(c, ack)'
  BY <1>1 DEF AckTells
<1>3. BulkInStep(c)'
  <2>1. Chunking(c)' <=> step = "data"
    BY <1>1 DEF Chunking
  <2>2. bulk[c] # None => bulk[c].received = bulk[c].next /\ Holds(c, bulk[c].next, bulk[c].item)
    BY DEF ClientInStep, BulkInStep, Chunking
  <2>3. bulk[c] # None => Holds(c, bulk[c].next, bulk[c].item)'
    BY <2>2 DEF Holds
  <2> QED BY <1>1, <2>1, <2>2, <2>3 DEF BulkInStep
<1> QED BY <1>2, <1>3 DEF ClientInStep

LEMMA ServeInStep ==
  ASSUME OwnerInv, TypeInv, HolderWaits, Sync, NEW c \in Clients, Serve(c)
  PROVE  OneCallUnderWay' /\ \A d \in Clients : ClientInStep(d)'
<1>1. /\ wait[c] = "no" /\ UNCHANGED <<holder, signal, toEsp, rx>>
      /\ \A r \in Requesters \ {c} : request'[r] = request[r] /\ wait'[r] = wait[r]
      /\ \A d \in Clients \ {c} : bulk'[d] = bulk[d]
  BY DEF Serve, OpBegin, OpData, OpEnd, OpAbort, Serves, Abandon, Release, Forward, Request,
         OwnerInv, CallsWellFormed, wioVars, callVars
<1>2. SendsNoCall
  BY SendsNone DEF Serve, OpBegin, OpData, OpEnd, OpAbort, Abandon, TypeInv
<1>3. OneCallUnderWay'
  <2>1. holder # None => holder \in Requesters \ {c}
    BY <1>1 DEF HolderWaits, TypeInv, EspTyped
  <2> QED BY <1>1, <1>2, <2>1, CallsKept DEF Sync
<1>4. Acks' = Acks /\ (NoCall(toWio) => NoCall(toWio'))
  BY <1>1, <1>2 DEF Acks, SendsNoCall
<1>5. ASSUME NEW d \in Clients \ {c} PROVE ClientInStep(d)'
  BY <1>1, <1>4, StandsBy DEF Sync
<1>6. ClientInStep(c)'
  <2>1. CASE UNCHANGED <<bulk, wait, request>>
    BY <1>1, <1>4, <2>1, StandsBy DEF Sync
  <2>2. CASE Release(c) /\ UNCHANGED wait
    BY <1>1, <2>2, IdleInStep DEF Release, OwnerInv, CallsWellFormed
  <2>3. ASSUME NEW step \in {"begin", "data", "end"}, NEW arg, Forward(c, step, arg), UNCHANGED bulk,
               step = "begin" => bulk[c] = None,
               step = "data" => bulk[c] # None /\ arg.seq = bulk[c].next,
               step = "end" => bulk[c] # None /\ arg = bulk[c].item
        PROVE  ClientInStep(c)'
    BY <1>1, <2>3, ForwardInStep DEF Sync
  <2>4. CASE OpBegin(c)
    BY <2>1, <2>3, <2>4 DEF OpBegin, callVars, OwnerInv, OneOwner, Claims
  <2>5. CASE OpData(c)
    BY <2>1, <2>3, <2>5 DEF OpData, callVars
  <2>6. CASE OpEnd(c)
    BY <2>1, <2>2, <2>3, <2>6 DEF OpEnd, callVars
  <2>7. CASE OpAbort(c)
    BY <2>1, <2>2, <2>7 DEF OpAbort, Abandon, callVars
  <2> QED BY <2>4, <2>5, <2>6, <2>7 DEF Serve
<1> QED BY <1>3, <1>5, <1>6

LEMMA DoneInStep ==
  ASSUME OwnerInv, TypeInv, HolderWaits, Sync, AnswersInTime', NEW c \in Clients, Done(c)
  PROVE  OneCallUnderWay' /\ \A d \in Clients : ClientInStep(d)'
<1>1. PICK status \in {"OK", "WIO_ERROR", "WIO_TIMEOUT"} :
        BeginDone(c, status) \/ DataDone(c, status) \/ EndDone(c, status)
  BY DEF Done
<1>2. Returns(c, status) /\ wait[c] = "answer" /\ UNCHANGED <<rx, toEsp>>
  BY <1>1 DEF BeginDone, DataDone, EndDone, Resumes, wioVars
<1>3. /\ signal' = None /\ wait'[c] = "no"
      /\ \A r \in Requesters \ {c} : wait'[r] = wait[r] /\ request'[r] = request[r]
      /\ \A d \in Clients \ {c} : bulk'[d] = bulk[d]
  BY <1>1, <1>2 DEF Returns, Drop, BeginDone, DataDone, EndDone, Release, OwnerInv, CallsWellFormed
<1>4. OneCallUnderWay'
  <2>1. NoCall(toWio) /\ NoCall(toEsp)
    BY <1>2, CallsReturned DEF Sync
  <2>2. SendsNoCall
    BY <1>1, SendsNone DEF BeginDone, DataDone, EndDone, TypeInv
  <2> QED BY <1>2, <1>3, <2>1, <2>2, NoCallsLeft
<1>5. ASSUME NEW d \in Clients \ {c} PROVE ClientInStep(d)'
  BY <1>2, <1>3, WaitingClaims, OtherIdle, IdleInStep
<1>6. \A ack \in Acks' : AckTells(c, ack)'
  BY <1>3 DEF AckTells
<1>7. status = "OK" => signal # None /\ signal.ok /\ signal.cmd = request[c].cmd /\ signal \in Acks
  BY <1>2 DEF Returns, Acks
<1>8. BulkInStep(c)'
  <2>1. CASE BeginDone(c, status)
    <3>1. Beginning(c) /\ bulk[c] = None
      BY <1>2, <2>1 DEF BeginDone, Resumes, Beginning, OwnerInv, BeginsAfresh
    <3>2. CASE status = "OK"
      <4>1. Holds(c, 0, request[c].arg)
        BY <1>2, <1>7, <3>1, <3>2 DEF Sync, ClientInStep, AckTells
      <4>2. bulk'[c] = [item |-> request[c].arg, received |-> 0, next |-> 0]
        BY <2>1, <3>2 DEF BeginDone, OwnerInv, CallsWellFormed
      <4>3. Holds(c, bulk[c].next, bulk[c].item)'
        BY <1>2, <4>1, <4>2 DEF Holds
      <4> QED BY <1>3, <4>2, <4>3 DEF BulkInStep, Chunking
    <3>3. CASE status # "OK"
      BY <2>1, <3>1, <3>3 DEF BeginDone, BulkInStep
    <3> QED BY <3>2, <3>3
  <2>2. CASE DataDone(c, status)
    <3>1. Chunking(c) /\ bulk[c] # None
      BY <1>2, <2>2, WaitingClaims DEF DataDone, Resumes, Chunking, Beginning
    <3>2. bulk[c] \in BulkState
      BY <3>1 DEF TypeInv, BulkTyped
    <3>3. CASE status = "OK"
      <4>1. signal.value = bulk[c].next + 1 /\ Holds(c, bulk[c].next + 1, bulk[c].item)
        BY <1>2, <1>7, <3>1, <3>3 DEF Sync, ClientInStep, AckTells
      <4>2. bulk[c].received = bulk[c].next
        BY <3>1 DEF Sync, ClientInStep, BulkInStep
      <4>3. bulk'[c] = [bulk[c] EXCEPT !.next = signal.value, !.received = @ + 1]
        BY <2>2, <3>3 DEF DataDone, OwnerInv, CallsWellFormed
      <4>4. /\ bulk'[c].next = bulk[c].next + 1 /\ bulk'[c].received = bulk[c].next + 1
            /\ bulk'[c].item = bulk[c].item
        BY <3>2, <4>1, <4>2, <4>3 DEF BulkState
      <4>5. Holds(c, bulk[c].next, bulk[c].item)'
        BY <1>2, <4>1, <4>4 DEF Holds
      <4> QED BY <1>3, <4>4, <4>5 DEF BulkInStep, Chunking
    <3>4. CASE status # "OK"
      BY <2>2, <3>4 DEF DataDone, Release, BulkInStep, OwnerInv, CallsWellFormed
    <3> QED BY <3>3, <3>4
  <2>3. CASE EndDone(c, status)
    <3>1. CASE Release(c)
      BY <3>1 DEF Release, BulkInStep, OwnerInv, CallsWellFormed
    <3>2. CASE UNCHANGED bulk
      <4>1. ~Chunking(c)
        BY <2>3 DEF EndDone, Resumes, Chunking
      <4>2. bulk[c] # None => bulk[c].received = bulk[c].next /\ Holds(c, bulk[c].next, bulk[c].item)
        BY <4>1 DEF Sync, ClientInStep, BulkInStep
      <4>3. bulk[c] # None => Holds(c, bulk[c].next, bulk[c].item)'
        BY <1>2, <3>2, <4>2 DEF Holds
      <4> QED BY <1>3, <3>2, <4>2, <4>3 DEF BulkInStep, Chunking
    <3> QED BY <2>3, <3>1, <3>2 DEF EndDone
  <2> QED BY <1>1, <2>1, <2>2, <2>3
<1> QED BY <1>4, <1>5, <1>6, <1>8 DEF ClientInStep

LEMMA LockInStep ==
  ASSUME OwnerInv, TypeInv, HolderWaits, Sync, NEW r \in Requesters, TakeLock(r)
  PROVE  OneCallUnderWay' /\ \A d \in Clients : ClientInStep(d)'
<1>1. /\ holder = None /\ wait' = [wait EXCEPT ![r] = "answer"] /\ signal' = None
      /\ UNCHANGED <<bulk, request, rx, toEsp>>
      /\ wait[r] = "lock"
  BY DEF TakeLock, wioVars
<1>2. NoCall(toWio) /\ NoCall(toEsp)
  BY <1>1, FreeLockNoCall DEF Sync
<1>3. \A ack \in Acks' : ~IsCall(ack)
  BY <1>1, <1>2, NoCallRange DEF Acks
<1>4. \A d \in Clients : wait[d] # "answer"
  BY <1>1 DEF OwnerInv, LockHeld
<1>5. ASSUME NEW d \in Clients PROVE ClientInStep(d)'
  <2>1. Chunking(d)' <=> Chunking(d)
    BY <1>1 DEF Chunking, OwnerInv, CallsWellFormed
  <2>2. bulk[d] # None => Holds(d, bulk[d].next, bulk[d].item)'
    BY <1>1, <1>4 DEF Sync, ClientInStep, BulkInStep, Holds
  <2>3. wait'[d] # "no" <=> wait[d] # "no"
    BY <1>1 DEF OwnerInv, CallsWellFormed
  <2>4. BulkInStep(d)'
    BY <1>1, <2>1, <2>2, <2>3 DEF Sync, ClientInStep, BulkInStep
  <2>5. wait'[d] # "no" => IsCall(request'[d])
    BY <1>1, <2>3, RequestIsCall DEF TypeInv
  <2>6. \A ack \in Acks' : AckTells(d, ack)'
    BY <1>3, <2>5 DEF AckTells, IsCall
  <2> QED BY <2>4, <2>6 DEF ClientInStep
<1> QED BY <1>5, LockCalls DEF Sync

LEMMA HeartbeatInStep ==
  ASSUME OwnerInv, TypeInv, HolderWaits, Sync, AnswersInTime',
         Heartbeat \/ HeartbeatDone \/ \E r \in Requesters : SkipAck(r)
  PROVE  OneCallUnderWay' /\ \A d \in Clients : ClientInStep(d)'
<1>1. /\ UNCHANGED <<bulk, rx, toWio, toEsp>> /\ signal' \in {signal, None}
      /\ \A d \in Clients : wait'[d] = wait[d] /\ request'[d] = request[d]
  BY DEF Heartbeat, HeartbeatDone, SkipAck, Returns, Drop, Request, callVars, wioVars, linkVars,
         OwnerInv, CallsWellFormed
<1>2. SendsNoCall
  BY <1>1, SendsNone DEF TypeInv
<1>3. OneCallUnderWay'
  <2>1. CASE HeartbeatDone
    <3>1. NoCall(toWio) /\ NoCall(toEsp) /\ signal' = None
      BY <2>1, CallsReturned DEF Sync, HeartbeatDone, Returns
    <3> QED BY <1>1, <1>2, <3>1, NoCallsLeft
  <2>2. CASE Heartbeat
    <3>1. holder # None => request'[holder] = request[holder]
      BY <2>2 DEF Heartbeat, Request, HolderWaits, OwnerInv, CallsWellFormed
    <3>2. UNCHANGED holder
      BY <2>2 DEF Heartbeat
    <3> QED BY <1>1, <1>2, <3>1, <3>2, CallsKept DEF Sync
  <2>3. CASE \E r \in Requesters : SkipAck(r)
    <3>1. UNCHANGED <<holder, request>>
      BY <2>3 DEF SkipAck, callVars
    <3> QED BY <1>1, <1>2, <3>1, CallsKept DEF Sync
  <2> QED BY <2>1, <2>2, <2>3
<1>4. Acks' \subseteq Acks
  BY <1>1 DEF Acks
<1>5. ASSUME NEW d \in Clients PROVE ClientInStep(d)'
  BY <1>1, <1>4, StandsBy DEF Sync
<1> QED BY <1>3, <1>5

LEMMA EndsInStep ==
  ASSUME OwnerInv, TypeInv, HolderWaits, Sync, UsbIdleAbort \/ SessionEnds
  PROVE  OneCallUnderWay' /\ \A d \in Clients : ClientInStep(d)'
<1>1. PICK c \in Clients :
        wait[c] = "no" /\ Abandon(c) /\ UNCHANGED <<callVars, holder, signal, rx, toEsp>>
  BY DEF UsbIdleAbort, SessionEnds, wioVars
<1>2. SendsNoCall
  BY <1>1, SendsNone DEF TypeInv, Abandon
<1>3. OneCallUnderWay'
  BY <1>1, <1>2, CallsKept DEF Sync, callVars
<1>4. Acks' = Acks /\ (NoCall(toWio) => NoCall(toWio'))
  BY <1>1, <1>2 DEF Acks, SendsNoCall
<1>5. ASSUME NEW d \in Clients PROVE ClientInStep(d)'
  <2>1. CASE bulk'[d] = bulk[d]
    BY <1>1, <1>4, <2>1, StandsBy DEF Sync, callVars
  <2>2. CASE bulk'[d] # bulk[d]
    <3>1. d = c /\ bulk'[c] = None
      BY <1>1, <2>2 DEF Abandon, Release, OwnerInv, CallsWellFormed
    <3> QED BY <1>1, <3>1, IdleInStep DEF callVars
  <2> QED BY <2>1, <2>2
<1> QED BY <1>3, <1>5

LEMMA LinkInStep ==
  ASSUME OwnerInv, TypeInv, HolderWaits, Sync, LinkReceives \/ LoseFrame \/ LoseAck
  PROVE  OneCallUnderWay' /\ \A d \in Clients : ClientInStep(d)'
<1>1. UNCHANGED <<bulk, wait, request, rx, holder>>
  BY DEF LinkReceives, LoseFrame, LoseAck, espVars, wioVars, callVars
<1>2. CASE LoseFrame
  <2>1. toWio # <<>> /\ toWio' = Tail(toWio) /\ UNCHANGED <<toEsp, signal>>
    BY <1>2 DEF LoseFrame, espVars
  <2>2. SendsNoCall
    BY <2>1, SendsNone DEF TypeInv
  <2>3. OneCallUnderWay'
    BY <1>1, <2>1, <2>2, CallsKept DEF Sync
  <2>4. Acks' = Acks /\ (NoCall(toWio) => NoCall(toWio'))
    BY <2>1, <2>2 DEF Acks, SendsNoCall
  <2> QED BY <1>1, <2>3, <2>4, StandsBy DEF Sync
<1>3. CASE LinkReceives \/ LoseAck
  <2>1. OneCallUnderWay' /\ Acks' \subseteq Acks
    BY <1>3, LinkCalls DEF Sync
  <2>2. UNCHANGED toWio
    BY <1>3 DEF LinkReceives, LoseAck
  <2> QED BY <1>1, <2>1, <2>2, StandsBy DEF Sync
<1> QED BY <1>2, <1>3

(***************************************************************************)
(* The WIO takes a frame.                                                  *)
(***************************************************************************)

\* A frame that belongs to a transfer is the request of the client that holds
\* the lock, and no answer to it is under way.
LEMMA HolderCalls ==
  ASSUME OwnerInv, TypeInv, HolderWaits, Sync, toWio # <<>>,
         NEW kind \in Kinds, NEW step \in {"begin", "data", "end"}, Head(toWio).cmd = <<kind, step>>
  PROVE  /\ holder \in Clients /\ Kind[holder] = kind /\ wait[holder] = "answer"
         /\ request[holder] = Head(toWio) /\ request[holder].cmd[2] = step
         /\ ~NoCall(toWio)
         /\ \A ack \in Acks : ack.cmd # request[holder].cmd
         /\ \A d \in Clients \ {holder} : bulk[d] = None /\ wait[d] = "no"
<1>1. IsCall(Head(toWio)) /\ Head(toWio) \in Range(toWio)
  BY TailCalls DEF IsCall, TypeInv, LinkTyped
<1>2. holder # None /\ request[holder] = Head(toWio) /\ wait[holder] = "answer"
  BY <1>1 DEF Sync, OneCallUnderWay, HolderWaits
<1>3. holder \in Clients
  <2>1. holder \in Requesters
    BY <1>2 DEF TypeInv, EspTyped
  <2>2. holder # "heartbeat"
    BY <1>2 DEF TypeInv, RequestsTyped, Ping, Frame
  <2> QED BY <2>1, <2>2
<1>4. Kind[holder] = kind
  BY <1>2, <1>3 DEF TypeInv, RequestsTyped
<1>5. ~NoCall(toWio)
  BY <1>1, NoCallRange
<1>6. \A ack \in Acks : ~IsCall(ack)
  BY <1>5, NoCallRange DEF Sync, OneCallUnderWay, Acks
<1>7. \A ack \in Acks : ack.cmd # request[holder].cmd
  BY <1>1, <1>2, <1>6 DEF IsCall
<1>8. \A d \in Clients \ {holder} : bulk[d] = None /\ wait[d] = "no"
  BY <1>2, <1>3, WaitingClaims, OtherIdle
<1> QED BY <1>2, <1>3, <1>4, <1>5, <1>7, <1>8

\* What the WIO's answer changes on the link.
LEMMA AnswerCalls ==
  ASSUME TypeInv, Sync, UNCHANGED espVars, toWio # <<>>,
         Head(toWio).cmd \in (Kinds \X Steps) \cup {<<"LINK", "ping">>},
         toWio' = Tail(toWio) \/ toWio' = <<>>,
         NEW ok \in BOOLEAN, NEW value \in 0..Chunks, Answer(ok, value)
  PROVE  /\ OneCallUnderWay' /\ (NoCall(toWio) => NoCall(toWio'))
         /\ \A ack \in Acks' : ack \in Acks
              \/ (ack.ok = ok /\ ack.value = value /\ ack.cmd = Head(toWio).cmd)
<1> DEFINE new == [ok |-> ok, cmd |-> Head(toWio).cmd, value |-> value]
<1>1. new \in Ack /\ new.cmd = Head(toWio).cmd /\ new.ok = ok /\ new.value = value
  BY DEF Ack
<1>2. toEsp' = Append(toEsp, new)
  BY DEF Answer
<1> HIDE DEF new
<1>3. OneCallUnderWay' /\ Acks' = Acks \cup {new}
  BY <1>1, <1>2, WioCalls DEF Sync
<1>4. SendsNoCall
  BY SendsNone DEF TypeInv
<1> QED BY <1>1, <1>3, <1>4 DEF SendsNoCall

LEMMA WioBeginInStep ==
  ASSUME OwnerInv, TypeInv, HolderWaits, Sync, NEW kind \in Kinds, WioBegin(kind)
  PROVE  OneCallUnderWay' /\ \A d \in Clients : ClientInStep(d)'
<1>1. /\ toWio # <<>> /\ Head(toWio).cmd = <<kind, "begin">> /\ toWio' = Tail(toWio)
      /\ UNCHANGED espVars /\ UNCHANGED <<bulk, wait, request>>
  BY DEF WioBegin, Gets, espVars
<1>2. /\ holder \in Clients /\ Kind[holder] = kind /\ wait[holder] = "answer"
      /\ request[holder] = Head(toWio) /\ request[holder].cmd[2] = "begin"
      /\ \A ack \in Acks : ack.cmd # request[holder].cmd
      /\ \A d \in Clients \ {holder} : bulk[d] = None /\ wait[d] = "no"
  BY <1>1, HolderCalls
<1>3. PICK ok \in BOOLEAN :
        /\ Answer(ok, 0)
        /\ ok => SetRx(kind, [item |-> Arg, next |-> 0, got |-> <<>>])
  BY DEF WioBegin
<1>4. /\ OneCallUnderWay'
      /\ \A ack \in Acks' : ack \in Acks \/ (ack.ok = ok /\ ack.cmd = Head(toWio).cmd)
  <2>1. 0 \in 0..Chunks /\ <<kind, "begin">> \in Kinds \X Steps
    BY Bounds
  <2> QED BY <1>1, <1>3, <2>1, AnswerCalls
<1>5. bulk[holder] = None
  BY <1>2 DEF OwnerInv, BeginsAfresh, Beginning
<1>6. ok => Holds(holder, 0, request[holder].arg)'
  <2>1. ASSUME ok PROVE rx'[kind] = [item |-> Arg, next |-> 0, got |-> <<>>]
    BY <1>3, <2>1 DEF SetRx, TypeInv, WioTyped
  <2> QED BY <1>1, <1>2, <2>1 DEF Holds, Arg, espVars
<1>7. BulkInStep(holder)'
  BY <1>1, <1>5 DEF BulkInStep, espVars
<1>8. ASSUME NEW ack \in Acks' PROVE AckTells(holder, ack)'
  BY <1>1, <1>2, <1>4, <1>6 DEF AckTells, Chunking, espVars
<1>9. UNCHANGED holder
  BY <1>1 DEF espVars
<1>10. ClientInStep(holder)'
  BY <1>7, <1>8, <1>9 DEF ClientInStep
<1>11. ASSUME NEW d \in Clients \ {holder} PROVE ClientInStep(d)'
  BY <1>1, <1>2, IdleInStep
<1> QED BY <1>2, <1>4, <1>9, <1>10, <1>11

LEMMA WioDataInStep ==
  ASSUME OwnerInv, TypeInv, HolderWaits, Sync, NEW kind \in Kinds, WioData(kind)
  PROVE  OneCallUnderWay' /\ \A d \in Clients : ClientInStep(d)'
<1>1. /\ toWio # <<>> /\ Head(toWio).cmd = <<kind, "data">> /\ toWio' = Tail(toWio)
      /\ UNCHANGED espVars /\ UNCHANGED <<bulk, wait, request, holder>>
  BY DEF WioData, Gets, espVars
<1>2. /\ holder \in Clients /\ Kind[holder] = kind /\ wait[holder] = "answer"
      /\ request[holder] = Head(toWio) /\ request[holder].cmd[2] = "data"
      /\ ~NoCall(toWio)
      /\ \A ack \in Acks : ack.cmd # request[holder].cmd
      /\ \A d \in Clients \ {holder} : bulk[d] = None /\ wait[d] = "no"
  BY <1>1, HolderCalls
<1>3. Chunking(holder) /\ ~Beginning(holder) /\ bulk[holder] # None
  BY <1>2, WaitingClaims DEF Chunking, Beginning
<1>4. /\ bulk[holder].received = bulk[holder].next
      /\ Arg.seq = bulk[holder].next
      /\ rx[kind] # None => rx[kind].next = bulk[holder].next /\ rx[kind].item = bulk[holder].item
  BY <1>2, <1>3 DEF Sync, ClientInStep, BulkInStep, Holds, Arg
<1>5. bulk[holder].next \in 0..Chunks
  BY <1>2, <1>3 DEF TypeInv, BulkTyped, BulkState
<1>6. \E ok \in BOOLEAN, value \in 0..Chunks :
        /\ Answer(ok, value)
        /\ ok => value = bulk[holder].next + 1 /\ Holds(holder, bulk[holder].next + 1, bulk[holder].item)'
  <2>1. CASE Expected(kind) /\ Answer(TRUE, rx[kind].next + 1)
             /\ SetRx(kind, [rx[kind] EXCEPT !.next = @ + 1, !.got = Append(@, <<Arg.item, Arg.chunk>>)])
    <3> DEFINE more == [rx[kind] EXCEPT !.next = @ + 1, !.got = Append(@, <<Arg.item, Arg.chunk>>)]
    <3>1. /\ rx[kind].next + 1 \in 0..Chunks
          /\ more.next = rx[kind].next + 1 /\ more.item = rx[kind].item
      BY <1>1, <2>1, ReceiverCounts DEF TypeInv
    <3>2. rx'[kind] = more
      BY <2>1 DEF SetRx, TypeInv, WioTyped
    <3> HIDE DEF more
    <3>3. rx[kind] # None
      BY <2>1 DEF Expected
    <3>4. Holds(holder, bulk[holder].next + 1, bulk[holder].item)'
      BY <1>1, <1>2, <1>4, <3>1, <3>2, <3>3 DEF Holds
    <3> QED BY <1>4, <2>1, <3>1, <3>3, <3>4
  <2>2. CASE rx[kind] # None /\ Arg.seq + 1 = rx[kind].next
    BY <1>4, <1>5, <2>2
  <2>3. CASE Answer(FALSE, 0)
    <3>1. 0 \in 0..Chunks /\ FALSE \in BOOLEAN
      BY Bounds
    <3> QED BY <2>3, <3>1
  <2> QED BY <2>1, <2>2, <2>3 DEF WioData
<1>7. PICK ok \in BOOLEAN, value \in 0..Chunks :
        /\ Answer(ok, value)
        /\ ok => value = bulk[holder].next + 1 /\ Holds(holder, bulk[holder].next + 1, bulk[holder].item)'
  BY <1>6
<1>8. /\ OneCallUnderWay'
      /\ \A ack \in Acks' : ack \in Acks
           \/ (ack.ok = ok /\ ack.value = value /\ ack.cmd = Head(toWio).cmd)
  <2>1. <<kind, "data">> \in Kinds \X Steps
    OBVIOUS
  <2> QED BY <1>1, <1>7, <2>1, AnswerCalls
<1>9. Chunking(holder)' /\ ~Beginning(holder)'
  BY <1>1, <1>3 DEF Chunking, Beginning
<1>10. NoCall(toWio')
  <2>1. toWio \in Seq(Frames) /\ IsCall(Head(toWio))
    BY <1>1 DEF TypeInv, LinkTyped, IsCall
  <2> QED BY <1>1, <2>1, TailCalls DEF Sync, OneCallUnderWay
<1>11. BulkInStep(holder)'
  BY <1>1, <1>2, <1>3, <1>4, <1>9, <1>10 DEF BulkInStep, Arg
<1>12. ASSUME NEW ack \in Acks' PROVE AckTells(holder, ack)'
  BY <1>1, <1>2, <1>7, <1>8, <1>9 DEF AckTells
<1>13. ClientInStep(holder)'
  BY <1>11, <1>12, <1>1 DEF ClientInStep
<1>14. ASSUME NEW d \in Clients \ {holder} PROVE ClientInStep(d)'
  BY <1>1, <1>2, IdleInStep
<1> QED BY <1>1, <1>2, <1>8, <1>13, <1>14

\* An end takes the receiver away, whatever the WIO makes of it.
LEMMA WioEndInStep ==
  ASSUME OwnerInv, TypeInv, HolderWaits, Sync, EndsAsked, WioEndConfig \/ WioEndFirmware
  PROVE  Sync'
<1>1. PICK kind \in Kinds :
        /\ toWio # <<>> /\ Head(toWio).cmd = <<kind, "end">>
        /\ toWio' = Tail(toWio) \/ toWio' = <<>>
        /\ rx'[kind] = None
        /\ UNCHANGED espVars /\ UNCHANGED <<bulk, wait, request, holder, asked>>
        /\ \/ UNCHANGED committed
           \/ /\ kind = "TOML" /\ rx[kind] # None /\ Applicable(rx[kind].got, Arg)
              /\ committed' = committed \cup {rx[kind].got}
           \/ /\ kind = "FIRMWARE" /\ rx[kind] # None /\ Verified(rx[kind])
              /\ committed' = committed \cup {rx[kind].got}
  BY DEF WioEndConfig, WioEndFirmware, Gets, SetRx, Rebooted, espVars, TypeInv, WioTyped
<1>2. /\ holder \in Clients /\ Kind[holder] = kind /\ wait[holder] = "answer"
      /\ request[holder] = Head(toWio) /\ request[holder].cmd[2] = "end"
      /\ \A d \in Clients \ {holder} : bulk[d] = None /\ wait[d] = "no"
  BY <1>1, HolderCalls
<1>3. ~Chunking(holder) /\ ~Beginning(holder) /\ bulk[holder] # None
  BY <1>2, WaitingClaims DEF Chunking, Beginning
<1>4. OneCallUnderWay'
  <2>1. 0 \in 0..Chunks /\ <<kind, "end">> \in Kinds \X Steps
    BY Bounds
  <2>2. \E ok \in BOOLEAN : Answer(ok, 0)
    BY DEF WioEndConfig, WioEndFirmware
  <2> QED BY <1>1, <2>1, <2>2, AnswerCalls
<1>5. \A n, item : Holds(holder, n, item)'
  BY <1>1, <1>2 DEF Holds
<1>6. ~Chunking(holder)' /\ ~Beginning(holder)'
  BY <1>1, <1>3 DEF Chunking, Beginning
<1>7. BulkInStep(holder)'
  BY <1>1, <1>2, <1>3, <1>5, <1>6 DEF Sync, ClientInStep, BulkInStep
<1>8. \A ack \in Acks' : AckTells(holder, ack)'
  BY <1>6 DEF AckTells
<1>9. \A d \in Clients : ClientInStep(d)'
  BY <1>1, <1>2, <1>7, <1>8, IdleInStep DEF ClientInStep
<1>10. request[holder].arg \in asked /\ Arg = request[holder].arg
  BY <1>2 DEF EndsAsked, Arg
<1>11. rx[kind] # None => rx[kind].item = request[holder].arg
  BY <1>2, <1>3 DEF Sync, ClientInStep, BulkInStep, Holds
<1>12. CommitsWhatWasAsked'
  <2>1. \A got \in committed' \ committed : \E item \in asked : got = Image(item)
    BY <1>1, <1>10, <1>11 DEF Applicable, Verified
  <2> QED BY <1>1, <2>1 DEF Sync, CommitsWhatWasAsked
<1> QED BY <1>4, <1>9, <1>12 DEF Sync

\* The other frames leave a transfer its receiver, or take it away.
LEMMA WioOthersInStep ==
  ASSUME OwnerInv, TypeInv, HolderWaits, Sync, WioAbort \/ WioPing \/ WioBusy \/ WioFlashFails
  PROVE  OneCallUnderWay' /\ \A d \in Clients : ClientInStep(d)'
<1>1. /\ toWio # <<>> /\ toWio' = Tail(toWio)
      /\ UNCHANGED espVars /\ UNCHANGED <<bulk, wait, request, holder, signal>>
  BY DEF WioAbort, WioPing, WioBusy, WioFlashFails, Gets, espVars
<1>2. \A kind \in Kinds : rx'[kind] \in {rx[kind], None}
  BY DEF WioAbort, WioPing, WioBusy, WioFlashFails, SetRx, TypeInv, WioTyped, wioVars
<1>3. CASE WioBusy
  <2>1. SendsNoCall /\ UNCHANGED toEsp
    BY <1>1, <1>3, SendsNone DEF TypeInv, WioBusy
  <2>2. OneCallUnderWay'
    BY <1>1, <2>1, CallsKept DEF Sync
  <2>3. Acks' = Acks /\ (NoCall(toWio) => NoCall(toWio'))
    BY <1>1, <2>1 DEF Acks, SendsNoCall
  <2> QED BY <1>1, <1>2, <2>2, <2>3, StandsBy, KindAssumption DEF Sync
<1>4. CASE ~WioBusy
  <2>1. /\ Head(toWio).cmd \in {<<"FIRMWARE", "abort">>, <<"LINK", "ping">>,
                                <<"FIRMWARE", "data">>, <<"FIRMWARE", "end">>}
        /\ \E ok \in BOOLEAN, value \in 0..Chunks :
             /\ Answer(ok, value)
             /\ ok => Head(toWio).cmd \in {<<"FIRMWARE", "abort">>, <<"LINK", "ping">>}
    <3>1. 0 \in 0..Chunks /\ 1 \in 0..Chunks
      BY Bounds
    <3>2. CASE WioAbort
      BY <3>1, <3>2 DEF WioAbort, Gets
    <3>3. CASE WioPing
      BY <3>1, <3>3 DEF WioPing, Gets
    <3>4. CASE WioFlashFails
      BY <3>1, <3>4 DEF WioFlashFails, Gets
    <3> QED BY <1>4, <3>2, <3>3, <3>4
  <2>2. PICK ok \in BOOLEAN, value \in 0..Chunks :
          /\ Answer(ok, value)
          /\ ok => Head(toWio).cmd \in {<<"FIRMWARE", "abort">>, <<"LINK", "ping">>}
    BY <2>1
  <2>3. Head(toWio).cmd \in (Kinds \X Steps) \cup {<<"LINK", "ping">>}
    BY <2>1
  <2>4. /\ OneCallUnderWay' /\ (NoCall(toWio) => NoCall(toWio'))
        /\ \A ack \in Acks' : ack \in Acks \/ (ack.ok = ok /\ ack.cmd = Head(toWio).cmd)
    BY <1>1, <2>2, <2>3, AnswerCalls
  <2>5. ASSUME NEW d \in Clients, wait[d] # "no"
        PROVE  request[d].cmd \notin {<<"FIRMWARE", "abort">>, <<"LINK", "ping">>}
    BY <2>5 DEF TypeInv, RequestsTyped
  <2>6. ASSUME NEW d \in Clients PROVE ClientInStep(d)'
    <3>1. \A ack \in Acks' : ack \in Acks \/ ~ack.ok \/ wait[d] = "no" \/ ack.cmd # request[d].cmd
      BY <2>2, <2>4, <2>5
    <3>2. rx'[Kind[d]] \in {rx[Kind[d]], None}
      BY <1>2, KindAssumption
    <3> QED BY <1>1, <2>4, <3>1, <3>2, StandsBy DEF Sync
  <2> QED BY <2>4, <2>6
<1> QED BY <1>3, <1>4

LEMMA WioResetInStep ==
  ASSUME OwnerInv, TypeInv, HolderWaits, Sync, WioReset
  PROVE  OneCallUnderWay' /\ \A d \in Clients : ClientInStep(d)'
<1>1. /\ toWio' = <<>> /\ UNCHANGED <<bulk, wait, request, holder, signal, toEsp>>
      /\ \A kind \in Kinds : rx'[kind] = None
  BY DEF WioReset, Rebooted, espVars
<1>2. SendsNoCall
  BY <1>1, SendsNone DEF TypeInv
<1>3. OneCallUnderWay'
  BY <1>1, <1>2, CallsKept DEF Sync
<1>4. Acks' = Acks /\ (NoCall(toWio) => NoCall(toWio'))
  BY <1>1, <1>2 DEF Acks, SendsNoCall
<1>5. \A d \in Clients : rx'[Kind[d]] = None
  BY <1>1, KindAssumption
<1> QED BY <1>1, <1>3, <1>4, <1>5, StandsBy DEF Sync

LEMMA InitSync == Init => SyncInv
<1> SUFFICES ASSUME Init PROVE SyncInv
  OBVIOUS
<1>1. HolderWaits /\ EndsAsked
  BY DEF Init, HolderWaits, EndsAsked
<1>2. Acks = {}
  BY EmptyCalls DEF Init, Acks
<1>3. OneCallUnderWay
  BY <1>2, EmptyCalls DEF Init, OneCallUnderWay
<1>4. \A c \in Clients : ClientInStep(c)
  BY <1>2 DEF Init, ClientInStep, BulkInStep
<1>5. CommitsWhatWasAsked
  BY DEF Init, CommitsWhatWasAsked
<1> QED BY <1>1, <1>3, <1>4, <1>5 DEF SyncInv, Sync

LEMMA StepHolder == OwnerInv /\ TypeInv /\ HolderWaits /\ [Next]_vars => HolderWaits'
<1> SUFFICES ASSUME OwnerInv, TypeInv, HolderWaits, [Next]_vars PROVE HolderWaits'
  OBVIOUS
<1> USE DEF HolderWaits, OwnerInv, CallsWellFormed, clientVars, callVars, espVars, wioVars, linkVars
<1>1. CASE UNCHANGED <<wait, holder>>
  BY <1>1
<1>2. ASSUME NEW c \in Clients, Client(c) PROVE HolderWaits'
  BY <1>1, <1>2 DEF Client, Start, BeginAnswered, DataAnswered, EndAnswered, AbortAnswered, Answered
<1>3. ASSUME NEW c \in Clients, Serve(c) PROVE HolderWaits'
  <2>1. /\ wait[c] = "no" /\ UNCHANGED holder
        /\ \A r \in Requesters \ {c} : wait'[r] = wait[r]
    BY <1>3 DEF Serve, OpBegin, OpData, OpEnd, OpAbort, Serves, Abandon, Forward, Request
  <2>2. holder # None => holder \in Requesters
    BY DEF TypeInv, EspTyped
  <2> QED BY <2>1, <2>2
<1>4. ASSUME NEW r \in Requesters, NEW status, Returns(r, status) PROVE HolderWaits'
  BY <1>4 DEF Returns
<1>5. ASSUME NEW r \in Requesters, TakeLock(r) \/ SkipAck(r) PROVE HolderWaits'
  BY <1>5 DEF TakeLock, SkipAck
<1>6. CASE Heartbeat
  BY <1>6 DEF Heartbeat, Request, TypeInv, EspTyped
<1>7. CASE NotifierEnds
  BY <1>7 DEF NotifierEnds, Drop, TypeInv, EspTyped
<1>8. CASE UsbIdleAbort \/ SessionEnds \/ HostTimeout \/ LoseReply \/ HostVanishes \/ BleLinkLost
  BY <1>1, <1>8 DEF UsbIdleAbort, SessionEnds, HostTimeout, LoseReply, HostVanishes, BleLinkLost
<1>9. CASE LinkReceives \/ LoseFrame \/ LoseAck
  BY <1>1, <1>9 DEF LinkReceives, LoseFrame, LoseAck
<1>10. CASE Wio \/ WioFlashFails \/ WioReset
  BY <1>1, <1>10 DEF Wio, WioBegin, WioData, WioEndConfig, WioEndFirmware, WioAbort, WioPing,
                     WioBusy, WioFlashFails, WioReset, Gets
<1>11. CASE UNCHANGED vars
  BY <1>1, <1>11 DEF vars
<1>12. CASE HeartbeatDone \/ \E c \in Clients : Done(c)
  BY <1>4, <1>12 DEF HeartbeatDone, Done, BeginDone, DataDone, EndDone, Resumes
<1> QED
  BY <1>2, <1>3, <1>5, <1>6, <1>7, <1>8, <1>9, <1>10, <1>11, <1>12 DEF Next

LEMMA StepAsked == OwnerInv /\ TypeInv /\ EndsAsked /\ [Next]_vars => EndsAsked' /\ asked \subseteq asked'
<1> SUFFICES ASSUME OwnerInv, TypeInv, EndsAsked, [Next]_vars PROVE EndsAsked' /\ asked \subseteq asked'
  OBVIOUS
<1> USE DEF EndsAsked, OwnerInv, CallsWellFormed, clientVars, callVars, espVars, wioVars, linkVars
<1>1. CASE UNCHANGED <<wait, request, asked>>
  BY <1>1
<1>2. ASSUME NEW c \in Clients, Client(c) PROVE EndsAsked' /\ asked \subseteq asked'
  BY <1>1, <1>2 DEF Client, Start, BeginAnswered, DataAnswered, EndAnswered, AbortAnswered, Answered
<1>3. ASSUME NEW c \in Clients, Serve(c) PROVE EndsAsked' /\ asked \subseteq asked'
  <2>1. CASE OpBegin(c)
    BY <1>1, <2>1 DEF OpBegin, Serves, Forward, Request, Frame
  <2>2. CASE OpData(c)
    <3>1. wait[c] = "no" /\ UNCHANGED asked /\ (UNCHANGED callVars \/ Forward(c, "data", Head(ops[c])))
      BY <2>2 DEF OpData, Serves
    <3>2. CASE Forward(c, "data", Head(ops[c]))
      BY <3>1, <3>2 DEF Forward, Request, Frame
    <3> QED BY <1>1, <3>1, <3>2
  <2>3. CASE OpEnd(c)
    <3>1. CASE UNCHANGED <<callVars, asked>>
      BY <1>1, <3>1
    <3>2. CASE Forward(c, "end", bulk[c].item) /\ asked' = asked \cup {bulk[c].item}
      BY <3>2 DEF Forward, Request, Frame
    <3> QED BY <2>3, <3>1, <3>2 DEF OpEnd
  <2>4. CASE OpAbort(c)
    BY <1>1, <2>4 DEF OpAbort
  <2> QED BY <1>3, <2>1, <2>2, <2>3, <2>4 DEF Serve
<1>4. ASSUME NEW r \in Requesters, Drop(r), UNCHANGED asked PROVE EndsAsked' /\ asked \subseteq asked'
  BY <1>4 DEF Drop
<1>5. ASSUME NEW r \in Requesters, TakeLock(r) \/ SkipAck(r) PROVE EndsAsked' /\ asked \subseteq asked'
  BY <1>5 DEF TakeLock, SkipAck
<1>6. CASE Heartbeat
  BY <1>6 DEF Heartbeat, Request
<1>7. CASE NotifierEnds
  BY <1>4, <1>7 DEF NotifierEnds
<1>8. CASE UsbIdleAbort \/ SessionEnds \/ HostTimeout \/ LoseReply \/ HostVanishes \/ BleLinkLost
  BY <1>1, <1>8 DEF UsbIdleAbort, SessionEnds, HostTimeout, LoseReply, HostVanishes, BleLinkLost
<1>9. CASE LinkReceives \/ LoseFrame \/ LoseAck
  BY <1>1, <1>9 DEF LinkReceives, LoseFrame, LoseAck
<1>10. CASE Wio \/ WioFlashFails \/ WioReset
  BY <1>1, <1>10 DEF Wio, WioBegin, WioData, WioEndConfig, WioEndFirmware, WioAbort, WioPing,
                     WioBusy, WioFlashFails, WioReset, Gets
<1>11. CASE UNCHANGED vars
  BY <1>1, <1>11 DEF vars
<1>12. CASE HeartbeatDone \/ \E c \in Clients : Done(c)
  BY <1>4, <1>12 DEF HeartbeatDone, Done, BeginDone, DataDone, EndDone, Resumes, Returns
<1> QED
  BY <1>2, <1>3, <1>5, <1>6, <1>7, <1>8, <1>9, <1>10, <1>11, <1>12 DEF Next

\* An answer that came late stays late.
LEMMA LateStays == [Next]_vars /\ AnswersInTime' => AnswersInTime /\ ~NotifierEnds
<1> SUFFICES ASSUME [Next]_vars, AnswersInTime' PROVE AnswersInTime /\ ~NotifierEnds
  OBVIOUS
<1> USE DEF clientVars, espVars, wioVars, linkVars, faultVars, Fault, Expired
<1>1. ~NotifierEnds
  BY DEF NotifierEnds, AnswersInTime
<1>2. met \subseteq met'
  <2>1. ASSUME NEW c \in Clients, Client(c) \/ Serve(c) \/ Done(c) PROVE met \subseteq met'
    BY <2>1 DEF Client, Start, BeginAnswered, DataAnswered, EndAnswered, AbortAnswered, Answered,
                Serve, OpBegin, OpData, OpEnd, OpAbort, Serves, Done, BeginDone, DataDone, EndDone,
                Resumes, Returns
  <2>2. CASE HostTimeout \/ LoseReply \/ HostVanishes \/ BleLinkLost
    BY <2>2 DEF HostTimeout, LoseReply, HostVanishes, BleLinkLost
  <2>3. CASE Heartbeat \/ HeartbeatDone \/ UsbIdleAbort \/ SessionEnds
               \/ \E r \in Requesters : TakeLock(r) \/ SkipAck(r)
    BY <2>3 DEF Heartbeat, HeartbeatDone, Returns, UsbIdleAbort, SessionEnds, TakeLock, SkipAck
  <2>4. CASE LinkReceives \/ LoseFrame \/ LoseAck
    BY <2>4 DEF LinkReceives, LoseFrame, LoseAck
  <2>5. CASE Wio \/ WioFlashFails \/ WioReset
    BY <2>5 DEF Wio, WioBegin, WioData, WioEndConfig, WioEndFirmware, WioAbort, WioPing,
                WioBusy, WioFlashFails, WioReset
  <2>6. CASE UNCHANGED vars
    BY <2>6 DEF vars
  <2> QED BY <1>1, <2>1, <2>2, <2>3, <2>4, <2>5, <2>6 DEF Next
<1> QED BY <1>1, <1>2 DEF AnswersInTime

LEMMA CommitsKept ==
  ASSUME CommitsWhatWasAsked, UNCHANGED committed, asked \subseteq asked'
  PROVE  CommitsWhatWasAsked'
BY DEF CommitsWhatWasAsked

LEMMA StepSync == OwnerInv /\ TypeInv /\ SyncInv /\ [Next]_vars => SyncInv'
<1> SUFFICES ASSUME OwnerInv, TypeInv, SyncInv, [Next]_vars PROVE SyncInv'
  OBVIOUS
<1>1. HolderWaits' /\ EndsAsked' /\ asked \subseteq asked'
  BY StepHolder, StepAsked DEF SyncInv
<1> SUFFICES ASSUME AnswersInTime' PROVE Sync'
  BY <1>1 DEF SyncInv
<1>2. HolderWaits /\ EndsAsked /\ Sync /\ ~NotifierEnds
  BY LateStays DEF SyncInv
<1>3. ASSUME UNCHANGED committed, OneCallUnderWay', \A d \in Clients : ClientInStep(d)' PROVE Sync'
  BY <1>1, <1>2, <1>3, CommitsKept DEF Sync
<1>4. CASE UNCHANGED <<bulk, wait, request, holder, signal, rx, committed, toWio, toEsp>>
  <2>1. Acks' = Acks /\ OneCallUnderWay'
    BY <1>2, <1>4 DEF Sync, OneCallUnderWay, Acks
  <2>2. \A d \in Clients : ClientInStep(d)'
    BY <1>2, <1>4, <2>1, StandsBy DEF Sync
  <2> QED BY <1>3, <1>4, <2>1, <2>2
<1> USE DEF clientVars, callVars, espVars, wioVars, linkVars
<1>5. ASSUME NEW c \in Clients, Client(c) PROVE Sync'
  BY <1>4, <1>5 DEF Client, Start, BeginAnswered, DataAnswered, EndAnswered, AbortAnswered, Answered
<1>6. ASSUME NEW c \in Clients, Serve(c) PROVE Sync'
  <2>1. UNCHANGED committed
    BY <1>6 DEF Serve, OpBegin, OpData, OpEnd, OpAbort, Serves
  <2> QED BY <1>2, <1>3, <1>6, <2>1, ServeInStep
<1>7. ASSUME NEW c \in Clients, Done(c) PROVE Sync'
  <2>1. UNCHANGED committed
    BY <1>7 DEF Done, BeginDone, DataDone, EndDone, Resumes
  <2> QED BY <1>2, <1>3, <1>7, <2>1, DoneInStep
<1>8. CASE HostTimeout \/ LoseReply \/ HostVanishes \/ BleLinkLost
  BY <1>4, <1>8 DEF HostTimeout, LoseReply, HostVanishes, BleLinkLost
<1>9. ASSUME NEW r \in Requesters, TakeLock(r) PROVE Sync'
  <2>1. UNCHANGED committed
    BY <1>9 DEF TakeLock
  <2> QED BY <1>2, <1>3, <1>9, <2>1, LockInStep
<1>10. CASE Heartbeat \/ HeartbeatDone \/ \E r \in Requesters : SkipAck(r)
  <2>1. UNCHANGED committed
    BY <1>10 DEF Heartbeat, HeartbeatDone, SkipAck
  <2> QED BY <1>2, <1>3, <1>10, <2>1, HeartbeatInStep
<1>11. CASE UsbIdleAbort \/ SessionEnds
  <2>1. UNCHANGED committed
    BY <1>11 DEF UsbIdleAbort, SessionEnds
  <2> QED BY <1>2, <1>3, <1>11, <2>1, EndsInStep
<1>12. CASE LinkReceives \/ LoseFrame \/ LoseAck
  <2>1. UNCHANGED committed
    BY <1>12 DEF LinkReceives, LoseFrame, LoseAck
  <2> QED BY <1>2, <1>3, <1>12, <2>1, LinkInStep
<1>13. ASSUME NEW kind \in Kinds, WioBegin(kind) PROVE Sync'
  <2>1. UNCHANGED committed
    BY <1>13 DEF WioBegin
  <2> QED BY <1>2, <1>3, <1>13, <2>1, WioBeginInStep
<1>14. ASSUME NEW kind \in Kinds, WioData(kind) PROVE Sync'
  <2>1. UNCHANGED committed
    BY <1>14 DEF WioData
  <2> QED BY <1>2, <1>3, <1>14, <2>1, WioDataInStep
<1>15. CASE WioEndConfig \/ WioEndFirmware
  BY <1>2, <1>15, WioEndInStep
<1>16. CASE WioAbort \/ WioPing \/ WioBusy \/ WioFlashFails
  <2>1. UNCHANGED committed
    BY <1>16 DEF WioAbort, WioPing, WioBusy, WioFlashFails
  <2> QED BY <1>2, <1>3, <1>16, <2>1, WioOthersInStep
<1>17. CASE WioReset
  <2>1. UNCHANGED committed
    BY <1>17 DEF WioReset
  <2> QED BY <1>2, <1>3, <1>17, <2>1, WioResetInStep
<1>18. CASE UNCHANGED vars
  BY <1>4, <1>18 DEF vars
<1> QED
  BY <1>2, <1>5, <1>6, <1>7, <1>8, <1>9, <1>10, <1>11, <1>12, <1>13, <1>14, <1>15, <1>16, <1>17,
     <1>18 DEF Next, Wio

LEMMA SyncMeansInStep == TypeInv /\ SyncInv => InStep
<1> SUFFICES ASSUME TypeInv, SyncInv, AnswersInTime, NEW c \in Clients, bulk[c] # None, wait[c] = "no"
             PROVE  /\ bulk[c].received = bulk[c].next
                    /\ rx[Kind[c]] # None =>
                         rx[Kind[c]].next = bulk[c].next /\ Len(rx[Kind[c]].got) = bulk[c].next
  BY DEF InStep
<1>1. bulk[c].received = bulk[c].next /\ Holds(c, bulk[c].next, bulk[c].item)
  BY DEF SyncInv, Sync, ClientInStep, BulkInStep, Chunking
<1>2. rx[Kind[c]] # None => Len(rx[Kind[c]].got) = rx[Kind[c]].next
  BY KindAssumption DEF TypeInv, WioTyped
<1> QED BY <1>1, <1>2 DEF Holds

LEMMA SyncInvariant == Spec => [](OwnerInv /\ TypeInv /\ SyncInv)
<1>1. Init => OwnerInv /\ TypeInv /\ SyncInv
  BY InitOwner, InitTyped, InitSync
<1>2. OwnerInv /\ TypeInv /\ SyncInv /\ [Next]_vars => (OwnerInv /\ TypeInv /\ SyncInv)'
  BY StepOwner, StepTyped, StepSync
<1> QED BY <1>1, <1>2, PTL DEF Spec

\* "Retrying is safe: the ESP and WIO both de-duplicate by sequence number": as
\* long as the WIO answers in time, no chunk is counted twice or missed, for
\* every number of lost frames, lost replies, resets and attempts.
THEOREM StaysInStep == Spec => []InStep
BY SyncInvariant, SyncMeansInStep, PTL

\* As long as the WIO answers in time, it installs or applies nothing but one
\* complete image whose client has asked for it with an OP_END.
THEOREM CommitsOnlyAsked == Spec => [](AnswersInTime => CommitsWhatWasAsked)
<1>1. SyncInv => (AnswersInTime => CommitsWhatWasAsked)
  BY DEF SyncInv, Sync
<1> QED BY <1>1, SyncInvariant, PTL
=============================================================================
