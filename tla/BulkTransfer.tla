---------------------------- MODULE BulkTransfer ----------------------------
(***************************************************************************)
(* The transfer of a config file or of a firmware image to the WIO through *)
(* the ESP: send_bulk of tools/wio_link.py over USB and a BLE central that *)
(* sends the same operations, the ESP's usb_task, gatt_session,            *)
(* handle_bulk, wio_request and heartbeat_task, the UART in between, and   *)
(* the WIO's receivers FwUpdate and CfgTransfer.                           *)
(*                                                                         *)
(* The ESP's tasks are cooperative: a step runs from one await to the      *)
(* next.  A timeout runs out when nothing that would end the wait is under *)
(* way; one that runs out earlier, a lost frame, a refused flash write, a  *)
(* client that goes away and a WIO reset are faults, of which a behaviour  *)
(* has at most MaxFaults, of the kinds in FaultKinds.                      *)
(***************************************************************************)
EXTENDS Integers, Sequences

CONSTANTS
  None,          \* Option::None
  Kind,          \* what each client sends: "TOML" or "FIRMWARE"
  Chunks,        \* chunks an image is cut into
  Shapes,        \* the images offered: "good", "oversize" or "unparsable"
  Transfers,     \* transfers each client makes, per client
  Attempts,      \* ATTEMPTS of wio_link.py
  LinkRoom,      \* frames the link to the WIO holds
  FaultKinds, MaxFaults

Clients == {"usb", "ble"}
Requesters == Clients \cup {"heartbeat"}
Kinds == {"TOML", "FIRMWARE"}
Steps == {"begin", "data", "end", "abort"}

Faults ==
  {"begin_ack",  \* the reply to OP_BEGIN lost in the USB FIFO
   "usb_ack",    \* the reply to another operation lost there
   "late",       \* the host's timeout runs out before the reply arrives
   "vanish",     \* the host program is stopped
   "drop",       \* the BLE link is lost
   "cancel",     \* the notifier meets the lost link before the events arm
   "uart_out",   \* a frame to the WIO lost
   "uart_in",    \* a frame to the ESP lost
   "slow",       \* wio_request times out before the WIO has answered
   "flash",      \* the WIO cannot write a page
   "reset"}      \* the WIO is reset

ASSUME KindAssumption == Kind \in [Clients -> Kinds]
ASSUME NoneAssumption == None \notin Requesters
ASSUME BoundsAssumption ==
  /\ {Chunks, Attempts, LinkRoom} \subseteq Nat \ {0}
  /\ Transfers \in [Clients -> Nat]
  /\ MaxFaults \in Nat
  /\ Shapes \subseteq {"good", "oversize", "unparsable"}
  /\ FaultKinds \subseteq Faults

Item == [from : Clients, nr : Nat, shape : Shapes]

\* The chunks of an item, in order: what a CRC32 stands for.
Image(item) == [k \in 1..Chunks |-> <<item, k>>]

\* What the code keeps in an Option: the transfer a task serves, the one a
\* receiver of the WIO is in, and the ack in ACK_SIGNAL.
BulkState == [item : Item, received : Nat, next : 0..Chunks]

Receiver == [item : Item, next : 0..Chunks, got : Seq(Item \X (Nat \ {0}))]

Ack ==
  [ok : BOOLEAN, value : 0..Chunks,
   cmd : (Kinds \X Steps) \cup {<<"LINK", "ping">>}]

ASSUME OptionAssumption == None \notin BulkState /\ None \notin Receiver /\ None \notin Ack

VARIABLES
  host,       \* per client: the operation it is in, the item, the next sequence
              \* number, the chunks acknowledged, the attempts made
  ops,        \* per client: operations on their way to the ESP
  replies,    \* per client: replies on their way back
  session,    \* FALSE: the BLE link is lost and the ESP has not noticed
  bulk,       \* per client: BulkState of the task that serves it
  wait,       \* per task: what its wio_request waits for, LINK_LOCK or answer
  request,    \* per task: the frame of its wio_request
  xferActive, \* FW_XFER_ACTIVE
  holder,     \* who holds LINK_LOCK
  signal,     \* ACK_SIGNAL
  toWio,      \* OUT_CHANNEL, the wire and the WIO's receive ring
  toEsp,      \* acks on their way from the WIO
  rx,         \* per kind: the WIO's receiver
  busy,       \* the WIO's peer_busy flag
  committed,  \* the contents the WIO has installed or applied
  asked,      \* history: the items for which the ESP has sent an END
  faults,     \* faults so far
  met         \* history: the kinds of fault so far, "overlap" for a client too early

clientVars == <<host, ops, replies>>
espVars == <<session, bulk, wait, request, xferActive, holder, signal, asked>>
wioVars == <<rx, busy, committed>>
linkVars == <<toWio, toEsp>>
faultVars == <<faults, met>>
vars == <<clientVars, espVars, wioVars, linkVars, faultVars>>

callVars == <<wait, request>>

Init ==
  /\ host = [c \in Clients |-> [pc |-> "idle", item |-> None, seq |-> 0, sent |-> 0, tries |-> 0]]
  /\ ops = [c \in Clients |-> <<>>]
  /\ replies = [c \in Clients |-> <<>>]
  /\ session = TRUE
  /\ bulk = [c \in Clients |-> None]
  /\ wait = [r \in Requesters |-> "no"]
  /\ request = [r \in Requesters |-> None]
  /\ xferActive = FALSE
  /\ holder = None
  /\ signal = None
  /\ toWio = <<>> /\ toEsp = <<>>
  /\ rx = [k \in Kinds |-> None]
  /\ busy = FALSE
  /\ committed = {}
  /\ asked = {}
  /\ faults = 0
  /\ met = {}

Fault(kind) ==
  /\ kind \in FaultKinds /\ faults < MaxFaults
  /\ faults' = faults + 1
  /\ met' = met \cup {kind}

\* A timeout that costs a fault while what it waits for is still coming.
Expired(coming, kind) == IF coming THEN Fault(kind) ELSE UNCHANGED faultVars

-----------------------------------------------------------------------------
(***************************************************************************)
(* The client, as send_bulk has it.                                        *)
(***************************************************************************)

\* bulk_op: what is still in the input buffer is discarded, then the
\* operation is sent.
Submit(c, h) ==
  /\ host' = [host EXCEPT ![c] = h]
  /\ ops' = [ops EXCEPT ![c] =
               Append(@, [op |-> h.pc, item |-> h.item, seq |-> h.seq, chunk |-> h.sent + 1])]
  /\ replies' = [replies EXCEPT ![c] = <<>>]

Conclude(c, result) ==
  /\ host' = [host EXCEPT ![c].pc = result]
  /\ UNCHANGED <<ops, replies>>

Operation(c, pc) == [host[c] EXCEPT !.pc = pc, !.tries = 1]

\* Mutant: one attempt more than ATTEMPTS.
RetryOnceMore(c) == host[c].tries <= Attempts /\ Submit(c, [host[c] EXCEPT !.tries = @ + 1])

Retry(c) == host[c].tries < Attempts /\ Submit(c, [host[c] EXCEPT !.tries = @ + 1])

GiveUp(c) == Submit(c, Operation(c, "abort"))

NrOf(c) == IF host[c].item = None THEN 0 ELSE host[c].item.nr

\* A reply is under way while its operation is queued or being served.
ReplyComing(c) == ops[c] # <<>> \/ wait[c] # "no"

Start(c) ==
  /\ host[c].pc \in {"idle", "ok", "failed", "gone"}
  /\ c = "ble" => session
  /\ NrOf(c) < Transfers[c]
  /\ \E shape \in Shapes :
       Submit(c, [pc |-> "begin", item |-> [from |-> c, nr |-> NrOf(c) + 1, shape |-> shape],
                  seq |-> 0, sent |-> 0, tries |-> 1])
  /\ met' = met \cup (IF ReplyComing(c) THEN {"overlap"} ELSE {})
  /\ UNCHANGED <<espVars, wioVars, linkVars, faults>>

Reply(c) == Head(replies[c])

Answered(c, pc) ==
  /\ host[c].pc = pc
  /\ replies[c] # <<>>
  /\ UNCHANGED <<espVars, wioVars, linkVars, faultVars>>

BeginAnswered(c) ==
  /\ Answered(c, "begin")
  /\ IF Reply(c).status = "OK" THEN Submit(c, Operation(c, "data")) ELSE GiveUp(c)

DataAnswered(c) ==
  /\ Answered(c, "data")
  /\ \/ /\ Reply(c).status # "OK"
        /\ GiveUp(c)
     \/ /\ Reply(c).status = "OK"
        /\ LET sent == host[c].sent + 1
           IN  Submit(c, [host[c] EXCEPT !.pc = IF sent = Chunks THEN "end" ELSE "data",
                                         !.seq = Reply(c).next, !.sent = sent, !.tries = 1])

EndAnswered(c) ==
  /\ Answered(c, "end")
  /\ \/ /\ Reply(c).status = "OK" \/ (Reply(c).status = "BAD_STATE" /\ host[c].tries > 1)
        /\ Conclude(c, "ok")
     \/ Reply(c).status = "WIO_TIMEOUT" /\ Retry(c)
     \/ /\ \/ Reply(c).status \in {"WIO_ERROR", "BAD_VALUE"}
           \/ Reply(c).status = "BAD_STATE" /\ host[c].tries = 1
           \/ Reply(c).status = "WIO_TIMEOUT" /\ host[c].tries >= Attempts
        /\ GiveUp(c)

AbortAnswered(c) == Answered(c, "abort") /\ Conclude(c, "failed")

HostTimeout ==
  /\ host["usb"].pc \in Steps
  /\ replies["usb"] = <<>>
  /\ Expired(ReplyComing("usb"), "late")
  /\ \/ host["usb"].pc # "abort" /\ Retry("usb")
     \/ host["usb"].pc # "abort" /\ host["usb"].tries >= Attempts /\ GiveUp("usb")
     \/ host["usb"].pc = "abort" /\ Conclude("usb", "failed")
  /\ UNCHANGED <<espVars, wioVars, linkVars>>

LoseReply ==
  /\ replies["usb"] # <<>>
  /\ Fault(IF host["usb"].pc = "begin" THEN "begin_ack" ELSE "usb_ack")
  /\ replies' = [replies EXCEPT !["usb"] = Tail(@)]
  /\ UNCHANGED <<host, ops, espVars, wioVars, linkVars>>

HostVanishes ==
  /\ host["usb"].pc \in Steps
  /\ Fault("vanish")
  /\ Conclude("usb", "gone")
  /\ UNCHANGED <<espVars, wioVars, linkVars>>

BleLinkLost ==
  /\ session
  /\ host["ble"].pc \in Steps
  /\ Fault("drop")
  /\ Conclude("ble", "gone")
  /\ session' = FALSE
  /\ UNCHANGED <<bulk, callVars, xferActive, holder, signal, asked, wioVars, linkVars>>

-----------------------------------------------------------------------------
(***************************************************************************)
(* The ESP.                                                                *)
(***************************************************************************)

Frame(cmd, arg) == [cmd |-> cmd, arg |-> arg]

Ping == Frame(<<"LINK", "ping">>, None)
RadioBusy(on) == Frame(<<"LINK", "busy">>, on)
FwAbort == Frame(<<"FIRMWARE", "abort">>, None)

\* A frame that finds no room, in OUT_CHANNEL or in the WIO's ring, is lost.
Queued(link, frame) == IF Len(link) < LinkRoom THEN Append(link, frame) ELSE link

Send(frame) == toWio' = Queued(toWio, frame)
SendTwo(first, second) == toWio' = Queued(Queued(toWio, first), second)

Respond(c, status, next) ==
  replies' = [replies EXCEPT ![c] = Append(@, [status |-> status, next |-> next])]

(***************************************************************************)
(* wio_request: the lock, then the answer to this very command.            *)
(***************************************************************************)
Request(r, frame) ==
  /\ wait' = [wait EXCEPT ![r] = "lock"]
  /\ request' = [request EXCEPT ![r] = frame]

Drop(r) ==
  /\ wait' = [wait EXCEPT ![r] = "no"]
  /\ request' = [request EXCEPT ![r] = None]

\* Mutant: no LINK_LOCK around the request.
TakeNoLock(r) ==
  /\ wait[r] = "lock"
  /\ holder' = r
  /\ signal' = None
  /\ wait' = [wait EXCEPT ![r] = "answer"]
  /\ UNCHANGED request
  /\ Send(request[r])
  /\ UNCHANGED <<clientVars, session, bulk, xferActive, asked, wioVars, toEsp, faultVars>>

TakeLock(r) ==
  /\ wait[r] = "lock"
  /\ holder = None
  /\ holder' = r
  /\ signal' = None
  /\ wait' = [wait EXCEPT ![r] = "answer"]
  /\ UNCHANGED request
  /\ Send(request[r])
  /\ UNCHANGED <<clientVars, session, bulk, xferActive, asked, wioVars, toEsp, faultVars>>

\* An ack of another command is taken out of the signal and dropped.
SkipAck(r) ==
  /\ wait[r] = "answer"
  /\ signal # None /\ signal.cmd # request[r].cmd
  /\ signal' = None
  /\ UNCHANGED <<clientVars, session, bulk, callVars, xferActive, holder, asked,
                 wioVars, linkVars, faultVars>>

AnswerComing(r) ==
  \/ \E i \in DOMAIN toWio : toWio[i].cmd = request[r].cmd
  \/ \E i \in DOMAIN toEsp : toEsp[i].cmd = request[r].cmd

\* Mutant: a request that times out keeps the lock.
ReturnsHolding(r, status) ==
  /\ wait[r] = "answer"
  /\ \/ /\ signal # None /\ signal.cmd = request[r].cmd
        /\ status = IF signal.ok THEN "OK" ELSE "WIO_ERROR"
        /\ holder' = None
        /\ UNCHANGED faultVars
     \/ /\ signal = None
        /\ status = "WIO_TIMEOUT"
        /\ Expired(AnswerComing(r), "slow")
        /\ UNCHANGED holder
  /\ signal' = None
  /\ Drop(r)

\* The request of r returns: an answer is taken, or the time is up.
Returns(r, status) ==
  /\ wait[r] = "answer"
  /\ \/ /\ signal # None /\ signal.cmd = request[r].cmd
        /\ status = IF signal.ok THEN "OK" ELSE "WIO_ERROR"
        /\ UNCHANGED faultVars
     \/ /\ signal = None
        /\ status = "WIO_TIMEOUT"
        /\ Expired(AnswerComing(r), "slow")
  /\ signal' = None
  /\ holder' = None
  /\ Drop(r)

Heartbeat ==
  /\ ~xferActive
  /\ wait["heartbeat"] = "no"
  /\ Request("heartbeat", Ping)
  /\ UNCHANGED <<clientVars, session, bulk, xferActive, holder, signal, asked,
                 wioVars, linkVars, faultVars>>

HeartbeatDone ==
  /\ \E status \in {"OK", "WIO_ERROR", "WIO_TIMEOUT"} : Returns("heartbeat", status)
  /\ UNCHANGED <<clientVars, session, bulk, xferActive, asked, wioVars, linkVars>>

(***************************************************************************)
(* handle_bulk, up to the request it makes.                                *)
(***************************************************************************)
Serves(c, step) ==
  /\ wait[c] = "no"
  /\ ops[c] # <<>> /\ Head(ops[c]).op = step
  /\ ops' = [ops EXCEPT ![c] = Tail(@)]
  /\ UNCHANGED <<host, session, holder, signal, wioVars, toEsp, faultVars>>

Forward(c, step, arg) == Request(c, Frame(<<Kind[c], step>>, arg))

Release(c) ==
  /\ bulk' = [bulk EXCEPT ![c] = None]
  /\ xferActive' = FALSE

\* Mutant: the link is claimed without a look at who has it.
OpBeginUnguarded(c) ==
  /\ Serves(c, "begin")
  /\ xferActive' = TRUE
  /\ Forward(c, "begin", Head(ops[c]).item)
  /\ UNCHANGED <<replies, bulk, asked, toWio>>

OpBegin(c) ==
  /\ Serves(c, "begin")
  /\ LET item == Head(ops[c]).item
     IN  \/ /\ xferActive
            /\ Respond(c, "BAD_STATE", 0)
            /\ UNCHANGED <<xferActive, callVars>>
         \/ /\ ~xferActive
            /\ Kind[c] = "TOML" /\ item.shape = "oversize"
            /\ Respond(c, "BAD_VALUE", 0)
            /\ UNCHANGED <<xferActive, callVars>>
         \/ /\ ~xferActive
            /\ ~(Kind[c] = "TOML" /\ item.shape = "oversize")
            /\ xferActive' = TRUE
            /\ Forward(c, "begin", item)
            /\ UNCHANGED replies
  /\ UNCHANGED <<bulk, asked, toWio>>

\* Mutant: duplicates are left to the WIO to recognise.
OpDataForwardsAll(c) ==
  /\ Serves(c, "data")
  /\ IF bulk[c] = None
     THEN Respond(c, "BAD_STATE", 0) /\ UNCHANGED <<callVars, toWio>>
     ELSE /\ Send(RadioBusy(TRUE))
          /\ Forward(c, "data", Head(ops[c]))
          /\ UNCHANGED replies
  /\ UNCHANGED <<bulk, xferActive, asked>>

OpData(c) ==
  /\ Serves(c, "data")
  /\ LET op == Head(ops[c])
     IN  \/ /\ bulk[c] = None
            /\ Respond(c, "BAD_STATE", 0)
            /\ UNCHANGED <<callVars, toWio>>
         \/ /\ bulk[c] # None /\ op.seq + 1 = bulk[c].next
            /\ Respond(c, "OK", bulk[c].next)
            /\ UNCHANGED <<callVars, toWio>>
         \/ /\ bulk[c] # None /\ op.seq \notin {bulk[c].next, bulk[c].next - 1}
            /\ Respond(c, "BAD_VALUE", 0)
            /\ UNCHANGED <<callVars, toWio>>
         \/ /\ bulk[c] # None /\ op.seq = bulk[c].next
            /\ Send(RadioBusy(TRUE))
            /\ Forward(c, "data", op)
            /\ UNCHANGED replies
  /\ UNCHANGED <<bulk, xferActive, asked>>

\* Mutant: the state is consumed before the WIO has answered.
OpEndConsumes(c) ==
  /\ Serves(c, "end")
  /\ IF bulk[c] = None
     THEN Respond(c, "BAD_STATE", 0) /\ UNCHANGED <<bulk, callVars, xferActive, asked, toWio>>
     ELSE /\ Release(c)
          /\ Forward(c, "end", bulk[c].item)
          /\ asked' = asked \cup {bulk[c].item}
          /\ UNCHANGED <<replies, toWio>>

OpEnd(c) ==
  /\ Serves(c, "end")
  /\ \/ /\ bulk[c] = None
        /\ Respond(c, "BAD_STATE", 0)
        /\ UNCHANGED <<bulk, callVars, xferActive, asked, toWio>>
     \/ /\ bulk[c] # None /\ bulk[c].received # Chunks
        /\ Release(c)
        /\ Send(RadioBusy(FALSE))
        /\ Respond(c, "BAD_VALUE", 0)
        /\ UNCHANGED <<callVars, asked>>
     \/ /\ bulk[c] # None /\ bulk[c].received = Chunks
        /\ Forward(c, "end", bulk[c].item)
        /\ asked' = asked \cup {bulk[c].item}
        /\ UNCHANGED <<replies, bulk, xferActive, toWio>>

\* Mutant: the WIO is not told.
AbandonQuietly(c) ==
  IF bulk[c] = None
  THEN UNCHANGED <<bulk, xferActive, toWio>>
  ELSE Release(c) /\ Send(RadioBusy(FALSE))

\* What an aborted, idle or disconnected transfer leaves: nothing.
Abandon(c) ==
  IF bulk[c] = None
  THEN UNCHANGED <<bulk, xferActive, toWio>>
  ELSE Release(c) /\ SendTwo(FwAbort, RadioBusy(FALSE))

OpAbort(c) ==
  /\ Serves(c, "abort")
  /\ Abandon(c)
  /\ Respond(c, "OK", 0)
  /\ UNCHANGED <<callVars, asked>>

(***************************************************************************)
(* handle_bulk, once the request has returned.                             *)
(***************************************************************************)
Resumes(c, step, status) ==
  /\ wait[c] = "answer" /\ request[c].cmd[2] = step
  /\ Returns(c, status)
  /\ UNCHANGED <<host, ops, session, asked, wioVars, toEsp>>

\* Mutant: a refused OP_BEGIN keeps the link.
BeginDoneLeaks(c, status) ==
  /\ Resumes(c, "begin", status)
  /\ Respond(c, status, 0)
  /\ UNCHANGED xferActive
  /\ IF status = "OK"
     THEN /\ bulk' = [bulk EXCEPT ![c] = [item |-> request[c].arg, received |-> 0, next |-> 0]]
          /\ Send(RadioBusy(TRUE))
     ELSE UNCHANGED <<bulk, toWio>>

BeginDone(c, status) ==
  /\ Resumes(c, "begin", status)
  /\ Respond(c, status, 0)
  /\ IF status = "OK"
     THEN /\ bulk' = [bulk EXCEPT ![c] = [item |-> request[c].arg, received |-> 0, next |-> 0]]
          /\ Send(RadioBusy(TRUE))
          /\ UNCHANGED xferActive
     ELSE xferActive' = FALSE /\ UNCHANGED <<bulk, toWio>>

DataDone(c, status) ==
  /\ Resumes(c, "data", status)
  /\ IF status = "OK"
     THEN /\ bulk' = [bulk EXCEPT ![c].next = signal.value, ![c].received = @ + 1]
          /\ Respond(c, "OK", signal.value)
          /\ UNCHANGED <<xferActive, toWio>>
     ELSE /\ Release(c)
          /\ Send(RadioBusy(FALSE))
          /\ Respond(c, status, 0)

EndDone(c, status) ==
  /\ Resumes(c, "end", status)
  /\ Respond(c, status, 0)
  /\ IF status = "OK"
     THEN Release(c) /\ Send(RadioBusy(FALSE))
     ELSE UNCHANGED <<bulk, xferActive, toWio>>

Done(c) ==
  \E status \in {"OK", "WIO_ERROR", "WIO_TIMEOUT"} :
    BeginDone(c, status) \/ DataDone(c, status) \/ EndDone(c, status)

(***************************************************************************)
(* The ends of a client that says nothing more.                            *)
(***************************************************************************)

\* The host pauses less than the 5 s between two attempts of OP_BEGIN and
\* OP_DATA, and more while it waits 8 s for a lost reply to OP_END.
HostSilent ==
  /\ host["usb"].pc \notin {"begin", "data"}
  /\ host["usb"].pc = "end" => replies["usb"] = <<>>

UsbIdleAbort ==
  /\ bulk["usb"] # None
  /\ wait["usb"] = "no" /\ ops["usb"] = <<>>
  /\ HostSilent
  /\ Abandon("usb")
  /\ UNCHANGED <<clientVars, session, callVars, holder, signal, asked, wioVars, toEsp, faultVars>>

\* The events arm sees the disconnect; the next session starts afresh.
SessionEnds ==
  /\ ~session
  /\ wait["ble"] = "no" /\ ops["ble"] = <<>>
  /\ session' = TRUE
  /\ Abandon("ble")
  /\ UNCHANGED <<clientVars, callVars, holder, signal, asked, wioVars, toEsp, faultVars>>

\* The notifier ends first, and select3 drops the events arm where it stands:
\* the lock guard and the BulkState go, nothing else is done.
NotifierEnds ==
  /\ ~session
  /\ wait["ble"] # "no"
  /\ Fault("cancel")
  /\ session' = TRUE
  /\ Drop("ble")
  /\ holder' = IF holder = "ble" THEN None ELSE holder
  /\ bulk' = [bulk EXCEPT !["ble"] = None]
  /\ ops' = [ops EXCEPT !["ble"] = <<>>]
  /\ UNCHANGED <<host, replies, xferActive, signal, asked, wioVars, linkVars>>

-----------------------------------------------------------------------------
(***************************************************************************)
(* The link.                                                               *)
(***************************************************************************)

\* link_task: an ack overwrites one that nobody has taken.
LinkReceives ==
  /\ toEsp # <<>>
  /\ signal' = Head(toEsp)
  /\ toEsp' = Tail(toEsp)
  /\ UNCHANGED <<clientVars, session, bulk, callVars, xferActive, holder, asked,
                 wioVars, toWio, faultVars>>

LoseFrame ==
  /\ toWio # <<>>
  /\ Fault("uart_out")
  /\ toWio' = Tail(toWio)
  /\ UNCHANGED <<clientVars, espVars, wioVars, toEsp>>

LoseAck ==
  /\ toEsp # <<>>
  /\ Fault("uart_in")
  /\ toEsp' = Tail(toEsp)
  /\ UNCHANGED <<clientVars, espVars, wioVars, toWio>>

-----------------------------------------------------------------------------
(***************************************************************************)
(* The WIO, one frame at a time.                                           *)
(***************************************************************************)
Gets(kind, step) ==
  /\ toWio # <<>> /\ Head(toWio).cmd = <<kind, step>>
  /\ toWio' = Tail(toWio)
  /\ UNCHANGED <<clientVars, espVars>>

Answer(ok, value) == toEsp' = Append(toEsp, [ok |-> ok, cmd |-> Head(toWio).cmd, value |-> value])

Arg == Head(toWio).arg

SetRx(kind, state) == rx' = [rx EXCEPT ![kind] = state]

WioBegin(kind) ==
  /\ Gets(kind, "begin")
  /\ IF Arg.shape = "oversize"
     THEN Answer(FALSE, 0) /\ UNCHANGED rx
     ELSE Answer(TRUE, 0) /\ SetRx(kind, [item |-> Arg, next |-> 0, got |-> <<>>])
  /\ UNCHANGED <<busy, committed, faultVars>>

Expected(kind) == rx[kind] # None /\ Arg.seq = rx[kind].next /\ Len(rx[kind].got) < Chunks

WioData(kind) ==
  /\ Gets(kind, "data")
  /\ \/ /\ Expected(kind)
        /\ SetRx(kind, [rx[kind] EXCEPT !.next = @ + 1, !.got = Append(@, <<Arg.item, Arg.chunk>>)])
        /\ Answer(TRUE, rx[kind].next + 1)
     \/ /\ rx[kind] # None /\ Arg.seq + 1 = rx[kind].next
        /\ Answer(TRUE, rx[kind].next)
        /\ UNCHANGED rx
     \/ /\ rx[kind] # None => Arg.seq \notin {rx[kind].next, rx[kind].next - 1}
        /\ Answer(FALSE, 0)
        /\ UNCHANGED rx
     \/ /\ rx[kind] # None /\ Arg.seq = rx[kind].next /\ Len(rx[kind].got) = Chunks
        /\ SetRx(kind, None)
        /\ Answer(FALSE, 0)
  /\ UNCHANGED <<busy, committed, faultVars>>

\* A page cannot be erased or programmed, in the middle or at the end.
WioFlashFails ==
  /\ \/ Gets("FIRMWARE", "data") /\ Expected("FIRMWARE")
     \/ Gets("FIRMWARE", "end") /\ rx["FIRMWARE"] # None
  /\ Fault("flash")
  /\ SetRx("FIRMWARE", None)
  /\ Answer(FALSE, 0)
  /\ UNCHANGED <<busy, committed>>

\* The CRC32 in CFG_END is the item's; one that does not parse is refused.
Applicable(got, item) == got = Image(item) /\ item.shape # "unparsable"

WioEndConfig ==
  /\ Gets("TOML", "end")
  /\ SetRx("TOML", None)
  /\ IF rx["TOML"] # None /\ Applicable(rx["TOML"].got, Arg)
     THEN Answer(TRUE, 0) /\ committed' = committed \cup {rx["TOML"].got}
     ELSE Answer(FALSE, 0) /\ UNCHANGED committed
  /\ UNCHANGED <<busy, faultVars>>

\* Mutant: the length only.
VerifiedByLength(state) == Len(state.got) = Chunks

\* The CRC32 to compare with came with FW_BEGIN.
Verified(state) == state.got = Image(state.item)

Rebooted == rx' = [k \in Kinds |-> None] /\ busy' = FALSE

\* Once the swap is requested and the ack has left, the WIO resets.
WioEndFirmware ==
  /\ UNCHANGED <<clientVars, espVars, faultVars>>
  /\ toWio # <<>> /\ Head(toWio).cmd = <<"FIRMWARE", "end">>
  /\ IF rx["FIRMWARE"] # None /\ Verified(rx["FIRMWARE"])
     THEN /\ Answer(TRUE, 0)
          /\ committed' = committed \cup {rx["FIRMWARE"].got}
          /\ Rebooted /\ toWio' = <<>>
     ELSE /\ Answer(FALSE, 0)
          /\ SetRx("FIRMWARE", None)
          /\ toWio' = Tail(toWio)
          /\ UNCHANGED <<busy, committed>>

WioAbort ==
  /\ Gets("FIRMWARE", "abort")
  /\ SetRx("FIRMWARE", None)
  /\ Answer(TRUE, 0)
  /\ UNCHANGED <<busy, committed, faultVars>>

WioPing ==
  /\ Gets("LINK", "ping")
  /\ Answer(TRUE, 1)
  /\ UNCHANGED <<wioVars, faultVars>>

WioBusy ==
  /\ Gets("LINK", "busy")
  /\ busy' = Arg
  /\ UNCHANGED <<rx, committed, toEsp, faultVars>>

WioReset ==
  /\ Fault("reset")
  /\ Rebooted /\ toWio' = <<>>
  /\ UNCHANGED <<clientVars, espVars, committed, toEsp>>

-----------------------------------------------------------------------------
Client(c) == Start(c) \/ BeginAnswered(c) \/ DataAnswered(c) \/ EndAnswered(c) \/ AbortAnswered(c)

Serve(c) == OpBegin(c) \/ OpData(c) \/ OpEnd(c) \/ OpAbort(c)

Wio ==
  \/ \E kind \in Kinds : WioBegin(kind) \/ WioData(kind)
  \/ WioEndConfig \/ WioEndFirmware \/ WioAbort \/ WioPing \/ WioBusy

Next ==
  \/ \E c \in Clients : Client(c) \/ Serve(c) \/ Done(c)
  \/ HostTimeout \/ LoseReply \/ HostVanishes \/ BleLinkLost
  \/ Heartbeat \/ HeartbeatDone
  \/ \E r \in Requesters : TakeLock(r) \/ SkipAck(r)
  \/ UsbIdleAbort \/ SessionEnds \/ NotifierEnds
  \/ LinkReceives \/ LoseFrame \/ LoseAck
  \/ Wio \/ WioFlashFails \/ WioReset

Spec == Init /\ [][Next]_vars

(***************************************************************************)
(* Fairness: the executors poll every ready task, the link delivers,       *)
(* timers fire, and the host program acts on a reply.  A BLE central is    *)
(* somebody else's program: it may fall silent at any point and stay       *)
(* connected.  No client has to start, and no fault has to happen.         *)
(***************************************************************************)
FairSpec ==
  /\ Spec
  /\ WF_vars(BeginAnswered("usb") \/ DataAnswered("usb") \/ EndAnswered("usb") \/ AbortAnswered("usb"))
  /\ \A c \in Clients : WF_vars(Serve(c)) /\ WF_vars(Done(c))
  /\ \A r \in Requesters : WF_vars(TakeLock(r)) /\ WF_vars(SkipAck(r))
  /\ WF_vars(HostTimeout) /\ WF_vars(HeartbeatDone)
  /\ WF_vars(UsbIdleAbort) /\ WF_vars(SessionEnds)
  /\ WF_vars(LinkReceives) /\ WF_vars(Wio)

-----------------------------------------------------------------------------
\* Every variable has a value of its type in the code.
TypeOK ==
  /\ \A c \in Clients :
       /\ host[c].pc \in Steps \cup {"idle", "ok", "failed", "gone"}
       /\ host[c].seq \in 0..Chunks /\ host[c].sent \in 0..Chunks
       /\ host[c].tries \in 0..Attempts
       /\ bulk[c] # None => bulk[c] \in BulkState
       /\ wait[c] # "no" => request[c].cmd \in {Kind[c]} \X Steps
  /\ holder \in Requesters \cup {None}
  /\ session \in BOOLEAN /\ xferActive \in BOOLEAN /\ busy \in BOOLEAN
  /\ Len(toWio) <= LinkRoom
  /\ \A kind \in Kinds : rx[kind] # None =>
       rx[kind].next \in 0..Chunks /\ Len(rx[kind].got) <= Chunks

\* A client claims the link from its OP_BEGIN on, before the WIO has agreed.
Beginning(c) == wait[c] # "no" /\ request[c].cmd[2] = "begin"
Claims(c) == bulk[c] # None \/ Beginning(c)

\* handle_bulk: at most one client is in a transfer, FW_XFER_ACTIVE is set
\* meanwhile, and a request for a chunk or the end belongs to its transfer.
OneOwner ==
  \A c \in Clients :
    /\ Claims(c) => xferActive /\ \A d \in Clients \ {c} : ~Claims(d)
    /\ wait[c] # "no" /\ ~Beginning(c) => bulk[c] # None

\* LINK_LOCK: only the task that holds it waits for the ACK_SIGNAL.
LockHeld == \A r \in Requesters : wait[r] = "answer" => holder = r

\* wio_request: "so a concurrent caller cannot consume this call's ACK": an
\* answer leaves the signal to the task that waits for it, or to a newer ack.
AnswerReachesCaller ==
  [][\A r \in Requesters :
       (wait[r] = "answer" /\ signal # None /\ signal.cmd = request[r].cmd /\ signal' # signal)
         => wait'[r] = "no" \/ LinkReceives]_vars

\* FwUpdate::end, CfgTransfer::end: whatever is lost, late or repeated, what
\* the WIO installs or applies is one image, complete and in order, whose
\* client has asked for it with an OP_END.  An image of a single chunk, which
\* no real one is, is open to the late acks of an earlier transfer.
CommitsWhatWasAsked == \A got \in committed : \E item \in asked : got = Image(item)

\* No wio_request was given up while its answer was still to come.
AnswersInTime == met \cap {"slow", "cancel"} = {}

\* As long as no answer comes late, the ESP and the WIO agree on the next
\* chunk between two operations, and no chunk is counted twice, whatever is
\* lost, refused or reset on the way and whatever the host repeats.
InStep ==
  AnswersInTime =>
  \A c \in Clients : bulk[c] # None /\ wait[c] = "no" =>
    /\ bulk[c].received = bulk[c].next
    /\ rx[Kind[c]] # None => rx[Kind[c]].next = bulk[c].next /\ Len(rx[Kind[c]].got) = bulk[c].next

\* gatt_session: "make sure a dangling transfer does not leave the WIO waiting
\* or the busy flag set": once no transfer is active and the link is drained,
\* the WIO receives no firmware and its radio is not held back.
NothingDangling ==
  ~xferActive /\ toWio = <<>> => rx["FIRMWARE"] = None /\ ~busy

\* Only clients went away and only replies to the host were lost.
OnlyClientsFailed == met \subseteq {"begin_ack", "usb_ack", "vanish", "drop"}

\* The same as long as only clients failed, whatever one was in the middle of.
ClientsLeaveNothing == OnlyClientsFailed => NothingDangling

\* A ping, the busy flag of a begun transfer and the two frames that abandon it
\* can be under way together; OUT_CHANNEL alone holds eight frames.
LinkHoldsAll == LinkRoom >= 4

\* Fewer replies of a kind than there are attempts were lost, and nothing else went wrong.
FewRepliesLost(kind) == met \subseteq {kind} /\ faults < Attempts

GoodImageFails ==
  /\ host["usb"].pc \in {"abort", "failed"} /\ host["usb"].item.shape = "good"
  /\ host["ble"].pc = "idle"

\* bulk_op_retry: "Retrying is safe: the ESP and WIO both de-duplicate by
\* sequence number": lost replies to OP_DATA and OP_END fail no good image
\* while no other client uses the link.
RetriesSucceed == FewRepliesLost("usb_ack") => ~GoodImageFails

\* send_end: "the work is committed, so treat as success".  It holds for images
\* the WIO accepts; a refusal whose reply is lost is taken for success.
SuccessMeansCommitted ==
  \A c \in Clients : host[c].pc = "ok" => Image(host[c].item) \in committed

\* The ESP has answered all of a connected central and is in a transfer with it.
CentralOwes == bulk["ble"] # None /\ session /\ wait["ble"] = "no" /\ ops["ble"] = <<>>

\* usb_task: "a host that vanished cannot wedge the shared transfer guard
\* forever": the link that a client has claimed becomes free again, unless a
\* central that stays connected never says another word.
LinkFreed == <>[]CentralOwes \/ (xferActive ~> ~xferActive)

\* Whatever it meets on the way, send_bulk ends, and every operation that the
\* ESP receives, of a central also, is answered.
ClientsFinish ==
  /\ host["usb"].pc \in Steps ~> host["usb"].pc \notin Steps
  /\ \A c \in Clients : ReplyComing(c) ~> ~ReplyComing(c)
=============================================================================
