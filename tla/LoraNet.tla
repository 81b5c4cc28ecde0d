------------------------------ MODULE LoraNet ------------------------------
(***************************************************************************)
(* The broadcast network of wio/src/node.rs: nodes that beacon, receive,   *)
(* drop duplicates and repeat, the radio each of them owns, and the air.   *)
(*                                                                         *)
(* Time passes in ticks.  A pass of a node's loop takes none, so a tick    *)
(* waits for the packets and the overdue repeats of every running node.    *)
(* Which listeners in range receive a transmission is open: packets are    *)
(* lost to collisions, a bad CRC or a receiver that is sending itself.     *)
(* Disturbances (a reset, a new configuration, a soft sleep, a firmware    *)
(* transfer) are counted, at most MaxDisturbances of the listed kinds.     *)
(***************************************************************************)
EXTENDS Integers, FiniteSets

CONSTANTS
  Nodes, None,
  Addresses,                \* the addresses in use, 1 to 255
  Address, Role, MaxHops,   \* configuration of each node at the start
  Configs,                  \* configurations that may be pushed
  InRange,                  \* per node: the nodes that may hear it
  MaxFrames,                \* broadcasts a node makes
  Ids,                      \* frame ids before they wrap, 256
  Ttl,                      \* ticks of seen_ttl_ms
  SeenSlots, RepeatSlots,
  Jitter,                   \* ticks of jitter_ms
  Hold,                     \* ticks the ESP's radio may hold a due repeat back
  Interval,                 \* per node: ticks of beacon_interval_s; 0 switches it off
  BeaconJitter,             \* ticks of random delay of a beacon
  Disturbances, MaxDisturbances

Roles == {"leaf", "repeater", "tx_only", "rx_only"}
Config == [address : Addresses, role : Roles, hops : 0..8]
Keys == Nodes \X (1..MaxFrames)      \* a broadcast: who made it, its number
Pairs == Addresses \X (0..Ids - 1)    \* what identifies it on the air
Slots == 1..RepeatSlots

ASSUME BoundsAssumption ==
  /\ {Ids, Ttl, SeenSlots, RepeatSlots} \subseteq Nat \ {0}
  /\ {MaxFrames, Jitter, Hold, BeaconJitter, MaxDisturbances} \subseteq Nat
ASSUME ConfigAssumption ==
  /\ Addresses \subseteq 1..255
  /\ Address \in [Nodes -> Addresses] /\ Role \in [Nodes -> Roles] /\ MaxHops \in [Nodes -> 0..8]
  /\ Configs \subseteq Config
  /\ InRange \in [Nodes -> SUBSET Nodes] /\ Interval \in [Nodes -> Nat]
  /\ Disturbances \subseteq {"reset", "config", "sleep", "transfer"}

\* A frame on its way: its header, which broadcast it is, how many
\* nodes have repeated it and how long ago it was made.
Copy == [key : Keys, src : Addresses, id : 0..Ids - 1, hops : 0..8, relays : Nat, age : 0..Ttl]
ASSUME NoneAssumption == None \notin Copy

VARIABLES
  address, role, maxHops,  \* RadioConfig of each node
  made,                    \* broadcasts each node has made
  nextId,                  \* next_id
  beacon,                  \* ticks to next_beacon
  seen,                    \* per node and pair: ticks since at_ms; Ttl: not remembered
  repeats, due,            \* per node and slot: the frame, and ticks to due_ms
  radio,                   \* per node: the packet the receiver holds
  mode,                    \* what the loop of each node does
  accepted, forwarded,     \* history: how often a node took, sent on, a broadcast
  missed,                  \* history: a broadcast was dropped for a duplicate of another
  late,                    \* history: a copy was under way for Ttl
  forgot,                  \* history: a node lost an entry before its time
  disturbed                \* disturbances so far

confVars == <<address, role, maxHops>>
sendVars == <<made, nextId, beacon>>
countVars == <<accepted, forwarded, missed>>
lapseVars == <<late, forgot, disturbed>>
vars == <<confVars, sendVars, seen, repeats, due, radio, mode, countVars, lapseVars>>

Transmits(r) == r # "rx_only"
Receives(r) == r # "tx_only"

Init ==
  /\ address = Address /\ role = Role /\ maxHops = MaxHops
  /\ made = [n \in Nodes |-> 0]
  /\ nextId = [n \in Nodes |-> 0]
  /\ beacon = [n \in Nodes |-> Address[n] + 2]
  /\ seen = [n \in Nodes |-> [p \in Pairs |-> Ttl]]
  /\ repeats = [n \in Nodes |-> [s \in Slots |-> None]]
  /\ due = [n \in Nodes |-> [s \in Slots |-> 0]]
  /\ radio = [n \in Nodes |-> None]
  /\ mode = [n \in Nodes |-> "run"]
  /\ accepted = [n \in Nodes |-> [k \in Keys |-> 0]]
  /\ forwarded = [n \in Nodes |-> [k \in Keys |-> 0]]
  /\ missed = FALSE
  /\ late = FALSE /\ forgot = FALSE
  /\ disturbed = 0

-----------------------------------------------------------------------------
(***************************************************************************)
(* The radio: a transmission clears what the sender's receiver holds; a    *)
(* packet overwrites one that has not been read.                           *)
(***************************************************************************)
Listeners(n) == {m \in InRange[n] \ {n} : mode[m] # "sleep" /\ Receives(role[m])}

OnAir(n, copy) ==
  \E heard \in SUBSET Listeners(n) :
    radio' = [m \in Nodes |-> IF m \in heard THEN copy
                              ELSE IF m = n THEN None ELSE radio[m]]

\* Mutants: the id does not wrap; the id is not claimed.
IdUnbounded(id) == id + 1
SameId(id) == id

AfterId(id) == (id + 1) % Ids

\* A node beacons when its interval is over and it has a fix and its ESP is
\* off the air, which it may have to wait for.  The id is used up even when the
\* radio fails.
Broadcast(n) ==
  /\ mode[n] = "run" /\ Transmits(role[n])
  /\ Interval[n] # 0 /\ beacon[n] = 0 /\ made[n] < MaxFrames
  /\ OnAir(n, [key |-> <<n, made[n] + 1>>, src |-> address[n], id |-> nextId[n],
               hops |-> maxHops[n], relays |-> 0, age |-> 0])
  /\ made' = [made EXCEPT ![n] = @ + 1]
  /\ nextId' = [nextId EXCEPT ![n] = AfterId(@)]
  /\ \E jitter \in 0..BeaconJitter : beacon' = [beacon EXCEPT ![n] = Interval[n] + jitter]
  /\ UNCHANGED <<confVars, seen, repeats, due, mode, countVars, lapseVars>>

-----------------------------------------------------------------------------
(***************************************************************************)
(* Node::poll.                                                             *)
(***************************************************************************)

Known(n, pair) == seen[n][pair] < Ttl

Live(n) == {p \in Pairs : Known(n, p)}

Oldest(n) == {p \in Live(n) : \A q \in Live(n) : seen[n][q] <= seen[n][p]}

\* Mutant: a duplicate does not count as heard.
RefreshNothing(n, pair) == UNCHANGED <<seen, forgot>>

\* mark_seen: a duplicate starts its window anew.
Refresh(n, pair) ==
  /\ seen' = [seen EXCEPT ![n] = [@ EXCEPT ![pair] = 0]]
  /\ UNCHANGED forgot

\* A new pair takes a free slot, or that of an entry heard longest ago.
Remember(n, pair) ==
  IF Cardinality(Live(n)) < SeenSlots THEN Refresh(n, pair)
  ELSE /\ \E p \in Oldest(n) :
            seen' = [seen EXCEPT ![n] = [[@ EXCEPT ![p] = Ttl] EXCEPT ![pair] = 0]]
       /\ forgot' = TRUE

Free(n) == {s \in Slots : repeats[n][s] = None}
First(s, slots) == s \in slots /\ \A t \in slots : s <= t

\* Mutant: the hop count travels unchanged.
OnwardSameHops(copy) == [copy EXCEPT !.relays = @ + 1]

Onward(copy) == [[copy EXCEPT !.hops = @ - 1] EXCEPT !.relays = @ + 1]

\* queue_repeat: a repeater with no free slot drops the frame.
Queue(n, copy) ==
  IF role[n] = "repeater" /\ copy.hops > 0 /\ Free(n) # {}
  THEN \E s \in Slots, wait \in 0..Jitter :
         /\ First(s, Free(n))
         /\ repeats' = [repeats EXCEPT ![n] = [@ EXCEPT ![s] = Onward(copy)]]
         /\ due' = [due EXCEPT ![n] = [@ EXCEPT ![s] = wait]]
  ELSE UNCHANGED <<repeats, due>>

\* Mutant: a node takes its own broadcast for another's.
NeverEcho(n, copy) == FALSE

\* Only a node that transmits drops what carries its address.
Echo(n, copy) == Transmits(role[n]) /\ copy.src = address[n]

Takes(n) == mode[n] = "run" /\ radio[n] # None /\ radio' = [radio EXCEPT ![n] = None]

DropEcho(n) ==
  /\ Takes(n) /\ Echo(n, radio[n])
  /\ UNCHANGED <<confVars, sendVars, seen, repeats, due, mode, countVars, lapseVars>>

DropDuplicate(n) ==
  LET copy == radio[n] IN
  /\ Takes(n) /\ ~Echo(n, copy) /\ Known(n, <<copy.src, copy.id>>)
  /\ Refresh(n, <<copy.src, copy.id>>)
  /\ missed' = (missed \/ accepted[n][copy.key] = 0)
  /\ UNCHANGED <<confVars, sendVars, repeats, due, mode, accepted, forwarded, late, disturbed>>

Accept(n) ==
  LET copy == radio[n] IN
  /\ Takes(n) /\ ~Echo(n, copy) /\ ~Known(n, <<copy.src, copy.id>>)
  /\ Remember(n, <<copy.src, copy.id>>)
  /\ Queue(n, copy)
  /\ accepted' = [accepted EXCEPT ![n][copy.key] = @ + 1]
  /\ UNCHANGED <<confVars, sendVars, mode, forwarded, missed, late, disturbed>>

-----------------------------------------------------------------------------
(***************************************************************************)
(* send_due_repeat, once the ESP is off the air.                           *)
(***************************************************************************)
Due(n) == {s \in Slots : repeats[n][s] # None /\ due[n][s] <= 0}

\* Mutant: the slot is kept.
KeepSlot(n, s) == UNCHANGED repeats

\* The slot is released whether the radio succeeds or not.
ReleaseSlot(n, s) == repeats' = [repeats EXCEPT ![n] = [@ EXCEPT ![s] = None]]

SendRepeat(n) ==
  /\ mode[n] = "run"
  /\ \E s \in Slots :
       /\ First(s, Due(n))
       /\ OnAir(n, repeats[n][s])
       /\ ReleaseSlot(n, s)
       /\ forwarded' = [forwarded EXCEPT ![n][repeats[n][s].key] = @ + 1]
  /\ UNCHANGED <<confVars, sendVars, seen, due, mode, accepted, missed, lapseVars>>

-----------------------------------------------------------------------------
(***************************************************************************)
(* Time.                                                                   *)
(***************************************************************************)
Older(age) == IF age < Ttl THEN age + 1 ELSE Ttl
Aged(copy) == IF copy = None THEN None ELSE [copy EXCEPT !.age = Older(copy.age)]
Sooner(t) == IF t > -Hold THEN t - 1 ELSE t

\* A running node has read its radio, and sends a due repeat before it has held
\* it back for Hold ticks.
Idle(n) ==
  mode[n] = "run" =>
    /\ radio[n] = None
    /\ \A s \in Slots : repeats[n][s] # None => due[n][s] > -Hold

Tick ==
  /\ \A n \in Nodes : Idle(n)
  /\ seen' = [n \in Nodes |-> [p \in Pairs |-> Older(seen[n][p])]]
  /\ repeats' = [n \in Nodes |-> [s \in Slots |-> Aged(repeats[n][s])]]
  /\ due' = [n \in Nodes |-> [s \in Slots |-> Sooner(due[n][s])]]
  /\ radio' = [n \in Nodes |-> Aged(radio[n])]
  /\ beacon' = [n \in Nodes |-> IF beacon[n] > 0 THEN beacon[n] - 1 ELSE 0]
  /\ late' = (late \/ \E n \in Nodes :
                        \/ radio[n] # None /\ Older(radio[n].age) = Ttl
                        \/ \E s \in Slots : repeats[n][s] # None /\ Older(repeats[n][s].age) = Ttl)
  /\ UNCHANGED <<confVars, made, nextId, mode, countVars, forgot, disturbed>>

-----------------------------------------------------------------------------
(***************************************************************************)
(* What happens to a node from outside.                                    *)
(***************************************************************************)
Disturb(kind) ==
  /\ kind \in Disturbances /\ disturbed < MaxDisturbances
  /\ disturbed' = disturbed + 1

Forgets(n) ==
  /\ seen' = [seen EXCEPT ![n] = [p \in Pairs |-> Ttl]]
  /\ repeats' = [repeats EXCEPT ![n] = [s \in Slots |-> None]]
  /\ radio' = [radio EXCEPT ![n] = None]
  /\ forgot' = TRUE

\* init: the first beacon comes an address-dependent while after the start.
Reset(n) ==
  /\ Disturb("reset")
  /\ Forgets(n)
  /\ nextId' = [nextId EXCEPT ![n] = 0]
  /\ beacon' = [beacon EXCEPT ![n] = address[n] + 2]
  /\ mode' = [mode EXCEPT ![n] = "run"]
  /\ UNCHANGED <<confVars, made, due, countVars, late>>

\* CFG_END, which no firmware transfer lets through: the radio is initialised again and the node reconfigured.
Reconfigure(n) ==
  /\ Disturb("config")
  /\ mode[n] # "transfer"
  /\ \E c \in Configs :
       /\ address' = [address EXCEPT ![n] = c.address]
       /\ role' = [role EXCEPT ![n] = c.role]
       /\ maxHops' = [maxHops EXCEPT ![n] = c.hops]
  /\ Forgets(n)
  /\ UNCHANGED <<sendVars, due, mode, countVars, late>>

\* WIO_SLEEP 1 puts the radio into standby; 0 initialises it.
FallAsleep(n) ==
  /\ Disturb("sleep") /\ mode[n] = "run"
  /\ mode' = [mode EXCEPT ![n] = "sleep"]
  /\ radio' = [radio EXCEPT ![n] = None]
  /\ UNCHANGED <<confVars, sendVars, seen, repeats, due, countVars, late, forgot>>

WakeUp(n) ==
  /\ mode[n] = "sleep"
  /\ mode' = [mode EXCEPT ![n] = "run"]
  /\ UNCHANGED <<confVars, sendVars, seen, repeats, due, radio, countVars, lapseVars>>

\* A firmware transfer keeps the loop from the radio, which goes on receiving.
TransferBegins(n) ==
  /\ Disturb("transfer") /\ mode[n] = "run"
  /\ mode' = [mode EXCEPT ![n] = "transfer"]
  /\ UNCHANGED <<confVars, sendVars, seen, repeats, due, radio, countVars, late, forgot>>

TransferEnds(n) ==
  /\ mode[n] = "transfer"
  /\ mode' = [mode EXCEPT ![n] = "run"]
  /\ UNCHANGED <<confVars, sendVars, seen, repeats, due, radio, countVars, lapseVars>>

Step(n) ==
  \/ Broadcast(n) \/ DropEcho(n) \/ DropDuplicate(n) \/ Accept(n) \/ SendRepeat(n)
  \/ Reset(n) \/ Reconfigure(n) \/ FallAsleep(n) \/ WakeUp(n)
  \/ TransferBegins(n) \/ TransferEnds(n)

Next == Tick \/ \E n \in Nodes : Step(n)

Spec == Init /\ [][Next]_vars

-----------------------------------------------------------------------------
\* Every variable has a value of its type in the code; a slot's delay is that
\* of its jitter or overdue by at most Hold.
TypeOK ==
  /\ address \in [Nodes -> Addresses] /\ role \in [Nodes -> Roles] /\ maxHops \in [Nodes -> 0..8]
  /\ made \in [Nodes -> 0..MaxFrames]
  /\ nextId \in [Nodes -> 0..Ids - 1]
  /\ beacon \in [Nodes -> Nat]
  /\ seen \in [Nodes -> [Pairs -> 0..Ttl]]
  /\ repeats \in [Nodes -> [Slots -> Copy \cup {None}]]
  /\ due \in [Nodes -> [Slots -> -Hold..Jitter]]
  /\ radio \in [Nodes -> Copy \cup {None}]
  /\ mode \in [Nodes -> {"run", "sleep", "transfer"}]
  /\ accepted \in [Nodes -> [Keys -> Nat]]
  /\ forwarded \in [Nodes -> [Keys -> Nat]]
  /\ missed \in BOOLEAN /\ late \in BOOLEAN /\ forgot \in BOOLEAN

\* The condition dedup_ttl_s has to be chosen for: every copy of a broadcast is
\* gone before a node may forget it, and no node forgets earlier.
InTime == ~late /\ ~forgot

\* RadioConfig::dedup_ttl_s: "A frame seen again inside this window is neither
\* delivered again nor repeated again": however the copies travel, a node takes
\* a broadcast at most once, sends it on at most once, and never takes its own.
HandledOnce ==
  InTime => \A n \in Nodes, k \in Keys :
    /\ accepted[n][k] <= 1 /\ forwarded[n][k] <= accepted[n][k]
    /\ k[1] = n => accepted[n][k] = 0

\* RadioConfig::max_hops: "Retransmissions allowed for a broadcast this node
\* originates", whatever has been forgotten or held up on the way.
Underway == (UNION {{radio[n]} \cup {repeats[n][s] : s \in Slots} : n \in Nodes}) \ {None}
HopsEnough(n) == {MaxHops[n]} \cup {conf.hops : conf \in Configs}
HopBudget == \A copy \in Underway : \E hops \in HopsEnough(copy.key[1]) : copy.relays <= hops

\* RadioConfig::dedup_ttl_s: "has to stay well under the time that takes at the
\* beacon interval in use": when the ids of a sender take two windows to wrap,
\* no new broadcast is taken for an earlier one, whatever refreshed its entry.
FreshFramesPass == InTime => ~missed

\* What it takes: no two nodes share an address, and a sender needs two
\* windows for all its ids.
AddressesDistinct == \A m, n \in Nodes : Address[m] = Address[n] => m = n
IdsOutlastWindows == \A n \in Nodes : Interval[n] # 0 => Ids * Interval[n] >= 2 * Ttl - 1
=============================================================================
