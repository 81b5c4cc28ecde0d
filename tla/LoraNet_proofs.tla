--------------------------- MODULE LoraNet_proofs ---------------------------
(***************************************************************************)
(* LoraNet for every set of nodes, every range, window, jitter, number of  *)
(* slots and disturbances: types, that a broadcast is handled once, that   *)
(* it is repeated no more often than its hop count allows, and that it is  *)
(* not taken for an earlier one.                                           *)
(***************************************************************************)
EXTENDS LoraNet, TLAPS

LEMMA AddressRange == \A x \in Addresses : x + 2 \in Nat
<1>1. \A x \in Addresses : x \in 1..255
  BY ConfigAssumption, Zenon
<1> QED
  BY <1>1

USE BoundsAssumption, ConfigAssumption, NoneAssumption

-----------------------------------------------------------------------------
(***************************************************************************)
(* Types.                                                                  *)
(***************************************************************************)
LEMMA AirTyped ==
  ASSUME TypeOK, NEW n \in Nodes, NEW copy \in Copy, OnAir(n, copy)
  PROVE  radio' \in [Nodes -> Copy \cup {None}]
BY DEF TypeOK, OnAir

\* The pair of a copy is one a seen table is indexed by.
LEMMA PairTyped ==
  ASSUME NEW copy \in Copy
  PROVE  <<copy.src, copy.id>> \in Pairs
BY DEF Copy, Pairs

LEMMA OnwardTyped ==
  ASSUME NEW copy \in Copy, copy.hops > 0
  PROVE  /\ Onward(copy) \in Copy
         /\ Onward(copy).key = copy.key /\ Onward(copy).src = copy.src
         /\ Onward(copy).id = copy.id /\ Onward(copy).age = copy.age
<1>1. copy.hops - 1 \in 0..8 /\ copy.relays + 1 \in Nat
  BY DEF Copy
<1>2. [copy EXCEPT !.hops = copy.hops - 1] \in Copy
  BY <1>1 DEF Copy
<1> QED
  BY <1>1, <1>2 DEF Copy, Onward

LEMMA AgedTyped ==
  ASSUME NEW copy \in Copy
  PROVE  /\ Aged(copy) \in Copy
         /\ Aged(copy).key = copy.key /\ Aged(copy).src = copy.src
         /\ Aged(copy).id = copy.id /\ Aged(copy).age = Older(copy.age)
BY DEF Copy, Aged, Older

LEMMA RefreshTyped ==
  ASSUME TypeOK, NEW n \in Nodes, NEW pair \in Pairs, Refresh(n, pair)
  PROVE  /\ seen' \in [Nodes -> [Pairs -> 0..Ttl]] /\ forgot' \in BOOLEAN
         /\ forgot' = forgot
         /\ seen'[n][pair] = 0
         /\ \A m \in Nodes, p \in Pairs : seen'[m][p] <= seen[m][p]
BY DEF TypeOK, Refresh

LEMMA RememberTyped ==
  ASSUME TypeOK, NEW n \in Nodes, NEW pair \in Pairs, Remember(n, pair)
  PROVE  /\ seen' \in [Nodes -> [Pairs -> 0..Ttl]] /\ forgot' \in BOOLEAN
         /\ seen'[n][pair] = 0
         /\ forgot => forgot'
         /\ ~forgot' => \A m \in Nodes, p \in Pairs : seen'[m][p] <= seen[m][p]
<1>1. CASE Cardinality(Live(n)) < SeenSlots
  BY <1>1, RefreshTyped DEF Remember
<1>2. CASE ~(Cardinality(Live(n)) < SeenSlots)
  <2>1. PICK p \in Oldest(n) : seen' = [seen EXCEPT ![n] = [[@ EXCEPT ![p] = Ttl] EXCEPT ![pair] = 0]]
    BY <1>2 DEF Remember
  <2>2. p \in Pairs
    BY <2>1 DEF Oldest, Live
  <2>3. forgot' = TRUE
    BY <1>2 DEF Remember
  <2>4. seen' \in [Nodes -> [Pairs -> 0..Ttl]] /\ seen'[n][pair] = 0
    <3>1. seen \in [Nodes -> [Pairs -> 0..Ttl]]
      BY DEF TypeOK
    <3>2. [seen[n] EXCEPT ![p] = Ttl] \in [Pairs -> 0..Ttl]
      BY <2>2, <3>1
    <3>3. [[seen[n] EXCEPT ![p] = Ttl] EXCEPT ![pair] = 0] \in [Pairs -> 0..Ttl]
      BY <3>2
    <3>4. [[seen[n] EXCEPT ![p] = Ttl] EXCEPT ![pair] = 0][pair] = 0
      BY <3>2
    <3> QED
      BY <2>1, <3>1, <3>3, <3>4
  <2> QED
    BY <2>3, <2>4
<1> QED
  BY <1>1, <1>2

LEMMA QueueTyped ==
  ASSUME TypeOK, NEW n \in Nodes, NEW copy \in Copy, Queue(n, copy)
  PROVE  /\ repeats' \in [Nodes -> [Slots -> Copy \cup {None}]]
         /\ due' \in [Nodes -> [Slots -> -Hold..Jitter]]
<1>1. CASE role[n] = "repeater" /\ copy.hops > 0 /\ Free(n) # {}
  <2>1. PICK s \in Slots, wait \in 0..Jitter :
          /\ repeats' = [repeats EXCEPT ![n] = [@ EXCEPT ![s] = Onward(copy)]]
          /\ due' = [due EXCEPT ![n] = [@ EXCEPT ![s] = wait]]
    BY <1>1 DEF Queue
  <2>2. Onward(copy) \in Copy
    BY <1>1, OnwardTyped
  <2>3. wait \in -Hold..Jitter
    OBVIOUS
  <2> QED
    BY <2>1, <2>2, <2>3 DEF TypeOK
<1>2. CASE ~(role[n] = "repeater" /\ copy.hops > 0 /\ Free(n) # {})
  BY <1>2 DEF Queue, TypeOK
<1> QED
  BY <1>1, <1>2

LEMMA TypeInit == Init => TypeOK
<1> SUFFICES ASSUME Init PROVE TypeOK
  OBVIOUS
<1>1. made \in [Nodes -> 0..MaxFrames] /\ nextId \in [Nodes -> 0..Ids - 1]
  BY DEF Init
<1>2. beacon \in [Nodes -> Nat]
  BY AddressRange DEF Init
<1>3. seen \in [Nodes -> [Pairs -> 0..Ttl]]
  BY DEF Init
<1>4. due \in [Nodes -> [Slots -> -Hold..Jitter]]
  <2>1. 0 \in -Hold..Jitter
    OBVIOUS
  <2> QED
    BY <2>1 DEF Init
<1> QED
  BY <1>1, <1>2, <1>3, <1>4 DEF Init, TypeOK

LEMMA TypeBroadcast ==
  ASSUME TypeOK, NEW n \in Nodes, Broadcast(n)
  PROVE  TypeOK'
<1>1. [key |-> <<n, made[n] + 1>>, src |-> address[n], id |-> nextId[n],
       hops |-> maxHops[n], relays |-> 0, age |-> 0] \in Copy
  BY DEF TypeOK, Broadcast, Copy, Keys
<1>2. radio' \in [Nodes -> Copy \cup {None}]
  BY <1>1, AirTyped DEF Broadcast
<1>3. made' \in [Nodes -> 0..MaxFrames]
  BY DEF TypeOK, Broadcast
<1>4. \A id \in 0..Ids - 1 : AfterId(id) \in 0..Ids - 1
  BY DEF AfterId
<1>5. nextId' \in [Nodes -> 0..Ids - 1]
  BY <1>4 DEF TypeOK, Broadcast
<1>6. beacon' \in [Nodes -> Nat]
  BY DEF TypeOK, Broadcast
<1> QED
  BY <1>2, <1>3, <1>5, <1>6 DEF TypeOK, Broadcast, confVars, countVars, lapseVars

LEMMA RadioTyped ==
  ASSUME TypeOK, NEW n \in Nodes, Takes(n)
  PROVE  /\ radio[n] \in Copy /\ radio[n].key \in Keys
         /\ radio' \in [Nodes -> Copy \cup {None}]
BY DEF TypeOK, Takes, Copy

LEMMA TypePoll ==
  ASSUME TypeOK, NEW n \in Nodes, DropEcho(n) \/ DropDuplicate(n) \/ Accept(n)
  PROVE  TypeOK'
<1>1. Takes(n)
  BY DEF DropEcho, DropDuplicate, Accept
<1>2. <<radio[n].src, radio[n].id>> \in Pairs
  BY <1>1, RadioTyped, PairTyped
<1>3. CASE DropEcho(n)
  BY <1>1, <1>3, RadioTyped DEF TypeOK, DropEcho, confVars, sendVars, countVars, lapseVars
<1>4. CASE DropDuplicate(n)
  <2>1. Refresh(n, <<radio[n].src, radio[n].id>>)
    BY <1>4 DEF DropDuplicate
  <2>2. missed' \in BOOLEAN
    BY <1>4 DEF DropDuplicate
  <2> QED
    BY <1>1, <1>2, <1>4, <2>1, <2>2, RadioTyped, RefreshTyped
       DEF TypeOK, DropDuplicate, confVars, sendVars
<1>5. CASE Accept(n)
  <2>1. Remember(n, <<radio[n].src, radio[n].id>>) /\ Queue(n, radio[n])
    BY <1>5 DEF Accept
  <2>2. accepted' \in [Nodes -> [Keys -> Nat]]
    <3>1. radio[n].key \in Keys /\ accepted[n][radio[n].key] + 1 \in Nat
      BY <1>1, RadioTyped DEF TypeOK
    <3>2. accepted \in [Nodes -> [Keys -> Nat]]
      BY DEF TypeOK
    <3>3. accepted' = [accepted EXCEPT ![n] = [accepted[n] EXCEPT ![radio[n].key] =
                                                 accepted[n][radio[n].key] + 1]]
      BY <1>5 DEF Accept
    <3>4. [accepted[n] EXCEPT ![radio[n].key] = accepted[n][radio[n].key] + 1] \in [Keys -> Nat]
      BY <3>1, <3>2
    <3> QED
      BY <3>2, <3>3, <3>4
  <2> QED
    BY <1>1, <1>2, <1>5, <2>1, <2>2, RadioTyped, RememberTyped, QueueTyped
       DEF TypeOK, Accept, confVars, sendVars
<1> QED
  BY <1>3, <1>4, <1>5

LEMMA TypeSend ==
  ASSUME TypeOK, NEW n \in Nodes, SendRepeat(n)
  PROVE  TypeOK'
<1>1. PICK s \in Slots :
        /\ First(s, Due(n)) /\ OnAir(n, repeats[n][s]) /\ ReleaseSlot(n, s)
        /\ forwarded' = [forwarded EXCEPT ![n][repeats[n][s].key] = @ + 1]
  BY DEF SendRepeat
<1>2. repeats[n][s] \in Copy /\ repeats[n][s].key \in Keys
  BY <1>1 DEF First, Due, TypeOK, Copy
<1>3. radio' \in [Nodes -> Copy \cup {None}]
  BY <1>1, <1>2, AirTyped
<1>4. repeats' \in [Nodes -> [Slots -> Copy \cup {None}]]
  BY <1>1 DEF ReleaseSlot, TypeOK
<1>5. forwarded' \in [Nodes -> [Keys -> Nat]]
  <2>1. forwarded[n][repeats[n][s].key] + 1 \in Nat
    BY <1>2 DEF TypeOK
  <2>2. forwarded \in [Nodes -> [Keys -> Nat]]
    BY DEF TypeOK
  <2>3. [forwarded[n] EXCEPT ![repeats[n][s].key] = forwarded[n][repeats[n][s].key] + 1]
          \in [Keys -> Nat]
    BY <1>2, <2>1, <2>2
  <2> QED
    BY <1>1, <2>2, <2>3
<1> QED
  BY <1>3, <1>4, <1>5 DEF TypeOK, SendRepeat, confVars, sendVars, lapseVars

LEMMA TypeTick ==
  ASSUME TypeOK, Tick
  PROVE  TypeOK'
<1>1. seen' \in [Nodes -> [Pairs -> 0..Ttl]]
  BY DEF TypeOK, Tick, Older
<1>2. \A copy \in Copy \cup {None} : Aged(copy) \in Copy \cup {None}
  BY AgedTyped DEF Aged
<1>3. repeats' \in [Nodes -> [Slots -> Copy \cup {None}]]
  BY <1>2 DEF TypeOK, Tick
<1>4. radio' \in [Nodes -> Copy \cup {None}]
  BY <1>2 DEF TypeOK, Tick
<1>5. due' \in [Nodes -> [Slots -> -Hold..Jitter]]
  BY DEF TypeOK, Tick, Sooner
<1>6. beacon' \in [Nodes -> Nat] /\ late' \in BOOLEAN
  BY DEF TypeOK, Tick
<1> QED
  BY <1>1, <1>3, <1>4, <1>5, <1>6 DEF TypeOK, Tick, confVars, countVars

LEMMA TypeForgets ==
  ASSUME TypeOK, NEW n \in Nodes, Forgets(n)
  PROVE  /\ seen' \in [Nodes -> [Pairs -> 0..Ttl]]
         /\ repeats' \in [Nodes -> [Slots -> Copy \cup {None}]]
         /\ radio' \in [Nodes -> Copy \cup {None}]
         /\ forgot' = TRUE
BY DEF TypeOK, Forgets

LEMMA TypeOutside ==
  ASSUME TypeOK, NEW n \in Nodes,
         Reset(n) \/ Reconfigure(n) \/ FallAsleep(n) \/ WakeUp(n) \/ TransferBegins(n) \/ TransferEnds(n)
  PROVE  TypeOK'
<1>1. CASE Reset(n)
  <2>1. nextId' \in [Nodes -> 0..Ids - 1]
    BY <1>1 DEF Reset, TypeOK
  <2>2. beacon' \in [Nodes -> Nat]
    <3>1. address[n] + 2 \in Nat
      BY AddressRange DEF TypeOK
    <3> QED
      BY <1>1, <3>1 DEF Reset, TypeOK
  <2>3. mode' \in [Nodes -> {"run", "sleep", "transfer"}]
    BY <1>1 DEF Reset, TypeOK
  <2> QED
    BY <1>1, <2>1, <2>2, <2>3, TypeForgets DEF Reset, TypeOK, confVars, countVars
<1>2. CASE Reconfigure(n)
  <2>1. PICK conf \in Config :
          /\ address' = [address EXCEPT ![n] = conf.address]
          /\ role' = [role EXCEPT ![n] = conf.role]
          /\ maxHops' = [maxHops EXCEPT ![n] = conf.hops]
    BY <1>2 DEF Reconfigure
  <2>2. /\ address' \in [Nodes -> Addresses] /\ role' \in [Nodes -> Roles]
        /\ maxHops' \in [Nodes -> 0..8]
    BY <2>1 DEF TypeOK, Config
  <2> QED
    BY <1>2, <2>2, TypeForgets DEF Reconfigure, TypeOK, sendVars, countVars
<1>3. CASE FallAsleep(n)
  BY <1>3 DEF FallAsleep, TypeOK, confVars, sendVars, countVars
<1>4. CASE WakeUp(n)
  BY <1>4 DEF WakeUp, TypeOK, confVars, sendVars, countVars, lapseVars
<1>5. CASE TransferBegins(n)
  BY <1>5 DEF TransferBegins, TypeOK, confVars, sendVars, countVars
<1>6. CASE TransferEnds(n)
  BY <1>6 DEF TransferEnds, TypeOK, confVars, sendVars, countVars, lapseVars
<1> QED
  BY <1>1, <1>2, <1>3, <1>4, <1>5, <1>6

LEMMA TypeNext == TypeOK /\ [Next]_vars => TypeOK'
<1> SUFFICES ASSUME TypeOK, [Next]_vars PROVE TypeOK'
  OBVIOUS
<1>1. CASE Tick
  BY <1>1, TypeTick
<1>2. CASE \E n \in Nodes : Step(n)
  <2>1. PICK n \in Nodes : Step(n)
    BY <1>2
  <2> QED
    BY <2>1, TypeBroadcast, TypePoll, TypeSend, TypeOutside DEF Step
<1>3. CASE UNCHANGED vars
  BY <1>3 DEF TypeOK, vars, confVars, sendVars, countVars, lapseVars
<1> QED
  BY <1>1, <1>2, <1>3 DEF Next

\* The types hold in every reachable state.
THEOREM TypeCorrect == Spec => []TypeOK
BY TypeInit, TypeNext, PTL DEF Spec

-----------------------------------------------------------------------------
(***************************************************************************)
(* A broadcast is handled once.  As long as no copy gets as old as the     *)
(* window and no entry is lost, whoever has taken a broadcast remembers it *)
(* for longer than any copy has been under way: the entry is never older   *)
(* than a copy, and ages with it.                                          *)
(***************************************************************************)
Flying(copy) ==
  \/ \E n \in Nodes : radio[n] = copy
  \/ \E n \in Nodes, s \in Slots : repeats[n][s] = copy

\* Two copies of the same broadcast, made at the same time.
Same(x, y) == x.key = y.key /\ x.src = y.src /\ x.id = y.id /\ x.age = y.age

Settled == address = Address /\ role = Role

Genuine ==
  \A x \in Copy : Flying(x) =>
    /\ x.src = Address[x.key[1]] /\ Transmits(Role[x.key[1]])
    /\ x.key[2] <= made[x.key[1]] /\ x.age < Ttl

Agree ==
  \A x, y \in Copy : Flying(x) /\ Flying(y) /\ x.key = y.key => x.src = y.src /\ x.id = y.id

Remembered ==
  \A x \in Copy, n \in Nodes :
    Flying(x) /\ accepted[n][x.key] > 0 => seen[n][<<x.src, x.id>>] <= x.age

Counted ==
  \A n \in Nodes, k \in Keys :
    /\ accepted[n][k] <= 1 /\ forwarded[n][k] <= accepted[n][k]
    /\ accepted[n][k] > 0 => k[2] <= made[k[1]]
    /\ k[1] = n => accepted[n][k] = 0

Queued ==
  \A n \in Nodes, s \in Slots : repeats[n][s] # None =>
    /\ accepted[n][repeats[n][s].key] = 1 /\ forwarded[n][repeats[n][s].key] = 0
    /\ \A t \in Slots \ {s} :
         repeats[n][t] # None => repeats[n][t].key # repeats[n][s].key

OnceInv == Settled /\ Genuine /\ Agree /\ Remembered /\ Counted /\ Queued

HandledInv == TypeOK /\ (InTime => OnceInv)

LEMMA OnceInit == Init => HandledInv
<1> SUFFICES ASSUME Init PROVE HandledInv
  OBVIOUS
<1>1. TypeOK
  BY TypeInit
<1>2. \A x \in Copy : ~Flying(x)
  BY DEF Init, Flying
<1>3. Settled /\ Queued
  BY DEF Init, Settled, Queued
<1>4. Counted
  BY DEF Init, Counted
<1> QED
  BY <1>1, <1>2, <1>3, <1>4 DEF HandledInv, OnceInv, Genuine, Agree, Remembered

\* What was late or forgotten stays so.
LEMMA InTimeBefore ==
  ASSUME TypeOK, Next, InTime'
  PROVE  InTime
<1>1. CASE Tick
  BY <1>1 DEF Tick, InTime
<1>2. CASE \E n \in Nodes : Step(n)
  <2>1. PICK n \in Nodes : Step(n)
    BY <1>2
  <2>2. CASE Accept(n)
    <3>1. Takes(n) /\ Remember(n, <<radio[n].src, radio[n].id>>) /\ UNCHANGED late
      BY <2>2 DEF Accept
    <3> QED
      BY <3>1, RadioTyped, PairTyped, RememberTyped DEF InTime
  <2>3. CASE DropDuplicate(n)
    BY <2>3 DEF DropDuplicate, Refresh, InTime
  <2>4. CASE Broadcast(n) \/ DropEcho(n) \/ SendRepeat(n)
    BY <2>4 DEF Broadcast, DropEcho, SendRepeat, InTime, lapseVars
  <2>5. CASE Reset(n) \/ Reconfigure(n)
    BY <2>5 DEF Reset, Reconfigure, Forgets, InTime
  <2>6. CASE FallAsleep(n) \/ WakeUp(n) \/ TransferBegins(n) \/ TransferEnds(n)
    BY <2>6 DEF FallAsleep, WakeUp, TransferBegins, TransferEnds, InTime, lapseVars
  <2> QED
    BY <2>1, <2>2, <2>3, <2>4, <2>5, <2>6 DEF Step
<1> QED
  BY <1>1, <1>2 DEF Next

\* Steps that put nothing new on its way leave what is said of the copies.
LEMMA FlightKept ==
  ASSUME TypeOK, OnceInv, UNCHANGED <<address, role, made>>,
         \A x \in Copy : Flying(x)' => \E y \in Copy : Flying(y) /\ Same(x, y)
  PROVE  /\ Settled' /\ Genuine' /\ Agree'
         /\ (\A m \in Nodes, p \in Pairs : seen'[m][p] <= seen[m][p])
            /\ seen' \in [Nodes -> [Pairs -> 0..Ttl]]
            /\ UNCHANGED accepted => Remembered'
<1>1. Settled'
  BY DEF OnceInv, Settled
<1>2. Genuine'
  BY DEF OnceInv, Genuine, Same
<1>3. Agree'
  BY DEF OnceInv, Agree, Same
<1>4. ASSUME \A m \in Nodes, p \in Pairs : seen'[m][p] <= seen[m][p],
             seen' \in [Nodes -> [Pairs -> 0..Ttl]], UNCHANGED accepted
      PROVE  Remembered'
  <2> SUFFICES ASSUME NEW x \in Copy, NEW n \in Nodes, Flying(x)', accepted[n][x.key] > 0
               PROVE  seen'[n][<<x.src, x.id>>] <= x.age
    BY <1>4 DEF Remembered
  <2>1. PICK y \in Copy : Flying(y) /\ Same(x, y)
    OBVIOUS
  <2>2. seen[n][<<x.src, x.id>>] <= x.age
    BY <2>1 DEF OnceInv, Remembered, Same
  <2>3. <<x.src, x.id>> \in Pairs
    BY PairTyped
  <2>4. seen'[n][<<x.src, x.id>>] <= seen[n][<<x.src, x.id>>]
    BY <1>4, <2>3
  <2>5. /\ seen'[n][<<x.src, x.id>>] \in 0..Ttl /\ seen[n][<<x.src, x.id>>] \in 0..Ttl
        /\ x.age \in 0..Ttl
    BY <1>4, <2>3 DEF TypeOK, Copy
  <2> QED
    BY <2>2, <2>4, <2>5
<1> QED
  BY <1>1, <1>2, <1>3, <1>4

LEMMA OnceBroadcast ==
  ASSUME TypeOK, OnceInv, NEW n \in Nodes, Broadcast(n)
  PROVE  OnceInv'
<1> DEFINE new == [key |-> <<n, made[n] + 1>>, src |-> address[n], id |-> nextId[n],
                   hops |-> maxHops[n], relays |-> 0, age |-> 0]
<1>1. /\ OnAir(n, new) /\ made' = [made EXCEPT ![n] = @ + 1] /\ Transmits(role[n])
      /\ UNCHANGED <<address, role, seen, repeats, accepted, forwarded>>
  BY DEF Broadcast, confVars, countVars
<1>2. new \in Copy
  BY DEF TypeOK, Broadcast, Copy, Keys
<1>3. \A x \in Copy : Flying(x)' => Flying(x) \/ x = new
  BY <1>1, <1>2 DEF Flying, OnAir
<1>4. new.key = <<n, made[n] + 1>> /\ new.src = address[n] /\ new.age = 0
  OBVIOUS
<1>5. \A k \in Keys : k[1] \in Nodes /\ k[2] \in Nat
  BY DEF Keys
<1>6. made \in [Nodes -> Nat] /\ \A m \in Nodes : made[m] <= made'[m] /\ made'[m] \in Nat
  BY <1>1 DEF TypeOK
<1> HIDE DEF new
<1>7. Settled'
  BY <1>1 DEF OnceInv, Settled
<1>8. Genuine'
  <2> SUFFICES ASSUME NEW x \in Copy, Flying(x)'
               PROVE  /\ x.src = Address[x.key[1]] /\ Transmits(Role[x.key[1]])
                      /\ x.key[2] <= made'[x.key[1]] /\ x.age < Ttl
    BY DEF Genuine
  <2>1. CASE Flying(x)
    <3>1. x.key \in Keys
      BY DEF Copy
    <3> QED
      BY <1>5, <1>6, <2>1, <3>1 DEF OnceInv, Genuine
  <2>2. CASE x = new
    <3>1. made'[n] = made[n] + 1
      BY <1>1, <1>6
    <3> QED
      BY <1>1, <1>4, <1>6, <2>2, <3>1 DEF OnceInv, Settled
  <2> QED
    BY <1>3, <2>1, <2>2
<1>9. \A x \in Copy : Flying(x) => x.key # new.key
  BY <1>4, <1>6 DEF OnceInv, Genuine
<1>10. Agree'
  BY <1>3, <1>9 DEF OnceInv, Agree
<1>11. \A m \in Nodes : accepted[m][new.key] = 0
  <2>1. new.key \in Keys
    BY <1>2 DEF Copy
  <2> QED
    <3> SUFFICES ASSUME NEW m \in Nodes, accepted[m][new.key] # 0
                 PROVE  FALSE
      OBVIOUS
    <3>1. accepted[m][new.key] \in Nat
      BY <2>1 DEF TypeOK
    <3>2. new.key[2] <= made[new.key[1]]
      BY <2>1, <3>1 DEF OnceInv, Counted
    <3> QED
      BY <1>4, <1>6, <3>2
<1>12. Remembered'
  BY <1>1, <1>3, <1>11 DEF OnceInv, Remembered
<1>13. Counted'
  <2>1. \A k \in Keys : k[2] <= made[k[1]] => k[2] <= made'[k[1]]
    BY <1>5, <1>6
  <2> QED
    BY <1>1, <2>1 DEF OnceInv, Counted
<1>14. Queued'
  BY <1>1 DEF OnceInv, Queued
<1> QED
  BY <1>7, <1>8, <1>10, <1>12, <1>13, <1>14 DEF OnceInv

\* Nothing a node counts, and no queue, is touched.
LEMMA CountsKept ==
  ASSUME OnceInv, UNCHANGED <<made, repeats, accepted, forwarded>>
  PROVE  Counted' /\ Queued'
BY DEF OnceInv, Counted, Queued

LEMMA SeenKept ==
  ASSUME TypeOK, UNCHANGED seen
  PROVE  /\ \A m \in Nodes, p \in Pairs : seen'[m][p] <= seen[m][p]
         /\ seen' \in [Nodes -> [Pairs -> 0..Ttl]]
<1>1. \A m \in Nodes, p \in Pairs : seen[m][p] \in 0..Ttl
  BY DEF TypeOK
<1> QED
  BY <1>1 DEF TypeOK

LEMMA OnceDrop ==
  ASSUME TypeOK, OnceInv, NEW n \in Nodes, DropEcho(n) \/ DropDuplicate(n)
  PROVE  OnceInv'
<1>1. /\ Takes(n) /\ UNCHANGED <<address, role, made, repeats, accepted, forwarded>>
  BY DEF DropEcho, DropDuplicate, confVars, sendVars, countVars
<1>2. \A x \in Copy : Flying(x)' => \E y \in Copy : Flying(y) /\ Same(x, y)
  BY <1>1 DEF Takes, Flying, Same, TypeOK
<1>3. /\ \A m \in Nodes, p \in Pairs : seen'[m][p] <= seen[m][p]
      /\ seen' \in [Nodes -> [Pairs -> 0..Ttl]]
  <2>1. CASE DropEcho(n)
    BY <2>1, SeenKept DEF DropEcho
  <2>2. CASE DropDuplicate(n)
    BY <1>1, <2>2, RadioTyped, PairTyped, RefreshTyped DEF DropDuplicate
  <2> QED
    BY <2>1, <2>2
<1> QED
  BY <1>1, <1>2, <1>3, FlightKept, CountsKept DEF OnceInv

LEMMA OnceSend ==
  ASSUME TypeOK, OnceInv, NEW n \in Nodes, SendRepeat(n)
  PROVE  OnceInv'
<1>1. PICK s \in Slots :
        /\ First(s, Due(n)) /\ OnAir(n, repeats[n][s]) /\ ReleaseSlot(n, s)
        /\ forwarded' = [forwarded EXCEPT ![n][repeats[n][s].key] = @ + 1]
  BY DEF SendRepeat
<1>2. UNCHANGED <<address, role, made, seen, accepted>>
  BY DEF SendRepeat, confVars, sendVars
<1>3. repeats[n][s] # None /\ repeats[n][s] \in Copy /\ repeats[n][s].key \in Keys
  BY <1>1 DEF First, Due, TypeOK, Copy
<1>4. \A m \in Nodes, t \in Slots : repeats'[m][t] # None =>
         repeats'[m][t] = repeats[m][t] /\ ~(m = n /\ t = s)
  BY <1>1 DEF ReleaseSlot, TypeOK
<1>5. \A x \in Copy : Flying(x)' => \E y \in Copy : Flying(y) /\ Same(x, y)
  <2> SUFFICES ASSUME NEW x \in Copy, Flying(x)'
               PROVE  Flying(x)
    BY DEF Same
  <2>1. ASSUME NEW m \in Nodes, radio'[m] = x
        PROVE  Flying(x)
    BY <1>1, <1>3, <2>1 DEF OnAir, Flying
  <2>2. ASSUME NEW m \in Nodes, NEW t \in Slots, repeats'[m][t] = x
        PROVE  Flying(x)
    BY <1>4, <2>2 DEF Flying
  <2> QED
    BY <2>1, <2>2 DEF Flying
<1>6. \A m \in Nodes, k \in Keys :
         forwarded'[m][k] = IF m = n /\ k = repeats[n][s].key THEN forwarded[m][k] + 1
                            ELSE forwarded[m][k]
  BY <1>1, <1>3 DEF TypeOK
<1>7. accepted[n][repeats[n][s].key] = 1 /\ forwarded[n][repeats[n][s].key] = 0
  BY <1>3 DEF OnceInv, Queued
<1>8. Counted'
  BY <1>2, <1>6, <1>7 DEF OnceInv, Counted
<1>9. Queued'
  <2> SUFFICES ASSUME NEW m \in Nodes, NEW t \in Slots, repeats'[m][t] # None
               PROVE  /\ accepted'[m][repeats'[m][t].key] = 1
                      /\ forwarded'[m][repeats'[m][t].key] = 0
                      /\ \A u \in Slots \ {t} :
                           repeats'[m][u] # None => repeats'[m][u].key # repeats'[m][t].key
    BY DEF Queued
  <2>1. repeats'[m][t] = repeats[m][t] /\ ~(m = n /\ t = s)
    BY <1>4
  <2>2. repeats[m][t].key \in Keys
    BY <2>1 DEF TypeOK, Copy
  <2>3. m = n => repeats[m][t].key # repeats[n][s].key
    BY <1>3, <2>1 DEF OnceInv, Queued
  <2> QED
    BY <1>2, <1>4, <1>6, <2>1, <2>2, <2>3 DEF OnceInv, Queued
<1> QED
  BY <1>2, <1>5, <1>8, <1>9, FlightKept, SeenKept DEF OnceInv

\* What Accept queues is a copy of what it has received, in a slot of its own.
LEMMA Enqueued ==
  ASSUME TypeOK, NEW n \in Nodes, NEW copy \in Copy, Queue(n, copy)
  PROVE  \A m \in Nodes, t \in Slots :
           \/ repeats'[m][t] = repeats[m][t]
           \/ /\ m = n /\ Same(repeats'[m][t], copy) /\ repeats'[m][t] \in Copy
              /\ \A u \in Slots \ {t} : repeats'[m][u] = repeats[m][u]
<1>1. CASE role[n] = "repeater" /\ copy.hops > 0 /\ Free(n) # {}
  <2>1. PICK s \in Slots : repeats' = [repeats EXCEPT ![n] = [@ EXCEPT ![s] = Onward(copy)]]
    BY <1>1 DEF Queue
  <2>2. Onward(copy) \in Copy /\ Same(Onward(copy), copy)
    BY <1>1, OnwardTyped DEF Same
  <2> QED
    BY <2>1, <2>2 DEF TypeOK
<1>2. CASE ~(role[n] = "repeater" /\ copy.hops > 0 /\ Free(n) # {})
  BY <1>2 DEF Queue
<1> QED
  BY <1>1, <1>2

LEMMA OnceAccept ==
  ASSUME TypeOK, OnceInv, NEW n \in Nodes, Accept(n), InTime'
  PROVE  OnceInv'
<1> DEFINE copy == radio[n]
           pair == <<copy.src, copy.id>>
<1>1. /\ Takes(n) /\ ~Echo(n, copy) /\ ~Known(n, pair)
      /\ Remember(n, pair) /\ Queue(n, copy)
      /\ accepted' = [accepted EXCEPT ![n][copy.key] = @ + 1]
      /\ UNCHANGED <<address, role, made, forwarded>>
  BY DEF Accept, confVars, sendVars
<1>2. copy \in Copy /\ copy.key \in Keys /\ pair \in Pairs /\ Flying(copy)
  BY <1>1, RadioTyped, PairTyped DEF Flying
<1> HIDE DEF copy
<1>3. accepted[n][copy.key] = 0
  <2>1. seen[n][pair] \in 0..Ttl /\ copy.age \in 0..Ttl /\ accepted[n][copy.key] \in Nat
    BY <1>2 DEF TypeOK, Copy
  <2>2. copy.age < Ttl
    BY <1>2 DEF OnceInv, Genuine
  <2>3. accepted[n][copy.key] > 0 => seen[n][pair] <= copy.age
    BY <1>2 DEF OnceInv, Remembered
  <2> QED
    BY <1>1, <2>1, <2>2, <2>3 DEF Known
<1>4. copy.key[1] # n
  BY <1>1, <1>2 DEF Echo, OnceInv, Genuine, Settled
<1>5. \A m \in Nodes, k \in Keys :
         accepted'[m][k] = IF m = n /\ k = copy.key THEN 1 ELSE accepted[m][k]
  BY <1>1, <1>2, <1>3 DEF TypeOK
<1>6. \A m \in Nodes, t \in Slots :
         \/ repeats'[m][t] = repeats[m][t]
         \/ /\ m = n /\ Same(repeats'[m][t], copy) /\ repeats'[m][t] \in Copy
            /\ \A u \in Slots \ {t} : repeats'[m][u] = repeats[m][u]
  BY <1>1, <1>2, Enqueued
<1>7. \A x \in Copy : Flying(x)' => \E y \in Copy : Flying(y) /\ Same(x, y)
  <2> SUFFICES ASSUME NEW x \in Copy, Flying(x)'
               PROVE  \E y \in Copy : Flying(y) /\ Same(x, y)
    OBVIOUS
  <2>1. ASSUME NEW m \in Nodes, radio'[m] = x
        PROVE  Flying(x)
    BY <1>1, <2>1 DEF Takes, Flying, TypeOK
  <2>2. ASSUME NEW m \in Nodes, NEW t \in Slots, repeats'[m][t] = x
        PROVE  Flying(x) \/ Same(x, copy)
    BY <1>6, <2>2 DEF Flying
  <2> QED
    BY <1>2, <2>1, <2>2 DEF Flying, Same
<1>8. /\ seen' \in [Nodes -> [Pairs -> 0..Ttl]] /\ seen'[n][pair] = 0
      /\ \A m \in Nodes, p \in Pairs : seen'[m][p] <= seen[m][p]
  BY <1>1, <1>2, RememberTyped DEF InTime
<1>9. Settled' /\ Genuine' /\ Agree'
  BY <1>1, <1>7, FlightKept
<1>10. Remembered'
  <2> SUFFICES ASSUME NEW x \in Copy, NEW m \in Nodes, Flying(x)', accepted'[m][x.key] > 0
               PROVE  seen'[m][<<x.src, x.id>>] <= x.age
    BY DEF Remembered
  <2>1. PICK y \in Copy : Flying(y) /\ Same(x, y)
    BY <1>7
  <2>2. <<x.src, x.id>> \in Pairs /\ x.age \in 0..Ttl /\ x.key \in Keys
    BY PairTyped DEF Copy
  <2>3. CASE m = n /\ x.key = copy.key
    <3>1. <<x.src, x.id>> = pair
      BY <1>2, <2>1, <2>3 DEF OnceInv, Agree, Same
    <3> QED
      BY <1>8, <2>2, <2>3, <3>1
  <2>4. CASE ~(m = n /\ x.key = copy.key)
    <3>1. accepted[m][y.key] > 0
      BY <1>5, <2>1, <2>2, <2>4 DEF Same
    <3>2. seen[m][<<x.src, x.id>>] <= x.age
      BY <2>1, <3>1 DEF OnceInv, Remembered, Same
    <3>3. seen'[m][<<x.src, x.id>>] <= seen[m][<<x.src, x.id>>]
      BY <1>8, <2>2
    <3>4. seen'[m][<<x.src, x.id>>] \in 0..Ttl /\ seen[m][<<x.src, x.id>>] \in 0..Ttl
      BY <1>8, <2>2 DEF TypeOK
    <3> QED
      BY <2>2, <3>2, <3>3, <3>4
  <2> QED
    BY <2>3, <2>4
<1>11. copy.key[2] <= made[copy.key[1]] /\ forwarded[n][copy.key] = 0
  <2>1. forwarded[n][copy.key] \in Nat /\ forwarded[n][copy.key] <= accepted[n][copy.key]
    BY <1>2 DEF OnceInv, Counted, TypeOK
  <2> QED
    BY <1>2, <1>3, <2>1 DEF OnceInv, Genuine
<1>12. Counted'
  BY <1>1, <1>4, <1>5, <1>11 DEF OnceInv, Counted
<1>13. Queued'
  <2> SUFFICES ASSUME NEW m \in Nodes, NEW t \in Slots, repeats'[m][t] # None
               PROVE  /\ accepted'[m][repeats'[m][t].key] = 1
                      /\ forwarded'[m][repeats'[m][t].key] = 0
                      /\ \A u \in Slots \ {t} :
                           repeats'[m][u] # None => repeats'[m][u].key # repeats'[m][t].key
    BY DEF Queued
  <2>1. \A u \in Slots : repeats[n][u] # None => repeats[n][u].key # copy.key
    BY <1>3 DEF OnceInv, Queued
  <2>2. \A u \in Slots : repeats[m][u] # None => repeats[m][u].key \in Keys
    BY DEF TypeOK, Copy
  <2>3. CASE repeats'[m][t] = repeats[m][t]
    <3>1. /\ accepted[m][repeats[m][t].key] = 1 /\ forwarded[m][repeats[m][t].key] = 0
          /\ \A u \in Slots \ {t} :
               repeats[m][u] # None => repeats[m][u].key # repeats[m][t].key
      BY <2>3 DEF OnceInv, Queued
    <3>2. \A u \in Slots \ {t} :
             repeats'[m][u] # None => repeats'[m][u].key # repeats'[m][t].key
      BY <1>6, <2>1, <2>3, <3>1 DEF Same
    <3> QED
      BY <1>1, <1>5, <2>1, <2>2, <2>3, <3>1, <3>2
  <2>4. CASE repeats'[m][t] # repeats[m][t]
    <3>1. /\ m = n /\ repeats'[m][t].key = copy.key
          /\ \A u \in Slots \ {t} : repeats'[m][u] = repeats[m][u]
      BY <1>6, <2>4 DEF Same
    <3> QED
      BY <1>1, <1>2, <1>5, <1>11, <2>1, <3>1
  <2> QED
    BY <2>3, <2>4
<1> QED
  BY <1>9, <1>10, <1>12, <1>13 DEF OnceInv

LEMMA OnceTick ==
  ASSUME TypeOK, OnceInv, Tick, InTime'
  PROVE  OnceInv'
<1>1. /\ UNCHANGED <<address, role, made, accepted, forwarded>>
      /\ seen' = [m \in Nodes |-> [p \in Pairs |-> Older(seen[m][p])]]
      /\ repeats' = [m \in Nodes |-> [t \in Slots |-> Aged(repeats[m][t])]]
      /\ radio' = [m \in Nodes |-> Aged(radio[m])]
  BY DEF Tick, confVars, countVars
<1>2. \A y \in Copy : Flying(y) => Older(y.age) # Ttl
  <2>1. ~late'
    BY DEF InTime
  <2> QED
    BY <2>1 DEF Tick, Flying
<1>3. ASSUME NEW x \in Copy, Flying(x)'
      PROVE  \E y \in Copy : /\ Flying(y) /\ x.key = y.key /\ x.src = y.src /\ x.id = y.id
                             /\ x.age = Older(y.age)
  <2>1. Aged(None) = None
    BY DEF Aged
  <2>2. ASSUME NEW m \in Nodes, radio'[m] = x
        PROVE  radio[m] \in Copy /\ x = Aged(radio[m])
    BY <1>1, <2>1, <2>2 DEF TypeOK
  <2>3. ASSUME NEW m \in Nodes, NEW t \in Slots, repeats'[m][t] = x
        PROVE  repeats[m][t] \in Copy /\ x = Aged(repeats[m][t])
    BY <1>1, <2>1, <2>3 DEF TypeOK
  <2>4. PICK y \in Copy : Flying(y) /\ x = Aged(y)
    BY <1>3, <2>2, <2>3 DEF Flying
  <2> QED
    BY <2>4, AgedTyped
<1>4. Settled'
  BY <1>1 DEF OnceInv, Settled
<1>5. Genuine'
  <2> SUFFICES ASSUME NEW x \in Copy, Flying(x)'
               PROVE  /\ x.src = Address[x.key[1]] /\ Transmits(Role[x.key[1]])
                      /\ x.key[2] <= made[x.key[1]] /\ x.age < Ttl
    BY <1>1 DEF Genuine
  <2>1. PICK y \in Copy : /\ Flying(y) /\ x.key = y.key /\ x.src = y.src /\ x.id = y.id
                          /\ x.age = Older(y.age)
    BY <1>3
  <2>2. x.age \in 0..Ttl /\ x.age # Ttl
    BY <1>2, <2>1 DEF Copy
  <2> QED
    BY <2>1, <2>2 DEF OnceInv, Genuine
<1>6. Agree'
  BY <1>3 DEF OnceInv, Agree
<1>7. Remembered'
  <2> SUFFICES ASSUME NEW x \in Copy, NEW m \in Nodes, Flying(x)', accepted[m][x.key] > 0
               PROVE  seen'[m][<<x.src, x.id>>] <= x.age
    BY <1>1 DEF Remembered
  <2>1. PICK y \in Copy : /\ Flying(y) /\ x.key = y.key /\ x.src = y.src /\ x.id = y.id
                          /\ x.age = Older(y.age)
    BY <1>3
  <2>2. <<x.src, x.id>> \in Pairs
    BY PairTyped
  <2>3. seen[m][<<x.src, x.id>>] <= y.age
    BY <2>1 DEF OnceInv, Remembered
  <2>4. seen[m][<<x.src, x.id>>] \in 0..Ttl /\ y.age \in 0..Ttl
    BY <2>1, <2>2 DEF TypeOK, Copy
  <2>5. seen'[m][<<x.src, x.id>>] = Older(seen[m][<<x.src, x.id>>])
    BY <1>1, <2>2
  <2> QED
    BY <2>1, <2>3, <2>4, <2>5 DEF Older
<1>8. Counted'
  BY <1>1 DEF OnceInv, Counted
<1>9. Queued'
  <2> SUFFICES ASSUME NEW m \in Nodes, NEW t \in Slots, repeats'[m][t] # None
               PROVE  /\ accepted[m][repeats'[m][t].key] = 1
                      /\ forwarded[m][repeats'[m][t].key] = 0
                      /\ \A u \in Slots \ {t} :
                           repeats'[m][u] # None => repeats'[m][u].key # repeats'[m][t].key
    BY <1>1 DEF Queued
  <2>1. \A u \in Slots : repeats'[m][u] # None =>
           repeats[m][u] # None /\ repeats'[m][u].key = repeats[m][u].key
    <3>1. Aged(None) = None
      BY DEF Aged
    <3> QED
      BY <1>1, <3>1, AgedTyped DEF TypeOK
  <2> QED
    BY <2>1 DEF OnceInv, Queued
<1> QED
  BY <1>4, <1>5, <1>6, <1>7, <1>8, <1>9 DEF OnceInv

LEMMA OnceOutside ==
  ASSUME TypeOK, OnceInv, NEW n \in Nodes,
         FallAsleep(n) \/ WakeUp(n) \/ TransferBegins(n) \/ TransferEnds(n)
  PROVE  OnceInv'
<1>1. UNCHANGED <<address, role, made, seen, repeats, accepted, forwarded>>
  BY DEF FallAsleep, WakeUp, TransferBegins, TransferEnds, confVars, sendVars, countVars
<1>2. radio' = radio \/ radio' = [radio EXCEPT ![n] = None]
  BY DEF FallAsleep, WakeUp, TransferBegins, TransferEnds
<1>3. \A x \in Copy : Flying(x)' => \E y \in Copy : Flying(y) /\ Same(x, y)
  BY <1>1, <1>2 DEF Flying, Same, TypeOK
<1> QED
  BY <1>1, <1>3, FlightKept, SeenKept, CountsKept DEF OnceInv

LEMMA OnceNext == HandledInv /\ [Next]_vars => HandledInv'
<1> SUFFICES ASSUME HandledInv, [Next]_vars PROVE HandledInv'
  OBVIOUS
<1>1. TypeOK /\ TypeOK'
  BY TypeNext DEF HandledInv
<1>2. CASE Next
  <2> SUFFICES ASSUME InTime' PROVE OnceInv'
    BY <1>1 DEF HandledInv
  <2>1. OnceInv
    BY <1>1, <1>2, InTimeBefore DEF HandledInv
  <2>2. CASE Tick
    BY <1>1, <2>1, <2>2, OnceTick
  <2>3. ASSUME NEW n \in Nodes, Step(n) PROVE OnceInv'
    <3>1. ~Reset(n) /\ ~Reconfigure(n)
      BY DEF Reset, Reconfigure, Forgets, InTime
    <3> QED
      BY <1>1, <2>1, <2>3, <3>1, OnceBroadcast, OnceDrop, OnceAccept, OnceSend, OnceOutside
         DEF Step
  <2> QED
    BY <1>2, <2>2, <2>3 DEF Next
<1>3. CASE UNCHANGED vars
  <2>1. TypeOK' /\ (InTime' => InTime)
    BY <1>1, <1>3 DEF InTime, vars, lapseVars
  <2>2. OnceInv => OnceInv'
    BY <1>3 DEF OnceInv, Settled, Genuine, Agree, Remembered, Counted, Queued, Flying,
                vars, confVars, sendVars, countVars
  <2> QED
    BY <2>1, <2>2 DEF HandledInv
<1> QED
  BY <1>2, <1>3

\* RadioConfig::dedup_ttl_s, for every network: while copies are younger than
\* the window and no node has lost an entry, each node takes a broadcast at most
\* once, sends it on at most once and never takes its own.
THEOREM Deduplication == Spec => []HandledOnce
<1>1. HandledInv => HandledOnce
  BY DEF HandledInv, OnceInv, Counted, HandledOnce
<1> QED
  BY <1>1, OnceInit, OnceNext, PTL DEF Spec
-----------------------------------------------------------------------------
(***************************************************************************)
(* The hop count.  What a copy has left and what it has been repeated add  *)
(* up to no more than its maker was configured for when it made it.        *)
(***************************************************************************)
Spent(x, y) == x.key = y.key /\ x.relays + x.hops = y.relays + y.hops

Funded(x) == \E hops \in HopsEnough(x.key[1]) : x.relays + x.hops <= hops

FundedInv ==
  /\ \A n \in Nodes : maxHops[n] \in HopsEnough(n)
  /\ \A x \in Copy : Flying(x) => Funded(x)

LEMMA FundedInit == Init => FundedInv
<1> SUFFICES ASSUME Init PROVE FundedInv
  OBVIOUS
<1>1. \A x \in Copy : ~Flying(x)
  BY DEF Init, Flying
<1> QED
  BY <1>1 DEF Init, FundedInv, HopsEnough

LEMMA FundedKept ==
  ASSUME FundedInv, \A n \in Nodes : maxHops'[n] \in HopsEnough(n),
         \A x \in Copy : Flying(x)' => Funded(x) \/ \E y \in Copy : Flying(y) /\ Spent(x, y)
  PROVE  FundedInv'
BY DEF FundedInv, Funded, Spent

LEMMA OnwardSpends ==
  ASSUME NEW copy \in Copy, copy.hops > 0
  PROVE  Onward(copy) \in Copy /\ Spent(Onward(copy), copy)
<1>1. copy.hops \in Int /\ copy.relays \in Int
  BY DEF Copy
<1>2. /\ Onward(copy) \in Copy /\ Onward(copy).key = copy.key
      /\ Onward(copy).hops = copy.hops - 1 /\ Onward(copy).relays = copy.relays + 1
  BY OnwardTyped DEF Onward, Copy
<1> QED
  BY <1>1, <1>2 DEF Spent

LEMMA FundedBroadcast ==
  ASSUME TypeOK, FundedInv, NEW n \in Nodes, Broadcast(n)
  PROVE  FundedInv'
<1> DEFINE new == [key |-> <<n, made[n] + 1>>, src |-> address[n], id |-> nextId[n],
                   hops |-> maxHops[n], relays |-> 0, age |-> 0]
<1>1. Funded(new)
  <2>1. new.key[1] = n /\ new.relays = 0 /\ new.hops = maxHops[n]
    OBVIOUS
  <2> HIDE DEF new
  <2>2. maxHops[n] \in Int
    <3>1. maxHops[n] \in 0..8
      BY DEF TypeOK
    <3> QED
      BY <3>1
  <2>3. maxHops[n] \in HopsEnough(new.key[1])
    BY <2>1 DEF FundedInv
  <2>4. new.relays + new.hops <= maxHops[n]
    BY <2>1, <2>2
  <2> QED
    BY <2>3, <2>4 DEF Funded
<1>2. \A m \in Nodes : radio'[m] \in {new, None, radio[m]}
  BY DEF Broadcast, OnAir
<1>3. UNCHANGED <<maxHops, repeats>>
  BY DEF Broadcast, confVars
<1> HIDE DEF new
<1>4. \A x \in Copy : Flying(x)' => Flying(x) \/ x = new
  BY <1>2, <1>3 DEF Flying
<1>5. \A x \in Copy : Flying(x)' => Funded(x)
  BY <1>1, <1>4 DEF FundedInv
<1> QED
  BY <1>3, <1>5, FundedKept DEF FundedInv

LEMMA FundedAccept ==
  ASSUME TypeOK, FundedInv, NEW n \in Nodes, Accept(n)
  PROVE  FundedInv'
<1>1. /\ radio[n] \in Copy /\ Queue(n, radio[n]) /\ maxHops' = maxHops
      /\ \A m \in Nodes : radio'[m] \in {None, radio[m]}
  BY DEF Accept, Takes, TypeOK, confVars
<1>2. CASE radio[n].hops > 0 /\ \E s \in Slots : repeats' = [repeats EXCEPT ![n] = [@ EXCEPT ![s] = Onward(radio[n])]]
  <2>1. Onward(radio[n]) \in Copy /\ Spent(Onward(radio[n]), radio[n]) /\ Flying(radio[n])
    BY <1>1, <1>2, OnwardSpends DEF Flying
  <2>2. \A m \in Nodes, s \in Slots : repeats'[m][s] \in {repeats[m][s], Onward(radio[n])}
    BY <1>2 DEF TypeOK
  <2>3. \A x \in Copy : Flying(x)' => Flying(x) \/ x = Onward(radio[n])
    BY <1>1, <2>2 DEF Flying
  <2>4. \A x \in Copy : Flying(x)' => Funded(x) \/ \E y \in Copy : Flying(y) /\ Spent(x, y)
    BY <1>1, <2>1, <2>3 DEF FundedInv
  <2> QED
    BY <1>1, <2>4, FundedKept DEF FundedInv
<1>3. CASE UNCHANGED repeats
  <2>1. \A x \in Copy : Flying(x)' => Flying(x)
    BY <1>1, <1>3 DEF Flying
  <2> QED
    BY <1>1, <2>1, FundedKept DEF FundedInv
<1> QED
  BY <1>1, <1>2, <1>3 DEF Queue

LEMMA FundedSend ==
  ASSUME TypeOK, FundedInv, NEW n \in Nodes, SendRepeat(n)
  PROVE  FundedInv'
<1>1. PICK s \in Slots : OnAir(n, repeats[n][s]) /\ ReleaseSlot(n, s)
  BY DEF SendRepeat
<1>2. \A m \in Nodes : radio'[m] \in {repeats[n][s], None, radio[m]}
  BY <1>1 DEF OnAir
<1>3. \A m \in Nodes, t \in Slots : repeats'[m][t] \in {repeats[m][t], None}
  BY <1>1 DEF ReleaseSlot, TypeOK
<1>4. \A x \in Copy : Flying(x)' => Flying(x)
  BY <1>2, <1>3 DEF Flying
<1>5. maxHops' = maxHops
  BY DEF SendRepeat, confVars
<1> QED
  BY <1>4, <1>5, FundedKept DEF FundedInv

LEMMA FundedTick ==
  ASSUME TypeOK, FundedInv, Tick
  PROVE  FundedInv'
<1>1. ASSUME NEW y \in Copy
      PROVE  Spent(Aged(y), y)
  BY DEF Spent, Aged, Copy
<1>2. \A m \in Nodes : radio[m] \in Copy \cup {None} /\ radio'[m] = Aged(radio[m])
  BY DEF TypeOK, Tick
<1>3. \A m \in Nodes, s \in Slots : repeats[m][s] \in Copy \cup {None} /\ repeats'[m][s] = Aged(repeats[m][s])
  BY DEF TypeOK, Tick
<1>4. Aged(None) = None
  BY DEF Aged
<1>5. \A x \in Copy : Flying(x)' => \E y \in Copy : Flying(y) /\ Spent(x, y)
  BY <1>1, <1>2, <1>3, <1>4 DEF Flying
<1>6. maxHops' = maxHops
  BY DEF Tick, confVars
<1> QED
  BY <1>5, <1>6, FundedKept DEF FundedInv

\* A receiver read, or what happens from outside: nothing new is on its way.
LEMMA FundedRest ==
  ASSUME TypeOK, FundedInv, NEW n \in Nodes,
         \/ DropEcho(n) \/ DropDuplicate(n) \/ Reset(n) \/ Reconfigure(n)
         \/ FallAsleep(n) \/ WakeUp(n) \/ TransferBegins(n) \/ TransferEnds(n)
  PROVE  FundedInv'
<1>1. \A m \in Nodes : radio'[m] \in {radio[m], None}
  BY DEF TypeOK, DropEcho, DropDuplicate, Takes, Reset, Reconfigure, Forgets,
         FallAsleep, WakeUp, TransferBegins, TransferEnds
<1>2. \A m \in Nodes, s \in Slots : repeats'[m][s] \in {repeats[m][s], None}
  <2>1. CASE Forgets(n)
    BY <2>1 DEF TypeOK, Forgets
  <2>2. CASE UNCHANGED repeats
    BY <2>2
  <2>3. Forgets(n) \/ UNCHANGED repeats
    BY DEF DropEcho, DropDuplicate, Reset, Reconfigure, Forgets,
           FallAsleep, WakeUp, TransferBegins, TransferEnds
  <2> QED
    BY <2>1, <2>2, <2>3
<1>3. \A x \in Copy : Flying(x)' => Flying(x)
  BY <1>1, <1>2 DEF Flying
<1>4. \A m \in Nodes : maxHops'[m] \in HopsEnough(m)
  <2>1. CASE Reconfigure(n)
    <3>1. PICK conf \in Configs : maxHops' = [maxHops EXCEPT ![n] = conf.hops]
      BY <2>1 DEF Reconfigure
    <3> QED
      BY <3>1 DEF TypeOK, FundedInv, HopsEnough
  <2>2. CASE ~Reconfigure(n)
    <3>1. maxHops' = maxHops
      BY <2>2 DEF DropEcho, DropDuplicate, Reset, FallAsleep, WakeUp, TransferBegins, TransferEnds, confVars
    <3> QED
      BY <3>1 DEF FundedInv
  <2> QED
    BY <2>1, <2>2
<1> QED
  BY <1>3, <1>4, FundedKept DEF FundedInv

LEMMA FundedNext == TypeOK /\ FundedInv /\ [Next]_vars => FundedInv'
<1> SUFFICES ASSUME TypeOK, FundedInv, [Next]_vars PROVE FundedInv'
  OBVIOUS
<1>1. CASE Tick
  BY <1>1, FundedTick
<1>2. CASE \E n \in Nodes : Step(n)
  <2>1. PICK n \in Nodes : Step(n)
    BY <1>2
  <2> QED
    BY <2>1, FundedBroadcast, FundedAccept, FundedSend, FundedRest DEF Step
<1>3. CASE UNCHANGED vars
  BY <1>3 DEF FundedInv, Flying, vars, confVars
<1> QED
  BY <1>1, <1>2, <1>3 DEF Next

\* RadioConfig::max_hops, for every network: a broadcast is retransmitted no more
\* often than its maker was ever configured for, whatever is forgotten, repeated
\* or held up.
THEOREM HopsBounded == Spec => []HopBudget
<1>1. TypeOK /\ FundedInv => HopBudget
  <2> SUFFICES ASSUME TypeOK, FundedInv, NEW copy \in Underway
               PROVE  \E hops \in HopsEnough(copy.key[1]) : copy.relays <= hops
    BY DEF HopBudget
  <2>1. PICK n \in Nodes : copy = radio[n] \/ \E s \in Slots : copy = repeats[n][s]
    BY DEF Underway
  <2>2. copy # None
    BY DEF Underway
  <2>3. copy \in Copy
    BY <2>1, <2>2 DEF TypeOK
  <2>4. Flying(copy)
    BY <2>1 DEF Flying
  <2>5. PICK hops \in HopsEnough(copy.key[1]) : copy.relays + copy.hops <= hops
    BY <2>3, <2>4 DEF FundedInv, Funded
  <2>6. copy.relays \in Nat /\ copy.hops \in Nat /\ copy.key[1] \in Nodes
    BY <2>3 DEF Copy, Keys
  <2>7. hops \in Int
    <3>1. MaxHops[copy.key[1]] \in Int /\ \A conf \in Configs : conf.hops \in Int
      BY <2>6, ConfigAssumption DEF Config
    <3> QED
      BY <3>1 DEF HopsEnough
  <2>8. copy.relays <= hops
    BY <2>5, <2>6, <2>7
  <2> QED
    BY <2>8
<1>2. TypeOK /\ FundedInv /\ [Next]_vars => (TypeOK /\ FundedInv)'
  BY TypeNext, FundedNext
<1> QED
  BY <1>1, <1>2, TypeInit, FundedInit, PTL DEF Spec
-----------------------------------------------------------------------------
(***************************************************************************)
(* No new broadcast is taken for an earlier one.  A seen entry stands for  *)
(* a broadcast its node has taken, made less than two windows ago; the     *)
(* next one under the same id is made Ids intervals later, when the entry  *)
(* has lapsed and no copy of the earlier one is left to renew it.          *)
(***************************************************************************)

\* The i-th frame since the start, from 0 on, carries id r.
Turn(i, r) == \E q \in Nat : i = q * Ids + r

\* Ticks since node m made its last broadcast, and broadcast k, at least.
Since(m) == IF beacon[m] < Interval[m] THEN Interval[m] - beacon[m] ELSE 0
Elapsed(k) == (made[k[1]] - k[2]) * Interval[k[1]] + Since(k[1])

Dated == \A x \in Copy : Flying(x) => Elapsed(x.key) <= x.age

Numbered ==
  /\ \A m \in Nodes : Turn(made[m], nextId[m]) /\ (made[m] > 0 => Interval[m] # 0)
  /\ \A x \in Copy : Flying(x) => Turn(x.key[2] - 1, x.id)

\* The entry of pair p at node n stands for broadcast k.
StandsFor(n, p, k) ==
  /\ accepted[n][k] > 0 /\ Address[k[1]] = p[1] /\ Turn(k[2] - 1, p[2])
  /\ Elapsed(k) <= seen[n][p] + Ttl - 1

Explained == \A n \in Nodes, p \in Pairs : Known(n, p) => \E k \in Keys : StandsFor(n, p, k)

FreshInv == Dated /\ Numbered /\ Explained /\ ~missed

LEMMA Scaled ==
  ASSUME NEW i \in Int, NEW j \in Int, i <= j, NEW k \in Nat
  PROVE  i * k <= j * k
OBVIOUS

\* Two frames under the same id are a whole round of ids apart.
LEMMA RoundApart ==
  ASSUME NEW i \in Int, NEW j \in Int, NEW r, r \in Int, Turn(i, r), Turn(j, r), i < j
  PROVE  i + Ids <= j
<1>1. PICK q \in Nat : i = q * Ids + r
  BY DEF Turn
<1>2. PICK t \in Nat : j = t * Ids + r
  BY DEF Turn
<1>3. q < t
  <2> SUFFICES ASSUME t <= q PROVE FALSE
    OBVIOUS
  <2>1. t * Ids <= q * Ids
    OBVIOUS
  <2> QED
    BY <1>1, <1>2, <2>1
<1>4. (q + 1) * Ids <= t * Ids
  BY <1>3
<1>5. (q + 1) * Ids = q * Ids + Ids
  OBVIOUS
<1> QED
  BY <1>1, <1>2, <1>4, <1>5

\* The id after i frames leads to the one after the next.
LEMMA NextTurn ==
  ASSUME NEW i \in Nat, NEW r \in 0..Ids - 1, Turn(i, r)
  PROVE  Turn(i + 1, AfterId(r))
<1>1. PICK q \in Nat : i = q * Ids + r
  BY DEF Turn
<1>2. CASE r + 1 < Ids
  <2>1. AfterId(r) = r + 1
    BY <1>2 DEF AfterId
  <2> QED
    BY <1>1, <2>1 DEF Turn
<1>3. CASE r + 1 = Ids
  <2>1. AfterId(r) = 0
    BY <1>3 DEF AfterId
  <2>2. (q + 1) * Ids = q * Ids + Ids
    OBVIOUS
  <2>3. i + 1 = (q + 1) * Ids + 0
    BY <1>1, <1>3, <2>2
  <2> QED
    BY <2>1, <2>3 DEF Turn
<1> QED
  BY <1>2, <1>3

LEMMA SinceTyped ==
  ASSUME TypeOK, NEW m \in Nodes
  PROVE  Since(m) \in Nat /\ Interval[m] \in Nat /\ beacon[m] \in Nat /\ made[m] \in Nat
<1>1. Interval[m] \in Nat /\ beacon[m] \in Nat /\ made[m] \in Nat
  BY DEF TypeOK
<1> QED
  BY <1>1 DEF Since

LEMMA KeyTyped ==
  ASSUME NEW k \in Keys
  PROVE  k[1] \in Nodes /\ k[2] \in Nat /\ k = <<k[1], k[2]>>
BY DEF Keys

LEMMA ElapsedTyped ==
  ASSUME TypeOK, NEW k \in Keys
  PROVE  Elapsed(k) \in Int
<1>1. /\ Since(k[1]) \in Int /\ Interval[k[1]] \in Int
      /\ made[k[1]] \in Int /\ k[2] \in Int
  BY SinceTyped, KeyTyped
<1> QED
  BY <1>1 DEF Elapsed

\* As long as a copy is under way, the entry it meets stands for its broadcast.
LEMMA EntryIsOwn ==
  ASSUME TypeOK, OnceInv, Dated, Numbered, Explained, AddressesDistinct, IdsOutlastWindows,
         NEW x \in Copy, Flying(x), NEW n \in Nodes, Known(n, <<x.src, x.id>>)
  PROVE  accepted[n][x.key] > 0
<1> DEFINE p == <<x.src, x.id>>
           m == x.key[1]
<1>1. x.key \in Keys /\ p \in Pairs /\ p[1] = x.src /\ p[2] = x.id /\ x.id \in Int /\ x.age \in Nat
  BY PairTyped DEF Copy
<1>2. PICK k \in Keys : StandsFor(n, p, k)
  BY <1>1 DEF Explained
<1>3. k[1] = m
  BY <1>1, <1>2, KeyTyped DEF StandsFor, OnceInv, Genuine, AddressesDistinct
<1>4. /\ m \in Nodes /\ x.key[2] \in Nat /\ k[2] \in Nat
      /\ x.key = <<m, x.key[2]>> /\ k = <<m, k[2]>>
  BY <1>1, <1>3, KeyTyped
<1>5. x.key[2] <= made[m] /\ x.age < Ttl
  BY DEF OnceInv, Genuine
<1>6. k[2] <= made[m]
  BY <1>2, <1>3 DEF StandsFor, OnceInv, Counted
<1>7. Turn(k[2] - 1, x.id) /\ Turn(x.key[2] - 1, x.id)
  BY <1>1, <1>2 DEF StandsFor, Numbered
<1>8. seen[n][p] \in 0..Ttl /\ seen[n][p] < Ttl
  BY <1>1 DEF TypeOK, Known
<1>9. /\ (made[m] - k[2]) * Interval[m] + Since(m) <= 2 * Ttl - 2
      /\ (made[m] - x.key[2]) * Interval[m] + Since(m) <= Ttl - 1
  <2>1. Elapsed(k) <= seen[n][p] + Ttl - 1 /\ Elapsed(x.key) <= x.age
    BY <1>2 DEF StandsFor, Dated
  <2>2. Elapsed(k) \in Int /\ Elapsed(x.key) \in Int
    BY <1>1, ElapsedTyped
  <2>3. Elapsed(k) <= 2 * Ttl - 2 /\ Elapsed(x.key) <= Ttl - 1
    BY <1>1, <1>5, <1>8, <2>1, <2>2
  <2> QED
    BY <1>3, <2>3 DEF Elapsed
<1>10. Since(m) \in Nat /\ Interval[m] \in Nat /\ made[m] \in Nat
  BY <1>4, SinceTyped
<1>11. Ids * Interval[m] >= 2 * Ttl - 1
  <2>1. made[m] > 0
    BY <1>1, <1>4, <1>5, <1>10 DEF Keys
  <2> QED
    BY <1>4, <2>1 DEF Numbered, IdsOutlastWindows
<1> HIDE DEF p, m
<1>12. ASSUME NEW i \in Nat, i + Ids <= made[m]
       PROVE  2 * Ttl - 1 <= (made[m] - i) * Interval[m] + Since(m)
  <2>1. Ids * Interval[m] <= (made[m] - i) * Interval[m]
    <3>1. Ids <= made[m] - i
      BY <1>10, <1>12
    <3> QED
      BY <1>10, <1>12, <3>1, Scaled
  <2>2. (made[m] - i) * Interval[m] \in Int /\ Ids * Interval[m] \in Int
    BY <1>10, <1>12
  <2> QED
    BY <1>10, <1>11, <2>1, <2>2
<1>13. k[2] = x.key[2]
  <2>1. CASE k[2] < x.key[2]
    <3>1. k[2] + Ids <= x.key[2]
      <4>1. k[2] - 1 + Ids <= x.key[2] - 1
        BY <1>1, <1>4, <1>7, <2>1, RoundApart
      <4> QED
        BY <1>4, <4>1
    <3>2. k[2] + Ids <= made[m]
      BY <1>4, <1>5, <1>10, <3>1
    <3>3. 2 * Ttl - 1 <= (made[m] - k[2]) * Interval[m] + Since(m)
      BY <1>4, <1>12, <3>2
    <3>4. (made[m] - k[2]) * Interval[m] \in Int
      BY <1>4, <1>10
    <3> QED
      BY <1>9, <1>10, <3>3, <3>4
  <2>2. CASE x.key[2] < k[2]
    <3>1. x.key[2] + Ids <= k[2]
      <4>1. x.key[2] - 1 + Ids <= k[2] - 1
        BY <1>1, <1>4, <1>7, <2>2, RoundApart
      <4> QED
        BY <1>4, <4>1
    <3>2. x.key[2] + Ids <= made[m]
      BY <1>4, <1>6, <1>10, <3>1
    <3>3. 2 * Ttl - 1 <= (made[m] - x.key[2]) * Interval[m] + Since(m)
      BY <1>4, <1>12, <3>2
    <3>4. (made[m] - x.key[2]) * Interval[m] \in Int
      BY <1>4, <1>10
    <3> QED
      BY <1>9, <1>10, <3>3, <3>4
  <2> QED
    BY <1>4, <2>1, <2>2
<1> QED
  BY <1>2, <1>4, <1>13 DEF StandsFor

\* Neither what is under way nor the clocks change; every entry stays what it
\* was or stands for a broadcast.
LEMMA FreshKept ==
  ASSUME TypeOK, FreshInv, UNCHANGED <<made, nextId, beacon>>, ~missed',
         \A x \in Copy : Flying(x)' => \E y \in Copy : Flying(y) /\ Same(x, y),
         \A m \in Nodes, k \in Keys : accepted[m][k] > 0 => accepted'[m][k] > 0,
         \A m \in Nodes, p \in Pairs :
           Known(m, p)' => seen'[m][p] = seen[m][p] \/ \E k \in Keys : StandsFor(m, p, k)'
  PROVE  FreshInv'
<1>1. \A k \in Keys : Elapsed(k)' = Elapsed(k)
  BY DEF Elapsed, Since
<1>2. Dated'
  BY <1>1 DEF FreshInv, Dated, Same, Copy
<1>3. Numbered'
  BY DEF FreshInv, Numbered, Same
<1>4. Explained'
  <2> SUFFICES ASSUME NEW m \in Nodes, NEW p \in Pairs, Known(m, p)', seen'[m][p] = seen[m][p]
               PROVE  \E k \in Keys : StandsFor(m, p, k)'
    BY DEF Explained
  <2>1. Known(m, p)
    BY DEF Known
  <2>2. PICK k \in Keys : StandsFor(m, p, k)
    BY <2>1 DEF FreshInv, Explained
  <2>3. StandsFor(m, p, k)'
    BY <1>1, <2>2 DEF StandsFor
  <2> QED
    BY <2>3
<1> QED
  BY <1>2, <1>3, <1>4 DEF FreshInv

LEMMA FreshInit == Init => FreshInv
<1> SUFFICES ASSUME Init PROVE FreshInv
  OBVIOUS
<1>1. \A x \in Copy : ~Flying(x)
  BY DEF Init, Flying
<1>2. Turn(0, 0)
  <2>1. 0 = 0 * Ids + 0
    OBVIOUS
  <2> QED
    BY <2>1 DEF Turn
<1>3. \A m \in Nodes : Turn(made[m], nextId[m]) /\ ~(made[m] > 0)
  BY <1>2 DEF Init
<1>4. \A n \in Nodes, p \in Pairs : ~Known(n, p)
  BY DEF Init, Known
<1> QED
  BY <1>1, <1>3, <1>4 DEF Init, FreshInv, Dated, Numbered, Explained

LEMMA FreshBroadcast ==
  ASSUME TypeOK, OnceInv, FreshInv, NEW n \in Nodes, Broadcast(n)
  PROVE  FreshInv'
<1>0. PICK new \in Copy :
        new = [key |-> <<n, made[n] + 1>>, src |-> address[n], id |-> nextId[n],
               hops |-> maxHops[n], relays |-> 0, age |-> 0]
  <2>1. [key |-> <<n, made[n] + 1>>, src |-> address[n], id |-> nextId[n],
         hops |-> maxHops[n], relays |-> 0, age |-> 0] \in Copy
    BY DEF TypeOK, Broadcast, Copy, Keys
  <2> QED
    BY <2>1
<1>1. /\ OnAir(n, new) /\ made' = [made EXCEPT ![n] = @ + 1]
      /\ nextId' = [nextId EXCEPT ![n] = AfterId(@)]
      /\ Interval[n] # 0 /\ beacon[n] = 0
      /\ UNCHANGED <<seen, repeats, accepted, missed>>
  BY <1>0 DEF Broadcast, countVars
<1>3. \A x \in Copy : Flying(x)' => Flying(x) \/ x = new
  BY <1>1 DEF Flying, OnAir
<1>4. new.key = <<n, made[n] + 1>> /\ new.id = nextId[n] /\ new.age = 0
  BY <1>0
<1>5. PICK jitter \in 0..BeaconJitter : beacon' = [beacon EXCEPT ![n] = Interval[n] + jitter]
  BY DEF Broadcast
<1>6. /\ made[n] \in Nat /\ Interval[n] \in Nat /\ jitter \in Nat /\ beacon[n] = 0
      /\ made'[n] = made[n] + 1 /\ beacon'[n] = Interval[n] + jitter
  BY <1>1, <1>5, SinceTyped DEF TypeOK
<1>7. Since(n) = Interval[n] /\ Since(n)' = 0
  BY <1>1, <1>6 DEF Since
<1>8. \A m \in Nodes \ {n} : Since(m)' = Since(m) /\ made'[m] = made[m] /\ nextId'[m] = nextId[m]
  BY <1>1, <1>5 DEF Since, TypeOK
<1>9. ASSUME NEW k \in Keys PROVE Elapsed(k)' = Elapsed(k)
  <2>1. CASE k[1] = n
    <3>1. k[2] \in Int
      BY KeyTyped
    <3>2. (made[n] + 1 - k[2]) * Interval[n] + 0 = (made[n] - k[2]) * Interval[n] + Interval[n]
      BY <1>6, <3>1
    <3>3. Elapsed(k)' = (made[n] + 1 - k[2]) * Interval[n] + 0
      <4>1. ~(beacon'[n] < Interval[n])
        BY <1>6
      <4>2. Elapsed(k)' = (made'[n] - k[2]) * Interval[n] + 0
        BY <2>1, <4>1 DEF Elapsed, Since
      <4> QED
        BY <1>6, <3>1, <4>2
    <3>4. Elapsed(k) = (made[n] - k[2]) * Interval[n] + Interval[n]
      BY <1>7, <2>1 DEF Elapsed
    <3> QED
      BY <3>2, <3>3, <3>4
  <2>2. CASE k[1] # n
    BY <1>8, <2>2, KeyTyped DEF Elapsed
  <2> QED
    BY <2>1, <2>2
<1>10. Elapsed(new.key)' = 0
  <2>1. new.key[1] = n /\ new.key[2] = made[n] + 1
    BY <1>4
  <2>2. Elapsed(new.key)' = (made[n] + 1 - (made[n] + 1)) * Interval[n] + 0
    BY <1>6, <1>7, <2>1 DEF Elapsed
  <2>3. made[n] + 1 - (made[n] + 1) = 0 /\ 0 * Interval[n] + 0 = 0
    BY <1>6
  <2> QED
    BY <2>2, <2>3
<1>11. Dated'
  <2> SUFFICES ASSUME NEW x \in Copy, Flying(x)' PROVE Elapsed(x.key)' <= x.age
    BY DEF Dated
  <2>1. CASE Flying(x)
    <3>1. x.key \in Keys
      BY DEF Copy
    <3> QED
      BY <1>9, <2>1, <3>1 DEF FreshInv, Dated
  <2>2. CASE x = new
    <3>1. Elapsed(new.key)' <= new.age
      BY <1>4, <1>10
    <3> QED
      BY <2>2, <3>1
  <2> QED
    BY <1>3, <2>1, <2>2
<1>12. Numbered'
  <2>1. Turn(made[n], nextId[n])
    BY DEF FreshInv, Numbered
  <2>2. Turn(made[n] + 1, AfterId(nextId[n]))
    BY <1>6, <2>1, NextTurn DEF TypeOK
  <2>3. nextId'[n] = AfterId(nextId[n])
    BY <1>1 DEF TypeOK
  <2>4. \A m \in Nodes : Turn(made'[m], nextId'[m]) /\ (made'[m] > 0 => Interval[m] # 0)
    BY <1>1, <1>6, <1>8, <2>2, <2>3 DEF FreshInv, Numbered
  <2>5. Turn(new.key[2] - 1, new.id)
    <3>1. new.key[2] - 1 = made[n]
      BY <1>4, <1>6
    <3> QED
      BY <1>4, <2>1, <3>1
  <2>6. \A x \in Copy : Flying(x)' => Turn(x.key[2] - 1, x.id)
    BY <1>3, <2>5 DEF FreshInv, Numbered
  <2> QED
    BY <2>4, <2>6 DEF Numbered
<1>13. Explained'
  <2> SUFFICES ASSUME NEW m \in Nodes, NEW p \in Pairs, Known(m, p)'
               PROVE  \E k \in Keys : StandsFor(m, p, k)'
    BY DEF Explained
  <2>1. Known(m, p)
    BY <1>1 DEF Known
  <2>2. PICK k \in Keys : StandsFor(m, p, k)
    BY <2>1 DEF FreshInv, Explained
  <2>3. StandsFor(m, p, k)'
    BY <1>1, <1>9, <2>2 DEF StandsFor
  <2> QED
    BY <2>3
<1> QED
  BY <1>1, <1>11, <1>12, <1>13 DEF FreshInv

\* What a node takes is from then on what its entry stands for.
LEMMA FreshTaken ==
  ASSUME TypeOK, OnceInv, FreshInv, UNCHANGED <<made, beacon>>,
         NEW x \in Copy, Flying(x), NEW n \in Nodes,
         seen'[n][<<x.src, x.id>>] = 0, accepted'[n][x.key] > 0
  PROVE  StandsFor(n, <<x.src, x.id>>, x.key)'
<1>1. x.key \in Keys /\ x.age \in 0..Ttl
  BY DEF Copy
<1>2. Elapsed(x.key) \in Int /\ Elapsed(x.key)' = Elapsed(x.key)
  BY <1>1, ElapsedTyped DEF Elapsed, Since
<1>3. Elapsed(x.key) <= x.age /\ Turn(x.key[2] - 1, x.id)
  BY DEF FreshInv, Dated, Numbered
<1>4. Address[x.key[1]] = x.src /\ x.age < Ttl
  BY DEF OnceInv, Genuine
<1>5. Elapsed(x.key)' <= 0 + Ttl - 1
  BY <1>1, <1>2, <1>3, <1>4
<1> QED
  BY <1>3, <1>4, <1>5 DEF StandsFor

LEMMA FreshPoll ==
  ASSUME TypeOK, OnceInv, FreshInv, AddressesDistinct, IdsOutlastWindows, InTime',
         NEW n \in Nodes, DropEcho(n) \/ DropDuplicate(n) \/ Accept(n)
  PROVE  FreshInv'
<1>0. PICK copy \in Copy : copy = radio[n]
  BY RadioTyped DEF DropEcho, DropDuplicate, Accept
<1> DEFINE pair == <<copy.src, copy.id>>
<1>1. Takes(n) /\ UNCHANGED <<made, nextId, beacon>>
  BY DEF DropEcho, DropDuplicate, Accept, sendVars
<1>2. copy \in Copy /\ copy.key \in Keys /\ pair \in Pairs /\ Flying(copy)
  BY <1>0, <1>1, RadioTyped, PairTyped DEF Flying
<1>3. CASE DropEcho(n)
  <2>1. \A x \in Copy : Flying(x)' => \E y \in Copy : Flying(y) /\ Same(x, y)
    BY <1>1, <1>3 DEF DropEcho, Takes, Flying, Same, TypeOK
  <2>2. UNCHANGED <<seen, accepted, missed>>
    BY <1>3 DEF DropEcho, countVars
  <2>3. ~missed'
    BY <2>2 DEF FreshInv
  <2> QED
    BY <1>1, <2>1, <2>2, <2>3, FreshKept
<1>4. CASE DropDuplicate(n)
  <2>1. \A x \in Copy : Flying(x)' => \E y \in Copy : Flying(y) /\ Same(x, y)
    BY <1>1, <1>4 DEF DropDuplicate, Takes, Flying, Same, TypeOK
  <2>2. /\ Known(n, pair) /\ Refresh(n, pair) /\ accepted' = accepted
        /\ missed' = (missed \/ accepted[n][copy.key] = 0)
    BY <1>0, <1>4 DEF DropDuplicate
  <2>3. accepted[n][copy.key] > 0
    BY <1>2, <2>2, EntryIsOwn DEF FreshInv
  <2>4. accepted[n][copy.key] # 0
    BY <2>3
  <2>5. ~missed'
    BY <2>2, <2>4 DEF FreshInv
  <2>6. seen'[n][pair] = 0
    BY <1>2, <2>2, RefreshTyped
  <2>7. StandsFor(n, pair, copy.key)'
    BY <1>1, <1>2, <2>2, <2>3, <2>6, FreshTaken
  <2>8. \A m \in Nodes, p \in Pairs : seen'[m][p] = seen[m][p] \/ (m = n /\ p = pair)
    BY <1>2, <2>2 DEF Refresh, TypeOK
  <2> QED
    BY <1>1, <1>2, <2>1, <2>2, <2>5, <2>7, <2>8, FreshKept
<1>5. CASE Accept(n)
  <2>1. /\ Remember(n, pair) /\ Queue(n, copy) /\ missed' = missed
        /\ accepted' = [accepted EXCEPT ![n][copy.key] = @ + 1]
    BY <1>0, <1>5 DEF Accept
  <2>2. \A m \in Nodes, t \in Slots :
           \/ repeats'[m][t] = repeats[m][t]
           \/ /\ m = n /\ Same(repeats'[m][t], copy) /\ repeats'[m][t] \in Copy
              /\ \A u \in Slots \ {t} : repeats'[m][u] = repeats[m][u]
    BY <1>2, <2>1, Enqueued
  <2>3. \A x \in Copy : Flying(x)' => \E y \in Copy : Flying(y) /\ Same(x, y)
    <3> SUFFICES ASSUME NEW x \in Copy, Flying(x)'
                 PROVE  \E y \in Copy : Flying(y) /\ Same(x, y)
      OBVIOUS
    <3>1. ASSUME NEW m \in Nodes, radio'[m] = x
          PROVE  Flying(x)
      BY <1>1, <3>1 DEF Takes, Flying, TypeOK
    <3>2. ASSUME NEW m \in Nodes, NEW t \in Slots, repeats'[m][t] = x
          PROVE  Flying(x) \/ Same(x, copy)
      BY <2>2, <3>2 DEF Flying
    <3> QED
      BY <1>2, <3>1, <3>2 DEF Flying, Same
  <2>4. Refresh(n, pair)
    BY <2>1 DEF Remember, InTime
  <2>5. \A m \in Nodes, k \in Keys : accepted[m][k] \in Nat
    BY DEF TypeOK
  <2>6. \A m \in Nodes, k \in Keys :
           accepted'[m][k] = IF m = n /\ k = copy.key THEN accepted[m][k] + 1 ELSE accepted[m][k]
    BY <1>2, <2>1 DEF TypeOK
  <2>7. /\ accepted'[n][copy.key] > 0
        /\ \A m \in Nodes, k \in Keys : accepted[m][k] > 0 => accepted'[m][k] > 0
    BY <1>2, <2>5, <2>6
  <2>8. seen'[n][pair] = 0
    BY <1>2, <2>4, RefreshTyped
  <2>9. StandsFor(n, pair, copy.key)'
    BY <1>1, <1>2, <2>7, <2>8, FreshTaken
  <2>10. \A m \in Nodes, p \in Pairs : seen'[m][p] = seen[m][p] \/ (m = n /\ p = pair)
    BY <1>2, <2>4 DEF Refresh, TypeOK
  <2>11. ~missed'
    BY <2>1 DEF FreshInv
  <2> QED
    BY <1>1, <1>2, <2>3, <2>7, <2>9, <2>10, <2>11, FreshKept
<1> QED
  BY <1>3, <1>4, <1>5

LEMMA FreshSend ==
  ASSUME TypeOK, FreshInv, NEW n \in Nodes, SendRepeat(n)
  PROVE  FreshInv'
<1>1. PICK s \in Slots : First(s, Due(n)) /\ OnAir(n, repeats[n][s]) /\ ReleaseSlot(n, s)
  BY DEF SendRepeat
<1>2. UNCHANGED <<made, nextId, beacon, seen, accepted, missed>>
  BY DEF SendRepeat, sendVars
<1>3. \A m \in Nodes : radio'[m] \in {repeats[n][s], None, radio[m]}
  BY <1>1 DEF OnAir
<1>4. \A m \in Nodes, t \in Slots : repeats'[m][t] \in {repeats[m][t], None}
  BY <1>1 DEF ReleaseSlot, TypeOK
<1>5. \A x \in Copy : Flying(x)' => \E y \in Copy : Flying(y) /\ Same(x, y)
  BY <1>3, <1>4 DEF Flying, Same
<1>6. ~missed'
  BY <1>2 DEF FreshInv
<1> QED
  BY <1>2, <1>5, <1>6, FreshKept

LEMMA FreshOutside ==
  ASSUME TypeOK, FreshInv, NEW n \in Nodes,
         FallAsleep(n) \/ WakeUp(n) \/ TransferBegins(n) \/ TransferEnds(n)
  PROVE  FreshInv'
<1>1. UNCHANGED <<made, nextId, beacon, seen, repeats, accepted, missed>>
  BY DEF FallAsleep, WakeUp, TransferBegins, TransferEnds, sendVars, countVars
<1>2. radio' = radio \/ radio' = [radio EXCEPT ![n] = None]
  BY DEF FallAsleep, WakeUp, TransferBegins, TransferEnds
<1>3. \A x \in Copy : Flying(x)' => \E y \in Copy : Flying(y) /\ Same(x, y)
  BY <1>1, <1>2 DEF Flying, Same, TypeOK
<1>4. ~missed'
  BY <1>1 DEF FreshInv
<1> QED
  BY <1>1, <1>3, <1>4, FreshKept

LEMMA FreshTick ==
  ASSUME TypeOK, OnceInv, FreshInv, Tick, InTime'
  PROVE  FreshInv'
<1>1. /\ UNCHANGED <<made, nextId, accepted, missed>>
      /\ seen' = [m \in Nodes |-> [p \in Pairs |-> Older(seen[m][p])]]
      /\ repeats' = [m \in Nodes |-> [t \in Slots |-> Aged(repeats[m][t])]]
      /\ radio' = [m \in Nodes |-> Aged(radio[m])]
      /\ beacon' = [m \in Nodes |-> IF beacon[m] > 0 THEN beacon[m] - 1 ELSE 0]
  BY DEF Tick, countVars
<1>2. \A m \in Nodes : Since(m)' <= Since(m) + 1 /\ Since(m)' \in Int /\ Since(m) \in Int
  <2> SUFFICES ASSUME NEW m \in Nodes
               PROVE  Since(m)' <= Since(m) + 1 /\ Since(m)' \in Int /\ Since(m) \in Int
    OBVIOUS
  <2>1. Interval[m] \in Nat /\ beacon[m] \in Nat /\ beacon'[m] = IF beacon[m] > 0 THEN beacon[m] - 1 ELSE 0
    BY <1>1, SinceTyped
  <2> QED
    BY <2>1 DEF Since
<1>3. ASSUME NEW k \in Keys
      PROVE  Elapsed(k)' <= Elapsed(k) + 1 /\ Elapsed(k)' \in Int /\ Elapsed(k) \in Int
  <2> DEFINE rounds == (made[k[1]] - k[2]) * Interval[k[1]]
  <2>1. rounds \in Int
    BY SinceTyped, KeyTyped
  <2>2. Elapsed(k)' = rounds + Since(k[1])' /\ Elapsed(k) = rounds + Since(k[1])
    BY <1>1 DEF Elapsed
  <2> HIDE DEF rounds
  <2> QED
    BY <1>2, <2>1, <2>2, KeyTyped
<1>4. ASSUME NEW x \in Copy, Flying(x)'
      PROVE  \E y \in Copy : /\ Flying(y) /\ x.key = y.key /\ x.id = y.id
                             /\ x.age = Older(y.age)
  <2>1. Aged(None) = None
    BY DEF Aged
  <2>2. ASSUME NEW m \in Nodes, radio'[m] = x
        PROVE  radio[m] \in Copy /\ x = Aged(radio[m])
    BY <1>1, <2>1, <2>2 DEF TypeOK
  <2>3. ASSUME NEW m \in Nodes, NEW t \in Slots, repeats'[m][t] = x
        PROVE  repeats[m][t] \in Copy /\ x = Aged(repeats[m][t])
    BY <1>1, <2>1, <2>3 DEF TypeOK
  <2>4. PICK y \in Copy : Flying(y) /\ x = Aged(y)
    BY <1>4, <2>2, <2>3 DEF Flying
  <2> QED
    BY <2>4, AgedTyped
<1>5. Dated'
  <2> SUFFICES ASSUME NEW x \in Copy, Flying(x)' PROVE Elapsed(x.key)' <= x.age
    BY DEF Dated
  <2>1. PICK y \in Copy : /\ Flying(y) /\ x.key = y.key /\ x.id = y.id /\ x.age = Older(y.age)
    BY <1>4
  <2>2. y.age < Ttl /\ y.age \in Nat /\ x.key \in Keys
    BY <2>1 DEF OnceInv, Genuine, Copy
  <2>3. Elapsed(x.key) <= y.age
    BY <2>1 DEF FreshInv, Dated
  <2>4. x.age = y.age + 1
    BY <2>1, <2>2 DEF Older
  <2> QED
    BY <1>3, <2>2, <2>3, <2>4
<1>6. Numbered'
  BY <1>1, <1>4 DEF FreshInv, Numbered
<1>7. Explained'
  <2> SUFFICES ASSUME NEW m \in Nodes, NEW p \in Pairs, Known(m, p)'
               PROVE  \E k \in Keys : StandsFor(m, p, k)'
    BY DEF Explained
  <2>1. seen[m][p] \in 0..Ttl /\ seen'[m][p] = Older(seen[m][p]) /\ seen'[m][p] < Ttl
    BY <1>1 DEF TypeOK, Known
  <2>2. seen[m][p] < Ttl /\ seen'[m][p] = seen[m][p] + 1
    BY <2>1 DEF Older
  <2>3. PICK k \in Keys : StandsFor(m, p, k)
    BY <2>2 DEF Known, FreshInv, Explained
  <2>4. Elapsed(k)' <= seen'[m][p] + Ttl - 1
    <3>1. Elapsed(k) <= seen[m][p] + Ttl - 1
      BY <2>3 DEF StandsFor
    <3> QED
      BY <1>3, <2>1, <2>2, <3>1
  <2>5. StandsFor(m, p, k)'
    BY <1>1, <2>3, <2>4 DEF StandsFor
  <2> QED
    BY <2>5
<1> QED
  BY <1>1, <1>5, <1>6, <1>7 DEF FreshInv

PassInv == HandledInv /\ (InTime => FreshInv)

LEMMA FreshNext ==
  ASSUME AddressesDistinct, IdsOutlastWindows
  PROVE  PassInv /\ [Next]_vars => PassInv'
<1> SUFFICES ASSUME PassInv, [Next]_vars, InTime' PROVE FreshInv'
  BY OnceNext DEF PassInv
<1>1. TypeOK
  BY DEF PassInv, HandledInv
<1>2. CASE UNCHANGED vars
  <2>1. FreshInv
    BY <1>2 DEF PassInv, InTime, vars, lapseVars
  <2> QED
    BY <1>2, <2>1 DEF FreshInv, Dated, Numbered, Explained, StandsFor, Known, Elapsed, Since, Flying,
                      vars, confVars, sendVars, countVars
<1>3. CASE Next
  <2>1. OnceInv /\ FreshInv
    BY <1>1, <1>3, InTimeBefore DEF PassInv, HandledInv
  <2>2. CASE Tick
    BY <1>1, <2>1, <2>2, FreshTick
  <2>3. ASSUME NEW n \in Nodes, Step(n) PROVE FreshInv'
    <3>1. ~Reset(n) /\ ~Reconfigure(n)
      BY DEF Reset, Reconfigure, Forgets, InTime
    <3> QED
      BY <1>1, <2>1, <2>3, <3>1, FreshBroadcast, FreshPoll, FreshSend, FreshOutside DEF Step
  <2> QED
    BY <1>3, <2>2, <2>3 DEF Next
<1> QED
  BY <1>2, <1>3

\* RadioConfig::dedup_ttl_s, for every network whose addresses differ and whose
\* senders need two windows for all their ids: while copies are younger than
\* the window and no node has lost an entry, no new broadcast is dropped for an
\* earlier one under the same id, whatever renewed its entry.
THEOREM NewBroadcastsPass ==
  ASSUME AddressesDistinct, IdsOutlastWindows
  PROVE  Spec => []FreshFramesPass
<1>1. Init => PassInv
  BY OnceInit, FreshInit DEF PassInv
<1>2. PassInv /\ [Next]_vars => PassInv'
  BY FreshNext
<1>3. PassInv => FreshFramesPass
  BY DEF PassInv, FreshInv, FreshFramesPass
<1> QED
  BY <1>1, <1>2, <1>3, PTL DEF Spec
=============================================================================
