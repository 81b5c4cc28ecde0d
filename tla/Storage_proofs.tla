--------------------------- MODULE Storage_proofs ---------------------------
(***************************************************************************)
(* Storage for every set of texts and cards and every bound: types, what a *)
(* start adopts, that a backed board keeps a config, and that the log gets *)
(* its lines and one header, first.                                        *)
(***************************************************************************)
EXTENDS Storage, SequenceTheorems, TLAPS

USE BoundsAssumption

(***************************************************************************)
(* Lines, logs and the buffer.                                             *)
(***************************************************************************)

\* No line of the buffer is a header; a log of one header before its lines.
OneHeader(s) == \A i \in 2..Len(s) : s[i] # Header

LEMMA RowsTyped == Rows \subseteq Nat /\ Header \in Nat /\ Header \notin Rows /\ 0 \in Rows
BY DEF Rows, Header

\* A file that is not there differs from every log.
LEMMA NoLogFile ==
  ASSUME NEW s \in Seq(Rows \cup {Header})
  PROVE  s # None
<1>1. Rows \cup {Header} \subseteq Nat
  BY RowsTyped
<1>2. s \in Seq(Nat)
  BY <1>1
<1> QED
  BY <1>2, NoLogAssumption

LEMMA PendingIsLog ==
  ASSUME NEW q \in Seq(Rows)
  PROVE  q \in Seq(Rows \cup {Header}) /\ \A i \in 1..Len(q) : q[i] # Header
<1>1. \A i \in 1..Len(q) : q[i] \in Rows
  BY ElementOfSeq
<1> QED
  BY <1>1, RowsTyped

LEMMA JoinLines ==
  ASSUME NEW s \in Seq(Rows \cup {Header}), OneHeader(s), NEW q \in Seq(Rows)
  PROVE  s \o q \in Seq(Rows \cup {Header}) /\ OneHeader(s \o q)
<1>1. Len(q) \in Nat /\ Len(s) \in Nat
  BY LenProperties
<1>2. /\ s \o q \in Seq(Rows \cup {Header})
      /\ Len(s \o q) = Len(s) + Len(q)
      /\ \A i \in 1..Len(s) + Len(q) : (s \o q)[i] = IF i <= Len(s) THEN s[i] ELSE q[i - Len(s)]
  BY PendingIsLog, ConcatProperties
<1>3. ASSUME NEW i \in 2..Len(s) + Len(q) PROVE (s \o q)[i] # Header
  <2>1. CASE i <= Len(s)
    BY <1>1, <1>2, <2>1 DEF OneHeader
  <2>2. CASE i > Len(s)
    <3>1. (s \o q)[i] = q[i - Len(s)] /\ i - Len(s) \in 1..Len(q)
      BY <1>1, <1>2, <2>2
    <3> QED
      BY <3>1, PendingIsLog
  <2> QED
    BY <1>1, <2>1, <2>2
<1> QED
  BY <1>1, <1>2, <1>3 DEF OneHeader

\* What follows in a sequence is still in it after another.
LEMMA JoinKeeps ==
  ASSUME NEW s \in Seq(Rows \cup {Header}), NEW q \in Seq(Rows), NEW i \in 1..Len(q)
  PROVE  q[i] \in Lines(s \o q)
<1>1. Len(q) \in Nat /\ Len(s) \in Nat
  BY LenProperties
<1>2. /\ Len(s \o q) = Len(s) + Len(q)
      /\ \A j \in 1..Len(s) + Len(q) : (s \o q)[j] = IF j <= Len(s) THEN s[j] ELSE q[j - Len(s)]
  BY PendingIsLog, ConcatProperties
<1>3. Len(s) + i \in 1..Len(s) + Len(q) /\ ~(Len(s) + i <= Len(s)) /\ (Len(s) + i) - Len(s) = i
  BY <1>1
<1>4. (s \o q)[Len(s) + i] = q[i]
  BY <1>2, <1>3
<1> QED
  BY <1>2, <1>3, <1>4 DEF Lines

LEMMA DropTyped ==
  ASSUME NEW q \in Seq(Rows), Len(q) = Room
  PROVE  /\ DropOldest(q) \in Seq(Rows) /\ Len(DropOldest(q)) < Room
         /\ \A i \in 1..Len(q) : i > Room \div 2 + 1 => q[i] \in Lines(DropOldest(q))
<1> DEFINE m == Room \div 2 + 2
           r == SubSeq(q, m, Len(q))
           d == <<0>> \o r
<1>1. m \in Nat /\ m >= 3 /\ m <= Room + 1 /\ Room \in Nat
  OBVIOUS
<1>2. \A i \in m..Len(q) : q[i] \in Rows
  BY <1>1, ElementOfSeq
<1> HIDE DEF m
<1>3. /\ r \in Seq(Rows)
      /\ Len(r) = IF m <= Room THEN Room - m + 1 ELSE 0
      /\ \A i \in 1..Room - m + 1 : r[i] = q[m + i - 1]
  BY <1>1, <1>2, SubSeqProperties
<1>4. Len(r) = Room - m + 1
  BY <1>1, <1>3
<1>5. <<0>> \in Seq(Rows) /\ Len(<<0>>) = 1
  BY RowsTyped
<1> HIDE DEF r
<1>6. /\ d \in Seq(Rows) /\ Len(d) = 1 + Len(r)
      /\ \A i \in 1..1 + Len(r) : d[i] = IF i <= 1 THEN <<0>>[i] ELSE r[i - 1]
  BY <1>3, <1>5, ConcatProperties
<1> HIDE DEF d
<1>7. Len(d) < Room
  BY <1>1, <1>4, <1>6
<1>8. ASSUME NEW i \in 1..Len(q), i >= m PROVE q[i] \in Lines(d)
  <2> DEFINE j == i - m + 2
  <2>1. j \in 1..1 + Len(r) /\ ~(j <= 1) /\ j - 1 \in 1..Room - m + 1 /\ m + (j - 1) - 1 = i
    BY <1>1, <1>4, <1>8
  <2> HIDE DEF j
  <2>2. d[j] = r[j - 1]
    BY <1>6, <2>1
  <2>3. r[j - 1] = q[m + (j - 1) - 1]
    BY <1>3, <2>1
  <2>4. d[j] = q[i]
    BY <2>1, <2>2, <2>3
  <2> QED
    BY <1>6, <2>1, <2>4 DEF Lines
<1>9. ASSUME NEW i \in 1..Len(q), i > Room \div 2 + 1 PROVE i >= m
  BY <1>9, LenProperties DEF m
<1>10. d = DropOldest(q)
  BY DEF d, r, m, DropOldest
<1> QED
  BY <1>6, <1>7, <1>8, <1>9, <1>10

LEMMA AppendKeeps ==
  ASSUME NEW q \in Seq(Rows), NEW e \in Rows
  PROVE  /\ Append(q, e) \in Seq(Rows) /\ Len(Append(q, e)) = Len(q) + 1
         /\ Lines(q) \subseteq Lines(Append(q, e))
<1>1. /\ Append(q, e) \in Seq(Rows) /\ Len(Append(q, e)) = Len(q) + 1 /\ Len(q) \in Nat
      /\ \A i \in 1..Len(q) : Append(q, e)[i] = q[i]
  BY AppendProperties, LenProperties
<1>2. ASSUME NEW i \in 1..Len(q) PROVE q[i] \in Lines(Append(q, e))
  <2>1. i \in 1..Len(Append(q, e)) /\ Append(q, e)[i] = q[i]
    BY <1>1
  <2> QED
    BY <2>1 DEF Lines
<1> QED
  BY <1>1, <1>2 DEF Lines

-----------------------------------------------------------------------------
USE ConfigAssumption, CardAssumption

Pushing == pc \in {"open", "rewrite", "flash", "program"}

\* Only a card in the slot has answered init, and nothing is mounted before the
\* first poll; what init mounted it can read unless somebody was at the card.
MountInv ==
  /\ inited => slot \in Cards
  /\ pc \in {"off", "boot"} => ~mounted
  /\ pc = "config" /\ mounted /\ ~touched => inited

\* A push is of one config; once write_config has succeeded the card has it.
PushInv ==
  /\ Pushing => cfg \in Configs /\ report = None
  /\ pc \in {"open", "rewrite"} => ~sdOk
  /\ pc \in {"flash", "program"} /\ sdOk /\ ~touched => slot \in Cards /\ text[slot] = cfg

\* The stores named in a report hold what was reported.
ReportInv ==
  report # None =>
    /\ report.cfg \in Configs
    /\ report.flash => page = report.cfg
    /\ report.sd /\ ~touched => slot \in Cards /\ text[slot] = report.cfg

\* Of a backed board the file and the page are whole, unless that store was spoiled
\* or is being rewritten.
BackedInv ==
  backed =>
    /\ slot \in Cards
    /\ text[slot] \in Configs \/ slot \in spoiled \/ pc = "rewrite"
    /\ page \in Configs \/ "page" \in spoiled \/ pc = "program"

\* Only a spoiled card has the first part of a text, and only a start adopts it.
WholeInv ==
  /\ cfg \in Configs \cup {Factory, Torn}
  /\ cfg = Torn => spoiled \cap Cards # {}
  /\ \A k \in Cards : text[k] = Torn => k \in spoiled

StoresTyped ==
  /\ slot \in Cards \cup {None} /\ inited \in BOOLEAN
  /\ text \in [Cards -> Texts] /\ page \in Configs \cup {None, Partial}
  /\ spoiled \subseteq Cards \cup {"page"} /\ misread \subseteq Cards

StoreInv == StoresTyped /\ WholeInv /\ MountInv /\ PushInv /\ ReportInv /\ BackedInv

-----------------------------------------------------------------------------
(***************************************************************************)
(* What a start adopts.                                                    *)
(***************************************************************************)
LEMMA ChoiceTyped ==
  ASSUME NEW t, page \in Configs \cup {None, Partial}
  PROVE  Choice(t) \in Configs \cup {Factory, Torn} /\ (Choice(t) = Torn => t = Torn)
BY DEF Choice, Parsed, Stored

LEMMA ChoiceCard ==
  ASSUME NEW c \in Configs
  PROVE  Choice(c) = c
BY DEF Choice, Parsed

LEMMA ChoicePage ==
  ASSUME page \in Configs
  PROVE  Choice(None) = page
BY DEF Choice, Parsed, Stored

-----------------------------------------------------------------------------
(***************************************************************************)
(* One lemma per action.                                                   *)
(***************************************************************************)
LEMMA StoreInit == Init => StoreInv
<1> SUFFICES ASSUME Init PROVE StoreInv
  OBVIOUS
<1>1. \A k \in Cards : text[k] \in Texts
  BY DEF Init, Texts
<1>2. StoresTyped
  BY <1>1 DEF Init, StoresTyped
<1>3. \A k \in Cards : text[k] # Torn
  BY DEF Init
<1> QED
  BY <1>2, <1>3 DEF Init, StoreInv, WholeInv, MountInv, PushInv, ReportInv, BackedInv, Pushing

LEMMA BootMountStep == StoreInv /\ BootMount => StoreInv'
<1> SUFFICES ASSUME StoreInv, BootMount PROVE StoreInv'
  OBVIOUS
<1> USE DEF StoreInv, BootMount, history
<1>1. StoresTyped' /\ WholeInv'
  BY DEF StoresTyped, WholeInv, Mount, MountFails
<1>2. slot' = slot /\ text' = text /\ page' = page /\ cfg' = cfg /\ sdOk' = sdOk
      /\ report' = report /\ touched' = touched /\ backed' = backed /\ spoiled' = spoiled
      /\ pc = "boot" /\ pc' = "config"
  OBVIOUS
<1>3. MountInv'
  BY DEF MountInv, StoresTyped, Mount, MountFails, mountVars
<1>4. PushInv' /\ ReportInv' /\ BackedInv'
  BY <1>2 DEF PushInv, ReportInv, BackedInv, Pushing
<1> QED
  BY <1>1, <1>3, <1>4

LEMMA BootConfigStep == StoreInv /\ BootConfig => StoreInv'
<1> SUFFICES ASSUME StoreInv, BootConfig PROVE StoreInv'
  OBVIOUS
<1> USE DEF StoreInv
<1>1. slot' = slot /\ text' = text /\ page' = page /\ sdOk' = sdOk
      /\ report' = report /\ touched' = touched /\ backed' = backed
      /\ spoiled' = spoiled /\ misread' = misread
      /\ pc = "config" /\ pc' = "loop"
  BY DEF BootConfig, history
<1>2. cfg' = Choice(None) \/ (slot \in Cards /\ cfg' = Choice(text[slot]))
  BY DEF BootConfig, Adopt, CardWorks, MountInv
<1>3. inited' \in BOOLEAN /\ (inited' => inited)
  BY DEF BootConfig, Adopt, StoresTyped
<1>4. StoresTyped' /\ page \in Configs \cup {None, Partial} /\ Torn # None
  BY <1>1, <1>3 DEF StoresTyped
<1>5. WholeInv'
  BY <1>1, <1>2, <1>4, ChoiceTyped DEF WholeInv
<1>6. MountInv' /\ PushInv' /\ ReportInv' /\ BackedInv'
  BY <1>1, <1>3 DEF MountInv, PushInv, ReportInv, BackedInv, Pushing
<1> QED
  BY <1>4, <1>5, <1>6

LEMMA PushStep == ASSUME NEW c \in Configs PROVE StoreInv /\ Push(c) => StoreInv'
<1> SUFFICES ASSUME StoreInv, Push(c) PROVE StoreInv'
  OBVIOUS
<1> USE DEF StoreInv, Push, cardVars, mountVars
<1>1. StoresTyped' /\ WholeInv'
  BY DEF StoresTyped, WholeInv
<1>2. MountInv' /\ PushInv' /\ ReportInv' /\ BackedInv'
  BY DEF MountInv, PushInv, ReportInv, BackedInv, Pushing
<1> QED
  BY <1>1, <1>2

\* A failed operation on the file keeps what the push promised.
LEMMA LeftStep ==
  ASSUME StoreInv, NEW texts, texts \subseteq Texts, Left(texts),
         pc \in {"open", "rewrite"}, pc' = "flash",
         UNCHANGED <<slot, page, cfg, report, touched, backed, misread>>
  PROVE  StoreInv'
<1> USE DEF StoreInv
<1>1. cfg \in Configs /\ report = None /\ ~sdOk
  BY DEF PushInv, Pushing
<1>2. inited' = FALSE /\ mounted' = FALSE /\ sdOk' = sdOk /\ spoiled' = spoiled \cup ({slot} \cap Cards)
  BY DEF Left, Unmount
<1>3. text' = text \/ (slot \in Cards /\ \E t \in texts : text' = [text EXCEPT ![slot] = t])
  BY DEF Left, MountInv
<1>4. text' \in [Cards -> Texts] /\ \A k \in Cards : k # slot => text'[k] = text[k]
  BY <1>3 DEF StoresTyped
<1>5. StoresTyped'
  BY <1>2, <1>4 DEF StoresTyped
<1>6. WholeInv'
  BY <1>1, <1>2, <1>4 DEF WholeInv
<1>7. BackedInv'
  BY <1>2 DEF BackedInv
<1>8. MountInv' /\ PushInv' /\ ReportInv'
  BY <1>1, <1>2 DEF MountInv, PushInv, ReportInv, Pushing
<1> QED
  BY <1>5, <1>6, <1>7, <1>8

LEMMA OpenConfigStep == StoreInv /\ OpenConfig => StoreInv'
<1> SUFFICES ASSUME StoreInv, OpenConfig PROVE StoreInv'
  OBVIOUS
<1> USE DEF StoreInv
<1>1. pc = "open" /\ UNCHANGED <<slot, page, cfg, report, touched, backed, misread>>
  BY DEF OpenConfig
<1>2. CASE CardWorks /\ text' = [text EXCEPT ![slot] = Empty] /\ pc' = "rewrite"
           /\ inited' = inited /\ mounted' = mounted /\ sdOk' = sdOk /\ spoiled' = spoiled
  <2>1. \A k \in Cards : text'[k] \in {text[k], Empty}
    BY <1>2 DEF StoresTyped
  <2>2. StoresTyped' /\ WholeInv'
    BY <1>1, <1>2, <2>1 DEF StoresTyped, WholeInv, Texts
  <2>3. MountInv' /\ PushInv' /\ ReportInv' /\ BackedInv'
    BY <1>1, <1>2 DEF MountInv, PushInv, ReportInv, BackedInv, Pushing
  <2> QED
    BY <2>2, <2>3
<1>3. CASE Left({Empty} \cup (IF text[slot] \in {None, Empty} THEN {} ELSE {Bad})) /\ pc' = "flash"
  <2>1. {Empty} \cup (IF text[slot] \in {None, Empty} THEN {} ELSE {Bad}) \subseteq Texts
    BY DEF Texts
  <2> QED
    BY <1>1, <1>3, <2>1, LeftStep
<1> QED
  BY <1>2, <1>3 DEF OpenConfig, mountVars

LEMMA CloseConfigStep == StoreInv /\ CloseConfig => StoreInv'
<1> SUFFICES ASSUME StoreInv, CloseConfig PROVE StoreInv'
  OBVIOUS
<1> USE DEF StoreInv
<1>1. pc = "rewrite" /\ pc' = "flash"
      /\ UNCHANGED <<slot, page, cfg, report, touched, backed, misread>>
  BY DEF CloseConfig
<1>2. cfg \in Configs /\ report = None
  BY <1>1 DEF PushInv, Pushing
<1>3. CASE CardWorks /\ text' = [text EXCEPT ![slot] = cfg] /\ sdOk' = TRUE
           /\ inited' = inited /\ mounted' = mounted /\ spoiled' = spoiled \ {slot}
  <2>1. slot \in Cards
    BY <1>3 DEF CardWorks, MountInv
  <2>2. text'[slot] = cfg /\ \A k \in Cards : k # slot => text'[k] = text[k]
    BY <1>3, <2>1 DEF StoresTyped
  <2>3. StoresTyped'
    BY <1>1, <1>2, <1>3 DEF StoresTyped, Texts
  <2>4. WholeInv'
    BY <1>1, <1>2, <1>3, <2>2 DEF WholeInv
  <2>5. MountInv' /\ PushInv' /\ ReportInv' /\ BackedInv'
    BY <1>1, <1>2, <1>3, <2>1, <2>2 DEF MountInv, PushInv, ReportInv, BackedInv, Pushing
  <2> QED
    BY <2>3, <2>4, <2>5
<1>4. CASE Left({cfg, Torn, Bad})
  <2>1. {cfg, Torn, Bad} \subseteq Texts
    BY <1>2 DEF Texts
  <2> QED
    BY <1>1, <1>4, <2>1, LeftStep
<1> QED
  BY <1>3, <1>4 DEF CloseConfig, mountVars

LEMMA ReportStep ==
  ASSUME NEW ok \in BOOLEAN, StoreInv, pc \in {"flash", "program"}, Report(ok), StoreOnly,
         page' \in Configs \cup {None, Partial}, ok => page' = cfg
  PROVE  StoreInv'
<1> USE DEF StoreInv, StoreOnly, Report, cardVars, mountVars
<1>1. cfg \in Configs
  BY DEF PushInv, Pushing
<1>2. StoresTyped' /\ MountInv' /\ PushInv'
  BY DEF StoresTyped, MountInv, PushInv, Pushing
<1>7. \A k \in Cards : k \in spoiled' <=> k \in spoiled
  OBVIOUS
<1>8. WholeInv'
  BY <1>1, <1>7 DEF WholeInv
<1>3. report'.cfg = cfg /\ report'.sd = sdOk /\ report'.flash = ok
  OBVIOUS
<1>4. sdOk /\ ~touched => slot \in Cards /\ text[slot] = cfg
  BY DEF PushInv
<1>5. ReportInv'
  BY <1>1, <1>3, <1>4 DEF ReportInv
<1>6. BackedInv'
  <2> SUFFICES ASSUME backed' PROVE BackedInv'
    BY DEF BackedInv
  <2>1. slot \in Cards /\ (text[slot] \in Configs \/ slot \in spoiled)
    BY <1>1, <1>4 DEF BackedInv
  <2>2. page' \in Configs \/ "page" \in spoiled'
    BY <1>1
  <2> QED
    BY <1>7, <2>1, <2>2 DEF BackedInv
<1> QED
  BY <1>2, <1>5, <1>6, <1>8

LEMMA StoreFlashStep == StoreInv /\ StoreFlash => StoreInv'
<1> SUFFICES ASSUME StoreInv, StoreFlash PROVE StoreInv'
  OBVIOUS
<1>1. cfg \in Configs /\ report = None /\ page \in Configs \cup {None, Partial}
  BY DEF StoreInv, StoreFlash, PushInv, Pushing, StoresTyped
<1>2. CASE Stored = cfg /\ Report(TRUE) /\ page' = page
  BY <1>1, <1>2, ReportStep DEF StoreFlash, Stored
<1>3. CASE ErasePage
  <2> USE <1>3 DEF StoreInv, ErasePage, StoreFlash, StoreOnly, cardVars, mountVars, history
  <2>1. StoresTyped' /\ WholeInv' /\ MountInv'
    BY DEF StoresTyped, WholeInv, MountInv
  <2>2. PushInv' /\ ReportInv' /\ BackedInv'
    BY <1>1 DEF PushInv, ReportInv, BackedInv, Pushing
  <2> QED
    BY <2>1, <2>2
<1>4. CASE Report(FALSE) /\ page' \in {page, None, Partial}
  BY <1>1, <1>4, ReportStep DEF StoreFlash
<1> QED
  BY <1>2, <1>3, <1>4 DEF StoreFlash

LEMMA ProgramFlashStep == StoreInv /\ ProgramFlash => StoreInv'
<1> SUFFICES ASSUME StoreInv, ProgramFlash PROVE StoreInv'
  OBVIOUS
<1>1. cfg \in Configs
  BY DEF StoreInv, ProgramFlash, PushInv, Pushing
<1>2. CASE page' = cfg /\ Report(TRUE)
  BY <1>1, <1>2, ReportStep DEF ProgramFlash
<1>3. CASE page' \in {None, Partial} /\ Report(FALSE)
  BY <1>3, ReportStep DEF ProgramFlash
<1> QED
  BY <1>2, <1>3 DEF ProgramFlash

\* Steps of the log and of the mount leave the stores alone.
LEMMA LogStep ==
  ASSUME StoreInv, pc \notin {"off", "boot", "config"}, pc' \in {"loop", "flush"},
         UNCHANGED <<slot, text, page, cfg, sdOk, report, touched, backed, spoiled>>,
         misread' \subseteq Cards, inited' \in BOOLEAN, inited' => slot \in Cards,
         pc \in {"loop", "flush"}
  PROVE  StoreInv'
<1> USE DEF StoreInv
<1>1. StoresTyped' /\ WholeInv' /\ MountInv'
  BY DEF StoresTyped, WholeInv, MountInv
<1>2. PushInv' /\ ReportInv' /\ BackedInv'
  BY DEF PushInv, ReportInv, BackedInv, Pushing
<1> QED
  BY <1>1, <1>2

LEMMA LogSteps ==
  ASSUME StoreInv, LogPosition \/ RetryMount \/ Flush
  PROVE  StoreInv'
<1>1. pc \in {"loop", "flush"} /\ pc' \in {"loop", "flush"}
  BY DEF LogPosition, RetryMount, Flush, FlushOpen, FlushClose
<1>2. UNCHANGED <<slot, text, page, cfg, sdOk, report, touched, backed, spoiled>>
  BY DEF LogPosition, RetryMount, Flush, FlushOpen, FlushClose, FlushOnly, cardVars, history
<1>6. misread' \in {misread, misread \cup {slot}} /\ (misread' # misread => slot # None)
  BY DEF LogPosition, RetryMount, Flush, FlushOpen, FlushClose, FlushOnly, Mount, MountFails, history
<1>7. misread' \subseteq Cards
  BY <1>6 DEF StoreInv, StoresTyped
<1>3. inited' \in BOOLEAN
  BY DEF LogPosition, RetryMount, Flush, FlushOpen, FlushClose, FlushFails, Unmount, Mount,
         MountFails, cardVars, StoreInv, StoresTyped
<1>4. inited' => inited \/ slot # None
  BY DEF LogPosition, RetryMount, Flush, FlushOpen, FlushClose, FlushFails, Unmount, Mount,
         MountFails, cardVars
<1>5. inited' => slot \in Cards
  BY <1>4 DEF StoreInv, MountInv, StoresTyped
<1> QED
  BY <1>1, <1>2, <1>3, <1>5, <1>7, LogStep

LEMMA HandsStep ==
  ASSUME StoreInv, Hands
  PROVE  StoreInv'
<1> USE DEF StoreInv, Hands, Touch, mountVars
<1>1. StoresTyped'
  BY DEF StoresTyped, Pull, Insert, Edit, Texts
<1>2. touched' = TRUE /\ backed' = FALSE /\ pc' = pc /\ page' = page /\ mounted' = mounted
      /\ cfg' = cfg /\ sdOk' = sdOk /\ report' = report /\ spoiled' = spoiled
  BY DEF Pull, Insert, Edit
<1>5. \A k \in Cards : text'[k] = text[k] \/ text'[k] # Torn
  BY DEF Pull, Insert, Edit, StoresTyped
<1>3. inited' => inited /\ slot' = slot
  BY DEF Pull, Insert, Edit, MountInv
<1>4. WholeInv' /\ MountInv' /\ PushInv' /\ ReportInv' /\ BackedInv'
  BY <1>2, <1>3, <1>5 DEF WholeInv, MountInv, PushInv, ReportInv, BackedInv, Pushing
<1> QED
  BY <1>1, <1>4

LEMMA PowerStep ==
  ASSUME StoreInv, PowerFails \/ PowerReturns
  PROVE  StoreInv'
<1> USE DEF StoreInv
<1>1. CASE PowerFails
  <2>1. StoresTyped' /\ WholeInv' /\ MountInv'
    BY <1>1 DEF PowerFails, StoresTyped, WholeInv, MountInv
  <2>2. PushInv' /\ ReportInv' /\ BackedInv'
    BY <1>1 DEF PowerFails, PushInv, ReportInv, BackedInv, Pushing
  <2> QED
    BY <2>1, <2>2
<1>2. CASE PowerReturns
  <2> USE DEF PowerReturns, cardVars, mountVars, history
  <2>1. StoresTyped' /\ WholeInv' /\ MountInv'
    BY <1>2 DEF StoresTyped, WholeInv, MountInv
  <2>2. PushInv' /\ ReportInv' /\ BackedInv'
    BY <1>2 DEF PushInv, ReportInv, BackedInv, Pushing
  <2> QED
    BY <2>1, <2>2
<1> QED
  BY <1>1, <1>2

LEMMA StoreStep == StoreInv /\ [Next]_vars => StoreInv'
<1> SUFFICES ASSUME StoreInv, [Next]_vars PROVE StoreInv'
  OBVIOUS
<1>1. CASE Boot
  BY <1>1, BootMountStep, BootConfigStep DEF Boot
<1>2. CASE \E c \in Configs : Push(c)
  BY <1>2, PushStep
<1>3. CASE ConfigEnd
  BY <1>3, OpenConfigStep, CloseConfigStep, StoreFlashStep, ProgramFlashStep DEF ConfigEnd
<1>4. CASE LogPosition \/ RetryMount \/ Flush
  BY <1>4, LogSteps
<1>5. CASE Hands
  BY <1>5, HandsStep
<1>6. CASE PowerFails \/ PowerReturns
  BY <1>6, PowerStep
<1>7. CASE UNCHANGED vars
  <2> USE <1>7 DEF vars, cardVars, mountVars, history, StoreInv
  <2>1. StoresTyped' /\ WholeInv' /\ MountInv'
    BY DEF StoresTyped, WholeInv, MountInv
  <2>2. PushInv' /\ ReportInv' /\ BackedInv'
    BY DEF PushInv, ReportInv, BackedInv, Pushing
  <2> QED
    BY <2>1, <2>2
<1> QED
  BY <1>1, <1>2, <1>3, <1>4, <1>5, <1>6, <1>7 DEF Next

FaultsTyped == faults \in Nat

LEMMA FaultsStep == FaultsTyped /\ [Next]_vars => FaultsTyped'
<1> SUFFICES ASSUME FaultsTyped, [Next]_vars PROVE FaultsTyped'
  OBVIOUS
<1> USE DEF Fault, counters, CardWorks, CardFails
<1>1. CASE Boot
  BY <1>1 DEF Boot, BootMount, BootConfig, Mount, MountFails, FaultsTyped
<1>2. CASE \E c \in Configs : Push(c)
  BY <1>2 DEF Push, FaultsTyped
<1>3. CASE OpenConfig \/ CloseConfig
  BY <1>3 DEF OpenConfig, CloseConfig, Left, FaultsTyped
<1>4. CASE StoreFlash \/ ProgramFlash
  <2>1. UNCHANGED faults \/ Fault("flash")
    BY <1>4, Zenon DEF StoreFlash, ProgramFlash
  <2> QED
    BY <2>1 DEF FaultsTyped
<1>5. CASE LogPosition \/ RetryMount
  BY <1>5 DEF LogPosition, RetryMount, Mount, MountFails, FaultsTyped
<1>6. CASE Flush
  <2>1. CardWorks \/ CardFails
    BY <1>6 DEF Flush, FlushOpen, FlushClose, FlushFails
  <2> QED
    BY <2>1 DEF FaultsTyped
<1>7. CASE Hands
  BY <1>7 DEF Hands, Pull, Insert, Edit, Touch, FaultsTyped
<1>8. CASE PowerFails \/ PowerReturns \/ UNCHANGED vars
  BY <1>8 DEF PowerFails, PowerReturns, vars, FaultsTyped
<1> QED
  BY <1>1, <1>2, <1>3, <1>4, <1>5, <1>6, <1>7, <1>8 DEF Next, ConfigEnd

LEMMA FaultsAlways == Spec => []FaultsTyped
<1>1. Init => FaultsTyped
  BY DEF Init, FaultsTyped
<1> QED
  BY <1>1, FaultsStep, PTL DEF Spec

LEMMA StoreAlways == Spec => []StoreInv
<1> QED
  BY StoreInit, StoreStep, PTL DEF Spec

-----------------------------------------------------------------------------
(***************************************************************************)
(* The theorems.                                                           *)
(***************************************************************************)

\* Whatever is in the stores, and whenever power fails, the configuration in
\* force is never half a page, and the first part of a text only where a write of
\* RADIO.CFG has failed (init of main.rs, cfgstore::read).
THEOREM ConfigWhole == Spec => []ConfigIsWhole
<1>1. StoreInv => ConfigIsWhole
  BY DEF StoreInv, WholeInv, ConfigIsWhole
<1> QED
  BY <1>1, StoreAlways, PTL

\* Once a config is in both stores it takes a second failure, while the store that
\* was left is rewritten, to lose it: the file is rewritten before the page, and
\* the page only then (write_config, cfgstore::write).
THEOREM BackedKeepsConfig == Spec => []NeverForgotten
<1>1. ASSUME StoreInv PROVE NeverForgotten
  <2> SUFFICES ASSUME backed, AtMostOneLost
               PROVE  /\ OneIntact
                      /\ text[slot] \notin {Empty, Torn} => Choice(text[slot]) \in Configs
    BY DEF NeverForgotten
  <2>1. /\ slot \in Cards
        /\ text[slot] \in Configs \/ slot \in spoiled \/ pc = "rewrite"
        /\ page \in Configs \/ "page" \in spoiled \/ pc = "program"
    BY <1>1 DEF StoreInv, BackedInv
  <2>2. text[slot] \in Configs \/ page \in Configs
    BY <2>1 DEF AtMostOneLost
  <2>3. text[slot] \in Texts
    BY <1>1, <2>1 DEF StoreInv, StoresTyped
  <2>4. OneIntact
    BY <2>2 DEF OneIntact, Stored
  <2> QED
    BY <2>2, <2>3, <2>4 DEF Choice, Parsed, Stored, Texts
<1> QED
  BY <1>1, StoreAlways, PTL

\* A config reported stored is the one a start adopts, from whichever store the
\* report named (init of main.rs after CFG_END).
THEOREM ReportedConfigReturns == Spec => ReportHolds
<1> DEFINE Held == pc = "config" /\ pc' = "loop" /\ report # None /\ ~touched /\ faults' = faults
                     /\ (IF mounted THEN report.sd ELSE report.flash)
                   => cfg' = report.cfg
<1>1. ASSUME StoreInv, FaultsTyped, [Next]_vars PROVE [Held]_vars
  <2> SUFFICES ASSUME pc = "config", pc' = "loop", report # None, ~touched, faults' = faults,
                      IF mounted THEN report.sd ELSE report.flash
               PROVE  cfg' = report.cfg
    OBVIOUS
  <2>1. BootConfig
    BY <1>1 DEF Next, Boot, BootMount, Push, ConfigEnd, OpenConfig, CloseConfig, StoreFlash,
                ProgramFlash, LogPosition, RetryMount, Flush, FlushOpen, FlushClose, Hands, Pull,
                Insert, Edit, Touch, PowerFails, PowerReturns, vars
  <2>2. report.cfg \in Configs
    BY <1>1 DEF StoreInv, ReportInv
  <2>3. CASE mounted
    <3>1. inited /\ slot \in Cards /\ text[slot] = report.cfg
      BY <1>1, <2>3 DEF StoreInv, MountInv, ReportInv
    <3>2. ~CardFails
      BY <1>1, <3>1 DEF CardFails, Fault, FaultsTyped
    <3>3. cfg' = Choice(text[slot])
      BY <2>1, <2>3, <3>2 DEF BootConfig, Adopt
    <3> QED
      BY <2>2, <3>1, <3>3, ChoiceCard
  <2>4. CASE ~mounted
    <3>1. page = report.cfg
      BY <1>1, <2>4 DEF StoreInv, ReportInv
    <3>2. cfg' = Choice(None)
      BY <2>1, <2>4 DEF BootConfig, Adopt
    <3> QED
      BY <2>2, <3>1, <3>2, ChoicePage
  <2> QED
    BY <2>3, <2>4
<1> QED
  BY <1>1, StoreAlways, FaultsAlways, PTL DEF Spec, ReportHolds

-----------------------------------------------------------------------------
(***************************************************************************)
(* The log.                                                                *)
(***************************************************************************)
LogTypes ==
  /\ pc \in {"off", "boot", "config", "loop", "open", "rewrite", "flash", "program", "flush"}
  /\ mounted \in BOOLEAN /\ enabled \in BOOLEAN /\ headerNeeded \in BOOLEAN /\ sdOk \in BOOLEAN
  /\ log \in [Cards -> Seq(Rows \cup {Header}) \cup {None}]
  /\ pending \in Seq(Rows) /\ Len(pending) <= Room
  /\ rows \in 0..MaxRows

\* A card that answers gets a header only if it has no log, or one without a byte,
\* or if its log was not found.
FreshInv ==
  /\ pc = "flush" => mounted
  /\ inited /\ mounted /\ headerNeeded /\ slot \notin misread => log[slot] \in {None, <<>>}
  /\ inited /\ pc = "flush" => log[slot] \in Seq(Rows \cup {Header})
  /\ inited /\ pc = "flush" /\ headerNeeded /\ slot \notin misread => log[slot] = <<>>

LogInv == LogTypes /\ FreshInv /\ HeaderFirst

-----------------------------------------------------------------------------
LEMMA EmptyFits == <<>> \in Seq(Rows) /\ Len(<<>>) <= Room
<1>1. <<>> \in Seq(Rows) /\ Len(<<>>) = 0
  BY EmptySeq
<1> QED
  BY <1>1

LEMMA LogInit == Init => LogInv
<1> SUFFICES ASSUME Init PROVE LogInv
  OBVIOUS
<1>0. log \in [Cards -> Seq(Rows \cup {Header}) \cup {None}] /\ rows \in 0..MaxRows
  BY DEF Init
<1>1. LogTypes
  BY <1>0, EmptyFits, Zenon DEF Init, LogTypes
<1>2. \A k \in Cards : log[k] = None
  BY DEF Init
<1> QED
  BY <1>1, <1>2 DEF Init, LogInv, FreshInv, HeaderFirst

\* Steps that leave the logs alone, and at most give a mount or the buffer up.
LEMMA LogSame ==
  ASSUME LogInv, UNCHANGED <<log, rows, misread>>, pending' \in {pending, <<>>},
         pc' \in {"off", "boot", "config", "loop", "open", "rewrite", "flash", "program", "flush"},
         pc' = "flush" => pc = "flush" /\ mounted' = mounted,
         mounted' \in BOOLEAN, enabled' \in BOOLEAN, headerNeeded' \in BOOLEAN, sdOk' \in BOOLEAN,
         mounted' => mounted, headerNeeded' => headerNeeded, inited' => inited /\ slot' = slot
  PROVE  LogInv'
<1>1. pending' \in Seq(Rows) /\ Len(pending') <= Room
  BY EmptyFits, Zenon DEF LogInv, LogTypes
<1>2. LogTypes'
  BY <1>1 DEF LogInv, LogTypes
<1>3. FreshInv'
  BY DEF LogInv, FreshInv
<1>4. HeaderFirst'
  BY DEF LogInv, HeaderFirst
<1> QED
  BY <1>2, <1>3, <1>4 DEF LogInv

LEMMA MountLog ==
  ASSUME LogInv, StoresTyped, Mount, UNCHANGED <<slot, log, rows, sdOk>>, pc' \in {"config", "loop"}
  PROVE  LogInv'
<1>1. LogTypes'
  BY DEF LogInv, LogTypes, Mount, HeaderMissing
<1>4. slot \in misread' \/ (headerNeeded' => log[slot] = None)
  BY DEF Mount, HeaderMissing
<1>2. FreshInv'
  BY <1>4 DEF FreshInv, Mount
<1>3. HeaderFirst'
  BY DEF LogInv, HeaderFirst, Mount
<1> QED
  BY <1>1, <1>2, <1>3 DEF LogInv

LEMMA QuietLog ==
  ASSUME LogInv, StoreInv,
         Boot \/ (\E c \in Configs : Push(c)) \/ ConfigEnd \/ RetryMount \/ Hands \/ PowerFails \/ PowerReturns
  PROVE  LogInv'
<1> USE DEF StoreInv, history, counters, cardVars, mountVars
<1>1. LogTypes /\ StoresTyped
  BY DEF LogInv
<1>2. CASE BootMount
  <2>1. CASE Mount
    BY <1>1, <1>2, <2>1, MountLog DEF BootMount
  <2>2. CASE MountFails
    BY <1>1, <1>2, <2>2, LogSame DEF BootMount, MountFails, LogTypes
  <2> QED
    BY <1>2, <2>1, <2>2 DEF BootMount
<1>3. CASE BootConfig
  <2>1. PICK c : Adopt(c)
    BY <1>3 DEF BootConfig
  <2>2. UNCHANGED <<log, rows, slot, sdOk, misread>> /\ pc' = "loop"
    BY <1>3 DEF BootConfig
  <2> QED
    BY <1>1, <2>1, <2>2, LogSame DEF Adopt, LogTypes
<1>4. CASE \E c \in Configs : Push(c)
  <2>1. UNCHANGED <<log, rows, pending, mounted, enabled, headerNeeded, inited, slot, misread>> /\ sdOk' = FALSE
    BY <1>4 DEF Push
  <2>2. pc' \in {"open", "flash"}
    BY <1>4 DEF Push
  <2> QED
    BY <1>1, <2>1, <2>2, LogSame DEF LogTypes
<1>5. CASE OpenConfig
  <2>1. UNCHANGED <<log, rows, pending, enabled, headerNeeded, slot, sdOk, misread>> /\ pc' \in {"rewrite", "flash"}
    BY <1>5 DEF OpenConfig, Left, Unmount
  <2>2. (mounted' = mounted /\ inited' = inited) \/ (mounted' = FALSE /\ inited' = FALSE)
    BY <1>5, Zenon DEF OpenConfig, Left, Unmount, mountVars
  <2>3. mounted' \in BOOLEAN
    BY <1>1, <2>2 DEF LogTypes
  <2>4. (mounted' => mounted) /\ (inited' => inited)
    BY <2>2
  <2>5. /\ pc' # "flush"
        /\ pc' \in {"off", "boot", "config", "loop", "open", "rewrite", "flash", "program", "flush"}
    BY <2>1
  <2>6. UNCHANGED <<log, rows, misread>> /\ pending' \in {pending, <<>>} /\ slot' = slot
    BY <2>1
  <2>7. /\ enabled' \in BOOLEAN /\ headerNeeded' \in BOOLEAN /\ sdOk' \in BOOLEAN
        /\ (headerNeeded' => headerNeeded)
    BY <1>1, <2>1 DEF LogTypes
  <2> QED
    BY <2>3, <2>4, <2>5, <2>6, <2>7, LogSame
<1>6. CASE CloseConfig
  <2>1. UNCHANGED <<log, rows, pending, enabled, headerNeeded, slot, misread>> /\ pc' = "flash"
    BY <1>6 DEF CloseConfig, Left, Unmount
  <2>2. sdOk' \in BOOLEAN
    BY <1>1, <1>6 DEF CloseConfig, Left, Unmount, LogTypes
  <2>3. (mounted' = mounted /\ inited' = inited) \/ (mounted' = FALSE /\ inited' = FALSE)
    BY <1>6, Zenon DEF CloseConfig, Left, Unmount, mountVars
  <2>4. mounted' \in BOOLEAN
    BY <1>1, <2>3 DEF LogTypes
  <2>5. (mounted' => mounted) /\ (inited' => inited)
    BY <2>3
  <2>6. /\ pc' # "flush"
        /\ pc' \in {"off", "boot", "config", "loop", "open", "rewrite", "flash", "program", "flush"}
    BY <2>1
  <2>7. UNCHANGED <<log, rows, misread>> /\ pending' \in {pending, <<>>} /\ slot' = slot
    BY <2>1
  <2>8. /\ enabled' \in BOOLEAN /\ headerNeeded' \in BOOLEAN /\ (headerNeeded' => headerNeeded)
    BY <1>1, <2>1 DEF LogTypes
  <2> QED
    BY <2>2, <2>4, <2>5, <2>6, <2>7, <2>8, LogSame
<1>7. CASE StoreFlash
  BY <1>1, <1>7, LogSame DEF StoreFlash, StoreOnly, Report, ErasePage, LogTypes
<1>8. CASE ProgramFlash
  BY <1>1, <1>8, LogSame DEF ProgramFlash, StoreOnly, Report, LogTypes
<1>9. CASE RetryMount
  <2>1. CASE Mount
    BY <1>1, <1>9, <2>1, MountLog DEF RetryMount
  <2>2. CASE MountFails
    BY <1>1, <1>9, <2>2, LogSame DEF RetryMount, MountFails, LogTypes
  <2> QED
    BY <1>9, <2>1, <2>2 DEF RetryMount
<1>10. CASE Hands
  <2>1. inited' => inited /\ slot' = slot
    BY <1>10 DEF Hands, Pull, Insert, Edit, MountInv
  <2> QED
    BY <1>1, <1>10, <2>1, LogSame DEF Hands, Pull, Insert, Edit, Touch, LogTypes
<1>11. CASE PowerFails
  BY <1>1, <1>11, LogSame DEF PowerFails, LogTypes
<1>12. CASE PowerReturns
  BY <1>1, <1>12, LogSame DEF PowerReturns, LogTypes
<1> QED
  BY <1>2, <1>3, <1>4, <1>5, <1>6, <1>7, <1>8, <1>9, <1>10, <1>11, <1>12 DEF Boot, ConfigEnd

LEMMA LogPositionLog ==
  ASSUME LogInv, LogPosition
  PROVE  /\ LogInv'
         /\ \A i \in 1..Len(pending) : \/ pending[i] \in Lines(pending')
                                       \/ Len(pending) = Room /\ i <= Room \div 2 + 1
<1> DEFINE q == IF Len(pending) = Room THEN DropOldest(pending) ELSE pending
<1>1. pending \in Seq(Rows) /\ Len(pending) \in Nat /\ Len(pending) <= Room /\ rows \in 0..MaxRows
  BY LenProperties DEF LogInv, LogTypes
<1>2. rows + 1 \in Rows /\ rows + 1 \in 0..MaxRows
  BY <1>1 DEF LogPosition, Rows
<1>3. q \in Seq(Rows) /\ Len(q) < Room
  BY <1>1, DropTyped
<1>4. ASSUME NEW i \in 1..Len(pending) PROVE pending[i] \in Lines(q) \/ (Len(pending) = Room /\ i <= Room \div 2 + 1)
  <2>1. CASE Len(pending) = Room
    <3>1. i > Room \div 2 + 1 => pending[i] \in Lines(DropOldest(pending))
      BY <1>1, <2>1, DropTyped, Zenon
    <3>2. i \in Nat /\ Room \in Nat
      BY <1>1
    <3>3. i > Room \div 2 + 1 \/ i <= Room \div 2 + 1
      BY <3>2
    <3> QED
      BY <2>1, <3>1, <3>3
  <2>2. CASE Len(pending) # Room
    BY <2>2 DEF Lines
  <2> QED
    BY <2>1, <2>2
<1>5. pending' = Append(q, rows + 1)
  BY DEF LogPosition
<1> HIDE DEF q
<1>6. pending' \in Seq(Rows) /\ Len(pending') = Len(q) + 1 /\ Lines(q) \subseteq Lines(pending')
  BY <1>2, <1>3, <1>5, AppendKeeps
<1>7. Len(pending') <= Room
  BY <1>3, <1>6, LenProperties
<1>8. UNCHANGED <<pc, slot, inited, log, mounted, enabled, headerNeeded, sdOk, misread>> /\ rows' = rows + 1
  BY DEF LogPosition, cardVars, history
<1>9. LogTypes'
  BY <1>2, <1>6, <1>7, <1>8 DEF LogInv, LogTypes
<1>10. FreshInv' /\ HeaderFirst'
  BY <1>8 DEF LogInv, FreshInv, HeaderFirst
<1> QED
  BY <1>4, <1>6, <1>9, <1>10 DEF LogInv

LEMMA FlushOpenLog ==
  ASSUME LogInv, StoreInv, FlushOpen
  PROVE  LogInv'
<1>1. CASE Unmount /\ UNCHANGED <<pc, log>>
  BY <1>1, LogSame DEF FlushOpen, FlushOnly, Unmount, LogInv, LogTypes, history
<1>2. CASE CardWorks /\ log' = [log EXCEPT ![slot] = IF @ = None THEN <<>> ELSE @] /\ pc' = "flush"
           /\ UNCHANGED <<inited, mountVars>>
  <2>1. slot \in Cards /\ inited /\ mounted
    BY <1>2 DEF CardWorks, StoreInv, MountInv, FlushOpen
  <2>2. UNCHANGED <<slot, inited, mounted, enabled, headerNeeded, pending, sdOk, rows, misread>>
    BY <1>2 DEF FlushOpen, FlushOnly, mountVars, history
  <2>3. \A k \in Cards : log'[k] = IF k = slot /\ log[k] = None THEN <<>> ELSE log[k]
    BY <1>2, <2>1 DEF LogInv, LogTypes
  <2>4. /\ log'[slot] \in Seq(Rows \cup {Header})
        /\ headerNeeded /\ slot \notin misread => log'[slot] = <<>>
    BY <2>1, <2>3, EmptySeq DEF LogInv, LogTypes, FreshInv
  <2>5. log' \in [Cards -> Seq(Rows \cup {Header}) \cup {None}]
    BY <1>2, <2>1, <2>4 DEF LogInv, LogTypes
  <2>6. LogTypes'
    BY <1>2, <2>2, <2>5 DEF LogInv, LogTypes
  <2>7. FreshInv'
    BY <1>2, <2>1, <2>2, <2>4 DEF FreshInv
  <2>8. HeaderFirst'
    BY <2>2, <2>3 DEF LogInv, HeaderFirst
  <2> QED
    BY <2>6, <2>7, <2>8 DEF LogInv
<1> QED
  BY <1>1, <1>2 DEF FlushOpen

LEMMA AppendedLog ==
  ASSUME LogInv, StoreInv, pc = "flush", inited
  PROVE  /\ slot \in Cards /\ Appended \in Seq(Rows \cup {Header})
         /\ slot \notin misread => OneHeader(Appended)
         /\ \A i \in 1..Len(pending) : pending[i] \in Lines(Appended)
<1> DEFINE head == IF headerNeeded THEN <<Header>> ELSE <<>>
           front == log[slot] \o head
<1>1. /\ slot \in Cards /\ log[slot] \in Seq(Rows \cup {Header})
      /\ headerNeeded /\ slot \notin misread => log[slot] = <<>>
  BY DEF LogInv, FreshInv, StoreInv, MountInv
<1>2. pending \in Seq(Rows)
  BY DEF LogInv, LogTypes
<1>3. <<Header>> \in Seq(Rows \cup {Header}) /\ Len(<<Header>>) = 1
  OBVIOUS
<1>4. head \in Seq(Rows \cup {Header})
  BY <1>3, EmptySeq
<1>5. front \in Seq(Rows \cup {Header}) /\ Appended = front \o pending
  BY <1>1, <1>4, ConcatProperties DEF Appended
<1>6. ASSUME slot \notin misread PROVE OneHeader(front)
  <2>1. CASE headerNeeded
    <3>1. <<>> \o <<Header>> = <<Header>>
      BY <1>3, ConcatEmptySeq
    <3>2. log[slot] = <<>> /\ head = <<Header>>
      BY <1>1, <1>6, <2>1
    <3>3. front = <<Header>>
      BY <3>1, <3>2, Zenon
    <3>4. OneHeader(<<Header>>)
      BY <1>3 DEF OneHeader
    <3> QED
      BY <3>3, <3>4, Zenon
  <2>2. CASE ~headerNeeded
    <3>1. front = log[slot]
      BY <1>1, <2>2, ConcatEmptySeq
    <3> QED
      BY <1>1, <1>6, <3>1, NoLogFile DEF LogInv, HeaderFirst, OneHeader
  <2> QED
    BY <2>1, <2>2
<1> HIDE DEF front
<1>7. \A i \in 1..Len(pending) : pending[i] \in Lines(front \o pending)
  BY <1>2, <1>5, JoinKeeps
<1>8. front \o pending \in Seq(Rows \cup {Header})
  BY <1>2, <1>5, PendingIsLog, ConcatProperties
<1>9. slot \notin misread => OneHeader(front \o pending)
  BY <1>2, <1>5, <1>6, JoinLines
<1> QED
  BY <1>1, <1>5, <1>7, <1>8, <1>9

LEMMA FlushCloseLog ==
  ASSUME LogInv, StoreInv, FlushClose
  PROVE  LogInv'
<1>1. pc = "flush" /\ pc' = "loop" /\ UNCHANGED <<slot, sdOk, rows, enabled, misread>>
  BY DEF FlushClose, FlushOnly, FlushFails, Unmount, history
<1>2. /\ pending' \in {pending, <<>>} /\ (mounted' => mounted) /\ mounted' \in BOOLEAN
      /\ headerNeeded' \in {headerNeeded, FALSE} /\ (mounted' => ~headerNeeded')
  <2>1. pending' \in {pending, <<>>} /\ headerNeeded' \in {headerNeeded, FALSE}
    BY DEF FlushClose, FlushFails, Unmount
  <2>2. (mounted' = mounted /\ headerNeeded' = FALSE) \/ mounted' = FALSE
    BY Zenon DEF FlushClose, FlushFails, Unmount
  <2>3. mounted' \in BOOLEAN
    BY <2>2 DEF LogInv, LogTypes
  <2>4. (mounted' => mounted) /\ (mounted' => ~headerNeeded')
    BY <2>2
  <2> QED
    BY <2>1, <2>3, <2>4
<1>3. log' = log \/ (inited /\ log' = [log EXCEPT ![slot] = Appended])
  BY DEF FlushClose, FlushFails, CardWorks
<1>4. log' \in [Cards -> Seq(Rows \cup {Header}) \cup {None}]
  BY <1>1, <1>3, AppendedLog DEF LogInv, LogTypes
<1>5. HeaderFirst'
  <2>1. CASE log' = log
    BY <1>1, <2>1 DEF LogInv, HeaderFirst
  <2>2. CASE inited /\ log' = [log EXCEPT ![slot] = Appended]
    <3>1. slot \in Cards /\ (slot \notin misread => OneHeader(Appended))
      BY <1>1, <2>2, AppendedLog
    <3>2. \A k \in Cards : log'[k] = IF k = slot THEN Appended ELSE log[k]
      BY <2>2, <3>1 DEF LogInv, LogTypes
    <3> QED
      BY <1>1, <3>1, <3>2 DEF LogInv, HeaderFirst, OneHeader
  <2> QED
    BY <1>3, <2>1, <2>2
<1>6. pending' \in Seq(Rows) /\ Len(pending') <= Room
  BY <1>2, EmptyFits, Zenon DEF LogInv, LogTypes
<1>7. LogTypes'
  BY <1>1, <1>2, <1>4, <1>6 DEF LogInv, LogTypes
<1>8. FreshInv'
  BY <1>1, <1>2 DEF FreshInv
<1> QED
  BY <1>5, <1>7, <1>8 DEF LogInv

LEMMA LogNext == StoreInv /\ LogInv /\ [Next]_vars => LogInv'
<1> SUFFICES ASSUME StoreInv, LogInv, [Next]_vars PROVE LogInv'
  OBVIOUS
<1>1. CASE UNCHANGED vars
  BY <1>1, LogSame DEF vars, cardVars, mountVars, counters, history, LogInv, LogTypes
<1> QED
  BY <1>1, QuietLog, LogPositionLog, FlushOpenLog, FlushCloseLog DEF Next, Flush

LEMMA LogAlways == Spec => [](StoreInv /\ LogInv)
<1>1. (StoreInv /\ LogInv) /\ [Next]_vars => (StoreInv /\ LogInv)'
  BY StoreStep, LogNext
<1> QED
  BY <1>1, StoreInit, LogInit, PTL DEF Spec

\* Every variable keeps its type; the buffer never outgrows its room.
THEOREM TypeCorrect == Spec => []TypeOK
<1>1. StoreInv /\ LogInv => TypeOK
  BY DEF StoreInv, StoresTyped, WholeInv, LogInv, LogTypes, TypeOK
<1> QED
  BY <1>1, LogAlways, PTL

\* No log gets a second header, whatever flushes fail and cards are swapped, as
\* long as no mount failed to find it (SdLog::try_mount, flush).
THEOREM OneHeaderFirst == Spec => []HeaderFirst
<1>1. StoreInv /\ LogInv => HeaderFirst
  BY DEF LogInv
<1> QED
  BY <1>1, LogAlways, PTL

\* A line leaves the buffer only for the card, with power or a card turned off,
\* or, the oldest first, when the buffer is full.
THEOREM NoLineLost == Spec => LinesKept
<1> DEFINE Kept(i) ==
      \/ pending[i] \in Lines(pending')
      \/ slot # None /\ log'[slot] # None /\ pending[i] \in Lines(log'[slot])
      \/ pc' = "off" \/ ~enabled'
      \/ Len(pending) = Room /\ i <= Room \div 2 + 1
<1>1. ASSUME StoreInv, LogInv, [Next]_vars, NEW i \in 1..Len(pending) PROVE UNCHANGED vars \/ Kept(i)
  <2>1. CASE pending' = pending
    BY <2>1 DEF Lines
  <2>2. CASE LogPosition
    BY <1>1, <2>2, LogPositionLog
  <2>3. CASE FlushClose /\ CardWorks /\ log' = [log EXCEPT ![slot] = Appended]
    <3>1. pc = "flush" /\ inited
      BY <2>3 DEF FlushClose, CardWorks
    <3>2. slot \in Cards /\ Appended \in Seq(Rows \cup {Header}) /\ pending[i] \in Lines(Appended)
      BY <1>1, <3>1, AppendedLog
    <3>3. log'[slot] = Appended
      BY <1>1, <2>3, <3>2 DEF LogInv, LogTypes
    <3> QED
      BY <3>2, <3>3, NoLogFile
  <2>4. CASE pc' = "off" \/ ~enabled'
    BY <2>4
  <2>5. pending' = pending \/ LogPosition \/ pc' = "off" \/ ~enabled'
        \/ (FlushClose /\ CardWorks /\ log' = [log EXCEPT ![slot] = Appended])
    <3>1. CASE Boot
      BY <3>1 DEF Boot, BootMount, Mount, MountFails, BootConfig, Adopt, mountVars
    <3>2. CASE (\E c \in Configs : Push(c)) \/ ConfigEnd
      BY <3>2 DEF Push, ConfigEnd, OpenConfig, CloseConfig, Left, StoreFlash, ProgramFlash, StoreOnly, Unmount, mountVars
    <3>3. CASE RetryMount \/ Hands
      BY <3>3 DEF RetryMount, Mount, MountFails, Hands, Pull, Insert, Edit, Touch, mountVars
    <3>4. CASE Flush
      BY <3>4 DEF Flush, FlushOpen, FlushClose, FlushFails, Unmount, mountVars
    <3>5. CASE PowerFails \/ PowerReturns \/ UNCHANGED vars
      BY <3>5 DEF PowerFails, PowerReturns, vars, mountVars
    <3> QED
      BY <1>1, <3>1, <3>2, <3>3, <3>4, <3>5 DEF Next
  <2> QED
    BY <2>1, <2>2, <2>3, <2>4, <2>5
<1>2. StoreInv /\ LogInv /\ [Next]_vars => [\A i \in 1..Len(pending) : Kept(i)]_vars
  BY <1>1
<1> QED
  BY <1>2, LogAlways, PTL DEF Spec, LinesKept
=============================================================================
