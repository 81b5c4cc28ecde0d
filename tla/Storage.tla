------------------------------- MODULE Storage -------------------------------
(***************************************************************************)
(* What the WIO stores: its configuration, as RADIO.CFG on the SD card and *)
(* as a backup page in flash, and the position log GPSLOG.CSV              *)
(* (wio/src/sdlog.rs, cfgstore.rs, init and CFG_END of bin/main.rs).       *)
(*                                                                         *)
(* A step is what happens between two moments at which it matters that     *)
(* power fails or the card is pulled: a file opened, a file closed, a page *)
(* erased, a page programmed.  Minutes between two mounts and seconds      *)
(* between two flushes are not counted: either comes at any time.  Pushed  *)
(* texts are whole and parse; BulkTransfer is about how they arrive.       *)
(***************************************************************************)
EXTENDS Integers, Sequences

CONSTANTS
  None,
  Configs,                 \* texts that parse, by name
  Factory,                 \* RadioConfig::default
  Empty, Bad,              \* a file of no bytes, one that cannot be read or parsed
  Torn,                    \* the first part of a text, where it parses by itself
  Partial,                 \* half a page
  NoSd,                    \* those that set sd_enabled = false
  Cards,
  Found,                   \* what a computer may have left as RADIO.CFG
  Room,                    \* log lines that PENDING_LEN holds
  MaxRows, MaxPushes, MaxHands,    \* lines, pushes, and times somebody is at the card
  FaultKinds, MaxFaults

ASSUME ConfigAssumption ==
  /\ Factory \notin Configs /\ NoSd \subseteq Configs \cup {Torn}
  /\ {None, Empty, Bad, Torn, Partial} \cap (Configs \cup {Factory}) = {}
  /\ None \notin {Empty, Bad, Torn, Partial} /\ Empty \notin {Bad, Torn, Partial}
  /\ Bad \notin {Torn, Partial} /\ Torn # Partial
ASSUME CardAssumption ==
  {None, "page"} \cap Cards = {} /\ Found \subseteq Configs \cup {None, Bad}
ASSUME BoundsAssumption ==
  Room \in Nat \ {0, 1} /\ MaxRows \in Nat /\ MaxPushes \in Nat
  /\ MaxHands \in Nat /\ MaxFaults \in Nat
ASSUME FaultsAssumption == FaultKinds \subseteq {"mount", "card", "flash"}
ASSUME NoLogAssumption == None \notin Seq(Nat)

Texts == Configs \cup {None, Empty, Bad, Torn}    \* RADIO.CFG; None: no such file
Rows == 0..MaxRows                          \* lines in the order logged; 0: the rest of one
Header == MaxRows + 1                       \* LOG_HEADER

VARIABLES
  pc,            \* where init and the loop are
  slot,          \* the card in the slot
  inited,        \* it has answered init and has had power since
  text, log,     \* RADIO.CFG and GPSLOG.CSV of each card; None: no such file
  page,          \* the backup page
  mounted, enabled, headerNeeded, pending,    \* SdLog
  cfg,           \* the configuration in force
  sdOk,          \* what write_config returned
  rows, pushes, hands, faults,
  report,        \* history: the config last reported applied, and where it was saved
  touched,       \* history: somebody has pulled, inserted or edited a card since its
                 \* push began
  backed,        \* history: a config was saved to both stores, and nothing was
                 \* touched since
  spoiled,       \* history: the stores, cards and "page", whose last write failed or
                 \* was cut short
  misread        \* history: the cards with a log that a mount took for new

mountVars == <<mounted, enabled, headerNeeded, pending>>
cardVars == <<slot, inited, text, log>>
history == <<report, touched, backed, spoiled, misread>>
counters == <<rows, pushes, hands, faults>>
vars == <<pc, cardVars, page, mountVars, cfg, sdOk, counters, history>>

Fault(kind) ==
  /\ kind \in FaultKinds /\ faults < MaxFaults
  /\ faults' = faults + 1

-----------------------------------------------------------------------------
(***************************************************************************)
(* Texts and pages.                                                        *)
(***************************************************************************)

\* radiocfg::parse starts from the defaults: no text at all is a good one.
Parsed(t) == IF t = Empty THEN Factory ELSE IF t \in Configs \cup {Torn} THEN t ELSE None

\* Mutant: the text in the page is used without its CRC.
StoredUnchecked == page

Stored == IF page = Partial THEN None ELSE page

\* The SD file, else the flash backup, else defaults.
Choice(t) == IF Parsed(t) # None THEN Parsed(t)
             ELSE IF Stored # None THEN Stored ELSE Factory

Init ==
  /\ pc = "boot"
  /\ slot \in Cards \cup {None} /\ inited = FALSE
  /\ text \in [Cards -> Found]
  /\ log = [k \in Cards |-> None]
  /\ page = None
  /\ mounted = FALSE /\ enabled = TRUE /\ headerNeeded = FALSE /\ pending = <<>>
  /\ cfg = Factory
  /\ sdOk = FALSE
  /\ rows = 0 /\ pushes = 0 /\ hands = 0 /\ faults = 0
  /\ report = None /\ touched = FALSE /\ backed = FALSE
  /\ spoiled = {} /\ misread = {}

-----------------------------------------------------------------------------
(***************************************************************************)
(* Mounting.                                                               *)
(***************************************************************************)

\* Mutant: every mount asks for a header.
HeaderAlways == TRUE

HeaderMissing == log[slot] = None

\* A lookup that fails by itself is taken for a missing log.
Mount ==
  /\ slot # None
  /\ inited' = TRUE /\ mounted' = TRUE
  /\ \/ headerNeeded' = HeaderMissing /\ UNCHANGED <<faults, misread>>
     \/ /\ log[slot] # None /\ Fault("card")
        /\ headerNeeded' = TRUE
        /\ misread' = misread \cup {slot}
  /\ UNCHANGED <<enabled, pending>>

\* Mutant: the mount is kept.
UnmountCardOnly == inited' = FALSE /\ UNCHANGED mountVars

Unmount == mounted' = FALSE /\ inited' = FALSE /\ UNCHANGED <<enabled, headerNeeded, pending>>

\* No card, or one whose init or FAT volume fails.
MountFails ==
  /\ IF slot = None THEN UNCHANGED faults ELSE Fault("mount")
  /\ inited' = FALSE
  /\ UNCHANGED <<mountVars, misread>>

\* A file operation: it fails on a card that was changed, or by itself.
CardWorks == inited /\ UNCHANGED faults
CardFails == IF inited THEN Fault("card") ELSE UNCHANGED faults

-----------------------------------------------------------------------------
(***************************************************************************)
(* init.                                                                   *)
(***************************************************************************)
BootMount ==
  /\ pc = "boot"
  /\ pc' = "config"
  /\ Mount \/ MountFails
  /\ UNCHANGED <<slot, text, log, page, cfg, sdOk, rows, pushes, hands,
                 report, touched, backed, spoiled>>

\* With sd_enabled = false the card is shut down for good.
Adopt(c) ==
  /\ cfg' = c
  /\ IF c \in NoSd
     THEN mounted' = FALSE /\ inited' = FALSE /\ enabled' = FALSE /\ pending' = <<>>
     ELSE UNCHANGED <<inited, mounted, enabled, pending>>
  /\ UNCHANGED headerNeeded

BootConfig ==
  /\ pc = "config"
  /\ pc' = "loop"
  /\ \/ mounted /\ CardWorks /\ Adopt(Choice(text[slot]))
     \/ mounted /\ CardFails /\ Adopt(Choice(None))
     \/ ~mounted /\ Adopt(Choice(None)) /\ UNCHANGED faults
  /\ UNCHANGED <<slot, text, log, page, sdOk, rows, pushes, hands, history>>

-----------------------------------------------------------------------------
(***************************************************************************)
(* CFG_END of a text that parses.                                          *)
(***************************************************************************)

\* write_config is not for a card that is shut down or not mounted.
Push(c) ==
  /\ pc = "loop" /\ pushes < MaxPushes
  /\ pushes' = pushes + 1
  /\ cfg' = c
  /\ sdOk' = FALSE
  /\ pc' = IF enabled /\ mounted THEN "open" ELSE "flash"
  /\ report' = None /\ touched' = FALSE
  /\ UNCHANGED <<cardVars, page, mountVars, rows, hands, faults, backed, spoiled, misread>>

\* A failing operation on a card that answers may leave what it was to write.
Left(texts) ==
  /\ CardFails /\ Unmount
  /\ \/ inited /\ \E t \in texts : text' = [text EXCEPT ![slot] = t]
     \/ UNCHANGED text
  /\ spoiled' = spoiled \cup ({slot} \cap Cards)
  /\ UNCHANGED sdOk

\* Opening truncates the file: its clusters go first, then its length.
OpenConfig ==
  /\ pc = "open"
  /\ \/ /\ CardWorks
        /\ text' = [text EXCEPT ![slot] = Empty]
        /\ pc' = "rewrite"
        /\ UNCHANGED <<inited, mountVars, sdOk, spoiled>>
     \/ /\ Left({Empty} \cup (IF text[slot] \in {None, Empty} THEN {} ELSE {Bad}))
        /\ pc' = "flash"
  /\ UNCHANGED <<slot, log, page, cfg, rows, pushes, hands, report, touched, backed, misread>>

\* Mutant: what the writes and the close return is ignored.
CloseConfigBlind ==
  /\ pc = "rewrite"
  /\ pc' = "flash"
  /\ sdOk' = TRUE
  /\ \/ CardWorks /\ text' = [text EXCEPT ![slot] = cfg]
     \/ CardFails /\ UNCHANGED text
  /\ spoiled' = spoiled \ {slot}
  /\ UNCHANGED <<inited, mountVars, slot, log, page, cfg, rows, pushes, hands,
                 report, touched, backed, misread>>

\* The file is closed, with the length that was written, even when a write has
\* failed.
CloseConfig ==
  /\ pc = "rewrite"
  /\ pc' = "flash"
  /\ \/ /\ CardWorks
        /\ text' = [text EXCEPT ![slot] = cfg]
        /\ sdOk' = TRUE
        /\ spoiled' = spoiled \ {slot}
        /\ UNCHANGED <<inited, mountVars>>
     \/ Left({cfg, Torn, Bad})
  /\ UNCHANGED <<slot, log, page, cfg, rows, pushes, hands, report, touched, backed, misread>>

\* The answer and the line "config applied, saved to ...".
Report(flashOk) ==
  /\ pc' = "loop"
  /\ report' = [cfg |-> cfg, sd |-> sdOk, flash |-> flashOk]
  /\ backed' = (backed \/ (sdOk /\ flashOk /\ ~touched))
  /\ spoiled' = IF flashOk THEN spoiled \ {"page"} ELSE spoiled \cup {"page"}
  /\ UNCHANGED <<touched, misread>>

StoreOnly == UNCHANGED <<cardVars, mountVars, cfg, sdOk, rows, pushes, hands>>

\* Mutant: an erased page counts as written.
EraseIsEnough == page' = None /\ Report(TRUE)

ErasePage == page' = None /\ pc' = "program" /\ UNCHANGED history

\* cfgstore::write, up to the erase of the page.
StoreFlash ==
  /\ pc = "flash"
  /\ \/ Stored = cfg /\ Report(TRUE) /\ UNCHANGED <<page, faults>>
     \/ Stored # cfg /\ ErasePage /\ UNCHANGED faults
     \/ Stored # cfg /\ Fault("flash") /\ Report(FALSE) /\ page' \in {page, None, Partial}
  /\ StoreOnly

\* Text first, then the header.
ProgramFlash ==
  /\ pc = "program"
  /\ \/ page' = cfg /\ Report(TRUE) /\ UNCHANGED faults
     \/ page' \in {None, Partial} /\ Fault("flash") /\ Report(FALSE)
  /\ StoreOnly

-----------------------------------------------------------------------------
(***************************************************************************)
(* The log.                                                                *)
(***************************************************************************)

\* Mutant: one line makes room for its own rest.
DropOne(s) == <<0>> \o SubSeq(s, 2, Len(s))

\* The oldest half of the bytes goes, in the middle of a line.
DropOldest(s) == <<0>> \o SubSeq(s, Room \div 2 + 2, Len(s))

LogPosition ==
  /\ pc = "loop" /\ enabled /\ rows < MaxRows
  /\ rows' = rows + 1
  /\ pending' = Append(IF Len(pending) = Room THEN DropOldest(pending) ELSE pending, rows + 1)
  /\ UNCHANGED <<pc, cardVars, page, mounted, enabled, headerNeeded, cfg, sdOk, pushes, hands,
                 faults, history>>

\* poll: the retry is due.
RetryMount ==
  /\ pc = "loop" /\ enabled /\ ~mounted
  /\ Mount \/ MountFails
  /\ UNCHANGED <<pc, slot, text, log, page, cfg, sdOk, rows, pushes, hands,
                 report, touched, backed, spoiled>>

FlushOnly == UNCHANGED <<slot, text, page, cfg, sdOk, rows, pushes, hands, history>>

\* poll: the flush is due; opening the file creates it.
FlushOpen ==
  /\ pc = "loop" /\ enabled /\ mounted /\ pending # <<>>
  /\ \/ /\ CardWorks
        /\ log' = [log EXCEPT ![slot] = IF @ = None THEN <<>> ELSE @]
        /\ pc' = "flush"
        /\ UNCHANGED <<inited, mountVars>>
     \/ CardFails /\ Unmount /\ UNCHANGED <<pc, log>>
  /\ FlushOnly

Lines(s) == {s[i] : i \in 1..Len(s)}

Appended == log[slot] \o (IF headerNeeded THEN <<Header>> ELSE <<>>) \o pending

\* Mutant: the lines are given up whatever came of them.
FlushFailsEmpty ==
  /\ CardFails
  /\ mounted' = FALSE /\ inited' = FALSE /\ pending' = <<>>
  /\ UNCHANGED <<enabled, headerNeeded>>
  /\ UNCHANGED log

\* The lines are kept, though the file may have got them.
FlushFails ==
  /\ CardFails /\ Unmount
  /\ \/ inited /\ log' = [log EXCEPT ![slot] = Appended]
     \/ UNCHANGED log

FlushClose ==
  /\ pc = "flush"
  /\ pc' = "loop"
  /\ \/ /\ CardWorks
        /\ log' = [log EXCEPT ![slot] = Appended]
        /\ pending' = <<>> /\ headerNeeded' = FALSE
        /\ UNCHANGED <<inited, mounted, enabled>>
     \/ FlushFails
  /\ FlushOnly

-----------------------------------------------------------------------------
(***************************************************************************)
(* The owner's hands, and power.                                           *)
(***************************************************************************)
Touch ==
  /\ hands < MaxHands /\ hands' = hands + 1
  /\ touched' = TRUE /\ backed' = FALSE
  /\ UNCHANGED <<pc, log, page, mountVars, cfg, sdOk, rows, pushes, faults, report,
                 spoiled, misread>>

Pull ==
  /\ slot # None
  /\ slot' = None /\ inited' = FALSE
  /\ UNCHANGED text
  /\ Touch

Insert ==
  /\ slot = None
  /\ slot' \in Cards
  /\ UNCHANGED <<inited, text>>
  /\ Touch

\* RADIO.CFG edited on a computer.
Edit ==
  /\ \E k \in Cards \ {slot}, t \in Found : text' = [text EXCEPT ![k] = t]
  /\ UNCHANGED <<slot, inited>>
  /\ Touch

\* RAM is lost; a page that is being programmed may be left half done.
PowerFails ==
  /\ pc # "off"
  /\ pc' = "off"
  /\ inited' = FALSE /\ mounted' = FALSE /\ enabled' = TRUE
  /\ headerNeeded' = FALSE /\ pending' = <<>>
  /\ cfg' = Factory /\ sdOk' = FALSE
  /\ page' \in (IF pc = "program" THEN {None, Partial} ELSE {page})
  /\ spoiled' = spoiled \cup (IF pc = "rewrite" THEN {slot} \cap Cards
                             ELSE IF pc = "program" THEN {"page"} ELSE {})
  /\ UNCHANGED <<slot, text, log, counters, report, touched, backed, misread>>

PowerReturns ==
  /\ pc = "off"
  /\ pc' = "boot"
  /\ UNCHANGED <<cardVars, page, mountVars, cfg, sdOk, counters, history>>

-----------------------------------------------------------------------------
Boot == BootMount \/ BootConfig
ConfigEnd == OpenConfig \/ CloseConfig \/ StoreFlash \/ ProgramFlash
Hands == Pull \/ Insert \/ Edit
Flush == FlushOpen \/ FlushClose

Next ==
  \/ Boot \/ (\E c \in Configs : Push(c)) \/ ConfigEnd
  \/ LogPosition \/ RetryMount \/ Flush
  \/ Hands \/ PowerFails \/ PowerReturns

Spec == Init /\ [][Next]_vars

\* The loop runs and polls the card.  Nobody has to push or insert a card, and
\* power does not have to return.
FairSpec ==
  /\ Spec
  /\ WF_vars(Boot) /\ WF_vars(ConfigEnd) /\ WF_vars(RetryMount) /\ WF_vars(FlushOpen)
  /\ WF_vars(FlushClose)

-----------------------------------------------------------------------------
\* Every variable has a value of its type.
TypeOK ==
  /\ pc \in {"off", "boot", "config", "loop", "open", "rewrite", "flash", "program", "flush"}
  /\ slot \in Cards \cup {None} /\ inited \in BOOLEAN
  /\ text \in [Cards -> Texts]
  /\ log \in [Cards -> Seq(Rows \cup {Header}) \cup {None}]
  /\ page \in Configs \cup {None, Partial}
  /\ mounted \in BOOLEAN /\ enabled \in BOOLEAN /\ headerNeeded \in BOOLEAN
  /\ pending \in Seq(Rows) /\ Len(pending) <= Room
  /\ cfg \in Configs \cup {Factory, Torn, Partial}
  /\ sdOk \in BOOLEAN /\ rows \in 0..MaxRows
  /\ spoiled \subseteq Cards \cup {"page"} /\ misread \subseteq Cards

\* "it survives a power cycle" (README): a start with the stores the report
\* named, in the state it left them, puts the reported config in force.
ReportHolds ==
  [][pc = "config" /\ pc' = "loop" /\ report # None /\ ~touched /\ faults' = faults
         /\ (IF mounted THEN report.sd ELSE report.flash)
       => cfg' = report.cfg]_vars

\* cfgstore: "what makes a half-written page read back as 'no config' rather than
\* as garbage": the configuration in force is a whole one, or the first part of
\* one that a failing write has left on a card.
ConfigIsWhole ==
  cfg \in Configs \cup {Factory} \/ (cfg = Torn /\ spoiled \cap Cards # {})

OneIntact == text[slot] \in Configs \/ Stored # None

\* Both stores took what they were last given, or one of them did and neither is
\* being rewritten.
AtMostOneLost ==
  \/ {slot, "page"} \cap spoiled = {}
  \/ ~({slot, "page"} \subseteq spoiled) /\ pc \notin {"rewrite", "program"}

\* cfgstore: a board without a working card "would otherwise come back from every
\* power cycle on the firmware defaults": once a config is in both stores, one of
\* them holds a whole one at every moment, whatever is pushed and whenever power
\* fails, and also when a store fails until the other is rewritten.  The board
\* starts from it unless RADIO.CFG was cut to a text that parses.
NeverForgotten ==
  backed /\ AtMostOneLost =>
    /\ OneIntact
    /\ text[slot] \notin {Empty, Torn} => Choice(text[slot]) \in Configs

\* A line leaves the buffer for the card, or with power, the card's shut-down or a
\* full buffer, the oldest first.
LinesKept ==
  [][\A i \in 1..Len(pending) :
       \/ pending[i] \in Lines(pending')
       \/ slot # None /\ log'[slot] # None /\ pending[i] \in Lines(log'[slot])
       \/ pc' = "off" \/ ~enabled'
       \/ Len(pending) = Room /\ i <= Room \div 2 + 1]_vars

\* "Write the CSV header if the log does not exist yet": never within a log, as
\* long as no mount failed to find a log that was there.
HeaderFirst ==
  \A k \in Cards \ misread : log[k] # None => \A i \in 2..Len(log[k]) : log[k][i] # Header

\* "a card inserted after boot (or an SPI error) is picked up by the retry path":
\* with a card that stays and works, buffered lines get to it.
LinesWritten ==
  pending # <<>> ~> pending = <<>> \/ slot = None

\* sd_enabled: "The config itself still persists: it is backed up to the WIO's
\* internal flash either way" (RADIO.example.toml).
PersistsEitherWay ==
  [][pc = "config" /\ pc' = "loop" /\ report # None /\ ~touched /\ report.flash
       => cfg' = report.cfg]_vars
=============================================================================
