------------------------------ MODULE SwapBoot ------------------------------
(***************************************************************************)
(* The swap boot loader (wio/bootloader/src/main.rs), the boot-state page  *)
(* it shares with the application (wio/src/boot_state.rs), the staging of  *)
(* an image into the DFU partition page by page (wio/src/fwupdate.rs) and  *)
(* the application's confirmation of its boot (wio/src/bin/main.rs).       *)
(*                                                                         *)
(* A flash page is written in two steps, its erase and its programming;    *)
(* the processor is at one point of the code at a time, and power may fail *)
(* at every point of LossAt.  Flash survives, everything else is lost.     *)
(***************************************************************************)
EXTENDS Integers

CONSTANTS
  NPages,        \* pages of the ACTIVE and of the DFU partition (56)
  Images,        \* application images
  Junk,          \* content of a page that holds no image's data: erased, or
                 \* left between its erase and the end of its programming
  Size,          \* pages an image occupies, per image
  HangsEarly,    \* images that stop before they confirm their boot
  HangsInInit,   \* images that hang in init, after the confirmation
  LossAt         \* the points at which power may fail

Pages == 1..NPages
Content == Images \cup {Junk}
Slot == [Pages -> Content]

Erased == -1    \* a word of erased flash, 0xFFFFFFFF

Magic == {"BOOT_OK", "SWAP_PENDING", "SWAP_COMPLETE", "REVERT_PENDING", "ERASED"}

(***************************************************************************)
(* Points of the code, as pairs of a task and a place in it.  A place in   *)
(* -ing is reached with the page it names erased and not yet programmed.   *)
(***************************************************************************)
BootPlaces == {"reset", "check", "dead"}
SwapPlaces == {"save", "saving", "install", "installing", "giveback", "givingback",
               "mark", "marking", "finish", "finishing"}
RevertPlaces == {"restore", "restoring", "mark", "marking", "finish", "finishing"}
AppPlaces == {"start", "confirming", "init", "run", "staging", "requesting", "crashed"}

Points ==
  ({"boot"} \X BootPlaces) \cup ({"swap"} \X SwapPlaces)
    \cup ({"revert"} \X RevertPlaces) \cup ({"app"} \X AppPlaces)

\* The points where a power failure loses the image being replaced, or both.
UnsafePoints ==
  ({"swap"} \X {"installing", "giveback", "givingback", "mark", "marking", "finishing"})
    \cup {<<"revert", "marking">>}
SafePoints == Points \ UnsafePoints

ASSUME NPagesAssumption == NPages \in Nat \ {0}
ASSUME JunkAssumption == Junk \notin Images
ASSUME SizeAssumption == Size \in [Images -> Pages]
ASSUME HangAssumption == HangsEarly \subseteq Images /\ HangsInInit \subseteq Images
ASSUME LossAssumption == LossAt \subseteq Points

VARIABLES
  active, dfu,      \* the partitions, page by page
  scratch,          \* the scratch page
  magic, progress,  \* the boot-state page: magic word and progress word
  task, pc,         \* the point the processor is at
  page,             \* the page the boot loader works on
  buf,              \* PAGE_BUF of the boot loader
  rx, rxPages,      \* the image being received (Junk: none), pages staged
  plan              \* history: both partitions when the swap was requested

flash == <<active, dfu, scratch, magic, progress>>
ram == <<page, buf, rx, rxPages>>
vars == <<flash, task, pc, ram, plan>>

Intact(slot, v) == \A p \in 1..Size[v] : slot[p] = v

Whole(slot) == \E v \in Images : Intact(slot, v)

ImageIn(slot) == CHOOSE v \in Images : Intact(slot, v)

At(t, place) == task = t /\ pc = place

Goto(t, place) == task' = t /\ pc' = place

InApp == task = "app"

\* A chip with the boot loader alone: everything else is erased.
Blank == magic = "ERASED" /\ \A p \in Pages : active[p] = Junk /\ dfu[p] = Junk

----------------------------------------------------------------------------
(***************************************************************************)
(* The chip as it leaves the programmer: the boot loader with a working    *)
(* application or without any, nothing staged, the boot-state page erased. *)
(***************************************************************************)
Init ==
  /\ \/ active = [p \in Pages |-> Junk]
     \/ \E v \in Images \ (HangsEarly \cup HangsInInit) :
          active = [p \in Pages |-> IF p <= Size[v] THEN v ELSE Junk]
  /\ dfu = [p \in Pages |-> Junk]
  /\ scratch = Junk
  /\ magic = "ERASED" /\ progress = Erased
  /\ task = "boot" /\ pc = "reset"
  /\ page = 1 /\ buf = Junk
  /\ rx = Junk /\ rxPages = 0
  /\ plan = [old |-> active, new |-> dfu]

\* RAM is lost; the processor starts over in the boot loader.
Reset ==
  /\ Goto("boot", "reset")
  /\ page' = 1 /\ buf' = Junk
  /\ rx' = Junk /\ rxPages' = 0

PowerLoss ==
  /\ <<task, pc>> \in LossAt
  /\ ~ At("boot", "reset")
  /\ Reset
  /\ UNCHANGED <<flash, plan>>

----------------------------------------------------------------------------
(***************************************************************************)
(* The boot loader.  write_state erases the boot-state page, then programs *)
(* magic and progress as one double word.                                  *)
(***************************************************************************)
EraseState ==
  /\ magic' = "ERASED"
  /\ progress' = Erased

ProgramState(word, done) ==
  /\ magic' = word
  /\ progress' = done

Start == IF progress = Erased THEN 0 ELSE progress

\* The loop head of swap_partitions and revert_partitions, done pages in.
Loop(t, first, done) ==
  IF done < NPages
    THEN page' = done + 1 /\ Goto(t, first)
    ELSE page' = page /\ Goto(t, "finish")

BootSwap ==
  /\ At("boot", "reset")
  /\ magic = "SWAP_PENDING"
  /\ Loop("swap", "save", Start)
  /\ UNCHANGED <<flash, buf, rx, rxPages, plan>>

BootRevert ==
  /\ At("boot", "reset")
  /\ magic \in {"REVERT_PENDING", "SWAP_COMPLETE"}
  /\ Loop("revert", "restore", IF magic = "SWAP_COMPLETE" THEN 0 ELSE Start)
  /\ UNCHANGED <<flash, buf, rx, rxPages, plan>>

BootNormal ==
  /\ At("boot", "reset")
  /\ magic \in {"BOOT_OK", "ERASED"}
  /\ Goto("boot", "check")
  /\ UNCHANGED <<flash, ram, plan>>

\* copy_page: the source is read into buf, the destination erased; then programmed.
SaveErase ==
  /\ At("swap", "save")
  /\ buf' = active[page]
  /\ scratch' = Junk
  /\ Goto("swap", "saving")
  /\ UNCHANGED <<active, dfu, magic, progress, page, rx, rxPages, plan>>

SaveProgram ==
  /\ At("swap", "saving")
  /\ scratch' = buf
  /\ Goto("swap", "install")
  /\ UNCHANGED <<active, dfu, magic, progress, ram, plan>>

InstallErase ==
  /\ At("swap", "install")
  /\ buf' = dfu[page]
  /\ active' = [active EXCEPT ![page] = Junk]
  /\ Goto("swap", "installing")
  /\ UNCHANGED <<dfu, scratch, magic, progress, page, rx, rxPages, plan>>

InstallProgram ==
  /\ At("swap", "installing")
  /\ active' = [active EXCEPT ![page] = buf]
  /\ Goto("swap", "giveback")
  /\ UNCHANGED <<dfu, scratch, magic, progress, ram, plan>>

\* Mutant of GivebackErase: ACTIVE, already overwritten, is copied.
GivebackFromActive ==
  /\ At("swap", "giveback")
  /\ buf' = active[page]
  /\ dfu' = [dfu EXCEPT ![page] = Junk]
  /\ Goto("swap", "givingback")
  /\ UNCHANGED <<active, scratch, magic, progress, page, rx, rxPages, plan>>

GivebackErase ==
  /\ At("swap", "giveback")
  /\ buf' = scratch
  /\ dfu' = [dfu EXCEPT ![page] = Junk]
  /\ Goto("swap", "givingback")
  /\ UNCHANGED <<active, scratch, magic, progress, page, rx, rxPages, plan>>

GivebackProgram ==
  /\ At("swap", "givingback")
  /\ dfu' = [dfu EXCEPT ![page] = buf]
  /\ Goto("swap", "mark")
  /\ UNCHANGED <<active, scratch, magic, progress, ram, plan>>

RestoreErase ==
  /\ At("revert", "restore")
  /\ buf' = dfu[page]
  /\ active' = [active EXCEPT ![page] = Junk]
  /\ Goto("revert", "restoring")
  /\ UNCHANGED <<dfu, scratch, magic, progress, page, rx, rxPages, plan>>

RestoreProgram ==
  /\ At("revert", "restoring")
  /\ active' = [active EXCEPT ![page] = buf]
  /\ Goto("revert", "mark")
  /\ UNCHANGED <<dfu, scratch, magic, progress, ram, plan>>

MarkErase ==
  /\ pc = "mark"
  /\ EraseState
  /\ Goto(task, "marking")
  /\ UNCHANGED <<active, dfu, scratch, ram, plan>>

\* Mutant of MarkSwap: the loop goes on from the progress word read before.
MarkSwapStale ==
  /\ At("swap", "marking")
  /\ ProgramState("SWAP_PENDING", page)
  /\ Loop("swap", "save", page - 1)
  /\ UNCHANGED <<active, dfu, scratch, buf, rx, rxPages, plan>>

MarkSwap ==
  /\ At("swap", "marking")
  /\ ProgramState("SWAP_PENDING", page)
  /\ Loop("swap", "save", page)
  /\ UNCHANGED <<active, dfu, scratch, buf, rx, rxPages, plan>>

MarkRevert ==
  /\ At("revert", "marking")
  /\ ProgramState("REVERT_PENDING", page)
  /\ Loop("revert", "restore", page)
  /\ UNCHANGED <<active, dfu, scratch, buf, rx, rxPages, plan>>

FinishErase ==
  /\ pc = "finish"
  /\ EraseState
  /\ Goto(task, "finishing")
  /\ UNCHANGED <<active, dfu, scratch, ram, plan>>

\* Mutant of FinishProgram: a swap ends confirmed.
FinishConfirmed ==
  /\ pc = "finishing"
  /\ ProgramState("BOOT_OK", Erased)
  /\ Goto("boot", "check")
  /\ UNCHANGED <<active, dfu, scratch, ram, plan>>

FinishProgram ==
  /\ pc = "finishing"
  /\ ProgramState(IF task = "swap" THEN "SWAP_COMPLETE" ELSE "BOOT_OK", Erased)
  /\ Goto("boot", "check")
  /\ UNCHANGED <<active, dfu, scratch, ram, plan>>

\* app_valid looks at the first eight bytes of ACTIVE only: an erased page does not
\* look like a vector table, a half-written one or the middle of an image may.
JumpToApp ==
  /\ At("boot", "check")
  /\ ~ Blank
  /\ Goto("app", IF Whole(active) THEN "start" ELSE "crashed")
  /\ page' = 1 /\ buf' = Junk
  /\ UNCHANGED <<flash, rx, rxPages, plan>>

WaitForReflash ==
  /\ At("boot", "check")
  /\ active[1] = Junk
  /\ Goto("boot", "dead")
  /\ UNCHANGED <<flash, ram, plan>>

BootLoader ==
  \/ BootSwap \/ BootRevert \/ BootNormal
  \/ SaveErase \/ SaveProgram \/ InstallErase \/ InstallProgram
  \/ GivebackErase \/ GivebackProgram \/ RestoreErase \/ RestoreProgram
  \/ MarkErase \/ MarkSwap \/ MarkRevert \/ FinishErase \/ FinishProgram
  \/ JumpToApp \/ WaitForReflash

----------------------------------------------------------------------------
(***************************************************************************)
(* The application: init confirms the boot right after it has started the  *)
(* watchdog, then brings up the peripherals.                               *)
(***************************************************************************)
ConfirmBoot ==
  /\ At("app", "start")
  /\ ImageIn(active) \notin HangsEarly
  /\ IF magic = "BOOT_OK"
       THEN /\ Goto("app", "init")
            /\ UNCHANGED <<magic, progress>>
       ELSE /\ EraseState
            /\ Goto("app", "confirming")
  /\ UNCHANGED <<active, dfu, scratch, ram, plan>>

ConfirmProgram ==
  /\ At("app", "confirming")
  /\ ProgramState("BOOT_OK", Erased)
  /\ Goto("app", "init")
  /\ UNCHANGED <<active, dfu, scratch, ram, plan>>

InitDone ==
  /\ At("app", "init")
  /\ ImageIn(active) \notin HangsInInit
  /\ Goto("app", "run")
  /\ UNCHANGED <<flash, ram, plan>>

WatchdogReset ==
  /\ At("app", "init")
  /\ ImageIn(active) \in HangsInInit
  /\ Reset
  /\ UNCHANGED <<flash, plan>>

Application == ConfirmBoot \/ ConfirmProgram \/ InitDone \/ WatchdogReset

----------------------------------------------------------------------------
(***************************************************************************)
(* Staging: FW_BEGIN, the flush of each full page, FW_END.  A page may     *)
(* carry data the sender did not send (Junk): only the CRC over the staged *)
(* image tells.                                                            *)
(***************************************************************************)
Begin(v) ==
  /\ At("app", "run")
  /\ rx' = v /\ rxPages' = 0
  /\ UNCHANGED <<flash, task, pc, page, buf, plan>>

WritePageErase ==
  /\ At("app", "run")
  /\ rx # Junk
  /\ rxPages < Size[rx]
  /\ dfu' = [dfu EXCEPT ![rxPages + 1] = Junk]
  /\ Goto("app", "staging")
  /\ UNCHANGED <<active, scratch, magic, progress, ram, plan>>

WritePageProgram(c) ==
  /\ At("app", "staging")
  /\ dfu' = [dfu EXCEPT ![rxPages + 1] = c]
  /\ rxPages' = rxPages + 1
  /\ Goto("app", "run")
  /\ UNCHANGED <<active, scratch, magic, progress, page, buf, rx, plan>>

\* FW_ABORT, an oversized FW_DATA, or a flash error while a page is written.
DropTransfer ==
  /\ InApp /\ pc \in {"run", "staging"}
  /\ rx # Junk
  /\ rx' = Junk /\ rxPages' = 0
  /\ Goto("app", "run")
  /\ UNCHANGED <<flash, page, buf, plan>>

EndRefused ==
  /\ At("app", "run")
  /\ rx # Junk
  /\ rxPages < Size[rx] \/ ~ Intact(dfu, rx)
  /\ rx' = Junk /\ rxPages' = 0
  /\ UNCHANGED <<flash, task, pc, page, buf, plan>>

\* Mutant of EndVerified: no CRC over the staged image.
EndUnverified ==
  /\ At("app", "run")
  /\ rx # Junk
  /\ rxPages = Size[rx]
  /\ EraseState
  /\ Goto("app", "requesting")
  /\ rx' = Junk /\ rxPages' = 0
  /\ UNCHANGED <<active, dfu, scratch, page, buf, plan>>

\* The image's CRC matches: request_swap erases the boot-state page ...
EndVerified ==
  /\ At("app", "run")
  /\ rx # Junk
  /\ rxPages = Size[rx]
  /\ Intact(dfu, rx)
  /\ EraseState
  /\ Goto("app", "requesting")
  /\ rx' = Junk /\ rxPages' = 0
  /\ UNCHANGED <<active, dfu, scratch, page, buf, plan>>

\* ... and programs it; the application acks FW_END and resets.
RequestSwap ==
  /\ At("app", "requesting")
  /\ ProgramState("SWAP_PENDING", Erased)
  /\ plan' = [old |-> active, new |-> dfu]
  /\ Reset
  /\ UNCHANGED <<active, dfu, scratch>>

Staging ==
  \/ \E v \in Images : Begin(v)
  \/ WritePageErase
  \/ \E c \in {rx, Junk} : WritePageProgram(c)
  \/ DropTransfer \/ EndRefused \/ EndVerified \/ RequestSwap

----------------------------------------------------------------------------
Next == BootLoader \/ Application \/ Staging \/ PowerLoss

\* The processor runs: a boot loader or start-up step that can be taken is
\* taken.  Nothing obliges a host to send an image or power to fail.
Fairness == WF_vars(BootLoader) /\ WF_vars(Application) /\ WF_vars(RequestSwap)

Spec == Init /\ [][Next]_vars /\ Fairness

----------------------------------------------------------------------------
(***************************************************************************)
(* What the mechanism implements.                                          *)
(***************************************************************************)
Phase ==
  IF task = "swap" \/ magic = "SWAP_PENDING" THEN "installing"
  ELSE IF task = "revert" \/ magic = "REVERT_PENDING" THEN "failed"
  ELSE IF magic = "SWAP_COMPLETE"
    THEN IF At("boot", "reset") THEN "failed" ELSE "trial"
  ELSE "confirmed"

Current ==
  IF Phase = "confirmed" THEN IF Blank THEN Junk ELSE ImageIn(active)
  ELSE IF Phase = "installing" THEN ImageIn(plan.old)
  ELSE ImageIn(plan.new)

Other ==
  IF Phase = "confirmed" THEN Junk
  ELSE IF Phase = "installing" THEN ImageIn(plan.new)
  ELSE ImageIn(plan.old)

Running == IF InApp THEN ImageIn(active) ELSE Junk

Atomic == INSTANCE AtomicUpdate WITH
  Images <- Images, NoImage <- Junk,
  phase <- Phase, current <- Current, other <- Other, running <- Running

----------------------------------------------------------------------------
TypeOK ==
  /\ active \in Slot /\ dfu \in Slot
  /\ scratch \in Content
  /\ magic \in Magic
  /\ progress \in (1..NPages) \cup {Erased}
  /\ <<task, pc>> \in Points
  /\ page \in Pages
  /\ buf \in Content
  /\ rx \in Content
  /\ rxPages \in 0..NPages
  /\ plan \in [old : Slot, new : Slot]

\* Refinement: with power failing at any of the points LossAt, the running image
\* only ever changes as a whole, a new image only becomes permanent by
\* confirming its boot, and one that does not gives way to the old one.
IsAtomic == Atomic!Spec

\* The boot loader never hands over to a mixture of two images or to a
\* half-written one.
BootsWholeImage == InApp => Whole(active)

\* From the request of a swap until the new image has confirmed its boot, every
\* page of the old image is in flash, where a revert finds it or, while the page
\* is being exchanged, in the scratch page or still in ACTIVE.
OldImageKept ==
  Phase # "confirmed" =>
    \A p \in Pages :
      \/ plan.old[p] \in {active[p], dfu[p]}
      \/ task = "swap" /\ p = page /\ plan.old[p] = scratch

\* Once the swap is complete and the new image about to be tried, ACTIVE holds
\* exactly what was staged and verified.
NewImageInstalled == Phase = "trial" => active = plan.new

\* When power stops failing, an update in progress ends with some image
\* running, and a failed one with the old image past its start-up.
UpdateSettles ==
  <>[][~ PowerLoss]_vars =>
    /\ (Phase = "installing") ~> InApp
    /\ (Phase = "failed") ~> At("app", "run")

\* watchdog.rs and main.rs promise that an image which hangs anywhere in init is
\* reset and replaced by the previous one.
HangingImageGivesWay ==
  (At("app", "init") /\ ImageIn(active) \in HangsInInit) ~> At("app", "run")

----------------------------------------------------------------------------
(***************************************************************************)
(* The inductive invariant: which page of which image is where, at every   *)
(* point of the code, when power fails at safe points only.                *)
(***************************************************************************)
Exchanged(p) == active[p] = plan.new[p] /\ dfu[p] = plan.old[p]
Untouched(p) == active[p] = plan.old[p] /\ dfu[p] = plan.new[p]

\* Both images of an update that is not settled are whole.
PlanInv ==
  task \in {"swap", "revert"} \/ magic \in {"SWAP_PENDING", "SWAP_COMPLETE", "REVERT_PENDING"}
    => Whole(plan.old) /\ Whole(plan.new)

\* The page under exchange is untouched, in a copy, or exchanged.
ExchangeInv ==
  /\ pc \in {"save", "saving", "install"} => Untouched(page)
  /\ pc = "saving" => buf = plan.old[page]
  /\ pc \in {"install", "installing", "giveback", "givingback"} => scratch = plan.old[page]
  /\ pc \in {"installing", "giveback"} => dfu[page] = plan.new[page]
  /\ pc = "installing" => buf = plan.new[page]
  /\ pc \in {"giveback", "givingback"} => active[page] = plan.new[page]
  /\ pc = "givingback" => buf = plan.old[page]
  /\ pc \in {"mark", "marking"} => Exchanged(page)

SwapInv ==
  task = "swap" =>
    /\ IF pc \in {"finish", "finishing"}
         THEN \A p \in Pages : Exchanged(p)
         ELSE /\ \A p \in Pages : p < page => Exchanged(p)
              /\ \A p \in Pages : p > page => Untouched(p)
              /\ ExchangeInv
    /\ pc \notin {"marking", "finishing"} =>
         /\ magic = "SWAP_PENDING"
         /\ Start = IF pc = "finish" THEN NPages ELSE page - 1

RevertInv ==
  task = "revert" =>
    /\ dfu = plan.old
    /\ IF pc \in {"finish", "finishing"}
         THEN active = plan.old
         ELSE \A p \in Pages : p < page => active[p] = plan.old[p]
    /\ pc = "restoring" => buf = plan.old[page]
    /\ pc \in {"mark", "marking"} => active[page] = plan.old[page]
    /\ pc \in {"restore", "restoring", "mark"} =>
         \/ magic = "REVERT_PENDING" /\ Start = page - 1
         \/ magic = "SWAP_COMPLETE" /\ page = 1
    /\ pc = "finish" => magic = "REVERT_PENDING" /\ Start = NPages
    /\ pc \in {"marking", "finishing"} => magic = "ERASED"

\* What the boot loader finds after a reset.
ResetInv ==
  At("boot", "reset") =>
    /\ magic = "SWAP_PENDING" =>
         \A p \in Pages : IF p <= Start THEN Exchanged(p) ELSE Untouched(p)
    /\ magic = "REVERT_PENDING" =>
         dfu = plan.old /\ \A p \in Pages : p <= Start => active[p] = plan.old[p]
    /\ magic = "SWAP_COMPLETE" => dfu = plan.old

\* What it hands over to the application.
HandoverInv ==
  /\ InApp \/ At("boot", "check") =>
       /\ magic \in {"BOOT_OK", "ERASED", "SWAP_COMPLETE"}
       /\ magic = "SWAP_COMPLETE" => active = plan.new /\ dfu = plan.old
  /\ task \in {"boot", "app"} /\ magic \in {"BOOT_OK", "ERASED"} =>
       Whole(active) \/ (Blank /\ ~ InApp)
  /\ At("boot", "dead") => Blank
  /\ ~ At("app", "crashed")
  /\ pc \in {"confirming", "requesting"} => magic = "ERASED"
  /\ pc \in {"init", "run", "staging"} => magic = "BOOT_OK"
  /\ pc = "requesting" => Whole(dfu)
  /\ pc = "staging" => rx \in Images /\ rxPages < Size[rx]

\* The safe swap: every conjunct above, inductive under failures at safe points.
SafeInv == TypeOK /\ PlanInv /\ SwapInv /\ RevertInv /\ ResetInv /\ HandoverInv
=============================================================================
