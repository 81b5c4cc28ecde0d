-------------------------- MODULE SwapBoot_proofs ---------------------------
(***************************************************************************)
(* Proofs about SwapBoot for every number of pages, every set of images    *)
(* and sizes, whatever hangs, and every set of safe points of failure.     *)
(***************************************************************************)
EXTENDS SwapBoot, TLAPS

USE NPagesAssumption, JunkAssumption, SizeAssumption
    DEF Pages, Erased, At, Goto, InApp, Start

LEMMA InitSafe == Init => SafeInv
BY DEF Init, SafeInv, TypeOK, PlanInv, SwapInv, RevertInv, ResetInv, HandoverInv,
       Slot, Content, Magic, Points, BootPlaces, Whole, Intact, Blank

\* The exchange of a page, from its first copy to the mark of its progress.
LEMMA SwapSafe ==
  ASSUME SafeInv,
         SaveErase \/ SaveProgram \/ InstallErase \/ InstallProgram \/ GivebackErase
           \/ GivebackProgram \/ MarkErase \/ MarkSwap
  PROVE  SafeInv'
<1> USE DEF SafeInv, TypeOK, PlanInv, SwapInv, RevertInv, ResetInv, HandoverInv, ExchangeInv,
     Exchanged, Untouched, Slot, Content, Magic, Points, BootPlaces, SwapPlaces, RevertPlaces,
     AppPlaces, Whole, Intact, Blank, Loop, EraseState, ProgramState, Reset, flash, ram
<1>1. CASE SaveErase
  BY <1>1 DEF SaveErase
<1>2. CASE SaveProgram
  BY <1>2 DEF SaveProgram
<1>3. CASE InstallErase
  BY <1>3 DEF InstallErase
<1>4. CASE InstallProgram
  BY <1>4 DEF InstallProgram
<1>5. CASE GivebackErase
  BY <1>5 DEF GivebackErase
<1>6. CASE GivebackProgram
  BY <1>6 DEF GivebackProgram
<1>7. CASE MarkErase
  BY <1>7 DEF MarkErase
<1>8. CASE MarkSwap
  BY <1>8 DEF MarkSwap
<1> QED
  BY <1>1, <1>2, <1>3, <1>4, <1>5, <1>6, <1>7, <1>8

\* The revert.
LEMMA RevertSafe ==
  ASSUME SafeInv,
         RestoreErase \/ RestoreProgram \/ MarkRevert
  PROVE  SafeInv'
<1> USE DEF SafeInv, TypeOK, PlanInv, SwapInv, RevertInv, ResetInv, HandoverInv, ExchangeInv,
     Exchanged, Untouched, Slot, Content, Magic, Points, BootPlaces, SwapPlaces, RevertPlaces,
     AppPlaces, Whole, Intact, Blank, Loop, EraseState, ProgramState, Reset, flash, ram
<1>1. CASE RestoreErase
  BY <1>1 DEF RestoreErase
<1>2. CASE RestoreProgram
  BY <1>2 DEF RestoreProgram
<1>3. CASE MarkRevert
  <2> USE <1>3 DEF MarkRevert
  <2>1. CASE page < NPages
    BY <2>1
  <2>2. CASE page = NPages
    <3>1. active = plan.old
      BY <2>2
    <3> QED
      BY <2>2, <3>1
  <2> QED
    BY <2>1, <2>2
<1> QED
  BY <1>1, <1>2, <1>3

\* The entry, the end of a swap or revert and the hand-over.
LEMMA BootSafe ==
  ASSUME SafeInv,
         BootSwap \/ BootRevert \/ BootNormal \/ FinishErase \/ FinishProgram \/ JumpToApp
           \/ WaitForReflash
  PROVE  SafeInv'
<1> USE DEF SafeInv, TypeOK, PlanInv, SwapInv, RevertInv, ResetInv, HandoverInv, ExchangeInv,
     Exchanged, Untouched, Slot, Content, Magic, Points, BootPlaces, SwapPlaces, RevertPlaces,
     AppPlaces, Whole, Intact, Blank, Loop, EraseState, ProgramState, Reset, flash, ram
<1>1. CASE BootSwap
  BY <1>1 DEF BootSwap
<1>2. CASE BootRevert
  <2> USE <1>2 DEF BootRevert
  <2>1. CASE magic = "SWAP_COMPLETE"
    BY <2>1
  <2>2. CASE magic = "REVERT_PENDING" /\ Start < NPages
    BY <2>2
  <2>3. CASE magic = "REVERT_PENDING" /\ Start = NPages
    <3>1. active = plan.old
      BY <2>3
    <3> QED
      BY <2>3, <3>1
  <2> QED
    BY <2>1, <2>2, <2>3
<1>3. CASE BootNormal
  BY <1>3 DEF BootNormal
<1>4. CASE FinishErase
  BY <1>4 DEF FinishErase
<1>5. CASE FinishProgram
  <2> USE <1>5 DEF FinishProgram
  <2>1. CASE task = "swap"
    <3>1. active = plan.new /\ dfu = plan.old
      BY <2>1
    <3>2. TypeOK' /\ PlanInv' /\ SwapInv' /\ RevertInv' /\ ResetInv'
      BY <2>1
    <3>3. HandoverInv'
      BY <2>1, <3>1
    <3> QED
      BY <3>2, <3>3
  <2>2. CASE task = "revert"
    <3>1. TypeOK' /\ PlanInv' /\ SwapInv' /\ RevertInv' /\ ResetInv'
      BY <2>2
    <3>2. HandoverInv'
      BY <2>2
    <3> QED
      BY <3>1, <3>2
  <2> QED
    BY <2>1, <2>2
<1>6. CASE JumpToApp
  BY <1>6 DEF JumpToApp
<1>7. CASE WaitForReflash
  BY <1>7 DEF WaitForReflash
<1> QED
  BY <1>1, <1>2, <1>3, <1>4, <1>5, <1>6, <1>7

\* The application's start and the staging of an image.
LEMMA AppSafe ==
  ASSUME SafeInv,
         ConfirmBoot \/ ConfirmProgram \/ InitDone \/ WatchdogReset
           \/ (\E v \in Images : Begin(v)) \/ WritePageErase
           \/ (\E c \in {rx, Junk} : WritePageProgram(c)) \/ DropTransfer \/ EndRefused
           \/ EndVerified \/ RequestSwap
  PROVE  SafeInv'
<1> USE DEF SafeInv, TypeOK, PlanInv, SwapInv, RevertInv, ResetInv, HandoverInv, ExchangeInv,
     Exchanged, Untouched, Slot, Content, Magic, Points, BootPlaces, SwapPlaces, RevertPlaces,
     AppPlaces, Whole, Intact, Blank, Loop, EraseState, ProgramState, Reset, flash, ram
<1>1. CASE ConfirmBoot
  <2> USE <1>1 DEF ConfirmBoot
  <2>1. TypeOK'
    OBVIOUS
  <2>2. PlanInv' /\ SwapInv' /\ RevertInv' /\ ResetInv'
    OBVIOUS
  <2>3. HandoverInv'
    OBVIOUS
  <2> QED
    BY <2>1, <2>2, <2>3
<1>2. CASE ConfirmProgram
  BY <1>2 DEF ConfirmProgram
<1>3. CASE InitDone
  BY <1>3 DEF InitDone
<1>4. CASE WatchdogReset
  BY <1>4 DEF WatchdogReset
<1>5. CASE \E v \in Images : Begin(v)
  BY <1>5 DEF Begin
<1>6. CASE WritePageErase
  BY <1>6 DEF WritePageErase
<1>7. CASE \E c \in {rx, Junk} : WritePageProgram(c)
  <2> USE <1>7 DEF WritePageProgram
  <2>1. TypeOK'
    OBVIOUS
  <2>2. PlanInv' /\ SwapInv' /\ RevertInv' /\ ResetInv'
    OBVIOUS
  <2>3. HandoverInv'
    OBVIOUS
  <2> QED
    BY <2>1, <2>2, <2>3
<1>8. CASE DropTransfer
  BY <1>8 DEF DropTransfer
<1>9. CASE EndRefused
  BY <1>9 DEF EndRefused
<1>10. CASE EndVerified
  BY <1>10 DEF EndVerified
<1>11. CASE RequestSwap
  BY <1>11 DEF RequestSwap
<1> QED
  BY <1>1, <1>2, <1>3, <1>4, <1>5, <1>6, <1>7, <1>8, <1>9, <1>10, <1>11


\* A failure at a safe point leaves flash as the boot loader expects it.
LEMMA LossSafe ==
  ASSUME SafeInv, PowerLoss, LossAt \subseteq SafePoints
  PROVE  SafeInv'
<1> USE DEF PowerLoss, Reset, SafePoints, UnsafePoints, Points, BootPlaces, SwapPlaces,
      RevertPlaces, AppPlaces, flash, SafeInv, TypeOK, Slot, Content
<1>1. TypeOK' /\ SwapInv' /\ RevertInv'
  BY DEF SwapInv, RevertInv
<1>2. PlanInv'
  BY DEF PlanInv, Whole, Intact
<1>3. ResetInv'
  <2>1. CASE task = "swap"
    BY <2>1 DEF SwapInv, ResetInv, ExchangeInv, Exchanged, Untouched
  <2>2. CASE task = "revert"
    BY <2>2 DEF RevertInv, ResetInv
  <2>3. CASE task \in {"boot", "app"}
    BY <2>3 DEF HandoverInv, ResetInv, Blank
  <2> QED
    BY <2>1, <2>2, <2>3
<1>4. HandoverInv'
  BY DEF HandoverInv, SwapInv, RevertInv, PlanInv, Exchanged, Whole, Intact, Blank
<1> QED
  BY <1>1, <1>2, <1>3, <1>4

\* TypeOK and the page invariant, for every number of pages and images: power
\* failing at safe points only, SafeInv holds in every reachable state.
THEOREM SafeSwap ==
  ASSUME LossAt \subseteq SafePoints
  PROVE  Spec => []SafeInv
<1>1. SafeInv /\ [Next]_vars => SafeInv'
  <2> SUFFICES ASSUME SafeInv, [Next]_vars
               PROVE  SafeInv'
    OBVIOUS
  <2>1. CASE BootLoader
    BY <2>1, SwapSafe, RevertSafe, BootSafe DEF BootLoader
  <2>2. CASE Application
    BY <2>2, AppSafe DEF Application
  <2>3. CASE Staging
    BY <2>3, AppSafe DEF Staging
  <2>4. CASE PowerLoss
    BY <2>4, LossSafe
  <2>5. CASE UNCHANGED vars
    BY <2>5 DEF vars, flash, ram, SafeInv, TypeOK, PlanInv, SwapInv, RevertInv, ResetInv,
       HandoverInv, ExchangeInv, Exchanged, Untouched, Whole, Intact, Blank
  <2> QED
    BY <2>1, <2>2, <2>3, <2>4, <2>5 DEF Next
<1> QED
  BY <1>1, InitSafe, PTL DEF Spec

LEMMA WholeInApp == SafeInv => BootsWholeImage
<1> SUFFICES ASSUME SafeInv, InApp
             PROVE  Whole(active)
  BY DEF BootsWholeImage
<1>1. CASE magic = "SWAP_COMPLETE"
  BY <1>1 DEF SafeInv, HandoverInv, PlanInv
<1>2. CASE magic \in {"BOOT_OK", "ERASED"}
  BY <1>2 DEF SafeInv, HandoverInv
<1> QED
  BY <1>1, <1>2 DEF SafeInv, HandoverInv

\* The boot loader hands over to whole images only.
THEOREM WholeImageBoots ==
  ASSUME LossAt \subseteq SafePoints
  PROVE  Spec => []BootsWholeImage
BY WholeInApp, SafeSwap, PTL

\* No page of the old image is lost before the new image has confirmed.
THEOREM RollbackKept ==
  ASSUME LossAt \subseteq SafePoints
  PROVE  Spec => []OldImageKept
<1>1. SafeInv => OldImageKept
  <2> SUFFICES ASSUME SafeInv, Phase # "confirmed", NEW p \in Pages
               PROVE  \/ plan.old[p] \in {active[p], dfu[p]}
                      \/ task = "swap" /\ p = page /\ plan.old[p] = scratch
    BY DEF OldImageKept
  <2> USE DEF SafeInv, TypeOK, Points, BootPlaces, SwapPlaces, RevertPlaces, AppPlaces, Magic
  <2>1. CASE task = "swap"
    BY <2>1 DEF SwapInv, ExchangeInv, Exchanged, Untouched
  <2>2. CASE task = "revert"
    BY <2>2 DEF RevertInv
  <2>3. CASE task \in {"boot", "app"}
    BY <2>3 DEF Phase, ResetInv, HandoverInv, Exchanged, Untouched, Blank
  <2> QED
    BY <2>1, <2>2, <2>3
<1> QED
  BY <1>1, SafeSwap, PTL

\* A new image that is tried is in ACTIVE page for page as it was staged.
THEOREM InstalledAsStaged ==
  ASSUME LossAt \subseteq SafePoints
  PROVE  Spec => []NewImageInstalled
<1>1. SafeInv => NewImageInstalled
  BY DEF SafeInv, TypeOK, Points, BootPlaces, SwapPlaces, RevertPlaces, AppPlaces,
     HandoverInv, NewImageInstalled, Phase, InApp, Blank
<1> QED
  BY <1>1, SafeSwap, PTL

----------------------------------------------------------------------------
(***************************************************************************)
(* SwapBoot implements AtomicUpdate.                                       *)
(***************************************************************************)
LEMMA ImageInWhole ==
  ASSUME NEW slot, Whole(slot)
  PROVE  ImageIn(slot) \in Images
BY DEF Whole, ImageIn

LEMMA WholeIsFirst ==
  ASSUME NEW slot, Whole(slot)
  PROVE  slot[1] # Junk
BY DEF Whole, Intact

LEMMA InitAtomic == Init => Atomic!Init
<1> SUFFICES ASSUME Init
             PROVE  Atomic!Init
  OBVIOUS
<1>1. Whole(active) \/ Blank
  BY InitSafe DEF SafeInv, HandoverInv, Init
<1>2. Phase = "confirmed" /\ Running = Junk
  BY DEF Init, Phase, Running
<1> QED
  BY <1>1, <1>2, ImageInWhole DEF Atomic!Init, Current, Other

\* Every step of the mechanism is a step of AtomicUpdate or none.
LEMMA StepAtomic ==
  ASSUME SafeInv, SafeInv', [Next]_vars, LossAt \subseteq SafePoints
  PROVE  [Atomic!Next]_(Atomic!vars)
<1> USE DEF SafeInv, TypeOK, Points, BootPlaces, SwapPlaces, RevertPlaces, AppPlaces, Magic,
      Loop, EraseState, ProgramState, Reset, flash, ram, Phase, Running, Blank
<1>a. InApp => Whole(active) /\ ImageIn(active) \in Images /\ active[1] # Junk
  BY WholeInApp, ImageInWhole, WholeIsFirst DEF BootsWholeImage
<1>1. ASSUME SaveErase \/ SaveProgram \/ InstallErase \/ InstallProgram \/ GivebackErase
               \/ GivebackProgram \/ BootSwap \/ MarkSwap
      PROVE  UNCHANGED Atomic!vars
  <2>1. Phase = "installing" /\ Phase' = "installing" /\ plan' = plan /\ Running = Junk /\ Running' = Junk
    BY <1>1 DEF SaveErase, SaveProgram, InstallErase, InstallProgram, GivebackErase,
         GivebackProgram, BootSwap, MarkSwap, ResetInv, SwapInv
  <2> QED
    BY <2>1 DEF Atomic!vars, Current, Other
<1>2. ASSUME RestoreErase \/ RestoreProgram \/ BootRevert \/ MarkRevert
      PROVE  UNCHANGED Atomic!vars
  <2>1. Phase = "failed" /\ Phase' = "failed" /\ plan' = plan /\ Running = Junk /\ Running' = Junk
    BY <1>2 DEF RestoreErase, RestoreProgram, BootRevert, MarkRevert, RevertInv
  <2> QED
    BY <2>1 DEF Atomic!vars, Current, Other
<1>3. ASSUME MarkErase \/ FinishErase
      PROVE  UNCHANGED Atomic!vars
  <2>1. /\ task \in {"swap", "revert"} /\ task' = task /\ plan' = plan
        /\ task = "revert" => magic \in {"REVERT_PENDING", "SWAP_COMPLETE"} /\ magic' = "ERASED"
    BY <1>3 DEF MarkErase, FinishErase, RevertInv
  <2> QED
    BY <2>1 DEF Atomic!vars, Current, Other
<1>4. ASSUME BootNormal \/ WaitForReflash \/ ConfirmProgram \/ InitDone \/ WritePageErase
               \/ (\E v \in Images : Begin(v)) \/ (\E c \in {rx, Junk} : WritePageProgram(c))
               \/ DropTransfer \/ EndRefused \/ EndVerified
      PROVE  UNCHANGED Atomic!vars
  <2>1. Phase = "confirmed" /\ Phase' = "confirmed" /\ active' = active /\ (task' = "app" <=> task = "app")
    BY <1>4 DEF BootNormal, WaitForReflash, ConfirmProgram, InitDone, WritePageErase, Begin,
         WritePageProgram, DropTransfer, EndRefused, EndVerified, HandoverInv
  <2>2. CASE InApp
    BY <1>a, <2>1, <2>2 DEF Atomic!vars, Current, Other
  <2>3. CASE ~ InApp
    <3>1. UNCHANGED <<magic, active, dfu>>
      BY <1>4, <2>3 DEF BootNormal, WaitForReflash, ConfirmProgram, InitDone, WritePageErase, Begin,
           WritePageProgram, DropTransfer, EndRefused, EndVerified
    <3> QED
      BY <2>1, <2>3, <3>1 DEF Atomic!vars, Current, Other
  <2> QED
    BY <2>2, <2>3
<1>5. ASSUME FinishProgram
      PROVE  Atomic!Next
  <2>1. CASE task = "swap"
    BY <1>5, <2>1 DEF FinishProgram, Atomic!Next, Atomic!Install, Current, Other
  <2>2. CASE task = "revert"
    BY <1>5, <2>2 DEF FinishProgram, RevertInv, Atomic!Next, Atomic!Revert, Current, Other
  <2> QED
    BY <1>5, <2>1, <2>2 DEF FinishProgram
<1>6. ASSUME JumpToApp
      PROVE  Atomic!Next
  <2>1. Phase' = Phase /\ Phase \in {"confirmed", "trial"} /\ active' = active /\ plan' = plan
    BY <1>6 DEF JumpToApp, HandoverInv
  <2>2. Running' = Current /\ Running = Junk
    BY <1>6, <2>1 DEF JumpToApp, HandoverInv, Current
  <2>3. Whole(active)
    BY <1>6 DEF JumpToApp, HandoverInv, PlanInv
  <2>4. Running' \in Images
    BY <1>6, <2>3, ImageInWhole DEF JumpToApp
  <2>5. Current' = Current /\ Other' = Other
    BY <1>6, <2>1 DEF JumpToApp, Current, Other
  <2> QED
    BY <2>1, <2>2, <2>4, <2>5 DEF Atomic!Next, Atomic!Boot
<1>7. ASSUME ConfirmBoot
      PROVE  [Atomic!Next]_(Atomic!vars)
  <2>1. CASE magic = "SWAP_COMPLETE"
    BY <1>7, <1>a, <2>1 DEF ConfirmBoot, HandoverInv, Atomic!Next, Atomic!Confirm, Current, Other
  <2>2. CASE magic # "SWAP_COMPLETE"
    BY <1>7, <1>a, <2>2 DEF ConfirmBoot, HandoverInv, Atomic!vars, Current, Other
  <2> QED
    BY <2>1, <2>2
<1>8. ASSUME RequestSwap
      PROVE  Atomic!Next
  <2>1. ImageIn(dfu) \in Images
    BY <1>8, ImageInWhole DEF RequestSwap, HandoverInv
  <2>2. Atomic!Request(ImageIn(dfu))
    BY <1>8, <1>a DEF RequestSwap, HandoverInv, Atomic!Request, Current, Other
  <2> QED
    BY <2>1, <2>2 DEF Atomic!Next
<1>9. ASSUME InApp, Reset, UNCHANGED <<flash, plan>>
      PROVE  [Atomic!Next]_(Atomic!vars)
  <2>1. Running # Junk /\ Running' = Junk
    BY <1>9, WholeInApp, ImageInWhole DEF BootsWholeImage
  <2>2. /\ Phase' = IF Phase = "trial" THEN "failed" ELSE Phase
        /\ Current' = Current /\ Other' = Other
    BY <1>9 DEF HandoverInv, Current, Other
  <2> QED
    BY <2>1, <2>2 DEF Atomic!Next, Atomic!Stop
<1>10. ASSUME PowerLoss, ~ InApp
       PROVE  [Atomic!Next]_(Atomic!vars)
  <2> USE <1>10 DEF PowerLoss, SafePoints, UnsafePoints
  <2>1. CASE task = "swap"
    BY <2>1 DEF SwapInv, Atomic!vars, Current, Other
  <2>2. CASE task = "revert" /\ pc = "finishing"
    <3>1. Whole(active) /\ active[1] # Junk
      BY <2>2, WholeIsFirst DEF RevertInv, PlanInv
    <3> QED
      BY <2>2, <3>1 DEF RevertInv, Atomic!Next, Atomic!Revert, Current, Other
  <2>3. CASE task = "revert" /\ pc # "finishing"
    BY <2>3 DEF RevertInv, Atomic!vars, Current, Other
  <2>4. CASE task = "boot"
    BY <2>4 DEF HandoverInv, Atomic!Next, Atomic!Stop, Atomic!vars, Current, Other
  <2> QED
    BY <2>1, <2>2, <2>3, <2>4
<1>11. CASE UNCHANGED vars
  BY <1>11 DEF vars, Atomic!vars, Current, Other
<1> QED
  BY <1>1, <1>2, <1>3, <1>4, <1>5, <1>6, <1>7, <1>8, <1>9, <1>10, <1>11
     DEF Next, BootLoader, Application, Staging, PowerLoss, WatchdogReset

\* The mechanism implements the atomic update.
THEOREM Refinement ==
  ASSUME LossAt \subseteq SafePoints
  PROVE  Spec => IsAtomic
<1>1. SafeInv /\ SafeInv' /\ [Next]_vars => [Atomic!Next]_(Atomic!vars)
  BY StepAtomic
<1> QED
  BY <1>1, InitAtomic, SafeSwap, PTL DEF Spec, IsAtomic, Atomic!Spec
=============================================================================
