------------------------ MODULE FastbootFlashProofs ------------------------
(***************************************************************************)
(* The properties of FastbootFlash for any partitions the root file system *)
(* may go to, any supply of files and any sequence of runs.                *)
(***************************************************************************)
EXTENDS FastbootFlash, TLAPS

-----------------------------------------------------------------------------
(* The inductive invariant.                                                *)

\* The branch the script is in, and the files whose presence it has checked.
BranchInv ==
    /\ pc \in Calls \cup {"erase"} => Supplied("rootfs")
    /\ pc \in {"ubootBoth", "ubootA", "ubootB"} => ~legacy /\ Supplied("uboot")
    /\ pc = "erase" => ~legacy
    /\ pc \in {"siliciumBoth", "siliciumA"} => legacy /\ Supplied("silicium")
    /\ pc \in {"esp", "bootfs"} => legacy

\* A partition holds what is now in the decompressed file, which therefore
\* is not decompressed again.
Holds(p, f) == raw[f] # "none" /\ part[p] = Image(f)

\* What the calls before pc have put on the device.
ProgressInv ==
    /\ pc = "ubootB" => Holds("boot_a", "uboot")
    /\ pc \in {"esp", "bootfs"} => Holds("boot_a", "silicium")
    /\ pc = "bootfs" => Holds("rawdump", "esp")
    /\ pc \in {"erase", "rootfs", "done"} =>
           IF legacy
             THEN /\ Holds("boot_a", "silicium")
                  /\ Holds("rawdump", "esp") /\ Holds("cust", "bootfs")
             ELSE Holds("boot_a", "uboot") /\ Holds("boot_b", "uboot")
    /\ pc = "done" => target \in Targets /\ Holds(target, "rootfs")

IInv == TypeOK /\ BranchInv /\ ProgressInv /\ RerunSucceeds

-----------------------------------------------------------------------------
(* It holds initially and is preserved, conjunct by conjunct.              *)

USE TargetsAssumption
USE DEF Return, dirVars, runVars

\* Nothing has been flashed, no run has started.
LEMMA InitIInv == Init => IInv
<1> SUFFICES ASSUME Init PROVE IInv
  OBVIOUS
<1>1. TypeOK
  BY DEF Init, TypeOK, Content, Other, Parts, Ended
<1>2. BranchInv /\ ProgressInv /\ RerunSucceeds
  BY DEF Init, BranchInv, ProgressInv, RerunSucceeds, Calls
<1> QED
  BY <1>1, <1>2 DEF IInv

\* TypeOK: a call returns to a call or an end, and writes images of files.
LEMMA TypeStep ==
  ASSUME TypeOK, [Next]_vars
  PROVE  TypeOK'
<1> USE DEF TypeOK
<1>1. ASSUME NEW o \in Overrides, NEW m \in BOOLEAN,
             NEW t \in TargetFiles, NEW l \in BOOLEAN, Start(o, m, t, l)
      PROVE  TypeOK'
  BY <1>1 DEF Start, RootPart, Overrides, TargetFiles, Calls, Ended
<1>2. ASSUME NEW c \in Calls, Unpacked(c) PROVE TypeOK'
  BY <1>2 DEF Unpacked, Calls, FileOf, Files
<1>3. ASSUME NEW c \in Calls, UnpackFails(c) PROVE TypeOK'
  BY <1>3 DEF UnpackFails, Calls, FileOf, Files
<1>4. ASSUME NEW c \in Calls, NothingToUnpack(c) PROVE TypeOK'
  BY <1>4 DEF NothingToUnpack, Calls, Ended, AfterFailure
<1>5. ASSUME NEW c \in Calls, Refuse(c) PROVE TypeOK'
  BY <1>5 DEF Refuse, Calls, Ended, AfterFailure
<1>6. ASSUME NEW c \in Calls, Flashed(c) PROVE TypeOK'
  BY <1>6 DEF Flashed, Calls, Ended, AfterSuccess, Content, Image, FileOf, Files
<1>7. ASSUME NEW c \in Calls, PartlyFlashed(c) PROVE part' \in [Parts -> Content]
  <2>1. Image(FileOf(c)) \in Content /\ Other("torn") \in Content
    BY DEF Content, Image, Other, FileOf, Files, Calls
  <2>2. QED
    BY <1>7, <2>1 DEF PartlyFlashed
<1>8. ASSUME NEW c \in Calls, FlashFails(c) PROVE TypeOK'
  BY <1>7, <1>8 DEF FlashFails, Calls, Ended, AfterFailure
<1>9. CASE EraseDtbo
  <2>1. Other("erased") \in Content
    BY DEF Content, Other
  <2>2. QED
    BY <1>9, <2>1 DEF EraseDtbo, Calls
<1>10. CASE Interrupt
  <2>1. CASE InterruptUnpack
    BY <1>10, <2>1 DEF Interrupt, InterruptUnpack, Ended, Calls, FileOf, Files
  <2>2. CASE InterruptFlash
    <3>1. pc \in Calls
      BY <2>2 DEF InterruptFlash
    <3>2. part' \in [Parts -> Content]
      BY <1>7, <2>2, <3>1 DEF InterruptFlash
    <3>3. QED
      BY <1>10, <2>2, <3>2 DEF Interrupt, InterruptFlash, Ended
  <2>3. CASE UNCHANGED <<raw, part>>
    BY <1>10, <2>3 DEF Interrupt, Ended
  <2>4. QED
    BY <1>10, <2>1, <2>2, <2>3 DEF Interrupt
<1>11. CASE UNCHANGED vars
  BY <1>11 DEF vars
<1> QED
  BY <1>1, <1>2, <1>3, <1>4, <1>5, <1>6, <1>8, <1>9, <1>10, <1>11 DEF Next

\* BranchInv: files stay supplied, and the order of the calls is that of the
\* branch Start chose.
LEMMA BranchStep ==
  ASSUME TypeOK, BranchInv, [Next]_vars
  PROVE  BranchInv'
<1> USE DEF BranchInv, Supplied
<1>1. ASSUME NEW o \in Overrides, NEW m \in BOOLEAN,
             NEW t \in TargetFiles, NEW l \in BOOLEAN, Start(o, m, t, l)
      PROVE  BranchInv'
  BY <1>1 DEF Start, Calls
<1>2. ASSUME NEW c \in Calls, Unpacked(c) PROVE BranchInv'
  BY <1>2 DEF Unpacked, Unpacks, TypeOK, Files
<1>3. ASSUME NEW c \in Calls, UnpackFails(c) PROVE BranchInv'
  BY <1>3 DEF UnpackFails, Unpacks, TypeOK, Files
<1>4. ASSUME NEW c \in Calls, NothingToUnpack(c) PROVE BranchInv'
  BY <1>4 DEF NothingToUnpack, Calls, AfterFailure
<1>5. ASSUME NEW c \in Calls, Refuse(c) PROVE BranchInv'
  BY <1>5 DEF Refuse, Calls, AfterFailure
<1>6. ASSUME NEW c \in Calls, Flashed(c) PROVE BranchInv'
  BY <1>6 DEF Flashed, Calls, AfterSuccess
<1>7. ASSUME NEW c \in Calls, FlashFails(c) PROVE BranchInv'
  BY <1>7 DEF FlashFails, Calls, AfterFailure
<1>8. CASE EraseDtbo
  BY <1>8 DEF EraseDtbo, Calls
<1>9. CASE Interrupt
  BY <1>9 DEF Interrupt, Calls
<1>10. CASE UNCHANGED vars
  BY <1>10 DEF vars
<1> QED
  BY <1>1, <1>2, <1>3, <1>4, <1>5, <1>6, <1>7, <1>8, <1>9, <1>10 DEF Next

\* A decompression touches no file that is on the device already.
LEMMA HoldsStays ==
  ASSUME TypeOK, NEW p \in Parts, NEW f \in Files, Holds(p, f), NEW c \in Calls,
         Unpacked(c) \/ UnpackFails(c)
  PROVE  Holds(p, f)'
BY DEF Holds, Image, Unpacked, UnpackFails, Unpacks, TypeOK

\* ProgressInv: a call that returns success has written its partitions, and
\* the later calls write others.
LEMMA ProgressStep ==
  ASSUME TypeOK, BranchInv, ProgressInv, [Next]_vars
  PROVE  ProgressInv'
<1> USE DEF ProgressInv
<1>1. ASSUME NEW o \in Overrides, NEW m \in BOOLEAN,
             NEW t \in TargetFiles, NEW l \in BOOLEAN, Start(o, m, t, l)
      PROVE  ProgressInv'
  BY <1>1 DEF Start
<1>2. ASSUME NEW c \in Calls, Unpacked(c) \/ UnpackFails(c) PROVE ProgressInv'
  <2>1. \A p \in Slots \cup {"rawdump", "cust"}, f \in Files : Holds(p, f) => Holds(p, f)'
    BY <1>2, HoldsStays DEF Parts, FixedParts
  <2>2. pc' = pc /\ legacy' = legacy /\ pc # "done"
    BY <1>2 DEF Unpacked, UnpackFails, Calls
  <2>3. QED
    BY <2>1, <2>2 DEF Slots, Files
<1>3. ASSUME NEW c \in Calls, NothingToUnpack(c) PROVE ProgressInv'
  BY <1>3 DEF NothingToUnpack, Calls, AfterFailure, Holds, Image
<1>4. ASSUME NEW c \in Calls, Refuse(c) PROVE ProgressInv'
  BY <1>4 DEF Refuse, Calls, AfterFailure
<1>5. ASSUME NEW c \in Calls, Flashed(c) PROVE ProgressInv'
  <2>1. pc = c /\ pc' = AfterSuccess(c) /\ legacy' = legacy /\ target' = target
    BY <1>5 DEF Flashed
  <2>2. \A p \in PartsOf(c) \cap Parts : Holds(p, FileOf(c))'
    BY <1>5 DEF Flashed, Holds, Image, TypeOK
  <2>3. \A p \in Parts \ PartsOf(c), f \in Files : Holds(p, f) => Holds(p, f)'
    BY <1>5 DEF Flashed, Holds, Image
  <2>4. CASE c \in {"ubootBoth", "ubootA", "ubootB"}
    <3>1. ~legacy
      BY <2>1, <2>4 DEF BranchInv
    <3>2. CASE c = "ubootB"
      <4>1. Holds("boot_a", "uboot")' /\ Holds("boot_b", "uboot")'
        BY <2>1, <2>2, <2>3, <3>2
           DEF FileOf, PartsOf, Parts, FixedParts, Slots, Files
      <4>2. QED
        BY <2>1, <3>1, <3>2, <4>1 DEF AfterSuccess
    <3>3. CASE c \in {"ubootBoth", "ubootA"}
      BY <2>1, <2>2, <2>4, <3>1, <3>3
         DEF AfterSuccess, FileOf, PartsOf, Parts, FixedParts, Slots
    <3>4. QED
      BY <2>4, <3>2, <3>3
  <2>5. CASE c \in {"siliciumBoth", "siliciumA"}
    BY <2>1, <2>2, <2>5 DEF AfterSuccess, FileOf, PartsOf, Parts, FixedParts, Slots
  <2>6. CASE c \in {"esp", "bootfs"}
    <3>1. legacy
      BY <2>1, <2>6 DEF BranchInv
    <3>2. Holds("boot_a", "silicium")' /\ (c = "bootfs" => Holds("rawdump", "esp")')
      BY <2>1, <2>3, <2>6 DEF PartsOf, Parts, FixedParts, Slots, Files
    <3>3. IF c = "esp" THEN Holds("rawdump", "esp")' ELSE Holds("cust", "bootfs")'
      BY <2>2, <2>6 DEF FileOf, PartsOf, Parts, FixedParts
    <3>4. QED
      BY <2>1, <2>6, <3>1, <3>2, <3>3 DEF AfterSuccess
  <2>7. CASE c = "rootfs"
    <3>1. /\ target \in Targets \cap Parts
          /\ target \notin Slots \cup {"rawdump", "cust", Nowhere}
      BY <1>5, <2>7 DEF Flashed, CanSucceed, PartsOf, TypeOK, Parts, FixedParts
    <3>2. Holds(target, "rootfs")'
      BY <2>1, <2>2, <2>7, <3>1 DEF FileOf, PartsOf
    <3>3. \A p \in Slots \cup {"rawdump", "cust"}, f \in Files : Holds(p, f) => Holds(p, f)'
      BY <2>3, <2>7, <3>1 DEF PartsOf, Parts, FixedParts
    <3>4. QED
      BY <2>1, <2>7, <3>1, <3>2, <3>3 DEF AfterSuccess, Slots, Files
  <2>8. QED
    BY <2>4, <2>5, <2>6, <2>7 DEF Calls
<1>6. ASSUME NEW c \in Calls, FlashFails(c) PROVE ProgressInv'
  BY <1>6 DEF FlashFails, Calls, AfterFailure, Holds, Image, PartlyFlashed, PartsOf, TypeOK, Parts, FixedParts, Slots
<1>7. CASE EraseDtbo
  BY <1>7 DEF EraseDtbo, Holds, Image, TypeOK, Parts, FixedParts, Slots, Dtbo
<1>8. CASE Interrupt
  BY <1>8 DEF Interrupt
<1>9. CASE UNCHANGED vars
  BY <1>9 DEF vars, Holds, Image
<1> QED
  BY <1>1, <1>2, <1>3, <1>4, <1>5, <1>6, <1>7, <1>8, <1>9 DEF Next

\* A call that no fastboot can carry out, or whose file the size check
\* refuses, is the set's fault.
LEMMA MisfitExplains ==
  ASSUME TypeOK, BranchInv, NEW c \in Calls, pc = c,
         ~CanSucceed(c) \/ PartsOf(c) \cap tooLarge[FileOf(c)] # {}
  PROVE  Unflashable
<1>1. PartsOf(c) = {} \/ \E p \in PartsOf(c) : p \in tooLarge[FileOf(c)]
  BY DEF CanSucceed, Fits
<1>2. CASE c \in {"ubootBoth", "ubootA", "ubootB"}
  BY <1>1, <1>2 DEF BranchInv, Unflashable, PartsOf, FileOf, Slots
<1>3. CASE c \in {"siliciumBoth", "siliciumA"}
  BY <1>1, <1>3 DEF BranchInv, Unflashable, PartsOf, FileOf, Slots
<1>4. CASE c \in {"esp", "bootfs"}
  BY <1>1, <1>4 DEF BranchInv, Unflashable, PartsOf, FileOf
<1>5. CASE c = "rootfs"
  BY <1>1, <1>5 DEF Unflashable, PartsOf, FileOf
<1> QED
  BY <1>2, <1>3, <1>4, <1>5 DEF Calls

\* RerunSucceeds: the calls that end the script are those of a file that is
\* missing or too large, of a partition without a name, or of a fastboot that
\* fails on its own account.
LEMMA RerunStep ==
  ASSUME TypeOK, BranchInv, RerunSucceeds, [Next]_vars
  PROVE  RerunSucceeds'
<1> USE DEF RerunSucceeds, Unflashable, Supplied
<1>1. ASSUME NEW o \in Overrides, NEW m \in BOOLEAN,
             NEW t \in TargetFiles, NEW l \in BOOLEAN, Start(o, m, t, l)
      PROVE  RerunSucceeds'
  BY <1>1 DEF Start
<1>2. ASSUME NEW c \in Calls, Unpacked(c) \/ UnpackFails(c) PROVE RerunSucceeds'
  BY <1>2 DEF Unpacked, UnpackFails, Calls
<1>3. ASSUME NEW c \in Calls, NothingToUnpack(c) PROVE RerunSucceeds'
  <2>1. pc = c /\ UNCHANGED <<raw, archive, legacy>> /\ c # "failed"
    BY <1>3 DEF NothingToUnpack, Calls
  <2>2. CASE Supplied(FileOf(c))
    BY <1>3, <2>1, <2>2 DEF NothingToUnpack, Unpacks
  <2>3. CASE ~Supplied(FileOf(c))
    BY <1>3, <2>1, <2>3 DEF NothingToUnpack, BranchInv, FileOf, AfterFailure, Calls
  <2>4. QED
    BY <2>2, <2>3
<1>4. ASSUME NEW c \in Calls, Refuse(c) PROVE RerunSucceeds'
  <2>1. Unflashable
    BY <1>4, MisfitExplains DEF Refuse
  <2>2. QED
    BY <1>4, <2>1 DEF Refuse
<1>5. ASSUME NEW c \in Calls, Flashed(c) PROVE RerunSucceeds'
  BY <1>5 DEF Flashed, AfterSuccess, Calls
<1>6. ASSUME NEW c \in Calls, FlashFails(c) PROVE RerunSucceeds'
  <2>1. ~CanSucceed(c) => Unflashable
    BY <1>6, MisfitExplains DEF FlashFails
  <2>2. QED
    BY <1>6, <2>1 DEF FlashFails
<1>7. CASE EraseDtbo
  BY <1>7 DEF EraseDtbo
<1>8. CASE Interrupt
  BY <1>8 DEF Interrupt
<1>9. CASE UNCHANGED vars
  BY <1>9 DEF vars
<1> QED
  BY <1>1, <1>2, <1>3, <1>4, <1>5, <1>6, <1>7, <1>8, <1>9 DEF Next

\* Every step keeps the invariant.
LEMMA StepIInv == IInv /\ [Next]_vars => IInv'
  BY TypeStep, BranchStep, ProgressStep, RerunStep DEF IInv

-----------------------------------------------------------------------------
(* The theorems.                                                           *)

\* The invariant holds in every reachable state.
THEOREM Invariance == Spec => []IInv
  BY InitIInv, StepIInv, PTL DEF Spec

\* TypeOK: every variable keeps its type, over any number of runs.
THEOREM TypeCorrect == Spec => []TypeOK
<1>1. IInv => TypeOK
  BY DEF IInv
<1> QED
  BY <1>1, Invariance, PTL

\* What the branch of the run has flashed when it comes to the root file
\* system.
LEMMA BootReady ==
  ASSUME ProgressInv, pc \in {"rootfs", "done"} \/ (pc = "erase" /\ ~legacy)
  PROVE  BootFlashed
BY DEF ProgressInv, BootFlashed, Holds, Slots

\* DoneMeansFlashed: the script says "Done" only when every partition of the
\* layout holds its file.
THEOREM DoneIsTrue == Spec => []DoneMeansFlashed
<1>1. IInv => DoneMeansFlashed
  BY BootReady DEF IInv, DoneMeansFlashed, ProgressInv, Holds
<1> QED
  BY <1>1, Invariance, PTL

\* A call of flash_part writes to a partition of a root file system only when
\* it is the last.
LEMMA RootIsLast ==
  ASSUME NEW c \in Calls, NEW p \in PartsOf(c), p \in Targets \cup {Dtbo}
  PROVE  c = "rootfs"
BY DEF PartsOf, Calls, Slots, FixedParts, Dtbo

\* BootFirst: until the boot images are on the device, the DTBO and the
\* partitions of root file systems are not touched.
THEOREM BootComesFirst == Spec => BootFirst
<1>1. ASSUME IInv, [Next]_vars, NEW p \in Targets \cup {Dtbo}, part'[p] # part[p]
      PROVE  BootFlashed
  <2>1. p \in Parts
    BY DEF Parts, FixedParts
  <2>2. ASSUME NEW c \in Calls, pc = c, p \in PartsOf(c) PROVE BootFlashed
    BY <1>1, <2>2, RootIsLast, BootReady DEF IInv
  <2>3. ASSUME NEW c \in Calls, Flashed(c) PROVE BootFlashed
    BY <1>1, <2>1, <2>2, <2>3 DEF Flashed
  <2>4. ASSUME NEW c \in Calls, pc = c, PartlyFlashed(c) PROVE BootFlashed
    BY <1>1, <2>1, <2>2, <2>4 DEF PartlyFlashed
  <2>5. ASSUME NEW c \in Calls, FlashFails(c) PROVE BootFlashed
    BY <2>4, <2>5 DEF FlashFails
  <2>6. CASE EraseDtbo
    BY <1>1, <2>6, BootReady DEF EraseDtbo, IInv, BranchInv
  <2>7. CASE Interrupt
    BY <1>1, <2>4, <2>7
       DEF Interrupt, InterruptUnpack, InterruptFlash, IInv, TypeOK
  <2>8. part' # part
    BY <1>1
  <2>9. QED
    BY <1>1, <2>3, <2>5, <2>6, <2>7, <2>8
       DEF Next, Start, Unpacked, UnpackFails, NothingToUnpack, Refuse, vars
<1>2. IInv /\ [Next]_vars
        => [(\E p \in Targets \cup {Dtbo} : part'[p] # part[p]) => BootFlashed]_vars
  BY <1>1
<1> QED
  BY <1>2, Invariance, PTL DEF Spec, BootFirst

\* RerunSucceeds: no left-over of an earlier run makes a run fail that meets no
\* fault of its own; only a missing or too large file or an empty
\* target-part.txt does.
THEOREM RerunsSucceed == Spec => []RerunSucceeds
<1>1. IInv => RerunSucceeds
  BY DEF IInv
<1> QED
  BY <1>1, Invariance, PTL
=============================================================================
