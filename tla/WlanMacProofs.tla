---------------------------- MODULE WlanMacProofs ----------------------------
(***************************************************************************)
(* The address properties of WlanMac, for any set of addresses: an         *)
(* inductive invariant, and what follows from it.                          *)
(***************************************************************************)
EXTENDS WlanMac, TLAPS

-----------------------------------------------------------------------------
(* The inductive invariant.                                                *)

\* A device under any name has an address; without a device there is none.
IfaceInv == iface # NoIface => iface.name # "none" /\ iface.mac \in Macs

\* What the script has established when it is at a step: the saved file is
\* as its branch took it to be, and the interface was seen.
PcInv ==
    /\ pc \in {"prepare", "modprobe", "failed"} => iface = NoIface
    /\ pc \in {"read", "create"} => file = Absent
    /\ pc = "write" => file = Short
    /\ pc \in {"compare", "set", "bounce", "cleanup"} => file \in Macs
    /\ pc \in {"read", "create", "write", "compare", "set", "bounce", "cleanup"}
        => seen # "none" /\ iface # NoIface

\* Once prepare has run the .link file has the saved address if there is one,
\* and it never has another.
LinkInv == LinkAgrees /\ (file \in Macs /\ pc \notin {"prepare", "failed"} => link = file)

\* The address on the interface, where the script knows it.
MacInv ==
    /\ UdevApplies
    /\ SmoothBootApplies
    /\ pc \in {"create", "write"} /\ got \in Macs => iface.mac = got
    /\ pc \in {"bounce", "cleanup"} => iface.mac = file

\* Without faults: ConnMan knows the saved address only, and runs only once
\* there is one; the file is short only while it is being written.
CleanInv ==
    clean =>
        /\ smooth /\ pc # "failed"
        /\ favorites \subseteq {file} /\ memory \subseteq {file}
        /\ file = Short => pc = "write"
        /\ pc \in {"create", "write"} => got \in Macs
        /\ connman \/ pc = "done" => file \in Macs

IInv == TypeOK /\ IfaceInv /\ PcInv /\ LinkInv /\ MacInv /\ CleanInv

-----------------------------------------------------------------------------
(* It holds initially and is preserved, conjunct by conjunct.              *)

USE DEF GoTo, Fault, devVars, scriptVars, connVars, faultVars

\* No boot has started: everything is empty.
LEMMA InitIInv == Init => IInv
<1> SUFFICES ASSUME Init PROVE IInv
  OBVIOUS
<1>1. TypeOK
  BY DEF Init, TypeOK, Contents, NoIface, Names, Steps
<1>2. IfaceInv /\ PcInv
  BY DEF Init, IfaceInv, PcInv
<1>3. LinkInv
  BY DEF Init, LinkInv, LinkAgrees
<1>4. MacInv
  BY MacsAssumption DEF Init, MacInv, UdevApplies, SmoothBootApplies, Saved
<1>5. CleanInv
  BY MacsAssumption DEF Init, CleanInv
<1> QED
  BY <1>1, <1>2, <1>3, <1>4, <1>5 DEF IInv

\* TypeOK: every action keeps the types: the addresses the script and udev set are
\* addresses, since an interface under a name has one.
LEMMA TypeStep ==
  ASSUME TypeOK, IfaceInv, PcInv, [Next]_vars
  PROVE  TypeOK'
<1>1. CASE Prepare
  BY <1>1 DEF Prepare, Saved, TypeOK, Steps
<1>2. CASE Modprobe
  BY <1>2 DEF Modprobe, TypeOK, Steps
<1>3. CASE GiveUp
  BY <1>3 DEF GiveUp, TypeOK, Steps
<1>4. CASE TimeOut
  BY <1>4 DEF TimeOut, TypeOK, Steps
<1>5. CASE Look
  BY <1>5 DEF Look, TypeOK, Steps
<1>6. CASE ReadFirst
  BY <1>6 DEF ReadFirst, AddressOf, TypeOK, Steps, IfaceInv, PcInv
<1>7. CASE CreateFile
  BY <1>7 DEF CreateFile, TypeOK, Contents, Steps
<1>8. CASE WriteFile
  BY <1>8 DEF WriteFile, TypeOK, Contents, Steps
<1>9. CASE Compare
  BY <1>9 DEF Compare, TypeOK, Steps
<1>10. CASE SetAddress
  BY <1>10 DEF SetAddress, TypeOK, Steps, PcInv
<1>11. CASE SetFails
  BY <1>11 DEF SetFails, TypeOK, Steps
<1>12. CASE Bounce
  BY <1>12 DEF Bounce, TypeOK, Steps
<1>13. CASE Cleanup
  BY <1>13 DEF Cleanup, TypeOK, Steps
<1>14. CASE Probe
  BY <1>14 DEF Probe, TypeOK, Names
<1>15. CASE UdevSettles
  BY <1>15 DEF UdevSettles, TypeOK, Names
<1>16. CASE ConnmanStarts
  BY <1>16 DEF ConnmanStarts, TypeOK
<1>17. CASE UserJoins
  BY <1>17 DEF UserJoins, Settled, TypeOK, NoIface, IfaceInv
<1>18. CASE WriteBack
  BY <1>18 DEF WriteBack, TypeOK
<1>19. CASE RestartUnit
  BY <1>19 DEF RestartUnit, NoIface, TypeOK, Names, Steps
<1>20. CASE Reboot
  BY <1>20 DEF Reboot, Boot, NoIface, TypeOK, Contents, Names, Steps
<1>21. CASE PowerLoss
  BY <1>21 DEF PowerLoss, Boot, NoIface, TypeOK, Contents, Names, Steps
<1>22. CASE UNCHANGED vars
  BY <1>22 DEF vars, TypeOK
<1>23. CASE ModprobeFails
  BY <1>23 DEF ModprobeFails, TypeOK, Steps
<1> QED
  BY <1>1, <1>2, <1>3, <1>4, <1>5, <1>6, <1>7, <1>8, <1>9, <1>10, <1>11,
     <1>12, <1>13, <1>14, <1>15, <1>16, <1>17, <1>18, <1>19, <1>20, <1>21, <1>22,
     <1>23
  DEF Next, Unit, Environment

\* IfaceInv: a device gets its address with its name and loses both together.
LEMMA IfaceStep ==
  ASSUME TypeOK, IfaceInv, PcInv, [Next]_vars
  PROVE  IfaceInv'
<1>1. CASE SetAddress
  BY <1>1 DEF SetAddress, IfaceInv, PcInv
<1>2. CASE Probe
  BY <1>2 DEF Probe, IfaceInv
<1>3. CASE UdevSettles
  BY <1>3 DEF UdevSettles, IfaceInv, NoIface, TypeOK
<1>4. CASE RestartUnit
  BY <1>4 DEF RestartUnit, IfaceInv
<1>5. CASE Reboot
  BY <1>5 DEF Reboot, Boot, IfaceInv
<1>6. CASE PowerLoss
  BY <1>6 DEF PowerLoss, Boot, IfaceInv
<1>7. CASE UNCHANGED iface
  BY <1>7 DEF IfaceInv
<1> QED
  BY <1>1, <1>2, <1>3, <1>4, <1>5, <1>6, <1>7
  DEF Next, Unit, Environment, vars, Prepare, Modprobe, ModprobeFails, GiveUp, TimeOut, Look,
     ReadFirst, CreateFile, WriteFile, Compare, SetFails, Bounce, Cleanup,
     ConnmanStarts, UserJoins, WriteBack

\* PcInv: the file and the interface stay as the script found them until it is done.
LEMMA PcStep ==
  ASSUME TypeOK, PcInv, [Next]_vars
  PROVE  PcInv'
<1>1. CASE Prepare
  BY <1>1 DEF Prepare, PcInv
<1>2. CASE Modprobe
  BY <1>2 DEF Modprobe, PcInv
<1>3. CASE GiveUp
  BY <1>3 DEF GiveUp, PcInv
<1>4. CASE TimeOut
  BY <1>4 DEF TimeOut, PcInv
<1>5. CASE Look
  BY <1>5 DEF Look, PcInv, NoIface, TypeOK, Contents
<1>6. CASE ReadFirst
  BY <1>6 DEF ReadFirst, PcInv
<1>7. CASE CreateFile
  BY <1>7 DEF CreateFile, PcInv
<1>8. CASE WriteFile
  BY <1>8 DEF WriteFile, PcInv
<1>9. CASE Compare
  BY <1>9 DEF Compare, PcInv
<1>10. CASE SetAddress
  BY <1>10 DEF SetAddress, PcInv, NoIface
<1>11. CASE SetFails
  BY <1>11 DEF SetFails, PcInv
<1>12. CASE Bounce
  BY <1>12 DEF Bounce, PcInv
<1>13. CASE Cleanup
  BY <1>13 DEF Cleanup, PcInv
<1>14. CASE Probe
  BY <1>14 DEF Probe, PcInv
<1>15. CASE UdevSettles
  BY <1>15 DEF UdevSettles, PcInv, NoIface
<1>16. CASE RestartUnit
  BY <1>16 DEF RestartUnit, PcInv
<1>17. CASE Reboot
  BY <1>17 DEF Reboot, Boot, PcInv
<1>18. CASE PowerLoss
  BY <1>18 DEF PowerLoss, Boot, PcInv
<1>19. CASE UNCHANGED <<pc, iface, file, seen>>
  BY <1>19 DEF PcInv
<1>20. CASE ModprobeFails
  BY <1>20 DEF ModprobeFails, PcInv
<1> QED
  BY <1>1, <1>2, <1>3, <1>4, <1>5, <1>6, <1>7, <1>8, <1>9, <1>10, <1>11,
     <1>12, <1>13, <1>14, <1>15, <1>16, <1>17, <1>18, <1>19, <1>20
  DEF Next, Unit, Environment, vars, ConnmanStarts, UserJoins, WriteBack

\* LinkInv: the .link file follows the saved address.
LEMMA LinkStep ==
  ASSUME TypeOK, PcInv, LinkInv, [Next]_vars
  PROVE  LinkInv'
<1>1. CASE Prepare
  BY <1>1 DEF Prepare, Saved, LinkInv, LinkAgrees
<1>2. CASE CreateFile
  BY <1>2, MacsAssumption DEF CreateFile, LinkInv, LinkAgrees, TypeOK, PcInv
<1>3. CASE WriteFile
  BY <1>3 DEF WriteFile, LinkInv, LinkAgrees
<1>4. CASE RestartUnit
  BY <1>4 DEF RestartUnit, LinkInv, LinkAgrees
<1>5. CASE Reboot
  BY <1>5 DEF Reboot, Boot, LinkInv, LinkAgrees
<1>6. CASE PowerLoss
  BY <1>6 DEF PowerLoss, Boot, LinkInv, LinkAgrees
<1>7. CASE UNCHANGED <<link, file>> /\ (pc \in {"prepare", "failed"} => UNCHANGED pc)
  BY <1>7 DEF LinkInv, LinkAgrees
<1>8. CASE ModprobeFails
  BY <1>8 DEF ModprobeFails, LinkInv, LinkAgrees
<1> QED
  BY <1>1, <1>2, <1>3, <1>4, <1>5, <1>6, <1>7, <1>8
  DEF Next, Unit, Environment, vars, Modprobe, GiveUp, TimeOut, Look,
     ReadFirst, Compare, SetAddress, SetFails, Bounce, Cleanup, Probe,
     UdevSettles, ConnmanStarts, UserJoins, WriteBack

\* MacInv: the address on the interface, against the script's and udev's changes.
LEMMA MacStep ==
  ASSUME TypeOK, PcInv, LinkInv, MacInv, [Next]_vars
  PROVE  MacInv'
<1>1. CASE Prepare
  BY <1>1 DEF Prepare, Saved, MacInv, UdevApplies, SmoothBootApplies, Settled
<1>2. CASE Modprobe
  BY <1>2 DEF Modprobe, MacInv, UdevApplies, SmoothBootApplies, Saved, Settled
<1>3. CASE GiveUp
  BY <1>3, MacsAssumption DEF GiveUp, MacInv, UdevApplies, SmoothBootApplies,
     Saved
<1>4. CASE TimeOut
  BY <1>4 DEF TimeOut, MacInv, UdevApplies, SmoothBootApplies, Settled
<1>5. CASE Look
  BY <1>5 DEF Look, MacInv, UdevApplies, SmoothBootApplies, Saved, Settled
<1>6. CASE ReadFirst
  BY <1>6, MacsAssumption DEF ReadFirst, AddressOf, MacInv, UdevApplies,
     SmoothBootApplies, Saved, Settled
<1>7. CASE CreateFile
  BY <1>7, MacsAssumption DEF CreateFile, MacInv, UdevApplies,
     SmoothBootApplies, Saved
<1>8. CASE WriteFile
  BY <1>8 DEF WriteFile, MacInv, UdevApplies, SmoothBootApplies, Saved
<1>9. CASE Compare
  BY <1>9, MacsAssumption DEF Compare, AddressOf, MacInv, UdevApplies,
     SmoothBootApplies, Saved, Settled, PcInv
<1>10. CASE SetAddress
  BY <1>10 DEF SetAddress, MacInv, UdevApplies, SmoothBootApplies
<1>11. CASE SetFails
  BY <1>11 DEF SetFails, MacInv, UdevApplies, SmoothBootApplies, Saved,
     Settled
<1>12. CASE Bounce
  BY <1>12 DEF Bounce, MacInv, UdevApplies, SmoothBootApplies
<1>13. CASE Cleanup
  BY <1>13 DEF Cleanup, MacInv, UdevApplies, SmoothBootApplies
<1>14. CASE Probe
  BY <1>14, MacsAssumption DEF Probe, NoIface, MacInv, UdevApplies,
     SmoothBootApplies, Saved, Settled, PcInv
<1>15. CASE UdevSettles
  BY <1>15, MacsAssumption DEF UdevSettles, MacInv, UdevApplies,
     SmoothBootApplies, Saved, NoIface, TypeOK, PcInv, LinkInv, LinkAgrees
<1>16. CASE RestartUnit
  BY <1>16 DEF RestartUnit, NoIface, MacInv, UdevApplies, SmoothBootApplies,
     Settled
<1>17. CASE Reboot
  BY <1>17 DEF Reboot, Boot, NoIface, MacInv, UdevApplies, SmoothBootApplies,
     Settled
<1>18. CASE PowerLoss
  BY <1>18 DEF PowerLoss, Boot, NoIface, MacInv, UdevApplies,
     SmoothBootApplies, Settled
<1>19. CASE UNCHANGED <<pc, smooth, file, iface, got>>
  BY <1>19 DEF MacInv, UdevApplies, SmoothBootApplies, Saved, Settled
<1>20. CASE ModprobeFails
  BY <1>20 DEF ModprobeFails, MacInv, UdevApplies, SmoothBootApplies, Saved,
     Settled
<1> QED
  BY <1>1, <1>2, <1>3, <1>4, <1>5, <1>6, <1>7, <1>8, <1>9, <1>10, <1>11,
     <1>12, <1>13, <1>14, <1>15, <1>16, <1>17, <1>18, <1>19, <1>20
  DEF Next, Unit, Environment, vars, ConnmanStarts, UserJoins, WriteBack

\* CleanInv: without faults ConnMan never meets an address but the saved one.
LEMMA CleanStep ==
  ASSUME TypeOK, IfaceInv, PcInv, MacInv, CleanInv, [Next]_vars
  PROVE  CleanInv'
<1>1. CASE Prepare
  BY <1>1 DEF Prepare, CleanInv
<1>2. CASE Modprobe
  BY <1>2 DEF Modprobe, CleanInv
<1>3. CASE GiveUp
  BY <1>3 DEF GiveUp, CleanInv
<1>4. CASE TimeOut
  BY <1>4 DEF TimeOut, CleanInv
<1>5. CASE Look
  BY <1>5 DEF Look, CleanInv
<1>6. CASE ReadFirst
  BY <1>6 DEF ReadFirst, AddressOf, CleanInv, IfaceInv, PcInv, NoIface
<1>7. CASE CreateFile
  BY <1>7, MacsAssumption DEF CreateFile, CleanInv, TypeOK, PcInv
<1>8. CASE WriteFile
  BY <1>8, MacsAssumption DEF WriteFile, CleanInv, TypeOK, PcInv
<1>9. CASE Compare
  BY <1>9 DEF Compare, CleanInv
<1>10. CASE SetAddress
  BY <1>10 DEF SetAddress, CleanInv
<1>11. CASE SetFails
  BY <1>11 DEF SetFails, CleanInv
<1>12. CASE Bounce
  BY <1>12 DEF Bounce, CleanInv
<1>13. CASE Cleanup
  BY <1>13 DEF Cleanup, CleanInv, PcInv
<1>14. CASE ConnmanStarts
  BY <1>14 DEF ConnmanStarts, Ended, CleanInv
<1>15. CASE UserJoins
  BY <1>15 DEF UserJoins, CleanInv, MacInv, UdevApplies, Saved
<1>16. CASE RestartUnit
  BY <1>16 DEF RestartUnit, Ended, CleanInv
<1>17. CASE Reboot
  BY <1>17 DEF Reboot, Ended, Boot, CleanInv
<1>18. CASE PowerLoss
  BY <1>18 DEF PowerLoss, Boot, CleanInv
<1>19. CASE UNCHANGED <<clean, smooth, favorites, memory, file, pc, got, connman>>
  BY <1>19 DEF CleanInv
<1>20. CASE ModprobeFails
  BY <1>20 DEF ModprobeFails, CleanInv
<1> QED
  BY <1>1, <1>2, <1>3, <1>4, <1>5, <1>6, <1>7, <1>8, <1>9, <1>10, <1>11,
     <1>12, <1>13, <1>14, <1>15, <1>16, <1>17, <1>18, <1>19, <1>20
  DEF Next, Unit, Environment, vars, Probe, UdevSettles, WriteBack

\* Every step preserves the invariant.
LEMMA NextIInv == IInv /\ [Next]_vars => IInv'
  BY TypeStep, IfaceStep, PcStep, LinkStep, MacStep, CleanStep DEF IInv

\* The invariant holds in every reachable state.
THEOREM Invariance == Spec => []IInv
  BY InitIInv, NextIInv, PTL DEF Spec

-----------------------------------------------------------------------------
(* The properties.                                                         *)

\* Every variable always has its type.
THEOREM TypeCorrect == Spec => []TypeOK
<1>1. IInv => TypeOK
  BY DEF IInv
<1> QED
  BY <1>1, Invariance, PTL

\* udev and the script never disagree: what /run holds is the saved address.
THEOREM LinksAgree == Spec => []LinkAgrees
<1>1. IInv => LinkAgrees
  BY DEF IInv, LinkInv
<1> QED
  BY <1>1, Invariance, PTL

\* Once udev has handled the interface, it has the saved address.
THEOREM UdevCorrect == Spec => []UdevApplies
<1>1. IInv => UdevApplies
  BY DEF IInv, MacInv
<1> QED
  BY <1>1, Invariance, PTL

\* A boot without a fault applies the saved address before ConnMan starts.
THEOREM SmoothBoots == Spec => []SmoothBootApplies
<1>1. IInv => SmoothBootApplies
  BY DEF IInv, MacInv
<1> QED
  BY <1>1, Invariance, PTL

\* Without faults all of ConnMan's favorites belong to the saved address.
THEOREM PasswordsKept == Spec => []FavoritesUsable
<1>1. IInv => FavoritesUsable
  BY DEF IInv, CleanInv, FavoritesUsable
<1> QED
  BY <1>1, Invariance, PTL

\* No boot and no restart replaces a saved address; only a power loss before it
\* reached the disk takes it back.
THEOREM SavedForGood == Spec => SavedIsFinal
<1> DEFINE Final == Saved /\ file' # file => file' \in disk /\ disk # {file}
<1>1. ASSUME IInv, [Next]_vars PROVE Final
  <2> SUFFICES ASSUME Saved, file' # file PROVE file' \in disk /\ disk # {file}
    OBVIOUS
  <2>1. ~CreateFile /\ ~WriteFile
    BY <1>1, MacsAssumption DEF IInv, PcInv, Saved, CreateFile, WriteFile
  <2>2. PowerLoss
    BY <1>1, <2>1 DEF Next, Unit, Environment, vars, Prepare, Modprobe, ModprobeFails, GiveUp,
       TimeOut, Look, ReadFirst, Compare, SetAddress, SetFails, Bounce, Cleanup,
       Probe, UdevSettles, ConnmanStarts, UserJoins, WriteBack, RestartUnit, Reboot
  <2> QED
    BY <2>2 DEF PowerLoss
<1> HIDE DEF Final
<1>2. Spec => [][Final]_vars
  <2>1. IInv /\ [Next]_vars => [Final]_vars
    BY <1>1
  <2> QED
    BY <2>1, Invariance, PTL DEF Spec
<1> QED
  BY <1>2 DEF SavedIsFinal, Final

\* Without faults no favorite is ever lost: the clean-up finds no other address.
THEOREM NoPasswordLost == Spec => FavoritesKept
<1> DEFINE Kept == clean' => favorites \subseteq favorites'
<1>1. ASSUME IInv, [Next]_vars PROVE Kept
  <2>1. CASE Cleanup
    <3>1. clean' => favorites \subseteq {file}
      BY <1>1, <2>1 DEF Cleanup, IInv, CleanInv
    <3> QED
      BY <2>1, <3>1 DEF Cleanup
  <2>2. CASE favorites \subseteq favorites'
    BY <2>2
  <2> QED
    BY <1>1, <2>1, <2>2 DEF Next, Unit, Environment, vars, Prepare, Modprobe,
       ModprobeFails, GiveUp, TimeOut, Look, ReadFirst, CreateFile, WriteFile, Compare, SetAddress,
       SetFails, Bounce, Probe, UdevSettles, ConnmanStarts, UserJoins, WriteBack,
       RestartUnit, Reboot, PowerLoss, Boot
<1> HIDE DEF Kept
<1>2. Spec => [][Kept]_vars
  <2>1. IInv /\ [Next]_vars => [Kept]_vars
    BY <1>1
  <2> QED
    BY <2>1, Invariance, PTL DEF Spec
<1> QED
  BY <1>2 DEF FavoritesKept, Kept
=============================================================================
