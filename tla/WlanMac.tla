------------------------------ MODULE WlanMac ------------------------------
(***************************************************************************)
(* The WLAN address of the device across boots, restarts of                *)
(* wlan-module-load.service and power losses.                              *)
(*                                                                         *)
(* ath11k invents an address whenever its module is loaded, and ConnMan    *)
(* files a network's password under the address of the interface, so       *)
(* persist-wlan-macaddr.sh saves the first address and re-applies it: in   *)
(* "prepare", before modprobe, as a .link file for udev, and after the     *)
(* modprobe with ip link.  The unit runs before ConnMan.                   *)
(*                                                                         *)
(* The script never syncs what it saves.  disk is the set of contents of   *)
(* the saved file that a power loss at this moment may leave behind.       *)
(***************************************************************************)
EXTENDS FiniteSets

CONSTANTS
    Macs,        \* the addresses the driver may invent
    Absent,      \* there is no /persist/wifi/.macaddr
    Short,       \* the file holds fewer than 17 characters (mostly none)
    NoMac        \* no address: no interface, or no .link file in /run

ASSUME MacsAssumption ==
    /\ Macs # {}
    /\ Absent \notin Macs /\ Short \notin Macs /\ NoMac \notin Macs
    /\ Absent # Short /\ Absent # NoMac /\ Short # NoMac

VARIABLES
    file,        \* PERSIST_FILE as the running system sees it
    disk,        \* what a power loss may leave of it
    link,        \* the address in LINK_FILE, which lives in /run
    iface,       \* the network device: its name and its address
    pc,          \* where the unit is
    seen,        \* $iface of the script: the name wait_iface found
    got,         \* $wifi_mac of the script: Short stands for the empty string
    connman,     \* ConnMan runs
    favorites,   \* the addresses ConnMan holds profiles for, on disk
    memory,      \* and those it holds in memory
    smooth,      \* this run of the unit met no fault
    clean        \* nor did any run before it, and no power loss hit the save

devVars == <<link, iface>>
scriptVars == <<pc, seen, got>>
connVars == <<connman, favorites, memory>>
faultVars == <<smooth, clean>>
vars == <<file, disk, devVars, scriptVars, connVars, faultVars>>

-----------------------------------------------------------------------------
Contents == Macs \cup {Absent, Short}
Names == {"none", "wlan0", "wlp"}
NoIface == [name |-> "none", mac |-> NoMac]
Steps == {"prepare", "modprobe", "look", "read", "create", "write",
          "compare", "set", "bounce", "cleanup", "done", "failed"}

Saved == file \in Macs
\* The device is there and udev is done with it.
Settled == iface.name = "wlp"

\* The unit is up, or it has failed.
Ended == pc \in {"done", "failed"}

\* The address behind /sys/class/net/$iface/address: when udev renames the
\* device meanwhile the file is gone, and cat prints nothing.
AddressOf(name) == IF iface.name = name THEN iface.mac ELSE Short

GoTo(step) == pc' = step
Fault == smooth' = FALSE /\ clean' = FALSE

Init ==
    /\ file = Absent /\ disk = {Absent}
    /\ link = NoMac
    /\ iface = NoIface
    /\ pc = "prepare" /\ seen = "none" /\ got = Short
    /\ connman = FALSE /\ favorites = {} /\ memory = {}
    /\ smooth = TRUE /\ clean = TRUE

-----------------------------------------------------------------------------
(* The unit and its script.                                                *)

\* Mutant: prepare accepts whatever the file holds.
PrepareAny ==
    /\ pc = "prepare"
    /\ link' = file
    /\ GoTo("modprobe")
    /\ UNCHANGED <<file, disk, iface, seen, got, connVars, faultVars>>

\* Mutant: prepare leaves it to the script to apply the saved address.
PrepareNever ==
    /\ pc = "prepare"
    /\ GoTo("modprobe")
    /\ UNCHANGED <<file, disk, devVars, seen, got, connVars, faultVars>>

\* prepare writes the saved address to LINK_FILE, if there is a valid one.
Prepare ==
    /\ pc = "prepare"
    /\ link' = IF Saved THEN file ELSE link
    /\ GoTo("modprobe")
    /\ UNCHANGED <<file, disk, iface, seen, got, connVars, faultVars>>

\* modprobe ath11k_pci, then sleep 2: the driver probes meanwhile, or later.
Modprobe ==
    /\ pc = "modprobe"
    /\ GoTo("look")
    /\ UNCHANGED <<file, disk, devVars, seen, got, connVars, faultVars>>

\* A modprobe fails, before prepare or after it, and with it the unit: none of
\* its commands after that runs, and there is no driver.
ModprobeFails ==
    /\ pc \in {"prepare", "modprobe"}
    /\ GoTo("failed")
    /\ Fault
    /\ UNCHANGED <<file, disk, devVars, seen, got, connVars>>

\* Without an argument the script looks for a saved address first.  One that
\* is too short makes it give up.
GiveUp ==
    /\ pc = "look"
    /\ file = Short
    /\ GoTo("done")
    /\ UNCHANGED <<file, disk, devVars, seen, got, connVars, faultVars>>

\* Mutant: wait_iface waits for as long as it takes.
TimeOutNever ==
    /\ pc = "look"
    /\ file # Short
    /\ iface.name = "none"
    /\ UNCHANGED vars

\* wait_iface ends with no interface (after 25 s, or 15 s on the first boot).
TimeOut ==
    /\ pc = "look"
    /\ file # Short
    /\ iface.name = "none"
    /\ GoTo("done")
    /\ Fault
    /\ UNCHANGED <<file, disk, devVars, seen, got, connVars>>

\* wait_iface finds the interface, under the name it has at the moment.
Look ==
    /\ pc = "look"
    /\ file # Short
    /\ iface.name # "none"
    /\ seen' = iface.name
    /\ GoTo(IF file = Absent THEN "read" ELSE "compare")
    /\ UNCHANGED <<file, disk, devVars, got, connVars, faultVars>>

\* First boot: read the address of the interface, if it still has that name ...
ReadFirst ==
    /\ pc = "read"
    /\ got' = AddressOf(seen)
    /\ GoTo("create")
    /\ IF iface.name = seen THEN UNCHANGED faultVars ELSE Fault
    /\ UNCHANGED <<file, disk, devVars, seen, connVars>>

\* ... truncate the file ...
CreateFile ==
    /\ pc = "create"
    /\ file' = Short
    /\ disk' = disk \cup {Short}
    /\ GoTo("write")
    /\ UNCHANGED <<devVars, seen, got, connVars, faultVars>>

\* Mutant: the interface is read a second time for the .link file.
WriteFileTwice ==
    /\ pc = "write"
    /\ file' = got
    /\ disk' = disk \cup {got}
    /\ \E m \in Macs : link' = m
    /\ GoTo("done")
    /\ UNCHANGED <<iface, seen, got, connVars, faultVars>>

\* ... write it, and the .link file for the next load of the module.
WriteFile ==
    /\ pc = "write"
    /\ file' = got
    /\ disk' = disk \cup {got}
    /\ link' = IF got \in Macs THEN got ELSE NoMac
    /\ GoTo("done")
    /\ UNCHANGED <<iface, seen, got, connVars, faultVars>>

\* Mutant: any difference is taken for an address to be saved again.
CompareSaves ==
    /\ pc = "compare"
    /\ GoTo(IF AddressOf(seen) = file THEN "cleanup" ELSE "read")
    /\ UNCHANGED <<file, disk, devVars, seen, got, connVars, faultVars>>

\* Mutant: the interface is taken to have the saved address already.
CompareNothing ==
    /\ pc = "compare"
    /\ GoTo("cleanup")
    /\ UNCHANGED <<file, disk, devVars, seen, got, connVars, faultVars>>

\* Later boots: does the interface have the saved address?
Compare ==
    /\ pc = "compare"
    /\ GoTo(IF AddressOf(seen) = file THEN "cleanup" ELSE "set")
    /\ UNCHANGED <<file, disk, devVars, seen, got, connVars, faultVars>>

\* ip link set address.
SetAddress ==
    /\ pc = "set"
    /\ iface.name = seen
    /\ iface' = [iface EXCEPT !.mac = file]
    /\ GoTo("bounce")
    /\ UNCHANGED <<file, disk, link, seen, got, connVars, faultVars>>

\* ip link set address fails: the script puts the interface up and ends.
SetFails ==
    /\ pc = "set"
    /\ GoTo("done")
    /\ Fault
    /\ UNCHANGED <<file, disk, devVars, seen, got, connVars>>

\* refresh_connman_wifi: a running ConnMan may write its profiles again.
Bounce ==
    /\ pc = "bounce"
    /\ favorites' = IF connman THEN favorites \cup memory ELSE favorites
    /\ GoTo("cleanup")
    /\ UNCHANGED <<file, disk, devVars, seen, got, connman, memory, faultVars>>

\* Mutant: the profiles of the saved address are the ones removed.
CleanupInverted ==
    /\ pc = "cleanup"
    /\ favorites' = favorites \ {file}
    /\ GoTo("done")
    /\ UNCHANGED <<file, disk, devVars, seen, got, connman, memory, faultVars>>

\* cleanup_stale_profiles removes the profiles of every other address.
Cleanup ==
    /\ pc = "cleanup"
    /\ favorites' = favorites \cap {file}
    /\ GoTo("done")
    /\ UNCHANGED <<file, disk, devVars, seen, got, connman, memory, faultVars>>

\* systemctl restart: ExecStop removes the module, and with it the interface.
RestartUnit ==
    /\ Ended
    /\ iface' = NoIface
    /\ GoTo("prepare")
    /\ smooth' = TRUE
    /\ UNCHANGED <<file, disk, link, seen, got, connVars, clean>>

-----------------------------------------------------------------------------
(* The driver, udev, ConnMan, the user, the power.                         *)

\* The driver creates the device, with an address it invents.
Probe ==
    /\ pc \notin {"prepare", "modprobe", "failed"}
    /\ iface = NoIface
    /\ \E m \in Macs : iface' = [name |-> "wlan0", mac |-> m]
    /\ UNCHANGED <<file, disk, link, scriptVars, connVars, faultVars>>

\* udev handles the new device: the .link file of /run sorts first and sets
\* its address; the one of /etc keeps the driver's.  Both rename it.
UdevSettles ==
    /\ iface.name = "wlan0"
    /\ iface' = [name |-> "wlp", mac |-> IF link = NoMac THEN iface.mac ELSE link]
    /\ UNCHANGED <<file, disk, link, scriptVars, connVars, faultVars>>

\* connman.service is ordered after the unit, and does not require it.
ConnmanStarts ==
    /\ Ended
    /\ ~connman
    /\ connman' = TRUE
    /\ memory' = favorites
    /\ UNCHANGED <<file, disk, devVars, scriptVars, favorites, faultVars>>

\* The user types a password: ConnMan files it under the address of today.
UserJoins ==
    /\ connman
    /\ Settled
    /\ favorites' = favorites \cup {iface.mac}
    /\ memory' = memory \cup {iface.mac}
    /\ UNCHANGED <<file, disk, devVars, scriptVars, connman, faultVars>>

\* The kernel writes the file back.
WriteBack ==
    /\ disk # {file}
    /\ disk' = {file}
    /\ UNCHANGED <<file, devVars, scriptVars, connVars, faultVars>>

\* A new boot starts with an empty /run, no module and no ConnMan.
Boot ==
    /\ link' = NoMac /\ iface' = NoIface
    /\ pc' = "prepare" /\ seen' = "none" /\ got' = Short
    /\ connman' = FALSE /\ memory' = {} /\ favorites' = favorites
    /\ smooth' = TRUE

\* An orderly reboot writes everything back.
Reboot ==
    /\ Ended
    /\ disk' = {file}
    /\ Boot
    /\ UNCHANGED <<file, clean>>

PowerLoss ==
    /\ \E left \in disk : file' = left /\ disk' = {left}
    /\ clean' = (clean /\ disk = {file} /\ pc # "write")
    /\ Boot

Unit ==
    \/ Prepare \/ Modprobe \/ ModprobeFails \/ GiveUp \/ TimeOut \/ Look
    \/ ReadFirst \/ CreateFile \/ WriteFile
    \/ Compare \/ SetAddress \/ SetFails \/ Bounce \/ Cleanup

Environment ==
    \/ Probe \/ UdevSettles
    \/ ConnmanStarts \/ UserJoins
    \/ WriteBack \/ RestartUnit \/ Reboot \/ PowerLoss

Next == Unit \/ Environment

Spec == Init /\ [][Next]_vars

\* The unit's commands go on, udev handles a new device, and systemd starts
\* ConnMan once the unit has ended, also when restarts get in the way.  The
\* driver need not ever find the device.
FairSpec ==
    Spec /\ WF_vars(Unit) /\ WF_vars(UdevSettles) /\ SF_vars(ConnmanStarts)

-----------------------------------------------------------------------------
(* Properties.                                                             *)

\* Every variable holds a value of its type.
TypeOK ==
    /\ file \in Contents
    /\ disk \subseteq Contents /\ disk # {}
    /\ link \in Macs \cup {NoMac}
    /\ iface \in [name : Names, mac : Macs \cup {NoMac}]
    /\ pc \in Steps
    /\ seen \in Names
    /\ got \in Macs \cup {Short}
    /\ connman \in BOOLEAN
    /\ favorites \subseteq Macs /\ memory \subseteq Macs
    /\ smooth \in BOOLEAN /\ clean \in BOOLEAN

\* No password is to be entered twice: as long as no boot met a fault, every
\* favorite of ConnMan belongs to the saved address.
FavoritesUsable == clean => favorites \subseteq {file}

\* Once udev has handled the interface it has the saved address, whatever the
\* script did or failed to do in this boot, and however long the driver took.
UdevApplies == Saved /\ Settled => iface.mac = file

\* Whatever went wrong in earlier boots, a boot without a fault applies a
\* saved address before ConnMan can index the interface, whether udev has
\* settled by then or not.
SmoothBootApplies ==
    pc = "done" /\ smooth /\ Saved => iface.mac = file

\* udev and the script never disagree on the address: what /run holds is the
\* saved one, through restarts of the unit and power losses too.
LinkAgrees == link # NoMac => link = file

\* A saved address is final: no later boot or restart saves another over it,
\* and only a power loss before it reached the disk can take it back.
SavedIsFinal ==
    [][Saved /\ file' # file => file' \in disk /\ disk # {file}]_vars

\* Nor does cleaning up: without faults a password typed once is kept for good,
\* since no profile of another address ever comes into being.
FavoritesKept == [][clean' => favorites \subseteq favorites']_vars

\* Neither a device that never shows up nor a saved file the script rejects
\* holds up a boot: unless it is ended again and again, ConnMan comes to run.
BootGoesOn == []<><<Reboot \/ PowerLoss>>_vars \/ <>[]connman

\* A boot that goes on mends itself: the saved address comes to stay on the
\* interface there is, also after the script timed out or ip link failed.
AddressRecovers ==
    \/ []<><<RestartUnit \/ Reboot \/ PowerLoss>>_vars
    \/ <>[](Saved /\ iface # NoIface => iface.mac = file)

\* The script's header: "Persist and re-apply a stable STA MAC".  A boot that
\* met no fault ends with an address saved, so that the next one finds it.
BootSavesMac == pc = "done" /\ smooth /\ Settled => Saved
============================================================================
