--------------------------- MODULE FastbootFlash ---------------------------
(***************************************************************************)
(* flash/flash.sh: a flash set is written to the tablet with fastboot, the *)
(* boot image first (U-Boot, or the legacy UEFI image with its two helper  *)
(* partitions), the root file system last.                                 *)
(*                                                                         *)
(* Every xz and fastboot command may fail half way, the user may interrupt *)
(* the script anywhere, and may run it again in the same directory, where  *)
(* decompress leaves its results.  Bytes are abstracted to which image a   *)
(* partition holds and whether it holds the whole of it.                   *)
(***************************************************************************)
EXTENDS FiniteSets

CONSTANTS
    Targets,     \* the partitions the root file system may go to
    Kits,        \* how a user may have each file in DIR: "raw", "xz" or "none"
    Misfits      \* per file, the partitions of a tablet that are too small for it

Files == {"uboot", "silicium", "esp", "bootfs", "rootfs"}
Slots == {"boot_a", "boot_b"}
Dtbo == "dtbo"
FixedParts == Slots \cup {"rawdump", "cust", Dtbo}
Parts == FixedParts \cup Targets

\* An empty variable or file names no partition; the file may be absent, too.
Nowhere == ""
NoFile == "no file"
Overrides == Targets \cup {Nowhere}
TargetFiles == Targets \cup {Nowhere, NoFile}

ASSUME TargetsAssumption ==
    /\ {"linux", "userdata"} \subseteq Targets
    /\ Targets \cap (FixedParts \cup {Nowhere, NoFile}) = {}
    /\ Misfits \subseteq [Files -> SUBSET Parts]
    /\ Kits \subseteq [Files -> {"none", "raw", "xz"}]

VARIABLES
    raw,         \* of each file, the decompressed one in DIR
    archive,     \* and its .xz
    tooLarge,    \* of each file, the partitions it is larger than
    part,        \* what each partition holds
    pc,          \* the call of flash_part the script is in, or how it ended
    phase,       \* where it is in flash_part
    target,      \* ROOT_PART
    legacy,      \* the U-Boot branch was not taken
    smooth       \* this run met no fault

dirVars == <<raw, archive, tooLarge>>
runVars == <<target, legacy>>
vars == <<dirVars, part, pc, phase, runVars, smooth>>

-----------------------------------------------------------------------------
(* The calls of flash_part, in the order of the script.                    *)

Content == [image : Files \cup {"old", "torn", "erased"}, whole : BOOLEAN]
Other(what) == [image |-> what, whole |-> FALSE]
Image(f) == [image |-> f, whole |-> raw[f] = "whole"]

Calls == {"ubootBoth", "ubootA", "ubootB", "siliciumBoth", "siliciumA",
          "esp", "bootfs", "rootfs"}
Ended == {"ready", "done", "failed", "stopped"}

\* The second and the first argument of the call.
FileOf(c) ==
    CASE c \in {"ubootBoth", "ubootA", "ubootB"} -> "uboot"
      [] c \in {"siliciumBoth", "siliciumA"}     -> "silicium"
      [] OTHER                                   -> c
PartsOf(c) ==
    CASE c \in {"ubootBoth", "siliciumBoth"} -> Slots   \* boot_ab
      [] c \in {"ubootA", "siliciumA"}       -> {"boot_a"}
      [] c = "ubootB"                        -> {"boot_b"}
      [] c = "esp"                           -> {"rawdump"}
      [] c = "bootfs"                        -> {"cust"}
      [] OTHER                               -> {target} \ {Nowhere}

\* Mutant: the second slot is left to the bootloader.
AfterOneSlot(c) ==
    CASE c \in {"ubootBoth", "ubootA", "ubootB"} -> "erase"
      [] c \in {"siliciumBoth", "siliciumA"}     -> "esp"
      [] c = "esp"                               -> "bootfs"
      [] c = "bootfs"                            -> "rootfs"
      [] OTHER                                   -> "done"

AfterSuccess(c) ==
    CASE c = "ubootA"                        -> "ubootB"
      [] c \in {"ubootBoth", "ubootB"}       -> "erase"
      [] c \in {"siliciumBoth", "siliciumA"} -> "esp"
      [] c = "esp"                           -> "bootfs"
      [] c = "bootfs"                        -> "rootfs"
      [] OTHER                               -> "done"

\* Mutant: "|| true" instead of the group that flashes the slots one by one.
AfterIgnored(c) ==
    CASE c = "ubootBoth"    -> "erase"
      [] c = "siliciumBoth" -> "siliciumA"
      [] OTHER              -> "failed"

AfterFailure(c) ==
    CASE c = "ubootBoth"    -> "ubootA"
      [] c = "siliciumBoth" -> "siliciumA"
      [] OTHER              -> "failed"

Return(next) == pc' = next /\ phase' = "unpack"

Supplied(f) == raw[f] # "none" \/ archive[f] # "none"

Init ==
    /\ \E kit \in Kits :
          /\ raw = [f \in Files |-> IF kit[f] = "raw" THEN "whole" ELSE "none"]
          /\ archive \in {a \in [Files -> {"none", "good", "bad"}] :
                             \A f \in Files : a[f] # "none" <=> kit[f] = "xz"}
    /\ tooLarge \in Misfits
    /\ part = [p \in Parts |-> Other("old")]
    /\ pc = "ready" /\ phase = "unpack"
    /\ target = "linux" /\ legacy = FALSE
    /\ smooth = TRUE

-----------------------------------------------------------------------------
(* The start of a run: environment variables and target-part.txt are new   *)
(* each time.                                                              *)

\* ROOT_PART from ROOT_PART_OVERRIDE, MULTIBOOT and target-part.txt: an empty
\* variable is as good as none, an empty file is not.
RootPart(override, multiboot, targetFile) ==
    IF override # Nowhere THEN override
    ELSE IF ~multiboot THEN "userdata"
    ELSE IF targetFile # NoFile THEN targetFile
    ELSE "linux"

Start(override, multiboot, targetFile, legacyUefi) ==
    LET uboot == Supplied("uboot") /\ ~legacyUefi IN
    /\ pc \in Ended
    /\ target' = RootPart(override, multiboot, targetFile)
    /\ legacy' = ~uboot
    /\ smooth' = TRUE
    /\ Return(IF ~Supplied("rootfs") THEN "failed"
              ELSE IF uboot THEN "ubootBoth"
              ELSE IF Supplied("silicium") THEN "siliciumBoth" ELSE "failed")
    /\ UNCHANGED <<dirVars, part>>

-----------------------------------------------------------------------------
(* decompress.                                                             *)

Unpacks(f) == archive[f] # "none" /\ raw[f] = "none"

Unpacked(c) ==
    /\ pc = c /\ phase = "unpack"
    /\ Unpacks(FileOf(c)) /\ archive[FileOf(c)] = "good"
    /\ raw' = [raw EXCEPT ![FileOf(c)] = "whole"]
    /\ phase' = "write"
    /\ UNCHANGED <<archive, tooLarge, part, pc, runVars, smooth>>

\* decompress is called on the left of ||, so set -e is off inside: the
\* output that > has created is all its last test looks at.
UnpackFails(c) ==
    /\ pc = c /\ phase = "unpack"
    /\ Unpacks(FileOf(c))
    /\ raw' = [raw EXCEPT ![FileOf(c)] = "cut"]
    /\ phase' = "write"
    /\ smooth' = FALSE
    /\ UNCHANGED <<archive, tooLarge, part, pc, runVars>>

\* Mutant: decompress always runs xz, which refuses to overwrite its output.
NothingOverwritten(c) ==
    /\ pc = c /\ phase = "unpack"
    /\ ~Unpacks(FileOf(c))
    /\ IF raw[FileOf(c)] = "none" \/ archive[FileOf(c)] # "none"
         THEN Return(AfterFailure(c))
         ELSE phase' = "write" /\ UNCHANGED pc
    /\ UNCHANGED <<dirVars, part, runVars, smooth>>

NothingToUnpack(c) ==
    /\ pc = c /\ phase = "unpack"
    /\ ~Unpacks(FileOf(c))
    /\ IF raw[FileOf(c)] = "none"
         THEN Return(AfterFailure(c))
         ELSE phase' = "write" /\ UNCHANGED pc
    /\ UNCHANGED <<dirVars, part, runVars, smooth>>

-----------------------------------------------------------------------------
(* The rest of flash_part.                                                 *)

Fits(f, p) == p \notin tooLarge[f] \/ raw[f] = "cut"
CanSucceed(c) == PartsOf(c) # {} /\ \A p \in PartsOf(c) : Fits(FileOf(c), p)

\* The size check refuses the file, if fastboot can read the partition's size
\* at all.  (Also a truncated one may still be too large.)
Refuse(c) ==
    /\ pc = c /\ phase = "write"
    /\ PartsOf(c) \cap tooLarge[FileOf(c)] # {}
    /\ Return(AfterFailure(c))
    /\ UNCHANGED <<dirVars, part, runVars, smooth>>

\* fastboot flash, or flash:raw, or the retry with -S 64M.
Flashed(c) ==
    /\ pc = c /\ phase \in {"write", "retry"}
    /\ CanSucceed(c)
    /\ part' = [p \in Parts |-> IF p \in PartsOf(c) THEN Image(FileOf(c)) ELSE part[p]]
    /\ Return(AfterSuccess(c))
    /\ UNCHANGED <<dirVars, runVars, smooth>>

\* What a failing or interrupted fastboot may leave of the partitions.
PartlyFlashed(c) ==
    \E touched, finished \in SUBSET PartsOf(c) :
        part' = [p \in Parts |->
            IF p \in finished /\ Fits(FileOf(c), p) THEN Image(FileOf(c))
            ELSE IF p \in touched THEN Other("torn") ELSE part[p]]

\* Mutant: every call is retried, whatever its mode.
FlashRetries(c) ==
    /\ pc = c /\ phase \in {"write", "retry"}
    /\ PartlyFlashed(c)
    /\ IF phase = "write"
         THEN phase' = "retry" /\ UNCHANGED pc
         ELSE Return(AfterFailure(c))
    /\ smooth' = (smooth /\ ~CanSucceed(c))
    /\ UNCHANGED <<dirVars, runVars>>

\* fastboot fails: it meets a fault, or what it is asked for cannot be done (no
\* partition has an empty name, the file does not fit).
FlashFails(c) ==
    /\ pc = c /\ phase \in {"write", "retry"}
    /\ PartlyFlashed(c)
    /\ IF c = "rootfs" /\ phase = "write"     \* only this call is in mode raw
         THEN phase' = "retry" /\ UNCHANGED pc
         ELSE Return(AfterFailure(c))
    /\ smooth' = (smooth /\ ~CanSucceed(c))
    /\ UNCHANGED <<dirVars, runVars>>

-----------------------------------------------------------------------------
(* Between the boot image and the root file system; the user.              *)

\* Three best-effort commands, or none with ERASE_DTBO=0.
EraseDtbo ==
    /\ pc = "erase"
    /\ \/ part' = [part EXCEPT ![Dtbo] = Other("erased")]
       \/ UNCHANGED part
    /\ Return("rootfs")
    /\ UNCHANGED <<dirVars, runVars, smooth>>

InterruptUnpack ==
    /\ phase = "unpack" /\ pc \in Calls /\ Unpacks(FileOf(pc))
    /\ raw' = [raw EXCEPT ![FileOf(pc)] = "cut"]
    /\ UNCHANGED part

InterruptFlash ==
    /\ phase \in {"write", "retry"}
    /\ PartlyFlashed(pc)
    /\ UNCHANGED raw

Interrupt ==
    /\ pc \notin Ended
    /\ \/ InterruptUnpack
       \/ InterruptFlash
       \/ UNCHANGED <<raw, part>>
    /\ Return("stopped")
    /\ smooth' = FALSE
    /\ UNCHANGED <<archive, tooLarge, runVars>>

Next ==
    \/ \E override \in Overrides, targetFile \in TargetFiles,
          multiboot, legacyUefi \in BOOLEAN : Start(override, multiboot, targetFile, legacyUefi)
    \/ \E c \in Calls :
           \/ Unpacked(c) \/ UnpackFails(c) \/ NothingToUnpack(c)
           \/ Refuse(c) \/ Flashed(c) \/ FlashFails(c)
    \/ EraseDtbo
    \/ Interrupt

Spec == Init /\ [][Next]_vars

-----------------------------------------------------------------------------
(* Properties.                                                             *)

\* Every variable has its type, only the root image is flashed again in
\* another mode, and a file that is being flashed exists.
TypeOK ==
    /\ raw \in [Files -> {"none", "cut", "whole"}]
    /\ archive \in [Files -> {"none", "good", "bad"}]
    /\ tooLarge \in Misfits
    /\ part \in [Parts -> Content]
    /\ pc \in Calls \cup Ended \cup {"erase"}
    /\ phase \in {"unpack", "write", "retry"}
    /\ phase # "unpack" => pc \in Calls /\ raw[FileOf(pc)] # "none"
    /\ phase = "retry" => pc = "rootfs"
    /\ target \in Targets \cup {Nowhere} /\ legacy \in BOOLEAN
    /\ smooth \in BOOLEAN

\* What the bootloader starts: U-Boot in both slots, or the legacy image in
\* the first slot at least, with its helper partitions.
BootFlashed ==
    IF legacy
      THEN /\ part["boot_a"] = Image("silicium")
           /\ part["rawdump"] = Image("esp") /\ part["cust"] = Image("bootfs")
      ELSE \A s \in Slots : part[s] = Image("uboot")

\* "Done" (line 96) is the truth about the device: whatever failed on the
\* way, and whatever earlier runs left on it, every partition of the layout
\* now holds its file.
DoneMeansFlashed ==
    pc = "done" => BootFlashed /\ part[target] = Image("rootfs")

\* As long as not all of the boot images are on the device, the DTBO and the
\* partitions of root file systems are left alone: a run that fails before
\* (lines 62 to 83) leaves the old system behind its old or torn boot image.
BootFirst ==
    [][(\E p \in Targets \cup {Dtbo} : part'[p] # part[p]) => BootFlashed]_vars

\* What the user has to see to before the set can be flashed: a file of the
\* layout is missing or too large for its partition, or target-part.txt is
\* empty.
Unflashable ==
    \/ ~Supplied("rootfs") \/ target = Nowhere \/ target \in tooLarge["rootfs"]
    \/ legacy /\ \E f \in {"silicium", "esp", "bootfs"} :
                     ~Supplied(f) \/ tooLarge[f] # {}
    \/ ~legacy /\ tooLarge["uboot"] # {}

\* What earlier runs left, in DIR or on the device, never makes the script
\* fail: a run that meets no fault of its own ends with "Done" unless the set
\* is at fault.  (What it flashes is the question of RerunFlashesArchive.)
RerunSucceeds == pc = "failed" /\ smooth => Unflashable

\* The comment on lines 5 and 6 says that DIR/sfos_rootfs.raw[.xz] goes to
\* its partition: a run without a fault that ends with "Done" has put the
\* content of an intact archive there, not a part of it.
RerunFlashesArchive ==
    pc = "done" /\ smooth /\ archive["rootfs"] = "good"
        => part[target] = [image |-> "rootfs", whole |-> TRUE]

=============================================================================
