------------------------------ MODULE FlashSet ------------------------------
(***************************************************************************)
(* build-uboot.sh and pack-flashables.sh: the boot image of U-Boot, and    *)
(* the set of files that flash.sh takes from one directory.  Runs follow   *)
(* each other in the same directory; a run ends where a command fails (set *)
(* -e), is refused or interrupted.  One action per stretch of commands of  *)
(* which the last one changes the directory, the mount or the tree.        *)
(***************************************************************************)
EXTENDS AdaptationRepo, MkBootImg

CONSTANTS
    MiB,         \* bytes per megabyte
    Payloads,    \* sizes of U-Boot with its device tree,
    PageSizes,   \* of the pages of a boot image,
    Contents,    \* of the tree of a root file system,
    FsSizes,     \* of a file system after resize2fs -M, in bytes,
    Partitions,  \* of the partition fastboot may be asked for,
    Limits,      \* ROOTFS_SIZE_MAX_MB,
    Asked,       \* ROOTFS_SIZE_MB, both 0 unless given
    Targets,     \* TARGET_PART
    MaxRuns      \* bound: the runs of the packing script

ASSUME SizesAssumption ==
    /\ MiB \in Nat \ {0}
    /\ Payloads \cup PageSizes \cup Contents \cup Limits \cup Asked \subseteq Nat
    /\ FsSizes \cup Partitions \subseteq Nat \ {0}
ASSUME RunsAssumption == MaxRuns \in Nat

VARIABLES
    uboot,    \* the image u-boot-pipa/out holds: "none", "part" or "whole"
    cut,      \* the last write of it was cut off
    runs,     \* how many runs of the packing script there were
    step,     \* what the current one has just done, "idle" outside of one
    result,   \* "ready" or "failed" after a run, else "none"
    job,      \* what the script's variables hold, NULL outside of a run
    mounts,   \* the runs in whose work directories the root image is mounted
    out       \* the files of the set, each with the run that wrote it, or 0

ubootVars == <<uboot, cut>>
vars == <<repoVars, ubootVars, runs, step, result, job, mounts, out>>

Init ==
    /\ RepoInit
    /\ uboot = [image |-> NULL, state |-> "none"] /\ cut = FALSE
    /\ runs = 0 /\ step = "idle" /\ result = "none"
    /\ job = NULL /\ mounts = {}
    /\ out = [rootfs |-> [run |-> 0, state |-> "none", bytes |-> 0, mesa |-> FALSE],
              uboot |-> [run |-> 0, image |-> NULL, state |-> "none"],
              target |-> [run |-> 0, part |-> NULL]]

-----------------------------------------------------------------------------
(* build-uboot.sh                                                          *)

Idle == step = "idle"

\* Mutant: the output is opened before the header is checked.
BuildUbootOpenedFirst(payload, page) ==
    /\ Idle
    /\ uboot' = [image |-> BootImage(payload, page),
                 state |-> IF Accepts(payload, page) THEN "whole" ELSE "part"]
    /\ cut' = FALSE
    /\ UNCHANGED <<repoVars, runs, step, result, job, mounts, out>>

\* A refused build leaves what was there.
BuildUboot(payload, page) ==
    /\ Idle
    /\ Accepts(payload, page)
    /\ uboot' = [image |-> BootImage(payload, page), state |-> "whole"]
    /\ cut' = FALSE
    /\ UNCHANGED <<repoVars, runs, step, result, job, mounts, out>>

\* The disk is full, or the script is interrupted.
CutUboot(payload, page) ==
    /\ Idle
    /\ Accepts(payload, page)
    /\ uboot' = [image |-> BootImage(payload, page), state |-> "part"]
    /\ cut' = TRUE
    /\ UNCHANGED <<repoVars, runs, step, result, job, mounts, out>>

-----------------------------------------------------------------------------
(* pack-flashables.sh: sizes.                                              *)

bytes_to_mb(bytes) == (bytes + MiB - 1) \div MiB

\* 64 MB are left free, unless the partition is not larger than that.
Usable(partition) ==
    LET mb == bytes_to_mb(partition) IN IF mb > 64 THEN mb - 64 ELSE mb

\* MAX_MB, 0 when it is not known: as given, or by fastboot's answer, 0 when
\* there is no fastboot or its answer is not a number.
MaxMb(limit, partition) ==
    IF limit # 0 THEN limit ELSE IF partition = 0 THEN 0 ELSE Usable(partition)

NeedMb(content) ==
    LET mb == (bytes_to_mb(content) * 120) \div 100 + 256 IN IF mb < 2048 THEN 2048 ELSE mb

\* ROOTFS_SIZE_MB: what was asked for, or what is needed up to the maximum.
SizeMb(asked, content, max) ==
    CASE asked # 0 -> asked
      [] max > 0 /\ NeedMb(content) > max -> max
      [] OTHER -> NeedMb(content)

TooLarge(mb, max) == max > 0 /\ mb > max

-----------------------------------------------------------------------------
(* pack-flashables.sh: the run.                                            *)

At(before, after) == step = before /\ step' = after
Rootfs(state, bytes) ==
    out' = [out EXCEPT !.rootfs = [run |-> runs, state |-> state, bytes |-> bytes,
                                   mesa |-> job.mesa]]

\* The arguments, and the inputs that have to be there.
Start(source, target) ==
    /\ Idle /\ listed = NULL /\ runs < MaxRuns
    /\ uboot.state # "none"
    /\ source = "tbz" => tbz # "none"
    /\ step' = source
    /\ runs' = runs + 1
    /\ result' = "none"
    /\ job' \in [target : {target}, partition : {0}, max : {0}, size : {0}, content : {0},
                 mesa : IF source = "tbz" THEN {tbz = "mesa"} ELSE BOOLEAN]
    /\ UNCHANGED <<repoVars, ubootVars, mounts, out>>

\* Mutant: a file that is there counts as installed.
MesaThere == job.mesa \/ Present # {}

\* inject_bringup_fixes: Mesa is in the tree, or the first RPM that find
\* comes across installs; rpm refuses a partial one.
MesaInstalls == job.mesa \/ Whole # {}

\* The tree from the tarball, with modules, boot files, Mesa and firmware.
PrepareTree ==
    /\ At("tbz", "tree")
    /\ MesaInstalls
    /\ \E content \in Contents :
        job' = [job EXCEPT !.mesa = @ \/ Whole # {}, !.content = content]
    /\ UNCHANGED <<repoVars, ubootVars, runs, result, mounts, out>>

\* fastboot getvar waits for a device when there is none.
ComputeSize(limit, partition, asked) ==
    /\ At("tree", "sized")
    /\ limit # 0 => partition = 0
    /\ LET max == MaxMb(limit, partition)
           size == SizeMb(asked, job.content, max)
       IN  /\ ~TooLarge(size, max)
           /\ job' = [job EXCEPT !.partition = partition, !.max = max, !.size = size]
    /\ UNCHANGED <<repoVars, ubootVars, runs, result, mounts, out>>

\* rm, dd, mkfs.  The old image is gone, whatever happens from here on; what an
\* earlier run may have left mounted is a file without a name now.
CreateImage ==
    /\ At("sized", "created")
    /\ Rootfs("blank", job.size * MiB)
    /\ mounts' = {}
    /\ UNCHANGED <<repoVars, ubootVars, runs, result, job>>

MountImage ==
    /\ At("created", "mounted")
    /\ mounts' = mounts \cup {runs}
    /\ UNCHANGED <<repoVars, ubootVars, runs, result, job, out>>

\* rsync, umount.
FillImage ==
    /\ At("mounted", "filled")
    /\ job.content <= job.size * MiB
    /\ Rootfs("filled", out.rootfs.bytes)
    /\ mounts' = mounts \ {runs}
    /\ UNCHANGED <<repoVars, ubootVars, runs, result, job>>

\* e2fsck, resize2fs -M, truncate with a reserve of 64 MB, resize2fs, e2fsck.
ShrinkImage(bytes) ==
    /\ At("filled", "shrunk")
    /\ job.content <= bytes /\ bytes <= out.rootfs.bytes
    /\ Rootfs("checked", bytes + 64 * MiB)
    /\ UNCHANGED <<repoVars, ubootVars, runs, result, job, mounts>>

\* Mutant: the reserve was not there when the size was checked.
AcceptWithoutReserve ==
    /\ At("shrunk", "rootfs")
    /\ ~TooLarge(bytes_to_mb(out.rootfs.bytes - 64 * MiB), job.max)
    /\ UNCHANGED <<repoVars, ubootVars, runs, result, job, mounts, out>>

AcceptImage ==
    /\ At("shrunk", "rootfs")
    /\ ~TooLarge(bytes_to_mb(out.rootfs.bytes), job.max)
    /\ UNCHANGED <<repoVars, ubootVars, runs, result, job, mounts, out>>

\* --rootfs-raw: a copy of an image is changed while it is mounted.  cp writes
\* into the file that is there, also when an earlier run left it mounted.
CopyRaw(bytes) ==
    /\ At("raw", "copied")
    /\ Rootfs("copied", bytes)
    /\ UNCHANGED <<repoVars, ubootVars, runs, result, job, mounts>>

MountRaw ==
    /\ At("copied", "rawMounted")
    /\ mounts' = mounts \cup {runs}
    /\ UNCHANGED <<repoVars, ubootVars, runs, result, job, out>>

InjectRaw ==
    /\ At("rawMounted", "injected")
    /\ MesaInstalls
    /\ job' = [job EXCEPT !.mesa = @ \/ Whole # {}]
    /\ UNCHANGED <<repoVars, ubootVars, runs, result, mounts, out>>

\* A file system that another mount writes to as well is not what e2fsck saw.
AfterCheck == IF mounts \subseteq {runs} THEN "checked" ELSE "spoilt"

\* Mutant: the copy is not unmounted.
CheckRawMounted ==
    /\ At("injected", "rootfs")
    /\ Rootfs(AfterCheck, out.rootfs.bytes)
    /\ UNCHANGED <<repoVars, ubootVars, runs, result, job, mounts>>

\* umount, e2fsck.  Nothing looks at its size, or for another mount.
CheckRaw ==
    /\ At("injected", "rootfs")
    /\ mounts' = mounts \ {runs}
    /\ Rootfs(AfterCheck, out.rootfs.bytes)
    /\ UNCHANGED <<repoVars, ubootVars, runs, result, job>>

\* Mutant: a set that has a U-Boot image keeps it.
CopyUbootOnce ==
    /\ At("rootfs", "uboot")
    /\ out' = [out EXCEPT !.uboot =
                IF @.state # "none" THEN @
                ELSE [run |-> runs, image |-> uboot.image, state |-> uboot.state]]
    /\ UNCHANGED <<repoVars, ubootVars, runs, result, job, mounts>>

\* The image as the build has left it: only its presence was checked.
CopyUboot ==
    /\ At("rootfs", "uboot")
    /\ out' = [out EXCEPT !.uboot = [run |-> runs, image |-> uboot.image,
                                     state |-> uboot.state]]
    /\ UNCHANGED <<repoVars, ubootVars, runs, result, job, mounts>>

\* target-part.txt is the last file; then the set is announced.
WriteTarget ==
    /\ At("uboot", "idle")
    /\ out' = [out EXCEPT !.target = [run |-> runs, part |-> job.target]]
    /\ result' = "ready"
    /\ job' = NULL
    /\ UNCHANGED <<repoVars, ubootVars, runs, mounts>>

\* cleanup, whatever made the script exit.  The image is unmounted if it still
\* is mounted; when umount fails, that is ignored, and "rm -rf" empties the
\* image but cannot remove what it is mounted on.
Cleanup ==
    \/ mounts' = mounts \ {runs} /\ out' = out
    \/ runs \in mounts /\ mounts' = mounts /\ Rootfs("erased", out.rootfs.bytes)

\* A command fails or is interrupted, a check refuses.
Exit ==
    /\ ~Idle
    /\ step' = "idle"
    /\ result' = "failed"
    /\ Cleanup
    /\ job' = NULL
    /\ UNCHANGED <<repoVars, ubootVars, runs>>

\* As before, while the U-Boot image was being copied.
CutCopy ==
    /\ At("rootfs", "idle")
    /\ result' = "failed"
    /\ out' = [out EXCEPT !.uboot = [run |-> runs, image |-> uboot.image,
                                     state |-> "part"]]
    /\ job' = NULL
    /\ UNCHANGED <<repoVars, ubootVars, runs, mounts>>

UbootStep ==
    \E payload \in Payloads, page \in PageSizes :
        BuildUboot(payload, page) \/ CutUboot(payload, page)
TreeStep ==
    \/ PrepareTree
    \/ \E limit \in Limits, partition \in Partitions \cup {0}, asked \in Asked :
        ComputeSize(limit, partition, asked)
    \/ CreateImage \/ MountImage \/ FillImage
    \/ \E bytes \in FsSizes : ShrinkImage(bytes)
    \/ AcceptImage
RawStep ==
    \/ \E bytes \in FsSizes : CopyRaw(bytes)
    \/ MountRaw \/ InjectRaw \/ CheckRaw

Next ==
    \/ Idle /\ RepoStep /\ UNCHANGED <<ubootVars, runs, step, result, job, mounts, out>>
    \/ UbootStep
    \/ \E source \in {"tbz", "raw"}, target \in Targets : Start(source, target)
    \/ TreeStep \/ RawStep
    \/ CopyUboot \/ WriteTarget
    \/ Exit \/ CutCopy

Spec == Init /\ [][Next]_vars

-----------------------------------------------------------------------------
(* Properties.                                                             *)

Steps == {"idle", "tbz", "tree", "sized", "created", "mounted", "filled", "shrunk",
          "raw", "copied", "rawMounted", "injected", "rootfs", "uboot"}
Images == [kernel_size : Nat, page_size : Nat, header : Nat, kernel : Nat, zeros : Nat]
Jobs == [target : Targets, partition : Nat, max : Nat, size : Nat, content : Nat,
         mesa : BOOLEAN]
RootfsStates == {"none", "blank", "filled", "copied", "checked", "spoilt", "erased"}
UbootStates == {"none", "part", "whole"}
Files == [rootfs : [run : Nat, state : RootfsStates, bytes : Nat, mesa : BOOLEAN],
          uboot : [run : Nat, image : Images \cup {NULL}, state : UbootStates],
          target : [run : Nat, part : Targets \cup {NULL}]]

\* Every variable has its type, and the run under way has its image mounted
\* between its mount and its unmount only.
TypeOK ==
    /\ RepoTypeOK
    /\ uboot \in [image : Images \cup {NULL}, state : UbootStates] /\ cut \in BOOLEAN
    /\ runs \in 0 .. MaxRuns /\ step \in Steps
    /\ result \in {"none", "ready", "failed"} /\ (~Idle => result = "none" /\ runs > 0)
    /\ ~Idle => job \in Jobs
    /\ mounts \in SUBSET (1 .. runs)
    /\ ~Idle => (runs \in mounts <=> step \in {"mounted", "rawMounted", "injected"})
    /\ out \in Files

\* Unless its last write was cut off, U-Boot's image is one a bootloader can
\* read: a build that is refused, for whatever size, does not touch it.
BootImageReads ==
    uboot.state # "none" /\ ~cut => uboot.state = "whole" /\ Readable(uboot.image)

\* A set that is announced as ready was written by one run, and its root image
\* has Mesa, although a seeding was cut off, and is checked and not mounted any
\* more, although a run before it failed.  The one exception: when an earlier
\* run could not unmount the file, --rootfs-raw copies under that mount.
ReadyRootIsWhole ==
    result = "ready" =>
        /\ out.rootfs.run = runs /\ out.uboot.run = runs /\ out.target.run = runs
        /\ out.rootfs.mesa
        /\ runs \notin mounts
        /\ out.rootfs.state = IF mounts = {} THEN "checked" ELSE "spoilt"

\* A root image that is accepted fits the partition that fastboot told the
\* size of: whatever was asked for, and however the sizes are rounded.
FitsPartition ==
    step \in {"rootfs", "uboot"} /\ job.partition > 0 =>
        out.rootfs.bytes <= job.partition

\* After failed runs the files may be of different runs, the later ones
\* first: a root image is never older than the file that tells its target.
FilesInOrder ==
    /\ out.target.run <= out.uboot.run
    /\ out.uboot.run <= out.rootfs.run
    /\ out.rootfs.run <= runs
=============================================================================
