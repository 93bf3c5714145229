--------------------------- MODULE FlashSetProofs ---------------------------
(***************************************************************************)
(* The properties of FlashSet for any sizes, limits and number of runs,    *)
(* and the two pieces of arithmetic they rest on: rounding up to pages, in *)
(* mkbootimg.py, and to megabytes, in pack-flashables.sh.                  *)
(***************************************************************************)
EXTENDS FlashSet, TLAPS

-----------------------------------------------------------------------------
(* Arithmetic.                                                             *)

\* What the quotient of a division is.
LEMMA DivBounds ==
  ASSUME NEW n \in Nat, NEW a \in Nat \ {0}
  PROVE  /\ n \div a \in Nat
         /\ (n \div a) * a <= n
         /\ n < (n \div a) * a + a
  BY Z3

\* The quotient of a division that rounds up.
LEMMA RoundUp ==
  ASSUME NEW n \in Nat, NEW a \in Nat \ {0}, NEW q, q = (n + a - 1) \div a
  PROVE  /\ q \in Nat
         /\ n <= q * a
         /\ q * a < n + a
<1> DEFINE m == n + a - 1
<1>1. m \in Nat
  OBVIOUS
<1>2. /\ q \in Nat /\ q * a <= m /\ m < q * a + a
  BY <1>1, DivBounds
<1>3. q * a \in Nat
  BY <1>2
<1> HIDE DEF m
<1>4. n <= q * a /\ q * a < n + a
  BY <1>2, <1>3 DEF m
<1> QED
  BY <1>2, <1>4

\* It is not larger than the number that is divided.
LEMMA RoundUpSmall ==
  ASSUME NEW n \in Nat, NEW a \in Nat \ {0}, NEW q \in Nat, q * a < n + a
  PROVE  q <= n
<1>1. CASE q = 0
  BY <1>1
<1>2. CASE q # 0
  <2>1. PICK p \in Nat : q = p + 1
    <3>1. q - 1 \in Nat /\ q = (q - 1) + 1
      BY <1>2
    <3> QED
      BY <3>1
  <2>2. q * a = p * a + a /\ p * a \in Nat
    BY <2>1
  <2>3. p * a < n
    BY <2>2
  <2>4. p <= p * a
    BY <2>1
  <2> QED
    BY <2>1, <2>2, <2>3, <2>4
<1> QED
  BY <1>1, <1>2

\* mkbootimg.py: every image that is written, whatever the kernel and the
\* page size, is laid out as a bootloader reads it.
THEOREM WrittenImagesRead ==
  ASSUME NEW kernel \in Nat, NEW page \in Nat, Accepts(kernel, page)
  PROVE  BootImage(kernel, page) \in Images /\ Readable(BootImage(kernel, page))
<1> DEFINE q == (kernel + page - 1) \div page
           image == BootImage(kernel, page)
<1>1. page \in Nat \ {0} /\ HeaderSize <= page
  BY DEF Accepts, HeaderSize
<1>2. q \in Nat /\ kernel <= q * page /\ q * page < kernel + page
  BY <1>1, RoundUp
<1>3. q * page \in Nat /\ q <= kernel
  BY <1>1, <1>2, RoundUpSmall
<1>4. image = [kernel_size |-> kernel, page_size |-> page, header |-> page,
               kernel |-> kernel, zeros |-> q * page - kernel]
  BY DEF BootImage, align
<1> HIDE DEF q, image
<1>5. image \in Images
  BY <1>1, <1>2, <1>3, <1>4 DEF Images
<1>6. (q + 1) * page = q * page + page
  BY <1>1, <1>2
<1>7. KernelPages(image, q)
  BY <1>1, <1>2, <1>3, <1>4, <1>6 DEF KernelPages, Length
<1>8. Readable(image)
  <2>1. image.header = image.page_size /\ image.kernel_size = image.kernel
        /\ image.kernel = kernel /\ image.page_size = page
    BY <1>4
  <2>2. q \in 0 .. image.kernel
    BY <1>2, <1>3, <2>1
  <2> QED
    BY <1>1, <1>7, <2>1, <2>2 DEF Readable
<1> QED
  BY <1>5, <1>8 DEF image

\* pack-flashables.sh: an image that is not larger than the usable size in
\* rounded megabytes is not larger than the partition in bytes.  Where no
\* room is left free the image is too large by its reserve alone.
THEOREM UsableFits ==
  ASSUME NEW bytes \in Nat, NEW partition \in Nat \ {0}, 64 * MiB < bytes,
         ~TooLarge(bytes_to_mb(bytes), Usable(partition))
  PROVE  bytes <= partition
<1> DEFINE b == bytes_to_mb(bytes)
           p == bytes_to_mb(partition)
<1>1. MiB \in Nat \ {0}
  BY SizesAssumption
<1>2. b \in Nat /\ bytes <= b * MiB
  BY <1>1, RoundUp DEF bytes_to_mb
<1>3. p \in Nat /\ partition <= p * MiB /\ p * MiB < partition + MiB
  BY <1>1, RoundUp DEF bytes_to_mb
<1>4. Usable(partition) = IF p > 64 THEN p - 64 ELSE p
  BY DEF Usable
<1> HIDE DEF b, p
<1>5. p # 0
  BY <1>1, <1>3
<1>6. Usable(partition) \in Nat /\ b <= Usable(partition)
  BY <1>2, <1>3, <1>4, <1>5 DEF TooLarge, b
<1>7. CASE p > 64
  <2>1. b + 64 <= p
    BY <1>2, <1>3, <1>4, <1>6, <1>7
  <2>2. PICK r \in Nat : p = b + 64 + r
    <3>1. p - b - 64 \in Nat /\ p = b + 64 + (p - b - 64)
      BY <1>2, <1>3, <2>1
    <3> QED
      BY <3>1
  <2>3. p * MiB = b * MiB + 64 * MiB + r * MiB
    BY <1>1, <1>2, <2>2
  <2>4. b * MiB \in Nat /\ r * MiB \in Nat
    BY <1>1, <1>2, <2>2
  <2> QED
    BY <1>1, <1>2, <1>3, <2>3, <2>4
<1>8. CASE ~(p > 64)
  <2>1. b <= 64
    BY <1>2, <1>3, <1>4, <1>6, <1>8
  <2>2. PICK r \in Nat : 64 = b + r
    <3>1. 64 - b \in Nat /\ 64 = b + (64 - b)
      BY <1>2, <2>1
    <3> QED
      BY <3>1
  <2>3. 64 * MiB = b * MiB + r * MiB
    BY <1>1, <1>2, <2>2
  <2>4. b * MiB \in Nat /\ r * MiB \in Nat
    BY <1>1, <1>2, <2>2
  <2> QED
    BY <1>1, <1>2, <2>3, <2>4
<1> QED
  BY <1>7, <1>8

-----------------------------------------------------------------------------
(* The inductive invariant.                                                *)

\* What a run has in hand: Mesa once the tree is made, and a maximum that is
\* derived from the partition when fastboot told its size.
JobInv ==
    /\ step \in {"tree", "sized", "created", "mounted", "filled", "shrunk",
                "injected", "rootfs", "uboot"} => job.mesa
    /\ step \in {"raw", "copied", "rawMounted", "injected"} => job.partition = 0
    /\ step \in {"sized", "created", "mounted", "filled", "shrunk"} =>
        (job.partition > 0 => job.max = Usable(job.partition))

\* What it has written so far.
ImageInv ==
    /\ step \in {"created", "mounted", "filled", "shrunk", "copied", "rawMounted",
                "injected", "rootfs", "uboot"} => out.rootfs.run = runs
    /\ step \in {"shrunk", "rootfs", "uboot"} =>
        /\ out.rootfs.state = IF mounts = {} THEN "checked" ELSE "spoilt"
        /\ out.rootfs.mesa
    /\ step \in {"created", "filled", "shrunk"} => mounts = {}
    /\ step = "mounted" => mounts = {runs}
    /\ step = "shrunk" => 64 * MiB < out.rootfs.bytes

\* And of U-Boot, whose image is there throughout the run.
UbootInv ==
    /\ BootImageReads
    /\ ~Idle => uboot.state # "none"
    /\ step = "uboot" => out.uboot.run = runs

IInv ==
    /\ TypeOK /\ JobInv /\ ImageInv /\ UbootInv
    /\ FilesInOrder /\ ReadyRootIsWhole /\ FitsPartition

-----------------------------------------------------------------------------
(* It holds initially and is preserved, conjunct by conjunct.              *)

\* TypeOK, in the parts that are proved one by one.
RunType ==
    /\ runs \in 0 .. MaxRuns /\ step \in Steps
    /\ result \in {"none", "ready", "failed"} /\ (~Idle => result = "none" /\ runs > 0)
MountType ==
    /\ mounts \in SUBSET (1 .. runs)
    /\ ~Idle => (runs \in mounts <=> step \in {"mounted", "rawMounted", "injected"})
JobType == ~Idle => job \in Jobs
UbootType == uboot \in [image : Images \cup {NULL}, state : UbootStates] /\ cut \in BOOLEAN
FilesType == out \in Files

\* The parts are the whole.
LEMMA TypeParts ==
  TypeOK <=> RepoTypeOK /\ RunType /\ MountType /\ JobType /\ UbootType /\ FilesType
  BY DEF TypeOK, RunType, MountType, JobType, UbootType, FilesType

\* Nothing has been built or packed.
LEMMA InitIInv == Init => IInv
<1> SUFFICES ASSUME Init PROVE IInv
  OBVIOUS
<1>1. TypeOK
  <2>1. RepoTypeOK
    BY DEF Init, RepoInit, RepoTypeOK
  <2>2. RunType /\ JobType
    BY RunsAssumption DEF Init, RunType, JobType, Idle, Steps
  <2>3. MountType
    BY DEF Init, MountType, Idle
  <2>4. UbootType
    BY DEF Init, UbootType, UbootStates
  <2>5. FilesType
    BY DEF Init, FilesType, Files, RootfsStates, UbootStates
  <2> QED
    BY <2>1, <2>2, <2>3, <2>4, <2>5, TypeParts
<1>2. JobInv /\ ImageInv /\ UbootInv /\ FitsPartition
  BY DEF Init, Idle, JobInv, ImageInv, UbootInv, BootImageReads, FitsPartition
<1>3. FilesInOrder /\ ReadyRootIsWhole
  BY DEF Init, FilesInOrder, ReadyRootIsWhole
<1> QED
  BY <1>1, <1>2, <1>3 DEF IInv

\* The steps follow each other.
LEMMA RunStep ==
  ASSUME RunType, [Next]_vars
  PROVE  RunType'
<1> USE SizesAssumption DEF RunType, Steps
<1>1. CASE Idle /\ RepoStep /\ UNCHANGED <<ubootVars, runs, step, result, job, mounts, out>>
  BY <1>1 DEF Idle, ubootVars
<1>2. ASSUME NEW payload \in Payloads, NEW page \in PageSizes, BuildUboot(payload, page)
      PROVE  RunType'
  BY <1>2 DEF BuildUboot, Idle, repoVars
<1>3. ASSUME NEW payload \in Payloads, NEW page \in PageSizes, CutUboot(payload, page)
      PROVE  RunType'
  BY <1>3 DEF CutUboot, Idle, repoVars
<1>4. ASSUME NEW source \in {"tbz", "raw"}, NEW target \in Targets, Start(source, target)
      PROVE  RunType'
  BY <1>4, RunsAssumption DEF Start, Idle
<1>5. ASSUME NEW limit \in Limits, NEW partition \in Partitions \cup {0}, NEW asked \in Asked,
             ComputeSize(limit, partition, asked)
      PROVE  RunType'
  BY <1>5 DEF ComputeSize, At, Idle, repoVars, ubootVars
<1>6. ASSUME NEW bytes \in FsSizes, ShrinkImage(bytes) PROVE RunType'
  BY <1>6 DEF ShrinkImage, Rootfs, At, Idle, repoVars, ubootVars
<1>7. ASSUME NEW bytes \in FsSizes, CopyRaw(bytes) PROVE RunType'
  BY <1>7 DEF CopyRaw, Rootfs, At, Idle, repoVars, ubootVars
<1>8. CASE PrepareTree
  BY <1>8 DEF PrepareTree, MesaInstalls, At, Idle, repoVars, ubootVars
<1>9. CASE CreateImage
  BY <1>9 DEF CreateImage, Rootfs, At, Idle, repoVars, ubootVars
<1>10. CASE MountImage
  BY <1>10 DEF MountImage, At, Idle, repoVars, ubootVars
<1>11. CASE FillImage
  BY <1>11 DEF FillImage, Rootfs, At, Idle, repoVars, ubootVars
<1>12. CASE AcceptImage
  BY <1>12 DEF AcceptImage, At, Idle, repoVars, ubootVars
<1>13. CASE MountRaw
  BY <1>13 DEF MountRaw, At, Idle, repoVars, ubootVars
<1>14. CASE InjectRaw
  BY <1>14 DEF InjectRaw, MesaInstalls, At, Idle, repoVars, ubootVars
<1>15. CASE CheckRaw
  BY <1>15 DEF CheckRaw, Rootfs, At, Idle, repoVars, ubootVars
<1>16. CASE CopyUboot
  BY <1>16 DEF CopyUboot, At, Idle, repoVars, ubootVars
<1>17. CASE WriteTarget
  BY <1>17 DEF WriteTarget, At, Idle, repoVars, ubootVars
<1>18. CASE Exit
  BY <1>18 DEF Exit, Cleanup, Rootfs, Idle, repoVars, ubootVars
<1>19. CASE CutCopy
  BY <1>19 DEF CutCopy, At, Idle, repoVars, ubootVars
<1>20. CASE UNCHANGED vars
  BY <1>20 DEF vars, Idle, ubootVars
<1> QED
  BY <1>1, <1>2, <1>3, <1>4, <1>5, <1>6, <1>7, <1>8, <1>9, <1>10, <1>11, <1>12, <1>13, <1>14, <1>15, <1>16, <1>17, <1>18, <1>19, <1>20
     DEF Next, UbootStep, TreeStep, RawStep

\* The mount belongs to some of them.
LEMMA MountStep ==
  ASSUME RunType, MountType, [Next]_vars
  PROVE  MountType'
<1> USE SizesAssumption, RunsAssumption DEF MountType, RunType, Steps
<1>1. CASE Idle /\ RepoStep /\ UNCHANGED <<ubootVars, runs, step, result, job, mounts, out>>
  BY <1>1 DEF Idle, ubootVars
<1>2. ASSUME NEW payload \in Payloads, NEW page \in PageSizes, BuildUboot(payload, page)
      PROVE  MountType'
  BY <1>2 DEF BuildUboot, Idle, repoVars
<1>3. ASSUME NEW payload \in Payloads, NEW page \in PageSizes, CutUboot(payload, page)
      PROVE  MountType'
  BY <1>3 DEF CutUboot, Idle, repoVars
<1>4. ASSUME NEW source \in {"tbz", "raw"}, NEW target \in Targets, Start(source, target)
      PROVE  MountType'
  BY <1>4 DEF Start, Idle, repoVars, ubootVars
<1>5. ASSUME NEW limit \in Limits, NEW partition \in Partitions \cup {0}, NEW asked \in Asked,
             ComputeSize(limit, partition, asked)
      PROVE  MountType'
  BY <1>5 DEF ComputeSize, At, Idle, repoVars, ubootVars
<1>6. ASSUME NEW bytes \in FsSizes, ShrinkImage(bytes) PROVE MountType'
  BY <1>6 DEF ShrinkImage, Rootfs, At, Idle, repoVars, ubootVars
<1>7. ASSUME NEW bytes \in FsSizes, CopyRaw(bytes) PROVE MountType'
  BY <1>7 DEF CopyRaw, Rootfs, At, Idle, repoVars, ubootVars
<1>8. CASE PrepareTree
  BY <1>8 DEF PrepareTree, MesaInstalls, At, Idle, repoVars, ubootVars
<1>9. CASE CreateImage
  BY <1>9 DEF CreateImage, At, Idle
<1>10. CASE MountImage
  BY <1>10 DEF MountImage, At, Idle
<1>11. CASE FillImage
  BY <1>11 DEF FillImage, At, Idle
<1>12. CASE AcceptImage
  BY <1>12 DEF AcceptImage, At, Idle, repoVars, ubootVars
<1>13. CASE MountRaw
  BY <1>13 DEF MountRaw, At, Idle
<1>14. CASE InjectRaw
  BY <1>14 DEF InjectRaw, MesaInstalls, At, Idle, repoVars, ubootVars
<1>15. CASE CheckRaw
  BY <1>15 DEF CheckRaw, At, Idle
<1>16. CASE CopyUboot
  BY <1>16 DEF CopyUboot, At, Idle, repoVars, ubootVars
<1>17. CASE WriteTarget
  BY <1>17 DEF WriteTarget, At, Idle, repoVars, ubootVars
<1>18. CASE Exit
  BY <1>18 DEF Exit, Cleanup, Idle
<1>19. CASE CutCopy
  BY <1>19 DEF CutCopy, At, Idle, repoVars, ubootVars
<1>20. CASE UNCHANGED vars
  BY <1>20 DEF vars, Idle, ubootVars
<1> QED
  BY <1>1, <1>2, <1>3, <1>4, <1>5, <1>6, <1>7, <1>8, <1>9, <1>10, <1>11, <1>12, <1>13, <1>14, <1>15, <1>16, <1>17, <1>18, <1>19, <1>20
     DEF Next, UbootStep, TreeStep, RawStep

\* The sizes that the script computes are numbers.
LEMMA SizesAreNumbers ==
  ASSUME NEW limit \in Nat, NEW partition \in Nat, NEW asked \in Nat, NEW content \in Nat
  PROVE  /\ MaxMb(limit, partition) \in Nat
         /\ SizeMb(asked, content, MaxMb(limit, partition)) \in Nat
<1>1. MiB \in Nat \ {0}
  BY SizesAssumption
<1>2. bytes_to_mb(partition) \in Nat /\ bytes_to_mb(content) \in Nat
  BY <1>1, RoundUp DEF bytes_to_mb
<1>3. MaxMb(limit, partition) \in Nat
  BY <1>2 DEF MaxMb, Usable
<1>4. NeedMb(content) \in Nat
  BY <1>2 DEF NeedMb
<1> QED
  BY <1>3, <1>4 DEF SizeMb

\* TypeOK: job.
LEMMA JobTypeStep ==
  ASSUME RunType, JobType, [Next]_vars
  PROVE  JobType'
<1> USE SizesAssumption DEF JobType, Jobs
<1>1. CASE Idle /\ RepoStep /\ UNCHANGED <<ubootVars, runs, step, result, job, mounts, out>>
  BY <1>1 DEF Idle, ubootVars
<1>2. ASSUME NEW payload \in Payloads, NEW page \in PageSizes, BuildUboot(payload, page)
      PROVE  JobType'
  BY <1>2 DEF BuildUboot, Idle, repoVars
<1>3. ASSUME NEW payload \in Payloads, NEW page \in PageSizes, CutUboot(payload, page)
      PROVE  JobType'
  BY <1>3 DEF CutUboot, Idle, repoVars
<1>4. ASSUME NEW source \in {"tbz", "raw"}, NEW target \in Targets, Start(source, target)
      PROVE  JobType'
  <2>1. (IF source = "tbz" THEN {tbz = "mesa"} ELSE BOOLEAN) \subseteq BOOLEAN
    OBVIOUS
  <2> DEFINE mesas == IF source = "tbz" THEN {tbz = "mesa"} ELSE BOOLEAN
  <2>2. job' \in [target : {target}, partition : {0}, max : {0}, size : {0},
                  content : {0}, mesa : mesas]
    BY <1>4 DEF Start
  <2> HIDE DEF mesas
  <2> QED
    BY <2>1, <2>2 DEF mesas
<1>5. ASSUME NEW limit \in Limits, NEW partition \in Partitions \cup {0}, NEW asked \in Asked,
             ComputeSize(limit, partition, asked)
      PROVE  JobType'
  <2>1. limit \in Nat /\ partition \in Nat /\ asked \in Nat
    OBVIOUS
  <2>2. job \in Jobs
    BY <1>5 DEF ComputeSize, At, Idle
  <2>3. MaxMb(limit, partition) \in Nat
        /\ SizeMb(asked, job.content, MaxMb(limit, partition)) \in Nat
    BY <2>1, <2>2, SizesAreNumbers
  <2> QED
    BY <1>5, <2>1, <2>2, <2>3 DEF ComputeSize
<1>6. ASSUME NEW bytes \in FsSizes, ShrinkImage(bytes) PROVE JobType'
  BY <1>6 DEF ShrinkImage, Rootfs, At, Idle, repoVars, ubootVars
<1>7. ASSUME NEW bytes \in FsSizes, CopyRaw(bytes) PROVE JobType'
  BY <1>7 DEF CopyRaw, Rootfs, At, Idle, repoVars, ubootVars
<1>8. CASE PrepareTree
  BY <1>8 DEF PrepareTree, MesaInstalls, At, Idle, repoVars, ubootVars
<1>9. CASE CreateImage
  BY <1>9 DEF CreateImage, Rootfs, At, Idle, repoVars, ubootVars
<1>10. CASE MountImage
  BY <1>10 DEF MountImage, At, Idle, repoVars, ubootVars
<1>11. CASE FillImage
  BY <1>11 DEF FillImage, Rootfs, At, Idle, repoVars, ubootVars
<1>12. CASE AcceptImage
  BY <1>12 DEF AcceptImage, At, Idle, repoVars, ubootVars
<1>13. CASE MountRaw
  BY <1>13 DEF MountRaw, At, Idle, repoVars, ubootVars
<1>14. CASE InjectRaw
  BY <1>14 DEF InjectRaw, MesaInstalls, At, Idle, repoVars, ubootVars
<1>15. CASE CheckRaw
  BY <1>15 DEF CheckRaw, Rootfs, At, Idle, repoVars, ubootVars
<1>16. CASE CopyUboot
  BY <1>16 DEF CopyUboot, At, Idle, repoVars, ubootVars
<1>17. CASE WriteTarget
  BY <1>17 DEF WriteTarget, At, Idle, repoVars, ubootVars
<1>18. CASE Exit
  BY <1>18 DEF Exit, Cleanup, Rootfs, Idle, repoVars, ubootVars
<1>19. CASE CutCopy
  BY <1>19 DEF CutCopy, At, Idle, repoVars, ubootVars
<1>20. CASE UNCHANGED vars
  BY <1>20 DEF vars, Idle, ubootVars
<1> QED
  BY <1>1, <1>2, <1>3, <1>4, <1>5, <1>6, <1>7, <1>8, <1>9, <1>10, <1>11, <1>12, <1>13, <1>14, <1>15, <1>16, <1>17, <1>18, <1>19, <1>20
     DEF Next, UbootStep, TreeStep, RawStep

\* TypeOK: uboot.
LEMMA UbootTypeStep ==
  ASSUME UbootType, [Next]_vars
  PROVE  UbootType'
<1> USE SizesAssumption DEF UbootType, UbootStates
<1>1. CASE Idle /\ RepoStep /\ UNCHANGED <<ubootVars, runs, step, result, job, mounts, out>>
  BY <1>1 DEF Idle, ubootVars
<1>2. ASSUME NEW payload \in Payloads, NEW page \in PageSizes, BuildUboot(payload, page)
      PROVE  UbootType'
  <2>1. BootImage(payload, page) \in Images
    BY <1>2, WrittenImagesRead DEF BuildUboot
  <2> QED
    BY <1>2, <2>1 DEF BuildUboot
<1>3. ASSUME NEW payload \in Payloads, NEW page \in PageSizes, CutUboot(payload, page)
      PROVE  UbootType'
  <2>1. BootImage(payload, page) \in Images
    BY <1>3, WrittenImagesRead DEF CutUboot
  <2> QED
    BY <1>3, <2>1 DEF CutUboot
<1>4. ASSUME NEW source \in {"tbz", "raw"}, NEW target \in Targets, Start(source, target)
      PROVE  UbootType'
  BY <1>4 DEF Start, Idle, repoVars, ubootVars
<1>5. ASSUME NEW limit \in Limits, NEW partition \in Partitions \cup {0}, NEW asked \in Asked,
             ComputeSize(limit, partition, asked)
      PROVE  UbootType'
  BY <1>5 DEF ComputeSize, At, Idle, repoVars, ubootVars
<1>6. ASSUME NEW bytes \in FsSizes, ShrinkImage(bytes) PROVE UbootType'
  BY <1>6 DEF ShrinkImage, Rootfs, At, Idle, repoVars, ubootVars
<1>7. ASSUME NEW bytes \in FsSizes, CopyRaw(bytes) PROVE UbootType'
  BY <1>7 DEF CopyRaw, Rootfs, At, Idle, repoVars, ubootVars
<1>8. CASE PrepareTree
  BY <1>8 DEF PrepareTree, MesaInstalls, At, Idle, repoVars, ubootVars
<1>9. CASE CreateImage
  BY <1>9 DEF CreateImage, Rootfs, At, Idle, repoVars, ubootVars
<1>10. CASE MountImage
  BY <1>10 DEF MountImage, At, Idle, repoVars, ubootVars
<1>11. CASE FillImage
  BY <1>11 DEF FillImage, Rootfs, At, Idle, repoVars, ubootVars
<1>12. CASE AcceptImage
  BY <1>12 DEF AcceptImage, At, Idle, repoVars, ubootVars
<1>13. CASE MountRaw
  BY <1>13 DEF MountRaw, At, Idle, repoVars, ubootVars
<1>14. CASE InjectRaw
  BY <1>14 DEF InjectRaw, MesaInstalls, At, Idle, repoVars, ubootVars
<1>15. CASE CheckRaw
  BY <1>15 DEF CheckRaw, Rootfs, At, Idle, repoVars, ubootVars
<1>16. CASE CopyUboot
  BY <1>16 DEF CopyUboot, At, Idle, repoVars, ubootVars
<1>17. CASE WriteTarget
  BY <1>17 DEF WriteTarget, At, Idle, repoVars, ubootVars
<1>18. CASE Exit
  BY <1>18 DEF Exit, Cleanup, Rootfs, Idle, repoVars, ubootVars
<1>19. CASE CutCopy
  BY <1>19 DEF CutCopy, At, Idle, repoVars, ubootVars
<1>20. CASE UNCHANGED vars
  BY <1>20 DEF vars, Idle, ubootVars
<1> QED
  BY <1>1, <1>2, <1>3, <1>4, <1>5, <1>6, <1>7, <1>8, <1>9, <1>10, <1>11, <1>12, <1>13, <1>14, <1>15, <1>16, <1>17, <1>18, <1>19, <1>20
     DEF Next, UbootStep, TreeStep, RawStep

\* A write of one file leaves a set of files.
LEMMA RootfsWritten ==
  ASSUME RunType, FilesType, job \in Jobs,
         NEW state \in RootfsStates, NEW bytes \in Nat, Rootfs(state, bytes)
  PROVE  FilesType'
<1>1. [run |-> runs, state |-> state, bytes |-> bytes, mesa |-> job.mesa]
        \in [run : Nat, state : RootfsStates, bytes : Nat, mesa : BOOLEAN]
  <2>1. job.mesa \in BOOLEAN
    BY DEF Jobs
  <2>2. runs \in Nat
    BY RunsAssumption DEF RunType
  <2> QED
    BY <2>1, <2>2
<1> QED
  BY <1>1 DEF Rootfs, FilesType, Files

\* Likewise, when it is U-Boot's image that is written.
LEMMA UbootWritten ==
  ASSUME RunType, FilesType, UbootType, NEW state \in UbootStates,
         out' = [out EXCEPT !.uboot = [run |-> runs, image |-> uboot.image, state |-> state]]
  PROVE  FilesType'
<1>1. [run |-> runs, image |-> uboot.image, state |-> state]
        \in [run : Nat, image : Images \cup {NULL}, state : UbootStates]
  BY RunsAssumption DEF RunType, UbootType
<1> QED
  BY <1>1 DEF FilesType, Files

\* TypeOK: out.
LEMMA FilesTypeStep ==
  ASSUME RunType, JobType, UbootType, FilesType, [Next]_vars
  PROVE  FilesType'
<1> USE SizesAssumption
<1>1. CASE Idle /\ RepoStep /\ UNCHANGED <<ubootVars, runs, step, result, job, mounts, out>>
  BY <1>1 DEF FilesType
<1>2. ASSUME NEW payload \in Payloads, NEW page \in PageSizes, BuildUboot(payload, page)
      PROVE  FilesType'
  BY <1>2 DEF BuildUboot, FilesType
<1>3. ASSUME NEW payload \in Payloads, NEW page \in PageSizes, CutUboot(payload, page)
      PROVE  FilesType'
  BY <1>3 DEF CutUboot, FilesType
<1>4. ASSUME NEW source \in {"tbz", "raw"}, NEW target \in Targets, Start(source, target)
      PROVE  FilesType'
  BY <1>4 DEF Start, FilesType
<1>5. ASSUME NEW limit \in Limits, NEW partition \in Partitions \cup {0}, NEW asked \in Asked,
             ComputeSize(limit, partition, asked)
      PROVE  FilesType'
  BY <1>5 DEF ComputeSize, FilesType
<1>6. ASSUME NEW bytes \in FsSizes, ShrinkImage(bytes) PROVE FilesType'
  <2>1. job \in Jobs /\ out \in Files
    BY <1>6 DEF ShrinkImage, At, Idle, FilesType, JobType
  <2>2. bytes + 64 * MiB \in Nat
    BY <2>1 DEF Files, Jobs
  <2>3. Rootfs("checked", bytes + 64 * MiB) /\ "checked" \in RootfsStates
    BY <1>6 DEF ShrinkImage, RootfsStates
  <2> QED
    BY <2>1, <2>2, <2>3, RootfsWritten
<1>7. ASSUME NEW bytes \in FsSizes, CopyRaw(bytes) PROVE FilesType'
  <2>1. job \in Jobs /\ out \in Files
    BY <1>7 DEF CopyRaw, At, Idle, FilesType, JobType
  <2>2. bytes \in Nat
    BY <2>1 DEF Files, Jobs
  <2>3. Rootfs("copied", bytes) /\ "copied" \in RootfsStates
    BY <1>7 DEF CopyRaw, RootfsStates
  <2> QED
    BY <2>1, <2>2, <2>3, RootfsWritten
<1>8. CASE PrepareTree
  BY <1>8 DEF PrepareTree, FilesType
<1>9. CASE CreateImage
  <2>1. job \in Jobs /\ out \in Files
    BY <1>9 DEF CreateImage, At, Idle, FilesType, JobType
  <2>2. job.size * MiB \in Nat
    BY <2>1 DEF Files, Jobs
  <2>3. Rootfs("blank", job.size * MiB) /\ "blank" \in RootfsStates
    BY <1>9 DEF CreateImage, RootfsStates
  <2> QED
    BY <2>1, <2>2, <2>3, RootfsWritten
<1>10. CASE MountImage
  BY <1>10 DEF MountImage, FilesType
<1>11. CASE FillImage
  <2>1. job \in Jobs /\ out \in Files
    BY <1>11 DEF FillImage, At, Idle, FilesType, JobType
  <2>2. out.rootfs.bytes \in Nat
    BY <2>1 DEF Files, Jobs
  <2>3. Rootfs("filled", out.rootfs.bytes) /\ "filled" \in RootfsStates
    BY <1>11 DEF FillImage, RootfsStates
  <2> QED
    BY <2>1, <2>2, <2>3, RootfsWritten
<1>12. CASE AcceptImage
  BY <1>12 DEF AcceptImage, FilesType
<1>13. CASE MountRaw
  BY <1>13 DEF MountRaw, FilesType
<1>14. CASE InjectRaw
  BY <1>14 DEF InjectRaw, FilesType
<1>15. CASE CheckRaw
  <2>1. job \in Jobs /\ out \in Files
    BY <1>15 DEF CheckRaw, At, Idle, FilesType, JobType
  <2>2. out.rootfs.bytes \in Nat
    BY <2>1 DEF Files, Jobs
  <2>3. Rootfs(AfterCheck, out.rootfs.bytes) /\ AfterCheck \in RootfsStates
    BY <1>15 DEF CheckRaw, AfterCheck, RootfsStates
  <2> QED
    BY <2>1, <2>2, <2>3, RootfsWritten
<1>16. CASE CopyUboot
  <2>1. uboot.state \in UbootStates
    BY DEF UbootType
  <2> QED
    BY <1>16, <2>1, UbootWritten DEF CopyUboot
<1>17. CASE WriteTarget
  <2>1. job.target \in Targets /\ runs \in Nat
    BY <1>17, RunsAssumption DEF WriteTarget, At, Idle, JobType, Jobs, RunType
  <2>2. out' = [out EXCEPT !.target = [run |-> runs, part |-> job.target]]
    BY <1>17 DEF WriteTarget
  <2> QED
    BY <2>1, <2>2 DEF FilesType, Files
<1>18. CASE Exit
  <2>1. job \in Jobs /\ out \in Files
    BY <1>18 DEF Exit, JobType, FilesType
  <2>2. out.rootfs.bytes \in Nat /\ "erased" \in RootfsStates
    BY <2>1 DEF Files, RootfsStates
  <2>3. out' = out \/ Rootfs("erased", out.rootfs.bytes)
    BY <1>18 DEF Exit, Cleanup
  <2>4. CASE out' = out
    BY <2>4 DEF FilesType
  <2>5. CASE Rootfs("erased", out.rootfs.bytes)
    BY <2>1, <2>2, <2>5, RootfsWritten
  <2> QED
    BY <2>3, <2>4, <2>5
<1>19. CASE CutCopy
  <2>1. "part" \in UbootStates
    BY DEF UbootStates
  <2> QED
    BY <1>19, <2>1, UbootWritten DEF CutCopy
<1>20. CASE UNCHANGED vars
  BY <1>20 DEF vars, FilesType
<1> QED
  BY <1>1, <1>2, <1>3, <1>4, <1>5, <1>6, <1>7, <1>8, <1>9, <1>10, <1>11, <1>12, <1>13, <1>14, <1>15, <1>16, <1>17, <1>18, <1>19, <1>20
     DEF Next, UbootStep, TreeStep, RawStep

\* TypeOK: the repository.  Every other step leaves it alone.
LEMMA RepoTypeStep ==
  ASSUME RepoTypeOK, [Next]_vars
  PROVE  RepoTypeOK'
<1> USE DEF RepoTypeOK
<1>1. CASE RepoStep
  <2>1. ASSUME NEW name \in Names, Publish(name) PROVE RepoTypeOK'
    BY <2>1 DEF Publish
  <2>2. ASSUME NEW name \in Names, PackMissing(name) PROVE RepoTypeOK'
    BY <2>2 DEF PackMissing
  <2>3. CASE ReadPrimary
    BY <2>3 DEF ReadPrimary
  <2>4. CASE KeepLocal
    BY <2>4 DEF KeepLocal
  <2>5. ASSUME NEW force \in BOOLEAN, Fetch(force) PROVE RepoTypeOK'
    <3>1. listed \in Names
      BY <2>5 DEF Fetch
    <3>2. PICK file : file \in {repo[listed], "part", "whole"}
                      /\ repo' = [repo EXCEPT ![listed] = file]
      BY <2>5 DEF Fetch
    <3>3. file \in {"none", "part", "whole"}
      BY <3>1, <3>2
    <3> QED
      BY <2>5, <3>2, <3>3 DEF Fetch
  <2>6. CASE RunMic
    BY <2>6 DEF RunMic
  <2> QED
    BY <1>1, <2>1, <2>2, <2>3, <2>4, <2>5, <2>6 DEF RepoStep
<1>2. CASE UNCHANGED repoVars
  BY <1>2 DEF repoVars
<1>3. RepoStep \/ UNCHANGED repoVars
  BY DEF Next, UbootStep, TreeStep, RawStep, vars, BuildUboot, CutUboot, Start, PrepareTree,
     ComputeSize, CreateImage, MountImage, FillImage, ShrinkImage, AcceptImage, CopyRaw,
     MountRaw, InjectRaw, CheckRaw, CopyUboot, WriteTarget, Exit, CutCopy
<1> QED
  BY <1>1, <1>2, <1>3

\* The step lemmas of the parts together.
LEMMA TypeStep ==
  ASSUME TypeOK, [Next]_vars
  PROVE  TypeOK'
<1>1. (TypeOK <=> RepoTypeOK /\ RunType /\ MountType /\ JobType /\ UbootType /\ FilesType)'
  BY DEF TypeOK, RunType, MountType, JobType, UbootType, FilesType
<1> QED
  BY <1>1, TypeParts, RepoTypeStep, RunStep, MountStep, JobTypeStep, UbootTypeStep,
     FilesTypeStep

\* JobInv: Mesa and the maximum stay as they were found.
LEMMA JobStep ==
  ASSUME RunType, JobType, JobInv, [Next]_vars
  PROVE  JobInv'
<1> USE SizesAssumption DEF JobInv, RunType, JobType, Jobs
<1>1. CASE Idle /\ RepoStep /\ UNCHANGED <<ubootVars, runs, step, result, job, mounts, out>>
  BY <1>1 DEF Idle, ubootVars
<1>2. ASSUME NEW payload \in Payloads, NEW page \in PageSizes, BuildUboot(payload, page)
      PROVE  JobInv'
  BY <1>2 DEF BuildUboot, Idle, repoVars
<1>3. ASSUME NEW payload \in Payloads, NEW page \in PageSizes, CutUboot(payload, page)
      PROVE  JobInv'
  BY <1>3 DEF CutUboot, Idle, repoVars
<1>4. ASSUME NEW source \in {"tbz", "raw"}, NEW target \in Targets, Start(source, target)
      PROVE  JobInv'
  <2>1. job'.partition = 0 /\ step' \in {"tbz", "raw"}
    BY <1>4 DEF Start
  <2> QED
    BY <2>1
<1>5. ASSUME NEW limit \in Limits, NEW partition \in Partitions \cup {0}, NEW asked \in Asked,
             ComputeSize(limit, partition, asked)
      PROVE  JobInv'
  <2>1. partition \in Nat /\ (partition > 0 => limit = 0)
    BY <1>5 DEF ComputeSize
  <2>2. partition > 0 => MaxMb(limit, partition) = Usable(partition)
    BY <2>1 DEF MaxMb
  <2>3. job \in Jobs /\ job.mesa /\ step' = "sized"
    BY <1>5 DEF ComputeSize, At, Idle
  <2>4. /\ job'.mesa = job.mesa /\ job'.partition = partition
        /\ job'.max = MaxMb(limit, partition)
    BY <1>5, <2>3 DEF ComputeSize
  <2> QED
    BY <2>2, <2>3, <2>4
<1>6. ASSUME NEW bytes \in FsSizes, ShrinkImage(bytes) PROVE JobInv'
  BY <1>6 DEF ShrinkImage, Rootfs, At, Idle, repoVars, ubootVars
<1>7. ASSUME NEW bytes \in FsSizes, CopyRaw(bytes) PROVE JobInv'
  BY <1>7 DEF CopyRaw, Rootfs, At, Idle, repoVars, ubootVars
<1>8. CASE PrepareTree
  <2>1. step' = "tree" /\ job'.mesa
    BY <1>8 DEF PrepareTree, At, MesaInstalls, Idle
  <2> QED
    BY <2>1
<1>9. CASE CreateImage
  BY <1>9 DEF CreateImage, Rootfs, At, Idle, repoVars, ubootVars
<1>10. CASE MountImage
  BY <1>10 DEF MountImage, At, Idle, repoVars, ubootVars
<1>11. CASE FillImage
  BY <1>11 DEF FillImage, Rootfs, At, Idle, repoVars, ubootVars
<1>12. CASE AcceptImage
  BY <1>12 DEF AcceptImage, At, Idle, repoVars, ubootVars
<1>13. CASE MountRaw
  BY <1>13 DEF MountRaw, At, Idle, repoVars, ubootVars
<1>14. CASE InjectRaw
  <2>1. step = "rawMounted" /\ step' = "injected" /\ job \in Jobs /\ job.partition = 0
    BY <1>14 DEF InjectRaw, At, Idle
  <2>2. job'.mesa /\ job'.partition = job.partition
    BY <1>14, <2>1 DEF InjectRaw, MesaInstalls
  <2> QED
    BY <2>1, <2>2
<1>15. CASE CheckRaw
  BY <1>15 DEF CheckRaw, Rootfs, At, Idle, repoVars, ubootVars
<1>16. CASE CopyUboot
  BY <1>16 DEF CopyUboot, At, Idle, repoVars, ubootVars
<1>17. CASE WriteTarget
  BY <1>17 DEF WriteTarget, At, Idle, repoVars, ubootVars
<1>18. CASE Exit
  BY <1>18 DEF Exit, Cleanup, Rootfs, Idle, repoVars, ubootVars
<1>19. CASE CutCopy
  BY <1>19 DEF CutCopy, At, Idle, repoVars, ubootVars
<1>20. CASE UNCHANGED vars
  BY <1>20 DEF vars, Idle, ubootVars
<1> QED
  BY <1>1, <1>2, <1>3, <1>4, <1>5, <1>6, <1>7, <1>8, <1>9, <1>10, <1>11, <1>12, <1>13, <1>14, <1>15, <1>16, <1>17, <1>18, <1>19, <1>20
     DEF Next, UbootStep, TreeStep, RawStep

\* ImageInv: every write of the image is this run's.
LEMMA ImageStep ==
  ASSUME RunType, MountType, FilesType, JobInv, ImageInv, [Next]_vars
  PROVE  ImageInv'
<1> USE SizesAssumption DEF ImageInv, JobInv, RunType, FilesType, Files
<1>1. CASE Idle /\ RepoStep /\ UNCHANGED <<ubootVars, runs, step, result, job, mounts, out>>
  BY <1>1 DEF Idle, ubootVars
<1>2. ASSUME NEW payload \in Payloads, NEW page \in PageSizes, BuildUboot(payload, page)
      PROVE  ImageInv'
  BY <1>2 DEF BuildUboot, Idle, repoVars
<1>3. ASSUME NEW payload \in Payloads, NEW page \in PageSizes, CutUboot(payload, page)
      PROVE  ImageInv'
  BY <1>3 DEF CutUboot, Idle, repoVars
<1>4. ASSUME NEW source \in {"tbz", "raw"}, NEW target \in Targets, Start(source, target)
      PROVE  ImageInv'
  BY <1>4 DEF Start, Idle, repoVars, ubootVars
<1>5. ASSUME NEW limit \in Limits, NEW partition \in Partitions \cup {0}, NEW asked \in Asked,
             ComputeSize(limit, partition, asked)
      PROVE  ImageInv'
  BY <1>5 DEF ComputeSize, At, Idle, repoVars, ubootVars
<1>6. ASSUME NEW bytes \in FsSizes, ShrinkImage(bytes) PROVE ImageInv'
  <2>1. out'.rootfs = [run |-> runs, state |-> "checked", bytes |-> bytes + 64 * MiB, mesa |-> job.mesa]
    BY <1>6 DEF ShrinkImage, Rootfs
  <2>2. 64 * MiB < bytes + 64 * MiB
    BY SizesAssumption
  <2> QED
    BY <1>6, <2>1, <2>2 DEF ShrinkImage, At
<1>7. ASSUME NEW bytes \in FsSizes, CopyRaw(bytes) PROVE ImageInv'
  <2>1. out'.rootfs = [run |-> runs, state |-> "copied", bytes |-> bytes, mesa |-> job.mesa]
    BY <1>7 DEF CopyRaw, Rootfs
  <2> QED
    BY <1>7, <2>1 DEF CopyRaw, At
<1>8. CASE PrepareTree
  BY <1>8 DEF PrepareTree, MesaInstalls, At, Idle, repoVars, ubootVars
<1>9. CASE CreateImage
  <2>1. out'.rootfs = [run |-> runs, state |-> "blank", bytes |-> job.size * MiB, mesa |-> job.mesa]
    BY <1>9 DEF CreateImage, Rootfs
  <2> QED
    BY <1>9, <2>1 DEF CreateImage, At
<1>10. CASE MountImage
  BY <1>10 DEF MountImage, At, Idle, repoVars, ubootVars
<1>11. CASE FillImage
  <2>1. out'.rootfs = [run |-> runs, state |-> "filled", bytes |-> out.rootfs.bytes, mesa |-> job.mesa]
    BY <1>11 DEF FillImage, Rootfs
  <2> QED
    BY <1>11, <2>1 DEF FillImage, At
<1>12. CASE AcceptImage
  BY <1>12 DEF AcceptImage, At, Idle, repoVars, ubootVars
<1>13. CASE MountRaw
  BY <1>13 DEF MountRaw, At, Idle, repoVars, ubootVars
<1>14. CASE InjectRaw
  BY <1>14 DEF InjectRaw, MesaInstalls, At, Idle, repoVars, ubootVars
<1>15. CASE CheckRaw
  <2>1. out'.rootfs = [run |-> runs, state |-> AfterCheck, bytes |-> out.rootfs.bytes, mesa |-> job.mesa]
    BY <1>15 DEF CheckRaw, Rootfs
  <2>2. AfterCheck = IF mounts' = {} THEN "checked" ELSE "spoilt"
    <3>1. mounts' = mounts \ {runs}
      BY <1>15 DEF CheckRaw
    <3>2. mounts \subseteq {runs} <=> mounts' = {}
      BY <3>1
    <3> QED
      BY <3>2 DEF AfterCheck
  <2>3. job.mesa /\ step' = "rootfs" /\ runs' = runs
    BY <1>15 DEF CheckRaw, At
  <2> QED
    BY <2>1, <2>2, <2>3
<1>16. CASE CopyUboot
  <2>1. out'.rootfs = out.rootfs
    BY <1>16 DEF CopyUboot
  <2> QED
    BY <1>16, <2>1 DEF CopyUboot, At
<1>17. CASE WriteTarget
  BY <1>17 DEF WriteTarget, At
<1>18. CASE Exit
  BY <1>18 DEF Exit
<1>19. CASE CutCopy
  BY <1>19 DEF CutCopy, At
<1>20. CASE UNCHANGED vars
  BY <1>20 DEF vars, Idle, ubootVars
<1> QED
  BY <1>1, <1>2, <1>3, <1>4, <1>5, <1>6, <1>7, <1>8, <1>9, <1>10, <1>11, <1>12, <1>13, <1>14, <1>15, <1>16, <1>17, <1>18, <1>19, <1>20
     DEF Next, UbootStep, TreeStep, RawStep

\* UbootInv: only builds write the image, those that are accepted.
LEMMA UbootStepInv ==
  ASSUME RunType, UbootType, FilesType, UbootInv, [Next]_vars
  PROVE  UbootInv'
<1> USE SizesAssumption DEF UbootInv, BootImageReads, RunType, UbootType, UbootStates, FilesType, Files
<1>1. CASE Idle /\ RepoStep /\ UNCHANGED <<ubootVars, runs, step, result, job, mounts, out>>
  BY <1>1 DEF Idle, ubootVars
<1>2. ASSUME NEW payload \in Payloads, NEW page \in PageSizes, BuildUboot(payload, page)
      PROVE  UbootInv'
  <2>1. Readable(BootImage(payload, page))
    BY <1>2, WrittenImagesRead DEF BuildUboot
  <2> QED
    BY <1>2, <2>1 DEF BuildUboot, Idle
<1>3. ASSUME NEW payload \in Payloads, NEW page \in PageSizes, CutUboot(payload, page)
      PROVE  UbootInv'
  BY <1>3 DEF CutUboot, Idle
<1>4. ASSUME NEW source \in {"tbz", "raw"}, NEW target \in Targets, Start(source, target)
      PROVE  UbootInv'
  BY <1>4 DEF Start, Idle, repoVars, ubootVars
<1>5. ASSUME NEW limit \in Limits, NEW partition \in Partitions \cup {0}, NEW asked \in Asked,
             ComputeSize(limit, partition, asked)
      PROVE  UbootInv'
  BY <1>5 DEF ComputeSize, At, Idle, repoVars, ubootVars
<1>6. ASSUME NEW bytes \in FsSizes, ShrinkImage(bytes) PROVE UbootInv'
  BY <1>6 DEF ShrinkImage, Rootfs, At, Idle, repoVars, ubootVars
<1>7. ASSUME NEW bytes \in FsSizes, CopyRaw(bytes) PROVE UbootInv'
  BY <1>7 DEF CopyRaw, Rootfs, At, Idle, repoVars, ubootVars
<1>8. CASE PrepareTree
  BY <1>8 DEF PrepareTree, MesaInstalls, At, Idle, repoVars, ubootVars
<1>9. CASE CreateImage
  BY <1>9 DEF CreateImage, Rootfs, At, Idle, repoVars, ubootVars
<1>10. CASE MountImage
  BY <1>10 DEF MountImage, At, Idle, repoVars, ubootVars
<1>11. CASE FillImage
  BY <1>11 DEF FillImage, Rootfs, At, Idle, repoVars, ubootVars
<1>12. CASE AcceptImage
  BY <1>12 DEF AcceptImage, At, Idle, repoVars, ubootVars
<1>13. CASE MountRaw
  BY <1>13 DEF MountRaw, At, Idle, repoVars, ubootVars
<1>14. CASE InjectRaw
  BY <1>14 DEF InjectRaw, MesaInstalls, At, Idle, repoVars, ubootVars
<1>15. CASE CheckRaw
  BY <1>15 DEF CheckRaw, Rootfs, At, Idle, repoVars, ubootVars
<1>16. CASE CopyUboot
  <2>1. out'.uboot.run = runs
    BY <1>16 DEF CopyUboot
  <2> QED
    BY <1>16, <2>1 DEF CopyUboot, At, Idle, ubootVars, repoVars
<1>17. CASE WriteTarget
  BY <1>17 DEF WriteTarget, At, Idle, repoVars, ubootVars
<1>18. CASE Exit
  BY <1>18 DEF Exit, Idle, ubootVars
<1>19. CASE CutCopy
  BY <1>19 DEF CutCopy, At, Idle, repoVars, ubootVars
<1>20. CASE UNCHANGED vars
  BY <1>20 DEF vars, Idle, ubootVars
<1> QED
  BY <1>1, <1>2, <1>3, <1>4, <1>5, <1>6, <1>7, <1>8, <1>9, <1>10, <1>11, <1>12, <1>13, <1>14, <1>15, <1>16, <1>17, <1>18, <1>19, <1>20
     DEF Next, UbootStep, TreeStep, RawStep

\* FilesInOrder: each file is written by the run that wrote the ones before.
LEMMA FilesInOrderStep ==
  ASSUME RunType, FilesType, ImageInv, UbootInv, FilesInOrder, [Next]_vars
  PROVE  FilesInOrder'
<1> USE SizesAssumption DEF FilesInOrder, RunType, FilesType, Files
<1>1. CASE Idle /\ RepoStep /\ UNCHANGED <<ubootVars, runs, step, result, job, mounts, out>>
  BY <1>1 DEF Idle, ubootVars
<1>2. ASSUME NEW payload \in Payloads, NEW page \in PageSizes, BuildUboot(payload, page)
      PROVE  FilesInOrder'
  BY <1>2 DEF BuildUboot, Idle, repoVars
<1>3. ASSUME NEW payload \in Payloads, NEW page \in PageSizes, CutUboot(payload, page)
      PROVE  FilesInOrder'
  BY <1>3 DEF CutUboot, Idle, repoVars
<1>4. ASSUME NEW source \in {"tbz", "raw"}, NEW target \in Targets, Start(source, target)
      PROVE  FilesInOrder'
  BY <1>4 DEF Start, Idle, repoVars, ubootVars
<1>5. ASSUME NEW limit \in Limits, NEW partition \in Partitions \cup {0}, NEW asked \in Asked,
             ComputeSize(limit, partition, asked)
      PROVE  FilesInOrder'
  BY <1>5 DEF ComputeSize, At, Idle, repoVars, ubootVars
<1>6. ASSUME NEW bytes \in FsSizes, ShrinkImage(bytes) PROVE FilesInOrder'
  <2>1. out'.rootfs.run = runs /\ out'.uboot = out.uboot /\ out'.target = out.target
    BY <1>6 DEF ShrinkImage, Rootfs
  <2> QED
    BY <1>6, <2>1 DEF ShrinkImage
<1>7. ASSUME NEW bytes \in FsSizes, CopyRaw(bytes) PROVE FilesInOrder'
  <2>1. out'.rootfs.run = runs /\ out'.uboot = out.uboot /\ out'.target = out.target
    BY <1>7 DEF CopyRaw, Rootfs
  <2> QED
    BY <1>7, <2>1 DEF CopyRaw
<1>8. CASE PrepareTree
  BY <1>8 DEF PrepareTree, MesaInstalls, At, Idle, repoVars, ubootVars
<1>9. CASE CreateImage
  <2>1. out'.rootfs.run = runs /\ out'.uboot = out.uboot /\ out'.target = out.target
    BY <1>9 DEF CreateImage, Rootfs
  <2> QED
    BY <1>9, <2>1 DEF CreateImage
<1>10. CASE MountImage
  BY <1>10 DEF MountImage, At, Idle, repoVars, ubootVars
<1>11. CASE FillImage
  <2>1. out'.rootfs.run = runs /\ out'.uboot = out.uboot /\ out'.target = out.target
    BY <1>11 DEF FillImage, Rootfs
  <2> QED
    BY <1>11, <2>1 DEF FillImage
<1>12. CASE AcceptImage
  BY <1>12 DEF AcceptImage, At, Idle, repoVars, ubootVars
<1>13. CASE MountRaw
  BY <1>13 DEF MountRaw, At, Idle, repoVars, ubootVars
<1>14. CASE InjectRaw
  BY <1>14 DEF InjectRaw, MesaInstalls, At, Idle, repoVars, ubootVars
<1>15. CASE CheckRaw
  <2>1. out'.rootfs.run = runs /\ out'.uboot = out.uboot /\ out'.target = out.target
    BY <1>15 DEF CheckRaw, Rootfs
  <2> QED
    BY <1>15, <2>1 DEF CheckRaw
<1>16. CASE CopyUboot
  <2>1. out'.uboot.run = runs /\ out'.rootfs = out.rootfs /\ out'.target = out.target
        /\ runs' = runs /\ step = "rootfs"
    BY <1>16 DEF CopyUboot, At
  <2>2. out.rootfs.run = runs
    BY <2>1 DEF ImageInv
  <2> QED
    BY <2>1, <2>2
<1>17. CASE WriteTarget
  <2>1. out'.target.run = runs /\ out'.rootfs = out.rootfs /\ out'.uboot = out.uboot
        /\ runs' = runs /\ step = "uboot"
    BY <1>17 DEF WriteTarget, At
  <2>2. out.uboot.run = runs
    BY <2>1 DEF UbootInv
  <2> QED
    BY <2>1, <2>2
<1>18. CASE Exit
  <2>1. CASE out' = out
    BY <1>18, <2>1 DEF Exit
  <2>2. CASE Rootfs("erased", out.rootfs.bytes)
    <3>1. out'.rootfs.run = runs /\ out'.uboot = out.uboot /\ out'.target = out.target
      BY <2>2 DEF Rootfs
    <3> QED
      BY <1>18, <3>1 DEF Exit
  <2> QED
    BY <1>18, <2>1, <2>2 DEF Exit, Cleanup
<1>19. CASE CutCopy
  <2>1. out'.uboot.run = runs /\ out'.rootfs = out.rootfs /\ out'.target = out.target
        /\ runs' = runs /\ step = "rootfs"
    BY <1>19 DEF CutCopy, At
  <2>2. out.rootfs.run = runs
    BY <2>1 DEF ImageInv
  <2> QED
    BY <2>1, <2>2
<1>20. CASE UNCHANGED vars
  BY <1>20 DEF vars, Idle, ubootVars
<1> QED
  BY <1>1, <1>2, <1>3, <1>4, <1>5, <1>6, <1>7, <1>8, <1>9, <1>10, <1>11, <1>12, <1>13, <1>14, <1>15, <1>16, <1>17, <1>18, <1>19, <1>20
     DEF Next, UbootStep, TreeStep, RawStep

\* ReadyRootIsWhole: the last step of a run finds what the steps before it did.
LEMMA ReadyStep ==
  ASSUME RunType, MountType, FilesType, ImageInv, UbootInv, ReadyRootIsWhole, [Next]_vars
  PROVE  ReadyRootIsWhole'
<1> USE SizesAssumption DEF ReadyRootIsWhole, RunType, Idle
<1>1. CASE Idle /\ RepoStep /\ UNCHANGED <<ubootVars, runs, step, result, job, mounts, out>>
  BY <1>1
<1>2. ASSUME NEW payload \in Payloads, NEW page \in PageSizes, BuildUboot(payload, page)
      PROVE  ReadyRootIsWhole'
  BY <1>2 DEF BuildUboot
<1>3. ASSUME NEW payload \in Payloads, NEW page \in PageSizes, CutUboot(payload, page)
      PROVE  ReadyRootIsWhole'
  BY <1>3 DEF CutUboot
<1>4. ASSUME NEW source \in {"tbz", "raw"}, NEW target \in Targets, Start(source, target)
      PROVE  ReadyRootIsWhole'
  BY <1>4 DEF Start
<1>5. ASSUME NEW limit \in Limits, NEW partition \in Partitions \cup {0}, NEW asked \in Asked,
             ComputeSize(limit, partition, asked)
      PROVE  ReadyRootIsWhole'
  BY <1>5 DEF ComputeSize, At
<1>6. ASSUME NEW bytes \in FsSizes, ShrinkImage(bytes) PROVE ReadyRootIsWhole'
  BY <1>6 DEF ShrinkImage, At
<1>7. ASSUME NEW bytes \in FsSizes, CopyRaw(bytes) PROVE ReadyRootIsWhole'
  BY <1>7 DEF CopyRaw, At
<1>8. CASE PrepareTree
  BY <1>8 DEF PrepareTree, At
<1>9. CASE CreateImage
  BY <1>9 DEF CreateImage, At
<1>10. CASE MountImage
  BY <1>10 DEF MountImage, At
<1>11. CASE FillImage
  BY <1>11 DEF FillImage, At
<1>12. CASE AcceptImage
  BY <1>12 DEF AcceptImage, At
<1>13. CASE MountRaw
  BY <1>13 DEF MountRaw, At
<1>14. CASE InjectRaw
  BY <1>14 DEF InjectRaw, At
<1>15. CASE CheckRaw
  BY <1>15 DEF CheckRaw, At
<1>16. CASE CopyUboot
  BY <1>16 DEF CopyUboot, At
<1>17. CASE WriteTarget
  <2>1. step = "uboot" /\ runs' = runs /\ mounts' = mounts
        /\ out' = [out EXCEPT !.target = [run |-> runs, part |-> job.target]]
    BY <1>17 DEF WriteTarget, At
  <2>2. out'.target.run = runs /\ out'.rootfs = out.rootfs /\ out'.uboot = out.uboot
    BY <2>1 DEF FilesType, Files
  <2>3. /\ out.rootfs.run = runs /\ out.rootfs.mesa
        /\ out.rootfs.state = IF mounts = {} THEN "checked" ELSE "spoilt"
    BY <2>1 DEF ImageInv
  <2>4. out.uboot.run = runs
    BY <2>1 DEF UbootInv
  <2>5. runs \notin mounts
    BY <2>1 DEF MountType
  <2> QED
    BY <2>1, <2>2, <2>3, <2>4, <2>5
<1>18. CASE Exit
  BY <1>18 DEF Exit
<1>19. CASE CutCopy
  BY <1>19 DEF CutCopy, At
<1>20. CASE UNCHANGED vars
  BY <1>20 DEF vars
<1> QED
  BY <1>1, <1>2, <1>3, <1>4, <1>5, <1>6, <1>7, <1>8, <1>9, <1>10, <1>11, <1>12, <1>13, <1>14, <1>15, <1>16, <1>17, <1>18, <1>19, <1>20
     DEF Next, UbootStep, TreeStep, RawStep

\* FitsPartition: what is accepted has its reserve, and the size of a raw image
\* was never asked for.
LEMMA FitsStep ==
  ASSUME RunType, JobType, FilesType, JobInv, ImageInv, FitsPartition, [Next]_vars
  PROVE  FitsPartition'
<1> USE SizesAssumption DEF FitsPartition, RunType, Idle
<1>1. CASE Idle /\ RepoStep /\ UNCHANGED <<ubootVars, runs, step, result, job, mounts, out>>
  BY <1>1
<1>2. ASSUME NEW payload \in Payloads, NEW page \in PageSizes, BuildUboot(payload, page)
      PROVE  FitsPartition'
  BY <1>2 DEF BuildUboot
<1>3. ASSUME NEW payload \in Payloads, NEW page \in PageSizes, CutUboot(payload, page)
      PROVE  FitsPartition'
  BY <1>3 DEF CutUboot
<1>4. ASSUME NEW source \in {"tbz", "raw"}, NEW target \in Targets, Start(source, target)
      PROVE  FitsPartition'
  BY <1>4 DEF Start
<1>5. ASSUME NEW limit \in Limits, NEW partition \in Partitions \cup {0}, NEW asked \in Asked,
             ComputeSize(limit, partition, asked)
      PROVE  FitsPartition'
  BY <1>5 DEF ComputeSize, At
<1>6. ASSUME NEW bytes \in FsSizes, ShrinkImage(bytes) PROVE FitsPartition'
  BY <1>6 DEF ShrinkImage, At
<1>7. ASSUME NEW bytes \in FsSizes, CopyRaw(bytes) PROVE FitsPartition'
  BY <1>7 DEF CopyRaw, At
<1>8. CASE PrepareTree
  BY <1>8 DEF PrepareTree, At
<1>9. CASE CreateImage
  BY <1>9 DEF CreateImage, At
<1>10. CASE MountImage
  BY <1>10 DEF MountImage, At
<1>11. CASE FillImage
  BY <1>11 DEF FillImage, At
<1>12. CASE AcceptImage
  <2>1. step = "shrunk" /\ job' = job /\ out' = out /\ job \in Jobs /\ out \in Files
        /\ ~TooLarge(bytes_to_mb(out.rootfs.bytes), job.max)
    BY <1>12 DEF AcceptImage, At, JobType, FilesType
  <2>2. out.rootfs.bytes \in Nat /\ job.partition \in Nat /\ 64 * MiB < out.rootfs.bytes
    BY <2>1 DEF Jobs, Files, ImageInv
  <2>3. CASE job.partition > 0
    <3>1. job.max = Usable(job.partition)
      BY <2>1, <2>3 DEF JobInv
    <3> QED
      BY <2>1, <2>2, <2>3, <3>1, UsableFits
  <2>4. CASE ~(job.partition > 0)
    BY <2>1, <2>4
  <2> QED
    BY <2>3, <2>4
<1>13. CASE MountRaw
  BY <1>13 DEF MountRaw, At
<1>14. CASE InjectRaw
  BY <1>14 DEF InjectRaw, At
<1>15. CASE CheckRaw
  <2>1. job' = job /\ job.partition = 0
    BY <1>15 DEF CheckRaw, At, JobInv
  <2> QED
    BY <2>1
<1>16. CASE CopyUboot
  <2>1. out'.rootfs = out.rootfs
    BY <1>16 DEF CopyUboot, FilesType, Files
  <2> QED
    BY <1>16, <2>1 DEF CopyUboot, At
<1>17. CASE WriteTarget
  BY <1>17 DEF WriteTarget, At
<1>18. CASE Exit
  BY <1>18 DEF Exit
<1>19. CASE CutCopy
  BY <1>19 DEF CutCopy, At
<1>20. CASE UNCHANGED vars
  BY <1>20 DEF vars
<1> QED
  BY <1>1, <1>2, <1>3, <1>4, <1>5, <1>6, <1>7, <1>8, <1>9, <1>10, <1>11, <1>12, <1>13, <1>14, <1>15, <1>16, <1>17, <1>18, <1>19, <1>20
     DEF Next, UbootStep, TreeStep, RawStep

-----------------------------------------------------------------------------
(* The theorems.                                                           *)

\* The inductive invariant holds of the specification.
THEOREM Invariance == Spec => []IInv
<1>1. ASSUME IInv, [Next]_vars
      PROVE  IInv'
  <2>1. RunType /\ MountType /\ JobType /\ UbootType /\ FilesType
    BY <1>1, TypeParts DEF IInv
  <2>2. TypeOK'
    BY <1>1, TypeStep DEF IInv
  <2>3. JobInv'
    BY <1>1, <2>1, JobStep DEF IInv
  <2>4. ImageInv'
    BY <1>1, <2>1, ImageStep DEF IInv
  <2>5. UbootInv'
    BY <1>1, <2>1, UbootStepInv DEF IInv
  <2>6. FilesInOrder'
    BY <1>1, <2>1, FilesInOrderStep DEF IInv
  <2>7. ReadyRootIsWhole'
    BY <1>1, <2>1, ReadyStep DEF IInv
  <2>8. FitsPartition'
    BY <1>1, <2>1, FitsStep DEF IInv
  <2> QED
    BY <2>2, <2>3, <2>4, <2>5, <2>6, <2>7, <2>8 DEF IInv
<1> QED
  BY InitIInv, <1>1, PTL DEF Spec

\* Every variable keeps its type, and the mount of the run under way belongs to
\* its steps, however many runs before it could not unmount theirs.
THEOREM TypeCorrect == Spec => []TypeOK
<1>1. IInv => TypeOK
  BY DEF IInv
<1> QED
  BY <1>1, Invariance, PTL

\* build-uboot.sh: an image whose write was not cut off can be read.
THEOREM BootImage_Reads == Spec => []BootImageReads
<1>1. IInv => BootImageReads
  BY DEF IInv, UbootInv
<1> QED
  BY <1>1, Invariance, PTL

\* pack-flashables.sh: an announced set is of one run, and its root image has
\* Mesa, is checked and not mounted by that run; only where an earlier run's
\* umount failed can another mount have written to it after its check.
THEOREM ReadyRoot_IsWhole == Spec => []ReadyRootIsWhole
<1>1. IInv => ReadyRootIsWhole
  BY DEF IInv
<1> QED
  BY <1>1, Invariance, PTL

\* pack-flashables.sh: what is accepted fits, for any sizes and limits.
THEOREM Fits_Partition == Spec => []FitsPartition
<1>1. IInv => FitsPartition
  BY DEF IInv
<1> QED
  BY <1>1, Invariance, PTL

\* pack-flashables.sh: over any number of runs the files are in order.
THEOREM Files_InOrder == Spec => []FilesInOrder
<1>1. IInv => FilesInOrder
  BY DEF IInv
<1> QED
  BY <1>1, Invariance, PTL
=============================================================================
