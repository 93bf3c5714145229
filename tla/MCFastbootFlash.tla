-------------------------- MODULE MCFastbootFlash --------------------------
(* Two partitions for the root file system; the files of either layout, of *)
(* both, or an incomplete set, some of them compressed.  The model is      *)
(* finite without further bounds.                                          *)
EXTENDS FastbootFlash

TwoTargets == {"linux", "userdata"}
Legacy == {"silicium", "esp", "bootfs"}
Kit(given, packed) ==
    [f \in Files |-> IF f \in given THEN "raw" ELSE IF f \in packed THEN "xz" ELSE "none"]
SomeKits == {Kit({}, {"uboot", "rootfs"}), Kit(Legacy \cup {"uboot"}, {"rootfs"}),
             Kit({"esp", "bootfs", "rootfs"}, {"silicium"}),
             Kit({"silicium", "rootfs"}, {}), Kit({"uboot"}, {})}

AllFit == [f \in Files |-> {}]
\* Everything fits; or one file of either layout is too large for its
\* partition, the root image for one of the two it may go to.
SomeMisfits == {AllFit, [AllFit EXCEPT !["rootfs"] = {"linux"}],
                [AllFit EXCEPT !["uboot"] = Slots],
                [AllFit EXCEPT !["esp"] = {"rawdump"}]}
=============================================================================
