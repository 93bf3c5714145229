# Verification of sailfish-pipa

TLA+ models of the parts of the Sailfish OS port to the Xiaomi Pad 6 ("pipa") that
have behaviour worth checking, TLC configurations that check them on small
instances, and TLAPS proofs for every instance. `PROJECT.json` lists the runs, the
source lines every definition translates, and the theorems.

    tlc -workers 2 -config SscSafety.cfg MCSscAdaptors.tla     # one run
    tlapm SscAdaptorsProofs.tla                                # the proofs

## Inventory of the repository

| Component | Where | State it keeps | Hard behaviour | Modelled by |
|---|---|---|---|---|
| SSC sensor adaptors (accelerometer, ALS) | `pkgs/sensorfw-qt5-libssc/src` | sensor object, handler, timer, open flag, ring buffer | callbacks from a GLib context shared by two objects, synchronous calls that wait in it, failures half way, a service that restarts | `SscAdaptors`, `SensorFeed` |
| WLAN address | `droid-config-pipa/sparse/usr/bin/droid/persist-wlan-macaddr.sh`, `wlan-module-load.service`, `10-wlp.link` | saved file, `.link` file, interface, ConnMan profiles | udev racing the script, time-outs, restarts, power loss with unsynced data | `WlanMac` |
| CI workflows | `.github/workflows` | branch, cache, GitHub Pages, runs, flash set | two workflows reading and writing one site, cancellation, events, cache keys | `CiPipeline` |
| Fastboot flashing | `flash/flash.sh` | files in the directory, partitions | failing and interrupted commands, re-runs | `FastbootFlash` |
| libssc's wire protocol | `pkgs/libssc/generated` | structs, descriptors, packed buffers | versions of the protocol that differ, types not named on the wire, parts that are missing | `SscMessages`, `ProtobufC`, `SscExchange` |
| Image packing | `flash/pack-flashables.sh` | image, mount, flash set | size arithmetic, clean-up, runs in one directory | `FlashSet` |
| U-Boot's boot image | `u-boot-pipa/mkbootimg.py`, `build-uboot.sh` | image file | layout arithmetic, refused and cut-off writes | `MkBootImg`, `FlashSet` |
| Seeding of the RPM repository | `scripts/seed-adaptation-from-pages.sh`, `build-rootfs.yml` | RPM directory, site | partial downloads, a deployment in between | `AdaptationRepo` |
| Site staging, kernel, firmware and Mesa staging | `scripts/stage-*.sh`, `kernel-adaptation-pipa`, `firmware-pipa`, `mesa-pipa` | files | cached downloads | not modelled |
| Bluetooth address | `start-bluetooth-adapter.sh`, `droid-get-bt-address.sh` | saved files | a write in place, as for WLAN | not modelled |
| Boot chain of the device | units and udev rules under `droid-config-pipa/sparse` | unit states | ordering, conditions | not modelled |
| Jolla flash script | `droid-configs-device/sparse/boot/flash.sh` | operations, retries | vendored, not used by this port | not modelled |
| Package builds, image description, configuration | `pkgs`, `image-ci`, `bootstrap`, patterns | none | none | not modelled: they compile, package or declare |
| Vendored configuration | `droid-configs-device`, `pkgs/libssc/include` | none | none | not modelled: not this project's logic |

How they interact: the CI builds the RPMs and the image (CI workflows, seeding, packing,
staging), the flash script puts them on the device, and there the boot chain starts
the sensor DSP's service, on which the adaptors depend, through libssc's messages, and
the WLAN unit, on which ConnMan depends. `PROJECT.json` ("hazards") lists what can go wrong in each, with the
line and the property that watches it, or the reason why none does.

What makes each component correct:

- adaptors: no callback on a deleted object, no leak, no sample of an old stream, an
  answer to sensorfw that is true, no measurement that waits for ever;
- wire protocol: what is accepted is what was sent, only what cannot be complete is
  refused, and no method ever meets a struct of another type;
- WLAN: a saved address is final, is on the interface before ConnMan looks, and its
  profiles survive; no fault holds up a boot;
- CI: what is published is what the sources say, nothing older replaces anything
  newer, and the last push ends up in a flash set;
- flashing: "Done" means that every partition holds its file, a failure leaves no
  mixture that boots halfway, and what a failed run leaves fails no later one;
- packing: an image that is accepted fits, and a set that is announced is of one run,
  with a root image that is checked and has what the device needs;
- boot image: what is written can be read by its own header, and a refusal writes nothing.

## Modules

### `SscAdaptors`, the two adaptors over libssc

`SscAccelerometerAdaptor` and `SscAlsAdaptor` are the same code on two libssc sensor
classes; the module has one set of actions, indexed by the adaptor. (`map` points some
of them to the one file and some to the other.)

| In the module | In the code |
|---|---|
| `alive` | the object and its `buffer_` exist |
| `sensor`, `sensorOpen`, `timer` | `sensor_`, `sensorOpen_`, `glibTimer_` (null, active, stopped) |
| `newest` | the sensor object whose sample was committed last to `buffer_` |
| `call` | the place where the main thread waits: in `new_sync`, `open_sync`, `close_sync` or `pumpGlib`, for which adaptor, and what its caller does next |
| `told` | the last answer `startSensor` gave, reset by a stop |
| `held`, `handler` | references and signal connections of libssc objects (`measurementHandlerId_`) |
| `stream`, `pending`, `up`, `cut` | the SSC service: streams, measurements queued in the GLib context, whether it answers, streams it dropped |

`startSensor` is split at its waits: `startSensor`, `NewSucceeds`/`NewFails`,
`OpenSucceeds`/`OpenFails`. `stopSensor`, `stopAdaptor` and the destructor share
`StopOpen`/`StopClosed`, `CloseReturns` and `Finish`. While `call` is not idle any
queued measurement of *either* adaptor may be dispatched (`handleMeasurement`): that is
the interleaving the properties are about. Libssc and the service are external:
`Enable`, `Measure`, `ServiceLost`, `ServiceBack`.

Assumption: Qt's event loop does not iterate the GLib context, and a libssc wait does
not run Qt events. The code exists because of the first half (`pumpGlib` polls the
context every 10 ms). With a GLib-based Qt dispatcher a start or stop could run
inside `open_sync`; that case is listed as a hazard and is not modelled. Libssc objects
have identities, so that a stale sample is told from a fresh one; a new object takes
an identity of which nothing is left.

`SensorFeed` is the abstract specification: a feed is absent, off or on, samples come
only while it is on, a sample of an earlier period never counts as one of this
period, and only a feed that is on is reported as running. `FeedSpec` in
`SscAdaptors` states the refinement with the mapping `feedOf`, `freshOf`, `told`.

### `SscMessages`, `ProtobufC`, `SscExchange`: libssc's wire protocol

`SscMessages` is the data of `pkgs/libssc/generated`: for each of the 23 types the
initializer of its struct, its descriptor, and the pair its six methods work on. A
descriptor keeps what decides the outcome: names, numbers, labels, types, the `has_`
members, the table of number ranges. `ProtobufC` is the external runtime that the methods
call, as far as they use it. A buffer is a sequence of fields; it does not say which type
it holds.

| In `SscExchange` | In the code |
|---|---|
| `built`, `type` | the sender's struct, and the type whose methods it calls |
| `buffer`, `sent` | the packed bytes, the struct they were packed from |
| `readAs`, `received` | the type whose `unpack` the receiver called, what it returned |
| `added`, `dropped`, `skew` | what an encoder of another version changed on the way |
| `aborted` | an `assert` on the descriptor failed |

The initializers, labels and tables are taken from the code and not from the comments
of the headers, which leave out which members may be missing: `SscConfigResponse.mode`
is described like the others (`ssc-common.pb-c.h:266-270`), but its label is OPTIONAL
(`ssc-common.pb-c.c:1346-1349`), so that a receiver may find NULL there.

The methods are the actions `init`, `pack`, `unpack`, `pack_to_buffer` and
`free_unpacked`. In between the sender assigns members in any order, forgets a `has_`
member or a sub-message (`Assign`), and an encoder of another version adds, drops, moves
or packs fields (`NewerField`, `OlderField`, `MovedField`, `PackedFields`). These
differences are in the message itself, never inside a sub-message, and repeated members
are not dropped: without its entries one is as if nobody had assigned it. Both kinds of
proximity messages may be read as the other one.

Messages nest, so `Pack` and `Unpack` call themselves for a sub-message, and so do `Seen`
(what a receiver should see of a struct) and `Complete` (whether it may be accepted).
A RECURSIVE operator cannot be proved about. These calls are therefore constants
(`PackPart`, `UnpackPart`, `SeenPart`, `CompletePart`), and `RecursionAssumption` says
that on the structs that exist (`Structs`, trees whose parts have a smaller `Depth`) they
are the operators themselves. `MCSscExchange` ties the knots, with `Pack` for `PackPart`
and so on, and TLC evaluates every assumption.

Left out, because nothing the properties say depends on it: offsets and sizes,
`get_packed_size` (it only computes), the index by name, the defaults of scalars (the
runtime takes them from the initializer), a singular field that comes twice.

### `WlanMac`, the WLAN address over boots

| In the module | In the code |
|---|---|
| `file`, `disk` | `/persist/wifi/.macaddr` as the system sees it, and what a power loss may leave of it: the script never syncs |
| `link` | `/run/systemd/network/10-wlp-mac.link` |
| `iface` | the network device: `wlan0` until udev renamed it, with its address |
| `pc`, `seen`, `got` | progress of the unit, `$iface`, `$wifi_mac` |
| `connman`, `memory`, `favorites` | ConnMan, the profiles it holds in memory and on disk |
| `smooth`, `clean` | history: this run of the unit met no fault (a failing `modprobe`, a time-out of `wait_iface`, a failing `ip link set address`, a renaming between `wait_iface` and `cat` on the first boot); no run did, and no power loss hit an unsynced save |

One action per step of `wlan-module-load.service` and of the script between which the
driver (`Probe`), udev (`UdevSettles`), the kernel (`WriteBack`) or the power supply
(`PowerLoss`) may act. Reading an interface under a name udev has taken away gives an
empty string, as `cat` does; `wait_iface` may time out; `ip link set address` may fail.
A `modprobe` that fails, before or after `prepare`, fails the unit
(`ModprobeFails`): there is no driver then, the commands that follow do not run, and
ConnMan, which is ordered after the unit but does not require it, starts all the same.
Only the unit loads the driver.
A file the script judges too short is `Short`. Values that are long enough and yet no
address do not occur: nothing writes them.

### `CiPipeline`, the two workflows

A push changes one area of the repository. The areas are the classes of paths that the
path filters, the cache keys and the build scripts tell apart. `Reads` says what a
product is built from, `Hashes` what its key covers. A publish run collects products,
from the cache (`Restore`) or by building (`Rebuild`, which also stands for an evicted
entry), then deploys and completes. Completion sends an event, in the order of the
runs, since the concurrency group starts a run only after the one it cancels has ended.
Every event starts an image run, of which the jobs are skipped unless the event is a
success. An image run reads Pages twice, once for the root file system and once for the
flash set. Manual starts and failures are bounded. The five build jobs are three
products: U-Boot, Mesa and firmware have the same shape (`blobs`). Every package has a
cache and a key of its own; here they are one product (`pkgs`), which changes when any
of them does. The scripts that lay out and index the site start a publish run without
being an input of any product (area `site`).

### `FastbootFlash`, `flash/flash.sh`

| In the module | In the code |
|---|---|
| `raw`, `archive` | each image and its `.xz` in the directory: absent, cut, whole; absent, good, bad |
| `part` | what each partition of the tablet holds, and whether it is the whole image |
| `pc` | the call of `flash_part` the script is in, or how the run ended |
| `phase` | where it is in `flash_part`: decompressing, writing, retrying a raw write |
| `target`, `legacy` | `ROOT_PART`; the branch that was taken |
| `tooLarge` | of each file, the partitions it is larger than |
| `smooth` | history: this run met no fault of its own |

The calls of `flash_part` are data (`FileOf`, `PartsOf`, `AfterSuccess`, `AfterFailure`)
and its steps are actions over them: `Unpacked`, `UnpackFails`, `NothingToUnpack`
(`decompress`), `Refuse` (the size check, which may also be skipped when fastboot cannot
read the size), `Flashed`, `FlashFails`. `decompress` runs on the left of `||`, where
`set -e` is off, so a failing xz goes on to the write. A failing or interrupted fastboot
leaves any of its partitions untouched, torn or finished. `Start` picks new environment
variables and a new `target-part.txt` for each run; an empty `target-part.txt` names no
partition, and fastboot fails on it. Every file may be too large for its partition, and
the bootloader, too, refuses what does not fit; `flash:raw` is taken to write the file.

### `FlashSet` with `MkBootImg` and `AdaptationRepo`: from packages to a flash set

`AdaptationRepo` follows the one package that packing insists on, Mesa, through the
local repository of an image run: `ReadPrimary` reads which file Pages lists, `Fetch`
downloads it, whole, in part or not at all, from a site that `Publish` may have replaced
in between, `KeepLocal` trusts what is there, `PackMissing` and `RunMic` are the
workflow's next steps. `MkBootImg` is the layout arithmetic of `mkbootimg.py`.

`FlashSet` adds `build-uboot.sh`, which calls it, and `pack-flashables.sh`:

| In the module | In the code |
|---|---|
| `uboot`, `cut` | the image in `u-boot-pipa/out`; whether its last write was cut off |
| `step`, `job` | the command the script has just done; what its variables hold |
| `mounts` | the runs in whose `$WORK` the root image is mounted |
| `out` | the three files of the set, each with the run that wrote it |
| `result`, `runs` | whether the last run announced its set; how many there were |

The way from a tarball (`PrepareTree` to `AcceptImage`) and from a raw image (`CopyRaw`
to `CheckRaw`) join in `CopyUboot` and `WriteTarget`. `Exit` ends a run after any command:
it failed, a check refused, or the user interrupted it. The clean-up unmounts the image;
when umount fails, the mount stays and `rm -rf` empties the image through it. A tarball
run begins with a new file, which that mount does not reach; `--rootfs-raw` copies into
the old one, and what it then checks, another mount writes to as well (`spoilt`). The
U-Boot image is copied as the build left it, since only its presence is checked. Content and
sizes are numbers of bytes; what the tree holds besides Mesa is left out, and so are
the optional legacy UEFI images.

## Runs

| Run | Instance | Shows |
|---|---|---|
| `ssc_safety` | 2 adaptors, 4 sensor objects, 2 waiting measurements, symmetry | the safety properties and the refinement |
| `ssc_liveness` | 2 adaptors, 2 sensor objects, 2 waiting measurements | `Pumped` under fairness |
| `wlan_mac` | 3 addresses, no other bound | the address properties, and that boots go on |
| `wlan_mac_promise` | the same | violated: a boot without a fault that saves nothing |
| `ci_pipeline` | 2 pushes in 4 areas, 1 manual start, 1 failure of each workflow | the pipeline's safety and liveness |
| `fastboot_flash` | 2 root partitions, 4 kinds of directory, 2 compressed files, a root, U-Boot or legacy image that is too large, any number of runs | Done is true, boot image first, left-overs never fail a run |
| `fastboot_cut` | the same | violated: a smooth run that flashes a truncated image |
| `ssc_exchange` | 15 types of messages, 2 elements in a repeated member, 2 differences between versions | the messages' properties |
| `flash_set` | 2 package names, 2 partitions, 3 runs, sizes around each boundary, symmetry | the set's and the images' properties |
| `ci_overlap`, `ci_cancelled`, `ci_stale` | 2 pushes, 1 failure | violated: three comments in the workflows |

The bounds are enough because: a stale sample needs an object from before a stop and one
from after it for each adaptor, hence four objects, and two queued measurements let one
be dispatched and one survive; three addresses tell the saved, the current and an
earlier one apart, and the model is finite in every other respect; two pushes and a
manual start give three publish runs, so that a cancelled run, the one that cancelled
it and a later one meet. The flash script has no counters: two root partitions let a run
hit another one than the run before, and the directories are a U-Boot set, one with both
layouts, and two incomplete ones. For messages, two elements
tell a packed field and a repeated one apart, two differences let one undo or hide the
other, and every type occurs on its own or as a part. Three packing runs let the three
files of a set come from three runs. There a megabyte has four bytes and a header field
holds at most 1400, so that the sizes on both sides of each rounding and limit are few
and small; the proofs do not depend on either number. The runs that check liveness use
no symmetry.

Deadlock is checked where the system never stops (sensors, messages, WLAN, packing,
flashing). The pipeline ends when
its pushes are used up, so its configurations turn the check off.

Fairness. `ssc_liveness` assumes that Qt fires an active timer again and again (strong,
since calls from sensorfw may always be in the way), that `pumpGlib` runs until nothing
is pending, and that a libssc call returns; neither requests nor the service are fair.
`ci_pipeline` assumes that runners work through started runs and events. Nobody has to
push. `wlan_mac` assumes that the unit's commands go on, which are bounded waits and
plain commands, that udev handles a new device, and that systemd starts ConnMan once the
unit is up (strong, since restarts of the unit may get in the way); the driver need not
find the device. The other runs that pass state no liveness.

`Pumped` says that no measurement waits for ever: if from some point on a sensor object
stays open, and measurements are waiting for it again and again, then its adaptor handles
measurements again and again. (A single measurement has no identity, and the newest one
that was handled says nothing of those that wait now.)

## What the violated runs show

- `wlan_mac_promise`: the first boot truncates and then writes the file, without a sync.
  A power loss leaves it empty; from then on the script finds "a" file, judges it
  invalid and gives up, at every boot. The same follows when udev renames the interface
  between `wait_iface` and `cat`.
- `ci_overlap`: two areas are in both path filters, which a comment excludes.
- `ci_cancelled`: the run created for a *failed* publish run does nothing but cancel the
  image run of the publication before it. The property speaks of an image run that a
  successful publish run has started, and that did not fail itself: TLC's trace is a
  publish run that succeeds, its image run under way, a second push whose publish run
  fails, the event of that one, and then nothing any more.
- `ci_stale`: the adaptation key does not cover `droid-configs-device`, nor the libssc
  key `include`; products are restored although their inputs changed.
- `fastboot_cut`: xz writes to the final name and `decompress` only tests that the file
  exists. An interrupted first run leaves a cut image; the second run flashes it and says
  "Done".

Met while reading, not run: the legacy fallback flashes `boot_a` alone, although the
header says `boot_ab`; `BootFlashed` asks for what the code does there. A U-Boot image
that an interrupted build cut off is copied and announced with the set, and an image
copied by `--rootfs-raw` under the mount of an earlier run is announced, too:
`ReadyRootIsWhole` names the second as its exception and claims nothing of the first.
A service that is lost under an open sensor is not noticed; `AnswerIsTrue` excuses it.

## Proofs

`SscAdaptorsProofs` proves for every set of adaptors and sensor objects, and every
bound, what `ssc_safety` checks on an instance: `TypeCorrect`, `CallbacksAlive`,
`ReferencesReturned`, `OpenSensorsWired`, `AnswersTrue`, `NeverStale` and `FeedRefined`.

The only assumptions are those of the modules: `NoSensor` and `NoAdaptor` are not
members of the sets, the bound is positive.

The properties are not inductive by themselves. The invariant `IInv` adds what the
code relies on silently:

- `CallInv`: the adaptor of a call is alive, and at each wait its fields are as the
  statements before left them (no sensor is open while a new one is opened, the sensor
  is open while it is being closed);
- `SensorInv`: an adaptor has a sensor exactly when it is open or in the call that opens
  it; then the object is held and connected to that adaptor, and the timer runs;
- `HeldInv`: a held object belongs to an adaptor, only held objects stream or are cut.

The lemmas prove `IInv` initial and preserved, one step per action and under it one per
conjunct the action can disturb; every property then follows from `IInv` alone
(`IInvImplies`), or from `IInv` and one step (`NeverStale`, `FeedRefined`).

`WlanMacProofs` does the same for `WlanMac` and any set of addresses (`TypeCorrect`,
`LinksAgree`, `UdevCorrect`, `SmoothBoots`, `PasswordsKept`, `SavedForGood`,
`NoPasswordLost`), from the assumption that there is an address and that the markers
differ. Its `IInv` adds to the types

- `IfaceInv`: a device under a name has an address;
- `PcInv`: at each step the saved file is as the script's branches took it to be;
- `LinkInv`: after "prepare" the `.link` file is the saved address, if there is one;
- `MacInv`: where the script has read or set the interface's address it still is that;
- `CleanInv`: without faults ConnMan only knows the saved address, and a short file is
  one that is just being written. `FavoritesKept` needs it: the clean-up removes every
  profile but the saved address's, so nothing is lost only because there are no others.

`FastbootFlashProofs` proves `TypeCorrect`, `DoneIsTrue`, `BootComesFirst` and
`RerunsSucceed` for any directory, any files that are too large, any root partitions
that are not boot partitions, and any number of runs. Its `IInv` adds

- `BranchInv`: at each call the files the script tested at its start are still supplied;
- `ProgressInv`: what the calls before the current one wrote is still what their files
  hold, *and those files exist*: otherwise a later decompression could change them.

`CiPipelineProofs` proves `TypeCorrect`, `ProductsFresh`, `PagesForward` and
`FlashForward` for any areas and any number of pushes, manual starts and failures, from
the assumption that the marker `None` is no publication. Its `IInv` adds

- `GroupInv`: the concurrency groups hold one run each, which everything rests on;
- `FreshInv`: an entry of the cache holds what its key says wherever the key covers it;
- `PagesInv`, `FlashInv`: branch, run in progress, Pages, image run and flash set are
  ordered by age. A start takes the newest tree and cancels the older run, so a slow run
  never gets to replace a newer result.

`FlashSetProofs` proves `TypeCorrect`, `BootImage_Reads`, `ReadyRoot_IsWhole`,
`Fits_Partition` and `Files_InOrder` for any sizes, names, partitions and number of
runs. Two lemmas on integers carry it: `WrittenImagesRead` (rounding the kernel up to
whole pages gives an image its own header describes) and `UsableFits` (a file whose
size, rounded up to megabytes, is at most the usable part of a partition is not larger
than that partition in bytes). Its `IInv` adds that in each step the script's variables
hold what the commands before computed (`JobInv`), that the root image is as far as they
took it and is not mounted twice but under `--rootfs-raw` (`ImageInv`), and that the
image of U-Boot's build is whole unless its last write was cut off (`UbootInv`).

`SscExchangeProofs` proves for the messages `TypeCorrect`, `AssertionsHold`,
`OnlyRefusedForCause`, `WhatIsReceivedWasSent` and `TypesAreTold`: for any set of types
that are sent, any scalar values, sub-messages and unknown fields, repeated members of
any length and any number of differences between the versions. The assumptions are those of `SscExchange`:

- `SentAssumption`, `BoundsAssumption`, `ScalarsAssumption`, `EntriesAssumption`: the
  constants have their kinds; the values of scalars include those of the initializers;
- `StructsAssumption`: the sub-messages that anyone may hold are structs of their types,
  and so are those inside them and what a receiver sees of them; they are trees;
- `RecursionAssumption`: the constants for recursive calls are the operators they stand
  for, on those structs and the buffers they are packed to;
- `NullAssumption`: a null pointer is no value, no struct and no name of a type.

The argument has five parts:

1. *The tables are right* (`TablesAreRight`, in `ProtobufCProofs`): one lemma for each of
   the 23 generated descriptors. The number ranges find each field by its number and find
   no other number, the initializer has the members that the fields name, and no two
   fields share one. All that follows uses only this, never a particular message.
2. *Packing and scanning* (`PackGiven`, `GivenJoin`): what a buffer holds for a field is
   what its entries give, joined, so a packed struct holds for each field the values of
   its own member. `SequenceFacts` has what this needs of sequences, and `Induction`:
   over a set of numbers, since the library's induction theorems take a predicate.
3. *Round trip* (`StructsRoundTrip`), by induction on the depth of a struct.
4. *Version skew*. `Holds(t, m, b, w, u)` says that buffer `b` holds message `m` without
   the fields in `w` and with the unknown fields `u`. It speaks of what each field gets
   and not of the order of entries, which skew changes. Every skew step preserves it
   (lemmas on adding, removing, moving and packing entries), and it decides what `unpack`
   returns (`HoldsUnpack`), that a message may be passed on (`HoldsAgain`), and that the
   wrong type of proximity message refuses it (`TypesDiffer`).
5. *The invariant* `IInv`: a sender is idle, building a struct of its type, or its message
   is on the way and the buffer `Holds` it; what was received is what `HoldsUnpack` says
   (`ReadAsOwn`), or was read as the other type (`ReadAsOther`), which takes a dropped
   field. The properties are not inductive without it: none of them says what the buffer
   holds, and that is what decides what comes out of it.

The attempt to prove this found two things to correct in the model: arms of `CASE`
that overlapped, of which TLC takes the first and the proofs may take any (the struct
built by `Unpack`, and the values that an entry gives), and that nothing said that a null
pointer is no name of a type. Both are settled in the definitions above.

Only model-checked: liveness (`Pumped`, `CatchesUp`, `BootGoesOn`, `AddressRecovers`),
since fairness is beyond the prover. That the constants of `SscExchange` can be what its
assumptions say is not a theorem either, since it is recursion over data: TLC evaluates
the assumptions on the instance of `ssc_exchange`, where messages nest four deep.

## Not modelled

- Unit conversion of samples (floating point), sensorfw's ring buffer and its readers,
  ConnMan and udev beyond what the scripts rely on: not in the repository.
- The Bluetooth address: one script after the other, with no second party; its hazard,
  a write in place, is the one `WlanMac` shows.
- The boot chain: unit files only; what they order is decided by systemd and the drivers.
- The Jolla flash script: vendored, and not what this port's image is flashed with.
- What the build jobs of the CI do to files, the staging of kernel, firmware and Mesa,
  the layout of the site: sequences of commands in a fresh directory.
- Of packing: the optional legacy UEFI images, the content of the tree besides Mesa, and
  a script that is killed without its clean-up (SIGKILL, power loss of the build host).
- Everything that only compiles, packages or declares, and vendored files.
