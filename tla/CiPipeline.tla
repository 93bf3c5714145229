----------------------------- MODULE CiPipeline -----------------------------
(***************************************************************************)
(* The two GitHub workflows.                                               *)
(*                                                                         *)
(* publish-prebuilts.yml builds the products that are expensive to build,  *)
(* each one from actions/cache when there is an entry under its key, and   *)
(* deploys all of them to GitHub Pages.  build-rootfs.yml builds a root    *)
(* file system from its own checkout and from Pages, then packs a flash    *)
(* set with it and with what Pages holds by then.                          *)
(*                                                                         *)
(* A tree gives for each area of the repository the push that changed it   *)
(* last.  The platform (runs, cancellation, events, cache) is external.    *)
(***************************************************************************)
EXTENDS Naturals, Sequences, FiniteSets

CONSTANTS
    Touched,         \* the areas that pushes touch
    MaxPushes,       \* bounds: pushes to the default branch,
    MaxDispatches,   \* manual starts of a workflow,
    MaxFailures,     \* failures of publish runs
    MaxImageFailures,
    None

VARIABLES
    head,        \* the tree of the default branch
    pushes,      \* how many pushes there were
    started,     \* how many publish runs there were: the newest run's number
    publishing,  \* the publish runs in progress
    cache,       \* the entries of actions/cache
    pages,       \* what GitHub Pages serves
    events,      \* conclusions of publish runs on their way to the image workflow
    imaging,     \* the image runs in progress
    flash,       \* the newest flash set
    dispatches, failures, imageFailures

counters == <<dispatches, failures, imageFailures>>
publishVars == <<started, publishing>>
vars == <<head, pushes, publishVars, cache, pages, events, imaging, flash, counters>>

-----------------------------------------------------------------------------
(* What the workflows read.                                                *)

Areas == {"blobs",    \* u-boot-pipa, mesa-pipa, firmware-pipa
          "config",   \* bootstrap, droid-config-pipa without the next one
          "common",   \* droid-config-pipa/droid-configs-device
          "version",  \* droid-hal-version-pipa
          "pkgs",     \* pkgs without the next one
          "headers",  \* pkgs/libssc/include
          "kernel",   \* kernel-adaptation-pipa
          "site",     \* scripts/stage-*.sh, createrepo-local.sh, the publish workflow
          "image"}    \* image-ci, flash
ASSUME TouchedAssumption == Touched \subseteq Areas
ASSUME BoundsAssumption ==
    {MaxPushes, MaxDispatches, MaxFailures, MaxImageFailures} \subseteq Nat

\* "on.push.paths" of the two workflows.
PublishPaths == Areas \ {"image"}
ImagePaths == {"image", "kernel", "version"}

Products == {"blobs", "adaptation", "pkgs"}

\* The areas a product is built from (the publish job alone reads "site") ...
Reads(product) ==
    CASE product = "blobs" -> {"blobs"}
      [] product = "adaptation" -> {"config", "common", "version"}
      [] product = "pkgs" -> {"pkgs", "headers", "kernel", "blobs"}

\* Mutant: the firmware and Mesa sources are left out of the packages' keys.
HashesLess(product) ==
    CASE product = "blobs" -> {"blobs"}
      [] product = "adaptation" -> {"config", "version"}
      [] product = "pkgs" -> {"pkgs", "kernel"}

\* ... and those its cache key is a hash of.  The packages have a key each, over
\* their own directory; here they are one product with one key over them all.
Hashes(product) ==
    CASE product = "blobs" -> {"blobs"}
      [] product = "adaptation" -> {"config", "version"}
      [] product = "pkgs" -> {"pkgs", "kernel", "blobs"}

\* The jobs whose artifacts a job downloads.
Needs(product) == IF product = "pkgs" THEN {"blobs"} ELSE {}

RunIds == 1 .. MaxPushes + MaxDispatches
Trees == [Areas -> 0 .. MaxPushes]
Contents == UNION {[areas -> 0 .. MaxPushes] : areas \in SUBSET Areas}
Builts == UNION {[products -> Contents] : products \in SUBSET Products}
\* What Pages may serve.
Sites == [id : RunIds, tree : Trees, built : Builts]
ASSUME NoneAssumption == None \notin Sites

Only(tree, areas) == [a \in areas |-> tree[a]]
Key(product, tree) == Only(tree, Hashes(product))
Build(product, tree) == Only(tree, Reads(product))
\* The first tree is not newer than the second one in any area.
NotNewer(t, u) == \A a \in Areas : t[a] <= u[a]

Init ==
    /\ head = [a \in Areas |-> 0] /\ pushes = 0
    /\ started = 0 /\ publishing = {}
    /\ cache = {}
    /\ pages = None
    /\ events = <<>>
    /\ imaging = {}
    /\ flash = None
    /\ dispatches = 0 /\ failures = 0 /\ imageFailures = 0

-----------------------------------------------------------------------------
(* The start of a run cancels the one in progress in its concurrency group *)
(* first; a cancelled publish run completes too.                           *)

NewRun(tree) == [id |-> started + 1, tree |-> tree, built |-> <<>>, deployed |-> FALSE]
NewImage(tree, event) == [tree |-> tree, event |-> event, rootfs |-> None]

\* Mutant: the concurrency group does not cancel.
StartPublishBeside(tree) ==
    /\ started' = started + 1
    /\ publishing' = publishing \cup {NewRun(tree)}
    /\ events' = events

StartPublish(tree) ==
    /\ started' = started + 1
    /\ publishing' = {NewRun(tree)}
    /\ events' = IF publishing = {} THEN events ELSE Append(events, "cancelled")

\* Mutant: the concurrency group does not cancel.
StartImageBeside(tree, event) == imaging' = imaging \cup {NewImage(tree, event)}

StartImage(tree, event) == imaging' = {NewImage(tree, event)}

\* A push to the default branch: each workflow whose paths it touches starts.
Push ==
    /\ pushes < MaxPushes
    /\ pushes' = pushes + 1
    /\ \E a \in Touched :
        /\ head' = [head EXCEPT ![a] = pushes + 1]
        /\ IF a \in PublishPaths THEN StartPublish(head')
           ELSE UNCHANGED <<publishVars, events>>
        /\ IF a \in ImagePaths THEN StartImage(head', "push") ELSE imaging' = imaging
    /\ UNCHANGED <<cache, pages, flash, counters>>

\* workflow_dispatch.
Dispatch ==
    /\ dispatches < MaxDispatches
    /\ dispatches' = dispatches + 1
    /\ \/ StartPublish(head) /\ imaging' = imaging
       \/ StartImage(head, "dispatch") /\ UNCHANGED <<publishVars, events>>
    /\ UNCHANGED <<head, pushes, cache, pages, flash, failures, imageFailures>>

-----------------------------------------------------------------------------
(* publish-prebuilts.yml                                                   *)

Step(run, new) == publishing' = (publishing \ {run}) \cup {new}
WithProduct(run, product, content) ==
    [run EXCEPT !.built = [p \in DOMAIN run.built \cup {product} |->
                            IF p = product THEN content ELSE run.built[p]]]

Ready(run, product) ==
    /\ product \notin DOMAIN run.built
    /\ Needs(product) \subseteq DOMAIN run.built

\* A job finds its key in the cache and skips its build steps.
Restore(run, product) ==
    /\ Ready(run, product)
    /\ \E entry \in cache :
        /\ entry.product = product /\ entry.key = Key(product, run.tree)
        /\ Step(run, WithProduct(run, product, entry.content))
    /\ UNCHANGED <<head, pushes, started, cache, pages, events, imaging, flash, counters>>

\* It does not (or the entry was evicted): it builds, and saves.
Rebuild(run, product) ==
    /\ Ready(run, product)
    /\ LET key == Key(product, run.tree)
           content == Build(product, run.tree)
           same(entry) == entry.product = product /\ entry.key = key
       IN  /\ cache' = {entry \in cache : ~same(entry)}
                         \cup {[product |-> product, key |-> key, content |-> content]}
           /\ Step(run, WithProduct(run, product, content))
    /\ UNCHANGED <<head, pushes, started, pages, events, imaging, flash, counters>>

\* The publish job needs every other job; it replaces the whole site.
Deploy(run) ==
    /\ ~run.deployed
    /\ DOMAIN run.built = Products
    /\ pages' = [id |-> run.id, tree |-> run.tree, built |-> run.built]
    /\ Step(run, [run EXCEPT !.deployed = TRUE])
    /\ UNCHANGED <<head, pushes, started, cache, events, imaging, flash, counters>>

Complete(run) ==
    /\ run.deployed
    /\ publishing' = publishing \ {run}
    /\ events' = Append(events, "success")
    /\ UNCHANGED <<head, pushes, started, cache, pages, imaging, flash, counters>>

\* A job fails: the publish job is skipped.
Fail(run) ==
    /\ failures < MaxFailures
    /\ ~run.deployed
    /\ failures' = failures + 1
    /\ publishing' = publishing \ {run}
    /\ events' = Append(events, "failure")
    /\ UNCHANGED <<head, pushes, started, cache, pages, imaging, flash,
                   dispatches, imageFailures>>

-----------------------------------------------------------------------------
(* build-rootfs.yml                                                        *)

\* Mutant: the image run after a publish run is left to the next push.
WorkflowRunIgnored ==
    /\ events # <<>>
    /\ events' = Tail(events)
    /\ UNCHANGED <<head, pushes, publishVars, cache, pages, imaging, flash, counters>>

\* "on.workflow_run": a publish run completed, in whatever way.  The new run
\* joins the concurrency group; the jobs' "if" skips them unless it succeeded.
WorkflowRun ==
    /\ events # <<>>
    /\ events' = Tail(events)
    /\ IF Head(events) = "success" THEN StartImage(head, "workflow_run") ELSE imaging' = {}
    /\ UNCHANGED <<head, pushes, publishVars, cache, pages, flash, counters>>

\* The build-rootfs job takes from Pages what the checkout does not give.
BuildRootfs(image) ==
    /\ image.rootfs = None
    /\ pages # None
    /\ imaging' = (imaging \ {image}) \cup {[image EXCEPT !.rootfs = pages.id]}
    /\ UNCHANGED <<head, pushes, publishVars, cache, pages, events, flash, counters>>

\* There are no blobs yet: curl -f or wget fails, and with it the run.
NothingThere(image) ==
    /\ pages = None
    /\ imaging' = imaging \ {image}
    /\ UNCHANGED <<head, pushes, publishVars, cache, pages, events, flash, counters>>

\* The pack-flash-set job downloads U-Boot, firmware and kernel from Pages.
PackFlashSet(image) ==
    /\ image.rootfs # None
    /\ flash' = [tree |-> image.tree, rootfs |-> image.rootfs, pack |-> pages.id]
    /\ imaging' = imaging \ {image}
    /\ UNCHANGED <<head, pushes, publishVars, cache, pages, events, counters>>

ImageFails(image) ==
    /\ imageFailures < MaxImageFailures
    /\ imageFailures' = imageFailures + 1
    /\ imaging' = imaging \ {image}
    /\ UNCHANGED <<head, pushes, publishVars, cache, pages, events, flash,
                   dispatches, failures>>

PublishStep ==
    \E run \in publishing :
        \/ \E product \in Products : Restore(run, product) \/ Rebuild(run, product)
        \/ Deploy(run) \/ Complete(run)
ImageStep ==
    \E image \in imaging :
        BuildRootfs(image) \/ NothingThere(image) \/ PackFlashSet(image)
Failure ==
    \/ \E run \in publishing : Fail(run)
    \/ \E image \in imaging : ImageFails(image)

Next == Push \/ Dispatch \/ PublishStep \/ WorkflowRun \/ ImageStep \/ Failure

Spec == Init /\ [][Next]_vars

\* The runners work through what is queued.  Nobody has to push or dispatch.
FairSpec ==
    Spec /\ WF_vars(PublishStep) /\ WF_vars(WorkflowRun) /\ WF_vars(ImageStep)

-----------------------------------------------------------------------------
(* Properties.                                                             *)

\* Every variable holds a value of its type; the two concurrency groups hold
\* at most one run each.
TypeOK ==
    /\ head \in Trees /\ pushes \in 0 .. MaxPushes
    /\ started \in RunIds \cup {0}
    /\ Cardinality(publishing) <= 1 /\ Cardinality(imaging) <= 1
    /\ \A run \in publishing :
        /\ run.id \in RunIds /\ run.tree \in Trees /\ run.deployed \in BOOLEAN
        /\ DOMAIN run.built \subseteq Products
    /\ \A entry \in cache :
        entry.product \in Products /\ {entry.key, entry.content} \subseteq Contents
    /\ pages # None => pages.id \in RunIds /\ DOMAIN pages.built \subseteq Products
    /\ \A i \in 1 .. Len(events) : events[i] \in {"success", "failure", "cancelled"}
    /\ \A image \in imaging :
        /\ image.tree \in Trees /\ image.rootfs \in RunIds \cup {None}
        /\ image.event \in {"push", "dispatch", "workflow_run"}
    /\ flash # None => {flash.rootfs, flash.pack} \subseteq RunIds

\* Pages serves every product, and each one as a build of the published tree
\* would give it, whatever came out of the cache: except for the two areas
\* that no key covers.
FreshProducts ==
    pages # None =>
        \A p \in Products :
            /\ p \in DOMAIN pages.built
            /\ \A a \in Reads(p) \ {"common", "headers"} :
                pages.built[p][a] = pages.tree[a]

\* A publish run of an older push never replaces what a newer one deployed.
PagesNeverGoBack ==
    [][pages # None => NotNewer(pages.tree, pages'.tree)]_vars

\* Nor does the flash set of a slow image run replace a newer one, be it by
\* its checkout or by the publications it was made from.
FlashNeverGoesBack ==
    [][flash # None => /\ NotNewer(flash.tree, flash'.tree)
                       /\ flash.rootfs <= flash'.rootfs
                       /\ flash.pack <= flash'.pack]_vars

\* Pages holds the newest products and the flash set is made from them alone.
CaughtUp ==
    /\ (\E a \in PublishPaths : head[a] > 0) =>
        pages # None /\ Only(pages.tree, PublishPaths) = Only(head, PublishPaths)
    /\ pages # None =>
        /\ flash # None
        /\ flash.tree = head
        /\ flash.rootfs = pages.id /\ flash.pack = pages.id

\* As long as no run fails, the pipeline catches up with the last push: also
\* when a flash set was made of two publications, or of one too old.
CatchesUp == <>[](failures + imageFailures > 0 \/ CaughtUp)

-----------------------------------------------------------------------------
(* What the workflows' comments say, and the code does not do.             *)

\* build-rootfs.yml: "do not overlap publish-prebuilts path filters (avoids
\* racing Pages before blobs exist)".  The image run of a push is never under
\* way together with the publish run of the same push.
PushDoesNotRace ==
    \A image \in imaging, run \in publishing :
        image.event = "push" => run.tree # image.tree

\* build-rootfs.yml: "After prebuilts land on Pages, pack a flash set
\* automatically".  A publish run has succeeded and its image run is under way:
\* unless that one fails itself or another image run takes over, it packs the
\* publication before the pipeline comes to rest.
PackedAfterPublish ==
    [][\A image \in imaging :
          image.event = "workflow_run" /\ imageFailures' = imageFailures
          /\ publishing' = {} /\ events' = <<>> /\ imaging' = {}
              => flash' # None /\ flash'.pack = pages'.id]_vars

\* publish-prebuilts.yml: "Each heavy job restores outputs from actions/cache
\* when its source inputs are unchanged".
RestoredWhenUnchanged ==
    \A run \in publishing : \A p \in DOMAIN run.built :
        run.built[p] = Build(p, run.tree)
=============================================================================
