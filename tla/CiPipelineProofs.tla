-------------------------- MODULE CiPipelineProofs --------------------------
(***************************************************************************)
(* The safety of CiPipeline for any areas that pushes touch and any number *)
(* of pushes, manual starts and failures.                                  *)
(***************************************************************************)
EXTENDS CiPipeline, FiniteSetTheorems, TLAPS

-----------------------------------------------------------------------------
(* The inductive invariant.                                                *)

Runs == [id : RunIds, tree : Trees, built : Builts, deployed : BOOLEAN]
Entries == [product : Products, key : Contents, content : Contents]
ImageRuns == [tree : Trees, event : {"push", "dispatch", "workflow_run"},
              rootfs : RunIds \cup {None}]
FlashSets == [tree : Trees, rootfs : RunIds, pack : RunIds]

TypeInv ==
    /\ head \in Trees /\ pushes \in 0 .. MaxPushes /\ dispatches \in 0 .. MaxDispatches
    /\ started \in Nat /\ started <= pushes + dispatches
    /\ publishing \subseteq Runs /\ cache \subseteq Entries
    /\ pages \in Sites \cup {None}
    /\ events \in Seq({"success", "failure", "cancelled"})
    /\ imaging \subseteq ImageRuns
    /\ flash \in FlashSets \cup {None}

\* The concurrency groups.
GroupInv ==
    /\ \A r, s \in publishing : r = s
    /\ \A i, j \in imaging : i = j

Covered(product) == Reads(product) \ {"common", "headers"}
FreshBuilt(built, tree) ==
    \A p \in DOMAIN built : \A a \in Covered(p) : built[p][a] = tree[a]

\* An entry of the cache holds what its key says, as far as the key goes.
FreshInv ==
    /\ \A run \in publishing : FreshBuilt(run.built, run.tree)
    /\ \A entry \in cache :
        \A a \in Covered(entry.product) : entry.content[a] = entry.key[a]
    /\ FreshProducts

\* The branch, the run in progress and Pages, from the newest to the oldest.
PagesInv ==
    /\ \A a \in Areas : head[a] <= pushes
    /\ \A run \in publishing :
        /\ NotNewer(run.tree, head) /\ run.id <= started
        /\ pages \in Sites => NotNewer(pages.tree, run.tree) /\ pages.id <= run.id
    /\ pages \in Sites => NotNewer(pages.tree, head) /\ pages.id <= started

\* The branch, Pages, the image run in progress and the flash set.
FlashInv ==
    /\ \A image \in imaging :
        /\ NotNewer(image.tree, head)
        /\ image.rootfs # None => pages \in Sites /\ image.rootfs <= pages.id
        /\ flash # None =>
            /\ NotNewer(flash.tree, image.tree)
            /\ image.rootfs # None => flash.rootfs <= image.rootfs
    /\ flash # None =>
        /\ NotNewer(flash.tree, head)
        /\ pages \in Sites /\ flash.rootfs <= pages.id /\ flash.pack <= pages.id

\* What the code relies on all the time.
IInv == TypeInv /\ GroupInv /\ FreshInv /\ PagesInv /\ FlashInv

USE TouchedAssumption, BoundsAssumption
USE DEF publishVars, counters

-----------------------------------------------------------------------------
(* Trees.                                                                  *)

\* The trees are ordered by age.
LEMMA NotNewerTransitive ==
  ASSUME NEW t \in Trees, NEW u \in Trees, NEW v \in Trees,
         NotNewer(t, u), NotNewer(u, v)
  PROVE  NotNewer(t, v)
<1> SUFFICES ASSUME NEW a \in Areas PROVE t[a] <= v[a]
  BY DEF NotNewer
<1>1. t[a] \in Nat /\ u[a] \in Nat /\ v[a] \in Nat
  BY DEF Trees
<1>2. t[a] <= u[a] /\ u[a] <= v[a]
  BY DEF NotNewer
<1> QED
  BY <1>1, <1>2

\* A tree is not newer than itself.
LEMMA NotNewerReflexive == ASSUME NEW t \in Trees PROVE NotNewer(t, t)
<1> SUFFICES ASSUME NEW a \in Areas PROVE t[a] <= t[a]
  BY DEF NotNewer
<1> QED
  BY DEF Trees

\* A part of a tree is a content; so are keys and what is built.
LEMMA PartsOfTrees ==
  ASSUME NEW p \in Products, NEW t \in Trees
  PROVE  Key(p, t) \in Contents /\ Build(p, t) \in Contents
<1>1. Reads(p) \subseteq Areas /\ Hashes(p) \subseteq Areas
  BY DEF Reads, Hashes, Products, Areas
<1>2. ASSUME NEW areas \in SUBSET Areas PROVE Only(t, areas) \in [areas -> 0 .. MaxPushes]
  BY DEF Only, Trees
<1>3. ASSUME NEW areas \in SUBSET Areas PROVE Only(t, areas) \in Contents
  BY <1>2, <1>3 DEF Contents
<1> QED
  BY <1>1, <1>3 DEF Key, Build

\* Outside the two areas that no key covers, the key says what was read.
LEMMA KeysCover == ASSUME NEW p \in Products PROVE Covered(p) \subseteq Hashes(p) \cap Reads(p)
  BY DEF Covered, Reads, Hashes, Products

\* A product that a run restores or builds joins those it has.
LEMMA ProductJoins ==
  ASSUME NEW run \in Runs, NEW p \in Products, NEW content \in Contents
  PROVE  /\ WithProduct(run, p, content) \in Runs
         /\ WithProduct(run, p, content).id = run.id
         /\ WithProduct(run, p, content).tree = run.tree
         /\ FreshBuilt(run.built, run.tree)
              /\ (\A a \in Covered(p) : content[a] = run.tree[a])
            => FreshBuilt(WithProduct(run, p, content).built, run.tree)
<1> DEFINE built == [q \in DOMAIN run.built \cup {p} |->
                        IF q = p THEN content ELSE run.built[q]]
           new == WithProduct(run, p, content)
<1>1. run.built \in Builts /\ run.id \in RunIds /\ run.tree \in Trees
      /\ run.deployed \in BOOLEAN
  BY DEF Runs
<1>2. PICK products \in SUBSET Products : run.built \in [products -> Contents]
  BY <1>1 DEF Builts
<1>3. built \in [products \cup {p} -> Contents]
  BY <1>2
<1>4. built \in Builts
  BY <1>3 DEF Builts
<1>5. new = [run EXCEPT !.built = built]
  BY DEF WithProduct
<1>6. new \in Runs /\ new.id = run.id /\ new.tree = run.tree /\ new.built = built
  BY <1>1, <1>4, <1>5 DEF Runs
<1>7. ASSUME FreshBuilt(run.built, run.tree),
             \A a \in Covered(p) : content[a] = run.tree[a]
      PROVE  FreshBuilt(built, run.tree)
  <2>1. DOMAIN built = DOMAIN run.built \cup {p}
    OBVIOUS
  <2>2. ASSUME NEW q \in DOMAIN built, NEW a \in Covered(q) PROVE built[q][a] = run.tree[a]
    BY <1>7, <2>1, <2>2 DEF FreshBuilt
  <2>3. QED
    BY <2>2 DEF FreshBuilt
<1> QED
  BY <1>6, <1>7

-----------------------------------------------------------------------------
(* The invariant holds initially.                                          *)

\* There is nothing but a branch that nobody pushed to.
LEMMA InitIInv == Init => IInv
<1> SUFFICES ASSUME Init PROVE IInv
  OBVIOUS
<1> USE DEF Init
<1>1. TypeInv
  BY DEF TypeInv, Trees
<1>2. GroupInv /\ FreshInv
  BY DEF GroupInv, FreshInv, FreshProducts
<1>3. PagesInv /\ FlashInv
  BY NoneAssumption DEF PagesInv, FlashInv
<1> QED
  BY <1>1, <1>2, <1>3 DEF IInv

-----------------------------------------------------------------------------
(* Steps that several actions share.                                       *)

\* A push gives a newer tree, with the new push as the newest change.
LEMMA PushIsNewer ==
  ASSUME TypeInv, PagesInv, NEW a \in Touched, pushes < MaxPushes,
         head' = [head EXCEPT ![a] = pushes + 1], pushes' = pushes + 1
  PROVE  /\ head' \in Trees /\ NotNewer(head, head')
         /\ \A b \in Areas : head'[b] <= pushes'
<1>1. head \in Trees /\ pushes \in Nat /\ pushes + 1 \in 0 .. MaxPushes /\ a \in Areas
  BY DEF TypeInv
<1>2. head' \in Trees
  BY <1>1 DEF Trees
<1>3. ASSUME NEW b \in Areas PROVE head[b] <= head'[b] /\ head'[b] <= pushes'
  <2>1. head[b] \in Nat /\ head[b] <= pushes
    BY <1>1 DEF Trees, PagesInv
  <2>2. CASE b = a
    BY <1>1, <2>1, <2>2 DEF Trees
  <2>3. CASE b # a
    BY <1>1, <2>1, <2>3 DEF Trees
  <2>4. QED
    BY <2>2, <2>3
<1> QED
  BY <1>2, <1>3 DEF NotNewer

\* There is an empty set of products.
LEMMA NothingBuilt == <<>> \in Builts /\ DOMAIN <<>> = {}
<1>1. <<>> \in [{} -> Contents] /\ DOMAIN <<>> = {}
  OBVIOUS
<1> QED
  BY <1>1 DEF Builts

\* A publish run starts with nothing built, and alone.
LEMMA PublishStarts ==
  ASSUME TypeInv, NEW tree \in Trees, StartPublish(tree),
         pushes + dispatches < MaxPushes + MaxDispatches
  PROVE  /\ publishing' = {NewRun(tree)} /\ NewRun(tree) \in Runs
         /\ NewRun(tree).tree = tree /\ NewRun(tree).id = started + 1
         /\ DOMAIN NewRun(tree).built = {}
         /\ started' = started + 1
         /\ events' \in Seq({"success", "failure", "cancelled"})
<1>1. started + 1 \in RunIds
  BY DEF TypeInv, RunIds
<1>2. NewRun(tree) \in Runs
  BY <1>1, NothingBuilt DEF NewRun, Runs
<1>3. DOMAIN NewRun(tree).built = {}
  BY NothingBuilt DEF NewRun
<1>4. events' \in Seq({"success", "failure", "cancelled"})
  BY DEF StartPublish, TypeInv
<1> QED
  BY <1>2, <1>3, <1>4 DEF StartPublish, NewRun

\* So does an image run.
LEMMA ImageStarts ==
  ASSUME NEW tree \in Trees, NEW event \in {"push", "dispatch", "workflow_run"},
         StartImage(tree, event)
  PROVE  /\ imaging' = {NewImage(tree, event)} /\ NewImage(tree, event) \in ImageRuns
         /\ NewImage(tree, event).tree = tree /\ NewImage(tree, event).rootfs = None
  BY DEF StartImage, NewImage, ImageRuns

\* A push starts a publish run of the new tree, or none, and the same for
\* the image workflow.
LEMMA PushStarts ==
  ASSUME TypeInv, PagesInv, Push
  PROVE  /\ head' \in Trees /\ NotNewer(head, head')
         /\ \A b \in Areas : head'[b] <= pushes'
         /\ \/ UNCHANGED <<publishVars, events>>
            \/ StartPublish(head')
         /\ \/ imaging' = imaging
            \/ StartImage(head', "push")
         /\ pushes < MaxPushes /\ pushes' = pushes + 1
         /\ pushes + dispatches < MaxPushes + MaxDispatches
         /\ UNCHANGED <<cache, pages, flash, dispatches>>
<1>1. PICK a \in Touched :
        /\ head' = [head EXCEPT ![a] = pushes + 1]
        /\ IF a \in PublishPaths THEN StartPublish(head')
           ELSE UNCHANGED <<publishVars, events>>
        /\ IF a \in ImagePaths THEN StartImage(head', "push") ELSE imaging' = imaging
  BY DEF Push
<1>2. pushes < MaxPushes /\ pushes' = pushes + 1
  BY DEF Push
<1>3. pushes + dispatches < MaxPushes + MaxDispatches
  BY <1>2 DEF TypeInv
<1> QED
  BY <1>1, <1>2, <1>3, PushIsNewer DEF Push

\* A manual start does one of the two with the tree that is there.
LEMMA DispatchStarts ==
  ASSUME TypeInv, Dispatch
  PROVE  /\ \/ StartPublish(head) /\ imaging' = imaging
            \/ StartImage(head, "dispatch") /\ UNCHANGED <<publishVars, events>>
         /\ dispatches' = dispatches + 1 /\ dispatches' \in 0 .. MaxDispatches
         /\ pushes + dispatches < MaxPushes + MaxDispatches
         /\ UNCHANGED <<head, pushes, cache, pages, flash>>
<1>1. dispatches < MaxDispatches /\ dispatches' = dispatches + 1
  BY DEF Dispatch
<1>2. dispatches' \in 0 .. MaxDispatches /\ pushes + dispatches < MaxPushes + MaxDispatches
  BY <1>1 DEF TypeInv
<1> QED
  BY <1>1, <1>2 DEF Dispatch

\* A run that restores or builds a product stays the run it is.
LEMMA StepKeeps ==
  ASSUME TypeInv, FreshInv, NEW run \in publishing, NEW p \in Products,
         Restore(run, p) \/ Rebuild(run, p)
  PROVE  \E new \in Runs :
           /\ publishing' = (publishing \ {run}) \cup {new}
           /\ new.id = run.id /\ new.tree = run.tree
           /\ FreshBuilt(new.built, new.tree)
<1>1. run \in Runs /\ FreshBuilt(run.built, run.tree) /\ run.tree \in Trees
  BY DEF TypeInv, FreshInv, Runs
<1>2. CASE Restore(run, p)
  <2>1. PICK entry \in cache :
          /\ entry.product = p /\ entry.key = Key(p, run.tree)
          /\ Step(run, WithProduct(run, p, entry.content))
    BY <1>2 DEF Restore
  <2>2. entry.content \in Contents
    BY DEF TypeInv, Entries
  <2>3. ASSUME NEW a \in Covered(p) PROVE entry.content[a] = run.tree[a]
    <3>1. entry.content[a] = entry.key[a] /\ a \in Hashes(p)
      BY <2>1, KeysCover DEF FreshInv
    <3>2. QED
      BY <2>1, <3>1 DEF Key, Only
  <2>4. QED
    BY <1>1, <2>1, <2>2, <2>3, ProductJoins DEF Step
<1>3. CASE Rebuild(run, p)
  <2>1. Step(run, WithProduct(run, p, Build(p, run.tree)))
    BY <1>3 DEF Rebuild
  <2>2. ASSUME NEW a \in Covered(p) PROVE Build(p, run.tree)[a] = run.tree[a]
    BY KeysCover DEF Build, Only
  <2>3. QED
    BY <1>1, <2>1, <2>2, ProductJoins, PartsOfTrees DEF Step
<1> QED
  BY <1>2, <1>3

-----------------------------------------------------------------------------
(* Every step preserves it, conjunct by conjunct.                          *)

\* TypeInv: a run's number is counted before the push or the manual start
\* that starts it, so there is one for it.
LEMMA TypeStep ==
  ASSUME IInv, [Next]_vars
  PROVE  TypeInv'
<1> USE DEF IInv
<1>1. CASE Push
  <2>1. /\ started' \in Nat /\ started' <= pushes' + dispatches'
        /\ publishing' \subseteq Runs /\ events' \in Seq({"success", "failure", "cancelled"})
    <3>1. pushes' = pushes + 1 /\ dispatches' = dispatches
      BY <1>1, PushStarts
    <3>2. CASE StartPublish(head')
      <4>1. /\ publishing' \subseteq Runs /\ started' = started + 1
            /\ events' \in Seq({"success", "failure", "cancelled"})
        BY <1>1, <3>2, PushStarts, PublishStarts
      <4>2. QED
        BY <3>1, <4>1 DEF TypeInv
    <3>3. CASE UNCHANGED <<publishVars, events>>
      BY <3>1, <3>3 DEF TypeInv
    <3>4. QED
      BY <1>1, <3>2, <3>3, PushStarts
  <2>2. imaging' \subseteq ImageRuns
    <3>1. CASE StartImage(head', "push")
      BY <1>1, <3>1, PushStarts, ImageStarts
    <3>2. CASE imaging' = imaging
      BY <3>2 DEF TypeInv
    <3>3. QED
      BY <1>1, <3>1, <3>2, PushStarts
  <2>3. head' \in Trees /\ pushes' \in 0 .. MaxPushes /\ UNCHANGED <<cache, pages, flash, dispatches>>
    BY <1>1, PushStarts DEF TypeInv
  <2>4. QED
    BY <2>1, <2>2, <2>3 DEF TypeInv
<1>2. CASE Dispatch
  <2>1. head \in Trees
    BY DEF TypeInv
  <2>2. /\ dispatches' = dispatches + 1 /\ dispatches' \in 0 .. MaxDispatches
        /\ UNCHANGED <<head, pushes, cache, pages, flash>>
    BY <1>2, DispatchStarts
  <2>3. CASE StartPublish(head) /\ imaging' = imaging
    <3>1. /\ publishing' \subseteq Runs /\ started' = started + 1
          /\ events' \in Seq({"success", "failure", "cancelled"})
      BY <1>2, <2>1, <2>3, DispatchStarts, PublishStarts
    <3>2. started' \in Nat /\ started' <= pushes' + dispatches'
      BY <2>2, <3>1 DEF TypeInv
    <3>3. QED
      BY <2>2, <2>3, <3>1, <3>2 DEF TypeInv
  <2>4. CASE StartImage(head, "dispatch") /\ UNCHANGED <<publishVars, events>>
    <3>1. imaging' \subseteq ImageRuns
      BY <2>1, <2>4, ImageStarts
    <3>2. started' \in Nat /\ started' <= pushes' + dispatches'
      BY <2>2, <2>4 DEF TypeInv
    <3>3. QED
      BY <2>2, <2>4, <3>1, <3>2 DEF TypeInv
  <2>5. QED
    BY <1>2, <2>3, <2>4, DispatchStarts
<1>3. ASSUME NEW run \in publishing, NEW p \in Products, Restore(run, p) \/ Rebuild(run, p)
      PROVE  TypeInv'
  <2>1. publishing' \subseteq Runs
    BY <1>3, StepKeeps DEF TypeInv
  <2>2. cache' \subseteq Entries
    <3>1. CASE Restore(run, p)
      BY <3>1 DEF Restore, TypeInv
    <3>2. CASE Rebuild(run, p)
      <4>1. run.tree \in Trees
        BY DEF TypeInv, Runs
      <4>2. [product |-> p, key |-> Key(p, run.tree), content |-> Build(p, run.tree)]
                \in Entries
        BY <4>1, PartsOfTrees DEF Entries
      <4>3. QED
        BY <3>2, <4>2 DEF Rebuild, TypeInv
    <3>3. QED
      BY <1>3, <3>1, <3>2
  <2>3. UNCHANGED <<head, pushes, started, pages, events, imaging, flash, counters>>
    BY <1>3 DEF Restore, Rebuild
  <2>4. QED
    BY <2>1, <2>2, <2>3 DEF TypeInv
<1>4. ASSUME NEW run \in publishing, Deploy(run) PROVE TypeInv'
  <2>1. run \in Runs
    BY DEF TypeInv
  <2>2. pages' \in Sites /\ [run EXCEPT !.deployed = TRUE] \in Runs
    BY <1>4, <2>1 DEF Deploy, Runs, Sites
  <2>3. QED
    BY <1>4, <2>2 DEF Deploy, Step, TypeInv
<1>5. ASSUME NEW run \in publishing, Complete(run) PROVE TypeInv'
  BY <1>5 DEF Complete, TypeInv
<1>6. ASSUME NEW run \in publishing, Fail(run) PROVE TypeInv'
  BY <1>6 DEF Fail, TypeInv
<1>7. CASE WorkflowRun
  <2>1. events' \in Seq({"success", "failure", "cancelled"})
    BY <1>7 DEF WorkflowRun, TypeInv
  <2>2. head \in Trees
    BY DEF TypeInv
  <2>3. imaging' \subseteq ImageRuns
    BY <1>7, <2>2, ImageStarts DEF WorkflowRun
  <2>4. QED
    BY <1>7, <2>1, <2>3 DEF WorkflowRun, TypeInv
<1>8. ASSUME NEW image \in imaging, BuildRootfs(image) PROVE TypeInv'
  <2>1. image \in ImageRuns /\ pages.id \in RunIds
    BY <1>8 DEF TypeInv, BuildRootfs, Sites
  <2>2. [image EXCEPT !.rootfs = pages.id] \in ImageRuns
    BY <2>1 DEF ImageRuns
  <2>3. QED
    BY <1>8, <2>2 DEF BuildRootfs, TypeInv
<1>9. ASSUME NEW image \in imaging, NothingThere(image) \/ ImageFails(image) PROVE TypeInv'
  BY <1>9 DEF NothingThere, ImageFails, TypeInv
<1>10. ASSUME NEW image \in imaging, PackFlashSet(image) PROVE TypeInv'
  <2>1. image \in ImageRuns /\ pages \in Sites
    BY <1>10 DEF TypeInv, PackFlashSet, FlashInv
  <2>2. flash' \in FlashSets
    BY <1>10, <2>1 DEF PackFlashSet, ImageRuns, Sites, FlashSets
  <2>3. QED
    BY <1>10, <2>2 DEF PackFlashSet, TypeInv
<1>11. CASE UNCHANGED vars
  BY <1>11 DEF vars, TypeInv
<1> QED
  BY <1>1, <1>2, <1>3, <1>4, <1>5, <1>6, <1>7, <1>8, <1>9, <1>10, <1>11
  DEF Next, PublishStep, ImageStep, Failure

\* GroupInv: a start cancels what is under way, every other step has at most
\* one run take the place of one.
LEMMA GroupStep ==
  ASSUME IInv, [Next]_vars
  PROVE  GroupInv'
<1> USE DEF IInv
<1>1. CASE Push
  <2>1. \A r, s \in publishing' : r = s
    BY <1>1, PushStarts DEF GroupInv, StartPublish
  <2>2. \A i, j \in imaging' : i = j
    BY <1>1, PushStarts DEF GroupInv, StartImage
  <2>3. QED
    BY <2>1, <2>2 DEF GroupInv
<1>2. CASE Dispatch
  BY <1>2, DispatchStarts DEF GroupInv, StartPublish, StartImage
<1>3. ASSUME NEW run \in publishing, NEW p \in Products, Restore(run, p) \/ Rebuild(run, p)
      PROVE  GroupInv'
  <2>1. PICK new : publishing' = (publishing \ {run}) \cup {new}
    BY <1>3, StepKeeps
  <2>2. imaging' = imaging
    BY <1>3 DEF Restore, Rebuild
  <2>3. QED
    BY <2>1, <2>2 DEF GroupInv
<1>4. ASSUME NEW run \in publishing, Deploy(run) \/ Complete(run) \/ Fail(run) PROVE GroupInv'
  BY <1>4 DEF Deploy, Step, Complete, Fail, GroupInv
<1>5. CASE WorkflowRun
  BY <1>5 DEF WorkflowRun, StartImage, GroupInv
<1>6. ASSUME NEW image \in imaging,
             \/ BuildRootfs(image) \/ NothingThere(image)
             \/ PackFlashSet(image) \/ ImageFails(image)
      PROVE  GroupInv'
  BY <1>6 DEF BuildRootfs, NothingThere, PackFlashSet, ImageFails, GroupInv
<1>7. CASE UNCHANGED vars
  BY <1>7 DEF vars, GroupInv
<1> QED
  BY <1>1, <1>2, <1>3, <1>4, <1>5, <1>6, <1>7
  DEF Next, PublishStep, ImageStep, Failure

\* FreshInv: a run that saves its product under its key makes an honest
\* entry; one that restores finds one.
LEMMA FreshStep ==
  ASSUME IInv, [Next]_vars
  PROVE  FreshInv'
<1> USE DEF IInv
<1>1. ASSUME Push \/ Dispatch PROVE FreshInv'
  <2>1. UNCHANGED <<cache, pages>>
    BY <1>1 DEF Push, Dispatch
  <2>2. ASSUME NEW tree \in Trees, StartPublish(tree),
               pushes + dispatches < MaxPushes + MaxDispatches
        PROVE  \A run \in publishing' : FreshBuilt(run.built, run.tree)
    BY <2>2, PublishStarts DEF FreshBuilt
  <2>3. ASSUME publishing' = publishing
        PROVE  \A run \in publishing' : FreshBuilt(run.built, run.tree)
    BY <2>3 DEF FreshInv
  <2>4. \A run \in publishing' : FreshBuilt(run.built, run.tree)
    <3>1. head \in Trees
      BY DEF TypeInv
    <3>2. QED
      BY <1>1, <2>2, <2>3, <3>1, PushStarts, DispatchStarts
  <2>5. QED
    BY <2>1, <2>4 DEF FreshInv, FreshProducts
<1>2. ASSUME NEW run \in publishing, NEW p \in Products, Restore(run, p) \/ Rebuild(run, p)
      PROVE  FreshInv'
  <2>1. \A r \in publishing' : FreshBuilt(r.built, r.tree)
    BY <1>2, StepKeeps DEF FreshInv
  <2>2. ASSUME NEW entry \in cache', NEW a \in Covered(entry.product)
        PROVE  entry.content[a] = entry.key[a]
    <3>1. CASE entry \in cache
      BY <2>2, <3>1 DEF FreshInv
    <3>2. CASE entry \notin cache
      <4>1. entry = [product |-> p, key |-> Key(p, run.tree), content |-> Build(p, run.tree)]
        BY <1>2, <3>2 DEF Restore, Rebuild
      <4>2. a \in Hashes(p) /\ a \in Reads(p)
        BY <2>2, <4>1, KeysCover
      <4>3. QED
        BY <4>1, <4>2 DEF Key, Build, Only
    <3>3. QED
      BY <3>1, <3>2
  <2>3. pages' = pages
    BY <1>2 DEF Restore, Rebuild
  <2>4. QED
    BY <2>1, <2>2, <2>3 DEF FreshInv, FreshProducts
<1>3. ASSUME NEW run \in publishing, Deploy(run) PROVE FreshInv'
  <2>1. run \in Runs /\ FreshBuilt(run.built, run.tree)
    BY DEF FreshInv, TypeInv
  <2>2. FreshProducts'
    <3>1. /\ pages'.built = run.built /\ pages'.tree = run.tree
          /\ DOMAIN run.built = Products
      BY <1>3 DEF Deploy
    <3>2. QED
      BY <2>1, <3>1 DEF FreshProducts, FreshBuilt, Covered
  <2>3. \A r \in publishing' : FreshBuilt(r.built, r.tree)
    <3>1. /\ [run EXCEPT !.deployed = TRUE].built = run.built
          /\ [run EXCEPT !.deployed = TRUE].tree = run.tree
      BY <2>1 DEF Runs
    <3>2. QED
      BY <1>3, <2>1, <3>1 DEF Deploy, Step, FreshInv
  <2>4. cache' = cache
    BY <1>3 DEF Deploy
  <2>5. QED
    BY <2>2, <2>3, <2>4 DEF FreshInv
<1>4. ASSUME NEW run \in publishing, Complete(run) \/ Fail(run) PROVE FreshInv'
  BY <1>4 DEF Complete, Fail, FreshInv, FreshProducts
<1>5. ASSUME UNCHANGED <<publishing, cache, pages>> PROVE FreshInv'
  BY <1>5 DEF FreshInv, FreshProducts
<1>6. ASSUME NEW image \in imaging,
             \/ BuildRootfs(image) \/ NothingThere(image)
             \/ PackFlashSet(image) \/ ImageFails(image)
      PROVE  FreshInv'
  BY <1>5, <1>6 DEF BuildRootfs, NothingThere, PackFlashSet, ImageFails
<1>7. CASE WorkflowRun \/ UNCHANGED vars
  BY <1>5, <1>7 DEF WorkflowRun, vars
<1> QED
  BY <1>1, <1>2, <1>3, <1>4, <1>6, <1>7 DEF Next, PublishStep, ImageStep, Failure

\* PagesInv: a run starts with the tree of the branch and deploys it while
\* no newer run has started.
LEMMA PagesStep ==
  ASSUME IInv, TypeInv', [Next]_vars
  PROVE  PagesInv'
<1> USE DEF IInv
<1> DEFINE RunInv(run) ==
      /\ NotNewer(run.tree, head) /\ run.id <= started
      /\ pages \in Sites => NotNewer(pages.tree, run.tree) /\ pages.id <= run.id
<1>1. head \in Trees /\ head' \in Trees /\ started \in Nat
  BY DEF TypeInv
<1>2. pages \in Sites => pages.tree \in Trees /\ pages.id \in Nat
  BY DEF Sites, RunIds
<1>3. \A run \in publishing : run \in Runs /\ run.tree \in Trees /\ run.id \in Nat
  BY DEF TypeInv, Runs, RunIds
<1>4. ASSUME Push \/ Dispatch PROVE PagesInv'
  <2>1. /\ NotNewer(head, head') /\ pages' = pages
        /\ \A a \in Areas : head'[a] <= pushes'
    BY <1>1, <1>4, PushStarts, DispatchStarts, NotNewerReflexive DEF PagesInv
  <2>2. /\ pages' \in Sites => NotNewer(pages'.tree, head')
        /\ \A run \in publishing : NotNewer(run.tree, head')
    BY <1>1, <1>2, <1>3, <2>1, NotNewerTransitive DEF PagesInv
  <2>3. ASSUME StartPublish(head'), pushes + dispatches < MaxPushes + MaxDispatches
        PROVE  PagesInv'
    <3>1. /\ started' = started + 1
          /\ \A run \in publishing' : run.tree = head' /\ run.id = started + 1
      BY <1>1, <2>3, PublishStarts
    <3>2. pages' \in Sites => pages'.id <= started
      BY <2>1 DEF PagesInv
    <3>3. NotNewer(head', head')
      BY <1>1, NotNewerReflexive
    <3>4. QED
      BY <1>1, <1>2, <2>1, <2>2, <3>1, <3>2, <3>3 DEF PagesInv
  <2>4. ASSUME UNCHANGED <<publishVars, events>> PROVE PagesInv'
    BY <2>1, <2>2, <2>4 DEF PagesInv
  <2>5. QED
    BY <1>4, <2>3, <2>4, PushStarts, DispatchStarts
<1>5. ASSUME NEW run \in publishing, NEW p \in Products, Restore(run, p) \/ Rebuild(run, p)
      PROVE  PagesInv'
  <2>1. PICK new : /\ publishing' = (publishing \ {run}) \cup {new}
                   /\ new.id = run.id /\ new.tree = run.tree
    BY <1>5, StepKeeps
  <2>2. UNCHANGED <<head, pushes, started, pages>>
    BY <1>5 DEF Restore, Rebuild
  <2>3. QED
    BY <2>1, <2>2 DEF PagesInv
<1>6. ASSUME NEW run \in publishing, Deploy(run) PROVE PagesInv'
  <2>1. /\ pages'.tree = run.tree /\ pages'.id = run.id
        /\ UNCHANGED <<head, pushes, started>>
    BY <1>6 DEF Deploy
  <2>2. \A r \in publishing' : r.tree = run.tree /\ r.id = run.id
    <3>1. /\ [run EXCEPT !.deployed = TRUE].tree = run.tree
          /\ [run EXCEPT !.deployed = TRUE].id = run.id
      BY <1>3 DEF Runs
    <3>2. QED
      BY <1>6, <3>1 DEF Deploy, Step, GroupInv
  <2>3. NotNewer(run.tree, run.tree)
    BY <1>3, NotNewerReflexive
  <2>4. QED
    BY <1>3, <2>1, <2>2, <2>3 DEF PagesInv
<1>7. ASSUME NEW run \in publishing, Complete(run) \/ Fail(run) PROVE PagesInv'
  BY <1>7 DEF Complete, Fail, PagesInv
<1>8. ASSUME UNCHANGED <<head, pushes, started, publishing, pages>> PROVE PagesInv'
  BY <1>8 DEF PagesInv
<1>9. ASSUME NEW image \in imaging,
             \/ BuildRootfs(image) \/ NothingThere(image)
             \/ PackFlashSet(image) \/ ImageFails(image)
      PROVE  PagesInv'
  BY <1>8, <1>9 DEF BuildRootfs, NothingThere, PackFlashSet, ImageFails
<1>10. CASE WorkflowRun \/ UNCHANGED vars
  BY <1>8, <1>10 DEF WorkflowRun, vars
<1> QED
  BY <1>4, <1>5, <1>6, <1>7, <1>9, <1>10 DEF Next, PublishStep, ImageStep, Failure

\* FlashInv: an image run starts after the flash set there is, and reads
\* Pages later still.
LEMMA FlashStep ==
  ASSUME IInv, TypeInv', PagesInv', [Next]_vars
  PROVE  FlashInv'
<1> USE DEF IInv
<1>1. head \in Trees /\ head' \in Trees
  BY DEF TypeInv
<1>2. (pages # None => pages \in Sites) /\ (pages \in Sites => pages.id \in Nat)
  BY DEF TypeInv, Sites, RunIds
<1>3. flash # None => flash.tree \in Trees /\ flash.rootfs \in Nat /\ flash.pack \in Nat
  BY DEF TypeInv, FlashSets, RunIds
<1>4. \A image \in imaging :
        /\ image \in ImageRuns /\ image.tree \in Trees
        /\ image.rootfs # None => image.rootfs \in Nat
  BY DEF TypeInv, ImageRuns, RunIds
<1>5. ASSUME NEW event \in {"push", "dispatch", "workflow_run"}, StartImage(head', event),
             NotNewer(head, head'), UNCHANGED <<pages, flash>>
      PROVE  FlashInv'
  <2>1. \A image \in imaging' : image.tree = head' /\ image.rootfs = None
    BY <1>1, <1>5, ImageStarts
  <2>2. flash # None => NotNewer(flash.tree, head')
    BY <1>1, <1>3, <1>5, NotNewerTransitive DEF FlashInv
  <2>3. NotNewer(head', head')
    BY <1>1, NotNewerReflexive
  <2>4. QED
    BY <1>5, <2>1, <2>2, <2>3 DEF FlashInv
<1>6. ASSUME imaging' \subseteq imaging, NotNewer(head, head'), UNCHANGED <<pages, flash>>
      PROVE  FlashInv'
  <2>1. flash # None => NotNewer(flash.tree, head')
    BY <1>1, <1>3, <1>6, NotNewerTransitive DEF FlashInv
  <2>2. \A image \in imaging : NotNewer(image.tree, head')
    BY <1>1, <1>4, <1>6, NotNewerTransitive DEF FlashInv
  <2>3. QED
    BY <1>6, <2>1, <2>2 DEF FlashInv
<1>7. NotNewer(head, head)
  BY <1>1, NotNewerReflexive
<1>8. CASE Push
  <2>1. NotNewer(head, head') /\ UNCHANGED <<pages, flash>>
    BY <1>8, PushStarts
  <2>2. imaging' = imaging \/ StartImage(head', "push")
    BY <1>8, PushStarts
  <2>3. QED
    BY <1>5, <1>6, <2>1, <2>2
<1>9. CASE Dispatch
  <2>1. /\ imaging' = imaging \/ StartImage(head', "dispatch")
        /\ UNCHANGED <<head, pages, flash>>
    BY <1>9, DispatchStarts
  <2>2. QED
    BY <1>5, <1>6, <1>7, <2>1
<1>10. ASSUME NEW run \in publishing, NEW p \in Products, Restore(run, p) \/ Rebuild(run, p)
       PROVE  FlashInv'
  BY <1>6, <1>7, <1>10 DEF Restore, Rebuild
<1>11. ASSUME NEW run \in publishing, Complete(run) \/ Fail(run) PROVE FlashInv'
  BY <1>6, <1>7, <1>11 DEF Complete, Fail
<1>12. ASSUME NEW run \in publishing, Deploy(run) PROVE FlashInv'
  <2>1. run.id \in Nat /\ (pages \in Sites => pages.id <= run.id)
    BY DEF PagesInv, TypeInv, Runs, RunIds
  <2>2. pages' \in Sites /\ pages'.id = run.id
    BY <1>12 DEF Deploy, TypeInv, Runs, Sites
  <2>3. QED
    BY <1>2, <1>3, <1>4, <1>12, <2>1, <2>2 DEF Deploy, FlashInv
<1>13. CASE WorkflowRun
  <2>1. /\ StartImage(head', "workflow_run") \/ imaging' \subseteq imaging
        /\ UNCHANGED <<head, pages, flash>>
    BY <1>13 DEF WorkflowRun
  <2>2. QED
    BY <1>5, <1>6, <1>7, <2>1
<1>14. ASSUME NEW image \in imaging, BuildRootfs(image) PROVE FlashInv'
  <2>1. \A i \in imaging' : i.tree = image.tree /\ i.rootfs = pages.id
    <3>1. /\ [image EXCEPT !.rootfs = pages.id].tree = image.tree
          /\ [image EXCEPT !.rootfs = pages.id].rootfs = pages.id
      BY <1>4 DEF ImageRuns
    <3>2. QED
      BY <1>14, <3>1 DEF BuildRootfs, GroupInv
  <2>2. pages # None /\ UNCHANGED <<head, pages, flash>>
    BY <1>14 DEF BuildRootfs
  <2>3. QED
    BY <1>2, <2>1, <2>2 DEF FlashInv
<1>15. ASSUME NEW image \in imaging, NothingThere(image) \/ ImageFails(image) PROVE FlashInv'
  BY <1>6, <1>7, <1>15 DEF NothingThere, ImageFails
<1>16. ASSUME NEW image \in imaging, PackFlashSet(image) PROVE FlashInv'
  <2>1. /\ flash'.tree = image.tree /\ flash'.rootfs = image.rootfs /\ flash'.pack = pages.id
        /\ image.rootfs # None /\ UNCHANGED <<head, pages>>
        /\ imaging' = {}
    BY <1>16 DEF PackFlashSet, GroupInv
  <2>2. pages \in Sites /\ image.rootfs <= pages.id /\ NotNewer(image.tree, head)
    BY <2>1 DEF FlashInv
  <2>3. QED
    BY <1>2, <2>1, <2>2 DEF FlashInv
<1>17. CASE UNCHANGED vars
  BY <1>6, <1>7, <1>17 DEF vars
<1> QED
  BY <1>8, <1>9, <1>10, <1>11, <1>12, <1>13, <1>14, <1>15, <1>16, <1>17
  DEF Next, PublishStep, ImageStep, Failure

-----------------------------------------------------------------------------
(* The theorems.                                                           *)

\* The invariant holds in every reachable state of the two workflows.
THEOREM Invariance == Spec => []IInv
<1>1. IInv /\ [Next]_vars => IInv'
  BY TypeStep, GroupStep, FreshStep, PagesStep, FlashStep DEF IInv
<1> QED
  BY <1>1, InitIInv, PTL DEF Spec

\* In a set of which all members are the same there is at most one.
LEMMA AtMostOne ==
  ASSUME NEW S, \A x, y \in S : x = y
  PROVE  Cardinality(S) <= 1
<1>1. CASE S = {}
  BY <1>1, FS_EmptySet
<1>2. CASE S # {}
  <2>1. PICK x : S = {x}
    BY <1>2
  <2>2. Cardinality({x}) = 1
    BY FS_Singleton
  <2>3. QED
    BY <2>1, <2>2
<1> QED
  BY <1>1, <1>2

\* Every variable of the workflows' model always has its type, and each
\* concurrency group holds at most one run.
THEOREM TypeCorrect == Spec => []TypeOK
<1>1. IInv => TypeOK
  <2> SUFFICES ASSUME IInv PROVE TypeOK
    OBVIOUS
  <2> USE DEF IInv, TypeInv
  <2>1. started \in RunIds \cup {0}
    BY DEF RunIds
  <2>2. Cardinality(publishing) <= 1 /\ Cardinality(imaging) <= 1
    BY AtMostOne DEF GroupInv
  <2>3. ASSUME NEW built \in Builts PROVE DOMAIN built \subseteq Products
    BY <2>3 DEF Builts
  <2>4. \A run \in publishing :
          /\ run.id \in RunIds /\ run.tree \in Trees /\ run.deployed \in BOOLEAN
          /\ DOMAIN run.built \subseteq Products
    BY <2>3 DEF Runs
  <2>5. \A entry \in cache :
          entry.product \in Products /\ {entry.key, entry.content} \subseteq Contents
    BY DEF Entries
  <2>6. pages # None => pages.id \in RunIds /\ DOMAIN pages.built \subseteq Products
    BY <2>3 DEF Sites
  <2>7. \A i \in 1 .. Len(events) : events[i] \in {"success", "failure", "cancelled"}
    OBVIOUS
  <2>8. \A image \in imaging :
          /\ image.tree \in Trees /\ image.rootfs \in RunIds \cup {None}
          /\ image.event \in {"push", "dispatch", "workflow_run"}
    BY DEF ImageRuns
  <2>9. flash # None => {flash.rootfs, flash.pack} \subseteq RunIds
    BY DEF FlashSets
  <2>10. QED
    BY <2>1, <2>2, <2>4, <2>5, <2>6, <2>7, <2>8, <2>9 DEF TypeOK
<1> QED
  BY <1>1, Invariance, PTL

\* Pages always serves every product as a build of the published tree would
\* give it, except for the two areas that no key covers.
THEOREM ProductsFresh == Spec => []FreshProducts
<1>1. IInv => FreshProducts
  BY DEF IInv, FreshInv
<1> QED
  BY <1>1, Invariance, PTL

\* A deployment never replaces a newer tree.
THEOREM PagesForward == Spec => PagesNeverGoBack
<1>1. IInv /\ [Next]_vars =>
        [pages # None => NotNewer(pages.tree, pages'.tree)]_vars
  <2> SUFFICES ASSUME IInv, [Next]_vars, pages # None
               PROVE  NotNewer(pages.tree, pages'.tree)
    OBVIOUS
  <2>1. pages \in Sites /\ pages.tree \in Trees
    BY DEF IInv, TypeInv, Sites
  <2>2. CASE pages' = pages
    BY <2>1, <2>2, NotNewerReflexive
  <2>3. ASSUME NEW run \in publishing, Deploy(run)
        PROVE  NotNewer(pages.tree, pages'.tree)
    BY <2>1, <2>3 DEF Deploy, IInv, PagesInv
  <2>4. pages' = pages \/ \E run \in publishing : Deploy(run)
    BY DEF Next, Push, Dispatch, PublishStep, Restore, Rebuild, Complete, WorkflowRun,
           ImageStep, BuildRootfs, NothingThere, PackFlashSet, Failure, Fail, ImageFails,
           vars
  <2>5. QED
    BY <2>2, <2>3, <2>4
<1> QED
  BY <1>1, Invariance, PTL DEF Spec, PagesNeverGoBack

\* A flash set never replaces one of a newer tree or newer publications.
THEOREM FlashForward == Spec => FlashNeverGoesBack
<1>1. IInv /\ [Next]_vars =>
        [flash # None => /\ NotNewer(flash.tree, flash'.tree)
                         /\ flash.rootfs <= flash'.rootfs
                         /\ flash.pack <= flash'.pack]_vars
  <2> SUFFICES ASSUME IInv, [Next]_vars, flash # None
               PROVE  /\ NotNewer(flash.tree, flash'.tree)
                      /\ flash.rootfs <= flash'.rootfs
                      /\ flash.pack <= flash'.pack
    OBVIOUS
  <2>1. flash.tree \in Trees /\ flash.rootfs \in Nat /\ flash.pack \in Nat
    BY DEF IInv, TypeInv, FlashSets, RunIds
  <2>2. CASE flash' = flash
    BY <2>1, <2>2, NotNewerReflexive
  <2>3. ASSUME NEW image \in imaging, PackFlashSet(image)
        PROVE  /\ NotNewer(flash.tree, flash'.tree)
               /\ flash.rootfs <= flash'.rootfs
               /\ flash.pack <= flash'.pack
    BY <2>3 DEF PackFlashSet, IInv, FlashInv
  <2>4. flash' = flash \/ \E image \in imaging : PackFlashSet(image)
    BY DEF Next, Push, Dispatch, PublishStep, Restore, Rebuild, Deploy, Complete,
           WorkflowRun, ImageStep, BuildRootfs, NothingThere, Failure, Fail, ImageFails,
           vars
  <2>5. QED
    BY <2>2, <2>3, <2>4
<1> QED
  BY <1>1, Invariance, PTL DEF Spec, FlashNeverGoesBack
=============================================================================
