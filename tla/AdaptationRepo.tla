--------------------------- MODULE AdaptationRepo ---------------------------
(***************************************************************************)
(* The local RPM repository of an image run, as far as Mesa goes, the      *)
(* package that packing insists on: seed-adaptation-from-pages.sh fetches  *)
(* it from GitHub Pages, the workflow packs it when it is not there, and   *)
(* mic installs it into the root file system, or does not.                 *)
(***************************************************************************)
CONSTANTS
    Names,   \* the file names that versions of the package have
    NULL

VARIABLES
    published,  \* the name that Pages lists
    listed,     \* the name the seeding has read and has to fetch, or NULL
    repo,       \* each file in repo/adaptation: "none", "part" or "whole"
    tbz         \* the root file system tarball: "none", with "stock" or "mesa"

repoVars == <<published, listed, repo, tbz>>

RepoInit ==
    /\ published \in Names
    /\ listed = NULL
    /\ repo = [n \in Names |-> "none"]
    /\ tbz = "none"

Present == {n \in Names : repo[n] # "none"}
Whole == {n \in Names : repo[n] = "whole"}

\* A deployment replaces the site, at any moment.
Publish(name) ==
    /\ name # published
    /\ published' = name
    /\ UNCHANGED <<listed, repo, tbz>>

\* repomd.xml and primary.xml; without them the script ends, with a warning.
ReadPrimary ==
    /\ listed = NULL
    /\ listed' = published
    /\ UNCHANGED <<published, repo, tbz>>

\* A file that is there already is kept, unless the seeding is forced.
KeepLocal ==
    /\ listed \in Present
    /\ listed' = NULL
    /\ UNCHANGED <<published, repo, tbz>>

\* curl, and again under the other URL.  It creates the file with the first
\* bytes and keeps what it has got when the connection breaks; a file that
\* the new site does not have is not created.  The script only warns.
Fetch(force) ==
    /\ listed # NULL
    /\ listed \in Present => force
    /\ \E file \in {repo[listed], "part"}
                    \cup (IF listed = published THEN {"whole"} ELSE {}) :
        repo' = [repo EXCEPT ![listed] = file]
    /\ listed' = NULL
    /\ UNCHANGED <<published, tbz>>

\* "If mesa-pipa RPM still missing, pack from Pages Mesa tarball."
PackMissing(name) ==
    /\ listed = NULL
    /\ Present = {}
    /\ repo' = [repo EXCEPT ![name] = "whole"]
    /\ UNCHANGED <<published, listed, tbz>>

\* mic makes a root file system with the package, or with stock Mesa; the
\* workflow then wants to install it from every file in the repository.
RunMic ==
    /\ listed = NULL
    /\ Present # {}
    /\ tbz' \in {"stock"} \cup (IF Whole = {} THEN {} ELSE {"mesa"})
    /\ UNCHANGED <<published, listed, repo>>

RepoStep ==
    \/ \E name \in Names : Publish(name) \/ PackMissing(name)
    \/ ReadPrimary \/ KeepLocal
    \/ \E force \in BOOLEAN : Fetch(force)
    \/ RunMic

RepoTypeOK ==
    /\ published \in Names /\ listed \in Names \cup {NULL}
    /\ repo \in [Names -> {"none", "part", "whole"}]
    /\ tbz \in {"none", "stock", "mesa"}
=============================================================================
