-------------------------------- MODULE Releases --------------------------------
(***************************************************************************)
(* The release catalogue (central/releases.ts): a directory that           *)
(* scripts/publish-release.sh or an operator's copy fills while Central    *)
(* reads it anew at every request, the downloads an installer begins and   *)
(* the update check of a Central that starts (central/update-check.ts).    *)
(*                                                                         *)
(* A build is numbered by created_at_ms; rebuilding a version makes a new  *)
(* build, perhaps of the same size.  No two have the same SHA-256.         *)
(***************************************************************************)
EXTENDS Integers, Sequences, FiniteSets

CONSTANTS
  Version,  \* numbers in the order of versions
  MaxBuilds,\* bound
  Size,     \* of an artifact
  None

VARIABLES
  builds,   \* build -> its version, channel and size
  bundle,   \* version -> its artifact in the directory: of a build, all of it or
            \* a shorter part; or None
  manifest, \* version -> the build its manifest describes, or None
  job,      \* an installer's download: [version, sha], by the headers; or None
  installed,\* history: artifacts an installer started
  approved, \* history: builds that were listed as stable releases
  current,  \* the version Central runs
  notice    \* the version its update check announced at the start, or None

releasesVars == <<builds, bundle, manifest, job, installed, approved, current, notice>>

ReleasesAssumption ==
  /\ Version \cup Size \subseteq Nat
  /\ None \notin Nat /\ None \notin [build: Nat, whole: BOOLEAN, size: Nat]

ReleasesInit ==
  /\ builds = <<>>
  /\ bundle = [v \in Version |-> None] /\ manifest = [v \in Version |-> None]
  /\ job = None /\ installed = {} /\ approved = {}
  /\ current \in Version /\ notice = None

-----------------------------------------------------------------------------
\* list: a manifest counts when a file of the size it says is there.
List(channel) ==
  {v \in Version : /\ manifest[v] # None /\ builds[manifest[v]].channel = channel
                   /\ bundle[v] # None /\ bundle[v].size = builds[manifest[v]].size}

\* The newest by created_at_ms; None of an empty list.
First(list) ==
  IF list = {} THEN None
  ELSE CHOOSE v \in list : \A w \in list : manifest[w] <= manifest[v]

Approved == {manifest[v] : v \in List("stable")}

\* The publisher builds a version.
Build(v, channel, size) ==
  /\ Len(builds) < MaxBuilds
  /\ builds' = Append(builds, [version |-> v, channel |-> channel, size |-> size])
  /\ UNCHANGED <<bundle, manifest, job, installed, approved, current, notice>>

\* Its files reach the directory, the artifact bit by bit, in this order or, copied
\* by hand, another; they may be removed or replaced by those of another build.
PutBundle(b) ==
  /\ \E n \in 0..builds[b].size :
       bundle' = [bundle EXCEPT ![builds[b].version] =
                    [build |-> b, whole |-> n = builds[b].size, size |-> n]]
  /\ UNCHANGED <<builds, manifest, job, installed, current, notice>>
  /\ approved' = approved \cup Approved'

PutManifest(b) ==
  /\ manifest' = [manifest EXCEPT ![builds[b].version] = b]
  /\ UNCHANGED <<builds, bundle, job, installed, current, notice>>
  /\ approved' = approved \cup Approved'

Remove(v) ==
  /\ \/ bundle' = [bundle EXCEPT ![v] = None] /\ UNCHANGED manifest
     \/ manifest' = [manifest EXCEPT ![v] = None] /\ UNCHANGED bundle
  /\ UNCHANGED <<builds, job, installed, approved, current, notice>>

\* The installer asks, at first or again: the headers carry the SHA-256 of the
\* manifest, the bundle follows.
Ask ==
  /\ First(List("stable")) # None
  /\ job' = [version |-> First(List("stable")), sha |-> manifest[First(List("stable"))]]
  /\ UNCHANGED <<builds, bundle, manifest, installed, approved, current, notice>>

\* Mutant: a file of the right length is started without comparing its sum.
ReceiveUnverified ==
  /\ job # None /\ job' = None
  /\ LET file == bundle[job.version]
     IN installed' = IF file # None /\ file.size = builds[job.sha].size
                     THEN installed \cup {file} ELSE installed
  /\ UNCHANGED <<builds, bundle, manifest, approved, current, notice>>

\* The stream is of whatever the file is when it is read; the installer starts one
\* of that sum and gives up on any other.
Receive ==
  /\ job # None /\ job' = None
  /\ LET file == bundle[job.version]
     IN installed' = IF file # None /\ file.build = job.sha /\ file.whole
                     THEN installed \cup {file} ELSE installed
  /\ UNCHANGED <<builds, bundle, manifest, approved, current, notice>>

\* newerReleaseExists, as Central starts: the first of the list is looked at.
Start(v) ==
  LET latest == First(List("stable"))
  IN /\ current' = v
     /\ notice' = IF latest # None /\ latest > v THEN latest ELSE None
     /\ UNCHANGED <<builds, bundle, manifest, job, installed, approved>>

ReleasesNext ==
  \/ \E v \in Version, channel \in {"stable", "canary"}, n \in Size : Build(v, channel, n)
  \/ \E b \in DOMAIN builds : PutBundle(b) \/ PutManifest(b)
  \/ \E v \in Version : Remove(v) \/ Start(v)
  \/ Ask \/ Receive

-----------------------------------------------------------------------------
ReleasesTypeOK ==
  /\ builds \in Seq([version: Version, channel: {"stable", "canary"}, size: Size])
  /\ \A v \in Version : manifest[v] \in DOMAIN builds \cup {None}
  /\ approved \subseteq DOMAIN builds
  /\ current \in Version /\ notice \in Version \cup {None}

\* Whatever is copied, cut short, replaced or removed while installers download, and
\* though the list looks at sizes only: what they start is the whole of a build, and
\* one that was listed as a stable release.
InstalledWasApproved == \A file \in installed : file.whole /\ file.build \in approved

\* "When a newer stable release manifest exists, the caller logs a non-blocking
\* advisory line" (update-check.ts), said of the moment of the start.
NewerIsAnnounced ==
  [][\A v \in Version : Start(v) =>
       ((\E w \in List("stable") : w > v) => notice' # None)]_releasesVars
=============================================================================
