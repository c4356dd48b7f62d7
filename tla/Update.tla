------------------------------- MODULE Update -------------------------------
(***************************************************************************)
(* Self-update (src/update, and the upgrade commands of src/main.rs).      *)
(*                                                                         *)
(* One upgrade command at a time: verify the release, stage it beside the  *)
(* live binary, link the live binary aside, rename the staged one onto it, *)
(* restart the service, poll its health, and either roll back or record    *)
(* the release's serial and prune what was retained before.  The command   *)
(* may die, and its calls may fail, between any two of these steps; the    *)
(* service manager starts whatever is live.  On Windows the installer      *)
(* replaces the binary and the serial is recorded beforehand.              *)
(*                                                                         *)
(* A file is an inode with a build in it, because the live binary and the  *)
(* retained one can be two names of one inode.                             *)
(***************************************************************************)
EXTENDS Naturals, FiniteSets, Functions

CONSTANTS
  Releases,      (* manifests with their artifacts, and the build that was *)
                 (* installed by hand                                      *)
  Installed,     (* that build                                             *)
  Needed, Polls, (* health checks in a row that suffice; checks made       *)
  MaxRedirects,  (* MAX_REDIRECTS                                          *)
  None,
  MaxUpgrades,   (* bound: files ever staged                               *)
  MaxFaults,     (* bound: calls that fail                                 *)
  MaxCrashes     (* bound: deaths of the upgrade command                   *)

(* health: "good" answers every check, "bad" none, "unsteady" some.        *)
ASSUME ReleasesAssumption ==
  /\ Releases \subseteq [version : Nat, serial : Nat, min_from : Nat,
                         expired : BOOLEAN, authentic : BOOLEAN, intact : BOOLEAN,
                         starts : BOOLEAN, health : {"good", "bad", "unsteady"}]
  /\ Installed \in Releases
  /\ \A r \in Releases \ {Installed} : r.serial > Installed.serial
ASSUME PollsAssumption == Needed \in Nat \ {0} /\ Polls \in Nat /\ Needed <= Polls
ASSUME NoneAssumption ==
  None \notin Releases \cup [ino : Nat, build : Releases \cup {None}]
ASSUME BoundsAssumption ==
  MaxRedirects \in Nat /\ MaxUpgrades \in Nat /\ MaxFaults \in Nat /\ MaxCrashes \in Nat

VARIABLES
  platform, web_enabled,   (* "linux" or "windows"; WebConfig.enabled      *)
  live,          (* the live binary: [ino, build]                          *)
  staged,        (* .<name>.new: a file, one whose build is None while it  *)
                 (* is being copied, or None                               *)
  retained,      (* .old-<version> files, by version                       *)
  watermark,     (* update-watermark.json                                  *)
  running,       (* the build that the service runs, or None               *)
  pc, release,   (* where the upgrade command stands, with which release   *)
  hops,          (* requests made by fetch_with_connector                  *)
  polls, consecutive_ok,   (* wait_for_healthy                             *)
  inodes,        (* inodes handed out so far                               *)
  \* for the properties
  floor,         (* the watermark when the latest upgrade command began    *)
  proven,        (* builds that answered Needed checks in a row            *)
  interrupted,   (* died, or failed, with an unproven build live           *)
  faults, crashes

conf == <<platform, web_enabled>>
files == <<live, staged, retained, inodes>>
health == <<polls, consecutive_ok>>
ghost == <<floor, proven, interrupted>>
bounds == <<faults, crashes>>
vars == <<conf, files, watermark, running, pc, release, hops, health, ghost, bounds>>

Versions == {r.version : r \in Releases}
Serials == {r.serial : r \in Releases}
Inodes == 0..MaxUpgrades
File == [ino : Inodes, build : Releases]
Staged == [ino : Inodes, build : Releases \cup {None}] \cup {None}

Steps == {"idle", "fetch", "check", "stage", "copying", "copied", "unlinked", "linked",
          "swapped", "restarted", "unhealthy", "reverted", "healthy", "recorded",
          "msi", "msi_recorded", "msi_spawned", "msi_installed"}

TypeOK ==
  /\ platform \in {"linux", "windows"} /\ web_enabled \in BOOLEAN
  /\ live \in File /\ staged \in Staged
  /\ DOMAIN retained \subseteq Versions
  /\ \A v \in DOMAIN retained : retained[v] \in File
  /\ inodes \in Inodes
  /\ watermark \in Serials /\ floor \in Serials
  /\ running \in Releases \cup {None}
  /\ pc \in Steps /\ release \in Releases
  /\ hops \in 0..(MaxRedirects + 1)
  /\ polls \in 0..Polls /\ consecutive_ok \in 0..Needed
  /\ proven \subseteq Releases /\ interrupted \in BOOLEAN
  /\ faults \in 0..MaxFaults /\ crashes \in 0..MaxCrashes

----------------------------------------------------------------------------
(* Manifests.  The running version is the one compiled into the command's  *)
(* own executable, which is the live binary.                               *)

RunningVersion == live.build.version

(* Variant: the watermark file is not read.                                *)
HighestSerialForgotten == Installed.serial

HighestSerial == watermark

VerifyManifest(r) == r.authentic
VerifyArtifactHash(r) == r.intact
Preflight(r) == r.starts

CheckFreshness(r, current, allow_downgrade) ==
  /\ r.serial > HighestSerial
  /\ ~r.expired
  /\ allow_downgrade \/ r.version >= current
  /\ current >= r.min_from

(* Variant: the downloaded artifact is not hashed.                         *)
AcceptableByManifest(r, allow_downgrade) ==
  VerifyManifest(r) /\ CheckFreshness(r, RunningVersion, allow_downgrade)

Acceptable(r, allow_downgrade) ==
  AcceptableByManifest(r, allow_downgrade) /\ VerifyArtifactHash(r)

(* What those who only read report: upgrade --check, and the agent's web   *)
(* interface, whose version is that of the build that is running.          *)
EvaluateCheck(r, current) ==
  IF r.version <= current THEN "up_to_date"
  ELSE IF CheckFreshness(r, current, FALSE) THEN "available" ELSE "not_acceptable"

UpgradeCheckCmd(r) ==
  IF VerifyManifest(r) THEN EvaluateCheck(r, RunningVersion) ELSE "error"
ApiUpdateStatus(r) ==
  IF running # None /\ VerifyManifest(r) THEN EvaluateCheck(r, running.version) ELSE "error"

----------------------------------------------------------------------------
Init ==
  /\ platform \in {"linux", "windows"} /\ web_enabled \in BOOLEAN
  /\ live = [ino |-> 0, build |-> Installed]
  /\ staged = None /\ retained = [v \in {} |-> live] /\ inodes = 0
  /\ watermark = Installed.serial /\ floor = watermark
  /\ running = Installed
  /\ pc = "idle" /\ release = Installed /\ hops = 0
  /\ polls = 0 /\ consecutive_ok = 0
  /\ proven = {Installed} /\ interrupted = FALSE
  /\ faults = 0 /\ crashes = 0

Fault == faults < MaxFaults /\ faults' = faults + 1

(* The command ends with an error that leaves an unproven build live.      *)
Bails(dirty) ==
  /\ pc' = "idle"
  /\ interrupted' = (interrupted \/ dirty)

----------------------------------------------------------------------------
(* upgrade_networked_cmd: the manifest is fetched and checked, then the    *)
(* bundle is fetched over redirects; the bundle carries its own manifest,  *)
(* which need not be the one that was checked.                             *)

UpgradeNetworked ==
  /\ pc = "idle"
  /\ \E r \in Releases, allow \in BOOLEAN :
       /\ AcceptableByManifest(r, allow)
       /\ release' = r
  /\ hops' = 0 /\ pc' = "fetch"
  /\ floor' = watermark
  /\ UNCHANGED <<conf, files, watermark, running, health, proven, interrupted, bounds>>

MayRequest == hops <= MaxRedirects

Redirected ==
  /\ pc = "fetch" /\ MayRequest
  /\ hops' = hops + 1
  /\ UNCHANGED <<conf, files, watermark, running, pc, release, health, ghost, bounds>>

(* The last request was a redirect too, a request fails or times out, the  *)
(* response is no success, leads away from https, or is too long.          *)
FetchFails ==
  /\ pc = "fetch"
  /\ pc' = "idle"
  /\ UNCHANGED <<conf, files, watermark, running, release, hops, health, ghost, bounds>>

Fetched ==
  /\ pc = "fetch" /\ MayRequest
  /\ release' \in Releases
  /\ pc' = "check"
  /\ UNCHANGED <<conf, files, watermark, running, hops, health, ghost, bounds>>

(* upgrade_cmd: an artifact that the operator has.                         *)
UpgradeFrom ==
  /\ pc = "idle"
  /\ release' \in Releases
  /\ pc' = "check"
  /\ floor' = watermark
  /\ UNCHANGED <<conf, files, watermark, running, hops, health, proven, interrupted, bounds>>

----------------------------------------------------------------------------
(* apply_from_local, up to its point of no return: nothing is written.     *)

Check ==
  /\ pc = "check"
  /\ \E allow \in BOOLEAN : Acceptable(release, allow)
  /\ IF platform = "linux"
       THEN Preflight(release) /\ inodes < MaxUpgrades /\ pc' = "stage"
       ELSE pc' = "msi"
  /\ UNCHANGED <<conf, files, watermark, running, release, hops, health,
                 floor, proven, interrupted, bounds>>

Rejected ==
  /\ pc = "check"
  /\ pc' = "idle"
  /\ UNCHANGED <<conf, files, watermark, running, release, hops, health, ghost, bounds>>

----------------------------------------------------------------------------
(* stage_and_swap.                                                         *)

(* fs::copy opens .new, which may be left over, and then fills it.         *)
StageOpened ==
  /\ pc = "stage"
  /\ staged' = [ino |-> IF staged = None THEN inodes + 1 ELSE staged.ino, build |-> None]
  /\ inodes' = IF staged = None THEN inodes + 1 ELSE inodes
  /\ pc' = "copying"
  /\ UNCHANGED <<conf, live, retained, watermark, running, release, hops, health, ghost,
                 bounds>>

StageCopied ==
  /\ pc = "copying"
  /\ staged' = [staged EXCEPT !.build = release]
  /\ pc' = "copied"
  /\ UNCHANGED <<conf, live, retained, inodes, watermark, running, release, hops, health,
                 ghost, bounds>>

RemoveStale ==
  /\ pc = "copied"
  /\ retained' = Restrict(retained, DOMAIN retained \ {release.version})
  /\ pc' = "unlinked"
  /\ UNCHANGED <<conf, live, staged, inodes, watermark, running, release, hops, health,
                 ghost, bounds>>

(* Variant: the new binary is what is put aside.                           *)
AsideStaged == staged

Aside == live

HardLink ==
  /\ pc = "unlinked"
  /\ retained' = [v \in DOMAIN retained \cup {release.version} |->
                    IF v = release.version THEN Aside ELSE retained[v]]
  /\ pc' = "linked"
  /\ UNCHANGED <<conf, live, staged, inodes, watermark, running, release, hops, health,
                 ghost, bounds>>

Swap ==
  /\ pc = "linked"
  /\ live' = staged /\ staged' = None
  /\ pc' = "swapped"
  /\ UNCHANGED <<conf, retained, inodes, watermark, running, release, hops, health,
                 ghost, bounds>>

StageAndSwapFails ==
  /\ pc \in {"stage", "copying", "copied", "unlinked", "linked"}
  /\ Fault
  /\ Bails(FALSE)
  /\ UNCHANGED <<conf, files, watermark, running, release, hops, health, floor, proven,
                 crashes>>

----------------------------------------------------------------------------
(* The restart, and wait_for_healthy.                                      *)

StartPolling == polls' = 0 /\ consecutive_ok' = 0

(* Variant: health is never asked for.                                     *)
SkipsCheckAlways == TRUE

SkipsCheck == ~web_enabled

Restart ==
  /\ pc = "swapped"
  /\ running' = live.build
  /\ StartPolling
  /\ pc' = IF SkipsCheck THEN "healthy" ELSE "restarted"
  /\ UNCHANGED <<conf, files, watermark, release, hops, ghost, bounds>>

RestartFails ==
  /\ pc = "swapped" /\ Fault
  /\ running' \in {running, None}
  /\ pc' = "unhealthy"
  /\ UNCHANGED <<conf, files, watermark, release, hops, health, ghost, crashes>>

(* What one request to /healthz can answer: a good build is unhealthy too  *)
(* while a queue that blocks is full.                                      *)
Answers(build) ==
  IF build = None \/ build.health = "bad" THEN {FALSE}
  ELSE IF build.health = "good" THEN {TRUE} ELSE {TRUE, FALSE}

AfterPoll(ok) == IF ok THEN consecutive_ok + 1 ELSE 0

(* Variant: a build that never answers is kept.                            *)
UnhealthyIgnored == pc' = "healthy"

Unhealthy == pc' = "unhealthy"

Poll ==
  /\ pc = "restarted"
  /\ \/ /\ running # None /\ running.health = "good" /\ Fault
        /\ consecutive_ok' = AfterPoll(FALSE)
     \/ /\ UNCHANGED faults
        /\ \E ok \in Answers(running) :
             consecutive_ok' = AfterPoll(ok)
  /\ polls' = polls + 1
  /\ proven' = IF consecutive_ok' = Needed THEN proven \cup {running} ELSE proven
  /\ \/ consecutive_ok' = Needed /\ pc' = "healthy"
     \/ consecutive_ok' < Needed /\ polls' < Polls /\ pc' = "restarted"
     \/ consecutive_ok' < Needed /\ polls' = Polls /\ Unhealthy
  /\ UNCHANGED <<conf, files, watermark, running, release, hops, floor, interrupted,
                 crashes>>

----------------------------------------------------------------------------
(* Rollback.  rename(2) between two names of one inode does nothing.       *)

RenameBack(v) ==
  IF retained[v].ino = live.ino
    THEN UNCHANGED <<live, retained>>
    ELSE /\ live' = retained[v]
         /\ retained' = Restrict(retained, DOMAIN retained \ {v})

Rollback ==
  /\ pc = "unhealthy"
  /\ RenameBack(release.version)
  /\ pc' = "reverted"
  /\ UNCHANGED <<conf, staged, inodes, watermark, running, release, hops, health, ghost,
                 bounds>>

RollbackFails ==
  /\ pc = "unhealthy" /\ Fault
  /\ Bails(TRUE)
  /\ UNCHANGED <<conf, files, watermark, running, release, hops, health, floor, proven,
                 crashes>>

RestartAfterRollback ==
  /\ pc = "reverted"
  /\ running' = live.build
  /\ pc' = "idle"
  /\ UNCHANGED <<conf, files, watermark, release, hops, health, ghost, bounds>>

RestartAfterRollbackFails ==
  /\ pc = "reverted" /\ Fault
  /\ running' \in {running, None}
  /\ pc' = "idle"
  /\ UNCHANGED <<conf, files, watermark, release, hops, health, ghost, crashes>>

----------------------------------------------------------------------------
(* After the health check: the watermark, and the versions retained before.*)

Record ==
  /\ pc = "healthy"
  /\ watermark' = release.serial
  /\ pc' = "recorded"
  /\ UNCHANGED <<conf, files, running, release, hops, health, ghost, bounds>>

RecordFails ==
  /\ pc = "healthy" /\ Fault
  /\ Bails(FALSE)
  /\ UNCHANGED <<conf, files, watermark, running, release, hops, health, floor, proven,
                 crashes>>

Pruned(keep) == DOMAIN retained \cap {keep}

Prune ==
  /\ pc = "recorded"
  /\ retained' = Restrict(retained, Pruned(release.version))
  /\ pc' = "idle"
  /\ UNCHANGED <<conf, live, staged, inodes, watermark, running, release, hops, health,
                 floor, proven, interrupted, bounds>>

PruneFails ==
  /\ pc = "recorded" /\ Fault
  /\ \E kept \in SUBSET DOMAIN retained :
       /\ Pruned(release.version) \subseteq kept
       /\ retained' = Restrict(retained, kept)
  /\ Bails(FALSE)
  /\ UNCHANGED <<conf, live, staged, inodes, watermark, running, release, hops, health,
                 floor, proven, crashes>>

(* upgrade --rollback: only if exactly one version is retained.            *)
RollbackFromLocal ==
  /\ pc = "idle" /\ platform = "linux"
  /\ \E v \in DOMAIN retained :
       /\ DOMAIN retained = {v}
       /\ RenameBack(v)
  /\ pc' = "reverted"
  /\ UNCHANGED <<conf, staged, inodes, watermark, running, release, hops, health,
                 floor, proven, interrupted, bounds>>

----------------------------------------------------------------------------
(* Windows: the serial is recorded, a copy of the command is started, and  *)
(* msiexec replaces the binary and the service.  Nothing is rolled back.   *)

MsiRecord ==
  /\ pc = "msi"
  /\ watermark' = release.serial
  /\ pc' = "msi_recorded"
  /\ UNCHANGED <<conf, files, running, release, hops, health, ghost, bounds>>

MsiSpawn ==
  /\ pc = "msi_recorded"
  /\ pc' = "msi_spawned"
  /\ UNCHANGED <<conf, files, watermark, running, release, hops, health, ghost, bounds>>

MsiInstall ==
  /\ pc = "msi_spawned" /\ inodes < MaxUpgrades
  /\ live' = [ino |-> inodes + 1, build |-> release]
  /\ inodes' = inodes + 1
  /\ running' \in {release, None}
  /\ pc' = "msi_installed"
  /\ UNCHANGED <<conf, staged, retained, watermark, release, hops, health, ghost, bounds>>

MsiWaited ==
  /\ pc = "msi_installed"
  /\ IF running # None
       THEN pc' = "idle" /\ UNCHANGED interrupted
       ELSE Bails(TRUE)
  /\ UNCHANGED <<conf, files, watermark, running, release, hops, health, floor, proven,
                 bounds>>

MsiFails ==
  /\ pc \in {"msi", "msi_recorded", "msi_spawned"} /\ Fault
  /\ Bails(FALSE)
  /\ UNCHANGED <<conf, files, watermark, running, release, hops, health, floor, proven,
                 crashes>>

----------------------------------------------------------------------------
(* The command dies; the service fails, and the service manager starts     *)
(* what is live.                                                           *)

Dies ==
  /\ pc # "idle" /\ crashes < MaxCrashes
  /\ crashes' = crashes + 1
  /\ Bails(live.build \notin proven)
  /\ UNCHANGED <<conf, files, watermark, running, release, hops, health, floor, proven,
                 faults>>

ServiceStarted ==
  /\ running # live.build
  /\ running' = live.build
  /\ UNCHANGED <<conf, files, watermark, pc, release, hops, health, ghost, bounds>>

----------------------------------------------------------------------------
Command ==
  \/ Redirected \/ FetchFails \/ Fetched \/ Check \/ Rejected
  \/ StageOpened \/ StageCopied \/ RemoveStale \/ HardLink \/ Swap
  \/ Restart \/ Poll \/ Rollback \/ RestartAfterRollback \/ Record \/ Prune
  \/ MsiRecord \/ MsiSpawn \/ MsiInstall \/ MsiWaited

Failure ==
  \/ StageAndSwapFails \/ RestartFails \/ RollbackFails \/ RestartAfterRollbackFails
  \/ RecordFails \/ PruneFails \/ MsiFails

Next ==
  \/ UpgradeNetworked \/ UpgradeFrom \/ RollbackFromLocal
  \/ Command \/ Failure \/ Dies \/ ServiceStarted

Spec == Init /\ [][Next]_vars

(* An upgrade command that has begun goes on; every wait in it is bounded. *)
FairSpec == Spec /\ WF_vars(Command)

----------------------------------------------------------------------------
(* Whatever is live, but for what was installed by hand, passed every      *)
(* check there is: the release came from us, its binary is the one that    *)
(* was signed for, and it starts on this host (apply_from_local checks the *)
(* bundle again after the download).                                       *)
LiveVerified ==
  \A b \in {live.build, running} \ {None, Installed} :
    b.authentic /\ b.intact /\ (platform = "linux" => b.starts)

(* A newer release is refused only because it expired, needs a version in  *)
(* between, or is no newer than one that has proved healthy here: an       *)
(* upgrade that was rolled back, or died, does not lock the host out of    *)
(* its release (the order of wait_for_healthy and Watermark::record).      *)
NotLockedOut ==
  platform = "linux" /\ web_enabled =>
    \A r \in Releases : \E b \in proven :
      /\ UpgradeCheckCmd(r) = "not_acceptable" =>
           r.expired \/ RunningVersion < r.min_from \/ b.serial >= r.serial
      /\ ApiUpdateStatus(r) = "not_acceptable" =>
           r.expired \/ running.version < r.min_from \/ b.serial >= r.serial

(* On either platform a binary goes live by a rollback to one that was put *)
(* aside, or by an upgrade to a release that is newer than every one       *)
(* recorded when the command began; and the record never falls back, so no *)
(* later command takes an old one again.  Also when the bundle is not the  *)
(* one whose manifest was checked, when the command died on the way, and   *)
(* when the record is made before the binary is replaced (check_freshness, *)
(* Watermark::record).                                                     *)
NoReplay ==
  [][/\ watermark' >= watermark
     /\ live'.ino # live.ino =>
          live' \in Range(retained) \/ live'.build.serial > floor]_vars

(* As long as no command ended abnormally with an unproven build live, a   *)
(* build that has proved healthy is live or retained, at every step of     *)
(* every upgrade and rollback (stage_and_swap, rollback, prune).           *)
WayBack ==
  platform = "linux" /\ web_enabled /\ ~interrupted =>
    \E f \in {live} \cup {retained[v] : v \in DOMAIN retained} : f.build \in proven

(* A build that never answers does not stay in service: unless something   *)
(* failed besides, it is rolled back (platform_swap_and_restart).          *)
BadBuildReplaced ==
  platform = "linux" /\ web_enabled /\ live.build.health = "bad"
    ~> live.build.health # "bad" \/ interrupted
=============================================================================
