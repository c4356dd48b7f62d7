--------------------------- MODULE Update_proofs ---------------------------
(***************************************************************************)
(* The safety of self-update, for every set of releases, every bound and   *)
(* any number of failing calls and deaths of the command.                  *)
(*                                                                         *)
(* The inductive invariant says, of each step of the command, which file   *)
(* is which (Position), that no two of them share an inode but the live    *)
(* and the retained one (Distinct), what was checked (Verified), what has  *)
(* proved healthy (Proven), and how new the release is (Recorded).         *)
(***************************************************************************)
EXTENDS Update, TLAPS

(* The steps between the checks and the rename, and from there to the end. *)
Staging == {"stage", "copying", "copied", "unlinked", "linked"}
Swapped == {"swapped", "restarted", "unhealthy", "healthy", "recorded"}
Installing == {"msi", "msi_recorded", "msi_spawned", "msi_installed"}

Position ==
  /\ pc \in Staging => platform = "linux"
  /\ pc = "stage" => inodes < MaxUpgrades
  /\ pc = "copying" => staged # None
  /\ pc \in {"copied", "unlinked", "linked"} => staged # None /\ staged.build = release
  /\ pc = "linked" => /\ release.version \in DOMAIN retained
                      /\ retained[release.version] = live
  /\ pc \in Swapped => /\ live.build = release
                       /\ release.version \in DOMAIN retained
                       /\ retained[release.version].ino # live.ino
  /\ pc = "restarted" => running = live.build /\ polls < Polls /\ consecutive_ok < Needed
  /\ pc \in Installing => platform = "windows"

Distinct ==
  /\ live.ino =< inodes
  /\ \A v \in DOMAIN retained : retained[v].ino =< inodes
  /\ staged # None => /\ staged.ino =< inodes /\ staged.ino # live.ino
                      /\ \A v \in DOMAIN retained : retained[v].ino # staged.ino

(* Build b was installed by hand or passed every check.                    *)
Passed(b) ==
  b = Installed \/ (b.authentic /\ b.intact /\ (platform = "linux" => b.starts))

Verified ==
  /\ Passed(live.build)
  /\ running # None => Passed(running)
  /\ \A v \in DOMAIN retained : Passed(retained[v].build)
  /\ pc \in Staging \cup Installing => Passed(release)

(* Where health is asked for, the watermark is that of a proven build; and *)
(* what is live is proven but for the time in which that is found out, and *)
(* what is retained always is.                                             *)
Proven ==
  platform = "linux" /\ web_enabled =>
    /\ \E b \in proven : b.serial >= watermark
    /\ pc \in {"healthy", "recorded"} => release \in proven
    /\ ~interrupted =>
         /\ \A v \in DOMAIN retained : retained[v].build \in proven
         /\ pc \notin {"swapped", "restarted", "unhealthy"} => live.build \in proven

(* A release that was taken is newer than the record until it is recorded  *)
(* itself, which on Windows is before it is installed.                     *)
Newer == Staging \cup {"swapped", "restarted", "healthy", "msi"}
Recorded ==
  /\ floor <= watermark
  /\ pc \in Newer => release.serial > watermark
  /\ pc \in {"msi_recorded", "msi_spawned"} => release.serial > floor

IInv == TypeOK /\ Position /\ Distinct /\ Verified /\ Proven /\ Recorded

USE DEF conf, files, health, ghost, bounds

-----------------------------------------------------------------------------
(* The variables other than the five that a few steps change keep their    *)
(* type; of those, one lemma each.                                         *)

LEMMA ReleaseFacts ==
  /\ None \notin Releases /\ None \notin [ino : Nat, build : Releases \cup {None}]
  /\ \A r \in Releases : /\ r.version \in Versions /\ r.serial \in Serials
                         /\ r.version \in Nat /\ r.serial \in Nat
  /\ Installed \in Releases
  /\ MaxUpgrades \in Nat /\ Inodes \subseteq Nat /\ 0 \in Inodes
  BY ReleasesAssumption, NoneAssumption, BoundsAssumption
     DEF Versions, Serials, Inodes

(* The steps that do nothing to the files, the watermark or what runs.     *)
Still ==
  \/ UpgradeNetworked \/ UpgradeFrom \/ Redirected \/ FetchFails \/ Fetched
  \/ Check \/ Rejected \/ StageAndSwapFails \/ Poll \/ RollbackFails \/ RecordFails
  \/ MsiSpawn \/ MsiWaited \/ MsiFails \/ Dies

LEMMA StillKeeps == Still => UNCHANGED <<files, watermark, running>>
  BY DEF Still, UpgradeNetworked, UpgradeFrom, Redirected, FetchFails, Fetched,
         Check, Rejected, StageAndSwapFails, Poll, RollbackFails, RecordFails,
         MsiSpawn, MsiWaited, MsiFails, Dies

LEMMA RestrictFacts ==
  ASSUME NEW f, NEW S
  PROVE  DOMAIN Restrict(f, S) = S /\ \A x \in S : Restrict(f, S)[x] = f[x]
  BY DEF Restrict

LEMMA RenameBackFacts ==
  ASSUME NEW v \in DOMAIN retained, RenameBack(v)
  PROVE  \/ retained[v].ino = live.ino /\ live' = live /\ retained' = retained
         \/ /\ retained[v].ino # live.ino /\ live' = retained[v]
            /\ DOMAIN retained' = DOMAIN retained \ {v}
            /\ \A x \in DOMAIN retained' : retained'[x] = retained[x]
  BY RestrictFacts DEF RenameBack

(* What a step may do to the files.                                        *)
LEMMA FileSteps ==
  ASSUME IInv, [Next]_vars
  PROVE  \/ UNCHANGED files
         \/ StageOpened \/ StageCopied \/ Swap \/ MsiInstall \/ HardLink
         \/ Rollback
         \/ RollbackFromLocal
         \/ /\ RemoveStale \/ Prune \/ PruneFails
            /\ UNCHANGED <<live, staged, inodes>>
            /\ DOMAIN retained' \subseteq DOMAIN retained
            /\ \A v \in DOMAIN retained' : retained'[v] = retained[v]
<1>1. CASE RemoveStale
  BY <1>1, RestrictFacts DEF RemoveStale
<1>2. CASE Prune
  BY <1>2, RestrictFacts DEF Prune, Pruned
<1>3. CASE PruneFails
  <2>1. PICK kept \in SUBSET DOMAIN retained : retained' = Restrict(retained, kept)
    BY <1>3 DEF PruneFails
  <2>2. QED
    BY <1>3, <2>1, RestrictFacts DEF PruneFails
<1>4. CASE Still
  BY <1>4, StillKeeps
<1>5. CASE \/ Restart \/ RestartFails \/ RestartAfterRollback
           \/ RestartAfterRollbackFails \/ Record \/ MsiRecord \/ ServiceStarted
           \/ UNCHANGED vars
  BY <1>5 DEF Restart, RestartFails, RestartAfterRollback,
              RestartAfterRollbackFails, Record, MsiRecord, ServiceStarted, vars
<1>6. QED
  BY <1>1, <1>2, <1>3, <1>4, <1>5 DEF Next, Command, Failure, Still

FilesType ==
  /\ live \in File /\ staged \in Staged
  /\ DOMAIN retained \subseteq Versions
  /\ \A v \in DOMAIN retained : retained[v] \in File
  /\ inodes \in Inodes

LEMMA StagedFile ==
  ASSUME IInv, staged # None
  PROVE  /\ staged \in [ino : Inodes, build : Releases \cup {None}]
         /\ staged.ino \in Inodes
  BY DEF IInv, TypeOK, Staged

LEMMA FilesStep ==
  ASSUME IInv, [Next]_vars
  PROVE  FilesType'
<1>1. FilesType /\ release \in Releases
  BY DEF IInv, TypeOK, FilesType
<1>2. CASE UNCHANGED files
  BY <1>1, <1>2 DEF FilesType
<1>3. CASE StageOpened
  <2>1. staged' \in Staged /\ inodes' \in Inodes
    <3>1. inodes \in Nat /\ inodes < MaxUpgrades /\ MaxUpgrades \in Nat
      BY <1>1, <1>3, ReleaseFacts DEF StageOpened, IInv, Position, FilesType
    <3>2. inodes + 1 \in Inodes
      BY <3>1 DEF Inodes
    <3>3. staged # None => staged.ino \in Inodes
      BY StagedFile
    <3>4. QED
      BY <1>1, <1>3, <3>2, <3>3 DEF StageOpened, Staged, FilesType
  <2>2. UNCHANGED <<live, retained>>
    BY <1>3 DEF StageOpened
  <2>3. QED
    BY <1>1, <2>1, <2>2 DEF FilesType
<1>4. CASE StageCopied
  <2>1. staged' \in Staged
    <3>1. staged \in [ino : Inodes, build : Releases \cup {None}]
      BY <1>4, StagedFile DEF StageCopied, IInv, Position
    <3>2. QED
      BY <1>1, <1>4, <3>1 DEF StageCopied, Staged
  <2>2. UNCHANGED <<live, retained, inodes>>
    BY <1>4 DEF StageCopied
  <2>3. QED
    BY <1>1, <2>1, <2>2 DEF FilesType
<1>5. CASE Swap
  <2>1. staged \in File
    <3>1. staged \in [ino : Inodes, build : Releases \cup {None}] /\ staged.build = release
      BY <1>5, StagedFile DEF Swap, IInv, Position
    <3>2. QED
      BY <1>1, <3>1 DEF File
  <2>2. live' = staged /\ staged' = None /\ UNCHANGED <<retained, inodes>>
    BY <1>5 DEF Swap
  <2>3. QED
    BY <1>1, <2>1, <2>2 DEF FilesType, Staged
<1>6. CASE MsiInstall
  <2>1. inodes \in Nat /\ inodes < MaxUpgrades /\ MaxUpgrades \in Nat
    BY <1>1, <1>6, ReleaseFacts DEF MsiInstall, FilesType
  <2>2. inodes + 1 \in Inodes
    BY <2>1 DEF Inodes
  <2>3. QED
    BY <1>1, <1>6, <2>2 DEF MsiInstall, FilesType, File
<1>7. CASE HardLink
  <2>1. release.version \in Versions
    BY <1>1, ReleaseFacts
  <2>2. DOMAIN retained' = DOMAIN retained \cup {release.version}
    BY <1>7 DEF HardLink
  <2>3. \A v \in DOMAIN retained' : retained'[v] \in {live, retained[v]}
                                    /\ (v # release.version => v \in DOMAIN retained)
                                    /\ (v # release.version => retained'[v] = retained[v])
                                    /\ (v = release.version => retained'[v] = live)
    BY <1>7 DEF HardLink, Aside
  <2>4. UNCHANGED <<live, staged, inodes>>
    BY <1>7 DEF HardLink
  <2>5. QED
    BY <1>1, <2>1, <2>2, <2>3, <2>4 DEF FilesType
<1>8. CASE Rollback \/ RollbackFromLocal
  <2>1. UNCHANGED <<staged, inodes>> /\ \E v \in DOMAIN retained : RenameBack(v)
    BY <1>8 DEF Rollback, RollbackFromLocal, IInv, Position, Swapped
  <2>2. QED
    BY <1>1, <2>1, RenameBackFacts DEF FilesType
<1>9. CASE /\ UNCHANGED <<live, staged, inodes>>
           /\ DOMAIN retained' \subseteq DOMAIN retained
           /\ \A v \in DOMAIN retained' : retained'[v] = retained[v]
  BY <1>1, <1>9 DEF FilesType
<1>10. QED
  BY <1>2, <1>3, <1>4, <1>5, <1>6, <1>7, <1>8, <1>9, FileSteps

LEMMA RunsStep ==
  ASSUME IInv, [Next]_vars
  PROVE  watermark' \in Serials /\ running' \in Releases \cup {None} /\ release' \in Releases
<1>1. /\ watermark \in Serials /\ running \in Releases \cup {None}
      /\ release \in Releases /\ release.serial \in Serials /\ live.build \in Releases
  BY ReleaseFacts DEF IInv, TypeOK, File
<1>2. \/ release' = release \/ release' \in Releases
  BY DEF Next, Command, Failure, UpgradeNetworked, UpgradeFrom, Fetched,
         RollbackFromLocal, Redirected, FetchFails, Check, Rejected, StageOpened,
         StageCopied, RemoveStale, HardLink, Swap, StageAndSwapFails, Restart,
         RestartFails, Poll, Rollback, RollbackFails, RestartAfterRollback,
         RestartAfterRollbackFails, Record, RecordFails, Prune, PruneFails,
         MsiRecord, MsiSpawn, MsiInstall, MsiWaited, MsiFails, Dies,
         ServiceStarted, vars
<1>3. CASE \/ StageOpened \/ StageCopied \/ RemoveStale \/ HardLink \/ Swap
           \/ Rollback \/ Prune \/ PruneFails \/ RollbackFromLocal \/ UNCHANGED vars
  BY <1>1, <1>2, <1>3
     DEF StageOpened, StageCopied, RemoveStale, HardLink, Swap, Rollback, Prune,
         PruneFails, RollbackFromLocal, vars
<1>4. CASE Restart \/ RestartFails \/ RestartAfterRollback \/ RestartAfterRollbackFails
             \/ Record \/ MsiRecord \/ MsiInstall \/ ServiceStarted
  BY <1>1, <1>2, <1>4
     DEF Restart, RestartFails, RestartAfterRollback, RestartAfterRollbackFails,
         Record, MsiRecord, MsiInstall, ServiceStarted
<1>5. CASE Still
  BY <1>1, <1>2, <1>5, StillKeeps
<1>6. QED
  BY <1>3, <1>4, <1>5 DEF Next, Command, Failure, Still

(* What a step of wait_for_healthy may do.                                 *)
LEMMA PollFacts ==
  ASSUME IInv, Poll
  PROVE  /\ polls' \in 0..Polls /\ consecutive_ok' \in 0..Needed
         /\ \/ /\ consecutive_ok' = Needed /\ pc' = "healthy"
               /\ running \in Releases /\ proven' = proven \cup {running}
            \/ /\ consecutive_ok' < Needed /\ proven' = proven
               /\ \/ pc' = "restarted" /\ polls' < Polls
                  \/ pc' = "unhealthy"
<1>1. /\ polls \in Nat /\ Polls \in Nat /\ polls < Polls
      /\ consecutive_ok \in Nat /\ Needed \in Nat /\ 0 < Needed
      /\ consecutive_ok < Needed
  BY PollsAssumption DEF IInv, TypeOK, Position, Poll
<1>2. /\ consecutive_ok' = consecutive_ok + 1 \/ consecutive_ok' = 0
      /\ consecutive_ok' = consecutive_ok + 1 => running # None
  <2>1. CASE consecutive_ok' = AfterPoll(FALSE)
    BY <1>1, <2>1 DEF AfterPoll
  <2>2. CASE \E ok \in Answers(running) :
               consecutive_ok' = AfterPoll(ok)
    <3>1. PICK ok \in Answers(running) :
            consecutive_ok' = AfterPoll(ok)
      BY <2>2
    <3>2. CASE running = None
      <4>1. ok = FALSE
        BY <3>1, <3>2 DEF Answers
      <4>2. QED
        BY <1>1, <3>1, <4>1 DEF AfterPoll
    <3>3. CASE running # None
      BY <3>1, <3>3 DEF AfterPoll
    <3>4. QED
      BY <3>2, <3>3
  <2>3. QED
    BY <2>1, <2>2 DEF Poll
<1>3. consecutive_ok' \in 0..Needed /\ polls' \in 0..Polls
  BY <1>1, <1>2 DEF Poll
<1>4. /\ consecutive_ok' = Needed => running # None /\ running \in Releases
      /\ consecutive_ok' = Needed \/ consecutive_ok' < Needed
  BY <1>1, <1>2 DEF IInv, TypeOK
<1>5. /\ proven' = IF consecutive_ok' = Needed THEN proven \cup {running} ELSE proven
      /\ \/ consecutive_ok' = Needed /\ pc' = "healthy"
         \/ consecutive_ok' < Needed /\ polls' < Polls /\ pc' = "restarted"
         \/ consecutive_ok' < Needed /\ pc' = "unhealthy"
  BY DEF Poll, Unhealthy
<1>6. ~(Needed < Needed)
  BY <1>1
<1>7. QED
  BY <1>3, <1>4, <1>5, <1>6

LEMMA StepsStep ==
  ASSUME IInv, [Next]_vars
  PROVE  /\ pc' \in Steps /\ hops' \in 0..(MaxRedirects + 1)
         /\ polls' \in 0..Polls /\ consecutive_ok' \in 0..Needed
<1>1. /\ pc \in Steps /\ hops \in 0..(MaxRedirects + 1)
      /\ polls \in 0..Polls /\ consecutive_ok \in 0..Needed
      /\ MaxRedirects \in Nat /\ Polls \in Nat /\ Needed \in Nat
  BY PollsAssumption, BoundsAssumption DEF IInv, TypeOK
<1>2. CASE Poll
  BY <1>1, <1>2, PollFacts DEF Poll, Steps
<1>3. CASE UpgradeNetworked \/ Redirected
  BY <1>1, <1>3 DEF UpgradeNetworked, Redirected, MayRequest, Steps
<1>4. CASE Restart
  BY <1>1, <1>4 DEF Restart, StartPolling, Steps
<1>5. CASE \/ UpgradeFrom \/ FetchFails \/ Fetched \/ Check \/ Rejected \/ StageOpened
           \/ StageCopied \/ RemoveStale \/ HardLink \/ Swap \/ StageAndSwapFails
           \/ RestartFails \/ Rollback \/ RollbackFails
  <2>1. UNCHANGED <<hops, polls, consecutive_ok>>
    BY <1>5 DEF UpgradeFrom, FetchFails, Fetched, Check, Rejected, StageOpened,
                StageCopied, RemoveStale, HardLink, Swap, StageAndSwapFails,
                RestartFails, Rollback, RollbackFails
  <2>2. pc' \in Steps
    BY <1>1, <1>5 DEF UpgradeFrom, FetchFails, Fetched, Check, Rejected,
                StageOpened, StageCopied, RemoveStale, HardLink, Swap,
                StageAndSwapFails, RestartFails, Rollback, RollbackFails, Bails, Steps
  <2>3. QED
    BY <1>1, <2>1, <2>2
<1>6. CASE \/ RestartAfterRollback \/ RestartAfterRollbackFails \/ Record
           \/ RecordFails \/ Prune \/ PruneFails \/ RollbackFromLocal \/ MsiRecord
           \/ MsiSpawn \/ MsiInstall \/ MsiWaited \/ MsiFails \/ Dies
           \/ ServiceStarted \/ UNCHANGED vars
  <2>1. UNCHANGED <<hops, polls, consecutive_ok>>
    BY <1>6 DEF RestartAfterRollback, RestartAfterRollbackFails, Record,
                RecordFails, Prune, PruneFails, RollbackFromLocal, MsiRecord,
                MsiSpawn, MsiInstall, MsiWaited, MsiFails, Dies, ServiceStarted, vars
  <2>2. pc' \in Steps
    BY <1>1, <1>6 DEF RestartAfterRollback, RestartAfterRollbackFails, Record,
                RecordFails, Prune, PruneFails, RollbackFromLocal, MsiRecord,
                MsiSpawn, MsiInstall, MsiWaited, MsiFails, Dies, ServiceStarted,
                vars, Bails, Steps
  <2>3. QED
    BY <1>1, <2>1, <2>2
<1>7. QED
  BY <1>2, <1>3, <1>4, <1>5, <1>6 DEF Next, Command, Failure

LEMMA GhostsStep ==
  ASSUME IInv, [Next]_vars
  PROVE  /\ platform' = platform /\ web_enabled' = web_enabled
         /\ proven \subseteq proven' /\ proven' \subseteq Releases
         /\ ~Poll => proven' = proven
         /\ interrupted' \in BOOLEAN /\ (~interrupted' => ~interrupted)
         /\ faults' \in 0..MaxFaults /\ crashes' \in 0..MaxCrashes
         /\ floor' \in Serials
<1>1. /\ proven \subseteq Releases /\ interrupted \in BOOLEAN
      /\ faults \in 0..MaxFaults /\ crashes \in 0..MaxCrashes
      /\ MaxFaults \in Nat /\ MaxCrashes \in Nat
  BY BoundsAssumption DEF IInv, TypeOK
<1>2. platform' = platform /\ web_enabled' = web_enabled
  BY DEF Next, Command, Failure, UpgradeNetworked, UpgradeFrom, Fetched,
         RollbackFromLocal, Redirected, FetchFails, Check, Rejected, StageOpened,
         StageCopied, RemoveStale, HardLink, Swap, StageAndSwapFails, Restart,
         RestartFails, Poll, Rollback, RollbackFails, RestartAfterRollback,
         RestartAfterRollbackFails, Record, RecordFails, Prune, PruneFails,
         MsiRecord, MsiSpawn, MsiInstall, MsiWaited, MsiFails, Dies,
         ServiceStarted, vars
<1>3. ~Poll => proven' = proven
  BY DEF Next, Command, Failure, UpgradeNetworked, UpgradeFrom, Fetched,
         RollbackFromLocal, Redirected, FetchFails, Check, Rejected, StageOpened,
         StageCopied, RemoveStale, HardLink, Swap, StageAndSwapFails, Restart,
         RestartFails, Rollback, RollbackFails, RestartAfterRollback,
         RestartAfterRollbackFails, Record, RecordFails, Prune, PruneFails,
         MsiRecord, MsiSpawn, MsiInstall, MsiWaited, MsiFails, Dies,
         ServiceStarted, vars
<1>4. proven \subseteq proven' /\ proven' \subseteq Releases
  BY <1>1, <1>3, PollFacts
<1>5. \/ interrupted' = interrupted
      \/ \E dirty : interrupted' = (interrupted \/ dirty)
  BY Zenon DEF Next, Command, Failure, UpgradeNetworked, UpgradeFrom, Fetched,
         RollbackFromLocal, Redirected, FetchFails, Check, Rejected, StageOpened,
         StageCopied, RemoveStale, HardLink, Swap, StageAndSwapFails, Restart,
         RestartFails, Poll, Rollback, RollbackFails, RestartAfterRollback,
         RestartAfterRollbackFails, Record, RecordFails, Prune, PruneFails,
         MsiRecord, MsiSpawn, MsiInstall, MsiWaited, MsiFails, Dies,
         ServiceStarted, vars, Bails
<1>6. interrupted' \in BOOLEAN /\ (~interrupted' => ~interrupted)
  BY <1>1, <1>5, Zenon
<1>7. faults' = faults \/ Fault
  BY DEF Next, Command, Failure, UpgradeNetworked, UpgradeFrom, Fetched,
         RollbackFromLocal, Redirected, FetchFails, Check, Rejected, StageOpened,
         StageCopied, RemoveStale, HardLink, Swap, StageAndSwapFails, Restart,
         RestartFails, Poll, Rollback, RollbackFails, RestartAfterRollback,
         RestartAfterRollbackFails, Record, RecordFails, Prune, PruneFails,
         MsiRecord, MsiSpawn, MsiInstall, MsiWaited, MsiFails, Dies,
         ServiceStarted, vars
<1>8. faults' \in 0..MaxFaults
  BY <1>1, <1>7 DEF Fault
<1>9. crashes' = crashes \/ (crashes < MaxCrashes /\ crashes' = crashes + 1)
  BY DEF Next, Command, Failure, UpgradeNetworked, UpgradeFrom, Fetched,
         RollbackFromLocal, Redirected, FetchFails, Check, Rejected, StageOpened,
         StageCopied, RemoveStale, HardLink, Swap, StageAndSwapFails, Restart,
         RestartFails, Poll, Rollback, RollbackFails, RestartAfterRollback,
         RestartAfterRollbackFails, Record, RecordFails, Prune, PruneFails,
         MsiRecord, MsiSpawn, MsiInstall, MsiWaited, MsiFails, Dies,
         ServiceStarted, vars
<1>10. crashes' \in 0..MaxCrashes
  BY <1>1, <1>9
<1>11. floor' = floor \/ floor' = watermark
  BY DEF Next, Command, Failure, UpgradeNetworked, UpgradeFrom, Fetched,
         RollbackFromLocal, Redirected, FetchFails, Check, Rejected, StageOpened,
         StageCopied, RemoveStale, HardLink, Swap, StageAndSwapFails, Restart,
         RestartFails, Poll, Rollback, RollbackFails, RestartAfterRollback,
         RestartAfterRollbackFails, Record, RecordFails, Prune, PruneFails,
         MsiRecord, MsiSpawn, MsiInstall, MsiWaited, MsiFails, Dies,
         ServiceStarted, vars
<1>12. floor' \in Serials
  BY <1>11 DEF IInv, TypeOK
<1>13. QED
  BY <1>2, <1>3, <1>4, <1>6, <1>8, <1>10, <1>12

LEMMA TypeStep == IInv /\ [Next]_vars => TypeOK'
<1> SUFFICES ASSUME IInv, [Next]_vars PROVE TypeOK'
  OBVIOUS
<1>1. platform' \in {"linux", "windows"} /\ web_enabled' \in BOOLEAN
  BY GhostsStep, Zenon DEF IInv, TypeOK
<1>2. interrupted' \in BOOLEAN
  BY GhostsStep
<1>3. FilesType'
  BY FilesStep
<1>4. QED
  BY <1>1, <1>2, <1>3, RunsStep, StepsStep, GhostsStep, Zenon DEF TypeOK, FilesType

-----------------------------------------------------------------------------
(* Each step of the command leaves the files as the next one expects them. *)

LEMMA PositionStep == IInv /\ [Next]_vars => Position'
<1> SUFFICES ASSUME IInv, [Next]_vars PROVE Position'
  OBVIOUS
<1>1. Position /\ platform' = platform /\ platform \in {"linux", "windows"}
  BY GhostsStep DEF IInv, TypeOK
<1>2. CASE \/ UpgradeNetworked \/ UpgradeFrom \/ Redirected \/ FetchFails \/ Fetched
           \/ Rejected \/ StageAndSwapFails \/ RollbackFails \/ RecordFails
           \/ MsiWaited \/ MsiFails \/ Dies
           \/ RestartAfterRollback \/ RestartAfterRollbackFails \/ Prune
           \/ PruneFails \/ RollbackFromLocal \/ Rollback
  <2>1. pc' \in {"idle", "fetch", "check", "reverted"}
    BY <1>2 DEF UpgradeNetworked, UpgradeFrom, Redirected, FetchFails, Fetched,
                Rejected, StageAndSwapFails, RollbackFails, RecordFails, MsiWaited,
                MsiFails, Dies, RestartAfterRollback, RestartAfterRollbackFails,
                Prune, PruneFails, RollbackFromLocal, Rollback, Bails
  <2>2. QED
    BY <2>1 DEF Position, Staging, Swapped, Installing
<1>3. CASE Check
  BY <1>1, <1>3 DEF Check, Position, Staging, Swapped, Installing
<1>4. CASE StageOpened
  <2>1. release \in Releases /\ inodes \in Inodes
    BY DEF IInv, TypeOK
  <2>2. staged' # None
    <3>1. staged' \in [ino : Nat, build : Releases \cup {None}]
      <4>1. staged # None => staged.ino \in Nat
        BY StagedFile, ReleaseFacts
      <4>2. inodes + 1 \in Nat
        BY <2>1, ReleaseFacts
      <4>3. QED
        BY <1>4, <4>1, <4>2 DEF StageOpened
    <3>2. QED
      BY <3>1, ReleaseFacts
  <2>3. QED
    BY <1>1, <1>4, <2>2 DEF StageOpened, Position, Staging, Swapped, Installing
<1>5. CASE StageCopied
  <2>1. staged \in [ino : Inodes, build : Releases \cup {None}] /\ release \in Releases
    BY <1>1, <1>5, StagedFile DEF StageCopied, Position, IInv, TypeOK
  <2>2. /\ staged' \in [ino : Nat, build : Releases \cup {None}]
        /\ staged'.build = release
    BY <1>5, <2>1, ReleaseFacts DEF StageCopied
  <2>3. staged' # None
    BY <2>2, ReleaseFacts
  <2>4. QED
    BY <1>1, <1>5, <2>2, <2>3 DEF StageCopied, Position, Staging, Swapped, Installing
<1>6. CASE RemoveStale
  BY <1>1, <1>6 DEF RemoveStale, Position, Staging, Swapped, Installing
<1>7. CASE HardLink
  <2>1. /\ release.version \in DOMAIN retained'
        /\ retained'[release.version] = live
    BY <1>7 DEF HardLink, Aside
  <2>2. QED
    BY <1>1, <1>7, <2>1 DEF HardLink, Position, Staging, Swapped, Installing
<1>8. CASE Swap
  <2>1. staged # None /\ staged.build = release /\ staged.ino # live.ino
        /\ retained[release.version] = live /\ release.version \in DOMAIN retained
    BY <1>1, <1>8 DEF Swap, Position, IInv, Distinct
  <2>2. QED
    BY <1>1, <1>8, <2>1 DEF Swap, Position, Staging, Swapped, Installing
<1>9. CASE Restart
  BY <1>1, <1>9, PollsAssumption
     DEF Restart, StartPolling, Position, Staging, Swapped, Installing
<1>10. CASE RestartFails \/ Record
  BY <1>1, <1>10 DEF RestartFails, Record, Position, Staging, Swapped, Installing
<1>11. CASE Poll
  <2>1. UNCHANGED <<live, retained, release, running>> /\ pc = "restarted"
    BY <1>11 DEF Poll
  <2>2. QED
    BY <1>1, <1>11, <2>1, PollFacts DEF Position, Staging, Swapped, Installing
<1>12. CASE MsiRecord \/ MsiSpawn \/ MsiInstall
  BY <1>1, <1>12
     DEF MsiRecord, MsiSpawn, MsiInstall, Position, Staging, Swapped, Installing
<1>13. CASE ServiceStarted \/ UNCHANGED vars
  BY <1>1, <1>13 DEF ServiceStarted, vars, Position
<1>14. QED
  BY <1>2, <1>3, <1>4, <1>5, <1>6, <1>7, <1>8, <1>9, <1>10, <1>11, <1>12, <1>13
     DEF Next, Command, Failure

LEMMA DistinctStep == IInv /\ [Next]_vars => Distinct'
<1> SUFFICES ASSUME IInv, [Next]_vars PROVE Distinct'
  OBVIOUS
<1>1. /\ Distinct /\ Position /\ inodes \in Nat /\ live.ino \in Nat
      /\ staged # None => staged.ino \in Nat
      /\ \A v \in DOMAIN retained : retained[v].ino \in Nat
  BY StagedFile, ReleaseFacts DEF IInv, TypeOK, File
<1>2. CASE UNCHANGED files
  BY <1>1, <1>2 DEF Distinct
<1>3. CASE StageOpened
  <2>1. UNCHANGED <<live, retained>>
        /\ \/ /\ staged = None /\ staged'.ino = inodes + 1 /\ inodes' = inodes + 1
           \/ /\ staged # None /\ staged'.ino = staged.ino /\ inodes' = inodes
    BY <1>3 DEF StageOpened
  <2>2. QED
    BY <1>1, <2>1 DEF Distinct
<1>4. CASE StageCopied
  <2>1. staged \in [ino : Inodes, build : Releases \cup {None}] /\ staged # None
    BY <1>1, <1>4, StagedFile DEF StageCopied, Position
  <2>2. staged'.ino = staged.ino /\ UNCHANGED <<live, retained, inodes>>
    BY <1>4, <2>1 DEF StageCopied
  <2>3. QED
    BY <1>1, <2>1, <2>2 DEF Distinct
<1>5. CASE Swap
  BY <1>1, <1>5 DEF Swap, Position, Distinct
<1>6. CASE MsiInstall
  <2>1. /\ live'.ino = inodes + 1 /\ inodes' = inodes + 1
        /\ UNCHANGED <<staged, retained>>
    BY <1>6 DEF MsiInstall
  <2>2. QED
    BY <1>1, <2>1 DEF Distinct
<1>7. CASE HardLink
  <2>1. \A v \in DOMAIN retained' :
          retained'[v] = live \/ (v \in DOMAIN retained /\ retained'[v] = retained[v])
    BY <1>7 DEF HardLink, Aside
  <2>2. UNCHANGED <<live, staged, inodes>>
    BY <1>7 DEF HardLink
  <2>3. QED
    BY <1>1, <2>1, <2>2 DEF Distinct
<1>8. CASE Rollback \/ RollbackFromLocal
  <2>1. UNCHANGED <<staged, inodes>> /\ \E v \in DOMAIN retained : RenameBack(v)
    BY <1>1, <1>8 DEF Rollback, RollbackFromLocal, Position, Swapped
  <2>2. QED
    BY <1>1, <2>1, RenameBackFacts DEF Distinct
<1>9. CASE /\ UNCHANGED <<live, staged, inodes>>
           /\ DOMAIN retained' \subseteq DOMAIN retained
           /\ \A v \in DOMAIN retained' : retained'[v] = retained[v]
  BY <1>1, <1>9 DEF Distinct
<1>10. QED
  BY <1>2, <1>3, <1>4, <1>5, <1>6, <1>7, <1>8, <1>9, FileSteps

-----------------------------------------------------------------------------
(* Nothing unchecked goes live, is retained or runs.                       *)

LEMMA VerifiedStep == IInv /\ [Next]_vars => Verified'
<1> SUFFICES ASSUME IInv, [Next]_vars PROVE Verified'
  OBVIOUS
<1>1. Verified /\ Position /\ platform' = platform
  BY GhostsStep DEF IInv
<1>2. \A b : Passed(b)' = Passed(b)
  BY <1>1, Zenon DEF Passed
<1>3. pc' \in Staging \cup Installing => Passed(release)'
  <2>1. CASE Check
    BY <1>2, <2>1 DEF Check, Acceptable, AcceptableByManifest, VerifyManifest,
                      VerifyArtifactHash, Preflight, Passed, TypeOK, IInv
  <2>2. CASE ~Check
    <3>1. pc' \in Staging \cup Installing =>
            pc \in Staging \cup Installing /\ release' = release
      BY <2>2 DEF Staging, Installing, Next, Command, Failure, UpgradeNetworked,
         UpgradeFrom, Fetched, RollbackFromLocal, Redirected, FetchFails, Rejected,
         StageOpened, StageCopied, RemoveStale, HardLink, Swap, StageAndSwapFails,
         Restart, RestartFails, Poll, Unhealthy, Rollback, RollbackFails,
         RestartAfterRollback, RestartAfterRollbackFails, Record, RecordFails,
         Prune, PruneFails, MsiRecord, MsiSpawn, MsiInstall, MsiWaited, MsiFails,
         Dies, ServiceStarted, vars, Bails
    <3>2. QED
      BY <1>1, <1>2, <3>1 DEF Verified
  <2>3. QED
    BY <2>1, <2>2
<1>4. /\ Passed(live.build)'
      /\ \A v \in DOMAIN retained' : Passed(retained'[v].build)
  <2>1. CASE UNCHANGED files \/ StageOpened \/ StageCopied
    BY <1>1, <1>2, <2>1 DEF Verified, StageOpened, StageCopied
  <2>2. CASE Swap
    <3>1. live'.build = release /\ retained' = retained /\ pc \in Staging
      BY <1>1, <2>2 DEF Swap, Position, Staging
    <3>2. QED
      BY <1>1, <1>2, <3>1 DEF Verified
  <2>3. CASE MsiInstall
    <3>1. live'.build = release /\ retained' = retained /\ pc \in Installing
      BY <2>3 DEF MsiInstall, Installing
    <3>2. QED
      BY <1>1, <1>2, <3>1 DEF Verified
  <2>4. CASE HardLink
    <3>1. \A v \in DOMAIN retained' :
            retained'[v] = live \/ (v \in DOMAIN retained /\ retained'[v] = retained[v])
      BY <2>4 DEF HardLink, Aside
    <3>2. live' = live
      BY <2>4 DEF HardLink
    <3>3. QED
      BY <1>1, <1>2, <3>1, <3>2 DEF Verified
  <2>5. CASE Rollback \/ RollbackFromLocal
    <3>1. \E v \in DOMAIN retained : RenameBack(v)
      BY <1>1, <2>5 DEF Rollback, RollbackFromLocal, Position, Swapped
    <3>2. QED
      BY <1>1, <1>2, <3>1, RenameBackFacts DEF Verified
  <2>6. CASE /\ UNCHANGED <<live, staged, inodes>>
             /\ DOMAIN retained' \subseteq DOMAIN retained
             /\ \A v \in DOMAIN retained' : retained'[v] = retained[v]
    BY <1>1, <1>2, <2>6 DEF Verified
  <2>7. QED
    BY <2>1, <2>2, <2>3, <2>4, <2>5, <2>6, FileSteps
<1>5. running' # None => Passed(running)'
  <2>1. CASE Restart \/ RestartFails \/ RestartAfterRollback
               \/ RestartAfterRollbackFails \/ MsiInstall \/ ServiceStarted
    <3>1. \/ running' \in {running, live.build, None}
          \/ running' = release /\ pc \in Installing
      BY <2>1 DEF Restart, RestartFails, RestartAfterRollback, Installing,
                  RestartAfterRollbackFails, MsiInstall, ServiceStarted
    <3>2. QED
      BY <1>1, <1>2, <3>1 DEF Verified
  <2>2. CASE Still \/ RollbackFromLocal \/ StageOpened \/ StageCopied
             \/ RemoveStale \/ HardLink \/ Swap \/ Rollback \/ Record \/ Prune
             \/ PruneFails \/ MsiRecord \/ UNCHANGED vars
    <3>1. running' = running
      BY <2>2, StillKeeps
         DEF RollbackFromLocal, StageOpened, StageCopied, RemoveStale, HardLink,
             Swap, Rollback, Record, Prune, PruneFails, MsiRecord, vars
    <3>2. QED
      BY <1>1, <1>2, <3>1 DEF Verified
  <2>3. QED
    BY <2>1, <2>2 DEF Next, Command, Failure, Still
<1>6. QED
  BY <1>2, <1>3, <1>4, <1>5, Zenon DEF Verified

-----------------------------------------------------------------------------
(* What is known to be healthy.                                            *)

LEMMA ProvenStep == IInv /\ [Next]_vars => Proven'
<1> SUFFICES ASSUME IInv, [Next]_vars, platform = "linux", web_enabled
             PROVE  /\ \E b \in proven' : b.serial >= watermark'
                    /\ pc' \in {"healthy", "recorded"} => release' \in proven'
                    /\ ~interrupted' =>
                         /\ \A v \in DOMAIN retained' : retained'[v].build \in proven'
                         /\ pc' \notin {"swapped", "restarted", "unhealthy"} =>
                              live'.build \in proven'
  BY GhostsStep, Zenon DEF Proven
<1>1. /\ Position /\ proven \subseteq proven' /\ (~interrupted' => ~interrupted)
      /\ \E b \in proven : b.serial >= watermark
      /\ pc \in {"healthy", "recorded"} => release \in proven
      /\ ~interrupted =>
           /\ \A v \in DOMAIN retained : retained[v].build \in proven
           /\ pc \notin {"swapped", "restarted", "unhealthy"} => live.build \in proven
  BY GhostsStep, Zenon DEF IInv, Proven
<1>2. pc \notin Installing
  BY <1>1 DEF Position
<1>3. \E b \in proven' : b.serial >= watermark'
  <2>1. CASE Record
    <3>1. release \in proven /\ watermark' = release.serial /\ release.serial \in Nat
      BY <1>1, <2>1, ReleaseFacts DEF Record, IInv, TypeOK
    <3>2. QED
      BY <1>1, <3>1
  <2>2. CASE ~Record
    <3>1. watermark' = watermark
      BY <1>2, <2>2, StillKeeps DEF Installing, Next, Command, Failure, Still,
         RollbackFromLocal, StageOpened, StageCopied, RemoveStale, HardLink, Swap,
         Restart, RestartFails, Rollback, RestartAfterRollback,
         RestartAfterRollbackFails, Prune, PruneFails, MsiRecord, MsiInstall,
         ServiceStarted, vars
    <3>2. QED
      BY <1>1, <3>1
  <2>3. QED
    BY <2>1, <2>2
<1>4. pc' \in {"healthy", "recorded"} => release' \in proven'
  <2>1. CASE Poll
    <3>1. running = live.build /\ live.build = release /\ release' = release
      BY <1>1, <2>1 DEF Poll, Position, Swapped
    <3>2. QED
      BY <2>1, <3>1, PollFacts
  <2>2. CASE ~Poll
    <3>1. pc' \in {"healthy", "recorded"} =>
            pc \in {"healthy", "recorded"} /\ release' = release
      BY <2>2 DEF Next, Command, Failure, UpgradeNetworked, SkipsCheck,
         UpgradeFrom, Fetched, RollbackFromLocal, Redirected, FetchFails, Check,
         Rejected, StageOpened, StageCopied, RemoveStale, HardLink, Swap,
         StageAndSwapFails, Restart, RestartFails, Rollback, RollbackFails,
         RestartAfterRollback, RestartAfterRollbackFails, Record, RecordFails,
         Prune, PruneFails, MsiRecord, MsiSpawn, MsiInstall, MsiWaited, MsiFails,
         Dies, ServiceStarted, vars, Bails
    <3>2. QED
      BY <1>1, <3>1
  <2>3. QED
    BY <2>1, <2>2
<1>5. ASSUME ~interrupted'
      PROVE  /\ \A v \in DOMAIN retained' : retained'[v].build \in proven'
             /\ pc' \notin {"swapped", "restarted", "unhealthy"} =>
                  live'.build \in proven'
  <2>1. /\ \A v \in DOMAIN retained : retained[v].build \in proven'
        /\ pc \notin {"swapped", "restarted", "unhealthy"} => live.build \in proven'
    BY <1>1, <1>5
  <2>2. CASE HardLink
    <3>1. \A v \in DOMAIN retained' :
            retained'[v] = live \/ (v \in DOMAIN retained /\ retained'[v] = retained[v])
      BY <2>2 DEF HardLink, Aside
    <3>2. live' = live /\ pc = "unlinked"
      BY <2>2 DEF HardLink
    <3>3. QED
      BY <2>1, <3>1, <3>2
  <2>3. CASE Swap
    BY <2>1, <2>3 DEF Swap
  <2>4. CASE MsiInstall
    BY <1>2, <2>4 DEF MsiInstall, Installing
  <2>5. CASE Rollback
    <3>1. /\ release.version \in DOMAIN retained /\ RenameBack(release.version)
          /\ retained[release.version].ino # live.ino
      BY <1>1, <2>5 DEF Rollback, Position, Swapped
    <3>2. QED
      BY <2>1, <3>1, RenameBackFacts
  <2>6. CASE RollbackFromLocal
    <3>1. pc = "idle" /\ \E v \in DOMAIN retained : RenameBack(v)
      BY <2>6 DEF RollbackFromLocal
    <3>2. QED
      BY <2>1, <3>1, RenameBackFacts
  <2>7. CASE StageOpened \/ StageCopied
    BY <2>1, <2>7 DEF StageOpened, StageCopied
  <2>8. CASE /\ RemoveStale \/ Prune \/ PruneFails
             /\ UNCHANGED <<live, staged, inodes>>
             /\ DOMAIN retained' \subseteq DOMAIN retained
             /\ \A v \in DOMAIN retained' : retained'[v] = retained[v]
    <3>1. pc \in {"copied", "recorded"}
      BY <2>8 DEF RemoveStale, Prune, PruneFails
    <3>2. QED
      BY <2>1, <2>8, <3>1
  <2>9. CASE UNCHANGED files
    <3>1. \A v \in DOMAIN retained' : retained'[v].build \in proven'
      BY <2>1, <2>9
    <3>2. CASE Poll
      <4>1. pc' # "healthy" => pc' \in {"restarted", "unhealthy"}
        BY <3>2, PollFacts
      <4>2. pc' = "healthy" => live.build \in proven'
        BY <1>1, <1>4, <3>2 DEF Position, Swapped, Poll
      <4>3. QED
        BY <2>9, <3>1, <4>1, <4>2
    <3>3. CASE Dies
      <4>1. live.build \in proven
        BY <1>5, <3>3 DEF Dies, Bails
      <4>2. QED
        BY <1>1, <2>9, <3>1, <4>1
    <3>4. CASE RollbackFails
      BY <1>5, <3>4 DEF RollbackFails, Bails
    <3>5. CASE ~(Poll \/ Dies \/ RollbackFails \/ Swap \/ Rollback)
      <4>1. pc' \notin {"swapped", "restarted", "unhealthy"} =>
              pc \notin {"swapped", "restarted", "unhealthy"}
        BY <3>5 DEF Next, Command, Failure, UpgradeNetworked, SkipsCheck,
           UpgradeFrom, Fetched, RollbackFromLocal, Redirected, FetchFails, Check,
           Rejected, StageOpened, StageCopied, RemoveStale, HardLink,
           StageAndSwapFails, Restart, RestartFails, RestartAfterRollback, RestartAfterRollbackFails, Record, RecordFails,
           Prune, PruneFails, MsiRecord, MsiSpawn, MsiInstall, MsiWaited, MsiFails,
           ServiceStarted, vars, Bails
      <4>2. QED
        BY <2>1, <2>9, <3>1, <4>1
    <3>6. QED
      BY <2>3, <2>5, <3>2, <3>3, <3>4, <3>5
  <2>10. QED
    BY <2>2, <2>3, <2>4, <2>5, <2>6, <2>7, <2>8, <2>9, FileSteps
<1>6. QED
  BY <1>3, <1>4, <1>5

-----------------------------------------------------------------------------
(* How new the release is that the command has taken.                      *)

LEMMA NaturalSerials ==
  ASSUME IInv
  PROVE  watermark \in Nat /\ floor \in Nat /\ release.serial \in Nat
  BY ReleaseFacts, ReleasesAssumption DEF IInv, TypeOK, Serials

(* The record changes where it is made.                                    *)
LEMMA RecordSteps ==
  ASSUME IInv, [Next]_vars, ~(Record \/ MsiRecord)
  PROVE  watermark' = watermark
  BY StillKeeps DEF Next, Command, Failure, Still,
     RollbackFromLocal, StageOpened, StageCopied, RemoveStale, HardLink, Swap,
     Restart, RestartFails, Rollback, RestartAfterRollback,
     RestartAfterRollbackFails, Prune, PruneFails, MsiInstall, ServiceStarted, vars

LEMMA RecordedStep == IInv /\ [Next]_vars => Recorded'
<1> SUFFICES ASSUME IInv, [Next]_vars PROVE Recorded'
  OBVIOUS
<1>1. Recorded /\ watermark \in Nat /\ floor \in Nat /\ release.serial \in Nat
  BY NaturalSerials DEF IInv
<1>2. CASE UpgradeNetworked \/ UpgradeFrom
  <2>1. floor' = watermark /\ watermark' = watermark /\ pc' \in {"fetch", "check"}
    BY <1>2 DEF UpgradeNetworked, UpgradeFrom
  <2>2. QED
    BY <1>1, <2>1 DEF Recorded, Newer, Staging
<1>3. CASE Check
  <2>1. release.serial > watermark
    BY <1>3 DEF Check, Acceptable, AcceptableByManifest, CheckFreshness, HighestSerial
  <2>2. UNCHANGED <<watermark, floor, release>> /\ pc' \in {"stage", "msi"}
    BY <1>3 DEF Check
  <2>3. QED
    BY <1>1, <2>1, <2>2 DEF Recorded
<1>4. CASE Record \/ MsiRecord
  <2>1. /\ watermark' = release.serial /\ UNCHANGED <<release, floor>>
        /\ pc' \in {"recorded", "msi_recorded"} /\ pc \in {"healthy", "msi"}
    BY <1>4 DEF Record, MsiRecord
  <2>2. release.serial > watermark
    BY <1>1, <2>1 DEF Recorded, Newer
  <2>3. QED
    BY <1>1, <2>1, <2>2 DEF Recorded, Newer, Staging
<1>5. CASE ~(UpgradeNetworked \/ UpgradeFrom \/ Check \/ Record \/ MsiRecord)
  <2>1. watermark' = watermark
    BY <1>5, RecordSteps
  <2>2. floor' = floor
    BY <1>5 DEF Next, Command, Failure, Fetched,
         RollbackFromLocal, Redirected, FetchFails, Rejected, StageOpened,
         StageCopied, RemoveStale, HardLink, Swap, StageAndSwapFails, Restart,
         RestartFails, Poll, Rollback, RollbackFails, RestartAfterRollback,
         RestartAfterRollbackFails, RecordFails, Prune, PruneFails,
         MsiSpawn, MsiInstall, MsiWaited, MsiFails, Dies, ServiceStarted, vars
  <2>3. pc' \in Newer => pc \in Newer /\ release' = release
    BY <1>5 DEF Newer, Staging, Next, Command, Failure, Fetched,
         RollbackFromLocal, Redirected, FetchFails, Rejected, StageOpened,
         StageCopied, RemoveStale, HardLink, Swap, StageAndSwapFails, Restart,
         RestartFails, Poll, Unhealthy, Rollback, RollbackFails,
         RestartAfterRollback, RestartAfterRollbackFails, RecordFails, Prune,
         PruneFails, MsiSpawn, MsiInstall, MsiWaited, MsiFails, Dies,
         ServiceStarted, vars, Bails
  <2>4. pc' \in {"msi_recorded", "msi_spawned"} =>
          pc \in {"msi_recorded", "msi_spawned"} /\ release' = release
    BY <1>5 DEF Next, Command, Failure, Fetched,
         RollbackFromLocal, Redirected, FetchFails, Rejected, StageOpened,
         StageCopied, RemoveStale, HardLink, Swap, StageAndSwapFails, Restart,
         RestartFails, Poll, Unhealthy, Rollback, RollbackFails,
         RestartAfterRollback, RestartAfterRollbackFails, RecordFails, Prune,
         PruneFails, MsiSpawn, MsiInstall, MsiWaited, MsiFails, Dies,
         ServiceStarted, vars, Bails
  <2>5. QED
    BY <1>1, <2>1, <2>2, <2>3, <2>4 DEF Recorded
<1>6. QED
  BY <1>2, <1>3, <1>4, <1>5

-----------------------------------------------------------------------------
LEMMA InitIInv == Init => IInv
<1> SUFFICES ASSUME Init PROVE IInv
  OBVIOUS
<1>1. /\ Installed \in Releases /\ Installed.serial \in Serials /\ 0 \in Inodes
      /\ Installed.serial \in Nat
  BY ReleaseFacts
<1>2. /\ live \in File /\ live.ino = 0 /\ live.build = Installed
      /\ DOMAIN retained = {} /\ staged = None /\ inodes = 0
  BY <1>1 DEF Init, File
<1>3. platform \in {"linux", "windows"} /\ web_enabled \in BOOLEAN /\ interrupted \in BOOLEAN
  BY Zenon DEF Init
<1>4. TypeOK
  <2>1. /\ staged \in Staged /\ inodes \in Inodes
        /\ watermark \in Serials /\ floor \in Serials
        /\ running \in Releases \cup {None} /\ pc \in Steps /\ release \in Releases
        /\ proven \subseteq Releases
    BY <1>1, <1>2 DEF Init, Staged, Steps
  <2>2. /\ hops \in 0..(MaxRedirects + 1) /\ polls \in 0..Polls
        /\ consecutive_ok \in 0..Needed /\ faults \in 0..MaxFaults
        /\ crashes \in 0..MaxCrashes
    BY PollsAssumption, BoundsAssumption DEF Init
  <2>3. /\ DOMAIN retained \subseteq Versions
        /\ \A v \in DOMAIN retained : retained[v] \in File
    BY <1>2
  <2>4. QED
    BY <1>2, <1>3, <2>1, <2>2, <2>3, Zenon DEF TypeOK
<1>5. Position /\ Distinct
  BY <1>2 DEF Init, Position, Distinct, Staging, Swapped, Installing
<1>6. Verified
  BY <1>2 DEF Init, Verified, Passed, Staging, Installing
<1>7. Proven
  BY <1>1, <1>2 DEF Init, Proven
<1>8. Recorded
  BY <1>1 DEF Init, Recorded, Newer, Staging
<1>9. QED
  BY <1>4, <1>5, <1>6, <1>7, <1>8 DEF IInv

LEMMA StepIInv == IInv /\ [Next]_vars => IInv'
  BY TypeStep, PositionStep, DistinctStep, VerifiedStep, ProvenStep, RecordedStep
     DEF IInv

LEMMA InductiveInvariant == Spec => []IInv
  BY InitIInv, StepIInv, PTL DEF Spec

(* Every variable keeps its type.                                          *)
THEOREM TypeCorrect == Spec => []TypeOK
<1>1. IInv => TypeOK
  BY DEF IInv
<1>2. QED
  BY <1>1, InductiveInvariant, PTL

(* Whatever is live or runs was installed by hand or passed every check,   *)
(* wherever a command died or failed and whatever was left over of it.     *)
THEOREM OnlyVerifiedLive == Spec => []LiveVerified
<1>1. IInv => LiveVerified
  BY DEF IInv, Verified, Passed, LiveVerified
<1>2. QED
  BY <1>1, InductiveInvariant, PTL

(* On either platform, a binary goes live that had been put aside, or one  *)
(* newer than all that was recorded when the command began, and what is    *)
(* recorded never falls back.                                              *)
THEOREM ReplaysRefused == Spec => NoReplay
<1>1. IInv /\ [Next]_vars =>
        [/\ watermark' >= watermark
         /\ live'.ino # live.ino =>
              live' \in Range(retained) \/ live'.build.serial > floor]_vars
  <2> SUFFICES ASSUME IInv, [Next]_vars
               PROVE  /\ watermark' >= watermark
                      /\ live'.ino # live.ino =>
                           live' \in Range(retained) \/ live'.build.serial > floor
    OBVIOUS
  <2>1. Recorded /\ watermark \in Nat /\ floor \in Nat /\ release.serial \in Nat
    BY NaturalSerials DEF IInv
  <2>2. watermark' >= watermark
    <3>1. CASE Record \/ MsiRecord
      BY <2>1, <3>1 DEF Record, MsiRecord, Recorded, Newer
    <3>2. CASE ~(Record \/ MsiRecord)
      BY <2>1, <3>2, RecordSteps
    <3>3. QED
      BY <3>1, <3>2
  <2>3. ASSUME live'.ino # live.ino
        PROVE  live' \in Range(retained) \/ live'.build.serial > floor
    <3>1. CASE Swap
      <4>1. live'.build = release /\ release.serial > watermark /\ floor <= watermark
        BY <2>1, <3>1 DEF Swap, IInv, Position, Recorded, Newer, Staging
      <4>2. QED
        BY <2>1, <4>1
    <3>2. CASE MsiInstall
      BY <2>1, <3>2 DEF MsiInstall, Recorded
    <3>3. CASE Rollback \/ RollbackFromLocal
      <4>1. PICK v \in DOMAIN retained : RenameBack(v)
        BY <3>3 DEF Rollback, RollbackFromLocal, IInv, Position, Swapped
      <4>2. live' = retained[v]
        BY <2>3, <4>1 DEF RenameBack
      <4>3. QED
        BY <4>1, <4>2 DEF Range
    <3>4. CASE UNCHANGED files \/ StageOpened \/ StageCopied \/ HardLink \/ live' = live
      BY <2>3, <3>4 DEF StageOpened, StageCopied, HardLink
    <3>5. QED
      BY <3>1, <3>2, <3>3, <3>4, FileSteps
  <2>4. QED
    BY <2>2, <2>3
<1>2. QED
  BY <1>1, InductiveInvariant, PTL DEF Spec, NoReplay

(* A build that has proved healthy is live or retained at every step,      *)
(* unless a command ended with an unproven build live.                     *)
THEOREM HealthyBuildAtHand == Spec => []WayBack
<1>1. IInv => WayBack
  <2> SUFFICES ASSUME IInv, platform = "linux", web_enabled, ~interrupted
               PROVE  \E f \in {live} \cup {retained[v] : v \in DOMAIN retained} :
                        f.build \in proven
    BY DEF WayBack
  <2>1. /\ \A v \in DOMAIN retained : retained[v].build \in proven
        /\ pc \notin {"swapped", "restarted", "unhealthy"} => live.build \in proven
    BY Zenon DEF IInv, Proven
  <2>2. pc \in {"swapped", "restarted", "unhealthy"} =>
          release.version \in DOMAIN retained
    BY DEF IInv, Position, Swapped
  <2>3. QED
    BY <2>1, <2>2
<1>2. QED
  BY <1>1, InductiveInvariant, PTL

(* The watermark is never ahead of what has proved healthy, so a newer     *)
(* release is refused only for a reason of its own.                        *)
THEOREM NewerStaysInstallable == Spec => []NotLockedOut
<1>1. IInv => NotLockedOut
  <2> SUFFICES ASSUME IInv, platform = "linux", web_enabled, NEW r \in Releases
               PROVE  \E b \in proven :
                 /\ UpgradeCheckCmd(r) = "not_acceptable" =>
                      r.expired \/ RunningVersion < r.min_from \/ b.serial >= r.serial
                 /\ ApiUpdateStatus(r) = "not_acceptable" =>
                      r.expired \/ running.version < r.min_from \/ b.serial >= r.serial
    BY DEF NotLockedOut
  <2>1. PICK b \in proven : b.serial >= watermark
    BY Zenon DEF IInv, Proven
  <2>2. /\ b.serial \in Nat /\ watermark \in Nat /\ r.serial \in Nat
        /\ r.version \in Nat /\ r.min_from \in Nat
        /\ live.build \in Releases /\ live.build.version \in Nat
        /\ running # None => running.version \in Nat
    BY ReleaseFacts, ReleasesAssumption DEF IInv, TypeOK, File, Serials
  <2>3. ASSUME NEW current \in Nat, EvaluateCheck(r, current) = "not_acceptable"
        PROVE  r.expired \/ current < r.min_from \/ b.serial >= r.serial
    <3>1. ~(r.version <= current) /\ ~CheckFreshness(r, current, FALSE)
      BY <2>3, Zenon DEF EvaluateCheck
    <3>2. ~(r.serial > watermark) \/ r.expired \/ current < r.min_from
      BY <2>2, <3>1 DEF CheckFreshness, HighestSerial
    <3>3. QED
      BY <2>1, <2>2, <3>2
  <2>4. QED
    BY <2>2, <2>3 DEF UpgradeCheckCmd, ApiUpdateStatus, RunningVersion
<1>2. QED
  BY <1>1, InductiveInvariant, PTL
=============================================================================
