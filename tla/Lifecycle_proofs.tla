-------------------------- MODULE Lifecycle_proofs --------------------------
(***************************************************************************)
(* What TLAPS proves of the agent's process, for any configurations, any   *)
(* number of web clients, and any number of requests, failures and exits.  *)
(***************************************************************************)
EXTENDS Lifecycle, TLAPS

(* What is being copied is there: the backup, and what a client saves.     *)
Sources ==
  /\ main = "restoring" => bak # None
  /\ \A c \in Clients :
       client[c] \in {"backup", "backing", "write", "writing"} => body[c] \in Valid

Typed == TypeOK /\ Sources

(* The control loop with an engine that runs, and in a reload.             *)
Running == main \in {"select", "rolling", "load"}
Reloading == main \in {"stopping", "starting", "restore", "restoring", "restarting"}

(* Where the loop stands tells which tasks there are, what the web         *)
(* handlers see, and what a reload can go on or back to.                   *)
LoopShape ==
  /\ Running => engine \in Startable /\ shown = engine /\ "engine" \in tasks
  /\ ~Running => shown = None
  /\ Reloading => old \in Startable
  /\ "partial" \in tasks => main \in {"booting", "starting"} /\ "engine" \notin tasks
  /\ main \in {"starting", "restore", "restoring", "restarting"} => "engine" \notin tasks
  /\ main \in {"down", "booting"} => "engine" \notin tasks
  /\ main = "down" => \A c \in Clients : client[c] = "idle"

(* Who waits in the channel, and who is being served, are different        *)
(* clients that have asked.                                                *)
Asked == {"reload_sent", "rollback_sent"}

Queued ==
  /\ \A i \in 1..Len(control) : client[control[i]] \in Asked /\ control[i] # asker
  /\ \A i, j \in 1..Len(control) : control[i] = control[j] => i = j
  /\ asker # None => client[asker] \in Asked

(* The writers of the two files.                                           *)
Writes(c) == client[c] \in {"backing", "writing"}
LoopWrites == main = "restoring" \/ (main = "rolling" /\ bak # None)

(* As long as nothing was damaged there is one writer at a time, the file  *)
(* it writes holds nothing usable, and every other does.                   *)
OneWriter ==
  /\ \A c, d \in Clients : Writes(c) /\ Writes(d) => c = d
  /\ LoopWrites => \A c \in Clients : ~Writes(c)
  /\ config = Torn \/ config \in Valid
  /\ config = Torn <=> LoopWrites \/ \E c \in Clients : client[c] = "writing"
  /\ bak = Torn \/ bak \in Valid \cup {None}
  /\ bak = Torn <=> \E c \in Clients : client[c] = "backing"

(* The backup stays, once there is one, and is there before its client     *)
(* goes on to write.                                                       *)
Changing(c) == client[c] \in {"backing", "write", "writing"}
BakThere == bak = None => \A c \in Clients : ~Changing(c)

Files == BakThere /\ (~damaged => OneWriter)

(* What n changes have left of configuration r: after none it is in the    *)
(* file and nobody is about to replace it, after one it is in the backup,  *)
(* or is being copied there.                                               *)
Kept(n, r) ==
  /\ n = 0 => (LoopWrites \/ config = r) /\ \A c \in Clients : ~Changing(c)
  /\ n = 1 => /\ \A c, d \in Clients : Changing(c) /\ Changing(d) => c = d
              /\ IF \E c \in Clients : client[c] = "backing" THEN config = r ELSE bak = r

(* The configuration that runs, or that the reload would go back to; and   *)
(* the one that the engine is being started with.                          *)
Changes ==
  ~damaged =>
    /\ Running => Kept(changes, engine)
    /\ Reloading => Kept(changes, old)
    /\ main \in {"booting", "stopping", "starting"} => Kept(fresh, next)

IInv == Typed /\ LoopShape /\ Queued /\ Files /\ Changes

----------------------------------------------------------------------------
(* The type invariant, in parts.                                           *)
FilesTyped ==
  /\ config \in Contents /\ bak \in Contents \cup {None}
  /\ body \in [Clients -> Configs \cup {None}]
LoopTyped ==
  /\ main \in Places
  /\ engine \in Valid \cup {None} /\ shown \in Valid \cup {None}
  /\ next \in Valid \cup {None} /\ old \in Valid \cup {None}
  /\ tasks \subseteq Owners
WebTyped ==
  /\ asker \in Clients \cup {None}
  /\ control \in Seq(Clients) /\ Len(control) <= ControlCapacity
  /\ client \in [Clients -> ClientStates]
CountsTyped ==
  /\ changes \in 0..2 /\ fresh \in 0..2
  /\ requests \in 0..MaxRequests /\ faults \in 0..MaxFaults /\ exits \in 0..MaxExits
FlagsTyped == busy \in BOOLEAN /\ damaged \in BOOLEAN

LEMMA TypeParts ==
  TypeOK <=> FilesTyped /\ LoopTyped /\ WebTyped /\ CountsTyped /\ FlagsTyped
  BY DEF TypeOK, FilesTyped, LoopTyped, WebTyped, CountsTyped, FlagsTyped


(* The steps in which the process ends.                                    *)
Ending == BootFails \/ Dies \/ RestartOldFails \/ ShutDown

LEMMA EndingExits ==
  ASSUME Ending
  PROVE  /\ Exits /\ exits < MaxExits /\ exits' = exits + 1
         /\ UNCHANGED <<config, bak, busy, changes, requests, faults>>
  BY DEF Ending, BootFails, Dies, RestartOldFails, ShutDown, filesv

(* A copy leaves the new content or half of it.                            *)
LEMMA CopiedType ==
  ASSUME NEW file, NEW new, NEW shared, NEW x \in Copied(file, new, shared)
  PROVE  /\ x = new \/ x = Torn
         /\ file = Torn /\ ~shared => x = new
  BY DEF Copied

LEMMA FilesTypedStep ==
  FilesTyped /\ LoopTyped /\ WebTyped /\ Sources /\ [Next]_vars
    => FilesTyped' /\ Sources'
<1> SUFFICES ASSUME FilesTyped, LoopTyped, WebTyped, Sources, [Next]_vars
             PROVE  FilesTyped' /\ Sources'
  OBVIOUS
<1> USE ConfigsAssumption
    DEF FilesTyped, Sources, Contents, filesv, loopv, webv, ghost, bounds
<1>1. CASE Boot \/ BootOk \/ Hangup \/ RollbackRefused \/ Load \/ LoadFails
  <2>1. UNCHANGED <<config, bak, body>> /\ main' # "restoring"
    BY <1>1 DEF Boot, BootOk, Hangup, RollbackRefused, Load, LoadFails, Selects
  <2>2. client' = client \/ Answer
    BY <1>1, Zenon DEF Boot, BootOk, Hangup, RollbackRefused, Load, LoadFails
  <2> QED
    BY <2>1, <2>2 DEF Answer, WebTyped
<1>2. CASE \/ StopEngine \/ StartNew \/ SlowEnds \/ Started \/ StartFails
           \/ NothingToRestore \/ RestoreFails \/ RestartedOld \/ Terminate
           \/ PortTaken \/ PortFreed
  <2>1. UNCHANGED <<config, bak, body>> /\ (main' = "restoring" => main = "restoring")
    BY <1>2
       DEF StopEngine, StartNew, SlowEnds, Started, StartFails, NothingToRestore, Selects,
           RestoreFails, RestartedOld, Terminate, PortTaken, PortFreed
  <2>2. client' = client \/ Answer
    BY <1>2, Zenon
       DEF StopEngine, StartNew, SlowEnds, Started, StartFails, NothingToRestore,
           RestoreFails, RestartedOld, Terminate, PortTaken, PortFreed
  <2> QED
    BY <2>1, <2>2 DEF Answer, WebTyped
<1>4. CASE Ending
  BY <1>4, EndingExits DEF Exits
<1>5. CASE Receive \/ RestoreOpened
  BY <1>5 DEF Receive, RestoreOpened
<1>6. CASE RolledBack \/ Restored
  <2>1. config' = bak \/ config' = Torn
    BY <1>6, CopiedType DEF RolledBack, Restored
  <2>2. bak # None /\ UNCHANGED <<bak, body, client>> /\ main' # "restoring"
    BY <1>6 DEF RolledBack, Restored
  <2> QED
    BY <2>1, <2>2
<1>7. ASSUME NEW c \in Clients, Save(c) PROVE FilesTyped' /\ Sources'
  BY <1>7 DEF Save, Usable, Becomes, WebTyped
<1>8. ASSUME NEW c \in Clients, Ask(c) \/ Send(c) PROVE FilesTyped' /\ Sources'
  BY <1>8 DEF Ask, Send, Becomes, WebTyped
<1>9. ASSUME NEW c \in Clients, BackupFails(c) \/ WriteFails(c)
      PROVE  FilesTyped' /\ Sources'
  BY <1>9 DEF BackupFails, WriteFails, Done, Becomes, WebTyped
<1>12. ASSUME NEW c \in Clients, BackupOpened(c) \/ BackedUp(c) \/ WriteOpened(c)
       PROVE  FilesTyped' /\ Sources'
  <2>1. config' \in {config, Torn} /\ bak' \in {bak, config, Torn} /\ body' = body
    BY <1>12 DEF BackupOpened, BackedUp, WriteOpened, Copied, BackupOf
  <2>2. main' = main
    BY <1>12 DEF BackupOpened, BackedUp, WriteOpened
  <2>3. \A d \in Clients : client'[d] = client[d] \/ d = c
    BY <1>12 DEF BackupOpened, BackedUp, WriteOpened, Becomes, WebTyped
  <2>4. body[c] \in Valid
    BY <1>12 DEF BackupOpened, BackedUp, WriteOpened
  <2> QED
    BY <2>1, <2>2, <2>3, <2>4
<1>13. ASSUME NEW c \in Clients, Written(c) PROVE FilesTyped' /\ Sources'
  <2>1. config' = body[c] \/ config' = Torn
    BY <1>13, CopiedType DEF Written
  <2>2. UNCHANGED <<bak, main>> /\ Done(c)
    BY <1>13 DEF Written
  <2>3. body[c] \in Valid
    BY <1>13 DEF Written
  <2> QED
    BY <2>1, <2>2, <2>3 DEF Done, Becomes, WebTyped
<1>10. CASE Edit
  BY <1>10 DEF Edit
<1>11. CASE UNCHANGED vars
  BY <1>11 DEF vars
<1> QED
  BY <1>1, <1>2, <1>4, <1>5, <1>6, <1>7, <1>8, <1>9, <1>10, <1>11, <1>12,
     <1>13 DEF Next, Loop, Handler, Ending

LEMMA LoopTypedStep == FilesTyped /\ LoopTyped /\ [Next]_vars => LoopTyped'
<1> SUFFICES ASSUME FilesTyped, LoopTyped, [Next]_vars PROVE LoopTyped'
  OBVIOUS
<1> USE ConfigsAssumption DEF LoopTyped, Places, Owners, filesv, loopv, webv, ghost, bounds
<1>1. CASE Boot \/ BootOk \/ Hangup \/ RollbackRefused
  BY <1>1 DEF Boot, BootOk, Hangup, RollbackRefused, Selects, Starts
<1>2. CASE Load \/ LoadFails \/ Terminate
  BY <1>2 DEF Load, LoadFails, Terminate, Selects, Usable, Hidden
<1>3. CASE StopEngine
  BY <1>3 DEF StopEngine
<1>4. CASE StartNew \/ SlowEnds \/ StartFails
  BY <1>4 DEF StartNew, SlowEnds, StartFails, TornDown
<1>5. CASE Started \/ RestartedOld
  BY <1>5 DEF Started, RestartedOld, Selects, Starts
<1>6. CASE Ending
  BY <1>6, EndingExits DEF Exits
<1>7. CASE Receive
  BY <1>7 DEF Receive
<1>8. CASE RolledBack \/ RestoreOpened \/ Restored \/ RestoreFails \/ NothingToRestore
  BY <1>8 DEF RolledBack, RestoreOpened, Restored, RestoreFails, NothingToRestore
<1>9. ASSUME NEW c \in Clients,
             Save(c) \/ Ask(c) \/ Handler(c) \/ BackupFails(c) \/ WriteFails(c)
      PROVE  UNCHANGED loopv
  BY <1>9, Zenon
     DEF Save, Ask, Handler, BackupFails, WriteFails, BackupOpened, BackedUp, WriteOpened,
         Written, Send
<1>10. CASE Edit \/ PortTaken \/ PortFreed \/ UNCHANGED vars \/ UNCHANGED loopv
  BY <1>10 DEF Edit, PortTaken, PortFreed, vars
<1> QED
  BY <1>1, <1>2, <1>3, <1>4, <1>5, <1>6, <1>7, <1>8, <1>9, <1>10 DEF Next, Loop, Ending

LEMMA AnswerType ==
  ASSUME WebTyped, Answer
  PROVE  /\ client' \in [Clients -> ClientStates]
         /\ \A c \in Clients : client'[c] = client[c] \/ client'[c] = "idle"
  BY DEF WebTyped, Answer, ClientStates

LEMMA WebTypedStep == WebTyped /\ [Next]_vars => WebTyped'
<1> SUFFICES ASSUME WebTyped, [Next]_vars PROVE WebTyped'
  OBVIOUS
<1> USE DEF filesv, loopv, webv, ghost, bounds
<1>1. ASSUME asker' \in {asker, None}, control' = control, client' = client \/ Answer
      PROVE  WebTyped'
  BY <1>1, AnswerType DEF WebTyped
<1>2. CASE Boot \/ BootOk \/ Hangup \/ RollbackRefused \/ Load \/ LoadFails
  <2>1. asker' \in {asker, None} /\ control' = control
    BY <1>2 DEF Boot, BootOk, Hangup, RollbackRefused, Load, LoadFails, Selects
  <2>2. client' = client \/ Answer
    BY <1>2, Zenon DEF Boot, BootOk, Hangup, RollbackRefused, Load, LoadFails
  <2> QED
    BY <1>1, <2>1, <2>2
<1>3. CASE \/ StopEngine \/ StartNew \/ SlowEnds \/ Started \/ StartFails
           \/ NothingToRestore \/ RestoreFails \/ RestartedOld \/ Terminate
           \/ PortTaken \/ PortFreed \/ RolledBack \/ RestoreOpened \/ Restored
           \/ Edit \/ UNCHANGED vars
  <2>1. asker' \in {asker, None} /\ control' = control
    BY <1>3
       DEF StopEngine, StartNew, SlowEnds, Started, StartFails, NothingToRestore, Selects,
           RestoreFails, RestartedOld, Terminate, PortTaken, PortFreed, RolledBack,
           RestoreOpened, Restored, Edit, vars
  <2>2. client' = client \/ Answer
    BY <1>3, Zenon
       DEF StopEngine, StartNew, SlowEnds, Started, StartFails, NothingToRestore,
           RestoreFails, RestartedOld, Terminate, PortTaken, PortFreed, RolledBack,
           RestoreOpened, Restored, Edit, vars
  <2> QED
    BY <1>1, <2>1, <2>2
<1>4. CASE Ending
  <2>1. Exits
    BY <1>4, EndingExits
  <2> QED
    BY <2>1, BoundsAssumption DEF Exits, WebTyped, ClientStates
<1>5. CASE Receive
  <2>1. control # <<>> /\ asker' = Head(control) /\ control' = Tail(control)
    BY <1>5 DEF Receive
  <2>2. client' = client
    BY <1>5 DEF Receive
  <2> QED
    BY <2>1, <2>2, BoundsAssumption DEF WebTyped
<1>6. ASSUME NEW c \in Clients, NEW s \in ClientStates, Becomes(c, s),
             UNCHANGED <<asker, control>>
      PROVE  WebTyped'
  BY <1>6 DEF WebTyped, Becomes
<1>7. ASSUME NEW c \in Clients, Save(c) PROVE WebTyped'
  <2>1. UNCHANGED <<asker, control>>
    BY <1>7 DEF Save
  <2>2. client' = client \/ Becomes(c, "backup")
    BY <1>7, Zenon DEF Save
  <2> QED
    BY <1>6, <2>1, <2>2 DEF WebTyped, ClientStates
<1>8. ASSUME NEW c \in Clients, Ask(c) PROVE WebTyped'
  <2>1. UNCHANGED <<asker, control>>
    BY <1>8 DEF Ask
  <2>2. Becomes(c, "reload") \/ Becomes(c, "rollback")
    BY <1>8 DEF Ask
  <2> QED
    BY <1>6, <2>1, <2>2 DEF ClientStates
<1>9. ASSUME NEW c \in Clients, BackupFails(c) \/ WriteFails(c) \/ Written(c)
      PROVE  WebTyped'
  <2>1. UNCHANGED <<asker, control>>
    BY <1>9 DEF BackupFails, WriteFails, Written
  <2>2. Becomes(c, "idle")
    BY <1>9, Zenon DEF BackupFails, WriteFails, Written, Done
  <2> QED
    BY <1>6, <2>1, <2>2 DEF ClientStates
<1>10. ASSUME NEW c \in Clients, BackupOpened(c) \/ BackedUp(c) \/ WriteOpened(c)
       PROVE  WebTyped'
  <2>1. UNCHANGED <<asker, control>>
    BY <1>10 DEF BackupOpened, BackedUp, WriteOpened
  <2>2. \E s \in {"backing", "write", "writing"} : Becomes(c, s)
    BY <1>10 DEF BackupOpened, BackedUp, WriteOpened
  <2> QED
    BY <1>6, <2>1, <2>2 DEF ClientStates
<1>11. ASSUME NEW c \in Clients, Send(c) PROVE WebTyped'
  <2>1. control' = Append(control, c) /\ Len(control) < ControlCapacity /\ asker' = asker
    BY <1>11 DEF Send, Room
  <2>2. Becomes(c, "reload_sent") \/ Becomes(c, "rollback_sent")
    BY <1>11 DEF Send
  <2>3. control' \in Seq(Clients) /\ Len(control') = Len(control) + 1
    BY <2>1 DEF WebTyped
  <2>4. Len(control) \in Nat /\ ControlCapacity \in Nat
    BY BoundsAssumption DEF WebTyped
  <2>5. Len(control') <= ControlCapacity
    BY <2>1, <2>3, <2>4
  <2> QED
    BY <2>1, <2>2, <2>3, <2>5 DEF WebTyped, Becomes, ClientStates
<1> QED
  BY <1>2, <1>3, <1>4, <1>5, <1>7, <1>8, <1>9, <1>10, <1>11
     DEF Next, Loop, Handler, Ending

LEMMA CountsTypedStep == CountsTyped /\ [Next]_vars => CountsTyped'
<1> SUFFICES ASSUME CountsTyped, [Next]_vars PROVE CountsTyped'
  OBVIOUS
<1> USE BoundsAssumption DEF CountsTyped, filesv, loopv, webv, ghost, bounds
<1>1. CASE Boot \/ BootOk \/ Hangup \/ LoadFails \/ Receive \/ Terminate
  BY <1>1 DEF Boot, BootOk, Hangup, LoadFails, Receive, Terminate, Selects
<1>2. ASSUME UNCHANGED <<requests, exits>>, changes' \in 0..2, fresh' \in 0..2,
             Fault \/ UNCHANGED faults
      PROVE  CountsTyped'
  BY <1>2 DEF Fault
<1>3. CASE RollbackRefused
  <2>1. Fault \/ UNCHANGED faults
    BY <1>3, Zenon DEF RollbackRefused
  <2> QED
    BY <1>2, <1>3, <2>1 DEF RollbackRefused, Selects
<1>4. CASE \/ Load \/ RolledBack \/ StopEngine \/ StartNew \/ SlowEnds \/ StartFails
           \/ Started \/ RestartedOld \/ RestoreOpened \/ Restored \/ NothingToRestore
  <2>1. UNCHANGED <<requests, faults, exits>>
    BY <1>4, Zenon
       DEF Load, RolledBack, StopEngine, StartNew, SlowEnds, StartFails, Started,
           RestartedOld, RestoreOpened, Restored, NothingToRestore
  <2>2. changes' \in {changes, fresh, 0, 2} /\ fresh' \in {fresh, 0, 2}
    <3>1. CASE Load
      BY <3>1 DEF Load
    <3>2. CASE Restored
      <4>1. changes' = 0 \/ changes' = 2
        BY <3>2 DEF Restored
      <4>2. fresh' = fresh
        BY <3>2 DEF Restored
      <4> QED
        BY <4>1, <4>2
    <3>3. CASE Started \/ RestartedOld
      BY <3>3 DEF Started, RestartedOld, Selects
    <3>4. CASE \/ RolledBack \/ StopEngine \/ StartNew \/ SlowEnds \/ StartFails
               \/ RestoreOpened \/ NothingToRestore
      BY <3>4
         DEF RolledBack, StopEngine, StartNew, SlowEnds, StartFails, RestoreOpened,
             NothingToRestore
    <3> QED
      BY <1>4, <3>1, <3>2, <3>3, <3>4
  <2> QED
    BY <2>1, <2>2
<1>6. CASE RestoreFails \/ PortTaken \/ PortFreed
  <2>1. UNCHANGED <<requests, exits>> /\ changes' \in {changes, 2} /\ fresh' = fresh
    BY <1>6 DEF RestoreFails, PortTaken, PortFreed
  <2>2. Fault \/ UNCHANGED faults
    BY <1>6, Zenon DEF RestoreFails, PortTaken, PortFreed
  <2> QED
    BY <1>2, <2>1, <2>2
<1>7. CASE Ending
  BY <1>7, EndingExits DEF Exits
<1>8. ASSUME NEW c \in Clients, Save(c) \/ Ask(c) PROVE CountsTyped'
  <2>1. requests < MaxRequests /\ requests' = requests + 1
    BY <1>8 DEF Save, Ask, Begins
  <2>2. UNCHANGED <<changes, fresh, faults, exits>>
    BY <1>8 DEF Save, Ask
  <2> QED
    BY <2>1, <2>2
<1>9. ASSUME NEW c \in Clients, BackupFails(c) \/ WriteFails(c) PROVE CountsTyped'
  <2>1. Fault
    BY <1>9, Zenon DEF BackupFails, WriteFails
  <2> QED
    BY <1>2, <1>9, <2>1 DEF BackupFails, WriteFails
<1>10. ASSUME NEW c \in Clients, BackupOpened(c) PROVE CountsTyped'
  BY <1>10 DEF BackupOpened, Bumped
<1>11. ASSUME NEW c \in Clients,
              BackedUp(c) \/ WriteOpened(c) \/ Written(c) \/ Send(c)
       PROVE  UNCHANGED <<changes, fresh, requests, faults, exits>>
  BY <1>11, Zenon DEF BackedUp, WriteOpened, Written, Send
<1>12. CASE Edit
  BY <1>12 DEF Edit
<1>13. CASE UNCHANGED vars \/ UNCHANGED <<changes, fresh, requests, faults, exits>>
  BY <1>13 DEF vars
<1> QED
  BY <1>1, <1>3, <1>4, <1>6, <1>7, <1>8, <1>9, <1>10, <1>11, <1>12, <1>13
     DEF Next, Loop, Handler, Ending

(* The flags are Boolean whatever they were.                               *)
LEMMA FlagsTypedStep == FlagsTyped /\ [Next]_vars => FlagsTyped'
<1> SUFFICES ASSUME FlagsTyped, [Next]_vars PROVE FlagsTyped'
  OBVIOUS
<1> USE DEF FlagsTyped, filesv, loopv, webv, ghost, bounds
<1>1. CASE Boot \/ BootOk \/ Hangup \/ LoadFails \/ Terminate \/ Load \/ RolledBack
  BY <1>1, Zenon DEF Boot, BootOk, Hangup, LoadFails, Terminate, Load, RolledBack
<1>2. CASE Receive \/ RollbackRefused \/ RestoreOpened
  BY <1>2, Zenon DEF Receive, RollbackRefused, RestoreOpened
<1>3. CASE StopEngine \/ StartNew \/ SlowEnds \/ Started \/ StartFails
  BY <1>3, Zenon DEF StopEngine, StartNew, SlowEnds, Started, StartFails
<1>4. CASE Restored \/ RestoreFails \/ NothingToRestore \/ RestartedOld
  BY <1>4, Zenon DEF Restored, RestoreFails, NothingToRestore, RestartedOld
<1>5. CASE Ending
  BY <1>5, EndingExits, Zenon DEF Exits
<1>6. ASSUME NEW c \in Clients,
             Save(c) \/ Ask(c) \/ Handler(c) \/ BackupFails(c) \/ WriteFails(c)
      PROVE  FlagsTyped'
  BY <1>6, Zenon
     DEF Save, Ask, Handler, BackupFails, WriteFails, BackupOpened, BackedUp, WriteOpened,
         Written, Send
<1>7. CASE Edit \/ PortTaken \/ PortFreed \/ UNCHANGED vars
  BY <1>7, Zenon DEF Edit, PortTaken, PortFreed, vars
<1> QED
  BY <1>1, <1>2, <1>3, <1>4, <1>5, <1>6, <1>7 DEF Next, Loop, Ending

LEMMA InitTyped == Init => Typed
<1> SUFFICES ASSUME Init PROVE Typed
  OBVIOUS
<1> USE ConfigsAssumption, BoundsAssumption DEF Init
<1>1. FilesTyped /\ LoopTyped /\ CountsTyped /\ Sources
  BY DEF FilesTyped, LoopTyped, CountsTyped, Sources, Contents, Places
<1>2. FlagsTyped
  BY DEF FlagsTyped
<1>3. WebTyped
  BY DEF WebTyped, ClientStates
<1> QED
  BY <1>1, <1>2, <1>3, TypeParts DEF Typed

LEMMA StepTyped == Typed /\ [Next]_vars => Typed'
<1> SUFFICES ASSUME Typed, [Next]_vars PROVE Typed'
  OBVIOUS
<1>1. FilesTyped' /\ LoopTyped' /\ WebTyped' /\ CountsTyped' /\ FlagsTyped' /\ Sources'
  BY TypeParts, FilesTypedStep, LoopTypedStep, WebTypedStep, CountsTypedStep, FlagsTypedStep
     DEF Typed
<1>2. TypeOK'
  BY <1>1
     DEF TypeOK, FilesTyped, LoopTyped, WebTyped, CountsTyped, FlagsTyped
<1> QED
  BY <1>1, <1>2 DEF Typed

(* Every variable has its type.                                            *)
THEOREM TypeCorrect == Spec => []TypeOK
<1>1. Typed => TypeOK
  BY DEF Typed
<1> QED
  BY <1>1, InitTyped, StepTyped, PTL DEF Spec

----------------------------------------------------------------------------
(* Each step of the loop leaves it in the shape that belongs to its place. *)
LEMMA LoopShapeStep == Typed /\ LoopShape /\ [Next]_vars => LoopShape'
<1> SUFFICES ASSUME Typed, LoopShape, [Next]_vars PROVE LoopShape'
  OBVIOUS
<1>a. /\ None \notin Startable /\ Startable \subseteq Valid
      /\ main \in Places /\ tasks \subseteq Owners
  BY ConfigsAssumption DEF Typed, TypeOK
<1>b. WebTyped
  BY TypeParts DEF Typed
<1> USE <1>a DEF LoopShape, Running, Reloading, filesv, loopv, webv, ghost, bounds
<1>1. CASE Boot
  BY <1>1 DEF Boot
<1>2. CASE BootOk
  BY <1>2 DEF BootOk, Selects, Starts
<1>3. CASE Hangup \/ LoadFails \/ RollbackRefused
  BY <1>3 DEF Hangup, LoadFails, RollbackRefused, Selects
<1>4. CASE Receive \/ RolledBack
  BY <1>4 DEF Receive, RolledBack
<1>5. CASE Load
  BY <1>5 DEF Load, Hidden
<1>6. CASE StopEngine \/ StartNew \/ SlowEnds
  BY <1>6 DEF StopEngine, StartNew, SlowEnds
<1>7. CASE Started
  BY <1>7 DEF Started, Selects, Starts
<1>8. CASE StartFails
  BY <1>8 DEF StartFails, TornDown
<1>9. CASE RestoreOpened \/ Restored \/ RestoreFails \/ NothingToRestore
  BY <1>9 DEF RestoreOpened, Restored, RestoreFails, NothingToRestore
<1>10. CASE RestartedOld
  BY <1>10 DEF RestartedOld, Selects
<1>11. CASE Ending
  BY <1>11, EndingExits DEF Exits
<1>12. CASE Terminate
  BY <1>12 DEF Terminate
<1>13. ASSUME UNCHANGED loopv, main = "down" => UNCHANGED client PROVE LoopShape'
  BY <1>13
<1>14. ASSUME NEW c \in Clients,
              Save(c) \/ Ask(c) \/ Handler(c) \/ BackupFails(c) \/ WriteFails(c)
       PROVE  LoopShape'
  <2>1. UNCHANGED loopv
    BY <1>14, Zenon
       DEF Save, Ask, Handler, BackupFails, WriteFails, BackupOpened, BackedUp, WriteOpened,
           Written, Send
  <2>2. main # "down"
    <3>1. CASE Save(c) \/ Ask(c)
      BY <3>1 DEF Save, Ask, Begins, Up
    <3>2. CASE Handler(c) \/ BackupFails(c) \/ WriteFails(c)
      BY <3>2
         DEF Handler, BackupFails, WriteFails, BackupOpened, BackedUp, WriteOpened, Written,
             Send
    <3> QED
      BY <1>14, <3>1, <3>2
  <2> QED
    BY <1>13, <2>1, <2>2
<1>15. CASE Edit \/ PortTaken \/ PortFreed \/ UNCHANGED vars
  <2>1. UNCHANGED loopv /\ UNCHANGED client
    BY <1>15, Zenon DEF Edit, PortTaken, PortFreed, vars
  <2> QED
    BY <1>13, <2>1
<1> QED
  BY <1>1, <1>2, <1>3, <1>4, <1>5, <1>6, <1>7, <1>8, <1>9, <1>10, <1>11, <1>12, <1>14,
     <1>15 DEF Next, Loop, Ending

(* A client that has asked does nothing until it is answered.              *)
LEMMA QueuedStep == Typed /\ Queued /\ [Next]_vars => Queued'
<1> SUFFICES ASSUME Typed, Queued, [Next]_vars PROVE Queued'
  OBVIOUS
<1>a. /\ client \in [Clients -> ClientStates]
      /\ control \in Seq(Clients) /\ asker \in Clients \cup {None}
  BY DEF Typed, TypeOK
<1> USE ClientsAssumption DEF Queued, Asked, filesv, loopv, webv, ghost, bounds
<1>b. ASSUME asker' = None, control' = control, Answer PROVE Queued'
  BY <1>a, <1>b DEF Answer
<1>c. ASSUME NEW c \in Clients, client[c] \notin Asked, asker' = asker, control' = control,
             \A d \in Clients \ {c} : client'[d] = client[d]
      PROVE  Queued'
  <2>1. \A i \in 1..Len(control) : control[i] \in Clients \ {c}
    BY <1>a, <1>c
  <2>2. asker # None => asker \in Clients \ {c}
    BY <1>a, <1>c
  <2> QED
    BY <1>c, <2>1, <2>2
<1>1. CASE BootOk \/ RollbackRefused \/ LoadFails \/ Started \/ RestartedOld
  <2>1. asker' = None /\ control' = control
    BY <1>1 DEF BootOk, RollbackRefused, LoadFails, Started, RestartedOld, Selects
  <2>2. client' = client \/ Answer
    BY <1>1, Zenon DEF BootOk, RollbackRefused, LoadFails, Started, RestartedOld
  <2>3. \A i \in 1..Len(control) : control[i] # None
    BY <1>a
  <2> QED
    BY <1>b, <2>1, <2>2, <2>3
<1>2. CASE \/ Boot \/ Hangup \/ Load \/ StopEngine \/ StartNew \/ SlowEnds \/ StartFails
           \/ NothingToRestore \/ RestoreFails \/ Terminate \/ RolledBack
           \/ RestoreOpened \/ Restored
  <2>1. UNCHANGED <<asker, control, client>>
    BY <1>2
       DEF Boot, Hangup, Load, StopEngine, StartNew, SlowEnds, StartFails,
           NothingToRestore, RestoreFails, Terminate, RolledBack, RestoreOpened, Restored
  <2> QED
    BY <2>1
<1>3. CASE Ending
  BY <1>3, EndingExits DEF Exits
<1>4. CASE Receive
  <2>1. control # <<>> /\ asker' = Head(control) /\ control' = Tail(control)
    BY <1>4 DEF Receive
  <2>2. client' = client
    BY <1>4 DEF Receive
  <2>3. /\ Len(control) \in Nat \ {0} /\ Len(control') = Len(control) - 1
        /\ asker' = control[1] /\ \A i \in 1..Len(control') : control'[i] = control[i + 1]
    BY <1>a, <2>1
  <2> QED
    BY <2>2, <2>3
<1>5. ASSUME NEW c \in Clients,
             \/ Save(c) \/ Ask(c) \/ BackupFails(c) \/ WriteFails(c) \/ BackupOpened(c)
             \/ BackedUp(c) \/ WriteOpened(c) \/ Written(c)
      PROVE  Queued'
  <2>1. UNCHANGED <<asker, control>>
    BY <1>5
       DEF Save, Ask, BackupFails, WriteFails, BackupOpened, BackedUp, WriteOpened, Written
  <2>2. client[c] \notin Asked
    BY <1>5
       DEF Save, Ask, Begins, BackupFails, WriteFails, BackupOpened, BackedUp, WriteOpened,
           Written
  <2>3. client' = client \/ \E s \in ClientStates : Becomes(c, s)
    BY <1>5
       DEF Save, Ask, BackupFails, WriteFails, BackupOpened, BackedUp, WriteOpened, Written,
           Done, ClientStates
  <2>4. \A d \in Clients \ {c} : client'[d] = client[d]
    BY <1>a, <2>3 DEF Becomes
  <2> QED
    BY <1>c, <2>1, <2>2, <2>4
<1>6. ASSUME NEW c \in Clients, Send(c) PROVE Queued'
  <2>1. client[c] \notin Asked /\ control' = Append(control, c) /\ asker' = asker
    BY <1>6 DEF Send
  <2>2. /\ Len(control') = Len(control) + 1 /\ control'[Len(control')] = c
        /\ \A i \in 1..Len(control) : control'[i] = control[i]
    BY <1>a, <2>1
  <2>3. client'[c] \in Asked /\ \A d \in Clients \ {c} : client'[d] = client[d]
    BY <1>a, <1>6 DEF Send, Becomes
  <2>4. \A i \in 1..Len(control) : control[i] \in Clients \ {c}
    BY <1>a, <2>1
  <2>5. asker # c
    BY <2>1
  <2>6. Len(control) \in Nat
    BY <1>a
  <2>7. \A i \in 1..Len(control') : i \in 1..Len(control) \/ i = Len(control')
    BY <2>2, <2>6
  <2>8. \A i \in 1..Len(control') : client'[control'[i]] \in Asked /\ control'[i] # asker'
    BY <2>1, <2>2, <2>3, <2>4, <2>5, <2>7
  <2>9. \A i, j \in 1..Len(control') : control'[i] = control'[j] => i = j
    BY <2>2, <2>4, <2>7
  <2>10. asker' # None => client'[asker'] \in Asked
    BY <1>a, <2>1, <2>3, <2>5
  <2> QED
    BY <2>8, <2>9, <2>10
<1>7. CASE Edit \/ PortTaken \/ PortFreed \/ UNCHANGED vars
  <2>1. UNCHANGED <<asker, control, client>>
    BY <1>7 DEF Edit, PortTaken, PortFreed, vars
  <2> QED
    BY <2>1
<1> QED
  BY <1>1, <1>2, <1>3, <1>4, <1>5, <1>6, <1>7 DEF Next, Loop, Handler, Ending

(* A step between whose ends no writer came or went leaves OneWriter.      *)
LEMMA WritersStay ==
  ASSUME OneWriter, UNCHANGED <<config, bak>>, LoopWrites' <=> LoopWrites,
         \A c \in Clients :
           \/ client'[c] = client[c]
           \/ client[c] \notin {"backing", "writing"} /\ client'[c] \notin {"backing", "writing"}
  PROVE  OneWriter'
  BY DEF OneWriter, Writes

(* Only a client that has asked is answered: it was not writing.           *)
LEMMA AnsweredAsked ==
  ASSUME Typed, Queued, client' = client \/ Answer
  PROVE  \A c \in Clients :
           \/ client'[c] = client[c]
           \/ client[c] \in Asked /\ client'[c] = "idle"
<1>1. /\ client \in [Clients -> ClientStates]
      /\ asker \in Clients \cup {None}
  BY DEF Typed, TypeOK
<1> QED
  BY <1>1, ClientsAssumption DEF Answer, Queued

LEMMA BakThereStep == Typed /\ Queued /\ BakThere /\ [Next]_vars => BakThere'
<1> SUFFICES ASSUME Typed, Queued, BakThere, [Next]_vars PROVE BakThere'
  OBVIOUS
<1>a. /\ client \in [Clients -> ClientStates]
      /\ config # None /\ Torn # None
  BY ConfigsAssumption DEF Typed, TypeOK, Contents
<1> USE DEF BakThere, Changing, Asked, filesv, loopv, webv, ghost, bounds
<1>1. CASE \/ Boot \/ BootOk \/ Hangup \/ RollbackRefused \/ Load \/ LoadFails
           \/ StopEngine \/ StartNew \/ SlowEnds \/ Started \/ StartFails
           \/ NothingToRestore \/ RestoreFails \/ RestartedOld \/ Terminate
           \/ Receive \/ RolledBack \/ RestoreOpened \/ Restored
           \/ Edit \/ PortTaken \/ PortFreed \/ UNCHANGED vars
  <2>1. bak' = bak
    BY <1>1
       DEF Boot, BootOk, Hangup, RollbackRefused, Load, LoadFails, StopEngine, StartNew,
           SlowEnds, Started, StartFails, NothingToRestore, RestoreFails, RestartedOld,
           Terminate, Receive, RolledBack, RestoreOpened, Restored, Edit, PortTaken,
           PortFreed, vars
  <2>2. client' = client \/ Answer
    BY <1>1, Zenon
       DEF Boot, BootOk, Hangup, RollbackRefused, Load, LoadFails, StopEngine, StartNew,
           SlowEnds, Started, StartFails, NothingToRestore, RestoreFails, RestartedOld,
           Terminate, Receive, RolledBack, RestoreOpened, Restored, Edit, PortTaken,
           PortFreed, vars
  <2> QED
    BY <2>1, <2>2, AnsweredAsked
<1>2. CASE Ending
  BY <1>2, EndingExits DEF Exits
<1>3. ASSUME NEW c \in Clients, Save(c) \/ Ask(c) \/ Send(c) PROVE BakThere'
  BY <1>a, <1>3 DEF Save, Ask, Send, Becomes
<1>4. ASSUME NEW c \in Clients, BackupFails(c) \/ WriteFails(c) \/ Written(c)
      PROVE  BakThere'
  BY <1>a, <1>4 DEF BackupFails, WriteFails, Written, Done, Becomes
<1>5. ASSUME NEW c \in Clients, BackupOpened(c) \/ BackedUp(c) \/ WriteOpened(c)
      PROVE  BakThere'
  BY <1>a, <1>5 DEF BackupOpened, BackedUp, WriteOpened, Becomes, Copied, BackupOf
<1> QED
  BY <1>1, <1>2, <1>3, <1>4, <1>5 DEF Next, Loop, Handler, Ending

LEMMA OneWriterStep ==
  Typed /\ Queued /\ BakThere /\ (~damaged => OneWriter) /\ [Next]_vars
    => (~damaged => OneWriter)'
<1> SUFFICES ASSUME Typed, Queued, BakThere, ~damaged => OneWriter, [Next]_vars, ~damaged'
             PROVE  OneWriter'
  OBVIOUS
<1>a. /\ client \in [Clients -> ClientStates]
      /\ Torn # None /\ Torn \notin Valid /\ None \notin Valid
  BY ConfigsAssumption DEF Typed, TypeOK
<1> USE DEF LoopWrites, Asked, filesv, loopv, webv, ghost, bounds
<1>1. CASE \/ Boot \/ BootOk \/ Hangup \/ Load \/ LoadFails \/ StopEngine \/ StartNew
           \/ SlowEnds \/ Started \/ StartFails \/ NothingToRestore \/ RestartedOld
           \/ Terminate \/ PortTaken \/ PortFreed \/ UNCHANGED vars
  <2>1. UNCHANGED <<config, bak>> /\ LoopWrites' = LoopWrites
    BY <1>1
       DEF Boot, BootOk, Hangup, Load, LoadFails, StopEngine, StartNew,
           SlowEnds, Started, StartFails, NothingToRestore, RestartedOld,
           Terminate, PortTaken, PortFreed, vars, Selects
  <2>2. client' = client \/ Answer
    BY <1>1, Zenon
       DEF Boot, BootOk, Hangup, Load, LoadFails, StopEngine, StartNew,
           SlowEnds, Started, StartFails, NothingToRestore, RestartedOld,
           Terminate, PortTaken, PortFreed, vars
  <2>3. damaged' = damaged
    BY <1>1, Zenon
       DEF Boot, BootOk, Hangup, Load, LoadFails, StopEngine, StartNew,
           SlowEnds, Started, StartFails, NothingToRestore, RestartedOld,
           Terminate, PortTaken, PortFreed, vars
  <2> QED
    BY <2>1, <2>2, <2>3, AnsweredAsked, WritersStay
<1>2. CASE RollbackRefused
  <2>1. bak = None /\ UNCHANGED damaged
    BY <1>2, Zenon DEF RollbackRefused
  <2>2. UNCHANGED <<config, bak>> /\ LoopWrites' = LoopWrites /\ Answer
    BY <1>2, <2>1 DEF RollbackRefused, Selects
  <2> QED
    BY <2>1, <2>2, AnsweredAsked, WritersStay
<1>3. CASE RestoreFails \/ Edit
  BY <1>3 DEF RestoreFails, Edit
<1>4. ASSUME WritingConfig => damaged', WritingBak => damaged', damaged => damaged'
      PROVE  /\ OneWriter /\ ~LoopWrites /\ \A c \in Clients : ~Writes(c)
             /\ config \in Valid /\ bak \in Valid \cup {None}
  BY <1>4 DEF OneWriter, WritingConfig, WritingBak, Writes
<1>5. CASE Ending
  <2>1. /\ damaged' = (damaged \/ WritingConfig \/ WritingBak)
        /\ UNCHANGED <<config, bak>> /\ main' = "down"
        /\ client' = [c \in Clients |-> "idle"]
    BY <1>5, EndingExits DEF Exits
  <2>2. ~LoopWrites /\ config \in Valid /\ bak \in Valid \cup {None}
    BY <1>4, <2>1
  <2> QED
    BY <1>a, <2>1, <2>2 DEF OneWriter, Writes
<1>6. CASE Receive
  <2> DEFINE h == client[Head(control)]
  <2>1. /\ main' = IF h = "reload_sent" THEN "load" ELSE "rolling"
        /\ config' = IF h = "rollback_sent" /\ bak # None THEN Torn ELSE config
        /\ damaged' = (damaged \/ (/\ h = "rollback_sent" /\ bak # None
                                   /\ WritingConfig \/ WritingBak))
        /\ main = "select" /\ UNCHANGED <<bak, client>>
    BY <1>6 DEF Receive
  <2>2. h \in Asked
    <3>1. control \in Seq(Clients) /\ control # <<>>
      BY <1>6 DEF Receive, Typed, TypeOK
    <3> QED
      BY <3>1 DEF Queued
  <2> HIDE DEF h
  <2>3. CASE h = "rollback_sent" /\ bak # None
    <3>1. /\ damaged' = (damaged \/ WritingConfig \/ WritingBak)
          /\ config' = Torn /\ main' = "rolling"
      BY <2>1, <2>3
    <3>2. (\A c \in Clients : ~Writes(c)) /\ bak \in Valid
      BY <1>4, <2>3, <3>1
    <3> QED
      BY <1>a, <2>1, <3>1, <3>2 DEF OneWriter, Writes
  <2>4. CASE ~(h = "rollback_sent" /\ bak # None)
    <3>1. config' = config
      BY <2>1, <2>4
    <3>3. ~damaged
      BY <2>1, Zenon
    <3>2. LoopWrites' = LoopWrites
      BY <2>1, <2>2, <2>4
    <3> QED
      BY <2>1, <3>1, <3>2, <3>3, WritersStay
  <2> QED
    BY <2>3, <2>4
<1>7. CASE RestoreOpened
  <2>1. /\ damaged' = (damaged \/ WritingConfig \/ WritingBak)
        /\ config' = Torn /\ main' = "restoring" /\ UNCHANGED <<bak, client>>
    BY <1>7 DEF RestoreOpened
  <2>2. (\A c \in Clients : ~Writes(c)) /\ bak \in Valid \cup {None}
    BY <1>4, <2>1
  <2> QED
    BY <1>a, <2>1, <2>2 DEF OneWriter, Writes
<1>8. CASE RolledBack \/ Restored
  <2>1. /\ config' \in Copied(config, bak, \E c \in Clients : client[c] = "writing")
        /\ UNCHANGED <<bak, client>> /\ main' \notin {"rolling", "restoring"} /\ LoopWrites
        /\ bak # None
    BY <1>8 DEF RolledBack, Restored, Typed, Sources
  <2>2. damaged' = damaged
    BY <1>8, Zenon DEF RolledBack, Restored
  <2>3. /\ OneWriter /\ config = Torn /\ \A c \in Clients : ~Writes(c)
        /\ bak \in Valid
    BY <2>1, <2>2 DEF OneWriter, Writes
  <2>4. config' = bak
    BY <2>1, <2>3, CopiedType DEF Writes
  <2> QED
    BY <1>a, <2>1, <2>3, <2>4 DEF OneWriter, Writes
<1>9. ASSUME NEW c \in Clients, Save(c) \/ Ask(c) \/ Send(c) PROVE OneWriter'
  <2>1. UNCHANGED <<config, bak>> /\ LoopWrites' = LoopWrites
    BY <1>9 DEF Save, Ask, Send
  <2>2. damaged' = damaged
    BY <1>9, Zenon DEF Save, Ask, Send
  <2>3. /\ client[c] \notin {"backing", "writing"} /\ client'[c] \notin {"backing", "writing"}
        /\ \A d \in Clients \ {c} : client'[d] = client[d]
    BY <1>a, <1>9 DEF Save, Ask, Send, Begins, Becomes
  <2> QED
    BY <2>1, <2>2, <2>3, WritersStay
<1>10. ASSUME NEW c \in Clients, BackupFails(c) \/ WriteFails(c) PROVE OneWriter'
  BY <1>10 DEF BackupFails, WriteFails
<1>11. ASSUME NEW c \in Clients, BackupOpened(c) PROVE OneWriter'
  <2>1. /\ damaged' = (damaged \/ WritingConfig \/ WritingBak)
        /\ bak' = Torn /\ UNCHANGED <<config, main>> /\ Becomes(c, "backing")
    BY <1>11 DEF BackupOpened
  <2>2. ~LoopWrites /\ (\A d \in Clients : ~Writes(d)) /\ config \in Valid /\ main # "rolling"
    BY <1>4, <2>1 DEF WritingConfig
  <2>3. client'[c] = "backing" /\ \A d \in Clients \ {c} : client'[d] = client[d]
    BY <1>a, <2>1 DEF Becomes
  <2> QED
    BY <1>a, <2>1, <2>2, <2>3 DEF OneWriter, Writes
<1>12. ASSUME NEW c \in Clients, WriteOpened(c) PROVE OneWriter'
  <2>1. /\ damaged' = (damaged \/ WritingConfig \/ WritingBak)
        /\ config' = Torn /\ UNCHANGED <<bak, main>> /\ Becomes(c, "writing")
    BY <1>12 DEF WriteOpened
  <2>2. ~LoopWrites /\ (\A d \in Clients : ~Writes(d)) /\ bak \in Valid \cup {None}
    BY <1>4, <2>1
  <2>3. client'[c] = "writing" /\ \A d \in Clients \ {c} : client'[d] = client[d]
    BY <1>a, <2>1 DEF Becomes
  <2> QED
    BY <1>a, <2>1, <2>2, <2>3 DEF OneWriter, Writes
<1>13. ASSUME NEW c \in Clients, BackedUp(c) PROVE OneWriter'
  <2>1. /\ bak' \in Copied(bak, config, \E d \in Clients \ {c} : client[d] = "backing")
        /\ client[c] = "backing" /\ UNCHANGED <<config, main>> /\ Becomes(c, "write")
    BY <1>13 DEF BackedUp, BackupOf
  <2>2. damaged' = damaged
    BY <1>13, Zenon DEF BackedUp
  <2>3. /\ bak = Torn /\ config \in Valid /\ ~LoopWrites
        /\ \A d \in Clients \ {c} : ~Writes(d)
    BY <2>1, <2>2 DEF OneWriter, Writes
  <2>4. bak' = config
    BY <2>1, <2>3, CopiedType DEF Writes
  <2>5. client'[c] = "write" /\ \A d \in Clients \ {c} : client'[d] = client[d]
    BY <1>a, <2>1 DEF Becomes
  <2> QED
    BY <1>a, <2>1, <2>3, <2>4, <2>5 DEF OneWriter, Writes
<1>14. ASSUME NEW c \in Clients, Written(c) PROVE OneWriter'
  <2>1. /\ config' \in Copied(config, body[c],
                         main \in {"rolling", "restoring"}
                           \/ \E d \in Clients \ {c} : client[d] = "writing")
        /\ client[c] = "writing" /\ UNCHANGED <<bak, main>> /\ Becomes(c, "idle")
    BY <1>14 DEF Written, Done
  <2>2. damaged' = damaged
    BY <1>14, Zenon DEF Written
  <2>3. /\ config = Torn /\ bak \in Valid \cup {None} /\ ~LoopWrites
        /\ \A d \in Clients \ {c} : ~Writes(d)
    BY <2>1, <2>2 DEF OneWriter, Writes
  <2>4. body[c] \in Valid
    BY <2>1 DEF Typed, Sources
  <2>5. client'[c] = "idle" /\ \A d \in Clients \ {c} : client'[d] = client[d]
    BY <1>a, <2>1 DEF Becomes
  <2>6. main \notin {"rolling", "restoring"}
    BY <2>1, <2>3 DEF BakThere, Changing
  <2>7. config' = body[c]
    BY <2>1, <2>3, <2>6, CopiedType DEF Writes
  <2> QED
    BY <1>a, <2>1, <2>3, <2>4, <2>5, <2>7 DEF OneWriter, Writes
<1> QED
  BY <1>1, <1>2, <1>3, <1>5, <1>6, <1>7, <1>8, <1>9, <1>10, <1>11, <1>12, <1>13, <1>14
     DEF Next, Loop, Handler, Ending

LEMMA FilesStep == Typed /\ Queued /\ Files /\ [Next]_vars => Files'
<1> SUFFICES ASSUME Typed, Queued, Files, [Next]_vars PROVE Files'
  OBVIOUS
<1>1. BakThere'
  BY BakThereStep DEF Files
<1>2. (~damaged => OneWriter)'
  BY OneWriterStep DEF Files
<1> QED
  BY <1>1, <1>2 DEF Files

----------------------------------------------------------------------------
(* A step that changes no file, and in which nobody begins or ends a       *)
(* change, keeps what was kept.                                            *)
LEMMA KeptStays ==
  ASSUME UNCHANGED <<config, bak>>, LoopWrites' <=> LoopWrites,
         \A c \in Clients :
           client'[c] = client[c] \/ (~Changing(c) /\ ~Changing(c)')
  PROVE  \A n, r : Kept(n, r) => Kept(n, r)'
  BY DEF Kept, Changing

(* The loop opens the configuration to copy the backup over it.            *)
LEMMA KeptOpened ==
  ASSUME UNCHANGED <<bak, client>>, LoopWrites', \A c \in Clients : ~Writes(c)
  PROVE  \A n, r : Kept(n, r) => Kept(n, r)'
  BY DEF Kept, Changing, Writes

LEMMA ChangesStep ==
  Typed /\ LoopShape /\ Queued /\ Files /\ Changes /\ [Next]_vars => Changes'
<1> SUFFICES ASSUME Typed, LoopShape, Queued, Files, Changes, [Next]_vars, ~damaged'
             PROVE  /\ Running' => Kept(changes, engine)'
                    /\ Reloading' => Kept(changes, old)'
                    /\ main' \in {"booting", "stopping", "starting"} => Kept(fresh, next)'
  BY DEF Changes
<1> DEFINE Goal == /\ Running' => Kept(changes, engine)'
                   /\ Reloading' => Kept(changes, old)'
                   /\ main' \in {"booting", "stopping", "starting"} => Kept(fresh, next)'
<1>a. /\ client \in [Clients -> ClientStates] /\ main \in Places
      /\ changes \in 0..2 /\ fresh \in 0..2
      /\ Torn # None /\ Torn \notin Valid /\ None \notin Valid
  BY ConfigsAssumption DEF Typed, TypeOK
<1>d. ASSUME ~damaged
      PROVE  /\ OneWriter
             /\ Running => Kept(changes, engine)
             /\ Reloading => Kept(changes, old)
             /\ main \in {"booting", "stopping", "starting"} => Kept(fresh, next)
  BY <1>d DEF Files, Changes
<1> USE DEF LoopWrites, Asked, filesv, loopv, webv, ghost, bounds
<1>k. ASSUME client' = client \/ Answer, UNCHANGED <<config, bak>>, LoopWrites' = LoopWrites
      PROVE  \A n, r : Kept(n, r) => Kept(n, r)'
  <2>1. \A c \in Clients : client'[c] = client[c] \/ (~Changing(c) /\ ~Changing(c)')
    BY <1>k, AnsweredAsked DEF Changing
  <2>2. LoopWrites' <=> LoopWrites
    BY <1>k
  <2> QED
    BY <1>k, <2>1, <2>2, KeptStays
<1>1. CASE Boot \/ Ending \/ Terminate
  <2>1. CASE Boot
    BY <1>a, <2>1 DEF Boot, LoopShape, Running, Reloading, Kept, Changing
  <2>2. CASE Ending \/ Terminate
    <3>1. main' \in {"down", "shutdown"}
      BY <2>2, EndingExits DEF Exits, Terminate
    <3> QED
      BY <3>1 DEF Running, Reloading
  <2> QED
    BY <1>1, <2>1, <2>2
<1>2. CASE \/ BootOk \/ Hangup \/ Load \/ LoadFails \/ StopEngine \/ StartNew
           \/ SlowEnds \/ Started \/ StartFails \/ RestartedOld
           \/ PortTaken \/ PortFreed \/ UNCHANGED vars
  <2>1. UNCHANGED <<config, bak>> /\ LoopWrites' = LoopWrites
    BY <1>2
       DEF BootOk, Hangup, Load, LoadFails, StopEngine, StartNew,
           SlowEnds, Started, StartFails, RestartedOld,
           PortTaken, PortFreed, vars, Selects
  <2>2. client' = client \/ Answer
    BY <1>2, Zenon
       DEF BootOk, Hangup, Load, LoadFails, StopEngine, StartNew,
           SlowEnds, Started, StartFails, RestartedOld,
           PortTaken, PortFreed, vars
  <2>3. damaged' = damaged
    BY <1>2, Zenon
       DEF BootOk, Hangup, Load, LoadFails, StopEngine, StartNew,
           SlowEnds, Started, StartFails, RestartedOld,
           PortTaken, PortFreed, vars
  <2>4. \A n, r : Kept(n, r) => Kept(n, r)'
    BY <1>k, <2>1, <2>2
  <2>5. /\ Running => Kept(changes, engine)
        /\ Reloading => Kept(changes, old)
        /\ main \in {"booting", "stopping", "starting"} => Kept(fresh, next)
    BY <1>d, <2>3
  <2>6. CASE Load
    <3>1. /\ main = "load" /\ main' = "stopping" /\ next' = config /\ old' = engine
          /\ fresh' = IF Saving THEN 2 ELSE 0
          /\ UNCHANGED <<config, client, changes>>
      BY <2>6 DEF Load
    <3>2. Kept(fresh, next)'
      BY <1>a, <3>1 DEF Kept, Saving, Changing
    <3>3. Kept(changes, old)'
      BY <2>4, <2>5, <3>1 DEF Running, Kept
    <3> QED
      BY <3>1, <3>2, <3>3 DEF Running
  <2>7. CASE BootOk \/ Started
    <3>1. /\ main \in {"booting", "starting"} /\ main' = "select"
          /\ changes' = fresh /\ engine' = next
      BY <2>7 DEF BootOk, Started, Selects
    <3>2. Kept(changes, engine)'
      BY <2>4, <2>5, <3>1 DEF Kept
    <3> QED
      BY <3>1, <3>2 DEF Reloading
  <2>8. CASE Hangup \/ LoadFails
    <3>1. Running /\ Running' /\ UNCHANGED <<changes, engine>>
      BY <2>8 DEF Hangup, LoadFails, Selects, Running
    <3>2. Kept(changes, engine)'
      BY <2>4, <2>5, <3>1 DEF Kept
    <3> QED
      BY <3>1, <3>2 DEF Reloading, Running
  <2>9. CASE StopEngine \/ StartNew \/ StartFails
    <3>1. /\ Reloading /\ Reloading' /\ UNCHANGED <<changes, fresh, old, next>>
          /\ main' \in {"booting", "stopping", "starting"} => main \in {"stopping", "starting"}
      BY <2>9 DEF StopEngine, StartNew, StartFails, Reloading
    <3>2. Kept(changes, old)'
      BY <2>4, <2>5, <3>1 DEF Kept
    <3>3. main' \in {"booting", "stopping", "starting"} => Kept(fresh, next)'
      BY <2>4, <2>5, <3>1 DEF Kept
    <3> QED
      BY <3>1, <3>2, <3>3 DEF Reloading, Running
  <2>10. CASE RestartedOld
    <3>1. main = "restarting" /\ main' = "select" /\ engine' = old /\ changes' = changes
      BY <2>10 DEF RestartedOld, Selects
    <3>2. Kept(changes, engine)'
      BY <2>4, <2>5, <3>1 DEF Kept, Reloading
    <3> QED
      BY <3>1, <3>2 DEF Reloading
  <2>11. CASE SlowEnds \/ PortTaken \/ PortFreed \/ UNCHANGED vars
    <3>1. UNCHANGED <<main, changes, fresh, old, next>>
      BY <2>11 DEF SlowEnds, PortTaken, PortFreed, vars
    <3>2. UNCHANGED engine
      BY <2>11 DEF SlowEnds, PortTaken, PortFreed, vars
    <3> QED
      BY <2>4, <2>5, <3>1, <3>2 DEF Kept, Reloading, Running
  <2> QED
    BY <1>2, <2>6, <2>7, <2>8, <2>9, <2>10, <2>11
<1>3. CASE Receive \/ RollbackRefused
  <2>1. CASE RollbackRefused
    <3>1. bak = None /\ UNCHANGED damaged
      BY <2>1, Zenon DEF RollbackRefused
    <3>2. /\ Answer /\ UNCHANGED <<config, bak, changes, engine>>
          /\ main = "rolling" /\ main' = "select"
      BY <2>1 DEF RollbackRefused, Selects
    <3>3. LoopWrites' = LoopWrites
      BY <3>1, <3>2
    <3>4. Kept(changes, engine)'
      BY <1>d, <1>k, <3>1, <3>2, <3>3 DEF Kept, Running
    <3> QED
      BY <3>2, <3>4 DEF Reloading
  <2>2. CASE Receive
    <3> DEFINE h == client[Head(control)]
    <3>1. /\ main' = IF h = "reload_sent" THEN "load" ELSE "rolling"
          /\ config' = IF h = "rollback_sent" /\ bak # None THEN Torn ELSE config
          /\ damaged' = (damaged \/ (/\ h = "rollback_sent" /\ bak # None
                                     /\ WritingConfig \/ WritingBak))
          /\ main = "select" /\ UNCHANGED <<bak, client, changes, engine>>
      BY <2>2 DEF Receive
    <3>2. h \in Asked
      <4>1. control \in Seq(Clients) /\ control # <<>>
        BY <2>2 DEF Receive, Typed, TypeOK
      <4> QED
        BY <4>1 DEF Queued
    <3>3. ~damaged
      BY <3>1, Zenon
    <3> HIDE DEF h
    <3>4. ASSUME h = "rollback_sent", bak # None
          PROVE  \A n, r : Kept(n, r) => Kept(n, r)'
      <4>1. ~WritingConfig /\ ~WritingBak /\ main' = "rolling"
        BY <3>1, <3>4
      <4> QED
        BY <3>1, <3>4, <4>1, KeptOpened DEF WritingConfig, WritingBak, Writes
    <3>5. ASSUME ~(h = "rollback_sent" /\ bak # None)
          PROVE  \A n, r : Kept(n, r) => Kept(n, r)'
      <4>1. UNCHANGED <<config, bak, client>> /\ LoopWrites' = LoopWrites
        BY <3>1, <3>2, <3>5
      <4> QED
        BY <1>k, <4>1
    <3>6. Kept(changes, engine)'
      BY <1>d, <3>1, <3>3, <3>4, <3>5 DEF Kept, Running
    <3> QED
      BY <3>1, <3>6 DEF Reloading
  <2> QED
    BY <1>3, <2>1, <2>2
<1>4. CASE RolledBack \/ NothingToRestore
  <2>1. CASE RolledBack
    BY <2>1 DEF RolledBack, Kept, Reloading
  <2>2. CASE NothingToRestore
    BY <2>2 DEF NothingToRestore, Kept, Running
  <2> QED
    BY <1>4, <2>1, <2>2
<1>5. CASE RestoreOpened
  <2>1. /\ damaged' = (damaged \/ WritingConfig \/ WritingBak)
        /\ main = "restore" /\ main' = "restoring" /\ UNCHANGED <<bak, client, changes, old>>
    BY <1>5 DEF RestoreOpened
  <2>2. ~damaged /\ ~WritingConfig /\ ~WritingBak
    BY <2>1, Zenon
  <2>3. \A n, r : Kept(n, r) => Kept(n, r)'
    BY <2>1, <2>2, KeptOpened DEF WritingConfig, WritingBak, Writes
  <2>4. Kept(changes, old)'
    BY <1>d, <2>1, <2>2, <2>3 DEF Kept, Reloading
  <2> QED
    BY <2>1, <2>4 DEF Running
<1>6. CASE Restored
  <2>1. /\ changes' = IF config' = old /\ ~Saving THEN 0 ELSE 2
        /\ main' = "restarting" /\ UNCHANGED <<client, old>>
    BY <1>6 DEF Restored
  <2>2. Kept(changes, old)'
    BY <1>a, <2>1 DEF Kept, Saving, Changing
  <2> QED
    BY <2>1, <2>2 DEF Running
<1>7. CASE RestoreFails \/ Edit
  BY <1>7 DEF RestoreFails, Edit
<1>e. ASSUME UNCHANGED <<loopv, changes, fresh>>, ~damaged,
             \A n, r : Kept(n, r) => Kept(n, r)'
      PROVE  Goal
  BY <1>d, <1>e DEF Kept, Running, Reloading
<1> HIDE DEF Goal
<1>8. ASSUME NEW c \in Clients, Save(c) \/ Ask(c) \/ Send(c) PROVE Goal
  <2>1. UNCHANGED <<config, bak, loopv, changes, fresh>> /\ LoopWrites' = LoopWrites
    BY <1>8 DEF Save, Ask, Send
  <2>2. damaged' = damaged
    BY <1>8, Zenon DEF Save, Ask, Send
  <2>3. ~Changing(c) /\ ~Changing(c)' /\ \A d \in Clients \ {c} : client'[d] = client[d]
    BY <1>a, <1>8 DEF Save, Ask, Send, Begins, Becomes, Changing
  <2>4. \A n, r : Kept(n, r) => Kept(n, r)'
    BY <2>1, <2>3, KeptStays
  <2> QED
    BY <1>e, <2>1, <2>2, <2>4
<1>9. ASSUME NEW c \in Clients, BackupFails(c) \/ WriteFails(c) PROVE Goal
  BY <1>9 DEF BackupFails, WriteFails
<1>10. ASSUME NEW c \in Clients, BackupOpened(c) PROVE Goal
  <2>1. /\ damaged' = (damaged \/ WritingConfig \/ WritingBak)
        /\ changes' = Bumped(changes) /\ fresh' = Bumped(fresh)
        /\ UNCHANGED <<config, loopv>> /\ Becomes(c, "backing") /\ client[c] = "backup"
    BY <1>10 DEF BackupOpened
  <2>2. ~damaged /\ ~WritingConfig /\ ~WritingBak
    BY <2>1, Zenon
  <2>3. ~LoopWrites /\ ~Changing(c) /\ \A d \in Clients : client[d] \notin {"backing", "writing"}
    BY <2>1, <2>2 DEF WritingConfig, WritingBak, Changing
  <2>4. client'[c] = "backing" /\ \A d \in Clients \ {c} : client'[d] = client[d]
    BY <1>a, <2>1 DEF Becomes
  <2>5. ASSUME NEW n \in 0..2, NEW m, m = Bumped(n), NEW r, Kept(n, r)
        PROVE  Kept(m, r)'
    <3>1. m \in {1, 2} /\ (m = 1 => n = 0)
      BY <2>5 DEF Bumped
    <3>2. CASE m = 2
      BY <3>2 DEF Kept
    <3>3. CASE m = 1
      BY <2>1, <2>3, <2>4, <2>5, <3>1, <3>3 DEF Kept, Changing
    <3> QED
      BY <3>1, <3>2, <3>3
  <2>6. \A n \in 0..2 : \A m, r : m = Bumped(n) /\ Kept(n, r) => Kept(m, r)'
    BY <2>5
  <2>7. UNCHANGED <<main, engine, old, next>>
    BY <2>1
  <2> QED
    BY <1>a, <1>d, <2>1, <2>2, <2>6, <2>7 DEF Goal, Kept, Running, Reloading
<1>11. ASSUME NEW c \in Clients, BackedUp(c) PROVE Goal
  <2>1. /\ bak' \in Copied(bak, config, \E d \in Clients \ {c} : client[d] = "backing")
        /\ client[c] = "backing" /\ Becomes(c, "write")
        /\ UNCHANGED <<config, loopv, changes, fresh>>
    BY <1>11 DEF BackedUp, BackupOf
  <2>2. damaged' = damaged
    BY <1>11, Zenon DEF BackedUp
  <2>3. bak = Torn /\ \A d \in Clients \ {c} : ~Writes(d)
    BY <1>d, <2>1, <2>2 DEF OneWriter, Writes
  <2>4. bak' = config
    BY <2>1, <2>3, CopiedType DEF Writes
  <2>5. client'[c] = "write" /\ \A d \in Clients \ {c} : client'[d] = client[d]
    BY <1>a, <2>1 DEF Becomes
  <2>6. ASSUME NEW n, NEW r, Kept(n, r) PROVE Kept(n, r)'
    BY <2>1, <2>3, <2>4, <2>5, <2>6 DEF Kept, Changing, Writes
  <2> QED
    BY <1>e, <2>1, <2>2, <2>6
<1>12. ASSUME NEW c \in Clients, WriteOpened(c) \/ Written(c) PROVE Goal
  <2>1. /\ client[c] \in {"write", "writing"}
        /\ Becomes(c, "writing") \/ Becomes(c, "idle")
        /\ UNCHANGED <<bak, loopv, changes, fresh>>
    BY <1>12 DEF WriteOpened, Written, Done
  <2>2. ~damaged
    <3>1. CASE WriteOpened(c)
      BY <3>1, Zenon DEF WriteOpened
    <3>2. CASE Written(c)
      BY <3>2, Zenon DEF Written
    <3> QED
      BY <1>12, <3>1, <3>2
  <2>3. /\ client'[c] \in {"writing", "idle"}
        /\ \A d \in Clients \ {c} : client'[d] = client[d]
    BY <1>a, <2>1 DEF Becomes
  <2>4. ASSUME NEW n, NEW r, Kept(n, r) PROVE Kept(n, r)'
    BY <2>1, <2>3, <2>4 DEF Kept, Changing
  <2> QED
    BY <1>e, <2>1, <2>2, <2>4
<1>13. Goal
  BY <1>1, <1>2, <1>3, <1>4, <1>5, <1>6, <1>7, <1>8, <1>9, <1>10, <1>11, <1>12
     DEF Goal, Next, Loop, Handler, Ending
<1> QED
  BY <1>13 DEF Goal

----------------------------------------------------------------------------
LEMMA InitIInv == Init => IInv
<1> SUFFICES ASSUME Init PROVE IInv
  OBVIOUS
<1>1. Typed
  BY InitTyped
<1>2. LoopShape /\ Queued
  BY DEF Init, LoopShape, Queued, Running, Reloading
<1>3. Files
  BY ConfigsAssumption
     DEF Init, Files, BakThere, Changing, OneWriter, Writes, LoopWrites
<1>4. Changes
  BY DEF Init, Changes, Running, Reloading
<1> QED
  BY <1>1, <1>2, <1>3, <1>4 DEF IInv

LEMMA StepIInv == IInv /\ [Next]_vars => IInv'
  BY StepTyped, LoopShapeStep, QueuedStep, FilesStep, ChangesStep DEF IInv

LEMMA InductiveInvariant == Spec => []IInv
  BY InitIInv, StepIInv, PTL DEF Spec

(* Between two messages the engine runs, with a configuration it can start *)
(* with, no half-started engine is left, and what the web handlers see is  *)
(* an engine that runs.                                                    *)
THEOREM AgentRunsOrExits == Spec => []RunsOrExits
<1>1. IInv => RunsOrExits
  BY ConfigsAssumption
     DEF IInv, LoopShape, RunsOrExits, Running, Reloading, Typed, TypeOK, Places
<1> QED
  BY <1>1, InductiveInvariant, PTL

(* Nothing the agent does to its configuration file leaves it unusable, as *)
(* long as every writer lives to its end, and is alone.                    *)
THEOREM FileStaysUsable == Spec => []FileUsable
<1>1. IInv => FileUsable
  BY DEF IInv, Files, OneWriter, FileUsable, LoopWrites, WritingConfig
<1> QED
  BY <1>1, InductiveInvariant, PTL

(* A reload that fails to start puts back what was running.                *)
THEOREM ReloadRestores == Spec => RestoresRunning
<1>1. ASSUME IInv, [Next]_vars, main = "restoring", main' = "restarting",
             changes = 1, fresh = 0, ~damaged'
      PROVE  config' = old
  <2>1. Restored \/ RestoreFails
    BY <1>1
       DEF Next, Loop, Handler, vars, filesv, loopv, webv, ghost, bounds, Boot, BootOk,
           Selects, BootFails, Dies, Exits, Receive, Hangup, RolledBack, RollbackRefused,
           Load, LoadFails, StopEngine, StartNew, SlowEnds, Started, StartFails,
           RestoreOpened, NothingToRestore, RestartedOld, RestartOldFails, Terminate,
           ShutDown, Save, Ask, Send, BackupOpened, BackedUp, BackupFails, WriteOpened,
           Written, WriteFails, Edit, PortTaken, PortFreed
  <2>2. CASE RestoreFails
    BY <1>1, <2>2 DEF RestoreFails
  <2>3. CASE Restored
    <3>1. config' \in Copied(config, bak, \E c \in Clients : client[c] = "writing")
      BY <2>3 DEF Restored
    <3>2. damaged' = damaged
      BY <2>3, Zenon DEF Restored
    <3>3. OneWriter /\ Kept(1, old)
      BY <1>1, <3>2 DEF IInv, Files, Changes, Reloading
    <3>4. config = Torn /\ \A c \in Clients : ~Writes(c)
      BY <1>1, <3>3 DEF OneWriter, LoopWrites
    <3>5. bak = old
      BY <3>3, <3>4 DEF Kept, Writes
    <3> QED
      BY <3>1, <3>4, <3>5, CopiedType DEF Writes
  <2> QED
    BY <2>1, <2>2, <2>3
<1>2. IInv /\ [Next]_vars => [main = "restoring" /\ main' = "restarting" /\ changes = 1
                                /\ fresh = 0 /\ ~damaged' => config' = old]_vars
  BY <1>1
<1> QED
  BY <1>2, InductiveInvariant, PTL DEF Spec, RestoresRunning
=============================================================================
