----------------------------- MODULE Lifecycle -----------------------------
(***************************************************************************)
(* The agent's process: run_agent and try_reload in src/main.rs, the       *)
(* configuration handlers of src/web.rs, and start and stop of the engine  *)
(* (src/engine.rs) as the control loop sees them.                          *)
(*                                                                         *)
(* Web clients save the configuration file and its backup, and ask over a  *)
(* bounded channel for a reload or a rollback; the control loop, which has *)
(* signals to obey too, answers them.  The loop and the web handlers write *)
(* the same two files, in place: a file that is open for writing holds     *)
(* nothing usable.  The process may die at any point, and the service      *)
(* manager starts it again from the file.                                  *)
(***************************************************************************)
EXTENDS Naturals, Sequences

CONSTANTS
  Configs,       (* contents of agent.yaml                                 *)
  Valid,         (* those that parse, validate and have safe permissions   *)
  Startable,     (* those of them that the engine can start with           *)
  Binding,       (* those whose inputs bind a port                         *)
  Torn,          (* half a configuration                                   *)
  None,
  Clients,       (* web requests in progress                               *)
  ControlCapacity,   (* of the control channel                             *)
  MaxRequests, MaxFaults, MaxExits   (* bounds                             *)

ASSUME ConfigsAssumption ==
  /\ Valid \subseteq Configs /\ Startable \subseteq Valid /\ Binding \subseteq Valid
  /\ Torn \notin Configs /\ None \notin Configs /\ Torn # None
  /\ Startable # {}
ASSUME ClientsAssumption == None \notin Clients
ASSUME BoundsAssumption ==
  /\ ControlCapacity \in Nat \ {0}
  /\ MaxRequests \in Nat /\ MaxFaults \in Nat /\ MaxExits \in Nat

VARIABLES
  config, bak,   (* agent.yaml and agent.yaml.bak                          *)
  busy,          (* another program has the port                           *)
  main,          (* where run_agent stands                                 *)
  engine,        (* the configuration of the engine, or None               *)
  shown,         (* AppState.engine: the same, for the web handlers        *)
  next, old,     (* new_cfg and old_cfg of try_reload                      *)
  asker,         (* the client whose message is being served, or None      *)
  tasks,         (* whose tasks run: the engine's, those of an engine that *)
                 (* is being built, and listeners that outlived stop (what *)
                 (* else did has nothing that a start needs)               *)
  control,       (* the control channel: clients, in order                 *)
  client, body,  (* what each client does, and with which configuration    *)
  \* for the properties
  changes,       (* saves since the running configuration was loaded; 2    *)
                 (* stands for any other change too                        *)
  fresh,         (* the same since next was loaded                         *)
  damaged,       (* a file was edited by hand, or its writer died, failed, *)
                 (* or was not alone                                       *)
  requests, faults, exits

filesv == <<config, bak>>
loopv == <<main, engine, shown, next, old, asker, tasks>>
webv == <<control, client, body>>
ghost == <<changes, fresh, damaged>>
bounds == <<requests, faults, exits>>
vars == <<filesv, busy, loopv, webv, ghost, bounds>>

Contents == Configs \cup {Torn}
Owners == {"engine", "partial", "slow"}
Places == {"down", "booting", "select", "rolling", "load", "stopping", "starting",
           "restore", "restoring", "restarting", "shutdown"}
ClientStates == {"idle", "backup", "backing", "write", "writing",
                 "reload", "rollback", "reload_sent", "rollback_sent"}

TypeOK ==
  /\ config \in Contents /\ bak \in Contents \cup {None}
  /\ busy \in BOOLEAN
  /\ main \in Places
  /\ engine \in Valid \cup {None} /\ shown \in Valid \cup {None}
  /\ next \in Valid \cup {None} /\ old \in Valid \cup {None}
  /\ asker \in Clients \cup {None}
  /\ tasks \subseteq Owners
  /\ control \in Seq(Clients) /\ Len(control) <= ControlCapacity
  /\ client \in [Clients -> ClientStates] /\ body \in [Clients -> Configs \cup {None}]
  /\ changes \in 0..2 /\ fresh \in 0..2
  /\ damaged \in BOOLEAN
  /\ requests \in 0..MaxRequests /\ faults \in 0..MaxFaults /\ exits \in 0..MaxExits

Up == main \notin {"down"}

WritingConfig == main \in {"rolling", "restoring"} \/ \E c \in Clients : client[c] = "writing"
WritingBak == \E c \in Clients : client[c] = "backing"
(* What a file holds when a writer that had truncated it is done: if       *)
(* another has written to it meanwhile, or still does, possibly a mixture. *)
Copied(file, new, shared) == IF file = Torn /\ ~shared THEN {new} ELSE {new, Torn}

Saving == \E c \in Clients : client[c] \in {"backup", "backing", "write", "writing"}

(* A port is in the way of a listener whoever has it: another program, or  *)
(* a listener of the old engine that has outlived its stop.                *)
Starts(c) == c \in Startable /\ (c \in Binding => ~busy /\ "slow" \notin tasks)

Bumped(n) == IF n < 2 THEN n + 1 ELSE 2

Fault == faults < MaxFaults /\ faults' = faults + 1

----------------------------------------------------------------------------
Init ==
  /\ config \in Startable /\ bak \in Valid \cup {None}
  /\ busy = FALSE
  /\ main = "down" /\ engine = None /\ shown = None /\ next = None /\ old = None
  /\ asker = None /\ tasks = {}
  /\ control = <<>>
  /\ client = [c \in Clients |-> "idle"] /\ body = [c \in Clients |-> None]
  /\ changes = 0 /\ fresh = 0
  /\ damaged = FALSE
  /\ requests = 0 /\ faults = 0 /\ exits = 0

----------------------------------------------------------------------------
(* run_agent up to its loop.  The web server runs before the engine does.  *)

Boot ==
  /\ main = "down" /\ config \in Valid
  /\ main' = "booting" /\ next' = config
  /\ tasks' = {"partial"}
  /\ fresh' = 0
  /\ UNCHANGED <<filesv, busy, engine, shown, old, asker, webv, changes, damaged, bounds>>


(* Back in the loop; what the reload remembered is gone.                   *)
Selects == main' = "select" /\ asker' = None /\ next' = None /\ old' = None /\ fresh' = 0

BootOk ==
  /\ main = "booting" /\ Starts(next)
  /\ Selects
  /\ engine' = next /\ shown' = next
  /\ tasks' = {"engine"}
  /\ changes' = fresh
  /\ UNCHANGED <<filesv, busy, webv, damaged, bounds>>

(* The process ends: whoever waits for an answer is told that it did not   *)
(* complete, and a file that is being written stays as it is.              *)
Exits ==
  /\ main' = "down" /\ engine' = None /\ shown' = None /\ next' = None /\ old' = None
  /\ asker' = None /\ tasks' = {}
  /\ control' = <<>>
  /\ client' = [c \in Clients |-> "idle"]
  /\ body' = [c \in Clients |-> None] /\ fresh' = 0
  /\ damaged' = (damaged \/ WritingConfig \/ WritingBak)

BootFails ==
  /\ main = "booting" /\ ~Starts(next) /\ exits < MaxExits
  /\ Exits
  /\ exits' = exits + 1
  /\ UNCHANGED <<filesv, busy, changes, requests, faults>>

Dies ==
  /\ Up /\ exits < MaxExits
  /\ Exits
  /\ exits' = exits + 1
  /\ UNCHANGED <<filesv, busy, changes, requests, faults>>

----------------------------------------------------------------------------
(* The control loop takes a message, or a signal.                          *)

Answer == client' = IF asker = None THEN client ELSE [client EXCEPT ![asker] = "idle"]

Receive ==
  /\ main = "select" /\ control # <<>>
  /\ asker' = Head(control) /\ control' = Tail(control)
  /\ main' = IF client[Head(control)] = "reload_sent" THEN "load" ELSE "rolling"
  /\ config' = IF client[Head(control)] = "rollback_sent" /\ bak # None THEN Torn ELSE config
  /\ damaged' = (damaged \/ (/\ client[Head(control)] = "rollback_sent" /\ bak # None
                             /\ WritingConfig \/ WritingBak))
  /\ UNCHANGED <<bak, busy, engine, shown, next, old, tasks, client, body, changes, fresh,
                 bounds>>

Hangup ==
  /\ main = "select" /\ asker = None
  /\ main' = "load"
  /\ UNCHANGED <<filesv, busy, engine, shown, next, old, asker, tasks, webv, ghost, bounds>>

(* Rollback: the backup is copied over the configuration, and loaded.      *)
RolledBack ==
  /\ main = "rolling" /\ bak # None
  /\ config' \in Copied(config, bak, \E c \in Clients : client[c] = "writing")
  /\ changes' = 2
  /\ main' = "load"
  /\ UNCHANGED <<bak, busy, engine, shown, next, old, asker, tasks, webv, fresh, damaged, bounds>>

RollbackRefused ==
  /\ main = "rolling"
  /\ \/ bak = None /\ UNCHANGED <<damaged, faults>>
     \/ bak # None /\ Fault /\ damaged' = TRUE
  /\ Answer
  /\ Selects
  /\ UNCHANGED <<filesv, busy, engine, shown, tasks, control, body, changes,
                 requests, exits>>

----------------------------------------------------------------------------
(* try_reload.                                                             *)

(* Variant: the file is not validated before the engine is stopped.        *)
UsableUnchecked(c) == c \in Configs

Usable(c) == c \in Valid

Hidden == shown' = None

Load ==
  /\ main = "load" /\ Usable(config)
  /\ next' = config /\ old' = engine
  /\ fresh' = IF Saving THEN 2 ELSE 0
  /\ Hidden
  /\ main' = "stopping"
  /\ UNCHANGED <<filesv, busy, engine, asker, tasks, webv, changes, damaged, bounds>>

LoadFails ==
  /\ main = "load" /\ ~Usable(config)
  /\ Answer
  /\ Selects
  /\ UNCHANGED <<filesv, busy, engine, shown, tasks, control, body, changes, damaged,
                 bounds>>

(* Variant: stop waits for the slowest task.                               *)
WaitsForEver == "slow" \notin tasks

(* Engine::stop waits for each task, but not for ever: what sits in a slow *)
(* send goes on, and a listener that does keeps its socket.                *)
GivesUp == TRUE

StopEngine ==
  /\ main = "stopping" /\ "engine" \in tasks
  /\ engine' = None
  /\ \/ tasks' = tasks \ {"engine"}
     \/ engine \in Binding /\ tasks' = (tasks \ {"engine"}) \cup {"slow"}
  /\ UNCHANGED <<filesv, busy, main, shown, next, old, asker, webv, ghost, bounds>>

StartNew ==
  /\ main = "stopping" /\ "engine" \notin tasks /\ GivesUp
  /\ tasks' = tasks \cup {"partial"}
  /\ main' = "starting"
  /\ UNCHANGED <<filesv, busy, engine, shown, next, old, asker, webv, ghost, bounds>>

SlowEnds ==
  /\ "slow" \in tasks
  /\ tasks' = tasks \ {"slow"}
  /\ UNCHANGED <<filesv, busy, main, engine, shown, next, old, asker, webv, ghost, bounds>>

Started ==
  /\ main = "starting" /\ Starts(next)
  /\ engine' = next /\ shown' = next
  /\ tasks' = (tasks \ {"partial"}) \cup {"engine"}
  /\ Answer
  /\ changes' = fresh
  /\ Selects
  /\ UNCHANGED <<filesv, busy, control, body, damaged, bounds>>

(* Variant: a failed start leaves its tasks running.                       *)
LeftBehind == tasks

(* A start that fails half way tears down what it has started.             *)
TornDown == tasks \ {"partial"}

StartFails ==
  /\ main = "starting" /\ ~Starts(next)
  /\ tasks' = TornDown
  /\ main' = "restore"
  /\ UNCHANGED <<filesv, busy, engine, shown, next, old, asker, webv, ghost, bounds>>

(* The backup, if there is one, is copied back; that it fails is ignored.  *)
RestoreOpened ==
  /\ main = "restore" /\ bak # None
  /\ config' = Torn
  /\ damaged' = (damaged \/ WritingConfig \/ WritingBak)
  /\ main' = "restoring"
  /\ UNCHANGED <<bak, busy, engine, shown, next, old, asker, tasks, webv, changes, fresh,
                 bounds>>

Restored ==
  /\ main = "restoring"
  /\ config' \in Copied(config, bak, \E c \in Clients : client[c] = "writing")
  /\ changes' = IF config' = old /\ ~Saving THEN 0 ELSE 2
  /\ main' = "restarting"
  /\ UNCHANGED <<bak, busy, engine, shown, next, old, asker, tasks, webv, fresh, damaged,
                 bounds>>

RestoreFails ==
  /\ main = "restoring" /\ Fault
  /\ damaged' = TRUE
  /\ changes' = 2
  /\ main' = "restarting"
  /\ UNCHANGED <<filesv, busy, engine, shown, next, old, asker, tasks, webv, fresh,
                 requests, exits>>

NothingToRestore ==
  /\ main = "restore" /\ bak = None
  /\ changes' = 2
  /\ main' = "restarting"
  /\ UNCHANGED <<filesv, busy, engine, shown, next, old, asker, tasks, webv, fresh, damaged,
                 bounds>>

RestartedOld ==
  /\ main = "restarting" /\ Starts(old)
  /\ engine' = old /\ shown' = old
  /\ tasks' = tasks \cup {"engine"}
  /\ Answer
  /\ Selects
  /\ UNCHANGED <<filesv, busy, control, body, changes, damaged, bounds>>

RestartOldFails ==
  /\ main = "restarting" /\ ~Starts(old) /\ exits < MaxExits
  /\ Exits
  /\ exits' = exits + 1
  /\ UNCHANGED <<filesv, busy, changes, requests, faults>>

(* SIGTERM, Ctrl-C, the service manager: the loop ends, the engine stops.  *)
Terminate ==
  /\ main = "select" /\ exits < MaxExits
  /\ main' = "shutdown" /\ shown' = None
  /\ UNCHANGED <<filesv, busy, engine, next, old, asker, tasks, webv, ghost, bounds>>

ShutDown ==
  /\ main = "shutdown" /\ exits < MaxExits
  /\ Exits
  /\ exits' = exits + 1
  /\ UNCHANGED <<filesv, busy, changes, requests, faults>>

----------------------------------------------------------------------------
(* web.rs: the clients.  Any of them may begin anything at any time; the   *)
(* web server has no lock around the files.                                *)

Becomes(c, s) == client' = [client EXCEPT ![c] = s]
Done(c) == Becomes(c, "idle") /\ body' = [body EXCEPT ![c] = None]

Begins(c) ==
  /\ Up /\ client[c] = "idle" /\ requests < MaxRequests
  /\ requests' = requests + 1

(* api_config_save: what does not validate is not written.                 *)
Save(c) ==
  /\ Begins(c)
  /\ \E cfg \in Configs :
       IF Usable(cfg)
         THEN body' = [body EXCEPT ![c] = cfg] /\ Becomes(c, "backup")
         ELSE UNCHANGED <<body, client>>
  /\ UNCHANGED <<filesv, busy, loopv, control, ghost, faults, exits>>

BackupOpened(c) ==
  /\ client[c] = "backup"
  /\ bak' = Torn
  /\ damaged' = (damaged \/ WritingConfig \/ WritingBak)
  /\ changes' = Bumped(changes) /\ fresh' = Bumped(fresh)
  /\ Becomes(c, "backing")
  /\ UNCHANGED <<config, busy, loopv, control, body, bounds>>

(* Variant: the backup is made of what is being saved.                     *)
BackupOfNew(c) == body[c]

BackupOf(c) == config

BackedUp(c) ==
  /\ client[c] = "backing"
  /\ bak' \in Copied(bak, BackupOf(c), \E d \in Clients \ {c} : client[d] = "backing")
  /\ Becomes(c, "write")
  /\ UNCHANGED <<config, busy, loopv, control, body, ghost, bounds>>

BackupFails(c) ==
  /\ client[c] = "backing" /\ Fault
  /\ damaged' = TRUE
  /\ Done(c)
  /\ UNCHANGED <<filesv, busy, loopv, control, changes, fresh, requests, exits>>

WriteOpened(c) ==
  /\ client[c] = "write"
  /\ config' = Torn
  /\ damaged' = (damaged \/ WritingConfig \/ WritingBak)
  /\ Becomes(c, "writing")
  /\ UNCHANGED <<bak, busy, loopv, control, body, changes, fresh, bounds>>

Written(c) ==
  /\ client[c] = "writing"
  /\ config' \in Copied(config, body[c],
                     main \in {"rolling", "restoring"}
                       \/ \E d \in Clients \ {c} : client[d] = "writing")
  /\ Done(c)
  /\ UNCHANGED <<bak, busy, loopv, control, ghost, bounds>>

WriteFails(c) ==
  /\ client[c] = "writing" /\ Fault
  /\ damaged' = TRUE
  /\ Done(c)
  /\ UNCHANGED <<filesv, busy, loopv, control, changes, fresh, requests, exits>>

(* api_config_reload, api_config_rollback.                                 *)
Ask(c) ==
  /\ Begins(c)
  /\ \E s \in {"reload", "rollback"} : Becomes(c, s)
  /\ UNCHANGED <<filesv, busy, loopv, control, body, ghost, faults, exits>>

Room == Len(control) < ControlCapacity

Send(c) ==
  /\ client[c] \in {"reload", "rollback"} /\ Room
  /\ control' = Append(control, c)
  /\ Becomes(c, IF client[c] = "reload" THEN "reload_sent" ELSE "rollback_sent")
  /\ UNCHANGED <<filesv, busy, loopv, body, ghost, bounds>>

----------------------------------------------------------------------------
(* The operator edits the file; the port is taken and freed.               *)

Edit ==
  /\ requests < MaxRequests /\ requests' = requests + 1
  /\ config' \in Configs \ {config}
  /\ changes' = 2 /\ fresh' = 2 /\ damaged' = TRUE
  /\ UNCHANGED <<bak, busy, loopv, webv, faults, exits>>

PortTaken == ~busy /\ Fault /\ busy' = TRUE
             /\ UNCHANGED <<filesv, loopv, webv, ghost, requests, exits>>
PortFreed == busy /\ busy' = FALSE /\ UNCHANGED <<filesv, loopv, webv, ghost, bounds>>

----------------------------------------------------------------------------
Loop ==
  \/ Receive \/ RolledBack \/ RollbackRefused \/ Load \/ LoadFails
  \/ StopEngine \/ StartNew \/ Started \/ StartFails
  \/ RestoreOpened \/ Restored \/ NothingToRestore \/ RestartedOld
  \/ BootOk \/ BootFails \/ RestartOldFails \/ ShutDown

Handler(c) ==
  BackupOpened(c) \/ BackedUp(c) \/ WriteOpened(c) \/ Written(c) \/ Send(c)

Next ==
  \/ Boot \/ Dies \/ Loop \/ RestoreFails \/ Hangup \/ SlowEnds \/ Terminate
  \/ \E c \in Clients :
       Handler(c) \/ Save(c) \/ Ask(c) \/ BackupFails(c) \/ WriteFails(c)
  \/ Edit \/ PortTaken \/ PortFreed

Spec == Init /\ [][Next]_vars

(* The control loop and the handlers run when they can; every start, stop  *)
(* and copy ends.  select! chooses among what is ready at random, so that  *)
(* signals do not keep a message waiting for ever.                         *)
FairSpec == Spec /\ WF_vars(Loop) /\ SF_vars(Receive) /\ \A c \in Clients : WF_vars(Handler(c))

----------------------------------------------------------------------------
(* Between two messages the engine runs, with a configuration that it can  *)
(* start with, and nothing is left of an engine that could not be started  *)
(* (Engine::start): whatever a reload met, the agent goes on or exits.     *)
(* What the web handlers see meanwhile is an engine that runs: they lose   *)
(* sight of it before it stops, not after (try_reload).                    *)
RunsOrExits ==
  /\ shown # None => shown = engine /\ "engine" \in tasks /\ main # "stopping"
  /\ main = "select" => engine \in Startable /\ shown = engine /\ "engine" \in tasks
  /\ "partial" \in tasks => main \in {"booting", "starting"} /\ "engine" \notin tasks

(* The configuration file parses and validates, unless somebody edited it  *)
(* by hand, died or failed while writing it, or two wrote at a time: a     *)
(* save, a rollback and a failed reload leave no half or refused file.     *)
(* Whether the engine can start with it is not known before it tries.      *)
FileUsable == ~damaged /\ ~WritingConfig => config \in Valid

(* A reload that fails to start puts the configuration that runs on back   *)
(* into the file, if one save is all that happened to it since it was      *)
(* loaded (the backup of api_config_save, try_reload).                     *)
RestoresRunning ==
  [][main = "restoring" /\ main' = "restarting" /\ changes = 1 /\ fresh = 0 /\ ~damaged'
       => config' = old]_vars

(* A client that asked for a reload or a rollback gets an answer, unless   *)
(* the process has died as often as the bound lets it.                     *)
EveryRequestAnswered ==
  \A c \in Clients :
    client[c] \in {"reload", "rollback", "reload_sent", "rollback_sent"}
      ~> client[c] = "idle" \/ exits = MaxExits
=============================================================================
