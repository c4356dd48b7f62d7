------------------------------ MODULE EventLog ------------------------------
(***************************************************************************)
(* One channel of the Windows event log input (src/inputs/eventlog.rs).    *)
(*                                                                         *)
(* run_channel subscribes, drains the subscription batch by batch into the *)
(* pipeline's channel, and subscribes again after every failure.  Progress *)
(* is kept in a bookmark, which is rendered into the state manager's       *)
(* checkpoint once a second and when a subscription ends.  The log, the    *)
(* pipeline, the flush task and the process go on meanwhile.               *)
(*                                                                         *)
(* Records are numbered in the order in which they were logged; a bookmark *)
(* is the number of the record it names, and 0 when it was never updated,  *)
(* which Windows reads as "before the oldest record".                      *)
(***************************************************************************)
EXTENDS Naturals, FiniteSets

CONSTANTS
  Batch,         (* BATCH: records fetched by one EvtNext                  *)
  InitialDelay, MaxDelay,  (* RESUBSCRIBE_{INITIAL,MAX}_BACKOFF_MS         *)
  None,          (* Option::None                                           *)
  MaxRecords,    (* bound: records logged                                  *)
  MaxFaults,     (* bound: calls of the event log API that fail            *)
  MaxExits       (* bound: stops and crashes of the process                *)

ASSUME BatchAssumption == Batch \in Nat \ {0}
ASSUME DelayAssumption ==
  InitialDelay \in Nat \ {0} /\ MaxDelay \in Nat /\ InitialDelay <= MaxDelay
ASSUME NoneAssumption == None \notin Nat
ASSUME BoundsAssumption ==
  MaxRecords \in Nat \ {0} /\ MaxFaults \in Nat /\ MaxExits \in Nat

VARIABLES
  read_existing, (* EventLogInputConfig.read_existing                      *)
  written,       (* records logged so far                                  *)
  signal,        (* the manual-reset event                                 *)
  pos,           (* the last record that the subscription has returned     *)
  batch,         (* handles of the batch that are not processed yet        *)
  full,          (* whether EvtNext returned BATCH records                 *)
  upd, bookmark_updated,  (* upd_bookmark, and whether it was advanced     *)
  emitted,       (* whether this attempt has emitted anything              *)
  backoff,       (* Backoff                                                *)
  pc,            (* where run_channel stands                               *)
  outcome,       (* what drain_loop returned                               *)
  handles, events,  (* handles of the subscription, and of records, open   *)
  mem, disk,     (* the checkpoint in the state manager and in state.json  *)
  cancelled,     (* the cancellation token                                 *)
  pipe,          (* run_pipeline's end of the channel                      *)
  \* what became of each record, for the properties
  first,         (* records logged when it first tried to subscribe, ever  *)
  handed, twice, unrendered, refused,
  missed,        (* later ones that a subscription without a checkpoint,   *)
                 (* future only, left behind it                            *)
  bookmarkFailed, crashed,
  faults, exits  (* how much of two bounds is used                         *)

env == <<read_existing, written>>
api == <<signal, pos, batch, full, upd, bookmark_updated, handles, events>>
loop == <<emitted, backoff, outcome>>
store == <<mem, disk>>
stopping == <<cancelled, pipe>>
ghost == <<first, handed, twice, unrendered, refused, missed, bookmarkFailed, crashed>>
bounds == <<faults, exits>>
vars == <<env, api, loop, pc, store, stopping, ghost, bounds>>

Records == 1..MaxRecords
Stages == {"signal", "upd", "start", "sub"}
Places == {"top", "waiting", "next", "reset", "batch", "sending", "checkpoint",
           "closing", "backoff", "done"}

TypeOK ==
  /\ read_existing \in BOOLEAN /\ written \in 0..MaxRecords
  /\ signal \in BOOLEAN /\ pos \in 0..MaxRecords /\ batch \in SUBSET Records
  /\ full \in BOOLEAN /\ upd \in 0..MaxRecords /\ bookmark_updated \in BOOLEAN
  /\ emitted \in BOOLEAN /\ outcome \in {"ok", "error"}
  /\ backoff \in [failures : Nat, delay : Nat]
  /\ backoff.delay \in InitialDelay..MaxDelay
  /\ pc \in Places
  /\ handles \subseteq Stages /\ events \subseteq Records
  /\ mem \in 0..MaxRecords \cup {None} /\ disk \in 0..MaxRecords \cup {None}
  /\ cancelled \in BOOLEAN /\ pipe \in {"open", "drained", "closed"}
  /\ first \in 0..MaxRecords \cup {None}
  /\ handed \cup twice \cup unrendered \cup refused \cup missed \subseteq Records
  /\ bookmarkFailed \in BOOLEAN /\ crashed \in BOOLEAN
  /\ faults \in 0..MaxFaults /\ exits \in 0..MaxExits

----------------------------------------------------------------------------
(* The backoff between attempts.                                           *)

StartBackoff == [failures |-> 0, delay |-> InitialDelay]

AfterFailure(b, progress) ==
  IF progress THEN StartBackoff ELSE [b EXCEPT !.failures = @ + 1]

Doubled(b) ==
  [b EXCEPT !.delay = IF 2 * @ < MaxDelay THEN 2 * @ ELSE MaxDelay]

(* Where a subscription starts, given the checkpoint.                      *)
ResumeAt(saved) ==
  CASE saved # None                    -> saved
    [] saved = None /\ read_existing   -> 0
    [] saved = None /\ ~read_existing  -> written

FutureOnly(saved) == saved = None /\ ~read_existing

(* Records that the configuration leaves out: those that were there before *)
(* the first attempt to subscribe, if existing ones are not to be read.    *)
Tried == IF first = None THEN written ELSE first
Excluded(f) == IF f = None \/ read_existing THEN {} ELSE 1..f

LowestOf(s) == CHOOSE r \in s : \A t \in s : r <= t

----------------------------------------------------------------------------
Idle ==
  /\ signal = FALSE /\ pos = 0 /\ batch = {} /\ full = FALSE
  /\ upd = 0 /\ bookmark_updated = FALSE
  /\ handles = {} /\ events = {}
  /\ emitted = FALSE /\ outcome = "ok" /\ backoff = StartBackoff
  /\ pc = "top"
  /\ cancelled = FALSE /\ pipe = "open"

Init ==
  /\ read_existing \in BOOLEAN /\ written \in 0..1
  /\ Idle
  /\ mem = None /\ disk = None
  /\ first = None /\ handed = {} /\ twice = {} /\ unrendered = {} /\ refused = {} /\ missed = {}
  /\ bookmarkFailed = FALSE /\ crashed = FALSE
  /\ faults = 0 /\ exits = 0

Fault == faults < MaxFaults /\ faults' = faults + 1

----------------------------------------------------------------------------
(* run_channel and subscribe_and_drain: one attempt.  The checkpoint is    *)
(* read anew before every attempt.                                         *)

Subscribe ==
  /\ pc = "top" /\ ~cancelled
  /\ pos' = ResumeAt(mem)
  /\ first' = Tried
  /\ missed' = IF FutureOnly(mem)
                 THEN missed \cup ((1..written) \
                        (handed \cup unrendered \cup refused \cup Excluded(Tried)))
                 ELSE missed
  /\ signal' = (ResumeAt(mem) < written)
  /\ upd' = 0 /\ bookmark_updated' = FALSE /\ emitted' = FALSE
  /\ handles' = {"signal", "upd", "sub"}
  /\ pc' = "waiting"
  /\ UNCHANGED <<env, batch, full, events, backoff, outcome, store, stopping, handed, twice,
                 unrendered, refused, bookmarkFailed, crashed, bounds>>

(* What is open when a stage of the subscription fails, and what the code  *)
(* closes there.                                                           *)
OpenAt(stage, saved) ==
  CASE stage = "signal" -> {}
    [] stage = "upd"    -> {"signal"}
    [] stage = "start"  -> {"signal", "upd"}
    [] stage = "sub"    -> {"signal", "upd"} \cup (IF saved # None THEN {"start"} ELSE {})

(* Variant: the bookmark the subscription starts at is left open.          *)
ClosedAtForgetsStart(stage) == IF stage = "signal" THEN {} ELSE {"upd", "signal"}

ClosedAt(stage) ==
  CASE stage = "signal" -> {}
    [] stage = "upd"    -> {"signal"}
    [] stage = "start"  -> {"upd", "signal"}
    [] stage = "sub"    -> {"start", "upd", "signal"}

SubscribeFails(stage) ==
  /\ pc = "top" /\ ~cancelled
  /\ stage = "start" => mem # None
  /\ Fault
  /\ handles' = OpenAt(stage, mem) \ ClosedAt(stage)
  /\ backoff' = AfterFailure(backoff, FALSE)
  /\ first' = Tried
  /\ pc' = "backoff"
  /\ UNCHANGED <<env, signal, pos, batch, full, upd, bookmark_updated, events, emitted, outcome,
                 store, stopping, handed, twice, unrendered, refused, missed, bookmarkFailed,
                 crashed, exits>>

(* The sleep between attempts notices a cancellation.                      *)
Sleep ==
  /\ pc = "backoff" /\ ~cancelled
  /\ backoff' = Doubled(backoff)
  /\ pc' = "top"
  /\ UNCHANGED <<env, api, emitted, outcome, store, stopping, ghost, bounds>>

Return ==
  /\ pc \in {"top", "backoff"} /\ cancelled
  /\ pc' = "done"
  /\ UNCHANGED <<env, api, loop, store, stopping, ghost, bounds>>

----------------------------------------------------------------------------
(* drain_loop.                                                             *)

(* Variant: the wait ends with the signal only.                            *)
NeverTimesOut == FALSE

(* WaitForSingleObject gives up after WAIT_MS.                             *)
TimesOut == TRUE

Wait ==
  /\ pc = "waiting" /\ ~cancelled
  /\ signal \/ TimesOut
  /\ pc' = "next"
  /\ UNCHANGED <<env, api, loop, store, stopping, ghost, bounds>>

Leaves(result) == outcome' = result /\ pc' = "closing"

DrainCancelled ==
  /\ pc \in {"waiting", "next"} /\ cancelled
  /\ Leaves("ok")
  /\ UNCHANGED <<env, api, emitted, backoff, store, stopping, ghost, bounds>>

EvtNext ==
  /\ pc = "next" /\ ~cancelled
  /\ pos < written
  /\ \E n \in 1..Batch :
       /\ pos + n <= written
       /\ batch' = (pos + 1)..(pos + n)
       /\ events' = (pos + 1)..(pos + n)
       /\ pos' = pos + n
       /\ full' = (n = Batch)
  /\ pc' = "batch"
  /\ UNCHANGED <<env, signal, upd, bookmark_updated, handles, loop, store, stopping, ghost, bounds>>

(* An error of EvtNext that only says that there is nothing to return:     *)
(* ERROR_NO_MORE_ITEMS, or ERROR_INVALID_OPERATION of an idle channel.     *)
IsDrainIdle(code) == code \in {"no_more_items", "invalid_operation"}

EvtNextFails(code) ==
  /\ pc = "next" /\ ~cancelled
  /\ IF code = "no_more_items"
       THEN pos = written /\ UNCHANGED faults
       ELSE Fault
  /\ IF IsDrainIdle(code)
       THEN pc' = "reset" /\ UNCHANGED outcome
       ELSE Leaves("error")
  /\ UNCHANGED <<env, api, emitted, backoff, store, stopping, ghost, exits>>

ResetSignal ==
  /\ pc = "reset"
  /\ signal' = FALSE
  /\ pc' = "waiting"
  /\ UNCHANGED <<env, pos, batch, full, upd, bookmark_updated, handles, events, loop, store, stopping, ghost, bounds>>

(* Variant: the bookmark follows the batch, not the record.                *)
BookmarkedBatch(r) == pos

(* The bookmark is advanced before the record is handed over; that         *)
(* EvtUpdateBookmark failed is not noticed.                                *)
Bookmarked(r) == r

Render ==
  /\ pc = "batch" /\ batch # {}
  /\ LET r == LowestOf(batch) IN
       /\ \/ upd' = Bookmarked(r) /\ UNCHANGED <<bookmarkFailed, faults>>
          \/ Fault /\ bookmarkFailed' = TRUE /\ UNCHANGED upd
       /\ events' = events \ {r}
  /\ bookmark_updated' = TRUE /\ emitted' = TRUE
  /\ pc' = "sending"
  /\ UNCHANGED <<env, signal, pos, batch, full, handles, backoff, outcome, store, stopping,
                 first, handed, twice, unrendered, refused, missed, crashed, exits>>

RenderFails ==
  /\ pc = "batch" /\ batch # {}
  /\ Fault
  /\ LET r == LowestOf(batch) IN
       /\ batch' = batch \ {r}
       /\ events' = events \ {r}
       /\ unrendered' = unrendered \cup {r}
  /\ UNCHANGED <<env, signal, pos, full, upd, bookmark_updated, handles, loop, pc, store, stopping,
                 first, handed, twice, refused, missed, bookmarkFailed, crashed, exits>>

(* blocking_send.  Between run_pipeline's last try_recv and the end of its *)
(* receiver the channel still takes an event, which nobody will read.      *)
Send ==
  /\ pc = "sending" /\ pipe # "closed"
  /\ LET r == LowestOf(batch) IN
       /\ batch' = batch \ {r}
       /\ IF pipe = "open"
            THEN /\ handed' = handed \cup {r}
                 /\ twice' = IF r \in handed THEN twice \cup {r} ELSE twice
                 /\ UNCHANGED refused
            ELSE /\ refused' = refused \cup {r}
                 /\ UNCHANGED <<handed, twice>>
  /\ pc' = "batch"
  /\ UNCHANGED <<env, signal, pos, full, upd, bookmark_updated, handles, events, loop, store, stopping,
                 first, unrendered, missed, bookmarkFailed, crashed, bounds>>

SendRefused ==
  /\ pc = "sending" /\ pipe = "closed"
  /\ refused' = refused \cup {LowestOf(batch)}
  /\ events' = events \ batch
  /\ batch' = {}
  /\ Leaves("ok")
  /\ UNCHANGED <<env, signal, pos, full, upd, bookmark_updated, handles, emitted, backoff, store, stopping,
                 first, handed, twice, unrendered, missed, bookmarkFailed, crashed, bounds>>

(* Variant: a checkpoint is taken of a bookmark nothing advanced.          *)
UpdatedOrNot == TRUE

(* After a batch: a checkpoint if a second has passed, and back to EvtNext *)
(* or, after a short batch, to waiting.                                    *)
Updated == bookmark_updated

BatchDone ==
  /\ pc = "batch" /\ batch = {}
  /\ pc' = "checkpoint"
  /\ UNCHANGED <<env, api, loop, store, stopping, ghost, bounds>>

AfterBatch == pc' = IF full THEN "next" ELSE "reset"

Checkpoint ==
  /\ pc = "checkpoint" /\ Updated
  /\ mem' = upd
  /\ AfterBatch
  /\ UNCHANGED <<env, api, loop, disk, stopping, ghost, bounds>>

NoCheckpoint ==
  /\ pc = "checkpoint"
  /\ AfterBatch
  /\ UNCHANGED <<env, api, loop, store, stopping, ghost, bounds>>

----------------------------------------------------------------------------
(* The end of an attempt: the last checkpoint, and all handles closed.     *)

EndAttempt ==
  /\ handles' = handles \ {"sub", "upd", "signal"}
  /\ IF outcome = "ok"
       THEN pc' = "done" /\ UNCHANGED backoff
       ELSE pc' = "backoff" /\ backoff' = AfterFailure(backoff, emitted)

(* Variant: an attempt ends without a last checkpoint.                     *)
CloseUnsaved ==
  /\ pc = "closing"
  /\ EndAttempt
  /\ UNCHANGED <<env, signal, pos, batch, full, upd, bookmark_updated, events, emitted, outcome, store, stopping,
                 ghost, bounds>>

Close ==
  /\ pc = "closing"
  /\ mem' = IF Updated THEN upd ELSE mem
  /\ EndAttempt
  /\ UNCHANGED <<env, signal, pos, batch, full, upd, bookmark_updated, events, emitted, outcome, disk, stopping,
                 ghost, bounds>>

(* EvtRender fails on the bookmark.                                        *)
CloseRenderFails ==
  /\ pc = "closing" /\ Updated
  /\ Fault
  /\ bookmarkFailed' = TRUE
  /\ EndAttempt
  /\ UNCHANGED <<env, signal, pos, batch, full, upd, bookmark_updated, events, emitted, outcome, store, stopping,
                 first, handed, twice, unrendered, refused, missed, crashed, exits>>

----------------------------------------------------------------------------
(* The others: programs that log, the flush task, the engine.              *)

Log ==
  /\ written < MaxRecords
  /\ written' = written + 1
  /\ signal' = (signal \/ "sub" \in handles)
  /\ UNCHANGED <<read_existing, pos, batch, full, upd, bookmark_updated, handles, events, loop, pc, store,
                 stopping, ghost, bounds>>

Flush ==
  /\ ~cancelled /\ disk # mem
  /\ disk' = mem
  /\ UNCHANGED <<env, api, loop, pc, mem, stopping, ghost, bounds>>

Cancel ==
  /\ ~cancelled /\ exits < MaxExits
  /\ cancelled' = TRUE
  /\ UNCHANGED <<env, api, loop, pc, store, pipe, ghost, bounds>>

(* run_pipeline drains its channel, and ends.                              *)
PipelineEnds ==
  /\ cancelled /\ pipe # "closed"
  /\ pipe' = IF pipe = "open" THEN "drained" ELSE "closed"
  /\ UNCHANGED <<env, api, loop, pc, store, cancelled, ghost, bounds>>

Restarted ==
  /\ signal' = FALSE /\ pos' = 0 /\ batch' = {} /\ full' = FALSE
  /\ upd' = 0 /\ bookmark_updated' = FALSE
  /\ handles' = {} /\ events' = {}
  /\ emitted' = FALSE /\ outcome' = "ok" /\ backoff' = StartBackoff
  /\ pc' = "top"
  /\ cancelled' = FALSE /\ pipe' = "open"
  /\ exits' = exits + 1

(* Engine::stop: the tasks have ended, the state is flushed; the next      *)
(* engine starts from it.                                                  *)
Stop ==
  /\ pc = "done" /\ pipe = "closed" /\ exits < MaxExits
  /\ disk' = mem
  /\ Restarted
  /\ UNCHANGED <<env, mem, ghost, faults>>

Crash ==
  /\ exits < MaxExits
  /\ mem' = disk
  /\ crashed' = TRUE
  /\ Restarted
  /\ UNCHANGED <<env, disk, first, handed, twice, unrendered, refused, missed, bookmarkFailed,
                 faults>>

----------------------------------------------------------------------------
Attempt ==
  \/ Subscribe \/ Sleep \/ Return \/ Wait \/ DrainCancelled \/ EvtNext
  \/ EvtNextFails("no_more_items") \/ ResetSignal \/ Render \/ Send \/ SendRefused
  \/ BatchDone \/ Checkpoint \/ NoCheckpoint \/ Close

Failure ==
  \/ \E stage \in Stages : SubscribeFails(stage)
  \/ \E code \in {"invalid_operation", "other"} : EvtNextFails(code)
  \/ RenderFails \/ CloseRenderFails

Next ==
  \/ Attempt \/ Failure
  \/ Log \/ Flush \/ Cancel \/ PipelineEnds \/ Stop \/ Crash

Spec == Init /\ [][Next]_vars

(* The collector has a thread of its own, no wait of which is longer than  *)
(* a second or the backoff; the pipeline takes events or ends; the service *)
(* manager starts the process again.                                       *)
FairSpec == Spec /\ WF_vars(Attempt) /\ WF_vars(PipelineEnds) /\ WF_vars(Stop)

----------------------------------------------------------------------------
Settled == handed \cup unrendered \cup missed \cup Excluded(first)
PassedOver(c) == IF c = None THEN {} ELSE (1..c) \ Settled

(* Exits of the process, with the one under way.                           *)
Exits == exits + (IF cancelled THEN 1 ELSE 0)

(* No resume token leads past a record that was neither handed over, nor   *)
(* unrenderable, nor left out by where a subscription started, except for  *)
(* records sent while the pipeline was ending: the order of                *)
(* EvtUpdateBookmark and blocking_send in drain_loop, and every place that *)
(* saves a checkpoint.  Between run_pipeline's last try_recv and the end   *)
(* of its receiver the channel takes what nobody reads, so that the rest   *)
(* of the batch can go that way; but no batch is fetched any more, so that *)
(* an exit costs at most one.                                              *)
CheckpointHonest ==
  /\ PassedOver(disk) \cup PassedOver(mem) \subseteq refused
  /\ Cardinality(refused) <= Batch * Exits

(* A record is handed over a second time only if the process died or a     *)
(* bookmark could not be rendered: resubscribing goes on where the last    *)
(* attempt ended, and an attempt without records does not save the empty   *)
(* bookmark that Windows takes for the start of the log (EVT-004).         *)
ResentOnlyAfterCrash == twice # {} => crashed \/ bookmarkFailed

(* Once a record has been handed over, a subscription that starts with the *)
(* future only is possible only if the process died or a bookmark could    *)
(* not be rendered: records logged between two attempts are not missed     *)
(* (run_channel reads the checkpoint before every attempt).                *)
NoGapBetweenAttempts ==
  [][missed' # missed => handed = {} \/ crashed \/ bookmarkFailed]_vars

(* Between two attempts no handle is open, wherever the last one failed    *)
(* (the error paths of subscribe_and_drain and drain_loop).                *)
HandlesClosed == pc \in {"top", "backoff", "done"} => handles = {} /\ events = {}

(* Every record that is logged is handed over, or is one that could not be *)
(* rendered, was sent while the pipeline ended, was there before the first *)
(* attempt to subscribe (and existing records are not read), or was missed *)
(* by a later subscription; and none is missed any more once state.json    *)
(* has a checkpoint.  No error ends the collection (R-7), and a wake-up    *)
(* that ResetEvent swallows only delays it.                                *)
EveryRecordHanded ==
  /\ \A r \in Records : r <= written ~> r \in Settled \cup refused
  /\ [][disk # None => missed' = missed]_vars

(* What the input's documentation promises: at-least-once delivery, also   *)
(* over a restart.                                                         *)
NothingPassedOver == PassedOver(disk) = {}
=============================================================================
