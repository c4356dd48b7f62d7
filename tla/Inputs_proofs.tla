---------------------------- MODULE Inputs_proofs ----------------------------
(***************************************************************************)
(* What TLAPS proves of two inputs: the Windows event log input, for any   *)
(* batch size, any backoff, and any number of records, failures, stops and *)
(* crashes; and, at the end, the syslog input, for any number of peers,    *)
(* any of their scripts and any cap on connections.                        *)
(***************************************************************************)
EXTENDS EventLog, Sequences, FiniteSetTheorems, TLAPS

(* The type invariant in two parts: the flags, and everything else.        *)
Flags ==
  /\ read_existing \in BOOLEAN /\ signal \in BOOLEAN /\ full \in BOOLEAN
  /\ bookmark_updated \in BOOLEAN /\ emitted \in BOOLEAN /\ cancelled \in BOOLEAN
  /\ bookmarkFailed \in BOOLEAN /\ crashed \in BOOLEAN

Values ==
  /\ written \in 0..MaxRecords /\ pos \in 0..MaxRecords /\ batch \in SUBSET Records
  /\ upd \in 0..MaxRecords
  /\ outcome \in {"ok", "error"}
  /\ backoff \in [failures : Nat, delay : Nat]
  /\ backoff.delay \in InitialDelay..MaxDelay
  /\ pc \in Places
  /\ handles \subseteq Stages /\ events \subseteq Records
  /\ mem \in 0..MaxRecords \cup {None} /\ disk \in 0..MaxRecords \cup {None}
  /\ pipe \in {"open", "drained", "closed"}
  /\ first \in 0..MaxRecords \cup {None}
  /\ handed \cup twice \cup unrendered \cup refused \cup missed \subseteq Records
  /\ faults \in 0..MaxFaults /\ exits \in 0..MaxExits

(* What became of a record that no checkpoint needs to lead to any more.   *)
Taken == Settled \cup refused

(* Between two attempts; in one; and in the part of it that drains.        *)
Between == pc \in {"top", "backoff", "done"}
Draining == pc \in {"waiting", "next", "reset", "batch", "sending", "checkpoint"}

(* The handles: those of the subscription belong to an attempt, those of   *)
(* records to the batch in hand, less the record that was rendered.        *)
Handles ==
  /\ handles \subseteq {"sub", "upd", "signal"}
  /\ Between => handles = {}
  /\ pc \notin {"batch", "sending"} => batch = {}
  /\ pc = "sending" => batch # {}
  /\ events = IF pc = "sending" THEN batch \ {LowestOf(batch)} ELSE batch

(* The batch is the upper end of what the subscription has returned.       *)
Returned ==
  /\ batch \subseteq 1..pos
  /\ \A r \in batch, t \in Records : r <= t /\ t <= pos => t \in batch

(* Nothing was passed over: not by the subscription, nor by the bookmark,  *)
(* which may be ahead by the record that is being handed over, nor by a    *)
(* checkpoint.                                                             *)
Behind ==
  /\ Draining => 1..pos \subseteq Taken \cup batch
  /\ 1..upd \subseteq IF pc = "sending" THEN Taken \cup {LowestOf(batch)} ELSE Taken
  /\ mem # None => 1..mem \subseteq Taken
  /\ disk # None => 1..disk \subseteq Taken

(* As long as the process lived and every bookmark could be rendered,      *)
(* nothing was handed over twice, for what was handed over lies behind the *)
(* subscription and the bookmark of the attempt, or, if that has none yet, *)
(* behind the checkpoint.                                                  *)
Fresh ==
  /\ twice = {}
  /\ pc = "sending" => bookmark_updated /\ upd = LowestOf(batch)
  /\ \A h \in handed :
       /\ Draining => h <= pos /\ h \notin batch
       /\ ~Between /\ bookmark_updated => h <= upd
       /\ Between \/ ~bookmark_updated => mem # None /\ h <= mem

(* What the exits have cost: a batch each, and of the exit under way the   *)
(* part of its batch that is done.  No batch is fetched after the          *)
(* cancellation, and the pipeline does not end before it.                  *)
Cost ==
  /\ Cardinality(batch) <= Batch
  /\ pipe # "open" => cancelled
  /\ ~cancelled => Cardinality(refused) <= Batch * exits
  /\ cancelled => Cardinality(refused) + Cardinality(batch) <= Batch * exits + Batch

IInv == Values /\ Handles /\ Returned /\ Behind /\ Cost /\ (crashed \/ bookmarkFailed \/ Fresh)

----------------------------------------------------------------------------
(* A set of numbers that has an element has a least one.                   *)
LEMMA LeastNatural ==
  ASSUME NEW T \in SUBSET Nat, T # {}
  PROVE  \E n \in T : \A m \in T : n <= m
<1> DEFINE R == OpToRel(<, Nat)
<1>1. IsWellFoundedOn(R, Nat)
  BY NatLessThanWellFounded
<1>2. \A x, y \in Nat : x < y => <<x, y>> \in R
  BY DEF OpToRel
<1> HIDE DEF R
<1>3. PICK n \in T : \A m \in T : ~(<<m, n>> \in R)
  BY <1>1, WFMin
<1>4. \A m \in T : ~(m < n)
  BY <1>2, <1>3
<1> QED
  BY <1>4

(* The lowest record of a batch.                                           *)
LEMMA LowestIsLowest ==
  ASSUME NEW R \in SUBSET Records, R # {}
  PROVE  LowestOf(R) \in R /\ \A t \in R : LowestOf(R) <= t
<1>1. R \in SUBSET Nat
  BY BoundsAssumption DEF Records
<1>2. \E n \in R : \A m \in R : n <= m
  BY <1>1, LeastNatural
<1> QED
  BY <1>2 DEF LowestOf

(* Every backoff starts between the delays, and stays there.               *)
LEMMA BackoffType ==
  ASSUME NEW b \in [failures : Nat, delay : Nat],
         b.delay \in InitialDelay..MaxDelay, NEW progress
  PROVE  /\ AfterFailure(b, progress) \in [failures : Nat, delay : Nat]
         /\ AfterFailure(b, progress).delay \in InitialDelay..MaxDelay
         /\ Doubled(b) \in [failures : Nat, delay : Nat]
         /\ Doubled(b).delay \in InitialDelay..MaxDelay
  BY DelayAssumption DEF AfterFailure, Doubled, StartBackoff

(* The type invariant is preserved.                                        *)
LEMMA FlagsStep == Flags /\ [Next]_vars => Flags'
<1> SUFFICES ASSUME Flags, [Next]_vars PROVE Flags'
  OBVIOUS
<1> USE DEF Flags, env, api, loop, store, stopping, ghost, bounds
<1>1. CASE Subscribe
  <2>1. signal' \in BOOLEAN
    BY <1>1 DEF Subscribe
  <2> QED
    BY <1>1, <2>1, Zenon DEF Subscribe
<1>2. ASSUME NEW stage \in Stages, SubscribeFails(stage) PROVE Flags'
  BY <1>2, Zenon DEF SubscribeFails, Fault
<1>3. CASE Sleep \/ Return \/ Wait \/ DrainCancelled
  BY <1>3, Zenon DEF Sleep, Return, Wait, DrainCancelled, Leaves
<1>4. CASE EvtNext
  <2>1. full' \in BOOLEAN
    BY <1>4 DEF EvtNext
  <2> QED
    BY <1>4, <2>1, Zenon DEF EvtNext
<1>5. ASSUME NEW code, EvtNextFails(code) PROVE Flags'
  BY <1>5, Zenon DEF EvtNextFails
<1>6. CASE ResetSignal \/ BatchDone \/ Checkpoint \/ NoCheckpoint
  BY <1>6, Zenon DEF ResetSignal, BatchDone, Checkpoint, NoCheckpoint
<1>7. CASE Render \/ RenderFails
  BY <1>7, Zenon DEF Render, RenderFails
<1>8. CASE Send \/ SendRefused
  BY <1>8, Zenon DEF Send, SendRefused
<1>9. CASE Close \/ CloseRenderFails
  BY <1>9, Zenon DEF Close, CloseRenderFails
<1>10. CASE Log \/ Flush \/ Cancel \/ PipelineEnds
  BY <1>10, Zenon DEF Log, Flush, Cancel, PipelineEnds
<1>11. CASE Stop \/ Crash
  BY <1>11, Zenon DEF Stop, Crash, Restarted
<1>12. CASE UNCHANGED vars
  BY <1>12, Zenon DEF vars
<1> QED
  BY <1>1, <1>2, <1>3, <1>4, <1>5, <1>6, <1>7, <1>8, <1>9, <1>10, <1>11, <1>12
     DEF Next, Attempt, Failure

LEMMA FaultType ==
  ASSUME faults \in 0..MaxFaults, Fault \/ UNCHANGED faults
  PROVE  faults' \in 0..MaxFaults
  BY BoundsAssumption DEF Fault

LEMMA ValuesStep == Values /\ Handles /\ [Next]_vars => Values'
<1> SUFFICES ASSUME Values, Handles, [Next]_vars PROVE Values'
  OBVIOUS
<1> USE BatchAssumption, DelayAssumption, NoneAssumption, BoundsAssumption
<1> USE DEF Values, env, api, loop, store, stopping, ghost, bounds, Records, Stages, Places
<1>1. CASE Subscribe
  <2>1. pos' \in 0..MaxRecords
    BY <1>1 DEF Subscribe, ResumeAt
  <2>2. first' \in 0..MaxRecords \cup {None}
    BY <1>1 DEF Subscribe, Tried
  <2>3. missed' \subseteq Records
    BY <1>1 DEF Subscribe
  <2> QED
    BY <1>1, <2>1, <2>2, <2>3 DEF Subscribe
<1>2. ASSUME NEW stage \in Stages, SubscribeFails(stage) PROVE Values'
  <2>1. handles' \subseteq Stages
    BY <1>2 DEF SubscribeFails, OpenAt
  <2>2. backoff' = AfterFailure(backoff, FALSE)
    BY <1>2 DEF SubscribeFails
  <2>3. /\ backoff' \in [failures : Nat, delay : Nat]
        /\ backoff'.delay \in InitialDelay..MaxDelay
    BY <2>2, BackoffType
  <2>4. faults' \in 0..MaxFaults
    BY <1>2, FaultType DEF SubscribeFails
  <2>5. pc' \in Places
    BY <1>2 DEF SubscribeFails
  <2>6. first' \in 0..MaxRecords \cup {None}
    BY <1>2 DEF SubscribeFails, Tried
  <2> QED
    BY <1>2, <2>1, <2>3, <2>4, <2>5, <2>6 DEF SubscribeFails
<1>3. CASE Sleep
  BY <1>3, BackoffType DEF Sleep
<1>4. CASE Return
  BY <1>4 DEF Return
<1>5. CASE Wait \/ DrainCancelled \/ ResetSignal \/ BatchDone
  BY <1>5 DEF Wait, DrainCancelled, Leaves, ResetSignal, BatchDone
<1>6. CASE EvtNext
  BY <1>6 DEF EvtNext
<1>7. ASSUME NEW code, EvtNextFails(code) PROVE Values'
  BY <1>7 DEF EvtNextFails, Leaves, Fault
<1>8. CASE Render \/ RenderFails \/ Send \/ SendRefused
  <2>1. LowestOf(batch) \in Records
    BY <1>8, LowestIsLowest DEF Render, RenderFails, Send, SendRefused, Handles
  <2>2. CASE Render
    <3>1. faults' \in 0..MaxFaults
      BY <2>2, FaultType, Zenon DEF Render
    <3>2. upd' \in 0..MaxRecords
      BY <2>1, <2>2 DEF Render, Bookmarked
    <3>3. events' \subseteq events /\ pc' \in Places
      BY <2>2 DEF Render
    <3> QED
      BY <2>2, <3>1, <3>2, <3>3 DEF Render
  <2>3. CASE RenderFails
    <3>1. faults' \in 0..MaxFaults
      BY <2>3, FaultType, Zenon DEF RenderFails
    <3> QED
      BY <2>1, <2>3, <3>1 DEF RenderFails
  <2>4. CASE Send
    BY <2>1, <2>4 DEF Send
  <2>5. CASE SendRefused
    BY <2>1, <2>5 DEF SendRefused, Leaves
  <2> QED
    BY <1>8, <2>2, <2>3, <2>4, <2>5
<1>10. CASE Checkpoint \/ NoCheckpoint
  BY <1>10 DEF Checkpoint, NoCheckpoint, AfterBatch
<1>11. CASE Close \/ CloseRenderFails
  <2>1. backoff' \in {backoff, AfterFailure(backoff, emitted)}
    BY <1>11 DEF Close, CloseRenderFails, EndAttempt
  <2>2. /\ backoff' \in [failures : Nat, delay : Nat]
        /\ backoff'.delay \in InitialDelay..MaxDelay
    BY <2>1, BackoffType
  <2>3. mem' \in {upd, mem}
    BY <1>11, Zenon DEF Close, CloseRenderFails
  <2>4. pc' \in {"done", "backoff"} /\ handles' \subseteq handles
    BY <1>11 DEF Close, CloseRenderFails, EndAttempt
  <2>5. faults' \in 0..MaxFaults
    BY <1>11, FaultType, Zenon DEF Close, CloseRenderFails
  <2> QED
    BY <1>11, <2>2, <2>3, <2>4, <2>5 DEF Close, CloseRenderFails
<1>12. CASE Log
  BY <1>12 DEF Log
<1>9. CASE Flush \/ Cancel \/ PipelineEnds
  BY <1>9 DEF Flush, Cancel, PipelineEnds
<1>13. CASE Stop \/ Crash
  BY <1>13 DEF Stop, Crash, Restarted, StartBackoff
<1>14. CASE UNCHANGED vars
  BY <1>14 DEF vars
<1> QED
  BY <1>1, <1>2, <1>3, <1>4, <1>5, <1>6, <1>7, <1>8, <1>9, <1>10, <1>11,
     <1>12, <1>13, <1>14 DEF Next, Attempt, Failure

(* Handles are opened and closed as Handles says.                          *)
LEMMA HandlesStep == Values /\ Handles /\ [Next]_vars => Handles'
<1> SUFFICES ASSUME Values, Handles, [Next]_vars PROVE Handles'
  OBVIOUS
<1> USE DEF Handles, Between, env, api, loop, store, stopping, ghost, bounds
<1>1. CASE Subscribe
  BY <1>1 DEF Subscribe
<1>2. ASSUME NEW stage \in Stages, SubscribeFails(stage) PROVE Handles'
  <2>1. handles' = {}
    BY <1>2 DEF SubscribeFails, OpenAt, ClosedAt, Stages
  <2> QED
    BY <1>2, <2>1 DEF SubscribeFails
<1>3. CASE Sleep \/ Return \/ Wait \/ DrainCancelled
  BY <1>3 DEF Sleep, Return, Wait, DrainCancelled, Leaves
<1>4. CASE EvtNext
  BY <1>4 DEF EvtNext
<1>5. ASSUME NEW code, EvtNextFails(code) PROVE Handles'
  BY <1>5 DEF EvtNextFails, Leaves
<1>6. CASE ResetSignal \/ BatchDone \/ Checkpoint \/ NoCheckpoint
  BY <1>6 DEF ResetSignal, BatchDone, Checkpoint, NoCheckpoint, AfterBatch
<1>7. CASE Render \/ RenderFails
  BY <1>7 DEF Render, RenderFails
<1>8. CASE Send \/ SendRefused
  BY <1>8 DEF Send, SendRefused, Leaves
<1>9. CASE Close \/ CloseRenderFails
  BY <1>9 DEF Close, CloseRenderFails, EndAttempt
<1>10. CASE Log \/ Flush \/ Cancel \/ PipelineEnds
  BY <1>10 DEF Log, Flush, Cancel, PipelineEnds
<1>11. CASE Stop \/ Crash
  BY <1>11 DEF Stop, Crash, Restarted
<1>12. CASE UNCHANGED vars
  BY <1>12 DEF vars
<1> QED
  BY <1>1, <1>2, <1>3, <1>4, <1>5, <1>6, <1>7, <1>8, <1>9, <1>10, <1>11, <1>12
     DEF Next, Attempt, Failure

(* A step of the batch: the lowest record leaves it, all of it does, or    *)
(* another takes its place.                                                *)
LEMMA ReturnedStep == Values /\ Handles /\ Returned /\ [Next]_vars => Returned'
<1> SUFFICES ASSUME Values, Handles, Returned, [Next]_vars PROVE Returned'
  OBVIOUS
<1> USE DEF Returned, env, api, loop, store, stopping, ghost, bounds
<1>1. CASE UNCHANGED <<pos, batch>>
  BY <1>1
<1>2. ASSUME batch' = {} PROVE Returned'
  BY <1>2
<1>3. CASE EvtNext
  <2>1. PICK n \in 1..Batch :
          /\ pos + n <= written
          /\ batch' = (pos + 1)..(pos + n)
          /\ pos' = pos + n
    BY <1>3 DEF EvtNext
  <2>2. pos \in Nat /\ n \in Nat /\ Records \subseteq Nat
    BY BatchAssumption, BoundsAssumption DEF Values, Records
  <2> QED
    BY <2>1, <2>2
<1>4. ASSUME batch' = batch \ {LowestOf(batch)}, batch # {}, pos' = pos
      PROVE  Returned'
  <2>1. LowestOf(batch) \in batch /\ \A t \in batch : LowestOf(batch) <= t
    BY <1>4, LowestIsLowest DEF Values
  <2>2. batch' \subseteq 1..pos'
    BY <1>4
  <2>3. ASSUME NEW r \in batch', NEW t \in Records, r <= t, t <= pos' PROVE t \in batch'
    <3>1. t \in batch /\ r \in batch /\ r # LowestOf(batch)
      BY <1>4, <2>3
    <3>2. LowestOf(batch) <= r
      BY <2>1, <3>1
    <3>3. LowestOf(batch) \in Nat /\ r \in Nat /\ t \in Nat
      <4>1. Records \subseteq Nat /\ batch \subseteq Records
        BY BoundsAssumption DEF Values, Records
      <4> QED
        BY <2>1, <2>3, <3>1, <4>1
    <3>4. t # LowestOf(batch)
      BY <2>3, <3>1, <3>2, <3>3
    <3> QED
      BY <1>4, <3>1, <3>4
  <2> QED
    BY <2>2, <2>3
<1>5. CASE Subscribe
  BY <1>5 DEF Subscribe, Handles
<1>6. CASE RenderFails \/ Send
  BY <1>4, <1>6 DEF RenderFails, Send, Handles
<1>7. CASE SendRefused \/ Stop \/ Crash
  BY <1>2, <1>7 DEF SendRefused, Stop, Crash, Restarted
<1>8. CASE \/ \E stage \in Stages : SubscribeFails(stage)
           \/ \E code \in {"no_more_items", "invalid_operation", "other"} : EvtNextFails(code)
           \/ Sleep \/ Return \/ Wait \/ DrainCancelled \/ ResetSignal \/ Render
  BY <1>1, <1>8, Zenon
     DEF SubscribeFails, EvtNextFails, Sleep, Return, Wait, DrainCancelled, ResetSignal,
         Render
<1>9. CASE \/ BatchDone \/ Checkpoint \/ NoCheckpoint \/ Close \/ CloseRenderFails
           \/ Log \/ Flush \/ Cancel \/ PipelineEnds \/ UNCHANGED vars
  BY <1>1, <1>9, Zenon
     DEF BatchDone, Checkpoint, NoCheckpoint, Close, CloseRenderFails, Log, Flush, Cancel,
         PipelineEnds, vars
<1> QED
  BY <1>3, <1>5, <1>6, <1>7, <1>8, <1>9 DEF Next, Attempt, Failure

(* Nothing is passed over.                                                 *)
LEMMA BehindStep ==
  Values /\ Handles /\ Returned /\ Behind /\ [Next]_vars => Behind'
<1> SUFFICES ASSUME Values, Handles, Returned, Behind, [Next]_vars PROVE Behind'
  OBVIOUS
<1> USE DEF Behind, Draining, Taken, Settled, Excluded, env, api, loop, store, stopping, ghost, bounds
<1>1. CASE Subscribe
  <2>0. Excluded(first) \subseteq Excluded(first')
    BY <1>1 DEF Subscribe, Tried
  <2>1. /\ UNCHANGED <<handed, unrendered, refused, disk, mem>>
        /\ missed \subseteq missed' /\ Taken \subseteq Taken'
    BY <1>1, <2>0 DEF Subscribe
  <2>2. 1..pos' \subseteq Taken'
    <3>1. CASE mem # None
      BY <1>1, <2>1, <3>1 DEF Subscribe, ResumeAt
    <3>2. CASE mem = None /\ read_existing
      BY <1>1, <2>1, <3>2 DEF Subscribe, ResumeAt
    <3>3. CASE mem = None /\ ~read_existing
      BY <1>1, <2>1, <3>3 DEF Subscribe, ResumeAt, FutureOnly
    <3> QED
      BY <3>1, <3>2, <3>3
  <2>3. 1..upd' = {} /\ pc' = "waiting"
    BY <1>1 DEF Subscribe
  <2> QED
    BY <1>1, <2>1, <2>2, <2>3 DEF Subscribe
<1>2. ASSUME NEW stage \in Stages, SubscribeFails(stage) PROVE Behind'
  <2>1. Excluded(first) \subseteq Excluded(first')
    BY <1>2 DEF SubscribeFails, Tried
  <2>2. Taken \subseteq Taken' /\ UNCHANGED <<disk, mem, upd>> /\ pc' = "backoff" /\ pc = "top"
    BY <1>2, <2>1 DEF SubscribeFails
  <2> QED
    BY <2>2
<1>3. CASE Sleep \/ Return \/ Wait \/ DrainCancelled
  BY <1>3 DEF Sleep, Return, Wait, DrainCancelled, Leaves
<1>4. CASE EvtNext
  <2>1. PICK n \in 1..Batch :
          /\ pos + n <= written
          /\ batch' = (pos + 1)..(pos + n)
          /\ pos' = pos + n
    BY <1>4 DEF EvtNext
  <2>2. pos \in Nat /\ n \in Nat
    BY BatchAssumption, BoundsAssumption DEF Values
  <2>3. 1..pos' = (1..pos) \cup batch'
    BY <2>1, <2>2
  <2> QED
    BY <1>4, <2>3 DEF EvtNext, Handles
<1>5. ASSUME NEW code, EvtNextFails(code) PROVE Behind'
  BY <1>5 DEF EvtNextFails, Leaves
<1>6. CASE ResetSignal \/ BatchDone \/ NoCheckpoint
  BY <1>6 DEF ResetSignal, BatchDone, NoCheckpoint, AfterBatch
<1>7. CASE Checkpoint
  BY <1>7 DEF Checkpoint, AfterBatch
<1>8. CASE Render
  <2> DEFINE r == LowestOf(batch)
  <2>1. r \in batch /\ \A t \in batch : r <= t
    BY <1>8, LowestIsLowest DEF Render, Values
  <2>2. 1..r \subseteq Taken \cup {r}
    <3>0. pos \in Nat
      BY BoundsAssumption DEF Values
    <3> HIDE DEF r
    <3>1. r \in 1..pos
      BY <2>1 DEF Returned
    <3>2. \A t \in 1..r : t \in batch => t = r
      BY <2>1, <3>0, <3>1
    <3>3. 1..r \subseteq 1..pos /\ 1..pos \subseteq Taken \cup batch
      BY <1>8, <3>0, <3>1 DEF Render
    <3> QED
      BY <3>2, <3>3
  <2>3. upd' = r \/ upd' = upd
    BY <1>8, Zenon DEF Render, Bookmarked
  <2>4. 1..upd \subseteq Taken
    BY <1>8 DEF Render
  <2>5. UNCHANGED <<pos, batch, mem, disk, first, read_existing, handed, unrendered, missed,
                  refused>>
    BY <1>8, Zenon DEF Render
  <2>6. pc = "batch" /\ pc' = "sending"
    BY <1>8 DEF Render
  <2> QED
    BY <2>2, <2>3, <2>4, <2>5, <2>6
<1>9. CASE RenderFails
  BY <1>9 DEF RenderFails
<1>10. CASE Send
  <2> DEFINE r == LowestOf(batch)
  <2>1. Taken' = Taken \cup {r} /\ batch' = batch \ {r}
    BY <1>10 DEF Send
  <2>2. UNCHANGED <<pos, upd, mem, disk>> /\ pc = "sending" /\ pc' = "batch"
    BY <1>10 DEF Send
  <2>3. 1..upd \subseteq Taken \cup {r} /\ 1..pos \subseteq Taken \cup batch
    BY <2>2
  <2> HIDE DEF Taken, r
  <2> QED
    BY <2>1, <2>2, <2>3
<1>11. CASE SendRefused
  <2> DEFINE r == LowestOf(batch)
  <2>1. Taken' = Taken \cup {r}
    BY <1>11 DEF SendRefused
  <2>2. UNCHANGED <<upd, mem, disk>> /\ pc = "sending" /\ pc' = "closing"
    BY <1>11 DEF SendRefused, Leaves
  <2>3. 1..upd \subseteq Taken \cup {r}
    BY <2>2
  <2> HIDE DEF Taken, r
  <2> QED
    BY <2>1, <2>2, <2>3
<1>12. CASE Close \/ CloseRenderFails
  <2>1. pc = "closing" /\ pc' \in {"done", "backoff"}
    BY <1>12 DEF Close, CloseRenderFails, EndAttempt
  <2>2. mem' = upd \/ mem' = mem
    BY <1>12, Zenon DEF Close, CloseRenderFails
  <2>3. UNCHANGED <<upd, disk, first, read_existing, handed, unrendered, missed, refused>>
    BY <1>12 DEF Close, CloseRenderFails
  <2> QED
    BY <2>1, <2>2, <2>3
<1>13. CASE Log \/ Flush \/ Cancel \/ PipelineEnds
  BY <1>13 DEF Log, Flush, Cancel, PipelineEnds
<1>14. CASE Stop \/ Crash
  <2>1. 1..upd' = {} /\ pc' = "top"
    BY <1>14 DEF Stop, Crash, Restarted
  <2>2. mem' \in {mem, disk} /\ disk' \in {mem, disk}
    BY <1>14 DEF Stop, Crash
  <2>3. UNCHANGED <<first, read_existing, handed, unrendered, missed, refused>>
    BY <1>14 DEF Stop, Crash
  <2> QED
    BY <2>1, <2>2, <2>3
<1>15. CASE UNCHANGED vars
  BY <1>15 DEF vars
<1> QED
  BY <1>1, <1>2, <1>3, <1>4, <1>5, <1>6, <1>7, <1>8, <1>9, <1>10, <1>11, <1>12, <1>13,
     <1>14, <1>15 DEF Next, Attempt, Failure

(* A step that changes none of what Fresh speaks of, and stays in the same *)
(* part of the loop.                                                       *)
LEMMA FreshStutter ==
  ASSUME Fresh,
         UNCHANGED <<pos, batch, upd, bookmark_updated, mem, handed, twice>>,
         pc' # "sending", Draining' => Draining, Between' <=> Between
  PROVE  Fresh'
  BY DEF Fresh

(* Nothing is handed over twice.                                           *)
LEMMA FreshStep ==
  Values /\ Handles /\ Returned /\ Fresh /\ [Next]_vars
    => crashed' \/ bookmarkFailed' \/ Fresh'
<1> SUFFICES ASSUME Values, Handles, Returned, Fresh, [Next]_vars,
                    ~crashed', ~bookmarkFailed'
             PROVE  Fresh'
  OBVIOUS
<1>a. /\ pos \in Nat /\ upd \in Nat /\ batch \subseteq Nat /\ handed \subseteq Nat
      /\ mem \in Nat \cup {None}
  BY BoundsAssumption DEF Values, Records
<1> USE DEF env, api, loop, store, stopping, ghost, bounds
<1>1. CASE Subscribe
  <2>1. Between /\ pc' = "waiting" /\ bookmark_updated' = FALSE
    BY <1>1 DEF Subscribe, Between
  <2>2. UNCHANGED <<batch, mem, handed, twice>> /\ batch = {}
    BY <1>1 DEF Subscribe, Handles
  <2>3. \A h \in handed : h <= pos'
    <3>1. ASSUME NEW h \in handed PROVE h <= pos'
      <4>1. mem # None /\ h <= mem
        BY <2>1 DEF Fresh
      <4> QED
        BY <1>1, <4>1 DEF Subscribe, ResumeAt
    <3> QED
      BY <3>1
  <2> QED
    BY <2>1, <2>2, <2>3 DEF Fresh, Draining, Between
<1>2. CASE \/ \E stage \in Stages : SubscribeFails(stage)
           \/ \E code \in {"no_more_items", "invalid_operation", "other"} : EvtNextFails(code)
  BY <1>2, FreshStutter DEF SubscribeFails, EvtNextFails, Leaves, Draining, Between
<1>3. CASE Sleep \/ Return \/ Wait \/ DrainCancelled \/ ResetSignal \/ BatchDone
  BY <1>3, FreshStutter
     DEF Sleep, Return, Wait, DrainCancelled, Leaves, ResetSignal, BatchDone, Draining,
         Between
<1>4. CASE EvtNext
  <2>1. PICK n \in 1..Batch :
          /\ pos + n <= written
          /\ batch' = (pos + 1)..(pos + n)
          /\ pos' = pos + n
    BY <1>4 DEF EvtNext
  <2>2. n \in Nat
    BY BatchAssumption
  <2>3. \A h \in handed : h <= pos' /\ h \notin batch'
    <3>1. \A h \in handed : h <= pos
      BY <1>4 DEF EvtNext, Fresh, Draining
    <3> QED
      BY <1>a, <2>1, <2>2, <3>1
  <2>4. UNCHANGED <<mem, upd, bookmark_updated, handed, twice>>
    BY <1>4 DEF EvtNext
  <2>5. pc = "next" /\ pc' = "batch"
    BY <1>4 DEF EvtNext
  <2> QED
    BY <2>3, <2>4, <2>5 DEF Fresh, Draining, Between
<1>5. CASE Checkpoint
  <2>1. bookmark_updated /\ mem' = upd
    BY <1>5 DEF Checkpoint, Updated
  <2>2. UNCHANGED <<pos, batch, upd, bookmark_updated, handed, twice>>
    BY <1>5 DEF Checkpoint
  <2>3. pc = "checkpoint" /\ pc' \in {"next", "reset"}
    BY <1>5 DEF Checkpoint, AfterBatch
  <2> QED
    BY <2>1, <2>2, <2>3 DEF Fresh, Draining, Between
<1>6. CASE NoCheckpoint
  BY <1>6, FreshStutter DEF NoCheckpoint, AfterBatch, Draining, Between
<1>7. CASE Render
  <2> DEFINE r == LowestOf(batch)
  <2>1. r \in batch /\ \A t \in batch : r <= t
    BY <1>7, LowestIsLowest DEF Render, Values
  <2>2. upd' = r
    BY <1>7, Zenon DEF Render, Bookmarked
  <2>3. pc = "batch" /\ pc' = "sending" /\ bookmark_updated' = TRUE
    BY <1>7 DEF Render
  <2>4. UNCHANGED <<pos, batch, mem, handed, twice>>
    BY <1>7 DEF Render
  <2>5. \A h \in handed : h <= pos /\ h \notin batch
    BY <2>3 DEF Fresh, Draining
  <2>6. \A h \in handed : h <= r
    <3>1. ASSUME NEW h \in handed, r <= h PROVE FALSE
      <4>1. h \in Records
        BY DEF Values
      <4> QED
        BY <2>1, <2>5, <3>1, <4>1 DEF Returned
    <3>2. r \in Nat
      BY <1>a, <2>1
    <3> HIDE DEF r
    <3> QED
      BY <1>a, <3>1, <3>2
  <2>7. LowestOf(batch') = r
    BY <2>4
  <2> HIDE DEF r
  <2> QED
    BY <2>2, <2>3, <2>4, <2>5, <2>6, <2>7 DEF Fresh, Draining, Between
<1>8. CASE RenderFails
  <2>1. UNCHANGED <<pos, upd, bookmark_updated, mem, handed, twice>>
    BY <1>8 DEF RenderFails
  <2>2. pc = "batch" /\ pc' = "batch" /\ batch' \subseteq batch
    BY <1>8 DEF RenderFails
  <2> QED
    BY <2>1, <2>2 DEF Fresh, Draining, Between
<1>9. CASE Send
  <2> DEFINE r == LowestOf(batch)
  <2>1. r \in batch /\ r \in Nat /\ r <= pos
    <3>1. r \in batch
      BY <1>9, LowestIsLowest DEF Send, Values, Handles
    <3> HIDE DEF r
    <3> QED
      BY <1>a, <3>1 DEF Returned
  <2>2. pc = "sending" /\ pc' = "batch" /\ bookmark_updated /\ upd = r
    BY <1>9 DEF Send, Fresh
  <2>3. batch' = batch \ {r} /\ handed' \subseteq handed \cup {r}
    BY <1>9 DEF Send
  <2>4. UNCHANGED <<pos, upd, bookmark_updated, mem>>
    BY <1>9 DEF Send
  <2>5. r \notin handed
    BY <2>1, <2>2 DEF Fresh, Draining
  <2>6. twice' = twice
    BY <1>9, <2>5 DEF Send
  <2>7. twice = {} /\ \A h \in handed : h <= pos /\ h \notin batch /\ h <= upd
    BY <2>2 DEF Fresh, Draining, Between
  <2> HIDE DEF r
  <2>8. \A h \in handed' : h <= pos' /\ h \notin batch' /\ h <= upd'
    BY <2>1, <2>2, <2>3, <2>4, <2>7
  <2> QED
    BY <2>2, <2>4, <2>6, <2>7, <2>8 DEF Fresh, Draining, Between
<1>10. CASE SendRefused
  <2>1. pc = "sending" /\ pc' = "closing"
    BY <1>10 DEF SendRefused, Leaves
  <2>2. UNCHANGED <<upd, bookmark_updated, mem, handed, twice>>
    BY <1>10 DEF SendRefused
  <2> QED
    BY <2>1, <2>2 DEF Fresh, Draining, Between
<1>11. CASE Close
  <2>1. pc = "closing" /\ pc' \in {"done", "backoff"}
    BY <1>11 DEF Close, EndAttempt
  <2>2. mem' = IF bookmark_updated THEN upd ELSE mem
    BY <1>11 DEF Close, Updated
  <2>3. UNCHANGED <<upd, bookmark_updated, handed, twice>>
    BY <1>11 DEF Close
  <2>4. \A h \in handed : mem' # None /\ h <= mem'
    <3>1. upd # None
      BY <1>a, NoneAssumption
    <3> QED
      BY <2>1, <2>2, <3>1 DEF Fresh, Between
  <2> QED
    BY <2>1, <2>3, <2>4 DEF Fresh, Draining, Between
<1>12. CASE Log \/ Flush \/ Cancel \/ PipelineEnds
  <2>1. UNCHANGED <<pos, batch, upd, bookmark_updated, mem, handed, twice, pc>>
    BY <1>12, Zenon DEF Log, Flush, Cancel, PipelineEnds
  <2> QED
    BY <2>1 DEF Fresh, Draining, Between
<1>13. CASE Stop
  <2>1. Between /\ pc' = "top" /\ UNCHANGED <<mem, handed, twice>>
    BY <1>13 DEF Stop, Restarted, Between
  <2> QED
    BY <2>1 DEF Fresh, Draining, Between
<1>14. CASE Crash \/ CloseRenderFails
  BY <1>14, Zenon DEF Crash, CloseRenderFails
<1>15. CASE UNCHANGED vars
  <2>1. UNCHANGED <<pos, batch, upd, bookmark_updated, mem, handed, twice, pc>>
    BY <1>15, Zenon DEF vars
  <2> QED
    BY <2>1 DEF Fresh, Draining, Between
<1> QED
  BY <1>1, <1>2, <1>3, <1>4, <1>5, <1>6, <1>7, <1>8, <1>9, <1>10, <1>11, <1>12, <1>13,
     <1>14, <1>15 DEF Next, Attempt, Failure

(* Sets of records are finite.                                             *)
LEMMA RecordsFinite ==
  ASSUME NEW R \in SUBSET Records
  PROVE  IsFiniteSet(R) /\ Cardinality(R) \in Nat
<1>1. MaxRecords \in Int /\ 1 \in Int
  BY BoundsAssumption
<1>2. IsFiniteSet(Records)
  BY <1>1, FS_Interval DEF Records
<1> QED
  BY <1>2, FS_Subset, FS_CardinalityType

(* Sending, or giving up on, the lowest record of a batch makes no more    *)
(* records refused than it takes from the batch.                           *)
LEMMA RefusedOrLeft ==
  ASSUME Values, batch # {}, batch' = batch \ {LowestOf(batch)},
         refused' \subseteq refused \cup {LowestOf(batch)}
  PROVE  /\ Cardinality(batch') \in Nat /\ Cardinality(batch') <= Cardinality(batch)
         /\ Cardinality(refused') + Cardinality(batch') <= Cardinality(refused) + Cardinality(batch)
<1> DEFINE r == LowestOf(batch)
           m == Cardinality(refused \cup {r})
<1>1. r \in batch
  BY LowestIsLowest DEF Values
<1>2. IsFiniteSet(batch) /\ IsFiniteSet(refused)
  BY RecordsFinite DEF Values
<1>3. Cardinality(batch) \in Nat /\ Cardinality(refused) \in Nat
  BY <1>2, FS_CardinalityType
<1> HIDE DEF r
<1>4. batch' = batch \ {r} /\ refused' \subseteq refused \cup {r}
  BY DEF r
<1>5. IsFiniteSet(batch') /\ Cardinality(batch') = Cardinality(batch) - 1
  BY <1>1, <1>2, <1>4, FS_RemoveElement
<1>6. m \in {Cardinality(refused), Cardinality(refused) + 1} /\ IsFiniteSet(refused \cup {r})
  BY <1>2, FS_AddElement
<1>7. Cardinality(refused') \in Nat /\ Cardinality(refused') <= m
  BY <1>4, <1>6, FS_Subset, FS_CardinalityType
<1>8. Cardinality(batch') \in Nat
  BY <1>5, FS_CardinalityType
<1> HIDE DEF m
<1> QED
  BY <1>3, <1>5, <1>6, <1>7, <1>8

(* A step after which no more is refused, of a batch that did not grow.    *)
LEMMA CostStutter ==
  ASSUME Values, Cost, UNCHANGED <<refused, cancelled, exits>>,
         batch' = batch \/ batch' = {}, pipe' # "open" => cancelled
  PROVE  Cost'
<1>2. Cardinality(batch) \in Nat
  BY RecordsFinite DEF Values
<1>3. Cardinality(batch') \in Nat /\ Cardinality(batch') <= Cardinality(batch)
  BY <1>2, FS_EmptySet
<1>4. Cardinality(refused') = Cardinality(refused) /\ Cardinality(refused) \in Nat
  BY RecordsFinite DEF Values
<1>5. Batch * exits \in Nat /\ Batch \in Nat
  BY BatchAssumption, BoundsAssumption DEF Values
<1> QED
  BY <1>2, <1>3, <1>4, <1>5 DEF Cost

LEMMA CostStep == Values /\ Handles /\ Cost /\ [Next]_vars => Cost'
<1> SUFFICES ASSUME Values, Handles, Cost, [Next]_vars PROVE Cost'
  OBVIOUS
<1>a. /\ Batch \in Nat /\ exits \in Nat /\ Batch * exits \in Nat
      /\ Batch * (exits + 1) = Batch * exits + Batch
  BY BatchAssumption, BoundsAssumption DEF Values
<1>b. /\ IsFiniteSet(batch) /\ IsFiniteSet(refused)
      /\ Cardinality(batch) \in Nat /\ Cardinality(refused) \in Nat
  BY RecordsFinite DEF Values
<1> USE DEF env, api, loop, store, stopping, ghost, bounds
<1>1. CASE EvtNext
  <2>1. PICK n \in 1..Batch : batch' = (pos + 1)..(pos + n)
    BY <1>1 DEF EvtNext
  <2>2. pos \in Nat /\ n \in Nat /\ n <= Batch
    BY <1>a, BoundsAssumption DEF Values
  <2>3. Cardinality(batch') = n
    <3>1. Cardinality((pos + 1)..(pos + n)) = IF pos + 1 > pos + n THEN 0 ELSE (pos + n) - (pos + 1) + 1
      BY <2>2, FS_Interval
    <3> QED
      BY <2>1, <2>2, <3>1
  <2>4. ~cancelled /\ UNCHANGED <<refused, cancelled, exits, pipe>>
    BY <1>1 DEF EvtNext
  <2>5. Cardinality(refused') = Cardinality(refused)
    BY <2>4
  <2> QED
    BY <2>2, <2>3, <2>4, <2>5 DEF Cost
<1>2. CASE RenderFails \/ Send
  <2>1. /\ batch # {} /\ batch' = batch \ {LowestOf(batch)}
        /\ refused' = refused \/ (pipe # "open" /\ refused' = refused \cup {LowestOf(batch)})
        /\ UNCHANGED <<cancelled, exits, pipe>>
    BY <1>2 DEF RenderFails, Send, Handles
  <2>2. /\ Cardinality(batch') \in Nat /\ Cardinality(batch') <= Cardinality(batch)
        /\ Cardinality(refused') + Cardinality(batch')
             <= Cardinality(refused) + Cardinality(batch)
    <3>1. refused' \subseteq refused \cup {LowestOf(batch)}
      BY <2>1
    <3> QED
      BY <2>1, <3>1, RefusedOrLeft
  <2>3. refused' \subseteq Records
    <3>1. LowestOf(batch) \in Records
      BY <2>1, LowestIsLowest DEF Values
    <3> QED
      BY <2>1, <3>1 DEF Values
  <2>4. Cardinality(refused') \in Nat
    BY <2>3, RecordsFinite
  <2>5. ~cancelled => Cardinality(refused') = Cardinality(refused)
    BY <2>1 DEF Cost
  <2>6. Cardinality(batch') <= Batch
    BY <1>a, <1>b, <2>2 DEF Cost
  <2> QED
    BY <1>a, <1>b, <2>1, <2>2, <2>4, <2>5, <2>6 DEF Cost
<1>3. CASE SendRefused
  <2>1. /\ pipe = "closed" /\ batch # {} /\ batch' = {}
        /\ refused' = refused \cup {LowestOf(batch)}
        /\ UNCHANGED <<cancelled, exits, pipe>>
    BY <1>3 DEF SendRefused, Handles
  <2>2. cancelled
    BY <2>1 DEF Cost
  <2>3. Cardinality(refused') <= Cardinality(refused) + 1 /\ Cardinality(refused') \in Nat
    <3> DEFINE R == refused \cup {LowestOf(batch)}
    <3>1. Cardinality(R) \in {Cardinality(refused), Cardinality(refused) + 1}
      BY <1>b, FS_AddElement
    <3>2. refused' = R
      BY <2>1
    <3> HIDE DEF R
    <3> QED
      BY <1>b, <3>1, <3>2
  <2>4. Cardinality(batch') = 0
    BY <2>1, FS_EmptySet
  <2>5. Cardinality(batch) >= 1
    BY <1>b, <2>1, FS_EmptySet
  <2> QED
    BY <1>a, <1>b, <2>1, <2>2, <2>3, <2>4, <2>5 DEF Cost
<1>4. CASE Cancel
  <2>1. UNCHANGED <<refused, batch, exits>> /\ cancelled' = TRUE /\ ~cancelled
    BY <1>4 DEF Cancel
  <2>2. Cardinality(refused') = Cardinality(refused) /\ Cardinality(batch') = Cardinality(batch)
    BY <2>1
  <2> QED
    BY <1>a, <1>b, <2>1, <2>2 DEF Cost
<1>5. CASE Stop \/ Crash
  <2>1. /\ refused' = refused /\ batch' = {} /\ exits' = exits + 1
        /\ cancelled' = FALSE /\ pipe' = "open"
    BY <1>5 DEF Stop, Crash, Restarted
  <2>2. Cardinality(refused') = Cardinality(refused) /\ Cardinality(batch') = 0
    BY <2>1, FS_EmptySet
  <2>3. Cardinality(refused) <= Batch * exits + Batch
    BY <1>a, <1>b DEF Cost
  <2> QED
    BY <1>a, <1>b, <2>1, <2>2, <2>3 DEF Cost
<1>6. CASE PipelineEnds
  BY <1>6, CostStutter DEF PipelineEnds
<1>7. CASE \/ Subscribe \/ \E stage \in Stages : SubscribeFails(stage)
           \/ \E code \in {"no_more_items", "invalid_operation", "other"} : EvtNextFails(code)
           \/ Sleep \/ Return \/ Wait \/ DrainCancelled \/ ResetSignal \/ Render
           \/ BatchDone \/ Checkpoint \/ NoCheckpoint \/ Close \/ CloseRenderFails
           \/ Log \/ Flush \/ UNCHANGED vars
  <2>1. UNCHANGED <<refused, cancelled, exits, pipe, batch>>
    BY <1>7, Zenon
       DEF Subscribe, SubscribeFails, EvtNextFails, Sleep, Return, Wait, DrainCancelled,
           ResetSignal, Render, BatchDone, Checkpoint, NoCheckpoint, Close, CloseRenderFails,
           Log, Flush, vars
  <2> QED
    BY <2>1, CostStutter DEF Cost
<1> QED
  BY <1>1, <1>2, <1>3, <1>4, <1>5, <1>6, <1>7 DEF Next, Attempt, Failure

(* Every variable has its type.                                            *)
THEOREM TypeCorrect == Spec => []TypeOK
<1>1. Init => Flags
  BY DEF Init, Idle, Flags
<1>2. Init => Values /\ Handles
  BY DelayAssumption, NoneAssumption, BoundsAssumption
     DEF Init, Idle, Values, Handles, Between, StartBackoff, Records, Stages, Places
<1>3. Flags /\ Values <=> TypeOK
  BY DEF Flags, Values, TypeOK
<1> QED
  BY <1>1, <1>2, <1>3, FlagsStep, ValuesStep, HandlesStep, PTL DEF Spec

LEMMA InitIInv == Init => IInv
<1>1. Init => Values /\ Handles
  BY DelayAssumption, NoneAssumption, BoundsAssumption
     DEF Init, Idle, Values, Handles, Between, StartBackoff, Records, Stages, Places
<1>2. Init => Returned /\ Behind /\ Fresh
  BY DEF Init, Idle, Returned, Behind, Fresh, Draining, Between
<1>3. Init => Cost
  <2> SUFFICES ASSUME Init PROVE Cost
    OBVIOUS
  <2>1. batch = {} /\ refused = {} /\ exits = 0 /\ ~cancelled /\ pipe = "open"
    BY DEF Init, Idle
  <2>2. Cardinality(batch) = 0 /\ Cardinality(refused) = 0
    BY <2>1, FS_EmptySet
  <2> QED
    BY <2>1, <2>2, BatchAssumption DEF Cost
<1> QED
  BY <1>1, <1>2, <1>3 DEF IInv

(* A process that died, and a bookmark that could not be rendered, are     *)
(* never forgotten.                                                        *)
LEMMA StepIInv == IInv /\ [Next]_vars => IInv'
<1> SUFFICES ASSUME IInv, [Next]_vars PROVE IInv'
  OBVIOUS
<1>1. Values' /\ Handles' /\ Returned' /\ Behind' /\ Cost'
  BY ValuesStep, HandlesStep, ReturnedStep, BehindStep, CostStep DEF IInv
<1>2. crashed => crashed'
  <2> USE DEF ghost
  <2>1. CASE Attempt
    BY <2>1, Zenon
       DEF Attempt, Subscribe, Sleep, Return, Wait, DrainCancelled, EvtNext, EvtNextFails,
           ResetSignal, Render, Send, SendRefused, BatchDone, Checkpoint, NoCheckpoint, Close
  <2>2. CASE Failure
    BY <2>2, Zenon DEF Failure, SubscribeFails, EvtNextFails, RenderFails, CloseRenderFails
  <2>3. CASE Log \/ Flush \/ Cancel \/ PipelineEnds \/ Stop \/ Crash
    BY <2>3, Zenon DEF Log, Flush, Cancel, PipelineEnds, Stop, Crash
  <2> QED
    BY <2>1, <2>2, <2>3 DEF Next, vars
<1>3. bookmarkFailed => bookmarkFailed'
  <2> USE DEF ghost
  <2>1. CASE Attempt
    BY <2>1, Zenon
       DEF Attempt, Subscribe, Sleep, Return, Wait, DrainCancelled, EvtNext, EvtNextFails,
           ResetSignal, Render, Send, SendRefused, BatchDone, Checkpoint, NoCheckpoint, Close
  <2>2. CASE Failure
    BY <2>2, Zenon DEF Failure, SubscribeFails, EvtNextFails, RenderFails, CloseRenderFails
  <2>3. CASE Log \/ Flush \/ Cancel \/ PipelineEnds \/ Stop \/ Crash
    BY <2>3, Zenon DEF Log, Flush, Cancel, PipelineEnds, Stop, Crash
  <2> QED
    BY <2>1, <2>2, <2>3 DEF Next, vars
<1> QED
  BY <1>1, <1>2, <1>3, FreshStep DEF IInv

LEMMA InductiveInvariant == Spec => []IInv
  BY InitIInv, StepIInv, PTL DEF Spec

(* No resume token, in the state manager or in state.json, leads past a    *)
(* record that was not taken care of, other than those that an ending      *)
(* pipeline did not read, and an exit makes that of a batch at most.       *)
THEOREM CheckpointsHonest == Spec => []CheckpointHonest
<1>1. IInv => CheckpointHonest
  <2> SUFFICES ASSUME IInv PROVE CheckpointHonest
    OBVIOUS
  <2>1. PassedOver(disk) \cup PassedOver(mem) \subseteq refused
    BY DEF IInv, Behind, Taken, PassedOver
  <2>2. /\ Cardinality(refused) \in Nat /\ Cardinality(batch) \in Nat
        /\ exits \in Nat /\ Batch \in Nat /\ Batch * (exits + 1) = Batch * exits + Batch
    <3>1. /\ Cardinality(refused) \in Nat /\ Cardinality(batch) \in Nat
      BY RecordsFinite DEF IInv, Values
    <3>2. exits \in Nat /\ Batch \in Nat
      BY BatchAssumption, BoundsAssumption DEF IInv, Values
    <3> QED
      BY <3>1, <3>2
  <2>3. Cardinality(refused) <= Batch * Exits
    <3>1. CASE cancelled
      BY <2>2, <3>1 DEF IInv, Cost, Exits
    <3>2. CASE ~cancelled
      BY <2>2, <3>2 DEF IInv, Cost, Exits
    <3> QED
      BY <3>1, <3>2
  <2> QED
    BY <2>1, <2>3 DEF CheckpointHonest
<1> QED
  BY <1>1, InductiveInvariant, PTL

(* Without a crash, and with every bookmark rendered, no record is handed  *)
(* over a second time.                                                     *)
THEOREM NothingResent == Spec => []ResentOnlyAfterCrash
<1>1. IInv => ResentOnlyAfterCrash
  BY DEF IInv, Fresh, ResentOnlyAfterCrash
<1> QED
  BY <1>1, InductiveInvariant, PTL

(* Between two attempts no handle is open.                                 *)
THEOREM HandlesAreClosed == Spec => []HandlesClosed
<1>1. IInv => HandlesClosed
  BY DEF IInv, Handles, Between, HandlesClosed
<1> QED
  BY <1>1, InductiveInvariant, PTL

(* Nor is a record missed between two attempts: a subscription starts with *)
(* the future only where nothing was handed over yet.                      *)
THEOREM NoGap == Spec => NoGapBetweenAttempts
<1>1. IInv /\ [Next]_vars
        => [missed' # missed => handed = {} \/ crashed \/ bookmarkFailed]_vars
  <2> SUFFICES ASSUME IInv, Next, missed' # missed, ~crashed, ~bookmarkFailed
               PROVE  handed = {}
    OBVIOUS
  <2>1. Subscribe
    <3> USE DEF ghost
    <3>1. ~(Sleep \/ Return \/ Wait \/ DrainCancelled \/ EvtNext
            \/ EvtNextFails("no_more_items") \/ ResetSignal \/ Render \/ Send
            \/ SendRefused \/ BatchDone \/ Checkpoint \/ NoCheckpoint \/ Close)
      BY Zenon
         DEF Sleep, Return, Wait, DrainCancelled, EvtNext, EvtNextFails, ResetSignal, Render,
             Send, SendRefused, BatchDone, Checkpoint, NoCheckpoint, Close
    <3>2. ~Failure
      BY Zenon DEF Failure, SubscribeFails, EvtNextFails, RenderFails, CloseRenderFails
    <3>3. ~(Log \/ Flush \/ Cancel \/ PipelineEnds \/ Stop \/ Crash)
      BY Zenon DEF Log, Flush, Cancel, PipelineEnds, Stop, Crash
    <3> QED
      BY <3>1, <3>2, <3>3 DEF Next, Attempt
  <2>2. mem = None /\ Between
    BY <2>1 DEF Subscribe, FutureOnly, Between
  <2> QED
    BY <2>2 DEF IInv, Fresh
<1> QED
  BY <1>1, InductiveInvariant, PTL DEF Spec, NoGapBetweenAttempts

----------------------------------------------------------------------------
(* The syslog input.  Its token and its count of failures have names of    *)
(* their own here, since the event log input has some of the same name.    *)
CONSTANTS Connections, Peer, Mapped, Scripts, Datagrams, Lists, max_connections
VARIABLES protocol, allowed_senders, script, silent, wire, eof, backlog, listener, lines,
          task, permits, token, pipeline, failures

Syslog == INSTANCE Syslog WITH cancelled <- token, faults <- failures

(* A peer writes once its connection is served, and the pipeline ends only *)
(* after the token is cancelled.                                           *)
Served ==
  /\ task \in [Connections -> Syslog!States]
  /\ wire = [c \in Connections |-> wire[c]]
  /\ \A c \in Connections :
       Syslog!Stream /\ task[c] \in {"absent", "backlog", "handshake"} => wire[c] = <<>>
  /\ pipeline = "closed" => token

(* The backlog holds the connections that wait to be accepted, once each.  *)
Waiting ==
  /\ backlog \in Seq(Connections) /\ (~Syslog!Stream => backlog = <<>>)
  /\ \A i \in 1 .. Len(backlog) : task[backlog[i]] = "backlog"
  /\ \A i, j \in 1 .. Len(backlog) : backlog[i] = backlog[j] => i = j

(* One task moves on, or none; the backlog stays as it is.                 *)
Moves(c, v) == task' = [task EXCEPT ![c] = v] /\ UNCHANGED <<protocol, backlog>>

LEMMA MovesWaiting ==
  ASSUME Served, Waiting, NEW c \in Connections, task[c] # "backlog", NEW v, Moves(c, v)
  PROVE  Waiting'
  BY DEF Served, Waiting, Moves, Syslog!Stream

LEMMA SameWaiting ==
  ASSUME Waiting, UNCHANGED <<protocol, task, backlog>>
  PROVE  Waiting'
  BY DEF Waiting, Syslog!Stream

(* What a step of the listener, or of nobody's task, leaves.               *)
LEMMA SameServed ==
  ASSUME Served, UNCHANGED <<protocol, task, wire>>, pipeline' = "closed" => token'
  PROVE  Served'
  BY DEF Served, Syslog!Stream

LEMMA MovesServed ==
  ASSUME Served, NEW c \in Connections, NEW v \in Syslog!States,
         Syslog!Stream /\ v \in {"absent", "backlog", "handshake"} => wire[c] = <<>>,
         Moves(c, v), UNCHANGED <<wire, token, pipeline>>
  PROVE  Served'
  BY DEF Served, Moves, Syslog!Stream

LEMMA ConnectKeeps ==
  ASSUME Served, Waiting, NEW c \in Connections, Syslog!Connect(c)
  PROVE  Served' /\ Waiting'
<1> USE DEF Syslog!Connect, Syslog!config, Syslog!peerv, Syslog!engine
<1>1. wire[c] = <<>>
  BY DEF Served
<1>2. Served'
  BY <1>1 DEF Served, Syslog!Stream, Syslog!States
<1>3. Len(backlog) \in Nat /\ Len(backlog') = Len(backlog) + 1
      /\ backlog' \in Seq(Connections)
      /\ backlog'[Len(backlog) + 1] = c
      /\ \A i \in 1 .. Len(backlog) : backlog'[i] = backlog[i]
  BY DEF Waiting
<1>4. \A i \in 1 .. Len(backlog) : backlog[i] # c /\ task'[backlog[i]] = "backlog"
                                  /\ backlog[i] \in Connections
  BY DEF Waiting, Served
<1>5. task'[c] = "backlog"
  BY DEF Served
<1>6. \A i \in 1 .. Len(backlog') : i \in 1 .. Len(backlog) \/ i = Len(backlog) + 1
  BY <1>3
<1>7. Syslog!Stream'
  BY DEF Syslog!Stream
<1>8. QED
  BY <1>2, <1>3, <1>4, <1>5, <1>6, <1>7 DEF Waiting

LEMMA AcceptKeeps ==
  ASSUME Served, Waiting, Syslog!Accept
  PROVE  Served' /\ Waiting'
<1> DEFINE c == Head(backlog)
<1> USE DEF Syslog!Accept, Syslog!Turned, Syslog!Spawned, Syslog!config, Syslog!peerv,
            Syslog!engine
<1>1. /\ Len(backlog) \in Nat /\ Len(backlog) # 0 /\ c = backlog[1] /\ c \in Connections
      /\ backlog' \in Seq(Connections) /\ Len(backlog') = Len(backlog) - 1
      /\ \A i \in 1 .. Len(backlog') : backlog'[i] = backlog[i + 1] /\ i + 1 \in 1 .. Len(backlog)
  BY DEF Waiting
<1>2. PICK v \in {"closed", "handshake", "reading"} : task' = [task EXCEPT ![c] = v]
  OBVIOUS
<1>3. task[c] = "backlog"
  BY <1>1 DEF Waiting
<1>4. Syslog!Stream => wire[c] = <<>>
  BY <1>1, <1>3 DEF Served
<1>5. UNCHANGED <<protocol, wire, token, pipeline>>
  OBVIOUS
<1> HIDE DEF c, Syslog!Accept, Syslog!Turned, Syslog!Spawned
<1>6. Served'
  BY <1>1, <1>2, <1>4, <1>5 DEF Served, Syslog!Stream, Syslog!States
<1>7. \A i \in 1 .. Len(backlog') : backlog'[i] # c /\ task[backlog'[i]] = "backlog"
                                   /\ backlog'[i] \in Connections
  BY <1>1 DEF Waiting
<1>8. \A i \in 1 .. Len(backlog') : task'[backlog'[i]] = "backlog"
  BY <1>2, <1>7 DEF Served
<1>9. \A i, j \in 1 .. Len(backlog') : backlog'[i] = backlog'[j] => i = j
  BY <1>1 DEF Waiting
<1>10. (~Syslog!Stream => backlog = <<>>) /\ (Syslog!Stream' <=> Syslog!Stream)
  BY <1>5 DEF Waiting, Syslog!Stream
<1>11. (~Syslog!Stream)' => backlog' = <<>>
  BY <1>1, <1>10
<1>12. QED
  BY <1>1, <1>6, <1>8, <1>9, <1>11 DEF Waiting

LEMMA ReturnKeeps ==
  ASSUME Served, Waiting, Syslog!Return
  PROVE  Served' /\ Waiting'
  BY DEF Served, Waiting, Syslog!Return, Syslog!Stream, Syslog!States, Syslog!config,
         Syslog!engine

(* A frame read, a datagram taken, a message written.                      *)
LEMMA WriteKeeps ==
  ASSUME Served, Waiting, NEW c \in Connections, Syslog!Write(c)
  PROVE  Served' /\ Waiting'
<1> USE DEF Syslog!Write, Syslog!config, Syslog!engine
<1>1. Waiting'
  BY SameWaiting
<1>2. Served'
  BY DEF Served, Syslog!Stream
<1>3. QED
  BY <1>1, <1>2

LEMMA ReadFrameKeeps ==
  ASSUME Served, Waiting, NEW c \in Connections, Syslog!ReadFrame(c)
  PROVE  Served' /\ Waiting'
<1> USE DEF Syslog!ReadFrame, Syslog!Reads, Syslog!Ended, Syslog!config, Syslog!peerv,
            Syslog!engine
<1>1. CASE task' = task
  BY <1>1, SameWaiting DEF Served, Syslog!Stream
<1>2. CASE \E v \in {"sending", "closed"} : task' = [task EXCEPT ![c] = v]
  <2>1. PICK v \in {"sending", "closed"} : task' = [task EXCEPT ![c] = v]
    BY <1>2
  <2>2. Waiting'
    BY <2>1, MovesWaiting DEF Moves
  <2>3. Served'
    BY <2>1 DEF Served, Syslog!Stream, Syslog!States
  <2>4. QED
    BY <2>2, <2>3
<1>3. QED
  BY <1>1, <1>2

LEMMA ReceiveKeeps ==
  ASSUME Served, Waiting, NEW c \in Connections, Syslog!Receive(c)
  PROVE  Served' /\ Waiting'
<1> USE DEF Syslog!Receive, Syslog!config, Syslog!peerv, Syslog!engine
<1>1. ~Syslog!Stream /\ (~Syslog!Stream)'
  BY DEF Syslog!Stream
<1>2. task' \in [Connections -> Syslog!States]
  BY DEF Served, Syslog!States
<1>3. wire' = [d \in Connections |-> wire'[d]]
  BY DEF Served
<1>4. Served'
  BY <1>1, <1>2, <1>3 DEF Served
<1>5. backlog = <<>> /\ backlog' = <<>>
  BY <1>1 DEF Waiting
<1>6. QED
  BY <1>1, <1>4, <1>5 DEF Waiting

(* The steps of one connection's task.                                     *)
TaskStep(c) ==
  \/ Syslog!Shaken(c) \/ Syslog!HandshakeFails(c) \/ Syslog!HandshakeTimesOut(c)
  \/ Syslog!ReadEof(c) \/ Syslog!IdleTimesOut(c) \/ Syslog!SeesCancel(c)
  \/ Syslog!NextLine(c) \/ Syslog!Sent(c) \/ Syslog!SendFails(c)

LEMMA TaskKeeps ==
  ASSUME Served, Waiting, NEW c \in Connections, TaskStep(c)
  PROVE  Served' /\ Waiting'
<1>1. /\ task[c] \in {"handshake", "reading", "sending"}
      /\ UNCHANGED <<protocol, wire, backlog, token, pipeline>>
      /\ task' = task \/ \E v \in {"reading", "sending", "closed"} : task' = [task EXCEPT ![c] = v]
  BY DEF TaskStep, Syslog!Shaken, Syslog!HandshakeFails, Syslog!HandshakeTimesOut,
         Syslog!ReadEof, Syslog!IdleTimesOut, Syslog!SeesCancel, Syslog!NextLine, Syslog!Sent,
         Syslog!SendFails, Syslog!Ended, Syslog!Reads, Syslog!config, Syslog!engine
<1>2. CASE task' = task
  BY <1>1, <1>2, SameWaiting, SameServed DEF Served
<1>3. CASE \E v \in {"reading", "sending", "closed"} : task' = [task EXCEPT ![c] = v]
  <2>1. PICK v \in {"reading", "sending", "closed"} : task' = [task EXCEPT ![c] = v]
    BY <1>3
  <2>2. Moves(c, v) /\ v \in Syslog!States
    BY <1>1, <2>1 DEF Moves, Syslog!States
  <2>3. Waiting'
    BY <1>1, <2>2, MovesWaiting
  <2>4. Served'
    BY <1>1, <2>1, <2>2, MovesServed
  <2>5. QED
    BY <2>3, <2>4
<1>4. QED
  BY <1>1, <1>2, <1>3

(* The steps of the peers and of the engine that leave tasks alone.        *)
QuietStep ==
  \/ Syslog!ListenerFails \/ Syslog!Wake \/ Syslog!Cancel \/ Syslog!PipelineEnds
  \/ \E c \in Connections : Syslog!Hang(c) \/ Syslog!HangUp(c)
  \/ UNCHANGED Syslog!vars

LEMMA QuietKeeps ==
  ASSUME Served, Waiting, QuietStep
  PROVE  Served' /\ Waiting'
<1>1. UNCHANGED <<protocol, task, wire, backlog>> /\ (pipeline' = "closed" => token')
  BY DEF QuietStep, Served, Syslog!ListenerFails, Syslog!Wake, Syslog!Cancel,
         Syslog!PipelineEnds, Syslog!Hang, Syslog!HangUp, Syslog!vars, Syslog!config,
         Syslog!engine
<1>2. QED
  BY <1>1, SameServed, SameWaiting

(* Every step of the input is one of these.                                *)
LEMMA SyslogSteps ==
  ASSUME [Syslog!Next]_(Syslog!vars)
  PROVE  \/ QuietStep \/ Syslog!Accept \/ Syslog!Return
         \/ \E c \in Connections :
              \/ Syslog!Connect(c) \/ Syslog!Write(c) \/ Syslog!ReadFrame(c)
              \/ Syslog!Receive(c) \/ TaskStep(c)
  BY DEF Syslog!Next, QuietStep, TaskStep

LEMMA ServedInductive ==
  ASSUME Served, Waiting, [Syslog!Next]_(Syslog!vars)
  PROVE  Served' /\ Waiting'
  BY SyslogSteps, QuietKeeps, AcceptKeeps, ReturnKeeps, ConnectKeeps, WriteKeeps,
     ReadFrameKeeps, ReceiveKeeps, TaskKeeps

LEMMA InitServed == Syslog!Init => Served /\ Waiting
<1> SUFFICES ASSUME Syslog!Init PROVE Served /\ Waiting
  OBVIOUS
<1>1. Served
  BY DEF Syslog!Init, Served, Syslog!States
<1>2. backlog = <<>>
  BY DEF Syslog!Init
<1>3. QED
  BY <1>1, <1>2 DEF Waiting

(* Until the agent is stopped, a connection's task ends only when there is *)
(* nothing left to read, or when the codec has refused what is next: no    *)
(* timeout of read_stream cuts off a peer whose messages have come in.     *)
THEOREM MessagesRead == Syslog!Spec => Syslog!NothingAbandoned
<1>1. ASSUME Served, Waiting, [Syslog!Next]_(Syslog!vars),
             NEW c \in Connections, Syslog!Stream, c \in Syslog!Open, ~token,
             task'[c] = "closed"
      PROVE  wire[c] = <<>> \/ Head(wire[c]) = "refused"
  <2>1. task[c] \in {"handshake", "reading", "sending"}
    BY <1>1 DEF Syslog!Open
  <2>2. ~ QuietStep
    BY <1>1, <2>1 DEF QuietStep, Syslog!ListenerFails, Syslog!Wake, Syslog!Cancel,
       Syslog!PipelineEnds, Syslog!Hang, Syslog!HangUp, Syslog!vars
  <2>3. ~ Syslog!Accept
    <3>1. SUFFICES ASSUME Syslog!Accept PROVE FALSE
      OBVIOUS
    <3>2. Head(backlog) \in Connections /\ task[Head(backlog)] = "backlog"
      BY <1>1, <3>1 DEF Waiting, Syslog!Accept
    <3>3. task'[c] = task[c]
      BY <1>1, <2>1, <3>1, <3>2 DEF Served, Syslog!Accept, Syslog!Turned, Syslog!Spawned
    <3>4. QED
      BY <1>1, <2>1, <3>3
  <2>4. ~ Syslog!Return
    BY <1>1 DEF Syslog!Return
  <2>5. PICK d \in Connections :
          \/ Syslog!Connect(d) \/ Syslog!Write(d) \/ Syslog!ReadFrame(d)
          \/ Syslog!Receive(d) \/ TaskStep(d)
    BY <1>1, <2>2, <2>3, <2>4, SyslogSteps
  <2>6. ~ (Syslog!Connect(d) \/ Syslog!Write(d) \/ Syslog!Receive(d))
    BY <1>1, <2>1 DEF Syslog!Connect, Syslog!Write, Syslog!Receive, Served, Syslog!Stream
  <2>7. CASE Syslog!ReadFrame(d)
    BY <1>1, <2>1, <2>7 DEF Syslog!ReadFrame, Syslog!Reads, Syslog!Ended, Served
  <2>8. CASE TaskStep(d)
    <3>1. d = c
      BY <1>1, <2>1, <2>8 DEF TaskStep, Syslog!Shaken, Syslog!HandshakeFails,
         Syslog!HandshakeTimesOut, Syslog!ReadEof, Syslog!IdleTimesOut, Syslog!SeesCancel,
         Syslog!NextLine, Syslog!Sent, Syslog!SendFails, Syslog!Ended, Syslog!Reads, Served,
         Syslog!Stream
    <3>2. task[c] = "handshake" => wire[c] = <<>>
      BY <1>1 DEF Served
    <3>3. pipeline # "closed"
      BY <1>1 DEF Served
    <3>4. QED
      BY <1>1, <2>1, <2>8, <3>1, <3>2, <3>3
         DEF TaskStep, Syslog!Shaken, Syslog!HandshakeFails, Syslog!HandshakeTimesOut,
             Syslog!ReadEof, Syslog!IdleTimesOut, Syslog!SilentFor, Syslog!SeesCancel,
             Syslog!NextLine, Syslog!Sent, Syslog!SendFails, Syslog!Reads, Served,
             Syslog!Stream
  <2>9. QED
    BY <2>5, <2>6, <2>7, <2>8
<1>2. Served /\ Waiting /\ [Syslog!Next]_(Syslog!vars)
        => [\A c \in Connections :
              (Syslog!Stream /\ c \in Syslog!Open /\ ~token /\ task'[c] = "closed")
                => wire[c] = <<>> \/ Head(wire[c]) = "refused"]_(Syslog!vars)
  BY <1>1
<1>3. QED
  BY <1>2, InitServed, ServedInductive, PTL DEF Syslog!Spec, Syslog!NothingAbandoned

(* Every slot of max_connections is free or held by an open connection;    *)
(* datagrams hold none, and their senders neither hang nor hang up.        *)
Slots ==
  /\ permits \in Nat
  /\ Syslog!Stream => permits + Cardinality(Syslog!Open) = max_connections
  /\ ~Syslog!Stream =>
       /\ permits = max_connections /\ silent = {} /\ eof = {}
       /\ \A c \in Connections : task[c] # "handshake"

LEMMA OpenFinite ==
  ASSUME IsFiniteSet(Connections)
  PROVE  IsFiniteSet(Syslog!Open) /\ Cardinality(Syslog!Open) \in Nat
<1>1. Syslog!Open \subseteq Connections
  BY DEF Syslog!Open
<1>2. QED
  BY <1>1, FS_Subset, FS_CardinalityType

(* One more connection is open, or one less, or the same.                  *)
LEMMA OpenMoves ==
  ASSUME IsFiniteSet(Connections), Served, NEW c \in Connections, NEW v,
         task' = [task EXCEPT ![c] = v]
  PROVE  LET open == {"handshake", "reading", "sending"} IN
         /\ task[c] \notin open /\ v \in open =>
              Cardinality(Syslog!Open') = Cardinality(Syslog!Open) + 1
         /\ task[c] \in open /\ v \notin open =>
              Cardinality(Syslog!Open) = Cardinality(Syslog!Open') + 1
              /\ Cardinality(Syslog!Open') \in Nat
         /\ (task[c] \in open <=> v \in open) => Syslog!Open' = Syslog!Open
<1> DEFINE open == {"handshake", "reading", "sending"}
           S == Syslog!Open
           T == Syslog!Open'
<1>1. IsFiniteSet(S) /\ Cardinality(S) \in Nat
  BY OpenFinite
<1>2. \A d \in Connections : task'[d] = IF d = c THEN v ELSE task[d]
  BY DEF Served
<1>3. /\ task[c] \notin open /\ v \in open => c \notin S /\ T = S \cup {c}
      /\ task[c] \in open /\ v \notin open => c \in S /\ T = S \ {c}
      /\ (task[c] \in open <=> v \in open) => T = S
  BY <1>2 DEF Syslog!Open
<1> HIDE DEF S, T, open
<1>4. task[c] \notin open /\ v \in open => Cardinality(T) = Cardinality(S) + 1
  BY <1>1, <1>3, FS_AddElement
<1>5. task[c] \in open /\ v \notin open => Cardinality(T) = Cardinality(S) - 1
                                           /\ IsFiniteSet(T) /\ Cardinality(T) \in Nat
  BY <1>1, <1>3, FS_RemoveElement, FS_CardinalityType
<1>6. QED
  BY <1>1, <1>3, <1>4, <1>5 DEF S, T, open

LEMMA SlotsKept ==
  ASSUME Slots, UNCHANGED <<protocol, permits>>, Syslog!Open' = Syslog!Open,
         ~Syslog!Stream => UNCHANGED <<silent, eof>>
                           /\ \A c \in Connections : task'[c] # "handshake"
  PROVE  Slots'
<1>1. Syslog!Stream' <=> Syslog!Stream
  BY DEF Syslog!Stream
<1> DEFINE n == Cardinality(Syslog!Open)
<1>2. n' = n
  OBVIOUS
<1> HIDE DEF n
<1>3. Syslog!Stream' => permits' + n' = max_connections
  BY <1>1, <1>2 DEF Slots, n
<1>4. QED
  BY <1>1, <1>3 DEF Slots, n

(* A connection whose task ends gives its slot back ...                    *)
LEMMA EndedGivesBack ==
  ASSUME IsFiniteSet(Connections), max_connections \in Nat, Served, Slots, Syslog!Stream,
         NEW c \in Connections, c \in Syslog!Open, Syslog!Ended(c), protocol' = protocol
  PROVE  Slots'
<1> DEFINE n == Cardinality(Syslog!Open)
           m == Cardinality(Syslog!Open')
<1>1. n = m + 1 /\ m \in Nat
  BY OpenMoves DEF Syslog!Ended, Syslog!Open
<1>2. permits' = permits + 1 /\ permits + n = max_connections /\ permits \in Nat
  BY DEF Syslog!Ended, Syslog!GivesBack, Slots
<1>3. Syslog!Stream'
  BY DEF Syslog!Stream
<1> HIDE DEF n, m
<1>4. permits' + m = max_connections /\ permits' \in Nat
  BY <1>1, <1>2
<1>5. QED
  BY <1>3, <1>4 DEF Slots, m

(* ... and accept takes one only while one is free.                        *)
LEMMA AcceptSlots ==
  ASSUME IsFiniteSet(Connections), max_connections \in Nat, Served, Waiting, Slots,
         Syslog!Accept
  PROVE  Slots'
<1> DEFINE c == Head(backlog)
           n == Cardinality(Syslog!Open)
           m == Cardinality(Syslog!Open')
<1>1. c \in Connections /\ task[c] = "backlog" /\ Syslog!Stream /\ protocol' = protocol
  BY DEF Waiting, Syslog!Accept, Syslog!config
<1>2. Syslog!Stream'
  BY <1>1 DEF Syslog!Stream
<1>3. permits + n = max_connections /\ permits \in Nat /\ n \in Nat
  BY <1>1, OpenFinite DEF Slots
<1>4. CASE Syslog!Turned(c)
  <2>1. task' = [task EXCEPT ![c] = "closed"] /\ permits' = permits
    BY <1>4 DEF Syslog!Turned
  <2> HIDE DEF c
  <2>2. Syslog!Open' = Syslog!Open
    BY <1>1, <2>1 DEF Syslog!Open, Served
  <2>3. QED
    BY <1>1, <2>1, <2>2, SlotsKept
<1>5. CASE permits > 0 /\ Syslog!Spawned(c)
  <2>1. m = n + 1
    BY <1>1, <1>5, OpenMoves DEF Syslog!Spawned
  <2>2. permits' = permits - 1 /\ permits > 0
    BY <1>5 DEF Syslog!Spawned
  <2> HIDE DEF n, m, c
  <2>3. permits' \in Nat /\ permits' + m = max_connections
    BY <1>3, <2>1, <2>2
  <2>4. QED
    BY <1>2, <2>3 DEF Slots, m
<1>6. QED
  BY <1>4, <1>5 DEF Syslog!Accept

LEMMA TaskSlots ==
  ASSUME IsFiniteSet(Connections), max_connections \in Nat, Served, Waiting, Slots,
         NEW c \in Connections, TaskStep(c) \/ Syslog!ReadFrame(c)
  PROVE  Slots'
<1>1. /\ UNCHANGED <<protocol, silent, eof>>
      /\ c \in Syslog!Open
  BY DEF TaskStep, Syslog!ReadFrame, Syslog!Shaken, Syslog!HandshakeFails,
         Syslog!HandshakeTimesOut, Syslog!ReadEof, Syslog!IdleTimesOut, Syslog!SeesCancel,
         Syslog!NextLine, Syslog!Sent, Syslog!SendFails, Syslog!config, Syslog!peerv,
         Syslog!Open
<1>2. \/ Syslog!Ended(c) /\ Syslog!Stream
      \/ /\ permits' = permits
         /\ task' = task \/ \E v \in {"reading", "sending"} : task' = [task EXCEPT ![c] = v]
      \/ permits' = permits /\ ~Syslog!Stream /\ task' = [task EXCEPT ![c] = "closed"]
  BY DEF TaskStep, Syslog!ReadFrame, Syslog!Shaken, Syslog!HandshakeFails,
         Syslog!HandshakeTimesOut, Syslog!ReadEof, Syslog!IdleTimesOut, Syslog!SilentFor,
         Syslog!TimesOut, Syslog!SeesCancel, Syslog!NextLine, Syslog!Sent, Syslog!SendFails,
         Syslog!Reads, Slots
<1>3. CASE Syslog!Ended(c) /\ Syslog!Stream
  BY <1>1, <1>3, EndedGivesBack
<1>4. CASE permits' = permits /\ task' = task
  <2>1. Syslog!Open' = Syslog!Open
    BY <1>4 DEF Syslog!Open
  <2>2. QED
    BY <1>1, <1>4, <2>1, SlotsKept DEF Slots
<1>5. CASE permits' = permits /\ \E v \in {"reading", "sending"} : task' = [task EXCEPT ![c] = v]
  <2>1. PICK v \in {"reading", "sending"} : task' = [task EXCEPT ![c] = v]
    BY <1>5
  <2>2. Syslog!Open' = Syslog!Open
    BY <1>1, <2>1, OpenMoves DEF Syslog!Open
  <2>3. ~Syslog!Stream => \A d \in Connections : task'[d] # "handshake"
    BY <2>1 DEF Slots, Served
  <2>4. QED
    BY <1>1, <1>5, <2>2, <2>3, SlotsKept
<1>6. CASE permits' = permits /\ ~Syslog!Stream /\ task' = [task EXCEPT ![c] = "closed"]
  BY <1>1, <1>6 DEF Slots, Served, Syslog!Stream
<1>7. QED
  BY <1>2, <1>3, <1>4, <1>5, <1>6

LEMMA OtherSlots ==
  ASSUME IsFiniteSet(Connections), max_connections \in Nat, Served, Waiting, Slots,
         QuietStep \/ Syslog!Return
         \/ \E c \in Connections : Syslog!Connect(c) \/ Syslog!Write(c) \/ Syslog!Receive(c)
  PROVE  Slots'
<1>1. CASE QuietStep \/ Syslog!Return
           \/ \E c \in Connections : Syslog!Connect(c) \/ Syslog!Write(c)
  <2>1. UNCHANGED <<protocol, permits>> /\ (~Syslog!Stream => UNCHANGED <<silent, eof>>)
    BY <1>1 DEF QuietStep, Syslog!ListenerFails, Syslog!Wake, Syslog!Cancel,
       Syslog!PipelineEnds, Syslog!Hang, Syslog!HangUp, Syslog!vars, Syslog!Return,
       Syslog!Connect, Syslog!Write, Syslog!config, Syslog!peerv
  <2>2. \A c \in Connections :
          \/ task'[c] = task[c]
          \/ task[c] = "absent" /\ task'[c] = "backlog"
          \/ task[c] = "backlog" /\ task'[c] = "closed"
    BY <1>1 DEF QuietStep, Syslog!ListenerFails, Syslog!Wake, Syslog!Cancel,
       Syslog!PipelineEnds, Syslog!Hang, Syslog!HangUp, Syslog!vars, Syslog!Return,
       Syslog!Connect, Syslog!Write, Served
  <2>3. Syslog!Open' = Syslog!Open
    BY <2>2 DEF Syslog!Open
  <2>4. ~Syslog!Stream => \A c \in Connections : task'[c] # "handshake"
    BY <2>2 DEF Slots
  <2>5. QED
    BY <2>1, <2>3, <2>4, SlotsKept
<1>2. CASE \E c \in Connections : Syslog!Receive(c)
  <2>1. /\ ~Syslog!Stream /\ (~Syslog!Stream)'
        /\ UNCHANGED <<permits, silent, eof>>
        /\ task' = task \/ \A d \in Connections : task'[d] \in {"reading", "absent"}
    BY <1>2 DEF Syslog!Receive, Syslog!Stream, Syslog!config, Syslog!peerv
  <2>2. QED
    BY <2>1 DEF Slots
<1>3. QED
  BY <1>1, <1>2

(* The semaphore counts what is open: no way that a task can end leaks a   *)
(* permit or returns one twice, and the other variables keep their types.  *)
THEOREM SlotsAccounted ==
  ASSUME IsFiniteSet(Connections), max_connections \in Nat
  PROVE  Syslog!Spec => [](Syslog!TypeOK /\ Slots)
<1> DEFINE Rest ==
      /\ protocol \in {"udp", "tcp", "tls"} /\ allowed_senders \in Lists
      /\ silent \subseteq Connections /\ eof \subseteq Connections
      /\ listener \in {"running", "sleeping", "returned"}
      /\ pipeline \in {"open", "closed"} /\ token \in BOOLEAN
      /\ failures \in 0 .. MaxFaults
<1>1. Syslog!Init => Slots /\ Rest
  <2>1. SUFFICES ASSUME Syslog!Init PROVE Slots /\ Rest
    OBVIOUS
  <2>2. Syslog!Open = {}
    BY <2>1 DEF Syslog!Init, Syslog!Open
  <2>3. Cardinality(Syslog!Open) = 0
    BY <2>2, FS_EmptySet
  <2>4. Slots
    BY <2>1, <2>3 DEF Syslog!Init, Slots
  <2>5. 0 \in 0 .. MaxFaults
    BY BoundsAssumption
  <2>6. Rest
    BY <2>1, <2>5, Zenon DEF Syslog!Init
  <2>7. QED
    BY <2>4, <2>6
<1>2. Served /\ Waiting /\ Slots /\ [Syslog!Next]_(Syslog!vars) => Slots'
  BY SyslogSteps, AcceptSlots, TaskSlots, OtherSlots
<1>3. Rest /\ [Syslog!Next]_(Syslog!vars) => Rest'
  <2>1. SUFFICES ASSUME Rest, [Syslog!Next]_(Syslog!vars) PROVE Rest'
    OBVIOUS
  <2>2. UNCHANGED <<protocol, allowed_senders>>
    BY <2>1 DEF Syslog!Next, Syslog!vars, Syslog!config, Syslog!Accept, Syslog!ListenerFails,
       Syslog!Wake, Syslog!Return, Syslog!Cancel, Syslog!PipelineEnds, Syslog!Connect,
       Syslog!Write, Syslog!Hang, Syslog!HangUp, Syslog!Shaken, Syslog!HandshakeFails,
       Syslog!HandshakeTimesOut, Syslog!ReadFrame, Syslog!ReadEof, Syslog!IdleTimesOut,
       Syslog!SeesCancel, Syslog!Receive, Syslog!NextLine, Syslog!Sent, Syslog!SendFails
  <2>3. silent' \subseteq Connections /\ eof' \subseteq Connections
    BY <2>1 DEF Syslog!Next, Syslog!vars, Syslog!peerv, Syslog!Accept, Syslog!ListenerFails,
       Syslog!Wake, Syslog!Return, Syslog!Cancel, Syslog!PipelineEnds, Syslog!Connect,
       Syslog!Write, Syslog!Hang, Syslog!HangUp, Syslog!Shaken, Syslog!HandshakeFails,
       Syslog!HandshakeTimesOut, Syslog!ReadFrame, Syslog!ReadEof, Syslog!IdleTimesOut,
       Syslog!SeesCancel, Syslog!Receive, Syslog!NextLine, Syslog!Sent, Syslog!SendFails
  <2>4. /\ listener' \in {"running", "sleeping", "returned"}
        /\ pipeline' \in {"open", "closed"} /\ token' \in BOOLEAN
        /\ failures' = failures \/ (failures < MaxFaults /\ failures' = failures + 1)
    BY <2>1 DEF Syslog!Next, Syslog!vars, Syslog!engine, Syslog!Accept, Syslog!ListenerFails,
       Syslog!Wake, Syslog!Return, Syslog!Cancel, Syslog!PipelineEnds, Syslog!Connect,
       Syslog!Write, Syslog!Hang, Syslog!HangUp, Syslog!Shaken, Syslog!HandshakeFails,
       Syslog!HandshakeTimesOut, Syslog!ReadFrame, Syslog!ReadEof, Syslog!IdleTimesOut,
       Syslog!SeesCancel, Syslog!Receive, Syslog!NextLine, Syslog!Sent, Syslog!SendFails
  <2>5. failures' \in 0 .. MaxFaults
    BY <2>1, <2>4, BoundsAssumption
  <2>6. QED
    BY <2>1, <2>2, <2>3, <2>4, <2>5
<1>4. Served /\ Slots /\ Rest => Syslog!TypeOK
  <2>1. SUFFICES ASSUME Served, Slots, Rest PROVE permits \in 0 .. max_connections
    BY DEF Served, Syslog!TypeOK
  <2>2. Cardinality(Syslog!Open) \in Nat
    BY OpenFinite
  <2>3. QED
    BY <2>1, <2>2 DEF Slots
<1> HIDE DEF Rest
<1>5. QED
  BY <1>1, <1>2, <1>3, <1>4, InitServed, ServedInductive, PTL DEF Syslog!Spec
=============================================================================
