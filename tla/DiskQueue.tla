----------------------------- MODULE DiskQueue -----------------------------
(***************************************************************************)
(* The persistent queue that stands between the router task of one         *)
(* destination and its output worker (src/buffer.rs, struct DiskQueue).    *)
(*                                                                         *)
(* Events are appended as records to numbered segment files through a      *)
(* buffered writer; the worker peeks a batch, sends it and acks it, which  *)
(* moves a cursor that is then saved in cursor.json.  Four parties act:    *)
(* the router (push), the worker (wait_data, peek_batch, send_batch, ack,  *)
(* reset_peek), the operating system (failing writes, flushes and file     *)
(* creations) and the process itself (crash, stop, open).                  *)
(***************************************************************************)
EXTENDS DiskQueueInner

CONSTANTS
  Policies,     (* the values of buffer.full_policy to consider            *)
  MaxBytes,     (* buffer.max_size_mb, in bytes                            *)
  SegBytes,     (* buffer.segment_size_mb, in bytes                        *)
  Lens,         (* the encoded record lengths that occur                   *)
  BatchMax,     (* retry.batch_size                                        *)
  MaxEvents,    (* bound: events that reach the router                     *)
  MaxRestarts,  (* bound: crashes and stops of the process                 *)
  MaxFaults,    (* bound: steps in which the operating system fails        *)
  Faults        (* the kinds of operation that may fail                    *)

FaultKinds == {"open", "write", "flush", "create", "cursor"}

ASSUME PolicyAssumption == Policies \subseteq AllPolicies
(* validate.rs accepts any segment size up to the queue's cap.  No event   *)
(* is longer than the whole queue: drop_oldest would not terminate on one. *)
ASSUME SizeAssumption ==
  /\ MaxBytes \in Nat \ {0}
  /\ SegBytes \in 1 .. MaxBytes
  /\ Lens \subseteq 1 .. MaxBytes
  /\ BatchMax \in Nat \ {0}
ASSUME BoundAssumption ==
  /\ MaxEvents \in Nat
  /\ MaxRestarts \in Nat
  /\ MaxFaults \in Nat
  /\ Faults \subseteq FaultKinds

VARIABLES
  q,            (* struct Inner, with the segment files it manages         *)
  cursor_file,  (* cursor.json                                             *)
  phase,        (* the engine: down, up, or stopping                       *)
  lock,         (* who keeps the mutex from one step to the next           *)
  incoming,     (* the event the router holds, or NoEvent                  *)
  arrived,      (* number of events that have reached the router           *)
  worker,       (* where OutputWorker::run stands                          *)
  batch,        (* ids of the batch the worker has peeked                  *)
  saved,        (* the cursor ack() serialised, to be written              *)
  faults, restarts  (* how much of the two bounds is used                  *)

(* What became of each event, kept only to state properties.               *)
VARIABLES
  stored,       (* appended to the write segment                           *)
  refused,      (* counted in events_dropped by the router for itself      *)
  evicted,      (* discarded by drop_oldest to make room                   *)
  lost,         (* destroyed by a crash or by a discarded write buffer     *)
  sent,         (* reached the destination                                 *)
  confirmed     (* sent, and behind a cursor that reached cursor.json      *)

mech == <<q, cursor_file, phase, lock, incoming, arrived, worker, batch, saved,
          faults, restarts>>
ghosts == <<stored, refused, evicted, lost, sent, confirmed>>
vars == <<mech, ghosts>>

NoEvent == [id |-> 0, len |-> 0]
EventIds == 1 .. MaxEvents

(* "cancelled": stop() has been called; "flushing": the worker has left its *)
(* loop for the final attempt to flush.                                    *)
Phases == {"down", "up", "cancelled", "flushing"}
Up == phase # "down"
Stopping == phase \in {"cancelled", "flushing"}

WorkerStates == {"waiting", "peeking", "sending", "delivered", "failed",
                 "unlinking", "saving"}

-----------------------------------------------------------------------------
(* Variant: push looks at the room before the record, not after it.        *)
FitsBefore == q.bytes < MaxBytes

Fits == q.bytes + incoming.len =< MaxBytes

Init ==
  /\ \E p \in Policies :
       q = [policy |-> p, recs |-> {}, segments |-> {0},
            len |-> [s \in {0} |-> 0], flushed |-> 0, writer |-> FALSE,
            write_seg |-> 0, write_off |-> 0, write_seg_count |-> 0,
            cursor |-> Start, peek |-> Start, count |-> 0, bytes |-> 0]
  /\ cursor_file = Start
  /\ phase = "up" /\ lock = "free"
  /\ incoming = NoEvent /\ arrived = 0
  /\ worker = "waiting" /\ batch = {} /\ saved = Start
  /\ faults = 0 /\ restarts = 0
  /\ stored = {} /\ refused = {} /\ evicted = {}
  /\ lost = {} /\ sent = {} /\ confirmed = {}

(* A step in which an operation of kind k fails, or none does.             *)
Fault(k) ==
  IF k = "none" THEN UNCHANGED faults
  ELSE k \in Faults /\ faults < MaxFaults /\ faults' = faults + 1

(* ---- the router task: run_router, push_blocking, push ----------------- *)

Arrive ==
  /\ Up /\ incoming = NoEvent /\ arrived < MaxEvents
  /\ arrived' = arrived + 1
  /\ \E n \in Lens : incoming' = [id |-> arrived + 1, len |-> n]
  /\ UNCHANGED <<q, cursor_file, phase, lock, worker, batch, saved, faults,
                 restarts, ghosts>>

Pushing == Up /\ incoming # NoEvent /\ lock \in {"free", "push"}

PushReturns ==
  /\ incoming' = NoEvent /\ lock' = "free"
  /\ UNCHANGED <<cursor_file, phase, arrived, worker, batch, saved, restarts,
                 evicted, sent, confirmed>>

(* The record goes to the writer's buffer, alone or after what it held was *)
(* written out, or straight to the file; a full segment is then rolled.  A *)
(* roll that fails makes push return an error for an event it has stored.  *)
Push ==
  /\ Pushing /\ Fits
  /\ \E f \in {q.flushed, q.write_off, q.write_off + incoming.len} :
       LET pushed == AppendRecord(q, incoming.id, incoming.len, f) IN
       \E r \in IF pushed.write_off < SegBytes
                  THEN {[inner |-> pushed, fault |-> "none"]}
                  ELSE RollSegment(pushed) :
         /\ q' = r.inner
         /\ Fault(r.fault)
         /\ refused' = IF r.fault = "none" THEN refused
                                           ELSE refused \cup {incoming.id}
         /\ lost' = lost \cup Ids(pushed.recs \ r.inner.recs)
  /\ stored' = stored \cup {incoming.id}
  /\ PushReturns

(* write_all fails, having written out some of the earlier records.        *)
PushWriteFails ==
  /\ Pushing /\ Fits
  /\ Fault("write")
  /\ \E f \in Boundaries(q) :
       LET kept == ReconcileWriteSegment(q, f) IN
       /\ q' \in {NewSegment(kept)}
                   \cup (IF "create" \in Faults THEN {kept} ELSE {})
       /\ lost' = lost \cup Ids(q.recs \ kept.recs)
  /\ refused' = refused \cup {incoming.id}
  /\ UNCHANGED stored
  /\ PushReturns

(* The write segment cannot be opened for appending.                       *)
PushOpenFails ==
  /\ Pushing /\ Fits /\ ~q.writer
  /\ Fault("open")
  /\ refused' = refused \cup {incoming.id}
  /\ UNCHANGED <<q, stored, lost>>
  /\ PushReturns

PushDropNewest ==
  /\ Pushing /\ ~Fits /\ q.policy = "drop_newest"
  /\ refused' = refused \cup {incoming.id}
  /\ UNCHANGED <<q, faults, stored, lost>>
  /\ PushReturns

(* One turn of push's loop under drop_oldest; the mutex stays held.        *)
PushDropOldest ==
  /\ Pushing /\ ~Fits /\ q.policy = "drop_oldest"
  /\ \E oldest \in q.segments :
       /\ IsOldest(oldest, q.segments)
       /\ LET i == IF oldest = q.write_seg THEN NewSegment(q) ELSE q IN
          \E next \in i.segments :
            /\ IsOldest(next, i.segments \ {oldest})
            /\ q' = EvictSegment(i, oldest, next)
            /\ evicted' = evicted \cup
                 Ids({r \in Unread(i, i.cursor) : r.seg = oldest})
  /\ lock' = "push"
  /\ UNCHANGED <<cursor_file, phase, incoming, arrived, worker, batch, saved,
                 faults, restarts, stored, refused, lost, sent, confirmed>>

(* push_blocking sees the cancellation while it waits for space.           *)
PushCancelled ==
  /\ Pushing /\ ~Fits /\ q.policy = "block" /\ Stopping
  /\ refused' = refused \cup {incoming.id}
  /\ UNCHANGED <<q, faults, stored, lost>>
  /\ PushReturns

(* The only segment has to be rolled before it is dropped, and is not.     *)
PushDropOldestFails ==
  /\ Pushing /\ ~Fits /\ q.policy = "drop_oldest"
  /\ IsOldest(q.write_seg, q.segments)
  /\ \E r \in RollSegment(q) :
       /\ r.fault # "none"
       /\ Fault(r.fault)
       /\ q' = r.inner
       /\ lost' = lost \cup Ids(q.recs \ r.inner.recs)
  /\ refused' = refused \cup {incoming.id}
  /\ UNCHANGED stored
  /\ PushReturns

Router == Push \/ PushDropNewest \/ PushDropOldest \/ PushCancelled

(* ---- the output worker: OutputWorker::run and the queue's read side --- *)

WriteEnd == [seg |-> q.write_seg, off |-> q.write_off]
(* Variant: data is looked for only behind the peek position's segment.    *)
HasDataElsewhere == q.peek.seg # q.write_seg /\ q.count > 0

HasData == q.peek # WriteEnd /\ q.count > 0

Worker(from, to) ==
  /\ Up /\ worker = from /\ worker' = to
  /\ UNCHANGED <<incoming, arrived, restarts, stored, refused, evicted,
                 lost>>

WaitData ==
  /\ lock = "free" /\ HasData /\ phase = "up"
  /\ Worker("waiting", "peeking")
  /\ UNCHANGED <<q, cursor_file, phase, lock, batch, saved, faults, sent,
                 confirmed>>

(* The batch ends after max records, where the byte budget refuses the next *)
(* one, or at the end of what the flush made readable.                     *)
PeekTo(f, p) ==
  LET got == {r \in OnDisk(q, f) : From(r, q.peek) /\ ~From(r, p)}
      left == {r \in OnDisk(q, f) : From(r, p)}
  IN /\ Cardinality(got) =< BatchMax
     /\ q' = [q EXCEPT !.flushed = f, !.peek = p]
     /\ batch' = Ids(got)
     /\ \/ /\ left = {} /\ Cardinality(got) < BatchMax
           /\ p = [seg |-> q.write_seg, off |-> f]
        \/ \E r \in got :
             /\ p = [seg |-> r.seg, off |-> r.end]
             /\ Cardinality(got) = BatchMax \/ \E x \in left : x.seg = r.seg
        \/ /\ got # {} /\ Cardinality(got) < BatchMax
           /\ \E r \in left : p = [seg |-> r.seg, off |-> 0]

PeekFrom(state) ==
  /\ lock = "free"
  /\ \E f \in Boundaries(q) :
       /\ Fault(IF f = q.write_off THEN "none" ELSE "flush")
       /\ \E s \in q.segments :
            \E o \in {0, f} \cup {r.end : r \in q.recs} :
              PeekTo(f, [seg |-> s, off |-> o])
  /\ Worker(state, IF batch' = {} THEN "waiting" ELSE "sending")
  /\ UNCHANGED <<cursor_file, lock, saved, sent, confirmed>>

PeekBatch == PeekFrom("peeking") /\ UNCHANGED phase

(* Cancelled: one attempt to flush a batch, whatever count says.           *)
FinalPeek ==
  /\ phase = "cancelled" /\ phase' = "flushing"
  /\ PeekFrom("waiting")

SendOk ==
  /\ Worker("sending", "delivered")
  /\ sent' = sent \cup batch
  /\ UNCHANGED <<q, cursor_file, phase, lock, batch, saved, faults, confirmed>>

(* Events are put on the wire in order, so what a failed send delivered is *)
(* a prefix of the batch; none, some or all of it.                         *)
SendFails ==
  /\ Worker("sending", "failed")
  /\ \E k \in batch \cup {0} : sent' = sent \cup {b \in batch : b =< k}
  /\ UNCHANGED <<q, cursor_file, phase, lock, batch, saved, faults, confirmed>>

(* Variant: a failed batch is given up instead of read again.              *)
ResetPeekForgets ==
  /\ lock = "free"
  /\ Worker("failed", "waiting")
  /\ batch' = {}
  /\ UNCHANGED <<q, cursor_file, phase, lock, saved, faults, sent, confirmed>>

ResetPeek ==
  /\ lock = "free"
  /\ Worker("failed", "waiting")
  /\ q' = [q EXCEPT !.peek = q.cursor]
  /\ batch' = {}
  /\ UNCHANGED <<cursor_file, phase, lock, saved, faults, sent, confirmed>>

(* ack(): the cursor moves and the consumed segments go one by one, all in *)
(* one critical section; cursor.json is written after it.                  *)
Ack ==
  /\ lock = "free" /\ lock' = "ack"
  /\ Worker("delivered", "unlinking")
  /\ q' = [q EXCEPT !.cursor = q.peek,
                    !.count = SatSub(@, Cardinality(batch))]
  /\ batch' = {}
  /\ UNCHANGED <<cursor_file, phase, saved, faults, sent, confirmed>>

(* Variant: ack frees no segment at all.                                   *)
ConsumedNone == {}

Consumed == {s \in q.segments : s < q.cursor.seg /\ s # q.write_seg}

AckUnlink ==
  /\ Worker("unlinking", "unlinking")
  /\ \E s \in Consumed : IsOldest(s, Consumed) /\ q' = DropSegment(q, s)
  /\ UNCHANGED <<cursor_file, phase, lock, batch, saved, faults, sent,
                 confirmed>>

AckUnlock ==
  /\ Worker("unlinking", "saving")
  /\ Consumed = {}
  /\ saved' = q.cursor
  /\ lock' = "free"
  /\ UNCHANGED <<q, cursor_file, phase, batch, faults, sent, confirmed>>

SaveCursor ==
  /\ Worker("saving", "waiting")
  /\ cursor_file' = saved
  /\ confirmed' = confirmed \cup (sent \ Ids(Unread(q, saved)))
  /\ UNCHANGED <<q, phase, lock, batch, saved, faults, sent>>

SaveCursorFails ==
  /\ Worker("saving", "waiting")
  /\ Fault("cursor")
  /\ UNCHANGED <<q, cursor_file, phase, lock, batch, saved, sent, confirmed>>

Consumer == WaitData \/ PeekBatch \/ FinalPeek \/ ResetPeek
              \/ Ack \/ AckUnlink \/ AckUnlock \/ SaveCursor

(* oldest_age_secs, which /api/buffer asks: it reads a segment by path and *)
(* so flushes first, an error of which is swallowed.                       *)
OldestAge ==
  /\ Up /\ lock = "free" /\ q.count > 0 /\ q.flushed < q.write_off
  /\ \E f \in Boundaries(q) :
       /\ Fault(IF f = q.write_off THEN "none" ELSE "flush")
       /\ q' = [q EXCEPT !.flushed = f]
  /\ UNCHANGED <<cursor_file, phase, lock, incoming, arrived, worker, batch,
                 saved, restarts, ghosts>>

(* ---- the process ------------------------------------------------------ *)

(* The queue is closed with f bytes of the write segment in its file; its  *)
(* memory and that of both tasks is gone, with the event the router holds. *)
Down(f) ==
  /\ Up /\ phase' = "down"
  /\ q' = [q EXCEPT !.recs = OnDisk(q, f),
                    !.len = [@ EXCEPT ![q.write_seg] = f],
                    !.flushed = f]
  /\ lock' = "free" /\ worker' = "waiting" /\ batch' = {}
  /\ incoming' = NoEvent
  /\ lost' = lost \cup Ids(q.recs \ OnDisk(q, f)) \cup
       (IF incoming = NoEvent THEN {} ELSE {incoming.id})
  /\ UNCHANGED <<cursor_file, arrived, saved, stored, refused, evicted, sent,
                 confirmed>>

Restart == restarts < MaxRestarts /\ restarts' = restarts + 1

Crash == Down(q.flushed) /\ Restart /\ UNCHANGED faults

Cancel ==
  /\ phase = "up" /\ phase' = "cancelled"
  /\ Restart
  /\ UNCHANGED <<q, cursor_file, lock, incoming, arrived, worker, batch, saved,
                 faults, ghosts>>

(* The tasks have ended or their eight seconds are over.  Dropping the     *)
(* BufWriter flushes it, an error there being swallowed.                   *)
Stop ==
  /\ Stopping /\ lock = "free"
  /\ \E f \in Boundaries(q) :
       Down(f) /\ Fault(IF f = q.write_off THEN "none" ELSE "flush")
  /\ UNCHANGED restarts

Open ==
  /\ phase = "down" /\ phase' = "up"
  /\ \E w \in q.segments, s \in q.segments, o \in {0, cursor_file.off} :
       LET d == [seg |-> s, off |-> o] IN
       /\ IsNewest(w, q.segments)
       /\ Resume(q, cursor_file, d)
       /\ q' = [q EXCEPT !.write_seg = w,
                         !.write_off = q.len[w],
                         !.flushed = q.len[w],
                         !.write_seg_count =
                            Cardinality({r \in q.recs : r.seg = w}),
                         !.writer = FALSE,
                         !.cursor = d,
                         !.peek = d,
                         !.count = Cardinality(Unread(q, d)),
                         !.bytes = TotalLen(q)]
  /\ UNCHANGED <<cursor_file, lock, incoming, arrived, worker, batch, saved,
                 faults, restarts, ghosts>>

(* Nothing is left to do: keeps a finished behaviour apart from a wedge.   *)
Rest ==
  /\ phase = "up" /\ arrived = MaxEvents /\ incoming = NoEvent
  /\ worker = "waiting" /\ Unread(q, q.cursor) = {}
  /\ UNCHANGED vars

Next ==
  \/ Arrive
  \/ Router
  \/ PushWriteFails \/ PushOpenFails \/ PushDropOldestFails
  \/ Consumer
  \/ SendOk \/ SendFails \/ SaveCursorFails
  \/ OldestAge
  \/ Crash \/ Cancel \/ Stop \/ Open
  \/ Rest

Spec == Init /\ [][Next]_vars

(* The runtime keeps polling both tasks (push_blocking and wait_data wake  *)
(* every 250 and 500 ms whatever is notified), stop() gives each task at   *)
(* most eight seconds, a service manager restarts the process, and a       *)
(* destination that is retried for ever accepts a batch some time.         *)
FairSpec ==
  /\ Spec
  /\ WF_vars(Router) /\ WF_vars(Consumer) /\ WF_vars(Stop) /\ WF_vars(Open)
  /\ SF_vars(SendOk)

-----------------------------------------------------------------------------
(* PROPERTIES *)

(* Every variable has its type; the queue's fields are finite.             *)
TypeOK ==
  /\ InnerType(q)
  /\ cursor_file \in Cursor /\ saved \in Cursor
  /\ phase \in Phases /\ lock \in {"free", "push", "ack"}
  /\ incoming \in {NoEvent} \cup [id : EventIds, len : Lens]
  /\ arrived \in 0 .. MaxEvents
  /\ worker \in WorkerStates
  /\ batch \subseteq Nat /\ IsFiniteSet(batch)
  /\ faults \in 0 .. MaxFaults /\ restarts \in 0 .. MaxRestarts
  /\ stored \cup refused \cup evicted \cup lost \cup sent \cup confirmed
       \subseteq Nat

(* The positions at which a restart could resume reading.                  *)
ResumePoints ==
  {d \in [seg : q.segments, off : {0, cursor_file.off}] :
     Resume(q, cursor_file, d)}

(* An event the queue accepted is never silently gone: it has reached the  *)
(* destination, or was evicted or destroyed, or a reader at the cursor -   *)
(* the one in memory, and the one a restart would resume at - still gets   *)
(* it.  (push, peek_batch, ack, drop_oldest_segment, open.)                *)
Accounted(c) ==
  stored \subseteq sent \cup evicted \cup lost \cup Ids(Unread(q, c))
NoSilentLoss ==
  /\ Up => Accounted(q.cursor)
  /\ \A d \in ResumePoints : Accounted(d)

(* After a crash at most one batch is sent a second time                   *)
(* (README.md, "after a crash the last un-acked batch may be re-sent").    *)
DuplicateWindow ==
  \A d \in ResumePoints :
    Cardinality(sent \cap Ids(Unread(q, d))) =< BatchMax

(* What the queue promises (module Delivery): an event is accepted when    *)
(* push has stored it, and owed for as long as a reader at the cursor gets *)
(* it; none reaches the destination before an older one that is owed; and  *)
(* open brings back what was sent and is not confirmed, and nothing else.  *)
Promise == INSTANCE Delivery WITH
  Events <- EventIds, pending <- Ids(Unread(q, q.cursor)), delivered <- sent,
  confirmed <- confirmed, discarded <- evicted \cup lost
Delivers == Promise!Spec

(* "Events between cursor and end of queue": count is what a reader at the *)
(* cursor would find (Inner.count).                                        *)
ReadableCount == q.count = Cardinality(Unread(q, q.cursor))
CountExact == Up /\ q.policy # "drop_oldest" => ReadableCount

(* The comment on Inner.write_off: write_off is the write segment's share  *)
(* of bytes at all times, and write_seg_count its number of records, which *)
(* is what the arithmetic of reconcile_write_segment relies on.            *)
Lockstep ==
  Up => /\ q.write_off = q.len[q.write_seg]
        /\ q.bytes = TotalLen(q)
        /\ q.write_seg_count = Cardinality({r \in q.recs : r.seg = q.write_seg})

(* buffer.max_size_mb bounds the segment files, whatever fails.            *)
CapRespected == TotalLen(q) =< MaxBytes

(* cursor.json never goes back, whichever saves fail and whatever          *)
(* drop_oldest does between an ack and its save.                           *)
NotBefore(c, d) == d.seg < c.seg \/ (d.seg = c.seg /\ d.off =< c.off)
SavedCursorAdvances == [][NotBefore(cursor_file', cursor_file)]_vars

(* Liveness: an accepted event eventually reaches the destination unless   *)
(* it is evicted or destroyed.                                             *)
EveryStoredEventLeaves ==
  \A e \in EventIds : (e \in stored) ~> (e \in sent \cup evicted \cup lost)

(* Liveness: no event stays with the router for ever (push_blocking).      *)
EveryPushReturns == []<>(incoming = NoEvent)
=============================================================================
