--------------------------- MODULE DiskQueueInner ---------------------------
(***************************************************************************)
(* The state of a disk queue and what the functions of src/buffer.rs do to *)
(* it: struct Inner together with the segment files it manages, as one     *)
(* record i, and the functions that turn one such record into the next.    *)
(* The operators marked Variant are bugs these functions do not have, kept *)
(* to see that the properties of DiskQueue would find them.                *)
(*                                                                         *)
(*   policy    what push does when the queue is full                       *)
(*   recs      the records in the segment files and in the write buffer    *)
(*   segments  the numbers of the segment files                            *)
(*   len       the length of each, counting what is still buffered         *)
(*   flushed   how much of the write segment has reached its file          *)
(*   writer    whether the write segment is open for appending             *)
(*   write_seg, write_off, write_seg_count, cursor, peek, count, bytes     *)
(*             as in the code                                              *)
(*                                                                         *)
(* Data abstraction: a record is its event's identity, the segment it lies *)
(* in and the byte offset at which it ends, so a set of records determines *)
(* the contents of every segment file.  Torn records are not kept: every   *)
(* reader takes one for the end of the file and every repair truncates it. *)
(***************************************************************************)
EXTENDS Integers, FiniteSets

Record == [id : Nat, seg : Nat, end : Nat]
Cursor == [seg : Nat, off : Nat]
Start == [seg |-> 0, off |-> 0]

AllPolicies == {"block", "drop_newest", "drop_oldest"}

InnerType(i) ==
  /\ i \in [policy : AllPolicies, recs : SUBSET Record, segments : SUBSET Nat,
            len : [i.segments -> Nat], flushed : Nat, writer : BOOLEAN,
            write_seg : Nat, write_off : Nat, write_seg_count : Nat,
            cursor : Cursor, peek : Cursor, count : Nat, bytes : Nat]
  /\ IsFiniteSet(i.recs) /\ IsFiniteSet(i.segments)
  /\ i.write_seg \in i.segments

(* Variant: the subtraction of the counters does not saturate.             *)
SubWraps(a, b) == a - b

SatSub(a, b) == IF a > b THEN a - b ELSE 0

Ids(R) == {r.id : r \in R}

(* Record r lies at or behind position c, i.e. a reader at c returns it.   *)
From(r, c) == c.seg < r.seg \/ (c.seg = r.seg /\ c.off < r.end)

Unread(i, c) == {r \in i.recs : From(r, c)}

(* Records whose bytes have reached a file, when f bytes of the write      *)
(* segment have.                                                           *)
OnDisk(i, f) == {r \in i.recs : r.seg = i.write_seg => r.end =< f}

(* How much of the write segment a flush that may fail can leave on disk.  *)
Boundaries(i) ==
  {i.flushed, i.write_off} \cup
  {r.end : r \in {x \in i.recs : x.seg = i.write_seg /\ i.flushed < x.end}}

(* The bytes of the segment files S, each as its file and its place there. *)
FileBytes(len, S) == UNION {{s} \X (1 .. len[s]) : s \in S}
TotalLen(i) == Cardinality(FileBytes(i.len, i.segments))

AppendRecord(i, id, n, f) ==
  LET end == i.write_off + n IN
  [i EXCEPT !.recs = @ \cup {[id |-> id, seg |-> i.write_seg, end |-> end]},
            !.len = [@ EXCEPT ![i.write_seg] = end],
            !.flushed = f,
            !.write_off = end,
            !.write_seg_count = @ + 1,
            !.writer = TRUE,
            !.count = @ + 1,
            !.bytes = @ + n]

(* The write buffer is thrown away and the segment cut to the f bytes that *)
(* can be read back.                                                       *)
DiscardBuffer(i, f) ==
  [i EXCEPT !.recs = OnDisk(i, f),
            !.len = [@ EXCEPT ![i.write_seg] = f],
            !.flushed = f,
            !.write_off = f,
            !.write_seg_count =
               Cardinality({r \in OnDisk(i, f) : r.seg = i.write_seg}),
            !.writer = FALSE]

(* ... and the counters are derived again from what was found there.       *)
LostCount(i, j) == SatSub(i.write_seg_count, j.write_seg_count)

(* Variants: one of the two counters is left as it was.                    *)
ReconcileKeepsCount(i, f) ==
  [DiscardBuffer(i, f) EXCEPT !.bytes = SatSub(@, i.write_off) + f]

ReconcileKeepsBytes(i, f) ==
  LET j == DiscardBuffer(i, f) IN
  [j EXCEPT !.count = SatSub(@, LostCount(i, j))]

ReconcileWriteSegment(i, f) ==
  LET j == DiscardBuffer(i, f) IN
  [j EXCEPT !.count = SatSub(@, LostCount(i, j)),
            !.bytes = SatSub(@, i.write_off) + f]

NewSegment(i) ==
  LET next == i.write_seg + 1 IN
  [i EXCEPT !.segments = @ \cup {next},
            !.len = [s \in i.segments \cup {next} |->
                       IF s = next THEN 0 ELSE i.len[s]],
            !.flushed = 0,
            !.write_seg = next,
            !.write_off = 0,
            !.write_seg_count = 0,
            !.writer = FALSE]

CloseWriter(i) == [i EXCEPT !.flushed = i.write_off, !.writer = FALSE]

(* The ways roll_segment can end: in a new write segment, with the buffer  *)
(* discarded because its flush failed, or with no new file created.        *)
RollSegment(i) ==
  {[inner |-> NewSegment(i), fault |-> "none"]}
    \cup {[inner |-> ReconcileWriteSegment(i, f), fault |-> "flush"] :
             f \in Boundaries(i) \ {i.write_off}}
    \cup {[inner |-> CloseWriter(i), fault |-> "create"]}

DropSegment(i, s) ==
  [i EXCEPT !.recs = {r \in @ : r.seg # s},
            !.segments = @ \ {s},
            !.len = [t \in i.segments \ {s} |-> i.len[t]],
            !.bytes = SatSub(@, i.len[s])]

(* drop_oldest_segment after its roll: cursor and peek leave the segment.  *)
EvictSegment(i, oldest, next) ==
  LET gone == {r \in Unread(i, i.cursor) : r.seg = oldest}
      to == IF i.cursor.seg =< oldest THEN [seg |-> next, off |-> 0]
                                      ELSE i.cursor
  IN [DropSegment(i, oldest) EXCEPT
        !.count = SatSub(@, Cardinality(gone)),
        !.cursor = to,
        !.peek = IF @.seg =< oldest THEN to ELSE @]

IsOldest(s, S) == s \in S /\ \A t \in S : s =< t
IsNewest(s, S) == s \in S /\ \A t \in S : t =< s

(* Variants: the saved offset is ignored, or kept for another segment.     *)
ResumeAtStart(i, c, d) ==
  /\ d.off = 0
  /\ IF c.seg \in i.segments THEN d.seg = c.seg ELSE IsOldest(d.seg, i.segments)

ResumeKeepsOffset(i, c, d) ==
  /\ d.off = c.off
  /\ \/ IsOldest(d.seg, {s \in i.segments : c.seg =< s})
     \/ (\A s \in i.segments : s < c.seg) /\ IsNewest(d.seg, i.segments)

(* Where open() resumes when cursor.json holds c: there if the segment is  *)
(* still present, else at the start of the next surviving one.             *)
Resume(i, c, d) ==
  \/ c.seg \in i.segments /\ d = c
  \/ /\ c.seg \notin i.segments
     /\ d.off = 0
     /\ IsOldest(d.seg, {s \in i.segments : c.seg < s})
  \/ /\ \A s \in i.segments : s < c.seg
     /\ d.off = 0
     /\ IsNewest(d.seg, i.segments)
=============================================================================
