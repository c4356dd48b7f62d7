-------------------------- MODULE DiskQueue_proofs --------------------------
(***************************************************************************)
(* The type invariant of DiskQueue, and that no event is silently lost, for *)
(* every policy, size and bound, whatever fails and wherever the process   *)
(* ends.                                                                   *)
(*                                                                         *)
(* First that each operator of DiskQueueInner maps a well-typed queue to a *)
(* well-typed queue, one lemma per action (with the fields of the record   *)
(* that it changes named by DEFINE), and the theorem; then in the same     *)
(* order the shape of the queue that NoSilentLoss needs; then that the     *)
(* queue implements Delivery, with what that promise entails, how much a   *)
(* restart resends, and that the queue's counters agree with its files.    *)
(***************************************************************************)
EXTENDS DiskQueue, FiniteSetTheorems, TLAPS

-----------------------------------------------------------------------------
(* The operators of DiskQueueInner keep the type of the queue's state.     *)

LEMMA SatSubType == \A a, b \in Nat : SatSub(a, b) \in Nat
  BY DEF SatSub

LEMMA SubsetFinite ==
  ASSUME NEW i, InnerType(i), NEW R, R \subseteq i.recs
  PROVE  R \in SUBSET Record /\ IsFiniteSet(R) /\ Cardinality(R) \in Nat
  BY FS_Subset, FS_CardinalityType DEF InnerType

(* The bytes of the files together are the sum of the files' lengths.      *)
LEMMA FileLength ==
  ASSUME NEW s, NEW n \in Nat
  PROVE  IsFiniteSet({s} \X (1 .. n)) /\ Cardinality({s} \X (1 .. n)) = n
<1>1. IsFiniteSet({s}) /\ Cardinality({s}) = 1
  BY FS_Singleton
<1>2. IsFiniteSet(1 .. n) /\ Cardinality(1 .. n) = n
  BY FS_Interval
<1> DEFINE T == 1 .. n
<1> HIDE DEF T
<1>3. IsFiniteSet({s} \X T) /\ Cardinality({s} \X T) = Cardinality({s}) * Cardinality(T)
  BY <1>1, <1>2, FS_Product, Zenon DEF T
<1>4. Cardinality({s}) * Cardinality(T) = n
  BY <1>1, <1>2 DEF T
<1>5. QED
  BY <1>3, <1>4 DEF T

LEMMA FileBytesFinite ==
  ASSUME NEW S, IsFiniteSet(S), NEW len, \A s \in S : len[s] \in Nat
  PROVE  IsFiniteSet(FileBytes(len, S)) /\ Cardinality(FileBytes(len, S)) \in Nat
<1> DEFINE T == {{s} \X (1 .. len[s]) : s \in S}
           g == [s \in S |-> {s} \X (1 .. len[s])]
<1>1. IsFiniteSet(T)
  <2>1. g \in Surjection(S, T)
    BY DEF Surjection
  <2>2. QED
    BY <2>1, FS_Surjection
<1>2. \A t \in T : IsFiniteSet(t)
  <2> SUFFICES ASSUME NEW s \in S PROVE IsFiniteSet({s} \X (1 .. len[s]))
    OBVIOUS
  <2>1. len[s] \in Nat
    OBVIOUS
  <2>2. QED
    BY <2>1, FileLength, Zenon
<1>3. QED
  BY <1>1, <1>2, FS_UNION, FS_CardinalityType DEF FileBytes

LEMMA FileBytesAdd ==
  ASSUME NEW S, IsFiniteSet(S), NEW len, NEW s, s \notin S,
         \A t \in S \cup {s} : len[t] \in Nat
  PROVE  Cardinality(FileBytes(len, S \cup {s})) =
           Cardinality(FileBytes(len, S)) + len[s]
<1> DEFINE A == FileBytes(len, S)
           B == {s} \X (1 .. len[s])
<1>1. FileBytes(len, S \cup {s}) = A \cup B
  BY DEF FileBytes
<1>2. A \cap B = {}
  BY DEF FileBytes
<1>3. IsFiniteSet(A) /\ Cardinality(A) \in Nat
  BY FileBytesFinite
<1>4. IsFiniteSet(B) /\ Cardinality(B) = len[s]
  BY FileLength
<1> HIDE DEF A, B
<1>5. Cardinality(A \cup B) = Cardinality(A) + Cardinality(B) - Cardinality({})
  BY <1>2, <1>3, <1>4, FS_Union
<1>6. Cardinality({}) = 0 /\ len[s] \in Nat
  BY FS_EmptySet
<1>7. Cardinality(A \cup B) = Cardinality(A) + len[s]
  BY <1>3, <1>4, <1>5, <1>6
<1>8. QED
  BY <1>1, <1>7, Zenon DEF A

LEMMA TotalType ==
  ASSUME NEW i, InnerType(i)
  PROVE  TotalLen(i) \in Nat
  BY FileBytesFinite DEF InnerType, TotalLen

(* The files other than s.                                                 *)
Others(i, s) == Cardinality(FileBytes(i.len, i.segments \ {s}))

LEMMA TotalParts ==
  ASSUME NEW i, InnerType(i), NEW s \in i.segments
  PROVE  Others(i, s) \in Nat /\ TotalLen(i) = Others(i, s) + i.len[s]
<1> DEFINE S == i.segments \ {s}
<1>1. IsFiniteSet(S) /\ S \cup {s} = i.segments
  BY FS_RemoveElement DEF InnerType
<1>2. \A t \in S \cup {s} : i.len[t] \in Nat
  BY <1>1 DEF InnerType
<1> HIDE DEF S
<1>3. Cardinality(FileBytes(i.len, S \cup {s})) = Cardinality(FileBytes(i.len, S)) + i.len[s]
  <2>1. s \notin S
    BY DEF S
  <2>2. QED
    BY <1>1, <1>2, <2>1, FileBytesAdd
<1>4. Cardinality(FileBytes(i.len, S)) \in Nat
  BY <1>1, <1>2, FileBytesFinite
<1>5. QED
  BY <1>1, <1>3, <1>4 DEF TotalLen, Others, S

LEMMA SameFiles ==
  ASSUME NEW S, NEW l, NEW m, \A s \in S : l[s] = m[s]
  PROVE  FileBytes(l, S) = FileBytes(m, S)
  BY DEF FileBytes

LEMMA AppendType ==
  ASSUME NEW i, InnerType(i), NEW id \in Nat, NEW n \in Nat, NEW f \in Nat
  PROVE  InnerType(AppendRecord(i, id, n, f))
<1> DEFINE end == i.write_off + n
           R == i.recs \cup {[id |-> id, seg |-> i.write_seg, end |-> end]}
           l == [i.len EXCEPT ![i.write_seg] = end]
           c == i.write_seg_count + 1
           k == i.count + 1
           b == i.bytes + n
<1>1. end \in Nat /\ c \in Nat /\ k \in Nat /\ b \in Nat
  BY DEF InnerType
<1>2. R \in SUBSET Record /\ l \in [i.segments -> Nat]
  BY <1>1 DEF InnerType, Record
<1>3. IsFiniteSet(R)
  BY FS_AddElement DEF InnerType
<1>4. AppendRecord(i, id, n, f) =
        [i EXCEPT !.recs = R, !.len = l, !.flushed = f, !.write_off = end,
                  !.write_seg_count = c, !.writer = TRUE, !.count = k,
                  !.bytes = b]
  BY DEF AppendRecord
<1> HIDE DEF end, R, l, c, k, b
<1>5. QED
  BY <1>1, <1>2, <1>3, <1>4 DEF InnerType

LEMMA DiscardType ==
  ASSUME NEW i, InnerType(i), NEW f \in Nat
  PROVE  InnerType(DiscardBuffer(i, f))
<1> DEFINE R == OnDisk(i, f)
           l == [i.len EXCEPT ![i.write_seg] = f]
           c == Cardinality({r \in OnDisk(i, f) : r.seg = i.write_seg})
<1>1. R \in SUBSET Record /\ IsFiniteSet(R)
  BY SubsetFinite DEF OnDisk
<1>2. c \in Nat
  <2>1. {r \in OnDisk(i, f) : r.seg = i.write_seg} \subseteq i.recs
    BY DEF OnDisk
  <2>2. QED  BY <2>1, SubsetFinite
<1>3. l \in [i.segments -> Nat]
  BY DEF InnerType
<1>4. DiscardBuffer(i, f) =
        [i EXCEPT !.recs = R, !.len = l, !.flushed = f, !.write_off = f,
                  !.write_seg_count = c, !.writer = FALSE]
  BY DEF DiscardBuffer
<1> HIDE DEF R, l, c
<1>5. QED
  BY <1>1, <1>2, <1>3, <1>4 DEF InnerType

LEMMA ReconcileType ==
  ASSUME NEW i, InnerType(i), NEW f \in Nat
  PROVE  InnerType(ReconcileWriteSegment(i, f))
<1> DEFINE j == DiscardBuffer(i, f)
           k == SatSub(j.count, LostCount(i, j))
           b == SatSub(j.bytes, i.write_off) + f
<1>1. InnerType(j)
  BY DiscardType
<1>2. k \in Nat /\ b \in Nat
  <2>1. j.count \in Nat /\ j.bytes \in Nat /\ j.write_seg_count \in Nat
    <3> HIDE DEF j
    <3> QED  BY <1>1 DEF InnerType
  <2>2. i.write_off \in Nat /\ i.write_seg_count \in Nat
    BY DEF InnerType
  <2>3. LostCount(i, j) \in Nat
    BY <2>1, <2>2, SatSubType DEF LostCount
  <2>4. QED
    <3> HIDE DEF j
    <3> QED  BY <2>1, <2>2, <2>3 DEF SatSub
<1>3. ReconcileWriteSegment(i, f) = [j EXCEPT !.count = k, !.bytes = b]
  BY DEF ReconcileWriteSegment
<1> HIDE DEF j, k, b
<1>4. QED
  BY <1>1, <1>2, <1>3 DEF InnerType

LEMMA NewSegmentType ==
  ASSUME NEW i, InnerType(i)
  PROVE  InnerType(NewSegment(i))
<1> DEFINE next == i.write_seg + 1
           S == i.segments \cup {next}
           l == [s \in S |-> IF s = next THEN 0 ELSE i.len[s]]
<1>1. next \in Nat /\ S \in SUBSET Nat /\ next \in S
  BY DEF InnerType
<1>2. IsFiniteSet(S)
  BY FS_AddElement DEF InnerType
<1>3. l \in [S -> Nat]
  BY DEF InnerType
<1>4. NewSegment(i) =
        [i EXCEPT !.segments = S, !.len = l, !.flushed = 0,
                  !.write_seg = next, !.write_off = 0,
                  !.write_seg_count = 0, !.writer = FALSE]
  BY DEF NewSegment
<1> HIDE DEF next, S, l
<1> DEFINE j == [i EXCEPT !.segments = S, !.len = l, !.flushed = 0,
                  !.write_seg = next, !.write_off = 0,
                  !.write_seg_count = 0, !.writer = FALSE]
<1>5. /\ j.recs = i.recs /\ j.segments = S /\ j.write_seg = next
  BY DEF InnerType
<1>6. j \in [policy : AllPolicies, recs : SUBSET Record, segments : SUBSET Nat,
             len : [S -> Nat], flushed : Nat, writer : BOOLEAN,
             write_seg : Nat, write_off : Nat, write_seg_count : Nat,
             cursor : Cursor, peek : Cursor, count : Nat, bytes : Nat]
  BY <1>1, <1>3 DEF InnerType
<1>7. InnerType(j)
  <2> HIDE DEF j
  <2> QED  BY <1>1, <1>2, <1>5, <1>6 DEF InnerType
<1>8. QED
  BY <1>4, <1>7

LEMMA CloseWriterType ==
  ASSUME NEW i, InnerType(i)
  PROVE  InnerType(CloseWriter(i))
  BY DEF InnerType, CloseWriter

LEMMA DropSegmentType ==
  ASSUME NEW i, InnerType(i), NEW s \in i.segments, s # i.write_seg
  PROVE  InnerType(DropSegment(i, s))
<1> DEFINE R == {r \in i.recs : r.seg # s}
           S == i.segments \ {s}
           l == [t \in S |-> i.len[t]]
           b == SatSub(i.bytes, i.len[s])
<1>1. R \in SUBSET Record /\ IsFiniteSet(R)
  BY SubsetFinite
<1>2. S \in SUBSET Nat /\ IsFiniteSet(S) /\ i.write_seg \in S
  BY FS_Subset DEF InnerType
<1>3. l \in [S -> Nat] /\ b \in Nat
  BY SatSubType DEF InnerType
<1>4. DropSegment(i, s) =
        [i EXCEPT !.recs = R, !.segments = S, !.len = l, !.bytes = b]
  BY DEF DropSegment
<1> HIDE DEF R, S, l, b
<1>5. QED
  BY <1>1, <1>2, <1>3, <1>4 DEF InnerType

LEMMA EvictType ==
  ASSUME NEW i, InnerType(i), NEW s \in i.segments, s # i.write_seg,
         NEW next \in i.segments
  PROVE  InnerType(EvictSegment(i, s, next))
<1> DEFINE gone == {r \in Unread(i, i.cursor) : r.seg = s}
           to == IF i.cursor.seg =< s THEN [seg |-> next, off |-> 0]
                                      ELSE i.cursor
           j == DropSegment(i, s)
           k == SatSub(j.count, Cardinality(gone))
           p == IF j.peek.seg =< s THEN to ELSE j.peek
<1>1. Cardinality(gone) \in Nat
  BY SubsetFinite DEF Unread
<1>2. InnerType(j)
  BY DropSegmentType
<1>3. to \in Cursor
  BY DEF InnerType, Cursor
<1>4. k \in Nat /\ p \in Cursor
  <2> HIDE DEF j, to, gone
  <2> QED  BY <1>1, <1>2, <1>3, SatSubType DEF InnerType
<1>5. EvictSegment(i, s, next) =
        [j EXCEPT !.count = k, !.cursor = to, !.peek = p]
  BY DEF EvictSegment
<1> HIDE DEF gone, to, j, k, p
<1>6. QED
  BY <1>2, <1>3, <1>4, <1>5 DEF InnerType

LEMMA BoundariesType ==
  ASSUME NEW i, InnerType(i)
  PROVE  Boundaries(i) \subseteq Nat
  BY DEF InnerType, Boundaries, Record

LEMMA RollType ==
  ASSUME NEW i, InnerType(i), NEW r \in RollSegment(i)
  PROVE  InnerType(r.inner)
<1>1. CASE r = [inner |-> NewSegment(i), fault |-> "none"]
  BY <1>1, NewSegmentType
<1>2. CASE \E f \in Boundaries(i) :
             r = [inner |-> ReconcileWriteSegment(i, f), fault |-> "flush"]
  BY <1>2, BoundariesType, ReconcileType
<1>3. CASE r = [inner |-> CloseWriter(i), fault |-> "create"]
  BY <1>3, CloseWriterType
<1>4. QED
  BY <1>1, <1>2, <1>3 DEF RollSegment

LEMMA IdsType ==
  ASSUME NEW R, R \subseteq Record
  PROVE  Ids(R) \subseteq Nat
  BY DEF Ids, Record

LEMMA IdsFinite ==
  ASSUME NEW R, IsFiniteSet(R)
  PROVE  IsFiniteSet(Ids(R))
<1> DEFINE f == [r \in R |-> r.id]
<1>1. f \in Surjection(R, Ids(R))
  BY DEF Surjection, Ids
<1>2. QED
  BY <1>1, FS_Surjection

-----------------------------------------------------------------------------
(* Every step keeps the type invariant.                                    *)

LEMMA FaultType ==
  ASSUME TypeOK, NEW k, Fault(k)
  PROVE  faults' \in 0 .. MaxFaults
  BY BoundAssumption DEF TypeOK, Fault

LEMMA IncomingType ==
  ASSUME TypeOK
  PROVE  /\ incoming.id \in Nat /\ incoming.len \in Nat
         /\ incoming # NoEvent => incoming.len > 0
<1>1. \A n \in Lens : n \in Nat /\ n > 0
  BY SizeAssumption
<1>2. CASE incoming = NoEvent
  BY <1>2 DEF NoEvent
<1>3. CASE incoming # NoEvent
  BY <1>1, <1>3 DEF TypeOK, EventIds
<1>4. QED
  BY <1>2, <1>3

LEMMA OffsetsType ==
  ASSUME TypeOK
  PROVE  q.flushed \in Nat /\ q.write_off \in Nat /\ q.recs \in SUBSET Record
  BY DEF TypeOK, InnerType

LEMMA InitType == Init => TypeOK
<1> SUFFICES ASSUME Init PROVE TypeOK
  OBVIOUS
<1>1. IsFiniteSet({}) /\ IsFiniteSet({0})
  BY FS_EmptySet, FS_Singleton
<1>2. InnerType(q)
  <2> PICK p \in Policies :
       q = [policy |-> p, recs |-> {}, segments |-> {0},
            len |-> [s \in {0} |-> 0], flushed |-> 0, writer |-> FALSE,
            write_seg |-> 0, write_off |-> 0, write_seg_count |-> 0,
            cursor |-> Start, peek |-> Start, count |-> 0, bytes |-> 0]
    BY DEF Init
  <2> p \in AllPolicies
    BY PolicyAssumption
  <2> QED
    BY <1>1 DEF InnerType, Start, Cursor
<1>3. QED
  BY <1>1, <1>2, BoundAssumption
     DEF Init, TypeOK, Start, Cursor, Phases, WorkerStates

LEMMA RouterType ==
  ASSUME TypeOK, InnerType(q'), Pushing, PushReturns, NEW k, Fault(k),
         stored' \subseteq stored \cup {incoming.id},
         refused' \subseteq refused \cup {incoming.id},
         NEW L \in SUBSET Record, lost' \subseteq lost \cup Ids(L)
  PROVE  TypeOK'
<1>1. incoming.id \in Nat
  BY DEF TypeOK, Pushing, EventIds
<1>2. Ids(L) \subseteq Nat
  BY IdsType
<1>3. faults' \in 0 .. MaxFaults
  BY FaultType
<1>4. QED
  BY <1>1, <1>2, <1>3 DEF TypeOK, PushReturns

LEMMA PushType == TypeOK /\ Push => TypeOK'
<1> SUFFICES ASSUME TypeOK, Push PROVE TypeOK'
  OBVIOUS
<1>1. PICK f \in {q.flushed, q.write_off, q.write_off + incoming.len} :
       LET pushed == AppendRecord(q, incoming.id, incoming.len, f) IN
       \E r \in IF pushed.write_off < SegBytes
                  THEN {[inner |-> pushed, fault |-> "none"]}
                  ELSE RollSegment(pushed) :
         /\ q' = r.inner
         /\ Fault(r.fault)
         /\ refused' = IF r.fault = "none" THEN refused
                                           ELSE refused \cup {incoming.id}
         /\ lost' = lost \cup Ids(pushed.recs \ r.inner.recs)
  BY DEF Push
<1> DEFINE pushed == AppendRecord(q, incoming.id, incoming.len, f)
<1>2. PICK r \in IF pushed.write_off < SegBytes
                   THEN {[inner |-> pushed, fault |-> "none"]}
                   ELSE RollSegment(pushed) :
         /\ q' = r.inner
         /\ Fault(r.fault)
         /\ refused' = IF r.fault = "none" THEN refused
                                           ELSE refused \cup {incoming.id}
         /\ lost' = lost \cup Ids(pushed.recs \ r.inner.recs)
  BY <1>1
<1>3. incoming.id \in Nat /\ incoming.len \in Nat /\ f \in Nat
  BY IncomingType, OffsetsType
<1>4. InnerType(pushed)
  BY <1>3, AppendType DEF TypeOK
<1>5. InnerType(q')
  <2> HIDE DEF pushed
  <2> QED  BY <1>2, <1>4, RollType
<1>6. pushed.recs \ r.inner.recs \in SUBSET Record
  <2> HIDE DEF pushed
  <2> QED  BY <1>4 DEF InnerType
<1> HIDE DEF pushed
<1>7. QED
  BY <1>2, <1>5, <1>6, RouterType DEF Push

LEMMA PushWriteFailsType == TypeOK /\ PushWriteFails => TypeOK'
<1> SUFFICES ASSUME TypeOK, PushWriteFails PROVE TypeOK'
  OBVIOUS
<1>1. PICK f \in Boundaries(q) :
        LET kept == ReconcileWriteSegment(q, f) IN
        /\ q' \in {NewSegment(kept)}
                    \cup (IF "create" \in Faults THEN {kept} ELSE {})
        /\ lost' = lost \cup Ids(q.recs \ kept.recs)
  BY DEF PushWriteFails
<1>2. f \in Nat
  BY BoundariesType DEF TypeOK
<1> DEFINE kept == ReconcileWriteSegment(q, f)
<1>3. InnerType(kept)
  BY <1>2, ReconcileType DEF TypeOK
<1>4. InnerType(NewSegment(kept))
  BY <1>3, NewSegmentType
<1>5. InnerType(q')
  BY <1>1, <1>3, <1>4
<1>6. q.recs \ kept.recs \in SUBSET Record
  BY OffsetsType
<1> HIDE DEF kept
<1>7. lost' = lost \cup Ids(q.recs \ kept.recs)
  BY <1>1 DEF kept
<1>8. QED
  BY <1>5, <1>6, <1>7, RouterType DEF PushWriteFails

LEMMA PushDropOldestFailsType == TypeOK /\ PushDropOldestFails => TypeOK'
<1> SUFFICES ASSUME TypeOK, PushDropOldestFails PROVE TypeOK'
  OBVIOUS
<1>1. PICK r \in RollSegment(q) :
        /\ r.fault # "none"
        /\ Fault(r.fault)
        /\ q' = r.inner
        /\ lost' = lost \cup Ids(q.recs \ r.inner.recs)
  BY DEF PushDropOldestFails
<1>2. InnerType(q')
  BY <1>1, RollType DEF TypeOK
<1>3. q.recs \ r.inner.recs \in SUBSET Record
  BY OffsetsType
<1>4. QED
  BY <1>1, <1>2, <1>3, RouterType DEF PushDropOldestFails

LEMMA PushRefusedType ==
  TypeOK /\ (PushOpenFails \/ PushDropNewest \/ PushCancelled) => TypeOK'
<1> SUFFICES ASSUME TypeOK, PushOpenFails \/ PushDropNewest \/ PushCancelled
             PROVE  TypeOK'
  OBVIOUS
<1>1. faults' \in 0 .. MaxFaults
  BY FaultType DEF PushOpenFails, PushDropNewest, PushCancelled, TypeOK
<1>2. incoming.id \in Nat
  BY IncomingType
<1>3. QED
  BY <1>1, <1>2
     DEF PushOpenFails, PushDropNewest, PushCancelled, PushReturns, TypeOK

LEMMA PushDropOldestType == TypeOK /\ PushDropOldest => TypeOK'
<1> SUFFICES ASSUME TypeOK, PushDropOldest PROVE TypeOK'
  OBVIOUS
<1>1. PICK oldest \in q.segments :
       /\ IsOldest(oldest, q.segments)
       /\ LET i == IF oldest = q.write_seg THEN NewSegment(q) ELSE q IN
          \E next \in i.segments :
            /\ IsOldest(next, i.segments \ {oldest})
            /\ q' = EvictSegment(i, oldest, next)
            /\ evicted' = evicted \cup
                 Ids({r \in Unread(i, i.cursor) : r.seg = oldest})
  BY DEF PushDropOldest
<1> DEFINE i == IF oldest = q.write_seg THEN NewSegment(q) ELSE q
<1>2. InnerType(i) /\ oldest \in i.segments /\ oldest # i.write_seg
  <2>1. CASE oldest = q.write_seg
    <3>1. InnerType(i)
      BY <2>1, NewSegmentType DEF TypeOK
    <3>2. i.segments = q.segments \cup {q.write_seg + 1}
          /\ i.write_seg = q.write_seg + 1
      BY <2>1 DEF TypeOK, InnerType, NewSegment
    <3>3. oldest \in Nat
      BY DEF TypeOK, InnerType
    <3>4. QED  BY <2>1, <3>1, <3>2, <3>3
  <2>2. CASE oldest # q.write_seg
    BY <2>2 DEF TypeOK
  <2>3. QED  BY <2>1, <2>2
<1>3. PICK next \in i.segments :
        /\ q' = EvictSegment(i, oldest, next)
        /\ evicted' = evicted \cup
             Ids({r \in Unread(i, i.cursor) : r.seg = oldest})
  BY <1>1
<1> HIDE DEF i
<1>4. InnerType(q')
  BY <1>2, <1>3, EvictType
<1>5. Ids({r \in Unread(i, i.cursor) : r.seg = oldest}) \subseteq Nat
  BY <1>2, IdsType DEF Unread, InnerType
<1>6. QED
  BY <1>3, <1>4, <1>5 DEF PushDropOldest, TypeOK

LEMMA PeekType ==
  ASSUME TypeOK, NEW s, PeekFrom(s), phase' \in Phases
  PROVE  TypeOK'
<1>1. PICK f \in Boundaries(q) :
       /\ Fault(IF f = q.write_off THEN "none" ELSE "flush")
       /\ \E t \in q.segments :
            \E o \in {0, f} \cup {r.end : r \in q.recs} :
              PeekTo(f, [seg |-> t, off |-> o])
  BY DEF PeekFrom
<1>2. PICK t \in q.segments, o \in {0, f} \cup {r.end : r \in q.recs} :
        PeekTo(f, [seg |-> t, off |-> o])
  BY <1>1
<1> DEFINE p == [seg |-> t, off |-> o]
           got == {r \in OnDisk(q, f) : From(r, q.peek) /\ ~From(r, p)}
<1>3. f \in Nat /\ p \in Cursor
  <2>1. f \in Nat
    BY BoundariesType DEF TypeOK
  <2>2. o \in Nat
    BY <2>1, OffsetsType DEF Record
  <2>3. t \in Nat
    BY DEF TypeOK, InnerType
  <2>4. QED  BY <2>1, <2>2, <2>3 DEF Cursor
<1>4. q' = [q EXCEPT !.flushed = f, !.peek = p] /\ batch' = Ids(got)
  BY <1>2 DEF PeekTo
<1>5. InnerType(q')
  <2> HIDE DEF p
  <2> QED  BY <1>3, <1>4 DEF TypeOK, InnerType
<1>6. batch' \subseteq Nat /\ IsFiniteSet(batch')
  <2>1. got \subseteq Record /\ IsFiniteSet(got)
    BY SubsetFinite, OffsetsType DEF OnDisk, TypeOK
  <2>2. QED  BY <1>4, <2>1, IdsType, IdsFinite
<1>7. faults' \in 0 .. MaxFaults
  BY <1>1, FaultType
<1>8. QED
  BY <1>5, <1>6, <1>7 DEF PeekFrom, Worker, TypeOK, WorkerStates

LEMMA WorkerType ==
  ASSUME TypeOK,
         WaitData \/ SendOk \/ SendFails \/ AckUnlock \/ SaveCursor
           \/ SaveCursorFails
  PROVE  TypeOK'
<1>1. worker' \in WorkerStates /\ q' = q
  BY DEF WaitData, SendOk, SendFails, AckUnlock, SaveCursor, SaveCursorFails,
         Worker, WorkerStates
<1>2. saved' \in Cursor /\ cursor_file' \in Cursor
  BY DEF WaitData, SendOk, SendFails, AckUnlock, SaveCursor, SaveCursorFails,
         TypeOK, InnerType
<1>3. faults' \in 0 .. MaxFaults
  <2>1. CASE SaveCursorFails
    BY <2>1, FaultType DEF SaveCursorFails
  <2>2. CASE ~SaveCursorFails
    BY <2>2 DEF WaitData, SendOk, SendFails, AckUnlock, SaveCursor, TypeOK
  <2>3. QED  BY <2>1, <2>2
<1>4. sent' \subseteq Nat /\ confirmed' \subseteq Nat 
      /\ batch' \subseteq Nat /\ IsFiniteSet(batch')
  BY DEF WaitData, SendOk, SendFails, AckUnlock, SaveCursor, SaveCursorFails,
         TypeOK
<1>5. /\ phase' = phase /\ lock' \in {"free", "push", "ack"}
      /\ UNCHANGED <<incoming, arrived, restarts, stored, refused, evicted, lost>>
  BY DEF WaitData, SendOk, SendFails, AckUnlock, SaveCursor, SaveCursorFails,
         Worker, TypeOK
<1>6. QED
  BY <1>1, <1>2, <1>3, <1>4, <1>5 DEF TypeOK

LEMMA CursorStepsType == TypeOK /\ (ResetPeek \/ Ack) => TypeOK'
<1> SUFFICES ASSUME TypeOK, ResetPeek \/ Ack PROVE TypeOK'
  OBVIOUS
<1>1. CASE ResetPeek
  <2>1. InnerType(q')
    BY <1>1 DEF ResetPeek, TypeOK, InnerType
  <2>2. IsFiniteSet({})
    BY FS_EmptySet
  <2>3. QED
    BY <1>1, <2>1, <2>2 DEF ResetPeek, Worker, TypeOK, WorkerStates
<1>2. CASE Ack
  <2> DEFINE k == SatSub(q.count, Cardinality(batch))
  <2>1. k \in Nat
    BY FS_CardinalityType DEF SatSub, TypeOK, InnerType
  <2>2. q' = [q EXCEPT !.cursor = q.peek, !.count = k]
    BY <1>2 DEF Ack
  <2>3. InnerType(q')
    <3> HIDE DEF k
    <3> QED  BY <2>1, <2>2 DEF TypeOK, InnerType
  <2>4. IsFiniteSet({})
    BY FS_EmptySet
  <2>5. QED
    BY <1>2, <2>3, <2>4 DEF Ack, Worker, TypeOK, WorkerStates
<1>3. QED
  BY <1>1, <1>2

LEMMA AckUnlinkType == TypeOK /\ AckUnlink => TypeOK'
<1> SUFFICES ASSUME TypeOK, AckUnlink PROVE TypeOK'
  OBVIOUS
<1>1. PICK s \in Consumed : q' = DropSegment(q, s)
  BY DEF AckUnlink
<1>2. InnerType(q')
  BY <1>1, DropSegmentType DEF Consumed, TypeOK
<1>3. QED
  BY <1>2 DEF AckUnlink, Worker, TypeOK, WorkerStates

LEMMA DownType ==
  ASSUME TypeOK, NEW f \in Nat, Down(f), faults' \in 0 .. MaxFaults,
         restarts' \in 0 .. MaxRestarts
  PROVE  TypeOK'
<1> DEFINE R == OnDisk(q, f)
           l == [q.len EXCEPT ![q.write_seg] = f]
<1>1. R \in SUBSET Record /\ IsFiniteSet(R)
  BY SubsetFinite DEF OnDisk, TypeOK
<1>2. l \in [q.segments -> Nat]
  BY DEF TypeOK, InnerType
<1>3. q' = [q EXCEPT !.recs = R, !.len = l, !.flushed = f]
  BY DEF Down
<1>4. InnerType(q')
  <2> HIDE DEF R, l
  <2> QED  BY <1>1, <1>2, <1>3 DEF TypeOK, InnerType
<1>5. Ids(q.recs \ OnDisk(q, f)) \subseteq Nat
  BY OffsetsType, IdsType
<1>6. incoming.id \in Nat
  BY IncomingType
<1>7. IsFiniteSet({})
  BY FS_EmptySet
<1>8. QED
  BY <1>4, <1>5, <1>6, <1>7 DEF Down, TypeOK, WorkerStates, Phases

LEMMA OpenType == TypeOK /\ Open => TypeOK'
<1> SUFFICES ASSUME TypeOK, Open PROVE TypeOK'
  OBVIOUS
<1>1. PICK w \in q.segments, s \in q.segments, o \in {0, cursor_file.off},
           total \in {TotalLen(q)} :
        LET d == [seg |-> s, off |-> o] IN
        /\ q' = [q EXCEPT !.write_seg = w,
                          !.write_off = q.len[w],
                          !.flushed = q.len[w],
                          !.write_seg_count =
                             Cardinality({r \in q.recs : r.seg = w}),
                          !.writer = FALSE,
                          !.cursor = d,
                          !.peek = d,
                          !.count = Cardinality(Unread(q, d)),
                          !.bytes = total]
  BY DEF Open
<1> DEFINE d == [seg |-> s, off |-> o]
           c == Cardinality({r \in q.recs : r.seg = w})
           k == Cardinality(Unread(q, d))
           e == q.len[w]
<1>2. c \in Nat /\ k \in Nat /\ total \in Nat
  BY SubsetFinite, TotalType DEF Unread, TypeOK
<1>3. d \in Cursor /\ e \in Nat
  BY DEF Cursor, TypeOK, InnerType
<1>4. q' = [q EXCEPT !.write_seg = w, !.write_off = e, !.flushed = e,
                     !.write_seg_count = c, !.writer = FALSE, !.cursor = d,
                     !.peek = d, !.count = k, !.bytes = total]
  BY <1>1
<1>5. InnerType(q')
  <2> HIDE DEF c, d, k, e
  <2> QED  BY <1>2, <1>3, <1>4 DEF TypeOK, InnerType
<1>6. phase' \in Phases
  BY DEF Open, Phases
<1>7. QED
  BY <1>5, <1>6 DEF Open, TypeOK, ghosts

LEMMA OldestAgeType == TypeOK /\ OldestAge => TypeOK'
<1> SUFFICES ASSUME TypeOK, OldestAge PROVE TypeOK'
  OBVIOUS
<1>1. PICK f \in Boundaries(q) :
        /\ Fault(IF f = q.write_off THEN "none" ELSE "flush")
        /\ q' = [q EXCEPT !.flushed = f]
  BY DEF OldestAge
<1>2. f \in Nat
  BY BoundariesType DEF TypeOK
<1>3. InnerType(q')
  BY <1>1, <1>2 DEF TypeOK, InnerType
<1>4. faults' \in 0 .. MaxFaults
  BY <1>1, FaultType
<1>5. QED
  BY <1>3, <1>4 DEF OldestAge, TypeOK, ghosts

(* Every operation of the router, the worker, the operating system and the *)
(* process preserves the type invariant, which is thus inductive.          *)
THEOREM StepType == TypeOK /\ [Next]_vars => TypeOK'
<1> SUFFICES ASSUME TypeOK, [Next]_vars PROVE TypeOK'
  OBVIOUS
<1>1. CASE Arrive
  BY <1>1, BoundAssumption DEF Arrive, TypeOK, EventIds, ghosts
<1>2. CASE Push \/ PushWriteFails \/ PushDropOldest \/ PushDropOldestFails
  BY <1>2, PushType, PushWriteFailsType, PushDropOldestType,
     PushDropOldestFailsType
<1>3. CASE PushOpenFails \/ PushDropNewest \/ PushCancelled
  BY <1>3, PushRefusedType
<1>4. CASE PeekBatch \/ FinalPeek
  <2>1. phase' \in Phases
    BY <1>4 DEF PeekBatch, FinalPeek, TypeOK, Phases
  <2>2. QED
    BY <1>4, <2>1, PeekType DEF PeekBatch, FinalPeek
<1>5. CASE WaitData \/ SendOk \/ SendFails \/ AckUnlock \/ SaveCursor
             \/ SaveCursorFails
  BY <1>5, WorkerType
<1>6. CASE ResetPeek \/ Ack
  BY <1>6, CursorStepsType
<1>7. CASE AckUnlink
  BY <1>7, AckUnlinkType
<1>8. CASE Crash
  <2>1. faults' \in 0 .. MaxFaults /\ restarts' \in 0 .. MaxRestarts
    BY <1>8, BoundAssumption DEF Crash, Restart, TypeOK
  <2>2. QED
    BY <1>8, <2>1, DownType, OffsetsType DEF Crash
<1>9. CASE Stop
  <2>1. PICK f \in Boundaries(q) :
          Down(f) /\ Fault(IF f = q.write_off THEN "none" ELSE "flush")
    BY <1>9 DEF Stop
  <2>2. f \in Nat
    BY BoundariesType DEF TypeOK
  <2>3. faults' \in 0 .. MaxFaults
    BY <2>1, FaultType
  <2>4. restarts' \in 0 .. MaxRestarts
    BY <1>9 DEF Stop, TypeOK
  <2>5. QED
    BY <2>1, <2>2, <2>3, <2>4, DownType
<1>10. CASE Cancel
  BY <1>10, BoundAssumption DEF Cancel, Restart, TypeOK, Phases, ghosts
<1>11. CASE Open
  BY <1>11, OpenType
<1>12. CASE Rest \/ UNCHANGED vars
  BY <1>12 DEF Rest, vars, mech, ghosts, TypeOK
<1>13. CASE OldestAge
  BY <1>13, OldestAgeType
<1>14. QED
  BY <1>1, <1>2, <1>3, <1>4, <1>5, <1>6, <1>7, <1>8, <1>9, <1>10, <1>11,
     <1>12, <1>13 DEF Next, Router, Consumer

(* Every variable keeps its type, for all sizes, policies and bounds: no   *)
(* counter of the queue becomes negative and the write segment's file is   *)
(* never deleted.                                                          *)
THEOREM TypeCorrect == Spec => []TypeOK
  BY InitType, StepType, PTL DEF Spec

-----------------------------------------------------------------------------
(* Position c is not beyond what has reached the write segment's file.     *)
Behind(i, c) == c.seg = i.write_seg => c.off =< i.flushed

(* The write segment's records end within its first f bytes.               *)
EndsBy(i, f) == \A r \in i.recs : r.seg = i.write_seg => r.end =< f

(* What holds of the queue and its files, whether it is open or not.       *)
Shape(i) ==
  /\ InnerType(i)
  /\ IsNewest(i.write_seg, i.segments)
  /\ \A r \in i.recs : r.seg \in i.segments /\ 0 < r.end
  /\ i.cursor.seg \in i.segments /\ Behind(i, i.cursor)

(* ... and while it is open.                                               *)
OpenShape(i) ==
  /\ Shape(i)
  /\ i.peek.seg \in i.segments /\ Behind(i, i.peek)
  /\ NotBefore(i.peek, i.cursor)
  /\ i.flushed =< i.write_off /\ EndsBy(i, i.write_off)

(* The records a reader passes on its way from the cursor to the peek      *)
(* position, i.e. the ones handed out and not acked.                       *)
HandedOut(i) == {r \in i.recs : From(r, i.cursor) /\ ~From(r, i.peek)}

(* The inductive invariant.                                                *)
Files ==
  /\ Shape(q)
  /\ Up => OpenShape(q)
  /\ ~Up => q.len[q.write_seg] = q.flushed /\ EndsBy(q, q.flushed)

CursorFileBehind ==
  /\ NotBefore(q.cursor, cursor_file)
  /\ worker = "saving" => NotBefore(q.cursor, saved)
                         /\ NotBefore(saved, cursor_file)

BatchCovers ==
  /\ Up => Ids(HandedOut(q)) \subseteq batch
  /\ worker \notin {"sending", "delivered", "failed"} => batch = {}
  /\ worker = "delivered" => batch \subseteq sent
  /\ ~Up => worker = "waiting"

IInv == TypeOK /\ Files /\ CursorFileBehind /\ BatchCovers /\ Accounted(q.cursor)

(* j follows i, and of the records owed to a reader only those in R went.  *)
Keeps(i, j, R) ==
  /\ OpenShape(j)
  /\ NotBefore(j.cursor, i.cursor)
  /\ HandedOut(j) \subseteq HandedOut(i)
  /\ Unread(i, i.cursor) \subseteq Unread(j, j.cursor) \cup R

-----------------------------------------------------------------------------
(* Positions.                                                              *)

LEMMA NotBeforeTrans ==
  ASSUME NEW c \in Cursor, NEW d \in Cursor, NEW e \in Cursor,
         NotBefore(c, d), NotBefore(d, e)
  PROVE  NotBefore(c, e)
  BY DEF NotBefore, Cursor

LEMMA FromEarlier ==
  ASSUME NEW c \in Cursor, NEW d \in Cursor, NotBefore(d, c),
         NEW r \in Record, From(r, d)
  PROVE  From(r, c)
  BY DEF NotBefore, Cursor, Record, From

LEMMA CursorType ==
  ASSUME NEW i, InnerType(i)
  PROVE  /\ i.cursor \in Cursor /\ i.peek \in Cursor
         /\ i.recs \subseteq Record
  BY DEF InnerType

LEMMA KeepsTrans ==
  ASSUME NEW i, NEW j, NEW k, NEW R, NEW S, InnerType(i),
         Keeps(i, j, R), Keeps(j, k, S)
  PROVE  Keeps(i, k, R \cup S)
<1>1. InnerType(j) /\ InnerType(k)
  BY DEF Keeps, OpenShape, Shape
<1>2. NotBefore(k.cursor, i.cursor)
  BY <1>1, CursorType, NotBeforeTrans DEF Keeps
<1>3. QED
  BY <1>2 DEF Keeps

LEMMA BoundaryBehind ==
  ASSUME NEW i, OpenShape(i), NEW f \in Boundaries(i)
  PROVE  f \in Nat /\ i.flushed =< f
<1>1. InnerType(i) /\ i.flushed =< i.write_off
  BY DEF OpenShape, Shape
<1>2. i.flushed \in Nat /\ i.write_off \in Nat /\ i.recs \subseteq Record
  BY <1>1 DEF InnerType
<1>3. QED
  BY <1>1, <1>2 DEF Boundaries, Record

-----------------------------------------------------------------------------
(* The operators of DiskQueueInner lose nothing but what they name.        *)

LEMMA AppendKeeps ==
  ASSUME NEW i, OpenShape(i), NEW id \in Nat, NEW n \in Nat, 0 < n,
         NEW f \in Nat, i.flushed =< f, f =< i.write_off + n
  PROVE  Keeps(i, AppendRecord(i, id, n, f), {})
<1> DEFINE j == AppendRecord(i, id, n, f)
           r == [id |-> id, seg |-> i.write_seg, end |-> i.write_off + n]
<1>1. InnerType(i) /\ InnerType(j)
  BY AppendType DEF OpenShape, Shape
<1>2. /\ j.recs = i.recs \cup {r} /\ j.segments = i.segments
      /\ j.flushed = f /\ j.write_seg = i.write_seg
      /\ j.write_off = i.write_off + n
      /\ j.cursor = i.cursor /\ j.peek = i.peek
  BY <1>1 DEF InnerType, AppendRecord
<1>3. /\ i.cursor \in Cursor /\ i.peek \in Cursor /\ i.flushed \in Nat
      /\ i.write_off \in Nat /\ i.segments \subseteq Nat
      /\ i.write_seg \in i.segments
  BY <1>1 DEF InnerType
<1> HIDE DEF j
<1>4. From(r, i.peek)
  BY <1>3 DEF From, OpenShape, Behind, Shape, IsNewest, Cursor
<1>5. OpenShape(j)
  <2>1. IsNewest(j.write_seg, j.segments)
    BY <1>2 DEF OpenShape, Shape
  <2>2. \A x \in j.recs : x.seg \in j.segments /\ 0 < x.end
    BY <1>2, <1>3 DEF OpenShape, Shape
  <2>3. Behind(j, j.cursor) /\ Behind(j, j.peek)
    BY <1>2, <1>3 DEF OpenShape, Shape, Behind, Cursor
  <2>4. EndsBy(j, j.write_off)
    <3>1. \A x \in i.recs : x.end \in Nat
      BY <1>1 DEF InnerType, Record
    <3>2. QED
      BY <1>2, <1>3, <3>1 DEF OpenShape, EndsBy
  <2>5. QED
    BY <1>1, <1>2, <1>3, <2>1, <2>2, <2>3, <2>4 DEF OpenShape, Shape
<1>6. HandedOut(j) \subseteq HandedOut(i)
  BY <1>2, <1>4 DEF HandedOut
<1>7. Keeps(i, j, {})
  BY <1>2, <1>3, <1>5, <1>6 DEF Keeps, NotBefore, Unread, Cursor
<1>8. QED
  BY <1>7 DEF j

LEMMA ReconcileKeeps ==
  ASSUME NEW i, OpenShape(i), NEW f \in Nat, i.flushed =< f
  PROVE  LET j == ReconcileWriteSegment(i, f) IN
         Keeps(i, j, i.recs \ j.recs)
<1> DEFINE j == ReconcileWriteSegment(i, f)
<1>1. InnerType(i) /\ InnerType(j)
  BY ReconcileType DEF OpenShape, Shape
<1>2. /\ j.recs \subseteq i.recs /\ j.segments = i.segments
      /\ j.flushed = f /\ j.write_off = f /\ j.write_seg = i.write_seg
      /\ j.cursor = i.cursor /\ j.peek = i.peek
      /\ \A r \in j.recs : r.seg = i.write_seg => r.end =< f
  BY <1>1 DEF InnerType, ReconcileWriteSegment, DiscardBuffer, OnDisk
<1>3. /\ i.cursor \in Cursor /\ i.peek \in Cursor /\ i.flushed \in Nat
  BY <1>1 DEF InnerType
<1> HIDE DEF j
<1>4. OpenShape(j)
  BY <1>1, <1>2, <1>3 DEF OpenShape, Shape, Behind, EndsBy, Cursor
<1>5. Keeps(i, j, i.recs \ j.recs)
  BY <1>2, <1>3, <1>4 DEF Keeps, NotBefore, Unread, HandedOut, Cursor
<1>6. QED
  BY <1>5 DEF j

LEMMA CloseWriterKeeps ==
  ASSUME NEW i, OpenShape(i)
  PROVE  Keeps(i, CloseWriter(i), {})
<1> DEFINE j == CloseWriter(i)
<1>1. InnerType(i) /\ InnerType(j)
  BY CloseWriterType DEF OpenShape, Shape
<1>2. /\ j.recs = i.recs /\ j.segments = i.segments
      /\ j.flushed = i.write_off /\ j.write_off = i.write_off
      /\ j.write_seg = i.write_seg
      /\ j.cursor = i.cursor /\ j.peek = i.peek
  BY <1>1 DEF InnerType, CloseWriter
<1>3. /\ i.cursor \in Cursor /\ i.peek \in Cursor
      /\ i.flushed \in Nat /\ i.write_off \in Nat
  BY <1>1 DEF InnerType
<1> HIDE DEF j
<1>4. OpenShape(j)
  BY <1>1, <1>2, <1>3 DEF OpenShape, Shape, Behind, EndsBy, Cursor
<1>5. Keeps(i, j, {})
  BY <1>2, <1>3, <1>4 DEF Keeps, NotBefore, Unread, HandedOut, Cursor
<1>6. QED
  BY <1>5 DEF j

LEMMA NewSegmentKeeps ==
  ASSUME NEW i, OpenShape(i)
  PROVE  Keeps(i, NewSegment(i), {})
<1> DEFINE j == NewSegment(i)
<1>1. InnerType(i) /\ InnerType(j)
  BY NewSegmentType DEF OpenShape, Shape
<1>2. /\ j.recs = i.recs /\ j.segments = i.segments \cup {i.write_seg + 1}
      /\ j.flushed = 0 /\ j.write_off = 0
      /\ j.write_seg = i.write_seg + 1
      /\ j.cursor = i.cursor /\ j.peek = i.peek
  BY <1>1 DEF InnerType, NewSegment
<1>3. /\ i.cursor \in Cursor /\ i.peek \in Cursor
      /\ i.segments \subseteq Nat /\ i.write_seg \in Nat
      /\ \A s \in i.segments : s =< i.write_seg
  BY <1>1 DEF InnerType, OpenShape, Shape, IsNewest
<1> HIDE DEF j
<1>4. IsNewest(j.write_seg, j.segments)
  BY <1>2, <1>3 DEF IsNewest
<1>5. Behind(j, j.cursor) /\ Behind(j, j.peek)
  BY <1>2, <1>3 DEF OpenShape, Shape, Behind
<1>6. OpenShape(j)
  <2>1. EndsBy(j, j.write_off)
    BY <1>2, <1>3 DEF OpenShape, Shape, EndsBy
  <2>2. QED
    BY <1>1, <1>2, <1>4, <1>5, <2>1 DEF OpenShape, Shape
<1>7. Keeps(i, j, {})
  BY <1>2, <1>3, <1>6 DEF Keeps, NotBefore, Unread, HandedOut, Cursor
<1>8. QED
  BY <1>7 DEF j

LEMMA RollKeeps ==
  ASSUME NEW i, OpenShape(i), NEW r \in RollSegment(i)
  PROVE  Keeps(i, r.inner, i.recs \ r.inner.recs)
<1>1. CASE r = [inner |-> NewSegment(i), fault |-> "none"]
  BY <1>1, NewSegmentKeeps DEF Keeps
<1>2. CASE \E f \in Boundaries(i) :
             r = [inner |-> ReconcileWriteSegment(i, f), fault |-> "flush"]
  BY <1>2, BoundaryBehind, ReconcileKeeps
<1>3. CASE r = [inner |-> CloseWriter(i), fault |-> "create"]
  BY <1>3, CloseWriterKeeps DEF Keeps
<1>4. QED
  BY <1>1, <1>2, <1>3 DEF RollSegment

LEMMA UnlinkKeeps ==
  ASSUME NEW i, OpenShape(i), NEW s \in i.segments, s # i.write_seg,
         s < i.cursor.seg
  PROVE  Keeps(i, DropSegment(i, s), {})
<1> DEFINE j == DropSegment(i, s)
<1>1. InnerType(i) /\ InnerType(j)
  BY DropSegmentType DEF OpenShape, Shape
<1>2. /\ j.recs = {r \in i.recs : r.seg # s} /\ j.segments = i.segments \ {s}
      /\ j.flushed = i.flushed /\ j.write_off = i.write_off
      /\ j.write_seg = i.write_seg
      /\ j.cursor = i.cursor /\ j.peek = i.peek
  BY <1>1 DEF InnerType, DropSegment
<1>3. /\ i.cursor \in Cursor /\ i.peek \in Cursor /\ i.recs \subseteq Record
      /\ i.segments \subseteq Nat
  BY <1>1 DEF InnerType
<1>4. s # i.cursor.seg /\ s # i.peek.seg
  BY <1>3 DEF OpenShape, NotBefore, Cursor
<1> HIDE DEF j
<1>5. IsNewest(j.write_seg, j.segments)
  BY <1>2 DEF OpenShape, Shape, IsNewest
<1>6. OpenShape(j)
  BY <1>1, <1>2, <1>4, <1>5 DEF OpenShape, Shape, Behind, EndsBy
<1>7. Unread(i, i.cursor) \subseteq Unread(j, j.cursor)
  BY <1>2, <1>3 DEF Unread, From, Record, Cursor
<1>8. Keeps(i, j, {})
  BY <1>2, <1>3, <1>6, <1>7 DEF Keeps, NotBefore, HandedOut, Cursor
<1>9. QED
  BY <1>8 DEF j

LEMMA EvictKeeps ==
  ASSUME NEW i, OpenShape(i), NEW s \in i.segments, IsOldest(s, i.segments),
         s # i.write_seg, NEW next \in i.segments,
         IsOldest(next, i.segments \ {s})
  PROVE  Keeps(i, EvictSegment(i, s, next),
               {r \in Unread(i, i.cursor) : r.seg = s})
<1> DEFINE j == EvictSegment(i, s, next)
           to == IF i.cursor.seg =< s THEN [seg |-> next, off |-> 0]
                                      ELSE i.cursor
           p == IF i.peek.seg =< s THEN to ELSE i.peek
<1>1. InnerType(i) /\ InnerType(j)
  BY EvictType DEF OpenShape, Shape
<1>2. /\ j.recs = {r \in i.recs : r.seg # s} /\ j.segments = i.segments \ {s}
      /\ j.flushed = i.flushed /\ j.write_off = i.write_off
      /\ j.write_seg = i.write_seg
      /\ j.cursor = to /\ j.peek = p
  BY <1>1 DEF InnerType, EvictSegment, DropSegment
<1>3. /\ i.cursor \in Cursor /\ i.peek \in Cursor /\ i.recs \subseteq Record
      /\ i.segments \subseteq Nat /\ to \in Cursor /\ p \in Cursor
      /\ i.flushed \in Nat /\ s \in Nat /\ next \in Nat
  BY <1>1 DEF InnerType, Cursor
<1>4. s < next /\ \A t \in i.segments \ {s} : next =< t
  BY <1>3 DEF IsOldest
<1>5. i.cursor.seg \in i.segments /\ i.peek.seg \in i.segments
      /\ NotBefore(i.peek, i.cursor)
      /\ Behind(i, i.cursor) /\ Behind(i, i.peek)
      /\ \A r \in i.recs : r.seg \in i.segments /\ 0 < r.end
  BY DEF OpenShape, Shape
<1> HIDE DEF j
<1>6. NotBefore(to, i.cursor) /\ NotBefore(p, to)
  BY <1>3, <1>4, <1>5 DEF NotBefore, Cursor
<1>7. to.seg \in j.segments /\ p.seg \in j.segments
  BY <1>2, <1>3, <1>4, <1>5 DEF Cursor
<1>8. Behind(j, to) /\ Behind(j, p)
  BY <1>2, <1>3, <1>5 DEF Behind
<1>9. IsNewest(j.write_seg, j.segments)
  BY <1>2 DEF OpenShape, Shape, IsNewest
<1>10. OpenShape(j)
  BY <1>1, <1>2, <1>5, <1>6, <1>7, <1>8, <1>9 DEF OpenShape, Shape, EndsBy
<1>11. \A r \in j.recs : From(r, i.cursor) => From(r, to)
  <2> TAKE r \in j.recs
  <2>1. r \in Record /\ next =< r.seg /\ 0 < r.end
    BY <1>2, <1>3, <1>4, <1>5
  <2>2. QED
    BY <1>3, <2>1 DEF From, Record, Cursor
<1>12. HandedOut(j) \subseteq HandedOut(i)
  <2> SUFFICES ASSUME NEW r \in HandedOut(j) PROVE r \in HandedOut(i)
    OBVIOUS
  <2>1. r \in i.recs /\ From(r, to) /\ ~From(r, p)
    BY <1>2 DEF HandedOut
  <2>2. From(r, i.cursor)
    BY <1>3, <1>6, <2>1, FromEarlier
  <2>3. p = i.peek
    BY <2>1
  <2>4. QED
    BY <2>1, <2>2, <2>3 DEF HandedOut
<1>13. Unread(i, i.cursor) \subseteq
         Unread(j, j.cursor) \cup {r \in Unread(i, i.cursor) : r.seg = s}
  BY <1>2, <1>11 DEF Unread
<1>14. Keeps(i, j, {r \in Unread(i, i.cursor) : r.seg = s})
  BY <1>2, <1>6, <1>10, <1>12, <1>13 DEF Keeps
<1>15. QED
  BY <1>14 DEF j

-----------------------------------------------------------------------------
(* Every step keeps the inductive invariant.                               *)

LEMMA KeepsIInv ==
  ASSUME IInv, Up, TypeOK', UNCHANGED <<phase, cursor_file, saved, worker,
                                         batch, sent>>,
         NEW R, Keeps(q, q', R), Ids(R) \subseteq lost' \cup evicted',
         lost \subseteq lost', evicted \subseteq evicted',
         stored' \subseteq stored \cup lost' \cup evicted'
                             \cup Ids(Unread(q', q'.cursor))
  PROVE  IInv'
<1>1. Files'
  BY DEF Keeps, Files, OpenShape, Up
<1>2. CursorFileBehind'
  <2>1. q.cursor \in Cursor /\ q'.cursor \in Cursor
        /\ cursor_file \in Cursor /\ saved \in Cursor
    BY DEF IInv, TypeOK, InnerType
  <2>2. QED
    BY <2>1, NotBeforeTrans DEF IInv, CursorFileBehind, Keeps
<1>3. BatchCovers'
  BY DEF IInv, BatchCovers, Keeps, Ids, Up
<1>4. Accounted(q.cursor)'
  <2>1. Ids(Unread(q, q.cursor)) \subseteq Ids(Unread(q', q'.cursor)) \cup Ids(R)
    BY DEF Keeps, Ids
  <2>2. QED
    BY <2>1 DEF IInv, Accounted
<1>5. QED
  BY <1>1, <1>2, <1>3, <1>4 DEF IInv

LEMMA UpShape ==
  ASSUME IInv, Up
  PROVE  OpenShape(q) /\ InnerType(q)
  BY DEF IInv, Files, OpenShape, Shape

LEMMA KeepsSelf ==
  ASSUME NEW i, OpenShape(i)
  PROVE  Keeps(i, i, {})
<1>1. i.cursor \in Cursor
  BY DEF OpenShape, Shape, InnerType
<1>2. QED
  BY <1>1 DEF Keeps, NotBefore, Cursor

LEMMA PushIInv == IInv /\ Push => IInv'
<1> SUFFICES ASSUME IInv, Push PROVE IInv'
  OBVIOUS
<1>1. TypeOK'
  BY PushType DEF IInv
<1>2. Up /\ OpenShape(q) /\ InnerType(q) /\ TypeOK
  BY UpShape DEF Push, Pushing, IInv
<1>3. incoming.id \in Nat /\ incoming.len \in Nat /\ 0 < incoming.len
  BY <1>2, IncomingType DEF Push, Pushing
<1> DEFINE pushed(f) == AppendRecord(q, incoming.id, incoming.len, f)
<1>4. PICK f \in {q.flushed, q.write_off, q.write_off + incoming.len} :
        \E r \in IF pushed(f).write_off < SegBytes
                   THEN {[inner |-> pushed(f), fault |-> "none"]}
                   ELSE RollSegment(pushed(f)) :
          /\ q' = r.inner
          /\ lost' = lost \cup Ids(pushed(f).recs \ r.inner.recs)
  BY DEF Push
<1>5. f \in Nat /\ q.flushed =< f /\ f =< q.write_off + incoming.len
  BY <1>2, <1>3, OffsetsType DEF OpenShape
<1> DEFINE j == AppendRecord(q, incoming.id, incoming.len, f)
           x == [id |-> incoming.id, seg |-> q.write_seg,
                 end |-> q.write_off + incoming.len]
<1>6. Keeps(q, j, {})
  BY <1>2, <1>3, <1>5, AppendKeeps
<1>7. x \in Unread(j, j.cursor)
  <2>1. /\ x \in j.recs /\ j.write_seg = q.write_seg
        /\ j.cursor = q.cursor /\ q.cursor \in Cursor
        /\ q.flushed \in Nat /\ q.write_off \in Nat
        /\ q.flushed =< q.write_off
        /\ q.segments \subseteq Nat /\ q.write_seg \in q.segments
    BY <1>2 DEF InnerType, AppendRecord, OpenShape
  <2>2. From(x, q.cursor)
    BY <1>2, <1>3, <2>1
       DEF From, OpenShape, Shape, Behind, IsNewest, Cursor
  <2>3. QED
    BY <2>1, <2>2 DEF Unread
<1> HIDE DEF j
<1>8. Keeps(j, q', j.recs \ q'.recs) /\ lost' = lost \cup Ids(j.recs \ q'.recs)
  <2>1. OpenShape(j)
    BY <1>6 DEF Keeps
  <2>2. PICK r \in IF j.write_off < SegBytes
                     THEN {[inner |-> j, fault |-> "none"]}
                     ELSE RollSegment(j) :
          /\ q' = r.inner
          /\ lost' = lost \cup Ids(j.recs \ r.inner.recs)
    BY <1>4 DEF j
  <2>3. CASE j.write_off < SegBytes
    <3>1. q' = j
      BY <2>2, <2>3
    <3>2. QED  BY <2>1, <2>2, <3>1, KeepsSelf DEF Keeps
  <2>4. CASE ~(j.write_off < SegBytes)
    BY <2>1, <2>2, <2>4, RollKeeps
  <2>5. QED  BY <2>3, <2>4
<1> DEFINE R == {} \cup (j.recs \ q'.recs)
<1>9. Keeps(q, q', R)
  BY <1>2, <1>6, <1>8, KeepsTrans
<1>10. x \in Unread(q', q'.cursor) \/ x \in j.recs \ q'.recs
  BY <1>7, <1>8 DEF Keeps
<1>11. incoming.id \in lost' \cup Ids(Unread(q', q'.cursor))
  BY <1>8, <1>10 DEF Ids
<1>12. /\ stored' = stored \cup {incoming.id}
       /\ UNCHANGED <<phase, cursor_file, saved, worker, batch, sent, evicted>>
  BY DEF Push, PushReturns
<1>13. QED
  BY <1>1, <1>2, <1>8, <1>9, <1>11, <1>12, KeepsIInv

LEMMA PushFailsIInv ==
  IInv /\ (PushWriteFails \/ PushDropOldestFails) => IInv'
<1> SUFFICES ASSUME IInv, PushWriteFails \/ PushDropOldestFails PROVE IInv'
  OBVIOUS
<1>1. TypeOK'
  BY PushWriteFailsType, PushDropOldestFailsType DEF IInv
<1>2. Up /\ OpenShape(q) /\ InnerType(q)
  BY UpShape DEF PushWriteFails, PushDropOldestFails, Pushing
<1>3. /\ Keeps(q, q', q.recs \ q'.recs)
      /\ lost' = lost \cup Ids(q.recs \ q'.recs)
  <2>1. CASE PushWriteFails
    <3> DEFINE kept(f) == ReconcileWriteSegment(q, f)
    <3>1. PICK f \in Boundaries(q) :
            /\ q' \in {NewSegment(kept(f)), kept(f)}
            /\ lost' = lost \cup Ids(q.recs \ kept(f).recs)
      BY <2>1 DEF PushWriteFails
    <3> DEFINE k == ReconcileWriteSegment(q, f)
    <3>2. Keeps(q, k, q.recs \ k.recs)
      BY <1>2, BoundaryBehind, ReconcileKeeps
    <3>3. OpenShape(k) /\ InnerType(k)
      BY <3>2 DEF Keeps, OpenShape, Shape
    <3>4. Keeps(k, q', {}) /\ q'.recs = k.recs
      <4> HIDE DEF k
      <4>1. NewSegment(k).recs = k.recs
        BY <3>3 DEF InnerType, NewSegment
      <4>2. QED
        BY <3>1, <3>3, <4>1, NewSegmentKeeps, KeepsSelf DEF k
    <3>5. Keeps(q, q', (q.recs \ k.recs) \cup {})
      <4> HIDE DEF k
      <4> QED  BY <1>2, <3>2, <3>4, KeepsTrans
    <3>6. (q.recs \ k.recs) \cup {} = q.recs \ q'.recs
      BY <3>4
    <3>7. QED
      BY <3>1, <3>5, <3>6
  <2>2. CASE PushDropOldestFails
    <3>1. PICK r \in RollSegment(q) :
            q' = r.inner /\ lost' = lost \cup Ids(q.recs \ r.inner.recs)
      BY <2>2 DEF PushDropOldestFails
    <3>2. QED  BY <1>2, <3>1, RollKeeps
  <2>3. QED  BY <2>1, <2>2
<1>4. UNCHANGED <<phase, cursor_file, saved, worker, batch, sent, evicted,
                  stored>>
  BY DEF PushWriteFails, PushDropOldestFails, PushReturns
<1>5. QED
  BY <1>1, <1>2, <1>3, <1>4, KeepsIInv

LEMMA PushDropOldestIInv == IInv /\ PushDropOldest => IInv'
<1> SUFFICES ASSUME IInv, PushDropOldest PROVE IInv'
  OBVIOUS
<1>1. TypeOK'
  BY PushDropOldestType DEF IInv
<1>2. Up /\ OpenShape(q) /\ InnerType(q)
  BY UpShape DEF PushDropOldest, Pushing
<1> DEFINE start(s) == IF s = q.write_seg THEN NewSegment(q) ELSE q
<1>3. PICK s \in q.segments :
        /\ IsOldest(s, q.segments)
        /\ \E next \in start(s).segments :
             /\ IsOldest(next, start(s).segments \ {s})
             /\ q' = EvictSegment(start(s), s, next)
             /\ evicted' = evicted \cup
                  Ids({r \in Unread(start(s), start(s).cursor) : r.seg = s})
  BY DEF PushDropOldest
<1> DEFINE i == IF s = q.write_seg THEN NewSegment(q) ELSE q
<1>4. Keeps(q, i, {})
  BY <1>2, NewSegmentKeeps, KeepsSelf
<1>5. s \in i.segments /\ s # i.write_seg /\ IsOldest(s, i.segments)
  <2>1. CASE s = q.write_seg
    <3>1. i.segments = q.segments \cup {s + 1} /\ i.write_seg = s + 1
      BY <1>2, <2>1 DEF InnerType, NewSegment
    <3>2. s \in Nat
      BY <1>2 DEF InnerType
    <3>3. QED  BY <1>3, <3>1, <3>2 DEF IsOldest
  <2>2. CASE s # q.write_seg
    BY <1>3, <2>2
  <2>3. QED  BY <2>1, <2>2
<1> HIDE DEF i
<1> DEFINE R == {r \in Unread(i, i.cursor) : r.seg = s}
<1>6. Keeps(i, q', R) /\ evicted' = evicted \cup Ids(R)
  <2>1. OpenShape(i)
    BY <1>4 DEF Keeps
  <2>2. PICK next \in i.segments :
          /\ IsOldest(next, i.segments \ {s})
          /\ q' = EvictSegment(i, s, next)
          /\ evicted' = evicted \cup Ids(R)
    BY <1>3 DEF i
  <2>3. QED  BY <1>5, <2>1, <2>2, EvictKeeps
<1>7. Keeps(q, q', {} \cup R)
  BY <1>2, <1>4, <1>6, KeepsTrans
<1>8. {} \cup R = R
  OBVIOUS
<1>9. UNCHANGED <<phase, cursor_file, saved, worker, batch, sent, lost, stored>>
  BY DEF PushDropOldest
<1> HIDE DEF R
<1>10. QED
  BY <1>1, <1>2, <1>6, <1>7, <1>8, <1>9, KeepsIInv

(* Steps that leave the queue itself alone.                                *)
LEMMA SameQueueIInv ==
  ASSUME IInv, TypeOK',
         \/ Arrive \/ PushOpenFails \/ PushDropNewest \/ PushCancelled
         \/ WaitData \/ SendOk \/ SendFails \/ AckUnlock \/ SaveCursor
         \/ SaveCursorFails \/ Cancel \/ Rest \/ UNCHANGED vars
  PROVE  IInv'
<1>1. q' = q /\ (Up' <=> Up)
  BY DEF Arrive, PushOpenFails, PushDropNewest, PushCancelled, PushReturns,
         WaitData, SendOk, SendFails, AckUnlock, SaveCursor, SaveCursorFails,
         Worker, Cancel, Rest, vars, mech, Up
<1>2. Files'
  BY <1>1 DEF IInv, Files
<1>3. CursorFileBehind'
  <2>1. NotBefore(q.cursor, q.cursor)
    BY DEF IInv, TypeOK, InnerType, NotBefore, Cursor
  <2>2. QED
    BY <1>1, <2>1
       DEF IInv, CursorFileBehind, Arrive, PushOpenFails, PushDropNewest,
           PushCancelled, PushReturns, WaitData, SendOk, SendFails, AckUnlock,
           SaveCursor, SaveCursorFails, Worker, Cancel, Rest, vars, mech
<1>4. BatchCovers'
  BY <1>1
     DEF IInv, BatchCovers, Arrive, PushOpenFails, PushDropNewest,
         PushCancelled, PushReturns, WaitData, SendOk, SendFails, AckUnlock,
         SaveCursor, SaveCursorFails, Worker, Cancel, Rest, vars, mech, ghosts
<1>5. Accounted(q.cursor)'
  <2>1. /\ stored' = stored /\ evicted' = evicted /\ lost' = lost
        /\ sent \subseteq sent'
    BY DEF Arrive, PushOpenFails, PushDropNewest, PushCancelled, PushReturns,
           WaitData, SendOk, SendFails, AckUnlock, SaveCursor,
           SaveCursorFails, Worker, Cancel, Rest, vars, ghosts
  <2>2. QED
    BY <1>1, <2>1 DEF IInv, Accounted
<1>6. QED
  BY <1>2, <1>3, <1>4, <1>5 DEF IInv

(* What the batch does not cover is still ahead of the peek position.      *)
LEMMA PeekIInv ==
  ASSUME IInv, TypeOK', NEW s \in {"waiting", "peeking"}, PeekFrom(s), Up'
  PROVE  IInv'
<1>1. Up /\ OpenShape(q) /\ InnerType(q) /\ InnerType(q') /\ batch = {}
  BY UpShape DEF PeekFrom, Worker, TypeOK, IInv, BatchCovers
<1>2. PICK f \in Boundaries(q), t \in q.segments :
        \E o \in {0, f} \cup {r.end : r \in q.recs} :
          PeekTo(f, [seg |-> t, off |-> o])
  BY DEF PeekFrom
<1>3. PICK o \in {0, f} \cup {r.end : r \in q.recs} :
        PeekTo(f, [seg |-> t, off |-> o])
  BY <1>2
<1> DEFINE p == [seg |-> t, off |-> o]
           got == {r \in OnDisk(q, f) : From(r, q.peek) /\ ~From(r, p)}
<1>4. f \in Nat /\ q.flushed =< f
  BY <1>1, BoundaryBehind
<1>5. /\ q.recs \subseteq Record /\ q.segments \subseteq Nat
      /\ q.flushed \in Nat /\ q.write_off \in Nat /\ q.write_seg \in Nat
      /\ q.peek \in Cursor /\ q.cursor \in Cursor
  BY <1>1 DEF InnerType
<1>6. p \in Cursor
  BY <1>4, <1>5 DEF Cursor, Record
<1>7. /\ q' = [q EXCEPT !.flushed = f, !.peek = p] /\ batch' = Ids(got)
      /\ \/ p = [seg |-> q.write_seg, off |-> f]
         \/ \E r \in got : p = [seg |-> r.seg, off |-> r.end]
         \/ got # {} /\ \E r \in OnDisk(q, f) : p = [seg |-> r.seg, off |-> 0]
  BY <1>3 DEF PeekTo
<1> HIDE DEF p
<1>8. \A r \in got : r \in Record /\ From(r, q.peek) /\ ~From(r, p) /\ 0 < r.end
                     /\ (r.seg = q.write_seg => r.end =< f)
  BY <1>1, <1>5 DEF OnDisk, OpenShape, Shape
<1>9. NotBefore(p, q.peek)
  <2>1. CASE p = [seg |-> q.write_seg, off |-> f]
    BY <1>1, <1>4, <1>5, <2>1
       DEF OpenShape, Shape, Behind, IsNewest, NotBefore, Cursor
  <2>2. CASE \E r \in got : p = [seg |-> r.seg, off |-> r.end]
    BY <1>5, <1>8, <2>2 DEF From, NotBefore, Cursor, Record
  <2>3. CASE got # {} /\ \E r \in OnDisk(q, f) : p = [seg |-> r.seg, off |-> 0]
    BY <1>5, <1>6, <1>8, <2>3 DEF From, NotBefore, Cursor, Record
  <2>4. QED
    BY <1>7, <2>1, <2>2, <2>3
<1>10. p.seg = q.write_seg => p.off =< f
  BY <1>4, <1>7, <1>8
<1>11. f =< q.write_off
  BY <1>1, <1>2, <1>5 DEF Boundaries, OpenShape, EndsBy
<1>12. /\ q'.recs = q.recs /\ q'.segments = q.segments /\ q'.flushed = f
       /\ q'.write_seg = q.write_seg /\ q'.write_off = q.write_off
       /\ q'.cursor = q.cursor /\ q'.peek = p
  BY <1>1, <1>7 DEF InnerType
<1>13. OpenShape(q')
  <2>1. NotBefore(p, q.cursor)
    BY <1>1, <1>5, <1>6, <1>9, NotBeforeTrans DEF OpenShape
  <2>2. Behind(q', q'.cursor) /\ Behind(q', q'.peek)
    BY <1>1, <1>4, <1>5, <1>10, <1>12 DEF OpenShape, Shape, Behind, Cursor
  <2>3. p.seg \in q.segments
    BY DEF p
  <2>4. QED
    BY <1>1, <1>11, <1>12, <2>1, <2>2, <2>3 DEF OpenShape, Shape, EndsBy
<1>14. HandedOut(q') \subseteq HandedOut(q) \cup got
  <2> SUFFICES ASSUME NEW r \in q.recs, From(r, q.cursor), ~From(r, p),
                      From(r, q.peek)
               PROVE  r \in OnDisk(q, f)
    BY <1>12 DEF HandedOut
  <2>1. p.seg =< q.write_seg
    BY <1>1 DEF OpenShape, Shape, IsNewest, p
  <2>2. r.seg = q.write_seg => r.end =< f
    BY <1>4, <1>5, <1>6, <1>10, <2>1 DEF From, Record, Cursor
  <2>3. QED
    BY <2>2 DEF OnDisk
<1>15. Ids(HandedOut(q')) \subseteq batch'
  BY <1>1, <1>7, <1>14 DEF IInv, BatchCovers, Ids
<1>16. Files'
  BY <1>13 DEF Files, OpenShape
<1>17. CursorFileBehind'
  BY <1>12 DEF IInv, CursorFileBehind, PeekFrom, Worker
<1>18. BatchCovers'
  BY <1>15 DEF BatchCovers, PeekFrom, Worker
<1>19. Accounted(q.cursor)'
  BY <1>12 DEF IInv, Accounted, PeekFrom, Worker, Unread
<1>20. QED
  BY <1>16, <1>17, <1>18, <1>19 DEF IInv

LEMMA ResetPeekIInv == IInv /\ ResetPeek => IInv'
<1> SUFFICES ASSUME IInv, ResetPeek PROVE IInv'
  OBVIOUS
<1>1. TypeOK'
  BY CursorStepsType DEF IInv
<1>2. Up /\ OpenShape(q) /\ InnerType(q)
  BY UpShape DEF ResetPeek, Worker
<1>3. /\ q'.recs = q.recs /\ q'.segments = q.segments
      /\ q'.flushed = q.flushed /\ q'.write_seg = q.write_seg
      /\ q'.write_off = q.write_off /\ q'.cursor = q.cursor
      /\ q'.peek = q.cursor /\ q.cursor \in Cursor
  BY <1>2 DEF ResetPeek, InnerType
<1>4. InnerType(q')
  BY <1>1 DEF TypeOK
<1>5. OpenShape(q') /\ HandedOut(q') = {}
  BY <1>2, <1>3, <1>4
     DEF OpenShape, Shape, Behind, EndsBy, NotBefore, HandedOut, Cursor
<1>6. Files'
  BY <1>2, <1>5 DEF Files, OpenShape, ResetPeek, Up
<1>7. CursorFileBehind' /\ BatchCovers' /\ Accounted(q.cursor)'
  BY <1>2, <1>3, <1>5
     DEF IInv, CursorFileBehind, BatchCovers, Accounted, ResetPeek, Worker,
         Ids, Unread, Up
<1>8. QED
  BY <1>1, <1>6, <1>7 DEF IInv

(* The acked records are the batch, which has been sent.                   *)
LEMMA AckIInv == IInv /\ Ack => IInv'
<1> SUFFICES ASSUME IInv, Ack PROVE IInv'
  OBVIOUS
<1>1. TypeOK'
  BY CursorStepsType DEF IInv
<1>2. Up /\ OpenShape(q) /\ InnerType(q) /\ TypeOK
  BY UpShape DEF Ack, Worker, IInv
<1>3. /\ q'.recs = q.recs /\ q'.segments = q.segments
      /\ q'.flushed = q.flushed /\ q'.write_seg = q.write_seg
      /\ q'.write_off = q.write_off /\ q'.cursor = q.peek
      /\ q'.peek = q.peek /\ q.peek \in Cursor /\ q.cursor \in Cursor
  BY <1>2 DEF Ack, InnerType
<1>4. InnerType(q')
  BY <1>1 DEF TypeOK
<1>5. OpenShape(q') /\ HandedOut(q') = {}
  BY <1>2, <1>3, <1>4
     DEF OpenShape, Shape, Behind, EndsBy, NotBefore, HandedOut, Cursor
<1>6. Files'
  BY <1>2, <1>5 DEF Files, OpenShape, Ack, Up
<1>7. CursorFileBehind'
  <2>1. NotBefore(q.peek, q.cursor) /\ cursor_file \in Cursor
    BY <1>2 DEF OpenShape, TypeOK
  <2>2. NotBefore(q.peek, cursor_file)
    BY <1>3, <2>1, NotBeforeTrans DEF IInv, CursorFileBehind
  <2>3. QED
    BY <1>3, <2>2 DEF CursorFileBehind, Ack, Worker
<1>8. BatchCovers'
  BY <1>2, <1>5 DEF BatchCovers, Ack, Worker, Ids, Up
<1>9. Accounted(q.cursor)'
  <2>1. Ids(HandedOut(q)) \subseteq sent
    BY <1>2 DEF IInv, BatchCovers, Ack, Worker
  <2>2. Unread(q, q.cursor) \subseteq HandedOut(q) \cup Unread(q', q'.cursor)
    BY <1>3 DEF Unread, HandedOut
  <2>3. Ids(Unread(q, q.cursor)) \subseteq sent \cup Ids(Unread(q', q'.cursor))
    BY <2>1, <2>2 DEF Ids
  <2>4. UNCHANGED <<stored, sent, evicted, lost>>
    BY DEF Ack, Worker
  <2>5. QED
    BY <2>3, <2>4 DEF IInv, Accounted
<1>10. QED
  BY <1>1, <1>6, <1>7, <1>8, <1>9 DEF IInv

LEMMA AckUnlinkIInv == IInv /\ AckUnlink => IInv'
<1> SUFFICES ASSUME IInv, AckUnlink PROVE IInv'
  OBVIOUS
<1>1. TypeOK'
  BY AckUnlinkType DEF IInv
<1>2. Up /\ OpenShape(q)
  BY UpShape DEF AckUnlink, Worker
<1>3. PICK s \in Consumed : q' = DropSegment(q, s)
  BY DEF AckUnlink
<1>4. Keeps(q, q', {})
  BY <1>2, <1>3, UnlinkKeeps DEF Consumed
<1>5. /\ UNCHANGED <<phase, cursor_file, saved, worker, batch, sent, stored,
                     evicted, lost>>
      /\ Ids({}) = {}
  BY DEF AckUnlink, Worker, Ids
<1>6. QED
  BY <1>1, <1>2, <1>4, <1>5, KeepsIInv

LEMMA DownIInv ==
  ASSUME IInv, TypeOK', NEW f \in Nat, q.flushed =< f, Down(f)
  PROVE  IInv'
<1>1. Up /\ OpenShape(q) /\ InnerType(q)
  BY UpShape DEF Down
<1>2. /\ q'.recs = OnDisk(q, f) /\ q'.segments = q.segments
      /\ q'.flushed = f /\ q'.write_seg = q.write_seg
      /\ q'.len[q.write_seg] = f /\ q'.cursor = q.cursor
      /\ q.cursor \in Cursor /\ q.flushed \in Nat
  BY <1>1 DEF Down, InnerType
<1>3. InnerType(q')
  BY DEF TypeOK
<1>4. Shape(q')
  BY <1>1, <1>2, <1>3 DEF OpenShape, Shape, Behind, OnDisk, Cursor
<1>5. Files'
  BY <1>2, <1>4 DEF Files, EndsBy, OnDisk, Down, Up
<1>6. CursorFileBehind' /\ BatchCovers'
  BY <1>2 DEF IInv, CursorFileBehind, BatchCovers, Down, Up
<1>7. Accounted(q.cursor)'
  <2>1. Unread(q, q.cursor) \subseteq
          Unread(q', q'.cursor) \cup (q.recs \ OnDisk(q, f))
    BY <1>2 DEF Unread
  <2>2. Ids(Unread(q, q.cursor)) \subseteq
          Ids(Unread(q', q'.cursor)) \cup Ids(q.recs \ OnDisk(q, f))
    BY <2>1 DEF Ids
  <2>3. QED
    BY <2>2 DEF IInv, Accounted, Down
<1>8. QED
  BY <1>5, <1>6, <1>7 DEF IInv

(* Wherever cursor.json makes a restart resume, it is not beyond the       *)
(* cursor: the file is behind the cursor, whose segment is still there.    *)
LEMMA ResumeBehind ==
  ASSUME IInv, NEW d \in Cursor, Resume(q, cursor_file, d)
  PROVE  /\ d.seg \in q.segments
         /\ NotBefore(q.cursor, d) /\ NotBefore(d, cursor_file)
<1>1. /\ q.cursor \in Cursor /\ cursor_file \in Cursor
      /\ q.segments \subseteq Nat /\ q.cursor.seg \in q.segments
      /\ NotBefore(q.cursor, cursor_file)
  BY DEF IInv, Files, Shape, TypeOK, InnerType, CursorFileBehind
<1>2. CASE cursor_file.seg \in q.segments /\ d = cursor_file
  BY <1>1, <1>2 DEF NotBefore, Cursor
<1>3. CASE /\ cursor_file.seg \notin q.segments
           /\ d.off = 0
           /\ IsOldest(d.seg, {s \in q.segments : cursor_file.seg < s})
  <2>1. cursor_file.seg < q.cursor.seg
    BY <1>1, <1>3 DEF NotBefore, Cursor
  <2>2. d.seg =< q.cursor.seg /\ cursor_file.seg < d.seg /\ d.seg \in q.segments
    BY <1>1, <1>3, <2>1 DEF IsOldest
  <2>3. QED
    BY <1>1, <1>3, <2>1, <2>2 DEF NotBefore, Cursor
<1>4. CASE \A s \in q.segments : s < cursor_file.seg
  BY <1>1, <1>4 DEF NotBefore, Cursor
<1>5. QED
  BY <1>2, <1>3, <1>4 DEF Resume

LEMMA UnreadEarlier ==
  ASSUME NEW i, InnerType(i), NEW c \in Cursor, NEW d \in Cursor,
         NotBefore(d, c)
  PROVE  Ids(Unread(i, d)) \subseteq Ids(Unread(i, c))
<1>1. Unread(i, d) \subseteq Unread(i, c)
  BY FromEarlier, CursorType DEF Unread
<1>2. QED
  BY <1>1 DEF Ids

LEMMA OpenIInv == IInv /\ Open => IInv'
<1> SUFFICES ASSUME IInv, Open PROVE IInv'
  OBVIOUS
<1>1. TypeOK'
  BY OpenType DEF IInv
<1>2. /\ ~Up /\ InnerType(q) /\ InnerType(q') /\ Shape(q)
      /\ q.len[q.write_seg] = q.flushed /\ EndsBy(q, q.flushed)
      /\ cursor_file \in Cursor /\ q.cursor \in Cursor
      /\ q.segments \subseteq Nat /\ q.flushed \in Nat
  BY <1>1 DEF Open, Up, IInv, Files, TypeOK, InnerType
<1>3. PICK w \in q.segments, s \in q.segments, o \in {0, cursor_file.off},
           total \in {TotalLen(q)} :
        LET d == [seg |-> s, off |-> o] IN
        /\ IsNewest(w, q.segments)
        /\ Resume(q, cursor_file, d)
        /\ q' = [q EXCEPT !.write_seg = w,
                          !.write_off = q.len[w],
                          !.flushed = q.len[w],
                          !.write_seg_count =
                             Cardinality({r \in q.recs : r.seg = w}),
                          !.writer = FALSE,
                          !.cursor = d,
                          !.peek = d,
                          !.count = Cardinality(Unread(q, d)),
                          !.bytes = total]
  BY DEF Open
<1> DEFINE d == [seg |-> s, off |-> o]
<1>4. d \in Cursor
  BY <1>2 DEF Cursor
<1>5. w = q.write_seg
  BY <1>2, <1>3 DEF Shape, IsNewest
<1>6. /\ q'.recs = q.recs /\ q'.segments = q.segments
      /\ q'.flushed = q.flushed /\ q'.write_seg = q.write_seg
      /\ q'.write_off = q.flushed /\ q'.cursor = d /\ q'.peek = d
  BY <1>2, <1>3, <1>5 DEF InnerType
<1>7. /\ d.seg \in q.segments
      /\ NotBefore(q.cursor, d) /\ NotBefore(d, cursor_file)
  BY <1>3, <1>4, ResumeBehind
<1> HIDE DEF d
<1>8. Behind(q, d)
  BY <1>2, <1>4, <1>7 DEF Shape, IsNewest, Behind, NotBefore, Cursor
<1>9. OpenShape(q') /\ HandedOut(q') = {}
  BY <1>2, <1>4, <1>6, <1>7, <1>8
     DEF OpenShape, Shape, Behind, EndsBy, NotBefore, HandedOut, Cursor
<1>10. Files'
  BY <1>9 DEF Files, OpenShape, Open, Up
<1>11. CursorFileBehind' /\ BatchCovers'
  BY <1>2, <1>6, <1>7, <1>9
     DEF IInv, CursorFileBehind, BatchCovers, Open, Up, Ids
<1>12. Accounted(q.cursor)'
  <2>1. Ids(Unread(q, q.cursor)) \subseteq Ids(Unread(q, d))
    BY <1>2, <1>4, <1>7, UnreadEarlier
  <2>2. Unread(q', q'.cursor) = Unread(q, d)
    BY <1>6 DEF Unread
  <2>3. UNCHANGED <<stored, sent, evicted, lost>>
    BY DEF Open, ghosts
  <2>4. QED
    BY <2>1, <2>2, <2>3 DEF IInv, Accounted
<1>13. QED
  BY <1>1, <1>10, <1>11, <1>12 DEF IInv

-----------------------------------------------------------------------------
(* The invariant: initially, by every step, and why it is enough.          *)

LEMMA InitIInv == Init => IInv
<1> SUFFICES ASSUME Init PROVE IInv
  OBVIOUS
<1>1. TypeOK /\ InnerType(q)
  BY InitType DEF TypeOK
<1>2. /\ q.recs = {} /\ q.segments = {0} /\ q.write_seg = 0
      /\ q.flushed = 0 /\ q.write_off = 0
      /\ q.cursor = Start /\ q.peek = Start
  BY DEF Init
<1>3. OpenShape(q) /\ HandedOut(q) = {}
  BY <1>1, <1>2
     DEF OpenShape, Shape, Behind, EndsBy, IsNewest, NotBefore, HandedOut, Start
<1>4. QED
  BY <1>1, <1>2, <1>3
     DEF IInv, Files, OpenShape, CursorFileBehind, BatchCovers, Accounted, Init,
         NotBefore, Start, Ids, Up

LEMMA OldestAgeIInv == IInv /\ OldestAge => IInv'
<1> SUFFICES ASSUME IInv, OldestAge PROVE IInv'
  OBVIOUS
<1>1. TypeOK'
  BY OldestAgeType DEF IInv
<1>2. Up /\ OpenShape(q) /\ InnerType(q) /\ InnerType(q')
  BY <1>1, UpShape DEF OldestAge, TypeOK
<1>3. PICK f \in Boundaries(q) : q' = [q EXCEPT !.flushed = f]
  BY DEF OldestAge
<1>4. f \in Nat /\ q.flushed =< f
  BY <1>2, BoundaryBehind
<1>5. f =< q.write_off
  BY <1>2, <1>3 DEF Boundaries, OpenShape, EndsBy, InnerType
<1>6. /\ q'.recs = q.recs /\ q'.segments = q.segments /\ q'.flushed = f
      /\ q'.write_seg = q.write_seg /\ q'.write_off = q.write_off
      /\ q'.cursor = q.cursor /\ q'.peek = q.peek
      /\ q.flushed \in Nat /\ q.cursor \in Cursor /\ q.peek \in Cursor
  BY <1>2, <1>3 DEF InnerType
<1>7. Keeps(q, q', {})
  <2>1. Behind(q', q'.cursor) /\ Behind(q', q'.peek)
    BY <1>2, <1>4, <1>6 DEF OpenShape, Shape, Behind, Cursor
  <2>2. OpenShape(q')
    BY <1>2, <1>5, <1>6, <2>1 DEF OpenShape, Shape, EndsBy
  <2>3. NotBefore(q'.cursor, q.cursor)
    BY <1>6 DEF NotBefore, Cursor
  <2>4. QED
    BY <1>6, <2>2, <2>3 DEF Keeps, HandedOut, Unread
<1>8. Ids({}) = {}
  BY DEF Ids
<1>9. UNCHANGED <<phase, cursor_file, saved, worker, batch, sent, lost,
                  evicted, stored>>
  BY DEF OldestAge, ghosts
<1>10. stored' \subseteq stored
  BY <1>9
<1>11. QED
  BY <1>1, <1>2, <1>7, <1>8, <1>9, <1>10, KeepsIInv

LEMMA StepIInv == IInv /\ [Next]_vars => IInv'
<1> SUFFICES ASSUME IInv, [Next]_vars PROVE IInv'
  OBVIOUS
<1>1. TypeOK'
  BY StepType DEF IInv
<1>2. CASE Push
  BY <1>2, PushIInv
<1>3. CASE PushWriteFails \/ PushDropOldestFails
  BY <1>3, PushFailsIInv
<1>4. CASE PushDropOldest
  BY <1>4, PushDropOldestIInv
<1>5. CASE \/ Arrive \/ PushOpenFails \/ PushDropNewest \/ PushCancelled
           \/ WaitData \/ SendOk \/ SendFails \/ AckUnlock \/ SaveCursor
           \/ SaveCursorFails \/ Cancel \/ Rest \/ UNCHANGED vars
  BY <1>1, <1>5, SameQueueIInv
<1>6. CASE PeekBatch \/ FinalPeek
  <2>1. Up' /\ (PeekFrom("waiting") \/ PeekFrom("peeking"))
    BY <1>6 DEF PeekBatch, FinalPeek, PeekFrom, Worker, Up
  <2>2. QED
    BY <1>1, <2>1, PeekIInv
<1>7. CASE ResetPeek
  BY <1>7, ResetPeekIInv
<1>8. CASE Ack
  BY <1>8, AckIInv
<1>9. CASE AckUnlink
  BY <1>9, AckUnlinkIInv
<1>10. CASE Crash
  <2>1. q.flushed \in Nat /\ q.flushed =< q.flushed
    BY OffsetsType DEF IInv
  <2>2. QED
    BY <1>1, <1>10, <2>1, DownIInv DEF Crash
<1>11. CASE Stop
  <2>1. PICK f \in Boundaries(q) : Down(f)
    BY <1>11 DEF Stop
  <2>2. f \in Nat /\ q.flushed =< f
    BY <2>1, UpShape, BoundaryBehind DEF Down
  <2>3. QED
    BY <1>1, <2>1, <2>2, DownIInv
<1>12. CASE Open
  BY <1>12, OpenIInv
<1>13. CASE OldestAge
  BY <1>13, OldestAgeIInv
<1>14. QED
  BY <1>2, <1>3, <1>4, <1>5, <1>6, <1>7, <1>8, <1>9, <1>10, <1>11, <1>12, <1>13
     DEF Next, Router, Consumer

LEMMA IInvNoSilentLoss == IInv => NoSilentLoss
<1> SUFFICES ASSUME IInv PROVE NoSilentLoss
  OBVIOUS
<1>1. Accounted(q.cursor)
  BY DEF IInv
<1>2. InnerType(q) /\ q.cursor \in Cursor
      /\ cursor_file \in Cursor /\ q.segments \subseteq Nat
  BY DEF IInv, TypeOK, InnerType
<1>3. \A d \in ResumePoints : Accounted(d)
  <2> TAKE d \in ResumePoints
  <2>1. d \in Cursor /\ Resume(q, cursor_file, d)
    BY <1>2 DEF ResumePoints, Cursor
  <2>2. NotBefore(q.cursor, d)
    BY <2>1, ResumeBehind
  <2>3. Ids(Unread(q, q.cursor)) \subseteq Ids(Unread(q, d))
    BY <1>2, <2>1, <2>2, UnreadEarlier
  <2>4. QED
    BY <1>1, <2>3 DEF Accounted
<1>4. QED
  BY <1>1, <1>3 DEF NoSilentLoss

(* No accepted event is silently lost: it has been sent, evicted or        *)
(* destroyed, or is still ahead of the cursor in memory and of every       *)
(* position a restart can resume at.                                       *)
THEOREM NothingSilentlyLost == Spec => []NoSilentLoss
<1>1. Spec => []IInv
  BY InitIInv, StepIInv, PTL DEF Spec
<1>2. QED
  BY <1>1, IInvNoSilentLoss, PTL

(* cursor.json never goes back, whichever saves fail and whatever          *)
(* drop_oldest does between an ack and its save.                           *)
THEOREM CursorFileAdvances == Spec => SavedCursorAdvances
<1>1. Spec => []IInv
  BY InitIInv, StepIInv, PTL DEF Spec
<1>2. IInv /\ [Next]_vars => [NotBefore(cursor_file', cursor_file)]_vars
  <2> SUFFICES ASSUME IInv, Next
               PROVE  NotBefore(cursor_file', cursor_file)
    OBVIOUS
  <2>1. CASE SaveCursor
    BY <2>1 DEF SaveCursor, Worker, IInv, CursorFileBehind
  <2>2. CASE ~SaveCursor
    <3>1. cursor_file' = cursor_file
      BY <2>2
         DEF Next, Router, Consumer, Arrive, Push, PushDropNewest,
             PushDropOldest, PushCancelled, PushWriteFails, PushOpenFails,
             PushDropOldestFails, PushReturns, WaitData, PeekBatch, FinalPeek,
             PeekFrom, ResetPeek, Ack, AckUnlink, AckUnlock, SendOk,
             SendFails, SaveCursorFails, OldestAge, Crash, Cancel, Stop, Down, Open,
             Rest, vars, mech
    <3>2. cursor_file \in Cursor
      BY DEF IInv, TypeOK
    <3>3. QED
      BY <3>1, <3>2 DEF NotBefore, Cursor
  <2>3. QED
    BY <2>1, <2>2
<1>3. QED
  BY <1>1, <1>2, PTL DEF Spec, SavedCursorAdvances

-----------------------------------------------------------------------------
(* The queue implements Delivery, for every size, policy and bound,        *)
(* whatever fails and wherever the process ends.  Then, from the same      *)
(* order, that a restart resends no more than one batch, and that the      *)
(* queue's counters agree with its files.                                  *)

Pending == Ids(Unread(q, q.cursor))
Gone == evicted \cup lost

(* Record r lies in front of record s.                                     *)
Before(r, s) == r.seg < s.seg \/ (r.seg = s.seg /\ r.end < s.end)

(* Records lie in the files in the order of their events' arrival, and no  *)
(* event has two.                                                          *)
RecOrder(i) ==
  \A r, s \in i.recs :
    r = s \/ (r.id < s.id /\ Before(r, s)) \/ (s.id < r.id /\ Before(s, r))

(* The batch is still owed or gone, and older than what is to be peeked.   *)
BatchAhead(i) ==
  /\ batch \subseteq Ids(Unread(i, i.cursor)) \cup Gone
  /\ \A b \in batch, r \in i.recs : From(r, i.peek) => b < r.id

(* A restart finds nothing in front of the cursor but what was sent ...    *)
PassedSent(i) == \A r \in i.recs : From(r, i.cursor) \/ r.id \in sent

(* ... and nothing confirmed behind the position in cursor.json.           *)
ConfirmedBehind(i) ==
  /\ confirmed \subseteq sent
  /\ \A r \in i.recs : r.id \in confirmed => ~From(r, cursor_file)

Orderly(i) == RecOrder(i) /\ BatchAhead(i) /\ PassedSent(i) /\ ConfirmedBehind(i)

(* What the queue has seen arrived before the event the router holds.      *)
Known == Ids(q.recs) \cup sent \cup Gone
ArrivedInOrder ==
  /\ \A e \in Known : e \in 1 .. arrived /\ (incoming # NoEvent => e < incoming.id)
  /\ incoming # NoEvent => incoming.id = arrived

(* The inductive invariant.                                                *)
DInv == IInv /\ Orderly(q) /\ ArrivedInOrder

(* A step of the promise, or a stutter of it.                              *)
PromiseStep == [Promise!Next]_(Promise!vars)

-----------------------------------------------------------------------------
(* What a step must do to be one of the promise's.                         *)

LEMMA AcceptStep ==
  ASSUME NEW e \in EventIds, \A s \in Pending \cup sent \cup Gone : s < e,
         Pending' = Pending \cup {e}, UNCHANGED <<sent, confirmed, evicted, lost>>
  PROVE  PromiseStep
  BY DEF PromiseStep, Promise!Next, Promise!Accept, Promise!Seen, Pending, Gone

LEMMA DiscardStep ==
  ASSUME NEW E \in SUBSET EventIds, Pending' = Pending \ E,
         Gone' = Gone \cup E, UNCHANGED <<sent, confirmed>>
  PROVE  PromiseStep
  BY DEF PromiseStep, Promise!Next, Promise!Discard, Pending, Gone

LEMMA DeliverStep ==
  ASSUME NEW E \in SUBSET EventIds, E \subseteq Pending \cup Gone,
         \A e \in E, p \in Pending : p < e => p \in E \cup sent,
         sent' = sent \cup E, UNCHANGED <<q, confirmed, evicted, lost>>
  PROVE  PromiseStep
  BY DEF PromiseStep, Promise!Next, Promise!Deliver, Promise!Seen, Pending, Gone

LEMMA SettleStep ==
  ASSUME NEW E \in SUBSET EventIds, E \subseteq sent, Pending' = Pending \ E,
         UNCHANGED <<sent, confirmed, evicted, lost>>
  PROVE  PromiseStep
  BY DEF PromiseStep, Promise!Next, Promise!Settle, Pending

LEMMA ConfirmStep ==
  ASSUME NEW E \in SUBSET EventIds, E \subseteq sent \ Pending,
         confirmed' = confirmed \cup E, UNCHANGED <<q, sent, evicted, lost>>
  PROVE  PromiseStep
  BY DEF PromiseStep, Promise!Next, Promise!Confirm, Pending

LEMMA ReturnStep ==
  ASSUME NEW E \in SUBSET EventIds, E \subseteq sent \ confirmed,
         Pending' = Pending \cup E, UNCHANGED <<sent, confirmed, evicted, lost>>
  PROVE  PromiseStep
  BY DEF PromiseStep, Promise!Next, Promise!Return, Pending

LEMMA StutterStep ==
  ASSUME Pending' = Pending, UNCHANGED <<sent, confirmed, evicted, lost>>
  PROVE  PromiseStep
  BY DEF PromiseStep, Promise!vars, Pending

-----------------------------------------------------------------------------
(* The operators of DiskQueueInner that take records away.                 *)

(* j has some of i's records, and reads them from the same place on.       *)
Follows(i, j) ==
  /\ j.recs \subseteq i.recs
  /\ \A r \in j.recs : From(r, j.cursor) <=> From(r, i.cursor)
  /\ \A r \in j.recs : From(r, j.peek) => From(r, i.peek)

LEMMA ReconcileFollows ==
  ASSUME NEW i, InnerType(i), NEW f \in Nat
  PROVE  Follows(i, ReconcileWriteSegment(i, f))
  BY DEF Follows, InnerType, ReconcileWriteSegment, DiscardBuffer, OnDisk

LEMMA NewSegmentFollows ==
  ASSUME NEW i, InnerType(i)
  PROVE  Follows(i, NewSegment(i)) /\ NewSegment(i).recs = i.recs
  BY DEF Follows, InnerType, NewSegment

LEMMA CloseWriterFollows ==
  ASSUME NEW i, InnerType(i)
  PROVE  Follows(i, CloseWriter(i)) /\ CloseWriter(i).recs = i.recs
  BY DEF Follows, InnerType, CloseWriter

LEMMA RollFollows ==
  ASSUME NEW i, OpenShape(i), NEW r \in RollSegment(i)
  PROVE  /\ Follows(i, r.inner)
         /\ \/ r.inner.recs = i.recs
            \/ \A x \in r.inner.recs : x.seg = i.write_seg => x.end < i.write_off
<1>1. InnerType(i)
  BY DEF OpenShape, Shape
<1>2. CASE \E f \in Boundaries(i) \ {i.write_off} :
             r = [inner |-> ReconcileWriteSegment(i, f), fault |-> "flush"]
  <2>1. PICK f \in Boundaries(i) \ {i.write_off} :
               r = [inner |-> ReconcileWriteSegment(i, f), fault |-> "flush"]
    BY <1>2
  <2>2. f \in Nat /\ f < i.write_off
    BY <1>1, <2>1 DEF Boundaries, OpenShape, EndsBy, InnerType, Record
  <2>3. ReconcileWriteSegment(i, f).recs = OnDisk(i, f)
    BY <1>1 DEF InnerType, ReconcileWriteSegment, DiscardBuffer
  <2>4. \A x \in OnDisk(i, f) : x.seg = i.write_seg => x.end < i.write_off
    BY <1>1, <2>2 DEF OnDisk, InnerType, Record
  <2>5. QED
    BY <1>1, <2>1, <2>2, <2>3, <2>4, ReconcileFollows
<1>3. CASE r \in {[inner |-> NewSegment(i), fault |-> "none"],
                  [inner |-> CloseWriter(i), fault |-> "create"]}
  BY <1>1, <1>3, NewSegmentFollows, CloseWriterFollows
<1>4. QED
  BY <1>2, <1>3 DEF RollSegment

LEMMA UnlinkFollows ==
  ASSUME NEW i, InnerType(i), NEW s \in i.segments
  PROVE  Follows(i, DropSegment(i, s))
  BY DEF Follows, InnerType, DropSegment

(* Eviction moves the cursor only past records that go with the segment.   *)
LEMMA EvictFollows ==
  ASSUME NEW i, OpenShape(i), NEW s \in i.segments, IsOldest(s, i.segments),
         NEW next \in i.segments, IsOldest(next, i.segments \ {s})
  PROVE  /\ Follows(i, EvictSegment(i, s, next))
         /\ EvictSegment(i, s, next).recs = {r \in i.recs : r.seg # s}
<1> DEFINE k == EvictSegment(i, s, next)
           to == IF i.cursor.seg =< s THEN [seg |-> next, off |-> 0]
                                      ELSE i.cursor
           p == IF i.peek.seg =< s THEN to ELSE i.peek
<1>1. InnerType(i)
  BY DEF OpenShape, Shape
<1>2. k.recs = {r \in i.recs : r.seg # s} /\ k.cursor = to /\ k.peek = p
  BY <1>1 DEF InnerType, EvictSegment, DropSegment
<1>3. /\ i.cursor \in Cursor /\ i.peek \in Cursor /\ i.recs \subseteq Record
      /\ i.segments \subseteq Nat /\ s \in Nat /\ next \in Nat
      /\ NotBefore(i.peek, i.cursor)
      /\ \A r \in i.recs : r.seg \in i.segments /\ 0 < r.end
  BY <1>1 DEF InnerType, OpenShape, Shape
<1>4. s < next /\ \A t \in i.segments \ {s} : next =< t
  BY <1>3 DEF IsOldest
<1> HIDE DEF k
<1>5. /\ \A r \in k.recs : From(r, to) <=> From(r, i.cursor)
      /\ \A r \in k.recs : From(r, p) => From(r, i.peek)
  <2> SUFFICES ASSUME NEW r \in k.recs
               PROVE  /\ From(r, to) <=> From(r, i.cursor)
                      /\ From(r, p) => From(r, i.peek)
    OBVIOUS
  <2>1. r \in Record /\ next =< r.seg /\ 0 < r.end
    BY <1>2, <1>3, <1>4
  <2>2. From(r, to) <=> From(r, i.cursor)
    BY <1>3, <1>4, <2>1 DEF From, Record, Cursor
  <2>3. CASE i.peek.seg =< s
    BY <1>3, <1>4, <2>1, <2>3 DEF From, Record, Cursor
  <2>4. QED
    BY <2>2, <2>3
<1> HIDE DEF to, p
<1>6. Follows(i, k)
  BY <1>2, <1>5 DEF Follows
<1>7. QED
  BY <1>2, <1>6 DEF k

LEMMA FollowsTrans ==
  ASSUME NEW i, NEW j, NEW k, Follows(i, j), Follows(j, k)
  PROVE  Follows(i, k)
  BY DEF Follows

(* No event has two records, so a record that goes takes its event along.  *)
LEMMA RemovedDisjoint ==
  ASSUME NEW i, InnerType(i), RecOrder(i), NEW R, R \subseteq i.recs,
         NEW S, S \subseteq i.recs, R \cap S = {}
  PROVE  Ids(R) \cap Ids(S) = {}
  BY DEF InnerType, Record, RecOrder, Ids

LEMMA FollowsOrderly ==
  ASSUME NEW i, Orderly(i), Follows(i, q'), NEW E, Gone' = Gone \cup E,
         E \cap Ids(q'.recs) = {}, Ids(Unread(i, i.cursor) \ q'.recs) \subseteq E,
         UNCHANGED <<sent, confirmed, cursor_file>>, batch' \in {batch, {}}
  PROVE  Orderly(q)' /\ Pending' = Ids(Unread(i, i.cursor)) \ E
<1>1. Unread(q, q.cursor)' = Unread(i, i.cursor) \cap q'.recs
  BY DEF Unread, Follows
<1>2. Pending' = Ids(Unread(i, i.cursor)) \ E
  BY <1>1 DEF Pending, Ids, Unread
<1>3. BatchAhead(q)'
  BY <1>2 DEF Orderly, BatchAhead, Pending, Follows
<1>4. RecOrder(q)' /\ PassedSent(q)' /\ ConfirmedBehind(q)'
  BY DEF Orderly, RecOrder, PassedSent, ConfirmedBehind, Follows
<1>5. QED
  BY <1>2, <1>3, <1>4 DEF Orderly

-----------------------------------------------------------------------------
(* Every step keeps the invariant, and is a step of the promise.           *)

LEMMA KnownEvents ==
  ASSUME DInv
  PROVE  /\ Known \subseteq EventIds /\ Pending \subseteq Known
         /\ batch \subseteq Known /\ InnerType(q) /\ arrived \in Nat
<1>1. TypeOK /\ arrived \in 0 .. MaxEvents /\ InnerType(q)
  BY DEF DInv, IInv, TypeOK
<1>2. Pending \subseteq Known
  BY DEF Pending, Known, Ids, Unread
<1>3. batch \subseteq Known
  BY <1>2 DEF DInv, Orderly, BatchAhead, Pending, Known
<1>4. Known \subseteq EventIds
  BY <1>1, BoundAssumption DEF DInv, ArrivedInOrder, EventIds
<1>5. QED
  BY <1>1, <1>2, <1>3, <1>4

LEMMA QuietDelivers ==
  ASSUME DInv, IInv', ArrivedInOrder', Follows(q, q'),
         Unread(q, q.cursor) \subseteq q'.recs, batch' \in {batch, {}},
         UNCHANGED <<sent, confirmed, evicted, lost, cursor_file>>
  PROVE  DInv' /\ PromiseStep
<1>1. Gone' = Gone \cup {} /\ Ids(Unread(q, q.cursor) \ q'.recs) \subseteq {}
  BY DEF Gone, Ids
<1>2. Orderly(q)' /\ Pending' = Pending
  BY <1>1, FollowsOrderly DEF DInv, Pending
<1>3. QED
  BY <1>2, StutterStep DEF DInv

LEMMA FollowsSelf ==
  ASSUME NEW i, NEW j, j.recs = i.recs, j.cursor = i.cursor, j.peek = i.peek
  PROVE  Follows(i, j)
  BY DEF Follows

(* Steps that leave the queue, or what is read from it, alone.             *)
LEMMA SameQueueDelivers ==
  ASSUME DInv, IInv',
         \/ Arrive \/ PushOpenFails \/ PushDropNewest \/ PushCancelled
         \/ WaitData \/ AckUnlock \/ SaveCursorFails \/ Cancel
         \/ OldestAge \/ Rest \/ UNCHANGED vars
  PROVE  DInv' /\ PromiseStep
<1>1. InnerType(q) /\ arrived \in Nat
  BY KnownEvents
<1>2. /\ UNCHANGED <<sent, confirmed, evicted, lost, cursor_file, batch>>
      /\ \/ q' = q
         \/ \E f \in Boundaries(q) : q' = [q EXCEPT !.flushed = f]
      /\ \/ arrived' = arrived /\ incoming' \in {incoming, NoEvent}
         \/ \E n \in Lens : /\ incoming' = [id |-> arrived + 1, len |-> n]
                            /\ arrived' = arrived + 1
  BY DEF Arrive, PushOpenFails, PushDropNewest, PushCancelled, PushReturns,
         WaitData, AckUnlock, SaveCursorFails, Worker, Cancel, OldestAge, Rest,
         vars, mech, ghosts
<1>3. q'.recs = q.recs /\ q'.cursor = q.cursor /\ q'.peek = q.peek
  BY <1>1, <1>2 DEF InnerType
<1>4. Follows(q, q') /\ Unread(q, q.cursor) \subseteq q'.recs
  BY <1>3, FollowsSelf DEF Unread
<1>5. Known' = Known
  BY <1>2, <1>3 DEF Known, Gone
<1>6. ArrivedInOrder'
  <2>1. CASE arrived' = arrived /\ incoming' \in {incoming, NoEvent}
    BY <1>5, <2>1 DEF DInv, ArrivedInOrder
  <2>2. CASE \E n \in Lens : /\ incoming' = [id |-> arrived + 1, len |-> n]
                            /\ arrived' = arrived + 1
    <3>1. \A e \in Known : e \in 1 .. arrived
      BY DEF DInv, ArrivedInOrder
    <3>2. incoming'.id = arrived + 1
      BY <2>2
    <3>3. QED
      BY <1>1, <1>5, <2>2, <3>1, <3>2 DEF ArrivedInOrder
  <2>3. QED
    BY <1>2, <2>1, <2>2
<1>7. QED
  BY <1>2, <1>4, <1>6, QuietDelivers

LEMMA AckUnlinkDelivers ==
  ASSUME DInv, IInv', AckUnlink
  PROVE  DInv' /\ PromiseStep /\ Follows(q, q')
<1>1. InnerType(q)
  BY KnownEvents
<1>2. PICK s \in Consumed : q' = DropSegment(q, s)
  BY DEF AckUnlink
<1>3. s \in q.segments /\ s < q.cursor.seg
  BY <1>2 DEF Consumed
<1>4. Follows(q, q') /\ q'.recs = {r \in q.recs : r.seg # s}
  BY <1>1, <1>2, <1>3, UnlinkFollows DEF DropSegment, InnerType
<1>5. Unread(q, q.cursor) \subseteq q'.recs
  BY <1>1, <1>3, <1>4 DEF Unread, From, InnerType, Record, Cursor
<1>6. UNCHANGED <<sent, confirmed, evicted, lost, cursor_file, batch, arrived,
                  incoming>>
  BY DEF AckUnlink, Worker
<1>7. Known' \subseteq Known
  BY <1>4, <1>6 DEF Known, Gone, Ids
<1>8. ArrivedInOrder'
  BY <1>6, <1>7 DEF DInv, ArrivedInOrder
<1>9. QED
  BY <1>4, <1>5, <1>6, <1>8, QuietDelivers

(* Records go and their events are counted as gone.                        *)
LEMMA RemovalDelivers ==
  ASSUME DInv, IInv', Follows(q, q'), NEW R, R \subseteq q.recs \ q'.recs,
         Unread(q, q.cursor) \subseteq q'.recs \cup R, Gone' = Gone \cup Ids(R),
         UNCHANGED <<sent, confirmed, cursor_file, batch, arrived>>,
         incoming' \in {incoming, NoEvent}
  PROVE  DInv' /\ PromiseStep
<1>1. Ids(R) \subseteq Known /\ Known \subseteq EventIds /\ InnerType(q)
  BY KnownEvents DEF Known, Ids
<1>2. Ids(R) \cap Ids(q'.recs) = {}
  BY <1>1, RemovedDisjoint DEF DInv, Orderly, Follows
<1>3. Ids(Unread(q, q.cursor) \ q'.recs) \subseteq Ids(R)
  BY DEF Ids
<1>4. Orderly(q)' /\ Pending' = Pending \ Ids(R)
  BY <1>2, <1>3, FollowsOrderly DEF DInv, Pending
<1>5. Known' \subseteq Known
  BY <1>1 DEF Known, Follows, Ids
<1>6. ArrivedInOrder'
  BY <1>5 DEF DInv, ArrivedInOrder
<1>7. PromiseStep
  BY <1>1, <1>4, DiscardStep
<1>8. QED
  BY <1>4, <1>6, <1>7 DEF DInv

LEMMA PushWriteFailsDelivers ==
  ASSUME DInv, IInv', PushWriteFails
  PROVE  DInv' /\ PromiseStep /\ Follows(q, q')
<1> DEFINE kept(f) == ReconcileWriteSegment(q, f)
<1>1. PICK f \in Boundaries(q) :
        /\ q' \in {NewSegment(kept(f)), kept(f)}
        /\ lost' = lost \cup Ids(q.recs \ kept(f).recs)
  BY DEF PushWriteFails
<1>2. InnerType(q) /\ f \in Nat
  BY KnownEvents, BoundariesType
<1> DEFINE k == ReconcileWriteSegment(q, f)
<1>3. InnerType(k) /\ Follows(q, k)
  BY <1>2, ReconcileType, ReconcileFollows
<1>4. Follows(k, q') /\ q'.recs = k.recs
  <2> HIDE DEF k
  <2>1. q' \in {NewSegment(k), k}
    BY <1>1 DEF k
  <2>2. QED
    BY <1>3, <2>1, NewSegmentFollows, FollowsSelf
<1>5. lost' = lost \cup Ids(q.recs \ q'.recs)
  BY <1>1, <1>4
<1> HIDE DEF k
<1>6. Follows(q, q')
  BY <1>3, <1>4, FollowsTrans
<1>7. /\ UNCHANGED <<sent, confirmed, cursor_file, batch, arrived, evicted>>
      /\ incoming' = NoEvent
  BY DEF PushWriteFails, PushReturns
<1> DEFINE R == q.recs \ q'.recs
<1>8. Gone' = Gone \cup Ids(R)
  BY <1>5, <1>7 DEF Gone
<1>9. Unread(q, q.cursor) \subseteq q'.recs \cup R
  BY DEF Unread
<1> HIDE DEF R
<1>10. R \subseteq q.recs \ q'.recs
  BY DEF R
<1>11. QED
  BY <1>6, <1>7, <1>8, <1>9, <1>10, RemovalDelivers

LEMMA PushDropOldestFailsDelivers ==
  ASSUME DInv, IInv', PushDropOldestFails
  PROVE  DInv' /\ PromiseStep /\ Follows(q, q')
<1>1. OpenShape(q)
  BY UpShape DEF DInv, PushDropOldestFails, Pushing
<1>2. Follows(q, q') /\ lost' = lost \cup Ids(q.recs \ q'.recs)
  <2>1. PICK r \in RollSegment(q) :
          q' = r.inner /\ lost' = lost \cup Ids(q.recs \ r.inner.recs)
    BY DEF PushDropOldestFails
  <2>2. QED
    BY <1>1, <2>1, RollFollows
<1>3. /\ UNCHANGED <<sent, confirmed, cursor_file, batch, arrived, evicted>>
      /\ incoming' = NoEvent
  BY DEF PushDropOldestFails, PushReturns
<1> DEFINE R == q.recs \ q'.recs
<1>4. Gone' = Gone \cup Ids(R)
  BY <1>2, <1>3 DEF Gone
<1>5. Unread(q, q.cursor) \subseteq q'.recs \cup R
  BY DEF Unread
<1> HIDE DEF R
<1>6. R \subseteq q.recs \ q'.recs
  BY DEF R
<1>7. QED
  BY <1>2, <1>3, <1>4, <1>5, <1>6, RemovalDelivers

LEMMA PushDropOldestDelivers ==
  ASSUME DInv, IInv', PushDropOldest
  PROVE  DInv' /\ PromiseStep /\ Follows(q, q')
<1>1. OpenShape(q) /\ InnerType(q)
  BY UpShape DEF DInv, PushDropOldest, Pushing
<1> DEFINE start(s) == IF s = q.write_seg THEN NewSegment(q) ELSE q
<1>2. PICK s \in q.segments :
        /\ IsOldest(s, q.segments)
        /\ \E next \in start(s).segments :
             /\ IsOldest(next, start(s).segments \ {s})
             /\ q' = EvictSegment(start(s), s, next)
             /\ evicted' = evicted \cup
                  Ids({r \in Unread(start(s), start(s).cursor) : r.seg = s})
  BY DEF PushDropOldest
<1> DEFINE k == IF s = q.write_seg THEN NewSegment(q) ELSE q
<1>3. OpenShape(k) /\ Follows(q, k) /\ k.recs = q.recs /\ k.cursor = q.cursor
  <2>1. NewSegment(q).cursor = q.cursor
    BY <1>1 DEF InnerType, NewSegment
  <2>2. OpenShape(NewSegment(q))
    BY <1>1, NewSegmentKeeps DEF Keeps
  <2>3. QED
    BY <1>1, <2>1, <2>2, NewSegmentFollows, FollowsSelf
<1>4. s \in k.segments /\ IsOldest(s, k.segments)
  <2>1. CASE s = q.write_seg
    <3>1. k.segments = q.segments \cup {s + 1} /\ s \in Nat
      BY <1>1, <2>1 DEF InnerType, NewSegment
    <3>2. QED  BY <1>2, <3>1 DEF IsOldest
  <2>2. CASE s # q.write_seg
    BY <1>2, <2>2
  <2>3. QED  BY <2>1, <2>2
<1>5. \E next \in k.segments :
        /\ IsOldest(next, k.segments \ {s})
        /\ q' = EvictSegment(k, s, next)
  BY <1>2
<1>6. evicted' = evicted \cup Ids({r \in Unread(k, k.cursor) : r.seg = s})
  BY <1>2
<1> HIDE DEF k
<1> DEFINE R == {r \in Unread(q, q.cursor) : r.seg = s}
<1>7. evicted' = evicted \cup Ids(R)
  BY <1>3, <1>6 DEF Unread
<1>8. Follows(k, q') /\ q'.recs = {r \in k.recs : r.seg # s}
  <2>1. PICK next \in k.segments :
          /\ IsOldest(next, k.segments \ {s})
          /\ q' = EvictSegment(k, s, next)
    BY <1>5
  <2>2. Follows(k, EvictSegment(k, s, next))
    BY <1>3, <1>4, <2>1, EvictFollows
  <2>3. EvictSegment(k, s, next).recs = {r \in k.recs : r.seg # s}
    BY <1>3, <1>4, <2>1, EvictFollows
  <2>4. QED
    BY <2>1, <2>2, <2>3
<1>9. Follows(q, q')
  BY <1>3, <1>8, FollowsTrans
<1>10. R \subseteq q.recs \ q'.recs /\ Unread(q, q.cursor) \subseteq q'.recs \cup R
  BY <1>3, <1>8 DEF Unread
<1> HIDE DEF R
<1>11. UNCHANGED <<sent, confirmed, cursor_file, batch, arrived, incoming, lost>>
  BY DEF PushDropOldest
<1>12. Gone' = Gone \cup Ids(R)
  BY <1>7, <1>11 DEF Gone
<1>13. QED
  BY <1>9, <1>10, <1>11, <1>12, RemovalDelivers

(* A batch is handed out in order, and what is older and owed is in it.    *)
LEMMA SendsOldest ==
  ASSUME DInv, SendOk \/ SendFails
  PROVE  \E E \in SUBSET batch :
           /\ sent' = sent \cup E
           /\ \A e \in E, p \in Pending : p < e => p \in E
<1>1. PICK E \in SUBSET batch :
        /\ sent' = sent \cup E
        /\ \A e \in E, b \in batch : b < e => b \in E
  <2>1. CASE SendOk
    BY <2>1 DEF SendOk
  <2>2. CASE SendFails
    <3>1. PICK k \in batch \cup {0} : sent' = sent \cup {b \in batch : b =< k}
      BY <2>2 DEF SendFails
    <3>2. batch \subseteq Nat
      BY DEF DInv, IInv, TypeOK
    <3>3. \A e \in {b \in batch : b =< k}, b \in batch : b < e => b =< k
      BY <3>2
    <3>4. QED
      BY <3>1, <3>3
  <2>3. QED
    BY <2>1, <2>2
<1>2. Up
  BY DEF SendOk, SendFails, Worker
<1>3. batch \subseteq Nat /\ Pending \subseteq Nat
  BY KnownEvents DEF EventIds
<1>4. \A e \in E, p \in Pending : p < e => p \in E
  <2> SUFFICES ASSUME NEW e \in E, NEW p \in Pending, p < e
               PROVE  p \in batch
    BY <1>1
  <2>1. PICK r \in Unread(q, q.cursor) : p = r.id
    BY DEF Pending, Ids
  <2>2. CASE From(r, q.peek)
    <3>1. e < p
      BY <2>1, <2>2 DEF DInv, Orderly, BatchAhead, Unread
    <3>2. e \in Nat /\ p \in Nat
      BY <1>3
    <3>3. QED  BY <3>1, <3>2
  <2>3. CASE ~From(r, q.peek)
    <3>1. r \in HandedOut(q)
      BY <2>1, <2>3 DEF HandedOut, Unread
    <3>2. QED
      BY <1>2, <2>1, <3>1 DEF DInv, IInv, BatchCovers, Ids
  <2>4. QED  BY <2>2, <2>3
<1>5. QED
  BY <1>1, <1>4

LEMMA SendDelivers ==
  ASSUME DInv, IInv', SendOk \/ SendFails
  PROVE  DInv' /\ PromiseStep
<1>1. PICK E \in SUBSET batch :
        /\ sent' = sent \cup E
        /\ \A e \in E, p \in Pending : p < e => p \in E
  BY SendsOldest
<1>2. /\ Up /\ UNCHANGED <<q, confirmed, evicted, lost, batch, cursor_file,
                           arrived, incoming>>
  BY DEF SendOk, SendFails, Worker
<1>3. /\ batch \subseteq Pending \cup Gone /\ batch \subseteq Known
      /\ Known \subseteq EventIds /\ EventIds \subseteq Nat
      /\ Pending \subseteq Known
  BY KnownEvents DEF DInv, Orderly, BatchAhead, Pending, EventIds
<1>5. Orderly(q)'
  BY <1>1, <1>2 DEF DInv, Orderly, RecOrder, BatchAhead, PassedSent,
                    ConfirmedBehind, Gone
<1>6. ArrivedInOrder'
  <2>1. Known' \subseteq Known
    BY <1>1, <1>2, <1>3 DEF Known, Gone
  <2>2. QED
    BY <1>2, <2>1 DEF DInv, ArrivedInOrder
<1>7. PromiseStep
  BY <1>1, <1>2, <1>3, DeliverStep
<1>8. QED
  BY <1>5, <1>6, <1>7 DEF DInv

LEMMA SaveCursorDelivers ==
  ASSUME DInv, IInv', SaveCursor
  PROVE  DInv' /\ PromiseStep
<1> DEFINE E == sent \ Ids(Unread(q, saved))
<1>1. /\ cursor_file' = saved /\ confirmed' = confirmed \cup E
      /\ UNCHANGED <<q, sent, evicted, lost, batch, arrived, incoming>>
  BY DEF SaveCursor, Worker
<1>2. /\ InnerType(q) /\ q.cursor \in Cursor /\ saved \in Cursor
      /\ cursor_file \in Cursor /\ q.recs \subseteq Record
      /\ NotBefore(q.cursor, saved) /\ NotBefore(saved, cursor_file)
  BY CursorType DEF DInv, IInv, TypeOK, CursorFileBehind, SaveCursor, Worker
<1>3. E \in SUBSET EventIds /\ E \subseteq sent \ Pending
  <2>1. Pending \subseteq Ids(Unread(q, saved))
    BY <1>2, UnreadEarlier DEF Pending
  <2>2. QED
    BY <2>1, KnownEvents DEF Known
<1>4. PromiseStep
  <2> HIDE DEF E
  <2> QED  BY <1>1, <1>3, ConfirmStep
<1>5. ConfirmedBehind(q)'
  <2>1. \A r \in q.recs : r.id \in confirmed => ~From(r, saved)
    BY <1>2, FromEarlier DEF DInv, Orderly, ConfirmedBehind
  <2>2. \A r \in q.recs : r.id \in E => ~From(r, saved)
    BY DEF Ids, Unread
  <2>3. QED
    BY <1>1, <2>1, <2>2 DEF DInv, Orderly, ConfirmedBehind
<1>6. Orderly(q)' /\ ArrivedInOrder'
  BY <1>1, <1>5 DEF DInv, Orderly, RecOrder, BatchAhead, PassedSent, Gone,
                    ArrivedInOrder, Known
<1>7. QED
  BY <1>4, <1>6 DEF DInv

(* The new batch lies between the old peek position and the new one.       *)
LEMMA PeekDelivers ==
  ASSUME DInv, IInv', NEW state \in {"waiting", "peeking"}, PeekFrom(state)
  PROVE  DInv' /\ PromiseStep
<1>1. Up /\ OpenShape(q) /\ InnerType(q)
  BY UpShape DEF PeekFrom, Worker, DInv
<1>2. PICK f \in Boundaries(q), t \in q.segments :
        \E o \in {0, f} \cup {r.end : r \in q.recs} :
          PeekTo(f, [seg |-> t, off |-> o])
  BY DEF PeekFrom
<1>3. PICK o \in {0, f} \cup {r.end : r \in q.recs} :
        PeekTo(f, [seg |-> t, off |-> o])
  BY <1>2
<1> DEFINE p == [seg |-> t, off |-> o]
           got == {r \in OnDisk(q, f) : From(r, q.peek) /\ ~From(r, p)}
<1>4. q' = [q EXCEPT !.flushed = f, !.peek = p] /\ batch' = Ids(got)
  BY <1>3 DEF PeekTo
<1>5. /\ q.recs \subseteq Record /\ q.peek \in Cursor /\ q.cursor \in Cursor
      /\ NotBefore(q.peek, q.cursor) /\ f \in Nat /\ q.segments \subseteq Nat
  BY <1>1, BoundariesType DEF InnerType, OpenShape
<1>6. p \in Cursor
  BY <1>5 DEF Cursor, Record
<1> HIDE DEF p
<1>7. q'.recs = q.recs /\ q'.cursor = q.cursor /\ q'.peek = p
  BY <1>1, <1>4 DEF InnerType
<1>8. UNCHANGED <<sent, confirmed, evicted, lost, cursor_file, arrived, incoming>>
  BY DEF PeekFrom, Worker
<1>9. got \subseteq Unread(q, q.cursor)
  BY <1>5, FromEarlier DEF OnDisk, Unread
<1>10. \A x \in got, r \in q.recs : From(r, p) => x.id < r.id
  <2> SUFFICES ASSUME NEW x \in got, NEW r \in q.recs, From(r, p)
               PROVE  x.id < r.id
    OBVIOUS
  <2>1. x \in Record /\ r \in Record /\ x \in q.recs /\ ~From(x, p)
    BY <1>5 DEF OnDisk
  <2>2. x # r /\ ~Before(r, x)
    BY <1>6, <2>1 DEF From, Before, Record, Cursor
  <2>3. QED
    BY <2>1, <2>2 DEF DInv, Orderly, RecOrder
<1>11. BatchAhead(q)'
  <2>1. batch' \subseteq Ids(Unread(q, q.cursor)')
    BY <1>4, <1>7, <1>9 DEF Ids, Unread
  <2>2. \A b \in batch', r \in q.recs : From(r, p) => b < r.id
    BY <1>4, <1>10 DEF Ids
  <2>3. QED
    BY <1>7, <2>1, <2>2 DEF BatchAhead
<1>12. Orderly(q)'
  BY <1>7, <1>8, <1>11 DEF DInv, Orderly, RecOrder, PassedSent, ConfirmedBehind
<1>13. ArrivedInOrder' /\ Pending' = Pending
  BY <1>7, <1>8 DEF DInv, ArrivedInOrder, Known, Gone, Pending, Unread
<1>14. QED
  BY <1>8, <1>12, <1>13, StutterStep DEF DInv

LEMMA ResetPeekDelivers ==
  ASSUME DInv, IInv', ResetPeek
  PROVE  DInv' /\ PromiseStep
<1>1. /\ q'.recs = q.recs /\ q'.cursor = q.cursor /\ batch' = {}
      /\ UNCHANGED <<sent, confirmed, evicted, lost, cursor_file, arrived, incoming>>
  BY KnownEvents DEF ResetPeek, Worker, InnerType
<1>2. Orderly(q)'
  BY <1>1 DEF DInv, Orderly, RecOrder, BatchAhead, PassedSent, ConfirmedBehind
<1>3. ArrivedInOrder' /\ Pending' = Pending
  BY <1>1 DEF DInv, ArrivedInOrder, Known, Gone, Pending, Unread
<1>4. QED
  BY <1>1, <1>2, <1>3, StutterStep DEF DInv

LEMMA AckDelivers ==
  ASSUME DInv, IInv', Ack
  PROVE  DInv' /\ PromiseStep
<1>1. OpenShape(q) /\ InnerType(q) /\ Ids(HandedOut(q)) \subseteq sent
  BY UpShape DEF Ack, Worker, DInv, IInv, BatchCovers
<1>2. /\ q'.recs = q.recs /\ q'.cursor = q.peek /\ batch' = {}
      /\ UNCHANGED <<sent, confirmed, evicted, lost, cursor_file, arrived, incoming>>
  BY <1>1 DEF Ack, Worker, InnerType
<1>3. PassedSent(q)'
  <2> SUFFICES ASSUME NEW r \in q.recs, ~From(r, q.peek) PROVE r.id \in sent
    BY <1>2 DEF PassedSent
  <2>1. CASE From(r, q.cursor)
    BY <1>1, <2>1 DEF HandedOut, Ids
  <2>2. CASE ~From(r, q.cursor)
    BY <2>2 DEF DInv, Orderly, PassedSent
  <2>3. QED  BY <2>1, <2>2
<1>4. Orderly(q)'
  BY <1>2, <1>3 DEF DInv, Orderly, RecOrder, BatchAhead, ConfirmedBehind
<1>5. ArrivedInOrder'
  BY <1>2 DEF DInv, ArrivedInOrder, Known, Gone
<1> DEFINE E == Ids(HandedOut(q))
<1>6. Pending' = Pending \ E
  <2>1. /\ Unread(q, q.cursor) = HandedOut(q) \cup Unread(q, q.peek)
        /\ HandedOut(q) \cap Unread(q, q.peek) = {}
        /\ HandedOut(q) \subseteq q.recs /\ Unread(q, q.peek) \subseteq q.recs
    <3>1. q.recs \subseteq Record /\ q.peek \in Cursor /\ q.cursor \in Cursor
          /\ NotBefore(q.peek, q.cursor)
      BY <1>1 DEF InnerType, OpenShape
    <3>2. \A r \in q.recs : From(r, q.peek) => From(r, q.cursor)
      BY <3>1, FromEarlier
    <3>3. QED
      BY <3>2 DEF Unread, HandedOut
  <2>2. E \cap Ids(Unread(q, q.peek)) = {}
    BY <1>1, <2>1, RemovedDisjoint DEF DInv, Orderly
  <2>3. Pending = E \cup Ids(Unread(q, q.peek))
    BY <2>1 DEF Pending, Ids
  <2>4. Pending' = Ids(Unread(q, q.peek))
    BY <1>2 DEF Pending, Unread
  <2>5. QED
    BY <2>2, <2>3, <2>4
<1>7. E \in SUBSET EventIds
  BY <1>1, KnownEvents DEF Known
<1> HIDE DEF E
<1>8. E \subseteq sent
  BY <1>1 DEF E
<1>9. QED
  BY <1>2, <1>4, <1>5, <1>6, <1>7, <1>8, SettleStep DEF DInv

(* What a crash or a stop destroys is gone, the router's event with it.    *)
LEMMA DownDelivers ==
  ASSUME DInv, IInv', NEW f \in Nat, Down(f)
  PROVE  DInv' /\ PromiseStep /\ Follows(q, q')
<1>1. /\ InnerType(q) /\ Known \subseteq EventIds /\ Pending \subseteq Known
  BY KnownEvents
<1>2. /\ q'.recs = OnDisk(q, f) /\ q'.cursor = q.cursor /\ q'.peek = q.peek
  BY <1>1 DEF Down, InnerType
<1> DEFINE I == IF incoming = NoEvent THEN {} ELSE {incoming.id}
           E == Ids(q.recs \ OnDisk(q, f)) \cup I
<1>3. /\ lost' = lost \cup E /\ batch' = {} /\ incoming' = NoEvent
      /\ UNCHANGED <<sent, confirmed, evicted, cursor_file, arrived>>
  BY DEF Down
<1>4. Follows(q, q')
  BY <1>2 DEF Follows, OnDisk
<1>5. I \cap Known = {} /\ I \subseteq EventIds /\ I \subseteq 1 .. arrived
  <2>1. CASE incoming = NoEvent
    BY <2>1
  <2>2. CASE incoming # NoEvent
    <3>1. incoming.id = arrived /\ \A e \in Known : e < incoming.id
      BY <2>2 DEF DInv, ArrivedInOrder
    <3>2. incoming.id \in EventIds /\ incoming.id \in Nat /\ 0 < incoming.id
      BY <2>2 DEF DInv, IInv, TypeOK, EventIds
    <3>3. ~(incoming.id < incoming.id)
      BY <3>2
    <3>4. incoming.id \notin Known
      BY <3>1, <3>3, Zenon
    <3>5. incoming.id \in 1 .. arrived
      BY <3>1, <3>2
    <3>6. I = {incoming.id}
      BY <2>2
    <3>7. QED
      <4> HIDE DEF I
      <4> QED  BY <3>2, <3>4, <3>5, <3>6
  <2>3. QED
    BY <2>1, <2>2
<1>6. Ids(q'.recs) \subseteq Known /\ Ids(q.recs \ OnDisk(q, f)) \subseteq Known
  BY <1>2 DEF Known, Ids, OnDisk
<1>7. Ids(q.recs \ OnDisk(q, f)) \cap Ids(q'.recs) = {}
  BY <1>1, <1>2, RemovedDisjoint DEF DInv, Orderly, OnDisk
<1> HIDE DEF I
<1>8. E \cap Ids(q'.recs) = {} /\ E \in SUBSET EventIds
  BY <1>1, <1>5, <1>6, <1>7
<1>9. Ids(Unread(q, q.cursor) \ q'.recs) \subseteq E
  BY <1>2 DEF Ids, Unread
<1>10. Known' \subseteq Known \cup I
  BY <1>3, <1>6 DEF Known, Gone
<1> HIDE DEF E
<1>11. Gone' = Gone \cup E
  BY <1>3 DEF Gone
<1>12. Orderly(q)' /\ Pending' = Pending \ E
  BY <1>3, <1>4, <1>8, <1>9, <1>11, FollowsOrderly DEF DInv, Pending
<1>13. ArrivedInOrder'
  BY <1>3, <1>5, <1>10 DEF DInv, ArrivedInOrder
<1>14. QED
  BY <1>3, <1>4, <1>8, <1>11, <1>12, <1>13, DiscardStep DEF DInv

(* A restart returns what was sent and not confirmed, and nothing else.    *)
LEMMA OpenDelivers ==
  ASSUME DInv, IInv', Open
  PROVE  DInv' /\ PromiseStep
<1>1. /\ InnerType(q) /\ q.recs \subseteq Record /\ q.segments \subseteq Nat
      /\ cursor_file \in Cursor /\ q.cursor \in Cursor /\ batch = {}
  BY DEF DInv, IInv, TypeOK, InnerType, BatchCovers, Open, Up
<1>2. PICK s \in q.segments, o \in {0, cursor_file.off} :
        /\ Resume(q, cursor_file, [seg |-> s, off |-> o])
        /\ q'.recs = q.recs /\ q'.cursor = [seg |-> s, off |-> o]
  BY <1>1 DEF Open, InnerType
<1> DEFINE d == [seg |-> s, off |-> o]
<1>3. d \in Cursor /\ NotBefore(q.cursor, d) /\ NotBefore(d, cursor_file)
  <2>1. d \in Cursor
    BY <1>1 DEF Cursor
  <2>2. QED
    BY <1>2, <2>1, ResumeBehind DEF DInv
<1> HIDE DEF d
<1>4. q'.recs = q.recs /\ q'.cursor = d
  BY <1>2 DEF d
<1>5. UNCHANGED <<sent, confirmed, evicted, lost, cursor_file, arrived, incoming,
                  batch>>
  BY DEF Open, ghosts
<1>6. /\ \A r \in q.recs : From(r, q.cursor) => From(r, d)
      /\ \A r \in q.recs : From(r, d) => From(r, cursor_file)
  BY <1>1, <1>3, FromEarlier
<1>7. Orderly(q)'
  <2>1. PassedSent(q)'
    BY <1>4, <1>5, <1>6 DEF DInv, Orderly, PassedSent
  <2>2. QED
    BY <1>1, <1>4, <1>5, <2>1
       DEF DInv, Orderly, RecOrder, BatchAhead, ConfirmedBehind
<1>8. ArrivedInOrder'
  BY <1>4, <1>5 DEF DInv, ArrivedInOrder, Known, Gone
<1> DEFINE E == Ids(Unread(q, d)) \ Pending
<1>9. Pending' = Ids(Unread(q, d)) /\ Pending \subseteq Ids(Unread(q, d))
  BY <1>1, <1>3, <1>4, UnreadEarlier DEF Pending, Unread
<1>10. E \subseteq sent \ confirmed
  <2> SUFFICES ASSUME NEW r \in Unread(q, d), r.id \notin Pending
               PROVE  r.id \in sent \ confirmed
    BY DEF Ids
  <2>1. r \in q.recs /\ From(r, cursor_file) /\ ~From(r, q.cursor)
    BY <1>6 DEF Unread, Pending, Ids
  <2>2. QED
    BY <2>1 DEF DInv, Orderly, PassedSent, ConfirmedBehind
<1>11. E \in SUBSET EventIds
  BY <1>10, KnownEvents DEF Known
<1>12. Pending' = Pending \cup E
  BY <1>9
<1> HIDE DEF E
<1>13. QED
  BY <1>5, <1>7, <1>8, <1>10, <1>11, <1>12, ReturnStep DEF DInv

(* The record that push appends is the last, and is ahead of every reader. *)
LEMMA AppendOrderly ==
  ASSUME DInv, Pushing, NEW f \in Nat
  PROVE  LET j == AppendRecord(q, incoming.id, incoming.len, f) IN
         /\ Orderly(j)
         /\ Ids(Unread(j, j.cursor)) = Pending \cup {incoming.id}
         /\ Ids(j.recs) = Ids(q.recs) \cup {incoming.id}
         /\ \A r \in j.recs : r.id = incoming.id =>
              (r.seg = j.write_seg /\ r.end = j.write_off)
<1> DEFINE k == AppendRecord(q, incoming.id, incoming.len, f)
           x == [id |-> incoming.id, seg |-> q.write_seg,
                 end |-> q.write_off + incoming.len]
<1>1. OpenShape(q) /\ InnerType(q)
  BY UpShape DEF Pushing, DInv
<1>2. incoming.id \in Nat /\ incoming.len \in Nat /\ 0 < incoming.len
  BY IncomingType DEF DInv, IInv, Pushing
<1>3. \A e \in Known : e < incoming.id
  BY DEF DInv, ArrivedInOrder, Pushing
<1>4. /\ k.recs = q.recs \cup {x} /\ k.cursor = q.cursor /\ k.peek = q.peek
      /\ k.write_seg = q.write_seg /\ k.write_off = q.write_off + incoming.len
  BY <1>1 DEF InnerType, AppendRecord
<1>5. /\ q.cursor \in Cursor /\ q.peek \in Cursor /\ q.flushed \in Nat
      /\ q.write_off \in Nat /\ q.segments \subseteq Nat
      /\ q.write_seg \in q.segments /\ q.recs \subseteq Record
      /\ q.flushed =< q.write_off
  BY <1>1 DEF InnerType, OpenShape
<1>6. From(x, q.cursor) /\ From(x, q.peek)
  BY <1>1, <1>2, <1>5 DEF From, OpenShape, Shape, Behind, IsNewest, Cursor
<1>7. \A r \in q.recs : r.id < x.id /\ Before(r, x)
  <2> SUFFICES ASSUME NEW r \in q.recs PROVE r.id < x.id /\ Before(r, x)
    OBVIOUS
  <2>1. r.id < x.id
    BY <1>3 DEF Known, Ids
  <2>2. r \in Record /\ r.seg =< q.write_seg
        /\ (r.seg = q.write_seg => r.end =< q.write_off)
    BY <1>1, <1>5 DEF OpenShape, Shape, IsNewest, EndsBy
  <2>3. QED
    BY <1>2, <1>5, <2>1, <2>2 DEF Before, Record
<1> HIDE DEF k
<1>8. x.id = incoming.id /\ x.seg = k.write_seg /\ x.end = k.write_off
  BY <1>4
<1> HIDE DEF x
<1>9. Unread(k, k.cursor) = Unread(q, q.cursor) \cup {x}
  BY <1>4, <1>6 DEF Unread
<1>10. Ids(Unread(k, k.cursor)) = Pending \cup {incoming.id}
  BY <1>8, <1>9 DEF Pending, Ids
<1>11. RecOrder(k)
  BY <1>4, <1>7 DEF DInv, Orderly, RecOrder
<1>12. BatchAhead(k)
  <2>1. \A b \in batch : b < x.id
    BY <1>3, <1>8, KnownEvents
  <2>2. QED
    BY <1>4, <1>10, <2>1 DEF DInv, Orderly, BatchAhead, Pending
<1>13. PassedSent(k)
  BY <1>4, <1>6 DEF DInv, Orderly, PassedSent
<1>14. ConfirmedBehind(k)
  <2>1. confirmed \subseteq sent
    BY DEF DInv, Orderly, ConfirmedBehind
  <2>2. ~(x.id < x.id)
    BY <1>2, <1>8
  <2>3. x.id \notin confirmed
    BY <1>3, <1>8, <2>1, <2>2, Zenon DEF Known
  <2>4. QED
    BY <1>4, <2>3 DEF DInv, Orderly, ConfirmedBehind
<1>15. Ids(k.recs) = Ids(q.recs) \cup {incoming.id}
  BY <1>4, <1>8 DEF Ids
<1>16. \A r \in k.recs : r.id = incoming.id =>
        (r.seg = k.write_seg /\ r.end = k.write_off)
  <2> SUFFICES ASSUME NEW r \in q.recs PROVE r.id # incoming.id
    BY <1>4, <1>8
  <2>1. r.id < incoming.id /\ r.id \in Nat
    BY <1>5, <1>7, <1>8 DEF Record
  <2>2. QED
    BY <1>2, <2>1
<1>17. QED
  BY <1>10, <1>11, <1>12, <1>13, <1>14, <1>15, <1>16 DEF Orderly, k

LEMMA PushDelivers ==
  ASSUME DInv, IInv', Push
  PROVE  DInv' /\ PromiseStep
<1>1. /\ Pushing /\ OpenShape(q) /\ InnerType(q)
      /\ Known \subseteq EventIds /\ Pending \subseteq Known
  BY UpShape, KnownEvents DEF Push, Pushing, DInv
<1>2. /\ incoming.id \in EventIds /\ incoming.id \in 1 .. arrived
      /\ incoming.id \in Nat /\ incoming.len \in Nat /\ 0 < incoming.len
      /\ \A e \in Known : e < incoming.id
  <2>1. incoming.id \in EventIds /\ incoming.id = arrived
    BY <1>1 DEF DInv, IInv, TypeOK, ArrivedInOrder, Pushing
  <2>2. QED
    BY <1>1, <2>1, IncomingType DEF DInv, IInv, ArrivedInOrder, Pushing, EventIds
<1> DEFINE pushed(f) == AppendRecord(q, incoming.id, incoming.len, f)
<1>3. PICK f \in {q.flushed, q.write_off, q.write_off + incoming.len} :
        \E r \in IF pushed(f).write_off < SegBytes
                   THEN {[inner |-> pushed(f), fault |-> "none"]}
                   ELSE RollSegment(pushed(f)) :
          /\ q' = r.inner
          /\ lost' = lost \cup Ids(pushed(f).recs \ r.inner.recs)
  BY DEF Push
<1> DEFINE k == AppendRecord(q, incoming.id, incoming.len, f)
<1>4. f \in Nat /\ q.flushed =< f /\ f =< q.write_off + incoming.len
  BY <1>1, <1>2, OffsetsType DEF OpenShape, DInv, IInv
<1>5. OpenShape(k) /\ InnerType(k)
  <2>1. OpenShape(k)
    BY <1>1, <1>2, <1>4, AppendKeeps DEF Keeps
  <2> HIDE DEF k
  <2>2. QED
    BY <2>1 DEF OpenShape, Shape
<1>6. /\ Orderly(k) /\ Ids(Unread(k, k.cursor)) = Pending \cup {incoming.id}
      /\ Ids(k.recs) = Ids(q.recs) \cup {incoming.id}
      /\ \A r \in k.recs : r.id = incoming.id =>
           (r.seg = k.write_seg /\ r.end = k.write_off)
  BY <1>1, <1>4, AppendOrderly
<1>7. PICK r \in IF k.write_off < SegBytes
                   THEN {[inner |-> k, fault |-> "none"]}
                   ELSE RollSegment(k) :
        q' = r.inner /\ lost' = lost \cup Ids(k.recs \ r.inner.recs)
  BY <1>3
<1> HIDE DEF k
<1>8. /\ Follows(k, q') /\ lost' = lost \cup Ids(k.recs \ q'.recs)
      /\ \/ q'.recs = k.recs
         \/ \A x \in q'.recs : x.seg = k.write_seg => x.end < k.write_off
  <2>1. CASE k.write_off < SegBytes
    BY <1>7, <2>1, FollowsSelf
  <2>2. CASE ~(k.write_off < SegBytes)
    BY <1>5, <1>7, <2>2, RollFollows
  <2>3. QED
    BY <2>1, <2>2
<1>9. /\ UNCHANGED <<sent, confirmed, cursor_file, batch, arrived, evicted>>
      /\ incoming' = NoEvent
  BY DEF Push, PushReturns
<1> DEFINE E == Ids(k.recs \ q'.recs)
<1>10. E \cap Ids(q'.recs) = {}
  BY <1>5, <1>6, <1>8, RemovedDisjoint DEF Orderly, Follows
<1>11. Ids(Unread(k, k.cursor) \ q'.recs) \subseteq E
  BY DEF Ids, Unread
<1>12. E \subseteq Known \cup {incoming.id} /\ Ids(q'.recs) \subseteq Known \cup {incoming.id}
  <2>1. E \subseteq Ids(k.recs) /\ Ids(q'.recs) \subseteq Ids(k.recs)
    BY <1>8 DEF Follows, Ids
  <2>2. QED
    BY <1>6, <2>1 DEF Known
<1>13. q'.recs = k.recs => E = {}
  BY DEF Ids
<1>14. q'.recs # k.recs => incoming.id \in E
  <2> SUFFICES ASSUME q'.recs # k.recs PROVE incoming.id \in E
    OBVIOUS
  <2>1. PICK x \in k.recs : x.id = incoming.id
    BY <1>6 DEF Ids
  <2>2. k.write_off \in Nat
    BY <1>5 DEF InnerType
  <2>3. x \notin q'.recs
    BY <1>6, <1>8, <2>1, <2>2
  <2>4. QED
    BY <2>1, <2>3 DEF Ids
<1> HIDE DEF E
<1>15. lost' = lost \cup E /\ Gone' = Gone \cup E
  BY <1>8, <1>9 DEF Gone, E
<1>16. Orderly(q)' /\ Pending' = (Pending \cup {incoming.id}) \ E
  BY <1>6, <1>8, <1>9, <1>10, <1>11, <1>15, FollowsOrderly
<1>17. ArrivedInOrder'
  <2>1. Known' \subseteq Known \cup {incoming.id}
    BY <1>9, <1>12, <1>15 DEF Known, Gone
  <2>2. QED
    BY <1>2, <1>9, <2>1 DEF DInv, ArrivedInOrder
<1>18. PromiseStep
  <2>1. CASE q'.recs = k.recs
    <3>1. Pending' = Pending \cup {incoming.id} /\ lost' = lost
      BY <1>13, <1>15, <1>16, <2>1
    <3>2. \A s \in Pending \cup sent \cup Gone : s < incoming.id
      BY <1>1, <1>2 DEF Known
    <3>3. QED
      BY <1>2, <1>9, <3>1, <3>2, AcceptStep
  <2>2. CASE q'.recs # k.recs
    <3>1. Pending' = Pending \ E
      BY <1>14, <1>16, <2>2
    <3>2. E \in SUBSET EventIds
      BY <1>1, <1>2, <1>12
    <3>3. QED
      BY <1>9, <1>15, <3>1, <3>2, DiscardStep
  <2>3. QED
    BY <2>1, <2>2
<1>19. QED
  BY <1>16, <1>17, <1>18 DEF DInv

-----------------------------------------------------------------------------
(* The refinement.                                                         *)

LEMMA InitDelivers == Init => DInv /\ Promise!Init
<1> SUFFICES ASSUME Init PROVE DInv /\ Promise!Init
  OBVIOUS
<1>1. IInv
  BY InitIInv
<1>2. /\ q.recs = {} /\ sent = {} /\ confirmed = {} /\ evicted = {} /\ lost = {}
      /\ batch = {} /\ incoming = NoEvent
  BY DEF Init
<1>3. Ids(q.recs) = {} /\ Unread(q, q.cursor) = {} /\ Ids({}) = {}
  BY <1>2 DEF Ids, Unread
<1>4. QED
  BY <1>1, <1>2, <1>3
     DEF DInv, Orderly, RecOrder, BatchAhead, PassedSent, ConfirmedBehind,
         ArrivedInOrder, Known, Gone, Promise!Init

LEMMA StepDelivers == DInv /\ [Next]_vars => DInv' /\ PromiseStep
<1> SUFFICES ASSUME DInv, [Next]_vars PROVE DInv' /\ PromiseStep
  OBVIOUS
<1>1. IInv'
  BY StepIInv DEF DInv
<1>2. CASE \/ Arrive \/ PushOpenFails \/ PushDropNewest \/ PushCancelled
           \/ WaitData \/ AckUnlock \/ SaveCursorFails \/ Cancel
           \/ OldestAge \/ Rest \/ UNCHANGED vars
  BY <1>1, <1>2, SameQueueDelivers
<1>3. CASE Push
  BY <1>1, <1>3, PushDelivers
<1>4. CASE PushWriteFails
  BY <1>1, <1>4, PushWriteFailsDelivers
<1>5. CASE PushDropOldestFails
  BY <1>1, <1>5, PushDropOldestFailsDelivers
<1>6. CASE PushDropOldest
  BY <1>1, <1>6, PushDropOldestDelivers
<1>7. CASE SendOk \/ SendFails
  BY <1>1, <1>7, SendDelivers
<1>8. CASE PeekBatch \/ FinalPeek
  <2>1. PeekFrom("waiting") \/ PeekFrom("peeking")
    BY <1>8 DEF PeekBatch, FinalPeek
  <2>2. QED
    BY <1>1, <2>1, PeekDelivers
<1>9. CASE ResetPeek
  BY <1>1, <1>9, ResetPeekDelivers
<1>10. CASE Ack
  BY <1>1, <1>10, AckDelivers
<1>11. CASE AckUnlink
  BY <1>1, <1>11, AckUnlinkDelivers
<1>12. CASE SaveCursor
  BY <1>1, <1>12, SaveCursorDelivers
<1>13. CASE Crash \/ Stop
  <2>1. PICK f \in Boundaries(q) : Down(f)
    BY <1>13 DEF Crash, Stop, Boundaries
  <2>2. f \in Nat
    BY <2>1, BoundariesType, KnownEvents
  <2>3. QED
    BY <1>1, <2>1, <2>2, DownDelivers
<1>14. CASE Open
  BY <1>1, <1>14, OpenDelivers
<1>15. QED
  BY <1>2, <1>3, <1>4, <1>5, <1>6, <1>7, <1>8, <1>9, <1>10, <1>11, <1>12,
     <1>13, <1>14
     DEF Next, Router, Consumer

(* The queue keeps the promise of Delivery for every size, policy and      *)
(* bound: push stores or refuses, peek_batch and send_batch hand out in    *)
(* order, ack settles, and open returns only what was not confirmed.       *)
THEOREM QueueDelivers == Spec => Delivers
<1>1. Init => DInv /\ Promise!Init
  BY InitDelivers
<1>2. DInv /\ [Next]_vars => DInv' /\ [Promise!Next]_(Promise!vars)
  BY StepDelivers DEF PromiseStep
<1>3. QED
  BY <1>1, <1>2, PTL DEF Spec, Delivers, Promise!Spec

-----------------------------------------------------------------------------
(* What the promise entails, of whatever keeps it.  Order needs to know    *)
(* that an event that arrives is newer than any that was delivered;        *)
(* finality, that what returns was not confirmed.                          *)
PInv ==
  /\ Pending \subseteq EventIds /\ sent \subseteq EventIds
  /\ confirmed \subseteq sent
  /\ Promise!Ordered /\ Promise!Final

LEMMA PromiseInductive == Promise!Spec => []PInv
<1>1. Promise!Init => PInv
  BY DEF Promise!Init, PInv, Pending, Promise!Ordered, Promise!Final
<1>2. PInv /\ [Promise!Next]_(Promise!vars) => PInv'
  <2> SUFFICES ASSUME PInv, [Promise!Next]_(Promise!vars) PROVE PInv'
    OBVIOUS
  <2> USE DEF PInv, Promise!Ordered, Promise!Final, Promise!Seen, Pending
  <2>a. EventIds \subseteq Nat
    BY BoundAssumption DEF EventIds
  <2>1. ASSUME NEW e \in EventIds, Promise!Accept(e) PROVE PInv'
    BY <2>1, <2>a, SMT DEF Promise!Accept
  <2>2. ASSUME NEW E \in SUBSET EventIds, Promise!Discard(E) PROVE PInv'
    BY <2>2 DEF Promise!Discard
  <2>3. ASSUME NEW E \in SUBSET EventIds, Promise!Deliver(E) PROVE PInv'
    BY <2>3 DEF Promise!Deliver
  <2>4. ASSUME NEW E \in SUBSET EventIds, Promise!Settle(E) PROVE PInv'
    BY <2>4 DEF Promise!Settle
  <2>5. ASSUME NEW E \in SUBSET EventIds, Promise!Confirm(E) PROVE PInv'
    BY <2>5 DEF Promise!Confirm
  <2>6. ASSUME NEW E \in SUBSET EventIds, Promise!Return(E) PROVE PInv'
    BY <2>6 DEF Promise!Return
  <2>7. CASE UNCHANGED Promise!vars
    BY <2>7 DEF Promise!vars
  <2>8. QED
    BY <2>1, <2>2, <2>3, <2>4, <2>5, <2>6, <2>7 DEF Promise!Next
<1>3. QED
  BY <1>1, <1>2, PTL DEF Promise!Spec

(* No event of the queue overtakes an older one that is still owed, and    *)
(* what ack's saved cursor confirms is not read again after however many   *)
(* restarts.                                                               *)
THEOREM DeliveredInOrder == Spec => [](Promise!Ordered /\ Promise!Final)
<1>1. PInv => Promise!Ordered /\ Promise!Final
  BY DEF PInv
<1>2. Promise!Spec => [](Promise!Ordered /\ Promise!Final)
  BY <1>1, PromiseInductive, PTL
<1>3. QED
  BY <1>2, QueueDelivers, PTL DEF Delivers

(* An event leaves the queue only by reaching the destination or by being  *)
(* discarded, which is recorded: no step makes one vanish.                 *)
THEOREM NothingForgotten == Spec => Promise!NeverForgotten
<1>1. [Promise!Next]_(Promise!vars) =>
        [Pending \ Pending' \subseteq sent \cup Gone']_(Promise!vars)
  BY DEF Promise!Next, Promise!Accept, Promise!Discard, Promise!Deliver, Promise!Settle,
         Promise!Confirm, Promise!Return, Promise!vars, Pending, Gone
<1>2. Promise!Spec => Promise!NeverForgotten
  BY <1>1, PTL DEF Promise!Spec, Promise!NeverForgotten, Pending, Gone
<1>3. QED
  BY <1>2, QueueDelivers, PTL DEF Delivers

-----------------------------------------------------------------------------
(* How much a restart sends again.  While no save of the cursor fails, a   *)
(* restart resumes where the worker last acked, but for the one ack whose  *)
(* cursor is still to be saved; what was sent behind that position is one  *)
(* batch's worth, and the oldest of it.                                    *)

Window(i) ==
  /\ Cardinality(sent \cap Ids(Unread(i, cursor_file))) =< BatchMax
  /\ \A e \in sent \cap Ids(Unread(i, cursor_file)), p \in Ids(Unread(i, cursor_file)) :
       p < e => p \in sent

SameReader(i) ==
  /\ Up /\ worker \notin {"unlinking", "saving"} =>
       Unread(i, cursor_file) = Unread(i, i.cursor)
  /\ worker = "saving" => Unread(i, saved) = Unread(i, i.cursor)

WInv == DInv /\ Cardinality(batch) =< BatchMax /\ Window(q) /\ SameReader(q)

LEMMA WindowFinite ==
  ASSUME DInv
  PROVE  IsFiniteSet(sent) /\ sent \subseteq EventIds /\ BatchMax \in Nat
<1>1. sent \subseteq EventIds /\ EventIds \subseteq Nat
  BY KnownEvents DEF Known, EventIds
<1>2. IsFiniteSet(EventIds)
  BY FS_Interval, BoundAssumption DEF EventIds
<1>3. QED
  BY <1>1, <1>2, FS_Subset, SizeAssumption

(* The window shrinks with the set of records behind cursor.json.          *)
LEMMA WindowShrinks ==
  ASSUME NEW i, DInv, Window(i), sent' = sent,
         Ids(Unread(q, cursor_file)') \subseteq Ids(Unread(i, cursor_file))
  PROVE  Window(q)'
<1> DEFINE U == Ids(Unread(i, cursor_file))
           V == Ids(Unread(q, cursor_file)')
<1>1. IsFiniteSet(sent \cap U) /\ IsFiniteSet(sent \cap V) /\ BatchMax \in Nat
  BY WindowFinite, FS_Subset
<1>2. /\ Cardinality(sent \cap U) \in Nat /\ Cardinality(sent \cap V) \in Nat
      /\ Cardinality(sent \cap V) =< Cardinality(sent \cap U)
  BY <1>1, FS_Subset, FS_CardinalityType
<1>3. Cardinality(sent \cap V) =< BatchMax
  BY <1>1, <1>2 DEF Window
<1>4. \A e \in sent \cap V, p \in V : p < e => p \in sent
  BY DEF Window
<1>5. QED
  BY <1>3, <1>4 DEF Window

LEMMA FollowsWindow ==
  ASSUME NEW i, DInv, Window(i), SameReader(i), Follows(i, q'),
         UNCHANGED <<sent, cursor_file>>,
         worker' = "saving" => worker = "saving" /\ saved' = saved,
         Up' /\ worker' \notin {"unlinking", "saving"} =>
           Up /\ worker \notin {"unlinking", "saving"}
  PROVE  Window(q)' /\ SameReader(q)'
<1>1. /\ Unread(q, cursor_file)' = Unread(i, cursor_file) \cap q'.recs
      /\ Unread(q, q.cursor)' = Unread(i, i.cursor) \cap q'.recs
      /\ Unread(q', saved) = Unread(i, saved) \cap q'.recs
  BY DEF Unread, Follows
<1>2. Window(q)'
  BY <1>1, WindowShrinks DEF Ids
<1>3. SameReader(q)'
  BY <1>1 DEF SameReader
<1>4. QED
  BY <1>2, <1>3

(* Steps that take records away, or none.                                  *)
LEMMA SameWindow ==
  ASSUME WInv, \/ Arrive \/ PushOpenFails \/ PushDropNewest \/ PushCancelled
               \/ WaitData \/ Cancel \/ OldestAge \/ Rest \/ ResetPeek
               \/ UNCHANGED vars
  PROVE  Window(q)' /\ SameReader(q)' /\ Cardinality(batch') =< BatchMax
<1>1. InnerType(q) /\ DInv /\ Window(q) /\ SameReader(q)
  BY KnownEvents DEF WInv
<1>2. /\ UNCHANGED <<sent, cursor_file, saved>>
      /\ batch' = batch \/ batch' = {}
      /\ \/ q' = q
         \/ q' = [q EXCEPT !.peek = q.cursor]
         \/ \E f \in Boundaries(q) : q' = [q EXCEPT !.flushed = f]
  BY DEF Arrive, PushOpenFails, PushDropNewest, PushCancelled, PushReturns,
         WaitData, Worker, Cancel, OldestAge, Rest, ResetPeek, vars, mech, ghosts
<1>3. /\ worker' = "saving" => worker = "saving"
      /\ Up' /\ worker' \notin {"unlinking", "saving"} =>
           Up /\ worker \notin {"unlinking", "saving"}
  BY DEF Arrive, PushOpenFails, PushDropNewest, PushCancelled, PushReturns,
         WaitData, Worker, Cancel, OldestAge, Rest, ResetPeek, vars, mech, Up
<1>4. q'.recs = q.recs /\ q'.cursor = q.cursor
  BY <1>1, <1>2 DEF InnerType
<1>5. /\ Unread(q, cursor_file)' = Unread(q, cursor_file)
      /\ Unread(q, q.cursor)' = Unread(q, q.cursor)
      /\ Unread(q', saved) = Unread(q, saved)
  BY <1>2, <1>4 DEF Unread
<1>6. Window(q)'
  BY <1>1, <1>2, <1>5, WindowShrinks
<1>7. SameReader(q)'
  BY <1>1, <1>2, <1>3, <1>5 DEF SameReader
<1>8. Cardinality(batch') =< BatchMax
  BY <1>2, FS_EmptySet, SizeAssumption DEF WInv
<1>9. QED
  BY <1>6, <1>7, <1>8

LEMMA RemovalWindow ==
  ASSUME WInv, IInv', PushWriteFails \/ PushDropOldestFails \/ PushDropOldest \/ AckUnlink
               \/ \E f \in Nat : Down(f)
  PROVE  Window(q)' /\ SameReader(q)' /\ Cardinality(batch') =< BatchMax
<1>1. Follows(q, q') /\ DInv /\ Window(q) /\ SameReader(q)
  BY PushWriteFailsDelivers, PushDropOldestFailsDelivers, PushDropOldestDelivers,
     AckUnlinkDelivers, DownDelivers DEF WInv
<1>2. UNCHANGED <<sent, cursor_file, saved>> /\ (batch' = batch \/ batch' = {})
  BY DEF PushWriteFails, PushDropOldestFails, PushReturns, PushDropOldest,
         AckUnlink, Worker, Down
<1>3. \/ worker' = worker /\ phase' = phase
      \/ phase' = "down" /\ worker' = "waiting"
  BY DEF PushWriteFails, PushDropOldestFails, PushReturns, PushDropOldest,
         AckUnlink, Worker, Down
<1>4. Window(q)' /\ SameReader(q)'
  BY <1>1, <1>2, <1>3, FollowsWindow DEF Up
<1>5. QED
  BY <1>2, <1>4, FS_EmptySet, SizeAssumption DEF WInv

(* The record that push appends has not been sent and is the last.         *)
LEMMA PushWindow ==
  ASSUME WInv, Push
  PROVE  Window(q)' /\ SameReader(q)' /\ Cardinality(batch') =< BatchMax
<1>1. /\ Pushing /\ OpenShape(q) /\ InnerType(q) /\ DInv /\ Window(q) /\ SameReader(q)
      /\ Up /\ sent \subseteq Known /\ Known \subseteq EventIds
  BY UpShape, KnownEvents DEF Push, Pushing, DInv, WInv, Known
<1>2. /\ incoming.id \in Nat /\ incoming.len \in Nat /\ 0 < incoming.len
      /\ \A e \in Known : e < incoming.id
  BY <1>1, IncomingType DEF DInv, IInv, ArrivedInOrder, Pushing
<1> DEFINE pushed(f) == AppendRecord(q, incoming.id, incoming.len, f)
<1>3. PICK f \in {q.flushed, q.write_off, q.write_off + incoming.len} :
        \E r \in IF pushed(f).write_off < SegBytes
                   THEN {[inner |-> pushed(f), fault |-> "none"]}
                   ELSE RollSegment(pushed(f)) : q' = r.inner
  BY DEF Push
<1> DEFINE k == AppendRecord(q, incoming.id, incoming.len, f)
           x == [id |-> incoming.id, seg |-> q.write_seg,
                 end |-> q.write_off + incoming.len]
<1>4. f \in Nat /\ q.flushed =< f /\ f =< q.write_off + incoming.len
  BY <1>1, <1>2, OffsetsType DEF OpenShape, DInv, IInv
<1>5. OpenShape(k)
  BY <1>1, <1>2, <1>4, AppendKeeps DEF Keeps
<1>6. k.recs = q.recs \cup {x} /\ k.cursor = q.cursor
  BY <1>1 DEF InnerType, AppendRecord
<1>7. PICK r \in IF k.write_off < SegBytes
                   THEN {[inner |-> k, fault |-> "none"]}
                   ELSE RollSegment(k) : q' = r.inner
  BY <1>3
<1> HIDE DEF k
<1>8. Follows(k, q')
  <2>1. CASE k.write_off < SegBytes
    BY <1>7, <2>1, FollowsSelf
  <2>2. CASE ~(k.write_off < SegBytes)
    BY <1>5, <1>7, <2>2, RollFollows
  <2>3. QED
    BY <2>1, <2>2
<1>9. x \in Record /\ From(x, q.cursor) /\ x.id = incoming.id
  <2>1. /\ q.cursor \in Cursor /\ q.write_off \in Nat /\ q.flushed \in Nat
        /\ q.write_seg \in Nat
    BY <1>1 DEF InnerType
  <2>2. QED
    BY <1>1, <1>2, <2>1
       DEF From, OpenShape, Shape, Behind, IsNewest, Cursor, Record
<1> HIDE DEF x
<1>10. From(x, cursor_file) /\ (worker = "saving" => From(x, saved))
  <2>1. /\ q.cursor \in Cursor /\ cursor_file \in Cursor /\ saved \in Cursor
        /\ NotBefore(q.cursor, cursor_file)
        /\ worker = "saving" => NotBefore(q.cursor, saved)
    BY <1>1 DEF DInv, IInv, TypeOK, InnerType, CursorFileBehind
  <2>2. QED
    BY <1>9, <2>1, FromEarlier
<1>11. /\ Unread(k, cursor_file) = Unread(q, cursor_file) \cup {x}
       /\ Unread(k, k.cursor) = Unread(q, q.cursor) \cup {x}
       /\ worker = "saving" => Unread(k, saved) = Unread(q, saved) \cup {x}
  BY <1>6, <1>9, <1>10 DEF Unread
<1>12. SameReader(k)
  BY <1>1, <1>11 DEF SameReader
<1>13. Window(k)
  <2>1. x.id \notin sent
    <3>1. ~(incoming.id < incoming.id)
      BY <1>2
    <3>2. QED
      BY <1>1, <1>2, <1>9, <3>1, Zenon
  <2>2. Ids(Unread(k, cursor_file)) = Ids(Unread(q, cursor_file)) \cup {x.id}
    BY <1>11 DEF Ids
  <2>3. sent \cap Ids(Unread(k, cursor_file)) = sent \cap Ids(Unread(q, cursor_file))
    BY <2>1, <2>2
  <2>4. ASSUME NEW e \in sent PROVE ~(x.id < e)
    <3>1. e < x.id /\ e \in Nat /\ x.id \in Nat
      BY <1>1, <1>2, <1>9 DEF EventIds
    <3>2. QED
      BY <3>1
  <2>5. ASSUME NEW e \in sent \cap Ids(Unread(k, cursor_file)),
               NEW p \in Ids(Unread(k, cursor_file)), p < e
        PROVE  p \in sent
    <3>1. e \in sent \cap Ids(Unread(q, cursor_file))
      BY <2>3
    <3>2. p # x.id
      BY <2>4, <2>5
    <3>3. p \in Ids(Unread(q, cursor_file))
      BY <2>2, <3>2
    <3>4. QED
      BY <1>1, <2>5, <3>1, <3>3 DEF Window
  <2>6. QED
    BY <1>1, <2>3, <2>5 DEF Window
<1>14. UNCHANGED <<sent, cursor_file, saved, worker, phase, batch>>
  BY DEF Push, PushReturns
<1>15. Window(q)' /\ SameReader(q)'
  BY <1>1, <1>8, <1>12, <1>13, <1>14, FollowsWindow
<1>16. QED
  BY <1>14, <1>15 DEF WInv

(* Of two beginnings of the queue one is part of the other.                *)
LEMMA SendWindow ==
  ASSUME WInv, SendOk \/ SendFails
  PROVE  Window(q)' /\ SameReader(q)' /\ Cardinality(batch') =< BatchMax
<1>1. PICK E \in SUBSET batch :
        /\ sent' = sent \cup E
        /\ \A e \in E, p \in Pending : p < e => p \in E
  BY SendsOldest DEF WInv
<1>2. /\ UNCHANGED <<q, cursor_file, saved, batch, phase>>
      /\ Up /\ worker = "sending" /\ worker' \in {"delivered", "failed"}
  BY DEF SendOk, SendFails, Worker
<1> DEFINE U == Ids(Unread(q, cursor_file))
<1>3. U = Pending /\ U \subseteq Nat /\ U' = U
  <2>1. U = Pending
    BY <1>2 DEF WInv, SameReader, Pending
  <2>2. Pending \subseteq Nat
    BY KnownEvents DEF WInv, EventIds
  <2>3. QED
    BY <1>2, <2>1, <2>2
<1>4. /\ Cardinality(sent \cap U) =< BatchMax
      /\ \A e \in sent \cap U, p \in U : p < e => p \in sent
  BY DEF WInv, Window
<1>5. IsFiniteSet(batch) /\ Cardinality(batch) =< BatchMax /\ BatchMax \in Nat
  BY SizeAssumption DEF WInv, DInv, IInv, TypeOK
<1>6. Unread(q, cursor_file)' = Unread(q, cursor_file)
  BY <1>2 DEF Unread
<1>7. SameReader(q)'
  BY <1>2 DEF WInv, SameReader, Unread, Up
<1> HIDE DEF U
<1>8. Cardinality((sent \cup E) \cap U) =< BatchMax
  <2>1. CASE E \cap U \subseteq sent
    <3>1. (sent \cup E) \cap U = sent \cap U
      BY <2>1
    <3>2. QED
      BY <1>4, <3>1
  <2>2. CASE ~(E \cap U \subseteq sent)
    <3>1. PICK e \in E \cap U : e \notin sent
      BY <2>2
    <3>2. \A s \in sent \cap U : s \in E
      <4> SUFFICES ASSUME NEW s \in sent \cap U PROVE s \in E
        OBVIOUS
      <4>1. ~(e < s) /\ s # e
        BY <1>4, <3>1
      <4>2. s < e
        <5>1. s \in Nat /\ e \in Nat
          BY <1>3
        <5>2. QED
          BY <4>1, <5>1
      <4>3. QED
        BY <1>1, <1>3, <3>1, <4>2
    <3>3. (sent \cup E) \cap U \subseteq batch
      BY <1>1, <3>2
    <3>4. /\ Cardinality((sent \cup E) \cap U) \in Nat /\ Cardinality(batch) \in Nat
          /\ Cardinality((sent \cup E) \cap U) =< Cardinality(batch)
      BY <1>5, <3>3, FS_Subset, FS_CardinalityType
    <3>5. QED
      BY <1>5, <3>4
  <2>3. QED
    BY <2>1, <2>2
<1>9. \A e \in (sent \cup E) \cap U, p \in U : p < e => p \in sent \cup E
  BY <1>1, <1>3, <1>4
<1>10. Window(q)'
  BY <1>1, <1>3, <1>6, <1>8, <1>9 DEF Window, U
<1>11. QED
  BY <1>2, <1>5, <1>7, <1>10

LEMMA PeekWindow ==
  ASSUME WInv, NEW state \in {"waiting", "peeking"}, PeekFrom(state)
  PROVE  Window(q)' /\ SameReader(q)' /\ Cardinality(batch') =< BatchMax
<1>1. InnerType(q) /\ DInv /\ Window(q) /\ SameReader(q)
  BY KnownEvents DEF WInv
<1>2. PICK f \in Boundaries(q), t \in q.segments :
        \E o \in {0, f} \cup {r.end : r \in q.recs} :
          PeekTo(f, [seg |-> t, off |-> o])
  BY DEF PeekFrom
<1>3. PICK o \in {0, f} \cup {r.end : r \in q.recs} :
        PeekTo(f, [seg |-> t, off |-> o])
  BY <1>2
<1> DEFINE p == [seg |-> t, off |-> o]
           got == {r \in OnDisk(q, f) : From(r, q.peek) /\ ~From(r, p)}
<1>4. /\ q' = [q EXCEPT !.flushed = f, !.peek = p] /\ batch' = Ids(got)
      /\ Cardinality(got) =< BatchMax
  BY <1>3 DEF PeekTo
<1> HIDE DEF p
<1>5. q'.recs = q.recs /\ q'.cursor = q.cursor
  BY <1>1, <1>4 DEF InnerType
<1>6. got \subseteq q.recs
  BY DEF OnDisk
<1> HIDE DEF got
<1>7. Cardinality(batch') =< BatchMax
  <2>1. IsFiniteSet(got) /\ got \in SUBSET Record
    BY <1>1, <1>6, SubsetFinite
  <2> DEFINE g == [r \in got |-> r.id]
  <2>2. g \in Surjection(got, Ids(got))
    BY DEF Surjection, Ids
  <2>3. IsFiniteSet(Ids(got)) /\ Cardinality(Ids(got)) =< Cardinality(got)
    BY <2>1, <2>2, FS_Surjection
  <2>4. QED
    BY <1>4, <2>1, <2>3, FS_CardinalityType, SizeAssumption
<1>8. /\ UNCHANGED <<sent, cursor_file, saved>>
      /\ Up /\ worker \in {"waiting", "peeking"} /\ worker' \in {"waiting", "sending"}
  BY DEF PeekFrom, Worker
<1>9. /\ Unread(q, cursor_file)' = Unread(q, cursor_file)
      /\ Unread(q, q.cursor)' = Unread(q, q.cursor)
  BY <1>5, <1>8 DEF Unread
<1>10. Window(q)'
  BY <1>1, <1>8, <1>9, WindowShrinks
<1>11. SameReader(q)'
  BY <1>1, <1>8, <1>9 DEF SameReader
<1>12. QED
  BY <1>7, <1>10, <1>11

LEMMA AckWindow ==
  ASSUME WInv, Ack \/ AckUnlock
  PROVE  Window(q)' /\ SameReader(q)' /\ Cardinality(batch') =< BatchMax
<1>1. InnerType(q) /\ DInv /\ Window(q)
  BY KnownEvents DEF WInv
<1>2. /\ q'.recs = q.recs /\ UNCHANGED <<sent, cursor_file>>
      /\ batch' = batch \/ batch' = {}
      /\ \/ worker' = "unlinking"
         \/ worker' = "saving" /\ saved' = q'.cursor
  BY <1>1 DEF Ack, AckUnlock, Worker, InnerType
<1>3. Unread(q, cursor_file)' = Unread(q, cursor_file)
  BY <1>2 DEF Unread
<1>4. Window(q)'
  BY <1>1, <1>2, <1>3, WindowShrinks
<1>5. SameReader(q)'
  BY <1>2 DEF SameReader
<1>6. QED
  BY <1>2, <1>4, <1>5, FS_EmptySet, SizeAssumption DEF WInv

LEMMA SaveWindow ==
  ASSUME WInv, SaveCursor
  PROVE  Window(q)' /\ SameReader(q)' /\ Cardinality(batch') =< BatchMax
<1>1. /\ UNCHANGED <<q, sent, batch>> /\ cursor_file' = saved
      /\ worker = "saving" /\ worker' = "waiting"
  BY DEF SaveCursor, Worker
<1>2. /\ InnerType(q) /\ DInv /\ Window(q) /\ Unread(q, saved) = Unread(q, q.cursor)
      /\ Cardinality(batch) =< BatchMax
  BY <1>1, KnownEvents DEF WInv, SameReader
<1>3. Unread(q, cursor_file)' = Unread(q, q.cursor) /\ Unread(q, q.cursor)' = Unread(q, q.cursor)
  BY <1>1, <1>2 DEF Unread
<1>4. Ids(Unread(q, q.cursor)) \subseteq Ids(Unread(q, cursor_file))
  <2>1. q.cursor \in Cursor /\ cursor_file \in Cursor /\ NotBefore(q.cursor, cursor_file)
    BY <1>2, CursorType DEF DInv, IInv, TypeOK, CursorFileBehind
  <2>2. QED
    BY <1>2, <2>1, UnreadEarlier
<1>5. Window(q)'
  BY <1>1, <1>2, <1>3, <1>4, WindowShrinks
<1>6. SameReader(q)'
  BY <1>1, <1>3 DEF SameReader
<1>7. QED
  BY <1>1, <1>2, <1>5, <1>6

(* A restart reads on where cursor.json says, whichever of the segments it *)
(* speaks of are gone.                                                     *)
LEMMA ResumeSame ==
  ASSUME IInv, NEW d \in Cursor, Resume(q, cursor_file, d)
  PROVE  Unread(q, d) = Unread(q, cursor_file)
<1>1. /\ InnerType(q) /\ q.cursor \in Cursor /\ cursor_file \in Cursor
      /\ q.segments \subseteq Nat /\ q.cursor.seg \in q.segments
      /\ NotBefore(q.cursor, cursor_file) /\ q.recs \subseteq Record
      /\ \A r \in q.recs : r.seg \in q.segments /\ 0 < r.end
  BY DEF IInv, Files, Shape, TypeOK, InnerType, CursorFileBehind
<1>2. CASE cursor_file.seg \in q.segments /\ d = cursor_file
  BY <1>2
<1>3. CASE /\ cursor_file.seg \notin q.segments
           /\ d.off = 0
           /\ IsOldest(d.seg, {s \in q.segments : cursor_file.seg < s})
  <2> SUFFICES ASSUME NEW r \in q.recs
               PROVE  From(r, d) <=> From(r, cursor_file)
    BY DEF Unread
  <2>1. r \in Record /\ r.seg \in q.segments /\ 0 < r.end
    BY <1>1
  <2>2. cursor_file.seg < d.seg /\ (cursor_file.seg < r.seg => d.seg =< r.seg)
    BY <1>3, <2>1 DEF IsOldest
  <2>3. QED
    BY <1>1, <1>3, <2>1, <2>2 DEF From, Cursor, Record
<1>4. CASE \A s \in q.segments : s < cursor_file.seg
  BY <1>1, <1>4 DEF NotBefore, Cursor
<1>5. QED
  BY <1>2, <1>3, <1>4 DEF Resume

LEMMA OpenWindow ==
  ASSUME WInv, Open
  PROVE  Window(q)' /\ SameReader(q)' /\ Cardinality(batch') =< BatchMax
<1>1. InnerType(q) /\ DInv /\ IInv /\ Window(q) /\ worker = "waiting"
  BY KnownEvents DEF WInv, DInv, IInv, BatchCovers, Open, Up
<1>2. PICK s \in q.segments, o \in {0, cursor_file.off} :
        /\ Resume(q, cursor_file, [seg |-> s, off |-> o])
        /\ q'.recs = q.recs /\ q'.cursor = [seg |-> s, off |-> o]
  BY <1>1 DEF Open, InnerType
<1>3. [seg |-> s, off |-> o] \in Cursor
  BY <1>1 DEF IInv, TypeOK, InnerType, Cursor
<1>4. UNCHANGED <<sent, cursor_file, batch, worker>>
  BY DEF Open, ghosts
<1>5. /\ Unread(q, cursor_file)' = Unread(q, cursor_file)
      /\ Unread(q, q.cursor)' = Unread(q, cursor_file)
  BY <1>1, <1>2, <1>3, <1>4, ResumeSame DEF Unread
<1>6. Window(q)'
  BY <1>1, <1>4, <1>5, WindowShrinks
<1>7. SameReader(q)'
  BY <1>1, <1>4, <1>5 DEF SameReader
<1>8. QED
  BY <1>4, <1>6, <1>7 DEF WInv

LEMMA InitWindow == Init => WInv
<1> SUFFICES ASSUME Init PROVE WInv
  OBVIOUS
<1>1. DInv
  BY InitDelivers
<1>2. q.recs = {} /\ sent = {} /\ batch = {} /\ worker = "waiting"
  BY DEF Init
<1>3. Unread(q, cursor_file) = {} /\ Unread(q, q.cursor) = {}
  BY <1>2 DEF Unread
<1>4. sent \cap Ids(Unread(q, cursor_file)) = {}
  BY <1>2
<1>5. Cardinality({}) =< BatchMax
  BY FS_EmptySet, SizeAssumption
<1>6. QED
  BY <1>1, <1>2, <1>3, <1>4, <1>5 DEF WInv, Window, SameReader

LEMMA StepWindow ==
  ASSUME "cursor" \notin Faults, WInv, [Next]_vars
  PROVE  WInv'
<1>1. DInv'
  BY StepDelivers DEF WInv
<1>0. IInv'
  BY <1>1 DEF DInv
<1> SUFFICES Window(q)' /\ SameReader(q)' /\ Cardinality(batch') =< BatchMax
  BY <1>1 DEF WInv
<1>2. CASE \/ Arrive \/ PushOpenFails \/ PushDropNewest \/ PushCancelled
           \/ WaitData \/ Cancel \/ OldestAge \/ Rest \/ ResetPeek
           \/ UNCHANGED vars
  BY <1>2, SameWindow
<1>3. CASE PushWriteFails \/ PushDropOldestFails \/ PushDropOldest \/ AckUnlink
  BY <1>0, <1>3, RemovalWindow
<1>4. CASE Crash \/ Stop
  <2>1. PICK f \in Boundaries(q) : Down(f)
    BY <1>4 DEF Crash, Stop, Boundaries
  <2>2. f \in Nat
    BY <2>1, BoundariesType, KnownEvents DEF WInv
  <2>3. QED
    BY <1>0, <2>1, <2>2, RemovalWindow
<1>5. CASE PeekBatch \/ FinalPeek
  <2>1. PeekFrom("waiting") \/ PeekFrom("peeking")
    BY <1>5 DEF PeekBatch, FinalPeek
  <2>2. QED
    BY <2>1, PeekWindow
<1>6. CASE SaveCursorFails
  BY <1>6 DEF SaveCursorFails, Fault
<1>7. QED
  BY <1>2, <1>3, <1>4, <1>5, <1>6, PushWindow, SendWindow, AckWindow,
     SaveWindow, OpenWindow
     DEF Next, Router, Consumer

(* Unless a save of the cursor fails, a restart resends no more than one   *)
(* batch, wherever the process ended.                                      *)
THEOREM OneBatchResent ==
  ASSUME "cursor" \notin Faults
  PROVE  Spec => []DuplicateWindow
<1>1. WInv => DuplicateWindow
  <2> SUFFICES ASSUME WInv, NEW d \in ResumePoints
               PROVE  Cardinality(sent \cap Ids(Unread(q, d))) =< BatchMax
    BY DEF DuplicateWindow
  <2>1. InnerType(q) /\ cursor_file \in Cursor /\ q.segments \subseteq Nat
    BY DEF WInv, DInv, IInv, TypeOK, InnerType
  <2>2. d \in Cursor /\ Resume(q, cursor_file, d)
    BY <2>1 DEF ResumePoints, Cursor
  <2>3. Unread(q, d) = Unread(q, cursor_file)
    BY <2>2, ResumeSame DEF WInv, DInv
  <2>4. QED
    BY <2>3 DEF WInv, Window
<1>2. WInv /\ [Next]_vars => WInv'
  BY StepWindow
<1>3. QED
  BY InitWindow, <1>1, <1>2, PTL DEF Spec

-----------------------------------------------------------------------------
(* The counters of the queue agree with its files, and the cap on the      *)
(* files' size holds.                                                      *)

(* The records of the write segment.                                       *)
Latest(i) == {r \in i.recs : r.seg = i.write_seg}

Lengths(i) ==
  /\ i.write_off = i.len[i.write_seg]
  /\ i.bytes = TotalLen(i)
  /\ i.write_seg_count = Cardinality(Latest(i))

Exact(i) == i.count = Cardinality(Unread(i, i.cursor))

(* The inductive invariant.  Without drop_oldest, what the worker holds is *)
(* still in the files, so that ack subtracts what the cursor passes.       *)
CInv ==
  /\ DInv
  /\ Up => Lengths(q)
  /\ TotalLen(q) =< MaxBytes
  /\ Up /\ q.policy # "drop_oldest" => Exact(q) /\ batch \subseteq Ids(HandedOut(q))

(* j follows i with files that are no longer, and counted as they are ...  *)
Counts(i, j) == Lengths(j) /\ TotalLen(j) =< TotalLen(i) /\ j.policy = i.policy

(* ... and with what a reader finds still counted and still there.         *)
Exactly(i, j) == (Exact(i) => Exact(j)) /\ HandedOut(i) \subseteq HandedOut(j)

-----------------------------------------------------------------------------
(* The operators of DiskQueueInner.                                        *)

LEMMA OpenFacts ==
  ASSUME NEW i, OpenShape(i)
  PROVE  /\ InnerType(i) /\ i.recs \subseteq Record
         /\ i.cursor \in Cursor /\ i.peek \in Cursor
         /\ i.flushed \in Nat /\ i.write_off \in Nat /\ i.flushed =< i.write_off
         /\ i.count \in Nat /\ i.bytes \in Nat /\ i.write_seg_count \in Nat
         /\ i.segments \subseteq Nat /\ i.write_seg \in i.segments
         /\ \A s \in i.segments : s =< i.write_seg
         /\ \A r \in i.recs : r.seg \in i.segments
         /\ i.cursor.seg \in i.segments /\ i.peek.seg \in i.segments
         /\ i.cursor.seg = i.write_seg => i.cursor.off =< i.flushed
         /\ i.peek.seg = i.write_seg => i.peek.off =< i.flushed
         /\ \A r \in i.recs : r.seg = i.write_seg => r.end =< i.write_off
  BY DEF OpenShape, Shape, InnerType, IsNewest, Behind, EndsBy

(* The file of segment s is changed to n bytes and no other is changed.    *)
LEMMA TotalChanged ==
  ASSUME NEW i, InnerType(i), NEW j, InnerType(j), NEW s \in i.segments, NEW n \in Nat,
         j.segments = i.segments, j.len = [i.len EXCEPT ![s] = n]
  PROVE  /\ TotalLen(j) \in Nat /\ TotalLen(i) \in Nat
         /\ TotalLen(j) + i.len[s] = TotalLen(i) + n
<1>1. TotalLen(i) = Others(i, s) + i.len[s] /\ Others(i, s) \in Nat
  BY TotalParts
<1>2. TotalLen(j) = Others(j, s) + j.len[s]
  BY TotalParts
<1>3. Others(j, s) = Others(i, s)
  <2>1. \A t \in i.segments \ {s} : j.len[t] = i.len[t]
    BY DEF InnerType
  <2>2. FileBytes(j.len, i.segments \ {s}) = FileBytes(i.len, i.segments \ {s})
    BY <2>1, SameFiles, Zenon
  <2>3. QED
    BY <2>2 DEF Others
<1>4. j.len[s] = n /\ i.len[s] \in Nat
  BY DEF InnerType
<1>5. QED
  BY <1>1, <1>2, <1>3, <1>4

LEMMA AppendCounts ==
  ASSUME NEW i, OpenShape(i), Lengths(i), NEW id \in Nat, NEW n \in Nat, 0 < n,
         NEW f \in Nat
  PROVE  LET j == AppendRecord(i, id, n, f) IN
         Lengths(j) /\ TotalLen(j) = TotalLen(i) + n /\ j.policy = i.policy /\ Exactly(i, j)
<1> DEFINE j == AppendRecord(i, id, n, f)
           r == [id |-> id, seg |-> i.write_seg, end |-> i.write_off + n]
<1>1. InnerType(i) /\ InnerType(j)
  BY AppendType, OpenFacts
<1>2. /\ j.recs = i.recs \cup {r} /\ j.segments = i.segments
      /\ j.len = [i.len EXCEPT ![i.write_seg] = i.write_off + n]
      /\ j.write_seg = i.write_seg /\ j.write_off = i.write_off + n
      /\ j.write_seg_count = i.write_seg_count + 1
      /\ j.cursor = i.cursor /\ j.peek = i.peek /\ j.policy = i.policy
      /\ j.count = i.count + 1 /\ j.bytes = i.bytes + n
  BY <1>1 DEF InnerType, AppendRecord
<1> HIDE DEF j
<1>3. r \notin i.recs /\ From(r, i.cursor) /\ r.seg = i.write_seg
  BY OpenFacts DEF From, Cursor
<1>4. i.len[i.write_seg] = i.write_off /\ i.write_off \in Nat
  BY OpenFacts DEF Lengths
<1>5. TotalLen(j) = TotalLen(i) + n
  <2>1. i.write_off + n \in Nat /\ i.write_seg \in i.segments
    BY OpenFacts
  <2>2. TotalLen(j) + i.write_off = TotalLen(i) + (i.write_off + n)
    BY <1>1, <1>2, <1>4, <2>1, TotalChanged
  <2>3. TotalLen(j) \in Nat /\ TotalLen(i) \in Nat
    BY <1>1, TotalType
  <2>4. QED
    BY <1>4, <2>2, <2>3
<1>6. j.write_seg_count = Cardinality(Latest(j))
  <2>1. Latest(j) = Latest(i) \cup {r} /\ r \notin Latest(i)
    BY <1>2, <1>3 DEF Latest
  <2>2. IsFiniteSet(Latest(i))
    BY <1>1, SubsetFinite DEF Latest
  <2>3. Cardinality(Latest(j)) = Cardinality(Latest(i)) + 1
    BY <2>1, <2>2, FS_AddElement
  <2>4. QED
    BY <1>2, <2>3 DEF Lengths
<1>7. Lengths(j)
  <2>1. j.write_off = j.len[j.write_seg]
    BY <1>1, <1>2 DEF InnerType
  <2>2. QED
    BY <1>2, <1>5, <1>6, <2>1 DEF Lengths
<1>8. Exact(i) => Exact(j)
  <2>1. Unread(j, j.cursor) = Unread(i, i.cursor) \cup {r} /\ r \notin Unread(i, i.cursor)
    BY <1>2, <1>3 DEF Unread
  <2>2. IsFiniteSet(Unread(i, i.cursor))
    BY <1>1, SubsetFinite DEF Unread
  <2>3. Cardinality(Unread(j, j.cursor)) = Cardinality(Unread(i, i.cursor)) + 1
    BY <2>1, <2>2, FS_AddElement
  <2>4. QED
    BY <1>2, <2>3 DEF Exact
<1>9. HandedOut(i) \subseteq HandedOut(j)
  BY <1>2 DEF HandedOut
<1>10. QED
  BY <1>2, <1>5, <1>7, <1>8, <1>9 DEF j, Exactly

(* Of a set that R is taken from, the rest has as many less.               *)
LEMMA TakenAway ==
  ASSUME NEW S, IsFiniteSet(S), NEW R, R \subseteq S
  PROVE  /\ Cardinality(S) \in Nat /\ Cardinality(R) \in Nat
         /\ Cardinality(S \ R) = Cardinality(S) - Cardinality(R)
         /\ Cardinality(R) =< Cardinality(S)
<1>1. S \cap R = R
  OBVIOUS
<1>2. Cardinality(S \ R) = Cardinality(S) - Cardinality(R)
  BY <1>1, FS_Difference
<1>3. IsFiniteSet(R) /\ Cardinality(R) =< Cardinality(S)
  BY FS_Subset
<1>4. QED
  BY <1>2, <1>3, FS_CardinalityType

LEMMA ReconcileCounts ==
  ASSUME NEW i, OpenShape(i), Lengths(i), NEW f \in Nat,
         i.flushed =< f, f =< i.write_off
  PROVE  LET j == ReconcileWriteSegment(i, f) IN Counts(i, j) /\ Exactly(i, j)
<1> DEFINE j == ReconcileWriteSegment(i, f)
           Cut == {r \in i.recs : r.seg = i.write_seg /\ f < r.end}
<1>1. InnerType(i) /\ InnerType(j)
  BY ReconcileType, OpenFacts
<1>2. /\ j.recs = OnDisk(i, f) /\ j.segments = i.segments
      /\ j.len = [i.len EXCEPT ![i.write_seg] = f]
      /\ j.write_seg = i.write_seg /\ j.write_off = f
      /\ j.write_seg_count = Cardinality({r \in OnDisk(i, f) : r.seg = i.write_seg})
      /\ j.cursor = i.cursor /\ j.peek = i.peek /\ j.policy = i.policy
      /\ j.count = SatSub(i.count, SatSub(i.write_seg_count, j.write_seg_count))
      /\ j.bytes = SatSub(i.bytes, i.write_off) + f
  BY <1>1 DEF InnerType, ReconcileWriteSegment, DiscardBuffer, LostCount
<1> HIDE DEF j
<1>3. /\ i.len[i.write_seg] = i.write_off /\ i.write_off \in Nat
      /\ i.write_seg \in i.segments /\ i.recs \subseteq Record
  BY OpenFacts DEF Lengths
<1>4. j.recs = i.recs \ Cut
  BY <1>2, <1>3 DEF OnDisk, Record
<1>5. /\ TotalLen(j) \in Nat /\ TotalLen(i) \in Nat
      /\ TotalLen(j) + i.write_off = TotalLen(i) + f
  <2>1. TotalLen(j) + i.len[i.write_seg] = TotalLen(i) + f
    <3>1. j.segments = i.segments /\ j.len = [i.len EXCEPT ![i.write_seg] = f]
      BY <1>2
    <3>2. i.write_seg \in i.segments
      BY <1>3
    <3>3. QED
      BY <1>1, <3>1, <3>2, TotalChanged
  <2>2. QED
    BY <1>1, <1>3, <2>1, TotalType
<1>6. j.bytes = TotalLen(j)
  <2>1. i.bytes = TotalLen(i) /\ i.write_off =< TotalLen(i)
    <3>1. TotalLen(i) = Others(i, i.write_seg) + i.write_off /\ Others(i, i.write_seg) \in Nat
      BY <1>1, <1>3, TotalParts
    <3>2. QED
      BY <1>3, <3>1 DEF Lengths
  <2>2. QED
    BY <1>2, <1>3, <1>5, <2>1 DEF SatSub
<1>7. Latest(j) = Latest(i) \ Cut /\ Cut \subseteq Latest(i)
  BY <1>2, <1>4 DEF Latest
<1>8. Lengths(j)
  <2>1. {r \in OnDisk(i, f) : r.seg = i.write_seg} = Latest(j)
    BY <1>2 DEF Latest
  <2>2. j.write_off = j.len[j.write_seg]
    BY <1>1, <1>2 DEF InnerType
  <2>3. QED
    BY <1>2, <1>6, <2>1, <2>2 DEF Lengths
<1>9. Exact(i) => Exact(j)
  <2>1. IsFiniteSet(Latest(i)) /\ IsFiniteSet(Unread(i, i.cursor))
    BY <1>1, SubsetFinite DEF Latest, Unread
  <2>2. Cut \subseteq Unread(i, i.cursor)
    BY OpenFacts DEF Unread, From, Record, Cursor
  <2>3. Unread(j, j.cursor) = Unread(i, i.cursor) \ Cut
    BY <1>2, <1>4 DEF Unread
  <2>4. /\ i.write_seg_count = Cardinality(Latest(i))
        /\ j.write_seg_count = Cardinality(Latest(i)) - Cardinality(Cut)
        /\ Cardinality(Latest(i)) \in Nat /\ Cardinality(Cut) \in Nat
    BY <1>7, <1>8, <2>1, TakenAway DEF Lengths
  <2>5. SatSub(i.write_seg_count, j.write_seg_count) = Cardinality(Cut)
    BY <2>4 DEF SatSub
  <2>6. /\ Cardinality(Unread(j, j.cursor)) =
             Cardinality(Unread(i, i.cursor)) - Cardinality(Cut)
        /\ Cardinality(Cut) =< Cardinality(Unread(i, i.cursor))
        /\ Cardinality(Unread(i, i.cursor)) \in Nat
    BY <2>1, <2>2, <2>3, TakenAway
  <2>7. QED
    BY <1>2, <2>4, <2>5, <2>6 DEF Exact, SatSub
<1>10. HandedOut(i) \subseteq HandedOut(j)
  <2>1. \A r \in HandedOut(i) : r \notin Cut
    BY OpenFacts DEF HandedOut, From, Record, Cursor
  <2>2. QED
    BY <1>2, <1>4, <2>1 DEF HandedOut
<1>11. TotalLen(j) =< TotalLen(i)
  BY <1>3, <1>5
<1>12. QED
  BY <1>2, <1>8, <1>9, <1>10, <1>11 DEF j, Counts, Exactly

LEMMA NewSegmentCounts ==
  ASSUME NEW i, OpenShape(i), Lengths(i)
  PROVE  Counts(i, NewSegment(i)) /\ Exactly(i, NewSegment(i))
<1> DEFINE j == NewSegment(i)
           next == i.write_seg + 1
<1>1. InnerType(i) /\ InnerType(j)
  BY NewSegmentType, OpenFacts
<1>2. /\ j.recs = i.recs /\ j.segments = i.segments \cup {next}
      /\ j.len = [s \in i.segments \cup {next} |-> IF s = next THEN 0 ELSE i.len[s]]
      /\ j.write_seg = next /\ j.write_off = 0 /\ j.write_seg_count = 0
      /\ j.cursor = i.cursor /\ j.peek = i.peek /\ j.policy = i.policy
      /\ j.count = i.count /\ j.bytes = i.bytes
  BY <1>1 DEF InnerType, NewSegment
<1> HIDE DEF j
<1>3. next \notin i.segments /\ \A r \in i.recs : r.seg # next
  BY OpenFacts
<1>4. TotalLen(j) = TotalLen(i)
  <2>1. j.segments \ {next} = i.segments
    BY <1>2, <1>3
  <2>2. \A s \in i.segments : j.len[s] = i.len[s]
    BY <1>2, <1>3
  <2>3. FileBytes(j.len, i.segments) = FileBytes(i.len, i.segments)
    BY <2>2, SameFiles, Zenon
  <2>4. Others(j, next) = TotalLen(i)
    BY <2>1, <2>3 DEF Others, TotalLen
  <2>5. TotalLen(j) = Others(j, next) + 0 /\ Others(j, next) \in Nat
    <3>1. next \in j.segments /\ j.len[next] = 0
      BY <1>2
    <3>2. QED
      BY <1>1, <3>1, TotalParts
  <2>6. QED
    BY <2>4, <2>5
<1>5. Latest(j) = {} /\ Cardinality({}) = 0
  BY <1>2, <1>3, FS_EmptySet DEF Latest
<1>6. Lengths(j)
  <2>1. j.len[j.write_seg] = 0
    BY <1>2
  <2>2. QED
    BY <1>2, <1>4, <1>5, <2>1 DEF Lengths
<1>7. Exactly(i, j)
  BY <1>2 DEF Exactly, Exact, Unread, HandedOut
<1>8. TotalLen(i) \in Nat
  BY <1>1, TotalType
<1>9. QED
  BY <1>2, <1>4, <1>6, <1>7, <1>8 DEF j, Counts

LEMMA SameCounts ==
  ASSUME NEW i, InnerType(i), NEW j, Lengths(i),
         j.recs = i.recs, j.segments = i.segments, j.len = i.len,
         j.write_seg = i.write_seg, j.write_off = i.write_off, j.bytes = i.bytes,
         j.write_seg_count = i.write_seg_count, j.policy = i.policy
  PROVE  Counts(i, j)
<1>1. TotalLen(j) = TotalLen(i) /\ Latest(j) = Latest(i)
  BY DEF TotalLen, Latest
<1>2. TotalLen(i) \in Nat
  BY TotalType
<1>3. QED
  BY <1>1, <1>2 DEF Counts, Lengths

LEMMA RollCounts ==
  ASSUME NEW i, OpenShape(i), Lengths(i), NEW r \in RollSegment(i)
  PROVE  Counts(i, r.inner) /\ Exactly(i, r.inner)
<1>1. InnerType(i)
  BY OpenFacts
<1>2. CASE r = [inner |-> NewSegment(i), fault |-> "none"]
  BY <1>2, NewSegmentCounts
<1>3. CASE \E f \in Boundaries(i) \ {i.write_off} :
             r = [inner |-> ReconcileWriteSegment(i, f), fault |-> "flush"]
  <2>1. PICK f \in Boundaries(i) \ {i.write_off} :
               r = [inner |-> ReconcileWriteSegment(i, f), fault |-> "flush"]
    BY <1>3
  <2>2. f \in Nat /\ i.flushed =< f /\ f =< i.write_off
    BY <2>1, OpenFacts DEF Boundaries, Record
  <2>3. QED
    BY <2>1, <2>2, ReconcileCounts
<1>4. CASE r = [inner |-> CloseWriter(i), fault |-> "create"]
  <2> DEFINE j == CloseWriter(i)
  <2>1. /\ j.recs = i.recs /\ j.segments = i.segments /\ j.len = i.len
        /\ j.write_seg = i.write_seg /\ j.write_off = i.write_off /\ j.bytes = i.bytes
        /\ j.write_seg_count = i.write_seg_count /\ j.policy = i.policy
        /\ j.cursor = i.cursor /\ j.peek = i.peek /\ j.count = i.count
    BY <1>1 DEF CloseWriter, InnerType
  <2> HIDE DEF j
  <2>2. Counts(i, j)
    BY <1>1, <2>1, SameCounts
  <2>3. Exactly(i, j)
    BY <2>1 DEF Exactly, Exact, Unread, HandedOut
  <2>4. QED
    BY <1>4, <2>2, <2>3 DEF j
<1>5. QED
  BY <1>2, <1>3, <1>4 DEF RollSegment

LEMMA DropCounts ==
  ASSUME NEW i, OpenShape(i), Lengths(i), NEW s \in i.segments, s # i.write_seg
  PROVE  Counts(i, DropSegment(i, s))
<1> DEFINE j == DropSegment(i, s)
<1>1. InnerType(i) /\ InnerType(j)
  BY DropSegmentType, OpenFacts
<1>2. /\ j.recs = {r \in i.recs : r.seg # s} /\ j.segments = i.segments \ {s}
      /\ j.len = [t \in i.segments \ {s} |-> i.len[t]]
      /\ j.write_seg = i.write_seg /\ j.write_off = i.write_off
      /\ j.write_seg_count = i.write_seg_count /\ j.policy = i.policy
      /\ j.bytes = SatSub(i.bytes, i.len[s])
  BY <1>1 DEF InnerType, DropSegment
<1> HIDE DEF j
<1>3. TotalLen(i) = TotalLen(j) + i.len[s] /\ TotalLen(j) \in Nat /\ i.len[s] \in Nat
  <2>1. FileBytes(j.len, i.segments \ {s}) = FileBytes(i.len, i.segments \ {s})
    <3>1. \A t \in i.segments \ {s} : j.len[t] = i.len[t]
      BY <1>2
    <3>2. QED
      BY <3>1, SameFiles, Zenon
  <2>2. Others(i, s) = TotalLen(j)
    BY <1>2, <2>1 DEF Others, TotalLen
  <2>3. QED
    BY <1>1, <2>2, TotalParts, TotalType DEF InnerType
<1>4. j.bytes = TotalLen(j)
  BY <1>2, <1>3 DEF Lengths, SatSub
<1>5. Latest(j) = Latest(i)
  BY <1>2 DEF Latest
<1>6. j.len[j.write_seg] = i.len[i.write_seg]
  BY <1>1, <1>2 DEF InnerType
<1>7. QED
  BY <1>2, <1>3, <1>4, <1>5, <1>6 DEF j, Counts, Lengths

LEMMA EvictCounts ==
  ASSUME NEW i, OpenShape(i), Lengths(i), NEW s \in i.segments, s # i.write_seg,
         NEW next \in i.segments
  PROVE  Counts(i, EvictSegment(i, s, next))
<1> DEFINE k == DropSegment(i, s)
           j == EvictSegment(i, s, next)
<1>1. InnerType(i) /\ InnerType(k)
  BY DropSegmentType, OpenFacts
<1>2. Counts(i, k)
  BY DropCounts
<1>3. /\ j.recs = k.recs /\ j.segments = k.segments /\ j.len = k.len
      /\ j.write_seg = k.write_seg /\ j.write_off = k.write_off
      /\ j.bytes = k.bytes /\ j.write_seg_count = k.write_seg_count
      /\ j.policy = k.policy
  <2> HIDE DEF k
  <2>1. QED
    BY <1>1 DEF k, EvictSegment, InnerType
<1> HIDE DEF k, j
<1>4. Counts(k, j)
  BY <1>1, <1>2, <1>3, SameCounts DEF Counts
<1>5. TotalLen(i) \in Nat /\ TotalLen(k) \in Nat /\ TotalLen(j) = TotalLen(k)
  BY <1>1, <1>3, TotalType DEF TotalLen
<1>6. QED
  BY <1>2, <1>4, <1>5 DEF Counts, j

-----------------------------------------------------------------------------
(* The steps.                                                              *)

LEMMA CountsKept ==
  ASSUME CInv, DInv', Counts(q, q'), UNCHANGED <<phase, batch>>,
         q.policy # "drop_oldest" => Exactly(q, q')
  PROVE  CInv'
<1>1. InnerType(q) /\ InnerType(q')
  BY DEF CInv, DInv, IInv, TypeOK
<1>2. TotalLen(q) \in Nat /\ TotalLen(q') \in Nat
  BY <1>1, TotalType
<1>3. Lengths(q') /\ q'.policy = q.policy /\ TotalLen(q') =< MaxBytes
  BY <1>2, SizeAssumption DEF Counts, CInv
<1>4. ASSUME Up, q.policy # "drop_oldest"
      PROVE  Exact(q') /\ batch \subseteq Ids(HandedOut(q'))
  BY <1>4 DEF CInv, Exactly, Ids
<1>5. QED
  BY <1>3, <1>4 DEF CInv, Up

LEMMA CountsOpen ==
  ASSUME CInv, Up
  PROVE  OpenShape(q) /\ Lengths(q) /\ TypeOK /\ IInv
  BY UpShape DEF CInv, DInv, IInv

LEMMA CountsTrans ==
  ASSUME NEW i, NEW j, NEW k, InnerType(i), InnerType(j), InnerType(k),
         Counts(i, j), Counts(j, k)
  PROVE  Counts(i, k)
<1>1. TotalLen(i) \in Nat /\ TotalLen(j) \in Nat /\ TotalLen(k) \in Nat
  BY TotalType
<1>2. QED
  BY <1>1 DEF Counts

LEMMA PushCounts == CInv /\ DInv' /\ Push => CInv'
<1> SUFFICES ASSUME CInv, DInv', Push PROVE CInv'
  OBVIOUS
<1>1. Up /\ OpenShape(q) /\ Lengths(q) /\ TypeOK /\ InnerType(q)
  BY CountsOpen DEF Push, Pushing, TypeOK
<1>2. /\ incoming.id \in Nat /\ incoming.len \in Nat /\ 0 < incoming.len
      /\ q.bytes + incoming.len =< MaxBytes /\ UNCHANGED <<phase, batch>>
  BY <1>1, IncomingType DEF Push, Pushing, Fits, PushReturns
<1> DEFINE pushed(f) == AppendRecord(q, incoming.id, incoming.len, f)
<1>3. PICK f \in {q.flushed, q.write_off, q.write_off + incoming.len} :
        \E r \in IF pushed(f).write_off < SegBytes
                   THEN {[inner |-> pushed(f), fault |-> "none"]}
                   ELSE RollSegment(pushed(f)) : q' = r.inner
  BY DEF Push
<1>4. f \in Nat /\ q.flushed =< f /\ f =< q.write_off + incoming.len
  BY <1>1, <1>2, OpenFacts
<1> DEFINE j == AppendRecord(q, incoming.id, incoming.len, f)
<1>5. /\ Lengths(j) /\ TotalLen(j) = TotalLen(q) + incoming.len
      /\ j.policy = q.policy /\ Exactly(q, j)
  BY <1>1, <1>2, <1>4, AppendCounts
<1>6. OpenShape(j)
  BY <1>1, <1>2, <1>4, AppendKeeps DEF Keeps
<1> HIDE DEF j
<1>7. Counts(j, q') /\ Exactly(j, q')
  <2>1. PICK r \in IF j.write_off < SegBytes THEN {[inner |-> j, fault |-> "none"]}
                                             ELSE RollSegment(j) : q' = r.inner
    BY <1>3 DEF j
  <2>2. CASE j.write_off < SegBytes
    <3>1. q' = j
      BY <2>1, <2>2
    <3>2. InnerType(j)
      BY <1>6, OpenFacts
    <3>3. QED
      BY <1>5, <3>1, <3>2, SameCounts DEF Exactly
  <2>3. CASE ~(j.write_off < SegBytes)
    BY <1>5, <1>6, <2>1, <2>3, RollCounts
  <2>4. QED
    BY <2>2, <2>3
<1>8. /\ TotalLen(q) \in Nat /\ TotalLen(j) \in Nat /\ TotalLen(q') \in Nat
      /\ q.bytes = TotalLen(q)
  BY <1>1, <1>6, OpenFacts, TotalType DEF Lengths, DInv, IInv, TypeOK
<1>9. TotalLen(q') =< MaxBytes
  BY <1>2, <1>5, <1>7, <1>8, SizeAssumption DEF Counts
<1>10. Lengths(q') /\ q'.policy = q.policy
  BY <1>5, <1>7 DEF Counts
<1>11. ASSUME q.policy # "drop_oldest"
       PROVE  Exact(q') /\ batch \subseteq Ids(HandedOut(q'))
  BY <1>1, <1>5, <1>7, <1>11 DEF CInv, Exactly, Ids
<1>12. QED
  BY <1>2, <1>9, <1>10, <1>11 DEF CInv, Up

LEMMA PushFailsCounts ==
  CInv /\ DInv' /\ (PushWriteFails \/ PushDropOldestFails) => CInv'
<1> SUFFICES ASSUME CInv, DInv', PushWriteFails \/ PushDropOldestFails PROVE CInv'
  OBVIOUS
<1>1. /\ Up /\ OpenShape(q) /\ Lengths(q) /\ TypeOK /\ InnerType(q)
      /\ UNCHANGED <<phase, batch>>
  BY CountsOpen DEF PushWriteFails, PushDropOldestFails, Pushing, PushReturns, TypeOK
<1>2. CASE PushWriteFails
  <2>1. PICK f \in Boundaries(q) :
          q' \in {NewSegment(ReconcileWriteSegment(q, f)), ReconcileWriteSegment(q, f)}
    BY <1>2 DEF PushWriteFails
  <2>2. f \in Nat /\ q.flushed =< f /\ f =< q.write_off
    BY <1>1, OpenFacts DEF Boundaries, Record
  <2> DEFINE k == ReconcileWriteSegment(q, f)
  <2>3. Counts(q, k) /\ Exactly(q, k)
    BY <1>1, <2>2, ReconcileCounts
  <2>4. OpenShape(k)
    BY <1>1, <2>2, ReconcileKeeps DEF Keeps
  <2> HIDE DEF k
  <2>5. Counts(k, NewSegment(k)) /\ Exactly(k, NewSegment(k)) /\ InnerType(NewSegment(k))
    BY <2>3, <2>4, NewSegmentCounts, NewSegmentType, OpenFacts DEF Counts
  <2>6. Counts(q, NewSegment(k)) /\ Exactly(q, NewSegment(k))
    BY <1>1, <2>3, <2>4, <2>5, CountsTrans, OpenFacts DEF Exactly
  <2>7. Counts(q, q') /\ Exactly(q, q')
    BY <2>1, <2>3, <2>6 DEF k
  <2>8. QED
    BY <1>1, <2>7, CountsKept
<1>3. CASE PushDropOldestFails
  BY <1>1, <1>3, RollCounts, CountsKept DEF PushDropOldestFails
<1>4. QED
  BY <1>2, <1>3

LEMMA PushDropOldestCounts == CInv /\ DInv' /\ PushDropOldest => CInv'
<1> SUFFICES ASSUME CInv, DInv', PushDropOldest PROVE CInv'
  OBVIOUS
<1>1. /\ Up /\ OpenShape(q) /\ Lengths(q) /\ TypeOK /\ InnerType(q)
      /\ UNCHANGED <<phase, batch>> /\ q.policy = "drop_oldest"
  BY CountsOpen DEF PushDropOldest, Pushing, TypeOK
<1> DEFINE start(s) == IF s = q.write_seg THEN NewSegment(q) ELSE q
<1>2. PICK s \in q.segments : \E next \in start(s).segments :
        q' = EvictSegment(start(s), s, next)
  BY DEF PushDropOldest
<1> DEFINE i == IF s = q.write_seg THEN NewSegment(q) ELSE q
<1>3. Counts(q, i) /\ OpenShape(i) /\ s \in i.segments /\ s # i.write_seg
  <2>1. CASE s = q.write_seg
    <3>1. i.segments = q.segments \cup {s + 1} /\ i.write_seg = s + 1 /\ s \in Nat
      BY <1>1, <2>1 DEF InnerType, NewSegment
    <3>2. QED
      BY <1>1, <2>1, <3>1, NewSegmentCounts, NewSegmentKeeps DEF Keeps
  <2>2. CASE s # q.write_seg
    BY <1>1, <2>2, SameCounts
  <2>3. QED
    BY <2>1, <2>2
<1>4. PICK next \in i.segments : q' = EvictSegment(i, s, next)
  BY <1>2
<1> HIDE DEF i
<1>5. Counts(i, q')
  BY <1>3, <1>4, EvictCounts DEF Counts
<1>6. Counts(q, q')
  <2>1. InnerType(i) /\ InnerType(q')
    BY <1>3, OpenFacts DEF DInv, IInv, TypeOK
  <2>2. QED
    BY <1>1, <1>3, <1>5, <2>1, CountsTrans
<1>7. QED
  BY <1>1, <1>6, CountsKept

(* Steps that leave the queue, its counters and the batch alone.           *)
LEMMA SameQueueCounts ==
  ASSUME CInv, DInv',
         \/ Arrive \/ PushOpenFails \/ PushDropNewest \/ PushCancelled
         \/ WaitData \/ AckUnlock \/ SaveCursor \/ SaveCursorFails \/ SendOk \/ SendFails
         \/ Cancel \/ OldestAge \/ Rest \/ UNCHANGED vars
  PROVE  CInv'
<1>1. InnerType(q) /\ InnerType(q')
  BY DEF CInv, DInv, IInv, TypeOK
<1>2. /\ batch' = batch /\ (Up' <=> Up)
      /\ \/ q' = q
         \/ \E f \in Boundaries(q) : q' = [q EXCEPT !.flushed = f]
  BY DEF Arrive, PushOpenFails, PushDropNewest, PushCancelled, PushReturns,
         WaitData, AckUnlock, SaveCursor, SaveCursorFails, SendOk, SendFails, Worker,
         Cancel, OldestAge, Rest, vars, mech, ghosts, Up
<1>3. /\ q'.recs = q.recs /\ q'.segments = q.segments /\ q'.len = q.len
      /\ q'.write_seg = q.write_seg /\ q'.write_off = q.write_off
      /\ q'.bytes = q.bytes /\ q'.write_seg_count = q.write_seg_count
      /\ q'.policy = q.policy /\ q'.count = q.count
      /\ q'.cursor = q.cursor /\ q'.peek = q.peek
  BY <1>1, <1>2 DEF InnerType
<1>4. /\ TotalLen(q') = TotalLen(q) /\ Latest(q') = Latest(q)
      /\ Unread(q', q'.cursor) = Unread(q, q.cursor) /\ HandedOut(q') = HandedOut(q)
  BY <1>3 DEF TotalLen, Latest, Unread, HandedOut
<1>5. QED
  BY <1>2, <1>3, <1>4 DEF CInv, Lengths, Exact

LEMMA PeekCounts ==
  ASSUME CInv, DInv', NEW s \in {"waiting", "peeking"}, PeekFrom(s), Up'
  PROVE  CInv'
<1>1. Up /\ OpenShape(q) /\ Lengths(q) /\ InnerType(q)
  BY CountsOpen, OpenFacts DEF PeekFrom, Worker
<1>2. PICK f \in Boundaries(q), p \in [seg : Nat, off : Nat] : PeekTo(f, p)
  <2>1. PICK f \in Boundaries(q), t \in q.segments :
          \E o \in {0, f} \cup {r.end : r \in q.recs} :
            PeekTo(f, [seg |-> t, off |-> o])
    BY DEF PeekFrom
  <2>2. \A o \in {0, f} \cup {r.end : r \in q.recs} : [seg |-> t, off |-> o] \in [seg : Nat, off : Nat]
    BY <1>1, <2>1, BoundariesType, OpenFacts DEF Record
  <2>3. QED
    BY <2>1, <2>2
<1> DEFINE got == {r \in OnDisk(q, f) : From(r, q.peek) /\ ~From(r, p)}
<1>3. q' = [q EXCEPT !.flushed = f, !.peek = p] /\ batch' = Ids(got)
  BY <1>2 DEF PeekTo
<1>4. /\ q'.recs = q.recs /\ q'.segments = q.segments /\ q'.len = q.len
      /\ q'.write_seg = q.write_seg /\ q'.write_off = q.write_off
      /\ q'.bytes = q.bytes /\ q'.write_seg_count = q.write_seg_count
      /\ q'.policy = q.policy /\ q'.count = q.count
      /\ q'.cursor = q.cursor /\ q'.peek = p
  BY <1>1, <1>3 DEF InnerType
<1>5. got \subseteq HandedOut(q')
  <2>1. NotBefore(q.peek, q.cursor)
    BY <1>1 DEF OpenShape
  <2>2. \A r \in got : r \in q.recs /\ r \in Record /\ From(r, q.peek) /\ ~From(r, p)
    BY <1>1, OpenFacts DEF OnDisk
  <2>3. q.peek \in Cursor /\ q.cursor \in Cursor
    BY <1>1, OpenFacts
  <2>4. \A r \in got : From(r, q.cursor)
    BY <2>1, <2>2, <2>3, FromEarlier
  <2>5. QED
    BY <1>4, <2>2, <2>4 DEF HandedOut
<1> HIDE DEF got
<1>6. /\ TotalLen(q') = TotalLen(q) /\ Latest(q') = Latest(q)
      /\ Unread(q', q'.cursor) = Unread(q, q.cursor)
  BY <1>4 DEF TotalLen, Latest, Unread
<1>7. batch' \subseteq Ids(HandedOut(q'))
  BY <1>3, <1>5 DEF Ids
<1>8. QED
  BY <1>1, <1>4, <1>6, <1>7 DEF CInv, Lengths, Exact

(* No event has two records, so there are as many of one as of the other.  *)
LEMMA IdsCounted ==
  ASSUME NEW R \in SUBSET Record, IsFiniteSet(R),
         \A r, s \in R : r.id = s.id => r = s
  PROVE  Cardinality(Ids(R)) = Cardinality(R)
<1> DEFINE g == [r \in R |-> r.id]
<1>1. g \in Surjection(R, Ids(R))
  BY DEF Surjection, Ids
<1>2. g \in Injection(R, Ids(R))
  BY <1>1 DEF Injection, IsInjective, Surjection
<1>3. QED
  BY <1>1, <1>2, FS_Surjection

LEMMA CursorStepsCounts == CInv /\ DInv' /\ (ResetPeek \/ Ack) => CInv'
<1> SUFFICES ASSUME CInv, DInv', ResetPeek \/ Ack PROVE CInv'
  OBVIOUS
<1>1. /\ Up /\ OpenShape(q) /\ Lengths(q) /\ InnerType(q) /\ IInv
      /\ batch' = {} /\ phase' = phase
  BY CountsOpen, OpenFacts DEF ResetPeek, Ack, Worker
<1>2. /\ q'.recs = q.recs /\ q'.segments = q.segments /\ q'.len = q.len
      /\ q'.write_seg = q.write_seg /\ q'.write_off = q.write_off
      /\ q'.bytes = q.bytes /\ q'.write_seg_count = q.write_seg_count
      /\ q'.policy = q.policy
      /\ \/ q'.cursor = q.cursor /\ q'.count = q.count
         \/ q'.cursor = q.peek /\ q'.count = SatSub(q.count, Cardinality(batch))
  BY <1>1 DEF ResetPeek, Ack, InnerType
<1>3. TotalLen(q') = TotalLen(q) /\ Latest(q') = Latest(q)
  BY <1>2 DEF TotalLen, Latest
<1>4. ASSUME q.policy # "drop_oldest" PROVE Exact(q')
  <2>1. Exact(q) /\ batch \subseteq Ids(HandedOut(q))
    BY <1>1, <1>4 DEF CInv
  <2>2. CASE q'.cursor = q.cursor /\ q'.count = q.count
    BY <1>2, <2>1, <2>2 DEF Exact, Unread
  <2>3. CASE q'.cursor = q.peek /\ q'.count = SatSub(q.count, Cardinality(batch))
    <3> DEFINE U == Unread(q, q.cursor)
               H == HandedOut(q)
    <3>1. batch = Ids(H)
      BY <1>1, <2>1 DEF IInv, BatchCovers
    <3>2. H \subseteq U /\ Unread(q', q'.cursor) = U \ H
      <4>1. \A r \in q.recs : From(r, q.peek) => From(r, q.cursor)
        BY <1>1, FromEarlier, OpenFacts DEF OpenShape
      <4>2. QED
        BY <1>2, <2>3, <4>1 DEF HandedOut, Unread
    <3>3. IsFiniteSet(U) /\ H \in SUBSET Record /\ IsFiniteSet(H)
      BY <1>1, SubsetFinite DEF HandedOut, Unread
    <3>4. Cardinality(batch) = Cardinality(H)
      <4>1. \A r, s \in H : r.id = s.id => r = s
        <5>1. \A r, s \in q.recs : r.id = s.id => r = s
          BY <1>1, OpenFacts DEF CInv, DInv, Orderly, RecOrder, Record
        <5>2. QED
          BY <5>1 DEF HandedOut
      <4> HIDE DEF H
      <4>2. QED
        BY <3>1, <3>3, <4>1, IdsCounted
    <3> HIDE DEF H, U
    <3>5. /\ Cardinality(U \ H) = Cardinality(U) - Cardinality(H)
          /\ Cardinality(H) =< Cardinality(U)
          /\ Cardinality(U) \in Nat /\ Cardinality(H) \in Nat
      BY <3>2, <3>3, TakenAway
    <3>6. q.count = Cardinality(U)
      BY <2>1 DEF Exact, U
    <3>7. QED
      BY <2>3, <3>2, <3>4, <3>5, <3>6 DEF Exact, SatSub
  <2>4. QED
    BY <1>2, <2>2, <2>3
<1>5. QED
  BY <1>1, <1>2, <1>3, <1>4 DEF CInv, Lengths, Up

LEMMA AckUnlinkCounts == CInv /\ DInv' /\ AckUnlink => CInv'
<1> SUFFICES ASSUME CInv, DInv', AckUnlink PROVE CInv'
  OBVIOUS
<1>1. /\ Up /\ OpenShape(q) /\ Lengths(q) /\ InnerType(q) /\ IInv
      /\ UNCHANGED <<phase, batch>> /\ worker = "unlinking"
  BY CountsOpen, OpenFacts DEF AckUnlink, Worker
<1>2. PICK s \in Consumed : q' = DropSegment(q, s)
  BY DEF AckUnlink
<1>3. s \in q.segments /\ s < q.cursor.seg /\ s # q.write_seg
  BY <1>2 DEF Consumed
<1>4. Counts(q, q')
  BY <1>1, <1>2, <1>3, DropCounts
<1>5. Exactly(q, q')
  <2>1. /\ q'.recs = {r \in q.recs : r.seg # s} /\ q'.cursor = q.cursor
        /\ q'.peek = q.peek /\ q'.count = q.count
    BY <1>1, <1>2 DEF DropSegment, InnerType
  <2>2. \A r \in q.recs : From(r, q.cursor) => r.seg # s
    BY <1>1, <1>3, OpenFacts DEF From, Record, Cursor
  <2>3. QED
    BY <2>1, <2>2 DEF Exactly, Exact, Unread, HandedOut
<1>6. QED
  BY <1>1, <1>4, <1>5, CountsKept

LEMMA DownCounts ==
  ASSUME CInv, DInv', NEW f \in Boundaries(q), Down(f)
  PROVE  CInv'
<1>1. Up /\ OpenShape(q) /\ Lengths(q) /\ InnerType(q) /\ InnerType(q') /\ ~Up'
  BY CountsOpen, OpenFacts DEF Down, DInv, IInv, TypeOK, Up
<1>2. f \in Nat /\ f =< q.write_off
  BY <1>1, OpenFacts DEF Boundaries, Record
<1>3. q'.segments = q.segments /\ q'.len = [q.len EXCEPT ![q.write_seg] = f]
  BY <1>1 DEF Down, InnerType
<1>4. q.write_seg \in q.segments /\ q.len[q.write_seg] = q.write_off /\ q.write_off \in Nat
  BY <1>1, OpenFacts DEF Lengths
<1>5. /\ TotalLen(q') \in Nat /\ TotalLen(q) \in Nat
      /\ TotalLen(q') + q.len[q.write_seg] = TotalLen(q) + f
  BY <1>1, <1>2, <1>3, <1>4, TotalChanged
<1>6. TotalLen(q') =< MaxBytes
  BY <1>2, <1>4, <1>5, SizeAssumption DEF CInv
<1>7. QED
  BY <1>1, <1>6 DEF CInv

LEMMA OpenCounts == CInv /\ DInv' /\ Open => CInv'
<1> SUFFICES ASSUME CInv, DInv', Open PROVE CInv'
  OBVIOUS
<1>1. InnerType(q) /\ InnerType(q') /\ batch = {} /\ batch' = batch
  BY DEF CInv, DInv, IInv, TypeOK, BatchCovers, Open, Up
<1>2. PICK w \in q.segments, d \in [seg : q.segments, off : {0, cursor_file.off}] :
        q' = [q EXCEPT !.write_seg = w, !.write_off = q.len[w],
                       !.flushed = q.len[w],
                       !.write_seg_count = Cardinality({r \in q.recs : r.seg = w}),
                       !.writer = FALSE, !.cursor = d, !.peek = d,
                       !.count = Cardinality(Unread(q, d)),
                       !.bytes = TotalLen(q)]
  BY DEF Open
<1>3. /\ q'.recs = q.recs /\ q'.segments = q.segments /\ q'.len = q.len
      /\ q'.write_seg = w /\ q'.write_off = q.len[w] /\ q'.bytes = TotalLen(q)
      /\ q'.write_seg_count = Cardinality({r \in q.recs : r.seg = w})
      /\ q'.cursor = d /\ q'.count = Cardinality(Unread(q, d))
  BY <1>1, <1>2 DEF InnerType
<1>4. TotalLen(q') = TotalLen(q) /\ Latest(q') = {r \in q.recs : r.seg = w}
      /\ Unread(q', q'.cursor) = Unread(q, d)
  BY <1>3 DEF TotalLen, Latest, Unread
<1>5. QED
  BY <1>1, <1>3, <1>4 DEF CInv, Lengths, Exact, Ids

LEMMA InitCounts == Init => CInv
<1> SUFFICES ASSUME Init PROVE CInv
  OBVIOUS
<1>1. DInv /\ InnerType(q)
  BY InitDelivers DEF DInv, IInv, TypeOK
<1>2. /\ q.recs = {} /\ q.segments = {0} /\ q.len = [s \in {0} |-> 0]
      /\ q.write_seg = 0 /\ q.write_off = 0 /\ q.write_seg_count = 0
      /\ q.count = 0 /\ q.bytes = 0 /\ batch = {}
  BY DEF Init
<1>3. Latest(q) = {} /\ Unread(q, q.cursor) = {} /\ Cardinality({}) = 0
  BY <1>2, FS_EmptySet DEF Latest, Unread
<1>4. TotalLen(q) = 0
  <2>1. FileBytes(q.len, q.segments) = {}
    BY <1>2 DEF FileBytes
  <2>2. QED
    BY <1>3, <2>1 DEF TotalLen
<1>5. QED
  BY <1>1, <1>2, <1>3, <1>4, SizeAssumption DEF CInv, Lengths, Exact

LEMMA StepCounts == CInv /\ [Next]_vars => CInv'
<1> SUFFICES ASSUME CInv, [Next]_vars PROVE CInv'
  OBVIOUS
<1>1. DInv'
  BY StepDelivers DEF CInv
<1>2. CASE \/ Arrive \/ PushOpenFails \/ PushDropNewest \/ PushCancelled
           \/ WaitData \/ AckUnlock \/ SaveCursor \/ SaveCursorFails \/ SendOk \/ SendFails
           \/ Cancel \/ OldestAge \/ Rest \/ UNCHANGED vars
  BY <1>1, <1>2, SameQueueCounts
<1>3. CASE Push \/ PushWriteFails \/ PushDropOldestFails \/ PushDropOldest
  BY <1>1, <1>3, PushCounts, PushFailsCounts, PushDropOldestCounts
<1>4. CASE PeekBatch \/ FinalPeek
  <2>1. \E s \in {"waiting", "peeking"} : PeekFrom(s)
    BY <1>4 DEF PeekBatch, FinalPeek
  <2>2. Up'
    BY <1>4 DEF PeekBatch, FinalPeek, PeekFrom, Worker, Up
  <2>3. QED
    BY <1>1, <2>1, <2>2, PeekCounts
<1>5. CASE ResetPeek \/ Ack \/ AckUnlink
  BY <1>1, <1>5, CursorStepsCounts, AckUnlinkCounts
<1>6. CASE Crash \/ Stop
  <2>1. PICK f \in Boundaries(q) : Down(f)
    BY <1>6 DEF Crash, Stop, Boundaries
  <2>2. QED
    BY <1>1, <2>1, DownCounts
<1>7. CASE Open
  BY <1>1, <1>7, OpenCounts
<1>8. QED
  BY <1>2, <1>3, <1>4, <1>5, <1>6, <1>7 DEF Next, Router, Consumer

LEMMA CountsInvariant == Spec => []CInv
  BY InitCounts, StepCounts, PTL DEF Spec

-----------------------------------------------------------------------------
(* The write offset, the byte count and the record count of the write      *)
(* segment are what the files say, after whatever failed.                  *)
THEOREM CountersInLockstep == Spec => []Lockstep
<1>1. CInv => Lockstep
  BY DEF CInv, Lockstep, Lengths, Latest
<1>2. QED
  BY <1>1, CountsInvariant, PTL

(* The files never grow beyond buffer.max_size_mb.                         *)
THEOREM SizeCapped == Spec => []CapRespected
<1>1. CInv => CapRespected
  BY DEF CInv, CapRespected
<1>2. QED
  BY <1>1, CountsInvariant, PTL

(* Unless drop_oldest evicts under a batch, the count of events is what a  *)
(* reader at the cursor finds.                                             *)
THEOREM EventsCounted == Spec => []CountExact
<1>1. CInv => CountExact
  BY DEF CInv, CountExact, ReadableCount, Exact
<1>2. QED
  BY <1>1, CountsInvariant, PTL
=============================================================================
