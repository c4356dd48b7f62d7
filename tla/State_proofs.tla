---------------------------- MODULE State_proofs ----------------------------
(***************************************************************************)
(* What TLAPS proves of the state manager, for any number of files and     *)
(* inputs, any retention and throttle, and without the bounds.             *)
(***************************************************************************)
EXTENDS State, TLAPS

(* Each method takes a StateFile to a StateFile.                           *)
LEMMA DefaultType == Default \in StateFile
  BY DEF Default, StateFile

LEMMA WithCursorType ==
  ASSUME NEW st \in StateFile, NEW k \in Keys, NEW offset \in Nat,
         NEW hash \in Hashes \cup {None}, NEW t \in Nat
  PROVE  WithCursor(st, k, offset, hash, t) \in StateFile
<1>1. Cursor(offset, hash, t) \in FileCursor
  BY DEF Cursor, FileCursor
<1> QED
  BY <1>1 DEF WithCursor, StateFile

LEMMA PrunedType ==
  ASSUME NEW st \in StateFile, NEW t \in Nat
  PROVE  Pruned(st, t) \in StateFile
  BY DEF Pruned, StateFile

(* The type invariant is inductive.                                        *)
THEOREM TypeCorrect == Spec => []TypeOK
<1>0. Never \in [Keys -> Nat \cup {None}]
  BY DEF Never
<1>1. Init => TypeOK
  <2>1. 0 \in Nat
    OBVIOUS
  <2> QED
    BY <1>0, <2>1, DefaultType, Zenon DEF Init, TypeOK
<1>2. TypeOK /\ [Next]_vars => TypeOK'
  <2> SUFFICES ASSUME TypeOK, [Next]_vars PROVE TypeOK'
    OBVIOUS
  <2> USE DEF TypeOK
  <2>1. ASSUME NEW k \in Keys, NEW offset \in Offsets,
               NEW hash \in Hashes \cup {None}, SetCursor(k, offset, hash)
        PROVE  TypeOK'
    <3>1. offset \in Nat
      BY OffsetAssumption
    <3>2. mem' \in StateFile
      BY <2>1, <3>1, WithCursorType DEF SetCursor
    <3>3. asked' \in [Keys -> Nat \cup {None}]
      BY <2>1 DEF SetCursor
    <3> QED
      BY <2>1, <3>2, <3>3 DEF SetCursor, Marked
  <2>2. ASSUME NEW k \in CheckpointKeys, NEW value \in Tokens, SetCheckpoint(k, value)
        PROVE  TypeOK'
    <3>1. mem' \in StateFile
      BY <2>2 DEF SetCheckpoint, WithCheckpoint, StateFile
    <3> QED
      BY <2>2, <3>1 DEF SetCheckpoint, Marked
  <2>3. ASSUME NEW i \in Inputs, MarkKnownInput(i) PROVE TypeOK'
    <3>1. mem' \in StateFile
      BY <2>3 DEF MarkKnownInput, WithKnownInput, StateFile
    <3> QED
      BY <2>3, <3>1 DEF MarkKnownInput, Marked
  <2>4. CASE FlushStart
    BY <2>4 DEF FlushStart
  <2>5. CASE FlushSnapshot
    BY <2>5, PrunedType DEF FlushSnapshot
  <2>6. CASE FlushWrite
    BY <2>6, DefaultType DEF FlushWrite
  <2>7. CASE FlushFails
    BY <2>7, DefaultType DEF FlushFails
  <2>8. CASE Open
    <3>1. opens' \in Nat
      BY <2>8 DEF Open
    <3> QED
      BY <1>0, <2>8, <3>1, DefaultType, Zenon DEF Open
  <2>9. CASE Tick
    BY <2>9 DEF Tick
  <2>10. CASE UNCHANGED vars
    BY <2>10 DEF vars
  <2> QED
    BY <2>1, <2>2, <2>3, <2>4, <2>5, <2>6, <2>7, <2>8, <2>9, <2>10 DEF Next, Set
<1> QED
  BY <1>1, <1>2, PTL DEF Spec

----------------------------------------------------------------------------
(* InSync is not inductive: a flush under way carries its promise in the   *)
(* bytes it has serialised.                                                *)
Unsaved ==
  ~dirty => CASE flusher = "idle"    -> disk = mem
              [] flusher = "writing" -> snapshot = mem
              [] OTHER               -> TRUE

(* While nothing is dirty and no flush runs, state.json is the state in    *)
(* memory: no setter and no failed write is forgotten by flush.            *)
THEOREM SavedOrDirty == Spec => []InSync
<1>1. Init => Unsaved
  BY DEF Init, Unsaved
<1>2. TypeOK /\ Unsaved /\ [Next]_vars => Unsaved'
  <2> SUFFICES ASSUME TypeOK, Unsaved, [Next]_vars PROVE Unsaved'
    OBVIOUS
  <2> USE DEF TypeOK, Unsaved
  <2>1. ASSUME Set PROVE Unsaved'
    <3>1. dirty' \/ mem' = mem
      BY <2>1 DEF Set, SetCursor, SetCheckpoint, MarkKnownInput, Marked
    <3>2. UNCHANGED <<disk, flusher, snapshot>> /\ (dirty => dirty')
      BY <2>1 DEF Set, SetCursor, SetCheckpoint, MarkKnownInput, Marked
    <3> QED
      BY <3>1, <3>2
  <2>2. CASE FlushStart
    BY <2>2 DEF FlushStart
  <2>3. CASE FlushSnapshot
    BY <2>3 DEF FlushSnapshot
  <2>4. CASE FlushWrite
    BY <2>4 DEF FlushWrite
  <2>5. CASE FlushFails
    BY <2>5 DEF FlushFails
  <2>6. CASE Open
    BY <2>6 DEF Open
  <2>7. CASE Tick
    BY <2>7 DEF Tick
  <2>8. CASE UNCHANGED vars
    BY <2>8 DEF vars
  <2> QED
    BY <2>1, <2>2, <2>3, <2>4, <2>5, <2>6, <2>7, <2>8 DEF Next
<1>3. Unsaved => InSync
  BY DEF Unsaved, InSync
<1> QED
  BY <1>1, <1>2, <1>3, TypeCorrect, PTL DEF Spec

----------------------------------------------------------------------------
(* What set_cursor leaves behind: a cursor that was touched less than a    *)
(* minute before it was last asked for, unless it has expired since.       *)
TouchedWhenAsked ==
  \A k \in Keys : asked[k] # None =>
    /\ asked[k] <= now
    /\ mem.files[k] # None => asked[k] < mem.files[k].touched + Minute
    /\ mem.files[k] = None => asked[k] + Retention + 1 < now + Minute

LEMMA SetCursorTouches ==
  ASSUME TypeOK, TouchedWhenAsked, NEW k \in Keys, NEW offset \in Nat,
         NEW hash \in Hashes \cup {None}, SetCursor(k, offset, hash)
  PROVE  TouchedWhenAsked'
<1>0. /\ asked' = [asked EXCEPT ![k] = now] /\ now' = now /\ now \in Nat
      /\ mem' = WithCursor(mem, k, offset, hash, now)
      /\ Minute \in Nat \ {0} /\ asked \in [Keys -> Nat \cup {None}]
      /\ mem \in StateFile /\ mem.files \in [Keys -> FileCursor \cup {None}]
  BY TimeAssumption DEF SetCursor, TypeOK, StateFile
<1>1. /\ mem'.files[k] # None
      /\ now < mem'.files[k].touched + Minute
  <2>1. CASE Throttled(mem.files[k], offset, hash, now)
    BY <1>0, <2>1 DEF WithCursor, Throttled
  <2>2. CASE ~Throttled(mem.files[k], offset, hash, now)
    <3>1. mem'.files[k] = Cursor(offset, hash, now)
      BY <1>0, <2>2 DEF WithCursor, StateFile
    <3>2. Cursor(offset, hash, now) \in FileCursor /\ Cursor(offset, hash, now).touched = now
      BY <1>0 DEF Cursor, FileCursor
    <3> QED
      BY <1>0, <3>1, <3>2, NoneAssumption
  <2> QED
    BY <2>1, <2>2
<1>2. ASSUME NEW j \in Keys, j # k PROVE mem'.files[j] = mem.files[j] /\ asked'[j] = asked[j]
  BY <1>0, <1>2 DEF WithCursor, StateFile
<1>3. asked'[k] = now
  BY <1>0
<1> QED
  BY <1>0, <1>1, <1>2, <1>3 DEF TouchedWhenAsked

LEMMA PruningSparesTouched ==
  ASSUME TypeOK, TouchedWhenAsked, FlushSnapshot
  PROVE  TouchedWhenAsked'
<1>0. /\ asked' = asked /\ now' = now /\ now \in Nat
      /\ mem' = Pruned(mem, now)
      /\ Minute \in Nat /\ Retention \in Nat /\ asked \in [Keys -> Nat \cup {None}]
      /\ mem \in StateFile /\ mem.files \in [Keys -> FileCursor \cup {None}]
  BY TimeAssumption DEF FlushSnapshot, TypeOK, StateFile
<1> SUFFICES ASSUME NEW k \in Keys, asked[k] # None
             PROVE  /\ asked[k] <= now
                    /\ mem'.files[k] # None => asked[k] < mem'.files[k].touched + Minute
                    /\ mem'.files[k] = None => asked[k] + Retention + 1 < now + Minute
  BY <1>0 DEF TouchedWhenAsked
<1>1. mem'.files[k] = IF Retained(mem.files[k], now) THEN mem.files[k] ELSE None
  BY <1>0 DEF Pruned, StateFile
<1>2. CASE Retained(mem.files[k], now)
  BY <1>0, <1>1, <1>2 DEF TouchedWhenAsked, Retained
<1>3. CASE ~Retained(mem.files[k], now) /\ mem.files[k] # None
  <2>1. mem.files[k].touched \in Nat
    BY <1>0, <1>3 DEF FileCursor
  <2>2. mem.files[k].touched + Retention < now
    BY <1>0, <1>3, <2>1 DEF Retained
  <2> QED
    BY <1>0, <1>1, <1>3, <2>1, <2>2 DEF TouchedWhenAsked
<1>4. CASE mem.files[k] = None
  BY <1>0, <1>1, <1>4 DEF TouchedWhenAsked, Retained
<1> QED
  BY <1>2, <1>3, <1>4

(* flush prunes no cursor of a file that is still polled, although an      *)
(* unchanged cursor is touched only once a minute.                         *)
THEOREM PolledFilesKept == Spec => []PolledFileKept
<1>1. Init => TouchedWhenAsked
  BY DEF Init, Never, TouchedWhenAsked
<1>2. TypeOK /\ TouchedWhenAsked /\ [Next]_vars => TouchedWhenAsked'
  <2> SUFFICES ASSUME TypeOK, TouchedWhenAsked, [Next]_vars PROVE TouchedWhenAsked'
    OBVIOUS
  <2>1. ASSUME NEW k \in Keys, NEW offset \in Offsets,
               NEW hash \in Hashes \cup {None}, SetCursor(k, offset, hash)
        PROVE  TouchedWhenAsked'
    BY <2>1, SetCursorTouches, OffsetAssumption
  <2>2. ASSUME NEW k \in CheckpointKeys, NEW value \in Tokens, SetCheckpoint(k, value)
        PROVE  TouchedWhenAsked'
    <3>1. mem'.files = mem.files
      BY <2>2 DEF SetCheckpoint, WithCheckpoint, TypeOK, StateFile
    <3> QED
      BY <2>2, <3>1 DEF SetCheckpoint, TouchedWhenAsked
  <2>3. ASSUME NEW i \in Inputs, MarkKnownInput(i) PROVE TouchedWhenAsked'
    <3>1. mem'.files = mem.files
      BY <2>3 DEF MarkKnownInput, WithKnownInput, TypeOK, StateFile
    <3> QED
      BY <2>3, <3>1 DEF MarkKnownInput, TouchedWhenAsked
  <2>4. CASE FlushStart
    BY <2>4 DEF FlushStart, TouchedWhenAsked
  <2>5. CASE FlushSnapshot
    BY <2>5, PruningSparesTouched
  <2>6. CASE FlushWrite
    BY <2>6 DEF FlushWrite, TouchedWhenAsked
  <2>7. CASE FlushFails
    BY <2>7 DEF FlushFails, TouchedWhenAsked
  <2>8. CASE Open
    BY <2>8 DEF Open, Never, TouchedWhenAsked
  <2>9. CASE Tick
    <3>1. now' = now + 1 /\ now \in Nat /\ Minute \in Nat /\ Retention \in Nat
          /\ UNCHANGED <<mem, asked>> /\ asked \in [Keys -> Nat \cup {None}]
      BY <2>9, TimeAssumption DEF Tick, TypeOK
    <3> QED
      BY <3>1 DEF TouchedWhenAsked
  <2>10. CASE UNCHANGED vars
    BY <2>10 DEF vars, TouchedWhenAsked
  <2> QED
    BY <2>1, <2>2, <2>3, <2>4, <2>5, <2>6, <2>7, <2>8, <2>9, <2>10 DEF Next, Set
<1>3. TypeOK /\ TouchedWhenAsked => PolledFileKept
  <2> SUFFICES ASSUME TypeOK, TouchedWhenAsked, NEW k \in Keys, asked[k] # None,
                      now + Minute <= asked[k] + Retention + 1
               PROVE  mem.files[k] # None
    BY DEF PolledFileKept
  <2>1. now \in Nat /\ asked[k] \in Nat /\ Minute \in Nat /\ Retention \in Nat
    BY TimeAssumption DEF TypeOK
  <2> QED
    BY <2>1 DEF TouchedWhenAsked
<1> QED
  BY <1>1, <1>2, <1>3, TypeCorrect, PTL DEF Spec
=============================================================================
