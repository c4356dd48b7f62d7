------------------------------- MODULE State -------------------------------
(***************************************************************************)
(* The state manager (src/state.rs): it keeps a StateFile in memory and    *)
(* flushes it to state.json every five seconds and when the engine stops.  *)
(*                                                                         *)
(* The inputs call set_cursor, set_checkpoint and mark_known_input from    *)
(* their tasks; each holds the mutex for the whole call and is one step.   *)
(* flush takes three: it clears the dirty flag without the mutex, prunes   *)
(* and serialises under it, and writes the file without it.                *)
(***************************************************************************)
EXTENDS StateFile

CONSTANTS
  Offsets,         (* the offsets that inputs store                        *)
  MaxTime,         (* bound: the clock                                     *)
  MaxFaults,       (* bound: writes of state.json that fail                *)
  MaxOpens         (* bound: restarts of the process                       *)

ASSUME OffsetAssumption == Offsets \subseteq Nat

VARIABLES
  mem,       (* StateManager.state                                         *)
  dirty,     (* StateManager.dirty                                         *)
  disk,      (* state.json                                                 *)
  flusher,   (* where flush stands                                         *)
  snapshot,  (* the bytes flush has serialised                             *)
  now,       (* the clock                                                  *)
  asked,     (* when set_cursor was last called for a key, for properties  *)
  faults, opens  (* how much of two bounds is used                         *)

vars == <<mem, dirty, disk, flusher, snapshot, now, asked, faults, opens>>

TypeOK ==
  /\ mem \in StateFile /\ disk \in StateFile /\ snapshot \in StateFile
  /\ dirty \in BOOLEAN
  /\ flusher \in {"idle", "cleared", "writing"}
  /\ now \in Nat
  /\ asked \in [Keys -> Nat \cup {None}]
  /\ faults \in Nat /\ opens \in Nat

Never == [k \in Keys |-> None]

Init ==
  /\ mem = Default /\ disk = Default /\ snapshot = Default
  /\ dirty = FALSE /\ flusher = "idle"
  /\ now = 0
  /\ asked = Never
  /\ faults = 0 /\ opens = 0

----------------------------------------------------------------------------
(* The setters.  What changes the state marks it dirty.                    *)

Marked == dirty' = (dirty \/ mem' # mem)

SetCursor(k, offset, hash) ==
  /\ mem' = WithCursor(mem, k, offset, hash, now)
  /\ Marked
  /\ asked' = [asked EXCEPT ![k] = now]
  /\ UNCHANGED <<disk, flusher, snapshot, now, faults, opens>>

SetCheckpoint(k, value) ==
  /\ mem' = WithCheckpoint(mem, k, value)
  /\ Marked
  /\ UNCHANGED <<disk, flusher, snapshot, now, asked, faults, opens>>

MarkKnownInput(i) ==
  /\ mem' = WithKnownInput(mem, i)
  /\ Marked
  /\ UNCHANGED <<disk, flusher, snapshot, now, asked, faults, opens>>

----------------------------------------------------------------------------
(* flush.  It returns at once when nothing is dirty.                       *)

FlushStart ==
  /\ flusher = "idle" /\ dirty
  /\ dirty' = FALSE
  /\ flusher' = "cleared"
  /\ UNCHANGED <<mem, disk, snapshot, now, asked, faults, opens>>

FlushSnapshot ==
  /\ flusher = "cleared"
  /\ mem' = Pruned(mem, now)
  /\ snapshot' = Pruned(mem, now)
  /\ flusher' = "writing"
  /\ UNCHANGED <<dirty, disk, now, asked, faults, opens>>

(* Variant: the flag is cleared after the write, not before it.            *)
FlushWriteClears ==
  /\ flusher = "writing"
  /\ disk' = snapshot /\ dirty' = FALSE
  /\ flusher' = "idle" /\ snapshot' = Default
  /\ UNCHANGED <<mem, now, asked, faults, opens>>

FlushWrite ==
  /\ flusher = "writing"
  /\ disk' = snapshot
  /\ flusher' = "idle" /\ snapshot' = Default
  /\ UNCHANGED <<mem, dirty, now, asked, faults, opens>>

(* Variant: a failed write does not set the flag again.                    *)
FlushFailsQuietly ==
  /\ flusher = "writing" /\ faults < MaxFaults
  /\ flusher' = "idle" /\ snapshot' = Default
  /\ faults' = faults + 1
  /\ UNCHANGED <<mem, dirty, disk, now, asked, opens>>

FlushFails ==
  /\ flusher = "writing" /\ faults < MaxFaults
  /\ dirty' = TRUE
  /\ flusher' = "idle" /\ snapshot' = Default
  /\ faults' = faults + 1
  /\ UNCHANGED <<mem, disk, now, asked, opens>>

----------------------------------------------------------------------------
(* The process ends, at any point, and StateManager::open reads what       *)
(* write_atomic last put in place.                                         *)
Open ==
  /\ opens < MaxOpens
  /\ mem' = disk /\ dirty' = FALSE
  /\ flusher' = "idle" /\ snapshot' = Default
  /\ asked' = Never
  /\ opens' = opens + 1
  /\ UNCHANGED <<disk, now, faults>>

Tick ==
  /\ now < MaxTime
  /\ now' = now + 1
  /\ UNCHANGED <<mem, dirty, disk, flusher, snapshot, asked, faults, opens>>

Set ==
  \/ \E k \in Keys, offset \in Offsets, hash \in Hashes \cup {None} :
       SetCursor(k, offset, hash)
  \/ \E k \in CheckpointKeys, value \in Tokens : SetCheckpoint(k, value)
  \/ \E i \in Inputs : MarkKnownInput(i)

Next ==
  \/ Set
  \/ FlushStart \/ FlushSnapshot \/ FlushWrite \/ FlushFails
  \/ Open \/ Tick

Spec == Init /\ [][Next]_vars

(* The flush task wakes up every five seconds.                             *)
FairSpec ==
  Spec /\ WF_vars(FlushStart) /\ WF_vars(FlushSnapshot) /\ WF_vars(FlushWrite)

----------------------------------------------------------------------------
(* When no change is marked and no flush is under way, state.json is what  *)
(* is in memory: neither a change made during a flush nor one whose write  *)
(* failed is forgotten (StateManager::flush, the dirty flag).              *)
InSync == ~dirty /\ flusher = "idle" => disk = mem

(* A cursor is not pruned while its file is still polled: set_cursor       *)
(* touches an unchanged cursor only once a minute, and a file polled since *)
(* then stays within the retention window less that minute.                *)
PolledFileKept ==
  \A k \in Keys :
    asked[k] # None /\ now + Minute <= asked[k] + Retention + 1
      => mem.files[k] # None

(* What an input has set reaches state.json, unless it is replaced, pruned *)
(* or lost with the process first, whatever writes fail in between.        *)
EventuallySaved ==
  /\ \A k \in Keys, offset \in Offsets :
       LET At(st) == st.files[k] # None /\ st.files[k].offset = offset
       IN  At(mem) ~> (At(disk) \/ ~At(mem))
  /\ \A k \in CheckpointKeys, value \in Tokens :
       (mem.checkpoints[k] = value)
         ~> (disk.checkpoints[k] = value \/ mem.checkpoints[k] # value)
=============================================================================
