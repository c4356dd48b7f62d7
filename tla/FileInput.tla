----------------------------- MODULE FileInput -----------------------------
(***************************************************************************)
(* The file input (src/inputs/file.rs) over the state manager: one task    *)
(* that discovers the files matching its patterns and, at every poll,      *)
(* reads what was appended to them, sends the lines and sets the cursor.   *)
(*                                                                         *)
(* Files are written, truncated, renamed, removed and created at any time, *)
(* also between two system calls of one poll.  The process may be stopped  *)
(* or die at any point.                                                    *)
(*                                                                         *)
(* A file is the sequence of its lines and its size.  A line is two units  *)
(* long, the second one with the newline, so an odd size ends inside a     *)
(* line.  No two lines have the same hash.  mtime is the number of lines   *)
(* that anyone had begun by the last change: with the size it tells any    *)
(* two contents of a file apart, as a fine-grained clock does.             *)
(***************************************************************************)
EXTENDS Naturals, Sequences

CONSTANTS
  Paths,        (* paths that the patterns match                           *)
  Inodes,       (* file identities                                         *)
  None,         (* Option::None, and no file                               *)
  MaxLines,     (* bound: lines written                                    *)
  MaxCreates,   (* bound: files created                                    *)
  MaxMoves,     (* bound: renames, removals and truncations                *)
  MaxRestarts   (* bound: stops and crashes of the process                 *)

ASSUME PathAssumption == None \notin Inodes \cup Paths
ASSUME BoundAssumption == {MaxLines, MaxCreates, MaxMoves, MaxRestarts} \subseteq Nat

Id == "file"

(* head_fingerprint: the first line, as far as it is written.              *)
Heads == {<<>>} \cup ((1 .. MaxLines) \X {1, 2})

(* Time stands still here: no cursor expires, State is about that.         *)
S == INSTANCE StateFile WITH
       Keys <- Inodes, Hashes <- Heads, Inputs <- {Id},
       CheckpointKeys <- {}, Tokens <- {}, Minute <- 1, Retention <- 1

VARIABLES
  dir,          (* the file at each path                                   *)
  file,         (* content of each file                                    *)
  written, creates, moves, restarts,  (* how much of the bounds is used    *)
  phase,        (* the process: down, up, or cancelled                     *)
  read_from_start,
  mem,          (* StateManager.state                                      *)
  disk,         (* state.json                                              *)
  tracked,      (* the entry of each tracked path                          *)
  at,           (* where the poll stands                                   *)
  todo,         (* paths that it has still to look at                      *)
  path, size, mtime,  (* the path being looked at, and its metadata        *)
  results       (* what this poll has read, to be sent                     *)

(* What became of each line, kept only to state properties.                *)
VARIABLES
  sent,         (* handed to the pipeline, whole                           *)
  skipped,      (* present when the input first ran                        *)
  raced,        (* a file was replaced between its stat and its read       *)
  shuffled,     (* a file moved while a poll was reading, or back again    *)
  blind         (* a file was replaced before it had a fingerprint         *)

diskVars == <<dir, file>>
bounds == <<written, creates, moves, restarts>>
processVars == <<phase, read_from_start, mem, disk>>
passVars == <<at, todo, path, size, mtime, results>>
fates == <<sent, skipped, raced, shuffled, blind>>
vars == <<diskVars, bounds, processVars, tracked, passVars, fates>>

File == [ids : Seq(1 .. MaxLines), size : 0 .. 2 * MaxLines, mtime : Nat]

Tracked ==
  [identity : Inodes, offset : 0 .. 2 * MaxLines,
   last_size : 0 .. 2 * MaxLines, last_mtime : Nat \cup {None},
   hash : Heads \cup {None}]

ASSUME NoneAssumption == None \notin Heads \cup Nat \cup S!FileCursor \cup Tracked

Line == [id : 1 .. MaxLines, whole : BOOLEAN]

TailReadResult ==
  [identity : Inodes, lines : Seq(Line), offset : 0 .. 2 * MaxLines,
   hash : Heads \cup {None}]

TypeOK ==
  /\ dir \in [Paths -> Inodes \cup {None}]
  /\ file \in [Inodes -> File]
  /\ phase \in {"down", "up", "cancelled"}
  /\ mem \in S!StateFile /\ disk \in S!StateFile
  /\ phase # "down" => Id \in mem.known_inputs
  /\ tracked \in [Paths -> Tracked \cup {None}]
  /\ at \in {"idle", "stat", "head", "read", "send"}
  /\ todo \subseteq Paths
  /\ at \in {"head", "read"} => path \in Paths /\ tracked[path] # None
  /\ results \in Seq(TailReadResult)

Unlinked == [ids |-> <<>>, size |-> 0, mtime |-> 0]

NoTracked == [p \in Paths |-> None]

Idle ==
  /\ at' = "idle" /\ todo' = {} /\ results' = <<>>
  /\ path' = None /\ size' = 0 /\ mtime' = 0

Init ==
  /\ dir = [p \in Paths |-> None]
  /\ file = [i \in Inodes |-> Unlinked]
  /\ written = 0 /\ creates = 0 /\ moves = 0 /\ restarts = 0
  /\ phase = "down"
  /\ read_from_start \in BOOLEAN
  /\ mem = S!Default /\ disk = S!Default
  /\ tracked = NoTracked
  /\ at = "idle" /\ todo = {} /\ results = <<>>
  /\ path = None /\ size = 0 /\ mtime = 0
  /\ sent = {} /\ skipped = {}
  /\ raced = FALSE /\ shuffled = FALSE /\ blind = FALSE

----------------------------------------------------------------------------
(* The programs that write the files.                                      *)

Linked == {dir[p] : p \in Paths} \ {None}

(* The lines that a file of this size holds in full.                       *)
Complete(f) == {f.ids[k] : k \in 1 .. f.size \div 2}

Reading == at \in {"stat", "head", "read"}

(* The fates of a change that takes the content of the files in I away     *)
(* from their readers, or puts another file at a path in P; back is that   *)
(* a path gets the file again that its entry has not yet forgotten.        *)
Displaces(I, P, back) ==
  /\ shuffled' = (shuffled \/ Reading \/ back)
  /\ raced' = (raced \/ (at \in {"head", "read"} /\ path \in P))
  /\ blind' = (blind \/ \E p \in Paths :
                 /\ tracked[p] # None
                 /\ tracked[p].identity \in I
                 /\ tracked[p].hash = None /\ tracked[p].offset > 0)
  /\ UNCHANGED <<sent, skipped>>

Grown(f, n) ==
  LET new == (f.size + n + 1) \div 2 - Len(f.ids)
  IN  [ids |-> f.ids \o [k \in 1 .. new |-> written + k],
       size |-> f.size + n, mtime |-> written + new]

Write(i, n) ==
  /\ i \in Linked
  /\ file' = [file EXCEPT ![i] = Grown(@, n)]
  /\ written' = file'[i].mtime
  /\ written' <= MaxLines
  /\ UNCHANGED <<dir, creates, moves, restarts, processVars, tracked, passVars, fates>>

Move ==
  /\ moves < MaxMoves
  /\ moves' = moves + 1
  /\ UNCHANGED <<written, creates, restarts, processVars, tracked, passVars>>

Empty == [ids |-> <<>>, size |-> 0, mtime |-> written]

Truncate(i) ==
  /\ i \in Linked /\ file[i].size > 0
  /\ file' = [file EXCEPT ![i] = Empty]
  /\ Displaces({i}, {p \in Paths : dir[p] = i}, FALSE)
  /\ Move /\ UNCHANGED dir

(* Deleted, or renamed to a path that the patterns do not match.           *)
Remove(p) ==
  /\ dir[p] # None
  /\ dir' = [dir EXCEPT ![p] = None]
  /\ file' = [file EXCEPT ![dir[p]] = Unlinked]
  /\ Displaces({dir[p]}, {p}, FALSE)
  /\ Move

Rename(p, r) ==
  /\ dir[p] # None /\ p # r
  /\ dir' = [dir EXCEPT ![p] = None, ![r] = dir[p]]
  /\ file' = [i \in Inodes |-> IF i = dir[r] THEN Unlinked ELSE file[i]]
  /\ Displaces({dir[r]} \ {None}, {p, r},
               tracked[r] # None /\ tracked[r].identity = dir[p])
  /\ Move

(* A new file may get the identity of one that is gone.                    *)
Create(p, i) ==
  /\ dir[p] = None /\ i \notin Linked
  /\ creates < MaxCreates
  /\ dir' = [dir EXCEPT ![p] = i]
  /\ file' = [file EXCEPT ![i] = Empty]
  /\ creates' = creates + 1
  /\ Displaces({}, {p}, FALSE)
  /\ UNCHANGED <<written, moves, restarts, processVars, tracked, passVars>>

Environment ==
  \/ \E i \in Inodes, n \in 1 .. 2 : Write(i, n)
  \/ \E i \in Inodes : Truncate(i)
  \/ \E p \in Paths : Remove(p)
  \/ \E p, r \in Paths : Rename(p, r)
  \/ \E p \in Paths, i \in Inodes : Create(p, i)

----------------------------------------------------------------------------
(* Discovery: paths whose file has vanished are forgotten, new ones are    *)
(* admitted at the offset of their file's saved cursor.                    *)

NewEntry(i, start, hash) ==
  [identity |-> i, offset |-> start, last_size |-> 0, last_mtime |-> None, hash |-> hash]

(* Variant: a new entry starts over, whatever its cursor says.             *)
FromStart(i, start) == NewEntry(i, start, None)

(* Variant: a new entry does not take the fingerprint over.                *)
FromUnverified(i, start) ==
  NewEntry(i, IF mem.files[i] = None THEN start ELSE mem.files[i].offset, None)

FromCursor(i, start) ==
  LET c == mem.files[i]
  IN  IF c = None THEN NewEntry(i, start, None) ELSE NewEntry(i, c.offset, c.hash)

Discover(skip) ==
  /\ tracked' = [p \in Paths |->
       CASE dir[p] = None -> None
         [] tracked[p] # None /\ dir[p] # None -> tracked[p]
         [] OTHER -> FromCursor(dir[p], IF skip THEN file[dir[p]].size ELSE 0)]
  /\ skipped' = IF skip
       THEN skipped \cup UNION {{file[i].ids[k] : k \in DOMAIN file[i].ids} : i \in Linked}
       ELSE skipped
  /\ mem' = S!WithKnownInput(mem, Id)

(* FileInput::run up to its first discovery, which skips what is there if  *)
(* the input has never run.                                                *)
Start ==
  /\ phase = "down"
  /\ phase' = "up"
  /\ Discover(Id \notin mem.known_inputs /\ ~read_from_start)
  /\ UNCHANGED <<diskVars, bounds, read_from_start, disk, passVars, sent, raced,
                 shuffled, blind>>

Rediscover ==
  /\ phase = "up" /\ at = "idle"
  /\ Discover(FALSE)
  /\ UNCHANGED <<diskVars, bounds, phase, read_from_start, disk, passVars, sent,
                 raced, shuffled, blind>>

----------------------------------------------------------------------------
(* Flush, stop and crash.                                                  *)

(* StateManager::flush as one step, the one that serialises.  It writes    *)
(* also what is not dirty: State!InSync makes that a stutter.  Bound: no   *)
(* flush after the last restart, which nothing would read.                 *)
Flush ==
  /\ phase # "down" /\ restarts < MaxRestarts
  /\ disk' = mem
  /\ UNCHANGED <<diskVars, bounds, phase, read_from_start, mem, tracked, passVars, fates>>

Cancel ==
  /\ phase = "up" /\ restarts < MaxRestarts
  /\ phase' = "cancelled"
  /\ UNCHANGED <<diskVars, bounds, read_from_start, mem, disk, tracked, passVars, fates>>

(* The process is gone; the next one opens state.json.                     *)
Exit ==
  /\ restarts < MaxRestarts
  /\ restarts' = restarts + 1
  /\ phase' = "down" /\ mem' = disk
  /\ tracked' = NoTracked
  /\ Idle
  /\ UNCHANGED <<diskVars, written, creates, moves, read_from_start, disk, fates>>

Crash == phase # "down" /\ Exit

(* Engine::stop has joined the input and flushed the state.  A final flush *)
(* that fails ends like a crash.                                           *)
Stop == phase = "cancelled" /\ at = "idle" /\ disk = mem /\ Exit

----------------------------------------------------------------------------
(* One poll: tail_paths_blocking, on each path stat, the fingerprint if it *)
(* is due, and a read if the size is not the offset.                       *)

(* What is left when the blocking call returns: tail_once ends, at once if *)
(* cancelled, or goes on to send.  It marks the input as known, which it   *)
(* is since discovery.                                                     *)
Proceed(rs) ==
  /\ at' = IF rs = <<>> \/ phase = "cancelled" THEN "idle" ELSE "send"
  /\ results' = IF phase = "cancelled" THEN <<>> ELSE rs

StartTail ==
  /\ phase = "up" /\ at = "idle" /\ tracked # NoTracked
  /\ at' = "stat"
  /\ todo' = {p \in Paths : tracked[p] # None}
  /\ UNCHANGED <<diskVars, bounds, processVars, tracked, path, size, mtime, results, fates>>

(* The path is done with; rs are the results so far.                       *)
Done(p, rs) ==
  /\ todo' = todo \ {p}
  /\ path' = None /\ size' = 0 /\ mtime' = 0
  /\ IF todo = {p} THEN Proceed(rs) ELSE at' = "stat" /\ results' = rs

Looking(p, next, sz, mt) ==
  /\ at' = next /\ path' = p /\ size' = sz /\ mtime' = mt
  /\ UNCHANGED <<todo, results>>

Result(e, lines) ==
  [identity |-> e.identity, lines |-> lines, offset |-> e.offset, hash |-> e.hash]

(* With the metadata recorded, the path is read if its size has moved.     *)
Examined(p, e, sz, mt) ==
  /\ tracked' = [tracked EXCEPT ![p] = e]
  /\ IF sz = e.offset
     THEN Done(p, Append(results, Result(e, <<>>)))
     ELSE Looking(p, "read", sz, mt)

(* Variant: the fingerprint is only compared when the size moved.          *)
FingerprintIfResized(e, sz, mt) == sz # e.last_size \/ e.hash = None

(* The gate in front of the fingerprint.                                   *)
FingerprintDue(e, sz, mt) == sz # e.last_size \/ mt # e.last_mtime \/ e.hash = None

Truncated(e, sz) == IF sz < e.offset THEN [e EXCEPT !.offset = 0] ELSE e

Stat(p) ==
  /\ at = "stat" /\ p \in todo /\ phase # "cancelled"
  /\ IF dir[p] = None
     THEN Done(p, results) /\ UNCHANGED tracked
     ELSE LET f == file[dir[p]]
              e == Truncated(IF tracked[p].identity = dir[p] THEN tracked[p]
                             ELSE FromCursor(dir[p], 0), f.size)
          IN  IF FingerprintDue(e, f.size, f.mtime)
              THEN /\ tracked' = [tracked EXCEPT ![p] = e]
                   /\ Looking(p, "head", f.size, f.mtime)
              ELSE Examined(p, e, f.size, f.mtime)
  /\ UNCHANGED <<diskVars, bounds, processVars, fates>>

FirstLine(f) == IF f.size = 0 THEN <<>> ELSE <<f.ids[1], IF f.size = 1 THEN 1 ELSE 2>>

(* head_fingerprint opens whatever file is at the path by now.             *)
Fingerprint ==
  /\ at = "head"
  /\ LET e == tracked[path]
         curr == IF dir[path] = None THEN None ELSE FirstLine(file[dir[path]])
         rewritten == curr # None /\ e.offset > 0 /\ e.hash # None /\ e.hash # curr
         seen == [e EXCEPT !.offset = IF rewritten THEN 0 ELSE @,
                           !.hash = IF curr = None THEN @ ELSE curr,
                           !.last_size = size, !.last_mtime = mtime]
     IN  Examined(path, seen, size, mtime)
  /\ UNCHANGED <<diskVars, bounds, processVars, fates>>

(* read_new_lines: what a reader at this offset finds in the file, no      *)
(* further than the size that stat reported.                               *)
LastNewline(f) == 2 * ((IF f.size < size THEN f.size ELSE size) \div 2)
NewOffset(f, offset) == IF LastNewline(f) > offset THEN LastNewline(f) ELSE offset
NewLines(f, offset) ==
  [k \in 1 .. NewOffset(f, offset) \div 2 - offset \div 2 |->
     LET n == offset \div 2 + k
     IN  [id |-> f.ids[n], whole |-> offset <= 2 * (n - 1)]]

Read ==
  /\ at = "read"
  /\ IF dir[path] = None
     THEN Done(path, results) /\ UNCHANGED tracked
     ELSE LET f == file[dir[path]]
              e == tracked[path]
              read == [e EXCEPT !.offset = NewOffset(f, e.offset)]
          IN  /\ tracked' = [tracked EXCEPT ![path] = read]
              /\ Done(path, Append(results, Result(read, NewLines(f, e.offset))))
  /\ UNCHANGED <<diskVars, bounds, processVars, fates>>

----------------------------------------------------------------------------
(* One poll: tail_once sends the lines of each result, then sets its       *)
(* cursor.  When cancelled it drops the rest, before the next path, while  *)
(* a line waits to be sent, or between two results.                        *)

Unsent == Head(results).lines

SendLine ==
  /\ at = "send" /\ Unsent # <<>>
  /\ results' = [results EXCEPT ![1].lines = Tail(@)]
  /\ LET line == Head(Unsent)
     IN  sent' = IF line.whole THEN sent \cup {line.id} ELSE sent
  /\ UNCHANGED <<diskVars, bounds, processVars, tracked, at, todo, path, size, mtime,
                 skipped, raced, shuffled, blind>>

HandedOver(r) == r.lines = <<>>

SetCursor ==
  /\ at = "send" /\ HandedOver(Head(results))
  /\ LET r == Head(results)
     IN  mem' = S!WithCursor(mem, r.identity, r.offset, r.hash, 0)
  /\ Proceed(Tail(results))
  /\ UNCHANGED <<diskVars, bounds, phase, read_from_start, disk, tracked, todo,
                 path, size, mtime, fates>>

Abandon ==
  /\ phase = "cancelled"
  /\ \/ at = "stat"
     \/ at = "send" /\ Unsent # <<>>
  /\ Idle
  /\ UNCHANGED <<diskVars, bounds, processVars, tracked, fates>>

Poll ==
  \/ \E p \in Paths : Stat(p)
  \/ Fingerprint \/ Read
  \/ SendLine \/ SetCursor \/ Abandon

Next ==
  \/ Environment
  \/ Start \/ Rediscover \/ StartTail \/ Poll
  \/ Flush \/ Cancel \/ Crash \/ Stop

Spec == Init /\ [][Next]_vars

(* Both tickers of FileInput::run fire for ever, and select is fair to     *)
(* them; the lines are taken by a pipeline that does not stop; the process *)
(* is started again.                                                       *)
FairSpec ==
  /\ Spec
  /\ WF_vars(Start) /\ SF_vars(Rediscover) /\ SF_vars(StartTail) /\ WF_vars(Poll)
  /\ WF_vars(Flush) /\ WF_vars(Stop)

----------------------------------------------------------------------------
(* Without a restart no line is read twice: neither a rename, nor a        *)
(* rediscovery, nor the fingerprint of a first line that was not complete  *)
(* when it was taken, sends the tailer back (tail_paths_blocking,          *)
(* discover_once), unless files move while a poll is reading or a file is  *)
(* renamed back before discovery has forgotten it.                         *)
NoNeedlessReread ==
  at = "send" /\ Unsent # <<>> /\ Head(Unsent).id \in sent
    => restarts > 0 \/ shuffled

(* What discovery and the next poll would resume at: the cursor of an      *)
(* existing file that is not shorter and has the same first line.          *)
Trusted(c, i) ==
  /\ i \in Linked /\ c # None
  /\ c.offset <= file[i].size
  /\ c.hash \in {None, FirstLine(file[i])}

(* Resuming there passes over no line that was not handed over: a cursor   *)
(* is set only after the last line before it, and never applies to what    *)
(* has since been written in the place of those lines (tail_once,          *)
(* set_cursor).                                                            *)
CursorHonest ==
  \A i \in Inodes : \A c \in {mem.files[i], disk.files[i]} :
    Trusted(c, i) =>
      \/ raced \/ blind
      \/ {file[i].ids[k] : k \in 1 .. c.offset \div 2} \subseteq sent \cup skipped

(* Every line that is written in full to a matching file is handed over,   *)
(* whatever is appended, renamed or restarted, unless its file goes away   *)
(* first.                                                                  *)
EveryLineRead ==
  \A l \in 1 .. MaxLines :
    LET present == \E i \in Linked : l \in Complete(file[i])
    IN  present ~> (l \in sent \cup skipped \/ ~present \/ raced \/ blind)
=============================================================================
