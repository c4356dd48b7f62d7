-------------------------- MODULE FileInput_proofs --------------------------
(***************************************************************************)
(* FileInput for any set of paths and files and any bounds: the types, the *)
(* honesty of the cursors and that no line is read twice without a reason. *)
(*                                                                         *)
(* A fingerprint is only ever that of a line that was begun before, and    *)
(* what is written in the place of a file's lines is new.  So a            *)
(* fingerprint that agrees with a file's first line says that the file has *)
(* only grown since, and the offset beside it means what it meant.         *)
(***************************************************************************)
EXTENDS FileInput, SequenceTheorems, TLAPS

(* This fingerprint is that of the first line of file i, complete.         *)
Matches(hash, i) == file[i].ids # <<>> /\ hash = <<file[i].ids[1], 2>>

(* A fingerprint is of a line that has been begun.                         *)
Begun(hash) == hash \in Heads \ {<<>>} => hash[1] <= written

(* What files hold: a line for every two units, later ones begun later,    *)
(* none of them anywhere else; and a file has one path.                    *)
FileShape(i) ==
  /\ Len(file[i].ids) = (file[i].size + 1) \div 2
  /\ \A k \in DOMAIN file[i].ids : k <= file[i].ids[k] /\ file[i].ids[k] <= file[i].mtime
  /\ file[i].mtime <= written
  /\ i \notin Linked => file[i] = Unlinked

Unique ==
  \A i, j \in Inodes : \A k \in DOMAIN file[i].ids, m \in DOMAIN file[j].ids :
    file[i].ids[k] = file[j].ids[m] => i = j /\ k = m

OnePath == \A p, r \in Paths : dir[p] = dir[r] /\ dir[p] # None => p = r

Files == (\A i \in Inodes : FileShape(i)) /\ Unique /\ OnePath

Cursors(i) == {mem.files[i], disk.files[i]} \ {None}

(* Whatever the process remembers comes from a line that has been begun.   *)
Remembered ==
  /\ written \in 0 .. MaxLines /\ restarts \in Nat
  /\ \A i \in Inodes : \A c \in Cursors(i) : c.offset <= 2 * MaxLines /\ Begun(c.hash)
  /\ \A p \in Paths : tracked[p] # None =>
       Begun(tracked[p].hash) /\ tracked[p].last_mtime \in {None} \cup (0 .. written)
  /\ \A n \in DOMAIN results : Begun(results[n].hash)
  /\ sent \subseteq 1 .. written
  /\ \A n \in DOMAIN results : \A m \in DOMAIN results[n].lines :
       results[n].lines[m].id <= written

(* Where a poll stands.                                                    *)
Poised ==
  /\ size \in 0 .. 2 * MaxLines /\ mtime \in 0 .. written
  /\ at \in {"stat", "head", "read"} => todo # {} /\ \A p \in todo : tracked[p] # None
  /\ at \in {"head", "read"} => path \in todo
  /\ at = "idle" => results = <<>>
  /\ at = "send" => results # <<>>
  /\ phase = "down" => at = "idle" /\ tracked = NoTracked

Basics == TypeOK /\ Files /\ Remembered /\ Poised

-----------------------------------------------------------------------------
(* The honesty of the cursors.                                             *)

Handled == sent \cup skipped

(* The whole lines among the first n of these results.                     *)
Waiting(rs, n) ==
  {l \in 1 .. MaxLines : \E a \in DOMAIN rs : a <= n /\
     \E b \in DOMAIN rs[a].lines : rs[a].lines[b] = [id |-> l, whole |-> TRUE]}

(* Of file i everything up to the offset is in H, a line that the offset   *)
(* is inside of included.                                                  *)
Covered(i, offset, H) ==
  /\ offset <= file[i].size
  /\ \A k \in 1 .. (offset + 1) \div 2 : file[i].ids[k] \in H

(* An offset with its fingerprint, as far as the fingerprint agrees.       *)
Sound(i, offset, hash, H) ==
  Matches(hash, i) => file[i].size >= 2 /\ Covered(i, offset, H)

CursorsSound ==
  \A i \in Inodes : \A c \in Cursors(i) :
    c.hash # None /\ Sound(i, c.offset, c.hash, Handled)

(* A result is sound once the lines before it and its own are sent.        *)
ResultsSound ==
  phase = "up" \/ at = "send" =>
    \A n \in DOMAIN results :
      /\ results[n].hash # None
      /\ Sound(results[n].identity, results[n].offset, results[n].hash,
               Handled \cup Waiting(results, n))

(* An entry is ahead of its cursor by the lines that wait to be sent.  One *)
(* without a fingerprint is for a file that has only grown.                *)
EntrySound(e, H) ==
  IF e.hash = None THEN e.offset > 0 => Covered(e.identity, e.offset, H)
  ELSE Sound(e.identity, e.offset, e.hash, H)

EntriesSound ==
  phase = "up" => \A p \in Paths : tracked[p] # None =>
    EntrySound(tracked[p], Handled \cup Waiting(results, Len(results)))

(* The file that was looked at is still there.                             *)
Held ==
  /\ at \in {"head", "read"} => dir[path] = tracked[path].identity
  /\ at = "read" => tracked[path].hash # None

Honest == CursorsSound /\ ResultsSound /\ EntriesSound /\ Held

HonestInv == Basics /\ (raced \/ blind \/ Honest)

-----------------------------------------------------------------------------
(* No line twice.                                                          *)

Queued == {l \in 1 .. MaxLines : \E a \in DOMAIN results :
             \E b \in DOMAIN results[a].lines : results[a].lines[b].id = l}
Taken == sent \cup Queued

(* What was read of file i lies before the offset, and the fingerprint is  *)
(* that of the file; then the offset is not beyond the file.               *)
Ahead(i, offset, hash) ==
  /\ \A k \in DOMAIN file[i].ids :
       file[i].ids[k] \in Taken => k <= offset \div 2 /\ Matches(hash, i)
  /\ Matches(hash, i) => file[i].size >= 2 /\ offset <= file[i].size

Untouched(i) == \A k \in DOMAIN file[i].ids : file[i].ids[k] \notin Taken

(* An entry that has seen the first line of the file at its path complete  *)
(* has its fingerprint.                                                    *)
Stamped(e, i) ==
  e.last_mtime # None /\ e.last_size >= 2 /\ file[i].ids # <<>>
    /\ file[i].ids[1] <= e.last_mtime => Matches(e.hash, i)

Live(p) == tracked[p] # None /\ dir[p] = tracked[p].identity

LiveAhead ==
  \A p \in Paths : Live(p) =>
    Ahead(dir[p], tracked[p].offset, tracked[p].hash) /\ Stamped(tracked[p], dir[p])

Read_ == {results[n].identity : n \in DOMAIN results}

(* What a poll resumes at is the cursor, or the result that is to set it.  *)
CursorAhead(i) ==
  IF mem.files[i] = None THEN Untouched(i)
  ELSE Ahead(i, mem.files[i].offset, mem.files[i].hash)

LatestAhead ==
  phase # "cancelled" =>
    /\ \A n \in DOMAIN results :
         Ahead(results[n].identity, results[n].offset, results[n].hash)
    /\ \A i \in Inodes \ Read_ : CursorAhead(i)

(* Every result is of another file, every queued line another one.         *)
OneResult ==
  /\ \A m, n \in DOMAIN results : results[m].identity = results[n].identity => m = n
  /\ Reading => \A n \in DOMAIN results : \E p \in Paths \ todo : dir[p] = results[n].identity

QueuedOnce ==
  \A a, c \in DOMAIN results :
    \A b \in DOMAIN results[a].lines, d \in DOMAIN results[c].lines :
      /\ results[a].lines[b].id \notin sent
      /\ results[a].lines[b].id = results[c].lines[d].id => a = c /\ b = d

(* The file that is being read, which only grows.                          *)
Steady ==
  at \in {"head", "read"} =>
    /\ dir[path] = tracked[path].identity
    /\ tracked[path].offset <= size /\ size <= file[dir[path]].size
    /\ at = "read" /\ size >= 2 => Matches(tracked[path].hash, dir[path])

Fresh == LiveAhead /\ LatestAhead /\ OneResult /\ QueuedOnce /\ Steady

FreshInv == Basics /\ (restarts > 0 \/ shuffled \/ Fresh)

-----------------------------------------------------------------------------
(* The writers.                                                            *)

(* File i still holds what it held, and more lines only if they are new.   *)
Kept(i) ==
  /\ \A k \in DOMAIN file[i].ids :
       k \in DOMAIN file'[i].ids /\ file'[i].ids[k] = file[i].ids[k]
  /\ file[i].size <= file'[i].size
  /\ \A k \in DOMAIN file'[i].ids : k \in DOMAIN file[i].ids \/ file'[i].ids[k] > written

(* It holds nothing any more.                                              *)
Cleared(i) == file'[i].ids = <<>> /\ file'[i].size = 0

LEMMA Constants ==
  /\ {MaxLines, MaxCreates, MaxMoves, MaxRestarts} \subseteq Nat
  /\ MaxLines \in Nat /\ None \notin Inodes /\ None \notin Paths /\ None \notin Heads
  /\ None \notin Nat /\ None \notin S!FileCursor /\ None \notin Tracked
  BY BoundAssumption, PathAssumption, NoneAssumption

LineIds == 1 .. MaxLines

LEMMA Seqs ==
  ASSUME NEW T, NEW s \in Seq(T)
  PROVE  /\ DOMAIN s = 1 .. Len(s) /\ Len(s) \in Nat
         /\ \A k \in 1 .. Len(s) : s[k] \in T
         /\ s = <<>> <=> Len(s) = 0
         /\ s \o <<>> = s
         /\ \A x \in T : /\ s \o <<x>> = Append(s, x) /\ Append(s, x) \in Seq(T)
                         /\ Len(Append(s, x)) = Len(s) + 1
                         /\ \A k \in 1 .. Len(s) : Append(s, x)[k] = s[k]
                         /\ Append(s, x)[Len(s) + 1] = x
<1>1. DOMAIN s = 1 .. Len(s) /\ Len(s) \in Nat /\ \A k \in 1 .. Len(s) : s[k] \in T
  OBVIOUS
<1>2. s = <<>> <=> Len(s) = 0
  BY EmptySeq
<1>3. s \o <<>> = s
  BY ConcatEmptySeq
<1>4. ASSUME NEW x \in T
      PROVE  /\ s \o <<x>> = Append(s, x) /\ Append(s, x) \in Seq(T)
             /\ Len(Append(s, x)) = Len(s) + 1
             /\ \A k \in 1 .. Len(s) : Append(s, x)[k] = s[k]
             /\ Append(s, x)[Len(s) + 1] = x
  BY AppendIsConcat, AppendProperties
<1>5. QED
  BY <1>1, <1>2, <1>3, <1>4

LEMMA FileType ==
  ASSUME TypeOK, NEW i \in Inodes
  PROVE  /\ file[i] = [ids |-> file[i].ids, size |-> file[i].size, mtime |-> file[i].mtime]
         /\ file[i].ids \in Seq(LineIds)
         /\ DOMAIN file[i].ids = 1 .. Len(file[i].ids) /\ Len(file[i].ids) \in Nat
         /\ \A k \in 1 .. Len(file[i].ids) :
              file[i].ids[k] \in LineIds /\ file[i].ids[k] \in Nat
         /\ file[i].ids = <<>> <=> Len(file[i].ids) = 0
         /\ file[i].size \in 0 .. 2 * MaxLines /\ file[i].size \in Nat
         /\ file[i].mtime \in Nat
<1>1. file[i] \in File
  BY DEF TypeOK
<1>2. file[i].ids \in Seq(LineIds)
  BY <1>1 DEF File, LineIds
<1>3. file[i].size \in 0 .. 2 * MaxLines /\ file[i].mtime \in Nat
  BY <1>1 DEF File
<1>4. file[i] = [ids |-> file[i].ids, size |-> file[i].size, mtime |-> file[i].mtime]
  BY <1>1 DEF File
<1>5. file[i].size \in Nat
  BY <1>3, Constants
<1>6. \A l \in LineIds : l \in Nat
  BY DEF LineIds
<1>7. QED
  BY <1>2, <1>3, <1>4, <1>5, <1>6, Seqs

LEMMA BegunFile ==
  ASSUME TypeOK, NEW i \in Inodes, file[i].ids # <<>>
  PROVE  1 \in DOMAIN file[i].ids /\ file[i].ids[1] \in LineIds /\ Len(file[i].ids) >= 1
<1>1. Len(file[i].ids) \in Nat /\ Len(file[i].ids) # 0
  BY FileType
<1>2. 1 \in 1 .. Len(file[i].ids) /\ Len(file[i].ids) >= 1
  BY <1>1
<1>3. file[i].ids \in Seq(LineIds)
  BY FileType
<1>4. 1 \in DOMAIN file[i].ids /\ file[i].ids[1] \in LineIds
  BY <1>2, <1>3, Seqs
<1>5. QED
  BY <1>2, <1>4

(* Of sizes and the lines that they hold or end inside of.                 *)
LEMMA Lines ==
  ASSUME NEW s \in Nat
  PROVE  /\ (s + 1) \div 2 \in Nat /\ s \div 2 \in Nat
         /\ s <= 2 * ((s + 1) \div 2) /\ 2 * ((s + 1) \div 2) <= s + 1
         /\ 2 * (s \div 2) <= s /\ s <= 2 * (s \div 2) + 1
         /\ s \div 2 <= (s + 1) \div 2 /\ (s + 1) \div 2 <= s \div 2 + 1
         /\ (s + 1 + 1) \div 2 - (s + 1) \div 2 \in {0, 1}
         /\ (s + 2 + 1) \div 2 - (s + 1) \div 2 = 1
  OBVIOUS

(* t is s with x at its end.                                               *)
LEMMA OneMore ==
  ASSUME NEW T, NEW s \in Seq(T), NEW t \in Seq(T), NEW x,
         Len(t) = Len(s) + 1, t[Len(s) + 1] = x, \A k \in 1 .. Len(s) : t[k] = s[k]
  PROVE  /\ \A k \in DOMAIN s : k \in DOMAIN t /\ t[k] = s[k]
         /\ \A k \in DOMAIN t : k \in DOMAIN s \/ (k = Len(s) + 1 /\ t[k] = x)
<1>1. \A k \in DOMAIN s : k \in DOMAIN t /\ t[k] = s[k]
  OBVIOUS
<1>2. \A k \in DOMAIN t : k \in DOMAIN s \/ k = Len(s) + 1
  OBVIOUS
<1>3. ASSUME NEW k \in DOMAIN t, k \notin DOMAIN s
      PROVE  k = Len(s) + 1 /\ t[k] = x
  <2>1. k = Len(s) + 1
    BY <1>2, <1>3
  <2>2. t[k] = t[Len(s) + 1]
    BY <2>1
  <2>3. QED
    BY <2>1, <2>2, Zenon
<1>4. QED
  BY <1>1, <1>3, Zenon

(* g is f with a write of n units, which begins one line or ends one.      *)
IsGrown(f, n, g) ==
  /\ g.ids \in Seq(LineIds)
  /\ Len(g.ids) = (g.size + 1) \div 2
  /\ g.size = f.size + n /\ g.size \in 0 .. 2 * MaxLines
  /\ g = [ids |-> g.ids, size |-> g.size, mtime |-> g.mtime]
  /\ g.mtime \in written .. MaxLines
  /\ Len(f.ids) <= Len(g.ids)
  /\ \A k \in DOMAIN f.ids : k \in DOMAIN g.ids /\ g.ids[k] = f.ids[k]
  /\ \A k \in DOMAIN g.ids : \/ k \in DOMAIN f.ids
                             \/ /\ k = Len(f.ids) + 1
                                /\ g.ids[k] = written + 1 /\ g.mtime = written + 1

LEMMA GrownFacts ==
  ASSUME NEW f, f.ids \in Seq(LineIds), f.size \in Nat, f.mtime \in Nat,
         Len(f.ids) = (f.size + 1) \div 2, Len(f.ids) <= written,
         written \in 0 .. MaxLines, NEW n, n \in 1 .. 2,
         NEW g, g = Grown(f, n), g.mtime <= MaxLines
  PROVE  IsGrown(f, n, g)
<1>1. PICK new : new = (f.size + n + 1) \div 2 - Len(f.ids)
  OBVIOUS
<1>2. new \in {0, 1} /\ Len(f.ids) \in Nat
  <2>1. CASE n = 1
    BY <1>1, <2>1, Lines
  <2>2. CASE n = 2
    BY <1>1, <2>2, Lines
  <2>3. QED
    BY <2>1, <2>2
<1>3. /\ g.ids = f.ids \o [k \in 1 .. new |-> written + k]
      /\ g.size = f.size + n /\ g.mtime = written + new
      /\ g = [ids |-> g.ids, size |-> g.size, mtime |-> g.mtime]
  BY <1>1 DEF Grown
<1>4. g.mtime \in written .. MaxLines
  BY <1>2, <1>3, Constants
<1>5. ASSUME new = 0 PROVE g.ids = f.ids
  <2>1. [k \in 1 .. new |-> written + k] = <<>>
    BY <1>5
  <2>2. QED
    <3>1. f.ids \o <<>> = f.ids
      BY Seqs
    <3>2. QED
      BY <2>1, <3>1, <1>3
<1>6. ASSUME new = 1
      PROVE  g.ids = Append(f.ids, written + 1) /\ written + 1 \in LineIds
  <2>1. [k \in 1 .. new |-> written + k] = <<written + 1>>
    BY <1>6
  <2>2. written + 1 \in LineIds
    BY <1>6, <1>3, Constants DEF LineIds
  <2>3. f.ids \o <<written + 1>> = Append(f.ids, written + 1)
    BY <2>2, Seqs
  <2>4. QED
    BY <2>1, <2>2, <2>3, <1>3
<1>7. g.ids \in Seq(LineIds) /\ Len(g.ids) = Len(f.ids) + new
  <2>1. CASE new = 0
    BY <2>1, <1>2, <1>5
  <2>2. CASE new = 1
    <3>1. Append(f.ids, written + 1) \in Seq(LineIds)
      BY <2>2, <1>6, Seqs
    <3>2. Len(Append(f.ids, written + 1)) = Len(f.ids) + 1
      BY <2>2, <1>6, Seqs
    <3>3. QED
      BY <3>1, <3>2, <2>2, <1>6
  <2>3. QED
    BY <2>1, <2>2, <1>2
<1>8. Len(g.ids) = (g.size + 1) \div 2
  <2>1. g.size + 1 = f.size + n + 1
    BY <1>3
  <2>2. (f.size + n + 1) \div 2 = Len(f.ids) + new
    BY <1>1, <1>2
  <2>3. QED
    BY <2>1, <2>2, <1>7
<1>9. Len(g.ids) <= MaxLines /\ g.size \in Nat
  <2>1. g.size \in Nat
    BY <1>3
  <2>2. Len(f.ids) + new <= written + new
    BY <1>2
  <2>3. QED
    BY <2>1, <2>2, <1>2, <1>3, <1>7, Constants
<1>10. g.size <= 2 * Len(g.ids)
  BY <1>8, <1>9, Lines
<1>11. g.size \in 0 .. 2 * MaxLines
  BY <1>7, <1>9, <1>10, <1>2, Constants
<1>12. ASSUME new = 1
       PROVE  /\ \A k \in DOMAIN f.ids : k \in DOMAIN g.ids /\ g.ids[k] = f.ids[k]
              /\ \A k \in DOMAIN g.ids : \/ k \in DOMAIN f.ids
                                         \/ k = Len(f.ids) + 1 /\ g.ids[k] = written + 1
  <2>1. /\ \A k \in 1 .. Len(f.ids) : Append(f.ids, written + 1)[k] = f.ids[k]
        /\ Append(f.ids, written + 1)[Len(f.ids) + 1] = written + 1
    BY <1>6, <1>12, Seqs
  <2>2. /\ \A k \in 1 .. Len(f.ids) : g.ids[k] = f.ids[k]
        /\ g.ids[Len(f.ids) + 1] = written + 1
    BY <2>1, <1>6, <1>12, Zenon
  <2>3. Len(g.ids) = Len(f.ids) + 1 /\ g.ids \in Seq(LineIds)
    BY <1>7, <1>12
  <2>4. PICK s, t : s = f.ids /\ t = g.ids
    OBVIOUS
  <2>5. /\ s \in Seq(LineIds) /\ t \in Seq(LineIds) /\ Len(t) = Len(s) + 1
        /\ t[Len(s) + 1] = written + 1 /\ \A k \in 1 .. Len(s) : t[k] = s[k]
    BY <2>2, <2>3, <2>4, Zenon
  <2>6. /\ \A k \in DOMAIN s : k \in DOMAIN t /\ t[k] = s[k]
        /\ \A k \in DOMAIN t : k \in DOMAIN s \/ (k = Len(s) + 1 /\ t[k] = written + 1)
    BY <2>5, OneMore, Zenon
  <2>7. QED
    BY <2>4, <2>6, Zenon
<1>13. /\ Len(f.ids) <= Len(g.ids)
       /\ \A k \in DOMAIN f.ids : k \in DOMAIN g.ids /\ g.ids[k] = f.ids[k]
       /\ \A k \in DOMAIN g.ids : \/ k \in DOMAIN f.ids
                                  \/ /\ k = Len(f.ids) + 1
                                     /\ g.ids[k] = written + 1 /\ g.mtime = written + 1
  <2>1. Len(f.ids) <= Len(g.ids)
    BY <1>2, <1>7
  <2>2. CASE new = 0
    <3>1. g.ids = f.ids
      BY <2>2, <1>5
    <3>2. QED
      BY <2>1, <3>1, Zenon
  <2>3. CASE new = 1
    <3>1. g.mtime = written + 1
      BY <2>3, <1>3
    <3>2. QED
      BY <2>1, <2>3, <3>1, <1>12, Zenon
  <2>4. QED
    BY <2>2, <2>3, <1>2
<1>14. QED
  BY <1>3, <1>4, <1>7, <1>8, <1>11, <1>13 DEF IsGrown

LEMMA PathType ==
  ASSUME TypeOK, NEW p \in Paths
  PROVE  /\ dir[p] \in Inodes \cup {None}
         /\ dir[p] # None => dir[p] \in Inodes /\ dir[p] \in Linked
         /\ tracked[p] \in Tracked \cup {None}
  BY DEF TypeOK, Linked

LEMMA TrackedType ==
  ASSUME TypeOK, NEW p \in Paths, tracked[p] # None
  PROVE  LET e == tracked[p]
         IN  /\ e \in Tracked /\ e.identity \in Inodes
             /\ e.offset \in 0 .. 2 * MaxLines /\ e.offset \in Nat
             /\ e.last_size \in 0 .. 2 * MaxLines /\ e.last_size \in Nat
             /\ e.last_mtime \in Nat \cup {None}
             /\ e.hash \in Heads \cup {None}
<1>1. tracked[p] \in Tracked
  BY DEF TypeOK
<1>2. QED
  BY <1>1, Constants DEF Tracked

(* A change that takes content away, and what its fates record.            *)
Displacement ==
  /\ UNCHANGED <<written, restarts, processVars, tracked, passVars, sent, skipped>>
  /\ file' \in [Inodes -> File] /\ dir' \in [Paths -> Inodes \cup {None}]
  /\ Files'
  /\ \A i \in Inodes : file'[i] = file[i] \/ Cleared(i)
  /\ (raced => raced') /\ (blind => blind') /\ (shuffled => shuffled')
  /\ ~raced' /\ at \in {"head", "read"} /\ dir[path] # None =>
       dir'[path] = dir[path] /\ file'[dir[path]] = file[dir[path]]
  /\ ~blind' => \A p \in Paths :
       tracked[p] # None /\ tracked[p].hash = None /\ tracked[p].offset > 0 =>
         LET i == tracked[p].identity IN file'[i] = file[i] \/ file[i].size = 0
  /\ ~shuffled' => /\ ~Reading
                   /\ \A p \in Paths : Live(p)' => Live(p) \/ file'[dir'[p]].ids = <<>>

(* What remains is as it was, what is emptied is in order.                 *)
LEMMA EmptiedFiles ==
  ASSUME TypeOK, Files, written \in 0 .. MaxLines, written' = written,
         \A i \in Inodes : file'[i] \in {file[i], Empty, Unlinked},
         \A i \in Inodes \ Linked' : file'[i] = Unlinked, OnePath'
  PROVE  /\ Files' /\ \A i \in Inodes : file'[i] = file[i] \/ Cleared(i)
         /\ \A i \in Inodes : file'[i] \in File
<1>1. \A i \in Inodes : file'[i] = file[i] \/ Cleared(i)
  BY DEF Cleared, Empty, Unlinked
<1>2. \A i \in Inodes : file'[i] \in File
  <2>1. Empty \in File /\ Unlinked \in File
    BY Constants, EmptySeq DEF Empty, Unlinked, File
  <2>2. QED
    BY <2>1 DEF TypeOK
<1>3. ASSUME NEW i \in Inodes PROVE FileShape(i)'
  <2>1. CASE file'[i] = file[i]
    BY <2>1 DEF Files, FileShape
  <2>2. CASE file'[i] \in {Empty, Unlinked}
    <3>1. /\ file'[i].ids = <<>> /\ file'[i].size = 0 /\ file'[i].mtime <= written
      BY <2>2, Constants DEF Empty, Unlinked
    <3>2. Len(<<>>) = (0 + 1) \div 2 /\ DOMAIN <<>> = {}
      OBVIOUS
    <3>3. QED
      BY <3>1, <3>2 DEF FileShape
  <2>3. QED
    BY <2>1, <2>2
<1>4. Unique'
  <2>1. SUFFICES ASSUME NEW i \in Inodes, NEW j \in Inodes,
                        NEW k \in DOMAIN file'[i].ids, NEW m \in DOMAIN file'[j].ids,
                        file'[i].ids[k] = file'[j].ids[m]
                 PROVE  i = j /\ k = m
    BY DEF Unique
  <2>2. file'[i] = file[i] /\ file'[j] = file[j]
    BY <1>1 DEF Cleared
  <2>3. QED
    BY <2>1, <2>2 DEF Files, Unique
<1>5. QED
  BY <1>1, <1>2, <1>3, <1>4 DEF Files

LEMMA TruncateDisplaces ==
  ASSUME Basics, NEW i \in Inodes, Truncate(i)
  PROVE  Displacement
<1>1. /\ i \in Linked /\ file' = [file EXCEPT ![i] = Empty] /\ dir' = dir
      /\ UNCHANGED <<written, restarts, processVars, tracked, passVars, sent, skipped>>
      /\ Displaces({i}, {p \in Paths : dir[p] = i}, FALSE)
  BY DEF Truncate, Move, Displaces
<1>2. /\ TypeOK /\ Files /\ written \in 0 .. MaxLines
      /\ file \in [Inodes -> File] /\ dir \in [Paths -> Inodes \cup {None}]
      /\ at \in {"head", "read"} => path \in Paths
  BY DEF Basics, Remembered, TypeOK
<1>3. Linked' = Linked /\ OnePath'
  BY <1>1, <1>2 DEF Linked, Files, OnePath
<1>4. \A j \in Inodes : file'[j] = IF j = i THEN Empty ELSE file[j]
  BY <1>1, <1>2
<1>5. \A j \in Inodes \ Linked' : file'[j] = Unlinked
  BY <1>1, <1>2, <1>3, <1>4 DEF Files, FileShape
<1>6. /\ Files' /\ \A j \in Inodes : file'[j] = file[j] \/ Cleared(j)
      /\ \A j \in Inodes : file'[j] \in File
  BY <1>1, <1>2, <1>3, <1>4, <1>5, EmptiedFiles
<1>7. file' \in [Inodes -> File]
  BY <1>1, <1>2, <1>6
<1>8. (raced => raced') /\ (blind => blind') /\ (shuffled => shuffled')
  BY <1>1 DEF Displaces
<1>9. ASSUME ~raced', at \in {"head", "read"}, dir[path] # None
      PROVE  dir'[path] = dir[path] /\ file'[dir[path]] = file[dir[path]]
  BY <1>1, <1>2, <1>4, <1>9, PathType DEF Displaces
<1>10. ASSUME ~blind', NEW p \in Paths, tracked[p] # None, tracked[p].hash = None,
              tracked[p].offset > 0
       PROVE  file'[tracked[p].identity] = file[tracked[p].identity]
  BY <1>1, <1>2, <1>4, <1>10, TrackedType DEF Displaces
<1>11. ASSUME ~shuffled'
       PROVE  ~Reading /\ \A p \in Paths : Live(p)' => Live(p)
  BY <1>1, <1>11 DEF Displaces, Live
<1>12. QED
  BY <1>1, <1>2, <1>6, <1>7, <1>8, <1>9, <1>10, <1>11 DEF Displacement

LEMMA RemoveDisplaces ==
  ASSUME Basics, NEW r \in Paths, Remove(r)
  PROVE  Displacement
<1> DEFINE i == dir[r]
<1>1. /\ i # None /\ file' = [file EXCEPT ![i] = Unlinked] /\ dir' = [dir EXCEPT ![r] = None]
      /\ UNCHANGED <<written, restarts, processVars, tracked, passVars, sent, skipped>>
      /\ Displaces({i}, {r}, FALSE)
  BY DEF Remove, Move, Displaces
<1>2. /\ TypeOK /\ Files /\ written \in 0 .. MaxLines
      /\ file \in [Inodes -> File] /\ dir \in [Paths -> Inodes \cup {None}]
      /\ at \in {"head", "read"} => path \in Paths
  BY DEF Basics, Remembered, TypeOK
<1>3. i \in Inodes /\ \A p \in Paths : dir'[p] = IF p = r THEN None ELSE dir[p]
  BY <1>1, <1>2
<1>4. /\ \A p \in Paths : p # r => dir[p] # i
      /\ OnePath' /\ Linked \ {i} \subseteq Linked'
  BY <1>1, <1>2, <1>3 DEF Linked, Files, OnePath
<1> HIDE DEF i
<1>5. \A j \in Inodes : file'[j] = IF j = i THEN Unlinked ELSE file[j]
  BY <1>1, <1>2
<1>6. \A j \in Inodes \ Linked' : file'[j] = Unlinked
  BY <1>1, <1>2, <1>4, <1>5 DEF Files, FileShape
<1>7. /\ Files' /\ \A j \in Inodes : file'[j] = file[j] \/ Cleared(j)
      /\ \A j \in Inodes : file'[j] \in File
  BY <1>1, <1>2, <1>4, <1>5, <1>6, EmptiedFiles
<1>8. file' \in [Inodes -> File] /\ dir' \in [Paths -> Inodes \cup {None}]
  BY <1>1, <1>2, <1>7
<1>9. (raced => raced') /\ (blind => blind') /\ (shuffled => shuffled')
  BY <1>1 DEF Displaces
<1>10. ASSUME ~raced', at \in {"head", "read"}, dir[path] # None
       PROVE  dir'[path] = dir[path] /\ file'[dir[path]] = file[dir[path]]
  BY <1>1, <1>2, <1>3, <1>4, <1>5, <1>10, PathType DEF Displaces
<1>11. ASSUME ~blind', NEW p \in Paths, tracked[p] # None, tracked[p].hash = None,
              tracked[p].offset > 0
       PROVE  file'[tracked[p].identity] = file[tracked[p].identity]
  BY <1>1, <1>2, <1>5, <1>11, TrackedType DEF Displaces
<1>12. ASSUME ~shuffled'
       PROVE  ~Reading /\ \A p \in Paths : Live(p)' => Live(p)
  <2>1. \A p \in Paths : tracked[p] # None => tracked[p].identity # None
    BY <1>2, TrackedType, Constants
  <2>2. QED
    BY <1>1, <1>3, <1>12, <2>1 DEF Displaces, Live
<1>13. QED
  BY <1>1, <1>2, <1>7, <1>8, <1>9, <1>10, <1>11, <1>12 DEF Displacement

LEMMA RenameDisplaces ==
  ASSUME Basics, NEW q \in Paths, NEW r \in Paths, Rename(q, r)
  PROVE  Displacement
<1> DEFINE i == dir[q]
           gone == dir[r]
           back == tracked[r] # None /\ tracked[r].identity = i
<1>1. /\ i # None /\ q # r
      /\ file' = [j \in Inodes |-> IF j = gone THEN Unlinked ELSE file[j]]
      /\ dir' = [dir EXCEPT ![q] = None, ![r] = i]
      /\ UNCHANGED <<written, restarts, processVars, tracked, passVars, sent, skipped>>
      /\ Displaces({gone} \ {None}, {q, r}, back)
  BY DEF Rename, Move, Displaces
<1>2. /\ TypeOK /\ Files /\ written \in 0 .. MaxLines
      /\ file \in [Inodes -> File] /\ dir \in [Paths -> Inodes \cup {None}]
      /\ at \in {"head", "read"} => path \in Paths
  BY DEF Basics, Remembered, TypeOK
<1>3. /\ i \in Inodes
      /\ \A p \in Paths : dir'[p] = IF p = r THEN i ELSE IF p = q THEN None ELSE dir[p]
  BY <1>1, <1>2
<1>4. /\ \A p \in Paths : gone # None /\ p # r => dir[p] # gone
      /\ OnePath' /\ Linked \ {gone} \subseteq Linked'
  <2>1. /\ \A p \in Paths : dir[p] = i => p = q
        /\ \A p \in Paths : gone # None /\ dir[p] = gone => p = r
    BY <1>1, <1>2 DEF Files, OnePath
  <2>2. OnePath'
    BY <1>1, <1>2, <1>3, <2>1 DEF Files, OnePath
  <2>3. ASSUME NEW p \in Paths, dir[p] # gone, dir[p] # None PROVE dir[p] \in Linked'
    <3>1. \E s \in Paths : dir'[s] = dir[p]
      BY <1>3, <2>3
    <3>2. QED
      BY <3>1, <2>3 DEF Linked
  <2>4. QED
    BY <2>1, <2>2, <2>3 DEF Linked
<1> HIDE DEF i, gone
<1>5. \A j \in Inodes : file'[j] = IF j = gone THEN Unlinked ELSE file[j]
  BY <1>1, <1>2
<1>6. \A j \in Inodes \ Linked' : file'[j] = Unlinked
  BY <1>1, <1>2, <1>4, <1>5 DEF Files, FileShape
<1>7. /\ Files' /\ \A j \in Inodes : file'[j] = file[j] \/ Cleared(j)
      /\ \A j \in Inodes : file'[j] \in File
  BY <1>1, <1>2, <1>4, <1>5, <1>6, EmptiedFiles
<1>8. file' \in [Inodes -> File] /\ dir' \in [Paths -> Inodes \cup {None}]
  BY <1>1, <1>2, <1>3, <1>7
<1>9. (raced => raced') /\ (blind => blind') /\ (shuffled => shuffled')
  BY <1>1 DEF Displaces
<1>10. ASSUME ~raced', at \in {"head", "read"}, dir[path] # None
       PROVE  dir'[path] = dir[path] /\ file'[dir[path]] = file[dir[path]]
  <2>1. path \in Paths /\ path # q /\ path # r
    BY <1>1, <1>2, <1>10 DEF Displaces
  <2>2. dir[path] \in Inodes /\ dir[path] # gone
    BY <2>1, <1>2, <1>4, <1>10, PathType
  <2>3. QED
    BY <2>1, <2>2, <1>3, <1>5
<1>11. ASSUME ~blind', NEW p \in Paths, tracked[p] # None, tracked[p].hash = None,
              tracked[p].offset > 0
       PROVE  file'[tracked[p].identity] = file[tracked[p].identity]
  <2>1. tracked[p].identity \in Inodes
    BY <1>2, <1>11, TrackedType
  <2>2. tracked[p].identity # None /\ tracked[p].identity \notin {gone} \ {None}
    BY <2>1, <1>1, <1>11, Constants DEF Displaces
  <2>3. QED
    BY <2>1, <2>2, <1>5
<1>12. ASSUME ~shuffled'
       PROVE  ~Reading /\ \A p \in Paths : Live(p)' => Live(p)
  <2>1. \A p \in Paths : tracked[p] # None => tracked[p].identity # None
    BY <1>2, TrackedType, Constants
  <2>2. ~Reading /\ ~back
    BY <1>1, <1>12 DEF Displaces
  <2>3. QED
    BY <1>1, <1>3, <2>1, <2>2 DEF Live
<1>13. QED
  BY <1>1, <1>2, <1>7, <1>8, <1>9, <1>10, <1>11, <1>12 DEF Displacement

LEMMA CreateDisplaces ==
  ASSUME Basics, NEW r \in Paths, NEW i \in Inodes, Create(r, i)
  PROVE  Displacement
<1>1. /\ dir[r] = None /\ i \notin Linked
      /\ file' = [file EXCEPT ![i] = Empty] /\ dir' = [dir EXCEPT ![r] = i]
      /\ UNCHANGED <<written, restarts, processVars, tracked, passVars, sent, skipped>>
      /\ Displaces({}, {r}, FALSE)
  BY DEF Create, Displaces
<1>2. /\ TypeOK /\ Files /\ written \in 0 .. MaxLines
      /\ file \in [Inodes -> File] /\ dir \in [Paths -> Inodes \cup {None}]
      /\ at \in {"head", "read"} => path \in Paths
  BY DEF Basics, Remembered, TypeOK
<1>3. \A p \in Paths : dir'[p] = IF p = r THEN i ELSE dir[p]
  BY <1>1, <1>2
<1>4. /\ \A p \in Paths : dir[p] # i
      /\ i # None
      /\ OnePath' /\ Linked \cup {i} \subseteq Linked'
  <2>1. \A p \in Paths : dir[p] # i
    BY <1>1, Constants DEF Linked
  <2>2. OnePath'
    BY <1>1, <1>2, <1>3, <2>1 DEF Files, OnePath
  <2>3. ASSUME NEW p \in Paths, dir[p] # None PROVE dir[p] \in Linked'
    BY <1>1, <1>3, <2>3 DEF Linked
  <2>4. i \in Linked' /\ i # None
    BY <1>3, Constants DEF Linked
  <2>5. QED
    BY <2>1, <2>2, <2>3, <2>4 DEF Linked
<1>5. \A j \in Inodes : file'[j] = IF j = i THEN Empty ELSE file[j]
  BY <1>1, <1>2
<1>6. \A j \in Inodes \ Linked' : file'[j] = Unlinked
  BY <1>1, <1>2, <1>4, <1>5 DEF Files, FileShape
<1>7. /\ Files' /\ \A j \in Inodes : file'[j] = file[j] \/ Cleared(j)
      /\ \A j \in Inodes : file'[j] \in File
  BY <1>1, <1>2, <1>4, <1>5, <1>6, EmptiedFiles
<1>8. file' \in [Inodes -> File] /\ dir' \in [Paths -> Inodes \cup {None}]
  BY <1>1, <1>2, <1>7
<1>9. (raced => raced') /\ (blind => blind') /\ (shuffled => shuffled')
  BY <1>1 DEF Displaces
<1>10. ASSUME ~raced', at \in {"head", "read"}, dir[path] # None
       PROVE  dir'[path] = dir[path] /\ file'[dir[path]] = file[dir[path]]
  <2>1. path \in Paths /\ dir[path] \in Inodes /\ dir[path] # i
    BY <1>2, <1>4, <1>10, PathType
  <2>2. QED
    BY <2>1, <1>1, <1>3, <1>5, <1>10
<1>11. ASSUME NEW j \in Inodes PROVE file'[j] = file[j] \/ file[j].size = 0
  BY <1>1, <1>2, <1>5 DEF Files, FileShape, Unlinked
<1>12. ASSUME ~shuffled'
       PROVE  ~Reading /\ \A p \in Paths : Live(p)' => Live(p) \/ file'[dir'[p]].ids = <<>>
  <2>1. ~Reading
    BY <1>1, <1>12 DEF Displaces
  <2>2. file'[dir'[r]].ids = <<>>
    BY <1>3, <1>5 DEF Empty
  <2>3. ASSUME NEW p \in Paths, p # r, Live(p)' PROVE Live(p)
    BY <1>1, <1>3, <2>3 DEF Live
  <2>4. QED
    BY <2>1, <2>2, <2>3
<1>13. \A p \in Paths : tracked[p] # None => tracked[p].identity \in Inodes
  BY <1>2, TrackedType
<1>14. ASSUME ~blind', NEW p \in Paths, tracked[p] # None, tracked[p].hash = None,
              tracked[p].offset > 0
       PROVE  \/ file'[tracked[p].identity] = file[tracked[p].identity]
              \/ file[tracked[p].identity].size = 0
  BY <1>11, <1>13, <1>14
<1>15. QED
  BY <1>1, <1>2, <1>7, <1>8, <1>9, <1>10, <1>12, <1>14 DEF Displacement

(* A change that only adds to a file.                                      *)
Growth ==
  /\ UNCHANGED <<dir, restarts, processVars, tracked, passVars, fates>>
  /\ file' \in [Inodes -> File] /\ Files'
  /\ written' \in written .. MaxLines
  /\ \A i \in Inodes : Kept(i)

LEMMA LinesBegun ==
  ASSUME TypeOK, Files, written \in 0 .. MaxLines, NEW i \in Inodes
  PROVE  /\ \A k \in DOMAIN file[i].ids : k <= file[i].ids[k] /\ file[i].ids[k] <= written
         /\ Len(file[i].ids) <= written
<1>0. written \in Nat
  BY Constants
<1>1. /\ DOMAIN file[i].ids = 1 .. Len(file[i].ids) /\ Len(file[i].ids) \in Nat
      /\ file[i].mtime \in Nat /\ written \in Nat
      /\ \A k \in 1 .. Len(file[i].ids) : file[i].ids[k] \in Nat
  BY <1>0, FileType
<1>2. /\ \A k \in DOMAIN file[i].ids : k <= file[i].ids[k] /\ file[i].ids[k] <= file[i].mtime
      /\ file[i].mtime <= written
  BY DEF Files, FileShape
<1>3. \A k \in DOMAIN file[i].ids : k <= file[i].ids[k] /\ file[i].ids[k] <= written
  BY <1>1, <1>2
<1>4. Len(file[i].ids) # 0 => Len(file[i].ids) \in DOMAIN file[i].ids
  BY <1>1
<1>5. QED
  BY <1>1, <1>3, <1>4

LEMMA WriteGrows ==
  ASSUME Basics, NEW i \in Inodes, NEW n \in 1 .. 2, Write(i, n)
  PROVE  Growth
<1>1. /\ i \in Linked /\ file' = [file EXCEPT ![i] = Grown(file[i], n)]
      /\ written' = file'[i].mtime /\ written' <= MaxLines
      /\ UNCHANGED <<dir, restarts, processVars, tracked, passVars, fates>>
  BY DEF Write
<1>2. /\ TypeOK /\ Files /\ written \in 0 .. MaxLines
      /\ file \in [Inodes -> File] /\ FileShape(i)
  BY DEF Basics, Remembered, TypeOK, Files
<1>3. PICK f, g : f = file[i] /\ g = Grown(file[i], n)
  OBVIOUS
<1>4. \A j \in Inodes : file'[j] = IF j = i THEN g ELSE file[j]
  BY <1>1, <1>2, <1>3
<1>5. /\ f.ids \in Seq(LineIds) /\ f.size \in Nat /\ f.mtime \in Nat
      /\ Len(f.ids) = (f.size + 1) \div 2 /\ Len(f.ids) <= written
      /\ DOMAIN f.ids = 1 .. Len(f.ids) /\ Len(f.ids) \in Nat
      /\ \A k \in DOMAIN f.ids : f.ids[k] \in Nat /\ k <= f.ids[k]
                               /\ f.ids[k] <= written
  BY <1>2, <1>3, FileType, LinesBegun DEF FileShape
<1>6. g.mtime = written' /\ g = Grown(f, n)
  BY <1>1, <1>3, <1>4
<1>7. IsGrown(f, n, g)
  <2>1. /\ f.ids \in Seq(LineIds) /\ f.size \in Nat /\ f.mtime \in Nat
        /\ Len(f.ids) = (f.size + 1) \div 2 /\ Len(f.ids) <= written
        /\ written \in 0 .. MaxLines /\ n \in 1 .. 2
        /\ g = Grown(f, n) /\ g.mtime <= MaxLines
    BY <1>1, <1>2, <1>5, <1>6
  <2>2. QED
    BY <2>1, GrownFacts, Zenon
<1>8. DOMAIN g.ids = 1 .. Len(g.ids) /\ Len(g.ids) \in Nat /\ written \in Nat
  <2>1. written \in Nat
    BY <1>2, Constants
  <2>2. DOMAIN g.ids = 1 .. Len(g.ids) /\ Len(g.ids) \in Nat
    BY <1>7, Seqs DEF IsGrown
  <2>3. QED
    BY <2>1, <2>2
<1>9. ASSUME NEW j \in Inodes PROVE Kept(j)
  <2>1. CASE j # i
    BY <2>1, <1>2, <1>4, FileType DEF Kept
  <2>2. CASE j = i
    <3>1. file'[j] = g /\ file[j] = f
      BY <2>2, <1>3, <1>4
    <3>2. \A k \in DOMAIN f.ids : k \in DOMAIN g.ids /\ g.ids[k] = f.ids[k]
      BY <1>7 DEF IsGrown
    <3>3. \A k \in DOMAIN g.ids : k \in DOMAIN f.ids \/ g.ids[k] > written
      BY <1>7, <1>8 DEF IsGrown
    <3>4. f.size <= g.size
      BY <1>5, <1>7 DEF IsGrown
    <3>5. QED
      BY <3>1, <3>2, <3>3, <3>4 DEF Kept
  <2>3. QED
    BY <2>1, <2>2
<1>10. g \in File
  <2>1. g.ids \in Seq(1 .. MaxLines) /\ g.mtime \in Nat
    BY <1>7, <1>8, Constants DEF LineIds, IsGrown
  <2>2. QED
    BY <2>1, <1>7 DEF File, IsGrown
<1>11. file' \in [Inodes -> File]
  BY <1>1, <1>2, <1>3, <1>10
<1>12. written' \in written .. MaxLines
  BY <1>6, <1>7 DEF IsGrown
<1>13. ASSUME NEW j \in Inodes PROVE FileShape(j)'
  <2>1. Linked' = Linked
    BY <1>1 DEF Linked
  <2>2. CASE j # i
    <3>1. file'[j] = file[j] /\ FileShape(j) /\ file[j].mtime \in Nat
      BY <2>2, <1>2, <1>4, FileType DEF Files
    <3>2. file[j].mtime <= written'
      BY <3>1, <1>8, <1>12, Constants DEF FileShape
    <3>3. QED
      BY <3>1, <3>2, <2>1 DEF FileShape
  <2>3. CASE j = i
    <3>1. file'[j] = g /\ j \in Linked'
      BY <2>1, <2>3, <1>1, <1>4
    <3>2. g.mtime <= written' /\ g.mtime \in Nat /\ written <= g.mtime
      BY <1>6, <1>7, <1>8, Constants DEF IsGrown
    <3>3. \A k \in DOMAIN g.ids : k <= g.ids[k] /\ g.ids[k] <= g.mtime
      <4>1. ASSUME NEW k \in DOMAIN f.ids PROVE k <= g.ids[k] /\ g.ids[k] <= g.mtime
        <5>1. /\ g.ids[k] = f.ids[k] /\ k <= f.ids[k] /\ f.ids[k] <= written
              /\ f.ids[k] \in Nat
          BY <4>1, <1>5, <1>7, Zenon DEF IsGrown
        <5>2. QED
          BY <5>1, <3>2, <1>8
      <4>2. Len(f.ids) + 1 <= written + 1
        BY <1>5, <1>8
      <4>3. QED
        BY <4>1, <4>2, <3>2, <1>7, <1>8 DEF IsGrown
    <3>4. QED
      BY <3>1, <3>2, <3>3, <1>7 DEF FileShape, IsGrown
  <2>4. QED
    BY <2>2, <2>3
<1>14. Unique'
  <2>1. ASSUME NEW a \in Inodes, NEW b \in Inodes,
               NEW k \in DOMAIN file'[a].ids, NEW m \in DOMAIN file'[b].ids,
               file'[a].ids[k] = file'[b].ids[m]
        PROVE  a = b /\ k = m
    <3>1. \A c \in Inodes : \A x \in DOMAIN file'[c].ids :
            \/ x \in DOMAIN file[c].ids /\ file'[c].ids[x] = file[c].ids[x]
               /\ file'[c].ids[x] \in Nat /\ file'[c].ids[x] <= written
            \/ c = i /\ x = Len(f.ids) + 1 /\ file'[c].ids[x] = written + 1
      <4>1. SUFFICES ASSUME NEW c \in Inodes, NEW x \in DOMAIN file'[c].ids
                     PROVE  \/ x \in DOMAIN file[c].ids /\ file'[c].ids[x] = file[c].ids[x]
                               /\ file'[c].ids[x] \in Nat /\ file'[c].ids[x] <= written
                            \/ c = i /\ x = Len(f.ids) + 1 /\ file'[c].ids[x] = written + 1
        OBVIOUS
      <4>2. \A y \in DOMAIN file[c].ids : file[c].ids[y] \in Nat /\ file[c].ids[y] <= written
        BY <1>2, FileType, LinesBegun
      <4>3. CASE c # i
        BY <4>2, <4>3, <1>4
      <4>4. CASE c = i
        BY <4>2, <4>4, <1>3, <1>4, <1>7 DEF IsGrown
      <4>5. QED
        BY <4>3, <4>4
    <3>2. CASE file'[a].ids[k] = written + 1
      BY <3>1, <3>2, <2>1, <1>8
    <3>3. CASE file'[a].ids[k] # written + 1
      <4>1. /\ k \in DOMAIN file[a].ids /\ m \in DOMAIN file[b].ids
            /\ file[a].ids[k] = file[b].ids[m]
        BY <3>1, <3>3, <2>1
      <4>2. QED
        BY <4>1, <1>2 DEF Files, Unique
    <3>4. QED
      BY <3>2, <3>3
  <2>2. QED
    BY <2>1 DEF Unique
<1>15. OnePath'
  BY <1>1, <1>2 DEF Files, OnePath
<1>16. Files'
  BY <1>13, <1>14, <1>15 DEF Files
<1>17. QED
  BY <1>1, <1>9, <1>11, <1>12, <1>16 DEF Growth

LEMMA EnvironmentStep ==
  ASSUME Basics, Environment
  PROVE  Growth \/ Displacement
<1>1. ASSUME NEW i \in Inodes, NEW n \in 1 .. 2, Write(i, n) PROVE Growth
  BY <1>1, WriteGrows
<1>2. ASSUME NEW i \in Inodes, Truncate(i) PROVE Displacement
  BY <1>2, TruncateDisplaces
<1>3. ASSUME NEW p \in Paths, Remove(p) PROVE Displacement
  BY <1>3, RemoveDisplaces
<1>4. ASSUME NEW p \in Paths, NEW r \in Paths, Rename(p, r) PROVE Displacement
  BY <1>4, RenameDisplaces
<1>5. ASSUME NEW p \in Paths, NEW i \in Inodes, Create(p, i) PROVE Displacement
  BY <1>5, CreateDisplaces
<1>6. QED
  BY <1>1, <1>2, <1>3, <1>4, <1>5 DEF Environment

-----------------------------------------------------------------------------
(* What is sound and what is ahead after a change of the files.            *)

LEMMA HashType ==
  ASSUME TypeOK, NEW i \in Inodes, NEW hash \in Heads \cup {None}, Matches(hash, i),
         Begun(hash)
  PROVE  hash \in Heads \ {<<>>} /\ hash # None /\ hash[1] = file[i].ids[1]
         /\ file[i].ids[1] <= written
<1>1. file[i].ids[1] \in LineIds /\ hash = <<file[i].ids[1], 2>>
  <2>1. 1 \in 1 .. Len(file[i].ids)
    BY FileType DEF Matches
  <2>2. QED
    BY <2>1, FileType DEF Matches
<1>2. hash \in LineIds \X {1, 2} /\ hash # <<>> /\ hash[1] = file[i].ids[1]
  BY <1>1
<1>3. hash \in Heads
  BY <1>2 DEF Heads, LineIds
<1>4. QED
  BY <1>2, <1>3, Constants DEF Begun

LEMMA NewFileType ==
  ASSUME TypeOK', NEW i \in Inodes
  PROVE  /\ file'[i].ids \in Seq(LineIds)
         /\ DOMAIN file'[i].ids = 1 .. Len(file'[i].ids) /\ Len(file'[i].ids) \in Nat
         /\ \A k \in 1 .. Len(file'[i].ids) : file'[i].ids[k] \in LineIds
         /\ file'[i].ids = <<>> <=> Len(file'[i].ids) = 0
         /\ file'[i].size \in Nat
<1>1. file'[i] \in File
  BY DEF TypeOK
<1>2. file'[i].ids \in Seq(LineIds)
  BY <1>1 DEF File, LineIds
<1>3. file'[i].size \in Nat
  BY <1>1, Constants DEF File
<1>4. QED
  BY <1>2, <1>3, Seqs

(* A fingerprint that agrees with the file agreed before it grew.          *)
LEMMA MatchesKept ==
  ASSUME TypeOK, Files, written \in 0 .. MaxLines, NEW i \in Inodes, Kept(i), TypeOK',
         NEW hash \in Heads \cup {None}, Begun(hash)
  PROVE  /\ Matches(hash, i)' => Matches(hash, i)
         /\ Matches(hash, i) => Matches(hash, i)'
<1>1. ASSUME Matches(hash, i)' PROVE Matches(hash, i)
  <2>1. hash = <<file'[i].ids[1], 2>> /\ 1 \in DOMAIN file'[i].ids /\ file'[i].ids[1] \in Nat
        /\ file'[i].ids[1] \in LineIds
    <3>1. file'[i].ids # <<>> /\ hash = <<file'[i].ids[1], 2>>
      BY <1>1 DEF Matches
    <3>2. 1 \in DOMAIN file'[i].ids /\ file'[i].ids[1] \in LineIds
      BY <3>1, NewFileType
    <3>3. file'[i].ids[1] \in Nat
      BY <3>2 DEF LineIds
    <3>4. QED
      BY <3>1, <3>2, <3>3
  <2>2. hash \in Heads \ {<<>>} /\ hash[1] = file'[i].ids[1]
    <3>1. hash \in LineIds \X {1, 2} /\ hash # <<>> /\ hash[1] = file'[i].ids[1]
      BY <2>1
    <3>2. QED
      BY <3>1 DEF Heads, LineIds
  <2>3. file'[i].ids[1] <= written /\ written \in Nat
    BY <2>2, Constants DEF Begun
  <2>4. 1 \in DOMAIN file[i].ids
    BY <2>1, <2>3 DEF Kept
  <2>5. file'[i].ids[1] = file[i].ids[1] /\ file[i].ids # <<>>
    BY <2>4, FileType DEF Kept
  <2>6. QED
    BY <2>1, <2>5 DEF Matches
<1>2. ASSUME Matches(hash, i) PROVE Matches(hash, i)'
  <2>1. 1 \in DOMAIN file[i].ids
    <3>1. file[i].ids # <<>>
      BY <1>2 DEF Matches
    <3>2. QED
      BY <3>1, BegunFile
  <2>2. 1 \in DOMAIN file'[i].ids /\ file'[i].ids[1] = file[i].ids[1]
    BY <2>1 DEF Kept
  <2>3. file'[i].ids # <<>>
    BY <2>2, NewFileType
  <2>4. QED
    BY <2>2, <2>3, <1>2 DEF Matches
<1>3. QED
  BY <1>1, <1>2

LEMMA CoveredKept ==
  ASSUME TypeOK, Files, written \in 0 .. MaxLines, NEW i \in Inodes, Kept(i), TypeOK',
         NEW offset \in Nat, NEW H, Covered(i, offset, H)
  PROVE  Covered(i, offset, H)'
<1>1. offset <= file[i].size /\ file[i].size <= file'[i].size
      /\ \A k \in 1 .. (offset + 1) \div 2 : file[i].ids[k] \in H
  BY DEF Covered, Kept
<1>2. file'[i].size \in Nat /\ file[i].size \in Nat
  BY NewFileType, FileType
<1>3. offset <= file'[i].size
  BY <1>1, <1>2
<1>4. (offset + 1) \div 2 <= (file[i].size + 1) \div 2
  BY <1>1, <1>2
<1>5. DOMAIN file[i].ids = 1 .. (file[i].size + 1) \div 2
  BY FileType DEF Files, FileShape
<1>6. ASSUME NEW k \in 1 .. (offset + 1) \div 2 PROVE file'[i].ids[k] \in H
  <2>1. k \in DOMAIN file[i].ids
    BY <1>2, <1>4, <1>5
  <2>2. QED
    BY <2>1, <1>1 DEF Kept
<1>7. QED
  BY <1>3, <1>6 DEF Covered

(* Cleared or grown, an offset stays as sound as it was.                   *)
LEMMA SoundKept ==
  ASSUME TypeOK, Files, written \in 0 .. MaxLines, NEW i \in Inodes, TypeOK',
         Kept(i) \/ file'[i] = file[i] \/ Cleared(i),
         NEW offset \in Nat, NEW hash \in Heads \cup {None}, Begun(hash), NEW H,
         Sound(i, offset, hash, H)
  PROVE  Sound(i, offset, hash, H)'
<1>1. CASE Cleared(i)
  BY <1>1 DEF Sound, Matches, Cleared
<1>2. CASE file'[i] = file[i]
  BY <1>2 DEF Sound, Matches, Covered
<1>3. CASE Kept(i)
  <2>1. SUFFICES ASSUME Matches(hash, i)' PROVE file'[i].size >= 2 /\ Covered(i, offset, H)'
    BY DEF Sound
  <2>2. Matches(hash, i)
    BY <2>1, <1>3, MatchesKept
  <2>3. file[i].size >= 2 /\ Covered(i, offset, H)
    BY <2>2 DEF Sound
  <2>4. Covered(i, offset, H)'
    BY <2>3, <1>3, CoveredKept
  <2>5. file'[i].size >= 2
    <3>1. file'[i].size \in Nat /\ file[i].size \in Nat
      BY NewFileType, FileType
    <3>2. file[i].size <= file'[i].size
      BY <1>3 DEF Kept
    <3>3. QED
      BY <2>3, <3>1, <3>2
  <2>6. QED
    BY <2>4, <2>5
<1>4. QED
  BY <1>1, <1>2, <1>3

LEMMA SoundMonotonic ==
  ASSUME NEW i, NEW offset, NEW hash, NEW H, NEW G, H \subseteq G, Sound(i, offset, hash, H)
  PROVE  Sound(i, offset, hash, G)
  BY DEF Sound, Covered

LEMMA EntryMonotonic ==
  ASSUME NEW e, NEW H, NEW G, H \subseteq G, EntrySound(e, H)
  PROVE  EntrySound(e, G)
  BY DEF EntrySound, Sound, Covered

LEMMA AheadKept ==
  ASSUME TypeOK, Files, written \in 0 .. MaxLines, NEW i \in Inodes, TypeOK',
         Kept(i) \/ file'[i] = file[i] \/ Cleared(i),
         NEW offset \in Nat, NEW hash \in Heads \cup {None}, Begun(hash),
         Taken' \subseteq Taken, \A l \in Taken : l <= written,
         Ahead(i, offset, hash)
  PROVE  Ahead(i, offset, hash)'
<1>1. CASE Cleared(i)
  <2>1. file'[i].ids = <<>> /\ DOMAIN file'[i].ids = {}
    BY <1>1, NewFileType DEF Cleared
  <2>2. QED
    BY <2>1 DEF Ahead, Matches
<1>2. CASE file'[i] = file[i]
  BY <1>2 DEF Ahead, Matches
<1>3. CASE Kept(i)
  <2>1. ASSUME NEW k \in DOMAIN file'[i].ids, file'[i].ids[k] \in Taken'
        PROVE  k <= offset \div 2 /\ Matches(hash, i)'
    <3>1. file'[i].ids[k] \in Nat /\ file'[i].ids[k] <= written /\ written \in Nat
      BY <2>1, NewFileType, Constants DEF LineIds
    <3>2. k \in DOMAIN file[i].ids /\ file'[i].ids[k] = file[i].ids[k]
      BY <3>1, <2>1, <1>3 DEF Kept
    <3>3. k <= offset \div 2 /\ Matches(hash, i)
      BY <3>2, <2>1 DEF Ahead
    <3>4. QED
      BY <3>3, <1>3, MatchesKept
  <2>2. ASSUME Matches(hash, i)'
        PROVE  file'[i].size >= 2 /\ offset <= file'[i].size
    <3>1. file[i].size >= 2 /\ offset <= file[i].size
      BY <2>2, <1>3, MatchesKept DEF Ahead
    <3>2. file[i].size <= file'[i].size
      BY <1>3 DEF Kept
    <3>3. file[i].size \in Nat /\ file'[i].size \in Nat
      BY FileType, NewFileType
    <3>4. QED
      BY <3>1, <3>2, <3>3
  <2>3. QED
    BY <2>1, <2>2 DEF Ahead
<1>4. QED
  BY <1>1, <1>2, <1>3

LEMMA UntouchedKept ==
  ASSUME TypeOK, Files, written \in 0 .. MaxLines, NEW i \in Inodes, TypeOK',
         Kept(i) \/ file'[i] = file[i] \/ Cleared(i),
         Taken' \subseteq Taken, \A l \in Taken : l <= written,
         Untouched(i)
  PROVE  Untouched(i)'
<1>1. SUFFICES ASSUME NEW k \in DOMAIN file'[i].ids PROVE file'[i].ids[k] \notin Taken'
  BY DEF Untouched
<1>2. CASE Cleared(i)
  <2>1. file'[i].ids = <<>> /\ DOMAIN file'[i].ids = {}
    BY <1>2, NewFileType DEF Cleared
  <2>2. QED
    BY <2>1
<1>3. CASE file'[i] = file[i]
  BY <1>3 DEF Untouched
<1>4. CASE Kept(i)
  <2>1. k \in DOMAIN file[i].ids => file'[i].ids[k] = file[i].ids[k]
    BY <1>4 DEF Kept
  <2>2. file'[i].ids[k] \in Nat /\ written \in Nat
    BY NewFileType, Constants DEF LineIds
  <2>3. k \notin DOMAIN file[i].ids => file'[i].ids[k] > written
    BY <1>4 DEF Kept
  <2>4. QED
    BY <2>1, <2>2, <2>3 DEF Untouched
<1>5. QED
  BY <1>2, <1>3, <1>4

LEMMA StampedKept ==
  ASSUME TypeOK, Files, written \in 0 .. MaxLines, NEW i \in Inodes, TypeOK',
         Kept(i) \/ file'[i] = file[i] \/ Cleared(i),
         NEW e \in Tracked, Begun(e.hash), e.last_mtime \in {None} \cup (0 .. written),
         Stamped(e, i)
  PROVE  Stamped(e, i)'
<1>1. SUFFICES ASSUME e.last_mtime # None, e.last_size >= 2, file'[i].ids # <<>>,
                      file'[i].ids[1] <= e.last_mtime
               PROVE  Matches(e.hash, i)'
  BY DEF Stamped
<1>2. CASE Cleared(i)
  BY <1>1, <1>2 DEF Cleared
<1>3. CASE file'[i] = file[i]
  BY <1>1, <1>3 DEF Stamped, Matches
<1>4. CASE Kept(i)
  <2>1. Len(file'[i].ids) \in Nat /\ Len(file'[i].ids) # 0
    BY <1>1, NewFileType
  <2>2. 1 \in 1 .. Len(file'[i].ids)
    BY <2>1
  <2>3. file'[i].ids[1] \in LineIds /\ 1 \in DOMAIN file'[i].ids
    BY <2>2, NewFileType
  <2>4. file'[i].ids[1] <= written
    BY <2>3, <1>1, Constants DEF LineIds
  <2>5. 1 \in DOMAIN file[i].ids
    BY <2>3, <2>4, <1>4, Constants DEF Kept, LineIds
  <2>6. file'[i].ids[1] = file[i].ids[1] /\ file[i].ids # <<>>
    BY <2>5, <1>4, FileType DEF Kept
  <2>7. Matches(e.hash, i)
    BY <2>6, <1>1 DEF Stamped
  <2>8. e.hash \in Heads \cup {None}
    BY DEF Tracked
  <2>9. QED
    BY <2>7, <2>8, <1>4, MatchesKept
<1>5. QED
  BY <1>2, <1>3, <1>4

-----------------------------------------------------------------------------
(* The basics.                                                             *)

LEMMA ResultType ==
  ASSUME TypeOK
  PROVE  /\ DOMAIN results = 1 .. Len(results) /\ Len(results) \in Nat
         /\ results = <<>> <=> Len(results) = 0
         /\ \A n \in DOMAIN results :
              /\ results[n] \in TailReadResult /\ results[n].identity \in Inodes
              /\ results[n].offset \in 0 .. 2 * MaxLines /\ results[n].offset \in Nat
              /\ results[n].hash \in Heads \cup {None}
              /\ results[n].lines \in Seq(Line)
<1>1. results \in Seq(TailReadResult)
  BY DEF TypeOK
<1>2. /\ DOMAIN results = 1 .. Len(results) /\ Len(results) \in Nat
      /\ results = <<>> <=> Len(results) = 0
      /\ \A n \in 1 .. Len(results) : results[n] \in TailReadResult
  BY <1>1, Seqs
<1>3. ASSUME NEW n \in DOMAIN results
      PROVE  /\ results[n] \in TailReadResult /\ results[n].identity \in Inodes
             /\ results[n].offset \in 0 .. 2 * MaxLines /\ results[n].offset \in Nat
             /\ results[n].hash \in Heads \cup {None}
             /\ results[n].lines \in Seq(Line)
  <2>1. results[n] \in TailReadResult
    BY <1>2
  <2>2. QED
    BY <2>1, Constants DEF TailReadResult
<1>4. QED
  BY <1>2, <1>3

LEMMA LinesType ==
  ASSUME TypeOK, NEW n \in DOMAIN results
  PROVE  LET ls == results[n].lines
         IN  /\ DOMAIN ls = 1 .. Len(ls) /\ Len(ls) \in Nat
             /\ ls = <<>> <=> Len(ls) = 0
             /\ \A m \in DOMAIN ls : ls[m] \in Line /\ ls[m].id \in LineIds /\ ls[m].id \in Nat
<1>1. results[n].lines \in Seq(Line)
  BY ResultType
<1>2. \A l \in Line : l.id \in LineIds /\ l.id \in Nat
  BY Constants DEF Line, LineIds
<1>3. QED
  BY <1>1, <1>2, Seqs

LEMMA CursorType ==
  ASSUME TypeOK, NEW i \in Inodes
  PROVE  /\ mem.files[i] \in S!FileCursor \cup {None}
         /\ disk.files[i] \in S!FileCursor \cup {None}
         /\ \A c \in Cursors(i) : c \in S!FileCursor /\ c.offset \in Nat
                                  /\ c.hash \in Heads \cup {None}
<1>1. mem.files[i] \in S!FileCursor \cup {None} /\ disk.files[i] \in S!FileCursor \cup {None}
  BY DEF TypeOK, S!StateFile
<1>2. \A c \in S!FileCursor : c.offset \in Nat /\ c.hash \in Heads \cup {None}
  BY DEF S!FileCursor
<1>3. QED
  BY <1>1, <1>2 DEF Cursors

LEMMA GrowthBasics ==
  ASSUME Basics, Growth
  PROVE  Basics'
<1>1. /\ UNCHANGED <<dir, restarts, phase, read_from_start, mem, disk, tracked, at, todo,
                     path, size, mtime, results, sent, skipped, raced, shuffled, blind>>
      /\ file' \in [Inodes -> File] /\ Files' /\ written' \in written .. MaxLines
  BY DEF Growth, processVars, passVars, fates
<1>2. TypeOK'
  BY <1>1 DEF Basics, TypeOK
<1>3. written \in Nat /\ written' \in Nat /\ written <= written' /\ written' \in 0 .. MaxLines
  BY <1>1, Constants DEF Basics, Remembered
<1>4. \A x \in Nat : x <= written => x <= written'
  BY <1>3
<1>5. ASSUME NEW hash \in Heads \cup {None}, Begun(hash) PROVE Begun(hash)'
  <2>1. ASSUME hash \in Heads \ {<<>>} PROVE hash[1] \in Nat
    BY <2>1, Constants DEF Heads
  <2>2. QED
    BY <2>1, <1>4, <1>5 DEF Begun
<1>6. Remembered'
  <2>1. written' \in 0 .. MaxLines /\ restarts' \in Nat
    BY <1>1, <1>3 DEF Basics, Remembered
  <2>2. ASSUME NEW i \in Inodes, NEW c \in Cursors(i)'
        PROVE  c.offset <= 2 * MaxLines /\ Begun(c.hash)'
    <3>1. c \in Cursors(i) /\ c.hash \in Heads \cup {None}
      BY <1>1, CursorType DEF Cursors, Basics
    <3>2. c.offset <= 2 * MaxLines /\ Begun(c.hash)
      BY <3>1 DEF Basics, Remembered
    <3>3. QED
      BY <3>1, <3>2, <1>5
  <2>3. ASSUME NEW p \in Paths, tracked'[p] # None
        PROVE  (Begun(tracked[p].hash) /\ tracked[p].last_mtime \in {None} \cup (0 .. written))'
    <3>1. PICK e : e = tracked[p]
      OBVIOUS
    <3>2. e.hash \in Heads \cup {None} /\ Begun(e.hash)
          /\ e.last_mtime \in {None} \cup (0 .. written)
      BY <3>1, <1>1, <2>3, TrackedType DEF Basics, Remembered
    <3>3. Begun(e.hash)' /\ e.last_mtime \in {None} \cup (0 .. written')
      BY <3>2, <1>3, <1>5
    <3>4. QED
      BY <3>1, <3>3, <1>1 DEF Begun
  <2>4. ASSUME NEW n \in DOMAIN results'
        PROVE  (Begun(results[n].hash) /\ \A m \in DOMAIN results[n].lines :
                                            results[n].lines[m].id <= written)'
    <3>1. PICK r : r = results[n]
      OBVIOUS
    <3>2. r.hash \in Heads \cup {None} /\ Begun(r.hash)
      BY <3>1, <1>1, ResultType DEF Basics, Remembered
    <3>3. \A m \in DOMAIN r.lines : r.lines[m].id \in Nat /\ r.lines[m].id <= written
      BY <3>1, <1>1, LinesType DEF Basics, Remembered
    <3>4. Begun(r.hash)'
      BY <3>2, <1>5
    <3>5. QED
      BY <3>1, <3>3, <3>4, <1>1, <1>4 DEF Begun
  <2>5. sent' \subseteq 1 .. written'
    BY <1>1, <1>3 DEF Basics, Remembered
  <2>6. QED
    BY <2>1, <2>2, <2>3, <2>4, <2>5 DEF Remembered
<1>7. Poised'
  BY <1>1, <1>3 DEF Basics, Poised
<1>8. QED
  BY <1>1, <1>2, <1>6, <1>7 DEF Basics

LEMMA DisplacementBasics ==
  ASSUME Basics, Displacement
  PROVE  Basics'
<1>1. /\ UNCHANGED <<written, restarts, phase, read_from_start, mem, disk, tracked, at,
                     todo, path, size, mtime, results, sent, skipped>>
      /\ file' \in [Inodes -> File] /\ dir' \in [Paths -> Inodes \cup {None}] /\ Files'
  BY DEF Displacement, processVars, passVars
<1>2. TypeOK'
  BY <1>1 DEF Basics, TypeOK
<1>3. Remembered' /\ Poised'
  BY <1>1 DEF Basics, Remembered, Poised, Cursors, Begun
<1>4. QED
  BY <1>1, <1>2, <1>3 DEF Basics

(* What a poll's step leaves alone, and the three ways in which it may go: *)
(* it goes on with path p, it lists a result for it, or it passes it over. *)
StaticPoll == UNCHANGED <<diskVars, bounds, processVars, fates>>

Looks(p, e, next, sz, mt) ==
  /\ tracked' = [tracked EXCEPT ![p] = e]
  /\ Looking(p, next, sz, mt)
  /\ StaticPoll

Lists(p, e, r) ==
  /\ tracked' = [tracked EXCEPT ![p] = e]
  /\ Done(p, Append(results, r))
  /\ StaticPoll

Passes(p) == UNCHANGED tracked /\ Done(p, results) /\ StaticPoll

(* rs is the results so far with r at its end.                             *)
IsAppended(rs, r) ==
  /\ rs \in Seq(TailReadResult)
  /\ Len(rs) = Len(results) + 1 /\ DOMAIN rs = 1 .. Len(results) + 1
  /\ rs[Len(results) + 1] = r
  /\ \A n \in DOMAIN results : n \in DOMAIN rs /\ rs[n] = results[n]
  /\ \A n \in DOMAIN rs : n \in DOMAIN results \/ n = Len(results) + 1

LEMMA AppendedFacts ==
  ASSUME TypeOK, NEW r \in TailReadResult
  PROVE  IsAppended(Append(results, r), r)
<1>1. PICK rs : rs = Append(results, r)
  OBVIOUS
<1>2. results \in Seq(TailReadResult)
  BY DEF TypeOK
<1>3. rs \in Seq(TailReadResult) /\ Len(rs) = Len(results) + 1
  BY <1>1, <1>2, Seqs
<1>4. \A k \in 1 .. Len(results) : rs[k] = results[k]
  BY <1>1, <1>2, Seqs
<1>5. rs[Len(results) + 1] = r
  BY <1>1, <1>2, Seqs
<1>6. DOMAIN rs = 1 .. Len(results) + 1 /\ DOMAIN results = 1 .. Len(results)
      /\ Len(results) \in Nat
  BY <1>2, <1>3, Seqs
<1>7. IsAppended(rs, r)
  <2>1. \A n \in DOMAIN results : n \in DOMAIN rs /\ rs[n] = results[n]
    BY <1>4, <1>6
  <2>2. \A n \in DOMAIN rs : n \in DOMAIN results \/ n = Len(results) + 1
    BY <1>6
  <2>3. QED
    BY <1>3, <1>5, <1>6, <2>1, <2>2 DEF IsAppended
<1>8. QED
  BY <1>1, <1>7, Zenon

(* The path is done with, and these are the results, unless the blocking   *)
(* call finds that the input was cancelled.                                *)
Leaves(p, rs) ==
  /\ todo' = todo \ {p} /\ size' = 0 /\ mtime' = 0
  /\ at' \in {"stat", "idle", "send"}
  /\ at' = "stat" => todo' # {}
  /\ at' = "idle" => results' = <<>>
  /\ at' = "send" => results' # <<>> /\ phase # "cancelled"
  /\ results' = rs \/ (phase = "cancelled" /\ results' = <<>>)

LEMMA DoneLeaves ==
  ASSUME NEW p, p \in todo, NEW rs, Done(p, rs)
  PROVE  Leaves(p, rs)
<1>1. CASE todo = {p}
  BY <1>1 DEF Done, Proceed, Leaves
<1>2. CASE todo # {p}
  BY <1>2 DEF Done, Leaves
<1>3. QED
  BY <1>1, <1>2

Remembers(e) == /\ e \in Tracked /\ Begun(e.hash)
                /\ e.last_mtime \in {None} \cup (0 .. written)

Sent(r) == /\ r \in TailReadResult /\ Begun(r.hash)
           /\ \A m \in DOMAIN r.lines : r.lines[m].id <= written

LEMMA NowRemembered ==
  ASSUME Basics
  PROVE  /\ \A p \in Paths : tracked[p] # None => Remembers(tracked[p])
         /\ \A n \in DOMAIN results : Sent(results[n])
  BY TrackedType, ResultType DEF Basics, Remembered, Remembers, Sent

(* A step of a poll keeps the basics if what it remembers is in order.     *)
LEMMA VisitBasics ==
  ASSUME Basics, StaticPoll,
         \A q \in Paths : tracked'[q] # None => Remembers(tracked'[q]),
         tracked' \in [Paths -> Tracked \cup {None}],
         results' \in Seq(TailReadResult), \A n \in DOMAIN results' : Sent(results'[n]),
         Poised', todo' \subseteq Paths,
         at' \in {"idle", "stat", "head", "read", "send"},
         at' \in {"head", "read"} => path' \in Paths
  PROVE  Basics'
<1>1. UNCHANGED <<dir, file, written, restarts, phase, mem, disk, sent>>
  BY DEF StaticPoll, diskVars, bounds, processVars, fates
<1>2. TypeOK'
  <2>1. at' \in {"head", "read"} => tracked'[path'] # None
    BY DEF Poised
  <2>2. QED
    BY <1>1, <2>1 DEF Basics, TypeOK
<1>3. Files'
  BY <1>1 DEF Basics, Files, FileShape, Unique, OnePath, Linked
<1>4. Remembered'
  <2>1. \A i \in Inodes : Cursors(i)' = Cursors(i)
    BY <1>1 DEF Cursors
  <2>2. QED
    BY <1>1, <2>1 DEF Basics, Remembered, Remembers, Sent, Begun
<1>5. QED
  BY <1>2, <1>3, <1>4 DEF Basics

LEMMA LooksBasics ==
  ASSUME Basics, NEW p \in todo, at \in {"stat", "head", "read"}, NEW e, Remembers(e),
         NEW next \in {"head", "read"}, NEW sz \in 0 .. 2 * MaxLines, NEW mt \in 0 .. written,
         Looks(p, e, next, sz, mt)
  PROVE  Basics'
<1>1. /\ tracked' = [tracked EXCEPT ![p] = e] /\ StaticPoll
      /\ at' = next /\ path' = p /\ size' = sz /\ mtime' = mt /\ todo' = todo
      /\ results' = results
  BY DEF Looks, Looking
<1>2. p \in Paths /\ tracked \in [Paths -> Tracked \cup {None}] /\ todo \subseteq Paths
      /\ results \in Seq(TailReadResult)
  BY DEF Basics, TypeOK
<1>3. /\ tracked' \in [Paths -> Tracked \cup {None}]
      /\ \A q \in Paths : tracked'[q] = IF q = p THEN e ELSE tracked[q]
      /\ e # None
  BY <1>1, <1>2, Constants DEF Remembers
<1>4. \A q \in Paths : tracked'[q] # None => Remembers(tracked'[q])
  BY <1>3, NowRemembered
<1>5. \A n \in DOMAIN results' : Sent(results'[n])
  BY <1>1, NowRemembered
<1>6. phase # "down" /\ phase' = phase /\ written' = written
  BY <1>1 DEF Basics, Poised, StaticPoll, processVars, bounds
<1>7. Poised'
  <2>1. todo' # {} /\ \A q \in todo' : tracked'[q] # None
    BY <1>1, <1>2, <1>3 DEF Basics, Poised
  <2>2. QED
    BY <1>1, <1>6, <2>1 DEF Poised
<1>8. QED
  BY <1>1, <1>2, <1>3, <1>4, <1>5, <1>7, VisitBasics

LEMMA LeavesBasics ==
  ASSUME Basics, NEW p \in todo, at \in {"stat", "head", "read"},
         NEW e, Remembers(e), tracked' = [tracked EXCEPT ![p] = e], StaticPoll,
         NEW rs \in Seq(TailReadResult), \A n \in DOMAIN rs : Sent(rs[n]), Leaves(p, rs)
  PROVE  Basics'
<1>2. p \in Paths /\ tracked \in [Paths -> Tracked \cup {None}] /\ todo \subseteq Paths
  BY DEF Basics, TypeOK
<1>3. /\ tracked' \in [Paths -> Tracked \cup {None}]
      /\ \A q \in Paths : tracked'[q] = IF q = p THEN e ELSE tracked[q]
      /\ e # None
  BY <1>2, Constants DEF Remembers
<1>4. \A q \in Paths : tracked'[q] # None => Remembers(tracked'[q])
  BY <1>3, NowRemembered
<1>5. results' \in Seq(TailReadResult) /\ \A n \in DOMAIN results' : Sent(results'[n])
  <2>1. CASE results' = rs
    BY <2>1
  <2>2. CASE results' = <<>>
    BY <2>2
  <2>3. QED
    BY <2>1, <2>2 DEF Leaves
<1>6. phase # "down" /\ phase' = phase /\ written' = written /\ written \in Nat
  BY Constants DEF Basics, Poised, StaticPoll, processVars, bounds, Remembered
<1>7. Poised'
  <2>1. \A q \in todo' : tracked'[q] # None
    BY <1>2, <1>3 DEF Basics, Poised, Leaves
  <2>2. size' \in 0 .. 2 * MaxLines /\ mtime' \in 0 .. written'
    BY <1>6, Constants DEF Leaves
  <2>3. QED
    BY <1>6, <2>1, <2>2 DEF Poised, Leaves
<1>8. QED
  BY <1>2, <1>3, <1>4, <1>5, <1>7, VisitBasics DEF Leaves

LEMMA ListsBasics ==
  ASSUME Basics, NEW p \in todo, at \in {"stat", "head", "read"}, NEW e, Remembers(e),
         NEW r, Sent(r), Lists(p, e, r)
  PROVE  Basics'
<1>1. PICK rs : rs = Append(results, r)
  OBVIOUS
<1>2. IsAppended(rs, r)
  BY <1>1, AppendedFacts DEF Basics, Sent
<1>3. Leaves(p, rs) /\ tracked' = [tracked EXCEPT ![p] = e] /\ StaticPoll
  BY <1>1, DoneLeaves DEF Lists
<1>4. rs \in Seq(TailReadResult) /\ \A n \in DOMAIN rs : Sent(rs[n])
  BY <1>2, NowRemembered DEF IsAppended
<1>5. QED
  BY <1>3, <1>4, LeavesBasics

LEMMA PassesBasics ==
  ASSUME Basics, NEW p \in todo, at \in {"stat", "head", "read"}, Passes(p)
  PROVE  Basics'
<1>1. Leaves(p, results) /\ tracked' = tracked /\ StaticPoll
  BY DoneLeaves DEF Passes
<1>2. tracked \in [Paths -> Tracked \cup {None}] /\ p \in Paths /\ tracked[p] # None
      /\ results \in Seq(TailReadResult)
  BY DEF Basics, TypeOK, Poised
<1>3. tracked' = [tracked EXCEPT ![p] = tracked[p]]
  BY <1>1, <1>2
<1>4. Remembers(tracked[p]) /\ \A n \in DOMAIN results : Sent(results[n])
  BY <1>2, NowRemembered
<1>5. QED
  BY <1>1, <1>2, <1>3, <1>4, LeavesBasics

(* A new entry takes over what is remembered of its file.                  *)
LEMMA FromCursorFacts ==
  ASSUME Basics, NEW i \in Inodes, NEW start \in 0 .. 2 * MaxLines,
         NEW e, e = FromCursor(i, start)
  PROVE  /\ Remembers(e) /\ e.identity = i
         /\ e.last_size = 0 /\ e.last_mtime = None
         /\ mem.files[i] = None => e.offset = start /\ e.hash = None
         /\ mem.files[i] # None =>
              mem.files[i] \in Cursors(i)
              /\ e.offset = mem.files[i].offset /\ e.hash = mem.files[i].hash
<1>1. 0 \in 0 .. 2 * MaxLines
  BY Constants
<1>2. ~Begun(None) => FALSE
  BY Constants DEF Begun
<1>3. CASE mem.files[i] = None
  <2>1. e = [identity |-> i, offset |-> start, last_size |-> 0, last_mtime |-> None,
             hash |-> None]
    BY <1>3 DEF FromCursor, NewEntry
  <2>2. e \in Tracked
    BY <2>1, <1>1 DEF Tracked
  <2>3. QED
    BY <2>1, <2>2, <1>2, <1>3 DEF Remembers
<1>4. CASE mem.files[i] # None
  <2>1. PICK c : c = mem.files[i]
    OBVIOUS
  <2>2. c \in Cursors(i) /\ c \in S!FileCursor
    BY <2>1, <1>4, CursorType DEF Cursors, Basics
  <2>3. /\ c.offset \in Nat /\ c.hash \in Heads \cup {None}
        /\ c.offset <= 2 * MaxLines /\ Begun(c.hash)
    BY <2>2, CursorType DEF Basics, Remembered
  <2>4. c.offset \in 0 .. 2 * MaxLines
    BY <2>3, Constants
  <2>5. e = [identity |-> i, offset |-> c.offset, last_size |-> 0, last_mtime |-> None,
             hash |-> c.hash]
    BY <1>4, <2>1 DEF FromCursor, NewEntry
  <2>6. e \in Tracked
    BY <2>3, <2>4, <2>5, <1>1 DEF Tracked
  <2>7. QED
    BY <1>4, <2>1, <2>2, <2>3, <2>5, <2>6 DEF Remembers
<1>5. QED
  BY <1>3, <1>4

LEMMA TruncatedFacts ==
  ASSUME NEW b, Remembers(b), NEW sz \in Nat, NEW e, e = Truncated(b, sz)
  PROVE  /\ Remembers(e) /\ e.identity = b.identity /\ e.hash = b.hash
         /\ e.last_size = b.last_size /\ e.last_mtime = b.last_mtime
         /\ e.offset \in Nat /\ e.offset <= sz
         /\ e.offset = IF sz < b.offset THEN 0 ELSE b.offset
<1>1. b \in Tracked /\ b.offset \in 0 .. 2 * MaxLines /\ b.offset \in Nat
      /\ 0 \in 0 .. 2 * MaxLines
  BY Constants DEF Remembers, Tracked
<1>2. CASE sz < b.offset
  <2>1. e = [b EXCEPT !.offset = 0]
    BY <1>2 DEF Truncated
  <2>2. /\ e \in Tracked /\ e.identity = b.identity /\ e.hash = b.hash
        /\ e.last_size = b.last_size /\ e.last_mtime = b.last_mtime /\ e.offset = 0
    BY <1>1, <2>1 DEF Tracked
  <2>3. QED
    BY <1>2, <2>2 DEF Remembers
<1>3. CASE ~(sz < b.offset)
  <2>1. e = b
    BY <1>3 DEF Truncated
  <2>2. QED
    BY <1>1, <1>3, <2>1
<1>4. QED
  BY <1>2, <1>3

(* What the poll finds in front of it: the entry of the path, or one anew. *)
Base(p) == IF tracked[p].identity = dir[p] THEN tracked[p] ELSE FromCursor(dir[p], 0)

LEMMA BaseFacts ==
  ASSUME Basics, NEW p \in Paths, dir[p] # None, tracked[p] # None
  PROVE  Remembers(Base(p)) /\ Base(p).identity = dir[p] /\ dir[p] \in Inodes
<1>1. dir[p] \in Inodes /\ 0 \in 0 .. 2 * MaxLines
  BY PathType, Constants DEF Basics
<1>2. CASE tracked[p].identity = dir[p]
  BY <1>1, <1>2, NowRemembered DEF Base
<1>3. CASE tracked[p].identity # dir[p]
  BY <1>1, <1>3, FromCursorFacts DEF Base
<1>4. QED
  BY <1>2, <1>3, <1>1

ResultOf(e) == Result(e, <<>>)

LEMMA ResultOfEntry ==
  ASSUME NEW e, Remembers(e), NEW r, r = ResultOf(e)
  PROVE  /\ Sent(r) /\ r.identity = e.identity /\ r.offset = e.offset /\ r.hash = e.hash
         /\ r.lines = <<>>
<1>1. PICK lines : lines = <<>>
  OBVIOUS
<1>2. lines \in Seq(Line) /\ DOMAIN lines = {} /\ r = Result(e, lines)
  <2>1. lines \in Seq(Line)
    BY <1>1
  <2>2. Len(lines) = 0
    BY <1>1
  <2>3. DOMAIN lines = {}
    BY <2>1, <2>2
  <2>4. r = Result(e, lines)
    BY <1>1 DEF ResultOf
  <2>5. QED
    BY <2>1, <2>3, <2>4
<1>3. r = [identity |-> e.identity, lines |-> lines, offset |-> e.offset, hash |-> e.hash]
  BY <1>2 DEF Result
<1>4. r \in TailReadResult
  BY <1>2, <1>3 DEF TailReadResult, Remembers, Tracked
<1>5. r.lines = lines
  BY <1>3
<1>6. \A m \in DOMAIN r.lines : r.lines[m].id <= written
  BY <1>2, <1>5
<1>7. Sent(r)
  BY <1>3, <1>4, <1>6 DEF Sent, Remembers
<1>8. r.identity = e.identity /\ r.offset = e.offset /\ r.hash = e.hash
  BY <1>3
<1>9. QED
  BY <1>1, <1>5, <1>7, <1>8

LEMMA SizeType ==
  ASSUME Basics, NEW i \in Inodes
  PROVE  /\ file[i].size \in 0 .. 2 * MaxLines /\ file[i].size \in Nat
         /\ file[i].mtime \in 0 .. written /\ file[i].mtime \in Nat
<1>1. /\ file[i].size \in 0 .. 2 * MaxLines /\ file[i].size \in Nat
      /\ file[i].mtime \in Nat
  BY FileType DEF Basics
<1>2. file[i].mtime <= written
  BY DEF Basics, Files, FileShape
<1>3. QED
  BY <1>1, <1>2

LEMMA StatVisits ==
  ASSUME Basics, NEW p \in Paths, Stat(p)
  PROVE  /\ p \in todo /\ at = "stat" /\ phase = "up" /\ tracked[p] # None
         /\ dir[p] = None => Passes(p)
         /\ dir[p] # None =>
              LET f == file[dir[p]]
                  e == Truncated(Base(p), f.size)
              IN  \/ Looks(p, e, "head", f.size, f.mtime)
                  \/ ~FingerprintDue(e, f.size, f.mtime) /\ Looks(p, e, "read", f.size, f.mtime)
                  \/ ~FingerprintDue(e, f.size, f.mtime) /\ Lists(p, e, ResultOf(e))
<1>1. p \in todo /\ at = "stat" /\ phase = "up" /\ tracked[p] # None
  BY DEF Stat, Basics, Poised, TypeOK
<1>2. StaticPoll
  BY DEF Stat, StaticPoll
<1>3. CASE dir[p] = None
  BY <1>1, <1>2, <1>3 DEF Stat, Passes
<1>4. CASE dir[p] # None
  BY <1>1, <1>2, <1>4 DEF Stat, Base, Looks, Lists, Examined, ResultOf
<1>5. QED
  BY <1>1, <1>3, <1>4

LEMMA StatBasics ==
  ASSUME Basics, NEW p \in Paths, Stat(p)
  PROVE  Basics'
<1>1. p \in todo /\ at = "stat" /\ tracked[p] # None
  BY StatVisits
<1>2. CASE dir[p] = None
  BY <1>1, <1>2, StatVisits, PassesBasics
<1>3. CASE dir[p] # None
  <2>1. PICK f, e : f = file[dir[p]] /\ e = Truncated(Base(p), f.size)
    OBVIOUS
  <2>2. \/ Looks(p, e, "head", f.size, f.mtime)
        \/ Looks(p, e, "read", f.size, f.mtime)
        \/ Lists(p, e, ResultOf(e))
    BY <2>1, <1>3, StatVisits
  <2>3. dir[p] \in Inodes /\ Remembers(Base(p))
    BY <1>1, <1>3, BaseFacts
  <2>4. f.size \in 0 .. 2 * MaxLines /\ f.size \in Nat /\ f.mtime \in 0 .. written
    BY <2>1, <2>3, SizeType
  <2>5. Remembers(e)
    BY <2>1, <2>3, <2>4, TruncatedFacts
  <2>6. Sent(ResultOf(e))
    BY <2>5, ResultOfEntry
  <2>7. QED
    BY <2>2, <2>4, <2>5, <2>6, <1>1, LooksBasics, ListsBasics
<1>4. QED
  BY <1>2, <1>3

(* The entry as the fingerprint leaves it.                                 *)
Curr == IF dir[path] = None THEN None ELSE FirstLine(file[dir[path]])
Rewritten == /\ Curr # None /\ tracked[path].offset > 0 /\ tracked[path].hash # None
             /\ tracked[path].hash # Curr
Seen == [tracked[path] EXCEPT !.offset = IF Rewritten THEN 0 ELSE @,
                              !.hash = IF Curr = None THEN @ ELSE Curr,
                              !.last_size = size, !.last_mtime = mtime]

LEMMA FirstLineFacts ==
  ASSUME Basics, NEW i \in Inodes, NEW h, h = FirstLine(file[i])
  PROVE  /\ h \in Heads /\ Begun(h) /\ h # None
         /\ Matches(h, i) => file[i].size >= 2
         /\ file[i].size >= 2 => Matches(h, i) /\ h = <<file[i].ids[1], 2>>
<1>1. /\ file[i].size \in Nat /\ Len(file[i].ids) = (file[i].size + 1) \div 2
      /\ file[i].ids = <<>> <=> Len(file[i].ids) = 0
  BY FileType DEF Basics, Files, FileShape
<1>2. CASE file[i].size = 0
  <2>1. h = <<>> /\ file[i].ids = <<>>
    BY <1>1, <1>2 DEF FirstLine
  <2>2. h \in Heads
    BY <2>1 DEF Heads
  <2>3. QED
    BY <2>1, <2>2, <1>2, Constants DEF Begun, Matches
<1>3. CASE file[i].size # 0
  <2>1. file[i].ids # <<>>
    BY <1>1, <1>3
  <2>2. PICK l : l = file[i].ids[1]
    OBVIOUS
  <2>3. l \in LineIds /\ 1 \in DOMAIN file[i].ids
    BY <2>1, <2>2, BegunFile DEF Basics
  <2>4. l <= written
    BY <2>2, <2>3, LinesBegun DEF Basics, Remembered
  <2>5. h = <<l, IF file[i].size = 1 THEN 1 ELSE 2>>
    BY <1>3, <2>2 DEF FirstLine
  <2>6. h \in LineIds \X {1, 2} /\ h[1] = l
    BY <2>3, <2>5
  <2>7. h \in Heads /\ Begun(h)
    BY <2>4, <2>6 DEF Heads, Begun, LineIds
  <2>8. file[i].size = 1 => h # <<l, 2>>
    BY <2>5
  <2>9. Matches(h, i) => file[i].size >= 2
    BY <2>2, <2>8, <1>1, <1>3 DEF Matches
  <2>10. file[i].size >= 2 => Matches(h, i) /\ h = <<file[i].ids[1], 2>>
    BY <2>1, <2>2, <2>5, <1>1 DEF Matches
  <2>11. QED
    BY <2>7, <2>9, <2>10, Constants
<1>4. QED
  BY <1>2, <1>3

LEMMA FingerprintVisits ==
  ASSUME Basics, Fingerprint
  PROVE  /\ path \in todo /\ path \in Paths /\ at = "head" /\ tracked[path] # None
         /\ \/ Looks(path, Seen, "read", size, mtime)
            \/ size = Seen.offset /\ Lists(path, Seen, ResultOf(Seen))
<1>1. path \in todo /\ path \in Paths /\ at = "head" /\ tracked[path] # None
  BY DEF Fingerprint, Basics, Poised, TypeOK
<1>2. StaticPoll
  BY DEF Fingerprint, StaticPoll
<1>3. Examined(path, Seen, size, mtime)
  BY DEF Fingerprint, Seen, Rewritten, Curr
<1>4. QED
  BY <1>1, <1>2, <1>3 DEF Examined, Looks, Lists, ResultOf

LEMMA SeenFacts ==
  ASSUME Basics, at = "head", NEW e, e = Seen, NEW b, b = tracked[path]
  PROVE  /\ Remembers(e) /\ e.identity = b.identity
         /\ e.last_size = size /\ e.last_mtime = mtime /\ size \in Nat /\ mtime \in Nat
         /\ e.offset = IF Rewritten THEN 0 ELSE b.offset
         /\ e.hash = IF Curr = None THEN b.hash ELSE Curr
<1>1. path \in Paths /\ tracked[path] # None /\ Remembers(b)
  BY NowRemembered DEF Basics, TypeOK
<1>2. size \in 0 .. 2 * MaxLines /\ mtime \in 0 .. written /\ size \in Nat /\ mtime \in Nat
      /\ 0 \in 0 .. 2 * MaxLines
  BY Constants DEF Basics, Poised, Remembered
<1>3. Curr # None => Curr \in Heads /\ Begun(Curr)
  <2>1. CASE dir[path] = None
    BY <2>1 DEF Curr
  <2>2. CASE dir[path] # None
    BY <2>2, <1>1, PathType, FirstLineFacts DEF Curr, Basics
  <2>3. QED
    BY <2>1, <2>2
<1>4. PICK o, h : /\ o = IF Rewritten THEN 0 ELSE b.offset
                  /\ h = IF Curr = None THEN b.hash ELSE Curr
  OBVIOUS
<1>5. b \in Tracked /\ o \in 0 .. 2 * MaxLines /\ h \in Heads \cup {None} /\ Begun(h)
  BY <1>1, <1>2, <1>3, <1>4 DEF Remembers, Tracked
<1>6. e = [b EXCEPT !.offset = o, !.hash = h, !.last_size = size, !.last_mtime = mtime]
  BY <1>4, <1>5 DEF Seen, Tracked
<1>7. /\ e.identity = b.identity /\ e.last_size = size /\ e.last_mtime = mtime
      /\ e.offset = o /\ e.hash = h /\ e \in Tracked
  BY <1>2, <1>5, <1>6 DEF Tracked
<1>8. QED
  BY <1>2, <1>4, <1>5, <1>7 DEF Remembers

LEMMA FingerprintBasics ==
  ASSUME Basics, Fingerprint
  PROVE  Basics'
<1>1. PICK e : e = Seen
  OBVIOUS
<1>2. path \in todo /\ at = "head"
      /\ (Looks(path, e, "read", size, mtime) \/ Lists(path, e, ResultOf(e)))
  BY <1>1, FingerprintVisits
<1>3. Remembers(e)
  BY <1>1, <1>2, SeenFacts
<1>4. Sent(ResultOf(e))
  BY <1>3, ResultOfEntry
<1>5. size \in 0 .. 2 * MaxLines /\ mtime \in 0 .. written
  BY DEF Basics, Poised
<1>6. QED
  BY <1>2, <1>3, <1>4, <1>5, LooksBasics, ListsBasics

(* The entry as a read leaves it.                                          *)
Behind == [tracked[path] EXCEPT !.offset = NewOffset(file[dir[path]], @)]

LEMMA ReadVisits ==
  ASSUME Basics, Read
  PROVE  /\ path \in todo /\ path \in Paths /\ at = "read" /\ tracked[path] # None
         /\ dir[path] = None => Passes(path)
         /\ dir[path] # None =>
              Lists(path, Behind,
                    Result(Behind, NewLines(file[dir[path]], tracked[path].offset)))
<1>1. path \in todo /\ path \in Paths /\ at = "read" /\ tracked[path] # None
  BY DEF Read, Basics, Poised, TypeOK
<1>2. tracked[path] \in Tracked
  BY <1>1, TrackedType DEF Basics
<1>3. [tracked[path] EXCEPT !.offset = NewOffset(file[dir[path]], tracked[path].offset)] = Behind
  BY <1>2 DEF Behind, Tracked
<1>4. QED
  BY <1>1, <1>3 DEF Read, Lists, Passes, StaticPoll

(* What a read finds of file i behind the offset o, and where it ends.     *)
Finds(i, o, n, ls) ==
  /\ n \in Nat /\ n \in 0 .. 2 * MaxLines /\ o <= n /\ o \in Nat
  /\ n # o => /\ n = 2 * (n \div 2) /\ n <= file[i].size /\ n <= size /\ size >= 2
              /\ n = LastNewline(file[i])
  /\ n = o => LastNewline(file[i]) <= o
  /\ ls \in Seq(Line) /\ DOMAIN ls = 1 .. n \div 2 - o \div 2
  /\ \A m \in DOMAIN ls :
       /\ o \div 2 + m \in DOMAIN file[i].ids
       /\ ls[m] = [id |-> file[i].ids[o \div 2 + m],
                  whole |-> o <= 2 * (o \div 2 + m - 1)]
       /\ ls[m].id <= written

LEMMA ReadFacts ==
  ASSUME Basics, NEW i \in Inodes, NEW o \in 0 .. 2 * MaxLines,
         NEW n, n = NewOffset(file[i], o), NEW ls, ls = NewLines(file[i], o)
  PROVE  Finds(i, o, n, ls)
<1>1. /\ file[i].size \in Nat /\ size \in Nat /\ o \in Nat
      /\ file[i].size <= 2 * MaxLines /\ size <= 2 * MaxLines /\ o <= 2 * MaxLines
      /\ MaxLines \in Nat
  <2>1. size \in 0 .. 2 * MaxLines /\ file[i].size \in 0 .. 2 * MaxLines
    BY SizeType DEF Basics, Poised
  <2>2. QED
    BY <2>1, Constants
<1>2. PICK z : z = IF file[i].size < size THEN file[i].size ELSE size
  OBVIOUS
<1>3. z \in Nat /\ z <= file[i].size /\ z <= size
  BY <1>1, <1>2
<1>4. LastNewline(file[i]) = 2 * (z \div 2)
  BY <1>2 DEF LastNewline
<1>5. PICK y : y = z \div 2
  OBVIOUS
<1>6. y \in Nat /\ 2 * y <= z
  BY <1>3, <1>5
<1>7. n = IF 2 * y > o THEN 2 * y ELSE o
  BY <1>4, <1>5 DEF NewOffset
<1>8. /\ n \in Nat /\ n \in 0 .. 2 * MaxLines /\ o <= n
      /\ n # o => n = 2 * y /\ n <= file[i].size /\ n <= size /\ size >= 2
      /\ n = o => 2 * y <= o
  BY <1>1, <1>3, <1>6, <1>7
<1>9. n # o => n = 2 * (n \div 2)
  BY <1>6, <1>8
<1>10. PICK a, b : a = o \div 2 /\ b = n \div 2
  OBVIOUS
<1>11. a \in Nat /\ b \in Nat /\ a <= b
  BY <1>1, <1>8, <1>10
<1>12. ls = [m \in 1 .. b - a |->
               [id |-> file[i].ids[a + m], whole |-> o <= 2 * (a + m - 1)]]
  BY <1>10 DEF NewLines
<1>13. ASSUME NEW m \in 1 .. b - a
       PROVE  /\ a + m \in DOMAIN file[i].ids
              /\ ls[m] = [id |-> file[i].ids[a + m], whole |-> o <= 2 * (a + m - 1)]
  <2>1. ls[m] = [id |-> file[i].ids[a + m], whole |-> o <= 2 * (a + m - 1)]
    BY <1>12
  <2>2. n # o /\ a + m \in 1 .. b
    BY <1>10, <1>11
  <2>3. b = y /\ n <= file[i].size
    BY <2>2, <1>6, <1>8, <1>10
  <2>4. b <= (file[i].size + 1) \div 2
    BY <2>3, <2>2, <1>1, <1>6, <1>8
  <2>5. DOMAIN file[i].ids = 1 .. (file[i].size + 1) \div 2
    BY FileType DEF Basics, Files, FileShape
  <2>6. a + m \in DOMAIN file[i].ids
    BY <2>2, <2>4, <2>5, <1>1, <1>11
  <2>7. QED
    BY <2>1, <2>6
<1>14. ASSUME NEW m \in 1 .. b - a
       PROVE  ls[m] \in Line /\ ls[m].id <= written
  <2>1. PICK l : l = file[i].ids[a + m]
    OBVIOUS
  <2>2. l \in LineIds /\ l <= written
    BY <2>1, <1>13, FileType, LinesBegun DEF Basics, Remembered
  <2>3. ls[m] = [id |-> l, whole |-> o <= 2 * (a + m - 1)]
    BY <2>1, <1>13
  <2>4. QED
    BY <2>2, <2>3 DEF Line, LineIds
<1>15. ls \in Seq(Line) /\ DOMAIN ls = 1 .. b - a
  <2>1. b - a \in Nat
    BY <1>11
  <2>2. ls = [m \in 1 .. b - a |-> ls[m]]
    BY <1>12
  <2>3. ls \in [1 .. b - a -> Line]
    BY <1>12, <1>14, <2>2
  <2>4. QED
    BY <2>1, <2>3, SeqDef
<1>16. ASSUME NEW m \in DOMAIN ls
       PROVE  /\ a + m \in DOMAIN file[i].ids
              /\ ls[m] = [id |-> file[i].ids[a + m], whole |-> o <= 2 * (a + m - 1)]
              /\ ls[m].id <= written
  BY <1>13, <1>14, <1>15
<1>17. QED
  BY <1>1, <1>4, <1>5, <1>8, <1>9, <1>10, <1>15, <1>16 DEF Finds

LEMMA ReadLists ==
  ASSUME Basics, Read, dir[path] # None,
         NEW b, b = tracked[path], NEW i, i = dir[path],
         NEW n, n = NewOffset(file[i], b.offset), NEW ls, ls = NewLines(file[i], b.offset),
         NEW e, e = [b EXCEPT !.offset = n], NEW r, r = Result(e, ls)
  PROVE  /\ i \in Inodes /\ Remembers(b) /\ b.offset \in 0 .. 2 * MaxLines
         /\ Remembers(e) /\ e.identity = b.identity /\ e.offset = n /\ e.hash = b.hash
         /\ e.last_size = b.last_size /\ e.last_mtime = b.last_mtime
         /\ Sent(r) /\ r.identity = b.identity /\ r.offset = n /\ r.hash = b.hash
         /\ r.lines = ls
         /\ Lists(path, e, r)
<1>1. path \in todo /\ path \in Paths /\ at = "read" /\ tracked[path] # None
  BY ReadVisits
<1>2. Remembers(b) /\ i \in Inodes /\ b \in Tracked /\ b.offset \in 0 .. 2 * MaxLines
  BY <1>1, NowRemembered, PathType DEF Basics, Remembers, Tracked
<1>3. n \in 0 .. 2 * MaxLines /\ ls \in Seq(Line)
      /\ \A m \in DOMAIN ls : ls[m].id <= written
  <2>1. Finds(i, b.offset, n, ls)
    BY <1>2, ReadFacts
  <2>2. QED
    BY <2>1 DEF Finds
<1>4. /\ Remembers(e) /\ e.identity = b.identity /\ e.offset = n /\ e.hash = b.hash
      /\ e.last_size = b.last_size /\ e.last_mtime = b.last_mtime
  BY <1>2, <1>3 DEF Remembers, Tracked
<1>5. r = [identity |-> e.identity, lines |-> ls, offset |-> e.offset, hash |-> e.hash]
  BY DEF Result
<1>6. /\ Sent(r) /\ r.identity = e.identity /\ r.offset = e.offset /\ r.hash = e.hash
      /\ r.lines = ls
  <2>1. r \in TailReadResult
    BY <1>3, <1>4, <1>5 DEF TailReadResult, Remembers, Tracked
  <2>2. r.lines = ls /\ r.hash = e.hash
    BY <1>5
  <2>3. Sent(r)
    BY <2>1, <2>2, <1>3, <1>4 DEF Sent, Remembers
  <2>4. QED
    BY <2>2, <2>3, <1>5
<1>7. Lists(path, e, r)
  <2>1. Behind = e
    BY <1>2 DEF Behind, Tracked
  <2>2. Result(Behind, NewLines(file[dir[path]], tracked[path].offset)) = r
    BY <2>1
  <2>3. QED
    BY <2>1, <2>2, ReadVisits
<1>8. QED
  BY <1>2, <1>4, <1>6, <1>7

LEMMA ReadBasics ==
  ASSUME Basics, Read
  PROVE  Basics'
<1>1. path \in todo /\ path \in Paths /\ at = "read" /\ tracked[path] # None
  BY ReadVisits
<1>2. CASE dir[path] = None
  BY <1>1, <1>2, ReadVisits, PassesBasics
<1>3. CASE dir[path] # None
  <2>1. PICK b, i : b = tracked[path] /\ i = dir[path]
    OBVIOUS
  <2>2. PICK n, ls : n = NewOffset(file[i], b.offset) /\ ls = NewLines(file[i], b.offset)
    OBVIOUS
  <2>3. PICK e : e = [b EXCEPT !.offset = n]
    OBVIOUS
  <2>4. PICK r : r = Result(e, ls)
    OBVIOUS
  <2>5. Remembers(e) /\ Sent(r) /\ Lists(path, e, r)
    BY <1>3, <2>1, <2>2, <2>3, <2>4, ReadLists
  <2>6. QED
    BY <1>1, <2>5, ListsBasics
<1>4. QED
  BY <1>2, <1>3

LEMMA SendFacts ==
  ASSUME Basics, SendLine
  PROVE  /\ results # <<>> /\ 1 \in DOMAIN results /\ Unsent = results[1].lines
         /\ DOMAIN results' = DOMAIN results /\ results' # <<>>
         /\ results' \in Seq(TailReadResult)
         /\ \A n \in DOMAIN results :
              /\ results'[n].identity = results[n].identity
              /\ results'[n].offset = results[n].offset /\ results'[n].hash = results[n].hash
              /\ n # 1 => results'[n] = results[n]
         /\ 1 \in DOMAIN results[1].lines /\ Head(Unsent) = results[1].lines[1]
         /\ \A m \in DOMAIN results'[1].lines :
              /\ m \in Nat /\ m + 1 \in DOMAIN results[1].lines
              /\ results'[1].lines[m] = results[1].lines[m + 1]
         /\ \A m \in DOMAIN results[1].lines :
              m # 1 => /\ m - 1 \in DOMAIN results'[1].lines
                       /\ results'[1].lines[m - 1] = results[1].lines[m]
<1>1. results # <<>> /\ results \in Seq(TailReadResult)
  BY DEF SendLine, Basics, Poised, TypeOK
<1>2. 1 \in DOMAIN results /\ Head(results) = results[1]
  <2>1. Len(results) \in Nat /\ Len(results) # 0 /\ DOMAIN results = 1 .. Len(results)
    BY <1>1, Seqs
  <2>2. QED
    BY <1>1, <2>1
<1>3. PICK u, t : u = results[1].lines /\ t = Tail(u)
  OBVIOUS
<1>4. u \in Seq(Line) /\ Unsent = u /\ u # <<>>
  BY <1>2, <1>3, ResultType DEF Unsent, SendLine, Basics
<1>5. /\ t \in Seq(Line) /\ Len(t) = Len(u) - 1 /\ Len(u) \in Nat \ {0} /\ Head(u) = u[1]
      /\ \A m \in 1 .. Len(t) : t[m] = u[m + 1]
  <2>1. t \in Seq(Line) /\ Len(t) = Len(u) - 1 /\ \A m \in 1 .. Len(t) : t[m] = u[m + 1]
    BY <1>3, <1>4, HeadTailProperties
  <2>2. Len(u) \in Nat \ {0}
    BY <1>4, EmptySeq
  <2>3. Head(u) = u[1]
    BY <1>4
  <2>4. QED
    BY <2>1, <2>2, <2>3
<1>6. DOMAIN t = 1 .. Len(u) - 1 /\ DOMAIN u = 1 .. Len(u)
  BY <1>4, <1>5
<1>7. /\ 1 \in DOMAIN u
      /\ \A m \in DOMAIN t : m \in Nat /\ m + 1 \in DOMAIN u /\ t[m] = u[m + 1]
      /\ \A m \in DOMAIN u : m # 1 => m - 1 \in DOMAIN t /\ t[m - 1] = u[m]
  <2>1. 1 \in DOMAIN u
    BY <1>5, <1>6
  <2>2. \A m \in DOMAIN t : m \in Nat /\ m + 1 \in DOMAIN u /\ t[m] = u[m + 1]
    BY <1>5, <1>6
  <2>3. ASSUME NEW m \in DOMAIN u, m # 1 PROVE m - 1 \in DOMAIN t /\ t[m - 1] = u[m]
    <3>1. m - 1 \in 1 .. Len(t) /\ m - 1 + 1 = m
      BY <2>3, <1>5, <1>6
    <3>2. QED
      BY <3>1, <1>5, <1>6
  <2>4. QED
    BY <2>1, <2>2, <2>3
<1>8. PICK r : r = [results[1] EXCEPT !.lines = t]
  OBVIOUS
<1>9. /\ r \in TailReadResult /\ r.identity = results[1].identity /\ r.lines = t
      /\ r.offset = results[1].offset /\ r.hash = results[1].hash
  <2>1. results[1] \in TailReadResult
    BY <1>2, ResultType DEF Basics
  <2>2. QED
    BY <2>1, <1>5, <1>8 DEF TailReadResult
<1>10. results' = [results EXCEPT ![1] = r]
  BY <1>2, <1>3, <1>8 DEF SendLine
<1>11. DOMAIN results' = DOMAIN results
       /\ \A n \in DOMAIN results : results'[n] = IF n = 1 THEN r ELSE results[n]
  BY <1>10
<1>12. results' \in Seq(TailReadResult)
  BY <1>1, <1>9, <1>10, ExceptSeq
<1>13. results' # <<>>
  BY <1>2, <1>11
<1>14. \A n \in DOMAIN results :
         /\ results'[n].identity = results[n].identity
         /\ results'[n].offset = results[n].offset /\ results'[n].hash = results[n].hash
         /\ n # 1 => results'[n] = results[n]
  BY <1>9, <1>11
<1>15. results'[1].lines = t /\ Head(Unsent) = results[1].lines[1]
  BY <1>2, <1>3, <1>4, <1>5, <1>9, <1>11
<1>16. QED
  BY <1>1, <1>2, <1>3, <1>4, <1>7, <1>11, <1>12, <1>13, <1>14, <1>15, Zenon

(* The results without the first.                                          *)
Shifted(rs) ==
  /\ rs \in Seq(TailReadResult)
  /\ \A n \in DOMAIN rs : n \in Nat /\ n + 1 \in DOMAIN results /\ rs[n] = results[n + 1]
  /\ \A n \in DOMAIN results : n # 1 => n - 1 \in DOMAIN rs /\ rs[n - 1] = results[n]

LEMMA ShiftFacts ==
  ASSUME TypeOK, results # <<>>
  PROVE  Shifted(Tail(results)) /\ Head(results) = results[1] /\ 1 \in DOMAIN results
<1>1. results \in Seq(TailReadResult)
  BY DEF TypeOK
<1>2. PICK t : t = Tail(results)
  OBVIOUS
<1>3. t \in Seq(TailReadResult) /\ Len(t) = Len(results) - 1
      /\ \A n \in 1 .. Len(t) : t[n] = results[n + 1]
  BY <1>1, <1>2, HeadTailProperties
<1>4. Len(results) \in Nat \ {0}
  BY <1>1, EmptySeq
<1>5. DOMAIN t = 1 .. Len(results) - 1 /\ DOMAIN results = 1 .. Len(results)
  BY <1>1, <1>3
<1>6. \A n \in DOMAIN t : n \in Nat /\ n + 1 \in DOMAIN results /\ t[n] = results[n + 1]
  BY <1>3, <1>4, <1>5
<1>7. ASSUME NEW n \in DOMAIN results, n # 1
      PROVE  n - 1 \in DOMAIN t /\ t[n - 1] = results[n]
  <2>1. n - 1 \in 1 .. Len(t) /\ n - 1 + 1 = n
    BY <1>7, <1>3, <1>4, <1>5
  <2>2. QED
    BY <2>1, <1>3, <1>5
<1>8. Shifted(t)
  BY <1>3, <1>6, <1>7 DEF Shifted
<1>9. Head(results) = results[1] /\ 1 \in DOMAIN results
  BY <1>1, <1>4, <1>5
<1>10. QED
  BY <1>2, <1>8, <1>9, Zenon

LEMMA SetCursorFacts ==
  ASSUME Basics, SetCursor, NEW r, r = results[1]
  PROVE  /\ results # <<>> /\ 1 \in DOMAIN results /\ r.lines = <<>> /\ Sent(r)
         /\ r.identity \in Inodes
         /\ mem' \in S!StateFile /\ mem'.known_inputs = mem.known_inputs
         /\ \A j \in Inodes : j # r.identity => mem'.files[j] = mem.files[j]
         /\ LET c == mem'.files[r.identity]
            IN  c # None /\ c.offset = r.offset /\ c.hash = r.hash
         /\ UNCHANGED <<dir, file, written, restarts, phase, disk, tracked, todo, size, mtime,
                        sent, skipped, raced, shuffled, blind>>
         /\ at = "send" /\ at' \in {"idle", "send"}
         /\ at' = "idle" => results' = <<>>
         /\ at' = "send" => results' # <<>> /\ phase # "cancelled"
         /\ Shifted(results') \/ (phase = "cancelled" /\ results' = <<>>)
<1>1. /\ at = "send" /\ HandedOver(Head(results))
      /\ mem' = LET q == Head(results)
                IN  S!WithCursor(mem, q.identity, q.offset, q.hash, 0)
      /\ Proceed(Tail(results))
      /\ UNCHANGED <<dir, file, written, restarts, phase, disk, tracked, todo, size, mtime,
                     sent, skipped, raced, shuffled, blind>>
  BY DEF SetCursor, diskVars, bounds, fates
<1>2. results # <<>>
  BY <1>1 DEF Basics, Poised
<1>3. Shifted(Tail(results)) /\ Head(results) = r /\ 1 \in DOMAIN results
  BY <1>2, ShiftFacts DEF Basics
<1>4. Sent(r) /\ r.lines = <<>> /\ r.identity \in Inodes /\ r.offset \in Nat
      /\ r.hash \in Heads \cup {None}
  BY <1>1, <1>3, NowRemembered, ResultType DEF HandedOver, Basics
<1>5. PICK k, c : k = r.identity /\ c = [offset |-> r.offset, hash |-> r.hash, touched |-> 0]
  OBVIOUS
<1>6. c \in S!FileCursor
  BY <1>4, <1>5 DEF S!FileCursor
<1>7. mem \in S!StateFile /\ k \in Inodes
  BY <1>4, <1>5 DEF Basics, TypeOK
<1>8. /\ mem' \in S!StateFile /\ mem'.known_inputs = mem.known_inputs
      /\ \A j \in Inodes : j # k => mem'.files[j] = mem.files[j]
      /\ mem'.files[k] # None /\ mem'.files[k].offset = r.offset /\ mem'.files[k].hash = r.hash
  <2>1. CASE S!Throttled(mem.files[k], r.offset, r.hash, 0)
    <3>1. mem' = mem
      BY <1>1, <1>3, <1>5, <2>1 DEF S!WithCursor
    <3>2. QED
      BY <3>1, <1>7, <2>1 DEF S!Throttled
  <2>2. CASE ~S!Throttled(mem.files[k], r.offset, r.hash, 0)
    <3>1. mem' = [mem EXCEPT !.files[k] = c]
      BY <1>1, <1>3, <1>5, <2>2 DEF S!WithCursor, S!Cursor
    <3>2. /\ mem' \in S!StateFile /\ mem'.known_inputs = mem.known_inputs
          /\ \A j \in Inodes : j # k => mem'.files[j] = mem.files[j]
          /\ mem'.files[k] = c
      BY <3>1, <1>6, <1>7 DEF S!StateFile
    <3>3. c # None
      BY <1>6, Constants
    <3>4. QED
      BY <3>2, <3>3, <1>5
  <2>3. QED
    BY <2>1, <2>2
<1>9. /\ at' \in {"idle", "send"}
      /\ at' = "idle" => results' = <<>>
      /\ at' = "send" => results' # <<>> /\ phase # "cancelled"
      /\ Shifted(results') \/ (phase = "cancelled" /\ results' = <<>>)
  <2>1. PICK rs : rs = Tail(results)
    OBVIOUS
  <2>2. Proceed(rs) /\ Shifted(rs)
    BY <2>1, <1>1, <1>3, Zenon
  <2>3. QED
    BY <2>2 DEF Proceed
<1>10. QED
  BY <1>1, <1>2, <1>3, <1>4, <1>5, <1>8, <1>9

LEMMA SetCursorBasics ==
  ASSUME Basics, SetCursor
  PROVE  Basics'
<1>1. PICK r : r = results[1]
  OBVIOUS
<1>2. /\ Sent(r) /\ r.identity \in Inodes
      /\ mem' \in S!StateFile /\ mem'.known_inputs = mem.known_inputs
      /\ \A j \in Inodes : j # r.identity => mem'.files[j] = mem.files[j]
      /\ mem'.files[r.identity].offset = r.offset /\ mem'.files[r.identity].hash = r.hash
      /\ UNCHANGED <<dir, file, written, restarts, phase, disk, tracked, todo, size, mtime,
                     sent, skipped, raced, shuffled, blind>>
      /\ at = "send" /\ at' \in {"idle", "send"}
      /\ at' = "idle" => results' = <<>>
      /\ at' = "send" => results' # <<>>
      /\ Shifted(results') \/ results' = <<>>
  BY <1>1, SetCursorFacts
<1>3. results' \in Seq(TailReadResult) /\ \A n \in DOMAIN results' : Sent(results'[n])
  <2>1. CASE results' = <<>>
    BY <2>1
  <2>2. CASE Shifted(results')
    BY <2>2, NowRemembered DEF Shifted
  <2>3. QED
    BY <2>1, <2>2, <1>2
<1>4. TypeOK'
  BY <1>2, <1>3 DEF Basics, TypeOK
<1>5. Files'
  BY <1>2 DEF Basics, Files, FileShape, Unique, OnePath, Linked
<1>6. Remembered'
  <2>1. ASSUME NEW j \in Inodes, NEW c \in Cursors(j)'
        PROVE  c.offset <= 2 * MaxLines /\ Begun(c.hash)
    <3>1. CASE c \in Cursors(j)
      BY <3>1 DEF Basics, Remembered
    <3>2. CASE c \notin Cursors(j)
      <4>1. c = mem'.files[r.identity]
        BY <3>2, <2>1, <1>2 DEF Cursors
      <4>2. c.offset = r.offset /\ c.hash = r.hash
        BY <4>1, <1>2
      <4>3. r.offset \in 0 .. 2 * MaxLines /\ Begun(r.hash)
        BY <1>2 DEF Sent, TailReadResult
      <4>4. QED
        BY <4>2, <4>3, Constants
    <3>3. QED
      BY <3>1, <3>2
  <2>2. QED
    BY <2>1, <1>2, <1>3 DEF Basics, Remembered, Sent, Begun
<1>7. Poised'
  BY <1>2 DEF Basics, Poised
<1>8. QED
  BY <1>4, <1>5, <1>6, <1>7 DEF Basics

LEMMA SendLineBasics ==
  ASSUME Basics, SendLine
  PROVE  Basics'
<1>1. /\ results' # <<>> /\ results' \in Seq(TailReadResult) /\ at = "send"
      /\ \E m \in DOMAIN results[1].lines : Head(Unsent) = results[1].lines[m]
      /\ UNCHANGED <<dir, file, written, restarts, phase, mem, disk, tracked, at, todo, path,
                     size, mtime>>
      /\ 1 \in DOMAIN results
  BY SendFacts DEF SendLine, diskVars, bounds, processVars
<1>2. sent' \subseteq 1 .. written
  <2>1. PICK l : l = Head(Unsent)
    OBVIOUS
  <2>2. l.id \in LineIds /\ l.id <= written
    <3>1. PICK m \in DOMAIN results[1].lines : l = results[1].lines[m]
      BY <1>1, <2>1
    <3>2. QED
      BY <3>1, <1>1, LinesType DEF Basics, Remembered
  <2>3. sent' = IF l.whole THEN sent \cup {l.id} ELSE sent
    BY <2>1 DEF SendLine
  <2>4. sent \subseteq 1 .. written /\ written \in Nat
    BY Constants DEF Basics, Remembered
  <2>5. l.id \in 1 .. written
    BY <2>2, <2>4 DEF LineIds
  <2>6. QED
    BY <2>3, <2>4, <2>5
<1>3. ASSUME NEW n \in DOMAIN results' PROVE Sent(results'[n])
  <2>1. n \in DOMAIN results /\ Sent(results[n]) /\ results'[n].hash = results[n].hash
        /\ results'[n] \in TailReadResult
    BY <1>1, <1>3, SendFacts, NowRemembered
  <2>2. ASSUME NEW m \in DOMAIN results'[n].lines PROVE results'[n].lines[m].id <= written
    <3>1. CASE n # 1
      BY <2>1, <2>2, <3>1, SendFacts DEF Sent
    <3>2. CASE n = 1
      BY <2>1, <2>2, <3>2, SendFacts DEF Sent
    <3>3. QED
      BY <3>1, <3>2
  <2>3. QED
    BY <2>1, <2>2 DEF Sent
<1>4. TypeOK'
  BY <1>1 DEF Basics, TypeOK
<1>5. Files'
  BY <1>1 DEF Basics, Files, FileShape, Unique, OnePath, Linked
<1>6. Remembered'
  BY <1>1, <1>2, <1>3 DEF Basics, Remembered, Sent, Begun, Cursors
<1>7. Poised'
  BY <1>1 DEF Basics, Poised
<1>8. QED
  BY <1>4, <1>5, <1>6, <1>7 DEF Basics

(* Discovery keeps the entry of a file that is there, and adds the others. *)
LEMMA DiscoverFacts ==
  ASSUME Basics, Start \/ Rediscover
  PROVE  /\ at = "idle" /\ results = <<>> /\ phase' = "up" /\ phase # "cancelled"
         /\ UNCHANGED <<dir, file, written, restarts, disk, at, todo, path, size, mtime,
                        results, sent, raced, shuffled, blind>>
         /\ mem' \in S!StateFile /\ Id \in mem'.known_inputs /\ mem'.files = mem.files
         /\ skipped \subseteq skipped'
         /\ \A i \in Linked : \A k \in DOMAIN file[i].ids :
              Id \notin mem.known_inputs /\ Start /\ ~read_from_start
                => file[i].ids[k] \in skipped'
         /\ tracked' \in [Paths -> Tracked \cup {None}]
         /\ \A p \in Paths : tracked'[p] # None =>
              /\ Remembers(tracked'[p]) /\ dir[p] # None
              /\ \/ tracked'[p] = tracked[p] /\ phase = "up"
                 \/ \E start \in {0, file[dir[p]].size} :
                      /\ tracked'[p] = FromCursor(dir[p], start)
                      /\ start # 0 => \A k \in DOMAIN file[dir[p]].ids :
                                        file[dir[p]].ids[k] \in skipped'
<1>1. PICK skip \in BOOLEAN :
        /\ Discover(skip)
        /\ skip <=> Start /\ Id \notin mem.known_inputs /\ ~read_from_start
  <2>1. CASE Start
    BY <2>1 DEF Start
  <2>2. CASE ~Start
    BY <2>2 DEF Rediscover
  <2>3. QED
    BY <2>1, <2>2
<1>2. /\ at = "idle" /\ results = <<>> /\ phase' = "up" /\ phase # "cancelled"
      /\ UNCHANGED <<dir, file, written, restarts, disk, at, todo, path, size, mtime,
                     results, sent, raced, shuffled, blind>>
      /\ phase = "up" \/ (phase = "down" /\ tracked = NoTracked)
  BY DEF Start, Rediscover, Basics, Poised, diskVars, bounds, passVars
<1>3. mem' \in S!StateFile /\ Id \in mem'.known_inputs /\ mem'.files = mem.files
  <2>1. mem \in S!StateFile
    BY DEF Basics, TypeOK
  <2>2. mem' = [mem EXCEPT !.known_inputs = @ \cup {Id}]
    BY <1>1 DEF Discover, S!WithKnownInput
  <2>3. QED
    BY <2>1, <2>2 DEF S!StateFile
<1>4. /\ skipped \subseteq skipped'
      /\ skip => \A i \in Linked : \A k \in DOMAIN file[i].ids : file[i].ids[k] \in skipped'
  BY <1>1 DEF Discover
<1>5. tracked' = [p \in Paths |->
        CASE dir[p] = None -> None
          [] tracked[p] # None /\ dir[p] # None -> tracked[p]
          [] OTHER -> FromCursor(dir[p], IF skip THEN file[dir[p]].size ELSE 0)]
  BY <1>1 DEF Discover
<1>6. ASSUME NEW p \in Paths
      PROVE  /\ dir[p] = None => tracked'[p] = None
             /\ dir[p] # None /\ tracked[p] # None => tracked'[p] = tracked[p]
             /\ dir[p] # None /\ tracked[p] = None =>
                  tracked'[p] = FromCursor(dir[p], IF skip THEN file[dir[p]].size ELSE 0)
  BY <1>5
<1>7. ASSUME NEW p \in Paths
      PROVE  \/ dir[p] = None /\ tracked'[p] = None
             \/ /\ dir[p] # None /\ tracked[p] # None /\ phase = "up"
                /\ tracked'[p] = tracked[p] /\ Remembers(tracked'[p])
             \/ /\ dir[p] # None /\ Remembers(tracked'[p])
                /\ \E start \in {0, file[dir[p]].size} :
                      /\ tracked'[p] = FromCursor(dir[p], start)
                      /\ start # 0 => \A k \in DOMAIN file[dir[p]].ids :
                                        file[dir[p]].ids[k] \in skipped'
  <2>1. CASE dir[p] = None
    BY <2>1, <1>6
  <2>2. CASE dir[p] # None /\ tracked[p] # None
    <3>1. phase = "up"
      BY <2>2, <1>2 DEF NoTracked
    <3>2. QED
      BY <2>2, <3>1, <1>6, NowRemembered
  <2>3. CASE dir[p] # None /\ tracked[p] = None
    <3>1. PICK start : start = IF skip THEN file[dir[p]].size ELSE 0
      OBVIOUS
    <3>2. dir[p] \in Inodes /\ dir[p] \in Linked
      BY <2>3, PathType DEF Basics
    <3>3. start \in 0 .. 2 * MaxLines /\ start \in {0, file[dir[p]].size}
      BY <3>1, <3>2, SizeType, Constants
    <3>4. tracked'[p] = FromCursor(dir[p], start)
      BY <2>3, <3>1, <1>6
    <3>5. Remembers(tracked'[p])
      BY <3>2, <3>3, <3>4, FromCursorFacts
    <3>6. start # 0 => \A k \in DOMAIN file[dir[p]].ids : file[dir[p]].ids[k] \in skipped'
      BY <3>1, <3>2, <1>4
    <3>7. QED
      BY <2>3, <3>3, <3>4, <3>5, <3>6
  <2>4. QED
    BY <2>1, <2>2, <2>3
<1>8. tracked' \in [Paths -> Tracked \cup {None}]
  <2>1. \A p \in Paths : tracked'[p] \in Tracked \cup {None}
    BY <1>7 DEF Remembers
  <2>2. QED
    BY <2>1, <1>5
<1>9. QED
  BY <1>1, <1>2, <1>3, <1>4, <1>7, <1>8

LEMMA DiscoverBasics ==
  ASSUME Basics, Start \/ Rediscover
  PROVE  Basics'
<1>1. /\ at = "idle" /\ phase' = "up"
      /\ UNCHANGED <<dir, file, written, restarts, disk, at, todo, path, size, mtime,
                     results, sent, raced, shuffled, blind>>
      /\ mem' \in S!StateFile /\ Id \in mem'.known_inputs /\ mem'.files = mem.files
      /\ tracked' \in [Paths -> Tracked \cup {None}]
      /\ \A p \in Paths : tracked'[p] # None => Remembers(tracked'[p])
  BY DiscoverFacts
<1>2. TypeOK'
  BY <1>1 DEF Basics, TypeOK
<1>3. Files'
  BY <1>1 DEF Basics, Files, FileShape, Unique, OnePath, Linked
<1>4. Remembered'
  BY <1>1 DEF Basics, Remembered, Remembers, Begun, Cursors
<1>5. Poised'
  BY <1>1 DEF Basics, Poised
<1>6. QED
  BY <1>2, <1>3, <1>4, <1>5 DEF Basics

LEMMA StartTailBasics ==
  ASSUME Basics, StartTail
  PROVE  Basics'
<1>1. /\ phase = "up" /\ at = "idle" /\ tracked # NoTracked /\ at' = "stat"
      /\ todo' = {p \in Paths : tracked[p] # None}
      /\ UNCHANGED <<dir, file, written, restarts, phase, mem, disk, tracked, path, size,
                     mtime, results, sent>>
  BY DEF StartTail, diskVars, bounds, processVars, fates
<1>2. \E p \in Paths : tracked[p] # None
  <2>1. tracked \in [Paths -> Tracked \cup {None}]
    BY DEF Basics, TypeOK
  <2>2. QED
    BY <2>1, <1>1 DEF NoTracked
<1>3. TypeOK'
  BY <1>1 DEF Basics, TypeOK
<1>4. Files'
  BY <1>1 DEF Basics, Files, FileShape, Unique, OnePath, Linked
<1>5. Remembered'
  BY <1>1 DEF Basics, Remembered, Begun, Cursors
<1>6. Poised'
  BY <1>1, <1>2 DEF Basics, Poised
<1>7. QED
  BY <1>3, <1>4, <1>5, <1>6 DEF Basics

LEMMA IdleBasics ==
  ASSUME Basics, Idle, UNCHANGED <<dir, file, written, sent>>, restarts' \in Nat,
         \/ UNCHANGED <<phase, mem, disk, tracked>>
         \/ phase' = "down" /\ mem' = disk /\ tracked' = NoTracked /\ disk' = disk
  PROVE  Basics'
<1>1. /\ at' = "idle" /\ todo' = {} /\ results' = <<>> /\ size' = 0 /\ mtime' = 0
      /\ UNCHANGED <<dir, file, written, sent>> /\ restarts' \in Nat /\ DOMAIN results' = {}
      /\ disk' = disk /\ mem' \in {mem, disk}
      /\ phase' = "down" => tracked' = NoTracked
      /\ \/ phase' = phase /\ tracked' = tracked /\ mem' = mem
         \/ phase' = "down" /\ tracked' = NoTracked
  BY DEF Idle, Basics, Poised
<1>2. TypeOK'
  <2>1. NoTracked \in [Paths -> Tracked \cup {None}]
    BY DEF NoTracked
  <2>2. results' \in Seq(TailReadResult)
    BY <1>1
  <2>3. QED
    BY <1>1, <2>1, <2>2 DEF Basics, TypeOK
<1>3. Files'
  BY <1>1 DEF Basics, Files, FileShape, Unique, OnePath, Linked
<1>4. Remembered'
  <2>1. \A i \in Inodes : Cursors(i)' \subseteq Cursors(i)
    BY <1>1 DEF Cursors
  <2>2. \A p \in Paths : tracked'[p] # None => tracked'[p] = tracked[p] /\ tracked[p] # None
    BY <1>1 DEF NoTracked
  <2>3. QED
    BY <1>1, <2>1, <2>2 DEF Basics, Remembered, Begun
<1>5. Poised'
  <2>1. size' \in 0 .. 2 * MaxLines /\ mtime' \in 0 .. written'
    BY <1>1, Constants DEF Basics, Remembered
  <2>2. QED
    BY <1>1, <2>1 DEF Poised
<1>6. QED
  BY <1>2, <1>3, <1>4, <1>5 DEF Basics

LEMMA SavedBasics ==
  ASSUME Basics, Flush \/ Cancel \/ UNCHANGED vars
  PROVE  Basics'
<1>1. /\ UNCHANGED <<dir, file, written, restarts, mem, tracked, at, todo, path, size, mtime,
                     results, sent>>
      /\ disk' \in {mem, disk} /\ (phase' = phase \/ (phase = "up" /\ phase' = "cancelled"))
  BY DEF Flush, Cancel, vars, diskVars, bounds, processVars, passVars, fates
<1>2. TypeOK'
  BY <1>1 DEF Basics, TypeOK
<1>3. Files'
  BY <1>1 DEF Basics, Files, FileShape, Unique, OnePath, Linked
<1>4. Remembered'
  <2>1. \A i \in Inodes : Cursors(i)' \subseteq Cursors(i)
    BY <1>1 DEF Cursors
  <2>2. QED
    BY <1>1, <2>1 DEF Basics, Remembered, Begun
<1>5. Poised'
  BY <1>1 DEF Basics, Poised
<1>6. QED
  BY <1>2, <1>3, <1>4, <1>5 DEF Basics

LEMMA ExitFacts ==
  ASSUME Basics, Crash \/ Stop
  PROVE  /\ Idle /\ restarts' = restarts + 1 /\ restarts \in Nat
         /\ phase' = "down" /\ mem' = disk /\ tracked' = NoTracked
         /\ UNCHANGED <<dir, file, written, disk, sent, skipped, raced, shuffled, blind>>
  BY DEF Crash, Stop, Exit, diskVars, fates, Basics, Remembered

LEMMA AbandonFacts ==
  ASSUME Basics, Abandon
  PROVE  /\ Idle /\ phase = "cancelled"
         /\ UNCHANGED <<dir, file, written, restarts, phase, mem, disk, tracked, sent, skipped,
                        raced, shuffled, blind>>
  BY DEF Abandon, diskVars, bounds, processVars, fates

LEMMA BasicsStep ==
  ASSUME Basics, [Next]_vars
  PROVE  Basics'
<1>1. CASE Environment
  BY <1>1, EnvironmentStep, GrowthBasics, DisplacementBasics
<1>2. CASE Start \/ Rediscover
  BY <1>2, DiscoverBasics
<1>3. CASE StartTail
  BY <1>3, StartTailBasics
<1>4. ASSUME NEW p \in Paths, Stat(p) PROVE Basics'
  BY <1>4, StatBasics
<1>5. CASE Fingerprint
  BY <1>5, FingerprintBasics
<1>6. CASE Read
  BY <1>6, ReadBasics
<1>7. CASE SendLine
  BY <1>7, SendLineBasics
<1>8. CASE SetCursor
  BY <1>8, SetCursorBasics
<1>9. CASE Abandon
  BY <1>9, AbandonFacts, IdleBasics DEF Basics, Remembered
<1>10. CASE Flush \/ Cancel \/ UNCHANGED vars
  BY <1>10, SavedBasics
<1>11. CASE Crash \/ Stop
  BY <1>11, ExitFacts, IdleBasics
<1>12. QED
  BY <1>1, <1>2, <1>3, <1>4, <1>5, <1>6, <1>7, <1>8, <1>9, <1>10, <1>11 DEF Next, Poll

LEMMA BasicsInit ==
  ASSUME Init
  PROVE  Basics
<1>1. /\ Unlinked \in File /\ S!Default \in S!StateFile
      /\ NoTracked \in [Paths -> Tracked \cup {None}]
      /\ <<>> \in Seq(TailReadResult) /\ DOMAIN <<>> = {}
  <2>1. Unlinked \in File
    BY Constants, EmptySeq DEF Unlinked, File
  <2>2. S!Default \in S!StateFile
    BY DEF S!Default, S!StateFile
  <2>3. QED
    BY <2>1, <2>2 DEF NoTracked
<1>2. TypeOK
  BY <1>1 DEF Init, TypeOK
<1>3. \A i \in Inodes : FileShape(i) /\ file[i].ids = <<>>
  BY <1>1 DEF Init, FileShape, Unlinked
<1>4. Files
  BY <1>1, <1>3 DEF Init, Files, Unique, OnePath
<1>5. Remembered
  <2>1. \A i \in Inodes : Cursors(i) = {}
    BY DEF Init, Cursors, S!Default
  <2>2. QED
    BY <1>1, <2>1, Constants DEF Init, Remembered, NoTracked
<1>6. Poised
  BY Constants DEF Init, Poised
<1>7. QED
  BY <1>2, <1>4, <1>5, <1>6 DEF Basics

-----------------------------------------------------------------------------
(* The honesty of the cursors, step by step.                               *)

LEMMA FilesHonest ==
  ASSUME Basics, Basics', Honest, Held',
         UNCHANGED <<mem, disk, tracked, results, phase, at, sent, skipped>>,
         \A i \in Inodes : Kept(i) \/ file'[i] = file[i] \/ Cleared(i),
         \A p \in Paths : tracked[p] # None /\ tracked[p].hash = None /\ tracked[p].offset > 0
           => LET i == tracked[p].identity
              IN  Kept(i) \/ file'[i] = file[i] \/ file[i].size = 0
  PROVE  Honest'
<1>1. TypeOK /\ TypeOK' /\ Files /\ written \in 0 .. MaxLines
  BY DEF Basics, Remembered
<1>2. ASSUME NEW i \in Inodes, NEW o \in Nat, NEW h \in Heads \cup {None}, Begun(h), NEW H,
             Sound(i, o, h, H)
      PROVE  Sound(i, o, h, H)'
  BY <1>1, <1>2, SoundKept
<1>3. Handled' = Handled
  BY DEF Handled
<1>4. CursorsSound'
  <2>1. SUFFICES ASSUME NEW i \in Inodes, NEW c \in Cursors(i)
                 PROVE  c.hash # None /\ Sound(i, c.offset, c.hash, Handled)'
    BY DEF CursorsSound, Cursors
  <2>2. PICK o, h, H : o = c.offset /\ h = c.hash /\ H = Handled
    OBVIOUS
  <2>3. o \in Nat /\ h \in Heads \cup {None} /\ Begun(h) /\ h # None /\ Sound(i, o, h, H)
    BY <2>2, <1>1, CursorType DEF Honest, CursorsSound, Basics, Remembered
  <2>4. Sound(i, o, h, H)'
    BY <2>3, <1>2
  <2>5. QED
    BY <2>2, <2>3, <2>4, <1>3 DEF Sound, Covered, Matches
<1>5. ResultsSound'
  <2>1. SUFFICES ASSUME phase = "up" \/ at = "send", NEW n \in DOMAIN results
                 PROVE  /\ results[n].hash # None
                        /\ Sound(results[n].identity, results[n].offset, results[n].hash,
                                 Handled \cup Waiting(results, n))'
    BY DEF ResultsSound
  <2>2. PICK i, o, h, H : /\ i = results[n].identity /\ o = results[n].offset
                          /\ h = results[n].hash /\ H = Handled \cup Waiting(results, n)
    OBVIOUS
  <2>3. i \in Inodes /\ o \in Nat /\ h \in Heads \cup {None} /\ Begun(h)
    BY <2>2, <1>1, ResultType DEF Basics, Remembered
  <2>4. h # None /\ Sound(i, o, h, H)
    BY <2>1, <2>2 DEF Honest, ResultsSound
  <2>5. Sound(i, o, h, H)'
    BY <2>3, <2>4, <1>2
  <2>6. QED
    BY <2>2, <2>4, <2>5, <1>3 DEF Sound, Covered, Matches, Waiting
<1>6. EntriesSound'
  <2>1. SUFFICES ASSUME phase = "up", NEW p \in Paths, tracked[p] # None
                 PROVE  EntrySound(tracked[p],
                                   Handled \cup Waiting(results, Len(results)))'
    BY DEF EntriesSound
  <2>2. PICK e, i, o, h, H : /\ e = tracked[p] /\ i = e.identity /\ o = e.offset /\ h = e.hash
                             /\ H = Handled \cup Waiting(results, Len(results))
    OBVIOUS
  <2>3. i \in Inodes /\ o \in Nat /\ h \in Heads \cup {None} /\ Begun(h)
    BY <2>1, <2>2, <1>1, TrackedType DEF Basics, Remembered
  <2>4. EntrySound(e, H)
    BY <2>1, <2>2 DEF Honest, EntriesSound
  <2>5. EntrySound(e, H)'
    <3>1. CASE h = None
      <4>1. SUFFICES ASSUME o > 0 PROVE Covered(i, o, H)'
        BY <2>2, <3>1 DEF EntrySound
      <4>2. Covered(i, o, H)
        BY <2>2, <2>4, <3>1, <4>1 DEF EntrySound
      <4>3. file[i].size # 0
        BY <4>1, <4>2, <2>3, <1>1, FileType DEF Covered
      <4>4. Kept(i) \/ file'[i] = file[i]
        BY <4>1, <4>3, <3>1, <2>1, <2>2
      <4>5. CASE file'[i] = file[i]
        BY <4>2, <4>5 DEF Covered
      <4>6. CASE Kept(i)
        BY <4>2, <4>6, <2>3, <1>1, CoveredKept
      <4>7. QED
        BY <4>4, <4>5, <4>6
    <3>2. CASE h # None
      <4>1. Sound(i, o, h, H)
        BY <2>2, <2>4, <3>2 DEF EntrySound
      <4>2. Sound(i, o, h, H)'
        BY <4>1, <2>3, <1>2
      <4>3. QED
        BY <2>2, <3>2, <4>2 DEF EntrySound, Sound, Covered, Matches
    <3>3. QED
      BY <3>1, <3>2
  <2>6. tracked'[p] = e /\ H = (Handled \cup Waiting(results, Len(results)))'
    BY <2>2, <1>3 DEF Waiting
  <2>7. QED
    BY <2>5, <2>6 DEF EntrySound, Sound, Covered, Matches
<1>7. QED
  BY <1>4, <1>5, <1>6 DEF Honest

LEMMA EnvironmentHonest ==
  ASSUME Basics, Basics', Honest, Environment, ~raced', ~blind'
  PROVE  Honest'
<1>1. CASE Growth
  <2>1. /\ UNCHANGED <<mem, disk, tracked, results, phase, at, sent, skipped, dir, path>>
        /\ \A i \in Inodes : Kept(i)
    BY <1>1 DEF Growth, processVars, passVars, fates
  <2>2. Held'
    BY <2>1 DEF Honest, Held
  <2>3. \A p \in Paths : tracked[p] # None => Kept(tracked[p].identity)
    BY <2>1, TrackedType DEF Basics
  <2>4. QED
    BY <2>1, <2>2, <2>3, FilesHonest
<1>2. CASE Displacement
  <2>1. /\ UNCHANGED <<mem, disk, tracked, results, phase, at, sent, skipped, path>>
        /\ \A i \in Inodes : file'[i] = file[i] \/ Cleared(i)
        /\ \A p \in Paths : tracked[p] # None /\ tracked[p].hash = None /\ tracked[p].offset > 0
             => LET i == tracked[p].identity IN file'[i] = file[i] \/ file[i].size = 0
    BY <1>2 DEF Displacement, processVars, passVars
  <2>2. Held'
    <3>1. ASSUME at \in {"head", "read"} PROVE dir'[path] = tracked[path].identity
      <4>1. dir[path] = tracked[path].identity /\ path \in Paths /\ tracked[path] # None
        BY <3>1 DEF Honest, Held, Basics, TypeOK
      <4>2. dir[path] # None
        BY <4>1, TrackedType, Constants DEF Basics
      <4>3. QED
        BY <4>1, <4>2, <3>1, <1>2 DEF Displacement
    <3>2. QED
      BY <3>1, <2>1 DEF Honest, Held
  <2>3. QED
    BY <2>1, <2>2, FilesHonest
<1>3. QED
  BY <1>1, <1>2, EnvironmentStep

LEMMA StaticHonest ==
  ASSUME Honest, StaticPoll
  PROVE  /\ CursorsSound' /\ Handled' = Handled /\ UNCHANGED <<file, dir, phase>>
         /\ \A i, o, h, H : Sound(i, o, h, H) <=> Sound(i, o, h, H)'
         /\ \A e, H : EntrySound(e, H) <=> EntrySound(e, H)'
<1>1. UNCHANGED <<file, dir, phase, mem, disk, sent, skipped>>
  BY DEF StaticPoll, diskVars, processVars, fates
<1>2. Handled' = Handled
  BY <1>1 DEF Handled
<1>3. \A i, o, h, H : Sound(i, o, h, H) <=> Sound(i, o, h, H)'
  BY <1>1 DEF Sound, Covered, Matches
<1>4. \A e, H : EntrySound(e, H) <=> EntrySound(e, H)'
  BY <1>1 DEF EntrySound, Sound, Covered, Matches
<1>5. CursorsSound'
  BY <1>1, <1>2 DEF Honest, CursorsSound, Sound, Covered, Matches, Cursors
<1>6. QED
  BY <1>1, <1>2, <1>3, <1>4, <1>5

LEMMA LooksHonest ==
  ASSUME Basics, Honest, NEW p \in todo, at \in {"stat", "head", "read"}, NEW e,
         NEW next \in {"head", "read"}, NEW sz, NEW mt, Looks(p, e, next, sz, mt),
         dir[p] = e.identity, next = "read" => e.hash # None, e # None,
         phase = "up" => EntrySound(e, Handled \cup Waiting(results, Len(results)))
  PROVE  Honest'
<1>1. /\ tracked' = [tracked EXCEPT ![p] = e] /\ StaticPoll
      /\ at' = next /\ path' = p /\ results' = results
  BY DEF Looks, Looking
<1>2. p \in Paths /\ tracked \in [Paths -> Tracked \cup {None}]
  BY DEF Basics, TypeOK
<1>3. \A q \in Paths : tracked'[q] = IF q = p THEN e ELSE tracked[q]
  BY <1>1, <1>2
<1>4. /\ CursorsSound' /\ Handled' = Handled /\ UNCHANGED <<file, dir, phase>>
      /\ \A i, o, h, H : Sound(i, o, h, H) <=> Sound(i, o, h, H)'
      /\ \A f, H : EntrySound(f, H) <=> EntrySound(f, H)'
  BY <1>1, StaticHonest
<1>5. ResultsSound'
  <2>1. SUFFICES ASSUME phase = "up", NEW n \in DOMAIN results
                 PROVE  (/\ results[n].hash # None
                         /\ Sound(results[n].identity, results[n].offset, results[n].hash,
                                  Handled \cup Waiting(results, n)))'
    BY <1>1, <1>4 DEF ResultsSound
  <2>2. PICK r, H : r = results[n] /\ H = Handled \cup Waiting(results, n)
    OBVIOUS
  <2>3. r.hash # None /\ Sound(r.identity, r.offset, r.hash, H)
    BY <2>1, <2>2 DEF Honest, ResultsSound
  <2>4. Sound(r.identity, r.offset, r.hash, H)'
    BY <2>3, <1>4
  <2>5. results'[n] = r /\ H = (Handled \cup Waiting(results, n))'
    BY <2>2, <1>1, <1>4 DEF Waiting
  <2>6. QED
    BY <2>3, <2>4, <2>5 DEF Sound, Covered, Matches
<1>6. EntriesSound'
  <2>1. SUFFICES ASSUME phase = "up", NEW q \in Paths, tracked'[q] # None
                 PROVE  EntrySound(tracked[q],
                                   Handled \cup Waiting(results, Len(results)))'
    BY <1>4 DEF EntriesSound
  <2>2. PICK f, H : f = tracked'[q] /\ H = Handled \cup Waiting(results, Len(results))
    OBVIOUS
  <2>3. EntrySound(f, H)
    BY <2>1, <2>2, <1>3 DEF Honest, EntriesSound
  <2>4. EntrySound(f, H)'
    BY <2>3, <1>4
  <2>5. H = (Handled \cup Waiting(results, Len(results)))'
    BY <2>2, <1>1, <1>4 DEF Waiting
  <2>6. QED
    BY <2>2, <2>4, <2>5 DEF EntrySound, Sound, Covered, Matches
<1>7. Held'
  BY <1>1, <1>2, <1>3, <1>4 DEF Held
<1>8. QED
  BY <1>4, <1>5, <1>6, <1>7 DEF Honest

LEMMA LeavesHonest ==
  ASSUME Basics, Honest, NEW p \in todo, at \in {"stat", "head", "read"},
         NEW e, tracked' = [tracked EXCEPT ![p] = e], StaticPoll, NEW rs, Leaves(p, rs),
         phase = "up" =>
           /\ \A n \in DOMAIN rs :
                /\ rs[n].hash # None
                /\ Sound(rs[n].identity, rs[n].offset, rs[n].hash, Handled \cup Waiting(rs, n))
           /\ Waiting(results, Len(results)) \subseteq Waiting(rs, Len(rs))
           /\ EntrySound(e, Handled \cup Waiting(rs, Len(rs)))
  PROVE  Honest'
<1>1. p \in Paths /\ tracked \in [Paths -> Tracked \cup {None}]
      /\ phase \in {"up", "cancelled"}
  BY DEF Basics, TypeOK, Poised
<1>2. \A q \in Paths : tracked'[q] = IF q = p THEN e ELSE tracked[q]
  BY <1>1
<1>3. /\ CursorsSound' /\ Handled' = Handled /\ UNCHANGED <<file, dir, phase>>
      /\ \A i, o, h, H : Sound(i, o, h, H) <=> Sound(i, o, h, H)'
      /\ \A f, H : EntrySound(f, H) <=> EntrySound(f, H)'
  BY StaticHonest
<1>4. phase = "up" => results' = rs
  BY DEF Leaves
<1>5. ResultsSound'
  <2>1. SUFFICES ASSUME phase = "up", NEW n \in DOMAIN rs
                 PROVE  (/\ results[n].hash # None
                         /\ Sound(results[n].identity, results[n].offset, results[n].hash,
                                  Handled \cup Waiting(results, n)))'
    BY <1>1, <1>3, <1>4 DEF ResultsSound, Leaves
  <2>2. PICK r, H : r = rs[n] /\ H = Handled \cup Waiting(rs, n)
    OBVIOUS
  <2>3. r.hash # None /\ Sound(r.identity, r.offset, r.hash, H)
    BY <2>1, <2>2
  <2>4. Sound(r.identity, r.offset, r.hash, H)'
    BY <2>3, <1>3
  <2>5. results'[n] = r /\ H = (Handled \cup Waiting(results, n))'
    BY <2>1, <2>2, <1>3, <1>4 DEF Waiting
  <2>6. QED
    BY <2>3, <2>4, <2>5 DEF Sound, Covered, Matches
<1>6. EntriesSound'
  <2>1. SUFFICES ASSUME phase = "up", NEW q \in Paths, tracked'[q] # None
                 PROVE  EntrySound(tracked[q],
                                   Handled \cup Waiting(results, Len(results)))'
    BY <1>3 DEF EntriesSound
  <2>2. PICK f, G, H : /\ f = tracked'[q] /\ H = Handled \cup Waiting(rs, Len(rs))
                       /\ G = Handled \cup Waiting(results, Len(results))
    OBVIOUS
  <2>3. G \subseteq H
    BY <2>1, <2>2
  <2>4. EntrySound(f, H)
    <3>1. CASE q = p
      BY <3>1, <2>1, <2>2, <1>2
    <3>2. CASE q # p
      <4>1. EntrySound(f, G)
        BY <3>2, <2>1, <2>2, <1>2 DEF Honest, EntriesSound
      <4>2. QED
        BY <4>1, <2>3, EntryMonotonic
    <3>3. QED
      BY <3>1, <3>2
  <2>5. EntrySound(f, H)'
    BY <2>4, <1>3
  <2>6. H = (Handled \cup Waiting(results, Len(results)))'
    BY <2>1, <2>2, <1>3, <1>4 DEF Waiting
  <2>7. QED
    BY <2>2, <2>5, <2>6 DEF EntrySound, Sound, Covered, Matches
<1>7. Held'
  BY DEF Held, Leaves
<1>8. QED
  BY <1>3, <1>5, <1>6, <1>7 DEF Honest

LEMMA PassesHonest ==
  ASSUME Basics, Honest, NEW p \in todo, at \in {"stat", "head", "read"}, Passes(p)
  PROVE  Honest'
<1>1. Leaves(p, results) /\ tracked' = tracked /\ StaticPoll
  BY DoneLeaves DEF Passes
<1>2. tracked \in [Paths -> Tracked \cup {None}] /\ p \in Paths /\ tracked[p] # None
  BY DEF Basics, TypeOK, Poised
<1>3. PICK e : e = tracked[p]
  OBVIOUS
<1>4. tracked' = [tracked EXCEPT ![p] = e]
  BY <1>1, <1>2, <1>3
<1>5. phase = "up" => EntrySound(e, Handled \cup Waiting(results, Len(results)))
  BY <1>2, <1>3 DEF Honest, EntriesSound
<1>6. phase = "up" => \A n \in DOMAIN results :
        /\ results[n].hash # None
        /\ Sound(results[n].identity, results[n].offset, results[n].hash,
                 Handled \cup Waiting(results, n))
  BY DEF Honest, ResultsSound
<1>7. QED
  BY <1>1, <1>4, <1>5, <1>6, LeavesHonest

(* The lines of a result that are whole.                                   *)
Whole(r) == {l \in 1 .. MaxLines : \E b \in DOMAIN r.lines :
               r.lines[b] = [id |-> l, whole |-> TRUE]}

LEMMA AppendedWaiting ==
  ASSUME TypeOK, NEW r, NEW rs, IsAppended(rs, r)
  PROVE  /\ \A n \in DOMAIN results : Waiting(rs, n) = Waiting(results, n)
         /\ Waiting(rs, Len(rs)) = Waiting(results, Len(results)) \cup Whole(r)
<1>1. /\ DOMAIN results = 1 .. Len(results) /\ Len(results) \in Nat
      /\ Len(rs) = Len(results) + 1 /\ DOMAIN rs = 1 .. Len(results) + 1
      /\ rs[Len(results) + 1] = r
      /\ \A n \in DOMAIN results : n \in DOMAIN rs /\ rs[n] = results[n]
  BY ResultType DEF IsAppended
<1>2. ASSUME NEW n \in DOMAIN results PROVE Waiting(rs, n) = Waiting(results, n)
  <2>1. \A a : a \in DOMAIN rs /\ a <= n <=> a \in DOMAIN results /\ a <= n
    BY <1>1
  <2>2. QED
    BY <2>1, <1>1 DEF Waiting
<1>3. \A a : a \in DOMAIN rs /\ a <= Len(rs) <=> a \in DOMAIN results \/ a = Len(results) + 1
  BY <1>1
<1>4. \A a \in DOMAIN results : a <= Len(results)
  BY <1>1
<1>5. Waiting(rs, Len(rs)) = Waiting(results, Len(results)) \cup Whole(r)
  <2>1. ASSUME NEW l \in 1 .. MaxLines
        PROVE  l \in Waiting(rs, Len(rs)) <=>
                 l \in Waiting(results, Len(results)) \/ l \in Whole(r)
    BY <1>1, <1>3, <1>4 DEF Waiting, Whole
  <2>2. QED
    BY <2>1 DEF Waiting, Whole
<1>6. QED
  BY <1>2, <1>5

LEMMA ListsHonest ==
  ASSUME Basics, Honest, NEW p \in todo, at \in {"stat", "head", "read"}, NEW e,
         NEW r \in TailReadResult, Lists(p, e, r),
         r.identity = e.identity, r.offset = e.offset, r.hash = e.hash,
         phase = "up" =>
           e.hash # None /\ EntrySound(e, Handled \cup Waiting(results, Len(results)) \cup Whole(r))
  PROVE  Honest'
<1>1. PICK rs : rs = Append(results, r)
  OBVIOUS
<1>2. IsAppended(rs, r)
  BY <1>1, AppendedFacts DEF Basics
<1>3. Leaves(p, rs) /\ tracked' = [tracked EXCEPT ![p] = e] /\ StaticPoll
  BY <1>1, DoneLeaves DEF Lists
<1>4. /\ \A n \in DOMAIN results : Waiting(rs, n) = Waiting(results, n) /\ rs[n] = results[n]
      /\ Waiting(rs, Len(rs)) = Waiting(results, Len(results)) \cup Whole(r)
      /\ Len(rs) = Len(results) + 1 /\ rs[Len(results) + 1] = r
      /\ \A n \in DOMAIN rs : n \in DOMAIN results \/ n = Len(results) + 1
  BY <1>2, AppendedWaiting DEF Basics, IsAppended
<1>5. ASSUME phase = "up"
      PROVE  /\ \A n \in DOMAIN rs :
                  /\ rs[n].hash # None
                  /\ Sound(rs[n].identity, rs[n].offset, rs[n].hash,
                           Handled \cup Waiting(rs, n))
             /\ Waiting(results, Len(results)) \subseteq Waiting(rs, Len(rs))
             /\ EntrySound(e, Handled \cup Waiting(rs, Len(rs)))
  <2>1. PICK H : H = Handled \cup Waiting(rs, Len(rs))
    OBVIOUS
  <2>2. H = Handled \cup Waiting(results, Len(results)) \cup Whole(r)
    BY <2>1, <1>4
  <2>3. e.hash # None /\ EntrySound(e, H)
    BY <2>2, <1>5
  <2>4. Sound(e.identity, e.offset, e.hash, H)
    BY <2>3 DEF EntrySound
  <2>5. ASSUME NEW n \in DOMAIN results
        PROVE  /\ rs[n].hash # None
               /\ Sound(rs[n].identity, rs[n].offset, rs[n].hash, Handled \cup Waiting(rs, n))
    BY <2>5, <1>4, <1>5 DEF Honest, ResultsSound
  <2>6. r.hash # None /\ Sound(r.identity, r.offset, r.hash, H)
    BY <2>3, <2>4
  <2>7. QED
    BY <2>1, <2>3, <2>5, <2>6, <1>4
<1>6. QED
  BY <1>3, <1>5, LeavesHonest

(* With an entry in order, a result without lines is.                      *)
LEMMA ListsNothingHonest ==
  ASSUME Basics, Honest, NEW p \in todo, at \in {"stat", "head", "read"}, NEW e,
         Remembers(e), Lists(p, e, ResultOf(e)),
         phase = "up" =>
           e.hash # None /\ EntrySound(e, Handled \cup Waiting(results, Len(results)))
  PROVE  Honest'
<1>1. PICK r : r = ResultOf(e)
  OBVIOUS
<1>2. /\ r \in TailReadResult /\ r.identity = e.identity /\ r.offset = e.offset
      /\ r.hash = e.hash
  BY <1>1, ResultOfEntry DEF Sent
<1>3. ASSUME phase = "up"
      PROVE  e.hash # None
             /\ EntrySound(e, Handled \cup Waiting(results, Len(results)) \cup Whole(r))
  BY <1>3, EntryMonotonic
<1>4. Lists(p, e, r)
  BY <1>1
<1>5. QED
  BY <1>2, <1>3, <1>4, ListsHonest

LEMMA CursorEntrySound ==
  ASSUME Basics, Honest, NEW i \in Inodes, NEW start \in 0 .. 2 * MaxLines,
         NEW e, e = FromCursor(i, start), NEW H, Handled \subseteq H,
         start > 0 => Covered(i, start, H)
  PROVE  EntrySound(e, H)
<1>1. CASE mem.files[i] = None
  <2>1. e.offset = start /\ e.hash = None /\ e.identity = i
    BY <1>1, FromCursorFacts
  <2>2. QED
    BY <2>1 DEF EntrySound
<1>2. CASE mem.files[i] # None
  <2>1. PICK c : c = mem.files[i]
    OBVIOUS
  <2>2. c \in Cursors(i) /\ e.offset = c.offset /\ e.hash = c.hash /\ e.identity = i
    BY <1>2, <2>1, FromCursorFacts
  <2>3. c.hash # None /\ Sound(i, c.offset, c.hash, Handled)
    BY <2>2 DEF Honest, CursorsSound
  <2>4. Sound(i, c.offset, c.hash, H)
    BY <2>3, SoundMonotonic
  <2>5. QED
    BY <2>2, <2>3, <2>4 DEF EntrySound
<1>3. QED
  BY <1>1, <1>2

LEMMA StatHonest ==
  ASSUME Basics, Honest, NEW p \in Paths, Stat(p)
  PROVE  Honest'
<1>1. p \in todo /\ at = "stat" /\ tracked[p] # None /\ phase = "up"
  BY StatVisits
<1>2. CASE dir[p] = None
  BY <1>1, <1>2, StatVisits, PassesHonest
<1>3. CASE dir[p] # None
  <2>1. PICK f, b, e : f = file[dir[p]] /\ b = Base(p) /\ e = Truncated(b, f.size)
    OBVIOUS
  <2>2. \/ Looks(p, e, "head", f.size, f.mtime)
        \/ ~FingerprintDue(e, f.size, f.mtime) /\ Looks(p, e, "read", f.size, f.mtime)
        \/ ~FingerprintDue(e, f.size, f.mtime) /\ Lists(p, e, ResultOf(e))
    BY <2>1, <1>3, StatVisits
  <2>3. dir[p] \in Inodes /\ Remembers(b) /\ b.identity = dir[p]
    BY <1>1, <1>3, <2>1, BaseFacts
  <2>4. f.size \in Nat
    BY <2>1, <2>3, SizeType
  <2>5. /\ Remembers(e) /\ e.identity = dir[p] /\ e.hash = b.hash
        /\ (e.offset = 0 \/ e.offset = b.offset)
    <3>1. PICK sz : sz = f.size
      OBVIOUS
    <3>2. sz \in Nat /\ e = Truncated(b, sz)
      BY <2>1, <2>4, <3>1
    <3>3. /\ Remembers(e) /\ e.identity = b.identity /\ e.hash = b.hash
          /\ e.offset = IF sz < b.offset THEN 0 ELSE b.offset
      BY <2>3, <3>2, TruncatedFacts
    <3>4. QED
      BY <2>3, <3>3
  <2>6. PICK H : H = Handled \cup Waiting(results, Len(results))
    OBVIOUS
  <2>7. EntrySound(b, H)
    <3>1. CASE tracked[p].identity = dir[p]
      BY <3>1, <2>1, <2>6, <1>1 DEF Base, Honest, EntriesSound
    <3>2. CASE tracked[p].identity # dir[p]
      <4>1. b = FromCursor(dir[p], 0) /\ 0 \in 0 .. 2 * MaxLines
        BY <3>2, <2>1, Constants DEF Base
      <4>2. Handled \subseteq H
        BY <2>6
      <4>3. QED
        BY <4>1, <4>2, <2>3, CursorEntrySound
    <3>3. QED
      BY <3>1, <3>2
  <2>8. EntrySound(e, H)
    <3>1. CASE e.offset = b.offset
      BY <3>1, <2>3, <2>5, <2>7 DEF EntrySound
    <3>2. CASE e.offset = 0
      BY <3>2, <2>3, <2>5, <2>7, <2>1, <2>4 DEF EntrySound, Sound, Covered
    <3>3. QED
      BY <3>1, <3>2, <2>5
  <2>9. ~FingerprintDue(e, f.size, f.mtime) => e.hash # None
    BY DEF FingerprintDue
  <2>10. e # None
    BY <2>5, Constants DEF Remembers
  <2>11. ASSUME NEW next \in {"head", "read"}, Looks(p, e, next, f.size, f.mtime),
                next = "read" => e.hash # None
         PROVE  Honest'
    BY <2>11, <2>5, <2>6, <2>8, <2>10, <1>1, LooksHonest
  <2>12. ASSUME e.hash # None, Lists(p, e, ResultOf(e)) PROVE Honest'
    BY <2>12, <2>5, <2>6, <2>8, <1>1, ListsNothingHonest
  <2>13. QED
    BY <2>2, <2>9, <2>11, <2>12
<1>4. QED
  BY <1>2, <1>3

LEMMA FingerprintHonest ==
  ASSUME Basics, Honest, Fingerprint
  PROVE  Honest'
<1>1. PICK b, e, i : b = tracked[path] /\ e = Seen /\ i = dir[path]
  OBVIOUS
<1>2. /\ path \in todo /\ path \in Paths /\ at = "head" /\ b # None
      /\ (Looks(path, e, "read", size, mtime) \/ Lists(path, e, ResultOf(e)))
  BY <1>1, FingerprintVisits
<1>3. i = b.identity /\ i \in Inodes /\ i # None
  BY <1>1, <1>2, TrackedType, Constants DEF Honest, Held, Basics
<1>4. PICK h : h = FirstLine(file[i])
  OBVIOUS
<1>5. /\ Curr = h /\ h \in Heads /\ h # None
      /\ Matches(h, i) => file[i].size >= 2
  BY <1>1, <1>3, <1>4, FirstLineFacts DEF Curr
<1>6. /\ Remembers(e) /\ e.identity = i /\ e.hash = h
      /\ e.offset = IF Rewritten THEN 0 ELSE b.offset
      /\ b.offset \in Nat
  BY <1>1, <1>2, <1>3, <1>5, SeenFacts, TrackedType DEF Basics
<1>7. ASSUME phase = "up"
      PROVE  EntrySound(e, Handled \cup Waiting(results, Len(results)))
  <2>1. PICK H : H = Handled \cup Waiting(results, Len(results))
    OBVIOUS
  <2>2. EntrySound(b, H)
    BY <2>1, <1>1, <1>2, <1>7 DEF Honest, EntriesSound
  <2>3. SUFFICES ASSUME Matches(h, i) PROVE file[i].size >= 2 /\ Covered(i, e.offset, H)
    BY <2>1, <1>5, <1>6 DEF EntrySound, Sound
  <2>4. file[i].size >= 2 /\ file[i].size \in Nat
    BY <2>3, <1>3, <1>5, SizeType
  <2>5. CASE e.offset = 0
    BY <2>4, <2>5 DEF Covered
  <2>6. CASE e.offset # 0
    <3>1. e.offset = b.offset /\ b.offset > 0 /\ (b.hash = None \/ b.hash = h)
      BY <2>6, <1>1, <1>5, <1>6 DEF Rewritten
    <3>2. Covered(i, b.offset, H)
      BY <3>1, <2>2, <2>3, <1>3, <1>5 DEF EntrySound, Sound
    <3>3. QED
      BY <3>1, <3>2, <2>4
  <2>7. QED
    BY <2>5, <2>6
<1>8. e # None /\ e.hash # None
  BY <1>5, <1>6, Constants DEF Remembers
<1>9. CASE Looks(path, e, "read", size, mtime)
  BY <1>1, <1>2, <1>6, <1>7, <1>8, <1>9, LooksHonest
<1>10. CASE Lists(path, e, ResultOf(e))
  BY <1>2, <1>6, <1>7, <1>8, <1>10, ListsNothingHonest
<1>11. QED
  BY <1>2, <1>9, <1>10

LEMMA ReadHonest ==
  ASSUME Basics, Honest, Read
  PROVE  Honest'
<1>1. path \in todo /\ path \in Paths /\ at = "read" /\ tracked[path] # None
  BY ReadVisits
<1>2. PICK b, i : b = tracked[path] /\ i = dir[path]
  OBVIOUS
<1>3. PICK n, ls : n = NewOffset(file[i], b.offset) /\ ls = NewLines(file[i], b.offset)
  OBVIOUS
<1>4. PICK e : e = [b EXCEPT !.offset = n]
  OBVIOUS
<1>5. PICK r : r = Result(e, ls)
  OBVIOUS
<1>6. i = b.identity /\ i # None /\ b.hash # None
  BY <1>1, <1>2, TrackedType, Constants DEF Honest, Held, Basics
<1>7. /\ i \in Inodes /\ Remembers(b) /\ b.offset \in 0 .. 2 * MaxLines
      /\ Remembers(e) /\ e.identity = i /\ e.offset = n /\ e.hash = b.hash
      /\ Sent(r) /\ r.identity = i /\ r.offset = n /\ r.hash = b.hash
      /\ r.lines = ls
      /\ Lists(path, e, r)
  BY <1>2, <1>3, <1>4, <1>5, <1>6, ReadLists
<1>8. ASSUME phase = "up"
      PROVE  EntrySound(e, Handled \cup Waiting(results, Len(results)) \cup Whole(r))
  <2>1. PICK G, H, o : /\ G = Handled \cup Waiting(results, Len(results))
                       /\ H = G \cup Whole(r) /\ o = b.offset
    OBVIOUS
  <2>2. EntrySound(b, G)
    BY <2>1, <1>1, <1>2, <1>8 DEF Honest, EntriesSound
  <2>3. SUFFICES ASSUME Matches(b.hash, i) PROVE file[i].size >= 2 /\ Covered(i, n, H)
    BY <2>1, <1>6, <1>7 DEF EntrySound, Sound
  <2>4. file[i].size >= 2 /\ Covered(i, o, G)
    BY <2>1, <2>2, <2>3, <1>6 DEF EntrySound, Sound
  <2>5. CASE n = o
    BY <2>1, <2>4, <2>5 DEF Covered
  <2>6. CASE n # o
    <3>1. /\ n \in Nat /\ o \in Nat /\ o <= n /\ n = 2 * (n \div 2) /\ n <= file[i].size
          /\ DOMAIN ls = 1 .. n \div 2 - o \div 2
          /\ \A m \in DOMAIN ls :
              /\ o \div 2 + m \in DOMAIN file[i].ids
              /\ ls[m] = [id |-> file[i].ids[o \div 2 + m],
                         whole |-> o <= 2 * (o \div 2 + m - 1)]
      <4>1. Finds(i, o, n, ls)
        BY <2>1, <1>3, <1>7, ReadFacts
      <4>2. QED
        BY <4>1, <2>6 DEF Finds
    <3>2. PICK y, z, w : y = n \div 2 /\ z = o \div 2 /\ w = (o + 1) \div 2
      OBVIOUS
    <3>3. y \in Nat /\ z \in Nat /\ w \in Nat /\ (n + 1) \div 2 = y
          /\ z <= w /\ o <= 2 * w
      BY <3>1, <3>2
    <3>4. ASSUME NEW k \in 1 .. y PROVE file[i].ids[k] \in H
      <4>1. CASE k <= w
        BY <4>1, <3>2, <2>1, <2>4, <3>3 DEF Covered
      <4>2. CASE k > w
        <5>1. PICK m : m = (k - z)
          OBVIOUS
        <5>2. m \in 1 .. y - z /\ z + m = k /\ o <= 2 * (k - 1)
          <6>1. k \in Nat /\ k <= y /\ k > w /\ y \in Nat /\ z \in Nat /\ w \in Nat
                /\ z <= w /\ o <= 2 * w /\ o \in Nat
            BY <4>2, <3>1, <3>3
          <6>2. m \in 1 .. y - z /\ z + m = k
            BY <6>1, <5>1
          <6>3. o <= 2 * (k - 1)
            BY <6>1
          <6>4. QED
            BY <6>2, <6>3
        <5>3. m \in DOMAIN ls
          BY <5>2, <3>1, <3>2
        <5>4. PICK l : l = file[i].ids[k]
          OBVIOUS
        <5>5. k \in DOMAIN file[i].ids /\ ls[m] = [id |-> l, whole |-> TRUE]
          <6>1. /\ z + m \in DOMAIN file[i].ids
                /\ ls[m] = [id |-> file[i].ids[z + m], whole |-> o <= 2 * (z + m - 1)]
            BY <5>3, <3>1, <3>2
          <6>2. k \in DOMAIN file[i].ids /\ file[i].ids[z + m] = l
            BY <6>1, <5>2, <5>4
          <6>3. (o <= 2 * (z + m - 1)) = TRUE
            <7>1. z + m - 1 = k - 1
              BY <5>1, <3>3
            <7>2. o <= 2 * (z + m - 1)
              BY <7>1, <5>2
            <7>3. QED
              BY <7>2
          <6>4. ls[m] = [id |-> l, whole |-> TRUE]
            BY <6>1, <6>2, <6>3
          <6>5. QED
            BY <6>2, <6>4
        <5>6. l \in 1 .. MaxLines
          BY <5>4, <5>5, <1>7, FileType DEF Basics, LineIds
        <5>7. l \in Whole(r)
          BY <5>3, <5>5, <5>6, <1>7 DEF Whole
        <5>8. QED
          BY <5>4, <5>7, <2>1
      <4>3. QED
        BY <4>1, <4>2, <3>3
    <3>5. QED
      BY <3>1, <3>3, <3>4, <2>4 DEF Covered
  <2>7. QED
    BY <2>5, <2>6
<1>9. r \in TailReadResult
  BY <1>7 DEF Sent
<1>10. QED
  BY <1>1, <1>6, <1>7, <1>8, <1>9, ListsHonest

LEMMA SendLineHonest ==
  ASSUME Basics, Honest, SendLine
  PROVE  Honest'
<1>1. /\ 1 \in DOMAIN results /\ DOMAIN results' = DOMAIN results
      /\ at = "send" /\ UNCHANGED <<dir, file, phase, mem, disk, tracked, at, path, skipped>>
  BY SendFacts DEF SendLine, diskVars, processVars
<1>2. PICK l : l = Head(Unsent)
  OBVIOUS
<1>3. /\ l = results[1].lines[1] /\ sent' = IF l.whole THEN sent \cup {l.id} ELSE sent
      /\ Handled \subseteq Handled'
  BY <1>2, SendFacts DEF SendLine, Handled
<1>4. ASSUME NEW n
      PROVE  Handled \cup Waiting(results, n) \subseteq (Handled \cup Waiting(results, n))'
  <2>1. SUFFICES ASSUME NEW x \in Waiting(results, n), x \notin Handled'
                 PROVE  x \in Waiting(results, n)'
    BY <1>3
  <2>2. PICK a \in DOMAIN results :
          a <= n /\ \E b \in DOMAIN results[a].lines :
                      results[a].lines[b] = [id |-> x, whole |-> TRUE]
    BY <2>1 DEF Waiting
  <2>3. PICK b \in DOMAIN results[a].lines : results[a].lines[b] = [id |-> x, whole |-> TRUE]
    BY <2>2
  <2>4. CASE a # 1
    <3>1. results'[a] = results[a]
      BY <2>4, SendFacts
    <3>2. QED
      BY <3>1, <2>1, <2>2, <2>3, <1>1 DEF Waiting
  <2>5. CASE a = 1
    <3>1. b # 1
      <4>1. SUFFICES ASSUME b = 1 PROVE FALSE
        OBVIOUS
      <4>2. l = [id |-> x, whole |-> TRUE]
        BY <4>1, <2>3, <2>5, <1>3
      <4>3. x \in sent'
        BY <4>2, <1>3
      <4>4. QED
        BY <4>3, <2>1 DEF Handled
    <3>2. b - 1 \in DOMAIN results'[a].lines
          /\ results'[a].lines[b - 1] = [id |-> x, whole |-> TRUE]
      BY <3>1, <2>3, <2>5, SendFacts
    <3>3. QED
      BY <3>2, <2>1, <2>2, <1>1 DEF Waiting
  <2>6. QED
    BY <2>4, <2>5
<1>5. Len(results') = Len(results)
  <2>1. results \in Seq(TailReadResult) /\ results' \in Seq(TailReadResult)
    BY SendFacts DEF Basics, TypeOK
  <2>2. QED
    BY <2>1, <1>1, LenProperties
<1>6. /\ \A i, o, h, H : Sound(i, o, h, H) <=> Sound(i, o, h, H)'
      /\ \A e, H : EntrySound(e, H) <=> EntrySound(e, H)'
  BY <1>1 DEF EntrySound, Sound, Covered, Matches
<1>7. CursorsSound'
  <2>1. SUFFICES ASSUME NEW i \in Inodes, NEW c \in Cursors(i)
                 PROVE  c.hash # None /\ Sound(i, c.offset, c.hash, Handled)'
    BY <1>1 DEF CursorsSound, Cursors
  <2>2. PICK G : G = Handled'
    OBVIOUS
  <2>3. c.hash # None /\ Sound(i, c.offset, c.hash, Handled)
    BY DEF Honest, CursorsSound
  <2>4. Sound(i, c.offset, c.hash, G)
    BY <2>2, <2>3, <1>3, SoundMonotonic
  <2>5. QED
    BY <2>2, <2>3, <2>4, <1>1 DEF Sound, Covered, Matches
<1>8. ResultsSound'
  <2>1. SUFFICES ASSUME NEW n \in DOMAIN results
                 PROVE  (/\ results[n].hash # None
                         /\ Sound(results[n].identity, results[n].offset, results[n].hash,
                                  Handled \cup Waiting(results, n)))'
    BY <1>1 DEF ResultsSound
  <2>2. PICK r, H, G : /\ r = results[n] /\ H = Handled \cup Waiting(results, n)
                       /\ G = (Handled \cup Waiting(results, n))'
    OBVIOUS
  <2>3. r.hash # None /\ Sound(r.identity, r.offset, r.hash, H)
    BY <2>2, <1>1 DEF Honest, ResultsSound
  <2>4. H \subseteq G
    BY <2>2, <1>4
  <2>5. Sound(r.identity, r.offset, r.hash, G)
    BY <2>3, <2>4, SoundMonotonic
  <2>6. Sound(r.identity, r.offset, r.hash, G)'
    BY <2>5, <1>6
  <2>7. /\ results'[n].identity = r.identity /\ results'[n].offset = r.offset
        /\ results'[n].hash = r.hash
    BY <2>2, SendFacts
  <2>8. QED
    BY <2>2, <2>3, <2>6, <2>7 DEF Sound, Covered, Matches
<1>9. EntriesSound'
  <2>1. SUFFICES ASSUME phase = "up", NEW q \in Paths, tracked[q] # None
                 PROVE  EntrySound(tracked[q], Handled \cup Waiting(results, Len(results)))'
    BY <1>1 DEF EntriesSound
  <2>2. PICK e, H, G : /\ e = tracked[q] /\ H = Handled \cup Waiting(results, Len(results))
                       /\ G = (Handled \cup Waiting(results, Len(results)))'
    OBVIOUS
  <2>3. EntrySound(e, H)
    BY <2>1, <2>2 DEF Honest, EntriesSound
  <2>4. H \subseteq G
    BY <2>2, <1>4, <1>5
  <2>5. EntrySound(e, G)'
    BY <2>3, <2>4, <1>6, EntryMonotonic
  <2>6. tracked'[q] = e
    BY <2>2, <1>1
  <2>7. QED
    BY <2>2, <2>5, <2>6 DEF EntrySound, Sound, Covered, Matches
<1>10. Held'
  BY <1>1 DEF Held
<1>11. QED
  BY <1>7, <1>8, <1>9, <1>10 DEF Honest

LEMMA ShiftedWaiting ==
  ASSUME TypeOK, results # <<>>, results[1].lines = <<>>, NEW rs, Shifted(rs), NEW n \in Nat
  PROVE  Waiting(rs, n) = Waiting(results, n + 1)
<1>1. DOMAIN results[1].lines = {}
  OBVIOUS
<1>2. DOMAIN results \subseteq Nat
  BY ResultType
<1>3. ASSUME NEW l \in Waiting(rs, n) PROVE l \in Waiting(results, n + 1)
  <2>1. PICK a \in DOMAIN rs : a <= n /\ \E b \in DOMAIN rs[a].lines :
                                  rs[a].lines[b] = [id |-> l, whole |-> TRUE]
    BY <1>3 DEF Waiting
  <2>2. a \in Nat /\ a + 1 \in DOMAIN results /\ rs[a] = results[a + 1] /\ a + 1 <= n + 1
    BY <2>1 DEF Shifted
  <2>3. QED
    BY <2>1, <2>2, <1>3 DEF Waiting
<1>4. ASSUME NEW l \in Waiting(results, n + 1) PROVE l \in Waiting(rs, n)
  <2>1. PICK a \in DOMAIN results : a <= n + 1 /\ \E b \in DOMAIN results[a].lines :
                                      results[a].lines[b] = [id |-> l, whole |-> TRUE]
    BY <1>4 DEF Waiting
  <2>2. a # 1
    BY <2>1, <1>1
  <2>3. a - 1 \in DOMAIN rs /\ rs[a - 1] = results[a] /\ a - 1 <= n
    BY <2>1, <2>2, <1>2 DEF Shifted
  <2>4. QED
    BY <2>1, <2>3, <1>4 DEF Waiting
<1>5. QED
  BY <1>3, <1>4

LEMMA SetCursorHonest ==
  ASSUME Basics, Honest, SetCursor
  PROVE  Honest'
<1>1. PICK r : r = results[1]
  OBVIOUS
<1>2. /\ results # <<>> /\ 1 \in DOMAIN results /\ r.lines = <<>> /\ Sent(r)
      /\ r.identity \in Inodes
      /\ \A j \in Inodes : j # r.identity => mem'.files[j] = mem.files[j]
      /\ mem'.files[r.identity].offset = r.offset /\ mem'.files[r.identity].hash = r.hash
      /\ UNCHANGED <<dir, file, phase, disk, tracked, sent, skipped>>
      /\ at = "send" /\ at' \in {"idle", "send"}
      /\ at' = "send" => phase # "cancelled"
      /\ Shifted(results') \/ (phase = "cancelled" /\ results' = <<>>)
  BY <1>1, SetCursorFacts
<1>3. Handled' = Handled
  BY <1>2 DEF Handled
<1>4. /\ \A i, o, h, H : Sound(i, o, h, H) <=> Sound(i, o, h, H)'
      /\ \A e, H : EntrySound(e, H) <=> EntrySound(e, H)'
  BY <1>2 DEF EntrySound, Sound, Covered, Matches
<1>5. Waiting(results, 1) = {}
  <2>1. \A a \in DOMAIN results : a <= 1 => a = 1
    BY ResultType DEF Basics
  <2>2. DOMAIN results[1].lines = {}
    BY <1>1, <1>2
  <2>3. QED
    BY <2>1, <2>2 DEF Waiting
<1>6. r.hash # None /\ Sound(r.identity, r.offset, r.hash, Handled)
  BY <1>1, <1>2, <1>5 DEF Honest, ResultsSound
<1>7. CursorsSound'
  <2>1. SUFFICES ASSUME NEW i \in Inodes, NEW c \in Cursors(i)'
                 PROVE  c.hash # None /\ Sound(i, c.offset, c.hash, Handled)
    <3>1. SUFFICES ASSUME NEW i \in Inodes, NEW c \in Cursors(i)'
                   PROVE  c.hash # None /\ Sound(i, c.offset, c.hash, Handled)'
      BY DEF CursorsSound
    <3>2. PICK H : H = Handled
      OBVIOUS
    <3>3. c.hash # None /\ Sound(i, c.offset, c.hash, H)
      BY <2>1, <3>2
    <3>4. QED
      BY <3>2, <3>3, <1>2, <1>3 DEF Sound, Covered, Matches
  <2>2. CASE c \in Cursors(i)
    BY <2>2 DEF Honest, CursorsSound
  <2>3. CASE c \notin Cursors(i)
    <3>1. i = r.identity /\ c = mem'.files[i]
      BY <2>1, <2>3, <1>2 DEF Cursors
    <3>2. QED
      BY <3>1, <1>2, <1>6
  <2>4. QED
    BY <2>2, <2>3
<1>8. ASSUME phase # "cancelled"
      PROVE  /\ Shifted(results')
             /\ \A n \in Nat : Waiting(results, n)' = Waiting(results, n + 1)
             /\ Len(results') + 1 = Len(results)
  <2>1. PICK rs : rs = results'
    OBVIOUS
  <2>2. Shifted(rs)
    BY <2>1, <1>2, <1>8
  <2>3. ASSUME NEW n \in Nat PROVE Waiting(rs, n) = Waiting(results, n + 1)
    <3>1. TypeOK /\ results # <<>> /\ results[1].lines = <<>>
      BY <1>1, <1>2 DEF Basics
    <3>2. QED
      BY <3>1, <2>2, ShiftedWaiting
  <2>4. \A n \in Nat : Waiting(results, n)' = Waiting(rs, n)
    BY <2>1 DEF Waiting
  <2>5. Len(rs) + 1 = Len(results)
    <3>1. /\ DOMAIN rs = 1 .. Len(rs) /\ Len(rs) \in Nat
          /\ DOMAIN results = 1 .. Len(results) /\ Len(results) \in Nat
      BY <2>2, Seqs, ResultType DEF Shifted, Basics
    <3>2. PICK m \in Nat, k \in Nat : m = Len(rs) /\ k = Len(results)
      BY <3>1
    <3>3. DOMAIN rs = 1 .. m /\ DOMAIN results = 1 .. k /\ k # 0
      BY <3>1, <3>2, <1>2
    <3>4. \A n \in 1 .. m : n + 1 \in 1 .. k
      BY <2>2, <3>3 DEF Shifted
    <3>5. \A n \in 1 .. k : n # 1 => n - 1 \in 1 .. m
      BY <2>2, <3>3 DEF Shifted
    <3>6. m # 0 => m + 1 <= k
      BY <3>4
    <3>7. k # 1 => k - 1 <= m
      BY <3>3, <3>5
    <3>8. m + 1 = k
      BY <3>3, <3>6, <3>7
    <3>9. QED
      BY <3>2, <3>8
  <2>6. QED
    BY <2>1, <2>2, <2>3, <2>4, <2>5
<1>9. ResultsSound'
  <2>1. SUFFICES ASSUME phase # "cancelled", NEW n \in DOMAIN results'
                 PROVE  (/\ results[n].hash # None
                         /\ Sound(results[n].identity, results[n].offset, results[n].hash,
                                  Handled \cup Waiting(results, n)))'
    BY <1>2 DEF ResultsSound
  <2>2. n \in Nat /\ n + 1 \in DOMAIN results /\ results'[n] = results[n + 1]
    BY <2>1, <1>8 DEF Shifted
  <2>3. PICK q, H : q = results[n + 1] /\ H = Handled \cup Waiting(results, n + 1)
    OBVIOUS
  <2>4. q.hash # None /\ Sound(q.identity, q.offset, q.hash, H)
    BY <2>2, <2>3, <1>2 DEF Honest, ResultsSound
  <2>5. Sound(q.identity, q.offset, q.hash, H)'
    BY <2>4, <1>4
  <2>6. results'[n] = q /\ H = (Handled \cup Waiting(results, n))'
    <3>1. PICK k : k = n
      OBVIOUS
    <3>2. Waiting(results, k)' = Waiting(results, n + 1)
      BY <3>1, <2>1, <2>2, <1>8
    <3>3. Waiting(results', n) = Waiting(results, n + 1)
      BY <3>1, <3>2 DEF Waiting
    <3>4. (Handled \cup Waiting(results, n))' = Handled \cup Waiting(results', n)
      BY <1>3 DEF Waiting
    <3>5. QED
      BY <3>3, <3>4, <2>2, <2>3
  <2>7. QED
    BY <2>4, <2>5, <2>6 DEF Sound, Covered, Matches
<1>10. EntriesSound'
  <2>1. SUFFICES ASSUME phase = "up", NEW q \in Paths, tracked[q] # None
                 PROVE  EntrySound(tracked[q], Handled \cup Waiting(results, Len(results)))'
    BY <1>2 DEF EntriesSound
  <2>2. PICK e, H : e = tracked[q] /\ H = Handled \cup Waiting(results, Len(results))
    OBVIOUS
  <2>3. EntrySound(e, H)'
    BY <2>1, <2>2, <1>4 DEF Honest, EntriesSound
  <2>4. H = (Handled \cup Waiting(results, Len(results)))'
    <3>1. Shifted(results') /\ Len(results') + 1 = Len(results)
          /\ \A n \in Nat : Waiting(results, n)' = Waiting(results, n + 1)
      BY <2>1, <1>8
    <3>2. Len(results') \in Nat
      BY <3>1, Seqs DEF Shifted
    <3>3. Waiting(results', Len(results')) = Waiting(results, Len(results))
      <4>1. PICK k : k = Len(results')
        OBVIOUS
      <4>2. k \in Nat /\ k + 1 = Len(results)
        BY <4>1, <3>1, <3>2
      <4>3. Waiting(results, k)' = Waiting(results, k + 1)
        BY <4>2, <3>1
      <4>4. Waiting(results', k) = Waiting(results, k + 1)
        BY <4>3 DEF Waiting
      <4>5. QED
        BY <4>1, <4>2, <4>4
    <3>4. QED
      BY <3>3, <2>2, <1>3 DEF Waiting
  <2>5. tracked'[q] = e
    BY <2>2, <1>2
  <2>6. QED
    BY <2>3, <2>4, <2>5 DEF EntrySound, Sound, Covered, Matches
<1>11. Held'
  BY <1>2 DEF Held
<1>12. QED
  BY <1>7, <1>9, <1>10, <1>11 DEF Honest

LEMMA DiscoverHonest ==
  ASSUME Basics, Honest, Start \/ Rediscover
  PROVE  Honest'
<1>1. /\ at = "idle" /\ at' = "idle" /\ results = <<>> /\ results' = <<>> /\ DOMAIN results = {}
      /\ UNCHANGED <<dir, file, disk, sent>>
      /\ mem'.files = mem.files /\ skipped \subseteq skipped'
      /\ \A p \in Paths : tracked'[p] # None =>
           /\ dir[p] # None
           /\ \/ tracked'[p] = tracked[p] /\ phase = "up"
              \/ \E start \in {0, file[dir[p]].size} :
                   /\ tracked'[p] = FromCursor(dir[p], start)
                   /\ start # 0 => \A k \in DOMAIN file[dir[p]].ids :
                                     file[dir[p]].ids[k] \in skipped'
  BY DiscoverFacts
<1>2. Handled \subseteq Handled'
  BY <1>1 DEF Handled
<1>3. /\ \A i, o, h, H : Sound(i, o, h, H) <=> Sound(i, o, h, H)'
      /\ \A e, H : EntrySound(e, H) <=> EntrySound(e, H)'
  BY <1>1 DEF EntrySound, Sound, Covered, Matches
<1>4. CursorsSound'
  <2>1. SUFFICES ASSUME NEW i \in Inodes, NEW c \in Cursors(i)
                 PROVE  c.hash # None /\ Sound(i, c.offset, c.hash, Handled)'
    BY <1>1 DEF CursorsSound, Cursors
  <2>2. PICK G : G = Handled'
    OBVIOUS
  <2>3. c.hash # None /\ Sound(i, c.offset, c.hash, Handled)
    BY DEF Honest, CursorsSound
  <2>4. Sound(i, c.offset, c.hash, G)
    BY <2>2, <2>3, <1>2, SoundMonotonic
  <2>5. QED
    BY <2>2, <2>3, <2>4, <1>1 DEF Sound, Covered, Matches
<1>5. ResultsSound'
  BY <1>1 DEF ResultsSound
<1>6. EntriesSound'
  <2>1. SUFFICES ASSUME NEW p \in Paths, tracked'[p] # None
                 PROVE  EntrySound(tracked[p], Handled \cup Waiting(results, Len(results)))'
    BY DEF EntriesSound
  <2>2. PICK e, i, G : e = tracked'[p] /\ i = dir[p] /\ G = Handled'
    OBVIOUS
  <2>3. i \in Inodes /\ i # None
    BY <2>1, <2>2, <1>1, PathType DEF Basics
  <2>4. EntrySound(e, G)
    <3>1. CASE tracked'[p] = tracked[p] /\ phase = "up"
      <4>1. Waiting(results, Len(results)) = {}
        BY <1>1 DEF Waiting
      <4>2. EntrySound(e, Handled)
        BY <4>1, <3>1, <2>1, <2>2 DEF Honest, EntriesSound
      <4>3. QED
        BY <4>2, <2>2, <1>2, EntryMonotonic
    <3>2. CASE ~(tracked'[p] = tracked[p] /\ phase = "up")
      <4>1. PICK start \in {0, file[i].size} :
               /\ e = FromCursor(i, start)
               /\ start # 0 => \A k \in DOMAIN file[i].ids : file[i].ids[k] \in skipped'
        BY <3>2, <2>1, <2>2, <1>1
      <4>2. start \in 0 .. 2 * MaxLines /\ start \in Nat
        BY <2>3, SizeType, Constants
      <4>3. ASSUME start > 0 PROVE Covered(i, start, G)
        <5>1. start = file[i].size /\ file[i].size \in Nat
          BY <4>3, <2>3, SizeType
        <5>2. DOMAIN file[i].ids = 1 .. (file[i].size + 1) \div 2
          BY <2>3, FileType DEF Basics, Files, FileShape
        <5>3. \A k \in DOMAIN file[i].ids : file[i].ids[k] \in G
          BY <4>1, <4>3, <2>2 DEF Handled
        <5>4. QED
          BY <5>1, <5>2, <5>3 DEF Covered
      <4>4. Handled \subseteq G
        BY <2>2, <1>2
      <4>5. QED
        BY <4>1, <4>2, <4>3, <4>4, <2>3, CursorEntrySound
    <3>3. QED
      BY <3>1, <3>2
  <2>5. EntrySound(e, G)'
    BY <2>4, <1>3
  <2>6. G = (Handled \cup Waiting(results, Len(results)))'
    BY <2>2, <1>1 DEF Waiting
  <2>7. QED
    BY <2>2, <2>5, <2>6 DEF EntrySound, Sound, Covered, Matches
<1>7. Held'
  BY <1>1 DEF Held
<1>8. QED
  BY <1>4, <1>5, <1>6, <1>7 DEF Honest

(* What neither reads nor sends anything.                                  *)
LEMMA QuietHonest ==
  ASSUME Basics, Honest, UNCHANGED <<dir, file, tracked, sent, skipped>>,
         mem' \in {mem, disk}, disk' \in {mem, disk},
         \/ UNCHANGED <<at, path, results>> /\ phase' \in {phase, "cancelled"}
         \/ at = "idle" /\ at' = "stat" /\ UNCHANGED <<phase, results>>
         \/ at' = "idle" /\ phase' # "up"
         \/ at' = at /\ results' = results /\ phase' = phase /\ path' = path
  PROVE  Honest'
<1>1. Handled' = Handled
  BY DEF Handled
<1>2. CursorsSound'
  <2>1. \A i \in Inodes : Cursors(i)' \subseteq Cursors(i)
    BY DEF Cursors
  <2>2. QED
    BY <1>1, <2>1 DEF Honest, CursorsSound, Sound, Covered, Matches
<1>3. CASE phase' # "up" /\ at' # "send"
  <2>1. ResultsSound' /\ EntriesSound'
    BY <1>3 DEF ResultsSound, EntriesSound
  <2>2. Held'
    BY DEF Honest, Held
  <2>3. QED
    BY <1>2, <2>1, <2>2 DEF Honest
<1>4. CASE phase' = "up" \/ at' = "send"
  <2>1. /\ results' = results /\ (phase' = "up" => phase = "up")
        /\ (at' = "send" => at = "send")
    BY <1>4
  <2>2. /\ \A i, o, h, H : Sound(i, o, h, H) <=> Sound(i, o, h, H)'
        /\ \A e, H : EntrySound(e, H) <=> EntrySound(e, H)'
    BY DEF EntrySound, Sound, Covered, Matches
  <2>3. ASSUME NEW n PROVE (Handled \cup Waiting(results, n))' = Handled \cup Waiting(results, n)
    BY <2>1, <1>1 DEF Waiting
  <2>4. ResultsSound'
    <3>1. SUFFICES ASSUME NEW n \in DOMAIN results
                   PROVE  (/\ results[n].hash # None
                           /\ Sound(results[n].identity, results[n].offset, results[n].hash,
                                    Handled \cup Waiting(results, n)))'
      BY <2>1 DEF ResultsSound
    <3>2. PICK r, H : r = results[n] /\ H = Handled \cup Waiting(results, n)
      OBVIOUS
    <3>3. r.hash # None /\ Sound(r.identity, r.offset, r.hash, H)
      BY <3>2, <2>1, <1>4 DEF Honest, ResultsSound
    <3>4. Sound(r.identity, r.offset, r.hash, H)'
      BY <3>3, <2>2
    <3>5. results'[n] = r /\ H = (Handled \cup Waiting(results, n))'
      BY <3>2, <2>1, <2>3
    <3>6. QED
      BY <3>3, <3>4, <3>5 DEF Sound, Covered, Matches
  <2>5. EntriesSound'
    <3>1. SUFFICES ASSUME phase = "up", NEW q \in Paths, tracked[q] # None
                   PROVE  EntrySound(tracked[q], Handled \cup Waiting(results, Len(results)))'
      BY <2>1 DEF EntriesSound
    <3>2. PICK e, H : e = tracked[q] /\ H = Handled \cup Waiting(results, Len(results))
      OBVIOUS
    <3>3. EntrySound(e, H)'
      BY <3>1, <3>2, <2>2 DEF Honest, EntriesSound
    <3>4. tracked'[q] = e /\ H = (Handled \cup Waiting(results, Len(results)))'
      BY <3>2, <2>1, <1>1 DEF Waiting
    <3>5. QED
      BY <3>3, <3>4 DEF EntrySound, Sound, Covered, Matches
  <2>6. Held'
    BY DEF Honest, Held
  <2>7. QED
    BY <1>2, <2>4, <2>5, <2>6 DEF Honest
<1>5. QED
  BY <1>3, <1>4

LEMMA HonestInit ==
  ASSUME Init
  PROVE  HonestInv
<1>1. /\ phase = "down" /\ at = "idle"
      /\ \A i \in Inodes : Cursors(i) = {}
  BY DEF Init, Cursors, S!Default
<1>2. Honest
  BY <1>1 DEF Honest, CursorsSound, ResultsSound, EntriesSound, Held
<1>3. QED
  BY <1>2, BasicsInit DEF HonestInv

(* Once a file was replaced unseen, that stays so.                         *)
LEMMA FatesStay ==
  ASSUME Basics, [Next]_vars
  PROVE  (raced => raced') /\ (blind => blind') /\ (shuffled => shuffled')
         /\ restarts \in Nat /\ restarts' \in Nat /\ restarts <= restarts'
<1>1. CASE Environment
  <2>1. (raced => raced') /\ (blind => blind') /\ (shuffled => shuffled')
        /\ restarts' = restarts
    BY <1>1, EnvironmentStep DEF Growth, Displacement, fates
  <2>2. QED
    BY <2>1 DEF Basics, Remembered
<1>2. CASE Crash \/ Stop
  BY <1>2, ExitFacts
<1>3. CASE [Next]_vars /\ ~Environment /\ ~Crash /\ ~Stop
  <2>1. UNCHANGED <<raced, blind, shuffled, restarts>>
    BY <1>3
       DEF Next, vars, Start, Rediscover, Discover, StartTail, Poll, Stat, Fingerprint, Read,
           SendLine, SetCursor, Abandon, Flush, Cancel, fates, bounds
  <2>2. QED
    BY <2>1 DEF Basics, Remembered
<1>4. QED
  BY <1>1, <1>2, <1>3

LEMMA HonestStep ==
  ASSUME HonestInv, [Next]_vars
  PROVE  HonestInv'
<1>1. Basics /\ Basics'
  BY BasicsStep DEF HonestInv
<1>2. SUFFICES ASSUME ~raced', ~blind' PROVE Honest'
  BY <1>1 DEF HonestInv
<1>3. Honest
  BY <1>1, <1>2, FatesStay DEF HonestInv
<1>4. CASE Environment
  BY <1>1, <1>2, <1>3, <1>4, EnvironmentHonest
<1>5. CASE Start \/ Rediscover
  BY <1>1, <1>3, <1>5, DiscoverHonest
<1>6. ASSUME NEW p \in Paths, Stat(p) PROVE Honest'
  BY <1>1, <1>3, <1>6, StatHonest
<1>7. CASE Fingerprint
  BY <1>1, <1>3, <1>7, FingerprintHonest
<1>8. CASE Read
  BY <1>1, <1>3, <1>8, ReadHonest
<1>9. CASE SendLine
  BY <1>1, <1>3, <1>9, SendLineHonest
<1>10. CASE SetCursor
  BY <1>1, <1>3, <1>10, SetCursorHonest
<1>11. CASE StartTail \/ Abandon \/ Flush \/ Cancel \/ UNCHANGED vars
  <2>1. /\ UNCHANGED <<dir, file, tracked, sent, skipped, mem>> /\ disk' \in {mem, disk}
        /\ \/ UNCHANGED <<at, path, results>> /\ phase' \in {phase, "cancelled"}
           \/ at = "idle" /\ at' = "stat" /\ UNCHANGED <<phase, results>>
           \/ at' = "idle" /\ phase' # "up"
    BY <1>11 DEF StartTail, Abandon, Flush, Cancel, Idle, vars, diskVars, bounds, processVars,
                 passVars, fates
  <2>2. QED
    BY <1>1, <1>3, <2>1, QuietHonest
<1>12. CASE Crash \/ Stop
  <2>1. /\ UNCHANGED <<dir, file, sent, skipped, disk>> /\ mem' = disk
        /\ phase' = "down" /\ at' = "idle"
    BY <1>1, <1>12, ExitFacts DEF Idle
  <2>2. Handled' = Handled
    BY <2>1 DEF Handled
  <2>3. CursorsSound'
    <3>1. \A i \in Inodes : Cursors(i)' \subseteq Cursors(i)
      BY <2>1 DEF Cursors
    <3>2. QED
      BY <3>1, <2>1, <2>2, <1>3 DEF Honest, CursorsSound, Sound, Covered, Matches
  <2>4. ResultsSound' /\ EntriesSound' /\ Held'
    BY <2>1 DEF ResultsSound, EntriesSound, Held
  <2>5. QED
    BY <2>3, <2>4 DEF Honest
<1>13. QED
  BY <1>4, <1>5, <1>6, <1>7, <1>8, <1>9, <1>10, <1>11, <1>12 DEF Next, Poll

LEMMA HonestImplies ==
  ASSUME HonestInv
  PROVE  CursorHonest
<1>1. Basics
  BY DEF HonestInv
<1>2. SUFFICES ASSUME Honest, NEW i \in Inodes, NEW c \in {mem.files[i], disk.files[i]},
                      Trusted(c, i), NEW k \in 1 .. c.offset \div 2
               PROVE  file[i].ids[k] \in sent \cup skipped
  BY DEF HonestInv, CursorHonest
<1>3. c \in Cursors(i) /\ c.hash # None /\ Sound(i, c.offset, c.hash, Handled)
  BY <1>2 DEF Trusted, Cursors, Honest, CursorsSound
<1>4. c.hash = FirstLine(file[i])
  BY <1>2, <1>3 DEF Trusted
<1>5. c.offset \in Nat /\ c.offset <= file[i].size /\ file[i].size \in Nat
  BY <1>1, <1>2, <1>3, CursorType, SizeType DEF Trusted, Basics
<1>6. file[i].size >= 2
  <2>1. PICK o : o = c.offset
    OBVIOUS
  <2>2. o \in Nat /\ k \in 1 .. o \div 2 /\ o <= file[i].size
    BY <2>1, <1>5
  <2>3. o >= 2
    BY <2>2
  <2>4. QED
    BY <2>2, <2>3, <1>5
<1>7. Covered(i, c.offset, Handled)
  <2>1. Matches(c.hash, i)
    BY <1>1, <1>4, <1>6, FirstLineFacts
  <2>2. QED
    BY <2>1, <1>3 DEF Sound
<1>8. k \in 1 .. (c.offset + 1) \div 2
  BY <1>5
<1>9. QED
  BY <1>7, <1>8 DEF Covered, Handled

-----------------------------------------------------------------------------
(* No line twice, step by step.                                            *)

LEMMA TakenBegun ==
  ASSUME Basics
  PROVE  /\ \A l \in Taken : l <= written
         /\ \A l \in Queued : \E a \in DOMAIN results : \E b \in DOMAIN results[a].lines :
              results[a].lines[b].id = l
  BY DEF Basics, Remembered, Taken, Queued

(* File i is as it was, and none of it is taken that was not.              *)
Spared(i) ==
  /\ file'[i] = file[i]
  /\ \A k \in DOMAIN file[i].ids : file[i].ids[k] \in Taken' => file[i].ids[k] \in Taken

LEMMA AheadSpared ==
  ASSUME NEW i, Spared(i)
  PROVE  /\ \A o, h : Ahead(i, o, h) => Ahead(i, o, h)'
         /\ Untouched(i) => Untouched(i)'
         /\ \A e : Stamped(e, i) => Stamped(e, i)'
  BY DEF Spared, Ahead, Untouched, Stamped, Matches

LEMMA AllSpared ==
  ASSUME file' = file, Taken' \subseteq Taken, NEW i
  PROVE  Spared(i)
  BY DEF Spared

LEMMA CursorSpared ==
  ASSUME NEW i, Spared(i), mem'.files[i] = mem.files[i], CursorAhead(i)
  PROVE  CursorAhead(i)'
<1>1. PICK c : c = mem.files[i]
  OBVIOUS
<1>2. CASE c = None
  <2>1. Untouched(i)'
    BY <1>1, <1>2, AheadSpared DEF CursorAhead
  <2>2. QED
    BY <1>1, <1>2, <2>1 DEF CursorAhead
<1>3. CASE c # None
  <2>1. PICK o, h : o = c.offset /\ h = c.hash
    OBVIOUS
  <2>2. Ahead(i, o, h)'
    BY <1>1, <1>3, <2>1, AheadSpared DEF CursorAhead
  <2>3. QED
    BY <1>1, <1>3, <2>1, <2>2 DEF CursorAhead, Ahead, Matches
<1>4. QED
  BY <1>2, <1>3

(* What is ahead of an emptied file is ahead of nothing.                   *)
LEMMA AheadEmpty ==
  ASSUME NEW i, file'[i].ids = <<>>
  PROVE  /\ \A o, h : Ahead(i, o, h)'
         /\ \A e : Stamped(e, i)'
<1>1. DOMAIN file'[i].ids = {}
  OBVIOUS
<1>2. QED
  BY <1>1 DEF Ahead, Stamped, Matches

LEMMA CursorKept ==
  ASSUME Basics, Basics', NEW i \in Inodes, Kept(i) \/ file'[i] = file[i] \/ Cleared(i),
         Taken' \subseteq Taken, mem' = mem, CursorAhead(i)
  PROVE  CursorAhead(i)'
<1>1. TypeOK /\ TypeOK' /\ Files /\ written \in 0 .. MaxLines /\ \A l \in Taken : l <= written
  BY TakenBegun DEF Basics, Remembered
<1>2. PICK c : c = mem.files[i]
  OBVIOUS
<1>3. CASE c = None
  <2>1. Untouched(i)'
    BY <1>1, <1>2, <1>3, UntouchedKept DEF CursorAhead
  <2>2. QED
    BY <1>2, <1>3, <2>1 DEF CursorAhead
<1>4. CASE c # None
  <2>1. PICK o, h : o = c.offset /\ h = c.hash
    OBVIOUS
  <2>2. o \in Nat /\ h \in Heads \cup {None} /\ Begun(h)
    <3>1. c \in Cursors(i)
      BY <1>2, <1>4 DEF Cursors
    <3>2. QED
      BY <3>1, <1>1, <2>1, CursorType DEF Basics, Remembered
  <2>3. Ahead(i, o, h)
    BY <1>2, <1>4, <2>1 DEF CursorAhead
  <2>4. Ahead(i, o, h)'
    BY <1>1, <2>2, <2>3, AheadKept
  <2>5. QED
    BY <1>2, <1>4, <2>1, <2>4 DEF CursorAhead, Ahead, Matches
<1>5. QED
  BY <1>3, <1>4

(* Files that only grow or are emptied keep all this.                      *)
LEMMA FilesFresh ==
  ASSUME Basics, Basics', Fresh, Steady', OneResult',
         UNCHANGED <<mem, tracked, results, phase, sent>>,
         \A i \in Inodes : Kept(i) \/ file'[i] = file[i] \/ Cleared(i),
         \A p \in Paths : Live(p)' => Live(p) \/ file'[dir'[p]].ids = <<>>
  PROVE  Fresh'
<1>1. TypeOK /\ TypeOK' /\ Files /\ written \in 0 .. MaxLines /\ \A l \in Taken : l <= written
  BY TakenBegun DEF Basics, Remembered
<1>2. Taken' = Taken
  BY DEF Taken, Queued
<1>3. LiveAhead'
  <2>1. SUFFICES ASSUME NEW p \in Paths, Live(p)'
                 PROVE  (Ahead(dir[p], tracked[p].offset, tracked[p].hash)
                           /\ Stamped(tracked[p], dir[p]))'
    BY DEF LiveAhead
  <2>2. PICK e, i, o, h : /\ e = tracked[p] /\ i = dir'[p]
                          /\ o = e.offset /\ h = e.hash
    OBVIOUS
  <2>3. Ahead(i, o, h)' /\ Stamped(e, i)'
    <3>1. CASE file'[dir'[p]].ids = <<>>
      BY <2>2, <3>1, AheadEmpty
    <3>2. CASE Live(p)
      <4>1. i = dir[p] /\ i = e.identity /\ e # None
        BY <2>1, <2>2, <3>2 DEF Live
      <4>2. i \in Inodes /\ e \in Tracked /\ o \in Nat /\ h \in Heads \cup {None}
        BY <4>1, <1>1, <2>2, TrackedType, Constants
      <4>3. Begun(h) /\ e.last_mtime \in {None} \cup (0 .. written)
        BY <4>1, <2>2 DEF Basics, Remembered
      <4>4. Ahead(i, o, h) /\ Stamped(e, i)
        BY <4>1, <3>2, <2>2 DEF Fresh, LiveAhead
      <4>5. Ahead(i, o, h)'
        BY <4>2, <4>3, <4>4, <1>1, <1>2, AheadKept
      <4>6. Stamped(e, i)'
        BY <4>2, <4>3, <4>4, <1>1, <2>2, StampedKept
      <4>7. QED
        BY <4>5, <4>6
    <3>3. QED
      BY <2>1, <3>1, <3>2
  <2>4. QED
    BY <2>2, <2>3 DEF Ahead, Stamped, Matches
<1>4. LatestAhead'
  <2>1. SUFFICES ASSUME phase # "cancelled"
                 PROVE  (/\ \A n \in DOMAIN results :
                              Ahead(results[n].identity, results[n].offset, results[n].hash)
                         /\ \A i \in Inodes \ Read_ : CursorAhead(i))'
    BY DEF LatestAhead
  <2>2. ASSUME NEW n \in DOMAIN results
        PROVE  Ahead(results[n].identity, results[n].offset, results[n].hash)'
    <3>1. PICK i, o, h : i = results[n].identity /\ o = results[n].offset /\ h = results[n].hash
      OBVIOUS
    <3>2. i \in Inodes /\ o \in Nat /\ h \in Heads \cup {None} /\ Begun(h)
      BY <1>1, <3>1, ResultType DEF Basics, Remembered
    <3>3. Ahead(i, o, h)
      BY <2>1, <3>1 DEF Fresh, LatestAhead
    <3>4. Ahead(i, o, h)'
      BY <1>1, <1>2, <3>2, <3>3, AheadKept
    <3>5. QED
      BY <3>1, <3>4 DEF Ahead, Matches
  <2>3. ASSUME NEW i \in Inodes, i \notin Read_ PROVE CursorAhead(i)'
    BY <2>1, <2>3, <1>2, CursorKept DEF Fresh, LatestAhead
  <2>4. Read_' = Read_
    BY DEF Read_
  <2>5. QED
    BY <2>2, <2>3, <2>4
<1>5. QueuedOnce'
  BY DEF Fresh, QueuedOnce
<1>6. QED
  BY <1>3, <1>4, <1>5 DEF Fresh

LEMMA EnvironmentFresh ==
  ASSUME Basics, Basics', Fresh, Environment, ~shuffled'
  PROVE  Fresh'
<1>1. CASE Growth
  <2>1. /\ UNCHANGED <<mem, tracked, results, phase, at, todo, path, size, sent, dir>>
        /\ \A i \in Inodes : Kept(i)
    BY <1>1 DEF Growth, processVars, passVars, fates
  <2>2. Steady'
    <3>1. SUFFICES ASSUME at \in {"head", "read"}
                   PROVE  (/\ dir[path] = tracked[path].identity
                           /\ tracked[path].offset <= size /\ size <= file[dir[path]].size
                           /\ at = "read" /\ size >= 2 =>
                                Matches(tracked[path].hash, dir[path]))'
      BY <2>1 DEF Steady
    <3>2. PICK i, e, h : i = dir[path] /\ e = tracked[path] /\ h = e.hash
      OBVIOUS
    <3>3. /\ i = e.identity /\ e.offset <= size /\ size <= file[i].size
          /\ at = "read" /\ size >= 2 => Matches(h, i)
      BY <3>1, <3>2 DEF Fresh, Steady
    <3>4. path \in Paths /\ tracked[path] # None
      BY <3>1 DEF Basics, TypeOK
    <3>5. i \in Inodes /\ h \in Heads \cup {None} /\ Begun(h)
      BY <3>2, <3>3, <3>4, TrackedType DEF Basics, Remembered
    <3>6. size <= file'[i].size
      <4>1. file[i].size <= file'[i].size
        BY <2>1, <3>5 DEF Kept
      <4>2. file[i].size \in Nat /\ file'[i].size \in Nat
        BY <3>5, FileType, NewFileType DEF Basics
      <4>3. size \in Nat
        BY Constants DEF Basics, Poised
      <4>4. QED
        BY <4>1, <4>2, <4>3, <3>3
    <3>7. Matches(h, i) => Matches(h, i)'
      BY <2>1, <3>5, MatchesKept DEF Basics, Remembered
    <3>8. QED
      BY <2>1, <3>1, <3>2, <3>3, <3>6, <3>7 DEF Matches
  <2>3. OneResult'
    BY <2>1 DEF Fresh, OneResult, Reading
  <2>4. \A p \in Paths : Live(p)' => Live(p)
    BY <2>1 DEF Live
  <2>5. QED
    BY <2>1, <2>2, <2>3, <2>4, FilesFresh
<1>2. CASE Displacement
  <2>1. /\ UNCHANGED <<mem, tracked, results, phase, at, todo, path, size, sent>>
        /\ \A i \in Inodes : file'[i] = file[i] \/ Cleared(i)
        /\ ~Reading
        /\ \A p \in Paths : Live(p)' => Live(p) \/ file'[dir'[p]].ids = <<>>
    BY <1>2 DEF Displacement, processVars, passVars
  <2>2. Steady'
    BY <2>1 DEF Steady, Reading
  <2>3. OneResult'
    BY <2>1 DEF Fresh, OneResult, Reading
  <2>4. QED
    BY <2>1, <2>2, <2>3, FilesFresh
<1>3. QED
  BY <1>1, <1>2, EnvironmentStep

(* What a step of a poll leaves as it is.                                  *)
LEMMA StaticFacts ==
  ASSUME StaticPoll
  PROVE  UNCHANGED <<dir, file, written, restarts, phase, mem, disk, sent, skipped, raced,
                     shuffled, blind>>
  BY DEF StaticPoll, diskVars, bounds, processVars, fates

(* The entry of the path that is looked at may change, if it stays ahead.  *)
LEMMA VisitLive ==
  ASSUME Basics, Fresh, NEW p \in Paths, NEW e, tracked' = [tracked EXCEPT ![p] = e],
         UNCHANGED <<dir, file>>, \A j \in Inodes : j # dir[p] => Spared(j),
         NEW i, i = dir[p], NEW o, o = e.offset, NEW h, h = e.hash,
         e.identity = i => Ahead(i, o, h)' /\ Stamped(e, i)
  PROVE  LiveAhead'
<1>1. SUFFICES ASSUME NEW q \in Paths, Live(q)'
               PROVE  (Ahead(dir[q], tracked[q].offset, tracked[q].hash)
                         /\ Stamped(tracked[q], dir[q]))'
  BY DEF LiveAhead
<1>2. tracked \in [Paths -> Tracked \cup {None}]
  BY DEF Basics, TypeOK
<1>3. CASE q = p
  <2>1. tracked'[q] = e /\ dir'[q] = i
    BY <1>2, <1>3
  <2>2. e.identity = i
    BY <2>1, <1>1 DEF Live
  <2>3. QED
    BY <2>1, <2>2 DEF Ahead, Stamped, Matches
<1>4. CASE q # p
  <2>1. PICK f, j, ro, rh : /\ f = tracked[q] /\ j = dir[q] /\ ro = f.offset /\ rh = f.hash
    OBVIOUS
  <2>2. tracked'[q] = f /\ dir'[q] = j
    BY <2>1, <1>2, <1>4
  <2>3. Live(q)
    BY <2>1, <2>2, <1>1 DEF Live
  <2>4. j \in Inodes
    BY <2>1, <2>3, TrackedType DEF Live, Basics
  <2>5. j # dir[p]
    BY <2>1, <2>4, <1>4, Constants DEF Basics, Files, OnePath
  <2>6. Spared(j)
    BY <2>4, <2>5
  <2>7. Ahead(j, ro, rh) /\ Stamped(f, j)
    BY <2>1, <2>3 DEF Fresh, LiveAhead
  <2>8. Ahead(j, ro, rh)' /\ Stamped(f, j)'
    BY <2>6, <2>7, AheadSpared
  <2>9. QED
    BY <2>1, <2>2, <2>8 DEF Ahead, Stamped, Matches
<1>5. QED
  BY <1>3, <1>4

LEMMA LooksFresh ==
  ASSUME Basics, Fresh, NEW p \in todo, at \in {"stat", "head", "read"}, NEW e,
         NEW next \in {"head", "read"}, NEW sz, NEW mt, Looks(p, e, next, sz, mt),
         NEW i, i = dir[p], e.identity = i, NEW o, o = e.offset, NEW h, h = e.hash,
         Ahead(i, o, h), Stamped(e, i), o <= sz, sz <= file[i].size,
         next = "read" /\ sz >= 2 => Matches(h, i)
  PROVE  Fresh'
<1>1. /\ tracked' = [tracked EXCEPT ![p] = e] /\ todo' = todo
      /\ at' = next /\ path' = p /\ results' = results /\ size' = sz
      /\ UNCHANGED <<dir, file, phase, mem, sent>>
  BY StaticFacts DEF Looks, Looking
<1>2. p \in Paths /\ tracked \in [Paths -> Tracked \cup {None}]
  BY DEF Basics, TypeOK
<1>3. tracked'[p] = e
  BY <1>1, <1>2
<1>4. Taken' = Taken /\ Read_' = Read_
  BY <1>1 DEF Taken, Queued, Read_
<1>5. ASSUME NEW j PROVE Spared(j)
  BY <1>1, <1>4, AllSpared
<1>6. Ahead(i, o, h)' /\ Stamped(e, i)'
  BY <1>5, AheadSpared
<1>7. LiveAhead'
  BY <1>1, <1>2, <1>5, <1>6, VisitLive
<1>8. LatestAhead'
  <2>1. SUFFICES ASSUME phase # "cancelled"
                 PROVE  (/\ \A n \in DOMAIN results :
                              Ahead(results[n].identity, results[n].offset, results[n].hash)
                         /\ \A j \in Inodes \ Read_ : CursorAhead(j))'
    BY <1>1 DEF LatestAhead
  <2>2. ASSUME NEW n \in DOMAIN results
        PROVE  Ahead(results[n].identity, results[n].offset, results[n].hash)'
    BY <2>1, <1>1, <1>4 DEF Fresh, LatestAhead, Ahead, Matches
  <2>3. ASSUME NEW j \in Inodes, j \notin Read_ PROVE CursorAhead(j)'
    BY <2>1, <2>3, <1>1, <1>5, CursorSpared DEF Fresh, LatestAhead
  <2>4. QED
    BY <2>2, <2>3, <1>1, <1>4
<1>9. OneResult'
  BY <1>1 DEF Fresh, OneResult, Reading
<1>10. QueuedOnce'
  BY <1>1 DEF Fresh, QueuedOnce
<1>11. Steady'
  BY <1>1, <1>3 DEF Steady, Matches
<1>12. QED
  BY <1>7, <1>8, <1>9, <1>10, <1>11 DEF Fresh

(* A path that is done with: rs are the old results, or with one more for  *)
(* the file i at path p, of lines of that file that nobody has taken.      *)
Ids(r) == {r.lines[m].id : m \in DOMAIN r.lines}

LEMMA AppendedTaken ==
  ASSUME NEW r, NEW rs, IsAppended(rs, r), sent' = sent, results' = rs \/ results' = <<>>
  PROVE  \A l \in Taken' : l \in Taken \/ l \in Ids(r)
<1>1. SUFFICES ASSUME NEW l \in Queued' PROVE l \in Queued \/ l \in Ids(r)
  BY DEF Taken
<1>2. PICK a \in DOMAIN results' : \E b \in DOMAIN results'[a].lines : results'[a].lines[b].id = l
  BY DEF Queued
<1>3. results' = rs
  <2>1. results' = <<>> => DOMAIN results' = {}
    OBVIOUS
  <2>2. QED
    BY <2>1, <1>2
<1>4. CASE a \in DOMAIN results
  <2>1. rs[a] = results[a]
    BY <1>4 DEF IsAppended
  <2>2. QED
    BY <2>1, <1>1, <1>2, <1>3, <1>4 DEF Queued
<1>5. CASE a \notin DOMAIN results
  <2>1. rs[a] = r
    BY <1>2, <1>3, <1>5 DEF IsAppended
  <2>2. QED
    BY <2>1, <1>2, <1>3 DEF Ids
<1>6. QED
  BY <1>4, <1>5

(* The files that have a result are at paths that are done with.           *)
LEMMA OtherResults ==
  ASSUME Basics, Fresh, NEW p \in todo, Reading
  PROVE  \A n \in DOMAIN results : results[n].identity # dir[p]
<1>1. SUFFICES ASSUME NEW n \in DOMAIN results, results[n].identity = dir[p] PROVE FALSE
  OBVIOUS
<1>2. PICK q \in Paths \ todo : dir[q] = results[n].identity
  BY DEF Fresh, OneResult
<1>3. p \in Paths /\ dir[p] # None
  BY <1>1, ResultType, Constants DEF Basics, TypeOK
<1>4. q = p
  BY <1>1, <1>2, <1>3 DEF Basics, Files, OnePath
<1>5. QED
  BY <1>2, <1>4

LEMMA PassesFresh ==
  ASSUME Basics, Fresh, NEW p \in todo, at \in {"stat", "head", "read"}, Passes(p)
  PROVE  Fresh'
<1>1. /\ Leaves(p, results) /\ tracked' = tracked
      /\ UNCHANGED <<dir, file, phase, mem, sent>>
  BY DoneLeaves, StaticFacts DEF Passes
<1>2. /\ todo' = todo \ {p} /\ at' \in {"stat", "idle", "send"}
      /\ results' = results \/ (phase = "cancelled" /\ results' = <<>>)
  BY <1>1 DEF Leaves
<1>3. Reading
  BY DEF Reading
<1>4. results' = <<>> => DOMAIN results' = {}
  OBVIOUS
<1>5. Taken' \subseteq Taken
  BY <1>1, <1>2, <1>4 DEF Taken, Queued
<1>6. ASSUME NEW j PROVE Spared(j)
  BY <1>1, <1>5, AllSpared
<1>7. LiveAhead'
  <2>1. SUFFICES ASSUME NEW q \in Paths, Live(q)
                 PROVE  (Ahead(dir[q], tracked[q].offset, tracked[q].hash)
                           /\ Stamped(tracked[q], dir[q]))'
    BY <1>1 DEF LiveAhead, Live
  <2>2. PICK e, i, o, h : /\ e = tracked[q] /\ i = dir[q] /\ o = e.offset /\ h = e.hash
    OBVIOUS
  <2>3. Ahead(i, o, h) /\ Stamped(e, i)
    BY <2>1, <2>2 DEF Fresh, LiveAhead
  <2>4. Ahead(i, o, h)' /\ Stamped(e, i)'
    BY <2>3, <1>6, AheadSpared
  <2>5. QED
    BY <2>2, <2>4, <1>1 DEF Ahead, Stamped, Matches
<1>8. LatestAhead'
  <2>1. SUFFICES ASSUME phase # "cancelled", results' = results
                 PROVE  (/\ \A n \in DOMAIN results :
                              Ahead(results[n].identity, results[n].offset, results[n].hash)
                         /\ \A j \in Inodes \ Read_ : CursorAhead(j))'
    BY <1>1, <1>2 DEF LatestAhead
  <2>2. ASSUME NEW n \in DOMAIN results
        PROVE  Ahead(results[n].identity, results[n].offset, results[n].hash)'
    <3>1. PICK i, o, h : /\ i = results[n].identity /\ o = results[n].offset
                         /\ h = results[n].hash
      OBVIOUS
    <3>2. Ahead(i, o, h)
      BY <2>1, <3>1 DEF Fresh, LatestAhead
    <3>3. Ahead(i, o, h)'
      BY <3>2, <1>6, AheadSpared
    <3>4. QED
      BY <2>1, <3>1, <3>3 DEF Ahead, Matches
  <2>3. ASSUME NEW j \in Inodes, j \notin Read_ PROVE CursorAhead(j)'
    BY <2>1, <2>3, <1>1, <1>6, CursorSpared DEF Fresh, LatestAhead
  <2>4. QED
    BY <2>1, <2>2, <2>3 DEF Read_
<1>9. OneResult'
  <2>1. CASE results' = results
    BY <2>1, <1>1, <1>2, <1>3 DEF Fresh, OneResult, Reading
  <2>2. CASE results' = <<>>
    BY <2>2, <1>4 DEF OneResult
  <2>3. QED
    BY <1>2, <2>1, <2>2
<1>10. QueuedOnce'
  BY <1>1, <1>2, <1>4 DEF Fresh, QueuedOnce
<1>11. Steady'
  BY <1>2 DEF Steady
<1>12. QED
  BY <1>7, <1>8, <1>9, <1>10, <1>11 DEF Fresh

LEMMA AppendedOnce ==
  ASSUME Basics, Fresh, NEW r, NEW rs, IsAppended(rs, r), UNCHANGED sent, results' = rs,
         \A l \in Ids(r) : l \notin Taken /\ l \in 1 .. MaxLines,
         \A m, n \in DOMAIN r.lines : r.lines[m].id = r.lines[n].id => m = n
  PROVE  QueuedOnce'
<1>1. /\ \A n \in DOMAIN results : n \in DOMAIN rs /\ rs[n] = results[n]
      /\ \A n \in DOMAIN rs : n \in DOMAIN results \/ rs[n] = r
      /\ \A m, n \in DOMAIN rs : m \notin DOMAIN results /\ n \notin DOMAIN results => m = n
  BY DEF IsAppended
<1>2. ASSUME NEW a \in DOMAIN results, NEW b \in DOMAIN results[a].lines
      PROVE  results[a].lines[b].id \in Taken
  <2>1. results[a].lines[b].id \in 1 .. MaxLines
    BY LinesType DEF Basics, LineIds
  <2>2. QED
    BY <2>1 DEF Taken, Queued
<1>3. SUFFICES ASSUME NEW a \in DOMAIN rs, NEW c \in DOMAIN rs,
                      NEW b \in DOMAIN rs[a].lines, NEW d \in DOMAIN rs[c].lines
               PROVE  /\ rs[a].lines[b].id \notin sent
                      /\ rs[a].lines[b].id = rs[c].lines[d].id => a = c /\ b = d
  BY DEF QueuedOnce
<1>4. CASE a \in DOMAIN results /\ c \in DOMAIN results
  <2>1. rs[a] = results[a] /\ rs[c] = results[c]
    BY <1>1, <1>4
  <2>2. QED
    BY <2>1, <1>3, <1>4 DEF Fresh, QueuedOnce
<1>5. CASE a \in DOMAIN results /\ c \notin DOMAIN results
  <2>1. rs[a] = results[a] /\ rs[c] = r
    BY <1>1, <1>5
  <2>2. rs[a].lines[b].id \in Taken /\ rs[c].lines[d].id \notin Taken
    BY <2>1, <1>2, <1>3, <1>5 DEF Ids
  <2>3. rs[a].lines[b].id \notin sent
    BY <2>1, <1>3, <1>5 DEF Fresh, QueuedOnce
  <2>4. QED
    BY <2>2, <2>3
<1>6. CASE a \notin DOMAIN results
  <2>1. rs[a] = r
    BY <1>1, <1>6
  <2>2. rs[a].lines[b].id \notin Taken
    BY <2>1, <1>3 DEF Ids
  <2>3. rs[a].lines[b].id \notin sent
    BY <2>2 DEF Taken
  <2>4. CASE c \in DOMAIN results
    <3>1. rs[c].lines[d].id \in Taken
      BY <2>4, <1>1, <1>2, <1>3
    <3>2. QED
      BY <3>1, <2>2, <2>3
  <2>5. CASE c \notin DOMAIN results
    <3>1. c = a /\ rs[c] = r
      BY <2>5, <1>1, <1>6
    <3>2. rs[a].lines[b].id = rs[c].lines[d].id => b = d
      BY <3>1, <2>1, <1>3
    <3>3. QED
      BY <3>1, <3>2, <2>3
  <2>6. QED
    BY <2>4, <2>5
<1>7. QED
  BY <1>4, <1>5, <1>6

LEMMA ListsFresh ==
  ASSUME Basics, Fresh, NEW p \in todo, at \in {"stat", "head", "read"}, NEW e,
         NEW r \in TailReadResult, Lists(p, e, r),
         NEW i \in Inodes, i = dir[p], NEW o, NEW h,
         e.identity = i, e.offset = o, e.hash = h,
         r.identity = i, r.offset = o, r.hash = h,
         \A l \in Ids(r) : l \notin Taken /\ l \in 1 .. MaxLines
                           /\ \E k \in DOMAIN file[i].ids : file[i].ids[k] = l,
         \A m, n \in DOMAIN r.lines : r.lines[m].id = r.lines[n].id => m = n,
         Ahead(i, o, h)', Stamped(e, i)
  PROVE  Fresh'
<1>1. PICK rs : rs = Append(results, r)
  OBVIOUS
<1>2. IsAppended(rs, r)
  BY <1>1, AppendedFacts DEF Basics
<1>3. /\ Leaves(p, rs) /\ tracked' = [tracked EXCEPT ![p] = e]
      /\ UNCHANGED <<dir, file, phase, mem, sent>>
  BY <1>1, DoneLeaves, StaticFacts DEF Lists
<1>4. /\ todo' = todo \ {p} /\ at' \in {"stat", "idle", "send"}
      /\ results' = rs \/ (phase = "cancelled" /\ results' = <<>>)
  BY <1>3 DEF Leaves
<1>5. p \in Paths /\ Reading /\ DOMAIN <<>> = {}
  BY DEF Basics, TypeOK, Reading
<1>6. \A n \in DOMAIN results : results[n].identity # i
  BY <1>5, OtherResults
<1>7. /\ \A n \in DOMAIN results : n \in DOMAIN rs /\ rs[n] = results[n]
      /\ \A n \in DOMAIN rs : n \in DOMAIN results \/ rs[n] = r
      /\ \A m, n \in DOMAIN rs : m \notin DOMAIN results /\ n \notin DOMAIN results => m = n
      /\ \E n \in DOMAIN rs : rs[n] = r
  <2>1. Len(results) + 1 \in DOMAIN rs /\ rs[Len(results) + 1] = r
    BY <1>2, ResultType DEF IsAppended, Basics
  <2>2. QED
    BY <2>1, <1>2 DEF IsAppended
<1>8. ASSUME NEW j \in Inodes, j # i PROVE Spared(j)
  <2>1. ASSUME NEW k \in DOMAIN file[j].ids, file[j].ids[k] \in Taken'
        PROVE  file[j].ids[k] \in Taken
    <3>1. file[j].ids[k] \notin Ids(r)
      BY <1>8 DEF Basics, Files, Unique
    <3>2. QED
      BY <3>1, <2>1, <1>2, <1>3, <1>4, AppendedTaken
  <2>2. QED
    BY <2>1, <1>3 DEF Spared
<1>9. LiveAhead'
  <2>1. Stamped(e, i)'
    BY <1>3 DEF Stamped, Matches
  <2>2. \A j \in Inodes : j # dir[p] => Spared(j)
    BY <1>8
  <2>3. QED
    BY <2>1, <2>2, <1>3, <1>5, VisitLive
<1>10. LatestAhead'
  <2>1. SUFFICES ASSUME phase # "cancelled", results' = rs
                 PROVE  (/\ \A n \in DOMAIN results :
                              Ahead(results[n].identity, results[n].offset, results[n].hash)
                         /\ \A j \in Inodes \ Read_ : CursorAhead(j))'
    BY <1>3, <1>4 DEF LatestAhead
  <2>2. ASSUME NEW n \in DOMAIN rs
        PROVE  Ahead(results[n].identity, results[n].offset, results[n].hash)'
    <3>1. CASE n \in DOMAIN results
      <4>1. PICK j, x, y : /\ j = results[n].identity /\ x = results[n].offset
                           /\ y = results[n].hash
        OBVIOUS
      <4>2. j \in Inodes /\ j # i
        BY <4>1, <3>1, <1>6, ResultType DEF Basics
      <4>3. Ahead(j, x, y)
        BY <2>1, <3>1, <4>1 DEF Fresh, LatestAhead
      <4>4. Ahead(j, x, y)'
        BY <4>2, <4>3, <1>8, AheadSpared
      <4>5. results'[n] = results[n]
        BY <2>1, <3>1, <1>7
      <4>6. QED
        BY <4>1, <4>4, <4>5 DEF Ahead, Matches
    <3>2. CASE n \notin DOMAIN results
      <4>1. results'[n] = r
        BY <2>1, <2>2, <3>2, <1>7
      <4>2. QED
        BY <4>1 DEF Ahead, Matches
    <3>3. QED
      BY <3>1, <3>2
  <2>3. ASSUME NEW j \in Inodes, j \notin Read_' PROVE CursorAhead(j)'
    <3>1. j \notin Read_ /\ j # i
      BY <2>1, <2>3, <1>7 DEF Read_
    <3>2. QED
      BY <2>1, <3>1, <1>3, <1>8, CursorSpared DEF Fresh, LatestAhead
  <2>4. QED
    BY <2>1, <2>2, <2>3
<1>11. OneResult'
  <2>1. CASE results' = rs
    <3>1. ASSUME NEW m \in DOMAIN rs, NEW n \in DOMAIN rs, rs[m].identity = rs[n].identity
          PROVE  m = n
      <4>1. CASE m \in DOMAIN results /\ n \in DOMAIN results
        BY <3>1, <4>1, <1>7 DEF Fresh, OneResult
      <4>2. CASE m \notin DOMAIN results /\ n \notin DOMAIN results
        BY <4>2, <1>7
      <4>3. CASE m \in DOMAIN results /\ n \notin DOMAIN results
        BY <3>1, <4>3, <1>6, <1>7
      <4>4. CASE m \notin DOMAIN results /\ n \in DOMAIN results
        BY <3>1, <4>4, <1>6, <1>7
      <4>5. QED
        BY <4>1, <4>2, <4>3, <4>4
    <3>2. ASSUME NEW n \in DOMAIN rs
          PROVE  \E q \in Paths \ todo' : dir'[q] = rs[n].identity
      <4>1. CASE n \in DOMAIN results
        BY <4>1, <1>3, <1>4, <1>5, <1>7 DEF Fresh, OneResult
      <4>2. CASE n \notin DOMAIN results
        <5>1. rs[n].identity = dir'[p] /\ p \in Paths \ todo'
          BY <4>2, <3>2, <1>3, <1>4, <1>5, <1>7
        <5>2. QED
          BY <5>1
      <4>3. QED
        BY <4>1, <4>2
    <3>3. QED
      BY <2>1, <3>1, <3>2 DEF OneResult
  <2>2. CASE results' = <<>>
    BY <2>2, <1>5 DEF OneResult
  <2>3. QED
    BY <1>4, <2>1, <2>2
<1>12. QueuedOnce'
  <2>1. CASE results' = rs
    BY <2>1, <1>2, <1>3, AppendedOnce
  <2>2. CASE results' = <<>>
    BY <2>2, <1>5 DEF QueuedOnce
  <2>3. QED
    BY <1>4, <2>1, <2>2
<1>13. Steady'
  BY <1>4 DEF Steady
<1>14. QED
  BY <1>9, <1>10, <1>11, <1>12, <1>13 DEF Fresh

(* Without lines, the file is as ahead as it was.                          *)
LEMMA ListsNothingFresh ==
  ASSUME Basics, Fresh, NEW p \in todo, at \in {"stat", "head", "read"}, NEW e,
         Remembers(e), Lists(p, e, ResultOf(e)),
         NEW i \in Inodes, i = dir[p], NEW o, NEW h,
         e.identity = i, e.offset = o, e.hash = h, Ahead(i, o, h), Stamped(e, i)
  PROVE  Fresh'
<1>1. PICK r : r = ResultOf(e)
  OBVIOUS
<1>2. /\ r \in TailReadResult /\ r.identity = i /\ r.offset = o /\ r.hash = h
      /\ r.lines = <<>>
  BY <1>1, ResultOfEntry DEF Sent
<1>3. Lists(p, e, r)
  BY <1>1
<1>4. DOMAIN r.lines = {} /\ Ids(r) = {}
  BY <1>2 DEF Ids
<1>5. PICK rs : rs = Append(results, r)
  OBVIOUS
<1>6. IsAppended(rs, r)
  BY <1>2, <1>5, AppendedFacts DEF Basics
<1>7. Leaves(p, rs) /\ UNCHANGED <<file, sent>>
  BY <1>3, <1>5, DoneLeaves, StaticFacts DEF Lists
<1>8. Taken' \subseteq Taken
  BY <1>4, <1>6, <1>7, AppendedTaken DEF Leaves
<1>9. Ahead(i, o, h)'
  BY <1>7, <1>8, AllSpared, AheadSpared
<1>10. QED
  BY <1>2, <1>3, <1>4, <1>9, ListsFresh

LEMMA CursorEntryFresh ==
  ASSUME Basics, NEW i \in Inodes, NEW start \in 0 .. 2 * MaxLines, CursorAhead(i),
         NEW e, e = FromCursor(i, start), NEW o, o = e.offset, NEW h, h = e.hash
  PROVE  Ahead(i, o, h) /\ Stamped(e, i)
<1>1. Stamped(e, i)
  BY FromCursorFacts DEF Stamped
<1>2. CASE mem.files[i] = None
  <2>1. h = None /\ Untouched(i)
    BY <1>2, FromCursorFacts DEF CursorAhead
  <2>2. ~Matches(h, i)
    <3>1. SUFFICES ASSUME file[i].ids # <<>> PROVE None # <<file[i].ids[1], 2>>
      BY <2>1 DEF Matches
    <3>2. file[i].ids[1] \in LineIds
      BY <3>1, BegunFile DEF Basics
    <3>3. <<file[i].ids[1], 2>> \in Heads
      BY <3>2 DEF Heads, LineIds
    <3>4. QED
      BY <3>3, Constants
  <2>3. QED
    BY <2>1, <2>2, <1>1 DEF Ahead, Untouched
<1>3. CASE mem.files[i] # None
  <2>1. o = mem.files[i].offset /\ h = mem.files[i].hash
    BY <1>3, FromCursorFacts
  <2>2. QED
    BY <2>1, <1>1, <1>3 DEF CursorAhead
<1>4. QED
  BY <1>2, <1>3

LEMMA StatFresh ==
  ASSUME Basics, Fresh, NEW p \in Paths, Stat(p)
  PROVE  Fresh'
<1>1. p \in todo /\ at = "stat" /\ tracked[p] # None /\ phase = "up" /\ Reading
  BY StatVisits DEF Reading
<1>2. CASE dir[p] = None
  BY <1>1, <1>2, StatVisits, PassesFresh
<1>3. CASE dir[p] # None
  <2>1. PICK i, sz, mt, b, e : /\ i = dir[p] /\ sz = file[i].size /\ mt = file[i].mtime
                               /\ b = Base(p) /\ e = Truncated(b, sz)
    OBVIOUS
  <2>2. \/ Looks(p, e, "head", sz, mt)
        \/ ~FingerprintDue(e, sz, mt) /\ Looks(p, e, "read", sz, mt)
        \/ ~FingerprintDue(e, sz, mt) /\ Lists(p, e, ResultOf(e))
    BY <2>1, <1>3, StatVisits
  <2>3. i \in Inodes /\ Remembers(b) /\ b.identity = i
    BY <1>1, <1>3, <2>1, BaseFacts
  <2>4. sz \in Nat /\ mt \in Nat
    BY <2>1, <2>3, SizeType
  <2>5. /\ Remembers(e) /\ e.identity = i /\ e.hash = b.hash
        /\ e.last_size = b.last_size /\ e.last_mtime = b.last_mtime
        /\ e.offset \in Nat /\ e.offset <= sz
        /\ e.offset = IF sz < b.offset THEN 0 ELSE b.offset
    <3>1. e = Truncated(b, sz)
      BY <2>1
    <3>2. /\ Remembers(e) /\ e.identity = b.identity /\ e.hash = b.hash
          /\ e.last_size = b.last_size /\ e.last_mtime = b.last_mtime
          /\ e.offset \in Nat /\ e.offset <= sz
          /\ e.offset = IF sz < b.offset THEN 0 ELSE b.offset
      BY <3>1, <2>3, <2>4, TruncatedFacts
    <3>3. QED
      BY <3>2, <2>3
  <2>6. PICK x, o, h : x = b.offset /\ o = e.offset /\ h = e.hash
    OBVIOUS
  <2>7. Ahead(i, x, h) /\ Stamped(b, i)
    <3>1. CASE tracked[p].identity = dir[p]
      <4>1. Live(p) /\ b = tracked[p]
        BY <3>1, <2>1, <1>1 DEF Base, Live
      <4>2. QED
        BY <4>1, <2>1, <2>5, <2>6 DEF Fresh, LiveAhead
    <3>2. CASE tracked[p].identity # dir[p]
      <4>1. b = FromCursor(i, 0) /\ 0 \in 0 .. 2 * MaxLines
        BY <3>2, <2>1, Constants DEF Base
      <4>2. i \notin Read_
        BY <2>1, <1>1, OtherResults DEF Read_
      <4>3. CursorAhead(i)
        BY <4>2, <2>3, <1>1 DEF Fresh, LatestAhead
      <4>4. h = b.hash
        BY <2>5, <2>6
      <4>5. QED
        BY <4>1, <4>3, <4>4, <2>3, <2>6, CursorEntryFresh
    <3>3. QED
      BY <3>1, <3>2
  <2>8. Stamped(e, i)
    BY <2>5, <2>7 DEF Stamped
  <2>9. Ahead(i, o, h)
    <3>1. CASE o = x
      BY <3>1, <2>7
    <3>2. CASE sz < x
      <4>1. x \in Nat
        BY <2>3, <2>6, Constants DEF Remembers, Tracked
      <4>2. ~Matches(h, i)
        BY <4>1, <3>2, <2>1, <2>4, <2>7 DEF Ahead
      <4>3. QED
        BY <4>2, <2>7 DEF Ahead
    <3>3. QED
      BY <3>1, <3>2, <2>5, <2>6
  <2>10. ASSUME ~FingerprintDue(e, sz, mt), sz >= 2 PROVE Matches(h, i)
    <3>1. e.last_mtime = mt /\ e.last_size = sz /\ mt # None
      BY <2>10, <2>4, Constants DEF FingerprintDue
    <3>2. FileShape(i)
      BY <2>3 DEF Basics, Files
    <3>3. Len(file[i].ids) = (sz + 1) \div 2
      BY <3>2, <2>1 DEF FileShape
    <3>4. Len(file[i].ids) # 0
      <4>1. (sz + 1) \div 2 # 0
        BY <2>4, <2>10
      <4>2. QED
        BY <3>3, <4>1
    <3>5. file[i].ids # <<>>
      BY <3>4
    <3>6. file[i].ids[1] <= mt
      BY <3>2, <3>5, <2>1, <2>3, BegunFile DEF FileShape, Basics
    <3>7. QED
      BY <3>1, <3>5, <3>6, <2>6, <2>8, <2>10 DEF Stamped
  <2>11. o <= sz /\ sz <= file[i].size
    BY <2>1, <2>4, <2>5, <2>6
  <2>12. ASSUME NEW next \in {"head", "read"}, Looks(p, e, next, sz, mt),
                next = "read" => ~FingerprintDue(e, sz, mt)
         PROVE  Fresh'
    BY <2>12, <2>1, <2>5, <2>6, <2>8, <2>9, <2>10, <2>11, <1>1, LooksFresh
  <2>13. ASSUME Lists(p, e, ResultOf(e)) PROVE Fresh'
    BY <2>13, <2>1, <2>3, <2>5, <2>6, <2>8, <2>9, <1>1, ListsNothingFresh
  <2>14. QED
    BY <2>2, <2>12, <2>13
<1>4. QED
  BY <1>2, <1>3

LEMMA FingerprintFresh ==
  ASSUME Basics, Fresh, Fingerprint
  PROVE  Fresh'
<1>1. PICK b, e, i : b = tracked[path] /\ e = Seen /\ i = dir[path]
  OBVIOUS
<1>2. /\ path \in todo /\ path \in Paths /\ at = "head" /\ b # None
      /\ (Looks(path, e, "read", size, mtime) \/ Lists(path, e, ResultOf(e)))
  BY <1>1, FingerprintVisits
<1>3. i = b.identity /\ i \in Inodes /\ i # None /\ b.offset \in Nat
  BY <1>1, <1>2, TrackedType, Constants DEF Fresh, Steady, Basics
<1>4. PICK h : h = FirstLine(file[i])
  OBVIOUS
<1>5. /\ Curr = h /\ h \in Heads /\ h # None
      /\ Matches(h, i) => file[i].size >= 2
      /\ file[i].size >= 2 => Matches(h, i)
  BY <1>1, <1>3, <1>4, FirstLineFacts DEF Curr
<1>6. /\ Remembers(e) /\ e.identity = i /\ e.hash = h /\ e.last_size = size
      /\ size \in Nat
      /\ e.offset = IF Rewritten THEN 0 ELSE b.offset
  BY <1>1, <1>2, <1>3, <1>5, SeenFacts
<1>7. PICK x, y, o : x = b.offset /\ y = b.hash /\ o = e.offset
  OBVIOUS
<1>8. Ahead(i, x, y) /\ x <= size /\ size <= file[i].size
  BY <1>1, <1>2, <1>3, <1>7 DEF Fresh, LiveAhead, Live, Steady
<1>9. file[i].size \in Nat /\ x \in Nat /\ o \in Nat /\ o <= x
  BY <1>3, <1>6, <1>7, SizeType
<1>10. size >= 2 => Matches(h, i)
  BY <1>5, <1>6, <1>8, <1>9
<1>11. Ahead(i, o, h)
  <2>1. ASSUME NEW k \in DOMAIN file[i].ids, file[i].ids[k] \in Taken
        PROVE  k <= o \div 2 /\ Matches(h, i)
    <3>1. k <= x \div 2 /\ Matches(y, i)
      BY <2>1, <1>8 DEF Ahead
    <3>2. file[i].size >= 2
      BY <3>1, <1>8 DEF Ahead
    <3>3. Matches(h, i) /\ y = h
      BY <3>1, <3>2, <1>5 DEF Matches
    <3>4. ~Rewritten
      BY <3>3, <1>1, <1>5, <1>7 DEF Rewritten
    <3>5. o = x
      BY <3>4, <1>6, <1>7
    <3>6. QED
      BY <3>1, <3>3, <3>5
  <2>2. Matches(h, i) => file[i].size >= 2 /\ o <= file[i].size
    BY <1>5, <1>6, <1>8, <1>9
  <2>3. QED
    BY <2>1, <2>2 DEF Ahead
<1>12. Stamped(e, i)
  <2>1. e.last_size >= 2 => Matches(h, i)
    BY <1>6, <1>10
  <2>2. QED
    BY <2>1, <1>6 DEF Stamped
<1>13. o <= size
  BY <1>6, <1>8, <1>9
<1>14. CASE Looks(path, e, "read", size, mtime)
  <2>1. at \in {"stat", "head", "read"}
    BY <1>2
  <2>2. QED
    BY <2>1, <1>1, <1>2, <1>6, <1>7, <1>8, <1>10, <1>11, <1>12, <1>13, <1>14, LooksFresh
<1>15. CASE Lists(path, e, ResultOf(e))
  BY <1>1, <1>2, <1>3, <1>6, <1>7, <1>11, <1>12, <1>15, ListsNothingFresh
<1>16. QED
  BY <1>2, <1>14, <1>15

LEMMA ReadFresh ==
  ASSUME Basics, Fresh, Read
  PROVE  Fresh'
<1>1. path \in todo /\ path \in Paths /\ at = "read" /\ tracked[path] # None
  BY ReadVisits
<1>2. PICK b, i, o : b = tracked[path] /\ i = dir[path] /\ o = b.offset
  OBVIOUS
<1>3. PICK n, ls : n = NewOffset(file[i], o) /\ ls = NewLines(file[i], o)
  OBVIOUS
<1>4. PICK e : e = [b EXCEPT !.offset = n]
  OBVIOUS
<1>5. PICK r, h : r = Result(e, ls) /\ h = b.hash
  OBVIOUS
<1>6. i = b.identity /\ i # None
  BY <1>1, <1>2, TrackedType, Constants DEF Fresh, Steady, Basics
<1>7. /\ i \in Inodes /\ Remembers(b) /\ o \in 0 .. 2 * MaxLines
      /\ Remembers(e) /\ e.identity = i /\ e.offset = n /\ e.hash = h
      /\ e.last_size = b.last_size /\ e.last_mtime = b.last_mtime
      /\ Sent(r) /\ r.identity = i /\ r.offset = n /\ r.hash = h
      /\ r.lines = ls
      /\ Lists(path, e, r)
  BY <1>2, <1>3, <1>4, <1>5, <1>6, ReadLists
<1>8. Finds(i, o, n, ls)
  BY <1>3, <1>7, ReadFacts
<1>9. PICK y, z : y = n \div 2 /\ z = o \div 2
  OBVIOUS
<1>10. /\ n \in Nat /\ o \in Nat /\ o <= n
       /\ n # o => n <= file[i].size /\ size >= 2
       /\ y \in Nat /\ z \in Nat /\ z <= y
       /\ DOMAIN ls = 1 .. y - z
       /\ \A m \in DOMAIN ls : z + m \in DOMAIN file[i].ids /\ ls[m].id = file[i].ids[z + m]
  <2>1. /\ n \in Nat /\ o \in Nat /\ o <= n
        /\ n # o => n <= file[i].size /\ size >= 2
        /\ DOMAIN ls = 1 .. y - z
        /\ \A m \in DOMAIN ls :
             z + m \in DOMAIN file[i].ids
             /\ ls[m] = [id |-> file[i].ids[z + m], whole |-> o <= 2 * (z + m - 1)]
    BY <1>8, <1>9 DEF Finds
  <2>2. y \in Nat /\ z \in Nat /\ z <= y
    BY <2>1, <1>9
  <2>3. \A m \in DOMAIN ls : ls[m].id = file[i].ids[z + m]
    BY <2>1
  <2>4. QED
    BY <2>1, <2>2, <2>3
<1>11. Ahead(i, o, h) /\ Stamped(b, i) /\ (size >= 2 => Matches(h, i))
  BY <1>1, <1>2, <1>5, <1>6 DEF Fresh, LiveAhead, Live, Steady
<1>12. \A k, m \in DOMAIN file[i].ids : file[i].ids[k] = file[i].ids[m] => k = m
  BY <1>7 DEF Basics, Files, Unique
<1>13. DOMAIN file[i].ids \subseteq Nat /\ \A k \in DOMAIN file[i].ids : file[i].ids[k] \in LineIds
  <2>1. /\ DOMAIN file[i].ids = 1 .. Len(file[i].ids)
        /\ \A k \in 1 .. Len(file[i].ids) : file[i].ids[k] \in LineIds
    BY <1>7, FileType DEF Basics
  <2>2. QED
    BY <2>1
<1>14. \A l \in Ids(r) : l \notin Taken /\ l \in 1 .. MaxLines
                         /\ \E k \in DOMAIN file[i].ids : file[i].ids[k] = l
  <2>1. SUFFICES ASSUME NEW m \in DOMAIN ls
                 PROVE  /\ ls[m].id \notin Taken /\ ls[m].id \in 1 .. MaxLines
                        /\ \E k \in DOMAIN file[i].ids : file[i].ids[k] = ls[m].id
    BY <1>7 DEF Ids
  <2>2. PICK k : k = z + m
    OBVIOUS
  <2>3. k \in DOMAIN file[i].ids /\ ls[m].id = file[i].ids[k] /\ k > z
    BY <2>2, <1>10
  <2>4. file[i].ids[k] \notin Taken
    <3>1. SUFFICES ASSUME file[i].ids[k] \in Taken PROVE FALSE
      OBVIOUS
    <3>2. k <= z
      BY <3>1, <2>3, <1>9, <1>11 DEF Ahead
    <3>3. QED
      BY <3>2, <2>3, <1>10, <1>13
  <2>5. QED
    BY <2>3, <2>4, <1>13 DEF LineIds
<1>15. \A m, w \in DOMAIN r.lines : r.lines[m].id = r.lines[w].id => m = w
  <2>1. SUFFICES ASSUME NEW m \in DOMAIN ls, NEW w \in DOMAIN ls, ls[m].id = ls[w].id
                 PROVE  m = w
    BY <1>7
  <2>2. z + m = z + w
    BY <2>1, <1>10, <1>12
  <2>3. m \in Nat /\ w \in Nat
    BY <1>10
  <2>4. QED
    BY <2>2, <2>3, <1>10
<1>16. PICK rs : rs = Append(results, r)
  OBVIOUS
<1>17. r \in TailReadResult /\ IsAppended(rs, r)
  BY <1>7, <1>16, AppendedFacts DEF Sent, Basics
<1>18. Leaves(path, rs) /\ UNCHANGED <<file, sent>>
  BY <1>1, <1>7, <1>16, DoneLeaves, StaticFacts DEF Lists
<1>19. Ahead(i, n, h)'
  <2>1. ASSUME NEW k \in DOMAIN file[i].ids, file[i].ids[k] \in Taken'
        PROVE  k <= y /\ Matches(h, i)
    <3>1. CASE file[i].ids[k] \in Taken
      <4>1. k <= z /\ Matches(h, i)
        BY <3>1, <1>9, <1>11 DEF Ahead
      <4>2. QED
        BY <4>1, <1>10, <1>13
    <3>2. CASE file[i].ids[k] \notin Taken
      <4>1. file[i].ids[k] \in Ids(r)
        BY <3>2, <2>1, <1>17, <1>18, AppendedTaken DEF Leaves
      <4>2. PICK m \in DOMAIN ls : file[i].ids[k] = ls[m].id
        BY <4>1, <1>7 DEF Ids
      <4>3. k = z + m
        BY <4>2, <1>10, <1>12
      <4>4. m \in 1 .. y - z
        BY <1>10
      <4>5. k <= y /\ y # z
        BY <4>3, <4>4, <1>10
      <4>6. n # o
        BY <4>5, <1>9
      <4>7. QED
        BY <4>5, <4>6, <1>10, <1>11
    <3>3. QED
      BY <3>1, <3>2
  <2>2. Matches(h, i) => file[i].size >= 2 /\ n <= file[i].size
    BY <1>10, <1>11 DEF Ahead
  <2>3. QED
    BY <2>1, <2>2, <1>9, <1>18 DEF Ahead, Matches
<1>20. Stamped(e, i)
  BY <1>5, <1>7, <1>11 DEF Stamped
<1>21. at \in {"stat", "head", "read"}
  BY <1>1
<1>22. QED
  BY <1>1, <1>2, <1>7, <1>14, <1>15, <1>17, <1>19, <1>20, <1>21, ListsFresh

LEMMA SendLineFresh ==
  ASSUME Basics, Fresh, SendLine
  PROVE  Fresh'
<1>1. /\ 1 \in DOMAIN results /\ DOMAIN results' = DOMAIN results
      /\ 1 \in DOMAIN results[1].lines
      /\ UNCHANGED <<dir, file, phase, mem, tracked, at, todo>> /\ at = "send"
      /\ sent' \subseteq sent \cup {results[1].lines[1].id}
  BY SendFacts DEF SendLine, diskVars, processVars, bounds
<1>2. \A n \in DOMAIN results :
        /\ results'[n].identity = results[n].identity
        /\ results'[n].offset = results[n].offset /\ results'[n].hash = results[n].hash
  BY SendFacts
<1>3. PICK to \in [DOMAIN results -> {0, 1}] : to = [a \in DOMAIN results |-> IF a = 1 THEN 1 ELSE 0]
  OBVIOUS
<1>4. ASSUME NEW a \in DOMAIN results, NEW b \in DOMAIN results'[a].lines
      PROVE  /\ b \in Nat /\ b + to[a] \in DOMAIN results[a].lines
             /\ results'[a].lines[b] = results[a].lines[b + to[a]]
             /\ a = 1 => b + to[a] # 1
  <2>1. CASE a = 1
    <3>1. to[a] = 1
      BY <2>1, <1>3, <1>4
    <3>2. /\ b \in Nat /\ b + 1 \in DOMAIN results[1].lines
          /\ results'[1].lines[b] = results[1].lines[b + 1]
      BY <2>1, <1>4, SendFacts
    <3>3. b + 1 # 1
      <4>1. results' \in Seq(TailReadResult) /\ 1 \in DOMAIN results'
        BY <1>1, SendFacts
      <4>2. results'[1] \in TailReadResult
        BY <4>1
      <4>3. results'[1].lines \in Seq(Line)
        BY <4>2 DEF TailReadResult
      <4>4. DOMAIN results'[1].lines = 1 .. Len(results'[1].lines)
        BY <4>3
      <4>5. b >= 1
        BY <4>4, <2>1, <1>4
      <4>6. QED
        BY <3>2, <4>5
    <3>4. QED
      BY <2>1, <3>1, <3>2, <3>3
  <2>2. CASE a # 1
    <3>1. results'[a] = results[a] /\ to[a] = 0
      BY <2>2, <1>3, <1>4, SendFacts
    <3>2. b \in Nat /\ b \in DOMAIN results[a].lines
      BY <3>1, <1>4, LinesType DEF Basics
    <3>3. QED
      BY <2>2, <3>1, <3>2
  <2>3. QED
    BY <2>1, <2>2
<1>5. Queued' \subseteq Queued
  <2>1. SUFFICES ASSUME NEW l \in 1 .. MaxLines, NEW a \in DOMAIN results,
                        NEW b \in DOMAIN results'[a].lines, results'[a].lines[b].id = l
                 PROVE  l \in Queued
    BY <1>1 DEF Queued
  <2>2. QED
    BY <2>1, <1>4 DEF Queued
<1>6. results[1].lines[1].id \in Queued
  BY <1>1, LinesType DEF Basics, Queued, LineIds
<1>7. Taken' \subseteq Taken
  BY <1>1, <1>5, <1>6 DEF Taken
<1>8. ASSUME NEW j PROVE Spared(j)
  BY <1>1, <1>7, AllSpared
<1>9. LiveAhead'
  <2>1. SUFFICES ASSUME NEW q \in Paths, Live(q)
                 PROVE  (Ahead(dir[q], tracked[q].offset, tracked[q].hash)
                           /\ Stamped(tracked[q], dir[q]))'
    BY <1>1 DEF LiveAhead, Live
  <2>2. PICK e, i, o, h : /\ e = tracked[q] /\ i = dir[q] /\ o = e.offset /\ h = e.hash
    OBVIOUS
  <2>3. Ahead(i, o, h) /\ Stamped(e, i)
    BY <2>1, <2>2 DEF Fresh, LiveAhead
  <2>4. Ahead(i, o, h)' /\ Stamped(e, i)'
    BY <2>3, <1>8, AheadSpared
  <2>5. QED
    BY <2>2, <2>4, <1>1 DEF Ahead, Stamped, Matches
<1>10. LatestAhead'
  <2>1. SUFFICES ASSUME phase # "cancelled"
                 PROVE  (/\ \A n \in DOMAIN results :
                              Ahead(results[n].identity, results[n].offset, results[n].hash)
                         /\ \A j \in Inodes \ Read_ : CursorAhead(j))'
    BY <1>1 DEF LatestAhead
  <2>2. ASSUME NEW n \in DOMAIN results
        PROVE  Ahead(results[n].identity, results[n].offset, results[n].hash)'
    <3>1. PICK i, o, h : /\ i = results[n].identity /\ o = results[n].offset
                         /\ h = results[n].hash
      OBVIOUS
    <3>2. Ahead(i, o, h)
      BY <2>1, <3>1 DEF Fresh, LatestAhead
    <3>3. Ahead(i, o, h)'
      BY <3>2, <1>8, AheadSpared
    <3>4. QED
      BY <3>1, <3>3, <1>2 DEF Ahead, Matches
  <2>3. ASSUME NEW j \in Inodes, j \notin Read_ PROVE CursorAhead(j)'
    BY <2>1, <2>3, <1>1, <1>8, CursorSpared DEF Fresh, LatestAhead
  <2>4. Read_' = Read_
    BY <1>1, <1>2 DEF Read_
  <2>5. QED
    BY <1>1, <2>2, <2>3, <2>4
<1>11. OneResult'
  BY <1>1, <1>2 DEF Fresh, OneResult, Reading
<1>12. QueuedOnce'
  <2>1. SUFFICES ASSUME NEW a \in DOMAIN results, NEW c \in DOMAIN results,
                        NEW b \in DOMAIN results'[a].lines, NEW d \in DOMAIN results'[c].lines
                 PROVE  /\ results'[a].lines[b].id \notin sent'
                        /\ results'[a].lines[b].id = results'[c].lines[d].id => a = c /\ b = d
    BY <1>1 DEF QueuedOnce
  <2>2. PICK v, w : v = b + to[a] /\ w = d + to[c]
    OBVIOUS
  <2>3. /\ v \in DOMAIN results[a].lines /\ w \in DOMAIN results[c].lines
        /\ results'[a].lines[b] = results[a].lines[v]
        /\ results'[c].lines[d] = results[c].lines[w]
        /\ a = 1 => v # 1
        /\ b \in Nat /\ d \in Nat
    BY <2>1, <2>2, <1>4
  <2>4. /\ results[a].lines[v].id \notin sent
        /\ results[a].lines[v].id = results[c].lines[w].id => a = c /\ v = w
        /\ results[a].lines[v].id = results[1].lines[1].id => a = 1 /\ v = 1
    BY <2>1, <2>3, <1>1 DEF Fresh, QueuedOnce
  <2>5. results'[a].lines[b].id \notin sent'
    BY <2>3, <2>4, <1>1
  <2>6. a = c /\ v = w => b = d
    <3>1. to[a] \in {0, 1}
      BY <1>3, <2>1
    <3>2. QED
      BY <3>1, <2>2, <2>3
  <2>7. QED
    BY <2>3, <2>4, <2>5, <2>6
<1>13. Steady'
  BY <1>1 DEF Steady
<1>14. QED
  BY <1>9, <1>10, <1>11, <1>12, <1>13 DEF Fresh

LEMMA SetCursorFresh ==
  ASSUME Basics, Fresh, SetCursor
  PROVE  Fresh'
<1>1. PICK r : r = results[1]
  OBVIOUS
<1>2. /\ results # <<>> /\ 1 \in DOMAIN results /\ r.identity \in Inodes
      /\ \A j \in Inodes : j # r.identity => mem'.files[j] = mem.files[j]
      /\ mem'.files[r.identity] # None
      /\ mem'.files[r.identity].offset = r.offset /\ mem'.files[r.identity].hash = r.hash
      /\ UNCHANGED <<dir, file, phase, tracked, todo, sent>>
      /\ at = "send" /\ at' \in {"idle", "send"}
      /\ Shifted(results') \/ (phase = "cancelled" /\ results' = <<>>)
  BY <1>1, SetCursorFacts
<1>3. \A n \in DOMAIN results' :
        n \in Nat /\ n + 1 \in DOMAIN results /\ results'[n] = results[n + 1]
  <2>1. results' = <<>> => DOMAIN results' = {}
    OBVIOUS
  <2>2. QED
    BY <2>1, <1>2 DEF Shifted
<1>4. Taken' \subseteq Taken
  <2>1. Queued' \subseteq Queued
    BY <1>3 DEF Queued
  <2>2. QED
    BY <2>1, <1>2 DEF Taken
<1>5. ASSUME NEW j PROVE Spared(j)
  BY <1>2, <1>4, AllSpared
<1>6. LiveAhead'
  <2>1. SUFFICES ASSUME NEW q \in Paths, Live(q)
                 PROVE  (Ahead(dir[q], tracked[q].offset, tracked[q].hash)
                           /\ Stamped(tracked[q], dir[q]))'
    BY <1>2 DEF LiveAhead, Live
  <2>2. PICK e, i, o, h : /\ e = tracked[q] /\ i = dir[q] /\ o = e.offset /\ h = e.hash
    OBVIOUS
  <2>3. Ahead(i, o, h) /\ Stamped(e, i)
    BY <2>1, <2>2 DEF Fresh, LiveAhead
  <2>4. Ahead(i, o, h)' /\ Stamped(e, i)'
    BY <2>3, <1>5, AheadSpared
  <2>5. QED
    BY <2>2, <2>4, <1>2 DEF Ahead, Stamped, Matches
<1>7. LatestAhead'
  <2>1. SUFFICES ASSUME phase # "cancelled"
                 PROVE  (/\ \A n \in DOMAIN results :
                              Ahead(results[n].identity, results[n].offset, results[n].hash)
                         /\ \A j \in Inodes \ Read_ : CursorAhead(j))'
    BY <1>2 DEF LatestAhead
  <2>2. \A m \in DOMAIN results :
          \A i, o, h : i = results[m].identity /\ o = results[m].offset /\ h = results[m].hash
            => Ahead(i, o, h)'
    <3>1. SUFFICES ASSUME NEW m \in DOMAIN results, NEW i, NEW o, NEW h,
                          i = results[m].identity, o = results[m].offset, h = results[m].hash
                   PROVE  Ahead(i, o, h)'
      OBVIOUS
    <3>2. Ahead(i, o, h)
      BY <2>1, <3>1 DEF Fresh, LatestAhead
    <3>3. QED
      BY <3>2, <1>5, AheadSpared
  <2>3. ASSUME NEW n \in DOMAIN results'
        PROVE  Ahead(results[n].identity, results[n].offset, results[n].hash)'
    <3>1. PICK i, o, h : /\ i = results'[n].identity /\ o = results'[n].offset
                         /\ h = results'[n].hash
      OBVIOUS
    <3>2. Ahead(i, o, h)'
      <4>1. PICK m \in DOMAIN results : results'[n] = results[m]
        BY <2>3, <1>3
      <4>2. QED
        BY <4>1, <3>1, <2>2
    <3>3. QED
      BY <3>1, <3>2 DEF Ahead, Matches
  <2>4. ASSUME NEW j \in Inodes, j \notin Read_' PROVE CursorAhead(j)'
    <3>1. CASE j = r.identity
      <4>1. PICK o, h : o = r.offset /\ h = r.hash
        OBVIOUS
      <4>2. Ahead(j, o, h)'
        BY <4>1, <3>1, <2>2, <1>1, <1>2
      <4>3. QED
        BY <4>1, <4>2, <3>1, <1>2 DEF CursorAhead, Ahead, Matches
    <3>2. CASE j # r.identity
      <4>1. j \notin Read_
        <5>1. SUFFICES ASSUME NEW n \in DOMAIN results, results[n].identity = j PROVE FALSE
          BY DEF Read_
        <5>2. n # 1
          BY <5>1, <3>2, <1>1
        <5>3. n - 1 \in DOMAIN results' /\ results'[n - 1] = results[n]
          BY <5>2, <2>1, <1>2 DEF Shifted
        <5>4. QED
          BY <5>1, <5>3, <2>4 DEF Read_
      <4>2. QED
        BY <4>1, <3>2, <2>1, <1>2, <1>5, CursorSpared DEF Fresh, LatestAhead
    <3>3. QED
      BY <3>1, <3>2
  <2>5. QED
    BY <2>3, <2>4
<1>8. OneResult'
  <2>1. SUFFICES ASSUME NEW m \in DOMAIN results', NEW n \in DOMAIN results',
                        results'[m].identity = results'[n].identity
                 PROVE  m = n
    BY <1>2 DEF OneResult, Reading
  <2>2. m + 1 = n + 1
    BY <2>1, <1>3 DEF Fresh, OneResult
  <2>3. QED
    BY <2>1, <2>2, <1>3
<1>9. QueuedOnce'
  <2>1. SUFFICES ASSUME NEW a \in DOMAIN results', NEW c \in DOMAIN results',
                        NEW b \in DOMAIN results'[a].lines, NEW d \in DOMAIN results'[c].lines
                 PROVE  /\ results'[a].lines[b].id \notin sent
                        /\ results'[a].lines[b].id = results'[c].lines[d].id => a = c /\ b = d
    BY <1>2 DEF QueuedOnce
  <2>2. PICK v, w : v = a + 1 /\ w = c + 1
    OBVIOUS
  <2>3. /\ v \in DOMAIN results /\ results'[a] = results[v]
        /\ w \in DOMAIN results /\ results'[c] = results[w]
        /\ (v = w => a = c)
    BY <2>1, <2>2, <1>3
  <2>4. /\ results[v].lines[b].id \notin sent
        /\ results[v].lines[b].id = results[w].lines[d].id => v = w /\ b = d
    BY <2>1, <2>3 DEF Fresh, QueuedOnce
  <2>5. QED
    BY <2>3, <2>4
<1>10. Steady'
  BY <1>2 DEF Steady
<1>11. QED
  BY <1>6, <1>7, <1>8, <1>9, <1>10 DEF Fresh

LEMMA DiscoverFresh ==
  ASSUME Basics, Fresh, Start \/ Rediscover
  PROVE  Fresh'
<1>1. /\ at = "idle" /\ at' = "idle" /\ results = <<>> /\ results' = <<>> /\ DOMAIN results = {}
      /\ UNCHANGED <<dir, file, sent>> /\ phase # "cancelled"
      /\ mem'.files = mem.files
      /\ \A p \in Paths : tracked'[p] # None =>
           /\ dir[p] # None
           /\ \/ tracked'[p] = tracked[p] /\ phase = "up"
              \/ \E start \in {0, file[dir[p]].size} : tracked'[p] = FromCursor(dir[p], start)
  BY DiscoverFacts
<1>2. Taken' = Taken /\ Read_ = {} /\ Read_' = {}
  BY <1>1 DEF Taken, Queued, Read_
<1>3. ASSUME NEW j PROVE Spared(j)
  BY <1>1, <1>2, AllSpared
<1>4. \A i \in Inodes : CursorAhead(i)
  BY <1>1, <1>2 DEF Fresh, LatestAhead
<1>5. LiveAhead'
  <2>1. SUFFICES ASSUME NEW p \in Paths, Live(p)'
                 PROVE  (Ahead(dir[p], tracked[p].offset, tracked[p].hash)
                           /\ Stamped(tracked[p], dir[p]))'
    BY DEF LiveAhead
  <2>2. PICK e, i, o, h : /\ e = tracked'[p] /\ i = dir[p] /\ o = e.offset /\ h = e.hash
    OBVIOUS
  <2>3. e # None /\ i = e.identity /\ i # None /\ i \in Inodes
    BY <2>1, <2>2, <1>1, PathType DEF Live, Basics
  <2>4. Ahead(i, o, h) /\ Stamped(e, i)
    <3>1. CASE tracked'[p] = tracked[p]
      BY <3>1, <2>2, <2>3 DEF Fresh, LiveAhead, Live
    <3>2. CASE tracked'[p] # tracked[p]
      <4>1. PICK start \in {0, file[i].size} : e = FromCursor(i, start)
        BY <3>2, <2>2, <2>3, <1>1
      <4>2. start \in 0 .. 2 * MaxLines
        BY <2>3, SizeType, Constants
      <4>3. QED
        BY <4>1, <4>2, <2>2, <2>3, <1>4, CursorEntryFresh
    <3>3. QED
      BY <3>1, <3>2
  <2>5. Ahead(i, o, h)' /\ Stamped(e, i)'
    BY <2>4, <1>3, AheadSpared
  <2>6. QED
    BY <2>2, <2>5, <1>1 DEF Ahead, Stamped, Matches
<1>6. LatestAhead'
  <2>1. ASSUME NEW i \in Inodes PROVE CursorAhead(i)'
    BY <1>1, <1>3, <1>4, CursorSpared
  <2>2. QED
    BY <2>1, <1>1 DEF LatestAhead
<1>7. OneResult' /\ QueuedOnce'
  BY <1>1 DEF OneResult, QueuedOnce
<1>8. Steady'
  BY <1>1 DEF Steady
<1>9. QED
  BY <1>5, <1>6, <1>7, <1>8 DEF Fresh

(* What neither reads nor sends anything.                                  *)
LEMMA QuietFresh ==
  ASSUME Basics, Fresh, UNCHANGED <<dir, file, tracked, sent, mem>>,
         \/ UNCHANGED <<at, todo, path, size, results>> /\ phase' \in {phase, "cancelled"}
         \/ at = "idle" /\ at' = "stat" /\ UNCHANGED <<phase, results>>
         \/ at' = "idle" /\ results' = <<>> /\ phase' = "cancelled"
  PROVE  Fresh'
<1>1. DOMAIN <<>> = {}
  OBVIOUS
<1>2. results' = results \/ (results' = <<>> /\ DOMAIN results' = {})
  BY <1>1
<1>3. Taken' \subseteq Taken
  BY <1>2 DEF Taken, Queued
<1>4. ASSUME NEW j PROVE Spared(j)
  BY <1>3, AllSpared
<1>5. LiveAhead'
  <2>1. SUFFICES ASSUME NEW q \in Paths, Live(q)
                 PROVE  (Ahead(dir[q], tracked[q].offset, tracked[q].hash)
                           /\ Stamped(tracked[q], dir[q]))'
    BY DEF LiveAhead, Live
  <2>2. PICK e, i, o, h : /\ e = tracked[q] /\ i = dir[q] /\ o = e.offset /\ h = e.hash
    OBVIOUS
  <2>3. Ahead(i, o, h) /\ Stamped(e, i)
    BY <2>1, <2>2 DEF Fresh, LiveAhead
  <2>4. Ahead(i, o, h)' /\ Stamped(e, i)'
    BY <2>3, <1>4, AheadSpared
  <2>5. QED
    BY <2>2, <2>4 DEF Ahead, Stamped, Matches
<1>6. LatestAhead'
  <2>1. SUFFICES ASSUME phase # "cancelled", results' = results
                 PROVE  (/\ \A n \in DOMAIN results :
                              Ahead(results[n].identity, results[n].offset, results[n].hash)
                         /\ \A j \in Inodes \ Read_ : CursorAhead(j))'
    BY DEF LatestAhead
  <2>2. ASSUME NEW n \in DOMAIN results
        PROVE  Ahead(results[n].identity, results[n].offset, results[n].hash)'
    <3>1. PICK i, o, h : /\ i = results[n].identity /\ o = results[n].offset
                         /\ h = results[n].hash
      OBVIOUS
    <3>2. Ahead(i, o, h)
      BY <2>1, <3>1 DEF Fresh, LatestAhead
    <3>3. Ahead(i, o, h)'
      BY <3>2, <1>4, AheadSpared
    <3>4. QED
      BY <2>1, <3>1, <3>3 DEF Ahead, Matches
  <2>3. ASSUME NEW j \in Inodes, j \notin Read_ PROVE CursorAhead(j)'
    BY <2>1, <2>3, <1>4, CursorSpared DEF Fresh, LatestAhead
  <2>4. QED
    BY <2>1, <2>2, <2>3 DEF Read_
<1>7. OneResult'
  <2>1. CASE DOMAIN results' = {}
    BY <2>1 DEF OneResult
  <2>2. CASE UNCHANGED <<at, todo, path, size, results>>
    BY <2>2 DEF Fresh, OneResult, Reading
  <2>3. CASE at = "idle" /\ UNCHANGED <<phase, results>>
    BY <2>3, <1>1 DEF Basics, Poised, OneResult
  <2>4. QED
    BY <1>2, <2>1, <2>2, <2>3
<1>8. QueuedOnce'
  BY <1>2 DEF Fresh, QueuedOnce
<1>9. Steady'
  <2>1. CASE UNCHANGED <<at, path, size>>
    BY <2>1 DEF Fresh, Steady, Matches
  <2>2. CASE at' \in {"stat", "idle"}
    BY <2>2 DEF Steady
  <2>3. QED
    BY <2>1, <2>2
<1>10. QED
  BY <1>5, <1>6, <1>7, <1>8, <1>9 DEF Fresh

LEMMA FreshInit ==
  ASSUME Init
  PROVE  FreshInv
<1>1. /\ at = "idle" /\ results = <<>> /\ DOMAIN results = {}
      /\ \A p \in Paths : tracked[p] = None
      /\ \A i \in Inodes : mem.files[i] = None /\ DOMAIN file[i].ids = {}
  BY DEF Init, NoTracked, S!Default, Unlinked
<1>2. Fresh
  BY <1>1 DEF Fresh, LiveAhead, Live, LatestAhead, CursorAhead, Untouched, OneResult, QueuedOnce,
              Steady, Reading
<1>3. QED
  BY <1>2, BasicsInit DEF FreshInv

LEMMA FreshStep ==
  ASSUME FreshInv, [Next]_vars
  PROVE  FreshInv'
<1>1. Basics /\ Basics'
  BY BasicsStep DEF FreshInv
<1>2. SUFFICES ASSUME ~(restarts' > 0), ~shuffled' PROVE Fresh'
  BY <1>1 DEF FreshInv
<1>3. Fresh
  <2>1. ~(restarts > 0) /\ ~shuffled
    BY <1>1, <1>2, FatesStay
  <2>2. QED
    BY <2>1 DEF FreshInv
<1>4. CASE Environment
  BY <1>1, <1>2, <1>3, <1>4, EnvironmentFresh
<1>5. CASE Start \/ Rediscover
  BY <1>1, <1>3, <1>5, DiscoverFresh
<1>6. ASSUME NEW p \in Paths, Stat(p) PROVE Fresh'
  BY <1>1, <1>3, <1>6, StatFresh
<1>7. CASE Fingerprint
  BY <1>1, <1>3, <1>7, FingerprintFresh
<1>8. CASE Read
  BY <1>1, <1>3, <1>8, ReadFresh
<1>9. CASE SendLine
  BY <1>1, <1>3, <1>9, SendLineFresh
<1>10. CASE SetCursor
  BY <1>1, <1>3, <1>10, SetCursorFresh
<1>11. CASE StartTail \/ Abandon \/ Flush \/ Cancel \/ UNCHANGED vars
  <2>1. /\ UNCHANGED <<dir, file, tracked, sent, mem>>
        /\ \/ UNCHANGED <<at, todo, path, size, results>> /\ phase' \in {phase, "cancelled"}
           \/ at = "idle" /\ at' = "stat" /\ UNCHANGED <<phase, results>>
           \/ at' = "idle" /\ results' = <<>> /\ phase' = "cancelled"
    BY <1>11 DEF StartTail, Abandon, Flush, Cancel, Idle, vars, diskVars, bounds, processVars,
                 passVars, fates
  <2>2. QED
    BY <1>1, <1>3, <2>1, QuietFresh
<1>12. CASE Crash \/ Stop
  BY <1>1, <1>2, <1>12, ExitFacts
<1>13. QED
  BY <1>4, <1>5, <1>6, <1>7, <1>8, <1>9, <1>10, <1>11, <1>12 DEF Next, Poll

LEMMA FreshImplies ==
  ASSUME FreshInv
  PROVE  NoNeedlessReread
<1>1. SUFFICES ASSUME Fresh, at = "send", Unsent # <<>> PROVE Head(Unsent).id \notin sent
  BY DEF FreshInv, NoNeedlessReread
<1>2. results # <<>> /\ TypeOK
  BY <1>1 DEF FreshInv, Basics, Poised
<1>3. Head(results) = results[1] /\ 1 \in DOMAIN results
  BY <1>2, ShiftFacts
<1>4. PICK ls : ls = results[1].lines
  OBVIOUS
<1>5. Unsent = ls /\ ls # <<>> /\ ls \in Seq(Line)
  BY <1>1, <1>2, <1>3, <1>4, ResultType DEF Unsent
<1>6. Head(ls) = ls[1] /\ 1 \in DOMAIN ls
  BY <1>5
<1>7. ls[1].id \notin sent
  BY <1>1, <1>3, <1>4, <1>6 DEF Fresh, QueuedOnce
<1>8. QED
  BY <1>5, <1>6, <1>7

-----------------------------------------------------------------------------
(* The theorems.                                                           *)

(* Every variable keeps its type: the input is known whenever it runs,     *)
(* and a poll that looks into a file has an entry for its path.            *)
THEOREM TypeCorrect == Spec => []TypeOK
<1>1. Init => Basics
  BY BasicsInit
<1>2. Basics /\ [Next]_vars => Basics'
  BY BasicsStep
<1>3. Basics => TypeOK
  BY DEF Basics
<1>4. QED
  BY <1>1, <1>2, <1>3, PTL DEF Spec

(* Whatever is written, truncated, moved, stopped or killed in between, a  *)
(* cursor that discovery or a poll would resume at passes over no line     *)
(* that was not handed over, in memory and in state.json: unless a file    *)
(* was replaced between its stat and its read, or before it had a          *)
(* fingerprint (tail_paths_blocking, tail_once, set_cursor).               *)
THEOREM CursorsHonest == Spec => []CursorHonest
<1>1. Init => HonestInv
  BY HonestInit
<1>2. HonestInv /\ [Next]_vars => HonestInv'
  BY HonestStep
<1>3. HonestInv => CursorHonest
  BY HonestImplies
<1>4. QED
  BY <1>1, <1>2, <1>3, PTL DEF Spec

(* Without a restart no line is sent that has been sent before, unless a   *)
(* file moves while a poll is reading or back before it is forgotten       *)
(* (tail_paths_blocking, discover_once, head_fingerprint).                 *)
THEOREM NoLineTwice == Spec => []NoNeedlessReread
<1>1. Init => FreshInv
  BY FreshInit
<1>2. FreshInv /\ [Next]_vars => FreshInv'
  BY FreshStep
<1>3. FreshInv => NoNeedlessReread
  BY FreshImplies
<1>4. QED
  BY <1>1, <1>2, <1>3, PTL DEF Spec
=============================================================================
