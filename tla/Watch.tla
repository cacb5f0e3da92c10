---------------------------------- MODULE Watch ----------------------------------
(***************************************************************************)
(* inotify where there is none (src/src/slipstream_inotify.c): the arm of  *)
(* the BSDs and macOS, which hears from EVFILT_VNODE THAT a directory      *)
(* changed and finds out what by looking at it, and the arm of Windows,    *)
(* which hears from ReadDirectoryChangesW what changed, but not of the end *)
(* of what it watches.  The emitting, queueing and reading of records is   *)
(* the same text in both.  A behaviour has one arm.                        *)
(*                                                                         *)
(* One instance, one caller's thread, one directory that is watched itself *)
(* and by its files.  Other programs create, delete, rename and write      *)
(* files in it, remove it and make it again, also between any two steps of *)
(* this code.  Left out are sub-directories (IN_ISDIR) and moving the      *)
(* directory itself.                                                       *)
(***************************************************************************)
EXTENDS Integers, Sequences, FiniteSets, FiniteSetsExt, SequencesExt

CONSTANTS
  Arms,        \* which of "vnode" and "changes"
  Names,       \* names of files, in the order of readdir
  NameLen,     \* room for each name in a record, in units of the header
  Ino,         \* inode numbers
  Path,        \* what callers watch: "dir" or a name in it
  Masks,       \* masks that callers give
  MaxWd,       \* bound: calls of add_watch on an instance
  QueueMax,    \* SLIPSTREAM_INOTIFY_QUEUE_MAX, in units of the header
  MaxChanges,  \* bound: what other programs do in the life of an instance
  Buffers,     \* lengths of the caller's buffer, in the same units
  ReadMax,     \* notifications that fit in SLIPSTREAM_INOTIFY_BUF
  CookieWrap,  \* 2^32: where cookies come round
  None

Name == Range(Names)
\* What ReadDirectoryChangesW says.
Notifications == {"ADDED", "REMOVED", "MODIFIED", "OLD_NAME", "NEW_NAME"} \X Name

ASSUME WatchAssumption ==
  /\ Arms \subseteq {"vnode", "changes"}
  /\ Names \in Seq(Name) /\ Names # <<>> /\ "dir" \notin Name
  /\ \A i, j \in DOMAIN Names : Names[i] = Names[j] => i = j
  /\ NameLen \in [Name -> Nat \ {0}]
  /\ Path \subseteq Name \cup {"dir"}
  /\ Ino # {}
  /\ MaxWd \in Nat /\ QueueMax \in Nat /\ ReadMax \in Nat
  /\ MaxChanges \in Nat /\ Buffers \subseteq Nat
  /\ CookieWrap \in Nat \ {0, 1}
  /\ None \notin Ino \cup Name \cup Seq(Notifications)

VARIABLES
  arm,      \* the arm of this build
  there,    \* the directory exists
  dir,      \* the inode behind each name in it, or None
  changes,  \* bound: how often other programs changed something
  watches,  \* the watches by wd
  paths,    \* history: the path of every watch so far; its length is next_wd - 1
  asked,    \* bound: calls of add_watch so far
  q,        \* queue, qlen, overflowed, and the history of what was lost
  cookie,   \* next_cookie
  open_cookie, \* changes: the RENAMED_OLD_NAME waiting for its other half
  pc,       \* of the caller's thread
  adding,   \* vnode: the watch add_watch is making, before the kernel has it
  taken,    \* vnode: what kevent returned and is not translated yet
  look,     \* vnode: a scan under way: names left, and what it found
  view,     \* history: the names each watch's caller has been told of
  ended,    \* history: watches of which the caller has read IGNORED
  silent    \* history: watches forgotten without a record

files == <<there, dir, changes>>
cookies == <<cookie, open_cookie>>
scanning == <<adding, taken, look>>
caller == <<view, ended, silent>>
vars == <<arm, files, watches, paths, asked, q, cookies, pc, scanning, caller>>

Wd == 1..MaxWd
Watched == DOMAIN watches
NoFiles == [n \in Name |-> None]
NamesOf(d) == {n \in Name : d[n] # None}
IsDir(w) == w.path = "dir"
Exists(path) == IF path = "dir" THEN there ELSE dir[path] # None

NameKinds == {"CREATE", "DELETE", "MOVED_FROM", "MOVED_TO"}
Kinds == NameKinds \cup {"MODIFY", "DELETE_SELF", "MOVE_SELF"}
Rec(kind, name, c) == [kind |-> kind, name |-> name, cookie |-> c]
Plain(kind, name) == Rec(kind, name, 0)
Self(kind) == Rec(kind, None, 0)

Empty == [queue |-> <<>>, qlen |-> 0, overflowed |-> FALSE, gap |-> "none", lost |-> {}]
\* The directory starts with no file, or with one.
Starts == {NoFiles, [NoFiles EXCEPT ![Head(Names)] = CHOOSE i \in Ino : TRUE]}
NotLooking == [left |-> <<>>, fresh |-> NoFiles]

Init ==
  /\ arm \in Arms
  /\ there = TRUE
  /\ dir \in Starts
  /\ changes = 0
  /\ watches = <<>> /\ paths = <<>> /\ asked = 0
  /\ q = Empty
  /\ cookie = 0 /\ open_cookie = 0
  /\ pc = "idle" /\ adding = None /\ taken = <<>> /\ look = NotLooking
  /\ view = [wd \in Wd |-> {}] /\ ended = {} /\ silent = {}

-----------------------------------------------------------------------------
(* The records, common to both arms.                                       *)

\* FoldLeft, in the form TLC evaluates fastest.
Along(op(_, _), base, seq) ==
  LET f[i \in 0..Len(seq)] == IF i = 0 THEN base ELSE op(f[i - 1], seq[i])
  IN f[Len(seq)]

Size(r) == 1 + IF r.name = None THEN 0 ELSE NameLen[r.name]
Used(queue) == Along(LAMBDA n, r : n + Size(r), 0, queue)
Queued(wd, r) == [wd |-> wd, kind |-> r.kind, name |-> r.name, cookie |-> r.cookie]
Overflow == Queued(-1, Self("Q_OVERFLOW"))

Put(s, r) == [s EXCEPT !.queue = Append(@, r), !.qlen = @ + Size(r)]

\* Mutant of Emit: a record that gets through does not reset overflowed.
EmitOverflowsOnce(s, wd, r) ==
  LET lossy == [s EXCEPT !.lost = @ \cup {wd}]
      more == [lossy EXCEPT !.gap = IF @ = "none" THEN "untold" ELSE @]
      full == [lossy EXCEPT !.gap = IF @ = "none" THEN "full" ELSE @]
  IN IF s.qlen + Size(r) <= QueueMax THEN [Put(s, Queued(wd, r)) EXCEPT !.gap = "none"]
     ELSE IF s.overflowed THEN more
     ELSE IF s.qlen + Size(Overflow) > QueueMax THEN full
     ELSE [Put(lossy, Overflow) EXCEPT !.overflowed = TRUE, !.gap = "told"]

\* Mutant of Emit: the room for the name is not counted.
EmitForgetsName(s, wd, r) ==
  IF s.qlen + 1 <= QueueMax
  THEN [Put(s, Queued(wd, r)) EXCEPT !.overflowed = FALSE, !.gap = "none"]
  ELSE [s EXCEPT !.lost = @ \cup {wd}, !.gap = "full"]

\* emit.  gap says how the run of losses at the end of the stream, if there is
\* one, was told: by an overflow record, or not at all, because the queue was
\* full to the last byte, or for no such reason.
Emit(s, wd, r) ==
  LET lossy == [s EXCEPT !.lost = @ \cup {wd}]
      more == [lossy EXCEPT !.gap = IF @ = "none" THEN "untold" ELSE @]
      full == [lossy EXCEPT !.gap = IF @ = "none" THEN "full" ELSE @]
  IN IF s.qlen + Size(r) <= QueueMax
     THEN [Put(s, Queued(wd, r)) EXCEPT !.overflowed = FALSE, !.gap = "none"]
     ELSE IF s.overflowed THEN more
     ELSE IF s.qlen + Size(Overflow) > QueueMax THEN full
     ELSE [Put(lossy, Overflow) EXCEPT !.overflowed = TRUE, !.gap = "told"]

\* emit_masked; IGNORED comes unasked.  A listing kept from the records is off
\* once a record of a name is masked.
EmitMasked(s, wd, r) ==
  IF r.kind \in watches[wd].mask \cup {"IGNORED"} THEN Emit(s, wd, r)
  ELSE [s EXCEPT !.lost = IF r.kind \in NameKinds THEN @ \cup {wd} ELSE @]
EmitAll(s, wd, recs) == Along(LAMBDA t, r : EmitMasked(t, wd, r), s, recs)

Without(wds) == [w \in Watched \ wds |-> watches[w]]
\* A new watch, with the next wd.
With(w) == [wd \in Watched \cup {Len(paths) + 1} |-> IF wd \in Watched THEN watches[wd] ELSE w]

\* Mutant of Gone: IGNORED comes only to those who asked for DELETE_SELF.
GoneUnsaid == <<Self("DELETE_SELF")>>

\* What inotify says of a watch whose subject is gone; the watch goes with it.
Gone == <<Self("DELETE_SELF"), Self("IGNORED")>>

\* What the records of a watch make of a listing.
Replay(names, wd, r) ==
  IF r.wd # wd \/ r.name = None THEN names
  ELSE IF r.kind \in {"CREATE", "MOVED_TO"} THEN names \cup {r.name}
  ELSE IF r.kind \in {"DELETE", "MOVED_FROM"} THEN names \ {r.name}
  ELSE names
Replayed(names, wd, recs) == Along(LAMBDA s, r : Replay(s, wd, r), names, recs)

\* slipstream_inotify_read with something queued: as many whole records as fit in
\* the caller's buffer; -EINVAL if none does.
ReadRecords(len) ==
  /\ pc = "idle"
  /\ \E n \in 1..Len(q.queue) :
       /\ Used(SubSeq(q.queue, 1, n)) <= len
       /\ n < Len(q.queue) => Used(SubSeq(q.queue, 1, n + 1)) > len
       /\ LET got == SubSeq(q.queue, 1, n)
              over == {r.wd : r \in {s \in Range(got) : s.kind = "IGNORED"}}
          IN /\ view' = [wd \in Wd |-> IF wd \in over THEN {}
                                      ELSE Replayed(view[wd], wd, got)]
             /\ ended' = ended \cup over
             /\ q' = [q EXCEPT !.queue = SubSeq(@, n + 1, Len(@)), !.qlen = @ - Used(got)]
  /\ UNCHANGED <<arm, files, watches, paths, asked, cookies, pc, scanning, silent>>

\* slipstream_inotify_rm_watch.
RmWatch(wd) ==
  /\ pc = "idle" /\ wd \in Watched
  /\ q' = Emit(q, wd, Self("IGNORED"))
  /\ watches' = Without({wd})
  /\ UNCHANGED <<arm, files, paths, asked, cookies, pc, scanning, caller>>

\* slipstream_inotify_add_watch of a path already watched.
NewMask(wd, mask) ==
  /\ pc = "idle" /\ asked < MaxWd /\ asked' = asked + 1
  /\ wd \in Watched /\ Exists(watches[wd].path)
  /\ watches' = [watches EXCEPT ![wd].mask = mask]
  /\ UNCHANGED <<arm, files, paths, q, cookies, pc, scanning, caller>>

\* slipstream_inotify_close: every watch is forgotten and the instance cleared.
Close ==
  /\ pc = "idle" /\ pc' = "closed"
  /\ watches' = <<>> /\ paths' = <<>> /\ asked' = 0
  /\ q' = Empty /\ cookie' = 0 /\ open_cookie' = 0
  /\ view' = [wd \in Wd |-> {}] /\ ended' = {} /\ silent' = {}
  /\ UNCHANGED <<arm, files, scanning>>

\* slipstream_inotify_init1, taking the cleared instance again, for a directory of
\* which nothing is known.
Init1 ==
  /\ pc = "closed" /\ pc' = "idle"
  /\ there' = TRUE /\ dir' \in Starts /\ changes' = 0
  /\ UNCHANGED <<arm, watches, paths, asked, q, cookies, scanning, caller>>

CanAdd(path) ==
  /\ pc = "idle" /\ asked < MaxWd /\ asked' = asked + 1
  /\ Exists(path) /\ \A wd \in Watched : watches[wd].path # path

-----------------------------------------------------------------------------
(* The world.  A step has a listing it leaves behind, notes for whoever has  *)
(* a thing open, and notifications for whoever reads the directory.          *)

\* EVFILT_VNODE with EV_CLEAR: notes gather until kevent takes them.
Noted(w, notes) ==
  LET mine == {n[2] : n \in {m \in notes : m[1] = w.of}}
  IN [w EXCEPT !.note = @ \cup mine, !.dead = @ \/ "delete" \in mine]

\* ReadDirectoryChangesW: the first notification completes the read that waits,
\* later ones are held until the next read; too many, and all held are dropped.
Hears(w, n) ==
  IF w.done = None THEN [w EXCEPT !.done = <<n>>]
  ELSE IF w.held = None \/ Len(w.held) = ReadMax THEN [w EXCEPT !.held = None]
  ELSE [w EXCEPT !.held = Append(@, n)]
Heard(w, said) == Along(LAMBDA v, n : Hears(v, n), w, said)

\* Who has the thing open that goes, and who hears of it in the directory above.
Removed(w, up) == [w EXCEPT !.dead = TRUE, !.up = IsDir(w) /\ up]

Happens(notes, said) ==
  /\ watches' = [wd \in Watched |->
       IF watches[wd].dead THEN watches[wd]
       ELSE IF arm = "vnode" THEN Noted(watches[wd], notes)
       ELSE Heard(watches[wd], said)]
  /\ adding' = IF adding = None THEN None
               ELSE [adding EXCEPT !.dead = @ \/ <<adding.of, "delete">> \in notes]
  /\ UNCHANGED <<arm, paths, asked, q, cookies, pc, taken, look, caller>>

InUse == Range(dir) \cup {watches[wd].of : wd \in Watched}
         \cup IF adding = None THEN {} ELSE {adding.of}

Create(n, i) ==
  /\ there /\ dir[n] = None /\ i \notin InUse
  /\ dir' = [dir EXCEPT ![n] = i] /\ UNCHANGED there
  /\ Happens({<<"dir", "write">>}, <<<<"ADDED", n>>>>)

Delete(n) ==
  /\ dir[n] # None
  /\ dir' = [dir EXCEPT ![n] = None] /\ UNCHANGED there
  /\ Happens({<<"dir", "write">>, <<dir[n], "delete">>}, <<<<"REMOVED", n>>>>)

Rename(n, m) ==
  /\ n # m /\ dir[n] # None
  /\ dir' = [dir EXCEPT ![n] = None, ![m] = dir[n]] /\ UNCHANGED there
  /\ Happens({<<"dir", "write">>, <<dir[n], "rename">>, <<dir[m], "delete">>},
             (IF dir[m] = None THEN <<>> ELSE <<<<"REMOVED", m>>>>)
               \o <<<<"OLD_NAME", n>>, <<"NEW_NAME", m>>>>)

Write(n) ==
  /\ dir[n] # None
  /\ Happens({<<dir[n], "write">>}, <<<<"MODIFIED", n>>>>)
  /\ UNCHANGED <<there, dir>>

\* Windows may keep the name of a directory that is open, and then the one above
\* says nothing.
Rmdir(up) ==
  /\ there /\ dir = NoFiles /\ (arm = "vnode" => ~up)
  /\ there' = FALSE /\ UNCHANGED dir
  /\ IF arm = "vnode" THEN Happens({<<"dir", "delete">>}, <<>>)
     ELSE /\ watches' = [wd \in Watched |->
               IF watches[wd].dead THEN watches[wd] ELSE Removed(watches[wd], up)]
          /\ UNCHANGED <<arm, paths, asked, q, cookies, pc, scanning, caller>>

Mkdir ==
  /\ ~there /\ there' = TRUE
  /\ UNCHANGED <<arm, dir, watches, paths, asked, q, cookies, pc, scanning, caller>>

World ==
  /\ pc # "closed" /\ changes < MaxChanges /\ changes' = changes + 1
  /\ \/ \E n \in Name : Delete(n) \/ Write(n)
     \/ \E n \in Name, i \in Ino : Create(n, i)
     \/ \E n, m \in Name : Rename(n, m)
     \/ \E up \in BOOLEAN : Rmdir(up)
     \/ Mkdir

-----------------------------------------------------------------------------
(* The arm of the BSDs and macOS.                                          *)

\* add_watch: stat, open and the start of the first look.
AddLook(path, mask) ==
  /\ arm = "vnode" /\ CanAdd(path)
  /\ adding' = [path |-> path, mask |-> mask, of |-> IF path = "dir" THEN path ELSE dir[path],
                kids |-> NoFiles, note |-> {}, dead |-> FALSE, missed |-> FALSE]
  /\ look' = [NotLooking EXCEPT !.left = IF path = "dir" THEN Names ELSE <<>>]
  /\ pc' = "adding"
  /\ UNCHANGED <<arm, files, watches, paths, q, cookies, taken, caller>>

\* scan: one name is looked at, and the others may change before they are.
LookAt ==
  /\ look.left # <<>>
  /\ LET n == Head(look.left)
     IN look' = [left |-> Tail(look.left), fresh |-> [look.fresh EXCEPT ![n] = dir[n]]]
  /\ UNCHANGED <<arm, files, watches, paths, asked, q, cookies, pc, adding, taken, caller>>

\* The rest of add_watch: EV_ADD, and the wd.  missed: something changed between
\* the look and EV_ADD, and no note will tell of it.
Register ==
  /\ pc = "adding" /\ look.left = <<>>
  /\ LET wd == Len(paths) + 1
         changed == adding.dead \/ (IsDir(adding) /\ look.fresh # dir)
     IN /\ watches' = With([adding EXCEPT !.kids = look.fresh, !.missed = changed])
        /\ paths' = Append(paths, adding.path)
        /\ view' = [view EXCEPT ![wd] = NamesOf(look.fresh)]
  /\ adding' = None /\ look' = NotLooking /\ pc' = "idle"
  /\ UNCHANGED <<arm, files, asked, q, cookies, taken, ended, silent>>

\* slipstream_inotify_read with nothing queued, and the kevent of take_events.
Take ==
  /\ arm = "vnode" /\ pc = "idle" /\ q.queue = <<>>
  /\ LET noted == {wd \in Watched : watches[wd].note # {}}
     IN /\ noted # {}
        /\ taken' = [wd \in noted |-> watches[wd].note]
        /\ watches' = [wd \in Watched |-> [watches[wd] EXCEPT !.note = {}]]
  /\ pc' = "taking"
  /\ UNCHANGED <<arm, files, paths, asked, q, cookies, adding, look, caller>>

\* directory_changed: the scan it starts with.
MustLook(wd) == IsDir(watches[wd]) /\ "write" \in taken[wd]
StartLook(wd) ==
  /\ pc = "taking" /\ wd \in DOMAIN taken /\ MustLook(wd)
  /\ look' = [NotLooking EXCEPT !.left = IF there THEN Names ELSE <<>>]
  /\ taken' = [taken EXCEPT ![wd] = @ \cup {"looked"}]
  /\ pc' = "looking"
  /\ UNCHANGED <<arm, files, watches, paths, asked, q, cookies, adding, caller>>

\* Mutant of InPlace: what took the name is told before what had it.
InPlaceBackwards(n, had, fresh, written) ==
  IF had[n] = None \/ fresh[n] = None THEN <<>>
  ELSE IF had[n] # fresh[n] THEN <<Plain("CREATE", n), Plain("DELETE", n)>>
  ELSE IF n \in written THEN <<Plain("MODIFY", n)>> ELSE <<>>
\* directory_changed on a name that is still there.
InPlace(n, had, fresh, written) ==
  IF had[n] = None \/ fresh[n] = None THEN <<>>
  ELSE IF had[n] # fresh[n] THEN <<Plain("DELETE", n), Plain("CREATE", n)>>
  ELSE IF n \in written THEN <<Plain("MODIFY", n)>> ELSE <<>>

Bumped(c) == (c + 1) % CookieWrap

\* Mutant of Moved: the second half takes a cookie of its own.
MovedTwice(n, m, c) == <<Rec("MOVED_FROM", n, c), Rec("MOVED_TO", m, Bumped(c))>>
\* The two halves of a rename.
Moved(n, m, c) == <<Rec("MOVED_FROM", n, c), Rec("MOVED_TO", m, c)>>

\* directory_changed on a name that left: it went to the first new name with its
\* inode on which no other has landed, or is deleted.
Departure(s, n, had, fresh) ==
  LET at == {i \in DOMAIN Names : /\ had[Names[i]] = None /\ fresh[Names[i]] = had[n]
                                  /\ Names[i] \notin s.landed}
      m == Names[Min(at)]
  IN IF had[n] = None \/ fresh[n] # None THEN s
     ELSE IF at = {} THEN [s EXCEPT !.recs = Append(@, Plain("DELETE", n))]
     ELSE [recs |-> s.recs \o Moved(n, m, Bumped(s.cookie)),
           landed |-> s.landed \cup {m}, cookie |-> Bumped(s.cookie)]

\* directory_changed on a name that is new.
Arrival(n, had, fresh, landed) ==
  IF had[n] = None /\ fresh[n] # None /\ n \notin landed THEN <<Plain("CREATE", n)>> ELSE <<>>

\* directory_changed, with the scan done: its records and the next cookie.
Differences(had, fresh, written) ==
  LET stay == Along(LAMBDA s, n : s \o InPlace(n, had, fresh, written), <<>>, Names)
      left == Along(LAMBDA s, n : Departure(s, n, had, fresh),
                    [recs |-> stay, landed |-> {}, cookie |-> cookie], Names)
  IN [recs |-> Along(LAMBDA s, n : s \o Arrival(n, had, fresh, left.landed), left.recs, Names),
      cookie |-> left.cookie]

\* Mutant of Kept: what gathered during the look is thrown away with what caused it.
KeptQuiet(w, fresh) == [w EXCEPT !.kids = fresh, !.missed = FALSE, !.note = {}]
\* What directory_changed leaves in the watch.
Kept(w, fresh) == [w EXCEPT !.kids = fresh, !.missed = FALSE]

\* Mutant of Translate: the watch whose subject is gone is not forgotten.
TranslateKeeps(wd, written) ==
  /\ pc \in {"taking", "looking"} /\ look.left = <<>>
  /\ wd \in DOMAIN taken
  /\ IF MustLook(wd) THEN "looked" \in taken[wd] ELSE pc = "taking"
  /\ LET w == watches[wd]
         note == taken[wd]
         some == look.fresh # NoFiles
         d == IF some THEN Differences(w.kids, look.fresh, written)
              ELSE [recs |-> <<>>, cookie |-> cookie]
         recs == d.recs
                 \o (IF "write" \in note /\ ~IsDir(w) THEN <<Self("MODIFY")>> ELSE <<>>)
                 \o (IF "rename" \in note THEN <<Self("MOVE_SELF")>> ELSE <<>>)
                 \o (IF "delete" \in note THEN Gone ELSE <<>>)
     IN /\ q' = EmitAll(q, wd, recs)
        /\ cookie' = d.cookie
        /\ watches' = [watches EXCEPT ![wd] = IF some THEN Kept(w, look.fresh) ELSE w]
  /\ look' = NotLooking
  /\ taken' = [w \in DOMAIN taken \ {wd} |-> taken[w]]
  /\ pc' = IF DOMAIN taken = {wd} THEN "idle" ELSE "taking"
  /\ UNCHANGED <<arm, files, paths, asked, open_cookie, adding, caller>>

\* translate.  Whether a file's times or size differ from those of the last look
\* is a choice (written).  A directory found empty is left as it was.
Translate(wd, written) ==
  /\ pc \in {"taking", "looking"} /\ look.left = <<>>
  /\ wd \in DOMAIN taken
  /\ IF MustLook(wd) THEN "looked" \in taken[wd] ELSE pc = "taking"
  /\ LET w == watches[wd]
         note == taken[wd]
         some == look.fresh # NoFiles
         d == IF some THEN Differences(w.kids, look.fresh, written)
              ELSE [recs |-> <<>>, cookie |-> cookie]
         recs == d.recs
                 \o (IF "write" \in note /\ ~IsDir(w) THEN <<Self("MODIFY")>> ELSE <<>>)
                 \o (IF "rename" \in note THEN <<Self("MOVE_SELF")>> ELSE <<>>)
                 \o (IF "delete" \in note THEN Gone ELSE <<>>)
     IN /\ q' = EmitAll(q, wd, recs)
        /\ cookie' = d.cookie
        /\ watches' = IF "delete" \in note THEN Without({wd})
                      ELSE [watches EXCEPT ![wd] = IF some THEN Kept(w, look.fresh) ELSE w]
  /\ look' = NotLooking
  /\ taken' = [w \in DOMAIN taken \ {wd} |-> taken[w]]
  /\ pc' = IF DOMAIN taken = {wd} THEN "idle" ELSE "taking"
  /\ UNCHANGED <<arm, files, paths, asked, open_cookie, adding, caller>>

-----------------------------------------------------------------------------
(* The arm of Windows.  A watch of a file reads the directory that holds it *)
(* and keeps to the one name (only).                                        *)

AddWatch(path, mask) ==
  /\ arm = "changes" /\ CanAdd(path)
  /\ LET wd == Len(paths) + 1
     IN /\ watches' = With([path |-> path, mask |-> mask, of |-> "dir", done |-> None,
                             held |-> <<>>, up |-> FALSE, dead |-> FALSE])
        /\ view' = [view EXCEPT ![wd] = IF path = "dir" THEN NamesOf(dir) ELSE {}]
  /\ paths' = Append(paths, path)
  /\ UNCHANGED <<arm, files, q, cookies, pc, scanning, ended, silent>>

\* slipstream_inotify_read with nothing queued, on its way into take_events.
Drain ==
  /\ arm = "changes" /\ pc = "idle" /\ q.queue = <<>> /\ pc' = "draining"
  /\ UNCHANGED <<arm, files, watches, paths, asked, q, cookies, scanning, caller>>

\* One notification of translate: s is the queue and the two cookies.
Translated(s, wd, n) ==
  LET only == ~IsDir(watches[wd])
      what == n[1]
      opened == IF what = "OLD_NAME" THEN Bumped(s.cookie) ELSE s.open_cookie
      rec == IF only
             THEN CASE what = "ADDED" -> <<Self("CREATE")>>
                    [] what = "REMOVED" -> Gone
                    [] what = "MODIFIED" -> <<Self("MODIFY")>>
                    [] what = "OLD_NAME" -> <<Self("MOVE_SELF")>>
                    [] OTHER -> <<>>
             ELSE CASE what = "ADDED" -> <<Plain("CREATE", n[2])>>
                    [] what = "REMOVED" -> <<Plain("DELETE", n[2])>>
                    [] what = "MODIFIED" -> <<Plain("MODIFY", n[2])>>
                    [] what = "OLD_NAME" -> <<Rec("MOVED_FROM", n[2], opened)>>
                    [] OTHER -> <<Rec("MOVED_TO", n[2], opened)>>
  IN IF only /\ n[2] # watches[wd].path THEN s
     ELSE [q |-> EmitAll(s.q, wd, rec),
           cookie |-> IF what = "OLD_NAME" THEN opened ELSE s.cookie,
           open_cookie |-> IF what = "NEW_NAME" THEN 0 ELSE opened]

\* arm_read: what was held completes the new read at once; what did not fit makes
\* it complete with no bytes.
Rearmed(w) ==
  [w EXCEPT !.done = CASE w.dead \/ w.held = <<>> -> None
                       [] w.held = None -> <<>>
                       [] OTHER -> w.held,
            !.held = <<>>]

\* A completion of a watch's own read in take_events.  The path of a directory
\* that was removed while it is open may still resolve.
Completion(wd, resolves) ==
  /\ pc = "draining" /\ wd \in Watched /\ watches[wd].done # None
  /\ IF ~there /\ ~(resolves /\ watches[wd].dead)
     THEN /\ q' = EmitAll(q, wd, Gone)
          /\ watches' = Without({wd})
          /\ UNCHANGED cookies
     ELSE LET s == Along(LAMBDA t, n : Translated(t, wd, n),
                            [q |-> q, cookie |-> cookie, open_cookie |-> open_cookie],
                            watches[wd].done)
              dropped == watches[wd].done = <<>>
          IN /\ q' = [s.q EXCEPT !.lost = IF dropped THEN @ \cup {wd} ELSE @]
             /\ cookie' = s.cookie /\ open_cookie' = s.open_cookie
             /\ watches' = [watches EXCEPT ![wd] = Rearmed(@)]
  /\ UNCHANGED <<arm, files, paths, asked, pc, scanning, caller>>

\* A watch's own read completes with an error.
ReadFails(wd) ==
  /\ arm = "changes" /\ pc = "draining" /\ wd \in Watched /\ watches[wd].done = None
  /\ q' = EmitAll(q, wd, Gone)
  /\ watches' = Without({wd})
  /\ UNCHANGED <<arm, files, paths, asked, cookies, pc, scanning, caller>>

\* A completion of the read on the directory above: translate_up.
UpCompletion(wd) ==
  /\ pc = "draining" /\ wd \in Watched /\ watches[wd].up
  /\ q' = EmitAll(q, wd, Gone)
  /\ watches' = Without({wd})
  /\ UNCHANGED <<arm, files, paths, asked, cookies, pc, scanning, caller>>

\* The same with no bytes, when too much happened above: what it would have said
\* is lost, and the read is armed again.
UpMisses(wd) ==
  /\ pc = "draining" /\ wd \in Watched /\ watches[wd].up
  /\ watches' = [watches EXCEPT ![wd].up = FALSE]
  /\ UNCHANGED <<arm, files, paths, asked, q, cookies, pc, scanning, caller>>

\* The read on the directory above completes with an error: the watch is
\* forgotten, and nothing said of it.
UpFails(wd) ==
  /\ arm = "changes" /\ pc = "draining" /\ wd \in Watched
  /\ IsDir(watches[wd]) /\ ~watches[wd].up
  /\ watches' = Without({wd})
  /\ silent' = silent \cup {wd}
  /\ UNCHANGED <<arm, files, paths, asked, q, cookies, pc, scanning, view, ended>>

\* Mutant of IsGone: only the name is asked, not the handle.
IsGoneByName(w) == IF IsDir(w) THEN ~there ELSE dir[w.path] = None
\* What check_gone asks; a handle that cannot be asked (the name is, then) is left
\* out.
IsGone(w) == IF IsDir(w) THEN w.dead \/ ~there ELSE dir[w.path] = None

\* The port is empty: take_events returns.
PortEmpty ==
  /\ pc = "draining" /\ \A wd \in Watched : watches[wd].done = None /\ ~watches[wd].up
  /\ pc' = "asking"
  /\ UNCHANGED <<arm, files, watches, paths, asked, q, cookies, scanning, caller>>

\* check_gone, unless there is something to read.
CheckGone ==
  /\ pc = "asking"
  /\ LET gone == IF q.queue = <<>> THEN {wd \in Watched : IsGone(watches[wd])} ELSE {}
         last_first == [i \in 1..Len(paths) |-> Len(paths) + 1 - i]
     IN /\ q' = Along(LAMBDA s, wd : IF wd \in gone THEN EmitAll(s, wd, Gone) ELSE s, q, last_first)
        /\ watches' = Without(gone)
  /\ pc' = "idle"
  /\ UNCHANGED <<arm, files, paths, asked, cookies, scanning, caller>>

-----------------------------------------------------------------------------
Asks ==
  \/ \E wd \in Wd : RmWatch(wd)
  \/ \E wd \in Wd, mask \in Masks : NewMask(wd, mask)
  \/ \E path \in Path, mask \in Masks : AddLook(path, mask) \/ AddWatch(path, mask)
  \/ Close \/ Init1

\* The steps of a call of read, and of an add_watch that has begun.
Reads ==
  \/ \E len \in Buffers : ReadRecords(len)
  \/ LookAt \/ Register
  \/ Take
  \/ \E wd \in Wd : StartLook(wd)
  \/ \E wd \in Wd, written \in SUBSET Name : Translate(wd, written)
  \/ Drain
  \/ \E wd \in Wd, resolves \in BOOLEAN : Completion(wd, resolves)
  \/ \E wd \in Wd : ReadFails(wd) \/ UpCompletion(wd) \/ UpMisses(wd) \/ UpFails(wd)
  \/ PortEmpty \/ CheckGone

Next == World \/ Asks \/ Reads

Spec == Init /\ [][Next]_vars

\* The caller goes on reading until it closes.
FairSpec == Spec /\ WF_vars(Reads)

-----------------------------------------------------------------------------
(* Properties                                                              *)

\* The queue never holds more than SLIPSTREAM_INOTIFY_QUEUE_MAX, a read under way
\* belongs to a watch that exists, and the rest is of its type (emit, forget).
TypeOK ==
  /\ arm \in Arms /\ there \in BOOLEAN /\ dir \in [Name -> Ino \cup {None}]
  /\ changes \in 0..MaxChanges
  /\ Watched \subseteq 1..Len(paths) /\ paths \in Seq(Path) /\ Len(paths) <= asked /\ asked \in 0..MaxWd
  /\ q.qlen = Used(q.queue) /\ q.qlen <= QueueMax
  /\ q.lost \subseteq Wd /\ q.gap \in {"none", "told", "full", "untold"}
  /\ cookie \in 0..CookieWrap - 1 /\ open_cookie \in 0..CookieWrap - 1
  /\ pc \in {"idle", "adding", "taking", "looking", "draining", "asking", "closed"}
  /\ DOMAIN taken \subseteq Watched
  /\ adding # None => pc = "adding"
  /\ \A wd \in Watched :
       /\ watches[wd].path = paths[wd]
       /\ arm = "vnode" => watches[wd].note \subseteq {"write", "rename", "delete"}
       /\ arm = "changes" =>
            /\ watches[wd].done = None \/ watches[wd].done \in Seq(Notifications)
            /\ watches[wd].held = None \/ watches[wd].held \in Seq(Notifications)
  /\ view \in [Wd -> SUBSET Name] /\ ended \subseteq Wd /\ silent \subseteq Wd

\* What was heard of a directory and is still in the kernel's hands.
Held(w) == (IF w.done = None THEN <<>> ELSE w.done) \o w.held
AsRecords(wd, said) ==
  [i \in 1..Len(said) |->
     Queued(wd, Plain(IF said[i][1] \in {"ADDED", "NEW_NAME"} THEN "CREATE"
                      ELSE IF said[i][1] = "MODIFIED" THEN "MODIFY" ELSE "DELETE", said[i][2]))]
Listing(wd) == Replayed(view[wd], wd, q.queue)

\* Whoever keeps a listing of a directory from the records it reads gets, once it
\* has read all, what the arm last saw (vnode), or with what the kernel holds what
\* is there (changes), whatever was renamed, replaced or given a number again
\* meanwhile, unless records were lost (directory_changed, translate).
ReplayGivesListing ==
  \A wd \in Watched \ q.lost :
    IsDir(watches[wd]) =>
      IF arm = "vnode" THEN Listing(wd) = NamesOf(watches[wd].kids)
      ELSE (~watches[wd].dead /\ watches[wd].held # None /\ watches[wd].done # <<>>)
             => Replayed(Listing(wd), wd, AsRecords(wd, Held(watches[wd]))) = NamesOf(dir)

\* With nothing noted and nothing under way, what the arm last saw is what is
\* there, though each name is looked at on its own while others change; but for a
\* directory that was emptied, and for a change between add_watch's look and its
\* EV_ADD (scan, directory_changed, take_events).
AtRestUpToDate ==
  \A wd \in Watched :
    LET w == watches[wd]
    IN (/\ arm = "vnode" /\ IsDir(w) /\ ~w.dead /\ ~w.missed
        /\ w.note = {} /\ wd \notin DOMAIN taken /\ dir # NoFiles) => w.kids = dir

\* IGNORED is the last record of a watch, once.  A file's watch on Windows is left
\* out: the end of its file is told, and the watch kept (translate, rm_watch,
\* translate_up, check_gone).
IgnoredOnceLast ==
  \A wd \in 1..Len(paths) :
    (arm = "vnode" \/ paths[wd] = "dir") =>
      LET mine == {i \in DOMAIN q.queue : q.queue[i].wd = wd}
      IN /\ wd \in ended => mine = {}
         /\ \A i \in mine : q.queue[i].kind = "IGNORED" =>
               wd \notin Watched /\ \A j \in mine : j <= i

\* A watch that no longer exists was said to have ended, whatever its mask and
\* whichever of two reads, the handle or the caller's rm_watch ended it, unless the
\* queue had no room or the read on the directory above failed (forget in translate,
\* take_events, translate_up and check_gone).
IgnoredTold ==
  pc # "closed" =>
    \A wd \in (1..Len(paths)) \ (Watched \cup q.lost \cup silent) :
      wd \in ended \/ \E r \in Range(q.queue) : r.wd = wd /\ r.kind = "IGNORED"

\* The halves of a rename are neighbours in the stream, with one cookie
\* (directory_changed, translate).  On Windows the instance has one open cookie for
\* all its watches: not when a file was watched too, and nothing is said of two
\* watched directories, which would share it as well - there is one here.
CookiesPair ==
  (arm = "vnode" \/ Range(paths) \subseteq {"dir"}) =>
    \A i \in 2..Len(q.queue) :
      LET r == q.queue[i]
          before == q.queue[i - 1]
      IN (r.kind = "MOVED_TO" /\ r.wd \notin q.lost) =>
           before.wd = r.wd /\ before.kind = "MOVED_FROM" /\ before.cookie = r.cookie

\* Records lost for want of room are announced by an overflow record after the last
\* one that got through, except when the queue is full to the last byte (emit).
LossIsTold == q.gap # "untold"

\* A watch whose directory (or, with EVFILT_VNODE, file) is gone comes to an end,
\* also when another of the same name takes its place (translate, check_gone).
HoldsTheDead ==
  \E wd \in Watched :
    /\ watches[wd].dead
    /\ IF arm = "vnode" THEN ~watches[wd].missed ELSE IsDir(watches[wd])
GoneIsTold == HoldsTheDead ~> ~HoldsTheDead
=============================================================================
