------------------------------- MODULE Archive -------------------------------
(***************************************************************************)
(* An archive: src/archive.cpp.  A map of musics in memory, the round of   *)
(* musics that random() has still to draw, and a thread that writes the    *)
(* map to a file from time to time.  The process may crash, the object may *)
(* be destroyed, and the next object loads what the file holds.            *)
(*                                                                         *)
(* Grain of atomicity: a critical section of _musicsMutex is one step, as  *)
(* are the accesses to _changed, _started and the file outside of it.      *)
(*                                                                         *)
(* A music is its id.  An id holds no blank (it is read by operator>>) and *)
(* a title is taken to be one line of less than 1024 characters, so that a *)
(* whole line reads back as it was written.  A line cut by a crash reads   *)
(* back as a music nobody added: Torn.                                     *)
(***************************************************************************)
EXTENDS Naturals, FiniteSets

CONSTANTS
  Users,     \* threads that hold a reference to the archive
  Music,     \* musics, by the rank of their id in the order of std::map
  Torn,      \* the music a half-written line stands for
  Removers,  \* users that may remove musics (plrm: named playlists only)
  MaxCrashes \* bound of the model: crashes of the process

ASSUME ArchiveAssumption ==
  /\ Music \subseteq Nat
  /\ Torn \in Nat \ Music
  /\ Removers \subseteq Users
  /\ MaxCrashes \in Nat

VARIABLES
  musics,   \* _musics
  mv,       \* _mv: what random() has still to draw in this round
  changed,  \* _changed
  started,  \* _started
  sync,     \* the statement of syncRoutine its thread is at
  out,      \* what flush() has put into its stream
  file,     \* the lines of the file
  life,     \* the object: "live", "notify" or "join" in ~Archive, "dead"
  pc,       \* the statement each user is at
  crashes,  \* crashes so far
  fault     \* the undefined access that was made, "none" so far

vars ==
  <<musics, mv, changed, started, sync, out, file, life, pc, crashes, fault>>

Lines == Music \cup {Torn}

memory  == <<musics, mv>>
syncing == <<sync, out, file>>
object  == <<started, life>>

TypeOK ==
  /\ musics \subseteq Lines
  /\ mv \subseteq Lines
  /\ changed \in BOOLEAN
  /\ started \in BOOLEAN
  /\ sync \in {"loop", "wait", "block", "sleep", "test", "clear", "open",
               "write", "close", "done"}
  /\ out \subseteq Lines
  /\ file \subseteq Lines
  /\ life \in {"live", "notify", "join", "dead"}
  /\ pc \in [Users -> {"idle", "mark", "draw"}]
  /\ crashes \in Nat
  /\ fault \in {"none", "eraseEnd", "drawFromEmpty"}
  /\ life = "dead" => sync = "done" /\ \A u \in Users : pc[u] = "idle"

Goto(u, label) == pc' = [pc EXCEPT ![u] = label]

Init ==
  /\ file \in SUBSET Music
  /\ musics = file
  /\ mv = file
  /\ changed = FALSE
  /\ started = TRUE
  /\ sync = "loop"
  /\ out = {}
  /\ life = "live"
  /\ pc = [u \in Users |-> "idle"]
  /\ crashes = 0
  /\ fault = "none"

-----------------------------------------------------------------------------
(* The users.                                                              *)

\* Variant: a music that is already there is not told from a new one, and
\* _changed is not set.
AddUnmarked(u, m) ==
  /\ life = "live" /\ pc[u] = "idle"
  /\ musics' = musics \cup {m}
  /\ UNCHANGED <<mv, pc, changed, syncing, object, crashes, fault>>

\* insert(), under _musicsMutex.
Add(u, m) ==
  /\ life = "live" /\ pc[u] = "idle"
  /\ musics' = musics \cup {m}
  /\ IF m \in musics THEN UNCHANGED pc ELSE Goto(u, "mark")
  /\ UNCHANGED <<mv, changed, syncing, object, crashes, fault>>

\* _changed = true, after the unlock.
Mark(u) ==
  /\ pc[u] = "mark"
  /\ changed' = TRUE
  /\ Goto(u, "idle")
  /\ UNCHANGED <<memory, syncing, object, crashes, fault>>

\* Variant: the round keeps the music that is removed.
RemoveKeepsView(u, m) ==
  /\ life = "live" /\ pc[u] = "idle"
  /\ m \in musics
  /\ musics' = musics \ {m}
  /\ changed' = TRUE
  /\ UNCHANGED <<mv, pc, syncing, object, crashes, fault>>

\* remove(id), under both mutexes; erase(end()) is undefined.
Remove(u, m) ==
  /\ life = "live" /\ pc[u] = "idle"
  /\ m \in musics
  /\ IF m \in mv
     THEN /\ mv' = mv \ {m}
          /\ musics' = musics \ {m}
          /\ changed' = TRUE
          /\ UNCHANGED fault
     ELSE fault' = "eraseEnd" /\ UNCHANGED <<memory, changed>>
  /\ UNCHANGED <<pc, syncing, object, crashes>>

\* The caller of random() tests empty() first, without a lock.
FindMusics(u) ==
  /\ life = "live" /\ pc[u] = "idle"
  /\ musics # {}
  /\ Goto(u, "draw")
  /\ UNCHANGED <<memory, changed, syncing, object, crashes, fault>>

\* What random() draws from: the rest of the round, or a new one.
Round == IF mv = {} THEN musics ELSE mv

\* Variant: the music drawn is not taken out of the round.
DrawAndKeep(u, m) ==
  /\ pc[u] = "draw"
  /\ m \in Round
  /\ mv' = Round
  /\ Goto(u, "idle")
  /\ UNCHANGED <<musics, changed, syncing, object, crashes, fault>>

\* random(), under both mutexes: the shuffle makes any music of the round the
\* first one.
Draw(u, m) ==
  /\ pc[u] = "draw"
  /\ m \in Round
  /\ mv' = Round \ {m}
  /\ Goto(u, "idle")
  /\ UNCHANGED <<musics, changed, syncing, object, crashes, fault>>

\* _mv.front() of an empty deque.
DrawFromEmpty(u) ==
  /\ pc[u] = "draw"
  /\ Round = {}
  /\ fault' = "drawFromEmpty"
  /\ UNCHANGED <<memory, changed, syncing, object, pc, crashes>>

-----------------------------------------------------------------------------
(* The synchronisation thread: syncRoutine and flush.                      *)

SyncGoto(from, to) == sync = from /\ sync' = to

\* while (_started)
Loop ==
  /\ SyncGoto("loop", IF started THEN "wait" ELSE "done")
  /\ UNCHANGED <<memory, changed, out, file, object, pc, crashes, fault>>

\* The predicate of wait_for ...
Wait ==
  /\ SyncGoto("wait", IF started THEN "block" ELSE "test")
  /\ UNCHANGED <<memory, changed, out, file, object, pc, crashes, fault>>

\* ... and the wait itself: a notification in between is lost.
Block ==
  /\ SyncGoto("block", "sleep")
  /\ UNCHANGED <<memory, changed, out, file, object, pc, crashes, fault>>

\* Variant: wait in the place of wait_for, which no timeout ends.
TimeoutNever == FALSE /\ UNCHANGED vars

\* syncTime is over (after a spurious wakeup the thread sleeps on).
Timeout ==
  /\ SyncGoto("sleep", "test")
  /\ UNCHANGED <<memory, changed, out, file, object, pc, crashes, fault>>

\* if (_changed)
Test ==
  /\ SyncGoto("test", IF changed THEN "clear" ELSE "loop")
  /\ UNCHANGED <<memory, changed, out, file, object, pc, crashes, fault>>

Clear ==
  /\ SyncGoto("clear", "open")
  /\ changed' = FALSE
  /\ UNCHANGED <<memory, out, file, object, pc, crashes, fault>>

\* std::ofstream truncates the file.
Open ==
  /\ SyncGoto("open", "write")
  /\ file' = {}
  /\ UNCHANGED <<memory, changed, out, object, pc, crashes, fault>>

\* The loop over _musics, under _musicsMutex.
Write ==
  /\ SyncGoto("write", "close")
  /\ out' = musics
  /\ UNCHANGED <<memory, changed, file, object, pc, crashes, fault>>

\* Variant: _changed is reset once the file is written.
CloseThenClear ==
  /\ SyncGoto("close", "loop")
  /\ file' = out
  /\ changed' = FALSE
  /\ UNCHANGED <<memory, out, object, pc, crashes, fault>>

\* The lock is destroyed before the stream, which writes its buffer then.
Close ==
  /\ SyncGoto("close", "loop")
  /\ file' = out
  /\ UNCHANGED <<memory, changed, out, object, pc, crashes, fault>>

SyncStep ==
  Loop \/ Wait \/ Block \/ Timeout \/ Test \/ Clear \/ Open \/ Write \/ Close

-----------------------------------------------------------------------------
(* The life of the object and of the process.                              *)

\* ~Archive, once nobody holds a reference: _started = false.
Destroy ==
  /\ life = "live"
  /\ \A u \in Users : pc[u] = "idle"
  /\ started' = FALSE
  /\ life' = "notify"
  /\ UNCHANGED <<memory, changed, syncing, pc, crashes, fault>>

\* notify_one, without the mutex the thread waits with.
NotifySync ==
  /\ life = "notify"
  /\ life' = "join"
  /\ sync' = IF sync = "sleep" THEN "test" ELSE sync
  /\ UNCHANGED <<memory, changed, started, out, file, pc, crashes, fault>>

\* Variant: the destructor does not wait for the thread.
JoinAtOnce ==
  /\ life = "join"
  /\ life' = "dead"
  /\ UNCHANGED <<memory, changed, started, syncing, pc, crashes, fault>>

Join ==
  /\ life = "join"
  /\ sync = "done"
  /\ life' = "dead"
  /\ UNCHANGED <<memory, changed, started, syncing, pc, crashes, fault>>

\* A new object: load() reads the file into the map and starts a round, then
\* the thread is spawned.
NewObject ==
  /\ musics' = file'
  /\ mv' = file'
  /\ changed' = FALSE
  /\ started' = TRUE
  /\ sync' = "loop"
  /\ out' = {}
  /\ life' = "live"
  /\ pc' = [u \in Users |-> "idle"]

\* The next object on the same file.
Load ==
  /\ life = "dead"
  /\ UNCHANGED <<file, crashes, fault>>
  /\ NewObject

\* What a crash leaves of the lines in the stream: those that went out with a
\* full buffer, and perhaps the beginning of the next one.
Prefixes(lines) ==
  {{m \in lines : m < k} : k \in lines}
    \cup {{m \in lines : m < k} \cup {Torn} : k \in lines} \cup {lines}

\* The process dies, and the next one loads what is left.
Crash ==
  /\ life # "dead"
  /\ crashes < MaxCrashes
  /\ crashes' = crashes + 1
  /\ file' \in IF sync = "close" THEN Prefixes(out) ELSE {file}
  /\ NewObject
  /\ UNCHANGED fault

UserStep(u) == Mark(u) \/ (\E m \in Lines : Draw(u, m)) \/ DrawFromEmpty(u)

Request(u) ==
  \/ \E m \in Music : Add(u, m)
  \/ u \in Removers /\ \E m \in Lines : Remove(u, m)
  \/ FindMusics(u)

Next ==
  /\ fault = "none"
  /\ \/ \E u \in Users : Request(u) \/ UserStep(u)
     \/ SyncStep
     \/ Destroy \/ NotifySync \/ Join \/ Load \/ Crash

Spec == Init /\ [][Next]_vars

(* Fairness.  A user ends what it has begun, the thread goes on, and syncTime *)
(* is over in the end; the mutexes are held for short critical sections only. *)
(* Nothing is assumed of requests, of destruction, of loading or of crashes.  *)
Fairness ==
  /\ \A u \in Users : WF_vars(fault = "none" /\ UserStep(u))
  /\ WF_vars(fault = "none" /\ SyncStep)
  /\ WF_vars(fault = "none" /\ (NotifySync \/ Join))

FairSpec == Spec /\ Fairness

-----------------------------------------------------------------------------
(* Safety.                                                                 *)

\* What the file holds once the stream that is open is closed.
Saved == IF sync = "close" THEN out ELSE file

\* When the map differs from the file, _changed tells so, or will, or a flush is
\* about to read the map: the thread resets _changed before it reads, so that a
\* change made during a flush is marked, although add() sets _changed after it
\* unlocked.  While the archive lives a flush then comes (SavedOnceQuiet); a
\* thread that is stopped may leave the mark and not write
\* (archive.cpp: add, remove, syncRoutine, flush).
NoChangeForgotten ==
  musics # Saved =>
    \/ changed
    \/ sync \in {"open", "write"}
    \/ \E u \in Users : pc[u] = "mark"

\* The round refers to keys of the map: none was erased under it
\* (archive.cpp: remove against random and fillMusicsView).
RoundRefersToMusics == mv \subseteq musics

-----------------------------------------------------------------------------
(* Liveness, under FairSpec.                                               *)

\* Once the map does not change any more, the file gets what the map holds and
\* keeps it (archive.cpp: syncRoutine).
SavedOnceQuiet ==
  /\ <>[](life = "live" /\ fault = "none")
  /\ <>[][UNCHANGED musics]_vars
  => <>[](file = musics)

\* ~Archive returns: a notification that is lost, between the predicate and the
\* wait, only delays it by syncTime (archive.cpp: ~Archive, syncRoutine).
DestructionEnds == life = "notify" ~> life \in {"dead", "live"}

\* A music that stays in the archive is drawn again and again as long as musics
\* are drawn, whatever is added and removed meanwhile (archive.cpp: random).
EveryMusicComesUp ==
  \A m \in Music :
    /\ <>[](m \in musics /\ life = "live" /\ fault = "none")
    /\ []<><<\E u \in Users, n \in Lines : Draw(u, n)>>_vars
    => []<><<\E u \in Users : Draw(u, m)>>_vars

-----------------------------------------------------------------------------
(* What a comment says and the code does not do.                           *)

\* archive.cpp, remove: "Remove the music from the random list"
RemovedFromRandomList ==
  [][\A u \in Users, m \in Lines : Remove(u, m) => m \in mv]_vars
=============================================================================
