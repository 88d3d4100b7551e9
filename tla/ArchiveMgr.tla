----------------------------- MODULE ArchiveMgr -----------------------------
(***************************************************************************)
(* The named playlists: src/archivemgr.cpp, and the commands of a parser   *)
(* that enter, leave and change one.  A playlist is an archive on a file   *)
(* of its own.  Archives are shared_ptrs: the manager keeps the loaded     *)
(* ones in a map, those nobody is in any more in a bounded stash, and a    *)
(* parser keeps the one its client is in.                                  *)
(*                                                                         *)
(* Grain of atomicity: load() is one critical section of _archivesMutex;   *)
(* unload() reads the reference count, erases from the map under the       *)
(* mutex, and changes the stash without it, in steps of their own.  The    *)
(* thread that drops the last reference runs the destructor, while it      *)
(* still holds the mutex when it dropped it from the map.                  *)
(*                                                                         *)
(* Archive models an object from the inside; here it is its musics,        *)
(* _changed, and what matters of its thread.                               *)
(***************************************************************************)
EXTENDS Naturals, FiniteSets, SequencesExt

CONSTANTS
  Parsers,   \* one per connection
  Names,     \* names of playlists
  Invalid,   \* a name with '/' or '~', which load() refuses
  Objects,   \* identities for archive objects
  Music,
  None,
  StashMax,  \* ArchiveMgr::STASH_MAX_SIZE
  MaxDisturbed \* bound of the model: clients issue commands as long as no more
               \* than that many playlists are disturbed

ASSUME ArchiveMgrAssumption ==
  /\ Invalid \notin Names /\ None \notin Names
  /\ None \notin Objects
  /\ IsFiniteSet(Parsers)   \* connections
  /\ StashMax \in Nat \ {0}
  /\ MaxDisturbed \in Nat

VARIABLES
  archives,  \* _archives
  stash,     \* _stashedArchives, the front first
  name,      \* the name of each object, None when the identity is free
  held,      \* _archive of each parser
  got,       \* what load() returned and the parser has not stored yet
  want,      \* the name a parser is going to, None when it leaves
  pc,        \* the statement a parser is at
  victim,    \* the object whose destructor a parser runs
  musics,    \* the musics of each object
  changed,   \* _changed of each object
  late,      \* the thread of each object has yet to test _started, for the first
             \* time or after it wrote: what changes now is left to its next turn
  file,      \* the musics in the file of each playlist
  meant,     \* history: the musics the clients put in each playlist
  disturbed, \* history: the playlists that met one of the windows below
  fault      \* the undefined access that was made, "none" so far

pointers == <<archives, stash, held, got>>
control  == <<want, pc, victim>>
contents == <<musics, changed, late, file, meant>>
vars     == <<pointers, name, control, contents, disturbed, fault>>

Labels ==
  {"idle", "unload", "erase", "stash", "evict", "load", "store", "reset"}

PointerTypes ==
  /\ archives \in [Names -> Objects \cup {None}]
  /\ stash \in Seq(Objects)
  /\ name \in [Objects -> Names \cup {None}]
  /\ held \in [Parsers -> Objects \cup {None}]
  /\ got \in [Parsers -> Objects \cup {None}]

ControlTypes ==
  /\ want \in [Parsers -> Names \cup {Invalid, None}]
  /\ pc \in [Parsers -> Labels]
  /\ victim \in [Parsers -> Objects \cup {None}]
  /\ disturbed \subseteq Names
  /\ fault \in {"none", "stashRace", "popEmptyStash", "sessionRace"}

ContentTypes ==
  /\ musics \in [Objects -> SUBSET Music]
  /\ changed \in [Objects -> BOOLEAN]
  /\ late \in [Objects -> BOOLEAN]
  /\ file \in [Names -> SUBSET Music]
  /\ meant \in [Names -> SUBSET Music]

TypeOK == PointerTypes /\ ControlTypes /\ ContentTypes

Init ==
  /\ archives = [n \in Names |-> None]
  /\ stash = <<>>
  /\ name = [o \in Objects |-> None]
  /\ held = [p \in Parsers |-> None]
  /\ got = [p \in Parsers |-> None]
  /\ want = [p \in Parsers |-> None]
  /\ pc = [p \in Parsers |-> "idle"]
  /\ victim = [p \in Parsers |-> None]
  /\ musics = [o \in Objects |-> {}]
  /\ changed = [o \in Objects |-> FALSE]
  /\ late = [o \in Objects |-> FALSE]
  /\ file \in [Names -> SUBSET Music]
  /\ meant = file
  /\ disturbed = {}
  /\ fault = "none"

-----------------------------------------------------------------------------
(* Helpers. *)

\* shared_ptr::use_count().
UseCount(o) ==
  Cardinality({p \in Parsers : held[p] = o}) +
  Cardinality({p \in Parsers : got[p] = o}) +
  Cardinality({n \in Names : archives[n] = o}) +
  Cardinality({i \in DOMAIN stash : stash[i] = o})

Referenced(o) ==
  \/ \E p \in Parsers : o \in {held[p], got[p]}
  \/ \E n \in Names : archives[n] = o
  \/ \E i \in DOMAIN stash : stash[i] = o

\* Thread p dropped a reference to o: it destroys o if that was the last one.
Drops(p, o) ==
  \E x \in {o} :
    victim' = [victim EXCEPT ![p] = IF x # None /\ ~Referenced(x)'
                                    THEN x ELSE None]

\* p is at a statement, and not in a destructor.
At(p, label) == pc[p] = label /\ victim[p] = None /\ fault = "none"

\* The client of p may issue a command.
Ready(p) == At(p, "idle") /\ Cardinality(disturbed) <= MaxDisturbed

Goto(p, label) == pc' = [pc EXCEPT ![p] = label]

\* A destructor that was called by the map runs under _archivesMutex.
MutexFree ==
  \A p \in Parsers : victim[p] # None => pc[p] \notin {"stash", "store"}

\* The client of q is leaving o, and q has not let go of it.
Left(q, o) == held[q] = o /\ pc[q] \notin {"idle", "unload"}

\* Two windows in which a playlist has an archive that is neither in the map
\* nor in the stash: unload() between its two parts, and a destructor.
InWindow(n) ==
  \E p \in Parsers :
    \/ (pc[p] \in {"erase", "stash"} /\ name[held[p]] = n)
    \/ (victim[p] # None /\ name[victim[p]] = n)

-----------------------------------------------------------------------------
(* unload().                                                               *)

\* Where a command goes on after unload().
Resume(p) == IF want[p] = None THEN "reset" ELSE "load"

\* pl: the client goes to playlist n, whatever it is in.
Pl(p, n) ==
  /\ Ready(p)
  /\ want' = [want EXCEPT ![p] = n]
  /\ Goto(p, IF held[p] = None THEN "load" ELSE "unload")
  /\ UNCHANGED <<pointers, name, victim, contents, disturbed, fault>>

\* plquit, or the destructor of a parser (the next client has a new parser).
PlQuit(p) ==
  /\ Ready(p) /\ held[p] # None
  /\ want' = [want EXCEPT ![p] = None]
  /\ Goto(p, "unload")
  /\ UNCHANGED <<pointers, name, victim, contents, disturbed, fault>>

\* Variant: the references are not counted.
UnloadAlways(p) ==
  /\ At(p, "unload")
  /\ Goto(p, "erase")
  /\ UNCHANGED <<pointers, name, want, victim, contents, disturbed, fault>>

\* The parser still holds its reference, and the map has one.
Unload(p) ==
  /\ At(p, "unload")
  /\ Goto(p, IF UseCount(held[p]) > 2 THEN Resume(p) ELSE "erase")
  /\ UNCHANGED <<pointers, name, want, victim, contents, disturbed, fault>>

\* Under the mutex; what the name maps to may be another object by now.
Erase(p) ==
  LET n == name[held[p]] IN
  /\ At(p, "erase") /\ MutexFree
  /\ archives' = [archives EXCEPT ![n] = None]
  /\ Goto(p, "stash")
  /\ UNCHANGED <<stash, held, got, name, want, contents, disturbed, fault>>
  /\ Drops(p, archives[n])

\* push_front(), without the mutex.
Stash(p) ==
  /\ At(p, "stash")
  /\ stash' = <<held[p]>> \o stash
  /\ Goto(p, IF Len(stash) + 1 > StashMax THEN "evict" ELSE Resume(p))
  /\ UNCHANGED <<archives, held, got, name, want, victim, contents, disturbed,
                 fault>>

\* Variant: the stash is not bounded.
EvictNone(p) ==
  /\ At(p, "evict")
  /\ Goto(p, Resume(p))
  /\ UNCHANGED <<pointers, name, want, victim, contents, disturbed, fault>>

\* pop_back(), without the mutex; undefined when others emptied the stash.  The
\* third window: the parser that stashed the archive may not have let go of it.
Evict(p) ==
  /\ At(p, "evict")
  /\ IF stash = <<>>
     THEN /\ fault' = "popEmptyStash"
          /\ UNCHANGED <<pointers, pc, victim, disturbed>>
     ELSE /\ stash' = Front(stash)
          /\ disturbed' = IF \E q \in Parsers : Left(q, Last(stash))
                          THEN disturbed \cup {name[Last(stash)]} ELSE disturbed
          /\ Goto(p, Resume(p))
          /\ UNCHANGED <<archives, held, got, fault>>
          /\ Drops(p, Last(stash))
  /\ UNCHANGED <<name, want, contents>>

\* plquit resets _archive, the destructor of the parser destroys it.
Reset(p) ==
  /\ At(p, "reset")
  /\ held' = [held EXCEPT ![p] = None]
  /\ Goto(p, "idle")
  /\ UNCHANGED <<archives, stash, got, name, want, contents, disturbed, fault>>
  /\ Drops(p, held[p])

-----------------------------------------------------------------------------
(* load().                                                                 *)

\* A name that is refused: the parser is in no playlist any more.
LoadInvalid(p) ==
  /\ At(p, "load") /\ want[p] = Invalid
  /\ Goto(p, "store")
  /\ UNCHANGED <<pointers, name, want, victim, contents, disturbed, fault>>

\* Variant: the stash is not searched.
StashedNowhere(n) == {}

\* The places of the archives of playlist n in the stash.
Stashed(n) == {i \in DOMAIN stash : name[stash[i]] = n}

\* The first stashed archive of that name goes back to the map, over what
\* the name maps to.
FromStash(p) ==
  LET n == want[p] IN
  /\ At(p, "load") /\ n \in Names /\ MutexFree
  /\ \E i \in Stashed(n) :
       /\ \A j \in Stashed(n) : i <= j
       /\ archives' = [archives EXCEPT ![n] = stash[i]]
       /\ stash' = RemoveAt(stash, i)
       /\ got' = [got EXCEPT ![p] = stash[i]]
  /\ Goto(p, "store")
  /\ disturbed' = IF InWindow(n) THEN disturbed \cup {n} ELSE disturbed
  /\ UNCHANGED <<held, name, want, contents, fault>>
  /\ Drops(p, archives[n])

\* The archive is in the map.
FromMap(p) ==
  LET n == want[p] IN
  /\ At(p, "load") /\ n \in Names /\ MutexFree
  /\ Stashed(n) = {} /\ archives[n] # None
  /\ got' = [got EXCEPT ![p] = archives[n]]
  /\ Goto(p, "store")
  /\ disturbed' = IF InWindow(n) THEN disturbed \cup {n} ELSE disturbed
  /\ UNCHANGED <<archives, stash, held, name, want, victim, contents, fault>>

\* A new archive reads the file, and starts its thread.
Create(p) ==
  LET n == want[p]
      o == CHOOSE o \in Objects : name[o] = None IN
  /\ At(p, "load") /\ n \in Names /\ MutexFree
  /\ Stashed(n) = {} /\ archives[n] = None
  /\ None \in {name[x] : x \in Objects}
  /\ name' = [name EXCEPT ![o] = n]
  /\ musics' = [musics EXCEPT ![o] = file[n]]
  /\ changed' = [changed EXCEPT ![o] = FALSE]
  /\ late' = [late EXCEPT ![o] = TRUE]
  /\ archives' = [archives EXCEPT ![n] = o]
  /\ got' = [got EXCEPT ![p] = o]
  /\ Goto(p, "store")
  /\ disturbed' = IF InWindow(n) THEN disturbed \cup {n} ELSE disturbed
  /\ UNCHANGED <<stash, held, want, victim, file, meant, fault>>

\* The result is assigned to _archive, which drops the archive it designated.
Store(p) ==
  /\ At(p, "store")
  /\ held' = [held EXCEPT ![p] = got[p]]
  /\ got' = [got EXCEPT ![p] = None]
  /\ want' = [want EXCEPT ![p] = None]
  /\ Goto(p, "idle")
  /\ UNCHANGED <<archives, stash, name, contents, disturbed, fault>>
  /\ Drops(p, held[p])

-----------------------------------------------------------------------------
(* The archives.                                                           *)

\* add, in the archive of the playlist the client is in.
Add(p, m) ==
  LET o == held[p] IN
  /\ Ready(p) /\ o # None
  /\ m \notin musics[o]
  /\ musics' = [musics EXCEPT ![o] = @ \cup {m}]
  /\ changed' = [changed EXCEPT ![o] = TRUE]
  /\ meant' = [meant EXCEPT ![name[o]] = @ \cup {m}]
  /\ UNCHANGED <<pointers, name, control, late, file, disturbed, fault>>

\* plrm.
PlRm(p, m) ==
  LET o == held[p] IN
  /\ Ready(p) /\ o # None
  /\ m \in musics[o]
  /\ musics' = [musics EXCEPT ![o] = @ \ {m}]
  /\ changed' = [changed EXCEPT ![o] = TRUE]
  /\ meant' = [meant EXCEPT ![name[o]] = @ \ {m}]
  /\ UNCHANGED <<pointers, name, control, late, file, disturbed, fault>>

\* The thread of an archive: it resets _changed and writes the musics, ...
SyncFlush(o) ==
  /\ name[o] # None /\ fault = "none"
  /\ ~late[o] /\ changed[o]
  /\ changed' = [changed EXCEPT ![o] = FALSE]
  /\ file' = [file EXCEPT ![name[o]] = musics[o]]
  /\ late' = [late EXCEPT ![o] = TRUE]
  /\ UNCHANGED <<pointers, name, control, musics, meant, disturbed, fault>>

\* ... and tests _started, which is false in the destructor only.
SyncLoop(o) ==
  /\ late[o] /\ fault = "none"
  /\ o \notin {victim[p] : p \in Parsers}
  /\ late' = [late EXCEPT ![o] = FALSE]
  /\ UNCHANGED <<pointers, name, control, musics, changed, file, meant,
                 disturbed, fault>>

\* Variant: the destructor does not wait for the thread to write.
DestroyUnwritten(p) ==
  LET o == victim[p] IN
  /\ o # None /\ fault = "none"
  /\ name' = [name EXCEPT ![o] = None]
  /\ victim' = [victim EXCEPT ![p] = None]
  /\ UNCHANGED <<pointers, want, pc, contents, disturbed, fault>>

\* The destructor: the thread writes what it has to write, unless it was about
\* to test _started, which ends it with a change unwritten.
Destroy(p) ==
  LET o == victim[p]
      n == name[o] IN
  /\ o # None /\ fault = "none"
  /\ file' = IF changed[o] /\ ~late[o]
             THEN [file EXCEPT ![n] = musics[o]] ELSE file
  /\ disturbed' = IF changed[o] /\ late[o]
                  THEN disturbed \cup {n} ELSE disturbed
  /\ name' = [name EXCEPT ![o] = None]
  /\ victim' = [victim EXCEPT ![p] = None]
  /\ musics' = [musics EXCEPT ![o] = {}]
  /\ changed' = [changed EXCEPT ![o] = FALSE]
  /\ late' = [late EXCEPT ![o] = FALSE]
  /\ UNCHANGED <<pointers, want, pc, meant, fault>>

-----------------------------------------------------------------------------
(* Undefined accesses.                                                     *)

\* The next statement of p changes the stash, or searches it.
UsesStash(p) ==
  \/ pc[p] \in {"stash", "evict"}
  \/ (pc[p] = "load" /\ want[p] \in Names /\ MutexFree)

\* Two threads use the stash at the same time.
StashRace(p, q) ==
  /\ p # q
  /\ At(p, "stash") \/ At(p, "evict")
  /\ victim[q] = None /\ UsesStash(q)
  /\ fault' = "stashRace"
  /\ UNCHANGED <<pointers, name, control, contents, disturbed>>

\* The parser is subscribed and its random() runs in another thread, which reads
\* _archive while it is assigned.
SessionRace(p) ==
  /\ At(p, "reset") \/ At(p, "store")
  /\ fault' = "sessionRace"
  /\ UNCHANGED <<pointers, name, control, contents, disturbed>>

-----------------------------------------------------------------------------
Load(p) == LoadInvalid(p) \/ FromStash(p) \/ FromMap(p) \/ Create(p)

Leaving(p) == Unload(p) \/ Erase(p) \/ Stash(p) \/ Evict(p) \/ Reset(p)

Ask(p) ==
  \/ \E n \in Names \cup {Invalid} : Pl(p, n)
  \/ PlQuit(p)
  \/ \E m \in Music : Add(p, m) \/ PlRm(p, m)

Race(p) == SessionRace(p) \/ \E q \in Parsers : StashRace(p, q)

Sync(o) == SyncFlush(o) \/ SyncLoop(o)

Next ==
  \/ \E p \in Parsers :
       Ask(p) \/ Leaving(p) \/ Load(p) \/ Store(p) \/ Destroy(p) \/ Race(p)
  \/ \E o \in Objects : Sync(o)

Spec == Init /\ [][Next]_vars

-----------------------------------------------------------------------------
(* Properties.                                                             *)

Calm == Names \ disturbed

\* A playlist has one archive, wherever its clients, the map and the stash
\* found it: two would write the same file over each other.  It holds as long
\* as nobody asked for the playlist in a window of unload() or of a destructor.
OneArchivePerFile ==
  \A n \in Calm : \A o1, o2 \in Objects : name[o1] = n /\ name[o2] = n => o1 = o2

\* What a client is in is what the map has, where the next client finds it:
\* nobody's departure unloads the playlist others are in.
ClientsMeet ==
  \A p \in Parsers :
    held[p] # None /\ pc[p] \in {"idle", "unload"} /\ name[held[p]] \in Calm =>
      archives[name[held[p]]] = held[p]

\* A playlist holds what its clients made of it: in its archive, through
\* departures, the stash and evictions, and then the file has it as well or the
\* thread of the archive knows that it must write it; or in its file alone.  A
\* playlist is disturbed, too, when its archive is destroyed with a change made
\* while its thread, new or back from writing, was about to test _started.
PlaylistKept ==
  \A n \in Calm :
    /\ \A o \in Objects : name[o] = n =>
         /\ musics[o] = meant[n]
         /\ changed[o] \/ file[n] = meant[n]
    /\ n \notin {name[o] : o \in Objects} => file[n] = meant[n]

\* The stash holds StashMax archives, and those that are about to be evicted.
StashBounded ==
  Len(stash) <= StashMax + Cardinality({p \in Parsers : pc[p] = "evict"})
=============================================================================
