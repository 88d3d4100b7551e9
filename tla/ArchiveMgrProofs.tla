-------------------------- MODULE ArchiveMgrProofs --------------------------
(***************************************************************************)
(* Theorems about the named playlists, for any number of parsers, names,   *)
(* archives and musics, and any bound of the stash.                        *)
(***************************************************************************)
EXTENDS ArchiveMgr, SequenceLemmas, FiniteSetTheorems, TLAPS

(* The inductive invariant.                                                *)

\* What is referred to exists, and the map has each archive under its name.
PointersInv ==
  /\ \A o \in Objects : Referenced(o) => name[o] # None
  /\ \A n \in Names : archives[n] # None => name[archives[n]] = n

\* Where the parsers are: one that unloads is in a playlist, one that has loaded
\* is about to store.
ParserInv ==
  \A p \in Parsers :
    /\ pc[p] \in {"unload", "erase", "stash"} => held[p] # None
    /\ got[p] # None => pc[p] = "store"

\* What is being destroyed is still there, once, and nobody refers to it.
VictimInv ==
  /\ \A p \in Parsers :
       victim[p] # None => name[victim[p]] # None /\ ~Referenced(victim[p])
  /\ \A p, q \in Parsers : victim[p] = victim[q] /\ victim[p] # None => p = q

InMap(o) == archives[name[o]] = o

InStash(o) == \E i \in 1..Len(stash) : stash[i] = o

\* The archive of a calm playlist is the only one, and in one place: in the map,
\* where those who are in the playlist find it; on its way to the stash, with the
\* one parser that has it; in the stash, once; or in its destructor.
InOnePlace(o) ==
  /\ \A x \in Objects : name[x] = name[o] => x = o
  /\ \A p \in Parsers :
       /\ held[p] = o /\ pc[p] \in {"idle", "unload", "erase"} => InMap(o)
       /\ got[p] = o => InMap(o)
       /\ held[p] = o /\ pc[p] \in {"erase", "stash"} =>
            \A q \in Parsers \ {p} : held[q] # o /\ got[q] # o
       /\ held[p] = o /\ pc[p] = "stash" => ~InMap(o) /\ ~InStash(o)
  /\ InStash(o) => ~InMap(o)
  /\ \A i, j \in 1..Len(stash) : stash[i] = o /\ stash[j] = o => i = j
  /\ \/ InMap(o)
     \/ InStash(o)
     \/ \E p \in Parsers : held[p] = o /\ pc[p] = "stash"
     \/ \E p \in Parsers : victim[p] = o

CalmInv == \A o \in Objects : name[o] \in Calm => InOnePlace(o)

AInv == TypeOK /\ PointersInv /\ ParserInv /\ VictimInv
-----------------------------------------------------------------------------
(* Facts about the operators.                                              *)

\* The object Create takes was free.
LEMMA NewObject ==
  ASSUME NEW p, Create(p)
  PROVE  \E o \in Objects :
           /\ name[o] = None
           /\ name' = [name EXCEPT ![o] = want[p]]
           /\ musics' = [musics EXCEPT ![o] = file[want[p]]]
           /\ changed' = [changed EXCEPT ![o] = FALSE]
           /\ late' = [late EXCEPT ![o] = TRUE]
           /\ archives' = [archives EXCEPT ![want[p]] = o]
           /\ got' = [got EXCEPT ![p] = o]
<1>. DEFINE new == CHOOSE o \in Objects : name[o] = None
<1>1. \E o \in Objects : name[o] = None
  BY DEF Create
<1>2. new \in Objects /\ name[new] = None
  BY <1>1
<1>. QED
  BY <1>2 DEF Create
-----------------------------------------------------------------------------
(* Types, and what is referred to.                                         *)

\* The steps of the contents of the archives, which touch no pointer.
Contents ==
  \/ \E p \in Parsers, m \in Music : Add(p, m) \/ PlRm(p, m)
  \/ \E o \in Objects : SyncFlush(o) \/ SyncLoop(o)

\* A thread that goes on without touching a pointer.
Moves(p) ==
  \/ \E n \in Names \cup {Invalid} : Pl(p, n)
  \/ PlQuit(p) \/ Unload(p) \/ LoadInvalid(p)

\* A step leaves pointers that name objects, playlists and containers they may name.
LEMMA PointerTypesStep == AInv /\ [Next]_vars => PointerTypes'
<1> SUFFICES ASSUME AInv, [Next]_vars
             PROVE  PointerTypes'
  OBVIOUS
<1>1. PointerTypes
  BY DEF AInv, TypeOK
<1>. USE DEF pointers
<1>2. ASSUME UNCHANGED <<pointers, name>>
      PROVE  PointerTypes'
  BY <1>1, <1>2 DEF PointerTypes
<1>3. ASSUME NEW p \in Parsers, Moves(p) \/ Race(p)
      PROVE  PointerTypes'
  BY <1>2, <1>3 DEF Moves, Pl, PlQuit, Unload, LoadInvalid, Race, StashRace, SessionRace
<1>4. ASSUME Contents
      PROVE  PointerTypes'
  BY <1>2, <1>4 DEF Contents, Add, PlRm, SyncFlush, SyncLoop
<1>5. ASSUME NEW p \in Parsers, Erase(p) \/ Reset(p) \/ Store(p) \/ FromMap(p) \/ Destroy(p)
      PROVE  PointerTypes'
  BY <1>1, <1>5 DEF Erase, Reset, Store, FromMap, Destroy, PointerTypes
<1>6. ASSUME NEW p \in Parsers, Stash(p)
      PROVE  PointerTypes'
  <2>1. held[p] \in Objects
    BY <1>1, <1>6 DEF Stash, At, AInv, ParserInv, PointerTypes
  <2>2. stash' \in Seq(Objects)
    BY <1>1, <1>6, <2>1, ConcatProperties DEF Stash, PointerTypes
  <2>. QED
    BY <1>1, <1>6, <2>2 DEF Stash, PointerTypes
<1>7. ASSUME NEW p \in Parsers, Evict(p)
      PROVE  PointerTypes'
  <2>1. stash' = stash \/ (stash # <<>> /\ stash' = Front(stash))
    BY <1>7 DEF Evict
  <2>2. stash' \in Seq(Objects)
    BY <1>1, <2>1, FrontProperties DEF PointerTypes
  <2>3. UNCHANGED <<archives, name, held, got>>
    BY <1>7 DEF Evict
  <2>. QED
    BY <1>1, <2>2, <2>3 DEF PointerTypes
<1>8. ASSUME NEW p \in Parsers, FromStash(p)
      PROVE  PointerTypes'
  <2>1. PICK i \in Stashed(want[p]) :
          /\ archives' = [archives EXCEPT ![want[p]] = stash[i]]
          /\ stash' = RemoveAt(stash, i)
          /\ got' = [got EXCEPT ![p] = stash[i]]
    BY <1>8 DEF FromStash
  <2>2. i \in 1..Len(stash) /\ stash[i] \in Objects
    BY <1>1 DEF Stashed, PointerTypes
  <2>3. stash' \in Seq(Objects)
    BY <1>1, <2>1, <2>2, RemoveAtProperties DEF PointerTypes
  <2>4. UNCHANGED <<held, name>>
    BY <1>8 DEF FromStash
  <2>. QED
    BY <1>1, <2>1, <2>2, <2>3, <2>4 DEF PointerTypes
<1>9. ASSUME NEW p \in Parsers, Create(p)
      PROVE  PointerTypes'
  <2>1. PICK o \in Objects : /\ name[o] = None
                             /\ name' = [name EXCEPT ![o] = want[p]]
                             /\ archives' = [archives EXCEPT ![want[p]] = o]
                             /\ got' = [got EXCEPT ![p] = o]
    BY <1>9, NewObject
  <2>2. want[p] \in Names /\ UNCHANGED <<stash, held>>
    BY <1>9 DEF Create
  <2>. QED
    BY <1>1, <2>1, <2>2 DEF PointerTypes
<1>10. ASSUME UNCHANGED vars
       PROVE  PointerTypes'
  BY <1>2, <1>10 DEF vars
<1>. QED
  BY <1>3, <1>4, <1>5, <1>6, <1>7, <1>8, <1>9, <1>10
     DEF Next, Ask, Leaving, Load, Sync, Moves, Contents

\* No step refers to an object that was not referred to, but to a new one.
LEMMA NoNewReference ==
  AInv /\ [Next]_vars =>
    \A o \in Objects :
      Referenced(o)' => Referenced(o) \/ (name[o] = None /\ name'[o] # None)
<1> SUFFICES ASSUME AInv, [Next]_vars, NEW o \in Objects, Referenced(o)'
             PROVE  Referenced(o) \/ (name[o] = None /\ name'[o] # None)
  OBVIOUS
<1>1. /\ PointerTypes /\ DOMAIN stash = 1..Len(stash)
      /\ o # None
  BY ArchiveMgrAssumption DEF AInv, TypeOK, PointerTypes
<1>2. stash' \in Seq(Objects) /\ DOMAIN stash' = 1..Len(stash')
  BY PointerTypesStep DEF PointerTypes
<1>. USE DEF pointers
<1>3. ASSUME UNCHANGED pointers
      PROVE  Referenced(o)
  BY <1>3 DEF Referenced
<1>4. ASSUME NEW p \in Parsers, Moves(p) \/ Race(p) \/ Destroy(p)
      PROVE  Referenced(o)
  BY <1>3, <1>4 DEF Moves, Pl, PlQuit, Unload, LoadInvalid, Race, StashRace, SessionRace,
                    Destroy
<1>5. ASSUME Contents
      PROVE  Referenced(o)
  BY <1>3, <1>5 DEF Contents, Add, PlRm, SyncFlush, SyncLoop
<1>6. ASSUME NEW p \in Parsers, Erase(p) \/ Reset(p) \/ Store(p) \/ FromMap(p)
      PROVE  Referenced(o)
  BY <1>1, <1>6 DEF Erase, Reset, Store, FromMap, Referenced, PointerTypes
<1>7. ASSUME NEW p \in Parsers, Stash(p)
      PROVE  Referenced(o)
  <2>1. held[p] \in Objects
    BY <1>1, <1>7 DEF Stash, At, AInv, ParserInv, PointerTypes
  <2>2. stash' = <<held[p]>> \o stash /\ UNCHANGED <<archives, held, got>>
    BY <1>7 DEF Stash
  <2>3. \A i \in 1..Len(stash') : stash'[i] = held[p] \/ \E j \in 1..Len(stash) : stash'[i] = stash[j]
    <3>1. ASSUME NEW i \in 1..Len(stash')
          PROVE  \/ i = 1 /\ stash'[i] = held[p]
                 \/ i-1 \in 1..Len(stash) /\ stash'[i] = stash[i-1]
      BY <1>1, <2>1, <2>2 DEF PointerTypes
    <3>. QED
      BY <3>1
  <2>. QED
    BY <1>1, <1>2, <2>2, <2>3 DEF Referenced
<1>8. ASSUME NEW p \in Parsers, Evict(p)
      PROVE  Referenced(o)
  <2>1. UNCHANGED <<archives, held, got>>
    BY <1>8 DEF Evict
  <2>2. CASE stash' = stash
    BY <1>3, <2>1, <2>2
  <2>3. CASE stash # <<>> /\ stash' = Front(stash)
    <3>1. \A i \in 1..Len(stash') : i \in 1..Len(stash) /\ stash'[i] = stash[i]
      BY <1>1, <2>3, FrontProperties DEF PointerTypes
    <3>. QED
      BY <1>1, <1>2, <2>1, <3>1 DEF Referenced
  <2>. QED
    BY <1>8, <2>2, <2>3 DEF Evict
<1>9. ASSUME NEW p \in Parsers, FromStash(p)
      PROVE  Referenced(o)
  <2>1. PICK i \in Stashed(want[p]) :
          /\ archives' = [archives EXCEPT ![want[p]] = stash[i]]
          /\ stash' = RemoveAt(stash, i)
          /\ got' = [got EXCEPT ![p] = stash[i]]
    BY <1>9 DEF FromStash
  <2>2. i \in 1..Len(stash)
    BY <1>1 DEF Stashed
  <2>3. \A j \in 1..Len(stash') : \E k \in 1..Len(stash) : stash'[j] = stash[k]
    <3>1. stash \in Seq(Objects) /\ Len(stash) \in Nat
      BY <1>1 DEF PointerTypes
    <3>2. /\ Len(RemoveAt(stash, i)) = Len(stash) - 1
          /\ \A j \in 1..Len(stash)-1 :
               RemoveAt(stash, i)[j] = IF j < i THEN stash[j] ELSE stash[j+1]
      BY <2>2, <3>1, RemoveAtProperties
    <3>3. ASSUME NEW j \in 1..Len(stash')
          PROVE  \/ j \in 1..Len(stash) /\ stash'[j] = stash[j]
                 \/ j+1 \in 1..Len(stash) /\ stash'[j] = stash[j+1]
      BY <2>1, <2>2, <3>1, <3>2, <3>3
    <3>. QED
      BY <3>3
  <2>4. held' = held
    BY <1>9 DEF FromStash
  <2>. QED
    BY <1>1, <1>2, <2>1, <2>2, <2>3, <2>4 DEF Referenced, PointerTypes
<1>10. ASSUME NEW p \in Parsers, Create(p)
       PROVE  Referenced(o) \/ (name[o] = None /\ name'[o] # None)
  <2>1. PICK x \in Objects : /\ name[x] = None
                             /\ name' = [name EXCEPT ![x] = want[p]]
                             /\ archives' = [archives EXCEPT ![want[p]] = x]
                             /\ got' = [got EXCEPT ![p] = x]
    BY <1>10, NewObject
  <2>2. UNCHANGED <<stash, held>> /\ want[p] # None
    BY <1>10, ArchiveMgrAssumption DEF Create
  <2>3. CASE o = x
    BY <1>1, <2>1, <2>2, <2>3 DEF PointerTypes
  <2>4. CASE o # x
    BY <1>1, <2>1, <2>2, <2>4 DEF Referenced, PointerTypes
  <2>. QED
    BY <2>3, <2>4
<1>11. ASSUME UNCHANGED vars
       PROVE  Referenced(o)
  BY <1>3, <1>11 DEF vars
<1>. QED
  BY <1>4, <1>5, <1>6, <1>7, <1>8, <1>9, <1>10, <1>11
     DEF Next, Ask, Leaving, Load, Sync, Moves, Contents

\* What is referred to exists: load() registers a new archive before it returns it,
\* and an archive is destroyed once nobody refers to it (shared_ptr).
LEMMA PointersStep == AInv /\ [Next]_vars => PointersInv'
<1> SUFFICES ASSUME AInv, [Next]_vars
             PROVE  PointersInv'
  OBVIOUS
<1>1. PointerTypes /\ PointerTypes' /\ PointersInv
  BY PointerTypesStep DEF AInv, TypeOK
<1>2. \A o \in Objects :
        Referenced(o)' => Referenced(o) \/ (name[o] = None /\ name'[o] # None)
  BY NoNewReference
<1>. USE DEF pointers
<1>3. ASSUME NEW p \in Parsers, Create(p)
      PROVE  PointersInv'
  <2>1. PICK x \in Objects : /\ name[x] = None
                             /\ name' = [name EXCEPT ![x] = want[p]]
                             /\ archives' = [archives EXCEPT ![want[p]] = x]
    BY <1>3, NewObject
  <2>2. want[p] \in Names /\ want[p] # None
    BY <1>3, ArchiveMgrAssumption DEF Create
  <2>3. ASSUME NEW o \in Objects, Referenced(o)'
        PROVE  name'[o] # None
    BY <1>1, <1>2, <2>1, <2>2, <2>3 DEF PointersInv, PointerTypes
  <2>4. ASSUME NEW n \in Names, archives'[n] # None
        PROVE  name'[archives'[n]] = n
    BY <1>1, <2>1, <2>2, <2>4, ArchiveMgrAssumption DEF PointersInv, PointerTypes
  <2>. QED
    BY <2>3, <2>4 DEF PointersInv
<1>4. ASSUME NEW p \in Parsers, Destroy(p)
      PROVE  PointersInv'
  <2>1. /\ victim[p] # None /\ name' = [name EXCEPT ![victim[p]] = None]
        /\ UNCHANGED pointers
    BY <1>4 DEF Destroy
  <2>2. victim[p] \in Objects /\ ~Referenced(victim[p])
    BY <2>1 DEF AInv, TypeOK, ControlTypes, VictimInv
  <2>3. \A o \in Objects : Referenced(o)' <=> Referenced(o)
    BY <2>1 DEF Referenced
  <2>4. \A n \in Names : archives[n] # victim[p]
    BY <2>2 DEF Referenced
  <2>. QED
    BY <1>1, <2>1, <2>2, <2>3, <2>4 DEF PointersInv, PointerTypes
\* The name of what the map designates, in a step that names nothing.
<1>5. ASSUME name' = name,
             \A n \in Names : archives'[n] # None => name[archives'[n]] = n
      PROVE  PointersInv'
  BY <1>1, <1>2, <1>5 DEF PointersInv
<1>6. ASSUME NEW p \in Parsers,
             \/ Moves(p) \/ Race(p) \/ Erase(p) \/ Stash(p) \/ Evict(p) \/ Reset(p)
             \/ FromMap(p) \/ Store(p)
      PROVE  PointersInv'
  <2>1. /\ name' = name
        /\ archives' = archives \/ \E n : archives' = [archives EXCEPT ![n] = None]
    BY <1>6 DEF Moves, Pl, PlQuit, Unload, LoadInvalid, Race, StashRace, SessionRace,
                Erase, Stash, Evict, Reset, FromMap, Store
  <2>2. \A n \in Names : archives'[n] = archives[n] \/ archives'[n] = None
    BY <1>1, <2>1 DEF PointerTypes
  <2>. QED
    BY <1>1, <1>5, <2>1, <2>2 DEF PointersInv
<1>7. ASSUME NEW p \in Parsers, FromStash(p)
      PROVE  PointersInv'
  <2>1. PICK i \in Stashed(want[p]) : archives' = [archives EXCEPT ![want[p]] = stash[i]]
    BY <1>7 DEF FromStash
  <2>2. name[stash[i]] = want[p] /\ name' = name
    BY <1>7 DEF FromStash, Stashed
  <2>3. \A n \in Names : n # want[p] => archives'[n] = archives[n]
    BY <1>1, <2>1 DEF PointerTypes
  <2>4. want[p] \in Names => archives'[want[p]] = stash[i]
    BY <1>1, <2>1 DEF PointerTypes
  <2>. QED
    BY <1>1, <1>5, <2>2, <2>3, <2>4 DEF PointersInv
<1>8. ASSUME Contents \/ UNCHANGED vars
      PROVE  PointersInv'
  <2>1. UNCHANGED <<name, archives>>
    BY <1>8 DEF Contents, Add, PlRm, SyncFlush, SyncLoop, vars
  <2>. QED
    BY <1>1, <1>5, <2>1 DEF PointersInv
<1>. QED
  BY <1>3, <1>4, <1>6, <1>7, <1>8 DEF Next, Ask, Leaving, Load, Sync, Moves, Contents

\* A parser that unloads is in a playlist, and only one that stores has a result of
\* load() left (CmdParser: plload, plquit).
LEMMA ParserStep == AInv /\ [Next]_vars => ParserInv'
<1> SUFFICES ASSUME AInv, [Next]_vars, NEW q \in Parsers
             PROVE  /\ pc'[q] \in {"unload", "erase", "stash"} => held'[q] # None
                    /\ got'[q] # None => pc'[q] = "store"
  BY DEF ParserInv
<1>1. /\ pc \in [Parsers -> Labels]
      /\ held \in [Parsers -> Objects \cup {None}]
      /\ got \in [Parsers -> Objects \cup {None}]
      /\ pc[q] \in {"unload", "erase", "stash"} => held[q] # None
      /\ got[q] # None => pc[q] = "store"
  BY DEF AInv, TypeOK, PointerTypes, ControlTypes, ParserInv
<1>. DEFINE Goal == /\ pc'[q] \in {"unload", "erase", "stash"} => held'[q] # None
                    /\ got'[q] # None => pc'[q] = "store"
<1>. USE DEF pointers, Goto, At
<1>2. ASSUME UNCHANGED <<pc, held, got>>
      PROVE  Goal
  BY <1>1, <1>2
<1>3. ASSUME NEW p \in Parsers, Moves(p)
      PROVE  Goal
  <2>1. UNCHANGED <<held, got>>
    BY <1>3 DEF Moves, Pl, PlQuit, Unload, LoadInvalid
  <2>2. CASE \E n \in Names \cup {Invalid} : Pl(p, n)
    BY <1>1, <2>1, <2>2 DEF Pl, Ready
  <2>3. CASE PlQuit(p)
    BY <1>1, <2>1, <2>3 DEF PlQuit, Ready
  <2>4. CASE Unload(p)
    BY <1>1, <2>1, <2>4 DEF Unload, Resume
  <2>5. CASE LoadInvalid(p)
    BY <1>1, <2>1, <2>5 DEF LoadInvalid
  <2>. QED
    BY <1>3, <2>2, <2>3, <2>4, <2>5 DEF Moves
<1>4. ASSUME NEW p \in Parsers, Erase(p) \/ Stash(p)
      PROVE  Goal
  BY <1>1, <1>4 DEF Erase, Stash, Resume
<1>5. ASSUME NEW p \in Parsers, Evict(p)
      PROVE  Goal
  <2>1. UNCHANGED <<held, got>> /\ pc[p] = "evict"
    BY <1>5 DEF Evict
  <2>2. pc' = pc \/ pc' = [pc EXCEPT ![p] = Resume(p)]
    BY <1>5 DEF Evict
  <2>. QED
    BY <1>1, <2>1, <2>2 DEF Resume
<1>6. ASSUME NEW p \in Parsers, Reset(p) \/ Store(p)
      PROVE  Goal
  BY <1>1, <1>6 DEF Reset, Store
<1>7. ASSUME NEW p \in Parsers, FromMap(p) \/ FromStash(p) \/ Create(p)
      PROVE  Goal
  <2>1. /\ pc[p] = "load" /\ pc' = [pc EXCEPT ![p] = "store"]
        /\ held' = held
        /\ \E o : got' = [got EXCEPT ![p] = o]
    BY <1>7 DEF FromMap, FromStash, Create
  <2>. QED
    BY <1>1, <2>1
<1>8. ASSUME \/ \E p \in Parsers : Race(p) \/ Destroy(p)
             \/ Contents \/ UNCHANGED vars
      PROVE  Goal
  <2>1. UNCHANGED <<pc, held, got>>
    BY <1>8 DEF Race, StashRace, SessionRace, Destroy, Contents, Add, PlRm, SyncFlush,
                SyncLoop, control, vars
  <2>. QED
    BY <1>2, <2>1
<1>. HIDE DEF Goal
<1>9. Goal
  BY <1>3, <1>4, <1>5, <1>6, <1>7, <1>8 DEF Next, Ask, Leaving, Load, Sync, Moves, Contents
<1>. QED
  BY <1>9 DEF Goal

\* The thread that drops the last reference destroys the object, once: nobody can
\* find the object any more (shared_ptr).
LEMMA VictimStep == AInv /\ [Next]_vars => VictimInv'
<1> SUFFICES ASSUME AInv, [Next]_vars
             PROVE  VictimInv'
  OBVIOUS
<1>1. PointerTypes /\ ControlTypes /\ PointersInv /\ VictimInv
  BY DEF AInv, TypeOK
<1>2. \A o \in Objects :
        Referenced(o)' => Referenced(o) \/ (name[o] = None /\ name'[o] # None)
  BY NoNewReference
<1>3. victim \in [Parsers -> Objects \cup {None}] /\ None \notin Objects
  BY <1>1, ArchiveMgrAssumption DEF ControlTypes
\* No object starts to be destroyed.
<1>4. ASSUME victim' = victim,
             \A o \in Objects : name[o] # None => name'[o] = name[o]
      PROVE  VictimInv'
  <2>1. ASSUME NEW p \in Parsers, victim[p] # None
        PROVE  name'[victim[p]] # None /\ ~Referenced(victim[p])'
    <3>1. PICK x \in Objects : x = victim[p]
      BY <1>3, <2>1
    <3>2. name[x] # None /\ ~Referenced(x)
      BY <1>1, <2>1, <3>1 DEF VictimInv
    <3>3. name'[x] # None /\ ~Referenced(x)'
      BY <1>2, <1>4, <3>2
    <3>4. victim'[p] = x
      BY <1>4, <3>1
    <3>. QED
      BY <3>1, <3>3, <3>4 DEF Referenced
  <2>. QED
    BY <1>1, <1>4, <2>1 DEF VictimInv
\* p drops a reference to x.
<1>5. ASSUME NEW p \in Parsers, victim[p] = None, name' = name,
             NEW x \in Objects \cup {None}, x # None => Referenced(x),
             victim' = [victim EXCEPT ![p] = IF x # None /\ ~Referenced(x)' THEN x ELSE None]
      PROVE  VictimInv'
  <2>1. \A q \in Parsers : q # p => victim'[q] = victim[q]
    BY <1>3, <1>5
  <2>2. CASE victim'[p] = None
    <3>1. ASSUME NEW q \in Parsers, victim'[q] # None
          PROVE  name'[victim'[q]] # None /\ ~Referenced(victim[q])'
      <4>1. PICK y \in Objects : y = victim[q] /\ victim'[q] = y
        BY <1>3, <2>1, <2>2, <3>1
      <4>2. name[y] # None /\ ~Referenced(y)
        BY <1>1, <4>1, <1>3 DEF VictimInv
      <4>3. ~Referenced(y)'
        BY <1>2, <4>2
      <4>. QED
        BY <1>5, <4>1, <4>2, <4>3 DEF Referenced
    <3>2. \A q \in Parsers : victim'[q] # None => victim'[q] = victim[q]
      BY <2>1, <2>2
    <3>. QED
      BY <1>1, <3>1, <3>2 DEF VictimInv
  <2>3. CASE victim'[p] # None
    <3>1. x \in Objects /\ victim'[p] = x /\ ~Referenced(x)' /\ Referenced(x)
      BY <1>3, <1>5, <2>3
    <3>2. name[x] # None
      BY <1>1, <3>1 DEF PointersInv
    <3>3. ASSUME NEW q \in Parsers, q # p, victim'[q] # None
          PROVE  name'[victim'[q]] # None /\ ~Referenced(victim[q])' /\ victim'[q] # x
      <4>1. PICK y \in Objects : y = victim[q] /\ victim'[q] = y
        BY <1>3, <2>1, <3>3
      <4>2. name[y] # None /\ ~Referenced(y)
        BY <1>1, <4>1, <1>3 DEF VictimInv
      <4>3. ~Referenced(y)' /\ y # x
        BY <1>2, <3>1, <4>2
      <4>. QED
        BY <1>5, <4>1, <4>2, <4>3 DEF Referenced
    <3>4. name'[victim'[p]] # None /\ ~Referenced(victim[p])'
      BY <1>5, <3>1, <3>2 DEF Referenced
    <3>5. \A q, r \in Parsers :
            victim'[q] = victim'[r] /\ victim'[q] # None => q = r
      BY <1>1, <2>1, <3>1, <3>3 DEF VictimInv
    <3>. QED
      BY <3>3, <3>4, <3>5 DEF VictimInv
  <2>. QED
    BY <2>2, <2>3
<1>. USE DEF pointers
<1>6. ASSUME NEW p \in Parsers, Moves(p) \/ Race(p) \/ Stash(p) \/ FromMap(p)
      PROVE  VictimInv'
  <2>1. UNCHANGED <<victim, name>>
    BY <1>6 DEF Moves, Pl, PlQuit, Unload, LoadInvalid, Race, StashRace, SessionRace,
                Stash, FromMap, control
  <2>. QED
    BY <1>4, <2>1
<1>7. ASSUME NEW p \in Parsers, Create(p)
      PROVE  VictimInv'
  <2>1. \A o \in Objects : name[o] # None => name'[o] = name[o]
    BY <1>1, <1>7, NewObject DEF PointerTypes
  <2>2. victim' = victim
    BY <1>7 DEF Create
  <2>. QED
    BY <1>4, <2>1, <2>2
<1>8. ASSUME Contents \/ UNCHANGED vars
      PROVE  VictimInv'
  <2>1. UNCHANGED <<victim, name>>
    BY <1>8 DEF Contents, Add, PlRm, SyncFlush, SyncLoop, control, vars
  <2>. QED
    BY <1>4, <2>1
<1>9. ASSUME NEW p \in Parsers, NEW o, Drops(p, o), victim[p] = None, name' = name,
             o \in Objects \cup {None}, o # None => Referenced(o)
      PROVE  VictimInv'
  BY <1>5, <1>9 DEF Drops
<1>10. ASSUME NEW p \in Parsers, Erase(p)
       PROVE  VictimInv'
  <2>1. /\ Drops(p, archives[name[held[p]]]) /\ name' = name /\ victim[p] = None
        /\ pc[p] = "erase"
    BY <1>10 DEF Erase, At
  <2>2. held[p] \in Objects
    BY <1>1, <2>1 DEF AInv, ParserInv, PointerTypes
  <2>3. Referenced(held[p])
    BY <2>2 DEF Referenced
  <2>4. name[held[p]] \in Names
    BY <1>1, <2>2, <2>3 DEF PointersInv, PointerTypes
  <2>5. /\ archives[name[held[p]]] \in Objects \cup {None}
        /\ archives[name[held[p]]] # None => Referenced(archives[name[held[p]]])
    BY <1>1, <2>4 DEF Referenced, PointerTypes
  <2>. QED
    BY <1>9, <2>1, <2>5
<1>11. ASSUME NEW p \in Parsers, FromStash(p)
       PROVE  VictimInv'
  <2>1. /\ Drops(p, archives[want[p]]) /\ name' = name /\ victim[p] = None
        /\ want[p] \in Names
    BY <1>11 DEF FromStash, At
  <2>2. /\ archives[want[p]] \in Objects \cup {None}
        /\ archives[want[p]] # None => Referenced(archives[want[p]])
    BY <1>1, <2>1 DEF Referenced, PointerTypes
  <2>. QED
    BY <1>9, <2>1, <2>2
<1>12. ASSUME NEW p \in Parsers, Evict(p)
       PROVE  VictimInv'
  <2>1. CASE stash = <<>>
    BY <1>4, <1>12, <2>1 DEF Evict
  <2>2. CASE stash # <<>>
    <3>1. Drops(p, Last(stash)) /\ name' = name /\ victim[p] = None
      BY <1>12, <2>2 DEF Evict, At
    <3>2. Last(stash) \in Objects /\ Last(stash) = stash[Len(stash)] /\ Len(stash) \in DOMAIN stash
      BY <1>1, <2>2, FrontProperties DEF PointerTypes
    <3>3. Referenced(Last(stash))
      BY <3>2 DEF Referenced
    <3>. QED
      BY <1>9, <3>1, <3>2, <3>3
  <2>. QED
    BY <2>1, <2>2
<1>13. ASSUME NEW p \in Parsers, Reset(p) \/ Store(p)
       PROVE  VictimInv'
  <2>1. Drops(p, held[p]) /\ name' = name /\ victim[p] = None
    BY <1>13 DEF Reset, Store, At
  <2>2. held[p] \in Objects \cup {None} /\ (held[p] # None => Referenced(held[p]))
    BY <1>1 DEF Referenced, PointerTypes
  <2>. QED
    BY <1>9, <2>1, <2>2
<1>14. ASSUME NEW p \in Parsers, Destroy(p)
       PROVE  VictimInv'
  <2>1. /\ victim[p] # None /\ name' = [name EXCEPT ![victim[p]] = None]
        /\ victim' = [victim EXCEPT ![p] = None]
        /\ UNCHANGED pointers
    BY <1>14 DEF Destroy
  <2>2. ASSUME NEW q \in Parsers, victim'[q] # None
        PROVE  /\ victim'[q] = victim[q] /\ victim[q] \in Objects
               /\ victim[q] # victim[p]
    BY <1>1, <1>3, <2>1, <2>2 DEF VictimInv
  <2>3. ASSUME NEW q \in Parsers, victim'[q] # None
        PROVE  name'[victim'[q]] # None /\ ~Referenced(victim[q])'
    <3>1. name'[victim[q]] = name[victim[q]]
      BY <1>1, <2>1, <2>2, <2>3 DEF PointerTypes
    <3>2. name[victim[q]] # None /\ ~Referenced(victim[q])
      BY <1>1, <2>2, <2>3 DEF VictimInv
    <3>. QED
      BY <2>1, <2>2, <2>3, <3>1, <3>2 DEF Referenced
  <2>. QED
    BY <1>1, <2>2, <2>3 DEF VictimInv
<1>. QED
  BY <1>6, <1>7, <1>8, <1>10, <1>11, <1>12, <1>13, <1>14
     DEF Next, Ask, Leaving, Load, Sync, Moves, Contents

\* The other types: in particular a playlist that is marked has a name.
LEMMA ControlTypesStep == AInv /\ [Next]_vars => ControlTypes'
<1> SUFFICES ASSUME AInv, [Next]_vars
             PROVE  ControlTypes'
  OBVIOUS
<1>1. PointerTypes /\ ControlTypes /\ PointersInv /\ VictimInv
  BY DEF AInv, TypeOK
<1>. USE DEF pointers, control, Goto
<1>2. ASSUME UNCHANGED <<want, pc, victim, disturbed>>,
             fault' \in {"none", "stashRace", "popEmptyStash", "sessionRace"}
      PROVE  ControlTypes'
  BY <1>1, <1>2 DEF ControlTypes
<1>3. ASSUME NEW p \in Parsers, NEW o \in Objects \cup {None}, Drops(p, o)
      PROVE  victim' \in [Parsers -> Objects \cup {None}]
  BY <1>1, <1>3 DEF Drops, ControlTypes
<1>4. \A o \in Objects : Referenced(o) => name[o] \in Names
  BY <1>1 DEF PointersInv, PointerTypes
<1>5. \A p \in Parsers : Resume(p) \in Labels
  BY DEF Resume, Labels
<1>6. ASSUME NEW p \in Parsers, NEW label \in Labels, NEW w \in Names \cup {Invalid, None},
             want' = want \/ want' = [want EXCEPT ![p] = w],
             pc' = pc \/ pc' = [pc EXCEPT ![p] = label],
             victim' \in [Parsers -> Objects \cup {None}], fault' = fault,
             disturbed' \subseteq Names
      PROVE  ControlTypes'
  BY <1>1, <1>6 DEF ControlTypes
<1>7. victim \in [Parsers -> Objects \cup {None}] /\ disturbed \subseteq Names
  BY <1>1 DEF ControlTypes
<1>8. ASSUME NEW p \in Parsers, Moves(p) \/ Stash(p) \/ FromMap(p) \/ Create(p)
      PROVE  ControlTypes'
  <2>1. UNCHANGED <<victim, fault>>
    BY <1>8 DEF Moves, Pl, PlQuit, Unload, LoadInvalid, Stash, FromMap, Create
  <2>2. disturbed' = disturbed \/ (want[p] \in Names /\ disturbed' = disturbed \cup {want[p]})
    BY <1>8 DEF Moves, Pl, PlQuit, Unload, LoadInvalid, Stash, FromMap, Create
  <2>3. \E label \in Labels : pc' = [pc EXCEPT ![p] = label]
    BY <1>5, <1>8 DEF Moves, Pl, PlQuit, Unload, LoadInvalid, Stash, FromMap, Create, Labels
  <2>4. \/ want' = want
        \/ \E w \in Names \cup {Invalid, None} : want' = [want EXCEPT ![p] = w]
    BY <1>8 DEF Moves, Pl, PlQuit, Unload, LoadInvalid, Stash, FromMap, Create
  <2>. QED
    BY <1>6, <1>7, <2>1, <2>2, <2>3, <2>4
<1>9. ASSUME NEW p \in Parsers, Erase(p)
      PROVE  ControlTypes'
  <2>1. /\ Drops(p, archives[name[held[p]]]) /\ pc[p] = "erase"
        /\ pc' = [pc EXCEPT ![p] = "stash"]
        /\ UNCHANGED <<want, disturbed, fault>>
    BY <1>9 DEF Erase, At
  <2>2. held[p] \in Objects
    BY <1>1, <2>1 DEF AInv, ParserInv, PointerTypes
  <2>3. archives[name[held[p]]] \in Objects \cup {None}
    BY <1>1, <1>4, <2>2 DEF Referenced, PointerTypes
  <2>4. "stash" \in Labels /\ None \in Names \cup {Invalid, None}
    BY DEF Labels
  <2>. QED
    BY <1>3, <1>6, <1>7, <2>1, <2>3, <2>4
<1>10. ASSUME NEW p \in Parsers, Evict(p)
       PROVE  ControlTypes'
  <2>1. CASE stash = <<>>
    BY <1>2, <1>10, <2>1 DEF Evict
  <2>2. CASE stash # <<>>
    <3>1. /\ Drops(p, Last(stash)) /\ pc' = [pc EXCEPT ![p] = Resume(p)]
          /\ disturbed' = disturbed \/ disturbed' = disturbed \cup {name[Last(stash)]}
          /\ UNCHANGED <<want, fault>>
      BY <1>10, <2>2 DEF Evict
    <3>2. Last(stash) \in Objects /\ Last(stash) = stash[Len(stash)] /\ Len(stash) \in DOMAIN stash
      BY <1>1, <2>2, FrontProperties DEF PointerTypes
    <3>3. name[Last(stash)] \in Names
      BY <1>4, <3>2 DEF Referenced
    <3>. QED
      BY <1>3, <1>5, <1>6, <1>7, <3>1, <3>2, <3>3
  <2>. QED
    BY <2>1, <2>2
<1>11. ASSUME NEW p \in Parsers, Reset(p) \/ Store(p)
       PROVE  ControlTypes'
  <2>1. /\ Drops(p, held[p]) /\ pc' = [pc EXCEPT ![p] = "idle"]
        /\ want' = want \/ want' = [want EXCEPT ![p] = None]
        /\ UNCHANGED <<disturbed, fault>>
    BY <1>11 DEF Reset, Store
  <2>2. held[p] \in Objects \cup {None} /\ "idle" \in Labels
    BY <1>1 DEF PointerTypes, Labels
  <2>. QED
    BY <1>3, <1>6, <1>7, <2>1, <2>2
<1>12. ASSUME NEW p \in Parsers, FromStash(p)
       PROVE  ControlTypes'
  <2>1. /\ Drops(p, archives[want[p]]) /\ pc' = [pc EXCEPT ![p] = "store"]
        /\ disturbed' = disturbed \/ disturbed' = disturbed \cup {want[p]}
        /\ want[p] \in Names
        /\ UNCHANGED <<want, fault>>
    BY <1>12 DEF FromStash
  <2>2. archives[want[p]] \in Objects \cup {None} /\ "store" \in Labels
    BY <1>1, <2>1 DEF PointerTypes, Labels
  <2>. QED
    BY <1>3, <1>6, <1>7, <2>1, <2>2
<1>13. ASSUME NEW p \in Parsers, Destroy(p)
       PROVE  ControlTypes'
  <2>1. /\ victim[p] # None /\ victim' = [victim EXCEPT ![p] = None]
        /\ disturbed' = disturbed \/ disturbed' = disturbed \cup {name[victim[p]]}
        /\ UNCHANGED <<want, pc, fault>>
    BY <1>13 DEF Destroy
  <2>2. name[victim[p]] \in Names
    BY <1>1, <1>7, <2>1 DEF VictimInv, PointerTypes
  <2>. QED
    BY <1>1, <2>1, <2>2 DEF ControlTypes
<1>14. ASSUME \/ \E p \in Parsers : Race(p)
              \/ Contents \/ UNCHANGED vars
       PROVE  ControlTypes'
  <2>1. fault \in {"none", "stashRace", "popEmptyStash", "sessionRace"}
    BY <1>1 DEF ControlTypes
  <2>. QED
    BY <1>2, <1>14, <2>1 DEF Race, StashRace, SessionRace, Contents, Add, PlRm, SyncFlush,
                             SyncLoop, vars
<1>. QED
  BY <1>8, <1>9, <1>10, <1>11, <1>12, <1>13, <1>14
     DEF Next, Ask, Leaving, Load, Sync, Moves, Contents

\* What the archives and the files hold are musics.
LEMMA ContentTypesStep == AInv /\ [Next]_vars => ContentTypes'
<1> SUFFICES ASSUME AInv, [Next]_vars
             PROVE  ContentTypes'
  OBVIOUS
<1>1. ContentTypes
  BY DEF AInv, TypeOK
<1>2. ASSUME UNCHANGED contents
      PROVE  ContentTypes'
  BY <1>1, <1>2 DEF contents, ContentTypes
<1>3. ASSUME NEW p \in Parsers,
             \/ Moves(p) \/ Race(p) \/ Erase(p) \/ Stash(p) \/ Evict(p) \/ Reset(p)
             \/ FromStash(p) \/ FromMap(p) \/ Store(p)
      PROVE  ContentTypes'
  BY <1>2, <1>3 DEF Moves, Pl, PlQuit, Unload, LoadInvalid, Race, StashRace, SessionRace,
                    Erase, Stash, Evict, Reset, FromStash, FromMap, Store
<1>4. ASSUME NEW p \in Parsers, NEW m \in Music, Add(p, m) \/ PlRm(p, m)
      PROVE  ContentTypes'
  <2>1. /\ \/ musics' = [musics EXCEPT ![held[p]] = @ \cup {m}]
           \/ musics' = [musics EXCEPT ![held[p]] = @ \ {m}]
        /\ \/ meant' = [meant EXCEPT ![name[held[p]]] = @ \cup {m}]
           \/ meant' = [meant EXCEPT ![name[held[p]]] = @ \ {m}]
    BY <1>4 DEF Add, PlRm
  <2>2. musics' \in [Objects -> SUBSET Music] /\ meant' \in [Names -> SUBSET Music]
    BY <1>1, <2>1 DEF ContentTypes
  <2>3. /\ changed' = [changed EXCEPT ![held[p]] = TRUE]
        /\ UNCHANGED <<late, file>>
    BY <1>4 DEF Add, PlRm
  <2>4. changed' \in [Objects -> BOOLEAN]
    BY <1>1, <2>3 DEF ContentTypes
  <2>. QED
    BY <1>1, <2>2, <2>3, <2>4 DEF ContentTypes
<1>5. ASSUME NEW o \in Objects, SyncFlush(o) \/ SyncLoop(o)
      PROVE  ContentTypes'
  <2>1. /\ file' = file \/ file' = [file EXCEPT ![name[o]] = musics[o]]
        /\ changed' = changed \/ changed' = [changed EXCEPT ![o] = FALSE]
        /\ \E b \in BOOLEAN : late' = [late EXCEPT ![o] = b]
        /\ UNCHANGED <<musics, meant>>
    BY <1>5 DEF SyncFlush, SyncLoop
  <2>2. file' \in [Names -> SUBSET Music]
    BY <1>1, <2>1 DEF ContentTypes
  <2>3. changed' \in [Objects -> BOOLEAN] /\ late' \in [Objects -> BOOLEAN]
    BY <1>1, <2>1 DEF ContentTypes
  <2>. QED
    BY <1>1, <2>1, <2>2, <2>3 DEF ContentTypes
<1>6. ASSUME NEW p \in Parsers, Create(p)
      PROVE  ContentTypes'
  <2>1. PICK o \in Objects : /\ musics' = [musics EXCEPT ![o] = file[want[p]]]
                             /\ changed' = [changed EXCEPT ![o] = FALSE]
                             /\ late' = [late EXCEPT ![o] = TRUE]
    BY <1>6, NewObject
  <2>2. want[p] \in Names /\ UNCHANGED <<file, meant>>
    BY <1>6 DEF Create
  <2>3. musics' \in [Objects -> SUBSET Music]
    BY <1>1, <2>1, <2>2 DEF ContentTypes
  <2>. QED
    BY <1>1, <2>1, <2>2, <2>3 DEF ContentTypes
<1>7. ASSUME NEW p \in Parsers, Destroy(p)
      PROVE  ContentTypes'
  <2>1. PICK o \in Objects : o = victim[p]
    BY <1>7 DEF Destroy, AInv, TypeOK, ControlTypes
  <2>2. /\ musics' = [musics EXCEPT ![o] = {}]
        /\ changed' = [changed EXCEPT ![o] = FALSE]
        /\ late' = [late EXCEPT ![o] = FALSE]
        /\ file' = file \/ file' = [file EXCEPT ![name[o]] = musics[o]]
        /\ meant' = meant
    BY <1>7, <2>1 DEF Destroy
  <2>3. file' \in [Names -> SUBSET Music]
    BY <1>1, <2>2 DEF ContentTypes
  <2>. QED
    BY <1>1, <2>2, <2>3 DEF ContentTypes
<1>8. ASSUME UNCHANGED vars
      PROVE  ContentTypes'
  BY <1>2, <1>8 DEF vars
<1>. QED
  BY <1>3, <1>4, <1>5, <1>6, <1>7, <1>8
     DEF Next, Ask, Leaving, Load, Sync, Moves, Contents

\* Nothing is loaded at first (ArchiveMgr's constructor).
LEMMA AInit == Init => AInv
<1> SUFFICES ASSUME Init
             PROVE  AInv
  OBVIOUS
<1>1. PointerTypes
  BY EmptySeq DEF Init, PointerTypes
<1>2. ControlTypes
  BY DEF Init, ControlTypes, Labels
<1>3. ContentTypes
  BY DEF Init, ContentTypes
<1>4. \A o \in Objects : ~Referenced(o)
  BY ArchiveMgrAssumption DEF Init, Referenced
<1>. QED
  BY <1>1, <1>2, <1>3, <1>4
     DEF Init, AInv, TypeOK, PointersInv, ParserInv, VictimInv

\* AInv is an inductive invariant.
LEMMA AInvariant == Spec => []AInv
<1>1. AInv /\ [Next]_vars => AInv'
  BY PointerTypesStep, ControlTypesStep, ContentTypesStep, PointersStep, ParserStep,
     VictimStep DEF AInv, TypeOK
<1>. QED
  BY <1>1, AInit, PTL DEF Spec

\* The state of the named playlists is well typed: no parser, map entry or stash
\* entry refers to an archive that was destroyed, and no archive is destroyed twice
\* (the references of archivemgr.cpp).
THEOREM ArchiveMgrTypeCorrect == Spec => [](TypeOK /\ PointersInv /\ VictimInv)
<1>1. AInv => TypeOK /\ PointersInv /\ VictimInv
  BY DEF AInv
<1>. QED
  BY <1>1, AInvariant, PTL
-----------------------------------------------------------------------------
(* The bound of the stash.                                                 *)

Evicting == {p \in Parsers : pc[p] = "evict"}

\* A parser that makes the stash too long evicts, whatever the others put in or
\* take out between its two steps (ArchiveMgr::unload).
LEMMA StashStep == AInv /\ StashBounded /\ [Next]_vars => StashBounded'
<1> SUFFICES ASSUME AInv, StashBounded, [Next]_vars
             PROVE  StashBounded'
  OBVIOUS
<1>1. /\ stash \in Seq(Objects) /\ Len(stash) \in Nat /\ StashMax \in Nat \ {0}
      /\ pc \in [Parsers -> Labels]
  BY ArchiveMgrAssumption DEF AInv, TypeOK, PointerTypes, ControlTypes
<1>2. /\ IsFiniteSet(Evicting) /\ Cardinality(Evicting) \in Nat
      /\ Len(stash) <= StashMax + Cardinality(Evicting)
  <2>1. Evicting \subseteq Parsers
    BY DEF Evicting
  <2>2. IsFiniteSet(Evicting)
    BY <2>1, ArchiveMgrAssumption, FS_Subset
  <2>. QED
    BY <2>2, FS_CardinalityType DEF StashBounded, Evicting
<1>3. ASSUME Len(stash') \in Nat, Len(stash') <= Len(stash), Evicting' = Evicting
      PROVE  StashBounded'
  <2>1. Cardinality(Evicting') = Cardinality(Evicting)
    BY <1>3
  <2>2. Len(stash') <= StashMax + Cardinality(Evicting')
    BY <1>1, <1>2, <1>3, <2>1
  <2>. QED
    BY <2>2 DEF StashBounded, Evicting
\* A thread that goes from a label that is not "evict" to another one.
<1>4. ASSUME NEW p \in Parsers, NEW label, pc' = [pc EXCEPT ![p] = label],
             pc[p] # "evict", label # "evict"
      PROVE  Evicting' = Evicting
  BY <1>1, <1>4 DEF Evicting
<1>. USE DEF pointers, control, At, Goto
<1>5. ASSUME NEW p \in Parsers, Stash(p)
      PROVE  StashBounded'
  <2>1. held[p] \in Objects
    BY <1>5 DEF Stash, AInv, ParserInv, TypeOK, PointerTypes
  <2>2. Len(stash') = Len(stash) + 1
    BY <1>1, <1>5, <2>1 DEF Stash
  <2>3. CASE Len(stash) + 1 > StashMax
    <3>1. Evicting' = Evicting \cup {p} /\ p \notin Evicting
      BY <1>1, <1>5, <2>3 DEF Stash, Evicting
    <3>2. Cardinality(Evicting') = Cardinality(Evicting) + 1
      BY <1>2, <3>1, FS_AddElement
    <3>3. Len(stash') <= StashMax + Cardinality(Evicting')
      BY <1>1, <1>2, <2>2, <3>2
    <3>. QED
      BY <3>3 DEF StashBounded, Evicting
  <2>4. CASE ~(Len(stash) + 1 > StashMax)
    <3>1. Evicting' = Evicting
      BY <1>4, <1>5, <2>4 DEF Stash, Resume
    <3>2. Len(stash') <= StashMax + Cardinality(Evicting')
      BY <1>1, <1>2, <2>2, <2>4, <3>1
    <3>. QED
      BY <3>2 DEF StashBounded, Evicting
  <2>. QED
    BY <2>3, <2>4
<1>6. ASSUME NEW p \in Parsers, Evict(p)
      PROVE  StashBounded'
  <2>1. CASE stash = <<>>
    <3>1. UNCHANGED <<stash, pc>>
      BY <1>6, <2>1 DEF Evict
    <3>. QED
      BY <1>1, <1>3, <3>1 DEF Evicting
  <2>2. CASE stash # <<>>
    <3>1. Len(stash') = Len(stash) - 1 /\ Len(stash) > 0
      BY <1>1, <1>6, <2>2, FrontProperties DEF Evict
    <3>2. pc[p] = "evict" /\ pc' = [pc EXCEPT ![p] = Resume(p)]
      BY <1>6, <2>2 DEF Evict
    <3>3. Evicting' = Evicting \ {p} /\ p \in Evicting
      BY <1>1, <3>2 DEF Resume, Evicting
    <3>4. Cardinality(Evicting') = Cardinality(Evicting) - 1
      BY <1>2, <3>3, FS_RemoveElement
    <3>5. Len(stash') <= StashMax + Cardinality(Evicting')
      BY <1>1, <1>2, <3>1, <3>4
    <3>. QED
      BY <3>5 DEF StashBounded, Evicting
  <2>. QED
    BY <2>1, <2>2
<1>7. ASSUME NEW p \in Parsers, FromStash(p)
      PROVE  StashBounded'
  <2>1. PICK i \in Stashed(want[p]) : stash' = RemoveAt(stash, i)
    BY <1>7 DEF FromStash
  <2>2. i \in 1..Len(stash)
    BY <1>1 DEF Stashed
  <2>3. Len(RemoveAt(stash, i)) = Len(stash) - 1
    BY <1>1, <2>2, RemoveAtProperties
  <2>4. Evicting' = Evicting
    BY <1>4, <1>7 DEF FromStash
  <2>. QED
    BY <1>1, <1>3, <2>1, <2>2, <2>3, <2>4
<1>8. ASSUME NEW p \in Parsers,
             \/ Moves(p) \/ Erase(p) \/ Reset(p) \/ FromMap(p) \/ Create(p) \/ Store(p)
      PROVE  StashBounded'
  <2>1. /\ stash' = stash /\ pc[p] # "evict"
        /\ \E label \in Labels \ {"evict"} : pc' = [pc EXCEPT ![p] = label]
    BY <1>8 DEF Moves, Pl, PlQuit, Unload, LoadInvalid, Erase, Reset, FromMap, Create,
                Store, Ready, Resume, Labels
  <2>2. PICK label \in Labels \ {"evict"} : pc' = [pc EXCEPT ![p] = label]
    BY <2>1
  <2>3. Evicting' = Evicting
    BY <1>4, <2>1, <2>2
  <2>4. Len(stash') \in Nat /\ Len(stash') <= Len(stash)
    BY <1>1, <2>1
  <2>. QED
    BY <1>3, <2>3, <2>4
<1>9. ASSUME \/ \E p \in Parsers : Race(p) \/ Destroy(p)
             \/ Contents \/ UNCHANGED vars
      PROVE  StashBounded'
  <2>1. UNCHANGED <<stash, pc>>
    BY <1>9 DEF Race, StashRace, SessionRace, Destroy, Contents, Add, PlRm, SyncFlush,
                SyncLoop, vars
  <2>. QED
    BY <1>1, <1>3, <2>1 DEF Evicting
<1>. QED
  BY <1>5, <1>6, <1>7, <1>8, <1>9 DEF Next, Ask, Leaving, Load, Sync, Moves, Contents

\* The stash never holds more than its bound and one archive per parser that is
\* about to evict (ArchiveMgr::unload pushes and pops without a lock).
THEOREM StashStaysBounded == Spec => []StashBounded
<1>1. Init => StashBounded
  <2> SUFFICES ASSUME Init
               PROVE  StashBounded
    OBVIOUS
  <2>1. {p \in Parsers : pc[p] = "evict"} = {}
    BY DEF Init
  <2>2. Cardinality({p \in Parsers : pc[p] = "evict"}) = 0
    BY <2>1, FS_EmptySet
  <2>. QED
    BY <2>2, ArchiveMgrAssumption DEF Init, StashBounded
<1>2. AInv /\ StashBounded /\ [Next]_vars => StashBounded'
  BY StashStep
<1>. QED
  BY <1>1, <1>2, AInvariant, PTL DEF Spec
-----------------------------------------------------------------------------
(* One archive per playlist, in one place.                                 *)

\* A playlist that is calm after a step was calm before it.
LEMMA CalmBefore == [Next]_vars => Calm' \subseteq Calm
<1> SUFFICES ASSUME [Next]_vars
             PROVE  disturbed \subseteq disturbed'
  BY DEF Calm
<1>1. ASSUME NEW p \in Parsers, Ask(p) \/ Leaving(p)
      PROVE  disturbed \subseteq disturbed'
  BY <1>1 DEF Ask, Pl, PlQuit, Add, PlRm, Leaving, Unload, Erase, Stash, Evict, Reset
<1>2. ASSUME NEW p \in Parsers, Load(p) \/ Store(p) \/ Destroy(p) \/ Race(p)
      PROVE  disturbed \subseteq disturbed'
  BY <1>2 DEF Load, LoadInvalid, FromStash, FromMap, Create, Store, Destroy, Race,
              StashRace, SessionRace
<1>3. ASSUME NEW o \in Objects, Sync(o)
      PROVE  disturbed \subseteq disturbed'
  BY <1>3 DEF Sync, SyncFlush, SyncLoop
<1>. QED
  BY <1>1, <1>2, <1>3 DEF Next, vars

\* What unload() concludes from the reference count: the map and the parser have
\* the only references, when the parser is in what the map has.
LEMMA LastClient ==
  ASSUME AInv, NEW p \in Parsers, NEW o \in Objects,
         held[p] = o, InMap(o), ~(UseCount(o) > 2)
  PROVE  \A q \in Parsers \ {p} : held[q] # o /\ got[q] # o
<1>. DEFINE holders == {q \in Parsers : held[q] = o}
            getters == {q \in Parsers : got[q] = o}
            names   == {n \in Names : archives[n] = o}
            places  == {i \in DOMAIN stash : stash[i] = o}
<1>1. o # None /\ name[o] \in Names /\ names = {name[o]}
  <2>1. o # None /\ Referenced(o) /\ name[o] # None
    BY ArchiveMgrAssumption DEF AInv, PointersInv, Referenced
  <2>2. name[o] \in Names
    BY <2>1 DEF AInv, TypeOK, PointerTypes
  <2>3. \A n \in Names : archives[n] = o => n = name[o]
    BY <2>1 DEF AInv, PointersInv
  <2>. QED
    BY <2>1, <2>2, <2>3 DEF InMap
<1>2. /\ IsFiniteSet(holders) /\ Cardinality(holders) \in Nat
      /\ IsFiniteSet(getters) /\ Cardinality(getters) \in Nat
  <2>1. holders \subseteq Parsers /\ getters \subseteq Parsers
    OBVIOUS
  <2>2. IsFiniteSet(holders) /\ IsFiniteSet(getters)
    BY <2>1, ArchiveMgrAssumption, FS_Subset
  <2>. QED
    BY <2>2, FS_CardinalityType
<1>3. Cardinality(names) = 1
  BY <1>1, FS_Singleton
<1>4. IsFiniteSet(places) /\ Cardinality(places) \in Nat
  <2>1. places \subseteq 1..Len(stash) /\ Len(stash) \in Nat
    BY DEF AInv, TypeOK, PointerTypes
  <2>2. IsFiniteSet(1..Len(stash))
    BY <2>1, FS_Interval
  <2>3. IsFiniteSet(places)
    BY <2>1, <2>2, FS_Subset
  <2>. QED
    BY <2>3, FS_CardinalityType
<1>5. Cardinality(holders) + Cardinality(getters) + 1 + Cardinality(places) <= 2
  <2>1. UseCount(o) = Cardinality(holders) + Cardinality(getters) + Cardinality(names)
                      + Cardinality(places)
    BY DEF UseCount
  <2>. HIDE DEF holders, getters, names, places
  <2>. QED
    BY <1>2, <1>3, <1>4, <2>1
<1>6. p \in holders
  OBVIOUS
<1>7. Cardinality(holders) # 0
  BY <1>2, <1>6, FS_EmptySet
<1>8. Cardinality(holders) = 1 /\ Cardinality(getters) = 0
  <2>. HIDE DEF holders, getters, places
  <2>. QED
    BY <1>2, <1>4, <1>5, <1>7
<1>9. getters = {}
  BY <1>2, <1>8, FS_EmptySet
<1>10. holders = {p}
  <2>1. PICK q : holders = {q}
    <3>. HIDE DEF holders
    <3>. QED
      BY <1>2, <1>8, FS_Singleton
  <2>. QED
    BY <1>6, <2>1
<1>. QED
  BY <1>9, <1>10

\* The archives that a step neither makes nor moves.
LEMMA NotMoved ==
  ASSUME NEW o \in Objects, name'[o] = name[o], InOnePlace(o),
         \A x \in Objects : name'[x] = name[o] => name[x] = name[o],
         archives'[name[o]] = archives[name[o]],
         InStash(o)' <=> InStash(o),
         \A i, j \in 1..Len(stash') : stash'[i] = o /\ stash'[j] = o => i = j,
         \A p \in Parsers : held'[p] = o => held[p] = o,
         \A p \in Parsers : got'[p] = o => got[p] = o,
         \A p \in Parsers : held[p] = o => \/ pc'[p] = pc[p]
                                           \/ pc[p] = "idle" /\ pc'[p] = "unload"
                                           \/ held'[p] # o
                                           \/ pc'[p] \in {"evict", "load", "store", "reset"},
         \A p \in Parsers : held[p] = o /\ pc[p] = "stash" =>
                              held'[p] = o /\ pc'[p] = "stash",
         \A p \in Parsers : victim[p] = o => victim'[p] = o
  PROVE  InOnePlace(o)'
<1>1. InMap(o)' <=> InMap(o)
  BY DEF InMap
<1>2. \A x \in Objects : name'[x] = name'[o] => x = o
  BY DEF InOnePlace
<1>3. ASSUME NEW p \in Parsers
      PROVE  /\ held'[p] = o /\ pc'[p] \in {"idle", "unload", "erase"} => InMap(o)'
             /\ got'[p] = o => InMap(o)'
             /\ held'[p] = o /\ pc'[p] \in {"erase", "stash"} =>
                  \A q \in Parsers \ {p} : held'[q] # o /\ got'[q] # o
             /\ held'[p] = o /\ pc'[p] = "stash" => ~InMap(o)' /\ ~InStash(o)'
  <2>1. /\ held[p] = o /\ pc[p] \in {"idle", "unload", "erase"} => InMap(o)
        /\ got[p] = o => InMap(o)
        /\ held[p] = o /\ pc[p] \in {"erase", "stash"} =>
             \A q \in Parsers \ {p} : held[q] # o /\ got[q] # o
        /\ held[p] = o /\ pc[p] = "stash" => ~InMap(o) /\ ~InStash(o)
    BY DEF InOnePlace
  <2>. QED
    BY <1>1, <2>1
<1>4. InStash(o)' => ~InMap(o)'
  BY <1>1 DEF InOnePlace
<1>5. \/ InMap(o)'
      \/ InStash(o)'
      \/ \E p \in Parsers : held'[p] = o /\ pc'[p] = "stash"
      \/ \E p \in Parsers : victim'[p] = o
  BY <1>1 DEF InOnePlace
<1>. QED
  BY <1>2, <1>3, <1>4, <1>5 DEF InOnePlace, InMap, InStash

\* load() makes an archive for a calm playlist when it has none.
LEMMA NoOtherArchive ==
  ASSUME AInv, CalmInv, NEW p \in Parsers, Create(p), want[p] \in Calm'
  PROVE  \A o \in Objects : name[o] # want[p]
<1> SUFFICES ASSUME NEW o \in Objects, name[o] = want[p]
             PROVE  FALSE
  OBVIOUS
<1>. DEFINE n == want[p]
<1>1. /\ Stashed(n) = {} /\ archives[n] = None /\ ~InWindow(n)
      /\ n \in Names /\ n \in Calm
  BY DEF Create, Calm
<1>2. InOnePlace(o)
  BY <1>1 DEF CalmInv
<1>3. ~InMap(o)
  BY <1>1, ArchiveMgrAssumption DEF InMap
<1>4. ~InStash(o)
  BY <1>1 DEF InStash, Stashed, AInv, TypeOK, PointerTypes
<1>5. \A q \in Parsers : ~(held[q] = o /\ pc[q] = "stash") /\ victim[q] # o
  BY <1>1, ArchiveMgrAssumption DEF InWindow
<1>. QED
  BY <1>2, <1>3, <1>4, <1>5 DEF InOnePlace

\* unload() and load() keep the archive of a calm playlist in one place, step by
\* step.
LEMMA CalmStep == AInv /\ CalmInv /\ [Next]_vars => CalmInv'
<1> SUFFICES ASSUME AInv, CalmInv, [Next]_vars, NEW o \in Objects, name'[o] \in Calm'
             PROVE  InOnePlace(o)'
  BY DEF CalmInv
<1>1. /\ PointerTypes /\ ControlTypes /\ PointersInv /\ VictimInv /\ ParserInv
      /\ name \in [Objects -> Names \cup {None}]
      /\ archives \in [Names -> Objects \cup {None}]
      /\ held \in [Parsers -> Objects \cup {None}]
      /\ got \in [Parsers -> Objects \cup {None}]
      /\ pc \in [Parsers -> Labels]
      /\ victim \in [Parsers -> Objects \cup {None}]
      /\ stash \in Seq(Objects) /\ Len(stash) \in Nat /\ DOMAIN stash = 1..Len(stash)
      /\ None \notin Objects /\ None \notin Names /\ name'[o] \in Names
  BY ArchiveMgrAssumption DEF AInv, TypeOK, PointerTypes, ControlTypes, Calm
<1>2. \A x \in Objects : name[x] = name'[o] => InOnePlace(x)
  BY CalmBefore DEF CalmInv
<1>. USE DEF pointers, control, Goto, At
<1>3. ASSUME name' = name
      PROVE  /\ name[o] \in Names /\ InOnePlace(o)
             /\ \A x \in Objects : name'[x] = name[o] => name[x] = name[o]
  BY <1>1, <1>2, <1>3
<1>4. \A p, q \in Parsers : got[p] # None => pc[p] = "store"
  BY <1>1 DEF ParserInv
\* The steps that move no archive.
<1>5. ASSUME UNCHANGED <<pointers, name>>,
             \A p \in Parsers : \/ pc'[p] = pc[p]
                                \/ pc[p] = "idle" /\ pc'[p] = "unload"
                                \/ /\ pc[p] # "stash"
                                   /\ pc'[p] \in {"evict", "load", "store", "reset"},
             \A p \in Parsers : victim[p] = o => victim'[p] = o
      PROVE  InOnePlace(o)'
  <2>1. InStash(o)' <=> InStash(o)
    BY <1>5 DEF InStash
  <2>2. InOnePlace(o) /\ name'[o] = name[o]
    BY <1>3, <1>5
  <2>3. \A i, j \in 1..Len(stash') : stash'[i] = o /\ stash'[j] = o => i = j
    BY <1>5, <2>2 DEF InOnePlace
  <2>. QED
    BY <1>3, <1>5, <2>1, <2>2, <2>3, NotMoved
<1>6. ASSUME NEW p \in Parsers,
             \/ \E n \in Names \cup {Invalid} : Pl(p, n)
             \/ PlQuit(p) \/ LoadInvalid(p) \/ Race(p)
      PROVE  InOnePlace(o)'
  <2>1. UNCHANGED <<pointers, name, victim>>
    BY <1>6 DEF Pl, PlQuit, LoadInvalid, Race, StashRace, SessionRace
  <2>2. \/ pc' = pc
        \/ /\ pc[p] = "idle"
           /\ pc' = [pc EXCEPT ![p] = "unload"] \/ pc' = [pc EXCEPT ![p] = "load"]
        \/ pc[p] = "load" /\ pc' = [pc EXCEPT ![p] = "store"]
    BY <1>6 DEF Pl, PlQuit, LoadInvalid, Race, StashRace, SessionRace, Ready
  <2>. QED
    BY <1>1, <1>5, <2>1, <2>2
<1>7. ASSUME Contents \/ UNCHANGED vars
      PROVE  InOnePlace(o)'
  <2>1. UNCHANGED <<pointers, name, pc, victim>>
    BY <1>7 DEF Contents, Add, PlRm, SyncFlush, SyncLoop, vars
  <2>. QED
    BY <1>5, <2>1
<1>8. ASSUME NEW p \in Parsers, Unload(p)
      PROVE  InOnePlace(o)'
  <2>1. UNCHANGED <<pointers, name, victim>> /\ pc[p] = "unload"
    BY <1>8 DEF Unload
  <2>2. CASE held[p] # o \/ UseCount(o) > 2
    <3>1. CASE UseCount(held[p]) > 2
      <4>1. pc' = [pc EXCEPT ![p] = Resume(p)]
        BY <1>8, <3>1 DEF Unload
      <4>. QED
        BY <1>1, <1>5, <2>1, <4>1 DEF Resume
    <3>2. CASE held[p] # o /\ ~(UseCount(held[p]) > 2)
      <4>1. pc' = [pc EXCEPT ![p] = "erase"]
        BY <1>8, <3>2 DEF Unload
      <4>2. \A q \in Parsers : held[q] = o => pc'[q] = pc[q]
        BY <1>1, <3>2, <4>1
      <4>3. InStash(o)' <=> InStash(o)
        BY <2>1 DEF InStash
      <4>4. InOnePlace(o) /\ name'[o] = name[o]
        BY <1>3, <2>1
      <4>5. \A i, j \in 1..Len(stash') : stash'[i] = o /\ stash'[j] = o => i = j
        BY <2>1, <4>4 DEF InOnePlace
      <4>. QED
        BY <1>3, <2>1, <4>2, <4>3, <4>4, <4>5, NotMoved
    <3>. QED
      BY <2>2, <3>1, <3>2
  <2>3. CASE held[p] = o /\ ~(UseCount(o) > 2)
    <3>1. pc' = [pc EXCEPT ![p] = "erase"]
      BY <1>8, <2>3 DEF Unload
    <3>2. InOnePlace(o) /\ InMap(o)
      BY <1>3, <2>1, <2>3 DEF InOnePlace
    <3>3. \A q \in Parsers \ {p} : held[q] # o /\ got[q] # o
      BY <2>3, <3>2, LastClient
    <3>4. \A x \in Objects : name'[x] = name'[o] => x = o
      BY <2>1, <3>2 DEF InOnePlace
    <3>5. InMap(o)' /\ ~InStash(o)'
      BY <2>1, <3>2 DEF InOnePlace, InMap, InStash
    <3>6. \A i, j \in 1..Len(stash') : stash'[i] = o /\ stash'[j] = o => i = j
      BY <2>1, <3>2 DEF InOnePlace
    <3>7. \A q \in Parsers : held'[q] = o => q = p
      BY <2>1, <3>3
    <3>8. \A q \in Parsers \ {p} : held'[q] # o /\ got'[q] # o
      BY <2>1, <3>3
    <3>9. pc'[p] = "erase"
      BY <1>1, <3>1
    <3>. QED
      BY <3>4, <3>5, <3>6, <3>7, <3>8, <3>9 DEF InOnePlace, InMap, InStash
  <2>. QED
    BY <2>2, <2>3
<1>9. ASSUME NEW p \in Parsers, Reset(p)
      PROVE  InOnePlace(o)'
  <2>1. /\ held' = [held EXCEPT ![p] = None] /\ pc' = [pc EXCEPT ![p] = "idle"]
        /\ pc[p] = "reset" /\ victim[p] = None
        /\ UNCHANGED <<archives, stash, got, name>>
    BY <1>9 DEF Reset
  <2>2. \A q \in Parsers : victim[q] = o => victim'[q] = o
    BY <1>1, <1>9, <2>1 DEF Reset, Drops
  <2>3. InOnePlace(o) /\ name'[o] = name[o]
    BY <1>3, <2>1
  <2>4. InStash(o)' <=> InStash(o)
    BY <2>1 DEF InStash
  <2>5. \A i, j \in 1..Len(stash') : stash'[i] = o /\ stash'[j] = o => i = j
    BY <2>1, <2>3 DEF InOnePlace
  <2>6. held'[p] # o /\ \A q \in Parsers \ {p} : held'[q] = held[q] /\ pc'[q] = pc[q]
    BY <1>1, <2>1
  <2>. QED
    BY <1>3, <2>1, <2>2, <2>3, <2>4, <2>5, <2>6, NotMoved
<1>10. ASSUME NEW p \in Parsers, Destroy(p)
       PROVE  InOnePlace(o)'
  <2>1. /\ victim[p] # None /\ name' = [name EXCEPT ![victim[p]] = None]
        /\ victim' = [victim EXCEPT ![p] = None]
        /\ UNCHANGED <<pointers, pc>>
    BY <1>10 DEF Destroy
  <2>2. o # victim[p] /\ name'[o] = name[o]
    BY <1>1, <2>1
  <2>3. \A x \in Objects : name'[x] = name[o] => name[x] = name[o]
    BY <1>1, <2>1, <2>2
  <2>4. \A q \in Parsers : victim[q] = o => victim'[q] = o
    BY <1>1, <2>1, <2>2
  <2>5. InStash(o)' <=> InStash(o)
    BY <2>1 DEF InStash
  <2>6. InOnePlace(o)
    BY <1>2, <2>2
  <2>7. \A i, j \in 1..Len(stash') : stash'[i] = o /\ stash'[j] = o => i = j
    BY <2>1, <2>6 DEF InOnePlace
  <2>. QED
    BY <2>1, <2>2, <2>3, <2>4, <2>5, <2>6, <2>7, NotMoved
<1>11. ASSUME NEW p \in Parsers, Erase(p)
       PROVE  InOnePlace(o)'
  <2>. DEFINE h == held[p]
              n == name[h]
  <2>1. /\ archives' = [archives EXCEPT ![n] = None]
        /\ pc' = [pc EXCEPT ![p] = "stash"] /\ pc[p] = "erase" /\ victim[p] = None
        /\ UNCHANGED <<stash, held, got, name>>
    BY <1>11 DEF Erase
  <2>2. h \in Objects /\ Referenced(h)
    BY <1>1, <2>1 DEF ParserInv, Referenced
  <2>3. n \in Names
    BY <1>1, <2>2 DEF PointersInv
  <2>4. \A q \in Parsers : victim[q] = o => victim'[q] = o
    BY <1>1, <1>11, <2>1 DEF Erase, Drops
  <2>5. InOnePlace(o) /\ name'[o] = name[o]
    BY <1>3, <2>1
  <2>6. InStash(o)' <=> InStash(o)
    BY <2>1 DEF InStash
  <2>7. \A i, j \in 1..Len(stash') : stash'[i] = o /\ stash'[j] = o => i = j
    BY <2>1, <2>5 DEF InOnePlace
  <2>8. CASE h = o
    <3>1. InMap(o) /\ ~InStash(o) /\ \A q \in Parsers \ {p} : held[q] # o /\ got[q] # o
      BY <2>1, <2>5, <2>8 DEF InOnePlace
    <3>2. ~InMap(o)' /\ ~InStash(o)'
      BY <1>1, <2>1, <2>3, <2>6, <2>8, <3>1 DEF InMap
    <3>3. got[p] # o
      BY <1>1, <1>4, <2>1
    <3>4. \A q \in Parsers : got'[q] # o /\ (held'[q] = o => q = p)
      BY <2>1, <3>1, <3>3
    <3>5. pc'[p] = "stash" /\ held'[p] = o
      BY <1>1, <2>1, <2>8
    <3>6. \A x \in Objects : name'[x] = name'[o] => x = o
      BY <2>1, <2>5 DEF InOnePlace
    <3>. QED
      BY <2>7, <3>2, <3>4, <3>5, <3>6 DEF InOnePlace, InMap, InStash
  <2>9. CASE h # o
    <3>1. n # name[o]
      BY <2>2, <2>5, <2>9 DEF InOnePlace
    <3>2. archives'[name[o]] = archives[name[o]]
      BY <1>1, <1>3, <2>1, <3>1
    <3>3. \A q \in Parsers : held[q] = o => pc'[q] = pc[q]
      BY <1>1, <2>1, <2>9
    <3>. QED
      BY <1>3, <2>1, <2>4, <2>5, <2>6, <2>7, <3>2, <3>3, NotMoved
  <2>. QED
    BY <2>8, <2>9
<1>12. ASSUME NEW p \in Parsers, Stash(p)
       PROVE  InOnePlace(o)'
  <2>. DEFINE h == held[p]
  <2>1. /\ stash' = <<h>> \o stash
        /\ pc' = [pc EXCEPT ![p] = "evict"] \/ pc' = [pc EXCEPT ![p] = Resume(p)]
        /\ pc[p] = "stash"
        /\ UNCHANGED <<archives, held, got, name, victim>>
    BY <1>12 DEF Stash
  <2>2. h \in Objects
    BY <1>1, <2>1 DEF ParserInv
  <2>3. /\ Len(stash') = Len(stash) + 1 /\ stash'[1] = h
        /\ \A i \in 2..Len(stash') : i-1 \in 1..Len(stash) /\ stash'[i] = stash[i-1]
        /\ \A i \in 1..Len(stash) : i+1 \in 2..Len(stash') /\ stash'[i+1] = stash[i]
    BY <1>1, <2>1, <2>2
  <2>4. InOnePlace(o) /\ name'[o] = name[o]
    BY <1>3, <2>1
  <2>5. \A q \in Parsers \ {p} : pc'[q] = pc[q]
    BY <1>1, <2>1
  <2>6. pc'[p] \in {"evict", "load", "reset"}
    BY <1>1, <2>1 DEF Resume
  <2>7. \A i, j \in 1..Len(stash) : stash[i] = o /\ stash[j] = o => i = j
    BY <2>4 DEF InOnePlace
  <2>8. CASE h = o
    <3>1. ~InMap(o) /\ ~InStash(o) /\ \A q \in Parsers \ {p} : held[q] # o /\ got[q] # o
      BY <2>1, <2>4, <2>8 DEF InOnePlace
    <3>2. InStash(o)' /\ ~InMap(o)'
      <4>1. 1 \in 1..Len(stash')
        BY <1>1, <2>3
      <4>. QED
        BY <2>1, <2>3, <2>8, <3>1, <4>1 DEF InStash, InMap
    <3>3. \A i, j \in 1..Len(stash') : stash'[i] = o /\ stash'[j] = o => i = j
      <4>1. ASSUME NEW i \in 1..Len(stash'), stash'[i] = o
            PROVE  i = 1
        <5>1. i = 1 \/ i \in 2..Len(stash')
          BY <1>1, <2>3
        <5>2. i \notin 2..Len(stash')
          BY <2>3, <3>1, <4>1 DEF InStash
        <5>. QED
          BY <5>1, <5>2
      <4>. QED
        BY <4>1
    <3>4. got[p] # o
      BY <1>1, <1>4, <2>1
    <3>5. \A q \in Parsers : got'[q] # o /\ (held'[q] = o => q = p)
      BY <2>1, <3>1, <3>4
    <3>6. \A x \in Objects : name'[x] = name'[o] => x = o
      BY <2>1, <2>4 DEF InOnePlace
    <3>. QED
      BY <2>6, <3>2, <3>3, <3>5, <3>6 DEF InOnePlace, InMap, InStash
  <2>9. CASE h # o
    <3>1. \A i \in 1..Len(stash') : stash'[i] = o => i \in 2..Len(stash')
      BY <1>1, <2>3, <2>9
    <3>2. InStash(o)' <=> InStash(o)
      <4>1. InStash(o)' => InStash(o)
        BY <2>3, <3>1 DEF InStash
      <4>2. ASSUME NEW i \in 1..Len(stash), stash[i] = o
            PROVE  InStash(o)'
        <5>1. i+1 \in 1..Len(stash') /\ stash'[i+1] = o
          BY <1>1, <2>3, <4>2
        <5>. QED
          BY <5>1 DEF InStash
      <4>. QED
        BY <4>1, <4>2 DEF InStash
    <3>3. ASSUME NEW i \in 1..Len(stash'), NEW j \in 1..Len(stash'), stash'[i] = o, stash'[j] = o
          PROVE  i = j
      <4>1. i-1 = j-1
        BY <2>3, <2>7, <3>1, <3>3
      <4>. QED
        BY <1>1, <2>3, <4>1
    <3>4. \A q \in Parsers : held[q] = o => pc'[q] = pc[q]
      BY <2>5, <2>9
    <3>. QED
      BY <1>3, <2>1, <2>4, <3>2, <3>3, <3>4, NotMoved
  <2>. QED
    BY <2>8, <2>9
<1>13. ASSUME NEW p \in Parsers, Evict(p)
       PROVE  InOnePlace(o)'
  <2>1. CASE stash = <<>>
    <3>1. UNCHANGED <<pointers, name, pc, victim>>
      BY <1>13, <2>1 DEF Evict
    <3>. QED
      BY <1>5, <3>1
  <2>2. CASE stash # <<>>
    <3>. DEFINE l == Last(stash)
    <3>1. /\ stash' = Front(stash) /\ pc' = [pc EXCEPT ![p] = Resume(p)] /\ pc[p] = "evict"
          /\ (\E q \in Parsers : Left(q, l)) => name[l] \in disturbed'
          /\ Drops(p, l) /\ victim[p] = None
          /\ UNCHANGED <<archives, held, got, name>>
      BY <1>13, <2>2 DEF Evict
    <3>2. /\ Len(stash) \in Nat \ {0} /\ Len(stash') = Len(stash) - 1
          /\ \A i \in 1..Len(stash') : i \in 1..Len(stash) /\ stash'[i] = stash[i]
          /\ l = stash[Len(stash)] /\ l \in Objects /\ Len(stash) \in 1..Len(stash)
      <4>1. /\ Len(stash) \in Nat \ {0} /\ Len(Front(stash)) = Len(stash) - 1
            /\ \A i \in 1..Len(stash)-1 : Front(stash)[i] = stash[i]
            /\ l = stash[Len(stash)] /\ l \in Objects
        BY <1>1, <2>2, FrontProperties
      <4>2. \A i \in 1..Len(stash)-1 : i \in 1..Len(stash)
        BY <4>1
      <4>. QED
        BY <3>1, <4>1, <4>2
    <3>3. InOnePlace(o) /\ name'[o] = name[o]
      BY <1>3, <3>1
    <3>4. \A i, j \in 1..Len(stash) : stash[i] = o /\ stash[j] = o => i = j
      BY <3>3 DEF InOnePlace
    <3>5. \A i, j \in 1..Len(stash') : stash'[i] = o /\ stash'[j] = o => i = j
      BY <3>2, <3>4
    <3>6. pc'[p] \in {"load", "reset"} /\ \A q \in Parsers \ {p} : pc'[q] = pc[q]
      BY <1>1, <3>1 DEF Resume
    <3>7. CASE l = o
      <4>1. InStash(o) /\ ~InMap(o)
        BY <3>2, <3>3, <3>7 DEF InOnePlace, InStash
      <4>2. ~InStash(o)'
        <5>1. ASSUME NEW i \in 1..Len(stash'), stash'[i] = o
              PROVE  FALSE
          <6>1. i = Len(stash)
            BY <3>2, <3>4, <3>7, <5>1
          <6>. QED
            BY <3>2, <6>1
        <5>. QED
          BY <5>1 DEF InStash
      <4>3. \A q \in Parsers : got[q] # o
        BY <3>3, <4>1 DEF InOnePlace
      <4>4. \A q \in Parsers : ~Left(q, o)
        BY <3>1, <3>3, <3>7 DEF Calm
      <4>5. \A q \in Parsers : held[q] # o
        BY <3>3, <4>1, <4>4 DEF InOnePlace, Left
      <4>6. \A n \in Names : archives[n] # o
        BY <1>1, <4>1 DEF PointersInv, InMap
      <4>7. ~Referenced(o)'
        <5>1. stash' \in Seq(Objects) /\ DOMAIN stash' = 1..Len(stash')
          BY <1>1, <2>2, <3>1, FrontProperties
        <5>. QED
          BY <1>1, <3>1, <4>2, <4>3, <4>5, <4>6, <5>1 DEF Referenced, InStash
      <4>8. victim'[p] = o
        BY <1>1, <3>1, <3>7, <4>7 DEF Drops
      <4>9. \A x \in Objects : name'[x] = name'[o] => x = o
        BY <3>1, <3>3 DEF InOnePlace
      <4>. QED
        BY <3>1, <3>5, <4>2, <4>3, <4>5, <4>8, <4>9 DEF InOnePlace, InMap, InStash
    <3>8. CASE l # o
      <4>1. InStash(o)' <=> InStash(o)
        <5>1. \A i \in 1..Len(stash) : i # Len(stash) => i \in 1..Len(stash')
          BY <3>2
        <5>. QED
          BY <3>2, <3>8, <5>1 DEF InStash
      <4>2. \A q \in Parsers : victim[q] = o => victim'[q] = o
        BY <1>1, <3>1 DEF Drops
      <4>3. \A q \in Parsers : \/ pc'[q] = pc[q]
                               \/ pc[q] # "stash" /\ pc'[q] \in {"load", "reset"}
        BY <3>1, <3>6
      <4>. QED
        BY <1>3, <3>1, <3>3, <3>5, <4>1, <4>2, <4>3, NotMoved
    <3>. QED
      BY <3>7, <3>8
  <2>. QED
    BY <2>1, <2>2
<1>14. ASSUME NEW p \in Parsers, Store(p)
       PROVE  InOnePlace(o)'
  <2>1. /\ held' = [held EXCEPT ![p] = got[p]] /\ got' = [got EXCEPT ![p] = None]
        /\ pc' = [pc EXCEPT ![p] = "idle"] /\ pc[p] = "store" /\ victim[p] = None
        /\ UNCHANGED <<archives, stash, name>>
    BY <1>14 DEF Store
  <2>2. InOnePlace(o) /\ name'[o] = name[o]
    BY <1>3, <2>1
  <2>3. /\ held'[p] = got[p] /\ got'[p] # o /\ pc'[p] = "idle"
        /\ \A q \in Parsers \ {p} : held'[q] = held[q] /\ got'[q] = got[q] /\ pc'[q] = pc[q]
    BY <1>1, <2>1
  <2>4. \A q \in Parsers : victim[q] = o => victim'[q] = o
    BY <1>1, <1>14, <2>1 DEF Store, Drops
  <2>5. (InMap(o)' <=> InMap(o)) /\ (InStash(o)' <=> InStash(o))
    BY <2>1 DEF InMap, InStash
  <2>6. ASSUME NEW q \in Parsers
        PROVE  /\ held'[q] = o /\ pc'[q] \in {"idle", "unload", "erase"} => InMap(o)'
               /\ got'[q] = o => InMap(o)'
               /\ held'[q] = o /\ pc'[q] \in {"erase", "stash"} =>
                    \A r \in Parsers \ {q} : held'[r] # o /\ got'[r] # o
               /\ held'[q] = o /\ pc'[q] = "stash" => ~InMap(o)' /\ ~InStash(o)'
    <3>1. /\ held[q] = o /\ pc[q] \in {"idle", "unload", "erase"} => InMap(o)
          /\ got[q] = o => InMap(o)
          /\ held[q] = o /\ pc[q] \in {"erase", "stash"} =>
               \A r \in Parsers \ {q} : held[r] # o /\ got[r] # o
          /\ held[q] = o /\ pc[q] = "stash" => ~InMap(o) /\ ~InStash(o)
      BY <2>2 DEF InOnePlace
    <3>. QED
      BY <2>3, <2>5, <3>1
  <2>7. \/ InMap(o)'
        \/ InStash(o)'
        \/ \E q \in Parsers : held'[q] = o /\ pc'[q] = "stash"
        \/ \E q \in Parsers : victim'[q] = o
    <3>1. \A q \in Parsers : held[q] = o /\ pc[q] = "stash" =>
                               held'[q] = o /\ pc'[q] = "stash"
      BY <2>1, <2>3
    <3>. QED
      BY <2>2, <2>4, <2>5, <3>1 DEF InOnePlace
  <2>8. /\ \A x \in Objects : name'[x] = name'[o] => x = o
        /\ InStash(o)' => ~InMap(o)'
        /\ \A i, j \in 1..Len(stash') : stash'[i] = o /\ stash'[j] = o => i = j
    BY <2>1, <2>2, <2>5 DEF InOnePlace
  <2>. QED
    BY <2>6, <2>7, <2>8 DEF InOnePlace, InMap, InStash
\* A playlist that load() finds in a window is not calm.
<1>15. ASSUME NEW p \in Parsers, FromStash(p) \/ FromMap(p) \/ Create(p), name'[o] = want[p]
       PROVE  /\ \A q \in Parsers : pc[q] \in {"erase", "stash"} => name[held[q]] # want[p]
              /\ \A q \in Parsers : victim[q] # None => name[victim[q]] # want[p]
  <2>1. ~InWindow(want[p])
    BY <1>15 DEF FromStash, FromMap, Create, Calm
  <2>. QED
    BY <2>1 DEF InWindow
<1>16. ASSUME NEW p \in Parsers, FromMap(p)
       PROVE  InOnePlace(o)'
  <2>. DEFINE n == want[p]
  <2>1. /\ got' = [got EXCEPT ![p] = archives[n]]
        /\ pc' = [pc EXCEPT ![p] = "store"] /\ pc[p] = "load"
        /\ n \in Names /\ archives[n] # None
        /\ UNCHANGED <<archives, stash, held, name, victim>>
    BY <1>16 DEF FromMap
  <2>2. InOnePlace(o) /\ name'[o] = name[o]
    BY <1>3, <2>1
  <2>3. /\ got'[p] = archives[n] /\ pc'[p] = "store"
        /\ \A q \in Parsers \ {p} : got'[q] = got[q] /\ pc'[q] = pc[q]
    BY <1>1, <2>1
  <2>4. InStash(o)' <=> InStash(o)
    BY <2>1 DEF InStash
  <2>5. \A i, j \in 1..Len(stash') : stash'[i] = o /\ stash'[j] = o => i = j
    BY <2>1, <2>2 DEF InOnePlace
  <2>6. CASE archives[n] # o
    <3>1. \A q \in Parsers : got'[q] = o => got[q] = o
      BY <2>3, <2>6
    <3>2. \A q \in Parsers : pc'[q] = pc[q] \/ (pc[q] # "stash" /\ pc'[q] = "store")
      BY <2>1, <2>3
    <3>. QED
      BY <1>3, <2>1, <2>2, <2>4, <2>5, <3>1, <3>2, NotMoved
  <2>7. CASE archives[n] = o
    <3>1. name[o] = n /\ InMap(o) /\ name'[o] = want[p]
      BY <1>1, <2>1, <2>2, <2>7 DEF PointersInv, InMap
    <3>2. \A q \in Parsers : held[q] = o => pc[q] \notin {"erase", "stash"}
      BY <1>15, <1>16, <3>1
    <3>3. \A q \in Parsers : held'[q] = o => pc'[q] \notin {"erase", "stash"}
      BY <2>1, <2>3, <3>2
    <3>4. InMap(o)' /\ ~InStash(o)'
      BY <2>1, <2>2, <2>4, <3>1 DEF InMap, InOnePlace
    <3>5. \A x \in Objects : name'[x] = name'[o] => x = o
      BY <2>1, <2>2 DEF InOnePlace
    <3>. QED
      BY <2>5, <3>3, <3>4, <3>5 DEF InOnePlace, InMap, InStash
  <2>. QED
    BY <2>6, <2>7
<1>17. ASSUME NEW p \in Parsers, FromStash(p)
       PROVE  InOnePlace(o)'
  <2>. DEFINE n == want[p]
  <2>1. PICK i \in Stashed(n) :
          /\ archives' = [archives EXCEPT ![n] = stash[i]]
          /\ stash' = RemoveAt(stash, i)
          /\ got' = [got EXCEPT ![p] = stash[i]]
    BY <1>17 DEF FromStash
  <2>2. /\ pc' = [pc EXCEPT ![p] = "store"] /\ pc[p] = "load" /\ n \in Names
        /\ victim[p] = None /\ UNCHANGED <<held, name>>
    BY <1>17 DEF FromStash
  <2>. DEFINE x == stash[i]
  <2>3. i \in 1..Len(stash) /\ x \in Objects /\ name[x] = n
    BY <1>1 DEF Stashed
  <2>4. /\ Len(stash') = Len(stash) - 1
        /\ \A j \in 1..Len(stash)-1 : stash'[j] = IF j < i THEN stash[j] ELSE stash[j+1]
    BY <1>1, <2>1, <2>3, RemoveAtProperties
  <2>5. InOnePlace(o) /\ name'[o] = name[o]
    BY <1>3, <2>2
  <2>6. /\ got'[p] = x /\ pc'[p] = "store" /\ archives'[n] = x
        /\ \A q \in Parsers \ {p} : got'[q] = got[q] /\ pc'[q] = pc[q]
        /\ \A m \in Names \ {n} : archives'[m] = archives[m]
    BY <1>1, <2>1, <2>2
  <2>7. \A q \in Parsers : victim[q] = o => victim'[q] = o
    BY <1>1, <1>17, <2>2 DEF FromStash, Drops
  <2>8. \A j, k \in 1..Len(stash) : stash[j] = o /\ stash[k] = o => j = k
    BY <2>5 DEF InOnePlace
  <2>9. \A j \in 1..Len(stash') : \/ j < i /\ j \in 1..Len(stash) /\ stash'[j] = stash[j]
                                  \/ j >= i /\ j+1 \in 1..Len(stash) /\ stash'[j] = stash[j+1]
    <3>1. ASSUME NEW j \in 1..Len(stash')
          PROVE  \/ j < i /\ j \in 1..Len(stash) /\ stash'[j] = stash[j]
                 \/ j >= i /\ j+1 \in 1..Len(stash) /\ stash'[j] = stash[j+1]
      <4>1. j \in 1..Len(stash)-1 /\ j \in Nat /\ i \in Nat
        BY <1>1, <2>3, <2>4
      <4>2. stash'[j] = IF j < i THEN stash[j] ELSE stash[j+1]
        BY <2>4, <4>1
      <4>3. j \in 1..Len(stash) /\ j+1 \in 1..Len(stash)
        BY <1>1, <4>1
      <4>. QED
        BY <4>1, <4>2, <4>3
    <3>. QED
      BY <3>1
  <2>10. \A j, k \in 1..Len(stash') : stash'[j] = o /\ stash'[k] = o => j = k
    <3>1. ASSUME NEW j \in 1..Len(stash'), NEW k \in 1..Len(stash'),
                 stash'[j] = o, stash'[k] = o
          PROVE  j = k
      <4>1. PICK a \in 1..Len(stash) : /\ stash[a] = o
                                       /\ (j < i /\ a = j) \/ (j >= i /\ a = j+1)
        BY <2>9, <3>1
      <4>2. PICK b \in 1..Len(stash) : /\ stash[b] = o
                                       /\ (k < i /\ b = k) \/ (k >= i /\ b = k+1)
        BY <2>9, <3>1
      <4>3. a = b
        BY <2>8, <4>1, <4>2
      <4>4. j \in Nat /\ k \in Nat /\ i \in Nat
        BY <2>3
      <4>. QED
        BY <4>1, <4>2, <4>3, <4>4
    <3>. QED
      BY <3>1
  <2>11. CASE x = o
    <3>1. InStash(o) /\ name'[o] = want[p] /\ name[o] = n
      BY <2>2, <2>3, <2>11 DEF InStash
    <3>2. ~InStash(o)'
      <4>1. ASSUME NEW j \in 1..Len(stash'), stash'[j] = o
            PROVE  FALSE
        <5>1. CASE j < i
          BY <2>3, <2>8, <2>9, <2>11, <4>1, <5>1
        <5>2. CASE j >= i
          <6>1. j+1 = i
            BY <2>3, <2>8, <2>9, <2>11, <4>1, <5>2
          <6>. QED
            BY <2>3, <5>2, <6>1
        <5>. QED
          BY <2>3, <5>1, <5>2
      <4>. QED
        BY <4>1 DEF InStash
    <3>3. InMap(o)'
      BY <2>6, <2>11, <3>1 DEF InMap
    <3>4. \A q \in Parsers : held[q] = o => pc[q] \notin {"erase", "stash"}
      BY <1>15, <1>17, <3>1
    <3>5. \A q \in Parsers : held'[q] = o => pc'[q] \notin {"erase", "stash"}
      BY <2>2, <2>6, <3>4
    <3>6. \A y \in Objects : name'[y] = name'[o] => y = o
      BY <2>2, <2>5 DEF InOnePlace
    <3>. QED
      BY <2>10, <3>2, <3>3, <3>5, <3>6 DEF InOnePlace, InMap, InStash
  <2>12. CASE x # o
    <3>1. name[o] # n
      BY <2>3, <2>5, <2>12 DEF InOnePlace
    <3>2. archives'[name[o]] = archives[name[o]]
      BY <1>3, <2>2, <2>6, <3>1
    <3>3. InStash(o)' <=> InStash(o)
      <4>1. InStash(o)' => InStash(o)
        BY <2>9 DEF InStash
      <4>2. ASSUME NEW j \in 1..Len(stash), stash[j] = o
            PROVE  InStash(o)'
        <5>1. j # i
          BY <2>12, <4>2
        <5>2. CASE j < i
          <6>1. j \in 1..Len(stash') /\ stash'[j] = o
            BY <1>1, <2>3, <2>4, <4>2, <5>2
          <6>. QED
            BY <6>1 DEF InStash
        <5>3. CASE j > i
          <6>1. j-1 \in 1..Len(stash') /\ stash'[j-1] = o
            BY <1>1, <2>3, <2>4, <4>2, <5>3
          <6>. QED
            BY <6>1 DEF InStash
        <5>. QED
          BY <2>3, <5>1, <5>2, <5>3
      <4>. QED
        BY <4>1, <4>2 DEF InStash
    <3>4. \A q \in Parsers : got'[q] = o => got[q] = o
      BY <2>6, <2>12
    <3>5. \A q \in Parsers : pc'[q] = pc[q] \/ (pc[q] # "stash" /\ pc'[q] = "store")
      BY <2>2, <2>6
    <3>. QED
      BY <1>3, <2>2, <2>5, <2>7, <2>10, <3>2, <3>3, <3>4, <3>5, NotMoved
  <2>. QED
    BY <2>11, <2>12
<1>18. ASSUME NEW p \in Parsers, Create(p)
       PROVE  InOnePlace(o)'
  <2>. DEFINE n == want[p]
  <2>1. PICK x \in Objects : /\ name[x] = None
                             /\ name' = [name EXCEPT ![x] = n]
                             /\ archives' = [archives EXCEPT ![n] = x]
                             /\ got' = [got EXCEPT ![p] = x]
    BY <1>18, NewObject
  <2>2. /\ pc' = [pc EXCEPT ![p] = "store"] /\ pc[p] = "load" /\ n \in Names
        /\ Stashed(n) = {} /\ archives[n] = None
        /\ UNCHANGED <<stash, held, victim>>
    BY <1>18 DEF Create
  <2>3. /\ name'[x] = n /\ got'[p] = x /\ pc'[p] = "store" /\ archives'[n] = x
        /\ \A q \in Parsers \ {p} : got'[q] = got[q] /\ pc'[q] = pc[q]
        /\ \A m \in Names \ {n} : archives'[m] = archives[m]
        /\ \A y \in Objects \ {x} : name'[y] = name[y]
    BY <1>1, <2>1, <2>2
  <2>4. ~Referenced(x)
    BY <1>1, <2>1 DEF PointersInv
  <2>5. name'[o] = n => \A y \in Objects : name[y] # n
    BY <1>18, NoOtherArchive
  <2>6. CASE o = x
    <3>1. \A y \in Objects : name'[y] = name'[o] => y = o
      BY <2>3, <2>5, <2>6
    <3>2. InMap(o)'
      BY <2>3, <2>6 DEF InMap
    <3>3. \A q \in Parsers : held'[q] # o
      BY <2>2, <2>4, <2>6 DEF Referenced
    <3>4. \A i \in 1..Len(stash') : stash'[i] # o
      BY <1>1, <2>2, <2>4, <2>6 DEF Referenced
    <3>. QED
      BY <3>1, <3>2, <3>3, <3>4 DEF InOnePlace, InMap, InStash
  <2>7. CASE o # x
    <3>1. name'[o] = name[o] /\ name[o] # n
      BY <2>3, <2>5, <2>7
    <3>2. InOnePlace(o)
      BY <1>2, <3>1
    <3>3. InStash(o)' <=> InStash(o)
      BY <2>2 DEF InStash
    <3>4. \A i, j \in 1..Len(stash') : stash'[i] = o /\ stash'[j] = o => i = j
      BY <2>2, <3>2 DEF InOnePlace
    <3>5. archives'[name[o]] = archives[name[o]]
      BY <1>1, <2>3, <3>1
    <3>6. \A y \in Objects : name'[y] = name[o] => name[y] = name[o]
      BY <2>3, <3>1
    <3>7. \A q \in Parsers : got'[q] = o => got[q] = o
      BY <2>3, <2>7
    <3>8. \A q \in Parsers : pc'[q] = pc[q] \/ (pc[q] # "stash" /\ pc'[q] = "store")
      BY <2>2, <2>3
    <3>. QED
      BY <2>2, <3>1, <3>2, <3>3, <3>4, <3>5, <3>6, <3>7, <3>8, NotMoved
  <2>. QED
    BY <2>6, <2>7
<1>. QED
  BY <1>6, <1>7, <1>8, <1>9, <1>10, <1>11, <1>12, <1>13, <1>14, <1>16, <1>17, <1>18
     DEF Next, Ask, Leaving, Load, Sync, Contents

\* CalmInv is an invariant.
LEMMA CalmInvariant == Spec => []CalmInv
<1>1. Init => CalmInv
  BY ArchiveMgrAssumption DEF Init, CalmInv, Calm
<1>2. AInv /\ CalmInv /\ [Next]_vars => CalmInv'
  BY CalmStep
<1>. QED
  BY <1>1, <1>2, AInvariant, PTL DEF Spec

\* A playlist that is calm has one archive: two would write its file over each other
\* (ArchiveMgr::load).
THEOREM CalmHasOneArchive == Spec => []OneArchivePerFile
<1>1. CalmInv => OneArchivePerFile
  BY DEF CalmInv, InOnePlace, OneArchivePerFile
<1>. QED
  BY <1>1, CalmInvariant, PTL

\* What a client is in is what the map has, unless its playlist met a window: nobody's
\* departure unloads the playlist others are in (ArchiveMgr::unload).
THEOREM ClientsAreTogether == Spec => []ClientsMeet
<1>1. AInv /\ CalmInv => ClientsMeet
  BY DEF AInv, TypeOK, PointerTypes, CalmInv, InOnePlace, InMap, ClientsMeet
<1>. QED
  BY <1>1, AInvariant, CalmInvariant, PTL

\* The contents of a calm playlist, step by step: its archive, which is the only one,
\* follows the clients and writes the file (Archive::_syncThread, ~Archive).
LEMMA KeptStep == AInv /\ CalmInv /\ PlaylistKept /\ [Next]_vars => PlaylistKept'
<1>. DEFINE Kept(n) ==
       /\ \A o \in Objects : name[o] = n =>
            /\ musics[o] = meant[n]
            /\ changed[o] \/ file[n] = meant[n]
       /\ n \notin {name[o] : o \in Objects} => file[n] = meant[n]
<1> SUFFICES ASSUME AInv, CalmInv, PlaylistKept, [Next]_vars, NEW n \in Calm'
             PROVE  Kept(n)'
  BY DEF PlaylistKept
<1>1. /\ n \in Calm /\ n \in Names /\ n # None
      /\ Kept(n)
      /\ \A o, x \in Objects : name[o] = n /\ name[x] = n => o = x
  BY CalmBefore, ArchiveMgrAssumption DEF Calm, PlaylistKept, CalmInv, InOnePlace
<1>2. /\ name \in [Objects -> Names \cup {None}]
      /\ musics \in [Objects -> SUBSET Music]
      /\ changed \in [Objects -> BOOLEAN]
      /\ file \in [Names -> SUBSET Music]
      /\ meant \in [Names -> SUBSET Music]
  BY DEF AInv, TypeOK, PointerTypes, ContentTypes
\* A step that leaves this playlist alone.
<1>3. ASSUME \A o \in Objects : name'[o] = n <=> name[o] = n,
             \A o \in Objects : name[o] = n =>
                                  musics'[o] = musics[o] /\ changed'[o] = changed[o],
             file'[n] = file[n], meant'[n] = meant[n]
      PROVE  Kept(n)'
  BY <1>1, <1>3
<1>. USE DEF pointers, control, contents
<1>4. ASSUME UNCHANGED <<name, musics, changed, file, meant>>
      PROVE  Kept(n)'
  BY <1>3, <1>4
<1>5. ASSUME NEW p \in Parsers,
             \/ Moves(p) \/ Race(p) \/ Erase(p) \/ Stash(p) \/ Evict(p) \/ Reset(p)
             \/ FromStash(p) \/ FromMap(p) \/ Store(p)
      PROVE  Kept(n)'
  <2>1. UNCHANGED <<name, musics, changed, file, meant>>
    BY <1>5 DEF Moves, Pl, PlQuit, Unload, LoadInvalid, Race, StashRace, SessionRace,
                Erase, Stash, Evict, Reset, FromStash, FromMap, Store
  <2>. QED
    BY <1>4, <2>1
<1>6. ASSUME NEW p \in Parsers, NEW m \in Music, Add(p, m) \/ PlRm(p, m)
      PROVE  Kept(n)'
  <2>1. PICK o \in Objects : o = held[p] /\ name[o] \in Names
    <3>1. held[p] \in Objects
      BY <1>6 DEF Add, PlRm, AInv, TypeOK, PointerTypes
    <3>2. Referenced(held[p])
      BY DEF Referenced
    <3>. QED
      BY <1>2, <3>1, <3>2 DEF AInv, PointersInv
  <2>2. \/ /\ musics' = [musics EXCEPT ![o] = @ \cup {m}]
           /\ meant' = [meant EXCEPT ![name[o]] = @ \cup {m}]
        \/ /\ musics' = [musics EXCEPT ![o] = @ \ {m}]
           /\ meant' = [meant EXCEPT ![name[o]] = @ \ {m}]
    BY <1>6, <2>1 DEF Add, PlRm
  <2>3. changed' = [changed EXCEPT ![o] = TRUE] /\ UNCHANGED <<name, file>>
    BY <1>6, <2>1 DEF Add, PlRm
  <2>4. CASE name[o] = n
    <3>1. musics'[o] = meant'[n] /\ changed'[o] = TRUE
      BY <1>1, <1>2, <2>2, <2>3, <2>4
    <3>2. \A x \in Objects : name'[x] = n => x = o
      BY <1>1, <2>3, <2>4
    <3>. QED
      BY <2>3, <2>4, <3>1, <3>2
  <2>5. CASE name[o] # n
    <3>1. \A x \in Objects : name[x] = n => musics'[x] = musics[x] /\ changed'[x] = changed[x]
      BY <1>2, <2>2, <2>3, <2>5
    <3>2. meant'[n] = meant[n]
      BY <1>1, <1>2, <2>2, <2>5
    <3>. QED
      BY <1>3, <2>3, <3>1, <3>2
  <2>. QED
    BY <2>4, <2>5
<1>7. ASSUME NEW o \in Objects, SyncFlush(o)
      PROVE  Kept(n)'
  <2>1. /\ changed' = [changed EXCEPT ![o] = FALSE]
        /\ file' = [file EXCEPT ![name[o]] = musics[o]]
        /\ UNCHANGED <<name, musics, meant>>
    BY <1>7 DEF SyncFlush
  <2>2. CASE name[o] = n
    <3>1. file'[n] = meant[n]
      BY <1>1, <1>2, <2>1, <2>2
    <3>. QED
      BY <1>1, <2>1, <3>1
  <2>3. CASE name[o] # n
    <3>1. \A x \in Objects : name[x] = n => changed'[x] = changed[x]
      BY <1>2, <2>1, <2>3
    <3>2. file'[n] = file[n]
      BY <1>1, <1>2, <2>1, <2>3
    <3>. QED
      BY <1>3, <2>1, <3>1, <3>2
  <2>. QED
    BY <2>2, <2>3
<1>8. ASSUME NEW p \in Parsers, Create(p)
      PROVE  Kept(n)'
  <2>1. PICK x \in Objects : /\ name[x] = None
                             /\ name' = [name EXCEPT ![x] = want[p]]
                             /\ musics' = [musics EXCEPT ![x] = file[want[p]]]
                             /\ changed' = [changed EXCEPT ![x] = FALSE]
    BY <1>8, NewObject
  <2>2. UNCHANGED <<file, meant>>
    BY <1>8 DEF Create
  <2>3. \A o \in Objects \ {x} : /\ name'[o] = name[o] /\ musics'[o] = musics[o]
                                 /\ changed'[o] = changed[o]
    BY <1>2, <2>1
  <2>4. CASE want[p] = n
    <3>1. \A o \in Objects : name[o] # n
      BY <1>8, <2>4, NoOtherArchive
    <3>2. file[n] = meant[n]
      BY <1>1, <3>1
    <3>3. name'[x] = n /\ musics'[x] = meant'[n]
      BY <1>2, <2>1, <2>2, <2>4, <3>2
    <3>4. \A o \in Objects : name'[o] = n => o = x
      BY <2>3, <3>1
    <3>. QED
      BY <2>2, <3>2, <3>3, <3>4
  <2>5. CASE want[p] # n
    <3>1. name'[x] # n /\ name[x] # n
      BY <1>1, <1>2, <2>1, <2>5
    <3>2. \A o \in Objects : name'[o] = n <=> name[o] = n
      BY <2>3, <3>1
    <3>3. \A o \in Objects : name[o] = n => musics'[o] = musics[o] /\ changed'[o] = changed[o]
      BY <2>3, <3>1
    <3>. QED
      BY <1>3, <2>2, <3>2, <3>3
  <2>. QED
    BY <2>4, <2>5
<1>9. ASSUME NEW p \in Parsers, Destroy(p)
      PROVE  Kept(n)'
  <2>1. PICK o \in Objects : o = victim[p] /\ name[o] # None
    BY <1>9 DEF Destroy, AInv, TypeOK, ControlTypes, VictimInv
  <2>2. /\ file' = IF changed[o] /\ ~late[o]
                   THEN [file EXCEPT ![name[o]] = musics[o]] ELSE file
        /\ changed[o] /\ late[o] => name[o] \in disturbed'
        /\ name' = [name EXCEPT ![o] = None]
        /\ musics' = [musics EXCEPT ![o] = {}]
        /\ changed' = [changed EXCEPT ![o] = FALSE]
        /\ meant' = meant
    BY <1>9, <2>1 DEF Destroy
  <2>3. name'[o] = None /\ \A x \in Objects \ {o} : /\ name'[x] = name[x]
                                                    /\ musics'[x] = musics[x]
                                                    /\ changed'[x] = changed[x]
    BY <1>2, <2>2
  <2>4. CASE name[o] = n
    <3>1. \A x \in Objects : name'[x] # n
      BY <1>1, <2>3, <2>4
    <3>2. ~(changed[o] /\ late[o])
      BY <2>2, <2>4 DEF Calm
    <3>3. CASE changed[o] /\ ~late[o]
      <4>1. file' = [file EXCEPT ![n] = musics[o]]
        BY <2>2, <2>4, <3>3
      <4>2. file'[n] = meant[n]
        BY <1>1, <1>2, <2>4, <4>1
      <4>. QED
        BY <2>2, <3>1, <4>2
    <3>4. CASE ~changed[o]
      <4>1. file'[n] = meant[n]
        BY <1>1, <2>2, <2>4, <3>4
      <4>. QED
        BY <2>2, <3>1, <4>1
    <3>. QED
      BY <3>2, <3>3, <3>4
  <2>5. CASE name[o] # n
    <3>1. file'[n] = file[n]
      BY <1>1, <1>2, <2>2, <2>5
    <3>2. \A x \in Objects : name'[x] = n <=> name[x] = n
      BY <1>1, <2>3, <2>5
    <3>3. \A x \in Objects : name[x] = n => musics'[x] = musics[x] /\ changed'[x] = changed[x]
      BY <2>3, <2>5
    <3>. QED
      BY <1>3, <2>2, <3>1, <3>2, <3>3
  <2>. QED
    BY <2>4, <2>5
<1>10. ASSUME \/ \E o \in Objects : SyncLoop(o)
              \/ UNCHANGED vars
       PROVE  Kept(n)'
  <2>1. UNCHANGED <<name, musics, changed, file, meant>>
    BY <1>10 DEF SyncLoop, vars
  <2>. QED
    BY <1>4, <2>1
<1>. QED
  BY <1>5, <1>6, <1>7, <1>8, <1>9, <1>10 DEF Next, Ask, Leaving, Load, Sync, Moves

\* A calm playlist holds what its clients made of it, in its archive or in its file,
\* through departures, the stash, evictions and destructors, those excepted that
\* find its thread about to test _started (ArchiveMgr, ~Archive, syncRoutine).
THEOREM CalmIsKept == Spec => []PlaylistKept
<1>1. Init => PlaylistKept
  <2> SUFFICES ASSUME Init
               PROVE  PlaylistKept
    OBVIOUS
  <2>1. \A o \in Objects : name[o] = None
    BY DEF Init
  <2>2. meant = file /\ None \notin Names
    BY ArchiveMgrAssumption DEF Init
  <2>. QED
    BY <2>1, <2>2 DEF PlaylistKept, Calm
<1>2. AInv /\ CalmInv /\ PlaylistKept /\ [Next]_vars => PlaylistKept'
  BY KeptStep
<1>. QED
  BY <1>1, <1>2, AInvariant, CalmInvariant, PTL DEF Spec
=============================================================================
