---------------------------- MODULE ArchiveProofs ----------------------------
(***************************************************************************)
(* Theorems about an archive, for any number of users, any set of musics   *)
(* and any number of crashes.                                              *)
(***************************************************************************)
EXTENDS Archive, TLAPS

(* The inductive invariant.                                                *)

\* The destructor runs when nobody uses the archive.
IdleInv == life # "live" => \A u \in Users : pc[u] = "idle"

\* Only the synchronisation thread resets _changed, and it saw it set.
ClearInv == sync = "clear" => changed

SyncInv == ClearInv /\ NoChangeForgotten

ArchiveInv == TypeOK /\ IdleInv /\ SyncInv /\ RoundRefersToMusics

-----------------------------------------------------------------------------
\* What a crash leaves of the file is made of lines of the file or of the
\* stream, and of the line that was cut.
LEMMA PrefixesAreLines ==
  ASSUME NEW S \in SUBSET Lines, NEW P \in Prefixes(S)
  PROVE  P \subseteq Lines
BY DEF Prefixes, Lines

\* A new object is in order, whatever lines it loads.
LEMMA NewObjectInv ==
  ASSUME NewObject, file' \subseteq Lines, crashes' \in Nat,
         fault' = fault, TypeOK
  PROVE  ArchiveInv'
BY DEF NewObject, ArchiveInv, TypeOK, IdleInv, SyncInv, ClearInv,
       NoChangeForgotten, Saved, RoundRefersToMusics

\* What users do to the map and the round keeps the invariant: a change that
\* does not set _changed at once leaves its author about to set it.
LEMMA UserKeepsInv ==
  ASSUME ArchiveInv, NEW u \in Users, Request(u) \/ UserStep(u)
  PROVE  ArchiveInv'
<1>. USE ArchiveAssumption
     DEF ArchiveInv, TypeOK, IdleInv, SyncInv, ClearInv, NoChangeForgotten,
         Saved, RoundRefersToMusics, Goto, memory, syncing, object, Lines
<1>1. ASSUME NEW m \in Music, Add(u, m)
      PROVE  ArchiveInv'
  BY <1>1 DEF Add
<1>2. ASSUME NEW m \in Lines, Remove(u, m)
      PROVE  ArchiveInv'
  BY <1>2 DEF Remove
<1>3. CASE FindMusics(u)
  BY <1>3 DEF FindMusics
<1>4. CASE Mark(u)
  BY <1>4 DEF Mark
<1>5. ASSUME NEW m \in Lines, Draw(u, m)
      PROVE  ArchiveInv'
  BY <1>5 DEF Draw, Round
<1>6. CASE DrawFromEmpty(u)
  BY <1>6 DEF DrawFromEmpty
<1>. HIDE DEF ArchiveInv
<1>. QED
  BY <1>1, <1>2, <1>3, <1>4, <1>5, <1>6 DEF Request, UserStep

\* The synchronisation thread keeps the invariant: it reads the map after it
\* has reset _changed.
LEMMA SyncKeepsInv ==
  ASSUME ArchiveInv, SyncStep
  PROVE  ArchiveInv'
<1>. USE DEF ArchiveInv, TypeOK, IdleInv, SyncInv, ClearInv, NoChangeForgotten,
             Saved, RoundRefersToMusics, SyncGoto, memory, object
<1>1. CASE Loop \/ Wait \/ Block \/ Timeout \/ Test
  BY <1>1 DEF Loop, Wait, Block, Timeout, Test
<1>2. CASE Clear
  BY <1>2 DEF Clear
<1>3. CASE Open
  BY <1>3 DEF Open
<1>4. CASE Write
  BY <1>4 DEF Write
<1>5. CASE Close
  BY <1>5 DEF Close
<1>. QED
  BY <1>1, <1>2, <1>3, <1>4, <1>5 DEF SyncStep

\* ArchiveInv is an inductive invariant.
LEMMA ArchiveInvariant == Spec => []ArchiveInv
<1>1. Init => ArchiveInv
  <2> SUFFICES ASSUME Init
               PROVE  ArchiveInv
    OBVIOUS
  <2>1. TypeOK
    BY DEF Init, TypeOK, Lines
  <2>2. IdleInv /\ SyncInv /\ RoundRefersToMusics
    BY DEF Init, IdleInv, SyncInv, ClearInv, NoChangeForgotten, Saved,
           RoundRefersToMusics
  <2>. QED
    BY <2>1, <2>2 DEF ArchiveInv
<1>2. ArchiveInv /\ [Next]_vars => ArchiveInv'
  <2> SUFFICES ASSUME ArchiveInv, [Next]_vars
               PROVE  ArchiveInv'
    OBVIOUS
  <2>1. CASE UNCHANGED vars
    BY <2>1 DEF vars, ArchiveInv, TypeOK, IdleInv, SyncInv, ClearInv,
                NoChangeForgotten, Saved, RoundRefersToMusics
  <2>2. CASE Destroy \/ NotifySync \/ Join
    BY <2>2
       DEF Destroy, NotifySync, Join, memory, syncing, object, ArchiveInv,
           TypeOK, IdleInv, SyncInv, ClearInv, NoChangeForgotten, Saved,
           RoundRefersToMusics
  <2>3. CASE Load
    BY <2>3, NewObjectInv DEF Load, ArchiveInv, TypeOK
  <2>4. CASE Crash
    <3>1. file' \subseteq Lines
      BY <2>4, PrefixesAreLines DEF Crash, ArchiveInv, TypeOK
    <3>2. crashes' \in Nat
      BY <2>4 DEF Crash, ArchiveInv, TypeOK
    <3>. QED
      BY <2>4, <3>1, <3>2, NewObjectInv DEF Crash, ArchiveInv
  <2>. QED
    BY <2>1, <2>2, <2>3, <2>4, UserKeepsInv, SyncKeepsInv DEF Next
<1>. QED
  BY <1>1, <1>2, PTL DEF Spec

\* Every variable of an archive keeps its type, and an archive that is gone has
\* neither a user nor a thread (Archive::~Archive).
THEOREM ArchiveTypeCorrect == Spec => []TypeOK
BY ArchiveInvariant, PTL DEF ArchiveInv

\* No change of the map is forgotten by the synchronisation thread, whether it
\* comes before, during or after a flush and whatever crashes: when the file
\* differs from the map, _changed is set or is about to be, or the flush that
\* runs has still to read the map (Archive::add, remove, syncRoutine, flush).
THEOREM ChangesAreFlushed == Spec => []NoChangeForgotten
BY ArchiveInvariant, PTL DEF ArchiveInv, SyncInv

\* random() never follows a reference to a music that was erased from the map
\* (Archive::remove, random, fillMusicsView).
THEOREM RoundIsAlive == Spec => []RoundRefersToMusics
BY ArchiveInvariant, PTL DEF ArchiveInv
=============================================================================
