-------------------------- MODULE PlayerRefinement --------------------------
(***************************************************************************)
(* The play queue implements the jukebox, for any number of clients,       *)
(* playlist threads and musics.                                            *)
(***************************************************************************)
EXTENDS PlayerProofs

\* The playlist thread p has popped a music that mpv has not got yet.
Holds(p) == pc[p] \in {"current", "load"}

\* A music is current because a playlist thread holds it, or else because mpv
\* plays it; it cannot be both.
CurrentIs ==
  /\ \A p \in PlayThreads : Holds(p) => Current = music[p] /\ mpv = None
  /\ (\A p \in PlayThreads : ~Holds(p)) => Current = mpv
  /\ Current \in Music \cup {None}

\* CurrentIs holds as long as one playlist thread exists at a time
\* (Player::asyncPlayNext).
LEMMA CurrentOf == TypeInv /\ PlayInv => CurrentIs
<1> SUFFICES ASSUME TypeInv, PlayInv
             PROVE  CurrentIs
  OBVIOUS
<1>1. ASSUME NEW p \in PlayThreads, Holds(p), NEW q \in PlayThreads, Holds(q)
      PROVE  p = q
  BY <1>1 DEF PlayInv, LockInv, Holds
<1>2. ASSUME NEW p \in PlayThreads, Holds(p)
      PROVE  Current = music[p] /\ mpv = None /\ music[p] \in Music
  <2>1. (CHOOSE q \in PlayThreads : pc[q] \in {"current", "load"}) = p
    BY <1>1, <1>2 DEF Holds
  <2>2. Current = music[p]
    BY <1>2, <2>1 DEF Current, Holds
  <2>3. mpv = None
    BY <1>2 DEF PlayInv, IdleInv, Holds
  <2>4. music[p] \in Music
    BY <1>2 DEF TypeInv, ThreadInv, MusicInv, Holds, Threads
  <2>. QED
    BY <2>2, <2>3, <2>4
<1>3. ASSUME \A p \in PlayThreads : ~Holds(p)
      PROVE  Current = mpv /\ mpv \in Music \cup {None}
  BY <1>3 DEF Current, Holds, TypeInv, EngineTypes
<1>. QED
  BY <1>2, <1>3 DEF CurrentIs

\* The same after a step.
LEMMA NextCurrentOf == TypeInv' /\ PlayInv' => CurrentIs'
BY CurrentOf, PTL

\* What is current does not change when mpv and the threads that hold a music
\* do not.
LEMMA SameCurrent ==
  ASSUME CurrentIs, CurrentIs', mpv' = mpv,
         \A p \in PlayThreads : pc'[p] \in {"current", "load"} <=> Holds(p),
         \A p \in PlayThreads : Holds(p) => music'[p] = music[p]
  PROVE  Current' = Current
<1>1. CASE \E p \in PlayThreads : Holds(p)
  BY <1>1 DEF CurrentIs, Holds
<1>2. CASE \A p \in PlayThreads : ~Holds(p)
  BY <1>2 DEF CurrentIs, Holds
<1>. QED
  BY <1>1, <1>2

\* Nor does it when a thread moves that holds none.
LEMMA OtherThread ==
  ASSUME TypeInv, CurrentIs, CurrentIs', mpv' = mpv,
         NEW t \in Threads, NEW label, pc' = [pc EXCEPT ![t] = label],
         pc[t] \notin {"current", "load"}, label \notin {"current", "load"},
         music' = music \/ \E v : music' = [music EXCEPT ![t] = v]
  PROVE  Current' = Current
<1>1. /\ pc \in [Threads -> ClientLabels \cup PlayLabels]
      /\ music \in [Threads -> Music \cup {None}]
      /\ PlayThreads \subseteq Threads
  BY DEF TypeInv, ThreadInv, ThreadTypes, Threads
<1>2. \A p \in PlayThreads : pc'[p] \in {"current", "load"} <=> Holds(p)
  BY <1>1 DEF Holds
<1>3. \A p \in PlayThreads : Holds(p) => music'[p] = music[p]
  BY <1>1 DEF Holds
<1>. QED
  BY <1>2, <1>3, SameCurrent
-----------------------------------------------------------------------------
\* Every step of the player is a step of the jukebox, or none: a push enqueues,
\* a removal drops, the pop of the playlist thread chooses, and the end of a file
\* finishes (player.cpp).
LEMMA JukeboxStep ==
  TypeInv /\ PlayInv /\ CurrentIs /\ CurrentIs' /\ [Next]_vars
    => [J!Next]_(J!vars)
<1> SUFFICES ASSUME TypeInv, PlayInv, CurrentIs, CurrentIs', [Next]_vars
             PROVE  [J!Next]_(J!vars)
  OBVIOUS
<1>1. /\ pc \in [Threads -> ClientLabels \cup PlayLabels]
      /\ music \in [Threads -> Music \cup {None}]
      /\ playlist \in Seq(Music)
      /\ None \notin Music
      /\ PlayThreads \subseteq Threads /\ Clients \subseteq Threads
  BY PlayerAssumption
     DEF TypeInv, ThreadInv, ThreadTypes, DataInv, DataTypes, Threads
<1>. DEFINE Stays == Current' = Current
\* The kinds of steps.
<1>2. ASSUME playlist' = playlist, Stays
      PROVE  [J!Next]_(J!vars)
  BY <1>2 DEF J!vars
<1>3. ASSUME NEW m \in Music, playlist' = Append(playlist, m), Stays
      PROVE  [J!Next]_(J!vars)
  BY <1>3 DEF J!Next, J!Enqueue
<1>4. ASSUME NEW i \in 1..Len(playlist), Erase(i), Stays
      PROVE  [J!Next]_(J!vars)
  <2>1. i \in DOMAIN playlist
    BY <1>1
  <2>2. playlist' = J!RemoveAt(playlist, i)
    BY <1>4 DEF Erase, RemoveAt, J!RemoveAt
  <2>. QED
    BY <1>4, <2>1, <2>2 DEF J!Next, J!Drop
<1>5. ASSUME playlist' = <<>>, Stays
      PROVE  [J!Next]_(J!vars)
  BY <1>5 DEF J!Next, J!Empty
\* The steps that move no held music.
<1>6. ASSUME NEW t \in Threads, Push(t)
      PROVE  [J!Next]_(J!vars)
  <2>1. music[t] \in Music
    BY <1>6 DEF Push, TypeInv, ThreadInv, MusicInv
  <2>2. Stays
    BY <1>6, OtherThread DEF Push, Goto, engineVars, mpvVars
  <2>. QED
    BY <1>3, <1>6, <2>1, <2>2 DEF Push
<1>7. ASSUME NEW t \in Threads, NEW s, Random(t, s), mpv' = mpv,
             pc[t] \in {"idle", "callback"}
      PROVE  [J!Next]_(J!vars)
  <2>1. Stays
    <3>1. \E label \in {"push", "announce", "idle", "subs"} :
            pc' = [pc EXCEPT ![t] = label]
      BY <1>7 DEF Random, Goto, AfterAdd
    <3>2. music' = music \/ \E v : music' = [music EXCEPT ![t] = v]
      BY <1>7 DEF Random
    <3>. QED
      BY <1>7, <3>1, <3>2, OtherThread
  <2>2. \/ playlist' = playlist
        \/ \E m \in archive : playlist' = Append(playlist, m)
    BY <1>7 DEF Random, queueVars
  <2>3. archive \subseteq Music
    BY DEF TypeInv, DataInv, DataTypes
  <2>. QED
    BY <1>2, <1>3, <2>1, <2>2, <2>3
<1>8. ASSUME NEW c \in Clients, EraseAt(c)
      PROVE  [J!Next]_(J!vars)
  <2>1. mpv' = mpv
    BY <1>8 DEF EraseAt, Fail, engineVars, mpvVars
  <2>2. CASE UNCHANGED <<dataVars, threadVars>>
    <3>1. Stays
      BY <2>1, <2>2, SameCurrent DEF threadVars, Holds
    <3>. QED
      BY <1>2, <2>2, <3>1 DEF dataVars, queueVars
  <2>3. ASSUME NEW p \in 1..Len(playlist), ErasesAt(c, p)
        PROVE  [J!Next]_(J!vars)
    <3>1. Stays
      BY <1>1, <2>1, <2>3, OtherThread DEF ErasesAt, Goto
    <3>. QED
      BY <1>4, <2>3, <3>1 DEF ErasesAt
  <2>. QED
    BY <1>8, <2>2, <2>3, EraseAtCases
<1>9. ASSUME NEW c \in Clients, EraseFound(c)
      PROVE  [J!Next]_(J!vars)
  <2>1. mpv' = mpv
    BY <1>9 DEF EraseFound, Fail, engineVars, mpvVars
  <2>2. CASE pos[c] = 0
    <3>1. Stays
      BY <1>9, <2>1, <2>2, SameCurrent DEF EraseFound, Fail, threadVars, Holds
    <3>. QED
      BY <1>2, <1>9, <2>2, <3>1 DEF EraseFound, Fail, dataVars, queueVars
  <2>3. CASE pos[c] # 0
    <3>1. Stays
      BY <1>1, <1>9, <2>1, <2>3, OtherThread DEF EraseFound, Goto
    <3>2. pos[c] \in 1..Len(playlist)
      BY <2>3 DEF TypeInv, DataInv, DataTypes, PosInv
    <3>. QED
      BY <1>4, <1>9, <2>3, <3>1, <3>2 DEF EraseFound
  <2>. QED
    BY <2>2, <2>3
<1>10. ASSUME NEW c \in Clients, Clear(c)
       PROVE  [J!Next]_(J!vars)
  <2>1. Stays
    BY <1>1, <1>10, OtherThread DEF Clear, Goto, engineVars, mpvVars
  <2>. QED
    BY <1>5, <1>10, <2>1 DEF Clear
<1>11. ASSUME NEW t \in Threads, AnnounceAdded(t) \/ ProcessSubscriptions(t)
       PROVE  [J!Next]_(J!vars)
  <2>1. playlist' = playlist /\ music' = music /\ mpv' = mpv
    BY <1>11 DEF AnnounceAdded, ProcessSubscriptions, Fail, sharedVars, dataVars,
                 queueVars, threadVars, engineVars, mpvVars
  <2>2. \/ pc' = pc
        \/ /\ pc[t] \in {"announce", "subs"}
           /\ \E label \in {"notify", "callback", "idle", "wait"} :
                pc' = [pc EXCEPT ![t] = label]
    BY <1>11 DEF AnnounceAdded, ProcessSubscriptions, Fail, Goto, threadVars
  <2>3. Stays
    <3>1. CASE pc' = pc
      BY <2>1, <3>1, SameCurrent DEF Holds
    <3>2. CASE pc' # pc
      BY <2>1, <2>2, <3>2, OtherThread
    <3>. QED
      BY <3>1, <3>2
  <2>. QED
    BY <1>2, <2>1, <2>3
<1>12. ASSUME NEW t \in Threads, Notify(t)
       PROVE  [J!Next]_(J!vars)
  <2>1. playlist' = playlist /\ mpv' = mpv /\ music' = [music EXCEPT ![t] = None]
    BY <1>12 DEF Notify, sharedVars, dataVars, queueVars, engineVars, mpvVars
  <2>2. pc[t] = "notify" /\ AfterAdd(t) \in {"idle", "subs"}
    BY <1>12 DEF Notify, AfterAdd
  <2>3. \A p \in PlayThreads : pc'[p] \in {"current", "load"} <=> Holds(p)
    BY <1>1, <1>12, <2>2 DEF Notify, Goto, Holds
  <2>4. \A p \in PlayThreads : Holds(p) => music'[p] = music[p]
    BY <1>1, <2>1, <2>2 DEF Holds
  <2>5. Stays
    BY <2>1, <2>3, <2>4, SameCurrent
  <2>. QED
    BY <1>2, <2>1, <2>5
<1>13. ASSUME NEW c \in Clients,
              \/ \E m \in Music : Add(c, m) \/ RmId(c, m)
              \/ \E i \in Nat : RmIndex(c, i) \/ List(c, i)
              \/ AnnounceRemoved(c) \/ ListFill(c) \/ Render(c) \/ Subscribe(c)
              \/ Unsubscribe(c) \/ Disconnect(c) \/ NextCmd(c)
       PROVE  [J!Next]_(J!vars)
  <2>. USE DEF Add, RmId, RmIndex, List, AnnounceRemoved, ListFill, Render,
               Subscribe, Unsubscribe, Disconnect, NextCmd
  <2>1. playlist' = playlist /\ mpv' = mpv
    BY <1>13 DEF Fail, sharedVars, dataVars, queueVars, engineVars, mpvVars
  <2>2. \/ pc' = pc
        \/ /\ pc[c] \notin {"current", "load"}
           /\ \E label \in ClientLabels : pc' = [pc EXCEPT ![c] = label]
    BY <1>13 DEF Fail, Goto, threadVars, ClientLabels, AddLabels, SubsLabels
  <2>3. music' = music \/ \E v : music' = [music EXCEPT ![c] = v]
    BY <1>13 DEF Fail, sharedVars, threadVars
  <2>. HIDE DEF Add, RmId, RmIndex, List, AnnounceRemoved, ListFill, Render,
                Subscribe, Unsubscribe, Disconnect, NextCmd
  <2>4. ClientLabels \cap {"current", "load"} = {}
    BY DEF ClientLabels, AddLabels, SubsLabels
  <2>5. Stays
    <3>1. CASE pc' = pc
      <4>1. c \notin PlayThreads
        BY PlayerAssumption
      <4>2. \A p \in PlayThreads : music'[p] = music[p]
        BY <1>1, <2>3, <4>1
      <4>. QED
        BY <2>1, <3>1, <4>2, SameCurrent DEF Holds
    <3>2. CASE pc' # pc
      BY <1>1, <2>1, <2>2, <2>3, <2>4, <3>2, OtherThread
    <3>. QED
      BY <3>1, <3>2
  <2>. QED
    BY <1>2, <2>1, <2>5
<1>14. ASSUME NEW t \in Threads, Callback(t)
       PROVE  [J!Next]_(J!vars)
  <2>1. CASE owner[t] \notin connected
    <3>1. UNCHANGED <<playlist, mpv, pc, music>>
      BY <1>14, <2>1 DEF Callback, Fail, dataVars, queueVars, threadVars, mpvVars
    <3>2. Stays
      BY <3>1, SameCurrent DEF Holds
    <3>. QED
      BY <1>2, <3>1, <3>2
  <2>2. CASE owner[t] \in connected
    BY <1>7, <1>14, <2>2 DEF Callback, engineVars, mpvVars
  <2>. QED
    BY <2>1, <2>2
<1>15. ASSUME NEW c \in Clients, RandomCmd(c)
       PROVE  [J!Next]_(J!vars)
  BY <1>1, <1>7, <1>15 DEF RandomCmd, engineVars, mpvVars
\* The steps of the playlist thread and of mpv.
<1>16. ASSUME NEW p \in PlayThreads, TakeFront(p)
       PROVE  [J!Next]_(J!vars)
  <2>1. pc[p] = "wait" /\ mpv' = mpv
    BY <1>16 DEF TakeFront, mpvVars
  <2>2. CASE ~started
    <3>1. playlist' = playlist /\ music' = music /\ pc' = [pc EXCEPT ![p] = "none"]
      BY <1>16, <2>2 DEF TakeFront, Goto, queueVars
    <3>2. Stays
      BY <1>1, <2>1, <3>1, OtherThread
    <3>. QED
      BY <1>2, <3>1, <3>2
  <2>3. CASE started
    <3>1. /\ playlist # <<>> /\ Erase(1)
          /\ music' = [music EXCEPT ![p] = Head(playlist)]
          /\ pc' = [pc EXCEPT ![p] = "current"]
      BY <1>16, <2>3 DEF TakeFront, Goto
    <3>2. Current = None
      <4>1. \A q \in PlayThreads : q # p => pc[q] = "none"
        BY <2>1 DEF PlayInv, LockInv
      <4>2. \A q \in PlayThreads : ~Holds(q)
        BY <2>1, <4>1 DEF Holds
      <4>3. mpv = None
        BY <2>1 DEF PlayInv, IdleInv
      <4>. QED
        BY <4>2, <4>3 DEF CurrentIs
    <3>3. Current' = Head(playlist)
      <4>1. Holds(p)' /\ music'[p] = Head(playlist)
        BY <1>1, <3>1 DEF Holds
      <4>. QED
        BY <4>1 DEF CurrentIs
    <3>4. playlist' = Tail(playlist)
      BY <1>1, <3>1, RemoveFront DEF Erase
    <3>. QED
      BY <3>1, <3>2, <3>3, <3>4 DEF J!Next, J!Choose
  <2>. QED
    BY <2>2, <2>3
<1>17. ASSUME NEW p \in PlayThreads, LoadFile(p)
       PROVE  [J!Next]_(J!vars)
  <2>1. /\ pc[p] = "load" /\ pc' = [pc EXCEPT ![p] = "exit"]
        /\ mpv' = music[p] /\ playlist' = playlist
    BY <1>17 DEF LoadFile, Goto, dataVars, queueVars
  <2>2. Current = music[p]
    BY <2>1 DEF CurrentIs, Holds
  <2>3. \A q \in PlayThreads : q # p => pc[q] = "none"
    BY <2>1 DEF PlayInv, LockInv
  <2>4. \A q \in PlayThreads : ~Holds(q)'
    BY <1>1, <2>1, <2>3 DEF Holds
  <2>5. Current' = mpv'
    BY <2>4 DEF CurrentIs
  <2>. QED
    BY <1>2, <2>1, <2>2, <2>5
<1>18. ASSUME NEW p \in PlayThreads, AnnounceCurrent(p)
       PROVE  [J!Next]_(J!vars)
  <2>1. /\ pc[p] = "current" /\ pc' = [pc EXCEPT ![p] = "load"]
        /\ playlist' = playlist /\ mpv' = mpv /\ music' = music
    BY <1>18 DEF AnnounceCurrent, Goto, sharedVars, dataVars, queueVars,
                 engineVars, mpvVars
  <2>2. Stays
    BY <1>1, <2>1, SameCurrent DEF Holds
  <2>. QED
    BY <1>2, <2>1, <2>2
<1>19. ASSUME NEW p \in PlayThreads,
              Begin(p) \/ FindEmpty(p) \/ Sleep(p) \/ SpuriousWake(p) \/ ExitThread(p)
       PROVE  [J!Next]_(J!vars)
  <2>1. playlist' = playlist /\ mpv' = mpv /\ music' = music
    BY <1>19 DEF Begin, FindEmpty, Sleep, SpuriousWake, ExitThread, sharedVars,
                 dataVars, queueVars, engineVars, mpvVars
  <2>2. /\ pc[p] \notin {"current", "load"}
        /\ \E label \in {"subs", "blocking", "sleeping", "wait", "none"} :
             pc' = [pc EXCEPT ![p] = label]
    BY <1>19 DEF Begin, FindEmpty, Sleep, SpuriousWake, ExitThread, Goto
  <2>3. Stays
    BY <1>1, <2>1, <2>2, OtherThread
  <2>. QED
    BY <1>2, <2>1, <2>3
<1>20. ASSUME MpvFinish
       PROVE  [J!Next]_(J!vars)
  <2>1. mpv # None /\ mpv' = None /\ pc' = pc /\ playlist' = playlist
    BY <1>20 DEF MpvFinish, threadVars, dataVars, queueVars
  <2>2. \A p \in PlayThreads : pc[p] \in {"none", "exit"}
    BY <2>1 DEF PlayInv, IdleInv
  <2>3. \A p \in PlayThreads : ~Holds(p) /\ ~Holds(p)'
    BY <2>1, <2>2 DEF Holds
  <2>4. Current = mpv /\ Current' = mpv'
    BY <2>3 DEF CurrentIs
  <2>. QED
    BY <2>1, <2>4 DEF J!Next, J!Finish
<1>21. ASSUME HandleIdle
       PROVE  [J!Next]_(J!vars)
  <2>1. playlist' = playlist /\ mpv' = mpv /\ music' = music
    BY <1>21 DEF HandleIdle, dataVars, queueVars
  <2>2. CASE pc' = pc
    BY <1>2, <2>1, <2>2, SameCurrent DEF Holds
  <2>3. ASSUME NEW p \in PlayThreads, pc[p] = "none", pc' = [pc EXCEPT ![p] = "begin"]
        PROVE  [J!Next]_(J!vars)
    BY <1>1, <1>2, <2>1, <2>3, OtherThread
  <2>. QED
    BY <1>21, <2>2, <2>3 DEF HandleIdle, Goto
<1>22. ASSUME \/ \E e \in {"start", "end"} : HandleFile(e)
              \/ StopNotify \/ Start \/ WaitTimeout \/ Stop \/ UNCHANGED vars
       PROVE  [J!Next]_(J!vars)
  <2>1. playlist' = playlist /\ mpv' = mpv /\ music' = music
    BY <1>22 DEF HandleFile, StopNotify, Start, WaitTimeout, Stop, vars, threadVars,
                 dataVars, queueVars, mpvVars
  <2>2. \A p \in PlayThreads : pc'[p] \in {"current", "load"} <=> Holds(p)
    BY <1>1, <1>22
       DEF HandleFile, StopNotify, Start, WaitTimeout, Stop, vars, threadVars, Holds
  <2>. QED
    BY <1>2, <2>1, <2>2, SameCurrent
<1>23. Len(playlist) \in Nat /\ 0..MaxLen \subseteq Nat
  BY <1>1
<1>. HIDE DEF Stays
<1>. QED
  BY <1>6, <1>8, <1>9, <1>10, <1>11, <1>12, <1>13, <1>14, <1>15, <1>16, <1>17,
     <1>18, <1>19, <1>20, <1>21, <1>22, <1>23
     DEF Next, Command, ClientStep, PlayStep, EventStep, AddStep, SubsStep, Threads

\* The player is a jukebox: whatever the threads interleave, every music that is
\* pushed is played or dropped once, from the front and in order, and is taken
\* only when none plays (player.cpp as a whole).
THEOREM PlayerIsAJukebox == Spec => ImplementsJukebox
<1>1. Init => J!Init
  <2> SUFFICES ASSUME Init
               PROVE  J!Init
    OBVIOUS
  <2>1. playlist \in Seq(Music)
    BY TypeInit DEF TypeInv, DataInv, DataTypes
  <2>2. \A p \in PlayThreads : pc[p] = "none"
    BY PlayerAssumption DEF Init, Threads
  <2>3. Current = None
    BY <2>2 DEF Init, Current
  <2>. QED
    BY <2>1, <2>3 DEF J!Init
<1>2. TypeInv /\ PlayInv /\ (TypeInv /\ PlayInv)' /\ [Next]_vars
        => [J!Next]_(J!vars)
  BY CurrentOf, NextCurrentOf, JukeboxStep
<1>3. Spec => [](TypeInv /\ PlayInv)
  <2>1. Init => PlayInv
    BY PlayerAssumption DEF Init, PlayInv, LockInv, IdleInv, NoIdle, Threads
  <2>. QED
    BY <2>1, PlayStepInv, TypeInvariant, PTL DEF Spec
<1>. QED
  BY <1>1, <1>2, <1>3, PTL DEF Spec, ImplementsJukebox, J!Spec
=============================================================================
