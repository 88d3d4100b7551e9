---------------------------- MODULE PlayerProofs ----------------------------
(***************************************************************************)
(* Theorems about the play queue, for any number of clients, playlist      *)
(* threads and musics, any playlist sizes and any set of commands.         *)
(***************************************************************************)
EXTENDS Player, SequenceLemmas, TLAPS

(* The inductive invariant.                                                *)

\* Only processSubscriptions brings a playlist thread to an add, so that the
\* end of the add leads it back there.
NeedInv ==
  \A p \in PlayThreads : pc[p] \in AddLabels \cup SubsLabels => need[p] # 0

\* A thread about to push or to load holds a music.
MusicInv ==
  \A t \in Threads : pc[t] \in {"push", "current", "load"} => music[t] \in Music

\* The iterators of remove(id) designate elements of the playlist.
PosInv == \A c \in Clients : pos[c] <= Len(playlist)

\* _playMutex is owned by the one playlist thread that exists, if there is one.
LockInv ==
  /\ \A p \in PlayThreads : pc[p] # "none" <=> p \in playLock
  /\ \A p, q \in playLock : p = q

\* mpv is idle from the end of a file until the next "loadfile".
NoIdle(s) == \A i \in 1..Len(s) : s[i] # "idle"

IdleInv ==
  /\ \A p \in PlayThreads : pc[p] \notin {"none", "exit"} => mpv = None /\ NoIdle(events)
  /\ mpv # None => NoIdle(events)
  /\ \A i, j \in 1..Len(events) :
       events[i] = "idle" /\ events[j] = "idle" => i = j

\* A playlist thread between the predicate of its wait and the wait saw an
\* empty playlist, and it still is: that thread holds _mutex.
BlockingInv ==
  \A p \in PlayThreads : pc[p] = "blocking" => playlist = <<>>

DataInv   == DataTypes /\ PosInv /\ ViewInOrder
ThreadInv == ThreadTypes /\ NeedInv /\ MusicInv
TypeInv   == DataInv /\ EngineTypes /\ ThreadInv

PlayInv == LockInv /\ IdleInv

WakeInv == BlockingInv /\ NoLostWakeup
-----------------------------------------------------------------------------
\* What remove(index) does to the element at p, which its view designates.
ErasesAt(c, p) ==
  /\ pc[c] = "rmAt"
  /\ music' = [music EXCEPT ![c] = playlist[p]]
  /\ Erase(p)
  /\ plv' = <<>>
  /\ num' = [num EXCEPT ![c] = 0]
  /\ Goto(c, "removed")
  /\ UNCHANGED <<archive, subsVars, need, owner, engineVars>>

\* remove(index) does nothing defined, or erases an element of the playlist.
LEMMA EraseAtCases ==
  ASSUME TypeInv, NEW c \in Clients, EraseAt(c)
  PROVE  \/ UNCHANGED <<dataVars, threadVars>>
         \/ \E p \in 1..Len(playlist) : ErasesAt(c, p)
<1>1. num[c] + 1 \in Nat \ {0} /\ plv \in Seq(Nat) /\ Len(playlist) \in Nat
  BY DEF TypeInv, DataInv, DataTypes, ThreadInv, ThreadTypes
<1>2. CASE num[c] + 1 > Len(plv) \/ plv[num[c] + 1] = 0
  BY <1>1, <1>2 DEF EraseAt, Fail
<1>3. CASE num[c] + 1 <= Len(plv) /\ plv[num[c] + 1] # 0
  <2>1. num[c] + 1 \in 1..Len(plv) /\ plv[num[c] + 1] \in Nat
    BY <1>1, <1>3
  <2>2. plv[num[c] + 1] \in 1..Len(playlist)
    BY <1>1, <1>3, <2>1 DEF TypeInv, DataInv, ViewInOrder
  <2>3. ErasesAt(c, plv[num[c] + 1])
    BY <1>1, <1>3, <2>1 DEF EraseAt, ErasesAt, Fail
  <2>. QED
    BY <2>2, <2>3
<1>. QED
  BY <1>1, <1>2, <1>3

\* random() leaves a thread with a music to push or back in its loop.
LEMMA RandomThread ==
  ASSUME ThreadInv, DataTypes, NEW t \in Threads, NEW s \in Clients,
         t \in PlayThreads => need[t] # 0,
         Random(t, s), num' = num, need' = need,
         owner' = owner \/ owner' = [owner EXCEPT ![t] = None]
  PROVE  ThreadInv'
<1>. USE PlayerAssumption
     DEF ThreadInv, ThreadTypes, NeedInv, MusicInv, Threads, AddLabels,
         SubsLabels, ClientLabels, PlayLabels, Goto
<1>1. Own[s] \subseteq Music /\ archive \subseteq Music
  BY DEF DataTypes
<1>2. \/ \E m \in Music : /\ music' = [music EXCEPT ![t] = m]
                        /\ \/ pc' = [pc EXCEPT ![t] = "push"]
                           \/ pc' = [pc EXCEPT ![t] = "announce"]
      \/ music' = music /\ pc' = [pc EXCEPT ![t] = AfterAdd(t)]
  BY <1>1 DEF Random
<1>3. ASSUME NEW m \in Music, music' = [music EXCEPT ![t] = m],
             NEW label \in {"push", "announce"}, pc' = [pc EXCEPT ![t] = label]
      PROVE  ThreadInv'
  BY <1>3
<1>4. CASE music' = music /\ pc' = [pc EXCEPT ![t] = AfterAdd(t)]
  BY <1>4 DEF AfterAdd
<1>. QED
  BY <1>2, <1>3, <1>4

\* No step leaves a thread at a label its kind does not have, a playlist thread
\* in an add that processSubscriptions did not start, or a thread about to push
\* or load without a music (the locals of player.cpp's functions).
LEMMA ThreadStep == TypeInv /\ [Next]_vars => ThreadInv'
<1> SUFFICES ASSUME TypeInv, [Next]_vars
             PROVE  ThreadInv'
  OBVIOUS
<1>. USE PlayerAssumption
     DEF TypeInv, ThreadInv, ThreadTypes, NeedInv, MusicInv, Threads,
         AddLabels, SubsLabels, ClientLabels, PlayLabels, Goto,
         argVars, threadVars
<1>1. ASSUME NEW c \in Clients, NEW m \in Music, Add(c, m)
      PROVE  ThreadInv'
  BY <1>1 DEF Add
<1>2. ASSUME NEW t \in Threads, Push(t)
      PROVE  ThreadInv'
  BY <1>2, AppendProperties DEF Push, MutexFree
<1>3. ASSUME NEW t \in Threads, AnnounceAdded(t)
      PROVE  ThreadInv'
  BY <1>3 DEF AnnounceAdded, Fail
<1>4. ASSUME NEW t \in Threads, Notify(t)
      PROVE  ThreadInv'
  BY <1>4 DEF Notify, AfterAdd
<1>5. ASSUME NEW c \in Clients, RandomCmd(c)
      PROVE  ThreadInv'
  <2>1. c \in Threads /\ num' = num /\ need' = need /\ owner' = owner
    BY <1>5 DEF RandomCmd
  <2>2. Random(c, c)
    BY <1>5 DEF RandomCmd
  <2>. QED
    BY <2>1, <2>2, RandomThread DEF DataInv
<1>6. ASSUME NEW c \in Clients, NEW i \in 0..MaxLen, RmIndex(c, i)
      PROVE  ThreadInv'
  BY <1>6 DEF RmIndex
<1>7. ASSUME NEW c \in Clients, EraseAt(c)
      PROVE  ThreadInv'
  <2>1. CASE UNCHANGED <<dataVars, threadVars>>
    BY <2>1
  <2>2. ASSUME NEW p \in 1..Len(playlist), ErasesAt(c, p)
        PROVE  ThreadInv'
    <3>1. playlist[p] \in Music
      BY ElementOfSeq DEF DataInv, DataTypes
    <3>. QED
      BY <2>2, <3>1 DEF ErasesAt
  <2>. QED
    BY <1>7, <2>1, <2>2, EraseAtCases
<1>8. ASSUME NEW c \in Clients, NEW m \in Music, RmId(c, m)
      PROVE  ThreadInv'
  BY <1>8 DEF RmId
<1>9. ASSUME NEW c \in Clients, EraseFound(c)
      PROVE  ThreadInv'
  BY <1>9 DEF EraseFound, Fail
<1>10. ASSUME NEW c \in Clients, Clear(c)
      PROVE  ThreadInv'
  BY <1>10 DEF Clear
<1>11. ASSUME NEW c \in Clients, AnnounceRemoved(c)
      PROVE  ThreadInv'
  BY <1>11 DEF AnnounceRemoved
<1>12. ASSUME NEW c \in Clients, NEW n \in Nat, List(c, n)
      PROVE  ThreadInv'
  BY <1>12 DEF List
<1>13. ASSUME NEW c \in Clients, ListFill(c)
      PROVE  ThreadInv'
  BY <1>13 DEF ListFill
<1>14. ASSUME NEW c \in Clients, Render(c)
      PROVE  ThreadInv'
  <2>1. \/ UNCHANGED threadVars
        \/ /\ pc' = [pc EXCEPT ![c] = "idle"]
           /\ num' = [num EXCEPT ![c] = 0]
           /\ UNCHANGED <<music, need, owner>>
    BY <1>14 DEF Render, Fail
  <2>2. CASE UNCHANGED threadVars
    BY <2>2
  <2>3. CASE UNCHANGED <<music, need, owner>>
    BY <2>1, <2>2, <2>3
  <2>. QED
    BY <2>1, <2>2, <2>3
<1>15. ASSUME NEW c \in Clients, Subscribe(c)
      PROVE  ThreadInv'
  BY <1>15 DEF Subscribe
<1>16. ASSUME NEW t \in Threads, ProcessSubscriptions(t)
      PROVE  ThreadInv'
  <2>1. \/ /\ pc' = [pc EXCEPT ![t] = "callback"]
           /\ owner' = [owner EXCEPT ![t] = Head(subscribers)]
           /\ subscribers # <<>> /\ need' = need
        \/ /\ pc' = [pc EXCEPT ![t] = IF t \in Clients THEN "idle" ELSE "wait"]
           /\ need' = [need EXCEPT ![t] = 0] /\ owner' = owner
    BY <1>16 DEF ProcessSubscriptions
  <2>2. pc[t] = "subs" /\ music' = music /\ num' = num
    BY <1>16 DEF ProcessSubscriptions
  <2>3. CASE pc' = [pc EXCEPT ![t] = "callback"] /\ need' = need /\ subscribers # <<>>
             /\ owner' = [owner EXCEPT ![t] = Head(subscribers)]
    <3>1. Head(subscribers) \in Clients
      BY <2>3, HeadTailProperties DEF DataInv, DataTypes
    <3>. QED
      BY <2>2, <2>3, <3>1
  <2>4. CASE /\ pc' = [pc EXCEPT ![t] = IF t \in Clients THEN "idle" ELSE "wait"]
             /\ need' = [need EXCEPT ![t] = 0] /\ owner' = owner
    BY <2>2, <2>4
  <2>. QED
    BY <2>1, <2>3, <2>4
<1>17. ASSUME NEW t \in Threads, Callback(t)
      PROVE  ThreadInv'
  <2>1. CASE owner[t] \notin connected
    BY <1>17, <2>1 DEF Callback, Fail
  <2>2. CASE owner[t] \in connected
    <3>1. owner[t] \in Clients
      BY <2>2 DEF DataInv, DataTypes
    <3>2. Random(t, owner[t]) /\ owner' = [owner EXCEPT ![t] = None]
      BY <1>17, <2>2 DEF Callback
    <3>3. num' = num /\ need' = need /\ (t \in PlayThreads => need[t] # 0)
      BY <1>17, <2>2 DEF Callback
    <3>. QED
      BY <3>1, <3>2, <3>3, RandomThread DEF DataInv
  <2>. QED
    BY <2>1, <2>2
<1>18. ASSUME HandleIdle
      PROVE  ThreadInv'
  BY <1>18 DEF HandleIdle
<1>19. ASSUME StopNotify
      PROVE  ThreadInv'
  BY <1>19 DEF StopNotify
<1>20. ASSUME NEW p \in PlayThreads, Begin(p)
      PROVE  ThreadInv'
  BY <1>20 DEF Begin
<1>21. ASSUME NEW p \in PlayThreads, TakeFront(p)
      PROVE  ThreadInv'
  <2>1. \/ pc' = [pc EXCEPT ![p] = "none"] /\ music' = music
        \/ /\ pc' = [pc EXCEPT ![p] = "current"] /\ playlist # <<>>
           /\ music' = [music EXCEPT ![p] = Head(playlist)]
    BY <1>21 DEF TakeFront
  <2>2. UNCHANGED argVars
    BY <1>21 DEF TakeFront
  <2>3. CASE pc' = [pc EXCEPT ![p] = "none"] /\ music' = music
    BY <2>2, <2>3
  <2>4. CASE /\ pc' = [pc EXCEPT ![p] = "current"] /\ playlist # <<>>
             /\ music' = [music EXCEPT ![p] = Head(playlist)]
    <3>1. Head(playlist) \in Music
      BY <2>4, HeadTailProperties DEF DataInv, DataTypes
    <3>. QED
      BY <2>2, <2>4, <3>1
  <2>. QED
    BY <2>1, <2>3, <2>4
<1>22. ASSUME NEW p \in PlayThreads, FindEmpty(p)
      PROVE  ThreadInv'
  BY <1>22 DEF FindEmpty
<1>23. ASSUME NEW p \in PlayThreads, Sleep(p)
      PROVE  ThreadInv'
  BY <1>23 DEF Sleep
<1>24. ASSUME NEW p \in PlayThreads, SpuriousWake(p)
      PROVE  ThreadInv'
  BY <1>24 DEF SpuriousWake
<1>25. ASSUME NEW p \in PlayThreads, AnnounceCurrent(p)
      PROVE  ThreadInv'
  BY <1>25 DEF AnnounceCurrent
<1>26. ASSUME NEW p \in PlayThreads, LoadFile(p)
      PROVE  ThreadInv'
  BY <1>26 DEF LoadFile
<1>27. ASSUME NEW p \in PlayThreads, ExitThread(p)
      PROVE  ThreadInv'
  BY <1>27 DEF ExitThread
<1>28. ASSUME \/ \E c \in Clients : Unsubscribe(c) \/ Disconnect(c) \/ NextCmd(c)
              \/ \E e \in {"start", "end"} : HandleFile(e)
              \/ MpvFinish \/ Start \/ WaitTimeout \/ Stop \/ UNCHANGED vars
       PROVE  ThreadInv'
  <2>1. UNCHANGED threadVars
    BY <1>28 DEF Unsubscribe, Disconnect, NextCmd, HandleFile, MpvFinish, Start,
                 WaitTimeout, Stop, vars
  <2>. QED
    BY <2>1
<1>. HIDE DEF ThreadInv
<1>29. Len(playlist) \in Nat
  BY DEF TypeInv, DataInv, DataTypes
<1>. QED
  BY ONLY [Next]_vars, PlayerAssumption, <1>29, <1>1, <1>2, <1>3, <1>4, <1>5, <1>6, <1>7, <1>8, <1>9, <1>10, <1>11,
     <1>12, <1>13, <1>14, <1>15, <1>16, <1>17, <1>18, <1>19, <1>20, <1>21, <1>22,
     <1>23, <1>24, <1>25, <1>26, <1>27, <1>28
     DEF Next, Command, ClientStep, PlayStep, EventStep, AddStep, SubsStep, Threads
-----------------------------------------------------------------------------
\* Pushing at the back moves no iterator.
LEMMA AppendKeepsData ==
  ASSUME DataInv, NEW m \in Music, playlist' = Append(playlist, m),
         plv' = plv \/ plv' = <<>>, pos' = pos,
         archive' \subseteq Music, UNCHANGED subsVars
  PROVE  DataInv'
<1>. USE DEF DataInv, DataTypes, PosInv, ViewInOrder, subsVars
<1>1. /\ playlist' \in Seq(Music)
      /\ Len(playlist') = Len(playlist) + 1
  BY AppendProperties
<1>2. DataTypes'
  <2>1. plv' \in Seq(Nat)
    BY EmptySeq
  <2>. QED
    BY <1>1, <2>1
<1>3. PosInv'
  BY <1>1
<1>4. ViewInOrder'
  BY <1>1
<1>. QED
  BY <1>2, <1>3, <1>4

\* Erasing an element that the view does not designate, or its first one,
\* keeps the view in order: the first line may dangle, not another.
LEMMA EraseKeepsData ==
  ASSUME DataInv, NEW p \in 1..Len(playlist), Erase(p),
         \/ plv' = <<>>
         \/ p = 1 /\ plv' = [i \in DOMAIN plv |-> Moved(plv[i], 1)],
         UNCHANGED <<archive, subsVars>>
  PROVE  DataInv'
<1>. USE DEF DataInv, DataTypes, PosInv, ViewInOrder, subsVars
<1>1. /\ playlist' \in Seq(Music)
      /\ Len(playlist') = Len(playlist) - 1
  BY RemoveAtProperties DEF Erase
<1>2. /\ pos' \in [Clients -> Nat]
      /\ \A c \in Clients : pos'[c] <= Len(playlist')
  BY <1>1 DEF Erase, Moved
<1>3. CASE plv' = <<>>
  BY <1>1, <1>2, <1>3
<1>4. CASE p = 1 /\ plv' = [i \in DOMAIN plv |-> Moved(plv[i], 1)]
  <2>1. \A i \in 1..Len(plv) :
          /\ plv[i] \in Nat
          /\ Moved(plv[i], 1) = IF plv[i] > 1 THEN plv[i] - 1 ELSE 0
          /\ Moved(plv[i], 1) \in Nat
    BY DEF Moved
  <2>2. plv' = [i \in 1..Len(plv) |-> Moved(plv[i], 1)]
    BY <1>4
  <2>3. plv' \in Seq(Nat) /\ Len(plv') = Len(plv)
    BY <2>1, <2>2
  <2>4. \A i \in 1..Len(plv) : plv'[i] = IF plv[i] > 1 THEN plv[i] - 1 ELSE 0
    BY <2>1, <2>2
  <2>5. \A i \in 1..Len(plv') : plv'[i] <= Len(playlist')
    BY <1>1, <2>1, <2>3, <2>4
  <2>6. \A i \in 1..(Len(plv')-1) :
          plv'[i+1] = plv'[i] + 1 \/ (plv'[i] = 0 /\ plv'[i+1] = 0)
    <3> SUFFICES ASSUME NEW i \in 1..(Len(plv)-1)
                 PROVE  plv'[i+1] = plv'[i] + 1 \/ (plv'[i] = 0 /\ plv'[i+1] = 0)
      BY <2>3
    <3>1. i \in 1..Len(plv) /\ i+1 \in 1..Len(plv)
      OBVIOUS
    <3>2. plv[i+1] = plv[i] + 1 \/ (plv[i] = 0 /\ plv[i+1] = 0)
      OBVIOUS
    <3>3. plv[i] \in Nat /\ plv[i+1] \in Nat
      BY <2>1, <3>1
    <3>4. /\ plv'[i] = IF plv[i] > 1 THEN plv[i] - 1 ELSE 0
          /\ plv'[i+1] = IF plv[i+1] > 1 THEN plv[i+1] - 1 ELSE 0
      BY <2>4, <3>1
    <3>. HIDE DEF DataInv, DataTypes, PosInv, ViewInOrder
    <3>. QED
      BY <3>2, <3>3, <3>4
  <2>. QED
    BY <1>1, <1>2, <2>3, <2>5, <2>6
<1>. QED
  BY <1>3, <1>4

\* A subscriber that leaves: at most one element of the deque is erased.
LEMMA EraseSubscriberType ==
  ASSUME DataInv, NEW c \in Clients, EraseSubscriber(c)
  PROVE  subscribers' \in Seq(Clients)
BY RemoveAtProperties DEF DataInv, DataTypes, EraseSubscriber

\* No step makes the view of list() or an iterator of remove(id) designate a
\* place beyond the playlist, nor breaks the order of the view, although view and
\* iterators outlive the critical sections they were made in (player.cpp).
LEMMA DataStep == TypeInv /\ [Next]_vars => DataInv'
<1> SUFFICES ASSUME TypeInv, [Next]_vars
             PROVE  DataInv'
  OBVIOUS
<1>1. DataInv /\ DataTypes /\ PosInv /\ ViewInOrder
  BY DEF TypeInv, DataInv
<1>2. \A t \in Threads : pc[t] = "push" => music[t] \in Music
  BY DEF TypeInv, ThreadInv, MusicInv
<1>. USE DEF dataVars, queueVars, subsVars
<1>3. ASSUME UNCHANGED dataVars
      PROVE  DataInv'
  BY <1>1, <1>3 DEF DataInv, DataTypes, PosInv, ViewInOrder
<1>4. ASSUME NEW c \in Clients, NEW m \in Music, Add(c, m)
      PROVE  DataInv'
  BY <1>1, <1>4 DEF Add, DataInv, DataTypes, PosInv, ViewInOrder
<1>5. ASSUME NEW t \in Threads, Push(t)
      PROVE  DataInv'
  BY <1>1, <1>2, <1>5, AppendKeepsData DEF Push, DataTypes
<1>6. ASSUME NEW t \in Threads, NEW s \in Clients, Random(t, s), UNCHANGED subsVars
      PROVE  DataInv'
  <2>1. Own[s] \subseteq Music /\ archive \subseteq Music
    BY <1>1, PlayerAssumption DEF DataTypes
  <2>2. CASE UNCHANGED queueVars
    <3>1. archive' \subseteq Music
      BY <1>6, <2>1, <2>2 DEF Random
    <3>. QED
      BY <1>1, <1>6, <2>2, <3>1 DEF DataInv, DataTypes, PosInv, ViewInOrder
  <2>3. CASE \E m \in archive : playlist' = Append(playlist, m) /\ UNCHANGED <<plv, pos, archive>>
    BY <1>1, <1>6, <2>1, <2>3, AppendKeepsData
  <2>. QED
    BY <1>6, <2>2, <2>3 DEF Random
<1>7. ASSUME NEW c \in Clients, RandomCmd(c)
      PROVE  DataInv'
  BY <1>6, <1>7 DEF RandomCmd, Threads
<1>8. ASSUME NEW t \in Threads, Callback(t)
      PROVE  DataInv'
  <2>1. CASE owner[t] \notin connected
    BY <1>3, <1>8, <2>1 DEF Callback, Fail
  <2>2. CASE owner[t] \in connected
    BY <1>1, <1>6, <1>8, <2>2 DEF Callback, DataTypes
  <2>. QED
    BY <2>1, <2>2
<1>9. ASSUME NEW c \in Clients, EraseAt(c)
      PROVE  DataInv'
  <2>1. CASE UNCHANGED <<dataVars, threadVars>>
    BY <1>3, <2>1
  <2>2. ASSUME NEW p \in 1..Len(playlist), ErasesAt(c, p)
        PROVE  DataInv'
    BY <1>1, <2>2, EraseKeepsData DEF ErasesAt
  <2>. QED
    BY <1>9, <2>1, <2>2, EraseAtCases
<1>10. ASSUME NEW c \in Clients, NEW m \in Music, RmId(c, m)
       PROVE  DataInv'
  <2>1. PICK p \in DOMAIN playlist : pos' = [pos EXCEPT ![c] = p]
    BY <1>10 DEF RmId
  <2>2. p \in 1..Len(playlist)
    BY <1>1 DEF DataTypes
  <2>3. UNCHANGED <<playlist, plv, archive, subsVars>>
    BY <1>10 DEF RmId
  <2>. QED
    BY <1>1, <2>1, <2>2, <2>3 DEF DataInv, DataTypes, PosInv, ViewInOrder
<1>11. ASSUME NEW c \in Clients, EraseFound(c)
       PROVE  DataInv'
  <2>1. CASE pos[c] = 0
    BY <1>3, <1>11, <2>1 DEF EraseFound, Fail
  <2>2. CASE pos[c] # 0
    <3>1. pos[c] \in 1..Len(playlist)
      BY <1>1, <2>2 DEF DataTypes, PosInv
    <3>. QED
      BY <1>1, <1>11, <2>2, <3>1, EraseKeepsData DEF EraseFound
  <2>. QED
    BY <2>1, <2>2
<1>12. ASSUME NEW c \in Clients, Clear(c)
       PROVE  DataInv'
  BY <1>1, <1>12 DEF Clear, DataInv, DataTypes, PosInv, ViewInOrder
<1>13. ASSUME NEW c \in Clients, ListFill(c)
       PROVE  DataInv'
  <2>1. PICK n \in Nat : n <= Len(playlist) /\ plv' = [i \in 1..n |-> i]
    BY <1>1, <1>13 DEF ListFill, DataTypes, TypeInv, ThreadInv, ThreadTypes
  <2>2. /\ plv' \in Seq(Nat)
        /\ Len(plv') = n
        /\ \A i \in 1..n : plv'[i] = i
    BY <2>1
  <2>3. UNCHANGED <<playlist, pos, archive, subsVars>>
    BY <1>13 DEF ListFill
  <2>. QED
    BY <1>1, <2>1, <2>2, <2>3 DEF DataInv, DataTypes, PosInv, ViewInOrder
<1>14. ASSUME subscribers' \in Seq(Clients), connected' \subseteq connected,
              UNCHANGED <<queueVars, archive>>
       PROVE  DataInv'
  BY <1>1, <1>14 DEF DataInv, DataTypes, PosInv, ViewInOrder
<1>15. ASSUME NEW c \in Clients, Subscribe(c)
       PROVE  DataInv'
  BY <1>1, <1>14, <1>15, AppendProperties DEF Subscribe, DataTypes
<1>16. ASSUME NEW c \in Clients, Unsubscribe(c) \/ Disconnect(c)
       PROVE  DataInv'
  <2>1. subscribers' \in Seq(Clients)
    BY <1>1, <1>16, EraseSubscriberType DEF Unsubscribe, Disconnect, DataTypes
  <2>. QED
    BY <1>14, <1>16, <2>1 DEF Unsubscribe, Disconnect
<1>17. ASSUME NEW t \in Threads, ProcessSubscriptions(t)
       PROVE  DataInv'
  <2>1. subscribers # <<>> => Rotated(subscribers) \in Seq(Clients)
    BY <1>1, HeadTailProperties, AppendProperties DEF DataTypes, Rotated
  <2>2. subscribers' \in Seq(Clients)
    BY <1>1, <1>17, <2>1 DEF ProcessSubscriptions, DataTypes
  <2>. QED
    BY <1>14, <1>17, <2>2 DEF ProcessSubscriptions
<1>18. ASSUME NEW p \in PlayThreads, TakeFront(p)
       PROVE  DataInv'
  <2>1. CASE UNCHANGED queueVars
    BY <1>3, <1>18, <2>1 DEF TakeFront
  <2>2. CASE playlist # <<>> /\ Erase(1)
             /\ plv' = [i \in DOMAIN plv |-> Moved(plv[i], 1)]
    <3>1. 1 \in 1..Len(playlist)
      BY <1>1, <2>2, EmptySeq DEF DataTypes
    <3>. QED
      BY <1>1, <1>18, <2>2, <3>1, EraseKeepsData DEF TakeFront
  <2>. QED
    BY <1>18, <2>1, <2>2 DEF TakeFront
<1>19. ASSUME \/ \E t \in Threads : AnnounceAdded(t) \/ Notify(t)
              \/ \E c \in Clients : AnnounceRemoved(c) \/ Render(c) \/ NextCmd(c)
              \/ \E c \in Clients, i \in Nat : RmIndex(c, i) \/ List(c, i)
              \/ \E e \in {"start", "end"} : HandleFile(e)
              \/ \E p \in PlayThreads :
                   Begin(p) \/ FindEmpty(p) \/ Sleep(p) \/ SpuriousWake(p)
                     \/ AnnounceCurrent(p) \/ LoadFile(p) \/ ExitThread(p)
              \/ MpvFinish \/ Start \/ HandleIdle \/ WaitTimeout \/ Stop
              \/ StopNotify \/ UNCHANGED vars
       PROVE  DataInv'
  <2>1. UNCHANGED dataVars
    BY <1>19 DEF AnnounceAdded, Notify, AnnounceRemoved, Render, NextCmd, RmIndex,
                 List, HandleFile, Begin, FindEmpty, Sleep, SpuriousWake,
                 AnnounceCurrent, LoadFile, ExitThread, MpvFinish, Start,
                 HandleIdle, WaitTimeout, Stop, StopNotify, Fail, sharedVars, vars
  <2>. QED
    BY <1>3, <2>1
<1>20. Len(playlist) \in Nat /\ 0..MaxLen \subseteq Nat
  BY <1>1 DEF DataTypes
<1>. QED
  BY <1>20, <1>4, <1>5, <1>7, <1>8, <1>9, <1>10, <1>11, <1>12, <1>13, <1>15,
     <1>16, <1>17, <1>18, <1>19
     DEF Next, Command, ClientStep, PlayStep, EventStep, AddStep, SubsStep, Threads
-----------------------------------------------------------------------------
\* The flags and events the threads of the player exchange keep their types.
LEMMA EngineStep == TypeInv /\ [Next]_vars => EngineTypes'
<1> SUFFICES ASSUME TypeInv, [Next]_vars
             PROVE  EngineTypes'
  OBVIOUS
<1>1. EngineTypes /\ \A t \in Threads : music[t] \in Music \cup {None}
  BY DEF TypeInv, ThreadInv, ThreadTypes
<1>. DEFINE EventKinds == {"start", "end", "idle"}
<1>0. /\ events \in Seq(EventKinds)
      /\ <<"end", "idle">> \in Seq(EventKinds)
      /\ <<"start">> \in Seq(EventKinds)
      /\ <<"end", "start">> \in Seq(EventKinds)
  BY <1>1 DEF EngineTypes
<1>. HIDE DEF EventKinds
<1>. USE DEF engineVars, mpvVars, runVars
<1>2. ASSUME UNCHANGED <<mpvVars, runVars>>, playLock' \subseteq PlayThreads,
             fault' \in Faults
      PROVE  EngineTypes'
  BY <1>1, <1>2 DEF EngineTypes
<1>3. playLock \subseteq PlayThreads /\ fault \in Faults
  BY <1>1 DEF EngineTypes
<1>4. ASSUME \/ \E t \in Threads : AnnounceAdded(t) \/ Callback(t)
             \/ \E c \in Clients : EraseAt(c) \/ EraseFound(c) \/ Render(c)
      PROVE  EngineTypes'
  BY <1>2, <1>3, <1>4 DEF AnnounceAdded, Callback, EraseAt, EraseFound, Render, Fail,
                          Faults, sharedVars
<1>5. ASSUME \E p \in PlayThreads : TakeFront(p) \/ ExitThread(p)
      PROVE  EngineTypes'
  BY <1>2, <1>3, <1>5 DEF TakeFront, ExitThread
<1>6. ASSUME NEW e \in {"start", "end", "idle"}, TakeEvent(e)
      PROVE  events' \in Seq({"start", "end", "idle"})
  BY <1>1, <1>6, HeadTailProperties DEF TakeEvent, EngineTypes
<1>7. ASSUME NEW e \in {"start", "end"}, HandleFile(e)
      PROVE  EngineTypes'
  BY <1>1, <1>6, <1>7 DEF HandleFile, TakeEvent, EngineTypes
<1>8. ASSUME HandleIdle
      PROVE  EngineTypes'
  BY <1>1, <1>6, <1>8 DEF HandleIdle, TakeEvent, EngineTypes
<1>9. ASSUME MpvFinish
      PROVE  EngineTypes'
  <2>1. events' = events \o <<"end", "idle">>
    BY <1>9 DEF MpvFinish
  <2>. HIDE DEF mpvVars
  <2>2. events' \in Seq(EventKinds)
    BY <1>0, <2>1, ConcatProperties
  <2>. QED
    BY <1>1, <1>9, <2>2 DEF MpvFinish, EngineTypes, EventKinds
<1>10. ASSUME NEW p \in PlayThreads, LoadFile(p)
       PROVE  EngineTypes'
  <2>1. \/ events' = events \o <<"start">>
        \/ events' = events \o <<"end", "start">>
    BY <1>10 DEF LoadFile
  <2>2. events' \in Seq(EventKinds)
    BY <1>0, <2>1, ConcatProperties
  <2>. QED
    BY <1>1, <1>10, <2>2 DEF LoadFile, EngineTypes, EventKinds, Threads
<1>11. ASSUME \/ \E c \in Clients : NextCmd(c)
              \/ \E p \in PlayThreads : Begin(p)
              \/ Start \/ WaitTimeout \/ Stop \/ StopNotify
       PROVE  EngineTypes'
  BY <1>1, <1>11 DEF NextCmd, Begin, Start, WaitTimeout, Stop, StopNotify, EngineTypes
<1>12. ASSUME \/ \E c \in Clients, m \in Music : Add(c, m) \/ RmId(c, m)
              \/ \E t \in Threads : Push(t) \/ Notify(t) \/ ProcessSubscriptions(t)
              \/ \E c \in Clients :
                   RandomCmd(c) \/ Clear(c) \/ AnnounceRemoved(c) \/ ListFill(c)
                     \/ Subscribe(c) \/ Unsubscribe(c) \/ Disconnect(c)
              \/ \E c \in Clients, i \in Nat : RmIndex(c, i) \/ List(c, i)
              \/ \E p \in PlayThreads :
                   FindEmpty(p) \/ Sleep(p) \/ SpuriousWake(p) \/ AnnounceCurrent(p)
              \/ UNCHANGED vars
       PROVE  EngineTypes'
  <2>1. UNCHANGED engineVars
    BY <1>12 DEF Add, RmId, Push, Notify, ProcessSubscriptions, RandomCmd, Clear,
                 AnnounceRemoved, ListFill, Subscribe, Unsubscribe, Disconnect,
                 RmIndex, List, FindEmpty, Sleep, SpuriousWake, AnnounceCurrent,
                 sharedVars, vars
  <2>. QED
    BY <1>2, <1>3, <2>1
<1>13. Len(playlist) \in Nat /\ 0..MaxLen \subseteq Nat
  BY DEF TypeInv, DataInv, DataTypes
<1>. QED
  BY <1>4, <1>5, <1>7, <1>8, <1>9, <1>10, <1>11, <1>12, <1>13
     DEF Next, Command, ClientStep, PlayStep, EventStep, AddStep, SubsStep, Threads

\* The types hold when the player was restored (player.cpp, operator>>).
LEMMA TypeInit == Init => TypeInv
<1> SUFFICES ASSUME Init
             PROVE  TypeInv
  OBVIOUS
<1>1. playlist \in Seq(Music)
  BY PlayerAssumption DEF Init, SeqOf
<1>2. DataInv
  BY <1>1, EmptySeq DEF Init, DataInv, DataTypes, PosInv, ViewInOrder
<1>3. EngineTypes
  <2>1. <<"idle">> \in Seq({"start", "end", "idle"})
    OBVIOUS
  <2>. QED
    BY <2>1 DEF Init, EngineTypes, Faults
<1>4. ThreadInv
  BY PlayerAssumption
     DEF Init, ThreadInv, ThreadTypes, NeedInv, MusicInv, Threads, ClientLabels,
         PlayLabels, AddLabels, SubsLabels
<1>. QED
  BY <1>2, <1>3, <1>4 DEF TypeInv

\* TypeInv is an inductive invariant.
LEMMA TypeInvariant == Spec => []TypeInv
<1>1. TypeInv /\ [Next]_vars => TypeInv'
  BY ThreadStep, DataStep, EngineStep DEF TypeInv
<1>. QED
  BY <1>1, TypeInit, PTL DEF Spec

\* The state is well typed: in particular every music that is pushed is one,
\* and no playlist thread ever returns to the loop of a client.
THEOREM TypeCorrect == Spec => []TypeOK
<1>1. TypeInv => TypeOK
  BY DEF TypeInv, DataInv, ThreadInv, TypeOK
<1>. QED
  BY <1>1, TypeInvariant, PTL

\* The view of list() designates consecutive elements of the playlist; only
\* its first lines dangle (Player::list and the writers of _plv).
THEOREM ViewStaysInOrder == Spec => []ViewInOrder
<1>1. TypeInv => ViewInOrder
  BY DEF TypeInv, DataInv
<1>. QED
  BY <1>1, TypeInvariant, PTL
-----------------------------------------------------------------------------
(* mpv is only given a music when it is idle.                              *)

\* One playlist thread at a time, and one IDLE event at most while mpv is idle:
\* try_lock keeps a second thread out, and the end of a file sends no second IDLE
\* before the next "loadfile" (Player::asyncPlayNext).
LEMMA PlayStepInv == TypeInv /\ PlayInv /\ [Next]_vars => PlayInv'
<1> SUFFICES ASSUME TypeInv, PlayInv, [Next]_vars
             PROVE  PlayInv'
  OBVIOUS
<1>1. /\ pc \in [Threads -> ClientLabels \cup PlayLabels]
      /\ events \in Seq({"start", "end", "idle"})
      /\ playLock \subseteq PlayThreads
  BY DEF TypeInv, ThreadInv, ThreadTypes, EngineTypes
<1>2. Clients \cap PlayThreads = {} /\ PlayThreads \subseteq Threads
  BY PlayerAssumption DEF Threads
<1>3. LockInv /\ IdleInv
  BY DEF PlayInv
<1>. DEFINE Quiet == /\ UNCHANGED <<playLock, mpv, events>>
                     /\ \A p \in PlayThreads : /\ pc'[p] = "none" <=> pc[p] = "none"
                                               /\ pc'[p] = "exit" <=> pc[p] = "exit"
<1>4. ASSUME Quiet
      PROVE  PlayInv'
  BY <1>3, <1>4 DEF PlayInv, LockInv, IdleInv
<1>5. ASSUME NEW c \in Clients,
             \/ \E m \in Music : Add(c, m) \/ RmId(c, m)
             \/ \E i \in Nat : RmIndex(c, i) \/ List(c, i)
             \/ RandomCmd(c) \/ EraseAt(c) \/ EraseFound(c) \/ Clear(c)
             \/ AnnounceRemoved(c) \/ ListFill(c) \/ Render(c) \/ Subscribe(c)
             \/ Unsubscribe(c) \/ Disconnect(c) \/ NextCmd(c)
      PROVE  Quiet
  <2>1. UNCHANGED <<playLock, mpv, events>>
    BY <1>5 DEF Add, RmId, RmIndex, List, RandomCmd, EraseAt, EraseFound, Clear,
                AnnounceRemoved, ListFill, Render, Subscribe, Unsubscribe, Disconnect,
                NextCmd, Fail, sharedVars, engineVars, mpvVars
  <2>2. pc' = pc \/ \E label : pc' = [pc EXCEPT ![c] = label]
    BY <1>5 DEF Add, RmId, RmIndex, List, RandomCmd, Random, EraseAt, EraseFound, Clear,
                AnnounceRemoved, ListFill, Render, Subscribe, Unsubscribe, Disconnect,
                NextCmd, Fail, Goto, threadVars
  <2>3. \A p \in PlayThreads : pc'[p] = pc[p]
    BY <1>1, <1>2, <2>2
  <2>. QED
    BY <2>1, <2>3
<1>6. ASSUME NEW t \in Threads,
             \/ Push(t) \/ AnnounceAdded(t) \/ Notify(t)
             \/ ProcessSubscriptions(t) \/ Callback(t)
      PROVE  Quiet
  <2>1. UNCHANGED <<playLock, mpv, events>>
    BY <1>6 DEF Push, AnnounceAdded, Notify, ProcessSubscriptions, Callback, Fail,
                sharedVars, engineVars, mpvVars
  <2>2. pc[t] \notin {"none", "exit"}
    BY <1>6 DEF Push, AnnounceAdded, Notify, ProcessSubscriptions, Callback
  <2>3. ASSUME NEW label, label \notin {"none", "exit"},
               pc' = [pc EXCEPT ![t] = label]
        PROVE  Quiet
    BY <1>1, <1>2, <2>1, <2>2, <2>3
  <2>4. CASE pc' = pc
    BY <2>1, <2>4
  <2>5. CASE Notify(t)
    <3>1. AfterAdd(t) \notin {"none", "exit"}
      BY DEF AfterAdd
    <3>2. CASE pc' = [pc EXCEPT ![t] = AfterAdd(t)]
      BY <2>3, <3>1, <3>2
    <3>3. ASSUME NEW q \in PlayThreads, pc[q] = "sleeping",
                 pc' = [pc EXCEPT ![t] = AfterAdd(t), ![q] = "wait"]
          PROVE  Quiet
      BY <1>1, <1>2, <2>1, <2>2, <3>1, <3>3
    <3>. QED
      BY <2>5, <3>2, <3>3 DEF Notify, Goto
  <2>6. CASE Push(t) \/ AnnounceAdded(t) \/ ProcessSubscriptions(t)
    BY <2>3, <2>4, <2>6
       DEF Push, AnnounceAdded, ProcessSubscriptions, Fail, Goto, threadVars
  <2>7. CASE Callback(t)
    <3>1. AfterAdd(t) \notin {"none", "exit"}
      BY DEF AfterAdd
    <3>. QED
      BY <2>3, <2>4, <2>7, <3>1 DEF Callback, Random, Fail, Goto, threadVars
  <2>. QED
    BY <1>6, <2>5, <2>6, <2>7
<1>7. ASSUME NEW p \in PlayThreads,
             Begin(p) \/ FindEmpty(p) \/ Sleep(p) \/ SpuriousWake(p) \/ AnnounceCurrent(p)
      PROVE  Quiet
  BY <1>1, <1>2, <1>7 DEF Begin, FindEmpty, Sleep, SpuriousWake, AnnounceCurrent, Goto,
                          sharedVars, engineVars, mpvVars
<1>8. ASSUME Start \/ WaitTimeout \/ Stop \/ UNCHANGED vars
      PROVE  Quiet
  BY <1>8 DEF Start, WaitTimeout, Stop, vars, threadVars, mpvVars
<1>9. ASSUME StopNotify
      PROVE  Quiet
  BY <1>1, <1>2, <1>9 DEF StopNotify, mpvVars
<1>10. ASSUME NEW p \in PlayThreads, TakeFront(p)
       PROVE  PlayInv'
  <2>1. pc[p] = "wait" /\ UNCHANGED <<mpv, events>>
    BY <1>10 DEF TakeFront, mpvVars
  <2>2. CASE pc' = [pc EXCEPT ![p] = "none"] /\ playLock' = playLock \ {p}
    BY <1>1, <1>2, <1>3, <2>1, <2>2 DEF PlayInv, LockInv, IdleInv
  <2>3. CASE pc' = [pc EXCEPT ![p] = "current"] /\ UNCHANGED playLock
    BY <1>1, <1>2, <1>4, <2>1, <2>3
  <2>. QED
    BY <1>10, <2>2, <2>3 DEF TakeFront, Goto
<1>11. ASSUME NEW p \in PlayThreads, ExitThread(p)
       PROVE  PlayInv'
  <2>1. /\ pc[p] = "exit" /\ pc' = [pc EXCEPT ![p] = "none"]
        /\ playLock' = playLock \ {p}
        /\ UNCHANGED <<mpv, events>>
    BY <1>11 DEF ExitThread, Goto, mpvVars
  <2>. QED
    BY <1>1, <1>2, <1>3, <2>1 DEF PlayInv, LockInv, IdleInv
<1>12. ASSUME NEW p \in PlayThreads, LoadFile(p)
       PROVE  PlayInv'
  <2>1. /\ pc[p] = "load" /\ pc' = [pc EXCEPT ![p] = "exit"]
        /\ UNCHANGED playLock
    BY <1>12 DEF LoadFile, Goto
  <2>2. mpv = None /\ NoIdle(events)
    BY <1>2, <1>3, <2>1 DEF IdleInv
  <2>3. \A q \in PlayThreads : pc'[q] \in {"none", "exit"}
    BY <1>1, <1>2, <1>3, <2>1 DEF LockInv
  <2>4. events' = events \o <<"start">>
    BY <1>12, <2>2 DEF LoadFile
  <2>5. NoIdle(events')
    BY <1>1, <2>2, <2>4 DEF NoIdle
  <2>6. LockInv'
    BY <1>1, <1>2, <1>3, <2>1 DEF LockInv
  <2>. QED
    BY <2>3, <2>5, <2>6 DEF PlayInv, IdleInv, NoIdle
<1>13. ASSUME MpvFinish
       PROVE  PlayInv'
  <2>1. /\ mpv # None /\ mpv' = None
        /\ events' = events \o <<"end", "idle">>
        /\ UNCHANGED <<pc, playLock>>
    BY <1>13 DEF MpvFinish, threadVars
  <2>2. NoIdle(events)
    BY <1>3, <2>1 DEF IdleInv
  <2>3. \A p \in PlayThreads : pc[p] \in {"none", "exit"}
    BY <1>3, <2>1 DEF IdleInv
  <2>4. \A i \in 1..Len(events') : events'[i] = "idle" => i = Len(events) + 2
    BY <1>1, <2>1, <2>2 DEF NoIdle
  <2>. QED
    BY <1>3, <2>1, <2>3, <2>4 DEF PlayInv, LockInv, IdleInv
<1>14. ASSUME NEW e \in {"start", "end", "idle"}, TakeEvent(e)
       PROVE  /\ Len(events') \in Nat
              /\ Len(events) = Len(events') + 1
              /\ \A i \in 1..Len(events') : events'[i] = events[i+1]
              /\ events[1] = e
  BY <1>1, <1>14, HeadTailProperties, EmptySeq DEF TakeEvent
<1>15. ASSUME NEW e \in {"start", "end"}, HandleFile(e)
       PROVE  PlayInv'
  <2>1. UNCHANGED <<pc, playLock, mpv>>
    BY <1>15 DEF HandleFile, threadVars
  <2>2. TakeEvent(e)
    BY <1>15 DEF HandleFile
  <2>. QED
    <3>1. LockInv'
      BY <1>3, <2>1 DEF LockInv
    <3>2. NoIdle(events) => NoIdle(events')
      BY <1>14, <2>2 DEF NoIdle
    <3>3. ASSUME NEW i \in 1..Len(events'), NEW j \in 1..Len(events'),
                 events'[i] = "idle", events'[j] = "idle"
          PROVE  i = j
      <4>1. /\ i+1 \in 1..Len(events) /\ events[i+1] = "idle"
            /\ j+1 \in 1..Len(events) /\ events[j+1] = "idle"
        BY <1>14, <2>2, <3>3
      <4>2. i+1 = j+1
        BY <1>3, <4>1 DEF IdleInv
      <4>. QED
        BY <4>2
    <3>. QED
      BY <1>3, <2>1, <3>1, <3>2, <3>3 DEF PlayInv, IdleInv
<1>16. ASSUME HandleIdle
       PROVE  PlayInv'
  <2>1. TakeEvent("idle") /\ mpv' = mpv
    BY <1>16 DEF HandleIdle
  <2>2. events[1] = "idle" /\ NoIdle(events')
    BY <1>3, <1>14, <2>1 DEF IdleInv, NoIdle
  <2>3. mpv = None /\ \A p \in PlayThreads : pc[p] \in {"none", "exit"}
    BY <1>3, <1>14, <2>1, <2>2 DEF IdleInv, NoIdle
  <2>4. LockInv'
    BY <1>1, <1>2, <1>3, <1>16 DEF HandleIdle, LockInv, Goto
  <2>. QED
    BY <2>1, <2>2, <2>3, <2>4 DEF PlayInv, IdleInv, NoIdle
<1>17. Len(playlist) \in Nat /\ 0..MaxLen \subseteq Nat
  BY DEF TypeInv, DataInv, DataTypes
<1>. HIDE DEF Quiet
<1>. QED
  BY <1>4, <1>5, <1>6, <1>7, <1>8, <1>9, <1>10, <1>11, <1>12, <1>13, <1>15, <1>16,
     <1>17
     DEF Next, Command, ClientStep, PlayStep, EventStep, AddStep, SubsStep, Threads

\* A music is popped and loaded by one playlist thread at a time, while mpv is
\* idle: neither a second IDLE event nor a late one makes "loadfile" cut the
\* music being played (Player::asyncPlayNext).
THEOREM NeverCutsAMusic == Spec => []LoadsOnlyWhenIdle
<1>1. Init => PlayInv
  BY PlayerAssumption DEF Init, PlayInv, LockInv, IdleInv, NoIdle, Threads
<1>2. TypeInv /\ PlayInv /\ [Next]_vars => PlayInv'
  BY PlayStepInv
<1>3. PlayInv => LoadsOnlyWhenIdle
  BY DEF PlayInv, IdleInv, LoadsOnlyWhenIdle
<1>. QED
  BY <1>1, <1>2, <1>3, TypeInvariant, PTL DEF Spec
-----------------------------------------------------------------------------
(* The playlist thread is always woken.                                    *)

\* A music that comes while the playlist thread sleeps comes from a thread that
\* has still to notify, and none comes between the predicate and the wait, as
\* _mutex is held there (Player::add, addRandom, asyncPlayNext).
LEMMA WakeStepInv == TypeInv /\ PlayInv /\ WakeInv /\ [Next]_vars => WakeInv'
<1> SUFFICES ASSUME TypeInv, PlayInv, WakeInv, [Next]_vars
             PROVE  WakeInv'
  OBVIOUS
<1>1. pc \in [Threads -> ClientLabels \cup PlayLabels] /\ playlist \in Seq(Music)
  BY DEF TypeInv, ThreadInv, ThreadTypes, DataInv, DataTypes
<1>2. PlayThreads \subseteq Threads /\ Clients \subseteq Threads
  BY DEF Threads
<1>3. \A p, q \in PlayThreads : pc[p] = "sleeping" /\ pc[q] = "sleeping" => p = q
  BY DEF PlayInv, LockInv
<1>4. BlockingInv /\ NoLostWakeup
  BY DEF WakeInv
<1>. DEFINE Warned(f) == {t \in Threads : f[t] \in {"announce", "notify"}}
            Calm == /\ playlist' # <<>> => playlist # <<>>
                    /\ Warned(pc) \subseteq Warned(pc')
                    /\ \A p \in PlayThreads :
                         /\ pc'[p] = "sleeping" => pc[p] = "sleeping"
                         /\ pc'[p] = "blocking" => pc[p] = "blocking"
<1>5. ASSUME Calm
      PROVE  WakeInv'
  BY <1>4, <1>5 DEF WakeInv, BlockingInv, NoLostWakeup
\* A move of one thread, with a playlist that does not get its first music.
<1>6. ASSUME NEW t \in Threads, NEW label, pc' = [pc EXCEPT ![t] = label],
             label \notin {"sleeping", "blocking"},
             pc[t] \in {"announce", "notify"} => label \in {"announce", "notify"},
             playlist' # <<>> => playlist # <<>>
      PROVE  WakeInv'
  BY <1>1, <1>2, <1>5, <1>6
<1>7. ASSUME pc' = pc, playlist' # <<>> => playlist # <<>>
      PROVE  WakeInv'
  BY <1>5, <1>7
<1>8. ASSUME NEW i \in 1..Len(playlist)
      PROVE  playlist # <<>>
  BY <1>1, <1>8, EmptySeq
<1>9. ASSUME NEW t \in Threads, pc' = [pc EXCEPT ![t] = "announce"], MutexFree
      PROVE  WakeInv'
  BY <1>1, <1>2, <1>9 DEF WakeInv, BlockingInv, NoLostWakeup, MutexFree
<1>10. ASSUME NEW t \in Threads, Push(t)
       PROVE  WakeInv'
  BY <1>9, <1>10 DEF Push, Goto
<1>11. ASSUME NEW t \in Threads, NEW s, Random(t, s), pc[t] \notin {"announce", "notify"}
       PROVE  WakeInv'
  <2>1. CASE playlist' = playlist /\ \E label \in {"push", "idle", "subs"} :
                                      pc' = [pc EXCEPT ![t] = label]
    BY <1>6, <1>11, <2>1
  <2>2. CASE MutexFree /\ pc' = [pc EXCEPT ![t] = "announce"]
    BY <1>9, <2>2
  <2>. QED
    BY <1>11, <2>1, <2>2 DEF Random, Goto, AfterAdd, queueVars
<1>12. ASSUME NEW t \in Threads, Notify(t)
       PROVE  WakeInv'
  <2>1. playlist' = playlist /\ AfterAdd(t) \notin {"sleeping", "blocking"}
    BY <1>12 DEF Notify, AfterAdd, sharedVars, dataVars, queueVars
  <2>2. \A p \in PlayThreads : pc'[p] # "sleeping"
    BY <1>1, <1>2, <1>3, <1>12, <2>1 DEF Notify, Goto
  <2>3. \A p \in PlayThreads : pc'[p] = "blocking" => pc[p] = "blocking"
    BY <1>1, <1>2, <1>12, <2>1 DEF Notify, Goto
  <2>. QED
    BY <1>4, <2>1, <2>2, <2>3 DEF WakeInv, BlockingInv, NoLostWakeup
<1>13. ASSUME NEW p \in PlayThreads, FindEmpty(p)
       PROVE  WakeInv'
  <2>1. /\ playlist = <<>> /\ playlist' = <<>>
        /\ pc' = [pc EXCEPT ![p] = "blocking"]
    BY <1>13 DEF FindEmpty, Goto, sharedVars, dataVars, queueVars
  <2>. QED
    BY <1>1, <1>2, <2>1 DEF WakeInv, BlockingInv, NoLostWakeup
<1>14. ASSUME NEW p \in PlayThreads, Sleep(p)
       PROVE  WakeInv'
  <2>1. /\ pc[p] = "blocking" /\ pc' = [pc EXCEPT ![p] = "sleeping"]
        /\ playlist' = playlist
    BY <1>14 DEF Sleep, Goto, sharedVars, dataVars, queueVars
  <2>2. playlist = <<>>
    BY <1>4, <2>1 DEF BlockingInv
  <2>. QED
    BY <2>1, <2>2 DEF WakeInv, BlockingInv, NoLostWakeup
<1>15. ASSUME NEW c \in Clients,
              \/ \E m \in Music : Add(c, m) \/ RmId(c, m)
              \/ \E i \in Nat : RmIndex(c, i) \/ List(c, i)
              \/ AnnounceRemoved(c) \/ ListFill(c) \/ Render(c) \/ Subscribe(c)
              \/ Unsubscribe(c) \/ Disconnect(c) \/ NextCmd(c) \/ Clear(c)
       PROVE  WakeInv'
  <2>1. playlist' \in {playlist, <<>>}
    BY <1>15 DEF Add, RmId, RmIndex, List, AnnounceRemoved, ListFill, Render, Subscribe,
                 Unsubscribe, Disconnect, NextCmd, Clear, Fail, sharedVars, dataVars,
                 queueVars
  <2>2. \/ pc' = pc
        \/ /\ pc[c] \notin {"announce", "notify"}
           /\ \E label \in ClientLabels : pc' = [pc EXCEPT ![c] = label]
    BY <1>15 DEF Add, RmId, RmIndex, List, AnnounceRemoved, ListFill, Render, Subscribe,
                 Unsubscribe, Disconnect, NextCmd, Clear, Fail, Goto, threadVars,
                 ClientLabels, AddLabels, SubsLabels
  <2>3. ClientLabels \cap {"sleeping", "blocking"} = {}
    BY DEF ClientLabels, AddLabels, SubsLabels
  <2>. QED
    BY <1>2, <1>6, <1>7, <2>1, <2>2, <2>3
<1>16. ASSUME NEW c \in Clients, RandomCmd(c) \/ EraseAt(c) \/ EraseFound(c)
       PROVE  WakeInv'
  <2>1. CASE RandomCmd(c)
    BY <1>2, <1>11, <2>1 DEF RandomCmd
  <2>2. CASE EraseAt(c)
    <3>1. CASE UNCHANGED <<dataVars, threadVars>>
      BY <1>7, <3>1 DEF dataVars, queueVars, threadVars
    <3>2. CASE \E p \in 1..Len(playlist) : ErasesAt(c, p)
      BY <1>2, <1>6, <1>8, <3>2 DEF ErasesAt, Goto
    <3>. QED
      BY <2>2, <3>1, <3>2, EraseAtCases
  <2>3. CASE EraseFound(c)
    <3>1. CASE pos[c] = 0
      BY <1>7, <2>3, <3>1 DEF EraseFound, Fail, dataVars, queueVars, threadVars
    <3>2. CASE pos[c] # 0
      <4>1. pos[c] \in 1..Len(playlist)
        BY <3>2 DEF TypeInv, DataInv, DataTypes, PosInv
      <4>. QED
        BY <1>2, <1>6, <1>8, <2>3, <3>2, <4>1 DEF EraseFound, Goto
    <3>. QED
      BY <3>1, <3>2
  <2>. QED
    BY <1>16, <2>1, <2>2, <2>3
<1>17. ASSUME NEW t \in Threads, AnnounceAdded(t) \/ ProcessSubscriptions(t)
       PROVE  WakeInv'
  <2>1. playlist' = playlist
    BY <1>17 DEF AnnounceAdded, ProcessSubscriptions, Fail, sharedVars, dataVars, queueVars
  <2>2. CASE pc' = pc
    BY <1>7, <2>1, <2>2
  <2>3. CASE pc[t] = "announce" /\ pc' = [pc EXCEPT ![t] = "notify"]
    BY <1>6, <2>1, <2>3
  <2>4. CASE pc[t] = "subs" /\ \E label \in {"callback", "idle", "wait"} :
                                pc' = [pc EXCEPT ![t] = label]
    BY <1>6, <2>1, <2>4
  <2>. QED
    BY <1>17, <2>2, <2>3, <2>4
       DEF AnnounceAdded, ProcessSubscriptions, Fail, Goto, threadVars
<1>18. ASSUME NEW t \in Threads, Callback(t)
       PROVE  WakeInv'
  <2>1. CASE owner[t] \notin connected
    BY <1>7, <1>18, <2>1 DEF Callback, Fail, dataVars, queueVars, threadVars
  <2>2. CASE owner[t] \in connected
    BY <1>11, <1>18, <2>2 DEF Callback
  <2>. QED
    BY <2>1, <2>2
<1>19. ASSUME NEW p \in PlayThreads,
              \/ Begin(p) \/ TakeFront(p) \/ SpuriousWake(p) \/ AnnounceCurrent(p)
              \/ LoadFile(p) \/ ExitThread(p)
       PROVE  WakeInv'
  <2>1. playlist' # <<>> => playlist # <<>>
    <3>1. CASE TakeFront(p)
      BY <3>1 DEF TakeFront, queueVars
    <3>2. CASE ~TakeFront(p)
      BY <1>19, <3>2 DEF Begin, SpuriousWake, AnnounceCurrent, LoadFile, ExitThread,
                         sharedVars, dataVars, queueVars
    <3>. QED
      BY <3>1, <3>2
  <2>2. /\ pc[p] \notin {"announce", "notify"}
        /\ \E label \in {"subs", "none", "current", "wait", "load", "exit"} :
             pc' = [pc EXCEPT ![p] = label]
    BY <1>19 DEF Begin, TakeFront, SpuriousWake, AnnounceCurrent, LoadFile, ExitThread,
                 Goto
  <2>. QED
    BY <1>2, <1>6, <2>1, <2>2
<1>20. ASSUME HandleIdle
       PROVE  WakeInv'
  <2>1. playlist' = playlist
    BY <1>20 DEF HandleIdle, dataVars, queueVars
  <2>2. CASE pc' = pc
    BY <1>7, <2>1, <2>2
  <2>3. ASSUME NEW p \in PlayThreads, pc[p] = "none", pc' = [pc EXCEPT ![p] = "begin"]
        PROVE  WakeInv'
    BY <1>2, <1>6, <2>1, <2>3
  <2>. QED
    BY <1>20, <2>2, <2>3 DEF HandleIdle, Goto
<1>21. ASSUME StopNotify
       PROVE  WakeInv'
  <2>1. playlist' = playlist
    BY <1>21 DEF StopNotify, dataVars, queueVars
  <2>2. \A t \in Threads : pc'[t] = IF pc[t] = "sleeping" THEN "wait" ELSE pc[t]
    BY <1>21 DEF StopNotify
  <2>. QED
    BY <1>2, <1>5, <2>1, <2>2
<1>22. ASSUME \/ \E e \in {"start", "end"} : HandleFile(e)
              \/ MpvFinish \/ Start \/ WaitTimeout \/ Stop \/ UNCHANGED vars
       PROVE  WakeInv'
  <2>1. pc' = pc /\ playlist' = playlist
    BY <1>22 DEF HandleFile, MpvFinish, Start, WaitTimeout, Stop, vars, threadVars,
                 dataVars, queueVars
  <2>. QED
    BY <1>7, <2>1
<1>23. Len(playlist) \in Nat /\ 0..MaxLen \subseteq Nat
  BY <1>1
<1>. HIDE DEF Calm, Warned
<1>. QED
  BY <1>10, <1>12, <1>13, <1>14, <1>15, <1>16, <1>17, <1>18, <1>19, <1>20, <1>21,
     <1>22, <1>23
     DEF Next, Command, ClientStep, PlayStep, EventStep, AddStep, SubsStep, Threads

\* The playlist thread never sleeps while the playlist has a music, unless the
\* thread that pushed it has still to notify: notifying without _mutex, after
\* the event was sent, loses no wakeup (Player::add, addRandom, asyncPlayNext).
THEOREM NoWakeupIsLost == Spec => []NoLostWakeup
<1>1. Init => PlayInv /\ WakeInv
  BY PlayerAssumption
     DEF Init, PlayInv, LockInv, IdleInv, NoIdle, WakeInv, BlockingInv, NoLostWakeup,
         Threads
<1>2. TypeInv /\ PlayInv /\ WakeInv /\ [Next]_vars => (PlayInv /\ WakeInv)'
  BY PlayStepInv, WakeStepInv
<1>3. PlayInv /\ WakeInv => NoLostWakeup
  BY DEF WakeInv
<1>. QED
  BY <1>1, <1>2, <1>3, TypeInvariant, PTL DEF Spec
-----------------------------------------------------------------------------
(* What the playlist and the iterators of remove(id) hold.                 *)

\* The music a thread is about to push was archived before.
ArchivedInv ==
  /\ PlaylistArchived
  /\ \A t \in Threads : pc[t] = "push" => music[t] \in archive

\* Five ways to change the playlist or an iterator: none, push_back, erase,
\* clear, and find_if.
QueueMoves ==
  \/ UNCHANGED <<playlist, pos>>
  \/ \E m \in Music :
       /\ m \in archive \/ \E t \in Threads : pc[t] = "push" /\ m = music[t]
       /\ playlist' = Append(playlist, m)
       /\ pos' = pos
  \/ \E p \in 1..Len(playlist) : Erase(p)
  \/ playlist' = <<>> /\ pos' = [c \in Clients |-> 0]
  \/ \E c \in Clients, m \in Music : RmId(c, m)

\* A thread at a push or at an erase was there before with the same music, or
\* comes to it with a music it archived, or found.
Carries(t) ==
  pc'[t] \in {"push", "erase"} =>
    \/ pc'[t] = pc[t] /\ music'[t] = music[t]
    \/ pc'[t] = "push" /\ music'[t] \in archive'
    \/ t \in Clients /\ \E m \in Music : RmId(t, m)

\* Every step changes the playlist in one of the five ways (player.cpp: no
\* function touches _playlist otherwise).
LEMMA QueueStep == TypeInv /\ [Next]_vars => QueueMoves
<1> SUFFICES ASSUME TypeInv, [Next]_vars
             PROVE  QueueMoves
  OBVIOUS
<1>1. /\ playlist \in Seq(Music) /\ Len(playlist) \in Nat /\ archive \subseteq Music
      /\ pos \in [Clients -> Nat] /\ \A c \in Clients : pos[c] <= Len(playlist)
      /\ \A t \in Threads : pc[t] = "push" => music[t] \in Music
  BY DEF TypeInv, DataInv, DataTypes, PosInv, ThreadInv, MusicInv
<1>. USE DEF dataVars, queueVars
<1>2. ASSUME NEW t \in Threads, Push(t)
      PROVE  QueueMoves
  BY <1>1, <1>2 DEF Push, QueueMoves
<1>3. ASSUME NEW t \in Threads, NEW s \in Clients, Random(t, s)
      PROVE  QueueMoves
  BY <1>1, <1>3 DEF Random, QueueMoves
<1>4. ASSUME NEW c \in Clients, RandomCmd(c)
      PROVE  QueueMoves
  BY <1>3, <1>4 DEF RandomCmd, Threads
<1>5. ASSUME NEW t \in Threads, Callback(t)
      PROVE  QueueMoves
  <2>1. CASE owner[t] \notin connected
    BY <1>5, <2>1 DEF Callback, Fail, QueueMoves
  <2>2. CASE owner[t] \in connected
    <3>1. owner[t] \in Clients
      BY <2>2 DEF TypeInv, DataInv, DataTypes
    <3>. QED
      BY <1>3, <1>5, <2>2, <3>1 DEF Callback
  <2>. QED
    BY <2>1, <2>2
<1>6. ASSUME NEW c \in Clients, EraseAt(c)
      PROVE  QueueMoves
  BY <1>6, EraseAtCases DEF ErasesAt, QueueMoves
<1>7. ASSUME NEW c \in Clients, EraseFound(c)
      PROVE  QueueMoves
  <2>1. CASE pos[c] = 0
    BY <1>7, <2>1 DEF EraseFound, Fail, QueueMoves
  <2>2. CASE pos[c] # 0
    BY <1>1, <1>7, <2>2 DEF EraseFound, QueueMoves
  <2>. QED
    BY <2>1, <2>2
<1>8. ASSUME NEW p \in PlayThreads, TakeFront(p)
      PROVE  QueueMoves
  <2>1. CASE UNCHANGED queueVars
    BY <2>1 DEF QueueMoves
  <2>2. CASE playlist # <<>> /\ Erase(1)
    <3>1. 1 \in 1..Len(playlist)
      BY <1>1, <2>2, EmptySeq
    <3>. QED
      BY <2>2, <3>1 DEF QueueMoves
  <2>. QED
    BY <1>8, <2>1, <2>2 DEF TakeFront
<1>9. ASSUME NEW c \in Clients, Clear(c) \/ \E m \in Music : RmId(c, m)
      PROVE  QueueMoves
  BY <1>9 DEF Clear, QueueMoves
<1>10. ASSUME \/ \E t \in Threads :
                   AnnounceAdded(t) \/ Notify(t) \/ ProcessSubscriptions(t)
              \/ \E c \in Clients, m \in Music : Add(c, m)
              \/ \E c \in Clients, i \in Nat : RmIndex(c, i) \/ List(c, i)
              \/ \E c \in Clients :
                   \/ AnnounceRemoved(c) \/ ListFill(c) \/ Render(c) \/ Subscribe(c)
                   \/ Unsubscribe(c) \/ Disconnect(c) \/ NextCmd(c)
              \/ \E e \in {"start", "end"} : HandleFile(e)
              \/ \E p \in PlayThreads :
                   Begin(p) \/ FindEmpty(p) \/ Sleep(p) \/ SpuriousWake(p)
                     \/ AnnounceCurrent(p) \/ LoadFile(p) \/ ExitThread(p)
              \/ MpvFinish \/ Start \/ HandleIdle \/ WaitTimeout \/ Stop
              \/ StopNotify \/ UNCHANGED vars
       PROVE  QueueMoves
  <2>1. UNCHANGED <<playlist, pos>>
    BY <1>10 DEF AnnounceAdded, Notify, ProcessSubscriptions, Add, RmIndex, List,
                 AnnounceRemoved, ListFill, Render, Subscribe, Unsubscribe,
                 Disconnect, NextCmd, HandleFile, Begin, FindEmpty, Sleep,
                 SpuriousWake, AnnounceCurrent, LoadFile, ExitThread, MpvFinish,
                 Start, HandleIdle, WaitTimeout, Stop, StopNotify, Fail, sharedVars,
                 vars
  <2>. QED
    BY <2>1 DEF QueueMoves
<1>11. 0..MaxLen \subseteq Nat
  BY PlayerAssumption
<1>. HIDE DEF QueueMoves
<1>. QED
  BY <1>1, <1>2, <1>4, <1>5, <1>6, <1>7, <1>8, <1>9, <1>10, <1>11
     DEF Next, Command, ClientStep, PlayStep, EventStep, AddStep, SubsStep, Threads

\* The local music of a thread that waits for _mutex is changed by that thread
\* only (player.cpp: arguments and locals of add and remove).
LEMMA MusicStep == TypeInv /\ [Next]_vars => \A t \in Threads : Carries(t)
<1> SUFFICES ASSUME TypeInv, [Next]_vars
             PROVE  \A t \in Threads : Carries(t)
  OBVIOUS
<1>1. /\ pc \in [Threads -> ClientLabels \cup PlayLabels]
      /\ music \in [Threads -> Music \cup {None}]
      /\ Clients \subseteq Threads /\ PlayThreads \subseteq Threads
  BY DEF TypeInv, ThreadInv, ThreadTypes, Threads
<1>. DEFINE Other(t) == \A u \in Threads \ {t} : music'[u] = music[u]
            All == \A t \in Threads : Carries(t)
\* A move of one thread that does not bring it to a push or an erase.
<1>2. ASSUME NEW t \in Threads, NEW label, label \notin {"push", "erase"},
             pc' = [pc EXCEPT ![t] = label], Other(t)
      PROVE  All
  BY <1>1, <1>2 DEF Carries
<1>3. ASSUME UNCHANGED <<pc, music>>
      PROVE  All
  BY <1>3 DEF Carries
<1>4. ASSUME NEW t \in Threads, pc' = [pc EXCEPT ![t] = "push"], Other(t),
             music'[t] \in archive'
      PROVE  All
  BY <1>1, <1>4 DEF Carries
<1>5. ASSUME NEW c \in Clients, NEW m \in Music, Add(c, m)
      PROVE  All
  BY <1>1, <1>4, <1>5 DEF Add, Goto
<1>6. ASSUME NEW t \in Threads, NEW s \in Clients, Random(t, s)
      PROVE  All
  <2>1. CASE \E m \in Own[s] : /\ archive' = archive \cup {m}
                               /\ music' = [music EXCEPT ![t] = m]
                               /\ pc' = [pc EXCEPT ![t] = "push"]
    BY <1>1, <1>4, <2>1
  <2>2. CASE \E m : /\ music' = [music EXCEPT ![t] = m]
                    /\ pc' = [pc EXCEPT ![t] = "announce"]
    BY <1>1, <1>2, <2>2
  <2>3. CASE music' = music /\ pc' = [pc EXCEPT ![t] = AfterAdd(t)]
    <3>1. AfterAdd(t) \notin {"push", "erase"}
      BY DEF AfterAdd
    <3>. QED
      BY <1>2, <2>3, <3>1
  <2>. QED
    BY <1>6, <2>1, <2>2, <2>3 DEF Random, Goto
<1>7. ASSUME NEW c \in Clients, RandomCmd(c)
      PROVE  All
  BY <1>1, <1>6, <1>7 DEF RandomCmd
<1>8. ASSUME NEW t \in Threads, Callback(t)
      PROVE  All
  <2>1. CASE owner[t] \notin connected
    BY <1>3, <1>8, <2>1 DEF Callback, Fail, threadVars
  <2>2. CASE owner[t] \in connected
    <3>1. owner[t] \in Clients
      BY <2>2 DEF TypeInv, DataInv, DataTypes
    <3>. QED
      BY <1>6, <1>8, <2>2, <3>1 DEF Callback
  <2>. QED
    BY <2>1, <2>2
<1>9. ASSUME NEW c \in Clients, NEW m \in Music, RmId(c, m)
      PROVE  All
  <2>1. /\ pc' = [pc EXCEPT ![c] = "erase"]
        /\ music' = [music EXCEPT ![c] = m]
    BY <1>9 DEF RmId, Goto
  <2>2. \A t \in Threads : t # c => pc'[t] = pc[t] /\ music'[t] = music[t]
    BY <1>1, <2>1
  <2>. QED
    BY <1>9, <2>2 DEF Carries
<1>10. ASSUME NEW t \in Threads, Notify(t)
       PROVE  All
  <2>1. AfterAdd(t) \notin {"push", "erase"}
    BY DEF AfterAdd
  <2>2. \A u \in Threads : pc'[u] \in {"push", "erase"} => u # t /\ pc'[u] = pc[u]
    BY <1>1, <1>10, <2>1 DEF Notify, Goto
  <2>3. Other(t)
    BY <1>1, <1>10 DEF Notify
  <2>. QED
    BY <2>2, <2>3 DEF Carries
<1>11. ASSUME NEW c \in Clients, EraseAt(c)
       PROVE  All
  <2>1. CASE UNCHANGED <<dataVars, threadVars>>
    BY <1>3, <2>1 DEF threadVars
  <2>2. CASE \E p \in 1..Len(playlist) : ErasesAt(c, p)
    BY <1>1, <1>2, <2>2 DEF ErasesAt, Goto
  <2>. QED
    BY <1>11, <2>1, <2>2, EraseAtCases
<1>12. ASSUME NEW c \in Clients,
              \/ \E i \in Nat : RmIndex(c, i) \/ List(c, i)
              \/ EraseFound(c) \/ AnnounceRemoved(c) \/ ListFill(c) \/ Render(c)
              \/ Subscribe(c) \/ Clear(c)
       PROVE  All
  <2>1. \/ UNCHANGED <<pc, music>>
        \/ \E label \in {"rmAt", "fill", "removed", "subs", "render", "idle", "cleared"} :
             /\ pc' = [pc EXCEPT ![c] = label]
             /\ music' = music \/ music' = [music EXCEPT ![c] = None]
    BY <1>12 DEF RmIndex, List, EraseFound, AnnounceRemoved, ListFill, Render,
                 Subscribe, Clear, Fail, Goto, threadVars
  <2>2. music' = music \/ music' = [music EXCEPT ![c] = None] => Other(c)
    BY <1>1
  <2>. QED
    BY <1>1, <1>2, <1>3, <2>1, <2>2
<1>13. ASSUME NEW t \in Threads,
              \/ Push(t) \/ AnnounceAdded(t) \/ ProcessSubscriptions(t)
              \/ /\ t \in PlayThreads
                 /\ \/ Begin(t) \/ FindEmpty(t) \/ Sleep(t) \/ SpuriousWake(t)
                    \/ AnnounceCurrent(t) \/ LoadFile(t) \/ ExitThread(t)
       PROVE  All
  <2>1. \/ UNCHANGED <<pc, music>>
        \/ \E label \in {"announce", "notify", "callback", "idle", "wait", "subs",
                         "blocking", "sleeping", "load", "exit", "none"} :
             /\ pc' = [pc EXCEPT ![t] = label]
             /\ music' = music \/ music' = [music EXCEPT ![t] = None]
    BY <1>13 DEF Push, AnnounceAdded, ProcessSubscriptions, Begin, FindEmpty, Sleep,
                 SpuriousWake, AnnounceCurrent, LoadFile, ExitThread, Fail, Goto,
                 threadVars
  <2>2. music' = music \/ music' = [music EXCEPT ![t] = None] => Other(t)
    BY <1>1
  <2>. QED
    BY <1>2, <1>3, <2>1, <2>2
<1>14. ASSUME NEW p \in PlayThreads, TakeFront(p)
       PROVE  All
  BY <1>1, <1>2, <1>14 DEF TakeFront, Goto
<1>15. ASSUME HandleIdle
       PROVE  All
  BY <1>1, <1>2, <1>3, <1>15 DEF HandleIdle, Goto
<1>16. ASSUME StopNotify
       PROVE  All
  BY <1>16 DEF StopNotify, Carries
<1>17. ASSUME \/ \E c \in Clients : Unsubscribe(c) \/ Disconnect(c) \/ NextCmd(c)
              \/ \E e \in {"start", "end"} : HandleFile(e)
              \/ MpvFinish \/ Start \/ WaitTimeout \/ Stop \/ UNCHANGED vars
       PROVE  All
  <2>1. UNCHANGED <<pc, music>>
    BY <1>17 DEF Unsubscribe, Disconnect, NextCmd, HandleFile, MpvFinish, Start,
                 WaitTimeout, Stop, vars, threadVars
  <2>. QED
    BY <1>3, <2>1
<1>18. Len(playlist) \in Nat /\ 0..MaxLen \subseteq Nat
  BY DEF TypeInv, DataInv, DataTypes
<1>. HIDE DEF All, Other
<1>19. All
  BY <1>1, <1>5, <1>7, <1>8, <1>9, <1>10, <1>11, <1>12, <1>13, <1>14, <1>15, <1>16,
     <1>17, <1>18
     DEF Next, Command, ClientStep, PlayStep, EventStep, AddStep, SubsStep, Threads
<1>. QED
  BY <1>19 DEF All

\* Nothing is removed from _archive through the player (player.cpp: add and
\* addRandom are its only uses).
LEMMA ArchiveGrows == TypeInv /\ [Next]_vars => archive \subseteq archive'
<1> SUFFICES ASSUME TypeInv, [Next]_vars
             PROVE  archive \subseteq archive'
  OBVIOUS
<1>. USE DEF dataVars, queueVars
<1>1. ASSUME NEW t, NEW s, Random(t, s)
      PROVE  archive \subseteq archive'
  BY <1>1 DEF Random
<1>2. ASSUME NEW c \in Clients,
             \/ \E m \in Music : Add(c, m) \/ RmId(c, m)
             \/ \E i \in Nat : RmIndex(c, i) \/ List(c, i)
             \/ EraseAt(c) \/ EraseFound(c) \/ Clear(c) \/ AnnounceRemoved(c)
             \/ ListFill(c) \/ Render(c) \/ Subscribe(c) \/ Unsubscribe(c)
             \/ Disconnect(c) \/ NextCmd(c)
      PROVE  archive \subseteq archive'
  BY <1>2 DEF Add, RmId, RmIndex, List, EraseAt, EraseFound, Clear, AnnounceRemoved,
              ListFill, Render, Subscribe, Unsubscribe, Disconnect, NextCmd, Fail,
              sharedVars
<1>3. ASSUME NEW t \in Threads,
             \/ Push(t) \/ AnnounceAdded(t) \/ Notify(t) \/ ProcessSubscriptions(t)
             \/ t \in PlayThreads /\
                  \/ Begin(t) \/ TakeFront(t) \/ FindEmpty(t) \/ Sleep(t)
                  \/ SpuriousWake(t) \/ AnnounceCurrent(t) \/ LoadFile(t)
                  \/ ExitThread(t)
      PROVE  archive \subseteq archive'
  BY <1>3 DEF Push, AnnounceAdded, Notify, ProcessSubscriptions, Begin, TakeFront,
              FindEmpty, Sleep, SpuriousWake, AnnounceCurrent, LoadFile, ExitThread,
              Fail, sharedVars
<1>4. ASSUME \/ \E c \in Clients : RandomCmd(c)
             \/ \E t \in Threads : Callback(t)
      PROVE  archive \subseteq archive'
  BY <1>1, <1>4 DEF RandomCmd, Callback, Fail
<1>5. ASSUME \/ \E e \in {"start", "end"} : HandleFile(e)
             \/ MpvFinish \/ Start \/ HandleIdle \/ WaitTimeout \/ Stop
             \/ StopNotify \/ UNCHANGED vars
      PROVE  archive \subseteq archive'
  BY <1>5 DEF HandleFile, MpvFinish, Start, HandleIdle, WaitTimeout, Stop, StopNotify,
              vars
<1>6. Len(playlist) \in Nat /\ 0..MaxLen \subseteq Nat
  BY DEF TypeInv, DataInv, DataTypes
<1>. QED
  BY <1>2, <1>3, <1>4, <1>5, <1>6
     DEF Next, Command, ClientStep, PlayStep, EventStep, AddStep, SubsStep, Threads

\* A music is archived before it is pushed, whatever happens between the two.
LEMMA ArchivedStep == TypeInv /\ ArchivedInv /\ [Next]_vars => ArchivedInv'
<1> SUFFICES ASSUME TypeInv, ArchivedInv, [Next]_vars
             PROVE  ArchivedInv'
  OBVIOUS
<1>1. playlist \in Seq(Music) /\ ToSet(playlist) \subseteq archive
  BY DEF TypeInv, DataInv, DataTypes, ArchivedInv, PlaylistArchived
<1>2. archive \subseteq archive'
  BY ArchiveGrows
<1>3. ASSUME NEW t \in Threads, pc'[t] = "push"
      PROVE  music'[t] \in archive'
  <2>1. CASE pc'[t] = pc[t] /\ music'[t] = music[t]
    BY <1>2, <1>3, <2>1 DEF ArchivedInv
  <2>2. CASE t \in Clients /\ \E m \in Music : RmId(t, m)
    <3>1. pc \in [Threads -> ClientLabels \cup PlayLabels]
      BY DEF TypeInv, ThreadInv, ThreadTypes
    <3>. QED
      BY <1>3, <2>2, <3>1 DEF RmId, Goto
  <2>3. Carries(t)
    BY MusicStep
  <2>. QED
    BY <1>3, <2>1, <2>2, <2>3 DEF Carries
<1>4. PlaylistArchived'
  <2>1. CASE UNCHANGED <<playlist, pos>>
    BY <1>1, <1>2, <2>1 DEF PlaylistArchived
  <2>2. ASSUME NEW m \in Music, playlist' = Append(playlist, m),
               m \in archive \/ \E t \in Threads : pc[t] = "push" /\ m = music[t]
        PROVE  PlaylistArchived'
    <3>1. m \in archive
      BY <2>2 DEF ArchivedInv
    <3>2. ToSet(playlist') = ToSet(playlist) \cup {m}
      BY <1>1, <2>2, AppendElements
    <3>. QED
      BY <1>1, <1>2, <3>1, <3>2 DEF PlaylistArchived
  <2>3. ASSUME NEW p \in 1..Len(playlist), Erase(p)
        PROVE  PlaylistArchived'
    <3>1. ToSet(playlist') \subseteq ToSet(playlist)
      BY <1>1, <2>3, RemoveAtElements DEF Erase
    <3>. QED
      BY <1>1, <1>2, <3>1 DEF PlaylistArchived
  <2>4. CASE playlist' = <<>>
    BY <2>4 DEF PlaylistArchived, ToSet
  <2>5. CASE \E c \in Clients, m \in Music : RmId(c, m)
    BY <1>1, <1>2, <2>5 DEF RmId, PlaylistArchived
  <2>6. QueueMoves
    BY QueueStep
  <2>. QED
    BY <2>1, <2>2, <2>3, <2>4, <2>5, <2>6 DEF QueueMoves
<1>. QED
  BY <1>3, <1>4 DEF ArchivedInv

\* Every music of the playlist is in the archive (Player::add archives before it
\* pushes, addRandom pushes what it drew from the archive, operator>> restores a
\* playlist of archived musics).
THEOREM QueueIsArchived == Spec => []PlaylistArchived
<1>1. Init => ArchivedInv
  <2> SUFFICES ASSUME Init
               PROVE  ArchivedInv
    OBVIOUS
  <2>1. \A i \in DOMAIN playlist : playlist[i] \in archive
    BY DEF Init, SeqOf
  <2>2. \A t \in Threads : pc[t] # "push"
    BY DEF Init
  <2>. QED
    BY <2>1, <2>2 DEF ArchivedInv, PlaylistArchived, ToSet
<1>2. TypeInv /\ ArchivedInv /\ [Next]_vars => ArchivedInv'
  BY ArchivedStep
<1>3. ArchivedInv => PlaylistArchived
  BY DEF ArchivedInv
<1>. QED
  BY <1>1, <1>2, <1>3, TypeInvariant, PTL DEF Spec

\* An iterator follows its element through every push and every erase.
LEMMA FoundStep == TypeInv /\ FoundIsErased /\ [Next]_vars => FoundIsErased'
<1> SUFFICES ASSUME TypeInv, FoundIsErased, [Next]_vars,
                    NEW c \in Clients, pc'[c] = "erase", pos'[c] # 0
             PROVE  /\ pos'[c] <= Len(playlist')
                    /\ playlist'[pos'[c]] = music'[c]
  BY DEF FoundIsErased
<1>1. /\ playlist \in Seq(Music) /\ Len(playlist) \in Nat
      /\ pos \in [Clients -> Nat] /\ pos[c] <= Len(playlist)
      /\ music \in [Threads -> Music \cup {None}] /\ c \in Threads
  BY DEF TypeInv, DataInv, DataTypes, PosInv, ThreadInv, ThreadTypes, Threads
<1>2. CASE \E m \in Music : RmId(c, m)
  <2>1. PICK m \in Music, p \in DOMAIN playlist :
          /\ FirstAt(playlist, m, p)
          /\ pos' = [pos EXCEPT ![c] = p]
          /\ music' = [music EXCEPT ![c] = m]
          /\ playlist' = playlist
    BY <1>2 DEF RmId
  <2>. QED
    BY <1>1, <2>1 DEF FirstAt
<1>3. CASE pc'[c] = pc[c] /\ music'[c] = music[c]
  <2>1. pos[c] # 0 => playlist[pos[c]] = music'[c]
    BY <1>3 DEF FoundIsErased
  <2>2. CASE UNCHANGED <<playlist, pos>>
    BY <1>1, <2>1, <2>2
  <2>3. ASSUME NEW m \in Music, playlist' = Append(playlist, m), pos' = pos
        PROVE  pos'[c] <= Len(playlist') /\ playlist'[pos'[c]] = music'[c]
    <3>1. pos[c] \in 1..Len(playlist)
      BY <1>1, <2>3
    <3>. QED
      BY <1>1, <2>1, <2>3, <3>1, AppendProperties
  <2>4. ASSUME NEW p \in 1..Len(playlist), Erase(p)
        PROVE  pos'[c] <= Len(playlist') /\ playlist'[pos'[c]] = music'[c]
    <3>1. /\ Len(playlist') = Len(playlist) - 1
          /\ \A j \in 1..Len(playlist)-1 :
               playlist'[j] = IF j < p THEN playlist[j] ELSE playlist[j+1]
      BY <1>1, RemoveAtProperties, <2>4 DEF Erase
    <3>2. pos'[c] = Moved(pos[c], p) /\ pos[c] # p
      BY <1>1, <2>4 DEF Erase, Moved
    <3>3. CASE pos[c] > p
      <4>1. pos'[c] = pos[c] - 1 /\ pos'[c] \in 1..Len(playlist)-1 /\ ~(pos'[c] < p)
        BY <1>1, <3>2, <3>3 DEF Moved
      <4>2. playlist'[pos'[c]] = playlist[pos'[c] + 1] /\ pos'[c] + 1 = pos[c]
        BY <1>1, <3>1, <4>1
      <4>. QED
        BY <1>1, <2>1, <3>1, <3>3, <4>1, <4>2
    <3>4. CASE pos[c] < p
      <4>1. pos'[c] = pos[c] /\ pos'[c] \in 1..Len(playlist)-1 /\ pos'[c] < p
        BY <1>1, <3>2, <3>4 DEF Moved
      <4>. QED
        BY <1>1, <2>1, <3>1, <4>1
    <3>. QED
      BY <1>1, <3>2, <3>3, <3>4
  <2>5. CASE pos' = [d \in Clients |-> 0]
    BY <2>5
  <2>6. CASE \E d \in Clients, m \in Music : RmId(d, m)
    <3>1. PICK d \in Clients, m \in Music : RmId(d, m)
      BY <2>6
    <3>2. CASE d = c
      BY <1>2, <3>1, <3>2
    <3>3. CASE d # c
      <4>1. playlist' = playlist /\ pos'[c] = pos[c]
        BY <1>1, <3>1, <3>3 DEF RmId
      <4>. QED
        BY <1>1, <2>1, <4>1
    <3>. QED
      BY <3>2, <3>3
  <2>7. QueueMoves
    BY QueueStep
  <2>. QED
    BY <2>2, <2>3, <2>4, <2>5, <2>6, <2>7 DEF QueueMoves
<1>4. Carries(c)
  BY <1>1, MusicStep
<1>. QED
  BY <1>2, <1>3, <1>4 DEF Carries

\* remove(id) erases the music it found, or uses a dangling iterator, but never
\* erases another music in its place (Player::remove: find_if runs without _mutex,
\* erase with it).
THEOREM NoOtherIsErased == Spec => []FoundIsErased
<1>1. Init => FoundIsErased
  BY DEF Init, FoundIsErased
<1>2. TypeInv /\ FoundIsErased /\ [Next]_vars => FoundIsErased'
  BY FoundStep
<1>. QED
  BY <1>1, <1>2, TypeInvariant, PTL DEF Spec
-----------------------------------------------------------------------------
(* The subscribers.                                                        *)

\* A deque of connected parsers without repetition stays one: subscribe tests for
\* the parser, the destructor unsubscribes it, and a rotation permutes the deque
\* (Player::subscribe, unsubscribe, processSubscriptions; ~CmdParserAPI).
LEMMA SubscribersStep ==
  TypeInv /\ SubscribersDistinctAndAlive /\ [Next]_vars =>
    SubscribersDistinctAndAlive'
<1> SUFFICES ASSUME TypeInv, SubscribersDistinctAndAlive, [Next]_vars
             PROVE  SubscribersDistinctAndAlive'
  OBVIOUS
<1>1. /\ subscribers \in Seq(Clients)
      /\ ToSet(subscribers) \subseteq connected
      /\ IsInjective(subscribers)
  BY DEF TypeInv, DataInv, DataTypes, SubscribersDistinctAndAlive
<1>. USE DEF dataVars, queueVars, subsVars
<1>2. ASSUME UNCHANGED subsVars
      PROVE  SubscribersDistinctAndAlive'
  BY <1>1, <1>2 DEF SubscribersDistinctAndAlive
<1>3. ASSUME NEW c \in Clients, c \in connected, Subscribe(c)
      PROVE  SubscribersDistinctAndAlive'
  <2>1. subscribers' = Append(subscribers, c) /\ connected' = connected
    BY <1>3 DEF Subscribe
  <2>2. c \notin ToSet(subscribers)
    BY <1>1, <1>3 DEF Subscribe, Contains, ToSet
  <2>3. ToSet(subscribers') = ToSet(subscribers) \cup {c} /\ IsInjective(subscribers')
    BY <1>1, <2>1, <2>2, AppendElements
  <2>. QED
    BY <1>1, <1>3, <2>1, <2>3 DEF SubscribersDistinctAndAlive
<1>4. ASSUME NEW c \in Clients, EraseSubscriber(c)
      PROVE  /\ ToSet(subscribers') = ToSet(subscribers) \ {c}
             /\ IsInjective(subscribers')
  <2>1. PICK i \in DOMAIN subscribers :
          subscribers[i] = c /\ subscribers' = RemoveAt(subscribers, i)
    BY <1>4 DEF EraseSubscriber, FirstAt
  <2>2. i \in 1..Len(subscribers)
    BY <1>1
  <2>. QED
    BY <1>1, <2>1, <2>2, RemoveAtElements
<1>5. ASSUME NEW c \in Clients, Unsubscribe(c)
      PROVE  SubscribersDistinctAndAlive'
  BY <1>1, <1>4, <1>5 DEF Unsubscribe, SubscribersDistinctAndAlive
<1>6. ASSUME NEW c \in Clients, Disconnect(c)
      PROVE  SubscribersDistinctAndAlive'
  <2>1. connected' = connected \ {c}
    BY <1>6 DEF Disconnect
  <2>2. CASE EraseSubscriber(c)
    BY <1>1, <1>4, <2>1, <2>2 DEF SubscribersDistinctAndAlive
  <2>3. CASE ~Contains(subscribers, c) /\ UNCHANGED subscribers
    <3>1. c \notin ToSet(subscribers)
      BY <1>1, <2>3 DEF Contains, ToSet
    <3>. QED
      BY <1>1, <2>1, <2>3, <3>1 DEF SubscribersDistinctAndAlive
  <2>. QED
    BY <1>6, <2>2, <2>3 DEF Disconnect
<1>7. ASSUME NEW t \in Threads, ProcessSubscriptions(t)
      PROVE  SubscribersDistinctAndAlive'
  <2>1. connected' = connected
    BY <1>7 DEF ProcessSubscriptions
  <2>2. CASE subscribers' = subscribers
    BY <1>2, <2>1, <2>2
  <2>3. CASE subscribers # <<>> /\ subscribers' = Rotated(subscribers)
    <3>1. ToSet(subscribers') = ToSet(subscribers) /\ IsInjective(subscribers')
      BY <1>1, <2>3, RotationElements DEF Rotated
    <3>. QED
      BY <1>1, <2>1, <3>1 DEF SubscribersDistinctAndAlive
  <2>. QED
    BY <1>7, <2>2, <2>3 DEF ProcessSubscriptions
<1>8. ASSUME NEW c \in Clients,
             \/ \E m \in Music : Add(c, m) \/ RmId(c, m)
             \/ \E i \in Nat : RmIndex(c, i) \/ List(c, i)
             \/ RandomCmd(c) \/ EraseAt(c) \/ EraseFound(c) \/ Clear(c)
             \/ AnnounceRemoved(c) \/ ListFill(c) \/ Render(c) \/ NextCmd(c)
      PROVE  SubscribersDistinctAndAlive'
  <2>1. UNCHANGED subsVars
    BY <1>8 DEF Add, RmId, RmIndex, List, RandomCmd, EraseAt, EraseFound, Clear,
                AnnounceRemoved, ListFill, Render, NextCmd, Fail, sharedVars
  <2>. QED
    BY <1>2, <2>1
<1>9. ASSUME NEW t \in Threads,
              \/ Push(t) \/ AnnounceAdded(t) \/ Notify(t) \/ Callback(t)
              \/ t \in PlayThreads /\
                   \/ Begin(t) \/ TakeFront(t) \/ FindEmpty(t) \/ Sleep(t)
                   \/ SpuriousWake(t) \/ AnnounceCurrent(t) \/ LoadFile(t)
                   \/ ExitThread(t)
       PROVE  SubscribersDistinctAndAlive'
  <2>1. UNCHANGED subsVars
    BY <1>9 DEF Push, AnnounceAdded, Notify, Callback, Begin, TakeFront, FindEmpty,
                 Sleep, SpuriousWake, AnnounceCurrent, LoadFile, ExitThread, Fail,
                 sharedVars
  <2>. QED
    BY <1>2, <2>1
<1>10. ASSUME \/ \E e \in {"start", "end"} : HandleFile(e)
              \/ MpvFinish \/ Start \/ HandleIdle \/ WaitTimeout \/ Stop
              \/ StopNotify \/ UNCHANGED vars
       PROVE  SubscribersDistinctAndAlive'
  <2>1. UNCHANGED subsVars
    BY <1>10 DEF HandleFile, MpvFinish, Start, HandleIdle, WaitTimeout, Stop,
                 StopNotify, vars
  <2>. QED
    BY <1>2, <2>1
<1>11. Len(playlist) \in Nat /\ 0..MaxLen \subseteq Nat
  BY DEF TypeInv, DataInv, DataTypes
<1>. QED
  BY <1>3, <1>5, <1>6, <1>7, <1>8, <1>9, <1>10, <1>11
     DEF Next, Command, ClientStep, PlayStep, EventStep, AddStep, SubsStep, Threads

\* _subscribers holds living parsers, each once: no rotation revives a parser that
\* left or doubles one that subscribes meanwhile.
THEOREM SubscribersStayAlive == Spec => []SubscribersDistinctAndAlive
<1>1. Init => SubscribersDistinctAndAlive
  BY DEF Init, SubscribersDistinctAndAlive, ToSet, IsInjective
<1>2. TypeInv /\ SubscribersDistinctAndAlive /\ [Next]_vars =>
        SubscribersDistinctAndAlive'
  BY SubscribersStep
<1>. QED
  BY <1>1, <1>2, TypeInvariant, PTL DEF Spec
-----------------------------------------------------------------------------
(* The flag _isPlaying.                                                    *)

\* The last START_FILE or END_FILE the event thread has still to handle tells
\* whether mpv plays; if none is left, _isPlaying does.
FlagInv ==
  /\ (\A i \in 1..Len(events) : events[i] = "idle") => (isPlaying <=> mpv # None)
  /\ \A i \in 1..Len(events) :
       events[i] # "idle" /\ (\A j \in i+1..Len(events) : events[j] = "idle") =>
         (events[i] = "start" <=> mpv # None)

\* mpv queues an event whenever it starts or ends a file; the playlist thread
\* resets the flag only while mpv is idle (Player::run, asyncPlayNext).
LEMMA FlagStep == TypeInv /\ PlayInv /\ FlagInv /\ [Next]_vars => FlagInv'
<1> SUFFICES ASSUME TypeInv, PlayInv, FlagInv, [Next]_vars
             PROVE  FlagInv'
  OBVIOUS
<1>1. events \in Seq({"start", "end", "idle"}) /\ Len(events) \in Nat
  BY DEF TypeInv, EngineTypes
<1>. USE DEF engineVars, mpvVars
<1>2. ASSUME UNCHANGED mpvVars
      PROVE  FlagInv'
  BY <1>2 DEF FlagInv
\* mpv queues a last event e, perhaps followed by IDLE.
<1>3. ASSUME NEW k \in 1..Len(events'), events'[k] # "idle",
             events'[k] = "start" <=> mpv' # None,
             \A j \in k+1..Len(events') : events'[j] = "idle", Len(events') \in Nat
      PROVE  FlagInv'
  <2>1. ASSUME NEW i \in 1..Len(events'), events'[i] # "idle",
               \A j \in i+1..Len(events') : events'[j] = "idle"
        PROVE  i = k
    BY <1>3, <2>1
  <2>. QED
    BY <1>3, <2>1 DEF FlagInv
<1>4. ASSUME MpvFinish
      PROVE  FlagInv'
  <2>1. /\ Len(events') = Len(events) + 2
        /\ events'[Len(events) + 1] = "end" /\ events'[Len(events) + 2] = "idle"
    BY <1>1, <1>4 DEF MpvFinish
  <2>2. mpv' = None
    BY <1>4 DEF MpvFinish
  <2>. QED
    BY <1>1, <1>3, <2>1, <2>2
<1>5. ASSUME NEW p \in PlayThreads, LoadFile(p)
      PROVE  FlagInv'
  <2>1. mpv' \in Music /\ mpv' # None
    BY <1>5, PlayerAssumption DEF LoadFile, TypeInv, ThreadInv, MusicInv, Threads
  <2>2. mpv = None
    BY <1>5 DEF LoadFile, PlayInv, IdleInv
  <2>3. /\ Len(events') = Len(events) + 1
        /\ events'[Len(events) + 1] = "start"
    BY <1>1, <1>5, <2>2 DEF LoadFile
  <2>. QED
    BY <1>1, <1>3, <2>1, <2>3
<1>6. ASSUME NEW e \in {"start", "end", "idle"}, TakeEvent(e)
      PROVE  /\ Len(events') \in Nat
             /\ Len(events) = Len(events') + 1
             /\ \A i \in 1..Len(events') : events'[i] = events[i+1]
             /\ events[1] = e
  BY <1>1, <1>6, HeadTailProperties, EmptySeq DEF TakeEvent
\* The last event but IDLE is not the one that was taken.
<1>7. ASSUME NEW e \in {"start", "end", "idle"}, TakeEvent(e), mpv' = mpv,
             NEW i \in 1..Len(events'), events'[i] # "idle",
             \A j \in i+1..Len(events') : events'[j] = "idle"
      PROVE  events'[i] = "start" <=> mpv' # None
  <2>1. i+1 \in 1..Len(events) /\ events[i+1] = events'[i]
    BY <1>6, <1>7
  <2>2. ASSUME NEW j \in i+2..Len(events)
        PROVE  events[j] = "idle"
    <3>1. j-1 \in i+1..Len(events') /\ j-1 \in 1..Len(events')
      BY <1>6, <1>7
    <3>2. events'[j-1] = events[(j-1)+1] /\ (j-1)+1 = j
      BY <1>6, <1>7, <3>1
    <3>. QED
      BY <1>7, <3>1, <3>2
  <2>. QED
    BY <1>1, <1>7, <2>1, <2>2 DEF FlagInv
<1>8. ASSUME NEW e \in {"start", "end", "idle"}, TakeEvent(e),
             \A i \in 1..Len(events') : events'[i] = "idle",
             NEW j \in 2..Len(events)
      PROVE  events[j] = "idle"
  <2>1. j-1 \in 1..Len(events') /\ (j-1)+1 = j
    BY <1>6, <1>8
  <2>. QED
    BY <1>6, <1>8, <2>1
<1>9. ASSUME NEW e \in {"start", "end"}, HandleFile(e)
      PROVE  FlagInv'
  <2>1. TakeEvent(e) /\ mpv' = mpv /\ (isPlaying' <=> e = "start")
    BY <1>9 DEF HandleFile
  <2>2. ASSUME \A i \in 1..Len(events') : events'[i] = "idle"
        PROVE  isPlaying' <=> mpv' # None
    <3>1. \A j \in 2..Len(events) : events[j] = "idle"
      BY <1>8, <2>1, <2>2
    <3>2. 1 \in 1..Len(events) /\ events[1] = e
      BY <1>6, <2>1
    <3>. QED
      BY <2>1, <3>1, <3>2 DEF FlagInv
  <2>. QED
    BY <1>7, <2>1, <2>2 DEF FlagInv
<1>10. ASSUME HandleIdle
       PROVE  FlagInv'
  <2>1. TakeEvent("idle") /\ mpv' = mpv /\ isPlaying' = isPlaying
    BY <1>10 DEF HandleIdle
  <2>2. ASSUME \A i \in 1..Len(events') : events'[i] = "idle"
        PROVE  isPlaying' <=> mpv' # None
    <3>1. \A j \in 1..Len(events) : events[j] = "idle"
      BY <1>1, <1>6, <1>8, <2>1, <2>2
    <3>. QED
      BY <2>1, <3>1 DEF FlagInv
  <2>. QED
    BY <1>7, <2>1, <2>2 DEF FlagInv
<1>11. ASSUME NEW p \in PlayThreads, Begin(p)
       PROVE  FlagInv'
  <2>1. /\ mpv = None /\ mpv' = mpv /\ events' = events
        /\ ~isPlaying'
    BY <1>11 DEF Begin, PlayInv, IdleInv
  <2>. QED
    BY <2>1 DEF FlagInv
<1>12. ASSUME NEW c \in Clients, NextCmd(c)
       PROVE  FlagInv'
  BY <1>12 DEF NextCmd, FlagInv
<1>13. ASSUME NEW c \in Clients,
              \/ \E m \in Music : Add(c, m) \/ RmId(c, m)
              \/ \E i \in Nat : RmIndex(c, i) \/ List(c, i)
              \/ RandomCmd(c) \/ EraseAt(c) \/ EraseFound(c) \/ Clear(c)
              \/ AnnounceRemoved(c) \/ ListFill(c) \/ Render(c)
              \/ Subscribe(c) \/ Unsubscribe(c) \/ Disconnect(c)
       PROVE  FlagInv'
  <2>1. UNCHANGED mpvVars
    BY <1>13 DEF Add, RmId, RmIndex, List, RandomCmd, EraseAt, EraseFound, Clear,
                 AnnounceRemoved, ListFill, Render, Subscribe, Unsubscribe, Disconnect,
                 Fail, sharedVars
  <2>. QED
    BY <1>2, <2>1
<1>14. ASSUME NEW t \in Threads,
              \/ Push(t) \/ AnnounceAdded(t) \/ Notify(t) \/ Callback(t)
              \/ ProcessSubscriptions(t)
              \/ t \in PlayThreads /\
                   \/ TakeFront(t) \/ FindEmpty(t) \/ Sleep(t) \/ SpuriousWake(t)
                   \/ AnnounceCurrent(t) \/ ExitThread(t)
       PROVE  FlagInv'
  <2>1. UNCHANGED mpvVars
    BY <1>14 DEF Push, AnnounceAdded, Notify, Callback, ProcessSubscriptions, TakeFront,
                 FindEmpty, Sleep, SpuriousWake, AnnounceCurrent, ExitThread, Fail,
                 sharedVars
  <2>. QED
    BY <1>2, <2>1
<1>15. ASSUME Start \/ WaitTimeout \/ Stop \/ StopNotify \/ UNCHANGED vars
       PROVE  FlagInv'
  <2>1. UNCHANGED mpvVars
    BY <1>15 DEF Start, WaitTimeout, Stop, StopNotify, vars
  <2>. QED
    BY <1>2, <2>1
<1>16. Len(playlist) \in Nat /\ 0..MaxLen \subseteq Nat
  BY DEF TypeInv, DataInv, DataTypes
<1>. HIDE DEF FlagInv
<1>. QED
  BY <1>4, <1>5, <1>9, <1>10, <1>11, <1>12, <1>13, <1>14, <1>15, <1>16
     DEF Next, Command, ClientStep, PlayStep, EventStep, AddStep, SubsStep, Threads

\* Once the event thread has caught up with mpv, hasCurrent() is right, although
\* the event thread and the playlist thread both write _isPlaying.
THEOREM FlagCatchesUp == Spec => []PlayingFlagAccurate
<1>1. Init => PlayInv /\ FlagInv
  <2>1. Init => PlayInv
    BY PlayerAssumption DEF Init, PlayInv, LockInv, IdleInv, NoIdle, Threads
  <2>2. Init => FlagInv
    BY DEF Init, FlagInv
  <2>. QED
    BY <2>1, <2>2
<1>2. TypeInv /\ PlayInv /\ FlagInv /\ [Next]_vars => (PlayInv /\ FlagInv)'
  BY PlayStepInv, FlagStep
<1>3. FlagInv => PlayingFlagAccurate
  BY DEF FlagInv, PlayingFlagAccurate
<1>. QED
  BY <1>1, <1>2, <1>3, TypeInvariant, PTL DEF Spec
=============================================================================
