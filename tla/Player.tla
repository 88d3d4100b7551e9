------------------------------- MODULE Player -------------------------------
(***************************************************************************)
(* The play queue of musicbotd: src/player.cpp, with the threads that      *)
(* share it.                                                               *)
(*                                                                         *)
(*  - Client threads (main.cpp:applyFunction) run one command at a time.   *)
(*  - The mpv event thread (Player::run) handles the events of libmpv.     *)
(*  - A playlist thread (Player::asyncPlayNext) is spawned on an IDLE      *)
(*    event; it fills the playlist from the subscribers, waits for a       *)
(*    music, pops it, announces it and hands it to mpv.                    *)
(*                                                                         *)
(* Grain of atomicity: a critical section of _mutex (or of _mutex with     *)
(* _subscribersMutex inside it) is one step; whatever the code reads or    *)
(* does without a lock, every event it sends, every notification and every *)
(* call of a subscriber is a step of its own.  _mutex is held across steps *)
(* in one place only, between the predicate of _cv.wait and the wait       *)
(* itself (pc = "blocking"), because _started changes without _mutex.      *)
(*                                                                         *)
(* A std::list iterator is modelled by the position, in the playlist, of   *)
(* the element it designates: positions follow the element when others are *)
(* erased before it, and become 0 when the element itself is erased.       *)
(* Using position 0 is undefined behaviour in the code.  The model records *)
(* which access was undefined in "fault" and stops there, as the process   *)
(* does when the debug build touches a freed list node.                    *)
(***************************************************************************)
EXTENDS Naturals, FiniteSets, SequencesExt

CONSTANTS
  Clients,          \* client threads; a client also stands for its parser
  PlayThreads,      \* identities for the detached playlist threads
  Music,            \* musics, by video id
  None,             \* no music
  Own,              \* Own[c]: the musics of the named playlist client c is in
  PlaylistMinSize,  \* Player::playlistMinSize
  Commands,         \* the commands the clients of an instance issue
  MaxLen            \* bound of the model: clients add below this length only

Threads == Clients \cup PlayThreads

ASSUME PlayerAssumption ==
  /\ Clients \cap PlayThreads = {}
  /\ None \notin Music
  /\ Own \in [Clients -> SUBSET Music]
  /\ PlaylistMinSize \in Nat \ {0}
  /\ MaxLen \in Nat

VARIABLES
  playlist,    \* _playlist: the musics to come
  plv,         \* _plv: the iterators of the last list(), one per line
  archive,     \* musics of _archive, the archive every added music goes to
  subscribers, \* _subscribers, in rotation order
  connected,   \* clients whose parser object is alive
  started,     \* _started
  isPlaying,   \* _isPlaying
  playLock,    \* playlist threads whose closure owns _playMutex
  mpv,         \* what mpv plays: a music or None (idle)
  stopping,    \* mpv was told to stop the current file
  events,      \* events queued by mpv for mpv_wait_event
  evLoop,      \* the mpv event thread: "new", "running" or "done"
  stopper,     \* stop(): "none", or "notify" between its two statements
  pc,          \* where each thread is
  music,       \* local music of a thread (argument, removed or current music)
  pos,         \* local iterator of a client in remove(id)
  num,         \* local index of remove(index), or line count of list()
  need,        \* argument of the running processSubscriptions, 0 outside it
  owner,       \* local copy of the subscriber to call
  fault        \* the undefined access that was made, "none" so far

vars == <<playlist, plv, archive, subscribers, connected, started, isPlaying,
          playLock, mpv, stopping, events, evLoop, stopper, pc, music, pos,
          num, need, owner, fault>>

queueVars == <<playlist, plv, pos>>
mpvVars   == <<isPlaying, mpv, stopping, events>>
runVars   == <<started, evLoop, stopper>>
subsVars  == <<subscribers, connected>>
argVars   == <<num, need, owner>>

dataVars   == <<queueVars, archive, subsVars>>
engineVars == <<mpvVars, runVars, playLock, fault>>
sharedVars == <<dataVars, engineVars>>
threadVars == <<pc, music, argVars>>

AddLabels    == {"push", "announce", "notify"}
SubsLabels   == {"subs", "callback"}
ClientLabels == AddLabels \cup SubsLabels \cup
  {"idle", "rmAt", "erase", "removed", "cleared", "fill", "render"}
PlayLabels   == AddLabels \cup SubsLabels \cup
  {"none", "begin", "wait", "blocking", "sleeping", "current", "load", "exit"}
Faults       == {"none", "backOfEmptyList", "indexPastView",
                 "danglingView", "danglingIterator", "deadSubscriber"}

DataTypes ==
  /\ playlist \in Seq(Music)
  /\ plv \in Seq(Nat)
  /\ pos \in [Clients -> Nat]
  /\ archive \subseteq Music
  /\ subscribers \in Seq(Clients)
  /\ connected \subseteq Clients

EngineTypes ==
  /\ started \in BOOLEAN
  /\ isPlaying \in BOOLEAN
  /\ playLock \subseteq PlayThreads
  /\ mpv \in Music \cup {None}
  /\ stopping \in BOOLEAN
  /\ events \in Seq({"start", "end", "idle"})
  /\ evLoop \in {"new", "running", "done"}
  /\ stopper \in {"none", "notify"}
  /\ fault \in Faults

ThreadTypes ==
  /\ pc \in [Threads -> ClientLabels \cup PlayLabels]
  /\ \A c \in Clients : pc[c] \in ClientLabels
  /\ \A p \in PlayThreads : pc[p] \in PlayLabels
  /\ music \in [Threads -> Music \cup {None}]
  /\ num \in [Clients -> Nat]
  /\ need \in [Threads -> Nat]
  /\ owner \in [Threads -> Clients \cup {None}]

TypeOK == DataTypes /\ EngineTypes /\ ThreadTypes

Init ==
  /\ archive \in SUBSET Music
  /\ playlist \in SeqOf(archive, MaxLen)   \* what operator>> restored
  /\ plv = <<>>
  /\ subscribers = <<>>
  /\ connected = Clients               \* one identity per connection
  /\ started = FALSE
  /\ isPlaying = FALSE
  /\ playLock = {}
  /\ mpv = None
  /\ stopping = FALSE
  /\ events = <<"idle">>   \* mpv enters idle mode once initialised
  /\ evLoop = "new"
  /\ stopper = "none"
  /\ pc = [t \in Threads |-> IF t \in Clients THEN "idle" ELSE "none"]
  /\ music = [t \in Threads |-> None]
  /\ pos = [c \in Clients |-> 0]
  /\ num = [c \in Clients |-> 0]
  /\ need = [t \in Threads |-> 0]
  /\ owner = [t \in Threads |-> None]
  /\ fault = "none"

-----------------------------------------------------------------------------
(* Helpers. *)

\* Variant: writers of the playlist do not take _mutex.
MutexFreeAlways == TRUE

MutexFree == \A p \in PlayThreads : pc[p] # "blocking"

Goto(t, label) == pc' = [pc EXCEPT ![t] = label]

\* Variant: processSubscriptions returns after the first call of a subscriber.
AfterAddReturns(t) == "idle"

\* Where a thread goes once the add it runs is over: back to its client's
\* loop, or back into processSubscriptions if a subscriber call made the add.
AfterAdd(t) == IF need[t] = 0 THEN "idle" ELSE "subs"

\* std::find_if: position i holds the first e of s.
FirstAt(s, e, i) == i \in DOMAIN s /\ s[i] = e /\ \A j \in 1..(i-1) : s[j] # e

\* Variant: positions are kept in the place of iterators.
MovedLikeAnIndex(i, p) == i

\* The iterator i once the element at position p is erased.
Moved(i, p) == CASE i = p -> 0
                 [] i > p -> i - 1
                 [] OTHER -> i

\* Erasing position p, for the iterators the clients hold.
Erase(p) ==
  /\ playlist' = RemoveAt(playlist, p)
  /\ pos' = [c \in Clients |-> Moved(pos[c], p)]

Fail(what) ==
  /\ fault' = what
  /\ UNCHANGED <<threadVars, dataVars, mpvVars, runVars, playLock>>

-----------------------------------------------------------------------------
(* add(m): archive.add, then the push, the event and the notification.     *)

\* Variant: the music is not archived.
AddUnarchived(c, m) ==
  /\ pc[c] = "idle"
  /\ Len(playlist) < MaxLen
  /\ music' = [music EXCEPT ![c] = m]
  /\ Goto(c, "push")
  /\ UNCHANGED <<queueVars, archive, subsVars, argVars, engineVars>>

Add(c, m) ==
  /\ pc[c] = "idle"
  /\ Len(playlist) < MaxLen
  /\ archive' = archive \cup {m}
  /\ music' = [music EXCEPT ![c] = m]
  /\ Goto(c, "push")
  /\ UNCHANGED <<queueVars, subsVars, argVars, engineVars>>

\* Variant: push_front.
PushFront(t) ==
  /\ pc[t] = "push"
  /\ MutexFree
  /\ plv' = <<>>
  /\ playlist' = <<music[t]>> \o playlist
  /\ Goto(t, "announce")
  /\ UNCHANGED <<pos, archive, subsVars, music, argVars, engineVars>>

Push(t) ==
  /\ pc[t] = "push"
  /\ MutexFree
  /\ plv' = <<>>
  /\ playlist' = Append(playlist, music[t])
  /\ Goto(t, "announce")
  /\ UNCHANGED <<pos, archive, subsVars, music, argVars, engineVars>>

\* sendEvent(added, _playlist.back()): back() is read without _mutex.
AnnounceAdded(t) ==
  /\ pc[t] = "announce"
  /\ IF playlist = <<>>
     THEN Fail("backOfEmptyList")
     ELSE /\ Goto(t, "notify")
          /\ UNCHANGED <<sharedVars, music, argVars>>

\* _cv.notify_one(): wakes one sleeping playlist thread, if there is one.
Notify(t) ==
  /\ pc[t] = "notify"
  /\ \/ /\ \A p \in PlayThreads : pc[p] # "sleeping"
        /\ Goto(t, AfterAdd(t))
     \/ \E p \in PlayThreads :
          /\ pc[p] = "sleeping"
          /\ pc' = [pc EXCEPT ![t] = AfterAdd(t), ![p] = "wait"]
  /\ music' = [music EXCEPT ![t] = None]
  /\ UNCHANGED <<sharedVars, argVars>>

\* random() of the parser of s, run by thread t: a music of the playlist s is
\* in, if that is not empty, is added; else addRandom draws from the archive
\* and pushes without clearing _plv; else nothing is added.  The draw has locks
\* of its own and happens with the push: the archive never shrinks.
Random(t, s) ==
  \/ /\ \E m \in Own[s] :
          /\ archive' = archive \cup {m}
          /\ music' = [music EXCEPT ![t] = m]
     /\ Goto(t, "push")
     /\ UNCHANGED queueVars
  \/ /\ Own[s] = {}
     /\ MutexFree
     /\ \E m \in archive :
          /\ playlist' = Append(playlist, m)
          /\ music' = [music EXCEPT ![t] = m]
     /\ Goto(t, "announce")
     /\ UNCHANGED <<plv, pos, archive>>
  \/ /\ Own[s] = {} /\ archive = {}
     /\ Goto(t, AfterAdd(t))
     /\ UNCHANGED <<queueVars, archive, music>>

RandomCmd(c) ==
  /\ pc[c] = "idle"
  /\ Len(playlist) < MaxLen
  /\ Random(c, c)
  /\ UNCHANGED <<subsVars, argVars, engineVars>>

-----------------------------------------------------------------------------
(* remove(index): two critical sections, the second trusts the first.      *)

RmIndex(c, i) ==
  /\ pc[c] = "idle"
  /\ MutexFree
  /\ i < Len(plv)
  /\ num' = [num EXCEPT ![c] = i]
  /\ Goto(c, "rmAt")
  /\ UNCHANGED <<sharedVars, music, need, owner>>

EraseAt(c) ==
  /\ pc[c] = "rmAt"
  /\ MutexFree
  /\ LET line == num[c] + 1 IN
     \/ line > Len(plv) /\ Fail("indexPastView")
     \/ line <= Len(plv) /\ plv[line] = 0 /\ Fail("danglingView")
     \/ /\ line <= Len(plv)
        /\ plv[line] # 0
        /\ music' = [music EXCEPT ![c] = playlist[plv[line]]]
        /\ Erase(plv[line])
        /\ plv' = <<>>
        /\ num' = [num EXCEPT ![c] = 0]
        /\ Goto(c, "removed")
        /\ UNCHANGED <<archive, subsVars, need, owner, engineVars>>

\* remove(id): find_if runs without _mutex and copies the music it found.
RmId(c, m) ==
  /\ pc[c] = "idle"
  /\ \E p \in DOMAIN playlist :
       FirstAt(playlist, m, p) /\ pos' = [pos EXCEPT ![c] = p]
  /\ music' = [music EXCEPT ![c] = m]
  /\ Goto(c, "erase")
  /\ UNCHANGED <<playlist, plv, archive, subsVars, argVars, engineVars>>

\* Variant: the view is not cleared.
EraseFoundKeepsView(c) ==
  /\ pc[c] = "erase"
  /\ MutexFree
  /\ pos[c] # 0
  /\ Erase(pos[c])
  /\ plv' = [i \in DOMAIN plv |-> Moved(plv[i], pos[c])]
  /\ Goto(c, "removed")
  /\ UNCHANGED <<archive, subsVars, music, argVars, engineVars>>

EraseFound(c) ==
  /\ pc[c] = "erase"
  /\ MutexFree
  /\ IF pos[c] = 0
     THEN Fail("danglingIterator")
     ELSE /\ Erase(pos[c])
          /\ plv' = <<>>
          /\ Goto(c, "removed")
          /\ UNCHANGED <<archive, subsVars, music, argVars, engineVars>>

Clear(c) ==
  /\ pc[c] = "idle"
  /\ MutexFree
  /\ plv' = <<>>
  /\ playlist' = <<>>
  /\ pos' = [d \in Clients |-> 0]
  /\ Goto(c, "cleared")
  /\ UNCHANGED <<archive, subsVars, music, argVars, engineVars>>

\* sendEvent(removed or cleared), then into processSubscriptions.
AnnounceRemoved(c) ==
  /\ pc[c] \in {"removed", "cleared"}
  /\ music' = [music EXCEPT ![c] = None]
  /\ need' = [need EXCEPT ![c] = PlaylistMinSize]
  /\ Goto(c, "subs")
  /\ UNCHANGED <<sharedVars, num, owner>>

-----------------------------------------------------------------------------
(* list() and list(nbLines), and the loop of the parser over the result.   *)

\* Without an argument, _playlist.size() is read before _mutex is taken.
List(c, n) ==
  /\ pc[c] = "idle"
  /\ num' = [num EXCEPT ![c] = n]
  /\ Goto(c, "fill")
  /\ UNCHANGED <<sharedVars, music, need, owner>>

ListFill(c) ==
  /\ pc[c] = "fill"
  /\ MutexFree
  /\ LET lines == IF num[c] <= Len(playlist) THEN num[c] ELSE Len(playlist)
     IN  plv' = [i \in 1..lines |-> i]
  /\ Goto(c, "render")
  /\ UNCHANGED <<playlist, pos, archive, subsVars, music, argVars, engineVars>>

\* The parser walks the shared view after list() released _mutex.
Render(c) ==
  /\ pc[c] = "render"
  /\ IF \E i \in DOMAIN plv : plv[i] = 0
     THEN Fail("danglingView")
     ELSE /\ num' = [num EXCEPT ![c] = 0]
          /\ Goto(c, "idle")
          /\ UNCHANGED <<sharedVars, music, need, owner>>

-----------------------------------------------------------------------------
(* Subscriptions.                                                          *)

Subscribe(c) ==
  /\ pc[c] = "idle"
  /\ ~Contains(subscribers, c)
  /\ subscribers' = Append(subscribers, c)
  /\ need' = [need EXCEPT ![c] = PlaylistMinSize]
  /\ Goto(c, "subs")
  /\ UNCHANGED <<queueVars, archive, connected, music, num, owner, engineVars>>

EraseSubscriber(c) ==
  \E i \in DOMAIN subscribers :
    FirstAt(subscribers, c, i) /\ subscribers' = RemoveAt(subscribers, i)

Unsubscribe(c) ==
  /\ pc[c] = "idle"
  /\ EraseSubscriber(c)
  /\ UNCHANGED <<threadVars, queueVars, archive, connected, engineVars>>

\* The subscriber that was called goes to the back.
\* Variant: it stays in front.
NotRotated(s) == s

Rotated(s) == Append(Tail(s), Head(s))

\* The loop ends when the playlist has n musics or nobody can add one.
\* Variant: it ends with n musics only.
EndsWhenFull(n) == Len(playlist) >= n

Ends(n) == Len(playlist) >= n \/ subscribers = <<>>

\* One turn of the loop of processSubscriptions, up to the unlock.
ProcessSubscriptions(t) ==
  /\ pc[t] = "subs"
  /\ MutexFree
  /\ \/ /\ Len(playlist) < need[t]
        /\ subscribers # <<>>
        /\ owner' = [owner EXCEPT ![t] = Head(subscribers)]
        /\ subscribers' = Rotated(subscribers)
        /\ Goto(t, "callback")
        /\ UNCHANGED need
     \/ /\ Ends(need[t])
        /\ need' = [need EXCEPT ![t] = 0]
        /\ Goto(t, IF t \in Clients THEN "idle" ELSE "wait")
        /\ UNCHANGED <<owner, subscribers>>
  /\ UNCHANGED <<queueVars, archive, connected, music, num, engineVars>>

\* The call of the subscriber, after the locks are released.
Callback(t) ==
  /\ pc[t] = "callback"
  /\ IF owner[t] \notin connected
     THEN Fail("deadSubscriber")
     ELSE /\ Random(t, owner[t])
          /\ owner' = [owner EXCEPT ![t] = None]
          /\ UNCHANGED <<subsVars, num, need, engineVars>>

\* Variant: the destructor does not unsubscribe the parser.
DisconnectSubscribed(c) ==
  /\ pc[c] = "idle"
  /\ connected' = connected \ {c}
  /\ UNCHANGED <<queueVars, archive, subscribers, threadVars, engineVars>>

\* The parser goes out of scope: its destructor unsubscribes it first.
Disconnect(c) ==
  /\ pc[c] = "idle"
  /\ connected' = connected \ {c}
  /\ EraseSubscriber(c) \/ (~Contains(subscribers, c) /\ UNCHANGED subscribers)
  /\ UNCHANGED <<threadVars, queueVars, archive, engineVars>>

-----------------------------------------------------------------------------
(* mpv, as far as src/player.cpp sees it.                                  *)

\* mpv ends the current file, because it is over, cannot be played or was
\* stopped, and enters idle mode.
MpvFinish ==
  /\ mpv # None
  /\ mpv' = None
  /\ stopping' = FALSE
  /\ events' = events \o <<"end", "idle">>
  /\ UNCHANGED <<threadVars, dataVars, runVars, isPlaying, playLock, fault>>

\* next(): the "stop" command; it does nothing while mpv is idle.
NextCmd(c) ==
  /\ pc[c] = "idle"
  /\ mpv # None
  /\ stopping' = TRUE
  /\ UNCHANGED <<threadVars, dataVars, runVars, isPlaying, mpv, events,
                 playLock, fault>>

-----------------------------------------------------------------------------
(* The mpv event thread.                                                   *)

Start ==
  /\ evLoop = "new"
  /\ started' = TRUE
  /\ evLoop' = "running"
  /\ UNCHANGED <<threadVars, dataVars, mpvVars, stopper, playLock, fault>>

\* The event thread takes an event, and tests _started again afterwards.
TakeEvent(e) ==
  /\ evLoop = "running"
  /\ events # <<>>
  /\ Head(events) = e
  /\ events' = Tail(events)
  /\ evLoop' = IF started THEN "running" ELSE "done"

\* Variant: END_FILE is not handled.
HandleFileStart(e) ==
  /\ TakeEvent(e)
  /\ isPlaying' = (isPlaying \/ e = "start")
  /\ UNCHANGED <<threadVars, dataVars, mpv, stopping, started, stopper, playLock,
                 fault>>

\* START_FILE and END_FILE set and reset _isPlaying.
HandleFile(e) ==
  /\ TakeEvent(e)
  /\ isPlaying' = (e = "start")
  /\ UNCHANGED <<threadVars, dataVars, mpv, stopping, started, stopper,
                 playLock, fault>>

\* Variant: END_FILE starts the next music as well as IDLE.
HandleIdleAndEnd ==
  /\ \E e \in {"idle", "end"} : TakeEvent(e)
  /\ playLock = {}
  /\ \E p \in PlayThreads :
       /\ pc[p] = "none"
       /\ playLock' = {p}
       /\ Goto(p, "begin")
  /\ UNCHANGED <<dataVars, isPlaying, mpv, stopping, started, stopper, music,
                 argVars, fault>>

\* asyncPlayNext: if _playMutex is taken, the IDLE event is dropped.
HandleIdle ==
  /\ TakeEvent("idle")
  /\ \/ /\ playLock # {}
        /\ UNCHANGED <<playLock, pc>>
     \/ /\ playLock = {}
        /\ \E p \in PlayThreads :
             /\ pc[p] = "none"
             /\ playLock' = {p}
             /\ Goto(p, "begin")
  /\ UNCHANGED <<dataVars, isPlaying, mpv, stopping, started, stopper, music,
                 argVars, fault>>

\* mpv_wait_event times out after a second and _started is tested.
WaitTimeout ==
  /\ evLoop = "running"
  /\ events = <<>>
  /\ ~started
  /\ evLoop' = "done"
  /\ UNCHANGED <<threadVars, dataVars, mpvVars, started, stopper, playLock,
                 fault>>

\* stop(), called on MPV_EVENT_SHUTDOWN or by the destructor: it neither holds
\* _mutex when it clears _started nor when it notifies.
Stop ==
  /\ started
  /\ started' = FALSE
  /\ stopper' = "notify"
  /\ UNCHANGED <<threadVars, dataVars, mpvVars, evLoop, playLock, fault>>

StopNotify ==
  /\ stopper = "notify"
  /\ stopper' = "none"
  /\ pc' = [t \in Threads |-> IF pc[t] = "sleeping" THEN "wait" ELSE pc[t]]
  /\ UNCHANGED <<dataVars, mpvVars, started, evLoop, playLock, music, argVars,
                 fault>>

-----------------------------------------------------------------------------
(* The playlist thread.                                                    *)

\* Variant: the thread refills no more than the clients do.
BeginWithMinSize(p) ==
  /\ pc[p] = "begin"
  /\ isPlaying' = FALSE
  /\ need' = [need EXCEPT ![p] = PlaylistMinSize]
  /\ Goto(p, "subs")
  /\ UNCHANGED <<dataVars, mpv, stopping, events, runVars, playLock, music, num,
                 owner, fault>>

Begin(p) ==
  /\ pc[p] = "begin"
  /\ isPlaying' = FALSE
  /\ need' = [need EXCEPT ![p] = PlaylistMinSize + 1]
  /\ Goto(p, "subs")
  /\ UNCHANGED <<dataVars, mpv, stopping, events, runVars, playLock, music,
                 num, owner, fault>>

\* The predicate of _cv.wait is true: stop, or take the front of the playlist.
TakeFront(p) ==
  /\ pc[p] = "wait"
  /\ MutexFree
  /\ \/ /\ ~started
        /\ playLock' = playLock \ {p}
        /\ Goto(p, "none")
        /\ UNCHANGED <<queueVars, music>>
     \/ /\ started
        /\ playlist # <<>>
        /\ music' = [music EXCEPT ![p] = Head(playlist)]
        /\ Erase(1)
        /\ plv' = [i \in DOMAIN plv |-> Moved(plv[i], 1)]
        /\ Goto(p, "current")
        /\ UNCHANGED playLock
  /\ UNCHANGED <<archive, subsVars, mpvVars, runVars, argVars, fault>>

\* The predicate of _cv.wait is false; _mutex is still held.
FindEmpty(p) ==
  /\ pc[p] = "wait"
  /\ MutexFree
  /\ playlist = <<>> /\ started
  /\ Goto(p, "blocking")
  /\ UNCHANGED <<sharedVars, music, argVars>>

\* The wait itself releases _mutex.
Sleep(p) ==
  /\ pc[p] = "blocking"
  /\ Goto(p, "sleeping")
  /\ UNCHANGED <<sharedVars, music, argVars>>

\* A condition variable may wake its waiter for no reason.
SpuriousWake(p) ==
  /\ pc[p] = "sleeping"
  /\ Goto(p, "wait")
  /\ UNCHANGED <<sharedVars, music, argVars>>

\* sendEvent(currentChanged, currentMusic)
AnnounceCurrent(p) ==
  /\ pc[p] = "current"
  /\ Goto(p, "load")
  /\ UNCHANGED <<sharedVars, music, argVars>>

\* The "loadfile" command replaces what mpv plays.
LoadFile(p) ==
  /\ pc[p] = "load"
  /\ mpv' = music[p]
  /\ stopping' = FALSE
  /\ events' = events \o IF mpv = None THEN <<"start">> ELSE <<"end", "start">>
  /\ music' = [music EXCEPT ![p] = None]
  /\ Goto(p, "exit")
  /\ UNCHANGED <<dataVars, runVars, isPlaying, playLock, argVars, fault>>

\* The closure is destroyed with the thread, and releases _playMutex.
ExitThread(p) ==
  /\ pc[p] = "exit"
  /\ playLock' = playLock \ {p}
  /\ Goto(p, "none")
  /\ UNCHANGED <<dataVars, mpvVars, runVars, music, argVars, fault>>

-----------------------------------------------------------------------------
Issues(command) == command \in Commands

\* What a client may ask for.
Command(c) ==
  /\ c \in connected
  /\ \/ Issues("add") /\ \E m \in Music : Add(c, m)
     \/ Issues("random") /\ RandomCmd(c)
     \/ Issues("rmIndex") /\ \E i \in 0..MaxLen : RmIndex(c, i)
     \/ Issues("rmId") /\ \E m \in Music : RmId(c, m)
     \/ Issues("clear") /\ Clear(c)
     \/ Issues("list") /\ List(c, Len(playlist))
     \/ Issues("listN") /\ \E n \in 0..MaxLen : List(c, n)
     \/ Issues("subscribe") /\ Subscribe(c)
     \/ Issues("unsubscribe") /\ Unsubscribe(c)
     \/ Issues("disconnect") /\ Disconnect(c)
     \/ Issues("next") /\ NextCmd(c)

\* Steps a client or a playlist thread takes in an add.
AddStep(t) == Push(t) \/ AnnounceAdded(t) \/ Notify(t)

SubsStep(t) == ProcessSubscriptions(t) \/ Callback(t)

\* What the thread of a client does to finish the command it has begun.
ClientStep(c) ==
  AddStep(c) \/ SubsStep(c) \/ EraseAt(c) \/ EraseFound(c) \/ AnnounceRemoved(c)
    \/ ListFill(c) \/ Render(c)

PlayStep(p) ==
  AddStep(p) \/ SubsStep(p) \/ Begin(p) \/ TakeFront(p) \/ FindEmpty(p)
    \/ Sleep(p) \/ AnnounceCurrent(p) \/ LoadFile(p) \/ ExitThread(p)

EventStep ==
  HandleFile("start") \/ HandleFile("end") \/ HandleIdle \/ WaitTimeout

\* Nothing is defined after an undefined access.
Next ==
  /\ fault = "none"
  /\ \/ \E c \in Clients : Command(c) \/ ClientStep(c)
     \/ \E p \in PlayThreads : PlayStep(p) \/ SpuriousWake(p)
     \/ EventStep \/ Start \/ MpvFinish
     \/ Issues("stop") /\ (Stop \/ StopNotify)

Spec == Init /\ [][Next]_vars

(* Fairness.  Clients may stop issuing commands, music may play for ever, a *)
(* condition variable owes nobody a spurious wakeup.  A thread that has a   *)
(* statement to execute executes it; a client thread that waits for _mutex  *)
(* gets it in the end, although others take it again and again (strong      *)
(* fairness): critical sections are short and every turn of the loop of     *)
(* processSubscriptions sleeps half a second without the lock.              *)
Fairness ==
  /\ \A c \in Clients : SF_vars(fault = "none" /\ ClientStep(c))
  /\ \A p \in PlayThreads : WF_vars(fault = "none" /\ PlayStep(p))
  /\ WF_vars(fault = "none" /\ EventStep)
  /\ WF_vars(fault = "none" /\ Start)
  /\ WF_vars(fault = "none" /\ stopping /\ MpvFinish)
  /\ WF_vars(fault = "none" /\ StopNotify)

FairSpec == Spec /\ Fairness

-----------------------------------------------------------------------------
(* Safety.                                                                 *)

\* A playlist thread that has popped, or is going to pop, a music only runs
\* while mpv is idle: "loadfile" never cuts the music being played, although
\* IDLE events, _playMutex and the life of the thread are not synchronised
\* (player.cpp:asyncPlayNext).
LoadsOnlyWhenIdle ==
  \A p \in PlayThreads : pc[p] \notin {"none", "exit"} => mpv = None

\* The playlist thread never sleeps next to a non-empty playlist, unless a
\* thread that pushed has yet to notify it: no add is lost on _cv, although
\* notify_one comes after _mutex is released and after the event is sent
\* (player.cpp:add, addRandom).
NoLostWakeup ==
  \A p \in PlayThreads :
    pc[p] = "sleeping" /\ playlist # <<>> =>
      \E t \in Threads : pc[t] \in {"announce", "notify"}

\* The view of list() designates consecutive elements of the playlist; only
\* its first lines can dangle, those the playlist thread popped since then
\* (player.cpp:list, and the _plv.clear() of every other writer).
ViewInOrder ==
  /\ \A i \in 1..Len(plv) : plv[i] <= Len(playlist)
  /\ \A i \in 1..(Len(plv)-1) :
       plv[i+1] = plv[i] + 1 \/ (plv[i] = 0 /\ plv[i+1] = 0)

\* The iterator remove(id) found without _mutex still designates a music of
\* that id when it is erased, or dangles: whatever other threads popped,
\* pushed or removed, no other music is removed in its place.
FoundIsErased ==
  \A c \in Clients : pc[c] = "erase" /\ pos[c] # 0 =>
    /\ pos[c] <= Len(playlist)
    /\ playlist[pos[c]] = music[c]

\* Rotating the subscribers never revives one that left nor doubles one:
\* the deque holds connected parsers, each at most once, at every moment
\* (player.cpp:processSubscriptions against subscribe and unsubscribe).
SubscribersDistinctAndAlive ==
  /\ ToSet(subscribers) \subseteq connected
  /\ IsInjective(subscribers)

\* Every music of the playlist is in the archive, so that a refill from the
\* archive cannot fail while the playlist has something in it.
PlaylistArchived == ToSet(playlist) \subseteq archive

\* Once the event thread has caught up with mpv, hasCurrent() tells whether a
\* music plays, although three threads' steps write _isPlaying or cause it.
PlayingFlagAccurate == events = <<>> => (isPlaying <=> mpv # None)

\* The music the player is about to load, or else the one mpv plays.
Current ==
  IF \E p \in PlayThreads : pc[p] \in {"current", "load"}
  THEN music[CHOOSE p \in PlayThreads : pc[p] \in {"current", "load"}]
  ELSE mpv

\* The player is a jukebox: whatever the threads interleave, every music that
\* is pushed is played or dropped once, from the front, in order, and a music
\* is taken from the playlist only when none plays (player.cpp as a whole).
J == INSTANCE Jukebox WITH queue <- playlist, current <- Current

ImplementsJukebox == J!Spec

-----------------------------------------------------------------------------
(* Liveness, under FairSpec.                                               *)

\* A sleeping playlist thread is woken when the playlist gets a music.
WaiterIsWoken ==
  \A p \in PlayThreads :
    pc[p] = "sleeping" /\ playlist # <<>> ~>
      pc[p] # "sleeping" \/ fault # "none"

\* A spawned playlist thread takes a music from a non-empty playlist: its
\* loop over the subscribers ends.
PlaylistThreadTakes ==
  \A p \in PlayThreads :
    pc[p] = "begin" /\ playlist # <<>> ~>
      pc[p] = "current" \/ playlist = <<>> \/ ~started \/ fault # "none"

\* A client in the loop of processSubscriptions gets its answer once the
\* archive is not empty: the playlist thread refills one music more than it
\* waits for (playlistMinSize+1), so it does not starve the client.
SubscribeReturns ==
  \A c \in Clients :
    pc[c] = "subs" /\ archive # {} ~> pc[c] = "idle" \/ fault # "none"

\* Subscribers take turns: one that stays subscribed is called again and
\* again as long as subscribers are called at all.
Served(s) == \E t \in Threads : pc[t] = "callback" /\ owner[t] = s

SubscribersTakeTurns ==
  \A s \in Clients :
    \/ []<>(~Contains(subscribers, s))
    \/ <>[](\A r \in Clients : ~Served(r))
    \/ []<>Served(s)
    \/ <>(fault # "none")

-----------------------------------------------------------------------------
(* What the documents say and the code does not do.                        *)

\* server_cmd.txt, next: "Pass to the next music."
NextPassesOn ==
  stopping /\ playlist # <<>> ~>
    \/ \E p \in PlayThreads : pc[p] = "current"
    \/ playlist = <<>>
    \/ fault # "none"

\* cmdparser.cpp, reply to unsubscribe: "You are now unsubscribed from
\* automatically inserting new musics"
UnsubscribedIsNotCalled ==
  [][\A t \in Threads : Callback(t) => Contains(subscribers, owner[t])]_vars
=============================================================================
