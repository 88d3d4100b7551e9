---------------------------- MODULE DaemonProofs ----------------------------
(* Theorems about Daemon, for any musics and any bound.                    *)
EXTENDS Daemon, SequenceTheorems, TLAPS

\* Until Player::start there is no thread to wait for.
StartInv ==
  main \in Starting => event = "none" /\ play = "none" /\ ~started

\* A thread between its predicate and its wait was missed when what it waits for
\* has come, and one that sleeps was missed or is about to be woken.
SleepInv ==
  /\ main \in {"tested", "asleep"} /\ signalled => "main" \in missed
  /\ play = "tested" /\ ~started => "play" \in missed
  /\ play = "asleep" /\ ~started /\ main # "notify" /\ event # "stopping" =>
       "play" \in missed

\* mpv is destroyed after the join, the last step before the members; and who
\* cleared _started is ~Player, which joins, or the event of an mpv that quit.  An
\* exit() leaves main() where it is.
OrderInv ==
  /\ mpv = "destroyed" =>
       event = "joined" /\ main \in {"members"} \cup Destroyed
  /\ main = "terminate" => event = "joined"
  /\ event \notin {"none", "joined"} /\ ~started
       /\ main \notin {"notify", "join", "terminate"} => mpv = "quit"
  /\ event \notin {"none", "joined"} /\ main \in {"members"} \cup Destroyed =>
       mpv = "quit"
  /\ main \notin Starting => event # "none"
  /\ fault = "terminated" => mpv = "quit"
  /\ fault = "exited" => ~ServersGone

\* What the next process restores.
Restored == IF saved = Torn THEN <<>> ELSE saved

\* Where the file is not the playlist although nobody changed it.
Unsaved == {"restore", "volume", "list", "write"}

KeepInv ==
  /\ ~dirty /\ main \notin Unsaved => playlist = Restored
  /\ ~dirty /\ main = "write" => playlist = draft
  /\ main = "restore" /\ before # Torn => before = Restored
  /\ RestartKeepsPlaylist

DaemonInv == TypeOK /\ StartInv /\ SleepInv /\ OrderInv /\ KeepInv

-----------------------------------------------------------------------------
\* Every process starts in order.
LEMMA InitInv == Init => DaemonInv
<1>. SUFFICES ASSUME Init
              PROVE  DaemonInv
  OBVIOUS
<1>1. TypeOK
  <2>1. \A m \in Music : <<m>> \in Seq(Music)
    OBVIOUS
  <2>. QED
    BY <2>1, EmptySeq DEF Init, TypeOK, ListsOK, PlacesOK, FlagsOK, Starting
<1>2. StartInv /\ SleepInv /\ OrderInv /\ KeepInv
  BY DEF Init, StartInv, SleepInv, OrderInv, KeepInv, Restored,
         RestartKeepsPlaylist, Starting, Destroying, Destroyed, Unsaved,
         ServersGone
<1>. QED
  BY <1>1, <1>2 DEF DaemonInv

\* What is a list of musics stays one: a torn file is not taken for a playlist.
LEMMA ListsKept ==
  ASSUME ListsOK, [Next]_vars
  PROVE  ListsOK'
<1>. USE DaemonAssumption
         DEF ListsOK, vars, fileVars, threadVars, mpvVars, musicVars, mainVars,
             Main, Goes, Ends, Changes, Events, Plays
<1>1. CASE UNCHANGED vars
  BY <1>1
<1>2. CASE MainStep
  <2>1. CASE Restore
    BY <2>1, EmptySeq DEF Restore
  <2>2. CASE SaveList
    BY <2>2 DEF SaveList
  <2>3. CASE SaveWrite
    BY <2>3, EmptySeq DEF SaveWrite
  <2>4. CASE Open
    BY <2>4 DEF Open
  <2>5. CASE Listen \/ ListenFails \/ SetHandler \/ Start \/ Wait \/ Block
             \/ SaveVolume
    BY <2>5 DEF Listen, ListenFails, SetHandler, Start, Wait, Block, SaveVolume
  <2>6. CASE Disconnect \/ LeaveServers \/ StopPlayer \/ SkipStop \/ StopNotify \/ Join
             \/ TerminateMpv \/ DestroyMembers \/ Return
    BY <2>6
       DEF Disconnect, LeaveServers, StopPlayer, SkipStop, StopNotify, Join, TerminateMpv,
           DestroyMembers, Return
  <2>. QED
    BY <1>2, <2>1, <2>2, <2>3, <2>4, <2>5, <2>6 DEF MainStep
<1>3. CASE EventStep
  BY <1>3 DEF EventStep, EventLoop, EventTimeout, EventIdle, EventShutdown
<1>4. CASE PlayStep
  <2>1. CASE PlayTake
    <3>1. playlist # <<>> => Tail(playlist) \in Seq(Music)
      OBVIOUS
    <3>. QED
      BY <2>1, <3>1 DEF PlayTake
  <2>2. CASE PlayGone \/ PlayTest \/ PlaySleep \/ PlayLoad
    BY <2>2 DEF PlayGone, PlayTest, PlaySleep, PlayLoad
  <2>. QED
    BY <1>4, <2>1, <2>2 DEF PlayStep
<1>5. CASE Signal \/ Mpv \/ AcceptFails
  BY <1>5 DEF Signal, Mpv, AcceptFails
<1>6. CASE Restart
  BY <1>6, EmptySeq DEF Restart
<1>7. ASSUME NEW m \in Music, ClientAdd(m)
      PROVE  ListsOK'
  <2>1. Append(playlist, m) \in Seq(Music)
    BY AppendProperties
  <2>. QED
    BY <1>7, <2>1 DEF ClientAdd
<1>. QED
  BY <1>1, <1>2, <1>3, <1>4, <1>5, <1>6, <1>7 DEF Next

\* No thread leaves the statements it has.
LEMMA PlacesKept ==
  ASSUME PlacesOK, [Next]_vars
  PROVE  PlacesOK'
<1>. USE DEF PlacesOK, Starting, Waiting, Saving, Leaving, Destroying, Destroyed,
             fileVars, threadVars, mpvVars, musicVars, mainVars, Main, Goes,
             Ends, Changes, StopStarted, Woken, Events, Plays
<1>1. CASE UNCHANGED vars
  BY <1>1 DEF vars
<1>2. CASE MainStep
  <2>1. CASE Restore
    BY <2>1 DEF Restore
  <2>2. CASE Listen
    BY <2>2 DEF Listen
  <2>3. CASE ListenFails
    BY <2>3 DEF ListenFails
  <2>4. CASE SetHandler
    BY <2>4 DEF SetHandler
  <2>5. CASE Start
    BY <2>5 DEF Start
  <2>6. CASE Wait
    BY <2>6 DEF Wait
  <2>7. CASE Block
    BY <2>7 DEF Block
  <2>8. CASE Open
    BY <2>8 DEF Open
  <2>9. CASE SaveVolume
    BY <2>9 DEF SaveVolume
  <2>10. CASE SaveList
    BY <2>10 DEF SaveList
  <2>11. CASE SaveWrite
    BY <2>11 DEF SaveWrite
  <2>12. CASE Disconnect
    BY <2>12 DEF Disconnect
  <2>13. CASE StopPlayer
    BY <2>13 DEF StopPlayer
  <2>14. CASE SkipStop
    BY <2>14 DEF SkipStop
  <2>15. CASE StopNotify
    BY <2>15 DEF StopNotify
  <2>16. CASE Join
    BY <2>16 DEF Join
  <2>17. CASE TerminateMpv
    BY <2>17 DEF TerminateMpv
  <2>18. CASE DestroyMembers
    BY <2>18 DEF DestroyMembers
  <2>19. CASE Return
    BY <2>19 DEF Return
  <2>20. CASE LeaveServers
    BY <2>20 DEF LeaveServers
  <2>. HIDE DEF PlacesOK
  <2>. QED
    BY <1>2, <2>1, <2>2, <2>3, <2>4, <2>5, <2>6, <2>7, <2>8, <2>9, <2>10,
       <2>11, <2>12, <2>13, <2>14, <2>15, <2>16, <2>17, <2>18, <2>19, <2>20 DEF
          MainStep
<1>3. CASE EventStep
  <2>1. CASE EventLoop
    BY <2>1 DEF EventLoop
  <2>2. CASE EventTimeout
    BY <2>2 DEF EventTimeout
  <2>3. CASE EventIdle
    BY <2>3 DEF EventIdle
  <2>4. CASE EventShutdown
    BY <2>4 DEF EventShutdown
  <2>. HIDE DEF PlacesOK
  <2>. QED
    BY <1>3, <2>1, <2>2, <2>3, <2>4 DEF EventStep
<1>4. CASE PlayStep
  <2>1. CASE PlayGone
    BY <2>1 DEF PlayGone
  <2>2. CASE PlayTest
    BY <2>2 DEF PlayTest
  <2>3. CASE PlaySleep
    BY <2>3 DEF PlaySleep
  <2>4. CASE PlayTake
    BY <2>4 DEF PlayTake
  <2>5. CASE PlayLoad
    BY <2>5 DEF PlayLoad
  <2>. HIDE DEF PlacesOK
  <2>. QED
    BY <1>4, <2>1, <2>2, <2>3, <2>4, <2>5 DEF PlayStep
<1>5. CASE Signal
  BY <1>5 DEF Signal
<1>6. CASE Mpv
  BY <1>6 DEF Mpv
<1>7. CASE Restart
  BY <1>7 DEF Restart
<1>8. CASE AcceptFails
  BY <1>8 DEF AcceptFails
<1>9. ASSUME NEW m \in Music, ClientAdd(m)
      PROVE  PlacesOK'
  <2>1. CASE ServersGone \/ handler = "assigning"
    BY <1>9, <2>1 DEF ClientAdd
  <2>2. CASE ~(ServersGone \/ handler = "assigning")
    <3>1. UNCHANGED <<main, handler, event, mpv, missed>>
      BY <1>9, <2>2 DEF ClientAdd
    <3>2. play' \in {"begin", play} /\ fault' \in {"undefined", fault}
      BY <1>9, <2>2 DEF ClientAdd
    <3>. QED
      BY <3>1, <3>2
  <2>. QED
    BY <2>1, <2>2
<1>. HIDE DEF PlacesOK
<1>. QED
  BY <1>1, <1>2, <1>3, <1>4, <1>5, <1>6, <1>7, <1>8, <1>9 DEF Next

\* Flags stay flags.
LEMMA FlagsKept ==
  ASSUME FlagsOK, [Next]_vars
  PROVE  FlagsOK'
<1>. USE DEF FlagsOK, fileVars, threadVars, mpvVars, musicVars, mainVars, Main,
             Goes, Ends, Changes, StopStarted, Woken, Events, Plays
<1>1. CASE UNCHANGED vars
  BY <1>1 DEF vars
<1>2. CASE MainStep
  <2>1. CASE Restore
    BY <2>1 DEF Restore
  <2>2. CASE Listen
    BY <2>2 DEF Listen
  <2>3. CASE ListenFails
    BY <2>3 DEF ListenFails
  <2>4. CASE SetHandler
    BY <2>4 DEF SetHandler
  <2>5. CASE Start
    BY <2>5 DEF Start
  <2>6. CASE Wait
    BY <2>6 DEF Wait
  <2>7. CASE Block
    BY <2>7 DEF Block
  <2>8. CASE Open
    BY <2>8 DEF Open
  <2>9. CASE SaveVolume
    BY <2>9 DEF SaveVolume
  <2>10. CASE SaveList
    BY <2>10 DEF SaveList
  <2>11. CASE SaveWrite
    BY <2>11 DEF SaveWrite
  <2>12. CASE Disconnect
    BY <2>12 DEF Disconnect
  <2>13. CASE StopPlayer
    BY <2>13 DEF StopPlayer
  <2>14. CASE SkipStop
    BY <2>14 DEF SkipStop
  <2>15. CASE StopNotify
    BY <2>15 DEF StopNotify
  <2>16. CASE Join
    BY <2>16 DEF Join
  <2>17. CASE TerminateMpv
    BY <2>17 DEF TerminateMpv
  <2>18. CASE DestroyMembers
    BY <2>18 DEF DestroyMembers
  <2>19. CASE Return
    BY <2>19 DEF Return
  <2>20. CASE LeaveServers
    BY <2>20 DEF LeaveServers
  <2>. HIDE DEF FlagsOK
  <2>. QED
    BY <1>2, <2>1, <2>2, <2>3, <2>4, <2>5, <2>6, <2>7, <2>8, <2>9, <2>10,
       <2>11, <2>12, <2>13, <2>14, <2>15, <2>16, <2>17, <2>18, <2>19, <2>20 DEF
          MainStep
<1>3. CASE EventStep
  <2>1. CASE EventLoop
    BY <2>1 DEF EventLoop
  <2>2. CASE EventTimeout
    BY <2>2 DEF EventTimeout
  <2>3. CASE EventIdle
    BY <2>3 DEF EventIdle
  <2>4. CASE EventShutdown
    BY <2>4 DEF EventShutdown
  <2>. HIDE DEF FlagsOK
  <2>. QED
    BY <1>3, <2>1, <2>2, <2>3, <2>4 DEF EventStep
<1>4. CASE PlayStep
  <2>1. CASE PlayGone
    BY <2>1 DEF PlayGone
  <2>2. CASE PlayTest
    BY <2>2 DEF PlayTest
  <2>3. CASE PlaySleep
    BY <2>3 DEF PlaySleep
  <2>4. CASE PlayTake
    BY <2>4 DEF PlayTake
  <2>5. CASE PlayLoad
    BY <2>5 DEF PlayLoad
  <2>. HIDE DEF FlagsOK
  <2>. QED
    BY <1>4, <2>1, <2>2, <2>3, <2>4, <2>5 DEF PlayStep
<1>5. CASE Signal
  BY <1>5 DEF Signal
<1>6. CASE Mpv
  BY <1>6 DEF Mpv
<1>7. CASE Restart
  BY <1>7 DEF Restart
<1>8. CASE AcceptFails
  BY <1>8 DEF AcceptFails
<1>9. ASSUME NEW m \in Music, ClientAdd(m)
      PROVE  FlagsOK'
  BY <1>9 DEF ClientAdd
<1>. HIDE DEF FlagsOK
<1>. QED
  BY <1>1, <1>2, <1>3, <1>4, <1>5, <1>6, <1>7, <1>8, <1>9 DEF Next

\* The types, together.
LEMMA TypeKept ==
  ASSUME TypeOK, [Next]_vars
  PROVE  TypeOK'
BY ListsKept, PlacesKept, FlagsKept DEF TypeOK

\* main() keeps the invariant until it has saved.
LEMMA UpKeepsInv ==
  ASSUME DaemonInv, TypeOK', Restore \/ Listen \/ ListenFails \/ SetHandler \/
     Start \/ Wait
         \/ Block \/ Open \/ SaveVolume \/ SaveList \/ SaveWrite
  PROVE  DaemonInv'
<1>. USE DaemonAssumption
         DEF DaemonInv, TypeOK, ListsOK, PlacesOK, StartInv, SleepInv,
             OrderInv, KeepInv, Restored, RestartKeepsPlaylist, Starting,
             Waiting, Saving, Leaving, Destroying, Destroyed, Unsaved, fileVars,
             threadVars, mpvVars, musicVars, mainVars, Alive, ServersGone, Main, Goes, Ends,
             Changes, Gone, StopStarted, Woken, Events, Plays
<1>1. CASE Restore
  <2>1. StartInv'
    BY <1>1 DEF Restore
  <2>2. SleepInv'
    BY <1>1 DEF Restore
  <2>3. OrderInv'
    BY <1>1 DEF Restore
  <2>4. KeepInv'
    BY <1>1 DEF Restore
  <2>. QED
    BY <2>1, <2>2, <2>3, <2>4
<1>2. CASE Listen
  BY <1>2 DEF Listen
<1>3. CASE ListenFails
  BY <1>3 DEF ListenFails
<1>4. CASE SetHandler
  BY <1>4 DEF SetHandler
<1>5. CASE Start
  BY <1>5 DEF Start
<1>6. CASE Wait
  BY <1>6 DEF Wait
<1>7. CASE Block
  <2>1. StartInv'
    BY <1>7 DEF Block
  <2>2. SleepInv'
    BY <1>7 DEF Block
  <2>3. OrderInv'
    BY <1>7 DEF Block
  <2>4. KeepInv'
    BY <1>7 DEF Block
  <2>. QED
    BY <2>1, <2>2, <2>3, <2>4
<1>8. CASE Open
  BY <1>8 DEF Open
<1>9. CASE SaveVolume
  <2>1. StartInv'
    BY <1>9 DEF SaveVolume
  <2>2. SleepInv'
    BY <1>9 DEF SaveVolume
  <2>3. OrderInv'
    BY <1>9 DEF SaveVolume
  <2>4. KeepInv'
    BY <1>9 DEF SaveVolume
  <2>. QED
    BY <2>1, <2>2, <2>3, <2>4
<1>10. CASE SaveList
  <2>1. StartInv'
    BY <1>10 DEF SaveList
  <2>2. SleepInv'
    BY <1>10 DEF SaveList
  <2>3. OrderInv'
    BY <1>10 DEF SaveList
  <2>4. KeepInv'
    BY <1>10 DEF SaveList
  <2>. QED
    BY <2>1, <2>2, <2>3, <2>4
<1>11. CASE SaveWrite
  <2>1. StartInv' /\ SleepInv' /\ OrderInv'
    BY <1>11 DEF SaveWrite
  <2>2. KeepInv'
    BY <1>11 DEF SaveWrite
  <2>. QED
    BY <2>1, <2>2
<1>. HIDE DEF DaemonInv
<1>. QED
  BY <1>1, <1>2, <1>3, <1>4, <1>5, <1>6, <1>7, <1>8, <1>9, <1>10, <1>11

\* So does the destruction.
LEMMA DownKeepsInv ==
  ASSUME DaemonInv, TypeOK', Disconnect \/ LeaveServers \/ StopPlayer
         \/ SkipStop \/ StopNotify \/ Join
         \/ TerminateMpv \/ DestroyMembers \/ Return
  PROVE  DaemonInv'
<1>. USE DaemonAssumption
         DEF DaemonInv, TypeOK, ListsOK, PlacesOK, StartInv, SleepInv,
             OrderInv, KeepInv, Restored, RestartKeepsPlaylist, Starting,
             Waiting, Saving, Leaving, Destroying, Destroyed, Unsaved, fileVars,
             threadVars, mpvVars, musicVars, mainVars, Alive, ServersGone, Main, Goes, Ends,
             Changes, Gone, StopStarted, Woken, Events, Plays
<1>1. CASE Disconnect
  BY <1>1 DEF Disconnect
<1>2. CASE StopPlayer
  <2>1. StartInv'
    BY <1>2 DEF StopPlayer
  <2>2. SleepInv'
    BY <1>2 DEF StopPlayer
  <2>3. OrderInv'
    BY <1>2 DEF StopPlayer
  <2>4. KeepInv'
    BY <1>2 DEF StopPlayer
  <2>. QED
    BY <2>1, <2>2, <2>3, <2>4
<1>3. CASE SkipStop
  BY <1>3 DEF SkipStop
<1>4. CASE StopNotify
  BY <1>4 DEF StopNotify
<1>5. CASE Join
  BY <1>5 DEF Join
<1>6. CASE TerminateMpv
  BY <1>6 DEF TerminateMpv
<1>7. CASE DestroyMembers
  <2>1. StartInv'
    BY <1>7 DEF DestroyMembers
  <2>2. SleepInv'
    BY <1>7 DEF DestroyMembers
  <2>3. OrderInv'
    BY <1>7 DEF DestroyMembers
  <2>4. KeepInv'
    BY <1>7 DEF DestroyMembers
  <2>. QED
    BY <2>1, <2>2, <2>3, <2>4
<1>8. CASE Return
  BY <1>8 DEF Return
<1>9. CASE LeaveServers
  BY <1>9 DEF LeaveServers
<1>. HIDE DEF DaemonInv
<1>. QED
  BY <1>1, <1>2, <1>3, <1>4, <1>5, <1>6, <1>7, <1>8, <1>9

\* So does the event thread.
LEMMA EventKeepsInv ==
  ASSUME DaemonInv, TypeOK', EventStep
  PROVE  DaemonInv'
<1>. USE DaemonAssumption
         DEF DaemonInv, TypeOK, ListsOK, PlacesOK, StartInv, SleepInv,
             OrderInv, KeepInv, Restored, RestartKeepsPlaylist, Starting,
             Waiting, Saving, Leaving, Destroying, Destroyed, Unsaved, fileVars,
             threadVars, mpvVars, musicVars, mainVars, Alive, ServersGone, Main, Goes, Ends,
             Changes, Gone, StopStarted, Woken, Events, Plays
<1>1. CASE EventLoop
  BY <1>1 DEF EventLoop
<1>2. CASE EventTimeout
  BY <1>2 DEF EventTimeout
<1>3. CASE EventIdle
  <2>1. StartInv'
    BY <1>3 DEF EventIdle
  <2>2. SleepInv'
    BY <1>3 DEF EventIdle
  <2>3. OrderInv'
    BY <1>3 DEF EventIdle
  <2>4. KeepInv'
    BY <1>3 DEF EventIdle
  <2>. QED
    BY <2>1, <2>2, <2>3, <2>4
<1>4. CASE EventShutdown
  <2>1. StartInv'
    BY <1>4 DEF EventShutdown
  <2>2. SleepInv'
    BY <1>4 DEF EventShutdown
  <2>3. OrderInv'
    BY <1>4 DEF EventShutdown
  <2>4. KeepInv'
    BY <1>4 DEF EventShutdown
  <2>. QED
    BY <2>1, <2>2, <2>3, <2>4
<1>. HIDE DEF DaemonInv
<1>. QED
  BY <1>1, <1>2, <1>3, <1>4 DEF EventStep

\* So does the playlist thread.
LEMMA PlayKeepsInv ==
  ASSUME DaemonInv, TypeOK', PlayStep
  PROVE  DaemonInv'
<1>. USE DaemonAssumption
         DEF DaemonInv, TypeOK, ListsOK, PlacesOK, StartInv, SleepInv,
             OrderInv, KeepInv, Restored, RestartKeepsPlaylist, Starting,
             Waiting, Saving, Leaving, Destroying, Destroyed, Unsaved, fileVars,
             threadVars, mpvVars, musicVars, mainVars, Alive, ServersGone, Main, Goes, Ends,
             Changes, Gone, StopStarted, Woken, Events, Plays
<1>1. CASE PlayGone
  BY <1>1 DEF PlayGone
<1>2. CASE PlayTest
  BY <1>2 DEF PlayTest
<1>3. CASE PlaySleep
  <2>1. StartInv'
    BY <1>3 DEF PlaySleep
  <2>2. SleepInv'
    BY <1>3 DEF PlaySleep
  <2>3. OrderInv'
    BY <1>3 DEF PlaySleep
  <2>4. KeepInv'
    BY <1>3 DEF PlaySleep
  <2>. QED
    BY <2>1, <2>2, <2>3, <2>4
<1>4. CASE PlayTake
  <2>1. StartInv'
    BY <1>4 DEF PlayTake
  <2>2. SleepInv'
    BY <1>4 DEF PlayTake
  <2>3. OrderInv'
    BY <1>4 DEF PlayTake
  <2>4. KeepInv'
    BY <1>4 DEF PlayTake
  <2>. QED
    BY <2>1, <2>2, <2>3, <2>4
<1>5. CASE PlayLoad
  <2>1. StartInv'
    BY <1>5 DEF PlayLoad
  <2>2. SleepInv'
    BY <1>5 DEF PlayLoad
  <2>3. OrderInv'
    BY <1>5 DEF PlayLoad
  <2>4. KeepInv'
    BY <1>5 DEF PlayLoad
  <2>. QED
    BY <2>1, <2>2, <2>3, <2>4
<1>. HIDE DEF DaemonInv
<1>. QED
  BY <1>1, <1>2, <1>3, <1>4, <1>5 DEF PlayStep

\* So do signals, mpv and the next process.
LEMMA OthersKeepInv ==
  ASSUME DaemonInv, TypeOK', Signal \/ Mpv \/ AcceptFails \/ Restart
  PROVE  DaemonInv'
<1>. USE DaemonAssumption
         DEF DaemonInv, TypeOK, ListsOK, PlacesOK, StartInv, SleepInv,
             OrderInv, KeepInv, Restored, RestartKeepsPlaylist, Starting,
             Waiting, Saving, Leaving, Destroying, Destroyed, Unsaved, fileVars,
             threadVars, mpvVars, musicVars, mainVars, Alive, ServersGone, Main, Goes, Ends,
             Changes, Gone, StopStarted, Woken, Events, Plays
<1>1. CASE Signal
  BY <1>1 DEF Signal
<1>2. CASE Mpv
  <2>1. StartInv'
    BY <1>2 DEF Mpv
  <2>2. SleepInv'
    BY <1>2 DEF Mpv
  <2>3. OrderInv'
    BY <1>2 DEF Mpv
  <2>4. KeepInv'
    BY <1>2 DEF Mpv
  <2>. QED
    BY <2>1, <2>2, <2>3, <2>4
<1>3. CASE Restart
  <2>1. StartInv'
    BY <1>3 DEF Restart
  <2>2. SleepInv'
    BY <1>3 DEF Restart
  <2>3. OrderInv'
    BY <1>3 DEF Restart
  <2>4. KeepInv'
    BY <1>3 DEF Restart
  <2>. QED
    BY <2>1, <2>2, <2>3, <2>4
<1>4. CASE AcceptFails
  BY <1>4 DEF AcceptFails
<1>. HIDE DEF DaemonInv
<1>. QED
  BY <1>1, <1>2, <1>3, <1>4

\* So do clients.
LEMMA ClientKeepsInv ==
  ASSUME DaemonInv, TypeOK', NEW m \in Music, ClientAdd(m)
  PROVE  DaemonInv'
<1>. USE DaemonAssumption
         DEF DaemonInv, TypeOK, ListsOK, PlacesOK, StartInv, SleepInv,
             OrderInv, KeepInv, Restored, RestartKeepsPlaylist, Starting,
             Waiting, Saving, Leaving, Destroying, Destroyed, Unsaved, fileVars,
             threadVars, mpvVars, musicVars, mainVars, Alive, ServersGone, Ends, Changes,
             Gone, Woken, ClientAdd
<1>1. CASE ServersGone \/ handler = "assigning"
  BY <1>1
<1>2. CASE ~(ServersGone \/ handler = "assigning")
  <2>1. StartInv'
    BY <1>2
  <2>2. SleepInv'
    BY <1>2
  <2>3. OrderInv'
    BY <1>2
  <2>4. KeepInv'
    BY <1>2
  <2>. QED
    BY <2>1, <2>2, <2>3, <2>4
<1>. QED
  BY <1>1, <1>2

\* The invariant of the daemon, over any number of processes and crashes.
LEMMA DaemonIsInOrder == Spec => []DaemonInv
<1>1. Init => DaemonInv
  BY InitInv
<1>2. DaemonInv /\ [Next]_vars => DaemonInv'
  <2>. SUFFICES ASSUME DaemonInv, [Next]_vars
                PROVE  DaemonInv'
    OBVIOUS
  <2>. TypeOK'
    BY TypeKept DEF DaemonInv
  <2>1. CASE UNCHANGED vars
    BY <2>1
       DEF DaemonInv, TypeOK, StartInv, SleepInv, OrderInv, KeepInv, Restored,
           RestartKeepsPlaylist, ServersGone, vars, fileVars, threadVars, mpvVars,
           musicVars, mainVars
  <2>2. CASE MainStep
    BY <2>2, UpKeepsInv, DownKeepsInv DEF MainStep
  <2>3. CASE EventStep
    BY <2>3, EventKeepsInv
  <2>4. CASE PlayStep
    BY <2>4, PlayKeepsInv
  <2>5. CASE Signal \/ Mpv \/ AcceptFails \/ Restart
    BY <2>5, OthersKeepInv
  <2>6. ASSUME NEW m \in Music, ClientAdd(m)
        PROVE  DaemonInv'
    BY <2>6, ClientKeepsInv
  <2>. QED
    BY <2>1, <2>2, <2>3, <2>4, <2>5, <2>6 DEF Next
<1>. QED
  BY <1>1, <1>2, PTL DEF Spec

\* Every variable of the daemon keeps its type: no process takes a file that was
\* not written whole for a playlist.
THEOREM DaemonTypeCorrect == Spec => []TypeOK
<1>1. DaemonInv => TypeOK
  BY DEF DaemonInv
<1>. QED
  BY <1>1, DaemonIsInOrder, PTL

\* main() and the playlist thread sleep on only if the signal, or stop(), came
\* between their predicate and their wait.
THEOREM SleepersAreExplained == Spec => []SleepersWereMissed
<1>1. DaemonInv => SleepersWereMissed
  BY DEF DaemonInv, SleepInv, SleepersWereMissed
<1>. QED
  BY <1>1, DaemonIsInOrder, PTL

\* mpv is destroyed when the event thread has been joined; only an mpv that quits
\* by itself has the process terminated with its archives open, and no exit() of
\* connect() or accept() cuts the destruction of the player.
THEOREM EndsInOrder == Spec => []DestroyedInOrder
<1>1. DaemonInv => DestroyedInOrder
  BY DEF DaemonInv, OrderInv, DestroyedInOrder
<1>. QED
  BY <1>1, DaemonIsInOrder, PTL

\* The next process starts with the playlist the last one left, when nobody
\* changed it after it was saved or restored: whether that process returned, was
\* ended by an exit() or by std::terminate, or crashed, unless it was cut while it
\* was saving.
THEOREM PlaylistSurvivesRestart == Spec => []RestartKeepsPlaylist
<1>1. DaemonInv => RestartKeepsPlaylist
  BY DEF DaemonInv, KeepInv
<1>. QED
  BY <1>1, DaemonIsInOrder, PTL
=============================================================================
