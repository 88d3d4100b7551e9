------------------------------- MODULE Daemon -------------------------------
(***************************************************************************)
(* The life of the daemon: main() of src/main.cpp from the restoring of    *)
(* the saved playlist to the destruction of the player, the threads that   *)
(* live and die with the player (src/player.cpp), the signal that stops    *)
(* it, and the next process, which finds what the last one has written.    *)
(*                                                                         *)
(* What the player does with its playlist in between is in Player, the     *)
(* servers, with the shutdown of each, are in Server, volume and pause of  *)
(* the saved state in Controls, and the destruction of the archive in      *)
(* Archive.  Here a push and its notification are one step, and one        *)
(* playlist thread stands for all: _playMutex lets no second one in.       *)
(***************************************************************************)
EXTENDS Naturals, SequencesExt

CONSTANTS
  Music,   \* musics
  Torn,    \* a saved state that was emptied and not written
  MaxLen   \* bound of the model: clients add while the playlist is shorter

ASSUME DaemonAssumption == MaxLen \in Nat /\ Torn \notin Seq(Music)

VARIABLES
  main,      \* the statement main() is at
  signalled, \* signalReceived
  saved,     \* what the file holds
  draft,     \* the text operator<< has built
  playlist,  \* _playlist
  handler,   \* _evtFn: "none", "assigning" or "set"
  started,   \* _started
  event,     \* the event thread, _mpvEventThread
  play,      \* the detached playlist thread
  mpv,       \* what mpv is doing: it is external
  idle,      \* an IDLE event waits to be taken
  fault,     \* how the process ended, if main() did not return
  missed,    \* history: threads that were between predicate and wait when the
             \* condition they wait for became true
  dirty,     \* history: the playlist is not the one the next process will find
  before     \* history: the playlist the last process had, if the file has it

fileVars   == <<saved, draft>>
threadVars == <<started, event, play, missed>>
mpvVars    == <<mpv, idle>>
musicVars  == <<playlist, dirty>>
mainVars   == <<main, signalled, fileVars, handler, before>>
vars       == <<mainVars, musicVars, threadVars, mpvVars, fault>>

Starting    == {"restore", "listen", "handler", "assign", "start"}
Waiting     == {"wait", "tested", "asleep"}
Saving      == {"open", "volume", "list", "write"}
Leaving     == {"disconnect", "servers"}
Destroying  == {"destroy", "notify", "join", "terminate", "members"}
Destroyed   == {"archive", "returned"}

ListsOK ==
  /\ {saved, before} \subseteq Seq(Music) \cup {Torn}
  /\ {draft, playlist} \subseteq Seq(Music)

PlacesOK ==
  /\ main \in Starting \cup Waiting \cup Saving \cup Leaving \cup Destroying
                \cup Destroyed
  /\ handler \in {"none", "assigning", "set"}
  /\ event \in {"none", "loop", "waiting", "stopping", "done", "joined"}
  /\ play \in {"none", "begin", "tested", "asleep", "load"}
  /\ mpv \in {"idle", "playing", "quit", "destroyed"}
  /\ fault \in {"none", "exited", "terminated", "undefined"}
  /\ missed \subseteq {"main", "play"}

FlagsOK == {signalled, started, idle, dirty} \subseteq BOOLEAN

TypeOK == ListsOK /\ PlacesOK /\ FlagsOK

Init ==
  /\ main = "restore"
  /\ signalled = FALSE
  /\ saved \in {Torn, <<>>} \cup {<<m>> : m \in Music}
  /\ draft = <<>>
  /\ playlist = <<>>
  /\ handler = "none"
  /\ started = FALSE
  /\ event = "none"
  /\ play = "none"
  /\ mpv = "idle"
  /\ idle = TRUE
  /\ fault = "none"
  /\ missed = {}
  /\ dirty = FALSE
  /\ before = Torn

-----------------------------------------------------------------------------
(* Helpers. *)

Alive == fault = "none"

\* main() goes from one statement to the next.
Main(from, to) == Alive /\ main = from /\ main' = to

\* And does nothing else.
Goes(from, to) ==
  /\ Main(from, to)
  /\ UNCHANGED <<signalled, fileVars, handler, before, musicVars, threadVars,
                 mpvVars, fault>>

Ends(how) ==
  /\ fault' = how
  /\ UNCHANGED <<mainVars, musicVars, threadVars, mpvVars>>

\* The playlist changes; operator<< walks it without _mutex, which is a race.
Changes(list) ==
  /\ playlist' = list
  /\ dirty' = TRUE
  /\ fault' = IF main = "list" THEN "undefined" ELSE fault

\* The servers, which the event handler uses, are gone.
ServersGone == main \in Destroying \cup Destroyed

\* The player's members are gone, too.
Gone == main \in Destroyed

\* stop(), first half: without _mutex, so that a thread may be between the
\* predicate and the wait.
StopStarted ==
  /\ started' = FALSE
  /\ missed' = IF play = "tested" THEN missed \cup {"play"} ELSE missed

\* A notification wakes the playlist thread when it sleeps.
Woken == IF play = "asleep" THEN "begin" ELSE play

-----------------------------------------------------------------------------
(* main(), up to the wait.                                                 *)

\* Variant: a file that is not whole is taken for a playlist.
RestoreUnchecked ==
  /\ Main("restore", "listen")
  /\ playlist' = saved
  /\ UNCHANGED <<signalled, fileVars, handler, before, dirty, threadVars, mpvVars,
                 fault>>

\* Variant: the file is emptied as soon as it is open.
RestoreEmptying ==
  /\ Main("restore", "listen")
  /\ playlist' = IF saved = Torn THEN <<>> ELSE saved
  /\ saved' = Torn
  /\ UNCHANGED <<signalled, draft, handler, before, dirty, threadVars, mpvVars,
                 fault>>

\* A file that is not there or not whole restores nothing, and so does one that is
\* read when mpv has quit: setting the volume throws.
Restore ==
  /\ Main("restore", "listen")
  /\ playlist' = IF saved = Torn \/ mpv = "quit" THEN <<>> ELSE saved
  /\ dirty' = (mpv = "quit")
  /\ UNCHANGED <<signalled, fileVars, handler, before, threadVars, mpvVars, fault>>

\* connect() and asyncAcceptLoop() of both servers: clients come from now on.
Listen == Goes("listen", "handler")

\* Or the port is in use: exit() in connect(), which destroys nothing of main().
ListenFails == Alive /\ main = "listen" /\ Ends("exited")

\* setEventHandler assigns a function that the threads of clients may be calling.
SetHandler ==
  /\ \/ Main("handler", "assign") /\ handler' = "assigning"
     \/ Main("assign", "start") /\ handler' = "set"
  /\ UNCHANGED <<signalled, fileVars, before, musicVars, threadVars, mpvVars,
                 fault>>

\* Player::start.
Start ==
  /\ Main("start", "wait")
  /\ started' = TRUE
  /\ event' = "loop"
  /\ UNCHANGED <<signalled, fileVars, handler, before, musicVars, play, missed,
                 mpvVars, fault>>

-----------------------------------------------------------------------------
(* The wait for the signal.                                                *)

\* The predicate of cv.wait, ...
Wait == Goes("wait", IF signalled THEN "open" ELSE "tested")

\* ... the sleep, and its end without a notification.
Block == Goes("tested", "asleep") \/ Goes("asleep", "wait")

\* The handler of SIGINT and SIGTERM: the flag, and a notification.
Signal ==
  /\ Alive
  /\ signalled' = TRUE
  /\ main' = IF main = "asleep" THEN "wait" ELSE main
  /\ missed' = IF main = "tested" THEN missed \cup {"main"} ELSE missed \ {"main"}
  /\ UNCHANGED <<fileVars, handler, before, musicVars, started, event, play,
                 mpvVars, fault>>

-----------------------------------------------------------------------------
(* The saving.                                                             *)

\* The std::ofstream empties the file.
Open ==
  /\ Main("open", "volume")
  /\ saved' = Torn
  /\ UNCHANGED <<signalled, draft, handler, before, musicVars, threadVars, mpvVars,
                 fault>>

\* operator<< asks mpv for the volume first.  When mpv has quit that throws, the
\* file stays empty and the block of main() is left: nothing is disconnected.
SaveVolume ==
  /\ Main("volume", IF mpv = "quit" THEN "servers" ELSE "list")
  /\ dirty' = (mpv = "quit" \/ dirty)
  /\ UNCHANGED <<signalled, fileVars, handler, before, playlist, threadVars,
                 mpvVars, fault>>

\* Then it walks the playlist, ...
SaveList ==
  /\ Main("list", "write")
  /\ draft' = playlist
  /\ dirty' = FALSE
  /\ UNCHANGED <<signalled, saved, handler, before, playlist, threadVars, mpvVars,
                 fault>>

\* ... and the text is written when the stream is destroyed.
SaveWrite ==
  /\ Main("write", "disconnect")
  /\ saved' = draft
  /\ draft' = <<>>
  /\ UNCHANGED <<signalled, handler, before, musicVars, threadVars, mpvVars, fault>>

-----------------------------------------------------------------------------
(* The destruction.                                                        *)

\* The descriptors are closed; the threads of clients are not waited for.  That
\* _clientListMutex is free some day is in Server.
Disconnect == Goes("disconnect", "servers")

\* ~Server, twice, waits for the accept thread, which sees the signal; that it
\* does is in Server, too.
LeaveServers == Goes("servers", "destroy")

\* ~Player of a player that was started and has not been stopped since, ...
StopPlayer ==
  /\ started
  /\ Main("destroy", "notify")
  /\ StopStarted
  /\ UNCHANGED <<signalled, fileVars, handler, before, musicVars, event, play,
                 mpvVars, fault>>

\* ... and of another one, which does nothing.
SkipStop == ~started /\ Goes("destroy", "members")

\* Variant: stop() notifies nobody.
StopSilently == Goes("notify", "join")

\* stop(), second half.
StopNotify ==
  /\ Main("notify", "join")
  /\ play' = Woken
  /\ UNCHANGED <<signalled, fileVars, handler, before, musicVars, started, event,
                 missed, mpvVars, fault>>

\* Variant: the event thread is not waited for.
JoinLater == Goes("join", "terminate")

Join ==
  /\ Main("join", "terminate")
  /\ event = "done" /\ event' = "joined"
  /\ UNCHANGED <<signalled, fileVars, handler, before, musicVars, started, play,
                 missed, mpvVars, fault>>

TerminateMpv ==
  /\ Main("terminate", "members")
  /\ mpv' = "destroyed"
  /\ UNCHANGED <<signalled, fileVars, handler, before, musicVars, threadVars, idle,
                 fault>>

\* The members.  The destructor of a thread that can still be joined terminates
\* the process; that of a condition variable a thread sleeps on is undefined.
DestroyMembers ==
  IF event = "joined" /\ play # "asleep"
  THEN Goes("members", "archive")
  ELSE /\ Alive /\ main = "members"
       /\ Ends(IF event = "joined" THEN "undefined" ELSE "terminated")

\* ~Archive, ~ArchiveMgr and the end.
Return == Goes("archive", "returned")

-----------------------------------------------------------------------------
(* The event thread.                                                       *)

\* It goes from one step to the next, if it is alive.
Events(from, to) ==
  /\ Alive
  /\ event = from /\ event' = to
  /\ UNCHANGED <<mainVars, musicVars, mpv, fault>>

EventLoop ==
  /\ Events("loop", IF started THEN "waiting" ELSE "done")
  /\ UNCHANGED <<started, play, missed, idle>>

\* Variant: mpv_wait_event waits without a limit.
EventNever == FALSE /\ UNCHANGED vars

\* mpv_wait_event returns after a second, with an event that is ignored or none.
EventTimeout ==
  /\ Events("waiting", "loop")
  /\ UNCHANGED <<started, play, missed, idle>>

\* asyncPlayNext: a playlist thread, unless there is one.
EventIdle ==
  /\ idle /\ idle' = FALSE
  /\ Events("waiting", "loop")
  /\ play' = IF play = "none" THEN "begin" ELSE play
  /\ UNCHANGED <<started, missed>>

\* mpv has quit: stop() in this thread.
EventShutdown ==
  \/ /\ mpv = "quit"
     /\ Events("waiting", "stopping")
     /\ StopStarted
     /\ UNCHANGED <<play, idle>>
  \/ /\ Events("stopping", "loop")
     /\ play' = Woken
     /\ UNCHANGED <<started, missed, idle>>

-----------------------------------------------------------------------------
(* The playlist thread.                                                    *)

\* A step of the thread after the player was destroyed.
PlayGone == Alive /\ Gone /\ play # "none" /\ Ends("undefined")

\* It goes from one step to the next.
Plays(from, to) ==
  /\ Alive /\ ~Gone
  /\ play = from /\ play' = to
  /\ UNCHANGED <<mainVars, started, event, missed, idle>>

\* The predicate of _cv.wait, ...
PlayTest ==
  /\ playlist = <<>> /\ started
  /\ Plays("begin", "tested")
  /\ UNCHANGED <<musicVars, mpv, fault>>

\* ... the sleep, and its end without a notification, ...
PlaySleep ==
  /\ Plays("tested", "asleep") \/ Plays("asleep", "begin")
  /\ UNCHANGED <<musicVars, mpv, fault>>

\* ... and what follows: the player was stopped, or the front is taken.
PlayTake ==
  \/ /\ ~started
     /\ Plays("begin", "none")
     /\ UNCHANGED <<musicVars, mpv, fault>>
  \/ /\ started /\ playlist # <<>>
     /\ Plays("begin", "load")
     /\ Changes(Tail(playlist))
     /\ UNCHANGED mpv

\* The event, which needs the servers, and loadfile, which mpv refuses when it has
\* quit: the exception leaves the thread.
PlayLoad ==
  \/ /\ ~ServersGone /\ mpv # "quit"
     /\ Plays("load", "none")
     /\ mpv' = "playing"
     /\ UNCHANGED <<musicVars, fault>>
  \/ /\ ServersGone \/ mpv = "quit"
     /\ Alive /\ ~Gone /\ play = "load"
     /\ Ends(IF ServersGone THEN "undefined" ELSE "terminated")

-----------------------------------------------------------------------------
(* The others.                                                             *)

\* add by a client, whose thread outlives the servers: its event is for them.
ClientAdd(m) ==
  /\ Alive
  /\ main \in {"handler", "assign", "start"} \/ event # "none"
  /\ play # "tested"
  /\ Len(playlist) < MaxLen
  /\ IF ServersGone \/ handler = "assigning"
     THEN Ends("undefined")
     ELSE /\ Changes(Append(playlist, m))
          /\ play' = Woken
          /\ UNCHANGED <<mainVars, started, event, missed, mpvVars>>

\* The end of a music, and of mpv, by itself.
Mpv ==
  /\ Alive
  /\ \/ mpv = "playing" /\ mpv' = "idle" /\ idle' = TRUE
     \/ mpv \in {"idle", "playing"} /\ mpv' = "quit" /\ UNCHANGED idle
  /\ UNCHANGED <<mainVars, musicVars, threadVars, fault>>

\* ::accept() fails in the accept thread, because of a closed socket or for want
\* of descriptors: exit(), which also destroys the condition variable of main().
AcceptFails ==
  /\ Alive
  /\ main \in {"handler", "assign", "start"} \cup Waiting \cup Saving \cup Leaving
  /\ Ends(IF main = "asleep" THEN "undefined" ELSE "exited")

\* The next process, after an end of any kind, or a crash.
Restart ==
  /\ main # "restore"
  /\ main' = "restore"
  /\ before' = IF dirty \/ fault = "undefined" \/ main \in {"volume", "list", "write"}
               THEN Torn ELSE playlist
  /\ signalled' = FALSE /\ draft' = <<>> /\ playlist' = <<>>
  /\ handler' = "none" /\ started' = FALSE
  /\ event' = "none" /\ play' = "none"
  /\ mpv' = "idle" /\ idle' = TRUE
  /\ fault' = "none" /\ missed' = {} /\ dirty' = FALSE
  /\ UNCHANGED saved

-----------------------------------------------------------------------------
MainStep ==
  \/ Restore \/ Listen \/ ListenFails \/ SetHandler \/ Start \/ Wait \/ Block
  \/ Open \/ SaveVolume \/ SaveList \/ SaveWrite
  \/ Disconnect \/ LeaveServers \/ StopPlayer \/ SkipStop \/ StopNotify \/ Join
  \/ TerminateMpv \/ DestroyMembers \/ Return

EventStep == EventLoop \/ EventTimeout \/ EventIdle \/ EventShutdown

PlayStep == PlayGone \/ PlayTest \/ PlaySleep \/ PlayTake \/ PlayLoad

Next ==
  \/ MainStep \/ EventStep \/ PlayStep
  \/ Signal \/ Mpv \/ AcceptFails \/ Restart
  \/ \E m \in Music : ClientAdd(m)

Spec == Init /\ [][Next]_vars

\* The threads of the process are scheduled, and mpv_wait_event returns.  That
\* disconnect() gets _clientListMutex, and ~Server the end of the accept thread,
\* is taken from Server, where ShutdownEnds says so.
FairSpec == Spec /\ WF_vars(MainStep) /\ WF_vars(EventStep)

-----------------------------------------------------------------------------
(* Properties.                                                             *)

\* Who sleeps although what it waits for has come was between its predicate and
\* its wait when it came: neither the signal nor stop() holds the mutex of the
\* wait.  The others were woken.
SleepersWereMissed ==
  Alive =>
    /\ main = "asleep" /\ signalled => "main" \in missed
    /\ play = "asleep" /\ ~started /\ main # "notify" /\ event # "stopping"
         => "play" \in missed

\* mpv is destroyed when no thread waits for its events any more.  The process
\* ends with its archives open in two ways: it is terminated, only because mpv
\* has quit by itself; or connect() or accept() calls exit(), which never comes
\* while the player is being destroyed (main.cpp; player.cpp: ~Player;
\* server.cpp: ~Server).
DestroyedInOrder ==
  /\ mpv = "destroyed" => event = "joined"
  /\ fault = "terminated" => mpv = "quit"
  /\ fault = "exited" => ~ServersGone

\* However a process ended, by its return, an exit(), std::terminate or a crash,
\* the next one starts with its playlist, as it was when nobody had changed it
\* since it was saved, or restored; unless it was cut between the emptying and
\* the writing of the file (main.cpp; player.cpp: operator<<, operator>>).
RestartKeepsPlaylist ==
  main = "listen" /\ before # Torn /\ mpv # "quit" => playlist = before

\* Once main() was woken by a signal the daemon ends.
DaemonEnds ==
  main = "open" ~> main \in {"returned", "restore"} \/ fault # "none"
=============================================================================
