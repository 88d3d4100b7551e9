------------------------------ MODULE Controls ------------------------------
(***************************************************************************)
(* The controls of the player: pause and volume in src/player.cpp, the     *)
(* announcements of src/cmdparserbase.hpp that pause the music, and what   *)
(* main.cpp saves of them and restores.                                    *)
(*                                                                         *)
(* mpv is external.  It has the properties "pause" and "volume"; a get is  *)
(* answered at once, a set is asynchronous: mpv queues it and applies the  *)
(* sets in order, later.  The player keeps a copy of "pause", _pause,      *)
(* which it tests in setPause and saves, while togglePause asks mpv.       *)
(*                                                                         *)
(* Grain of atomicity: no lock is held from one statement to the next, so  *)
(* each get, set, access to _pause and event is a step of its own.         *)
(***************************************************************************)
EXTENDS Integers, FiniteSets, SequencesExt

CONSTANTS
  Clients,        \* client threads
  Main,           \* the main thread, which restores and saves
  Increments,     \* the increments clients add to the volume
  DefaultVolume,  \* the volume mpv starts with, 100
  MaxVolume,      \* 150
  MaxRequests     \* bound of the model: clients issue a command while mpv
                  \* has fewer sets than that to apply

Threads == Clients \cup {Main}
Volumes == 0..MaxVolume

ASSUME ControlsAssumption ==
  /\ Main \notin Clients
  /\ Increments \subseteq Int
  /\ MaxVolume \in Nat
  /\ DefaultVolume \in Volumes
  /\ MaxRequests \in Nat

VARIABLES
  paused,    \* "pause" in mpv
  volume,    \* "volume" in mpv
  requests,  \* the sets mpv has not applied yet
  flag,      \* _pause
  pc,        \* the statement each thread is at
  state,     \* pauseState of togglePause and setPause
  vol,       \* vol of incrVolume
  mustPause, \* mustPause of speak(), in each client
  then,      \* where a thread goes on after togglePause or incrVolume
  heard,     \* the last pause state and volume sent to clients, {} before that
  saved,     \* the state file: NoState when it holds no whole state
  draft,     \* the volume operator<< has read
  untouched, \* history: no client has issued a command since the restart
  crossed,   \* history: pause commands overlapped since one was alone
  vcrossed,  \* history: volume commands overlapped since one was alone
  intact     \* history: nobody disturbed the announcement of the client

mpvVars   == <<paused, volume, requests>>
localVars == <<pc, state, vol, mustPause, then>>
fileVars  == <<saved, draft>>
ghosts    == <<untouched, crossed, vcrossed, intact>>
vars      == <<mpvVars, flag, localVars, heard, fileVars, ghosts>>

NoState == [volume |-> -1, paused |-> FALSE]
States  == [volume : Volumes, paused : BOOLEAN]

PauseLabels  == {"toggle", "set", "store", "send"}
VolumeLabels == {"vset", "vsend"}
ClientLabels == PauseLabels \cup VolumeLabels \cup {"idle", "child"}
MainLabels   == PauseLabels \cup VolumeLabels \cup
  {"restore", "restorePause", "serve", "saveVolume", "savePause", "saved"}

PauseSets  == [property : {"pause"}, value : BOOLEAN]
VolumeSets == [property : {"volume"}, value : Volumes]

MpvTypes ==
  /\ paused \in BOOLEAN
  /\ volume \in Volumes
  /\ requests \in Seq(PauseSets \cup VolumeSets)

LocalTypes ==
  /\ pc \in [Threads -> ClientLabels \cup MainLabels]
  /\ state \in [Threads -> BOOLEAN]
  /\ vol \in [Threads -> Volumes]
  /\ mustPause \in [Clients -> BOOLEAN]
  /\ then \in [Threads -> {"idle", "child", "restorePause", "serve"}]

PlayerTypes ==
  /\ flag \in BOOLEAN
  /\ heard \in [paused : SUBSET BOOLEAN, volume : SUBSET Volumes]
  /\ saved \in States \cup {NoState}
  /\ draft \in Volumes
  /\ untouched \in BOOLEAN
  /\ crossed \in BOOLEAN
  /\ vcrossed \in BOOLEAN
  /\ intact \in [Clients -> BOOLEAN]

TypeOK == MpvTypes /\ LocalTypes /\ PlayerTypes

\* A process that starts: mpv is new, nobody is connected.
Started ==
  /\ paused = FALSE
  /\ volume = DefaultVolume
  /\ requests = <<>>
  /\ flag = FALSE
  /\ pc = [t \in Threads |-> IF t = Main THEN "restore" ELSE "idle"]
  /\ state = [t \in Threads |-> FALSE]
  /\ vol = [t \in Threads |-> DefaultVolume]
  /\ mustPause = [c \in Clients |-> FALSE]
  /\ then = [t \in Threads |-> "idle"]
  /\ heard = [paused |-> {}, volume |-> {}]
  /\ draft = DefaultVolume
  /\ untouched = TRUE
  /\ crossed = FALSE
  /\ vcrossed = FALSE
  /\ intact = [c \in Clients |-> FALSE]

Init == Started /\ saved \in States \cup {NoState}

-----------------------------------------------------------------------------
(* Helpers. *)

Goto(t, label) == pc' = [pc EXCEPT ![t] = label]

\* The end of a command or of a function: its locals are gone.
Return(t) ==
  /\ Goto(t, then[t])
  /\ state' = [state EXCEPT ![t] = FALSE]
  /\ vol' = [vol EXCEPT ![t] = DefaultVolume]
  /\ then' = [then EXCEPT ![t] = "idle"]

\* The sets of a property that mpv has not applied yet.
Pending(p) == {i \in DOMAIN requests : requests[i].property = p}

\* What a property will be once mpv has applied all sets.
Settled(p, now) ==
  IF Pending(p) = {} THEN now ELSE requests[Max(Pending(p))].value

SettledPause  == Settled("pause", paused)
SettledVolume == Settled("volume", volume)

\* Variant: the volume is not clamped from above.
ClampBelow(v) == IF v < 0 THEN 0 ELSE v

Clamp(v) == IF v < 0 THEN 0 ELSE IF v > MaxVolume THEN MaxVolume ELSE v

InPause(t)  == pc[t] \in PauseLabels
InVolume(t) == pc[t] \in VolumeLabels

\* Another thread is in togglePause or setPause.
PauseBusy(t) == \E u \in Threads \ {t} : InPause(u)

\* The client may issue a command.
Ready(c) ==
  /\ pc[Main] \in {"serve", "saveVolume", "savePause", "saved"}
  /\ pc[c] = "idle"
  /\ Len(requests) < MaxRequests

-----------------------------------------------------------------------------
(* Pause.                                                                  *)

\* pause without argument.
Pause(c) ==
  /\ Ready(c)
  /\ Goto(c, "toggle")
  /\ untouched' = FALSE
  /\ crossed' = PauseBusy(c)
  /\ intact' = [d \in Clients |-> FALSE]
  /\ UNCHANGED <<mpvVars, flag, state, vol, mustPause, then, heard, fileVars,
                 vcrossed>>

\* pause with an argument, and play: setPause(b) tests the copy.
SetPause(c, b) ==
  /\ Ready(c)
  /\ flag # b
  /\ state' = [state EXCEPT ![c] = b]
  /\ Goto(c, "set")
  /\ untouched' = FALSE
  /\ crossed' = PauseBusy(c)
  /\ intact' = [d \in Clients |-> FALSE]
  /\ UNCHANGED <<mpvVars, flag, vol, mustPause, then, heard, fileVars, vcrossed>>

\* togglePause asks mpv, ...
Toggle(t) ==
  /\ pc[t] = "toggle"
  /\ state' = [state EXCEPT ![t] = ~paused]
  /\ Goto(t, "set")
  /\ UNCHANGED <<mpvVars, flag, vol, mustPause, then, heard, fileVars, ghosts>>

\* ... sets the opposite, ...
RequestPause(t) ==
  /\ pc[t] = "set"
  /\ requests' = Append(requests, [property |-> "pause", value |-> state[t]])
  /\ Goto(t, "store")
  /\ UNCHANGED <<paused, volume, flag, state, vol, mustPause, then, heard,
                 fileVars, ghosts>>

\* Variant: the copy is toggled, and not set to what mpv was told.
ToggleFlag(t) ==
  /\ pc[t] = "store"
  /\ flag' = ~flag
  /\ Goto(t, "send")
  /\ UNCHANGED <<mpvVars, state, vol, mustPause, then, heard, fileVars, ghosts>>

\* ... stores that in _pause ...
StoreFlag(t) ==
  /\ pc[t] = "store"
  /\ flag' = state[t]
  /\ Goto(t, "send")
  /\ UNCHANGED <<mpvVars, state, vol, mustPause, then, heard, fileVars, ghosts>>

\* ... and reads it again for the event.  There is no handler while the state is
\* restored.
SendPaused(t) ==
  /\ pc[t] = "send"
  /\ heard' = IF t = Main THEN heard ELSE [heard EXCEPT !.paused = {flag}]
  /\ Return(t)
  /\ UNCHANGED <<mpvVars, flag, mustPause, fileVars, ghosts>>

-----------------------------------------------------------------------------
(* Announcements: time and tts.                                            *)

\* speak() pauses the music, by a toggle, if it plays as far as _pause tells.
\* It is intact as long as mpv has done what it was told when a toggle starts and
\* nobody else pauses.
Speak(c) ==
  /\ Ready(c)
  /\ mustPause' = [mustPause EXCEPT ![c] = ~flag]
  /\ untouched' = FALSE
  /\ IF flag
     THEN /\ Goto(c, "child")
          /\ UNCHANGED <<then, crossed>>
          /\ intact' = [intact EXCEPT ![c] = FALSE]
     ELSE /\ Goto(c, "toggle")
          /\ then' = [then EXCEPT ![c] = "child"]
          /\ crossed' = PauseBusy(c)
          /\ intact' = [d \in Clients |->
                          /\ d = c
                          /\ ~PauseBusy(c)
                          /\ ~paused /\ Pending("pause") = {}]
  /\ UNCHANGED <<mpvVars, flag, state, vol, heard, fileVars, vcrossed>>

\* Variant: the music is not resumed.
ChildEndsSilently(c) ==
  /\ pc[c] = "child"
  /\ Goto(c, "idle")
  /\ UNCHANGED <<mpvVars, flag, state, vol, mustPause, then, heard, fileVars,
                 ghosts>>

\* The child process has spoken: a second toggle.
ChildEnds(c) ==
  /\ pc[c] = "child"
  /\ IF mustPause[c]
     THEN /\ Goto(c, "toggle")
          /\ crossed' = PauseBusy(c)
          /\ intact' = [d \in Clients |->
                          d = c /\ intact[d] /\ Pending("pause") = {}]
     ELSE /\ Goto(c, "idle")
          /\ UNCHANGED <<crossed, intact>>
  /\ mustPause' = [mustPause EXCEPT ![c] = FALSE]
  /\ UNCHANGED <<mpvVars, flag, state, vol, then, heard, fileVars, untouched,
                 vcrossed>>

-----------------------------------------------------------------------------
(* Volume.                                                                 *)

\* incrVolume: the get, ...
Volume(c, v) ==
  /\ Ready(c)
  /\ vol' = [vol EXCEPT ![c] = Clamp(volume + v)]
  /\ Goto(c, "vset")
  /\ untouched' = FALSE
  /\ vcrossed' = \E u \in Threads \ {c} : InVolume(u)
  /\ UNCHANGED <<mpvVars, flag, state, mustPause, then, heard, fileVars, crossed,
                 intact>>

\* ... the set, ...
RequestVolume(t) ==
  /\ pc[t] = "vset"
  /\ requests' = Append(requests, [property |-> "volume", value |-> vol[t]])
  /\ Goto(t, "vsend")
  /\ UNCHANGED <<paused, volume, flag, state, vol, mustPause, then, heard,
                 fileVars, ghosts>>

\* Variant: the volume that is announced is asked from mpv.
SendMpvVolume(t) ==
  /\ pc[t] = "vsend"
  /\ heard' = IF t = Main THEN heard ELSE [heard EXCEPT !.volume = {volume}]
  /\ Return(t)
  /\ UNCHANGED <<mpvVars, flag, mustPause, fileVars, ghosts>>

\* ... and the event.
SendVolume(t) ==
  /\ pc[t] = "vsend"
  /\ heard' = IF t = Main THEN heard ELSE [heard EXCEPT !.volume = {vol[t]}]
  /\ Return(t)
  /\ UNCHANGED <<mpvVars, flag, mustPause, fileVars, ghosts>>

-----------------------------------------------------------------------------
(* mpv. *)

\* The oldest set is applied.
Apply ==
  /\ requests # <<>>
  /\ requests' = Tail(requests)
  /\ IF Head(requests).property = "pause"
     THEN paused' = Head(requests).value /\ UNCHANGED volume
     ELSE volume' = Head(requests).value /\ UNCHANGED paused
  /\ UNCHANGED <<flag, localVars, heard, fileVars, ghosts>>

-----------------------------------------------------------------------------
(* The state file.                                                         *)

\* operator>>: the volume is set through incrVolume, by the difference.  A file
\* that is not there or was cut restores nothing.
Restore ==
  /\ pc[Main] = "restore"
  /\ IF saved = NoState
     THEN Goto(Main, "serve") /\ UNCHANGED <<vol, then>>
     ELSE /\ vol' = [vol EXCEPT ![Main] = Clamp(volume + (saved.volume - volume))]
          /\ then' = [then EXCEPT ![Main] = "restorePause"]
          /\ Goto(Main, "vset")
  /\ UNCHANGED <<mpvVars, flag, state, mustPause, heard, fileVars, ghosts>>

\* Variant: whether it was paused is not looked at.
RestoreToggles ==
  /\ pc[Main] = "restorePause"
  /\ then' = [then EXCEPT ![Main] = "serve"]
  /\ Goto(Main, "toggle")
  /\ UNCHANGED <<mpvVars, flag, state, vol, mustPause, heard, fileVars, ghosts>>

\* Then pause, by a toggle when _pause differs.
RestorePause ==
  /\ pc[Main] = "restorePause"
  /\ IF saved.paused = flag
     THEN Goto(Main, "serve") /\ UNCHANGED then
     ELSE Goto(Main, "toggle") /\ then' = [then EXCEPT ![Main] = "serve"]
  /\ UNCHANGED <<mpvVars, flag, state, vol, mustPause, heard, fileVars, ghosts>>

\* A signal: opening the file empties it.
OpenFile ==
  /\ pc[Main] = "serve"
  /\ saved' = NoState
  /\ Goto(Main, "saveVolume")
  /\ UNCHANGED <<mpvVars, flag, state, vol, mustPause, then, heard, draft, ghosts>>

\* operator<< reads the volume of mpv, ...
SaveVolume ==
  /\ pc[Main] = "saveVolume"
  /\ draft' = volume
  /\ Goto(Main, "savePause")
  /\ UNCHANGED <<mpvVars, flag, state, vol, mustPause, then, heard, saved, ghosts>>

\* ... then _pause, and the text is written.  Clients are still served.
SavePause ==
  /\ pc[Main] = "savePause"
  /\ saved' = [volume |-> draft, paused |-> flag]
  /\ draft' = DefaultVolume
  /\ Goto(Main, "saved")
  /\ UNCHANGED <<mpvVars, flag, state, vol, mustPause, then, heard, ghosts>>

\* The process ends, by itself or not, and starts again.
Restart ==
  /\ pc[Main] # "restore"
  /\ paused' = FALSE /\ volume' = DefaultVolume /\ requests' = <<>>
  /\ flag' = FALSE
  /\ pc' = [t \in Threads |-> IF t = Main THEN "restore" ELSE "idle"]
  /\ state' = [t \in Threads |-> FALSE]
  /\ vol' = [t \in Threads |-> DefaultVolume]
  /\ mustPause' = [c \in Clients |-> FALSE]
  /\ then' = [t \in Threads |-> "idle"]
  /\ heard' = [paused |-> {}, volume |-> {}]
  /\ draft' = DefaultVolume
  /\ untouched' = TRUE /\ crossed' = FALSE /\ vcrossed' = FALSE
  /\ intact' = [c \in Clients |-> FALSE]
  /\ UNCHANGED saved

-----------------------------------------------------------------------------
Command(c) ==
  \/ Pause(c) \/ (\E b \in BOOLEAN : SetPause(c, b)) \/ Speak(c)
  \/ \E v \in Increments : Volume(c, v)

Step(t) ==
  \/ Toggle(t) \/ RequestPause(t) \/ StoreFlag(t) \/ SendPaused(t)
  \/ RequestVolume(t) \/ SendVolume(t)

MainStep == Restore \/ RestorePause \/ OpenFile \/ SaveVolume \/ SavePause

Next ==
  \/ \E c \in Clients : Command(c) \/ ChildEnds(c)
  \/ \E t \in Threads : Step(t)
  \/ MainStep \/ Apply \/ Restart

Spec == Init /\ [][Next]_vars

-----------------------------------------------------------------------------
(* Properties.                                                             *)

\* Pause commands do not overlap, and none is being run.
PauseQuiet == ~crossed /\ \A t \in Threads : ~InPause(t)

\* The copy the player keeps is what mpv has or will have, and it is what the
\* clients were told, unless commands of two clients overlapped: then mpv may be
\* told one thing and _pause the other.
PauseAgrees ==
  PauseQuiet => flag = SettledPause /\ heard.paused \subseteq {flag}

\* The volume the clients heard of last is the one mpv has or will have,
\* although it was computed from a volume that was still to change.
VolumeAgrees ==
  ~vcrossed /\ (\A t \in Threads : ~InVolume(t)) =>
    heard.volume \subseteq {SettledVolume}

\* An announcement that nobody disturbs is spoken while the music is paused, and
\* the music plays afterwards as it did before.
AnnouncementResumes ==
  \A c \in Clients : intact[c] =>
    /\ pc[c] = "child" => flag /\ SettledPause
    /\ pc[c] = "idle" => ~flag /\ ~SettledPause

\* Before the first command after a restart, the player is as it was saved, or
\* as new when the last save was cut: never half of each.
RestoredAsSaved ==
  pc[Main] = "serve" /\ untouched =>
    /\ saved # NoState => /\ SettledVolume = saved.volume
                          /\ SettledPause = saved.paused /\ flag = saved.paused
    /\ saved = NoState => SettledVolume = DefaultVolume /\ ~SettledPause /\ ~flag
=============================================================================
