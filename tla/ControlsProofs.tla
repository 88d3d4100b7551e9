--------------------------- MODULE ControlsProofs ---------------------------
(***************************************************************************)
(* Theorems about the controls, for any number of clients, any scale of    *)
(* the volume, any increments and any length of the queue of mpv.          *)
(***************************************************************************)
EXTENDS Controls, SequenceLemmas, TLAPS

(* The inductive invariant.                                                *)

Properties == {"pause", "volume"}

\* One of the sets that mpv has queued for a property is the last one.
RequestsInv ==
  \A p \in Properties :
    Pending(p) # {} => \E i \in Pending(p) : \A j \in Pending(p) : i >= j

Serving == pc[Main] \in {"serve", "saveVolume", "savePause", "saved"}

\* Where the threads are, and go on; no client is served while the state is
\* restored.
ThreadsInv ==
  /\ \A c \in Clients : /\ pc[c] \in ClientLabels
                        /\ then[c] \in {"idle", "child"}
                        /\ pc[c] \notin PauseLabels => then[c] = "idle"
  /\ pc[Main] \in MainLabels
  /\ pc[Main] \in PauseLabels => then[Main] = "serve"
  /\ pc[Main] \in VolumeLabels => then[Main] = "restorePause"
  /\ ~Serving => /\ untouched
                 /\ heard = [paused |-> {}, volume |-> {}]
                 /\ \A c \in Clients : ~intact[c]
  /\ untouched => \A c \in Clients : pc[c] = "idle"

\* A pause command that overlaps no other tells mpv and _pause the same, in turn,
\* whatever they had before.
PauseInv ==
  ~crossed =>
    /\ \A t, u \in Threads : InPause(t) /\ InPause(u) => t = u
    /\ \A t \in Threads : /\ pc[t] = "store" => SettledPause = state[t]
                          /\ pc[t] = "send" => SettledPause = flag
    /\ (\A t \in Threads : ~InPause(t)) =>
         flag = SettledPause /\ heard.paused \subseteq {flag}

\* So does a volume command.
VolumeInv ==
  ~vcrossed =>
    /\ \A t, u \in Threads : InVolume(t) /\ InVolume(u) => t = u
    /\ \A t \in Threads : pc[t] = "vsend" => SettledVolume = vol[t]
    /\ (\A t \in Threads : ~InVolume(t)) => heard.volume \subseteq {SettledVolume}

\* The first toggle of an announcement goes on to the child process.
FirstToggle(c) == then[c] = "child"

\* The two toggles of an announcement that nobody disturbs: the first pauses, the
\* second resumes, and mpv has done the first when the second asks it.
AnnouncementInv ==
  \A c \in Clients : intact[c] =>
    /\ \A u \in Threads \ {c} : ~InPause(u)
    /\ FirstToggle(c) \/ pc[c] = "child" => mustPause[c]
    /\ pc[c] = "toggle" => Pending("pause") = {} /\ paused = ~FirstToggle(c)
    /\ pc[c] = "set" => state[c] = FirstToggle(c)
    /\ pc[c] = "store" => state[c] = FirstToggle(c) /\ SettledPause = FirstToggle(c)
    /\ pc[c] = "send" => flag = FirstToggle(c) /\ SettledPause = FirstToggle(c)
    /\ pc[c] = "child" => flag /\ SettledPause
    /\ pc[c] \in {"idle"} \cup VolumeLabels => ~flag /\ ~SettledPause

\* What has been restored so far, statement by statement.
RestoreInv ==
  /\ pc[Main] \in {"restore", "vset", "vsend", "restorePause", "toggle"} =>
       ~paused /\ ~flag /\ Pending("pause") = {}
  /\ pc[Main] = "restore" => SettledVolume = DefaultVolume
  /\ pc[Main] = "vset" => saved # NoState /\ vol[Main] = saved.volume
  /\ pc[Main] \in {"vsend", "restorePause"} \cup PauseLabels =>
       saved # NoState /\ SettledVolume = saved.volume
  /\ pc[Main] \in PauseLabels => saved.paused
  /\ pc[Main] = "set" => state[Main]
  /\ pc[Main] = "store" => state[Main] /\ SettledPause = TRUE
  /\ pc[Main] = "send" => flag /\ SettledPause = TRUE
  /\ RestoredAsSaved

CInv == TypeOK /\ RequestsInv /\ ThreadsInv
-----------------------------------------------------------------------------
(* The queue of mpv.                                                       *)

\* Max of the sets of a property, when one is the last.
LEMMA LastPending ==
  ASSUME NEW p, NEW i \in Pending(p), \A j \in Pending(p) : i >= j,
         Pending(p) \subseteq Int
  PROVE  Max(Pending(p)) = i
<1>. DEFINE S == Pending(p)
            m == CHOOSE x \in S : \A y \in S : x >= y
<1>1. m \in S /\ \A y \in S : m >= y
  OBVIOUS
<1>2. m = i
  <2>. HIDE DEF m, S
  <2>1. m \in Int /\ i \in Int /\ m >= i /\ i >= m
    BY <1>1 DEF S
  <2>. QED
    BY <2>1
<1>. QED
  BY <1>2 DEF Max

\* A set that is queued decides what its property will be, and no other property.
LEMMA Queued ==
  ASSUME TypeOK, RequestsInv, NEW p \in Properties, NEW v,
         [property |-> p, value |-> v] \in PauseSets \cup VolumeSets,
         requests' = Append(requests, [property |-> p, value |-> v]),
         UNCHANGED <<paused, volume>>
  PROVE  /\ RequestsInv'
         /\ p = "pause" => SettledPause' = v /\ SettledVolume' = SettledVolume
         /\ p = "volume" => /\ SettledVolume' = v /\ SettledPause' = SettledPause
                            /\ Pending("pause")' = Pending("pause")
<1>. DEFINE r == [property |-> p, value |-> v]
            n == Len(requests) + 1
<1>1. /\ requests \in Seq(PauseSets \cup VolumeSets) /\ Len(requests) \in Nat
      /\ DOMAIN requests = 1..Len(requests)
  BY DEF TypeOK, MpvTypes
<1>2. /\ DOMAIN requests' = 1..n /\ n \in Nat /\ n \in 1..n
      /\ \A i \in 1..Len(requests) : i \in 1..n /\ requests'[i] = requests[i]
      /\ requests'[n] = r
      /\ \A i \in 1..n : i = n \/ i \in 1..Len(requests)
  BY <1>1, AppendProperties
<1>3. r.property = p /\ r.value = v
  OBVIOUS
<1>. HIDE DEF r
<1>4. Pending(p)' = Pending(p) \cup {n}
  BY <1>1, <1>2, <1>3 DEF Pending
<1>5. \A q \in Properties : q # p => Pending(q)' = Pending(q)
  BY <1>1, <1>2, <1>3 DEF Pending
<1>6. \A q \in Properties : /\ Pending(q) \subseteq 1..Len(requests)
                            /\ Pending(q)' \subseteq 1..n
  BY <1>1, <1>2 DEF Pending
<1>7. n \in Pending(p)' /\ \A j \in Pending(p)' : n >= j
  BY <1>1, <1>4, <1>6
<1>8. RequestsInv'
  <2>1. ASSUME NEW q \in Properties, Pending(q)' # {}
        PROVE  \E i \in Pending(q)' : \A j \in Pending(q)' : i >= j
    <3>1. CASE q = p
      BY <1>7, <3>1
    <3>2. CASE q # p
      BY <1>5, <2>1, <3>2 DEF RequestsInv
    <3>. QED
      BY <3>1, <3>2
  <2>. QED
    BY <2>1 DEF RequestsInv
<1>9. requests'[Max(Pending(p)')].value = v
  <2>1. Max(Pending(p)') = n
    <3>. DEFINE S == Pending(p)'
                m == CHOOSE x \in S : \A y \in S : x >= y
    <3>1. n \in S /\ S \subseteq Int /\ \A y \in S : n >= y
      BY <1>1, <1>6, <1>7
    <3>2. m \in S /\ \A y \in S : m >= y
      BY <3>1
    <3>3. m = n
      <4>. HIDE DEF m, S
      <4>1. m \in Int /\ n \in Int /\ m >= n /\ n >= m
        BY <3>1, <3>2
      <4>. QED
        BY <4>1
    <3>. QED
      BY <3>3 DEF Max
  <2>. QED
    BY <1>2, <1>3, <2>1
<1>10. \A q \in Properties : q # p /\ Pending(q) # {} =>
         requests'[Max(Pending(q)')] = requests[Max(Pending(q))]
  <2> SUFFICES ASSUME NEW q \in Properties, q # p, Pending(q) # {}
               PROVE  requests'[Max(Pending(q)')] = requests[Max(Pending(q))]
    OBVIOUS
  <2>1. PICK i \in Pending(q) : \A j \in Pending(q) : i >= j
    BY DEF RequestsInv
  <2>2. Max(Pending(q)) = i
    BY <1>1, <1>6, <2>1, LastPending
  <2>. QED
    BY <1>2, <1>5, <1>6, <2>1, <2>2
<1>11. p = "pause" => SettledPause' = v /\ SettledVolume' = SettledVolume
  BY <1>4, <1>5, <1>9, <1>10 DEF SettledPause, SettledVolume, Settled, Properties
<1>12. p = "volume" => SettledVolume' = v /\ SettledPause' = SettledPause
  BY <1>4, <1>5, <1>9, <1>10 DEF SettledPause, SettledVolume, Settled, Properties
<1>. QED
  BY <1>5, <1>8, <1>11, <1>12 DEF Properties

\* When mpv applies the oldest set, nothing changes in what will be.
LEMMA Applied ==
  ASSUME TypeOK, RequestsInv, Apply
  PROVE  /\ RequestsInv'
         /\ SettledPause' = SettledPause /\ SettledVolume' = SettledVolume
         /\ Pending("pause") = {} => Pending("pause")' = {} /\ paused' = paused
<1>1. /\ requests \in Seq(PauseSets \cup VolumeSets) /\ requests # <<>>
      /\ Len(requests) \in Nat \ {0}
      /\ DOMAIN requests = 1..Len(requests) /\ 1 \in 1..Len(requests)
  BY EmptySeq DEF TypeOK, MpvTypes, Apply
<1>2. /\ DOMAIN requests' = 1..Len(requests)-1
      /\ \A i \in 1..Len(requests)-1 : i+1 \in 1..Len(requests) /\ requests'[i] = requests[i+1]
      /\ \A i \in 1..Len(requests) : i # 1 => i-1 \in 1..Len(requests)-1
      /\ Head(requests) = requests[1]
  BY <1>1, HeadTailProperties DEF Apply
<1>3. requests[1] \in PauseSets \cup VolumeSets
  BY <1>1
<1>4. /\ requests[1].property \in Properties
      /\ requests[1].property = "pause" =>
           paused' = requests[1].value /\ volume' = volume
      /\ requests[1].property = "volume" =>
           volume' = requests[1].value /\ paused' = paused
  BY <1>2, <1>3 DEF Apply, Properties, PauseSets, VolumeSets
<1>5. ASSUME NEW p \in Properties
      PROVE  /\ Pending(p) \subseteq 1..Len(requests)
             /\ \A i \in 1..Len(requests)-1 : i \in Pending(p)' <=> i+1 \in Pending(p)
             /\ Pending(p)' \subseteq 1..Len(requests)-1
             /\ 1 \in Pending(p) <=> requests[1].property = p
  BY <1>1, <1>2 DEF Pending
\* The last set of p is still there, unless it is the one that is applied.
<1>6. ASSUME NEW p \in Properties, Pending(p) # {}
      PROVE  \/ /\ Pending(p)' = {} /\ requests[1].property = p
                /\ requests[Max(Pending(p))] = requests[1]
             \/ /\ \E i \in Pending(p)' : \A j \in Pending(p)' : i >= j
                /\ Pending(p)' # {}
                /\ requests'[Max(Pending(p)')] = requests[Max(Pending(p))]
  <2>1. PICK i \in Pending(p) : \A j \in Pending(p) : i >= j
    BY <1>6 DEF RequestsInv
  <2>2. Max(Pending(p)) = i /\ i \in 1..Len(requests)
    BY <1>1, <1>5, <2>1, LastPending
  <2>3. CASE i = 1
    <3>1. ASSUME NEW j \in Pending(p)'
          PROVE  FALSE
      <4>1. j \in 1..Len(requests)-1 /\ j+1 \in Pending(p)
        BY <1>5
      <4>2. i >= j+1 /\ j >= 1
        BY <2>1, <4>1
      <4>. QED
        BY <1>1, <2>3, <4>1, <4>2
    <3>. QED
      BY <1>5, <2>1, <2>2, <2>3, <3>1
  <2>4. CASE i # 1
    <3>1. i-1 \in 1..Len(requests)-1 /\ (i-1)+1 = i
      BY <1>2, <2>2, <2>4
    <3>2. i-1 \in Pending(p)'
      BY <1>5, <2>1, <3>1
    <3>3. \A j \in Pending(p)' : i-1 >= j
      <4>1. ASSUME NEW j \in Pending(p)'
            PROVE  i-1 >= j
        <5>1. j \in 1..Len(requests)-1 /\ j+1 \in Pending(p)
          BY <1>5
        <5>2. i >= j+1
          BY <2>1, <5>1
        <5>. QED
          BY <2>2, <5>1, <5>2
      <4>. QED
        BY <4>1
    <3>4. Max(Pending(p)') = i-1
      <4>. DEFINE S == Pending(p)'
                  m == CHOOSE x \in S : \A y \in S : x >= y
                  k == i-1
      <4>1. k \in S /\ S \subseteq Int /\ \A y \in S : k >= y
        BY <1>5, <3>2, <3>3
      <4>2. m \in S /\ \A y \in S : m >= y
        <5>. HIDE DEF S, k
        <5>. QED
          BY <4>1
      <4>3. m = k
        <5>. HIDE DEF m, S, k
        <5>1. m \in Int /\ k \in Int /\ m >= k /\ k >= m
          BY <4>1, <4>2
        <5>. QED
          BY <5>1
      <4>. QED
        BY <4>3 DEF Max
    <3>5. requests'[i-1] = requests[i]
      BY <1>2, <3>1
    <3>. QED
      BY <2>2, <3>2, <3>3, <3>4, <3>5
  <2>. QED
    BY <2>3, <2>4
<1>7. ASSUME NEW p \in Properties, Pending(p) = {}
      PROVE  Pending(p)' = {} /\ requests[1].property # p
  BY <1>5, <1>7
<1>8. RequestsInv'
  BY <1>6, <1>7 DEF RequestsInv
<1>9. "pause" \in Properties /\ "volume" \in Properties
  BY DEF Properties
<1>10. SettledPause' = SettledPause
  <2>1. CASE Pending("pause") = {}
    <3>1. Pending("pause")' = {} /\ paused' = paused
      BY <1>4, <1>7, <1>9, <2>1 DEF Properties
    <3>. QED
      BY <2>1, <3>1 DEF SettledPause, Settled
  <2>2. CASE Pending("pause") # {}
    BY <1>4, <1>6, <1>9, <2>2 DEF SettledPause, Settled
  <2>. QED
    BY <2>1, <2>2
<1>11. SettledVolume' = SettledVolume
  <2>1. CASE Pending("volume") = {}
    <3>1. Pending("volume")' = {} /\ volume' = volume
      BY <1>4, <1>7, <1>9, <2>1 DEF Properties
    <3>. QED
      BY <2>1, <3>1 DEF SettledVolume, Settled
  <2>2. CASE Pending("volume") # {}
    BY <1>4, <1>6, <1>9, <2>2 DEF SettledVolume, Settled
  <2>. QED
    BY <2>1, <2>2
<1>. QED
  BY <1>4, <1>7, <1>8, <1>9, <1>10, <1>11 DEF Properties

\* togglePause or setPause tells mpv.
LEMMA PauseRequested ==
  ASSUME TypeOK, RequestsInv, NEW t \in Threads, RequestPause(t)
  PROVE  /\ RequestsInv'
         /\ requests' \in Seq(PauseSets \cup VolumeSets)
         /\ SettledPause' = state[t] /\ SettledVolume' = SettledVolume
<1>1. [property |-> "pause", value |-> state[t]] \in PauseSets \cup VolumeSets
  BY DEF TypeOK, LocalTypes, PauseSets
<1>2. requests \in Seq(PauseSets \cup VolumeSets)
  BY DEF TypeOK, MpvTypes
<1>3. /\ requests' = Append(requests, [property |-> "pause", value |-> state[t]])
      /\ UNCHANGED <<paused, volume>>
  BY DEF RequestPause
<1>4. "pause" \in Properties
  BY DEF Properties
<1>5. requests' \in Seq(PauseSets \cup VolumeSets)
  BY <1>1, <1>2, <1>3, AppendProperties
<1>. QED
  BY <1>1, <1>3, <1>4, <1>5, Queued

\* incrVolume tells mpv.
LEMMA VolumeRequested ==
  ASSUME TypeOK, RequestsInv, NEW t \in Threads, RequestVolume(t)
  PROVE  /\ RequestsInv'
         /\ requests' \in Seq(PauseSets \cup VolumeSets)
         /\ SettledVolume' = vol[t] /\ SettledPause' = SettledPause
         /\ Pending("pause")' = Pending("pause")
<1>1. [property |-> "volume", value |-> vol[t]] \in PauseSets \cup VolumeSets
  BY DEF TypeOK, LocalTypes, VolumeSets
<1>2. requests \in Seq(PauseSets \cup VolumeSets)
  BY DEF TypeOK, MpvTypes
<1>3. /\ requests' = Append(requests, [property |-> "volume", value |-> vol[t]])
      /\ UNCHANGED <<paused, volume>>
  BY DEF RequestVolume
<1>4. "volume" \in Properties
  BY DEF Properties
<1>5. requests' \in Seq(PauseSets \cup VolumeSets)
  BY <1>1, <1>2, <1>3, AppendProperties
<1>. QED
  BY <1>1, <1>3, <1>4, <1>5, Queued

\* The steps that tell mpv nothing.
LEMMA NothingQueued ==
  ASSUME UNCHANGED mpvVars
  PROVE  /\ RequestsInv => RequestsInv'
         /\ SettledPause' = SettledPause /\ SettledVolume' = SettledVolume
         /\ Pending("pause")' = Pending("pause")
<1>1. UNCHANGED <<paused, volume, requests>>
  BY DEF mpvVars
<1>2. \A p : Pending(p)' = Pending(p)
  BY <1>1 DEF Pending
<1>. QED
  BY <1>1, <1>2 DEF RequestsInv, SettledPause, SettledVolume, Settled

\* A new mpv has nothing queued.
LEMMA NewQueue ==
  ASSUME requests = <<>>
  PROVE  /\ RequestsInv
         /\ SettledPause = paused /\ SettledVolume = volume
         /\ Pending("pause") = {}
<1>1. \A p : Pending(p) = {}
  BY DEF Pending
<1>. QED
  BY <1>1 DEF RequestsInv, SettledPause, SettledVolume, Settled

\* So has the one of a process that starts again.
LEMMA RestartedQueue ==
  ASSUME Restart
  PROVE  /\ RequestsInv'
         /\ SettledPause' = FALSE /\ SettledVolume' = DefaultVolume
         /\ Pending("pause")' = {}
<1>1. requests' = <<>> /\ paused' = FALSE /\ volume' = DefaultVolume
  BY DEF Restart
<1>2. \A p : Pending(p)' = {}
  BY <1>1 DEF Pending
<1>. QED
  BY <1>1, <1>2 DEF RequestsInv, SettledPause, SettledVolume, Settled
-----------------------------------------------------------------------------
(* Types and threads.                                                      *)

\* A step that queues nothing and applies nothing.
Silent ==
  \/ \E c \in Clients : Command(c) \/ ChildEnds(c)
  \/ \E t \in Threads : Toggle(t) \/ StoreFlag(t) \/ SendPaused(t) \/ SendVolume(t)
  \/ MainStep
  \/ UNCHANGED vars

\* A silent step leaves what mpv has and what it has still to apply.
LEMMA SilentQueue == Silent => UNCHANGED mpvVars
<1>. USE DEF mpvVars
<1>1. ASSUME NEW c \in Clients, Command(c) \/ ChildEnds(c)
      PROVE  UNCHANGED mpvVars
  BY <1>1 DEF Command, Pause, SetPause, Speak, Volume, ChildEnds
<1>2. ASSUME NEW t \in Threads, Toggle(t) \/ StoreFlag(t) \/ SendPaused(t) \/ SendVolume(t)
      PROVE  UNCHANGED mpvVars
  BY <1>2 DEF Toggle, StoreFlag, SendPaused, SendVolume
<1>3. ASSUME MainStep \/ UNCHANGED vars
      PROVE  UNCHANGED mpvVars
  BY <1>3 DEF MainStep, Restore, RestorePause, OpenFile, SaveVolume, SavePause, vars
<1>. QED
  BY <1>1, <1>2, <1>3 DEF Silent

\* The cases of a step.
LEMMA StepCases ==
  ASSUME [Next]_vars
  PROVE  \/ Silent \/ Apply \/ Restart
         \/ \E t \in Threads : RequestPause(t) \/ RequestVolume(t)
BY DEF Next, Step, Silent

\* A step leaves mpv with values it can have, and a queue of sets as long as its threads allow.
LEMMA MpvStep == CInv /\ [Next]_vars => MpvTypes' /\ RequestsInv'
<1> SUFFICES ASSUME CInv, [Next]_vars
             PROVE  MpvTypes' /\ RequestsInv'
  OBVIOUS
<1>1. TypeOK /\ RequestsInv /\ MpvTypes
  BY DEF CInv, TypeOK
<1>2. CASE Silent
  <2>1. UNCHANGED mpvVars
    BY <1>2, SilentQueue
  <2>. QED
    BY <1>1, <2>1, NothingQueued DEF MpvTypes, mpvVars
<1>3. ASSUME NEW t \in Threads, RequestPause(t)
      PROVE  MpvTypes' /\ RequestsInv'
  <2>1. UNCHANGED <<paused, volume>>
    BY <1>3 DEF RequestPause
  <2>2. RequestsInv' /\ requests' \in Seq(PauseSets \cup VolumeSets)
    BY <1>1, <1>3, PauseRequested
  <2>. QED
    BY <1>1, <2>1, <2>2 DEF MpvTypes
<1>4. ASSUME NEW t \in Threads, RequestVolume(t)
      PROVE  MpvTypes' /\ RequestsInv'
  <2>1. UNCHANGED <<paused, volume>>
    BY <1>4 DEF RequestVolume
  <2>2. RequestsInv' /\ requests' \in Seq(PauseSets \cup VolumeSets)
    BY <1>1, <1>4, VolumeRequested
  <2>. QED
    BY <1>1, <2>1, <2>2 DEF MpvTypes
<1>5. CASE Apply
  <2>1. RequestsInv'
    BY <1>1, <1>5, Applied
  <2>2. /\ requests' = Tail(requests) /\ requests # <<>>
        /\ requests \in Seq(PauseSets \cup VolumeSets)
        /\ IF Head(requests).property = "pause"
           THEN paused' = Head(requests).value /\ UNCHANGED volume
           ELSE volume' = Head(requests).value /\ UNCHANGED paused
    BY <1>1, <1>5 DEF Apply, MpvTypes
  <2>3. Head(requests) \in PauseSets \cup VolumeSets
        /\ requests' \in Seq(PauseSets \cup VolumeSets)
    BY <2>2, HeadTailProperties
  <2>4. paused' \in BOOLEAN /\ volume' \in Volumes
    <3>1. CASE Head(requests).property = "pause"
      <4>1. Head(requests).value \in BOOLEAN
        BY <2>3, <3>1 DEF PauseSets, VolumeSets
      <4>. QED
        BY <1>1, <2>2, <3>1, <4>1 DEF MpvTypes
    <3>2. CASE Head(requests).property # "pause"
      <4>1. Head(requests).value \in Volumes
        BY <2>3, <3>2 DEF PauseSets, VolumeSets
      <4>. QED
        BY <1>1, <2>2, <3>2, <4>1 DEF MpvTypes
    <3>. QED
      BY <3>1, <3>2
  <2>. QED
    BY <2>1, <2>3, <2>4 DEF MpvTypes
<1>6. CASE Restart
  <2>1. requests' = <<>> /\ paused' = FALSE /\ volume' = DefaultVolume
    BY <1>6 DEF Restart
  <2>2. requests' \in Seq(PauseSets \cup VolumeSets)
    BY <2>1, EmptySeq
  <2>. QED
    BY <1>6, <2>1, <2>2, RestartedQueue, ControlsAssumption DEF MpvTypes
<1>. QED
  BY <1>2, <1>3, <1>4, <1>5, <1>6, StepCases

\* A volume that was clamped is one (Player::incrVolume).
LEMMA Clamped == \A v \in Int : Clamp(v) \in Volumes
BY ControlsAssumption DEF Clamp, Volumes

\* The locals of the threads: a volume is clamped before it is kept.
LEMMA LocalStep == CInv /\ [Next]_vars => LocalTypes'
<1> SUFFICES ASSUME CInv, [Next]_vars
             PROVE  LocalTypes'
  OBVIOUS
<1>1. /\ LocalTypes
      /\ paused \in BOOLEAN /\ volume \in Volumes /\ volume \in Int
      /\ DefaultVolume \in Volumes
      /\ Main \in Threads /\ Clients \subseteq Threads
      /\ Increments \subseteq Int
      /\ saved \in States \cup {NoState}
  BY ControlsAssumption DEF CInv, TypeOK, MpvTypes, PlayerTypes, Volumes, Threads
<1>. DEFINE Labels == ClientLabels \cup MainLabels
            Next4  == {"idle", "child", "restorePause", "serve"}
<1>2. /\ PauseLabels \subseteq Labels /\ VolumeLabels \subseteq Labels
      /\ {"idle", "child", "restorePause", "serve"} \subseteq Labels
      /\ {"toggle", "set", "store", "send", "vset", "vsend"} \subseteq Labels
      /\ {"restore", "saveVolume", "savePause", "saved"} \subseteq Labels
  BY DEF ClientLabels, MainLabels, PauseLabels, VolumeLabels
\* What a step may do to the locals of t.
<1>3. ASSUME NEW t \in Threads,
             \E l \in Labels : pc' = [pc EXCEPT ![t] = l],
             state' = state \/ \E b \in BOOLEAN : state' = [state EXCEPT ![t] = b],
             vol' = vol \/ \E v \in Volumes : vol' = [vol EXCEPT ![t] = v],
             then' = then \/ \E n \in Next4 : then' = [then EXCEPT ![t] = n],
             mustPause' = mustPause \/ \E b \in BOOLEAN : mustPause' = [mustPause EXCEPT ![t] = b]
      PROVE  LocalTypes'
  BY <1>1, <1>3 DEF LocalTypes
<1>4. ASSUME UNCHANGED localVars
      PROVE  LocalTypes'
  BY <1>1, <1>4 DEF LocalTypes, localVars
<1>. USE DEF Goto
<1>5. ASSUME NEW c \in Clients, Command(c) \/ ChildEnds(c)
      PROVE  LocalTypes'
  <2>1. CASE Pause(c) \/ \E b \in BOOLEAN : SetPause(c, b)
    BY <1>1, <1>2, <1>3, <2>1 DEF Pause, SetPause
  <2>2. CASE Speak(c)
    <3>1. /\ UNCHANGED <<state, vol>>
          /\ mustPause' = [mustPause EXCEPT ![c] = ~flag] /\ flag \in BOOLEAN
          /\ \/ pc' = [pc EXCEPT ![c] = "child"] /\ then' = then
             \/ pc' = [pc EXCEPT ![c] = "toggle"] /\ then' = [then EXCEPT ![c] = "child"]
      BY <2>2 DEF Speak, CInv, TypeOK, PlayerTypes
    <3>2. "child" \in Labels /\ "toggle" \in Labels /\ "child" \in Next4
      BY <1>2
    <3>. HIDE DEF Labels, Next4
    <3>. QED
      BY <1>1, <1>3, <3>1, <3>2
  <2>3. CASE \E v \in Increments : Volume(c, v)
    <3>1. PICK v \in Increments : Volume(c, v)
      BY <2>3
    <3>2. Clamp(volume + v) \in Volumes
      BY <1>1, Clamped
    <3>3. /\ UNCHANGED <<state, mustPause, then>>
          /\ vol' = [vol EXCEPT ![c] = Clamp(volume + v)]
          /\ pc' = [pc EXCEPT ![c] = "vset"]
      BY <3>1 DEF Volume
    <3>. QED
      BY <1>1, <1>2, <1>3, <3>2, <3>3
  <2>4. CASE ChildEnds(c)
    <3>1. /\ UNCHANGED <<state, vol, then>>
          /\ mustPause' = [mustPause EXCEPT ![c] = FALSE]
          /\ pc' = [pc EXCEPT ![c] = "toggle"] \/ pc' = [pc EXCEPT ![c] = "idle"]
      BY <2>4 DEF ChildEnds
    <3>. QED
      BY <1>1, <1>2, <1>3, <3>1
  <2>. QED
    BY <1>5, <2>1, <2>2, <2>3, <2>4 DEF Command
<1>6. ASSUME NEW t \in Threads, Toggle(t) \/ RequestPause(t) \/ StoreFlag(t) \/ RequestVolume(t)
      PROVE  LocalTypes'
  <2>1. /\ UNCHANGED <<vol, mustPause, then>>
        /\ \E l \in Labels : pc' = [pc EXCEPT ![t] = l]
    BY <1>2, <1>6 DEF Toggle, RequestPause, StoreFlag, RequestVolume
  <2>2. state' = state \/ state' = [state EXCEPT ![t] = ~paused]
    BY <1>6 DEF Toggle, RequestPause, StoreFlag, RequestVolume
  <2>. HIDE DEF Labels, Next4
  <2>. QED
    BY <1>1, <1>3, <2>1, <2>2
<1>7. ASSUME NEW t \in Threads, Return(t), UNCHANGED mustPause
      PROVE  LocalTypes'
  <2>1. then[t] \in Next4 /\ "idle" \in Next4
    BY <1>1 DEF LocalTypes
  <2>2. then[t] \in Labels
    BY <1>2, <2>1
  <2>. HIDE DEF Labels, Next4
  <2>. QED
    BY <1>1, <1>3, <1>7, <2>1, <2>2 DEF Return
<1>8. CASE MainStep
  <2>1. CASE Restore
    <3>1. UNCHANGED <<state, mustPause>>
      BY <2>1 DEF Restore
    <3>2. CASE saved = NoState
      BY <1>1, <1>2, <1>3, <2>1, <3>1, <3>2 DEF Restore
    <3>3. CASE saved # NoState
      <4>1. saved.volume \in Int
        BY <1>1, <3>3 DEF States, Volumes
      <4>2. Clamp(volume + (saved.volume - volume)) \in Volumes
        BY <1>1, <4>1, Clamped
      <4>3. /\ vol' = [vol EXCEPT ![Main] = Clamp(volume + (saved.volume - volume))]
            /\ then' = [then EXCEPT ![Main] = "restorePause"]
            /\ pc' = [pc EXCEPT ![Main] = "vset"]
        BY <2>1, <3>3 DEF Restore
      <4>. QED
        BY <1>1, <1>2, <1>3, <3>1, <4>2, <4>3
    <3>. QED
      BY <3>2, <3>3
  <2>2. CASE RestorePause
    <3>1. /\ UNCHANGED <<state, vol, mustPause>>
          /\ then' = then \/ then' = [then EXCEPT ![Main] = "serve"]
          /\ pc' = [pc EXCEPT ![Main] = "serve"] \/ pc' = [pc EXCEPT ![Main] = "toggle"]
      BY <2>2 DEF RestorePause
    <3>. QED
      BY <1>1, <1>2, <1>3, <3>1
  <2>3. CASE OpenFile \/ SaveVolume \/ SavePause
    BY <1>1, <1>2, <1>3, <2>3 DEF OpenFile, SaveVolume, SavePause
  <2>. QED
    BY <1>8, <2>1, <2>2, <2>3 DEF MainStep
<1>9. CASE Restart
  BY <1>1, <1>2, <1>9 DEF Restart, LocalTypes
<1>10. CASE Apply \/ UNCHANGED vars
  BY <1>4, <1>10 DEF Apply, vars
<1>. QED
  BY <1>5, <1>6, <1>7, <1>8, <1>9, <1>10 DEF Next, Step, SendPaused, SendVolume

\* What clients hear, what is saved, and the history.
LEMMA PlayerStep == CInv /\ [Next]_vars => PlayerTypes'
<1> SUFFICES ASSUME CInv, [Next]_vars
             PROVE  PlayerTypes'
  OBVIOUS
<1>1. /\ PlayerTypes /\ LocalTypes
      /\ volume \in Volumes /\ DefaultVolume \in Volumes
      /\ flag \in BOOLEAN /\ Clients \subseteq Threads
      /\ intact \in [Clients -> BOOLEAN] /\ {untouched, crossed, vcrossed} \subseteq BOOLEAN
  BY ControlsAssumption DEF CInv, TypeOK, MpvTypes, PlayerTypes, Threads
<1>2. ASSUME UNCHANGED <<flag, heard, fileVars, ghosts>>
      PROVE  PlayerTypes'
  BY <1>1, <1>2 DEF PlayerTypes, fileVars, ghosts
<1>3. ASSUME UNCHANGED <<flag, heard, fileVars>>,
             intact' \in [Clients -> BOOLEAN],
             {untouched', crossed', vcrossed'} \subseteq BOOLEAN
      PROVE  PlayerTypes'
  BY <1>1, <1>3 DEF PlayerTypes, fileVars
<1>4. \A c : PauseBusy(c) \in BOOLEAN
  BY DEF PauseBusy
<1>5. ASSUME NEW c \in Clients, Command(c)
      PROVE  PlayerTypes'
  <2>1. CASE Pause(c) \/ \E b \in BOOLEAN : SetPause(c, b)
    <3>1. /\ UNCHANGED <<flag, heard, fileVars, vcrossed>>
          /\ untouched' = FALSE /\ crossed' = PauseBusy(c)
          /\ intact' = [d \in Clients |-> FALSE]
      BY <2>1 DEF Pause, SetPause
    <3>. QED
      BY <1>1, <1>3, <1>4, <3>1
  <2>2. CASE Speak(c)
    <3>1. /\ UNCHANGED <<flag, heard, fileVars, vcrossed>>
          /\ untouched' = FALSE
          /\ crossed' = crossed \/ crossed' = PauseBusy(c)
      BY <2>2 DEF Speak
    <3>2. intact' \in [Clients -> BOOLEAN]
      BY <1>1, <2>2 DEF Speak
    <3>. QED
      BY <1>1, <1>3, <1>4, <3>1, <3>2
  <2>3. CASE \E v \in Increments : Volume(c, v)
    <3>1. /\ UNCHANGED <<flag, heard, fileVars, crossed, intact>>
          /\ untouched' = FALSE
          /\ vcrossed' = \E u \in Threads \ {c} : InVolume(u)
      BY <2>3 DEF Volume
    <3>. QED
      BY <1>1, <1>3, <3>1
  <2>. QED
    BY <1>5, <2>1, <2>2, <2>3 DEF Command
<1>6. ASSUME NEW c \in Clients, ChildEnds(c)
      PROVE  PlayerTypes'
  <2>1. /\ UNCHANGED <<flag, heard, fileVars, untouched, vcrossed>>
        /\ crossed' = crossed \/ crossed' = PauseBusy(c)
    BY <1>6 DEF ChildEnds
  <2>2. intact' \in [Clients -> BOOLEAN]
    BY <1>1, <1>6 DEF ChildEnds
  <2>. QED
    BY <1>1, <1>3, <1>4, <2>1, <2>2
<1>7. ASSUME NEW t \in Threads, Toggle(t) \/ RequestPause(t) \/ RequestVolume(t)
      PROVE  PlayerTypes'
  BY <1>2, <1>7 DEF Toggle, RequestPause, RequestVolume
<1>8. ASSUME NEW t \in Threads, StoreFlag(t)
      PROVE  PlayerTypes'
  <2>1. flag' \in BOOLEAN /\ UNCHANGED <<heard, fileVars, ghosts>>
    BY <1>1, <1>8 DEF StoreFlag, LocalTypes
  <2>. QED
    BY <1>1, <2>1 DEF PlayerTypes, fileVars, ghosts
<1>9. ASSUME NEW t \in Threads, SendPaused(t) \/ SendVolume(t)
      PROVE  PlayerTypes'
  <2>1. /\ UNCHANGED <<flag, fileVars, ghosts>>
        /\ \/ heard' = heard
           \/ heard' = [heard EXCEPT !.paused = {flag}]
           \/ heard' = [heard EXCEPT !.volume = {vol[t]}]
    BY <1>9 DEF SendPaused, SendVolume
  <2>2. heard' \in [paused : SUBSET BOOLEAN, volume : SUBSET Volumes]
    BY <1>1, <2>1 DEF PlayerTypes, LocalTypes
  <2>. QED
    BY <1>1, <2>1, <2>2 DEF PlayerTypes, fileVars, ghosts
<1>10. CASE MainStep
  <2>1. CASE Restore \/ RestorePause
    BY <1>2, <2>1 DEF Restore, RestorePause
  <2>2. CASE OpenFile \/ SaveVolume \/ SavePause
    <3>1. UNCHANGED <<flag, heard, ghosts>>
      BY <2>2 DEF OpenFile, SaveVolume, SavePause
    <3>2. saved' \in States \cup {NoState} /\ draft' \in Volumes
      BY <1>1, <2>2 DEF OpenFile, SaveVolume, SavePause, PlayerTypes, States
    <3>. QED
      BY <1>1, <3>1, <3>2 DEF PlayerTypes, ghosts
  <2>. QED
    BY <1>10, <2>1, <2>2 DEF MainStep
<1>11. CASE Restart
  <2>1. /\ flag' = FALSE /\ heard' = [paused |-> {}, volume |-> {}]
        /\ draft' = DefaultVolume /\ saved' = saved
        /\ untouched' = TRUE /\ crossed' = FALSE /\ vcrossed' = FALSE
        /\ intact' = [c \in Clients |-> FALSE]
    BY <1>11 DEF Restart
  <2>. QED
    BY <1>1, <2>1 DEF PlayerTypes
<1>12. CASE Apply \/ UNCHANGED vars
  BY <1>2, <1>12 DEF Apply, vars
<1>. QED
  BY <1>5, <1>6, <1>7, <1>8, <1>9, <1>10, <1>11, <1>12 DEF Next, Step

\* Where the threads are: clients are served once the state is restored (main).
LEMMA ThreadsStep == CInv /\ [Next]_vars => ThreadsInv'
<1> SUFFICES ASSUME CInv, [Next]_vars
             PROVE  ThreadsInv'
  OBVIOUS
<1>1. /\ ThreadsInv /\ LocalTypes /\ PlayerTypes
      /\ pc \in [Threads -> ClientLabels \cup MainLabels]
      /\ then \in [Threads -> {"idle", "child", "restorePause", "serve"}]
      /\ intact \in [Clients -> BOOLEAN] /\ untouched \in BOOLEAN
      /\ Main \in Threads /\ Clients \subseteq Threads /\ Main \notin Clients
      /\ \A t \in Threads : t = Main \/ t \in Clients
  BY ControlsAssumption DEF CInv, TypeOK, LocalTypes, PlayerTypes, Threads
<1>. USE DEF Goto, PauseLabels, VolumeLabels, ClientLabels, MainLabels
\* A step of client c, while it is served.
<1>2. ASSUME NEW c \in Clients, Serving, UNCHANGED untouched \/ untouched' = FALSE,
             untouched => pc[c] = "idle" /\ untouched' = FALSE,
             \E l \in ClientLabels : pc' = [pc EXCEPT ![c] = l],
             then' = then \/ \E n \in {"idle", "child"} : then' = [then EXCEPT ![c] = n],
             pc'[c] \notin PauseLabels => then'[c] = "idle"
      PROVE  ThreadsInv'
  <2>1. pc'[Main] = pc[Main] /\ then'[Main] = then[Main]
    BY <1>1, <1>2
  <2>2. ~untouched'
    BY <1>1, <1>2 DEF ThreadsInv
  <2>3. Serving'
    BY <1>2, <2>1 DEF Serving
  <2>4. \A d \in Clients : /\ pc'[d] \in ClientLabels
                           /\ then'[d] \in {"idle", "child"}
                           /\ pc'[d] \notin PauseLabels => then'[d] = "idle"
    <3>1. \A d \in Clients : d # c => pc'[d] = pc[d] /\ then'[d] = then[d]
      BY <1>1, <1>2
    <3>2. pc'[c] \in ClientLabels /\ then'[c] \in {"idle", "child"}
      BY <1>1, <1>2 DEF ThreadsInv
    <3>. QED
      BY <1>1, <1>2, <3>1, <3>2 DEF ThreadsInv
  <2>. QED
    BY <1>1, <1>2, <2>1, <2>2, <2>3, <2>4 DEF ThreadsInv
<1>3. ASSUME NEW c \in Clients, Command(c)
      PROVE  ThreadsInv'
  <2>1. /\ Serving /\ pc[c] = "idle" /\ untouched' = FALSE
        /\ then[c] = "idle"
    BY <1>1, <1>3 DEF Command, Pause, SetPause, Speak, Volume, Ready, Serving, ThreadsInv
  <2>2. \/ /\ \E l \in ClientLabels : pc' = [pc EXCEPT ![c] = l]
           /\ then' = then
        \/ /\ pc' = [pc EXCEPT ![c] = "toggle"]
           /\ then' = [then EXCEPT ![c] = "child"]
    BY <1>3 DEF Command, Pause, SetPause, Speak, Volume
  <2>3. pc'[c] \notin PauseLabels => then'[c] = "idle"
    BY <1>1, <2>1, <2>2
  <2>. QED
    BY <1>2, <2>1, <2>2, <2>3
<1>4. ASSUME NEW c \in Clients, pc[c] # "idle"
      PROVE  Serving /\ ~untouched
  BY <1>1, <1>4 DEF ThreadsInv
<1>5. ASSUME NEW c \in Clients, ChildEnds(c)
      PROVE  ThreadsInv'
  <2>1. /\ pc[c] = "child" /\ UNCHANGED <<untouched, then>>
        /\ pc' = [pc EXCEPT ![c] = "toggle"] \/ pc' = [pc EXCEPT ![c] = "idle"]
    BY <1>5 DEF ChildEnds
  <2>2. then[c] = "idle"
    BY <1>1, <2>1 DEF ThreadsInv
  <2>3. \E l \in ClientLabels : pc' = [pc EXCEPT ![c] = l]
    BY <2>1
  <2>4. Serving /\ ~untouched
    BY <1>4, <2>1
  <2>. QED
    BY <1>2, <2>1, <2>2, <2>3, <2>4
<1>6. ASSUME NEW c \in Clients,
             Toggle(c) \/ RequestPause(c) \/ StoreFlag(c) \/ RequestVolume(c)
      PROVE  ThreadsInv'
  <2>1. /\ pc[c] # "idle" /\ UNCHANGED <<untouched, then>>
        /\ \/ pc' = [pc EXCEPT ![c] = "set"] \/ pc' = [pc EXCEPT ![c] = "store"]
           \/ pc' = [pc EXCEPT ![c] = "send"]
           \/ pc[c] = "vset" /\ pc' = [pc EXCEPT ![c] = "vsend"]
    BY <1>6 DEF Toggle, RequestPause, StoreFlag, RequestVolume, ghosts
  <2>2. Serving /\ ~untouched
    BY <1>4, <2>1
  <2>3. \E l \in ClientLabels : pc' = [pc EXCEPT ![c] = l]
    BY <2>1
  <2>4. pc'[c] \notin PauseLabels => then[c] = "idle"
    BY <1>1, <2>1 DEF ThreadsInv
  <2>. QED
    BY <1>2, <2>1, <2>2, <2>3, <2>4
<1>7. ASSUME NEW c \in Clients, SendPaused(c) \/ SendVolume(c)
      PROVE  ThreadsInv'
  <2>1. /\ pc[c] # "idle" /\ UNCHANGED untouched
        /\ pc' = [pc EXCEPT ![c] = then[c]]
        /\ then' = [then EXCEPT ![c] = "idle"]
    BY <1>7 DEF SendPaused, SendVolume, Return, ghosts
  <2>2. Serving /\ ~untouched
    BY <1>4, <2>1
  <2>3. then[c] \in {"idle", "child"}
    BY <1>1 DEF ThreadsInv
  <2>4. \E l \in ClientLabels : pc' = [pc EXCEPT ![c] = l]
    BY <2>1, <2>3
  <2>5. pc'[c] \notin PauseLabels => then'[c] = "idle"
    BY <1>1, <2>1
  <2>. QED
    BY <1>2, <2>1, <2>2, <2>4, <2>5
\* A step of the main thread.
<1>8. ASSUME UNCHANGED <<untouched, intact>>, \A c \in Clients : pc'[c] = pc[c] /\ then'[c] = then[c],
             pc'[Main] \in MainLabels,
             pc'[Main] \in PauseLabels => then'[Main] = "serve",
             pc'[Main] \in VolumeLabels => then'[Main] = "restorePause",
             ~Serving' => ~Serving /\ heard' = heard
      PROVE  ThreadsInv'
  BY <1>1, <1>8 DEF ThreadsInv
<1>9. ASSUME Toggle(Main) \/ RequestPause(Main) \/ StoreFlag(Main) \/ RequestVolume(Main)
      PROVE  ThreadsInv'
  <2>1. /\ UNCHANGED <<untouched, intact, then, heard>>
        /\ \/ /\ pc[Main] \in PauseLabels
              /\ \/ pc' = [pc EXCEPT ![Main] = "set"] \/ pc' = [pc EXCEPT ![Main] = "store"]
                 \/ pc' = [pc EXCEPT ![Main] = "send"]
           \/ pc[Main] = "vset" /\ pc' = [pc EXCEPT ![Main] = "vsend"]
    BY <1>9 DEF Toggle, RequestPause, StoreFlag, RequestVolume, ghosts
  <2>2. \A c \in Clients : pc'[c] = pc[c]
    BY <1>1, <2>1
  <2>3. /\ pc'[Main] \in MainLabels
        /\ pc'[Main] \in PauseLabels => then[Main] = "serve"
        /\ pc'[Main] \in VolumeLabels => then[Main] = "restorePause"
        /\ ~Serving
    BY <1>1, <2>1 DEF ThreadsInv, Serving
  <2>. QED
    BY <1>8, <2>1, <2>2, <2>3
<1>10. ASSUME SendPaused(Main) \/ SendVolume(Main)
       PROVE  ThreadsInv'
  <2>1. /\ UNCHANGED <<untouched, intact, heard>>
        /\ pc' = [pc EXCEPT ![Main] = then[Main]]
        /\ then' = [then EXCEPT ![Main] = "idle"]
        /\ pc[Main] = "send" \/ pc[Main] = "vsend"
    BY <1>10 DEF SendPaused, SendVolume, Return, ghosts
  <2>2. \A c \in Clients : pc'[c] = pc[c] /\ then'[c] = then[c]
    BY <1>1, <2>1
  <2>3. pc'[Main] = "serve" \/ pc'[Main] = "restorePause"
    BY <1>1, <2>1 DEF ThreadsInv
  <2>4. ~Serving
    BY <2>1 DEF Serving
  <2>. QED
    BY <1>8, <2>1, <2>2, <2>3, <2>4
<1>11. CASE MainStep
  <2>1. CASE Restore
    <3>1. /\ UNCHANGED <<untouched, intact, heard>> /\ pc[Main] = "restore"
          /\ \/ pc' = [pc EXCEPT ![Main] = "serve"] /\ then' = then
             \/ /\ pc' = [pc EXCEPT ![Main] = "vset"]
                /\ then' = [then EXCEPT ![Main] = "restorePause"]
      BY <2>1 DEF Restore, ghosts
    <3>2. \A c \in Clients : pc'[c] = pc[c] /\ then'[c] = then[c]
      BY <1>1, <3>1
    <3>3. pc'[Main] = "serve" \/ (pc'[Main] = "vset" /\ then'[Main] = "restorePause")
      BY <1>1, <3>1
    <3>4. ~Serving
      BY <3>1 DEF Serving
    <3>. QED
      BY <1>8, <3>1, <3>2, <3>3, <3>4
  <2>2. CASE RestorePause
    <3>1. /\ UNCHANGED <<untouched, intact, heard>> /\ pc[Main] = "restorePause"
          /\ \/ pc' = [pc EXCEPT ![Main] = "serve"] /\ then' = then
             \/ /\ pc' = [pc EXCEPT ![Main] = "toggle"]
                /\ then' = [then EXCEPT ![Main] = "serve"]
      BY <2>2 DEF RestorePause, ghosts
    <3>2. \A c \in Clients : pc'[c] = pc[c] /\ then'[c] = then[c]
      BY <1>1, <3>1
    <3>3. pc'[Main] = "serve" \/ (pc'[Main] = "toggle" /\ then'[Main] = "serve")
      BY <1>1, <3>1
    <3>4. ~Serving
      BY <3>1 DEF Serving
    <3>. QED
      BY <1>8, <3>1, <3>2, <3>3, <3>4
  <2>3. CASE OpenFile \/ SaveVolume \/ SavePause
    <3>1. /\ UNCHANGED <<untouched, intact, heard, then>>
          /\ \E l \in {"saveVolume", "savePause", "saved"} : pc' = [pc EXCEPT ![Main] = l]
      BY <2>3 DEF OpenFile, SaveVolume, SavePause, ghosts
    <3>2. \A c \in Clients : pc'[c] = pc[c]
      BY <1>1, <3>1
    <3>3. pc'[Main] \in {"saveVolume", "savePause", "saved"}
      BY <1>1, <3>1
    <3>. QED
      BY <1>8, <3>1, <3>2, <3>3 DEF Serving
  <2>. QED
    BY <1>11, <2>1, <2>2, <2>3 DEF MainStep
<1>12. CASE Restart
  <2>1. /\ pc' = [t \in Threads |-> IF t = Main THEN "restore" ELSE "idle"]
        /\ then' = [t \in Threads |-> "idle"]
        /\ heard' = [paused |-> {}, volume |-> {}]
        /\ untouched' = TRUE /\ intact' = [c \in Clients |-> FALSE]
    BY <1>12 DEF Restart
  <2>2. pc'[Main] = "restore" /\ \A c \in Clients : pc'[c] = "idle" /\ then'[c] = "idle"
    BY <1>1, <2>1
  <2>. QED
    BY <2>1, <2>2 DEF ThreadsInv
<1>13. CASE Apply \/ UNCHANGED vars
  <2>1. UNCHANGED <<pc, then, heard, untouched, intact>>
    BY <1>13 DEF Apply, vars, localVars, ghosts
  <2>. QED
    BY <1>1, <2>1 DEF ThreadsInv, Serving
<1>. QED
  BY <1>1, <1>3, <1>5, <1>6, <1>7, <1>9, <1>10, <1>11, <1>12, <1>13 DEF Next, Step

\* CInv is an inductive invariant.
LEMMA CInvariant == Spec => []CInv
<1>1. Init => CInv
  <2> SUFFICES ASSUME Init
               PROVE  CInv
    OBVIOUS
  <2>1. /\ paused = FALSE /\ volume = DefaultVolume /\ requests = <<>> /\ flag = FALSE
        /\ pc = [t \in Threads |-> IF t = Main THEN "restore" ELSE "idle"]
        /\ state = [t \in Threads |-> FALSE]
        /\ vol = [t \in Threads |-> DefaultVolume]
        /\ mustPause = [c \in Clients |-> FALSE]
        /\ then = [t \in Threads |-> "idle"]
        /\ heard = [paused |-> {}, volume |-> {}]
        /\ draft = DefaultVolume
        /\ untouched = TRUE /\ crossed = FALSE /\ vcrossed = FALSE
        /\ intact = [c \in Clients |-> FALSE]
        /\ saved \in States \cup {NoState}
    BY DEF Init, Started
  <2>2. MpvTypes
    BY <2>1, EmptySeq, ControlsAssumption DEF MpvTypes
  <2>3. LocalTypes
    BY <2>1, ControlsAssumption DEF LocalTypes, ClientLabels, MainLabels
  <2>4. PlayerTypes
    BY <2>1, ControlsAssumption DEF PlayerTypes
  <2>5. RequestsInv
    BY <2>1, NewQueue
  <2>6. pc[Main] = "restore" /\ \A c \in Clients : pc[c] = "idle" /\ then[c] = "idle"
    BY <2>1, ControlsAssumption DEF Threads
  <2>7. ThreadsInv
    BY <2>1, <2>6 DEF ThreadsInv, ClientLabels, MainLabels, PauseLabels, VolumeLabels
  <2>. QED
    BY <2>2, <2>3, <2>4, <2>5, <2>7 DEF CInv, TypeOK
<1>2. CInv /\ [Next]_vars => CInv'
  BY MpvStep, LocalStep, PlayerStep, ThreadsStep DEF CInv, TypeOK
<1>. QED
  BY <1>1, <1>2, PTL DEF Spec

\* The types of the controls: a volume is on the scale, whatever was asked.
THEOREM ControlsTypeCorrect == Spec => []TypeOK
BY CInvariant, PTL DEF CInv
-----------------------------------------------------------------------------
(* Pause and volume.                                                       *)

\* Nobody is in a pause command, or in a volume command, before clients are served
\* but the main thread.
LEMMA OnlyMain ==
  ASSUME CInv, ~Serving, NEW t \in Threads, t # Main
  PROVE  ~InPause(t) /\ ~InVolume(t)
<1>1. t \in Clients /\ pc[t] = "idle"
  BY DEF CInv, ThreadsInv, Threads
<1>. QED
  BY <1>1 DEF InPause, InVolume, PauseLabels, VolumeLabels

\* Where a thread goes on after a pause or volume command.
LEMMA Returns ==
  ASSUME CInv, NEW t \in Threads
  PROVE  then[t] \notin PauseLabels /\ then[t] \notin VolumeLabels
BY DEF CInv, TypeOK, LocalTypes, PauseLabels, VolumeLabels

\* A pause command by itself leaves mpv and _pause with the same, at its end
\* (Player::togglePause, setPause).
LEMMA PauseStep == CInv /\ PauseInv /\ [Next]_vars => PauseInv'
<1> SUFFICES ASSUME CInv, PauseInv, [Next]_vars, ~crossed'
             PROVE  PauseInv'
  BY DEF PauseInv
<1>1. /\ TypeOK /\ RequestsInv
      /\ pc \in [Threads -> ClientLabels \cup MainLabels]
      /\ state \in [Threads -> BOOLEAN]
      /\ heard \in [paused : SUBSET BOOLEAN, volume : SUBSET Volumes]
      /\ Main \in Threads /\ Clients \subseteq Threads /\ Main \notin Clients
      /\ \A t \in Threads : t = Main \/ t \in Clients
  BY ControlsAssumption DEF CInv, TypeOK, LocalTypes, PlayerTypes, Threads
<1>. USE DEF Goto, InPause, PauseLabels
\* A command that starts alone.
<1>2. ASSUME NEW c \in Threads, \A u \in Threads \ {c} : ~InPause(u),
             pc' = [pc EXCEPT ![c] = "toggle"] \/ pc' = [pc EXCEPT ![c] = "set"]
      PROVE  PauseInv'
  <2>1. /\ pc'[c] \in {"toggle", "set"}
        /\ \A u \in Threads : u # c => pc'[u] \notin PauseLabels
    BY <1>1, <1>2
  <2>. QED
    BY <2>1 DEF PauseInv
\* A step that is none of a pause command.
<1>3. ASSUME UNCHANGED <<crossed, flag>>, heard'.paused = heard.paused,
             SettledPause' = SettledPause,
             \A t \in Threads : /\ pc'[t] \in PauseLabels <=> pc[t] \in PauseLabels
                                /\ pc[t] \in PauseLabels => pc'[t] = pc[t] /\ state'[t] = state[t]
      PROVE  PauseInv'
  BY <1>3 DEF PauseInv
\* A step of t, which is not in a pause command.
<1>4. ASSUME NEW t \in Threads, NEW l,
             UNCHANGED <<crossed, flag>>, heard'.paused = heard.paused,
             SettledPause' = SettledPause, state' = state \/ \E b : state' = [state EXCEPT ![t] = b],
             pc' = [pc EXCEPT ![t] = l], l \notin PauseLabels, pc[t] \notin PauseLabels
      PROVE  PauseInv'
  <2>1. pc'[t] \notin PauseLabels
    BY <1>1, <1>4
  <2>2. \A u \in Threads : u # t => pc'[u] = pc[u] /\ state'[u] = state[u]
    BY <1>1, <1>4
  <2>. QED
    BY <1>3, <1>4, <2>1, <2>2
<1>5. ASSUME NEW c \in Clients, Command(c) \/ ChildEnds(c)
      PROVE  PauseInv'
  <2>1. CASE crossed' = PauseBusy(c) /\
             (pc' = [pc EXCEPT ![c] = "toggle"] \/ pc' = [pc EXCEPT ![c] = "set"])
    BY <1>1, <1>2, <2>1 DEF PauseBusy
  <2>2. CASE crossed' = crossed /\
             (\/ pc[c] = "idle" /\ pc' = [pc EXCEPT ![c] = "child"]
              \/ pc[c] = "idle" /\ pc' = [pc EXCEPT ![c] = "vset"]
              \/ pc[c] = "child" /\ pc' = [pc EXCEPT ![c] = "idle"])
    <3>1. /\ UNCHANGED <<mpvVars, flag, heard>>
          /\ state' = state \/ \E b : state' = [state EXCEPT ![c] = b]
      BY <1>5 DEF Command, Pause, SetPause, Speak, Volume, ChildEnds
    <3>2. SettledPause' = SettledPause
      BY <3>1, NothingQueued
    <3>. QED
      BY <1>1, <1>4, <2>2, <3>1, <3>2
  <2>. QED
    BY <1>5, <2>1, <2>2 DEF Command, Pause, SetPause, Speak, Volume, ChildEnds, Ready
\* A step within a pause command.
<1>6. ASSUME NEW t \in Threads, ~crossed, pc[t] \in PauseLabels, NEW l,
             pc' = [pc EXCEPT ![t] = l]
      PROVE  pc'[t] = l /\ \A u \in Threads \ {t} : pc'[u] \notin PauseLabels
  BY <1>1, <1>6 DEF PauseInv
<1>7. ASSUME NEW t \in Threads, Toggle(t)
      PROVE  PauseInv'
  <2>1. ~crossed /\ pc[t] \in PauseLabels /\ pc' = [pc EXCEPT ![t] = "set"]
    BY <1>7 DEF Toggle, ghosts
  <2>2. pc'[t] = "set" /\ \A u \in Threads \ {t} : pc'[u] \notin PauseLabels
    BY <1>6, <2>1
  <2>. QED
    BY <2>2 DEF PauseInv
<1>8. ASSUME NEW t \in Threads, RequestPause(t)
      PROVE  PauseInv'
  <2>1. /\ ~crossed /\ pc[t] \in PauseLabels /\ pc' = [pc EXCEPT ![t] = "store"]
        /\ state' = state
    BY <1>8 DEF RequestPause, ghosts
  <2>2. pc'[t] = "store" /\ \A u \in Threads \ {t} : pc'[u] \notin PauseLabels
    BY <1>6, <2>1
  <2>3. SettledPause' = state'[t]
    BY <1>1, <1>8, <2>1, PauseRequested
  <2>. QED
    BY <2>2, <2>3 DEF PauseInv
<1>9. ASSUME NEW t \in Threads, StoreFlag(t)
      PROVE  PauseInv'
  <2>1. /\ ~crossed /\ pc[t] = "store" /\ pc' = [pc EXCEPT ![t] = "send"]
        /\ flag' = state[t] /\ UNCHANGED mpvVars
    BY <1>9 DEF StoreFlag, ghosts
  <2>2. pc'[t] = "send" /\ \A u \in Threads \ {t} : pc'[u] \notin PauseLabels
    BY <1>6, <2>1
  <2>3. SettledPause' = flag'
    BY <2>1, NothingQueued DEF PauseInv
  <2>. QED
    BY <2>2, <2>3 DEF PauseInv
<1>10. ASSUME NEW t \in Threads, SendPaused(t)
       PROVE  PauseInv'
  <2>1. /\ ~crossed /\ pc[t] = "send" /\ pc' = [pc EXCEPT ![t] = then[t]]
        /\ UNCHANGED <<flag, mpvVars>>
        /\ heard' = IF t = Main THEN heard ELSE [heard EXCEPT !.paused = {flag}]
    BY <1>10 DEF SendPaused, Return, ghosts
  <2>2. pc'[t] = then[t] /\ \A u \in Threads \ {t} : pc'[u] \notin PauseLabels
    BY <1>6, <2>1
  <2>3. \A u \in Threads : pc'[u] \notin PauseLabels
    BY <2>2, Returns
  <2>4. SettledPause' = flag'
    BY <2>1, NothingQueued DEF PauseInv
  <2>5. heard'.paused \subseteq {flag'}
    <3>1. CASE t = Main
      <4>1. heard.paused = {}
        BY <2>1, <3>1 DEF CInv, ThreadsInv, Serving
      <4>. QED
        BY <2>1, <3>1, <4>1
    <3>2. CASE t # Main
      BY <1>1, <2>1, <3>2
    <3>. QED
      BY <3>1, <3>2
  <2>. QED
    BY <2>3, <2>4, <2>5 DEF PauseInv
<1>11. ASSUME NEW t \in Threads, RequestVolume(t)
       PROVE  PauseInv'
  <2>1. /\ pc[t] = "vset" /\ pc' = [pc EXCEPT ![t] = "vsend"]
        /\ UNCHANGED <<crossed, flag, state, heard>>
    BY <1>11 DEF RequestVolume, ghosts
  <2>2. SettledPause' = SettledPause
    BY <1>1, <1>11, VolumeRequested
  <2>. QED
    BY <1>4, <2>1, <2>2
<1>12. ASSUME NEW t \in Threads, SendVolume(t)
       PROVE  PauseInv'
  <2>1. /\ pc[t] = "vsend" /\ pc' = [pc EXCEPT ![t] = then[t]]
        /\ UNCHANGED <<crossed, flag, mpvVars>>
        /\ state' = [state EXCEPT ![t] = FALSE]
        /\ heard' = IF t = Main THEN heard ELSE [heard EXCEPT !.volume = {vol[t]}]
    BY <1>12 DEF SendVolume, Return, ghosts
  <2>2. heard'.paused = heard.paused
    BY <1>1, <2>1
  <2>3. SettledPause' = SettledPause
    BY <2>1, NothingQueued
  <2>4. then[t] \notin PauseLabels
    BY Returns
  <2>. QED
    BY <1>4, <2>1, <2>2, <2>3, <2>4
<1>13. CASE MainStep
  <2>1. /\ UNCHANGED <<crossed, flag, state, heard, mpvVars>>
        /\ pc[Main] \in {"restore", "restorePause", "serve", "saveVolume", "savePause"}
        /\ \/ \E l \in {"serve", "vset", "saveVolume", "savePause", "saved"} :
                pc' = [pc EXCEPT ![Main] = l]
           \/ pc[Main] = "restorePause" /\ pc' = [pc EXCEPT ![Main] = "toggle"]
    BY <1>13 DEF MainStep, Restore, RestorePause, OpenFile, SaveVolume, SavePause, ghosts
  <2>2. SettledPause' = SettledPause
    BY <2>1, NothingQueued
  <2>3. CASE \E l \in {"serve", "vset", "saveVolume", "savePause", "saved"} :
               pc' = [pc EXCEPT ![Main] = l]
    BY <1>1, <1>4, <2>1, <2>2, <2>3
  <2>4. CASE pc[Main] = "restorePause" /\ pc' = [pc EXCEPT ![Main] = "toggle"]
    <3>1. \A u \in Threads \ {Main} : ~InPause(u)
      BY <2>4, OnlyMain DEF Serving
    <3>. QED
      BY <1>1, <1>2, <2>4, <3>1
  <2>. QED
    BY <2>1, <2>3, <2>4
<1>14. CASE Apply
  <2>1. UNCHANGED <<pc, state, flag, heard, crossed>>
    BY <1>14 DEF Apply, localVars, ghosts
  <2>. QED
    BY <1>1, <1>3, <1>14, <2>1, Applied
<1>15. CASE Restart
  <2>1. /\ pc' = [t \in Threads |-> IF t = Main THEN "restore" ELSE "idle"]
        /\ flag' = FALSE /\ heard' = [paused |-> {}, volume |-> {}]
    BY <1>15 DEF Restart
  <2>2. \A t \in Threads : pc'[t] \notin PauseLabels
    BY <2>1
  <2>. QED
    BY <1>15, <2>1, <2>2, RestartedQueue DEF PauseInv
<1>16. CASE UNCHANGED vars
  <2>1. UNCHANGED <<pc, state, flag, heard, crossed, mpvVars>>
    BY <1>16 DEF vars, localVars, ghosts
  <2>. QED
    BY <1>3, <2>1, NothingQueued
<1>. QED
  BY <1>5, <1>7, <1>8, <1>9, <1>10, <1>11, <1>12, <1>13, <1>14, <1>15, <1>16 DEF Next, Step

\* mpv, _pause and what the clients were told agree whenever no pause commands
\* overlapped and none is under way (Player::togglePause, setPause).
THEOREM PauseIsAgreed == Spec => []PauseAgrees
<1>1. Init => PauseInv
  <2> SUFFICES ASSUME Init
               PROVE  PauseInv
    OBVIOUS
  <2>1. /\ paused = FALSE /\ requests = <<>> /\ flag = FALSE
        /\ pc = [t \in Threads |-> IF t = Main THEN "restore" ELSE "idle"]
        /\ heard = [paused |-> {}, volume |-> {}]
    BY DEF Init, Started
  <2>2. \A t \in Threads : pc[t] \notin PauseLabels
    BY <2>1 DEF PauseLabels
  <2>. QED
    BY <2>1, <2>2, NewQueue DEF PauseInv, InPause, PauseLabels
<1>2. CInv /\ PauseInv /\ [Next]_vars => PauseInv'
  BY PauseStep
<1>3. PauseInv => PauseAgrees
  BY DEF PauseInv, PauseAgrees, PauseQuiet
<1>. QED
  BY <1>1, <1>2, <1>3, CInvariant, PTL DEF Spec

\* A volume command by itself announces what mpv will have (Player::incrVolume).
LEMMA VolumeStep == CInv /\ VolumeInv /\ [Next]_vars => VolumeInv'
<1> SUFFICES ASSUME CInv, VolumeInv, [Next]_vars, ~vcrossed'
             PROVE  VolumeInv'
  BY DEF VolumeInv
<1>1. /\ TypeOK /\ RequestsInv
      /\ pc \in [Threads -> ClientLabels \cup MainLabels]
      /\ vol \in [Threads -> Volumes]
      /\ heard \in [paused : SUBSET BOOLEAN, volume : SUBSET Volumes]
      /\ Main \in Threads /\ Clients \subseteq Threads /\ Main \notin Clients
  BY ControlsAssumption DEF CInv, TypeOK, LocalTypes, PlayerTypes, Threads
<1>. USE DEF Goto, InVolume, VolumeLabels
\* A command that starts alone.
<1>2. ASSUME NEW c \in Threads, \A u \in Threads \ {c} : ~InVolume(u),
             pc' = [pc EXCEPT ![c] = "vset"]
      PROVE  VolumeInv'
  <2>1. /\ pc'[c] = "vset"
        /\ \A u \in Threads : u # c => pc'[u] \notin VolumeLabels
    BY <1>1, <1>2
  <2>. QED
    BY <2>1 DEF VolumeInv
\* A step that is none of a volume command.
<1>3. ASSUME vcrossed' = vcrossed, heard'.volume = heard.volume,
             SettledVolume' = SettledVolume,
             \A t \in Threads : /\ pc'[t] \in VolumeLabels <=> pc[t] \in VolumeLabels
                                /\ pc[t] \in VolumeLabels => pc'[t] = pc[t] /\ vol'[t] = vol[t]
      PROVE  VolumeInv'
  BY <1>3 DEF VolumeInv
\* A step of t, which is not in a volume command.
<1>4. ASSUME NEW t \in Threads, NEW l,
             vcrossed' = vcrossed, heard'.volume = heard.volume,
             SettledVolume' = SettledVolume, vol' = vol \/ \E v : vol' = [vol EXCEPT ![t] = v],
             pc' = [pc EXCEPT ![t] = l], l \notin VolumeLabels, pc[t] \notin VolumeLabels
      PROVE  VolumeInv'
  <2>1. pc'[t] \notin VolumeLabels
    BY <1>1, <1>4
  <2>2. \A u \in Threads : u # t => pc'[u] = pc[u] /\ vol'[u] = vol[u]
    BY <1>1, <1>4
  <2>. QED
    BY <1>3, <1>4, <2>1, <2>2
<1>5. ASSUME NEW c \in Clients, Command(c) \/ ChildEnds(c)
      PROVE  VolumeInv'
  <2>1. CASE (vcrossed' = \E u \in Threads \ {c} : InVolume(u)) /\ pc' = [pc EXCEPT ![c] = "vset"]
    BY <1>1, <1>2, <2>1
  <2>2. CASE /\ vcrossed' = vcrossed /\ pc[c] \in {"idle", "child"} /\ vol' = vol
             /\ \E l \in {"toggle", "set", "child", "idle"} : pc' = [pc EXCEPT ![c] = l]
    <3>1. UNCHANGED <<mpvVars, heard>>
      BY <1>5 DEF Command, Pause, SetPause, Speak, Volume, ChildEnds
    <3>2. SettledVolume' = SettledVolume
      BY <3>1, NothingQueued
    <3>. QED
      BY <1>1, <1>4, <2>2, <3>1, <3>2
  <2>. QED
    BY <1>5, <2>1, <2>2 DEF Command, Pause, SetPause, Speak, Volume, ChildEnds, Ready
\* A step within a volume command.
<1>6. ASSUME NEW t \in Threads, ~vcrossed, pc[t] \in VolumeLabels, NEW l,
             pc' = [pc EXCEPT ![t] = l]
      PROVE  pc'[t] = l /\ \A u \in Threads \ {t} : pc'[u] \notin VolumeLabels
  BY <1>1, <1>6 DEF VolumeInv
<1>7. ASSUME NEW t \in Threads, RequestVolume(t)
      PROVE  VolumeInv'
  <2>1. /\ ~vcrossed /\ pc[t] \in VolumeLabels /\ pc' = [pc EXCEPT ![t] = "vsend"]
        /\ vol' = vol
    BY <1>7 DEF RequestVolume, ghosts
  <2>2. pc'[t] = "vsend" /\ \A u \in Threads \ {t} : pc'[u] \notin VolumeLabels
    BY <1>6, <2>1
  <2>3. SettledVolume' = vol'[t]
    BY <1>1, <1>7, <2>1, VolumeRequested
  <2>. QED
    BY <2>2, <2>3 DEF VolumeInv
<1>8. ASSUME NEW t \in Threads, SendVolume(t)
      PROVE  VolumeInv'
  <2>1. /\ ~vcrossed /\ pc[t] = "vsend" /\ pc' = [pc EXCEPT ![t] = then[t]]
        /\ UNCHANGED mpvVars
        /\ heard' = IF t = Main THEN heard ELSE [heard EXCEPT !.volume = {vol[t]}]
    BY <1>8 DEF SendVolume, Return, ghosts
  <2>2. pc'[t] = then[t] /\ \A u \in Threads \ {t} : pc'[u] \notin VolumeLabels
    BY <1>6, <2>1
  <2>3. \A u \in Threads : pc'[u] \notin VolumeLabels
    BY <2>2, Returns
  <2>4. SettledVolume' = vol[t]
    BY <2>1, NothingQueued DEF VolumeInv
  <2>5. heard'.volume \subseteq {SettledVolume'}
    <3>1. CASE t = Main
      <4>1. heard.volume = {}
        BY <2>1, <3>1 DEF CInv, ThreadsInv, Serving
      <4>. QED
        BY <2>1, <3>1, <4>1
    <3>2. CASE t # Main
      BY <1>1, <2>1, <2>4, <3>2
    <3>. QED
      BY <3>1, <3>2
  <2>. QED
    BY <2>3, <2>5 DEF VolumeInv
<1>9. ASSUME NEW t \in Threads, Toggle(t) \/ StoreFlag(t)
      PROVE  VolumeInv'
  <2>1. /\ pc[t] \in {"toggle", "store"} /\ UNCHANGED <<vcrossed, vol, heard, mpvVars>>
        /\ \E l \in {"set", "send"} : pc' = [pc EXCEPT ![t] = l]
    BY <1>9 DEF Toggle, StoreFlag, ghosts
  <2>2. SettledVolume' = SettledVolume
    BY <2>1, NothingQueued
  <2>. QED
    BY <1>4, <2>1, <2>2
<1>10. ASSUME NEW t \in Threads, RequestPause(t)
       PROVE  VolumeInv'
  <2>1. /\ pc[t] = "set" /\ UNCHANGED <<vcrossed, vol, heard>>
        /\ pc' = [pc EXCEPT ![t] = "store"]
    BY <1>10 DEF RequestPause, ghosts
  <2>2. SettledVolume' = SettledVolume
    BY <1>1, <1>10, PauseRequested
  <2>. QED
    BY <1>4, <2>1, <2>2
<1>11. ASSUME NEW t \in Threads, SendPaused(t)
       PROVE  VolumeInv'
  <2>1. /\ pc[t] = "send" /\ pc' = [pc EXCEPT ![t] = then[t]]
        /\ UNCHANGED <<vcrossed, mpvVars>>
        /\ vol' = [vol EXCEPT ![t] = DefaultVolume]
        /\ heard' = IF t = Main THEN heard ELSE [heard EXCEPT !.paused = {flag}]
    BY <1>11 DEF SendPaused, Return, ghosts
  <2>2. heard'.volume = heard.volume
    BY <1>1, <2>1
  <2>3. SettledVolume' = SettledVolume
    BY <2>1, NothingQueued
  <2>4. then[t] \notin VolumeLabels
    BY Returns
  <2>. QED
    BY <1>4, <2>1, <2>2, <2>3, <2>4
<1>12. CASE MainStep
  <2>1. /\ UNCHANGED <<vcrossed, heard, mpvVars>>
        /\ pc[Main] \in {"restore", "restorePause", "serve", "saveVolume", "savePause"}
        /\ \/ /\ \E l \in {"toggle", "serve", "saveVolume", "savePause", "saved"} :
                   pc' = [pc EXCEPT ![Main] = l]
              /\ vol' = vol
           \/ pc[Main] = "restore" /\ pc' = [pc EXCEPT ![Main] = "vset"]
    BY <1>12 DEF MainStep, Restore, RestorePause, OpenFile, SaveVolume, SavePause, ghosts
  <2>2. SettledVolume' = SettledVolume
    BY <2>1, NothingQueued
  <2>3. CASE /\ \E l \in {"toggle", "serve", "saveVolume", "savePause", "saved"} :
                  pc' = [pc EXCEPT ![Main] = l]
             /\ vol' = vol
    BY <1>1, <1>4, <2>1, <2>2, <2>3
  <2>4. CASE pc[Main] = "restore" /\ pc' = [pc EXCEPT ![Main] = "vset"]
    <3>1. \A u \in Threads \ {Main} : ~InVolume(u)
      BY <2>4, OnlyMain DEF Serving
    <3>. QED
      BY <1>1, <1>2, <2>4, <3>1
  <2>. QED
    BY <2>1, <2>3, <2>4
<1>13. CASE Apply
  <2>1. UNCHANGED <<pc, vol, heard, vcrossed>>
    BY <1>13 DEF Apply, localVars, ghosts
  <2>. QED
    BY <1>1, <1>3, <1>13, <2>1, Applied
<1>14. CASE Restart
  <2>1. /\ pc' = [t \in Threads |-> IF t = Main THEN "restore" ELSE "idle"]
        /\ heard' = [paused |-> {}, volume |-> {}]
    BY <1>14 DEF Restart
  <2>2. \A t \in Threads : pc'[t] \notin VolumeLabels
    BY <2>1
  <2>. QED
    BY <2>1, <2>2 DEF VolumeInv
<1>15. CASE UNCHANGED vars
  <2>1. UNCHANGED <<pc, vol, heard, vcrossed, mpvVars>>
    BY <1>15 DEF vars, localVars, ghosts
  <2>. QED
    BY <1>3, <2>1, NothingQueued
<1>. QED
  BY <1>5, <1>7, <1>8, <1>9, <1>10, <1>11, <1>12, <1>13, <1>14, <1>15 DEF Next, Step

\* The volume the clients heard of last is the one mpv will have, unless volume
\* commands overlapped (Player::incrVolume).
THEOREM VolumeIsAgreed == Spec => []VolumeAgrees
<1>1. Init => VolumeInv
  <2> SUFFICES ASSUME Init
               PROVE  VolumeInv
    OBVIOUS
  <2>1. /\ pc = [t \in Threads |-> IF t = Main THEN "restore" ELSE "idle"]
        /\ heard = [paused |-> {}, volume |-> {}]
    BY DEF Init, Started
  <2>2. \A t \in Threads : pc[t] \notin VolumeLabels
    BY <2>1 DEF VolumeLabels
  <2>. QED
    BY <2>1, <2>2 DEF VolumeInv, InVolume, VolumeLabels
<1>2. CInv /\ VolumeInv /\ [Next]_vars => VolumeInv'
  BY VolumeStep
<1>3. VolumeInv => VolumeAgrees
  BY DEF VolumeInv, VolumeAgrees
<1>. QED
  BY <1>1, <1>2, <1>3, CInvariant, PTL DEF Spec
-----------------------------------------------------------------------------
(* Announcements, and what is restored.                                    *)

\* An announcement that nobody disturbs, statement by statement (CmdParserBase::speak).
LEMMA AnnouncementStep == CInv /\ AnnouncementInv /\ [Next]_vars => AnnouncementInv'
<1>. DEFINE Intact(c) ==
       /\ \A u \in Threads \ {c} : ~InPause(u)
       /\ FirstToggle(c) \/ pc[c] = "child" => mustPause[c]
       /\ pc[c] = "toggle" => Pending("pause") = {} /\ paused = ~FirstToggle(c)
       /\ pc[c] = "set" => state[c] = FirstToggle(c)
       /\ pc[c] = "store" => state[c] = FirstToggle(c) /\ SettledPause = FirstToggle(c)
       /\ pc[c] = "send" => flag = FirstToggle(c) /\ SettledPause = FirstToggle(c)
       /\ pc[c] = "child" => flag /\ SettledPause
       /\ pc[c] \in {"idle"} \cup VolumeLabels => ~flag /\ ~SettledPause
<1> SUFFICES ASSUME CInv, AnnouncementInv, [Next]_vars, NEW c \in Clients, intact'[c]
             PROVE  Intact(c)'
  BY DEF AnnouncementInv
<1>1. /\ TypeOK /\ RequestsInv /\ ThreadsInv
      /\ paused \in BOOLEAN /\ flag \in BOOLEAN
      /\ pc \in [Threads -> ClientLabels \cup MainLabels]
      /\ state \in [Threads -> BOOLEAN]
      /\ then \in [Threads -> {"idle", "child", "restorePause", "serve"}]
      /\ mustPause \in [Clients -> BOOLEAN] /\ intact \in [Clients -> BOOLEAN]
      /\ Main \in Threads /\ Clients \subseteq Threads /\ c # Main
  BY ControlsAssumption DEF CInv, TypeOK, MpvTypes, LocalTypes, PlayerTypes, Threads
<1>2. intact[c] => Intact(c)
  BY DEF AnnouncementInv
<1>. USE DEF Goto, PauseLabels, VolumeLabels, InPause, FirstToggle
\* A step of others, or of mpv.
<1>3. ASSUME intact[c], UNCHANGED flag, SettledPause' = SettledPause,
             Pending("pause") = {} => Pending("pause")' = {} /\ paused' = paused,
             pc'[c] = pc[c], state'[c] = state[c], then'[c] = then[c],
             mustPause'[c] = mustPause[c],
             \A u \in Threads \ {c} : pc'[u] \in PauseLabels => pc[u] \in PauseLabels
      PROVE  Intact(c)'
  BY <1>2, <1>3
\* A step of thread t, which is not c.
<1>4. ASSUME intact[c], NEW t \in Threads \ {c}, NEW l, l \notin PauseLabels,
             pc' = [pc EXCEPT ![t] = l],
             state' = state \/ \E b : state' = [state EXCEPT ![t] = b],
             then' = then \/ \E n : then' = [then EXCEPT ![t] = n],
             mustPause' = mustPause \/ \E b : mustPause' = [mustPause EXCEPT ![t] = b],
             UNCHANGED <<mpvVars, flag>>
      PROVE  Intact(c)'
  <2>1. /\ pc'[c] = pc[c] /\ state'[c] = state[c] /\ then'[c] = then[c]
        /\ mustPause'[c] = mustPause[c] /\ paused' = paused
    BY <1>1, <1>4 DEF mpvVars
  <2>2. \A u \in Threads \ {c} : pc'[u] \in PauseLabels => pc[u] \in PauseLabels
    BY <1>1, <1>4
  <2>. QED
    BY <1>3, <1>4, <2>1, <2>2, NothingQueued
\* c begins a toggle: mpv has done everything before.
<1>5. ASSUME \A u \in Threads \ {c} : ~InPause(u), UNCHANGED mpvVars,
             pc' = [pc EXCEPT ![c] = "toggle"], Pending("pause") = {},
             paused = ~(then'[c] = "child"), then'[c] = "child" => mustPause'[c]
      PROVE  Intact(c)'
  <2>1. pc'[c] = "toggle" /\ \A u \in Threads \ {c} : pc'[u] = pc[u]
    BY <1>1, <1>5
  <2>2. Pending("pause")' = {} /\ paused' = paused
    BY <1>5, NothingQueued DEF mpvVars
  <2>. QED
    BY <1>5, <2>1, <2>2
<1>6. ASSUME NEW d \in Clients, Command(d)
      PROVE  Intact(c)'
  <2>1. CASE Pause(d) \/ \E b \in BOOLEAN : SetPause(d, b)
    BY <2>1 DEF Pause, SetPause
  <2>2. CASE Speak(d) /\ flag
    <3>1. /\ intact' = [intact EXCEPT ![d] = FALSE]
          /\ pc' = [pc EXCEPT ![d] = "child"]
          /\ mustPause' = [mustPause EXCEPT ![d] = ~flag]
          /\ UNCHANGED <<state, then, mpvVars, flag>>
      BY <2>2 DEF Speak
    <3>2. d # c /\ intact[c]
      BY <1>1, <3>1
    <3>. QED
      BY <1>1, <1>4, <3>1, <3>2
  <2>3. CASE Speak(d) /\ ~flag
    <3>1. /\ d = c /\ ~PauseBusy(c) /\ ~paused /\ Pending("pause") = {}
          /\ pc' = [pc EXCEPT ![c] = "toggle"] /\ then' = [then EXCEPT ![c] = "child"]
          /\ mustPause' = [mustPause EXCEPT ![c] = ~flag]
          /\ UNCHANGED mpvVars
      BY <2>3 DEF Speak
    <3>2. then'[c] = "child" /\ mustPause'[c]
      BY <1>1, <2>3, <3>1
    <3>. QED
      BY <1>1, <1>5, <3>1, <3>2 DEF PauseBusy
  <2>4. CASE \E v \in Increments : Volume(d, v)
    <3>1. /\ pc' = [pc EXCEPT ![d] = "vset"] /\ pc[d] = "idle"
          /\ UNCHANGED <<mpvVars, flag, state, then, mustPause, intact>>
      BY <2>4 DEF Volume, Ready
    <3>2. CASE d # c
      BY <1>1, <1>4, <3>1, <3>2
    <3>3. CASE d = c
      <4>1. /\ pc'[c] = "vset" /\ \A u \in Threads \ {c} : pc'[u] = pc[u]
            /\ Intact(c) /\ SettledPause' = SettledPause
        BY <1>1, <1>2, <3>1, <3>3, NothingQueued
      <4>. QED
        BY <3>1, <3>3, <4>1
    <3>. QED
      BY <3>2, <3>3
  <2>. QED
    BY <1>6, <2>1, <2>2, <2>3, <2>4 DEF Command
<1>7. ASSUME NEW d \in Clients, ChildEnds(d)
      PROVE  Intact(c)'
  <2>1. CASE mustPause[d]
    <3>1. /\ d = c /\ intact[c] /\ Pending("pause") = {} /\ pc[c] = "child"
          /\ pc' = [pc EXCEPT ![c] = "toggle"] /\ then' = then
          /\ UNCHANGED mpvVars
      BY <1>7, <2>1 DEF ChildEnds
    <3>2. then[c] = "idle"
      BY <1>1, <3>1 DEF ThreadsInv
    <3>3. paused = TRUE
      BY <1>1, <1>2, <3>1 DEF SettledPause, Settled
    <3>. QED
      BY <1>2, <1>5, <3>1, <3>2, <3>3
  <2>2. CASE ~mustPause[d]
    <3>1. /\ pc[d] = "child" /\ pc' = [pc EXCEPT ![d] = "idle"]
          /\ mustPause' = [mustPause EXCEPT ![d] = FALSE]
          /\ UNCHANGED <<mpvVars, flag, state, then, intact>>
      BY <1>7, <2>2 DEF ChildEnds
    <3>2. d # c
      BY <1>2, <2>2, <3>1
    <3>. QED
      BY <1>1, <1>4, <3>1, <3>2
  <2>. QED
    BY <2>1, <2>2
\* The thread that is in a pause command is c.
<1>8. ASSUME NEW t \in Threads, pc[t] \in PauseLabels, intact[c],
             NEW l, pc' = [pc EXCEPT ![t] = l]
      PROVE  t = c /\ pc'[c] = l /\ \A u \in Threads \ {c} : pc'[u] \notin PauseLabels
  BY <1>1, <1>2, <1>8
<1>9. ASSUME NEW t \in Threads, Toggle(t)
      PROVE  Intact(c)'
  <2>1. /\ pc[t] = "toggle" /\ intact[c] /\ pc' = [pc EXCEPT ![t] = "set"]
        /\ state' = [state EXCEPT ![t] = ~paused]
        /\ UNCHANGED <<then, mustPause>>
    BY <1>9 DEF Toggle, ghosts
  <2>2. t = c /\ pc'[c] = "set" /\ \A u \in Threads \ {c} : pc'[u] \notin PauseLabels
    BY <1>8, <2>1
  <2>3. state'[c] = ~paused
    BY <1>1, <2>1, <2>2
  <2>. QED
    BY <1>1, <1>2, <2>1, <2>2, <2>3
<1>10. ASSUME NEW t \in Threads, RequestPause(t)
       PROVE  Intact(c)'
  <2>1. /\ pc[t] = "set" /\ intact[c] /\ pc' = [pc EXCEPT ![t] = "store"]
        /\ UNCHANGED <<state, then, mustPause>>
    BY <1>10 DEF RequestPause, ghosts
  <2>2. t = c /\ pc'[c] = "store" /\ \A u \in Threads \ {c} : pc'[u] \notin PauseLabels
    BY <1>8, <2>1
  <2>3. SettledPause' = state[c]
    BY <1>1, <1>10, <2>2, PauseRequested
  <2>. QED
    BY <1>1, <1>2, <2>1, <2>2, <2>3
<1>11. ASSUME NEW t \in Threads, StoreFlag(t)
       PROVE  Intact(c)'
  <2>1. /\ pc[t] = "store" /\ intact[c] /\ pc' = [pc EXCEPT ![t] = "send"]
        /\ flag' = state[t]
        /\ UNCHANGED <<mpvVars, state, then, mustPause>>
    BY <1>11 DEF StoreFlag, ghosts
  <2>2. t = c /\ pc'[c] = "send" /\ \A u \in Threads \ {c} : pc'[u] \notin PauseLabels
    BY <1>8, <2>1
  <2>3. SettledPause' = SettledPause
    BY <2>1, NothingQueued
  <2>. QED
    BY <1>1, <1>2, <2>1, <2>2, <2>3
<1>12. ASSUME NEW t \in Threads, SendPaused(t)
       PROVE  Intact(c)'
  <2>1. /\ pc[t] = "send" /\ intact[c] /\ pc' = [pc EXCEPT ![t] = then[t]]
        /\ then' = [then EXCEPT ![t] = "idle"]
        /\ UNCHANGED <<mpvVars, flag, mustPause>>
    BY <1>12 DEF SendPaused, Return, ghosts
  <2>2. t = c /\ pc'[c] = then[c] /\ \A u \in Threads \ {c} : pc'[u] \notin PauseLabels
    BY <1>8, <2>1
  <2>3. SettledPause' = SettledPause
    BY <2>1, NothingQueued
  <2>4. then'[c] = "idle" /\ then[c] \in {"idle", "child"}
    BY <1>1, <2>1, <2>2 DEF ThreadsInv
  <2>. QED
    BY <1>1, <1>2, <2>1, <2>2, <2>3, <2>4
<1>13. ASSUME NEW t \in Threads, RequestVolume(t)
       PROVE  Intact(c)'
  <2>1. /\ pc[t] = "vset" /\ intact[c] /\ pc' = [pc EXCEPT ![t] = "vsend"]
        /\ UNCHANGED <<flag, state, then, mustPause, paused>>
    BY <1>13 DEF RequestVolume, ghosts
  <2>2. SettledPause' = SettledPause /\ Pending("pause")' = Pending("pause")
    BY <1>1, <1>13, VolumeRequested
  <2>3. pc'[t] = "vsend" /\ \A u \in Threads \ {t} : pc'[u] = pc[u]
    BY <1>1, <2>1
  <2>4. CASE t = c
    BY <1>2, <2>1, <2>2, <2>3, <2>4
  <2>5. CASE t # c
    BY <1>1, <1>3, <2>1, <2>2, <2>3, <2>5
  <2>. QED
    BY <2>4, <2>5
<1>14. ASSUME NEW t \in Threads, SendVolume(t)
       PROVE  Intact(c)'
  <2>1. /\ pc[t] = "vsend" /\ intact[c] /\ pc' = [pc EXCEPT ![t] = then[t]]
        /\ then' = [then EXCEPT ![t] = "idle"]
        /\ state' = [state EXCEPT ![t] = FALSE]
        /\ UNCHANGED <<mpvVars, flag, mustPause>>
    BY <1>14 DEF SendVolume, Return, ghosts
  <2>2. CASE t # c
    <3>1. then[t] \notin PauseLabels
      BY Returns
    <3>. QED
      BY <1>1, <1>4, <2>1, <2>2, <3>1
  <2>3. CASE t = c
    <3>1. then[c] = "idle"
      BY <1>1, <2>1, <2>3 DEF ThreadsInv
    <3>2. /\ pc'[c] = "idle" /\ then'[c] = "idle"
          /\ \A u \in Threads \ {c} : pc'[u] = pc[u]
      BY <1>1, <2>1, <2>3, <3>1
    <3>3. SettledPause' = SettledPause
      BY <2>1, NothingQueued
    <3>. QED
      BY <1>2, <2>1, <2>3, <3>2, <3>3
  <2>. QED
    BY <2>2, <2>3
<1>15. CASE MainStep
  <2>1. intact[c]
    BY <1>15 DEF MainStep, Restore, RestorePause, OpenFile, SaveVolume, SavePause, ghosts
  <2>2. Serving
    BY <1>1, <2>1 DEF ThreadsInv
  <2>3. OpenFile \/ SaveVolume \/ SavePause
    BY <1>15, <2>2 DEF MainStep, Restore, RestorePause, Serving
  <2>4. /\ \E l \in {"saveVolume", "savePause", "saved"} : pc' = [pc EXCEPT ![Main] = l]
        /\ UNCHANGED <<mpvVars, flag, state, then, mustPause>>
    BY <2>3 DEF OpenFile, SaveVolume, SavePause
  <2>. QED
    BY <1>1, <1>4, <2>1, <2>4
<1>16. CASE Apply
  <2>1. UNCHANGED <<pc, state, then, mustPause, flag, intact>>
    BY <1>16 DEF Apply, localVars, ghosts
  <2>. QED
    BY <1>1, <1>3, <1>16, <2>1, Applied
<1>17. CASE Restart
  BY <1>17 DEF Restart
<1>18. CASE UNCHANGED vars
  <2>1. UNCHANGED <<pc, state, then, mustPause, flag, intact, paused, mpvVars>>
    BY <1>18 DEF vars, localVars, ghosts, mpvVars
  <2>. QED
    BY <1>3, <2>1, NothingQueued
<1>. HIDE DEF Intact
<1>. QED
  BY <1>6, <1>7, <1>9, <1>10, <1>11, <1>12, <1>13, <1>14, <1>15, <1>16, <1>17, <1>18
     DEF Next, Step

\* An announcement that nobody disturbs is spoken while the music is paused, and the
\* music plays afterwards (CmdParserBase::speak).
THEOREM AnnouncementsResume == Spec => []AnnouncementResumes
<1>1. Init => AnnouncementInv
  BY DEF Init, Started, AnnouncementInv
<1>2. CInv /\ AnnouncementInv /\ [Next]_vars => AnnouncementInv'
  BY AnnouncementStep
<1>3. AnnouncementInv => AnnouncementResumes
  BY DEF AnnouncementInv, AnnouncementResumes
<1>. QED
  BY <1>1, <1>2, <1>3, CInvariant, PTL DEF Spec

\* What is restored, statement by statement, and stays so until a client issues a
\* command (operator>>, Player::incrVolume, togglePause).
LEMMA RestoreStep == CInv /\ RestoreInv /\ [Next]_vars => RestoreInv'
<1> SUFFICES ASSUME CInv, RestoreInv, [Next]_vars
             PROVE  RestoreInv'
  OBVIOUS
<1>1. /\ TypeOK /\ RequestsInv /\ ThreadsInv
      /\ paused \in BOOLEAN /\ flag \in BOOLEAN /\ volume \in Int
      /\ pc \in [Threads -> ClientLabels \cup MainLabels]
      /\ state \in [Threads -> BOOLEAN] /\ vol \in [Threads -> Volumes]
      /\ saved \in States \cup {NoState} /\ untouched \in BOOLEAN
      /\ Main \in Threads /\ Clients \subseteq Threads /\ Main \notin Clients
      /\ \A t \in Threads : t = Main \/ t \in Clients
  BY ControlsAssumption DEF CInv, TypeOK, MpvTypes, LocalTypes, PlayerTypes, Threads, Volumes
<1>. USE DEF Goto
\* A step of a client: the state is restored, and touched.
<1>2. ASSUME Serving, pc'[Main] = pc[Main], ~untouched'
      PROVE  RestoreInv'
  BY <1>2 DEF RestoreInv, RestoredAsSaved, Serving, PauseLabels
<1>3. ASSUME NEW c \in Clients, Command(c) \/ ChildEnds(c) \/ Step(c)
      PROVE  RestoreInv'
  <2>1. Serving /\ ~untouched'
    <3>1. CASE Command(c)
      BY <3>1 DEF Command, Pause, SetPause, Speak, Volume, Ready, Serving
    <3>2. CASE ChildEnds(c) \/ Step(c)
      <4>1. pc[c] # "idle" /\ untouched' = untouched
        BY <3>2 DEF ChildEnds, Step, Toggle, RequestPause, StoreFlag, SendPaused,
                    RequestVolume, SendVolume, ghosts
      <4>. QED
        BY <1>1, <4>1 DEF ThreadsInv
    <3>. QED
      BY <1>3, <3>1, <3>2
  <2>2. \E l : pc' = [pc EXCEPT ![c] = l]
    BY <1>3 DEF Command, Pause, SetPause, Speak, Volume, ChildEnds, Step, Toggle,
                RequestPause, StoreFlag, SendPaused, RequestVolume, SendVolume, Return
  <2>3. pc'[Main] = pc[Main]
    BY <1>1, <2>2
  <2>. QED
    BY <1>2, <2>1, <2>3
\* A step of mpv, or none.
<1>4. ASSUME UNCHANGED <<pc, state, vol, flag, saved, untouched>>,
             SettledPause' = SettledPause, SettledVolume' = SettledVolume,
             Pending("pause") = {} => Pending("pause")' = {} /\ paused' = paused
      PROVE  RestoreInv'
  BY <1>4 DEF RestoreInv, RestoredAsSaved
<1>5. CASE Apply
  <2>1. UNCHANGED <<pc, state, vol, flag, saved, untouched>>
    BY <1>5 DEF Apply, localVars, fileVars, ghosts
  <2>. QED
    BY <1>1, <1>4, <1>5, <2>1, Applied
<1>6. CASE UNCHANGED vars
  <2>1. UNCHANGED <<pc, state, vol, flag, saved, untouched, paused, mpvVars>>
    BY <1>6 DEF vars, localVars, fileVars, ghosts, mpvVars
  <2>. QED
    BY <1>4, <2>1, NothingQueued
<1>7. CASE Restart
  <2>1. pc'[Main] = "restore" /\ paused' = FALSE /\ flag' = FALSE
    BY <1>1, <1>7 DEF Restart
  <2>. QED
    BY <1>7, <2>1, RestartedQueue DEF RestoreInv, RestoredAsSaved, PauseLabels
\* The steps of the main thread.
<1>8. CASE Restore
  <2>1. /\ pc[Main] = "restore" /\ ~paused /\ ~flag /\ Pending("pause") = {}
        /\ SettledVolume = DefaultVolume
        /\ UNCHANGED <<mpvVars, flag, paused, saved>>
    BY <1>8 DEF RestoreInv, Restore, fileVars, mpvVars
  <2>2. /\ SettledPause' = SettledPause /\ SettledVolume' = SettledVolume
        /\ Pending("pause")' = {}
    BY <2>1, NothingQueued
  <2>3. SettledPause = FALSE
    BY <1>1, <2>1 DEF SettledPause, Settled
  <2>4. CASE saved = NoState
    <3>1. pc'[Main] = "serve"
      BY <1>1, <1>8, <2>4 DEF Restore
    <3>. QED
      BY <2>1, <2>2, <2>3, <2>4, <3>1 DEF RestoreInv, RestoredAsSaved, PauseLabels
  <2>5. CASE saved # NoState
    <3>1. saved.volume \in Volumes /\ saved.volume \in Int
      BY <1>1, <2>5 DEF States, Volumes
    <3>2. Clamp(volume + (saved.volume - volume)) = saved.volume
      BY <1>1, <3>1, ControlsAssumption DEF Clamp, Volumes
    <3>3. pc'[Main] = "vset" /\ vol'[Main] = saved.volume
      BY <1>1, <1>8, <2>5, <3>2 DEF Restore
    <3>. QED
      BY <2>1, <2>2, <2>5, <3>3 DEF RestoreInv, RestoredAsSaved, PauseLabels
  <2>. QED
    BY <2>4, <2>5
<1>9. CASE RestorePause
  <2>1. /\ pc[Main] = "restorePause" /\ ~paused /\ ~flag /\ Pending("pause") = {}
        /\ saved # NoState /\ SettledVolume = saved.volume
        /\ UNCHANGED <<mpvVars, flag, paused, saved>>
    BY <1>9 DEF RestoreInv, RestorePause, fileVars, mpvVars
  <2>2. /\ SettledPause' = SettledPause /\ SettledVolume' = SettledVolume
        /\ Pending("pause")' = {}
    BY <2>1, NothingQueued
  <2>3. SettledPause = FALSE /\ saved.paused \in BOOLEAN
    BY <1>1, <2>1 DEF SettledPause, Settled, States
  <2>4. CASE saved.paused = flag
    <3>1. pc'[Main] = "serve"
      BY <1>1, <1>9, <2>4 DEF RestorePause
    <3>2. saved.paused = FALSE /\ flag = FALSE
      BY <1>1, <2>1, <2>4
    <3>. QED
      BY <2>1, <2>2, <2>3, <3>1, <3>2 DEF RestoreInv, RestoredAsSaved, PauseLabels
  <2>5. CASE saved.paused # flag
    <3>1. pc'[Main] = "toggle"
      BY <1>1, <1>9, <2>5 DEF RestorePause
    <3>2. saved.paused = TRUE
      BY <1>1, <2>1, <2>3, <2>5
    <3>. QED
      BY <2>1, <2>2, <3>1, <3>2 DEF RestoreInv, RestoredAsSaved, PauseLabels
  <2>. QED
    BY <2>4, <2>5
<1>10. CASE Step(Main)
  <2>1. CASE Toggle(Main)
    <3>1. /\ ~paused /\ saved # NoState /\ SettledVolume = saved.volume /\ saved.paused
          /\ UNCHANGED <<mpvVars, saved>>
      BY <2>1 DEF RestoreInv, Toggle, PauseLabels, fileVars
    <3>2. pc'[Main] = "set" /\ state'[Main] = TRUE
      BY <1>1, <2>1, <3>1 DEF Toggle
    <3>3. SettledVolume' = SettledVolume
      BY <3>1, NothingQueued
    <3>. QED
      BY <3>1, <3>2, <3>3 DEF RestoreInv, RestoredAsSaved, PauseLabels
  <2>2. CASE RequestPause(Main)
    <3>1. /\ state[Main] /\ saved # NoState /\ SettledVolume = saved.volume /\ saved.paused
          /\ UNCHANGED <<state, saved>>
      BY <2>2 DEF RestoreInv, RequestPause, PauseLabels, fileVars
    <3>2. pc'[Main] = "store"
      BY <1>1, <2>2 DEF RequestPause
    <3>3. SettledVolume' = SettledVolume /\ SettledPause' = state[Main]
      BY <1>1, <2>2, PauseRequested
    <3>4. state[Main] = TRUE
      BY <1>1, <3>1
    <3>. QED
      BY <3>4, <3>1, <3>2, <3>3 DEF RestoreInv, RestoredAsSaved, PauseLabels
  <2>3. CASE StoreFlag(Main)
    <3>1. /\ state[Main] /\ saved # NoState /\ SettledVolume = saved.volume /\ saved.paused
          /\ SettledPause = TRUE
          /\ flag' = state[Main] /\ UNCHANGED <<mpvVars, saved>>
      BY <2>3 DEF RestoreInv, StoreFlag, PauseLabels, fileVars
    <3>2. pc'[Main] = "send"
      BY <1>1, <2>3 DEF StoreFlag
    <3>3. SettledVolume' = SettledVolume /\ SettledPause' = SettledPause
      BY <3>1, NothingQueued
    <3>. QED
      BY <3>1, <3>2, <3>3 DEF RestoreInv, RestoredAsSaved, PauseLabels
  <2>4. CASE SendPaused(Main)
    <3>1. /\ flag /\ saved # NoState /\ SettledVolume = saved.volume /\ saved.paused
          /\ SettledPause = TRUE /\ then[Main] = "serve"
          /\ UNCHANGED <<mpvVars, flag, saved>>
      BY <1>1, <2>4 DEF RestoreInv, SendPaused, PauseLabels, fileVars, ThreadsInv
    <3>2. pc'[Main] = "serve"
      BY <1>1, <2>4, <3>1 DEF SendPaused, Return
    <3>3. SettledVolume' = SettledVolume /\ SettledPause' = SettledPause
      BY <3>1, NothingQueued
    <3>4. /\ SettledPause' = TRUE /\ flag' = TRUE /\ saved.paused = TRUE
      <4>1. saved.paused \in BOOLEAN
        BY <1>1, <3>1 DEF States
      <4>. QED
        BY <1>1, <3>1, <3>3, <4>1
    <3>. QED
      BY <3>1, <3>2, <3>3, <3>4 DEF RestoreInv, RestoredAsSaved, PauseLabels
  <2>5. CASE RequestVolume(Main)
    <3>1. /\ ~paused /\ ~flag /\ Pending("pause") = {}
          /\ saved # NoState /\ vol[Main] = saved.volume
          /\ UNCHANGED <<paused, flag, saved>>
      BY <2>5 DEF RestoreInv, RequestVolume, fileVars
    <3>2. pc'[Main] = "vsend"
      BY <1>1, <2>5 DEF RequestVolume
    <3>3. SettledVolume' = saved.volume /\ Pending("pause")' = {}
      BY <1>1, <2>5, <3>1, VolumeRequested
    <3>. QED
      BY <3>1, <3>2, <3>3 DEF RestoreInv, RestoredAsSaved, PauseLabels
  <2>6. CASE SendVolume(Main)
    <3>1. /\ ~paused /\ ~flag /\ Pending("pause") = {}
          /\ saved # NoState /\ SettledVolume = saved.volume /\ then[Main] = "restorePause"
          /\ UNCHANGED <<paused, flag, saved, mpvVars>>
      BY <1>1, <2>6 DEF RestoreInv, SendVolume, fileVars, mpvVars, ThreadsInv, VolumeLabels
    <3>2. pc'[Main] = "restorePause"
      BY <1>1, <2>6, <3>1 DEF SendVolume, Return
    <3>3. SettledVolume' = SettledVolume /\ Pending("pause")' = {}
      BY <3>1, NothingQueued
    <3>. QED
      BY <3>1, <3>2, <3>3 DEF RestoreInv, RestoredAsSaved, PauseLabels
  <2>. QED
    BY <1>10, <2>1, <2>2, <2>3, <2>4, <2>5, <2>6 DEF Step
<1>11. CASE OpenFile \/ SaveVolume \/ SavePause
  <2>1. pc'[Main] \in {"saveVolume", "savePause", "saved"}
    BY <1>1, <1>11 DEF OpenFile, SaveVolume, SavePause
  <2>. QED
    BY <2>1 DEF RestoreInv, RestoredAsSaved, PauseLabels
<1>. QED
  BY <1>1, <1>3, <1>5, <1>6, <1>7, <1>8, <1>9, <1>10, <1>11 DEF Next, MainStep

\* Before the first command after a restart, the player is as it was saved, or as new
\* when the save was cut: never half of each (operator<<, operator>>, main).
THEOREM StateIsRestored == Spec => []RestoredAsSaved
<1>1. Init => RestoreInv
  <2> SUFFICES ASSUME Init
               PROVE  RestoreInv
    OBVIOUS
  <2>1. /\ paused = FALSE /\ volume = DefaultVolume /\ requests = <<>> /\ flag = FALSE
        /\ pc[Main] = "restore"
    BY DEF Init, Started, Threads
  <2>. QED
    BY <2>1, NewQueue DEF RestoreInv, RestoredAsSaved, PauseLabels
<1>2. CInv /\ RestoreInv /\ [Next]_vars => RestoreInv'
  BY RestoreStep
<1>3. RestoreInv => RestoredAsSaved
  BY DEF RestoreInv
<1>. QED
  BY <1>1, <1>2, <1>3, CInvariant, PTL DEF Spec
=============================================================================
