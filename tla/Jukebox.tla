------------------------------ MODULE Jukebox ------------------------------
(***************************************************************************)
(* What the play queue promises, without threads, locks, events or         *)
(* callbacks: musics wait in a queue, anyone may add or drop some, and a   *)
(* music is chosen, from the front, only when none is current.             *)
(***************************************************************************)
EXTENDS SequencesExt

CONSTANTS Music, None

VARIABLES
  queue,    \* the musics to come
  current   \* the music that was chosen to be played, or None

vars == <<queue, current>>

Init == queue \in Seq(Music) /\ current = None

Enqueue == \E m \in Music : queue' = Append(queue, m) /\ UNCHANGED current

Drop == \E i \in DOMAIN queue : queue' = RemoveAt(queue, i) /\ UNCHANGED current

Empty == queue' = <<>> /\ UNCHANGED current

\* The front of the queue becomes the current music.
Choose ==
  /\ current = None
  /\ queue # <<>>
  /\ current' = Head(queue)
  /\ queue' = Tail(queue)

Finish == current # None /\ current' = None /\ UNCHANGED queue

Next == Enqueue \/ Drop \/ Empty \/ Choose \/ Finish

Spec == Init /\ [][Next]_vars
=============================================================================
