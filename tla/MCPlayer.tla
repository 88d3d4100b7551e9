------------------------------ MODULE MCPlayer ------------------------------
(* Instances of Player for TLC.                                            *)
EXTENDS Player

CONSTANTS c1, c2, m1, m2, p1, p2

\* Nobody is in a named playlist: random() draws from the archive.
OwnNone == [c \in Clients |-> {}]

\* Client c1 is in a named playlist that holds m1.
OwnFirst == [c \in Clients |-> IF c = c1 THEN {m1} ELSE {}]

\* With OwnNone, clients, musics and playlist threads are interchangeable.
Interchangeable ==
  Permutations(Clients) \cup Permutations(Music) \cup Permutations(PlayThreads)
=============================================================================
