---------------------------- MODULE MCArchiveMgr ----------------------------
(* Instances of ArchiveMgr for TLC.                                        *)
EXTENDS ArchiveMgr

\* Parsers and playlists are interchangeable.
Interchangeable == Permutations(Parsers) \cup Permutations(Names)
=============================================================================
