------------------------------ MODULE MCServer -------------------------------
(* Instances of Server for TLC.                                            *)
EXTENDS Server

CONSTANTS p1, p2, w1

\* A client that sends a line and a part of another, and one that listens only.
LineAndPart == [p \in Peers |-> IF p = p1 THEN <<1, 0, 1>> ELSE <<>>]
=============================================================================
