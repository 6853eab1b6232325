--------------------------- MODULE MCServerSessions ---------------------------
(* Two connections, two users, one channel.                                *)
EXTENDS ServerSessions, TLC

CONSTANTS n1, n2, u1, u2

MCConns == {n1, n2}
MCUsers == {u1, u2}
Symmetry == Permutations(MCConns) \cup Permutations(MCUsers)
=============================================================================
