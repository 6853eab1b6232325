-------------------------- MODULE MCServerDatabase --------------------------
(* ServerDatabase with two names for users and two for channels, which are *)
(* interchangeable.                                                        *)
EXTENDS ServerDatabase, TLC

CONSTANTS u, v, a, b

MCUserNames == {u, v}
MCChannelNames == {a, b}
Symmetry == Permutations(MCChannelNames)
=============================================================================
