------------------------- MODULE MCChatMessageStore -------------------------
(* A small instance of ChatMessageStore for TLC.                           *)
EXTENDS ChatMessageStore, TLC

CONSTANTS c1, c2

MCChannels == {c1, c2}

Symmetry == Permutations(MCChannels)
=============================================================================
