-------------------------- MODULE MCClientSession ---------------------------
(* ClientSession with one user at the keyboard, one other, two channels.   *)
EXTENDS ClientSession

CONSTANTS c1, c2

MCChannels == {c1}
=============================================================================
