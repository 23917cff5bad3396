--------------------------- MODULE MCPublishing ---------------------------
(* Two events for one content on two channels.                             *)
EXTENDS Publishing

CONSTANTS d1, d2, c, web, youtube

SameContent == [d \in Deliveries |-> c]
BothChannels == [x \in Contents |-> Channels]
=============================================================================
