----------------------------- MODULE MCCloseGate -----------------------------
(* CloseGate on small instances.                                           *)
EXTENDS CloseGate

AllChannels == Channels
CloseOnly == {"close:requested"}
NoChannel == {}

=============================================================================
