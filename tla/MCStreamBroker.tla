--------------------------- MODULE MCStreamBroker ---------------------------
(* Instances of StreamBroker for TLC. *)
EXTENDS StreamBroker, TLC
CONSTANTS r1, r2

MCReaders == {r1, r2}
MCOneReader == {r1}
=============================================================================
