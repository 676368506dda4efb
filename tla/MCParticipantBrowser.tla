----------------------- MODULE MCParticipantBrowser -----------------------
(***************************************************************************)
(* Instances of ParticipantBrowser for TLC.                                *)
(***************************************************************************)
EXTENDS ParticipantBrowser

One == 1 .. 1
Two == 1 .. 2
Three == 1 .. 3

=============================================================================
