----------------------------- MODULE MCGuestInit -----------------------------
(* GuestInit for TLC, with the daemons of main. *)
EXTENDS GuestInit

MCDaemons == <<"servicemanager", "surfaceflinger", "zygote64">>
=============================================================================
