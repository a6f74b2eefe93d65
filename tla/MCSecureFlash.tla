---------------------------- MODULE MCSecureFlash ----------------------------
(* Two zones, one of the file system and one of a client. *)
EXTENDS SecureFlash

MCAppData == {[app_id |-> 1, zone_id |-> 0], [app_id |-> 2, zone_id |-> 1]}
===============================================================================
