------------------------------- MODULE MCHub --------------------------------
(* A small instance of the live API for TLC: one market, as every market's copy depends
   on the others only through the numbering, which notices exercise too, and one client,
   as sessions share nothing but the copies. *)
EXTENDS Hub
=============================================================================
