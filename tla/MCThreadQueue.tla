--------------------------- MODULE MCThreadQueue ----------------------------
(***************************************************************************)
(* The queue between two threads, with two pushers, of which the push of   *)
(* one may throw, one popper, and a thread that disables and enables it.   *)
(***************************************************************************)
EXTENDS ThreadQueue

MCSpec == QuInit /\ [][QuNext]_quvars
=============================================================================
