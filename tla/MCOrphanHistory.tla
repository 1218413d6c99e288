-------------------------- MODULE MCOrphanHistory --------------------------
(***************************************************************************)
(* The small instance of MCSynchronizer with the history of what each      *)
(* catalog's last List missed.                                             *)
(***************************************************************************)
EXTENDS MCSynchronizer, OrphanHistory
=============================================================================
