---------------------------- MODULE MCHandleTable ----------------------------
(* HandleTable with the bounds of its .cfg.                                *)
EXTENDS HandleTable
===============================================================================
