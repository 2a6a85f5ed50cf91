----------------------------- MODULE MCConsole -----------------------------
(***************************************************************************)
(* Small instances of Console.tla.  The firmware leaves Junk everywhere.   *)
(***************************************************************************)
EXTENDS Console

MCBios == [a \in Addr |-> Junk]
=============================================================================
