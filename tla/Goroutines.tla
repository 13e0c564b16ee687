------------------------------ MODULE Goroutines ------------------------------
(***************************************************************************)
(* The goroutines of the application, and who holds a mutex that is free.  *)
(* The modules of the smaller clients share this declaration, so that a    *)
(* module that composes them has one set of callers.                       *)
(***************************************************************************)
CONSTANTS Callers, Nobody

ASSUME GoroutinesAssumption == Nobody \notin Callers
=============================================================================
