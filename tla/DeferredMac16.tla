---------------------------- MODULE DeferredMac16 ----------------------------
(***************************************************************************)
(* Deferring MAC16s is invisible: the dispatcher that queues them in the   *)
(* engine implements the dispatcher that stores every result at once, if   *)
(* the result registers are taken as what a flush would leave in them.     *)
(* What commands log, and every other piece of memory, is the same.        *)
(***************************************************************************)
EXTENDS FunctionalDispatcher

Eager == INSTANCE FunctionalDispatcher
           WITH Deferred <- FALSE, pending <- FALSE,
                queued <- ZeroWord, mac_results <- FlushedResults

(* No command stream tells a deferring engine from one that is not: every  *)
(* packet logged by RD, RDMAC16 and RDAF16 is what eager MAC16s would log. *)
ImplementsEager == Eager!Spec
=============================================================================
