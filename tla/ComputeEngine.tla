---------------------------- MODULE ComputeEngine ----------------------------
(***************************************************************************)
(* What the compute-engine interface (compute_engine.h) promises the       *)
(* functional dispatcher, with no clock, no pipeline and no done signal: a *)
(* call takes effect once, in call order, and returns the value of its own *)
(* computation; a deferred MAC16 is pending until it is drained, and a     *)
(* drain returns the result of the last one queued.                        *)
(*                                                                         *)
(* A value is the set of contributions summed into it (see PimMacTree).    *)
(***************************************************************************)
EXTENDS Integers

CONSTANTS Lanes,      \* lanes of a result word
          Ops,        \* the interface's operations that are called
          LossyOps,   \* operations whose call may fail (success = false)
          MaxCalls    \* bound on the number of calls

VARIABLES phase,      \* "idle", "called" (before the unit starts), "run"
          call,       \* the call in progress, or the last one
          ncalls,     \* calls made; the number of a call names its operands
          chain,      \* per unit, the contributions in its accumulator
          last,       \* the last MAC's result word, the input of the activation
          queued,     \* the last deferred MAC16's result word
          pend,       \* has_pending_mac16()
          ret         \* the last returned result

vars == <<phase, call, ncalls, chain, last, queued, pend, ret>>

Tree == INSTANCE PimMacTree

NoCall == [op |-> "none", acc_en |-> FALSE, id |-> 0]

Init ==
  /\ phase = "idle" /\ call = NoCall /\ ncalls = 0
  /\ chain = [u \in Tree!Units |-> {}]
  /\ last = Tree!ZeroFlat /\ queued = Tree!ZeroFlat /\ pend = FALSE
  /\ ret = [op |-> "none", success |-> FALSE, data |-> Tree!ZeroFlat, product |-> 0]

Call(op, acc) ==
  /\ phase = "idle" /\ ncalls < MaxCalls
  /\ phase' = "called" /\ ncalls' = ncalls + 1
  /\ call' = [op |-> op, acc_en |-> acc, id |-> ncalls + 1]
  /\ UNCHANGED <<chain, last, queued, pend, ret>>

(* Every call but enqueue_mac16 drains the deferred MAC16s first. *)
Drain ==
  /\ phase = "called" /\ call.op # "enqueue" /\ pend
  /\ pend' = FALSE
  /\ UNCHANGED <<phase, call, ncalls, chain, last, queued, ret>>

UnitOf(op) == IF op = "mac" THEN "scalar" ELSE "abk"

IsMac(op) == op \in {"mac", "mac16", "enqueue"}

(* A chain starts with the bias of its first transaction. *)
Chained(old, c) == IF c.acc_en THEN old \union {c.id} ELSE {c.id, -c.id}

Issue ==
  /\ phase = "called" /\ call.op # "flush"
  /\ call.op # "enqueue" => ~pend
  /\ phase' = "run"
  /\ LET u == UnitOf(call.op)
         sum == Chained(chain[u], call)
     IN  IF IsMac(call.op)
           THEN /\ chain' = [chain EXCEPT ![u] = sum]
                /\ last' = Tree!Flat(u, sum)
                /\ queued' = IF call.op = "enqueue" THEN Tree!Flat(u, sum) ELSE queued
           ELSE UNCHANGED <<chain, last, queued>>
  /\ UNCHANGED <<call, ncalls, pend, ret>>

Result(c) ==
  CASE c.op \in {"mac", "mac16", "af"} ->
         [op |-> c.op, success |-> TRUE, data |-> last, product |-> 0]
    [] c.op = "ewmul" ->
         [op |-> c.op, success |-> TRUE, data |-> Tree!ZeroFlat, product |-> c.id]
    [] c.op = "enqueue" ->
         [op |-> c.op, success |-> FALSE, data |-> Tree!ZeroFlat, product |-> 0]
    [] c.op = "flush" ->
         [op |-> c.op, success |-> queued # Tree!ZeroFlat, data |-> queued, product |-> 0]

(* A failed call returns no data; the unit did its work all the same. *)
Failure(c) == [op |-> c.op, success |-> FALSE, data |-> Tree!ZeroFlat, product |-> 0]

Return ==
  /\ phase = "run" \/ (phase = "called" /\ call.op = "flush" /\ ~pend)
  /\ phase' = "idle"
  /\ \/ ret' = Result(call)
     \/ call.op \in LossyOps /\ ret' = Failure(call)
  /\ pend' = (call.op = "enqueue")
  /\ UNCHANGED <<call, ncalls, chain, last, queued>>

(* reset() discards the deferred MAC16s and clears the unit. *)
Reset ==
  /\ phase = "idle" /\ ncalls < MaxCalls
  /\ ncalls' = ncalls + 1
  /\ chain' = [u \in Tree!Units |-> {}]
  /\ last' = Tree!ZeroFlat /\ queued' = Tree!ZeroFlat /\ pend' = FALSE
  /\ UNCHANGED <<phase, call, ret>>

Next ==
  \/ \E op \in Ops, acc \in BOOLEAN : Call(op, acc)
  \/ Drain \/ Issue \/ Return \/ Reset

Spec == Init /\ [][Next]_vars
=============================================================================
