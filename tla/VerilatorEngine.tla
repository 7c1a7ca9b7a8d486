--------------------------- MODULE VerilatorEngine ---------------------------
(***************************************************************************)
(* The host side of the co-simulation: VerilatorEngine drives the RTL      *)
(* processing unit (PimMacTree) one clock_tick at a time, recognises a     *)
(* completion by a rising edge of o_done, and lets deferred MAC16s overlap *)
(* in the pipeline.  Each action is one clock tick of a call, or the code  *)
(* between two ticks; the unit's registers only change through Clock.      *)
(*                                                                         *)
(* AiMComputeEngine's wrapper is included: the cycles a call reports are   *)
(* the ticks it took, raised to a configured override.                     *)
(***************************************************************************)
EXTENDS PimMacTree, FiniteSets

CONSTANTS Ops,        \* the operations that are called
          LossyOps,   \* operations the contract lets fail
          MaxCalls,   \* bound on the number of calls
          MaxWait,    \* max_cycles of wait_for_done and of the flush (10000)
          Override    \* cycle override of the configuration (0: none)

ASSUME EngineAssumption ==
  /\ Ops \subseteq {"mac", "mac16", "enqueue", "flush", "af", "ewmul"}
  /\ MaxCalls \in Nat /\ MaxWait \in Nat \ {0} /\ Override \in Nat

(* The loops outlast an activation, the longest transaction there is.      *)
ASSUME WaitAssumption == MaxWait >= 5

VARIABLES dut,        \* registers of the processing unit
          pins,       \* its inputs, which keep their values between calls
          prev_done,  \* o_done at the last observation
          pending_mac16_count,
          cycles_since_last_mac16_start,
          last_mac16_result,
          last_mac16_result_valid,
          pc,         \* where the call in progress is
          call,       \* the call in progress, or the last one
          ncalls,     \* calls made; the number of a call names its operands
          waited,     \* ticks of the running wait or flush loop
          elapsed,    \* get_time() since the call began
          drained,    \* the call had deferred MAC16s to drain first
          ret         \* the last returned result

host == <<prev_done, pending_mac16_count, cycles_since_last_mac16_start,
          last_mac16_result, last_mac16_result_valid>>
vars == <<dut, pins, host, pc, call, ncalls, waited, elapsed, drained, ret>>

(* Mutant: MAC16s may start in consecutive cycles. *)
MutNoSpacing == 1

kMac16StartSpacingCycles == 2
kMac16LatencyCycles == 4

NoCall == [op |-> "none", acc_en |-> FALSE, id |-> 0]

IdlePins ==
  [ i_start |-> FALSE, i_acc_en |-> FALSE, i_bias_en |-> FALSE,
    i_ewmul_en |-> FALSE, i_af_en |-> FALSE, i_all_bank_vector_en |-> FALSE,
    operand |-> NoTransaction ]

Init ==
  /\ dut = ResetState /\ pins = IdlePins
  /\ prev_done = FALSE /\ pending_mac16_count = 0
  /\ cycles_since_last_mac16_start = kMac16StartSpacingCycles
  /\ last_mac16_result = ZeroFlat /\ last_mac16_result_valid = FALSE
  /\ pc = "idle" /\ call = NoCall /\ ncalls = 0
  /\ waited = 0 /\ elapsed = 0 /\ drained = FALSE
  /\ ret = [op |-> "none", success |-> FALSE, data |-> ZeroFlat, product |-> 0,
            rtl_cycles |-> 0]

(* One clock_tick with the pins p; they are stable across the edge. *)
clock_tick(p) ==
  /\ dut' = Clock(dut, p)
  /\ elapsed' = elapsed + 1

(* observe_done_rising, after a tick. *)
DoneRises == dut'.o_done /\ ~prev_done

(* Mutant: the observed level is never lowered again. *)
MutStickyDone == prev_done' = (prev_done \/ dut'.o_done)

observe_done_rising == prev_done' = dut'.o_done

(* Mutant: the result word is sampled before the tick that completes it. *)
MutCaptureEarly ==
  /\ observe_done_rising
  /\ IF DoneRises /\ pending_mac16_count > 0
       THEN /\ last_mac16_result' = dut.mac_q
            /\ last_mac16_result_valid' = TRUE
            /\ pending_mac16_count' = pending_mac16_count - 1
       ELSE UNCHANGED <<last_mac16_result, last_mac16_result_valid, pending_mac16_count>>

(* capture_mac16_done_if_ready, after a tick. *)
capture_mac16_done_if_ready ==
  /\ observe_done_rising
  /\ IF DoneRises /\ pending_mac16_count > 0
       THEN /\ last_mac16_result' = dut'.mac_q
            /\ last_mac16_result_valid' = TRUE
            /\ pending_mac16_count' = pending_mac16_count - 1
       ELSE UNCHANGED <<last_mac16_result, last_mac16_result_valid, pending_mac16_count>>

Call(op, acc) ==
  /\ pc = "idle" /\ ncalls < MaxCalls
  /\ op \notin {"mac", "mac16", "enqueue"} => ~acc
  /\ pc' = IF op = "enqueue" THEN "space" ELSE "flush"
  /\ ncalls' = ncalls + 1
  /\ call' = [op |-> op, acc_en |-> acc, id |-> ncalls + 1]
  /\ waited' = 0 /\ elapsed' = 0 /\ drained' = (pending_mac16_count > 0)
  /\ UNCHANGED <<dut, pins, host, ret>>

(* apply_override *)
apply_override(measured, override) ==
  IF override > measured THEN override ELSE measured

Finish(success, data, product, cycles) ==
  /\ pc' = "idle"
  /\ ret' = [op |-> call.op, success |-> success, data |-> data, product |-> product,
             rtl_cycles |-> cycles]

(***************************************************************************)
(* flush_mac16_pipeline: tick until nothing is pending.  It is a call of   *)
(* its own and the first thing every execute_* call does, which discards   *)
(* its result.                                                             *)
(***************************************************************************)
FlushGoesOn == pending_mac16_count > 0 /\ waited < MaxWait

FlushTick ==
  /\ pc = "flush" /\ FlushGoesOn
  /\ clock_tick(pins)
  /\ capture_mac16_done_if_ready
  /\ cycles_since_last_mac16_start' = cycles_since_last_mac16_start + 1
  /\ waited' = waited + 1
  /\ UNCHANGED <<pins, pc, call, ncalls, drained, ret>>

(* Mutant: a flush returns only when it has a result. *)
MutFlushHangs ==
  /\ pc = "flush" /\ ~FlushGoesOn /\ call.op = "flush" /\ last_mac16_result_valid
  /\ Finish(TRUE, last_mac16_result, 0, 0)
  /\ UNCHANGED <<dut, pins, host, call, ncalls, waited, elapsed, drained>>

FlushReturn ==
  /\ pc = "flush" /\ ~FlushGoesOn /\ call.op = "flush"
  /\ LET ok == pending_mac16_count = 0 /\ last_mac16_result_valid
     IN  Finish(ok, IF ok THEN last_mac16_result ELSE ZeroFlat, 0, 0)
  /\ UNCHANGED <<dut, pins, host, call, ncalls, waited, elapsed, drained>>

(* The pins an execute_* call drives before it asserts i_start.  AF leaves *)
(* i_all_bank_vector_en as the last MAC set it, and so does EWMUL.  The    *)
(* dispatcher, which is the caller, asks for the bias when it starts an    *)
(* accumulation and only then.                                             *)
DrivenPins(c) ==
  CASE c.op \in {"mac", "mac16", "enqueue"} ->
         [pins EXCEPT !.i_acc_en = c.acc_en, !.i_bias_en = ~c.acc_en,
                      !.i_ewmul_en = FALSE, !.i_af_en = FALSE,
                      !.i_all_bank_vector_en = (c.op # "mac"), !.operand = c.id]
    [] c.op = "af" ->
         [pins EXCEPT !.i_af_en = TRUE, !.i_ewmul_en = FALSE]
    [] c.op = "ewmul" ->
         [pins EXCEPT !.i_ewmul_en = TRUE, !.i_acc_en = FALSE, !.i_bias_en = FALSE,
                      !.i_af_en = FALSE, !.operand = c.id]

(* i_start is asserted for one tick, whose o_done nobody looks at. *)
ExecuteStart ==
  /\ pc = "flush" /\ ~FlushGoesOn /\ call.op # "flush"
  /\ pins' = DrivenPins(call)
  /\ clock_tick([DrivenPins(call) EXCEPT !.i_start = TRUE])
  /\ pc' = "wait" /\ waited' = 0
  /\ UNCHANGED <<host, call, ncalls, drained, ret>>

(* The word an execute_* call unpacks when it succeeds. *)
ResultWord(c, d) == IF c.op = "af" THEN d.af_q ELSE IF c.op = "ewmul" THEN ZeroFlat ELSE d.mac_q

ReleasedPins(c) ==
  [pins EXCEPT !.i_af_en = IF c.op = "af" THEN FALSE ELSE @,
               !.i_ewmul_en = IF c.op = "ewmul" THEN FALSE ELSE @]

(* wait_for_done: one iteration, and the code after the loop. *)
WaitTick ==
  /\ pc = "wait"
  /\ clock_tick(pins)
  /\ observe_done_rising
  /\ waited' = waited + 1
  /\ IF DoneRises \/ waited + 1 = MaxWait
       THEN /\ Finish(DoneRises,
                      IF DoneRises THEN ResultWord(call, dut') ELSE ZeroFlat,
                      IF DoneRises /\ call.op = "ewmul" THEN dut'.ew_q ELSE 0,
                      apply_override(elapsed + 1, Override))
            /\ pins' = ReleasedPins(call)
       ELSE UNCHANGED <<pins, pc, ret>>
  /\ UNCHANGED <<pending_mac16_count, cycles_since_last_mac16_start, last_mac16_result,
                 last_mac16_result_valid, call, ncalls, drained>>

(***************************************************************************)
(* enqueue_mac16: idle ticks until two cycles separate two starts, the     *)
(* start tick, and the bookkeeping after it.                               *)
(***************************************************************************)
MustSpace == cycles_since_last_mac16_start < kMac16StartSpacingCycles - 1

SpaceTick ==
  /\ pc = "space" /\ MustSpace
  /\ clock_tick(pins)
  /\ capture_mac16_done_if_ready
  /\ cycles_since_last_mac16_start' = cycles_since_last_mac16_start + 1
  /\ UNCHANGED <<pins, pc, call, ncalls, waited, drained, ret>>

EnqueueStart ==
  /\ pc = "space" /\ ~MustSpace
  /\ pins' = DrivenPins(call)
  /\ clock_tick([DrivenPins(call) EXCEPT !.i_start = TRUE])
  /\ capture_mac16_done_if_ready
  /\ pc' = "enqueued"
  /\ UNCHANGED <<cycles_since_last_mac16_start, call, ncalls, waited, drained, ret>>

(* Mutant: a queued MAC16 is counted twice. *)
MutCountedTwice ==
  /\ pc = "enqueued"
  /\ pending_mac16_count' = pending_mac16_count + 2
  /\ cycles_since_last_mac16_start' = 0
  /\ Finish(FALSE, ZeroFlat, 0, apply_override(kMac16LatencyCycles, Override))
  /\ UNCHANGED <<dut, pins, prev_done, last_mac16_result, last_mac16_result_valid,
                 call, ncalls, waited, elapsed, drained>>

EnqueueReturn ==
  /\ pc = "enqueued"
  /\ pending_mac16_count' = pending_mac16_count + 1
  /\ cycles_since_last_mac16_start' = 0
  /\ Finish(FALSE, ZeroFlat, 0, apply_override(kMac16LatencyCycles, Override))
  /\ UNCHANGED <<dut, pins, prev_done, last_mac16_result, last_mac16_result_valid,
                 call, ncalls, waited, elapsed, drained>>

(* reset(): ten ticks with rst_n low and two more, with every start low.   *)
Reset ==
  /\ pc = "idle" /\ ncalls < MaxCalls
  /\ ncalls' = ncalls + 1
  /\ dut' = ResetState
  /\ pins' = IdlePins
  /\ prev_done' = FALSE /\ pending_mac16_count' = 0
  /\ cycles_since_last_mac16_start' = kMac16StartSpacingCycles
  /\ last_mac16_result' = ZeroFlat /\ last_mac16_result_valid' = FALSE
  /\ UNCHANGED <<pc, call, waited, elapsed, drained, ret>>

Next ==
  \/ \E op \in Ops, acc \in BOOLEAN : Call(op, acc)
  \/ FlushTick \/ FlushReturn
  \/ ExecuteStart \/ WaitTick
  \/ SpaceTick \/ EnqueueStart \/ EnqueueReturn
  \/ Reset

(* A call in progress runs to its return: it is a C++ function.            *)
Progress == FlushTick \/ FlushReturn \/ ExecuteStart \/ WaitTick
            \/ SpaceTick \/ EnqueueStart \/ EnqueueReturn

Spec == Init /\ [][Next]_vars /\ WF_vars(Progress)
-----------------------------------------------------------------------------
(* The state has its type, and nothing is pending without a start. *)
TypeOK ==
  /\ DOMAIN dut = DOMAIN ResetState /\ DOMAIN pins = DOMAIN IdlePins
  /\ prev_done \in BOOLEAN /\ last_mac16_result_valid \in BOOLEAN /\ drained \in BOOLEAN
  /\ pending_mac16_count \in 0..MaxCalls
  /\ cycles_since_last_mac16_start \in Nat
  /\ pc \in {"idle", "flush", "wait", "space", "enqueued"}
  /\ ncalls \in 0..MaxCalls /\ waited \in 0..MaxWait /\ elapsed \in Nat
  /\ \A l \in Lanes : dut.mac_q[l].sum \subseteq (-MaxCalls)..MaxCalls

(***************************************************************************)
(* The transactions of unit u that have started and whose done has not     *)
(* been reported on o_done yet.                                            *)
(***************************************************************************)
InFlight(u) ==
  LET stage(b) == IF b THEN 1 ELSE 0
  IN  stage(dut.s1[u] # NoTransaction) + stage(dut.tree[u] # NoTransaction)
      + stage(dut.acc_done[u])

(***************************************************************************)
(* Between calls pending_mac16_count is exactly the number of MAC16s in    *)
(* the all-bank pipeline: no completion pulse was merged with the one      *)
(* before it, missed, or taken twice, and no scalar MAC is left behind.    *)
(* It rests on the two-cycle start spacing and on o_done being low for a   *)
(* tick between two completions (enqueue_mac16, flush_mac16_pipeline).     *)
(***************************************************************************)
PendingIsInFlight ==
  pc = "idle" =>
    /\ pending_mac16_count = InFlight("abk")
    /\ InFlight("scalar") = 0

(***************************************************************************)
(* The accumulation controls a MAC was started with reach the accumulator  *)
(* together with its operands: a stage that holds no transaction holds no  *)
(* control either, and the two units never hold a transaction in the same  *)
(* stage.                                                                  *)
(***************************************************************************)
ControlsTravelWithOperands ==
  /\ (\A u \in Units : dut.s1[u] = NoTransaction) => ~dut.ctl0.acc_en /\ ~dut.ctl0.bias_en
  /\ (\A u \in Units : dut.tree[u] = NoTransaction) => ~dut.ctl1.acc_en /\ ~dut.ctl1.bias_en
  /\ dut.s1["scalar"] = NoTransaction \/ dut.s1["abk"] = NoTransaction
  /\ dut.tree["scalar"] = NoTransaction \/ dut.tree["abk"] = NoTransaction

(***************************************************************************)
(* A contribution is summed once: the left and right lanes that the merge  *)
(* adds up never hold the same transaction (accumulator_param).            *)
(***************************************************************************)
LanesDisjoint == \A u \in Units : dut.left[u] \cap dut.right[u] = {}

(***************************************************************************)
(* The latency an execute_* call reports is the unit's own: 4 ticks for a  *)
(* MAC, 6 for an activation, 2 for an element-wise product, whatever ran   *)
(* before it, unless deferred MAC16s had to be drained inside the call     *)
(* (ComputeResult.rtl_cycles: "measured per command").                     *)
(***************************************************************************)
IntrinsicLatency(op) == CASE op \in {"mac", "mac16"} -> 4 [] op = "af" -> 6 [] op = "ewmul" -> 2

ReportedLatency ==
  (pc = "idle" /\ ret.op \in {"mac", "mac16", "af", "ewmul"} /\ ~drained /\ call.op = ret.op)
    => ret.rtl_cycles = apply_override(IntrinsicLatency(ret.op), Override)

(* Every call returns: the done of the started transaction is seen, or the *)
(* loop runs out (wait_for_done, flush_mac16_pipeline).                    *)
CallsReturn == (pc # "idle") ~> (pc = "idle")

(***************************************************************************)
(* The rising edge that an execute_* call waits for always comes: no call  *)
(* ends in the timeout branch of wait_for_done ("Wait for o_done rising    *)
(* edge", verilator_engine.h).                                             *)
(***************************************************************************)
ExecuteSeesDone ==
  (pc = "idle" /\ ret.op \in {"mac", "mac16", "af", "ewmul"}) => ret.success
-----------------------------------------------------------------------------
(***************************************************************************)
(* The refinement of ComputeEngine.  A call takes effect in the tick that  *)
(* starts it, so the abstract accumulators are the registers with what the *)
(* pipeline still holds applied to them, oldest stage first.               *)
(***************************************************************************)
Applied(old, id, ctl) ==
  IF id = NoTransaction THEN old
  ELSE (IF ctl.acc_en THEN old ELSE {}) \union {id}
       \union (IF ctl.bias_en /\ ~ctl.acc_en THEN {-id} ELSE {})

ChainOf(u) ==
  Applied(Applied(dut.left[u] \union dut.right[u], dut.tree[u], dut.ctl1), dut.s1[u], dut.ctl0)

LastWord ==
  IF \E u \in Units : InFlight(u) > 0
    THEN LET u == CHOOSE v \in Units : InFlight(v) > 0 IN Flat(u, ChainOf(u))
    ELSE dut.mac_q

QueuedWord ==
  IF pending_mac16_count > 0 \/ pc = "enqueued"
    THEN Flat("abk", ChainOf("abk"))
    ELSE last_mac16_result

PhaseOf ==
  CASE pc = "idle" -> "idle"
    [] pc \in {"flush", "space"} -> "called"
    [] pc \in {"wait", "enqueued"} -> "run"

Contract == INSTANCE ComputeEngine WITH
  phase <- PhaseOf, chain <- [u \in Units |-> ChainOf(u)], last <- LastWord,
  queued <- QueuedWord, pend <- (pending_mac16_count > 0),
  ret <- [op |-> ret.op, success |-> ret.success, data |-> ret.data, product |-> ret.product]

(***************************************************************************)
(* Clocked, pipelined and edge-detected, the engine still behaves as the   *)
(* interface promises: each call takes effect once and in order, returns   *)
(* its own result, and a drain returns the last deferred MAC16             *)
(* (VerilatorEngine and pim_mac_tree against IComputeEngine).              *)
(***************************************************************************)
ImplementsComputeEngine == Contract!Spec
=============================================================================
