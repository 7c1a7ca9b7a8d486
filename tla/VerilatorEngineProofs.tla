----------------------- MODULE VerilatorEngineProofs -----------------------
(***************************************************************************)
(* Proofs about the engine on top of the clocked unit: for any number of   *)
(* lanes and of calls, any cycle override, and any loop bound that leaves  *)
(* an activation the time it takes.                                        *)
(***************************************************************************)
EXTENDS VerilatorEngine, TLAPS

WaitedMacs == {"mac", "mac16"}
ExecuteOps == {"mac", "mac16", "af", "ewmul"}

(* The unit that the driven pins select. *)
Selected == IF pins.i_all_bank_vector_en THEN "abk" ELSE "scalar"

(* Pins at rest: i_start is low between two ticks. *)
PinType ==
  [i_start : {FALSE}, i_acc_en : BOOLEAN, i_bias_en : BOOLEAN, i_ewmul_en : BOOLEAN,
   i_af_en : BOOLEAN, i_all_bank_vector_en : BOOLEAN, operand : Nat]

PinsOK == pins \in PinType

(* Where the call in progress may be, and what it has driven.              *)
CallOK ==
  /\ call \in [op : Ops \union {"none"}, acc_en : BOOLEAN, id : Nat]
  /\ pc # "idle" => call.op \in Ops /\ call.id = ncalls /\ ncalls > 0
  /\ pc = "flush" => call.op # "enqueue"
  /\ pc \in {"space", "enqueued"} => call.op = "enqueue"
  /\ pc = "wait" => /\ call.op \in ExecuteOps
                    /\ call.op \in WaitedMacs => (call.op = "mac" <=> ~pins.i_all_bank_vector_en)

(* Outside wait_for_done only deferred MAC16s are in the unit, every other *)
(* stage at most: completions are a tick apart, o_done falls between them, *)
(* and each is counted as pending until the tick that shows it.            *)
DeferredOK ==
  pc # "wait" =>
    /\ dut.s1["scalar"] = NoTransaction /\ dut.tree["scalar"] = NoTransaction
    /\ ~dut.acc_done["scalar"] /\ ~dut.ew_done
    /\ \A u \in Units : dut.af_cnt[u] = 0 /\ ~dut.af_done[u]
    /\ dut.s1["abk"] = NoTransaction \/ dut.tree["abk"] = NoTransaction
    /\ dut.tree["abk"] = NoTransaction \/ ~dut.acc_done["abk"]
    /\ ~dut.acc_done["abk"] \/ ~dut.o_done
    /\ prev_done = dut.o_done
    /\ pending_mac16_count + (IF pc = "enqueued" THEN 1 ELSE 0) = InFlight("abk")

(* How old the deferred MAC16s are when the code looks at its counters.    *)
SpacingOK ==
  /\ pc \in {"idle", "flush", "space"} /\ dut.s1["abk"] # NoTransaction =>
       cycles_since_last_mac16_start = 0
  /\ pc = "idle" => /\ dut.tree["abk"] = NoTransaction
                    /\ dut.acc_done["abk"] => dut.s1["abk"] # NoTransaction
  /\ pc = "space" => /\ dut.tree["abk"] # NoTransaction => ~MustSpace
                     /\ dut.acc_done["abk"] => dut.s1["abk"] # NoTransaction
                     /\ MustSpace => dut.tree["abk"] = NoTransaction
  /\ pc = "enqueued" => dut.s1["abk"] # NoTransaction
  /\ pc = "flush" => /\ dut.s1["abk"] # NoTransaction => waited = 0
                     /\ dut.tree["abk"] # NoTransaction => waited <= 1
                     /\ dut.acc_done["abk"] => waited <= 2

(* An execute_* call has the unit for itself: after so many ticks its      *)
(* transaction is in that very stage.                                      *)
WaitOK ==
  pc = "wait" =>
    /\ pending_mac16_count = 0
    /\ \A u \in Units :
         LET mac == call.op \in WaitedMacs /\ u = Selected
             af  == call.op = "af" /\ u = Selected
         IN  /\ dut.s1[u] = IF mac /\ waited = 0 THEN call.id ELSE NoTransaction
             /\ dut.tree[u] = IF mac /\ waited = 1 THEN call.id ELSE NoTransaction
             /\ dut.acc_done[u] <=> (mac /\ waited = 2)
             /\ dut.af_cnt[u] = IF af /\ waited < 4 THEN 4 - waited ELSE 0
             /\ dut.af_done[u] <=> (af /\ waited = 4)
    /\ dut.ew_done <=> (call.op = "ewmul" /\ waited = 0)
    /\ dut.o_done <=> (call.op = "ewmul" /\ waited = 1)
    /\ waited > 0 => prev_done = dut.o_done
    /\ call.op \in WaitedMacs => waited <= 2
    /\ call.op = "af" => waited <= 4
    /\ call.op = "ewmul" => waited < MaxWait

(* The ticks of a call that had nothing to drain. *)
ElapsedOK ==
  ~drained => /\ pc = "flush" => elapsed = 0 /\ waited = 0 /\ pending_mac16_count = 0
              /\ pc = "wait" => elapsed = waited + 1

(* The last number that a transaction in the unit may have: the call in    *)
(* progress has not entered it while it flushes or makes space.            *)
Issued == IF pc \in {"flush", "space"} THEN ncalls - 1 ELSE ncalls

Within(sum, n) == \A x \in sum : x \in Int /\ -n <= x /\ x <= n

(* What is in a stage is newer than what an accumulator holds.             *)
Values(d, n) ==
  /\ \A u \in Units :
       /\ d.s1[u] \in 0 .. n /\ d.tree[u] \in 0 .. n
       /\ Within(d.left[u] \union d.right[u], n) /\ Within(d.acc_out[u], n)
       /\ d.s1[u] # NoTransaction => Within(d.left[u] \union d.right[u], d.s1[u] - 1)
       /\ d.tree[u] # NoTransaction => Within(d.left[u] \union d.right[u], d.tree[u] - 1)
       /\ d.s1[u] # NoTransaction /\ d.tree[u] # NoTransaction => d.tree[u] < d.s1[u]
       /\ d.left[u] \intersect d.right[u] = {}
  /\ \A l \in Lanes : Within(d.mac_q[l].sum, n)

ValuesOK ==
  /\ Values(dut, Issued)
  /\ pending_mac16_count <= IF pc = "enqueued" THEN ncalls - 1 ELSE Issued

(* The controls beside the operands, and a first step that adds its bias.  *)
Controls(d) ==
  /\ (\A u \in Units : d.s1[u] = NoTransaction) => ~d.ctl0.acc_en /\ ~d.ctl0.bias_en
  /\ (\A u \in Units : d.tree[u] = NoTransaction) => ~d.ctl1.acc_en /\ ~d.ctl1.bias_en
  /\ d.s1["scalar"] = NoTransaction \/ d.s1["abk"] = NoTransaction
  /\ d.tree["scalar"] = NoTransaction \/ d.tree["abk"] = NoTransaction

IInv ==
  /\ TypeOK /\ PinsOK /\ CallOK /\ DeferredOK /\ SpacingOK /\ WaitOK /\ ElapsedOK
  /\ ValuesOK /\ Controls(dut)
-----------------------------------------------------------------------------
(* One tick of the unit, from registers d to registers e.                  *)

(* The stages after a tick. *)
LEMMA Stages ==
  ASSUME NEW d, NEW p, NEW e, e = Clock(d, p), NEW u \in Units
  PROVE  /\ e.s1[u] = IF mac_start(p, u) THEN p.operand ELSE NoTransaction
         /\ e.tree[u] = d.s1[u]
         /\ e.acc_done[u] <=> d.tree[u] # NoTransaction
         /\ e.af_cnt[u] = IF af_accepted(d, p, u) THEN 4
                          ELSE IF d.af_cnt[u] > 0 THEN d.af_cnt[u] - 1 ELSE 0
         /\ e.af_done[u] <=> d.af_cnt[u] = 1
<1>1. e.s1 = s1_next(d, p) /\ e.tree = d.s1
  BY DEF Clock, tree_next
<1>2. e.acc_done = [v \in Units |-> Accumulate(d, v).done]
  BY DEF Clock
<1>3. e.af_cnt = af_cnt_next(d, p) /\ e.af_done = af_done_next(d)
  BY DEF Clock
<1>4. Accumulate(d, u).done <=> d.tree[u] # NoTransaction
  BY DEF Accumulate
<1>5. e.acc_done[u] <=> d.tree[u] # NoTransaction
  BY <1>2, <1>4
<1>6. e.s1[u] = IF mac_start(p, u) THEN p.operand ELSE NoTransaction
  BY <1>1 DEF s1_next
<1>7. e.af_cnt[u] = IF af_accepted(d, p, u) THEN 4
                    ELSE IF d.af_cnt[u] > 0 THEN d.af_cnt[u] - 1 ELSE 0
  BY <1>3 DEF af_cnt_next, AF_FIXED_LATENCY
<1>8. e.af_done[u] <=> d.af_cnt[u] = 1
  BY <1>3 DEF af_done_next
<1> QED
  BY <1>1, <1>5, <1>6, <1>7, <1>8

LEMMA DoneSignals ==
  ASSUME NEW d, NEW p, NEW e, e = Clock(d, p)
  PROVE  /\ e.o_done \in BOOLEAN
         /\ e.ew_done <=> ewmul_start(p)
         /\ e.o_done <=> (\E u \in Units : d.acc_done[u] \/ d.af_done[u]) \/ d.ew_done
<1>1. e.o_done = o_done_next(d) /\ e.ew_done = ewmul_start(p)
  BY DEF Clock
<1> QED
  BY <1>1 DEF o_done_next

(* What an accumulator takes in, and that nothing else enters it. *)
LEMMA Accumulators ==
  ASSUME NEW d, NEW p, NEW e, e = Clock(d, p), NEW u \in Units
  PROVE  /\ d.tree[u] = NoTransaction =>
              e.left[u] = d.left[u] /\ e.right[u] = d.right[u] /\ e.acc_out[u] = d.acc_out[u]
         /\ d.tree[u] # NoTransaction =>
              LET id == d.tree[u]
                  kept == IF d.ctl1.acc_en THEN d.left[u] \union d.right[u] ELSE {}
                  first == d.ctl1.bias_en /\ ~d.ctl1.acc_en
              IN  /\ e.acc_out[u] = kept \union {id} \union (IF d.ctl1.bias_en THEN {-id} ELSE {})
                  /\ e.left[u] \union e.right[u] = kept \union {id} \union (IF first THEN {-id} ELSE {})
                  /\ \A x \in e.left[u] \intersect e.right[u] :
                       x \in d.left[u] \intersect d.right[u] \/
                       (x = id /\ x \in d.left[u] \union d.right[u])
<1>1. /\ e.left[u] = Accumulate(d, u).left /\ e.right[u] = Accumulate(d, u).right
      /\ e.acc_out[u] = Accumulate(d, u).out
  BY DEF Clock
<1> QED
  BY <1>1 DEF Accumulate

LEMMA ResultRegister ==
  ASSUME NEW d, NEW p, NEW e, e = Clock(d, p), NEW l \in Lanes
  PROVE  \/ e.mac_q[l].sum = d.mac_q[l].sum
         \/ \E u \in Units : e.mac_q[l].sum = d.acc_out[u]
<1>1. e.mac_q = mac_q_next(d)
  BY DEF Clock
<1> QED
  BY <1>1 DEF mac_q_next, Flat, LaneValue, Units

(* Nothing starts without i_start. *)
LEMMA NoStart ==
  ASSUME NEW d, NEW p, ~p.i_start, NEW u \in Units
  PROVE  ~mac_start(p, u) /\ ~af_accepted(d, p, u) /\ ~ewmul_start(p)
  BY DEF mac_start, af_accepted, af_start, ewmul_start

(* The values stay in order if what starts is newer than all of them.      *)
LEMMA ValuesTick ==
  ASSUME NEW d, NEW p, NEW e, e = Clock(d, p), NEW m \in Nat, NEW n \in Nat, Values(d, m), m <= n,
         \A u \in Units : mac_start(p, u) => p.operand \in (m + 1) .. n
  PROVE  Values(e, n)
<1>1. ASSUME NEW u \in Units
      PROVE  /\ e.s1[u] \in 0 .. n /\ e.tree[u] \in 0 .. n
             /\ Within(e.left[u] \union e.right[u], n) /\ Within(e.acc_out[u], n)
             /\ e.s1[u] # NoTransaction => Within(e.left[u] \union e.right[u], e.s1[u] - 1)
             /\ e.tree[u] # NoTransaction => Within(e.left[u] \union e.right[u], e.tree[u] - 1)
             /\ e.s1[u] # NoTransaction /\ e.tree[u] # NoTransaction => e.tree[u] < e.s1[u]
             /\ e.left[u] \intersect e.right[u] = {}
  <2>1. /\ d.s1[u] \in 0 .. m /\ d.tree[u] \in 0 .. m
        /\ Within(d.left[u] \union d.right[u], m) /\ Within(d.acc_out[u], m)
        /\ d.s1[u] # NoTransaction => Within(d.left[u] \union d.right[u], d.s1[u] - 1)
        /\ d.tree[u] # NoTransaction => Within(d.left[u] \union d.right[u], d.tree[u] - 1)
        /\ d.s1[u] # NoTransaction /\ d.tree[u] # NoTransaction => d.tree[u] < d.s1[u]
        /\ d.left[u] \intersect d.right[u] = {}
    BY <1>1 DEF Values
  <2>2. /\ e.s1[u] = NoTransaction \/ e.s1[u] \in (m + 1) .. n
        /\ e.tree[u] = d.s1[u]
    BY <1>1, Stages
  <2>3. CASE d.tree[u] = NoTransaction
    <3>1. e.left[u] = d.left[u] /\ e.right[u] = d.right[u] /\ e.acc_out[u] = d.acc_out[u]
      BY <2>3, <1>1, Accumulators
    <3> QED
      BY <2>1, <2>2, <3>1 DEF Within, NoTransaction
  <2>4. CASE d.tree[u] # NoTransaction
    <3>1. /\ \A x \in e.acc_out[u] \union e.left[u] \union e.right[u] :
               x \in d.left[u] \union d.right[u] \/ x = d.tree[u] \/ x = -d.tree[u]
          /\ \A x \in e.left[u] \intersect e.right[u] :
               x \in d.left[u] \intersect d.right[u] \/
               (x = d.tree[u] /\ x \in d.left[u] \union d.right[u])
      BY <2>4, <1>1, Accumulators
    <3>2. Within(e.acc_out[u], d.tree[u]) /\ Within(e.left[u] \union e.right[u], d.tree[u])
      BY <2>1, <2>4, <3>1 DEF Within, NoTransaction
    <3>3. e.left[u] \intersect e.right[u] = {}
      BY <2>1, <2>4, <3>1 DEF Within, NoTransaction
    <3> QED
      BY <2>1, <2>2, <2>4, <3>2, <3>3 DEF Within, NoTransaction
  <2> QED
    BY <2>3, <2>4
<1>2. ASSUME NEW l \in Lanes PROVE Within(e.mac_q[l].sum, n)
  BY <1>2, ResultRegister DEF Values, Within
<1> QED
  BY <1>1, <1>2 DEF Values

(* At most one unit starts, and its controls go with it.                   *)
LEMMA ControlsTick ==
  ASSUME NEW d, NEW p, NEW e, e = Clock(d, p), Controls(d),
         \A u \in Units : mac_start(p, u) => p.operand # NoTransaction
  PROVE  Controls(e)
<1>1. /\ e.ctl0 = ctl0_next(d, p) /\ e.ctl1 = d.ctl0
  BY DEF Clock, ctl1_next
<1>2. ~mac_start(p, "scalar") \/ ~mac_start(p, "abk")
  BY DEF mac_start
<1> QED
  BY <1>1, <1>2, Stages DEF Controls, ctl0_next, Units

LEMMA Domains ==
  ASSUME NEW d, NEW p PROVE DOMAIN Clock(d, p) = DOMAIN ResetState
  BY DEF Clock, ResetState
-----------------------------------------------------------------------------
(* The pins that a call drives select one unit, or the element-wise one.   *)

LEMMA PinTypes == PinsOK => DOMAIN pins = DOMAIN IdlePins
  BY DEF PinsOK, PinType, IdlePins

LEMMA MacPins ==
  ASSUME PinsOK, CallOK, pc \in {"flush", "space"}, call.op \in {"mac", "mac16", "enqueue"},
         NEW p, p = [DrivenPins(call) EXCEPT !.i_start = TRUE], NEW d
  PROVE  /\ DrivenPins(call) \in PinType
         /\ DrivenPins(call).i_all_bank_vector_en <=> call.op # "mac"
         /\ \A u \in Units : /\ mac_start(p, u) <=> (u = "abk" <=> call.op # "mac")
                             /\ ~af_start(p, u) /\ ~af_accepted(d, p, u)
         /\ ~ewmul_start(p) /\ p.operand = call.id
         /\ p.i_acc_en = call.acc_en /\ p.i_bias_en = ~call.acc_en
<1>1. DrivenPins(call) =
        [pins EXCEPT !.i_acc_en = call.acc_en, !.i_bias_en = ~call.acc_en,
                     !.i_ewmul_en = FALSE, !.i_af_en = FALSE,
                     !.i_all_bank_vector_en = (call.op # "mac"), !.operand = call.id]
  BY DEF DrivenPins
<1>2. DrivenPins(call) \in PinType
  BY <1>1 DEF PinsOK, PinType, CallOK
<1> QED
  BY <1>1, <1>2 DEF PinsOK, PinType, CallOK, mac_start, af_accepted, af_start, ewmul_start

LEMMA AfPins ==
  ASSUME PinsOK, CallOK, pc = "flush", call.op = "af",
         NEW p, p = [DrivenPins(call) EXCEPT !.i_start = TRUE]
  PROVE  /\ DrivenPins(call) \in PinType
         /\ DrivenPins(call).i_all_bank_vector_en = pins.i_all_bank_vector_en
         /\ \A u \in Units : ~mac_start(p, u) /\ (af_start(p, u) <=> u = Selected)
         /\ ~ewmul_start(p)
<1>1. DrivenPins(call) = [pins EXCEPT !.i_af_en = TRUE, !.i_ewmul_en = FALSE]
  BY DEF DrivenPins
<1> QED
  BY <1>1 DEF PinsOK, PinType, mac_start, af_start, ewmul_start, Selected, Units

LEMMA EwmulPins ==
  ASSUME PinsOK, CallOK, pc = "flush", call.op = "ewmul",
         NEW p, p = [DrivenPins(call) EXCEPT !.i_start = TRUE]
  PROVE  /\ DrivenPins(call) \in PinType
         /\ DrivenPins(call).i_all_bank_vector_en = pins.i_all_bank_vector_en
         /\ \A u \in Units : ~mac_start(p, u) /\ ~af_start(p, u)
         /\ ewmul_start(p) /\ p.operand = call.id
<1>1. DrivenPins(call) =
        [pins EXCEPT !.i_ewmul_en = TRUE, !.i_acc_en = FALSE, !.i_bias_en = FALSE,
                     !.i_af_en = FALSE, !.operand = call.id]
  BY DEF DrivenPins
<1> QED
  BY <1>1 DEF PinsOK, PinType, CallOK, mac_start, af_accepted, af_start, ewmul_start
-----------------------------------------------------------------------------
(* Every step keeps the invariant. *)

LEMMA Bounds ==
  /\ MaxCalls \in Nat /\ MaxWait \in Nat /\ MaxWait >= 5 /\ Override \in Nat
  /\ \A n \in 0 .. MaxWait : n \in Nat
  BY EngineAssumption, WaitAssumption

LEMMA WordsWithin ==
  ASSUME NEW d, NEW n \in 0 .. MaxCalls, Values(d, n)
  PROVE  \A l \in Lanes : d.mac_q[l].sum \subseteq (-MaxCalls) .. MaxCalls
<1> SUFFICES ASSUME NEW l \in Lanes, NEW x \in d.mac_q[l].sum PROVE x \in (-MaxCalls) .. MaxCalls
  OBVIOUS
<1>1. x \in Int /\ -n <= x /\ x <= n
  BY DEF Values, Within
<1> QED
  BY <1>1, Bounds

LEMMA InvInit == Init => IInv
<1> SUFFICES ASSUME Init PROVE IInv
  OBVIOUS
<1>1. Values(dut, 0)
  BY DEF Init, ResetState, Values, Within, NoTransaction, ZeroFlat, LaneValue, Units
<1>2. TypeOK
  <2>1. \A l \in Lanes : dut.mac_q[l].sum \subseteq (-MaxCalls) .. MaxCalls
    BY <1>1, WordsWithin, Bounds
  <2>2. DOMAIN dut = DOMAIN ResetState /\ DOMAIN pins = DOMAIN IdlePins
    BY DEF Init
  <2>3. /\ prev_done \in BOOLEAN /\ last_mac16_result_valid \in BOOLEAN /\ drained \in BOOLEAN
    BY Bounds DEF Init, kMac16StartSpacingCycles
  <2>4. pending_mac16_count \in 0 .. MaxCalls /\ cycles_since_last_mac16_start \in Nat
    BY Bounds DEF Init, kMac16StartSpacingCycles
  <2>5. /\ pc \in {"idle", "flush", "wait", "space", "enqueued"}
        /\ ncalls \in 0 .. MaxCalls /\ waited \in 0 .. MaxWait /\ elapsed \in Nat
    BY Bounds DEF Init, kMac16StartSpacingCycles
  <2> QED
    BY <2>1, <2>2, <2>3, <2>4, <2>5 DEF TypeOK
<1>3. PinsOK
  BY DEF Init, PinsOK, PinType, IdlePins, NoTransaction
<1>4. CallOK
  BY DEF Init, CallOK, NoCall
<1>5. InFlight("abk") = 0
  BY DEF Init, InFlight, ResetState, Units, NoTransaction
<1>8. DeferredOK
  <2>1. prev_done = dut.o_done /\ ~dut.ew_done /\ pc = "idle" /\ pending_mac16_count = 0
    BY DEF Init, ResetState
  <2>2. \A u \in Units : /\ dut.s1[u] = NoTransaction /\ dut.tree[u] = NoTransaction
                         /\ ~dut.acc_done[u] /\ dut.af_cnt[u] = 0 /\ ~dut.af_done[u]
    BY DEF Init, ResetState
  <2> QED
    BY <1>5, <2>1, <2>2 DEF DeferredOK, Units
<1>9. SpacingOK /\ Controls(dut)
  BY DEF Init, SpacingOK, ResetState, Units, NoTransaction, Controls
<1>6. WaitOK /\ ElapsedOK
  BY DEF Init, WaitOK, ElapsedOK
<1>7. ValuesOK
  BY <1>1 DEF Init, ValuesOK, Issued
<1> QED
  BY <1>2, <1>3, <1>4, <1>6, <1>7, <1>8, <1>9 DEF IInv

(* The steps without a tick of the clock. *)
LEMMA CallInv ==
  ASSUME IInv, NEW op \in Ops, NEW acc \in BOOLEAN, Call(op, acc) PROVE IInv'
<1>1. TypeOK'
  BY Bounds DEF IInv, TypeOK, Call, host
<1>2. PinsOK' /\ Controls(dut)'
  BY DEF IInv, PinsOK, Controls, Call
<1>3. CallOK'
  BY DEF IInv, TypeOK, CallOK, Call
<1>4. DeferredOK'
  BY DEF IInv, DeferredOK, Call, host, InFlight
<1>5. SpacingOK'
  BY DEF IInv, SpacingOK, Call, host, MustSpace, kMac16StartSpacingCycles
<1>6. WaitOK'
  BY DEF WaitOK, Call
<1>7. ElapsedOK'
  <2>1. pending_mac16_count \in Nat
    BY Bounds DEF IInv, TypeOK
  <2>2. drained' <=> pending_mac16_count > 0
    BY DEF Call
  <2>3. elapsed' = 0 /\ waited' = 0 /\ pc' # "wait" /\ pending_mac16_count' = pending_mac16_count
    BY DEF Call, host
  <2> QED
    BY <2>1, <2>2, <2>3 DEF ElapsedOK
<1>8. ValuesOK'
  BY DEF IInv, TypeOK, ValuesOK, Issued, Call, host
<1> QED
  BY <1>1, <1>2, <1>3, <1>4, <1>5, <1>6, <1>7, <1>8 DEF IInv

(* A flush runs until the unit is empty, long before its loop runs out.    *)
LEMMA FlushDrains ==
  ASSUME IInv, pc = "flush", ~FlushGoesOn
  PROVE  /\ pending_mac16_count = 0
         /\ dut.s1["abk"] = NoTransaction /\ dut.tree["abk"] = NoTransaction
         /\ ~dut.acc_done["abk"]
<1>1. pending_mac16_count = InFlight("abk")
  BY Bounds DEF IInv, DeferredOK, TypeOK
<1>2. pending_mac16_count = 0
  BY <1>1, Bounds
     DEF IInv, TypeOK, SpacingOK, FlushGoesOn, InFlight
<1> QED
  BY <1>1, <1>2 DEF InFlight

LEMMA FlushReturnInv == ASSUME IInv, FlushReturn PROVE IInv'
<1>1. TypeOK' /\ PinsOK' /\ CallOK' /\ Controls(dut)'
  BY DEF IInv, TypeOK, PinsOK, CallOK, Controls, FlushReturn, Finish, host
<1>2. DeferredOK'
  BY DEF IInv, DeferredOK, FlushReturn, Finish, host, InFlight
<1>3. SpacingOK'
  BY FlushDrains DEF IInv, SpacingOK, FlushReturn, Finish, host
<1>4. WaitOK' /\ ElapsedOK'
  BY DEF WaitOK, ElapsedOK, FlushReturn, Finish
<1>5. ValuesOK'
  <2>1. Values(dut, ncalls - 1) /\ ncalls \in Nat /\ ncalls - 1 \in Nat /\ ncalls - 1 <= ncalls
    BY Bounds DEF IInv, ValuesOK, Issued, FlushReturn, TypeOK, CallOK
  <2>2. Values(dut, ncalls)
    BY <2>1 DEF Values, Within
  <2> QED
    BY <2>1, <2>2 DEF IInv, ValuesOK, Issued, FlushReturn, Finish, host, TypeOK
<1> QED
  BY <1>1, <1>2, <1>3, <1>4, <1>5 DEF IInv

LEMMA EnqueueReturnInv == ASSUME IInv, EnqueueReturn PROVE IInv'
<1>1. pending_mac16_count + 1 = InFlight("abk")
  BY DEF IInv, DeferredOK, EnqueueReturn
<1>2. TypeOK'
  BY Bounds DEF IInv, TypeOK, ValuesOK, EnqueueReturn, Finish
<1>3. PinsOK' /\ CallOK' /\ Controls(dut)'
  BY DEF IInv, PinsOK, CallOK, Controls, EnqueueReturn, Finish
<1>4. DeferredOK'
  BY <1>1 DEF IInv, DeferredOK, EnqueueReturn, Finish, InFlight
<1>5. SpacingOK'
  BY <1>1 DEF IInv, DeferredOK, SpacingOK, EnqueueReturn, Finish
<1>6. WaitOK' /\ ElapsedOK'
  BY DEF WaitOK, ElapsedOK, EnqueueReturn, Finish
<1>7. ValuesOK'
  BY DEF IInv, TypeOK, ValuesOK, Issued, EnqueueReturn, Finish
<1> QED
  BY <1>2, <1>3, <1>4, <1>5, <1>6, <1>7 DEF IInv

LEMMA ResetInv == ASSUME IInv, Reset PROVE IInv'
<1>1. Values(dut', ncalls')
  BY Bounds
     DEF IInv, TypeOK, Reset, ResetState, Values, Within, NoTransaction, ZeroFlat, LaneValue, Units
<1>2. TypeOK'
  <2>1. \A l \in Lanes : dut'.mac_q[l].sum \subseteq (-MaxCalls) .. MaxCalls
    BY DEF Reset, ResetState, ZeroFlat, LaneValue
  <2>2. DOMAIN dut' = DOMAIN ResetState /\ DOMAIN pins' = DOMAIN IdlePins
    BY DEF Reset
  <2>3. /\ prev_done' \in BOOLEAN /\ last_mac16_result_valid' \in BOOLEAN /\ drained' \in BOOLEAN
    BY Bounds DEF IInv, TypeOK, Reset, kMac16StartSpacingCycles
  <2>4. pending_mac16_count' \in 0 .. MaxCalls /\ cycles_since_last_mac16_start' \in Nat
    BY Bounds DEF IInv, TypeOK, Reset, kMac16StartSpacingCycles
  <2>5. /\ pc' \in {"idle", "flush", "wait", "space", "enqueued"}
        /\ ncalls' \in 0 .. MaxCalls /\ waited' \in 0 .. MaxWait /\ elapsed' \in Nat
    BY Bounds DEF IInv, TypeOK, Reset, kMac16StartSpacingCycles
  <2> QED
    BY <2>1, <2>2, <2>3, <2>4, <2>5 DEF TypeOK
<1>3. PinsOK' /\ CallOK'
  BY DEF IInv, Reset, PinsOK, PinType, CallOK, IdlePins, NoTransaction
<1>4. InFlight("abk")' = 0
  BY DEF Reset, InFlight, ResetState, Units, NoTransaction
<1>5. DeferredOK'
  <2>1. prev_done' = dut'.o_done /\ ~dut'.ew_done /\ pc' = "idle" /\ pending_mac16_count' = 0
    BY DEF Reset, ResetState
  <2>2. \A u \in Units : /\ dut'.s1[u] = NoTransaction /\ dut'.tree[u] = NoTransaction
                         /\ ~dut'.acc_done[u] /\ dut'.af_cnt[u] = 0 /\ ~dut'.af_done[u]
    BY DEF Reset, ResetState
  <2> QED
    BY <1>4, <2>1, <2>2 DEF DeferredOK, Units
<1>6. SpacingOK' /\ Controls(dut)'
  BY DEF Reset, SpacingOK, ResetState, Units, NoTransaction, Controls
<1>7. WaitOK' /\ ElapsedOK'
  BY DEF Reset, WaitOK, ElapsedOK
<1>8. ValuesOK'
  BY <1>1, Bounds DEF IInv, TypeOK, Reset, ValuesOK, Issued
<1> QED
  BY <1>2, <1>3, <1>5, <1>6, <1>7, <1>8 DEF IInv

(* A tick while MAC16s are deferred, with another one started or not: one  *)
(* that finishes is captured, and every other stage stays empty.           *)
LEMMA DeferredTick ==
  ASSUME IInv, pc \in {"flush", "space"}, NEW p, dut' = Clock(dut, p),
         capture_mac16_done_if_ready,
         ~ewmul_start(p), ~mac_start(p, "scalar"), \A u \in Units : ~af_accepted(dut, p, u),
         mac_start(p, "abk") => p.operand # NoTransaction /\ dut.s1["abk"] = NoTransaction
  PROVE  /\ dut'.s1["scalar"] = NoTransaction /\ dut'.tree["scalar"] = NoTransaction
         /\ ~dut'.acc_done["scalar"] /\ ~dut'.ew_done
         /\ \A u \in Units : dut'.af_cnt[u] = 0 /\ ~dut'.af_done[u]
         /\ dut'.s1["abk"] = (IF mac_start(p, "abk") THEN p.operand ELSE NoTransaction)
         /\ dut'.tree["abk"] = dut.s1["abk"]
         /\ dut'.acc_done["abk"] <=> dut.tree["abk"] # NoTransaction
         /\ dut'.s1["abk"] = NoTransaction \/ dut'.tree["abk"] = NoTransaction
         /\ dut'.tree["abk"] = NoTransaction \/ ~dut'.acc_done["abk"]
         /\ ~dut'.acc_done["abk"] \/ ~dut'.o_done
         /\ prev_done' = dut'.o_done /\ prev_done' \in BOOLEAN
         /\ pending_mac16_count' + (IF mac_start(p, "abk") THEN 1 ELSE 0) = InFlight("abk")'
         /\ pending_mac16_count' \in 0 .. pending_mac16_count
         /\ last_mac16_result_valid' \in BOOLEAN
<1>1. /\ dut.s1["scalar"] = NoTransaction /\ dut.tree["scalar"] = NoTransaction
      /\ ~dut.acc_done["scalar"] /\ ~dut.ew_done
      /\ \A u \in Units : dut.af_cnt[u] = 0 /\ ~dut.af_done[u]
      /\ dut.s1["abk"] = NoTransaction \/ dut.tree["abk"] = NoTransaction
      /\ dut.tree["abk"] = NoTransaction \/ ~dut.acc_done["abk"]
      /\ ~dut.acc_done["abk"] \/ ~prev_done
      /\ pending_mac16_count = InFlight("abk")
      /\ pending_mac16_count \in Nat
  BY Bounds DEF IInv, DeferredOK, TypeOK
<1>2. /\ "abk" \in Units /\ "scalar" \in Units
      /\ \A u \in Units : u = "abk" \/ u = "scalar"
  BY DEF Units
<1>3. \A u \in Units : /\ dut'.s1[u] = IF mac_start(p, u) THEN p.operand ELSE NoTransaction
                       /\ dut'.tree[u] = dut.s1[u]
                       /\ dut'.acc_done[u] <=> dut.tree[u] # NoTransaction
                       /\ dut'.af_cnt[u] = 0 /\ ~dut'.af_done[u]
  BY <1>1, Stages
<1>4. /\ dut'.o_done \in BOOLEAN /\ ~dut'.ew_done
      /\ dut'.o_done <=> dut.acc_done["abk"]
  BY <1>1, <1>2, DoneSignals
<1>5. /\ prev_done' = dut'.o_done
      /\ pending_mac16_count' = pending_mac16_count - (IF dut.acc_done["abk"] THEN 1 ELSE 0)
      /\ last_mac16_result_valid' \in BOOLEAN
  <2>1. dut.acc_done["abk"] => pending_mac16_count > 0
    BY <1>1 DEF InFlight
  <2>2. DoneRises <=> dut.acc_done["abk"]
    BY <1>1, <1>4 DEF DoneRises
  <2>3. prev_done' = dut'.o_done
    BY DEF capture_mac16_done_if_ready, observe_done_rising
  <2>4. pending_mac16_count' = pending_mac16_count - (IF dut.acc_done["abk"] THEN 1 ELSE 0)
    BY <2>1, <2>2, <1>1 DEF capture_mac16_done_if_ready
  <2>5. last_mac16_result_valid' \in BOOLEAN
    BY DEF capture_mac16_done_if_ready, IInv, TypeOK
  <2> QED
    BY <2>3, <2>4, <2>5
<1>6. pending_mac16_count = (IF dut.s1["abk"] # NoTransaction THEN 1 ELSE 0)
        + (IF dut.tree["abk"] # NoTransaction THEN 1 ELSE 0)
        + (IF dut.acc_done["abk"] THEN 1 ELSE 0)
  BY <1>1 DEF InFlight
<1>7. InFlight("abk")' = (IF mac_start(p, "abk") THEN 1 ELSE 0)
        + (IF dut.s1["abk"] # NoTransaction THEN 1 ELSE 0)
        + (IF dut.tree["abk"] # NoTransaction THEN 1 ELSE 0)
  BY <1>2, <1>3 DEF InFlight
<1>8. pending_mac16_count' + (IF mac_start(p, "abk") THEN 1 ELSE 0) = InFlight("abk")'
  BY <1>5, <1>6, <1>7
<1>9. pending_mac16_count' \in 0 .. pending_mac16_count
  BY <1>5, <1>6
<1> QED
  BY <1>1, <1>2, <1>3, <1>4, <1>5, <1>8, <1>9

(* The values after a tick in which nothing starts, or the call does.      *)
LEMMA IdleValues ==
  ASSUME IInv, NEW p, ~p.i_start, dut' = Clock(dut, p)
  PROVE  Values(dut', Issued) /\ Controls(dut)' /\ Issued \in 0 .. MaxCalls
<1>1. Issued \in 0 .. MaxCalls
  BY Bounds DEF IInv, TypeOK, CallOK, Issued
<1>2. \A u \in Units : ~mac_start(p, u)
  BY DEF mac_start
<1>3. Values(dut', Issued)
  BY <1>1, <1>2, Bounds, ValuesTick DEF IInv, ValuesOK
<1> QED
  BY <1>1, <1>2, <1>3, ControlsTick DEF IInv, Controls

LEMMA StartValues ==
  ASSUME IInv, pc \in {"flush", "space"}, NEW p, dut' = Clock(dut, p),
         \A u \in Units : mac_start(p, u) => p.operand = call.id
  PROVE  Values(dut', ncalls) /\ Controls(dut)' /\ ncalls \in 1 .. MaxCalls /\ call.id = ncalls
<1>1. ncalls \in 1 .. MaxCalls /\ call.id = ncalls /\ Issued = ncalls - 1
  BY Bounds DEF IInv, TypeOK, CallOK, Issued
<1>2. Values(dut', ncalls)
  BY <1>1, Bounds, ValuesTick DEF IInv, ValuesOK
<1>3. Controls(dut')
  BY <1>1, ControlsTick DEF IInv, NoTransaction
<1> QED
  BY <1>1, <1>2, <1>3 DEF Controls

LEMMA FlushTickInv == ASSUME IInv, FlushTick PROVE IInv'
<1>1. dut' = Clock(dut, pins) /\ ~pins.i_start /\ pc = "flush" /\ pc' = "flush"
  BY DEF FlushTick, clock_tick, IInv, PinsOK, PinType
<1>2. \A u \in Units : ~mac_start(pins, u) /\ ~af_accepted(dut, pins, u)
  BY <1>1, NoStart
<1>3. ~ewmul_start(pins) /\ "abk" \in Units /\ "scalar" \in Units
  BY <1>1 DEF ewmul_start, Units
<1>4. /\ Values(dut', Issued) /\ Controls(dut)' /\ Issued \in 0 .. MaxCalls
      /\ Issued' = Issued
  BY <1>1, IdleValues DEF FlushTick, Issued
<1>5. /\ DeferredOK'
      /\ dut'.s1["abk"] = NoTransaction /\ dut'.tree["abk"] = dut.s1["abk"]
      /\ dut'.acc_done["abk"] <=> dut.tree["abk"] # NoTransaction
      /\ prev_done' \in BOOLEAN /\ last_mac16_result_valid' \in BOOLEAN
      /\ pending_mac16_count' \in 0 .. pending_mac16_count
  BY <1>1, <1>2, <1>3, DeferredTick DEF FlushTick, DeferredOK
<1>6. TypeOK'
  <2>1. \A l \in Lanes : dut'.mac_q[l].sum \subseteq (-MaxCalls) .. MaxCalls
    BY <1>4, WordsWithin
  <2>2. DOMAIN dut' = DOMAIN ResetState
    BY <1>1, Domains
  <2>3. pending_mac16_count' \in 0 .. MaxCalls /\ elapsed' \in Nat
        /\ waited' \in 0 .. MaxWait /\ cycles_since_last_mac16_start' \in Nat
    BY <1>5, Bounds DEF IInv, TypeOK, FlushTick, clock_tick, FlushGoesOn
  <2> QED
    BY <1>5, <2>1, <2>2, <2>3 DEF IInv, TypeOK, FlushTick
<1>7. PinsOK' /\ CallOK'
  BY DEF IInv, PinsOK, CallOK, FlushTick
<1>8. SpacingOK'
  BY <1>1, <1>5, Bounds DEF IInv, SpacingOK, FlushTick, TypeOK
<1>9. WaitOK'
  BY <1>1 DEF WaitOK
<1>10. ElapsedOK'
  BY <1>1 DEF IInv, ElapsedOK, FlushTick, FlushGoesOn
<1>11. ValuesOK'
  BY <1>1, <1>4, <1>5, Bounds DEF IInv, ValuesOK, TypeOK
<1> QED
  BY <1>4, <1>5, <1>6, <1>7, <1>8, <1>9, <1>10, <1>11 DEF IInv

LEMMA SpaceTickInv == ASSUME IInv, SpaceTick PROVE IInv'
<1>1. dut' = Clock(dut, pins) /\ ~pins.i_start /\ pc = "space" /\ pc' = "space"
  BY DEF SpaceTick, clock_tick, IInv, PinsOK, PinType
<1>2. \A u \in Units : ~mac_start(pins, u) /\ ~af_accepted(dut, pins, u)
  BY <1>1, NoStart
<1>3. ~ewmul_start(pins) /\ "abk" \in Units /\ "scalar" \in Units
  BY <1>1 DEF ewmul_start, Units
<1>4. /\ Values(dut', Issued) /\ Controls(dut)' /\ Issued \in 0 .. MaxCalls
      /\ Issued' = Issued
  BY <1>1, IdleValues DEF SpaceTick, Issued
<1>5. /\ DeferredOK'
      /\ dut'.s1["abk"] = NoTransaction /\ dut'.tree["abk"] = dut.s1["abk"]
      /\ dut'.acc_done["abk"] <=> dut.tree["abk"] # NoTransaction
      /\ prev_done' \in BOOLEAN /\ last_mac16_result_valid' \in BOOLEAN
      /\ pending_mac16_count' \in 0 .. pending_mac16_count
  BY <1>1, <1>2, <1>3, DeferredTick DEF SpaceTick, DeferredOK
<1>6. TypeOK'
  <2>1. \A l \in Lanes : dut'.mac_q[l].sum \subseteq (-MaxCalls) .. MaxCalls
    BY <1>4, WordsWithin
  <2>2. DOMAIN dut' = DOMAIN ResetState
    BY <1>1, Domains
  <2>3. /\ pending_mac16_count' \in 0 .. MaxCalls /\ elapsed' \in Nat
        /\ cycles_since_last_mac16_start' \in Nat
    BY <1>5, Bounds DEF IInv, TypeOK, SpaceTick, clock_tick
  <2> QED
    BY <1>5, <2>1, <2>2, <2>3 DEF IInv, TypeOK, SpaceTick
<1>7. PinsOK' /\ CallOK'
  BY DEF IInv, PinsOK, CallOK, SpaceTick
<1>8. SpacingOK'
  <2>1. cycles_since_last_mac16_start = 0 /\ cycles_since_last_mac16_start' = 1
    BY DEF IInv, TypeOK, SpaceTick, MustSpace, kMac16StartSpacingCycles
  <2> QED
    BY <1>1, <1>5, <2>1 DEF IInv, SpacingOK, SpaceTick, MustSpace, kMac16StartSpacingCycles
<1>9. WaitOK' /\ ElapsedOK'
  BY <1>1 DEF WaitOK, ElapsedOK
<1>10. ValuesOK'
  BY <1>1, <1>4, <1>5, Bounds DEF IInv, ValuesOK, TypeOK
<1> QED
  BY <1>4, <1>5, <1>6, <1>7, <1>8, <1>9, <1>10 DEF IInv

LEMMA EnqueueStartInv == ASSUME IInv, EnqueueStart PROVE IInv'
<1> DEFINE p == [DrivenPins(call) EXCEPT !.i_start = TRUE]
<1>1. /\ dut' = Clock(dut, p) /\ pc = "space" /\ pc' = "enqueued" /\ pins' = DrivenPins(call)
      /\ call.op = "enqueue"
  BY DEF EnqueueStart, clock_tick, IInv, CallOK
<1>2. /\ pins' \in PinType
      /\ \A u \in Units : /\ mac_start(p, u) <=> u = "abk"
                          /\ ~af_accepted(dut, p, u)
      /\ ~ewmul_start(p) /\ p.operand = call.id
  BY <1>1, MacPins DEF IInv
<1> HIDE DEF p
<1>3. "abk" \in Units /\ "scalar" \in Units
  BY DEF Units
<1>4. Values(dut', ncalls) /\ Controls(dut)' /\ ncalls \in 1 .. MaxCalls /\ call.id = ncalls
  BY <1>1, <1>2, StartValues
<1>5. dut.s1["abk"] = NoTransaction
  BY <1>1 DEF EnqueueStart, MustSpace, kMac16StartSpacingCycles, IInv, SpacingOK
<1>6. /\ DeferredOK'
      /\ dut'.s1["abk"] # NoTransaction /\ dut'.tree["abk"] = NoTransaction
      /\ prev_done' \in BOOLEAN /\ last_mac16_result_valid' \in BOOLEAN
      /\ pending_mac16_count' \in 0 .. pending_mac16_count
  <2>1. mac_start(p, "abk") /\ ~mac_start(p, "scalar") /\ p.operand = call.id /\ call.id # NoTransaction
    BY <1>2, <1>3, <1>4 DEF NoTransaction
  <2>2. capture_mac16_done_if_ready
    BY DEF EnqueueStart
  <2> QED
    BY <1>1, <1>2, <1>5, <2>1, <2>2, DeferredTick DEF DeferredOK
<1>7. TypeOK'
  <2>1. \A l \in Lanes : dut'.mac_q[l].sum \subseteq (-MaxCalls) .. MaxCalls
    BY <1>4, WordsWithin
  <2>2. DOMAIN dut' = DOMAIN ResetState /\ DOMAIN pins' = DOMAIN IdlePins
    BY <1>1, <1>2, Domains DEF PinType, IdlePins
  <2>3. pending_mac16_count' \in 0 .. MaxCalls /\ elapsed' \in Nat
    BY <1>6, Bounds DEF IInv, TypeOK, EnqueueStart, clock_tick
  <2> QED
    BY <1>1, <1>6, <2>1, <2>2, <2>3 DEF IInv, TypeOK, EnqueueStart
<1>8. PinsOK' /\ CallOK'
  BY <1>1, <1>2 DEF IInv, PinsOK, CallOK, EnqueueStart
<1>9. SpacingOK'
  BY <1>1, <1>6 DEF SpacingOK
<1>10. WaitOK' /\ ElapsedOK'
  BY <1>1 DEF WaitOK, ElapsedOK
<1>11. ValuesOK'
  BY <1>1, <1>4, <1>6, Bounds DEF IInv, ValuesOK, TypeOK, Issued, EnqueueStart
<1> QED
  BY <1>4, <1>6, <1>7, <1>8, <1>9, <1>10, <1>11 DEF IInv

(* The tick that starts an execute_* call; nothing else is in the unit.    *)
LEMMA ExecuteStartInv == ASSUME IInv, ExecuteStart PROVE IInv'
<1> DEFINE p == [DrivenPins(call) EXCEPT !.i_start = TRUE]
<1>1. /\ dut' = Clock(dut, p) /\ pc = "flush" /\ pc' = "wait" /\ pins' = DrivenPins(call)
      /\ call.op \in ExecuteOps /\ waited' = 0 /\ call' = call
  BY EngineAssumption DEF ExecuteStart, clock_tick, IInv, CallOK, ExecuteOps
<1>2. /\ pins' \in PinType
      /\ call.op \in WaitedMacs => (call.op = "mac" <=> ~pins'.i_all_bank_vector_en)
      /\ \A u \in Units : /\ mac_start(p, u) <=> call.op \in WaitedMacs /\ u = Selected'
                          /\ mac_start(p, u) => p.operand = call.id
                          /\ af_start(p, u) <=> call.op = "af" /\ u = Selected'
      /\ ewmul_start(p) <=> call.op = "ewmul"
  <2>1. CASE call.op \in WaitedMacs
    BY <1>1, <2>1, MacPins DEF IInv, WaitedMacs, Selected, Units
  <2>2. CASE call.op = "af"
    BY <1>1, <2>2, AfPins DEF IInv, WaitedMacs, Selected
  <2>3. CASE call.op = "ewmul"
    BY <1>1, <2>3, EwmulPins DEF IInv, WaitedMacs
  <2> QED
    BY <1>1, <2>1, <2>2, <2>3 DEF ExecuteOps, WaitedMacs
<1> HIDE DEF p
<1>3. \A u \in Units : /\ dut.s1[u] = NoTransaction /\ dut.tree[u] = NoTransaction
                       /\ ~dut.acc_done[u] /\ dut.af_cnt[u] = 0 /\ ~dut.af_done[u]
  BY <1>1, FlushDrains DEF ExecuteStart, IInv, DeferredOK, Units
<1>4. pending_mac16_count = 0 /\ ~dut.ew_done
  BY <1>1, FlushDrains DEF ExecuteStart, IInv, DeferredOK
<1>5. Values(dut', ncalls) /\ Controls(dut)' /\ ncalls \in 1 .. MaxCalls /\ call.id = ncalls
  BY <1>1, <1>2, StartValues
<1>6. \A u \in Units :
        /\ dut'.s1[u] = IF call.op \in WaitedMacs /\ u = Selected' THEN call.id ELSE NoTransaction
        /\ dut'.tree[u] = NoTransaction /\ ~dut'.acc_done[u]
        /\ dut'.af_cnt[u] = IF call.op = "af" /\ u = Selected' THEN 4 ELSE 0
        /\ ~dut'.af_done[u]
  BY <1>1, <1>2, <1>3, Stages DEF af_accepted
<1>7. (dut'.ew_done <=> call.op = "ewmul") /\ ~dut'.o_done
  BY <1>1, <1>2, <1>3, <1>4, DoneSignals
<1>8. WaitOK'
  BY <1>1, <1>4, <1>6, <1>7, Bounds DEF WaitOK, ExecuteStart, host, WaitedMacs
<1>9. TypeOK'
  <2>1. \A l \in Lanes : dut'.mac_q[l].sum \subseteq (-MaxCalls) .. MaxCalls
    BY <1>5, WordsWithin
  <2>2. DOMAIN dut' = DOMAIN ResetState /\ DOMAIN pins' = DOMAIN IdlePins
    BY <1>1, <1>2, Domains DEF PinType, IdlePins
  <2>3. elapsed' \in Nat /\ waited' \in 0 .. MaxWait
    BY Bounds DEF IInv, TypeOK, ExecuteStart, clock_tick
  <2> QED
    BY <1>1, <2>1, <2>2, <2>3 DEF IInv, TypeOK, ExecuteStart, host
<1>10. PinsOK' /\ CallOK'
  BY <1>1, <1>2 DEF IInv, PinsOK, CallOK, ExecuteStart
<1>11. DeferredOK' /\ SpacingOK'
  BY <1>1 DEF DeferredOK, SpacingOK
<1>12. ElapsedOK'
  BY <1>1 DEF IInv, ElapsedOK, ExecuteStart, clock_tick, host
<1>13. ValuesOK'
  BY <1>1, <1>4, <1>5 DEF ValuesOK, Issued, ExecuteStart, host
<1> QED
  BY <1>5, <1>8, <1>9, <1>10, <1>11, <1>12, <1>13 DEF IInv

(* When wait_for_done returns: with the edge of the call's own completion, *)
(* or, of an element-wise product only, at the end of its loop.            *)
LEMMA WaitEnds ==
  ASSUME IInv, WaitTick
  PROVE  /\ call.op \in WaitedMacs => (DoneRises <=> waited = 2) /\ waited <= 2
         /\ call.op = "af" => (DoneRises <=> waited = 4) /\ waited <= 4
         /\ call.op = "ewmul" => (DoneRises => waited = 0)
         /\ prev_done' = dut'.o_done /\ prev_done' \in BOOLEAN
         /\ dut'.o_done <=> \/ call.op \in WaitedMacs /\ waited = 2
                            \/ call.op = "af" /\ waited = 4
                            \/ call.op = "ewmul" /\ waited = 0
<1>1. /\ dut' = Clock(dut, pins) /\ pc = "wait" /\ prev_done' = dut'.o_done
      /\ call.op \in ExecuteOps /\ waited \in Nat
  BY Bounds DEF WaitTick, clock_tick, observe_done_rising, IInv, CallOK, TypeOK
<1>2. Selected \in Units
  BY DEF Selected, Units
<1>3. /\ dut'.o_done \in BOOLEAN
      /\ dut'.o_done <=> \/ call.op \in WaitedMacs /\ waited = 2
                         \/ call.op = "af" /\ waited = 4
                         \/ call.op = "ewmul" /\ waited = 0
  BY <1>1, <1>2, DoneSignals DEF IInv, WaitOK
<1>4. waited > 0 => (prev_done <=> call.op = "ewmul" /\ waited = 1)
  BY <1>1 DEF IInv, WaitOK
<1> QED
  BY <1>1, <1>3, <1>4 DEF DoneRises, IInv, WaitOK, WaitedMacs

LEMMA WaitTickInv == ASSUME IInv, WaitTick PROVE IInv'
<1>1. /\ dut' = Clock(dut, pins) /\ ~pins.i_start /\ pc = "wait"
      /\ call' = call /\ waited' = waited + 1
      /\ ncalls' = ncalls /\ pending_mac16_count' = pending_mac16_count
  BY DEF WaitTick, clock_tick, IInv, PinsOK, PinType
<1>2. call.op \in ExecuteOps /\ waited \in Nat /\ ncalls \in Nat /\ pending_mac16_count = 0
  BY <1>1, Bounds DEF IInv, CallOK, TypeOK, WaitOK
<1>3. \A u \in Units : ~mac_start(pins, u) /\ ~af_accepted(dut, pins, u)
  BY <1>1, NoStart
<1>4. ~ewmul_start(pins)
  BY <1>1 DEF ewmul_start
<1>5. Values(dut', ncalls) /\ Controls(dut)' /\ Issued = ncalls /\ ncalls \in 0 .. MaxCalls
  BY <1>1, IdleValues DEF Issued
<1> DEFINE mac(u) == call.op \in WaitedMacs /\ u = Selected
           af(u) == call.op = "af" /\ u = Selected
<1>6. \A u \in Units : /\ dut'.s1[u] = NoTransaction
                       /\ dut'.tree[u] = IF mac(u) /\ waited = 0 THEN call.id ELSE NoTransaction
                       /\ dut'.acc_done[u] <=> mac(u) /\ waited = 1
                       /\ dut'.af_cnt[u] = IF af(u) /\ waited < 3 THEN 3 - waited ELSE 0
                       /\ dut'.af_done[u] <=> af(u) /\ waited = 3
  <2> TAKE u \in Units
  <2>1. call.id # NoTransaction
    BY <1>1 DEF IInv, CallOK, TypeOK, NoTransaction
  <2>2. /\ dut.s1[u] = IF mac(u) /\ waited = 0 THEN call.id ELSE NoTransaction
        /\ dut.tree[u] = IF mac(u) /\ waited = 1 THEN call.id ELSE NoTransaction
        /\ dut.af_cnt[u] = IF af(u) /\ waited < 4 THEN 4 - waited ELSE 0
    BY <1>1 DEF IInv, WaitOK
  <2>3. /\ dut'.s1[u] = NoTransaction /\ dut'.tree[u] = dut.s1[u]
        /\ dut'.acc_done[u] <=> dut.tree[u] # NoTransaction
        /\ dut'.af_cnt[u] = IF dut.af_cnt[u] > 0 THEN dut.af_cnt[u] - 1 ELSE 0
        /\ dut'.af_done[u] <=> dut.af_cnt[u] = 1
    BY <1>1, <1>3, Stages
  <2> HIDE DEF mac, af
  <2> QED
    BY <1>2, <2>1, <2>2, <2>3
<1> HIDE DEF mac, af
<1>7. ~dut'.ew_done
  BY <1>1, <1>4, DoneSignals
<1>8. TypeOK' /\ prev_done' = dut'.o_done
  <2>1. \A l \in Lanes : dut'.mac_q[l].sum \subseteq (-MaxCalls) .. MaxCalls
    BY <1>5, WordsWithin
  <2>2. DOMAIN dut' = DOMAIN ResetState
    BY <1>1, Domains
  <2>3. DOMAIN pins' = DOMAIN IdlePins
    BY DEF WaitTick, ReleasedPins, IInv, PinsOK, PinType, IdlePins
  <2>4. elapsed' \in Nat
    BY DEF IInv, TypeOK, WaitTick, clock_tick
  <2>5. waited' \in 0 .. MaxWait
    BY <1>1, <1>2, WaitEnds, Bounds DEF IInv, WaitOK, ExecuteOps, WaitedMacs
  <2>6. prev_done' = dut'.o_done /\ prev_done' \in BOOLEAN
    BY WaitEnds
  <2>7. pc' \in {"idle", "flush", "wait", "space", "enqueued"}
    BY DEF IInv, TypeOK, WaitTick, Finish
  <2> QED
    BY <1>1, <2>1, <2>2, <2>3, <2>4, <2>5, <2>6, <2>7 DEF IInv, TypeOK, WaitTick
<1>9. CASE DoneRises \/ waited + 1 = MaxWait
  <2>1. pc' = "idle" /\ pins' = ReleasedPins(call)
    BY <1>9 DEF WaitTick, Finish
  <2>2. call.op \in WaitedMacs => waited = 2
    BY <1>2, <1>9, WaitEnds, Bounds
  <2>3. call.op = "af" => waited = 4
    BY <1>2, <1>9, WaitEnds, Bounds
  <2>4. \A u \in Units : /\ dut'.s1[u] = NoTransaction /\ dut'.tree[u] = NoTransaction
                         /\ ~dut'.acc_done[u] /\ dut'.af_cnt[u] = 0 /\ ~dut'.af_done[u]
    BY <1>2, <1>6, <2>2, <2>3 DEF mac, af
  <2>5. PinsOK' /\ CallOK'
    BY <1>1, <2>1 DEF IInv, PinsOK, PinType, CallOK, ReleasedPins
  <2>6. InFlight("abk")' = 0
    BY <2>4 DEF InFlight, Units
  <2>7. DeferredOK'
    BY <1>1, <1>2, <1>7, <1>8, <2>1, <2>4, <2>6 DEF DeferredOK, Units
  <2>8. SpacingOK'
    BY <2>1, <2>4 DEF SpacingOK, Units
  <2>9. WaitOK' /\ ElapsedOK'
    BY <2>1 DEF WaitOK, ElapsedOK
  <2>10. ValuesOK'
    BY <1>1, <1>2, <1>5, <2>1 DEF ValuesOK, Issued
  <2> QED
    BY <1>5, <1>8, <2>5, <2>7, <2>8, <2>9, <2>10 DEF IInv
<1>10. CASE ~(DoneRises \/ waited + 1 = MaxWait)
  <2>1. pc' = "wait" /\ pins' = pins
    BY <1>1, <1>10 DEF WaitTick
  <2>2. call.op \in WaitedMacs => waited < 2
    BY <1>2, <1>10, WaitEnds
  <2>3. call.op = "af" => waited < 4
    BY <1>2, <1>10, WaitEnds
  <2>4. call.op = "ewmul" => waited + 1 < MaxWait
    BY <1>1, <1>2, <1>10, Bounds DEF IInv, WaitOK
  <2>5. PinsOK' /\ CallOK'
    BY <1>1, <2>1 DEF IInv, PinsOK, CallOK
  <2>6. DeferredOK' /\ SpacingOK'
    BY <2>1 DEF DeferredOK, SpacingOK
  <2>7. WaitOK'
    <3>1. Selected' = Selected
      BY <2>1 DEF Selected
    <3>2. dut'.o_done <=> call.op = "ewmul" /\ waited = 0
      BY <1>2, <2>2, <2>3, WaitEnds
    <3>3. ASSUME NEW u \in Units
          PROVE  LET m == call'.op \in WaitedMacs /\ u = Selected'
                     a == call'.op = "af" /\ u = Selected'
                 IN  /\ dut'.s1[u] = IF m /\ waited' = 0 THEN call'.id ELSE NoTransaction
                     /\ dut'.tree[u] = IF m /\ waited' = 1 THEN call'.id ELSE NoTransaction
                     /\ dut'.acc_done[u] <=> (m /\ waited' = 2)
                     /\ dut'.af_cnt[u] = IF a /\ waited' < 4 THEN 4 - waited' ELSE 0
                     /\ dut'.af_done[u] <=> (a /\ waited' = 4)
      BY <1>1, <1>2, <1>6, <3>1, <3>3 DEF mac, af
    <3> QED
      BY <1>1, <1>2, <1>7, <1>8, <2>2, <2>3, <2>4, <3>2, <3>3 DEF WaitOK
  <2>8. ElapsedOK'
    BY <1>1, <1>2, <2>1 DEF IInv, ElapsedOK, TypeOK, WaitTick, clock_tick
  <2>9. ValuesOK'
    BY <1>1, <1>2, <1>5, <2>1 DEF ValuesOK, Issued
  <2> QED
    BY <1>5, <1>8, <2>5, <2>6, <2>7, <2>8, <2>9 DEF IInv
<1> QED
  BY <1>9, <1>10

LEMMA InvNext == IInv /\ [Next]_vars => IInv'
<1> SUFFICES ASSUME IInv, [Next]_vars PROVE IInv'
  OBVIOUS
<1>1. CASE UNCHANGED vars
  BY <1>1 DEF vars, host, IInv, TypeOK, PinsOK, CallOK, DeferredOK, InFlight, SpacingOK, MustSpace,
              WaitOK, Selected, ElapsedOK, ValuesOK, Issued, Controls
<1>2. CASE Next
  BY <1>2, CallInv, FlushTickInv, FlushReturnInv, ExecuteStartInv, WaitTickInv, SpaceTickInv,
     EnqueueStartInv, EnqueueReturnInv, ResetInv DEF Next
<1> QED
  BY <1>1, <1>2
-----------------------------------------------------------------------------
(* THEOREM: the pipeline, the counters and the controls always agree: the  *)
(* inductive invariant behind the rest.                                    *)
THEOREM EngineInvariant == Spec => []IInv
  BY InvInit, InvNext, PTL DEF Spec

(* THEOREM: the engine's state keeps its type. *)
THEOREM TypeCorrect == Spec => []TypeOK
<1>1. IInv => TypeOK
  BY DEF IInv
<1> QED
  BY <1>1, EngineInvariant, PTL

(* THEOREM: between calls exactly the pending MAC16s are in the unit, for  *)
(* any number of calls: no completion is merged, missed or taken twice     *)
(* (capture_mac16_done_if_ready).                                          *)
THEOREM PendingExact == Spec => []PendingIsInFlight
<1>1. IInv => PendingIsInFlight
  <2> SUFFICES ASSUME IInv, pc = "idle"
               PROVE  pending_mac16_count = InFlight("abk") /\ InFlight("scalar") = 0
    BY DEF PendingIsInFlight
  <2> QED
    BY Bounds DEF IInv, TypeOK, DeferredOK, InFlight, NoTransaction
<1> QED
  BY <1>1, EngineInvariant, PTL

(* THEOREM: no stage without a transaction holds a control, and the units  *)
(* never share a stage (pim_mac_tree's control pipeline).                  *)
THEOREM ControlsInStep == Spec => []ControlsTravelWithOperands
<1>1. IInv => ControlsTravelWithOperands
  BY DEF IInv, Controls, ControlsTravelWithOperands
<1> QED
  BY <1>1, EngineInvariant, PTL

(* THEOREM: both lanes of an accumulator never hold the same contribution, *)
(* so its merge sums each of them once (accumulator_param).                *)
THEOREM SummedOnce == Spec => []LanesDisjoint
<1>1. IInv => LanesDisjoint
  BY DEF IInv, ValuesOK, Values, LanesDisjoint
<1> QED
  BY <1>1, EngineInvariant, PTL

(***************************************************************************)
(* Without element-wise products every execute_* call sees its             *)
(* own done, and reports the unit's latency unless it had to drain.  The   *)
(* hypothesis is needed: a product right after another completion shows no *)
(* rising edge (wait_for_done).                                            *)
(***************************************************************************)
LEMMA LatencyIsIntrinsic ==
  ASSUME "ewmul" \notin Ops PROVE Spec => [](ReportedLatency /\ ExecuteSeesDone)
<1> DEFINE Inv == ReportedLatency /\ ExecuteSeesDone
<1>1. Init => Inv
  BY DEF Init, ReportedLatency, ExecuteSeesDone
<1>2. IInv /\ Inv /\ [Next]_vars => Inv'
  <2> SUFFICES ASSUME IInv, Inv, [Next]_vars PROVE Inv'
    OBVIOUS
  <2>1. CASE WaitTick /\ (DoneRises \/ waited + 1 = MaxWait)
    <3>1. call.op \in {"mac", "mac16", "af"} /\ waited \in Nat
      BY <2>1, Bounds DEF IInv, CallOK, WaitTick, ExecuteOps, TypeOK
    <3>2. DoneRises /\ waited = IF call.op = "af" THEN 4 ELSE 2
      BY <2>1, <3>1, WaitEnds, Bounds DEF WaitedMacs
    <3>3. ~drained => elapsed = waited + 1
      BY <2>1 DEF IInv, ElapsedOK, WaitTick
    <3>4. /\ ret'.success = DoneRises /\ ret'.op = call.op /\ call' = call /\ drained' = drained
          /\ ret'.rtl_cycles = apply_override(elapsed + 1, Override)
      BY <2>1 DEF WaitTick, Finish
    <3>5. ReportedLatency'
      BY <3>1, <3>2, <3>3, <3>4 DEF ReportedLatency, IntrinsicLatency
    <3> QED
      BY <3>2, <3>4, <3>5 DEF ExecuteSeesDone
  <2>2. CASE FlushReturn \/ EnqueueReturn
    <3>1. ret'.op = call.op /\ call.op \notin ExecuteOps
      BY <2>2 DEF IInv, CallOK, FlushReturn, EnqueueReturn, Finish, ExecuteOps
    <3> QED
      BY <3>1 DEF ReportedLatency, ExecuteSeesDone, ExecuteOps
  <2>3. CASE UNCHANGED <<pc, call, drained, ret>>
    BY <2>3 DEF ReportedLatency, ExecuteSeesDone
  <2>4. CASE pc' # "idle"
    BY <2>4 DEF ReportedLatency, ExecuteSeesDone
  <2>5. CASE WaitTick /\ ~(DoneRises \/ waited + 1 = MaxWait)
    BY <2>4, <2>5 DEF WaitTick
  <2>6. ASSUME NEW op \in Ops, NEW acc \in BOOLEAN, Call(op, acc) PROVE pc' # "idle"
    BY <2>6 DEF Call
  <2>7. CASE FlushTick \/ ExecuteStart \/ SpaceTick \/ EnqueueStart
    BY <2>4, <2>7 DEF FlushTick, ExecuteStart, SpaceTick, EnqueueStart
  <2>8. CASE Reset \/ UNCHANGED vars
    BY <2>3, <2>8 DEF Reset, vars
  <2> QED
    BY <2>1, <2>2, <2>4, <2>5, <2>6, <2>7, <2>8 DEF Next
<1> QED
  BY <1>1, <1>2, EngineInvariant, PTL DEF Spec

(* Every blocking call reports the latency of its own datapath, whatever   *)
(* was called before it and however many MAC16s are deferred, unless it    *)
(* had to drain them first (wait_for_done counts its ticks).               *)
THEOREM LatencyReported ==
  ASSUME "ewmul" \notin Ops PROVE Spec => []ReportedLatency
<1>1. ReportedLatency /\ ExecuteSeesDone => ReportedLatency
  OBVIOUS
<1> QED
  BY <1>1, LatencyIsIntrinsic, PTL

(* No blocking call runs into the timeout of wait_for_done.                *)
THEOREM DoneIsSeen ==
  ASSUME "ewmul" \notin Ops PROVE Spec => []ExecuteSeesDone
<1>1. ReportedLatency /\ ExecuteSeesDone => ExecuteSeesDone
  OBVIOUS
<1> QED
  BY <1>1, LatencyIsIntrinsic, PTL
-----------------------------------------------------------------------------
(* The refinement needs to know what the registers hold, besides where the *)
(* transactions are.                                                       *)

Occupied(d, u) == d.s1[u] # NoTransaction \/ d.tree[u] # NoTransaction \/ d.acc_done[u]

(* A finished sum is that of both lanes, as long as a bias is added in a   *)
(* first step only; the last BF16 is lane 0 of the result word.            *)
Results(d) ==
  /\ \A u \in Units :
       /\ d.s1[u] # NoTransaction => (d.ctl0.bias_en <=> ~d.ctl0.acc_en)
       /\ d.tree[u] # NoTransaction => (d.ctl1.bias_en <=> ~d.ctl1.acc_en)
       /\ d.acc_done[u] => d.acc_out[u] = d.left[u] \union d.right[u]
  /\ d.last_bf16 = d.mac_q[0]
  /\ d.mac_q = [l \in Lanes |-> d.mac_q[l]]

(* With the scalar unit selected the last result is a broadcast one.       *)
BroadcastOK ==
  ~pins.i_all_bank_vector_en =>
    /\ ~Occupied(dut, "abk")
    /\ ~Occupied(dut, "scalar") => dut.mac_q = [l \in Lanes |-> dut.mac_q[0]]

(* What the activation unit and the multiplier work on.                    *)
OperandsOK ==
  pc = "wait" =>
    /\ call.op = "af" /\ waited < 4 => dut.af_latch[Selected] = dut.mac_q
    /\ call.op = "af" /\ waited = 4 => dut.af_out[Selected] = dut.mac_q
    /\ call.op = "ewmul" => dut.ew_q = call.id

CapturedOK == last_mac16_result_valid <=> last_mac16_result # ZeroFlat

RInv == Results(dut) /\ BroadcastOK /\ OperandsOK /\ CapturedOK

LEMMA UnitsAre == "abk" \in Units /\ "scalar" \in Units /\ \A u \in Units : u = "abk" \/ u = "scalar"
  BY DEF Units

LEMMA OneUnit == IInv => ~Occupied(dut, "scalar") \/ ~Occupied(dut, "abk")
<1> SUFFICES ASSUME IInv PROVE ~Occupied(dut, "scalar") \/ ~Occupied(dut, "abk")
  OBVIOUS
<1>1. CASE pc # "wait"
  BY <1>1 DEF IInv, DeferredOK, Occupied
<1>2. CASE pc = "wait"
  BY <1>2, UnitsAre DEF IInv, WaitOK, Occupied
<1> QED
  BY <1>1, <1>2

(* An empty unit publishes nothing; a full one the word of the lanes.      *)
LEMMA ResultTick ==
  ASSUME NEW d, NEW p, NEW e, e = Clock(d, p)
  PROVE  /\ (\A u \in Units : ~d.acc_done[u]) => e.mac_q = d.mac_q /\ e.last_bf16 = d.last_bf16
         /\ (\E u \in Units : d.acc_done[u]) => e.last_bf16 = e.mac_q[0]
         /\ d.acc_done["abk"] => e.mac_q = Flat("abk", d.acc_out["abk"])
         /\ d.acc_done["scalar"] /\ ~d.acc_done["abk"] => e.mac_q = Flat("scalar", d.acc_out["scalar"])
<1>1. e.mac_q = mac_q_next(d) /\ e.last_bf16 = last_bf16_next(d)
  BY DEF Clock
<1> QED
  BY <1>1, UnitsAre DEF mac_q_next, last_bf16_next

LEMMA Broadcast ==
  /\ \A sum : Flat("scalar", sum) = [l \in Lanes |-> Flat("scalar", sum)[0]]
  /\ \A u \in Units : \A sum : Flat(u, sum) = [l \in Lanes |-> Flat(u, sum)[l]]
  /\ ZeroFlat = [l \in Lanes |-> ZeroFlat[0]] /\ ZeroFlat = [l \in Lanes |-> ZeroFlat[l]]
  /\ \A sum : Flat("abk", sum) # ZeroFlat
<1>1. 0 \in Lanes
  BY LanesAssumption
<1>2. \A sum : Flat("abk", sum)[0].lane = 0 /\ ZeroFlat[0].lane = -1
  BY <1>1 DEF Flat, ZeroFlat, LaneValue, ScalarLane
<1> QED
  BY <1>1, <1>2 DEF Flat, ZeroFlat

LEMMA ResultsTick ==
  ASSUME NEW d, NEW p, NEW e, e = Clock(d, p), Results(d),
         \A u \in Units : mac_start(p, u) => (p.i_bias_en <=> ~p.i_acc_en)
  PROVE  Results(e)
<1>1. e.ctl0 = ctl0_next(d, p) /\ e.ctl1 = d.ctl0
  BY DEF Clock, ctl1_next
<1>2. ASSUME NEW u \in Units
      PROVE  /\ e.s1[u] # NoTransaction => (e.ctl0.bias_en <=> ~e.ctl0.acc_en)
             /\ e.tree[u] # NoTransaction => (e.ctl1.bias_en <=> ~e.ctl1.acc_en)
  BY <1>1, <1>2, Stages DEF ctl0_next, Results
<1>3. ASSUME NEW u \in Units, e.acc_done[u] PROVE e.acc_out[u] = e.left[u] \union e.right[u]
  <2>1. d.tree[u] # NoTransaction /\ (d.ctl1.bias_en <=> ~d.ctl1.acc_en)
    BY <1>3, Stages DEF Results
  <2> QED
    BY <1>3, <2>1, Accumulators
<1>4. e.last_bf16 = e.mac_q[0] /\ e.mac_q = [l \in Lanes |-> e.mac_q[l]]
  BY ResultTick, Broadcast, UnitsAre DEF Results
<1> QED
  BY <1>2, <1>3, <1>4 DEF Results

LEMMA RInvInit == Init => RInv
<1> SUFFICES ASSUME Init PROVE RInv
  OBVIOUS
<1>1. /\ \A u \in Units : dut.s1[u] = NoTransaction /\ dut.tree[u] = NoTransaction /\ ~dut.acc_done[u]
      /\ dut.mac_q = ZeroFlat /\ dut.last_bf16 = LaneValue(ScalarLane, {})
  BY DEF Init, ResetState
<1>2. ZeroFlat[0] = LaneValue(ScalarLane, {})
  BY LanesAssumption DEF ZeroFlat
<1>3. Results(dut)
  BY <1>1, <1>2, Broadcast DEF Results
<1>4. BroadcastOK
  BY <1>1, Broadcast, UnitsAre DEF BroadcastOK, Occupied
<1>5. OperandsOK /\ CapturedOK
  BY DEF Init, OperandsOK, CapturedOK
<1> QED
  BY <1>3, <1>4, <1>5 DEF RInv

LEMMA OperandTick ==
  ASSUME NEW d, NEW p, NEW e, e = Clock(d, p), NEW u \in Units
  PROVE  /\ e.af_latch[u] = IF af_accepted(d, p, u) THEN af_input(d, u) ELSE d.af_latch[u]
         /\ e.af_out[u] = IF d.af_cnt[u] = 1 THEN d.af_latch[u] ELSE d.af_out[u]
<1>1. e.af_latch = af_latch_next(d, p) /\ e.af_out = af_out_next(d)
  BY DEF Clock
<1>2. e.af_latch[u] = IF af_accepted(d, p, u) THEN af_input(d, u) ELSE d.af_latch[u]
  BY <1>1 DEF af_latch_next
<1>3. e.af_out[u] = IF d.af_cnt[u] = 1 THEN d.af_latch[u] ELSE d.af_out[u]
  BY <1>1 DEF af_out_next
<1> QED
  BY <1>2, <1>3

LEMMA ProductTick ==
  ASSUME NEW d, NEW p, NEW e, e = Clock(d, p)
  PROVE  /\ ewmul_start(p) => e.ew_q = p.operand
         /\ ~ewmul_start(p) => e.ew_q = d.ew_q
<1>1. e.ew_q = ew_q_next(d, p)
  BY DEF Clock
<1> QED
  BY <1>1 DEF ew_q_next

(* With the scalar unit selected, a tick that starts no MAC keeps the      *)
(* result a broadcast one.                                                 *)
LEMMA BroadcastTick ==
  ASSUME BroadcastOK, NEW p, dut' = Clock(dut, p), \A u \in Units : ~mac_start(p, u),
         pins'.i_all_bank_vector_en = pins.i_all_bank_vector_en
  PROVE  BroadcastOK'
<1> SUFFICES ASSUME ~pins.i_all_bank_vector_en
             PROVE  /\ ~Occupied(dut', "abk")
                    /\ ~Occupied(dut', "scalar") => dut'.mac_q = [l \in Lanes |-> dut'.mac_q[0]]
  BY DEF BroadcastOK
<1>1. ~dut.acc_done["abk"] /\ ~Occupied(dut', "abk")
  BY Stages, UnitsAre DEF BroadcastOK, Occupied
<1>2. CASE dut.acc_done["scalar"]
  <2>1. dut'.mac_q = Flat("scalar", dut.acc_out["scalar"])
    BY <1>1, <1>2, ResultTick
  <2> QED
    BY <1>1, <2>1, Broadcast
<1>3. CASE ~dut.acc_done["scalar"]
  <2>1. dut'.mac_q = dut.mac_q
    BY <1>1, <1>3, ResultTick, UnitsAre
  <2>2. Occupied(dut, "scalar") => Occupied(dut', "scalar")
    BY <1>3, Stages, UnitsAre DEF Occupied
  <2> QED
    BY <1>1, <2>1, <2>2 DEF BroadcastOK
<1> QED
  BY <1>2, <1>3

LEMMA CapturedTick ==
  ASSUME IInv, CapturedOK, pc \in {"flush", "space"}, NEW p, dut' = Clock(dut, p),
         capture_mac16_done_if_ready
  PROVE  CapturedOK'
<1>1. CASE DoneRises /\ pending_mac16_count > 0
  <2>1. dut.acc_done["abk"]
    <3>1. ~dut.ew_done /\ ~dut.acc_done["scalar"] /\ \A u \in Units : ~dut.af_done[u]
      BY DEF IInv, DeferredOK
    <3> QED
      BY <1>1, <3>1, DoneSignals, UnitsAre DEF DoneRises
  <2>2. last_mac16_result' = Flat("abk", dut.acc_out["abk"]) /\ last_mac16_result_valid' = TRUE
    BY <1>1, <2>1, ResultTick DEF capture_mac16_done_if_ready
  <2> QED
    BY <2>2, Broadcast DEF CapturedOK
<1>2. CASE ~(DoneRises /\ pending_mac16_count > 0)
  BY <1>2 DEF capture_mac16_done_if_ready, CapturedOK
<1> QED
  BY <1>1, <1>2

LEMMA RInvFlushTick == ASSUME IInv, RInv, FlushTick \/ SpaceTick PROVE RInv'
<1>1. /\ dut' = Clock(dut, pins) /\ ~pins.i_start /\ pins' = pins
      /\ pc \in {"flush", "space"} /\ pc' = pc /\ capture_mac16_done_if_ready
  BY DEF FlushTick, SpaceTick, clock_tick, IInv, PinsOK, PinType
<1>2. \A u \in Units : ~mac_start(pins, u)
  BY <1>1 DEF mac_start
<1>3. Results(dut)'
  BY <1>1, <1>2, ResultsTick DEF RInv, Results
<1>4. BroadcastOK'
  BY <1>1, <1>2, BroadcastTick DEF RInv
<1>5. OperandsOK' /\ CapturedOK'
  BY <1>1, CapturedTick DEF RInv, OperandsOK
<1> QED
  BY <1>3, <1>4, <1>5 DEF RInv

LEMMA RInvEnqueueStart == ASSUME IInv, RInv, EnqueueStart PROVE RInv'
<1> DEFINE p == [DrivenPins(call) EXCEPT !.i_start = TRUE]
<1>1. /\ dut' = Clock(dut, p) /\ pins' = DrivenPins(call) /\ capture_mac16_done_if_ready
      /\ pc = "space" /\ pc' = "enqueued" /\ call.op = "enqueue"
  BY DEF EnqueueStart, clock_tick, IInv, CallOK
<1>2. pins'.i_all_bank_vector_en
  BY <1>1, MacPins DEF IInv
<1>3. p.i_acc_en = call.acc_en /\ p.i_bias_en = ~call.acc_en
  BY <1>1, MacPins DEF IInv
<1>4. p.i_bias_en <=> ~p.i_acc_en
  BY <1>3
<1> HIDE DEF p
<1>5. Results(dut') /\ Results(dut)'
  BY <1>1, <1>4, ResultsTick DEF RInv, Results
<1>6. CapturedOK'
  BY <1>1, CapturedTick DEF RInv
<1> QED
  BY <1>1, <1>2, <1>5, <1>6 DEF RInv, BroadcastOK, OperandsOK

(* The start of an execute_* call: the unit is empty, its result register  *)
(* is what an activation takes.                                            *)
LEMMA RInvExecuteStart == ASSUME IInv, RInv, ExecuteStart PROVE RInv'
<1> DEFINE p == [DrivenPins(call) EXCEPT !.i_start = TRUE]
<1>1. /\ dut' = Clock(dut, p) /\ pins' = DrivenPins(call) /\ UNCHANGED host
      /\ pc = "flush" /\ pc' = "wait" /\ ~FlushGoesOn /\ call' = call /\ waited' = 0
      /\ call.op \in ExecuteOps
  BY EngineAssumption DEF ExecuteStart, clock_tick, IInv, CallOK, ExecuteOps
<1>2. \A u \in Units : /\ ~dut.acc_done[u] /\ ~Occupied(dut, u)
                       /\ dut.af_cnt[u] = 0
  BY <1>1, FlushDrains, UnitsAre DEF IInv, DeferredOK, Occupied
<1>3. CapturedOK'
  BY <1>1 DEF RInv, CapturedOK, host
<1>4. CASE call.op \in WaitedMacs
  <2>1. pins'.i_all_bank_vector_en <=> call.op # "mac"
    BY <1>1, <1>4, MacPins DEF IInv, WaitedMacs
  <2>2. \A u \in Units : mac_start(p, u) <=> (u = "abk" <=> call.op # "mac")
    BY <1>1, <1>4, MacPins DEF IInv, WaitedMacs
  <2>3. p.i_acc_en = call.acc_en /\ p.i_bias_en = ~call.acc_en
    BY <1>1, <1>4, MacPins DEF IInv, WaitedMacs
  <2>4. p.i_bias_en <=> ~p.i_acc_en
    BY <2>3
  <2>5. p.operand # NoTransaction
    <3>1. p.operand = call.id
      BY <1>1, <1>4, MacPins DEF IInv, WaitedMacs
    <3>2. call.id = ncalls /\ ncalls > 0
      BY <1>1 DEF IInv, CallOK
    <3> HIDE DEF p
    <3> QED
      BY <3>1, <3>2 DEF NoTransaction, IInv, TypeOK
  <2> HIDE DEF p
  <2>6. Results(dut') /\ Results(dut)'
    BY <1>1, <2>4, ResultsTick DEF RInv, Results
  <2>7. ~pins'.i_all_bank_vector_en =>
          ~Occupied(dut', "abk") /\ Occupied(dut', "scalar")
    BY <1>1, <1>2, <2>1, <2>2, <2>5, Stages, UnitsAre DEF Occupied
  <2> QED
    BY <1>1, <1>3, <1>4, <2>6, <2>7 DEF RInv, BroadcastOK, OperandsOK, WaitedMacs
<1>5. CASE call.op = "af"
  <2>1. /\ pins'.i_all_bank_vector_en = pins.i_all_bank_vector_en
        /\ \A u \in Units : ~mac_start(p, u) /\ (af_start(p, u) <=> u = Selected)
    BY <1>1, <1>5, AfPins DEF IInv
  <2> HIDE DEF p
  <2>2. Results(dut') /\ Results(dut)'
    BY <1>1, <2>1, ResultsTick DEF RInv, Results
  <2>3. BroadcastOK'
    BY <1>1, <2>1, BroadcastTick DEF RInv
  <2>4. dut'.mac_q = dut.mac_q
    BY <1>1, <1>2, ResultTick
  <2>5. Selected' = Selected /\ Selected \in Units
    BY <2>1 DEF Selected, Units
  <2>6. dut'.af_latch[Selected] = af_input(dut, Selected)
    BY <1>1, <1>2, <2>1, <2>5, OperandTick DEF af_accepted
  <2>7. af_input(dut, Selected) = dut.mac_q
    BY <1>2, UnitsAre DEF af_input, Selected, RInv, Results, BroadcastOK
  <2>8. OperandsOK'
    BY <1>1, <1>5, <2>4, <2>5, <2>6, <2>7 DEF OperandsOK
  <2> QED
    BY <1>3, <2>2, <2>3, <2>8 DEF RInv
<1>6. CASE call.op = "ewmul"
  <2>1. /\ pins'.i_all_bank_vector_en = pins.i_all_bank_vector_en
        /\ \A u \in Units : ~mac_start(p, u)
        /\ ewmul_start(p) /\ p.operand = call.id
    BY <1>1, <1>6, EwmulPins DEF IInv
  <2> HIDE DEF p
  <2>2. Results(dut') /\ Results(dut)'
    BY <1>1, <2>1, ResultsTick DEF RInv, Results
  <2>3. BroadcastOK'
    BY <1>1, <2>1, BroadcastTick DEF RInv
  <2>4. dut'.ew_q = call.id
    BY <1>1, <2>1, ProductTick
  <2>5. OperandsOK'
    BY <1>1, <1>6, <2>4 DEF OperandsOK
  <2> QED
    BY <1>3, <2>2, <2>3, <2>5 DEF RInv
<1> QED
  BY <1>1, <1>4, <1>5, <1>6 DEF ExecuteOps, WaitedMacs

LEMMA RInvWaitTick == ASSUME IInv, RInv, WaitTick PROVE RInv'
<1>1. /\ dut' = Clock(dut, pins) /\ ~pins.i_start /\ pc = "wait" /\ call' = call
      /\ waited' = waited + 1 /\ waited \in Nat
      /\ UNCHANGED <<last_mac16_result, last_mac16_result_valid>>
  BY Bounds DEF WaitTick, clock_tick, IInv, PinsOK, PinType, TypeOK
<1>2. pins'.i_all_bank_vector_en = pins.i_all_bank_vector_en
  BY DEF WaitTick, ReleasedPins, IInv, PinsOK, PinType
<1>3. \A u \in Units : ~mac_start(pins, u) /\ ~af_accepted(dut, pins, u)
  BY <1>1, NoStart
<1>4. ~ewmul_start(pins)
  BY <1>1 DEF ewmul_start
<1>5. Results(dut') /\ Results(dut)'
  BY <1>1, <1>3, ResultsTick DEF RInv, Results
<1>6. BroadcastOK'
  BY <1>1, <1>2, <1>3, BroadcastTick DEF RInv
<1>7. CapturedOK'
  BY <1>1 DEF RInv, CapturedOK
<1>8. Selected' = Selected /\ Selected \in Units
  BY <1>2 DEF Selected, Units
<1>9. OperandsOK'
  <2>1. CASE call.op = "af"
    <3>1. \A u \in Units : ~dut.acc_done[u]
      BY <1>1, <2>1 DEF IInv, WaitOK, WaitedMacs
    <3>2. dut'.mac_q = dut.mac_q
      BY <1>1, <3>1, ResultTick
    <3>3. waited < 4 => dut.af_cnt[Selected] = 4 - waited
      BY <1>1, <1>8, <2>1 DEF IInv, WaitOK
    <3>4. dut'.af_latch[Selected] = dut.af_latch[Selected]
      BY <1>1, <1>3, <1>8, OperandTick
    <3>5. waited = 3 => dut'.af_out[Selected] = dut.af_latch[Selected]
      BY <1>1, <1>8, <3>3, OperandTick
    <3> QED
      BY <1>1, <1>8, <2>1, <3>2, <3>4, <3>5 DEF RInv, OperandsOK
  <2>2. CASE call.op = "ewmul"
    <3>1. dut'.ew_q = dut.ew_q
      BY <1>1, <1>4, ProductTick
    <3> QED
      BY <1>1, <2>2, <3>1 DEF RInv, OperandsOK
  <2> QED
    BY <1>1, <2>1, <2>2 DEF OperandsOK
<1> QED
  BY <1>5, <1>6, <1>7, <1>9 DEF RInv

LEMMA RInvReset == ASSUME Reset PROVE RInv'
<1>1. /\ \A u \in Units : dut'.s1[u] = NoTransaction /\ dut'.tree[u] = NoTransaction /\ ~dut'.acc_done[u]
      /\ dut'.mac_q = ZeroFlat /\ dut'.last_bf16 = LaneValue(ScalarLane, {})
  BY DEF Reset, ResetState
<1>2. ZeroFlat[0] = LaneValue(ScalarLane, {})
  BY LanesAssumption DEF ZeroFlat
<1>3. Results(dut)'
  BY <1>1, <1>2, Broadcast DEF Results
<1>4. BroadcastOK'
  BY <1>1, Broadcast, UnitsAre DEF BroadcastOK, Occupied
<1>5. OperandsOK' /\ CapturedOK'
  BY DEF Reset, OperandsOK, CapturedOK
<1> QED
  BY <1>3, <1>4, <1>5 DEF RInv

LEMMA RInvNext == IInv /\ RInv /\ [Next]_vars => RInv'
<1> SUFFICES ASSUME IInv, RInv, [Next]_vars PROVE RInv'
  OBVIOUS
<1>1. CASE \E op \in Ops, acc \in BOOLEAN : Call(op, acc)
  BY <1>1 DEF Call, host, RInv, Results, BroadcastOK, OperandsOK, CapturedOK, Occupied
<1>2. CASE FlushReturn \/ EnqueueReturn
  BY <1>2 DEF FlushReturn, EnqueueReturn, Finish, host, RInv, Results, BroadcastOK, OperandsOK,
              CapturedOK, Occupied
<1>3. CASE UNCHANGED vars
  BY <1>3 DEF vars, host, RInv, Results, BroadcastOK, OperandsOK, CapturedOK, Occupied, Selected
<1> QED
  BY <1>1, <1>2, <1>3, RInvFlushTick, RInvEnqueueStart, RInvExecuteStart, RInvWaitTick, RInvReset
     DEF Next

LEMMA RegistersInvariant == Spec => [](IInv /\ RInv)
<1>1. Init => IInv /\ RInv
  BY InvInit, RInvInit
<1>2. IInv /\ RInv /\ [Next]_vars => (IInv /\ RInv)'
  BY InvNext, RInvNext
<1> QED
  BY <1>1, <1>2, PTL DEF Spec
-----------------------------------------------------------------------------
(* What the mapping shows of the registers, and what a tick does to it.    *)

Chain(d, u) ==
  Applied(Applied(d.left[u] \union d.right[u], d.tree[u], d.ctl1), d.s1[u], d.ctl0)

(* The chain of a unit that the transaction id joins, with its bias first. *)
Joined(old, id, acc_en) == IF acc_en THEN old \union {id} ELSE {id, -id}

ChainFn == [u \in Units |-> ChainOf(u)]

LastOf(d) ==
  IF Occupied(d, "abk") THEN Flat("abk", Chain(d, "abk"))
  ELSE IF Occupied(d, "scalar") THEN Flat("scalar", Chain(d, "scalar"))
  ELSE d.mac_q

(* A tick moves a contribution on without changing the chain it ends in.   *)
LEMMA ChainTick ==
  ASSUME NEW d, NEW p, NEW e, e = Clock(d, p), NEW u \in Units
  PROVE  /\ ~mac_start(p, u) => Chain(e, u) = Chain(d, u)
         /\ mac_start(p, u) /\ p.operand # NoTransaction /\ (p.i_bias_en <=> ~p.i_acc_en) =>
              Chain(e, u) = Joined(Chain(d, u), p.operand, p.i_acc_en)
<1>1. e.ctl0 = ctl0_next(d, p) /\ e.ctl1 = d.ctl0
  BY DEF Clock, ctl1_next
<1>2. e.left[u] \union e.right[u] = Applied(d.left[u] \union d.right[u], d.tree[u], d.ctl1)
  BY Accumulators DEF Applied
<1>3. e.tree[u] = d.s1[u] /\ e.s1[u] = IF mac_start(p, u) THEN p.operand ELSE NoTransaction
  BY Stages
<1>4. Applied(e.left[u] \union e.right[u], e.tree[u], e.ctl1) = Chain(d, u)
  BY <1>1, <1>2, <1>3 DEF Chain
<1>5. CASE ~mac_start(p, u)
  BY <1>3, <1>4, <1>5 DEF Chain, Applied
<1>6. ASSUME mac_start(p, u), p.operand # NoTransaction, p.i_bias_en <=> ~p.i_acc_en
      PROVE  Chain(e, u) = Joined(Chain(d, u), p.operand, p.i_acc_en)
  <2>1. e.ctl0 = [acc_en |-> p.i_acc_en, bias_en |-> p.i_bias_en]
    BY <1>1, <1>6 DEF ctl0_next
  <2>2. Chain(e, u) = Applied(Chain(d, u), p.operand, e.ctl0)
    BY <1>3, <1>4, <1>6 DEF Chain
  <2> QED
    BY <1>6, <2>1, <2>2 DEF Applied, Joined
<1> QED
  BY <1>5, <1>6

LEMMA LastWordIs == IInv => LastWord = LastOf(dut)
<1> SUFFICES ASSUME IInv PROVE LastWord = LastOf(dut)
  OBVIOUS
<1>1. \A u \in Units : InFlight(u) > 0 <=> Occupied(dut, u)
  BY DEF InFlight, Occupied
<1>2. CASE ~\E u \in Units : InFlight(u) > 0
  BY <1>1, <1>2, UnitsAre DEF LastWord, LastOf
<1>3. CASE \E u \in Units : InFlight(u) > 0
  <2> DEFINE u == CHOOSE v \in Units : InFlight(v) > 0
  <2>1. u \in Units /\ InFlight(u) > 0
    BY <1>3
  <2>2. LastWord = Flat(u, ChainOf(u))
    BY <1>3 DEF LastWord
  <2> HIDE DEF u
  <2>3. u = "abk" \/ u = "scalar"
    BY <2>1, UnitsAre
  <2>4. ChainOf(u) = Chain(dut, u)
    BY DEF ChainOf, Chain
  <2> QED
    BY <1>1, <2>1, <2>2, <2>3, <2>4, OneUnit DEF LastOf
<1> QED
  BY <1>2, <1>3

(* A tick that starts no MAC shows nothing.                                *)
LEMMA QuietTick ==
  ASSUME IInv, IInv', RInv, NEW p, dut' = Clock(dut, p), \A u \in Units : ~mac_start(p, u)
  PROVE  ChainFn' = ChainFn /\ LastWord' = LastWord
<1>1. \A u \in Units : Chain(dut', u) = Chain(dut, u)
  BY ChainTick
<1>2. ChainFn' = ChainFn
  BY <1>1 DEF ChainFn, ChainOf, Chain
<1>3. LastWord = LastOf(dut)
  BY LastWordIs
<1>4. LastWord' = LastOf(dut')
  <2>1. IInv' => (LastWord = LastOf(dut))'
    BY LastWordIs, PTL
  <2> QED
    BY <2>1 DEF LastOf, Occupied, Chain
<1>5. \A u \in Units : Occupied(dut', u) <=> dut.s1[u] # NoTransaction \/ dut.tree[u] # NoTransaction
  BY Stages DEF Occupied
<1>6. ASSUME NEW u \in Units, dut.acc_done[u], ~Occupied(dut', u)
      PROVE  dut.acc_out[u] = Chain(dut, u)
  BY <1>5, <1>6 DEF RInv, Results, Chain, Applied
<1>7. LastOf(dut') = LastOf(dut)
  <2>1. CASE Occupied(dut, "abk")
    <3>1. ~Occupied(dut', "scalar")
      BY <1>5, <2>1, OneUnit, UnitsAre DEF Occupied
    <3>2. CASE Occupied(dut', "abk")
      BY <1>1, <2>1, <3>2, UnitsAre DEF LastOf
    <3>3. CASE ~Occupied(dut', "abk")
      <4>1. dut.acc_done["abk"]
        BY <1>5, <2>1, <3>3, UnitsAre DEF Occupied
      <4> QED
        BY <1>6, <2>1, <3>1, <3>3, <4>1, ResultTick, UnitsAre DEF LastOf
    <3> QED
      BY <3>2, <3>3
  <2>2. CASE ~Occupied(dut, "abk") /\ Occupied(dut, "scalar")
    <3>1. ~Occupied(dut', "abk") /\ ~dut.acc_done["abk"]
      BY <1>5, <2>2, UnitsAre DEF Occupied
    <3>2. CASE Occupied(dut', "scalar")
      BY <1>1, <2>2, <3>1, <3>2, UnitsAre DEF LastOf
    <3>3. CASE ~Occupied(dut', "scalar")
      <4>1. dut.acc_done["scalar"]
        BY <1>5, <2>2, <3>3, UnitsAre DEF Occupied
      <4> QED
        BY <1>6, <2>2, <3>1, <3>3, <4>1, ResultTick, UnitsAre DEF LastOf
    <3> QED
      BY <3>2, <3>3
  <2>3. CASE ~Occupied(dut, "abk") /\ ~Occupied(dut, "scalar")
    <3>1. /\ ~Occupied(dut', "abk") /\ ~Occupied(dut', "scalar")
          /\ \A u \in Units : ~dut.acc_done[u]
      BY <1>5, <2>3, UnitsAre DEF Occupied
    <3> QED
      BY <2>3, <3>1, ResultTick DEF LastOf
  <2> QED
    BY <2>1, <2>2, <2>3
<1> QED
  BY <1>2, <1>3, <1>4, <1>7

(* The tick that starts a MAC shows all of it.                             *)
LEMMA StartTick ==
  ASSUME IInv, IInv', NEW p, dut' = Clock(dut, p), NEW u \in Units,
         \A v \in Units : mac_start(p, v) <=> v = u,
         p.operand # NoTransaction, p.i_bias_en <=> ~p.i_acc_en,
         u = "scalar" => ~Occupied(dut, "abk")
  PROVE  LET sum == Joined(ChainFn[u], p.operand, p.i_acc_en)
         IN  /\ ChainFn' = [ChainFn EXCEPT ![u] = sum]
             /\ LastWord' = Flat(u, sum)
<1> DEFINE sum == Joined(ChainFn[u], p.operand, p.i_acc_en)
<1>1. \A v \in Units : ChainFn[v] = Chain(dut, v)
  BY DEF ChainFn, ChainOf, Chain
<1>2. \A v \in Units : Chain(dut', v) = IF v = u THEN sum ELSE Chain(dut, v)
  BY <1>1, ChainTick
<1>3. ChainFn' = [v \in Units |-> Chain(dut', v)]
  BY DEF ChainFn, ChainOf, Chain
<1>4. ChainFn' = [ChainFn EXCEPT ![u] = sum]
  BY <1>1, <1>2, <1>3 DEF ChainFn
<1>5. LastWord' = LastOf(dut')
  <2>1. IInv' => (LastWord = LastOf(dut))'
    BY LastWordIs, PTL
  <2> QED
    BY <2>1 DEF LastOf, Occupied, Chain
<1>6. Occupied(dut', u)
  BY Stages DEF Occupied
<1>7. u = "scalar" => ~Occupied(dut', "abk")
  BY Stages, UnitsAre DEF Occupied
<1>8. LastOf(dut') = Flat(u, sum)
  BY <1>2, <1>6, <1>7, UnitsAre DEF LastOf
<1> QED
  BY <1>4, <1>5, <1>8
-----------------------------------------------------------------------------
(* Every step is a step of the interface, or one that it does not see.     *)

LEMMA SameRegisters == ASSUME dut' = dut PROVE ChainFn' = ChainFn /\ LastWord' = LastWord
<1>1. \A u \in Units : ChainOf(u)' = ChainOf(u) /\ InFlight(u)' = InFlight(u)
  BY DEF ChainOf, InFlight
<1> QED
  BY <1>1 DEF ChainFn, LastWord

LEMMA CallSim ==
  ASSUME IInv, NEW op \in Ops, NEW acc \in BOOLEAN, Call(op, acc) PROVE Contract!Call(op, acc)
<1>1. dut' = dut /\ UNCHANGED host /\ pc = "idle" /\ pc' \in {"flush", "space"} /\ ret' = ret
  BY DEF Call
<1>2. ChainFn' = ChainFn /\ LastWord' = LastWord
  BY <1>1, SameRegisters
<1>3. QueuedWord' = QueuedWord
  BY <1>1, <1>2, UnitsAre DEF QueuedWord, ChainFn, ChainOf, host
<1>4. PhaseOf = "idle" /\ PhaseOf' = "called"
  BY <1>1 DEF PhaseOf
<1> QED
  BY <1>1, <1>2, <1>3, <1>4 DEF Contract!Call, Call, ChainFn, host

LEMMA ResetRegisters ==
  ASSUME dut' = ResetState
  PROVE  ChainFn' = [u \in Units |-> {}] /\ LastWord' = ZeroFlat
<1>1. \A u \in Units : ChainOf(u)' = {} /\ ~(InFlight(u)' > 0)
  BY DEF ChainOf, InFlight, Applied, ResetState
<1>2. dut'.mac_q = ZeroFlat
  BY DEF ResetState
<1> QED
  BY <1>1, <1>2 DEF ChainFn, LastWord

LEMMA InitSim == Init => Contract!Init
<1> SUFFICES ASSUME Init PROVE Contract!Init
  OBVIOUS
<1>1. \A u \in Units : ChainOf(u) = {} /\ ~(InFlight(u) > 0)
  BY DEF Init, ChainOf, InFlight, Applied, ResetState
<1>2. dut.mac_q = ZeroFlat
  BY DEF Init, ResetState
<1>3. LastWord = ZeroFlat
  BY <1>1, <1>2 DEF LastWord
<1>4. QueuedWord = ZeroFlat /\ PhaseOf = "idle"
  BY DEF Init, QueuedWord, PhaseOf
<1> QED
  BY <1>1, <1>3, <1>4 DEF Contract!Init, Init, Contract!NoCall, NoCall, Contract!Tree!Units, Units,
                          Contract!Tree!ZeroFlat, ZeroFlat, Contract!Tree!LaneValue, LaneValue,
                          Contract!Tree!ScalarLane, ScalarLane

LEMMA ResetSim == ASSUME Reset PROVE Contract!Reset
<1>1. ChainFn' = [u \in Units |-> {}] /\ LastWord' = ZeroFlat
  BY ResetRegisters DEF Reset
<1>2. QueuedWord' = ZeroFlat /\ PhaseOf = "idle" /\ PhaseOf' = "idle"
  BY DEF Reset, QueuedWord, PhaseOf
<1> QED
  BY <1>1, <1>2 DEF Contract!Reset, Reset, ChainFn, Contract!Tree!Units, Units,
                    Contract!Tree!ZeroFlat, ZeroFlat, Contract!Tree!LaneValue, LaneValue,
                    Contract!Tree!ScalarLane, ScalarLane

LEMMA EnqueueReturnSim == ASSUME IInv, EnqueueReturn PROVE Contract!Return
<1>1. ChainFn' = ChainFn /\ LastWord' = LastWord
  BY SameRegisters DEF EnqueueReturn
<1>2. pending_mac16_count \in Nat /\ pc = "enqueued" /\ pc' = "idle" /\ call.op = "enqueue"
  BY Bounds DEF IInv, TypeOK, CallOK, EnqueueReturn, Finish
<1>3. QueuedWord' = QueuedWord
  BY <1>1, <1>2, UnitsAre DEF QueuedWord, EnqueueReturn, ChainFn
<1>4. PhaseOf = "run" /\ PhaseOf' = "idle"
  BY <1>2 DEF PhaseOf
<1>5. (pending_mac16_count' > 0) <=> TRUE
  BY <1>2 DEF EnqueueReturn
<1> QED
  BY <1>1, <1>2, <1>3, <1>4, <1>5
     DEF Contract!Return, Contract!Result, EnqueueReturn, Finish, ChainFn,
         Contract!Tree!ZeroFlat, ZeroFlat, Contract!Tree!LaneValue, LaneValue,
         Contract!Tree!ScalarLane, ScalarLane

LEMMA FlushReturnSim == ASSUME IInv, RInv, FlushReturn PROVE Contract!Return
<1>1. ChainFn' = ChainFn /\ LastWord' = LastWord
  BY SameRegisters DEF FlushReturn
<1>2. pending_mac16_count = 0 /\ pc = "flush" /\ pc' = "idle" /\ call.op = "flush"
  BY FlushDrains DEF FlushReturn, Finish
<1>3. QueuedWord = last_mac16_result /\ QueuedWord' = QueuedWord
  BY <1>2 DEF QueuedWord, FlushReturn, host
<1>4. PhaseOf = "called" /\ PhaseOf' = "idle"
  BY <1>2 DEF PhaseOf
<1>5. ret'.data = last_mac16_result /\ (ret'.success <=> last_mac16_result # ZeroFlat)
      /\ ret'.op = "flush" /\ ret'.product = 0 /\ ret'.success \in BOOLEAN
  BY <1>2 DEF FlushReturn, Finish, RInv, CapturedOK, IInv, TypeOK
<1> QED
  BY <1>1, <1>2, <1>3, <1>4, <1>5
     DEF Contract!Return, Contract!Result, FlushReturn, host, ChainFn,
         Contract!Tree!ZeroFlat, ZeroFlat, Contract!Tree!LaneValue, LaneValue,
         Contract!Tree!ScalarLane, ScalarLane

(* The word of the last deferred MAC16, in the unit or captured: what is   *)
(* captured last is the chain.                                             *)
LEMMA QueuedTick ==
  ASSUME IInv, IInv', RInv, pc \in {"flush", "space"}, pc' = pc, dut' = Clock(dut, pins),
         capture_mac16_done_if_ready
  PROVE  /\ ChainFn' = ChainFn /\ LastWord' = LastWord /\ QueuedWord' = QueuedWord
         /\ pending_mac16_count' > 0 => pending_mac16_count > 0
         /\ DoneRises => dut.acc_done["abk"]
<1>1. ~pins.i_start /\ \A u \in Units : ~mac_start(pins, u)
  BY DEF IInv, PinsOK, PinType, mac_start
<1>2. ChainFn' = ChainFn /\ LastWord' = LastWord
  BY <1>1, QuietTick
<1>3. ChainOf("abk")' = ChainOf("abk") /\ ChainOf("abk") = Chain(dut, "abk")
  BY <1>2, UnitsAre DEF ChainFn, ChainOf, Chain
<1>4. DoneRises => dut.acc_done["abk"]
  <2>1. ~dut.ew_done /\ ~dut.acc_done["scalar"] /\ \A u \in Units : ~dut.af_done[u]
    BY DEF IInv, DeferredOK
  <2> QED
    BY <2>1, DoneSignals, UnitsAre DEF DoneRises
<1>5. pending_mac16_count \in Nat /\ pending_mac16_count = InFlight("abk")
  BY Bounds DEF IInv, TypeOK, DeferredOK
<1>6. CASE DoneRises /\ pending_mac16_count > 0
  <2>1. /\ last_mac16_result' = Flat("abk", dut.acc_out["abk"])
        /\ pending_mac16_count' = pending_mac16_count - 1
    BY <1>4, <1>6, ResultTick DEF capture_mac16_done_if_ready
  <2>2. CASE pending_mac16_count' > 0
    BY <1>2, <1>3, <1>4, <1>5, <1>6, <2>2 DEF QueuedWord
  <2>3. CASE ~(pending_mac16_count' > 0)
    <3>1. dut.s1["abk"] = NoTransaction /\ dut.tree["abk"] = NoTransaction
      BY <1>4, <1>5, <1>6, <2>1, <2>3 DEF InFlight
    <3>2. dut.acc_out["abk"] = Chain(dut, "abk")
      BY <1>4, <1>6, <3>1, UnitsAre DEF RInv, Results, Chain, Applied
    <3>3. QueuedWord = Flat("abk", Chain(dut, "abk"))
      BY <1>3, <1>6 DEF QueuedWord
    <3>4. QueuedWord' = last_mac16_result'
      BY <2>3 DEF QueuedWord
    <3> QED
      BY <1>2, <1>4, <1>6, <2>1, <3>2, <3>3, <3>4
  <2> QED
    BY <2>2, <2>3
<1>7. CASE ~(DoneRises /\ pending_mac16_count > 0)
  BY <1>2, <1>3, <1>4, <1>7 DEF capture_mac16_done_if_ready, QueuedWord
<1> QED
  BY <1>6, <1>7

LEMMA FlushTickSim ==
  ASSUME IInv, IInv', RInv, FlushTick PROVE Contract!Drain \/ UNCHANGED Contract!vars
<1>1. pc = "flush" /\ pc' = pc /\ dut' = Clock(dut, pins) /\ capture_mac16_done_if_ready
  BY DEF FlushTick, clock_tick
<1>2. ChainFn' = ChainFn /\ LastWord' = LastWord /\ QueuedWord' = QueuedWord
  BY <1>1, QueuedTick
<1>3. PhaseOf = "called" /\ PhaseOf' = "called" /\ call.op # "enqueue"
  BY <1>1 DEF PhaseOf, IInv, CallOK
<1>4. pending_mac16_count > 0 /\ UNCHANGED <<call, ncalls, ret>>
  BY DEF FlushTick, FlushGoesOn
<1>5. CASE pending_mac16_count' > 0
  BY <1>2, <1>3, <1>4, <1>5 DEF Contract!vars, ChainFn
<1>6. CASE ~(pending_mac16_count' > 0)
  BY <1>2, <1>3, <1>4, <1>6 DEF Contract!Drain, ChainFn
<1> QED
  BY <1>5, <1>6

LEMMA SpaceTickSim == ASSUME IInv, IInv', RInv, SpaceTick PROVE UNCHANGED Contract!vars
<1>1. pc = "space" /\ pc' = pc /\ dut' = Clock(dut, pins) /\ capture_mac16_done_if_ready
  BY DEF SpaceTick, clock_tick
<1>2. /\ ChainFn' = ChainFn /\ LastWord' = LastWord /\ QueuedWord' = QueuedWord
      /\ pending_mac16_count' > 0 => pending_mac16_count > 0
      /\ DoneRises => dut.acc_done["abk"]
  BY <1>1, QueuedTick
<1>3. PhaseOf' = PhaseOf /\ UNCHANGED <<call, ncalls, ret>>
  BY <1>1 DEF PhaseOf, SpaceTick
<1>4. ASSUME pending_mac16_count > 0 PROVE pending_mac16_count' > 0
  <2>1. CASE ~DoneRises
    BY <1>1, <1>4, <2>1 DEF capture_mac16_done_if_ready
  <2>2. CASE DoneRises
    <3>1. dut.acc_done["abk"] /\ dut.s1["abk"] # NoTransaction
      BY <1>1, <1>2, <2>2 DEF IInv, SpacingOK
    <3>2. pending_mac16_count = InFlight("abk") /\ InFlight("abk") \in Nat
      BY <1>1, Bounds DEF IInv, DeferredOK, TypeOK
    <3>3. pending_mac16_count > 1
      BY <3>1, <3>2 DEF InFlight
    <3>4. pending_mac16_count' = pending_mac16_count - 1
      BY <1>1, <1>4, <2>2 DEF capture_mac16_done_if_ready
    <3> QED
      BY <3>2, <3>3, <3>4
  <2> QED
    BY <2>1, <2>2
<1>5. (pending_mac16_count' > 0) <=> (pending_mac16_count > 0)
  BY <1>2, <1>4
<1> QED
  BY <1>2, <1>3, <1>5 DEF Contract!vars, ChainFn

(* The start tick completes no deferred MAC16: the one before it is still  *)
(* a stage away.                                                           *)
LEMMA EnqueueStartSim == ASSUME IInv, IInv', RInv, EnqueueStart PROVE Contract!Issue
<1> DEFINE p == [DrivenPins(call) EXCEPT !.i_start = TRUE]
           sum == Joined(ChainFn["abk"], call.id, call.acc_en)
<1>1. /\ dut' = Clock(dut, p) /\ pc = "space" /\ pc' = "enqueued" /\ call.op = "enqueue"
      /\ capture_mac16_done_if_ready /\ UNCHANGED <<call, ncalls, ret>>
  BY DEF EnqueueStart, clock_tick, IInv, CallOK
<1>2. \A u \in Units : mac_start(p, u) <=> u = "abk"
  BY <1>1, MacPins DEF IInv
<1>3. p.operand = call.id /\ p.i_acc_en = call.acc_en /\ p.i_bias_en = ~call.acc_en
  BY <1>1, MacPins DEF IInv
<1>4. p.i_bias_en <=> ~p.i_acc_en
  BY <1>3
<1>5. p.operand # NoTransaction
  BY <1>1, <1>3 DEF IInv, TypeOK, CallOK, NoTransaction
<1> HIDE DEF p
<1>6. ChainFn' = [ChainFn EXCEPT !["abk"] = sum] /\ LastWord' = Flat("abk", sum)
  BY <1>1, <1>2, <1>3, <1>4, <1>5, StartTick, UnitsAre
<1>7. QueuedWord' = Flat("abk", sum)
  BY <1>1, <1>6, UnitsAre DEF QueuedWord, ChainFn
<1>8. PhaseOf = "called" /\ PhaseOf' = "run"
  BY <1>1 DEF PhaseOf
<1>9. ~dut.acc_done["abk"]
  BY <1>1 DEF EnqueueStart, MustSpace, kMac16StartSpacingCycles, IInv, SpacingOK
<1>10. pending_mac16_count' = pending_mac16_count
  <2>1. ~dut.ew_done /\ ~dut.acc_done["scalar"] /\ \A u \in Units : ~dut.af_done[u]
    BY <1>1 DEF IInv, DeferredOK
  <2>2. ~DoneRises
    BY <1>1, <1>9, <2>1, DoneSignals, UnitsAre DEF DoneRises
  <2> QED
    BY <1>1, <2>2 DEF capture_mac16_done_if_ready
<1>11. sum = Contract!Chained(ChainFn["abk"], call)
  BY DEF Joined, Contract!Chained
<1>12. Flat("abk", sum) = Contract!Tree!Flat("abk", sum)
  BY DEF Flat, Contract!Tree!Flat, Contract!Tree!LaneValue, LaneValue,
         Contract!Tree!ScalarLane, ScalarLane
<1> HIDE DEF sum
<1> QED
  BY <1>1, <1>6, <1>7, <1>8, <1>10, <1>11, <1>12
     DEF Contract!Issue, Contract!UnitOf, Contract!IsMac, ChainFn

LEMMA ExecuteStartSim == ASSUME IInv, IInv', RInv, ExecuteStart PROVE Contract!Issue
<1> DEFINE p == [DrivenPins(call) EXCEPT !.i_start = TRUE]
<1>1. /\ dut' = Clock(dut, p) /\ pc = "flush" /\ pc' = "wait" /\ call.op \in ExecuteOps
      /\ UNCHANGED host /\ UNCHANGED <<call, ncalls, ret>>
  BY EngineAssumption DEF ExecuteStart, clock_tick, IInv, CallOK, ExecuteOps
<1>2. pending_mac16_count = 0 /\ pending_mac16_count' = 0
  BY <1>1, FlushDrains DEF ExecuteStart, host
<1>3. PhaseOf = "called" /\ PhaseOf' = "run"
  BY <1>1 DEF PhaseOf
<1>4. QueuedWord' = QueuedWord
  BY <1>1, <1>2 DEF QueuedWord, host
<1>5. CASE call.op \in WaitedMacs
  <2> DEFINE u   == Contract!UnitOf(call.op)
             sum == Joined(ChainFn[u], call.id, call.acc_en)
  <2>1. u \in Units /\ (u = "abk" <=> call.op # "mac")
    BY <1>5, UnitsAre DEF Contract!UnitOf, WaitedMacs
  <2>2. \A v \in Units : mac_start(p, v) <=> v = u
    BY <1>1, <1>5, <2>1, MacPins, UnitsAre DEF IInv, WaitedMacs
  <2>3. p.operand = call.id /\ p.i_acc_en = call.acc_en /\ p.i_bias_en = ~call.acc_en
    BY <1>1, <1>5, MacPins DEF IInv, WaitedMacs
  <2>4. p.i_bias_en <=> ~p.i_acc_en
    BY <2>3
  <2>5. p.operand # NoTransaction
    BY <1>1, <2>3 DEF IInv, TypeOK, CallOK, NoTransaction
  <2>6. ~Occupied(dut, "abk")
    BY <1>1, FlushDrains DEF ExecuteStart, Occupied
  <2> HIDE DEF p, u
  <2>7. ChainFn' = [ChainFn EXCEPT ![u] = sum] /\ LastWord' = Flat(u, sum)
    BY <1>1, <2>1, <2>2, <2>3, <2>4, <2>5, <2>6, StartTick
  <2>8. sum = Contract!Chained(ChainFn[u], call)
    BY DEF Joined, Contract!Chained
  <2>9. Flat(u, sum) = Contract!Tree!Flat(u, sum)
    BY DEF Flat, Contract!Tree!Flat, Contract!Tree!LaneValue, LaneValue,
           Contract!Tree!ScalarLane, ScalarLane
  <2> HIDE DEF sum
  <2> QED
    BY <1>1, <1>2, <1>3, <1>4, <1>5, <2>7, <2>8, <2>9
       DEF Contract!Issue, u, Contract!IsMac, ChainFn, WaitedMacs
<1>6. CASE call.op \notin WaitedMacs
  <2>1. \A v \in Units : ~mac_start(p, v)
    BY <1>1, <1>6, AfPins, EwmulPins DEF IInv, WaitedMacs, ExecuteOps
  <2> HIDE DEF p
  <2>2. ChainFn' = ChainFn /\ LastWord' = LastWord
    BY <1>1, <2>1, QuietTick
  <2> QED
    BY <1>1, <1>2, <1>3, <1>4, <1>6, <2>2
       DEF Contract!Issue, Contract!IsMac, ChainFn, WaitedMacs, ExecuteOps
<1> QED
  BY <1>5, <1>6

(* What an execute_* call reads when it sees the edge.                     *)
LEMMA WordIsLast ==
  ASSUME IInv, RInv, WaitTick, DoneRises, call.op \in {"mac", "mac16", "af"}
  PROVE  ResultWord(call, dut') = LastWord
<1>1. dut' = Clock(dut, pins) /\ pc = "wait"
  BY DEF WaitTick, clock_tick
<1>2. Selected \in Units /\ LastWord = LastOf(dut)
  BY LastWordIs DEF Selected, Units
<1>3. CASE call.op \in WaitedMacs
  <2>1. waited = 2
    BY <1>3, WaitEnds
  <2>2. \A u \in Units : /\ dut.s1[u] = NoTransaction /\ dut.tree[u] = NoTransaction
                         /\ dut.acc_done[u] <=> u = Selected
    BY <1>1, <1>3, <2>1 DEF IInv, WaitOK
  <2>3. dut.acc_out[Selected] = Chain(dut, Selected)
    BY <1>2, <2>2 DEF RInv, Results, Chain, Applied
  <2>4. dut'.mac_q = Flat(Selected, dut.acc_out[Selected])
    BY <1>1, <1>2, <2>2, ResultTick, UnitsAre
  <2>5. LastOf(dut) = Flat(Selected, Chain(dut, Selected))
    BY <1>2, <2>2, UnitsAre DEF LastOf, Occupied
  <2> QED
    BY <1>2, <1>3, <2>3, <2>4, <2>5 DEF ResultWord, WaitedMacs
<1>4. CASE call.op = "af"
  <2>1. waited = 4
    BY <1>4, WaitEnds
  <2>2. \A u \in Units : ~Occupied(dut, u) /\ (dut.af_done[u] <=> u = Selected)
    BY <1>1, <1>4, <2>1 DEF IInv, WaitOK, Occupied, WaitedMacs
  <2>3. dut.af_out[Selected] = dut.mac_q
    BY <1>1, <1>4, <2>1 DEF RInv, OperandsOK
  <2>4. dut'.af_q = af_q_next(dut)
    BY <1>1 DEF Clock
  <2>5. dut'.af_q = dut.af_out[Selected]
    BY <1>2, <2>2, <2>4, UnitsAre DEF af_q_next
  <2> QED
    BY <1>2, <1>4, <2>2, <2>3, <2>5, UnitsAre DEF ResultWord, LastOf
<1> QED
  BY <1>3, <1>4 DEF WaitedMacs

LEMMA WaitTickSim ==
  ASSUME "ewmul" \in Ops => "ewmul" \in LossyOps, IInv, IInv', RInv, WaitTick
  PROVE  Contract!Return \/ UNCHANGED Contract!vars
<1>1. /\ dut' = Clock(dut, pins) /\ ~pins.i_start /\ pc = "wait"
      /\ UNCHANGED <<call, ncalls, pending_mac16_count, last_mac16_result>>
  BY DEF WaitTick, clock_tick, IInv, PinsOK, PinType
<1>2. /\ call.op \in ExecuteOps /\ call.op \in Ops /\ waited \in Nat
      /\ pending_mac16_count = 0
  BY <1>1, EngineAssumption, Bounds DEF IInv, CallOK, TypeOK, WaitOK, ExecuteOps
<1>3. \A u \in Units : ~mac_start(pins, u)
  BY <1>1 DEF mac_start
<1>4. ChainFn' = ChainFn /\ LastWord' = LastWord
  BY <1>1, <1>3, QuietTick
<1>5. CASE ~(DoneRises \/ waited + 1 = MaxWait)
  <2>1. pc' = pc /\ ret' = ret
    BY <1>5 DEF WaitTick
  <2>2. QueuedWord' = QueuedWord /\ PhaseOf' = PhaseOf
    BY <1>1, <1>2, <2>1 DEF QueuedWord, PhaseOf
  <2> QED
    BY <1>1, <1>4, <2>1, <2>2 DEF Contract!vars, ChainFn
<1>6. CASE DoneRises \/ waited + 1 = MaxWait
  <2>1. /\ pc' = "idle" /\ ret'.op = call.op /\ ret'.success = DoneRises
        /\ ret'.data = IF DoneRises THEN ResultWord(call, dut') ELSE ZeroFlat
        /\ ret'.product = IF DoneRises /\ call.op = "ewmul" THEN dut'.ew_q ELSE 0
    BY <1>6 DEF WaitTick, Finish
  <2>2. QueuedWord' = QueuedWord /\ PhaseOf = "run" /\ PhaseOf' = "idle"
    BY <1>1, <1>2, <2>1 DEF QueuedWord, PhaseOf
  <2> DEFINE shown == [op |-> ret'.op, success |-> ret'.success, data |-> ret'.data,
                       product |-> ret'.product]
  <2>3. \/ shown = Contract!Result(call)
        \/ call.op \in LossyOps /\ shown = Contract!Failure(call)
    <3>1. CASE DoneRises
      <4>1. ret'.success = TRUE
        BY <2>1, <3>1
      <4>2. CASE call.op \in {"mac", "mac16", "af"}
        <5>1. ret'.data = LastWord /\ ret'.product = 0
          BY <2>1, <3>1, <4>2, WordIsLast
        <5> QED
          BY <2>1, <4>1, <4>2, <5>1 DEF Contract!Result
      <4>3. CASE call.op = "ewmul"
        <5>1. ~ewmul_start(pins)
          BY <1>1 DEF ewmul_start
        <5>2. ret'.data = ZeroFlat /\ ret'.product = call.id
          BY <1>1, <2>1, <3>1, <4>3, <5>1, ProductTick DEF ResultWord, RInv, OperandsOK
        <5> QED
          BY <2>1, <4>1, <4>3, <5>2
             DEF Contract!Result, Contract!Tree!ZeroFlat, ZeroFlat, Contract!Tree!LaneValue,
                 LaneValue, Contract!Tree!ScalarLane, ScalarLane
      <4> QED
        BY <1>2, <4>2, <4>3 DEF ExecuteOps
    <3>2. CASE ~DoneRises
      <4>1. call.op = "ewmul"
        BY <1>2, <1>6, <3>2, WaitEnds, Bounds DEF ExecuteOps, WaitedMacs
      <4>2. ret'.success = FALSE
        BY <2>1, <3>2
      <4> QED
        BY <1>2, <2>1, <3>2, <4>1, <4>2
           DEF Contract!Failure, Contract!Tree!ZeroFlat, ZeroFlat, Contract!Tree!LaneValue,
               LaneValue, Contract!Tree!ScalarLane, ScalarLane
    <3> QED
      BY <3>1, <3>2
  <2> QED
    BY <1>1, <1>2, <1>4, <2>2, <2>3 DEF Contract!Return, ChainFn, ExecuteOps
<1> QED
  BY <1>5, <1>6

(***************************************************************************)
(* Clocked, pipelined and edge-detected, the engine behaves as the         *)
(* interface promises, however many calls are made: each call takes effect *)
(* once and in order, returns its own result, and a drain returns the last *)
(* deferred MAC16.  Only the element-wise product needs to be one of the   *)
(* operations that may fail (VerilatorEngine against IComputeEngine).      *)
(***************************************************************************)
THEOREM EngineRefinesContract ==
  ASSUME "ewmul" \in Ops => "ewmul" \in LossyOps
  PROVE  Spec => ImplementsComputeEngine
<1>1. IInv /\ IInv' /\ RInv /\ [Next]_vars => [Contract!Next]_Contract!vars
  <2> SUFFICES ASSUME IInv, IInv', RInv, [Next]_vars PROVE [Contract!Next]_Contract!vars
    OBVIOUS
  <2>1. ASSUME NEW op \in Ops, NEW acc \in BOOLEAN, Call(op, acc) PROVE Contract!Next
    BY <2>1, CallSim DEF Contract!Next
  <2>2. CASE UNCHANGED vars
    <3>1. /\ dut' = dut /\ UNCHANGED host /\ pc' = pc
          /\ UNCHANGED <<call, ncalls, ret>>
      BY <2>2 DEF vars
    <3>2. ChainFn' = ChainFn /\ LastWord' = LastWord
      BY <3>1, SameRegisters
    <3>3. QueuedWord' = QueuedWord /\ PhaseOf' = PhaseOf
      BY <3>1, <3>2, UnitsAre DEF QueuedWord, ChainFn, ChainOf, host, PhaseOf
    <3> QED
      BY <3>1, <3>2, <3>3 DEF Contract!vars, ChainFn, host
  <2> QED
    BY <2>1, <2>2, FlushTickSim, FlushReturnSim, ExecuteStartSim, WaitTickSim, SpaceTickSim,
       EnqueueStartSim, EnqueueReturnSim, ResetSim DEF Next, Contract!Next
<1> QED
  BY <1>1, InitSim, RegistersInvariant, PTL DEF Spec, ImplementsComputeEngine, Contract!Spec
=============================================================================
