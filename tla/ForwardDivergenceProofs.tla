----------------------- MODULE ForwardDivergenceProofs -----------------------
(***************************************************************************)
(* What a driver compares and writes, for every number of layers, every    *)
(* command line and every sequence of runs: its rows show the effect of    *)
(* their policy and of nothing else, its files are whole when it is done,  *)
(* and it ends with an error only after a simulation failed.               *)
(***************************************************************************)
EXTENDS ForwardDivergence, SequenceTheorems, FiniteSetTheorems, TLAPS

(* The layers that the running forward replaces.                           *)
Active == IF pc = "gpu" THEN {} ELSE active_layers_for(Combo[1], Combo[2])

(* After n layers of the current prompt, with those in layers replaced.    *)
Passed(n, layers) ==
  [prompt |-> Prompt, layer |-> n, replaced |-> layers \intersect (0 .. n - 1)]

(* The store holds what the first n layers gave, with layers replaced.     *)
Stored(store, n, layers) ==
  \A l \in 0 .. n - 1 : captured[store][l] = Tensor(Prompt, l + 1, layers, FALSE)
                        /\ l \in DOMAIN captured[store]

PlaceOK ==
  /\ cmd \in Commands
  /\ combo_pos \in Nat \ {0}
  /\ Running => combo_pos \in 1 .. Len(Combos(cmd))
  /\ DOMAIN captured = {"baseline", "pim"}

(* The forward that runs has replaced what it should so far, in the store  *)
(* that its hooks write to.                                                *)
ForwardOK ==
  pc \in {"gpu", "pim"} =>
    /\ forward.layer \in 0 .. NumLayers
    /\ forward = Passed(forward.layer, Active)
    /\ active_layers = Active
    /\ Captures(cmd) =>
         /\ hooks = {IF pc = "gpu" THEN "baseline" ELSE "pim"}
         /\ Stored(IF pc = "gpu" THEN "baseline" ELSE "pim", forward.layer, Active)

(* From the GPU forward to the last comparison with it, its outputs stay.  *)
BaselineOK ==
  pc \in {"replace", "pim", "compare", "rewrite"} =>
    /\ baseline = Passed(NumLayers, {})
    /\ Captures(cmd) => Stored("baseline", NumLayers, {})

PimOK ==
  pc = "compare" =>
    /\ pim_out = Passed(NumLayers, Active)
    /\ Captures(cmd) => Stored("pim", NumLayers, Active)

DInv == PlaceOK /\ ForwardOK /\ BaselineOK /\ PimOK /\ DeltasIsolatePolicy

---------------------------------------------------------------------------
(* Lemmas about the operators.                                             *)

LEMMA Remainder ==
  ASSUME NEW k \in Nat, NEW n \in Nat \ {0}
  PROVE  k % n \in 0 .. n - 1
  BY SMT

(* Every target layer is a layer.                                          *)
LEMMA LayersInModel ==
  ASSUME DriverAssumption, ProbesAssumption, NEW c \in Commands
  PROVE  parse_layer_spec(c) \in Seq(LayerIds) /\ parse_layer_spec(c) # <<>>
PROOF
  <1>1. c \in CommandType /\ NumLayers \in Nat \ {0}
    BY DEF DriverAssumption
  <1>2. CASE c.spec = "all"
    <2>1. parse_layer_spec(c) = [i \in 1 .. NumLayers |-> i - 1]
      BY <1>2 DEF parse_layer_spec
    <2>2. \A i \in 1 .. NumLayers : i - 1 \in LayerIds
      BY <1>1 DEF LayerIds
    <2>3. parse_layer_spec(c) \in [1 .. NumLayers -> LayerIds]
      BY <2>1, <2>2
    <2> QED BY <2>3, <1>1, SMT
  <1>3. CASE c.spec = "auto"
    BY <1>3 DEF parse_layer_spec, ProbesAssumption
  <1>4. CASE c.spec = "list"
    BY <1>1, <1>4 DEF parse_layer_spec, CommandType, DriverAssumption
  <1> QED BY <1>1, <1>2, <1>3, <1>4 DEF CommandType

(* The loops have a first round, and each of them a target layer.          *)
LEMMA CombosInModel ==
  ASSUME DriverAssumption, ProbesAssumption, NEW c \in Commands
  PROVE  /\ Len(Combos(c)) \in Nat \ {0} /\ DOMAIN Combos(c) = 1 .. Len(Combos(c))
         /\ \A k \in 1 .. Len(Combos(c)) : Combos(c)[k][2] \in LayerIds
PROOF
  <1> DEFINE layers == parse_layer_spec(c)
             p == Len(c.policies)
             n == Len(layers)
  <1>1. NumLayers \in Nat \ {0} /\ c \in CommandType /\ c.policies # <<>>
    BY DEF DriverAssumption
  <1>2. CASE Captures(c)
    <2>1. Combos(c) = << <<"full", NumLayers - 1>> >>
      BY <1>2 DEF Combos
    <2> QED BY <2>1, <1>1 DEF LayerIds
  <1>3. CASE ~Captures(c)
    <2>1. p \in Nat \ {0}
      BY <1>1 DEF CommandType
    <2>2. layers \in Seq(LayerIds) /\ n \in Nat \ {0}
      BY LayersInModel
    <2>3. Combos(c) = [k \in 1 .. p * n |-> <<c.policies[1 + ((k - 1) \div n)],
                                              layers[1 + ((k - 1) % n)]>>]
      BY <1>3 DEF Combos
    <2> HIDE DEF p, n, layers
    <2>4. p * n \in Nat \ {0}
      BY <2>1, <2>2, SMT
    <2>5. Len(Combos(c)) = p * n /\ DOMAIN Combos(c) = 1 .. p * n
      <3> DEFINE len == p * n
      <3> HIDE DEF len
      <3> QED BY <2>3, <2>4 DEF len
    <2>6. ASSUME NEW k \in 1 .. Len(Combos(c))
          PROVE  Combos(c)[k][2] \in LayerIds
      <3>1. k - 1 \in Nat /\ k \in 1 .. p * n
        BY <2>4, <2>5
      <3>2. (k - 1) % n \in 0 .. n - 1
        BY <3>1, <2>2, Remainder
      <3>3. 1 + ((k - 1) % n) \in 1 .. n
        BY <3>2, <2>2
      <3>4. layers[1 + ((k - 1) % n)] \in LayerIds
        BY <3>3, <2>2 DEF n
      <3> QED BY <2>3, <3>1, <3>4
    <2> QED BY <2>4, <2>5, <2>6
  <1> QED BY <1>2, <1>3

(* The part of a set of layers that a tensor records is settled by the     *)
(* first n layers.                                                         *)
LEMMA PassedOnce ==
  ASSUME NEW A, NEW n \in Nat, NEW m \in Nat, n <= m
  PROVE  (A \intersect (0 .. m - 1)) \intersect (0 .. n - 1) = A \intersect (0 .. n - 1)
  BY SMT

---------------------------------------------------------------------------
(* Rows.                                                                   *)

Isolated(row) ==
  LET n == row.gpu.layers
  IN  /\ row.gpu = Tensor(row.prompt, n, {}, row.gpu.normed)
      /\ row.pim = Tensor(row.prompt, n, active_layers_for(row.policy, row.target), row.gpu.normed)

LEMMA DeltasAreIsolated == DeltasIsolatePolicy <=> \A row \in rows : Isolated(row)
  BY DEF DeltasIsolatePolicy, Isolated

(* A row of the outputs of the two forwards.                               *)
LEMMA HiddenIsolated ==
  ASSUME NumLayers \in Nat \ {0}, BaselineOK, PimOK, pc = "compare",
         NEW t, t = Combo[2], NEW name, NEW n \in 0 .. NumLayers
  PROVE  Isolated(Row(Combo[1], t, name, <<>>, hidden_states(baseline, n), hidden_states(pim_out, n)))
PROOF
  <1> DEFINE A == active_layers_for(Combo[1], t)
             normed == n = NumLayers
             row == Row(Combo[1], t, name, <<>>, hidden_states(baseline, n), hidden_states(pim_out, n))
  <1>1. baseline = Passed(NumLayers, {}) /\ pim_out = Passed(NumLayers, A)
    BY DEF BaselineOK, PimOK, Active
  <1>2. hidden_states(baseline, n) = Tensor(Prompt, n, {}, normed)
    BY <1>1 DEF hidden_states, Passed, Tensor
  <1>3. (A \intersect (0 .. NumLayers - 1)) \intersect (0 .. n - 1) = A \intersect (0 .. n - 1)
    BY PassedOnce
  <1>4. hidden_states(pim_out, n) = Tensor(Prompt, n, A, normed)
    BY <1>1, <1>3 DEF hidden_states, Passed, Tensor
  <1>5. /\ row.prompt = Prompt /\ row.policy = Combo[1] /\ row.target = t
        /\ row.gpu = Tensor(Prompt, n, {}, normed) /\ row.pim = Tensor(Prompt, n, A, normed)
    BY <1>2, <1>4 DEF Row
  <1>6. row.gpu.layers = n /\ row.gpu.normed = normed
    BY <1>5 DEF Tensor
  <1>7. Isolated(row)
    <2> HIDE DEF row, normed
    <2> QED BY <1>5, <1>6 DEF Isolated
  <1> QED BY <1>7

(* A row of what the hooks captured of one layer.                          *)
LEMMA CapturedIsolated ==
  ASSUME NumLayers \in Nat \ {0}, BaselineOK, PimOK, pc = "compare", Captures(cmd),
         NEW t, t = Combo[2], NEW part, NEW l \in LayerIds
  PROVE  Isolated(Row(Combo[1], t, "captured", part, captured["baseline"][l], captured["pim"][l]))
PROOF
  <1> DEFINE A == active_layers_for(Combo[1], t)
             row == Row(Combo[1], t, "captured", part, captured["baseline"][l], captured["pim"][l])
  <1>1. /\ captured["baseline"][l] = Tensor(Prompt, l + 1, {}, FALSE)
        /\ captured["pim"][l] = Tensor(Prompt, l + 1, A, FALSE)
    BY DEF BaselineOK, PimOK, Active, Stored, LayerIds
  <1>2. /\ row.prompt = Prompt /\ row.policy = Combo[1] /\ row.target = t
        /\ row.gpu = Tensor(Prompt, l + 1, {}, FALSE) /\ row.pim = Tensor(Prompt, l + 1, A, FALSE)
    BY <1>1 DEF Row
  <1>3. row.gpu.layers = l + 1 /\ row.gpu.normed = FALSE
    BY <1>2 DEF Tensor
  <1>4. Isolated(row)
    <2> HIDE DEF row
    <2> QED BY <1>2, <1>3 DEF Isolated
  <1> QED BY <1>4

(* So every row of a comparison is isolated.                               *)
LEMMA NewRowsIsolated ==
  ASSUME DriverAssumption, ProbesAssumption, PlaceOK, BaselineOK, PimOK, pc = "compare"
  PROVE  \A row \in NewRows : Isolated(row)
PROOF
  <1> DEFINE t == Combo[2]
  <1>1. NumLayers \in Nat \ {0} /\ cmd.kind \in Kinds
    BY DEF DriverAssumption, PlaceOK, CommandType
  <1>2. t \in LayerIds
    BY CombosInModel DEF PlaceOK, Running, Combo
  <1>3. t \in 0 .. NumLayers /\ t + 1 \in 0 .. NumLayers /\ NumLayers \in 0 .. NumLayers
    BY <1>1, <1>2 DEF LayerIds
  <1> HIDE DEF t
  <1>4. CASE cmd.kind = "propagation"
    <2>1. NewRows = {Row(Combo[1], Combo[2], "target_layer_input", <<>>,
                         hidden_states(baseline, Combo[2]), hidden_states(pim_out, Combo[2])),
                     Row(Combo[1], Combo[2], "target_layer_output", <<>>,
                         hidden_states(baseline, Combo[2] + 1), hidden_states(pim_out, Combo[2] + 1)),
                     Row(Combo[1], Combo[2], "final_hidden", <<>>,
                         hidden_states(baseline, NumLayers), hidden_states(pim_out, NumLayers))}
      BY <1>4 DEF NewRows
    <2> QED BY <2>1, <1>1, <1>3, HiddenIsolated DEF t
  <1>5. CASE cmd.kind = "prefix"
    <2>1. NewRows = {Row(Combo[1], Combo[2], "final_hidden", <<>>,
                         hidden_states(baseline, NumLayers), hidden_states(pim_out, NumLayers))}
      BY <1>5 DEF NewRows
    <2> QED BY <2>1, <1>1, <1>3, HiddenIsolated
  <1>6. CASE cmd.kind = "decoder"
    <2>1. NewRows = {Row(Combo[1], Combo[2], "captured", <<l, "layer">>,
                         captured["baseline"][l], captured["pim"][l]) : l \in LayerIds}
      BY <1>6 DEF NewRows
    <2>2. Captures(cmd)
      BY <1>6 DEF Captures
    <2> QED BY <2>1, <2>2, <1>1, CapturedIsolated
  <1>7. CASE cmd.kind = "projection"
    <2>1. NewRows = {Row(Combo[1], Combo[2], "captured", <<l, p>>,
                         captured["baseline"][l], captured["pim"][l]) :
                     l \in LayerIds, p \in Projections}
      BY <1>7 DEF NewRows
    <2>2. Captures(cmd)
      BY <1>7 DEF Captures
    <2>3. \A l \in LayerIds, p \in Projections :
            Isolated(Row(Combo[1], Combo[2], "captured", <<l, p>>,
                         captured["baseline"][l], captured["pim"][l]))
      BY <2>2, <1>1, CapturedIsolated
    <2>4. ASSUME NEW row \in NewRows PROVE Isolated(row)
      <3>1. PICK l \in LayerIds, p \in Projections :
              row = Row(Combo[1], Combo[2], "captured", <<l, p>>,
                        captured["baseline"][l], captured["pim"][l])
        BY <2>1
      <3> QED BY <3>1, <2>3
    <2> QED BY <2>4
  <1> QED BY <1>1, <1>4, <1>5, <1>6, <1>7 DEF Kinds

---------------------------------------------------------------------------
(* The steps.                                                              *)

(* A step that changes neither forward, nor stores, nor the place in the   *)
(* loops keeps what the next comparison rests on.                          *)
LEMMA StillOK ==
  ASSUME PlaceOK, BaselineOK, PimOK, UNCHANGED <<cmd, place, baseline, pim_out, captured>>,
         pc' \notin {"gpu", "pim"}, Running' => Running,
         pc' \in {"replace", "pim", "compare", "rewrite"} =>
           pc \in {"replace", "pim", "compare", "rewrite"},
         pc' # "compare"
  PROVE  PlaceOK' /\ ForwardOK' /\ BaselineOK' /\ PimOK'
PROOF
  <1>1. PlaceOK'
    BY DEF PlaceOK, Running, place
  <1>2. ForwardOK' /\ PimOK'
    BY DEF ForwardOK, PimOK
  <1>3. BaselineOK'
    BY DEF BaselineOK, Passed, Stored, Prompt, place
  <1> QED BY <1>1, <1>2, <1>3

LEMMA LaunchKeeps ==
  ASSUME DriverAssumption, ProbesAssumption, DInv, Launch
  PROVE  DInv'
PROOF
  <1>1. /\ cmd' \in Commands /\ pc' = "baseline" /\ combo_pos' = 1 /\ rows' = {}
        /\ captured' = NoCaptures
    BY DEF Launch
  <1>2. PlaceOK'
    <2>1. Len(Combos(cmd')) \in Nat \ {0}
      BY <1>1, CombosInModel
    <2> QED BY <1>1, <2>1 DEF PlaceOK, NoCaptures
  <1>3. ForwardOK' /\ BaselineOK' /\ PimOK'
    BY <1>1 DEF ForwardOK, BaselineOK, PimOK
  <1>4. DeltasIsolatePolicy'
    BY <1>1 DEF DeltasIsolatePolicy
  <1> QED BY <1>2, <1>3, <1>4 DEF DInv

LEMMA StartBaselineKeeps ==
  ASSUME DriverAssumption, DInv, StartBaseline
  PROVE  DInv'
PROOF
  <1>1. /\ pc = "baseline" /\ pc' = "gpu" /\ UNCHANGED <<cmd, place, captured, rows>>
        /\ active_layers' = {} /\ hooks' = IF Captures(cmd) THEN {"baseline"} ELSE {}
        /\ forward' = [prompt |-> Prompt, layer |-> 0, replaced |-> {}]
    BY DEF StartBaseline, StartForward
  <1>2. PlaceOK'
    BY <1>1 DEF DInv, PlaceOK, Running, place
  <1>3. ForwardOK'
    <2>1. NumLayers \in Nat
      BY DEF DriverAssumption
    <2>2. forward'.layer = 0 /\ Prompt' = Prompt /\ Active' = {}
      BY <1>1 DEF Prompt, Active, place
    <2>3. forward' = Passed(forward.layer, Active)'
      BY <1>1, <2>2 DEF Passed
    <2>4. Stored("baseline", forward.layer, Active)'
      BY <2>2 DEF Stored
    <2> QED BY <1>1, <2>1, <2>2, <2>3, <2>4 DEF ForwardOK
  <1>4. BaselineOK' /\ PimOK'
    BY <1>1 DEF BaselineOK, PimOK
  <1>5. DeltasIsolatePolicy'
    BY <1>1 DEF DInv, DeltasIsolatePolicy
  <1> QED BY <1>2, <1>3, <1>4, <1>5 DEF DInv

LEMMA StartPimKeeps ==
  ASSUME DriverAssumption, DInv, StartPim
  PROVE  DInv'
PROOF
  <1>1. /\ pc = "replace" /\ pc' = "pim" /\ UNCHANGED <<cmd, place, baseline, captured, rows>>
        /\ active_layers' = active_layers_for(Combo[1], Combo[2])
        /\ hooks' = IF Captures(cmd) THEN {"pim"} ELSE {}
        /\ forward' = [prompt |-> Prompt, layer |-> 0, replaced |-> {}]
    BY DEF StartPim, StartForward
  <1>2. PlaceOK'
    BY <1>1 DEF DInv, PlaceOK, Running, place
  <1>3. ForwardOK'
    <2>1. NumLayers \in Nat
      BY DEF DriverAssumption
    <2>2. forward'.layer = 0 /\ Prompt' = Prompt /\ Active' = active_layers'
      BY <1>1 DEF Prompt, Active, Combo, place
    <2>3. forward' = Passed(forward.layer, Active)'
      BY <1>1, <2>2 DEF Passed
    <2>4. Stored("pim", forward.layer, Active)'
      BY <2>2 DEF Stored
    <2> QED BY <1>1, <2>1, <2>2, <2>3, <2>4 DEF ForwardOK
  <1>4. BaselineOK' /\ PimOK'
    BY <1>1 DEF DInv, BaselineOK, PimOK, Passed, Stored, Prompt, place
  <1>5. DeltasIsolatePolicy'
    BY <1>1 DEF DInv, DeltasIsolatePolicy
  <1> QED BY <1>2, <1>3, <1>4, <1>5 DEF DInv

(* One layer adds itself to what was replaced, if it is active, and its    *)
(* output to the store of the running forward; the other store rests.      *)
LEMMA DecoderLayerKeeps ==
  ASSUME DriverAssumption, DInv, DecoderLayer
  PROVE  DInv'
PROOF
  <1> DEFINE l == forward.layer
             store == IF pc = "gpu" THEN "baseline" ELSE "pim"
             replaced == forward.replaced \union ({l} \intersect active_layers)
  <1>1. /\ pc \in {"gpu", "pim"} /\ l < NumLayers
        /\ forward' = [forward EXCEPT !.layer = l + 1, !.replaced = replaced]
        /\ captured' = [s \in DOMAIN captured |->
             IF s \in hooks THEN Capture(captured[s], l, Tensor(forward.prompt, l + 1, replaced, FALSE))
             ELSE captured[s]]
        /\ UNCHANGED <<cmd, pc, place, active_layers, hooks, baseline, pim_out, rows>>
    BY DEF DecoderLayer
  <1>2. /\ l \in 0 .. NumLayers /\ NumLayers \in Nat
        /\ forward = Passed(l, Active) /\ active_layers = Active
        /\ DOMAIN captured = {"baseline", "pim"}
    BY <1>1 DEF DInv, ForwardOK, PlaceOK, DriverAssumption
  <1>3. Active' = Active /\ Prompt' = Prompt /\ Captures(cmd)' = Captures(cmd)
    BY <1>1 DEF Active, Prompt, Combo, place
  <1>4. replaced = Active \intersect (0 .. l)
    <2>1. forward.replaced = Active \intersect (0 .. l - 1)
      BY <1>2 DEF Passed
    <2> HIDE DEF l
    <2>2. \A x : x \in 0 .. l <=> x \in 0 .. l - 1 \/ x = l
      BY <1>2
    <2> QED BY <2>1, <2>2, <1>2
  <1>5. forward' = Passed(l + 1, Active)
    <2>1. 0 .. (l + 1) - 1 = 0 .. l
      BY <1>2
    <2>2. forward' = [prompt |-> Prompt, layer |-> l + 1, replaced |-> replaced]
      <3> HIDE DEF replaced, l
      <3> QED BY <1>1, <1>2 DEF Passed
    <2> HIDE DEF l, replaced
    <2> QED BY <2>1, <2>2, <1>4 DEF Passed
  <1>6. PlaceOK'
    BY <1>1 DEF DInv, PlaceOK, Running, place
  <1>7. ASSUME Captures(cmd) PROVE Stored(store, forward.layer, Active)'
    <2>1. hooks = {store} /\ Stored(store, l, Active)
      BY <1>7, <1>1 DEF DInv, ForwardOK
    <2>2. captured'[store] = Capture(captured[store], l, Tensor(Prompt, l + 1, replaced, FALSE))
      <3>1. forward.prompt = Prompt
        BY <1>2 DEF Passed
      <3> HIDE DEF replaced, l
      <3> QED BY <1>1, <1>2, <2>1, <3>1
    <2>3. Tensor(Prompt, l + 1, replaced, FALSE) = Tensor(Prompt, l + 1, Active, FALSE)
      <3>1. 0 .. (l + 1) - 1 = 0 .. l
        BY <1>2
      <3> QED BY <1>4, <3>1 DEF Tensor
    <2>4. ASSUME NEW i \in 0 .. l
          PROVE  captured'[store][i] = Tensor(Prompt, i + 1, Active, FALSE) /\ i \in DOMAIN captured'[store]
      <3> HIDE DEF store, replaced
      <3>1. CASE i = l
        BY <3>1, <2>2, <2>3 DEF Capture
      <3>2. CASE i # l
        <4>1. i \in 0 .. l - 1
          BY <3>2, <1>2
        <4>2. captured[store][i] = Tensor(Prompt, i + 1, Active, FALSE) /\ i \in DOMAIN captured[store]
          BY <4>1, <2>1 DEF Stored
        <4> HIDE DEF l
        <4> QED BY <4>2, <3>2, <2>2 DEF Capture
      <3> QED BY <3>1, <3>2
    <2>5. 0 .. (l + 1) - 1 = 0 .. l
      BY <1>2
    <2>6. store' = store /\ forward'.layer = l + 1
      BY <1>1, <1>5 DEF Passed
    <2>7. \A i \in 0 .. forward'.layer - 1 :
            captured'[store'][i] = Tensor(Prompt', i + 1, Active', FALSE) /\ i \in DOMAIN captured'[store']
      <3> HIDE DEF l, store, replaced
      <3> QED BY <2>4, <2>5, <2>6, <1>3
    <2> QED BY <2>7 DEF Stored
  <1>8. ForwardOK'
    <2>1. forward'.layer = l + 1 /\ l + 1 \in 0 .. NumLayers
      BY <1>5, <1>1, <1>2 DEF Passed
    <2>2. forward' = Passed(forward.layer, Active)'
      BY <1>5, <1>3, <2>1 DEF Passed
    <2>3. Captures(cmd') => hooks' = {IF pc' = "gpu" THEN "baseline" ELSE "pim"}
      BY <1>1 DEF DInv, ForwardOK
    <2>4. active_layers' = Active'
      BY <1>1, <1>2, <1>3
    <2>5. Captures(cmd') => Stored(IF pc = "gpu" THEN "baseline" ELSE "pim", forward.layer, Active)'
      BY <1>3, <1>7
    <2> HIDE DEF l, replaced
    <2> QED BY <2>1, <2>2, <2>3, <2>4, <2>5 DEF ForwardOK
  <1>9. BaselineOK'
    <2>1. CASE pc = "gpu"
      BY <2>1, <1>1 DEF BaselineOK
    <2>2. CASE pc = "pim"
      <3>1. baseline' = Passed(NumLayers, {})'
        BY <2>2, <1>1, <1>3 DEF DInv, BaselineOK, Passed
      <3>2. ASSUME Captures(cmd) PROVE Stored("baseline", NumLayers, {})'
        <4>1. hooks = {"pim"} /\ Stored("baseline", NumLayers, {})
          BY <2>2, <3>2 DEF DInv, ForwardOK, BaselineOK
        <4>2. captured'["baseline"] = captured["baseline"]
          BY <4>1, <1>1, <1>2
        <4> QED BY <4>1, <4>2, <1>3 DEF Stored
      <3> QED BY <3>1, <3>2, <1>3, <2>2, <1>1 DEF BaselineOK
    <2> QED BY <1>1, <2>1, <2>2
  <1>10. PimOK'
    BY <1>1 DEF PimOK
  <1>11. DeltasIsolatePolicy'
    BY <1>1 DEF DInv, DeltasIsolatePolicy
  <1> QED BY <1>6, <1>8, <1>9, <1>10, <1>11 DEF DInv

LEMMA ForwardEndKeeps ==
  ASSUME DriverAssumption, DInv, ForwardEnd
  PROVE  DInv'
PROOF
  <1>1. /\ pc \in {"gpu", "pim"} /\ forward.layer = NumLayers
        /\ IF pc = "gpu" THEN baseline' = forward /\ pc' = "replace" /\ UNCHANGED pim_out
                         ELSE pim_out' = forward /\ pc' = "compare" /\ UNCHANGED baseline
        /\ UNCHANGED <<cmd, place, active_layers, captured, rows>>
    BY DEF ForwardEnd
  <1>2. PlaceOK'
    BY <1>1 DEF DInv, PlaceOK, Running, place
  <1>3. Prompt' = Prompt /\ Combo' = Combo
    BY <1>1 DEF Prompt, Combo, place
  <1>4. forward = Passed(NumLayers, Active)
    BY <1>1 DEF DInv, ForwardOK
  <1>5. DeltasIsolatePolicy'
    BY <1>1 DEF DInv, DeltasIsolatePolicy
  <1>6. CASE pc = "gpu"
    <2>1. baseline' = Passed(NumLayers, {})'
      BY <1>6, <1>1, <1>3, <1>4 DEF Passed, Active
    <2>2. Captures(cmd') => Stored("baseline", NumLayers, {})'
      BY <1>6, <1>1, <1>3 DEF DInv, ForwardOK, Stored, Active
    <2> QED BY <2>1, <2>2, <1>6, <1>1, <1>2, <1>5 DEF DInv, ForwardOK, BaselineOK, PimOK
  <1>7. CASE pc = "pim"
    <2>1. Active' = Active
      BY <1>7, <1>1, <1>3 DEF Active
    <2>2. pim_out' = Passed(NumLayers, Active)'
      BY <1>7, <1>1, <1>3, <1>4, <2>1 DEF Passed
    <2>3. Captures(cmd') => Stored("pim", NumLayers, Active)'
      BY <1>7, <1>1, <1>3, <2>1 DEF DInv, ForwardOK, Stored
    <2>4. BaselineOK'
      BY <1>7, <1>1, <1>3 DEF DInv, BaselineOK, Passed, Stored
    <2> QED BY <2>2, <2>3, <2>4, <1>7, <1>1, <1>2, <1>5 DEF DInv, ForwardOK, PimOK
  <1> QED BY <1>1, <1>6, <1>7

(* The next round of the loops compares with the same GPU forward, or has  *)
(* a prompt and a GPU forward of its own.                                  *)
LEMMA GoOnKeeps ==
  ASSUME DriverAssumption, ProbesAssumption, PlaceOK, BaselineOK,
         pc \in {"compare", "rewrite"}, GoOn, UNCHANGED <<cmd, model>>
  PROVE  PlaceOK' /\ ForwardOK' /\ BaselineOK' /\ PimOK'
PROOF
  <1>1. combo_pos \in 1 .. Len(Combos(cmd)) /\ Len(Combos(cmd)) \in Nat \ {0} /\ cmd' = cmd
    BY CombosInModel DEF PlaceOK, Running
  <1>2. pc' = Following[1] /\ prompt_pos' = Following[2] /\ combo_pos' = Following[3]
    BY DEF GoOn
  <1>3. DOMAIN captured' = {"baseline", "pim"}
    BY DEF PlaceOK, model
  <1>4. CASE Following = <<"replace", prompt_pos, combo_pos + 1>> /\ combo_pos < Len(Combos(cmd))
    <2>1. pc' = "replace" /\ prompt_pos' = prompt_pos /\ combo_pos' = combo_pos + 1
      BY <1>2, <1>4
    <2>2. PlaceOK'
      BY <2>1, <1>1, <1>3, <1>4 DEF PlaceOK
    <2>3. BaselineOK'
      BY <2>1 DEF BaselineOK, Passed, Stored, Prompt, model
    <2> QED BY <2>1, <2>2, <2>3 DEF ForwardOK, PimOK
  <1>5. CASE Following = <<"baseline", prompt_pos + 1, 1>>
    <2>1. pc' = "baseline" /\ combo_pos' = 1
      BY <1>2, <1>5
    <2> QED BY <2>1, <1>1, <1>3 DEF PlaceOK, ForwardOK, BaselineOK, PimOK
  <1>6. CASE Following = <<"write", prompt_pos, combo_pos>>
    <2>1. pc' = "write" /\ combo_pos' = combo_pos
      BY <1>2, <1>6
    <2> QED BY <2>1, <1>1, <1>3 DEF PlaceOK, ForwardOK, BaselineOK, PimOK
  <1>7. \/ Following = <<"replace", prompt_pos, combo_pos + 1>> /\ combo_pos < Len(Combos(cmd))
        \/ Following = <<"baseline", prompt_pos + 1, 1>>
        \/ Following = <<"write", prompt_pos, combo_pos>>
    BY DEF Following
  <1> QED BY <1>4, <1>5, <1>6, <1>7

LEMMA CompareKeeps ==
  ASSUME DriverAssumption, ProbesAssumption, DInv, Compare
  PROVE  DInv'
PROOF
  <1>1. pc = "compare" /\ UNCHANGED <<cmd, model>> /\ PlaceOK /\ BaselineOK /\ PimOK
    BY DEF Compare, DInv
  <1>2. rows' = rows \/ rows' = rows \union NewRows
    BY DEF Compare, Collected
  <1>3. DeltasIsolatePolicy'
    <2>1. \A row \in rows : Isolated(row)
      BY DeltasAreIsolated DEF DInv
    <2>2. \A row \in NewRows : Isolated(row)
      BY <1>1, NewRowsIsolated
    <2>3. \A row \in rows' : Isolated(row)
      BY <1>2, <2>1, <2>2
    <2> QED BY <2>3 DEF DeltasIsolatePolicy, Isolated
  <1>4. PlaceOK' /\ ForwardOK' /\ BaselineOK' /\ PimOK'
    <2>1. CASE Missing
      <3>1. pc' = "failed" /\ UNCHANGED place
        BY <2>1 DEF Compare
      <3> QED BY <3>1, <1>1, StillOK DEF Running, model
    <2>2. CASE ~Missing /\ cmd.kind = "prefix"
      <3>1. pc' = "rewrite" /\ UNCHANGED place
        BY <2>2 DEF Compare
      <3> QED BY <3>1, <1>1, StillOK DEF Running, model
    <2>3. CASE ~Missing /\ cmd.kind # "prefix"
      <3>1. GoOn
        BY <2>3 DEF Compare
      <3> QED BY <3>1, <1>1, GoOnKeeps
    <2> QED BY <2>1, <2>2, <2>3
  <1> QED BY <1>3, <1>4 DEF DInv

LEMMA WriteRowsKeeps ==
  ASSUME DriverAssumption, ProbesAssumption, DInv, WriteRows
  PROVE  DInv'
PROOF
  <1>1. pc = "rewrite" /\ GoOn /\ UNCHANGED <<cmd, model, rows>> /\ PlaceOK /\ BaselineOK
    BY DEF WriteRows, DInv
  <1>2. PlaceOK' /\ ForwardOK' /\ BaselineOK' /\ PimOK'
    BY <1>1, GoOnKeeps
  <1>3. DeltasIsolatePolicy'
    BY <1>1 DEF DInv, DeltasIsolatePolicy
  <1> QED BY <1>2, <1>3 DEF DInv

(* Files, failures and interruptions leave the comparison alone.           *)
LEMMA FilesAside ==
  ASSUME DInv, OpenFile \/ CloseFile \/ SimulationFails \/ Kill
  PROVE  DInv'
PROOF
  <1>1. /\ UNCHANGED <<cmd, place, baseline, pim_out, captured, rows>>
        /\ pc' \in {"failed", "fill", "done", "write", "idle"} /\ (Running' => Running)
    BY DEF OpenFile, CloseFile, SimulationFails, Kill, Running, model
  <1>2. PlaceOK' /\ ForwardOK' /\ BaselineOK' /\ PimOK'
    BY <1>1, StillOK DEF DInv
  <1>3. DeltasIsolatePolicy'
    BY <1>1 DEF DInv, DeltasIsolatePolicy
  <1> QED BY <1>2, <1>3 DEF DInv

---------------------------------------------------------------------------
(* Rows show their policy and nothing else, for every number of layers,    *)
(* command line and campaign: DInv is inductive.                           *)

LEMMA InitIsolated == DriverAssumption /\ Init => DInv
PROOF
  <1> SUFFICES ASSUME Init PROVE DInv
    OBVIOUS
  <1>1. PlaceOK
    BY DEF Init, PlaceOK, Running, NoCaptures
  <1>2. ForwardOK /\ BaselineOK /\ PimOK /\ DeltasIsolatePolicy
    BY DEF Init, ForwardOK, BaselineOK, PimOK, DeltasIsolatePolicy
  <1> QED BY <1>1, <1>2 DEF DInv

LEMMA DriverKeeps ==
  ASSUME DriverAssumption, ProbesAssumption, DInv, [Next]_vars
  PROVE  DInv'
PROOF
  <1>1. CASE Launch
    BY <1>1, LaunchKeeps
  <1>2. CASE StartBaseline
    BY <1>2, StartBaselineKeeps
  <1>3. CASE StartPim
    BY <1>3, StartPimKeeps
  <1>4. CASE DecoderLayer
    BY <1>4, DecoderLayerKeeps
  <1>5. CASE ForwardEnd
    BY <1>5, ForwardEndKeeps
  <1>6. CASE Compare
    BY <1>6, CompareKeeps
  <1>7. CASE WriteRows
    BY <1>7, WriteRowsKeeps
  <1>8. CASE OpenFile \/ CloseFile \/ SimulationFails \/ Kill
    BY <1>8, FilesAside
  <1>9. CASE UNCHANGED vars
    <2>1. UNCHANGED <<cmd, pc, place, active_layers, forward, hooks, baseline, pim_out, captured, rows>>
      BY <1>9 DEF vars, model
    <2> QED BY <2>1 DEF DInv, PlaceOK, Running, ForwardOK, BaselineOK, PimOK,
                         DeltasIsolatePolicy, Active, Passed, Stored, Prompt, Combo, place
  <1> QED BY <1>1, <1>2, <1>3, <1>4, <1>5, <1>6, <1>7, <1>8, <1>9 DEF Next, Step

(* A row that a driver writes of two forwards, whatever ran before it in   *)
(* the same process and however its earlier runs ended, compares the same  *)
(* tensor of the same prompt, once with nothing replaced and once with     *)
(* exactly the layers of its policy (the loops of main, set_context,       *)
(* should_replace and the capture hooks).                                  *)
THEOREM PolicyIsolation ==
  ASSUME DriverAssumption, ProbesAssumption
  PROVE  Spec => []DeltasIsolatePolicy
PROOF
  <1>1. Init => DInv
    BY InitIsolated
  <1>2. DInv /\ [Next]_vars => DInv'
    BY DriverKeeps
  <1>3. DInv => DeltasIsolatePolicy
    BY DEF DInv
  <1> QED BY <1>1, <1>2, <1>3, PTL DEF Spec

---------------------------------------------------------------------------
(* Failures.  A comparison finds every output: DInv says that the layers   *)
(* were captured, and no other store is ever written to.                   *)

CInv ==
  /\ \A s \in {"baseline", "pim"} : DOMAIN captured[s] \subseteq LayerIds
  /\ faults \in Nat
  /\ pc = "write" => todo # <<>>
  /\ FailsOnlyOnFaults

LEMMA NothingMissing ==
  ASSUME DriverAssumption, DInv, CInv, pc = "compare"
  PROVE  ~Missing
PROOF
  <1> SUFFICES ASSUME Captures(cmd), NEW s \in {"baseline", "pim"}
               PROVE  DOMAIN captured[s] = LayerIds
    BY DEF Missing
  <1>1. \A l \in 0 .. NumLayers - 1 : l \in DOMAIN captured[s]
    BY DEF DInv, BaselineOK, PimOK, Stored
  <1> QED BY <1>1 DEF CInv, LayerIds

(* Every kind of driver has files left when its loops are over.            *)
LEMMA SomethingToWrite ==
  ASSUME DriverAssumption, DInv, Running
  PROVE  files(cmd.kind) # <<>>
PROOF
  <1>1. cmd \in CommandType
    BY DEF DInv, PlaceOK, DriverAssumption
  <1>2. cmd.kind \in Kinds
    BY <1>1, Zenon DEF CommandType
  <1> QED BY <1>2 DEF files, Kinds

LEMMA DriverFails ==
  ASSUME DriverAssumption, DInv, CInv, Next
  PROVE  CInv'
PROOF
  <1>1. CASE Launch
    BY <1>1 DEF Launch, NoCaptures, CInv, FailsOnlyOnFaults
  <1>2. CASE StartBaseline \/ StartPim
    BY <1>2 DEF StartBaseline, StartPim, StartForward, CInv, FailsOnlyOnFaults, bounds
  <1>3. CASE DecoderLayer
    <2>1. forward.layer \in LayerIds /\ pc' = pc /\ pc \notin {"write", "failed"} /\ faults' = faults
      BY <1>3 DEF DecoderLayer, bounds, DInv, ForwardOK, LayerIds, DriverAssumption
    <2>2. ASSUME NEW s \in {"baseline", "pim"}
          PROVE  DOMAIN captured'[s] \subseteq DOMAIN captured[s] \union {forward.layer}
      BY <1>3 DEF DecoderLayer, Capture, DInv, PlaceOK
    <2> QED BY <2>1, <2>2 DEF CInv, FailsOnlyOnFaults
  <1>4. CASE SimulationFails
    BY <1>4 DEF SimulationFails, CInv, FailsOnlyOnFaults
  <1>5. CASE ForwardEnd
    BY <1>5 DEF ForwardEnd, CInv, FailsOnlyOnFaults, bounds
  <1>6. CASE Compare
    <2>1. ~Missing
      BY <1>6, NothingMissing DEF Compare
    <2>2. pc' # "failed" /\ (pc' = "write" => todo' # <<>>) /\ UNCHANGED <<captured, faults>>
      BY <1>6, <2>1, SomethingToWrite DEF Compare, GoOn, Following, Running, model, bounds
    <2> QED BY <2>2 DEF CInv, FailsOnlyOnFaults
  <1>7. CASE WriteRows
    BY <1>7, SomethingToWrite
       DEF WriteRows, GoOn, Following, Running, CInv, FailsOnlyOnFaults, model, bounds
  <1>8. CASE OpenFile
    BY <1>8 DEF OpenFile, CannotWrite, NoDirectory, CInv, FailsOnlyOnFaults, model, bounds
  <1>9. CASE CloseFile
    BY <1>9 DEF CloseFile, CInv, FailsOnlyOnFaults, model, bounds
  <1>10. CASE Kill
    BY <1>10 DEF Kill, CInv, FailsOnlyOnFaults
  <1> QED BY <1>1, <1>2, <1>3, <1>4, <1>5, <1>6, <1>7, <1>8, <1>9, <1>10 DEF Next, Step

LEMMA NoFailureYet == Init => CInv
BY DEF Init, CInv, NoCaptures, FailsOnlyOnFaults

(* A driver that has run its forwards finds every output it compares, in   *)
(* every policy, layer list and order of runs, and can write every file    *)
(* but metadata for a directory that nobody made.                          *)
THEOREM DriversStand ==
  ASSUME DriverAssumption, ProbesAssumption
  PROVE  Spec => []FailsOnlyOnFaults
PROOF
  <1>1. Init => DInv /\ CInv
    BY InitIsolated, NoFailureYet
  <1>2. DInv /\ CInv /\ [Next]_vars => DInv' /\ CInv'
    <2>1. ASSUME CInv, UNCHANGED vars PROVE CInv'
      BY <2>1 DEF vars, model, bounds, CInv, FailsOnlyOnFaults, CannotWrite, NoDirectory
    <2> QED BY <2>1, DriverKeeps, DriverFails
  <1>3. DInv /\ CInv => FailsOnlyOnFaults
    BY DEF CInv
  <1> QED BY <1>1, <1>2, <1>3, PTL DEF Spec

---------------------------------------------------------------------------
(* The files.  OutputsAreWhole speaks of what is on disk; the inductive    *)
(* invariant follows the rounds of the loops that the rows in memory stand *)
(* for, and which files of the run are closed.                             *)

(* A round of the loops: a prompt, and a policy with its target layer.     *)
Rounds(c) == (1 .. Len(c.prompts)) \X (1 .. Len(Combos(c)))

RoundsBefore(c, p, k) == {r \in Rounds(c) : r[1] < p \/ (r[1] = p /\ r[2] < k)}

RoundKey(c, r) == <<c.prompts[r[1]], Combos(c)[r[2]][1], Combos(c)[r[2]][2]>>

KeysOf(rs) == {<<row.prompt, row.policy, row.target>> : row \in rs}

Keys(c, rounds) == {RoundKey(c, r) : r \in rounds}

Looping == {"baseline", "gpu", "replace", "pim", "compare"}

Writing == {"write", "fill", "done"}

(* The rounds that have been compared. *)
Compared ==
  RoundsBefore(cmd, prompt_pos, IF pc \in Looping THEN combo_pos ELSE combo_pos + 1)

RowsOK ==
  Running \/ pc = "done" =>
    /\ prompt_pos \in 1 .. Len(cmd.prompts) /\ combo_pos \in 1 .. Len(Combos(cmd))
    /\ KeysOf(rows) = Keys(cmd, Compared)
    /\ pc = "rewrite" => cmd.kind = "prefix"
    /\ pc \in Writing =>
         /\ prompt_pos = Len(cmd.prompts) /\ combo_pos = Len(Combos(cmd))
         /\ cmd.kind = "projection" => Cardinality(rows) = NumLayers * Cardinality(Projections)

(* What may be left to write, and the files it is. *)
Tails ==
  {<<"elementwise", "summary", "metadata">>, <<"summary", "metadata">>,
   <<"summary", "elementwise", "metadata">>, <<"elementwise", "metadata">>,
   <<"metadata">>, <<>>}

LeftOf(w) == {w[i] : i \in 1 .. Len(w)}

Whole == [run |-> launches, whole |-> TRUE, rows |-> rows]

ClosedOK ==
  pc \in Writing =>
    /\ todo \in Tails /\ (todo = <<>> <=> pc = "done")
    /\ \A f \in FileNames :
         f \notin LeftOf(todo) /\ (cmd.kind = "prefix" => f # "elementwise") =>
           outputs[cmd.tag][f] = Whole

Shape(o) == DOMAIN o = Tags /\ \A t \in Tags : DOMAIN o[t] = FileNames

(* No file is of a later run, and metadata are of tables that were whole.  *)
Described(o, n) ==
  /\ \A t \in Tags, f \in FileNames : o[t][f].run \in 0 .. n
  /\ \A t \in Tags :
       o[t]["metadata"].whole =>
         /\ o[t]["summary"].run >= o[t]["metadata"].run
         /\ o[t]["summary"].run = o[t]["metadata"].run =>
              o[t]["summary"].whole /\ o[t]["summary"].rows = o[t]["metadata"].rows

(* The running driver has not finished its metadata.                       *)
Earlier(o, n) == \A t \in Tags : o[t]["metadata"].whole => o[t]["metadata"].run < n

FilesOK ==
  /\ launches \in Nat /\ Shape(outputs) /\ Described(outputs, launches)
  /\ Running => Earlier(outputs, launches)
  /\ Running /\ cmd.kind = "propagation" => outputs[cmd.tag]["elementwise"].rows = rows

OInv == cmd \in Commands /\ RowsOK /\ ClosedOK /\ FilesOK

---------------------------------------------------------------------------
(* The order of the rounds.                                                *)

LEMMA FirstRound ==
  ASSUME NEW c
  PROVE  RoundsBefore(c, 1, 1) = {}
PROOF BY DEF RoundsBefore, Rounds

LEMMA NextCombo ==
  ASSUME NEW c, NEW p \in 1 .. Len(c.prompts), NEW k \in 1 .. Len(Combos(c))
  PROVE  RoundsBefore(c, p, k + 1) = RoundsBefore(c, p, k) \union {<<p, k>>}
PROOF
  <1>1. \A j \in 1 .. Len(Combos(c)) : j < k + 1 <=> j < k \/ j = k
    OBVIOUS
  <1>2. ASSUME NEW r \in Rounds(c)
        PROVE  r \in RoundsBefore(c, p, k + 1) <=> r \in RoundsBefore(c, p, k) \/ r = <<p, k>>
    <2>1. r = <<r[1], r[2]>> /\ r[1] \in 1 .. Len(c.prompts) /\ r[2] \in 1 .. Len(Combos(c))
      BY DEF Rounds
    <2>2. r = <<p, k>> <=> r[1] = p /\ r[2] = k
      BY <2>1
    <2>3. r[1] = p => ~(r[1] < p)
      BY <2>1
    <2> QED BY <1>1, <2>1, <2>2, <2>3 DEF RoundsBefore
  <1>3. <<p, k>> \in Rounds(c)
    BY DEF Rounds
  <1>4. RoundsBefore(c, p, k + 1) \subseteq Rounds(c) /\ RoundsBefore(c, p, k) \subseteq Rounds(c)
    BY DEF RoundsBefore
  <1> QED BY <1>2, <1>3, <1>4

LEMMA NextPrompt ==
  ASSUME NEW c, NEW p \in 1 .. Len(c.prompts), Len(Combos(c)) \in Nat
  PROVE  RoundsBefore(c, p, Len(Combos(c)) + 1) = RoundsBefore(c, p + 1, 1)
PROOF
  <1>1. ASSUME NEW r \in Rounds(c)
        PROVE  r \in RoundsBefore(c, p, Len(Combos(c)) + 1) <=> r \in RoundsBefore(c, p + 1, 1)
    <2>1. r[1] \in 1 .. Len(c.prompts) /\ r[2] \in 1 .. Len(Combos(c))
      BY DEF Rounds
    <2>2. r[2] < Len(Combos(c)) + 1 /\ ~(r[2] < 1)
      BY <2>1
    <2>3. r[1] < p + 1 <=> r[1] < p \/ r[1] = p
      BY <2>1
    <2> QED BY <2>2, <2>3 DEF RoundsBefore
  <1>2. /\ RoundsBefore(c, p, Len(Combos(c)) + 1) \subseteq Rounds(c)
        /\ RoundsBefore(c, p + 1, 1) \subseteq Rounds(c)
    BY DEF RoundsBefore
  <1> QED BY <1>1, <1>2

LEMMA LastRound ==
  ASSUME NEW c, Len(Combos(c)) \in Nat, Len(c.prompts) \in Nat
  PROVE  RoundsBefore(c, Len(c.prompts), Len(Combos(c)) + 1) = Rounds(c)
PROOF
  <1>1. ASSUME NEW r \in Rounds(c)
        PROVE  r[1] < Len(c.prompts) \/ (r[1] = Len(c.prompts) /\ r[2] < Len(Combos(c)) + 1)
    <2>1. r[1] \in 1 .. Len(c.prompts) /\ r[2] \in 1 .. Len(Combos(c))
      BY DEF Rounds
    <2> QED BY <2>1
  <1> QED BY <1>1 DEF RoundsBefore

LEMMA KeysUnion ==
  ASSUME NEW c, NEW A, NEW r
  PROVE  Keys(c, A \union {r}) = Keys(c, A) \union {RoundKey(c, r)}
PROOF BY DEF Keys

LEMMA KeysOfUnion ==
  ASSUME NEW A, NEW B
  PROVE  KeysOf(A \union B) = KeysOf(A) \union KeysOf(B)
PROOF BY DEF KeysOf

(* The rows of a comparison are of its round.                              *)
LEMMA NewRowsKeys ==
  ASSUME DriverAssumption, cmd \in Commands
  PROVE  KeysOf(NewRows) = {RoundKey(cmd, <<prompt_pos, combo_pos>>)}
PROOF
  <1> DEFINE key == <<Prompt, Combo[1], Combo[2]>>
  <1>1. NumLayers \in Nat \ {0} /\ cmd.kind \in Kinds /\ Projections # {}
    BY DEF DriverAssumption, CommandType
  <1>2. RoundKey(cmd, <<prompt_pos, combo_pos>>) = key
    BY DEF RoundKey, Prompt, Combo
  <1>3. \A name, part, gpu, pim :
          LET row == Row(Combo[1], Combo[2], name, part, gpu, pim)
          IN  <<row.prompt, row.policy, row.target>> = key
    BY DEF Row
  <1>4. 0 \in LayerIds
    BY <1>1 DEF LayerIds
  <1>5. \A row \in NewRows : <<row.prompt, row.policy, row.target>> = key
    <2>1. ASSUME NEW row \in NewRows
          PROVE  \E name, part, gpu, pim : row = Row(Combo[1], Combo[2], name, part, gpu, pim)
      <3>1. CASE cmd.kind = "propagation"
        BY <3>1 DEF NewRows
      <3>2. CASE cmd.kind = "prefix"
        BY <3>2 DEF NewRows
      <3>3. CASE cmd.kind = "decoder"
        <4>1. PICK l \in LayerIds :
                row = Row(Combo[1], Combo[2], "captured", <<l, "layer">>,
                          captured["baseline"][l], captured["pim"][l])
          BY <3>3 DEF NewRows
        <4> QED BY <4>1
      <3>4. CASE cmd.kind = "projection"
        <4>1. PICK l \in LayerIds, q \in Projections :
                row = Row(Combo[1], Combo[2], "captured", <<l, q>>,
                          captured["baseline"][l], captured["pim"][l])
          BY <3>4 DEF NewRows
        <4> QED BY <4>1
      <3> QED BY <1>1, <3>1, <3>2, <3>3, <3>4 DEF Kinds
    <2> QED BY <2>1, <1>3
  <1>6. NewRows # {}
    <2>1. CASE cmd.kind = "propagation"
      BY <2>1 DEF NewRows
    <2>2. CASE cmd.kind = "prefix"
      BY <2>2 DEF NewRows
    <2>3. CASE cmd.kind = "decoder"
      <3>1. Row(Combo[1], Combo[2], "captured", <<0, "layer">>,
                captured["baseline"][0], captured["pim"][0]) \in NewRows
        BY <2>3, <1>4 DEF NewRows
      <3> QED BY <3>1
    <2>4. CASE cmd.kind = "projection"
      <3>1. PICK p \in Projections : TRUE
        BY <1>1
      <3>2. Row(Combo[1], Combo[2], "captured", <<0, p>>,
                captured["baseline"][0], captured["pim"][0]) \in NewRows
        BY <2>4, <1>4 DEF NewRows
      <3> QED BY <3>2
    <2> QED BY <1>1, <2>1, <2>2, <2>3, <2>4 DEF Kinds
  <1> QED BY <1>2, <1>5, <1>6 DEF KeysOf

(* One row per layer and projection.                                       *)
LEMMA ProjectionRows ==
  ASSUME DriverAssumption, cmd.kind = "projection"
  PROVE  Cardinality(NewRows) = NumLayers * Cardinality(Projections)
PROOF
  <1> DEFINE Dom == LayerIds \X Projections
             At(l, q) == Row(Combo[1], Combo[2], "captured", <<l, q>>,
                             captured["baseline"][l], captured["pim"][l])
             f == [x \in Dom |-> At(x[1], x[2])]
  <1>1. NumLayers \in Nat \ {0} /\ IsFiniteSet(Projections)
    BY DEF DriverAssumption
  <1>2. IsFiniteSet(LayerIds) /\ Cardinality(LayerIds) = NumLayers
    BY <1>1, FS_Interval DEF LayerIds
  <1>3. IsFiniteSet(Dom) /\ Cardinality(Dom) = NumLayers * Cardinality(Projections)
    BY <1>1, <1>2, FS_Product
  <1>4. NewRows = {At(l, q) : l \in LayerIds, q \in Projections}
    BY DEF NewRows
  <1>5. \A l, q : At(l, q).part = <<l, q>>
    BY DEF Row
  <1> HIDE DEF At
  <1>6. \A x \in Dom : x = <<x[1], x[2]>> /\ x[1] \in LayerIds /\ x[2] \in Projections
    OBVIOUS
  <1>7. f \in Surjection(Dom, NewRows)
    <2>1. \A x \in Dom : f[x] \in NewRows
      BY <1>4, <1>6
    <2>2. ASSUME NEW row \in NewRows PROVE \E x \in Dom : f[x] = row
      <3>1. PICK l \in LayerIds, q \in Projections : row = At(l, q)
        BY <1>4
      <3>2. <<l, q>> \in Dom /\ f[<<l, q>>] = row
        BY <3>1
      <3> QED BY <3>2
    <2> QED BY <2>1, <2>2 DEF Surjection
  <1>8. f \in Injection(Dom, NewRows)
    <2>1. ASSUME NEW x \in Dom, NEW y \in Dom, f[x] = f[y] PROVE x = y
      BY <1>5, <1>6, <2>1
    <2> QED BY <1>7, <2>1 DEF Surjection, Injection, IsInjective
  <1> HIDE DEF Dom, f
  <1>9. Cardinality(NewRows) = Cardinality(Dom)
    BY <1>3, <1>7, <1>8, FS_Surjection
  <1> QED BY <1>3, <1>9

---------------------------------------------------------------------------
(* Writing files.                                                          *)

PutAt(q, o, tag, file, content) == q = [o EXCEPT ![tag][file] = content]

LEMMA PutIs ==
  ASSUME NEW o, Shape(o), NEW tag \in Tags, NEW file \in FileNames, NEW content,
         NEW q, PutAt(q, o, tag, file, content)
  PROVE  /\ Shape(q) /\ q[tag][file] = content
         /\ \A t \in Tags, f \in FileNames : t # tag \/ f # file => q[t][f] = o[t][f]
PROOF BY DEF Shape, PutAt

(* The file another than the metadata becomes part of this run.            *)
LEMMA TablePut ==
  ASSUME NEW n \in Nat, NEW o, Shape(o), Described(o, n), Earlier(o, n),
         NEW tag \in Tags, NEW file \in FileNames, file # "metadata",
         NEW content, content.run = n, NEW q, PutAt(q, o, tag, file, content)
  PROVE  Shape(q) /\ Described(q, n) /\ Earlier(q, n)
PROOF
  <1>1. /\ Shape(q) /\ q[tag][file] = content
        /\ \A t \in Tags, f \in FileNames : t # tag \/ f # file => q[t][f] = o[t][f]
    BY PutIs
  <1> HIDE DEF Shape
  <1>2. "metadata" \in FileNames /\ "summary" \in FileNames
    BY DEF FileNames
  <1>3. \A t \in Tags : q[t]["metadata"] = o[t]["metadata"]
    BY <1>1, <1>2
  <1>4. \A t \in Tags, f \in FileNames : q[t][f].run \in 0 .. n
    <2> TAKE t \in Tags, f \in FileNames
    <2>1. q[t][f] = o[t][f] \/ q[t][f].run = n
      BY <1>1
    <2> QED BY <2>1 DEF Described
  <1>5. Earlier(q, n)
    BY <1>3 DEF Earlier
  <1>6. ASSUME NEW t \in Tags, q[t]["metadata"].whole
        PROVE  /\ q[t]["summary"].run >= q[t]["metadata"].run
               /\ q[t]["summary"].run = q[t]["metadata"].run =>
                    q[t]["summary"].whole /\ q[t]["summary"].rows = q[t]["metadata"].rows
    <2>1. o[t]["metadata"].run < n /\ o[t]["metadata"].run \in Nat
      BY <1>2, <1>3, <1>6 DEF Earlier, Described
    <2>2. CASE q[t]["summary"] = o[t]["summary"]
      BY <1>3, <1>6, <2>2 DEF Described
    <2>3. CASE q[t]["summary"].run = n
      BY <1>3, <2>1, <2>3
    <2>4. q[t]["summary"] = o[t]["summary"] \/ q[t]["summary"].run = n
      BY <1>1, <1>2
    <2> QED BY <2>2, <2>3, <2>4
  <1> QED BY <1>1, <1>4, <1>5, <1>6 DEF Described

(* The metadata are emptied, or written behind a whole summary.            *)
LEMMA MetadataPut ==
  ASSUME NEW n \in Nat, NEW o, Shape(o), Described(o, n),
         NEW tag \in Tags, NEW content, content.run = n,
         content.whole => /\ o[tag]["summary"].run = n /\ o[tag]["summary"].whole
                          /\ o[tag]["summary"].rows = content.rows,
         NEW q, PutAt(q, o, tag, "metadata", content)
  PROVE  /\ Shape(q) /\ Described(q, n)
         /\ Earlier(o, n) /\ ~content.whole => Earlier(q, n)
PROOF
  <1>0. "metadata" \in FileNames /\ "summary" \in FileNames
    BY DEF FileNames
  <1>1. /\ Shape(q) /\ q[tag]["metadata"] = content
        /\ \A t \in Tags, f \in FileNames : t # tag \/ f # "metadata" => q[t][f] = o[t][f]
    BY <1>0, PutIs
  <1> HIDE DEF Shape
  <1>2. \A t \in Tags, f \in FileNames : q[t][f].run \in 0 .. n
    <2> TAKE t \in Tags, f \in FileNames
    <2>1. q[t][f] = o[t][f] \/ q[t][f].run = n
      BY <1>1
    <2> QED BY <2>1 DEF Described
  <1>3. ASSUME Earlier(o, n), ~content.whole PROVE Earlier(q, n)
    BY <1>0, <1>1, <1>3 DEF Earlier
  <1>4. ASSUME NEW t \in Tags, q[t]["metadata"].whole
        PROVE  /\ q[t]["summary"].run >= q[t]["metadata"].run
               /\ q[t]["summary"].run = q[t]["metadata"].run =>
                    q[t]["summary"].whole /\ q[t]["summary"].rows = q[t]["metadata"].rows
    <2>1. q[t]["summary"] = o[t]["summary"]
      BY <1>0, <1>1
    <2>2. CASE t = tag
      BY <1>1, <1>4, <2>1, <2>2
    <2>3. CASE t # tag
      BY <1>0, <1>1, <1>4, <2>1, <2>3 DEF Described
    <2> QED BY <2>2, <2>3
  <1> QED BY <1>1, <1>2, <1>3, <1>4 DEF Described

LEMMA LeftIs ==
  /\ LeftOf(<<>>) = {} /\ LeftOf(<<"metadata">>) = {"metadata"}
  /\ LeftOf(<<"summary", "metadata">>) = {"summary", "metadata"}
  /\ LeftOf(<<"elementwise", "metadata">>) = {"elementwise", "metadata"}
  /\ LeftOf(<<"elementwise", "summary", "metadata">>) = {"elementwise", "summary", "metadata"}
  /\ LeftOf(<<"summary", "elementwise", "metadata">>) = {"elementwise", "summary", "metadata"}
PROOF
  <1>1. LeftOf(<<>>) = {} /\ LeftOf(<<"metadata">>) = {"metadata"}
    BY DEF LeftOf
  <1>2. ASSUME NEW a, NEW b PROVE LeftOf(<<a, b>>) = {a, b}
    <2>1. 1 .. 2 = {1, 2}
      OBVIOUS
    <2> QED BY <2>1 DEF LeftOf
  <1>3. ASSUME NEW a, NEW b, NEW c PROVE LeftOf(<<a, b, c>>) = {a, b, c}
    <2>1. 1 .. 3 = {1, 2, 3}
      OBVIOUS
    <2> QED BY <2>1 DEF LeftOf
  <1>4. /\ LeftOf(<<"summary", "metadata">>) = {"summary", "metadata"}
        /\ LeftOf(<<"elementwise", "metadata">>) = {"elementwise", "metadata"}
    BY <1>2
  <1>5. /\ LeftOf(<<"elementwise", "summary", "metadata">>) = {"elementwise", "summary", "metadata"}
        /\ LeftOf(<<"summary", "elementwise", "metadata">>) = {"elementwise", "summary", "metadata"}
    <2>1. LeftOf(<<"summary", "elementwise", "metadata">>) = {"summary", "elementwise", "metadata"}
      BY <1>3
    <2> QED BY <1>3, <2>1
  <1> QED BY <1>1, <1>4, <1>5

(* What is left when the first of the files is closed.                     *)
LEMMA TailLeft ==
  ASSUME NEW w \in Tails, w # <<>>
  PROVE  /\ Head(w) \in FileNames /\ Tail(w) \in Tails
         /\ LeftOf(w) = {Head(w)} \union LeftOf(Tail(w))
         /\ Head(w) = "metadata" <=> Tail(w) = <<>>
         /\ Head(w) = "metadata" => LeftOf(w) = {"metadata"}
PROOF
  <1>1. CASE w = <<"metadata">>
    <2>1. Head(w) = "metadata" /\ Tail(w) = <<>>
      BY <1>1
    <2> QED BY <1>1, <2>1, LeftIs DEF Tails, FileNames
  <1>2. CASE w = <<"summary", "metadata">>
    <2>1. Head(w) = "summary" /\ Tail(w) = <<"metadata">>
      BY <1>2
    <2> QED BY <1>2, <2>1, LeftIs DEF Tails, FileNames
  <1>3. CASE w = <<"elementwise", "metadata">>
    <2>1. Head(w) = "elementwise" /\ Tail(w) = <<"metadata">>
      BY <1>3
    <2> QED BY <1>3, <2>1, LeftIs DEF Tails, FileNames
  <1>4. CASE w = <<"elementwise", "summary", "metadata">>
    <2>1. Head(w) = "elementwise" /\ Tail(w) = <<"summary", "metadata">>
      BY <1>4
    <2> QED BY <1>4, <2>1, LeftIs DEF Tails, FileNames
  <1>5. CASE w = <<"summary", "elementwise", "metadata">>
    <2>1. Head(w) = "summary" /\ Tail(w) = <<"elementwise", "metadata">>
      BY <1>5
    <2> QED BY <1>5, <2>1, LeftIs DEF Tails, FileNames
  <1> QED BY <1>1, <1>2, <1>3, <1>4, <1>5 DEF Tails

LEMMA FilesToWrite ==
  ASSUME NEW kind \in Kinds
  PROVE  /\ files(kind) \in Tails /\ files(kind) # <<>>
         /\ kind # "prefix" => LeftOf(files(kind)) = FileNames
         /\ kind = "prefix" => LeftOf(files(kind)) = {"metadata"}
PROOF BY LeftIs DEF files, Tails, Kinds, FileNames
---------------------------------------------------------------------------
(* Each step keeps the files in order.                                     *)

(* A round has been compared, and the loops go on.                         *)
LEMMA GoOnCounts ==
  ASSUME DriverAssumption, ProbesAssumption, cmd \in Commands, cmd' = cmd,
         prompt_pos \in 1 .. Len(cmd.prompts), combo_pos \in 1 .. Len(Combos(cmd)),
         KeysOf(rows') = Keys(cmd, RoundsBefore(cmd, prompt_pos, combo_pos + 1)),
         cmd.kind = "projection" => Cardinality(rows') = NumLayers * Cardinality(Projections),
         GoOn
  PROVE  /\ RowsOK' /\ pc' \in {"replace", "baseline", "write"}
         /\ pc' = "write" => todo' = files(cmd.kind)
PROOF
  <1>1. /\ Len(Combos(cmd)) \in Nat \ {0} /\ Len(cmd.prompts) \in Nat
    BY CombosInModel DEF DriverAssumption, CommandType
  <1>2. /\ pc' = Following[1] /\ prompt_pos' = Following[2] /\ combo_pos' = Following[3]
        /\ todo' = IF Following[1] = "write" THEN files(cmd.kind) ELSE <<>>
    BY DEF GoOn
  <1>3. CASE Following = <<"replace", prompt_pos, combo_pos + 1>> /\ combo_pos < Len(Combos(cmd))
    <2>1. pc' = "replace" /\ prompt_pos' = prompt_pos /\ combo_pos' = combo_pos + 1
      BY <1>2, <1>3
    <2>2. combo_pos' \in 1 .. Len(Combos(cmd))
      BY <1>1, <1>3, <2>1
    <2>3. Compared' = RoundsBefore(cmd, prompt_pos, combo_pos + 1)
      BY <2>1 DEF Compared, Looping
    <2> QED BY <2>1, <2>2, <2>3 DEF RowsOK, Writing
  <1>4. CASE Following = <<"baseline", prompt_pos + 1, 1>>
             /\ combo_pos = Len(Combos(cmd)) /\ prompt_pos < Len(cmd.prompts)
    <2>1. pc' = "baseline" /\ prompt_pos' = prompt_pos + 1 /\ combo_pos' = 1
      BY <1>2, <1>4
    <2>2. prompt_pos' \in 1 .. Len(cmd.prompts) /\ combo_pos' \in 1 .. Len(Combos(cmd))
      BY <1>1, <1>4, <2>1
    <2>3. Compared' = RoundsBefore(cmd, prompt_pos + 1, 1)
      BY <2>1 DEF Compared, Looping
    <2>4. RoundsBefore(cmd, prompt_pos, combo_pos + 1) = RoundsBefore(cmd, prompt_pos + 1, 1)
      BY <1>1, <1>4, NextPrompt
    <2> QED BY <2>1, <2>2, <2>3, <2>4 DEF RowsOK, Writing
  <1>5. CASE Following = <<"write", prompt_pos, combo_pos>>
             /\ combo_pos = Len(Combos(cmd)) /\ prompt_pos = Len(cmd.prompts)
    <2>1. pc' = "write" /\ prompt_pos' = prompt_pos /\ combo_pos' = combo_pos
          /\ todo' = files(cmd.kind)
      BY <1>2, <1>5
    <2>2. Compared' = RoundsBefore(cmd, prompt_pos, combo_pos + 1)
      BY <2>1 DEF Compared, Looping
    <2> QED BY <1>5, <2>1, <2>2 DEF RowsOK
  <1>6. \/ Following = <<"replace", prompt_pos, combo_pos + 1>> /\ combo_pos < Len(Combos(cmd))
        \/ /\ Following = <<"baseline", prompt_pos + 1, 1>>
           /\ combo_pos = Len(Combos(cmd)) /\ prompt_pos < Len(cmd.prompts)
        \/ /\ Following = <<"write", prompt_pos, combo_pos>>
           /\ combo_pos = Len(Combos(cmd)) /\ prompt_pos = Len(cmd.prompts)
    BY <1>1 DEF Following
  <1> QED BY <1>3, <1>4, <1>5, <1>6

(* A comparison adds its round to the rows, and to those of a projection   *)
(* command, which has one round only, all that it will have.               *)
LEMMA ComparedCounts ==
  ASSUME DriverAssumption, ProbesAssumption, cmd \in Commands, RowsOK, pc = "compare",
         rows' = rows \union NewRows
  PROVE  /\ KeysOf(rows') = Keys(cmd, RoundsBefore(cmd, prompt_pos, combo_pos + 1))
         /\ cmd.kind = "projection" => Cardinality(rows') = NumLayers * Cardinality(Projections)
PROOF
  <1>1. /\ prompt_pos \in 1 .. Len(cmd.prompts) /\ combo_pos \in 1 .. Len(Combos(cmd))
        /\ KeysOf(rows) = Keys(cmd, RoundsBefore(cmd, prompt_pos, combo_pos))
    BY DEF RowsOK, Running, Compared, Looping
  <1>2. RoundsBefore(cmd, prompt_pos, combo_pos + 1)
          = RoundsBefore(cmd, prompt_pos, combo_pos) \union {<<prompt_pos, combo_pos>>}
    BY <1>1, NextCombo
  <1>3. KeysOf(rows') = KeysOf(rows) \union KeysOf(NewRows)
    BY KeysOfUnion
  <1>4. KeysOf(NewRows) = {RoundKey(cmd, <<prompt_pos, combo_pos>>)}
    BY NewRowsKeys
  <1>5. Keys(cmd, RoundsBefore(cmd, prompt_pos, combo_pos + 1))
          = Keys(cmd, RoundsBefore(cmd, prompt_pos, combo_pos))
              \union {RoundKey(cmd, <<prompt_pos, combo_pos>>)}
    BY <1>2, KeysUnion
  <1>6. ASSUME cmd.kind = "projection"
        PROVE  Cardinality(rows') = NumLayers * Cardinality(Projections)
    <2>1. Len(cmd.prompts) = 1 /\ Combos(cmd) = << <<"full", NumLayers - 1>> >>
      BY <1>6 DEF DriverAssumption, Combos, Captures
    <2>2. prompt_pos = 1 /\ combo_pos = 1
      BY <1>1, <2>1
    <2>3. KeysOf(rows) = {}
      BY <1>1, <2>2, FirstRound DEF Keys
    <2>4. rows = {}
      BY <2>3 DEF KeysOf
    <2>5. rows' = NewRows
      BY <2>4
    <2> QED BY <1>6, <2>5, ProjectionRows
  <1> QED BY <1>1, <1>3, <1>4, <1>5, <1>6

LEMMA InitFiles == DriverAssumption /\ Init => OInv
PROOF
  <1> SUFFICES ASSUME DriverAssumption, Init PROVE OInv
    OBVIOUS
  <1>1. cmd \in Commands /\ pc = "idle" /\ launches = 0
        /\ outputs = [t \in Tags |-> [f \in FileNames |-> NoFile]]
    BY DEF Init
  <1>2. \A t \in Tags, f \in FileNames : outputs[t][f].run = 0 /\ ~outputs[t][f].whole
    BY <1>1 DEF NoFile
  <1>3. Shape(outputs)
    BY <1>1 DEF Shape
  <1>4. Described(outputs, launches)
    BY <1>1, <1>2 DEF Described, FileNames
  <1> QED BY <1>1, <1>3, <1>4 DEF OInv, RowsOK, ClosedOK, FilesOK, Running, Writing

(* Steps of the forwards touch neither rows nor files.                     *)
LEMMA ForwardFiles ==
  ASSUME OInv, pc \in Looping, pc' \in Looping,
         UNCHANGED <<cmd, place, rows, outputs, launches>>
  PROVE  OInv'
PROOF
  <1>1. Running /\ Running' /\ pc \notin Writing /\ pc' \notin Writing
    BY DEF Running, Looping, Writing
  <1>2. Compared' = Compared /\ pc' # "rewrite"
    BY DEF Compared, place, Looping
  <1>3. RowsOK'
    BY <1>1, <1>2 DEF OInv, RowsOK, place
  <1>4. FilesOK'
    BY <1>1 DEF OInv, FilesOK
  <1> QED BY <1>1, <1>3, <1>4 DEF OInv, ClosedOK

(* The driver stops, and leaves the files as they are.                     *)
LEMMA StopFiles ==
  ASSUME OInv, pc' \in {"idle", "failed"}, UNCHANGED <<cmd, outputs, launches>>
  PROVE  OInv'
PROOF
  <1>1. ~Running' /\ pc' \notin Writing /\ pc' # "done"
    BY DEF Running, Writing
  <1> QED BY <1>1 DEF OInv, RowsOK, ClosedOK, FilesOK

(* The files of the last run are of an earlier one now.                    *)
LEMMA LaterRun ==
  ASSUME NEW n \in Nat, NEW o, Described(o, n)
  PROVE  Described(o, n + 1) /\ Earlier(o, n + 1)
PROOF
  <1>1. \A t \in Tags, f \in FileNames : o[t][f].run \in 0 .. n
    BY DEF Described
  <1>2. \A t \in Tags, f \in FileNames : o[t][f].run \in 0 .. n + 1 /\ o[t][f].run < n + 1
    <2> TAKE t \in Tags, f \in FileNames
    <2>1. o[t][f].run \in 0 .. n
      BY <1>1
    <2> DEFINE k == o[t][f].run
    <2>2. k \in 0 .. n
      BY <2>1
    <2> HIDE DEF k
    <2>3. k \in 0 .. n + 1 /\ k < n + 1
      BY <2>2
    <2> QED BY <2>3 DEF k
  <1>3. "metadata" \in FileNames
    BY DEF FileNames
  <1> QED BY <1>2, <1>3 DEF Described, Earlier

LEMMA LaunchFiles ==
  ASSUME DriverAssumption, ProbesAssumption, OInv, Launch
  PROVE  OInv'
PROOF
  <1>1. /\ launches' = launches + 1 /\ cmd' \in Commands /\ pc' = "baseline"
        /\ prompt_pos' = 1 /\ combo_pos' = 1 /\ rows' = {}
    BY DEF Launch
  <1>2. /\ launches \in Nat /\ Shape(outputs) /\ Described(outputs, launches)
    BY DEF OInv, FilesOK
  <1>3. Described(outputs, launches') /\ Earlier(outputs, launches') /\ launches' \in Nat
    BY <1>1, <1>2, LaterRun
  <1>4. cmd'.tag \in Tags /\ cmd'.prompts \in Seq(Nat) /\ cmd'.prompts # <<>>
    BY <1>1 DEF DriverAssumption, CommandType
  <1>5. Len(cmd'.prompts) \in Nat \ {0} /\ Len(Combos(cmd')) \in Nat \ {0}
    BY <1>1, <1>4, CombosInModel
  <1>6. RowsOK'
    <2>1. Compared' = {}
      BY <1>1, FirstRound DEF Compared, Looping
    <2>2. KeysOf(rows') = Keys(cmd', Compared')
      BY <1>1, <2>1 DEF KeysOf, Keys
    <2>3. 1 \in 1 .. Len(cmd'.prompts) /\ 1 \in 1 .. Len(Combos(cmd'))
      BY <1>5
    <2>4. pc' # "rewrite" /\ pc' \notin Writing
      BY <1>1 DEF Writing
    <2> QED BY <1>1, <2>2, <2>3, <2>4 DEF RowsOK
  <1>7. /\ Shape(outputs') /\ Described(outputs', launches') /\ Earlier(outputs', launches')
        /\ cmd'.kind = "propagation" => outputs'[cmd'.tag]["elementwise"].rows = rows'
    <2>1. CASE cmd'.kind = "propagation"
      <3> DEFINE content == [NoFile EXCEPT !.run = launches']
      <3>1. content.run = launches' /\ content.rows = {}
        BY DEF NoFile
      <3>2. PutAt(outputs', outputs, cmd'.tag, "elementwise", content)
        BY <2>1 DEF Launch, PutAt
      <3>3. "elementwise" \in FileNames /\ "elementwise" # "metadata"
        BY DEF FileNames
      <3> HIDE DEF content
      <3>4. Shape(outputs') /\ Described(outputs', launches') /\ Earlier(outputs', launches')
        BY <1>2, <1>3, <1>4, <3>1, <3>2, <3>3, TablePut
      <3>5. outputs'[cmd'.tag]["elementwise"] = content
        BY <1>2, <1>4, <3>2, <3>3, PutIs
      <3> QED BY <1>1, <3>1, <3>4, <3>5
    <2>2. CASE cmd'.kind # "propagation"
      <3>1. outputs' = outputs
        BY <2>2 DEF Launch
      <3> QED BY <1>2, <1>3, <2>2, <3>1
    <2> QED BY <2>1, <2>2
  <1>8. ClosedOK'
    BY <1>1 DEF ClosedOK, Writing
  <1> QED BY <1>1, <1>3, <1>6, <1>7, <1>8 DEF OInv, FilesOK

(* When the loops are left, all that is to be written is still to come, or *)
(* is the summary of the prefix driver.                                    *)
LEMMA NothingClosed ==
  ASSUME DriverAssumption, cmd \in Commands, cmd' = cmd,
         pc' \in {"replace", "baseline", "write"}, pc' = "write" => todo' = files(cmd.kind),
         cmd.kind = "prefix" => outputs'[cmd.tag]["summary"] = Whole'
  PROVE  ClosedOK'
PROOF
  <1>1. cmd.kind \in Kinds
    BY DEF DriverAssumption, CommandType
  <1>2. CASE pc' = "write"
    <2>1. todo' \in Tails /\ todo' # <<>>
      BY <1>1, <1>2, FilesToWrite
    <2>2. ASSUME NEW f \in FileNames, f \notin LeftOf(todo'),
                 cmd.kind = "prefix" => f # "elementwise"
          PROVE  outputs'[cmd.tag][f] = Whole'
      <3>1. cmd.kind = "prefix" /\ f # "metadata"
        BY <1>1, <1>2, <2>2, FilesToWrite
      <3>2. f = "summary"
        BY <2>2, <3>1 DEF FileNames
      <3> QED BY <3>1, <3>2
    <2>3. (todo' = <<>>) <=> (pc' = "done")
      BY <1>2, <2>1
    <2> QED BY <2>1, <2>2, <2>3 DEF ClosedOK
  <1>3. CASE pc' # "write"
    BY <1>3 DEF ClosedOK, Writing
  <1> QED BY <1>2, <1>3

LEMMA CompareFiles ==
  ASSUME DriverAssumption, ProbesAssumption, OInv, Compare
  PROVE  OInv'
PROOF
  <1>1. pc = "compare" /\ cmd' = cmd /\ launches' = launches /\ Running
    BY DEF Compare, bounds, Running
  <1>2. CASE Missing
    <2>1. pc' = "failed" /\ outputs' = outputs
      BY <1>2 DEF Compare
    <2> QED BY <1>1, <2>1, StopFiles
  <1>3. CASE ~Missing
    <2>1. rows' = rows \union NewRows
      BY <1>3 DEF Compare, Collected
    <2>2. /\ cmd \in Commands /\ RowsOK /\ launches \in Nat /\ Shape(outputs)
          /\ Described(outputs, launches) /\ Earlier(outputs, launches)
          /\ cmd.kind = "propagation" => outputs[cmd.tag]["elementwise"].rows = rows
          /\ cmd.tag \in Tags
      BY <1>1 DEF OInv, FilesOK, DriverAssumption, CommandType
    <2>3. /\ KeysOf(rows') = Keys(cmd, RoundsBefore(cmd, prompt_pos, combo_pos + 1))
          /\ cmd.kind = "projection" => Cardinality(rows') = NumLayers * Cardinality(Projections)
      BY <1>1, <2>1, <2>2, ComparedCounts
    <2>4. prompt_pos \in 1 .. Len(cmd.prompts) /\ combo_pos \in 1 .. Len(Combos(cmd))
      BY <1>1, <2>2 DEF RowsOK
    <2>5. "elementwise" \in FileNames /\ "summary" \in FileNames
      BY DEF FileNames
    <2>6. CASE cmd.kind = "prefix"
      <3>1. /\ pc' = "rewrite" /\ UNCHANGED place
            /\ PutAt(outputs', outputs, cmd.tag, "summary", [NoFile EXCEPT !.run = launches])
        BY <1>3, <2>6 DEF Compare, Put, PutAt
      <3>2. [NoFile EXCEPT !.run = launches].run = launches
        BY DEF NoFile
      <3>3. Shape(outputs') /\ Described(outputs', launches) /\ Earlier(outputs', launches)
        BY <2>2, <2>5, <3>1, <3>2, TablePut
      <3>4. Compared' = RoundsBefore(cmd, prompt_pos, combo_pos + 1)
        BY <1>1, <3>1 DEF Compared, Looping, place
      <3>5. RowsOK'
        BY <1>1, <2>3, <2>4, <2>6, <3>1, <3>4 DEF RowsOK, Writing, place
      <3>6. ClosedOK'
        BY <3>1 DEF ClosedOK, Writing
      <3> QED BY <1>1, <2>2, <2>6, <3>3, <3>5, <3>6 DEF OInv, FilesOK
    <2>7. CASE cmd.kind # "prefix"
      <3>1. GoOn
        BY <1>3, <2>7 DEF Compare
      <3>2. /\ RowsOK' /\ pc' \in {"replace", "baseline", "write"}
            /\ pc' = "write" => todo' = files(cmd.kind)
        BY <1>1, <2>2, <2>3, <2>4, <3>1, GoOnCounts
      <3>3. ClosedOK'
        BY <1>1, <2>2, <2>7, <3>2, NothingClosed
      <3>4. /\ Shape(outputs') /\ Described(outputs', launches) /\ Earlier(outputs', launches)
            /\ cmd.kind = "propagation" => outputs'[cmd.tag]["elementwise"].rows = rows'
        <4>1. CASE cmd.kind = "propagation"
          <5> DEFINE content == [run |-> launches, whole |-> FALSE,
                                 rows |-> outputs[cmd.tag]["elementwise"].rows \union NewRows]
          <5>1. PutAt(outputs', outputs, cmd.tag, "elementwise", content)
            BY <1>3, <4>1 DEF Compare, Put, PutAt
          <5>2. content.run = launches /\ content.rows = rows'
            BY <2>1, <2>2, <4>1
          <5> HIDE DEF content
          <5>3. Shape(outputs') /\ Described(outputs', launches) /\ Earlier(outputs', launches)
            BY <2>2, <2>5, <5>1, <5>2, TablePut
          <5>4. outputs'[cmd.tag]["elementwise"] = content
            BY <2>2, <2>5, <5>1, PutIs
          <5> QED BY <5>2, <5>3, <5>4
        <4>2. CASE cmd.kind # "propagation"
          <5>1. outputs' = outputs
            BY <1>3, <2>7, <4>2 DEF Compare
          <5> QED BY <2>2, <4>2, <5>1
        <4> QED BY <4>1, <4>2
      <3> QED BY <1>1, <2>2, <3>2, <3>3, <3>4 DEF OInv, FilesOK
    <2> QED BY <2>6, <2>7
  <1> QED BY <1>2, <1>3

LEMMA WriteRowsFiles ==
  ASSUME DriverAssumption, ProbesAssumption, OInv, WriteRows
  PROVE  OInv'
PROOF
  <1> DEFINE content == [run |-> launches, whole |-> TRUE, rows |-> rows]
  <1>1. /\ pc = "rewrite" /\ cmd' = cmd /\ rows' = rows /\ launches' = launches
        /\ Running /\ GoOn /\ PutAt(outputs', outputs, cmd.tag, "summary", content)
    BY DEF WriteRows, Put, PutAt, bounds, Running
  <1>2. /\ cmd \in Commands /\ RowsOK /\ launches \in Nat /\ Shape(outputs)
        /\ Described(outputs, launches) /\ Earlier(outputs, launches) /\ cmd.tag \in Tags
    BY <1>1 DEF OInv, FilesOK, DriverAssumption, CommandType
  <1>3. /\ prompt_pos \in 1 .. Len(cmd.prompts) /\ combo_pos \in 1 .. Len(Combos(cmd))
        /\ KeysOf(rows) = Keys(cmd, RoundsBefore(cmd, prompt_pos, combo_pos + 1))
        /\ cmd.kind = "prefix"
    BY <1>1, <1>2 DEF RowsOK, Compared, Looping
  <1>4. /\ RowsOK' /\ pc' \in {"replace", "baseline", "write"}
        /\ pc' = "write" => todo' = files(cmd.kind)
    <2>1. KeysOf(rows') = Keys(cmd, RoundsBefore(cmd, prompt_pos, combo_pos + 1))
      BY <1>1, <1>3
    <2> QED BY <1>1, <1>2, <1>3, <2>1, GoOnCounts
  <1>5. content.run = launches /\ "summary" \in FileNames /\ content = Whole'
    BY <1>1 DEF FileNames, Whole
  <1> HIDE DEF content
  <1>6. outputs'[cmd.tag]["summary"] = Whole'
    BY <1>1, <1>2, <1>5, PutIs
  <1>7. ClosedOK'
    BY <1>1, <1>2, <1>4, <1>6, NothingClosed
  <1>8. Shape(outputs') /\ Described(outputs', launches) /\ Earlier(outputs', launches)
    BY <1>1, <1>2, <1>5, TablePut
  <1> QED BY <1>1, <1>2, <1>3, <1>4, <1>7, <1>8 DEF OInv, FilesOK

(* While files are written, the rows stay and so do their rounds.          *)
LEMMA WritingRows ==
  ASSUME RowsOK, pc \in {"write", "fill"}, pc' \in Writing, UNCHANGED <<cmd, place, rows>>
  PROVE  RowsOK'
PROOF
  <1>1. Running /\ pc \in Writing /\ pc' # "rewrite"
    BY DEF Running, Writing
  <1>2. Compared' = Compared
    BY DEF Compared, Looping, Writing, place
  <1> QED BY <1>1, <1>2 DEF RowsOK, place

LEMMA OpenFileFiles ==
  ASSUME DriverAssumption, OInv, OpenFile
  PROVE  OInv'
PROOF
  <1> DEFINE f == Head(todo)
  <1>1. /\ pc = "write" /\ Running /\ UNCHANGED <<cmd, place, rows, todo, launches>>
    BY DEF OpenFile, Running, bounds
  <1>2. CASE NoDirectory
    <2>1. pc' = "failed" /\ outputs' = outputs
      BY <1>2 DEF OpenFile
    <2> QED BY <1>1, <2>1, StopFiles
  <1>3. CASE ~NoDirectory
    <2>1. pc' = "fill" /\ Running'
      BY <1>3 DEF OpenFile, Running
    <2>2. /\ cmd \in Commands /\ RowsOK /\ ClosedOK /\ launches \in Nat /\ Shape(outputs)
          /\ Described(outputs, launches) /\ Earlier(outputs, launches)
          /\ cmd.kind = "propagation" => outputs[cmd.tag]["elementwise"].rows = rows
          /\ cmd.tag \in Tags
      BY <1>1 DEF OInv, FilesOK, DriverAssumption, CommandType
    <2>3. todo \in Tails /\ todo # <<>> /\ f \in FileNames /\ f \in LeftOf(todo)
      BY <1>1, <2>2, TailLeft DEF ClosedOK, Writing
    <2>4. RowsOK'
      BY <1>1, <2>1, <2>2, WritingRows DEF Writing
    <2>5. CASE cmd.kind = "propagation" /\ f = "elementwise"
      <3>1. outputs' = outputs
        BY <1>3, <2>5 DEF OpenFile
      <3>2. ClosedOK'
        BY <1>1, <2>1, <2>2, <2>3, <3>1 DEF ClosedOK, Writing, Whole
      <3> QED BY <1>1, <2>1, <2>2, <2>4, <3>1, <3>2 DEF OInv, FilesOK
    <2>6. CASE ~(cmd.kind = "propagation" /\ f = "elementwise")
      <3> DEFINE content == [NoFile EXCEPT !.run = launches]
      <3>1. PutAt(outputs', outputs, cmd.tag, f, content)
        BY <1>3, <2>6 DEF OpenFile, Put, PutAt
      <3>2. content.run = launches /\ ~content.whole
        BY DEF NoFile
      <3> HIDE DEF content, f
      <3>3. /\ Shape(outputs')
            /\ \A g \in FileNames : g # f => outputs'[cmd.tag][g] = outputs[cmd.tag][g]
        BY <2>2, <2>3, <3>1, PutIs
      <3>4. Described(outputs', launches) /\ Earlier(outputs', launches)
        <4>1. CASE f = "metadata"
          BY <2>2, <3>1, <3>2, <4>1, MetadataPut
        <4>2. CASE f # "metadata"
          BY <2>2, <2>3, <3>1, <3>2, <4>2, TablePut
        <4> QED BY <4>1, <4>2
      <3>5. ClosedOK'
        <4>1. ASSUME NEW g \in FileNames, g \notin LeftOf(todo), cmd.kind = "prefix" => g # "elementwise"
              PROVE  outputs'[cmd.tag][g] = Whole'
          <5>1. outputs[cmd.tag][g] = Whole
            BY <1>1, <2>2, <4>1 DEF ClosedOK, Writing
          <5> QED BY <1>1, <2>3, <3>3, <4>1, <5>1 DEF Whole
        <4> QED BY <1>1, <2>1, <2>3, <4>1 DEF ClosedOK
      <3>6. cmd.kind = "propagation" => outputs'[cmd.tag]["elementwise"].rows = rows
        <4>1. "elementwise" \in FileNames
          BY DEF FileNames
        <4> QED BY <2>2, <2>6, <3>3, <4>1
      <3> QED BY <1>1, <2>1, <2>2, <2>4, <3>3, <3>4, <3>5, <3>6 DEF OInv, FilesOK
    <2> QED BY <2>5, <2>6
  <1> QED BY <1>2, <1>3

LEMMA CloseFileFiles ==
  ASSUME DriverAssumption, OInv, CloseFile
  PROVE  OInv'
PROOF
  <1> DEFINE f == Head(todo)
             content == [run |-> launches, whole |-> TRUE, rows |-> rows]
  <1>1. /\ pc = "fill" /\ Running /\ UNCHANGED <<cmd, place, rows, launches>>
        /\ todo' = Tail(todo) /\ pc' = IF todo' = <<>> THEN "done" ELSE "write"
    BY DEF CloseFile, Running, bounds
  <1>2. /\ cmd \in Commands /\ RowsOK /\ ClosedOK /\ launches \in Nat /\ Shape(outputs)
        /\ Described(outputs, launches) /\ Earlier(outputs, launches)
        /\ cmd.kind = "propagation" => outputs[cmd.tag]["elementwise"].rows = rows
        /\ cmd.tag \in Tags
    BY <1>1 DEF OInv, FilesOK, DriverAssumption, CommandType
  <1>3. /\ todo \in Tails /\ todo # <<>>
        /\ \A g \in FileNames :
             g \notin LeftOf(todo) /\ (cmd.kind = "prefix" => g # "elementwise") =>
               outputs[cmd.tag][g] = Whole
    BY <1>1, <1>2 DEF ClosedOK, Writing
  <1>4. /\ f \in FileNames /\ Tail(todo) \in Tails
        /\ LeftOf(todo) = {f} \union LeftOf(Tail(todo))
        /\ f = "metadata" <=> Tail(todo) = <<>>
        /\ f = "metadata" => LeftOf(todo) = {"metadata"}
    BY <1>3, TailLeft
  <1>5. PutAt(outputs', outputs, cmd.tag, f, content)
    BY <1>2 DEF CloseFile, Put, PutAt
  <1>6. content.run = launches /\ content.whole /\ content.rows = rows /\ content = Whole'
    BY <1>1 DEF Whole
  <1> HIDE DEF content, f
  <1>7. /\ Shape(outputs') /\ outputs'[cmd.tag][f] = content
        /\ \A g \in FileNames : g # f => outputs'[cmd.tag][g] = outputs[cmd.tag][g]
    BY <1>2, <1>4, <1>5, PutIs
  <1>8. Whole' = Whole
    BY <1>1 DEF Whole
  <1>9. RowsOK'
    BY <1>1, <1>2, WritingRows DEF Writing
  <1>10. ClosedOK'
    <2>1. ASSUME NEW g \in FileNames, g \notin LeftOf(todo'), cmd.kind = "prefix" => g # "elementwise"
          PROVE  outputs'[cmd.tag][g] = Whole'
      <3>1. CASE g = f
        BY <1>6, <1>7, <3>1
      <3>2. CASE g # f
        BY <1>1, <1>3, <1>4, <1>7, <1>8, <2>1, <3>2
      <3> QED BY <3>1, <3>2
    <2>2. todo' \in Tails /\ (todo' = <<>> <=> pc' = "done")
      BY <1>1, <1>4
    <2> QED BY <1>1, <2>1, <2>2 DEF ClosedOK
  <1>11. Described(outputs', launches) /\ (Running' => Earlier(outputs', launches))
    <2>1. CASE f = "metadata"
      <3>1. outputs[cmd.tag]["summary"] = Whole
        BY <1>3, <1>4, <2>1 DEF FileNames
      <3>2. /\ outputs[cmd.tag]["summary"].run = launches /\ outputs[cmd.tag]["summary"].whole
            /\ outputs[cmd.tag]["summary"].rows = content.rows
        BY <1>6, <3>1 DEF Whole
      <3>3. ~Running'
        BY <1>1, <1>4, <2>1 DEF Running
      <3> QED BY <1>2, <1>5, <1>6, <2>1, <3>2, <3>3, MetadataPut
    <2>2. CASE f # "metadata"
      BY <1>2, <1>4, <1>5, <1>6, <2>2, TablePut
    <2> QED BY <2>1, <2>2
  <1>12. cmd.kind = "propagation" => outputs'[cmd.tag]["elementwise"].rows = rows
    <2>1. "elementwise" \in FileNames
      BY DEF FileNames
    <2> QED BY <1>2, <1>6, <1>7, <2>1
  <1> QED BY <1>1, <1>2, <1>7, <1>9, <1>10, <1>11, <1>12 DEF OInv, FilesOK

---------------------------------------------------------------------------
(* What a driver leaves.                                                   *)

(* All rounds of the loops are the prompts with the policies and layers.   *)
AllKeys(c) == {<<p, k[1], k[2]>> : p \in ToSet(c.prompts), k \in ToSet(Combos(c))}

LEMMA AllRounds ==
  ASSUME NEW c, c.prompts \in Seq(Nat), DOMAIN Combos(c) = 1 .. Len(Combos(c))
  PROVE  Keys(c, Rounds(c)) = AllKeys(c)
PROOF
  <1>1. DOMAIN c.prompts = 1 .. Len(c.prompts)
    OBVIOUS
  <1>2. /\ \A x : x \in ToSet(c.prompts) <=> \E i \in 1 .. Len(c.prompts) : x = c.prompts[i]
        /\ \A x : x \in ToSet(Combos(c)) <=> \E j \in 1 .. Len(Combos(c)) : x = Combos(c)[j]
    BY <1>1 DEF ToSet
  <1>3. ASSUME NEW key \in Keys(c, Rounds(c)) PROVE key \in AllKeys(c)
    <2>1. PICK r \in Rounds(c) : key = RoundKey(c, r)
      BY DEF Keys
    <2>2. r[1] \in 1 .. Len(c.prompts) /\ r[2] \in 1 .. Len(Combos(c))
      BY DEF Rounds
    <2>3. c.prompts[r[1]] \in ToSet(c.prompts) /\ Combos(c)[r[2]] \in ToSet(Combos(c))
      BY <1>2, <2>2
    <2> QED BY <2>1, <2>3 DEF RoundKey, AllKeys
  <1>4. ASSUME NEW key \in AllKeys(c) PROVE key \in Keys(c, Rounds(c))
    <2>1. PICK p \in ToSet(c.prompts), k \in ToSet(Combos(c)) : key = <<p, k[1], k[2]>>
      BY DEF AllKeys
    <2>2. PICK i \in 1 .. Len(c.prompts) : p = c.prompts[i]
      BY <1>2
    <2>3. PICK j \in 1 .. Len(Combos(c)) : k = Combos(c)[j]
      BY <1>2
    <2>4. <<i, j>> \in Rounds(c) /\ RoundKey(c, <<i, j>>) = key
      BY <2>1, <2>2, <2>3 DEF Rounds, RoundKey
    <2> QED BY <2>4 DEF Keys
  <1> QED BY <1>3, <1>4

LEMMA DoneIsWhole ==
  DriverAssumption /\ ProbesAssumption /\ OInv => OutputsAreWhole
PROOF
  <1> SUFFICES ASSUME DriverAssumption, ProbesAssumption, OInv PROVE OutputsAreWhole
    OBVIOUS
  <1>1. /\ cmd \in Commands /\ cmd.prompts \in Seq(Nat) /\ cmd.kind \in Kinds
        /\ Described(outputs, launches)
    BY DEF OInv, FilesOK, DriverAssumption, CommandType
  <1>2. Len(Combos(cmd)) \in Nat \ {0} /\ DOMAIN Combos(cmd) = 1 .. Len(Combos(cmd))
    BY <1>1, CombosInModel
  <1>3. ASSUME NEW t \in Tags, outputs[t]["metadata"].whole
        PROVE  /\ outputs[t]["summary"].run >= outputs[t]["metadata"].run
               /\ outputs[t]["summary"].run = outputs[t]["metadata"].run =>
                    /\ outputs[t]["summary"].whole
                    /\ outputs[t]["summary"].rows = outputs[t]["metadata"].rows
    BY <1>1, <1>3 DEF Described
  <1>4. ASSUME pc = "done"
        PROVE  /\ \A f \in FileNames \ (IF cmd.kind = "prefix" THEN {"elementwise"} ELSE {}) :
                    outputs[cmd.tag][f] = Whole
               /\ KeysOf(rows) = AllKeys(cmd)
               /\ cmd.kind = "projection" => Cardinality(rows) = NumLayers * Cardinality(Projections)
    <2>1. /\ KeysOf(rows) = Keys(cmd, Compared) /\ prompt_pos = Len(cmd.prompts)
          /\ combo_pos = Len(Combos(cmd))
          /\ cmd.kind = "projection" => Cardinality(rows) = NumLayers * Cardinality(Projections)
      BY <1>4 DEF OInv, RowsOK, Writing
    <2>2. Compared = Rounds(cmd)
      <3>1. Compared = RoundsBefore(cmd, Len(cmd.prompts), Len(Combos(cmd)) + 1)
        BY <1>4, <2>1 DEF Compared, Looping
      <3> QED BY <1>1, <1>2, <3>1, LastRound
    <2>3. Keys(cmd, Rounds(cmd)) = AllKeys(cmd)
      BY <1>1, <1>2, AllRounds
    <2>4. todo = <<>>
      BY <1>4 DEF OInv, ClosedOK, Writing
    <2>5. \A f \in FileNames : (cmd.kind = "prefix" => f # "elementwise") => outputs[cmd.tag][f] = Whole
      BY <1>4, <2>4, LeftIs DEF OInv, ClosedOK, Writing
    <2> QED BY <2>1, <2>2, <2>3, <2>5
  <1>5. /\ Whole.whole /\ Whole.run = launches /\ Whole.rows = rows
        /\ "summary" \in FileNames \ {"elementwise"}
    BY DEF Whole, FileNames
  <1>6. ASSUME pc = "done" PROVE outputs[cmd.tag]["summary"].rows = rows
    BY <1>4, <1>5, <1>6
  <1> QED BY <1>3, <1>4, <1>5, <1>6 DEF OutputsAreWhole, KeysOf, AllKeys

(* Whatever was run before, interrupted or failed: metadata on disk        *)
(* describe tables that their run had completed, and a driver that ends    *)
(* without an error leaves whole tables of its own with a row for every    *)
(* prompt, policy and target layer of its command line, or for every layer *)
(* and projection (the loops and the writers of the drivers' main).        *)
THEOREM OutputsWhole ==
  ASSUME DriverAssumption, ProbesAssumption
  PROVE  Spec => []OutputsAreWhole
PROOF
  <1>1. Init => OInv
    BY InitFiles
  <1>2. OInv /\ [Next]_vars => OInv'
    <2> SUFFICES ASSUME OInv, [Next]_vars PROVE OInv'
      OBVIOUS
    <2>1. CASE Launch
      BY <2>1, LaunchFiles
    <2>2. CASE StartBaseline \/ StartPim
      <3>1. pc \in Looping /\ pc' \in Looping /\ UNCHANGED <<cmd, place, rows, outputs, launches>>
        BY <2>2 DEF StartBaseline, StartPim, StartForward, Looping, bounds
      <3> QED BY <3>1, ForwardFiles
    <2>3. CASE DecoderLayer \/ ForwardEnd
      <3>1. pc \in Looping /\ pc' \in Looping /\ UNCHANGED <<cmd, place, rows, outputs, launches>>
        BY <2>3 DEF DecoderLayer, ForwardEnd, Looping, bounds
      <3> QED BY <3>1, ForwardFiles
    <2>4. CASE Compare
      BY <2>4, CompareFiles
    <2>5. CASE WriteRows
      BY <2>5, WriteRowsFiles
    <2>6. CASE OpenFile
      BY <2>6, OpenFileFiles
    <2>7. CASE CloseFile
      BY <2>7, CloseFileFiles
    <2>8. CASE SimulationFails \/ Kill
      <3>1. pc' \in {"idle", "failed"} /\ UNCHANGED <<cmd, outputs, launches>>
        BY <2>8 DEF SimulationFails, Kill
      <3> QED BY <3>1, StopFiles
    <2>9. CASE UNCHANGED vars
      <3>1. UNCHANGED <<cmd, pc, place, rows, todo, outputs, launches>>
        BY <2>9 DEF vars, bounds
      <3> QED BY <3>1 DEF OInv, RowsOK, Compared, ClosedOK, Whole, FilesOK, Running, place
    <2> QED BY <2>1, <2>2, <2>3, <2>4, <2>5, <2>6, <2>7, <2>8, <2>9 DEF Next, Step
  <1>3. OInv => OutputsAreWhole
    BY DoneIsWhole
  <1> QED BY <1>1, <1>2, <1>3, PTL DEF Spec
=============================================================================
