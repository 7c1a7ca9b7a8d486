-------------------------- MODULE ForwardDivergence --------------------------
(***************************************************************************)
(* The four drivers that run a language model once on the GPU and again    *)
(* with projections replaced by the simulator, and write how far the two   *)
(* forwards are apart: run_llama32_propagation_experiment.py, and for a    *)
(* WikiText prompt run_wikitext_prefix_final_hidden.py (prefix),           *)
(* run_wikitext_full_pim_decoder_outputs.py (decoder) and                  *)
(* run_wikitext_full_pim_projection_outputs.py (projection).               *)
(*                                                                         *)
(* A tensor is what determines it: the prompt, the layers it has gone      *)
(* through, which of them were replaced, and whether the final norm was    *)
(* applied.  What a replaced projection computes is PimRunner's matter.    *)
(***************************************************************************)
EXTENDS Integers, Sequences, FiniteSets, SequencesExt

CONSTANTS NumLayers, Projections,
          Commands,              \* the command lines, records as in CommandType
          Tags,                  \* output names: model, prompt length, or given
          MaxLaunches, MaxKills, MaxFaults

Kinds == {"propagation", "prefix", "decoder", "projection"}
LayerIds == 0 .. NumLayers - 1
CommandType ==
  [kind : Kinds, prompts : Seq(Nat), policies : Seq({"single_layer", "prefix", "full"}),
   spec : {"all", "auto", "list"}, list : Seq(LayerIds), tag : Tags, metadata_dir : BOOLEAN]

DriverAssumption ==
  /\ NumLayers \in Nat \ {0} /\ Projections # {} /\ IsFiniteSet(Projections)
  /\ Commands \subseteq CommandType
  /\ \A c \in Commands :
       /\ c.prompts # <<>> /\ c.policies # <<>> /\ (c.spec = "list" => c.list # <<>>)
       /\ c.kind # "propagation" => Len(c.prompts) = 1
  /\ MaxLaunches \in Nat /\ MaxKills \in Nat /\ MaxFaults \in Nat

VARIABLES cmd, pc, prompt_pos, combo_pos,
          active_layers,   \* the runner's context
          forward,         \* the forward that is running
          hooks,           \* the stores whose capture hooks are registered
          baseline, pim_out,   \* the outputs of the two forwards
          captured,        \* store -> layer -> tensor
          rows,            \* the rows in memory
          todo,            \* the files still to be written
          outputs,         \* tag -> file -> what is on disk
          launches, kills, faults

place == <<prompt_pos, combo_pos>>
model == <<active_layers, forward, hooks, baseline, pim_out, captured>>
bounds == <<launches, kills, faults>>
vars == <<cmd, pc, place, model, rows, todo, outputs, bounds>>

---------------------------------------------------------------------------
(* What to run.                                                            *)

(* default_probe_layers: first, quarters, last.                            *)
default_probe_layers ==
  SetToSortSeq({0, NumLayers \div 4, NumLayers \div 2, (3 * NumLayers) \div 4, NumLayers - 1}, <)

(* What the sort gives are layers of the model (beyond the prover).        *)
ProbesAssumption == default_probe_layers \in Seq(LayerIds) /\ default_probe_layers # <<>>

parse_layer_spec(c) ==
  CASE c.spec = "all"  -> [i \in 1 .. NumLayers |-> i - 1]
    [] c.spec = "auto" -> default_probe_layers
    [] c.spec = "list" -> c.list

active_layers_for(policy, target_layer) ==
  CASE policy = "single_layer" -> {target_layer}
    [] policy = "prefix"       -> 0 .. target_layer
    [] policy = "full"         -> LayerIds

(* The policies and target layers, in the order of the loops; the drivers  *)
(* that capture outputs replace everything, once.                          *)
Captures(c) == c.kind \in {"decoder", "projection"}
Combos(c) ==
  LET layers == parse_layer_spec(c)
  IN  IF Captures(c) THEN << <<"full", NumLayers - 1>> >>
      ELSE [k \in 1 .. Len(c.policies) * Len(layers) |->
              <<c.policies[1 + ((k - 1) \div Len(layers))], layers[1 + ((k - 1) % Len(layers))]>>]
Combo == Combos(cmd)[combo_pos]
Prompt == cmd.prompts[prompt_pos]

---------------------------------------------------------------------------
(* Tensors and rows.                                                       *)

Tensor(prompt, n, replaced, normed) ==
  [prompt |-> prompt, layers |-> n, replaced |-> replaced \intersect (0 .. n - 1), normed |-> normed]

(* hidden_states[n] of a forward (external): the input of layer n, the     *)
(* last one being normed.                                                  *)
hidden_states(out, n) == Tensor(out.prompt, n, out.replaced, n = NumLayers)

Row(policy, target, tensor_name, part, gpu, pim) ==
  [prompt |-> Prompt, policy |-> policy, target |-> target, tensor |-> tensor_name,
   part |-> part, gpu |-> gpu, pim |-> pim]

(* What is compared after a forward with replaced projections.             *)
NewRows ==
  LET policy == Combo[1]
      t == Combo[2]
      Hidden(name, n) == Row(policy, t, name, <<>>, hidden_states(baseline, n), hidden_states(pim_out, n))
      Captured(l, part) ==
        Row(policy, t, "captured", <<l, part>>, captured["baseline"][l], captured["pim"][l])
  IN  CASE cmd.kind = "propagation" -> {Hidden("target_layer_input", t),
                                        Hidden("target_layer_output", t + 1),
                                        Hidden("final_hidden", NumLayers)}
        [] cmd.kind = "prefix"      -> {Hidden("final_hidden", NumLayers)}
        [] cmd.kind = "decoder"     -> {Captured(l, "layer") : l \in LayerIds}
        [] cmd.kind = "projection"  -> {Captured(l, p) : l \in LayerIds, p \in Projections}

(* Mutant: the rows are collected per forward. *)
Mut_Collected(new) == new

Collected(new) == rows \union new

---------------------------------------------------------------------------
(* Files.                                                                  *)

NoFile == [run |-> 0, whole |-> FALSE, rows |-> {}]
FileNames == {"elementwise", "summary", "metadata"}
Put(file, content) == outputs' = [outputs EXCEPT ![cmd.tag][file] = content]

(* What a driver writes when its forwards are done, in this order.  The    *)
(* propagation driver's elementwise file is open from the start, and the   *)
(* prefix driver's summary is there already.                               *)
files(kind) ==
  CASE kind = "propagation" -> <<"elementwise", "summary", "metadata">>
    [] kind = "projection"  -> <<"elementwise", "summary", "metadata">>
    [] kind = "decoder"     -> <<"summary", "elementwise", "metadata">>
    [] kind = "prefix"      -> <<"metadata">>

---------------------------------------------------------------------------
(* A run of a driver.                                                      *)

NoForward == [prompt |-> 0, layer |-> 0, replaced |-> {}]
NoCaptures == [s \in {"baseline", "pim"} |-> <<>>]

Init ==
  /\ cmd \in Commands /\ pc = "idle" /\ prompt_pos = 1 /\ combo_pos = 1
  /\ active_layers = {} /\ forward = NoForward /\ hooks = {}
  /\ baseline = NoForward /\ pim_out = NoForward /\ captured = NoCaptures
  /\ rows = {} /\ todo = <<>>
  /\ outputs = [t \in Tags |-> [f \in FileNames |-> NoFile]]
  /\ launches = 0 /\ kills = 0 /\ faults = 0

Running == pc \notin {"idle", "failed", "done"}

(* A driver is started, again or with another command line.                *)
Launch ==
  /\ ~Running /\ launches < MaxLaunches /\ launches' = launches + 1
  /\ cmd' \in Commands /\ pc' = "baseline" /\ prompt_pos' = 1 /\ combo_pos' = 1
  /\ active_layers' = {} /\ forward' = NoForward /\ hooks' = {}
  /\ baseline' = NoForward /\ pim_out' = NoForward /\ captured' = NoCaptures
  /\ rows' = {} /\ todo' = <<>>
  /\ outputs' = IF cmd'.kind = "propagation"
                THEN [outputs EXCEPT ![cmd'.tag]["elementwise"] = [NoFile EXCEPT !.run = launches']]
                ELSE outputs
  /\ UNCHANGED <<kills, faults>>

(* set_context("disabled", -1, set(), ...), hooks, and the forward begins. *)
StartForward(label, store, layers) ==
  /\ active_layers' = layers
  /\ hooks' = IF Captures(cmd) THEN {store} ELSE {}
  /\ forward' = [prompt |-> Prompt, layer |-> 0, replaced |-> {}]
  /\ pc' = label
  /\ UNCHANGED <<cmd, place, baseline, pim_out, captured, rows, todo, outputs, bounds>>

(* Mutant: the context of the last forward is left as it is. *)
MutBaseline == pc = "baseline" /\ StartForward("gpu", "baseline", active_layers)

StartBaseline == pc = "baseline" /\ StartForward("gpu", "baseline", {})
StartPim ==
  pc = "replace" /\ StartForward("pim", "pim", active_layers_for(Combo[1], Combo[2]))

(* A capture hook: captured[layer_idx] = output.                           *)
Capture(store, l, output) ==
  [k \in DOMAIN store \union {l} |-> IF k = l THEN output ELSE store[k]]

(* One decoder layer: every wrapped projection asks should_replace; then   *)
(* the hooks that are registered fire.                                     *)
DecoderLayer ==
  /\ pc \in {"gpu", "pim"} /\ forward.layer < NumLayers
  /\ LET l == forward.layer
         replaced == forward.replaced \union ({l} \intersect active_layers)
     IN  /\ forward' = [forward EXCEPT !.layer = l + 1, !.replaced = replaced]
         /\ captured' = [s \in DOMAIN captured |->
              IF s \in hooks THEN Capture(captured[s], l, Tensor(forward.prompt, l + 1, replaced, FALSE))
              ELSE captured[s]]
  /\ UNCHANGED <<cmd, pc, place, active_layers, hooks, baseline, pim_out, rows, todo, outputs, bounds>>

(* The simulator fails in a replaced layer: the hooks are removed and the  *)
(* driver ends.                                                            *)
SimulationFails ==
  /\ pc = "pim" /\ forward.layer < NumLayers /\ forward.layer \in active_layers
  /\ faults < MaxFaults /\ faults' = faults + 1
  /\ pc' = "failed" /\ hooks' = {}
  /\ UNCHANGED <<cmd, place, active_layers, forward, baseline, pim_out, captured, rows, todo,
                 outputs, launches, kills>>

(* The forward returns its outputs, and the hooks are removed.             *)
ForwardEnd ==
  /\ pc \in {"gpu", "pim"} /\ forward.layer = NumLayers
  /\ hooks' = {}
  /\ IF pc = "gpu" THEN baseline' = forward /\ pc' = "replace" /\ UNCHANGED pim_out
                   ELSE pim_out' = forward /\ pc' = "compare" /\ UNCHANGED baseline
  /\ UNCHANGED <<cmd, place, active_layers, forward, captured, rows, todo, outputs, bounds>>

(* Where the loops go on: the next target layer, the next prompt, or out.  *)
Following ==
  IF combo_pos < Len(Combos(cmd)) THEN <<"replace", prompt_pos, combo_pos + 1>>
  ELSE IF prompt_pos < Len(cmd.prompts) THEN <<"baseline", prompt_pos + 1, 1>>
  ELSE <<"write", prompt_pos, combo_pos>>

GoOn ==
  /\ pc' = Following[1] /\ prompt_pos' = Following[2] /\ combo_pos' = Following[3]
  /\ todo' = IF Following[1] = "write" THEN files(cmd.kind) ELSE <<>>

(* An output that was not captured is an error.                            *)
Missing == Captures(cmd) /\ \E s \in {"baseline", "pim"} : DOMAIN captured[s] # LayerIds

(* The rows of the forward are collected, or the driver fails.  The        *)
(* propagation driver flushes them to its elementwise file, the prefix     *)
(* driver opens its summary to write all of them anew.                     *)
Compare ==
  /\ pc = "compare" /\ rows' = IF Missing THEN rows ELSE Collected(NewRows)
  /\ IF Missing THEN pc' = "failed" /\ UNCHANGED <<place, todo, outputs>>
     ELSE IF cmd.kind = "prefix"
     THEN /\ Put("summary", [NoFile EXCEPT !.run = launches])
          /\ pc' = "rewrite" /\ UNCHANGED <<place, todo>>
     ELSE /\ IF cmd.kind = "propagation"
             THEN Put("elementwise", [run |-> launches, whole |-> FALSE,
                        rows |-> outputs[cmd.tag]["elementwise"].rows \union NewRows])
             ELSE UNCHANGED outputs
          /\ GoOn
  /\ UNCHANGED <<cmd, model, bounds>>

(* write_rows of the prefix driver, after every target layer.              *)
WriteRows ==
  /\ pc = "rewrite" /\ GoOn
  /\ Put("summary", [run |-> launches, whole |-> TRUE, rows |-> rows])
  /\ UNCHANGED <<cmd, model, rows, bounds>>

(* The files that are left: each is opened, which empties it, and filled.  *)
(* Only the projection and the propagation driver create the directory of  *)
(* their metadata.                                                         *)
NoDirectory ==
  Head(todo) = "metadata" /\ ~cmd.metadata_dir /\ cmd.kind \in {"decoder", "prefix"}

OpenFile ==
  /\ pc = "write" /\ pc' = IF NoDirectory THEN "failed" ELSE "fill"
  /\ IF NoDirectory \/ (cmd.kind = "propagation" /\ Head(todo) = "elementwise")
     THEN UNCHANGED outputs ELSE Put(Head(todo), [NoFile EXCEPT !.run = launches])
  /\ UNCHANGED <<cmd, place, model, rows, todo, bounds>>

CloseFile ==
  /\ pc = "fill" /\ todo' = Tail(todo)
  /\ LET f == Head(todo)
         written == IF cmd.kind = "propagation" /\ f = "elementwise"
                    THEN outputs[cmd.tag][f].rows ELSE rows
     IN  Put(f, [run |-> launches, whole |-> TRUE, rows |-> written])
  /\ pc' = IF todo' = <<>> THEN "done" ELSE "write"
  /\ UNCHANGED <<cmd, place, model, rows, bounds>>

(* The driver is interrupted; files that are open stay cut.                *)
Kill ==
  /\ Running /\ kills < MaxKills /\ kills' = kills + 1 /\ pc' = "idle" /\ hooks' = {}
  /\ UNCHANGED <<cmd, place, active_layers, forward, baseline, pim_out, captured, rows, todo,
                 outputs, launches, faults>>

Step == \/ StartBaseline \/ StartPim \/ DecoderLayer \/ ForwardEnd
        \/ Compare \/ WriteRows \/ OpenFile \/ CloseFile

Next == Launch \/ Step \/ SimulationFails \/ Kill

(* The process runs, and the experimenter starts it until it is done.      *)
Spec == Init /\ [][Next]_vars /\ WF_vars(Step) /\ WF_vars(Launch)

---------------------------------------------------------------------------
(* Properties.                                                             *)

(* Every row compares the same tensor of the same prompt, on one side of a *)
(* forward in which nothing was replaced, on the other of one in which     *)
(* just the layers of the row's policy were: so what it shows is the       *)
(* effect of the policy, whatever ran before in the same process.          *)
DeltasIsolatePolicy ==
  \A row \in rows :
    LET n == row.gpu.layers
    IN  /\ row.gpu = Tensor(row.prompt, n, {}, row.gpu.normed)
        /\ row.pim = Tensor(row.prompt, n, active_layers_for(row.policy, row.target), row.gpu.normed)

(* Metadata on disk describes tables that its run had already completed; a *)
(* later run may have replaced them since.  A driver that ends without an  *)
(* error leaves whole tables of its own, one row per prompt, policy and    *)
(* target layer, or per layer and projection.                              *)
OutputsAreWhole ==
  /\ \A t \in Tags : LET o == outputs[t]
                     IN  o["metadata"].whole =>
                           /\ o["summary"].run >= o["metadata"].run
                           /\ o["summary"].run = o["metadata"].run =>
                                o["summary"].whole /\ o["summary"].rows = o["metadata"].rows
  /\ pc = "done" =>
       LET o == outputs[cmd.tag]
           keys == {<<row.prompt, row.policy, row.target>> : row \in o["summary"].rows}
       IN  /\ \A f \in FileNames \ (IF cmd.kind = "prefix" THEN {"elementwise"} ELSE {}) :
                o[f].whole /\ o[f].run = launches /\ o[f].rows = o["summary"].rows
           /\ keys = {<<p, c[1], c[2]>> : p \in ToSet(cmd.prompts), c \in ToSet(Combos(cmd))}
           /\ cmd.kind = "projection" =>
                Cardinality(o["summary"].rows) = NumLayers * Cardinality(Projections)

(* A driver ends with an error only if the simulator failed, or at its     *)
(* metadata, when their directory does not exist and it is not one of the  *)
(* drivers that create it: no output of a forward is ever missing, and     *)
(* every other file can be written.                                        *)
CannotWrite == todo # <<>> /\ NoDirectory
FailsOnlyOnFaults == pc = "failed" => faults > 0 \/ CannotWrite

(* The driver's last run ended without an error.                           *)
Completed == pc = "done"
=============================================================================
