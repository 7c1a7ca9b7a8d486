--------------------------- MODULE MCExperiments ---------------------------
(***************************************************************************)
(* The programs of an experiment for TLC, those that are interrupted and   *)
(* started again: the downloader, the PIM runner, the drivers around it,   *)
(* and the stage 5 to 7 pipeline with the consolidation of its files.  In  *)
(* these models they share no state, so a behaviour follows one of them,   *)
(* the others rest where they began: program says which.  Interruptions    *)
(* and faults are bounded alike.                                           *)
(***************************************************************************)
EXTENDS ForwardDivergence

CONSTANTS Files, BASE_FILES, TokenizerFiles, Shards, MODEL_REQUIRED_FILES, IndexFile,
          Tensors, WeightMap, Candidates, Layers, MaxRuns, MaxEarly,
          Workers, Activations, R, Setups, MaxForwards,
          OutputRows, Ulp, StageCommands,
          A1, A2, w1, w2

VARIABLES program,
          file_place, part, run, client, served, only_needed_used, closed_early, nruns,
          setup, phase, gemv, tasks, worker, failed, products, aimd, csv, cache, had,
          gemv_calls, cache_hits, runs, computed,
          stage_cmd, stage_pc, chunk, run_dirs, refs, stage_launches

Download == INSTANCE HfDownload WITH place <- file_place
Runner == INSTANCE PimRunner WITH forward <- gemv, outputs <- products
Pipeline == INSTANCE StagePipeline WITH R <- OutputRows, Commands <- StageCommands,
              cmd <- stage_cmd, pc <- stage_pc, runs <- run_dirs, launches <- stage_launches

ASSUME Assumptions ==
  /\ Download!DownloadAssumption /\ Runner!RunnerAssumption
  /\ DriverAssumption /\ ProbesAssumption /\ Pipeline!StageAssumption

ASSUME Campaign == Download!NamesAssumption /\ Pipeline!CampaignAssumption

---------------------------------------------------------------------------
(* The model's files: two layers, layer 1's projections in different       *)
(* shards; layer 2 does not exist.                                         *)
T(l, s) == [layer |-> l, suffix |-> s]
MCFiles == <<"config.json", "model-1.safetensors", "model-2.safetensors",
             "model.safetensors.index.json", "tokenizer.json", "tokenizer_config.json">>
MCTensors == <<T(0, "o_proj"), T(0, "q_proj"), T(1, "o_proj"), T(1, "q_proj")>>
MCWeightMap == [t \in {T(0, "o_proj"), T(0, "q_proj"), T(1, "o_proj"), T(1, "q_proj")} |->
                  IF t = T(1, "q_proj") THEN "model-2.safetensors" ELSE "model-1.safetensors"]
MCCandidates == [g \in {"q/o", "o"} |-> IF g = "o" THEN <<"o_proj">> ELSE <<"q_proj", "o_proj">>]

Setup(batch, ws, size, resume, keep, prompt) ==
  [batch_tokens |-> batch, parallel_workers |-> ws, batch_token_chunk_size |-> size,
   resume |-> resume, keep_artifacts |-> keep, prompt |-> prompt]

(* Equal activations one after the other, in parallel, and in batches, in  *)
(* one chunk and in several; different ones in parallel.                   *)
MCSetups ==
  {Setup(FALSE, {w1}, 0, TRUE, k, <<A1, A2, A1>>) : k \in BOOLEAN}
    \union {Setup(FALSE, {w1}, 0, FALSE, FALSE, <<A1, A1>>)}
    \union {Setup(FALSE, {w1, w2}, 0, r, k, <<A1, A2>>) : r \in BOOLEAN, k \in BOOLEAN}
    \union {Setup(FALSE, {w1, w2}, 0, TRUE, FALSE, <<A1, A1>>)}
    \union {Setup(TRUE, {w1, w2}, c, TRUE, FALSE, <<A1, A2, A1>>) : c \in {0, 1, 2}}
    \union {Setup(TRUE, {w1}, 2, r, TRUE, <<A1, A2, A1>>) : r \in BOOLEAN}
    \union {Setup(TRUE, {w1}, 0, TRUE, FALSE, <<A2>>)}

(* Equal activations in parallel alone. *)
MCSharedSetups == {Setup(FALSE, {w1, w2}, 0, FALSE, FALSE, <<A1, A1>>)}

Command(kind, prompts, policies, spec, list, tag, dir) ==
  [kind |-> kind, prompts |-> prompts, policies |-> policies, spec |-> spec,
   list |-> list, tag |-> tag, metadata_dir |-> dir]

(* Two prompts and two policies one after the other; probe layers; a layer *)
(* asked for twice; the same output name for two drivers' runs; metadata   *)
(* for a directory that is missing, of drivers that create it or do not.   *)
MCCommands ==
  {Command("propagation", <<1, 2>>, <<"prefix", "single_layer">>, "list", <<1, 0>>, "a", TRUE),
   Command("propagation", <<1>>, <<"full">>, "auto", <<>>, "a", TRUE),
   Command("propagation", <<2>>, <<"prefix">>, "list", <<1, 1>>, "a", FALSE),
   Command("prefix", <<1>>, <<"prefix">>, "all", <<>>, "b", TRUE),
   Command("prefix", <<1>>, <<"prefix">>, "list", <<0>>, "b", FALSE),
   Command("decoder", <<1>>, <<"full">>, "all", <<>>, "c", TRUE),
   Command("decoder", <<1>>, <<"full">>, "all", <<>>, "c", FALSE),
   Command("projection", <<1>>, <<"full">>, "all", <<>>, "c", TRUE),
   Command("projection", <<2>>, <<"full">>, "all", <<>>, "d", FALSE)}

StageCommand(layout, source, force) ==
  [chunk_rows |-> 2, layout |-> layout, source |-> source, prompt |-> "p",
   force5 |-> force, force_mode1 |-> force, force_reference |-> force]

MCUlp == [i \in 0 .. OutputRows - 1 |-> IF i = 1 THEN 0 ELSE 3 - i]

(* Both layouts and activations, and the prompt's again from the start.    *)
MCStageCommands ==
  {StageCommand(l, "random_bf16", FALSE) : l \in {"broadcast", "row_sharded"}}
    \union {StageCommand("row_sharded", "prompt_hash_bf16", f) : f \in BOOLEAN}

---------------------------------------------------------------------------
(* A behaviour of one of the programs.                                     *)

ExperimentsInit ==
  /\ program \in {"download", "runner", "driver", "pipeline"}
  /\ Download!Init /\ Runner!Init /\ Init /\ Pipeline!Init
  /\ program # "runner" => setup = CHOOSE s \in Setups : TRUE
  /\ program # "driver" => cmd = CHOOSE c \in Commands : TRUE
  /\ program # "pipeline" => stage_cmd = CHOOSE c \in StageCommands : TRUE

download == <<file_place, part, run, client, served, only_needed_used, closed_early, nruns>>
runner == <<setup, phase, gemv, tasks, worker, failed, products, aimd, csv, cache, had,
            gemv_calls, cache_hits, runs, computed>>
driver == <<cmd, pc, prompt_pos, combo_pos, active_layers, forward, hooks, baseline, pim_out,
            captured, rows, todo, outputs, launches>>
pipeline == <<stage_cmd, stage_pc, chunk, run_dirs, refs, stage_launches>>
experiments == <<program, download, runner, driver, pipeline, kills, faults>>

RunDownload == program = "download" /\ UNCHANGED <<program, runner, driver, pipeline, kills, faults>>
RunRunner == program = "runner" /\ UNCHANGED <<program, download, driver, pipeline>>
RunDriver == program = "driver" /\ UNCHANGED <<program, download, runner, pipeline>>
RunPipeline == program = "pipeline" /\ UNCHANGED <<program, download, runner, driver>>

ExperimentsNext ==
  \/ RunDownload /\ Download!Next
  \/ RunRunner /\ Runner!Next
  \/ RunDriver /\ Next
  \/ RunPipeline /\ Pipeline!Next

(* The fairness of each program, while it is the one that is followed: its *)
(* process, its worker threads, and who starts it again.  The downloader   *)
(* has none.                                                               *)
Process ==
  \/ RunRunner /\ (\/ Runner!BeginBatch \/ Runner!BeginSingle \/ Runner!EndForward
                   \/ Runner!Exit \/ Runner!Restart)
  \/ RunDriver /\ Step
  \/ RunPipeline /\ Pipeline!Step
WorkerThread(w) == RunRunner /\ Runner!Work(w)
Experimenter == (RunDriver /\ Launch) \/ (RunPipeline /\ Pipeline!Launch)

ExperimentsSpec ==
  /\ ExperimentsInit /\ [][ExperimentsNext]_experiments
  /\ WF_experiments(Process) /\ \A w \in Workers : WF_experiments(WorkerThread(w))
  /\ WF_experiments(Experimenter)

---------------------------------------------------------------------------
(* The properties of the programs, stated and explained in their modules;  *)
(* those of the drivers (DeltasIsolatePolicy, OutputsAreWhole) as they are.*)

(* What load_projection reads is the tensor it asks for.                   *)
LoadsTheTensor == program = "download" => Download!LoadsTheTensor

(* Every forward gets right products for all tokens, but for a cache file  *)
(* cut within a number and workers with a common case directory, and       *)
(* counts them.                                                            *)
ServedRight == Runner!ServedRight

(* With resume only missing cases are simulated.                           *)
OnlyMissingRun == Runner!OnlyMissingRun

(* Neither a worker nor a driver fails unless a simulation did, a cache    *)
(* file is cut before a value, workers have a case directory in common or  *)
(* the metadata no directory.                                              *)
OnlyFaultsFail == Runner!WorkersDoNotFail /\ FailsOnlyOnFaults

(* Parallel workers of a projection are independent of each other.         *)
JobsAreIndependent == Runner!JobsAreIndependent

(* Sums over the chunks of a projection are those of its rows.             *)
AggregateIsTheWhole == program = "pipeline" => Pipeline!AggregateIsTheWhole

(* A projection passes on runs of both modes that reported and ended.      *)
PassIsEarned == program = "pipeline" => Pipeline!PassIsEarned

(* The program that was started completes at last, however often it is     *)
(* interrupted or fails and has to be started again, unless what makes it  *)
(* fail every time is there to stay: the excuses of OnlyFaultsFail.        *)
Completes ==
  <>(\/ program = "download"
     \/ program = "runner" /\ (Runner!Completed \/ Runner!SharedCases \/ Runner!BlockedByCache)
     \/ program = "driver" /\ (Completed \/ CannotWrite)
     \/ program = "pipeline" /\ Pipeline!Completed)
=============================================================================
