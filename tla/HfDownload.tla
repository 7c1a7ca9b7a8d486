----------------------------- MODULE HfDownload -----------------------------
(***************************************************************************)
(* Getting a model's weights: download_hf_weights.py puts files into a     *)
(* directory, ensure_model_available of the propagation experiment decides *)
(* whether they are all there, and load_projection of                      *)
(* run_hf_weight_projection.py picks the tensor of a projection from       *)
(* whatever is there.  Downloads fail, are cut short and are interrupted.  *)
(***************************************************************************)
EXTENDS Integers, Sequences, FiniteSets, SequencesExt, FiniteSetsExt

CONSTANTS Files,       \* the repository's files, a sequence sorted by name
          BASE_FILES, TokenizerFiles, Shards, MODEL_REQUIRED_FILES, IndexFile,
          Tensors,     \* the tensors [layer, suffix], sorted by name
          WeightMap,   \* tensor -> shard: the index file's content
          Candidates,  \* PROJECTION_CANDIDATES: group -> sequence of suffixes
          Layers,      \* the layers asked for
          MaxRuns,     \* bound on started downloads
          MaxEarly     \* bound on connections closed early

FileSet == ToSet(Files)
TensorSet == ToSet(Tensors)

DownloadAssumption ==
  /\ Files \in Seq(FileSet) /\ Tensors \in Seq(TensorSet)
  /\ BASE_FILES \subseteq FileSet /\ TokenizerFiles \subseteq FileSet
  /\ Shards \subseteq FileSet /\ MODEL_REQUIRED_FILES \subseteq FileSet
  /\ IndexFile \in BASE_FILES
  /\ WeightMap \in [TensorSet -> Shards]
  /\ \A g \in DOMAIN Candidates : DOMAIN Candidates[g] \subseteq Nat
  /\ MaxRuns \in Nat /\ MaxEarly \in Nat

(* The names: a file that model_files_ready requires, tokenizer.json,      *)
(* comes behind the shards, model-....safetensors.                         *)
NamesAssumption ==
  \E r \in MODEL_REQUIRED_FILES :
    \A i, j \in DOMAIN Files : Files[i] = r /\ Files[j] \in Shards => j < i

VARIABLES place,     \* file -> "absent", "whole", "short" (a cut download)
          part,      \* files with a .part beside them
          run,       \* the running downloader, or Idle
          client,    \* ensure_model_available: "none", "downloading", "returned", "error"
          served,    \* the tensors of completed --only-needed-shards runs
          only_needed_used, closed_early, nruns

vars == <<place, part, run, client, served, only_needed_used, closed_early, nruns>>

Idle == [stage |-> "idle"]
Present == {f \in FileSet : place[f] # "absent"}

---------------------------------------------------------------------------
(* What to download.                                                       *)

(* The files of a set, sorted by name.                                     *)
Listed(S) ==
  LET at == {i \in DOMAIN Files : Files[i] \in S}
      Before(i) == Cardinality({j \in at : j < i})
  IN  [k \in 1 .. Cardinality(at) |-> Files[CHOOSE i \in at : Before(i) = k - 1]]

(* Mutant: the selected files stay in the order the server lists them.     *)
Mut_selected(include_tokenizer, include_safetensors) ==
  Listed(BASE_FILES \union (IF include_tokenizer THEN TokenizerFiles ELSE {}))
    \o Listed(IF include_safetensors THEN Shards ELSE {})

(* selected_files: in the order of their names.                            *)
selected_files(include_tokenizer, include_safetensors) ==
  Listed(BASE_FILES \union (IF include_tokenizer THEN TokenizerFiles ELSE {})
                    \union (IF include_safetensors THEN Shards ELSE {}))

(* The first of the candidates that the layer has, or else the first that  *)
(* any layer has, the least by name; from the tensors of a set.            *)
ChooseTensor(tensors, group, layer) ==
  LET suffixes == Candidates[group]
      OfLayer(s) == {t \in tensors : t.suffix = s /\ t.layer = layer}
      OfAny(s) == {t \in tensors : t.suffix = s}
      exact == {i \in DOMAIN suffixes : OfLayer(suffixes[i]) # {}}
      fallback == {i \in DOMAIN suffixes : OfAny(suffixes[i]) # {}}
      First(S) == Tensors[Min({i \in DOMAIN Tensors : Tensors[i] \in S})]
  IN  IF exact # {} THEN {First(OfLayer(suffixes[Min(exact)]))}
      ELSE IF fallback # {} THEN {First(OfAny(suffixes[Min(fallback)]))}
      ELSE {}

(* choose_tensor_from_index, over the whole index; none is a KeyError.     *)
choose_tensor_from_index(group, layer) == ChooseTensor(TensorSet, group, layer)

(* tensor_index: the tensors whose shard is there; without an index those  *)
(* of the shards that are.                                                 *)
tensor_index == {t \in TensorSet : WeightMap[t] \in Present}

(* choose_tensor of load_projection, over the tensors that are there.      *)
choose_tensor(group, layer) == ChooseTensor(tensor_index, group, layer)

(* The shard that a projection needs; without an index all of them.        *)
files_for_projection(group, layer) ==
  IF IndexFile \in Present
  THEN {WeightMap[t] : t \in choose_tensor_from_index(group, layer)}
  ELSE Shards

---------------------------------------------------------------------------
(* The downloader.                                                         *)

Requests ==
  [include_tokenizer : BOOLEAN, force : BOOLEAN, only_needed : {FALSE}, group : {"any"}, layer : {0}]
    \union [include_tokenizer : BOOLEAN, force : BOOLEAN, only_needed : {TRUE},
            group : DOMAIN Candidates, layer : Layers]

Init ==
  /\ place = [f \in FileSet |-> "absent"] /\ part = {} /\ run = Idle /\ client = "none"
  /\ served = {} /\ only_needed_used = FALSE /\ closed_early = {} /\ nruns = 0

(* The list of files is fetched; only the base files come first when only  *)
(* the needed shards are wanted.                                           *)
Started(req) ==
  [stage |-> IF req.only_needed THEN "base" ELSE "files", req |-> req, open |-> FALSE,
   queue |-> IF req.only_needed THEN Listed(BASE_FILES) ELSE selected_files(req.include_tokenizer, TRUE)]

Start(req) ==
  /\ run = Idle /\ client # "downloading" /\ nruns < MaxRuns /\ nruns' = nruns + 1
  /\ run' = Started(req)
  /\ only_needed_used' = (only_needed_used \/ req.only_needed)
  /\ UNCHANGED <<place, part, client, served, closed_early>>

(* A downloader ends with an error; ensure_model_available raises.         *)
Fails ==
  /\ run' = Idle
  /\ client' = IF client = "downloading" THEN "error" ELSE client

(* The base files are there: the shards of the projection are chosen and   *)
(* all files are gone through, those that are there being skipped.  When   *)
(* no tensor fits the group the script ends with a KeyError.               *)
ChooseShards ==
  /\ run.stage = "base" /\ run.queue = <<>>
  /\ LET req == run.req
         needed == files_for_projection(req.group, req.layer)
         listed == selected_files(req.include_tokenizer, FALSE)
     IN  IF needed = {} THEN Fails
         ELSE /\ run' = [run EXCEPT !.stage = "files",
                                    !.queue = listed \o Listed(needed)]
              /\ UNCHANGED client
  /\ UNCHANGED <<place, part, served, only_needed_used, closed_early, nruns>>

Working == run.stage \in {"base", "files"} /\ run.queue # <<>>
File == Head(run.queue)

(* download_file: a file that is there and not empty is not fetched again. *)
SkipExisting ==
  /\ Working /\ ~run.open /\ File \in Present /\ ~run.req.force
  /\ run' = [run EXCEPT !.queue = Tail(@)]
  /\ UNCHANGED <<place, part, client, served, only_needed_used, closed_early, nruns>>

OpenPart ==
  /\ Working /\ ~run.open /\ (File \notin Present \/ run.req.force)
  /\ run' = [run EXCEPT !.open = TRUE]
  /\ part' = part \union {File}
  /\ UNCHANGED <<place, client, served, only_needed_used, closed_early, nruns>>

(* The connection ends and the .part replaces the file; how much was read  *)
(* is not compared with what was announced.                                *)
ReplaceDest ==
  /\ Working /\ run.open
  /\ run' = [run EXCEPT !.open = FALSE, !.queue = Tail(@)]
  /\ part' = part \ {File}
  /\ \/ place' = [place EXCEPT ![File] = "whole"] /\ UNCHANGED closed_early
     \/ /\ Cardinality(closed_early) < MaxEarly
        /\ place' = [place EXCEPT ![File] = "short"]
        /\ closed_early' = closed_early \union {File}
  /\ UNCHANGED <<client, served, only_needed_used, nruns>>

(* An HTTP error, before anything is read, removes the .part; a timeout or *)
(* a lost connection leaves it.                                            *)
DownloadError ==
  /\ Working /\ run.open /\ Fails
  /\ part' \in {part, part \ {File}}
  /\ UNCHANGED <<place, served, only_needed_used, closed_early, nruns>>

(* The download or the experiment waiting for it is interrupted.           *)
Kill ==
  /\ run # Idle /\ run' = Idle
  /\ client' = IF client = "downloading" THEN "none" ELSE client
  /\ UNCHANGED <<place, part, served, only_needed_used, closed_early, nruns>>

(* model_files_ready: the required files and any shard.                    *)
model_files_ready == MODEL_REQUIRED_FILES \subseteq Present /\ Shards \intersect Present # {}

(* The end of the file list.                                               *)
Done ==
  /\ run.stage = "files" /\ run.queue = <<>> /\ run' = Idle
  /\ served' = IF run.req.only_needed
               THEN served \union {[group |-> run.req.group, layer |-> run.req.layer, tensor |-> t] :
                                     t \in choose_tensor_from_index(run.req.group, run.req.layer)}
               ELSE served
  /\ client' = IF client # "downloading" THEN client
               ELSE IF model_files_ready THEN "returned" ELSE "error"
  /\ UNCHANGED <<place, part, only_needed_used, closed_early, nruns>>

(* ensure_model_available: offline, or without a token, it only looks;     *)
(* otherwise it runs the downloader for all weights and the tokenizer.     *)
ensure_model_available(may_download) ==
  /\ run = Idle /\ nruns < MaxRuns
  /\ IF model_files_ready THEN client' = "returned" /\ UNCHANGED <<run, nruns>>
     ELSE IF ~may_download THEN client' = "error" /\ UNCHANGED <<run, nruns>>
     ELSE /\ client' = "downloading" /\ nruns' = nruns + 1
          /\ run' = Started([include_tokenizer |-> TRUE, force |-> FALSE, only_needed |-> FALSE,
                             group |-> "any", layer |-> 0])
  /\ UNCHANGED <<place, part, served, only_needed_used, closed_early>>

Next ==
  \/ \E req \in Requests : Start(req)
  \/ \E may_download \in BOOLEAN : ensure_model_available(may_download)
  \/ ChooseShards \/ SkipExisting \/ OpenPart \/ ReplaceDest \/ DownloadError
  \/ Kill \/ Done

Spec == Init /\ [][Next]_vars

---------------------------------------------------------------------------
(* Properties.                                                             *)

(* What load_projection reads is the projection's tensor, from a file that *)
(* is complete unless the server closed its connection early.  After a run *)
(* for the shards of one projection it is the tensor that run selected,    *)
(* whatever else is there; and though model_files_ready looks for any one  *)
(* shard, a directory that it accepts has all of them if only complete     *)
(* downloads were ever started: the files it requires come last by name.   *)
LoadsTheTensor ==
  /\ \A f \in FileSet : place[f] = "short" => f \in closed_early
  /\ \A s \in served : choose_tensor(s.group, s.layer) = {s.tensor}
  /\ model_files_ready /\ ~only_needed_used => \A t \in TensorSet : WeightMap[t] \in Present
=============================================================================
