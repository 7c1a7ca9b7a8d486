------------------------------ MODULE PimRunner ------------------------------
(***************************************************************************)
(* PIMRunner of run_llama32_propagation_experiment.py: the matrix-vector   *)
(* products of a wrapped projection, one per token of the prompt, each run *)
(* in the simulator or taken from the cache of an earlier run.  Files are  *)
(* shared by the workers of a process and survive it.                      *)
(*                                                                         *)
(* A value is "right" or "wrong" for its activation; a file that a program *)
(* opens for writing is incomplete until that program closes it.           *)
(***************************************************************************)
EXTENDS Integers, Sequences, FiniteSets

CONSTANTS Workers, Activations, R,  \* R: output elements of a projection
          Setups,      \* the runners to consider, records as in SetupType
          MaxForwards, \* forwards of one process over the same prompt
          MaxKills,    \* bound on interrupted processes
          MaxFaults    \* bound on simulations that fail by themselves

(* Where an interruption can cut the row of a cache file.                  *)
Tails == {"none", "index", "0x", "digits", "value"}
Nobody == "nobody"

SetupType == [batch_tokens : BOOLEAN, parallel_workers : SUBSET Workers,
              batch_token_chunk_size : Nat, resume : BOOLEAN, keep_artifacts : BOOLEAN,
              prompt : Seq(Activations)]

RunnerAssumption ==
  /\ R \in Nat \ {0} /\ Setups \subseteq SetupType
  /\ Nobody \notin Workers
  /\ MaxForwards \in Nat \ {0} /\ MaxKills \in Nat /\ MaxFaults \in Nat

VARIABLES setup, phase, forward,
          tasks,    \* the sets of tokens still to be handed to a worker
          worker,   \* worker -> [pc, task, bits, left]
          failed,   \* a worker raised
          outputs,  \* token -> "none", "right", "wrong"
          aimd, csv,  \* directory -> file of a simulation
          cache,    \* activation -> pim_output_bf16.csv
          had,      \* activations with a complete cache at the forward's start
          gemv_calls, cache_hits, runs, computed,
          kills, faults

stats == <<gemv_calls, cache_hits, runs, computed>>
vars == <<setup, phase, forward, tasks, worker, failed, outputs, aimd, csv, cache, had,
          stats, kills, faults>>

Tokens == DOMAIN setup.prompt
IsBatch == setup.batch_tokens /\ Len(setup.prompt) > 1
Parallel == setup.parallel_workers
Idle == [pc |-> "idle", task |-> {}, bits |-> "none", left |-> {}]
AllIdle == \A w \in Workers : worker[w] = Idle


---------------------------------------------------------------------------
(* Files.                                                                  *)

(* A file: who opened it last, if not closed since, and what it holds.     *)
NoFile == [exists |-> FALSE, by |-> Nobody, value |-> "none"]
OpenFile(f, w) == [exists |-> TRUE, by |-> w, value |-> "none"]

(* A program that closes a file it opened last leaves it whole; if another *)
(* one truncated it since, or it was unlinked, that stays as it is.        *)
CloseFile(f, w, v) == IF f.exists /\ f.by = w THEN [f EXCEPT !.by = Nobody, !.value = v] ELSE f
Whole(f) == f.exists /\ f.by = Nobody

(* The rows of a cache file that are complete, and where the next is cut.  *)
CacheFile(n, t, v) == [rows |-> n, tail |-> t, value |-> v, by |-> Nobody]
NoCache == CacheFile(0, "absent", "none")
CutFiles(v) ==
  {CacheFile(n, "none", v) : n \in 0 .. R}
    \union {CacheFile(n, t, v) : n \in 0 .. R - 1, t \in Tails}

(* What a reader may find: of a file that is being written, any prefix.    *)
Contents(a) ==
  IF cache[a].by = Nobody THEN {cache[a]} ELSE CutFiles(cache[a].value)

Complete(a) == cache[a].by = Nobody /\ cache[a].rows = R

(* _case_dir_for: named by model, layer, projection, shape and activation, *)
(* so tokens with equal activations share it.                              *)
case_dir_for(n) == setup.prompt[n]

(* Workers of single products that have a case directory in common.        *)
SharedCases ==
  /\ ~IsBatch /\ \E v, w \in Parallel : v # w
  /\ \E m, n \in Tokens : m # n /\ case_dir_for(m) = case_dir_for(n)

(* Mutant: the directory's name leaves out the activation. *)
Mut_DirOf(task) == case_dir_for(1)

(* The directory a task simulates in; a batch's is named by its tokens.    *)
DirOf(task) == IF IsBatch THEN task ELSE case_dir_for(CHOOSE n \in task : TRUE)

Dirs == Activations \union {task \in SUBSET Tokens : task # {}}

(* Mutant: a cached file of any length is taken. *)
Mut_cached(f) ==
  IF ~setup.resume \/ f.tail = "absent" THEN "miss"
  ELSE IF f.tail \in {"index", "0x"} THEN "raise"
  ELSE IF f.rows = 0 /\ f.tail = "none" THEN "miss"
  ELSE IF f.tail = "digits" \/ f.rows < R THEN "wrong" ELSE f.value

(* Mutant: the header is counted as a row. *)
Mut_cached_header(f) ==
  IF ~setup.resume \/ f.tail = "absent" THEN "miss"
  ELSE IF f.tail \in {"index", "0x"} THEN "raise"
  ELSE IF f.rows + (IF f.tail = "none" THEN 0 ELSE 1) # R + 1 THEN "miss"
  ELSE f.value

(* _read_cached_bits of what is in the file.  A row without its value      *)
(* column cannot be converted, a value cut after "0x" neither; cut later   *)
(* it is another number; a file of another length is ignored.              *)
read_cached_bits(f) ==
  IF ~setup.resume \/ f.tail = "absent" THEN "miss"
  ELSE IF f.tail \in {"index", "0x"} THEN "raise"
  ELSE IF f.rows + (IF f.tail = "none" THEN 0 ELSE 1) # R THEN "miss"
  ELSE IF f.tail = "digits" THEN "wrong" ELSE f.value

(* What a cut leaves that the next runner takes for a whole file, with     *)
(* another number in its last row, and what it raises on.                  *)
Misread(a) == cache[a].by = Nobody /\ cache[a].tail = "digits" /\ cache[a].rows + 1 = R
Unreadable(a) == cache[a].by = Nobody /\ cache[a].tail \in {"index", "0x"}

---------------------------------------------------------------------------
(* A forward.                                                              *)

Init ==
  /\ setup \in Setups /\ phase = "ready" /\ forward = 0
  /\ tasks = <<>> /\ worker = [w \in Workers |-> Idle] /\ failed = FALSE
  /\ outputs = [n \in Tokens |-> "none"] /\ had = {}
  /\ gemv_calls = 0 /\ cache_hits = 0 /\ runs = 0 /\ computed = 0
  /\ aimd = [d \in Dirs |-> NoFile] /\ csv = [d \in Dirs |-> NoFile]
  /\ cache = [a \in Activations |-> NoCache]
  /\ kills = 0 /\ faults = 0

(* _batch_chunks: the missing tokens in order, batch_token_chunk_size at a *)
(* time; 0 is no limit.                                                    *)
batch_chunks(missing) ==
  LET rank(n) == Cardinality({m \in missing : m < n})
      count == Cardinality(missing)
      size == IF setup.batch_token_chunk_size = 0 THEN count ELSE setup.batch_token_chunk_size
  IN  [k \in 1 .. (count + size - 1) \div size |-> {n \in missing : rank(n) \div size = k - 1}]

(* The forward of a wrapped projection with more than one token in batch   *)
(* mode: run_gemv_batch first looks every token up in the cache.           *)
BeginBatch ==
  /\ phase = "ready" /\ IsBatch
  /\ \E found \in [Tokens -> {"miss", "raise", "right", "wrong"}] :
       /\ \A n \in Tokens : \E f \in Contents(case_dir_for(n)) : found[n] = read_cached_bits(f)
       /\ gemv_calls' = gemv_calls + Len(setup.prompt)
       /\ LET hits == {n \in Tokens : found[n] \in {"right", "wrong"}}
              missing == {n \in Tokens : found[n] = "miss"}
          IN  /\ failed' = (hits \union missing # Tokens)
              /\ cache_hits' = cache_hits + Cardinality(hits)
              /\ outputs' = [n \in Tokens |-> IF n \in hits THEN found[n] ELSE "none"]
              /\ tasks' = IF failed' \/ missing = {} THEN <<>> ELSE batch_chunks(missing)
  /\ phase' = "pool" /\ had' = {a \in Activations : Complete(a)}
  /\ UNCHANGED <<setup, forward, worker, aimd, csv, cache, runs, computed, kills, faults>>

(* Otherwise one run_gemv per token, by one thread or a pool of them.      *)
BeginSingle ==
  /\ phase = "ready" /\ ~IsBatch
  /\ phase' = "pool" /\ had' = {a \in Activations : Complete(a)}
  /\ tasks' = [n \in Tokens |-> {n}]
  /\ outputs' = [n \in Tokens |-> "none"]
  /\ UNCHANGED <<setup, forward, worker, failed, aimd, csv, cache, stats, kills, faults>>

(* A free worker takes the next task; run_gemv looks in the cache first.   *)
(* One thread stops at the first exception, a pool may go on for a while.  *)
PickTask(w) ==
  LET task == Head(tasks)
      work == [pc |-> "open_aimd", task |-> task, bits |-> "none", left |-> task]
  IN  /\ phase = "pool" /\ tasks # <<>> /\ w \in Parallel /\ worker[w] = Idle
      /\ failed => Cardinality(Parallel) > 1
      /\ tasks' = Tail(tasks)
      /\ IF IsBatch
         THEN /\ worker' = [worker EXCEPT ![w] = work]
              /\ UNCHANGED <<failed, outputs, gemv_calls, cache_hits>>
         ELSE /\ gemv_calls' = gemv_calls + 1
              /\ \E n \in task : \E f \in Contents(case_dir_for(n)) :
                   LET found == read_cached_bits(f)
                   IN  \/ /\ found = "miss"
                          /\ worker' = [worker EXCEPT ![w] = work]
                          /\ UNCHANGED <<failed, outputs, cache_hits>>
                       \/ /\ found = "raise" /\ failed' = TRUE
                          /\ UNCHANGED <<worker, outputs, cache_hits>>
                       \/ /\ found \in {"right", "wrong"}
                          /\ outputs' = [outputs EXCEPT ![n] = found]
                          /\ cache_hits' = cache_hits + 1
                          /\ UNCHANGED <<worker, failed>>
      /\ UNCHANGED <<setup, phase, forward, aimd, csv, cache, had, runs, computed, kills, faults>>

At(w, pc) == phase = "pool" /\ worker[w].pc = pc
Goto(w, pc) == worker' = [worker EXCEPT ![w].pc = pc]
Raise(w) == worker' = [worker EXCEPT ![w] = Idle] /\ failed' = TRUE
FileVars == <<aimd, csv, cache>>
Rest == <<setup, phase, forward, tasks, outputs, had, gemv_calls, cache_hits, kills>>

(* The memory image is written in place.                                   *)
open_aimd(w) ==
  LET d == DirOf(worker[w].task)
  IN  /\ At(w, "open_aimd") /\ Goto(w, "close_aimd")
      /\ aimd' = [aimd EXCEPT ![d] = OpenFile(@, w)]
      /\ UNCHANGED <<Rest, failed, csv, cache, runs, computed, faults>>

close_aimd(w) ==
  LET d == DirOf(worker[w].task)
  IN  /\ At(w, "close_aimd") /\ Goto(w, "load")
      /\ aimd' = [aimd EXCEPT ![d] = CloseFile(@, w, "right")]
      /\ UNCHANGED <<Rest, failed, csv, cache, runs, computed, faults>>

(* The simulator truncates its result files and loads the image: without   *)
(* one it fails; one that ends early fails, or is loaded without the GPRs  *)
(* at its end, whether it needs them or not (GemvTrace, load_from_file).   *)
load(w) ==
  LET d == DirOf(worker[w].task)
  IN  /\ At(w, "load")
      /\ csv' = [csv EXCEPT ![d] = OpenFile(@, w)]
      /\ \E v \in IF Whole(aimd[d]) THEN {aimd[d].value}
                  ELSE IF aimd[d].exists THEN {"fail", "wrong", "right"} ELSE {"fail"} :
           worker' = [worker EXCEPT ![w].pc = "simulate", ![w].bits = v]
      /\ UNCHANGED <<Rest, failed, aimd, cache, runs, computed, faults>>

(* The simulation ends and is counted; a failed one raises.                *)
simulate(w) ==
  LET d == DirOf(worker[w].task)
  IN  /\ At(w, "simulate") /\ runs' = runs + 1
      /\ \/ /\ worker[w].bits # "fail" /\ Goto(w, "parse")
            /\ csv' = [csv EXCEPT ![d] = CloseFile(@, w, worker[w].bits)]
            /\ UNCHANGED <<failed, faults>>
         \/ /\ worker[w].bits = "fail" /\ Raise(w) /\ UNCHANGED <<csv, faults>>
         \/ /\ worker[w].bits # "fail" /\ faults < MaxFaults
            /\ faults' = faults + 1 /\ Raise(w) /\ UNCHANGED csv
      /\ UNCHANGED <<Rest, aimd, cache, computed>>

(* The parser raises when results are missing (GemvTrace, Parse).          *)
parse(w) ==
  LET d == DirOf(worker[w].task)
  IN  /\ At(w, "parse")
      /\ \/ /\ ~Whole(csv[d]) /\ Raise(w)
         \/ /\ Whole(csv[d]) /\ UNCHANGED failed
            /\ worker' = [worker EXCEPT ![w].pc = "open_cache", ![w].bits = csv[d].value]
      /\ UNCHANGED <<Rest, FileVars, runs, computed, faults>>

NextToken(w) == CHOOSE n \in worker[w].left : \A k \in worker[w].left : n <= k

(* _write_output_cache, token by token, in place.                          *)
open_cache(w) ==
  LET a == case_dir_for(NextToken(w))
  IN  /\ At(w, "open_cache") /\ Goto(w, "close_cache")
      /\ cache' = [cache EXCEPT ![a] = [CacheFile(0, "none", worker[w].bits) EXCEPT !.by = w]]
      /\ UNCHANGED <<Rest, failed, aimd, csv, runs, computed, faults>>

close_cache(w) ==
  LET n == NextToken(w)
      a == case_dir_for(n)
  IN  /\ At(w, "close_cache")
      /\ cache' = [cache EXCEPT ![a] =
                     IF @.by = w THEN CacheFile(R, "none", worker[w].bits) ELSE @]
      /\ computed' = computed + 1
      /\ worker' = [worker EXCEPT ![w].left = @ \ {n},
                                  ![w].pc = IF worker[w].left = {n} THEN "unlink" ELSE "open_cache"]
      /\ UNCHANGED <<Rest, failed, aimd, csv, runs, faults>>

(* The artifacts are removed and the task's outputs handed back.           *)
unlink(w) ==
  LET d == DirOf(worker[w].task)
      gone == IF setup.keep_artifacts THEN {} ELSE {d}
  IN  /\ At(w, "unlink")
      /\ aimd' = [x \in Dirs |-> IF x \in gone THEN NoFile ELSE aimd[x]]
      /\ csv' = [x \in Dirs |-> IF x \in gone THEN NoFile ELSE csv[x]]
      /\ outputs' = [n \in Tokens |-> IF n \in worker[w].task THEN worker[w].bits ELSE outputs[n]]
      /\ worker' = [worker EXCEPT ![w] = Idle]
      /\ UNCHANGED <<setup, phase, forward, tasks, failed, cache, had, stats, kills, faults>>

(* All tasks are done: the wrapped projection returns.                     *)
EndForward ==
  /\ phase = "pool" /\ tasks = <<>> /\ AllIdle /\ ~failed
  /\ forward' = forward + 1
  /\ phase' = IF forward + 1 = MaxForwards THEN "finished" ELSE "ready"
  /\ UNCHANGED <<setup, tasks, worker, failed, outputs, FileVars, had, stats, kills, faults>>

(* An exception ends the experiment once the running workers are done.     *)
Exit ==
  /\ phase = "pool" /\ failed /\ AllIdle /\ phase' = "exited"
  /\ UNCHANGED <<setup, forward, tasks, worker, failed, outputs, FileVars, had, stats, kills, faults>>

(* The process is interrupted; an open cache file is left cut somewhere,   *)
(* an open image or result file stays incomplete.  The simulators end with *)
(* it, as on an interrupt from the terminal, which reaches all of them.    *)
Kill ==
  /\ phase \in {"ready", "pool"} /\ kills < MaxKills /\ kills' = kills + 1
  /\ phase' = "exited"
  /\ \E left \in [Activations -> UNION {CutFiles(v) : v \in {"right", "wrong", "none"}} \union {NoCache}] :
       /\ \A a \in Activations : left[a] \in IF cache[a].by = Nobody THEN {cache[a]}
                                              ELSE CutFiles(cache[a].value)
       /\ cache' = left
  /\ worker' = [w \in Workers |-> Idle]
  /\ UNCHANGED <<setup, forward, tasks, failed, outputs, aimd, csv, had, stats, faults>>

(* The experiment is started again with the same cache directory.          *)
Restart ==
  /\ phase = "exited" /\ phase' = "ready"
  /\ UNCHANGED <<setup, FileVars, kills, faults>>
  /\ tasks' = <<>> /\ worker' = [w \in Workers |-> Idle] /\ failed' = FALSE
  /\ outputs' = [n \in Tokens |-> "none"] /\ had' = {} /\ forward' = 0
  /\ gemv_calls' = 0 /\ cache_hits' = 0 /\ runs' = 0 /\ computed' = 0

Finished == phase = "finished" /\ UNCHANGED vars

Work(w) ==
  \/ PickTask(w) \/ open_aimd(w) \/ close_aimd(w) \/ load(w) \/ simulate(w)
  \/ parse(w) \/ open_cache(w) \/ close_cache(w) \/ unlink(w)

Next ==
  \/ BeginBatch \/ BeginSingle \/ EndForward \/ Exit \/ Restart \/ Kill \/ Finished
  \/ \E w \in Workers : Work(w)

(* Workers are threads that run until their task is done; the experiment   *)
(* is repeated until it succeeds.  Nothing has to be interrupted.          *)
Spec ==
  /\ Init /\ [][Next]_vars
  /\ WF_vars(BeginBatch \/ BeginSingle \/ EndForward \/ Exit \/ Restart)
  /\ \A w \in Workers : WF_vars(Work(w))

---------------------------------------------------------------------------
(* Properties.                                                             *)

(* A forward that returns has for every token the product of its own       *)
(* activation, computed or from the cache, also after interruptions,       *)
(* failures and restarts.  Two things the code does not stand are told     *)
(* apart from all others: with resume, a cache file that an interruption   *)
(* cut within the digits of its last row is served as it is; and workers   *)
(* with a common case directory may take each other's files half written.  *)
(* In every case each call is counted once, as a hit or as computed, and   *)
(* without batches every computed one took a run.                          *)
ServedRight ==
  [][EndForward =>
       /\ ~SharedCases => \A n \in Tokens :
            outputs[n] = "right" \/ (setup.resume /\ Misread(case_dir_for(n)))
       /\ gemv_calls = forward' * Len(setup.prompt)
       /\ gemv_calls = cache_hits + computed
       /\ ~IsBatch => runs = computed]_vars

(* No worker raises, whatever the others do and whatever interruptions     *)
(* left, unless a simulation failed by itself; but for workers with a      *)
(* common case directory, and, with resume, a cache file that is cut       *)
(* before a row's value.                                                   *)
BlockedByCache == setup.resume /\ \E n \in Tokens : Unreadable(case_dir_for(n))
WorkersDoNotFail == failed => faults > 0 \/ SharedCases \/ BlockedByCache

(* The runs handed to parallel workers are independent (the help of        *)
(* --pim-workers): without interruptions and failed simulations none of    *)
(* them raises.                                                            *)
JobsAreIndependent == failed => kills > 0 \/ faults > 0

(* With resume, a simulation is run only if the cache lacked one of its    *)
(* tokens when the forward began.                                          *)
OnlyMissingRun ==
  [][\A w \in Workers : simulate(w) /\ setup.resume =>
       \E n \in worker[w].task : case_dir_for(n) \notin had]_vars

(* The experiment completed.                                               *)
Completed == phase = "finished"
=============================================================================
