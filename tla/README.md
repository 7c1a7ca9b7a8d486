# AiM-CoSim in TLA+

AiM-CoSim couples a Ramulator-based timing simulator of GDDR6-AiM (DRAM with a
MAC unit per bank) with a Verilator simulation of the processing unit's RTL.
These modules model its core (the RTL unit's control pipeline, the engine that
clocks it, the scoreboard that gates commands on RTL latency, the functional
dispatcher with its memory, the memory controller) and the scripts that turn the
simulator into experiments: layouts and traces, the cached and threaded PIM
runner, downloads, forward comparisons, the staged campaign, consolidation and
the figures' metrics. TLC checks them on small instances. TLAPS proves, for
every value of the constants, the main safety results about engine, scoreboard,
dispatcher, controller, layout, runner, forward comparisons, the campaign's verdict and
the figures' metrics, and the two refinements.

## The system

| part | state | operations | interacts with |
|---|---|---|---|
| RTL unit `pim_mac_tree_mag32.v`, `adder_tree.v`, `accumulator_param.v`, `activation_unit.v` | pipeline valid bits, accumulator lanes and toggle, result registers, activation counter, `o_done` | one clock edge | driven pin by pin by the engine |
| `VerilatorEngine`, `AiMComputeEngine` | `prev_done_`, `pending_mac16_count_`, start spacing, last MAC16 result | `execute_mac/mac16/af/ewmul`, `enqueue_mac16`, `flush_mac16_pipeline`, `reset` | called by the dispatcher; clocks the RTL |
| `AiMComputeScoreboard` | a ready clock and an epoch per result slot | `note_ready`, `gate_status` | asked and told by the controller |
| `AiMMemoryManager` | lazily allocated bank rows, global buffer, GPRs, biases, MAC and AF results, open rows | reads and writes, `open_row`, `close_row` | used by the dispatcher and the data loader |
| `FunctionalDispatcher` | the MAC16 staging weights | one handler per DRAM/AiM command | called by the controller for each issued command; calls memory, engine and logger |
| `AiMRTL` controller | five request buffers, two pending queues, register mode, write mode, statistics | `send`, `priority_send`, `tick` | frontend, refresh manager, DRAM, scheduler, dispatcher |
| `ResultLogger` | buffered result rows, one file per channel | log, flush at the limit, at the end, on abort | told by the dispatcher, read by the parsers |
| `DivergenceTracker` | pending producer rows | record, finalize | backend |
| `AiMDataLoader` | none of its own | `load` | fills the memory before the run |
| HBM-PIM scaffold | CRF, registers, program counter, loop counter | micro-program steps | controller, through the architecture backend |
| `run_hf_weight_projection.py`, `generate_matmul_trace.py`, `extract_matmul_results.py` | image, trace and log of a run directory | write image and trace, parse results | files read and written by the simulator |
| `PIMRunner` | case directories with images, logs and cached outputs; counters under a lock; a thread pool | one product, a batch in chunks, resume | called by the wrapped projections of a model |
| `download_hf_weights.py`, `ensure_model_available` | a model directory with `.part` files | list, download, rename, ready check, tensor lookup | HTTP server, all drivers |
| forward drivers (four `run_*.py`) | context of the runner, hooks, captures, rows, output files | GPU forward, replaced forward, compare, write | the model, `PIMRunner` |
| `run_summer26_hf_stage5_7.py`, `benchmark_hf_weight_reference.py` | run directories, reference files | simulate, Mode 1, reference, skip, force | starts the other programs |
| `consolidate_summer26_results.py` | none | read all directories, write tables and a status | the campaign's files |
| `generate_summer26_llm_figures.py` | supplemental measurement files | measure or reuse, validate coverage, draw | the consolidated tables |

The simulator is single-threaded. What is hard in it is the overlap of
operations over time: deferred MAC16s share the RTL pipeline and are told apart
by edges of one `o_done` wire; results live in the engine until a later command
flushes them; the controller interleaves requests, refreshes, mode switches and
the gate cycle by cycle. In the scripts it is what stays on disk: they are
killed, fail and are started again, skip what they find, and the runner's threads
share files. Each part is correct when:

- engine and RTL: every call takes effect once, in order, and returns its own
  result and latency; the pending count is what is really in the pipeline;
- scoreboard: no unit is used while it still works, no result is read before it
  is finished;
- dispatcher and memory: deferral is invisible, a command changes only what it
  addresses;
- controller: no request is lost or doubled, barriers hold, the gate is not
  bypassed, everything is served;
- image, trace, log and parser: every token gets each of its outputs, computed
  from its own weight row and activation;
- runner: what it serves is right, what is cached whole is not run again, workers
  do not disturb each other, and a resumed experiment completes;
- download: a placed file is whole, a directory that is accepted is complete;
- drivers: a delta shows the effect of its policy and of nothing else, metadata
  describes finished tables;
- campaign and consolidation: no row is counted twice, an aggregate is the whole,
  a PASS is earned, and being started again leads to the end;
- figures: the distance is a metric on the values, a PASS was measured.

`hazards` in `PROJECT.json` lists what can go wrong, line by line.

## Modules

`PimMacTree` is the RTL unit as a function: `Clock(d, p)` is the register state
after one edge from registers `d` with pins `p`, one operator per clocked block.
Numbers are abstracted to their origin: a MAC transaction is an id, an
accumulator is the set of ids summed in it (`-id` is the bias that came with
`id`), a lane of a result word also names the datapath that computed it. Whether
a contribution is summed once, in the right chain and in the right lane can
still be told; rounding cannot.

`ComputeEngine` is the abstract specification of `IComputeEngine`: a call, a
drain of what was deferred, an effect, a return.

`VerilatorEngine` EXTENDS `PimMacTree`: one action per clock tick of a call or
per piece of code between two ticks, with the names of the C++ members. It is
shown to implement `ComputeEngine` by a refinement mapping that applies what the
pipeline still holds to the accumulators (`ChainOf`). `LossyOps` names the
operations that the contract lets fail; it is empty except for `ewmul` in one run.
`VerilatorEngineProofs` has the proofs of the invariants and of the refinement.

`AiMComputeScoreboard` is the scoreboard as a value. `ComputeGating` puts it in
the issue loop, with history variables (`mac_end`, `af_end`, `ewmul_end`) for
when the RTL really finishes. `ComputeGatingProofs` has its proofs.

`AiMMemoryManager` is the functional memory; `FunctionalDispatcher` EXTENDS it
with one action per handler, over an engine that keeps `ComputeEngine`'s
promises (the engine is synchronous here: `queued`, `pending`, `last_word`).
`DeferredMac16` states that the deferring dispatcher implements the eager one;
`DeferredMac16Proofs` proves it. The arithmetic (`MacStep`, `Activate`, `EwMul`)
and the data are constants: any values will do.

`AiMController` EXTENDS the scoreboard with the controller. `send` and
`priority_send` are actions; `tick` is split by what it ends in: nothing to issue
(`TickStall`), an EOC or SYNC (`TickBarrier`), a command (`TickIssue`), the
exception of the gate (`TickThrows`); each includes serving completed requests
and the write-mode update. Clocks are kept relative to `m_clk`. DRAM, scheduler,
refresh manager and `ReqBuffer` are outside the repository and modelled from
their use: a bank has an open row, and a command is ready when the cycles that
earlier commands impose on its class have passed. `AiMControllerProofs` has its proofs.

`RowShardLayout` is the arithmetic that places output rows in channels, banks
and row groups, written out in the image writer, the trace writer and the
parsers. `GemvTrace` EXTENDS it with
a whole run: the files are written (a trace is the set of its lines, each with its place in
the nested loops that print it; a channel's program is its lines in that order), each channel loads its image
(`load_from_file`) and executes its lines with the results logged through a
bounded buffer (`Log`), and the parsers put the outputs together. Data is
symbolic: a sum is the record of what was added. The handlers are those of
`FunctionalDispatcher` in the order of a generated trace, without deferral
(`DeferredMac16` shows it does not matter). Only a batch run has more than one token (`GemvAssumption`; other multi-batch runs are a TODO
of `run_matmul_regression.sh:7`). `GemvTraceProofs` proves that the layout's
parts fit and that the run's output is the reference.

`PimRunner` is the cache and the thread pool: one action per file operation of a
worker, so that workers, a kill and the next run meet between any two of them. A
cached file is a value and how it was cut (`Tails`). `HfDownload` is the
downloader, the ready check and the tensor lookup over one directory.

`Consolidate` is a pure function from run directories to tables;
`StagePipeline` EXTENDS it with the driver that fills the directories (open and
close of each file are steps), so its properties say what would be published at
any moment. `FigureCoverage` is the figures' supplemental cache over tables that
change, `Bf16Ulp` the metric and its tables; `FiguresProofs` has the proofs of both.
`ForwardDivergence` has the loops of the four drivers, with a tensor named by what
determines it: prompt, layers passed, layers replaced; `ForwardDivergenceProofs` has its
proofs. `ExperimentsProofs` has those about `PimRunner`, `StagePipeline`, `HfDownload` and what the
programs of `MCExperiments` have in common; it proves about the instances, with all
constants left open.

`MC*` modules give the constants their values. `MCExperiments` holds the four
programs that are interrupted and started again (it extends `ForwardDivergence` and
instantiates `HfDownload`, `PimRunner` and `StagePipeline`), `MCFigures` the two halves of the figure
script (`FigureCoverage`, `Bf16Ulp`): the models share no state, so a variable
(`program`, `part`) chosen at the start says which of them a behaviour follows, and the
others rest in one initial state. A property there is that of its module. Operators named `Mut...` are
plausible mistakes in the definition they precede; `PROJECT.json` says which
property must notice each.

## Runs

| run | instance | shows |
|---|---|---|
| `engine_macs` | 2 lanes, 4 calls, any of MAC, MAC16, deferred MAC16, flush, AF, reset | the pending count is exact between calls; controls travel with operands; nothing is summed twice; the reported latency is 4 (MAC) or 6 (AF) cycles; every call sees its done and returns; the engine implements the interface |
| `engine_all` | with EWMUL and an override of 5 cycles | a failed product disturbs nothing else: the engine still implements the interface |
| `engine_ewmul` | MAC and EWMUL, 3 calls | *violation*: a product after another operation misses its edge |
| `compute_gating` | 2 banks, 2 groups, RTL latencies 0, 1 and 3, 5 clock cycles | the slots describe the units (`IInv`), units never overlap, reads see finished results |
| `gating_af` | same | *violation*: AF16 does not wait for the MAC16 it reads |
| `deferred_mac16` | 3 banks, 2 tile columns, rows filled at random, 5 commands | deferral is invisible; a command changes one tile, beside what a row is filled with |
| `controller` | 2 banks, 2 rows, buffers of 2, 4 requests, RTL latency 0 or 4 | no request lost, barriers, gate, service |
| `row_locality` | 2 requests | *violation*: a stalled request is counted again |
| `gemv_trace` | 2 channels of 2 banks, up to 9 rows (17 dense), 1 to 3 tiles and tokens, log buffer of 3 | outputs are the reference, an image cut in its weights yields none, complete logs parse, both parsers agree |
| `experiments`, downloader | 2 shards, 2 layers and a missing one, 2 downloads, 1 early close | a placed file is whole unless its connection was closed, ready means complete, a layer gets its own tensor (`LoadsTheTensor`) |
| `experiments`, runner | 2 workers, 2 forwards, prompts of 1 to 3 tokens, equal activations in parallel too, 1 kill, 1 fault, cache files cut anywhere | right totals and, with two excuses, outputs (`ServedRight`), nothing run twice (`OnlyMissingRun`), a worker fails by faults, unreadable cache files and shared directories only (`OnlyFaultsFail`), without those it completes (`Completes`) |
| `experiments`, drivers | 3 layers, 2 projections, 9 command lines, 3 launches, 1 kill, 1 fault | deltas isolate the policy, files are whole and metadata comes last (`OutputsAreWhole`), only faults fail, it completes |
| `experiments`, stages | 3 rows in chunks of 2, both layouts and activations, 3 launches, 1 kill, 1 fault | sums are those of the rows, each once (`AggregateIsTheWhole`), PASS is earned, it completes |
| `shared_cases` | 2 workers, equal activations, no kill, no fault | *violation*: one worker raises on the other's files |
| `figures`, coverage | 3 runs of 2 cases, 2 versions, 2 launches, tables cut between and within rows | PASS stands on rows with results, on all of them if the table was written to its end, and with `--force` on the current tables (`PassIsMeasured`) |
| `figures`, metric | 4-bit format, 9 results against 8 references | the distance is a metric, both implementations agree |

Bounds. The MAC pipeline is four cycles deep and starts are two cycles apart, so
two MAC16s overlap and four calls reach every overlap of three operations and
the reset or drain between them. `MaxWait` = 7 exceeds the longest wait (6), so
a timeout in the model is a missed edge, not a short bound. Latency 3 against 5
cycles leaves room for two overlapping producers and a consumer. Five commands
are open, write or load, MAC16, a second compute command, and a read. The
controller's buffers of two fill up, cross both watermarks and force the row
conflicts of a bank; the active buffer has one entry more than there are banks,
as in the code it has many more. `StatCap` is 0 where the statistics do not
matter and only saturates the counters. In `AiMController` a slot's epoch is
kept as produced or not produced, which is all that the gate looks at.

For the scripts: outputs fill a row group, leave a channel without a second
group, and leave a bank without an output (4, 5 and 7 rows on four banks); three
tiles exceed registers and a short row, and a log buffer of 3 flushes in the middle
of a group. Two workers and three tokens give equal activations in one chunk and in
two; the second forward finds the first one's cache. Cache files are cut at every
place that `_read_cached_bits` tells apart, parallel workers may have equal
activations, and metadata may be meant for a directory that does not exist. The code
does not stand some of these cases (disagreements 6 to 8, 14 and 15); the properties say which
states they excuse, each by a definition of its own, and hold in all others:
`Misread` (a cached number cut in its digits), `Unreadable` (a cached row cut before its
number), `SharedCases` (parallel workers with one case directory), `CannotWrite` (no
metadata directory). `Kill` ends the simulators with the runner, as an interrupt from
the terminal does; a simulator orphaned by a SIGKILL of its parent alone, which would go on
writing its result files, is not modelled. Two assumptions on the world are named: that
`tokenizer.json` comes behind
the shards by name (`NamesAssumption` of `HfDownload`), which `MCExperiments` evaluates for its
constants and which the theorems that need them name. The commands of one stage campaign have
the same chunk size and prompt (`CampaignAssumption` of `StagePipeline`, evaluated there too):
the code checks neither, an edited prompt finds the old directories (disagreement 10), and with
another chunk size the consolidation would add up overlapping ranges. Three rows in
chunks of two make a whole and a shorter last chunk; launches are one more than
kills and faults together, so liveness is not lost for want of a launch. Four bits
hold two zeros, subnormals, infinity and NaN of both signs.

Fairness. `VerilatorEngine`: weak fairness of the step in progress, because a
call is a C++ function that runs to its end. `AiMController`: weak fairness of
`tick`, because the memory system ticks the controller in every cycle; nothing is
assumed of the frontend. In `experiments`: weak fairness of the process's own steps
and of each worker, because the operating system runs processes and threads, and of
starting the program again, because the experimenter repeats it until it succeeds;
kills and faults are never fair, and the downloader has no fairness and no liveness.
The other specifications have none and only safety is claimed. `AllServed` holds for DRAM timings in which a row stays open at least as
long as it takes to reach its columns (nRCD < nRAS), as in the GDDR6
parameters: with others an active request could lose its row and then block its
own precharge (step 3 of `schedule_request`). Runs switch deadlock checking off
because calls, commands and requests are bounded and the program stops when its
trace ends.

## Disagreements found

1, 2, 4 and 6 are shown by the runs that end in a violation. The others were met
while modelling and are read off the code. 3, 7, 8, 13, 14 and 15 are reachable in the models,
where the properties excuse what the code does (`Misread`, `Unreadable`, `CannotWrite`) or
are stated about the other cases; 10 is left out by an assumption.

1. `execute_ewmul` compares `o_done` with the level that the previous operation
   left (the start tick is not observed). An element-wise product completes in two cycles,
   so after any completed operation its edge is missed and the call times out.
2. README.md says execution is synchronized to the RTL latency; AF16 resolves to
   its own slot only and overtakes the MAC16 it reads, with gating on too.
3. With a random seed, a row reads as zeros until its first write, which turns
   its other tiles random (`memory_manager.cpp:128`), against the comments on lazy
   allocation. `OneTilePerCommand` therefore
   compares with the fill where a command allocates the row.
4. The row statistics are described as numbers of requests but count the cycles
   in which an AiM request is looked at before its first command.
5. A matmul trace repeats the activation of the first row of A for all rows
   (`generate_matmul_trace.py:38`).
6. Workers with equal activations share a case directory
   (`run_llama32_propagation_experiment.py:579`) and fail on each other's files, although
   README.md and the help of `--pim-workers` call their runs independent.
7. A cache file cut in its last digits is served with a wrong value (`:543`), and
8. one cut before a value makes every resume raise (`:543`).
9. A failed Mode 1 leaves the files that make the next launch skip it
   (`run_summer26_hf_stage5_7.py:266`).
10. Run directories are named without the prompt (`:211`): another prompt finds the
    old results.
11. The status of stage 5 counts rows after the broadcast ones were dropped
    (`consolidate_summer26_results.py:832`), so PARTIAL is never reported.
12. The range of +/-1 ULP adds to codes, not to values
    (`generate_summer26_llm_figures.py:230`).
13. The supplemental cache is not compared with the tables it measured (`:442`).
14. Two drivers do not create the directory of `--metadata-output`
    (`run_wikitext_full_pim_decoder_outputs.py:345`).
15. A supplemental table that an interruption cut between two chunks of a projection is reused
    as if it were complete (`generate_summer26_llm_figures.py:442`), and the figures pass
    without the missing chunk.

## Proofs

`ComputeGatingProofs`, from the assumption that banks, groups and latencies are
natural numbers: `TypeCorrect`; `InductiveInvariant` (`Spec => []IInv`);
`MacIsolation`, `ReadsAreFinal` and `UnitIsolation`, action properties that follow
from it.
`IInv` is needed because the action properties speak of when units really
finish, while the gate only sees slots: `SharedSlotCoversBanks` relates the two
for MACs (the shared slot is booked at least as long as any bank works),
`SlotsCoverUnits` for activations and products, and says that a slot's two
clocks are one, `EpochMatchesClock` excludes a consumer that passes on a slot
never booked. `note_ready` only raises ready clocks, which keeps all three.

`DeferredMac16Proofs`, without any assumption on the data: `QueuedNewest`,
`ActivationNewest`, `CommandsChangeOneTile` for any fill, and `DeferredIsEager`, the
refinement. The inductive invariant `QInv` says that only a
deferring dispatcher has anything pending and that what is pending is the newest
MAC16; without it AF16, which reads the engine's last
word, and the flush, which stores the queued one, could differ. The refinement
has one lemma per handler and takes the result registers as what a flush would
leave in them.

`GemvTraceProofs`, from the assumption that there is at least one channel
and one bank. Of the layout: the parser's index of an output is the inverse of its place
(`ParserFindsTheRow`), no two outputs share a place (`PlaceHasOneRow`), image and
trace mean the same row (`RowIsWhereItRuns`), the image reserves the rows that the
trace activates (`ActiveRows`), a mask reaches its channel
(`MaskReachesItsChannel`), and a batch's activations lie behind the weights
(`VectorRowsBehindWeights`). They rest on uniqueness of quotient and
remainder (`DivModUnique`). `gemv_trace` checks the same layout inside a run; the
theorems are why its two channels and banks are enough for the real 32 and 16.
Of the log: the two parsers cut that of a complete run into the same results
(`ParsersCutAlike`), for any job, image, trace and limit of the log's buffer, although
one looks at the banks and the other at the cycles. The invariant behind it
(`LogInvariant`) is about file and buffer together, because the flush cuts anywhere: a row's
whole block is there, rows of one cycle are one block, and cycles never fall
(`Blocks`). Then the bank of a command's next row does not increase exactly where the cycle
changes. It needs every result command to log all banks in order with its own cycle,
which `Packets` takes from the dispatcher.
Of the whole run, for any job, image, trace, channels, banks and buffer limit: the parsed
vectors are the reference product (`ParsedVectorsRight`), and a complete run parses
(`CompleteLogsParse`). Both speak of the end of a run only, so the invariant has to say what
a channel has computed at every point of its program. `ProgramShape` cuts the
program into one block of commands per result: the lines of a channel are listed by their
places, so the i-th line is the one with i - 1 lines before it, and a result's number is
token times results per token plus row group. `RunInv` then says, of the command the channel is at
(`Computed`), which weights are in its memory, whose activation is in the global buffer or still
to be copied, what the accumulators and the activation registers hold since the block began,
and that the log has exactly the values of the blocks that are behind (`LogOf`). It is
inductive together with the invariant of the log, one lemma per command (`AfterMac`, `AfterAf`,
...). `EventFound` takes a block of the log to the entry that the parser finds for it, and
each layout's parser to the place of its rows (`BroadcastRight`, `RowShardedRight`,
`BatchRight`, `MatmulRight`). A missing GPR section leaves the bias zero or the tile behind
the activation, which is zero too, so only the activation itself can be lost with it; the property
is about whole files for that reason.

`FiguresProofs`, for any width and position of the infinity: the ordered integer
orders codes as their values (`OrderedAsValues`), so the distance counts the
representable steps, and one more when exactly one code is negative
(`DistanceCountsSteps`), obeys the triangle inequality and
agrees with the array version. `IInv` says that every row of the tables
carries the distances of its own codes; it is inductive where `DistanceIsMetric`,
which compares columns of a row, is not. `TypeCorrect`, `TablesAreMetric` and
`TablesAgree` follow; the last one needs that a maximum exists, which is proved of
finite sets of numbers. `PassMeasured` is about the other half, for any runs, cases and
campaigns: by `FInv` rows in memory and on disk were measured on all elements of
their run if they are ok (`MeasuredOK`), forced ones are of the tables as they are
(`ForcedOK`), and a verdict stands on rows that are all ok (`VerdictOK`); tables written to
their end have a row for every run that was published then.

`VerilatorEngineProofs`, for any lanes, calls and override, and loops of at least five ticks
(`WaitAssumption`; the code's are bounded by 10000): `EngineInvariant`, `TypeCorrect`,
`PendingExact`, `ControlsInStep`, `SummedOnce`; `LatencyReported` and `DoneIsSeen` for
operations without `ewmul`; and the refinement, `EngineRefinesContract`, where `ewmul`
may occur if it is one of `LossyOps`. Disagreement 1 is why these hypotheses are needed.
`IInv` says where every transaction is at every tick. Outside `wait_for_done`
only deferred MAC16s are in the unit, each counted as pending up to the tick that shows
its done, and completions are a tick apart (`DeferredOK`): that is what makes counting
edges of one wire exact. It holds because of how old the deferred ones
are when the code looks at its spacing counter (`SpacingOK`), and because a blocking call
drains first and then has the unit for itself (`WaitOK`). `ValuesOK` orders ids along
the pipeline (a stage is newer than what the accumulator holds), from which no id is
summed twice. The refinement needs `RInv` in addition: a finished sum is that of both
lanes, and a result word that is read is that of the selected unit. Its mapping applies
what is in the stages to the accumulator (`ChainOf`); there is one simulation
lemma per action.

`AiMControllerProofs`, for any banks, rows, request shapes, timings and latencies, from
`ControllerAssumption` and `RequestAssumption` (a translation's final command fits the
type of its request): `StateInvariant` and `TypeCorrect`; `Exclusive`, `OneActive`,
`GateNeverSkipped`, `NothingLost` and `BarrierHolds`. `StateOK` says what kinds of
requests a buffer may hold, which the type invariant does not tell and each other proof
needs. One active request per bank holds although the code never looks for another one
of the bank: an opened row makes the active request's next command the better
candidate. `NothingLost` is proved as three facts (`PlacesOK`): no place holds a request
twice, no two places share one, and together they are all that was accepted; the
model's property counts instead. For the barrier, AiM requests are in order in
their buffer and those in flight are older (`AimOrder`), so an EOC in the pending queue
is younger than anything that was in the buffer before it. The proof found a bound that TLC's
instance had by chance: with an active buffer no larger than the number of
banks, a request could be activated but not stored. The code has 32 entries for 16
banks, and `ControllerAssumption` says so.

`ForwardDivergenceProofs`, for any number of layers, any command lines and any number
of launches, kills and faults. `PolicyIsolation` is `DeltasIsolatePolicy`. The
property speaks of rows only, so the inductive invariant `DInv` follows how
they come about: the running forward has replaced exactly the active layers it has
passed and stored their outputs (`ForwardOK`), from the GPU forward to the last
comparison with it its outputs and captures stay (`BaselineOK`), and at a comparison
those of the other forward are complete (`PimOK`). `OutputsWhole` has the invariant
`OInv`: the rows in memory are those of the rounds that were compared (`RowsOK`), what
is not left to write is closed and holds them all (`ClosedOK`), and on disk metadata
never describe an older or an unfinished table (`FilesOK`). `DriversStand`: a driver ends with an error
only after a fault, because a comparison finds every output (`CInv` with `DInv`), or when
it is about to write and its metadata directory is missing (`SomethingToWrite`,
`CannotWrite`; disagreement 14). The others assume
of a command line that its lists are not empty and name layers of the model, which
`parse_layer_spec` and `parse_str_list` enforce, that only the propagation driver has
several prompts, and of the sort in `default_probe_layers` that what it returns are such
layers (`ProbesAssumption`, evaluated in `experiments`).

`ExperimentsProofs` proves about the programs of `MCExperiments`, for any workers,
prompts, chunk sizes, projections, kills, faults and launches:

- `RunsOnlyMissing`: with `--resume` only missing cases are simulated. `MInv` says that
  cases which were whole when the forward began stay so and that nobody has a
  token of one (`HadOK`), which rests on a file with all rows not being cut (`CacheShape`) and on
  the chunks having every missing token once. The latter is proved of the slices
  of a finite set by rank.
- `ServesRight`: a forward that returns has counted each call once, and has the right
  product for every token but for the two excuses of `ServedRight`. `RInv` is in two
  parts. `CountInv` holds for every setup: no two workers have one token (`Apart`), and
  hits, computed, waiting and unfinished tokens add up to the calls (`Counted`).
  `ProductInv` holds unless workers share case directories: a worker
  finds in its directory what it put there (`FilesRight`), what is cached is right
  wherever it is cut (`CacheRight`), and a token has its product, or what a file
  cut in its digits is read as, or somebody still has to serve it (`Served`).
- `FaultsAlone`: no worker fails but by a fault, an unreadable cache file or a shared
  directory (`Blamed`), and no driver either but by its metadata directory.
- `EarnedPass`: a projection passes only with a complete Mode 2 report and a finished Mode 1 run of each
  of its cases. A report has no cycle count, or the whole's and the statistics of all rows
  (`Reported`), and a running chunk is one of the ranges (`PlaceInRanges`), which are as
  many as `chunk_ranges` gives for a size above zero (it raises otherwise).
- `LoadsItsTensor`: a directory that is accepted has all shards although the ready check
  looks for one only. Until somebody downloads for one projection, every run has all
  missing shards in its queue, before the required files behind them by name (`ShardsOK`,
  with `NamesAssumption`; by `ListedFiles` a sorted list keeps that order). The shard of a
  chosen tensor is there or queued, then stays (`ProjectionsOK`), and what is chosen of all
  tensors is chosen of any part that has it (`ChoiceStays`).
- `AggregatesAreWhole`: what is added up over a projection's chunks is what its rows give
  together, each row once, unless a report was cut; at the end of an invocation of an
  uninterrupted campaign without faults these are all rows, all timed, and passed. By
  `CampaignInv` a report is missing, empty or exactly that of its range's rows
  (`ReportsExact`), and without kills and faults the current chunk's files are as far as the driver is (`CurrentRunOK`, `CurrentRefOK`), earlier chunks are done, later
  ones done or untouched (`ChunksOK`), and those of another layout or activation are there
  for all chunks or for none (`OthersOK`). A published table is of one layout and activation
  (`OneLayoutAndSource`), so its chunks are disjoint (`ChunksCut`), and sums, sizes and
  maxima of disjoint parts are those of their union (`SumOfSums`, `SizesAddUp`,
  `LargestOfLargest`). These are about folds over finite sets and would call for induction,
  which the prover lacks; they are proved from a smallest counterexample instead.

`ServesRight` and `FaultsAlone` need no assumption beyond the constants' types: what the
code does not stand is excused in the properties (disagreements 6 to 8 and 14), and
without these excuses the statements are false.

`AggregatesAreWhole` rests on `CampaignAssumption` through `Campaign`, and on a digest not being
one of the two words that the model writes for a missing and a cut file.

Only model-checked: the liveness properties (`CallsReturn`, `AllServed`, `Completes`), since
liveness is outside the prover. The violations of the four runs that expect one are TLC's too.

## Not modelled, and the plan

Left out for good: drawing and table layout, the comparison tool (outside the AiM
flow), VCD traces, the timing log, statistics other than row locality, the values
of the deltas, the status table of the consolidation, the +/-1 ULP range of the figures, and the HTTP server and tokenizer, which are external. Of the
runner's cache key only what tells two activations apart is kept; weights replaced
under one model id, chunk sizes changed between launches, and tags that occur in the
default file names are listed as hazards without a property.

Next, in order:

1. The HBM-PIM micro-program interpreter and backend: JUMP and its single loop
   counter, EXIT, against a structured reference.
2. `DivergenceTracker`: its two-phase pending rows.
3. RTL arithmetic at reduced widths: BF16/Q8.16 conversion, activation and the
   accumulator's alignment, as operators against reference definitions.
4. The loop that trims a prompt, with an assumption on the tokenizer.
