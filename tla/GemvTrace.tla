----------------------------- MODULE GemvTrace -----------------------------
(***************************************************************************)
(* One Mode 2 run of a matrix-vector product, end to end: a script writes  *)
(* the memory image and the trace, every channel of the simulator loads    *)
(* its rows and executes its part of the trace, the results are logged     *)
(* through a buffer, and the script reassembles the output vector.         *)
(*                                                                         *)
(* Data is symbolic: tile t of a weight or activation row is the pair of   *)
(* the row's name and t, a sum is the record of what was added, so two     *)
(* values are equal exactly when they were computed from the same data.    *)
(***************************************************************************)
EXTENDS RowShardLayout, Sequences, SequencesExt

CONSTANTS MAX_ROWS, MIN_TILES_PER_ROW, NUM_GPRS,
          BufferSize,   \* logging.buffer_size: result rows kept in memory
          Jobs          \* the runs to consider, records as in JobType

JobType == [kind : {"broadcast", "row_sharded", "batch", "matmul"},
            output_stage : {"pre_activation", "post_activation"},
            r : Nat \ {0}, tiles_q : Nat, token_count : Nat,
            dense_rows : BOOLEAN,
            cut : {"whole", "banks", "gprs"}]   \* a file that ends early

ASSUME GemvAssumption ==
  /\ MAX_ROWS \in Nat /\ MIN_TILES_PER_ROW \in Nat \ {0} /\ NUM_GPRS \in Nat \ {0}
  /\ BufferSize \in Nat \ {0}
  /\ Jobs \subseteq JobType
  /\ \A j \in Jobs : j.kind # "batch" => j.token_count = 1  \* "multi-batch is TODO"

VARIABLES job, phase,
          aimd,      \* the memory image: rows, global buffer, GPRs
          program,   \* channel -> the trace lines addressed to it
          bank_rows, global_buffer, gprs, bias,  \* memory of each channel
          pc, acc, af,                           \* execution of each channel
          buffered, csv,                         \* result log of each channel
          parsed     \* token -> the output vector, once parsed

memVars == <<bank_rows, global_buffer, gprs, bias>>
runVars == <<pc, acc, af, buffered, csv>>
vars == <<job, phase, aimd, program, memVars, runVars, parsed>>

Zero == <<"zero">>
Weight(row) == <<"w", row>>
Activation(token) == <<"a", token>>
Tile(x, t) == IF x # Zero /\ t < job.tiles_q THEN <<x, t>> ELSE Zero

tiles_per_row == Max({MIN_TILES_PER_ROW, job.tiles_q})
TileIds == 0 .. tiles_per_row - 1
GprIds == 0 .. NUM_GPRS - 1
Tokens == 0 .. job.token_count - 1
Sharded == job.kind \in {"row_sharded", "batch"}

---------------------------------------------------------------------------
(* The memory image.                                                       *)

(* write_aimd: the weights in the layout's order, zero rows elsewhere.     *)
write_aimd ==
  LET rows == IF Sharded THEN active_rows(job.r) ELSE job.r
      WeightAt(b, x) == IF Sharded THEN output_row(b, x) ELSE x
  IN  [rows_per_bank |-> IF job.dense_rows THEN MAX_ROWS ELSE rows,
       refused |-> rows > MAX_ROWS,
       row |-> [b \in BankIds |-> [x \in 0 .. MAX_ROWS - 1 |->
                  IF WeightAt(b, x) < job.r THEN Weight(WeightAt(b, x)) ELSE Zero]]]

(* write_batch_token_aimd: behind the weights, in the vector bank, one     *)
(* copy of every token's activation for every channel.                     *)
write_batch_token_aimd ==
  LET base == vector_row_base(job.r)
      rows == base + job.token_count * NUM_CHANNELS
  IN  [rows_per_bank |-> rows, refused |-> rows > MAX_ROWS,
       row |-> [b \in BankIds |-> [x \in 0 .. MAX_ROWS - 1 |->
                  IF x < active_rows(job.r) /\ output_row(b, x) < job.r
                    THEN Weight(output_row(b, x))
                  ELSE IF b = 0 /\ x \in base .. rows - 1
                    THEN Activation((x - base) \div NUM_CHANNELS) ELSE Zero]]]

---------------------------------------------------------------------------
(* The trace.  A line is written in the innermost of nested loops: over    *)
(* the tokens, the row groups (the rows, in the broadcast layout), the     *)
(* commands and the physical rows of the group.  The values of the loops'  *)
(* variables are its place, and the lines of a trace are in the            *)
(* lexicographic order of their places.                                    *)

Line(at, op, mask, row) == [at |-> at, op |-> op, mask |-> mask, row |-> row]

Before(k, l) == \E i \in 1 .. 4 : k.at[i] < l.at[i] /\ \A j \in 1 .. i - 1 : k.at[j] = l.at[j]

InOrder(lines) ==
  [i \in 1 .. Cardinality(lines) |->
     CHOOSE l \in lines : Cardinality({k \in lines : Before(k, l)}) = i - 1]

(* The commands that compute one result and read it back.                  *)
Ops(load) == <<"WR_BIAS", load, "MAC_ABK">>
               \o (IF job.output_stage = "post_activation" THEN <<"AF", "RD_AF">> ELSE <<"RD_MAC">>)

(* The broadcast trace: row after row, all channels.                       *)
broadcast_trace ==
  {Line(<<n, row, o, row>>, Ops("WR_GB")[o], AllChannels, row) :
     n \in Tokens, row \in 0 .. job.r - 1, o \in DOMAIN Ops("WR_GB")}

(* The row groups of one token: every command for all physical rows of the *)
(* group, each in the channel that holds the row, before the next command. *)
group_trace(n, load, vector_row) ==
  LET rows == physical_rows_by_group(job.r)
      Arg(op, x) == IF op = "COPY_BKGB" THEN vector_row[x % NUM_CHANNELS] ELSE x
  IN  UNION {{Line(<<n, g, o, x>>, Ops(load)[o], channel_mask_for(x % NUM_CHANNELS), Arg(Ops(load)[o], x)) :
                o \in DOMAIN Ops(load), x \in rows[g]} : g \in DOMAIN rows}

(* write_trace, either layout.                                             *)
write_trace ==
  IF job.kind = "row_sharded"
  THEN group_trace(0, "WR_GB", [ch \in ChannelIds |-> -1])
  ELSE broadcast_trace

(* Mutant: every channel copies channel 0's copy of the activation.        *)
Mut_batch_trace ==
  UNION {group_trace(n, "COPY_BKGB", [ch \in ChannelIds |-> vector_row_base(job.r) + n * NUM_CHANNELS]) :
           n \in Tokens}

(* write_batch_token_trace: the row groups once per token, the activation  *)
(* copied from the channel's vector row into the global buffer.            *)
write_batch_token_trace ==
  UNION {group_trace(n, "COPY_BKGB", [ch \in ChannelIds |-> vector_row_base(job.r) + n * NUM_CHANNELS + ch]) :
           n \in Tokens}

(* generate_trace: the same lines for every one of the P batches.  (What   *)
(* extract_matmul_results falls back to is read of write_trace's trace.)   *)
generate_trace == broadcast_trace

Trace == CASE job.kind = "batch"  -> write_batch_token_trace
           [] job.kind = "matmul" -> generate_trace
           [] OTHER               -> write_trace

---------------------------------------------------------------------------
(* A run.                                                                  *)

Init ==
  /\ job \in Jobs /\ phase = "write"
  /\ aimd = [rows_per_bank |-> 0, refused |-> FALSE, row |-> <<>>]
  /\ program = [ch \in ChannelIds |-> <<>>]
  /\ bank_rows = [ch \in ChannelIds |-> <<>>]
  /\ global_buffer = [ch \in ChannelIds |-> [t \in TileIds |-> Zero]]
  /\ gprs = [ch \in ChannelIds |-> [g \in GprIds |-> Zero]]
  /\ bias = [ch \in ChannelIds |-> Zero]
  /\ pc = [ch \in ChannelIds |-> 0]
  /\ acc = [ch \in ChannelIds |-> <<>>] /\ af = [ch \in ChannelIds |-> <<>>]
  /\ buffered = [ch \in ChannelIds |-> <<>>] /\ csv = [ch \in ChannelIds |-> <<>>]
  /\ parsed = <<>>

(* The files of the run; a layout that does not fit the memory is refused. *)
WriteFiles ==
  LET image == IF job.kind = "batch" THEN write_batch_token_aimd ELSE write_aimd
  IN  /\ phase = "write"
      /\ aimd' = image
      /\ phase' = IF image.refused THEN "failed" ELSE "load"
      /\ program' = [ch \in ChannelIds |-> InOrder({l \in Trace : ch \in FindChannels(l.mask)})]
      /\ UNCHANGED <<job, memVars, runVars, parsed>>

(* The rows a channel loads: with load_row_shard_mod those of its residue. *)
LoadedRow(ch, b, x) ==
  IF x < aimd.rows_per_bank /\ (Sharded => x % NUM_CHANNELS = ch) THEN aimd.row[b][x] ELSE Zero

(* load_from_file in a channel: a file that ends inside the banks or the   *)
(* global buffer aborts the simulation; GPRs and bias that are missing are *)
(* skipped and stay zero.                                                  *)
load_from_file(ch) ==
  /\ phase = "load" /\ pc[ch] = 0
  /\ bank_rows' = [bank_rows EXCEPT ![ch] =
                     [b \in BankIds |-> [x \in 0 .. MAX_ROWS - 1 |-> LoadedRow(ch, b, x)]]]
  /\ global_buffer' = [global_buffer EXCEPT ![ch] = [t \in TileIds |-> Tile(Activation(0), t)]]
  /\ gprs' = [gprs EXCEPT ![ch] = [g \in GprIds |->
                IF job.cut = "whole" THEN Tile(Activation(0), g) ELSE Zero]]
  /\ IF job.cut = "banks" THEN phase' = "failed" /\ UNCHANGED pc
     ELSE /\ pc' = [pc EXCEPT ![ch] = 1]
          /\ phase' = IF \A c \in ChannelIds \ {ch} : pc[c] = 1 THEN "run" ELSE phase
  /\ UNCHANGED <<job, aimd, program, bias, acc, af, buffered, csv, parsed>>

(* log_result: rows are buffered, and written when the buffer is full.     *)
Log(ch, rows) ==
  LET all == buffered[ch] \o rows
      flushed == (Len(all) \div BufferSize) * BufferSize
  IN  /\ csv' = [csv EXCEPT ![ch] = @ \o SubSeq(all, 1, flushed)]
      /\ buffered' = [buffered EXCEPT ![ch] = SubSeq(all, flushed + 1, Len(all))]

(* One result row per bank, all with the cycle of the command; the         *)
(* command's place in the program stands for its cycle.                    *)
Packets(ch, op, values) ==
  [i \in 1 .. NUM_BANKS |-> [cycle |-> pc[ch], command |-> op, bank |-> i - 1,
                             value |-> values[i - 1]]]

(* The effect of a command on a channel, for tiles 0 .. opsize - 1.        *)
(* Whether WR_BIAS names the GPR of its first operand (opsize) or none is  *)
(* decided by the trace reader (external).                                 *)
Execute(ch) ==
  LET l == program[ch][pc[ch]]
      x == bank_rows[ch]
  IN  /\ phase = "run" /\ pc[ch] <= Len(program[ch])
      /\ pc' = [pc EXCEPT ![ch] = @ + 1]
      /\ \/ /\ l.op = "WR_BIAS"
            /\ \E named \in BOOLEAN : bias' = [bias EXCEPT ![ch] =
                 IF named /\ job.tiles_q \in GprIds THEN gprs[ch][job.tiles_q] ELSE @]
            /\ UNCHANGED <<global_buffer, acc, af, buffered, csv>>
         \/ /\ l.op = "WR_GB"
            /\ global_buffer' = [global_buffer EXCEPT ![ch] = [t \in TileIds |->
                 IF t < job.tiles_q /\ t \in GprIds THEN gprs[ch][t] ELSE @[t]]]
            /\ UNCHANGED <<bias, acc, af, buffered, csv>>
         \/ /\ l.op = "COPY_BKGB"
            /\ global_buffer' = [global_buffer EXCEPT ![ch] = [t \in TileIds |->
                 IF t < job.tiles_q THEN Tile(x[0][l.row], t) ELSE @[t]]]
            /\ UNCHANGED <<bias, acc, af, buffered, csv>>
         \/ /\ l.op = "MAC_ABK"
            /\ acc' = [acc EXCEPT ![ch] = [b \in BankIds |->
                 [bias |-> bias[ch],
                  terms |-> [t \in 0 .. job.tiles_q - 1 |->
                               <<Tile(x[b][l.row], t), global_buffer[ch][t]>>]]]]
            /\ UNCHANGED <<bias, global_buffer, af, buffered, csv>>
         \/ /\ l.op = "AF"
            /\ af' = [af EXCEPT ![ch] = [b \in BankIds |-> <<"af", acc[ch][b]>>]]
            /\ UNCHANGED <<bias, global_buffer, acc, buffered, csv>>
         \/ /\ l.op = "RD_AF" /\ Log(ch, Packets(ch, "RD_AF", af[ch]))
            /\ UNCHANGED <<bias, global_buffer, acc, af>>
         \/ /\ l.op = "RD_MAC" /\ Log(ch, Packets(ch, "RD_MAC", acc[ch]))
            /\ UNCHANGED <<bias, global_buffer, acc, af>>
      /\ UNCHANGED <<job, phase, aimd, program, bank_rows, gprs, parsed>>

(* The simulator dies; what was buffered is lost and it reports failure.   *)
Abort ==
  /\ phase = "run" /\ phase' = "failed"
  /\ buffered' = [ch \in ChannelIds |-> <<>>]
  /\ UNCHANGED <<job, aimd, program, memVars, pc, acc, af, csv, parsed>>

(* ISR_EOC: all channels are done; the loggers' destructors flush.         *)
Finalize ==
  /\ phase = "run" /\ \A ch \in ChannelIds : pc[ch] > Len(program[ch])
  /\ phase' = "parse"
  /\ csv' = [ch \in ChannelIds |-> csv[ch] \o buffered[ch]]
  /\ buffered' = [ch \in ChannelIds |-> <<>>]
  /\ UNCHANGED <<job, aimd, program, memVars, pc, acc, af, parsed>>

---------------------------------------------------------------------------
(* The parsers.                                                            *)

(* The rows of a command in a channel's log, by their places, and the one  *)
(* before row i.                                                           *)
OfCommand(ch, target_cmd) == {i \in DOMAIN csv[ch] : csv[ch][i].command = target_cmd}
Previous(ch, rows, i) == csv[ch][Max({j \in rows : j < i})]

(* These rows cut into events that begin at the places in first; an event  *)
(* maps bank to value.                                                     *)
Events(ch, rows, first) ==
  LET Of(k) == {csv[ch][i] : i \in {i \in rows : Cardinality({j \in first : j <= i}) = k}}
  IN  [k \in 1 .. Cardinality(first) |->
         [b \in {x.bank : x \in Of(k)} |-> (CHOOSE x \in Of(k) : x.bank = b).value]]

(* parse_rtl_events: a new event when the bank does not increase.          *)
parse_rtl_events(ch, target_cmd) ==
  LET rows == OfCommand(ch, target_cmd)
  IN  Events(ch, rows, {i \in rows : \/ \A j \in rows : i <= j
                                    \/ csv[ch][i].bank <= Previous(ch, rows, i).bank})

(* Mutant: the block that is open at the end of the file is forgotten. *)
Mut_parse_csv(ch, target_cmd) ==
  LET rows == OfCommand(ch, target_cmd)
      blocks == Events(ch, rows, {i \in rows : \/ \A j \in rows : i <= j
                                              \/ csv[ch][i].cycle # Previous(ch, rows, i).cycle})
  IN  IF blocks = <<>> THEN blocks ELSE Front(blocks)

(* parse_csv of extract_matmul_results: a new block when the cycle changes.*)
parse_csv(ch, target_cmd) ==
  LET rows == OfCommand(ch, target_cmd)
  IN  Events(ch, rows, {i \in rows : \/ \A j \in rows : i <= j
                                    \/ csv[ch][i].cycle # Previous(ch, rows, i).cycle})

target_cmd == IF job.output_stage = "post_activation" THEN "RD_AF" ELSE "RD_MAC"

(* The value of bank b in event k of a channel, or nothing.                *)
At(events, k, b) ==
  IF k \in DOMAIN events /\ b \in DOMAIN events[k] THEN <<events[k][b]>> ELSE <<>>

(* parse_rtl_csv: bank 0 of the events of channel 0 that have one.         *)
parse_rtl_csv ==
  LET events == parse_rtl_events(0, target_cmd)
      with_0 == {k \in DOMAIN events : 0 \in DOMAIN events[k]}
  IN  [n \in 0 .. Cardinality(with_0) - 1 |->
         <<events[CHOOSE k \in with_0 : Cardinality({j \in with_0 : j < k}) = n][0]>>]

(* parse_rtl_results for the row-sharded layout: a channel's event number  *)
(* is the group.                                                           *)
parse_rtl_results ==
  [row \in 0 .. job.r - 1 |->
     LET loc == output_location(row)
     IN  At(parse_rtl_events(loc.channel, target_cmd), loc.group + 1, loc.bank)]

(* Mutant: every channel is taken to have rows in every group.             *)
Mut_parse_batch(n) ==
  [row \in 0 .. job.r - 1 |->
     LET loc == output_location(row)
         groups == DOMAIN physical_rows_by_group(job.r)
     IN  At(parse_rtl_events(loc.channel, target_cmd),
            n * Cardinality(groups) + loc.group + 1, loc.bank)]

(* parse_batch_token_results: the events of a channel are its own groups,  *)
(* token after token.                                                      *)
parse_batch_token_results(n) ==
  [row \in 0 .. job.r - 1 |->
     LET loc == output_location(row)
         local_groups == row_sharded_groups_by_channel(job.r)[loc.channel]
         group_pos == Cardinality({g \in local_groups : g < loc.group})
     IN  At(parse_rtl_events(loc.channel, target_cmd),
            n * Cardinality(local_groups) + group_pos + 1, loc.bank)]

(* extract_matmul_results on channel 0: without any RD_AF the RD_MAC       *)
(* results are taken.                                                      *)
extracted ==
  LET wanted == parse_csv(0, "RD_AF")
  IN  IF wanted = <<>> THEN parse_csv(0, "RD_MAC") ELSE wanted

(* write_output: the rows there are, with bank 0 of each; fewer than       *)
(* expected is only a warning.                                             *)
write_output(n) ==
  [row \in {x \in 0 .. job.r - 1 : n * job.r + x < Len(extracted)} |->
     At(extracted, n * job.r + row + 1, 0)]

(* The output vectors; a value that is missing makes the parser raise.     *)
Parse ==
  LET outputs == [n \in Tokens |->
                    CASE job.kind = "broadcast"   -> parse_rtl_csv
                      [] job.kind = "row_sharded" -> parse_rtl_results
                      [] job.kind = "batch"       -> parse_batch_token_results(n)
                      [] job.kind = "matmul"      -> write_output(n)]
      complete ==
        /\ job.kind = "matmul" => extracted # <<>>
        /\ \A n \in Tokens : \A row \in DOMAIN outputs[n] : outputs[n][row] # <<>>
  IN  /\ phase = "parse"
      /\ phase' = IF complete THEN "done" ELSE "failed"
      /\ parsed' = IF complete THEN [n \in Tokens |-> [row \in DOMAIN outputs[n] |-> outputs[n][row][1]]]
                   ELSE parsed
      /\ UNCHANGED <<job, aimd, program, memVars, runVars>>

Ended == phase \in {"done", "failed"} /\ UNCHANGED vars

Next ==
  \/ WriteFiles
  \/ \E ch \in ChannelIds : load_from_file(ch) \/ Execute(ch)
  \/ Abort \/ Finalize \/ Parse \/ Ended

Spec == Init /\ [][Next]_vars

---------------------------------------------------------------------------
(* Properties.                                                             *)

(* cpu_reference: row times activation, plus no bias, then the activation  *)
(* function for the post_activation stage.                                 *)
cpu_reference(n, row) ==
  LET sum == [bias |-> Zero,
              terms |-> [t \in 0 .. job.tiles_q - 1 |->
                           <<Tile(Weight(row), t), Tile(Activation(n), t)>>]]
  IN  IF job.output_stage = "post_activation" THEN <<"af", sum>> ELSE sum

(* Whatever the shape, the layout, the output stage and the number of      *)
(* tokens, a run that is parsed gives every token exactly its r outputs,   *)
(* each the product of its own weight row with its own activation; an      *)
(* image that ends inside the weights never gets that far.                 *)
ParsedIsReference ==
  phase = "done" =>
    /\ job.cut # "banks"
    /\ job.cut = "whole" =>
         \A n \in Tokens :
           /\ DOMAIN parsed[n] = 0 .. job.r - 1
           /\ \A row \in 0 .. job.r - 1 : parsed[n][row] = cpu_reference(n, row)

(* A simulation that was not aborted always parses: every result that the  *)
(* parser of its layout asks for is in the logs.                           *)
CompleteLogParses == [][Parse => phase' = "done"]_vars

(* The two scripts cut the log of a complete run into the same results,    *)
(* one by the order of the banks and one by the cycle.                     *)
ParsersAgree ==
  phase \in {"parse", "done"} =>
    \A ch \in ChannelIds : parse_csv(ch, target_cmd) = parse_rtl_events(ch, target_cmd)
=============================================================================
