--------------------------- MODULE AiMMemoryManager ---------------------------
(***************************************************************************)
(* The functional memory of a channel (memory_manager.cpp): bank rows that *)
(* are allocated by their first write, the global buffer, the per-bank     *)
(* bias and result registers, and which row each bank has open.  A tile of *)
(* sixteen BF16 numbers is one value; the GPRs are only written by the     *)
(* data loader, before the first command.                                  *)
(***************************************************************************)
EXTENDS Integers

CONSTANTS Banks, Rows, Cols,   \* rows and tile columns of a bank
          GroupOf,             \* bank -> bank group
          Gprs, GprValue,      \* GPR ids and what the loader put in them
          Zero,                \* the all-zero tile
          RowFill(_, _, _),    \* what allocation puts in a tile: Zero, or random
          ZeroSum,             \* a cleared accumulator, the zero BF16
          Lane(_, _),          \* the BF16 in a lane of a tile
          LaneTile(_),         \* a tile with a BF16 in lane 0 and zeros elsewhere
          SplatTile(_)         \* a tile with a BF16 in every lane

VARIABLES bank_data,           \* tiles, meaningful for allocated rows
          allocated,           \* rows whose tiles exist
          global_buffer, bias,
          mac_results,         \* a tile per bank
          af_results,          \* a tile per bank
          open_row             \* per bank; Closed when precharged

mmVars == <<bank_data, allocated, global_buffer, bias, mac_results, af_results, open_row>>

Closed == -1

(* init, which ends in init_zero.  (init_random then fills the buffers and *)
(* the GPRs; a command stream can reach the same with WRGB and WRMAC16.)   *)
mmInit ==
  /\ bank_data = [b \in Banks |-> [r \in Rows |-> [c \in Cols |-> Zero]]]
  /\ allocated = {}
  /\ global_buffer = [c \in Cols |-> Zero]
  /\ bias = [b \in Banks |-> ZeroSum]
  /\ mac_results = [b \in Banks |-> LaneTile(ZeroSum)]
  /\ af_results = [b \in Banks |-> LaneTile(ZeroSum)]
  /\ open_row = [b \in Banks |-> Closed]

(* read_bank: zeros for a row that was never written. *)
read_bank(b, r, c) == IF <<b, r>> \in allocated THEN bank_data[b][r][c] ELSE Zero

(* Mutant: every write fills the row anew. *)
MutAlwaysFills(b, r, c, value) == [d \in Cols |-> IF d = c THEN value ELSE RowFill(b, r, d)]

(* ensure_row_allocated and the write of one tile, on each bank of bs.     *)
RowAfterWrite(b, r, c, value) ==
  [d \in Cols |-> IF d = c THEN value
                  ELSE IF <<b, r>> \in allocated THEN bank_data[b][r][d]
                  ELSE RowFill(b, r, d)]

(* write_bank of value[b] to the open row and column c of the banks bs.    *)
write_banks(bs, c, value) ==
  /\ bank_data' = [b \in Banks |-> [r \in Rows |->
                     IF b \in bs /\ r = open_row[b] THEN RowAfterWrite(b, r, c, value[b])
                     ELSE bank_data[b][r]]]
  /\ allocated' = allocated \union {<<b, open_row[b]>> : b \in bs}

(* store_mac_result_lane or store_af_result_lane, on every bank.           *)
Lanewise(word) == [b \in Banks |-> LaneTile(word[b])]

IsOpen(b) == open_row[b] # Closed
=============================================================================
