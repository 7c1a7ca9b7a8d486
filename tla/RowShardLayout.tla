--------------------------- MODULE RowShardLayout ---------------------------
(***************************************************************************)
(* Where the experiment scripts put output row n of a projection: the      *)
(* row-sharded layout spreads the rows over banks first, then channels,    *)
(* then groups of NUM_CHANNELS physical rows.  The writers of the memory   *)
(* image and of the trace, and the parser of the results, each compute     *)
(* their own side of the mapping.                                          *)
(***************************************************************************)
EXTENDS Integers, FiniteSetsExt

CONSTANTS NUM_CHANNELS, NUM_BANKS

ASSUME LayoutAssumption ==
  /\ NUM_CHANNELS \in Nat \ {0}
  /\ NUM_BANKS \in Nat \ {0}

ChannelIds == 0 .. NUM_CHANNELS - 1
BankIds == 0 .. NUM_BANKS - 1

output_location(row) ==
  LET group == row \div (NUM_CHANNELS * NUM_BANKS)
      rem == row % (NUM_CHANNELS * NUM_BANKS)
      channel == rem \div NUM_BANKS
  IN  [group |-> group, channel |-> channel, bank |-> rem % NUM_BANKS,
       physical_row |-> group * NUM_CHANNELS + channel]

(* The output row that the memory image holds at a bank and physical row.  *)
output_row(bank, physical_row) ==
  (physical_row \div NUM_CHANNELS) * (NUM_CHANNELS * NUM_BANKS)
    + (physical_row % NUM_CHANNELS) * NUM_BANKS + bank

(* Rows of every bank that hold weights of a projection with r outputs.    *)
active_rows(r) == Max({output_location(row).physical_row : row \in 0 .. r - 1} \union {-1}) + 1

(* The physical rows of a row group, in increasing order in the trace.     *)
physical_rows_by_group(r) ==
  LET locs == {output_location(row) : row \in 0 .. r - 1}
  IN  [g \in {l.group : l \in locs} |-> {l.physical_row : l \in {x \in locs : x.group = g}}]

(* The groups in which a channel has output rows.                          *)
row_sharded_groups_by_channel(r) ==
  LET locs == {output_location(row) : row \in 0 .. r - 1}
  IN  [ch \in ChannelIds |-> {l.group : l \in {x \in locs : x.channel = ch}}]

(* First row, aligned to the channels, after the weights: where a batch    *)
(* keeps one copy of every token's activation per channel.                 *)
vector_row_base(r) ==
  ((active_rows(r) + NUM_CHANNELS - 1) \div NUM_CHANNELS) * NUM_CHANNELS

(* A channel mask is the set of its bits; the memory system (external)     *)
(* sends mask bit i to channel NUM_CHANNELS - 1 - i.                       *)
channel_mask_for(channel) == {NUM_CHANNELS - 1 - channel}
AllChannels == ChannelIds
FindChannels(mask) == {NUM_CHANNELS - 1 - i : i \in mask}
=============================================================================
