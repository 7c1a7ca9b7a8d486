------------------------ MODULE FunctionalDispatcher ------------------------
(***************************************************************************)
(* The functional effect of the AiM commands the controller issues         *)
(* (functional_dispatcher.cpp), one action per handler, over the memory    *)
(* manager and a compute engine that keeps the promises of ComputeEngine.  *)
(*                                                                         *)
(* With Deferred (supports_deferred_mac16) a MAC16 on all-open rows is     *)
(* only queued in the engine; its results are stored when a later command  *)
(* flushes the queue.                                                      *)
(***************************************************************************)
EXTENDS AiMMemoryManager

CONSTANTS Deferred,               \* supports_deferred_mac16()
          MacStep(_, _, _, _, _), \* accumulator, first tile?, bias, weight, vector
          Activate(_, _),         \* activation type, accumulator value
          EwMul(_, _),
          Groups, EwmulMap,       \* kEwmulBankMap: group -> [src_a, src_b, dest]
          AfTypes,
          MaxCommands             \* bound on the number of commands

ASSUME DispatcherAssumption ==
  /\ Deferred \in BOOLEAN /\ 0 \in Cols /\ MaxCommands \in Nat /\ Rows \subseteq Nat
  /\ EwmulMap \in [Groups -> [src_a : Banks, src_b : Banks, dest : Banks]]

VARIABLES scalar_acc,  \* engine: the scalar accumulator, one for all banks
          abk_acc,     \* engine: the all-bank accumulators
          last_word,   \* engine: the last MAC's result word
          queued,      \* engine: the last deferred MAC16's result word
          pending,     \* engine: has_pending_mac16()
          weights,     \* m_mac16_weights, the staging buffer
          out,         \* the packets the last command logged: bank -> tile
          ran,         \* the last dispatch returned rtl_cycles > 0
          ncommands

engineVars == <<scalar_acc, abk_acc, last_word, queued, pending>>
vars == <<mmVars, engineVars, weights, out, ran, ncommands>>

NoPackets == [b \in {} |-> Zero]

ZeroWord == [b \in Banks |-> ZeroSum]

Init ==
  /\ mmInit
  /\ scalar_acc = ZeroSum /\ abk_acc = ZeroWord /\ last_word = ZeroWord
  /\ queued = ZeroWord /\ pending = FALSE
  /\ weights = [b \in Banks |-> Zero]
  /\ out = NoPackets /\ ran = FALSE /\ ncommands = 0

(* Every command is counted, logs the packets p and returns r cycles > 0.  *)
Dispatch(p, r) ==
  /\ ncommands < MaxCommands /\ ncommands' = ncommands + 1
  /\ out' = p /\ ran' = r

(* flush_pending_mac16: the result registers after it. *)
FlushedResults == IF pending THEN Lanewise(queued) ELSE mac_results

flush_pending_mac16 == mac_results' = FlushedResults /\ pending' = FALSE

(* A handler that leaves the engine and the result registers alone. *)
NoCompute == UNCHANGED <<engineVars, mac_results, af_results, weights>>

handle_act(bs, r) ==
  /\ Dispatch(NoPackets, FALSE)
  /\ open_row' = [b \in Banks |-> IF b \in bs THEN r ELSE open_row[b]]
  /\ NoCompute /\ UNCHANGED <<bank_data, allocated, global_buffer, bias>>

handle_pre(bs) ==
  /\ Dispatch(NoPackets, FALSE)
  /\ open_row' = [b \in Banks |-> IF b \in bs THEN Closed ELSE open_row[b]]
  /\ NoCompute /\ UNCHANGED <<bank_data, allocated, global_buffer, bias>>

(* The bank sets that ACT/PRE, ACT4/PRE4 and ACT16/PREA work on. *)
RowScopes == {{b} : b \in Banks} \union {{b \in Banks : GroupOf[b] = g} : g \in Groups} \union {Banks}

(* The GPR a request names; -1 is a request that names none.               *)
GprArgs == Gprs \union {-1}

(* WR writes one bank, WRA16 all of them; a closed bank is skipped.        *)
handle_wr(bs, c, g) ==
  /\ Dispatch(NoPackets, FALSE)
  /\ write_banks({b \in bs : IsOpen(b) /\ g \in Gprs}, c, [b \in Banks |-> GprValue[g]])
  /\ NoCompute /\ UNCHANGED <<global_buffer, bias, open_row>>

(* The GPR is the request's plus the tile column, if there is such a GPR.  *)
handle_wrgb(c, g) ==
  /\ Dispatch(NoPackets, FALSE)
  /\ global_buffer' = IF g + c \in Gprs THEN [global_buffer EXCEPT ![c] = GprValue[g + c]]
                      ELSE global_buffer
  /\ NoCompute /\ UNCHANGED <<bank_data, allocated, bias, open_row>>

handle_wrmac16(g) ==
  /\ Dispatch(NoPackets, FALSE)
  /\ bias' = IF g \in Gprs THEN [b \in Banks |-> Lane(GprValue[g], b)] ELSE bias
  /\ NoCompute /\ UNCHANGED <<bank_data, allocated, global_buffer, open_row>>

handle_rd(b, c) ==
  /\ Dispatch(IF IsOpen(b) THEN [x \in {b} |-> read_bank(b, open_row[b], c)] ELSE NoPackets, FALSE)
  /\ NoCompute /\ UNCHANGED <<bank_data, allocated, global_buffer, bias, open_row>>

handle_rdcp(b, c) ==
  /\ Dispatch(NoPackets, FALSE)
  /\ global_buffer' = IF IsOpen(b) THEN [global_buffer EXCEPT ![c] = read_bank(b, open_row[b], c)]
                      ELSE global_buffer
  /\ NoCompute /\ UNCHANGED <<bank_data, allocated, bias, open_row>>

handle_wrcp(b, c) ==
  /\ Dispatch(NoPackets, FALSE)
  /\ write_banks({x \in {b} : IsOpen(x)}, c, [x \in Banks |-> global_buffer[c]])
  /\ NoCompute /\ UNCHANGED <<global_buffer, bias, open_row>>

(* Mutant: a single-bank MAC does not flush. *)
MutMacNoFlush(b, c) ==
  LET sum == MacStep(scalar_acc, c = 0, bias[b], read_bank(b, open_row[b], c), global_buffer[c])
  IN  /\ IsOpen(b)
      /\ Dispatch(NoPackets, TRUE)
      /\ scalar_acc' = sum /\ last_word' = [x \in Banks |-> sum]
      /\ mac_results' = [mac_results EXCEPT ![b] = SplatTile(sum)]
      /\ UNCHANGED <<pending, abk_acc, queued, af_results, weights,
                     bank_data, allocated, global_buffer, bias, open_row>>

(* Single-bank MAC: the engine's scalar accumulator, whatever bank it is;  *)
(* all sixteen lanes of the result are stored.                             *)
handle_mac(b, c) ==
  /\ Dispatch(NoPackets, IsOpen(b))
  /\ pending' = FALSE
  /\ IF IsOpen(b)
       THEN LET sum == MacStep(scalar_acc, c = 0, bias[b],
                               read_bank(b, open_row[b], c), global_buffer[c])
            IN  /\ scalar_acc' = sum
                /\ last_word' = [x \in Banks |-> sum]
                /\ mac_results' = [FlushedResults EXCEPT ![b] = SplatTile(sum)]
       ELSE mac_results' = FlushedResults /\ UNCHANGED <<scalar_acc, last_word>>
  /\ UNCHANGED <<abk_acc, queued, af_results, weights,
                 bank_data, allocated, global_buffer, bias, open_row>>

AllRowsOpen == \A b \in Banks : IsOpen(b)

(* The weights a MAC16 multiplies: the open rows' tiles; a bank without an *)
(* open row keeps what the staging buffer last held for it.                *)
StagedWeights(c) ==
  [b \in Banks |-> IF IsOpen(b) THEN read_bank(b, open_row[b], c) ELSE weights[b]]

handle_mac16(c) ==
  LET sums == [b \in Banks |-> MacStep(abk_acc[b], c = 0, bias[b],
                                       StagedWeights(c)[b], global_buffer[c])]
  IN  /\ Dispatch(NoPackets, TRUE)
      /\ abk_acc' = sums /\ last_word' = sums
      /\ IF AllRowsOpen
           THEN /\ UNCHANGED weights
                /\ IF Deferred
                     THEN queued' = sums /\ pending' = TRUE /\ UNCHANGED mac_results
                     ELSE mac_results' = Lanewise(sums) /\ UNCHANGED <<queued, pending>>
           ELSE /\ weights' = StagedWeights(c)
                /\ mac_results' = Lanewise(sums) /\ pending' = FALSE /\ UNCHANGED queued
      /\ UNCHANGED <<scalar_acc, af_results, bank_data, allocated, global_buffer, bias, open_row>>

(* Mutant: an activation does not flush. *)
MutAfNoFlush(t) ==
  /\ Dispatch(NoPackets, TRUE)
  /\ af_results' = [b \in Banks |-> LaneTile(Activate(t, last_word[b]))]
  /\ UNCHANGED <<mac_results, engineVars, weights,
                 bank_data, allocated, global_buffer, bias, open_row>>

handle_af16(t) ==
  /\ Dispatch(NoPackets, TRUE)
  /\ flush_pending_mac16
  /\ af_results' = [b \in Banks |-> LaneTile(Activate(t, last_word[b]))]
  /\ UNCHANGED <<scalar_acc, abk_acc, last_word, queued, weights,
                 bank_data, allocated, global_buffer, bias, open_row>>

(***************************************************************************)
(* EWMUL16 on one group or on all.  A group whose source rows are closed   *)
(* or differ is skipped; the engine may fail a product (see                *)
(* VerilatorEngine), which leaves the destination alone.  The product goes *)
(* to the row of the sources, whatever row the destination has open.       *)
(* The groups' banks are disjoint, so the order of the loop is immaterial. *)
(***************************************************************************)
EwmulRuns(g) ==
  LET t == EwmulMap[g] IN IsOpen(t.src_a) /\ open_row[t.src_a] = open_row[t.src_b]

EwmulValue(g, c) ==
  LET t == EwmulMap[g]
  IN  EwMul(read_bank(t.src_a, open_row[t.src_a], c), read_bank(t.src_b, open_row[t.src_b], c))

handle_ewmul16(gs, c, done) ==
  /\ done \subseteq {g \in gs : EwmulRuns(g)}
  /\ Dispatch(NoPackets, done # {})
  /\ flush_pending_mac16
  /\ bank_data' = [b \in Banks |-> [r \in Rows |->
                     IF \E g \in done : b = EwmulMap[g].dest /\ r = open_row[EwmulMap[g].src_a]
                       THEN LET g == CHOOSE h \in done : b = EwmulMap[h].dest
                            IN  RowAfterWrite(b, r, c, EwmulValue(g, c))
                       ELSE bank_data[b][r]]]
  /\ allocated' = allocated \union {<<EwmulMap[g].dest, open_row[EwmulMap[g].src_a]>> : g \in done}
  /\ UNCHANGED <<scalar_acc, abk_acc, last_word, queued, weights, af_results,
                 global_buffer, bias, open_row>>

(* Mutant: the results are read before the flush. *)
MutReadsBeforeFlush ==
  /\ flush_pending_mac16
  /\ Dispatch(mac_results, FALSE)
  /\ UNCHANGED <<scalar_acc, abk_acc, last_word, queued, weights, af_results,
                 bank_data, allocated, global_buffer, bias, open_row>>

handle_rdmac16 ==
  /\ flush_pending_mac16
  /\ Dispatch(FlushedResults, FALSE)
  /\ UNCHANGED <<scalar_acc, abk_acc, last_word, queued, weights, af_results,
                 bank_data, allocated, global_buffer, bias, open_row>>

(* rdaf16_bank0_only logs bank 0 alone. *)
handle_rdaf16(bs) ==
  /\ flush_pending_mac16
  /\ Dispatch([b \in bs |-> af_results[b]], FALSE)
  /\ UNCHANGED <<scalar_acc, abk_acc, last_word, queued, weights, af_results,
                 bank_data, allocated, global_buffer, bias, open_row>>

(* SYNC and EOC. *)
handle_sync ==
  /\ flush_pending_mac16
  /\ Dispatch(NoPackets, FALSE)
  /\ UNCHANGED <<scalar_acc, abk_acc, last_word, queued, weights, af_results,
                 bank_data, allocated, global_buffer, bias, open_row>>

Next ==
  \/ \E bs \in RowScopes, r \in Rows : handle_act(bs, r)
  \/ \E bs \in RowScopes : handle_pre(bs)
  \/ \E bs \in {{b} : b \in Banks} \union {Banks}, c \in Cols, g \in GprArgs : handle_wr(bs, c, g)
  \/ \E c \in Cols, g \in GprArgs : handle_wrgb(c, g)
  \/ \E g \in GprArgs : handle_wrmac16(g)
  \/ \E b \in Banks, c \in Cols : handle_rd(b, c) \/ handle_rdcp(b, c) \/ handle_wrcp(b, c)
                                  \/ handle_mac(b, c)
  \/ \E c \in Cols : handle_mac16(c)
  \/ \E t \in AfTypes : handle_af16(t)
  \/ \E gs \in {{g} : g \in Groups} \union {Groups}, c \in Cols :
       \E done \in SUBSET gs : handle_ewmul16(gs, c, done)
  \/ handle_rdmac16 \/ handle_sync
  \/ \E bs \in {{b \in Banks : b = 0}, Banks} : handle_rdaf16(bs)

Spec == Init /\ [][Next]_vars
-----------------------------------------------------------------------------
(***************************************************************************)
(* What is queued is the newest MAC16: nothing that would have to see the  *)
(* queued results, or that starts another computation, happens between a   *)
(* deferred MAC16 and its flush (every compute and read handler flushes).  *)
(***************************************************************************)
QueuedIsNewest == pending => queued = abk_acc /\ last_word = queued

(* A command changes at most one tile of a row, the one it addresses,      *)
(* unless it is the row's first write: that one allocates the row, and all *)
(* its other tiles read as the fill from then on, no longer as zeros.      *)
OneTilePerCommand ==
  [][\A b \in Banks, r \in Rows : \E c \in Cols : \A d \in Cols \ {c} :
       read_bank(b, r, d)' = IF <<b, r>> \in allocated' \ allocated
                             THEN RowFill(b, r, d) ELSE read_bank(b, r, d)]_vars

(***************************************************************************)
(* An activation is that of the newest MAC16 results: what AF16 stores for *)
(* a bank is the activation of what RDMAC16 would log for it, although the *)
(* MAC16 may still be queued when AF16 comes (handle_af16 flushes first).  *)
(***************************************************************************)
ActivationOfNewest ==
  [][\A t \in AfTypes :
       handle_af16(t) /\ last_word = abk_acc /\ (pending \/ mac_results = Lanewise(abk_acc))
         => /\ mac_results' = Lanewise(abk_acc)
            /\ af_results' = Lanewise([b \in Banks |-> Activate(t, abk_acc[b])])]_vars
=============================================================================
