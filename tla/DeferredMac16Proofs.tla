------------------------- MODULE DeferredMac16Proofs -------------------------
(* Proofs about the dispatcher with deferred MAC16s, for any number of     *)
(* banks, any data and any arithmetic of the processing unit.              *)
EXTENDS DeferredMac16, TLAPS

(* Only a deferring engine ever has something pending. *)
PendingIsDeferred == pending => Deferred

QInv == QueuedIsNewest /\ PendingIsDeferred

LEMMA QInvInit == Init => QInv
  BY DEF Init, QInv, QueuedIsNewest, PendingIsDeferred

(* Every handler keeps the newest MAC16 queued or leaves nothing pending.  *)
LEMMA QInvNext == QInv /\ [Next]_vars => QInv'
<1> SUFFICES ASSUME QInv, [Next]_vars PROVE QInv'
  OBVIOUS
<1> USE DEF QInv, QueuedIsNewest, PendingIsDeferred
<1>1. CASE UNCHANGED <<engineVars>>
  BY <1>1 DEF engineVars
<1>2. CASE pending' = FALSE
  BY <1>2
<1>3. ASSUME NEW c \in Cols, handle_mac16(c) PROVE QInv'
  BY <1>3 DEF handle_mac16
<1>4. ASSUME NoCompute PROVE QInv'
  BY <1>1, <1>4 DEF NoCompute
<1>5. CASE UNCHANGED vars
  BY <1>1, <1>5 DEF vars, engineVars
<1>6. CASE Next
  BY <1>2, <1>3, <1>4, <1>6
     DEF Next, handle_act, handle_pre, handle_wr, handle_wrgb, handle_wrmac16, handle_rd,
         handle_rdcp, handle_wrcp, handle_mac, handle_af16, handle_ewmul16, handle_rdmac16,
         handle_rdaf16, handle_sync, flush_pending_mac16
<1> QED
  BY <1>5, <1>6

(* THEOREM: a queued MAC16 is always the newest accumulation, so a flush   *)
(* stores current results and an activation works on them.                 *)
THEOREM QueuedNewest == Spec => []QueuedIsNewest
<1>1. QInv => QueuedIsNewest
  BY DEF QInv
<1> QED
  BY QInvInit, QInvNext, <1>1, PTL DEF Spec

(* THEOREM: AF16 stores the activations of the very results that RDMAC16   *)
(* would log, queued MAC16s included (handle_af16).                        *)
THEOREM ActivationNewest == Spec => ActivationOfNewest
<1>1. ASSUME QInv, NEW t \in AfTypes, handle_af16(t), last_word = abk_acc,
             pending \/ mac_results = Lanewise(abk_acc)
      PROVE  /\ mac_results' = Lanewise(abk_acc)
             /\ af_results' = Lanewise([b \in Banks |-> Activate(t, abk_acc[b])])
  BY <1>1 DEF handle_af16, flush_pending_mac16, FlushedResults, QInv, QueuedIsNewest, Lanewise
<1>2. QInv /\ [Next]_vars =>
        [\A t \in AfTypes :
           handle_af16(t) /\ last_word = abk_acc /\ (pending \/ mac_results = Lanewise(abk_acc))
             => /\ mac_results' = Lanewise(abk_acc)
                /\ af_results' = Lanewise([b \in Banks |-> Activate(t, abk_acc[b])])]_vars
  BY <1>1
<1> QED
  BY QInvInit, QInvNext, <1>2, PTL DEF Spec, ActivationOfNewest
-----------------------------------------------------------------------------
LEMMA EagerInit == Init => Eager!Init
  BY DEF Init, Eager!Init, mmInit, Eager!mmInit, FlushedResults, ZeroWord, Eager!ZeroWord,
         NoPackets, Eager!NoPackets, Closed, Eager!Closed

(* What a flush leaves in the registers, after a handler that flushes or   *)
(* that leaves the engine alone.                                           *)
LEMMA FlushKeeps == flush_pending_mac16 \/ NoCompute => FlushedResults' = FlushedResults
  BY DEF flush_pending_mac16, NoCompute, FlushedResults, Lanewise, engineVars

LEMMA EagerNoCompute == NoCompute => Eager!NoCompute
  BY FlushKeeps DEF NoCompute, Eager!NoCompute, engineVars, Eager!engineVars, ZeroWord

LEMMA EagerFlush == flush_pending_mac16 => Eager!flush_pending_mac16
  BY FlushKeeps DEF flush_pending_mac16, Eager!flush_pending_mac16, Eager!FlushedResults

LEMMA EagerDispatch ==
  ASSUME NEW p, NEW r, Dispatch(p, r) PROVE Eager!Dispatch(p, r)
  BY DEF Dispatch, Eager!Dispatch

LEMMA EagerWrite ==
  ASSUME NEW bs, NEW c, NEW value, write_banks(bs, c, value)
  PROVE  Eager!write_banks(bs, c, value)
  BY DEF write_banks, Eager!write_banks, RowAfterWrite, Eager!RowAfterWrite

(* A handler that does not compute is the same handler of the eager        *)
(* dispatcher.                                                             *)
LEMMA EagerRows ==
  ASSUME NEW bs, NEW r PROVE /\ handle_act(bs, r) => Eager!handle_act(bs, r)
                             /\ handle_pre(bs) => Eager!handle_pre(bs)
  BY EagerNoCompute, EagerDispatch
     DEF handle_act, Eager!handle_act, handle_pre, Eager!handle_pre, NoPackets, Eager!NoPackets,
         Closed, Eager!Closed

LEMMA EagerWrites ==
  ASSUME NEW bs, NEW b, NEW c, NEW g
  PROVE  /\ handle_wr(bs, c, g) => Eager!handle_wr(bs, c, g)
         /\ handle_wrgb(c, g) => Eager!handle_wrgb(c, g)
         /\ handle_wrmac16(g) => Eager!handle_wrmac16(g)
         /\ handle_wrcp(b, c) => Eager!handle_wrcp(b, c)
  BY EagerNoCompute, EagerDispatch, EagerWrite
     DEF handle_wr, Eager!handle_wr, handle_wrgb, Eager!handle_wrgb, handle_wrmac16,
         Eager!handle_wrmac16, handle_wrcp, Eager!handle_wrcp, NoPackets, Eager!NoPackets,
         IsOpen, Eager!IsOpen, Closed, Eager!Closed

LEMMA EagerReads ==
  ASSUME NEW b, NEW c
  PROVE  /\ handle_rd(b, c) => Eager!handle_rd(b, c)
         /\ handle_rdcp(b, c) => Eager!handle_rdcp(b, c)
  BY EagerNoCompute, EagerDispatch
     DEF handle_rd, Eager!handle_rd, handle_rdcp, Eager!handle_rdcp, NoPackets, Eager!NoPackets,
         IsOpen, Eager!IsOpen, Closed, Eager!Closed, read_bank, Eager!read_bank

(* A single-bank MAC flushes first, then replaces its own bank's register. *)
LEMMA EagerMac ==
  ASSUME NEW b, NEW c, handle_mac(b, c) PROVE Eager!handle_mac(b, c)
<1>1. FlushedResults' = mac_results'
  BY DEF handle_mac, FlushedResults
<1>2. Eager!FlushedResults = FlushedResults
  BY DEF Eager!FlushedResults
<1> QED
  BY <1>1, <1>2, EagerDispatch
     DEF handle_mac, Eager!handle_mac, NoPackets, Eager!NoPackets, IsOpen, Eager!IsOpen,
         Closed, Eager!Closed, read_bank, Eager!read_bank, ZeroWord

(* A MAC16 that is queued here is stored at once there. *)
LEMMA EagerMac16 ==
  ASSUME NEW c, QInv, handle_mac16(c) PROVE Eager!handle_mac16(c)
<1> DEFINE sums == [b \in Banks |-> MacStep(abk_acc[b], c = 0, bias[b],
                                            StagedWeights(c)[b], global_buffer[c])]
<1>1. Eager!StagedWeights(c) = StagedWeights(c) /\ (Eager!AllRowsOpen <=> AllRowsOpen)
  BY DEF StagedWeights, Eager!StagedWeights, AllRowsOpen, Eager!AllRowsOpen, IsOpen,
         Eager!IsOpen, Closed, Eager!Closed, read_bank, Eager!read_bank
<1>2. FlushedResults' = Lanewise(sums)
  BY DEF handle_mac16, FlushedResults, QInv, PendingIsDeferred, Lanewise
<1>3. Eager!Lanewise(sums) = Lanewise(sums)
  BY DEF Lanewise, Eager!Lanewise
<1> QED
  BY <1>1, <1>2, <1>3, EagerDispatch
     DEF handle_mac16, Eager!handle_mac16, NoPackets, Eager!NoPackets, ZeroWord

LEMMA EagerAf16 ==
  ASSUME NEW t PROVE handle_af16(t) => Eager!handle_af16(t)
  BY EagerDispatch, EagerFlush
     DEF handle_af16, Eager!handle_af16, NoPackets, Eager!NoPackets, ZeroWord

LEMMA EagerEwmul16 ==
  ASSUME NEW gs, NEW c, NEW done, handle_ewmul16(gs, c, done)
  PROVE  Eager!handle_ewmul16(gs, c, done)
<1>1. \A g : (EwmulRuns(g) <=> Eager!EwmulRuns(g)) /\ EwmulValue(g, c) = Eager!EwmulValue(g, c)
  BY DEF EwmulRuns, Eager!EwmulRuns, EwmulValue, Eager!EwmulValue, IsOpen, Eager!IsOpen,
         Closed, Eager!Closed, read_bank, Eager!read_bank
<1>2. \A b, r, v : RowAfterWrite(b, r, c, v) = Eager!RowAfterWrite(b, r, c, v)
  BY DEF RowAfterWrite, Eager!RowAfterWrite
<1> QED
  BY <1>1, <1>2, EagerDispatch, EagerFlush
     DEF handle_ewmul16, Eager!handle_ewmul16, NoPackets, Eager!NoPackets, ZeroWord

(* The reads log what the eager registers hold. *)
LEMMA EagerRdmac16 == handle_rdmac16 => Eager!handle_rdmac16
  BY EagerDispatch, EagerFlush
     DEF handle_rdmac16, Eager!handle_rdmac16, Eager!FlushedResults, ZeroWord

LEMMA EagerRdaf16 ==
  ASSUME NEW bs PROVE handle_rdaf16(bs) => Eager!handle_rdaf16(bs)
  BY EagerDispatch, EagerFlush DEF handle_rdaf16, Eager!handle_rdaf16, ZeroWord

LEMMA EagerSync == handle_sync => Eager!handle_sync
  BY EagerDispatch, EagerFlush
     DEF handle_sync, Eager!handle_sync, NoPackets, Eager!NoPackets, ZeroWord

(* Each command of the deferring dispatcher is that command of the eager one. *)
LEMMA EagerNext == QInv /\ [Next]_vars => [Eager!Next]_(Eager!vars)
<1> SUFFICES ASSUME QInv, [Next]_vars PROVE [Eager!Next]_(Eager!vars)
  OBVIOUS
<1>1. CASE UNCHANGED vars
  BY <1>1 DEF vars, mmVars, engineVars, Eager!vars, Eager!mmVars, Eager!engineVars,
              FlushedResults, Lanewise, ZeroWord
<1>2. CASE Next
  <2> USE DEF Next, Eager!Next
  <2>1. Eager!RowScopes = RowScopes /\ Eager!GprArgs = GprArgs
    BY DEF RowScopes, Eager!RowScopes, GprArgs, Eager!GprArgs
  <2> QED
    BY <1>2, <2>1, EagerRows, EagerWrites, EagerReads, EagerMac, EagerMac16, EagerAf16,
       EagerEwmul16, EagerRdmac16, EagerRdaf16, EagerSync
<1> QED
  BY <1>1, <1>2

(* THEOREM: deferring MAC16s is invisible (handle_mac16, enqueue_mac16 and *)
(* flush_pending_mac16): the deferring dispatcher implements the eager one.*)
THEOREM DeferredIsEager == Spec => ImplementsEager
  BY QInvInit, QInvNext, EagerInit, EagerNext, PTL DEF Spec, ImplementsEager, Eager!Spec

(* A write of one tile column leaves what the other columns read as, but   *)
(* for a row that it allocates: there they read as the fill.               *)
OtherColumnsKept(c) ==
  \A b \in Banks, r \in Rows, d \in Cols \ {c} :
    read_bank(b, r, d)' = IF <<b, r>> \in allocated' \ allocated
                          THEN RowFill(b, r, d) ELSE read_bank(b, r, d)

LEMMA WriteKeepsColumns ==
  ASSUME NEW bs, NEW c \in Cols, NEW value, write_banks(bs, c, value)
  PROVE  OtherColumnsKept(c)
<1> SUFFICES ASSUME NEW b \in Banks, NEW r \in Rows, NEW d \in Cols \ {c}
             PROVE  read_bank(b, r, d)' = IF <<b, r>> \in allocated' \ allocated
                                          THEN RowFill(b, r, d) ELSE read_bank(b, r, d)
  BY DEF OtherColumnsKept
<1>1. <<b, r>> \in allocated' <=> <<b, r>> \in allocated \/ (b \in bs /\ r = open_row[b])
  BY DEF write_banks
<1>2. CASE b \in bs /\ r = open_row[b]
  <2>1. bank_data'[b][r] = RowAfterWrite(b, r, c, value[b])
    BY <1>2 DEF write_banks
  <2> QED
    BY <1>1, <1>2, <2>1 DEF read_bank, RowAfterWrite
<1>3. CASE ~(b \in bs /\ r = open_row[b])
  <2>1. bank_data'[b][r] = bank_data[b][r]
    BY <1>3 DEF write_banks
  <2> QED
    BY <1>1, <1>3, <2>1 DEF read_bank
<1> QED
  BY <1>2, <1>3

LEMMA EwmulKeepsColumns ==
  ASSUME NEW gs, NEW c \in Cols, NEW done, handle_ewmul16(gs, c, done)
  PROVE  OtherColumnsKept(c)
<1> SUFFICES ASSUME NEW b \in Banks, NEW r \in Rows, NEW d \in Cols \ {c}
             PROVE  read_bank(b, r, d)' = IF <<b, r>> \in allocated' \ allocated
                                          THEN RowFill(b, r, d) ELSE read_bank(b, r, d)
  BY DEF OtherColumnsKept
<1> DEFINE Written == \E g \in done : b = EwmulMap[g].dest /\ r = open_row[EwmulMap[g].src_a]
<1>1. <<b, r>> \in allocated' <=> <<b, r>> \in allocated \/ Written
  BY DEF handle_ewmul16
<1>2. CASE Written
  <2>1. PICK v : bank_data'[b][r] = RowAfterWrite(b, r, c, v)
    BY <1>2 DEF handle_ewmul16
  <2> QED
    BY <1>1, <1>2, <2>1 DEF read_bank, RowAfterWrite
<1>3. CASE ~Written
  <2>1. bank_data'[b][r] = bank_data[b][r]
    BY <1>3 DEF handle_ewmul16
  <2> QED
    BY <1>1, <1>3, <2>1 DEF read_bank
<1> QED
  BY <1>2, <1>3

(* THEOREM: whatever rows are filled with, a command changes at most one   *)
(* tile of a row that has been written before, and leaves the fill in the  *)
(* others of a row that it is the first to write (ensure_row_allocated,    *)
(* write_bank).                                                            *)
THEOREM CommandsChangeOneTile == Spec => OneTilePerCommand
<1> DEFINE Kept == \A b \in Banks, r \in Rows : \E c \in Cols : \A d \in Cols \ {c} :
                     read_bank(b, r, d)' = IF <<b, r>> \in allocated' \ allocated
                                           THEN RowFill(b, r, d) ELSE read_bank(b, r, d)
<1>1. ASSUME NEW e \in Cols, OtherColumnsKept(e) PROVE Kept
  BY <1>1 DEF OtherColumnsKept
<1>2. ASSUME UNCHANGED <<bank_data, allocated>> PROVE Kept
  BY <1>2, DispatcherAssumption DEF read_bank
<1>3. ASSUME Next PROVE Kept
  <2>1. ASSUME NEW bs, NEW c \in Cols, NEW g, handle_wr(bs, c, g) PROVE Kept
    BY <1>1, <2>1, WriteKeepsColumns DEF handle_wr
  <2>2. ASSUME NEW b, NEW c \in Cols, handle_wrcp(b, c) PROVE Kept
    BY <1>1, <2>2, WriteKeepsColumns DEF handle_wrcp
  <2>3. ASSUME NEW gs, NEW c \in Cols, NEW done, handle_ewmul16(gs, c, done) PROVE Kept
    BY <1>1, <2>3, EwmulKeepsColumns
  <2>4. \/ UNCHANGED <<bank_data, allocated>>
        \/ \E bs \in SUBSET Banks, c \in Cols, g \in GprArgs : handle_wr(bs, c, g)
        \/ \E b \in Banks, c \in Cols : handle_wrcp(b, c)
        \/ \E gs \in SUBSET Groups, c \in Cols : \E done \in SUBSET gs : handle_ewmul16(gs, c, done)
    BY <1>3 DEF Next, handle_act, handle_pre, handle_wrgb, handle_wrmac16, handle_rd, handle_rdcp,
                handle_mac, handle_mac16, handle_af16, handle_rdmac16, handle_rdaf16, handle_sync
  <2> QED
    BY <1>2, <2>1, <2>2, <2>3, <2>4
<1>4. [Next]_vars => [Kept]_vars
  BY <1>3
<1> QED
  BY <1>4, PTL DEF Spec, OneTilePerCommand
=============================================================================
