---------------------------- MODULE AiMController ----------------------------
(***************************************************************************)
(* The AiMRTL memory controller (AiMRTL_dram_controller.cpp) of one        *)
(* channel, with the direct AiM path: request buffers, the scheduler's     *)
(* choice, the register-mode switch (TMOD), the compute gate, and the      *)
(* queues of issued requests.  Send and Tick are its two entry points.     *)
(*                                                                         *)
(* Times are relative to m_clk and age by one in each tick: `left' of an   *)
(* issued request is depart - m_clk, a slot's ready clock is the cycles    *)
(* until then.  No behaviour of the controller depends on m_clk itself.    *)
(***************************************************************************)
EXTENDS AiMComputeScoreboard, Sequences, FiniteSets

CONSTANTS Shapes,     \* the requests a frontend may send (see ShapeType)
          RefreshShape,
          Rows,
          BufferSize, \* of the read, write, AiM and priority buffers
          ActiveSize, \* of the active buffer
          Gating,     \* verilator.scoreboard_gating
          Latencies,  \* rtl_cycles a producer may take (0: it did not run)
          Timing(_, _, _), \* cycles from a command to one of a class, on its own
                           \* banks or on others
          Latency(_),   \* m_command_latencies
          MaxRequests,  \* bound on requests accepted, refreshes included
          StatCap       \* bound on the row-locality counters

VARIABLES m_read_buffer, m_write_buffer, m_aim_buffer, m_active_buffer, m_priority_buffer,
          pending_reads,   \* in issue order: [id, eoc, left]
          pending_writes,  \* [id, left]
          is_reg_RW_mode, m_is_write_mode,
          slots,           \* the scoreboard
          open,            \* DRAM: open row of each bank
          wait,            \* DRAM: per command class and bank, cycles until ready
          nrequests, completed, failed,
          row_stats        \* s_num_row_hits, _misses, _conflicts, saturating

buffers == <<m_read_buffer, m_write_buffer, m_aim_buffer, m_active_buffer, m_priority_buffer>>
pendings == <<pending_reads, pending_writes, completed>>
vars == <<buffers, pendings, is_reg_RW_mode, m_is_write_mode, slots, open, wait,
          nrequests, failed, row_stats>>

Closed == -1        \* no open row

(* A request: its type, the command that ends it, its address, and what    *)
(* the ISR table says of its opcode.                                       *)
ShapeType ==
  [type : {"Read", "Write", "AIM", "Refresh"}, final : STRING, bank : Banks \union {-1},
   row : Rows \union {-1}, ewmul_bg : Nat, reg : BOOLEAN, reader : BOOLEAN, eoc : BOOLEAN]

ASSUME ControllerAssumption ==
  /\ Shapes \subseteq ShapeType /\ RefreshShape \in ShapeType
  /\ BufferSize \in Nat \ {0}
  /\ ActiveSize \in Nat /\ IsFiniteSet(Banks) /\ ActiveSize > Cardinality(Banks)
  /\ Gating \in BOOLEAN /\ Latencies \subseteq Nat /\ MaxRequests \in Nat /\ StatCap \in Nat

(* The final commands that the device's request translations give, and the *)
(* opcodes that the controller takes for barriers.                         *)
ASSUME RequestAssumption ==
  /\ Closed \notin Rows
  /\ RefreshShape.type = "Refresh" /\ RefreshShape.final = "REFab" /\ ~RefreshShape.eoc
  /\ \A s \in Shapes :
       /\ s.type \in {"Read", "Write"} =>
            /\ s.final = (IF s.type = "Read" THEN "RD" ELSE "WR")
            /\ s.bank \in Banks /\ s.row \in Rows /\ ~s.eoc
       /\ s.eoc => s.final \in {"EOC", "SYNC"}
       /\ s.type # "Refresh" /\ s.final # "TMOD"
  /\ \A s \in Shapes \union {RefreshShape} : Latency(s.final) \in Nat

(* Classes of commands with the same timing constraints. *)
Classes == {"row", "rd", "wr", "reg"}

Init ==
  /\ m_read_buffer = << >> /\ m_write_buffer = << >> /\ m_aim_buffer = << >>
  /\ m_active_buffer = << >> /\ m_priority_buffer = << >>
  /\ pending_reads = << >> /\ pending_writes = {} /\ completed = {}
  /\ is_reg_RW_mode = FALSE /\ m_is_write_mode = FALSE
  /\ slots = reset
  /\ open = [b \in Banks |-> Closed] /\ wait = [k \in Classes |-> [b \in Banks |-> 0]]
  /\ nrequests = 0 /\ failed = FALSE
  /\ row_stats = [hits |-> 0, misses |-> 0, conflicts |-> 0]
-----------------------------------------------------------------------------
(* The DRAM device, as the controller uses it. *)
get_preq_command(s) ==
  LET all(r) == \A b \in Banks : open[b] = r
  IN  CASE s.final \in {"RD", "WR"} ->
             IF open[s.bank] = s.row THEN s.final
             ELSE IF open[s.bank] = Closed THEN "ACT" ELSE "PRE"
        [] s.final = "MAC16" ->
             IF all(s.row) THEN s.final ELSE IF all(Closed) THEN "ACT16" ELSE "PREA"
        [] s.final = "REFab" -> IF all(Closed) THEN s.final ELSE "PREA"
        [] OTHER -> s.final

ClassOf(cmd) ==
  CASE cmd \in {"RD", "MAC16"} -> "rd"
    [] cmd = "WR" -> "wr"
    [] cmd \in {"ACT", "PRE", "ACT16", "PREA", "REFab"} -> "row"
    [] OTHER -> "reg"

Aged(n) == IF n > 0 THEN n - 1 ELSE n

BanksOf(s) == IF s.bank = -1 THEN Banks ELSE {s.bank}

(* In the tick that is being taken, after m_clk++. *)
check_ready(cmd, s) == \A b \in BanksOf(s) : Aged(wait[ClassOf(cmd)][b]) = 0

AgedWait == [k \in Classes |-> [b \in Banks |-> Aged(wait[k][b])]]

issue_command(cmd, s) ==
  /\ open' = [b \in Banks |->
                CASE cmd = "ACT" /\ b = s.bank -> s.row
                  [] cmd = "PRE" /\ b = s.bank -> Closed
                  [] cmd = "ACT16" -> s.row
                  [] cmd = "PREA" -> Closed
                  [] OTHER -> open[b]]
  /\ wait' = [k \in Classes |-> [b \in Banks |->
                Later(AgedWait[k][b], Timing(cmd, k, b \in BanksOf(s)))]]
-----------------------------------------------------------------------------
(* Mutant: buffered reads do not keep AiM requests out. *)
MutReadsAdmitAiM(s) == IF s.type = "AIM" THEN m_write_buffer # << >> ELSE m_aim_buffer # << >>

(***************************************************************************)
(* send: AiM requests wait outside while reads or writes are buffered, and *)
(* the other way round; a full buffer refuses.  A read of an address with  *)
(* a buffered write is answered in the next cycle.                         *)
(***************************************************************************)
Refused(s) ==
  IF s.type = "AIM" THEN m_read_buffer # << >> \/ m_write_buffer # << >>
  ELSE m_aim_buffer # << >>

Forwarded(s) ==
  s.type = "Read" /\ \E i \in DOMAIN m_write_buffer :
    m_write_buffer[i].s.bank = s.bank /\ m_write_buffer[i].s.row = s.row

(* Mutant: one request too many fits. *)
MutOneTooMany(buffer) ==
  /\ Len(buffer) <= BufferSize
  /\ nrequests' = nrequests + 1

(* ReqBuffer::enqueue *)
enqueue(buffer) ==
  /\ Len(buffer) < BufferSize
  /\ nrequests' = nrequests + 1

NewId(s) == <<s.type, nrequests + 1>>

Queued(s) == [id |-> NewId(s), s |-> s, issued |-> FALSE]

send(s) ==
  /\ ~failed /\ nrequests < MaxRequests /\ ~Refused(s)
  /\ \/ /\ Forwarded(s)
        /\ nrequests' = nrequests + 1
        /\ pending_reads' = Append(pending_reads, [id |-> NewId(s), eoc |-> FALSE, left |-> 1])
        /\ UNCHANGED <<m_read_buffer, m_write_buffer, m_aim_buffer>>
     \/ /\ ~Forwarded(s) /\ s.type = "Read" /\ enqueue(m_read_buffer)
        /\ m_read_buffer' = Append(m_read_buffer, Queued(s))
        /\ UNCHANGED <<pending_reads, m_write_buffer, m_aim_buffer>>
     \/ /\ s.type = "Write" /\ enqueue(m_write_buffer)
        /\ m_write_buffer' = Append(m_write_buffer, Queued(s))
        /\ UNCHANGED <<pending_reads, m_read_buffer, m_aim_buffer>>
     \/ /\ s.type = "AIM" /\ enqueue(m_aim_buffer)
        /\ m_aim_buffer' = Append(m_aim_buffer, Queued(s))
        /\ UNCHANGED <<pending_reads, m_read_buffer, m_write_buffer>>
  /\ UNCHANGED <<m_active_buffer, m_priority_buffer, pending_writes, completed,
                 is_reg_RW_mode, m_is_write_mode, slots, open, wait, failed, row_stats>>

(* priority_send, by the refresh manager: it may come in any tick, before  *)
(* the scheduler looks.                                                    *)
priority_send(s) ==
  /\ ~failed /\ nrequests < MaxRequests /\ enqueue(m_priority_buffer)
  /\ m_priority_buffer' = Append(m_priority_buffer, Queued(s))
  /\ UNCHANGED <<m_read_buffer, m_write_buffer, m_aim_buffer, m_active_buffer, pendings,
                 is_reg_RW_mode, m_is_write_mode, slots, open, wait, failed, row_stats>>
-----------------------------------------------------------------------------
(* Mutant: EOC and SYNC do not wait for pending writes. *)
MutEocIgnoresWrites == pending_reads # << >> /\ Aged(Head(pending_reads).left) = 0

(* serve_completed_reqs: the head of pending_reads, at most one per tick;  *)
(* EOC and SYNC only when no write is pending.  Then every write that is   *)
(* due.                                                                    *)
HeadServed ==
  /\ pending_reads # << >>
  /\ Aged(Head(pending_reads).left) = 0
  /\ Head(pending_reads).eoc => pending_writes = {}

(* Mutant: a due head is popped even when it may not be served yet. *)
MutPopsUnserved ==
  LET due  == pending_reads # << >> /\ Aged(Head(pending_reads).left) = 0
      rest == IF due THEN Tail(pending_reads) ELSE pending_reads
  IN  [i \in DOMAIN rest |-> [rest[i] EXCEPT !.left = Aged(@)]]

ServedReads ==
  LET rest == IF HeadServed THEN Tail(pending_reads) ELSE pending_reads
  IN  [i \in DOMAIN rest |-> [rest[i] EXCEPT !.left = Aged(@)]]

AgedWrites == {[id |-> w.id, left |-> Aged(w.left)] : w \in pending_writes}

ServedWrites == {w \in AgedWrites : w.left > 0}

Completions ==
  {w.id : w \in AgedWrites \ ServedWrites} \union
  (IF HeadServed THEN {Head(pending_reads).id} ELSE {})

(* The slots as gate_status sees them in this tick, at clock 0. *)
AgedSlots ==
  [x \in Slots |-> [slots[x] EXCEPT !.issue_ready_clk = Aged(@), !.visible_ready_clk = Aged(@)]]

make_compute_op(cmd, s) == [command |-> cmd, arg |-> IF cmd = "MAC" THEN s.bank ELSE s.ewmul_bg]

(* Mutant: the current mode is not looked at. *)
MutAlwaysTmod(s) == s.type = "AIM" /\ s.reg

will_issue_tmod(s) == s.type = "AIM" /\ s.reg /\ ~is_reg_RW_mode

(* passes_direct_aim_compute_gate: only the command that ends an AiM       *)
(* request is gated, and not when a TMOD goes out in its place.            *)
GateStatus(cmd, s) ==
  LET op == make_compute_op(cmd, s)
  IN  IF s.type # "AIM" \/ will_issue_tmod(s) \/ cmd # s.final \/ op \notin ComputeOps
        THEN "Pass"
        ELSE gate_status(AgedSlots, op, 0)

(* Mutant: the controller never returns to reads. *)
MutStaysInWriteMode ==
  m_is_write_mode \/ 10 * Len(m_write_buffer) > 8 * BufferSize \/ m_read_buffer = << >>

set_write_mode ==
  IF ~m_is_write_mode
    THEN 10 * Len(m_write_buffer) > 8 * BufferSize \/ m_read_buffer = << >>
    ELSE ~(10 * Len(m_write_buffer) < 2 * BufferSize /\ m_read_buffer # << >>)

(* get_best_request: the oldest ready request, or the oldest. *)
get_best_request(buffer) ==
  LET ready == {i \in DOMAIN buffer : check_ready(get_preq_command(buffer[i].s), buffer[i].s)}
      pool  == IF ready = {} THEN DOMAIN buffer ELSE ready
  IN  CHOOSE i \in pool : \A j \in pool : i <= j

Choice(name, buffer, i) ==
  LET s == buffer[i].s
      cmd == IF s.eoc THEN s.final ELSE get_preq_command(s)
  IN  [buffer |-> name, index |-> i, req |-> buffer[i], cmd |-> cmd,
       status |-> IF s.eoc THEN "Pass"
                  ELSE IF ~check_ready(cmd, s) THEN "NotReady" ELSE GateStatus(cmd, s)]

NoChoice == [buffer |-> "none", status |-> "NotReady"]

BestOf(name, buffer) ==
  IF buffer = << >> THEN NoChoice ELSE Choice(name, buffer, get_best_request(buffer))

ActiveGoes == BestOf("active", m_active_buffer).status = "Pass"

(* Mutant: the active buffer is looked at when no other buffer has a request that can go. *)
MutActiveLast ==
  LET other == IF m_priority_buffer # << >> THEN Choice("priority", m_priority_buffer, 1)
               ELSE IF m_aim_buffer # << >> THEN Choice("aim", m_aim_buffer, 1)
               ELSE IF set_write_mode THEN BestOf("write", m_write_buffer)
               ELSE BestOf("read", m_read_buffer)
  IN  IF other.status = "NotReady" /\ ActiveGoes THEN BestOf("active", m_active_buffer) ELSE other

(* The request schedule_request looks at: the active buffer's best if it   *)
(* can go, else the head of the priority buffer, which lets nothing pass   *)
(* it, else the head of the AiM buffer, else the best read or write.       *)
Considered ==
  IF ActiveGoes THEN BestOf("active", m_active_buffer)
  ELSE IF m_priority_buffer # << >> THEN Choice("priority", m_priority_buffer, 1)
  ELSE IF m_aim_buffer # << >> THEN Choice("aim", m_aim_buffer, 1)
  ELSE IF set_write_mode THEN BestOf("write", m_write_buffer)
  ELSE BestOf("read", m_read_buffer)

(* Step 3 of schedule_request: a request may not close the row group of a  *)
(* request in the active buffer; an all-bank request has no row group.     *)
ClosesActiveRow(c) ==
  c.cmd \in {"PRE", "PREA"} /\ c.req.s.bank # -1 /\
  \E i \in DOMAIN m_active_buffer : m_active_buffer[i].s.bank = c.req.s.bank

request_found(c) == c.status = "Pass" /\ ~ClosesActiveRow(c)

(* account_row_locality_once, for the AiM request that is considered.      *)
account_row_locality_once(c) ==
  LET class == CASE c.cmd = c.req.s.final -> "hits"
                 [] c.cmd \in {"ACT", "ACT4", "ACT16"} -> "misses"
                 [] c.cmd \in {"PRE", "PRE4", "PREA"} -> "conflicts"
  IN  IF c.buffer = "aim" /\ ~c.req.s.eoc /\ ~c.req.issued /\ row_stats[class] < StatCap
        THEN [row_stats EXCEPT ![class] = @ + 1] ELSE row_stats
-----------------------------------------------------------------------------
(* Request c.index of buffer c.buffer becomes `new' (one request or none). *)
Updated(c, name, buffer, new) ==
  IF c.buffer # name THEN buffer
  ELSE SubSeq(buffer, 1, c.index - 1) \o new \o SubSeq(buffer, c.index + 1, Len(buffer))

ReplaceRequest(c, new) ==
  /\ m_read_buffer' = Updated(c, "read", m_read_buffer, new)
  /\ m_write_buffer' = Updated(c, "write", m_write_buffer, new)
  /\ m_aim_buffer' = Updated(c, "aim", m_aim_buffer, new)
  /\ m_priority_buffer' = Updated(c, "priority", m_priority_buffer, new)

(* What every tick does before and beside issuing. *)
TickBookkeeping(c) ==
  /\ ~failed
  /\ completed' = completed \union Completions
  /\ m_is_write_mode' = IF ActiveGoes \/ m_priority_buffer # << >> \/ m_aim_buffer # << >>
                          THEN m_is_write_mode ELSE set_write_mode
  /\ row_stats' = IF c.buffer = "none" THEN row_stats ELSE account_row_locality_once(c)
  /\ UNCHANGED nrequests

(* Nothing can be issued in this tick. *)
TickStall(c) ==
  /\ ~request_found(c) /\ c.status # "MissingProducer"
  /\ TickBookkeeping(c)
  /\ pending_reads' = ServedReads /\ pending_writes' = ServedWrites
  /\ slots' = AgedSlots /\ wait' = AgedWait
  /\ UNCHANGED <<buffers, is_reg_RW_mode, open, failed>>

(* EOC and SYNC are not issued to the DRAM: they wait in pending_reads.    *)
TickBarrier(c) ==
  /\ request_found(c) /\ c.req.s.eoc
  /\ TickBookkeeping(c)
  /\ pending_reads' = Append(ServedReads, [id |-> c.req.id, eoc |-> TRUE, left |-> 0])
  /\ pending_writes' = ServedWrites
  /\ ReplaceRequest(c, << >>)
  /\ slots' = AgedSlots /\ wait' = AgedWait
  /\ UNCHANGED <<m_active_buffer, is_reg_RW_mode, open, failed>>

NeedsTmod(s) == s.reg # is_reg_RW_mode

(* The rtl_cycles that the dispatcher may return for what is issued.       *)
dispatch(c) ==
  IF c.status = "Pass" /\ c.req.s.type = "AIM" /\ ~NeedsTmod(c.req.s)
     /\ make_compute_op(c.cmd, c.req.s) \in Producers
    THEN Latencies ELSE {0}

(* note_compute_ready, if the dispatched command ran on the RTL unit.      *)
NotedSlots(cmd, s, rtl) ==
  LET noted == note_ready(AgedSlots, make_compute_op(cmd, s), 0, IF Gating THEN rtl ELSE 0)
  IN  IF rtl > 0
        THEN [x \in Slots |-> [noted[x] EXCEPT !.produced_epoch = IF @ > 0 THEN 1 ELSE 0]]
        ELSE AgedSlots

(***************************************************************************)
(* A command goes out: a TMOD in its place if the register mode must       *)
(* change, else a row command or the command that ends the request.  A     *)
(* read or write whose row is being opened moves to the active buffer,     *)
(* which drops it when it is full.                                         *)
(***************************************************************************)
TickIssue(c, rtl) ==
  LET s == c.req.s
      cmd == IF NeedsTmod(s) THEN "TMOD" ELSE c.cmd
      ends == cmd = s.final
      opens == s.type # "AIM" /\ cmd \in {"ACT", "ACT16"}
      req == [c.req EXCEPT !.issued = TRUE]
  IN  /\ request_found(c) /\ ~s.eoc
      /\ TickBookkeeping(c)
      /\ is_reg_RW_mode' = s.reg
      /\ issue_command(cmd, s)
      /\ slots' = NotedSlots(cmd, s, rtl)
      /\ pending_reads' = IF ends /\ s.reader
                            THEN Append(ServedReads, [id |-> req.id, eoc |-> FALSE, left |-> Latency(cmd)])
                            ELSE ServedReads
      /\ pending_writes' = IF ends /\ ~s.reader
                             THEN ServedWrites \union {[id |-> req.id, left |-> Latency(cmd)]}
                             ELSE ServedWrites
      /\ ReplaceRequest(c, IF ends \/ opens THEN << >> ELSE <<req>>)
      /\ m_active_buffer' = Updated(c, "active", m_active_buffer, IF ends \/ opens THEN << >> ELSE <<req>>)
                            \o (IF opens /\ Len(m_active_buffer) < ActiveSize THEN <<req>> ELSE << >>)
      /\ UNCHANGED failed

(* A read of results that were never produced throws. *)
TickThrows(c) ==
  /\ ~failed /\ c.status = "MissingProducer"
  /\ failed' = TRUE
  /\ UNCHANGED <<buffers, pendings, is_reg_RW_mode, m_is_write_mode, slots, open, wait,
                 nrequests, row_stats>>

tick ==
  \E c \in {Considered} :
    TickStall(c) \/ TickBarrier(c) \/ (\E rtl \in dispatch(c) : TickIssue(c, rtl)) \/ TickThrows(c)

Next ==
  \/ \E s \in Shapes : send(s)
  \/ priority_send(RefreshShape)
  \/ tick

(* The memory system ticks the controller in every cycle. *)
Spec == Init /\ [][Next]_vars /\ WF_vars(tick)
-----------------------------------------------------------------------------
Ids(buffer) == {buffer[i].id : i \in DOMAIN buffer}

InBuffers ==
  Ids(m_read_buffer) \union Ids(m_write_buffer) \union Ids(m_aim_buffer)
  \union Ids(m_active_buffer) \union Ids(m_priority_buffer)

InFlight == Ids(pending_reads) \union {w.id : w \in pending_writes}

TypeOK ==
  /\ \A b \in {m_read_buffer, m_write_buffer, m_aim_buffer, m_priority_buffer} : Len(b) <= BufferSize
  /\ Len(m_active_buffer) <= ActiveSize
  /\ open \in [Banks -> Rows \union {Closed}]
  /\ is_reg_RW_mode \in BOOLEAN /\ m_is_write_mode \in BOOLEAN /\ failed \in BOOLEAN
  /\ \A x \in Slots : slots[x].issue_ready_clk >= -1
  /\ nrequests \in 0..MaxRequests

(***************************************************************************)
(* A request the controller accepted is in exactly one place until it      *)
(* completes: moving it to the active or the pending queues neither loses  *)
(* nor duplicates it (tick, and the unchecked enqueue to the active        *)
(* buffer).                                                                *)
(***************************************************************************)
ExactlyOnePlace ==
  /\ Len(m_read_buffer) + Len(m_write_buffer) + Len(m_aim_buffer) + Len(m_active_buffer)
       + Len(m_priority_buffer) + Len(pending_reads) + Cardinality(pending_writes)
       + Cardinality(completed) = nrequests
  /\ Cardinality(InBuffers \union InFlight \union completed) = nrequests

(* At most one request waits for the row of a bank it has opened.  So the  *)
(* active buffer needs one entry more than there are banks: a request of   *)
(* its own that opens its row again is enqueued before it is removed.      *)
OneActivePerBank ==
  \A i, j \in DOMAIN m_active_buffer :
    m_active_buffer[i].s.bank = m_active_buffer[j].s.bank => i = j

(* AiM requests and plain reads and writes are never buffered together.    *)
ArchExclusive == m_aim_buffer # << >> => m_read_buffer = << >> /\ m_write_buffer = << >>

(***************************************************************************)
(* EOC and SYNC are barriers for AiM requests: when one completes, every   *)
(* AiM request that was accepted before it has completed.                  *)
(***************************************************************************)
EocBarrier ==
  [][\A e \in {pending_reads[i] : i \in DOMAIN pending_reads} :
       e.eoc /\ e.id \in completed' =>
         \A x \in InBuffers \union InFlight : x[1] = "AIM" => x[2] >= e.id[2]]_vars

(***************************************************************************)
(* A compute command that leaves the AiM buffer passed the scoreboard in   *)
(* that very cycle, whatever mode switch went before it: the gate is only  *)
(* skipped in ticks that issue a TMOD (will_issue_tmod against the test in *)
(* tick).                                                                  *)
(***************************************************************************)
FinalsPassGate ==
  [][m_aim_buffer # << >> /\ Len(m_aim_buffer') < Len(m_aim_buffer) =>
       LET s == Head(m_aim_buffer).s
           op == make_compute_op(s.final, s)
       IN  op \in ComputeOps => gate_status(AgedSlots, op, 0) = "Pass"]_vars

(* Every accepted request completes, unless the run is aborted. *)
AllServed == (InBuffers \union InFlight # {}) ~> (InBuffers \union InFlight = {} \/ failed)

(***************************************************************************)
(* "number of AIM requests classified as ..." (the descriptions of the     *)
(* row_hits, row_misses and row_conflicts statistics): a request is        *)
(* counted at most once.                                                   *)
(***************************************************************************)
LocalityCountsRequests ==
  row_stats.hits + row_stats.misses + row_stats.conflicts <= nrequests
=============================================================================
