------------------------ MODULE AiMControllerProofs ------------------------
(***************************************************************************)
(* Proofs about the memory controller: for any buffer sizes, any number of *)
(* banks, rows and requests, any mix of request shapes, and any timing.    *)
(***************************************************************************)
EXTENDS AiMController, SequenceTheorems, FiniteSetTheorems, WellFoundedInduction, TLAPS

(* The shapes of a request type, and the requests in a buffer of it.       *)
ShapesOf(t) == {s \in Shapes \union {RefreshShape} : s.type = t}

Requests(t) == [id : {t} \X Nat, s : ShapesOf(t), issued : BOOLEAN]

Plain == Requests("Read") \union Requests("Write")

BuffersOK ==
  /\ m_read_buffer \in Seq(Requests("Read"))
  /\ m_write_buffer \in Seq(Requests("Write"))
  /\ m_aim_buffer \in Seq(Requests("AIM"))
  /\ m_priority_buffer \in Seq(Requests("Refresh"))
  /\ m_active_buffer \in Seq(Plain)
-----------------------------------------------------------------------------
(* Sequences without one element, and with one element replaced.           *)

LEMMA Parts ==
  ASSUME NEW S, NEW b \in Seq(S), NEW i \in 1 .. Len(b)
  PROVE  /\ SubSeq(b, 1, i - 1) \in Seq(S) /\ Len(SubSeq(b, 1, i - 1)) = i - 1
         /\ \A j \in 1 .. i - 1 : SubSeq(b, 1, i - 1)[j] = b[j]
         /\ SubSeq(b, i + 1, Len(b)) \in Seq(S) /\ Len(SubSeq(b, i + 1, Len(b))) = Len(b) - i
         /\ \A j \in 1 .. Len(b) - i : SubSeq(b, i + 1, Len(b))[j] = b[i + j]
<1>1. Len(b) \in Nat /\ \A j \in 1 .. Len(b) : b[j] \in S
  BY LenProperties, ElementOfSeq
<1>2. \A j \in 1 .. i - 1 : b[j] \in S
  BY <1>1
<1>3. \A j \in i + 1 .. Len(b) : b[j] \in S
  BY <1>1
<1>4. /\ SubSeq(b, 1, i - 1) \in Seq(S) /\ Len(SubSeq(b, 1, i - 1)) = i - 1
      /\ \A j \in 1 .. i - 1 : SubSeq(b, 1, i - 1)[j] = b[j]
  <2>1. i - 1 \in Int /\ 1 \in Int
    OBVIOUS
  <2> QED
    BY <1>1, <1>2, <2>1, SubSeqProperties
<1>5. /\ SubSeq(b, i + 1, Len(b)) \in Seq(S) /\ Len(SubSeq(b, i + 1, Len(b))) = Len(b) - i
      /\ \A j \in 1 .. Len(b) - i : SubSeq(b, i + 1, Len(b))[j] = b[i + j]
  <2>1. i + 1 \in Int /\ Len(b) \in Int
    BY <1>1
  <2>2. /\ SubSeq(b, i + 1, Len(b)) \in Seq(S)
        /\ Len(SubSeq(b, i + 1, Len(b))) = IF i + 1 <= Len(b) THEN Len(b) - (i + 1) + 1 ELSE 0
        /\ \A j \in 1 .. Len(b) - (i + 1) + 1 : SubSeq(b, i + 1, Len(b))[j] = b[(i + 1) + j - 1]
    BY <1>3, <2>1, SubSeqProperties
  <2> QED
    BY <1>1, <2>2
<1> QED
  BY <1>4, <1>5

(* Element i of b becomes the elements of m. *)
Spliced(b, i, m) == SubSeq(b, 1, i - 1) \o m \o SubSeq(b, i + 1, Len(b))

LEMMA WithoutIs ==
  ASSUME NEW S, NEW b \in Seq(S), NEW i \in 1 .. Len(b)
  PROVE  /\ Spliced(b, i, << >>) \in Seq(S) /\ Len(Spliced(b, i, << >>)) = Len(b) - 1
         /\ \A j \in 1 .. Len(b) - 1 :
              Spliced(b, i, << >>)[j] = IF j < i THEN b[j] ELSE b[j + 1]
<1> DEFINE h == SubSeq(b, 1, i - 1)
           t == SubSeq(b, i + 1, Len(b))
<1>1. /\ h \in Seq(S) /\ Len(h) = i - 1 /\ \A j \in 1 .. i - 1 : h[j] = b[j]
      /\ t \in Seq(S) /\ Len(t) = Len(b) - i /\ \A j \in 1 .. Len(b) - i : t[j] = b[i + j]
  BY Parts
<1>2. Len(b) \in Nat
  BY LenProperties
<1> HIDE DEF h, t
<1>3. h \o << >> = h
  BY <1>1, ConcatEmptySeq
<1>4. /\ h \o t \in Seq(S) /\ Len(h \o t) = Len(h) + Len(t)
      /\ \A j \in 1 .. Len(h) + Len(t) : (h \o t)[j] = IF j <= Len(h) THEN h[j] ELSE t[j - Len(h)]
  BY <1>1, ConcatProperties
<1>5. /\ h \o t \in Seq(S) /\ Len(h \o t) = Len(b) - 1
      /\ \A j \in 1 .. Len(b) - 1 : (h \o t)[j] = IF j < i THEN b[j] ELSE b[j + 1]
  BY <1>1, <1>2, <1>4
<1>6. Spliced(b, i, << >>) = h \o t
  BY <1>3 DEF Spliced, h, t
<1> QED
  BY <1>5, <1>6

(* Two buffers of the same requests, but for what is noted in them.        *)
SameRequests(w, b) ==
  /\ Len(w) = Len(b)
  /\ \A j \in 1 .. Len(b) : w[j].id = b[j].id /\ w[j].s = b[j].s

LEMMA ReplacedIs ==
  ASSUME NEW S, NEW b \in Seq(S), NEW i \in 1 .. Len(b), NEW r \in S,
         r.id = b[i].id, r.s = b[i].s
  PROVE  Spliced(b, i, <<r>>) \in Seq(S) /\ SameRequests(Spliced(b, i, <<r>>), b)
<1> DEFINE m == <<r>>
           h == SubSeq(b, 1, i - 1)
           t == SubSeq(b, i + 1, Len(b))
           k == h \o m
           v == k \o t
<1>1. h \in Seq(S) /\ Len(h) = i - 1 /\ \A j \in 1 .. i - 1 : h[j] = b[j]
  BY Parts
<1>2. t \in Seq(S) /\ Len(t) = Len(b) - i /\ \A j \in 1 .. Len(b) - i : t[j] = b[i + j]
  BY Parts
<1>3. Len(b) \in Nat /\ m \in Seq(S) /\ Len(m) = 1 /\ m[1] = r
  BY LenProperties
<1> HIDE DEF h, t, m
<1>4. /\ k \in Seq(S) /\ Len(k) = Len(h) + Len(m)
      /\ \A j \in 1 .. Len(h) + Len(m) : k[j] = IF j <= Len(h) THEN h[j] ELSE m[j - Len(h)]
  BY <1>1, <1>3, ConcatProperties
<1> HIDE DEF k
<1>5. /\ v \in Seq(S) /\ Len(v) = Len(k) + Len(t)
      /\ \A j \in 1 .. Len(k) + Len(t) : v[j] = IF j <= Len(k) THEN k[j] ELSE t[j - Len(k)]
  <2>1. k \in Seq(S) /\ t \in Seq(S)
    BY <1>2, <1>4
  <2> QED
    BY <2>1, ConcatProperties
<1> HIDE DEF v
<1>6. Len(k) = i /\ Len(v) = Len(b)
  BY <1>1, <1>2, <1>3, <1>4, <1>5
<1>7. k[i] = r
  BY <1>1, <1>3, <1>4
<1>8. \A j \in 1 .. i - 1 : k[j] = b[j]
  BY <1>1, <1>3, <1>4
<1>9. v[i] = r
  BY <1>3, <1>5, <1>6, <1>7
<1>10. \A j \in 1 .. i - 1 : v[j] = b[j]
  BY <1>3, <1>5, <1>6, <1>8
<1>11. ASSUME NEW j \in i + 1 .. Len(b) PROVE v[j] = b[j]
  <2>1. j \in 1 .. Len(k) + Len(t) /\ ~(j <= Len(k)) /\ j - Len(k) \in 1 .. Len(b) - i
    BY <1>2, <1>3, <1>6
  <2>2. v[j] = t[j - Len(k)] /\ t[j - Len(k)] = b[i + (j - Len(k))]
    BY <1>2, <1>5, <2>1
  <2> QED
    BY <1>3, <1>6, <2>2
<1>12. \A j \in 1 .. Len(b) : j # i => j \in 1 .. i - 1 \/ j \in i + 1 .. Len(b)
  BY <1>3
<1>13. Spliced(b, i, <<r>>) = v
  BY DEF Spliced, v, k, h, t, m
<1>14. ASSUME NEW j \in 1 .. Len(b) PROVE v[j].id = b[j].id /\ v[j].s = b[j].s
  <2>1. CASE j = i
    BY <1>9, <2>1
  <2>2. CASE j # i
    BY <1>10, <1>11, <1>12, <2>2
  <2> QED
    BY <2>1, <2>2
<1>15. v \in Seq(S) /\ SameRequests(v, b)
  BY <1>5, <1>6, <1>14 DEF SameRequests
<1> QED
  BY <1>13, <1>15

(* What a tick does to the buffer it takes a request from, and to another. *)
LEMMA OtherBuffer ==
  ASSUME NEW c, NEW name, NEW b, NEW new, c.buffer # name
  PROVE  Updated(c, name, b, new) = b
  BY DEF Updated

LEMMA TakenOut ==
  ASSUME NEW S, NEW b \in Seq(S), NEW c, NEW name, c.buffer = name, c.index \in 1 .. Len(b),
         NEW w, w = Updated(c, name, b, << >>)
  PROVE  /\ w \in Seq(S) /\ Len(w) = Len(b) - 1
         /\ \A j \in 1 .. Len(b) - 1 : w[j] = IF j < c.index THEN b[j] ELSE b[j + 1]
<1> DEFINE i == c.index
<1>1. w = Spliced(b, i, << >>) /\ i \in 1 .. Len(b)
  BY DEF Updated, Spliced
<1> HIDE DEF i
<1>2. /\ w \in Seq(S) /\ Len(w) = Len(b) - 1
      /\ \A j \in 1 .. Len(b) - 1 : w[j] = IF j < i THEN b[j] ELSE b[j + 1]
  BY <1>1, WithoutIs
<1> QED
  BY <1>2 DEF i

LEMMA PutBack ==
  ASSUME NEW S, NEW b \in Seq(S), NEW c, NEW name, c.buffer = name, c.index \in 1 .. Len(b),
         NEW r \in S, r.id = b[c.index].id, r.s = b[c.index].s,
         NEW w, w = Updated(c, name, b, <<r>>)
  PROVE  w \in Seq(S) /\ SameRequests(w, b)
<1> DEFINE i == c.index
<1>1. w = Spliced(b, i, <<r>>) /\ i \in 1 .. Len(b) /\ r.id = b[i].id /\ r.s = b[i].s
  BY DEF Updated, Spliced
<1> HIDE DEF i
<1> QED
  BY <1>1, ReplacedIs
-----------------------------------------------------------------------------
(* What the scheduler's choice is.                                         *)

Ready(buffer) ==
  {i \in DOMAIN buffer : check_ready(get_preq_command(buffer[i].s), buffer[i].s)}

LEMMA LeastElement ==
  ASSUME NEW T, T \subseteq Nat, T # {}
  PROVE  \E i \in T : \A j \in T : i <= j
<1> DEFINE Less == {ss \in Nat \X Nat : ss[1] < ss[2]}
<1>1. IsWellFoundedOn(Less, Nat)
  BY NatLessThanWellFounded DEF OpToRel, Less
<1>2. PICK x \in T : \A y \in T : <<y, x>> \notin Less
  BY <1>1, WFMin
<1>3. ASSUME NEW y \in T PROVE x <= y
  <2>1. x \in Nat /\ y \in Nat
    OBVIOUS
  <2>2. <<y, x>> \in Less <=> y < x
    BY <2>1 DEF Less
  <2> QED
    BY <1>2, <2>1, <2>2
<1> QED
  BY <1>3

(* The best request is in the buffer, and it is a ready one if there is    *)
(* any.                                                                    *)
LEMMA BestIs ==
  ASSUME NEW S, NEW b \in Seq(S), b # << >>
  PROVE  /\ get_best_request(b) \in 1 .. Len(b)
         /\ Ready(b) # {} => get_best_request(b) \in Ready(b)
<1>1. DOMAIN b = 1 .. Len(b) /\ Len(b) \in Nat /\ Len(b) # 0
  BY LenProperties, EmptySeq
<1> DEFINE ready == Ready(b)
           pool == IF ready = {} THEN DOMAIN b ELSE ready
<1>2. ready \subseteq DOMAIN b
  BY DEF Ready
<1>3. pool # {} /\ pool \subseteq 1 .. Len(b) /\ (ready # {} => pool = ready)
  BY <1>1, <1>2
<1>4. get_best_request(b) = CHOOSE i \in pool : \A j \in pool : i <= j
  BY DEF get_best_request, Ready
<1> HIDE DEF pool
<1>5. \E i \in pool : \A j \in pool : i <= j
  <2>1. pool \subseteq Nat
    BY <1>1, <1>3
  <2> QED
    BY <1>3, <2>1, LeastElement
<1>6. get_best_request(b) \in pool
  BY <1>4, <1>5
<1> QED
  BY <1>3, <1>6

ChosenFrom(c, name, b) ==
  /\ b # << >>
  /\ c.buffer = name /\ c.index \in 1 .. Len(b) /\ c.req = b[c.index]
  /\ c.cmd = IF c.req.s.eoc THEN c.req.s.final ELSE get_preq_command(c.req.s)
  /\ c.status = IF c.req.s.eoc THEN "Pass"
                ELSE IF ~check_ready(c.cmd, c.req.s) THEN "NotReady"
                ELSE GateStatus(c.cmd, c.req.s)

LEMMA ChoiceIs ==
  ASSUME NEW name, NEW b, b # << >>, NEW i \in 1 .. Len(b)
  PROVE  ChosenFrom(Choice(name, b, i), name, b) /\ Choice(name, b, i).index = i
BY DEF ChosenFrom, Choice

LEMMA BestOfIs ==
  ASSUME NEW S, NEW b \in Seq(S), NEW name
  PROVE  \/ b = << >> /\ BestOf(name, b) = NoChoice
         \/ ChosenFrom(BestOf(name, b), name, b)
<1>1. CASE b = << >>
  BY <1>1 DEF BestOf
<1>2. CASE b # << >>
  BY <1>2, BestIs, ChoiceIs DEF BestOf
<1> QED
  BY <1>1, <1>2

LEMMA Chosen ==
  ASSUME BuffersOK, NEW c, c = Considered
  PROVE  \/ c = NoChoice
         \/ ActiveGoes /\ ChosenFrom(c, "active", m_active_buffer)
         \/ ~ActiveGoes /\ ChosenFrom(c, "priority", m_priority_buffer) /\ c.index = 1
         \/ ~ActiveGoes /\ ChosenFrom(c, "aim", m_aim_buffer) /\ c.index = 1
         \/ ~ActiveGoes /\ ChosenFrom(c, "write", m_write_buffer)
         \/ ~ActiveGoes /\ ChosenFrom(c, "read", m_read_buffer)
<1>1. CASE ActiveGoes
  <2>1. BestOf("active", m_active_buffer) # NoChoice
    BY <1>1 DEF ActiveGoes, NoChoice
  <2> QED
    BY <1>1, <2>1, BestOfIs DEF Considered, BuffersOK
<1>2. CASE ~ActiveGoes /\ m_priority_buffer # << >>
  <2>1. 1 \in 1 .. Len(m_priority_buffer)
    BY <1>2, LenProperties, EmptySeq DEF BuffersOK
  <2> QED
    BY <1>2, <2>1, ChoiceIs DEF Considered
<1>3. CASE ~ActiveGoes /\ m_priority_buffer = << >> /\ m_aim_buffer # << >>
  <2>1. 1 \in 1 .. Len(m_aim_buffer)
    BY <1>3, LenProperties, EmptySeq DEF BuffersOK
  <2> QED
    BY <1>3, <2>1, ChoiceIs DEF Considered
<1>4. CASE ~ActiveGoes /\ m_priority_buffer = << >> /\ m_aim_buffer = << >> /\ set_write_mode
  BY <1>4, BestOfIs DEF Considered, BuffersOK
<1>5. CASE ~ActiveGoes /\ m_priority_buffer = << >> /\ m_aim_buffer = << >> /\ ~set_write_mode
  BY <1>5, BestOfIs DEF Considered, BuffersOK
<1> QED
  BY <1>1, <1>2, <1>3, <1>4, <1>5
-----------------------------------------------------------------------------
(* What a tick leaves in the buffers.                                      *)

Marked(r) == [r EXCEPT !.issued = TRUE]

LEMMA MarkedIs ==
  ASSUME NEW t, NEW r \in Requests(t)
  PROVE  Marked(r) \in Requests(t) /\ Marked(r).id = r.id /\ Marked(r).s = r.s
BY DEF Marked, Requests

LEMMA MarkedPlain ==
  ASSUME NEW r \in Plain
  PROVE  Marked(r) \in Plain /\ Marked(r).id = r.id /\ Marked(r).s = r.s
BY MarkedIs DEF Plain

(* A buffer after the tick: without the chosen request, or with it noted.  *)
LEMMA Shrinks ==
  ASSUME NEW S, NEW b \in Seq(S), NEW c, NEW name, NEW new, NEW w, w = Updated(c, name, b, new),
         c.buffer = name => c.index \in 1 .. Len(b) /\ c.req = b[c.index],
         \A r \in S : Marked(r) \in S /\ Marked(r).id = r.id /\ Marked(r).s = r.s,
         new = << >> \/ new = <<Marked(c.req)>>
  PROVE  /\ w \in Seq(S) /\ Len(w) <= Len(b)
         /\ c.buffer # name => w = b
         /\ c.buffer = name /\ new = << >> => Len(w) = Len(b) - 1
         /\ new # << >> => SameRequests(w, b)
<1>1. Len(b) \in Nat
  BY LenProperties
<1>2. CASE c.buffer # name
  <2>1. w = b
    BY <1>2, OtherBuffer
  <2>2. SameRequests(b, b)
    BY DEF SameRequests
  <2> QED
    BY <1>1, <1>2, <2>1, <2>2
<1>3. CASE c.buffer = name /\ new = << >>
  BY <1>1, <1>3, TakenOut
<1>4. CASE c.buffer = name /\ new = <<Marked(c.req)>>
  <2>1. c.req \in S
    BY <1>4, ElementOfSeq
  <2>2. w \in Seq(S) /\ SameRequests(w, b)
    BY <1>4, <2>1, PutBack
  <2>3. Len(w) = Len(b)
    BY <2>2 DEF SameRequests
  <2> QED
    BY <1>1, <1>4, <2>2, <2>3
<1> QED
  BY <1>2, <1>3, <1>4

(* All buffers, when the request that is considered is found: w is what is *)
(* left of the active buffer, before a request joins it.                   *)
LEMMA BuffersAfter ==
  ASSUME BuffersOK, NEW c, c = Considered, request_found(c), NEW new,
         new = << >> \/ new = <<Marked(c.req)>>, ReplaceRequest(c, new),
         NEW w, w = Updated(c, "active", m_active_buffer, new)
  PROVE  /\ m_read_buffer' \in Seq(Requests("Read")) /\ Len(m_read_buffer') <= Len(m_read_buffer)
         /\ m_write_buffer' \in Seq(Requests("Write")) /\ Len(m_write_buffer') <= Len(m_write_buffer)
         /\ m_aim_buffer' \in Seq(Requests("AIM")) /\ Len(m_aim_buffer') <= Len(m_aim_buffer)
         /\ m_priority_buffer' \in Seq(Requests("Refresh"))
         /\ Len(m_priority_buffer') <= Len(m_priority_buffer)
         /\ w \in Seq(Plain) /\ Len(w) <= Len(m_active_buffer)
         /\ c.buffer = "active" /\ new = << >> => Len(w) = Len(m_active_buffer) - 1
<1>1. c # NoChoice
  BY DEF request_found, NoChoice
<1>2. /\ c.buffer = "read" => ChosenFrom(c, "read", m_read_buffer)
      /\ c.buffer = "write" => ChosenFrom(c, "write", m_write_buffer)
      /\ c.buffer = "aim" => ChosenFrom(c, "aim", m_aim_buffer)
      /\ c.buffer = "priority" => ChosenFrom(c, "priority", m_priority_buffer)
      /\ c.buffer = "active" => ChosenFrom(c, "active", m_active_buffer)
  BY <1>1, Chosen DEF ChosenFrom
<1>3. /\ c.buffer = "read" => c.index \in 1 .. Len(m_read_buffer) /\ c.req = m_read_buffer[c.index]
      /\ c.buffer = "write" => c.index \in 1 .. Len(m_write_buffer) /\ c.req = m_write_buffer[c.index]
      /\ c.buffer = "aim" => c.index \in 1 .. Len(m_aim_buffer) /\ c.req = m_aim_buffer[c.index]
      /\ c.buffer = "priority" =>
           c.index \in 1 .. Len(m_priority_buffer) /\ c.req = m_priority_buffer[c.index]
      /\ c.buffer = "active" =>
           c.index \in 1 .. Len(m_active_buffer) /\ c.req = m_active_buffer[c.index]
  BY <1>2 DEF ChosenFrom
<1>4. m_read_buffer' \in Seq(Requests("Read")) /\ Len(m_read_buffer') <= Len(m_read_buffer)
  <2>1. /\ m_read_buffer \in Seq(Requests("Read"))
        /\ m_read_buffer' = Updated(c, "read", m_read_buffer, new)
    BY DEF BuffersOK, ReplaceRequest
  <2> QED
    BY <1>3, <2>1, MarkedIs, Shrinks
<1>5. m_write_buffer' \in Seq(Requests("Write")) /\ Len(m_write_buffer') <= Len(m_write_buffer)
  <2>1. /\ m_write_buffer \in Seq(Requests("Write"))
        /\ m_write_buffer' = Updated(c, "write", m_write_buffer, new)
    BY DEF BuffersOK, ReplaceRequest
  <2> QED
    BY <1>3, <2>1, MarkedIs, Shrinks
<1>6. m_aim_buffer' \in Seq(Requests("AIM")) /\ Len(m_aim_buffer') <= Len(m_aim_buffer)
  <2>1. /\ m_aim_buffer \in Seq(Requests("AIM"))
        /\ m_aim_buffer' = Updated(c, "aim", m_aim_buffer, new)
    BY DEF BuffersOK, ReplaceRequest
  <2> QED
    BY <1>3, <2>1, MarkedIs, Shrinks
<1>7. /\ m_priority_buffer' \in Seq(Requests("Refresh"))
      /\ Len(m_priority_buffer') <= Len(m_priority_buffer)
  <2>1. /\ m_priority_buffer \in Seq(Requests("Refresh"))
        /\ m_priority_buffer' = Updated(c, "priority", m_priority_buffer, new)
    BY DEF BuffersOK, ReplaceRequest
  <2> QED
    BY <1>3, <2>1, MarkedIs, Shrinks
<1>8. /\ w \in Seq(Plain) /\ Len(w) <= Len(m_active_buffer)
      /\ c.buffer = "active" /\ new = << >> => Len(w) = Len(m_active_buffer) - 1
  BY <1>3, MarkedPlain, Shrinks DEF BuffersOK
<1> QED
  BY <1>4, <1>5, <1>6, <1>7, <1>8
-----------------------------------------------------------------------------
(* The types of the rest of the state.                                     *)

RequestId == {"Read", "Write", "AIM", "Refresh"} \X Nat

PendingRead == [id : RequestId, eoc : BOOLEAN, left : Nat]

PendingWrite == [id : RequestId, left : Nat]

Clock == {n \in Int : n >= -1}

Slot == [issue_ready_clk : Clock, visible_ready_clk : Clock, produced_epoch : Nat]

QueuesOK ==
  /\ pending_reads \in Seq(PendingRead)
  /\ pending_writes \in SUBSET PendingWrite
  /\ completed \in SUBSET RequestId

StateOK == BuffersOK /\ QueuesOK /\ TypeOK /\ slots \in [Slots -> Slot]

LEMMA AgedIs == \A n \in Nat : Aged(n) \in Nat
BY DEF Aged

LEMMA AgedClock == \A n \in Clock : Aged(n) \in Clock
BY DEF Aged, Clock

LEMMA LaterClock == \A m, n \in Clock : Later(m, n) \in Clock
BY DEF Later, Clock

(* serve_completed_reqs leaves queues of the same kind.                    *)
LEMMA ServedOK ==
  ASSUME QueuesOK
  PROVE  /\ ServedReads \in Seq(PendingRead)
         /\ ServedWrites \in SUBSET PendingWrite
         /\ Completions \in SUBSET RequestId
<1> DEFINE rest == IF HeadServed THEN Tail(pending_reads) ELSE pending_reads
<1>1. rest \in Seq(PendingRead)
  <2>1. CASE HeadServed
    BY <2>1, HeadTailProperties DEF QueuesOK, HeadServed
  <2>2. CASE ~HeadServed
    BY <2>2 DEF QueuesOK
  <2> QED
    BY <2>1, <2>2
<1>2. ServedReads = [i \in DOMAIN rest |-> [rest[i] EXCEPT !.left = Aged(@)]]
  BY DEF ServedReads
<1> HIDE DEF rest
<1>3. DOMAIN rest = 1 .. Len(rest) /\ Len(rest) \in Nat
  BY <1>1, LenProperties
<1>4. ASSUME NEW i \in 1 .. Len(rest) PROVE [rest[i] EXCEPT !.left = Aged(@)] \in PendingRead
  <2>1. rest[i] \in PendingRead
    BY <1>1, ElementOfSeq
  <2> QED
    BY <2>1, AgedIs DEF PendingRead
<1>5. ServedReads \in Seq(PendingRead)
  BY <1>2, <1>3, <1>4, IsASeq
<1>6. AgedWrites \in SUBSET PendingWrite
  BY AgedIs DEF AgedWrites, QueuesOK, PendingWrite
<1>7. ServedWrites \in SUBSET PendingWrite
  BY <1>6 DEF ServedWrites
<1>8. Completions \in SUBSET RequestId
  <2>1. HeadServed => Head(pending_reads) \in PendingRead
    BY HeadTailProperties DEF QueuesOK, HeadServed
  <2>2. HeadServed => Head(pending_reads).id \in RequestId
    BY <2>1 DEF PendingRead
  <2>3. \A w \in AgedWrites : w.id \in RequestId
    BY <1>6 DEF PendingWrite
  <2> QED
    BY <2>2, <2>3 DEF Completions
<1> QED
  BY <1>5, <1>7, <1>8

LEMMA AgedSlotsOK ==
  ASSUME slots \in [Slots -> Slot]
  PROVE  AgedSlots \in [Slots -> Slot]
<1>1. ASSUME NEW x \in Slots
      PROVE  [slots[x] EXCEPT !.issue_ready_clk = Aged(@), !.visible_ready_clk = Aged(@)] \in Slot
  <2>1. slots[x] \in Slot
    OBVIOUS
  <2> QED
    BY <2>1, AgedClock DEF Slot
<1> QED
  BY <1>1 DEF AgedSlots

LEMMA NoteReadyOK ==
  ASSUME NEW sl \in [Slots -> Slot], NEW op, NEW r \in Nat
  PROVE  note_ready(sl, op, 0, r) \in [Slots -> Slot]
<1>1. 0 + r \in Clock
  BY DEF Clock
<1>2. ASSUME NEW x \in Slots
      PROVE  [issue_ready_clk   |-> Later(sl[x].issue_ready_clk, 0 + r),
              visible_ready_clk |-> Later(sl[x].visible_ready_clk, 0 + r),
              produced_epoch    |-> sl[x].produced_epoch + 1] \in Slot
  <2>1. sl[x] \in Slot
    OBVIOUS
  <2>2. sl[x].issue_ready_clk \in Clock /\ sl[x].visible_ready_clk \in Clock
        /\ sl[x].produced_epoch + 1 \in Nat
    BY <2>1 DEF Slot
  <2> QED
    BY <1>1, <2>2, LaterClock DEF Slot
<1> QED
  BY <1>2 DEF note_ready

LEMMA NotedSlotsOK ==
  ASSUME slots \in [Slots -> Slot], NEW cmd, NEW s, NEW rtl \in Nat
  PROVE  NotedSlots(cmd, s, rtl) \in [Slots -> Slot]
<1> DEFINE r == IF Gating THEN rtl ELSE 0
           noted == note_ready(AgedSlots, make_compute_op(cmd, s), 0, r)
<1>1. noted \in [Slots -> Slot]
  <2>1. r \in Nat
    OBVIOUS
  <2> HIDE DEF r
  <2> QED
    BY <2>1, AgedSlotsOK, NoteReadyOK
<1>2. NotedSlots(cmd, s, rtl) =
        IF rtl > 0 THEN [x \in Slots |-> [noted[x] EXCEPT !.produced_epoch = IF @ > 0 THEN 1 ELSE 0]]
        ELSE AgedSlots
  BY DEF NotedSlots
<1> HIDE DEF noted
<1>3. ASSUME NEW x \in Slots
      PROVE  [noted[x] EXCEPT !.produced_epoch = IF @ > 0 THEN 1 ELSE 0] \in Slot
  <2>1. noted[x] \in Slot
    BY <1>1
  <2> QED
    BY <2>1 DEF Slot
<1> QED
  BY <1>2, <1>3, AgedSlotsOK

LEMMA ShapeIs ==
  ASSUME NEW t, NEW r \in Requests(t), t \in {"Read", "Write", "AIM", "Refresh"}
  PROVE  /\ r.id \in RequestId /\ r.s \in Shapes \union {RefreshShape} /\ r.s.type = t
         /\ r.s.row \in Rows \union {Closed} /\ r.s.reg \in BOOLEAN /\ r.s.eoc \in BOOLEAN
         /\ Latency(r.s.final) \in Nat
<1>1. r.s \in ShapesOf(t) /\ r.id \in RequestId
  BY DEF Requests, RequestId
<1>2. r.s \in ShapeType /\ r.s \in Shapes \union {RefreshShape} /\ r.s.type = t
  BY <1>1, ControllerAssumption DEF ShapesOf
<1>3. r.s.row \in Rows \union {Closed} /\ r.s.reg \in BOOLEAN /\ r.s.eoc \in BOOLEAN
  BY <1>2 DEF ShapeType, Closed
<1>4. Latency(r.s.final) \in Nat
  BY <1>2, RequestAssumption
<1> QED
  BY <1>1, <1>2, <1>3, <1>4

(* The request that is found, and the buffer it is in.                     *)
LEMMA Found ==
  ASSUME BuffersOK, NEW c, c = Considered, request_found(c)
  PROVE  /\ \/ ActiveGoes /\ ChosenFrom(c, "active", m_active_buffer) /\ c.req \in Plain
            \/ /\ ~ActiveGoes /\ ChosenFrom(c, "priority", m_priority_buffer)
               /\ c.index = 1 /\ c.req \in Requests("Refresh")
            \/ /\ ~ActiveGoes /\ ChosenFrom(c, "aim", m_aim_buffer)
               /\ c.index = 1 /\ c.req \in Requests("AIM")
            \/ ~ActiveGoes /\ ChosenFrom(c, "write", m_write_buffer) /\ c.req \in Requests("Write")
            \/ ~ActiveGoes /\ ChosenFrom(c, "read", m_read_buffer) /\ c.req \in Requests("Read")
         /\ \E t \in {"Read", "Write", "AIM", "Refresh"} : c.req \in Requests(t)
<1>1. c # NoChoice
  BY DEF request_found, NoChoice
<1>2. \A S : \A b \in Seq(S) : \A name : ChosenFrom(c, name, b) => c.req \in S
  BY ElementOfSeq DEF ChosenFrom
<1>3. /\ ChosenFrom(c, "active", m_active_buffer) => c.req \in Plain
      /\ ChosenFrom(c, "priority", m_priority_buffer) => c.req \in Requests("Refresh")
      /\ ChosenFrom(c, "aim", m_aim_buffer) => c.req \in Requests("AIM")
      /\ ChosenFrom(c, "write", m_write_buffer) => c.req \in Requests("Write")
      /\ ChosenFrom(c, "read", m_read_buffer) => c.req \in Requests("Read")
  BY <1>2 DEF BuffersOK
<1>4. c.req \in Plain => \E t \in {"Read", "Write", "AIM", "Refresh"} : c.req \in Requests(t)
  BY DEF Plain
<1> QED
  BY <1>1, <1>3, <1>4, Chosen

LEMMA OpenOK ==
  ASSUME open \in [Banks -> Rows \union {Closed}], NEW cmd, NEW s, issue_command(cmd, s),
         s.row \in Rows \union {Closed}
  PROVE  open' \in [Banks -> Rows \union {Closed}]
<1>1. ASSUME NEW b \in Banks
      PROVE  (CASE cmd = "ACT" /\ b = s.bank -> s.row
               [] cmd = "PRE" /\ b = s.bank -> Closed
               [] cmd = "ACT16" -> s.row
               [] cmd = "PREA" -> Closed
               [] OTHER -> open[b]) \in Rows \union {Closed}
  <2>1. open[b] \in Rows \union {Closed}
    OBVIOUS
  <2> QED
    BY <2>1
<1> QED
  BY <1>1 DEF issue_command

(* Joining the active buffer. *)
Joined(w, new) == w \o new

LEMMA JoinedIs ==
  ASSUME NEW S, NEW w \in Seq(S), NEW r \in S
  PROVE  Joined(w, <<r>>) = Append(w, r)
BY AppendIsConcat DEF Joined

LEMMA JoinedNone ==
  ASSUME NEW S, NEW w \in Seq(S)
  PROVE  Joined(w, << >>) = w
BY ConcatEmptySeq DEF Joined
-----------------------------------------------------------------------------
(* Type correctness, one lemma per action.                                 *)

LEMMA QueuedOK ==
  ASSUME nrequests \in Nat, NEW s \in Shapes \union {RefreshShape}
  PROVE  /\ Queued(s) \in Requests(s.type) /\ NewId(s) \in RequestId
         /\ s.type \in {"Read", "Write", "AIM", "Refresh"}
<1>1. s \in ShapeType
  BY ControllerAssumption
<1>2. s.type \in {"Read", "Write", "AIM", "Refresh"}
  BY <1>1 DEF ShapeType
<1>3. s \in ShapesOf(s.type)
  BY DEF ShapesOf
<1>4. NewId(s) \in {s.type} \X Nat
  BY DEF NewId
<1> QED
  BY <1>2, <1>3, <1>4 DEF Queued, Requests, RequestId

LEMMA InitOK == Init => StateOK
<1> SUFFICES ASSUME Init PROVE StateOK
  OBVIOUS
<1>1. BuffersOK
  BY DEF Init, BuffersOK
<1>2. QueuesOK
  BY DEF Init, QueuesOK
<1>3. slots \in [Slots -> Slot]
  BY DEF Init, reset, Slot, Clock
<1>4. TypeOK
  <2>1. is_reg_RW_mode \in BOOLEAN /\ m_is_write_mode \in BOOLEAN /\ failed \in BOOLEAN
    BY Zenon DEF Init
  <2>2. \A x \in Slots : slots[x].issue_ready_clk >= -1
    BY DEF Init, reset
  <2>3. open \in [Banks -> Rows \union {Closed}]
    BY DEF Init
  <2>4. nrequests \in 0 .. MaxRequests
    BY ControllerAssumption DEF Init
  <2>5. /\ \A b \in {m_read_buffer, m_write_buffer, m_aim_buffer, m_priority_buffer} : Len(b) <= BufferSize
        /\ Len(m_active_buffer) = 0
    BY ControllerAssumption DEF Init
  <2>6. Len(m_active_buffer) <= ActiveSize
    BY <2>5, ControllerAssumption
  <2> QED
    BY <2>1, <2>2, <2>3, <2>4, <2>5, <2>6 DEF TypeOK
<1> QED
  BY <1>1, <1>2, <1>3, <1>4 DEF StateOK

(* What the invariant says of numbers and flags. *)
LEMMA Basics ==
  ASSUME StateOK
  PROVE  /\ nrequests \in Nat /\ nrequests <= MaxRequests /\ MaxRequests \in Nat
         /\ BufferSize \in Nat
         /\ Len(m_read_buffer) \in Nat /\ Len(m_read_buffer) <= BufferSize
         /\ Len(m_write_buffer) \in Nat /\ Len(m_write_buffer) <= BufferSize
         /\ Len(m_aim_buffer) \in Nat /\ Len(m_aim_buffer) <= BufferSize
         /\ Len(m_priority_buffer) \in Nat /\ Len(m_priority_buffer) <= BufferSize
         /\ Len(m_active_buffer) \in Nat /\ Len(m_active_buffer) <= ActiveSize
<1>1. /\ Len(m_read_buffer) \in Nat /\ Len(m_write_buffer) \in Nat /\ Len(m_aim_buffer) \in Nat
      /\ Len(m_priority_buffer) \in Nat /\ Len(m_active_buffer) \in Nat
  BY LenProperties DEF StateOK, BuffersOK
<1>2. nrequests \in Nat /\ nrequests <= MaxRequests /\ MaxRequests \in Nat /\ BufferSize \in Nat
  BY ControllerAssumption DEF StateOK, TypeOK
<1> QED
  BY <1>1, <1>2 DEF StateOK, TypeOK

LEMMA SendOK ==
  ASSUME StateOK, NEW s \in Shapes, send(s)
  PROVE  StateOK'
<1>1. s.type \in {"Read", "Write", "AIM", "Refresh"} /\ Queued(s) \in Requests(s.type)
      /\ NewId(s) \in RequestId
  BY Basics, QueuedOK
<1>2. /\ UNCHANGED <<m_active_buffer, m_priority_buffer, pending_writes, completed,
                     is_reg_RW_mode, m_is_write_mode, slots, open, failed>>
      /\ nrequests < MaxRequests
  BY DEF send
<1>3. QueuesOK /\ BuffersOK /\ TypeOK
  BY DEF StateOK
<1>4. CASE /\ s.type = "Read" /\ nrequests' = nrequests + 1
           /\ pending_reads' = Append(pending_reads, [id |-> NewId(s), eoc |-> FALSE, left |-> 1])
           /\ UNCHANGED <<m_read_buffer, m_write_buffer, m_aim_buffer>>
  <2>1. [id |-> NewId(s), eoc |-> FALSE, left |-> 1] \in PendingRead
    BY <1>1 DEF PendingRead
  <2>2. pending_reads' \in Seq(PendingRead)
    BY <1>3, <1>4, <2>1, AppendProperties DEF QueuesOK
  <2>3. QueuesOK'
    BY <1>2, <1>3, <2>2 DEF QueuesOK
  <2>4. BuffersOK'
    BY <1>2, <1>3, <1>4 DEF BuffersOK
  <2>5. TypeOK'
    BY <1>2, <1>3, <1>4, Basics DEF TypeOK
  <2> QED
    BY <1>2, <2>3, <2>4, <2>5 DEF StateOK
<1>5. CASE /\ s.type = "Read" /\ enqueue(m_read_buffer)
           /\ m_read_buffer' = Append(m_read_buffer, Queued(s))
           /\ UNCHANGED <<pending_reads, m_write_buffer, m_aim_buffer>>
  <2>1. /\ m_read_buffer' \in Seq(Requests("Read")) /\ Len(m_read_buffer') = Len(m_read_buffer) + 1
        /\ Len(m_read_buffer) < BufferSize /\ nrequests' = nrequests + 1
    BY <1>1, <1>3, <1>5, AppendProperties DEF BuffersOK, enqueue
  <2>2. BuffersOK' /\ QueuesOK'
    BY <1>2, <1>3, <1>5, <2>1 DEF BuffersOK, QueuesOK
  <2>3. TypeOK'
    BY <1>2, <1>3, <1>5, <2>1, Basics DEF TypeOK
  <2> QED
    BY <1>2, <2>2, <2>3 DEF StateOK
<1>6. CASE /\ s.type = "Write" /\ enqueue(m_write_buffer)
           /\ m_write_buffer' = Append(m_write_buffer, Queued(s))
           /\ UNCHANGED <<pending_reads, m_read_buffer, m_aim_buffer>>
  <2>1. /\ m_write_buffer' \in Seq(Requests("Write")) /\ Len(m_write_buffer') = Len(m_write_buffer) + 1
        /\ Len(m_write_buffer) < BufferSize /\ nrequests' = nrequests + 1
    BY <1>1, <1>3, <1>6, AppendProperties DEF BuffersOK, enqueue
  <2>2. BuffersOK' /\ QueuesOK'
    BY <1>2, <1>3, <1>6, <2>1 DEF BuffersOK, QueuesOK
  <2>3. TypeOK'
    BY <1>2, <1>3, <1>6, <2>1, Basics DEF TypeOK
  <2> QED
    BY <1>2, <2>2, <2>3 DEF StateOK
<1>7. CASE /\ s.type = "AIM" /\ enqueue(m_aim_buffer)
           /\ m_aim_buffer' = Append(m_aim_buffer, Queued(s))
           /\ UNCHANGED <<pending_reads, m_read_buffer, m_write_buffer>>
  <2>1. /\ m_aim_buffer' \in Seq(Requests("AIM")) /\ Len(m_aim_buffer') = Len(m_aim_buffer) + 1
        /\ Len(m_aim_buffer) < BufferSize /\ nrequests' = nrequests + 1
    BY <1>1, <1>3, <1>7, AppendProperties DEF BuffersOK, enqueue
  <2>2. BuffersOK' /\ QueuesOK'
    BY <1>2, <1>3, <1>7, <2>1 DEF BuffersOK, QueuesOK
  <2>3. TypeOK'
    BY <1>2, <1>3, <1>7, <2>1, Basics DEF TypeOK
  <2> QED
    BY <1>2, <2>2, <2>3 DEF StateOK
<1> QED
  BY <1>4, <1>5, <1>6, <1>7, Zenon DEF send, Forwarded

LEMMA PrioritySendOK ==
  ASSUME StateOK, priority_send(RefreshShape)
  PROVE  StateOK'
<1>1. Queued(RefreshShape) \in Requests("Refresh")
  BY Basics, QueuedOK, RequestAssumption
<1>2. BuffersOK /\ QueuesOK /\ TypeOK
  BY DEF StateOK
<1>3. /\ m_priority_buffer' \in Seq(Requests("Refresh"))
      /\ Len(m_priority_buffer') = Len(m_priority_buffer) + 1
      /\ Len(m_priority_buffer) < BufferSize /\ nrequests' = nrequests + 1 /\ nrequests < MaxRequests
  BY <1>1, <1>2, AppendProperties DEF BuffersOK, priority_send, enqueue
<1>4. BuffersOK' /\ QueuesOK'
  BY <1>2, <1>3 DEF BuffersOK, QueuesOK, priority_send, pendings
<1>5. TypeOK'
  BY <1>2, <1>3, Basics DEF TypeOK, priority_send
<1> QED
  BY <1>4, <1>5 DEF StateOK, priority_send

(* What every tick does. *)
LEMMA BookkeepingOK ==
  ASSUME StateOK, NEW c, TickBookkeeping(c)
  PROVE  /\ completed' \in SUBSET RequestId /\ m_is_write_mode' \in BOOLEAN
         /\ nrequests' = nrequests
<1>1. completed' \in SUBSET RequestId
  BY ServedOK DEF TickBookkeeping, StateOK, QueuesOK
<1>2. set_write_mode \in BOOLEAN
  BY DEF set_write_mode
<1>3. m_is_write_mode' \in BOOLEAN
  BY <1>2 DEF TickBookkeeping, StateOK, TypeOK
<1> QED
  BY <1>1, <1>3 DEF TickBookkeeping

LEMMA SlotsTyped ==
  ASSUME NEW sl \in [Slots -> Slot]
  PROVE  \A x \in Slots : sl[x].issue_ready_clk >= -1
<1> TAKE x \in Slots
<1>1. sl[x] \in Slot
  OBVIOUS
<1> QED
  BY <1>1 DEF Slot, Clock

LEMMA StallOK ==
  ASSUME StateOK, NEW c, c = Considered, TickStall(c)
  PROVE  StateOK'
<1>1. BuffersOK /\ QueuesOK /\ TypeOK
  BY DEF StateOK
<1>2. completed' \in SUBSET RequestId /\ m_is_write_mode' \in BOOLEAN /\ nrequests' = nrequests
  BY BookkeepingOK DEF TickStall
<1>3. slots' \in [Slots -> Slot]
  BY AgedSlotsOK DEF StateOK, TickStall
<1>4. \A x \in Slots : slots'[x].issue_ready_clk >= -1
  BY <1>3, SlotsTyped
<1>5. UNCHANGED <<buffers, is_reg_RW_mode, open, failed>>
  BY DEF TickStall
<1>6. BuffersOK'
  BY <1>1, <1>5 DEF BuffersOK, buffers
<1>7. QueuesOK'
  BY <1>1, <1>2, ServedOK DEF QueuesOK, TickStall
<1>8. TypeOK'
  BY <1>1, <1>2, <1>4, <1>5 DEF TypeOK, buffers
<1> QED
  BY <1>3, <1>6, <1>7, <1>8 DEF StateOK

LEMMA BarrierOK ==
  ASSUME StateOK, NEW c, c = Considered, TickBarrier(c)
  PROVE  StateOK'
<1>1. BuffersOK /\ QueuesOK /\ TypeOK
  BY DEF StateOK
<1>2. completed' \in SUBSET RequestId /\ m_is_write_mode' \in BOOLEAN /\ nrequests' = nrequests
  BY BookkeepingOK DEF TickBarrier
<1>3. slots' \in [Slots -> Slot]
  BY AgedSlotsOK DEF StateOK, TickBarrier
<1>4. \A x \in Slots : slots'[x].issue_ready_clk >= -1
  BY <1>3, SlotsTyped
<1>5. UNCHANGED <<m_active_buffer, is_reg_RW_mode, open, failed>>
  BY DEF TickBarrier
<1>6. request_found(c) /\ ReplaceRequest(c, << >>)
  BY DEF TickBarrier
<1>7. /\ m_read_buffer' \in Seq(Requests("Read")) /\ Len(m_read_buffer') <= Len(m_read_buffer)
      /\ m_write_buffer' \in Seq(Requests("Write")) /\ Len(m_write_buffer') <= Len(m_write_buffer)
      /\ m_aim_buffer' \in Seq(Requests("AIM")) /\ Len(m_aim_buffer') <= Len(m_aim_buffer)
      /\ m_priority_buffer' \in Seq(Requests("Refresh"))
      /\ Len(m_priority_buffer') <= Len(m_priority_buffer)
  BY <1>1, <1>6, BuffersAfter
<1>8. BuffersOK'
  BY <1>1, <1>5, <1>7 DEF BuffersOK
<1>9. QueuesOK'
  <2>1. c.req.id \in RequestId
    BY <1>1, <1>6, Found, ShapeIs
  <2>2. [id |-> c.req.id, eoc |-> TRUE, left |-> 0] \in PendingRead
    BY <2>1 DEF PendingRead
  <2>3. ServedReads \in Seq(PendingRead) /\ ServedWrites \in SUBSET PendingWrite
    BY <1>1, ServedOK
  <2>4. pending_reads' \in Seq(PendingRead)
    BY <2>2, <2>3, AppendProperties DEF TickBarrier
  <2> QED
    BY <1>2, <2>3, <2>4 DEF QueuesOK, TickBarrier
<1>10. TypeOK'
  <2>1. /\ Len(m_read_buffer') <= BufferSize /\ Len(m_write_buffer') <= BufferSize
        /\ Len(m_aim_buffer') <= BufferSize /\ Len(m_priority_buffer') <= BufferSize
    <3>1. /\ Len(m_read_buffer') \in Nat /\ Len(m_write_buffer') \in Nat
          /\ Len(m_aim_buffer') \in Nat /\ Len(m_priority_buffer') \in Nat
      BY <1>7, LenProperties
    <3> QED
      BY <1>7, <3>1, Basics
  <2> QED
    BY <1>1, <1>2, <1>4, <1>5, <2>1 DEF TypeOK
<1> QED
  BY <1>3, <1>8, <1>9, <1>10 DEF StateOK

(* What is issued: cmd, of request r, which then leaves its buffer or is   *)
(* noted in it.                                                            *)
Issued(c) == IF NeedsTmod(c.req.s) THEN "TMOD" ELSE c.cmd

Opens(c) == c.req.s.type # "AIM" /\ Issued(c) \in {"ACT", "ACT16"}

Leaves(c) == Issued(c) = c.req.s.final \/ Opens(c)

NewIn(c) == IF Leaves(c) THEN << >> ELSE <<Marked(c.req)>>

LEMMA IssueIs ==
  ASSUME NEW c, NEW rtl, TickIssue(c, rtl)
  PROVE  /\ request_found(c) /\ ~c.req.s.eoc /\ TickBookkeeping(c)
         /\ is_reg_RW_mode' = c.req.s.reg /\ issue_command(Issued(c), c.req.s)
         /\ slots' = NotedSlots(Issued(c), c.req.s, rtl)
         /\ pending_reads' = IF Issued(c) = c.req.s.final /\ c.req.s.reader
              THEN Append(ServedReads, [id |-> Marked(c.req).id, eoc |-> FALSE, left |-> Latency(Issued(c))])
              ELSE ServedReads
         /\ pending_writes' = IF Issued(c) = c.req.s.final /\ ~c.req.s.reader
              THEN ServedWrites \union {[id |-> Marked(c.req).id, left |-> Latency(Issued(c))]}
              ELSE ServedWrites
         /\ ReplaceRequest(c, NewIn(c))
         /\ m_active_buffer' =
              Joined(Updated(c, "active", m_active_buffer, NewIn(c)),
                     IF Opens(c) /\ Len(m_active_buffer) < ActiveSize THEN <<Marked(c.req)>> ELSE << >>)
         /\ UNCHANGED failed
BY Zenon DEF TickIssue, Issued, Opens, Leaves, NewIn, Marked, Joined

(* Only a read or a write opens a row and waits for it. *)
LEMMA OpensPlain ==
  ASSUME BuffersOK, NEW c, c = Considered, request_found(c), ~c.req.s.eoc, Opens(c)
  PROVE  /\ c.req \in Plain /\ ~NeedsTmod(c.req.s) /\ c.cmd = "ACT"
         /\ get_preq_command(c.req.s) = "ACT" /\ check_ready("ACT", c.req.s)
         /\ c.req.s.final \in {"RD", "WR"}
<1>1. PICK t \in {"Read", "Write", "AIM", "Refresh"} : c.req \in Requests(t)
  BY Found
<1>2. c.req.s \in ShapesOf(t) /\ c.req.s.type = t
  BY <1>1 DEF Requests, ShapesOf
<1>3. t # "AIM" /\ c.cmd \in {"ACT", "ACT16"} /\ ~NeedsTmod(c.req.s)
  BY <1>2, Zenon DEF Opens, Issued
<1>4. c.cmd = get_preq_command(c.req.s) /\ check_ready(c.cmd, c.req.s)
  <2>1. /\ c.cmd = IF c.req.s.eoc THEN c.req.s.final ELSE get_preq_command(c.req.s)
        /\ c.status = IF c.req.s.eoc THEN "Pass"
                      ELSE IF ~check_ready(c.cmd, c.req.s) THEN "NotReady"
                      ELSE GateStatus(c.cmd, c.req.s)
    BY Found DEF ChosenFrom
  <2> QED
    BY <2>1 DEF request_found
<1>5. t # "Refresh"
  <2>1. SUFFICES ASSUME t = "Refresh" PROVE FALSE
    OBVIOUS
  <2>2. c.req.s = RefreshShape
    BY <1>2, <2>1, RequestAssumption DEF ShapesOf
  <2>3. get_preq_command(c.req.s) \in {"REFab", "PREA"}
    BY <2>2, RequestAssumption DEF get_preq_command
  <2> QED
    BY <1>3, <1>4, <2>3
<1>6. c.req \in Plain
  BY <1>1, <1>3, <1>5 DEF Plain
<1>7. c.req.s.final \in {"RD", "WR"}
  BY <1>2, <1>3, <1>5, RequestAssumption DEF ShapesOf
<1>8. get_preq_command(c.req.s) # "ACT16"
  BY <1>7 DEF get_preq_command
<1> QED
  BY <1>3, <1>4, <1>6, <1>7, <1>8

LEMMA IssueOK ==
  ASSUME StateOK, NEW c, c = Considered, NEW rtl \in dispatch(c), TickIssue(c, rtl)
  PROVE  StateOK'
<1> DEFINE w == Updated(c, "active", m_active_buffer, NewIn(c))
           there == Opens(c) /\ Len(m_active_buffer) < ActiveSize
<1>1. BuffersOK /\ QueuesOK /\ TypeOK /\ slots \in [Slots -> Slot]
  BY DEF StateOK
<1>2. /\ request_found(c) /\ ~c.req.s.eoc /\ ReplaceRequest(c, NewIn(c))
      /\ m_active_buffer' = Joined(w, IF there THEN <<Marked(c.req)>> ELSE << >>)
      /\ failed' = failed
  BY IssueIs
<1>3. completed' \in SUBSET RequestId /\ m_is_write_mode' \in BOOLEAN /\ nrequests' = nrequests
  BY BookkeepingOK, IssueIs
<1>4. NewIn(c) = << >> \/ NewIn(c) = <<Marked(c.req)>>
  BY DEF NewIn
<1>5. /\ m_read_buffer' \in Seq(Requests("Read")) /\ Len(m_read_buffer') <= Len(m_read_buffer)
      /\ m_write_buffer' \in Seq(Requests("Write")) /\ Len(m_write_buffer') <= Len(m_write_buffer)
      /\ m_aim_buffer' \in Seq(Requests("AIM")) /\ Len(m_aim_buffer') <= Len(m_aim_buffer)
      /\ m_priority_buffer' \in Seq(Requests("Refresh"))
      /\ Len(m_priority_buffer') <= Len(m_priority_buffer)
      /\ w \in Seq(Plain) /\ Len(w) <= Len(m_active_buffer)
  BY <1>1, <1>2, <1>4, BuffersAfter
<1>6. /\ c.req.id \in RequestId /\ c.req.s.row \in Rows \union {Closed}
      /\ c.req.s.reg \in BOOLEAN /\ Latency(c.req.s.final) \in Nat
      /\ Marked(c.req).id = c.req.id
  BY <1>1, <1>2, Found, ShapeIs, MarkedIs
<1>7. there => Marked(c.req) \in Plain /\ Len(m_active_buffer) < ActiveSize
  BY <1>1, <1>2, OpensPlain, MarkedPlain
<1>8. m_active_buffer' \in Seq(Plain) /\ Len(m_active_buffer') <= ActiveSize
  <2> HIDE DEF w, there
  <2>1. Len(w) \in Nat /\ Len(m_active_buffer) \in Nat /\ Len(m_active_buffer) <= ActiveSize
    BY <1>5, Basics, LenProperties
  <2>2. CASE there
    <3>1. m_active_buffer' = Append(w, Marked(c.req))
      BY <1>2, <1>5, <1>7, <2>2, JoinedIs
    <3>2. m_active_buffer' \in Seq(Plain) /\ Len(m_active_buffer') = Len(w) + 1
      BY <1>5, <1>7, <2>2, <3>1, AppendProperties
    <3> QED
      BY <1>5, <1>7, <2>1, <2>2, <3>2, ControllerAssumption
  <2>3. CASE ~there
    <3>1. m_active_buffer' = w
      BY <1>2, <1>5, <2>3, JoinedNone
    <3> QED
      BY <1>5, <2>1, <3>1, ControllerAssumption
  <2> QED
    BY <2>2, <2>3
<1>9. BuffersOK'
  BY <1>5, <1>8 DEF BuffersOK
<1>10. QueuesOK'
  <2>1. ServedReads \in Seq(PendingRead) /\ ServedWrites \in SUBSET PendingWrite
    BY <1>1, ServedOK
  <2>2. pending_reads' \in Seq(PendingRead)
    <3>1. CASE Issued(c) = c.req.s.final /\ c.req.s.reader
      <4>1. [id |-> Marked(c.req).id, eoc |-> FALSE, left |-> Latency(Issued(c))] \in PendingRead
        BY <1>6, <3>1 DEF PendingRead
      <4>2. pending_reads' =
              Append(ServedReads, [id |-> Marked(c.req).id, eoc |-> FALSE, left |-> Latency(Issued(c))])
        BY <3>1, IssueIs
      <4> QED
        BY <2>1, <4>1, <4>2, AppendProperties
    <3>2. CASE ~(Issued(c) = c.req.s.final /\ c.req.s.reader)
      BY <2>1, <3>2, IssueIs
    <3> QED
      BY <3>1, <3>2
  <2>3. pending_writes' \in SUBSET PendingWrite
    <3>1. CASE Issued(c) = c.req.s.final /\ ~c.req.s.reader
      <4>1. [id |-> Marked(c.req).id, left |-> Latency(Issued(c))] \in PendingWrite
        BY <1>6, <3>1 DEF PendingWrite
      <4> QED
        BY <2>1, <3>1, <4>1, IssueIs
    <3>2. CASE ~(Issued(c) = c.req.s.final /\ ~c.req.s.reader)
      BY <2>1, <3>2, IssueIs
    <3> QED
      BY <3>1, <3>2
  <2> QED
    BY <1>3, <2>2, <2>3 DEF QueuesOK
<1>11. slots' \in [Slots -> Slot]
  <2>1. rtl \in Nat
    BY ControllerAssumption DEF dispatch
  <2>2. slots' = NotedSlots(Issued(c), c.req.s, rtl)
    BY IssueIs
  <2>3. NotedSlots(Issued(c), c.req.s, rtl) \in [Slots -> Slot]
    BY <1>1, <2>1, NotedSlotsOK
  <2> QED
    BY <2>2, <2>3
<1>12. TypeOK'
  <2>1. /\ Len(m_read_buffer') <= BufferSize /\ Len(m_write_buffer') <= BufferSize
        /\ Len(m_aim_buffer') <= BufferSize /\ Len(m_priority_buffer') <= BufferSize
    <3>1. /\ Len(m_read_buffer') \in Nat /\ Len(m_write_buffer') \in Nat
          /\ Len(m_aim_buffer') \in Nat /\ Len(m_priority_buffer') \in Nat
      BY <1>5, LenProperties
    <3> QED
      BY <1>5, <3>1, Basics
  <2>2. open' \in [Banks -> Rows \union {Closed}]
    BY <1>1, <1>6, IssueIs, OpenOK DEF TypeOK
  <2>3. is_reg_RW_mode' \in BOOLEAN
    BY <1>6, IssueIs
  <2>4. \A x \in Slots : slots'[x].issue_ready_clk >= -1
    BY <1>11, SlotsTyped
  <2> QED
    BY <1>1, <1>2, <1>3, <1>8, <2>1, <2>2, <2>3, <2>4 DEF TypeOK
<1> QED
  BY <1>9, <1>10, <1>11, <1>12 DEF StateOK

LEMMA ThrowsOK ==
  ASSUME StateOK, NEW c, TickThrows(c)
  PROVE  StateOK'
<1>1. failed' \in BOOLEAN
  BY DEF TickThrows
<1>2. UNCHANGED <<buffers, pendings, is_reg_RW_mode, m_is_write_mode, slots, open, nrequests>>
  BY DEF TickThrows
<1> QED
  BY <1>1, <1>2 DEF StateOK, BuffersOK, QueuesOK, TypeOK, buffers, pendings

LEMMA TickCases ==
  ASSUME tick
  PROVE  \E c : /\ c = Considered
               /\ \/ TickStall(c) \/ TickBarrier(c)
                  \/ \E rtl \in dispatch(c) : TickIssue(c, rtl)
                  \/ TickThrows(c)
BY Zenon DEF tick

LEMMA StepOK == StateOK /\ [Next]_vars => StateOK'
<1> SUFFICES ASSUME StateOK, [Next]_vars PROVE StateOK'
  OBVIOUS
<1>1. ASSUME NEW s \in Shapes, send(s) PROVE StateOK'
  BY <1>1, SendOK
<1>2. CASE priority_send(RefreshShape)
  BY <1>2, PrioritySendOK
<1>3. CASE tick
  <2>1. PICK c : /\ c = Considered
                 /\ \/ TickStall(c) \/ TickBarrier(c)
                    \/ \E rtl \in dispatch(c) : TickIssue(c, rtl)
                    \/ TickThrows(c)
    BY <1>3, TickCases
  <2>2. CASE TickStall(c)
    BY <2>1, <2>2, StallOK
  <2>3. CASE TickBarrier(c)
    BY <2>1, <2>3, BarrierOK
  <2>4. ASSUME NEW rtl \in dispatch(c), TickIssue(c, rtl) PROVE StateOK'
    BY <2>1, <2>4, IssueOK
  <2>5. CASE TickThrows(c)
    BY <2>5, ThrowsOK
  <2> QED
    BY <2>1, <2>2, <2>3, <2>4, <2>5
<1>4. CASE UNCHANGED vars
  BY <1>4 DEF StateOK, BuffersOK, QueuesOK, TypeOK, vars, buffers, pendings
<1> QED
  BY <1>1, <1>2, <1>3, <1>4, Zenon DEF Next

(* Every component of the controller's state keeps its type and its bound: *)
(* no buffer outgrows its size, the active buffer included, which is       *)
(* filled without a look at what enqueue returns (tick).                   *)
THEOREM StateInvariant == Spec => []StateOK
<1>1. Init => StateOK
  BY InitOK
<1>2. StateOK /\ [Next]_vars => StateOK'
  BY StepOK
<1> QED
  BY <1>1, <1>2, PTL DEF Spec

THEOREM TypeCorrect == Spec => []TypeOK
<1>1. StateOK => TypeOK
  BY DEF StateOK
<1> QED
  BY <1>1, StateInvariant, PTL
-----------------------------------------------------------------------------
(* AiM requests and plain ones are never buffered together.                *)

LEMMA TickShrinks ==
  ASSUME StateOK, tick
  PROVE  /\ Len(m_read_buffer') <= Len(m_read_buffer) /\ Len(m_write_buffer') <= Len(m_write_buffer)
         /\ Len(m_aim_buffer') <= Len(m_aim_buffer)
<1>1. PICK c : /\ c = Considered
               /\ \/ TickStall(c) \/ TickBarrier(c)
                  \/ \E rtl \in dispatch(c) : TickIssue(c, rtl)
                  \/ TickThrows(c)
  BY TickCases
<1>2. CASE TickStall(c) \/ TickThrows(c)
  <2>1. UNCHANGED <<m_read_buffer, m_write_buffer, m_aim_buffer>>
    BY <1>2 DEF TickStall, TickThrows, buffers
  <2> QED
    BY <2>1, Basics
<1>3. CASE TickBarrier(c)
  <2>1. request_found(c) /\ ReplaceRequest(c, << >>)
    BY <1>3 DEF TickBarrier
  <2> QED
    BY <1>1, <2>1, BuffersAfter DEF StateOK
<1>4. ASSUME NEW rtl \in dispatch(c), TickIssue(c, rtl)
      PROVE  /\ Len(m_read_buffer') <= Len(m_read_buffer) /\ Len(m_write_buffer') <= Len(m_write_buffer)
             /\ Len(m_aim_buffer') <= Len(m_aim_buffer)
  <2>1. request_found(c) /\ ReplaceRequest(c, NewIn(c))
    BY <1>4, IssueIs
  <2>2. NewIn(c) = << >> \/ NewIn(c) = <<Marked(c.req)>>
    BY DEF NewIn
  <2> QED
    BY <1>1, <2>1, <2>2, BuffersAfter DEF StateOK
<1> QED
  BY <1>1, <1>2, <1>3, <1>4

LEMMA NoLength ==
  ASSUME StateOK
  PROVE  /\ m_read_buffer = << >> <=> Len(m_read_buffer) = 0
         /\ m_write_buffer = << >> <=> Len(m_write_buffer) = 0
         /\ m_aim_buffer = << >> <=> Len(m_aim_buffer) = 0
BY EmptySeq DEF StateOK, BuffersOK

LEMMA ExclusiveStep ==
  ASSUME StateOK, StateOK', ArchExclusive, [Next]_vars
  PROVE  ArchExclusive'
<1>1. ASSUME NEW s \in Shapes, send(s) PROVE ArchExclusive'
  <2>1. ~Refused(s)
    BY <1>1 DEF send
  <2>2. CASE s.type = "AIM"
    <3>1. m_read_buffer = << >> /\ m_write_buffer = << >>
      BY <2>1, <2>2 DEF Refused
    <3>2. UNCHANGED <<m_read_buffer, m_write_buffer>>
      BY <1>1, <2>2 DEF send, Forwarded
    <3> QED
      BY <3>1, <3>2 DEF ArchExclusive
  <2>3. CASE s.type # "AIM"
    <3>1. m_aim_buffer = << >>
      BY <2>1, <2>3 DEF Refused
    <3>2. UNCHANGED m_aim_buffer
      BY <1>1, <2>3 DEF send
    <3> QED
      BY <3>1, <3>2 DEF ArchExclusive
  <2> QED
    BY <2>2, <2>3
<1>2. CASE priority_send(RefreshShape)
  BY <1>2 DEF priority_send, ArchExclusive
<1>3. CASE tick
  <2>1. /\ m_aim_buffer = << >> => m_aim_buffer' = << >>
        /\ m_read_buffer = << >> => m_read_buffer' = << >>
        /\ m_write_buffer = << >> => m_write_buffer' = << >>
    <3>1. /\ m_read_buffer' = << >> <=> Len(m_read_buffer') = 0
          /\ m_write_buffer' = << >> <=> Len(m_write_buffer') = 0
          /\ m_aim_buffer' = << >> <=> Len(m_aim_buffer') = 0
      BY EmptySeq DEF StateOK, BuffersOK
    <3>2. Len(m_read_buffer') \in Nat /\ Len(m_write_buffer') \in Nat /\ Len(m_aim_buffer') \in Nat
      BY LenProperties DEF StateOK, BuffersOK
    <3> QED
      BY <1>3, <3>1, <3>2, NoLength, Basics, TickShrinks
  <2> QED
    BY <2>1 DEF ArchExclusive
<1>4. CASE UNCHANGED vars
  BY <1>4 DEF ArchExclusive, vars, buffers
<1> QED
  BY <1>1, <1>2, <1>3, <1>4, Zenon DEF Next

(* AiM requests and plain reads and writes are never buffered together     *)
(* (send): either kind waits outside until the other has left.             *)
THEOREM Exclusive == Spec => []ArchExclusive
<1>1. Init => ArchExclusive
  BY DEF Init, ArchExclusive
<1>2. StateOK /\ StateOK' /\ ArchExclusive /\ [Next]_vars => ArchExclusive'
  BY ExclusiveStep
<1> QED
  BY <1>1, <1>2, StateInvariant, PTL DEF Spec
-----------------------------------------------------------------------------
(* The active buffer holds at most one request of a bank.                  *)

OneOfABank(b) == \A i, j \in 1 .. Len(b) : b[i].s.bank = b[j].s.bank => i = j

NoneOfBank(b, bank) == \A i \in 1 .. Len(b) : b[i].s.bank # bank

LEMMA BankTakenOut ==
  ASSUME NEW S, NEW b \in Seq(S), NEW w \in Seq(S), NEW k \in 1 .. Len(b), Len(w) = Len(b) - 1,
         \A j \in 1 .. Len(b) - 1 : w[j] = IF j < k THEN b[j] ELSE b[j + 1],
         OneOfABank(b)
  PROVE  OneOfABank(w) /\ NoneOfBank(w, b[k].s.bank)
<1>1. Len(b) \in Nat
  BY LenProperties
<1> DEFINE at(j) == IF j < k THEN j ELSE j + 1
<1>2. \A j \in 1 .. Len(w) : at(j) \in 1 .. Len(b) /\ at(j) # k /\ w[j] = b[at(j)]
  BY <1>1
<1>3. \A i, j \in 1 .. Len(w) : at(i) = at(j) => i = j
  BY <1>1
<1> HIDE DEF at
<1> QED
  BY <1>2, <1>3 DEF OneOfABank, NoneOfBank

LEMMA BankJoins ==
  ASSUME NEW S, NEW w \in Seq(S), NEW r \in S, OneOfABank(w), NoneOfBank(w, r.s.bank)
  PROVE  OneOfABank(Append(w, r))
<1>1. Len(w) \in Nat /\ Len(Append(w, r)) = Len(w) + 1
      /\ (\A j \in 1 .. Len(w) : Append(w, r)[j] = w[j]) /\ Append(w, r)[Len(w) + 1] = r
  BY LenProperties, AppendProperties
<1> DEFINE a == Append(w, r)
<1>2. \A j \in 1 .. Len(a) : j \in 1 .. Len(w) \/ j = Len(w) + 1
  BY <1>1
<1>3. \A j \in 1 .. Len(w) : a[j].s.bank = w[j].s.bank /\ a[j].s.bank # r.s.bank
  BY <1>1 DEF NoneOfBank
<1>4. a[Len(w) + 1].s.bank = r.s.bank
  BY <1>1
<1> HIDE DEF a
<1>5. OneOfABank(a)
  BY <1>2, <1>3, <1>4 DEF OneOfABank
<1> QED
  BY <1>5 DEF a

LEMMA BankSame ==
  ASSUME NEW b, NEW w, SameRequests(w, b), OneOfABank(b)
  PROVE  OneOfABank(w)
BY DEF SameRequests, OneOfABank

(* While a request in the active buffer waits for its row, no other row of *)
(* its bank is opened: the scheduler would have taken the active one.      *)
LEMMA NoneActive ==
  ASSUME BuffersOK, NEW c, c = Considered, request_found(c), ~c.req.s.eoc, Opens(c), ~ActiveGoes
  PROVE  NoneOfBank(m_active_buffer, c.req.s.bank)
<1> SUFFICES ASSUME NEW i \in 1 .. Len(m_active_buffer), m_active_buffer[i].s.bank = c.req.s.bank
             PROVE  FALSE
  BY DEF NoneOfBank
<1> DEFINE b == m_active_buffer
           best == get_best_request(b)
<1>1. b \in Seq(Plain) /\ b # << >> /\ DOMAIN b = 1 .. Len(b)
  BY LenProperties, EmptySeq DEF BuffersOK
<1>2. /\ open[c.req.s.bank] = Closed /\ check_ready("ACT", c.req.s)
  BY OpensPlain DEF get_preq_command
<1>3. \A r \in Plain : r.s.final \in {"RD", "WR"} /\ r.s.row \in Rows /\ ~r.s.eoc /\ r.s.type # "AIM"
  BY RequestAssumption DEF Plain, Requests, ShapesOf
<1>4. b[i] \in Plain
  BY <1>1, ElementOfSeq
<1>5. get_preq_command(b[i].s) = "ACT"
  BY <1>2, <1>3, <1>4, RequestAssumption DEF get_preq_command
<1>6. check_ready("ACT", b[i].s)
  BY <1>2 DEF check_ready, BanksOf
<1>7. i \in Ready(b)
  BY <1>1, <1>5, <1>6 DEF Ready
<1>8. best \in Ready(b) /\ best \in 1 .. Len(b)
  BY <1>1, <1>7, BestIs
<1>9. b[best] \in Plain /\ check_ready(get_preq_command(b[best].s), b[best].s)
  BY <1>1, <1>8, ElementOfSeq DEF Ready
<1>10. ~b[best].s.eoc /\ b[best].s.type # "AIM"
  BY <1>3, <1>9
<1>11. BestOf("active", b) = Choice("active", b, best)
  BY <1>1 DEF BestOf
<1>12. Choice("active", b, best).status = "Pass"
  BY <1>9, <1>10 DEF Choice, GateStatus
<1> QED
  BY <1>11, <1>12 DEF ActiveGoes

LEMMA IssueOneActive ==
  ASSUME StateOK, OneOfABank(m_active_buffer), NEW c, c = Considered, NEW rtl, TickIssue(c, rtl)
  PROVE  OneOfABank(m_active_buffer')
<1> DEFINE w == Updated(c, "active", m_active_buffer, NewIn(c))
           there == Opens(c) /\ Len(m_active_buffer) < ActiveSize
           r == Marked(c.req)
<1>1. BuffersOK
  BY DEF StateOK
<1>2. /\ request_found(c) /\ ~c.req.s.eoc /\ ReplaceRequest(c, NewIn(c))
      /\ m_active_buffer' = Joined(w, IF there THEN <<r>> ELSE << >>)
  BY IssueIs
<1>3. NewIn(c) = << >> \/ NewIn(c) = <<Marked(c.req)>>
  BY DEF NewIn
<1>4. w \in Seq(Plain)
  BY <1>1, <1>2, <1>3, BuffersAfter
<1>5. there => r \in Plain /\ r.s = c.req.s /\ NewIn(c) = << >>
  BY <1>1, <1>2, OpensPlain, MarkedPlain DEF NewIn, Leaves
<1>6. OneOfABank(w) /\ (there => NoneOfBank(w, c.req.s.bank))
  <2>1. CASE c.buffer # "active"
    <3>1. w = m_active_buffer
      BY <2>1, OtherBuffer
    <3>2. there => ~ActiveGoes
      BY <1>1, <1>2, <2>1, Found DEF ChosenFrom
    <3> QED
      BY <1>1, <1>2, <3>1, <3>2, NoneActive
  <2>2. CASE c.buffer = "active"
    <3>1. /\ m_active_buffer \in Seq(Plain) /\ c.index \in 1 .. Len(m_active_buffer)
          /\ c.req = m_active_buffer[c.index] /\ c.req \in Plain
      BY <1>1, <1>2, <2>2, Found DEF ChosenFrom, BuffersOK
    <3>2. CASE NewIn(c) = << >>
      <4> DEFINE k == c.index
      <4>1. /\ w \in Seq(Plain) /\ Len(w) = Len(m_active_buffer) - 1
            /\ \A j \in 1 .. Len(m_active_buffer) - 1 :
                 w[j] = IF j < k THEN m_active_buffer[j] ELSE m_active_buffer[j + 1]
        BY <2>2, <3>1, <3>2, TakenOut
      <4> HIDE DEF w, k
      <4>2. k \in 1 .. Len(m_active_buffer) /\ m_active_buffer[k].s.bank = c.req.s.bank
        BY <3>1 DEF k
      <4>3. OneOfABank(w) /\ NoneOfBank(w, m_active_buffer[k].s.bank)
        BY <3>1, <4>1, <4>2, BankTakenOut
      <4> QED
        BY <4>2, <4>3
    <3>3. CASE NewIn(c) = <<Marked(c.req)>>
      <4>1. NewIn(c) # << >>
        BY <3>3
      <4>2. SameRequests(w, m_active_buffer)
        <5>1. Marked(c.req) \in Plain /\ Marked(c.req).id = c.req.id /\ Marked(c.req).s = c.req.s
          BY <3>1, MarkedPlain
        <5> QED
          BY <2>2, <3>1, <3>3, <5>1, PutBack
      <4> QED
        BY <1>5, <4>1, <4>2, BankSame
    <3> QED
      BY <1>3, <3>2, <3>3
  <2> QED
    BY <2>1, <2>2
<1> HIDE DEF w, there, r
<1>7. CASE there
  <2>1. m_active_buffer' = Append(w, r)
    BY <1>2, <1>4, <1>5, <1>7, JoinedIs
  <2>2. OneOfABank(Append(w, r))
    BY <1>4, <1>5, <1>6, <1>7, BankJoins
  <2> QED
    BY <2>1, <2>2
<1>8. CASE ~there
  BY <1>2, <1>4, <1>6, <1>8, JoinedNone
<1> QED
  BY <1>7, <1>8

LEMMA OneActiveIs ==
  ASSUME NEW S, NEW b \in Seq(S)
  PROVE  OneOfABank(b) <=> \A i, j \in DOMAIN b : b[i].s.bank = b[j].s.bank => i = j
<1>1. DOMAIN b = 1 .. Len(b)
  BY LenProperties
<1> QED
  BY <1>1 DEF OneOfABank

LEMMA OneActiveStep ==
  ASSUME StateOK, StateOK', OneActivePerBank, [Next]_vars
  PROVE  OneActivePerBank'
<1>1. OneOfABank(m_active_buffer)
  BY OneActiveIs DEF OneActivePerBank, StateOK, BuffersOK
<1>2. OneOfABank(m_active_buffer')
  <2>1. ASSUME NEW s \in Shapes, send(s) PROVE m_active_buffer' = m_active_buffer
    BY <2>1 DEF send
  <2>2. CASE priority_send(RefreshShape)
    BY <1>1, <2>2 DEF priority_send
  <2>3. CASE tick
    <3>1. PICK c : /\ c = Considered
                   /\ \/ TickStall(c) \/ TickBarrier(c)
                      \/ \E rtl \in dispatch(c) : TickIssue(c, rtl)
                      \/ TickThrows(c)
      BY <2>3, TickCases
    <3>2. CASE TickStall(c) \/ TickBarrier(c) \/ TickThrows(c)
      BY <1>1, <3>2 DEF TickStall, TickBarrier, TickThrows, buffers
    <3> QED
      BY <1>1, <3>1, <3>2, IssueOneActive
  <2>4. CASE UNCHANGED vars
    BY <1>1, <2>4 DEF vars, buffers
  <2> QED
    BY <1>1, <2>1, <2>2, <2>3, <2>4, Zenon DEF Next
<1>3. m_active_buffer' \in Seq(Plain)
  BY DEF StateOK, BuffersOK
<1> QED
  BY <1>2, <1>3, OneActiveIs DEF OneActivePerBank

(* At most one request waits for the row of a bank it has opened (tick,    *)
(* which moves it to the active buffer without looking there): a bank      *)
(* whose row could be opened for another request would have let the active *)
(* one go first.                                                           *)
THEOREM OneActive == Spec => []OneActivePerBank
<1>1. Init => OneActivePerBank
  BY DEF Init, OneActivePerBank
<1>2. StateOK /\ StateOK' /\ OneActivePerBank /\ [Next]_vars => OneActivePerBank'
  BY OneActiveStep
<1> QED
  BY <1>1, <1>2, StateInvariant, PTL DEF Spec
-----------------------------------------------------------------------------
(* The compute gate.                                                       *)

(* A request that leaves the AiM buffer in a tick is its head, and the one *)
(* the scheduler considered.                                               *)
LEMMA AimHead ==
  ASSUME BuffersOK, NEW c, c = Considered, request_found(c), NEW new,
         new = << >> \/ new = <<Marked(c.req)>>, ReplaceRequest(c, new),
         Len(m_aim_buffer') < Len(m_aim_buffer)
  PROVE  /\ new = << >> /\ ChosenFrom(c, "aim", m_aim_buffer) /\ c.req = Head(m_aim_buffer)
         /\ c.req \in Requests("AIM") /\ c.req.s \in Shapes /\ c.req.s.type = "AIM"
<1>1. m_aim_buffer \in Seq(Requests("AIM")) /\ m_aim_buffer' = Updated(c, "aim", m_aim_buffer, new)
  BY DEF BuffersOK, ReplaceRequest
<1>2. Len(m_aim_buffer) \in Nat
  BY <1>1, LenProperties
<1>3. c.buffer = "aim"
  <2>1. CASE c.buffer # "aim"
    BY <1>1, <1>2, <2>1, OtherBuffer
  <2> QED
    BY <2>1
<1>4. ChosenFrom(c, "aim", m_aim_buffer) /\ c.index = 1 /\ c.req \in Requests("AIM")
  BY <1>3, Found DEF ChosenFrom
<1>5. c.req = Head(m_aim_buffer)
  BY <1>1, <1>4, HeadTailProperties DEF ChosenFrom
<1>6. new = << >>
  <2>1. SUFFICES ASSUME new = <<Marked(c.req)>> PROVE FALSE
    OBVIOUS
  <2>2. SameRequests(m_aim_buffer', m_aim_buffer)
    BY <1>1, <1>3, <1>4, <2>1, PutBack, MarkedIs DEF ChosenFrom
  <2> QED
    BY <1>2, <2>2 DEF SameRequests
<1>7. c.req.s \in Shapes /\ c.req.s.type = "AIM"
  BY <1>4, RequestAssumption DEF Requests, ShapesOf
<1> QED
  BY <1>4, <1>5, <1>6, <1>7

(* What the gate is asked, and that it lets the command pass. *)
GatePassed(s) ==
  LET op == make_compute_op(s.final, s)
  IN  op \in ComputeOps => gate_status(AgedSlots, op, 0) = "Pass"

LEMMA BarrierUngated ==
  ASSUME NEW s, s.final \in {"EOC", "SYNC"}
  PROVE  GatePassed(s)
<1>1. make_compute_op(s.final, s).command \in {"EOC", "SYNC"}
  BY DEF make_compute_op
<1>2. \A op \in ComputeOps : op.command \notin {"EOC", "SYNC"}
  BY DEF ComputeOps, Producers, Consumers
<1> QED
  BY <1>1, <1>2 DEF GatePassed

LEMMA GateStep ==
  ASSUME StateOK, [Next]_vars, m_aim_buffer # << >>, Len(m_aim_buffer') < Len(m_aim_buffer)
  PROVE  GatePassed(Head(m_aim_buffer).s)
<1>0. BuffersOK /\ m_aim_buffer \in Seq(Requests("AIM")) /\ Len(m_aim_buffer) \in Nat
  BY Basics DEF StateOK, BuffersOK
<1>1. ASSUME NEW s \in Shapes, send(s) PROVE FALSE
  <2>1. m_aim_buffer' = m_aim_buffer \/ m_aim_buffer' = Append(m_aim_buffer, Queued(s))
    BY <1>1, Zenon DEF send
  <2>2. s.type = "AIM" => Queued(s) \in Requests("AIM")
    BY Basics, QueuedOK
  <2>3. m_aim_buffer' = m_aim_buffer \/ s.type = "AIM"
    BY <1>1 DEF send
  <2>4. s.type = "AIM" => Len(Append(m_aim_buffer, Queued(s))) = Len(m_aim_buffer) + 1
    BY <1>0, <2>2, AppendProperties
  <2> QED
    BY <1>0, <2>1, <2>3, <2>4
<1>2. CASE priority_send(RefreshShape)
  BY <1>0, <1>2 DEF priority_send
<1>3. CASE tick
  <2>1. PICK c : /\ c = Considered
                 /\ \/ TickStall(c) \/ TickBarrier(c)
                    \/ \E rtl \in dispatch(c) : TickIssue(c, rtl)
                    \/ TickThrows(c)
    BY <1>3, TickCases
  <2>2. CASE TickStall(c) \/ TickThrows(c)
    BY <1>0, <2>2 DEF TickStall, TickThrows, buffers
  <2>3. CASE TickBarrier(c)
    <3>1. request_found(c) /\ ReplaceRequest(c, << >>) /\ c.req.s.eoc
      BY <2>3 DEF TickBarrier
    <3>2. c.req = Head(m_aim_buffer) /\ c.req.s \in Shapes
      BY <1>0, <2>1, <3>1, AimHead
    <3>3. c.req.s.final \in {"EOC", "SYNC"}
      BY <3>1, <3>2, RequestAssumption
    <3> QED
      BY <3>2, <3>3, BarrierUngated
  <2>4. ASSUME NEW rtl \in dispatch(c), TickIssue(c, rtl) PROVE GatePassed(Head(m_aim_buffer).s)
    <3>1. request_found(c) /\ ~c.req.s.eoc /\ ReplaceRequest(c, NewIn(c))
      BY <2>4, IssueIs
    <3>2. NewIn(c) = << >> \/ NewIn(c) = <<Marked(c.req)>>
      BY DEF NewIn
    <3>3. /\ NewIn(c) = << >> /\ ChosenFrom(c, "aim", m_aim_buffer) /\ c.req = Head(m_aim_buffer)
          /\ c.req.s \in Shapes /\ c.req.s.type = "AIM"
      BY <1>0, <2>1, <3>1, <3>2, AimHead
    <3>4. Issued(c) = c.req.s.final
      BY <3>3 DEF NewIn, Leaves, Opens
    <3>5. ~NeedsTmod(c.req.s) /\ c.cmd = c.req.s.final
      BY <3>3, <3>4, RequestAssumption DEF Issued
    <3>6. ~will_issue_tmod(c.req.s)
      BY <3>5 DEF NeedsTmod, will_issue_tmod, StateOK, TypeOK
    <3>7. GateStatus(c.cmd, c.req.s) = "Pass"
      BY <3>1, <3>3 DEF ChosenFrom, request_found
    <3>8. GatePassed(c.req.s)
      BY <3>3, <3>5, <3>6, <3>7 DEF GateStatus, GatePassed
    <3> QED
      BY <3>3, <3>8
  <2> QED
    BY <2>1, <2>2, <2>3, <2>4
<1>4. CASE UNCHANGED vars
  BY <1>0, <1>4 DEF vars, buffers
<1> QED
  BY <1>1, <1>2, <1>3, <1>4, Zenon DEF Next

(* A compute command that leaves the AiM buffer passed the scoreboard in   *)
(* that very cycle: the gate is only skipped in ticks that issue a TMOD    *)
(* (passes_direct_aim_compute_gate against the test in tick).              *)
THEOREM GateNeverSkipped == Spec => FinalsPassGate
<1>1. StateOK /\ [Next]_vars =>
        [m_aim_buffer # << >> /\ Len(m_aim_buffer') < Len(m_aim_buffer) =>
           LET s == Head(m_aim_buffer).s
               op == make_compute_op(s.final, s)
           IN  op \in ComputeOps => gate_status(AgedSlots, op, 0) = "Pass"]_vars
  BY GateStep DEF GatePassed
<1> QED
  BY <1>1, StateInvariant, PTL DEF Spec, FinalsPassGate
-----------------------------------------------------------------------------
(***************************************************************************)
(* Every accepted request is in exactly one place.  ExactlyOnePlace counts *)
(* and is not inductive: what is, is that no two entries of a queue have   *)
(* the same id, that no two places share one, and that the ids are those   *)
(* of the requests accepted so far.                                        *)
(***************************************************************************)
NoDup(b) == \A i, j \in 1 .. Len(b) : b[i].id = b[j].id => i = j

IdsOfWrites(ws) == {w.id : w \in ws}

Places == {"read", "write", "aim", "active", "priority", "reads", "writes", "done"}

PlaceIds ==
  [p \in Places |->
     CASE p = "read" -> Ids(m_read_buffer)
       [] p = "write" -> Ids(m_write_buffer)
       [] p = "aim" -> Ids(m_aim_buffer)
       [] p = "active" -> Ids(m_active_buffer)
       [] p = "priority" -> Ids(m_priority_buffer)
       [] p = "reads" -> Ids(pending_reads)
       [] p = "writes" -> IdsOfWrites(pending_writes)
       [] p = "done" -> completed]

Apart(P) == \A p, q \in Places : p # q => P[p] \cap P[q] = {}

Together(P) == UNION {P[p] : p \in Places}

Distinct ==
  /\ NoDup(m_read_buffer) /\ NoDup(m_write_buffer) /\ NoDup(m_aim_buffer)
  /\ NoDup(m_active_buffer) /\ NoDup(m_priority_buffer) /\ NoDup(pending_reads)
  /\ \A v, w \in pending_writes : v.id = w.id => v = w

Accounted ==
  /\ \A x \in Together(PlaceIds) : x[2] <= nrequests
  /\ IsFiniteSet(Together(PlaceIds)) /\ Cardinality(Together(PlaceIds)) = nrequests

PlacesOK == Distinct /\ Apart(PlaceIds) /\ Accounted

LEMMA IdsAre ==
  ASSUME NEW S, NEW b \in Seq(S)
  PROVE  Ids(b) = {b[i].id : i \in 1 .. Len(b)}
<1>1. DOMAIN b = 1 .. Len(b)
  BY LenProperties
<1> QED
  BY <1>1 DEF Ids

LEMMA AppendIds ==
  ASSUME NEW S, NEW b \in Seq(S), NEW r \in S
  PROVE  /\ Ids(Append(b, r)) = Ids(b) \union {r.id}
         /\ NoDup(b) /\ r.id \notin Ids(b) => NoDup(Append(b, r))
<1> DEFINE a == Append(b, r)
<1>1. /\ Len(b) \in Nat /\ a \in Seq(S) /\ Len(a) = Len(b) + 1
      /\ (\A j \in 1 .. Len(b) : a[j] = b[j]) /\ a[Len(b) + 1] = r
  BY LenProperties, AppendProperties
<1>2. Ids(b) = {b[i].id : i \in 1 .. Len(b)}
  BY IdsAre
<1>3. Ids(a) = {a[i].id : i \in 1 .. Len(a)}
  BY <1>1, IdsAre
<1> HIDE DEF a
<1>4. \A j \in 1 .. Len(a) : j \in 1 .. Len(b) \/ j = Len(b) + 1
  BY <1>1
<1>5. \A j \in 1 .. Len(b) : a[j].id = b[j].id /\ j \in 1 .. Len(a)
  BY <1>1
<1>6. a[Len(b) + 1].id = r.id /\ Len(b) + 1 \in 1 .. Len(a)
  BY <1>1
<1>7. Ids(a) = Ids(b) \union {r.id}
  BY <1>2, <1>3, <1>4, <1>5, <1>6
<1>8. ASSUME NoDup(b), r.id \notin Ids(b) PROVE NoDup(a)
  <2>1. \A j \in 1 .. Len(b) : a[j].id # r.id
    BY <1>2, <1>5, <1>8
  <2> QED
    BY <1>4, <1>5, <1>6, <1>8, <2>1 DEF NoDup
<1> QED
  BY <1>7, <1>8 DEF a

(* w is b without element k. *)
Lacks(w, b, k) ==
  /\ Len(w) = Len(b) - 1
  /\ \A j \in 1 .. Len(b) - 1 : w[j] = IF j < k THEN b[j] ELSE b[j + 1]

LEMMA TakenIds ==
  ASSUME NEW S, NEW b \in Seq(S), NEW w \in Seq(S), NEW k \in 1 .. Len(b), Lacks(w, b, k),
         NoDup(b)
  PROVE  NoDup(w) /\ Ids(w) = Ids(b) \ {b[k].id} /\ b[k].id \in Ids(b)
<1>1. /\ Len(b) \in Nat /\ Len(w) = Len(b) - 1
      /\ \A j \in 1 .. Len(b) - 1 : w[j] = IF j < k THEN b[j] ELSE b[j + 1]
  BY LenProperties DEF Lacks
<1> DEFINE at(j) == IF j < k THEN j ELSE j + 1
           back(j) == IF j < k THEN j ELSE j - 1
<1>2. \A j \in 1 .. Len(w) : at(j) \in 1 .. Len(b) /\ at(j) # k /\ w[j] = b[at(j)]
  BY <1>1
<1>3. \A i, j \in 1 .. Len(w) : at(i) = at(j) => i = j
  BY <1>1
<1>4. \A j \in 1 .. Len(b) : j # k => back(j) \in 1 .. Len(w) /\ at(back(j)) = j
  BY <1>1
<1>5. Ids(b) = {b[i].id : i \in 1 .. Len(b)} /\ Ids(w) = {w[i].id : i \in 1 .. Len(w)}
  BY IdsAre
<1> HIDE DEF at, back
<1>6. NoDup(w)
  BY <1>2, <1>3 DEF NoDup
<1>7. \A x \in Ids(w) : x \in Ids(b) /\ x # b[k].id
  BY <1>2, <1>5 DEF NoDup
<1>8. ASSUME NEW x \in Ids(b), x # b[k].id PROVE x \in Ids(w)
  <2>1. PICK j \in 1 .. Len(b) : x = b[j].id
    BY <1>5
  <2>2. j # k
    BY <1>8, <2>1
  <2>3. back(j) \in 1 .. Len(w) /\ w[back(j)] = b[j]
    BY <1>2, <1>4, <2>2
  <2> QED
    BY <1>5, <2>1, <2>3
<1> QED
  BY <1>5, <1>6, <1>7, <1>8

SameKeys(w, b) == Len(w) = Len(b) /\ \A j \in 1 .. Len(b) : w[j].id = b[j].id

LEMMA SameIds ==
  ASSUME NEW S, NEW T, NEW b \in Seq(S), NEW w \in Seq(T), SameKeys(w, b), NoDup(b)
  PROVE  NoDup(w) /\ Ids(w) = Ids(b)
<1>1. Ids(b) = {b[i].id : i \in 1 .. Len(b)} /\ Ids(w) = {w[i].id : i \in 1 .. Len(w)}
  BY IdsAre
<1>2. Len(w) = Len(b) /\ \A j \in 1 .. Len(b) : w[j].id = b[j].id
  BY DEF SameKeys
<1> QED
  BY <1>1, <1>2 DEF NoDup

(* The ids in a buffer after the tick. *)
LEMMA ShrunkIds ==
  ASSUME NEW S, NEW b \in Seq(S), NEW c, NEW name, NEW new, NEW w, w = Updated(c, name, b, new),
         c.buffer = name => c.index \in 1 .. Len(b) /\ c.req = b[c.index],
         \A r \in S : Marked(r) \in S /\ Marked(r).id = r.id /\ Marked(r).s = r.s,
         new = << >> \/ new = <<Marked(c.req)>>, NoDup(b)
  PROVE  /\ NoDup(w)
         /\ Ids(w) = IF c.buffer = name /\ new = << >> THEN Ids(b) \ {c.req.id} ELSE Ids(b)
         /\ c.buffer = name => c.req.id \in Ids(b)
<1>1. c.buffer = name => c.req.id \in Ids(b)
  BY IdsAre
<1>2. CASE c.buffer # name
  <2>1. w = b
    BY <1>2, OtherBuffer
  <2> QED
    BY <1>2, <2>1
<1>3. CASE c.buffer = name /\ new = << >>
  <2> DEFINE k == c.index
  <2>1. w \in Seq(S) /\ Lacks(w, b, k)
    BY <1>3, TakenOut DEF Lacks
  <2>2. k \in 1 .. Len(b) /\ c.req = b[k]
    BY <1>3
  <2> HIDE DEF k
  <2>3. NoDup(w) /\ Ids(w) = Ids(b) \ {b[k].id}
    BY <2>1, <2>2, TakenIds
  <2> QED
    BY <1>1, <1>3, <2>2, <2>3
<1>4. CASE c.buffer = name /\ new = <<Marked(c.req)>>
  <2>1. c.req \in S
    BY <1>4, ElementOfSeq
  <2>2. w \in Seq(S) /\ SameRequests(w, b)
    BY <1>4, <2>1, PutBack
  <2>3. SameKeys(w, b)
    BY <2>2 DEF SameRequests, SameKeys
  <2>4. NoDup(w) /\ Ids(w) = Ids(b)
    BY <2>2, <2>3, SameIds
  <2> QED
    BY <1>1, <1>4, <2>4
<1> QED
  BY <1>2, <1>3, <1>4

(* What serve_completed_reqs completes. *)
HeadDone == IF HeadServed THEN {Head(pending_reads).id} ELSE {}

WritesDone == {w.id : w \in AgedWrites \ ServedWrites}

LEMMA ServedReadsIds ==
  ASSUME QueuesOK, NoDup(pending_reads)
  PROVE  /\ NoDup(ServedReads) /\ Ids(ServedReads) = Ids(pending_reads) \ HeadDone
         /\ HeadDone \subseteq Ids(pending_reads)
<1> DEFINE rest == IF HeadServed THEN Tail(pending_reads) ELSE pending_reads
<1>1. pending_reads \in Seq(PendingRead)
  BY DEF QueuesOK
<1>2. /\ rest \in Seq(PendingRead) /\ NoDup(rest) /\ Ids(rest) = Ids(pending_reads) \ HeadDone
      /\ HeadDone \subseteq Ids(pending_reads)
  <2>1. CASE HeadServed
    <3>1. pending_reads # << >>
      BY <2>1 DEF HeadServed
    <3> DEFINE k == 1
               tl == Tail(pending_reads)
    <3>2. /\ tl \in Seq(PendingRead) /\ Head(pending_reads) = pending_reads[k]
          /\ Lacks(tl, pending_reads, k) /\ k \in 1 .. Len(pending_reads)
      BY <1>1, <3>1, HeadTailProperties, LenProperties, EmptySeq DEF Lacks
    <3> HIDE DEF k, tl
    <3>3. /\ NoDup(tl) /\ pending_reads[k].id \in Ids(pending_reads)
          /\ Ids(tl) = Ids(pending_reads) \ {pending_reads[k].id}
      BY <1>1, <3>2, TakenIds
    <3> QED
      BY <2>1, <3>2, <3>3 DEF HeadDone, tl
  <2>2. CASE ~HeadServed
    BY <1>1, <2>2 DEF HeadDone
  <2> QED
    BY <2>1, <2>2
<1>3. ServedReads = [i \in DOMAIN rest |-> [rest[i] EXCEPT !.left = Aged(@)]]
  BY DEF ServedReads
<1> HIDE DEF rest
<1>4. DOMAIN rest = 1 .. Len(rest) /\ Len(rest) \in Nat
  BY <1>2, LenProperties
<1>5. ServedReads \in Seq(PendingRead) /\ DOMAIN ServedReads = 1 .. Len(rest)
  BY <1>3, <1>4, ServedOK
<1>6. Len(ServedReads) = Len(rest)
  BY <1>4, <1>5, LenProperties
<1>7. ASSUME NEW i \in 1 .. Len(rest) PROVE ServedReads[i].id = rest[i].id
  <2>1. rest[i] \in PendingRead
    BY <1>2, ElementOfSeq
  <2> QED
    BY <1>3, <1>4, <2>1 DEF PendingRead
<1>8. SameKeys(ServedReads, rest)
  BY <1>6, <1>7 DEF SameKeys
<1> QED
  BY <1>2, <1>5, <1>8, SameIds

LEMMA ServedWritesIds ==
  ASSUME QueuesOK, \A v, w \in pending_writes : v.id = w.id => v = w
  PROVE  /\ \A v, w \in ServedWrites : v.id = w.id => v = w
         /\ IdsOfWrites(ServedWrites) = IdsOfWrites(pending_writes) \ WritesDone
         /\ WritesDone \subseteq IdsOfWrites(pending_writes)
<1> DEFINE aged(w) == [id |-> w.id, left |-> Aged(w.left)]
<1>1. AgedWrites = {aged(w) : w \in pending_writes}
  BY DEF AgedWrites
<1>2. \A w \in pending_writes : aged(w).id = w.id
  OBVIOUS
<1> HIDE DEF aged
<1>3. \A v, w \in AgedWrites : v.id = w.id => v = w
  BY <1>1, <1>2
<1>4. IdsOfWrites(AgedWrites) = IdsOfWrites(pending_writes)
  BY <1>1, <1>2 DEF IdsOfWrites
<1>5. ServedWrites \subseteq AgedWrites
  BY DEF ServedWrites
<1>6. \A v, w \in ServedWrites : v.id = w.id => v = w
  BY <1>3, <1>5
<1>7. WritesDone \subseteq IdsOfWrites(AgedWrites)
  BY DEF IdsOfWrites, WritesDone
<1>8. ASSUME NEW x \in IdsOfWrites(AgedWrites)
      PROVE  x \in IdsOfWrites(ServedWrites) <=> x \notin WritesDone
  <2>1. PICK w \in AgedWrites : x = w.id
    BY <1>8 DEF IdsOfWrites
  <2>2. x \in IdsOfWrites(ServedWrites) <=> w \in ServedWrites
    BY <1>3, <1>5, <2>1 DEF IdsOfWrites
  <2>3. x \in WritesDone <=> w \notin ServedWrites
    BY <1>3, <2>1 DEF WritesDone
  <2> QED
    BY <2>2, <2>3
<1>9. IdsOfWrites(ServedWrites) \subseteq IdsOfWrites(AgedWrites)
  BY <1>5 DEF IdsOfWrites
<1> QED
  BY <1>4, <1>6, <1>7, <1>8, <1>9

(* D goes from place p to place q. *)
Moved(P, p, q, D) ==
  [r \in Places |-> IF r = p THEN P[r] \ D ELSE IF r = q THEN P[r] \union D ELSE P[r]]

LEMMA MovedApart ==
  ASSUME NEW P, NEW p \in Places, NEW q \in Places, p # q, NEW D, D \subseteq P[p], Apart(P)
  PROVE  Apart(Moved(P, p, q, D)) /\ Together(Moved(P, p, q, D)) = Together(P)
<1> DEFINE Q == Moved(P, p, q, D)
<1>1. /\ Q[p] = P[p] \ D /\ Q[q] = P[q] \union D
      /\ \A r \in Places : r # p /\ r # q => Q[r] = P[r]
  BY DEF Moved
<1> HIDE DEF Q
<1>2. ASSUME NEW r \in Places, NEW t \in Places, r # t, NEW x, x \in Q[r], x \in Q[t] PROVE FALSE
  <2>1. \A u, v \in Places : u # v => ~(x \in P[u] /\ x \in P[v])
    BY DEF Apart
  <2>2. CASE x \in D
    <3>1. \A u \in Places : x \in Q[u] => u = q
      BY <1>1, <2>1, <2>2
    <3> QED
      BY <1>2, <3>1
  <2>3. CASE x \notin D
    <3>1. \A u \in Places : x \in Q[u] => x \in P[u]
      BY <1>1, <2>3
    <3> QED
      BY <1>2, <2>1, <3>1
  <2> QED
    BY <2>2, <2>3
<1>3. Apart(Q)
  BY <1>2 DEF Apart
<1>4. ASSUME NEW x PROVE (\E r \in Places : x \in Q[r]) <=> (\E r \in Places : x \in P[r])
  <2>1. CASE x \in D
    BY <1>1, <2>1
  <2>2. CASE x \notin D
    <3>1. \A r \in Places : x \in Q[r] <=> x \in P[r]
      BY <1>1, <2>2
    <3> QED
      BY <3>1
  <2> QED
    BY <2>1, <2>2
<1>5. Together(Q) = Together(P)
  BY <1>4 DEF Together
<1> QED
  BY <1>3, <1>5 DEF Q

LEMMA SamePlaces ==
  ASSUME NEW P, NEW Q, \A p \in Places : Q[p] = P[p], Apart(P)
  PROVE  Apart(Q) /\ Together(Q) = Together(P)
BY DEF Apart, Together

LEMMA PlaceIdsAre ==
  /\ PlaceIds["read"] = Ids(m_read_buffer) /\ PlaceIds["write"] = Ids(m_write_buffer)
  /\ PlaceIds["aim"] = Ids(m_aim_buffer) /\ PlaceIds["active"] = Ids(m_active_buffer)
  /\ PlaceIds["priority"] = Ids(m_priority_buffer)
  /\ PlaceIds["reads"] = Ids(pending_reads)
  /\ PlaceIds["writes"] = IdsOfWrites(pending_writes) /\ PlaceIds["done"] = completed
BY DEF PlaceIds, Places

LEMMA PlaceIdsNext ==
  /\ PlaceIds'["read"] = Ids(m_read_buffer') /\ PlaceIds'["write"] = Ids(m_write_buffer')
  /\ PlaceIds'["aim"] = Ids(m_aim_buffer') /\ PlaceIds'["active"] = Ids(m_active_buffer')
  /\ PlaceIds'["priority"] = Ids(m_priority_buffer')
  /\ PlaceIds'["reads"] = Ids(pending_reads')
  /\ PlaceIds'["writes"] = IdsOfWrites(pending_writes') /\ PlaceIds'["done"] = completed'
BY DEF PlaceIds, Places, Ids

(* There is room in the active buffer for what opens a row: otherwise each *)
(* of its requests would have a bank of its own, and there are too few.    *)
LEMMA RoomInActive ==
  ASSUME StateOK, OneOfABank(m_active_buffer)
  PROVE  Len(m_active_buffer) < ActiveSize
<1> DEFINE b == m_active_buffer
           n == Len(b)
           f == [i \in 1 .. n |-> b[i].s.bank]
<1>1. b \in Seq(Plain) /\ n \in Nat
  BY Basics DEF StateOK, BuffersOK
<1>2. \A r \in Plain : r.s.bank \in Banks
  BY RequestAssumption DEF Plain, Requests, ShapesOf
<1>3. \A i \in 1 .. n : b[i].s.bank \in Banks
  BY <1>1, <1>2, ElementOfSeq
<1>4. f \in [1 .. n -> Banks]
  BY <1>3
<1>5. \A i, j \in 1 .. n : f[i] = f[j] => i = j
  BY DEF OneOfABank
<1>6. IsFiniteSet(1 .. n) /\ Cardinality(1 .. n) = n
  BY <1>1, FS_Interval
<1> HIDE DEF n, f
<1>7. ~(Cardinality(Banks) < Cardinality(1 .. n))
  <2>1. SUFFICES ASSUME Cardinality(Banks) < Cardinality(1 .. n) PROVE FALSE
    OBVIOUS
  <2>2. IsFiniteSet(Banks)
    BY ControllerAssumption
  <2>3. \E x, y \in 1 .. n : x # y /\ f[x] = f[y]
    BY <1>4, <1>6, <2>1, <2>2, FS_PigeonHole
  <2> QED
    BY <1>5, <2>3
<1>8. Cardinality(Banks) \in Nat /\ ActiveSize \in Nat /\ ActiveSize > Cardinality(Banks)
  BY FS_CardinalityType, ControllerAssumption
<1> QED
  BY <1>1, <1>6, <1>7, <1>8 DEF n

(* The places after serve_completed_reqs. *)
ServedPlaces ==
  Moved(Moved(PlaceIds, "reads", "done", HeadDone), "writes", "done", WritesDone)

LEMMA ServedPlacesAre ==
  ASSUME StateOK, PlacesOK
  PROVE  /\ Apart(ServedPlaces) /\ Together(ServedPlaces) = Together(PlaceIds)
         /\ ServedPlaces["reads"] = Ids(ServedReads)
         /\ ServedPlaces["writes"] = IdsOfWrites(ServedWrites)
         /\ ServedPlaces["done"] = completed \union Completions
         /\ \A p \in Places : p \notin {"reads", "writes", "done"} => ServedPlaces[p] = PlaceIds[p]
         /\ NoDup(ServedReads) /\ \A v, w \in ServedWrites : v.id = w.id => v = w
<1> DEFINE P == PlaceIds
           Q == Moved(P, "reads", "done", HeadDone)
<1>1. /\ NoDup(ServedReads) /\ Ids(ServedReads) = Ids(pending_reads) \ HeadDone
      /\ HeadDone \subseteq Ids(pending_reads)
      /\ \A v, w \in ServedWrites : v.id = w.id => v = w
      /\ IdsOfWrites(ServedWrites) = IdsOfWrites(pending_writes) \ WritesDone
      /\ WritesDone \subseteq IdsOfWrites(pending_writes)
  BY ServedReadsIds, ServedWritesIds DEF StateOK, PlacesOK, Distinct
<1>2. /\ P["reads"] = Ids(pending_reads) /\ P["writes"] = IdsOfWrites(pending_writes)
      /\ P["done"] = completed
  BY PlaceIdsAre
<1>3. "reads" \in Places /\ "writes" \in Places /\ "done" \in Places
  BY DEF Places
<1>4. Completions = WritesDone \union HeadDone
  BY DEF Completions, WritesDone, HeadDone
<1> HIDE DEF P
<1>5. /\ Q["reads"] = Ids(ServedReads) /\ Q["writes"] = P["writes"]
      /\ Q["done"] = completed \union HeadDone
      /\ \A p \in Places : p \notin {"reads", "done"} => Q[p] = P[p]
  BY <1>1, <1>2, <1>3 DEF Moved
<1>6. Apart(Q) /\ Together(Q) = Together(P)
  <2>1. Apart(P) /\ HeadDone \subseteq P["reads"]
    BY <1>1, <1>2 DEF P, PlacesOK
  <2> QED
    BY <1>3, <2>1, MovedApart
<1> HIDE DEF Q
<1> DEFINE R == Moved(Q, "writes", "done", WritesDone)
<1>7. /\ R["reads"] = Ids(ServedReads) /\ R["writes"] = IdsOfWrites(ServedWrites)
      /\ R["done"] = completed \union Completions
      /\ \A p \in Places : p \notin {"reads", "writes", "done"} => R[p] = P[p]
  BY <1>1, <1>2, <1>3, <1>4, <1>5 DEF Moved
<1>8. Apart(R) /\ Together(R) = Together(Q)
  <2>1. WritesDone \subseteq Q["writes"]
    BY <1>1, <1>2, <1>5
  <2> QED
    BY <1>3, <1>6, <2>1, MovedApart
<1>9. R = ServedPlaces
  BY DEF R, Q, P, ServedPlaces
<1> QED
  BY <1>1, <1>6, <1>7, <1>8, <1>9 DEF P

(* What is left of the ids of buffer `name'. *)
LeftIn(c, new, name, ids) ==
  IF c.buffer = name /\ new = << >> THEN ids \ {c.req.id} ELSE ids

(* The ids in the buffers, when the request that is considered is found.   *)
LEMMA BuffersIds ==
  ASSUME BuffersOK, Distinct, NEW c, c = Considered, request_found(c), NEW new,
         new = << >> \/ new = <<Marked(c.req)>>, ReplaceRequest(c, new),
         NEW w, w = Updated(c, "active", m_active_buffer, new)
  PROVE  /\ NoDup(m_read_buffer') /\ Ids(m_read_buffer') = LeftIn(c, new, "read", Ids(m_read_buffer))
         /\ NoDup(m_write_buffer') /\ Ids(m_write_buffer') = LeftIn(c, new, "write", Ids(m_write_buffer))
         /\ NoDup(m_aim_buffer') /\ Ids(m_aim_buffer') = LeftIn(c, new, "aim", Ids(m_aim_buffer))
         /\ NoDup(m_priority_buffer') /\ Ids(m_priority_buffer') = LeftIn(c, new, "priority", Ids(m_priority_buffer))
         /\ NoDup(w) /\ Ids(w) = LeftIn(c, new, "active", Ids(m_active_buffer))
         /\ c.buffer \in {"read", "write", "aim", "active", "priority"}
         /\ c.req.id \in PlaceIds[c.buffer]
<1>1. /\ ChosenFrom(c, c.buffer, m_read_buffer) \/ c.buffer # "read"
      /\ ChosenFrom(c, c.buffer, m_write_buffer) \/ c.buffer # "write"
      /\ ChosenFrom(c, c.buffer, m_aim_buffer) \/ c.buffer # "aim"
      /\ ChosenFrom(c, c.buffer, m_priority_buffer) \/ c.buffer # "priority"
      /\ ChosenFrom(c, c.buffer, m_active_buffer) \/ c.buffer # "active"
      /\ c.buffer \in {"read", "write", "aim", "active", "priority"}
  BY Found DEF ChosenFrom
<1>2. /\ c.buffer = "read" => c.index \in 1 .. Len(m_read_buffer) /\ c.req = m_read_buffer[c.index]
      /\ c.buffer = "write" => c.index \in 1 .. Len(m_write_buffer) /\ c.req = m_write_buffer[c.index]
      /\ c.buffer = "aim" => c.index \in 1 .. Len(m_aim_buffer) /\ c.req = m_aim_buffer[c.index]
      /\ c.buffer = "priority" =>
           c.index \in 1 .. Len(m_priority_buffer) /\ c.req = m_priority_buffer[c.index]
      /\ c.buffer = "active" =>
           c.index \in 1 .. Len(m_active_buffer) /\ c.req = m_active_buffer[c.index]
  BY <1>1 DEF ChosenFrom
<1>3. /\ NoDup(m_read_buffer')
      /\ Ids(m_read_buffer') = LeftIn(c, new, "read", Ids(m_read_buffer))
      /\ c.buffer = "read" => c.req.id \in Ids(m_read_buffer)
  <2>1. /\ m_read_buffer \in Seq(Requests("Read")) /\ NoDup(m_read_buffer)
        /\ m_read_buffer' = Updated(c, "read", m_read_buffer, new)
    BY DEF BuffersOK, ReplaceRequest, Distinct
  <2>2. /\ NoDup(m_read_buffer')
        /\ Ids(m_read_buffer') = IF c.buffer = "read" /\ new = << >> THEN Ids(m_read_buffer) \ {c.req.id}
                              ELSE Ids(m_read_buffer)
        /\ c.buffer = "read" => c.req.id \in Ids(m_read_buffer)
    BY <1>2, <2>1, MarkedIs, ShrunkIds
  <2> QED
    BY <2>2 DEF LeftIn
<1>4. /\ NoDup(m_write_buffer')
      /\ Ids(m_write_buffer') = LeftIn(c, new, "write", Ids(m_write_buffer))
      /\ c.buffer = "write" => c.req.id \in Ids(m_write_buffer)
  <2>1. /\ m_write_buffer \in Seq(Requests("Write")) /\ NoDup(m_write_buffer)
        /\ m_write_buffer' = Updated(c, "write", m_write_buffer, new)
    BY DEF BuffersOK, ReplaceRequest, Distinct
  <2>2. /\ NoDup(m_write_buffer')
        /\ Ids(m_write_buffer') = IF c.buffer = "write" /\ new = << >> THEN Ids(m_write_buffer) \ {c.req.id}
                              ELSE Ids(m_write_buffer)
        /\ c.buffer = "write" => c.req.id \in Ids(m_write_buffer)
    BY <1>2, <2>1, MarkedIs, ShrunkIds
  <2> QED
    BY <2>2 DEF LeftIn
<1>5. /\ NoDup(m_aim_buffer')
      /\ Ids(m_aim_buffer') = LeftIn(c, new, "aim", Ids(m_aim_buffer))
      /\ c.buffer = "aim" => c.req.id \in Ids(m_aim_buffer)
  <2>1. /\ m_aim_buffer \in Seq(Requests("AIM")) /\ NoDup(m_aim_buffer)
        /\ m_aim_buffer' = Updated(c, "aim", m_aim_buffer, new)
    BY DEF BuffersOK, ReplaceRequest, Distinct
  <2>2. /\ NoDup(m_aim_buffer')
        /\ Ids(m_aim_buffer') = IF c.buffer = "aim" /\ new = << >> THEN Ids(m_aim_buffer) \ {c.req.id}
                              ELSE Ids(m_aim_buffer)
        /\ c.buffer = "aim" => c.req.id \in Ids(m_aim_buffer)
    BY <1>2, <2>1, MarkedIs, ShrunkIds
  <2> QED
    BY <2>2 DEF LeftIn
<1>6. /\ NoDup(m_priority_buffer')
      /\ Ids(m_priority_buffer') = LeftIn(c, new, "priority", Ids(m_priority_buffer))
      /\ c.buffer = "priority" => c.req.id \in Ids(m_priority_buffer)
  <2>1. /\ m_priority_buffer \in Seq(Requests("Refresh")) /\ NoDup(m_priority_buffer)
        /\ m_priority_buffer' = Updated(c, "priority", m_priority_buffer, new)
    BY DEF BuffersOK, ReplaceRequest, Distinct
  <2>2. /\ NoDup(m_priority_buffer')
        /\ Ids(m_priority_buffer') = IF c.buffer = "priority" /\ new = << >> THEN Ids(m_priority_buffer) \ {c.req.id}
                              ELSE Ids(m_priority_buffer)
        /\ c.buffer = "priority" => c.req.id \in Ids(m_priority_buffer)
    BY <1>2, <2>1, MarkedIs, ShrunkIds
  <2> QED
    BY <2>2 DEF LeftIn
<1>7. /\ NoDup(w) /\ Ids(w) = LeftIn(c, new, "active", Ids(m_active_buffer))
      /\ c.buffer = "active" => c.req.id \in Ids(m_active_buffer)
  <2>1. m_active_buffer \in Seq(Plain) /\ NoDup(m_active_buffer)
    BY DEF BuffersOK, Distinct
  <2>2. /\ NoDup(w)
        /\ Ids(w) = IF c.buffer = "active" /\ new = << >> THEN Ids(m_active_buffer) \ {c.req.id}
                    ELSE Ids(m_active_buffer)
        /\ c.buffer = "active" => c.req.id \in Ids(m_active_buffer)
    BY <1>2, <2>1, MarkedPlain, ShrunkIds
  <2> QED
    BY <2>2 DEF LeftIn
<1>8. c.req.id \in PlaceIds[c.buffer]
  BY <1>1, <1>3, <1>4, <1>5, <1>6, <1>7, PlaceIdsAre
<1> QED
  BY <1>1, <1>3, <1>4, <1>5, <1>6, <1>7, <1>8

SameTogether ==
  Distinct' /\ Apart(PlaceIds') /\ Together(PlaceIds') = Together(PlaceIds)

LEMMA PlacesNames ==
  \A p \in Places : p \in {"read", "write", "aim", "active", "priority", "reads", "writes", "done"}
BY DEF Places

LEMMA StallPlaces ==
  ASSUME StateOK, PlacesOK, NEW c, TickStall(c)
  PROVE  SameTogether
<1> DEFINE P == ServedPlaces
           Q == PlaceIds'
<1>1. /\ UNCHANGED buffers /\ pending_reads' = ServedReads /\ pending_writes' = ServedWrites
      /\ completed' = completed \union Completions
  BY DEF TickStall, TickBookkeeping
<1>2. /\ Apart(P) /\ Together(P) = Together(PlaceIds)
      /\ P["reads"] = Ids(ServedReads) /\ P["writes"] = IdsOfWrites(ServedWrites)
      /\ P["done"] = completed \union Completions
      /\ \A p \in Places : p \notin {"reads", "writes", "done"} => P[p] = PlaceIds[p]
      /\ NoDup(ServedReads) /\ \A v, w \in ServedWrites : v.id = w.id => v = w
  BY ServedPlacesAre
<1>3. Distinct'
  BY <1>1, <1>2 DEF PlacesOK, Distinct, buffers
<1>4. /\ m_read_buffer' = m_read_buffer /\ m_write_buffer' = m_write_buffer
      /\ m_aim_buffer' = m_aim_buffer /\ m_active_buffer' = m_active_buffer
      /\ m_priority_buffer' = m_priority_buffer
  BY <1>1 DEF buffers
<1>5. /\ Q["read"] = PlaceIds["read"] /\ Q["write"] = PlaceIds["write"]
      /\ Q["aim"] = PlaceIds["aim"] /\ Q["active"] = PlaceIds["active"]
      /\ Q["priority"] = PlaceIds["priority"] /\ Q["reads"] = P["reads"]
      /\ Q["writes"] = P["writes"] /\ Q["done"] = P["done"]
  BY <1>1, <1>2, <1>4, PlaceIdsAre, PlaceIdsNext
<1> HIDE DEF P, Q
<1>6. \A p \in Places : Q[p] = P[p]
  BY <1>2, <1>5, PlacesNames
<1>7. Apart(Q) /\ Together(Q) = Together(P)
  BY <1>2, <1>6, SamePlaces
<1> QED
  BY <1>2, <1>3, <1>7 DEF Q, SameTogether

LEMMA BarrierPlaces ==
  ASSUME StateOK, PlacesOK, NEW c, c = Considered, TickBarrier(c)
  PROVE  SameTogether /\ c.req = Head(m_aim_buffer) /\ c.buffer = "aim" /\ c.req \in Requests("AIM")
<1> DEFINE P == ServedPlaces
           Q == PlaceIds'
           id == c.req.id
           r == [id |-> c.req.id, eoc |-> TRUE, left |-> 0]
<1>1. /\ request_found(c) /\ c.req.s.eoc /\ ReplaceRequest(c, << >>)
      /\ pending_reads' = Append(ServedReads, r) /\ pending_writes' = ServedWrites
      /\ completed' = completed \union Completions /\ m_active_buffer' = m_active_buffer
  BY DEF TickBarrier, TickBookkeeping
<1>2. /\ Apart(P) /\ Together(P) = Together(PlaceIds)
      /\ P["reads"] = Ids(ServedReads) /\ P["writes"] = IdsOfWrites(ServedWrites)
      /\ P["done"] = completed \union Completions
      /\ \A p \in Places : p \notin {"reads", "writes", "done"} => P[p] = PlaceIds[p]
      /\ NoDup(ServedReads) /\ \A v, w \in ServedWrites : v.id = w.id => v = w
  BY ServedPlacesAre
<1>3. BuffersOK /\ Distinct
  BY DEF StateOK, PlacesOK
<1>4. c.buffer = "aim" /\ c.req \in Requests("AIM") /\ c.req = Head(m_aim_buffer)
  <2>1. c.req \in Plain => ~c.req.s.eoc
    BY RequestAssumption DEF Plain, Requests, ShapesOf
  <2>2. c.req \in Requests("Refresh") => ~c.req.s.eoc
    BY RequestAssumption DEF Requests, ShapesOf
  <2>3. c.req \in Requests("Read") \/ c.req \in Requests("Write") => c.req \in Plain
    BY DEF Plain
  <2>4. ChosenFrom(c, "aim", m_aim_buffer) /\ c.index = 1 /\ c.req \in Requests("AIM")
    BY <1>1, <1>3, <2>1, <2>2, <2>3, Found
  <2>5. c.buffer = "aim" /\ c.req = m_aim_buffer[1] /\ m_aim_buffer # << >>
    BY <2>4 DEF ChosenFrom
  <2> QED
    BY <1>3, <2>4, <2>5, HeadTailProperties DEF BuffersOK
<1>5. /\ NoDup(m_read_buffer') /\ Ids(m_read_buffer') = LeftIn(c, << >>, "read", Ids(m_read_buffer))
      /\ NoDup(m_write_buffer') /\ Ids(m_write_buffer') = LeftIn(c, << >>, "write", Ids(m_write_buffer))
      /\ NoDup(m_aim_buffer') /\ Ids(m_aim_buffer') = LeftIn(c, << >>, "aim", Ids(m_aim_buffer))
      /\ NoDup(m_priority_buffer')
      /\ Ids(m_priority_buffer') = LeftIn(c, << >>, "priority", Ids(m_priority_buffer))
      /\ c.req.id \in PlaceIds[c.buffer]
  BY <1>1, <1>3, BuffersIds
<1>6. /\ Ids(m_read_buffer') = Ids(m_read_buffer) /\ Ids(m_write_buffer') = Ids(m_write_buffer)
      /\ Ids(m_aim_buffer') = Ids(m_aim_buffer) \ {id}
      /\ Ids(m_priority_buffer') = Ids(m_priority_buffer) /\ id \in P["aim"]
  BY <1>2, <1>4, <1>5 DEF LeftIn, Places
<1>7. id \notin Ids(ServedReads)
  BY <1>2, <1>6 DEF Apart, Places
<1>8. /\ Ids(pending_reads') = Ids(ServedReads) \union {id} /\ NoDup(pending_reads')
  <2>1. id \in RequestId
    BY <1>1, <1>3, Found, ShapeIs
  <2>2. r \in PendingRead /\ r.id = id
    BY <2>1 DEF PendingRead
  <2>3. ServedReads \in Seq(PendingRead)
    BY ServedOK DEF StateOK
  <2> HIDE DEF r, id
  <2>4. /\ Ids(Append(ServedReads, r)) = Ids(ServedReads) \union {r.id}
        /\ NoDup(Append(ServedReads, r))
    BY <1>2, <1>7, <2>2, <2>3, AppendIds
  <2> QED
    BY <1>1, <2>2, <2>4
<1>9. Distinct'
  BY <1>1, <1>2, <1>3, <1>5, <1>8 DEF Distinct
<1> DEFINE R == Moved(P, "aim", "reads", {id})
<1> HIDE DEF P, id
<1>10. Apart(R) /\ Together(R) = Together(P)
  <2>1. {id} \subseteq P["aim"] /\ "aim" \in Places /\ "reads" \in Places
    BY <1>6 DEF Places
  <2> QED
    BY <1>2, <2>1, MovedApart
<1>11. /\ R["aim"] = P["aim"] \ {id} /\ R["reads"] = P["reads"] \union {id}
       /\ \A p \in Places : p \notin {"aim", "reads"} => R[p] = P[p]
  BY DEF Moved, Places
<1>12. /\ Q["read"] = P["read"] /\ Q["write"] = P["write"]
       /\ Q["aim"] = P["aim"] \ {id} /\ Q["active"] = P["active"]
       /\ Q["priority"] = P["priority"] /\ Q["reads"] = P["reads"] \union {id}
       /\ Q["writes"] = P["writes"] /\ Q["done"] = P["done"]
  BY <1>1, <1>2, <1>6, <1>8, PlaceIdsAre, PlaceIdsNext DEF Places
<1> HIDE DEF Q, R
<1>13. \A p \in Places : Q[p] = R[p]
  BY <1>11, <1>12, PlacesNames DEF Places
<1>14. Apart(Q) /\ Together(Q) = Together(R)
  BY <1>10, <1>13, SamePlaces
<1> QED
  BY <1>2, <1>4, <1>9, <1>10, <1>14 DEF Q, SameTogether

(* What a command that ends a request does to its id, and what one that    *)
(* opens its row does.                                                     *)
LEMMA EndsOrOpens ==
  ASSUME BuffersOK, NEW c, c = Considered, request_found(c), ~c.req.s.eoc
  PROVE  /\ Issued(c) = c.req.s.final => ~Opens(c)
         /\ Opens(c) => c.req \in Plain
<1>1. Opens(c) => c.req \in Plain /\ Issued(c) = "ACT" /\ c.req.s.final \in {"RD", "WR"}
  BY OpensPlain DEF Issued
<1> QED
  BY <1>1

LEMMA IssueBuffers ==
  ASSUME StateOK, PlacesOK, OneOfABank(m_active_buffer),
         NEW c, c = Considered, NEW rtl, TickIssue(c, rtl)
  PROVE  /\ NoDup(m_read_buffer') /\ Ids(m_read_buffer') = LeftIn(c, NewIn(c), "read", Ids(m_read_buffer))
         /\ NoDup(m_write_buffer')
         /\ Ids(m_write_buffer') = LeftIn(c, NewIn(c), "write", Ids(m_write_buffer))
         /\ NoDup(m_aim_buffer') /\ Ids(m_aim_buffer') = LeftIn(c, NewIn(c), "aim", Ids(m_aim_buffer))
         /\ NoDup(m_priority_buffer')
         /\ Ids(m_priority_buffer') = LeftIn(c, NewIn(c), "priority", Ids(m_priority_buffer))
         /\ NoDup(m_active_buffer')
         /\ Ids(m_active_buffer') = LeftIn(c, NewIn(c), "active", Ids(m_active_buffer))
                                    \union (IF Opens(c) THEN {c.req.id} ELSE {})
         /\ c.buffer \in {"read", "write", "aim", "active", "priority"}
         /\ c.req.id \in PlaceIds[c.buffer]
<1> DEFINE w == Updated(c, "active", m_active_buffer, NewIn(c))
           r == Marked(c.req)
           there == Opens(c) /\ Len(m_active_buffer) < ActiveSize
<1>1. BuffersOK /\ Distinct /\ Apart(PlaceIds)
  BY DEF StateOK, PlacesOK
<1>2. /\ request_found(c) /\ ~c.req.s.eoc /\ ReplaceRequest(c, NewIn(c))
      /\ m_active_buffer' = Joined(w, IF there THEN <<r>> ELSE << >>)
  BY IssueIs
<1>3. NewIn(c) = << >> \/ NewIn(c) = <<Marked(c.req)>>
  BY DEF NewIn
<1>4. /\ NoDup(m_read_buffer') /\ Ids(m_read_buffer') = LeftIn(c, NewIn(c), "read", Ids(m_read_buffer))
      /\ NoDup(m_write_buffer')
      /\ Ids(m_write_buffer') = LeftIn(c, NewIn(c), "write", Ids(m_write_buffer))
      /\ NoDup(m_aim_buffer') /\ Ids(m_aim_buffer') = LeftIn(c, NewIn(c), "aim", Ids(m_aim_buffer))
      /\ NoDup(m_priority_buffer')
      /\ Ids(m_priority_buffer') = LeftIn(c, NewIn(c), "priority", Ids(m_priority_buffer))
      /\ NoDup(w) /\ Ids(w) = LeftIn(c, NewIn(c), "active", Ids(m_active_buffer))
      /\ c.buffer \in {"read", "write", "aim", "active", "priority"}
      /\ c.req.id \in PlaceIds[c.buffer]
  BY <1>1, <1>2, <1>3, BuffersIds
<1>5. w \in Seq(Plain)
  BY <1>1, <1>2, <1>3, BuffersAfter
<1>6. there <=> Opens(c)
  BY RoomInActive
<1>7. Opens(c) => c.req \in Plain /\ r \in Plain /\ r.id = c.req.id /\ NewIn(c) = << >>
  BY <1>1, <1>2, EndsOrOpens, MarkedPlain DEF NewIn, Leaves
<1>8. CASE Opens(c)
  <2>1. c.req.id \notin Ids(w)
    <3>1. CASE c.buffer = "active"
      BY <1>4, <1>7, <1>8, <3>1 DEF LeftIn
    <3>2. CASE c.buffer # "active"
      BY <1>1, <1>4, <1>7, <1>8, <3>2, PlaceIdsAre DEF LeftIn, Apart, Places
    <3> QED
      BY <3>1, <3>2
  <2> HIDE DEF w, r, there
  <2>2. m_active_buffer' = Append(w, r)
    BY <1>2, <1>5, <1>6, <1>7, <1>8, JoinedIs
  <2>3. /\ Ids(Append(w, r)) = Ids(w) \union {r.id}
        /\ NoDup(Append(w, r))
    BY <1>4, <1>5, <1>7, <1>8, <2>1, AppendIds
  <2>4. /\ NoDup(m_active_buffer')
        /\ Ids(m_active_buffer') = LeftIn(c, NewIn(c), "active", Ids(m_active_buffer)) \union {c.req.id}
    BY <1>4, <1>7, <1>8, <2>2, <2>3
  <2> QED
    BY <1>4, <1>8, <2>4
<1>9. CASE ~Opens(c)
  <2> HIDE DEF w, r, there
  <2>1. m_active_buffer' = w
    BY <1>2, <1>5, <1>6, <1>9, JoinedNone
  <2> QED
    BY <1>4, <1>9, <2>1
<1> QED
  BY <1>8, <1>9

LEMMA IssueQueues ==
  ASSUME StateOK, PlacesOK, NEW c, c = Considered, NEW rtl, TickIssue(c, rtl),
         c.req.id \notin Ids(ServedReads), c.req.id \notin IdsOfWrites(ServedWrites)
  PROVE  /\ NoDup(pending_reads') /\ \A v, w \in pending_writes' : v.id = w.id => v = w
         /\ Ids(pending_reads') = Ids(ServedReads) \union
              (IF Issued(c) = c.req.s.final /\ c.req.s.reader THEN {c.req.id} ELSE {})
         /\ IdsOfWrites(pending_writes') = IdsOfWrites(ServedWrites) \union
              (IF Issued(c) = c.req.s.final /\ ~c.req.s.reader THEN {c.req.id} ELSE {})
<1> DEFINE r == [id |-> Marked(c.req).id, eoc |-> FALSE, left |-> Latency(Issued(c))]
           v == [id |-> Marked(c.req).id, left |-> Latency(Issued(c))]
           ends == Issued(c) = c.req.s.final
<1>1. BuffersOK /\ request_found(c)
  BY IssueIs DEF StateOK
<1>2. c.req.id \in RequestId /\ Latency(c.req.s.final) \in Nat /\ Marked(c.req).id = c.req.id
  BY <1>1, Found, ShapeIs, MarkedIs
<1>3. NoDup(ServedReads) /\ \A u, w \in ServedWrites : u.id = w.id => u = w
  BY ServedPlacesAre
<1>4. ServedReads \in Seq(PendingRead)
  BY ServedOK DEF StateOK
<1>5. /\ pending_reads' = IF ends /\ c.req.s.reader THEN Append(ServedReads, r) ELSE ServedReads
      /\ pending_writes' = IF ends /\ ~c.req.s.reader THEN ServedWrites \union {v} ELSE ServedWrites
  BY IssueIs
<1>6. r.id = c.req.id /\ v.id = c.req.id /\ (ends => r \in PendingRead)
  BY <1>2 DEF PendingRead
<1> HIDE DEF r, v, ends
<1>7. /\ NoDup(pending_reads')
      /\ Ids(pending_reads') = Ids(ServedReads) \union
           (IF ends /\ c.req.s.reader THEN {c.req.id} ELSE {})
  <2>1. CASE ends /\ c.req.s.reader
    <3>1. Ids(Append(ServedReads, r)) = Ids(ServedReads) \union {r.id} /\ NoDup(Append(ServedReads, r))
      BY <1>3, <1>4, <1>6, <2>1, AppendIds
    <3> QED
      BY <1>5, <1>6, <2>1, <3>1
  <2>2. CASE ~(ends /\ c.req.s.reader)
    BY <1>3, <1>5, <2>2
  <2> QED
    BY <2>1, <2>2
<1>8. /\ \A u, w \in pending_writes' : u.id = w.id => u = w
      /\ IdsOfWrites(pending_writes') = IdsOfWrites(ServedWrites) \union
           (IF ends /\ ~c.req.s.reader THEN {c.req.id} ELSE {})
  <2>1. CASE ends /\ ~c.req.s.reader
    <3>1. pending_writes' = ServedWrites \union {v}
      BY <1>5, <2>1
    <3>2. \A u \in ServedWrites : u.id # v.id
      BY <1>6 DEF IdsOfWrites
    <3>3. IdsOfWrites(ServedWrites \union {v}) = IdsOfWrites(ServedWrites) \union {v.id}
      BY DEF IdsOfWrites
    <3> QED
      BY <1>3, <1>6, <2>1, <3>1, <3>2, <3>3
  <2>2. CASE ~(ends /\ ~c.req.s.reader)
    BY <1>3, <1>5, <2>2
  <2> QED
    BY <2>1, <2>2
<1> QED
  BY <1>7, <1>8 DEF ends

(* Where the request of an issued command goes. *)
GoesTo(c) ==
  IF Issued(c) = c.req.s.final THEN (IF c.req.s.reader THEN "reads" ELSE "writes")
  ELSE IF Opens(c) THEN "active" ELSE c.buffer

LEMMA IssuePlaces ==
  ASSUME StateOK, PlacesOK, OneOfABank(m_active_buffer),
         NEW c, c = Considered, NEW rtl, TickIssue(c, rtl)
  PROVE  SameTogether
<1> DEFINE P == ServedPlaces
           Q == PlaceIds'
           id == c.req.id
           src == c.buffer
           ends == Issued(c) = c.req.s.final
           In(name, ids) == LeftIn(c, NewIn(c), name, ids)
<1>1. BuffersOK /\ request_found(c) /\ ~c.req.s.eoc /\ TickBookkeeping(c)
  BY IssueIs DEF StateOK
<1>2. /\ Apart(P) /\ Together(P) = Together(PlaceIds)
      /\ P["reads"] = Ids(ServedReads) /\ P["writes"] = IdsOfWrites(ServedWrites)
      /\ P["done"] = completed \union Completions
      /\ \A p \in Places : p \notin {"reads", "writes", "done"} => P[p] = PlaceIds[p]
  BY ServedPlacesAre
<1>3. /\ NoDup(m_read_buffer') /\ Ids(m_read_buffer') = In("read", Ids(m_read_buffer))
      /\ NoDup(m_write_buffer') /\ Ids(m_write_buffer') = In("write", Ids(m_write_buffer))
      /\ NoDup(m_aim_buffer') /\ Ids(m_aim_buffer') = In("aim", Ids(m_aim_buffer))
      /\ NoDup(m_priority_buffer') /\ Ids(m_priority_buffer') = In("priority", Ids(m_priority_buffer))
      /\ NoDup(m_active_buffer')
      /\ Ids(m_active_buffer') = In("active", Ids(m_active_buffer))
                                 \union (IF Opens(c) THEN {id} ELSE {})
      /\ src \in {"read", "write", "aim", "active", "priority"} /\ id \in PlaceIds[src]
  BY IssueBuffers
<1>4. /\ src \in Places /\ src \notin {"reads", "writes", "done"} /\ id \in P[src]
      /\ "reads" \in Places /\ "writes" \in Places /\ "active" \in Places
  BY <1>2, <1>3 DEF Places
<1>5. id \notin P["reads"] /\ id \notin P["writes"]
  BY <1>2, <1>4 DEF Apart
<1>6. /\ NoDup(pending_reads') /\ \A v, w \in pending_writes' : v.id = w.id => v = w
      /\ Ids(pending_reads') = Ids(ServedReads) \union (IF ends /\ c.req.s.reader THEN {id} ELSE {})
      /\ IdsOfWrites(pending_writes') =
           IdsOfWrites(ServedWrites) \union (IF ends /\ ~c.req.s.reader THEN {id} ELSE {})
  BY <1>2, <1>5, IssueQueues
<1>7. Distinct'
  BY <1>3, <1>6 DEF Distinct
<1>8. ends => ~Opens(c)
  BY <1>1, EndsOrOpens
<1>9. completed' = completed \union Completions
  BY <1>1 DEF TickBookkeeping
<1>10. NewIn(c) = << >> <=> (ends \/ Opens(c))
  BY DEF NewIn, Leaves
<1>11. \A name, ids : In(name, ids) = IF src = name /\ (ends \/ Opens(c)) THEN ids \ {id} ELSE ids
  BY <1>10 DEF LeftIn
<1>12. /\ Q["read"] = In("read", P["read"]) /\ Q["write"] = In("write", P["write"])
       /\ Q["aim"] = In("aim", P["aim"]) /\ Q["priority"] = In("priority", P["priority"])
       /\ Q["active"] = In("active", P["active"]) \union (IF Opens(c) THEN {id} ELSE {})
       /\ Q["reads"] = P["reads"] \union (IF ends /\ c.req.s.reader THEN {id} ELSE {})
       /\ Q["writes"] = P["writes"] \union (IF ends /\ ~c.req.s.reader THEN {id} ELSE {})
       /\ Q["done"] = P["done"]
  BY <1>2, <1>3, <1>6, <1>9, PlaceIdsAre, PlaceIdsNext DEF Places
<1>13. GoesTo(c) = IF ends THEN (IF c.req.s.reader THEN "reads" ELSE "writes")
                   ELSE IF Opens(c) THEN "active" ELSE src
  BY DEF GoesTo
<1> HIDE DEF P, Q, id, src, ends, In
<1>14. CASE GoesTo(c) = src
  <2>1. /\ ~ends /\ (Opens(c) => src = "active")
    BY <1>4, <1>13, <1>14
  <2>2. \A p \in Places : Q[p] = P[p]
    BY <1>4, <1>11, <1>12, <2>1, PlacesNames
  <2>3. Apart(Q) /\ Together(Q) = Together(P)
    BY <1>2, <2>2, SamePlaces
  <2> QED
    BY <1>2, <1>7, <2>3 DEF Q, SameTogether
<1>15. CASE GoesTo(c) # src
  <2> DEFINE to == GoesTo(c)
             R == Moved(P, src, to, {id})
  <2>1. to \in Places /\ (ends \/ Opens(c))
    BY <1>4, <1>13, <1>15
  <2>2. /\ to = "reads" <=> ends /\ c.req.s.reader
        /\ to = "writes" <=> ends /\ ~c.req.s.reader
        /\ to = "active" <=> Opens(c)
        /\ to \in {"reads", "writes", "active"} /\ src # to
    BY <1>4, <1>8, <1>13, <1>15
  <2> HIDE DEF to
  <2>3. Apart(R) /\ Together(R) = Together(P)
    <3>1. {id} \subseteq P[src]
      BY <1>4
    <3> QED
      BY <1>2, <1>4, <2>1, <2>2, <3>1, MovedApart
  <2>4. /\ R[src] = P[src] \ {id} /\ R[to] = P[to] \union {id}
        /\ \A p \in Places : p # src /\ p # to => R[p] = P[p]
    BY <1>4, <2>1, <2>2 DEF Moved
  <2> HIDE DEF R
  <2>5. \A name, ids : In(name, ids) = IF src = name THEN ids \ {id} ELSE ids
    BY <1>11, <2>1
  <2>6. Q["read"] = R["read"] /\ Q["write"] = R["write"] /\ Q["aim"] = R["aim"]
        /\ Q["priority"] = R["priority"]
    BY <1>12, <2>2, <2>4, <2>5 DEF Places
  <2>7. Q["active"] = R["active"]
    <3>1. CASE to = "active"
      BY <1>12, <2>2, <2>4, <2>5, <3>1
    <3>2. CASE to # "active"
      BY <1>4, <1>12, <2>2, <2>4, <2>5, <3>2
    <3> QED
      BY <3>1, <3>2
  <2>8. Q["reads"] = R["reads"]
    BY <1>4, <1>12, <2>2, <2>4
  <2>9. Q["writes"] = R["writes"]
    BY <1>4, <1>12, <2>2, <2>4
  <2>10. Q["done"] = R["done"]
    BY <1>4, <1>12, <2>2, <2>4 DEF Places
  <2>11. \A p \in Places : Q[p] = R[p]
    BY <2>6, <2>7, <2>8, <2>9, <2>10, PlacesNames
  <2>12. Apart(Q) /\ Together(Q) = Together(R)
    BY <2>3, <2>11, SamePlaces
  <2> QED
    BY <1>2, <1>7, <2>3, <2>12 DEF Q, SameTogether
<1> QED
  BY <1>14, <1>15

(* A request is accepted into place p under an id of its own. *)
LEMMA GainedApart ==
  ASSUME NEW P, NEW Q, NEW p \in Places, NEW id, Apart(P), id \notin Together(P),
         Q[p] = P[p] \union {id}, \A r \in Places : r # p => Q[r] = P[r]
  PROVE  Apart(Q) /\ Together(Q) = Together(P) \union {id}
<1>1. \A r \in Places : id \notin P[r]
  BY DEF Together
<1>2. Apart(Q)
  BY <1>1 DEF Apart
<1>3. ASSUME NEW x
      PROVE  (\E r \in Places : x \in Q[r]) <=> ((\E r \in Places : x \in P[r]) \/ x = id)
  <2>1. CASE x = id
    BY <2>1
  <2>2. CASE x # id
    <3>1. \A r \in Places : x \in Q[r] <=> x \in P[r]
      BY <2>2
    <3> QED
      BY <2>2, <3>1
  <2> QED
    BY <2>1, <2>2
<1>4. Together(Q) = Together(P) \union {id}
  BY <1>3 DEF Together
<1> QED
  BY <1>2, <1>4

LEMMA NewIdIsNew ==
  ASSUME StateOK, PlacesOK, NEW s
  PROVE  NewId(s) \notin Together(PlaceIds)
<1>1. NewId(s)[2] = nrequests + 1
  BY DEF NewId
<1>2. nrequests \in Nat
  BY Basics
<1>3. \A x \in Together(PlaceIds) : x[2] <= nrequests
  BY DEF PlacesOK, Accounted
<1>4. ~(nrequests + 1 <= nrequests)
  BY <1>2
<1> QED
  BY <1>1, <1>3, <1>4

LEMMA GainedAccounted ==
  ASSUME StateOK, PlacesOK, NEW s, nrequests' = nrequests + 1,
         Together(PlaceIds') = Together(PlaceIds) \union {NewId(s)}
  PROVE  Accounted'
<1>1. NewId(s) \notin Together(PlaceIds) /\ nrequests \in Nat
  BY NewIdIsNew, Basics
<1>2. /\ IsFiniteSet(Together(PlaceIds)) /\ Cardinality(Together(PlaceIds)) = nrequests
      /\ \A x \in Together(PlaceIds) : x[2] <= nrequests
  BY DEF PlacesOK, Accounted
<1>3. IsFiniteSet(Together(PlaceIds')) /\ Cardinality(Together(PlaceIds')) = nrequests + 1
  BY <1>1, <1>2, FS_AddElement
<1>4. ASSUME NEW x \in Together(PlaceIds') PROVE x[2] <= nrequests + 1
  <2>1. CASE x = NewId(s)
    BY <1>1, <2>1 DEF NewId
  <2>2. CASE x \in Together(PlaceIds)
    <3>1. x[2] <= nrequests /\ x \in RequestId
      <4>1. \A b, S : b \in Seq(S) /\ (\A r \in S : r.id \in RequestId) => Ids(b) \subseteq RequestId
        BY IdsAre, ElementOfSeq
      <4>2. /\ \A t \in {"Read", "Write", "AIM", "Refresh"} : \A r \in Requests(t) : r.id \in RequestId
            /\ \A r \in Plain : r.id \in RequestId
            /\ \A r \in PendingRead : r.id \in RequestId
        BY DEF Requests, RequestId, Plain, PendingRead
      <4>3. /\ Ids(m_read_buffer) \subseteq RequestId /\ Ids(m_write_buffer) \subseteq RequestId
            /\ Ids(m_aim_buffer) \subseteq RequestId /\ Ids(m_active_buffer) \subseteq RequestId
            /\ Ids(m_priority_buffer) \subseteq RequestId /\ Ids(pending_reads) \subseteq RequestId
        BY <4>1, <4>2 DEF StateOK, BuffersOK, QueuesOK
      <4>4. IdsOfWrites(pending_writes) \subseteq RequestId /\ completed \subseteq RequestId
        BY DEF StateOK, QueuesOK, PendingWrite, IdsOfWrites
      <4>5. \A p \in Places : PlaceIds[p] \subseteq RequestId
        BY <4>3, <4>4, PlaceIdsAre, PlacesNames
      <4> QED
        BY <1>2, <2>2, <4>5 DEF Together
    <3>2. x[2] \in Nat
      BY <3>1 DEF RequestId
    <3> QED
      BY <1>1, <3>1, <3>2
  <2> QED
    BY <2>1, <2>2
<1> QED
  BY <1>3, <1>4 DEF Accounted

LEMMA AppendedDistinct ==
  ASSUME NEW S, NEW b \in Seq(S), NEW r \in S, NEW p \in Places, NoDup(b), Ids(b) = PlaceIds[p],
         r.id \notin Together(PlaceIds)
  PROVE  NoDup(Append(b, r)) /\ Ids(Append(b, r)) = PlaceIds[p] \union {r.id}
<1>1. r.id \notin Ids(b)
  BY DEF Together
<1> QED
  BY <1>1, AppendIds

(* A step that accepts a request. *)
Accepts(s) ==
  /\ nrequests' = nrequests + 1 /\ Distinct'
  /\ \E p \in Places : /\ PlaceIds'[p] = PlaceIds[p] \union {NewId(s)}
                       /\ \A r \in Places : r # p => PlaceIds'[r] = PlaceIds[r]

LEMMA SendAccepts ==
  ASSUME StateOK, PlacesOK, NEW s \in Shapes, send(s)
  PROVE  Accepts(s)
<1> SUFFICES /\ nrequests' = nrequests + 1 /\ Distinct'
             /\ \E p \in Places : /\ PlaceIds'[p] = PlaceIds[p] \union {NewId(s)}
                                  /\ \A r \in Places : r # p => PlaceIds'[r] = PlaceIds[r]
  BY DEF Accepts
<1>1. BuffersOK /\ QueuesOK /\ Distinct
  BY DEF StateOK, PlacesOK
<1>2. Queued(s) \in Requests(s.type) /\ NewId(s) \in RequestId
  BY Basics, QueuedOK
<1>3. UNCHANGED <<m_active_buffer, m_priority_buffer, pending_writes, completed>>
  BY DEF send
<1>4. NewId(s) \notin Together(PlaceIds)
  BY NewIdIsNew
<1>5. CASE /\ nrequests' = nrequests + 1
           /\ pending_reads' = Append(pending_reads, [id |-> NewId(s), eoc |-> FALSE, left |-> 1])
           /\ UNCHANGED <<m_read_buffer, m_write_buffer, m_aim_buffer>>
  <2> DEFINE r == [id |-> NewId(s), eoc |-> FALSE, left |-> 1]
  <2>1. /\ pending_reads \in Seq(PendingRead) /\ r \in PendingRead /\ r.id = NewId(s)
        /\ NoDup(pending_reads) /\ Ids(pending_reads) = PlaceIds["reads"] /\ "reads" \in Places
    BY <1>1, <1>2, <1>5, PlaceIdsAre DEF Queued, Distinct, Places, BuffersOK, QueuesOK, PendingRead
  <2>2. /\ pending_reads' = Append(pending_reads, r) /\ nrequests' = nrequests + 1
        /\ UNCHANGED <<m_read_buffer, m_write_buffer, m_aim_buffer, m_active_buffer,
                      m_priority_buffer, pending_writes, completed>>
    BY <1>3, <1>5 DEF enqueue
  <2> HIDE DEF r
  <2>3. NoDup(pending_reads') /\ Ids(pending_reads') = PlaceIds["reads"] \union {NewId(s)}
    BY <1>4, <2>1, <2>2, AppendedDistinct
  <2>4. Distinct'
    BY <1>1, <2>2, <2>3 DEF Distinct
  <2>5. /\ PlaceIds'["reads"] = PlaceIds["reads"] \union {NewId(s)}
        /\ \A p \in Places : p # "reads" => PlaceIds'[p] = PlaceIds[p]
    BY <2>2, <2>3, PlaceIdsAre, PlaceIdsNext, PlacesNames
  <2> QED
    BY <2>1, <2>2, <2>4, <2>5
<1>6. CASE /\ s.type = "Read" /\ enqueue(m_read_buffer)
           /\ m_read_buffer' = Append(m_read_buffer, Queued(s))
           /\ UNCHANGED <<pending_reads, m_write_buffer, m_aim_buffer>>
  <2> DEFINE r == Queued(s)
  <2>1. /\ m_read_buffer \in Seq(Requests("Read")) /\ r \in Requests("Read") /\ r.id = NewId(s)
        /\ NoDup(m_read_buffer) /\ Ids(m_read_buffer) = PlaceIds["read"] /\ "read" \in Places
    BY <1>1, <1>2, <1>6, PlaceIdsAre DEF Queued, Distinct, Places, BuffersOK, QueuesOK, PendingRead
  <2>2. /\ m_read_buffer' = Append(m_read_buffer, r) /\ nrequests' = nrequests + 1
        /\ UNCHANGED <<m_write_buffer, m_aim_buffer, m_active_buffer, m_priority_buffer,
                      pending_reads, pending_writes, completed>>
    BY <1>3, <1>6 DEF enqueue
  <2> HIDE DEF r
  <2>3. NoDup(m_read_buffer') /\ Ids(m_read_buffer') = PlaceIds["read"] \union {NewId(s)}
    BY <1>4, <2>1, <2>2, AppendedDistinct
  <2>4. Distinct'
    BY <1>1, <2>2, <2>3 DEF Distinct
  <2>5. /\ PlaceIds'["read"] = PlaceIds["read"] \union {NewId(s)}
        /\ \A p \in Places : p # "read" => PlaceIds'[p] = PlaceIds[p]
    BY <2>2, <2>3, PlaceIdsAre, PlaceIdsNext, PlacesNames
  <2> QED
    BY <2>1, <2>2, <2>4, <2>5
<1>7. CASE /\ s.type = "Write" /\ enqueue(m_write_buffer)
           /\ m_write_buffer' = Append(m_write_buffer, Queued(s))
           /\ UNCHANGED <<pending_reads, m_read_buffer, m_aim_buffer>>
  <2> DEFINE r == Queued(s)
  <2>1. /\ m_write_buffer \in Seq(Requests("Write")) /\ r \in Requests("Write") /\ r.id = NewId(s)
        /\ NoDup(m_write_buffer) /\ Ids(m_write_buffer) = PlaceIds["write"] /\ "write" \in Places
    BY <1>1, <1>2, <1>7, PlaceIdsAre DEF Queued, Distinct, Places, BuffersOK, QueuesOK, PendingRead
  <2>2. /\ m_write_buffer' = Append(m_write_buffer, r) /\ nrequests' = nrequests + 1
        /\ UNCHANGED <<m_read_buffer, m_aim_buffer, m_active_buffer, m_priority_buffer,
                      pending_reads, pending_writes, completed>>
    BY <1>3, <1>7 DEF enqueue
  <2> HIDE DEF r
  <2>3. NoDup(m_write_buffer') /\ Ids(m_write_buffer') = PlaceIds["write"] \union {NewId(s)}
    BY <1>4, <2>1, <2>2, AppendedDistinct
  <2>4. Distinct'
    BY <1>1, <2>2, <2>3 DEF Distinct
  <2>5. /\ PlaceIds'["write"] = PlaceIds["write"] \union {NewId(s)}
        /\ \A p \in Places : p # "write" => PlaceIds'[p] = PlaceIds[p]
    BY <2>2, <2>3, PlaceIdsAre, PlaceIdsNext, PlacesNames
  <2> QED
    BY <2>1, <2>2, <2>4, <2>5
<1>8. CASE /\ s.type = "AIM" /\ enqueue(m_aim_buffer)
           /\ m_aim_buffer' = Append(m_aim_buffer, Queued(s))
           /\ UNCHANGED <<pending_reads, m_read_buffer, m_write_buffer>>
  <2> DEFINE r == Queued(s)
  <2>1. /\ m_aim_buffer \in Seq(Requests("AIM")) /\ r \in Requests("AIM") /\ r.id = NewId(s)
        /\ NoDup(m_aim_buffer) /\ Ids(m_aim_buffer) = PlaceIds["aim"] /\ "aim" \in Places
    BY <1>1, <1>2, <1>8, PlaceIdsAre DEF Queued, Distinct, Places, BuffersOK, QueuesOK, PendingRead
  <2>2. /\ m_aim_buffer' = Append(m_aim_buffer, r) /\ nrequests' = nrequests + 1
        /\ UNCHANGED <<m_read_buffer, m_write_buffer, m_active_buffer, m_priority_buffer,
                      pending_reads, pending_writes, completed>>
    BY <1>3, <1>8 DEF enqueue
  <2> HIDE DEF r
  <2>3. NoDup(m_aim_buffer') /\ Ids(m_aim_buffer') = PlaceIds["aim"] \union {NewId(s)}
    BY <1>4, <2>1, <2>2, AppendedDistinct
  <2>4. Distinct'
    BY <1>1, <2>2, <2>3 DEF Distinct
  <2>5. /\ PlaceIds'["aim"] = PlaceIds["aim"] \union {NewId(s)}
        /\ \A p \in Places : p # "aim" => PlaceIds'[p] = PlaceIds[p]
    BY <2>2, <2>3, PlaceIdsAre, PlaceIdsNext, PlacesNames
  <2> QED
    BY <2>1, <2>2, <2>4, <2>5
<1> QED
  BY <1>5, <1>6, <1>7, <1>8, Zenon DEF send

LEMMA PrioritySendAccepts ==
  ASSUME StateOK, PlacesOK, priority_send(RefreshShape)
  PROVE  Accepts(RefreshShape)
<1> DEFINE s == RefreshShape
<1> SUFFICES /\ nrequests' = nrequests + 1 /\ Distinct'
             /\ \E p \in Places : /\ PlaceIds'[p] = PlaceIds[p] \union {NewId(s)}
                                  /\ \A r \in Places : r # p => PlaceIds'[r] = PlaceIds[r]
  BY DEF Accepts
<1>1. BuffersOK /\ QueuesOK /\ Distinct
  BY DEF StateOK, PlacesOK
<1>2. Queued(s) \in Requests(s.type) /\ NewId(s) \in RequestId /\ s.type = "Refresh"
  BY Basics, QueuedOK, RequestAssumption
<1>3. UNCHANGED <<m_read_buffer, m_write_buffer, m_aim_buffer, m_active_buffer,
                  pending_reads, pending_writes, completed>>
  BY DEF priority_send, pendings
<1>4. NewId(s) \notin Together(PlaceIds)
  BY NewIdIsNew
<1>6. enqueue(m_priority_buffer) /\ m_priority_buffer' = Append(m_priority_buffer, Queued(s))
  BY DEF priority_send
<1> HIDE DEF s
<1> DEFINE r == Queued(s)
<1>7. /\ m_priority_buffer \in Seq(Requests("Refresh")) /\ r \in Requests("Refresh") /\ r.id = NewId(s)
      /\ NoDup(m_priority_buffer) /\ Ids(m_priority_buffer) = PlaceIds["priority"] /\ "priority" \in Places
  BY <1>1, <1>2, PlaceIdsAre DEF Queued, Distinct, Places, BuffersOK, QueuesOK, PendingRead
<1>8. /\ m_priority_buffer' = Append(m_priority_buffer, r) /\ nrequests' = nrequests + 1
      /\ UNCHANGED <<m_read_buffer, m_write_buffer, m_aim_buffer, m_active_buffer,
                    pending_reads, pending_writes, completed>>
  BY <1>3, <1>6 DEF enqueue
<1> HIDE DEF r
<1>9. NoDup(m_priority_buffer') /\ Ids(m_priority_buffer') = PlaceIds["priority"] \union {NewId(s)}
  BY <1>4, <1>7, <1>8, AppendedDistinct
<1>10. Distinct'
  BY <1>1, <1>8, <1>9 DEF Distinct
<1>11. /\ PlaceIds'["priority"] = PlaceIds["priority"] \union {NewId(s)}
      /\ \A p \in Places : p # "priority" => PlaceIds'[p] = PlaceIds[p]
  BY <1>8, <1>9, PlaceIdsAre, PlaceIdsNext, PlacesNames
<1> QED
  BY <1>7, <1>8, <1>10, <1>11

LEMMA AcceptedPlaces ==
  ASSUME StateOK, PlacesOK, NEW s, Accepts(s)
  PROVE  PlacesOK'
<1> DEFINE P == PlaceIds
           Q == PlaceIds'
           id == NewId(s)
<1>1. nrequests' = nrequests + 1 /\ Distinct' /\ Apart(P) /\ id \notin Together(P)
  BY NewIdIsNew DEF Accepts, PlacesOK
<1>2. PICK p \in Places : Q[p] = P[p] \union {id} /\ \A r \in Places : r # p => Q[r] = P[r]
  BY DEF Accepts
<1> HIDE DEF P, Q, id
<1>3. Apart(Q) /\ Together(Q) = Together(P) \union {id}
  BY <1>1, <1>2, GainedApart
<1>4. Accounted'
  BY <1>1, <1>3, GainedAccounted DEF P, Q, id
<1> QED
  BY <1>1, <1>3, <1>4 DEF PlacesOK, Q, Apart

LEMMA KeptPlaces ==
  ASSUME PlacesOK, SameTogether, nrequests' = nrequests
  PROVE  PlacesOK'
<1>1. Together(PlaceIds)' = Together(PlaceIds)
  BY DEF SameTogether, Together
<1>2. Accounted'
  BY <1>1 DEF PlacesOK, Accounted
<1> QED
  BY <1>2 DEF PlacesOK, SameTogether, Apart

LEMMA UntouchedPlaces ==
  ASSUME PlacesOK, UNCHANGED <<buffers, pendings, nrequests>>
  PROVE  PlacesOK'
<1>1. Distinct'
  BY DEF PlacesOK, Distinct, buffers, pendings
<1>2. \A p \in Places : PlaceIds'[p] = PlaceIds[p]
  BY PlaceIdsAre, PlaceIdsNext, PlacesNames DEF buffers, pendings
<1>3. Apart(PlaceIds') /\ Together(PlaceIds') = Together(PlaceIds)
  BY <1>2, SamePlaces DEF PlacesOK
<1> QED
  BY <1>1, <1>3, KeptPlaces DEF SameTogether

LEMMA PlacesStep ==
  ASSUME StateOK, OneActivePerBank, PlacesOK, [Next]_vars
  PROVE  PlacesOK'
<1>0. OneOfABank(m_active_buffer)
  BY OneActiveIs DEF OneActivePerBank, StateOK, BuffersOK
<1>1. ASSUME NEW s \in Shapes, send(s) PROVE PlacesOK'
  BY <1>1, SendAccepts, AcceptedPlaces
<1>2. CASE priority_send(RefreshShape)
  BY <1>2, PrioritySendAccepts, AcceptedPlaces
<1>3. CASE tick
  <2>1. PICK c : /\ c = Considered
                 /\ \/ TickStall(c) \/ TickBarrier(c)
                    \/ \E rtl \in dispatch(c) : TickIssue(c, rtl)
                    \/ TickThrows(c)
    BY <1>3, TickCases
  <2>2. CASE TickStall(c)
    <3>1. nrequests' = nrequests
      BY <2>2 DEF TickStall, TickBookkeeping
    <3> QED
      BY <2>2, <3>1, StallPlaces, KeptPlaces
  <2>3. CASE TickBarrier(c)
    <3>1. nrequests' = nrequests
      BY <2>3 DEF TickBarrier, TickBookkeeping
    <3> QED
      BY <2>1, <2>3, <3>1, BarrierPlaces, KeptPlaces
  <2>4. ASSUME NEW rtl \in dispatch(c), TickIssue(c, rtl) PROVE PlacesOK'
    <3>1. nrequests' = nrequests
      BY <2>4, IssueIs DEF TickBookkeeping
    <3> QED
      BY <1>0, <2>1, <2>4, <3>1, IssuePlaces, KeptPlaces
  <2>5. CASE TickThrows(c)
    BY <2>5, UntouchedPlaces DEF TickThrows
  <2> QED
    BY <2>1, <2>2, <2>3, <2>4, <2>5
<1>4. CASE UNCHANGED vars
  BY <1>4, UntouchedPlaces DEF vars
<1> QED
  BY <1>1, <1>2, <1>3, <1>4, Zenon DEF Next

LEMMA PlacesInit == Init => PlacesOK
<1> SUFFICES ASSUME Init PROVE PlacesOK
  OBVIOUS
<1>1. /\ m_read_buffer = << >> /\ m_write_buffer = << >> /\ m_aim_buffer = << >>
      /\ m_active_buffer = << >> /\ m_priority_buffer = << >>
      /\ pending_reads = << >> /\ pending_writes = {} /\ completed = {} /\ nrequests = 0
  BY DEF Init
<1>2. Ids(<< >>) = {} /\ NoDup(<< >>)
  BY DEF Ids, NoDup
<1>3. IdsOfWrites({}) = {}
  BY DEF IdsOfWrites
<1>4. \A p \in Places : PlaceIds[p] = {}
  BY <1>1, <1>2, <1>3, PlaceIdsAre, PlacesNames
<1>5. Together(PlaceIds) = {}
  BY <1>4 DEF Together
<1>6. Accounted
  BY <1>1, <1>5, FS_EmptySet DEF Accounted
<1>7. Distinct
  BY <1>1, <1>2 DEF Distinct
<1> QED
  BY <1>4, <1>6, <1>7 DEF PlacesOK, Apart

LEMMA PlacesInvariant == Spec => []PlacesOK
<1>1. Init => PlacesOK
  BY PlacesInit
<1>2. StateOK /\ OneActivePerBank /\ PlacesOK /\ [Next]_vars => PlacesOK'
  BY PlacesStep
<1> QED
  BY <1>1, <1>2, StateInvariant, OneActive, PTL DEF Spec

(* As many entries as ids. *)
LEMMA LengthIsIds ==
  ASSUME NEW S, NEW b \in Seq(S), NoDup(b)
  PROVE  IsFiniteSet(Ids(b)) /\ Cardinality(Ids(b)) = Len(b)
<1> DEFINE n == Len(b)
           f == [i \in 1 .. n |-> b[i].id]
<1>1. n \in Nat
  BY LenProperties
<1>2. Ids(b) = {b[i].id : i \in 1 .. n}
  BY IdsAre
<1>3. IsFiniteSet(1 .. n) /\ Cardinality(1 .. n) = n
  BY <1>1, FS_Interval
<1>4. f \in Surjection(1 .. n, Ids(b)) /\ f \in Injection(1 .. n, Ids(b))
  BY <1>2 DEF Surjection, Injection, IsInjective, NoDup
<1> HIDE DEF n, f
<1>5. IsFiniteSet(Ids(b)) /\ Cardinality(Ids(b)) = Cardinality(1 .. n)
  BY <1>3, <1>4, FS_Surjection
<1> QED
  BY <1>3, <1>5 DEF n

LEMMA WritesAreIds ==
  ASSUME NEW ws, \A v, w \in ws : v.id = w.id => v = w, IsFiniteSet(IdsOfWrites(ws))
  PROVE  Cardinality(ws) = Cardinality(IdsOfWrites(ws))
<1> DEFINE T == IdsOfWrites(ws)
           f == [w \in ws |-> w.id]
<1>1. f \in Surjection(ws, T) /\ f \in Injection(ws, T)
  BY DEF Surjection, Injection, IsInjective, IdsOfWrites
<1> HIDE DEF T, f
<1>2. IsFiniteSet(T)
  BY DEF T
<1>3. Cardinality(ws) = Cardinality(T)
  BY <1>1, <1>2, FS_Injection
<1> QED
  BY <1>3 DEF T

LEMMA DisjointUnion ==
  ASSUME NEW A, NEW B, IsFiniteSet(A), IsFiniteSet(B), A \cap B = {}
  PROVE  /\ IsFiniteSet(A \union B) /\ Cardinality(A \union B) = Cardinality(A) + Cardinality(B)
         /\ Cardinality(A) \in Nat /\ Cardinality(B) \in Nat
<1>1. IsFiniteSet(A \union B)
      /\ Cardinality(A \union B) = Cardinality(A) + Cardinality(B) - Cardinality(A \cap B)
  BY FS_Union
<1>2. Cardinality(A \cap B) = 0 /\ Cardinality(A) \in Nat /\ Cardinality(B) \in Nat
  BY FS_EmptySet, FS_CardinalityType
<1> QED
  BY <1>1, <1>2

LEMMA EightPlaces ==
  ASSUME NEW P, Apart(P), IsFiniteSet(Together(P))
  PROVE  /\ \A p \in Places : IsFiniteSet(P[p])
         /\ Cardinality(Together(P)) =
              Cardinality(P["read"]) + Cardinality(P["write"]) + Cardinality(P["aim"])
              + Cardinality(P["active"]) + Cardinality(P["priority"]) + Cardinality(P["reads"])
              + Cardinality(P["writes"]) + Cardinality(P["done"])
<1> DEFINE A == P["read"]
           B == P["write"]
           C == P["aim"]
           D == P["active"]
           E == P["priority"]
           F == P["reads"]
           G == P["writes"]
           H == P["done"]
<1>1. /\ "read" \in Places /\ "write" \in Places /\ "aim" \in Places /\ "active" \in Places
      /\ "priority" \in Places /\ "reads" \in Places /\ "writes" \in Places /\ "done" \in Places
  BY DEF Places
<1>2. \A p \in Places : P[p] \in SUBSET Together(P)
  BY DEF Together
<1>3. \A p \in Places : IsFiniteSet(P[p])
  BY <1>2, FS_Subset
<1>4. \A p, q \in Places : p # q => P[p] \cap P[q] = {}
  BY DEF Apart
<1>5. Together(P) = ((((((A \union B) \union C) \union D) \union E) \union F) \union G) \union H
  BY DEF Together, Places
<1>6. /\ A \cap B = {} /\ (A \union B) \cap C = {} /\ ((A \union B) \union C) \cap D = {}
      /\ (((A \union B) \union C) \union D) \cap E = {}
      /\ ((((A \union B) \union C) \union D) \union E) \cap F = {}
  BY <1>1, <1>4
<1>7. /\ (((((A \union B) \union C) \union D) \union E) \union F) \cap G = {}
      /\ ((((((A \union B) \union C) \union D) \union E) \union F) \union G) \cap H = {}
  BY <1>1, <1>4
<1>8. /\ IsFiniteSet(A) /\ IsFiniteSet(B) /\ IsFiniteSet(C) /\ IsFiniteSet(D)
      /\ IsFiniteSet(E) /\ IsFiniteSet(F) /\ IsFiniteSet(G) /\ IsFiniteSet(H)
  BY <1>1, <1>3
<1> HIDE DEF A, B, C, D, E, F, G, H
<1> DEFINE U2 == A \union B
           U3 == U2 \union C
           U4 == U3 \union D
           U5 == U4 \union E
           U6 == U5 \union F
           U7 == U6 \union G
<1>9. IsFiniteSet(U2) /\ Cardinality(U2) = Cardinality(A) + Cardinality(B)
      /\ Cardinality(A) \in Nat /\ Cardinality(B) \in Nat
  BY <1>6, <1>8, DisjointUnion
<1>10. IsFiniteSet(U3) /\ Cardinality(U3) = Cardinality(U2) + Cardinality(C) /\ Cardinality(C) \in Nat
  BY <1>6, <1>8, <1>9, DisjointUnion
<1>11. IsFiniteSet(U4) /\ Cardinality(U4) = Cardinality(U3) + Cardinality(D) /\ Cardinality(D) \in Nat
  BY <1>6, <1>8, <1>10, DisjointUnion
<1>12. IsFiniteSet(U5) /\ Cardinality(U5) = Cardinality(U4) + Cardinality(E) /\ Cardinality(E) \in Nat
  BY <1>6, <1>8, <1>11, DisjointUnion
<1>13. IsFiniteSet(U6) /\ Cardinality(U6) = Cardinality(U5) + Cardinality(F) /\ Cardinality(F) \in Nat
  BY <1>6, <1>8, <1>12, DisjointUnion
<1>14. IsFiniteSet(U7) /\ Cardinality(U7) = Cardinality(U6) + Cardinality(G) /\ Cardinality(G) \in Nat
  BY <1>7, <1>8, <1>13, DisjointUnion
<1>15. Cardinality(U7 \union H) = Cardinality(U7) + Cardinality(H) /\ Cardinality(H) \in Nat
  BY <1>7, <1>8, <1>14, DisjointUnion
<1>16. Cardinality(Together(P)) =
         Cardinality(A) + Cardinality(B) + Cardinality(C) + Cardinality(D) + Cardinality(E)
         + Cardinality(F) + Cardinality(G) + Cardinality(H)
  <2>1. Together(P) = U7 \union H
    BY <1>5
  <2> HIDE DEF U2, U3, U4, U5, U6, U7
  <2> QED
    BY <1>9, <1>10, <1>11, <1>12, <1>13, <1>14, <1>15, <2>1
<1> QED
  BY <1>3, <1>16 DEF A, B, C, D, E, F, G, H

LEMMA CountsAgree == StateOK /\ PlacesOK => ExactlyOnePlace
<1> SUFFICES ASSUME StateOK, PlacesOK PROVE ExactlyOnePlace
  OBVIOUS
<1> DEFINE P == PlaceIds
<1>1. /\ Apart(P) /\ IsFiniteSet(Together(P)) /\ Cardinality(Together(P)) = nrequests
      /\ Distinct /\ BuffersOK /\ QueuesOK
  BY DEF StateOK, PlacesOK, Accounted
<1>2. /\ P["read"] = Ids(m_read_buffer) /\ P["write"] = Ids(m_write_buffer)
      /\ P["aim"] = Ids(m_aim_buffer) /\ P["active"] = Ids(m_active_buffer)
      /\ P["priority"] = Ids(m_priority_buffer) /\ P["reads"] = Ids(pending_reads)
      /\ P["writes"] = IdsOfWrites(pending_writes) /\ P["done"] = completed
  BY PlaceIdsAre
<1> HIDE DEF P
<1>3. /\ \A p \in Places : IsFiniteSet(P[p])
      /\ Cardinality(Together(P)) =
           Cardinality(P["read"]) + Cardinality(P["write"]) + Cardinality(P["aim"])
           + Cardinality(P["active"]) + Cardinality(P["priority"]) + Cardinality(P["reads"])
           + Cardinality(P["writes"]) + Cardinality(P["done"])
  BY <1>1, EightPlaces
<1>4. /\ Cardinality(Ids(m_read_buffer)) = Len(m_read_buffer)
      /\ Cardinality(Ids(m_write_buffer)) = Len(m_write_buffer)
      /\ Cardinality(Ids(m_aim_buffer)) = Len(m_aim_buffer)
      /\ Cardinality(Ids(m_active_buffer)) = Len(m_active_buffer)
      /\ Cardinality(Ids(m_priority_buffer)) = Len(m_priority_buffer)
      /\ Cardinality(Ids(pending_reads)) = Len(pending_reads)
  BY <1>1, LengthIsIds DEF Distinct, BuffersOK, QueuesOK
<1>5. Cardinality(IdsOfWrites(pending_writes)) = Cardinality(pending_writes)
  <2>1. IsFiniteSet(IdsOfWrites(pending_writes))
    BY <1>2, <1>3 DEF Places
  <2> QED
    BY <1>1, <2>1, WritesAreIds DEF Distinct
<1>6. Len(m_read_buffer) + Len(m_write_buffer) + Len(m_aim_buffer) + Len(m_active_buffer)
        + Len(m_priority_buffer) + Len(pending_reads) + Cardinality(pending_writes)
        + Cardinality(completed) = nrequests
  BY <1>1, <1>2, <1>3, <1>4, <1>5
<1>7. InBuffers \union InFlight \union completed = Together(P)
  BY <1>2 DEF InBuffers, InFlight, Together, Places, IdsOfWrites
<1> QED
  BY <1>1, <1>6, <1>7 DEF ExactlyOnePlace

(* A request the controller accepted is in exactly one place until it      *)
(* completes (tick): no step loses or duplicates it, not even the enqueue  *)
(* to the active buffer whose result is not looked at.                     *)
THEOREM NothingLost == Spec => []ExactlyOnePlace
BY CountsAgree, StateInvariant, PlacesInvariant, PTL
-----------------------------------------------------------------------------
(* The barrier.                                                            *)

AimOrdered(pr, b) ==
  /\ \A i, j \in 1 .. Len(pr) :
       i < j /\ pr[i].id[1] = "AIM" /\ pr[j].id[1] = "AIM" => pr[i].id[2] < pr[j].id[2]
  /\ \A i \in 1 .. Len(pr), j \in 1 .. Len(b) : pr[i].id[1] = "AIM" => pr[i].id[2] < b[j].id[2]
  /\ \A i \in 1 .. Len(pr) : pr[i].eoc => pr[i].id[1] = "AIM"

Rising(b) == \A i, j \in 1 .. Len(b) : i < j => b[i].id[2] < b[j].id[2]

(* AiM requests keep the order in which they were accepted: in their       *)
(* buffer, and in the queue they leave it for.  The barriers are of them.  *)
AimOrder == Rising(m_aim_buffer) /\ AimOrdered(pending_reads, m_aim_buffer)

(* Order is kept by what serve_completed_reqs leaves. *)
LEMMA ServedOrder ==
  ASSUME QueuesOK, AimOrdered(pending_reads, m_aim_buffer)
  PROVE  AimOrdered(ServedReads, m_aim_buffer)
<1> DEFINE rest == IF HeadServed THEN Tail(pending_reads) ELSE pending_reads
           k == IF HeadServed THEN 1 ELSE 0
<1>1. pending_reads \in Seq(PendingRead) /\ Len(pending_reads) \in Nat
  BY LenProperties DEF QueuesOK
<1>2. /\ rest \in Seq(PendingRead) /\ Len(rest) = Len(pending_reads) - k
      /\ \A i \in 1 .. Len(rest) : rest[i] = pending_reads[i + k]
  <2>1. CASE HeadServed
    BY <1>1, <2>1, HeadTailProperties DEF HeadServed
  <2>2. CASE ~HeadServed
    BY <1>1, <2>2
  <2> QED
    BY <2>1, <2>2
<1>3. ServedReads = [i \in DOMAIN rest |-> [rest[i] EXCEPT !.left = Aged(@)]]
  BY DEF ServedReads
<1>4. k \in Nat
  OBVIOUS
<1> HIDE DEF rest, k
<1>5. DOMAIN rest = 1 .. Len(rest) /\ Len(rest) \in Nat
  BY <1>2, LenProperties
<1>6. ServedReads \in Seq(PendingRead) /\ DOMAIN ServedReads = 1 .. Len(rest)
  BY <1>3, <1>5, ServedOK
<1>7. Len(ServedReads) = Len(rest)
  BY <1>5, <1>6, LenProperties
<1>8. ASSUME NEW i \in 1 .. Len(rest)
      PROVE  /\ i + k \in 1 .. Len(pending_reads)
             /\ ServedReads[i].id = pending_reads[i + k].id /\ ServedReads[i].eoc = pending_reads[i + k].eoc
  <2>1. rest[i] \in PendingRead
    BY <1>2, ElementOfSeq
  <2>2. ServedReads[i].id = rest[i].id /\ ServedReads[i].eoc = rest[i].eoc
    BY <1>3, <1>5, <2>1 DEF PendingRead
  <2> QED
    BY <1>1, <1>2, <1>4, <2>2
<1>9. \A i, j \in 1 .. Len(rest) : i < j => i + k < j + k
  BY <1>4
<1>10. \A i \in 1 .. Len(ServedReads) : ServedReads[i].eoc => ServedReads[i].id[1] = "AIM"
  BY <1>7, <1>8 DEF AimOrdered
<1>11. \A i, j \in 1 .. Len(ServedReads) :
         i < j /\ ServedReads[i].id[1] = "AIM" /\ ServedReads[j].id[1] = "AIM" =>
           ServedReads[i].id[2] < ServedReads[j].id[2]
  BY <1>7, <1>8, <1>9 DEF AimOrdered
<1>12. \A i \in 1 .. Len(ServedReads), j \in 1 .. Len(m_aim_buffer) :
         ServedReads[i].id[1] = "AIM" => ServedReads[i].id[2] < m_aim_buffer[j].id[2]
  BY <1>7, <1>8 DEF AimOrdered
<1> QED
  BY <1>10, <1>11, <1>12 DEF AimOrdered

LEMMA AppendedOrder ==
  ASSUME NEW S, NEW pr \in Seq(S), NEW b, AimOrdered(pr, b), NEW r \in S,
         r.id[1] = "AIM" => /\ \A i \in 1 .. Len(pr) : pr[i].id[1] = "AIM" => pr[i].id[2] < r.id[2]
                           /\ \A j \in 1 .. Len(b) : r.id[2] < b[j].id[2],
         r.eoc => r.id[1] = "AIM"
  PROVE  AimOrdered(Append(pr, r), b)
<1> DEFINE a == Append(pr, r)
           n == Len(pr)
<1>1. /\ n \in Nat /\ Len(a) = n + 1 /\ (\A j \in 1 .. n : a[j] = pr[j]) /\ a[n + 1] = r
  BY LenProperties, AppendProperties
<1>2. \A j \in 1 .. Len(a) : j \in 1 .. n \/ j = n + 1
  BY <1>1
<1>3. \A i \in 1 .. Len(a), j \in 1 .. Len(a) : i < j => i \in 1 .. n
  BY <1>1
<1>4. /\ \A i, j \in 1 .. n :
           i < j /\ pr[i].id[1] = "AIM" /\ pr[j].id[1] = "AIM" => pr[i].id[2] < pr[j].id[2]
      /\ \A i \in 1 .. n, j \in 1 .. Len(b) : pr[i].id[1] = "AIM" => pr[i].id[2] < b[j].id[2]
      /\ r.id[1] = "AIM" => /\ \A i \in 1 .. n : pr[i].id[1] = "AIM" => pr[i].id[2] < r.id[2]
                            /\ \A j \in 1 .. Len(b) : r.id[2] < b[j].id[2]
  BY DEF AimOrdered
<1> HIDE DEF a, n
<1>5. \A i, j \in 1 .. Len(a) :
        i < j /\ a[i].id[1] = "AIM" /\ a[j].id[1] = "AIM" => a[i].id[2] < a[j].id[2]
  <2> TAKE i, j \in 1 .. Len(a)
  <2>1. CASE i < j /\ j \in 1 .. n
    BY <1>1, <1>3, <1>4, <2>1
  <2>2. CASE i < j /\ j = n + 1
    BY <1>1, <1>3, <1>4, <2>2
  <2> QED
    BY <1>2, <2>1, <2>2
<1>6. \A i \in 1 .. Len(a), j \in 1 .. Len(b) : a[i].id[1] = "AIM" => a[i].id[2] < b[j].id[2]
  BY <1>1, <1>2, <1>4
<1>7. \A i \in 1 .. Len(a) : a[i].eoc => a[i].id[1] = "AIM"
  <2>1. \A i \in 1 .. n : pr[i].eoc => pr[i].id[1] = "AIM"
    BY DEF AimOrdered, n
  <2> QED
    BY <1>1, <1>2, <2>1
<1> QED
  BY <1>5, <1>6, <1>7 DEF AimOrdered, a

LEMMA SameOrder ==
  ASSUME NEW pr, NEW b, NEW w, SameKeys(w, b), Rising(b), AimOrdered(pr, b)
  PROVE  Rising(w) /\ AimOrdered(pr, w)
<1>1. Rising(w)
  BY DEF SameKeys, Rising
<1>2. AimOrdered(pr, w)
  BY DEF SameKeys, AimOrdered
<1> QED
  BY <1>1, <1>2

(* Before the head of the buffer, and after it. *)
HeadParts(pr, r, w) ==
  /\ \A i \in 1 .. Len(pr) : pr[i].id[1] = "AIM" => pr[i].id[2] < r.id[2]
  /\ \A j \in 1 .. Len(w) : r.id[2] < w[j].id[2]

LEMMA TakenOrder ==
  ASSUME NEW S, NEW b \in Seq(S), NEW pr, NEW w, Lacks(w, b, 1), b # << >>,
         Rising(b), AimOrdered(pr, b)
  PROVE  Rising(w) /\ AimOrdered(pr, w) /\ HeadParts(pr, b[1], w)
<1>1. Len(b) \in Nat /\ Len(b) # 0
  BY LenProperties, EmptySeq
<1>2. Len(w) = Len(b) - 1 /\ \A j \in 1 .. Len(w) : w[j] = b[j + 1]
  BY <1>1 DEF Lacks
<1>3. 1 \in 1 .. Len(b) /\ \A j \in 1 .. Len(w) : j + 1 \in 1 .. Len(b) /\ 1 < j + 1
  BY <1>1, <1>2
<1>4. \A i, j \in 1 .. Len(w) : i < j => i + 1 < j + 1
  OBVIOUS
<1>5. Rising(w)
  BY <1>2, <1>3, <1>4 DEF Rising
<1>6. AimOrdered(pr, w)
  BY <1>2, <1>3 DEF AimOrdered
<1>7. \A j \in 1 .. Len(w) : b[1].id[2] < w[j].id[2]
  BY <1>2, <1>3 DEF Rising
<1>8. \A i \in 1 .. Len(pr) : pr[i].id[1] = "AIM" => pr[i].id[2] < b[1].id[2]
  BY <1>3 DEF AimOrdered
<1> QED
  BY <1>5, <1>6, <1>7, <1>8 DEF HeadParts

(* A request accepted after all others joins the buffer. *)
LEMMA JoinedOrder ==
  ASSUME NEW S, NEW b \in Seq(S), NEW pr, NEW r \in S, Rising(b), AimOrdered(pr, b),
         \A i \in 1 .. Len(b) : b[i].id[2] < r.id[2],
         \A i \in 1 .. Len(pr) : pr[i].id[2] < r.id[2]
  PROVE  Rising(Append(b, r)) /\ AimOrdered(pr, Append(b, r))
<1> DEFINE a == Append(b, r)
           n == Len(b)
<1>1. /\ n \in Nat /\ Len(a) = n + 1 /\ (\A j \in 1 .. n : a[j] = b[j]) /\ a[n + 1] = r
  BY LenProperties, AppendProperties
<1>2. \A j \in 1 .. Len(a) : j \in 1 .. n \/ j = n + 1
  BY <1>1
<1>3. \A i \in 1 .. Len(a), j \in 1 .. Len(a) : i < j => i \in 1 .. n
  BY <1>1
<1>4. \A i \in 1 .. n : b[i].id[2] < r.id[2]
  OBVIOUS
<1> HIDE DEF a, n
<1>5. Rising(a)
  <2>1. \A i, j \in 1 .. n : i < j => b[i].id[2] < b[j].id[2]
    BY DEF Rising, n
  <2>2. SUFFICES ASSUME NEW i \in 1 .. Len(a), NEW j \in 1 .. Len(a), i < j
                 PROVE  a[i].id[2] < a[j].id[2]
    BY DEF Rising
  <2>3. CASE j \in 1 .. n
    BY <1>1, <1>3, <2>1, <2>2, <2>3
  <2>4. CASE j = n + 1
    BY <1>1, <1>3, <1>4, <2>2, <2>4
  <2> QED
    BY <1>2, <2>3, <2>4
<1>6. AimOrdered(pr, a)
  <2>1. /\ \A i, j \in 1 .. Len(pr) :
             i < j /\ pr[i].id[1] = "AIM" /\ pr[j].id[1] = "AIM" => pr[i].id[2] < pr[j].id[2]
        /\ \A i \in 1 .. Len(pr), j \in 1 .. n : pr[i].id[1] = "AIM" => pr[i].id[2] < b[j].id[2]
    BY DEF AimOrdered, n
  <2>2. \A i \in 1 .. Len(pr), j \in 1 .. Len(a) : pr[i].id[1] = "AIM" => pr[i].id[2] < a[j].id[2]
    BY <1>1, <1>2, <2>1
  <2> QED
    BY <2>1, <2>2 DEF AimOrdered
<1> QED
  BY <1>5, <1>6 DEF a

(* The numbers of the requests in the AiM buffer and of the issued ones    *)
(* are below the number of a request that is accepted now.                 *)
LEMMA NumbersBelow ==
  ASSUME StateOK, PlacesOK
  PROVE  /\ \A i \in 1 .. Len(m_aim_buffer) : m_aim_buffer[i].id[2] < nrequests + 1
         /\ \A i \in 1 .. Len(pending_reads) : pending_reads[i].id[2] < nrequests + 1
<1>1. m_aim_buffer \in Seq(Requests("AIM")) /\ pending_reads \in Seq(PendingRead)
  BY DEF StateOK, BuffersOK, QueuesOK
<1>2. \A x \in Together(PlaceIds) : x[2] <= nrequests
  BY DEF PlacesOK, Accounted
<1>3. Ids(m_aim_buffer) \subseteq Together(PlaceIds) /\ Ids(pending_reads) \subseteq Together(PlaceIds)
  BY PlaceIdsAre DEF Together, Places
<1>4. /\ \A i \in 1 .. Len(m_aim_buffer) : m_aim_buffer[i].id \in Ids(m_aim_buffer)
      /\ \A i \in 1 .. Len(pending_reads) : pending_reads[i].id \in Ids(pending_reads)
  BY <1>1, IdsAre
<1>5. /\ \A i \in 1 .. Len(m_aim_buffer) : m_aim_buffer[i].id[2] \in Nat
      /\ \A i \in 1 .. Len(pending_reads) : pending_reads[i].id[2] \in Nat
  <2>1. /\ \A i \in 1 .. Len(m_aim_buffer) : m_aim_buffer[i] \in Requests("AIM")
        /\ \A i \in 1 .. Len(pending_reads) : pending_reads[i] \in PendingRead
    BY <1>1, ElementOfSeq
  <2>2. /\ \A r \in Requests("AIM") : r.id[2] \in Nat
        /\ \A r \in PendingRead : r.id[2] \in Nat
    BY DEF Requests, PendingRead, RequestId
  <2> QED
    BY <2>1, <2>2
<1>6. nrequests \in Nat
  BY Basics
<1>7. \A n \in Nat : n <= nrequests => n < nrequests + 1
  BY <1>6
<1> QED
  BY <1>2, <1>3, <1>4, <1>5, <1>7

(* What a tick that found a request does to the AiM buffer. *)
LEMMA AimTick ==
  ASSUME BuffersOK, NEW c, c = Considered, request_found(c), NEW new,
         new = << >> \/ new = <<Marked(c.req)>>, ReplaceRequest(c, new)
  PROVE  \/ /\ SameKeys(m_aim_buffer', m_aim_buffer)
            /\ c.buffer = "aim" => new = <<Marked(c.req)>>
         \/ /\ c.buffer = "aim" /\ new = << >> /\ m_aim_buffer # << >>
            /\ Lacks(m_aim_buffer', m_aim_buffer, 1) /\ c.req = m_aim_buffer[1]
<1>1. m_aim_buffer \in Seq(Requests("AIM")) /\ m_aim_buffer' = Updated(c, "aim", m_aim_buffer, new)
  BY DEF BuffersOK, ReplaceRequest
<1>2. CASE c.buffer # "aim"
  <2>1. m_aim_buffer' = m_aim_buffer
    BY <1>1, <1>2, OtherBuffer
  <2> QED
    BY <1>2, <2>1 DEF SameKeys
<1>3. CASE c.buffer = "aim"
  <2>1. ChosenFrom(c, "aim", m_aim_buffer) /\ c.index = 1 /\ c.req \in Requests("AIM")
    BY <1>3, Found DEF ChosenFrom
  <2>2. m_aim_buffer # << >> /\ c.index \in 1 .. Len(m_aim_buffer) /\ c.req = m_aim_buffer[1]
        /\ c.req = m_aim_buffer[c.index]
    BY <2>1 DEF ChosenFrom
  <2>3. CASE new = << >>
    <3> DEFINE k == c.index
    <3>1. Lacks(m_aim_buffer', m_aim_buffer, k)
      BY <1>1, <1>3, <2>2, <2>3, TakenOut DEF Lacks
    <3> QED
      BY <1>3, <2>1, <2>2, <2>3, <3>1
  <2>4. CASE new = <<Marked(c.req)>>
    <3>1. SameRequests(m_aim_buffer', m_aim_buffer)
      BY <1>1, <1>3, <2>1, <2>2, <2>4, PutBack, MarkedIs
    <3> QED
      BY <2>4, <3>1 DEF SameRequests, SameKeys
  <2> QED
    BY <2>3, <2>4
<1> QED
  BY <1>2, <1>3

LEMMA OtherType ==
  ASSUME BuffersOK, NEW c, c = Considered, request_found(c), c.buffer # "aim"
  PROVE  c.req.id[1] # "AIM"
<1>1. \/ c.req \in Plain
      \/ c.req \in Requests("Refresh")
      \/ c.req \in Requests("Write")
      \/ c.req \in Requests("Read")
  BY Found DEF ChosenFrom
<1> QED
  BY <1>1 DEF Plain, Requests

(* An entry that the tick appends to pending_reads is no AiM request, or   *)
(* it was the head of the AiM buffer.                                      *)
LEMMA TickOrder ==
  ASSUME StateOK, AimOrder, NEW c, c = Considered, request_found(c), NEW new,
         new = << >> \/ new = <<Marked(c.req)>>, ReplaceRequest(c, new),
         NEW r \in PendingRead, r.id = c.req.id, r.eoc => c.buffer = "aim",
         \/ pending_reads' = ServedReads
         \/ pending_reads' = Append(ServedReads, r) /\ new = << >>
  PROVE  AimOrder'
<1> DEFINE pr == ServedReads
           b == m_aim_buffer
           w == m_aim_buffer'
<1>1. BuffersOK /\ QueuesOK /\ b \in Seq(Requests("AIM"))
  BY DEF StateOK, BuffersOK
<1>2. pr \in Seq(PendingRead) /\ Rising(b) /\ AimOrdered(pr, b)
  BY <1>1, ServedOK, ServedOrder DEF AimOrder
<1>3. \/ SameKeys(w, b) /\ (c.buffer = "aim" => new = <<Marked(c.req)>>)
      \/ /\ c.buffer = "aim" /\ new = << >> /\ b # << >>
         /\ Lacks(w, b, 1) /\ c.req = b[1]
  BY <1>1, AimTick
<1>4. Rising(w) /\ AimOrdered(pr, w) /\ (new = << >> /\ r.id[1] = "AIM" => HeadParts(pr, r, w))
  <2>1. CASE SameKeys(w, b) /\ (c.buffer = "aim" => new = <<Marked(c.req)>>)
    <3> HIDE DEF pr, b, w
    <3>1. Rising(w) /\ AimOrdered(pr, w)
      BY <1>2, <2>1, SameOrder
    <3>2. new = << >> => r.id[1] # "AIM"
      BY <1>1, <2>1, OtherType
    <3> QED
      BY <3>1, <3>2
  <2>2. CASE /\ c.buffer = "aim" /\ new = << >> /\ b # << >>
             /\ Lacks(w, b, 1) /\ c.req = b[1]
    <3> HIDE DEF pr, b, w
    <3>1. Rising(w) /\ AimOrdered(pr, w) /\ HeadParts(pr, b[1], w)
      BY <1>1, <1>2, <2>2, TakenOrder
    <3> QED
      BY <2>2, <3>1 DEF HeadParts
  <2> QED
    BY <1>3, <2>1, <2>2
<1>5. r.eoc => r.id[1] = "AIM"
  <2>1. c.buffer = "aim" => c.req \in Requests("AIM")
    BY <1>1, Found DEF ChosenFrom
  <2> QED
    BY <2>1 DEF Requests
<1>6. \/ pending_reads' = pr
      \/ pending_reads' = Append(pr, r) /\ new = << >>
  OBVIOUS
<1> HIDE DEF pr, w
<1>7. ASSUME new = << >> PROVE AimOrdered(Append(pr, r), w)
  BY <1>2, <1>4, <1>5, <1>7, AppendedOrder DEF HeadParts
<1> QED
  BY <1>4, <1>6, <1>7 DEF AimOrder, w

LEMMA SendOrder ==
  ASSUME StateOK, PlacesOK, AimOrder, NEW s \in Shapes, send(s)
  PROVE  AimOrder'
<1>1. /\ \A i \in 1 .. Len(m_aim_buffer) : m_aim_buffer[i].id[2] < nrequests + 1
      /\ \A i \in 1 .. Len(pending_reads) : pending_reads[i].id[2] < nrequests + 1
  BY NumbersBelow
<1>2. /\ m_aim_buffer \in Seq(Requests("AIM")) /\ pending_reads \in Seq(PendingRead)
      /\ Rising(m_aim_buffer) /\ AimOrdered(pending_reads, m_aim_buffer)
  BY DEF StateOK, BuffersOK, QueuesOK, AimOrder
<1>3. Queued(s) \in Requests(s.type) /\ NewId(s) \in RequestId
  BY Basics, QueuedOK
<1>4. CASE /\ s.type = "Read"
           /\ pending_reads' = Append(pending_reads, [id |-> NewId(s), eoc |-> FALSE, left |-> 1])
           /\ UNCHANGED m_aim_buffer
  <2> DEFINE r == [id |-> NewId(s), eoc |-> FALSE, left |-> 1]
  <2>1. r \in PendingRead /\ r.id[1] # "AIM" /\ ~r.eoc
    BY <1>3, <1>4 DEF PendingRead, NewId
  <2>2. pending_reads' = Append(pending_reads, r) /\ m_aim_buffer' = m_aim_buffer
    BY <1>4
  <2> HIDE DEF r
  <2>3. AimOrdered(Append(pending_reads, r), m_aim_buffer)
    BY <1>2, <2>1, AppendedOrder
  <2> QED
    BY <1>2, <2>2, <2>3 DEF AimOrder
<1>5. CASE UNCHANGED <<pending_reads, m_aim_buffer>>
  BY <1>2, <1>5 DEF AimOrder
<1>6. CASE /\ s.type = "AIM"
           /\ m_aim_buffer' = Append(m_aim_buffer, Queued(s)) /\ UNCHANGED pending_reads
  <2> DEFINE r == Queued(s)
  <2>1. r \in Requests("AIM") /\ r.id[2] = nrequests + 1
    BY <1>3, <1>6 DEF Queued, NewId
  <2>2. m_aim_buffer' = Append(m_aim_buffer, r) /\ pending_reads' = pending_reads
    BY <1>6
  <2> HIDE DEF r
  <2>3. /\ Rising(Append(m_aim_buffer, r))
        /\ AimOrdered(pending_reads, Append(m_aim_buffer, r))
    BY <1>1, <1>2, <2>1, JoinedOrder
  <2> QED
    BY <2>2, <2>3 DEF AimOrder
<1>7. \/ /\ Forwarded(s)
         /\ pending_reads' = Append(pending_reads, [id |-> NewId(s), eoc |-> FALSE, left |-> 1])
         /\ UNCHANGED m_aim_buffer
      \/ UNCHANGED <<pending_reads, m_aim_buffer>>
      \/ /\ s.type = "AIM"
         /\ m_aim_buffer' = Append(m_aim_buffer, Queued(s)) /\ UNCHANGED pending_reads
  BY Zenon DEF send
<1>8. Forwarded(s) => s.type = "Read"
  BY DEF Forwarded
<1> QED
  BY <1>4, <1>5, <1>6, <1>7, <1>8

LEMMA AimOrderStep ==
  ASSUME StateOK, PlacesOK, AimOrder, [Next]_vars
  PROVE  AimOrder'
<1>0. BuffersOK /\ QueuesOK
  BY DEF StateOK
<1>1. ASSUME NEW s \in Shapes, send(s) PROVE AimOrder'
  BY <1>1, SendOrder
<1>2. CASE UNCHANGED <<m_aim_buffer, pending_reads>>
  BY <1>2 DEF AimOrder
<1>3. CASE tick
  <2>1. PICK c : /\ c = Considered
                 /\ \/ TickStall(c) \/ TickBarrier(c)
                    \/ \E rtl \in dispatch(c) : TickIssue(c, rtl)
                    \/ TickThrows(c)
    BY <1>3, TickCases
  <2>2. CASE TickStall(c)
    <3>1. pending_reads' = ServedReads /\ m_aim_buffer' = m_aim_buffer
      BY <2>2 DEF TickStall, buffers
    <3>2. AimOrdered(ServedReads, m_aim_buffer)
      BY <1>0, ServedOrder DEF AimOrder
    <3> QED
      BY <3>1, <3>2 DEF AimOrder
  <2>3. CASE TickBarrier(c)
    <3> DEFINE r == [id |-> c.req.id, eoc |-> TRUE, left |-> 0]
               new == << >>
    <3>1. /\ request_found(c) /\ ReplaceRequest(c, new)
          /\ pending_reads' = Append(ServedReads, r) /\ new = << >>
      BY <2>3 DEF TickBarrier
    <3>2. c.req.id \in RequestId /\ c.buffer = "aim"
      BY <1>0, <2>1, <2>3, <3>1, Found, ShapeIs, BarrierPlaces
    <3>3. r \in PendingRead /\ r.id = c.req.id
      BY <3>2 DEF PendingRead
    <3> HIDE DEF r, new
    <3> QED
      BY <2>1, <3>1, <3>2, <3>3, TickOrder
  <2>4. ASSUME NEW rtl \in dispatch(c), TickIssue(c, rtl) PROVE AimOrder'
    <3> DEFINE ends == Issued(c) = c.req.s.final /\ c.req.s.reader
               v == [id |-> Marked(c.req).id, eoc |-> FALSE, left |-> Latency(Issued(c))]
               r == IF ends THEN v ELSE [id |-> c.req.id, eoc |-> FALSE, left |-> 0]
               new == NewIn(c)
    <3>1. /\ request_found(c) /\ ReplaceRequest(c, new)
          /\ pending_reads' = IF ends THEN Append(ServedReads, v) ELSE ServedReads
      BY <2>4, IssueIs
    <3>2. c.req.id \in RequestId /\ Latency(c.req.s.final) \in Nat /\ Marked(c.req).id = c.req.id
      BY <1>0, <2>1, <3>1, Found, ShapeIs, MarkedIs
    <3>3. r \in PendingRead /\ r.id = c.req.id /\ ~r.eoc
      BY <3>2 DEF PendingRead
    <3>4. /\ new = << >> \/ new = <<Marked(c.req)>>
          /\ ends => new = << >>
      BY DEF NewIn, Leaves
    <3>5. ends => r = v
      OBVIOUS
    <3> HIDE DEF r, v, new, ends
    <3>6. \/ pending_reads' = ServedReads
          \/ pending_reads' = Append(ServedReads, r) /\ new = << >>
      BY <3>1, <3>4, <3>5
    <3> QED
      BY <2>1, <3>1, <3>3, <3>4, <3>6, TickOrder
  <2>5. CASE TickThrows(c)
    BY <1>2, <2>5 DEF TickThrows, buffers, pendings
  <2> QED
    BY <2>1, <2>2, <2>3, <2>4, <2>5
<1>4. CASE priority_send(RefreshShape)
  BY <1>2, <1>4 DEF priority_send, pendings
<1>5. CASE UNCHANGED vars
  BY <1>2, <1>5 DEF vars, buffers, pendings
<1> QED
  BY <1>1, <1>3, <1>4, <1>5, Zenon DEF Next

LEMMA OrderInvariant == Spec => []AimOrder
<1>1. Init => AimOrder
  BY DEF Init, AimOrder, Rising, AimOrdered
<1>2. StateOK /\ PlacesOK /\ AimOrder /\ [Next]_vars => AimOrder'
  BY AimOrderStep
<1> QED
  BY <1>1, <1>2, StateInvariant, PlacesInvariant, PTL DEF Spec

(* Only a tick completes requests. *)
LEMMA WhatCompletes ==
  ASSUME [Next]_vars
  PROVE  completed' = completed \/ completed' = completed \union Completions
<1>1. ASSUME NEW s \in Shapes, send(s) PROVE completed' = completed
  BY <1>1 DEF send
<1>2. CASE priority_send(RefreshShape)
  BY <1>2 DEF priority_send, pendings
<1>3. CASE tick
  <2>1. PICK c : /\ c = Considered
                 /\ \/ TickStall(c) \/ TickBarrier(c)
                    \/ \E rtl \in dispatch(c) : TickIssue(c, rtl)
                    \/ TickThrows(c)
    BY <1>3, TickCases
  <2>2. ASSUME TickBookkeeping(c) PROVE completed' = completed \union Completions
    BY <2>2 DEF TickBookkeeping
  <2>3. ASSUME NEW rtl \in dispatch(c), TickIssue(c, rtl) PROVE TickBookkeeping(c)
    BY <2>3, IssueIs
  <2>4. TickThrows(c) => completed' = completed
    BY DEF TickThrows, pendings
  <2> QED
    BY <2>1, <2>2, <2>3, <2>4 DEF TickStall, TickBarrier
<1>4. CASE UNCHANGED vars
  BY <1>4 DEF vars, pendings
<1> QED
  BY <1>1, <1>2, <1>3, <1>4, Zenon DEF Next

(* Where an AiM request that has not completed is. *)
LEMMA WhereAim ==
  ASSUME StateOK, NEW x \in InBuffers \union InFlight, x[1] = "AIM"
  PROVE  \/ \E j \in 1 .. Len(m_aim_buffer) : x = m_aim_buffer[j].id
         \/ \E j \in 1 .. Len(pending_reads) : x = pending_reads[j].id
         \/ x \in IdsOfWrites(pending_writes)
<1>1. \A S : \A b \in Seq(S) : x \in Ids(b) =>
                 \E j \in 1 .. Len(b) : x = b[j].id /\ b[j] \in S
  BY IdsAre, ElementOfSeq
<1>2. /\ \A r \in Requests("Read") \union Requests("Write") \union Requests("Refresh") : r.id[1] # "AIM"
      /\ \A r \in Plain : r.id[1] # "AIM"
  BY DEF Requests, Plain
<1>3. /\ x \notin Ids(m_read_buffer) /\ x \notin Ids(m_write_buffer)
      /\ x \notin Ids(m_priority_buffer) /\ x \notin Ids(m_active_buffer)
  BY <1>1, <1>2 DEF StateOK, BuffersOK
<1>4. \/ x \in Ids(m_aim_buffer)
      \/ x \in Ids(pending_reads)
      \/ x \in IdsOfWrites(pending_writes)
  BY <1>3 DEF InBuffers, InFlight, IdsOfWrites
<1> QED
  BY <1>1, <1>4 DEF StateOK, BuffersOK, QueuesOK

(* The head of pending_reads is the oldest AiM request there is, once no   *)
(* write is pending.                                                       *)
LEMMA HeadIsOldest ==
  ASSUME StateOK, AimOrder, pending_reads # << >>, pending_reads[1].id[1] = "AIM",
         pending_writes = {}, NEW x \in InBuffers \union InFlight, x[1] = "AIM"
  PROVE  x[2] >= pending_reads[1].id[2]
<1>1. pending_reads \in Seq(PendingRead) /\ m_aim_buffer \in Seq(Requests("AIM"))
  BY DEF StateOK, BuffersOK, QueuesOK
<1>2. 1 \in 1 .. Len(pending_reads)
  BY <1>1, LenProperties, EmptySeq
<1>0. /\ \A r \in PendingRead : r.id[2] \in Nat
      /\ \A r \in Requests("AIM") : r.id[2] \in Nat
  BY DEF PendingRead, RequestId, Requests
<1>3. pending_reads[1].id[2] \in Nat
  BY <1>0, <1>1, <1>2, ElementOfSeq
<1>4. CASE \E j \in 1 .. Len(m_aim_buffer) : x = m_aim_buffer[j].id
  <2>1. PICK j \in 1 .. Len(m_aim_buffer) : x = m_aim_buffer[j].id
    BY <1>4
  <2>2. pending_reads[1].id[2] < x[2]
    BY <1>2, <2>1 DEF AimOrder, AimOrdered
  <2>3. x[2] \in Nat
    BY <1>0, <1>1, <2>1, ElementOfSeq
  <2> QED
    BY <1>3, <2>2, <2>3
<1>5. CASE \E j \in 1 .. Len(pending_reads) : x = pending_reads[j].id
  <2>1. PICK j \in 1 .. Len(pending_reads) : x = pending_reads[j].id
    BY <1>5
  <2>2. j = 1 \/ 1 < j
    BY <2>1
  <2>3. j = 1 \/ pending_reads[1].id[2] < x[2]
    BY <1>2, <2>1, <2>2 DEF AimOrder, AimOrdered
  <2>4. x[2] \in Nat
    BY <1>0, <1>1, <2>1, ElementOfSeq
  <2> QED
    BY <1>3, <2>1, <2>3, <2>4
<1>6. x \notin IdsOfWrites(pending_writes)
  BY DEF IdsOfWrites
<1> QED
  BY <1>4, <1>5, <1>6, WhereAim

(* A barrier that completes in a step is the head of pending_reads, and no *)
(* write is pending.                                                       *)
LEMMA BarrierIsHead ==
  ASSUME StateOK, PlacesOK, [Next]_vars, NEW i \in 1 .. Len(pending_reads),
         pending_reads[i].eoc, pending_reads[i].id \in completed'
  PROVE  i = 1 /\ pending_reads # << >> /\ pending_writes = {}
<1> DEFINE id == pending_reads[i].id
<1>1. pending_reads \in Seq(PendingRead)
  BY DEF StateOK, QueuesOK
<1>2. id \in Ids(pending_reads)
  BY <1>1, IdsAre
<1>3. id \notin completed /\ id \notin IdsOfWrites(pending_writes)
  <2>1. Apart(PlaceIds)
    BY DEF PlacesOK
  <2>2. /\ PlaceIds["reads"] \cap PlaceIds["done"] = {}
        /\ PlaceIds["reads"] \cap PlaceIds["writes"] = {}
    BY <2>1 DEF Apart, Places
  <2> QED
    BY <1>2, <2>2, PlaceIdsAre
<1>4. id \in Completions
  BY <1>3, WhatCompletes
<1>5. \A w \in AgedWrites : w.id \in IdsOfWrites(pending_writes)
  BY DEF AgedWrites, IdsOfWrites
<1>6. HeadServed /\ id = Head(pending_reads).id
  BY <1>3, <1>4, <1>5 DEF Completions
<1>7. pending_reads # << >>
  BY <1>6 DEF HeadServed
<1>8. Head(pending_reads) = pending_reads[1] /\ 1 \in 1 .. Len(pending_reads)
  BY <1>1, <1>7, HeadTailProperties, LenProperties, EmptySeq
<1>9. NoDup(pending_reads)
  BY DEF PlacesOK, Distinct
<1>10. i = 1
  BY <1>6, <1>8, <1>9 DEF NoDup
<1> QED
  BY <1>6, <1>7, <1>8, <1>10 DEF HeadServed

LEMMA BarrierStep ==
  ASSUME StateOK, PlacesOK, AimOrder, [Next]_vars
  PROVE  \A e \in {pending_reads[i] : i \in DOMAIN pending_reads} :
           e.eoc /\ e.id \in completed' =>
             \A x \in InBuffers \union InFlight : x[1] = "AIM" => x[2] >= e.id[2]
<1>1. DOMAIN pending_reads = 1 .. Len(pending_reads)
  BY LenProperties DEF StateOK, QueuesOK
<1>2. SUFFICES ASSUME NEW i \in 1 .. Len(pending_reads),
                      pending_reads[i].eoc, pending_reads[i].id \in completed',
                      NEW x \in InBuffers \union InFlight, x[1] = "AIM"
               PROVE  x[2] >= pending_reads[i].id[2]
  BY <1>1
<1>3. i = 1 /\ pending_reads # << >> /\ pending_writes = {}
  BY <1>2, BarrierIsHead
<1>4. pending_reads[1].id[1] = "AIM"
  BY <1>2, <1>3 DEF AimOrder, AimOrdered
<1> QED
  BY <1>2, <1>3, <1>4, HeadIsOldest

(* EOC and SYNC are barriers for AiM requests (serve_completed_reqs): when *)
(* one completes, every AiM request accepted before it has completed.      *)
THEOREM BarrierHolds == Spec => EocBarrier
<1>1. StateOK /\ PlacesOK /\ AimOrder /\ [Next]_vars =>
        \A e \in {pending_reads[i] : i \in DOMAIN pending_reads} :
          e.eoc /\ e.id \in completed' =>
            \A x \in InBuffers \union InFlight : x[1] = "AIM" => x[2] >= e.id[2]
  BY BarrierStep
<1> QED
  BY <1>1, StateInvariant, PlacesInvariant, OrderInvariant, PTL DEF Spec, EocBarrier
=============================================================================
