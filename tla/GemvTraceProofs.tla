-------------------------- MODULE GemvTraceProofs --------------------------
(***************************************************************************)
(* The row-sharded layout, the trace, the execution and the result log of  *)
(* a GEMV, for every number of channels and banks: output rows and their   *)
(* places determine each other, both parsers cut a log into the same       *)
(* results, and a run that is not aborted ends with the reference vectors. *)
(***************************************************************************)
EXTENDS GemvTrace, FiniteSetTheorems, SequenceTheorems, WellFoundedInduction, TLAPS

(* Division by a positive number, as the solver needs it stated.           *)
LEMMA DivMod ==
  ASSUME NEW n \in Nat, NEW m \in Nat \ {0}
  PROVE  /\ n \div m \in Nat /\ n % m \in 0 .. m - 1
         /\ n = m * (n \div m) + (n % m)
  BY SMT

(* Quotient and remainder are determined by the equation they satisfy.     *)
LEMMA DivModUnique ==
  ASSUME NEW m \in Nat \ {0}, NEW q \in Nat, NEW k \in 0 .. m - 1
  PROVE  (q * m + k) \div m = q /\ (q * m + k) % m = k
  BY SMT

(* The number of rows in a row group is positive.                          *)
LEMMA ProductPositive == NUM_CHANNELS * NUM_BANKS \in Nat \ {0}
  BY LayoutAssumption, SMT

(* The parts of output_location are in range.                              *)
LEMMA LocationType ==
  ASSUME NEW row \in Nat
  PROVE  /\ output_location(row).group \in Nat
         /\ output_location(row).channel \in ChannelIds
         /\ output_location(row).bank \in BankIds
         /\ output_location(row).physical_row \in Nat
PROOF
  <1> DEFINE cb == NUM_CHANNELS * NUM_BANKS
             g == row \div cb
             rem == row % cb
             c == rem \div NUM_BANKS
             b == rem % NUM_BANKS
  <1>1. cb \in Nat \ {0}
    BY ProductPositive
  <1>2. g \in Nat /\ rem \in 0 .. cb - 1
    <2> HIDE DEF cb
    <2> QED BY <1>1, DivMod
  <1>3. c \in Nat /\ b \in 0 .. NUM_BANKS - 1 /\ rem = NUM_BANKS * c + b
    <2>1. rem \in Nat
      BY <1>1, <1>2
    <2> HIDE DEF rem
    <2> QED BY <2>1, LayoutAssumption, DivMod
  <1>4. c < NUM_CHANNELS
    <2>1. NUM_BANKS * c < NUM_CHANNELS * NUM_BANKS
      <3> HIDE DEF rem, c, b
      <3> QED BY <1>1, <1>2, <1>3, LayoutAssumption, SMT
    <2> HIDE DEF rem, c, b, cb
    <2> QED BY <2>1, <1>3, LayoutAssumption, SMT
  <1>5. g * NUM_CHANNELS + c \in Nat
    <2> HIDE DEF g, c
    <2> QED BY <1>2, <1>3, LayoutAssumption, SMT
  <1>6. output_location(row) = [group |-> g, channel |-> c, bank |-> b,
                                physical_row |-> g * NUM_CHANNELS + c]
    BY DEF output_location
  <1> HIDE DEF g, c, b
  <1> QED BY <1>2, <1>3, <1>4, <1>5, <1>6, LayoutAssumption DEF ChannelIds, BankIds

(* output_location is the inverse of output_row: the parser looks for an   *)
(* output row at the bank and physical row where write_aimd and            *)
(* write_batch_token_aimd put its weights.                                 *)
THEOREM ParserFindsTheRow ==
  ASSUME NEW row \in Nat
  PROVE  output_row(output_location(row).bank, output_location(row).physical_row) = row
PROOF
  <1> DEFINE cb == NUM_CHANNELS * NUM_BANKS
             g == row \div cb
             rem == row % cb
             c == rem \div NUM_BANKS
             b == rem % NUM_BANKS
  <1>1. output_location(row) = [group |-> g, channel |-> c, bank |-> b,
                                physical_row |-> g * NUM_CHANNELS + c]
    BY DEF output_location
  <1>2. g \in Nat /\ c \in 0 .. NUM_CHANNELS - 1 /\ b \in 0 .. NUM_BANKS - 1
    BY LocationType, <1>1 DEF ChannelIds, BankIds
  <1>3. row = cb * g + rem /\ rem \in Nat
    <2>1. cb \in Nat \ {0}
      BY ProductPositive
    <2> HIDE DEF cb
    <2> QED BY <2>1, DivMod
  <1>4. rem = NUM_BANKS * c + b
    <2> HIDE DEF rem
    <2> QED BY <1>3, LayoutAssumption, DivMod
  <1>5. /\ (g * NUM_CHANNELS + c) \div NUM_CHANNELS = g
        /\ (g * NUM_CHANNELS + c) % NUM_CHANNELS = c
    <2> HIDE DEF g, c
    <2> QED BY <1>2, LayoutAssumption, DivModUnique
  <1>6. output_row(b, g * NUM_CHANNELS + c) = g * cb + c * NUM_BANKS + b
    <2> HIDE DEF g, c, b
    <2> QED BY <1>5 DEF output_row
  <1>7. g * cb + c * NUM_BANKS + b = row
    <2>1. cb \in Nat
      BY ProductPositive
    <2> HIDE DEF g, c, b, rem, cb
    <2> QED BY <1>2, <1>3, <1>4, <2>1, LayoutAssumption, SMT
  <1> QED BY <1>1, <1>6, <1>7

(* Conversely the weights found at a bank and a physical row belong to the *)
(* output row whose location is that bank and that row, so no two output   *)
(* rows share a place and every place of an active row is used.            *)
THEOREM PlaceHasOneRow ==
  ASSUME NEW b \in BankIds, NEW x \in Nat
  PROVE  /\ output_row(b, x) \in Nat
         /\ output_location(output_row(b, x)) =
              [group |-> x \div NUM_CHANNELS, channel |-> x % NUM_CHANNELS,
               bank |-> b, physical_row |-> x]
PROOF
  <1> DEFINE cb == NUM_CHANNELS * NUM_BANKS
             g == x \div NUM_CHANNELS
             c == x % NUM_CHANNELS
             k == c * NUM_BANKS + b
  <1>1. g \in Nat /\ c \in 0 .. NUM_CHANNELS - 1 /\ x = NUM_CHANNELS * g + c
    BY LayoutAssumption, DivMod
  <1>2. b \in 0 .. NUM_BANKS - 1 /\ b \in Nat
    BY LayoutAssumption DEF BankIds
  <1>3. cb \in Nat \ {0}
    BY ProductPositive
  <1>4. k \in 0 .. cb - 1
    <2>1. c * NUM_BANKS <= (NUM_CHANNELS - 1) * NUM_BANKS
      <3> HIDE DEF c
      <3> QED BY <1>1, LayoutAssumption, SMT
    <2>2. c * NUM_BANKS \in Nat
      <3> HIDE DEF c
      <3> QED BY <1>1, LayoutAssumption, SMT
    <2> HIDE DEF c
    <2> QED BY <2>1, <2>2, <1>2, LayoutAssumption, SMT
  <1>5. output_row(b, x) = g * cb + k
    <2>1. output_row(b, x) = g * cb + c * NUM_BANKS + b
      BY DEF output_row
    <2>2. g * cb \in Nat /\ c * NUM_BANKS \in Nat
      <3> HIDE DEF g, c, cb
      <3> QED BY <1>1, <1>3, LayoutAssumption, SMT
    <2> HIDE DEF g, c, cb
    <2> QED BY <2>1, <2>2, <1>2
  <1>6. (g * cb + k) \div cb = g /\ (g * cb + k) % cb = k /\ g * cb + k \in Nat
    <2> HIDE DEF g, k, cb
    <2> QED BY <1>1, <1>3, <1>4, DivModUnique
  <1>7. k \div NUM_BANKS = c /\ k % NUM_BANKS = b
    <2> HIDE DEF c
    <2> QED BY <1>1, <1>2, LayoutAssumption, DivModUnique
  <1>8. g * NUM_CHANNELS + c = x
    <2> HIDE DEF g, c
    <2> QED BY <1>1, LayoutAssumption, SMT
  <1>9. output_location(g * cb + k) = [group |-> g, channel |-> c, bank |-> b, physical_row |-> x]
    <2>1. output_location(g * cb + k) =
            [group |-> (g * cb + k) \div cb,
             channel |-> ((g * cb + k) % cb) \div NUM_BANKS,
             bank |-> ((g * cb + k) % cb) % NUM_BANKS,
             physical_row |-> ((g * cb + k) \div cb) * NUM_CHANNELS
                              + (((g * cb + k) % cb) \div NUM_BANKS)]
      BY DEF output_location
    <2> HIDE DEF g, c, k, cb
    <2> QED BY <2>1, <1>6, <1>7, <1>8
  <1> QED BY <1>5, <1>6, <1>9

(* The channel that loads a physical row (load_row_shard_mod: the rows     *)
(* congruent to its number) is the channel the trace addresses for every   *)
(* output row of that physical row.                                        *)
THEOREM RowIsWhereItRuns ==
  ASSUME NEW row \in Nat
  PROVE  output_location(row).physical_row % NUM_CHANNELS = output_location(row).channel
PROOF
  <1> DEFINE l == output_location(row)
  <1>1. l.physical_row = l.group * NUM_CHANNELS + l.channel
    BY DEF output_location
  <1>2. l.group \in Nat /\ l.channel \in 0 .. NUM_CHANNELS - 1
    BY LocationType DEF ChannelIds
  <1> DEFINE g == l.group
             c == l.channel
  <1>3. (g * NUM_CHANNELS + c) % NUM_CHANNELS = c
    <2>1. g \in Nat /\ c \in 0 .. NUM_CHANNELS - 1
      BY <1>2
    <2> HIDE DEF g, c
    <2> QED BY <2>1, LayoutAssumption, DivModUnique
  <1> QED BY <1>1, <1>3

(* Banks are filled first: the physical row is the row's bank-sized block. *)
LEMMA PhysicalRow ==
  ASSUME NEW row \in Nat
  PROVE  output_location(row).physical_row = row \div NUM_BANKS
PROOF
  <1> DEFINE l == output_location(row)
             x == l.physical_row
             b == l.bank
  <1>1. x \in Nat /\ b \in 0 .. NUM_BANKS - 1
    BY LocationType DEF BankIds
  <1>2. output_row(b, x) = x * NUM_BANKS + b
    <2> DEFINE g == x \div NUM_CHANNELS
               c == x % NUM_CHANNELS
    <2>1. g \in Nat /\ c \in Nat /\ x = NUM_CHANNELS * g + c
      <3> HIDE DEF x
      <3>1. g \in Nat /\ c \in 0 .. NUM_CHANNELS - 1 /\ x = NUM_CHANNELS * g + c
        BY <1>1, LayoutAssumption, DivMod
      <3> QED BY <3>1, LayoutAssumption
    <2>2. output_row(b, x) = g * (NUM_CHANNELS * NUM_BANKS) + c * NUM_BANKS + b
      BY DEF output_row
    <2>3. g * (NUM_CHANNELS * NUM_BANKS) + c * NUM_BANKS = (NUM_CHANNELS * g + c) * NUM_BANKS
      <3> HIDE DEF g, c
      <3> QED BY <2>1, LayoutAssumption, SMT
    <2> HIDE DEF g, c, x
    <2> QED BY <2>1, <2>2, <2>3
  <1>3. row = x * NUM_BANKS + b
    BY <1>2, ParserFindsTheRow
  <1>4. (x * NUM_BANKS + b) \div NUM_BANKS = x
    <2> HIDE DEF x, b
    <2> QED BY <1>1, LayoutAssumption, DivModUnique
  <1> QED BY <1>3, <1>4

(* A later row is in the same or a later block.                            *)
LEMMA DivMonotone ==
  ASSUME NEW m \in Nat \ {0}, NEW i \in Nat, NEW j \in Nat, i <= j
  PROVE  i \div m <= j \div m
PROOF
  <1> DEFINE qi == i \div m
             qj == j \div m
             ki == i % m
             kj == j % m
  <1>1. /\ qi \in Nat /\ qj \in Nat /\ ki \in 0 .. m - 1 /\ kj \in 0 .. m - 1
        /\ i = m * qi + ki /\ j = m * qj + kj
    BY DivMod
  <1> HIDE DEF qi, qj, ki, kj
  <1>2. ASSUME qj + 1 <= qi PROVE FALSE
    <2>1. m * (qj + 1) <= m * qi
      BY <1>1, <1>2, SMT
    <2>2. m * (qj + 1) = m * qj + m
      BY <1>1, SMT
    <2>3. m * qj \in Nat /\ m * qi \in Nat
      BY <1>1, SMT
    <2> QED BY <1>1, <2>1, <2>2, <2>3
  <1>3. qi <= qj
    BY <1>1, <1>2
  <1> QED BY <1>3 DEF qi, qj

(* The banks hold ceil(r / NUM_BANKS) rows of weights.                     *)
THEOREM ActiveRows ==
  ASSUME NEW r \in Nat \ {0}
  PROVE  active_rows(r) = ((r - 1) \div NUM_BANKS) + 1 /\ active_rows(r) \in Nat
PROOF
  <1> DEFINE P == {output_location(row).physical_row : row \in 0 .. r - 1} \union {-1}
             last == (r - 1) \div NUM_BANKS
  <1>1. last \in Nat
    BY LayoutAssumption, DivMod
  <1>2. last \in P
    <2>1. output_location(r - 1).physical_row = last
      BY PhysicalRow
    <2>2. r - 1 \in 0 .. r - 1
      OBVIOUS
    <2> QED BY <2>1, <2>2
  <1>3. \A x \in P : last >= x /\ x \in Int
    <2> TAKE x \in P
    <2>1. CASE x = -1
      BY <2>1, <1>1
    <2>2. CASE x # -1
      <3>1. PICK row \in 0 .. r - 1 : x = output_location(row).physical_row
        BY <2>2
      <3>2. x = row \div NUM_BANKS /\ row \div NUM_BANKS \in Nat
        <4>1. row \in Nat
          OBVIOUS
        <4>2. output_location(row).physical_row = row \div NUM_BANKS
          BY <4>1, PhysicalRow
        <4>3. row \div NUM_BANKS \in Nat
          BY <4>1, LayoutAssumption, DivMod
        <4> QED BY <3>1, <4>2, <4>3
      <3>3. row \div NUM_BANKS <= last
        BY LayoutAssumption, DivMonotone
      <3> HIDE DEF last
      <3> QED BY <3>2, <3>3, <1>1
    <2> QED BY <2>1, <2>2
  <1> HIDE DEF last, P
  <1>4. Max(P) = last
    <2>1. Max(P) \in P /\ \A y \in P : Max(P) >= y
      BY <1>2, <1>3 DEF Max
    <2>2. Max(P) \in Int /\ last >= Max(P) /\ Max(P) >= last
      BY <2>1, <1>2, <1>3
    <2> DEFINE m == Max(P)
    <2>3. m \in Int /\ last >= m /\ m >= last
      BY <2>2
    <2> HIDE DEF m
    <2>4. m = last
      BY <2>3, <1>1
    <2> QED BY <2>4 DEF m
  <1>5. active_rows(r) = Max(P) + 1
    BY DEF active_rows, P
  <1> QED BY <1>1, <1>4, <1>5 DEF last

(* The mask written for a channel reaches that channel and no other.       *)
THEOREM MaskReachesItsChannel ==
  ASSUME NEW ch \in ChannelIds
  PROVE  FindChannels(channel_mask_for(ch)) = {ch}
PROOF
  <1>1. NUM_CHANNELS - 1 - (NUM_CHANNELS - 1 - ch) = ch
    BY LayoutAssumption DEF ChannelIds
  <1> QED BY <1>1 DEF FindChannels, channel_mask_for

(* The activations of a batch start after the last weight row and at a     *)
(* multiple of the channels, so the copy of token n for channel ch is      *)
(* loaded by channel ch and overwrites no weights.                         *)
THEOREM VectorRowsBehindWeights ==
  ASSUME NEW r \in Nat \ {0}, NEW n \in Nat, NEW ch \in ChannelIds
  PROVE  /\ vector_row_base(r) >= active_rows(r)
         /\ (vector_row_base(r) + n * NUM_CHANNELS + ch) % NUM_CHANNELS = ch
PROOF
  <1> DEFINE a == active_rows(r) + NUM_CHANNELS - 1
             q == a \div NUM_CHANNELS
  <1>1. active_rows(r) \in Nat /\ a \in Nat
    BY LayoutAssumption, ActiveRows
  <1>2. q \in Nat /\ a % NUM_CHANNELS \in 0 .. NUM_CHANNELS - 1
        /\ a = NUM_CHANNELS * q + (a % NUM_CHANNELS)
    <2> HIDE DEF a
    <2> QED BY <1>1, LayoutAssumption, DivMod
  <1>3. vector_row_base(r) = q * NUM_CHANNELS
    BY DEF vector_row_base
  <1>4. q * NUM_CHANNELS >= active_rows(r)
    <2>1. NUM_CHANNELS * q = q * NUM_CHANNELS /\ q * NUM_CHANNELS \in Nat
      <3> HIDE DEF q
      <3> QED BY <1>2, LayoutAssumption, SMT
    <2>2. q * NUM_CHANNELS + (a % NUM_CHANNELS) = active_rows(r) + NUM_CHANNELS - 1
      <3> HIDE DEF q
      <3> QED BY <1>1, <1>2, <2>1
    <2> DEFINE k == a % NUM_CHANNELS
               p == q * NUM_CHANNELS
    <2>3. k \in 0 .. NUM_CHANNELS - 1 /\ p \in Nat /\ p + k = active_rows(r) + NUM_CHANNELS - 1
      BY <1>2, <2>1, <2>2
    <2> HIDE DEF k, p
    <2>4. p >= active_rows(r)
      BY <1>1, <2>3, LayoutAssumption
    <2> QED BY <2>4 DEF p
  <1>5. q * NUM_CHANNELS + n * NUM_CHANNELS + ch = (q + n) * NUM_CHANNELS + ch /\ q + n \in Nat
    <2> HIDE DEF q
    <2> QED BY <1>2, LayoutAssumption, SMT DEF ChannelIds
  <1>6. ((q + n) * NUM_CHANNELS + ch) % NUM_CHANNELS = ch
    <2> HIDE DEF q
    <2> QED BY <1>5, LayoutAssumption, DivModUnique DEF ChannelIds
  <1> QED BY <1>3, <1>4, <1>5, <1>6
---------------------------------------------------------------------------
(* The log of a run and the two parsers of it.  A result command logs one  *)
(* row per bank with one cycle, later ones with a later cycle.             *)

IsSeq(s) == \E S : s \in Seq(S)

(* All rows of a block are there, in the order of the banks; rows of one   *)
(* cycle are of one block.                                                 *)
Blocks(log, n) ==
  /\ \A i \in 1 .. Len(log) :
       /\ log[i].bank \in BankIds /\ log[i].cycle \in Int /\ log[i].cycle < n
       /\ \A b \in BankIds :
            LET j == i - log[i].bank + b
            IN  /\ j \in 1 .. Len(log) /\ log[j].bank = b
                /\ log[j].cycle = log[i].cycle /\ log[j].command = log[i].command
  /\ \A i, j \in 1 .. Len(log) :
       /\ i < j => log[i].cycle <= log[j].cycle
       /\ log[i].cycle = log[j].cycle => j - i = log[j].bank - log[i].bank

(* What a channel has logged, on disk and in the buffer.                   *)
Logged(ch) == csv[ch] \o buffered[ch]

GInv ==
  /\ pc \in [ChannelIds -> Nat] /\ DOMAIN csv = ChannelIds /\ DOMAIN buffered = ChannelIds
  /\ \A ch \in ChannelIds :
       /\ IsSeq(csv[ch]) /\ IsSeq(buffered[ch])
       /\ phase \in {"parse", "done"} => buffered[ch] = <<>>
       /\ phase # "failed" => Blocks(Logged(ch), pc[ch])

(* The concatenation of two sequences, element by element.                 *)
LEMMA Append2 ==
  ASSUME NEW s, NEW t, IsSeq(s), IsSeq(t)
  PROVE  /\ IsSeq(s \o t) /\ Len(s) \in Nat /\ Len(t) \in Nat /\ Len(s \o t) = Len(s) + Len(t)
         /\ \A i \in 1 .. Len(s) : (s \o t)[i] = s[i]
         /\ \A i \in 1 .. Len(t) : (s \o t)[Len(s) + i] = t[i]
         /\ DOMAIN s = 1 .. Len(s)
<1>1. PICK S : s \in Seq(S)
  BY DEF IsSeq
<1>2. PICK T : t \in Seq(T)
  BY DEF IsSeq
<1> DEFINE U == S \union T
<1>3. s \in Seq(U) /\ t \in Seq(U)
  BY <1>1, <1>2
<1> HIDE DEF U
<1>4. s \o t \in Seq(U)
  BY <1>3
<1> QED
  BY <1>3, <1>4 DEF IsSeq

(* Moving a prefix of the buffer to the file leaves what is logged.        *)
LEMMA Flushed ==
  ASSUME NEW s, NEW t, IsSeq(s), IsSeq(t), NEW n \in 0 .. Len(t)
  PROVE  LET front == s \o SubSeq(t, 1, n)
             rest == SubSeq(t, n + 1, Len(t))
         IN  IsSeq(front) /\ IsSeq(rest) /\ front \o rest = s \o t
<1>1. PICK S : s \in Seq(S)
  BY DEF IsSeq
<1>2. PICK T : t \in Seq(T)
  BY DEF IsSeq
<1> DEFINE U == S \union T
<1>3. s \in Seq(U) /\ t \in Seq(U)
  BY <1>1, <1>2
<1> HIDE DEF U
<1> DEFINE a == SubSeq(t, 1, n)
           rest == SubSeq(t, n + 1, Len(t))
           front == s \o a
<1>4. a \in Seq(U) /\ Len(a) = n /\ \A i \in 1 .. n : a[i] = t[i]
  BY <1>3
<1>5. /\ rest \in Seq(U) /\ Len(rest) = Len(t) - n
      /\ \A i \in 1 .. Len(t) - n : rest[i] = t[n + i]
  BY <1>3
<1> HIDE DEF a, rest
<1>6. front \in Seq(U) /\ Len(front) = Len(s) + n
      /\ \A i \in 1 .. Len(s) + n : front[i] = IF i <= Len(s) THEN s[i] ELSE t[i - Len(s)]
  BY <1>3, <1>4
<1> HIDE DEF front
<1>7. Len(s) \in Nat /\ Len(t) \in Nat /\ n \in Nat /\ n <= Len(t)
  BY <1>3
<1>8. /\ front \o rest \in Seq(U) /\ Len(front \o rest) = Len(s) + Len(t)
      /\ s \o t \in Seq(U) /\ Len(s \o t) = Len(s) + Len(t)
  <2>1. front \o rest \in Seq(U) /\ Len(front \o rest) = Len(front) + Len(rest)
    BY <1>5, <1>6, ConcatProperties
  <2>2. s \o t \in Seq(U) /\ Len(s \o t) = Len(s) + Len(t)
    BY <1>3
  <2>3. (Len(s) + n) + (Len(t) - n) = Len(s) + Len(t)
    BY <1>7
  <2> QED
    BY <1>5, <1>6, <2>1, <2>2, <2>3
<1>9. ASSUME NEW i \in 1 .. Len(s) + Len(t) PROVE (front \o rest)[i] = (s \o t)[i]
  <2>1. CASE i <= Len(s) + n
    BY <1>3, <1>5, <1>6, <2>1
  <2>2. CASE i > Len(s) + n
    <3>1. i - Len(front) \in 1 .. Len(t) - n /\ n + (i - Len(front)) = i - Len(s)
      BY <1>3, <1>6, <2>2
    <3>2. (front \o rest)[i] = rest[i - Len(front)]
      BY <1>3, <1>5, <1>6, <2>2
    <3>3. (s \o t)[i] = t[i - Len(s)]
      BY <1>3, <2>2
    <3> QED
      BY <1>5, <3>1, <3>2, <3>3
  <2>3. i \in Int /\ Len(s) + n \in Int
    BY <1>7
  <2>4. i <= Len(s) + n \/ i > Len(s) + n
    <3> DEFINE m == Len(s) + n
    <3> HIDE DEF m
    <3>1. i <= m \/ i > m
      BY <2>3 DEF m
    <3> QED
      BY <3>1 DEF m
  <2> QED
    BY <2>1, <2>2, <2>4
<1>10. front \o rest = s \o t
  BY <1>8, <1>9
<1> QED
  BY <1>5, <1>6, <1>10 DEF IsSeq, front, rest, a

(* A later bound on the cycles will do as well.                            *)
LEMMA BlocksLater ==
  ASSUME NEW log, NEW m \in Nat, NEW n \in Nat, m <= n, Blocks(log, m)
  PROVE  Blocks(log, n)
BY DEF Blocks

(* A further block, of a cycle that is later than all.                     *)
LEMMA OneMoreBlock ==
  ASSUME NEW log, NEW rows, NEW n \in Nat, NEW command,
         IsSeq(log), IsSeq(rows), Blocks(log, n), Len(rows) = NUM_BANKS,
         \A i \in 1 .. NUM_BANKS :
           rows[i].cycle = n /\ rows[i].command = command /\ rows[i].bank = i - 1
  PROVE  Blocks(log \o rows, n + 1)
<1> DEFINE all == log \o rows
           L == Len(log)
<1>1. /\ L \in Nat /\ Len(all) = L + NUM_BANKS
      /\ \A i \in 1 .. L : all[i] = log[i]
      /\ \A i \in 1 .. NUM_BANKS : all[L + i] = rows[i]
  BY Append2
<1>2. NUM_BANKS \in Nat \ {0}
  BY LayoutAssumption
<1> HIDE DEF all, L
<1>3. ASSUME NEW i \in 1 .. L + NUM_BANKS
      PROVE  \/ i \in 1 .. L /\ all[i] = log[i]
             \/ /\ i > L /\ all[i].cycle = n /\ all[i].command = command
                /\ all[i].bank = i - L - 1
  <2>1. CASE i <= L
    BY <1>1, <2>1
  <2>2. CASE i > L
    <3>1. i - L \in 1 .. NUM_BANKS /\ L + (i - L) = i
      BY <1>1, <1>2, <2>2
    <3> QED
      BY <1>1, <2>2, <3>1
  <2> QED
    BY <1>1, <2>1, <2>2
<1>4. ASSUME NEW i \in 1 .. Len(all)
      PROVE  /\ all[i].bank \in BankIds /\ all[i].cycle \in Int /\ all[i].cycle < n + 1
             /\ \A b \in BankIds :
                  LET j == i - all[i].bank + b
                  IN  /\ j \in 1 .. Len(all) /\ all[j].bank = b
                      /\ all[j].cycle = all[i].cycle /\ all[j].command = all[i].command
  <2>1. CASE i \in 1 .. L /\ all[i] = log[i]
    <3>1. /\ log[i].bank \in BankIds /\ log[i].cycle \in Int /\ log[i].cycle < n
          /\ \A b \in BankIds :
               LET j == i - log[i].bank + b
               IN  /\ j \in 1 .. L /\ log[j].bank = b
                   /\ log[j].cycle = log[i].cycle /\ log[j].command = log[i].command
      BY <2>1 DEF Blocks, L
    <3>2. ASSUME NEW b \in BankIds
          PROVE  LET j == i - all[i].bank + b
                 IN  /\ j \in 1 .. Len(all) /\ all[j].bank = b
                     /\ all[j].cycle = all[i].cycle /\ all[j].command = all[i].command
      <4> DEFINE j == i - log[i].bank + b
      <4>1. /\ j \in 1 .. L /\ log[j].bank = b
            /\ log[j].cycle = log[i].cycle /\ log[j].command = log[i].command
        BY <3>1
      <4> HIDE DEF j
      <4>2. j \in 1 .. Len(all) /\ all[j] = log[j]
        BY <1>1, <1>2, <4>1
      <4> QED
        BY <2>1, <4>1, <4>2 DEF j
    <3> QED
      BY <2>1, <3>1, <3>2
  <2>2. CASE i > L /\ all[i].cycle = n /\ all[i].command = command /\ all[i].bank = i - L - 1
    <3>1. all[i].bank \in BankIds
      BY <1>1, <1>2, <2>2 DEF BankIds
    <3>2. ASSUME NEW b \in BankIds
          PROVE  LET j == i - all[i].bank + b
                 IN  /\ j \in 1 .. Len(all) /\ all[j].bank = b
                     /\ all[j].cycle = all[i].cycle /\ all[j].command = all[i].command
      <4> DEFINE j == i - all[i].bank + b
      <4>0. L \in Nat /\ i \in Int /\ b \in Nat /\ b < NUM_BANKS
        BY <1>1, <1>2 DEF BankIds
      <4>1. j = L + 1 + b /\ j \in 1 .. L + NUM_BANKS /\ j > L /\ j - L - 1 = b
        <5>1. j = i - (i - L - 1) + b
          BY <2>2
        <5> HIDE DEF j
        <5> QED
          BY <1>2, <4>0, <5>1
      <4> HIDE DEF j
      <4>2. all[j].cycle = n /\ all[j].command = command /\ all[j].bank = b
        BY <1>1, <1>3, <4>1
      <4> QED
        BY <1>1, <2>2, <4>1, <4>2 DEF j
    <3> QED
      BY <2>2, <3>1, <3>2
  <2> QED
    BY <1>1, <1>3, <2>1, <2>2
<1>5. ASSUME NEW i \in 1 .. Len(all), NEW j \in 1 .. Len(all)
      PROVE  /\ i < j => all[i].cycle <= all[j].cycle
             /\ all[i].cycle = all[j].cycle => j - i = all[j].bank - all[i].bank
  <2>1. \A k \in 1 .. L : log[k].cycle \in Int /\ log[k].cycle < n
    BY DEF Blocks, L
  <2>2. \A k, m \in 1 .. L :
          /\ k < m => log[k].cycle <= log[m].cycle
          /\ log[k].cycle = log[m].cycle => m - k = log[m].bank - log[k].bank
    BY DEF Blocks, L
  <2> QED
    BY <1>1, <1>2, <1>3, <2>1, <2>2
<1>6. Blocks(all, n + 1)
  BY <1>4, <1>5 DEF Blocks
<1> QED
  BY <1>6 DEF all

(* log_result appends the rows of the command to what the channel has      *)
(* logged, wherever it cuts the buffer, and leaves the other channels.     *)
LEMMA LogAppends ==
  ASSUME GInv, NEW ch \in ChannelIds, NEW op, NEW values, Log(ch, Packets(ch, op, values))
  PROVE  LET rows == Packets(ch, op, values)
         IN  /\ IsSeq(rows) /\ Len(rows) = NUM_BANKS
             /\ \A i \in 1 .. NUM_BANKS :
                  rows[i].cycle = pc[ch] /\ rows[i].command = op /\ rows[i].bank = i - 1
             /\ IsSeq(csv'[ch]) /\ IsSeq(buffered'[ch]) /\ IsSeq(Logged(ch))
             /\ Logged(ch)' = Logged(ch) \o rows
             /\ DOMAIN csv' = ChannelIds /\ DOMAIN buffered' = ChannelIds
             /\ \A c \in ChannelIds \ {ch} : csv'[c] = csv[c] /\ buffered'[c] = buffered[c]
<1> DEFINE rows == Packets(ch, op, values)
           all == buffered[ch] \o rows
           n == (Len(all) \div BufferSize) * BufferSize
<1>1. NUM_BANKS \in Nat \ {0} /\ BufferSize \in Nat \ {0}
  BY LayoutAssumption, GemvAssumption
<1>2. /\ IsSeq(rows) /\ Len(rows) = NUM_BANKS
      /\ \A i \in 1 .. NUM_BANKS :
           rows[i].cycle = pc[ch] /\ rows[i].command = op /\ rows[i].bank = i - 1
  <2>1. rows \in Seq({rows[i] : i \in 1 .. NUM_BANKS}) /\ Len(rows) = NUM_BANKS
    <3>1. rows = [i \in 1 .. NUM_BANKS |-> rows[i]]
      BY DEF Packets
    <3> HIDE DEF rows
    <3> QED
      BY <1>1, <3>1
  <2>2. \A i \in 1 .. NUM_BANKS :
           rows[i].cycle = pc[ch] /\ rows[i].command = op /\ rows[i].bank = i - 1
    BY DEF Packets
  <2> HIDE DEF rows
  <2> QED
    BY <2>1, <2>2 DEF IsSeq
<1>3. /\ IsSeq(csv[ch]) /\ IsSeq(buffered[ch])
      /\ DOMAIN csv = ChannelIds /\ DOMAIN buffered = ChannelIds
  BY DEF GInv
<1> HIDE DEF rows
<1>4. IsSeq(all) /\ Len(all) \in Nat
  BY <1>2, <1>3, Append2
<1> HIDE DEF all
<1>5. n \in 0 .. Len(all)
  <2> DEFINE q == Len(all) \div BufferSize
  <2>1. /\ q \in Nat /\ Len(all) % BufferSize \in 0 .. BufferSize - 1
        /\ Len(all) = BufferSize * q + (Len(all) % BufferSize)
    BY <1>1, <1>4, DivMod
  <2> HIDE DEF q
  <2>2. BufferSize * q = q * BufferSize /\ q * BufferSize \in Nat
    BY <1>1, <2>1
  <2>3. q * BufferSize \in 0 .. Len(all)
    BY <1>1, <1>4, <2>1, <2>2
  <2> QED
    BY <2>3 DEF q
<1>6. /\ csv' = [csv EXCEPT ![ch] = csv[ch] \o SubSeq(all, 1, n)]
      /\ buffered' = [buffered EXCEPT ![ch] = SubSeq(all, n + 1, Len(all))]
  BY DEF Log, all, rows
<1> HIDE DEF n
<1>7. /\ IsSeq(csv'[ch]) /\ IsSeq(buffered'[ch]) /\ Logged(ch)' = csv[ch] \o all
  BY <1>3, <1>4, <1>5, <1>6, Flushed DEF Logged
<1>8. Logged(ch)' = Logged(ch) \o rows
  <2>1. PICK S : csv[ch] \in Seq(S)
    BY <1>3 DEF IsSeq
  <2>2. PICK T : buffered[ch] \in Seq(T)
    BY <1>3 DEF IsSeq
  <2>3. PICK Q : rows \in Seq(Q)
    BY <1>2 DEF IsSeq
  <2> DEFINE U == S \union T \union Q
  <2>4. csv[ch] \in Seq(U) /\ buffered[ch] \in Seq(U) /\ rows \in Seq(U)
    BY <2>1, <2>2, <2>3
  <2> HIDE DEF U
  <2>5. csv[ch] \o (buffered[ch] \o rows) = (csv[ch] \o buffered[ch]) \o rows
    <3>1. \A u, v, w \in Seq(U) : u \o (v \o w) = (u \o v) \o w
      BY ConcatAssociative
    <3> QED
      BY <2>4, <3>1
  <2> QED
    BY <1>7, <2>5 DEF Logged, all
<1>9. IsSeq(Logged(ch))
  BY <1>3, Append2 DEF Logged
<1>10. /\ DOMAIN csv' = ChannelIds /\ DOMAIN buffered' = ChannelIds
       /\ \A c \in ChannelIds \ {ch} : csv'[c] = csv[c] /\ buffered'[c] = buffered[c]
  BY <1>3, <1>6
<1> QED
  BY <1>2, <1>7, <1>8, <1>9, <1>10 DEF rows

(* log_result, with the rows of one command.                               *)
LEMMA LogOK ==
  ASSUME GInv, phase # "failed", phase' = phase, phase \notin {"parse", "done"},
         NEW ch \in ChannelIds, NEW op, NEW values,
         pc' = [pc EXCEPT ![ch] = @ + 1], Log(ch, Packets(ch, op, values))
  PROVE  GInv'
<1> DEFINE rows == Packets(ch, op, values)
<1>1. /\ IsSeq(rows) /\ Len(rows) = NUM_BANKS
      /\ \A i \in 1 .. NUM_BANKS :
           rows[i].cycle = pc[ch] /\ rows[i].command = op /\ rows[i].bank = i - 1
      /\ IsSeq(csv'[ch]) /\ IsSeq(buffered'[ch]) /\ IsSeq(Logged(ch))
      /\ Logged(ch)' = Logged(ch) \o rows
      /\ DOMAIN csv' = ChannelIds /\ DOMAIN buffered' = ChannelIds
      /\ \A c \in ChannelIds \ {ch} : csv'[c] = csv[c] /\ buffered'[c] = buffered[c]
  BY LogAppends
<1>2. Blocks(Logged(ch), pc[ch]) /\ pc[ch] \in Nat /\ pc \in [ChannelIds -> Nat]
  BY DEF GInv
<1> HIDE DEF rows
<1>3. Blocks(Logged(ch)', pc[ch] + 1)
  BY <1>1, <1>2, OneMoreBlock
<1>4. pc' \in [ChannelIds -> Nat] /\ pc'[ch] = pc[ch] + 1
  BY <1>2
<1>5. ASSUME NEW c \in ChannelIds
      PROVE  /\ IsSeq(csv'[c]) /\ IsSeq(buffered'[c])
             /\ Blocks(Logged(c)', pc'[c])
  <2>1. CASE c = ch
    BY <1>1, <1>3, <1>4, <2>1
  <2>2. CASE c # ch
    <3>1. csv'[c] = csv[c] /\ buffered'[c] = buffered[c] /\ pc'[c] = pc[c]
      BY <1>1, <1>2, <2>2
    <3> QED
      BY <3>1 DEF GInv, Logged
  <2> QED
    BY <2>1, <2>2
<1> QED
  BY <1>1, <1>4, <1>5 DEF GInv

(* A step that leaves the logs.                                            *)
LEMMA LogsKept ==
  ASSUME GInv, UNCHANGED <<csv, buffered>>, pc' \in [ChannelIds -> Nat],
         \A ch \in ChannelIds : pc[ch] <= pc'[ch],
         phase' \in {"parse", "done"} => phase \in {"parse", "done"},
         phase = "failed" => phase' = "failed"
  PROVE  GInv'
<1>1. \A ch \in ChannelIds : Logged(ch)' = Logged(ch)
  BY DEF Logged
<1>2. ASSUME NEW ch \in ChannelIds, phase' # "failed" PROVE Blocks(Logged(ch)', pc'[ch])
  <2>1. Blocks(Logged(ch), pc[ch]) /\ pc[ch] \in Nat /\ pc'[ch] \in Nat
    BY <1>2 DEF GInv
  <2> QED
    BY <1>1, <2>1, BlocksLater
<1> QED
  BY <1>2 DEF GInv

(* In every run that has not failed, a channel's log, on disk and in the   *)
(* buffer, consists of whole blocks, one row per bank, of one command and  *)
(* one cycle, and what is logged next has a later cycle, wherever          *)
(* log_result cuts the buffer.                                             *)
THEOREM LogInvariant == Spec => []GInv
<1>1. Init => GInv
  <2> SUFFICES ASSUME Init PROVE GInv
    OBVIOUS
  <2>1. <<>> \in Seq({}) /\ <<>> \o <<>> = <<>> /\ Len(<<>>) = 0
    <3>1. <<>> \in Seq({}) /\ Len(<<>>) = 0
      OBVIOUS
    <3> QED
      BY <3>1, ConcatEmptySeq
  <2>2. \A ch \in ChannelIds : csv[ch] = <<>> /\ buffered[ch] = <<>>
    BY DEF Init
  <2>3. \A ch \in ChannelIds : Logged(ch) = <<>>
    BY <2>1, <2>2 DEF Logged
  <2>4. Blocks(<<>>, 0)
    BY <2>1 DEF Blocks
  <2>5. IsSeq(<<>>)
    BY <2>1 DEF IsSeq
  <2>6. pc = [ch \in ChannelIds |-> 0] /\ DOMAIN csv = ChannelIds /\ DOMAIN buffered = ChannelIds
    BY DEF Init
  <2> QED
    BY <2>2, <2>3, <2>4, <2>5, <2>6 DEF GInv
<1>2. GInv /\ [Next]_vars => GInv'
  <2> SUFFICES ASSUME GInv, [Next]_vars PROVE GInv'
    OBVIOUS
  <2>0. pc \in [ChannelIds -> Nat]
    BY DEF GInv
  <2>1. CASE WriteFiles \/ Parse \/ Ended \/ UNCHANGED vars
    <3>1. /\ UNCHANGED <<csv, buffered, pc>>
          /\ phase' \in {"parse", "done"} => phase \in {"parse", "done"}
          /\ phase = "failed" => phase' = "failed"
      BY <2>1 DEF WriteFiles, Parse, Ended, runVars, vars
    <3> QED
      BY <2>0, <3>1, LogsKept
  <2>2. ASSUME NEW ch \in ChannelIds, load_from_file(ch) PROVE GInv'
    <3>1. /\ UNCHANGED <<csv, buffered>> /\ phase = "load" /\ phase' \in {"load", "run", "failed"}
          /\ pc' = pc \/ (pc[ch] = 0 /\ pc' = [pc EXCEPT ![ch] = 1])
      BY <2>2 DEF load_from_file
    <3>2. pc' \in [ChannelIds -> Nat] /\ \A c \in ChannelIds : pc[c] <= pc'[c]
      BY <2>0, <3>1
    <3> QED
      BY <3>1, <3>2, LogsKept
  <2>3. ASSUME NEW ch \in ChannelIds, Execute(ch) PROVE GInv'
    <3>1. phase = "run" /\ phase' = phase /\ pc' = [pc EXCEPT ![ch] = @ + 1]
      BY <2>3 DEF Execute
    <3>2. \/ UNCHANGED <<csv, buffered>>
          \/ Log(ch, Packets(ch, "RD_AF", af[ch]))
          \/ Log(ch, Packets(ch, "RD_MAC", acc[ch]))
      BY <2>3 DEF Execute
    <3>3. pc' \in [ChannelIds -> Nat] /\ \A c \in ChannelIds : pc[c] <= pc'[c]
      BY <2>0, <3>1
    <3>4. CASE UNCHANGED <<csv, buffered>>
      BY <3>1, <3>3, <3>4, LogsKept
    <3>5. CASE Log(ch, Packets(ch, "RD_AF", af[ch])) \/ Log(ch, Packets(ch, "RD_MAC", acc[ch]))
      BY <3>1, <3>5, LogOK
    <3> QED
      BY <3>2, <3>4, <3>5
  <2>4. CASE Abort
    <3>1. /\ phase' = "failed" /\ UNCHANGED <<pc, csv>>
          /\ buffered' = [ch \in ChannelIds |-> <<>>]
      BY <2>4 DEF Abort
    <3>2. IsSeq(<<>>)
      <4>1. <<>> \in Seq({})
        OBVIOUS
      <4> QED
        BY <4>1 DEF IsSeq
    <3> QED
      BY <3>1, <3>2 DEF GInv
  <2>5. CASE Finalize
    <3>1. /\ phase = "run" /\ phase' = "parse" /\ pc' = pc
          /\ csv' = [ch \in ChannelIds |-> csv[ch] \o buffered[ch]]
          /\ buffered' = [ch \in ChannelIds |-> <<>>]
      BY <2>5 DEF Finalize
    <3>2. ASSUME NEW ch \in ChannelIds
          PROVE  /\ IsSeq(csv'[ch]) /\ IsSeq(buffered'[ch]) /\ Logged(ch)' = Logged(ch)
                 /\ Blocks(Logged(ch), pc[ch])
      <4>1. PICK S : csv[ch] \o buffered[ch] \in Seq(S)
        BY Append2 DEF GInv, IsSeq
      <4>2. <<>> \in Seq(S)
        OBVIOUS
      <4>3. (csv[ch] \o buffered[ch]) \o <<>> = csv[ch] \o buffered[ch]
        BY <4>1
      <4>4. csv'[ch] = csv[ch] \o buffered[ch] /\ buffered'[ch] = <<>>
        BY <3>1
      <4> QED
        BY <3>1, <4>1, <4>2, <4>3, <4>4 DEF GInv, IsSeq, Logged
    <3> QED
      BY <3>1, <3>2 DEF GInv
  <2> QED
    BY <2>1, <2>2, <2>3, <2>4, <2>5 DEF Next
<1> QED
  BY <1>1, <1>2, PTL DEF Spec

(* The row of a command before another one.                                *)
LEMMA LastBefore ==
  ASSUME NEW rows \in SUBSET Nat, NEW i \in Nat, NEW k \in rows, k < i
  PROVE  LET p == Max({j \in rows : j < i})
         IN  p \in rows /\ p < i /\ \A j \in rows : j < i => j <= p
<1> DEFINE S == {j \in rows : j < i}
           D == {i - j : j \in S}
<1>1. D \in SUBSET Nat /\ D # {}
  <2>1. i - k \in D
    OBVIOUS
  <2>2. ASSUME NEW j \in S PROVE i - j \in Nat
    <3>1. j \in Nat /\ i \in Nat /\ j < i
      OBVIOUS
    <3> HIDE DEF S
    <3> QED
      BY <3>1
  <2> HIDE DEF S
  <2> QED
    BY <2>1, <2>2
<1>2. PICK x \in D : \A y \in D : <<y, x>> \notin OpToRel(<, Nat)
  BY <1>1, WFMin, NatLessThanWellFounded
<1>3. \A y \in D : ~(y < x)
  BY <1>1, <1>2 DEF OpToRel
<1>4. PICK p \in S : x = i - p
  BY <1>2
<1>5. \A j \in S : j <= p
  <2> TAKE j \in S
  <2>1. i - j \in D /\ i - j \in Nat /\ x \in Nat
    BY <1>1, <1>2
  <2>2. ~(i - j < i - p)
    BY <1>3, <1>4, <2>1
  <2>3. j \in Nat /\ p \in Nat
    OBVIOUS
  <2> HIDE DEF S, D
  <2> QED
    BY <2>2, <2>3
<1>6. Max(S) \in S /\ \A j \in S : j <= Max(S)
  <2> HIDE DEF S
  <2> QED
    BY <1>4, <1>5 DEF Max
<1> QED
  BY <1>6

(* The two scripts cut the log of a complete run into the same results,    *)
(* parse_rtl_events by the order of the banks, parse_csv by the cycle, for *)
(* any shape, number of channels and banks, and size of the log's buffer.  *)
THEOREM ParsersCutAlike == Spec => []ParsersAgree
<1>1. ASSUME GInv PROVE ParsersAgree
  <2> SUFFICES ASSUME phase \in {"parse", "done"}, NEW ch \in ChannelIds
               PROVE  parse_csv(ch, target_cmd) = parse_rtl_events(ch, target_cmd)
    BY DEF ParsersAgree
  <2> DEFINE rows == OfCommand(ch, target_cmd)
             log == csv[ch]
  <2>1. IsSeq(log) /\ buffered[ch] = <<>> /\ Blocks(Logged(ch), pc[ch])
    BY <1>1 DEF GInv
  <2>2. Logged(ch) = log /\ DOMAIN log = 1 .. Len(log) /\ Len(log) \in Nat
    <3>1. PICK S : log \in Seq(S)
      BY <2>1 DEF IsSeq
    <3> QED
      BY <2>1, <3>1 DEF Logged
  <2>3. Blocks(log, pc[ch])
    BY <2>1, <2>2
  <2>4. rows \in SUBSET Nat /\ \A i : i \in rows <=> i \in 1 .. Len(log) /\ log[i].command = target_cmd
    BY <2>2 DEF OfCommand
  <2> HIDE DEF rows
  <2>5. ASSUME NEW i \in rows, NEW k \in rows, k < i
        PROVE  log[i].bank <= Previous(ch, rows, i).bank <=> log[i].cycle # Previous(ch, rows, i).cycle
    <3> DEFINE p == Max({j \in rows : j < i})
    <3>1. p \in rows /\ p < i /\ \A j \in rows : j < i => j <= p
      BY <2>4, <2>5, LastBefore
    <3>2. Previous(ch, rows, i) = log[p]
      BY DEF Previous
    <3> HIDE DEF p, log
    <3>3. log[i].bank \in BankIds /\ log[p].bank \in BankIds /\ i \in Nat /\ p \in Nat
      BY <2>3, <2>4, <3>1 DEF Blocks
    <3>4. log[i].cycle = log[p].cycle => i - p = log[i].bank - log[p].bank
      BY <2>3, <2>4, <3>1 DEF Blocks
    <3>5. ASSUME log[i].cycle # log[p].cycle PROVE log[i].bank = 0
      <4> SUFFICES ASSUME log[i].bank > 0 PROVE FALSE
        BY <3>3, LayoutAssumption DEF BankIds
      <4> DEFINE b == log[i].bank - 1
      <4>1. b \in BankIds /\ i - log[i].bank + b = i - 1
        BY <3>3, LayoutAssumption DEF BankIds
      <4>2. LET j == i - log[i].bank + b
            IN  /\ j \in 1 .. Len(log) /\ log[j].bank = b
                /\ log[j].cycle = log[i].cycle /\ log[j].command = log[i].command
        BY <2>3, <2>4, <4>1 DEF Blocks
      <4>3. i - 1 \in rows /\ log[i - 1].cycle = log[i].cycle
        BY <2>4, <4>1, <4>2
      <4>4. i - 1 = p
        BY <3>1, <3>3, <4>3
      <4> QED
        BY <3>5, <4>3, <4>4
    <3> QED
      BY <3>1, <3>2, <3>3, <3>4, <3>5, LayoutAssumption DEF BankIds
  <2>6. {i \in rows : (\A j \in rows : i <= j) \/ log[i].bank <= Previous(ch, rows, i).bank}
          = {i \in rows : (\A j \in rows : i <= j) \/ log[i].cycle # Previous(ch, rows, i).cycle}
    <3>1. ASSUME NEW i \in rows
          PROVE  \/ \A j \in rows : i <= j
                 \/ log[i].bank <= Previous(ch, rows, i).bank <=>
                      log[i].cycle # Previous(ch, rows, i).cycle
      <4>1. ASSUME NEW j \in rows, ~(i <= j) PROVE j < i
        BY <2>4, <4>1
      <4> QED
        BY <2>5, <4>1
    <3> HIDE DEF log
    <3> QED
      BY <3>1
  <2> QED
    BY <2>6 DEF parse_csv, parse_rtl_events, rows
<1> QED
  BY <1>1, LogInvariant, PTL

---------------------------------------------------------------------------
(* Positions in a set that is listed without repetition.                   *)

(* A set listed without repetition has as many elements as the list, and   *)
(* this many of them come before the i-th.                                 *)
LEMMA Listed ==
  ASSUME NEW S, NEW n \in Nat, NEW f \in [1 .. n -> S],
         \A x \in S : \E i \in 1 .. n : f[i] = x,
         \A i, j \in 1 .. n : i # j => f[i] # f[j]
  PROVE  IsFiniteSet(S) /\ Cardinality(S) = n
<1>1. f \in Bijection(1 .. n, S)
  BY DEF Bijection, Injection, Surjection, IsInjective
<1> QED
  BY <1>1, FS_CountingElements, FS_NatBijection DEF ExistsBijection

(* A finite set of lines is in order if it is listed by increasing places. *)
LEMMA Ordered ==
  ASSUME NEW S, NEW n \in Nat, NEW f \in [1 .. n -> S],
         \A x \in S : \E i \in 1 .. n : f[i] = x,
         \A i \in 1 .. n : ~Before(f[i], f[i]),
         \A i, j \in 1 .. n : i < j => Before(f[i], f[j]) /\ ~Before(f[j], f[i])
  PROVE  InOrder(S) = f
<1>1. ASSUME NEW i \in 1 .. n, NEW j \in 1 .. n, i # j PROVE f[i] # f[j]
  <2>1. i < j \/ j < i
    BY <1>1
  <2> QED
    BY <2>1
<1>2. Cardinality(S) = n
  BY <1>1, Listed
<1> DEFINE Earlier(x) == {k \in S : Before(k, x)}
<1>3. ASSUME NEW i \in 1 .. n PROVE Cardinality(Earlier(f[i])) = i - 1
  <2> DEFINE g == [k \in 1 .. i - 1 |-> f[k]]
  <2>1. i - 1 \in Nat /\ \A k \in 1 .. i - 1 : k \in 1 .. n /\ k < i
    OBVIOUS
  <2>2. g \in [1 .. i - 1 -> Earlier(f[i])]
    BY <2>1
  <2>3. ASSUME NEW x \in Earlier(f[i]) PROVE \E k \in 1 .. i - 1 : g[k] = x
    <3>1. PICK k \in 1 .. n : f[k] = x
      OBVIOUS
    <3>2. ~(i < k) /\ k # i
      BY <3>1, <2>3
    <3>3. k \in 1 .. i - 1
      BY <3>2
    <3> QED
      BY <3>1, <3>3
  <2>4. \A k, l \in 1 .. i - 1 : k # l => g[k] # g[l]
    BY <1>1, <2>1
  <2> DEFINE m == i - 1
             E == Earlier(f[i])
  <2>5. m \in Nat /\ g \in [1 .. m -> E]
    BY <2>1, <2>2
  <2>7. \A x \in E : \E k \in 1 .. m : g[k] = x
    BY <2>3
  <2>8. \A k, l \in 1 .. m : k # l => g[k] # g[l]
    BY <2>4
  <2> HIDE DEF g, m, E
  <2>6. Cardinality(E) = m
    <3>1. g \in Bijection(1 .. m, E)
      BY <2>5, <2>7, <2>8 DEF Bijection, Injection, Surjection, IsInjective
    <3> QED
      BY <2>5, <3>1, FS_CountingElements DEF ExistsBijection
  <2> QED
    BY <2>6 DEF E, m
<1>4. ASSUME NEW i \in 1 .. n
      PROVE  (CHOOSE x \in S : Cardinality(Earlier(x)) = i - 1) = f[i]
  <2>1. ASSUME NEW x \in S, Cardinality(Earlier(x)) = i - 1 PROVE x = f[i]
    <3>1. PICK k \in 1 .. n : f[k] = x
      OBVIOUS
    <3>2. k - 1 = i - 1
      BY <1>3, <2>1, <3>1
    <3> QED
      BY <3>1, <3>2
  <2>2. f[i] \in S /\ Cardinality(Earlier(f[i])) = i - 1
    BY <1>3
  <2> HIDE DEF Earlier
  <2> QED
    BY <2>1, <2>2
<1>5. InOrder(S) = [i \in 1 .. n |-> CHOOSE x \in S : Cardinality(Earlier(x)) = i - 1]
  BY <1>2, Zenon DEF InOrder
<1> HIDE DEF Earlier
<1> QED
  BY <1>4, <1>5

(* The order of places, written out.                                       *)
LEMMA BeforeMeans ==
  ASSUME NEW k, NEW l, \A i \in 1 .. 4 : k.at[i] \in Int /\ l.at[i] \in Int
  PROVE  Before(k, l) <=>
           \/ k.at[1] < l.at[1]
           \/ k.at[1] = l.at[1] /\ k.at[2] < l.at[2]
           \/ k.at[1] = l.at[1] /\ k.at[2] = l.at[2] /\ k.at[3] < l.at[3]
           \/ k.at[1] = l.at[1] /\ k.at[2] = l.at[2] /\ k.at[3] = l.at[3] /\ k.at[4] < l.at[4]
<1> DEFINE a == k.at[1]
           b == k.at[2]
           c == k.at[3]
           d == k.at[4]
           p == l.at[1]
           q == l.at[2]
           s == l.at[3]
           t == l.at[4]
<1>1. /\ k.at[1] = a /\ k.at[2] = b /\ k.at[3] = c /\ k.at[4] = d
      /\ l.at[1] = p /\ l.at[2] = q /\ l.at[3] = s /\ l.at[4] = t
  OBVIOUS
<1>2. Before(k, l) <=> \/ a < p
                       \/ b < q /\ \A j \in 1 .. 1 : k.at[j] = l.at[j]
                       \/ c < s /\ \A j \in 1 .. 2 : k.at[j] = l.at[j]
                       \/ d < t /\ \A j \in 1 .. 3 : k.at[j] = l.at[j]
  <2>1. 1 .. 4 = {1, 2, 3, 4} /\ 1 .. (1 - 1) = {} /\ 2 - 1 = 1 /\ 3 - 1 = 2 /\ 4 - 1 = 3
    OBVIOUS
  <2> QED
    BY <1>1, <2>1 DEF Before
<1>3. 1 .. 1 = {1} /\ 1 .. 2 = {1, 2} /\ 1 .. 3 = {1, 2, 3}
  OBVIOUS
<1> QED
  BY <1>1, <1>2, <1>3

---------------------------------------------------------------------------
(* The groups of a channel.                                                *)

(* A row group's first output row of a channel.                            *)
First(ch, g) == g * (NUM_CHANNELS * NUM_BANKS) + ch * NUM_BANKS

(* How many groups have an output row in the channel.                      *)
GroupsOf(r, ch) == CHOOSE n \in Nat : \A g \in Nat : g < n <=> First(ch, g) < r

(* They are the groups up to some number.                                  *)
LEMMA GroupsCounted ==
  ASSUME NEW r \in Nat \ {0}, NEW ch \in ChannelIds
  PROVE  /\ GroupsOf(r, ch) \in Nat
         /\ \A g \in Nat : g < GroupsOf(r, ch) <=> First(ch, g) < r
<1> DEFINE cb == NUM_CHANNELS * NUM_BANKS
           k == ch * NUM_BANKS
           T == {g \in Nat : ~(First(ch, g) < r)}
<1>1. cb \in Nat \ {0}
  BY ProductPositive
<1>2. k \in Nat
  <2>1. ch \in Nat /\ NUM_BANKS \in Nat
    BY LayoutAssumption DEF ChannelIds
  <2> QED
    BY <2>1, SMT
<1>3. \A g \in Nat : First(ch, g) = g * cb + k
  BY DEF First
<1> HIDE DEF cb, k
<1>4. \A g \in Nat, h \in Nat : h <= g => h * cb <= g * cb
  BY <1>1, SMT
<1>5. \A g \in Nat : g * cb \in Nat
  BY <1>1, SMT
<1>6. r \in T
  <2>1. r * 1 <= r * cb
    BY <1>1, SMT
  <2>2. r * cb \in Nat /\ r \in Nat
    BY <1>5
  <2> QED
    BY <1>2, <1>3, <2>1, <2>2
<1>7. PICK n \in T : \A y \in T : <<y, n>> \notin OpToRel(<, Nat)
  <2>1. T \in SUBSET Nat /\ T # {}
    BY <1>6
  <2> HIDE DEF T
  <2> QED
    BY <2>1, WFMin, NatLessThanWellFounded
<1>8. \A g \in Nat : g < n <=> First(ch, g) < r
  <2> TAKE g \in Nat
  <2>1. n \in Nat /\ ~(First(ch, n) < r)
    BY <1>7
  <2>2. g < n => First(ch, g) < r
    BY <1>7, <2>1 DEF OpToRel
  <2>3. ASSUME First(ch, g) < r, ~(g < n) PROVE FALSE
    <3>1. n * cb <= g * cb /\ n * cb \in Nat /\ g * cb \in Nat
      BY <1>4, <1>5, <2>1, <2>3
    <3> QED
      BY <1>2, <1>3, <2>1, <2>3, <3>1
  <2> QED
    BY <2>2, <2>3
<1>9. n \in Nat
  BY <1>7
<1> QED
  BY <1>8, <1>9 DEF GroupsOf

(* A physical row of a group in a channel has an output row if the group   *)
(* has one, and is the group's row in that channel.                        *)
LEMMA RowOfGroup ==
  ASSUME NEW r \in Nat \ {0}, NEW ch \in ChannelIds
  PROVE  /\ \A g \in DOMAIN physical_rows_by_group(r), x \in Int :
              x \in physical_rows_by_group(r)[g] /\ x % NUM_CHANNELS = ch =>
                g \in Nat /\ g < GroupsOf(r, ch) /\ x = g * NUM_CHANNELS + ch
         /\ \A g \in Nat : g < GroupsOf(r, ch) =>
              /\ g \in DOMAIN physical_rows_by_group(r)
              /\ g * NUM_CHANNELS + ch \in physical_rows_by_group(r)[g]
              /\ g * NUM_CHANNELS + ch \in Nat
              /\ (g * NUM_CHANNELS + ch) % NUM_CHANNELS = ch
              /\ (g * NUM_CHANNELS + ch) \div NUM_CHANNELS = g
         /\ row_sharded_groups_by_channel(r)[ch] = 0 .. GroupsOf(r, ch) - 1
         /\ \A row \in 0 .. r - 1 :
              output_location(row).channel = ch => output_location(row).group < GroupsOf(r, ch)
<1> DEFINE locs == {output_location(row) : row \in 0 .. r - 1}
           n == GroupsOf(r, ch)
<1>1. n \in Nat /\ \A g \in Nat : g < n <=> First(ch, g) < r
  BY GroupsCounted
<1> HIDE DEF n
<1>2. ASSUME NEW row \in 0 .. r - 1
      PROVE  LET l == output_location(row)
             IN  /\ l.group \in Nat /\ l.channel \in ChannelIds
                 /\ l.physical_row = l.group * NUM_CHANNELS + l.channel
                 /\ l.physical_row % NUM_CHANNELS = l.channel
                 /\ l.channel = ch => l.group < n
  <2> DEFINE l == output_location(row)
  <2>1. /\ row \in Nat /\ l.group \in Nat /\ l.channel \in ChannelIds /\ l.bank \in BankIds
        /\ l.physical_row % NUM_CHANNELS = l.channel
    BY LocationType, RowIsWhereItRuns
  <2>2. l.physical_row = l.group * NUM_CHANNELS + l.channel
    BY DEF output_location
  <2>3. output_row(l.bank, l.physical_row) = row
    BY <2>1, ParserFindsTheRow
  <2> HIDE DEF l
  <2>4. (l.group * NUM_CHANNELS + l.channel) \div NUM_CHANNELS = l.group
    BY <2>1, LayoutAssumption, DivModUnique DEF ChannelIds
  <2>5. row = First(l.channel, l.group) + l.bank
    BY <2>1, <2>2, <2>3, <2>4 DEF output_row, First
  <2>6. First(l.channel, l.group) \in Nat
    <3>1. l.group * (NUM_CHANNELS * NUM_BANKS) \in Nat /\ l.channel * NUM_BANKS \in Nat
      <4>1. \A a \in Nat, b \in Nat : a * b \in Nat
        BY SMT
      <4> QED
        BY <2>1, <4>1, ProductPositive, LayoutAssumption DEF ChannelIds
    <3> QED
      BY <3>1 DEF First
  <2>7. First(l.channel, l.group) < r
    BY <2>1, <2>5, <2>6 DEF BankIds
  <2> QED
    BY <1>1, <2>1, <2>2, <2>7 DEF l
<1>3. ASSUME NEW g \in Nat, g < n
      PROVE  /\ First(ch, g) \in 0 .. r - 1
             /\ output_location(First(ch, g)).group = g
             /\ output_location(First(ch, g)).channel = ch
             /\ output_location(First(ch, g)).physical_row = g * NUM_CHANNELS + ch
             /\ g * NUM_CHANNELS + ch \in Nat
             /\ (g * NUM_CHANNELS + ch) % NUM_CHANNELS = ch
             /\ (g * NUM_CHANNELS + ch) \div NUM_CHANNELS = g
  <2> DEFINE x == g * NUM_CHANNELS + ch
  <2>1. x \in Nat /\ x \div NUM_CHANNELS = g /\ x % NUM_CHANNELS = ch /\ 0 \in BankIds
    <3>1. x \div NUM_CHANNELS = g /\ x % NUM_CHANNELS = ch
      BY LayoutAssumption, DivModUnique DEF ChannelIds
    <3>2. g * NUM_CHANNELS \in Nat
      BY LayoutAssumption, SMT
    <3> QED
      BY <3>1, <3>2, LayoutAssumption DEF ChannelIds, BankIds
  <2> HIDE DEF x
  <2>2. output_row(0, x) \in Nat /\ output_location(output_row(0, x)) =
          [group |-> x \div NUM_CHANNELS, channel |-> x % NUM_CHANNELS,
           bank |-> 0, physical_row |-> x]
    BY <2>1, PlaceHasOneRow
  <2>3. output_row(0, x) = First(ch, g) + 0
    BY <2>1 DEF output_row, First
  <2>4. First(ch, g) + 0 = First(ch, g)
    <3>1. First(ch, g) \in Int
      BY GroupsCounted, <1>1, <1>3, LayoutAssumption, SMT DEF First, ChannelIds
    <3> QED
      BY <3>1
  <2>5. First(ch, g) < r /\ First(ch, g) \in Nat
    BY <1>1, <1>3, <2>2, <2>3, <2>4
  <2>6. First(ch, g) \in 0 .. r - 1
    BY <2>5
  <2> QED
    BY <2>1, <2>2, <2>3, <2>4, <2>6 DEF x
<1>4. physical_rows_by_group(r) =
        [g \in {l.group : l \in locs} |-> {l.physical_row : l \in {x \in locs : x.group = g}}]
  BY DEF physical_rows_by_group
<1>5. row_sharded_groups_by_channel(r)[ch] = {l.group : l \in {x \in locs : x.channel = ch}}
  BY DEF row_sharded_groups_by_channel
<1>6. ASSUME NEW g \in DOMAIN physical_rows_by_group(r), NEW x \in physical_rows_by_group(r)[g],
             x % NUM_CHANNELS = ch
      PROVE  g \in Nat /\ g < n /\ x = g * NUM_CHANNELS + ch
  <2>1. PICK row \in 0 .. r - 1 : output_location(row).group = g /\ output_location(row).physical_row = x
    BY <1>4
  <2> QED
    BY <1>2, <1>6, <2>1
<1>7. ASSUME NEW g \in Nat, g < n
      PROVE  g \in DOMAIN physical_rows_by_group(r) /\ g * NUM_CHANNELS + ch \in physical_rows_by_group(r)[g]
  <2>1. output_location(First(ch, g)) \in locs
    BY <1>3, <1>7
  <2> HIDE DEF locs
  <2> QED
    BY <1>3, <1>4, <1>7, <2>1
<1>8. row_sharded_groups_by_channel(r)[ch] = 0 .. n - 1
  <2>1. ASSUME NEW g \in row_sharded_groups_by_channel(r)[ch] PROVE g \in 0 .. n - 1
    <3>1. PICK row \in 0 .. r - 1 : output_location(row).group = g /\ output_location(row).channel = ch
      BY <1>5
    <3>2. g \in Nat /\ g < n
      BY <1>2, <3>1
    <3> QED
      BY <1>1, <3>2
  <2>2. ASSUME NEW g \in 0 .. n - 1 PROVE g \in row_sharded_groups_by_channel(r)[ch]
    <3>1. g \in Nat /\ g < n
      BY <1>1
    <3>2. output_location(First(ch, g)) \in locs
      BY <1>3, <3>1
    <3> HIDE DEF locs
    <3> QED
      BY <1>3, <1>5, <3>1, <3>2
  <2> QED
    BY <2>1, <2>2
<1> QED
  BY <1>2, <1>3, <1>6, <1>7, <1>8 DEF n

---------------------------------------------------------------------------
(* The program of a channel.                                               *)

(* What the assumption on the runs says of the one that is looked at.      *)
LEMMA JobFacts ==
  ASSUME job \in Jobs
  PROVE  /\ job.kind \in {"broadcast", "row_sharded", "batch", "matmul"}
         /\ job.output_stage \in {"pre_activation", "post_activation"}
         /\ job.r \in Nat \ {0} /\ job.tiles_q \in Nat /\ job.token_count \in Nat
         /\ job.kind # "batch" => job.token_count = 1
BY GemvAssumption DEF JobType

(* The commands of one result, and how many there are.                     *)
K == IF job.output_stage = "post_activation" THEN 5 ELSE 4

(* The commands of a result, one by one.                                   *)
LEMMA OpsAre ==
  ASSUME NEW load
  PROVE  /\ DOMAIN Ops(load) = 1 .. K
         /\ Ops(load)[1] = "WR_BIAS" /\ Ops(load)[2] = load /\ Ops(load)[3] = "MAC_ABK"
         /\ job.output_stage = "post_activation" => Ops(load)[4] = "AF" /\ Ops(load)[5] = "RD_AF"
         /\ job.output_stage # "post_activation" => Ops(load)[4] = "RD_MAC"
<1>1. CASE job.output_stage = "post_activation"
  <2> DEFINE s == <<"WR_BIAS", load, "MAC_ABK">>
             t == <<"AF", "RD_AF">>
  <2>1. Ops(load) = s \o t
    BY <1>1, Zenon DEF Ops
  <2>2. s \in Seq({"WR_BIAS", load, "MAC_ABK"}) /\ t \in Seq({"AF", "RD_AF"})
    OBVIOUS
  <2>3. Len(s) = 3 /\ s[1] = "WR_BIAS" /\ s[2] = load /\ s[3] = "MAC_ABK"
    OBVIOUS
  <2>4. Len(t) = 2 /\ t[1] = "AF" /\ t[2] = "RD_AF"
    OBVIOUS
  <2> HIDE DEF s, t
  <2>5. IsSeq(s) /\ IsSeq(t)
    BY <2>2 DEF IsSeq
  <2>6. /\ Len(s \o t) = 5 /\ DOMAIN (s \o t) = 1 .. Len(s \o t)
        /\ \A i \in 1 .. 3 : (s \o t)[i] = s[i]
        /\ \A i \in 1 .. 2 : (s \o t)[3 + i] = t[i]
    <3>1. IsSeq(s \o t) /\ Len(s \o t) = Len(s) + Len(t)
      BY <2>5, Append2
    <3>2. DOMAIN (s \o t) = 1 .. Len(s \o t)
      BY <3>1 DEF IsSeq
    <3> QED
      <4>1. /\ \A i \in 1 .. Len(s) : (s \o t)[i] = s[i]
            /\ \A i \in 1 .. Len(t) : (s \o t)[Len(s) + i] = t[i]
        BY <2>5, Append2
      <4> QED
        BY <2>3, <2>4, <3>1, <3>2, <4>1
  <2>7. (s \o t)[4] = t[1] /\ (s \o t)[5] = t[2] /\ (s \o t)[1] = s[1] /\ (s \o t)[2] = s[2] /\ (s \o t)[3] = s[3]
    BY <2>6
  <2> QED
    BY <1>1, <2>1, <2>3, <2>4, <2>6, <2>7 DEF K
<1>2. CASE job.output_stage # "post_activation"
  <2> DEFINE s == <<"WR_BIAS", load, "MAC_ABK">>
             t == <<"RD_MAC">>
  <2>1. Ops(load) = s \o t
    BY <1>2, Zenon DEF Ops
  <2>2. s \in Seq({"WR_BIAS", load, "MAC_ABK"}) /\ t \in Seq({"RD_MAC"})
    OBVIOUS
  <2>3. Len(s) = 3 /\ s[1] = "WR_BIAS" /\ s[2] = load /\ s[3] = "MAC_ABK"
    OBVIOUS
  <2>4. Len(t) = 1 /\ t[1] = "RD_MAC"
    OBVIOUS
  <2> HIDE DEF s, t
  <2>5. IsSeq(s) /\ IsSeq(t)
    BY <2>2 DEF IsSeq
  <2>6. /\ Len(s \o t) = 4 /\ DOMAIN (s \o t) = 1 .. Len(s \o t)
        /\ \A i \in 1 .. 3 : (s \o t)[i] = s[i]
        /\ \A i \in 1 .. 1 : (s \o t)[3 + i] = t[i]
    <3>1. IsSeq(s \o t) /\ Len(s \o t) = Len(s) + Len(t)
      BY <2>5, Append2
    <3>2. DOMAIN (s \o t) = 1 .. Len(s \o t)
      BY <3>1 DEF IsSeq
    <3> QED
      <4>1. /\ \A i \in 1 .. Len(s) : (s \o t)[i] = s[i]
            /\ \A i \in 1 .. Len(t) : (s \o t)[Len(s) + i] = t[i]
        BY <2>5, Append2
      <4> QED
        BY <2>3, <2>4, <3>1, <3>2, <4>1
  <2>7. (s \o t)[4] = t[1] /\ (s \o t)[1] = s[1] /\ (s \o t)[2] = s[2] /\ (s \o t)[3] = s[3]
    BY <2>6
  <2> QED
    BY <1>2, <2>1, <2>3, <2>4, <2>6, <2>7 DEF K
<1> QED
  BY <1>1, <1>2

(* Results per token and channel, and where the g-th of them is computed.  *)
Count(ch) == IF Sharded THEN GroupsOf(job.r, ch) ELSE job.r
PhysRow(ch, g) == IF Sharded THEN g * NUM_CHANNELS + ch ELSE g
Load == IF job.kind = "batch" THEN "COPY_BKGB" ELSE "WR_GB"

LineAt(ch, n, g, o) ==
  Line(<<n, g, o, PhysRow(ch, g)>>, Ops(Load)[o],
       IF Sharded THEN channel_mask_for(ch) ELSE AllChannels,
       IF job.kind = "batch" /\ o = 2 THEN vector_row_base(job.r) + n * NUM_CHANNELS + ch
                                      ELSE PhysRow(ch, g))

(* Result m of a channel is that of row g = m % Count for token m / Count. *)
ProgramOf(ch) ==
  [i \in 1 .. (job.token_count * Count(ch)) * K |->
     LineAt(ch, ((i - 1) \div K) \div Count(ch), ((i - 1) \div K) % Count(ch), ((i - 1) % K) + 1)]

(* The command o of a row group's row of a channel.                        *)
GroupLine(ch, n, load, v, g, o) ==
  Line(<<n, g, o, g * NUM_CHANNELS + ch>>, Ops(load)[o], channel_mask_for(ch),
       IF Ops(load)[o] = "COPY_BKGB" THEN v[ch] ELSE g * NUM_CHANNELS + ch)

(* The same of any physical row, as the trace is written.                  *)
WrittenLine(n, load, v, g, o, x) ==
  Line(<<n, g, o, x>>, Ops(load)[o], channel_mask_for(x % NUM_CHANNELS),
       IF Ops(load)[o] = "COPY_BKGB" THEN v[x % NUM_CHANNELS] ELSE x)

(* The lines of a row-sharded trace that reach a channel are those of its  *)
(* own row of every group that has an output row in the channel.           *)
LEMMA GroupLines ==
  ASSUME job \in Jobs, NEW ch \in ChannelIds, NEW n, NEW load, NEW v
  PROVE  /\ \A l \in group_trace(n, load, v) : ch \in FindChannels(l.mask) =>
              \E g \in 0 .. GroupsOf(job.r, ch) - 1, o \in 1 .. K : l = GroupLine(ch, n, load, v, g, o)
         /\ \A g \in 0 .. GroupsOf(job.r, ch) - 1, o \in 1 .. K :
              LET l == GroupLine(ch, n, load, v, g, o)
              IN  l \in group_trace(n, load, v) /\ ch \in FindChannels(l.mask)
<1> DEFINE rows == physical_rows_by_group(job.r)
           c == GroupsOf(job.r, ch)
<1>1. \A l : l \in group_trace(n, load, v) <=>
              \E g \in DOMAIN rows : \E o \in 1 .. K, x \in rows[g] : l = WrittenLine(n, load, v, g, o, x)
  <2>1. DOMAIN Ops(load) = 1 .. K
    BY OpsAre
  <2> HIDE DEF rows
  <2>2. \A l : l \in group_trace(n, load, v) <=>
          \E g \in DOMAIN rows : \E o \in DOMAIN Ops(load), x \in rows[g] : l = WrittenLine(n, load, v, g, o, x)
    <3> DEFINE Arg(op, x) == IF op = "COPY_BKGB" THEN v[x % NUM_CHANNELS] ELSE x
    <3>1. group_trace(n, load, v)
            = UNION {{Line(<<n, g, o, x>>, Ops(load)[o], channel_mask_for(x % NUM_CHANNELS), Arg(Ops(load)[o], x)) :
                        o \in DOMAIN Ops(load), x \in rows[g]} : g \in DOMAIN rows}
      BY DEF group_trace, rows
    <3>2. group_trace(n, load, v)
            = UNION {{WrittenLine(n, load, v, gg, oo, xx) : oo \in DOMAIN Ops(load), xx \in rows[gg]} : gg \in DOMAIN rows}
      BY <3>1 DEF WrittenLine
    <3> QED
      BY <3>2
  <2> QED
    BY <2>1, <2>2
<1>2. c \in Nat
  BY JobFacts, GroupsCounted
<1>3. \A g \in DOMAIN rows : rows[g] \in SUBSET Nat
  <2> TAKE g \in DOMAIN rows
  <2>1. \A row \in 0 .. job.r - 1 : output_location(row).physical_row \in Nat
    BY JobFacts, LocationType
  <2> DEFINE locs == {output_location(row) : row \in 0 .. job.r - 1}
  <2>2. rows = [h \in {l.group : l \in locs} |-> {l.physical_row : l \in {x \in locs : x.group = h}}]
    BY DEF physical_rows_by_group
  <2> HIDE DEF rows
  <2> QED
    BY <2>1, <2>2
<1>4. \A x \in Nat : x % NUM_CHANNELS \in ChannelIds
  BY LayoutAssumption, DivMod DEF ChannelIds
<1>5. ASSUME NEW g, NEW o, NEW x \in Nat
      PROVE  ch \in FindChannels(WrittenLine(n, load, v, g, o, x).mask) <=> x % NUM_CHANNELS = ch
  <2>1. WrittenLine(n, load, v, g, o, x).mask = channel_mask_for(x % NUM_CHANNELS)
    BY DEF WrittenLine, Line
  <2>2. FindChannels(channel_mask_for(x % NUM_CHANNELS)) = {x % NUM_CHANNELS}
    BY <1>4, MaskReachesItsChannel
  <2> QED
    BY <2>1, <2>2
<1>6. ASSUME NEW g, NEW o, (g * NUM_CHANNELS + ch) % NUM_CHANNELS = ch
      PROVE  WrittenLine(n, load, v, g, o, g * NUM_CHANNELS + ch) = GroupLine(ch, n, load, v, g, o)
  BY <1>6, Zenon DEF WrittenLine, GroupLine
<1>7. /\ \A g \in DOMAIN rows, x \in Int :
           x \in rows[g] /\ x % NUM_CHANNELS = ch => g \in Nat /\ g < c /\ x = g * NUM_CHANNELS + ch
      /\ \A g \in Nat : g < c =>
           /\ g \in DOMAIN rows /\ g * NUM_CHANNELS + ch \in rows[g]
           /\ g * NUM_CHANNELS + ch \in Nat /\ (g * NUM_CHANNELS + ch) % NUM_CHANNELS = ch
  BY JobFacts, RowOfGroup
<1> HIDE DEF rows, c
<1>8. ASSUME NEW l \in group_trace(n, load, v), ch \in FindChannels(l.mask)
      PROVE  \E g \in 0 .. c - 1, o \in 1 .. K : l = GroupLine(ch, n, load, v, g, o)
  <2>1. PICK g \in DOMAIN rows : \E o \in 1 .. K, x \in rows[g] : l = WrittenLine(n, load, v, g, o, x)
    BY <1>1
  <2>7. PICK o \in 1 .. K, x \in rows[g] : l = WrittenLine(n, load, v, g, o, x)
    BY <2>1
  <2>2. x \in Nat
    BY <1>3
  <2>3. x % NUM_CHANNELS = ch
    BY <1>5, <1>8, <2>7, <2>2
  <2>4. g \in Nat /\ g < c /\ x = g * NUM_CHANNELS + ch
    BY <1>7, <2>2, <2>3
  <2>5. l = GroupLine(ch, n, load, v, g, o)
    BY <1>6, <2>7, <2>3, <2>4
  <2>6. g \in 0 .. c - 1
    BY <1>2, <2>4
  <2> QED
    BY <2>5, <2>6
<1>9. ASSUME NEW g \in 0 .. c - 1, NEW o \in 1 .. K
      PROVE  LET l == GroupLine(ch, n, load, v, g, o)
             IN  l \in group_trace(n, load, v) /\ ch \in FindChannels(l.mask)
  <2> DEFINE x == g * NUM_CHANNELS + ch
  <2>1. g \in Nat /\ g < c
    BY <1>2
  <2>2. g \in DOMAIN rows /\ x \in rows[g] /\ x \in Nat /\ x % NUM_CHANNELS = ch
    BY <1>7, <2>1
  <2>3. WrittenLine(n, load, v, g, o, x) = GroupLine(ch, n, load, v, g, o)
    BY <1>6, <2>2
  <2> HIDE DEF x
  <2>4. WrittenLine(n, load, v, g, o, x) \in group_trace(n, load, v)
    BY <1>1, <2>2
  <2>5. ch \in FindChannels(WrittenLine(n, load, v, g, o, x).mask)
    BY <1>5, <2>2
  <2> QED
    BY <2>3, <2>4, <2>5
<1> QED
  BY <1>8, <1>9 DEF c

(* What the memory system sends a channel of the trace.                    *)
LEMMA LinesOfChannel ==
  ASSUME job \in Jobs, NEW ch \in ChannelIds
  PROVE  /\ \A l \in Trace : ch \in FindChannels(l.mask) =>
              \E n \in Tokens, g \in 0 .. Count(ch) - 1, o \in 1 .. K : l = LineAt(ch, n, g, o)
         /\ \A n \in Tokens, g \in 0 .. Count(ch) - 1, o \in 1 .. K :
              LineAt(ch, n, g, o) \in Trace /\ ch \in FindChannels(LineAt(ch, n, g, o).mask)
<1>1. CASE ~Sharded
  <2>1. Trace = broadcast_trace
    BY <1>1, JobFacts DEF Sharded, Trace, generate_trace, write_trace
  <2>2. ch \in FindChannels(AllChannels)
    <3>1. NUM_CHANNELS - 1 - ch \in ChannelIds /\ ch = NUM_CHANNELS - 1 - (NUM_CHANNELS - 1 - ch)
      BY LayoutAssumption DEF ChannelIds
    <3> QED
      BY <3>1 DEF FindChannels, AllChannels
  <2>3. ASSUME NEW n, NEW g, NEW o
        PROVE  LineAt(ch, n, g, o) = Line(<<n, g, o, g>>, Ops("WR_GB")[o], AllChannels, g)
    BY <1>1 DEF LineAt, PhysRow, Load, Sharded
  <2>4. ASSUME NEW n, NEW g, NEW o
        PROVE  LineAt(ch, n, g, o).mask = AllChannels
    BY <2>3 DEF Line
  <2>5. \A l : l \in broadcast_trace <=>
          \E n \in Tokens, g \in 0 .. job.r - 1, o \in 1 .. K :
            l = Line(<<n, g, o, g>>, Ops("WR_GB")[o], AllChannels, g)
    <3>1. DOMAIN Ops("WR_GB") = 1 .. K
      BY OpsAre
    <3> QED
      <4>1. broadcast_trace = {Line(<<n, row, o, row>>, Ops("WR_GB")[o], AllChannels, row) :
                                 n \in Tokens, row \in 0 .. job.r - 1, o \in DOMAIN Ops("WR_GB")}
        BY DEF broadcast_trace
      <4> DEFINE F(n, g, o) == Line(<<n, g, o, g>>, Ops("WR_GB")[o], AllChannels, g)
      <4>2. broadcast_trace = {F(nn, gg, oo) : nn \in Tokens, gg \in 0 .. job.r - 1, oo \in DOMAIN Ops("WR_GB")}
        BY <4>1
      <4>3. ASSUME NEW n, NEW g, NEW o
            PROVE  F(n, g, o) = Line(<<n, g, o, g>>, Ops("WR_GB")[o], AllChannels, g)
        OBVIOUS
      <4> HIDE DEF F
      <4>4. \A l : l \in broadcast_trace <=> \E n \in Tokens, g \in 0 .. job.r - 1, o \in DOMAIN Ops("WR_GB") : l = F(n, g, o)
        BY <4>2
      <4> QED
        BY <3>1, <4>3, <4>4
  <2>6. Count(ch) = job.r
    BY <1>1 DEF Count
  <2>7. ASSUME NEW l \in Trace
        PROVE  \E n \in Tokens, g \in 0 .. Count(ch) - 1, o \in 1 .. K : l = LineAt(ch, n, g, o)
    <3>1. PICK n \in Tokens, g \in 0 .. job.r - 1, o \in 1 .. K :
            l = Line(<<n, g, o, g>>, Ops("WR_GB")[o], AllChannels, g)
      BY <2>1, <2>5
    <3> QED
      BY <2>3, <2>6, <3>1
  <2>8. ASSUME NEW n \in Tokens, NEW g \in 0 .. Count(ch) - 1, NEW o \in 1 .. K
        PROVE  LineAt(ch, n, g, o) \in Trace
    <3>1. Line(<<n, g, o, g>>, Ops("WR_GB")[o], AllChannels, g) \in broadcast_trace
      BY <2>5, <2>6
    <3> QED
      BY <2>1, <2>3, <3>1
  <2> QED
    BY <2>2, <2>4, <2>7, <2>8
<1>2. CASE Sharded
  <2>1. Count(ch) = GroupsOf(job.r, ch)
    BY <1>2 DEF Count
  <2>3. CASE job.kind = "batch"
    <3> DEFINE v(m) == [c \in ChannelIds |-> vector_row_base(job.r) + m * NUM_CHANNELS + c]
    <3>1. Trace = UNION {group_trace(nn, "COPY_BKGB", v(nn)) : nn \in Tokens}
      BY <2>3 DEF Trace, write_batch_token_trace
    <3>2. ASSUME NEW n, NEW g, NEW o \in 1 .. K
          PROVE  GroupLine(ch, n, "COPY_BKGB", v(n), g, o) = LineAt(ch, n, g, o)
      <4>1. Ops("COPY_BKGB")[o] = "COPY_BKGB" <=> o = 2
        <5>1. o \in {1, 2, 3, 4, 5} /\ (o = 5 => job.output_stage = "post_activation")
          BY DEF K
        <5> QED
          BY <5>1, OpsAre
      <4>2. v(n)[ch] = vector_row_base(job.r) + n * NUM_CHANNELS + ch
        OBVIOUS
      <4> HIDE DEF v
      <4> QED
        BY <1>2, <2>3, <4>1, <4>2, Zenon DEF GroupLine, LineAt, PhysRow, Load
    <3> HIDE DEF v
    <3>3. ASSUME NEW l \in Trace, ch \in FindChannels(l.mask)
          PROVE  \E n \in Tokens, g \in 0 .. Count(ch) - 1, o \in 1 .. K : l = LineAt(ch, n, g, o)
      <4>1. PICK n \in Tokens : l \in group_trace(n, "COPY_BKGB", v(n))
        BY <3>1
      <4>2. PICK g \in 0 .. Count(ch) - 1, o \in 1 .. K : l = GroupLine(ch, n, "COPY_BKGB", v(n), g, o)
        BY <2>1, <3>3, <4>1, GroupLines
      <4> QED
        BY <3>2, <4>1, <4>2
    <3>4. ASSUME NEW n \in Tokens, NEW g \in 0 .. Count(ch) - 1, NEW o \in 1 .. K
          PROVE  LineAt(ch, n, g, o) \in Trace /\ ch \in FindChannels(LineAt(ch, n, g, o).mask)
      <4>1. LET l == GroupLine(ch, n, "COPY_BKGB", v(n), g, o)
            IN  l \in group_trace(n, "COPY_BKGB", v(n)) /\ ch \in FindChannels(l.mask)
        BY <2>1, GroupLines
      <4>2. GroupLine(ch, n, "COPY_BKGB", v(n), g, o) = LineAt(ch, n, g, o)
        BY <3>2
      <4> QED
        BY <3>1, <4>1, <4>2
    <3> QED
      BY <3>3, <3>4
  <2>4. CASE job.kind # "batch"
    <3> DEFINE w == [c \in ChannelIds |-> -1]
    <3>1. job.kind = "row_sharded" /\ Tokens = {0}
      BY <1>2, <2>4, JobFacts DEF Sharded, Tokens
    <3>2. Trace = group_trace(0, "WR_GB", w)
      BY <3>1 DEF Trace, write_trace
    <3>3. ASSUME NEW g, NEW o \in 1 .. K
          PROVE  GroupLine(ch, 0, "WR_GB", w, g, o) = LineAt(ch, 0, g, o)
      <4>1. Ops("WR_GB")[o] # "COPY_BKGB"
        <5>1. o \in {1, 2, 3, 4, 5} /\ (o = 5 => job.output_stage = "post_activation")
          BY DEF K
        <5> QED
          BY <5>1, OpsAre
      <4> HIDE DEF w
      <4> QED
        BY <1>2, <2>4, <4>1, Zenon DEF GroupLine, LineAt, PhysRow, Load
    <3> HIDE DEF w
    <3>4. ASSUME NEW l \in Trace, ch \in FindChannels(l.mask)
          PROVE  \E n \in Tokens, g \in 0 .. Count(ch) - 1, o \in 1 .. K : l = LineAt(ch, n, g, o)
      <4>1. PICK g \in 0 .. Count(ch) - 1, o \in 1 .. K : l = GroupLine(ch, 0, "WR_GB", w, g, o)
        BY <2>1, <3>2, <3>4, GroupLines
      <4> QED
        BY <3>1, <3>3, <4>1
    <3>5. ASSUME NEW n \in Tokens, NEW g \in 0 .. Count(ch) - 1, NEW o \in 1 .. K
          PROVE  LineAt(ch, n, g, o) \in Trace /\ ch \in FindChannels(LineAt(ch, n, g, o).mask)
      <4>1. LET l == GroupLine(ch, 0, "WR_GB", w, g, o)
            IN  l \in group_trace(0, "WR_GB", w) /\ ch \in FindChannels(l.mask)
        BY <2>1, GroupLines
      <4> QED
        BY <3>1, <3>2, <3>3, <4>1
    <3> QED
      BY <3>4, <3>5
  <2> QED
    BY <2>3, <2>4
<1> QED
  BY <1>1, <1>2

(* Numbers below a product are pairs of numbers below its factors, and in  *)
(* the lexicographic order of these pairs.                                 *)
LEMMA PairOfNumber ==
  ASSUME NEW a \in Nat, NEW m \in Nat \ {0}, NEW i \in Nat, i < a * m
  PROVE  i \div m \in 0 .. a - 1 /\ i % m \in 0 .. m - 1
<1> DEFINE q == i \div m
           k == i % m
<1>1. q \in Nat /\ k \in 0 .. m - 1 /\ i = m * q + k
  BY DivMod
<1> HIDE DEF q, k
<1>2. ASSUME q >= a PROVE FALSE
  <2>1. m * q >= m * a /\ m * a = a * m /\ m * q \in Nat /\ m * a \in Nat
    BY <1>1, <1>2, SMT
  <2> QED
    BY <1>1, <2>1
<1>3. q < a
  BY <1>1, <1>2
<1> QED
  BY <1>1, <1>3 DEF q, k

(* Conversely for the number of a pair.                                    *)
LEMMA NumberOfPair ==
  ASSUME NEW a \in Nat, NEW m \in Nat \ {0}, NEW q \in 0 .. a - 1, NEW k \in 0 .. m - 1
  PROVE  /\ q * m + k \in Nat /\ q * m + k < a * m
         /\ (q * m + k) \div m = q /\ (q * m + k) % m = k
<1>1. q \in Nat /\ q <= a - 1
  OBVIOUS
<1>2. q * m \in Nat /\ q * m <= (a - 1) * m /\ (a - 1) * m = a * m - m /\ a * m \in Nat
  BY <1>1, SMT
<1>3. (q * m + k) \div m = q /\ (q * m + k) % m = k
  BY <1>1, DivModUnique
<1> DEFINE p == q * m
           s == a * m
<1>4. p \in Nat /\ p <= s - m /\ s \in Nat
  BY <1>2
<1> HIDE DEF p, s
<1>5. p + k \in Nat /\ p + k < s
  BY <1>4
<1> QED
  BY <1>3, <1>5 DEF p, s

(* A later number has a later pair.                                        *)
LEMMA PairsInOrder ==
  ASSUME NEW m \in Nat \ {0}, NEW i \in Nat, NEW j \in Nat, i < j
  PROVE  i \div m < j \div m \/ (i \div m = j \div m /\ i % m < j % m)
<1> DEFINE p == i \div m
           q == j \div m
           k == i % m
           l == j % m
<1>1. /\ p \in Nat /\ k \in 0 .. m - 1 /\ i = m * p + k
      /\ q \in Nat /\ l \in 0 .. m - 1 /\ j = m * q + l
  BY DivMod
<1>2. p <= q
  BY DivMonotone
<1> HIDE DEF p, q, k, l
<1>3. p = q => k < l
  BY <1>1
<1> QED
  BY <1>1, <1>2, <1>3 DEF p, q, k, l

(* The lines of the trace that reach a channel, in the order in which they *)
(* are written, are its results one after another, each with all of its    *)
(* commands.                                                               *)
LEMMA ProgramShape ==
  ASSUME job \in Jobs, NEW ch \in ChannelIds
  PROVE  InOrder({l \in Trace : ch \in FindChannels(l.mask)}) = ProgramOf(ch)
<1> DEFINE S == {l \in Trace : ch \in FindChannels(l.mask)}
           c == Count(ch)
           T == job.token_count
           N == (T * c) * K
           M(i) == (i - 1) \div K
           n(i) == M(i) \div c
           g(i) == M(i) % c
           o(i) == ((i - 1) % K) + 1
           f == ProgramOf(ch)
<1>1. c \in Nat /\ T \in Nat /\ K \in Nat \ {0}
  BY JobFacts, GroupsCounted DEF Count, K
<1>2. T * c \in Nat /\ N \in Nat
  <2>1. \A a \in Nat, b \in Nat : a * b \in Nat
    BY SMT
  <2> QED
    BY <1>1, <2>1
<1>3. \A i \in 1 .. N : f[i] = LineAt(ch, n(i), g(i), o(i))
  BY DEF ProgramOf
<1>4. DOMAIN f = 1 .. N /\ f = [i \in 1 .. N |-> LineAt(ch, n(i), g(i), o(i))]
  BY DEF ProgramOf
<1>5. Tokens = 0 .. T - 1
  BY DEF Tokens
<1>6. ASSUME NEW i \in 1 .. N
      PROVE  /\ M(i) \in 0 .. T * c - 1 /\ c \in Nat \ {0}
             /\ n(i) \in Tokens /\ g(i) \in 0 .. c - 1 /\ o(i) \in 1 .. K
  <2>1. i - 1 \in Nat /\ i - 1 < N
    BY <1>2
  <2>2. M(i) \in 0 .. T * c - 1 /\ (i - 1) % K \in 0 .. K - 1
    BY <1>1, <1>2, <2>1, PairOfNumber
  <2>3. T * c # 0 /\ c # 0
    <3>1. T * c # 0
      BY <1>2, <2>2
    <3>2. c = 0 => T * c = 0
      BY <1>1
    <3> QED
      BY <3>1, <3>2
  <2>4. M(i) \in Nat /\ M(i) < T * c
    BY <1>2, <2>2
  <2>5. n(i) \in 0 .. T - 1 /\ g(i) \in 0 .. c - 1
    <3> HIDE DEF M, c, T
    <3>1. c \in Nat \ {0}
      BY <1>1, <2>3
    <3> QED
      BY <1>1, <2>4, <3>1, PairOfNumber
  <2>6. o(i) \in 1 .. K
    BY <1>1, <2>2
  <2> QED
    BY <1>1, <1>5, <2>2, <2>3, <2>5, <2>6
<1>7. ASSUME NEW x \in S PROVE \E i \in 1 .. N : f[i] = x
  <2>1. PICK a \in Tokens, b \in 0 .. c - 1, d \in 1 .. K : x = LineAt(ch, a, b, d)
    BY LinesOfChannel
  <2>2. c \in Nat \ {0} /\ a \in 0 .. T - 1
    BY <1>1, <1>5
  <2> DEFINE m == a * c + b
             i == m * K + (d - 1)
  <2>3. m \in Nat /\ m < T * c /\ m \div c = a /\ m % c = b
    <3> HIDE DEF c, T
    <3> QED
      BY <1>1, <2>2, NumberOfPair
  <2>4. d - 1 \in 0 .. K - 1 /\ m \in 0 .. T * c - 1
    BY <1>1, <1>2, <2>3
  <2>5. i \in Nat /\ i < N /\ i \div K = m /\ i % K = d - 1
    <3> HIDE DEF m, c, T
    <3> QED
      BY <1>1, <1>2, <2>4, NumberOfPair
  <2> DEFINE j == i + 1
  <2>6. j \in 1 .. N /\ j - 1 = i
    <3> HIDE DEF i, N
    <3> QED
      BY <1>2, <2>5
  <2>7. n(j) = a /\ g(j) = b /\ o(j) = d
    <3>1. M(j) = m
      BY <2>5, <2>6
    <3>2. (j - 1) % K = d - 1
      BY <2>5, <2>6
    <3> HIDE DEF m, j, M, c
    <3> QED
      BY <2>3, <3>1, <3>2
  <2>8. f[j] = x
    <3> HIDE DEF j, f, n, g, o, N
    <3> QED
      BY <1>3, <2>1, <2>6, <2>7
  <2> QED
    BY <2>6, <2>8
<1>8. ASSUME NEW i \in 1 .. N PROVE f[i] \in S
  <2> HIDE DEF f, N, n, g, o, c
  <2>1. LineAt(ch, n(i), g(i), o(i)) \in S
    BY <1>6, LinesOfChannel DEF c
  <2> QED
    BY <1>3, <2>1
<1>9. ASSUME NEW i \in 1 .. N
      PROVE  /\ f[i].at = <<n(i), g(i), o(i), PhysRow(ch, g(i))>>
             /\ n(i) \in Int /\ g(i) \in Int /\ o(i) \in Int /\ PhysRow(ch, g(i)) \in Int
  <2>1. f[i].at = <<n(i), g(i), o(i), PhysRow(ch, g(i))>>
    <3>1. ASSUME NEW x, NEW y, NEW z PROVE LineAt(ch, x, y, z).at = <<x, y, z, PhysRow(ch, y)>>
      BY DEF LineAt, Line
    <3> HIDE DEF n, g, o, f
    <3> QED
      BY <1>3, <3>1
  <2>2. n(i) \in Int /\ g(i) \in Nat /\ o(i) \in Int
    BY <1>1, <1>5, <1>6
  <2>3. \A a \in Nat : a * NUM_CHANNELS + ch \in Int
    BY LayoutAssumption, SMT DEF ChannelIds
  <2> HIDE DEF n, g, o, f
  <2>4. PhysRow(ch, g(i)) \in Int
    BY <2>2, <2>3 DEF PhysRow
  <2> QED
    BY <2>1, <2>2, <2>4
<1>10. ASSUME NEW i \in 1 .. N, NEW j \in 1 .. N, i < j
       PROVE  n(i) < n(j) \/ (n(i) = n(j) /\ (g(i) < g(j) \/ (g(i) = g(j) /\ o(i) < o(j))))
  <2>1. i - 1 \in Nat /\ j - 1 \in Nat /\ i - 1 < j - 1
    BY <1>2, <1>10
  <2>2. M(i) < M(j) \/ (M(i) = M(j) /\ (i - 1) % K < (j - 1) % K)
    BY <1>1, <2>1, PairsInOrder
  <2>3. M(i) \in Nat /\ M(j) \in Nat /\ c \in Nat \ {0}
    BY <1>2, <1>6
  <2>4. M(i) < M(j) => n(i) < n(j) \/ (n(i) = n(j) /\ g(i) < g(j))
    <3> HIDE DEF M, c
    <3> QED
      BY <2>3, PairsInOrder
  <2>5. (i - 1) % K < (j - 1) % K => o(i) < o(j)
    <3>1. (i - 1) % K \in Int /\ (j - 1) % K \in Int
      BY <1>1, <2>1, DivMod
    <3> QED
      BY <3>1
  <2>6. M(i) = M(j) => n(i) = n(j) /\ g(i) = g(j)
    OBVIOUS
  <2> HIDE DEF M, n, g, o
  <2> QED
    BY <2>2, <2>4, <2>5, <2>6
<1> HIDE DEF f, N, n, g, o, M, c, T, S
<1>11. ASSUME NEW i \in 1 .. N, NEW j \in 1 .. N
       PROVE  Before(f[i], f[j]) <=>
                \/ n(i) < n(j)
                \/ n(i) = n(j) /\ g(i) < g(j)
                \/ n(i) = n(j) /\ g(i) = g(j) /\ o(i) < o(j)
                \/ n(i) = n(j) /\ g(i) = g(j) /\ o(i) = o(j) /\ PhysRow(ch, g(i)) < PhysRow(ch, g(j))
  <2>1. ASSUME NEW h \in 1 .. N
        PROVE  /\ f[h].at[1] = n(h) /\ f[h].at[2] = g(h) /\ f[h].at[3] = o(h)
               /\ f[h].at[4] = PhysRow(ch, g(h))
               /\ \A m \in 1 .. 4 : f[h].at[m] \in Int
    <3>1. 1 .. 4 = {1, 2, 3, 4}
      OBVIOUS
    <3>2. f[h].at[1] = n(h) /\ f[h].at[2] = g(h) /\ f[h].at[3] = o(h) /\ f[h].at[4] = PhysRow(ch, g(h))
      BY <1>9
    <3> QED
      BY <1>9, <3>1, <3>2
  <2>2. \A m \in 1 .. 4 : f[i].at[m] \in Int /\ f[j].at[m] \in Int
    BY <2>1
  <2> QED
    BY <2>1, <2>2, BeforeMeans
<1>12. f \in [1 .. N -> S]
  BY <1>3, <1>4, <1>8
<1>13. \A i \in 1 .. N : ~Before(f[i], f[i])
  BY <1>9, <1>11
<1>14. ASSUME NEW i \in 1 .. N, NEW j \in 1 .. N, i < j
       PROVE  Before(f[i], f[j]) /\ ~Before(f[j], f[i])
  <2>1. /\ n(i) \in Int /\ g(i) \in Int /\ o(i) \in Int
        /\ n(j) \in Int /\ g(j) \in Int /\ o(j) \in Int
    BY <1>9
  <2> QED
    BY <1>10, <1>11, <1>14, <2>1
<1>15. InOrder(S) = f
  BY <1>2, <1>7, <1>12, <1>13, <1>14, Ordered
<1> QED
  BY <1>15 DEF S, f

---------------------------------------------------------------------------
(* What a channel has computed when so many of its commands are done.      *)

Done(ch) == IF pc[ch] = 0 THEN 0 ELSE pc[ch] - 1
Results(ch) == job.token_count * Count(ch)   \* of a complete run
Result(ch) == Done(ch) \div K                \* the one being computed
Step(ch) == Done(ch) % K                     \* the commands of it that are done

image == IF job.kind = "batch" THEN write_batch_token_aimd ELSE write_aimd

(* The sums of result m, one per bank, and what is read back of them.      *)
Sum(ch, m) ==
  [b \in BankIds |->
     [bias |-> Zero,
      terms |-> [t \in 0 .. job.tiles_q - 1 |->
                   <<Tile(LoadedRow(ch, b, PhysRow(ch, m % Count(ch))), t),
                     Tile(Activation(m \div Count(ch)), t)>>]]]
Value(ch, m) == [b \in BankIds |-> IF job.output_stage = "post_activation"
                                   THEN <<"af", Sum(ch, m)[b]>> ELSE Sum(ch, m)[b]]

HasActivation(ch, n) ==
  \A t \in 0 .. job.tiles_q - 1 : global_buffer[ch][t] = Tile(Activation(n), t)

(* The log of a channel: result after result, bank after bank.             *)
LogOf(ch, log, n) ==
  /\ Len(log) = n * NUM_BANKS
  /\ \A j \in 1 .. n * NUM_BANKS :
       /\ log[j].bank = (j - 1) % NUM_BANKS /\ log[j].command = target_cmd
       /\ job.cut = "whole" => log[j].value = Value(ch, (j - 1) \div NUM_BANKS)[(j - 1) % NUM_BANKS]

(* The memory of a channel while it runs, if its file was whole.           *)
Memory(ch) ==
  /\ bias[ch] = Zero /\ gprs[ch] = [g \in GprIds |-> Tile(Activation(0), g)]
  /\ job.kind # "batch" => HasActivation(ch, 0)
  /\ Step(ch) >= 2 => HasActivation(ch, Result(ch) \div Count(ch))
  /\ Step(ch) >= 3 => acc[ch] = Sum(ch, Result(ch))
  /\ Step(ch) >= 4 => af[ch] = Value(ch, Result(ch))

Files == aimd = image /\ ~image.refused /\ program = [ch \in ChannelIds |-> ProgramOf(ch)]

Domains ==
  /\ job \in Jobs /\ phase \in {"write", "load", "run", "parse", "done", "failed"}
  /\ DOMAIN bank_rows = ChannelIds /\ DOMAIN global_buffer = ChannelIds /\ DOMAIN gprs = ChannelIds
  /\ DOMAIN bias = ChannelIds /\ DOMAIN acc = ChannelIds /\ DOMAIN af = ChannelIds

Progress(ch) ==
  CASE phase = "write"          -> pc[ch] = 0
    [] phase = "load"           -> pc[ch] \in {0, 1}
    [] phase = "run"            -> pc[ch] \in 1 .. Len(program[ch]) + 1
    [] phase \in {"parse", "done"} -> pc[ch] = Len(program[ch]) + 1

(* What a channel has in its memory and its log.                           *)
Computed(ch) ==
  /\ LogOf(ch, Logged(ch), Result(ch))
  /\ pc[ch] = 0 => bias[ch] = Zero
  /\ pc[ch] # 0 => /\ job.cut # "banks"
                   /\ bank_rows[ch] = [b \in BankIds |-> [x \in 0 .. MAX_ROWS - 1 |-> LoadedRow(ch, b, x)]]
                   /\ job.cut = "whole" => Memory(ch)

RunInv ==
  /\ Domains
  /\ phase \notin {"write", "failed"} => Files
  /\ phase # "failed" => \A ch \in ChannelIds : Progress(ch) /\ Computed(ch)

(* What the definitions say of a step that leaves the job and the image.   *)
LEMMA Same ==
  ASSUME job' = job, aimd' = aimd
  PROVE  /\ K' = K /\ target_cmd' = target_cmd /\ image' = image /\ TileIds' = TileIds /\ Load' = Load
         /\ \A ch : Count(ch)' = Count(ch) /\ Results(ch)' = Results(ch) /\ ProgramOf(ch)' = ProgramOf(ch)
         /\ \A ch, g : PhysRow(ch, g)' = PhysRow(ch, g)
         /\ \A ch, b, x : LoadedRow(ch, b, x)' = LoadedRow(ch, b, x)
         /\ \A x, t : Tile(x, t)' = Tile(x, t)
         /\ \A ch, m : Sum(ch, m)' = Sum(ch, m) /\ Value(ch, m)' = Value(ch, m)
         /\ \A ch, log, n : LogOf(ch, log, n)' <=> LogOf(ch, log, n)
<1>1. Sharded' = Sharded /\ K' = K /\ target_cmd' = target_cmd /\ Load' = Load /\ TileIds' = TileIds
  BY DEF Sharded, K, target_cmd, Load, TileIds, tiles_per_row
<1>2. image' = image
  BY DEF image, write_aimd, write_batch_token_aimd, Sharded
<1>3. \A ch : Count(ch)' = Count(ch)
  BY DEF Count, Sharded
<1>4. \A ch, g : PhysRow(ch, g)' = PhysRow(ch, g)
  BY DEF PhysRow, Sharded
<1>5. \A ch, b, x : LoadedRow(ch, b, x)' = LoadedRow(ch, b, x)
  BY DEF LoadedRow, Sharded
<1>6. \A x, t : Tile(x, t)' = Tile(x, t)
  BY DEF Tile
<1>7. \A ch, m : Sum(ch, m)' = Sum(ch, m)
  BY DEF Sum, Count, PhysRow, LoadedRow, Tile, Sharded
<1>8. \A ch, m : Value(ch, m)' = Value(ch, m)
  BY <1>7 DEF Value
<1>9. \A ch : ProgramOf(ch)' = ProgramOf(ch) /\ Results(ch)' = Results(ch)
  BY DEF ProgramOf, Results, Count, K, LineAt, PhysRow, Ops, Load, Sharded
<1>10. \A ch, log, n : LogOf(ch, log, n)' <=> LogOf(ch, log, n)
  BY <1>1, <1>8 DEF LogOf
<1> QED
  BY <1>1, <1>2, <1>3, <1>4, <1>5, <1>6, <1>7, <1>8, <1>9, <1>10

(* Files that nobody rewrites stay the image of the same job.              *)
LEMMA FilesKept ==
  ASSUME Files, UNCHANGED <<job, aimd, program>>
  PROVE  Files'
<1>1. image' = image
  BY Same
<1>2. [ch \in ChannelIds |-> ProgramOf(ch)]' = [ch \in ChannelIds |-> ProgramOf(ch)]
  BY DEF ProgramOf, Results, Count, K, LineAt, PhysRow, Ops, Load, Sharded
<1>3. aimd' = image' /\ ~image'.refused
  BY <1>1 DEF Files
<1> QED
  BY <1>2, <1>3 DEF Files

---------------------------------------------------------------------------
(* The memory.                                                             *)

(* The weight row that a channel's bank holds for its g-th result.         *)
WeightRow(ch, b, g) == IF Sharded THEN output_row(b, PhysRow(ch, g)) ELSE g

(* Where a result is computed there is memory, loaded with its weights.    *)
LEMMA WeightsLoaded ==
  ASSUME job \in Jobs, Files, NEW ch \in ChannelIds, NEW g \in 0 .. Count(ch) - 1
  PROVE  /\ PhysRow(ch, g) \in 0 .. MAX_ROWS - 1
         /\ \A b \in BankIds : LoadedRow(ch, b, PhysRow(ch, g))
              = IF WeightRow(ch, b, g) < job.r THEN Weight(WeightRow(ch, b, g)) ELSE Zero
<1> DEFINE x == PhysRow(ch, g)
           r == job.r
           tc == job.token_count
<1>1. r \in Nat \ {0} /\ tc \in Nat /\ MAX_ROWS \in Nat /\ NUM_CHANNELS \in Nat \ {0} /\ ch \in Nat
  BY JobFacts, GemvAssumption, LayoutAssumption DEF ChannelIds
<1>2. CASE ~Sharded
  <2>1. x = g /\ Count(ch) = r /\ job.kind # "batch" /\ \A b : WeightRow(ch, b, g) = g
    BY <1>2 DEF PhysRow, Count, Sharded, WeightRow
  <2>2. g \in Nat /\ g < r
    BY <1>1, <2>1
  <2>3. /\ aimd = write_aimd /\ ~write_aimd.refused
    BY <2>1 DEF Files, image
  <2>4. /\ r <= MAX_ROWS
        /\ aimd.rows_per_bank = IF job.dense_rows THEN MAX_ROWS ELSE r
        /\ aimd.row = [b \in BankIds |-> [y \in 0 .. MAX_ROWS - 1 |->
                         IF (IF Sharded THEN output_row(b, y) ELSE y) < job.r
                           THEN Weight(IF Sharded THEN output_row(b, y) ELSE y) ELSE Zero]]
    <3>1. write_aimd.row = [b \in BankIds |-> [y \in 0 .. MAX_ROWS - 1 |->
                         IF (IF Sharded THEN output_row(b, y) ELSE y) < job.r
                           THEN Weight(IF Sharded THEN output_row(b, y) ELSE y) ELSE Zero]]
      BY DEF write_aimd
    <3>2. write_aimd.rows_per_bank = IF job.dense_rows THEN MAX_ROWS ELSE r
      BY <1>2 DEF write_aimd
    <3>4. write_aimd.refused = (r > MAX_ROWS)
      BY <1>2 DEF write_aimd
    <3>5. ~(r > MAX_ROWS)
      BY <2>3, <3>4, Zenon
    <3>3. r <= MAX_ROWS
      BY <1>1, <3>5
    <3> QED
      BY <2>3, <3>1, <3>2, <3>3, Zenon
  <2>5. x \in 0 .. MAX_ROWS - 1 /\ x < aimd.rows_per_bank
    BY <1>1, <2>1, <2>2, <2>4
  <2> HIDE DEF x
  <2>6. \A b \in BankIds : LoadedRow(ch, b, x) = aimd.row[b][x]
    BY <1>2, <2>5 DEF LoadedRow
  <2>7. \A b \in BankIds : aimd.row[b][x] = IF x < job.r THEN Weight(x) ELSE Zero
    BY <1>2, <2>4, <2>5
  <2> QED
    BY <2>1, <2>5, <2>6, <2>7 DEF x
<1>3. CASE Sharded
  <2>1. x = g * NUM_CHANNELS + ch /\ Count(ch) = GroupsOf(r, ch) /\ \A b : WeightRow(ch, b, g) = output_row(b, x)
    BY <1>3 DEF PhysRow, Count, WeightRow
  <2>2. g \in Nat /\ g < GroupsOf(r, ch) /\ First(ch, g) < r
    BY <1>1, <2>1, GroupsCounted
  <2>3. x \in Nat /\ x % NUM_CHANNELS = ch /\ x \div NUM_CHANNELS = g
    <3> HIDE DEF x, r
    <3>1. /\ g * NUM_CHANNELS + ch \in Nat
          /\ (g * NUM_CHANNELS + ch) % NUM_CHANNELS = ch
          /\ (g * NUM_CHANNELS + ch) \div NUM_CHANNELS = g
      BY <1>1, <2>2, RowOfGroup, Zenon
    <3> QED
      BY <2>1, <3>1, Zenon
  <2>4. x < active_rows(r) /\ active_rows(r) \in Nat
    <3> HIDE DEF x, r
    <3>1. 0 \in BankIds /\ NUM_BANKS \in Nat \ {0}
      BY LayoutAssumption DEF BankIds
    <3>2. /\ output_row(0, x) \in Nat
          /\ output_location(output_row(0, x)).physical_row = x
      BY <2>3, <3>1, PlaceHasOneRow
    <3>3. output_row(0, x) = First(ch, g) + 0
      BY <2>3 DEF output_row, First
    <3>4. First(ch, g) + 0 = First(ch, g)
      <4>1. \A a \in Nat, b \in Nat : a * b \in Nat
        BY SMT
      <4>2. First(ch, g) \in Int
        BY <1>1, <2>2, <3>1, <4>1, ProductPositive DEF First
      <4> QED
        BY <4>2
    <3>5. First(ch, g) \in Nat /\ First(ch, g) <= r - 1 /\ r - 1 \in Nat
      BY <1>1, <2>2, <3>2, <3>3, <3>4
    <3>6. x = First(ch, g) \div NUM_BANKS
      BY <3>2, <3>3, <3>4, <3>5, PhysicalRow
    <3>7. First(ch, g) \div NUM_BANKS <= (r - 1) \div NUM_BANKS
      BY <3>1, <3>5, DivMonotone
    <3>8. (r - 1) \div NUM_BANKS \in Nat
      BY <3>1, <3>5, DivMod
    <3> QED
      BY <1>1, <2>3, <3>6, <3>7, <3>8, ActiveRows
  <2>5. CASE job.kind # "batch"
    <3>1. /\ aimd = write_aimd /\ ~write_aimd.refused
      BY <2>5 DEF Files, image
    <3>2. /\ active_rows(r) <= MAX_ROWS
          /\ aimd.rows_per_bank = IF job.dense_rows THEN MAX_ROWS ELSE active_rows(r)
          /\ aimd.row = [b \in BankIds |-> [y \in 0 .. MAX_ROWS - 1 |->
                           IF (IF Sharded THEN output_row(b, y) ELSE y) < job.r
                             THEN Weight(IF Sharded THEN output_row(b, y) ELSE y) ELSE Zero]]
      <4>1. write_aimd.row = [b \in BankIds |-> [y \in 0 .. MAX_ROWS - 1 |->
                           IF (IF Sharded THEN output_row(b, y) ELSE y) < job.r
                             THEN Weight(IF Sharded THEN output_row(b, y) ELSE y) ELSE Zero]]
        BY DEF write_aimd
      <4>2. write_aimd.rows_per_bank = IF job.dense_rows THEN MAX_ROWS ELSE active_rows(r)
        BY <1>3 DEF write_aimd
      <4>4. write_aimd.refused = (active_rows(r) > MAX_ROWS)
        BY <1>3 DEF write_aimd
      <4>5. ~(active_rows(r) > MAX_ROWS)
        BY <3>1, <4>4, Zenon
      <4>3. active_rows(r) <= MAX_ROWS
        BY <1>1, <2>4, <4>5
      <4> QED
        BY <3>1, <4>1, <4>2, <4>3, Zenon
    <3> HIDE DEF x
    <3>3. x \in 0 .. MAX_ROWS - 1 /\ x < aimd.rows_per_bank
      <4> HIDE DEF r
      <4>1. MAX_ROWS \in Nat /\ x \in Nat /\ x < active_rows(r) /\ active_rows(r) \in Nat
        BY <1>1, <2>3, <2>4, Zenon
      <4>2. /\ active_rows(r) <= MAX_ROWS
            /\ aimd.rows_per_bank = MAX_ROWS \/ aimd.rows_per_bank = active_rows(r)
        BY <3>2, Zenon
      <4>3. x < MAX_ROWS
        BY <4>1, <4>2
      <4> QED
        BY <4>1, <4>2, <4>3
    <3>4. \A b \in BankIds : LoadedRow(ch, b, x) = aimd.row[b][x]
      BY <2>3, <3>3 DEF LoadedRow
    <3>5. \A b \in BankIds : aimd.row[b][x] = IF output_row(b, x) < job.r THEN Weight(output_row(b, x)) ELSE Zero
      BY <1>3, <3>2, <3>3
    <3> QED
      BY <2>1, <3>3, <3>4, <3>5 DEF x
  <2>6. CASE job.kind = "batch"
    <3> DEFINE base == vector_row_base(r)
               rows == base + tc * NUM_CHANNELS
    <3>1. /\ aimd = write_batch_token_aimd /\ ~write_batch_token_aimd.refused
      BY <2>6 DEF Files, image
    <3>2. base >= active_rows(r) /\ base \in Int /\ tc * NUM_CHANNELS \in Nat
      <4>1. tc * NUM_CHANNELS \in Nat
        BY <1>1, SMT
      <4>2. active_rows(r) + NUM_CHANNELS - 1 \in Nat
        BY <1>1, <2>4
      <4>3. base \in Nat
        <5>1. \A a \in Nat : a * NUM_CHANNELS \in Nat
          BY <1>1, SMT
        <5> QED
          BY <1>1, <4>2, <5>1, DivMod DEF vector_row_base
      <4> QED
        BY <1>1, <4>1, <4>3, VectorRowsBehindWeights
    <3> HIDE DEF x, base
    <3>3. /\ ~(rows > MAX_ROWS)
          /\ aimd.rows_per_bank = rows
          /\ aimd.row = [b \in BankIds |-> [y \in 0 .. MAX_ROWS - 1 |->
                  IF y < active_rows(job.r) /\ output_row(b, y) < job.r
                    THEN Weight(output_row(b, y))
                  ELSE IF b = 0 /\ y \in base .. rows - 1
                    THEN Activation((y - base) \div NUM_CHANNELS) ELSE Zero]]
      BY <3>1 DEF write_batch_token_aimd, base
    <3>4. x \in 0 .. MAX_ROWS - 1 /\ x < aimd.rows_per_bank /\ ~(x \in base .. rows - 1)
      BY <1>1, <2>3, <2>4, <3>2, <3>3
    <3> HIDE DEF rows
    <3>5. \A b \in BankIds : LoadedRow(ch, b, x) = aimd.row[b][x]
      BY <2>3, <3>4 DEF LoadedRow
    <3>6. \A b \in BankIds : aimd.row[b][x] = IF output_row(b, x) < job.r THEN Weight(output_row(b, x)) ELSE Zero
      BY <2>4, <3>3, <3>4
    <3> QED
      BY <2>1, <3>4, <3>5, <3>6 DEF x
  <2> QED
    BY <2>5, <2>6
<1> QED
  BY <1>2, <1>3

(* A batch finds a token's activation in the vector row of its channel.    *)
LEMMA VectorLoaded ==
  ASSUME job \in Jobs, Files, job.kind = "batch", NEW ch \in ChannelIds, NEW n \in Tokens
  PROVE  LET x == vector_row_base(job.r) + n * NUM_CHANNELS + ch
         IN  x \in 0 .. MAX_ROWS - 1 /\ LoadedRow(ch, 0, x) = Activation(n)
<1> DEFINE r == job.r
           tc == job.token_count
           base == vector_row_base(r)
           p == n * NUM_CHANNELS
           rows == base + tc * NUM_CHANNELS
           x == base + p + ch
<1>1. /\ r \in Nat \ {0} /\ tc \in Nat /\ MAX_ROWS \in Nat /\ NUM_CHANNELS \in Nat \ {0}
      /\ ch \in 0 .. NUM_CHANNELS - 1 /\ n \in 0 .. tc - 1 /\ n \in Nat /\ 0 \in BankIds
  BY JobFacts, GemvAssumption, LayoutAssumption DEF ChannelIds, Tokens, BankIds
<1>2. active_rows(r) \in Nat
  BY <1>1, ActiveRows
<1>3. base \in Nat
  <2>1. \A a \in Nat : a * NUM_CHANNELS \in Nat
    BY <1>1, SMT
  <2>2. active_rows(r) + NUM_CHANNELS - 1 \in Nat
    BY <1>1, <1>2
  <2> QED
    BY <1>1, <2>1, <2>2, DivMod DEF vector_row_base
<1>4. base >= active_rows(r) /\ x % NUM_CHANNELS = ch
  BY <1>1, VectorRowsBehindWeights
<1>5. /\ p + ch \in Nat /\ p + ch < tc * NUM_CHANNELS /\ (p + ch) \div NUM_CHANNELS = n
      /\ p \in Nat /\ tc * NUM_CHANNELS \in Nat
  <2>1. p \in Nat /\ tc * NUM_CHANNELS \in Nat
    BY <1>1, SMT
  <2> QED
    BY <1>1, <2>1, NumberOfPair
<1>6. /\ ~(rows > MAX_ROWS)
      /\ aimd.rows_per_bank = rows
      /\ aimd.row = [b \in BankIds |-> [y \in 0 .. MAX_ROWS - 1 |->
              IF y < active_rows(job.r) /\ output_row(b, y) < job.r
                THEN Weight(output_row(b, y))
              ELSE IF b = 0 /\ y \in base .. rows - 1
                THEN Activation((y - base) \div NUM_CHANNELS) ELSE Zero]]
  BY DEF Files, image, write_batch_token_aimd
<1> DEFINE tn == tc * NUM_CHANNELS
<1>7. /\ x \in 0 .. MAX_ROWS - 1 /\ x < rows /\ x \in base .. rows - 1 /\ ~(x < active_rows(job.r))
      /\ x - base = p + ch
  <2>1. rows = base + tn /\ tn \in Nat /\ p + ch < tn /\ x = base + p + ch /\ p \in Nat
    BY <1>5
  <2>2. rows <= MAX_ROWS
    BY <1>6, <1>3, <2>1, <1>1
  <2>3. base >= active_rows(r) /\ ch \in Nat /\ MAX_ROWS \in Nat
    BY <1>1, <1>4
  <2> HIDE DEF tn, p, base, rows, x, r
  <2>4. /\ x \in 0 .. MAX_ROWS - 1 /\ x < rows /\ x \in base .. rows - 1 /\ ~(x < active_rows(r))
        /\ x - base = p + ch
    BY <1>2, <1>3, <2>1, <2>2, <2>3
  <2> QED
    BY <2>4 DEF r
<1> HIDE DEF x, base, p, rows
<1>8. aimd.row[0][x] = Activation(n)
  BY <1>1, <1>5, <1>6, <1>7
<1>9. LoadedRow(ch, 0, x) = aimd.row[0][x]
  BY <1>4, <1>6, <1>7 DEF LoadedRow
<1> QED
  BY <1>7, <1>8, <1>9 DEF x, base, p

---------------------------------------------------------------------------
(* The execution of a channel's program.                                   *)

(* The sizes of a program are natural numbers.                             *)
LEMMA Sizes ==
  ASSUME job \in Jobs, NEW ch \in ChannelIds
  PROVE  /\ K \in Nat /\ K >= 4 /\ Count(ch) \in Nat /\ Results(ch) \in Nat
         /\ Results(ch) * K \in Nat /\ Len(ProgramOf(ch)) = Results(ch) * K
         /\ NUM_BANKS \in Nat \ {0}
<1>1. K \in Nat /\ K >= 4 /\ Count(ch) \in Nat /\ job.token_count \in Nat
  BY JobFacts, GroupsCounted DEF Count, K
<1>2. \A a \in Nat, b \in Nat : a * b \in Nat
  BY SMT
<1>3. Results(ch) \in Nat
  BY <1>1, <1>2 DEF Results
<1>4. Results(ch) * K \in Nat
  BY <1>1, <1>2, <1>3
<1>5. Len(ProgramOf(ch)) = Results(ch) * K
  <2> DEFINE N == Results(ch) * K
             F(i) == LineAt(ch, ((i - 1) \div K) \div Count(ch), ((i - 1) \div K) % Count(ch), ((i - 1) % K) + 1)
  <2>1. ProgramOf(ch) = [i \in 1 .. N |-> F(i)]
    BY DEF ProgramOf, Results
  <2>2. N \in Nat
    BY <1>4
  <2> HIDE DEF N, F
  <2>3. Len(ProgramOf(ch)) = N
    BY <2>1, <2>2
  <2> QED
    BY <2>3 DEF N
<1> QED
  BY <1>1, <1>3, <1>4, <1>5, LayoutAssumption

(* The command a channel executes next.                                    *)
LEMMA AtCommand ==
  ASSUME GInv, RunInv, phase = "run", NEW ch \in ChannelIds, pc[ch] <= Len(program[ch])
  PROVE  LET m == Result(ch)
             s == Step(ch)
             l == program[ch][pc[ch]]
         IN  /\ pc[ch] \in Nat \ {0} /\ pc[ch] <= Len(ProgramOf(ch))
             /\ s \in 0 .. K - 1 /\ m \in Nat /\ m < Results(ch) /\ Count(ch) \in Nat \ {0}
             /\ m \div Count(ch) \in Tokens /\ m % Count(ch) \in 0 .. Count(ch) - 1
             /\ l.op = Ops(Load)[s + 1]
             /\ l.row = IF job.kind = "batch" /\ s = 1
                        THEN vector_row_base(job.r) + (m \div Count(ch)) * NUM_CHANNELS + ch
                        ELSE PhysRow(ch, m % Count(ch))
<1> DEFINE m == Result(ch)
           s == Step(ch)
           c == Count(ch)
           i == pc[ch]
           tc == job.token_count
           N == Results(ch) * K
<1>1. job \in Jobs /\ program = [x \in ChannelIds |-> ProgramOf(x)] /\ Progress(ch)
  BY DEF RunInv, Domains, Files
<1>2. /\ K \in Nat /\ K >= 4 /\ c \in Nat /\ Results(ch) \in Nat /\ tc \in Nat
      /\ N \in Nat /\ Len(ProgramOf(ch)) = N /\ Results(ch) = tc * c
  BY <1>1, Sizes, JobFacts DEF Results
<1>3. program[ch] = ProgramOf(ch)
  BY <1>1
<1>4. i \in 1 .. N
  <2>1. pc[ch] \in 1 .. Len(program[ch]) + 1
    BY <1>1 DEF Progress
  <2> HIDE DEF N
  <2> QED
    BY <1>2, <1>3, <2>1
<1>5. i \in Nat \ {0} /\ i <= N /\ i - 1 \in Nat /\ i - 1 < N /\ Done(ch) = i - 1
  <2>1. i \in Nat \ {0} /\ i <= N /\ i - 1 \in Nat /\ i - 1 < N
    <3> HIDE DEF N, i
    <3> QED
      BY <1>2, <1>4
  <2> QED
    BY <2>1 DEF Done
<1>6. m = (i - 1) \div K /\ s = (i - 1) % K
  BY <1>5 DEF Result, Step
<1>7. m \in 0 .. Results(ch) - 1 /\ s \in 0 .. K - 1
  <2> DEFINE a == Results(ch)
             d == i - 1
  <2>1. a \in Nat /\ K \in Nat \ {0} /\ d \in Nat /\ d < a * K /\ m = d \div K /\ s = d % K
    BY <1>2, <1>5, <1>6
  <2> HIDE DEF a, d, m, s
  <2>2. m \in 0 .. a - 1 /\ s \in 0 .. K - 1
    BY <2>1, PairOfNumber
  <2> QED
    BY <2>2 DEF a
<1>8. m \in Nat /\ m < Results(ch) /\ c \in Nat \ {0}
  <2>1. c = 0 => Results(ch) = 0
    BY <1>2
  <2> HIDE DEF m, c
  <2> QED
    BY <1>2, <1>7, <2>1
<1>9. m \div c \in Tokens /\ m % c \in 0 .. c - 1
  <2>1. m < tc * c
    BY <1>2, <1>8
  <2> HIDE DEF m, c, tc
  <2>2. m \div c \in 0 .. tc - 1 /\ m % c \in 0 .. c - 1
    BY <1>2, <1>8, <2>1, PairOfNumber
  <2> QED
    BY <2>2 DEF Tokens, tc
<1>10. program[ch][i] = LineAt(ch, m \div c, m % c, s + 1)
  <2>1. i \in 1 .. (tc * c) * K
    BY <1>2, <1>4
  <2> HIDE DEF i
  <2>2. ProgramOf(ch)[i] = LineAt(ch, ((i - 1) \div K) \div c, ((i - 1) \div K) % c, ((i - 1) % K) + 1)
    BY <2>1 DEF ProgramOf
  <2> QED
    BY <1>3, <1>6, <2>2
<1> HIDE DEF i, m, s, c, tc
<1>11. s + 1 = 2 <=> s = 1
  BY <1>7, <1>2
<1>12. /\ program[ch][i].op = Ops(Load)[s + 1]
       /\ program[ch][i].row = IF job.kind = "batch" /\ s = 1
                               THEN vector_row_base(job.r) + (m \div c) * NUM_CHANNELS + ch
                               ELSE PhysRow(ch, m % c)
  BY <1>10, <1>11 DEF LineAt, Line
<1> QED
  BY <1>2, <1>5, <1>7, <1>8, <1>9, <1>12 DEF i, m, s, c

(* After the command, the next one of the result or the next result.       *)
LEMMA NextCommand ==
  ASSUME job \in Jobs, job' = job, NEW ch \in ChannelIds,
         pc[ch] \in Nat \ {0}, pc'[ch] = pc[ch] + 1
  PROVE  /\ Result(ch) \in Nat /\ Step(ch) \in 0 .. K - 1
         /\ Step(ch) < K - 1 => Result(ch)' = Result(ch) /\ Step(ch)' = Step(ch) + 1
         /\ Step(ch) = K - 1 => Result(ch)' = Result(ch) + 1 /\ Step(ch)' = 0
<1> DEFINE d == pc[ch] - 1
           m == d \div K
           s == d % K
<1>1. K \in Nat \ {0} /\ K' = K
  BY DEF K
<1>2. d \in Nat /\ Done(ch) = d /\ pc'[ch] # 0 /\ pc'[ch] - 1 = d + 1
  BY DEF Done
<1>3. Done(ch)' = d + 1
  BY <1>2 DEF Done
<1>4. Result(ch) = m /\ Step(ch) = s /\ Result(ch)' = (d + 1) \div K /\ Step(ch)' = (d + 1) % K
  BY <1>1, <1>2, <1>3 DEF Result, Step
<1> HIDE DEF d
<1>5. m \in Nat /\ s \in 0 .. K - 1 /\ d = K * m + s
  BY <1>1, <1>2, DivMod
<1> HIDE DEF m, s
<1>6. K * m \in Nat /\ K * m = m * K /\ (m + 1) * K = m * K + K /\ m * K \in Nat
  BY <1>1, <1>5, SMT
<1>7. ASSUME s < K - 1 PROVE (d + 1) \div K = m /\ (d + 1) % K = s + 1
  <2>1. d + 1 = m * K + (s + 1) /\ s + 1 \in 0 .. K - 1
    BY <1>1, <1>5, <1>6, <1>7
  <2> DEFINE k == s + 1
  <2>2. d + 1 = m * K + k /\ k \in 0 .. K - 1
    BY <2>1
  <2> HIDE DEF k
  <2>3. (m * K + k) \div K = m /\ (m * K + k) % K = k
    BY <1>1, <1>5, <2>2, DivModUnique
  <2> QED
    BY <2>2, <2>3 DEF k
<1>8. ASSUME s = K - 1 PROVE (d + 1) \div K = m + 1 /\ (d + 1) % K = 0
  <2>1. d + 1 = (m + 1) * K + 0 /\ 0 \in 0 .. K - 1 /\ m + 1 \in Nat
    BY <1>1, <1>5, <1>6, <1>8
  <2> QED
    BY <1>1, <2>1, DivModUnique
<1> QED
  BY <1>4, <1>5, <1>7, <1>8

(* The step of a result tells which command is next.                       *)
LEMMA WhichCommand ==
  ASSUME job \in Jobs, NEW s \in 0 .. K - 1
  PROVE  LET op == Ops(Load)[s + 1]
         IN  /\ op = "WR_BIAS" => s = 0
             /\ op = "WR_GB" => s = 1 /\ job.kind # "batch"
             /\ op = "COPY_BKGB" => s = 1 /\ job.kind = "batch"
             /\ op = "MAC_ABK" => s = 2
             /\ op = "AF" => s = 3 /\ K = 5 /\ job.output_stage = "post_activation"
             /\ op = "RD_AF" => s = 4 /\ K = 5 /\ target_cmd = "RD_AF" /\ job.output_stage = "post_activation"
             /\ op = "RD_MAC" => s = 3 /\ K = 4 /\ target_cmd = "RD_MAC" /\ job.output_stage # "post_activation"
<1>1. Load \in {"WR_GB", "COPY_BKGB"} /\ (Load = "COPY_BKGB" <=> job.kind = "batch")
  BY DEF Load
<1>2. s \in {0, 1, 2, 3, 4} /\ (s = 4 => job.output_stage = "post_activation")
  BY DEF K
<1>3. /\ Ops(Load)[1] = "WR_BIAS" /\ Ops(Load)[2] = Load /\ Ops(Load)[3] = "MAC_ABK"
      /\ job.output_stage = "post_activation" => Ops(Load)[4] = "AF" /\ Ops(Load)[5] = "RD_AF"
      /\ job.output_stage # "post_activation" => Ops(Load)[4] = "RD_MAC"
  BY OpsAre
<1>4. /\ s = 0 => Ops(Load)[s + 1] = "WR_BIAS"
      /\ s = 1 => Ops(Load)[s + 1] = Load
      /\ s = 2 => Ops(Load)[s + 1] = "MAC_ABK"
      /\ s = 3 /\ job.output_stage = "post_activation" => Ops(Load)[s + 1] = "AF"
      /\ s = 4 => Ops(Load)[s + 1] = "RD_AF"
      /\ s = 3 /\ job.output_stage # "post_activation" => Ops(Load)[s + 1] = "RD_MAC"
  BY <1>2, <1>3
<1> DEFINE op == Ops(Load)[s + 1]
<1> HIDE DEF op
<1>5. /\ job.output_stage = "post_activation" => K = 5 /\ target_cmd = "RD_AF"
      /\ job.output_stage # "post_activation" => K = 4 /\ target_cmd = "RD_MAC"
  BY DEF K, target_cmd
<1> QED
  BY <1>1, <1>2, <1>4, <1>5

(* A channel keeps what it has when a step leaves it.                      *)
LEMMA ComputedKept ==
  ASSUME NEW ch \in ChannelIds, Computed(ch), job' = job, aimd' = aimd, pc'[ch] = pc[ch],
         Logged(ch)' = Logged(ch), bank_rows'[ch] = bank_rows[ch], gprs'[ch] = gprs[ch],
         global_buffer'[ch] = global_buffer[ch], bias'[ch] = bias[ch], acc'[ch] = acc[ch], af'[ch] = af[ch]
  PROVE  Computed(ch)'
<1>1. /\ K' = K /\ target_cmd' = target_cmd /\ Count(ch)' = Count(ch)
      /\ \A m : Sum(ch, m)' = Sum(ch, m) /\ Value(ch, m)' = Value(ch, m)
      /\ \A x, t : Tile(x, t)' = Tile(x, t)
      /\ \A b, x : LoadedRow(ch, b, x)' = LoadedRow(ch, b, x)
  BY Same
<1>2. Result(ch)' = Result(ch) /\ Step(ch)' = Step(ch)
  BY <1>1 DEF Result, Step, Done
<1>3. LogOf(ch, Logged(ch), Result(ch))'
  BY <1>1, <1>2 DEF LogOf, Computed
<1>4. ASSUME NEW n PROVE HasActivation(ch, n)' <=> HasActivation(ch, n)
  BY <1>1 DEF HasActivation
<1>5. HasActivation(ch, Result(ch) \div Count(ch))' <=> HasActivation(ch, Result(ch) \div Count(ch))
  BY <1>1, <1>2 DEF HasActivation
<1>6. Memory(ch) => Memory(ch)'
  <2>1. Sum(ch, Result(ch))' = Sum(ch, Result(ch)) /\ Value(ch, Result(ch))' = Value(ch, Result(ch))
    BY <1>2 DEF Sum, Value, Count, PhysRow, LoadedRow, Tile, Sharded
  <2> QED
    BY <1>1, <1>2, <1>4, <1>5, <2>1 DEF Memory
<1>7. [b \in BankIds |-> [x \in 0 .. MAX_ROWS - 1 |-> LoadedRow(ch, b, x)]]'
        = [b \in BankIds |-> [x \in 0 .. MAX_ROWS - 1 |-> LoadedRow(ch, b, x)]]
  BY DEF LoadedRow, Sharded
<1> QED
  BY <1>3, <1>6, <1>7 DEF Computed

(* The log grows by the result that is read.                               *)
LEMMA LogMore ==
  ASSUME GInv, NEW ch \in ChannelIds, job \in Jobs, job' = job, aimd' = aimd,
         LogOf(ch, Logged(ch), Result(ch)), Result(ch) \in Nat, Result(ch)' = Result(ch) + 1,
         NEW values, Log(ch, Packets(ch, target_cmd, values)),
         job.cut = "whole" => \A b \in BankIds : values[b] = Value(ch, Result(ch))[b]
  PROVE  LogOf(ch, Logged(ch), Result(ch))'
<1> DEFINE rows == Packets(ch, target_cmd, values)
           m == Result(ch)
           L == m * NUM_BANKS
           log == Logged(ch)
           all == log \o rows
<1>1. NUM_BANKS \in Nat \ {0} /\ m \in Nat /\ L \in Nat /\ (m + 1) * NUM_BANKS = L + NUM_BANKS
  <2>1. NUM_BANKS \in Nat \ {0} /\ m \in Nat
    BY LayoutAssumption
  <2> HIDE DEF m
  <2> QED
    BY <2>1, SMT
<1>2. /\ IsSeq(rows) /\ Len(rows) = NUM_BANKS
      /\ \A i \in 1 .. NUM_BANKS : rows[i].command = target_cmd /\ rows[i].bank = i - 1
      /\ IsSeq(log) /\ Logged(ch)' = all
  BY LogAppends
<1>3. \A i \in 1 .. NUM_BANKS : rows[i].value = values[i - 1]
  BY DEF Packets
<1>4. /\ Len(log) = L
      /\ \A j \in 1 .. L :
           /\ log[j].bank = (j - 1) % NUM_BANKS /\ log[j].command = target_cmd
           /\ job.cut = "whole" => log[j].value = Value(ch, (j - 1) \div NUM_BANKS)[(j - 1) % NUM_BANKS]
  BY DEF LogOf
<1> HIDE DEF rows, log
<1>5. /\ Len(all) = L + NUM_BANKS
      /\ \A i \in 1 .. L : all[i] = log[i]
      /\ \A i \in 1 .. NUM_BANKS : all[L + i] = rows[i]
  BY <1>2, <1>4, Append2
<1> HIDE DEF all
<1>6. ASSUME NEW j \in 1 .. L + NUM_BANKS
      PROVE  /\ all[j].bank = (j - 1) % NUM_BANKS /\ all[j].command = target_cmd
             /\ job.cut = "whole" => all[j].value = Value(ch, (j - 1) \div NUM_BANKS)[(j - 1) % NUM_BANKS]
  <2>1. CASE j \in 1 .. L
    BY <1>4, <1>5, <2>1
  <2>2. CASE j \notin 1 .. L
    <3> DEFINE i == j - L
    <3>1. i \in 1 .. NUM_BANKS /\ j = L + i /\ i - 1 \in BankIds /\ j - 1 = L + (i - 1)
      <4> HIDE DEF L
      <4> QED
        BY <1>1, <2>2 DEF BankIds
    <3>2. all[j] = rows[i]
      <4> HIDE DEF i, L
      <4> QED
        BY <1>5, <3>1
    <3> DEFINE k == i - 1
    <3>3. k \in 0 .. NUM_BANKS - 1 /\ j - 1 = m * NUM_BANKS + k
      BY <3>1 DEF BankIds
    <3> HIDE DEF k, m
    <3>4. (j - 1) \div NUM_BANKS = m /\ (j - 1) % NUM_BANKS = k
      BY <1>1, <3>3, DivModUnique
    <3> HIDE DEF i, L
    <3>5. all[j].bank = k /\ all[j].command = target_cmd /\ all[j].value = values[k]
      BY <1>2, <1>3, <3>1, <3>2 DEF k
    <3>6. job.cut = "whole" => values[k] = Value(ch, m)[k]
      BY <3>3 DEF BankIds, m
    <3> QED
      BY <3>4, <3>5, <3>6
  <2> QED
    BY <2>1, <2>2
<1>7. target_cmd' = target_cmd /\ \A n : Value(ch, n)' = Value(ch, n)
  BY Same
<1>8. Result(ch)' * NUM_BANKS = L + NUM_BANKS
  BY <1>1
<1> HIDE DEF L, m
<1> QED
  BY <1>2, <1>5, <1>6, <1>7, <1>8 DEF LogOf

---------------------------------------------------------------------------
(* One command, for all of them.                                           *)
Executes(ch) ==
  /\ GInv /\ RunInv /\ phase = "run" /\ pc[ch] <= Len(program[ch]) /\ pc' = [pc EXCEPT ![ch] = @ + 1]
  /\ UNCHANGED <<job, phase, aimd, program, bank_rows, gprs, parsed>>

(* What the invariants say of the channel that executes a command.         *)
LEMMA ExecuteFacts ==
  ASSUME NEW ch \in ChannelIds, Executes(ch)
  PROVE  /\ job \in Jobs /\ pc[ch] \in Nat \ {0} /\ pc'[ch] = pc[ch] + 1 /\ pc'[ch] <= Len(ProgramOf(ch)) + 1
         /\ program[ch] = ProgramOf(ch) /\ Computed(ch) /\ Files /\ job.cut # "banks"
         /\ bank_rows[ch] = [b \in BankIds |-> [x \in 0 .. MAX_ROWS - 1 |-> LoadedRow(ch, b, x)]]
         /\ LogOf(ch, Logged(ch), Result(ch))
         /\ job.cut = "whole" => Memory(ch)
<1>1. /\ pc \in [ChannelIds -> Nat] /\ phase = "run" /\ pc[ch] <= Len(program[ch])
      /\ pc' = [pc EXCEPT ![ch] = @ + 1]
  BY DEF Executes, GInv
<1>2. job \in Jobs /\ Files /\ Progress(ch) /\ Computed(ch)
  BY <1>1 DEF Executes, RunInv, Domains
<1>3. pc[ch] \in Nat \ {0} /\ program[ch] = ProgramOf(ch)
  BY <1>1, <1>2, AtCommand DEF Executes, Files
<1>4. Len(ProgramOf(ch)) \in Nat
  BY <1>2, Sizes
<1>5. pc'[ch] = pc[ch] + 1 /\ pc'[ch] <= Len(ProgramOf(ch)) + 1
  BY <1>1, <1>3, <1>4
<1> QED
  BY <1>2, <1>3, <1>5 DEF Computed

(* A command that reads no results leaves the log.                         *)
LEMMA NotRead ==
  ASSUME NEW ch \in ChannelIds, Executes(ch), Step(ch) < K - 1, UNCHANGED <<csv, buffered>>,
         job.cut = "whole" => Memory(ch)'
  PROVE  Computed(ch)'
<1>1. /\ job \in Jobs /\ job' = job /\ aimd' = aimd /\ pc[ch] \in Nat \ {0} /\ pc'[ch] = pc[ch] + 1
      /\ bank_rows'[ch] = [b \in BankIds |-> [x \in 0 .. MAX_ROWS - 1 |-> LoadedRow(ch, b, x)]]
      /\ LogOf(ch, Logged(ch), Result(ch)) /\ job.cut # "banks"
  BY ExecuteFacts DEF Executes
<1>2. Result(ch)' = Result(ch)
  BY <1>1, NextCommand
<1>3. LogOf(ch, Logged(ch), Result(ch))'
  <2>1. Logged(ch)' = Logged(ch) /\ target_cmd' = target_cmd /\ \A m : Value(ch, m)' = Value(ch, m)
    BY <1>1, Same DEF Logged
  <2> QED
    BY <1>1, <1>2, <2>1 DEF LogOf
<1>4. [b \in BankIds |-> [x \in 0 .. MAX_ROWS - 1 |-> LoadedRow(ch, b, x)]]'
        = [b \in BankIds |-> [x \in 0 .. MAX_ROWS - 1 |-> LoadedRow(ch, b, x)]]
  BY <1>1 DEF LoadedRow, Sharded
<1>5. pc'[ch] # 0
  BY <1>1
<1> QED
  BY <1>1, <1>3, <1>4, <1>5 DEF Computed

(* A command that reads the results ends the result.                       *)
LEMMA IsRead ==
  ASSUME NEW ch \in ChannelIds, Executes(ch), Step(ch) = K - 1, NEW values,
         Log(ch, Packets(ch, target_cmd, values)), UNCHANGED <<bias, global_buffer>>,
         job.cut = "whole" => \A b \in BankIds : values[b] = Value(ch, Result(ch))[b]
  PROVE  Computed(ch)'
<1>1. /\ job \in Jobs /\ job' = job /\ aimd' = aimd /\ pc[ch] \in Nat \ {0} /\ pc'[ch] = pc[ch] + 1
      /\ bank_rows'[ch] = [b \in BankIds |-> [x \in 0 .. MAX_ROWS - 1 |-> LoadedRow(ch, b, x)]]
      /\ LogOf(ch, Logged(ch), Result(ch)) /\ job.cut # "banks" /\ gprs' = gprs /\ GInv
      /\ job.cut = "whole" => Memory(ch)
  BY ExecuteFacts DEF Executes
<1>2. Result(ch) \in Nat /\ Result(ch)' = Result(ch) + 1 /\ Step(ch)' = 0
  BY <1>1, NextCommand
<1>3. LogOf(ch, Logged(ch), Result(ch))'
  BY <1>1, <1>2, LogMore
<1>4. [b \in BankIds |-> [x \in 0 .. MAX_ROWS - 1 |-> LoadedRow(ch, b, x)]]'
        = [b \in BankIds |-> [x \in 0 .. MAX_ROWS - 1 |-> LoadedRow(ch, b, x)]]
  BY <1>1 DEF LoadedRow, Sharded
<1>5. pc'[ch] # 0
  BY <1>1
<1>6. Memory(ch) => Memory(ch)'
  <2>1. \A x, t : Tile(x, t)' = Tile(x, t)
    BY <1>1, Same
  <2>2. HasActivation(ch, 0)' <=> HasActivation(ch, 0)
    BY <1>1, <2>1 DEF HasActivation
  <2>3. ~(Step(ch)' >= 2) /\ ~(Step(ch)' >= 3) /\ ~(Step(ch)' >= 4)
    BY <1>2
  <2> QED
    BY <1>1, <2>1, <2>2, <2>3 DEF Memory
<1> QED
  BY <1>1, <1>3, <1>4, <1>5, <1>6 DEF Computed

(* The GPR behind the activation's tiles is zero: no bias is added.        *)
LEMMA TileZero == \A t : ~(t < job.tiles_q) => Tile(Activation(0), t) = Zero
BY DEF Tile

(* WR_BIAS leaves the bias zero, whether or not it names a GPR.            *)
LEMMA AfterBias ==
  ASSUME NEW ch \in ChannelIds, Executes(ch), Step(ch) = 0, UNCHANGED <<global_buffer, acc, af, csv, buffered>>,
         NEW named \in BOOLEAN,
         bias' = [bias EXCEPT ![ch] = IF named /\ job.tiles_q \in GprIds THEN gprs[ch][job.tiles_q] ELSE @]
  PROVE  Computed(ch)'
<1>1. /\ job \in Jobs /\ job' = job /\ aimd' = aimd /\ pc[ch] \in Nat \ {0} /\ pc'[ch] = pc[ch] + 1
      /\ gprs' = gprs /\ RunInv
      /\ job.cut = "whole" => Memory(ch)
  BY ExecuteFacts DEF Executes
<1>2. K \in Nat /\ K >= 4 /\ job.tiles_q \in Nat
  BY <1>1, Sizes, JobFacts
<1>3. Step(ch) < K - 1 /\ Step(ch)' = 1
  <2>1. Step(ch) < K - 1
    BY <1>2
  <2> QED
    BY <1>1, <2>1, NextCommand
<1>4. ASSUME Memory(ch) PROVE Memory(ch)'
  <2>1. bias[ch] = Zero /\ gprs[ch] = [g \in GprIds |-> Tile(Activation(0), g)]
    BY <1>4 DEF Memory
  <2>2. job.tiles_q \in GprIds => gprs[ch][job.tiles_q] = Zero
    <3>1. ~(job.tiles_q < job.tiles_q)
      BY <1>2
    <3> QED
      BY <2>1, <3>1, TileZero
  <2>3. bias'[ch] = Zero
    BY <1>1, <2>1, <2>2 DEF RunInv, Domains
  <2>4. \A x, t : Tile(x, t)' = Tile(x, t)
    BY <1>1, Same
  <2>5. HasActivation(ch, 0)' <=> HasActivation(ch, 0)
    BY <1>1, <2>4 DEF HasActivation
  <2>6. ~(Step(ch)' >= 2) /\ ~(Step(ch)' >= 3) /\ ~(Step(ch)' >= 4)
    BY <1>3
  <2> QED
    BY <1>1, <1>4, <2>3, <2>4, <2>5, <2>6 DEF Memory
<1> QED
  BY <1>1, <1>3, <1>4, NotRead

(* The loads bring the token's activation into the global buffer.          *)
LEMMA AfterLoad ==
  ASSUME NEW ch \in ChannelIds, Executes(ch), Step(ch) = 1, UNCHANGED <<bias, acc, af, csv, buffered>>,
         job.cut = "whole" => HasActivation(ch, Result(ch) \div Count(ch))',
         job.cut = "whole" /\ job.kind # "batch" => HasActivation(ch, 0)'
  PROVE  Computed(ch)'
<1>1. /\ job \in Jobs /\ job' = job /\ aimd' = aimd /\ pc[ch] \in Nat \ {0} /\ pc'[ch] = pc[ch] + 1
      /\ gprs' = gprs
      /\ job.cut = "whole" => Memory(ch)
  BY ExecuteFacts DEF Executes
<1>2. K \in Nat /\ K >= 4
  BY <1>1, Sizes
<1>3. Step(ch) < K - 1 /\ Step(ch)' = 2
  <2>1. Step(ch) < K - 1
    BY <1>2
  <2> QED
    BY <1>1, <2>1, NextCommand
<1>4. ASSUME job.cut = "whole" PROVE Memory(ch)'
  <2>4. \A x, t : Tile(x, t)' = Tile(x, t)
    BY <1>1, Same
  <2>6. ~(Step(ch)' >= 3) /\ ~(Step(ch)' >= 4)
    BY <1>3
  <2> QED
    BY <1>1, <1>4, <2>4, <2>6 DEF Memory
<1> QED
  BY <1>1, <1>3, <1>4, NotRead

(* The greater of two numbers.                                             *)
LEMMA MaxOfTwo ==
  ASSUME NEW a \in Int, NEW b \in Int
  PROVE  Max({a, b}) \in {a, b} /\ a <= Max({a, b}) /\ b <= Max({a, b})
<1>1. \E x \in {a, b} : \A y \in {a, b} : x >= y
  BY SMT
<1>2. Max({a, b}) = CHOOSE x \in {a, b} : \A y \in {a, b} : x >= y
  BY DEF Max
<1> DEFINE S == {a, b}
           P(x) == \A y \in S : x >= y
<1>3. \E x \in S : P(x)
  BY <1>1
<1>4. Max({a, b}) = CHOOSE x \in S : P(x)
  BY <1>2
<1> HIDE DEF P
<1>5. Max({a, b}) \in S /\ P(Max({a, b}))
  <2> HIDE DEF S
  <2> QED
    BY <1>3, <1>4, Zenon
<1> QED
  BY <1>5 DEF P

(* A row has room for all the tiles of the activation.                     *)
LEMMA TilesFit ==
  ASSUME job \in Jobs
  PROVE  tiles_per_row \in Int /\ job.tiles_q <= tiles_per_row
<1>1. MIN_TILES_PER_ROW \in Int /\ job.tiles_q \in Int
  BY GemvAssumption, JobFacts
<1> QED
  BY <1>1, MaxOfTwo DEF tiles_per_row

(* WR_GB brings the GPRs' activation, or leaves the one that was loaded.   *)
LEMMA AfterWrGb ==
  ASSUME NEW ch \in ChannelIds, Executes(ch), Step(ch) = 1, job.kind # "batch",
         UNCHANGED <<bias, acc, af, csv, buffered>>,
         global_buffer' = [global_buffer EXCEPT ![ch] = [t \in TileIds |->
           IF t < job.tiles_q /\ t \in GprIds THEN gprs[ch][t] ELSE @[t]]]
  PROVE  Computed(ch)'
<1>1. /\ job \in Jobs /\ job' = job /\ aimd' = aimd /\ pc[ch] \in Nat \ {0} /\ pc'[ch] = pc[ch] + 1
      /\ RunInv /\ GInv /\ phase = "run" /\ pc[ch] <= Len(program[ch])
      /\ job.cut = "whole" => Memory(ch)
  BY ExecuteFacts DEF Executes
<1>2. K \in Nat /\ K >= 4 /\ job.tiles_q \in Nat /\ job.token_count = 1
  BY <1>1, Sizes, JobFacts
<1>3. Result(ch)' = Result(ch)
  <2>1. Step(ch) < K - 1
    BY <1>2
  <2> QED
    BY <1>1, <2>1, NextCommand
<1>4. Result(ch) \div Count(ch) = 0
  <2>1. Result(ch) \div Count(ch) \in Tokens
    BY <1>1, AtCommand
  <2> QED
    BY <1>2, <2>1 DEF Tokens
<1>5. \A t \in 0 .. job.tiles_q - 1 : t \in TileIds
  <2>1. tiles_per_row \in Int /\ job.tiles_q <= tiles_per_row
    BY <1>1, TilesFit
  <2> QED
    BY <1>2, <2>1 DEF TileIds
<1>6. ASSUME job.cut = "whole" PROVE HasActivation(ch, 0)'
  <2>1. gprs[ch] = [g \in GprIds |-> Tile(Activation(0), g)] /\ HasActivation(ch, 0)
    BY <1>1, <1>6 DEF Memory
  <2>2. ASSUME NEW t \in 0 .. job.tiles_q - 1 PROVE global_buffer'[ch][t] = Tile(Activation(0), t)
    <3>1. t < job.tiles_q /\ t \in TileIds
      BY <1>2, <1>5
    <3>2. global_buffer'[ch][t] = IF t \in GprIds THEN gprs[ch][t] ELSE global_buffer[ch][t]
      BY <1>1, <3>1 DEF RunInv, Domains
    <3> QED
      BY <2>1, <3>2 DEF HasActivation
  <2>3. \A x, t : Tile(x, t)' = Tile(x, t)
    BY <1>1, Same
  <2> QED
    BY <1>1, <2>2, <2>3 DEF HasActivation
<1>7. HasActivation(ch, Result(ch) \div Count(ch))' <=> HasActivation(ch, 0)'
  <2>1. Count(ch)' = Count(ch)
    BY <1>1, Same
  <2> QED
    BY <1>3, <1>4, <2>1 DEF HasActivation
<1> QED
  BY <1>1, <1>6, <1>7, AfterLoad

(* COPY_BKGB brings the token's activation from the channel's vector row.  *)
LEMMA AfterCopy ==
  ASSUME NEW ch \in ChannelIds, Executes(ch), Step(ch) = 1, job.kind = "batch",
         UNCHANGED <<bias, acc, af, csv, buffered>>,
         global_buffer' = [global_buffer EXCEPT ![ch] = [t \in TileIds |->
           IF t < job.tiles_q THEN Tile(bank_rows[ch][0][program[ch][pc[ch]].row], t) ELSE @[t]]]
  PROVE  Computed(ch)'
<1> DEFINE n == Result(ch) \div Count(ch)
           row == program[ch][pc[ch]].row
<1>1. /\ job \in Jobs /\ job' = job /\ aimd' = aimd /\ pc[ch] \in Nat \ {0} /\ pc'[ch] = pc[ch] + 1
      /\ RunInv /\ GInv /\ phase = "run" /\ pc[ch] <= Len(program[ch]) /\ Files
      /\ bank_rows[ch] = [b \in BankIds |-> [x \in 0 .. MAX_ROWS - 1 |-> LoadedRow(ch, b, x)]]
  BY ExecuteFacts DEF Executes
<1>2. K \in Nat /\ K >= 4 /\ job.tiles_q \in Nat /\ 0 \in BankIds
  BY <1>1, Sizes, JobFacts, LayoutAssumption DEF BankIds
<1>3. Result(ch)' = Result(ch)
  <2>1. Step(ch) < K - 1
    BY <1>2
  <2> QED
    BY <1>1, <2>1, NextCommand
<1>4. n \in Tokens /\ row = vector_row_base(job.r) + n * NUM_CHANNELS + ch
  BY <1>1, AtCommand
<1>5. row \in 0 .. MAX_ROWS - 1 /\ LoadedRow(ch, 0, row) = Activation(n)
  <2> HIDE DEF n, row
  <2> QED
    BY <1>1, <1>4, VectorLoaded
<1>6. bank_rows[ch][0][row] = Activation(n)
  BY <1>1, <1>2, <1>5
<1>7. \A t \in 0 .. job.tiles_q - 1 : t \in TileIds
  <2>1. tiles_per_row \in Int /\ job.tiles_q <= tiles_per_row
    BY <1>1, TilesFit
  <2> QED
    BY <1>2, <2>1 DEF TileIds
<1>8. ASSUME NEW t \in 0 .. job.tiles_q - 1 PROVE global_buffer'[ch][t] = Tile(Activation(n), t)
  <2>1. t < job.tiles_q /\ t \in TileIds
    BY <1>2, <1>7
  <2> HIDE DEF n
  <2> QED
    BY <1>1, <1>6, <2>1 DEF RunInv, Domains
<1>9. HasActivation(ch, Result(ch) \div Count(ch))'
  <2>1. Count(ch)' = Count(ch) /\ \A x, t : Tile(x, t)' = Tile(x, t)
    BY <1>1, Same
  <2>2. n' = n
    BY <1>3, <2>1
  <2> HIDE DEF n
  <2>3. Tile(Activation(n), 0)' = Tile(Activation(n), 0)
    BY <1>1, <2>2 DEF Tile, Activation
  <2>4. \A t : Tile(Activation(n), t)' = Tile(Activation(n), t)
    BY <1>1, <2>2 DEF Tile, Activation
  <2>5. HasActivation(ch, n)'
    BY <1>1, <1>8, <2>4 DEF HasActivation
  <2> QED
    BY <2>5 DEF n
<1> QED
  BY <1>9, AfterLoad

(* The accumulators: every bank's weight row with the token's activation.  *)
LEMMA AfterMac ==
  ASSUME NEW ch \in ChannelIds, Executes(ch), Step(ch) = 2,
         UNCHANGED <<bias, global_buffer, af, csv, buffered>>,
         acc' = [acc EXCEPT ![ch] = [b \in BankIds |->
           [bias |-> bias[ch],
            terms |-> [t \in 0 .. job.tiles_q - 1 |->
                         <<Tile(bank_rows[ch][b][program[ch][pc[ch]].row], t), global_buffer[ch][t]>>]]]]
  PROVE  Computed(ch)'
<1> DEFINE n == Result(ch) \div Count(ch)
           g == Result(ch) % Count(ch)
           row == program[ch][pc[ch]].row
<1>1. /\ job \in Jobs /\ job' = job /\ aimd' = aimd /\ pc[ch] \in Nat \ {0} /\ pc'[ch] = pc[ch] + 1
      /\ RunInv /\ GInv /\ phase = "run" /\ pc[ch] <= Len(program[ch]) /\ Files /\ gprs' = gprs
      /\ bank_rows[ch] = [b \in BankIds |-> [x \in 0 .. MAX_ROWS - 1 |-> LoadedRow(ch, b, x)]]
      /\ job.cut = "whole" => Memory(ch)
  BY ExecuteFacts DEF Executes
<1>2. K \in Nat /\ K >= 4 /\ job.tiles_q \in Nat
  BY <1>1, Sizes, JobFacts
<1>3. Result(ch)' = Result(ch) /\ Step(ch)' = 3 /\ Step(ch) < K - 1
  <2>1. Step(ch) < K - 1
    BY <1>2
  <2> QED
    BY <1>1, <2>1, NextCommand
<1>4. g \in 0 .. Count(ch) - 1 /\ row = PhysRow(ch, g)
  BY <1>1, AtCommand
<1>5. row \in 0 .. MAX_ROWS - 1
  <2> HIDE DEF g, row
  <2> QED
    BY <1>1, <1>4, WeightsLoaded
<1>6. \A b \in BankIds : bank_rows[ch][b][row] = LoadedRow(ch, b, PhysRow(ch, g))
  <2> HIDE DEF g, row
  <2> QED
    BY <1>1, <1>4, <1>5
<1>7. ASSUME job.cut = "whole" PROVE acc'[ch] = Sum(ch, Result(ch))
  <2>1. bias[ch] = Zero /\ HasActivation(ch, n)
    BY <1>1, <1>7 DEF Memory
  <2>2. acc'[ch] = [b \in BankIds |->
           [bias |-> bias[ch],
            terms |-> [t \in 0 .. job.tiles_q - 1 |->
                         <<Tile(bank_rows[ch][b][row], t), global_buffer[ch][t]>>]]]
    BY <1>1 DEF RunInv, Domains
  <2>3. Sum(ch, Result(ch)) = [b \in BankIds |->
           [bias |-> Zero,
            terms |-> [t \in 0 .. job.tiles_q - 1 |->
                         <<Tile(LoadedRow(ch, b, PhysRow(ch, g)), t), Tile(Activation(n), t)>>]]]
    BY DEF Sum
  <2> HIDE DEF g, n, row
  <2>4. ASSUME NEW b \in BankIds
        PROVE  [t \in 0 .. job.tiles_q - 1 |-> <<Tile(bank_rows[ch][b][row], t), global_buffer[ch][t]>>]
                 = [t \in 0 .. job.tiles_q - 1 |->
                      <<Tile(LoadedRow(ch, b, PhysRow(ch, g)), t), Tile(Activation(n), t)>>]
    BY <1>6, <2>1 DEF HasActivation
  <2> QED
    BY <2>1, <2>2, <2>3, <2>4
<1>8. ASSUME job.cut = "whole" PROVE Memory(ch)'
  <2>1. Sum(ch, Result(ch))' = Sum(ch, Result(ch))
    BY <1>1, <1>3 DEF Sum, Count, PhysRow, LoadedRow, Tile, Sharded
  <2>2. \A x, t : Tile(x, t)' = Tile(x, t)
    BY <1>1, Same
  <2>3. HasActivation(ch, 0)' <=> HasActivation(ch, 0)
    BY <1>1, <2>2 DEF HasActivation
  <2>4. HasActivation(ch, Result(ch) \div Count(ch))' <=> HasActivation(ch, Result(ch) \div Count(ch))
    <3>1. Count(ch)' = Count(ch)
      BY <1>1, Same
    <3> QED
      BY <1>1, <1>3, <2>2, <3>1 DEF HasActivation
  <2>5. ~(Step(ch)' >= 4)
    BY <1>3
  <2> QED
    BY <1>1, <1>3, <1>7, <1>8, <2>1, <2>2, <2>3, <2>4, <2>5 DEF Memory
<1> QED
  BY <1>3, <1>8, NotRead

(* The activation function, applied to every bank's sum.                   *)
LEMMA AfterAf ==
  ASSUME NEW ch \in ChannelIds, Executes(ch), Step(ch) = 3, K = 5, job.output_stage = "post_activation",
         UNCHANGED <<bias, global_buffer, acc, csv, buffered>>,
         af' = [af EXCEPT ![ch] = [b \in BankIds |-> <<"af", acc[ch][b]>>]]
  PROVE  Computed(ch)'
<1>1. /\ job \in Jobs /\ job' = job /\ aimd' = aimd /\ pc[ch] \in Nat \ {0} /\ pc'[ch] = pc[ch] + 1
      /\ RunInv /\ gprs' = gprs
      /\ job.cut = "whole" => Memory(ch)
  BY ExecuteFacts DEF Executes
<1>3. Result(ch)' = Result(ch) /\ Step(ch)' = 4 /\ Step(ch) < K - 1
  BY <1>1, NextCommand
<1>8. ASSUME job.cut = "whole" PROVE Memory(ch)'
  <2>1. /\ Sum(ch, Result(ch))' = Sum(ch, Result(ch))
        /\ Value(ch, Result(ch))' = Value(ch, Result(ch))
    BY <1>1, <1>3 DEF Sum, Value, Count, PhysRow, LoadedRow, Tile, Sharded
  <2>2. \A x, t : Tile(x, t)' = Tile(x, t)
    BY <1>1, Same
  <2>3. HasActivation(ch, 0)' <=> HasActivation(ch, 0)
    BY <1>1, <2>2 DEF HasActivation
  <2>4. HasActivation(ch, Result(ch) \div Count(ch))' <=> HasActivation(ch, Result(ch) \div Count(ch))
    <3>1. Count(ch)' = Count(ch)
      BY <1>1, Same
    <3> QED
      BY <1>1, <1>3, <2>2, <3>1 DEF HasActivation
  <2>5. af'[ch] = Value(ch, Result(ch))
    <3>1. acc[ch] = Sum(ch, Result(ch))
      BY <1>1, <1>8 DEF Memory
    <3>2. af'[ch] = [b \in BankIds |-> <<"af", acc[ch][b]>>]
      BY <1>1 DEF RunInv, Domains
    <3> QED
      BY <3>1, <3>2 DEF Value
  <2> QED
    BY <1>1, <1>3, <1>8, <2>1, <2>2, <2>3, <2>4, <2>5 DEF Memory
<1> QED
  BY <1>3, <1>8, NotRead

(* A command leaves its channel's memory and log as they should be.        *)
LEMMA ExecuteOK ==
  ASSUME GInv, RunInv, NEW ch \in ChannelIds, Execute(ch)
  PROVE  Executes(ch) /\ Computed(ch)'
<1> DEFINE l == program[ch][pc[ch]]
           s == Step(ch)
<1>1. Executes(ch)
  BY DEF Execute, Executes
<1>2. /\ job \in Jobs /\ phase = "run" /\ pc[ch] <= Len(program[ch]) /\ K >= 4 /\ K \in Nat
      /\ job.cut = "whole" => Memory(ch)
  BY <1>1, ExecuteFacts, Sizes DEF Executes
<1>3. s \in 0 .. K - 1 /\ l.op = Ops(Load)[s + 1]
  BY <1>2, AtCommand
<1>4. /\ l.op = "WR_BIAS" => s = 0
      /\ l.op = "WR_GB" => s = 1 /\ job.kind # "batch"
      /\ l.op = "COPY_BKGB" => s = 1 /\ job.kind = "batch"
      /\ l.op = "MAC_ABK" => s = 2
      /\ l.op = "AF" => s = 3 /\ K = 5 /\ job.output_stage = "post_activation"
      /\ l.op = "RD_AF" => s = 4 /\ K = 5 /\ target_cmd = "RD_AF" /\ job.output_stage = "post_activation"
      /\ l.op = "RD_MAC" => s = 3 /\ K = 4 /\ target_cmd = "RD_MAC" /\ job.output_stage # "post_activation"
  <2> HIDE DEF s, l
  <2> QED
    BY <1>2, <1>3, WhichCommand
<1>5. \/ /\ l.op = "WR_BIAS"
         /\ \E named \in BOOLEAN : bias' = [bias EXCEPT ![ch] =
              IF named /\ job.tiles_q \in GprIds THEN gprs[ch][job.tiles_q] ELSE @]
         /\ UNCHANGED <<global_buffer, acc, af, buffered, csv>>
      \/ /\ l.op = "WR_GB"
         /\ global_buffer' = [global_buffer EXCEPT ![ch] = [t \in TileIds |->
              IF t < job.tiles_q /\ t \in GprIds THEN gprs[ch][t] ELSE @[t]]]
         /\ UNCHANGED <<bias, acc, af, buffered, csv>>
      \/ /\ l.op = "COPY_BKGB"
         /\ global_buffer' = [global_buffer EXCEPT ![ch] = [t \in TileIds |->
              IF t < job.tiles_q THEN Tile(bank_rows[ch][0][program[ch][pc[ch]].row], t) ELSE @[t]]]
         /\ UNCHANGED <<bias, acc, af, buffered, csv>>
      \/ /\ l.op = "MAC_ABK"
         /\ acc' = [acc EXCEPT ![ch] = [b \in BankIds |->
              [bias |-> bias[ch],
               terms |-> [t \in 0 .. job.tiles_q - 1 |->
                            <<Tile(bank_rows[ch][b][program[ch][pc[ch]].row], t), global_buffer[ch][t]>>]]]]
         /\ UNCHANGED <<bias, global_buffer, af, buffered, csv>>
      \/ /\ l.op = "AF"
         /\ af' = [af EXCEPT ![ch] = [b \in BankIds |-> <<"af", acc[ch][b]>>]]
         /\ UNCHANGED <<bias, global_buffer, acc, buffered, csv>>
      \/ l.op = "RD_AF" /\ Log(ch, Packets(ch, "RD_AF", af[ch])) /\ UNCHANGED <<bias, global_buffer, acc, af>>
      \/ l.op = "RD_MAC" /\ Log(ch, Packets(ch, "RD_MAC", acc[ch])) /\ UNCHANGED <<bias, global_buffer, acc, af>>
  BY DEF Execute
<1> HIDE DEF l
<1>6. CASE l.op = "RD_AF" /\ Log(ch, Packets(ch, "RD_AF", af[ch])) /\ UNCHANGED <<bias, global_buffer, acc, af>>
  <2>1. s = K - 1 /\ s >= 4 /\ Log(ch, Packets(ch, target_cmd, af[ch]))
    BY <1>4, <1>6
  <2>2. job.cut = "whole" => \A b \in BankIds : af[ch][b] = Value(ch, Result(ch))[b]
    BY <1>2, <2>1 DEF Memory
  <2> QED
    BY <1>1, <1>6, <2>1, <2>2, IsRead
<1>7. CASE l.op = "RD_MAC" /\ Log(ch, Packets(ch, "RD_MAC", acc[ch])) /\ UNCHANGED <<bias, global_buffer, acc, af>>
  <2>1. s = K - 1 /\ s >= 3 /\ Log(ch, Packets(ch, target_cmd, acc[ch])) /\ job.output_stage # "post_activation"
    BY <1>4, <1>7
  <2>2. job.cut = "whole" => \A b \in BankIds : acc[ch][b] = Value(ch, Result(ch))[b]
    <3>1. job.cut = "whole" => acc[ch] = Sum(ch, Result(ch))
      BY <1>2, <2>1 DEF Memory
    <3>2. \A b \in BankIds : Value(ch, Result(ch))[b] = Sum(ch, Result(ch))[b]
      BY <2>1 DEF Value
    <3> QED
      BY <3>1, <3>2
  <2> QED
    BY <1>1, <1>7, <2>1, <2>2, IsRead
<1>8. CASE l.op = "WR_BIAS" /\ UNCHANGED <<global_buffer, acc, af, buffered, csv>>
           /\ \E named \in BOOLEAN : bias' = [bias EXCEPT ![ch] =
              IF named /\ job.tiles_q \in GprIds THEN gprs[ch][job.tiles_q] ELSE @]
  BY <1>1, <1>4, <1>8, AfterBias
<1>9. CASE l.op = "WR_GB" /\ UNCHANGED <<bias, acc, af, buffered, csv>>
           /\ global_buffer' = [global_buffer EXCEPT ![ch] = [t \in TileIds |->
              IF t < job.tiles_q /\ t \in GprIds THEN gprs[ch][t] ELSE @[t]]]
  BY <1>1, <1>4, <1>9, AfterWrGb
<1>10. CASE l.op = "COPY_BKGB" /\ UNCHANGED <<bias, acc, af, buffered, csv>>
           /\ global_buffer' = [global_buffer EXCEPT ![ch] = [t \in TileIds |->
              IF t < job.tiles_q THEN Tile(bank_rows[ch][0][program[ch][pc[ch]].row], t) ELSE @[t]]]
  BY <1>1, <1>4, <1>10, AfterCopy
<1>11. CASE l.op = "MAC_ABK" /\ UNCHANGED <<bias, global_buffer, af, buffered, csv>>
            /\ acc' = [acc EXCEPT ![ch] = [b \in BankIds |->
              [bias |-> bias[ch],
               terms |-> [t \in 0 .. job.tiles_q - 1 |->
                            <<Tile(bank_rows[ch][b][program[ch][pc[ch]].row], t), global_buffer[ch][t]>>]]]]
  BY <1>1, <1>4, <1>11, AfterMac
<1>12. CASE l.op = "AF" /\ UNCHANGED <<bias, global_buffer, acc, buffered, csv>>
            /\ af' = [af EXCEPT ![ch] = [b \in BankIds |-> <<"af", acc[ch][b]>>]]
  BY <1>1, <1>4, <1>12, AfterAf
<1> QED
  BY <1>1, <1>5, <1>6, <1>7, <1>8, <1>9, <1>10, <1>11, <1>12

(* load_from_file leaves its channel ready for its first command.          *)
LEMMA LoadOK ==
  ASSUME RunInv, NEW ch \in ChannelIds, load_from_file(ch), phase' # "failed", pc[ch] \in Nat,
         DOMAIN pc = ChannelIds
  PROVE  Computed(ch)' /\ pc'[ch] = 1
<1>1. /\ phase = "load" /\ pc[ch] = 0 /\ job.cut # "banks" /\ pc' = [pc EXCEPT ![ch] = 1]
      /\ bank_rows' = [bank_rows EXCEPT ![ch] = [b \in BankIds |-> [x \in 0 .. MAX_ROWS - 1 |-> LoadedRow(ch, b, x)]]]
      /\ global_buffer' = [global_buffer EXCEPT ![ch] = [t \in TileIds |-> Tile(Activation(0), t)]]
      /\ gprs' = [gprs EXCEPT ![ch] = [g \in GprIds |-> IF job.cut = "whole" THEN Tile(Activation(0), g) ELSE Zero]]
      /\ job' = job /\ aimd' = aimd /\ bias' = bias /\ csv' = csv /\ buffered' = buffered
  BY DEF load_from_file
<1>2. job \in Jobs /\ Computed(ch)
  BY <1>1 DEF RunInv, Domains
<1>3. pc'[ch] = 1 /\ bank_rows'[ch] = [b \in BankIds |-> [x \in 0 .. MAX_ROWS - 1 |-> LoadedRow(ch, b, x)]]
      /\ global_buffer'[ch] = [t \in TileIds |-> Tile(Activation(0), t)]
      /\ gprs'[ch] = [g \in GprIds |-> IF job.cut = "whole" THEN Tile(Activation(0), g) ELSE Zero]
      /\ bias'[ch] = Zero
  BY <1>1, <1>2 DEF RunInv, Domains, Computed
<1>4. K \in Nat /\ K >= 4 /\ K' = K /\ job.tiles_q \in Nat
  BY <1>1, <1>2, Sizes, Same, JobFacts
<1>5. Done(ch) = 0 /\ Done(ch)' = 0
  BY <1>1, <1>3 DEF Done
<1>6. Result(ch)' = Result(ch) /\ Step(ch)' = 0
  <2>1. 0 = 0 * K + 0 /\ 0 \in 0 .. K - 1
    BY <1>4
  <2>2. 0 % K = 0
    BY <1>4, <2>1, DivModUnique
  <2> QED
    BY <1>4, <1>5, <2>2 DEF Result, Step
<1>7. LogOf(ch, Logged(ch), Result(ch))'
  <2>1. Logged(ch)' = Logged(ch) /\ target_cmd' = target_cmd /\ \A m : Value(ch, m)' = Value(ch, m)
    BY <1>1, Same DEF Logged
  <2>2. LogOf(ch, Logged(ch), Result(ch))
    BY <1>2 DEF Computed
  <2> QED
    BY <1>1, <1>6, <2>1, <2>2 DEF LogOf
<1>8. [b \in BankIds |-> [x \in 0 .. MAX_ROWS - 1 |-> LoadedRow(ch, b, x)]]'
        = [b \in BankIds |-> [x \in 0 .. MAX_ROWS - 1 |-> LoadedRow(ch, b, x)]]
  BY <1>1 DEF LoadedRow, Sharded
<1>9. ASSUME job.cut = "whole" PROVE Memory(ch)'
  <2>1. \A x, t : Tile(x, t)' = Tile(x, t)
    BY <1>1, Same
  <2>2. \A t \in 0 .. job.tiles_q - 1 : t \in TileIds
    <3>1. tiles_per_row \in Int /\ job.tiles_q <= tiles_per_row
      BY <1>2, TilesFit
    <3> QED
      BY <1>4, <3>1 DEF TileIds
  <2>3. HasActivation(ch, 0)'
    BY <1>1, <1>3, <2>1, <2>2 DEF HasActivation
  <2>4. gprs'[ch] = [g \in GprIds |-> Tile(Activation(0), g)]
    BY <1>3, <1>9
  <2>5. ~(Step(ch)' >= 2) /\ ~(Step(ch)' >= 3) /\ ~(Step(ch)' >= 4)
    BY <1>6
  <2> QED
    BY <1>1, <1>3, <2>1, <2>3, <2>4, <2>5 DEF Memory
<1> QED
  BY <1>1, <1>3, <1>7, <1>8, <1>9 DEF Computed

(* In every run that has not failed, the memory image fits and holds every *)
(* output's weights where the trace computes it, a channel's program is    *)
(* its results one after another, and at every point of the program the    *)
(* accumulators, the activation in the global buffer and the log are what  *)
(* the commands so far should have computed.                               *)
THEOREM RunInvariant == Spec => []RunInv
<1>1. Init => RunInv
  <2> SUFFICES ASSUME Init PROVE RunInv
    OBVIOUS
  <2>1. Domains /\ phase = "write" /\ job \in Jobs
    BY DEF Init, Domains
  <2>2. ASSUME NEW ch \in ChannelIds PROVE Progress(ch) /\ Computed(ch)
    <3>1. pc[ch] = 0 /\ bias[ch] = Zero /\ csv[ch] = <<>> /\ buffered[ch] = <<>>
      BY DEF Init
    <3>2. Logged(ch) = <<>> /\ Len(<<>>) = 0
      <4>1. <<>> \in Seq({}) /\ Len(<<>>) = 0
        OBVIOUS
      <4> QED
        BY <3>1, <4>1, ConcatEmptySeq DEF Logged
    <3>3. Result(ch) = 0
      <4>1. K \in Nat \ {0} /\ 0 = 0 * K + 0 /\ 0 \in 0 .. K - 1
        BY DEF K
      <4>2. 0 \div K = 0
        BY <4>1, DivModUnique
      <4> QED
        BY <3>1, <4>2 DEF Result, Done
    <3>4. 0 * NUM_BANKS = 0 /\ 1 .. 0 = {}
      BY LayoutAssumption
    <3>5. LogOf(ch, Logged(ch), Result(ch))
      BY <3>2, <3>3, <3>4 DEF LogOf
    <3> QED
      BY <2>1, <3>1, <3>5 DEF Progress, Computed
  <2> QED
    BY <2>1, <2>2 DEF RunInv
<1>2. RunInv /\ GInv /\ [Next]_vars => RunInv'
  <2> SUFFICES ASSUME RunInv, GInv, [Next]_vars PROVE RunInv'
    OBVIOUS
  <2>0. job \in Jobs /\ pc \in [ChannelIds -> Nat]
    BY DEF RunInv, Domains, GInv
  <2>1. CASE WriteFiles
    <3>1. /\ phase = "write" /\ aimd' = image /\ phase' = IF image.refused THEN "failed" ELSE "load"
          /\ program' = [ch \in ChannelIds |-> InOrder({l \in Trace : ch \in FindChannels(l.mask)})]
          /\ UNCHANGED <<job, memVars, runVars, parsed>>
      BY <2>1 DEF WriteFiles, image
    <3>2. Domains'
      BY <3>1 DEF RunInv, Domains, memVars, runVars
    <3>3. ASSUME phase' # "failed" PROVE Files'
      <4>1. program' = [ch \in ChannelIds |-> ProgramOf(ch)]
        BY <2>0, <3>1, ProgramShape
      <4>2. ~image.refused
        BY <3>1, <3>3
      <4>3. image' = image
        BY <3>1 DEF image, write_aimd, write_batch_token_aimd, Sharded
      <4>4. \A ch : ProgramOf(ch)' = ProgramOf(ch)
        BY <3>1 DEF ProgramOf, Results, Count, K, LineAt, PhysRow, Ops, Load, Sharded
      <4>5. [ch \in ChannelIds |-> ProgramOf(ch)]' = [ch \in ChannelIds |-> ProgramOf(ch)]
        BY <3>1 DEF ProgramOf, Results, Count, K, LineAt, PhysRow, Ops, Load, Sharded
      <4> QED
        BY <3>1, <4>1, <4>2, <4>3, <4>5 DEF Files
    <3>4. ASSUME phase' # "failed", NEW ch \in ChannelIds PROVE Progress(ch)' /\ Computed(ch)'
      <4>1. phase' = "load" /\ pc[ch] = 0 /\ Computed(ch)
        BY <3>1, <3>4 DEF RunInv, Progress
      <4>2. pc'[ch] = 0 /\ Logged(ch)' = Logged(ch) /\ bias'[ch] = bias[ch]
        BY <3>1, <4>1 DEF runVars, memVars, Logged
      <4>3. Result(ch)' = Result(ch)
        BY <3>1, <4>1, <4>2 DEF Result, Done, K
      <4>4. Result(ch) = 0
        <5>1. K \in Nat \ {0} /\ 0 = 0 * K + 0 /\ 0 \in 0 .. K - 1
          BY DEF K
        <5>2. 0 \div K = 0
          BY <5>1, DivModUnique
        <5> QED
          BY <4>1, <5>2 DEF Result, Done
      <4>5. 0 * NUM_BANKS = 0 /\ 1 .. 0 = {}
        BY LayoutAssumption
      <4>6. LogOf(ch, Logged(ch), Result(ch))'
        BY <4>1, <4>2, <4>3, <4>4, <4>5 DEF Computed, LogOf
      <4> QED
        BY <4>1, <4>2, <4>6 DEF Progress, Computed
    <3> QED
      BY <3>1, <3>2, <3>3, <3>4 DEF RunInv
  <2>2. ASSUME NEW ch \in ChannelIds, load_from_file(ch) PROVE RunInv'
    <3>1. /\ phase = "load" /\ phase' \in {"load", "run", "failed"} /\ pc[ch] = 0
          /\ UNCHANGED <<job, aimd, program, bias, acc, af, buffered, csv, parsed>>
          /\ \A c \in ChannelIds \ {ch} : /\ bank_rows'[c] = bank_rows[c] /\ gprs'[c] = gprs[c]
                                          /\ global_buffer'[c] = global_buffer[c]
          /\ DOMAIN bank_rows' = ChannelIds /\ DOMAIN global_buffer' = ChannelIds /\ DOMAIN gprs' = ChannelIds
          /\ phase' = "failed" \/ (/\ pc' = [pc EXCEPT ![ch] = 1]
                                   /\ phase' = "run" => \A c \in ChannelIds \ {ch} : pc[c] = 1)
      BY <2>2 DEF load_from_file, RunInv, Domains
    <3>2. Domains'
      BY <3>1 DEF RunInv, Domains
    <3>3. ASSUME phase' # "failed", NEW c \in ChannelIds PROVE Progress(c)' /\ Computed(c)'
      <4>1. program' = program /\ program = [x \in ChannelIds |-> ProgramOf(x)] /\ Files
        BY <3>1 DEF RunInv, Files
      <4>2. Len(program[c]) \in Nat
        BY <2>0, <4>1, Sizes
      <4>3. Progress(c) /\ Computed(c) /\ pc[c] \in {0, 1}
        BY <3>1 DEF RunInv, Progress
      <4>4. CASE c = ch
        <5>1. Computed(ch)' /\ pc'[ch] = 1
          BY <2>0, <2>2, <3>3, LoadOK
        <5>2. 1 \in 1 .. Len(program[c]) + 1
          BY <4>2
        <5>3. phase' \in {"load", "run"} /\ pc'[c] = 1 /\ program' = program
          BY <3>1, <3>3, <4>4, <5>1
        <5>4. Progress(c)'
          BY <5>2, <5>3 DEF Progress
        <5> QED
          BY <4>4, <5>1, <5>4
      <4>5. CASE c # ch
        <5>1. pc'[c] = pc[c] /\ (phase' = "run" => pc[c] = 1)
          BY <2>0, <3>1, <3>3, <4>5
        <5>2. Logged(c)' = Logged(c)
          BY <3>1 DEF Logged
        <5>3. Computed(c)'
          BY <3>1, <4>3, <4>5, <5>1, <5>2, ComputedKept
        <5>4. 1 \in 1 .. Len(program[c]) + 1
          BY <4>2
        <5>5. phase' \in {"load", "run"} /\ program' = program
          BY <3>1, <3>3
        <5>6. Progress(c)'
          BY <4>3, <5>1, <5>4, <5>5 DEF Progress
        <5> QED
          BY <5>3, <5>6
      <4> QED
        BY <4>4, <4>5
    <3>4. Files'
      BY <3>1, FilesKept DEF RunInv
    <3> QED
      BY <3>2, <3>3, <3>4 DEF RunInv
  <2>3. ASSUME NEW ch \in ChannelIds, Execute(ch) PROVE RunInv'
    <3>1. Executes(ch) /\ Computed(ch)'
      BY <2>3, ExecuteOK
    <3>2. /\ phase = "run" /\ pc' = [pc EXCEPT ![ch] = @ + 1]
          /\ UNCHANGED <<job, phase, aimd, program, bank_rows, gprs, parsed>>
      BY <3>1 DEF Executes
    <3>3. /\ \A c \in ChannelIds \ {ch} : /\ bias'[c] = bias[c] /\ global_buffer'[c] = global_buffer[c]
                                          /\ acc'[c] = acc[c] /\ af'[c] = af[c]
                                          /\ csv'[c] = csv[c] /\ buffered'[c] = buffered[c]
          /\ DOMAIN bias' = ChannelIds /\ DOMAIN global_buffer' = ChannelIds
          /\ DOMAIN acc' = ChannelIds /\ DOMAIN af' = ChannelIds
      <4>1. /\ DOMAIN bias = ChannelIds /\ DOMAIN global_buffer = ChannelIds
            /\ DOMAIN acc = ChannelIds /\ DOMAIN af = ChannelIds
        BY DEF RunInv, Domains
      <4>2. /\ \A c \in ChannelIds \ {ch} : bias'[c] = bias[c] /\ global_buffer'[c] = global_buffer[c]
                                            /\ acc'[c] = acc[c] /\ af'[c] = af[c]
            /\ DOMAIN bias' = ChannelIds /\ DOMAIN global_buffer' = ChannelIds
            /\ DOMAIN acc' = ChannelIds /\ DOMAIN af' = ChannelIds
        BY <2>3, <4>1 DEF Execute
      <4>3. \/ UNCHANGED <<csv, buffered>>
            \/ Log(ch, Packets(ch, "RD_AF", af[ch]))
            \/ Log(ch, Packets(ch, "RD_MAC", acc[ch]))
        BY <2>3 DEF Execute
      <4>4. \A c \in ChannelIds \ {ch} : csv'[c] = csv[c] /\ buffered'[c] = buffered[c]
        BY <4>3, LogAppends
      <4> QED
        BY <4>2, <4>4
    <3>4. Domains'
      BY <3>2, <3>3 DEF RunInv, Domains
    <3>5. Files'
      BY <3>2, FilesKept DEF RunInv
    <3>6. ASSUME NEW c \in ChannelIds PROVE Progress(c)' /\ Computed(c)'
      <4>1. program' = program /\ program = [x \in ChannelIds |-> ProgramOf(x)]
        BY <3>2 DEF RunInv, Files
      <4>2. Len(ProgramOf(c)) \in Nat /\ program[c] = ProgramOf(c)
        BY <2>0, <4>1, Sizes
      <4>3. Progress(c) /\ Computed(c) /\ pc[c] \in 1 .. Len(program[c]) + 1
        BY <3>2 DEF RunInv, Progress
      <4>4. CASE c = ch
        <5>1. pc[ch] \in Nat \ {0} /\ pc'[ch] = pc[ch] + 1 /\ pc'[ch] <= Len(ProgramOf(ch)) + 1
          BY <3>1, ExecuteFacts
        <5>2. pc'[ch] \in 1 .. Len(ProgramOf(ch)) + 1
          BY <4>2, <4>4, <5>1
        <5> QED
          BY <3>1, <3>2, <4>1, <4>2, <4>4, <5>2 DEF Progress
      <4>5. CASE c # ch
        <5>1. pc'[c] = pc[c]
          BY <2>0, <3>2, <4>5
        <5>2. Logged(c)' = Logged(c)
          BY <3>3, <4>5 DEF Logged
        <5>3. Computed(c)'
          BY <3>2, <3>3, <4>3, <4>5, <5>1, <5>2, ComputedKept
        <5> QED
          BY <3>2, <4>3, <5>1, <5>3 DEF Progress
      <4> QED
        BY <4>4, <4>5
    <3> QED
      BY <3>4, <3>5, <3>6 DEF RunInv
  <2>4. CASE Abort
    <3>1. phase' = "failed" /\ UNCHANGED <<job, aimd, program, memVars, pc, acc, af, csv, parsed>>
      BY <2>4 DEF Abort
    <3> QED
      BY <3>1 DEF RunInv, Domains, memVars
  <2>5. CASE Finalize
    <3>1. /\ phase = "run" /\ phase' = "parse" /\ \A ch \in ChannelIds : pc[ch] > Len(program[ch])
          /\ csv' = [ch \in ChannelIds |-> csv[ch] \o buffered[ch]]
          /\ buffered' = [ch \in ChannelIds |-> <<>>]
          /\ UNCHANGED <<job, aimd, program, memVars, pc, acc, af, parsed>>
      BY <2>5 DEF Finalize
    <3>2. Domains'
      BY <3>1 DEF RunInv, Domains, memVars
    <3>3. Files'
      BY <3>1, FilesKept DEF RunInv, memVars
    <3>4. ASSUME NEW ch \in ChannelIds PROVE Progress(ch)' /\ Computed(ch)'
      <4>1. program = [x \in ChannelIds |-> ProgramOf(x)]
        BY <3>1 DEF RunInv, Files
      <4>2. Len(program[ch]) \in Nat
        BY <2>0, <4>1, Sizes
      <4>3. Progress(ch) /\ Computed(ch) /\ pc[ch] \in 1 .. Len(program[ch]) + 1
        BY <3>1 DEF RunInv, Progress
      <4>4. pc[ch] = Len(program[ch]) + 1
        BY <3>1, <4>2, <4>3
      <4>5. Logged(ch)' = Logged(ch)
        <5>1. PICK S : csv[ch] \o buffered[ch] \in Seq(S)
          BY Append2 DEF GInv, IsSeq
        <5>2. (csv[ch] \o buffered[ch]) \o <<>> = csv[ch] \o buffered[ch]
          BY <5>1
        <5> QED
          BY <3>1, <5>2 DEF Logged
      <4>6. Computed(ch)'
        BY <3>1, <4>3, <4>5, ComputedKept DEF memVars
      <4> QED
        BY <3>1, <4>4, <4>6 DEF Progress
    <3> QED
      BY <3>1, <3>2, <3>3, <3>4 DEF RunInv
  <2>6. CASE Parse \/ Ended \/ UNCHANGED vars
    <3>1. /\ UNCHANGED <<job, aimd, program, memVars, runVars>>
          /\ phase' = phase \/ (phase = "parse" /\ phase' \in {"done", "failed"})
      BY <2>6 DEF Parse, Ended, vars
    <3>2. Domains'
      BY <3>1 DEF RunInv, Domains, memVars, runVars
    <3>3. Files => Files'
      BY <3>1, FilesKept DEF memVars, runVars
    <3>4. ASSUME NEW ch \in ChannelIds, phase' # "failed", Progress(ch), Computed(ch)
          PROVE  Progress(ch)' /\ Computed(ch)'
      <4>1. Logged(ch)' = Logged(ch) /\ pc' = pc /\ program' = program
        BY <3>1 DEF Logged, runVars
      <4>2. Computed(ch)'
        BY <3>1, <3>4, <4>1, ComputedKept DEF memVars, runVars
      <4> QED
        BY <3>1, <3>4, <4>1, <4>2 DEF Progress
    <3> QED
      BY <3>1, <3>2, <3>3, <3>4 DEF RunInv
  <2> QED
    BY <2>1, <2>2, <2>3, <2>4, <2>5, <2>6 DEF Next
<1> QED
  BY <1>1, <1>2, LogInvariant, PTL DEF Spec

---------------------------------------------------------------------------
(* What the parsers find in the log of a complete run.                     *)

(* The first places of so many blocks of m.                                *)
LEMMA BlockStarts ==
  ASSUME NEW m \in Nat \ {0}, NEW n \in Nat
  PROVE  LET S == {j \in Nat \ {0} : (j - 1) % m = 0 /\ (j - 1) \div m < n}
         IN  Cardinality(S) = n
<1> DEFINE S == {j \in Nat \ {0} : (j - 1) % m = 0 /\ (j - 1) \div m < n}
           F(k) == (k - 1) * m + 1
           f == [k \in 1 .. n |-> F(k)]
<1>1. ASSUME NEW k \in 1 .. n
      PROVE  F(k) \in S /\ (F(k) - 1) \div m = k - 1
  <2> DEFINE q == k - 1
             p == q * m
  <2>1. q \in Nat /\ q < n /\ 0 \in 0 .. m - 1
    OBVIOUS
  <2> HIDE DEF q
  <2>2. p \in Nat
    BY <2>1, SMT
  <2>3. (q * m + 0) \div m = q /\ (q * m + 0) % m = 0
    BY <2>1, DivModUnique
  <2>4. p + 0 = p /\ (p + 1) - 1 = p /\ p + 1 \in Nat \ {0}
    <3> HIDE DEF p
    <3> QED
      BY <2>2
  <2>5. F(k) = p + 1
    BY DEF q
  <2> HIDE DEF F
  <2>6. (F(k) - 1) \div m = q /\ (F(k) - 1) % m = 0 /\ F(k) \in Nat \ {0}
    BY <2>3, <2>4, <2>5
  <2> QED
    BY <2>1, <2>6 DEF q
<1>2. f \in [1 .. n -> S]
  BY <1>1
<1>3. ASSUME NEW x \in S PROVE \E k \in 1 .. n : f[k] = x
  <2> DEFINE q == (x - 1) \div m
             p == m * q
  <2>1. x - 1 \in Nat
    OBVIOUS
  <2>2. q \in Nat /\ (x - 1) % m = 0 /\ x - 1 = m * q + ((x - 1) % m) /\ q < n
    BY <2>1, DivMod
  <2>3. q + 1 \in 1 .. n /\ (q + 1) - 1 = q
    <3> HIDE DEF q
    <3> QED
      BY <2>2
  <2> HIDE DEF q
  <2>4. p \in Nat /\ p = q * m
    BY <2>2, SMT
  <2>5. p + 1 = x
    <3> HIDE DEF p
    <3>1. x - 1 = p + 0
      BY <2>2 DEF p
    <3> QED
      BY <2>4, <3>1
  <2>6. F(q + 1) = x
    BY <2>3, <2>4, <2>5
  <2> QED
    BY <2>3, <2>6
<1>4. \A i, j \in 1 .. n : i # j => f[i] # f[j]
  <2> HIDE DEF F
  <2> SUFFICES ASSUME NEW i \in 1 .. n, NEW j \in 1 .. n, f[i] = f[j] PROVE i = j
    OBVIOUS
  <2>1. F(i) = F(j)
    OBVIOUS
  <2>2. i - 1 = j - 1
    BY <1>1, <2>1
  <2> QED
    BY <2>2
<1> HIDE DEF f, S
<1>5. Cardinality(S) = n
  BY <1>2, <1>3, <1>4, Listed
<1> QED
  BY <1>5 DEF S

(* Bank numbers that count up and wrap fail to increase where they wrap.   *)
LEMMA WhereBanksWrap ==
  ASSUME NEW m \in Nat \ {0}, NEW i \in Nat, i >= 2
  PROVE  (i - 1) % m <= (i - 2) % m <=> (i - 1) % m = 0
<1> DEFINE d == i - 2
           q == d \div m
           k == d % m
<1>1. d \in Nat /\ i - 1 = d + 1
  OBVIOUS
<1>2. q \in Nat /\ k \in 0 .. m - 1 /\ d = m * q + k
  BY <1>1, DivMod
<1> HIDE DEF d
<1> HIDE DEF q, k
<1>3. m * q \in Nat /\ m * q = q * m /\ (q + 1) * m = q * m + m /\ q + 1 \in Nat
  BY <1>2, SMT
<1>4. CASE k < m - 1
  <2> DEFINE l == k + 1
  <2>1. l \in 0 .. m - 1 /\ d + 1 = q * m + l /\ k < l /\ k \in Nat /\ l # 0
    BY <1>2, <1>3, <1>4
  <2> HIDE DEF l
  <2>2. (d + 1) % m = l
    BY <1>2, <2>1, DivModUnique
  <2> QED
    BY <1>1, <2>1, <2>2 DEF k, d
<1>5. CASE k = m - 1
  <2>1. d + 1 = (q + 1) * m + 0 /\ 0 \in 0 .. m - 1 /\ k \in Nat
    BY <1>2, <1>3, <1>5
  <2>2. (d + 1) % m = 0
    BY <1>3, <2>1, DivModUnique
  <2> QED
    BY <1>1, <2>1, <2>2 DEF k, d
<1> QED
  BY <1>2, <1>4, <1>5

(* The log of a complete run.                                              *)
LEMMA CompleteLog ==
  ASSUME GInv, RunInv, phase \in {"parse", "done"}, NEW ch \in ChannelIds
  PROVE  /\ LogOf(ch, csv[ch], Results(ch)) /\ DOMAIN csv[ch] = 1 .. Len(csv[ch])
         /\ job \in Jobs /\ job.cut # "banks" /\ Files
<1>1. /\ buffered[ch] = <<>> /\ IsSeq(csv[ch])
  BY DEF GInv
<1>2. csv[ch] = Logged(ch) /\ DOMAIN csv[ch] = 1 .. Len(csv[ch])
  <2>1. PICK S : csv[ch] \in Seq(S)
    BY <1>1 DEF IsSeq
  <2> QED
    BY <1>1, <2>1 DEF Logged
<1>3. /\ job \in Jobs /\ program = [x \in ChannelIds |-> ProgramOf(x)] /\ Files
      /\ pc[ch] = Len(program[ch]) + 1 /\ Computed(ch)
  BY DEF RunInv, Domains, Files, Progress
<1>4. /\ Results(ch) \in Nat /\ Results(ch) * K \in Nat /\ Len(program[ch]) = Results(ch) * K /\ K \in Nat \ {0}
  BY <1>3, Sizes
<1> DEFINE N == Results(ch) * K
<1>5. pc[ch] # 0 /\ Done(ch) = N
  <2>1. N \in Nat /\ pc[ch] = N + 1
    BY <1>3, <1>4
  <2> HIDE DEF N
  <2> QED
    BY <2>1 DEF Done
<1>6. Result(ch) = Results(ch)
  <2>1. 0 \in 0 .. K - 1 /\ N + 0 = N
    BY <1>4
  <2>2. (Results(ch) * K + 0) \div K = Results(ch)
    BY <1>4, <2>1, DivModUnique
  <2> QED
    BY <1>5, <2>1, <2>2 DEF Result
<1> QED
  BY <1>2, <1>3, <1>5, <1>6 DEF Computed

(* It is cut into the results of the channel, each with all banks.         *)
LEMMA EventsShape ==
  ASSUME GInv, RunInv, phase \in {"parse", "done"}, NEW ch \in ChannelIds
  PROVE  LET events == parse_rtl_events(ch, target_cmd)
         IN  /\ DOMAIN events = 1 .. Results(ch)
             /\ \A k \in 1 .. Results(ch) :
                  /\ DOMAIN events[k] = BankIds
                  /\ job.cut = "whole" => \A b \in BankIds : events[k][b] = Value(ch, k - 1)[b]
<1> DEFINE log == csv[ch]
           m == NUM_BANKS
           R == Results(ch)
           N == R * m
           rows == OfCommand(ch, target_cmd)
           first == {i \in rows : \/ \A j \in rows : i <= j
                                  \/ csv[ch][i].bank <= Previous(ch, rows, i).bank}
           events == parse_rtl_events(ch, target_cmd)
           rank(i) == Cardinality({j \in first : j <= i})
           Of(k) == {log[i] : i \in {i \in rows : rank(i) = k}}
<1>1. /\ m \in Nat \ {0} /\ R \in Nat /\ N \in Nat
  <2>1. m \in Nat \ {0} /\ R \in Nat
    BY CompleteLog, Sizes
  <2> HIDE DEF m, R
  <2> QED
    BY <2>1, SMT
<1>2. /\ Len(log) = N
      /\ \A j \in 1 .. N :
           /\ log[j].bank = (j - 1) % m /\ log[j].command = target_cmd
           /\ job.cut = "whole" => log[j].value = Value(ch, (j - 1) \div m)[(j - 1) % m]
      /\ DOMAIN log = 1 .. N
  BY CompleteLog DEF LogOf
<1>3. rows = 1 .. N
  BY <1>2 DEF OfCommand
<1> HIDE DEF rows
<1>4. ASSUME NEW i \in 1 .. N
      PROVE  i \in first <=> (i - 1) % m = 0
  <2>1. i \in Nat /\ i >= 1 /\ i \in rows
    BY <1>1, <1>3
  <2>2. CASE i = 1
    <3>1. \A j \in rows : i <= j
      BY <1>1, <1>3, <2>2
    <3>2. 0 % m = 0
      <4>1. 0 * m + 0 = 0 /\ 0 \in 0 .. m - 1
        BY <1>1
      <4> QED
        BY <1>1, <4>1, DivModUnique
    <3> QED
      BY <2>1, <2>2, <3>1, <3>2
  <2>3. CASE i # 1
    <3>1. i >= 2 /\ 1 \in rows /\ i - 1 \in rows /\ ~(i <= 1) /\ rows \in SUBSET Nat
      BY <1>1, <1>3, <2>1, <2>3
    <3> DEFINE p == Max({j \in rows : j < i})
    <3>2. p \in rows /\ p < i /\ \A j \in rows : j < i => j <= p
      <4>1. i \in Nat /\ 1 < i /\ 1 \in rows /\ rows \in SUBSET Nat
        BY <2>1, <3>1
      <4> QED
        BY <4>1, LastBefore, Zenon
    <3> HIDE DEF p
    <3>3. p = i - 1
      <4>1. p \in Nat /\ i - 1 < i
        BY <2>1, <3>1, <3>2
      <4>2. i - 1 <= p
        BY <3>1, <3>2, <4>1
      <4> QED
        BY <2>1, <3>2, <4>1, <4>2
    <3>4. Previous(ch, rows, i) = log[i - 1]
      BY <3>3 DEF Previous, p
    <3>5. log[i - 1].bank = (i - 2) % m /\ log[i].bank = (i - 1) % m
      <4>1. i - 1 \in 1 .. N /\ (i - 1) - 1 = i - 2
        BY <1>3, <2>1, <3>1
      <4> QED
        BY <1>2, <4>1
    <3>6. (i - 1) % m <= (i - 2) % m <=> (i - 1) % m = 0
      BY <1>1, <2>1, <3>1, WhereBanksWrap
    <3> QED
      BY <2>1, <3>1, <3>4, <3>5, <3>6
  <2> QED
    BY <2>2, <2>3
<1>5. first \subseteq 1 .. N
  BY <1>3
<1> HIDE DEF first
<1>6. Cardinality(first) = R
  <2> DEFINE S == {j \in Nat \ {0} : (j - 1) % m = 0 /\ (j - 1) \div m < R}
  <2>1. ASSUME NEW j \in first PROVE j \in S
    <3>1. j \in 1 .. N /\ j \in Nat \ {0} /\ j - 1 \in Nat /\ j - 1 < N
      <4>1. j \in 1 .. N
        BY <1>5
      <4> HIDE DEF N
      <4> QED
        BY <1>1, <4>1
    <3>2. (j - 1) \div m \in 0 .. R - 1
      BY <1>1, <3>1, PairOfNumber
    <3>3. (j - 1) \div m < R
      BY <1>1, <3>2
    <3> QED
      BY <1>4, <3>1, <3>3
  <2>2. ASSUME NEW j \in S PROVE j \in first
    <3> DEFINE q == (j - 1) \div m
    <3>1. j - 1 \in Nat /\ j \in Nat \ {0} /\ (j - 1) % m = 0 /\ q < R
      OBVIOUS
    <3>2. q \in Nat /\ j - 1 = m * q + ((j - 1) % m)
      BY <1>1, <3>1, DivMod
    <3> HIDE DEF q, S
    <3>3. q \in 0 .. R - 1 /\ 0 \in 0 .. m - 1
      BY <1>1, <3>1, <3>2
    <3>4. q * m + 0 \in Nat /\ q * m + 0 < R * m
      BY <1>1, <3>3, NumberOfPair
    <3>5. m * q = q * m /\ q * m \in Nat
      BY <1>1, <3>2, SMT
    <3>6. j - 1 < N
      BY <3>1, <3>2, <3>4, <3>5
    <3>7. j \in 1 .. N
      <4> HIDE DEF N
      <4> QED
        BY <1>1, <3>1, <3>6
    <3> QED
      BY <1>4, <3>1, <3>7
  <2>3. first = S
    <3> HIDE DEF S
    <3> QED
      BY <2>1, <2>2
  <2> QED
    BY <1>1, <2>3, BlockStarts
<1>7. ASSUME NEW i \in 1 .. N PROVE rank(i) = ((i - 1) \div m) + 1
  <2> DEFINE n == ((i - 1) \div m) + 1
             S == {j \in Nat \ {0} : (j - 1) % m = 0 /\ (j - 1) \div m < n}
             T == {j \in first : j <= i}
             h == (i - 1) \div m
  <2>1. i \in Nat /\ i - 1 \in Nat /\ i <= N
    BY <1>1
  <2>2. h \in Nat /\ n \in Nat /\ i - 1 = m * h + ((i - 1) % m) /\ (i - 1) % m \in Nat
    BY <1>1, <2>1, DivMod
  <2>3. ASSUME NEW j \in T PROVE j \in S
    <3>1. j \in 1 .. N /\ j <= i /\ j \in first
      BY <1>5
    <3>2. j \in Nat \ {0} /\ j - 1 \in Nat /\ j - 1 <= i - 1
      <4> HIDE DEF N, T, S
      <4> QED
        BY <1>1, <2>1, <3>1
    <3>3. (j - 1) \div m <= h
      BY <1>1, <2>1, <3>2, DivMonotone
    <3>4. (j - 1) \div m \in Nat
      BY <1>1, <3>2, DivMod
    <3>5. (j - 1) \div m < n
      <4> HIDE DEF h
      <4> QED
        BY <2>2, <3>3, <3>4 DEF h
    <3> QED
      BY <1>4, <3>1, <3>2, <3>5
  <2>4. ASSUME NEW j \in S PROVE j \in T
    <3> DEFINE q == (j - 1) \div m
    <3>1. j - 1 \in Nat /\ j \in Nat \ {0} /\ (j - 1) % m = 0 /\ q < n
      OBVIOUS
    <3>2. q \in Nat /\ j - 1 = m * q + ((j - 1) % m)
      BY <1>1, <3>1, DivMod
    <3>3. q <= h
      <4> HIDE DEF q, S, T
      <4> QED
        BY <2>2, <3>1, <3>2
    <3> HIDE DEF q, S, T, h, n
    <3>4. m * q <= m * h /\ m * q \in Nat /\ m * h \in Nat
      BY <1>1, <2>2, <3>2, <3>3, SMT
    <3>5. j - 1 <= i - 1
      BY <2>1, <2>2, <3>1, <3>2, <3>4
    <3>6. j <= i /\ j \in 1 .. N
      <4> HIDE DEF N
      <4> QED
        BY <1>1, <2>1, <3>1, <3>5
    <3>7. j \in first
      BY <1>4, <3>1, <3>6
    <3> QED
      BY <3>6, <3>7 DEF T
  <2>5. T = S
    <3> HIDE DEF S, T
    <3> QED
      BY <2>3, <2>4
  <2>6. Cardinality(S) = n
    BY <1>1, <2>2, BlockStarts
  <2> QED
    BY <2>5, <2>6
<1>8. events = [k \in 1 .. Cardinality(first) |->
                  [b \in {x.bank : x \in Of(k)} |-> (CHOOSE x \in Of(k) : x.bank = b).value]]
  BY DEF parse_rtl_events, Events, rows, first
<1> HIDE DEF rank, events
<1>9. ASSUME NEW k \in 1 .. R
      PROVE  /\ DOMAIN events[k] = BankIds
             /\ job.cut = "whole" => \A b \in BankIds : events[k][b] = Value(ch, k - 1)[b]
  <2> DEFINE q == k - 1
             place(b) == q * m + b + 1
  <2>1. q \in 0 .. R - 1 /\ q \in Nat /\ k = q + 1
    BY <1>1
  <2>2. ASSUME NEW b \in BankIds
        PROVE  /\ place(b) \in 1 .. N /\ (place(b) - 1) \div m = q /\ (place(b) - 1) % m = b
    <3>1. b \in 0 .. m - 1 /\ b \in Nat
      BY DEF BankIds
    <3> HIDE DEF q
    <3>2. q * m + b \in Nat /\ q * m + b < R * m /\ (q * m + b) \div m = q /\ (q * m + b) % m = b
      BY <1>1, <2>1, <3>1, NumberOfPair
    <3> DEFINE y == q * m + b
    <3>3. place(b) = y + 1 /\ y \in Nat /\ y < N
      BY <3>2
    <3> HIDE DEF y, N, place
    <3>4. place(b) \in 1 .. N /\ place(b) - 1 = y
      BY <1>1, <3>3
    <3> QED
      BY <3>2, <3>4 DEF y
  <2> HIDE DEF place, q
  <2>3. \A b \in BankIds : log[place(b)] \in Of(k) /\ log[place(b)].bank = b
    <3> TAKE b \in BankIds
    <3>1. rank(place(b)) = k
      BY <1>7, <2>1, <2>2
    <3>2. log[place(b)] \in Of(k)
      BY <1>3, <2>2, <3>1
    <3> HIDE DEF log
    <3> QED
      BY <1>2, <2>2, <3>2 DEF log
  <2>4. ASSUME NEW x \in Of(k) PROVE x.bank \in BankIds /\ x = log[place(x.bank)]
    <3>1. PICK i \in rows : rank(i) = k /\ x = log[i]
      OBVIOUS
    <3>2. i \in 1 .. N
      BY <1>3, <3>1
    <3>3. i \in Nat /\ i - 1 \in Nat
      BY <1>1, <3>2
    <3> DEFINE h == (i - 1) \div m
               l == (i - 1) % m
    <3>4. h \in Nat /\ l \in 0 .. m - 1 /\ i - 1 = m * h + l
      BY <1>1, <3>3, DivMod
    <3>5. h + 1 = k /\ x.bank = l
      BY <1>2, <1>7, <3>1, <3>2
    <3> HIDE DEF h, l
    <3>6. h = q
      BY <2>1, <3>4, <3>5
    <3>7. m * h = q * m /\ q * m \in Nat
      BY <1>1, <2>1, <3>6, SMT
    <3>8. i = place(l)
      BY <3>3, <3>4, <3>7 DEF place
    <3> QED
      BY <3>1, <3>4, <3>5, <3>8 DEF BankIds
  <2>5. k \in 1 .. Cardinality(first)
    BY <1>6
  <2>6. events[k] = [b \in {x.bank : x \in Of(k)} |-> (CHOOSE x \in Of(k) : x.bank = b).value]
    BY <1>8, <2>5
  <2> HIDE DEF Of
  <2>7. {x.bank : x \in Of(k)} = BankIds
    BY <2>3, <2>4
  <2>8. ASSUME NEW b \in BankIds PROVE events[k][b] = log[place(b)].value
    <3>1. (CHOOSE x \in Of(k) : x.bank = b) = log[place(b)]
      BY <2>3, <2>4
    <3> QED
      BY <2>6, <2>7, <3>1
  <2>9. ASSUME NEW b \in BankIds, job.cut = "whole" PROVE log[place(b)].value = Value(ch, q)[b]
    BY <1>2, <2>2, <2>9
  <2> QED
    BY <2>6, <2>7, <2>8, <2>9 DEF q
<1>10. DOMAIN events = 1 .. R
  BY <1>6, <1>8
<1> QED
  BY <1>9, <1>10 DEF events

---------------------------------------------------------------------------
(* The output vectors.                                                     *)

(* What a channel computes for a token from a row group is the reference   *)
(* of the output row whose weights its bank holds.                         *)
LEMMA ResultIsReference ==
  ASSUME job \in Jobs, Files, NEW ch \in ChannelIds, NEW g \in 0 .. Count(ch) - 1, NEW n \in Tokens,
         NEW b \in BankIds, NEW row, row = WeightRow(ch, b, g), row < job.r
  PROVE  LET k == n * Count(ch) + g + 1
         IN  k \in 1 .. Results(ch) /\ Value(ch, k - 1)[b] = cpu_reference(n, row)
<1> DEFINE c == Count(ch)
           m == n * c + g
           tc == job.token_count
<1>1. c \in Nat /\ tc \in Nat /\ g \in 0 .. c - 1 /\ n \in 0 .. tc - 1 /\ Results(ch) = tc * c
  BY Sizes, JobFacts DEF Tokens, Results
<1>2. m \in Nat /\ m < tc * c /\ m \div c = n /\ m % c = g /\ c \in Nat \ {0}
  <2> HIDE DEF c, tc
  <2>1. c \in Nat \ {0}
    BY <1>1
  <2> QED
    BY <1>1, <2>1, NumberOfPair
<1>3. LoadedRow(ch, b, PhysRow(ch, g)) = Weight(row)
  BY WeightsLoaded
<1> DEFINE k == n * Count(ch) + g + 1
<1>4. k \in 1 .. Results(ch) /\ k - 1 = m
  <2>1. k = m + 1
    OBVIOUS
  <2>2. Results(ch) \in Nat /\ m < Results(ch)
    BY <1>1, <1>2, Sizes
  <2> HIDE DEF k, m
  <2> QED
    BY <1>2, <2>1, <2>2
<1> HIDE DEF k
<1> HIDE DEF m, c
<1>5. Sum(ch, m)[b] = [bias |-> Zero,
                       terms |-> [t \in 0 .. job.tiles_q - 1 |-> <<Tile(Weight(row), t), Tile(Activation(n), t)>>]]
  BY <1>2, <1>3 DEF Sum, c
<1>6. Value(ch, m)[b] = cpu_reference(n, row)
  BY <1>5 DEF Value, cpu_reference
<1> QED
  BY <1>4, <1>6 DEF k

Output(n) == CASE job.kind = "broadcast"   -> parse_rtl_csv
               [] job.kind = "row_sharded" -> parse_rtl_results
               [] job.kind = "batch"       -> parse_batch_token_results(n)
               [] job.kind = "matmul"      -> write_output(n)

(* One value per output row, the reference if the file was whole.          *)
Right(n, out) ==
  /\ DOMAIN out = 0 .. job.r - 1
  /\ \A row \in 0 .. job.r - 1 :
       \E v : out[row] = <<v>> /\ (job.cut = "whole" => v = cpu_reference(n, row))

(* An event that a parser looks for is there and holds the output row.     *)
LEMMA EventFound ==
  ASSUME GInv, RunInv, phase \in {"parse", "done"},
         NEW ch \in ChannelIds, NEW g \in 0 .. Count(ch) - 1, NEW n \in Tokens,
         NEW b \in BankIds, NEW row, row = WeightRow(ch, b, g), row < job.r
  PROVE  LET events == parse_rtl_events(ch, target_cmd)
             k == n * Count(ch) + g + 1
         IN  /\ k \in DOMAIN events /\ b \in DOMAIN events[k] /\ At(events, k, b) = <<events[k][b]>>
             /\ job.cut = "whole" => events[k][b] = cpu_reference(n, row)
<1> DEFINE events == parse_rtl_events(ch, target_cmd)
           k == n * Count(ch) + g + 1
<1>1. job \in Jobs /\ Files
  BY CompleteLog
<1>2. k \in 1 .. Results(ch) /\ Value(ch, k - 1)[b] = cpu_reference(n, row)
  BY <1>1, ResultIsReference
<1> HIDE DEF k
<1>3. /\ DOMAIN events = 1 .. Results(ch)
      /\ DOMAIN events[k] = BankIds
      /\ job.cut = "whole" => events[k][b] = Value(ch, k - 1)[b]
  BY <1>2, EventsShape
<1>4. k \in DOMAIN events /\ b \in DOMAIN events[k]
  BY <1>2, <1>3
<1>5. At(events, k, b) = <<events[k][b]>>
  BY <1>4 DEF At
<1> QED
  BY <1>2, <1>3, <1>4, <1>5 DEF k

(* parse_rtl_csv takes the rows' values in the order of the rows.          *)
LEMMA BroadcastRight ==
  ASSUME GInv, RunInv, phase = "parse", NEW n \in Tokens, job.kind = "broadcast"
  PROVE  Right(n, parse_rtl_csv)
<1> DEFINE events == parse_rtl_events(0, target_cmd)
           with_0 == {k \in DOMAIN events : 0 \in DOMAIN events[k]}
           r == job.r
           Before0(k) == {j \in with_0 : j < k}
<1>1. /\ job \in Jobs /\ 0 \in ChannelIds /\ 0 \in BankIds
  BY LayoutAssumption DEF RunInv, Domains, ChannelIds, BankIds
<1>2. r \in Nat \ {0} /\ n = 0 /\ Count(0) = r /\ Results(0) = r
  BY <1>1, JobFacts DEF Tokens, Count, Sharded, Results
<1>3. DOMAIN events = 1 .. r /\ \A k \in 1 .. r : DOMAIN events[k] = BankIds
  BY <1>1, <1>2, EventsShape
<1> HIDE DEF events
<1>4. with_0 = 1 .. r
  BY <1>1, <1>3
<1>5. ASSUME NEW k \in 1 .. r PROVE Cardinality(Before0(k)) = k - 1
  <2>1. Before0(k) = 1 .. k - 1 /\ k - 1 \in Nat
    BY <1>2, <1>4
  <2> HIDE DEF Before0
  <2> QED
    BY <2>1, FS_Interval
<1>6. Cardinality(with_0) = r
  <2> HIDE DEF with_0
  <2> QED
    BY <1>2, <1>4, FS_Interval
<1>7. parse_rtl_csv = [x \in 0 .. Cardinality(with_0) - 1 |->
                         <<events[CHOOSE k \in with_0 : Cardinality(Before0(k)) = x][0]>>]
  BY DEF parse_rtl_csv, events
<1> HIDE DEF Before0, with_0, r
<1>8. ASSUME NEW row \in 0 .. r - 1
      PROVE  (CHOOSE k \in with_0 : Cardinality(Before0(k)) = row) = row + 1
  <2>1. row + 1 \in 1 .. r /\ (row + 1) - 1 = row
    BY <1>2
  <2>2. ASSUME NEW k \in with_0, Cardinality(Before0(k)) = row PROVE k = row + 1
    BY <1>2, <1>4, <1>5, <2>2
  <2>3. Cardinality(Before0(row + 1)) = row
    BY <1>5, <2>1
  <2> QED
    BY <1>4, <2>1, <2>2, <2>3
<1>9. DOMAIN parse_rtl_csv = 0 .. r - 1
  BY <1>6, <1>7
<1>10. ASSUME NEW row \in 0 .. r - 1
       PROVE  /\ parse_rtl_csv[row] = <<events[row + 1][0]>>
              /\ job.cut = "whole" => events[row + 1][0] = cpu_reference(n, row)
  <2>1. parse_rtl_csv[row] = <<events[row + 1][0]>>
    BY <1>6, <1>7, <1>8
  <2>2. row < job.r /\ row \in 0 .. Count(0) - 1 /\ row = WeightRow(0, 0, row)
    BY <1>2 DEF r, WeightRow, Sharded
  <2>3. n * Count(0) + row + 1 = row + 1
    BY <1>2
  <2>4. job.cut = "whole" => events[n * Count(0) + row + 1][0] = cpu_reference(n, row)
    BY <1>1, <2>2, EventFound DEF events
  <2> QED
    BY <2>1, <2>3, <2>4
<1> QED
  BY <1>9, <1>10 DEF Right, r

(* In the row-sharded layouts the parser goes where the output row is.     *)
LEMMA ShardedPlace ==
  ASSUME job \in Jobs, Sharded, NEW row \in 0 .. job.r - 1
  PROVE  LET loc == output_location(row)
         IN  /\ loc.channel \in ChannelIds /\ loc.bank \in BankIds /\ loc.group \in Nat
             /\ loc.group \in 0 .. Count(loc.channel) - 1
             /\ row = WeightRow(loc.channel, loc.bank, loc.group) /\ row < job.r
<1> DEFINE loc == output_location(row)
<1>1. job.r \in Nat \ {0} /\ row \in Nat /\ row < job.r
  BY JobFacts
<1>2. loc.channel \in ChannelIds /\ loc.bank \in BankIds /\ loc.group \in Nat
  BY <1>1, LocationType
<1>3. row = output_row(loc.bank, loc.physical_row)
  BY <1>1, ParserFindsTheRow
<1>4. loc.physical_row = loc.group * NUM_CHANNELS + loc.channel
  BY DEF output_location
<1>5. loc.group < GroupsOf(job.r, loc.channel)
  BY <1>1, <1>2, RowOfGroup
<1> HIDE DEF loc
<1>6. GroupsOf(job.r, loc.channel) \in Nat
  BY <1>1, <1>2, GroupsCounted
<1>7. Count(loc.channel) = GroupsOf(job.r, loc.channel) /\ loc.group \in 0 .. Count(loc.channel) - 1
  BY <1>2, <1>5, <1>6 DEF Count
<1>8. row = WeightRow(loc.channel, loc.bank, loc.group)
  BY <1>3, <1>4 DEF WeightRow, PhysRow
<1> QED
  BY <1>1, <1>2, <1>7, <1>8 DEF loc

(* parse_rtl_results finds every output row at its place.                  *)
LEMMA RowShardedRight ==
  ASSUME GInv, RunInv, phase = "parse", NEW n \in Tokens, job.kind = "row_sharded"
  PROVE  Right(n, parse_rtl_results)
<1>1. job \in Jobs /\ Sharded
  BY DEF RunInv, Domains, Sharded
<1>2. n = 0
  BY <1>1, JobFacts DEF Tokens
<1>3. DOMAIN parse_rtl_results = 0 .. job.r - 1
  BY DEF parse_rtl_results
<1>4. ASSUME NEW row \in 0 .. job.r - 1
      PROVE  \E v : parse_rtl_results[row] = <<v>> /\ (job.cut = "whole" => v = cpu_reference(n, row))
  <2> DEFINE ch == output_location(row).channel
             g == output_location(row).group
             b == output_location(row).bank
             events == parse_rtl_events(ch, target_cmd)
  <2>1. parse_rtl_results[row] = At(events, g + 1, b)
    BY DEF parse_rtl_results
  <2>2. /\ ch \in ChannelIds /\ b \in BankIds /\ g \in Nat /\ g \in 0 .. Count(ch) - 1
        /\ row = WeightRow(ch, b, g) /\ row < job.r
    BY <1>1, ShardedPlace
  <2>3. n * Count(ch) + g + 1 = g + 1
    BY <1>1, <1>2, <2>2, Sizes
  <2> HIDE DEF ch, g, b
  <2>4. /\ At(events, g + 1, b) = <<events[g + 1][b]>>
        /\ job.cut = "whole" => events[g + 1][b] = cpu_reference(n, row)
    <3> DEFINE k == n * Count(ch) + g + 1
    <3>1. At(events, k, b) = <<events[k][b]>> /\ (job.cut = "whole" => events[k][b] = cpu_reference(n, row))
      BY <2>2, EventFound
    <3> QED
      BY <2>3, <3>1
  <2> QED
    BY <2>1, <2>4
<1> QED
  BY <1>3, <1>4 DEF Right

(* parse_batch_token_results finds every token's output rows.              *)
LEMMA BatchRight ==
  ASSUME GInv, RunInv, phase = "parse", NEW n \in Tokens, job.kind = "batch"
  PROVE  Right(n, parse_batch_token_results(n))
<1>1. job \in Jobs /\ Sharded
  BY DEF RunInv, Domains, Sharded
<1>2. DOMAIN parse_batch_token_results(n) = 0 .. job.r - 1
  BY DEF parse_batch_token_results
<1>3. ASSUME NEW row \in 0 .. job.r - 1
      PROVE  \E v : parse_batch_token_results(n)[row] = <<v>> /\ (job.cut = "whole" => v = cpu_reference(n, row))
  <2> DEFINE ch == output_location(row).channel
             h == output_location(row).group
             b == output_location(row).bank
             events == parse_rtl_events(ch, target_cmd)
             local_groups == row_sharded_groups_by_channel(job.r)[ch]
             c == Count(ch)
  <2>1. parse_batch_token_results(n)[row]
          = At(events, n * Cardinality(local_groups) + Cardinality({g \in local_groups : g < h}) + 1, b)
    BY DEF parse_batch_token_results
  <2>2. /\ ch \in ChannelIds /\ b \in BankIds /\ h \in Nat /\ h \in 0 .. c - 1
        /\ row = WeightRow(ch, b, h) /\ row < job.r
    BY <1>1, ShardedPlace
  <2>3. c \in Nat /\ c = GroupsOf(job.r, ch)
    BY <1>1, <2>2, Sizes DEF Count
  <2> HIDE DEF ch, h, b, c
  <2>4. local_groups = 0 .. c - 1
    BY <1>1, <2>2, <2>3, JobFacts, RowOfGroup
  <2>5. Cardinality(local_groups) = c
    <3> HIDE DEF local_groups
    <3>1. c - 1 \in Int /\ 0 \in Int /\ (0 > c - 1 => c = 0) /\ (0 <= c - 1 => c - 1 - 0 + 1 = c)
      BY <2>3
    <3> QED
      BY <2>4, <3>1, FS_Interval
  <2>6. Cardinality({g \in local_groups : g < h}) = h
    <3> DEFINE S == {g \in local_groups : g < h}
    <3>1. S = 0 .. h - 1
      BY <2>2, <2>3, <2>4
    <3>2. h - 1 \in Int /\ 0 \in Int /\ (0 > h - 1 => h = 0) /\ (0 <= h - 1 => h - 1 - 0 + 1 = h)
      BY <2>2
    <3> HIDE DEF S
    <3>3. Cardinality(S) = h
      BY <3>1, <3>2, FS_Interval
    <3> QED
      BY <3>3 DEF S
  <2> HIDE DEF local_groups, events
  <2>7. parse_batch_token_results(n)[row] = At(events, n * c + h + 1, b)
    BY <2>1, <2>5, <2>6
  <2>8. /\ At(events, n * c + h + 1, b) = <<events[n * c + h + 1][b]>>
        /\ job.cut = "whole" => events[n * c + h + 1][b] = cpu_reference(n, row)
    BY <2>2, EventFound DEF events, c
  <2> QED
    BY <2>7, <2>8
<1> QED
  BY <1>2, <1>3 DEF Right

(* extract_matmul_results finds the rows, whichever command it looks for.  *)
LEMMA MatmulRight ==
  ASSUME GInv, RunInv, ParsersAgree, phase = "parse", NEW n \in Tokens, job.kind = "matmul"
  PROVE  extracted # <<>> /\ Right(n, write_output(n))
<1> DEFINE events == parse_rtl_events(0, target_cmd)
           r == job.r
<1>1. /\ job \in Jobs /\ 0 \in ChannelIds /\ 0 \in BankIds
  BY LayoutAssumption DEF RunInv, Domains, ChannelIds, BankIds
<1>2. r \in Nat \ {0} /\ n = 0 /\ Count(0) = r /\ Results(0) = r
  BY <1>1, JobFacts DEF Tokens, Count, Sharded, Results
<1>3. DOMAIN events = 1 .. r
  BY <1>1, <1>2, EventsShape
<1>4. parse_csv(0, target_cmd) = events
  BY <1>1 DEF ParsersAgree
<1>5. extracted = events
  <2>1. CASE target_cmd = "RD_AF"
    <3>1. events # <<>>
      <4>1. DOMAIN <<>> = {} /\ 1 \in 1 .. r
        BY <1>2
      <4> QED
        BY <1>3, <4>1
    <3> QED
      BY <1>4, <2>1, <3>1 DEF extracted
  <2>2. CASE target_cmd # "RD_AF"
    <3>1. target_cmd = "RD_MAC"
      BY <2>2 DEF target_cmd
    <3>2. OfCommand(0, "RD_AF") = {}
      <4>1. \A j \in DOMAIN csv[0] : csv[0][j].command = "RD_MAC"
        BY <1>1, <3>1, CompleteLog DEF LogOf
      <4> QED
        BY <4>1 DEF OfCommand
    <3>3. parse_csv(0, "RD_AF") = <<>>
      <4> DEFINE first == {i \in OfCommand(0, "RD_AF") :
                             \/ \A j \in OfCommand(0, "RD_AF") : i <= j
                             \/ csv[0][i].cycle # Previous(0, OfCommand(0, "RD_AF"), i).cycle}
      <4>1. first = {}
        BY <3>2
      <4>2. parse_csv(0, "RD_AF") = Events(0, OfCommand(0, "RD_AF"), first)
        BY DEF parse_csv
      <4> HIDE DEF first
      <4>3. Cardinality(first) = 0
        BY <4>1, FS_EmptySet
      <4>4. 1 .. Cardinality(first) = {}
        BY <4>3
      <4>5. DOMAIN parse_csv(0, "RD_AF") = {} /\ parse_csv(0, "RD_AF") = [x \in {} |-> parse_csv(0, "RD_AF")[x]]
        BY <4>2, <4>4 DEF Events
      <4> QED
        BY <4>5
    <3> QED
      BY <1>4, <3>1, <3>3 DEF extracted
  <2> QED
    BY <2>1, <2>2
<1>6. extracted # <<>>
  <2>1. DOMAIN <<>> = {} /\ 1 \in 1 .. r
    BY <1>2
  <2> QED
    BY <1>3, <1>5, <2>1
<1>7. Len(extracted) = r
  BY <1>2, <1>3, <1>5
<1> HIDE DEF events
<1>8. {x \in 0 .. job.r - 1 : n * job.r + x < Len(extracted)} = 0 .. job.r - 1
  BY <1>2, <1>7
<1>9. DOMAIN write_output(n) = 0 .. job.r - 1
  BY <1>8 DEF write_output
<1>10. ASSUME NEW row \in 0 .. job.r - 1
       PROVE  /\ write_output(n)[row] = <<events[row + 1][0]>>
              /\ job.cut = "whole" => events[row + 1][0] = cpu_reference(n, row)
  <2>1. write_output(n)[row] = At(events, n * job.r + row + 1, 0)
    BY <1>5, <1>8 DEF write_output
  <2>2. row < job.r /\ row \in 0 .. Count(0) - 1 /\ row = WeightRow(0, 0, row)
    BY <1>2 DEF WeightRow, Sharded
  <2>3. n * Count(0) + row + 1 = row + 1 /\ n * job.r + row + 1 = row + 1
    BY <1>2
  <2>4. /\ At(events, n * Count(0) + row + 1, 0) = <<events[n * Count(0) + row + 1][0]>>
        /\ job.cut = "whole" => events[n * Count(0) + row + 1][0] = cpu_reference(n, row)
    BY <1>1, <2>2, EventFound DEF events
  <2> QED
    BY <2>1, <2>3, <2>4
<1> QED
  BY <1>6, <1>9, <1>10 DEF Right

(* All four parsers.                                                       *)
LEMMA OutputsRight ==
  ASSUME GInv, RunInv, ParsersAgree, phase = "parse"
  PROVE  /\ \A n \in Tokens : Right(n, Output(n))
         /\ job.kind = "matmul" => extracted # <<>>
<1>1. job \in Jobs
  BY DEF RunInv, Domains
<1>2. ASSUME NEW n \in Tokens PROVE Right(n, Output(n))
  BY <1>1, JobFacts, BroadcastRight, RowShardedRight, BatchRight, MatmulRight DEF Output
<1>3. ASSUME job.kind = "matmul" PROVE extracted # <<>>
  <2>1. 0 \in Tokens
    BY <1>1, <1>3, JobFacts DEF Tokens
  <2> QED
    BY <1>3, <2>1, MatmulRight
<1> QED
  BY <1>2, <1>3

(* A complete log parses, and gives every token its reference.             *)
LEMMA ParseOK ==
  ASSUME GInv, RunInv, ParsersAgree, Parse
  PROVE  phase' = "done" /\ ParsedIsReference'
<1>1. phase = "parse" /\ job' = job
  BY DEF Parse
<1>2. /\ \A n \in Tokens : Right(n, Output(n))
      /\ job.kind = "matmul" => extracted # <<>>
  BY <1>1, OutputsRight
<1> DEFINE outputs == [n \in Tokens |-> Output(n)]
           complete == /\ job.kind = "matmul" => extracted # <<>>
                       /\ \A n \in Tokens : \A row \in DOMAIN outputs[n] : outputs[n][row] # <<>>
<1>3. /\ phase' = IF complete THEN "done" ELSE "failed"
      /\ parsed' = IF complete THEN [n \in Tokens |-> [row \in DOMAIN outputs[n] |-> outputs[n][row][1]]]
                   ELSE parsed
  BY DEF Parse, Output
<1>4. ASSUME NEW n \in Tokens, NEW row \in 0 .. job.r - 1
      PROVE  /\ DOMAIN outputs[n] = 0 .. job.r - 1 /\ outputs[n][row] # <<>>
             /\ job.cut = "whole" => outputs[n][row][1] = cpu_reference(n, row)
  <2>1. DOMAIN outputs[n] = 0 .. job.r - 1
    BY <1>2 DEF Right
  <2>2. PICK v : outputs[n][row] = <<v>> /\ (job.cut = "whole" => v = cpu_reference(n, row))
    BY <1>2 DEF Right
  <2> HIDE DEF outputs
  <2> QED
    BY <2>1, <2>2
<1>5. \A n \in Tokens : DOMAIN outputs[n] = 0 .. job.r - 1
  BY <1>2 DEF Right
<1> HIDE DEF outputs
<1>6. complete
  BY <1>2, <1>4, <1>5
<1>7. phase' = "done" /\ parsed' = [n \in Tokens |-> [row \in DOMAIN outputs[n] |-> outputs[n][row][1]]]
  BY <1>3, <1>6
<1>8. job.cut # "banks"
  <2>1. 0 \in ChannelIds
    BY LayoutAssumption DEF ChannelIds
  <2> QED
    BY <1>1, <2>1, CompleteLog
<1>9. ASSUME job.cut = "whole", NEW n \in Tokens
      PROVE  /\ DOMAIN parsed'[n] = 0 .. job.r - 1
             /\ \A row \in 0 .. job.r - 1 : parsed'[n][row] = cpu_reference(n, row)
  BY <1>4, <1>5, <1>7, <1>9
<1>10. /\ Tokens' = Tokens
       /\ \A n, row : cpu_reference(n, row)' = cpu_reference(n, row)
  BY <1>1 DEF Tokens, cpu_reference, Tile
<1> QED
  BY <1>1, <1>7, <1>8, <1>9, <1>10 DEF ParsedIsReference

(* Whatever the shape, the layout, the output stage and the number of      *)
(* tokens, and for any number of channels and banks, size of the memory    *)
(* and of the log's buffer: a run that is parsed gives every token exactly *)
(* its outputs, each the product of its own weight row with its own        *)
(* activation, unless the GPRs were cut from the image.                    *)
THEOREM ParsedVectorsRight == Spec => []ParsedIsReference
<1>1. Init => ParsedIsReference
  BY DEF Init, ParsedIsReference
<1>2. GInv /\ RunInv /\ ParsersAgree /\ ParsedIsReference /\ [Next]_vars => ParsedIsReference'
  <2> SUFFICES ASSUME GInv, RunInv, ParsersAgree, ParsedIsReference, [Next]_vars PROVE ParsedIsReference'
    OBVIOUS
  <2>1. CASE Parse
    BY <2>1, ParseOK
  <2>2. CASE Ended \/ UNCHANGED vars
    <3>1. phase' = phase /\ job' = job /\ parsed' = parsed
      BY <2>2 DEF Ended, vars
    <3>2. /\ Tokens' = Tokens
          /\ \A n, row : cpu_reference(n, row)' = cpu_reference(n, row)
      BY <3>1 DEF Tokens, cpu_reference, Tile
    <3> QED
      BY <3>1, <3>2 DEF ParsedIsReference
  <2>3. CASE WriteFiles \/ Abort \/ Finalize \/ \E ch \in ChannelIds : load_from_file(ch) \/ Execute(ch)
    <3>1. phase' # "done"
      BY <2>3 DEF WriteFiles, Abort, Finalize, load_from_file, Execute
    <3> QED
      BY <3>1 DEF ParsedIsReference
  <2> QED
    BY <2>1, <2>2, <2>3 DEF Next
<1> QED
  BY <1>1, <1>2, LogInvariant, RunInvariant, ParsersCutAlike, PTL DEF Spec

(* A simulation that was not aborted always parses, in every layout.       *)
THEOREM CompleteLogsParse == Spec => CompleteLogParses
<1>1. GInv /\ RunInv /\ ParsersAgree /\ [Next]_vars => [Parse => phase' = "done"]_vars
  BY ParseOK
<1> QED
  BY <1>1, LogInvariant, RunInvariant, ParsersCutAlike, PTL DEF Spec, CompleteLogParses
=============================================================================
